CONSTANTS
    Key <- MCKey
    NULL = NULL
    Hash <- MCHash
    Sizes = {1, 3}
    LoadFactors = {0, 3, 10}
    MaxSize = 9
    UseN = FALSE
SPECIFICATION Spec
PROPERTIES
    SettingsStay
