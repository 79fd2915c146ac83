CONSTANTS
    Key <- MCKey
    NULL = NULL
    Hash <- MCHash
    Sizes = {1, 3}
    LoadFactors = {0, 3, 10}
    MaxSize = 9
    UseN = TRUE
SPECIFICATION Spec
INVARIANTS
    BucketsIndexList
