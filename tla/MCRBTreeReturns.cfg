CONSTANTS
    Node = {n1, n2, n3, n4}
    MaxKey = 4
    NULL = NULL
SPECIFICATION FairSpec
PROPERTIES
    CallsReturn
