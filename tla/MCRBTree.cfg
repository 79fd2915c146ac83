CONSTANTS
    Node = {n1, n2, n3, n4, n5, n6}
    MaxKey = 6
    NULL = NULL
SPECIFICATION Spec
SYMMETRY Symmetry
INVARIANTS
    TypeOK
    SearchTree
    SearchesFind
    RelativesExist
    InsertKeepsValid
    DumpShowsTree
PROPERTIES
    FollowsEntrySet
