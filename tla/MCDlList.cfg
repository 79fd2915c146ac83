CONSTANTS
    List = {l1, l2}
    Node = {n1, n2, n3, n4, n5}
    NULL = NULL
SPECIFICATION Spec
SYMMETRY Symmetry
INVARIANTS
    TypeOK
    TwoWay
PROPERTIES
    FollowsListSpec
