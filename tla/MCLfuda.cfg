CONSTANTS
    FreqNode = {n1, n2, n3, n4}
    Index = {a, b, c, d}
    NULL = NULL
    Size = 3
    DataSize = 1
    IntHalf = 16
    KeyMax = 5
    NestedMisses = FALSE
SPECIFICATION HSpec
SYMMETRY Symmetry
INVARIANTS
    TypeOK
    FreqListIndexed
    LocalListsPartition
    TableAgrees
    PagesAgree
    KeysAged
    NothingLeaks
    DumpShowsCache
    LocalListsByRecency
    NoPageOverstays
PROPERTIES
    KeysRise
    EvictsLowestKey
    PointersStay
    FollowsPageCache
    FollowsLfuda
    EvictsLowestKeyThenLRU
    FollowsOracle
