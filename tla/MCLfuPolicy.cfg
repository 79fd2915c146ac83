CONSTANTS
    FreqNode = {n1, n2, n3, n4}
    Index = {a, b, c, d}
    NULL = NULL
    Size = 3
    DataSize = 1
    MaxHits = 8
SPECIFICATION HSpec
SYMMETRY Symmetry
INVARIANTS
    TypeOK
    KeysAreFrequencies
    PagesAgree
    NothingLeaks
PROPERTIES
    FollowsPageCache
    EvictsLeastFrequentThenLRU
