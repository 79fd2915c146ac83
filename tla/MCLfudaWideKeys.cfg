CONSTANTS
    FreqNode = {n1, n2, n3}
    Index = {a, b, c}
    NULL = NULL
    Size = 2
    DataSize = 0
    IntHalf = 4
    KeyMax = 7
    NestedMisses = FALSE
SPECIFICATION HSpec
SYMMETRY Symmetry
PROPERTIES
    EvictsLowestKey
