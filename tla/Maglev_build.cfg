\* Three backends on five slots, every permutation.
SPECIFICATION Spec
CONSTANTS
    M = 5
    Word = 16
    N = 3
    Offset <- AllOffsets
    Skip <- SafeSkips
    Id = {0, 1, 2}
    Empty = 99
    Score = {0, 1, 3}
    Scale = 2
CHECK_DEADLOCK FALSE
PROPERTIES
    Terminates
INVARIANTS
    WeightedShare
    TypeOK
    InBounds
    TableComplete
