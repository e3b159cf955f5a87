SPECIFICATION Spec
CONSTANTS
    IntBits = 6
    Mantissa = 3
    BigLimit = 99
    Values <- MCValues
INVARIANTS
    ArrivesIntact
    ArrivesWellFormed
CHECK_DEADLOCK FALSE
