SPECIFICATION Spec
CONSTANTS
    Ids = {i1, i2}
    Keys = {k1}
    Accepts = {a1, a2}
    MaxChunks = 2
    Modes = {"async", "poll"}
INVARIANTS
    PlaneConsistent
    ReadsAreAPrefix
PROPERTIES
    WaitingReaderWakes
    WaitingAcceptWakes
CHECK_DEADLOCK FALSE
