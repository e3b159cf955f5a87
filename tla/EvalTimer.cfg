SPECIFICATION Spec
CONSTANTS
    Workers = {w1, w2}
    MaxEvals = 2
    Limits = {1}
    MaxNow = 2
INVARIANTS
    NothingIsLeft
    TerminatedAfterDeadline
PROPERTIES
    RunawayEnds
CHECK_DEADLOCK FALSE
