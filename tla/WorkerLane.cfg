SPECIFICATION Spec
CONSTANTS
    Readers = {r1}
    HighWater = 1
    CancelAfterClose = FALSE
    Callers = {c1}
    Ops = {"write", "ready", "close", "error", "cancel", "cancelRead"}
    AwaitsCalls = FALSE
    Window = 3
    CreditFlush = 2
    BatchLen = 2
    Sizes = {1, 2}
    Batches <- NoBatches
    MaxChunks = 4
    MaxFull = 1
INVARIANTS
    WindowRespected
    CreditConserved
    WithheldIsScheduled
CHECK_DEADLOCK FALSE
