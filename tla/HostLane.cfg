SPECIFICATION Spec
CONSTANTS
    Readers = {r1}
    HighWater = 1
    CancelAfterClose = TRUE
    Callers = {c1}
    Ops = {"write", "writeMany", "ready", "close", "error", "cancel", "cancelRead"}
    AwaitsCalls = FALSE
    Window = 3
    CreditFlush = 2
    BatchMax = 1
    QueueChunks = 2
    QueueBytes = 3
    Sizes = {1, 2}
    Batches <- MCBatches
    MaxChunks = 4
    MaxFull = 1
INVARIANTS
    HostLaneTypeOK
    WindowRespected
    CreditConserved
    QueuedIsScheduled
    PendingCallIsTracked
CHECK_DEADLOCK FALSE
