SPECIFICATION FairSpec
CONSTANTS
    Readers = {r1, r2}
    HighWater = 1
    CancelAfterClose = FALSE
    Callers = {c1, c2}
    Ops = {"write", "writeMany", "ready", "close", "error", "cancel"}
    AwaitsCalls = TRUE
    Window = 2
    CreditFlush = 4
    BatchLen = 2
    Sizes = {1, 2}
    Batches <- MCBatches
    MaxChunks = 3
    MaxFull = 0
PROPERTIES
    ImplementsByteStream
    EveryCallSettles
    OldestReadSettles
CHECK_DEADLOCK FALSE
