SPECIFICATION FairSpec
CONSTANTS
    Readers = {r1, r2}
    HighWater = 1
    CancelAfterClose = FALSE
    Callers = {c1}
    Ops = {"write", "close", "error"}
    AwaitsCalls = TRUE
    Window = 2
    CreditFlush = 1
    BatchLen = 2
    Sizes = {1}
    Batches <- NoBatches
    MaxChunks = 2
    MaxFull = 0
PROPERTIES
    EndResolvesPendingReads
CHECK_DEADLOCK FALSE
