SPECIFICATION FairSpec
CONSTANTS
    Readers = {r1}
    HighWater = 1
    CancelAfterClose = TRUE
    Callers = {c1, c2}
    Ops = {"write", "writeMany", "ready", "close", "error", "cancel"}
    AwaitsCalls = TRUE
    Window = 2
    CreditFlush = 1
    BatchMax = 2
    QueueChunks = 2
    QueueBytes = 2
    Sizes = {1, 2}
    Batches <- LongBatches
    MaxChunks = 4
    MaxFull = 0
INVARIANTS
    WaitersLackCredit
PROPERTIES
    ImplementsByteStream
    EveryCallSettles
    EverythingIsRead
    EndReleasesBothSides
CHECK_DEADLOCK FALSE
