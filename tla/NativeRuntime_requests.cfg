SPECIFICATION Spec
CONSTANTS
    Requests = {r1, r2}
    Calls = {}
    Emits = {e1}
    MaxPosts = 2
    ChannelSize = 1
    DrainMax = 1
    Ops = {"eval", "memory", "gc", "close", "evalSync", "post", "stream", "force"}
    CallKinds = {}
    StartupCalls = FALSE
INVARIANTS
    RequestsConsistent
    DataBeforeControl
    EventsBeforeResult
PROPERTIES
    EveryRequestSettles
CHECK_DEADLOCK FALSE
