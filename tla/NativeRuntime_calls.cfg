SPECIFICATION Spec
CONSTANTS
    Requests = {r1, r2}
    Calls = {c1, c2}
    Emits = {}
    MaxPosts = 0
    ChannelSize = 1
    DrainMax = 1
    Ops = {"eval", "evalSync", "close"}
    CallKinds = {"sync", "async", "import"}
    StartupCalls = FALSE
INVARIANTS
    NoCallDuringEvalSync
    RunsMatchCalls
PROPERTIES
    EveryRequestSettles
CHECK_DEADLOCK FALSE
