--------------------------- MODULE NativeRuntime ---------------------------
(***************************************************************************)
(* One native worker: the Node thread that calls the addon, the worker      *)
(* thread with its control and data channels, the pump that hands the       *)
(* worker's messages to the Node thread, and the dispatcher that the        *)
(* worker's synchronous ops use.                                            *)
(***************************************************************************)
EXTENDS Naturals, Sequences, FiniteSets

CONSTANTS
    Requests,       \* calls that expect an answer: eval, close, ...
    Calls,          \* host calls and import requests of the worker's code
    Emits,          \* hostPostMessage calls of the worker's code
    MaxPosts,       \* bound: data messages posted by the application
    ChannelSize,    \* bridge.channelSize, of each of the three channels
    DrainMax,       \* data messages handled before a control message
    Ops,            \* what the application does
    CallKinds,      \* what the worker's code does: "sync", "async", "import"
    StartupCalls    \* whether the startup module does it too

ASSUME SizesAreNatural ==
    /\ MaxPosts \in Nat
    /\ ChannelSize \in Nat \ {0}
    /\ DrainMax \in Nat
    /\ StartupCalls \in BOOLEAN

\* 0 stands for "no request" in a message.
ASSUME ZeroIsNoRequest == 0 \notin Requests

\* What the worker's code may do, of which CallKinds is what it does.
ASSUME KindsAreCalls == CallKinds \subseteq {"sync", "async", "import"}

VARIABLES
    registered,     \* the entry of WORKERS exists
    closed,         \* WorkerHandle.closed
    evalSyncActive, \* WorkerHandle.eval_sync_active
    control, data,  \* the channels to the worker thread
    nodeCh,         \* the channel to the pump
    js,             \* tasks on the Neon channel, run by the Node thread
    node,           \* what the Node thread is blocked in
    promise,        \* the caller's view of each request
    syncReply,      \* the oneshot of evalSync
    worker,         \* the worker thread
    pump,           \* the node pump: "off", "check", "recv", "drain", "done"
    stop,           \* the pump's stop flag
    dispatcher,     \* requests to the sync dispatch thread
    call, emit,     \* the worker code's calls and emitted messages
    posted, delivered,
    before,         \* history: data messages posted before each request
    invoked, seen,  \* history: functions called, messages heard on the Node side
    earlier         \* history: calls under way when evalSync() was last called

tableVars   == <<registered, closed, evalSyncActive>>
requestVars == <<promise, node, syncReply, before>>
workerCode  == <<dispatcher, call, emit>>
history     == <<invoked, seen, earlier>>
pumpVars    == <<pump, stop>>
vars == <<tableVars, control, data, nodeCh, js, requestVars, worker, pumpVars,
          workerCode, posted, delivered, history>>

Msg(t, id) == [t |-> t, id |-> id]
Nothing    == Msg("none", 0)
Free       == [st |-> "free", msg |-> Nothing]

Room(ch)    == Len(ch) < ChannelSize
WorkerLives == worker.pc # "gone"
PumpLives   == pump # "done" /\ WorkerLives

\* A dropped settler rejects its promise on the Neon channel.
Rejections(ch, type) ==
    LET upTo[n \in 0..Len(ch)] ==
            IF n = 0 THEN <<>>
            ELSE IF ch[n].t \in type THEN Append(upTo[n - 1], Msg("reject", ch[n].id))
                                     ELSE upTo[n - 1]
    IN  upTo[Len(ch)]
Awaited == {"eval", "memory", "gc", "close"}

Init ==
    /\ registered = TRUE /\ closed = FALSE /\ evalSyncActive = FALSE
    /\ control = <<>> /\ data = <<>> /\ nodeCh = <<>> /\ js = <<>>
    /\ node = Free
    /\ promise = [r \in Requests |-> "none"]
    /\ syncReply = "none"
    /\ worker = [pc |-> "boot", msg |-> Nothing, left |-> 0, waits |-> FALSE]
    /\ pump = "off" /\ stop = FALSE
    /\ dispatcher = <<>>
    /\ call = [c \in Calls |-> [kind |-> "none", st |-> "none"]]
    /\ emit = [e \in Emits |-> [st |-> "none", by |-> Nothing]]
    /\ posted = 0 /\ delivered = 0
    /\ before = [r \in Requests |-> 0]
    /\ invoked = [c \in Calls |-> 0]
    /\ seen = {} /\ earlier = {}

-----------------------------------------------------------------------------
(***************************************************************************)
(* The Node thread calls the addon.                                        *)
(***************************************************************************)
MayCall(op) == op \in Ops /\ node = Free

\* Calls whose op has looked at the flag of evalSync and found it down.
UnderWay        == {c \in Calls : call[c].st \in {"handing", "sending", "sent", "running"}}
OutstandingCall == \E c \in Calls : c \in UnderWay \/ call[c].st = "made"

Settle(r, how) == promise' = [promise EXCEPT ![r] = how]

\* Mutant of QueueDenoMsgOrReject: a message that finds the channel full is lost.
QueueDenoMsgOrDrop(op, r) ==
    /\ MayCall(op)
    /\ promise[r] = "none"
    /\ Settle(r, "pending")
    /\ before' = [before EXCEPT ![r] = posted]
    /\ \/ /\ registered /\ WorkerLives /\ Room(control)
          /\ control' = Append(control, Msg(op, r))
          /\ UNCHANGED js
       \/ /\ ~registered \/ ~WorkerLives
          /\ js' = Append(js, Msg("reject", r))
          /\ UNCHANGED control
       \/ /\ registered /\ WorkerLives /\ ~Room(control)
          /\ UNCHANGED <<control, js>>
    /\ UNCHANGED <<tableVars, data, nodeCh, node, syncReply, worker, pumpVars,
                   workerCode, posted, delivered, history>>

\* queue_deno_msg_or_reject with its backpressure: a full channel blocks the
\* Node thread, a closed one rejects on the Neon channel.
QueueDenoMsgOrReject(op, r) ==
    /\ MayCall(op)
    /\ promise[r] = "none"
    /\ Settle(r, "pending")
    /\ before' = [before EXCEPT ![r] = posted]
    /\ \/ /\ registered /\ WorkerLives /\ Room(control)
          /\ control' = Append(control, Msg(op, r))
          /\ UNCHANGED <<node, js>>
       \/ /\ registered /\ WorkerLives /\ ~Room(control)
          /\ node' = [st |-> "queueing", msg |-> Msg(op, r)]
          /\ UNCHANGED <<control, js>>
       \/ /\ ~registered \/ ~WorkerLives
          /\ js' = Append(js, Msg("reject", r))
          /\ UNCHANGED <<node, control>>
    /\ UNCHANGED <<tableVars, data, nodeCh, syncReply, worker, pumpVars,
                   workerCode, posted, delivered, history>>

Eval(r)    == QueueDenoMsgOrReject("eval", r)
Memory(r)  == QueueDenoMsgOrReject("memory", r)
Gc(r)      == QueueDenoMsgOrReject("gc", r)
Close(r)   == QueueDenoMsgOrReject("close", r)

\* evalSync(): raises the flag, then blocks until the worker has answered.
EvalSync(r) ==
    /\ MayCall("evalSync")
    /\ promise[r] = "none"
    /\ before' = [before EXCEPT ![r] = posted]
    /\ earlier' = UnderWay
    /\ IF registered /\ WorkerLives
       THEN /\ evalSyncActive' = TRUE
            /\ Settle(r, "pending")
            /\ IF Room(control)
               THEN /\ control' = Append(control, Msg("evalSync", r))
                    /\ node' = [st |-> "awaiting", msg |-> Msg("evalSync", r)]
               ELSE /\ node' = [st |-> "queueing", msg |-> Msg("evalSync", r)]
                    /\ UNCHANGED control
       ELSE /\ Settle(r, "rejected")
            /\ UNCHANGED <<evalSyncActive, control, node>>
    /\ UNCHANGED <<registered, closed, data, nodeCh, js, syncReply, worker, pumpVars,
                   workerCode, posted, delivered, invoked, seen>>

\* The blocked send of a request gets through, or finds the channel closed.
ControlUnblocks ==
    /\ node.st = "queueing" /\ node.msg.t # "post"
    /\ \/ /\ WorkerLives /\ Room(control)
          /\ control' = Append(control, node.msg)
          /\ node' = IF node.msg.t = "evalSync" THEN [node EXCEPT !.st = "awaiting"] ELSE Free
          /\ UNCHANGED <<js, promise, evalSyncActive>>
       \/ /\ ~WorkerLives
          /\ node' = Free
          /\ UNCHANGED control
          /\ IF node.msg.t = "evalSync"
             THEN /\ Settle(node.msg.id, "rejected")
                  /\ evalSyncActive' = FALSE
                  /\ UNCHANGED js
             ELSE /\ js' = Append(js, Msg("reject", node.msg.id))
                  /\ UNCHANGED <<promise, evalSyncActive>>
    /\ UNCHANGED <<registered, closed, data, nodeCh, syncReply, before, worker, pumpVars,
                   workerCode, posted, delivered, history>>

EvalSyncReturns ==
    /\ node.st = "awaiting"
    /\ syncReply # "none"
    /\ Settle(node.msg.id, IF syncReply = "sent" THEN "fulfilled" ELSE "rejected")
    /\ syncReply' = "none"
    /\ evalSyncActive' = FALSE
    /\ node' = Free
    /\ UNCHANGED <<registered, closed, control, data, nodeCh, js, before, worker, pumpVars,
                   workerCode, posted, delivered, history>>

\* postMessage() and postMessageTyped() block on a full data channel ...
PostMessage ==
    /\ MayCall("post")
    /\ posted < MaxPosts
    /\ registered /\ WorkerLives
    /\ \/ /\ Room(data)
          /\ posted' = posted + 1
          /\ data' = Append(data, posted')
          /\ UNCHANGED node
       \/ /\ ~Room(data)
          /\ node' = [st |-> "queueing", msg |-> Msg("post", 0)]
          /\ UNCHANGED <<posted, data>>
    /\ UNCHANGED <<tableVars, control, nodeCh, js, promise, syncReply, before, worker, pumpVars,
                   workerCode, delivered, history>>

PostUnblocks ==
    /\ node = [st |-> "queueing", msg |-> Msg("post", 0)]
    /\ node' = Free
    /\ \/ /\ WorkerLives /\ Room(data)
          /\ posted' = posted + 1
          /\ data' = Append(data, posted')
       \/ /\ ~WorkerLives
          /\ UNCHANGED <<posted, data>>
    /\ UNCHANGED <<tableVars, control, nodeCh, js, promise, syncReply, before, worker, pumpVars,
                   workerCode, delivered, history>>

\* ... stream frames do not: send_with_backpressure answers false.
PostStreamFrame ==
    /\ MayCall("stream")
    /\ posted < MaxPosts
    /\ registered /\ WorkerLives /\ Room(data)
    /\ posted' = posted + 1
    /\ data' = Append(data, posted')
    /\ UNCHANGED <<tableVars, control, nodeCh, js, requestVars, worker, pumpVars,
                   workerCode, delivered, history>>

ForceDispose ==
    /\ MayCall("force")
    /\ registered
    /\ closed' = TRUE
    /\ registered' = FALSE
    /\ UNCHANGED <<evalSyncActive, control, data, nodeCh, js, requestVars, worker, pumpVars,
                   workerCode, posted, delivered, history>>

-----------------------------------------------------------------------------
(***************************************************************************)
(* The worker thread.                                                      *)
(***************************************************************************)
Goto(pc) == worker' = [worker EXCEPT !.pc = pc]
Rest     == [pc |-> "idle", msg |-> Nothing, left |-> 0, waits |-> FALSE]

\* The thread function returns: its receivers go, and with them the settlers
\* of the requests that were still queued.
ThreadEnds ==
    /\ worker' = [Rest EXCEPT !.pc = "gone"]
    /\ js' = js \o Rejections(control, Awaited) \o Rejections(nodeCh, {"resolve"})
    /\ syncReply' = IF \E i \in DOMAIN control : control[i].t = "evalSync"
                    THEN "dropped" ELSE syncReply
    /\ control' = <<>> /\ data' = <<>> /\ nodeCh' = <<>>

\* The entry of WORKERS is looked up once; a worker that was disposed of
\* already, or whose cwd is unusable, ends here.
Boot ==
    /\ worker.pc = "boot"
    /\ \/ /\ registered
          /\ worker' = [worker EXCEPT !.pc = "startup", !.waits = TRUE]
          /\ UNCHANGED <<js, syncReply, control, data, nodeCh>>
       \/ ThreadEnds
    /\ UNCHANGED <<tableVars, node, promise, before, pumpVars, workerCode,
                   posted, delivered, history>>

\* The worker's code stands in a synchronous op.
Blocked ==
    \/ \E c \in Calls : call[c].kind = "sync" /\ call[c].st \in {"handing", "sent"}
    \/ \E e \in Emits : emit[e].st = "handing"

StartupDone ==
    /\ worker.pc = "startup" /\ ~Blocked /\ ~OutstandingCall
    /\ worker' = Rest
    /\ pump' = "check"
    /\ UNCHANGED <<tableVars, control, data, nodeCh, js, requestVars, stop,
                   workerCode, posted, delivered, history>>

StartupFails ==
    /\ worker.pc = "startup" /\ ~Blocked
    /\ ThreadEnds
    /\ closed' = (closed \/ registered)
    /\ UNCHANGED <<registered, evalSyncActive, node, promise, before, pumpVars, workerCode,
                   posted, delivered, history>>

\* Mutant of TakeControl: the control message overtakes the queued data.
TakeControlAtOnce ==
    /\ worker.pc = "idle" /\ control # <<>>
    /\ worker' = [worker EXCEPT !.pc = "handle", !.msg = Head(control)]
    /\ control' = Tail(control)
    /\ UNCHANGED <<tableVars, data, nodeCh, js, requestVars, pumpVars, workerCode,
                   posted, delivered, history>>

\* select!, biased: control first, and before it the data that is queued.
TakeControl ==
    /\ worker.pc = "idle" /\ control # <<>>
    /\ worker' = [worker EXCEPT !.pc = "drain", !.msg = Head(control), !.left = DrainMax]
    /\ control' = Tail(control)
    /\ UNCHANGED <<tableVars, data, nodeCh, js, requestVars, pumpVars, workerCode,
                   posted, delivered, history>>

Deliver ==
    /\ delivered' = Head(data)
    /\ data' = Tail(data)

Drain ==
    /\ worker.pc = "drain" /\ worker.left > 0 /\ data # <<>>
    /\ Deliver
    /\ worker' = [worker EXCEPT !.left = @ - 1]
    /\ UNCHANGED <<tableVars, control, nodeCh, js, requestVars, pumpVars, workerCode,
                   posted, history>>

DrainEnds ==
    /\ worker.pc = "drain" /\ (worker.left = 0 \/ data = <<>>)
    /\ worker' = [worker EXCEPT !.pc = "handle", !.left = 0]
    /\ UNCHANGED <<tableVars, control, data, nodeCh, js, requestVars, pumpVars, workerCode,
                   posted, delivered, history>>

TakeData ==
    /\ worker.pc = "idle" /\ control = <<>> /\ data # <<>>
    /\ Deliver
    /\ UNCHANGED <<tableVars, control, nodeCh, js, requestVars, worker, pumpVars, workerCode,
                   posted, history>>

\* Both senders are gone with the entry of WORKERS: the loop ends.
Disconnect ==
    /\ worker.pc = "idle" /\ ~registered /\ node.st # "queueing"
    /\ control = <<>> /\ data = <<>>
    /\ Goto("stopping")
    /\ UNCHANGED <<tableVars, control, data, nodeCh, js, requestVars, pumpVars, workerCode,
                   posted, delivered, history>>

HandleEval ==
    /\ worker.pc = "handle" /\ worker.msg.t \in {"eval", "evalSync"}
    /\ \E w \in BOOLEAN : worker' = [worker EXCEPT !.pc = "eval", !.waits = w]
    /\ UNCHANGED <<tableVars, control, data, nodeCh, js, requestVars, pumpVars, workerCode,
                   posted, delivered, history>>

HandleMemory ==
    /\ worker.pc = "handle" /\ worker.msg.t = "memory"
    /\ Goto("reply")
    /\ UNCHANGED <<tableVars, control, data, nodeCh, js, requestVars, pumpVars, workerCode,
                   posted, delivered, history>>

HandleGc ==
    /\ worker.pc = "handle" /\ worker.msg.t = "gc"
    /\ js' = Append(js, Msg("resolve", worker.msg.id))
    /\ worker' = Rest
    /\ UNCHANGED <<tableVars, control, data, nodeCh, requestVars, pumpVars, workerCode,
                   posted, delivered, history>>

\* handle_close_msg resolves first, then marks the handle and emits the event,
\* through the pump or, when its channel is full, on the Neon channel.
HandleClose ==
    /\ worker.pc = "handle" /\ worker.msg.t = "close"
    /\ js' = Append(js, Msg("resolve", worker.msg.id))
    /\ worker' = [Rest EXCEPT !.pc = "closing"]
    /\ UNCHANGED <<tableVars, control, data, nodeCh, requestVars, pumpVars, workerCode,
                   posted, delivered, history>>

EmitClose ==
    /\ worker.pc = "closing"
    /\ Goto("stopping")
    /\ closed' = (closed \/ registered)
    /\ \/ /\ registered /\ Room(nodeCh)
          /\ nodeCh' = Append(nodeCh, Msg("emitClose", 0))
          /\ UNCHANGED js
       \/ /\ registered /\ ~Room(nodeCh)
          /\ js' = Append(js, Msg("emitClose", 0))
          /\ UNCHANGED nodeCh
       \/ ~registered /\ UNCHANGED <<nodeCh, js>>
    /\ UNCHANGED <<registered, evalSyncActive, control, data, requestVars, pumpVars, workerCode,
                   posted, delivered, history>>

\* The source has run; a promise it returned is settled only when the event
\* loop has no operation left, of this or of an earlier eval.
EvalEnds ==
    /\ worker.pc = "eval" /\ ~Blocked
    /\ worker.waits => ~OutstandingCall
    /\ IF worker.msg.t = "evalSync"
       THEN syncReply' = "sent" /\ worker' = Rest
       ELSE Goto("reply") /\ UNCHANGED syncReply
    /\ UNCHANGED <<tableVars, control, data, nodeCh, js, node, promise, before, pumpVars,
                   workerCode, posted, delivered, history>>

\* Mutant of Reply: the promise is settled on the Neon channel, past the pump.
ReplyDirectly ==
    /\ worker.pc = "reply"
    /\ worker' = Rest
    /\ js' = Append(js, Msg(IF registered THEN "resolve" ELSE "reject", worker.msg.id))
    /\ UNCHANGED <<tableVars, control, data, nodeCh, requestVars, pumpVars, workerCode,
                   posted, delivered, history>>

Reply ==
    /\ worker.pc = "reply"
    /\ IF registered
       THEN Goto("sending") /\ UNCHANGED js
       ELSE worker' = Rest /\ js' = Append(js, Msg("reject", worker.msg.id))
    /\ UNCHANGED <<tableVars, control, data, nodeCh, requestVars, pumpVars, workerCode,
                   posted, delivered, history>>

SendNodeMsgOrReject ==
    /\ worker.pc = "sending" /\ Room(nodeCh)
    /\ nodeCh' = Append(nodeCh, Msg("resolve", worker.msg.id))
    /\ worker' = Rest
    /\ UNCHANGED <<tableVars, control, data, js, requestVars, pumpVars, workerCode,
                   posted, delivered, history>>

Stop ==
    /\ worker.pc = "stopping"
    /\ Goto("join")
    /\ stop' = TRUE
    /\ UNCHANGED <<tableVars, control, data, nodeCh, js, requestVars, pump, workerCode,
                   posted, delivered, history>>

Join ==
    /\ worker.pc = "join" /\ pump = "done"
    /\ ThreadEnds
    /\ UNCHANGED <<tableVars, node, promise, before, pumpVars, workerCode,
                   posted, delivered, history>>

-----------------------------------------------------------------------------
(***************************************************************************)
(* The worker's code calls the Node side.                                  *)
(***************************************************************************)
Running ==
    /\ worker.pc = "eval" \/ (worker.pc = "startup" /\ StartupCalls)
    /\ ~Blocked

\* The event loop runs: asynchronous ops are polled and modules are loaded.
LoopRuns == worker.pc \in {"eval", "startup"} /\ worker.waits /\ ~Blocked

\* The ops are polled as well while the thread awaits a channel.
Polled(c) ==
    \/ LoopRuns
    \/ call[c].kind # "import" /\ worker.pc \in {"idle", "sending"}

\* Mutant of HostCall: the flag is not looked at.
HostCallUnguarded(c, kind) ==
    /\ Running
    /\ call[c].st = "none"
    /\ call' = [call EXCEPT ![c] = [kind |-> kind,
                                    st |-> IF kind = "sync" THEN "handing" ELSE "made"]]
    /\ dispatcher' = IF kind = "sync" THEN Append(dispatcher, Msg("sync", c)) ELSE dispatcher
    /\ UNCHANGED <<tableVars, control, data, nodeCh, js, requestVars, worker, pumpVars, emit,
                   posted, delivered, history>>

\* Mutant of HostCall: the request is queued before the flag is looked at.
HostCallQueuedFirst(c, kind) ==
    /\ Running
    /\ call[c].st = "none"
    /\ call' = [call EXCEPT ![c] = [kind |-> kind,
                 st |-> IF kind # "sync" THEN "made"
                        ELSE IF evalSyncActive THEN "refused" ELSE "handing"]]
    /\ dispatcher' = IF kind = "sync" THEN Append(dispatcher, Msg("sync", c)) ELSE dispatcher
    /\ UNCHANGED <<tableVars, control, data, nodeCh, js, requestVars, worker, pumpVars, emit,
                   posted, delivered, history>>

\* A synchronous call goes through the dispatch thread, unless an evalSync() is
\* active.  An asynchronous call and an import request start with the first
\* poll of their op or loader.
HostCall(c, kind) ==
    /\ Running
    /\ call[c].st = "none"
    /\ call' = [call EXCEPT ![c] = [kind |-> kind,
                 st |-> IF kind # "sync" THEN "made"
                        ELSE IF evalSyncActive THEN "refused" ELSE "handing"]]
    /\ dispatcher' = IF kind = "sync" /\ ~evalSyncActive
                     THEN Append(dispatcher, Msg("sync", c)) ELSE dispatcher
    /\ UNCHANGED <<tableVars, control, data, nodeCh, js, requestVars, worker, pumpVars, emit,
                   posted, delivered, history>>

CallGets(c, st) == call' = [call EXCEPT ![c].st = st]

\* Mutant of OpStarts: the flag is not looked at.
OpStartsUnguarded(c) ==
    /\ call[c].st = "made" /\ Polled(c)
    /\ CallGets(c, "sending")
    /\ UNCHANGED <<tableVars, control, data, nodeCh, js, requestVars, worker, pumpVars, dispatcher,
                   emit, posted, delivered, history>>

\* The first poll refuses the call while an evalSync() is active ...
OpStarts(c) ==
    /\ call[c].st = "made" /\ Polled(c)
    /\ CallGets(c, IF evalSyncActive THEN "refused" ELSE "sending")
    /\ UNCHANGED <<tableVars, control, data, nodeCh, js, requestVars, worker, pumpVars, dispatcher,
                   emit, posted, delivered, history>>

\* ... else it, or a later one, puts the request into the channel to the pump.
AsyncSent(c) ==
    /\ call[c].st = "sending" /\ call[c].kind \in {"async", "import", "retry"} /\ Polled(c)
    /\ Room(nodeCh)
    /\ nodeCh' = Append(nodeCh, Msg(call[c].kind, c))
    /\ CallGets(c, "sent")
    /\ UNCHANGED <<tableVars, control, data, js, requestVars, worker, pumpVars, dispatcher, emit,
                   posted, delivered, history>>

\* Five seconds for the delivery, and five more for the answer, of a
\* synchronous call; five for the decision on an import.
CallTimesOut(c) ==
    /\ \/ call[c].kind = "sync" /\ call[c].st \in {"handing", "sent"}
       \/ call[c].kind = "import" /\ call[c].st \in {"sent", "running"} /\ LoopRuns
    /\ CallGets(c, "failed")
    /\ UNCHANGED <<tableVars, control, data, nodeCh, js, requestVars, worker, pumpVars, dispatcher,
                   emit, posted, delivered, history>>

\* hostPostMessage() waits two seconds until the pump's channel has its message.
PostToNode(e) ==
    /\ Running
    /\ emit[e].st = "none"
    /\ emit' = [emit EXCEPT ![e] = [st |-> "handing", by |-> worker.msg]]
    /\ dispatcher' = Append(dispatcher, Msg("message", e))
    /\ UNCHANGED <<tableVars, control, data, nodeCh, js, requestVars, worker, pumpVars, call,
                   posted, delivered, history>>

PostToNodeTimesOut(e) ==
    /\ emit[e].st = "handing"
    /\ emit' = [emit EXCEPT ![e].st = "failed"]
    /\ UNCHANGED <<tableVars, control, data, nodeCh, js, requestVars, worker, pumpVars, dispatcher,
                   call, posted, delivered, history>>

\* The sync dispatch thread: a blocking send to the pump, then the acknowledgment.
Dispatch ==
    /\ dispatcher # <<>>
    /\ LET m   == Head(dispatcher)
           ack == IF PumpLives THEN "sent" ELSE "failed"
       IN /\ PumpLives => Room(nodeCh)
          /\ nodeCh' = IF PumpLives THEN Append(nodeCh, m) ELSE nodeCh
          /\ IF m.t = "sync"
             THEN /\ call' = [call EXCEPT ![m.id].st = IF @ = "handing" THEN ack ELSE @]
                  /\ UNCHANGED emit
             ELSE /\ emit' = [emit EXCEPT ![m.id].st = IF @ = "handing" THEN ack ELSE @]
                  /\ UNCHANGED call
    /\ dispatcher' = Tail(dispatcher)
    /\ UNCHANGED <<tableVars, control, data, js, requestVars, worker, pumpVars,
                   posted, delivered, history>>

-----------------------------------------------------------------------------
(***************************************************************************)
(* The pump and the tasks it puts on the Neon channel.                     *)
(***************************************************************************)
CallTypes == {"sync", "async", "import", "retry"}

\* dispatch_node_msg: what arrives for a worker that is no longer registered
\* is dropped, with the settler or the reply channel it holds.
DispatchNodeMsg ==
    LET m == Head(nodeCh) IN
    /\ nodeCh' = Tail(nodeCh)
    /\ \/ /\ registered
          /\ js' = Append(js, m)
          /\ UNCHANGED call
       \/ /\ ~registered
          /\ js' = IF m.t = "resolve" THEN Append(js, Msg("reject", m.id)) ELSE js
          /\ call' = IF m.t \in CallTypes
                     THEN [call EXCEPT ![m.id].st = IF @ \in {"handing", "sent"} THEN "failed" ELSE @]
                     ELSE call

PumpChecks ==
    /\ pump = "check"
    /\ pump' = IF stop THEN "drain" ELSE "recv"
    /\ UNCHANGED <<tableVars, control, data, nodeCh, js, requestVars, worker, stop, workerCode,
                   posted, delivered, history>>

PumpReceives ==
    /\ pump = "recv" /\ nodeCh # <<>>
    /\ DispatchNodeMsg
    /\ pump' = "check"
    /\ UNCHANGED <<tableVars, control, data, requestVars, worker, stop, dispatcher, emit,
                   posted, delivered, history>>

PumpDrains ==
    /\ pump = "drain"
    /\ \/ /\ nodeCh # <<>>
          /\ DispatchNodeMsg
          /\ UNCHANGED pump
       \/ /\ nodeCh = <<>>
          /\ pump' = "done"
          /\ UNCHANGED <<nodeCh, js, call>>
    /\ UNCHANGED <<tableVars, control, data, requestVars, worker, stop, dispatcher, emit,
                   posted, delivered, history>>

\* handle_invoke_async and handle_import_request answer later when the function
\* returned a promise.
InvokeLater(m) ==
    \E later \in BOOLEAN :
        CallGets(m.id, IF call[m.id].st # "sent" THEN call[m.id].st
                       ELSE IF later THEN "running" ELSE "answered")

\* handle_invoke_sync answers such a function with an error at once, upon which
\* the wrapper in the worker makes the call again, as an asynchronous one.
InvokeAtOnce(m) ==
    \/ CallGets(m.id, IF call[m.id].st = "sent" THEN "answered" ELSE call[m.id].st)
    \/ /\ call[m.id] = [kind |-> "sync", st |-> "sent"]
       /\ call' = [call EXCEPT ![m.id] = [kind |-> "retry", st |-> "made"]]

\* The function runs, even if nobody waits for its answer any more.
Invoke(m) ==
    /\ invoked' = [invoked EXCEPT ![m.id] = @ + 1]
    /\ IF m.t = "sync" THEN InvokeAtOnce(m) ELSE InvokeLater(m)

RunTask ==
    /\ js # <<>> /\ node = Free
    /\ js' = Tail(js)
    /\ LET m == Head(js) IN
       \/ /\ m.t \in {"resolve", "reject"}
          /\ Settle(m.id, IF m.t = "resolve" THEN "fulfilled" ELSE "rejected")
          /\ UNCHANGED <<registered, call, invoked, seen>>
       \/ /\ m.t = "message"
          /\ seen' = seen \cup {m.id}
          /\ UNCHANGED <<registered, promise, call, invoked>>
       \/ /\ m.t \in CallTypes
          /\ Invoke(m)
          /\ UNCHANGED <<registered, promise, seen>>
       \/ /\ m.t = "emitClose"
          /\ registered' = FALSE
          /\ UNCHANGED <<promise, call, invoked, seen>>
    /\ UNCHANGED <<closed, evalSyncActive, control, data, nodeCh, node, syncReply, before, worker,
                   pumpVars, dispatcher, emit, posted, delivered, earlier>>

\* The promise of an asynchronous host function or imports callback settles.
HostSettles(c) ==
    /\ node = Free
    /\ call[c].st = "running"
    /\ CallGets(c, "answered")
    /\ UNCHANGED <<tableVars, control, data, nodeCh, js, requestVars, worker, pumpVars, dispatcher,
                   emit, posted, delivered, history>>

-----------------------------------------------------------------------------
NodeThread ==
    \/ ControlUnblocks \/ EvalSyncReturns \/ PostUnblocks
    \/ RunTask
    \/ \E c \in Calls : HostSettles(c)

Application ==
    \/ \E r \in Requests : Eval(r) \/ Memory(r) \/ Gc(r) \/ Close(r) \/ EvalSync(r)
    \/ PostMessage \/ PostStreamFrame \/ ForceDispose

WorkerThread ==
    \/ Boot \/ StartupDone \/ TakeControl \/ Drain \/ DrainEnds \/ TakeData \/ Disconnect
    \/ HandleEval \/ HandleMemory \/ HandleGc \/ HandleClose \/ EmitClose
    \/ EvalEnds \/ Reply \/ SendNodeMsgOrReject \/ Stop \/ Join
    \/ \E c \in Calls : OpStarts(c) \/ AsyncSent(c) \/ CallTimesOut(c)
    \/ \E e \in Emits : PostToNodeTimesOut(e)

WorkerCode ==
    \/ \E c \in Calls, kind \in CallKinds : HostCall(c, kind)
    \/ \E e \in Emits : PostToNode(e)

Pump == PumpChecks \/ PumpReceives \/ PumpDrains

Next == Application \/ NodeThread \/ WorkerThread \/ StartupFails \/ WorkerCode \/ Dispatch \/ Pump

\* Every thread keeps running, timers fire, and the code of the application
\* and of the worker comes to an end; no call has to be made.
Fairness ==
    /\ WF_vars(NodeThread) /\ WF_vars(WorkerThread) /\ WF_vars(Dispatch) /\ WF_vars(Pump)

Spec == Init /\ [][Next]_vars /\ Fairness

-----------------------------------------------------------------------------
(***************************************************************************)
(* Properties.                                                             *)
(***************************************************************************)
\* The messages of each channel.
ControlMsgs  == [t : Awaited \cup {"evalSync"}, id : Requests]
CallMsgs     == [t : CallTypes, id : Calls]
EmitMsgs     == [t : {"message"}, id : Emits]
DispatchMsgs == [t : {"sync"}, id : Calls] \cup EmitMsgs
NodeMsgs     == [t : {"resolve"}, id : Requests] \cup CallMsgs \cup EmitMsgs
                    \cup {Msg("emitClose", 0)}
Tasks        == [t : {"reject"}, id : Requests] \cup NodeMsgs

NodeStates ==
    {Free} \cup [st : {"queueing"}, msg : ControlMsgs \cup {Msg("post", 0)}]
           \cup [st : {"awaiting"}, msg : [t : {"evalSync"}, id : Requests]]

\* The worker thread holds a request from the drain to the reply.
WorkerStates ==
    [pc : {"boot", "startup", "idle", "closing", "stopping", "join", "gone"},
     msg : {Nothing}, left : {0}, waits : BOOLEAN]
    \cup [pc : {"drain", "handle", "eval", "reply", "sending"},
          msg : ControlMsgs, left : Nat, waits : BOOLEAN]

\* Every variable has its type, the channels keep to their capacity, and the
\* Node thread, the worker thread and the pump are at one of their steps.
NativeRuntimeTypeOK ==
    /\ registered \in BOOLEAN /\ closed \in BOOLEAN /\ evalSyncActive \in BOOLEAN
    /\ control \in Seq(ControlMsgs) /\ Len(control) <= ChannelSize
    /\ data \in Seq(Nat) /\ Len(data) <= ChannelSize
    /\ nodeCh \in Seq(NodeMsgs) /\ Len(nodeCh) <= ChannelSize
    /\ js \in Seq(Tasks) /\ dispatcher \in Seq(DispatchMsgs)
    /\ node \in NodeStates /\ worker \in WorkerStates
    /\ promise \in [Requests -> {"none", "pending", "fulfilled", "rejected"}]
    /\ syncReply \in {"none", "sent", "dropped"}
    /\ pump \in {"off", "check", "recv", "drain", "done"} /\ stop \in BOOLEAN
    /\ call \in [Calls -> [kind : {"none"} \cup CallTypes,
                            st : {"none", "refused", "made", "handing", "sending", "sent",
                                  "running", "answered", "failed"}]]
    /\ emit \in [Emits -> [st : {"none", "handing", "sent", "failed"},
                           by : ControlMsgs \cup {Nothing}]]
    /\ posted \in Nat /\ delivered \in Nat /\ before \in [Requests -> Nat]
    /\ invoked \in [Calls -> Nat] /\ seen \subseteq Emits /\ earlier \subseteq Calls

\* How many messages of S a channel holds.
Count(ch, S) == Cardinality({i \in DOMAIN ch : ch[i] \in S})

Holders(r) ==
    Count(control, [t : Awaited \cup {"evalSync"}, id : {r}])
    + Count(nodeCh, {Msg("resolve", r)})
    + Count(js, {Msg("resolve", r), Msg("reject", r)})
    + (IF worker.msg.id = r THEN 1 ELSE 0)
    + (IF node.st = "queueing" /\ node.msg.id = r THEN 1 ELSE 0)
    + (IF node.st = "awaiting" /\ node.msg.id = r /\ syncReply # "none" THEN 1 ELSE 0)

\* A promise given to the application is pending exactly as long as one
\* message, in one channel or in one thread's hands, can settle it: none is
\* lost on a full channel or a closing worker, and none is settled twice.
PendingHasOneOwner ==
    \A r \in Requests : Holders(r) = IF promise[r] = "pending" THEN 1 ELSE 0

\* Every variable has its type, the channels their bound, and a pending promise
\* its one owner.
RequestsConsistent == NativeRuntimeTypeOK /\ PendingHasOneOwner

\* "Drain already-queued data frames before running the next control message":
\* when the worker handles a request, everything posted before the request was
\* made has been delivered, over the other channel.
DataBeforeControl ==
    worker.pc \in {"handle", "eval", "reply", "sending"} => delivered >= before[worker.msg.id]

\* A message that an eval posted to Node, and was told is sent, is heard before
\* the promise of the eval is fulfilled.
EventsBeforeResult ==
    \A e \in Emits : LET r == emit[e].by.id IN
        emit[e].st = "sent" /\ emit[e].by.t = "eval" /\ promise[r] = "fulfilled" => e \in seen

\* While an evalSync() is active no host call and no import request gets past
\* the worker's ops but those that were under way when it was called.
NoCallDuringEvalSync == evalSyncActive => UnderWay \subseteq earlier

\* How often the function runs for a call that is answered.
Runs(c) == IF call[c].kind = "retry" THEN 2 ELSE 1

\* Of a host function: it ran once for a call that was answered, and twice for
\* one the wrapper made again; a call that was refused did not run that time;
\* and none runs more often, whatever timed out, was refused or dropped.
RunsMatchCalls ==
    \A c \in Calls :
        /\ invoked[c] <= Runs(c)
        /\ call[c].st = "answered" => invoked[c] = Runs(c)
        /\ call[c].st = "refused" => invoked[c] = Runs(c) - 1

\* The Node thread stands in evalSync() while the event loop of the worker waits
\* for an asynchronous host call that an earlier eval made, awaited or not.
EvalSyncAwaitsEarlierCall ==
    /\ node.st = "awaiting"
    /\ \E c \in earlier : /\ call[c].kind \in {"async", "retry"}
                          /\ call[c].st \in {"sent", "running"}

\* Each request is settled in the end, unless the worker is being closed or an
\* evalSync() meets a host call that an earlier eval made.
EveryRequestSettles ==
    \A r \in Requests :
        promise[r] = "pending" ~> \/ promise[r] # "pending"
                                  \/ worker.pc \in {"stopping", "join"}
                                  \/ ~registered
                                  \/ EvalSyncAwaitsEarlierCall

-----------------------------------------------------------------------------
(***************************************************************************)
(* Statements that the code does not keep.                                 *)
(***************************************************************************)

\* A call of a host function runs it at most once.  handle_invoke_sync "forbids
\* async return values" when the function has run already, and the wrapper then
\* makes the call again.
CallRunsOnce == \A c \in Calls : invoked[c] <= 1

\* "Control-plane calls keep blocking semantics to preserve completion
\* guarantees": a request that was accepted is completed, whatever is closed.
AcceptedRequestCompletes ==
    \A r \in Requests : promise[r] = "pending" ~> promise[r] # "pending"

\* "Store the imports callback before startup so module resolution can call
\* back into Node during the worker's first import graph load": while the
\* startup module waits for a decision, a pump serves the channel of its request.
StartupImportIsServed ==
    \A c \in Calls :
        worker.pc = "startup" /\ call[c].kind = "import" /\ call[c].st = "sent" => pump # "off"
=============================================================================
