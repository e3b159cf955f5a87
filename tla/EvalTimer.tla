------------------------------ MODULE EvalTimer ------------------------------
(***************************************************************************)
(* One eval request after the other on each worker thread (eval.rs,        *)
(* eval_in_runtime) and the one timer thread that enforces maxEvalMs and   *)
(* maxCpuMs for all of them (EvalTimerService).  The two sides share a     *)
(* command channel, a cancel flag per eval and V8's termination flag per   *)
(* isolate; every access to one of them is a step of its own.              *)
(***************************************************************************)
EXTENDS Naturals, Sequences, FiniteSets, FiniteSetsExt

CONSTANTS
  Workers,    \* worker threads, each with its isolate
  MaxEvals,   \* bound: evals of all workers together
  Limits,     \* lengths of the deadlines an eval may ask for
  MaxNow      \* bound: the last instant of the clock

ASSUME EvalTimerAssumption ==
  /\ MaxEvals \in Nat \ {0}
  /\ Limits \subseteq Nat
  /\ MaxNow \in Nat

VARIABLES
  now,          \* the clock
  eval,         \* per worker: the eval it is running
  terminating,  \* per worker: the isolate's termination flag
  commands,     \* the channel to the timer thread
  timers,       \* the timer thread's table: ids
  cancelled,    \* ids whose cancel flag is set
  armed,        \* per id handed out: its deadline, its worker, its eval
  timerPc,      \* where the timer thread is
  due,          \* due ids it has not looked at yet
  holding       \* the id whose flag it has just read (a set of at most one)

vars == <<now, eval, terminating, commands, timers, cancelled, armed, timerPc, due, holding>>
timerVars == <<timers, timerPc, due, holding>>

-----------------------------------------------------------------------------
(* What the evaluated script does: end by itself, run for ever, or return a *)
(* promise that nothing settles.                                            *)
Scripts == {"quick", "runaway", "pending"}

NoTimer == 0

(* The ids handed out so far: next_timer_id counts up for the whole process. *)
Ids == 1..Len(armed)

Idle(n) == [n |-> n, pc |-> "idle", script |-> "quick", timer |-> NoTimer, args |-> FALSE, outcome |-> "none"]

At(w, pc) == eval[w].pc = pc

Arm(id) == [op |-> "arm", id |-> id]
Disarm(id) == [op |-> "disarm", id |-> id]

-----------------------------------------------------------------------------
Init ==
  /\ now = 0
  /\ eval = [w \in Workers |-> Idle(0)]
  /\ terminating = [w \in Workers |-> FALSE]
  /\ commands = <<>>
  /\ timers = {}
  /\ cancelled = {}
  /\ armed = <<>>
  /\ timerPc = "scan"
  /\ due = {}
  /\ holding = {}

(* A request reaches eval_in_runtime: the termination flag is cleared twice *)
(* and the arguments, if any, become a global.                              *)
Begin(w) ==
  /\ At(w, "idle")
  /\ MapThenSumSet(LAMBDA v : eval[v].n, Workers) < MaxEvals
  /\ terminating' = [terminating EXCEPT ![w] = FALSE]
  /\ \E script \in Scripts, args \in BOOLEAN :
       eval' = [eval EXCEPT ![w] = [Idle(eval[w].n + 1) EXCEPT
                                      !.pc = "prepare", !.script = script, !.args = args]]
  /\ UNCHANGED <<now, commands, cancelled, armed, timerVars>>

(* The source does not transpile: the arguments are removed and the reply   *)
(* goes out without a timer ever being armed.                               *)
TranspileFails(w) ==
  /\ At(w, "prepare")
  /\ eval' = [eval EXCEPT ![w] = [Idle(@.n) EXCEPT !.outcome = "error"]]
  /\ UNCHANGED <<now, terminating, commands, cancelled, armed, timerVars>>

(* No limit applies to the eval: it runs without a timer. *)
RunUnlimited(w) ==
  /\ At(w, "prepare")
  /\ eval' = [eval EXCEPT ![w].pc = "running"]
  /\ UNCHANGED <<now, terminating, commands, cancelled, armed, timerVars>>

(* The smaller of maxEvalMs and maxCpuMs becomes a deadline on the wall     *)
(* clock; the guard on MaxNow is the bound of the model.                    *)
RunLimited(w) ==
  \E limit \in Limits :
    /\ At(w, "prepare")
    /\ now + limit <= MaxNow
    /\ armed' = Append(armed, [deadline |-> now + limit, worker |-> w, n |-> eval[w].n])
    /\ commands' = Append(commands, Arm(Len(armed) + 1))
    /\ eval' = [eval EXCEPT ![w].pc = "running", ![w].timer = Len(armed) + 1]
    /\ UNCHANGED <<now, terminating, cancelled, timerVars>>

-----------------------------------------------------------------------------
(* The script returns or throws.  It may do so although the flag is set: V8    *)
(* looks at the flag only at its stack checks.                              *)
ScriptEnds(w) ==
  /\ At(w, "running")
  /\ eval[w].script = "quick"
  /\ \E outcome \in {"value", "error"} :
       eval' = [eval EXCEPT ![w].pc = "cancel", ![w].args = FALSE, ![w].outcome = outcome]
  /\ UNCHANGED <<now, terminating, commands, cancelled, armed, timerVars>>

(* V8 sees the flag while JavaScript runs and unwinds it. *)
ScriptTerminated(w) ==
  /\ At(w, "running")
  /\ eval[w].script \in {"quick", "runaway"}
  /\ terminating[w]
  /\ eval' = [eval EXCEPT ![w].pc = "cancel", ![w].args = FALSE, ![w].outcome = "terminated"]
  /\ UNCHANGED <<now, terminating, commands, cancelled, armed, timerVars>>

(* settle_until_non_promise: no JavaScript runs while the event loop turns  *)
(* over an unsettled promise, so the flag may surface as an error of the    *)
(* event loop, and nothing makes it.                                        *)
LoopTerminated(w) ==
  /\ At(w, "running")
  /\ eval[w].script = "pending"
  /\ terminating[w]
  /\ eval' = [eval EXCEPT ![w].pc = "cancel", ![w].args = FALSE, ![w].outcome = "terminated"]
  /\ UNCHANGED <<now, terminating, commands, cancelled, armed, timerVars>>

(* cancel.store(true), an atomic the timer thread reads. *)
SetCancel(w) ==
  /\ At(w, "cancel")
  /\ cancelled' = cancelled \cup ({eval[w].timer} \ {NoTimer})
  /\ eval' = [eval EXCEPT ![w].pc = "disarm"]
  /\ UNCHANGED <<now, terminating, commands, armed, timerVars>>

(* Mutant: only an eval that succeeded is disarmed. *)
SendDisarmOnSuccess(w) ==
  /\ At(w, "disarm")
  /\ commands' = IF eval[w].timer = NoTimer \/ eval[w].outcome # "value" THEN commands
                 ELSE Append(commands, Disarm(eval[w].timer))
  /\ eval' = [eval EXCEPT ![w].pc = "clear"]
  /\ UNCHANGED <<now, terminating, cancelled, armed, timerVars>>

SendDisarm(w) ==
  /\ At(w, "disarm")
  /\ commands' = IF eval[w].timer = NoTimer THEN commands
                 ELSE Append(commands, Disarm(eval[w].timer))
  /\ eval' = [eval EXCEPT ![w].pc = "clear"]
  /\ UNCHANGED <<now, terminating, cancelled, armed, timerVars>>

(* The flag is cleared twice more and the reply goes out. *)
ClearAndReply(w) ==
  /\ At(w, "clear")
  /\ terminating' = [terminating EXCEPT ![w] = FALSE]
  /\ eval' = [eval EXCEPT ![w] = [Idle(@.n) EXCEPT
                                      !.timer = eval[w].timer, !.outcome = eval[w].outcome]]
  /\ UNCHANGED <<now, commands, cancelled, armed, timerVars>>

-----------------------------------------------------------------------------
(* Mutant: a deadline one instant away counts as due. *)
CollectDueEarly ==
  /\ timerPc = "scan"
  /\ due' = {id \in timers : armed[id].deadline <= now + 1}
  /\ timerPc' = "fire"
  /\ UNCHANGED <<now, eval, terminating, commands, timers, cancelled, armed, holding>>

(* The top of the timer thread's loop: the due ids are collected first. *)
CollectDue ==
  /\ timerPc = "scan"
  /\ due' = {id \in timers : armed[id].deadline <= now}
  /\ timerPc' = "fire"
  /\ UNCHANGED <<now, eval, terminating, commands, timers, cancelled, armed, holding>>

(* A due timer leaves the table whatever its flag says; the flag decides    *)
(* whether its isolate is to be terminated.                                 *)
ReadCancelFlag ==
  /\ timerPc = "fire"
  /\ holding = {}
  /\ \E id \in due :
       /\ due' = due \ {id}
       /\ timers' = timers \ {id}
       /\ holding' = {id} \ cancelled
  /\ UNCHANGED <<now, eval, terminating, commands, cancelled, armed, timerPc>>

TerminateExecution ==
  /\ timerPc = "fire"
  /\ \E id \in holding : terminating' = [terminating EXCEPT ![armed[id].worker] = TRUE]
  /\ holding' = {}
  /\ UNCHANGED <<now, eval, commands, timers, cancelled, armed, timerPc, due>>

StartWaiting ==
  /\ timerPc = "fire"
  /\ due = {} /\ holding = {}
  /\ timerPc' = "wait"
  /\ UNCHANGED <<now, eval, terminating, commands, timers, cancelled, armed, due, holding>>

(* recv_timeout returns a command. *)
ReceiveCommand ==
  /\ timerPc = "wait"
  /\ commands # <<>>
  /\ LET c == Head(commands) IN
       timers' = IF c.op = "arm" THEN timers \cup {c.id} ELSE timers \ {c.id}
  /\ commands' = Tail(commands)
  /\ timerPc' = "scan"
  /\ UNCHANGED <<now, eval, terminating, cancelled, armed, due, holding>>

(* Mutant: the wait is cut at the deadline only once it lies in the past. *)
WaitTimesOutLate ==
  /\ timerPc = "wait"
  /\ \E id \in timers : armed[id].deadline < now
  /\ timerPc' = "scan"
  /\ UNCHANGED <<now, eval, terminating, commands, timers, cancelled, armed, due, holding>>

(* recv_timeout waited until the nearest deadline. *)
WaitTimesOut ==
  /\ timerPc = "wait"
  /\ \E id \in timers : armed[id].deadline <= now
  /\ timerPc' = "scan"
  /\ UNCHANGED <<now, eval, terminating, commands, timers, cancelled, armed, due, holding>>

Tick ==
  /\ now < MaxNow
  /\ now' = now + 1
  /\ UNCHANGED <<eval, terminating, commands, cancelled, armed, timerVars>>

-----------------------------------------------------------------------------
TimerThread ==
  CollectDue \/ ReadCancelFlag \/ TerminateExecution \/ StartWaiting \/ ReceiveCommand \/ WaitTimesOut

(* What a worker thread does on its own once it has taken a request. *)
Proceed(w) ==
  RunUnlimited(w) \/ ScriptEnds(w) \/ ScriptTerminated(w) \/ SetCancel(w) \/ SendDisarm(w) \/ ClearAndReply(w)

Next ==
  \/ Tick
  \/ TimerThread
  \/ \E w \in Workers :
       Begin(w) \/ TranspileFails(w) \/ RunLimited(w) \/ LoopTerminated(w) \/ Proceed(w)

(* The clock goes on, both kinds of thread are scheduled; no request has to *)
(* come, and nothing promises that the flag surfaces in an event loop that  *)
(* runs no JavaScript.                                                      *)
Fairness ==
  /\ WF_vars(Tick)
  /\ WF_vars(TimerThread)
  /\ \A w \in Workers : WF_vars(Proceed(w))

Spec == Init /\ [][Next]_vars /\ Fairness

-----------------------------------------------------------------------------
(* Every variable has its type; in particular a timer's id is never used    *)
(* before it was handed out.                                                *)
EvalTimerTypeOK ==
  /\ now \in 0..MaxNow
  /\ eval \in [Workers -> [n : Nat,
                           pc : {"idle", "prepare", "running", "cancel", "disarm", "clear"},
                           script : Scripts, timer : {NoTimer} \cup Ids, args : BOOLEAN,
                           outcome : {"none", "value", "error", "terminated"}]]
  /\ terminating \in [Workers -> BOOLEAN]
  /\ commands \in Seq([op : {"arm", "disarm"}, id : Ids])
  /\ timers \subseteq Ids /\ cancelled \subseteq Ids
  /\ armed \in Seq([deadline : 0..MaxNow, worker : Workers, n : Nat])
  /\ timerPc \in {"scan", "fire", "wait"}
  /\ due \subseteq timers
  /\ holding \subseteq Ids /\ \A i, j \in holding : i = j

Queued(c) == \E i \in DOMAIN commands : commands[i] = c

(* The worker still runs the eval the timer was armed for. *)
Unfinished(id) ==
  LET e == eval[armed[id].worker] IN e.timer = id /\ e.pc \in {"running", "cancel", "disarm"}

(* A timer that outlived its eval is on its way out of the table: a disarm  *)
(* is queued behind its arm.  Otherwise the table of the process would keep *)
(* isolate handles of finished evals.                                       *)
NoTimerLeaks ==
  \A id \in Ids :
    (id \in timers \/ Queued(Arm(id))) => Unfinished(id) \/ Queued(Disarm(id))

(* An eval that was cut short ran after some deadline of its own worker had *)
(* passed: no deadline reaches another worker's isolate, and none fires     *)
(* early.                                                                   *)
TerminatedAfterDeadline ==
  \A w \in Workers :
    eval[w].outcome = "terminated" =>
      \E id \in Ids : armed[id].worker = w /\ armed[id].deadline <= now

(* Between two requests nothing of the last eval is left in the worker: no  *)
(* arguments in the global object, and no timer of it that still counts.    *)
IdleHoldsNothing ==
  \A w \in Workers :
    At(w, "idle") => /\ ~eval[w].args
                     /\ \A id \in Ids : armed[id].worker = w => id \in cancelled

(* Every variable has its type, and an eval leaves neither a timer nor its  *)
(* arguments behind, whichever way it ends.                                 *)
NothingIsLeft == EvalTimerTypeOK /\ NoTimerLeaks /\ IdleHoldsNothing

(* A script that never ends by itself is ended by its limit. *)
RunawayEnds ==
  \A w \in Workers :
    (At(w, "running") /\ eval[w].script = "runaway" /\ eval[w].timer # NoTimer) ~> ~At(w, "running")

(* What the comments of eval_in_runtime and the eval tests say: an eval is  *)
(* cut short by its own limit only, never by the one of an eval before it.  *)
(* It fails: the timer thread reads the flag, the eval ends and the next    *)
(* one starts, and only then the thread terminates the isolate.             *)
OwnDeadlineOnly ==
  \A w \in Workers :
    eval[w].outcome = "terminated" =>
      \E id \in Ids : /\ armed[id].worker = w /\ armed[id].n = eval[w].n
                      /\ armed[id].deadline <= now
=============================================================================
