--------------------------- MODULE EvalTimerProofs ---------------------------
(***************************************************************************)
(* Theorems about the eval timer, for any number of workers and evals, any *)
(* limits and any length of time.                                          *)
(***************************************************************************)
EXTENDS EvalTimer, TLAPS

\* A deadline of the worker has passed.
Overdue(w) == \E id \in Ids : armed[id].worker = w /\ armed[id].deadline <= now

\* No command about a timer precedes the one that arms it.
ArmedFirst ==
    \A i, j \in 1..Len(commands) :
        i < j /\ commands[i].id = commands[j].id => commands[j].op = "disarm"

\* The termination flag goes up, and is about to, for passed deadlines only.
FiredAfterDeadline ==
    /\ \A w \in Workers : terminating[w] => Overdue(w)
    /\ \A id \in due \cup holding : armed[id].deadline <= now

\* Between two rounds the timer thread holds nothing.
EmptyHanded == timerPc # "fire" => due = {} /\ holding = {}

\* A timer that still counts belongs to the eval its worker is running, and
\* arguments are only there while an eval is.
EvalOwnsItsTimer ==
    /\ \A id \in Ids :
          \/ id \in cancelled
          \/ LET e == eval[armed[id].worker] IN e.timer = id /\ e.pc \in {"running", "cancel"}
    /\ \A w \in Workers : eval[w].args => eval[w].pc \in {"prepare", "running"}

(***************************************************************************)
(* The inductive invariant.  NoTimerLeaks needs the order of the channel   *)
(* (a disarm that overtook its arm would leave the timer behind),          *)
(* TerminatedAfterDeadline what the timer thread holds between reading a   *)
(* flag and terminating an isolate, and IdleHoldsNothing whose timer may   *)
(* still be uncancelled.                                                   *)
(***************************************************************************)
EvalTimerInv ==
    /\ NothingIsLeft
    /\ TerminatedAfterDeadline
    /\ ArmedFirst
    /\ FiredAfterDeadline
    /\ EmptyHanded
    /\ EvalOwnsItsTimer

-----------------------------------------------------------------------------
\* What the type invariant gives the steps below.
Commands == [op : {"arm", "disarm"}, id : Ids]
Deadlines == [deadline : 0..MaxNow, worker : Workers, n : Nat]
Evals == [n : Nat, pc : {"idle", "prepare", "running", "cancel", "disarm", "clear"},
          script : Scripts, timer : {NoTimer} \cup Ids, args : BOOLEAN,
          outcome : {"none", "value", "error", "terminated"}]

LEMMA TypeFacts ==
    ASSUME EvalTimerTypeOK
    PROVE  /\ eval \in [Workers -> Evals]
           /\ terminating \in [Workers -> BOOLEAN]
           /\ commands \in Seq(Commands)
           /\ armed \in Seq(Deadlines)
           /\ Len(armed) \in Nat
           /\ \A id \in Ids : armed[id] \in Deadlines
           /\ NoTimer \notin Ids
<1>1. /\ eval \in [Workers -> Evals]
      /\ terminating \in [Workers -> BOOLEAN]
      /\ commands \in Seq(Commands)
      /\ armed \in Seq(Deadlines)
    BY DEF EvalTimerTypeOK, Evals, Commands, Deadlines
<1>2. Len(armed) \in Nat /\ \A id \in Ids : armed[id] \in Deadlines
    BY <1>1 DEF Ids
<1>3. NoTimer \notin Ids
    BY <1>2 DEF Ids, NoTimer
<1>4. QED
    BY <1>1, <1>2, <1>3

LEMMA InvInit == Init => EvalTimerInv
<1> SUFFICES ASSUME Init PROVE EvalTimerInv
    OBVIOUS
<1>1. Ids = {}
    BY DEF Init, Ids
<1>2. EvalTimerTypeOK
  <2>1. eval \in [Workers -> Evals]
      BY DEF Init, Evals, Idle, Scripts, NoTimer
  <2>2. QED
      BY <1>1, <2>1, EvalTimerAssumption DEF Init, EvalTimerTypeOK, Evals
<1>3. NothingIsLeft /\ TerminatedAfterDeadline
    BY <1>1, <1>2 DEF Init, NothingIsLeft, NoTimerLeaks, IdleHoldsNothing, TerminatedAfterDeadline, Idle
<1>4. ArmedFirst /\ FiredAfterDeadline /\ EmptyHanded /\ EvalOwnsItsTimer
    BY <1>1 DEF Init, ArmedFirst, FiredAfterDeadline, EmptyHanded, EvalOwnsItsTimer, Idle
<1>5. QED
    BY <1>3, <1>4 DEF EvalTimerInv

\* The next eval record of the worker still owns the timer the current one owns,
\* unless the timer is cancelled by then.
KeepsTimer(w, e) ==
    \A id \in Ids :
        eval[w].timer = id =>
            /\ eval[w].pc \in {"running", "cancel", "disarm"} =>
                 e.timer = id /\ e.pc \in {"running", "cancel", "disarm"}
            /\ eval[w].pc \in {"running", "cancel"} =>
                 id \in cancelled' \/ (e.timer = id /\ e.pc \in {"running", "cancel"})

(***************************************************************************)
(* A step of a worker that leaves the channel and the table of ids alone,  *)
(* by what it does to the worker's record: the eval it describes keeps its *)
(* timer while that still counts, an outcome "terminated" and a set flag   *)
(* have their deadline, and an idle worker has neither arguments nor a     *)
(* timer that counts.                                                      *)
(***************************************************************************)
LEMMA WorkerStep ==
    ASSUME EvalTimerInv, NEW w \in Workers, NEW e \in Evals, NEW f \in BOOLEAN,
           eval' = [eval EXCEPT ![w] = e],
           terminating' = [terminating EXCEPT ![w] = f],
           cancelled \subseteq cancelled', cancelled' \subseteq Ids,
           UNCHANGED <<now, commands, armed, timerVars>>,
           f => Overdue(w),
           e.outcome = "terminated" => Overdue(w),
           e.args => e.pc \in {"prepare", "running"},
           e.pc = "idle" => eval[w].pc \notin {"running", "cancel"},
           KeepsTimer(w, e)
    PROVE  EvalTimerInv'
<1> USE TypeFacts DEF EvalTimerInv, NothingIsLeft, timerVars
<1>1. Ids' = Ids
    BY DEF Ids
<1>2. eval' \in [Workers -> Evals] /\ terminating' \in [Workers -> BOOLEAN]
    OBVIOUS
<1>3. EvalTimerTypeOK'
    BY <1>1, <1>2 DEF EvalTimerTypeOK, Evals
<1>4. \A v \in Workers : eval'[v] = IF v = w THEN e ELSE eval[v]
    OBVIOUS
<1>5. \A v \in Workers : Overdue(v) => Overdue(v)'
    BY <1>1 DEF Overdue
<1>6. \A id \in Ids : armed[id].worker \in Workers
    BY DEF Deadlines
<1>7. \A id \in Ids : Unfinished(id) => Unfinished(id)'
    BY <1>4, <1>6 DEF Unfinished, KeepsTimer
<1>8. NoTimerLeaks'
  <2>1. \A d : Queued(d)' <=> Queued(d)
      BY DEF Queued
  <2>2. QED
      BY <1>1, <1>7, <2>1 DEF NoTimerLeaks
<1>9. EvalOwnsItsTimer'
    BY <1>1, <1>4, <1>6 DEF EvalOwnsItsTimer, KeepsTimer
<1>10. IdleHoldsNothing'
    BY <1>1, <1>4, <1>6, <1>9 DEF IdleHoldsNothing, EvalOwnsItsTimer, At
<1>11. TerminatedAfterDeadline'
    BY <1>1, <1>4, <1>5 DEF TerminatedAfterDeadline, Overdue
<1>12. FiredAfterDeadline'
    BY <1>1, <1>2, <1>5 DEF FiredAfterDeadline
<1>13. ArmedFirst' /\ EmptyHanded'
    BY DEF ArmedFirst, EmptyHanded
<1>14. QED
    BY <1>3, <1>8, <1>9, <1>10, <1>11, <1>12, <1>13

LEMMA WorkerInv ==
    ASSUME EvalTimerInv, NEW w \in Workers,
           Begin(w) \/ TranspileFails(w) \/ RunUnlimited(w) \/ ScriptEnds(w) \/
           ScriptTerminated(w) \/ LoopTerminated(w) \/ SetCancel(w) \/ ClearAndReply(w)
    PROVE  EvalTimerInv'
<1> DEFINE e == eval[w]
           f == terminating[w]
<1>1. e \in Evals /\ f \in BOOLEAN /\ NoTimer \notin Ids
    BY TypeFacts DEF EvalTimerInv, NothingIsLeft
<1>2. terminating = [terminating EXCEPT ![w] = terminating[w]]
    BY TypeFacts DEF EvalTimerInv, NothingIsLeft
<1>3. /\ f => Overdue(w)
      /\ e.outcome = "terminated" => Overdue(w)
      /\ e.args => e.pc \in {"prepare", "running"}
      /\ cancelled \subseteq Ids
    BY DEF EvalTimerInv, NothingIsLeft, TerminatedAfterDeadline, FiredAfterDeadline,
           EvalOwnsItsTimer, Overdue, EvalTimerTypeOK
<1>4. CASE Begin(w)
  <2>1. PICK script \in Scripts, args \in BOOLEAN :
            eval' = [eval EXCEPT ![w] = [Idle(e.n + 1) EXCEPT
                                           !.pc = "prepare", !.script = script, !.args = args]]
      BY <1>4 DEF Begin
  <2> DEFINE e1 == [Idle(e.n + 1) EXCEPT !.pc = "prepare", !.script = script, !.args = args]
  <2>2. e1 \in Evals /\ e1.pc = "prepare" /\ e1.outcome = "none"
    <3> DEFINE e0 == Idle(e.n + 1)
    <3>1. e0 \in Evals /\ e0.outcome = "none"
        BY <1>1 DEF Evals, Idle, Scripts
    <3> HIDE DEF e0
    <3>2. [e0 EXCEPT !.pc = "prepare", !.script = script, !.args = args] \in Evals
        BY <3>1 DEF Evals
    <3>3. /\ [e0 EXCEPT !.pc = "prepare", !.script = script, !.args = args].pc = "prepare"
          /\ [e0 EXCEPT !.pc = "prepare", !.script = script, !.args = args].outcome = "none"
        BY <3>1 DEF Evals
    <3>4. QED
        BY <3>2, <3>3 DEF e0
  <2>3. e.pc = "idle" /\ terminating' = [terminating EXCEPT ![w] = FALSE]
        /\ UNCHANGED <<now, commands, cancelled, armed, timerVars>>
      BY <1>4 DEF Begin, At
  <2>4. eval' = [eval EXCEPT ![w] = e1]
      BY <2>1
  <2> HIDE DEF e1
  <2>5. KeepsTimer(w, e1)
      BY <2>3 DEF KeepsTimer
  <2>6. QED
      BY <1>3, <2>2, <2>3, <2>4, <2>5, WorkerStep
<1>5. CASE TranspileFails(w)
  <2> DEFINE e1 == [Idle(e.n) EXCEPT !.outcome = "error"]
  <2>1. e1 \in Evals /\ e1.pc = "idle" /\ e1.outcome = "error" /\ e1.args = FALSE
      BY <1>1 DEF Evals, Idle, Scripts, NoTimer
  <2>2. e.pc = "prepare" /\ terminating' = terminating /\ eval' = [eval EXCEPT ![w] = e1]
        /\ UNCHANGED <<now, commands, cancelled, armed, timerVars>>
      BY <1>5 DEF TranspileFails, At
  <2> HIDE DEF e1
  <2>3. KeepsTimer(w, e1)
      BY <2>2 DEF KeepsTimer
  <2>4. QED
      BY <1>1, <1>2, <1>3, <2>1, <2>2, <2>3, WorkerStep
<1>6. CASE RunUnlimited(w)
  <2> DEFINE e1 == [e EXCEPT !.pc = "running"]
  <2>1. e1 \in Evals /\ e1.pc = "running" /\ e1.outcome = e.outcome
      BY <1>1 DEF Evals
  <2>2. e.pc = "prepare" /\ terminating' = terminating /\ eval' = [eval EXCEPT ![w] = e1]
        /\ UNCHANGED <<now, commands, cancelled, armed, timerVars>>
      BY <1>6 DEF RunUnlimited, At
  <2> HIDE DEF e1
  <2>3. KeepsTimer(w, e1)
      BY <2>2 DEF KeepsTimer
  <2>4. QED
      BY <1>1, <1>2, <1>3, <2>1, <2>2, <2>3, WorkerStep
<1>7. CASE ScriptEnds(w) \/ ScriptTerminated(w) \/ LoopTerminated(w)
  <2>1. PICK outcome \in {"value", "error", "terminated"} :
            /\ eval' = [eval EXCEPT ![w].pc = "cancel", ![w].args = FALSE, ![w].outcome = outcome]
            /\ outcome = "terminated" => f
      BY <1>7 DEF ScriptEnds, ScriptTerminated, LoopTerminated
  <2> DEFINE e1 == [e EXCEPT !.pc = "cancel", !.args = FALSE, !.outcome = outcome]
  <2>2. e1 \in Evals /\ e1.pc = "cancel" /\ e1.timer = e.timer /\ e1.args = FALSE /\ e1.outcome = outcome
      BY <1>1 DEF Evals
  <2>3. e.pc = "running" /\ terminating' = terminating /\ eval' = [eval EXCEPT ![w] = e1]
        /\ UNCHANGED <<now, commands, cancelled, armed, timerVars>>
      BY <1>7, <2>1 DEF ScriptEnds, ScriptTerminated, LoopTerminated, At
  <2> HIDE DEF e1
  <2>4. KeepsTimer(w, e1)
      BY <2>1, <2>2, <2>3 DEF KeepsTimer
  <2>5. QED
      BY <1>1, <1>2, <1>3, <2>1, <2>2, <2>3, <2>4, WorkerStep
<1>8. CASE SetCancel(w)
  <2> DEFINE e1 == [e EXCEPT !.pc = "disarm"]
  <2>1. e1 \in Evals /\ e1.pc = "disarm" /\ e1.timer = e.timer /\ e1.args = e.args /\ e1.outcome = e.outcome
      BY <1>1 DEF Evals
  <2>2. e.pc = "cancel" /\ terminating' = terminating /\ eval' = [eval EXCEPT ![w] = e1]
        /\ UNCHANGED <<now, commands, armed, timerVars>>
        /\ cancelled' = cancelled \cup ({e.timer} \ {NoTimer})
      BY <1>8 DEF SetCancel, At
  <2>3. cancelled \subseteq cancelled' /\ cancelled' \subseteq Ids
        /\ \A id \in Ids : e.timer = id => id \in cancelled'
      BY <1>1, <1>3, <2>2 DEF Evals
  <2> HIDE DEF e1
  <2>4. KeepsTimer(w, e1)
      BY <2>1, <2>2, <2>3 DEF KeepsTimer
  <2>5. QED
      BY <1>1, <1>2, <1>3, <2>1, <2>2, <2>3, <2>4, WorkerStep
<1>9. CASE ClearAndReply(w)
  <2> DEFINE e1 == [Idle(e.n) EXCEPT !.timer = e.timer, !.outcome = e.outcome]
  <2>1. e1 \in Evals /\ e1.pc = "idle" /\ e1.timer = e.timer /\ e1.args = FALSE /\ e1.outcome = e.outcome
      BY <1>1 DEF Evals, Idle, Scripts
  <2>2. e.pc = "clear" /\ terminating' = [terminating EXCEPT ![w] = FALSE]
        /\ eval' = [eval EXCEPT ![w] = e1]
        /\ UNCHANGED <<now, commands, cancelled, armed, timerVars>>
      BY <1>9 DEF ClearAndReply, At
  <2> HIDE DEF e1
  <2>3. KeepsTimer(w, e1)
      BY <2>2 DEF KeepsTimer
  <2>4. QED
      BY <1>1, <1>3, <2>1, <2>2, <2>3, WorkerStep
<1>10. QED
    BY <1>4, <1>5, <1>6, <1>7, <1>8, <1>9

-----------------------------------------------------------------------------
\* What stays true of a channel that grows by one command.
LEMMA ChannelGrows ==
    ASSUME EvalTimerTypeOK, NEW c, commands' = Append(commands, c)
    PROVE  /\ Queued(c)'
           /\ \A d : Queued(d) => Queued(d)'
           /\ \A d : Queued(d)' => d = c \/ Queued(d)
<1>1. commands \in Seq(Commands)
    BY TypeFacts
<1>2. /\ DOMAIN commands = 1..Len(commands) /\ DOMAIN commands' = 1..(Len(commands) + 1)
      /\ \A i \in 1..Len(commands) : commands'[i] = commands[i]
      /\ commands'[Len(commands) + 1] = c
      /\ Len(commands) \in Nat
    BY <1>1
<1>3. QED
    BY <1>2 DEF Queued

LEMMA ChannelGrowsInOrder ==
    ASSUME EvalTimerTypeOK, ArmedFirst, NEW c, commands' = Append(commands, c),
           c.op = "disarm" \/ c.id \notin Ids
    PROVE  ArmedFirst'
<1>1. commands \in Seq(Commands)
    BY TypeFacts
<1>2. /\ Len(commands') = Len(commands) + 1
      /\ \A i \in 1..Len(commands) : commands'[i] = commands[i] /\ commands[i] \in Commands
      /\ commands'[Len(commands) + 1] = c
      /\ Len(commands) \in Nat
    BY <1>1
<1>3. \A i \in 1..Len(commands) : commands[i].id \in Ids
    BY <1>2 DEF Commands
<1>4. QED
    BY <1>2, <1>3 DEF ArmedFirst

(***************************************************************************)
(* An eval with a limit hands out a new id: no command, timer or flag       *)
(* speaks of it yet, its arm is queued and its eval runs.                  *)
(***************************************************************************)
LEMMA RunLimitedInv ==
    ASSUME EvalTimerInv, NEW w \in Workers, RunLimited(w)
    PROVE  EvalTimerInv'
<1> USE DEF EvalTimerInv, NothingIsLeft
<1>1. PICK limit \in Limits :
        /\ now + limit <= MaxNow
        /\ armed' = Append(armed, [deadline |-> now + limit, worker |-> w, n |-> eval[w].n])
    BY DEF RunLimited
<1> DEFINE new == Len(armed) + 1
           entry == [deadline |-> now + limit, worker |-> w, n |-> eval[w].n]
           e == [eval[w] EXCEPT !.pc = "running", !.timer = new]
<1>2. /\ eval[w].pc = "prepare"
      /\ commands' = Append(commands, Arm(new))
      /\ eval' = [eval EXCEPT ![w] = e]
      /\ UNCHANGED <<now, terminating, cancelled, timerVars>>
    BY DEF RunLimited, At
<1>3. entry \in Deadlines
  <2>1. now \in 0..MaxNow /\ limit \in Nat /\ MaxNow \in Nat /\ eval[w].n \in Nat
      BY TypeFacts, EvalTimerAssumption DEF EvalTimerTypeOK, Evals
  <2>2. now + limit \in 0..MaxNow
      BY <1>1, <2>1
  <2>3. QED
      BY <2>1, <2>2 DEF Deadlines
<1> HIDE DEF entry
<1>4. /\ armed' \in Seq(Deadlines)
      /\ Ids' = Ids \cup {new} /\ new \notin Ids /\ new \in Nat /\ new # NoTimer
      /\ \A id \in Ids : armed'[id] = armed[id]
      /\ armed'[new] = entry
  <2>1. armed \in Seq(Deadlines) /\ armed' = Append(armed, entry)
      BY <1>1, TypeFacts DEF entry
  <2>2. /\ armed' \in Seq(Deadlines) /\ Len(armed') = Len(armed) + 1 /\ Len(armed) \in Nat
        /\ \A id \in 1..Len(armed) : armed'[id] = armed[id]
        /\ armed'[new] = entry
      BY <1>3, <2>1
  <2>3. QED
      BY <2>2 DEF Ids, NoTimer
<1> HIDE DEF new
<1>5. e.pc = "running" /\ e.timer = new /\ e.args = eval[w].args /\ e.outcome = eval[w].outcome
    BY TypeFacts DEF Evals
<1>6. \A v \in Workers : eval'[v] = IF v = w THEN e ELSE eval[v]
    BY <1>2, TypeFacts
<1>7. EvalTimerTypeOK'
  <2>1. eval' \in [Workers -> Evals']
    <3>1. e \in Evals'
      <4>1. eval[w] \in Evals /\ new \in Ids'
          BY <1>4, TypeFacts
      <4>2. eval[w] \in Evals'
          BY <1>4, <4>1 DEF Evals
      <4>3. QED
          BY <4>1, <4>2 DEF Evals
    <3>2. \A v \in Workers : eval[v] \in Evals'
        BY <1>4, TypeFacts DEF Evals
    <3> HIDE DEF e
    <3>3. QED
        BY <1>2, <3>1, <3>2, TypeFacts
  <2>2. commands' \in Seq(Commands')
    <3>1. Arm(new) \in Commands'
        BY <1>4 DEF Commands, Arm
    <3>2. \A c \in Commands : c \in Commands'
        BY <1>4 DEF Commands
    <3>3. commands \in Seq(Commands')
        BY <3>2, TypeFacts
    <3>4. QED
        BY <1>2, <3>1, <3>3
  <2>3. QED
      BY <1>2, <1>4, <2>1, <2>2 DEF EvalTimerTypeOK, Evals, Commands, Deadlines, timerVars
<1> HIDE DEF e
<1>8. \A id \in Ids : armed[id].worker \in Workers
    BY TypeFacts DEF Deadlines
<1>9. entry.worker = w
    BY DEF entry
<1>10. \A v \in Workers : Overdue(v) => Overdue(v)'
    BY <1>2, <1>4 DEF Overdue
<1>11. NoTimerLeaks'
  <2>1. SUFFICES ASSUME NEW id \in Ids', id \in timers' \/ Queued(Arm(id))'
                 PROVE  Unfinished(id)' \/ Queued(Disarm(id))'
      BY DEF NoTimerLeaks
  <2>2. CASE id = new
      BY <1>4, <1>5, <1>6, <1>9, <2>2 DEF Unfinished
  <2>3. CASE id \in Ids
    <3>1. Arm(id) # Arm(new)
        BY <1>4, <2>3 DEF Arm
    <3>2. id \in timers \/ Queued(Arm(id))
        BY <1>2, <2>1, <3>1, ChannelGrows DEF timerVars
    <3>3. Unfinished(id) => Unfinished(id)'
        BY <1>2, <1>4, <1>6, <1>8, <2>3 DEF Unfinished
    <3>4. QED
        BY <1>2, <2>3, <3>2, <3>3, ChannelGrows DEF NoTimerLeaks
  <2>4. QED
      BY <1>4, <2>2, <2>3
<1>12. EvalOwnsItsTimer'
    BY <1>2, <1>4, <1>5, <1>6, <1>8, <1>9 DEF EvalOwnsItsTimer
<1>13. IdleHoldsNothing'
    BY <1>4, <1>5, <1>6, <1>8, <1>9, <1>12 DEF IdleHoldsNothing, EvalOwnsItsTimer, At
<1>14. TerminatedAfterDeadline'
    BY <1>5, <1>6, <1>10 DEF TerminatedAfterDeadline, Overdue
<1>15. FiredAfterDeadline'
    BY <1>2, <1>4, <1>10, <1>7 DEF FiredAfterDeadline, EvalTimerTypeOK, timerVars
<1>16. ArmedFirst'
    BY <1>2, <1>4, ChannelGrowsInOrder DEF Arm
<1>17. EmptyHanded'
    BY <1>2 DEF EmptyHanded, timerVars
<1>18. QED
    BY <1>7, <1>11, <1>12, <1>13, <1>14, <1>15, <1>16, <1>17

LEMMA SendDisarmInv ==
    ASSUME EvalTimerInv, NEW w \in Workers, SendDisarm(w)
    PROVE  EvalTimerInv'
<1> USE DEF EvalTimerInv, NothingIsLeft
<1>0. PICK id0 : id0 = eval[w].timer
    OBVIOUS
<1> DEFINE e == [eval[w] EXCEPT !.pc = "clear"]
<1>1. /\ eval[w].pc = "disarm"
      /\ eval' = [eval EXCEPT ![w] = e]
      /\ UNCHANGED <<now, terminating, cancelled, armed, timerVars>>
      /\ commands' = IF id0 = NoTimer THEN commands ELSE Append(commands, Disarm(id0))
    BY <1>0 DEF SendDisarm, At
<1>2. Ids' = Ids
    BY <1>1 DEF Ids
<1>3. e \in Evals /\ e.pc = "clear" /\ e.timer = id0 /\ e.args = eval[w].args
      /\ e.outcome = eval[w].outcome /\ id0 \in {NoTimer} \cup Ids
    BY <1>0, TypeFacts DEF Evals
<1> HIDE DEF e
<1>4. eval' \in [Workers -> Evals] /\ \A v \in Workers : eval'[v] = IF v = w THEN e ELSE eval[v]
    BY <1>1, <1>3, TypeFacts
<1>5. /\ commands' \in Seq(Commands)
      /\ \A d : Queued(d) => Queued(d)'
      /\ \A id \in Ids : Queued(Arm(id))' => Queued(Arm(id))
      /\ id0 # NoTimer => Queued(Disarm(id0))'
      /\ ArmedFirst'
  <2>1. CASE id0 = NoTimer
      BY <1>1, <2>1, TypeFacts DEF Queued, ArmedFirst
  <2>2. CASE id0 # NoTimer
    <3>1. Disarm(id0) \in Commands /\ commands' = Append(commands, Disarm(id0))
        BY <1>1, <1>3, <2>2 DEF Commands, Disarm
    <3>2. \A id \in Ids : Arm(id) # Disarm(id0)
        BY DEF Arm, Disarm
    <3>3. commands' \in Seq(Commands)
        BY <3>1, TypeFacts
    <3>4. ArmedFirst'
        BY <3>1, ChannelGrowsInOrder DEF Disarm
    <3>5. /\ Queued(Disarm(id0))'
          /\ \A d : Queued(d) => Queued(d)'
          /\ \A d : Queued(d)' => d = Disarm(id0) \/ Queued(d)
        BY <3>1, ChannelGrows
    <3>6. QED
        BY <3>2, <3>3, <3>4, <3>5
  <2>3. QED
      BY <2>1, <2>2
<1>6. EvalTimerTypeOK'
    BY <1>1, <1>2, <1>4, <1>5 DEF EvalTimerTypeOK, Evals, Commands, timerVars
<1>7. \A id \in Ids : armed[id].worker \in Workers
    BY TypeFacts DEF Deadlines
<1>8. NoTimerLeaks'
  <2>1. SUFFICES ASSUME NEW id \in Ids, id \in timers \/ Queued(Arm(id))'
                 PROVE  Unfinished(id)' \/ Queued(Disarm(id))'
      BY <1>1, <1>2 DEF NoTimerLeaks, timerVars
  <2>2. Unfinished(id) \/ Queued(Disarm(id))
      BY <1>5, <2>1 DEF NoTimerLeaks
  <2>3. CASE Unfinished(id) /\ armed[id].worker = w
    <3>1. id0 = id /\ id # NoTimer
        BY <1>0, <2>3, TypeFacts DEF Unfinished
    <3>2. QED
        BY <1>5, <3>1
  <2>4. CASE Unfinished(id) /\ armed[id].worker # w
      BY <1>1, <1>4, <1>7, <2>4 DEF Unfinished
  <2>5. QED
      BY <1>5, <2>2, <2>3, <2>4
<1>9. EvalOwnsItsTimer'
    BY <1>1, <1>2, <1>3, <1>4, <1>7 DEF EvalOwnsItsTimer
<1>10. IdleHoldsNothing'
    BY <1>1, <1>2, <1>3, <1>4, <1>7 DEF IdleHoldsNothing, At
<1>11. TerminatedAfterDeadline'
    BY <1>1, <1>2, <1>3, <1>4 DEF TerminatedAfterDeadline
<1>12. FiredAfterDeadline'
    BY <1>1, <1>2 DEF FiredAfterDeadline, Overdue, timerVars
<1>13. EmptyHanded'
    BY <1>1 DEF EmptyHanded, timerVars
<1>14. QED
    BY <1>5, <1>6, <1>8, <1>9, <1>10, <1>11, <1>12, <1>13

-----------------------------------------------------------------------------
(***************************************************************************)
(* A step of the timer thread leaves the evals alone: what is left to show *)
(* is that the table keeps no timer without a disarm, and that what the    *)
(* thread holds has passed its deadline.                                   *)
(***************************************************************************)
LEMMA TimerStep ==
    ASSUME EvalTimerInv,
           now' \in 0..MaxNow, now' >= now,
           UNCHANGED <<eval, cancelled, armed>>,
           commands' \in Seq(Commands),
           terminating' \in [Workers -> BOOLEAN],
           \A w \in Workers : terminating'[w] => terminating[w] \/ Overdue(w),
           timers' \subseteq Ids,
           timerPc' \in {"scan", "fire", "wait"},
           due' \subseteq timers',
           holding' = {} \/ (\E id \in Ids : holding' \subseteq {id}),
           \A id \in due' \cup holding' : armed[id].deadline <= now,
           EmptyHanded', ArmedFirst',
           \A id \in Ids : id \in timers' \/ Queued(Arm(id))' =>
                /\ id \in timers \/ Queued(Arm(id))
                /\ Queued(Disarm(id)) => Queued(Disarm(id))'
    PROVE  EvalTimerInv'
<1> USE DEF EvalTimerInv, NothingIsLeft
<1>1. Ids' = Ids
    BY DEF Ids
<1>2. now \in Nat /\ now' \in Nat /\ \A id \in Ids : armed[id].deadline \in Nat
    BY TypeFacts, EvalTimerAssumption DEF EvalTimerTypeOK, Deadlines
<1>3. holding' \subseteq Ids /\ \A i, j \in holding' : i = j
    OBVIOUS
<1>4. EvalTimerTypeOK'
    BY <1>1, <1>3 DEF EvalTimerTypeOK, Commands
<1>5. \A w \in Workers : Overdue(w) => Overdue(w)'
    BY <1>1, <1>2 DEF Overdue
<1>6. NoTimerLeaks'
    BY <1>1 DEF NoTimerLeaks, Unfinished
<1>7. TerminatedAfterDeadline'
    BY <1>1, <1>5 DEF TerminatedAfterDeadline, Overdue
<1>8. FiredAfterDeadline'
  <2>1. \A w \in Workers : terminating'[w] => Overdue(w)'
      BY <1>5 DEF FiredAfterDeadline
  <2>2. \A id \in due' \cup holding' : armed'[id].deadline <= now'
      BY <1>2, <1>3
  <2>3. QED
      BY <2>1, <2>2 DEF FiredAfterDeadline
<1>9. EvalOwnsItsTimer' /\ IdleHoldsNothing'
    BY <1>1 DEF EvalOwnsItsTimer, IdleHoldsNothing, At
<1>10. QED
    BY <1>4, <1>6, <1>7, <1>8, <1>9

\* What the type invariant says of the thread's own variables.
LEMMA ThreadFacts ==
    ASSUME EvalTimerInv
    PROVE  /\ now \in 0..MaxNow /\ now \in Nat /\ MaxNow \in Nat
           /\ timers \subseteq Ids /\ due \subseteq timers
           /\ timerPc \in {"scan", "fire", "wait"}
           /\ commands \in Seq(Commands)
           /\ terminating \in [Workers -> BOOLEAN]
           /\ holding = {} \/ (\E id \in Ids : holding \subseteq {id})
           /\ \A id \in due \cup holding : armed[id].deadline <= now
           /\ \A id \in Ids : armed[id].deadline \in Nat /\ armed[id].worker \in Workers
<1> USE DEF EvalTimerInv, NothingIsLeft
<1>1. EvalTimerTypeOK /\ FiredAfterDeadline
    OBVIOUS
<1>2. holding = {} \/ (\E id \in Ids : holding \subseteq {id})
  <2>1. holding \subseteq Ids /\ \A i, j \in holding : i = j
      BY <1>1 DEF EvalTimerTypeOK
  <2>2. ASSUME NEW id \in holding PROVE holding \subseteq {id}
      BY <2>1
  <2>3. QED
      BY <2>1, <2>2
<1>3. QED
    BY <1>1, <1>2, TypeFacts, EvalTimerAssumption DEF EvalTimerTypeOK, FiredAfterDeadline, Deadlines

LEMMA InvStep == EvalTimerInv /\ [Next]_vars => EvalTimerInv'
<1> SUFFICES ASSUME EvalTimerInv, [Next]_vars PROVE EvalTimerInv'
    OBVIOUS
<1>1. CASE Tick
  <2>1. now' = now + 1 /\ now < MaxNow
      BY <1>1 DEF Tick
  <2>2. now' \in 0..MaxNow /\ now' >= now
      BY <2>1, ThreadFacts
  <2>3. UNCHANGED <<eval, terminating, commands, cancelled, armed, timerVars>>
      BY <1>1 DEF Tick
  <2>4. EmptyHanded' /\ ArmedFirst' /\ \A d : Queued(d)' <=> Queued(d)
      BY <2>3 DEF EvalTimerInv, EmptyHanded, ArmedFirst, Queued, timerVars
  <2>5. QED
      BY <2>2, <2>3, <2>4, ThreadFacts, TimerStep DEF timerVars
<1>2. CASE CollectDue
  <2>1. /\ due' = {id \in timers : armed[id].deadline <= now} /\ timerPc' = "fire"
        /\ timerPc = "scan"
        /\ UNCHANGED <<now, eval, terminating, commands, timers, cancelled, armed, holding>>
      BY <1>2 DEF CollectDue
  <2>2. EmptyHanded' /\ ArmedFirst' /\ \A d : Queued(d)' <=> Queued(d)
      BY <2>1 DEF EvalTimerInv, EmptyHanded, ArmedFirst, Queued
  <2>3. QED
      BY <2>1, <2>2, ThreadFacts, TimerStep
<1>3. CASE ReadCancelFlag
  <2>1. PICK id \in due : due' = due \ {id} /\ timers' = timers \ {id} /\ holding' = {id} \ cancelled
      BY <1>3 DEF ReadCancelFlag
  <2>2. /\ timerPc = "fire"
        /\ UNCHANGED <<now, eval, terminating, commands, cancelled, armed, timerPc>>
      BY <1>3 DEF ReadCancelFlag
  <2>3. EmptyHanded' /\ ArmedFirst' /\ \A d : Queued(d)' <=> Queued(d)
      BY <2>2 DEF EvalTimerInv, EmptyHanded, ArmedFirst, Queued
  <2>4. \A i \in due' \cup holding' : armed[i].deadline <= now
      BY <2>1, ThreadFacts
  <2>5. due' \subseteq timers' /\ timers' \subseteq Ids /\ timers' \subseteq timers
        /\ id \in Ids /\ holding' \subseteq {id}
      BY <2>1, ThreadFacts
  <2>6. QED
      BY <2>2, <2>3, <2>4, <2>5, ThreadFacts, TimerStep
<1>4. CASE TerminateExecution
  <2>1. PICK id \in holding : terminating' = [terminating EXCEPT ![armed[id].worker] = TRUE]
      BY <1>4 DEF TerminateExecution
  <2>2. /\ holding' = {} /\ timerPc = "fire"
        /\ UNCHANGED <<now, eval, commands, timers, cancelled, armed, timerPc, due>>
      BY <1>4 DEF TerminateExecution
  <2>3. id \in Ids /\ Overdue(armed[id].worker)
      BY ThreadFacts DEF Overdue
  <2>4. /\ terminating' \in [Workers -> BOOLEAN]
        /\ \A w \in Workers : terminating'[w] => terminating[w] \/ Overdue(w)
      BY <2>1, <2>3, ThreadFacts
  <2>5. EmptyHanded' /\ ArmedFirst' /\ \A d : Queued(d)' <=> Queued(d)
      BY <2>2 DEF EvalTimerInv, EmptyHanded, ArmedFirst, Queued
  <2>6. QED
      BY <2>2, <2>4, <2>5, ThreadFacts, TimerStep
<1>5. CASE StartWaiting
  <2>1. /\ timerPc' = "wait" /\ due = {} /\ holding = {}
        /\ UNCHANGED <<now, eval, terminating, commands, timers, cancelled, armed, due, holding>>
      BY <1>5 DEF StartWaiting
  <2>2. EmptyHanded' /\ ArmedFirst' /\ \A d : Queued(d)' <=> Queued(d)
      BY <2>1 DEF EvalTimerInv, EmptyHanded, ArmedFirst, Queued
  <2>3. QED
      BY <2>1, <2>2, ThreadFacts, TimerStep
<1>6. CASE ReceiveCommand
  <2>0. PICK c : c = Head(commands)
      OBVIOUS
  <2>1. /\ commands # <<>> /\ commands' = Tail(commands)
        /\ timers' = IF c.op = "arm" THEN timers \cup {c.id} ELSE timers \ {c.id}
        /\ timerPc = "wait" /\ timerPc' = "scan"
        /\ UNCHANGED <<now, eval, terminating, cancelled, armed, due, holding>>
      BY <1>6, <2>0 DEF ReceiveCommand
  <2>2. /\ commands' \in Seq(Commands) /\ c = commands[1] /\ c \in Commands
        /\ Len(commands) \in Nat \ {0} /\ Len(commands') = Len(commands) - 1
        /\ \A i \in 1..Len(commands') : commands'[i] = commands[i + 1]
        /\ DOMAIN commands = 1..Len(commands) /\ DOMAIN commands' = 1..Len(commands')
      BY <2>0, <2>1, ThreadFacts
  <2>3. ArmedFirst'
    <3>1. ArmedFirst
        BY DEF EvalTimerInv
    <3>2. SUFFICES ASSUME NEW i \in 1..Len(commands'), NEW j \in 1..Len(commands'),
                          i < j, commands'[i].id = commands'[j].id
                   PROVE  commands'[j].op = "disarm"
        BY DEF ArmedFirst
    <3>3. i + 1 \in 1..Len(commands) /\ j + 1 \in 1..Len(commands) /\ i + 1 < j + 1
      <4> DEFINE n == Len(commands)
                 m == Len(commands')
      <4>1. n \in Nat \ {0} /\ m = n - 1 /\ i \in 1..m /\ j \in 1..m
          BY <2>2
      <4> HIDE DEF n, m
      <4>2. i + 1 \in 1..n /\ j + 1 \in 1..n /\ i + 1 < j + 1
          BY <3>2, <4>1
      <4>3. QED
          BY <4>2 DEF n
    <3>4. QED
        BY <2>2, <3>1, <3>2, <3>3 DEF ArmedFirst
  <2>4. \A d : Queued(d)' => Queued(d)
    <3>1. \A i \in 1..Len(commands') : i + 1 \in 1..Len(commands)
        BY <2>2
    <3>2. ASSUME NEW d, Queued(d)' PROVE Queued(d)
      <4>1. PICK i \in 1..Len(commands') : commands'[i] = d
          BY <2>2, <3>2 DEF Queued
      <4>2. i + 1 \in 1..Len(commands) /\ commands[i + 1] = d
          BY <2>2, <3>1, <4>1
      <4>3. QED
          BY <2>2, <4>2 DEF Queued
    <3>3. QED
        BY <3>2
  <2>5. \A d : Queued(d) => d = c \/ Queued(d)'
    <3>1. \A i \in 1..Len(commands) : i # 1 => i - 1 \in 1..Len(commands') /\ (i - 1) + 1 = i
        BY <2>2
    <3>2. ASSUME NEW d, Queued(d), d # c PROVE Queued(d)'
      <4>1. PICK i \in 1..Len(commands) : commands[i] = d
          BY <2>2, <3>2 DEF Queued
      <4>2. i # 1
          BY <2>2, <3>2, <4>1
      <4>3. i - 1 \in 1..Len(commands') /\ commands'[i - 1] = d
          BY <2>2, <3>1, <4>1, <4>2
      <4>4. QED
          BY <2>2, <4>3 DEF Queued
    <3>3. QED
        BY <3>2
  <2>6. c.op = "disarm" => ~Queued(Arm(c.id))'
    <3>1. SUFFICES ASSUME c.op = "disarm", Queued(Arm(c.id))' PROVE FALSE
        OBVIOUS
    <3>2. PICK i \in 1..Len(commands') : commands'[i] = Arm(c.id)
        BY <2>2, <3>1 DEF Queued
    <3>3. i + 1 \in 1..Len(commands) /\ commands[i + 1] = Arm(c.id) /\ 1 < i + 1 /\ 1 \in 1..Len(commands)
        BY <2>2, <3>2
    <3>4. commands[i + 1].op = "disarm"
        BY <2>2, <3>3 DEF EvalTimerInv, ArmedFirst, Arm
    <3>5. QED
        BY <3>3, <3>4 DEF Arm
  <2>7. \A id \in Ids : id \in timers' \/ Queued(Arm(id))' =>
            /\ id \in timers \/ Queued(Arm(id))
            /\ Queued(Disarm(id)) => Queued(Disarm(id))'
    <3>1. SUFFICES ASSUME NEW id \in Ids, id \in timers' \/ Queued(Arm(id))'
                   PROVE  /\ id \in timers \/ Queued(Arm(id))
                          /\ Queued(Disarm(id)) => Queued(Disarm(id))'
        OBVIOUS
    <3>2. CASE c.op = "arm"
      <4>1. c = Arm(c.id) /\ Queued(c) /\ c # Disarm(id)
          BY <2>2, <3>2 DEF Commands, Arm, Disarm, Queued
      <4>2. QED
          BY <2>1, <2>4, <2>5, <3>1, <3>2, <4>1
    <3>3. CASE c.op = "disarm"
      <4>1. c.id # id
          BY <2>1, <2>6, <3>1, <3>3
      <4>2. c # Disarm(id)
          BY <4>1 DEF Disarm
      <4>3. QED
          BY <2>1, <2>4, <2>5, <3>1, <3>3, <4>2
    <3>4. QED
        BY <2>2, <3>2, <3>3 DEF Commands
  <2>8. due = {} /\ holding = {} /\ EmptyHanded'
      BY <2>1 DEF EvalTimerInv, EmptyHanded
  <2>9. timers' \subseteq Ids
      BY <2>1, <2>2, ThreadFacts DEF Commands
  <2>10. QED
      BY <2>1, <2>2, <2>3, <2>7, <2>8, <2>9, ThreadFacts, TimerStep
<1>7. CASE WaitTimesOut
  <2>1. /\ timerPc' = "scan" /\ timerPc = "wait"
        /\ UNCHANGED <<now, eval, terminating, commands, timers, cancelled, armed, due, holding>>
      BY <1>7 DEF WaitTimesOut
  <2>2. EmptyHanded' /\ ArmedFirst' /\ \A d : Queued(d)' <=> Queued(d)
      BY <2>1 DEF EvalTimerInv, EmptyHanded, ArmedFirst, Queued
  <2>3. QED
      BY <2>1, <2>2, ThreadFacts, TimerStep
<1>8. ASSUME NEW w \in Workers,
             Begin(w) \/ TranspileFails(w) \/ RunLimited(w) \/ LoopTerminated(w) \/ Proceed(w)
      PROVE  EvalTimerInv'
    BY <1>8, WorkerInv, RunLimitedInv, SendDisarmInv DEF Proceed
<1>9. CASE UNCHANGED vars
  <2>1. EmptyHanded' /\ ArmedFirst' /\ \A d : Queued(d)' <=> Queued(d)
      BY <1>9 DEF EvalTimerInv, EmptyHanded, ArmedFirst, Queued, vars
  <2>2. QED
      BY <1>9, <2>1, ThreadFacts, TimerStep DEF vars
<1>10. QED
    BY <1>1, <1>2, <1>3, <1>4, <1>5, <1>6, <1>7, <1>8, <1>9 DEF Next, TimerThread

-----------------------------------------------------------------------------
(***************************************************************************)
(* Whichever way an eval ends, its timer is on its way out of the table of *)
(* the timer thread, and an idle worker has neither arguments nor a timer  *)
(* that counts: for any number of evals on any number of workers.          *)
(***************************************************************************)
THEOREM EvalLeavesNothing == Spec => []NothingIsLeft
<1>1. EvalTimerInv => NothingIsLeft
    BY DEF EvalTimerInv
<1>2. QED
    BY <1>1, InvInit, InvStep, PTL DEF Spec

(***************************************************************************)
(* No eval is cut short unless a deadline of its own worker has passed,    *)
(* whatever the timer thread was holding when the deadline was reached.    *)
(***************************************************************************)
THEOREM NoEarlyTermination == Spec => []TerminatedAfterDeadline
<1>1. EvalTimerInv => TerminatedAfterDeadline
    BY DEF EvalTimerInv
<1>2. QED
    BY <1>1, InvInit, InvStep, PTL DEF Spec

-----------------------------------------------------------------------------
(***************************************************************************)
(* RunawayEnds says that a script that never ends is ended by its limit.   *)
(* Below is the part of it that is a matter of safety: the limit of an     *)
(* eval that runs is never lost, and once it has passed the timer thread   *)
(* does not stand still.                                                   *)
(***************************************************************************)

\* The limit is on its way to the isolate: in the channel, in the table, in
\* the thread's hand, or there; and nothing is under way that would undo it.
Stands(w, id) ==
    /\ id \notin cancelled /\ ~Queued(Disarm(id))
    /\ terminating[w] \/ id \in holding \/ id \in timers \/ Queued(Arm(id))

\* A record with a timer has the one that was armed for its eval; an eval that
\* is being prepared has none.
TimersAreOwned ==
    \A w \in Workers :
        /\ eval[w].timer # NoTimer =>
             armed[eval[w].timer].worker = w /\ armed[eval[w].timer].n = eval[w].n
        /\ eval[w].pc = "prepare" => eval[w].timer = NoTimer

Runs(w, id) == eval[w].pc = "running" /\ eval[w].timer = id /\ id # NoTimer

PursuitInv == TimersAreOwned /\ \A w \in Workers, id \in Ids : Runs(w, id) => Stands(w, id)

\* What keeps the timer thread from going on: it waits, for a command or for a
\* deadline that has not come.
ThreadGoesOn ==
    timerPc = "wait" => commands # <<>> \/ \E id \in timers : armed[id].deadline <= now

(***************************************************************************)
(* While an eval with a limit runs, its timer is its own and stands, and   *)
(* once the deadline has passed either the isolate is told to terminate or *)
(* the timer thread has a step to take.                                    *)
(***************************************************************************)
LimitIsPursued ==
    \A w \in Workers : \A id \in Ids :
        Runs(w, id) =>
            /\ armed[id].worker = w /\ armed[id].n = eval[w].n
            /\ Stands(w, id)
            /\ armed[id].deadline <= now => terminating[w] \/ ThreadGoesOn

(***************************************************************************)
(* A step of a worker that arms and disarms nothing: the eval it describes *)
(* keeps its timer or drops it, and may only cancel its own.               *)
(***************************************************************************)
LEMMA WorkerPursuit ==
    ASSUME EvalTimerTypeOK, PursuitInv, NEW w \in Workers, NEW e,
           eval' = [eval EXCEPT ![w] = e],
           UNCHANGED <<commands, armed, timerVars>>,
           \A v \in Workers : v # w => terminating'[v] = terminating[v],
           e.timer = NoTimer \/ (e.timer = eval[w].timer /\ e.n = eval[w].n),
           e.pc \in {"running", "prepare"} => e.timer = NoTimer,
           \A id \in cancelled' : id \in cancelled \/ id = eval[w].timer
    PROVE  PursuitInv'
<1>1. \A v \in Workers : eval'[v] = IF v = w THEN e ELSE eval[v]
    BY TypeFacts
<1>2. Ids' = Ids /\ \A d : Queued(d)' <=> Queued(d)
    BY DEF Ids, Queued
<1>3. TimersAreOwned'
    BY <1>1 DEF PursuitInv, TimersAreOwned
<1>4. ASSUME NEW v \in Workers, NEW id \in Ids, Runs(v, id)' PROVE Stands(v, id)'
  <2>1. v # w /\ Runs(v, id)
      BY <1>1, <1>4 DEF Runs
  <2>2. id # eval[w].timer
      BY <2>1 DEF Runs, PursuitInv, TimersAreOwned
  <2>3. Stands(v, id)
      BY <2>1 DEF PursuitInv
  <2>4. QED
      BY <1>2, <2>1, <2>2, <2>3 DEF Stands, timerVars
<1>5. QED
    BY <1>2, <1>3, <1>4 DEF PursuitInv

LEMMA WorkerKeepsLimits ==
    ASSUME EvalTimerTypeOK, PursuitInv, NEW w \in Workers,
           Begin(w) \/ TranspileFails(w) \/ RunUnlimited(w) \/ ScriptEnds(w) \/
           ScriptTerminated(w) \/ LoopTerminated(w) \/ SetCancel(w) \/ ClearAndReply(w)
    PROVE  PursuitInv'
<1>0. eval[w] \in Evals /\ terminating \in [Workers -> BOOLEAN]
    BY TypeFacts
<1>1. CASE Begin(w)
  <2>1. PICK script \in Scripts, args \in BOOLEAN :
            eval' = [eval EXCEPT ![w] = [Idle(eval[w].n + 1) EXCEPT
                                           !.pc = "prepare", !.script = script, !.args = args]]
      BY <1>1 DEF Begin
  <2> DEFINE e == [Idle(eval[w].n + 1) EXCEPT !.pc = "prepare", !.script = script, !.args = args]
  <2>2. e.timer = NoTimer
      BY DEF Idle
  <2> HIDE DEF e
  <2>3. eval' = [eval EXCEPT ![w] = e]
      BY <2>1 DEF e
  <2>4. UNCHANGED <<commands, armed, timerVars, cancelled>>
        /\ \A v \in Workers : v # w => terminating'[v] = terminating[v]
      BY <1>0, <1>1 DEF Begin
  <2>5. QED
      BY <2>2, <2>3, <2>4, WorkerPursuit
<1>2. CASE TranspileFails(w)
  <2> DEFINE e == [Idle(eval[w].n) EXCEPT !.outcome = "error"]
  <2>1. e.timer = NoTimer /\ eval' = [eval EXCEPT ![w] = e]
        /\ UNCHANGED <<commands, armed, timerVars, cancelled, terminating>>
      BY <1>2 DEF TranspileFails, Idle
  <2> HIDE DEF e
  <2>2. QED
      BY <2>1, WorkerPursuit
<1>3. CASE RunUnlimited(w)
  <2> DEFINE e == [eval[w] EXCEPT !.pc = "running"]
  <2>1. eval[w].timer = NoTimer
      BY <1>3 DEF RunUnlimited, At, PursuitInv, TimersAreOwned
  <2>2. e.timer = NoTimer /\ eval' = [eval EXCEPT ![w] = e]
        /\ UNCHANGED <<commands, armed, timerVars, cancelled, terminating>>
      BY <1>0, <1>3, <2>1 DEF RunUnlimited, Evals
  <2> HIDE DEF e
  <2>3. QED
      BY <2>2, WorkerPursuit
<1>4. CASE ScriptEnds(w) \/ ScriptTerminated(w) \/ LoopTerminated(w)
  <2>1. PICK outcome \in {"value", "error", "terminated"} :
            eval' = [eval EXCEPT ![w].pc = "cancel", ![w].args = FALSE, ![w].outcome = outcome]
      BY <1>4 DEF ScriptEnds, ScriptTerminated, LoopTerminated
  <2> DEFINE e == [eval[w] EXCEPT !.pc = "cancel", !.args = FALSE, !.outcome = outcome]
  <2>2. e.pc = "cancel" /\ e.timer = eval[w].timer /\ e.n = eval[w].n
        /\ eval' = [eval EXCEPT ![w] = e]
      BY <1>0, <2>1 DEF Evals
  <2>3. UNCHANGED <<commands, armed, timerVars, cancelled, terminating>>
      BY <1>4 DEF ScriptEnds, ScriptTerminated, LoopTerminated
  <2> HIDE DEF e
  <2>4. QED
      BY <2>2, <2>3, WorkerPursuit
<1>5. CASE SetCancel(w)
  <2> DEFINE e == [eval[w] EXCEPT !.pc = "disarm"]
  <2>1. e.pc = "disarm" /\ e.timer = eval[w].timer /\ e.n = eval[w].n
        /\ eval' = [eval EXCEPT ![w] = e]
      BY <1>0, <1>5 DEF SetCancel, Evals
  <2>2. UNCHANGED <<commands, armed, timerVars, terminating>>
        /\ cancelled' = cancelled \cup ({eval[w].timer} \ {NoTimer})
      BY <1>5 DEF SetCancel
  <2> HIDE DEF e
  <2>3. QED
      BY <2>1, <2>2, WorkerPursuit
<1>6. CASE ClearAndReply(w)
  <2> DEFINE e == [Idle(eval[w].n) EXCEPT !.timer = eval[w].timer, !.outcome = eval[w].outcome]
  <2>1. e.pc = "idle" /\ e.timer = eval[w].timer /\ e.n = eval[w].n
        /\ eval' = [eval EXCEPT ![w] = e]
      BY <1>6 DEF ClearAndReply, Idle
  <2>2. UNCHANGED <<commands, armed, timerVars, cancelled>>
        /\ \A v \in Workers : v # w => terminating'[v] = terminating[v]
      BY <1>0, <1>6 DEF ClearAndReply
  <2> HIDE DEF e
  <2>3. QED
      BY <2>1, <2>2, WorkerPursuit
<1>7. QED
    BY <1>1, <1>2, <1>3, <1>4, <1>5, <1>6

\* A new limit stands from the start: its arm is queued, and nothing can speak
\* of its id yet.
LEMMA RunLimitedKeepsLimits ==
    ASSUME EvalTimerTypeOK, PursuitInv, NEW w \in Workers, RunLimited(w)
    PROVE  PursuitInv'
<1>0. PICK new : new = Len(armed) + 1
    OBVIOUS
<1> DEFINE e == [eval[w] EXCEPT !.pc = "running", !.timer = new]
<1>1. PICK limit \in Limits :
        armed' = Append(armed, [deadline |-> now + limit, worker |-> w, n |-> eval[w].n])
    BY DEF RunLimited
<1>2. /\ commands' = Append(commands, Arm(new))
      /\ eval' = [eval EXCEPT ![w] = e]
      /\ UNCHANGED <<now, terminating, cancelled, timerVars>>
    BY <1>0 DEF RunLimited
<1>3. /\ Ids' = Ids \cup {new} /\ new \notin Ids /\ new \in Nat /\ new # NoTimer
      /\ \A id \in Ids : armed'[id] = armed[id]
      /\ armed'[new].worker = w /\ armed'[new].n = eval[w].n
  <2> DEFINE entry == [deadline |-> now + limit, worker |-> w, n |-> eval[w].n]
  <2>1. entry.worker = w /\ entry.n = eval[w].n
      OBVIOUS
  <2>2. armed \in Seq(Deadlines) /\ armed' = Append(armed, entry)
      BY <1>1, TypeFacts
  <2> HIDE DEF entry
  <2>3. /\ Len(armed') = Len(armed) + 1 /\ Len(armed) \in Nat
        /\ \A id \in 1..Len(armed) : armed'[id] = armed[id]
        /\ armed'[new] = entry
      BY <1>0, <2>2
  <2>4. QED
      BY <1>0, <2>1, <2>3 DEF Ids, NoTimer
<1>4. e.pc = "running" /\ e.timer = new /\ e.n = eval[w].n
    BY TypeFacts DEF Evals
<1>5. \A v \in Workers : eval'[v] = IF v = w THEN e ELSE eval[v]
    BY <1>2, TypeFacts
<1> HIDE DEF e
<1>6. \A v \in Workers : eval[v].timer \in {NoTimer} \cup Ids
    BY TypeFacts DEF Evals
<1>7. TimersAreOwned'
    BY <1>3, <1>4, <1>5, <1>6 DEF PursuitInv, TimersAreOwned
<1>8. \A d : Queued(Disarm(d))' => Queued(Disarm(d))
  <2>1. \A d : Disarm(d) # Arm(new)
      BY DEF Arm, Disarm
  <2>2. QED
      BY <1>2, <2>1, ChannelGrows
<1>9. Stands(w, new)'
  <2>1. Queued(Arm(new))'
      BY <1>2, ChannelGrows
  <2>2. ~Queued(Disarm(new))
    <3>1. \A i \in DOMAIN commands : commands[i].id \in Ids
      <4>1. commands \in Seq(Commands)
          BY TypeFacts
      <4>2. \A i \in DOMAIN commands : commands[i] \in Commands
          BY <4>1
      <4>3. QED
          BY <4>2 DEF Commands
    <3>2. Disarm(new).id = new
        BY DEF Disarm
    <3>3. QED
        BY <1>3, <3>1, <3>2 DEF Queued
  <2>3. new \notin cancelled'
      BY <1>2, <1>3 DEF EvalTimerTypeOK
  <2>4. QED
      BY <1>8, <2>1, <2>2, <2>3 DEF Stands
<1>10. ASSUME NEW v \in Workers, NEW id \in Ids', Runs(v, id)' PROVE Stands(v, id)'
  <2>1. CASE v = w
      BY <1>4, <1>5, <1>9, <1>10, <2>1 DEF Runs
  <2>2. CASE v # w
    <3>1. Runs(v, id) /\ id \in Ids
        BY <1>3, <1>5, <1>6, <1>10, <2>2 DEF Runs
    <3>2. Stands(v, id)
        BY <3>1 DEF PursuitInv
    <3>3. Queued(Arm(id)) => Queued(Arm(id))'
        BY <1>2, ChannelGrows
    <3>4. QED
        BY <1>2, <1>8, <3>2, <3>3 DEF Stands, timerVars
  <2>3. QED
      BY <2>1, <2>2
<1>11. QED
    BY <1>7, <1>10 DEF PursuitInv

\* A disarm concerns the timer of the eval that ended, which is nobody else's.
LEMMA SendDisarmKeepsLimits ==
    ASSUME EvalTimerTypeOK, PursuitInv, NEW w \in Workers, SendDisarm(w)
    PROVE  PursuitInv'
<1> DEFINE e == [eval[w] EXCEPT !.pc = "clear"]
<1>1. /\ eval' = [eval EXCEPT ![w] = e]
      /\ UNCHANGED <<now, terminating, cancelled, armed, timerVars>>
      /\ commands' = IF eval[w].timer = NoTimer THEN commands
                     ELSE Append(commands, Disarm(eval[w].timer))
    BY DEF SendDisarm
<1>2. Ids' = Ids
    BY <1>1 DEF Ids
<1>3. e.pc = "clear" /\ e.timer = eval[w].timer /\ e.n = eval[w].n
    BY TypeFacts DEF Evals
<1>4. \A v \in Workers : eval'[v] = IF v = w THEN e ELSE eval[v]
    BY <1>1, TypeFacts
<1> HIDE DEF e
<1>5. TimersAreOwned'
    BY <1>1, <1>3, <1>4 DEF PursuitInv, TimersAreOwned
<1>6. /\ \A d : Queued(d) => Queued(d)'
      /\ \A d : Queued(d)' => Queued(d) \/ d = Disarm(eval[w].timer)
  <2>1. CASE eval[w].timer = NoTimer
      BY <1>1, <2>1 DEF Queued
  <2>2. CASE eval[w].timer # NoTimer
      BY <1>1, <2>2, ChannelGrows
  <2>3. QED
      BY <2>1, <2>2
<1>7. ASSUME NEW v \in Workers, NEW id \in Ids, Runs(v, id)' PROVE Stands(v, id)'
  <2>1. v # w /\ Runs(v, id)
      BY <1>3, <1>4, <1>7 DEF Runs
  <2>2. id # eval[w].timer
      BY <2>1 DEF Runs, PursuitInv, TimersAreOwned
  <2>3. Disarm(id) # Disarm(eval[w].timer)
      BY <2>2 DEF Disarm
  <2>4. Stands(v, id)
      BY <2>1 DEF PursuitInv
  <2>5. QED
      BY <1>1, <1>6, <2>3, <2>4 DEF Stands, timerVars
<1>8. QED
    BY <1>2, <1>5, <1>7 DEF PursuitInv

\* A step of the timer thread loses no limit: what it takes out of the channel
\* comes into the table, and from there by its hand to the isolate.
LEMMA ThreadKeepsLimits ==
    ASSUME EvalTimerTypeOK, PursuitInv, Tick \/ TimerThread \/ UNCHANGED vars
    PROVE  PursuitInv'
<1>1. UNCHANGED <<eval, cancelled, armed>>
    BY DEF Tick, TimerThread, CollectDue, ReadCancelFlag, TerminateExecution, StartWaiting,
           ReceiveCommand, WaitTimesOut, vars
<1>2. Ids' = Ids /\ TimersAreOwned'
    BY <1>1 DEF Ids, PursuitInv, TimersAreOwned
<1>3. ASSUME NEW w \in Workers, NEW id \in Ids, Runs(w, id)' PROVE Stands(w, id)'
  <2>1. Runs(w, id) /\ Stands(w, id) /\ armed[id].worker = w
      BY <1>1, <1>3 DEF Runs, PursuitInv, TimersAreOwned
  <2>2. CASE UNCHANGED <<commands, terminating, timers, holding>>
      BY <1>1, <2>1, <2>2 DEF Stands, Queued
  <2>3. CASE ReadCancelFlag
    <3>1. PICK i \in due : timers' = timers \ {i} /\ holding' = {i} \ cancelled
        BY <2>3 DEF ReadCancelFlag
    <3>2. holding = {} /\ UNCHANGED <<commands, terminating>>
        BY <2>3 DEF ReadCancelFlag
    <3>3. \A d : Queued(d)' <=> Queued(d)
        BY <3>2 DEF Queued
    <3>4. QED
        BY <1>1, <2>1, <3>1, <3>2, <3>3 DEF Stands
  <2>4. CASE TerminateExecution
    <3>1. PICK i \in holding : terminating' = [terminating EXCEPT ![armed[i].worker] = TRUE]
        BY <2>4 DEF TerminateExecution
    <3>2. UNCHANGED <<commands, timers>>
        BY <2>4 DEF TerminateExecution
    <3>3. \A d : Queued(d)' <=> Queued(d)
        BY <3>2 DEF Queued
    <3>4. id \in holding => i = id
        BY <3>1 DEF EvalTimerTypeOK
    <3>5. terminating[w] \/ id \in holding => terminating'[w]
        BY <2>1, <3>1, <3>4, TypeFacts
    <3>6. QED
        BY <1>1, <2>1, <3>2, <3>3, <3>5 DEF Stands
  <2>5. CASE ReceiveCommand
    <3>0. PICK c : c = Head(commands)
        OBVIOUS
    <3>1. /\ commands # <<>> /\ commands' = Tail(commands)
          /\ timers' = IF c.op = "arm" THEN timers \cup {c.id} ELSE timers \ {c.id}
          /\ UNCHANGED <<terminating, holding>>
        BY <2>5, <3>0 DEF ReceiveCommand
    <3>2. /\ c = commands[1] /\ c \in Commands /\ 1 \in DOMAIN commands
          /\ \A i \in DOMAIN commands' : i + 1 \in DOMAIN commands /\ commands'[i] = commands[i + 1]
          /\ \A i \in DOMAIN commands : i # 1 => i - 1 \in DOMAIN commands' /\ commands'[i - 1] = commands[i]
        BY <3>0, <3>1, TypeFacts
    <3>3. Queued(c) /\ \A d : Queued(d)' => Queued(d)
        BY <3>2 DEF Queued
    <3>4. \A d : Queued(d) => d = c \/ Queued(d)'
        BY <3>2 DEF Queued
    <3>5. c # Disarm(id)
        BY <2>1, <3>3 DEF Stands
    <3>6. c.op = "arm" \/ c.id # id
        BY <3>2, <3>5 DEF Commands, Disarm
    <3>7. Arm(id) = c => id \in timers'
        BY <3>1 DEF Arm
    <3>8. QED
        BY <1>1, <2>1, <3>1, <3>3, <3>4, <3>6, <3>7 DEF Stands
  <2>6. QED
      BY <2>2, <2>3, <2>4, <2>5
      DEF Tick, TimerThread, CollectDue, StartWaiting, WaitTimesOut, vars, timerVars
<1>4. QED
    BY <1>2, <1>3 DEF PursuitInv

(***************************************************************************)
(* The limit of a running eval is never lost: for any number of evals on   *)
(* any number of workers, until the isolate is told to terminate it stands *)
(* in the channel, the table or the thread's hand, nothing cancels or      *)
(* disarms it before the eval has ended, and past the deadline the timer   *)
(* thread never stands still.  What RunawayEnds adds is that threads that  *)
(* can go on do.                                                           *)
(***************************************************************************)
THEOREM LimitsAreNotLost == Spec => []LimitIsPursued
<1>1. Init => PursuitInv
  <2>1. Init => \A w \in Workers : eval[w].timer = NoTimer /\ eval[w].pc = "idle"
      BY DEF Init, Idle
  <2>2. QED
      BY <2>1 DEF PursuitInv, TimersAreOwned, Runs
<1>2. EvalTimerInv /\ PursuitInv /\ [Next]_vars => PursuitInv'
  <2>1. SUFFICES ASSUME EvalTimerInv, PursuitInv, [Next]_vars PROVE PursuitInv'
      OBVIOUS
  <2>2. EvalTimerTypeOK
      BY <2>1 DEF EvalTimerInv, NothingIsLeft
  <2>3. CASE Tick \/ TimerThread \/ UNCHANGED vars
      BY <2>1, <2>2, <2>3, ThreadKeepsLimits
  <2>4. ASSUME NEW w \in Workers,
               Begin(w) \/ TranspileFails(w) \/ RunLimited(w) \/ LoopTerminated(w) \/ Proceed(w)
        PROVE  PursuitInv'
      BY <2>1, <2>2, <2>4, WorkerKeepsLimits, RunLimitedKeepsLimits, SendDisarmKeepsLimits DEF Proceed
  <2>5. QED
      BY <2>1, <2>3, <2>4 DEF Next
<1>3. EvalTimerInv /\ PursuitInv => LimitIsPursued
  <2>1. SUFFICES ASSUME EvalTimerInv, PursuitInv,
                        NEW w \in Workers, NEW id \in Ids, Runs(w, id)
                 PROVE  /\ armed[id].worker = w /\ armed[id].n = eval[w].n
                        /\ Stands(w, id)
                        /\ armed[id].deadline <= now => terminating[w] \/ ThreadGoesOn
      BY DEF LimitIsPursued
  <2>2. armed[id].worker = w /\ armed[id].n = eval[w].n /\ Stands(w, id)
      BY <2>1 DEF Runs, PursuitInv, TimersAreOwned
  <2>3. ASSUME timerPc = "wait", armed[id].deadline <= now, ~terminating[w]
        PROVE  commands # <<>> \/ \E i \in timers : armed[i].deadline <= now
    <3>1. id \in timers \/ Queued(Arm(id))
        BY <2>1, <2>2, <2>3 DEF Stands, EvalTimerInv, EmptyHanded
    <3>2. Queued(Arm(id)) => commands # <<>>
        BY DEF Queued
    <3>3. QED
        BY <2>3, <3>1, <3>2
  <2>4. QED
      BY <2>2, <2>3 DEF ThreadGoesOn
<1>4. QED
    BY <1>1, <1>2, <1>3, InvInit, InvStep, PTL DEF Spec
=============================================================================
