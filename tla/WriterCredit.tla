---------------------------- MODULE WriterCredit ----------------------------
(***************************************************************************)
(* The credit of one outgoing stream: addWriterCredit, consumeWriterCredit *)
(* and waitForWriterCredit, which worker.ts and bootstrap.js define alike, *)
(* and the calls of the application that wait for it.                      *)
(*                                                                         *)
(* JavaScript runs one callback at a time and then the promise             *)
(* continuations it queued, in their order.  A resolved wait is such a     *)
(* continuation; jobs is their queue.  A job is a tick if the wait was     *)
(* resolved already when the application made the call, so that the        *)
(* application may go on to other calls before the continuation runs.  The *)
(* continuations of waits resolved by a credit frame run before any code   *)
(* of the application.                                                     *)
(***************************************************************************)
EXTENDS StreamFrames

CONSTANTS
    Callers,      \* chains of calls on the writer, each awaiting its last one
    Window        \* streamWindowBytes

ASSUME WindowAssumption == Window \in Nat \ {0}

VARIABLES
    credits,      \* streamWriterCredits of the stream; 0 when it has no entry
    waiters,      \* streamWriterWaiters: calls blocked on credit, oldest first
    jobs,         \* resolved waits whose continuation has not run yet
    call          \* per caller: what its pending call waits for and still sends

creditVars == <<credits, waiters, jobs, call>>

NoCall == [need |-> 0, todo |-> <<>>]

CreditInit ==
    /\ credits = Window
    /\ waiters = <<>>
    /\ jobs = <<>>
    /\ call = [c \in Callers |-> NoCall]

\* Mutant of Remaining: the balance may go below zero.
RemainingUnclamped(n) == credits - n

\* consumeWriterCredit leaves at least 0.
Remaining(n) == Max0(credits - n)

\* waitForWriterCredit for n bytes out of `have`, q being the continuations
\* ahead: resolved at once, or one more waiter.
WaitForCredit(c, n, have, q) ==
    IF have >= n
    THEN /\ jobs' = Append(q, [caller |-> c, tick |-> TRUE])
         /\ UNCHANGED waiters
    ELSE /\ jobs' = q
         /\ waiters' = Append(waiters, [caller |-> c, need |-> n])

\* A call of c blocks for n bytes; todo are the chunks it will send.
Block(c, n, todo) ==
    /\ call' = [call EXCEPT ![c] = [need |-> n, todo |-> todo]]
    /\ WaitForCredit(c, n, credits, jobs)

\* The call whose continuation runs has settled.
Settle(c) ==
    /\ call' = [call EXCEPT ![c] = NoCall]
    /\ jobs' = Tail(jobs)
    /\ UNCHANGED waiters

\* Mutant of AddWriterCredit: a waiter that needs the whole balance stays.
AddWriterCreditStrict(n) ==
    LET next == credits + n
        covered == {i \in DOMAIN waiters : next > waiters[i].need}
        woken == At(waiters, covered)
    IN  /\ credits' = next
        /\ waiters' = At(waiters, DOMAIN waiters \ covered)
        /\ jobs' = jobs \o [i \in DOMAIN woken |->
                              [caller |-> woken[i].caller, tick |-> FALSE]]

\* addWriterCredit resolves every waiter the new balance covers, each by itself.
AddWriterCredit(n) ==
    LET next == credits + n
        covered == {i \in DOMAIN waiters : next >= waiters[i].need}
        woken == At(waiters, covered)
    IN  /\ credits' = next
        /\ waiters' = At(waiters, DOMAIN waiters \ covered)
        /\ jobs' = jobs \o [i \in DOMAIN woken |->
                              [caller |-> woken[i].caller, tick |-> FALSE]]

\* Mutant of RejectWriterWaiters: the list is dropped, its calls never settle.
RejectWriterWaitersSilently ==
    /\ credits' = 0
    /\ waiters' = <<>>
    /\ UNCHANGED call

\* rejectWriterWaiters: the entry goes, and every waiting call is rejected.
RejectWriterWaiters ==
    /\ credits' = 0
    /\ waiters' = <<>>
    /\ call' = [c \in Callers |->
                   IF \E i \in DOMAIN waiters : waiters[i].caller = c
                   THEN NoCall ELSE call[c]]

\* Application code runs when only ticks are outstanding.
UserTurn == \A i \in DOMAIN jobs : jobs[i].tick

-----------------------------------------------------------------------------
Chunks == [t : {"chunk"}, id : Nat, bytes : Nat]

CreditTypeOK ==
    /\ credits \in Nat
    /\ waiters \in Seq([caller : Callers, need : Nat])
    /\ jobs \in Seq([caller : Callers, tick : BOOLEAN])
    /\ call \in [Callers -> [need : Nat, todo : Seq(Chunks)]]

\* No lost wakeup: a call is only left waiting while the balance does not
\* cover it (addWriterCredit against waitForWriterCredit).
WaitersLackCredit ==
    \A i \in DOMAIN waiters : credits < waiters[i].need

\* A pending call is in exactly one place, waiting for credit or resumed;
\* otherwise its promise would never settle, or its chunk be sent twice.
PendingCallIsTracked ==
    \A c \in Callers :
        call[c] # NoCall <=>
            Cardinality({i \in DOMAIN waiters : waiters[i].caller = c})
              + Cardinality({i \in DOMAIN jobs : jobs[i].caller = c}) = 1
=============================================================================
