---------------------------- MODULE StreamReader ----------------------------
(***************************************************************************)
(* The reading end of a byte stream.  The host has it as the class         *)
(* StreamReaderImpl (worker.ts), the worker as the closure made by         *)
(* makeStreamReader (bootstrap.js); both keep the same fields and take the *)
(* same steps, except for the first condition of cancel().  The lanes      *)
(* HostLane and WorkerLane extend this module with the channels, and bind  *)
(* each step to the frame or the call that causes it.                      *)
(*                                                                         *)
(* The variable reader is a record:                                        *)
(*   queue          events that arrived before anybody asked for them      *)
(*   waiting        the callers whose read() is pending, oldest first      *)
(*   buffered       bufferedBytes, the bytes of the chunks in queue        *)
(*   pendingCredit  bytes delivered but not yet given back as credit       *)
(*   closed         the writer ended the stream, or the reader cancelled   *)
(*   done           a read() took the end off the queue, or cancelled      *)
(*   discarded      the local side has given the stream up                 *)
(* An event is a chunk, [t |-> "chunk", id, bytes], or the end of the      *)
(* stream, [t |-> "close" or "error", id |-> 0, bytes |-> 0].              *)
(***************************************************************************)
EXTENDS StreamFrames

CONSTANTS
    Readers,          \* callers of read(), each with at most one pending call
    HighWater,        \* streamHighWaterMarkBytes
    CancelAfterClose  \* cancel() acts on a stream its writer already ended:
                      \* TRUE in bootstrap.js, FALSE in worker.ts

ASSUME ReaderAssumption == /\ HighWater \in Nat \ {0}
                           /\ CancelAfterClose \in BOOLEAN

VARIABLES
    reader,     \* the fields above
    reads,      \* what each caller's last read() came to
    received,   \* history: the ids of the chunks read() returned, in order
    told        \* history: how a read() was handed the end, "no" until one was

readerVars == <<reader, reads, received, told>>

\* Nothing asked yet; the call is pending; it returned done because the writer
\* closed; it threw the writer's error; it returned done because the reader was
\* cancelled or an earlier read() had taken the end.
ReadStates == {"idle", "pending", "eof", "failed", "over"}

ReaderInit ==
    /\ reader = [queue |-> <<>>, waiting |-> <<>>, buffered |-> 0,
                 pendingCredit |-> 0, closed |-> FALSE, done |-> FALSE,
                 discarded |-> FALSE]
    /\ reads = [r \in Readers |-> "idle"]
    /\ received = <<>>
    /\ told = "no"

\* How a read() that is handed the end of the stream settles.
Settled(kind) == IF kind = "close" THEN "eof" ELSE "failed"

(***************************************************************************)
(* onChunkDelivered.  A chunk of n bytes leaves a reader that has  had     *)
(* bytes buffered.  Its bytes become credit for the writer, together with  *)
(* what was withheld before, unless more than the high-water mark is still *)
(* buffered.                                                               *)
(***************************************************************************)
Withheld(had, n) == Max0(had - n) > HighWater

Granted(had, n) ==
    IF Withheld(had, n) THEN 0 ELSE reader.pendingCredit + n

\* Mutant of StillOwed: pendingCreditBytes is not reset once granted.
StillOwedKept(had, n) == reader.pendingCredit + n

StillOwed(had, n) ==
    IF Withheld(had, n) THEN reader.pendingCredit + n ELSE 0

(***************************************************************************)
(* pushChunk: nothing once the stream ended, else the chunk goes to the    *)
(* oldest pending read() or into the queue.  PushGrant is the credit the   *)
(* step passes to onChunkConsumed.                                         *)
(***************************************************************************)
Ignoring == reader.closed \/ reader.done

PushChunk(ch) ==
    \/ /\ Ignoring
       /\ UNCHANGED readerVars
    \/ /\ ~Ignoring
       /\ reader.waiting = <<>>
       /\ reader' = [reader EXCEPT !.queue = Append(@, ch),
                                   !.buffered = @ + ch.bytes]
       /\ UNCHANGED <<reads, received, told>>
    \/ /\ ~Ignoring
       /\ reader.waiting # <<>>
       /\ LET had == reader.buffered + ch.bytes
          IN  reader' = [reader EXCEPT !.waiting = Tail(@),
                                       !.buffered = Max0(had - ch.bytes),
                                       !.pendingCredit = StillOwed(had, ch.bytes)]
       /\ reads' = [reads EXCEPT ![Head(reader.waiting)] = "idle"]
       /\ received' = Append(received, ch.id)
       /\ UNCHANGED told

PushGrant(ch) ==
    IF Ignoring \/ reader.waiting = <<>>
    THEN 0
    ELSE Granted(reader.buffered + ch.bytes, ch.bytes)

(***************************************************************************)
(* closeRemote and errorRemote: the end of the stream is handed to the     *)
(* oldest pending read() or queued behind the unread chunks.  Discards     *)
(* says whether the step runs the onLocalDiscard hook.  An end handed to a *)
(* pending read() leaves done unset, and other pending calls pending.      *)
(***************************************************************************)
\* Mutant of PushEnd: the end is queued even if a read() is pending.
PushEndPastWaiting(kind) ==
    \/ reader.closed /\ UNCHANGED readerVars
    \/ /\ ~reader.closed
       /\ reader' = [reader EXCEPT !.closed = TRUE, !.discarded = TRUE,
                                   !.queue = Append(@, Control(kind))]
       /\ UNCHANGED <<reads, received, told>>

PushEnd(kind) ==
    \/ /\ reader.closed
       /\ UNCHANGED readerVars
    \/ /\ ~reader.closed
       /\ reader.waiting = <<>>
       /\ reader' = [reader EXCEPT !.closed = TRUE, !.discarded = TRUE,
                                   !.queue = Append(@, Control(kind))]
       /\ UNCHANGED <<reads, received, told>>
    \/ /\ ~reader.closed
       /\ reader.waiting # <<>>
       /\ reader' = [reader EXCEPT !.closed = TRUE, !.discarded = TRUE,
                                   !.waiting = Tail(@)]
       /\ reads' = [reads EXCEPT ![Head(reader.waiting)] = Settled(kind)]
       /\ told' = Settled(kind)
       /\ UNCHANGED received

\* Mutant of Discards: a reader with unread chunks is not given up.
DiscardsWhenEmpty ==
    ~reader.closed /\ ~reader.discarded /\ reader.queue = <<>>

Discards == ~reader.closed /\ ~reader.discarded

(***************************************************************************)
(* read() by a caller with no pending call, whatever its last one came to. *)
(***************************************************************************)
ReadEnded(r) ==
    /\ reads[r] # "pending"
    /\ reader.done
    /\ reads' = [reads EXCEPT ![r] = "over"]
    /\ UNCHANGED <<reader, received, told>>

ReadChunk(r) ==
    /\ reads[r] # "pending"
    /\ ~reader.done
    /\ reader.queue # <<>>
    /\ LET ev == Head(reader.queue)
       IN  /\ ev.t = "chunk"
           /\ reader' = [reader EXCEPT !.queue = Tail(@),
                                       !.buffered = Max0(@ - ev.bytes),
                                       !.pendingCredit =
                                           StillOwed(reader.buffered, ev.bytes)]
           /\ received' = Append(received, ev.id)
    /\ UNCHANGED <<reads, told>>

ReadGrant == Granted(reader.buffered, Head(reader.queue).bytes)

ReadEnd(r) ==
    /\ reads[r] # "pending"
    /\ ~reader.done
    /\ reader.queue # <<>>
    /\ Head(reader.queue).t # "chunk"
    /\ reader' = [reader EXCEPT !.queue = Tail(@), !.done = TRUE]
    /\ reads' = [reads EXCEPT ![r] = Settled(Head(reader.queue).t)]
    /\ told' = Settled(Head(reader.queue).t)
    /\ UNCHANGED received

ReadWait(r) ==
    /\ reads[r] # "pending"
    /\ ~reader.done
    /\ reader.queue = <<>>
    /\ reader' = [reader EXCEPT !.waiting = Append(@, r)]
    /\ reads' = [reads EXCEPT ![r] = "pending"]
    /\ UNCHANGED <<received, told>>

(***************************************************************************)
(* cancel(): the queue is dropped, every pending read() returns done.      *)
(***************************************************************************)
CancelRead ==
    /\ ~reader.done
    /\ CancelAfterClose \/ ~reader.closed
    /\ reader' = [reader EXCEPT !.closed = TRUE, !.done = TRUE,
                                !.discarded = TRUE,
                                !.queue = <<>>, !.waiting = <<>>]
    /\ reads' = [r \in Readers |->
                    IF reads[r] = "pending" THEN "over" ELSE reads[r]]
    /\ UNCHANGED <<received, told>>

-----------------------------------------------------------------------------
\* The type of an event in the queue of the reader.
Events == [t : {"chunk", "close", "error"}, id : Nat, bytes : Nat]

ReaderRecords ==
    [queue : Seq(Events), waiting : Seq(Readers), buffered : Nat,
     pendingCredit : Nat, closed : BOOLEAN, done : BOOLEAN, discarded : BOOLEAN]

\* The type of the reader's variables (StreamReaderImpl, makeStreamReader).
ReaderTypeOK ==
    /\ reader \in ReaderRecords
    /\ reads \in [Readers -> ReadStates]
    /\ received \in Seq(Nat)
    /\ told \in {"no", "eof", "failed"}
=============================================================================
