----------------------------- MODULE WorkerLane -----------------------------
(***************************************************************************)
(* One byte stream from the worker to its host: the writer made by         *)
(* hostStreams.create (bootstrap.js), the message path to the host, the    *)
(* StreamReaderImpl of the host (worker.ts), and the data channel that     *)
(* brings credit back.  The behaviour starts when the host has handled the *)
(* open frame.                                                             *)
(*                                                                         *)
(* Here every write waits for credit first, enough or not, so there is a   *)
(* continuation between each call and its post; a writeMany spends its     *)
(* credit only when a batch is posted.  Frames to the host are never lost, *)
(* but frames to the worker go through the bounded data channel that all   *)
(* traffic of the worker shares; MaxFull bounds how often it is full.      *)
(***************************************************************************)
EXTENDS StreamReader, WriterCredit

CONSTANTS
    Ops,          \* which operations the two applications use
    AwaitsCalls,  \* the stream is only ended once every call has settled
    CreditFlush,  \* streamCreditFlushBytes
    BatchLen,     \* chunks in a batch of writeMany
    Sizes,        \* the sizes of the chunks that are written
    Batches,      \* the size sequences passed to writeMany
    MaxChunks,    \* bound: chunks written in a behaviour
    MaxFull       \* bound: posts that find the data channel full

AllOps == {"write", "writeMany", "ready", "close", "error", "cancel",
           "cancelRead"}

ASSUME WorkerLaneAssumption ==
    /\ Ops \subseteq AllOps
    /\ AwaitsCalls \in BOOLEAN
    /\ CreditFlush \in Nat \ {0}
    /\ BatchLen \in Nat \ {0}
    /\ Sizes \subseteq Nat \ {0}
    /\ Batches \subseteq Seq(Sizes) \ {<<>>}
    /\ MaxChunks \in Nat
    /\ MaxFull \in Nat

VARIABLES
    ended,           \* the writer's flag done, with the call that set it
    batch,           \* per caller: chunks of a writeMany not posted yet
    workerMeta,      \* __nodeStreamById entry of the worker
    toHost,          \* frames from the worker to the host
    toWorker,        \* the data channel, host to worker
    hostMeta,        \* streamById entry of the host
    unflushed,       \* pendingCreditFrames of the stream
    flushScheduled,  \* creditFlushScheduled
    nextId,          \* history: the id of the next chunk
    accepted,        \* history: ids of the posted chunks, in order
    lost,            \* history: credit that found the channel full
    fulls            \* how many posts found the channel full

writerVars == <<ended, creditVars, batch, workerMeta>>
hostVars == <<readerVars, hostMeta, unflushed, flushScheduled>>
fullVars == <<lost, fulls>>
historyVars == <<nextId, accepted>>
vars == <<writerVars, hostVars, fullVars, historyVars, toHost, toWorker>>

NoBatch == [c \in Callers |-> <<>>]

Init ==
    /\ ReaderInit
    /\ CreditInit
    /\ ended = "no"
    /\ batch = NoBatch
    /\ workerMeta = Fresh
    /\ toHost = <<>>
    /\ toWorker = <<>>
    /\ hostMeta = Fresh
    /\ unflushed = 0
    /\ flushScheduled = FALSE
    /\ nextId = 1
    /\ accepted = <<>>
    /\ lost = 0
    /\ fulls = 0

-----------------------------------------------------------------------------
(***************************************************************************)
(* Calls on the writer.                                                    *)
(***************************************************************************)
MayCall(op, c) ==
    /\ op \in Ops
    /\ UserTurn
    /\ ended = "no"
    /\ call[c] = NoCall

outsideWriter == <<hostVars, fullVars, toWorker, ended, workerMeta>>

\* write() of n bytes, or writeMany(): both wait for credit for the first chunk.
Write(op, c, sizes) ==
    /\ MayCall(op, c)
    /\ nextId + Len(sizes) <= MaxChunks + 1
    /\ nextId' = nextId + Len(sizes)
    /\ Block(c, sizes[1], [i \in DOMAIN sizes |-> Chunk(nextId + i - 1, sizes[i])])
    /\ UNCHANGED <<outsideWriter, credits, batch, toHost, accepted>>

\* ready(): waits for credit and spends none.
Ready(c, n) ==
    /\ MayCall("ready", c)
    /\ Block(c, n, <<>>)
    /\ UNCHANGED <<outsideWriter, credits, batch, toHost, historyVars>>

\* Mutant of PostBatch: the credit is not spent.
PostBatchForFree(c, b) ==
    /\ toHost' = toHost \o b
    /\ credits' = credits
    /\ accepted' = accepted \o [i \in DOMAIN b |-> b[i].id]
    /\ batch' = [batch EXCEPT ![c] = <<>>]

\* Mutant of PostBatch: the batch is kept and posted again with the next one.
PostBatchAgain(c, b) ==
    /\ toHost' = toHost \o b
    /\ credits' = Remaining(Bytes(b))
    /\ accepted' = accepted \o [i \in DOMAIN b |-> b[i].id]
    /\ batch' = [batch EXCEPT ![c] = b]

\* The chunks gathered are posted one message each, then their credit is spent.
PostBatch(c, b) ==
    /\ toHost' = toHost \o b
    /\ credits' = Remaining(Bytes(b))
    /\ accepted' = accepted \o [i \in DOMAIN b |-> b[i].id]
    /\ batch' = [batch EXCEPT ![c] = <<>>]

\* The continuation of a resolved wait.  It does not look at `ended` again.
Resume ==
    /\ jobs # <<>>
    /\ LET c == Head(jobs).caller
           todo == call[c].todo
           b == Append(batch[c], Head(todo))
       IN  \/ /\ todo = <<>>
              /\ Settle(c)
              /\ UNCHANGED <<credits, batch, toHost, accepted>>
           \/ /\ Len(todo) = 1
              /\ PostBatch(c, b)
              /\ Settle(c)
           \/ /\ Len(todo) > 1
              /\ \/ /\ Len(b) >= BatchLen
                    /\ PostBatch(c, b)
                 \/ /\ Len(b) < BatchLen
                    /\ batch' = [batch EXCEPT ![c] = b]
                    /\ UNCHANGED <<credits, toHost, accepted>>
              /\ LET n == todo[2].bytes
                 IN  /\ call' = [call EXCEPT ![c] =
                                    [need |-> n, todo |-> Tail(todo)]]
                     /\ WaitForCredit(c, n, credits', Tail(jobs))
    /\ UNCHANGED <<outsideWriter, nextId>>

(***************************************************************************)
(* close(), error() and cancel() post their frame and the discard, release *)
(* the entry and reject the calls that wait for credit.  A call whose wait *)
(* has been resolved goes on and posts its chunk behind the end.           *)
(***************************************************************************)
End(kind) ==
    /\ kind \in Ops
    /\ UserTurn
    /\ ended = "no"
    /\ AwaitsCalls => \A c \in Callers : call[c] = NoCall
    /\ ended' = kind
    /\ toHost' = toHost \o <<Control(kind)>>
                   \o IF workerMeta.local THEN <<>> ELSE <<Control("discard")>>
    /\ workerMeta' = Gone
    /\ RejectWriterWaiters
    /\ batch' = [c \in Callers |-> IF call'[c] = NoCall THEN <<>> ELSE batch[c]]
    /\ UNCHANGED <<hostVars, fullVars, toWorker, jobs, historyVars>>

(***************************************************************************)
(* The worker handles the frames of the host.                              *)
(***************************************************************************)
WorkerReceive ==
    /\ toWorker # <<>>
    /\ toWorker' = Tail(toWorker)
    /\ LET f == Head(toWorker)
       IN  \/ /\ f.t = "credit"
              /\ AddWriterCredit(f.bytes)
              /\ UNCHANGED workerMeta
           \/ /\ f.t = "discard"
              /\ workerMeta' = MarkRemote(workerMeta)
              /\ UNCHANGED <<credits, waiters, jobs>>
           \* Only a reader of that id would take notice, and there is none.
           \/ /\ f.t = "cancel"
              /\ UNCHANGED <<workerMeta, credits, waiters, jobs>>
    /\ UNCHANGED <<hostVars, fullVars, historyVars, toHost, ended, call, batch>>

-----------------------------------------------------------------------------
(***************************************************************************)
(* The host.                                                               *)
(***************************************************************************)

\* Mutant of FlushCreditFrames: the pending credit is not cleared.
FlushCreditFramesKeeping(n) ==
    /\ unflushed' = n
    /\ toWorker' = IF n > 0 THEN Append(toWorker, Credit(n)) ELSE toWorker
    /\ UNCHANGED fullVars

\* flushCreditFrames: the pending credit is cleared before it is posted, so a
\* full channel swallows it.
FlushCreditFrames(n) ==
    /\ unflushed' = 0
    /\ \/ /\ toWorker' = IF n > 0 THEN Append(toWorker, Credit(n)) ELSE toWorker
          /\ UNCHANGED fullVars
       \/ /\ n > 0
          /\ fulls < MaxFull
          /\ fulls' = fulls + 1
          /\ lost' = lost + n
          /\ UNCHANGED toWorker

CreditThreshold == IF CreditFlush < Window THEN CreditFlush ELSE Window

\* Mutant of QueueCreditFrame: below the threshold nobody schedules the flush.
QueueCreditFrameUnscheduled(n) ==
    LET next == unflushed + n
    IN  IF n = 0
        THEN UNCHANGED <<unflushed, flushScheduled, toWorker, fullVars>>
        ELSE IF next >= CreditThreshold
        THEN FlushCreditFrames(next) /\ UNCHANGED flushScheduled
        ELSE /\ unflushed' = next
             /\ UNCHANGED <<flushScheduled, toWorker, fullVars>>

\* queueCreditFrame: flush at the threshold, else by a setImmediate callback.
QueueCreditFrame(n) ==
    LET next == unflushed + n
    IN  IF n = 0
        THEN UNCHANGED <<unflushed, flushScheduled, toWorker, fullVars>>
        ELSE IF next >= CreditThreshold
        THEN FlushCreditFrames(next) /\ UNCHANGED flushScheduled
        ELSE /\ unflushed' = next
             /\ flushScheduled' = TRUE
             /\ UNCHANGED <<toWorker, fullVars>>

\* The setImmediate callback that queueCreditFrame scheduled.  A frame that finds
\* the channel full makes it throw with nobody to catch (emitStreamFrame): Node
\* ends the process, or it goes on without the credit if it handles uncaught
\* exceptions.  The model is of the second.
CreditFlushTick ==
    /\ flushScheduled
    /\ flushScheduled' = FALSE
    /\ FlushCreditFrames(unflushed)
    /\ UNCHANGED <<writerVars, readerVars, hostMeta, historyVars, toHost>>

\* Frames posted one by one; any of them may find the channel full, which is
\* ignored.
PostIgnoringFull(frames) ==
    \E gone \in SUBSET DOMAIN frames :
        /\ fulls + Cardinality(gone) <= MaxFull
        /\ fulls' = fulls + Cardinality(gone)
        /\ toWorker' = toWorker \o At(frames, DOMAIN frames \ gone)

\* markLocalDiscard after `frames` were posted, if the reader just gave up.
DiscardLocally(frames, gaveUp) ==
    /\ IF gaveUp /\ ~hostMeta.local
       THEN /\ PostIgnoringFull(frames \o <<Control("discard")>>)
            /\ hostMeta' = MarkLocal(hostMeta)
            /\ unflushed' = IF hostMeta.remote THEN 0 ELSE unflushed
       ELSE /\ PostIgnoringFull(frames)
            /\ UNCHANGED <<hostMeta, unflushed>>
    /\ UNCHANGED lost

ReceiveChunk(ch) ==
    /\ ch.t = "chunk"
    /\ IF Released(hostMeta)
       THEN UNCHANGED <<readerVars, unflushed, flushScheduled, toWorker, fullVars>>
       ELSE PushChunk(ch) /\ QueueCreditFrame(PushGrant(ch))
    /\ UNCHANGED hostMeta

\* closeRemote for a close frame, errorRemote for an error or a cancel frame.
ReceiveEnd(f) ==
    /\ f.t \in {"close", "error", "cancel"}
    /\ IF Released(hostMeta)
       THEN UNCHANGED <<readerVars, hostMeta, unflushed, toWorker, fullVars>>
       ELSE /\ PushEnd(IF f.t = "close" THEN "close" ELSE "error")
            /\ DiscardLocally(<<>>, Discards)
    /\ UNCHANGED flushScheduled

\* markRemoteDiscard.
ReceiveDiscard(f) ==
    /\ f.t = "discard"
    /\ hostMeta' = MarkRemote(hostMeta)
    /\ unflushed' = IF hostMeta.local /\ ~hostMeta.remote THEN 0 ELSE unflushed
    /\ UNCHANGED <<readerVars, flushScheduled, toWorker, fullVars>>

HostReceive ==
    /\ toHost # <<>>
    /\ toHost' = Tail(toHost)
    /\ \/ ReceiveChunk(Head(toHost))
       \/ ReceiveEnd(Head(toHost))
       \/ ReceiveDiscard(Head(toHost))
    /\ UNCHANGED <<writerVars, historyVars>>

Read(r) ==
    /\ \/ ReadChunk(r) /\ QueueCreditFrame(ReadGrant)
       \/ /\ ReadEnded(r) \/ ReadEnd(r) \/ ReadWait(r)
          /\ UNCHANGED <<unflushed, flushScheduled, toWorker, fullVars>>
    /\ UNCHANGED <<writerVars, hostMeta, historyVars, toHost>>

\* cancel() of the reader posts a cancel frame, then discards.
CancelReader ==
    /\ "cancelRead" \in Ops
    /\ CancelRead
    /\ DiscardLocally(<<Control("cancel")>>, ~reader.discarded)
    /\ UNCHANGED <<writerVars, flushScheduled, historyVars, toHost>>

-----------------------------------------------------------------------------
Next ==
    \/ \E c \in Callers, n \in Sizes : Write("write", c, <<n>>) \/ Ready(c, n)
    \/ \E c \in Callers, sizes \in Batches : Write("writeMany", c, sizes)
    \/ Resume
    \/ \E kind \in {"close", "error", "cancel"} : End(kind)
    \/ WorkerReceive
    \/ CreditFlushTick
    \/ HostReceive
    \/ \E r \in Readers : Read(r)
    \/ CancelReader

Spec == Init /\ [][Next]_vars

(***************************************************************************)
(* The event loops of both sides keep running, and the host application    *)
(* keeps reading.  Nothing forces the worker application to write or close.*)
(***************************************************************************)
Fairness ==
    /\ WF_vars(Resume)
    /\ WF_vars(WorkerReceive)
    /\ WF_vars(CreditFlushTick)
    /\ WF_vars(HostReceive)
    /\ \A r \in Readers : WF_vars(Read(r))

FairSpec == Spec /\ Fairness

-----------------------------------------------------------------------------
(***************************************************************************)
(* Properties.                                                             *)
(***************************************************************************)

\* The type of every variable of the lane (bootstrap.js, worker.ts).
WorkerLaneTypeOK ==
    /\ ReaderTypeOK
    /\ CreditTypeOK
    /\ ended \in {"no", "close", "error", "cancel"}
    /\ batch \in [Callers -> Seq(Chunks)]
    /\ workerMeta \in Metas
    /\ toHost \in Seq([t : {"chunk", "close", "error", "cancel", "discard"},
                       id : Nat, bytes : Nat])
    /\ toWorker \in Seq([t : {"credit", "cancel", "discard"},
                         id : Nat, bytes : Nat])
    /\ hostMeta \in Metas
    /\ unflushed \in Nat
    /\ flushScheduled \in BOOLEAN
    /\ nextId \in Nat
    /\ accepted \in Seq(Nat)
    /\ lost \in Nat
    /\ fulls \in Nat

\* Bytes the writer has posted and no read() has returned yet.
Outstanding == Bytes(toHost) + reader.buffered

\* Flow control: a writer that awaits its calls and writes chunk by chunk never
\* has more than the window outstanding.
WindowRespected == Outstanding <= Window

\* No credit is made or lost: while both ends are open, the balance of the
\* writer, the bytes under way and the credit on its way back add up to the
\* window, less what a full channel swallowed.
CreditConserved ==
    ended = "no" /\ ~reader.closed =>
        credits + Outstanding + reader.pendingCredit + unflushed
                + Bytes(toWorker) + lost = Window

\* Credit that the host withholds below the threshold is always scheduled to go
\* out (queueCreditFrame), unlike in the other direction.
UnflushedIsScheduled == unflushed > 0 => flushScheduled

\* Every variable has its type, and no credit is withheld for good.
WithheldIsScheduled == WorkerLaneTypeOK /\ UnflushedIsScheduled

\* The promise of a byte stream, seen from the lane.
Stream == INSTANCE ByteStream WITH
    ChunkId <- 1 .. MaxChunks,
    sent  <- accepted,
    ended <- IF ended = "cancel" THEN "error" ELSE ended,
    got   <- received,
    seen  <- told

\* The lane implements the byte stream of types.ts: order, no loss, no
\* duplicates, no clean end before everything was read.
ImplementsByteStream == Stream!Spec

\* Every write, writeMany and ready call of the worker settles as long as the
\* host reads.
EveryCallSettles ==
    \A c \in Callers : call[c] # NoCall ~> call[c] = NoCall

\* Whatever was posted is read in the end, or the reader has seen the end.
EverythingIsRead ==
    \A id \in 1 .. MaxChunks :
        (\E i \in DOMAIN accepted : accepted[i] = id)
            ~> \/ \E i \in DOMAIN received : received[i] = id
               \/ reader.done

\* The oldest pending read(), when none was told of the end yet.
IsNext(r) == told = "no" /\ reader.waiting # <<>> /\ Head(reader.waiting) = r

\* Once the writer has ended the stream, the oldest pending read() returns,
\* unless a read() was told of the end before (pushEvent, read).
OldestReadSettles ==
    \A r \in Readers :
        (ended # "no" /\ IsNext(r)) ~> reads[r] # "pending"

\* Ending the stream on one side takes its entry out of both tables.
EndReleasesBothSides ==
    ended # "no" ~> Released(hostMeta) /\ Released(workerMeta)

-----------------------------------------------------------------------------
(***************************************************************************)
(* Statements of the comments that the code does not keep.                 *)
(***************************************************************************)

\* The step that closes the remote side of the reader resolves or rejects its
\* pending reads (closeRemote and errorRemote of worker.ts).
EndResolvesPendingReads ==
    [][~reader.closed /\ reader'.closed => reader'.waiting = <<>>]_vars

\* Once the writer has ended the stream, every read() that is pending returns.
\* Neither a second pending read() does, nor one that is called after a pending
\* read() was handed the end, which leaves done unset (pushEvent, read).
EveryReadSettles ==
    \A r \in Readers :
        ended # "no" /\ reads[r] = "pending" ~> reads[r] # "pending"
=============================================================================
