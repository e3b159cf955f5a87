------------------------------ MODULE HostLane ------------------------------
(***************************************************************************)
(* One byte stream from the host to its worker: the writer made by         *)
(* worker.stream.create (worker.ts), the data channel of the native bridge *)
(* in both directions, and the reader that bootstrap.js made for it.  The  *)
(* behaviour starts when the worker has handled the open frame.            *)
(*                                                                         *)
(* The writer may have Window bytes on their way; the worker returns       *)
(* credit for what its application has read.  A chunk takes one of two     *)
(* ways into the data channel: small ones are queued and sent together by  *)
(* a later setImmediate callback, large ones and those of writeMany are    *)
(* posted at once.  The data channel is bounded and shared with all other  *)
(* traffic of the worker, so any post may find it full; MaxFull bounds how *)
(* often that happens.                                                     *)
(*                                                                         *)
(* JavaScript runs one callback at a time, then the promise continuations  *)
(* it queued, in order.  A step here is one callback or one continuation,  *)
(* and the variable  jobs  is the queue of continuations.  The worker's    *)
(* continuations run inside the step of the frame that resolves them.      *)
(***************************************************************************)
EXTENDS StreamReader, WriterCredit

CONSTANTS
    Ops,          \* which operations the two applications use
    AwaitsCalls,  \* the stream is only ended once every call has settled
    CreditFlush,  \* streamCreditFlushBytes
    BatchMax,     \* fastMaxBatchChunkBytes: the largest chunk that is queued
    QueueChunks,  \* fastMaxQueuedChunks
    QueueBytes,   \* fastMaxQueuedBytes
    Sizes,        \* the sizes of the chunks that are written
    Batches,      \* the size sequences passed to writeMany
    MaxChunks,    \* bound: chunks written in a behaviour
    MaxFull       \* bound: posts that find the data channel full

AllOps == {"write", "writeMany", "ready", "close", "error", "cancel",
           "cancelRead"}

ASSUME HostLaneAssumption ==
    /\ Ops \subseteq AllOps
    /\ AwaitsCalls \in BOOLEAN
    /\ CreditFlush \in Nat \ {0}
    /\ BatchMax \in Nat
    /\ QueueChunks \in Nat
    /\ QueueBytes \in Nat
    /\ Sizes \subseteq Nat \ {0}
    /\ Batches \subseteq Seq(Sizes) \ {<<>>}
    /\ MaxChunks \in Nat
    /\ MaxFull \in Nat

VARIABLES
    ended,         \* the writer's flag done, with the call that set it
    queued,        \* queuedFastChunks
    flushQueued,   \* fastFlushQueued
    flushError,    \* fastFlushError is set
    hostMeta,      \* streamById entry of the host: who discarded the stream
    toWorker,      \* the data channel, host to worker
    toHost,        \* frames from the worker to the host
    workerMeta,    \* __nodeStreamById entry of the worker
    unflushed,     \* __nodePendingStreamCredits of the stream
    nextId,        \* history: the id of the next chunk
    accepted,      \* history: ids of the chunks whose write went through, in order
    lost,          \* history: bytes whose credit was spent but were never posted
    fulls          \* how many posts found the channel full

queueVars == <<queued, flushQueued, flushError>>
writerVars == <<ended, creditVars, queueVars, hostMeta>>
workerVars == <<readerVars, workerMeta, unflushed>>
historyVars == <<nextId, accepted, lost, fulls>>
vars == <<writerVars, workerVars, historyVars, toWorker, toHost>>

Init ==
    /\ ReaderInit
    /\ CreditInit
    /\ ended = "no"
    /\ queued = <<>>
    /\ flushQueued = FALSE
    /\ flushError = FALSE
    /\ hostMeta = Fresh
    /\ toWorker = <<>>
    /\ toHost = <<>>
    /\ workerMeta = Fresh
    /\ unflushed = 0
    /\ nextId = 1
    /\ accepted = <<>>
    /\ lost = 0
    /\ fulls = 0

-----------------------------------------------------------------------------
(***************************************************************************)
(* Putting chunks into the data channel.                                   *)
(***************************************************************************)

\* postStreamChunkRawBin, or postStreamChunksRaw for more than one chunk: one
\* message of the channel, so it goes in as a whole or not at all.
Post(chunks) ==
    /\ toWorker' = toWorker \o chunks
    /\ UNCHANGED <<lost, fulls>>

PostFindsFull(chunks) ==
    /\ fulls < MaxFull
    /\ fulls' = fulls + 1
    /\ lost' = lost + Bytes(chunks)
    /\ UNCHANGED toWorker

\* Mutant of FlushFastChunks: the chunks of a failed post go back to the queue.
FlushFastChunksRestoring(q) ==
    /\ flushQueued' = FALSE
    /\ \/ Post(q) /\ queued' = <<>> /\ UNCHANGED flushError
       \/ q # <<>> /\ PostFindsFull(q) /\ queued' = q /\ flushError' = TRUE

\* flushFastChunks with q as the queue: an error is only remembered.
FlushFastChunks(q) ==
    /\ queued' = <<>>
    /\ flushQueued' = FALSE
    /\ \/ Post(q) /\ UNCHANGED flushError
       \/ q # <<>> /\ PostFindsFull(q) /\ flushError' = TRUE

Batched(ch) == ch.bytes <= BatchMax

\* Mutant of QueueFastChunk: nobody schedules the flush.
QueueFastChunkUnscheduled(ch) ==
    LET q == Append(queued, ch)
    IN  IF Len(q) >= QueueChunks \/ Bytes(q) >= QueueBytes
        THEN FlushFastChunks(q)
        ELSE /\ queued' = q
             /\ UNCHANGED <<flushQueued, flushError, toWorker, lost, fulls>>

\* queueFastChunk: flush at a limit, else by the setImmediate callback.
QueueFastChunk(ch) ==
    LET q == Append(queued, ch)
    IN  IF Len(q) >= QueueChunks \/ Bytes(q) >= QueueBytes
        THEN FlushFastChunks(q)
        ELSE /\ queued' = q
             /\ flushQueued' = TRUE
             /\ UNCHANGED <<flushError, toWorker, lost, fulls>>

\* A chunk whose credit is spent is handed over ...
Sent(ch) ==
    /\ \/ Batched(ch) /\ ~flushError /\ QueueFastChunk(ch)
       \/ ~Batched(ch) /\ Post(<<ch>>)
                       /\ UNCHANGED queueVars
    /\ accepted' = Append(accepted, ch.id)

\* ... or the attempt throws: an earlier flush failed, or the post does.
Thrown(ch) ==
    /\ \/ /\ Batched(ch)
          /\ flushError
          /\ lost' = lost + ch.bytes
          /\ UNCHANGED <<toWorker, fulls>>
       \/ ~Batched(ch) /\ PostFindsFull(<<ch>>)
    /\ UNCHANGED <<queueVars, accepted>>

-----------------------------------------------------------------------------
(***************************************************************************)
(* Calls on the writer.                                                    *)
(***************************************************************************)
MayCall(op, c) ==
    /\ op \in Ops
    /\ UserTurn
    /\ ended = "no"
    /\ call[c] = NoCall

outsideWriter == <<workerVars, toHost, ended, hostMeta>>

\* write(): with enough credit the chunk leaves within the call, even past
\* calls that are already waiting.
Write(c, n) ==
    /\ MayCall("write", c)
    /\ nextId <= MaxChunks
    /\ nextId' = nextId + 1
    /\ LET ch == Chunk(nextId, n)
       IN  \/ /\ credits >= n
              /\ credits' = Remaining(n)
              /\ Sent(ch) \/ Thrown(ch)
              /\ UNCHANGED <<call, waiters, jobs>>
           \/ /\ credits < n
              /\ Block(c, n, <<ch>>)
              /\ UNCHANGED <<credits, queueVars,
                             toWorker, accepted, lost, fulls>>
    /\ UNCHANGED outsideWriter

\* writeMany(): everything at once if the credit covers it, else one by one.
WriteMany(c, sizes) ==
    /\ MayCall("writeMany", c)
    /\ nextId + Len(sizes) <= MaxChunks + 1
    /\ nextId' = nextId + Len(sizes)
    /\ LET chunks == [i \in DOMAIN sizes |-> Chunk(nextId + i - 1, sizes[i])]
       IN  \/ /\ credits >= Bytes(chunks)
              /\ credits' = Remaining(Bytes(chunks))
              /\ \/ Post(chunks) /\ accepted' = accepted \o [i \in DOMAIN chunks |-> chunks[i].id]
                 \/ PostFindsFull(chunks) /\ UNCHANGED accepted
              /\ UNCHANGED <<call, waiters, jobs>>
           \/ /\ credits < Bytes(chunks)
              /\ Block(c, Head(chunks).bytes, chunks)
              /\ UNCHANGED <<credits, toWorker, accepted, lost, fulls>>
    /\ UNCHANGED <<outsideWriter, queueVars>>

\* ready(): waits for credit and spends none.
Ready(c, n) ==
    /\ MayCall("ready", c)
    /\ credits < n
    /\ Block(c, n, <<>>)
    /\ UNCHANGED <<outsideWriter, historyVars, credits, queueVars, toWorker>>

\* The continuation of a resolved wait.  It does not look at `ended` again.
Resume ==
    /\ jobs # <<>>
    /\ LET c == Head(jobs).caller
           todo == call[c].todo
       IN  \/ /\ todo = <<>>
              /\ Settle(c)
              /\ UNCHANGED <<credits, queueVars,
                             toWorker, accepted, lost, fulls>>
           \/ /\ todo # <<>>
              /\ credits' = Remaining(Head(todo).bytes)
              /\ \/ /\ Sent(Head(todo))
                    /\ Tail(todo) = <<>>
                    /\ Settle(c)
                 \/ /\ Sent(Head(todo))
                    /\ Tail(todo) # <<>>
                    /\ LET n == todo[2].bytes
                       IN  /\ call' = [call EXCEPT ![c] =
                                          [need |-> n, todo |-> Tail(todo)]]
                           /\ WaitForCredit(c, n, credits', Tail(jobs))
                 \/ /\ Thrown(Head(todo))
                    /\ Settle(c)
    /\ UNCHANGED <<outsideWriter, nextId>>

\* The setImmediate callback of scheduleFastFlush.
FlushTick ==
    /\ flushQueued
    /\ jobs = <<>>
    /\ FlushFastChunks(queued)
    /\ UNCHANGED <<outsideWriter, credits, waiters, jobs, call, nextId, accepted>>

-----------------------------------------------------------------------------
(***************************************************************************)
(* Ending the stream.                                                      *)
(***************************************************************************)
When(ok, s) == IF ok THEN s ELSE <<>>
Refusals(oks) == Cardinality({i \in DOMAIN oks : ~oks[i]})

\* Mutant of EndPosts: the frames overtake the queued chunks.
EndPostsUnflushed(frames, oks) ==
    /\ oks[1] \/ queued # <<>>
    /\ fulls + Refusals(oks) <= MaxFull
    /\ fulls' = fulls + Refusals(oks)
    /\ queued' = <<>>
    /\ flushQueued' = FALSE
    /\ flushError' = (flushError \/ ~oks[1])
    /\ lost' = lost + Bytes(When(~oks[1], queued))
    /\ toWorker' = toWorker \o frames \o When(oks[1], queued)

\* What close(), error() and cancel() have in common: the queue is flushed and
\* the frames are posted, oks telling which of the three posts go through.
EndPosts(frames, oks) ==
    /\ oks[1] \/ queued # <<>>
    /\ fulls + Refusals(oks) <= MaxFull
    /\ fulls' = fulls + Refusals(oks)
    /\ queued' = <<>>
    /\ flushQueued' = FALSE
    /\ flushError' = (flushError \/ ~oks[1])
    /\ lost' = lost + Bytes(When(~oks[1], queued))
    /\ toWorker' = toWorker \o When(oks[1], queued) \o frames

\* The end of close(): both sides are marked, so the entry goes.
ReleaseWriter ==
    /\ hostMeta' = Gone
    /\ RejectWriterWaiters

\* A post that throws before the end frame: the stream stays unreleased, its
\* waiters unanswered, and no later call ends it.
EndFails(oks) ==
    /\ ~oks[2] /\ oks[3]
    /\ EndPosts(<<>>, oks)
    /\ UNCHANGED <<hostMeta, credits, waiters, call>>

endUnchanged == <<workerVars, toHost, jobs, nextId, accepted>>

\* An application that awaits its calls ends the stream when none is pending.
MayEnd(op) ==
    /\ op \in Ops
    /\ UserTurn
    /\ ended = "no"
    /\ AwaitsCalls => \A c \in Callers : call[c] = NoCall
    /\ ended' = op

\* close(): a refused close or discard frame is ignored, but a refusal of the
\* other streams' pending credit frames throws.
Close ==
    /\ MayEnd("close")
    /\ \E oks \in [1 .. 3 -> BOOLEAN] :
          \/ /\ EndPosts(When(oks[2], <<Control("close")>>)
                           \o When(oks[3], <<Control("discard")>>), oks)
             /\ ReleaseWriter
          \/ EndFails(oks)
    /\ UNCHANGED endUnchanged

\* error() and cancel(): a refused frame throws before the release.
Abort(kind) ==
    /\ MayEnd(kind)
    /\ \E oks \in [1 .. 3 -> BOOLEAN] :
          \/ /\ oks[2]
             /\ EndPosts(<<Control(kind)>>
                           \o When(oks[3], <<Control("discard")>>), oks)
             /\ ReleaseWriter
          \/ EndFails(oks)
    /\ UNCHANGED endUnchanged

-----------------------------------------------------------------------------
(***************************************************************************)
(* The host handles the frames of the worker.                              *)
(***************************************************************************)

HostReceive ==
    /\ toHost # <<>>
    /\ jobs = <<>>
    /\ toHost' = Tail(toHost)
    /\ LET f == Head(toHost)
       IN  \/ /\ f.t = "credit"
              /\ AddWriterCredit(f.bytes)
              /\ UNCHANGED hostMeta
           \/ /\ f.t = "discard"
              /\ hostMeta' = MarkRemote(hostMeta)
              /\ UNCHANGED <<credits, waiters, jobs>>
           \* A cancel frame is for an incoming stream; this one is outgoing.
           \/ /\ f.t = "cancel"
              /\ UNCHANGED <<hostMeta, credits, waiters, jobs>>
    /\ UNCHANGED <<workerVars, historyVars, toWorker, ended, call, queueVars>>

-----------------------------------------------------------------------------
(***************************************************************************)
(* The worker.                                                             *)
(***************************************************************************)

\* queueStreamCredit: credit goes out once a whole flush amount has gathered.
CreditThreshold == IF CreditFlush < Window THEN CreditFlush ELSE Window

\* Mutant of QueueStreamCredit: what was withheld before is forgotten.
QueueStreamCreditForgetting(n) ==
    LET next == unflushed + n
    IN  IF n > 0 /\ next >= CreditThreshold
        THEN /\ toHost' = Append(toHost, Credit(n))
             /\ unflushed' = 0
        ELSE /\ unflushed' = next
             /\ UNCHANGED toHost

\* Mutant of QueueStreamCredit: the threshold itself does not flush.
QueueStreamCreditStrict(n) ==
    LET next == unflushed + n
    IN  IF n > 0 /\ next > CreditThreshold
        THEN /\ toHost' = Append(toHost, Credit(next))
             /\ unflushed' = 0
        ELSE /\ unflushed' = next
             /\ UNCHANGED toHost

QueueStreamCredit(n) ==
    LET next == unflushed + n
    IN  IF n > 0 /\ next >= CreditThreshold
        THEN /\ toHost' = Append(toHost, Credit(next))
             /\ unflushed' = 0
        ELSE /\ unflushed' = next
             /\ UNCHANGED toHost

\* markLocalDiscard after `frames` were sent, if the reader just gave up.
DiscardLocally(frames, gaveUp) ==
    IF gaveUp /\ ~workerMeta.local
    THEN /\ toHost' = toHost \o frames \o <<Control("discard")>>
         /\ workerMeta' = MarkLocal(workerMeta)
         /\ unflushed' = IF workerMeta.remote THEN 0 ELSE unflushed
    ELSE /\ toHost' = toHost \o frames
         /\ UNCHANGED <<workerMeta, unflushed>>

ReceiveChunk(ch) ==
    /\ ch.t = "chunk"
    /\ IF Released(workerMeta)
       THEN UNCHANGED <<readerVars, unflushed, toHost>>
       ELSE PushChunk(ch) /\ QueueStreamCredit(PushGrant(ch))
    /\ UNCHANGED workerMeta

\* closeRemote for a close frame, errorRemote for an error or a cancel frame.
ReceiveEnd(f) ==
    /\ f.t \in {"close", "error", "cancel"}
    /\ IF Released(workerMeta)
       THEN UNCHANGED <<workerVars, toHost>>
       ELSE /\ PushEnd(IF f.t = "close" THEN "close" ELSE "error")
            /\ DiscardLocally(<<>>, Discards)

\* markRemoteDiscard.
ReceiveDiscard(f) ==
    /\ f.t = "discard"
    /\ workerMeta' = MarkRemote(workerMeta)
    /\ unflushed' = IF workerMeta.local /\ ~workerMeta.remote
                    THEN 0 ELSE unflushed
    /\ UNCHANGED <<readerVars, toHost>>

WorkerReceive ==
    /\ toWorker # <<>>
    /\ toWorker' = Tail(toWorker)
    /\ \/ ReceiveChunk(Head(toWorker))
       \/ ReceiveEnd(Head(toWorker))
       \/ ReceiveDiscard(Head(toWorker))
    /\ UNCHANGED <<writerVars, historyVars>>

Read(r) ==
    /\ \/ ReadChunk(r) /\ QueueStreamCredit(ReadGrant)
       \/ ReadEnded(r) /\ UNCHANGED <<unflushed, toHost>>
       \/ ReadEnd(r) /\ UNCHANGED <<unflushed, toHost>>
       \/ ReadWait(r) /\ UNCHANGED <<unflushed, toHost>>
    /\ UNCHANGED <<writerVars, historyVars, toWorker, workerMeta>>

\* cancel() of the reader sends a cancel frame, then discards.
CancelReader ==
    /\ "cancelRead" \in Ops
    /\ CancelRead
    /\ DiscardLocally(<<Control("cancel")>>, ~reader.discarded)
    /\ UNCHANGED <<writerVars, historyVars, toWorker>>

-----------------------------------------------------------------------------
Next ==
    \/ \E c \in Callers, n \in Sizes : Write(c, n) \/ Ready(c, n)
    \/ \E c \in Callers, sizes \in Batches : WriteMany(c, sizes)
    \/ Resume
    \/ FlushTick
    \/ Close
    \/ \E kind \in {"error", "cancel"} : Abort(kind)
    \/ HostReceive
    \/ WorkerReceive
    \/ \E r \in Readers : Read(r)
    \/ CancelReader

Spec == Init /\ [][Next]_vars

(***************************************************************************)
(* The event loops of both sides keep running, and the worker application  *)
(* keeps reading.  Nothing forces the host application to write or close.  *)
(***************************************************************************)
Fairness ==
    /\ WF_vars(Resume)
    /\ WF_vars(FlushTick)
    /\ WF_vars(HostReceive)
    /\ WF_vars(WorkerReceive)
    /\ \A r \in Readers : WF_vars(Read(r))

FairSpec == Spec /\ Fairness

-----------------------------------------------------------------------------
(***************************************************************************)
(* Properties.                                                             *)
(***************************************************************************)
WorkerFrames == [t : {"chunk", "close", "error", "cancel", "discard"},
                 id : Nat, bytes : Nat]
HostFrames == [t : {"credit", "cancel", "discard"}, id : Nat, bytes : Nat]

\* The type of every variable of the lane (worker.ts, bootstrap.js).
HostLaneTypeOK ==
    /\ ReaderTypeOK
    /\ CreditTypeOK
    /\ ended \in {"no", "close", "error", "cancel"}
    /\ queued \in Seq(Chunks)
    /\ flushQueued \in BOOLEAN
    /\ flushError \in BOOLEAN
    /\ hostMeta \in Metas
    /\ toWorker \in Seq(WorkerFrames)
    /\ toHost \in Seq(HostFrames)
    /\ workerMeta \in Metas
    /\ unflushed \in Nat
    /\ nextId \in Nat
    /\ accepted \in Seq(Nat)
    /\ lost \in Nat
    /\ fulls \in Nat

\* Bytes the writer has handed over and no read() has returned yet.
Outstanding == Bytes(queued) + Bytes(toWorker) + reader.buffered

\* Flow control: a writer that awaits its calls never has more than the window
\* outstanding, whatever mixture of write, writeMany and ready it uses and
\* wherever the bytes are (the flush queue, the channel, the reader's queue).
WindowRespected == Outstanding <= Window

\* No credit is made or lost: while both ends are open, the balance of the
\* writer, the bytes under way and the credit on its way back add up to the
\* window, less what a full channel swallowed.
CreditConserved ==
    ended = "no" /\ ~reader.closed =>
        credits + Outstanding + reader.pendingCredit + unflushed
                + Bytes(toHost) + lost = Window

\* Chunks the writer queued for a joint post are never stranded without the
\* callback that posts them.
QueuedIsScheduled == queued # <<>> => flushQueued

\* The promise of a byte stream, seen from the lane.
Stream == INSTANCE ByteStream WITH
    ChunkId <- 1 .. MaxChunks,
    sent  <- accepted,
    ended <- IF ended = "cancel" THEN "error" ELSE ended,
    got   <- received,
    seen  <- told

\* The lane implements the byte stream of types.ts: order, no loss, no
\* duplicates, no clean end before everything was read.
ImplementsByteStream == Stream!Spec

\* Every write, writeMany and ready call settles as long as the reader reads.
EveryCallSettles ==
    \A c \in Callers : call[c] # NoCall ~> call[c] = NoCall

\* Whatever went through is read in the end, or the reader has seen the end.
EverythingIsRead ==
    \A id \in 1 .. MaxChunks :
        (\E i \in DOMAIN accepted : accepted[i] = id)
            ~> \/ \E i \in DOMAIN received : received[i] = id
               \/ reader.done

\* Ending the stream on one side takes its entry out of both tables.
EndReleasesBothSides ==
    ended # "no" ~> Released(hostMeta) /\ Released(workerMeta)

-----------------------------------------------------------------------------
(***************************************************************************)
(* Statements of the documentation that the code does not keep.            *)
(***************************************************************************)

\* Chunks are read in the order of the write calls (bridge.isolation.spec.ts:
\* stream chunk ordering is preserved).
ReadInWriteOrder ==
    \A i, j \in DOMAIN received : i < j => received[i] < received[j]

\* close() is graceful (types.ts): a reader that sees the clean end has read
\* every chunk whose write() went through.
CleanEndIsComplete ==
    told = "eof"
        => \A i \in DOMAIN accepted :
              \E j \in DOMAIN received : received[j] = accepted[i]
=============================================================================
