------------------------- MODULE WorkerLaneProofs -------------------------
(***************************************************************************)
(* Theorems about the lane from the worker to its host, for every value of *)
(* its constants.                                                          *)
(***************************************************************************)
EXTENDS WorkerLane, StreamPartsProofs

\* The frames of the two channels.
ToHostFrames == [t : {"chunk", "close", "error", "cancel", "discard"}, id : Nat, bytes : Nat]
ToWorkerFrames == [t : {"credit", "cancel", "discard"}, id : Nat, bytes : Nat]

\* Only chunks and credit carry bytes.
PlainToHost == {f \in ToHostFrames : f.t # "chunk" => f.bytes = 0}
PlainToWorker == {f \in ToWorkerFrames : f.t # "credit" => f.bytes = 0}

\* The frames of the host that are not credit.
Signals == {f \in ToWorkerFrames : f.bytes = 0}

LEMMA FrameKinds ==
    /\ Chunks \subseteq ToHostFrames /\ Chunks \subseteq PlainToHost
    /\ PlainToHost \subseteq ToHostFrames
    /\ PlainToWorker \subseteq ToWorkerFrames /\ Signals \subseteq PlainToWorker
    /\ \A k \in {"close", "error", "cancel", "discard"} :
          Control(k) \in PlainToHost /\ Control(k).bytes = 0
    /\ \A k \in {"cancel", "discard"} : Control(k) \in Signals
    /\ \A n \in Nat : Credit(n) \in PlainToWorker /\ Credit(n).bytes = n
    /\ \A x \in ToHostFrames : x.bytes \in Nat
    /\ \A x \in ToWorkerFrames : x.bytes \in Nat
    /\ \A x \in Chunks : x.bytes \in Nat /\ x.id \in Nat
    /\ \A x \in Signals : x.bytes = 0
BY DEF Chunks, ToHostFrames, ToWorkerFrames, PlainToHost, PlainToWorker, Signals, Control,
       Credit

-----------------------------------------------------------------------------
(***************************************************************************)
(* The parts of the type, and the invariant behind the first theorems.     *)
(***************************************************************************)
\* The writer apart from its credit, and what it sends.
WriterOK == /\ ended \in EndedKinds
            /\ batch \in [Callers -> Seq(Chunks)]
            /\ workerMeta \in Metas
            /\ toHost \in Seq(ToHostFrames)
            /\ nextId \in Nat
            /\ accepted \in Seq(Nat)

HostOK == ReaderTypeOK /\ hostMeta \in Metas

\* The credit on its way back.
ReturnOK == /\ unflushed \in Nat
            /\ flushScheduled \in BOOLEAN
            /\ toWorker \in Seq(ToWorkerFrames)
            /\ lost \in Nat
            /\ fulls \in Nat

WorkerLaneInv == WorkerLaneTypeOK /\ WaitersLackCredit /\ UnflushedIsScheduled

LEMMA TypeParts ==
    WorkerLaneTypeOK <=> CreditTypeOK /\ WriterOK /\ HostOK /\ ReturnOK
BY DEF WorkerLaneTypeOK, WriterOK, HostOK, ReturnOK, EndedKinds, ToHostFrames, ToWorkerFrames

LEMMA TypePartsNext ==
    WorkerLaneTypeOK' <=> CreditTypeOK' /\ WriterOK' /\ HostOK' /\ ReturnOK'
BY DEF WorkerLaneTypeOK, WriterOK, HostOK, ReturnOK, EndedKinds, ToHostFrames, ToWorkerFrames

\* The invariant taken apart, and put together again.
LEMMA Parts ==
    ASSUME WorkerLaneInv
    PROVE  /\ CreditTypeOK /\ WriterOK /\ HostOK /\ ReturnOK
           /\ WaitersLackCredit /\ UnflushedIsScheduled
BY TypeParts DEF WorkerLaneInv

LEMMA PartsNext ==
    ASSUME CreditTypeOK', WriterOK', HostOK', ReturnOK', WaitersLackCredit', UnflushedIsScheduled'
    PROVE  WorkerLaneInv'
BY TypePartsNext DEF WorkerLaneInv

LEMMA HostUnchanged ==
    ASSUME HostOK, ReturnOK, UnflushedIsScheduled, UNCHANGED <<hostVars, fullVars>>,
           toWorker' \in Seq(ToWorkerFrames)
    PROVE  HostOK' /\ ReturnOK' /\ UnflushedIsScheduled'
<1>1. HostOK'
    BY DEF HostOK, hostVars, readerVars, ReaderTypeOK
<1>2. unflushed' = unflushed /\ flushScheduled' = flushScheduled
    BY DEF hostVars
<1>3. flushScheduled' \in BOOLEAN
    BY <1>2 DEF ReturnOK
<1>4. ReturnOK'
    BY <1>2, <1>3 DEF ReturnOK, fullVars
<1>5. QED
    BY <1>1, <1>2, <1>4 DEF UnflushedIsScheduled

\* A step of the host leaves the writer alone.
LEMMA WriterUnchanged ==
    ASSUME CreditTypeOK, WriterOK, WaitersLackCredit,
           UNCHANGED <<writerVars, historyVars>>, toHost' \in Seq(ToHostFrames)
    PROVE  CreditTypeOK' /\ WriterOK' /\ WaitersLackCredit'
<1>1. CreditTypeOK' /\ WaitersLackCredit'
    BY CreditUnchangedType DEF writerVars
<1>2. WriterOK'
    BY DEF writerVars, historyVars, WriterOK
<1>3. QED
    BY <1>1, <1>2

LEMMA InvInit == Init => WorkerLaneInv
<1>1. SUFFICES ASSUME Init PROVE WorkerLaneInv
    OBVIOUS
<1>2. ReaderTypeOK /\ CreditTypeOK /\ WaitersLackCredit
    BY <1>1, ReaderInitType, CreditInitType DEF Init, CreditInit, WaitersLackCredit
<1>3. WriterOK
  <2>1. batch \in [Callers -> Seq(Chunks)]
      BY <1>1 DEF Init, NoBatch
  <2>2. QED
      BY <1>1, <2>1, MetaTypes DEF Init, WriterOK, EndedKinds
<1>4. HostOK
    BY <1>1, <1>2, MetaTypes DEF Init, HostOK
<1>5. ReturnOK
  <2>1. flushScheduled \in BOOLEAN
      BY <1>1, Zenon DEF Init
  <2>2. QED
      BY <1>1, <2>1 DEF Init, ReturnOK
<1>6. QED
    BY <1>1, <1>2, <1>3, <1>4, <1>5, TypeParts DEF WorkerLaneInv, UnflushedIsScheduled, Init

-----------------------------------------------------------------------------
(***************************************************************************)
(* Calls on the writer.                                                    *)
(***************************************************************************)
LEMMA OutsideKept ==
    ASSUME HostOK, ReturnOK, UnflushedIsScheduled, UNCHANGED outsideWriter
    PROVE  /\ HostOK' /\ ReturnOK' /\ UnflushedIsScheduled'
           /\ ended' = ended /\ workerMeta' = workerMeta
<1>1. UNCHANGED <<hostVars, fullVars>> /\ toWorker' = toWorker
    BY DEF outsideWriter
<1>2. toWorker' \in Seq(ToWorkerFrames)
    BY <1>1 DEF ReturnOK
<1>3. HostOK' /\ ReturnOK' /\ UnflushedIsScheduled'
    BY <1>1, <1>2, HostUnchanged
<1>4. QED
    BY <1>3 DEF outsideWriter

LEMMA BatchSizes ==
    ASSUME NEW sizes \in Batches
    PROVE  sizes \in Seq(Sizes) /\ sizes # <<>>
BY WorkerLaneAssumption

LEMMA OneSize ==
    ASSUME NEW n \in Sizes
    PROVE  <<n>> \in Seq(Sizes) /\ <<n>> # <<>> /\ Len(<<n>>) = 1
OBVIOUS

\* What write() and writeMany() block with.
LEMMA WriteBlocks ==
    ASSUME WriterOK, NEW op, NEW c \in Callers, NEW sizes \in Seq(Sizes), sizes # <<>>,
           Write(op, c, sizes)
    PROVE  \E n \in Nat, todo \in Seq(Chunks) :
              /\ Block(c, n, todo)
              /\ todo # <<>> /\ n = Head(todo).bytes /\ Len(todo) = Len(sizes)
<1> DEFINE chunks == [i \in DOMAIN sizes |-> Chunk(nextId + i - 1, sizes[i])]
<1>1. Sizes \in SUBSET Nat /\ nextId \in Nat
    BY WorkerLaneAssumption DEF WriterOK
<1>2. /\ chunks \in Seq(Chunks) /\ chunks # <<>> /\ Len(chunks) = Len(sizes)
      /\ Head(chunks).bytes = sizes[1] /\ sizes[1] \in Nat
    BY <1>1, ChunkSequence
<1>3. Block(c, sizes[1], chunks)
    BY DEF Write
<1> HIDE DEF chunks
<1>4. QED
    BY <1>2, <1>3

LEMMA CallInv ==
    ASSUME WorkerLaneInv, NEW c \in Callers, NEW n \in Nat, NEW todo \in Seq(Chunks),
           Block(c, n, todo), nextId' \in Nat,
           UNCHANGED outsideWriter, UNCHANGED <<credits, batch, toHost, accepted>>
    PROVE  WorkerLaneInv'
<1>1. /\ CreditTypeOK /\ WriterOK /\ HostOK /\ ReturnOK
      /\ WaitersLackCredit /\ UnflushedIsScheduled
    BY Parts
<1>2. HostOK' /\ ReturnOK' /\ UnflushedIsScheduled' /\ ended' = ended /\ workerMeta' = workerMeta
    BY <1>1, OutsideKept
<1>3. CreditTypeOK' /\ WaitersLackCredit'
    BY <1>1, BlockType
<1>4. WriterOK'
    BY <1>1, <1>2 DEF WriterOK
<1>5. QED
    BY <1>2, <1>3, <1>4, PartsNext

LEMMA WriteInv ==
    ASSUME WorkerLaneInv, NEW op, NEW c \in Callers, NEW sizes \in Seq(Sizes), sizes # <<>>,
           Write(op, c, sizes)
    PROVE  WorkerLaneInv'
<1>1. WriterOK
    BY Parts
<1>2. nextId' \in Nat
  <2>1. Len(sizes) \in Nat
      OBVIOUS
  <2>2. QED
      BY <1>1, <2>1 DEF Write, WriterOK
<1>3. UNCHANGED outsideWriter /\ UNCHANGED <<credits, batch, toHost, accepted>>
    BY DEF Write
<1>4. PICK n \in Nat, todo \in Seq(Chunks) : Block(c, n, todo)
    BY <1>1, WriteBlocks
<1>5. QED
    BY <1>2, <1>3, <1>4, CallInv

LEMMA ReadyInv ==
    ASSUME WorkerLaneInv, NEW c \in Callers, NEW n \in Sizes, Ready(c, n)
    PROVE  WorkerLaneInv'
<1> DEFINE none == <<>>
<1>1. n \in Nat /\ none \in Seq(Chunks)
    BY WorkerLaneAssumption
<1>2. nextId' \in Nat
    BY Parts DEF Ready, historyVars, WriterOK
<1>3. /\ Block(c, n, none)
      /\ UNCHANGED outsideWriter /\ UNCHANGED <<credits, batch, toHost, accepted>>
    BY DEF Ready, historyVars
<1> HIDE DEF none
<1>4. QED
    BY <1>1, <1>2, <1>3, CallInv

\* A chunk joins the batch and waits for the ones behind it.
Gather(c, b) == /\ batch' = [batch EXCEPT ![c] = b]
                /\ UNCHANGED <<credits, toHost, accepted>>

\* A continuation posts or gathers b, then settles or waits for the next chunk.
Continues(c, todo, b) ==
    \/ /\ todo = <<>>
       /\ Settle(c)
       /\ UNCHANGED <<credits, batch, toHost, accepted>>
    \/ /\ todo # <<>>
       /\ PostBatch(c, b) \/ (Gather(c, b) /\ Len(b) < BatchLen /\ Len(todo) > 1)
       /\ \/ Len(todo) = 1 /\ Settle(c)
          \/ /\ Len(todo) > 1
             /\ call' = [call EXCEPT ![c] = [need |-> todo[2].bytes, todo |-> Tail(todo)]]
             /\ WaitForCredit(c, todo[2].bytes, credits', Tail(jobs))

\* The same by cases, once the type of what is left is known.
LEMMA Continuing ==
    ASSUME CreditTypeOK, WriterOK, Resume
    PROVE  LET c == Head(jobs).caller
               todo == call[c].todo
               b == Append(batch[c], Head(todo))
           IN  /\ jobs # <<>> /\ c \in Callers /\ todo \in Seq(Chunks)
               /\ Tail(jobs) \in Seq(Job)
               /\ todo # <<>> => b \in Seq(Chunks) /\ Head(todo) \in Chunks
               /\ Continues(c, todo, b)
               /\ UNCHANGED outsideWriter /\ nextId' = nextId
<1> DEFINE c == Head(jobs).caller
           todo == call[c].todo
           b == Append(batch[c], Head(todo))
<1>1. jobs # <<>> /\ UNCHANGED outsideWriter /\ nextId' = nextId
  <2>1. jobs # <<>> /\ UNCHANGED <<outsideWriter, nextId>>
      BY Zenon DEF Resume
  <2>2. QED
      BY <2>1
<1>2. c \in Callers /\ todo \in Seq(Chunks) /\ Tail(jobs) \in Seq(Job)
    BY <1>1, HeadJob
<1>3. \/ /\ todo = <<>>
         /\ Settle(c)
         /\ UNCHANGED <<credits, batch, toHost, accepted>>
      \/ /\ Len(todo) = 1
         /\ PostBatch(c, b)
         /\ Settle(c)
      \/ /\ Len(todo) > 1
         /\ PostBatch(c, b) \/ (Gather(c, b) /\ Len(b) < BatchLen)
         /\ call' = [call EXCEPT ![c] = [need |-> todo[2].bytes, todo |-> Tail(todo)]]
         /\ WaitForCredit(c, todo[2].bytes, credits', Tail(jobs))
    BY DEF Resume, Gather
<1> HIDE DEF c, todo
<1>4. batch[c] \in Seq(Chunks)
    BY <1>2 DEF WriterOK
<1>5. todo # <<>> => Head(todo) \in Chunks
    BY <1>2
<1>6. todo # <<>> => b \in Seq(Chunks)
    BY <1>4, <1>5
<1> HIDE DEF b
<1>7. Continues(c, todo, b)
  <2>1. todo = <<>> => Len(todo) = 0
      OBVIOUS
  <2>2. Len(todo) = 1 \/ Len(todo) > 1 => todo # <<>>
      BY <2>1
  <2>3. QED
      BY <1>3, <2>2 DEF Continues
<1>8. QED
    BY <1>1, <1>2, <1>5, <1>6, <1>7 DEF c, todo, b

LEMMA PostBatchType ==
    ASSUME CreditTypeOK, WriterOK, NEW c \in Callers, NEW b \in Seq(Chunks),
           PostBatch(c, b) \/ Gather(c, b)
    PROVE  /\ toHost' \in Seq(ToHostFrames)
           /\ batch' \in [Callers -> Seq(Chunks)]
           /\ accepted' \in Seq(Nat)
           /\ credits' \in Nat /\ credits' <= credits
<1>1. batch' \in [Callers -> Seq(Chunks)]
  <2> DEFINE none == <<>>
  <2>1. none \in Seq(Chunks)
      OBVIOUS
  <2>2. batch' = [batch EXCEPT ![c] = none] \/ batch' = [batch EXCEPT ![c] = b]
      BY DEF PostBatch, Gather
  <2> HIDE DEF none
  <2>3. QED
      BY <2>1, <2>2 DEF WriterOK
<1>2. CASE PostBatch(c, b)
  <2>1. toHost' = toHost \o b /\ toHost \in Seq(ToHostFrames) /\ accepted \in Seq(Nat)
      BY <1>2 DEF PostBatch, WriterOK
  <2>2. b \in Seq(ToHostFrames)
      BY FrameKinds
  <2>3. toHost' \in Seq(ToHostFrames)
      BY <2>1, <2>2
  <2> DEFINE ids == [i \in DOMAIN b |-> b[i].id]
  <2>4. ids \in Seq(Nat)
    <3>1. \A i \in 1 .. Len(b) : b[i].id \in Nat
      <4>1. SUFFICES ASSUME NEW i \in 1 .. Len(b) PROVE b[i].id \in Nat
          OBVIOUS
      <4>2. b[i] \in Chunks
          OBVIOUS
      <4>3. QED
          BY <4>2, FrameKinds
    <3>2. DOMAIN b = 1 .. Len(b) /\ Len(b) \in Nat
        OBVIOUS
    <3>3. QED
        BY <3>1, <3>2
  <2>5. accepted' = accepted \o ids
      BY <1>2 DEF PostBatch
  <2> HIDE DEF ids
  <2>6. accepted' \in Seq(Nat)
      BY <2>1, <2>4, <2>5
  <2>7. credits' \in Nat /\ credits' <= credits
    <3>1. Bytes(b) \in Nat
        BY FrameKinds, BytesNat
    <3>2. QED
        BY <1>2, <3>1, RemainingType DEF PostBatch
  <2>8. QED
      BY <1>1, <2>3, <2>6, <2>7
<1>3. CASE Gather(c, b)
    BY <1>1, <1>3 DEF Gather, WriterOK, CreditTypeOK
<1>4. QED
    BY <1>2, <1>3

LEMMA ResumeInv ==
    ASSUME WorkerLaneInv, Resume
    PROVE  WorkerLaneInv'
<1> DEFINE c == Head(jobs).caller
           todo == call[c].todo
           b == Append(batch[c], Head(todo))
<1>1. /\ CreditTypeOK /\ WriterOK /\ HostOK /\ ReturnOK
      /\ WaitersLackCredit /\ UnflushedIsScheduled
    BY Parts
<1>2. /\ jobs # <<>> /\ c \in Callers /\ todo \in Seq(Chunks)
      /\ Tail(jobs) \in Seq(Job)
      /\ todo # <<>> => b \in Seq(Chunks) /\ Head(todo) \in Chunks
      /\ Continues(c, todo, b)
      /\ UNCHANGED outsideWriter /\ nextId' = nextId
    BY <1>1, Continuing
<1> HIDE DEF c, todo, b
<1>3. HostOK' /\ ReturnOK' /\ UnflushedIsScheduled' /\ ended' = ended /\ workerMeta' = workerMeta
    BY <1>1, <1>2, OutsideKept
<1>4. /\ toHost' \in Seq(ToHostFrames)
      /\ batch' \in [Callers -> Seq(Chunks)]
      /\ accepted' \in Seq(Nat)
      /\ credits' \in Nat /\ credits' <= credits
  <2>1. CASE UNCHANGED <<credits, batch, toHost, accepted>>
      BY <1>1, <2>1 DEF WriterOK, CreditTypeOK
  <2>2. CASE todo # <<>> /\ (PostBatch(c, b) \/ Gather(c, b))
      BY <1>1, <1>2, <2>2, PostBatchType
  <2>3. QED
      BY <1>2, <2>1, <2>2 DEF Continues
<1>5. WriterOK'
    BY <1>1, <1>2, <1>3, <1>4 DEF WriterOK
<1>6. CreditTypeOK' /\ WaitersLackCredit'
  <2>1. CASE Settle(c)
      BY <1>1, <1>2, <1>4, <2>1, SettleType
  <2>2. CASE /\ Len(todo) > 1
             /\ call' = [call EXCEPT ![c] = [need |-> todo[2].bytes, todo |-> Tail(todo)]]
             /\ WaitForCredit(c, todo[2].bytes, credits', Tail(jobs))
    <3> DEFINE n == todo[2].bytes
               q == Tail(jobs)
               rest == Tail(todo)
    <3>1. n \in Nat
      <4>1. todo[2] \in Chunks
          BY <1>2, <2>2
      <4>2. QED
          BY <4>1, FrameKinds
    <3>2. rest \in Seq(Chunks) /\ q \in Seq(Job)
      <4>1. todo # <<>>
          BY <1>2, <2>2
      <4>2. QED
          BY <1>2, <4>1
    <3>3. /\ WaitForCredit(c, n, credits', q)
          /\ call' = [call EXCEPT ![c] = [need |-> n, todo |-> rest]]
        BY <2>2
    <3> HIDE DEF n, q, rest
    <3>4. /\ waiters' \in Seq(Waiter)
          /\ jobs' \in Seq(Job)
          /\ WaitersLackCredit'
        BY <1>1, <1>2, <1>4, <3>1, <3>2, <3>3, WaitForCreditType
    <3>5. call' \in [Callers -> [need : Nat, todo : Seq(Chunks)]]
        BY <1>1, <3>1, <3>2, <3>3 DEF CreditTypeOK
    <3>6. QED
        BY <1>4, <3>4, <3>5 DEF CreditTypeOK, Waiter, Job
  <2>3. QED
      BY <1>2, <2>1, <2>2 DEF Continues
<1>7. QED
    BY <1>3, <1>5, <1>6, PartsNext

\* close(), error() and cancel() post frames without bytes.
LEMMA EndPosts ==
    ASSUME NEW G, PlainToHost \subseteq G, \A x \in G : x.bytes \in Nat, toHost \in Seq(G),
           NEW kind \in {"close", "error", "cancel"}, End(kind)
    PROVE  toHost' \in Seq(G) /\ Bytes(toHost') = Bytes(toHost)
<1> DEFINE k == <<Control(kind)>>
           none == <<>>
           one == <<Control("discard")>>
           d == IF workerMeta.local THEN none ELSE one
           h == toHost \o k
<1>1. /\ Control(kind) \in G /\ Control(kind).bytes = 0
      /\ Control("discard") \in G /\ Control("discard").bytes = 0
    BY FrameKinds
<1>2. k \in Seq(G) /\ none \in Seq(G) /\ one \in Seq(G)
    BY <1>1
<1>3. Bytes(k) = 0 /\ Bytes(none) = 0 /\ Bytes(one) = 0
    BY <1>1, BytesOne, BytesEmpty
<1>4. toHost' = h \o d
    BY DEF End
<1> HIDE DEF k, none, one
<1>5. d \in Seq(G) /\ Bytes(d) = 0
    BY <1>2, <1>3
<1> HIDE DEF d
<1>6. h \in Seq(G) /\ Bytes(h) = Bytes(toHost) + 0
    BY <1>2, <1>3, BytesConcat
<1> HIDE DEF h
<1>7. h \o d \in Seq(G) /\ Bytes(h \o d) = Bytes(h) + 0
    BY <1>5, <1>6, BytesConcat
<1>8. Bytes(toHost) \in Nat
    BY BytesNat
<1>9. QED
    BY <1>4, <1>6, <1>7, <1>8

LEMMA EndInv ==
    ASSUME WorkerLaneInv, NEW kind \in {"close", "error", "cancel"}, End(kind)
    PROVE  WorkerLaneInv'
<1>1. /\ CreditTypeOK /\ WriterOK /\ HostOK /\ ReturnOK
      /\ WaitersLackCredit /\ UnflushedIsScheduled
    BY Parts
<1>2. toHost' \in Seq(ToHostFrames)
    BY <1>1, FrameKinds, EndPosts DEF WriterOK
<1>3. /\ RejectWriterWaiters /\ UNCHANGED jobs
      /\ UNCHANGED <<hostVars, fullVars>> /\ toWorker' = toWorker
      /\ ended' = kind /\ workerMeta' = Gone
      /\ batch' = [c \in Callers |-> IF call'[c] = NoCall THEN <<>> ELSE batch[c]]
      /\ nextId' = nextId /\ accepted' = accepted
    BY DEF End, historyVars
<1>4. CreditTypeOK' /\ WaitersLackCredit'
    BY <1>1, <1>3, RejectType
<1>5. HostOK' /\ ReturnOK' /\ UnflushedIsScheduled'
  <2>1. toWorker' \in Seq(ToWorkerFrames)
      BY <1>1, <1>3 DEF ReturnOK
  <2>2. QED
      BY <1>1, <1>3, <2>1, HostUnchanged
<1>6. batch' \in [Callers -> Seq(Chunks)]
  <2> DEFINE none == <<>>
             kept(c) == IF call'[c] = NoCall THEN none ELSE batch[c]
  <2>1. none \in Seq(Chunks)
      OBVIOUS
  <2> HIDE DEF none
  <2>2. \A c \in Callers : kept(c) \in Seq(Chunks)
      BY <1>1, <2>1 DEF WriterOK
  <2>3. batch' = [c \in Callers |-> kept(c)]
      BY <1>3 DEF none
  <2> HIDE DEF kept
  <2>4. QED
      BY <2>2, <2>3
<1>7. WriterOK'
    BY <1>1, <1>2, <1>3, <1>6, MetaTypes DEF WriterOK, EndedKinds
<1>8. QED
    BY <1>4, <1>5, <1>7, PartsNext

LEMMA WorkerReceiveInv ==
    ASSUME WorkerLaneInv, WorkerReceive
    PROVE  WorkerLaneInv'
<1> DEFINE f == Head(toWorker)
<1>1. /\ CreditTypeOK /\ WriterOK /\ HostOK /\ ReturnOK
      /\ WaitersLackCredit /\ UnflushedIsScheduled
    BY Parts
<1>2. f \in ToWorkerFrames /\ Tail(toWorker) \in Seq(ToWorkerFrames)
    BY <1>1 DEF WorkerReceive, ReturnOK
<1>3. HostOK' /\ ReturnOK' /\ UnflushedIsScheduled'
    BY <1>1, <1>2, HostUnchanged DEF WorkerReceive
<1>4. \/ /\ AddWriterCredit(f.bytes)
         /\ UNCHANGED workerMeta
      \/ /\ workerMeta' = MarkRemote(workerMeta)
         /\ UNCHANGED <<credits, waiters, jobs>>
      \/ UNCHANGED <<workerMeta, credits, waiters, jobs>>
    BY DEF WorkerReceive
<1>5. f.bytes \in Nat /\ call' = call /\ UNCHANGED <<historyVars, toHost, ended, batch>>
    BY <1>2, FrameKinds DEF WorkerReceive
<1> HIDE DEF f
<1>6. CreditTypeOK' /\ WaitersLackCredit'
  <2>1. CASE AddWriterCredit(f.bytes)
      BY <1>1, <1>5, <2>1, AddWriterCreditType
  <2>2. CASE UNCHANGED <<credits, waiters, jobs>>
      BY <1>1, <1>5, <2>2, CreditUnchangedType DEF creditVars
  <2>3. QED
      BY <1>4, <2>1, <2>2
<1>7. workerMeta' \in Metas
    BY <1>1, <1>4, MetaTypes DEF WriterOK
<1>8. WriterOK'
    BY <1>1, <1>5, <1>7 DEF WriterOK, historyVars
<1>9. QED
    BY <1>3, <1>6, <1>8, PartsNext

-----------------------------------------------------------------------------
(***************************************************************************)
(* The credit on its way back: withheld, in the channel, or swallowed by   *)
(* a full one.                                                             *)
(***************************************************************************)
Owed == unflushed + lost + Bytes(toWorker)

ReturnPlain == toWorker \in Seq(PlainToWorker)

LEMMA OwedNat ==
    ASSUME ReturnOK
    PROVE  unflushed \in Nat /\ lost \in Nat /\ Bytes(toWorker) \in Nat /\ Owed \in Nat
<1>1. Bytes(toWorker) \in Nat
    BY FrameKinds, BytesNat DEF ReturnOK
<1>2. unflushed \in Nat /\ lost \in Nat
    BY DEF ReturnOK
<1>3. QED
    BY <1>1, <1>2 DEF Owed

\* Credit that is flushed is in the channel or lost.
LEMMA FlushFacts ==
    ASSUME ReturnOK, NEW n \in Nat, FlushCreditFrames(n), flushScheduled' \in BOOLEAN
    PROVE  /\ ReturnOK' /\ UnflushedIsScheduled'
           /\ ReturnPlain => ReturnPlain'
           /\ Owed' = n + lost + Bytes(toWorker)
<1> DEFINE w == Append(toWorker, Credit(n))
           t == Bytes(toWorker)
<1>1. t \in Nat /\ lost \in Nat /\ fulls \in Nat /\ toWorker \in Seq(ToWorkerFrames)
    BY OwedNat DEF ReturnOK
<1>2. Credit(n) \in PlainToWorker /\ Credit(n) \in ToWorkerFrames /\ Credit(n).bytes = n
    BY FrameKinds
<1>3. w \in Seq(ToWorkerFrames) /\ Bytes(w) = t + n
    BY <1>1, <1>2, FrameKinds, BytesAppend
<1>4. ReturnPlain => w \in Seq(PlainToWorker)
    BY <1>2 DEF ReturnPlain
<1>5. /\ unflushed' = 0
      /\ \/ n > 0 /\ toWorker' = w /\ lost' = lost /\ fulls' = fulls
         \/ n = 0 /\ toWorker' = toWorker /\ lost' = lost /\ fulls' = fulls
         \/ toWorker' = toWorker /\ lost' = lost + n /\ fulls' = fulls + 1
    BY DEF FlushCreditFrames, fullVars
<1> HIDE DEF w
<1>6. toWorker' \in Seq(ToWorkerFrames) /\ lost' \in Nat /\ fulls' \in Nat
    BY <1>1, <1>3, <1>5
<1>7. ReturnOK' /\ UnflushedIsScheduled'
    BY <1>5, <1>6 DEF ReturnOK, UnflushedIsScheduled
<1>8. ReturnPlain => ReturnPlain'
    BY <1>4, <1>5 DEF ReturnPlain
<1>9. Owed' = n + lost + t
  <2>1. Owed' = unflushed' + lost' + Bytes(toWorker')
      BY DEF Owed
  <2>2. CASE toWorker' = w /\ lost' = lost
    <3>1. Bytes(toWorker') = t + n
        BY <1>3, <2>2
    <3> HIDE DEF t
    <3>2. QED
        BY <1>1, <1>5, <2>1, <2>2, <3>1
  <2>3. CASE toWorker' = toWorker /\ ((n = 0 /\ lost' = lost) \/ lost' = lost + n)
    <3>1. Bytes(toWorker') = t
        BY <2>3
    <3> HIDE DEF t
    <3>2. QED
        BY <1>1, <1>5, <2>1, <2>3, <3>1
  <2>4. QED
      BY <1>5, <2>2, <2>3
<1>10. QED
    BY <1>7, <1>8, <1>9

\* Credit that is queued stays in the books, and is scheduled if withheld.
LEMMA QueueFacts ==
    ASSUME ReturnOK, UnflushedIsScheduled, NEW n \in Nat, QueueCreditFrame(n)
    PROVE  /\ ReturnOK' /\ UnflushedIsScheduled'
           /\ ReturnPlain => ReturnPlain'
           /\ Owed' = Owed + n
<1> DEFINE next == unflushed + n
           t == Bytes(toWorker)
<1>1. /\ unflushed \in Nat /\ lost \in Nat /\ t \in Nat /\ next \in Nat
      /\ flushScheduled \in BOOLEAN
    BY OwedNat DEF ReturnOK
<1>2. CASE n = 0 /\ UNCHANGED <<unflushed, flushScheduled, toWorker, fullVars>>
  <2>1. UNCHANGED <<unflushed, flushScheduled, toWorker, lost, fulls>>
      BY <1>2 DEF fullVars
  <2>2. ReturnOK' /\ UnflushedIsScheduled' /\ (ReturnPlain => ReturnPlain')
      BY <2>1 DEF ReturnOK, UnflushedIsScheduled, ReturnPlain
  <2>3. Owed' = Owed + 0
      BY <2>1, OwedNat DEF Owed
  <2>4. QED
      BY <1>2, <2>2, <2>3
<1>3. CASE FlushCreditFrames(next) /\ UNCHANGED flushScheduled
  <2>1. flushScheduled' \in BOOLEAN
      BY <1>1, <1>3
  <2> HIDE DEF next
  <2>2. /\ ReturnOK' /\ UnflushedIsScheduled' /\ (ReturnPlain => ReturnPlain')
        /\ Owed' = next + lost + t
      BY <1>1, <1>3, <2>1, FlushFacts
  <2>3. Owed = unflushed + lost + t
      BY DEF Owed
  <2> HIDE DEF t
  <2>4. Owed' = Owed + n
      BY <1>1, <2>2, <2>3 DEF next
  <2>5. QED
      BY <2>2, <2>4
<1>4. CASE /\ unflushed' = next
           /\ flushScheduled' = TRUE
           /\ UNCHANGED <<toWorker, fullVars>>
  <2>1. UNCHANGED <<toWorker, lost, fulls>>
      BY <1>4 DEF fullVars
  <2>2. flushScheduled' \in BOOLEAN
      BY <1>4, Zenon
  <2>3. ReturnOK' /\ UnflushedIsScheduled' /\ (ReturnPlain => ReturnPlain')
      BY <1>1, <1>4, <2>1, <2>2 DEF ReturnOK, UnflushedIsScheduled, ReturnPlain
  <2>4. Owed = unflushed + lost + t /\ Owed' = next + lost + t
      BY <1>4, <2>1 DEF Owed
  <2> HIDE DEF t
  <2>5. Owed' = Owed + n
      BY <1>1, <2>4
  <2>6. QED
      BY <2>3, <2>5
<1>5. QED
    BY <1>2, <1>3, <1>4 DEF QueueCreditFrame

\* Whichever of the signals a full channel refuses, none carries credit.
LEMMA SignalFacts ==
    ASSUME ReturnOK, NEW frames \in Seq(Signals), PostIgnoringFull(frames)
    PROVE  /\ fulls' \in Nat
           /\ toWorker' \in Seq(ToWorkerFrames)
           /\ ReturnPlain => ReturnPlain'
           /\ Bytes(toWorker') = Bytes(toWorker)
<1>1. PICK gone \in SUBSET DOMAIN frames :
         /\ fulls' = fulls + Cardinality(gone)
         /\ toWorker' = toWorker \o At(frames, DOMAIN frames \ gone)
    BY DEF PostIgnoringFull
<1> DEFINE s == At(frames, DOMAIN frames \ gone)
           t == Bytes(toWorker)
<1>2. s \in Seq(Signals)
  <2>1. \A i \in (DOMAIN frames \ gone) \cap (1 .. Len(frames)) : frames[i] \in Signals
      OBVIOUS
  <2>2. QED
      BY <2>1, AtElements
<1>3. Cardinality(gone) \in Nat
  <2>1. DOMAIN frames = 1 .. Len(frames) /\ Len(frames) \in Nat
      OBVIOUS
  <2>2. IsFiniteSet(1 .. Len(frames))
    <3>1. 1 \in Int /\ Len(frames) \in Int
        BY <2>1
    <3>2. QED
        BY <3>1, FS_Interval, Zenon
  <2>3. IsFiniteSet(gone)
      BY <2>1, <2>2, FS_Subset
  <2>4. QED
      BY <2>3, FS_CardinalityType
<1> HIDE DEF s
<1>4. /\ s \in Seq(ToWorkerFrames) /\ s \in Seq(PlainToWorker)
      /\ toWorker \in Seq(ToWorkerFrames) /\ toWorker' = toWorker \o s
    BY <1>1, <1>2, FrameKinds DEF ReturnOK, s
<1>5. Bytes(s) = 0
    BY <1>2, FrameKinds, BytesZero
<1>6. Bytes(toWorker') = t + 0
    BY <1>4, <1>5, FrameKinds, BytesConcat
<1>7. ReturnPlain => ReturnPlain'
    BY <1>4 DEF ReturnPlain
<1>8. toWorker' \in Seq(ToWorkerFrames)
    BY <1>4
<1>9. fulls' \in Nat
    BY <1>1, <1>3 DEF ReturnOK
<1>10. t \in Nat
    BY OwedNat
<1> HIDE DEF t
<1>11. Bytes(toWorker') = t
    BY <1>6, <1>10
<1>12. QED
    BY <1>7, <1>8, <1>9, <1>11 DEF t

\* Giving up costs no credit but what was withheld.
LEMMA DiscardFacts ==
    ASSUME ReturnOK, UnflushedIsScheduled, hostMeta \in Metas,
           NEW frames \in Seq(Signals), NEW gaveUp, DiscardLocally(frames, gaveUp),
           flushScheduled' = flushScheduled
    PROVE  /\ ReturnOK' /\ UnflushedIsScheduled' /\ hostMeta' \in Metas
           /\ ReturnPlain => ReturnPlain'
           /\ Owed' \in Nat /\ Owed' <= Owed
<1> DEFINE one == <<Control("discard")>>
           all == frames \o one
           t == Bytes(toWorker)
<1>1. one \in Seq(Signals)
    BY FrameKinds
<1> HIDE DEF one
<1>2. all \in Seq(Signals)
    BY <1>1
<1>3. \/ /\ PostIgnoringFull(all)
         /\ hostMeta' = MarkLocal(hostMeta)
         /\ unflushed' = IF hostMeta.remote THEN 0 ELSE unflushed
      \/ PostIgnoringFull(frames) /\ UNCHANGED <<hostMeta, unflushed>>
    BY DEF DiscardLocally, one
<1> HIDE DEF all
<1>4. /\ fulls' \in Nat
      /\ toWorker' \in Seq(ToWorkerFrames)
      /\ ReturnPlain => ReturnPlain'
      /\ Bytes(toWorker') = t
    BY <1>2, <1>3, SignalFacts
<1>5. hostMeta' \in Metas
    BY <1>3, MetaTypes
<1>6. lost' = lost /\ (unflushed' = 0 \/ unflushed' = unflushed)
    BY <1>3 DEF DiscardLocally
<1>7. unflushed \in Nat /\ lost \in Nat /\ t \in Nat /\ flushScheduled \in BOOLEAN
    BY OwedNat DEF ReturnOK
<1>8. ReturnOK' /\ UnflushedIsScheduled'
  <2>1. flushScheduled' \in BOOLEAN
      BY <1>7
  <2>2. unflushed' \in Nat /\ (unflushed' > 0 => unflushed > 0)
      BY <1>6, <1>7
  <2>3. QED
      BY <1>4, <1>6, <1>7, <2>1, <2>2 DEF ReturnOK, UnflushedIsScheduled
<1>9. Owed = unflushed + lost + t /\ Owed' = unflushed' + lost + t
    BY <1>4, <1>6 DEF Owed
<1> HIDE DEF t
<1>10. Owed' \in Nat /\ Owed' <= Owed
    BY <1>6, <1>7, <1>9
<1>11. QED
    BY <1>4, <1>5, <1>8, <1>10

-----------------------------------------------------------------------------
(***************************************************************************)
(* The host.                                                               *)
(***************************************************************************)
LEMMA CreditFlushTickInv ==
    ASSUME WorkerLaneInv, CreditFlushTick
    PROVE  WorkerLaneInv'
<1>1. /\ CreditTypeOK /\ WriterOK /\ HostOK /\ ReturnOK
      /\ WaitersLackCredit /\ UnflushedIsScheduled
    BY Parts
<1>2. ReturnOK' /\ UnflushedIsScheduled'
  <2>1. flushScheduled' = FALSE /\ FlushCreditFrames(unflushed)
      BY Zenon DEF CreditFlushTick
  <2>2. flushScheduled' \in BOOLEAN /\ unflushed \in Nat
    <3>1. flushScheduled' \in BOOLEAN
        BY <2>1, Zenon
    <3>2. QED
        BY <1>1, <3>1 DEF ReturnOK
  <2>3. QED
      BY <1>1, <2>1, <2>2, FlushFacts
<1>3. HostOK'
    BY <1>1 DEF CreditFlushTick, HostOK, readerVars, ReaderTypeOK
<1>4. CreditTypeOK' /\ WriterOK' /\ WaitersLackCredit'
  <2>1. UNCHANGED <<writerVars, historyVars>> /\ toHost' \in Seq(ToHostFrames)
      BY <1>1 DEF CreditFlushTick, WriterOK
  <2>2. QED
      BY <1>1, <2>1, WriterUnchanged
<1>5. QED
    BY <1>2, <1>3, <1>4, PartsNext

\* What handling a frame of the worker comes to, f being the frame.
LEMMA ReceiveChunkParts ==
    ASSUME NEW f, ReceiveChunk(f)
    PROVE  /\ f.t = "chunk" /\ hostMeta' = hostMeta
           /\ \/ /\ Released(hostMeta)
                 /\ UNCHANGED <<readerVars, unflushed, flushScheduled, toWorker, fullVars>>
              \/ PushChunk(f) /\ QueueCreditFrame(PushGrant(f))
BY DEF ReceiveChunk

EndKind(f) == IF f.t = "close" THEN "close" ELSE "error"

LEMMA ReceiveEndParts ==
    ASSUME NEW f, ReceiveEnd(f)
    PROVE  /\ f.t # "chunk" /\ flushScheduled' = flushScheduled
           /\ EndKind(f) \in {"close", "error"}
           /\ \/ UNCHANGED <<readerVars, hostMeta, unflushed, toWorker, fullVars>>
              \/ PushEnd(EndKind(f)) /\ DiscardLocally(<<>>, Discards)
BY DEF ReceiveEnd, EndKind

LEMMA ReceiveDiscardParts ==
    ASSUME NEW f, ReceiveDiscard(f)
    PROVE  /\ f.t # "chunk" /\ hostMeta' = MarkRemote(hostMeta)
           /\ unflushed' = unflushed \/ (hostMeta.local /\ unflushed' = 0)
           /\ UNCHANGED <<readerVars, flushScheduled, toWorker, fullVars>>
BY DEF ReceiveDiscard

LEMMA ReturnUnchanged ==
    ASSUME ReturnOK, UnflushedIsScheduled,
           UNCHANGED <<flushScheduled, toWorker, fullVars>>,
           unflushed' = unflushed \/ unflushed' = 0
    PROVE  /\ ReturnOK' /\ UnflushedIsScheduled'
           /\ ReturnPlain => ReturnPlain'
           /\ Owed' \in Nat /\ Owed' <= Owed
           /\ unflushed' = unflushed => Owed' = Owed
<1>1. flushScheduled' \in BOOLEAN /\ lost' = lost /\ fulls' = fulls /\ toWorker' = toWorker
    BY DEF ReturnOK, fullVars
<1>2. unflushed' \in Nat /\ unflushed' <= unflushed
    BY DEF ReturnOK
<1>3. ReturnOK' /\ (ReturnPlain => ReturnPlain')
    BY <1>1, <1>2 DEF ReturnOK, ReturnPlain
<1>4. UnflushedIsScheduled'
    BY DEF UnflushedIsScheduled
<1> DEFINE t == Bytes(toWorker)
           u1 == unflushed'
<1>5. t \in Nat /\ lost \in Nat /\ unflushed \in Nat /\ u1 \in Nat /\ u1 <= unflushed
    BY <1>2, OwedNat
<1>6. Owed = unflushed + lost + t /\ Owed' = u1 + lost + t
    BY <1>1 DEF Owed
<1> HIDE DEF t, u1
<1>7. Owed' \in Nat /\ Owed' <= Owed /\ (u1 = unflushed => Owed' = Owed)
    BY <1>5, <1>6
<1>8. QED
    BY <1>3, <1>4, <1>7 DEF u1

LEMMA HostReceiveInv ==
    ASSUME WorkerLaneInv, HostReceive
    PROVE  WorkerLaneInv'
<1> DEFINE f == Head(toHost)
<1>1. /\ CreditTypeOK /\ WriterOK /\ HostOK /\ ReturnOK
      /\ WaitersLackCredit /\ UnflushedIsScheduled
    BY Parts
<1>2. f \in ToHostFrames /\ Tail(toHost) \in Seq(ToHostFrames)
    BY <1>1 DEF HostReceive, WriterOK
<1>3. CreditTypeOK' /\ WriterOK' /\ WaitersLackCredit'
    BY <1>1, <1>2, WriterUnchanged DEF HostReceive
<1>4. ReaderTypeOK /\ hostMeta \in Metas
    BY <1>1 DEF HostOK
<1>5. ReceiveChunk(f) \/ ReceiveEnd(f) \/ ReceiveDiscard(f)
    BY DEF HostReceive
<1> HIDE DEF f
<1>6. CASE ReceiveChunk(f)
  <2>1. f \in Chunks /\ hostMeta' = hostMeta
      BY <1>2, <1>6, ReceiveChunkParts DEF ToHostFrames, Chunks
  <2>2. CASE UNCHANGED <<readerVars, unflushed, flushScheduled, toWorker, fullVars>>
    <3>1. HostOK'
        BY <1>4, <2>1, <2>2 DEF HostOK, readerVars, ReaderTypeOK
    <3>2. QED
        BY <1>1, <1>3, <2>2, <3>1, ReturnUnchanged, PartsNext
  <2>3. CASE PushChunk(f) /\ QueueCreditFrame(PushGrant(f))
    <3>1. ReaderTypeOK' /\ PushGrant(f) \in Nat
        BY <1>4, <2>1, <2>3, PushChunkType
    <3>2. ReturnOK' /\ UnflushedIsScheduled'
        BY <1>1, <2>3, <3>1, QueueFacts
    <3>3. QED
        BY <1>3, <1>4, <2>1, <3>1, <3>2, PartsNext DEF HostOK
  <2>4. QED
      BY <1>6, <2>2, <2>3, ReceiveChunkParts
<1>7. CASE ReceiveEnd(f)
  <2>1. /\ EndKind(f) \in {"close", "error"} /\ flushScheduled' = flushScheduled
      BY <1>7, ReceiveEndParts
  <2>2. CASE UNCHANGED <<readerVars, hostMeta, unflushed, toWorker, fullVars>>
    <3>1. HostOK'
        BY <1>4, <2>2 DEF HostOK, readerVars, ReaderTypeOK
    <3>2. QED
        BY <1>1, <1>3, <2>1, <2>2, <3>1, ReturnUnchanged, PartsNext
  <2>3. CASE PushEnd(EndKind(f)) /\ DiscardLocally(<<>>, Discards)
    <3> DEFINE none == <<>>
    <3>1. none \in Seq(Signals) /\ DiscardLocally(none, Discards)
        BY <2>3
    <3> HIDE DEF none
    <3>2. ReturnOK' /\ UnflushedIsScheduled' /\ hostMeta' \in Metas
        BY <1>1, <1>4, <2>1, <3>1, DiscardFacts
    <3>3. ReaderTypeOK'
        BY <1>4, <2>1, <2>3, PushEndType
    <3>4. QED
        BY <1>3, <3>2, <3>3, PartsNext DEF HostOK
  <2>4. QED
      BY <1>7, <2>2, <2>3, ReceiveEndParts
<1>8. CASE ReceiveDiscard(f)
  <2>1. /\ hostMeta' = MarkRemote(hostMeta)
        /\ unflushed' = unflushed \/ unflushed' = 0
        /\ UNCHANGED <<readerVars, flushScheduled, toWorker, fullVars>>
      BY <1>8, ReceiveDiscardParts
  <2>2. HostOK'
      BY <1>4, <2>1, MetaTypes DEF HostOK, readerVars, ReaderTypeOK
  <2>3. QED
      BY <1>1, <1>3, <2>1, <2>2, ReturnUnchanged, PartsNext
<1>9. QED
    BY <1>5, <1>6, <1>7, <1>8

LEMMA ReadInv ==
    ASSUME WorkerLaneInv, NEW r \in Readers, Read(r)
    PROVE  WorkerLaneInv'
<1>1. /\ CreditTypeOK /\ WriterOK /\ HostOK /\ ReturnOK
      /\ WaitersLackCredit /\ UnflushedIsScheduled
    BY Parts
<1>2. CreditTypeOK' /\ WriterOK' /\ WaitersLackCredit'
  <2>1. UNCHANGED <<writerVars, historyVars>> /\ toHost' \in Seq(ToHostFrames)
      BY <1>1 DEF Read, WriterOK
  <2>2. QED
      BY <1>1, <2>1, WriterUnchanged
<1>3. ReaderTypeOK /\ hostMeta \in Metas /\ hostMeta' = hostMeta
    BY <1>1 DEF HostOK, Read
<1>4. CASE ReadChunk(r) /\ QueueCreditFrame(ReadGrant)
  <2>1. ReaderTypeOK' /\ ReadGrant \in Nat
      BY <1>3, <1>4, ReadChunkType
  <2>2. ReturnOK' /\ UnflushedIsScheduled'
      BY <1>1, <1>4, <2>1, QueueFacts
  <2>3. QED
      BY <1>2, <1>3, <2>1, <2>2, PartsNext DEF HostOK
<1>5. CASE /\ ReadEnded(r) \/ ReadEnd(r) \/ ReadWait(r)
           /\ UNCHANGED <<unflushed, flushScheduled, toWorker, fullVars>>
  <2>1. ReaderTypeOK'
      BY <1>3, <1>5, ReadOtherType
  <2>2. ReturnOK' /\ UnflushedIsScheduled'
      BY <1>1, <1>5, ReturnUnchanged
  <2>3. QED
      BY <1>2, <1>3, <2>1, <2>2, PartsNext DEF HostOK
<1>6. QED
    BY <1>4, <1>5 DEF Read

LEMMA CancelReaderParts ==
    ASSUME CancelReader
    PROVE  /\ CancelRead /\ flushScheduled' = flushScheduled
           /\ \E frames \in Seq(Signals) : DiscardLocally(frames, ~reader.discarded)
           /\ UNCHANGED <<writerVars, historyVars, toHost>>
<1> DEFINE frames == <<Control("cancel")>>
<1>1. frames \in Seq(Signals)
    BY FrameKinds
<1>2. DiscardLocally(frames, ~reader.discarded)
    BY DEF CancelReader
<1> HIDE DEF frames
<1>3. QED
    BY <1>1, <1>2 DEF CancelReader

LEMMA CancelReaderInv ==
    ASSUME WorkerLaneInv, CancelReader
    PROVE  WorkerLaneInv'
<1>1. /\ CreditTypeOK /\ WriterOK /\ HostOK /\ ReturnOK
      /\ WaitersLackCredit /\ UnflushedIsScheduled
    BY Parts
<1>2. CreditTypeOK' /\ WriterOK' /\ WaitersLackCredit'
  <2>1. UNCHANGED <<writerVars, historyVars>> /\ toHost' \in Seq(ToHostFrames)
      BY <1>1, CancelReaderParts DEF WriterOK
  <2>2. QED
      BY <1>1, <2>1, WriterUnchanged
<1>3. ReaderTypeOK'
    BY <1>1, CancelReadType, CancelReaderParts DEF HostOK
<1>4. ReturnOK' /\ UnflushedIsScheduled' /\ hostMeta' \in Metas
  <2> DEFINE gaveUp == ~reader.discarded
  <2>1. PICK frames \in Seq(Signals) : DiscardLocally(frames, gaveUp)
      BY CancelReaderParts
  <2> HIDE DEF gaveUp
  <2>2. flushScheduled' = flushScheduled /\ hostMeta \in Metas
      BY <1>1, CancelReaderParts DEF HostOK
  <2>3. QED
      BY <1>1, <2>1, <2>2, DiscardFacts
<1>5. QED
    BY <1>2, <1>3, <1>4, PartsNext DEF HostOK

-----------------------------------------------------------------------------
(***************************************************************************)
(* The invariant holds, and what it says.                                  *)
(***************************************************************************)
LEMMA InvStep == WorkerLaneInv /\ [Next]_vars => WorkerLaneInv'
<1>1. SUFFICES ASSUME WorkerLaneInv, [Next]_vars
               PROVE  WorkerLaneInv'
    OBVIOUS
<1>2. CASE UNCHANGED vars
  <2>1. /\ UNCHANGED <<writerVars, historyVars, toHost>>
        /\ UNCHANGED <<hostVars, fullVars, toWorker>>
      BY <1>2 DEF vars
  <2>2. CreditTypeOK' /\ WriterOK' /\ WaitersLackCredit'
      BY <1>1, <2>1, Parts, WriterUnchanged DEF WriterOK
  <2>3. HostOK' /\ ReturnOK' /\ UnflushedIsScheduled'
      BY <1>1, <2>1, Parts, HostUnchanged DEF ReturnOK
  <2>4. QED
      BY <2>2, <2>3, PartsNext
<1>3. ASSUME NEW c \in Callers, NEW n \in Sizes, Write("write", c, <<n>>) \/ Ready(c, n)
      PROVE  WorkerLaneInv'
    BY <1>1, <1>3, OneSize, WriteInv, ReadyInv
<1>4. ASSUME NEW c \in Callers, NEW sizes \in Batches, Write("writeMany", c, sizes)
      PROVE  WorkerLaneInv'
    BY <1>1, <1>4, BatchSizes, WriteInv
<1>5. CASE Resume
    BY <1>1, <1>5, ResumeInv
<1>6. ASSUME NEW kind \in {"close", "error", "cancel"}, End(kind)
      PROVE  WorkerLaneInv'
    BY <1>1, <1>6, EndInv
<1>7. CASE WorkerReceive
    BY <1>1, <1>7, WorkerReceiveInv
<1>8. CASE CreditFlushTick
    BY <1>1, <1>8, CreditFlushTickInv
<1>9. CASE HostReceive
    BY <1>1, <1>9, HostReceiveInv
<1>10. ASSUME NEW r \in Readers, Read(r)
       PROVE  WorkerLaneInv'
    BY <1>1, <1>10, ReadInv
<1>11. CASE CancelReader
    BY <1>1, <1>11, CancelReaderInv
<1>12. QED
    BY <1>1, <1>2, <1>3, <1>4, <1>5, <1>6, <1>7, <1>8, <1>9, <1>10, <1>11 DEF Next

\* Credit that queueCreditFrame withholds below its threshold is always
\* scheduled to go out, and the lane keeps its types: for any number of
\* callers, any mixture of calls and however posts fail.
THEOREM WithheldGoesOut == Spec => []WithheldIsScheduled
<1>1. WorkerLaneInv => WithheldIsScheduled
    BY DEF WorkerLaneInv, WithheldIsScheduled
<1>2. QED
    BY <1>1, InvInit, InvStep, PTL DEF Spec

\* No lost wakeup in bootstrap.js: addWriterCredit never leaves a call waiting
\* that the balance covers.
THEOREM NoLostWakeup == Spec => []WaitersLackCredit
<1>1. WorkerLaneInv => WaitersLackCredit
    BY DEF WorkerLaneInv
<1>2. QED
    BY <1>1, InvInit, InvStep, PTL DEF Spec

-----------------------------------------------------------------------------
(***************************************************************************)
(* A pending call is in one place, for any number of callers.              *)
(***************************************************************************)
LEMMA WriteTracked ==
    ASSUME WorkerLaneInv, CallsTracked, NEW op, NEW c \in Callers,
           NEW sizes \in Seq(Sizes), sizes # <<>>, Write(op, c, sizes)
    PROVE  CallsTracked'
<1>1. CreditTypeOK /\ WriterOK /\ call[c] = NoCall
    BY Parts DEF Write, MayCall
<1>2. PICK n \in Nat, todo \in Seq(Chunks) :
         Block(c, n, todo) /\ todo # <<>> /\ n = Head(todo).bytes
    BY <1>1, WriteBlocks
<1>3. QED
    BY <1>1, <1>2, CallsTrackedBlock

LEMMA ReadyTracked ==
    ASSUME WorkerLaneInv, CallsTracked, NEW c \in Callers, NEW n \in Sizes, Ready(c, n)
    PROVE  CallsTracked'
<1> DEFINE none == <<>>
<1>1. CreditTypeOK
    BY Parts
<1>2. none \in Seq(Chunks) /\ n \in Nat /\ n # 0
    BY WorkerLaneAssumption
<1>3. call[c] = NoCall /\ Block(c, n, none)
    BY DEF Ready, MayCall
<1>4. none = <<>>
    OBVIOUS
<1> HIDE DEF none
<1>5. none # <<>> => n = Head(none).bytes
    BY <1>4
<1>6. QED
    BY <1>1, <1>2, <1>3, <1>5, CallsTrackedBlock

LEMMA ResumeTracked ==
    ASSUME WorkerLaneInv, CallsTracked, Resume
    PROVE  CallsTracked'
<1> DEFINE c == Head(jobs).caller
           todo == call[c].todo
           b == Append(batch[c], Head(todo))
<1>1. CreditTypeOK /\ WriterOK
    BY Parts
<1>2. /\ jobs # <<>> /\ c \in Callers /\ todo \in Seq(Chunks)
      /\ Continues(c, todo, b)
    BY <1>1, Continuing
<1> HIDE DEF b, todo
<1>3. CASE Settle(c)
    BY <1>1, <1>2, <1>3, CallsTrackedSettle
<1>4. CASE /\ Len(todo) > 1
           /\ call' = [call EXCEPT ![c] = [need |-> todo[2].bytes, todo |-> Tail(todo)]]
           /\ WaitForCredit(c, todo[2].bytes, credits', Tail(jobs))
  <2> DEFINE rest == Tail(todo)
             n == todo[2].bytes
  <2>1. rest \in Seq(Chunks) /\ rest # <<>> /\ Head(rest) = todo[2] /\ todo[2] \in Chunks
    <3>1. todo \in Seq(Chunks) /\ Len(todo) > 1
        BY <1>2, <1>4
    <3>2. rest \in Seq(Chunks) /\ Len(rest) = Len(todo) - 1
        BY <3>1
    <3>3. rest[1] = todo[2] /\ todo[2] \in Chunks
        BY <3>1
    <3> HIDE DEF rest
    <3>4. Len(rest) >= 1
        BY <3>1, <3>2
    <3>5. rest # <<>> /\ Head(rest) = rest[1]
        BY <3>2, <3>4
    <3>6. QED
        BY <3>2, <3>3, <3>5
  <2>2. n \in Nat
      BY <2>1, FrameKinds
  <2>3. /\ WaitForCredit(c, n, credits', Tail(jobs))
        /\ call' = [call EXCEPT ![c] = [need |-> n, todo |-> rest]]
        /\ n = Head(rest).bytes
      BY <1>4, <2>1
  <2> HIDE DEF rest, n
  <2>4. QED
      BY <1>1, <1>2, <2>1, <2>2, <2>3, CallsTrackedAgain
<1>5. QED
    BY <1>2, <1>3, <1>4 DEF Continues

LEMMA TrackedStep == WorkerLaneInv /\ CallsTracked /\ [Next]_vars => CallsTracked'
<1>1. SUFFICES ASSUME WorkerLaneInv, CallsTracked, [Next]_vars
               PROVE  CallsTracked'
    OBVIOUS
<1>2. CreditTypeOK
    BY <1>1, Parts
<1>3. CASE \/ UNCHANGED vars
           \/ CreditFlushTick
           \/ HostReceive
           \/ \E r \in Readers : Read(r)
           \/ CancelReader
  <2>1. UNCHANGED <<waiters, jobs, call>>
      BY <1>3 DEF vars, writerVars, creditVars, CreditFlushTick, HostReceive, Read, CancelReader
  <2>2. QED
      BY <1>1, <2>1, CallsTrackedUnchanged
<1>4. ASSUME NEW c \in Callers, NEW n \in Sizes, Write("write", c, <<n>>) \/ Ready(c, n)
      PROVE  CallsTracked'
    BY <1>1, <1>4, OneSize, WriteTracked, ReadyTracked
<1>5. ASSUME NEW c \in Callers, NEW sizes \in Batches, Write("writeMany", c, sizes)
      PROVE  CallsTracked'
    BY <1>1, <1>5, BatchSizes, WriteTracked
<1>6. CASE Resume
    BY <1>1, <1>6, ResumeTracked
<1>7. ASSUME NEW kind \in {"close", "error", "cancel"}, End(kind)
      PROVE  CallsTracked'
  <2>1. RejectWriterWaiters /\ UNCHANGED jobs
      BY <1>7 DEF End
  <2>2. QED
      BY <1>1, <1>2, <2>1, CallsTrackedRejected
<1>8. CASE WorkerReceive
  <2>1. UNCHANGED call /\ (AddWriterCredit(Head(toWorker).bytes) \/ UNCHANGED <<waiters, jobs>>)
      BY <1>8 DEF WorkerReceive
  <2>2. QED
      BY <1>1, <1>2, <2>1, CallsTrackedGranted, CallsTrackedUnchanged
<1>9. QED
    BY <1>1, <1>3, <1>4, <1>5, <1>6, <1>7, <1>8 DEF Next

\* A pending call of the worker waits for credit or is resumed, never both and
\* never neither, for any number of callers and any mixture of calls.
THEOREM PendingCallInOnePlace == Spec => []PendingCallIsTracked
<1>1. Init => CallsTracked
    BY CallsTrackedInit DEF Init
<1>2. WorkerLaneInv /\ CallsTracked => PendingCallIsTracked
  <2>1. WorkerLaneInv => CreditTypeOK
      BY Parts
  <2>2. QED
      BY <2>1, CallsTrackedOnce
<1>3. QED
    BY <1>1, <1>2, InvInit, InvStep, TrackedStep, PTL DEF Spec

-----------------------------------------------------------------------------
(***************************************************************************)
(* A writer that posts chunk by chunk: writeMany is not used, or its batch *)
(* is a single chunk.  Otherwise the chunks of a batch are posted against  *)
(* credit that was checked for each but spent for none of them, and the    *)
(* books below do not close.                                               *)
(***************************************************************************)
OneByOne == BatchLen = 1 \/ "writeMany" \notin Ops

\* Nothing is gathered, and only chunks carry bytes.
WriterShape ==
    /\ toHost \in Seq(PlainToHost)
    /\ \A c \in Callers : batch[c] = <<>>
    /\ BatchLen = 1 \/ \A c \in Callers : Len(call[c].todo) <= 1

LEMMA BlockShape ==
    ASSUME WorkerLaneInv, WriterShape, NEW c \in Callers, NEW n, NEW todo,
           Block(c, n, todo), BatchLen = 1 \/ Len(todo) <= 1,
           UNCHANGED <<toHost, batch>>
    PROVE  WriterShape'
<1>1. call \in [Callers -> CallRecords]
    BY Parts, CreditParts
<1>2. call' = [call EXCEPT ![c] = [need |-> n, todo |-> todo]]
    BY DEF Block
<1>3. ASSUME BatchLen # 1, NEW d \in Callers
      PROVE  Len(call'[d].todo) <= 1
  <2>1. CASE d = c
      BY <1>1, <1>2, <1>3, <2>1
  <2>2. CASE d # c
    <3>1. call'[d] = call[d]
        BY <1>1, <1>2, <2>2
    <3>2. QED
        BY <1>3, <3>1 DEF WriterShape
  <2>3. QED
      BY <2>1, <2>2
<1>4. QED
    BY <1>3 DEF WriterShape

LEMMA WriteShape ==
    ASSUME OneByOne, WorkerLaneInv, WriterShape, NEW c \in Callers, NEW n \in Sizes,
           Write("write", c, <<n>>) \/ Ready(c, n)
    PROVE  WriterShape'
<1>1. UNCHANGED <<toHost, batch>>
    BY DEF Write, Ready
<1>2. CASE Write("write", c, <<n>>)
  <2> DEFINE sizes == <<n>>
  <2>1. sizes \in Seq(Sizes) /\ sizes # <<>> /\ Len(sizes) = 1 /\ Write("write", c, sizes)
      BY <1>2
  <2> HIDE DEF sizes
  <2>2. WriterOK
      BY Parts
  <2>3. PICK m \in Nat, todo \in Seq(Chunks) : Block(c, m, todo) /\ Len(todo) = Len(sizes)
      BY <2>1, <2>2, WriteBlocks
  <2>4. Len(todo) <= 1
      BY <2>1, <2>3
  <2>5. QED
      BY <1>1, <2>3, <2>4, BlockShape
<1>3. CASE Ready(c, n)
  <2> DEFINE none == <<>>
  <2>1. Block(c, n, none) /\ Len(none) <= 1
      BY <1>3 DEF Ready
  <2> HIDE DEF none
  <2>2. QED
      BY <1>1, <2>1, BlockShape
<1>4. QED
    BY <1>2, <1>3

LEMMA WriteManyShape ==
    ASSUME OneByOne, WorkerLaneInv, WriterShape, NEW c \in Callers, NEW sizes \in Batches,
           Write("writeMany", c, sizes)
    PROVE  WriterShape'
<1>1. UNCHANGED <<toHost, batch>>
    BY DEF Write
<1>2. BatchLen = 1
    BY DEF Write, MayCall, OneByOne
<1>3. PICK m \in Nat, todo \in Seq(Chunks) : Block(c, m, todo)
    BY Parts, BatchSizes, WriteBlocks
<1>4. QED
    BY <1>1, <1>2, <1>3, BlockShape

\* What a continuation does when nothing is gathered.
LEMMA Posting ==
    ASSUME WorkerLaneInv, WriterShape, Resume
    PROVE  LET c == Head(jobs).caller
               todo == call[c].todo
           IN  /\ jobs # <<>> /\ c \in Callers /\ todo \in Seq(Chunks)
               /\ UNCHANGED outsideWriter
               /\ \/ /\ Settle(c)
                     /\ UNCHANGED <<credits, batch, toHost>>
                  \/ /\ todo # <<>> /\ Head(todo) \in Chunks
                     /\ PostBatch(c, <<Head(todo)>>)
                     /\ \/ Settle(c)
                        \/ /\ Len(todo) > 1
                           /\ call' = [call EXCEPT ![c] = [need |-> todo[2].bytes,
                                                           todo |-> Tail(todo)]]
                           /\ WaitForCredit(c, todo[2].bytes, credits', Tail(jobs))
<1> DEFINE c == Head(jobs).caller
           todo == call[c].todo
           b == Append(batch[c], Head(todo))
<1>1. /\ jobs # <<>> /\ c \in Callers /\ todo \in Seq(Chunks)
      /\ todo # <<>> => Head(todo) \in Chunks
      /\ Continues(c, todo, b)
      /\ UNCHANGED outsideWriter
  <2>1. CreditTypeOK /\ WriterOK
      BY Parts
  <2>2. QED
      BY <2>1, Continuing
<1>2. batch[c] = <<>> /\ (BatchLen = 1 \/ Len(todo) <= 1)
    BY <1>1 DEF WriterShape
<1>3. b = <<Head(todo)>> /\ Len(b) = 1
    BY <1>2
<1>4. ~(Len(b) < BatchLen /\ Len(todo) > 1)
  <2>1. Len(todo) \in Nat
      BY <1>1
  <2> HIDE DEF b, todo
  <2>2. QED
      BY <1>2, <1>3, <2>1
<1> HIDE DEF c, todo, b
<1>5. \/ /\ Settle(c)
         /\ UNCHANGED <<credits, batch, toHost>>
      \/ /\ todo # <<>>
         /\ PostBatch(c, b)
         /\ \/ Settle(c)
            \/ /\ Len(todo) > 1
               /\ call' = [call EXCEPT ![c] = [need |-> todo[2].bytes, todo |-> Tail(todo)]]
               /\ WaitForCredit(c, todo[2].bytes, credits', Tail(jobs))
    BY <1>1, <1>4 DEF Continues
<1>6. PostBatch(c, b) => PostBatch(c, <<Head(todo)>>)
    BY <1>3
<1>7. QED
    BY <1>1, <1>5, <1>6 DEF c, todo

\* A post of one chunk adds its bytes to the channel and spends them.
LEMMA PostOne ==
    ASSUME WriterOK, WriterShape, NEW c \in Callers, NEW x \in Chunks, PostBatch(c, <<x>>)
    PROVE  /\ toHost' \in Seq(PlainToHost)
           /\ x.bytes \in Nat
           /\ Bytes(toHost') = Bytes(toHost) + x.bytes
           /\ credits' = Remaining(x.bytes)
           /\ \A d \in Callers : batch'[d] = <<>>
<1> DEFINE one == <<x>>
<1>1. x \in PlainToHost /\ x.bytes \in Nat
    BY FrameKinds
<1>2. one \in Seq(PlainToHost) /\ Bytes(one) = x.bytes
    BY <1>1, BytesOne
<1>3. toHost' = toHost \o one /\ credits' = Remaining(Bytes(one))
    BY DEF PostBatch
<1>4. \A d \in Callers : batch'[d] = <<>>
    BY DEF PostBatch, WriterOK, WriterShape
<1> HIDE DEF one
<1>5. \A f \in PlainToHost : f.bytes \in Nat
    BY FrameKinds
<1>6. toHost' \in Seq(PlainToHost) /\ Bytes(toHost \o one) = Bytes(toHost) + Bytes(one)
    BY <1>2, <1>3, <1>5, BytesConcat DEF WriterShape
<1>7. QED
    BY <1>1, <1>2, <1>3, <1>4, <1>6

LEMMA ResumeShape ==
    ASSUME WorkerLaneInv, WriterShape, Resume
    PROVE  WriterShape'
<1> DEFINE c == Head(jobs).caller
           todo == call[c].todo
<1>1. WriterOK /\ call \in [Callers -> CallRecords]
    BY Parts, CreditParts
<1>2. /\ c \in Callers /\ todo \in Seq(Chunks)
      /\ \/ /\ Settle(c)
            /\ UNCHANGED <<credits, batch, toHost>>
         \/ /\ todo # <<>> /\ Head(todo) \in Chunks
            /\ PostBatch(c, <<Head(todo)>>)
            /\ \/ Settle(c)
               \/ /\ Len(todo) > 1
                  /\ call' = [call EXCEPT ![c] = [need |-> todo[2].bytes, todo |-> Tail(todo)]]
    BY Posting
<1>3. toHost' \in Seq(PlainToHost) /\ \A d \in Callers : batch'[d] = <<>>
  <2>1. CASE UNCHANGED <<credits, batch, toHost>>
      BY <2>1 DEF WriterShape
  <2>2. CASE Head(todo) \in Chunks /\ PostBatch(c, <<Head(todo)>>)
    <3> HIDE DEF c, todo
    <3>1. QED
        BY <1>1, <1>2, <2>2, PostOne
  <2>3. QED
      BY <1>2, <2>1, <2>2
<1>4. BatchLen = 1 \/ \A d \in Callers : Len(call'[d].todo) <= 1
  <2>1. SUFFICES ASSUME BatchLen # 1, NEW d \in Callers PROVE Len(call'[d].todo) <= 1
      OBVIOUS
  <2>2. Len(todo) <= 1 /\ Len(call[d].todo) <= 1
      BY <1>2, <2>1 DEF WriterShape
  <2>3. ~(Len(todo) > 1)
    <3>1. Len(todo) \in Nat
        BY <1>2
    <3> HIDE DEF todo
    <3>2. QED
        BY <2>2, <3>1
  <2>4. call' = [call EXCEPT ![c] = NoCall]
    <3> HIDE DEF todo
    <3>1. Settle(c)
        BY <1>2, <2>3
    <3>2. QED
        BY <3>1 DEF Settle
  <2> HIDE DEF c, todo
  <2>5. call'[d] = call[d] \/ call'[d] = NoCall
      BY <1>1, <1>2, <2>4
  <2>6. QED
      BY <2>2, <2>5 DEF NoCall
<1>5. QED
    BY <1>3, <1>4 DEF WriterShape

LEMMA EndShape ==
    ASSUME WorkerLaneInv, WriterShape, NEW kind \in {"close", "error", "cancel"}, End(kind)
    PROVE  WriterShape'
<1>1. toHost' \in Seq(PlainToHost)
    BY FrameKinds, EndPosts DEF WriterShape
<1>2. /\ batch' = [c \in Callers |-> IF call'[c] = NoCall THEN <<>> ELSE batch[c]]
      /\ call' = [c \in Callers |-> IF \E i \in DOMAIN waiters : waiters[i].caller = c
                                    THEN NoCall ELSE call[c]]
    BY DEF End, RejectWriterWaiters
<1>3. \A c \in Callers : batch'[c] = <<>>
    BY <1>2 DEF WriterShape
<1>4. ASSUME BatchLen # 1, NEW c \in Callers
      PROVE  Len(call'[c].todo) <= 1
  <2>1. call'[c] = NoCall \/ call'[c] = call[c]
      BY <1>2
  <2>2. QED
      BY <1>4, <2>1 DEF NoCall, WriterShape
<1>5. QED
    BY <1>1, <1>3, <1>4 DEF WriterShape

-----------------------------------------------------------------------------
(***************************************************************************)
(* The books of the lane.  Share are the bytes the host answers for: the   *)
(* ones its reader holds and the credit on its way back, or swallowed.     *)
(* Total adds the bytes on their way there.                                *)
(***************************************************************************)
LocalWhenClosed == hostMeta.local => reader.closed

HostShape == ReturnPlain /\ EndedWhenClosed /\ LocalWhenClosed /\ BufferedCovers

Share == Held + Owed
Total == Bytes(toHost) + Share

LEMMA TotalNat ==
    ASSUME WorkerLaneInv
    PROVE  /\ Bytes(toHost) \in Nat /\ Bytes(toWorker) \in Nat
           /\ reader.buffered \in Nat /\ reader.pendingCredit \in Nat
           /\ unflushed \in Nat /\ lost \in Nat
           /\ Held \in Nat /\ Owed \in Nat /\ Share \in Nat /\ Total \in Nat
           /\ credits \in Nat
<1>1. CreditTypeOK /\ WriterOK /\ HostOK /\ ReturnOK
    BY Parts
<1>2. Bytes(toHost) \in Nat
    BY <1>1, FrameKinds, BytesNat DEF WriterOK
<1>3. unflushed \in Nat /\ lost \in Nat /\ Bytes(toWorker) \in Nat /\ Owed \in Nat
    BY <1>1, OwedNat
<1>4. reader.buffered \in Nat /\ reader.pendingCredit \in Nat
    BY <1>1, ReaderFields DEF HostOK
<1>5. Held \in Nat
    BY <1>4 DEF Held
<1>6. Share \in Nat
    BY <1>3, <1>5 DEF Share
<1>7. Total \in Nat
    BY <1>2, <1>6 DEF Total
<1>8. QED
    BY <1>1, <1>2, <1>3, <1>4, <1>5, <1>6, <1>7 DEF CreditTypeOK

\* What every step of the host does to the books: nothing is added to the
\* total, and nothing leaves it before the stream has ended.
BooksKept ==
    /\ Total' \in Nat /\ Total' <= Total
    /\ ~reader'.closed => (~reader.closed /\ Total' = Total)

\* The total after a step that takes n bytes off the channel.
LEMMA TotalSum ==
    ASSUME WorkerLaneInv, NEW n \in Nat,
           Bytes(toHost') \in Nat, Bytes(toHost') + n = Bytes(toHost),
           Share' \in Nat, Share' <= Share + n
    PROVE  /\ Total' \in Nat /\ Total' <= Total
           /\ Share' = Share + n => Total' = Total
<1> DEFINE o == Bytes(toHost)
           o1 == Bytes(toHost')
           s == Share
           s1 == Share'
<1>1. Total = o + s /\ Total' = o1 + s1
    BY DEF Total
<1>2. o \in Nat /\ o1 \in Nat /\ s \in Nat /\ s1 \in Nat /\ o1 + n = o /\ s1 <= s + n
    BY TotalNat
<1> HIDE DEF o, o1, s, s1
<1>3. Total' \in Nat /\ Total' <= Total /\ (s1 = s + n => Total' = Total)
    BY <1>1, <1>2
<1>4. QED
    BY <1>3 DEF s, s1

\* The reader's type gives the range of what it holds.
LEMMA HeldNext ==
    ASSUME ReaderTypeOK'
    PROVE  Held' \in Nat
<1>1. reader'.buffered \in Nat /\ reader'.pendingCredit \in Nat
    BY DEF ReaderTypeOK, ReaderRecords
<1>2. QED
    BY <1>1 DEF Held

\* A frame the host takes was on its way.
LEMMA TakeFrame ==
    ASSUME WriterShape, HostReceive
    PROVE  /\ Head(toHost) \in PlainToHost /\ Head(toHost).bytes \in Nat
           /\ toHost' \in Seq(PlainToHost) /\ Bytes(toHost') \in Nat
           /\ Bytes(toHost') + Head(toHost).bytes = Bytes(toHost)
<1>1. /\ toHost # <<>> /\ toHost' = Tail(toHost) /\ toHost \in Seq(PlainToHost)
    BY DEF HostReceive, WriterShape
<1>2. \A f \in PlainToHost : f.bytes \in Nat
    BY FrameKinds
<1>3. Head(toHost) \in PlainToHost /\ Tail(toHost) \in Seq(PlainToHost)
    BY <1>1
<1>4. Head(toHost).bytes \in Nat /\ Bytes(Tail(toHost)) \in Nat
    BY <1>2, <1>3, BytesNat
<1>5. Bytes(toHost) = Head(toHost).bytes + Bytes(Tail(toHost))
    BY <1>1, <1>2, BytesTail
<1>6. QED
    BY <1>1, <1>3, <1>4, <1>5

LEMMA ReceiveChunkBooks ==
    ASSUME WorkerLaneInv, WriterShape, HostShape, HostReceive, ReceiveChunk(Head(toHost))
    PROVE  HostShape' /\ BooksKept
<1> DEFINE f == Head(toHost)
           n == f.bytes
           g == PushGrant(f)
<1>1. ReaderTypeOK /\ hostMeta \in Metas /\ ReturnOK /\ UnflushedIsScheduled
    BY Parts DEF HostOK
<1>2. ReturnPlain /\ EndedWhenClosed /\ LocalWhenClosed /\ BufferedCovers
    BY DEF HostShape
<1>3. /\ f \in PlainToHost /\ n \in Nat
      /\ Bytes(toHost') \in Nat /\ Bytes(toHost') + n = Bytes(toHost)
    BY TakeFrame
<1>4. Held \in Nat /\ Owed \in Nat /\ Share \in Nat /\ Share = Held + Owed
    BY TotalNat DEF Share
<1>5. f \in Chunks /\ hostMeta' = hostMeta
  <2>1. f.t = "chunk" /\ hostMeta' = hostMeta
      BY ReceiveChunkParts
  <2>2. QED
      BY <1>3, <2>1 DEF PlainToHost, ToHostFrames, Chunks
<1>6. \/ /\ Released(hostMeta)
         /\ UNCHANGED <<readerVars, unflushed, flushScheduled, toWorker, fullVars>>
      \/ PushChunk(f) /\ QueueCreditFrame(g)
    BY ReceiveChunkParts
<1> HIDE DEF f, n, g
<1>7. CASE /\ Released(hostMeta)
           /\ UNCHANGED <<readerVars, unflushed, flushScheduled, toWorker, fullVars>>
  <2>1. reader.closed /\ reader' = reader
      BY <1>2, <1>7 DEF Released, Gone, LocalWhenClosed, readerVars
  <2>2. ReturnPlain' /\ Owed' = Owed
      BY <1>1, <1>2, <1>7, ReturnUnchanged
  <2>3. Held' = Held /\ BufferedCovers' /\ EndedWhenClosed'
      BY <1>2, <2>1 DEF Held, BufferedCovers, EndedWhenClosed
  <2>4. HostShape'
      BY <1>2, <1>5, <2>1, <2>2, <2>3 DEF HostShape, LocalWhenClosed
  <2>5. Share' = Share
      BY <2>2, <2>3 DEF Share
  <2>6. Share' \in Nat /\ Share' <= Share + n
      BY <1>3, <1>4, <2>5
  <2>7. Total' \in Nat /\ Total' <= Total
      BY <1>3, <2>6, TotalSum
  <2>8. QED
      BY <2>1, <2>4, <2>7 DEF BooksKept
<1>8. CASE PushChunk(f) /\ QueueCreditFrame(g)
  <2>1. ReaderTypeOK' /\ g \in Nat
      BY <1>1, <1>5, <1>8, PushChunkType DEF g
  <2>2. /\ BufferedCovers' /\ reader'.closed = reader.closed
        /\ Ignoring => Held' = Held /\ g = 0
        /\ ~Ignoring => Held' + g = Held + n
      BY <1>1, <1>2, <1>5, <1>8, PushChunkLedger DEF g, n
  <2>3. Ignoring => reader.closed
      BY <1>2 DEF Ignoring, EndedWhenClosed
  <2>4. ReturnPlain' /\ Owed' = Owed + g
      BY <1>1, <1>2, <1>8, <2>1, QueueFacts
  <2>5. EndedWhenClosed'
      BY <1>1, <1>2, <1>5, <1>8, EndedPushChunk
  <2>6. HostShape'
      BY <1>2, <1>5, <2>2, <2>4, <2>5 DEF HostShape, LocalWhenClosed
  <2>7. /\ Share' \in Nat /\ Share' <= Share + n
        /\ ~Ignoring => Share' = Share + n
    <3> DEFINE h == Held
               h1 == Held'
               w == Owed
               w1 == Owed'
    <3>1. /\ h \in Nat /\ h1 \in Nat /\ w \in Nat /\ n \in Nat /\ g \in Nat
          /\ Share = h + w /\ w1 = w + g
          /\ Ignoring => h1 = h /\ g = 0
          /\ ~Ignoring => h1 + g = h + n
        BY <1>3, <1>4, <2>1, <2>2, <2>4, HeldNext
    <3>2. Share' = h1 + w1
        BY DEF Share
    <3> HIDE DEF h, h1, w, w1
    <3>3. Ignoring => Share' = Share
        BY <3>1, <3>2
    <3>4. ~Ignoring => Share' = Share + n
        BY <3>1, <3>2
    <3>5. QED
        BY <1>3, <1>4, <3>3, <3>4
  <2>8. /\ Total' \in Nat /\ Total' <= Total
        /\ ~Ignoring => Total' = Total
      BY <1>3, <2>7, TotalSum
  <2>9. QED
      BY <2>2, <2>3, <2>6, <2>8 DEF BooksKept
<1>9. QED
    BY <1>6, <1>7, <1>8

\* An end that only gives up what was withheld keeps the books.
LEMMA BooksGivenUp ==
    ASSUME WorkerLaneInv, reader'.closed, NEW n \in Nat,
           Bytes(toHost') \in Nat, Bytes(toHost') + n = Bytes(toHost),
           Held' = Held, Owed' \in Nat, Owed' <= Owed
    PROVE  BooksKept
<1> DEFINE h == Held
           w == Owed
           w1 == Owed'
<1>1. h \in Nat /\ w \in Nat /\ w1 \in Nat /\ w1 <= w /\ Share = h + w
    BY TotalNat DEF Share
<1> HIDE DEF h, w, w1
<1>2. h + w1 <= Share + n /\ h + w1 \in Nat
    BY <1>1
<1>3. Share' = h + w1
    BY DEF Share, h, w1
<1>4. Share' \in Nat /\ Share' <= Share + n
    BY <1>2, <1>3
<1>5. Total' \in Nat /\ Total' <= Total
    BY <1>4, TotalSum
<1>6. QED
    BY <1>5 DEF BooksKept

LEMMA ReceiveEndBooks ==
    ASSUME WorkerLaneInv, WriterShape, HostShape, HostReceive,
           ReceiveEnd(Head(toHost)) \/ ReceiveDiscard(Head(toHost))
    PROVE  HostShape' /\ BooksKept
<1> DEFINE f == Head(toHost)
           kind == EndKind(f)
           none == <<>>
<1>1. ReaderTypeOK /\ hostMeta \in Metas /\ ReturnOK /\ UnflushedIsScheduled
    BY Parts DEF HostOK
<1>2. ReturnPlain /\ EndedWhenClosed /\ LocalWhenClosed /\ BufferedCovers
    BY DEF HostShape
<1>3. /\ f \in PlainToHost /\ f.bytes \in Nat
      /\ Bytes(toHost') \in Nat /\ Bytes(toHost') + f.bytes = Bytes(toHost)
    BY TakeFrame
<1>4. f.bytes = 0
    BY <1>3, ReceiveEndParts, ReceiveDiscardParts DEF PlainToHost
<1>5. 0 \in Nat /\ Bytes(toHost') + 0 = Bytes(toHost)
    BY <1>3, <1>4
<1>6. Held \in Nat /\ Owed \in Nat /\ Share = Held + Owed
    BY TotalNat DEF Share
<1>7. none \in Seq(Signals)
    OBVIOUS
<1>8. \/ /\ flushScheduled' = flushScheduled
         /\ \/ UNCHANGED <<readerVars, hostMeta, unflushed, toWorker, fullVars>>
            \/ kind \in {"close", "error"} /\ PushEnd(kind) /\ DiscardLocally(none, Discards)
      \/ ReceiveDiscard(f)
    BY ReceiveEndParts
<1> HIDE DEF f, kind, none
<1>9. ASSUME UNCHANGED readerVars, hostMeta'.local = hostMeta.local,
             UNCHANGED <<flushScheduled, toWorker, fullVars>>,
             unflushed' = unflushed \/ (hostMeta.local /\ unflushed' = 0)
      PROVE  HostShape' /\ BooksKept
  <2>1. reader' = reader
      BY <1>9 DEF readerVars
  <2>2. Held' = Held /\ BufferedCovers' /\ EndedWhenClosed'
      BY <1>2, <2>1 DEF Held, BufferedCovers, EndedWhenClosed
  <2>3. /\ ReturnPlain' /\ Owed' \in Nat /\ Owed' <= Owed
        /\ unflushed' = unflushed => Owed' = Owed
      BY <1>1, <1>2, <1>9, ReturnUnchanged
  <2>4. HostShape'
      BY <1>2, <1>9, <2>1, <2>2, <2>3 DEF HostShape, LocalWhenClosed
  <2>5. CASE unflushed' = unflushed
    <3>1. Share' = Share
        BY <2>2, <2>3, <2>5 DEF Share
    <3>2. Share' \in Nat /\ Share' = Share + 0 /\ Share' <= Share + 0
        BY <3>1, TotalNat
    <3>3. Total' \in Nat /\ Total' = Total
        BY <1>3, <1>5, <3>2, TotalSum
    <3>4. QED
        BY <2>1, <2>4, <3>3, TotalNat DEF BooksKept
  <2>6. CASE hostMeta.local
    <3>1. reader'.closed
        BY <1>2, <2>1, <2>6 DEF LocalWhenClosed
    <3>2. QED
        BY <1>3, <1>5, <2>2, <2>3, <2>4, <3>1, BooksGivenUp
  <2>7. QED
      BY <1>9, <2>5, <2>6
<1>10. CASE /\ flushScheduled' = flushScheduled
            /\ UNCHANGED <<readerVars, hostMeta, unflushed, toWorker, fullVars>>
    BY <1>9, <1>10
<1>11. CASE /\ flushScheduled' = flushScheduled
            /\ kind \in {"close", "error"} /\ PushEnd(kind) /\ DiscardLocally(none, Discards)
  <2>1. BufferedCovers' /\ Held' = Held /\ reader'.closed
      BY <1>1, <1>2, <1>11, PushEndLedger
  <2>2. EndedWhenClosed'
      BY <1>1, <1>2, <1>11, EndedOnceClosed
  <2>3. ReturnPlain' /\ Owed' \in Nat /\ Owed' <= Owed
      BY <1>1, <1>2, <1>7, <1>11, DiscardFacts
  <2>4. HostShape'
      BY <2>1, <2>2, <2>3 DEF HostShape, LocalWhenClosed
  <2>5. QED
      BY <1>3, <1>5, <2>1, <2>3, <2>4, BooksGivenUp
<1>12. CASE ReceiveDiscard(f)
  <2>1. /\ hostMeta' = MarkRemote(hostMeta)
        /\ unflushed' = unflushed \/ (hostMeta.local /\ unflushed' = 0)
        /\ UNCHANGED <<readerVars, flushScheduled, toWorker, fullVars>>
      BY <1>12, ReceiveDiscardParts
  <2>2. hostMeta'.local = hostMeta.local
      BY <1>1, <2>1 DEF Metas, MarkRemote
  <2>3. QED
      BY <1>9, <2>1, <2>2
<1>13. QED
    BY <1>8, <1>10, <1>11, <1>12

LEMMA ReadBooks ==
    ASSUME WorkerLaneInv, WriterShape, HostShape, NEW r \in Readers, Read(r)
    PROVE  HostShape' /\ BooksKept
<1>1. ReaderTypeOK /\ hostMeta \in Metas /\ ReturnOK /\ UnflushedIsScheduled
    BY Parts DEF HostOK
<1>2. ReturnPlain /\ EndedWhenClosed /\ LocalWhenClosed /\ BufferedCovers
    BY DEF HostShape
<1>3. hostMeta' = hostMeta /\ toHost' = toHost
    BY DEF Read
<1>4. /\ 0 \in Nat /\ Bytes(toHost') \in Nat /\ Bytes(toHost') + 0 = Bytes(toHost)
      /\ Held \in Nat /\ Owed \in Nat /\ Share = Held + Owed
    BY <1>3, TotalNat DEF Share
<1>5. EndedWhenClosed'
    BY <1>1, <1>2, EndedRead DEF Read
<1>6. ASSUME BufferedCovers', reader'.closed = reader.closed, ReturnPlain',
             Share' = Share
      PROVE  HostShape' /\ BooksKept
  <2>1. HostShape'
      BY <1>2, <1>3, <1>5, <1>6 DEF HostShape, LocalWhenClosed
  <2>2. Share' \in Nat /\ Share' = Share + 0 /\ Share' <= Share + 0
      BY <1>6, TotalNat
  <2>3. Total' \in Nat /\ Total' = Total
      BY <1>4, <2>2, TotalSum
  <2>4. QED
      BY <1>6, <2>1, <2>3, TotalNat DEF BooksKept
<1>7. CASE ReadChunk(r) /\ QueueCreditFrame(ReadGrant)
  <2> DEFINE g == ReadGrant
  <2>1. ReaderTypeOK' /\ g \in Nat
      BY <1>1, <1>7, ReadChunkType
  <2>2. BufferedCovers' /\ Held' + g = Held /\ reader'.closed = reader.closed
      BY <1>1, <1>2, <1>7, ReadChunkLedger
  <2>3. QueueCreditFrame(g)
      BY <1>7
  <2> HIDE DEF g
  <2>4. ReturnPlain' /\ Owed' = Owed + g
      BY <1>1, <1>2, <2>1, <2>3, QueueFacts
  <2>5. Share' = Share
    <3> DEFINE h == Held
               h1 == Held'
               w == Owed
               w1 == Owed'
    <3>1. h \in Nat /\ h1 \in Nat /\ w \in Nat /\ g \in Nat /\ w1 = w + g /\ h1 + g = h
        BY <1>4, <2>1, <2>2, <2>4, HeldNext
    <3>2. Share = h + w /\ Share' = h1 + w1
        BY DEF Share
    <3> HIDE DEF h, h1, w, w1
    <3>3. QED
        BY <3>1, <3>2
  <2>6. QED
      BY <1>6, <2>2, <2>4, <2>5
<1>8. CASE /\ ReadEnded(r) \/ ReadEnd(r) \/ ReadWait(r)
           /\ UNCHANGED <<unflushed, flushScheduled, toWorker, fullVars>>
  <2>1. BufferedCovers' /\ Held' = Held /\ reader'.closed = reader.closed
      BY <1>1, <1>2, <1>8, ReadOtherLedger
  <2>2. ReturnPlain' /\ Owed' = Owed
      BY <1>1, <1>2, <1>8, ReturnUnchanged
  <2>3. Share' = Share
      BY <2>1, <2>2 DEF Share
  <2>4. QED
      BY <1>6, <2>1, <2>2, <2>3
<1>9. QED
    BY <1>7, <1>8 DEF Read

LEMMA CancelReaderBooks ==
    ASSUME WorkerLaneInv, WriterShape, HostShape, CancelReader
    PROVE  HostShape' /\ BooksKept
<1> DEFINE gaveUp == ~reader.discarded
<1>1. ReaderTypeOK /\ hostMeta \in Metas /\ ReturnOK /\ UnflushedIsScheduled
    BY Parts DEF HostOK
<1>2. ReturnPlain /\ EndedWhenClosed /\ BufferedCovers
    BY DEF HostShape
<1>3. /\ CancelRead /\ flushScheduled' = flushScheduled /\ toHost' = toHost
      /\ \E frames \in Seq(Signals) : DiscardLocally(frames, gaveUp)
    BY CancelReaderParts
<1> HIDE DEF gaveUp
<1>4. 0 \in Nat /\ Bytes(toHost') \in Nat /\ Bytes(toHost') + 0 = Bytes(toHost)
    BY <1>3, TotalNat
<1>5. BufferedCovers' /\ Held' = Held /\ reader'.closed
    BY <1>1, <1>2, <1>3, CancelReadLedger
<1>6. EndedWhenClosed'
    BY <1>1, <1>2, <1>3, EndedOnceClosed
<1>7. ReturnPlain' /\ Owed' \in Nat /\ Owed' <= Owed
    BY <1>1, <1>2, <1>3, DiscardFacts
<1>8. BooksKept
    BY <1>4, <1>5, <1>7, BooksGivenUp
<1>9. QED
    BY <1>5, <1>6, <1>7, <1>8 DEF HostShape, LocalWhenClosed

LEMMA FlushTickBooks ==
    ASSUME WorkerLaneInv, HostShape, CreditFlushTick
    PROVE  HostShape' /\ BooksKept
<1>1. /\ reader' = reader /\ hostMeta' = hostMeta /\ toHost' = toHost
      /\ flushScheduled' = FALSE /\ FlushCreditFrames(unflushed)
    BY Zenon DEF CreditFlushTick, readerVars
<1>2. flushScheduled' \in BOOLEAN
    BY <1>1, Zenon
<1>3. ReturnPlain' /\ Owed' = unflushed + lost + Bytes(toWorker)
    BY <1>1, <1>2, Parts, OwedNat, FlushFacts DEF HostShape
<1>4. Owed' = Owed /\ Held' = Held
    BY <1>1, <1>3 DEF Owed, Held
<1>5. HostShape'
    BY <1>1, <1>3 DEF HostShape, EndedWhenClosed, LocalWhenClosed, BufferedCovers
<1>6. Total' = Total
    BY <1>1, <1>4 DEF Total, Share
<1>7. QED
    BY <1>1, <1>5, <1>6, TotalNat DEF BooksKept

-----------------------------------------------------------------------------
(***************************************************************************)
(* The budget of a writer with one chain of calls, as in the other         *)
(* direction: the balance and the total fill the window, and a call that   *)
(* was resumed still fits, even if the stream has ended since.             *)
(***************************************************************************)
Fits == Total + credits <= Window
ResumedFits ==
    \A i \in DOMAIN jobs :
        call[jobs[i].caller].todo # <<>> => Total + call[jobs[i].caller].need <= Window
Balanced == ended = "no" /\ ~reader.closed => Total + credits = Window
ResumedCovered ==
    ended = "no" => \A i \in DOMAIN jobs : credits >= call[jobs[i].caller].need

Budget == Fits /\ ResumedFits /\ Balanced /\ ResumedCovered

\* The host's steps keep the budget.
LEMMA HostBudget ==
    ASSUME WorkerLaneInv, Budget, BooksKept, UNCHANGED <<ended, credits, jobs, call>>
    PROVE  Budget'
<1> DEFINE T == Total
           T1 == Total'
           need(i) == call[jobs[i].caller].need
<1>1. /\ T \in Nat /\ T1 \in Nat /\ T1 <= T /\ credits \in Nat /\ Window \in Nat
      /\ ~reader'.closed => (~reader.closed /\ T1 = T)
    BY TotalNat, WindowAssumption DEF BooksKept
<1>2. \A i \in DOMAIN jobs : need(i) \in Nat
    BY Parts, NeedNat
<1>3. /\ T + credits <= Window
      /\ \A i \in DOMAIN jobs : call[jobs[i].caller].todo # <<>> => T + need(i) <= Window
      /\ (ended = "no" /\ ~reader.closed) => T + credits = Window
      /\ ended = "no" => \A i \in DOMAIN jobs : credits >= need(i)
    BY DEF Budget, Fits, ResumedFits, Balanced, ResumedCovered
<1> HIDE DEF T, T1, need
<1>4. /\ T1 + credits <= Window
      /\ \A i \in DOMAIN jobs : call[jobs[i].caller].todo # <<>> => T1 + need(i) <= Window
      /\ (ended = "no" /\ ~reader'.closed) => T1 + credits = Window
    BY <1>1, <1>2, <1>3
<1>5. QED
    BY <1>3, <1>4 DEF Budget, Fits, ResumedFits, Balanced, ResumedCovered, T1, need

\* What a step of the writer must show for the budget.
LEMMA WriterBudget ==
    ASSUME NEW T \in Nat, Total' = T, credits' \in Nat, T + credits' <= Window,
           (ended' = "no" /\ ~reader'.closed) => T + credits' = Window,
           \A i \in DOMAIN jobs' : /\ call'[jobs'[i].caller].need \in Nat
                                   /\ credits' >= call'[jobs'[i].caller].need
    PROVE  Budget'
<1> DEFINE need(i) == call'[jobs'[i].caller].need
           k == credits'
<1>1. \A i \in DOMAIN jobs' : need(i) \in Nat /\ k >= need(i)
    OBVIOUS
<1>2. Window \in Nat /\ k \in Nat /\ T + k <= Window
    BY WindowAssumption
<1> HIDE DEF need, k
<1>3. \A i \in DOMAIN jobs' : T + need(i) <= Window
  <2>1. SUFFICES ASSUME NEW i \in DOMAIN jobs' PROVE T + need(i) <= Window
      OBVIOUS
  <2>2. need(i) \in Nat /\ k >= need(i)
      BY <1>1
  <2>3. QED
      BY <1>2, <2>2
<1>4. Fits' /\ Balanced'
    BY DEF Fits, Balanced
<1>5. ResumedFits' /\ ResumedCovered'
    BY <1>1, <1>3 DEF ResumedFits, ResumedCovered, need, k
<1>6. QED
    BY <1>4, <1>5 DEF Budget

\* Spending credit on bytes that fit.
LEMMA Spending ==
    ASSUME WorkerLaneInv, Budget, NEW n \in Nat, credits' = Remaining(n),
           Total + n <= Window, ended = "no" => n <= credits
    PROVE  /\ Total + n \in Nat /\ credits' \in Nat
           /\ (Total + n) + credits' <= Window
           /\ (ended = "no" /\ ~reader.closed) => (Total + n) + credits' = Window
<1> DEFINE T == Total
<1>1. /\ T \in Nat /\ credits \in Nat /\ Window \in Nat
      /\ T + credits <= Window
      /\ (ended = "no" /\ ~reader.closed) => T + credits = Window
    BY TotalNat, WindowAssumption DEF Budget, Fits, Balanced
<1>2. credits' = Max0(credits - n)
    BY DEF Remaining
<1> HIDE DEF T
<1>3. /\ T + n \in Nat /\ credits' \in Nat
      /\ (T + n) + credits' <= Window
      /\ (ended = "no" /\ ~reader.closed) => (T + n) + credits' = Window
  <2>1. T + n <= Window
      BY DEF T
  <2>2. QED
      BY <1>1, <1>2, <2>1 DEF Max0
<1>4. QED
    BY <1>3 DEF T

\* The host's part of the books, over a step of the writer.
LEMMA ShareUnchanged ==
    ASSUME UNCHANGED <<hostVars, fullVars, toWorker>>
    PROVE  Share' = Share /\ UNCHANGED reader
BY DEF hostVars, readerVars, fullVars, Share, Held, Owed

LEMMA OutsideShare ==
    ASSUME UNCHANGED outsideWriter
    PROVE  Share' = Share /\ UNCHANGED <<reader, ended>>
<1>1. UNCHANGED <<hostVars, fullVars, toWorker>> /\ ended' = ended
    BY DEF outsideWriter
<1>2. QED
    BY <1>1, ShareUnchanged

\* A call that blocks changes no number.
LEMMA BlockBudget ==
    ASSUME OneCaller, WorkerLaneInv, Budget, CallsTracked,
           NEW c \in Callers, call[c] = NoCall, NEW n \in Nat, NEW todo, Block(c, n, todo),
           UNCHANGED outsideWriter, UNCHANGED <<credits, toHost>>
    PROVE  Budget'
<1>1. CreditTypeOK
    BY Parts
<1>2. /\ call' = [call EXCEPT ![c] = [need |-> n, todo |-> todo]]
      /\ WaitForCredit(c, n, credits, jobs)
    BY DEF Block
<1>3. call'[c].need = n
    BY <1>1, <1>2, CreditParts
<1>4. jobs \in Seq(Job) /\ DOMAIN jobs = {}
    BY <1>1, CreditParts, IdleCaller
<1>5. \A i \in DOMAIN jobs' : jobs'[i].caller = c /\ credits >= n
    BY <1>2, <1>4, OwnContinuation
<1>6. Total' = Total /\ UNCHANGED <<reader, ended>>
    BY OutsideShare DEF Total
<1> DEFINE T == Total
<1>7. /\ T \in Nat /\ credits' \in Nat /\ T + credits' <= Window
      /\ (ended' = "no" /\ ~reader'.closed) => T + credits' = Window
      /\ Total' = T
    BY <1>6, TotalNat DEF Budget, Fits, Balanced
<1> HIDE DEF T
<1>8. \A i \in DOMAIN jobs' : /\ call'[jobs'[i].caller].need \in Nat
                              /\ credits' >= call'[jobs'[i].caller].need
    BY <1>3, <1>5
<1>9. QED
    BY <1>7, <1>8, WriterBudget

LEMMA WriteBudget ==
    ASSUME OneCaller, WorkerLaneInv, Budget, CallsTracked,
           NEW op, NEW c \in Callers, NEW sizes \in Seq(Sizes), sizes # <<>>, Write(op, c, sizes)
    PROVE  Budget'
<1>1. PICK n \in Nat, todo \in Seq(Chunks) : Block(c, n, todo)
    BY Parts, WriteBlocks
<1>2. call[c] = NoCall /\ UNCHANGED outsideWriter /\ UNCHANGED <<credits, toHost>>
    BY DEF Write, MayCall
<1>3. QED
    BY <1>1, <1>2, BlockBudget

LEMMA ReadyBudget ==
    ASSUME OneCaller, WorkerLaneInv, Budget, CallsTracked,
           NEW c \in Callers, NEW n \in Sizes, Ready(c, n)
    PROVE  Budget'
<1> DEFINE none == <<>>
<1>1. n \in Nat
    BY WorkerLaneAssumption
<1>2. /\ call[c] = NoCall /\ Block(c, n, none)
      /\ UNCHANGED outsideWriter /\ UNCHANGED <<credits, toHost>>
    BY DEF Ready, MayCall
<1> HIDE DEF none
<1>3. QED
    BY <1>1, <1>2, BlockBudget

\* A continuation posts what its credit was checked for.
LEMMA ResumeBudget ==
    ASSUME OneCaller, WorkerLaneInv, WriterShape, Budget, CallsTracked, Resume
    PROVE  Budget'
<1> DEFINE c == Head(jobs).caller
           todo == call[c].todo
           x == Head(todo)
           n == x.bytes
           m == todo[2].bytes
           rest == Tail(todo)
<1>1. CreditTypeOK /\ WriterOK
    BY Parts
<1>2. /\ jobs # <<>> /\ c \in Callers /\ todo \in Seq(Chunks)
      /\ UNCHANGED outsideWriter
      /\ \/ /\ Settle(c)
            /\ UNCHANGED <<credits, batch, toHost>>
         \/ /\ todo # <<>> /\ x \in Chunks
            /\ PostBatch(c, <<x>>)
            /\ \/ Settle(c)
               \/ /\ Len(todo) > 1
                  /\ call' = [call EXCEPT ![c] = [need |-> m, todo |-> rest]]
                  /\ WaitForCredit(c, m, credits', Tail(jobs))
    BY Posting
<1>3. /\ 1 \in DOMAIN jobs /\ c = jobs[1].caller
      /\ DOMAIN Tail(jobs) = {} /\ Tail(jobs) \in Seq(Job)
    BY <1>1, <1>2, OneContinuation
<1>4. Share' = Share /\ reader' = reader /\ ended' = ended
    BY <1>2, OutsideShare
<1>5. Settle(c) => DOMAIN jobs' = {}
    BY <1>3 DEF Settle
<1>6. todo # <<>> => /\ call[c].need = n
                     /\ Total + call[c].need <= Window
                     /\ ended = "no" => credits >= call[c].need
  <2>1. todo # <<>> => call[c].need = n
      BY <1>2 DEF CallsTracked, Tracks
  <2>2. todo # <<>> => Total + call[c].need <= Window
      BY <1>3 DEF Budget, ResumedFits
  <2>3. ended = "no" => credits >= call[c].need
      BY <1>3 DEF Budget, ResumedCovered
  <2>4. QED
      BY <2>1, <2>2, <2>3
<1>7. Len(todo) > 1 => m \in Nat
  <2>1. 2 \in DOMAIN todo => todo[2] \in Chunks
      BY <1>2
  <2>2. Len(todo) > 1 => 2 \in DOMAIN todo
      BY <1>2
  <2>3. QED
      BY <2>1, <2>2, FrameKinds
<1> HIDE DEF c, todo, m, rest, x
<1>8. CASE /\ Settle(c)
           /\ UNCHANGED <<credits, batch, toHost>>
  <2>1. Total' = Total
      BY <1>4, <1>8 DEF Total
  <2> DEFINE T == Total
  <2>2. /\ T \in Nat /\ Total' = T /\ credits' \in Nat /\ T + credits' <= Window
        /\ (ended' = "no" /\ ~reader'.closed) => T + credits' = Window
      BY <1>4, <1>8, <2>1, TotalNat DEF Budget, Fits, Balanced
  <2> HIDE DEF T
  <2>3. QED
      BY <1>5, <1>8, <2>2, WriterBudget
<1>9. CASE /\ todo # <<>> /\ x \in Chunks
           /\ PostBatch(c, <<x>>)
           /\ \/ Settle(c)
              \/ /\ Len(todo) > 1
                 /\ call' = [call EXCEPT ![c] = [need |-> m, todo |-> rest]]
                 /\ WaitForCredit(c, m, credits', Tail(jobs))
  <2>1. n \in Nat /\ Bytes(toHost') = Bytes(toHost) + n /\ credits' = Remaining(n)
      BY <1>1, <1>2, <1>9, PostOne
  <2>2. Total' = Total + n
    <3> DEFINE b == Bytes(toHost)
               b1 == Bytes(toHost')
    <3>1. b \in Nat /\ Share \in Nat /\ Total = b + Share /\ Total' = b1 + Share /\ b1 = b + n
        BY <1>4, <2>1, TotalNat DEF Total
    <3> HIDE DEF b, b1, n
    <3>2. QED
        BY <2>1, <3>1
  <2>3. Total + n <= Window
      BY <1>6, <1>9
  <2>4. ended = "no" => n <= credits
    <3>1. ended = "no" => credits >= n
        BY <1>6, <1>9
    <3> HIDE DEF n
    <3>2. credits \in Nat
        BY TotalNat
    <3>3. QED
        BY <2>1, <3>1, <3>2
  <2> HIDE DEF n
  <2>5. /\ Total + n \in Nat /\ credits' \in Nat
        /\ (Total + n) + credits' <= Window
        /\ (ended = "no" /\ ~reader.closed) => (Total + n) + credits' = Window
      BY <2>1, <2>3, <2>4, Spending
  <2> DEFINE T == Total + n
  <2>6. /\ T \in Nat /\ Total' = T /\ T + credits' <= Window
        /\ (ended' = "no" /\ ~reader'.closed) => T + credits' = Window
      BY <1>4, <2>2, <2>5
  <2> HIDE DEF T
  <2>7. CASE Settle(c)
      BY <1>5, <2>5, <2>6, <2>7, WriterBudget
  <2>8. CASE /\ Len(todo) > 1
             /\ call' = [call EXCEPT ![c] = [need |-> m, todo |-> rest]]
             /\ WaitForCredit(c, m, credits', Tail(jobs))
    <3>1. call'[c].need = m /\ m \in Nat
        BY <1>1, <1>2, <1>7, <2>8, CreditParts
    <3>2. \A i \in DOMAIN jobs' : jobs'[i].caller = c /\ credits' >= m
        BY <1>3, <2>8, OwnContinuation
    <3>3. \A i \in DOMAIN jobs' : /\ call'[jobs'[i].caller].need \in Nat
                                  /\ credits' >= call'[jobs'[i].caller].need
        BY <3>1, <3>2
    <3>4. QED
        BY <2>5, <2>6, <3>3, WriterBudget
  <2>9. QED
      BY <1>9, <2>7, <2>8
<1>10. QED
    BY <1>2, <1>8, <1>9

\* An end gives up the balance; what a resumed call still posts keeps fitting.
LEMMA EndBudget ==
    ASSUME WorkerLaneInv, WriterShape, Budget,
           NEW kind \in {"close", "error", "cancel"}, End(kind)
    PROVE  Budget'
<1>1. CreditTypeOK
    BY Parts
<1>2. /\ UNCHANGED <<hostVars, fullVars, toWorker>> /\ jobs' = jobs /\ ended' # "no"
      /\ RejectWriterWaiters
    BY DEF End
<1>3. Bytes(toHost') = Bytes(toHost)
    BY FrameKinds, EndPosts DEF WriterShape
<1>4. Total' = Total
    BY <1>2, <1>3, ShareUnchanged DEF Total
<1>5. credits' = 0 /\ \A d \in Callers : call'[d] = call[d] \/ call'[d] = NoCall
    BY <1>2 DEF RejectWriterWaiters
<1>6. Fits'
  <2> DEFINE T == Total
  <2>1. T \in Nat /\ credits \in Nat /\ Window \in Nat /\ T + credits <= Window
      BY TotalNat, WindowAssumption DEF Budget, Fits
  <2>2. Total' = T
      BY <1>4
  <2> HIDE DEF T
  <2>3. T + credits' <= Window
      BY <1>5, <2>1
  <2>4. QED
      BY <2>2, <2>3 DEF Fits
<1>7. ResumedFits'
  <2>1. SUFFICES ASSUME NEW i \in DOMAIN jobs, call'[jobs[i].caller].todo # <<>>
                 PROVE  Total + call'[jobs[i].caller].need <= Window
      BY <1>2, <1>4 DEF ResumedFits
  <2>2. call'[jobs[i].caller] = call[jobs[i].caller]
      BY <1>1, <1>5, <2>1, NeedNat DEF NoCall
  <2>3. QED
      BY <2>1, <2>2 DEF Budget, ResumedFits
<1>8. QED
    BY <1>2, <1>6, <1>7 DEF Budget, Balanced, ResumedCovered

\* Credit that arrives moves from the books of the host to the balance.
LEMMA WorkerReceiveBudget ==
    ASSUME WorkerLaneInv, HostShape, Budget, CallsTracked, WorkerReceive
    PROVE  Budget'
<1> DEFINE f == Head(toWorker)
           n == f.bytes
<1>1. CreditTypeOK
    BY Parts
<1>2. /\ toWorker # <<>> /\ toWorker' = Tail(toWorker) /\ toHost' = toHost
      /\ UNCHANGED <<hostVars, fullVars, ended, call>>
    BY DEF WorkerReceive
<1>3. f \in PlainToWorker /\ Tail(toWorker) \in Seq(PlainToWorker) /\ toWorker \in Seq(PlainToWorker)
    BY <1>2 DEF HostShape, ReturnPlain
<1>4. n \in Nat /\ (f.t # "credit" => n = 0)
    BY <1>3, FrameKinds DEF PlainToWorker
<1>5. Bytes(toWorker) = n + Bytes(toWorker') /\ Bytes(toWorker') \in Nat
  <2>1. \A x \in PlainToWorker : x.bytes \in Nat
      BY FrameKinds
  <2>2. QED
      BY <1>2, <1>3, <2>1, BytesNat, BytesTail
<1>6. \/ AddWriterCredit(n)
      \/ n = 0 /\ UNCHANGED <<credits, waiters, jobs>>
    BY <1>4 DEF WorkerReceive
<1> HIDE DEF f, n
<1>7. credits' = credits + n
    BY <1>4, <1>6, TotalNat DEF AddWriterCredit
<1>8. reader' = reader /\ Held' = Held /\ unflushed' = unflushed /\ lost' = lost
    BY <1>2 DEF hostVars, readerVars, fullVars, Held
<1> DEFINE T == Total
           T1 == Total'
<1>9. T \in Nat /\ T1 \in Nat /\ T = T1 + n
  <2> DEFINE h == Held
             b == Bytes(toHost)
             w == Bytes(toWorker)
             w1 == Bytes(toWorker')
  <2>1. /\ h \in Nat /\ b \in Nat /\ w1 \in Nat /\ w = n + w1
        /\ unflushed \in Nat /\ lost \in Nat
      BY <1>5, TotalNat
  <2>2. T = b + (h + (unflushed + lost + w)) /\ T1 = b + (h + (unflushed + lost + w1))
      BY <1>2, <1>8 DEF Total, Share, Owed
  <2> HIDE DEF h, b, w, w1, T, T1
  <2>3. QED
      BY <1>4, <2>1, <2>2
<1>10. /\ credits \in Nat /\ T + credits <= Window /\ Window \in Nat
       /\ (ended = "no" /\ ~reader.closed) => T + credits = Window
    BY TotalNat, WindowAssumption DEF Budget, Fits, Balanced
<1>11. \A i \in DOMAIN jobs' :
          \/ i \in DOMAIN jobs /\ jobs'[i] = jobs[i]
          \/ /\ call'[jobs'[i].caller].need \in Nat
             /\ credits' >= call'[jobs'[i].caller].need
  <2>1. CASE AddWriterCredit(n)
      BY <1>1, <1>2, <1>4, <2>1, WokenCovered
  <2>2. CASE UNCHANGED <<credits, waiters, jobs>>
      BY <2>2
  <2>3. QED
      BY <1>6, <2>1, <2>2
<1>12. Total' = T1
    OBVIOUS
<1>13. \A i \in DOMAIN jobs :
          /\ call[jobs[i].caller].need \in Nat
          /\ call[jobs[i].caller].todo # <<>> => T + call[jobs[i].caller].need <= Window
          /\ ended = "no" => credits >= call[jobs[i].caller].need
    BY <1>1, NeedNat DEF Budget, ResumedFits, ResumedCovered
<1> HIDE DEF T, T1
<1>14. /\ credits' \in Nat /\ T1 + credits' <= Window
       /\ (ended' = "no" /\ ~reader'.closed) => T1 + credits' = Window
    BY <1>2, <1>4, <1>7, <1>8, <1>9, <1>10
<1>15. ASSUME NEW i \in DOMAIN jobs'
       PROVE  /\ call'[jobs'[i].caller].todo # <<>> => T1 + call'[jobs'[i].caller].need <= Window
              /\ ended = "no" => credits' >= call'[jobs'[i].caller].need
  <2> DEFINE need == call'[jobs'[i].caller].need
             sends == call'[jobs'[i].caller].todo # <<>>
  <2>1. \/ /\ need \in Nat
           /\ sends => T + need <= Window
           /\ ended = "no" => credits >= need
        \/ need \in Nat /\ credits' >= need
      BY <1>2, <1>11, <1>13, <1>15
  <2>2. (sends => T1 + need <= Window) /\ (ended = "no" => credits' >= need)
    <3> HIDE DEF need, sends
    <3>1. QED
        BY <1>4, <1>7, <1>9, <1>10, <1>14, <2>1
  <2>3. QED
      BY <2>2
<1>16. QED
    BY <1>2, <1>12, <1>14, <1>15 DEF Budget, Fits, Balanced, ResumedFits, ResumedCovered

-----------------------------------------------------------------------------
(***************************************************************************)
(* The invariant of a lane with one caller that posts chunk by chunk, and  *)
(* what it says.                                                           *)
(***************************************************************************)
LaneInv == WorkerLaneInv /\ CallsTracked /\ WriterShape /\ HostShape /\ Budget

\* A step of the worker leaves the host's shape.
LEMMA HostShapeKept ==
    ASSUME HostShape, UNCHANGED hostVars,
           toWorker' = toWorker \/ (toWorker # <<>> /\ toWorker' = Tail(toWorker))
    PROVE  HostShape'
<1>1. toWorker' \in Seq(PlainToWorker)
    BY DEF HostShape, ReturnPlain
<1>2. reader' = reader /\ hostMeta' = hostMeta
    BY DEF hostVars, readerVars
<1>3. QED
    BY <1>1, <1>2 DEF HostShape, ReturnPlain, EndedWhenClosed, LocalWhenClosed, BufferedCovers

\* A step of the host leaves the writer's shape.
LEMMA WriterShapeKept ==
    ASSUME WriterShape, UNCHANGED writerVars, toHost' \in Seq(PlainToHost)
    PROVE  WriterShape'
BY DEF WriterShape, writerVars, creditVars

LEMMA LaneInit == Init => LaneInv
<1>1. SUFFICES ASSUME Init PROVE LaneInv
    OBVIOUS
<1>2. WorkerLaneInv /\ CallsTracked /\ EndedWhenClosed
    BY <1>1, InvInit, CallsTrackedInit, EndedInit DEF Init
<1> DEFINE none == <<>>
<1>3. /\ reader.queue = none /\ reader.buffered = 0 /\ reader.pendingCredit = 0
      /\ ~reader.closed
      /\ toWorker = none /\ toHost = none /\ unflushed = 0 /\ lost = 0
      /\ ~hostMeta.local /\ credits = Window /\ jobs = none
      /\ \A c \in Callers : batch[c] = none /\ call[c].todo = none
    BY <1>1 DEF Init, ReaderInit, CreditInit, Fresh, NoBatch, NoCall
<1>4. Bytes(none) = 0 /\ DOMAIN none = {} /\ Len(none) = 0
      /\ none \in Seq(PlainToWorker) /\ none \in Seq(PlainToHost)
    BY BytesEmpty
<1>5. none = <<>>
    OBVIOUS
<1> HIDE DEF none
<1>6. WriterShape
    BY <1>3, <1>4, <1>5 DEF WriterShape
<1>7. HostShape
  <2>1. BufferedCovers
      BY <1>3, <1>4 DEF BufferedCovers
  <2>2. QED
      BY <1>2, <1>3, <1>4, <2>1 DEF HostShape, ReturnPlain, LocalWhenClosed
<1>8. Total = 0
  <2>1. Held = 0 /\ Owed = 0
      BY <1>3, <1>4 DEF Held, Owed
  <2>2. QED
      BY <1>3, <1>4, <2>1 DEF Total, Share
<1>9. Budget
    BY <1>3, <1>4, <1>8, WindowAssumption DEF Budget, Fits, ResumedFits, Balanced, ResumedCovered
<1>10. QED
    BY <1>2, <1>6, <1>7, <1>9 DEF LaneInv

LEMMA LaneUnchanged ==
    ASSUME WorkerLaneInv, WriterShape, HostShape, Budget, UNCHANGED vars
    PROVE  WriterShape' /\ HostShape' /\ Budget'
<1>1. /\ UNCHANGED <<writerVars, hostVars, fullVars, toWorker>> /\ toHost' = toHost
      /\ UNCHANGED <<ended, credits, jobs, call>>
    BY DEF vars, writerVars, creditVars
<1>2. WriterShape' /\ HostShape'
    BY <1>1, WriterShapeKept, HostShapeKept DEF WriterShape
<1>3. Total' = Total /\ UNCHANGED reader
    BY <1>1, ShareUnchanged DEF Total
<1>4. BooksKept
    BY <1>3, TotalNat DEF BooksKept
<1>5. QED
    BY <1>1, <1>2, <1>4, HostBudget

\* A step of the host, once its books are kept.
LEMMA HostStep ==
    ASSUME WorkerLaneInv, WriterShape, HostShape', BooksKept, Budget, UNCHANGED writerVars,
           toHost' \in Seq(PlainToHost)
    PROVE  WriterShape' /\ HostShape' /\ Budget'
<1>1. UNCHANGED <<ended, credits, jobs, call>>
    BY DEF writerVars, creditVars
<1>2. QED
    BY <1>1, WriterShapeKept, HostBudget

LEMMA LaneStep ==
    ASSUME OneCaller, OneByOne
    PROVE  LaneInv /\ [Next]_vars => LaneInv'
<1>1. SUFFICES ASSUME LaneInv, [Next]_vars PROVE LaneInv'
    OBVIOUS
<1>2. /\ WorkerLaneInv /\ CallsTracked /\ WriterShape /\ HostShape /\ Budget
      /\ toHost \in Seq(PlainToHost)
    BY <1>1 DEF LaneInv, WriterShape
<1>3. WorkerLaneInv' /\ CallsTracked'
    BY <1>1, <1>2, InvStep, TrackedStep
<1>4. SUFFICES WriterShape' /\ HostShape' /\ Budget'
    BY <1>3 DEF LaneInv
<1>5. CASE UNCHANGED vars
    BY <1>2, <1>5, LaneUnchanged
<1>6. ASSUME NEW c \in Callers, NEW n \in Sizes, Write("write", c, <<n>>) \/ Ready(c, n)
      PROVE  WriterShape' /\ HostShape' /\ Budget'
  <2>1. UNCHANGED hostVars /\ toWorker' = toWorker
      BY <1>6 DEF Write, Ready, outsideWriter
  <2>2. Budget'
      BY <1>2, <1>6, OneSize, WriteBudget, ReadyBudget
  <2>3. QED
      BY <1>2, <1>6, <2>1, <2>2, WriteShape, HostShapeKept
<1>7. ASSUME NEW c \in Callers, NEW sizes \in Batches, Write("writeMany", c, sizes)
      PROVE  WriterShape' /\ HostShape' /\ Budget'
  <2>1. UNCHANGED hostVars /\ toWorker' = toWorker
      BY <1>7 DEF Write, outsideWriter
  <2>2. Budget'
      BY <1>2, <1>7, BatchSizes, WriteBudget
  <2>3. QED
      BY <1>2, <1>7, <2>1, <2>2, WriteManyShape, HostShapeKept
<1>8. CASE Resume
  <2>1. UNCHANGED hostVars /\ toWorker' = toWorker
      BY <1>2, <1>8, Posting DEF outsideWriter
  <2>2. QED
      BY <1>2, <1>8, <2>1, ResumeShape, ResumeBudget, HostShapeKept
<1>9. ASSUME NEW kind \in {"close", "error", "cancel"}, End(kind)
      PROVE  WriterShape' /\ HostShape' /\ Budget'
  <2>1. UNCHANGED hostVars /\ toWorker' = toWorker
      BY <1>9 DEF End
  <2>2. QED
      BY <1>2, <1>9, <2>1, EndShape, EndBudget, HostShapeKept
<1>10. CASE WorkerReceive
  <2>1. /\ UNCHANGED hostVars /\ toWorker # <<>> /\ toWorker' = Tail(toWorker)
        /\ toHost' = toHost /\ UNCHANGED <<call, batch>>
      BY <1>10 DEF WorkerReceive
  <2>2. WriterShape'
      BY <1>2, <2>1 DEF WriterShape
  <2>3. QED
      BY <1>2, <1>10, <2>1, <2>2, WorkerReceiveBudget, HostShapeKept
<1>11. CASE CreditFlushTick
  <2>1. UNCHANGED writerVars /\ toHost' = toHost
      BY <1>11 DEF CreditFlushTick
  <2>2. QED
      BY <1>2, <1>11, <2>1, FlushTickBooks, HostStep
<1>12. CASE HostReceive
  <2>1. UNCHANGED writerVars
      BY <1>12 DEF HostReceive
  <2>2. HostShape' /\ BooksKept
      BY <1>2, <1>12, ReceiveChunkBooks, ReceiveEndBooks DEF HostReceive
  <2>3. QED
      BY <1>2, <1>12, <2>1, <2>2, TakeFrame, HostStep
<1>13. ASSUME NEW r \in Readers, Read(r)
       PROVE  WriterShape' /\ HostShape' /\ Budget'
  <2>1. UNCHANGED writerVars /\ toHost' = toHost
      BY <1>13 DEF Read
  <2>2. QED
      BY <1>2, <1>13, <2>1, ReadBooks, HostStep
<1>14. CASE CancelReader
  <2>1. UNCHANGED writerVars /\ toHost' = toHost
      BY <1>14 DEF CancelReader
  <2>2. QED
      BY <1>2, <1>14, <2>1, CancelReaderBooks, HostStep
<1>15. QED
    BY <1>1, <1>5, <1>6, <1>7, <1>8, <1>9, <1>10, <1>11, <1>12, <1>13, <1>14 DEF Next

\* What is outstanding is part of the total.
LEMMA OutstandingSum ==
    ASSUME WorkerLaneInv
    PROVE  /\ Outstanding \in Nat /\ Outstanding <= Total
           /\ Total = Outstanding + reader.pendingCredit + unflushed + Bytes(toWorker) + lost
<1> DEFINE h == Bytes(toHost)
           w == Bytes(toWorker)
           b == reader.buffered
           p == reader.pendingCredit
<1>1. /\ h \in Nat /\ w \in Nat /\ b \in Nat /\ p \in Nat
      /\ unflushed \in Nat /\ lost \in Nat
    BY TotalNat
<1>2. Outstanding = h + b /\ Total = h + ((b + p) + (unflushed + lost + w))
    BY DEF Outstanding, Total, Share, Held, Owed
<1>3. SUFFICES /\ Outstanding \in Nat /\ Outstanding <= Total
               /\ Total = Outstanding + p + unflushed + w + lost
    OBVIOUS
<1> HIDE DEF h, w, b, p
<1>4. QED
    BY <1>1, <1>2

\* A writer of the worker that awaits its calls and posts chunk by chunk never
\* has more than streamWindowBytes on their way or unread, for every window,
\* flush limit and size, whoever ends the stream and whatever credit a full
\* channel swallows.
THEOREM WindowIsRespected ==
    ASSUME OneCaller, OneByOne
    PROVE  Spec => []WindowRespected
<1>1. LaneInv => WindowRespected
  <2>1. SUFFICES ASSUME LaneInv PROVE WindowRespected
      OBVIOUS
  <2>2. WorkerLaneInv /\ Fits
      BY <2>1 DEF LaneInv, Budget
  <2>3. /\ Outstanding \in Nat /\ Outstanding <= Total
        /\ Total \in Nat /\ credits \in Nat /\ Window \in Nat
      BY <2>2, OutstandingSum, TotalNat, WindowAssumption
  <2>4. Outstanding <= Window
      BY <2>2, <2>3 DEF Fits
  <2>5. QED
      BY <2>4 DEF WindowRespected
<1>2. LaneInv /\ [Next]_vars => LaneInv'
    BY LaneStep
<1>3. QED
    BY <1>1, <1>2, LaneInit, PTL DEF Spec

\* While both ends are open the balance of the worker's writer, the bytes under
\* way or held, and the credit that queueCreditFrame withholds, returns or has
\* lost fill the window exactly: credit is neither made nor forgotten.
THEOREM CreditIsConserved ==
    ASSUME OneCaller, OneByOne
    PROVE  Spec => []CreditConserved
<1>1. LaneInv => CreditConserved
  <2>1. SUFFICES ASSUME LaneInv, ended = "no", ~reader.closed
                 PROVE  credits + Outstanding + reader.pendingCredit + unflushed
                            + Bytes(toWorker) + lost = Window
      BY DEF CreditConserved
  <2>2. WorkerLaneInv /\ Total + credits = Window
      BY <2>1 DEF LaneInv, Budget, Balanced
  <2> DEFINE o == Outstanding
             p == reader.pendingCredit
             w == Bytes(toWorker)
             T == Total
  <2>3. /\ o \in Nat /\ p \in Nat /\ w \in Nat /\ unflushed \in Nat /\ lost \in Nat
        /\ credits \in Nat /\ T \in Nat /\ T + credits = Window
        /\ T = o + p + unflushed + w + lost
      BY <2>2, OutstandingSum, TotalNat
  <2>4. SUFFICES credits + o + p + unflushed + w + lost = Window
      OBVIOUS
  <2> HIDE DEF o, p, w, T
  <2>5. QED
      BY <2>3
<1>2. LaneInv /\ [Next]_vars => LaneInv'
    BY LaneStep
<1>3. QED
    BY <1>1, <1>2, LaneInit, PTL DEF Spec

-----------------------------------------------------------------------------
(***************************************************************************)
(* What may leave a call waiting for good.  The lane is at rest when no    *)
(* continuation, flush callback or frame is left and everything that       *)
(* arrived has been read: only a new call moves it again.                  *)
(***************************************************************************)
AtRest ==
    /\ jobs = <<>> /\ ~flushScheduled /\ toWorker = <<>> /\ toHost = <<>>
    /\ reader.queue = <<>>

\* A call that still waits then asks for more than the window, less the credit
\* that found the channel full.
StalledBySizeOnly ==
    AtRest /\ ended = "no" /\ ~reader.closed =>
        \A c \in Callers : call[c] # NoCall => call[c].need + lost > Window

LEMMA HostReceiveWithholds ==
    ASSUME WorkerLaneInv, WithholdsAboveMark, HostReceive
    PROVE  WithholdsAboveMark'
<1> DEFINE f == Head(toHost)
<1>1. ReaderTypeOK /\ WriterOK
    BY Parts DEF HostOK
<1>2. f \in ToHostFrames
    BY <1>1 DEF HostReceive, WriterOK
<1> HIDE DEF f
<1>3. CASE ReceiveChunk(f)
  <2>1. f \in Chunks
      BY <1>2, <1>3, ReceiveChunkParts DEF ToHostFrames, Chunks
  <2>2. UNCHANGED reader \/ PushChunk(f)
      BY <1>3, ReceiveChunkParts DEF readerVars
  <2>3. QED
      BY <1>1, <2>1, <2>2, PushChunkWithholds, WithholdsUnchanged
<1>4. CASE ReceiveEnd(f)
  <2>1. UNCHANGED reader \/ PushEnd(EndKind(f))
      BY <1>4, ReceiveEndParts DEF readerVars
  <2>2. EndKind(f) \in {"close", "error"}
      BY DEF EndKind
  <2>3. QED
      BY <1>1, <2>1, <2>2, PushEndWithholds, WithholdsUnchanged
<1>5. CASE ReceiveDiscard(f)
    BY <1>5, WithholdsUnchanged DEF ReceiveDiscard, readerVars
<1>6. QED
    BY <1>3, <1>4, <1>5 DEF HostReceive, f

LEMMA WithholdsStep ==
    WorkerLaneInv /\ EndedWhenClosed /\ WithholdsAboveMark /\ [Next]_vars => WithholdsAboveMark'
<1> SUFFICES ASSUME WorkerLaneInv, EndedWhenClosed, WithholdsAboveMark, [Next]_vars
             PROVE  WithholdsAboveMark'
    OBVIOUS
<1>0. ReaderTypeOK
    BY Parts DEF HostOK
<1>1. CASE UNCHANGED reader
    BY <1>1, WithholdsUnchanged
<1>2. CASE UNCHANGED vars
    BY <1>1, <1>2 DEF vars, hostVars, readerVars
<1>3. ASSUME NEW c \in Callers, NEW op, NEW sizes, NEW n, Write(op, c, sizes) \/ Ready(c, n)
      PROVE  WithholdsAboveMark'
    BY <1>1, <1>3 DEF Write, Ready, outsideWriter, hostVars, readerVars
<1>4. CASE Resume
    BY <1>1, <1>4 DEF Resume, outsideWriter, hostVars, readerVars
<1>5. CASE (\E kind \in {"close", "error", "cancel"} : End(kind)) \/ WorkerReceive \/ CreditFlushTick
    BY <1>1, <1>5 DEF End, WorkerReceive, CreditFlushTick, hostVars, readerVars
<1>6. CASE HostReceive
    BY <1>6, HostReceiveWithholds
<1>7. ASSUME NEW r \in Readers, Read(r) PROVE WithholdsAboveMark'
    BY <1>0, <1>7, ReadChunkWithholds, ReadOtherWithholds DEF Read
<1>8. CASE CancelReader
    BY <1>0, <1>8, CancelReadWithholds DEF CancelReader
<1>9. QED
    BY <1>2, <1>3, <1>4, <1>5, <1>6, <1>7, <1>8 DEF Next

(***************************************************************************)
(* Nothing but its size stalls a call.  When the lane of a writer that     *)
(* awaits its calls and posts chunk by chunk has come to rest and neither  *)
(* end gave the stream up, a call still waiting needs more than all of     *)
(* streamWindowBytes, less the credit that worker.ts sent into a full      *)
(* channel: unlike in the other direction no credit is kept back at rest,  *)
(* whatever the threshold, for its flush is always scheduled.              *)
(***************************************************************************)
THEOREM OnlySizeStalls ==
    ASSUME OneCaller, OneByOne
    PROVE  Spec => []StalledBySizeOnly
<1> DEFINE Inv == LaneInv /\ WithholdsAboveMark
<1>1. Init => Inv
    BY LaneInit, WithholdsInit DEF Init
<1>2. Inv /\ [Next]_vars => Inv'
  <2>1. LaneInv => WorkerLaneInv /\ EndedWhenClosed
      BY DEF LaneInv, HostShape
  <2>2. QED
      BY <2>1, LaneStep, WithholdsStep
<1>3. Inv => StalledBySizeOnly
  <2>1. SUFFICES ASSUME LaneInv, WithholdsAboveMark, AtRest, ended = "no", ~reader.closed,
                        NEW c \in Callers, call[c] # NoCall
                 PROVE  call[c].need + lost > Window
      BY DEF StalledBySizeOnly
  <2>2. WorkerLaneInv /\ CallsTracked /\ Total + credits = Window
      BY <2>1 DEF LaneInv, Budget, Balanced
  <2>3. CreditTypeOK /\ ReaderTypeOK /\ UnflushedIsScheduled
      BY <2>2, Parts DEF HostOK
  <2>4. reader.buffered = 0 /\ reader.pendingCredit = 0
      BY <2>1, <2>3, EmptyHoldsNothing DEF AtRest
  <2>5. credits < call[c].need
      BY <2>1, <2>2, <2>3, PendingWaits DEF AtRest, WorkerLaneInv
  <2>6. call[c].need \in Nat /\ unflushed \in Nat /\ lost \in Nat /\ credits \in Nat
      BY <2>2, <2>3, TotalNat DEF CreditTypeOK
  <2>7. unflushed = 0
      BY <2>1, <2>3, <2>6 DEF AtRest, UnflushedIsScheduled
  <2> DEFINE none == <<>>
  <2>8. Bytes(none) = 0 /\ toWorker = none /\ toHost = none
      BY <2>1, BytesEmpty DEF AtRest
  <2> HIDE DEF none
  <2>9. Total = lost
      BY <2>4, <2>6, <2>7, <2>8 DEF Total, Share, Held, Owed
  <2>10. QED
      BY <2>2, <2>5, <2>6, <2>9, WindowAssumption
<1>4. QED
    BY <1>1, <1>2, <1>3, PTL DEF Spec

-----------------------------------------------------------------------------
(***************************************************************************)
(* Every chunk in one place, for any number of callers, any mixture of     *)
(* calls and ends: unsent with its call, or handed over and then in the    *)
(* channel, with the reader, read, or dropped.                             *)
(***************************************************************************)
Pending == [c \in Callers |-> batch[c] \o call[c].todo]

OnePlace ==
    /\ ReadOnce
    /\ Placed(Had, toHost, <<>>, accepted)
    /\ Aside(Pending, accepted, nextId)

\* No chunk is read twice, and none that was not handed over.
ReadOnceAndAccepted == OnceEach(received) /\ Elems(received) \subseteq Elems(accepted)

LEMMA OnePlaceInit == Init => OnePlace
<1> SUFFICES ASSUME Init PROVE OnePlace
    OBVIOUS
<1> DEFINE none == <<>>
<1>1. ChunkIds(none) = {} /\ Once(none) /\ Elems(none) = {}
    BY ChunkIdsEmpty
<1>2. ReadOnce /\ Had = {}
    BY ReadOnceInit DEF Init
<1>3. accepted = none /\ toHost = none
    BY DEF Init
<1>4. \A c \in Callers : Pending[c] = none
    BY DEF Init, CreditInit, NoBatch, NoCall, Pending
<1> HIDE DEF none
<1>5. Placed(Had, toHost, none, accepted)
    BY <1>1, <1>2, <1>3 DEF Placed
<1>6. Aside(Pending, accepted, nextId)
    BY <1>1, <1>3, <1>4 DEF Aside
<1>7. QED
    BY <1>2, <1>5, <1>6 DEF OnePlace, none

LEMMA PendingType ==
    ASSUME WorkerLaneInv
    PROVE  /\ Pending \in [Callers -> Seq(Chunks)]
           /\ batch \in [Callers -> Seq(Chunks)] /\ call \in [Callers -> CallRecords]
           /\ \A c \in Callers : batch[c] \in Seq(Chunks) /\ call[c].todo \in Seq(Chunks)
           /\ accepted \in Seq(Nat) /\ nextId \in Nat /\ toHost \in Seq(ToHostFrames)
<1>1. batch \in [Callers -> Seq(Chunks)] /\ call \in [Callers -> CallRecords]
    BY Parts, CreditParts DEF WriterOK
<1>2. ASSUME NEW c \in Callers
      PROVE  batch[c] \in Seq(Chunks) /\ call[c].todo \in Seq(Chunks) /\ Pending[c] \in Seq(Chunks)
  <2>1. batch[c] \in Seq(Chunks) /\ call[c].todo \in Seq(Chunks)
      BY <1>1 DEF CallRecords
  <2>2. Pending[c] = batch[c] \o call[c].todo
      BY DEF Pending
  <2>3. QED
      BY <2>1, <2>2, Concats
<1>3. Pending \in [Callers -> Seq(Chunks)]
    BY <1>2 DEF Pending
<1>4. QED
    BY <1>1, <1>2, <1>3, Parts DEF WriterOK

\* The reader's side of a step that leaves the writer's alone.
LEMMA WriterStays ==
    ASSUME OnePlace, ReadOnce', Placed(Had', toHost', <<>>, accepted),
           UNCHANGED <<batch, call, accepted, nextId>>
    PROVE  OnePlace'
<1>1. Pending' = Pending
    BY DEF Pending
<1>2. QED
    BY <1>1 DEF OnePlace

LEMMA ReaderStays ==
    ASSUME OnePlace, UNCHANGED hostVars
    PROVE  ReadOnce' /\ Had' = Had
BY ReadOnceKept DEF hostVars, readerVars, OnePlace

\* A new call keeps its chunks.
LEMMA BlockOnePlace ==
    ASSUME WorkerLaneInv, OnePlace, NEW c \in Callers, call[c] = NoCall,
           NEW n, NEW todo \in Seq(Chunks), Block(c, n, todo),
           Once(todo), \A x \in ChunkIds(todo) : x \in Nat /\ nextId <= x /\ x < nextId',
           nextId' \in Nat, nextId <= nextId',
           UNCHANGED hostVars, UNCHANGED <<batch, toHost, accepted>>
    PROVE  OnePlace'
<1>1. ReadOnce' /\ Had' = Had
    BY ReaderStays
<1>2. Placed(Had', toHost', <<>>, accepted')
    BY <1>1 DEF OnePlace
<1> DEFINE u == Pending
           u2 == Pending'
           N == ChunkIds(todo)
           m == nextId'
<1>3. /\ u \in [Callers -> Seq(Chunks)] /\ accepted \in Seq(Nat) /\ nextId \in Nat
      /\ call \in [Callers -> CallRecords]
    BY PendingType
<1>4. call' = [call EXCEPT ![c] = [need |-> n, todo |-> todo]]
    BY DEF Block
<1>5. \A d \in Callers \ {c} : u2[d] = u[d]
  <2>1. SUFFICES ASSUME NEW d \in Callers, d # c PROVE u2[d] = u[d]
      OBVIOUS
  <2>2. call'[d] = call[d]
      BY <1>3, <1>4, <2>1
  <2>3. QED
      BY <2>2 DEF Pending
<1>6. u2[c] = batch[c] \o todo /\ u[c] = batch[c] \o <<>> /\ batch[c] \in Seq(Chunks)
  <2>1. call'[c].todo = todo /\ call[c].todo = <<>>
      BY <1>3, <1>4 DEF NoCall
  <2>2. QED
      BY <2>1, PendingType DEF Pending
<1>7. u[c] = batch[c]
    BY <1>6, Concats
<1>8. Aside(u, accepted, nextId)
    BY DEF OnePlace
<1>9. Once(u[c]) /\ ChunkIds(u[c]) \cap N = {} /\ ChunkIds(u[c]) \cap Elems(accepted) = {}
  <2>1. ChunkIds(u[c]) \subseteq Nat
      BY <1>6, <1>7, ElemsOfChunks, <1>3
  <2>2. \A x \in ChunkIds(u[c]) : x < nextId
      BY <1>8 DEF Aside
  <2>3. ChunkIds(u[c]) \cap N = {}
      BY <1>3, <2>1, <2>2
  <2>4. QED
      BY <1>8, <2>3 DEF Aside
<1>10. Once(u2[c]) /\ ChunkIds(u2[c]) = ChunkIds(u[c]) \cup N
    BY <1>6, <1>7, <1>9, ChunkIdsConcat
<1>11. \A d \in Callers \ {c} : Once(u2[d]) /\ ChunkIds(u2[d]) \subseteq ChunkIds(u[d])
    BY <1>5, <1>8 DEF Aside
<1>12. Elems(accepted) \cap N = {}
  <2>1. \A x \in Elems(accepted) : x < nextId /\ x \in Nat
    <3>1. Elems(accepted) \subseteq Nat
        BY <1>3 DEF Elems
    <3>2. QED
        BY <1>8, <3>1 DEF Aside
  <2>2. QED
      BY <1>3, <2>1
<1>13. N \in SUBSET Nat /\ (\A x \in N : nextId <= x /\ x < m) /\ m \in Nat /\ nextId <= m
    OBVIOUS
<1>14. Elems(accepted) \cap ChunkIds(u2[c]) = {}
    BY <1>9, <1>10, <1>12
<1> HIDE DEF u, u2, N, m
<1>15. Aside(u2, accepted, m)
    BY <1>3, <1>8, <1>10, <1>11, <1>13, <1>14, AsideStep
<1>16. QED
    BY <1>1, <1>2, <1>15 DEF OnePlace, u2, m

LEMMA WriteOnePlace ==
    ASSUME WorkerLaneInv, OnePlace, NEW op, NEW c \in Callers, NEW sizes \in Seq(Sizes), sizes # <<>>,
           Write(op, c, sizes)
    PROVE  OnePlace'
<1> DEFINE chunks == [i \in DOMAIN sizes |-> Chunk(nextId + i - 1, sizes[i])]
           n == sizes[1]
<1>1. Sizes \in SUBSET Nat /\ nextId \in Nat /\ Len(sizes) \in Nat
    BY WorkerLaneAssumption, PendingType
<1>2. chunks \in Seq(Chunks)
    BY <1>1, ChunkSequence
<1>3. Once(chunks) /\ \A x \in ChunkIds(chunks) : x \in Nat /\ nextId <= x /\ x < nextId + Len(sizes)
    BY <1>1, NextIds
<1>4. /\ call[c] = NoCall /\ Block(c, n, chunks) /\ nextId' = nextId + Len(sizes)
      /\ UNCHANGED hostVars /\ UNCHANGED <<batch, toHost, accepted>>
    BY DEF Write, MayCall, outsideWriter
<1> HIDE DEF chunks, n
<1>5. nextId' \in Nat /\ nextId <= nextId'
    BY <1>1, <1>4
<1>6. QED
    BY <1>2, <1>3, <1>4, <1>5, BlockOnePlace

LEMMA ReadyOnePlace ==
    ASSUME WorkerLaneInv, OnePlace, NEW c \in Callers, NEW n, Ready(c, n)
    PROVE  OnePlace'
<1> DEFINE none == <<>>
<1>1. none \in Seq(Chunks) /\ Once(none) /\ ChunkIds(none) = {}
    BY ChunkIdsEmpty
<1>2. /\ call[c] = NoCall /\ Block(c, n, none) /\ nextId' = nextId
      /\ UNCHANGED hostVars /\ UNCHANGED <<batch, toHost, accepted>>
    BY DEF Ready, MayCall, outsideWriter, historyVars
<1> HIDE DEF none
<1>3. nextId' \in Nat /\ nextId <= nextId'
    BY <1>2, PendingType
<1>4. QED
    BY <1>1, <1>2, <1>3, BlockOnePlace

\* A post takes b out of what waits with its call.
LEMMA PostOnePlace ==
    ASSUME WorkerLaneInv, OnePlace, NEW c \in Callers, NEW b \in Seq(Chunks), NEW rest \in Seq(Chunks),
           Once(b), Once(rest), ChunkIds(b) \cap ChunkIds(rest) = {},
           ChunkIds(b) \cup ChunkIds(rest) = ChunkIds(Pending[c]),
           NEW r, r.todo = rest, call' = [call EXCEPT ![c] = r],
           PostBatch(c, b), UNCHANGED hostVars, nextId' = nextId
    PROVE  OnePlace'
<1> DEFINE u == Pending
           u2 == Pending'
           a2 == accepted'
           none == <<>>
<1>1. /\ u \in [Callers -> Seq(Chunks)] /\ batch \in [Callers -> Seq(Chunks)]
      /\ call \in [Callers -> CallRecords] /\ accepted \in Seq(Nat) /\ nextId \in Nat
      /\ toHost \in Seq(ToHostFrames)
    BY PendingType
<1>2. ReadOnce' /\ Had' = Had
    BY ReaderStays
<1>3. Aside(u, accepted, nextId) /\ Placed(Had, toHost, none, accepted)
    BY DEF OnePlace
<1>4. a2 = accepted \o Ids(b) /\ toHost' = toHost \o b /\ batch' = [batch EXCEPT ![c] = none]
    BY DEF PostBatch, Ids
<1>5. Elems(a2) = Elems(accepted) \cup ChunkIds(b)
    BY <1>1, <1>4, ElemsOfChunks
<1>6. u2[c] = rest
  <2>1. batch'[c] = none /\ call'[c].todo = rest
      BY <1>1, <1>4
  <2>2. u2[c] = none \o rest
      BY <2>1 DEF Pending
  <2>3. QED
      BY <2>2, Concats
<1>7. ASSUME NEW d \in Callers \ {c} PROVE u2[d] = u[d]
  <2>1. d \in Callers /\ batch'[d] = batch[d] /\ call'[d] = call[d]
      BY <1>1, <1>4
  <2>2. u[d] = batch[d] \o call[d].todo /\ u2[d] = batch'[d] \o call'[d].todo
      BY <2>1 DEF Pending
  <2>3. QED
      BY <2>1, <2>2
<1> HIDE DEF u, u2, a2, none
<1>8. ChunkIds(b) \subseteq ChunkIds(u[c]) /\ ChunkIds(rest) \subseteq ChunkIds(u[c])
    BY DEF u
<1>9. ChunkIds(u[c]) \cap Elems(accepted) = {}
    BY <1>3 DEF Aside
<1>10. \A d \in Callers \ {c} : u2[d] = u[d]
    BY <1>7
<1>11. Elems(a2) \subseteq Elems(accepted) \cup ChunkIds(u[c])
    BY <1>5, <1>8
<1>12. Elems(a2) \cap ChunkIds(u2[c]) = {}
    BY <1>5, <1>6, <1>8, <1>9
<1>13. Once(u2[c]) /\ ChunkIds(u2[c]) \subseteq ChunkIds(u[c])
    BY <1>6, <1>8
<1>14. u \in [Callers -> Seq(Chunks)] /\ accepted \in Seq(Nat) /\ nextId \in Nat
    BY <1>1
<1>15. Aside(u2, a2, nextId)
    BY <1>3, <1>10, <1>11, <1>12, <1>13, <1>14, AsideSent
<1>16. Placed(Had, toHost \o b, none, a2)
  <2>1. ChunkIds(b) \cap Elems(accepted) = {}
      BY <1>8, <1>9
  <2>2. Elems(accepted) \cup ChunkIds(b) \subseteq Elems(a2)
      BY <1>5
  <2>3. b \in Seq(ToHostFrames)
      BY FrameKinds
  <2>4. QED
      BY <1>1, <1>3, <2>1, <2>2, <2>3, PlacedPost
<1>17. Aside(Pending', accepted', nextId') /\ Placed(Had', toHost', <<>>, accepted')
    BY <1>2, <1>4, <1>15, <1>16 DEF u2, a2, none
<1>18. QED
    BY <1>2, <1>17 DEF OnePlace

\* Gathering moves a chunk within its call, settling leaves none.
LEMMA PendingKept ==
    ASSUME OnePlace, NEW c \in Callers, UNCHANGED hostVars, UNCHANGED <<toHost, accepted, nextId>>,
           \A d \in Callers : Once(Pending'[d]) /\ ChunkIds(Pending'[d]) \subseteq ChunkIds(Pending[d])
    PROVE  OnePlace'
<1> DEFINE u == Pending
           u2 == Pending'
<1>1. ReadOnce' /\ Had' = Had
    BY ReaderStays
<1>2. Aside(u, accepted, nextId)
    BY DEF OnePlace
<1>3. \A d \in Callers : Once(u2[d]) /\ ChunkIds(u2[d]) \subseteq ChunkIds(u[d])
    OBVIOUS
<1> HIDE DEF u, u2
<1>4. Aside(u2, accepted, nextId)
    BY <1>2, <1>3, AsideLess
<1>5. QED
    BY <1>1, <1>4 DEF OnePlace, u2

LEMMA ResumeOnePlace ==
    ASSUME WorkerLaneInv, OnePlace, Resume
    PROVE  OnePlace'
<1> DEFINE c == Head(jobs).caller
           todo == call[c].todo
           x == Head(todo)
           b == Append(batch[c], x)
           rest == Tail(todo)
<1>1. CreditTypeOK /\ WriterOK
    BY Parts
<1>2. /\ c \in Callers /\ todo \in Seq(Chunks)
      /\ todo # <<>> => b \in Seq(Chunks) /\ x \in Chunks
      /\ Continues(c, todo, b)
      /\ UNCHANGED outsideWriter /\ nextId' = nextId
    BY <1>1, Continuing
<1>3. UNCHANGED hostVars
    BY <1>2 DEF outsideWriter
<1>4. /\ batch \in [Callers -> Seq(Chunks)] /\ call \in [Callers -> CallRecords]
      /\ batch[c] \in Seq(Chunks)
    BY <1>2, PendingType
<1>5. Pending[c] = batch[c] \o todo
    BY <1>2 DEF Pending
<1>6. \A d \in Callers : Once(Pending[d])
    BY DEF OnePlace, Aside
<1>7. CASE todo = <<>>
  <2> DEFINE t == todo
  <2>1. call[c].todo = <<>> /\ NoCall.todo = <<>>
      BY <1>7 DEF NoCall
  <2> HIDE DEF c
  <2>2. call' = [call EXCEPT ![c] = NoCall] /\ UNCHANGED <<credits, batch, toHost, accepted>>
      BY <1>2, <1>7 DEF Continues, Settle
  <2>3. \A d \in Callers : call'[d].todo = call[d].todo
      BY <1>2, <1>4, <2>1, <2>2
  <2>4. ASSUME NEW d \in Callers PROVE Pending'[d] = Pending[d]
    <3>1. batch' = batch /\ call'[d].todo = call[d].todo
        BY <2>2, <2>3
    <3>2. Pending[d] = batch[d] \o call[d].todo /\ Pending'[d] = batch'[d] \o call'[d].todo
        BY DEF Pending
    <3>3. QED
        BY <3>1, <3>2
  <2>5. QED
      BY <1>2, <1>3, <1>6, <2>2, <2>4, PendingKept
<1>8. CASE todo # <<>>
  <2>1. /\ b \in Seq(Chunks) /\ rest \in Seq(Chunks)
        /\ Once(b) /\ Once(rest) /\ Once(b \o rest)
        /\ ChunkIds(b) \cap ChunkIds(rest) = {}
        /\ ChunkIds(b) \cup ChunkIds(rest) = ChunkIds(Pending[c])
        /\ ChunkIds(b \o rest) = ChunkIds(Pending[c])
    <3>1. x.t = "chunk"
        BY <1>2, <1>8 DEF Chunks
    <3>2. Once(batch[c] \o todo)
        BY <1>2, <1>5, <1>6
    <3> DEFINE s == batch[c]
    <3> HIDE DEF c, todo, s
    <3>3. s \in Seq(Chunks) /\ Once(s \o todo) /\ Pending[c] = s \o todo
        BY <1>4, <1>5, <3>2 DEF s
    <3>4. QED
        BY <1>2, <1>8, <3>1, <3>3, MovesOver DEF s
  <2>2. \E r : r.todo = rest /\ call' = [call EXCEPT ![c] = r]
    <3> HIDE DEF c, todo, b
    <3>1. CASE Len(todo) = 1 /\ Settle(c)
      <4>1. rest = <<>>
        <5>1. rest \in Seq(Chunks) /\ Len(rest) = 0
            BY <1>2, <1>8, <3>1
        <5> HIDE DEF rest
        <5>2. QED
            BY <5>1
      <4>2. NoCall.todo = rest /\ call' = [call EXCEPT ![c] = NoCall]
          BY <3>1, <4>1 DEF NoCall, Settle
      <4>3. QED
          BY <4>2
    <3>2. CASE call' = [call EXCEPT ![c] = [need |-> todo[2].bytes, todo |-> Tail(todo)]]
        BY <3>2
    <3>3. QED
        BY <1>2, <1>8, <3>1, <3>2 DEF Continues
  <2>3. PICK r : r.todo = rest /\ call' = [call EXCEPT ![c] = r]
      BY <2>2
  <2>4. PostBatch(c, b) \/ Gather(c, b)
    <3> HIDE DEF c, todo, b
    <3>1. QED
        BY <1>2, <1>8 DEF Continues
  <2> HIDE DEF c, todo, b, rest
  <2>5. CASE PostBatch(c, b)
      BY <1>2, <1>3, <2>1, <2>3, <2>5, PostOnePlace
  <2>6. CASE Gather(c, b)
    <3>1. batch' = [batch EXCEPT ![c] = b] /\ UNCHANGED <<toHost, accepted>>
        BY <2>6 DEF Gather
    <3>2. Pending'[c] = b \o rest
      <4>1. batch'[c] = b /\ call'[c].todo = rest
          BY <1>2, <1>4, <2>3, <3>1
      <4>2. QED
          BY <1>2, <4>1 DEF Pending
    <3>3. ASSUME NEW d \in Callers, d # c PROVE Pending'[d] = Pending[d]
      <4>1. batch'[d] = batch[d] /\ call'[d] = call[d]
          BY <1>4, <2>3, <3>1, <3>3
      <4>2. QED
          BY <4>1 DEF Pending
    <3>4. \A d \in Callers : Once(Pending'[d]) /\ ChunkIds(Pending'[d]) \subseteq ChunkIds(Pending[d])
        BY <1>6, <2>1, <3>2, <3>3
    <3>5. QED
        BY <1>2, <1>3, <3>1, <3>4, PendingKept
  <2>7. QED
      BY <2>4, <2>5, <2>6
<1>9. QED
    BY <1>7, <1>8

\* What still waits is rejected with its chunks; the end frames carry none.
LEMMA EndOnePlace ==
    ASSUME WorkerLaneInv, OnePlace, NEW kind \in {"close", "error", "cancel"}, End(kind)
    PROVE  OnePlace'
<1> DEFINE none == <<>>
           fr == <<Control(kind)>>
           one == <<Control("discard")>>
           d == IF workerMeta.local THEN none ELSE one
           w == toHost \o fr
<1>1. UNCHANGED hostVars /\ accepted' = accepted /\ nextId' = nextId /\ toHost' = w \o d
    BY DEF End, historyVars
<1>2. ReadOnce' /\ Had' = Had
    BY <1>1, ReaderStays
<1>3. Placed(Had, toHost, none, accepted) /\ toHost \in Seq(ToHostFrames)
    BY PendingType DEF OnePlace
<1>4. Control(kind) \in ToHostFrames /\ Control("discard") \in ToHostFrames
    BY FrameKinds DEF Control, ToHostFrames
<1>5. /\ fr \in Seq(ToHostFrames) /\ \A i \in DOMAIN fr : fr[i].t # "chunk"
      /\ one \in Seq(ToHostFrames) /\ \A i \in DOMAIN one : one[i].t # "chunk"
    BY <1>4 DEF Control
<1>6. none \in Seq(ToHostFrames) /\ \A i \in DOMAIN none : none[i].t # "chunk"
    OBVIOUS
<1>7. d \in Seq(ToHostFrames) /\ \A i \in DOMAIN d : d[i].t # "chunk"
    BY <1>5, <1>6
<1> HIDE DEF fr, one, d, none
<1>8. w \in Seq(ToHostFrames)
    BY <1>3, <1>5, Concats
<1>9. Placed(Had, w, none, accepted)
    BY <1>3, <1>5, PlacedFrames
<1> HIDE DEF w
<1>10. Placed(Had, w \o d, none, accepted)
    BY <1>7, <1>8, <1>9, PlacedFrames
<1>11. ASSUME NEW c \in Callers
       PROVE  Once(Pending'[c]) /\ ChunkIds(Pending'[c]) \subseteq ChunkIds(Pending[c])
  <2>1. Once(Pending[c])
      BY DEF OnePlace, Aside
  <2>2. /\ batch' = [e \in Callers |-> IF call'[e] = NoCall THEN none ELSE batch[e]]
        /\ call' = [e \in Callers |-> IF \E i \in DOMAIN waiters : waiters[i].caller = e
                                      THEN NoCall ELSE call[e]]
      BY DEF End, RejectWriterWaiters, none
  <2>3. Pending[c] = batch[c] \o call[c].todo /\ Pending'[c] = batch'[c] \o call'[c].todo
      BY DEF Pending
  <2>4. call'[c] = NoCall \/ (call'[c] = call[c] /\ batch'[c] = batch[c])
      BY <2>2
  <2>5. CASE call'[c] = NoCall
    <3>1. batch'[c] = none /\ call'[c].todo = none
        BY <2>2, <2>5 DEF NoCall, none
    <3>2. Pending'[c] = none
        BY <2>3, <3>1 DEF none
    <3>3. ChunkIds(none) = {} /\ Once(none)
        BY ChunkIdsEmpty DEF none
    <3>4. QED
        BY <3>2, <3>3
  <2>6. CASE call'[c] = call[c] /\ batch'[c] = batch[c]
    <3>1. Pending'[c] = Pending[c]
        BY <2>3, <2>6
    <3>2. QED
        BY <2>1, <3>1
  <2>7. QED
      BY <2>4, <2>5, <2>6
<1>12. Aside(Pending', accepted', nextId')
  <2> DEFINE u == Pending
             u2 == Pending'
  <2>1. Aside(u, accepted, nextId) /\ \A c \in Callers : Once(u2[c]) /\ ChunkIds(u2[c]) \subseteq ChunkIds(u[c])
      BY <1>11 DEF OnePlace
  <2> HIDE DEF u, u2
  <2>2. Aside(u2, accepted, nextId)
      BY <2>1, AsideLess
  <2>3. QED
      BY <1>1, <2>2 DEF u2
<1>13. Placed(Had', toHost', <<>>, accepted')
    BY <1>1, <1>2, <1>10 DEF none
<1>14. QED
    BY <1>2, <1>12, <1>13 DEF OnePlace

LEMMA HostReceiveOnePlace ==
    ASSUME WorkerLaneInv, OnePlace, HostReceive
    PROVE  OnePlace'
<1> DEFINE f == Head(toHost)
           w == toHost
<1>1. ReaderTypeOK /\ w \in Seq(ToHostFrames)
    BY Parts, PendingType DEF HostOK
<1>2. /\ w # <<>> /\ toHost' = Tail(w)
      /\ ReceiveChunk(f) \/ ReceiveEnd(f) \/ ReceiveDiscard(f)
      /\ UNCHANGED <<writerVars, historyVars>>
    BY DEF HostReceive
<1>3. f \in ToHostFrames
    BY <1>1, <1>2
<1> HIDE DEF f
<1>4. \/ UNCHANGED readerVars
      \/ f \in Chunks /\ PushChunk(f)
      \/ \E kind \in {"close", "error"} : PushEnd(kind)
  <2>1. CASE ReceiveChunk(f)
    <3>1. f \in Chunks
        BY <1>3, <2>1, ReceiveChunkParts DEF ToHostFrames, Chunks
    <3>2. QED
        BY <2>1, <3>1, ReceiveChunkParts
  <2>2. CASE ReceiveEnd(f)
      BY <2>2, ReceiveEndParts
  <2>3. CASE ReceiveDiscard(f)
      BY <2>3, ReceiveDiscardParts
  <2>4. QED
      BY <1>2, <2>1, <2>2, <2>3
<1> DEFINE none == <<>>
<1>5. ReadOnce /\ Placed(Had, w, none, accepted)
    BY DEF OnePlace
<1> HIDE DEF w, none
<1>6. ReadOnce' /\ Placed(Had', Tail(w), none, accepted)
    BY <1>1, <1>2, <1>4, <1>5, ArrivesOnce DEF f, w
<1>7. UNCHANGED <<batch, call, accepted, nextId>>
    BY <1>2 DEF writerVars, creditVars, historyVars
<1>8. QED
    BY <1>2, <1>6, <1>7, WriterStays DEF w, none

LEMMA ReaderOnePlace ==
    ASSUME WorkerLaneInv, OnePlace, CancelReader \/ \E r \in Readers : Read(r)
    PROVE  OnePlace'
<1>1. ReaderTypeOK
    BY Parts DEF HostOK
<1>2. \/ CancelRead
      \/ \E r \in Readers : ReadChunk(r) \/ ReadEnded(r) \/ ReadEnd(r) \/ ReadWait(r)
    BY DEF CancelReader, Read
<1>3. UNCHANGED <<writerVars, historyVars, toHost>>
    BY DEF CancelReader, Read
<1> DEFINE w == toHost
           none == <<>>
<1>4. ReadOnce /\ Placed(Had, w, none, accepted)
    BY DEF OnePlace
<1> HIDE DEF w, none
<1>5. ReadOnce' /\ Placed(Had', w, none, accepted)
    BY <1>1, <1>2, <1>4, TakesOnce
<1>6. toHost' = w /\ UNCHANGED <<batch, call, accepted, nextId>>
    BY <1>3 DEF writerVars, creditVars, historyVars, w
<1>7. QED
    BY <1>5, <1>6, WriterStays DEF none

LEMMA OnePlaceKept ==
    ASSUME OnePlace, UNCHANGED <<readerVars, toHost, batch, call, accepted, nextId>>
    PROVE  OnePlace'
<1>1. ReadOnce' /\ Had' = Had
    BY ReadOnceKept DEF readerVars, OnePlace
<1>2. Placed(Had', toHost', <<>>, accepted)
    BY <1>1 DEF OnePlace
<1>3. QED
    BY <1>1, <1>2, WriterStays

LEMMA OnePlaceStep == WorkerLaneInv /\ OnePlace /\ [Next]_vars => OnePlace'
<1> SUFFICES ASSUME WorkerLaneInv, OnePlace, [Next]_vars
             PROVE  OnePlace'
    OBVIOUS
<1>1. CASE UNCHANGED vars
    BY <1>1, OnePlaceKept DEF vars, writerVars, creditVars, hostVars, historyVars
<1>2. ASSUME NEW c \in Callers, NEW n \in Sizes, Write("write", c, <<n>>) \/ Ready(c, n)
      PROVE  OnePlace'
    BY <1>2, OneSize, WriteOnePlace, ReadyOnePlace
<1>3. ASSUME NEW c \in Callers, NEW sizes \in Batches, Write("writeMany", c, sizes)
      PROVE  OnePlace'
    BY <1>3, BatchSizes, WriteOnePlace
<1>4. CASE Resume
    BY <1>4, ResumeOnePlace
<1>5. ASSUME NEW kind \in {"close", "error", "cancel"}, End(kind)
      PROVE  OnePlace'
    BY <1>5, EndOnePlace
<1>6. CASE WorkerReceive
    BY <1>6, OnePlaceKept DEF WorkerReceive, hostVars, historyVars
<1>7. CASE CreditFlushTick
    BY <1>7, OnePlaceKept DEF CreditFlushTick, writerVars, creditVars, historyVars
<1>8. CASE HostReceive
    BY <1>8, HostReceiveOnePlace
<1>9. CASE CancelReader \/ \E r \in Readers : Read(r)
    BY <1>9, ReaderOnePlace
<1>10. QED
    BY <1>1, <1>2, <1>3, <1>4, <1>5, <1>6, <1>7, <1>8, <1>9 DEF Next

(***************************************************************************)
(* What was read was handed over by the writer, and each chunk once: for   *)
(* any number of callers whose continuations and batches interleave, an    *)
(* end in the middle of them, and a reader that cancels.                   *)
(***************************************************************************)
THEOREM ReadAtMostOnce == Spec => []ReadOnceAndAccepted
<1> DEFINE Inv == WorkerLaneInv /\ OnePlace
<1>1. Init => Inv
    BY InvInit, OnePlaceInit
<1>2. Inv /\ [Next]_vars => Inv'
    BY InvStep, OnePlaceStep
<1>3. Inv => ReadOnceAndAccepted
    BY DEF OnePlace, ReadOnce, Placed, Had, ReadOnceAndAccepted
<1>4. QED
    BY <1>1, <1>2, <1>3, PTL DEF Spec


-----------------------------------------------------------------------------
(***************************************************************************)
(* The lane implements the byte stream when its writer awaits its calls.   *)
(***************************************************************************)

\* A step of the lane is a step of the byte stream or none.
StreamStep == [Stream!Next]_(Stream!vars)

LEMMA Stutters ==
    ASSUME UNCHANGED <<accepted, ended, received>>, told' = told
    PROVE  StreamStep
BY DEF StreamStep, Stream!vars

LEMMA Sends ==
    ASSUME NEW b \in Seq(Chunks), b # <<>>, NEW k \in Nat, k + Len(b) <= MaxChunks,
           \A i \in DOMAIN b : b[i].id = k + i,
           ended = "no", accepted' = accepted \o Ids(b),
           UNCHANGED <<ended, received>>, told' = told
    PROVE  StreamStep
<1> DEFINE m == k + 1
           n == k + Len(b)
<1>1. Len(b) \in Nat \ {0} /\ DOMAIN b = 1 .. Len(b)
    OBVIOUS
<1>2. m \in 1 .. MaxChunks /\ n \in 1 .. MaxChunks /\ m <= n
    BY <1>1, WorkerLaneAssumption
<1>3. Ids(b) = [i \in 1 .. n - m + 1 |-> m + i - 1]
  <2>1. n - m + 1 = Len(b)
      BY <1>1
  <2>2. \A i \in 1 .. Len(b) : b[i].id = m + i - 1
    <3>1. \A i \in Nat : k + i = k + 1 + i - 1
        OBVIOUS
    <3>2. SUFFICES ASSUME NEW i \in 1 .. Len(b) PROVE b[i].id = m + i - 1
        OBVIOUS
    <3>3. i \in Nat /\ i \in DOMAIN b
        BY <1>1
    <3>4. QED
        BY <3>1, <3>3
  <2> HIDE DEF m, n
  <2>3. QED
      BY <1>1, <2>1, <2>2 DEF Ids
<1>4. Stream!SendMany([i \in 1 .. n - m + 1 |-> m + i - 1])
  <2> HIDE DEF m, n
  <2>1. QED
      BY <1>3 DEF Stream!SendMany
<1> HIDE DEF m, n
<1>5. Stream!Next
    BY <1>2, <1>4 DEF Stream!Next
<1>6. QED
    BY <1>5 DEF StreamStep

LEMMA Ends ==
    ASSUME NEW kind \in {"close", "error", "cancel"}, ended = "no", ended' = kind,
           UNCHANGED <<accepted, received>>, told' = told
    PROVE  StreamStep
<1> DEFINE how == IF kind = "cancel" THEN "error" ELSE kind
<1>1. how \in {"close", "error"} /\ Stream!End(how)
    BY DEF Stream!End
<1>2. Stream!Next
    BY <1>1 DEF Stream!Next
<1>3. QED
    BY <1>2 DEF StreamStep

\* A step of the reader is one of the byte stream, while the writer rests.
LEMMA ReaderSteps ==
    ASSUME received \in Seq(Nat), ended \in EndedKinds,
           UNCHANGED <<accepted, ended>>, ReaderStep(accepted, ended)
    PROVE  StreamStep
<1>1. CASE TellsNothing
    BY <1>1, Stutters DEF TellsNothing
<1>2. CASE TakesChunk(accepted)
  <2>1. PICK x \in Nat, t \in Seq(Nat) :
            accepted = received \o (<<x>> \o t) /\ received' = Append(received, x)
      BY <1>2 DEF TakesChunk
  <2>2. Len(received) < Len(accepted) /\ accepted[Len(received) + 1] = x
      BY <2>1, NextOne
  <2>3. Stream!Get
      BY <1>2, <2>1, <2>2 DEF TakesChunk, Stream!Get
  <2>4. QED
      BY <2>3 DEF Stream!Next, StreamStep
<1>3. CASE TakesEnd(accepted, ended)
  <2>1. Stream!SeeEnd
      BY <1>3 DEF TakesEnd, Stream!SeeEnd, EndedKinds
  <2>2. QED
      BY <2>1 DEF Stream!Next, StreamStep
<1>4. QED
    BY <1>1, <1>2, <1>3 DEF ReaderStep

-----------------------------------------------------------------------------
(***************************************************************************)
(* What a caller has gathered and what it still sends are the chunks of    *)
(* one call, numbered in a row.  Once the stream has ended nobody sends.   *)
(***************************************************************************)
Turn(k, b, t) ==
    /\ k + Len(b) + Len(t) <= MaxChunks
    /\ \A i \in DOMAIN b : b[i].id = k + i
    /\ \A i \in DOMAIN t : t[i].id = k + Len(b) + i
    /\ t = <<>> => b = <<>>

InTurn(b, t) == \E k \in Nat : Turn(k, b, t)

WriterTurns ==
    /\ nextId # 0
    /\ \A c \in Callers : InTurn(batch[c], call[c].todo)
    /\ ended # "no" => \A c \in Callers : call[c] = NoCall

LEMMA EmptyTurn == InTurn(<<>>, <<>>)
<1> DEFINE none == <<>>
<1>1. Len(none) = 0 /\ DOMAIN none = {}
    OBVIOUS
<1>2. MaxChunks \in Nat /\ none = <<>>
    BY WorkerLaneAssumption
<1> HIDE DEF none
<1>3. Turn(0, none, none)
    BY <1>1, <1>2 DEF Turn
<1>4. QED
    BY <1>2, <1>3 DEF InTurn

\* The next chunk of a call joins the batch.
LEMMA TurnGoesOn ==
    ASSUME NEW k \in Nat, NEW b \in Seq(Chunks), NEW t \in Seq(Chunks), t # <<>>, Turn(k, b, t)
    PROVE  LET bb == Append(b, Head(t))
           IN  /\ bb \in Seq(Chunks) /\ bb # <<>> /\ Len(bb) \in Nat
               /\ \A i \in DOMAIN bb : bb[i].id = k + i
               /\ k + Len(bb) <= MaxChunks
               /\ Len(t) > 1 => Turn(k, bb, Tail(t))
               /\ Turn(k + Len(bb), <<>>, Tail(t))
<1> DEFINE bb == Append(b, Head(t))
           rest == Tail(t)
           none == <<>>
<1>1. /\ bb \in Seq(Chunks) /\ bb # <<>> /\ Len(bb) = Len(b) + 1
      /\ Len(b) \in Nat /\ Len(t) \in Nat \ {0}
      /\ rest \in Seq(Chunks) /\ Len(rest) = Len(t) - 1 /\ DOMAIN rest = 1 .. Len(rest)
      /\ Len(none) = 0 /\ DOMAIN none = {}
    OBVIOUS
<1>2. /\ \A i \in DOMAIN bb : i \in DOMAIN b \/ i = Len(b) + 1
      /\ \A i \in DOMAIN b : bb[i] = b[i]
      /\ bb[Len(b) + 1] = t[1] /\ 1 \in DOMAIN t
      /\ \A i \in DOMAIN rest : i \in Nat /\ i + 1 \in DOMAIN t /\ rest[i] = t[i + 1]
    BY AppendElements, TailElements
<1> HIDE DEF bb, rest
<1>3. MaxChunks \in Nat /\ k + Len(b) + Len(t) <= MaxChunks
    BY WorkerLaneAssumption DEF Turn
<1>4. ASSUME NEW i \in DOMAIN bb PROVE bb[i].id = k + i
  <2>1. CASE i \in DOMAIN b
      BY <1>2, <2>1 DEF Turn
  <2>2. CASE i = Len(b) + 1
    <3>1. t[1].id = k + Len(b) + 1
        BY <1>2 DEF Turn
    <3>2. QED
        BY <1>1, <1>2, <2>2, <3>1
  <2>3. QED
      BY <1>2, <2>1, <2>2
<1>5. ASSUME NEW i \in DOMAIN rest PROVE rest[i].id = k + Len(bb) + i
  <2>1. t[i + 1].id = k + Len(b) + (i + 1)
      BY <1>2 DEF Turn
  <2>2. QED
      BY <1>1, <1>2, <2>1
<1>6. k + Len(bb) <= MaxChunks /\ k + Len(bb) + Len(rest) <= MaxChunks
    BY <1>1, <1>3
<1>7. Len(t) > 1 => rest # <<>>
  <2>1. rest = none => Len(rest) = 0
      BY <1>1
  <2>2. QED
      BY <1>1, <2>1
<1>8. Len(t) > 1 => Turn(k, bb, rest)
    BY <1>4, <1>5, <1>6, <1>7 DEF Turn
<1>9. Turn(k + Len(bb), none, rest)
  <2>1. k + Len(bb) + Len(none) + Len(rest) <= MaxChunks
      BY <1>1, <1>6
  <2>2. \A i \in DOMAIN rest : rest[i].id = k + Len(bb) + Len(none) + i
      BY <1>1, <1>5
  <2> HIDE DEF none
  <2>3. QED
      BY <1>1, <2>1, <2>2 DEF Turn, none
<1>10. QED
    BY <1>1, <1>4, <1>6, <1>8, <1>9 DEF bb, rest

LEMMA TurnsInit == Init => WriterTurns
BY EmptyTurn DEF Init, CreditInit, NoBatch, NoCall, WriterTurns

LEMMA TurnsUnchanged ==
    ASSUME WriterTurns, UNCHANGED <<ended, batch, call, nextId>>
    PROVE  WriterTurns'
BY DEF WriterTurns, InTurn, Turn

LEMMA IdleTurn ==
    ASSUME WriterTurns, NEW c \in Callers, call[c] = NoCall
    PROVE  batch[c] = <<>>
<1>1. call[c].todo = <<>>
    BY DEF NoCall
<1>2. PICK k \in Nat : Turn(k, batch[c], call[c].todo)
    BY DEF WriterTurns, InTurn
<1>3. QED
    BY <1>1, <1>2 DEF Turn

LEMMA WriteTurns ==
    ASSUME WorkerLaneInv, WriterTurns, NEW op, NEW c \in Callers,
           NEW sizes \in Seq(Sizes), sizes # <<>>, Write(op, c, sizes)
    PROVE  WriterTurns'
<1> DEFINE chunks == [i \in DOMAIN sizes |-> Chunk(nextId + i - 1, sizes[i])]
           none == <<>>
<1>1. CreditTypeOK /\ WriterOK
    BY Parts
<1>2. /\ ended = "no" /\ call[c] = NoCall /\ nextId + Len(sizes) <= MaxChunks + 1
      /\ nextId' = nextId + Len(sizes) /\ UNCHANGED <<ended, batch>>
      /\ call' = [call EXCEPT ![c] = [need |-> sizes[1], todo |-> chunks]]
    BY DEF Write, MayCall, outsideWriter, Block
<1>3. nextId \in Nat \ {0} /\ Len(sizes) \in Nat \ {0} /\ DOMAIN sizes = 1 .. Len(sizes)
    BY <1>1 DEF WriterOK, WriterTurns
<1>4. batch[c] = none
    BY <1>2, IdleTurn
<1>5. /\ Len(chunks) = Len(sizes) /\ DOMAIN chunks = 1 .. Len(sizes) /\ chunks # <<>>
      /\ \A i \in DOMAIN chunks : chunks[i].id = nextId + i - 1
    BY <1>3 DEF Chunk
<1> HIDE DEF chunks
<1>6. Turn(nextId - 1, none, chunks)
  <2> DEFINE k == nextId - 1
  <2>1. k \in Nat /\ Len(none) = 0 /\ DOMAIN none = {} /\ MaxChunks \in Nat
      BY <1>3, WorkerLaneAssumption
  <2>2. k + Len(none) + Len(chunks) <= MaxChunks
      BY <1>2, <1>3, <1>5, <2>1
  <2>3. ASSUME NEW i \in DOMAIN chunks
        PROVE  chunks[i].id = k + Len(none) + i
    <3>1. i \in Nat
        BY <1>5
    <3>2. QED
        BY <1>3, <1>5, <2>1, <3>1
  <2> HIDE DEF k, none
  <2>4. Turn(k, none, chunks)
      BY <1>5, <2>1, <2>2, <2>3 DEF Turn
  <2>5. QED
      BY <2>4 DEF k
<1>7. InTurn(none, chunks)
    BY <1>3, <1>6 DEF InTurn
<1>8. call \in [Callers -> CallRecords]
    BY <1>1, CreditParts
<1>9. ASSUME NEW d \in Callers
      PROVE  InTurn(batch'[d], call'[d].todo)
  <2>1. CASE d = c
      BY <1>2, <1>4, <1>7, <1>8, <2>1
  <2>2. CASE d # c
      BY <1>2, <1>8, <2>2 DEF WriterTurns
  <2>3. QED
      BY <2>1, <2>2
<1>10. nextId' # 0 /\ ended' = "no"
    BY <1>2, <1>3
<1>11. QED
    BY <1>9, <1>10 DEF WriterTurns

LEMMA ReadyTurns ==
    ASSUME WorkerLaneInv, WriterTurns, NEW c \in Callers, NEW n \in Sizes, Ready(c, n)
    PROVE  WriterTurns'
<1>1. /\ ended = "no" /\ call[c] = NoCall /\ UNCHANGED <<nextId, ended, batch>>
      /\ call' = [call EXCEPT ![c] = [need |-> n, todo |-> <<>>]]
    BY DEF Ready, MayCall, outsideWriter, historyVars, Block
<1>2. call \in [Callers -> CallRecords]
    BY Parts, CreditParts
<1>3. batch[c] = <<>>
    BY <1>1, IdleTurn
<1>4. ASSUME NEW d \in Callers
      PROVE  InTurn(batch'[d], call'[d].todo)
  <2>1. CASE d = c
      BY <1>1, <1>2, <1>3, <2>1, EmptyTurn
  <2>2. CASE d # c
      BY <1>1, <1>2, <2>2 DEF WriterTurns
  <2>3. QED
      BY <2>1, <2>2
<1>5. QED
    BY <1>1, <1>4 DEF WriterTurns

\* The calls and batches of the others are left alone.
LEMMA ResumeTurns ==
    ASSUME WorkerLaneInv, WriterTurns, Resume
    PROVE  WriterTurns'
<1> DEFINE c == Head(jobs).caller
           todo == call[c].todo
           b == Append(batch[c], Head(todo))
           none == <<>>
<1>1. CreditTypeOK /\ WriterOK
    BY Parts
<1>2. /\ jobs # <<>> /\ c \in Callers /\ todo \in Seq(Chunks)
      /\ todo # <<>> => b \in Seq(Chunks) /\ Head(todo) \in Chunks
      /\ Continues(c, todo, b)
      /\ UNCHANGED outsideWriter /\ nextId' = nextId
    BY <1>1, Continuing
<1>3. call \in [Callers -> CallRecords] /\ batch \in [Callers -> Seq(Chunks)]
    BY <1>1, CreditParts DEF WriterOK
<1>4. ended' = ended
    BY <1>2 DEF outsideWriter
<1>5. PICK k \in Nat : Turn(k, batch[c], todo)
    BY <1>2 DEF WriterTurns, InTurn
<1>6. todo = <<>> => batch[c] = <<>>
    BY <1>5 DEF Turn
<1>7. todo # <<>> => /\ Len(b) \in Nat
                     /\ Len(todo) > 1 => Turn(k, b, Tail(todo))
                     /\ Turn(k + Len(b), none, Tail(todo))
    BY <1>2, <1>3, <1>5, TurnGoesOn
<1>8. (ended # "no") => call[c] = NoCall
    BY <1>2 DEF WriterTurns
<1>9. (ended # "no") => todo = <<>>
    BY <1>8 DEF NoCall
<1>10. \A d \in Callers : InTurn(batch[d], call[d].todo)
    BY DEF WriterTurns
<1> HIDE DEF c, todo, b
<1>11. ASSUME NEW d \in Callers
       PROVE  /\ InTurn(batch'[d], call'[d].todo)
              /\ ended # "no" => call'[d] = NoCall
  <2>1. CASE todo = <<>>
    <3>1. Settle(c) /\ batch' = batch
        BY <1>2, <2>1 DEF Continues
    <3>2. call'[c] = NoCall /\ (d # c => call'[d] = call[d])
        BY <1>2, <1>3, <3>1 DEF Settle
    <3>3. d = c => batch'[d] = <<>> /\ call'[d].todo = <<>>
        BY <1>6, <2>1, <3>1, <3>2 DEF NoCall
    <3>4. QED
        BY <1>10, <3>1, <3>2, <3>3, EmptyTurn DEF WriterTurns
  <2>2. CASE todo # <<>>
    <3>1. ended = "no"
        BY <1>9, <2>2
    <3>2. /\ batch' = [batch EXCEPT ![c] = none] \/ (batch' = [batch EXCEPT ![c] = b] /\ Len(todo) > 1)
          /\ \/ Len(todo) = 1 /\ call' = [call EXCEPT ![c] = NoCall]
             \/ /\ Len(todo) > 1
                /\ call' = [call EXCEPT ![c] = [need |-> todo[2].bytes, todo |-> Tail(todo)]]
        BY <1>2, <2>2 DEF Continues, PostBatch, Gather, Settle
    <3>3. d # c => batch'[d] = batch[d] /\ call'[d] = call[d]
        BY <1>3, <3>2
    <3>4. d = c => InTurn(batch'[d], call'[d].todo)
      <4>1. CASE batch' = [batch EXCEPT ![c] = b] /\ Len(todo) > 1
        <5>1. call' = [call EXCEPT ![c] = [need |-> todo[2].bytes, todo |-> Tail(todo)]]
            BY <3>2, <4>1
        <5>2. call'[c].todo = Tail(todo)
            BY <1>2, <1>3, <5>1
        <5>3. batch'[c] = b
            BY <1>2, <1>3, <4>1
        <5>4. Turn(k, b, Tail(todo))
            BY <1>7, <2>2, <4>1
        <5>5. QED
            BY <5>2, <5>3, <5>4 DEF InTurn
      <4>2. CASE batch' = [batch EXCEPT ![c] = none]
        <5>1. batch'[c] = <<>>
            BY <1>2, <1>3, <4>2
        <5>2. CASE Len(todo) = 1
          <6>1. call'[c].todo = <<>>
              BY <1>2, <1>3, <3>2, <5>2 DEF NoCall
          <6>2. QED
              BY <5>1, <6>1, EmptyTurn
        <5>3. CASE Len(todo) > 1
          <6>1. call'[c].todo = Tail(todo)
            <7>1. Len(todo) # 1
              <8>1. \A n : n > 1 => n # 1
                  OBVIOUS
              <8>2. QED
                  BY <5>3, <8>1, Zenon
            <7>2. call' = [call EXCEPT ![c] = [need |-> todo[2].bytes, todo |-> Tail(todo)]]
                BY <3>2, <7>1
            <7>3. QED
                BY <1>2, <1>3, <7>2
          <6>2. k + Len(b) \in Nat /\ Turn(k + Len(b), <<>>, Tail(todo))
              BY <1>7, <2>2
          <6>3. QED
              BY <5>1, <6>1, <6>2 DEF InTurn
        <5>4. QED
            BY <3>2, <5>2, <5>3
      <4>3. QED
          BY <3>2, <4>1, <4>2
    <3>5. QED
        BY <1>10, <3>1, <3>3, <3>4
  <2>3. QED
      BY <2>1, <2>2
<1>12. nextId' # 0
    BY <1>2 DEF WriterTurns
<1>13. QED
    BY <1>4, <1>11, <1>12 DEF WriterTurns

LEMMA EndTurns ==
    ASSUME AwaitsCalls, WriterTurns, NEW kind \in {"close", "error", "cancel"}, End(kind)
    PROVE  WriterTurns'
<1>1. /\ \A c \in Callers : call[c] = NoCall
      /\ nextId' = nextId
      /\ call' = [c \in Callers |-> IF \E i \in DOMAIN waiters : waiters[i].caller = c
                                    THEN NoCall ELSE call[c]]
      /\ batch' = [c \in Callers |-> IF call'[c] = NoCall THEN <<>> ELSE batch[c]]
    BY DEF End, RejectWriterWaiters, historyVars
<1>2. \A c \in Callers : call'[c] = NoCall
    BY <1>1
<1>3. \A c \in Callers : batch'[c] = <<>> /\ call'[c].todo = <<>>
    BY <1>1, <1>2 DEF NoCall
<1>4. QED
    BY <1>1, <1>2, <1>3, EmptyTurn DEF WriterTurns

-----------------------------------------------------------------------------
(***************************************************************************)
(* The chunks that were posted and not read: Flow, of the frames to the    *)
(* host.                                                                   *)
(***************************************************************************)
LaneFlow == \E fr, acc, e : fr = toHost /\ acc = accepted /\ e = ended /\ Flow(fr, acc, e)

Marks == EndedWhenClosed /\ LocalWhenClosed

LEMMA FlowStays ==
    ASSUME LaneFlow, UNCHANGED <<readerVars, accepted, ended, toHost>>
    PROVE  LaneFlow' /\ StreamStep
<1>1. PICK fr, acc, e : fr = toHost /\ acc = accepted /\ e = ended /\ Flow(fr, acc, e)
    BY DEF LaneFlow
<1>2. Flow(fr, acc, e)' /\ TellsNothing
    BY <1>1, FlowKept
<1>3. LaneFlow'
    BY <1>1, <1>2 DEF LaneFlow
<1>4. QED
    BY <1>2, <1>3, Stutters DEF TellsNothing

LEMMA PostFlow ==
    ASSUME EndedWhenClosed, received \in Seq(Nat), LaneFlow, ended = "no",
           NEW c, NEW b \in Seq(Chunks), PostBatch(c, b), UNCHANGED <<readerVars, ended>>
    PROVE  LaneFlow' /\ accepted' = accepted \o Ids(b)
<1>1. PICK fr, acc, e : fr = toHost /\ acc = accepted /\ e = ended /\ Flow(fr, acc, e)
    BY DEF LaneFlow
<1>2. toHost' = fr \o b /\ accepted' = acc \o Ids(b)
    BY <1>1 DEF PostBatch, Ids
<1>3. PICK fr2, acc2 : fr2 = fr \o b /\ acc2 = acc \o Ids(b)
    OBVIOUS
<1>4. Flow(fr2, acc2, "no")'
    BY <1>1, <1>3, FlowPosts
<1>5. LaneFlow'
    BY <1>2, <1>3, <1>4 DEF LaneFlow
<1>6. QED
    BY <1>1, <1>2, <1>5

LEMMA EndFlow ==
    ASSUME WorkerLaneInv, LaneFlow, NEW kind \in {"close", "error", "cancel"}, End(kind)
    PROVE  LaneFlow' /\ StreamStep
<1> DEFINE k == <<Control(kind)>>
           d == IF workerMeta.local THEN <<>> ELSE <<Control("discard")>>
<1>1. /\ UNCHANGED readerVars /\ received' = received /\ told' = told
      /\ ended = "no" /\ ended' = kind /\ accepted' = accepted
      /\ toHost' = (toHost \o k) \o d
    BY DEF End, hostVars, readerVars, historyVars
<1>2. StreamStep
    BY <1>1, Ends
<1>3. PICK fr, acc, e : fr = toHost /\ acc = accepted /\ e = ended /\ Flow(fr, acc, e)
    BY DEF LaneFlow
<1>4. k \o d \in Behind(kind)
  <2>1. k \o d \in {<<Control(kind)>>, <<Control(kind), Control("discard")>>}
    <3>1. <<Control(kind)>> \o <<>> = <<Control(kind)>>
        OBVIOUS
    <3>2. <<Control(kind)>> \o <<Control("discard")>> = <<Control(kind), Control("discard")>>
        BY TwoInARow
    <3>3. QED
        BY <3>1, <3>2
  <2> HIDE DEF k, d
  <2>2. QED
      BY <2>1 DEF Behind
<1>5. toHost' = toHost \o (k \o d)
  <2>1. Control(kind) \in ToHostFrames /\ Control("discard") \in ToHostFrames
      BY FrameKinds
  <2>2. toHost \in Seq(ToHostFrames) /\ k \in Seq(ToHostFrames) /\ d \in Seq(ToHostFrames)
      BY <2>1, Parts DEF WriterOK
  <2> HIDE DEF k, d
  <2>3. QED
      BY <1>1, <2>2, Concats
<1> HIDE DEF k, d
<1>6. PICK end \in Behind(kind) : end = k \o d
    BY <1>4
<1>7. PICK fr2 : fr2 = fr \o end
    OBVIOUS
<1>8. Flow(fr2, acc, kind)'
    BY <1>1, <1>3, <1>7, FlowEnds DEF EndedKinds
<1>9. LaneFlow'
    BY <1>1, <1>3, <1>5, <1>6, <1>7, <1>8 DEF LaneFlow
<1>10. QED
    BY <1>2, <1>9

LEMMA ReceiveFlow ==
    ASSUME WorkerLaneInv, LaneFlow, Marks, HostReceive
    PROVE  LaneFlow' /\ StreamStep
<1>1. PICK fr, acc, e : fr = toHost /\ acc = accepted /\ e = ended /\ Flow(fr, acc, e)
    BY DEF LaneFlow
<1>2. /\ ReaderTypeOK /\ EndedWhenClosed /\ e \in EndedKinds /\ received \in Seq(Nat)
      /\ fr # <<>> /\ toHost' = Tail(fr) /\ accepted' = accepted /\ ended' = ended
    BY <1>1, Parts DEF HostReceive, HostOK, WriterOK, ReaderTypeOK, Marks, writerVars, historyVars
<1>3. \/ Head(fr).t = "chunk" /\ PushChunk(Head(fr))
      \/ /\ Head(fr).t \in {"close", "error", "cancel"}
         /\ PushEnd(IF Head(fr).t = "close" THEN "close" ELSE "error")
      \/ UNCHANGED readerVars /\ (reader.closed \/ Head(fr).t = "discard")
  <2>1. Released(hostMeta) => reader.closed
      BY DEF Released, Gone, Marks, LocalWhenClosed
  <2>2. CASE ReceiveChunk(Head(fr))
      BY <2>1, <2>2 DEF ReceiveChunk
  <2>3. CASE ReceiveEnd(Head(fr))
      BY <2>1, <2>3 DEF ReceiveEnd, hostVars
  <2>4. CASE ReceiveDiscard(Head(fr))
      BY <2>4 DEF ReceiveDiscard
  <2>5. QED
      BY <1>1, <2>2, <2>3, <2>4 DEF HostReceive
<1>4. PICK fr2 : fr2 = Tail(fr)
    OBVIOUS
<1>5. Flow(fr2, acc, e)' /\ ReaderStep(acc, e)
    BY <1>1, <1>2, <1>3, <1>4, FlowArrives
<1>6. LaneFlow'
    BY <1>1, <1>2, <1>4, <1>5 DEF LaneFlow
<1>7. ReaderStep(accepted, ended)
    BY <1>1, <1>5
<1>8. QED
    BY <1>1, <1>2, <1>6, <1>7, ReaderSteps

LEMMA ReadFlow ==
    ASSUME WorkerLaneInv, LaneFlow, Marks, UNCHANGED <<accepted, ended, toHost>>,
           CancelRead \/ \E r \in Readers : ReadChunk(r) \/ ReadEnd(r) \/ ReadEnded(r) \/ ReadWait(r)
    PROVE  LaneFlow' /\ StreamStep
<1>1. PICK fr, acc, e : fr = toHost /\ acc = accepted /\ e = ended /\ Flow(fr, acc, e)
    BY DEF LaneFlow
<1>2. ReaderTypeOK /\ EndedWhenClosed /\ ended \in EndedKinds /\ received \in Seq(Nat)
    BY Parts DEF HostOK, WriterOK, ReaderTypeOK, Marks
<1>3. Flow(fr, acc, e)' /\ ReaderStep(acc, e)
    BY <1>1, <1>2, FlowReads, FlowCancelled
<1>4. LaneFlow'
    BY <1>1, <1>3 DEF LaneFlow
<1>5. ReaderStep(accepted, ended)
    BY <1>1, <1>3
<1>6. QED
    BY <1>2, <1>4, <1>5, ReaderSteps

\* A resumed call posts its batch, or posts nothing.
LEMMA ResumeFlow ==
    ASSUME WorkerLaneInv, WriterTurns, LaneFlow, Marks, Resume
    PROVE  LaneFlow' /\ StreamStep
<1> DEFINE c == Head(jobs).caller
           todo == call[c].todo
           b == Append(batch[c], Head(todo))
<1>1. CreditTypeOK /\ WriterOK /\ received \in Seq(Nat)
    BY Parts DEF HostOK, ReaderTypeOK
<1>2. /\ c \in Callers /\ todo \in Seq(Chunks)
      /\ todo # <<>> => b \in Seq(Chunks) /\ Head(todo) \in Chunks
      /\ Continues(c, todo, b)
      /\ UNCHANGED outsideWriter
    BY <1>1, Continuing
<1>3. batch[c] \in Seq(Chunks)
    BY <1>1, <1>2 DEF WriterOK
<1>4. UNCHANGED readerVars /\ ended' = ended
    BY <1>2 DEF outsideWriter, hostVars
<1>5. PICK k \in Nat : Turn(k, batch[c], todo)
    BY <1>2 DEF WriterTurns, InTurn
<1>6. todo # <<>> => /\ b # <<>> /\ k + Len(b) <= MaxChunks
                     /\ \A i \in DOMAIN b : b[i].id = k + i
  <2>1. SUFFICES ASSUME todo # <<>>
                 PROVE  /\ b # <<>> /\ k + Len(b) <= MaxChunks
                        /\ \A i \in DOMAIN b : b[i].id = k + i
      OBVIOUS
  <2> HIDE DEF todo
  <2>2. QED
      BY <1>2, <1>3, <1>5, <2>1, TurnGoesOn DEF b
<1>7. todo # <<>> => ended = "no"
    BY <1>2 DEF WriterTurns, NoCall
<1> HIDE DEF c, todo, b
<1>8. CASE UNCHANGED <<toHost, accepted>>
    BY <1>4, <1>8, FlowStays
<1>9. CASE todo # <<>> /\ PostBatch(c, b)
  <2>1. ended = "no" /\ b \in Seq(Chunks) /\ EndedWhenClosed
      BY <1>2, <1>7, <1>9 DEF Marks
  <2>2. LaneFlow' /\ accepted' = accepted \o Ids(b)
      BY <1>1, <1>4, <1>9, <2>1, PostFlow
  <2>3. received' = received /\ told' = told
      BY <1>4 DEF readerVars
  <2>4. StreamStep
      BY <1>4, <1>6, <1>9, <2>1, <2>2, <2>3, Sends
  <2>5. QED
      BY <2>2, <2>4
<1>10. UNCHANGED <<toHost, accepted>> \/ (todo # <<>> /\ PostBatch(c, b))
    BY <1>2 DEF Continues, Gather
<1>11. QED
    BY <1>8, <1>9, <1>10

-----------------------------------------------------------------------------
LEMMA MarksReceive ==
    ASSUME WorkerLaneInv, Marks, HostReceive
    PROVE  Marks'
<1> DEFINE f == Head(toHost)
<1>1. ReaderTypeOK /\ hostMeta \in Metas /\ toHost # <<>> /\ f \in ToHostFrames
    BY Parts DEF HostReceive, HostOK, WriterOK
<1>2. CASE ReceiveChunk(f)
  <2>1. hostMeta' = hostMeta /\ (UNCHANGED readerVars \/ PushChunk(f)) /\ f \in Chunks
      BY <1>1, <1>2, ReceiveChunkParts DEF ToHostFrames, Chunks
  <2>2. CASE UNCHANGED readerVars
      BY <2>1, <2>2, EndedUnchanged DEF Marks, LocalWhenClosed, readerVars
  <2>3. CASE PushChunk(f)
    <3>1. reader'.closed = reader.closed
        BY <1>1, <2>3 DEF PushChunk, readerVars, ReaderTypeOK, ReaderRecords
    <3>2. QED
        BY <1>1, <2>1, <2>3, <3>1, EndedPushChunk DEF Marks, LocalWhenClosed
  <2>4. QED
      BY <2>1, <2>2, <2>3
<1>3. CASE ReceiveEnd(f)
  <2>1. CASE UNCHANGED <<readerVars, hostMeta, unflushed, toWorker, fullVars>>
    <3>1. UNCHANGED <<reader, hostMeta>>
        BY <2>1 DEF readerVars
    <3>2. QED
        BY <3>1, EndedUnchanged DEF Marks, LocalWhenClosed
  <2>2. CASE PushEnd("close") \/ PushEnd("error")
      BY <1>1, <2>2, EndedOnceClosed DEF Marks, LocalWhenClosed
  <2>3. QED
      BY <1>3, <2>1, <2>2, ReceiveEndParts
<1>4. CASE ReceiveDiscard(f)
  <2>1. UNCHANGED reader /\ hostMeta' = MarkRemote(hostMeta)
      BY <1>4, ReceiveDiscardParts DEF readerVars
  <2>2. hostMeta'.local = hostMeta.local
      BY <1>1, <2>1 DEF MarkRemote, Metas
  <2>3. QED
      BY <2>1, <2>2, EndedUnchanged DEF Marks, LocalWhenClosed
<1>5. QED
    BY <1>2, <1>3, <1>4 DEF HostReceive

LEMMA MarksRead ==
    ASSUME WorkerLaneInv, Marks, NEW r \in Readers, Read(r)
    PROVE  Marks'
<1>1. ReaderTypeOK /\ hostMeta' = hostMeta
    BY Parts DEF HostOK, Read
<1>2. ReadChunk(r) \/ ReadEnded(r) \/ ReadEnd(r) \/ ReadWait(r)
    BY DEF Read
<1>3. reader'.closed = reader.closed
    BY <1>1, <1>2 DEF ReadChunk, ReadEnded, ReadEnd, ReadWait, ReaderTypeOK, ReaderRecords
<1>4. QED
    BY <1>1, <1>2, <1>3, EndedRead DEF Marks, LocalWhenClosed

LEMMA MarksKept ==
    ASSUME Marks, UNCHANGED <<reader, hostMeta>>
    PROVE  Marks'
BY EndedUnchanged DEF Marks, LocalWhenClosed

-----------------------------------------------------------------------------
(***************************************************************************)
(* The invariant under which every step of the lane is a step of the byte  *)
(* stream, and the theorem.                                                *)
(***************************************************************************)
StreamInv == WorkerLaneInv /\ WriterTurns /\ Marks /\ LaneFlow

LEMMA StreamInvInit == Init => StreamInv /\ Stream!Init
<1>1. SUFFICES ASSUME Init PROVE StreamInv /\ Stream!Init
    OBVIOUS
<1> DEFINE none == <<>>
<1>2. /\ ReaderInit /\ toHost = none /\ accepted = none /\ received = none /\ ended = "no"
      /\ ~hostMeta.local
    BY <1>1 DEF Init, ReaderInit, Fresh
<1>3. EndedWhenClosed /\ Flow(none, none, "no") /\ told = "no"
    BY <1>2, FlowInit
<1>4. WorkerLaneInv /\ WriterTurns /\ Marks
    BY <1>1, <1>2, <1>3, InvInit, TurnsInit DEF Marks, LocalWhenClosed
<1>5. Stream!Init
    BY <1>2, <1>3 DEF Stream!Init
<1> HIDE DEF none
<1>6. LaneFlow
    BY <1>2, <1>3 DEF LaneFlow
<1>7. QED
    BY <1>4, <1>5, <1>6 DEF StreamInv

\* A step that leaves the reader, what was posted and the frames to the host.
LEMMA Elsewhere ==
    ASSUME StreamInv, UNCHANGED <<readerVars, hostMeta, accepted, ended, toHost>>
    PROVE  Marks' /\ LaneFlow' /\ StreamStep
<1>1. UNCHANGED <<reader, hostMeta>>
    BY DEF readerVars
<1>2. QED
    BY <1>1, MarksKept, FlowStays DEF StreamInv

LEMMA StreamInvStep ==
    ASSUME AwaitsCalls
    PROVE  StreamInv /\ [Next]_vars => StreamInv' /\ StreamStep
<1>1. SUFFICES ASSUME StreamInv, [Next]_vars PROVE StreamInv' /\ StreamStep
    OBVIOUS
<1>2. WorkerLaneInv /\ WriterTurns /\ Marks /\ LaneFlow
    BY <1>1 DEF StreamInv
<1>3. WorkerLaneInv'
    BY <1>1, <1>2, InvStep
<1>4. SUFFICES WriterTurns' /\ Marks' /\ LaneFlow' /\ StreamStep
    BY <1>3 DEF StreamInv
<1>5. CASE UNCHANGED vars
  <2>1. /\ UNCHANGED <<ended, batch, call, nextId>>
        /\ UNCHANGED <<readerVars, hostMeta, accepted, ended, toHost>>
      BY <1>5 DEF vars, writerVars, creditVars, hostVars, historyVars
  <2>2. QED
      BY <1>1, <1>2, <2>1, TurnsUnchanged, Elsewhere
<1>6. ASSUME NEW c \in Callers, NEW n \in Sizes, Write("write", c, <<n>>) \/ Ready(c, n)
      PROVE  WriterTurns' /\ Marks' /\ LaneFlow' /\ StreamStep
  <2>1. UNCHANGED <<readerVars, hostMeta, accepted, ended, toHost>>
      BY <1>6 DEF Write, Ready, outsideWriter, hostVars, historyVars
  <2>2. WriterTurns'
      BY <1>2, <1>6, OneSize, WriteTurns, ReadyTurns
  <2>3. QED
      BY <1>1, <2>1, <2>2, Elsewhere
<1>7. ASSUME NEW c \in Callers, NEW sizes \in Batches, Write("writeMany", c, sizes)
      PROVE  WriterTurns' /\ Marks' /\ LaneFlow' /\ StreamStep
  <2>1. UNCHANGED <<readerVars, hostMeta, accepted, ended, toHost>>
      BY <1>7 DEF Write, outsideWriter, hostVars
  <2>2. WriterTurns'
      BY <1>2, <1>7, BatchSizes, WriteTurns
  <2>3. QED
      BY <1>1, <2>1, <2>2, Elsewhere
<1>8. CASE Resume
  <2>1. CreditTypeOK /\ WriterOK
      BY <1>2, Parts
  <2>2. UNCHANGED <<reader, hostMeta>>
      BY <1>8, <2>1, Continuing DEF outsideWriter, hostVars, readerVars
  <2>3. QED
      BY <1>2, <1>8, <2>2, ResumeTurns, MarksKept, ResumeFlow
<1>9. ASSUME NEW kind \in {"close", "error", "cancel"}, End(kind)
      PROVE  WriterTurns' /\ Marks' /\ LaneFlow' /\ StreamStep
  <2>1. UNCHANGED <<reader, hostMeta>>
      BY <1>9 DEF End, hostVars, readerVars
  <2>2. QED
      BY <1>2, <1>9, <2>1, EndTurns, MarksKept, EndFlow
<1>10. CASE WorkerReceive
  <2>1. /\ UNCHANGED <<ended, batch, call, nextId>>
        /\ UNCHANGED <<readerVars, hostMeta, accepted, ended, toHost>>
      BY <1>10 DEF WorkerReceive, hostVars, historyVars
  <2>2. QED
      BY <1>1, <1>2, <2>1, TurnsUnchanged, Elsewhere
<1>11. CASE CreditFlushTick
  <2>1. /\ UNCHANGED <<ended, batch, call, nextId>>
        /\ UNCHANGED <<readerVars, hostMeta, accepted, ended, toHost>>
      BY <1>11 DEF CreditFlushTick, writerVars, creditVars, historyVars
  <2>2. QED
      BY <1>1, <1>2, <2>1, TurnsUnchanged, Elsewhere
<1>12. CASE HostReceive
  <2>1. UNCHANGED <<ended, batch, call, nextId>>
      BY <1>12 DEF HostReceive, writerVars, creditVars, historyVars
  <2>2. QED
      BY <1>2, <1>12, <2>1, TurnsUnchanged, MarksReceive, ReceiveFlow
<1>13. ASSUME NEW r \in Readers, Read(r)
       PROVE  WriterTurns' /\ Marks' /\ LaneFlow' /\ StreamStep
  <2>1. /\ UNCHANGED <<ended, batch, call, nextId>>
        /\ UNCHANGED <<accepted, ended, toHost>>
        /\ ReadChunk(r) \/ ReadEnded(r) \/ ReadEnd(r) \/ ReadWait(r)
      BY <1>13 DEF Read, writerVars, creditVars, historyVars
  <2>2. LaneFlow' /\ StreamStep
      BY <1>2, <2>1, ReadFlow
  <2>3. QED
      BY <1>2, <1>13, <2>1, <2>2, TurnsUnchanged, MarksRead
<1>14. CASE CancelReader
  <2>1. /\ UNCHANGED <<ended, batch, call, nextId>>
        /\ UNCHANGED <<accepted, ended, toHost>> /\ CancelRead
      BY <1>14 DEF CancelReader, writerVars, creditVars, historyVars
  <2>2. Marks'
    <3>1. ReaderTypeOK
        BY <1>2, Parts DEF HostOK
    <3>2. QED
        BY <1>2, <2>1, <3>1, EndedOnceClosed DEF Marks, LocalWhenClosed
  <2>3. QED
      BY <1>2, <2>1, <2>2, TurnsUnchanged, ReadFlow
<1>15. QED
    BY <1>1, <1>5, <1>6, <1>7, <1>8, <1>9, <1>10, <1>11, <1>12, <1>13, <1>14 DEF Next

\* A stream from the worker whose writer awaits its calls before it ends it
\* is a byte stream, for every window, batch length and number of callers and
\* readers: what hostStreams posts, StreamReaderImpl returns in that order, none
\* missing and none twice, and read() shows a clean end only behind the last
\* chunk (DenoWorkerStreamReader in types.ts).
THEOREM WorkerLaneIsAByteStream ==
    ASSUME AwaitsCalls
    PROVE  Spec => ImplementsByteStream
<1>1. Init => StreamInv /\ Stream!Init
    BY StreamInvInit
<1>2. StreamInv /\ [Next]_vars => StreamInv' /\ [Stream!Next]_(Stream!vars)
    BY StreamInvStep DEF StreamStep
<1>3. QED
    BY <1>1, <1>2, PTL DEF Spec, ImplementsByteStream, Stream!Spec
=============================================================================
