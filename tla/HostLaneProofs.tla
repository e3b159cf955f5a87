-------------------------- MODULE HostLaneProofs --------------------------
(***************************************************************************)
(* Theorems about the lane from the host to the worker, for every value of *)
(* its constants.                                                          *)
(***************************************************************************)
EXTENDS HostLane, StreamPartsProofs

\* The frames of the two channels, and their sizes.
LEMMA FrameKinds ==
    /\ Chunks \subseteq WorkerFrames
    /\ \A k \in {"close", "error", "cancel", "discard"} :
          Control(k) \in WorkerFrames /\ Control(k).bytes = 0
    /\ \A k \in {"cancel", "discard"} :
          Control(k) \in HostFrames /\ Control(k).bytes = 0
    /\ \A n \in Nat : Credit(n) \in HostFrames /\ Credit(n).bytes = n
    /\ \A x \in WorkerFrames : x.bytes \in Nat
    /\ \A x \in HostFrames : x.bytes \in Nat
    /\ \A x \in Chunks : x.bytes \in Nat /\ x.id \in Nat
BY DEF Chunks, WorkerFrames, HostFrames, Control, Credit

-----------------------------------------------------------------------------
(***************************************************************************)
(* Sending: types, and the books of the bytes that leave the writer.       *)
(***************************************************************************)
SendOK ==
    /\ queued \in Seq(Chunks)
    /\ flushQueued \in BOOLEAN
    /\ flushError \in BOOLEAN
    /\ toWorker \in Seq(WorkerFrames)
    /\ lost \in Nat
    /\ fulls \in Nat

OnTheWay == Bytes(queued) + Bytes(toWorker)

LEMMA OnTheWayNat ==
    ASSUME SendOK
    PROVE  Bytes(queued) \in Nat /\ Bytes(toWorker) \in Nat /\ OnTheWay \in Nat
<1>1. Bytes(queued) \in Nat
    BY FrameKinds, BytesNat DEF SendOK
<1>2. Bytes(toWorker) \in Nat
    BY FrameKinds, BytesNat DEF SendOK
<1>3. QED
    BY <1>1, <1>2 DEF OnTheWay

\* A post adds exactly its bytes to the channel, or to what was lost.
LEMMA PostFacts ==
    ASSUME SendOK, NEW q \in Seq(Chunks), Post(q) \/ PostFindsFull(q)
    PROVE  /\ toWorker' \in Seq(WorkerFrames)
           /\ lost' \in Nat /\ lost' >= lost
           /\ fulls' \in Nat
           /\ Bytes(toWorker') + lost' = Bytes(toWorker) + lost + Bytes(q)
<1>1. Bytes(q) \in Nat /\ Bytes(toWorker) \in Nat /\ q \in Seq(WorkerFrames)
  <2>1. Bytes(q) \in Nat
      BY FrameKinds, BytesNat
  <2>2. q \in Seq(WorkerFrames)
      BY FrameKinds
  <2>3. QED
      BY <2>1, <2>2, OnTheWayNat
<1>2. CASE Post(q)
  <2>1. Bytes(toWorker \o q) = Bytes(toWorker) + Bytes(q)
      BY <1>1, FrameKinds, BytesConcat DEF SendOK
  <2>2. toWorker' = toWorker \o q /\ lost' = lost /\ fulls' = fulls
      BY <1>2 DEF Post
  <2>3. toWorker' \in Seq(WorkerFrames)
      BY <1>1, <2>2 DEF SendOK
  <2>4. QED
      BY <1>1, <2>1, <2>2, <2>3 DEF SendOK
<1>3. CASE PostFindsFull(q)
    BY <1>1, <1>3 DEF PostFindsFull, SendOK
<1>4. QED
    BY <1>2, <1>3

LEMMA PostLedger ==
    ASSUME SendOK, NEW q \in Seq(Chunks), Post(q) \/ PostFindsFull(q),
           queued' = queued
    PROVE  OnTheWay' + lost' = OnTheWay + lost + Bytes(q)
<1>1. /\ toWorker' \in Seq(WorkerFrames)
      /\ lost' \in Nat
      /\ Bytes(toWorker') + lost' = Bytes(toWorker) + lost + Bytes(q)
    BY PostFacts
<1>2. OnTheWay' = Bytes(queued) + Bytes(toWorker')
    BY DEF OnTheWay
<1>3. Bytes(toWorker') \in Nat /\ Bytes(q) \in Nat
    BY <1>1, FrameKinds, BytesNat
<1>4. lost \in Nat
    BY DEF SendOK
<1> DEFINE q0 == Bytes(queued)
           t0 == Bytes(toWorker)
           t1 == Bytes(toWorker')
           n  == Bytes(q)
           l1 == lost'
<1>5. /\ q0 \in Nat /\ t0 \in Nat /\ t1 \in Nat /\ n \in Nat /\ l1 \in Nat
      /\ OnTheWay = q0 + t0 /\ OnTheWay' = q0 + t1
      /\ t1 + l1 = t0 + lost + n
    BY <1>1, <1>2, <1>3, OnTheWayNat DEF OnTheWay
<1>6. SUFFICES OnTheWay' + l1 = OnTheWay + lost + n
    BY DEF n
<1> HIDE DEF q0, t0, t1, n, l1
<1>7. QED
    BY <1>4, <1>5

LEMMA FlushFacts ==
    ASSUME SendOK, NEW q \in Seq(Chunks), FlushFastChunks(q)
    PROVE  /\ SendOK'
           /\ QueuedIsScheduled'
           /\ lost' >= lost
           /\ OnTheWay' + lost' = Bytes(q) + Bytes(toWorker) + lost
<1>1. queued' = <<>> /\ flushQueued' = FALSE /\ flushError' \in BOOLEAN
  <2>1. flushError \in BOOLEAN
      BY DEF SendOK
  <2>2. QED
      BY <2>1 DEF FlushFastChunks
<1>2. /\ toWorker' \in Seq(WorkerFrames)
      /\ lost' \in Nat /\ lost' >= lost
      /\ fulls' \in Nat
      /\ Bytes(toWorker') + lost' = Bytes(toWorker) + lost + Bytes(q)
    BY PostFacts DEF FlushFastChunks
<1>3. SendOK'
  <2>1. queued' \in Seq(Chunks)
      BY <1>1
  <2>2. flushQueued' \in BOOLEAN
      BY <1>1, Zenon
  <2>3. QED
      BY <1>1, <1>2, <2>1, <2>2 DEF SendOK
<1>4. QueuedIsScheduled'
    BY <1>1 DEF QueuedIsScheduled
<1>5. OnTheWay' = Bytes(toWorker')
  <2>1. OnTheWay' = Bytes(queued') + Bytes(toWorker')
      BY DEF OnTheWay
  <2>2. Bytes(queued') = 0
      BY <1>1, BytesEmpty
  <2>3. Bytes(toWorker') \in Nat
      BY <1>2, FrameKinds, BytesNat
  <2>4. QED
      BY <2>1, <2>2, <2>3
<1>6. Bytes(q) \in Nat /\ Bytes(toWorker) \in Nat /\ lost \in Nat
    BY FrameKinds, BytesNat, OnTheWayNat DEF SendOK
<1>7. Bytes(toWorker') \in Nat
    BY <1>2, FrameKinds, BytesNat
<1>8. OnTheWay' + lost' = Bytes(q) + Bytes(toWorker) + lost
    BY <1>2, <1>5, <1>6, <1>7
<1>9. QED
    BY <1>2, <1>3, <1>4, <1>8

\* A chunk whose credit is spent is queued, posted or lost.
HandOver(ch) == Sent(ch) \/ Thrown(ch)

LEMMA HandOverFacts ==
    ASSUME SendOK, accepted \in Seq(Nat), QueuedIsScheduled,
           NEW ch \in Chunks, HandOver(ch)
    PROVE  /\ SendOK'
           /\ accepted' \in Seq(Nat)
           /\ QueuedIsScheduled'
           /\ lost' >= lost
           /\ OnTheWay' + lost' = OnTheWay + lost + ch.bytes
<1> DEFINE n == ch.bytes
<1>1. /\ Bytes(queued) \in Nat /\ Bytes(toWorker) \in Nat
      /\ lost \in Nat /\ n \in Nat
      /\ OnTheWay = Bytes(queued) + Bytes(toWorker)
    BY OnTheWayNat, FrameKinds DEF SendOK, OnTheWay
<1>0. ch.id \in Nat
    BY FrameKinds
<1>2. accepted' \in Seq(Nat)
  <2>1. accepted' = Append(accepted, ch.id) \/ accepted' = accepted
      BY DEF HandOver, Sent, Thrown
  <2>2. QED
      BY <1>0, <2>1
<1> DEFINE q == Append(queued, ch)
<1>3. q \in Seq(Chunks) /\ Bytes(q) = Bytes(queued) + n
  <2>1. q \in Seq(Chunks)
      BY DEF SendOK
  <2>2. Bytes(q) = Bytes(queued) + n
      BY FrameKinds, BytesAppend DEF SendOK
  <2>3. QED
      BY <2>1, <2>2
<1>a. Bytes(<<ch>>) = n
    BY <1>1, BytesOne
<1>b. SUFFICES /\ SendOK'
               /\ accepted' \in Seq(Nat)
               /\ QueuedIsScheduled'
               /\ lost' >= lost
               /\ OnTheWay' + lost' = OnTheWay + lost + n
    OBVIOUS
<1> HIDE DEF n
<1>4. CASE QueueFastChunk(ch)
  <2>1. CASE Len(q) >= QueueChunks \/ Bytes(q) >= QueueBytes
    <3>1. FlushFastChunks(q)
        BY <1>4, <2>1 DEF QueueFastChunk
    <3> HIDE DEF q
    <3>2. /\ SendOK' /\ QueuedIsScheduled' /\ lost' >= lost
          /\ OnTheWay' + lost' = Bytes(q) + Bytes(toWorker) + lost
        BY <1>3, <3>1, FlushFacts
    <3>3. OnTheWay' + lost' = OnTheWay + lost + n
        BY <1>1, <1>3, <3>2
    <3>4. QED
        BY <1>2, <3>2, <3>3
  <2>2. CASE ~(Len(q) >= QueueChunks \/ Bytes(q) >= QueueBytes)
    <3>1. /\ queued' = q /\ flushQueued' = TRUE
          /\ UNCHANGED <<flushError, toWorker, lost, fulls>>
        BY <1>4, <2>2 DEF QueueFastChunk
    <3> HIDE DEF q
    <3>2. SendOK' /\ QueuedIsScheduled'
        BY <1>3, <3>1 DEF SendOK, QueuedIsScheduled
    <3>3. OnTheWay' = Bytes(q) + Bytes(toWorker)
        BY <3>1 DEF OnTheWay
    <3>4. OnTheWay' + lost' = OnTheWay + lost + n /\ lost' >= lost
        BY <1>1, <1>3, <3>1, <3>3
    <3>5. QED
        BY <1>2, <3>2, <3>4
  <2>3. QED
      BY <2>1, <2>2
<1>5. CASE (Post(<<ch>>) \/ PostFindsFull(<<ch>>)) /\ UNCHANGED queueVars
  <2> DEFINE one == <<ch>>
  <2>1. one \in Seq(Chunks) /\ Bytes(one) = n
      BY <1>a
  <2> HIDE DEF one
  <2>2. /\ toWorker' \in Seq(WorkerFrames)
        /\ lost' \in Nat /\ lost' >= lost
        /\ fulls' \in Nat
        /\ Bytes(toWorker') + lost' = Bytes(toWorker) + lost + n
    <3>1. Post(one) \/ PostFindsFull(one)
        BY <1>5 DEF one
    <3>2. QED
        BY <2>1, <3>1, PostFacts
  <2>3. SendOK' /\ QueuedIsScheduled'
      BY <1>5, <2>2 DEF queueVars, SendOK, QueuedIsScheduled
  <2>4. OnTheWay' = Bytes(queued) + Bytes(toWorker')
      BY <1>5 DEF queueVars, OnTheWay
  <2>5. Bytes(toWorker') \in Nat
      BY <2>2, FrameKinds, BytesNat
  <2>6. OnTheWay' + lost' = OnTheWay + lost + n
    <3>1. queued' = queued /\ (Post(one) \/ PostFindsFull(one))
        BY <1>5 DEF queueVars, one
    <3>2. OnTheWay' + lost' = OnTheWay + lost + Bytes(one)
        BY <2>1, <3>1, PostLedger
    <3>3. QED
        BY <2>1, <3>2
  <2>7. QED
      BY <1>2, <2>2, <2>3, <2>6
<1>6. CASE /\ lost' = lost + n
           /\ UNCHANGED <<toWorker, fulls, queueVars>>
  <2>1. SendOK' /\ QueuedIsScheduled'
      BY <1>1, <1>6 DEF queueVars, SendOK, QueuedIsScheduled
  <2>2. OnTheWay' = OnTheWay
      BY <1>6 DEF queueVars, OnTheWay
  <2>3. OnTheWay' + lost' = OnTheWay + lost + n /\ lost' >= lost
      BY <1>1, <1>6, <2>2
  <2>4. QED
      BY <1>2, <2>1, <2>3
<1>7. QED
    BY <1>4, <1>5, <1>6 DEF HandOver, Sent, Thrown, n

-----------------------------------------------------------------------------
(***************************************************************************)
(* The inductive invariant behind the first theorems.  The three parts     *)
(* need each other only through the types: that no covered waiter is left  *)
(* waiting is about naturals, and that queued chunks are scheduled is      *)
(* about the queue the flush empties.                                      *)
(***************************************************************************)
HostLaneInv == HostLaneTypeOK /\ WaitersLackCredit /\ QueuedIsScheduled

\* The writer apart from its credit and what it sends.
WriterOK == /\ ended \in EndedKinds
            /\ hostMeta \in Metas
            /\ nextId \in Nat
            /\ accepted \in Seq(Nat)

WorkerOK == /\ ReaderTypeOK
            /\ workerMeta \in Metas
            /\ unflushed \in Nat

ToHostOK == toHost \in Seq(HostFrames)

LEMMA TypeParts ==
    HostLaneTypeOK <=> SendOK /\ CreditTypeOK /\ WriterOK /\ WorkerOK /\ ToHostOK
BY DEF HostLaneTypeOK, SendOK, WriterOK, WorkerOK, ToHostOK, EndedKinds

LEMMA TypePartsNext ==
    HostLaneTypeOK' <=>
        SendOK' /\ CreditTypeOK' /\ WriterOK' /\ WorkerOK' /\ ToHostOK'
BY DEF HostLaneTypeOK, SendOK, WriterOK, WorkerOK, ToHostOK, EndedKinds

\* Each part holds on when its variables stay.
LEMMA SendUnchanged ==
    ASSUME SendOK, QueuedIsScheduled,
           UNCHANGED <<queueVars, toWorker, lost, fulls>>
    PROVE  SendOK' /\ QueuedIsScheduled'
BY DEF SendOK, QueuedIsScheduled, queueVars

LEMMA WorkerUnchanged ==
    ASSUME WorkerOK, UNCHANGED workerVars
    PROVE  WorkerOK'
BY DEF WorkerOK, workerVars, readerVars, ReaderTypeOK

LEMMA InvInit == Init => HostLaneInv
<1>1. ReaderInit => ReaderTypeOK
    BY ReaderInitType
<1>2. CreditInit => CreditTypeOK
    BY CreditInitType
<1>3. CreditInit => WaitersLackCredit
    BY DEF CreditInit, WaitersLackCredit
<1>4. ASSUME Init
      PROVE  HostLaneTypeOK /\ WaitersLackCredit /\ QueuedIsScheduled
  <2>1. ReaderTypeOK /\ CreditTypeOK /\ WaitersLackCredit
      BY <1>1, <1>2, <1>3, <1>4 DEF Init
  <2>2. queued = <<>> /\ flushQueued = FALSE /\ flushError = FALSE
      BY <1>4 DEF Init
  <2>3. flushQueued \in BOOLEAN /\ flushError \in BOOLEAN
      BY <2>2, Zenon
  <2>4. SendOK
      BY <1>4, <2>2, <2>3 DEF Init, SendOK
  <2>5. WriterOK /\ ToHostOK
      BY <1>4, MetaTypes DEF Init, WriterOK, ToHostOK, EndedKinds
  <2>6. WorkerOK
      BY <1>4, <2>1, MetaTypes DEF Init, WorkerOK
  <2>7. QED
      BY <2>1, <2>2, <2>4, <2>5, <2>6, TypeParts DEF QueuedIsScheduled
<1>5. QED
    BY <1>4 DEF HostLaneInv

-----------------------------------------------------------------------------
(***************************************************************************)
(* Calls on the writer.                                                    *)
(***************************************************************************)
LEMMA NewChunk ==
    ASSUME NEW id \in Nat, NEW n \in Sizes
    PROVE  Chunk(id, n) \in Chunks /\ n \in Nat /\ Chunk(id, n).bytes = n
BY HostLaneAssumption DEF Chunk, Chunks

LEMMA WriteInv ==
    ASSUME HostLaneInv, NEW c \in Callers, NEW n \in Sizes, Write(c, n)
    PROVE  HostLaneInv'
<1> USE DEF HostLaneInv
<1>1. /\ SendOK /\ CreditTypeOK /\ WriterOK /\ WorkerOK /\ ToHostOK
      /\ WaitersLackCredit /\ QueuedIsScheduled
    BY TypeParts
<1> DEFINE ch == Chunk(nextId, n)
<1>2. ch \in Chunks /\ n \in Nat
    BY <1>1, NewChunk DEF WriterOK
<1>3. WorkerOK'
    BY <1>1, WorkerUnchanged DEF Write, outsideWriter
<1>4. ToHostOK'
    BY <1>1 DEF ToHostOK, Write, outsideWriter
<1>5. ended' = ended /\ hostMeta' = hostMeta /\ nextId' \in Nat
    BY <1>1 DEF Write, outsideWriter, WriterOK
<1>6. CASE /\ credits' = Remaining(n)
           /\ Sent(ch) \/ Thrown(ch)
           /\ UNCHANGED <<call, waiters, jobs>>
  <2>1. SendOK' /\ QueuedIsScheduled' /\ accepted' \in Seq(Nat)
      BY <1>1, <1>2, <1>6, HandOverFacts DEF HandOver, WriterOK
  <2>2. CreditTypeOK' /\ WaitersLackCredit'
    <3>1. credits' \in Nat /\ credits' <= credits
        BY <1>1, <1>2, <1>6, RemainingType
    <3>2. QED
        BY <1>1, <1>6, <3>1, LessCreditType
  <2>3. WriterOK'
      BY <1>1, <1>5, <2>1 DEF WriterOK
  <2>4. QED
      BY <1>3, <1>4, <2>1, <2>2, <2>3, TypePartsNext
<1>7. CASE /\ Block(c, n, <<ch>>)
           /\ UNCHANGED <<credits, queueVars, toWorker, accepted, lost, fulls>>
  <2>1. SendOK' /\ QueuedIsScheduled'
      BY <1>1, <1>7, SendUnchanged
  <2>2. CreditTypeOK' /\ WaitersLackCredit'
    <3> DEFINE todo == <<ch>>
    <3>1. todo \in Seq(Chunks)
        BY <1>2
    <3>2. Block(c, n, todo)
        BY <1>7
    <3> HIDE DEF todo
    <3>3. QED
        BY <1>1, <1>2, <1>7, <3>1, <3>2, BlockType
  <2>3. WriterOK'
      BY <1>1, <1>5, <1>7 DEF WriterOK
  <2>4. QED
      BY <1>3, <1>4, <2>1, <2>2, <2>3, TypePartsNext
<1>8. QED
    BY <1>6, <1>7 DEF Write

LEMMA BatchChunks ==
    ASSUME NEW sizes \in Batches, NEW first \in Nat
    PROVE  LET chunks == [i \in DOMAIN sizes |-> Chunk(first + i - 1, sizes[i])]
           IN  /\ chunks \in Seq(Chunks) /\ chunks # <<>>
               /\ [i \in DOMAIN chunks |-> chunks[i].id] \in Seq(Nat)
<1>1. sizes \in Seq(Sizes) /\ sizes # <<>> /\ Sizes \subseteq Nat
    BY HostLaneAssumption
<1>2. QED
    BY <1>1, ChunkSequence

LEMMA WriteManyInv ==
    ASSUME HostLaneInv, NEW c \in Callers, NEW sizes \in Batches,
           WriteMany(c, sizes)
    PROVE  HostLaneInv'
<1> USE DEF HostLaneInv
<1>1. /\ SendOK /\ CreditTypeOK /\ WriterOK /\ WorkerOK /\ ToHostOK
      /\ WaitersLackCredit /\ QueuedIsScheduled
    BY TypeParts
<1> DEFINE chunks == [i \in DOMAIN sizes |-> Chunk(nextId + i - 1, sizes[i])]
           ids == [i \in DOMAIN chunks |-> chunks[i].id]
<1>2. chunks \in Seq(Chunks) /\ chunks # <<>> /\ ids \in Seq(Nat)
    BY <1>1, BatchChunks DEF WriterOK
<1>3. Head(chunks).bytes \in Nat /\ Bytes(chunks) \in Nat
  <2> HIDE DEF chunks
  <2>1. Head(chunks) \in Chunks
      BY <1>2
  <2>2. QED
      BY <1>2, <2>1, FrameKinds, BytesNat
<1>4. WorkerOK'
    BY <1>1, WorkerUnchanged DEF WriteMany, outsideWriter
<1>5. ToHostOK'
    BY <1>1 DEF ToHostOK, WriteMany, outsideWriter
<1>6. /\ ended' = ended /\ hostMeta' = hostMeta
      /\ UNCHANGED queueVars
    BY DEF WriteMany, outsideWriter
<1>7. nextId' \in Nat
  <2>1. Len(sizes) \in Nat
      BY HostLaneAssumption
  <2>2. QED
      BY <1>1, <2>1 DEF WriteMany, WriterOK
<1>8. \/ /\ credits' = Remaining(Bytes(chunks))
         /\ \/ Post(chunks) /\ accepted' = accepted \o ids
            \/ PostFindsFull(chunks) /\ UNCHANGED accepted
         /\ UNCHANGED <<call, waiters, jobs>>
      \/ /\ Block(c, Head(chunks).bytes, chunks)
         /\ UNCHANGED <<credits, toWorker, accepted, lost, fulls>>
    BY DEF WriteMany
<1> HIDE DEF chunks, ids
<1>9. CASE /\ credits' = Remaining(Bytes(chunks))
           /\ \/ Post(chunks) /\ accepted' = accepted \o ids
              \/ PostFindsFull(chunks) /\ UNCHANGED accepted
           /\ UNCHANGED <<call, waiters, jobs>>
  <2>1. /\ toWorker' \in Seq(WorkerFrames) /\ lost' \in Nat /\ fulls' \in Nat
      BY <1>1, <1>2, <1>9, PostFacts
  <2>2. SendOK' /\ QueuedIsScheduled'
      BY <1>1, <1>6, <2>1 DEF SendOK, QueuedIsScheduled, queueVars
  <2>3. accepted' \in Seq(Nat)
    <3>1. accepted' = accepted \o ids \/ accepted' = accepted
        BY <1>9
    <3>2. accepted \in Seq(Nat)
        BY <1>1 DEF WriterOK
    <3>3. accepted \o ids \in Seq(Nat)
        BY <1>2, <3>2
    <3>4. QED
        BY <3>1, <3>2, <3>3, Zenon
  <2>4. WriterOK'
      BY <1>1, <1>6, <1>7, <2>3 DEF WriterOK
  <2>5. credits' \in Nat /\ credits' <= credits
      BY <1>1, <1>3, <1>9, RemainingType
  <2>6. CreditTypeOK' /\ WaitersLackCredit'
      BY <1>1, <1>9, <2>5, LessCreditType
  <2>7. QED
      BY <1>4, <1>5, <2>2, <2>4, <2>6, TypePartsNext
<1>10. CASE /\ Block(c, Head(chunks).bytes, chunks)
            /\ UNCHANGED <<credits, toWorker, accepted, lost, fulls>>
  <2>1. SendOK' /\ QueuedIsScheduled'
      BY <1>1, <1>6, <1>10, SendUnchanged
  <2>2. CreditTypeOK' /\ WaitersLackCredit'
      BY <1>1, <1>2, <1>3, <1>10, BlockType
  <2>3. WriterOK'
      BY <1>1, <1>6, <1>7, <1>10 DEF WriterOK
  <2>4. QED
      BY <1>4, <1>5, <2>1, <2>2, <2>3, TypePartsNext
<1>11. QED
    BY <1>8, <1>9, <1>10

LEMMA ReadyInv ==
    ASSUME HostLaneInv, NEW c \in Callers, NEW n \in Sizes, Ready(c, n)
    PROVE  HostLaneInv'
<1> USE DEF HostLaneInv
<1>1. /\ SendOK /\ CreditTypeOK /\ WriterOK /\ WorkerOK /\ ToHostOK
      /\ WaitersLackCredit /\ QueuedIsScheduled
    BY TypeParts
<1>2. WorkerOK' /\ ToHostOK' /\ WriterOK'
  <2>1. WorkerOK'
      BY <1>1, WorkerUnchanged DEF Ready, outsideWriter
  <2>2. QED
      BY <1>1, <2>1 DEF Ready, outsideWriter, historyVars, WriterOK, ToHostOK
<1>3. SendOK' /\ QueuedIsScheduled'
    BY <1>1, SendUnchanged DEF Ready, historyVars
<1>4. CreditTypeOK' /\ WaitersLackCredit'
  <2> DEFINE none == <<>>
  <2>1. n \in Nat /\ none \in Seq(Chunks)
      BY HostLaneAssumption
  <2>2. Block(c, n, none) /\ UNCHANGED credits
      BY DEF Ready
  <2> HIDE DEF none
  <2>3. QED
      BY <1>1, <2>1, <2>2, BlockType
<1>5. QED
    BY <1>2, <1>3, <1>4, TypePartsNext

\* What a continuation does, once its call and what it has left are known.
Continues(c, todo) ==
    \/ /\ todo = <<>>
       /\ Settle(c)
       /\ UNCHANGED <<credits, queueVars, toWorker, accepted, lost, fulls>>
    \/ /\ todo # <<>>
       /\ credits' = Remaining(Head(todo).bytes)
       /\ \/ /\ Sent(Head(todo))
             /\ Tail(todo) = <<>>
             /\ Settle(c)
          \/ /\ Sent(Head(todo))
             /\ Tail(todo) # <<>>
             /\ LET n == todo[2].bytes
                IN  /\ call' = [call EXCEPT ![c] = [need |-> n, todo |-> Tail(todo)]]
                    /\ WaitForCredit(c, n, credits', Tail(jobs))
          \/ /\ Thrown(Head(todo))
             /\ Settle(c)

LEMMA Continuing ==
    ASSUME NEW c, NEW todo, Continues(c, todo)
    PROVE  \/ /\ todo = <<>>
              /\ Settle(c)
              /\ UNCHANGED <<credits, queueVars, toWorker, accepted, lost, fulls>>
           \/ /\ todo # <<>>
              /\ credits' = Remaining(Head(todo).bytes)
              /\ HandOver(Head(todo))
              /\ \/ Settle(c)
                 \/ /\ Tail(todo) # <<>>
                    /\ call' = [call EXCEPT ![c] =
                                  [need |-> todo[2].bytes, todo |-> Tail(todo)]]
                    /\ WaitForCredit(c, todo[2].bytes, credits', Tail(jobs))
BY DEF Continues, HandOver

LEMMA ResumeInv ==
    ASSUME HostLaneInv, Resume
    PROVE  HostLaneInv'
<1>1. /\ SendOK /\ CreditTypeOK /\ WriterOK /\ WorkerOK /\ ToHostOK
      /\ WaitersLackCredit /\ QueuedIsScheduled
    BY TypeParts, Zenon DEF HostLaneInv
<1> DEFINE c == Head(jobs).caller
           todo == call[c].todo
<1>0. jobs # <<>> /\ Continues(c, todo)
    BY DEF Resume, Continues
<1>2. /\ jobs # <<>>
      /\ \/ /\ todo = <<>>
            /\ Settle(c)
            /\ UNCHANGED <<credits, queueVars, toWorker, accepted, lost, fulls>>
         \/ /\ todo # <<>>
            /\ credits' = Remaining(Head(todo).bytes)
            /\ HandOver(Head(todo))
            /\ \/ Settle(c)
               \/ /\ Tail(todo) # <<>>
                  /\ call' = [call EXCEPT ![c] =
                                [need |-> todo[2].bytes, todo |-> Tail(todo)]]
                  /\ WaitForCredit(c, todo[2].bytes, credits', Tail(jobs))
    BY <1>0, Continuing, Zenon
<1>3. c \in Callers /\ Tail(jobs) \in Seq(Job) /\ todo \in Seq(Chunks)
    BY <1>1, <1>2, HeadJob
<1>4. UNCHANGED workerVars /\ UNCHANGED <<toHost, ended, hostMeta, nextId>>
  <2>1. UNCHANGED <<outsideWriter, nextId>>
      BY Zenon DEF Resume
  <2>2. QED
      BY <2>1 DEF outsideWriter
<1>5. WorkerOK' /\ ToHostOK' /\ ended' = ended /\ hostMeta' = hostMeta /\ nextId' = nextId
  <2>1. WorkerOK'
      BY <1>1, <1>4, WorkerUnchanged
  <2>2. QED
      BY <1>1, <1>4, <2>1 DEF ToHostOK
<1> HIDE DEF c, todo
<1>6. CASE /\ Settle(c)
           /\ UNCHANGED <<credits, queueVars, toWorker, accepted, lost, fulls>>
  <2>1. SendOK' /\ QueuedIsScheduled'
      BY <1>1, <1>6, SendUnchanged
  <2>2. WriterOK'
      BY <1>1, <1>5, <1>6 DEF WriterOK
  <2>3. credits' \in Nat /\ credits' <= credits
      BY <1>1, <1>6 DEF CreditTypeOK
  <2>4. CreditTypeOK' /\ WaitersLackCredit'
      BY <1>1, <1>2, <1>3, <1>6, <2>3, SettleType
  <2>5. QED
      BY <1>5, <2>1, <2>2, <2>4, TypePartsNext DEF HostLaneInv
<1>7. CASE /\ todo # <<>>
           /\ credits' = Remaining(Head(todo).bytes)
           /\ HandOver(Head(todo))
           /\ \/ Settle(c)
              \/ /\ Tail(todo) # <<>>
                 /\ call' = [call EXCEPT ![c] =
                               [need |-> todo[2].bytes, todo |-> Tail(todo)]]
                 /\ WaitForCredit(c, todo[2].bytes, credits', Tail(jobs))
  <2>1. Head(todo) \in Chunks /\ Tail(todo) \in Seq(Chunks)
      BY <1>3, <1>7
  <2>2. SendOK' /\ QueuedIsScheduled' /\ accepted' \in Seq(Nat)
      BY <1>1, <1>7, <2>1, HandOverFacts DEF WriterOK
  <2>3. WriterOK'
      BY <1>1, <1>5, <2>2 DEF WriterOK
  <2>4. Head(todo).bytes \in Nat
      BY <2>1, FrameKinds
  <2>5. credits' \in Nat /\ credits' <= credits
      BY <1>1, <1>7, <2>4, RemainingType
  <2>6. CreditTypeOK' /\ WaitersLackCredit'
    <3>1. CASE Settle(c)
        BY <1>1, <1>2, <1>3, <2>5, <3>1, SettleType
    <3>2. CASE /\ Tail(todo) # <<>>
               /\ call' = [call EXCEPT ![c] =
                             [need |-> todo[2].bytes, todo |-> Tail(todo)]]
               /\ WaitForCredit(c, todo[2].bytes, credits', Tail(jobs))
      <4> DEFINE n == todo[2].bytes
                 q == Tail(jobs)
                 rest == Tail(todo)
      <4>1. n \in Nat
        <5>1. todo[2] \in Chunks
            BY <1>3, <1>7, <3>2
        <5>2. QED
            BY <5>1, FrameKinds
      <4>2. rest \in Seq(Chunks) /\ q \in Seq(Job)
          BY <1>3, <2>1
      <4>3. /\ WaitForCredit(c, n, credits', q)
            /\ call' = [call EXCEPT ![c] = [need |-> n, todo |-> rest]]
          BY <3>2
      <4> HIDE DEF n, q, rest
      <4>4. /\ waiters' \in Seq(Waiter)
            /\ jobs' \in Seq(Job)
            /\ WaitersLackCredit'
          BY <1>1, <1>3, <2>5, <4>1, <4>2, <4>3, WaitForCreditType
      <4>5. call' \in [Callers -> [need : Nat, todo : Seq(Chunks)]]
          BY <1>1, <4>1, <4>2, <4>3 DEF CreditTypeOK
      <4>6. QED
          BY <2>5, <4>4, <4>5 DEF CreditTypeOK, Waiter, Job
    <3>3. QED
        BY <1>7, <3>1, <3>2
  <2>7. QED
      BY <1>5, <2>2, <2>3, <2>6, TypePartsNext DEF HostLaneInv
<1>8. QED
    BY <1>2, <1>6, <1>7

LEMMA FlushTickInv ==
    ASSUME HostLaneInv, FlushTick
    PROVE  HostLaneInv'
<1> USE DEF HostLaneInv
<1>1. /\ SendOK /\ CreditTypeOK /\ WriterOK /\ WorkerOK /\ ToHostOK
      /\ WaitersLackCredit /\ QueuedIsScheduled
    BY TypeParts
<1>2. WorkerOK' /\ ToHostOK' /\ WriterOK'
  <2>1. WorkerOK'
      BY <1>1, WorkerUnchanged DEF FlushTick, outsideWriter
  <2>2. QED
      BY <1>1, <2>1 DEF FlushTick, outsideWriter, WriterOK, ToHostOK
<1>3. SendOK' /\ QueuedIsScheduled'
  <2>1. queued \in Seq(Chunks) /\ FlushFastChunks(queued)
      BY <1>1 DEF SendOK, FlushTick
  <2>2. QED
      BY <1>1, <2>1, FlushFacts
<1>4. CreditTypeOK' /\ WaitersLackCredit'
    BY <1>1, CreditUnchangedType DEF FlushTick, creditVars
<1>5. QED
    BY <1>2, <1>3, <1>4, TypePartsNext

-----------------------------------------------------------------------------
(***************************************************************************)
(* Ending the stream.                                                      *)
(***************************************************************************)
LEMMA RefusalsNat ==
    ASSUME NEW oks \in [1 .. 3 -> BOOLEAN]
    PROVE  Refusals(oks) \in Nat
<1>1. IsFiniteSet(1 .. 3)
  <2>1. 1 \in Int /\ 3 \in Int
      OBVIOUS
  <2>2. QED
      BY <2>1, FS_Interval, Zenon
<1>2. IsFiniteSet({i \in DOMAIN oks : ~oks[i]})
    BY <1>1, FS_Subset
<1>3. QED
    BY <1>2, FS_CardinalityType DEF Refusals

LEMMA EndPostsFacts ==
    ASSUME SendOK, NEW frames \in Seq(WorkerFrames),
           NEW oks \in [1 .. 3 -> BOOLEAN], EndPosts(frames, oks)
    PROVE  SendOK' /\ QueuedIsScheduled'
<1>1. queued' = <<>> /\ flushQueued' = FALSE
    BY DEF EndPosts
<1>2. flushQueued' \in BOOLEAN /\ flushError' \in BOOLEAN
  <2>1. flushQueued' \in BOOLEAN
      BY <1>1, Zenon
  <2>2. flushError' = (flushError \/ ~oks[1])
      BY DEF EndPosts
  <2>3. QED
      BY <2>1, <2>2, Zenon
<1>3. fulls' \in Nat
    BY RefusalsNat DEF EndPosts, SendOK
<1>4. When(~oks[1], queued) \in Seq(Chunks) /\ When(oks[1], queued) \in Seq(Chunks)
    BY DEF When, SendOK
<1>5. lost' \in Nat
  <2>1. Bytes(When(~oks[1], queued)) \in Nat
      BY <1>4, FrameKinds, BytesNat
  <2>2. QED
      BY <2>1 DEF EndPosts, SendOK
<1>6. toWorker' \in Seq(WorkerFrames)
  <2> DEFINE w == When(oks[1], queued)
  <2>1. w \in Seq(WorkerFrames)
      BY <1>4, FrameKinds
  <2>2. toWorker' = toWorker \o w \o frames
      BY DEF EndPosts
  <2> HIDE DEF w
  <2>3. QED
      BY <2>1, <2>2 DEF SendOK
<1>7. SendOK'
  <2>1. queued' \in Seq(Chunks)
      BY <1>1
  <2>2. QED
      BY <1>2, <1>3, <1>5, <1>6, <2>1 DEF SendOK
<1>8. QED
    BY <1>1, <1>7 DEF QueuedIsScheduled

LEMMA ReleaseFacts ==
    ASSUME CreditTypeOK, ReleaseWriter, UNCHANGED jobs
    PROVE  CreditTypeOK' /\ WaitersLackCredit' /\ hostMeta' \in Metas
<1>1. CreditTypeOK' /\ WaitersLackCredit'
    BY RejectType DEF ReleaseWriter
<1>2. hostMeta' \in Metas
    BY MetaTypes DEF ReleaseWriter
<1>3. QED
    BY <1>1, <1>2

LEMMA CloseInv ==
    ASSUME HostLaneInv, Close
    PROVE  HostLaneInv'
<1> USE DEF HostLaneInv
<1>1. /\ SendOK /\ CreditTypeOK /\ WriterOK /\ WorkerOK /\ ToHostOK
      /\ WaitersLackCredit /\ QueuedIsScheduled
    BY TypeParts
<1>2. WorkerOK' /\ ToHostOK'
  <2>1. WorkerOK'
      BY <1>1, WorkerUnchanged DEF Close, endUnchanged
  <2>2. QED
      BY <1>1, <2>1 DEF Close, endUnchanged, ToHostOK
<1>3. PICK oks \in [1 .. 3 -> BOOLEAN] :
         \/ /\ EndPosts(When(oks[2], <<Control("close")>>)
                          \o When(oks[3], <<Control("discard")>>), oks)
            /\ ReleaseWriter
         \/ EndFails(oks)
    BY DEF Close
<1>4. SendOK' /\ QueuedIsScheduled'
  <2> DEFINE frames == When(oks[2], <<Control("close")>>)
                         \o When(oks[3], <<Control("discard")>>)
         none == <<>>
  <2>1. frames \in Seq(WorkerFrames) /\ none \in Seq(WorkerFrames)
      BY FrameKinds DEF When
  <2>2. EndPosts(frames, oks) \/ EndPosts(none, oks)
      BY <1>3 DEF EndFails
  <2> HIDE DEF frames, none
  <2>3. QED
      BY <1>1, <2>1, <2>2, EndPostsFacts
<1>5. CreditTypeOK' /\ WaitersLackCredit' /\ hostMeta' \in Metas
  <2>1. UNCHANGED jobs
      BY DEF Close, endUnchanged
  <2>2. CASE ReleaseWriter
      BY <1>1, <2>1, <2>2, ReleaseFacts
  <2>3. CASE EndFails(oks)
    <3>1. UNCHANGED creditVars /\ hostMeta' = hostMeta
        BY <2>1, <2>3 DEF creditVars, EndFails
    <3>2. QED
        BY <1>1, <3>1, CreditUnchangedType DEF WriterOK
  <2>4. QED
      BY <1>3, <2>2, <2>3
<1>6. WriterOK'
    BY <1>1, <1>5 DEF Close, MayEnd, endUnchanged, WriterOK, EndedKinds
<1>7. QED
    BY <1>2, <1>4, <1>5, <1>6, TypePartsNext

LEMMA AbortInv ==
    ASSUME HostLaneInv, NEW kind \in {"error", "cancel"}, Abort(kind)
    PROVE  HostLaneInv'
<1> USE DEF HostLaneInv
<1>1. /\ SendOK /\ CreditTypeOK /\ WriterOK /\ WorkerOK /\ ToHostOK
      /\ WaitersLackCredit /\ QueuedIsScheduled
    BY TypeParts
<1>2. WorkerOK' /\ ToHostOK'
  <2>1. WorkerOK'
      BY <1>1, WorkerUnchanged DEF Abort, endUnchanged
  <2>2. QED
      BY <1>1, <2>1 DEF Abort, endUnchanged, ToHostOK
<1>3. PICK oks \in [1 .. 3 -> BOOLEAN] :
         \/ /\ oks[2]
            /\ EndPosts(<<Control(kind)>>
                          \o When(oks[3], <<Control("discard")>>), oks)
            /\ ReleaseWriter
         \/ EndFails(oks)
    BY DEF Abort
<1>4. SendOK' /\ QueuedIsScheduled'
  <2> DEFINE frames == <<Control(kind)>> \o When(oks[3], <<Control("discard")>>)
             none == <<>>
  <2>1. frames \in Seq(WorkerFrames) /\ none \in Seq(WorkerFrames)
      BY FrameKinds DEF When
  <2>2. EndPosts(frames, oks) \/ EndPosts(none, oks)
      BY <1>3 DEF EndFails
  <2> HIDE DEF frames, none
  <2>3. QED
      BY <1>1, <2>1, <2>2, EndPostsFacts
<1>5. CreditTypeOK' /\ WaitersLackCredit' /\ hostMeta' \in Metas
  <2>1. UNCHANGED jobs
      BY DEF Abort, endUnchanged
  <2>2. CASE ReleaseWriter
      BY <1>1, <2>1, <2>2, ReleaseFacts
  <2>3. CASE EndFails(oks)
    <3>1. UNCHANGED creditVars /\ hostMeta' = hostMeta
        BY <2>1, <2>3 DEF creditVars, EndFails
    <3>2. QED
        BY <1>1, <3>1, CreditUnchangedType DEF WriterOK
  <2>4. QED
      BY <1>3, <2>2, <2>3
<1>6. WriterOK'
    BY <1>1, <1>5 DEF Abort, MayEnd, endUnchanged, WriterOK, EndedKinds
<1>7. QED
    BY <1>2, <1>4, <1>5, <1>6, TypePartsNext

-----------------------------------------------------------------------------
(***************************************************************************)
(* Frames, and the worker.                                                 *)
(***************************************************************************)
LEMMA HostReceiveInv ==
    ASSUME HostLaneInv, HostReceive
    PROVE  HostLaneInv'
<1> USE DEF HostLaneInv
<1>1. /\ SendOK /\ CreditTypeOK /\ WriterOK /\ WorkerOK /\ ToHostOK
      /\ WaitersLackCredit /\ QueuedIsScheduled
    BY TypeParts
<1> DEFINE f == Head(toHost)
<1>2. f \in HostFrames /\ Tail(toHost) \in Seq(HostFrames)
    BY <1>1 DEF HostReceive, ToHostOK
<1>3. WorkerOK' /\ SendOK' /\ QueuedIsScheduled'
  <2>1. WorkerOK'
      BY <1>1, WorkerUnchanged DEF HostReceive
  <2>2. SendOK' /\ QueuedIsScheduled'
      BY <1>1, SendUnchanged DEF HostReceive, historyVars
  <2>3. QED
      BY <2>1, <2>2
<1>4. ToHostOK'
    BY <1>2 DEF HostReceive, ToHostOK
<1>5. hostMeta' \in Metas /\ CreditTypeOK' /\ WaitersLackCredit'
  <2>1. \/ /\ AddWriterCredit(f.bytes)
           /\ UNCHANGED hostMeta
        \/ /\ hostMeta' = MarkRemote(hostMeta)
           /\ UNCHANGED <<credits, waiters, jobs>>
        \/ UNCHANGED <<hostMeta, credits, waiters, jobs>>
      BY DEF HostReceive
  <2>2. call' = call /\ hostMeta \in Metas
      BY <1>1 DEF HostReceive, WriterOK
  <2>3. f.bytes \in Nat
      BY <1>2, FrameKinds
  <2> HIDE DEF f
  <2>4. CASE AddWriterCredit(f.bytes) /\ UNCHANGED hostMeta
      BY <1>1, <2>2, <2>3, <2>4, AddWriterCreditType
  <2>5. CASE /\ hostMeta' = MarkRemote(hostMeta) \/ UNCHANGED hostMeta
             /\ UNCHANGED <<credits, waiters, jobs>>
    <3>1. UNCHANGED creditVars
        BY <2>2, <2>5 DEF creditVars
    <3>2. CreditTypeOK' /\ WaitersLackCredit'
        BY <1>1, <3>1, CreditUnchangedType
    <3>3. QED
        BY <2>2, <2>5, <3>2, MetaTypes
  <2>6. QED
      BY <2>1, <2>4, <2>5
<1>6. WriterOK'
    BY <1>1, <1>5 DEF HostReceive, historyVars, WriterOK
<1>7. QED
    BY <1>3, <1>4, <1>5, <1>6, TypePartsNext

LEMMA QueueCreditType ==
    ASSUME unflushed \in Nat, ToHostOK, NEW n \in Nat, QueueStreamCredit(n)
    PROVE  unflushed' \in Nat /\ ToHostOK'
<1>1. unflushed + n \in Nat
    OBVIOUS
<1>2. Credit(unflushed + n) \in HostFrames
    BY <1>1, FrameKinds
<1>3. QED
    BY <1>1, <1>2 DEF QueueStreamCredit, ToHostOK

LEMMA DiscardType ==
    ASSUME unflushed \in Nat, workerMeta \in Metas, ToHostOK,
           NEW frames \in Seq(HostFrames), NEW gaveUp, DiscardLocally(frames, gaveUp)
    PROVE  unflushed' \in Nat /\ workerMeta' \in Metas /\ ToHostOK'
<1> DEFINE d == <<Control("discard")>>
<1>1. d \in Seq(HostFrames)
    BY FrameKinds
<1>2. toHost' = toHost \o frames \o d \/ toHost' = toHost \o frames
    BY DEF DiscardLocally
<1> HIDE DEF d
<1>3. ToHostOK'
  <2>1. toHost \o frames \in Seq(HostFrames)
      BY DEF ToHostOK
  <2>2. (toHost \o frames) \o d \in Seq(HostFrames)
      BY <1>1, <2>1
  <2>3. QED
      BY <1>2, <2>1, <2>2, Zenon DEF ToHostOK
<1>4. unflushed' \in Nat /\ workerMeta' \in Metas
    BY MetaTypes DEF DiscardLocally
<1>5. QED
    BY <1>3, <1>4

\* A step of the worker leaves the writer and its channel alone.
LEMMA WriterSideUnchanged ==
    ASSUME SendOK, CreditTypeOK, WriterOK, WaitersLackCredit, QueuedIsScheduled,
           UNCHANGED <<writerVars, historyVars>>
    PROVE  /\ CreditTypeOK' /\ WriterOK' /\ WaitersLackCredit'
           /\ QueuedIsScheduled'
           /\ toWorker' \in Seq(WorkerFrames) => SendOK'
<1>1. CreditTypeOK' /\ WaitersLackCredit'
    BY CreditUnchangedType DEF writerVars
<1>2. WriterOK'
    BY DEF writerVars, historyVars, WriterOK
<1>3. QueuedIsScheduled'
    BY DEF writerVars, queueVars, QueuedIsScheduled
<1>4. toWorker' \in Seq(WorkerFrames) => SendOK'
    BY DEF writerVars, queueVars, historyVars, SendOK
<1>5. QED
    BY <1>1, <1>2, <1>3, <1>4

LEMMA WorkerReceiveInv ==
    ASSUME HostLaneInv, WorkerReceive
    PROVE  HostLaneInv'
<1> USE DEF HostLaneInv
<1>1. /\ SendOK /\ CreditTypeOK /\ WriterOK /\ WorkerOK /\ ToHostOK
      /\ WaitersLackCredit /\ QueuedIsScheduled
    BY TypeParts
<1> DEFINE f == Head(toWorker)
<1>2. f \in WorkerFrames /\ Tail(toWorker) \in Seq(WorkerFrames)
    BY <1>1 DEF WorkerReceive, SendOK
<1>3. /\ CreditTypeOK' /\ WriterOK' /\ WaitersLackCredit'
      /\ QueuedIsScheduled' /\ SendOK'
  <2>1. UNCHANGED <<writerVars, historyVars>> /\ toWorker' \in Seq(WorkerFrames)
      BY <1>2 DEF WorkerReceive
  <2>2. QED
      BY <1>1, <2>1, WriterSideUnchanged
<1>4. ReceiveChunk(f) \/ ReceiveEnd(f) \/ ReceiveDiscard(f)
    BY DEF WorkerReceive
<1>5. /\ ReaderTypeOK /\ workerMeta \in Metas /\ unflushed \in Nat
    BY <1>1 DEF WorkerOK
<1> HIDE DEF f
<1>6. WorkerOK' /\ ToHostOK'
  <2>1. CASE ReceiveChunk(f)
    <3>1. f \in Chunks /\ workerMeta' = workerMeta
        BY <1>2, <2>1 DEF ReceiveChunk, WorkerFrames, Chunks
    <3>2. CASE UNCHANGED <<readerVars, unflushed, toHost>>
      <4>1. WorkerOK'
          BY <1>1, <3>1, <3>2, WorkerUnchanged DEF workerVars
      <4>2. QED
          BY <1>1, <3>2, <4>1 DEF ToHostOK
    <3>3. CASE PushChunk(f) /\ QueueStreamCredit(PushGrant(f))
      <4>1. ReaderTypeOK' /\ PushGrant(f) \in Nat
          BY <1>5, <3>1, <3>3, PushChunkType
      <4>2. unflushed' \in Nat /\ ToHostOK'
          BY <1>1, <1>5, <3>3, <4>1, QueueCreditType
      <4>3. QED
          BY <1>5, <3>1, <4>1, <4>2 DEF WorkerOK
    <3>4. QED
        BY <2>1, <3>2, <3>3 DEF ReceiveChunk
  <2>2. CASE ReceiveEnd(f)
    <3>1. CASE UNCHANGED <<workerVars, toHost>>
      <4>1. WorkerOK'
          BY <1>1, <3>1, WorkerUnchanged
      <4>2. QED
          BY <1>1, <3>1, <4>1 DEF ToHostOK
    <3>2. CASE /\ PushEnd(IF f.t = "close" THEN "close" ELSE "error")
               /\ DiscardLocally(<<>>, Discards)
      <4>1. ReaderTypeOK'
        <5> DEFINE kind == IF f.t = "close" THEN "close" ELSE "error"
        <5>1. kind \in {"close", "error"} /\ PushEnd(kind)
            BY <3>2
        <5> HIDE DEF kind
        <5>2. QED
            BY <1>5, <5>1, PushEndType
      <4>2. unflushed' \in Nat /\ workerMeta' \in Metas /\ ToHostOK'
        <5> DEFINE none == <<>>
        <5>1. none \in Seq(HostFrames) /\ DiscardLocally(none, Discards)
            BY <3>2
        <5> HIDE DEF none
        <5>2. QED
            BY <1>1, <1>5, <5>1, DiscardType
      <4>3. QED
          BY <4>1, <4>2 DEF WorkerOK
    <3>3. QED
        BY <2>2, <3>1, <3>2 DEF ReceiveEnd
  <2>3. CASE ReceiveDiscard(f)
    <3>1. ReaderTypeOK' /\ ToHostOK'
        BY <1>1, <1>5, <2>3 DEF ReceiveDiscard, readerVars, ReaderTypeOK, ToHostOK
    <3>2. workerMeta' \in Metas /\ unflushed' \in Nat
        BY <1>5, <2>3, MetaTypes DEF ReceiveDiscard
    <3>3. QED
        BY <3>1, <3>2 DEF WorkerOK
  <2>4. QED
      BY <1>4, <2>1, <2>2, <2>3
<1>7. QED
    BY <1>3, <1>6, TypePartsNext

LEMMA ReadInv ==
    ASSUME HostLaneInv, NEW r \in Readers, Read(r)
    PROVE  HostLaneInv'
<1> USE DEF HostLaneInv
<1>1. /\ SendOK /\ CreditTypeOK /\ WriterOK /\ WorkerOK /\ ToHostOK
      /\ WaitersLackCredit /\ QueuedIsScheduled
    BY TypeParts
<1>2. /\ CreditTypeOK' /\ WriterOK' /\ WaitersLackCredit'
      /\ QueuedIsScheduled' /\ SendOK'
  <2>1. /\ UNCHANGED <<writerVars, historyVars>>
        /\ toWorker' \in Seq(WorkerFrames) /\ workerMeta' = workerMeta
      BY <1>1 DEF Read, SendOK
  <2>2. QED
      BY <1>1, <2>1, WriterSideUnchanged
<1>3. ReaderTypeOK /\ workerMeta \in Metas /\ unflushed \in Nat
    BY <1>1 DEF WorkerOK
<1>4. workerMeta' = workerMeta
    BY DEF Read
<1>5. CASE ReadChunk(r) /\ QueueStreamCredit(ReadGrant)
  <2>1. ReaderTypeOK' /\ ReadGrant \in Nat
      BY <1>3, <1>5, ReadChunkType
  <2>2. unflushed' \in Nat /\ ToHostOK'
      BY <1>1, <1>3, <1>5, <2>1, QueueCreditType
  <2>3. WorkerOK'
      BY <1>3, <1>4, <2>1, <2>2 DEF WorkerOK
  <2>4. QED
      BY <1>2, <2>2, <2>3, TypePartsNext
<1>6. CASE /\ ReadEnded(r) \/ ReadEnd(r) \/ ReadWait(r)
           /\ UNCHANGED <<unflushed, toHost>>
  <2>1. ReaderTypeOK'
      BY <1>3, <1>6, ReadOtherType
  <2>2. WorkerOK' /\ ToHostOK'
      BY <1>1, <1>3, <1>4, <1>6, <2>1 DEF WorkerOK, ToHostOK
  <2>3. QED
      BY <1>2, <2>2, TypePartsNext
<1>7. QED
    BY <1>5, <1>6 DEF Read

LEMMA CancelReaderInv ==
    ASSUME HostLaneInv, CancelReader
    PROVE  HostLaneInv'
<1> USE DEF HostLaneInv
<1>1. /\ SendOK /\ CreditTypeOK /\ WriterOK /\ WorkerOK /\ ToHostOK
      /\ WaitersLackCredit /\ QueuedIsScheduled
    BY TypeParts
<1>2. /\ CreditTypeOK' /\ WriterOK' /\ WaitersLackCredit'
      /\ QueuedIsScheduled' /\ SendOK'
  <2>1. UNCHANGED <<writerVars, historyVars>> /\ toWorker' \in Seq(WorkerFrames)
      BY <1>1 DEF CancelReader, SendOK
  <2>2. QED
      BY <1>1, <2>1, WriterSideUnchanged
<1>3. ReaderTypeOK'
    BY <1>1, CancelReadType DEF CancelReader, WorkerOK
<1>4. unflushed' \in Nat /\ workerMeta' \in Metas /\ ToHostOK'
  <2> DEFINE frames == <<Control("cancel")>>
             gaveUp == ~reader.discarded
  <2>1. frames \in Seq(HostFrames)
      BY FrameKinds
  <2>2. DiscardLocally(frames, gaveUp)
      BY DEF CancelReader
  <2> HIDE DEF frames, gaveUp
  <2>3. QED
      BY <1>1, <2>1, <2>2, DiscardType DEF WorkerOK
<1>5. QED
    BY <1>2, <1>3, <1>4, TypePartsNext DEF WorkerOK

-----------------------------------------------------------------------------
(***************************************************************************)
(* The invariant holds, and what it says.                                  *)
(***************************************************************************)
LEMMA InvStep == HostLaneInv /\ [Next]_vars => HostLaneInv'
<1>1. SUFFICES ASSUME HostLaneInv, [Next]_vars
               PROVE  HostLaneInv'
    OBVIOUS
<1>2. CASE UNCHANGED vars
    BY <1>1, <1>2
    DEF HostLaneInv, vars, writerVars, workerVars, historyVars, creditVars,
        queueVars, readerVars, HostLaneTypeOK, ReaderTypeOK, CreditTypeOK,
        WaitersLackCredit, QueuedIsScheduled
<1>3. ASSUME NEW c \in Callers, NEW n \in Sizes, Write(c, n) \/ Ready(c, n)
      PROVE  HostLaneInv'
    BY <1>1, <1>3, WriteInv, ReadyInv
<1>4. ASSUME NEW c \in Callers, NEW sizes \in Batches, WriteMany(c, sizes)
      PROVE  HostLaneInv'
    BY <1>1, <1>4, WriteManyInv
<1>5. CASE Resume
    BY <1>1, <1>5, ResumeInv
<1>6. CASE FlushTick
    BY <1>1, <1>6, FlushTickInv
<1>7. CASE Close
    BY <1>1, <1>7, CloseInv
<1>8. ASSUME NEW kind \in {"error", "cancel"}, Abort(kind)
      PROVE  HostLaneInv'
    BY <1>1, <1>8, AbortInv
<1>9. CASE HostReceive
    BY <1>1, <1>9, HostReceiveInv
<1>10. CASE WorkerReceive
    BY <1>1, <1>10, WorkerReceiveInv
<1>11. ASSUME NEW r \in Readers, Read(r)
       PROVE  HostLaneInv'
    BY <1>1, <1>11, ReadInv
<1>12. CASE CancelReader
    BY <1>1, <1>12, CancelReaderInv
<1>13. QED
    BY <1>1, <1>2, <1>3, <1>4, <1>5, <1>6, <1>7, <1>8, <1>9, <1>10, <1>11, <1>12
    DEF Next

\* The lane keeps its types (the fields of streamWriterCredits, the queues,
\* the reader and the two stream tables), for any number of callers.
THEOREM TypeCorrect == Spec => []HostLaneTypeOK
<1>1. HostLaneInv => HostLaneTypeOK
    BY DEF HostLaneInv
<1>2. QED
    BY <1>1, InvInit, InvStep, PTL DEF Spec

\* No lost wakeup, for any number of callers, any window and any mixture of
\* calls: addWriterCredit never leaves a call waiting that the balance covers.
THEOREM NoLostWakeup == Spec => []WaitersLackCredit
<1>1. HostLaneInv => WaitersLackCredit
    BY DEF HostLaneInv
<1>2. QED
    BY <1>1, InvInit, InvStep, PTL DEF Spec

\* A chunk in queuedFastChunks always has its setImmediate callback pending,
\* whatever the flush limits are and however posts fail.
THEOREM NothingStranded == Spec => []QueuedIsScheduled
<1>1. HostLaneInv => QueuedIsScheduled
    BY DEF HostLaneInv
<1>2. QED
    BY <1>1, InvInit, InvStep, PTL DEF Spec
-----------------------------------------------------------------------------
(***************************************************************************)
(* A pending call is in one place, for any number of callers.  That it has *)
(* one entry is not inductive by itself: a step must also know that the    *)
(* entry is not shared, and that a waiter needs the bytes its call sends   *)
(* next, which is what CallsTracked adds.                                  *)
(***************************************************************************)
LEMMA WriteTracked ==
    ASSUME HostLaneInv, CallsTracked, NEW c \in Callers, NEW n \in Sizes, Write(c, n)
    PROVE  CallsTracked'
<1> DEFINE ch == Chunk(nextId, n)
           todo == <<ch>>
<1>1. CreditTypeOK /\ WriterOK
    BY TypeParts DEF HostLaneInv
<1>2. ch \in Chunks /\ n \in Nat /\ ch.bytes = n /\ n # 0
    BY <1>1, NewChunk, HostLaneAssumption DEF WriterOK
<1>3. call[c] = NoCall
    BY DEF Write, MayCall
<1>4. UNCHANGED <<waiters, jobs, call>> \/ Block(c, n, todo)
    BY DEF Write
<1> HIDE DEF ch
<1>5. todo \in Seq(Chunks) /\ Head(todo) = ch
    BY <1>2
<1> HIDE DEF todo
<1>6. QED
    BY <1>1, <1>2, <1>3, <1>4, <1>5, CallsTrackedUnchanged, CallsTrackedBlock

LEMMA WriteManyTracked ==
    ASSUME HostLaneInv, CallsTracked, NEW c \in Callers, NEW sizes \in Batches,
           WriteMany(c, sizes)
    PROVE  CallsTracked'
<1> DEFINE chunks == [i \in DOMAIN sizes |-> Chunk(nextId + i - 1, sizes[i])]
           n == Head(chunks).bytes
<1>1. CreditTypeOK /\ WriterOK
    BY TypeParts DEF HostLaneInv
<1>2. chunks \in Seq(Chunks) /\ chunks # <<>>
    BY <1>1, BatchChunks DEF WriterOK
<1>3. call[c] = NoCall
    BY DEF WriteMany, MayCall
<1>4. UNCHANGED <<waiters, jobs, call>> \/ Block(c, n, chunks)
    BY DEF WriteMany
<1> HIDE DEF chunks
<1>5. n \in Nat
  <2>1. Head(chunks) \in Chunks
      BY <1>2
  <2>2. QED
      BY <2>1, FrameKinds
<1>6. QED
    BY <1>1, <1>2, <1>3, <1>4, <1>5, CallsTrackedUnchanged, CallsTrackedBlock

LEMMA ReadyTracked ==
    ASSUME HostLaneInv, CallsTracked, NEW c \in Callers, NEW n \in Sizes, Ready(c, n)
    PROVE  CallsTracked'
<1> DEFINE none == <<>>
<1>1. CreditTypeOK
    BY TypeParts DEF HostLaneInv
<1>2. none \in Seq(Chunks) /\ n \in Nat /\ n # 0
    BY HostLaneAssumption
<1>3. call[c] = NoCall /\ Block(c, n, none)
    BY DEF Ready, MayCall
<1>4. none = <<>>
    OBVIOUS
<1> HIDE DEF none
<1>5. none # <<>> => n = Head(none).bytes
    BY <1>4
<1>6. QED
    BY <1>1, <1>2, <1>3, <1>5, CallsTrackedBlock

LEMMA ResumeTracked ==
    ASSUME HostLaneInv, CallsTracked, Resume
    PROVE  CallsTracked'
<1> DEFINE c == Head(jobs).caller
           todo == call[c].todo
<1>1. CreditTypeOK /\ jobs # <<>> /\ Continues(c, todo)
    BY TypeParts DEF HostLaneInv, Resume, Continues
<1>2. \/ Settle(c)
      \/ /\ todo # <<>>
         /\ Tail(todo) # <<>>
         /\ call' = [call EXCEPT ![c] = [need |-> todo[2].bytes, todo |-> Tail(todo)]]
         /\ WaitForCredit(c, todo[2].bytes, credits', Tail(jobs))
    BY <1>1, Continuing, Zenon
<1>3. c \in Callers /\ todo \in Seq(Chunks)
    BY <1>1, HeadJob
<1>4. CASE Settle(c)
    BY <1>1, <1>4, CallsTrackedSettle
<1>5. CASE /\ todo # <<>>
           /\ Tail(todo) # <<>>
           /\ call' = [call EXCEPT ![c] = [need |-> todo[2].bytes, todo |-> Tail(todo)]]
           /\ WaitForCredit(c, todo[2].bytes, credits', Tail(jobs))
  <2> DEFINE rest == Tail(todo)
             n == todo[2].bytes
  <2> HIDE DEF todo
  <2>1. rest \in Seq(Chunks) /\ rest # <<>> /\ Head(rest) = todo[2] /\ todo[2] \in Chunks
      BY <1>3, <1>5
  <2>2. n \in Nat
      BY <2>1, FrameKinds
  <2>3. /\ WaitForCredit(c, n, credits', Tail(jobs))
        /\ call' = [call EXCEPT ![c] = [need |-> n, todo |-> rest]]
        /\ n = Head(rest).bytes
      BY <1>5, <2>1
  <2> HIDE DEF rest, n
  <2>4. QED
      BY <1>1, <2>1, <2>2, <2>3, CallsTrackedAgain
<1>6. QED
    BY <1>2, <1>4, <1>5

LEMMA EndTracked ==
    ASSUME HostLaneInv, CallsTracked, Close \/ \E kind \in {"error", "cancel"} : Abort(kind)
    PROVE  CallsTracked'
<1>1. CreditTypeOK
    BY TypeParts DEF HostLaneInv
<1>2. UNCHANGED jobs /\ (ReleaseWriter \/ UNCHANGED <<waiters, call>>)
    BY DEF Close, Abort, EndFails, endUnchanged
<1>3. QED
    BY <1>1, <1>2, CallsTrackedRejected, CallsTrackedUnchanged DEF ReleaseWriter

LEMMA HostReceiveTracked ==
    ASSUME HostLaneInv, CallsTracked, HostReceive
    PROVE  CallsTracked'
<1>1. CreditTypeOK
    BY TypeParts DEF HostLaneInv
<1>2. UNCHANGED call /\ (AddWriterCredit(Head(toHost).bytes) \/ UNCHANGED <<waiters, jobs>>)
    BY DEF HostReceive
<1>3. QED
    BY <1>1, <1>2, CallsTrackedGranted, CallsTrackedUnchanged

LEMMA TrackedStep == HostLaneInv /\ CallsTracked /\ [Next]_vars => CallsTracked'
<1>1. SUFFICES ASSUME HostLaneInv, CallsTracked, [Next]_vars
               PROVE  CallsTracked'
    OBVIOUS
<1>2. CASE \/ UNCHANGED vars
           \/ FlushTick
           \/ WorkerReceive
           \/ \E r \in Readers : Read(r)
           \/ CancelReader
  <2>1. UNCHANGED <<waiters, jobs, call>>
      BY <1>2 DEF vars, writerVars, creditVars, FlushTick, WorkerReceive, Read, CancelReader
  <2>2. QED
      BY <1>1, <2>1, CallsTrackedUnchanged
<1>3. QED
    BY <1>1, <1>2, WriteTracked, WriteManyTracked, ReadyTracked, ResumeTracked,
       EndTracked, HostReceiveTracked
    DEF Next

\* A pending call waits for credit or is resumed, never both and never
\* neither, for any number of callers and any mixture of calls: no promise of
\* the writer is forgotten, and no chunk is handed over twice.
THEOREM PendingCallInOnePlace == Spec => []PendingCallIsTracked
<1>1. Init => CallsTracked
    BY CallsTrackedInit DEF Init
<1>2. HostLaneInv /\ CallsTracked => PendingCallIsTracked
  <2>1. HostLaneInv => CreditTypeOK
      BY TypeParts DEF HostLaneInv
  <2>2. QED
      BY <2>1, CallsTrackedOnce
<1>3. QED
    BY <1>1, <1>2, InvInit, InvStep, TrackedStep, PTL DEF Spec
-----------------------------------------------------------------------------
(***************************************************************************)
(* The shape of the traffic: only chunks and credit carry bytes, and what  *)
(* the reader or the worker drops, it drops when the stream has ended.     *)
(***************************************************************************)
PlainWorker == {f \in WorkerFrames : f.t # "chunk" => f.bytes = 0}
PlainHost == {f \in HostFrames : f.t # "credit" => f.bytes = 0}

ChannelsPlain == toWorker \in Seq(PlainWorker) /\ toHost \in Seq(PlainHost)

LocalWhenClosed == workerMeta.local => reader.closed

LaneShape == ChannelsPlain /\ EndedWhenClosed /\ LocalWhenClosed /\ BufferedCovers

LEMMA PlainKinds ==
    /\ Chunks \subseteq PlainWorker
    /\ \A k \in {"close", "error", "cancel", "discard"} : Control(k) \in PlainWorker
    /\ \A k \in {"cancel", "discard"} : Control(k) \in PlainHost
    /\ \A n \in Nat : Credit(n) \in PlainHost
BY FrameKinds DEF PlainWorker, PlainHost, Chunks, Control, Credit

LEMMA PlainConcat ==
    ASSUME toWorker \in Seq(PlainWorker), NEW q \in Seq(Chunks)
    PROVE  toWorker \o q \in Seq(PlainWorker)
<1>1. q \in Seq(PlainWorker)
    BY PlainKinds
<1>2. QED
    BY <1>1

\* However chunks are posted, chunks are all that is posted.
LEMMA PostPlain ==
    ASSUME toWorker \in Seq(PlainWorker), NEW q \in Seq(Chunks), Post(q) \/ PostFindsFull(q)
    PROVE  toWorker' \in Seq(PlainWorker)
<1>1. toWorker' = toWorker \o q \/ toWorker' = toWorker
    BY DEF Post, PostFindsFull
<1>2. QED
    BY <1>1, PlainConcat, Zenon

LEMMA FlushPlain ==
    ASSUME toWorker \in Seq(PlainWorker), NEW q \in Seq(Chunks), FlushFastChunks(q)
    PROVE  toWorker' \in Seq(PlainWorker)
BY PostPlain DEF FlushFastChunks

LEMMA HandOverPlain ==
    ASSUME SendOK, toWorker \in Seq(PlainWorker), NEW ch \in Chunks, HandOver(ch)
    PROVE  toWorker' \in Seq(PlainWorker)
<1> DEFINE one == <<ch>>
           q == Append(queued, ch)
<1>1. one \in Seq(Chunks) /\ q \in Seq(Chunks)
    BY DEF SendOK
<1>2. FlushFastChunks(q) \/ Post(one) \/ PostFindsFull(one) \/ UNCHANGED toWorker
    BY DEF HandOver, Sent, Thrown, QueueFastChunk
<1> HIDE DEF one, q
<1>3. CASE FlushFastChunks(q)
    BY <1>1, <1>3, FlushPlain
<1>4. CASE Post(one) \/ PostFindsFull(one)
    BY <1>1, <1>4, PostPlain
<1>5. CASE UNCHANGED toWorker
    BY <1>5
<1>6. QED
    BY <1>2, <1>3, <1>4, <1>5, Zenon

LEMMA EndPostsPlain ==
    ASSUME SendOK, toWorker \in Seq(PlainWorker), NEW frames \in Seq(PlainWorker),
           NEW oks \in [1 .. 3 -> BOOLEAN], EndPosts(frames, oks)
    PROVE  toWorker' \in Seq(PlainWorker)
<1> DEFINE w == When(oks[1], queued)
<1>1. w \in Seq(PlainWorker)
  <2>1. w \in Seq(Chunks)
      BY DEF When, SendOK
  <2>2. QED
      BY <2>1, PlainKinds
<1>2. toWorker' = toWorker \o w \o frames
    BY DEF EndPosts
<1> HIDE DEF w
<1>3. QED
    BY <1>1, <1>2

LEMMA QueueCreditPlain ==
    ASSUME unflushed \in Nat, toHost \in Seq(PlainHost), NEW n \in Nat, QueueStreamCredit(n)
    PROVE  toHost' \in Seq(PlainHost)
<1>1. Credit(unflushed + n) \in PlainHost
    BY PlainKinds
<1>2. toHost' = Append(toHost, Credit(unflushed + n)) \/ toHost' = toHost
    BY DEF QueueStreamCredit
<1>3. QED
    BY <1>1, <1>2

LEMMA DiscardPlain ==
    ASSUME toHost \in Seq(PlainHost), NEW frames \in Seq(PlainHost),
           NEW gaveUp, DiscardLocally(frames, gaveUp)
    PROVE  toHost' \in Seq(PlainHost)
<1> DEFINE d == <<Control("discard")>>
<1>1. d \in Seq(PlainHost)
    BY PlainKinds
<1>2. toHost' = toHost \o frames \o d \/ toHost' = toHost \o frames
    BY DEF DiscardLocally
<1> HIDE DEF d
<1>3. toHost \o frames \in Seq(PlainHost)
    OBVIOUS
<1>4. (toHost \o frames) \o d \in Seq(PlainHost)
    BY <1>1, <1>3
<1>5. QED
    BY <1>2, <1>3, <1>4, Zenon
\* The writer's steps keep the shape if what they post is plain.
LEMMA ShapeWriter ==
    ASSUME LaneShape, UNCHANGED workerVars, toWorker' \in Seq(PlainWorker),
           toHost' \in Seq(PlainHost)
    PROVE  LaneShape'
BY DEF LaneShape, workerVars, readerVars, ChannelsPlain, EndedWhenClosed, LocalWhenClosed,
       BufferedCovers

LEMMA WriteShape ==
    ASSUME HostLaneInv, LaneShape, NEW c \in Callers, NEW n \in Sizes,
           Write(c, n) \/ Ready(c, n)
    PROVE  LaneShape'
<1> DEFINE ch == Chunk(nextId, n)
<1>1. SendOK /\ WriterOK /\ toWorker \in Seq(PlainWorker) /\ toHost \in Seq(PlainHost)
    BY TypeParts DEF HostLaneInv, LaneShape, ChannelsPlain
<1>2. ch \in Chunks
    BY <1>1, NewChunk DEF WriterOK
<1>3. UNCHANGED workerVars /\ UNCHANGED toHost
    BY DEF Write, Ready, outsideWriter
<1>4. HandOver(ch) \/ UNCHANGED toWorker
    BY DEF Write, Ready, HandOver
<1> HIDE DEF ch
<1>5. toWorker' \in Seq(PlainWorker)
    BY <1>1, <1>2, <1>4, HandOverPlain
<1>6. QED
    BY <1>1, <1>3, <1>5, ShapeWriter

LEMMA WriteManyShape ==
    ASSUME HostLaneInv, LaneShape, NEW c \in Callers, NEW sizes \in Batches,
           WriteMany(c, sizes)
    PROVE  LaneShape'
<1> DEFINE chunks == [i \in DOMAIN sizes |-> Chunk(nextId + i - 1, sizes[i])]
<1>1. SendOK /\ WriterOK /\ toWorker \in Seq(PlainWorker) /\ toHost \in Seq(PlainHost)
    BY TypeParts DEF HostLaneInv, LaneShape, ChannelsPlain
<1>2. chunks \in Seq(Chunks)
    BY <1>1, BatchChunks DEF WriterOK
<1>3. UNCHANGED workerVars /\ UNCHANGED toHost
    BY DEF WriteMany, outsideWriter
<1>4. Post(chunks) \/ PostFindsFull(chunks) \/ UNCHANGED toWorker
    BY DEF WriteMany
<1> HIDE DEF chunks
<1>5. toWorker' \in Seq(PlainWorker)
    BY <1>1, <1>2, <1>4, PostPlain
<1>6. QED
    BY <1>1, <1>3, <1>5, ShapeWriter

LEMMA ResumeShape ==
    ASSUME HostLaneInv, LaneShape, Resume
    PROVE  LaneShape'
<1> DEFINE c == Head(jobs).caller
           todo == call[c].todo
<1>1. /\ SendOK /\ CreditTypeOK
      /\ toWorker \in Seq(PlainWorker) /\ toHost \in Seq(PlainHost)
    BY TypeParts DEF HostLaneInv, LaneShape, ChannelsPlain
<1>2. jobs # <<>> /\ Continues(c, todo)
    BY DEF Resume, Continues
<1>3. UNCHANGED toWorker \/ (todo # <<>> /\ HandOver(Head(todo)))
    BY <1>2, Continuing
<1>4. todo \in Seq(Chunks)
    BY <1>1, <1>2, HeadJob
<1>5. UNCHANGED workerVars /\ UNCHANGED toHost
  <2>1. UNCHANGED <<outsideWriter, nextId>>
      BY Zenon DEF Resume
  <2>2. QED
      BY <2>1 DEF outsideWriter
<1> HIDE DEF todo
<1>6. todo # <<>> => Head(todo) \in Chunks
    BY <1>4
<1>7. toWorker' \in Seq(PlainWorker)
    BY <1>1, <1>3, <1>6, HandOverPlain
<1>8. QED
    BY <1>1, <1>5, <1>7, ShapeWriter

LEMMA EndShape ==
    ASSUME HostLaneInv, LaneShape, FlushTick \/ Close \/ \E kind \in {"error", "cancel"} : Abort(kind)
    PROVE  LaneShape'
<1>1. SendOK /\ toWorker \in Seq(PlainWorker) /\ toHost \in Seq(PlainHost)
    BY TypeParts DEF HostLaneInv, LaneShape, ChannelsPlain
<1>2. UNCHANGED workerVars /\ UNCHANGED toHost
    BY DEF FlushTick, Close, Abort, outsideWriter, endUnchanged
<1>3. CASE FlushTick
  <2>1. queued \in Seq(Chunks) /\ FlushFastChunks(queued)
      BY <1>1, <1>3 DEF SendOK, FlushTick
  <2>2. QED
      BY <1>1, <1>2, <2>1, FlushPlain, ShapeWriter
<1>4. CASE \E frames \in Seq(PlainWorker), oks \in [1 .. 3 -> BOOLEAN] : EndPosts(frames, oks)
    BY <1>1, <1>2, <1>4, EndPostsPlain, ShapeWriter
<1>5. ASSUME NEW oks \in [1 .. 3 -> BOOLEAN]
      PROVE  /\ When(oks[2], <<Control("close")>>) \o When(oks[3], <<Control("discard")>>)
                   \in Seq(PlainWorker)
             /\ \A kind \in {"error", "cancel"} :
                   <<Control(kind)>> \o When(oks[3], <<Control("discard")>>) \in Seq(PlainWorker)
             /\ <<>> \in Seq(PlainWorker)
    BY PlainKinds DEF When
<1>6. CASE Close
  <2>1. PICK oks \in [1 .. 3 -> BOOLEAN] :
           \/ EndPosts(When(oks[2], <<Control("close")>>)
                         \o When(oks[3], <<Control("discard")>>), oks)
           \/ EndPosts(<<>>, oks)
      BY <1>6 DEF Close, EndFails
  <2>2. QED
      BY <1>4, <1>5, <2>1
<1>7. ASSUME NEW kind \in {"error", "cancel"}, Abort(kind)
      PROVE  LaneShape'
  <2>1. PICK oks \in [1 .. 3 -> BOOLEAN] :
           \/ EndPosts(<<Control(kind)>> \o When(oks[3], <<Control("discard")>>), oks)
           \/ EndPosts(<<>>, oks)
      BY <1>7 DEF Abort, EndFails
  <2>2. QED
      BY <1>4, <1>5, <2>1
<1>8. QED
    BY <1>3, <1>6, <1>7

LEMMA HostReceiveShape ==
    ASSUME HostLaneInv, LaneShape, HostReceive
    PROVE  LaneShape'
<1>1. toHost' \in Seq(PlainHost)
    BY DEF HostReceive, LaneShape, ChannelsPlain
<1>2. UNCHANGED workerVars /\ toWorker' \in Seq(PlainWorker)
    BY DEF HostReceive, LaneShape, ChannelsPlain
<1>3. QED
    BY <1>1, <1>2, ShapeWriter
-----------------------------------------------------------------------------
(***************************************************************************)
(* The books of the lane.  Share are the bytes the worker answers for: the *)
(* ones its reader holds and the credit on the way back.  Total adds the   *)
(* bytes on the way there and the ones a full channel swallowed.           *)
(***************************************************************************)
Share == Held + unflushed + Bytes(toHost)
Total == OnTheWay + lost + Share

LEMMA TotalNat ==
    ASSUME HostLaneInv
    PROVE  /\ Bytes(queued) \in Nat /\ Bytes(toWorker) \in Nat /\ OnTheWay \in Nat
           /\ lost \in Nat /\ unflushed \in Nat /\ Bytes(toHost) \in Nat
           /\ reader.buffered \in Nat /\ reader.pendingCredit \in Nat /\ Held \in Nat
           /\ Share \in Nat /\ Total \in Nat /\ credits \in Nat
<1>1. SendOK /\ CreditTypeOK /\ WorkerOK /\ ToHostOK
    BY TypeParts DEF HostLaneInv
<1>2. Bytes(queued) \in Nat /\ Bytes(toWorker) \in Nat /\ OnTheWay \in Nat
    BY <1>1, OnTheWayNat
<1>3. Bytes(toHost) \in Nat
    BY <1>1, FrameKinds, BytesNat DEF ToHostOK
<1>4. reader.buffered \in Nat /\ reader.pendingCredit \in Nat
    BY <1>1, ReaderFields DEF WorkerOK
<1>5. lost \in Nat /\ unflushed \in Nat /\ credits \in Nat
    BY <1>1 DEF SendOK, WorkerOK, CreditTypeOK
<1>6. Held \in Nat
    BY <1>4 DEF Held
<1>7. Share \in Nat
    BY <1>3, <1>5, <1>6 DEF Share
<1>8. Total \in Nat
    BY <1>2, <1>5, <1>7 DEF Total
<1>9. QED
    BY <1>2, <1>3, <1>4, <1>5, <1>6, <1>7, <1>8

\* Credit that is queued stays in the books, withheld or sent.
LEMMA QueueCreditLedger ==
    ASSUME unflushed \in Nat, ToHostOK, NEW n \in Nat, QueueStreamCredit(n)
    PROVE  /\ unflushed' \in Nat /\ Bytes(toHost') \in Nat
           /\ unflushed' + Bytes(toHost') = unflushed + Bytes(toHost) + n
<1> DEFINE next == unflushed + n
           h == Append(toHost, Credit(next))
<1>1. next \in Nat /\ Bytes(toHost) \in Nat
    BY FrameKinds, BytesNat DEF ToHostOK
<1>2. Credit(next) \in HostFrames /\ Credit(next).bytes = next
    BY <1>1, FrameKinds
<1>3. Bytes(h) = Bytes(toHost) + next
    BY <1>2, FrameKinds, BytesAppend DEF ToHostOK
<1>4. \/ toHost' = h /\ unflushed' = 0
      \/ toHost' = toHost /\ unflushed' = next
    BY DEF QueueStreamCredit
<1> HIDE DEF h
<1>5. QED
    BY <1>1, <1>3, <1>4

\* Giving up costs no credit but what was withheld.
LEMMA DiscardLedger ==
    ASSUME unflushed \in Nat, ToHostOK, NEW frames \in Seq(HostFrames), Bytes(frames) = 0,
           NEW gaveUp, DiscardLocally(frames, gaveUp)
    PROVE  Bytes(toHost') = Bytes(toHost) /\ unflushed' \in Nat /\ unflushed' <= unflushed
<1> DEFINE d == <<Control("discard")>>
           h == toHost \o frames
<1>1. d \in Seq(HostFrames) /\ Bytes(d) = 0 /\ Bytes(toHost) \in Nat
  <2>1. Control("discard") \in HostFrames /\ Control("discard").bytes = 0
      BY FrameKinds
  <2>2. d \in Seq(HostFrames)
      BY <2>1
  <2>3. Bytes(d) = 0
      BY <2>1, BytesOne
  <2>4. QED
      BY <2>2, <2>3, FrameKinds, BytesNat DEF ToHostOK
<1>2. h \in Seq(HostFrames) /\ Bytes(h) = Bytes(toHost)
  <2>1. h \in Seq(HostFrames)
      BY DEF ToHostOK
  <2>2. Bytes(h) = Bytes(toHost) + Bytes(frames)
      BY FrameKinds, BytesConcat DEF ToHostOK
  <2>3. QED
      BY <1>1, <2>1, <2>2
<1>3. toHost' = h \o d \/ toHost' = h
    BY DEF DiscardLocally
<1> HIDE DEF d, h
<1>4. Bytes(h \o d) = Bytes(h) + Bytes(d)
    BY <1>1, <1>2, FrameKinds, BytesConcat
<1>5. Bytes(toHost') = Bytes(toHost)
  <2>1. Bytes(h \o d) = Bytes(toHost)
      BY <1>1, <1>2, <1>4
  <2>2. QED
      BY <1>2, <1>3, <2>1, Zenon
<1>6. unflushed' \in Nat /\ unflushed' <= unflushed
    BY DEF DiscardLocally
<1>7. QED
    BY <1>5, <1>6

\* A frame the worker takes was on its way.
LEMMA TakeFrame ==
    ASSUME SendOK, toWorker # <<>>, toWorker' = Tail(toWorker), queued' = queued
    PROVE  /\ Head(toWorker) \in WorkerFrames /\ Head(toWorker).bytes \in Nat
           /\ OnTheWay' \in Nat
           /\ OnTheWay = OnTheWay' + Head(toWorker).bytes
<1>1. Head(toWorker) \in WorkerFrames /\ Tail(toWorker) \in Seq(WorkerFrames)
    BY DEF SendOK
<1>2. Head(toWorker).bytes \in Nat /\ Bytes(Tail(toWorker)) \in Nat /\ Bytes(queued) \in Nat
    BY <1>1, FrameKinds, BytesNat, OnTheWayNat
<1>3. Bytes(toWorker) = Head(toWorker).bytes + Bytes(Tail(toWorker))
    BY FrameKinds, BytesTail DEF SendOK
<1>4. OnTheWay' = Bytes(queued) + Bytes(Tail(toWorker))
    BY DEF OnTheWay
<1>5. QED
    BY <1>1, <1>2, <1>3, <1>4 DEF OnTheWay
\* What every step of the worker does to the books: nothing is added to the
\* total, and nothing leaves it before the stream has ended.
BooksKept ==
    /\ Total' \in Nat /\ Total' <= Total
    /\ ~reader'.closed => (~reader.closed /\ Total' = Total)

\* The sum, from its parts before and after a step.
LEMMA TotalSum ==
    ASSUME HostLaneInv, lost' = lost,
           NEW n \in Nat, OnTheWay' \in Nat, OnTheWay' + n = OnTheWay,
           Held' \in Nat, unflushed' \in Nat, Bytes(toHost') \in Nat,
           Held' + unflushed' + Bytes(toHost') <= Share + n
    PROVE  /\ Total' \in Nat /\ Total' <= Total
           /\ Held' + unflushed' + Bytes(toHost') = Share + n => Total' = Total
<1> DEFINE o == OnTheWay
           o1 == OnTheWay'
           s == Share
           s1 == Held' + unflushed' + Bytes(toHost')
           l == lost
<1>1. Total = o + l + s
    BY DEF Total
<1>2. Total' = o1 + l + s1
    BY DEF Total, Share
<1>3. o \in Nat /\ o1 \in Nat /\ s \in Nat /\ l \in Nat /\ s1 \in Nat /\ o1 + n = o /\ s1 <= s + n
    BY TotalNat
<1> HIDE DEF o, o1, s, s1, l
<1>4. Total' \in Nat /\ Total' <= Total /\ (s1 = s + n => Total' = Total)
    BY <1>1, <1>2, <1>3
<1>5. QED
    BY <1>4 DEF s, s1

LEMMA ReceiveChunkBooks ==
    ASSUME HostLaneInv, LaneShape, WorkerReceive, ReceiveChunk(Head(toWorker))
    PROVE  LaneShape' /\ BooksKept
<1> DEFINE f == Head(toWorker)
           n == f.bytes
           g == PushGrant(f)
<1>1. /\ SendOK /\ WorkerOK /\ ToHostOK
      /\ ReaderTypeOK /\ workerMeta \in Metas /\ unflushed \in Nat
    BY TypeParts DEF HostLaneInv, WorkerOK
<1>2. /\ ChannelsPlain /\ EndedWhenClosed /\ LocalWhenClosed /\ BufferedCovers
      /\ toWorker \in Seq(PlainWorker) /\ toHost \in Seq(PlainHost)
    BY DEF LaneShape, ChannelsPlain
<1>3. /\ toWorker # <<>> /\ toWorker' = Tail(toWorker) /\ queued' = queued /\ lost' = lost
      /\ workerMeta' = workerMeta
    BY DEF WorkerReceive, writerVars, queueVars, historyVars, ReceiveChunk
<1>4. n \in Nat /\ OnTheWay' \in Nat /\ OnTheWay' + n = OnTheWay
    BY <1>1, <1>3, TakeFrame, TotalNat
<1>5. f \in Chunks
  <2>1. f \in WorkerFrames /\ f.t = "chunk"
      BY <1>1, <1>3, TakeFrame DEF ReceiveChunk
  <2>2. QED
      BY <2>1 DEF WorkerFrames, Chunks
<1>6. toWorker' \in Seq(PlainWorker)
    BY <1>2, <1>3
<1>7. /\ Held \in Nat /\ Bytes(toHost) \in Nat /\ Share = Held + unflushed + Bytes(toHost)
    BY TotalNat DEF Share
<1>8. \/ Released(workerMeta) /\ UNCHANGED <<readerVars, unflushed, toHost>>
      \/ PushChunk(f) /\ QueueStreamCredit(g)
    BY DEF ReceiveChunk
<1> HIDE DEF f, n, g
<1>9. CASE Released(workerMeta) /\ UNCHANGED <<readerVars, unflushed, toHost>>
  <2>1. reader.closed
      BY <1>2, <1>9 DEF Released, Gone, LocalWhenClosed
  <2>2. UNCHANGED workerVars /\ reader' = reader
      BY <1>3, <1>9 DEF workerVars, readerVars
  <2>3. LaneShape'
      BY <1>2, <1>6, <1>9, <2>2, ShapeWriter
  <2>4. Held' = Held /\ unflushed' = unflushed /\ toHost' = toHost
      BY <1>9, <2>2 DEF Held
  <2>5. Held' + unflushed' + Bytes(toHost') <= Share + n
      BY <1>1, <1>4, <1>7, <2>4
  <2>6. Total' \in Nat /\ Total' <= Total
      BY <1>1, <1>3, <1>4, <1>7, <2>4, <2>5, TotalSum
  <2>7. QED
      BY <2>1, <2>2, <2>3, <2>6 DEF BooksKept
<1>10. CASE PushChunk(f) /\ QueueStreamCredit(g)
  <2>1. g \in Nat /\ ReaderTypeOK'
      BY <1>1, <1>5, <1>10, PushChunkType DEF g
  <2>2. /\ BufferedCovers' /\ reader'.closed = reader.closed
        /\ Ignoring => Held' = Held /\ g = 0
        /\ ~Ignoring => Held' + g = Held + n
      BY <1>1, <1>2, <1>5, <1>10, PushChunkLedger DEF g, n
  <2>3. Ignoring => reader.closed
      BY <1>2 DEF Ignoring, EndedWhenClosed
  <2>4. /\ unflushed' \in Nat /\ Bytes(toHost') \in Nat
        /\ unflushed' + Bytes(toHost') = unflushed + Bytes(toHost) + g
      BY <1>1, <1>10, <2>1, QueueCreditLedger
  <2>5. Held' \in Nat
    <3>1. reader'.buffered \in Nat /\ reader'.pendingCredit \in Nat
        BY <2>1 DEF ReaderTypeOK, ReaderRecords
    <3>2. QED
        BY <3>1 DEF Held
  <2>6. /\ Held' + unflushed' + Bytes(toHost') <= Share + n
        /\ ~Ignoring => Held' + unflushed' + Bytes(toHost') = Share + n
    <3> DEFINE h == Held
               h1 == Held'
               u1 == unflushed'
               b == Bytes(toHost)
               b1 == Bytes(toHost')
    <3>1. /\ h \in Nat /\ h1 \in Nat /\ unflushed \in Nat /\ u1 \in Nat /\ b \in Nat /\ b1 \in Nat
          /\ n \in Nat /\ g \in Nat
          /\ Share = h + unflushed + b
          /\ u1 + b1 = unflushed + b + g
          /\ Ignoring => h1 = h /\ g = 0
          /\ ~Ignoring => h1 + g = h + n
        BY <1>1, <1>4, <1>7, <2>1, <2>2, <2>4, <2>5
    <3> HIDE DEF h, h1, u1, b, b1
    <3>2. h1 + u1 + b1 <= Share + n /\ (~Ignoring => h1 + u1 + b1 = Share + n)
        BY <3>1
    <3>3. QED
        BY <3>2 DEF h1, u1, b1
  <2>7. /\ Total' \in Nat /\ Total' <= Total
        /\ ~Ignoring => Total' = Total
      BY <1>3, <1>4, <2>4, <2>5, <2>6, TotalSum
  <2>8. toHost' \in Seq(PlainHost)
      BY <1>1, <1>2, <1>10, <2>1, QueueCreditPlain
  <2>9. EndedWhenClosed'
      BY <1>1, <1>2, <1>5, <1>10, EndedPushChunk
  <2>10. LocalWhenClosed'
      BY <1>2, <1>3, <2>2 DEF LocalWhenClosed
  <2>11. LaneShape'
      BY <1>6, <2>2, <2>8, <2>9, <2>10 DEF LaneShape, ChannelsPlain
  <2>12. QED
      BY <2>2, <2>3, <2>7, <2>11 DEF BooksKept
<1>11. QED
    BY <1>8, <1>9, <1>10
\* An end that only gives up what was withheld keeps the books.
LEMMA BooksGivenUp ==
    ASSUME HostLaneInv, lost' = lost, reader'.closed,
           NEW n \in Nat, OnTheWay' \in Nat, OnTheWay' + n = OnTheWay,
           Held' = Held, unflushed' \in Nat, unflushed' <= unflushed,
           Bytes(toHost') = Bytes(toHost)
    PROVE  BooksKept
<1>1. Held \in Nat /\ unflushed \in Nat /\ Bytes(toHost) \in Nat
    BY TotalNat
<1>2. Held' + unflushed' + Bytes(toHost') <= Share + n
  <2>1. Share = Held + unflushed + Bytes(toHost)
      BY DEF Share
  <2>2. QED
      BY <1>1, <2>1
<1>3. Total' \in Nat /\ Total' <= Total
    BY <1>1, <1>2, TotalSum
<1>4. QED
    BY <1>3 DEF BooksKept

LEMMA ReceiveEndBooks ==
    ASSUME HostLaneInv, LaneShape, WorkerReceive,
           ReceiveEnd(Head(toWorker)) \/ ReceiveDiscard(Head(toWorker))
    PROVE  LaneShape' /\ BooksKept
<1> DEFINE f == Head(toWorker)
           kind == IF f.t = "close" THEN "close" ELSE "error"
           none == <<>>
<1>1. /\ SendOK /\ WorkerOK /\ ToHostOK
      /\ ReaderTypeOK /\ workerMeta \in Metas /\ unflushed \in Nat
    BY TypeParts DEF HostLaneInv, WorkerOK
<1>2. /\ ChannelsPlain /\ EndedWhenClosed /\ LocalWhenClosed /\ BufferedCovers
      /\ toWorker \in Seq(PlainWorker) /\ toHost \in Seq(PlainHost)
    BY DEF LaneShape, ChannelsPlain
<1>3. /\ toWorker # <<>> /\ toWorker' = Tail(toWorker) /\ queued' = queued /\ lost' = lost
    BY DEF WorkerReceive, writerVars, queueVars, historyVars
<1>4. f \in PlainWorker /\ toWorker' \in Seq(PlainWorker)
    BY <1>2, <1>3
<1>5. f.bytes = 0
    BY <1>4 DEF ReceiveEnd, ReceiveDiscard, PlainWorker
<1>6. OnTheWay' \in Nat /\ OnTheWay' + 0 = OnTheWay
    BY <1>1, <1>3, <1>5, TakeFrame, TotalNat
<1>7. CASE UNCHANGED <<workerVars, toHost>>
  <2>1. LaneShape'
      BY <1>2, <1>4, <1>7, ShapeWriter
  <2>2. Held' = Held /\ unflushed' = unflushed /\ toHost' = toHost /\ reader' = reader
      BY <1>7 DEF Held, workerVars, readerVars
  <2>3. Held \in Nat /\ Bytes(toHost) \in Nat /\ Share = Held + unflushed + Bytes(toHost)
      BY TotalNat DEF Share
  <2>4. Held' + unflushed' + Bytes(toHost') = Share + 0
      BY <1>1, <2>2, <2>3
  <2>5. Total' \in Nat /\ Total' = Total
    <3>1. /\ Held' \in Nat /\ unflushed' \in Nat /\ Bytes(toHost') \in Nat /\ Share \in Nat
          /\ Held' + unflushed' + Bytes(toHost') <= Share + 0
        BY <1>1, <2>2, <2>3, <2>4, TotalNat
    <3>2. QED
        BY <1>3, <1>6, <2>4, <3>1, TotalSum
  <2>6. QED
      BY <2>1, <2>2, <2>5, TotalNat DEF BooksKept
<1>8. CASE PushEnd(kind) /\ DiscardLocally(none, Discards)
  <2>0. kind \in {"close", "error"}
      OBVIOUS
  <2>1. none \in Seq(HostFrames) /\ none \in Seq(PlainHost) /\ Bytes(none) = 0
      BY BytesEmpty
  <2> HIDE DEF kind, none, f
  <2>2. BufferedCovers' /\ Held' = Held /\ reader'.closed
      BY <1>1, <1>2, <1>8, <2>0, PushEndLedger
  <2>3. EndedWhenClosed'
      BY <1>1, <1>2, <1>8, <2>0, EndedOnceClosed
  <2>4. LocalWhenClosed'
      BY <2>2 DEF LocalWhenClosed
  <2>5. toHost' \in Seq(PlainHost)
      BY <1>2, <1>8, <2>1, DiscardPlain
  <2>6. Bytes(toHost') = Bytes(toHost) /\ unflushed' \in Nat /\ unflushed' <= unflushed
      BY <1>1, <1>8, <2>1, DiscardLedger
  <2>7. BooksKept
      BY <1>3, <1>6, <2>2, <2>6, BooksGivenUp
  <2>8. QED
      BY <1>4, <2>2, <2>3, <2>4, <2>5, <2>7 DEF LaneShape, ChannelsPlain
<1>9. CASE ReceiveDiscard(f)
  <2>1. /\ UNCHANGED <<readerVars, toHost>>
        /\ workerMeta' = MarkRemote(workerMeta)
        /\ unflushed' = unflushed \/ (workerMeta.local /\ unflushed' = 0)
      BY <1>9 DEF ReceiveDiscard
  <2>2. workerMeta'.local = workerMeta.local
      BY <1>1, <2>1 DEF Metas, MarkRemote
  <2>3. reader' = reader /\ Held' = Held /\ toHost' = toHost /\ BufferedCovers' /\ EndedWhenClosed'
      BY <1>2, <2>1 DEF readerVars, Held, BufferedCovers, EndedWhenClosed
  <2>4. LaneShape'
      BY <1>2, <1>4, <2>2, <2>3 DEF LaneShape, ChannelsPlain, LocalWhenClosed
  <2>5. CASE unflushed' = unflushed
    <3>1. Held \in Nat /\ Bytes(toHost) \in Nat /\ Share = Held + unflushed + Bytes(toHost)
        BY TotalNat DEF Share
    <3>2. /\ Held' + unflushed' + Bytes(toHost') = Share + 0
          /\ Held' \in Nat /\ unflushed' \in Nat /\ Bytes(toHost') \in Nat /\ Share \in Nat
          /\ Held' + unflushed' + Bytes(toHost') <= Share + 0
        BY <1>1, <2>3, <2>5, <3>1, TotalNat
    <3>3. Total' \in Nat /\ Total' = Total
        BY <1>3, <1>6, <3>2, TotalSum
    <3>4. QED
        BY <2>3, <2>4, <3>3, TotalNat DEF BooksKept
  <2>6. CASE workerMeta.local /\ unflushed' = 0
    <3>1. reader'.closed /\ unflushed' \in Nat /\ unflushed' <= unflushed
        BY <1>1, <1>2, <2>3, <2>6 DEF LocalWhenClosed
    <3>2. BooksKept
        BY <1>3, <1>6, <2>3, <3>1, BooksGivenUp
    <3>3. QED
        BY <2>4, <3>2
  <2>7. QED
      BY <2>1, <2>5, <2>6
<1>10. QED
    BY <1>7, <1>8, <1>9 DEF ReceiveEnd

LEMMA ReadBooks ==
    ASSUME HostLaneInv, LaneShape, NEW r \in Readers, Read(r)
    PROVE  LaneShape' /\ BooksKept
<1>1. /\ SendOK /\ WorkerOK /\ ToHostOK
      /\ ReaderTypeOK /\ workerMeta \in Metas /\ unflushed \in Nat
    BY TypeParts DEF HostLaneInv, WorkerOK
<1>2. /\ ChannelsPlain /\ EndedWhenClosed /\ LocalWhenClosed /\ BufferedCovers
      /\ toWorker \in Seq(PlainWorker) /\ toHost \in Seq(PlainHost)
    BY DEF LaneShape, ChannelsPlain
<1>3. /\ toWorker' = toWorker /\ queued' = queued /\ lost' = lost /\ workerMeta' = workerMeta
    BY DEF Read, writerVars, queueVars, historyVars
<1>4. OnTheWay' = OnTheWay
    BY <1>3 DEF OnTheWay
<1>5. /\ OnTheWay \in Nat /\ OnTheWay' \in Nat /\ OnTheWay' + 0 = OnTheWay
      /\ Held \in Nat /\ Bytes(toHost) \in Nat /\ Share \in Nat
      /\ Share = Held + unflushed + Bytes(toHost)
    BY <1>4, TotalNat DEF Share
<1>6. EndedWhenClosed'
    BY <1>1, <1>2, EndedRead DEF Read
<1>7. SUFFICES /\ BufferedCovers' /\ reader'.closed = reader.closed
               /\ toHost' \in Seq(PlainHost)
               /\ Held' \in Nat /\ unflushed' \in Nat /\ Bytes(toHost') \in Nat
               /\ Held' + unflushed' + Bytes(toHost') = Held + unflushed + Bytes(toHost)
  <2>1. ASSUME /\ BufferedCovers' /\ reader'.closed = reader.closed
               /\ toHost' \in Seq(PlainHost)
               /\ Held' \in Nat /\ unflushed' \in Nat /\ Bytes(toHost') \in Nat
               /\ Held' + unflushed' + Bytes(toHost') = Held + unflushed + Bytes(toHost)
        PROVE  LaneShape' /\ BooksKept
    <3>1. LaneShape'
        BY <1>2, <1>3, <1>6, <2>1 DEF LaneShape, ChannelsPlain, LocalWhenClosed
    <3>2. /\ Held' + unflushed' + Bytes(toHost') = Share + 0
          /\ Held' + unflushed' + Bytes(toHost') <= Share + 0
        BY <1>5, <2>1
    <3>3. Total' \in Nat /\ Total' = Total
        BY <1>3, <1>5, <2>1, <3>2, TotalSum
    <3>4. QED
        BY <2>1, <3>1, <3>3, TotalNat DEF BooksKept
  <2>2. QED
      BY <2>1
<1>8. CASE ReadChunk(r) /\ QueueStreamCredit(ReadGrant)
  <2> DEFINE g == ReadGrant
  <2>1. ReaderTypeOK' /\ g \in Nat
      BY <1>1, <1>8, ReadChunkType
  <2>2. BufferedCovers' /\ Held' + g = Held /\ reader'.closed = reader.closed
      BY <1>1, <1>2, <1>8, ReadChunkLedger
  <2>3. QueueStreamCredit(g)
      BY <1>8
  <2> HIDE DEF g
  <2>4. /\ unflushed' \in Nat /\ Bytes(toHost') \in Nat
        /\ unflushed' + Bytes(toHost') = unflushed + Bytes(toHost) + g
      BY <1>1, <2>1, <2>3, QueueCreditLedger
  <2>5. toHost' \in Seq(PlainHost)
      BY <1>1, <1>2, <2>1, <2>3, QueueCreditPlain
  <2>6. Held' \in Nat
    <3>1. reader'.buffered \in Nat /\ reader'.pendingCredit \in Nat
        BY <2>1 DEF ReaderTypeOK, ReaderRecords
    <3>2. QED
        BY <3>1 DEF Held
  <2>7. Held' + unflushed' + Bytes(toHost') = Held + unflushed + Bytes(toHost)
    <3> DEFINE h == Held
               h1 == Held'
               u1 == unflushed'
               b == Bytes(toHost)
               b1 == Bytes(toHost')
    <3>1. /\ h \in Nat /\ h1 \in Nat /\ unflushed \in Nat /\ u1 \in Nat /\ b \in Nat /\ b1 \in Nat
          /\ g \in Nat /\ h1 + g = h /\ u1 + b1 = unflushed + b + g
        BY <1>1, <1>5, <2>1, <2>2, <2>4, <2>6
    <3> HIDE DEF h, h1, u1, b, b1
    <3>2. h1 + u1 + b1 = h + unflushed + b
        BY <3>1
    <3>3. QED
        BY <3>2 DEF h, h1, u1, b, b1
  <2>8. QED
      BY <2>2, <2>4, <2>5, <2>6, <2>7
<1>9. CASE /\ ReadEnded(r) \/ ReadEnd(r) \/ ReadWait(r)
           /\ UNCHANGED <<unflushed, toHost>>
  <2>1. BufferedCovers' /\ Held' = Held /\ reader'.closed = reader.closed
      BY <1>1, <1>2, <1>9, ReadOtherLedger
  <2>2. QED
      BY <1>1, <1>2, <1>5, <1>9, <2>1
<1>10. QED
    BY <1>8, <1>9 DEF Read

LEMMA CancelReaderBooks ==
    ASSUME HostLaneInv, LaneShape, CancelReader
    PROVE  LaneShape' /\ BooksKept
<1> DEFINE frames == <<Control("cancel")>>
           gaveUp == ~reader.discarded
<1>1. /\ SendOK /\ WorkerOK /\ ToHostOK
      /\ ReaderTypeOK /\ workerMeta \in Metas /\ unflushed \in Nat
    BY TypeParts DEF HostLaneInv, WorkerOK
<1>2. /\ ChannelsPlain /\ EndedWhenClosed /\ LocalWhenClosed /\ BufferedCovers
      /\ toWorker \in Seq(PlainWorker) /\ toHost \in Seq(PlainHost)
    BY DEF LaneShape, ChannelsPlain
<1>3. /\ toWorker' = toWorker /\ queued' = queued /\ lost' = lost
      /\ CancelRead /\ DiscardLocally(frames, gaveUp)
    BY DEF CancelReader, writerVars, queueVars, historyVars
<1>4. OnTheWay' \in Nat /\ OnTheWay' + 0 = OnTheWay
    BY <1>3, TotalNat DEF OnTheWay
<1>5. frames \in Seq(HostFrames) /\ frames \in Seq(PlainHost) /\ Bytes(frames) = 0
  <2>1. Control("cancel") \in HostFrames /\ Control("cancel") \in PlainHost
        /\ Control("cancel").bytes = 0
      BY FrameKinds, PlainKinds
  <2>2. Bytes(frames) = 0
      BY <2>1, BytesOne
  <2>3. QED
      BY <2>1, <2>2
<1> HIDE DEF frames, gaveUp
<1>6. BufferedCovers' /\ Held' = Held /\ reader'.closed
    BY <1>1, <1>2, <1>3, CancelReadLedger
<1>7. EndedWhenClosed'
    BY <1>1, <1>2, <1>3, EndedOnceClosed
<1>8. toHost' \in Seq(PlainHost)
    BY <1>2, <1>3, <1>5, DiscardPlain
<1>9. Bytes(toHost') = Bytes(toHost) /\ unflushed' \in Nat /\ unflushed' <= unflushed
    BY <1>1, <1>3, <1>5, DiscardLedger
<1>10. BooksKept
    BY <1>3, <1>4, <1>6, <1>9, BooksGivenUp
<1>11. LaneShape'
    BY <1>2, <1>3, <1>6, <1>7, <1>8 DEF LaneShape, ChannelsPlain, LocalWhenClosed
<1>12. QED
    BY <1>10, <1>11
-----------------------------------------------------------------------------
(***************************************************************************)
(* The budget of a writer with one chain of calls.  The balance and the    *)
(* total fill the window.  A call that is resumed may find its credit      *)
(* spent only after the stream ended, and even then its chunk fits; with   *)
(* two callers it would not, since both may be woken by the same credit.   *)
(***************************************************************************)
Fits == Total + credits <= Window
ResumedFits ==
    \A i \in DOMAIN jobs :
        call[jobs[i].caller].todo # <<>> => Total + call[jobs[i].caller].need <= Window
Balanced == ended = "no" /\ ~reader.closed => Total + credits = Window
ResumedCovered ==
    ended = "no" => \A i \in DOMAIN jobs : credits >= call[jobs[i].caller].need

Budget == Fits /\ ResumedFits /\ Balanced /\ ResumedCovered

\* The worker's steps keep the budget.
LEMMA WorkerBudget ==
    ASSUME HostLaneInv, Budget, BooksKept, UNCHANGED <<ended, credits, jobs, call>>
    PROVE  Budget'
<1> DEFINE T == Total
           T1 == Total'
           need(i) == call[jobs[i].caller].need
<1>1. /\ T \in Nat /\ T1 \in Nat /\ T1 <= T /\ credits \in Nat /\ Window \in Nat
      /\ ~reader'.closed => (~reader.closed /\ T1 = T)
    BY TotalNat, WindowAssumption DEF BooksKept
<1>2. \A i \in DOMAIN jobs : need(i) \in Nat
  <2>1. CreditTypeOK
      BY TypeParts DEF HostLaneInv
  <2>2. QED
      BY <2>1, NeedNat
<1>3. /\ T + credits <= Window
      /\ \A i \in DOMAIN jobs : call[jobs[i].caller].todo # <<>> => T + need(i) <= Window
      /\ (ended = "no" /\ ~reader.closed) => T + credits = Window
      /\ ended = "no" => \A i \in DOMAIN jobs : credits >= need(i)
    BY DEF Budget, Fits, ResumedFits, Balanced, ResumedCovered
<1> HIDE DEF T, T1, need
<1>4. /\ T1 + credits <= Window
      /\ \A i \in DOMAIN jobs : call[jobs[i].caller].todo # <<>> => T1 + need(i) <= Window
      /\ (ended = "no" /\ ~reader'.closed) => T1 + credits = Window
    BY <1>1, <1>2, <1>3
<1>5. QED
    BY <1>3, <1>4 DEF Budget, Fits, ResumedFits, Balanced, ResumedCovered, T1, need

\* The bytes of what is handed over enter the total.
LEMMA TotalSends ==
    ASSUME HostLaneInv, UNCHANGED workerVars, UNCHANGED toHost, SendOK',
           NEW n \in Nat, OnTheWay' + lost' = OnTheWay + lost + n
    PROVE  Total' = Total + n /\ reader' = reader
<1>1. OnTheWay' \in Nat /\ lost' \in Nat
  <2>1. queued' \in Seq(Chunks) /\ toWorker' \in Seq(WorkerFrames) /\ lost' \in Nat
      BY DEF SendOK
  <2>2. Bytes(queued') \in Nat /\ Bytes(toWorker') \in Nat
      BY <2>1, FrameKinds, BytesNat
  <2>3. QED
      BY <2>1, <2>2 DEF OnTheWay
<1>2. Share' = Share /\ reader' = reader
    BY DEF workerVars, readerVars, Share, Held
<1>3. OnTheWay \in Nat /\ lost \in Nat /\ Share \in Nat
    BY TotalNat
<1> DEFINE o == OnTheWay
           o1 == OnTheWay'
           l1 == lost'
<1>4. Total = o + lost + Share /\ Total' = o1 + l1 + Share
    BY <1>2 DEF Total
<1>5. o \in Nat /\ o1 \in Nat /\ l1 \in Nat /\ o1 + l1 = o + lost + n
    BY <1>1, <1>3
<1> HIDE DEF o, o1, l1
<1>6. QED
    BY <1>2, <1>3, <1>4, <1>5
\* What a step of the writer must show for the budget.
LEMMA WriterBudget ==
    ASSUME NEW T \in Nat, Total' = T, credits' \in Nat, T + credits' <= Window,
           (ended' = "no" /\ ~reader'.closed) => T + credits' = Window,
           \A i \in DOMAIN jobs' : /\ call'[jobs'[i].caller].need \in Nat
                                   /\ credits' >= call'[jobs'[i].caller].need
    PROVE  Budget'
<1> DEFINE need(i) == call'[jobs'[i].caller].need
           k == credits'
<1>1. \A i \in DOMAIN jobs' : need(i) \in Nat /\ k >= need(i)
    OBVIOUS
<1>2. Window \in Nat /\ k \in Nat /\ T + k <= Window
    BY WindowAssumption
<1> HIDE DEF need, k
<1>3. \A i \in DOMAIN jobs' : T + need(i) <= Window
  <2>1. SUFFICES ASSUME NEW i \in DOMAIN jobs' PROVE T + need(i) <= Window
      OBVIOUS
  <2>2. need(i) \in Nat /\ k >= need(i)
      BY <1>1
  <2>3. QED
      BY <1>2, <2>2
<1>4. Fits' /\ Balanced'
    BY DEF Fits, Balanced
<1>5. ResumedFits' /\ ResumedCovered'
    BY <1>1, <1>3 DEF ResumedFits, ResumedCovered, need, k
<1>6. QED
    BY <1>4, <1>5 DEF Budget

\* Spending credit on bytes that fit.
LEMMA Spending ==
    ASSUME HostLaneInv, Budget, NEW n \in Nat, credits' = Remaining(n),
           Total + n <= Window, ended = "no" => n <= credits
    PROVE  /\ Total + n \in Nat /\ credits' \in Nat
           /\ (Total + n) + credits' <= Window
           /\ (ended = "no" /\ ~reader.closed) => (Total + n) + credits' = Window
<1> DEFINE T == Total
<1>1. /\ T \in Nat /\ credits \in Nat /\ Window \in Nat
      /\ T + credits <= Window
      /\ (ended = "no" /\ ~reader.closed) => T + credits = Window
    BY TotalNat, WindowAssumption DEF Budget, Fits, Balanced
<1>2. credits' = Max0(credits - n)
    BY DEF Remaining
<1> HIDE DEF T
<1>3. /\ T + n \in Nat /\ credits' \in Nat
      /\ (T + n) + credits' <= Window
      /\ (ended = "no" /\ ~reader.closed) => (T + n) + credits' = Window
  <2>1. T + n <= Window
      BY DEF T
  <2>2. QED
      BY <1>1, <1>2, <2>1 DEF Max0
<1>4. QED
    BY <1>3 DEF T

LEMMA SpentAtOnce ==
    ASSUME HostLaneInv, Budget, NEW n \in Nat, n <= credits
    PROVE  Total + n <= Window
<1> DEFINE T == Total
<1>1. T \in Nat /\ credits \in Nat /\ Window \in Nat /\ T + credits <= Window
    BY TotalNat, WindowAssumption DEF Budget, Fits
<1> HIDE DEF T
<1>2. T + n <= Window
    BY <1>1
<1>3. QED
    BY <1>2 DEF T

\* A call that blocks changes no number.
LEMMA BlockBudget ==
    ASSUME OneCaller, HostLaneInv, Budget, CallsTracked,
           NEW c \in Callers, call[c] = NoCall, NEW n \in Nat, NEW todo, Block(c, n, todo),
           Total' = Total, UNCHANGED <<credits, ended, reader>>
    PROVE  Budget'
<1>0. CreditTypeOK
    BY TypeParts DEF HostLaneInv
<1>1. /\ call' = [call EXCEPT ![c] = [need |-> n, todo |-> todo]]
      /\ WaitForCredit(c, n, credits, jobs)
    BY DEF Block
<1>2. call'[c].need = n
    BY <1>0, <1>1, CreditParts
<1>3. jobs \in Seq(Job) /\ DOMAIN jobs = {}
    BY <1>0, CreditParts, IdleCaller
<1>4. \A i \in DOMAIN jobs' : jobs'[i].caller = c /\ credits >= n
    BY <1>1, <1>3, OwnContinuation
<1> DEFINE T == Total
<1>5. /\ T \in Nat /\ credits \in Nat /\ T + credits <= Window
      /\ (ended = "no" /\ ~reader.closed) => T + credits = Window
      /\ Total' = T
    BY TotalNat DEF Budget, Fits, Balanced
<1> HIDE DEF T
<1>6. QED
  <2>1. credits' = credits /\ ended' = ended /\ reader' = reader
      OBVIOUS
  <2>2. \A i \in DOMAIN jobs' : /\ call'[jobs'[i].caller].need \in Nat
                                /\ credits' >= call'[jobs'[i].caller].need
      BY <1>2, <1>4, <2>1
  <2>3. /\ T + credits' <= Window /\ credits' \in Nat
        /\ (ended' = "no" /\ ~reader'.closed) => T + credits' = Window
      BY <1>5, <2>1
  <2>4. QED
      BY <1>5, <2>2, <2>3, WriterBudget

\* Chunks that leave within the call that writes them.
LEMMA SendBudget ==
    ASSUME OneCaller, HostLaneInv, Budget, CallsTracked,
           NEW c \in Callers, call[c] = NoCall,
           UNCHANGED workerVars, UNCHANGED toHost, UNCHANGED <<ended, jobs>>, SendOK',
           NEW n \in Nat, n <= credits, credits' = Remaining(n),
           OnTheWay' + lost' = OnTheWay + lost + n
    PROVE  Budget'
<1>1. Total' = Total + n /\ reader' = reader
    BY TotalSends
<1>2. Total + n <= Window
    BY SpentAtOnce
<1>3. /\ Total + n \in Nat /\ credits' \in Nat
      /\ (Total + n) + credits' <= Window
      /\ (ended = "no" /\ ~reader.closed) => (Total + n) + credits' = Window
    BY <1>2, Spending
<1>4. DOMAIN jobs' = {}
  <2>1. CreditTypeOK
      BY TypeParts DEF HostLaneInv
  <2>2. QED
      BY <2>1, IdleCaller
<1> DEFINE T == Total + n
<1>5. /\ T \in Nat /\ Total' = T /\ T + credits' <= Window
      /\ (ended' = "no" /\ ~reader'.closed) => T + credits' = Window
    BY <1>1, <1>3
<1> HIDE DEF T
<1>6. QED
    BY <1>3, <1>4, <1>5, WriterBudget

LEMMA TotalUnchanged ==
    ASSUME UNCHANGED workerVars, UNCHANGED toHost, UNCHANGED <<queued, toWorker, lost>>
    PROVE  Total' = Total /\ UNCHANGED reader
BY DEF Total, OnTheWay, Share, Held, workerVars, readerVars

LEMMA WriteBudget ==
    ASSUME OneCaller, HostLaneInv, Budget, CallsTracked,
           NEW c \in Callers, NEW n \in Sizes, Write(c, n) \/ Ready(c, n)
    PROVE  Budget'
<1> DEFINE ch == Chunk(nextId, n)
           todo == <<ch>>
           none == <<>>
<1>1. SendOK /\ WriterOK /\ CreditTypeOK /\ QueuedIsScheduled
    BY TypeParts DEF HostLaneInv
<1>2. ch \in Chunks /\ n \in Nat /\ ch.bytes = n
    BY <1>1, NewChunk DEF WriterOK
<1>3. call[c] = NoCall
    BY DEF Write, Ready, MayCall
<1>4. UNCHANGED workerVars /\ UNCHANGED toHost /\ ended' = ended
    BY DEF Write, Ready, outsideWriter
<1>5. \/ /\ credits >= n /\ credits' = Remaining(n) /\ HandOver(ch)
         /\ UNCHANGED jobs
      \/ /\ Block(c, n, todo)
         /\ UNCHANGED <<credits, queued, toWorker, lost>>
      \/ /\ Block(c, n, none)
         /\ UNCHANGED <<credits, queued, toWorker, lost>>
    BY DEF Write, Ready, HandOver, queueVars, historyVars
<1> HIDE DEF ch, todo, none
<1>6. CASE /\ credits >= n /\ credits' = Remaining(n) /\ HandOver(ch)
           /\ UNCHANGED jobs
  <2>1. SendOK' /\ OnTheWay' + lost' = OnTheWay + lost + n
      BY <1>1, <1>2, <1>6, HandOverFacts DEF WriterOK
  <2>2. n <= credits
      BY <1>2, <1>6, TotalNat
  <2>3. QED
      BY <1>2, <1>3, <1>4, <1>6, <2>1, <2>2, SendBudget
<1>7. ASSUME NEW t, Block(c, n, t), UNCHANGED <<credits, queued, toWorker, lost>>
      PROVE  Budget'
  <2>1. Total' = Total /\ UNCHANGED reader
      BY <1>4, <1>7, TotalUnchanged
  <2>2. QED
      BY <1>2, <1>3, <1>4, <1>7, <2>1, BlockBudget
<1>8. QED
    BY <1>5, <1>6, <1>7

LEMMA WriteManyBudget ==
    ASSUME OneCaller, HostLaneInv, Budget, CallsTracked,
           NEW c \in Callers, NEW sizes \in Batches, WriteMany(c, sizes)
    PROVE  Budget'
<1> DEFINE chunks == [i \in DOMAIN sizes |-> Chunk(nextId + i - 1, sizes[i])]
           n == Bytes(chunks)
           m == Head(chunks).bytes
<1>1. SendOK /\ WriterOK /\ CreditTypeOK
    BY TypeParts DEF HostLaneInv
<1>2. chunks \in Seq(Chunks) /\ chunks # <<>>
    BY <1>1, BatchChunks DEF WriterOK
<1>3. call[c] = NoCall
    BY DEF WriteMany, MayCall
<1>4. /\ UNCHANGED workerVars /\ UNCHANGED toHost /\ ended' = ended
      /\ UNCHANGED queueVars
    BY DEF WriteMany, outsideWriter
<1>5. \/ /\ credits >= n /\ credits' = Remaining(n)
         /\ Post(chunks) \/ PostFindsFull(chunks)
         /\ UNCHANGED jobs
      \/ /\ Block(c, m, chunks)
         /\ UNCHANGED <<credits, toWorker, lost>>
    BY DEF WriteMany
<1> HIDE DEF chunks
<1>6. n \in Nat /\ m \in Nat
  <2>1. Head(chunks) \in Chunks
      BY <1>2
  <2>2. QED
      BY <1>2, <2>1, FrameKinds, BytesNat
<1>7. queued' = queued
    BY <1>4 DEF queueVars
<1>8. CASE /\ credits >= n /\ credits' = Remaining(n)
           /\ Post(chunks) \/ PostFindsFull(chunks)
           /\ UNCHANGED jobs
  <2>1. OnTheWay' + lost' = OnTheWay + lost + n
      BY <1>1, <1>2, <1>7, <1>8, PostLedger
  <2>2. toWorker' \in Seq(WorkerFrames) /\ lost' \in Nat /\ fulls' \in Nat
      BY <1>1, <1>2, <1>8, PostFacts
  <2>3. SendOK'
      BY <1>1, <1>4, <2>2 DEF SendOK, queueVars
  <2> HIDE DEF n
  <2>4. n <= credits
      BY <1>6, <1>8, TotalNat
  <2>5. QED
      BY <1>3, <1>4, <1>6, <1>8, <2>1, <2>3, <2>4, SendBudget
<1>9. CASE /\ Block(c, m, chunks)
           /\ UNCHANGED <<credits, toWorker, lost>>
  <2>1. Total' = Total /\ UNCHANGED reader
      BY <1>4, <1>7, <1>9, TotalUnchanged
  <2>2. QED
      BY <1>3, <1>4, <1>6, <1>9, <2>1, BlockBudget
<1>10. QED
    BY <1>5, <1>8, <1>9
LEMMA ResumeBudget ==
    ASSUME OneCaller, HostLaneInv, Budget, CallsTracked, Resume
    PROVE  Budget'
<1> DEFINE c == Head(jobs).caller
           todo == call[c].todo
           n == Head(todo).bytes
           m == todo[2].bytes
           rest == Tail(todo)
<1>1. SendOK /\ WriterOK /\ CreditTypeOK /\ QueuedIsScheduled
    BY TypeParts DEF HostLaneInv
<1>2. jobs # <<>> /\ Continues(c, todo)
    BY DEF Resume, Continues
<1>3. /\ 1 \in DOMAIN jobs /\ Head(jobs) = jobs[1]
      /\ DOMAIN Tail(jobs) = {} /\ Tail(jobs) \in Seq(Job)
    BY <1>1, <1>2, OneContinuation
<1>4. c \in Callers /\ todo \in Seq(Chunks) /\ c = jobs[1].caller
    BY <1>1, <1>2, <1>3, HeadJob
<1>5. /\ UNCHANGED workerVars /\ UNCHANGED toHost /\ ended' = ended
  <2>1. UNCHANGED <<outsideWriter, nextId>>
      BY Zenon DEF Resume
  <2>2. QED
      BY <2>1 DEF outsideWriter
<1>6. \/ /\ Settle(c)
         /\ UNCHANGED <<credits, queueVars, toWorker, lost>>
      \/ /\ todo # <<>>
         /\ credits' = Remaining(n)
         /\ HandOver(Head(todo))
         /\ \/ Settle(c)
            \/ /\ rest # <<>>
               /\ call' = [call EXCEPT ![c] = [need |-> m, todo |-> rest]]
               /\ WaitForCredit(c, m, credits', Tail(jobs))
    BY <1>2, Continuing
<1>7. Settle(c) => DOMAIN jobs' = {}
    BY <1>3 DEF Settle
<1>8. todo # <<>> => /\ call[c].need = n /\ n \in Nat /\ Head(todo) \in Chunks
                     /\ Total + n <= Window
                     /\ ended = "no" => n <= credits
  <2>1. SUFFICES ASSUME todo # <<>>
                 PROVE  /\ call[c].need = n /\ n \in Nat /\ Head(todo) \in Chunks
                        /\ Total + n <= Window
                        /\ ended = "no" => n <= credits
      OBVIOUS
  <2>2. call[c].need = n
      BY <1>4, <2>1 DEF CallsTracked, Tracks
  <2>3. Head(todo) \in Chunks /\ n \in Nat
    <3> HIDE DEF todo
    <3>1. Head(todo) \in Chunks
        BY <1>4, <2>1
    <3>2. QED
        BY <3>1, FrameKinds
  <2>4. Total + call[c].need <= Window
      BY <1>3, <1>4, <2>1 DEF Budget, ResumedFits
  <2>5. ended = "no" => credits >= call[c].need
      BY <1>3, <1>4 DEF Budget, ResumedCovered
  <2>6. credits \in Nat
      BY TotalNat
  <2> HIDE DEF todo, c, n
  <2>7. ended = "no" => n <= credits
      BY <2>2, <2>3, <2>5, <2>6
  <2>8. QED
      BY <2>2, <2>3, <2>4, <2>7
<1>9. rest # <<>> /\ todo # <<>> => m \in Nat
  <2> HIDE DEF todo
  <2>1. rest # <<>> /\ todo # <<>> => todo[2] \in Chunks
      BY <1>4
  <2>2. QED
      BY <2>1, FrameKinds
<1> HIDE DEF c, todo, n, m, rest
<1>10. CASE /\ Settle(c)
            /\ UNCHANGED <<credits, queueVars, toWorker, lost>>
  <2>1. Total' = Total /\ UNCHANGED reader
      BY <1>5, <1>10, TotalUnchanged DEF queueVars
  <2> DEFINE T == Total
  <2>2. /\ T \in Nat /\ Total' = T /\ credits' \in Nat /\ T + credits' <= Window
        /\ (ended' = "no" /\ ~reader'.closed) => T + credits' = Window
      BY <1>5, <1>10, <2>1, TotalNat DEF Budget, Fits, Balanced
  <2> HIDE DEF T
  <2>3. QED
      BY <1>7, <1>10, <2>2, WriterBudget
<1>11. CASE /\ todo # <<>>
            /\ credits' = Remaining(n)
            /\ HandOver(Head(todo))
            /\ \/ Settle(c)
               \/ /\ rest # <<>>
                  /\ call' = [call EXCEPT ![c] = [need |-> m, todo |-> rest]]
                  /\ WaitForCredit(c, m, credits', Tail(jobs))
  <2>1. SendOK' /\ OnTheWay' + lost' = OnTheWay + lost + n
      BY <1>1, <1>8, <1>11, HandOverFacts DEF WriterOK, n
  <2>2. Total' = Total + n /\ reader' = reader
      BY <1>5, <1>8, <1>11, <2>1, TotalSends
  <2>3. /\ Total + n \in Nat /\ credits' \in Nat
        /\ (Total + n) + credits' <= Window
        /\ (ended = "no" /\ ~reader.closed) => (Total + n) + credits' = Window
      BY <1>8, <1>11, Spending
  <2> DEFINE T == Total + n
  <2>4. /\ T \in Nat /\ Total' = T /\ T + credits' <= Window
        /\ (ended' = "no" /\ ~reader'.closed) => T + credits' = Window
      BY <1>5, <2>2, <2>3
  <2> HIDE DEF T
  <2>5. CASE Settle(c)
      BY <1>7, <2>3, <2>4, <2>5, WriterBudget
  <2>6. CASE /\ rest # <<>>
             /\ call' = [call EXCEPT ![c] = [need |-> m, todo |-> rest]]
             /\ WaitForCredit(c, m, credits', Tail(jobs))
    <3>1. call'[c].need = m /\ m \in Nat
        BY <1>1, <1>4, <1>9, <1>11, <2>6, CreditParts
    <3>2. \A i \in DOMAIN jobs' : jobs'[i].caller = c /\ credits' >= m
        BY <1>3, <2>6, OwnContinuation
    <3>3. \A i \in DOMAIN jobs' : /\ call'[jobs'[i].caller].need \in Nat
                                  /\ credits' >= call'[jobs'[i].caller].need
        BY <3>1, <3>2
    <3>4. QED
        BY <2>3, <2>4, <3>3, WriterBudget
  <2>7. QED
      BY <1>11, <2>5, <2>6
<1>12. QED
    BY <1>6, <1>10, <1>11

LEMMA FlushTickBudget ==
    ASSUME HostLaneInv, Budget, FlushTick
    PROVE  Budget'
<1>1. SendOK
    BY TypeParts DEF HostLaneInv
<1>2. /\ UNCHANGED workerVars /\ UNCHANGED toHost
      /\ UNCHANGED <<ended, credits, jobs, call>>
    BY DEF FlushTick, outsideWriter
<1>3. SendOK' /\ OnTheWay' + lost' = Bytes(queued) + Bytes(toWorker) + lost
  <2>1. queued \in Seq(Chunks) /\ FlushFastChunks(queued)
      BY <1>1 DEF SendOK, FlushTick
  <2>2. QED
      BY <1>1, <2>1, FlushFacts
<1>4. OnTheWay' + lost' = OnTheWay + lost + 0
    BY <1>3, TotalNat DEF OnTheWay
<1>5. Total' = Total + 0 /\ reader' = reader
    BY <1>2, <1>3, <1>4, TotalSends
<1>6. BooksKept
    BY <1>5, TotalNat DEF BooksKept
<1>7. QED
    BY <1>2, <1>6, WorkerBudget

\* What is still queued when the stream ends is posted or lost.
LEMMA EndPostsLedger ==
    ASSUME SendOK, NEW frames \in Seq(WorkerFrames), Bytes(frames) = 0,
           NEW oks \in [1 .. 3 -> BOOLEAN], EndPosts(frames, oks)
    PROVE  OnTheWay' + lost' = OnTheWay + lost + 0
<1> DEFINE w == When(oks[1], queued)
           x == When(~oks[1], queued)
           b == Bytes(queued)
           t == Bytes(toWorker)
<1>1. b \in Nat /\ t \in Nat /\ lost \in Nat /\ OnTheWay = b + t
    BY OnTheWayNat DEF SendOK, OnTheWay
<1>2. \/ w = queued /\ x = <<>>
      \/ w = <<>> /\ x = queued
    BY DEF When
<1>3. w \in Seq(WorkerFrames)
  <2> DEFINE none == <<>>
  <2>1. queued \in Seq(WorkerFrames) /\ none \in Seq(WorkerFrames)
      BY FrameKinds DEF SendOK
  <2>2. w = queued \/ w = none
      BY <1>2
  <2> HIDE DEF w, none
  <2>3. QED
      BY <2>1, <2>2
<1>4. /\ toWorker' = toWorker \o w \o frames /\ lost' = lost + Bytes(x)
      /\ queued' = <<>>
    BY DEF EndPosts
<1> HIDE DEF w, x
<1>5. \/ Bytes(w) = b /\ Bytes(x) = 0
      \/ Bytes(w) = 0 /\ Bytes(x) = b
    BY <1>2, BytesEmpty
<1>6. toWorker \o w \in Seq(WorkerFrames) /\ Bytes(toWorker \o w) = t + Bytes(w)
    BY <1>3, FrameKinds, BytesConcat DEF SendOK
<1>7. Bytes((toWorker \o w) \o frames) = Bytes(toWorker \o w) + 0
    BY <1>6, FrameKinds, BytesConcat
<1>8. OnTheWay' = 0 + Bytes((toWorker \o w) \o frames)
    BY <1>4, BytesEmpty DEF OnTheWay
<1> HIDE DEF b, t
<1>9. QED
    BY <1>1, <1>4, <1>5, <1>6, <1>7, <1>8

LEMMA EndFrames ==
    ASSUME NEW oks \in [1 .. 3 -> BOOLEAN]
    PROVE  /\ LET frames == When(oks[2], <<Control("close")>>)
                              \o When(oks[3], <<Control("discard")>>)
              IN  frames \in Seq(WorkerFrames) /\ Bytes(frames) = 0
           /\ \A kind \in {"error", "cancel"} :
                 LET frames == <<Control(kind)>> \o When(oks[3], <<Control("discard")>>)
                 IN  frames \in Seq(WorkerFrames) /\ Bytes(frames) = 0
           /\ <<>> \in Seq(WorkerFrames) /\ Bytes(<<>>) = 0
<1> DEFINE none == <<>>
<1>1. none \in Seq(WorkerFrames) /\ Bytes(none) = 0
    BY BytesEmpty
<1>2. ASSUME NEW k \in {"close", "error", "cancel", "discard"}
      PROVE  <<Control(k)>> \in Seq(WorkerFrames) /\ Bytes(<<Control(k)>>) = 0
  <2>1. Control(k) \in WorkerFrames /\ Control(k).bytes = 0
      BY FrameKinds
  <2>2. QED
      BY <2>1, BytesOne
<1>3. ASSUME NEW k \in {"close", "error", "cancel", "discard"}, NEW ok
      PROVE  LET w == When(ok, <<Control(k)>>)
             IN  w \in Seq(WorkerFrames) /\ Bytes(w) = 0
    BY <1>1, <1>2 DEF When
<1>4. ASSUME NEW u \in Seq(WorkerFrames), Bytes(u) = 0, NEW v \in Seq(WorkerFrames), Bytes(v) = 0
      PROVE  u \o v \in Seq(WorkerFrames) /\ Bytes(u \o v) = 0
    BY <1>4, FrameKinds, BytesConcat
<1> DEFINE c == When(oks[2], <<Control("close")>>)
           d == When(oks[3], <<Control("discard")>>)
<1>5. /\ c \in Seq(WorkerFrames) /\ Bytes(c) = 0
      /\ d \in Seq(WorkerFrames) /\ Bytes(d) = 0
    BY <1>3
<1> HIDE DEF c, d
<1>6. c \o d \in Seq(WorkerFrames) /\ Bytes(c \o d) = 0
    BY <1>4, <1>5
<1>7. ASSUME NEW kind \in {"error", "cancel"}
      PROVE  <<Control(kind)>> \o d \in Seq(WorkerFrames) /\ Bytes(<<Control(kind)>> \o d) = 0
  <2> DEFINE k == <<Control(kind)>>
  <2>1. k \in Seq(WorkerFrames) /\ Bytes(k) = 0
      BY <1>2
  <2> HIDE DEF k
  <2>2. k \o d \in Seq(WorkerFrames) /\ Bytes(k \o d) = 0
      BY <1>4, <1>5, <2>1
  <2>3. QED
      BY <2>2 DEF k
<1>8. QED
    BY <1>1, <1>6, <1>7 DEF c, d

LEMMA EndBudget ==
    ASSUME HostLaneInv, Budget, Close \/ \E kind \in {"error", "cancel"} : Abort(kind)
    PROVE  Budget'
<1>1. SendOK /\ CreditTypeOK
    BY TypeParts DEF HostLaneInv
<1>2. /\ UNCHANGED workerVars /\ UNCHANGED toHost /\ jobs' = jobs /\ ended' # "no"
    BY DEF Close, Abort, endUnchanged, MayEnd
<1>3. SendOK' /\ OnTheWay' + lost' = OnTheWay + lost + 0
  <2>1. ASSUME NEW frames \in Seq(WorkerFrames), Bytes(frames) = 0,
               NEW oks \in [1 .. 3 -> BOOLEAN], EndPosts(frames, oks)
        PROVE  SendOK' /\ OnTheWay' + lost' = OnTheWay + lost + 0
      BY <1>1, <2>1, EndPostsFacts, EndPostsLedger
  <2>2. CASE Close
    <3>1. PICK oks \in [1 .. 3 -> BOOLEAN] :
             \/ EndPosts(When(oks[2], <<Control("close")>>)
                           \o When(oks[3], <<Control("discard")>>), oks)
             \/ EndPosts(<<>>, oks)
        BY <2>2 DEF Close, EndFails
    <3>2. QED
        BY <2>1, <3>1, EndFrames
  <2>3. ASSUME NEW kind \in {"error", "cancel"}, Abort(kind)
        PROVE  SendOK' /\ OnTheWay' + lost' = OnTheWay + lost + 0
    <3>1. PICK oks \in [1 .. 3 -> BOOLEAN] :
             \/ EndPosts(<<Control(kind)>> \o When(oks[3], <<Control("discard")>>), oks)
             \/ EndPosts(<<>>, oks)
        BY <2>3 DEF Abort, EndFails
    <3>2. QED
        BY <2>1, <3>1, EndFrames
  <2>4. QED
      BY <2>2, <2>3
<1>4. Total' = Total
  <2>1. Total' = Total + 0
      BY <1>2, <1>3, TotalSends
  <2>2. QED
      BY <2>1, TotalNat
<1>5. \/ UNCHANGED <<credits, call>>
      \/ RejectWriterWaiters
    BY DEF Close, Abort, EndFails, ReleaseWriter
<1>6. /\ credits' = credits \/ credits' = 0
      /\ \A d \in Callers : call'[d] = call[d] \/ call'[d] = NoCall
    BY <1>5 DEF RejectWriterWaiters
<1>7. Fits'
  <2> DEFINE T == Total
  <2>1. T \in Nat /\ credits \in Nat /\ Window \in Nat /\ T + credits <= Window
      BY TotalNat, WindowAssumption DEF Budget, Fits
  <2>2. Total' = T
      BY <1>4
  <2> HIDE DEF T
  <2>3. T + credits' <= Window
      BY <1>6, <2>1
  <2>4. QED
      BY <2>2, <2>3 DEF Fits
<1>8. ResumedFits'
  <2>1. SUFFICES ASSUME NEW i \in DOMAIN jobs, call'[jobs[i].caller].todo # <<>>
                 PROVE  Total + call'[jobs[i].caller].need <= Window
      BY <1>2, <1>4 DEF ResumedFits
  <2>2. call'[jobs[i].caller] = call[jobs[i].caller]
      BY <1>1, <1>6, <2>1, NeedNat DEF NoCall
  <2>3. QED
      BY <2>1, <2>2 DEF Budget, ResumedFits
<1>9. QED
    BY <1>2, <1>7, <1>8 DEF Budget, Balanced, ResumedCovered
LEMMA HostReceiveBudget ==
    ASSUME HostLaneInv, LaneShape, Budget, CallsTracked, HostReceive
    PROVE  Budget'
<1> DEFINE f == Head(toHost)
           n == f.bytes
<1>1. CreditTypeOK
    BY TypeParts DEF HostLaneInv
<1>2. /\ toHost # <<>> /\ toHost' = Tail(toHost) /\ jobs = <<>>
      /\ UNCHANGED <<queued, toWorker, lost, ended, call>> /\ UNCHANGED workerVars
    BY DEF HostReceive, historyVars, queueVars
<1>3. f \in PlainHost /\ Tail(toHost) \in Seq(PlainHost) /\ toHost \in Seq(PlainHost)
    BY <1>2 DEF LaneShape, ChannelsPlain
<1>4. n \in Nat /\ (f.t # "credit" => n = 0)
    BY <1>3, FrameKinds DEF PlainHost
<1>5. /\ Bytes(toHost) = n + Bytes(toHost') /\ Bytes(toHost') \in Nat
  <2>1. \A x \in PlainHost : x.bytes \in Nat
      BY FrameKinds DEF PlainHost
  <2>2. Bytes(Tail(toHost)) \in Nat /\ Bytes(toHost) = n + Bytes(Tail(toHost))
      BY <1>2, <1>3, <2>1, BytesNat, BytesTail
  <2>3. QED
      BY <1>2, <2>2
<1>6. \/ AddWriterCredit(n)
      \/ n = 0 /\ UNCHANGED <<credits, waiters, jobs>>
    BY <1>4 DEF HostReceive
<1> HIDE DEF f, n
<1>7. reader' = reader /\ OnTheWay' = OnTheWay /\ Held' = Held /\ unflushed' = unflushed
    BY <1>2 DEF workerVars, readerVars, OnTheWay, Held
<1>8. credits' = credits + n
    BY <1>4, <1>6, TotalNat DEF AddWriterCredit
<1> DEFINE T1 == Total'
           T == Total
<1>9. T1 \in Nat /\ T = T1 + n
  <2> DEFINE o == OnTheWay
             h == Held
             b == Bytes(toHost)
             b1 == Bytes(toHost')
  <2>1. o \in Nat /\ h \in Nat /\ lost \in Nat /\ unflushed \in Nat /\ b1 \in Nat /\ b = n + b1
      BY <1>5, TotalNat
  <2>2. T = o + lost + (h + unflushed + b) /\ T1 = o + lost + (h + unflushed + b1)
      BY <1>2, <1>7 DEF Total, Share
  <2> HIDE DEF o, h, b, b1, T, T1
  <2>3. QED
      BY <1>4, <2>1, <2>2
<1>10. /\ credits \in Nat /\ T + credits <= Window /\ Window \in Nat
       /\ (ended = "no" /\ ~reader.closed) => T + credits = Window
    BY TotalNat, WindowAssumption DEF Budget, Fits, Balanced
<1>11. \A i \in DOMAIN jobs' : /\ call'[jobs'[i].caller].need \in Nat
                               /\ credits' >= call'[jobs'[i].caller].need
  <2>1. CASE AddWriterCredit(n)
    <3>1. DOMAIN jobs = {}
        BY <1>2
    <3>2. QED
        BY <1>1, <1>2, <1>4, <2>1, <3>1, WokenCovered
  <2>2. CASE UNCHANGED jobs
      BY <1>2, <2>2
  <2>3. QED
      BY <1>6, <2>1, <2>2
<1>12. Total' = T1
    OBVIOUS
<1> HIDE DEF T, T1
<1>13. /\ credits' \in Nat /\ T1 + credits' <= Window
       /\ (ended' = "no" /\ ~reader'.closed) => T1 + credits' = Window
    BY <1>2, <1>4, <1>7, <1>8, <1>9, <1>10
<1>14. QED
    BY <1>9, <1>11, <1>12, <1>13, WriterBudget

-----------------------------------------------------------------------------
(***************************************************************************)
(* The invariant of a lane with one caller, and what it says.              *)
(***************************************************************************)
LaneInv == HostLaneInv /\ CallsTracked /\ LaneShape /\ Budget

LEMMA LaneInit == Init => LaneInv
<1>1. SUFFICES ASSUME Init PROVE LaneInv
    OBVIOUS
<1>2. HostLaneInv /\ CallsTracked /\ EndedWhenClosed
    BY <1>1, InvInit, CallsTrackedInit, EndedInit DEF Init
<1> DEFINE none == <<>>
<1>3. /\ reader.queue = none /\ reader.buffered = 0 /\ reader.pendingCredit = 0
      /\ ~reader.closed
      /\ toWorker = none /\ toHost = none /\ queued = none /\ unflushed = 0 /\ lost = 0
      /\ ~workerMeta.local /\ credits = Window /\ jobs = none
    BY <1>1 DEF Init, ReaderInit, CreditInit, Fresh
<1>4. Bytes(none) = 0 /\ DOMAIN none = {} /\ none \in Seq(PlainWorker) /\ none \in Seq(PlainHost)
    BY BytesEmpty
<1> HIDE DEF none
<1>5. LaneShape
  <2>1. BufferedCovers
      BY <1>3, <1>4 DEF BufferedCovers
  <2>2. QED
      BY <1>2, <1>3, <1>4, <2>1 DEF LaneShape, ChannelsPlain, LocalWhenClosed
<1>6. Total = 0
  <2>1. Held = 0 /\ OnTheWay = 0
      BY <1>3, <1>4 DEF Held, OnTheWay
  <2>2. Share = 0
      BY <1>3, <1>4, <2>1 DEF Share
  <2>3. QED
      BY <1>3, <2>1, <2>2 DEF Total
<1>7. Budget
    BY <1>3, <1>4, <1>6, WindowAssumption DEF Budget, Fits, ResumedFits, Balanced, ResumedCovered
<1>8. QED
    BY <1>2, <1>5, <1>7 DEF LaneInv

LEMMA LaneUnchanged ==
    ASSUME HostLaneInv, LaneShape, Budget, UNCHANGED vars
    PROVE  LaneShape' /\ Budget'
<1>1. /\ UNCHANGED workerVars /\ UNCHANGED <<toHost, toWorker, queued, lost, ended, credits, jobs, call>>
    BY DEF vars, writerVars, workerVars, historyVars, creditVars, queueVars
<1>2. LaneShape'
    BY <1>1, ShapeWriter DEF LaneShape, ChannelsPlain
<1>3. Total' = Total /\ UNCHANGED reader
    BY <1>1, TotalUnchanged
<1>4. BooksKept
    BY <1>3, TotalNat DEF BooksKept
<1>5. QED
    BY <1>1, <1>2, <1>4, WorkerBudget

LEMMA LaneStep ==
    ASSUME OneCaller
    PROVE  LaneInv /\ [Next]_vars => LaneInv'
<1>1. SUFFICES ASSUME LaneInv, [Next]_vars PROVE LaneInv'
    OBVIOUS
<1>2. HostLaneInv /\ CallsTracked /\ LaneShape /\ Budget
    BY <1>1 DEF LaneInv
<1>3. HostLaneInv' /\ CallsTracked'
    BY <1>1, <1>2, InvStep, TrackedStep
<1>4. SUFFICES LaneShape' /\ Budget'
    BY <1>3 DEF LaneInv
<1>5. CASE UNCHANGED vars
    BY <1>2, <1>5, LaneUnchanged
<1>6. ASSUME NEW c \in Callers, NEW n \in Sizes, Write(c, n) \/ Ready(c, n)
      PROVE  LaneShape' /\ Budget'
    BY <1>2, <1>6, WriteShape, WriteBudget
<1>7. ASSUME NEW c \in Callers, NEW sizes \in Batches, WriteMany(c, sizes)
      PROVE  LaneShape' /\ Budget'
    BY <1>2, <1>7, WriteManyShape, WriteManyBudget
<1>8. CASE Resume
    BY <1>2, <1>8, ResumeShape, ResumeBudget
<1>9. CASE FlushTick
    BY <1>2, <1>9, EndShape, FlushTickBudget
<1>10. CASE Close \/ \E kind \in {"error", "cancel"} : Abort(kind)
    BY <1>2, <1>10, EndShape, EndBudget
<1>11. CASE HostReceive
    BY <1>2, <1>11, HostReceiveShape, HostReceiveBudget
<1>12. CASE WorkerReceive
  <2>1. LaneShape' /\ BooksKept
      BY <1>2, <1>12, ReceiveChunkBooks, ReceiveEndBooks DEF WorkerReceive
  <2>2. UNCHANGED <<ended, credits, jobs, call>>
      BY <1>12 DEF WorkerReceive, writerVars, creditVars
  <2>3. QED
      BY <1>2, <2>1, <2>2, WorkerBudget
<1>13. ASSUME NEW r \in Readers, Read(r)
       PROVE  LaneShape' /\ Budget'
  <2>1. UNCHANGED <<ended, credits, jobs, call>>
      BY <1>13 DEF Read, writerVars, creditVars
  <2>2. QED
      BY <1>2, <1>13, <2>1, ReadBooks, WorkerBudget
<1>14. CASE CancelReader
  <2>1. UNCHANGED <<ended, credits, jobs, call>>
      BY <1>14 DEF CancelReader, writerVars, creditVars
  <2>2. QED
      BY <1>2, <1>14, <2>1, CancelReaderBooks, WorkerBudget
<1>15. QED
    BY <1>1, <1>5, <1>6, <1>7, <1>8, <1>9, <1>10, <1>11, <1>12, <1>13, <1>14 DEF Next

\* What is outstanding is part of the total.
LEMMA OutstandingSum ==
    ASSUME HostLaneInv
    PROVE  /\ Outstanding \in Nat /\ Outstanding <= Total
           /\ Total = Outstanding + reader.pendingCredit + unflushed + Bytes(toHost) + lost
<1> DEFINE q == Bytes(queued)
           w == Bytes(toWorker)
           b == reader.buffered
           p == reader.pendingCredit
           h == Bytes(toHost)
<1>1. /\ q \in Nat /\ w \in Nat /\ b \in Nat /\ p \in Nat /\ h \in Nat
      /\ unflushed \in Nat /\ lost \in Nat
    BY TotalNat
<1>2. Outstanding = q + w + b /\ Total = (q + w) + lost + ((b + p) + unflushed + h)
    BY DEF Outstanding, Total, OnTheWay, Share, Held
<1>3. SUFFICES /\ Outstanding \in Nat /\ Outstanding <= Total
               /\ Total = Outstanding + p + unflushed + h + lost
    OBVIOUS
<1> HIDE DEF q, w, b, p, h
<1>4. QED
    BY <1>1, <1>2

\* A writer that awaits its calls never has more than streamWindowBytes on
\* their way or unread, for every window, flush limit and mixture of calls,
\* whoever ends the stream and however posts fail.
THEOREM WindowIsRespected ==
    ASSUME OneCaller
    PROVE  Spec => []WindowRespected
<1>1. LaneInv => WindowRespected
  <2>1. SUFFICES ASSUME LaneInv PROVE WindowRespected
      OBVIOUS
  <2>2. HostLaneInv /\ Fits
      BY <2>1 DEF LaneInv, Budget
  <2>3. /\ Outstanding \in Nat /\ Outstanding <= Total
        /\ Total \in Nat /\ credits \in Nat /\ Window \in Nat
      BY <2>2, OutstandingSum, TotalNat, WindowAssumption
  <2>4. Outstanding <= Window
      BY <2>2, <2>3 DEF Fits
  <2>5. QED
      BY <2>4 DEF WindowRespected
<1>2. LaneInv /\ [Next]_vars => LaneInv'
    BY LaneStep
<1>3. QED
    BY <1>1, <1>2, LaneInit, PTL DEF Spec

\* While both ends are open the balance of addWriterCredit and the bytes under
\* way, held, withheld or returning fill the window exactly: credit is neither
\* made nor lost, wherever worker.ts and bootstrap.js gather or withhold it.
THEOREM CreditIsConserved ==
    ASSUME OneCaller
    PROVE  Spec => []CreditConserved
<1>1. LaneInv => CreditConserved
  <2>1. SUFFICES ASSUME LaneInv, ended = "no", ~reader.closed
                 PROVE  credits + Outstanding + reader.pendingCredit + unflushed
                            + Bytes(toHost) + lost = Window
      BY DEF CreditConserved
  <2>2. HostLaneInv /\ Total + credits = Window
      BY <2>1 DEF LaneInv, Budget, Balanced
  <2> DEFINE o == Outstanding
             p == reader.pendingCredit
             h == Bytes(toHost)
             T == Total
  <2>3. /\ o \in Nat /\ p \in Nat /\ h \in Nat /\ unflushed \in Nat /\ lost \in Nat
        /\ credits \in Nat /\ T \in Nat /\ T + credits = Window
        /\ T = o + p + unflushed + h + lost
      BY <2>2, OutstandingSum, TotalNat
  <2>4. SUFFICES credits + o + p + unflushed + h + lost = Window
      OBVIOUS
  <2> HIDE DEF o, p, h, T
  <2>5. QED
      BY <2>3
<1>2. LaneInv /\ [Next]_vars => LaneInv'
    BY LaneStep
<1>3. QED
    BY <1>1, <1>2, LaneInit, PTL DEF Spec

-----------------------------------------------------------------------------
(***************************************************************************)
(* What may leave a call waiting for good.  The lane is at rest when no    *)
(* continuation, queued chunk or frame is left and everything that arrived *)
(* has been read: only a new call of the application moves it again.       *)
(***************************************************************************)
AtRest ==
    /\ jobs = <<>> /\ queued = <<>> /\ toWorker = <<>> /\ toHost = <<>>
    /\ reader.queue = <<>>

\* A call that still waits then asks for more than the window less the credit
\* that the worker may withhold below its threshold, and what was lost.
StalledBySizeOnly ==
    AtRest /\ ended = "no" /\ ~reader.closed =>
        \A c \in Callers :
            call[c] # NoCall => call[c].need + (CreditThreshold - 1) + lost > Window

\* The worker withholds less than the threshold, and its reader nothing once it
\* is empty.
WithholdsLittle == WithholdsAboveMark /\ unflushed < CreditThreshold

LEMMA ThresholdPositive == CreditThreshold \in Nat /\ CreditThreshold > 0
BY HostLaneAssumption, WindowAssumption DEF CreditThreshold

LEMMA QueueCreditWithholds ==
    ASSUME unflushed \in Nat, unflushed < CreditThreshold, NEW n \in Nat, QueueStreamCredit(n)
    PROVE  unflushed' < CreditThreshold
BY ThresholdPositive DEF QueueStreamCredit

LEMMA DiscardWithholds ==
    ASSUME unflushed \in Nat, unflushed < CreditThreshold, NEW frames, NEW gaveUp,
           DiscardLocally(frames, gaveUp)
    PROVE  unflushed' < CreditThreshold
BY ThresholdPositive DEF DiscardLocally

LEMMA WorkerReceiveWithholds ==
    ASSUME HostLaneInv, WithholdsLittle, WorkerReceive
    PROVE  WithholdsLittle'
<1> DEFINE f == Head(toWorker)
<1>1. /\ ReaderTypeOK /\ unflushed \in Nat /\ WithholdsAboveMark /\ unflushed < CreditThreshold
      /\ SendOK
    BY TypeParts DEF HostLaneInv, WorkerOK, WithholdsLittle
<1>2. f \in WorkerFrames
    BY <1>1 DEF WorkerReceive, SendOK
<1> HIDE DEF f
<1>3. CASE ReceiveChunk(f)
  <2>1. f \in Chunks
      BY <1>2, <1>3 DEF ReceiveChunk, WorkerFrames, Chunks
  <2>2. CASE Released(workerMeta)
      BY <1>1, <1>3, <2>2, WithholdsUnchanged DEF ReceiveChunk, readerVars, WithholdsLittle
  <2>3. CASE ~Released(workerMeta)
    <3>1. PushChunk(f) /\ QueueStreamCredit(PushGrant(f))
        BY <1>3, <2>3 DEF ReceiveChunk
    <3>2. PushGrant(f) \in Nat
        BY <1>1, <2>1, <3>1, PushChunkType
    <3>3. QED
        BY <1>1, <2>1, <3>1, <3>2, PushChunkWithholds, QueueCreditWithholds DEF WithholdsLittle
  <2>4. QED
      BY <2>2, <2>3
<1>4. CASE ReceiveEnd(f)
  <2>1. CASE Released(workerMeta)
      BY <1>1, <1>4, <2>1, WithholdsUnchanged DEF ReceiveEnd, workerVars, readerVars, WithholdsLittle
  <2>2. CASE ~Released(workerMeta)
    <3> DEFINE kind == IF f.t = "close" THEN "close" ELSE "error"
    <3>1. PushEnd(kind) /\ DiscardLocally(<<>>, Discards)
        BY <1>4, <2>2 DEF ReceiveEnd
    <3>2. kind \in {"close", "error"}
        OBVIOUS
    <3> HIDE DEF kind
    <3>3. QED
        BY <1>1, <3>1, <3>2, PushEndWithholds, DiscardWithholds DEF WithholdsLittle
  <2>3. QED
      BY <2>1, <2>2
<1>5. CASE ReceiveDiscard(f)
  <2>1. UNCHANGED reader /\ (unflushed' = 0 \/ unflushed' = unflushed)
      BY <1>5 DEF ReceiveDiscard, readerVars
  <2>2. QED
      BY <1>1, <2>1, WithholdsUnchanged, ThresholdPositive DEF WithholdsLittle
<1>6. QED
    BY <1>3, <1>4, <1>5 DEF WorkerReceive, f

LEMMA ReadWithholds ==
    ASSUME HostLaneInv, EndedWhenClosed, WithholdsLittle, NEW r \in Readers, Read(r)
    PROVE  WithholdsLittle'
<1>1. ReaderTypeOK /\ unflushed \in Nat /\ WithholdsAboveMark /\ unflushed < CreditThreshold
    BY TypeParts DEF HostLaneInv, WorkerOK, WithholdsLittle
<1>2. CASE ReadChunk(r) /\ QueueStreamCredit(ReadGrant)
  <2>1. ReadGrant \in Nat
      BY <1>1, <1>2, ReadChunkType
  <2>2. QED
      BY <1>1, <1>2, <2>1, ReadChunkWithholds, QueueCreditWithholds DEF WithholdsLittle
<1>3. CASE (ReadEnded(r) \/ ReadEnd(r) \/ ReadWait(r)) /\ UNCHANGED <<unflushed, toHost>>
    BY <1>1, <1>3, ReadOtherWithholds DEF WithholdsLittle
<1>4. QED
    BY <1>2, <1>3 DEF Read

LEMMA WithholdsStep ==
    HostLaneInv /\ EndedWhenClosed /\ WithholdsLittle /\ [Next]_vars => WithholdsLittle'
<1> SUFFICES ASSUME HostLaneInv, EndedWhenClosed, WithholdsLittle, [Next]_vars
             PROVE  WithholdsLittle'
    OBVIOUS
<1>1. CASE UNCHANGED <<reader, unflushed>>
    BY <1>1, WithholdsUnchanged DEF WithholdsLittle, CreditThreshold
<1>2. CASE UNCHANGED vars
    BY <1>1, <1>2 DEF vars, workerVars, readerVars
<1>3. ASSUME NEW c \in Callers, NEW n \in Sizes, Write(c, n) \/ Ready(c, n)
      PROVE  WithholdsLittle'
    BY <1>1, <1>3 DEF Write, Ready, outsideWriter, workerVars, readerVars
<1>4. ASSUME NEW c \in Callers, NEW sizes \in Batches, WriteMany(c, sizes)
      PROVE  WithholdsLittle'
    BY <1>1, <1>4 DEF WriteMany, outsideWriter, workerVars, readerVars
<1>5. CASE Resume \/ FlushTick
    BY <1>1, <1>5 DEF Resume, FlushTick, outsideWriter, workerVars, readerVars
<1>6. CASE Close \/ (\E kind \in {"error", "cancel"} : Abort(kind)) \/ HostReceive
    BY <1>1, <1>6 DEF Close, Abort, HostReceive, endUnchanged, workerVars, readerVars
<1>7. CASE WorkerReceive
    BY <1>7, WorkerReceiveWithholds
<1>8. ASSUME NEW r \in Readers, Read(r) PROVE WithholdsLittle'
    BY <1>8, ReadWithholds
<1>9. CASE CancelReader
  <2>1. CancelRead /\ DiscardLocally(<<Control("cancel")>>, ~reader.discarded)
      BY <1>9 DEF CancelReader
  <2>2. ReaderTypeOK /\ unflushed \in Nat
      BY TypeParts DEF HostLaneInv, WorkerOK
  <2>3. QED
      BY <2>1, <2>2, CancelReadWithholds, DiscardWithholds DEF WithholdsLittle
<1>10. QED
    BY <1>2, <1>3, <1>4, <1>5, <1>6, <1>7, <1>8, <1>9 DEF Next

(***************************************************************************)
(* Nothing but its size stalls a call.  When the lane of a writer that     *)
(* awaits its calls has come to rest and neither end gave the stream up, a *)
(* call still waiting needs more than streamWindowBytes less the credit    *)
(* queueStreamCredit keeps back below its threshold, which has no timer in *)
(* bootstrap.js, less what a full channel lost: every smaller write,       *)
(* writeMany or ready has gone through, for every window and threshold.    *)
(***************************************************************************)
THEOREM OnlySizeStalls ==
    ASSUME OneCaller
    PROVE  Spec => []StalledBySizeOnly
<1> DEFINE Inv == LaneInv /\ WithholdsLittle
<1>1. Init => Inv
  <2>1. Init => unflushed < CreditThreshold
      BY ThresholdPositive DEF Init
  <2>2. QED
      BY <2>1, LaneInit, WithholdsInit DEF Init, WithholdsLittle
<1>2. Inv /\ [Next]_vars => Inv'
  <2>1. LaneInv => HostLaneInv /\ EndedWhenClosed
      BY DEF LaneInv, LaneShape
  <2>2. QED
      BY <2>1, LaneStep, WithholdsStep
<1>3. Inv => StalledBySizeOnly
  <2>1. SUFFICES ASSUME LaneInv, WithholdsLittle, AtRest, ended = "no", ~reader.closed,
                        NEW c \in Callers, call[c] # NoCall
                 PROVE  call[c].need + (CreditThreshold - 1) + lost > Window
      BY DEF StalledBySizeOnly
  <2>2. HostLaneInv /\ CallsTracked /\ Total + credits = Window
      BY <2>1 DEF LaneInv, Budget, Balanced
  <2>3. SendOK /\ CreditTypeOK /\ ReaderTypeOK
      BY <2>2, TypeParts DEF HostLaneInv, WorkerOK
  <2>4. reader.buffered = 0 /\ reader.pendingCredit = 0
      BY <2>1, <2>3, EmptyHoldsNothing DEF WithholdsLittle, AtRest
  <2>5. credits < call[c].need
      BY <2>1, <2>2, <2>3, PendingWaits DEF AtRest, HostLaneInv
  <2>6. call[c].need \in Nat /\ unflushed \in Nat /\ lost \in Nat /\ credits \in Nat
      BY <2>2, <2>3, TotalNat DEF CreditTypeOK
  <2> DEFINE none == <<>>
  <2>7. Bytes(none) = 0 /\ queued = none /\ toWorker = none /\ toHost = none
      BY <2>1, BytesEmpty DEF AtRest
  <2> HIDE DEF none
  <2>8. Total = lost + unflushed
      BY <2>4, <2>6, <2>7 DEF Total, OnTheWay, Share, Held
  <2>9. QED
      BY <2>1, <2>2, <2>5, <2>6, <2>8, ThresholdPositive, WindowAssumption DEF WithholdsLittle
<1>4. QED
    BY <1>1, <1>2, <1>3, PTL DEF Spec

-----------------------------------------------------------------------------
(***************************************************************************)
(* Every chunk in one place, for any number of callers, any mixture of     *)
(* calls and ends and wherever a post finds the channel full: unsent with  *)
(* its call, or handed over and then in the queue, in the channel, with    *)
(* the reader, read, or dropped.                                           *)
(***************************************************************************)
Pending == [c \in Callers |-> call[c].todo]

OnePlace ==
    /\ ReadOnce
    /\ Placed(Had, toWorker, queued, accepted)
    /\ Aside(Pending, accepted, nextId)

\* No chunk is read twice, and none that was not handed over.
ReadOnceAndAccepted == OnceEach(received) /\ Elems(received) \subseteq Elems(accepted)

LEMMA OnePlaceInit == Init => OnePlace
<1> SUFFICES ASSUME Init PROVE OnePlace
    OBVIOUS
<1> DEFINE none == <<>>
<1>1. ChunkIds(none) = {} /\ Once(none) /\ Elems(none) = {}
    BY ChunkIdsEmpty
<1>2. ReadOnce /\ Had = {}
    BY ReadOnceInit DEF Init
<1>3. accepted = none /\ toWorker = none /\ queued = none
    BY DEF Init
<1>4. \A c \in Callers : Pending[c] = none
    BY DEF Init, CreditInit, NoCall, Pending
<1> HIDE DEF none
<1>5. Placed(Had, toWorker, queued, accepted)
    BY <1>1, <1>2, <1>3 DEF Placed
<1>6. Aside(Pending, accepted, nextId)
    BY <1>1, <1>3, <1>4 DEF Aside
<1>7. QED
    BY <1>2, <1>5, <1>6 DEF OnePlace

LEMMA PendingType ==
    ASSUME HostLaneInv
    PROVE  /\ SendOK /\ ReaderTypeOK
           /\ Pending \in [Callers -> Seq(Chunks)] /\ call \in [Callers -> CallRecords]
           /\ \A c \in Callers : Pending[c] = call[c].todo /\ call[c].todo \in Seq(Chunks)
           /\ accepted \in Seq(Nat) /\ nextId \in Nat
<1>1. SendOK /\ CreditTypeOK /\ WriterOK /\ WorkerOK
    BY TypeParts DEF HostLaneInv
<1>2. call \in [Callers -> CallRecords]
    BY <1>1, CreditParts
<1>3. \A c \in Callers : call[c].todo \in Seq(Chunks)
    BY <1>2 DEF CallRecords
<1>4. QED
    BY <1>1, <1>2, <1>3 DEF Pending, WriterOK, WorkerOK

\* What is flushed goes into the channel or away, ...
LEMMA FlushPlaced ==
    ASSUME SendOK, NEW q \in Seq(Chunks), NEW h, NEW a, Placed(h, toWorker, q, a), FlushFastChunks(q)
    PROVE  Placed(h, toWorker', queued', a)
<1> DEFINE w == toWorker
           none == <<>>
<1>1. w \in Seq(WorkerFrames) /\ q \in Seq(WorkerFrames) /\ Placed(h, w, q, a)
    BY FrameKinds DEF SendOK
<1>2. queued' = none /\ (toWorker' = w \o q \/ toWorker' = w)
    BY DEF FlushFastChunks, Post, PostFindsFull
<1> HIDE DEF w
<1>3. Placed(h, w \o q, none, a) /\ Placed(h, w, none, a)
    BY <1>1, PlacedFlush
<1>4. QED
    BY <1>2, <1>3

\* ... and a chunk that is handed over is queued, posted or gone.
LEMMA HandOverPlaced ==
    ASSUME SendOK, accepted \in Seq(Nat), NEW h, Placed(h, toWorker, queued, accepted),
           NEW x \in Chunks, x.id \notin Elems(accepted), HandOver(x)
    PROVE  /\ Placed(h, toWorker', queued', accepted')
           /\ Elems(accepted') \subseteq Elems(accepted) \cup {x.id}
<1> DEFINE one == <<x>>
           q == Append(queued, x)
           a2 == Append(accepted, x.id)
           w == toWorker
           k == queued
<1>1. x.t = "chunk" /\ x.id \in Nat
    BY DEF Chunks
<1>2. Once(one) /\ ChunkIds(one) = {x.id} /\ one \in Seq(Chunks)
    BY <1>1, ChunkIdsOne
<1>3. Elems(a2) = Elems(accepted) \cup {x.id}
    BY <1>1, ElemsAppend
<1>4. k \in Seq(Chunks) /\ w \in Seq(WorkerFrames) /\ one \in Seq(WorkerFrames)
    BY <1>2, FrameKinds DEF SendOK
<1>5. q = k \o one /\ q \in Seq(Chunks)
    BY <1>4, Concats
<1>6. Placed(h, w, k, accepted)
    OBVIOUS
<1>7. \/ Batched(x) /\ QueueFastChunk(x) /\ accepted' = a2
      \/ Post(one) /\ UNCHANGED queueVars /\ accepted' = a2
      \/ UNCHANGED <<toWorker, queueVars, accepted>>
    BY DEF HandOver, Sent, Thrown, PostFindsFull
<1> HIDE DEF one, a2, w, k
<1>8. Once(one) /\ ChunkIds(one) \cap Elems(accepted) = {}
      /\ Elems(accepted) \cup ChunkIds(one) \subseteq Elems(a2)
    BY <1>2, <1>3
<1>9. CASE QueueFastChunk(x) /\ accepted' = a2
  <2>1. FlushFastChunks(q) \/ (queued' = q /\ UNCHANGED toWorker)
      BY <1>9 DEF QueueFastChunk
  <2> HIDE DEF q
  <2>2. Placed(h, w, q, a2)
    <3>1. Placed(h, w, k \o one, a2)
        BY <1>2, <1>4, <1>6, <1>8, PlacedQueue
    <3>2. QED
        BY <1>5, <3>1
  <2>3. Placed(h, toWorker', queued', a2)
      BY <1>5, <2>1, <2>2, FlushPlaced DEF w
  <2>4. QED
      BY <1>3, <1>9, <2>3
<1>10. CASE Post(one) /\ UNCHANGED queueVars /\ accepted' = a2
  <2>1. Placed(h, w \o one, k, a2)
      BY <1>4, <1>6, <1>8, PlacedPost
  <2>2. toWorker' = w \o one /\ queued' = k
      BY <1>10 DEF Post, queueVars, w, k
  <2>3. QED
      BY <1>3, <1>10, <2>1, <2>2
<1>11. CASE UNCHANGED <<toWorker, queueVars, accepted>>
    BY <1>6, <1>11 DEF queueVars, w, k
<1>12. QED
    BY <1>7, <1>9, <1>10, <1>11

LEMMA ReaderStays ==
    ASSUME OnePlace, UNCHANGED workerVars
    PROVE  ReadOnce' /\ Had' = Had
BY ReadOnceKept DEF workerVars, readerVars, OnePlace

LEMMA OnePlaceKept ==
    ASSUME OnePlace, UNCHANGED <<readerVars, toWorker, queued, call, accepted, nextId>>
    PROVE  OnePlace'
<1>1. ReadOnce' /\ Had' = Had
    BY ReadOnceKept DEF readerVars, OnePlace
<1>2. Pending' = Pending
    BY DEF Pending
<1>3. QED
    BY <1>1, <1>2 DEF OnePlace

\* A new call keeps its chunks.
LEMMA BlockOnePlace ==
    ASSUME HostLaneInv, OnePlace, NEW c \in Callers,
           NEW n, NEW todo \in Seq(Chunks), Block(c, n, todo),
           Once(todo), \A x \in ChunkIds(todo) : x \in Nat /\ nextId <= x /\ x < nextId',
           nextId' \in Nat, nextId <= nextId',
           UNCHANGED workerVars, UNCHANGED <<toWorker, queueVars, accepted>>
    PROVE  OnePlace'
<1> DEFINE u == Pending
           u2 == Pending'
           N == ChunkIds(todo)
           m == nextId'
<1>1. ReadOnce' /\ Had' = Had
    BY ReaderStays
<1>2. Placed(Had', toWorker', queued', accepted')
    BY <1>1 DEF OnePlace, queueVars
<1>3. /\ u \in [Callers -> Seq(Chunks)] /\ accepted \in Seq(Nat) /\ nextId \in Nat
      /\ call \in [Callers -> CallRecords] /\ Aside(u, accepted, nextId)
    BY PendingType DEF OnePlace
<1>4. call' = [call EXCEPT ![c] = [need |-> n, todo |-> todo]]
    BY DEF Block
<1>5. (\A d \in Callers \ {c} : u2[d] = u[d]) /\ u2[c] = todo
    BY <1>3, <1>4 DEF Pending
<1>6. N \in SUBSET Nat /\ (\A x \in N : nextId <= x /\ x < m) /\ m \in Nat /\ nextId <= m
    OBVIOUS
<1>7. Once(u2[c]) /\ ChunkIds(u2[c]) \subseteq ChunkIds(u[c]) \cup N
    BY <1>5
<1> HIDE DEF u, u2, N, m
<1>8. Aside(u2, accepted, m)
    BY <1>3, <1>5, <1>6, <1>7, AsideBlocks
<1>9. QED
    BY <1>1, <1>2, <1>8 DEF OnePlace, u2, m

\* New chunks that are handed over within their call.
LEMMA AtOnceOnePlace ==
    ASSUME HostLaneInv, OnePlace, UNCHANGED <<workerVars, call>>,
           NEW N \in SUBSET Nat, \A x \in N : nextId <= x /\ x < nextId',
           nextId' \in Nat, nextId <= nextId',
           Placed(Had, toWorker', queued', accepted'),
           Elems(accepted') \subseteq Elems(accepted) \cup N
    PROVE  OnePlace'
<1> DEFINE u == Pending
           a2 == accepted'
           m == nextId'
<1>1. ReadOnce' /\ Had' = Had
    BY ReaderStays
<1>2. /\ u \in [Callers -> Seq(Chunks)] /\ accepted \in Seq(Nat) /\ nextId \in Nat
      /\ Aside(u, accepted, nextId)
    BY PendingType DEF OnePlace
<1>3. Pending' = u
    BY DEF Pending
<1>4. (\A x \in N : nextId <= x /\ x < m) /\ m \in Nat /\ nextId <= m
    OBVIOUS
<1>5. Elems(a2) \subseteq Elems(accepted) \cup N
    OBVIOUS
<1> HIDE DEF u, a2, m
<1>6. Aside(u, a2, m)
    BY <1>2, <1>4, <1>5, AsideNew
<1>7. QED
    BY <1>1, <1>3, <1>6 DEF OnePlace, a2, m

LEMMA WriteOnePlace ==
    ASSUME HostLaneInv, OnePlace, NEW c \in Callers, NEW n \in Sizes, Write(c, n)
    PROVE  OnePlace'
<1> DEFINE ch == Chunk(nextId, n)
           one == <<ch>>
           N == {nextId}
<1>1. /\ SendOK /\ accepted \in Seq(Nat) /\ nextId \in Nat
      /\ Placed(Had, toWorker, queued, accepted)
      /\ Aside(Pending, accepted, nextId)
    BY PendingType DEF OnePlace
<1>2. ch \in Chunks /\ ch.id = nextId /\ ch.t = "chunk"
    BY <1>1, NewChunk DEF Chunk
<1>3. /\ nextId' = nextId + 1 /\ UNCHANGED workerVars
      /\ \/ HandOver(ch) /\ UNCHANGED call
         \/ Block(c, n, one) /\ UNCHANGED <<toWorker, queueVars, accepted>>
    BY DEF Write, HandOver, outsideWriter
<1> HIDE DEF ch
<1>4. one \in Seq(Chunks) /\ Once(one) /\ ChunkIds(one) = {nextId}
    BY <1>2, ChunkIdsOne
<1>5. nextId' \in Nat /\ nextId <= nextId' /\ \A x \in N : x \in Nat /\ nextId <= x /\ x < nextId'
    BY <1>1, <1>3
<1> HIDE DEF one
<1>6. CASE Block(c, n, one) /\ UNCHANGED <<toWorker, queueVars, accepted>>
    BY <1>3, <1>4, <1>5, <1>6, BlockOnePlace
<1>7. CASE HandOver(ch) /\ UNCHANGED call
  <2>1. ch.id \notin Elems(accepted)
    <3>1. \A x \in Elems(accepted) : x < nextId
        BY <1>1 DEF Aside
    <3>2. QED
        BY <1>1, <1>2, <3>1
  <2>2. /\ Placed(Had, toWorker', queued', accepted')
        /\ Elems(accepted') \subseteq Elems(accepted) \cup {ch.id}
      BY <1>1, <1>2, <1>7, <2>1, HandOverPlaced
  <2>3. N \in SUBSET Nat /\ Elems(accepted') \subseteq Elems(accepted) \cup N
      BY <1>1, <1>2, <2>2
  <2> HIDE DEF N
  <2>4. QED
      BY <1>3, <1>5, <1>7, <2>2, <2>3, AtOnceOnePlace
<1>8. QED
    BY <1>3, <1>6, <1>7

LEMMA WriteManyOnePlace ==
    ASSUME HostLaneInv, OnePlace, NEW c \in Callers, NEW sizes \in Batches, WriteMany(c, sizes)
    PROVE  OnePlace'
<1> DEFINE chunks == [i \in DOMAIN sizes |-> Chunk(nextId + i - 1, sizes[i])]
           n == Head(chunks).bytes
           N == ChunkIds(chunks)
           a2 == accepted \o Ids(chunks)
           w == toWorker
           k == queued
<1>1. /\ SendOK /\ accepted \in Seq(Nat) /\ nextId \in Nat
      /\ Placed(Had, w, k, accepted)
      /\ Aside(Pending, accepted, nextId)
    BY PendingType DEF OnePlace
<1>2. Sizes \in SUBSET Nat /\ sizes \in Seq(Sizes) /\ Len(sizes) \in Nat
    BY HostLaneAssumption
<1>3. chunks \in Seq(Chunks)
    BY <1>1, BatchChunks
<1>4. Once(chunks) /\ \A x \in N : x \in Nat /\ nextId <= x /\ x < nextId + Len(sizes)
    BY <1>1, <1>2, NextIds
<1>5. /\ nextId' = nextId + Len(sizes) /\ UNCHANGED workerVars /\ UNCHANGED queueVars
      /\ \/ Post(chunks) /\ accepted' = a2 /\ UNCHANGED call
         \/ UNCHANGED <<toWorker, accepted, call>>
         \/ Block(c, n, chunks) /\ UNCHANGED <<toWorker, accepted>>
    BY DEF WriteMany, outsideWriter, PostFindsFull, Ids
<1> HIDE DEF chunks, n, w, k, a2
<1>6. nextId' \in Nat /\ nextId <= nextId' /\ \A x \in N : x \in Nat /\ nextId <= x /\ x < nextId'
    BY <1>1, <1>2, <1>4, <1>5
<1>7. CASE Block(c, n, chunks) /\ UNCHANGED <<toWorker, accepted>>
    BY <1>3, <1>4, <1>5, <1>6, <1>7, BlockOnePlace
<1>8. N \in SUBSET Nat
    BY <1>6
<1>9. CASE UNCHANGED <<toWorker, accepted, call>>
  <2>1. Placed(Had, toWorker', queued', accepted')
      BY <1>1, <1>5, <1>9 DEF w, k, queueVars
  <2>2. Elems(accepted') \subseteq Elems(accepted) \cup N
      BY <1>9
  <2> HIDE DEF N
  <2>3. QED
      BY <1>5, <1>6, <1>8, <1>9, <2>1, <2>2, AtOnceOnePlace
<1>10. CASE Post(chunks) /\ accepted' = a2 /\ UNCHANGED call
  <2>1. Elems(a2) = Elems(accepted) \cup N
      BY <1>1, <1>3, ElemsOfChunks DEF a2
  <2>2. w \in Seq(WorkerFrames) /\ chunks \in Seq(WorkerFrames)
      BY <1>1, <1>3, FrameKinds DEF SendOK, w
  <2>3. ChunkIds(chunks) \cap Elems(accepted) = {}
    <3>1. \A x \in Elems(accepted) : x < nextId
        BY <1>1 DEF Aside
    <3>2. QED
        BY <1>1, <1>6, <3>1
  <2>4. Elems(accepted) \cup ChunkIds(chunks) \subseteq Elems(a2)
      BY <2>1
  <2>5. Placed(Had, w \o chunks, k, a2)
      BY <1>1, <1>4, <2>2, <2>3, <2>4, PlacedPost
  <2>6. Placed(Had, toWorker', queued', accepted')
      BY <1>5, <1>10, <2>5 DEF Post, queueVars, w, k
  <2>7. Elems(accepted') \subseteq Elems(accepted) \cup N
      BY <1>10, <2>1
  <2> HIDE DEF N
  <2>8. QED
      BY <1>5, <1>6, <1>8, <1>10, <2>6, <2>7, AtOnceOnePlace
<1>11. QED
    BY <1>5, <1>7, <1>9, <1>10

LEMMA ReadyOnePlace ==
    ASSUME HostLaneInv, OnePlace, NEW c \in Callers, NEW n, Ready(c, n)
    PROVE  OnePlace'
<1> DEFINE none == <<>>
<1>1. none \in Seq(Chunks) /\ Once(none) /\ ChunkIds(none) = {}
    BY ChunkIdsEmpty
<1>2. /\ Block(c, n, none) /\ nextId' = nextId
      /\ UNCHANGED workerVars /\ UNCHANGED <<toWorker, queueVars, accepted>>
    BY DEF Ready, outsideWriter, historyVars
<1> HIDE DEF none
<1>3. nextId' \in Nat /\ nextId <= nextId'
    BY <1>2, PendingType
<1>4. QED
    BY <1>1, <1>2, <1>3, BlockOnePlace

LEMMA ResumeOnePlace ==
    ASSUME HostLaneInv, OnePlace, Resume
    PROVE  OnePlace'
<1> DEFINE c == Head(jobs).caller
           todo == call[c].todo
           x == Head(todo)
           rest == Tail(todo)
           u == Pending
           u2 == Pending'
           a2 == accepted'
<1>1. /\ SendOK /\ accepted \in Seq(Nat) /\ nextId \in Nat
      /\ u \in [Callers -> Seq(Chunks)] /\ call \in [Callers -> CallRecords]
      /\ Placed(Had, toWorker, queued, accepted)
      /\ Aside(u, accepted, nextId) /\ CreditTypeOK
    BY PendingType, TypeParts DEF OnePlace, HostLaneInv
<1>2. jobs # <<>> /\ Continues(c, todo)
    BY DEF Resume, Continues
<1>3. /\ \/ /\ todo = <<>>
            /\ Settle(c)
            /\ UNCHANGED <<credits, queueVars, toWorker, accepted, lost, fulls>>
         \/ /\ todo # <<>>
            /\ HandOver(x)
            /\ \/ Settle(c)
               \/ call' = [call EXCEPT ![c] = [need |-> todo[2].bytes, todo |-> rest]]
    BY <1>2, Continuing, Zenon
<1>4. c \in Callers /\ todo \in Seq(Chunks)
    BY <1>1, <1>2, HeadJob
<1>5. UNCHANGED workerVars /\ nextId' = nextId
  <2>1. UNCHANGED <<outsideWriter, nextId>>
      BY Zenon DEF Resume
  <2>2. QED
      BY <2>1 DEF outsideWriter
<1>6. ReadOnce' /\ Had' = Had
    BY <1>5, ReaderStays
<1>7. u[c] = todo /\ Once(todo)
  <2>1. u[c] = todo
      BY <1>4 DEF Pending
  <2>2. Once(u[c])
      BY <1>1, <1>4 DEF Aside
  <2>3. QED
      BY <2>1, <2>2
<1>8. \E s : call' = [call EXCEPT ![c] = s] /\ (s.todo = <<>> \/ (todo # <<>> /\ s.todo = rest))
  <2> DEFINE more == [need |-> todo[2].bytes, todo |-> rest]
  <2>1. NoCall.todo = <<>> /\ more.todo = rest
      BY DEF NoCall
  <2>2. \/ call' = [call EXCEPT ![c] = NoCall]
        \/ todo # <<>> /\ call' = [call EXCEPT ![c] = more]
      BY <1>3, Zenon DEF Settle
  <2> HIDE DEF c, todo, rest, more
  <2>3. QED
      BY <2>1, <2>2, Zenon
<1>9. PICK s : call' = [call EXCEPT ![c] = s] /\ (s.todo = <<>> \/ (todo # <<>> /\ s.todo = rest))
    BY <1>8
<1>10. u2[c] = s.todo /\ \A d \in Callers \ {c} : u2[d] = u[d]
  <2> HIDE DEF c, todo, rest
  <2>1. QED
      BY <1>1, <1>4, <1>9 DEF Pending
<1> HIDE DEF c, u, u2
<1>11. /\ Once(u2[c]) /\ ChunkIds(u2[c]) \subseteq ChunkIds(todo)
       /\ todo # <<>> => x \in Chunks /\ x.id \in ChunkIds(todo) /\ x.id \notin ChunkIds(u2[c])
  <2> HIDE DEF todo
  <2>1. ASSUME todo # <<>>
        PROVE  /\ x \in Chunks /\ Once(rest) /\ ChunkIds(rest) \subseteq ChunkIds(todo)
               /\ x.id \in ChunkIds(todo) /\ x.id \notin ChunkIds(rest)
    <3>1. x \in Chunks
        BY <1>4, <2>1
    <3>2. x.t = "chunk"
        BY <3>1 DEF Chunks
    <3>3. QED
        BY <1>4, <1>7, <2>1, <3>1, <3>2, ChunkIdsTail
  <2> HIDE DEF x, rest
  <2> DEFINE none == <<>>
  <2>2. Once(none) /\ ChunkIds(none) = {}
      BY ChunkIdsEmpty
  <2>3. u2[c] = none \/ (todo # <<>> /\ u2[c] = rest)
      BY <1>9, <1>10
  <2> HIDE DEF none
  <2>4. QED
      BY <2>1, <2>2, <2>3
<1>12. /\ Placed(Had, toWorker', queued', a2)
       /\ Elems(a2) \subseteq Elems(accepted) \cup ChunkIds(todo)
       /\ Elems(a2) \cap ChunkIds(u2[c]) = {}
  <2>1. ChunkIds(todo) \cap Elems(accepted) = {}
      BY <1>1, <1>4, <1>7 DEF Aside
  <2>2. CASE todo = <<>> /\ UNCHANGED <<credits, queueVars, toWorker, accepted, lost, fulls>>
    <3>1. a2 = accepted /\ queued' = queued /\ toWorker' = toWorker
        BY <2>2 DEF queueVars
    <3> HIDE DEF todo, a2
    <3>2. QED
        BY <1>1, <1>11, <2>1, <3>1
  <2>3. CASE todo # <<>> /\ HandOver(x)
    <3> HIDE DEF todo, x
    <3>1. x \in Chunks /\ x.id \notin Elems(accepted)
        BY <1>11, <2>1, <2>3
    <3>2. Placed(Had, toWorker', queued', accepted') /\ Elems(accepted') \subseteq Elems(accepted) \cup {x.id}
        BY <1>1, <2>3, <3>1, HandOverPlaced
    <3>3. QED
        BY <1>11, <2>1, <2>3, <3>2
  <2>4. QED
    <3> HIDE DEF todo, x, a2
    <3>1. QED
        BY <1>3, <2>2, <2>3
<1> HIDE DEF todo, x, rest, a2
<1>13. Aside(u2, a2, nextId)
  <2>1. ChunkIds(u2[c]) \subseteq ChunkIds(u[c]) /\ Elems(a2) \subseteq Elems(accepted) \cup ChunkIds(u[c])
      BY <1>7, <1>11, <1>12
  <2>2. QED
      BY <1>1, <1>4, <1>10, <1>11, <1>12, <2>1, AsideSent
<1>14. Aside(Pending', accepted', nextId') /\ Placed(Had', toWorker', queued', accepted')
    BY <1>5, <1>6, <1>12, <1>13 DEF u2, a2
<1>15. QED
    BY <1>6, <1>14 DEF OnePlace

LEMMA FlushTickOnePlace ==
    ASSUME HostLaneInv, OnePlace, FlushTick
    PROVE  OnePlace'
<1> DEFINE q == queued
<1>1. SendOK /\ q \in Seq(Chunks) /\ Placed(Had, toWorker, q, accepted) /\ FlushFastChunks(q)
    BY PendingType DEF OnePlace, FlushTick, SendOK
<1>2. UNCHANGED workerVars /\ UNCHANGED <<call, nextId, accepted>>
    BY DEF FlushTick, outsideWriter
<1> HIDE DEF q
<1>3. Placed(Had, toWorker', queued', accepted)
    BY <1>1, FlushPlaced
<1>4. ReadOnce' /\ Had' = Had /\ Pending' = Pending
    BY <1>2, ReaderStays DEF Pending
<1>5. QED
    BY <1>2, <1>3, <1>4 DEF OnePlace

\* The end goes behind what is flushed, and what still waits is rejected.
LEMMA EndOnePlace ==
    ASSUME HostLaneInv, OnePlace, UNCHANGED endUnchanged, NEW oks,
           NEW frames \in Seq(WorkerFrames), \A i \in DOMAIN frames : frames[i].t # "chunk",
           EndPosts(frames, oks), ReleaseWriter \/ UNCHANGED call
    PROVE  OnePlace'
<1> DEFINE none == <<>>
           w == toWorker
           k == queued
           went == When(oks[1], queued)
           u == Pending
           u2 == Pending'
<1>1. SendOK /\ Placed(Had, w, k, accepted) /\ Aside(u, accepted, nextId)
    BY PendingType DEF OnePlace
<1>2. w \in Seq(WorkerFrames) /\ k \in Seq(WorkerFrames) /\ none \in Seq(WorkerFrames)
    BY <1>1, FrameKinds DEF SendOK
<1>3. queued' = none /\ toWorker' = (w \o went) \o frames /\ (went = k \/ went = none)
    BY DEF EndPosts, When
<1>4. UNCHANGED workerVars /\ UNCHANGED <<nextId, accepted>>
    BY DEF endUnchanged
<1>5. ReadOnce' /\ Had' = Had
    BY <1>4, ReaderStays
<1>6. \A c \in Callers : Once(u2[c]) /\ ChunkIds(u2[c]) \subseteq ChunkIds(u[c])
  <2>1. SUFFICES ASSUME NEW c \in Callers PROVE Once(u2[c]) /\ ChunkIds(u2[c]) \subseteq ChunkIds(u[c])
      OBVIOUS
  <2>2. call'[c] = NoCall \/ call'[c] = call[c]
      BY DEF ReleaseWriter, RejectWriterWaiters
  <2>3. u2[c] = none \/ u2[c] = u[c]
      BY <2>2 DEF Pending, NoCall
  <2>4. Once(none) /\ ChunkIds(none) = {} /\ Once(u[c])
      BY <1>1, ChunkIdsEmpty DEF Aside
  <2> HIDE DEF none, u, u2
  <2>5. QED
      BY <2>3, <2>4
<1> HIDE DEF w, k, went, u, u2
<1>7. Placed(Had, w \o k, none, accepted) /\ Placed(Had, w, none, accepted)
    BY <1>1, <1>2, PlacedFlush
<1>8. w \o none = w
    BY <1>2, Concats
<1> HIDE DEF none
<1>9. Placed(Had, w \o went, none, accepted) /\ w \o went \in Seq(WorkerFrames)
  <2>1. CASE went = k
      BY <1>2, <1>7, <2>1
  <2>2. CASE went = none
      BY <1>2, <1>7, <1>8, <2>2
  <2>3. QED
      BY <1>3, <2>1, <2>2
<1> DEFINE wk == w \o went
<1>10. wk \in Seq(WorkerFrames) /\ Placed(Had, wk, none, accepted)
    BY <1>9
<1>11. toWorker' = wk \o frames
    BY <1>3
<1> HIDE DEF wk
<1>12. Placed(Had, wk \o frames, none, accepted)
    BY <1>10, PlacedFrames
<1>13. Aside(u2, accepted, nextId)
    BY <1>1, <1>6, AsideLess
<1>14. QED
    BY <1>3, <1>4, <1>5, <1>11, <1>12, <1>13 DEF OnePlace, u2

\* The frames of an end carry no chunk.
LEMMA EndChunkless ==
    ASSUME NEW kind \in {"close", "error", "cancel"}, NEW oks
    PROVE  LET some == When(oks[2], <<Control(kind)>>) \o When(oks[3], <<Control("discard")>>)
               all == <<Control(kind)>> \o When(oks[3], <<Control("discard")>>)
               none == <<>>
           IN  /\ some \in Seq(WorkerFrames) /\ \A i \in DOMAIN some : some[i].t # "chunk"
               /\ all \in Seq(WorkerFrames) /\ \A i \in DOMAIN all : all[i].t # "chunk"
               /\ none \in Seq(WorkerFrames) /\ \A i \in DOMAIN none : none[i].t # "chunk"
<1> DEFINE F == {f \in WorkerFrames : f.t # "chunk"}
           x == Control(kind)
           y == Control("discard")
<1>1. x \in F /\ y \in F
    BY FrameKinds DEF Control, WorkerFrames
<1>2. ASSUME NEW s \in Seq(F)
      PROVE  s \in Seq(WorkerFrames) /\ \A i \in DOMAIN s : s[i].t # "chunk"
  <2>1. \A i \in DOMAIN s : s[i] \in F
      OBVIOUS
  <2>2. QED
      BY <2>1
<1> HIDE DEF F, x, y
<1>3. When(oks[2], <<x>>) \in Seq(F) /\ When(oks[3], <<y>>) \in Seq(F) /\ <<x>> \in Seq(F) /\ <<>> \in Seq(F)
    BY <1>1 DEF When
<1>4. When(oks[2], <<x>>) \o When(oks[3], <<y>>) \in Seq(F) /\ <<x>> \o When(oks[3], <<y>>) \in Seq(F)
    BY <1>3
<1>5. QED
    BY <1>2, <1>3, <1>4 DEF x, y

LEMMA CloseOnePlace ==
    ASSUME HostLaneInv, OnePlace, Close
    PROVE  OnePlace'
<1>1. PICK oks \in [1 .. 3 -> BOOLEAN] :
          \/ /\ EndPosts(When(oks[2], <<Control("close")>>)
                           \o When(oks[3], <<Control("discard")>>), oks)
             /\ ReleaseWriter
          \/ EndFails(oks)
    BY DEF Close
<1>2. UNCHANGED endUnchanged
    BY DEF Close
<1> DEFINE both == When(oks[2], <<Control("close")>>) \o When(oks[3], <<Control("discard")>>)
           none == <<>>
<1>3. /\ both \in Seq(WorkerFrames) /\ \A i \in DOMAIN both : both[i].t # "chunk"
      /\ none \in Seq(WorkerFrames) /\ \A i \in DOMAIN none : none[i].t # "chunk"
    BY EndChunkless
<1>5. (EndPosts(both, oks) /\ ReleaseWriter) \/ EndFails(oks)
    BY <1>1
<1>6. EndFails(oks) => UNCHANGED call
    BY DEF EndFails
<1>7. EndFails(oks) => EndPosts(none, oks)
    BY Zenon DEF EndFails
<1> HIDE DEF both, none
<1>8. (EndPosts(both, oks) /\ ReleaseWriter) \/ (EndPosts(none, oks) /\ UNCHANGED call)
    BY <1>5, <1>6, <1>7, Zenon
<1>9. QED
    BY <1>2, <1>3, <1>8, EndOnePlace

LEMMA AbortOnePlace ==
    ASSUME HostLaneInv, OnePlace, NEW kind \in {"error", "cancel"}, Abort(kind)
    PROVE  OnePlace'
<1>1. PICK oks \in [1 .. 3 -> BOOLEAN] :
          \/ /\ EndPosts(<<Control(kind)>> \o When(oks[3], <<Control("discard")>>), oks)
             /\ ReleaseWriter
          \/ EndFails(oks)
    BY DEF Abort
<1>2. UNCHANGED endUnchanged
    BY DEF Abort
<1> DEFINE both == <<Control(kind)>> \o When(oks[3], <<Control("discard")>>)
           none == <<>>
<1>3. /\ both \in Seq(WorkerFrames) /\ \A i \in DOMAIN both : both[i].t # "chunk"
      /\ none \in Seq(WorkerFrames) /\ \A i \in DOMAIN none : none[i].t # "chunk"
    BY EndChunkless
<1>5. (EndPosts(both, oks) /\ ReleaseWriter) \/ EndFails(oks)
    BY <1>1
<1>6. EndFails(oks) => UNCHANGED call
    BY DEF EndFails
<1>7. EndFails(oks) => EndPosts(none, oks)
    BY Zenon DEF EndFails
<1> HIDE DEF both, none
<1>8. (EndPosts(both, oks) /\ ReleaseWriter) \/ (EndPosts(none, oks) /\ UNCHANGED call)
    BY <1>5, <1>6, <1>7, Zenon
<1>9. QED
    BY <1>2, <1>3, <1>8, EndOnePlace

LEMMA WorkerReceiveOnePlace ==
    ASSUME HostLaneInv, OnePlace, WorkerReceive
    PROVE  OnePlace'
<1> DEFINE w == toWorker
           k == queued
           f == Head(w)
<1>1. ReaderTypeOK /\ w \in Seq(WorkerFrames) /\ ReadOnce /\ Placed(Had, w, k, accepted)
    BY PendingType DEF SendOK, OnePlace
<1>2. /\ w # <<>> /\ toWorker' = Tail(w)
      /\ ReceiveChunk(f) \/ ReceiveEnd(f) \/ ReceiveDiscard(f)
      /\ UNCHANGED <<writerVars, historyVars>>
    BY DEF WorkerReceive
<1>3. f \in WorkerFrames
    BY <1>1, <1>2
<1> HIDE DEF w, f
<1>4. \/ UNCHANGED readerVars
      \/ f \in Chunks /\ PushChunk(f)
      \/ \E kind \in {"close", "error"} : PushEnd(kind)
  <2>1. CASE ReceiveChunk(f)
    <3>1. f \in Chunks
        BY <1>3, <2>1 DEF ReceiveChunk, WorkerFrames, Chunks
    <3>2. QED
        BY <2>1, <3>1 DEF ReceiveChunk
  <2>2. CASE ReceiveEnd(f)
      BY <2>2 DEF ReceiveEnd, workerVars
  <2>3. CASE ReceiveDiscard(f)
      BY <2>3 DEF ReceiveDiscard
  <2>4. QED
      BY <1>2, <2>1, <2>2, <2>3
<1> HIDE DEF k
<1>5. ReadOnce' /\ Placed(Had', Tail(w), k, accepted)
    BY <1>1, <1>2, <1>4, ArrivesOnce DEF f
<1>6. queued' = k /\ UNCHANGED <<call, accepted, nextId>>
    BY <1>2 DEF writerVars, creditVars, queueVars, historyVars, k
<1>7. Pending' = Pending
    BY <1>6 DEF Pending
<1>8. QED
    BY <1>2, <1>5, <1>6, <1>7 DEF OnePlace

LEMMA ReaderOnePlace ==
    ASSUME HostLaneInv, OnePlace, CancelReader \/ \E r \in Readers : Read(r)
    PROVE  OnePlace'
<1>1. ReaderTypeOK
    BY PendingType
<1>2. \/ CancelRead
      \/ \E r \in Readers : ReadChunk(r) \/ ReadEnded(r) \/ ReadEnd(r) \/ ReadWait(r)
    BY DEF CancelReader, Read
<1>3. UNCHANGED <<writerVars, historyVars, toWorker>>
    BY DEF CancelReader, Read
<1> DEFINE w == toWorker
           k == queued
<1>4. ReadOnce /\ Placed(Had, w, k, accepted)
    BY DEF OnePlace
<1> HIDE DEF w, k
<1>5. ReadOnce' /\ Placed(Had', w, k, accepted)
    BY <1>1, <1>2, <1>4, TakesOnce
<1>6. toWorker' = w /\ queued' = k /\ UNCHANGED <<call, accepted, nextId>>
    BY <1>3 DEF writerVars, creditVars, queueVars, historyVars, w, k
<1>7. Pending' = Pending
    BY <1>6 DEF Pending
<1>8. QED
    BY <1>5, <1>6, <1>7 DEF OnePlace

LEMMA OnePlaceStep == HostLaneInv /\ OnePlace /\ [Next]_vars => OnePlace'
<1> SUFFICES ASSUME HostLaneInv, OnePlace, [Next]_vars
             PROVE  OnePlace'
    OBVIOUS
<1>1. CASE UNCHANGED vars
    BY <1>1, OnePlaceKept DEF vars, writerVars, creditVars, queueVars, workerVars, historyVars
<1>2. ASSUME NEW c \in Callers, NEW n \in Sizes, Write(c, n) \/ Ready(c, n)
      PROVE  OnePlace'
    BY <1>2, WriteOnePlace, ReadyOnePlace
<1>3. ASSUME NEW c \in Callers, NEW sizes \in Batches, WriteMany(c, sizes)
      PROVE  OnePlace'
    BY <1>3, WriteManyOnePlace
<1>4. CASE Resume
    BY <1>4, ResumeOnePlace
<1>5. CASE FlushTick
    BY <1>5, FlushTickOnePlace
<1>6. CASE Close
    BY <1>6, CloseOnePlace
<1>7. ASSUME NEW kind \in {"error", "cancel"}, Abort(kind)
      PROVE  OnePlace'
    BY <1>7, AbortOnePlace
<1>8. CASE HostReceive
    BY <1>8, OnePlaceKept DEF HostReceive, workerVars, queueVars, historyVars
<1>9. CASE WorkerReceive
    BY <1>9, WorkerReceiveOnePlace
<1>10. CASE CancelReader \/ \E r \in Readers : Read(r)
    BY <1>10, ReaderOnePlace
<1>11. QED
    BY <1>1, <1>2, <1>3, <1>4, <1>5, <1>6, <1>7, <1>8, <1>9, <1>10 DEF Next

(***************************************************************************)
(* What was read was handed over by the writer, and each chunk once: for   *)
(* any number of callers, both ways into the channel, an end in the middle *)
(* of them, posts that find the channel full and a reader that cancels.    *)
(* Order is promised only where HostLaneIsAByteStream holds; this is what  *)
(* is left of it everywhere.                                               *)
(***************************************************************************)
THEOREM ReadAtMostOnce == Spec => []ReadOnceAndAccepted
<1> DEFINE Inv == HostLaneInv /\ OnePlace
<1>1. Init => Inv
    BY InvInit, OnePlaceInit
<1>2. Inv /\ [Next]_vars => Inv'
    BY InvStep, OnePlaceStep
<1>3. Inv => ReadOnceAndAccepted
    BY DEF OnePlace, ReadOnce, Placed, Had, ReadOnceAndAccepted
<1>4. QED
    BY <1>1, <1>2, <1>3, PTL DEF Spec


-----------------------------------------------------------------------------
(***************************************************************************)
(* The lane implements the byte stream when its writer awaits its calls    *)
(* and all its chunks go one way: every chunk is posted at once, or every  *)
(* chunk goes through the queue and no post finds the channel full.        *)
(* Elsewhere the code does not promise it: a chunk that is posted at once  *)
(* overtakes those in the queue, and a flush that finds the channel full   *)
(* drops chunks whose write() has gone through.                            *)
(***************************************************************************)
Direct == \A n \in Sizes : n > BatchMax

Gathered == /\ \A n \in Sizes : n <= BatchMax
            /\ "writeMany" \notin Ops
            /\ MaxFull = 0

OneWay == Direct \/ Gathered

\* A step of the lane is a step of the byte stream or none.
StreamStep == [Stream!Next]_(Stream!vars)

LEMMA Stutters ==
    ASSUME UNCHANGED <<accepted, ended, received>>, told' = told
    PROVE  StreamStep
BY DEF StreamStep, Stream!vars

LEMMA Sends ==
    ASSUME NEW b \in Seq(Chunks), b # <<>>, NEW k \in Nat, k + Len(b) <= MaxChunks,
           \A i \in DOMAIN b : b[i].id = k + i,
           ended = "no", accepted' = accepted \o Ids(b),
           UNCHANGED <<ended, received>>, told' = told
    PROVE  StreamStep
<1> DEFINE m == k + 1
           n == k + Len(b)
<1>1. Len(b) \in Nat \ {0} /\ DOMAIN b = 1 .. Len(b)
    OBVIOUS
<1>2. m \in 1 .. MaxChunks /\ n \in 1 .. MaxChunks /\ m <= n
    BY <1>1, HostLaneAssumption
<1>3. Ids(b) = [i \in 1 .. n - m + 1 |-> m + i - 1]
  <2>1. n - m + 1 = Len(b)
      BY <1>1
  <2>2. \A i \in 1 .. Len(b) : b[i].id = m + i - 1
    <3>1. \A i \in Nat : k + i = k + 1 + i - 1
        OBVIOUS
    <3>2. SUFFICES ASSUME NEW i \in 1 .. Len(b) PROVE b[i].id = m + i - 1
        OBVIOUS
    <3>3. i \in Nat /\ i \in DOMAIN b
        BY <1>1
    <3>4. QED
        BY <3>1, <3>3
  <2> HIDE DEF m, n
  <2>3. QED
      BY <1>1, <2>1, <2>2 DEF Ids
<1>4. Stream!SendMany([i \in 1 .. n - m + 1 |-> m + i - 1])
  <2> HIDE DEF m, n
  <2>1. QED
      BY <1>3 DEF Stream!SendMany
<1> HIDE DEF m, n
<1>5. Stream!Next
    BY <1>2, <1>4 DEF Stream!Next
<1>6. QED
    BY <1>5 DEF StreamStep

LEMMA Ends ==
    ASSUME NEW kind \in {"close", "error", "cancel"}, ended = "no", ended' = kind,
           UNCHANGED <<accepted, received>>, told' = told
    PROVE  StreamStep
<1> DEFINE how == IF kind = "cancel" THEN "error" ELSE kind
<1>1. how \in {"close", "error"} /\ Stream!End(how)
    BY DEF Stream!End
<1>2. Stream!Next
    BY <1>1 DEF Stream!Next
<1>3. QED
    BY <1>2 DEF StreamStep

\* A step of the reader is one of the byte stream, while the writer rests.
LEMMA ReaderSteps ==
    ASSUME received \in Seq(Nat), ended \in EndedKinds,
           UNCHANGED <<accepted, ended>>, ReaderStep(accepted, ended)
    PROVE  StreamStep
<1>1. CASE TellsNothing
    BY <1>1, Stutters DEF TellsNothing
<1>2. CASE TakesChunk(accepted)
  <2>1. PICK x \in Nat, t \in Seq(Nat) :
            accepted = received \o (<<x>> \o t) /\ received' = Append(received, x)
      BY <1>2 DEF TakesChunk
  <2>2. Len(received) < Len(accepted) /\ accepted[Len(received) + 1] = x
      BY <2>1, NextOne
  <2>3. Stream!Get
      BY <1>2, <2>1, <2>2 DEF TakesChunk, Stream!Get
  <2>4. QED
      BY <2>3 DEF Stream!Next, StreamStep
<1>3. CASE TakesEnd(accepted, ended)
  <2>1. Stream!SeeEnd
      BY <1>3 DEF TakesEnd, Stream!SeeEnd, EndedKinds
  <2>2. QED
      BY <2>1 DEF Stream!Next, StreamStep
<1>4. QED
    BY <1>1, <1>2, <1>3 DEF ReaderStep

-----------------------------------------------------------------------------
(***************************************************************************)
(* What the writer has left to send.  Once the stream has ended that is    *)
(* nothing; and chunks that are posted at once leave nothing in the queue. *)
(***************************************************************************)
Unsent(t) == \A i \in DOMAIN t : t[i].id \in 1 .. MaxChunks /\ t[i].bytes \in Sizes

WriterTurns ==
    /\ nextId # 0
    /\ \A c \in Callers : Unsent(call[c].todo)
    /\ ended # "no" => queued = <<>> /\ \A c \in Callers : call[c] = NoCall
    /\ Direct => queued = <<>>

\* The frames that a chunk accepted now would stand behind.
UnderWay == toWorker \o queued

LEMMA NothingUnsent == Unsent(<<>>)
<1> DEFINE none == <<>>
<1>1. DOMAIN none = {}
    OBVIOUS
<1> HIDE DEF none
<1>2. Unsent(none)
    BY <1>1 DEF Unsent
<1>3. QED
    BY <1>2 DEF none

LEMMA TurnsInit == Init => WriterTurns
BY NothingUnsent DEF Init, CreditInit, NoCall, WriterTurns

LEMMA TurnsUnchanged ==
    ASSUME WriterTurns, UNCHANGED <<ended, queued, call, nextId>>
    PROVE  WriterTurns'
BY DEF WriterTurns, Unsent, NoCall

LEMMA NeverFull ==
    ASSUME HostLaneInv, Gathered, NEW q
    PROVE  ~PostFindsFull(q)
<1>1. fulls \in Nat
    BY TypeParts DEF HostLaneInv, SendOK
<1>2. QED
    BY <1>1 DEF Gathered, PostFindsFull

LEMMA UnderWayParts ==
    ASSUME HostLaneInv
    PROVE  /\ toWorker \in Seq(WorkerFrames) /\ queued \in Seq(WorkerFrames)
           /\ queued \in Seq(Chunks)
BY TypeParts, FrameKinds DEF HostLaneInv, SendOK

\* A chunk that is handed over stands behind all that is under way.
LEMMA SentLast ==
    ASSUME OneWay, HostLaneInv, WriterTurns, NEW ch \in Chunks, ch.bytes \in Sizes, Sent(ch)
    PROVE  /\ UnderWay' = UnderWay \o <<ch>>
           /\ accepted' = accepted \o Ids(<<ch>>)
           /\ Direct => queued' = <<>>
<1> DEFINE one == <<ch>>
           t == toWorker
           q == queued
           more == Append(queued, ch)
<1>1. /\ t \in Seq(WorkerFrames) /\ q \in Seq(WorkerFrames) /\ one \in Seq(WorkerFrames)
      /\ more = q \o one
    BY UnderWayParts, FrameKinds
<1>2. accepted' = accepted \o Ids(one)
  <2>1. accepted \in Seq(Nat) /\ accepted' = Append(accepted, ch.id)
      BY TypeParts DEF HostLaneInv, WriterOK, Sent
  <2>2. ch.id \in Nat /\ Ids(one) = <<ch.id>>
      BY IdsOf
  <2>3. Append(accepted, ch.id) = accepted \o <<ch.id>>
      BY <2>1, <2>2
  <2> HIDE DEF one
  <2>4. QED
      BY <2>1, <2>2, <2>3
<1>3. t \o more = UnderWay \o one
  <2> HIDE DEF one, t, q, more
  <2>1. t \o more = (t \o q) \o one
      BY <1>1, Concats
  <2>2. QED
      BY <2>1 DEF UnderWay, t, q
<1>4. more \o <<>> = more /\ t \o <<>> = t /\ (t \o more) \o <<>> = t \o more
      /\ (t \o one) \o <<>> = t \o one
  <2> HIDE DEF one, t, q
  <2>1. more \in Seq(WorkerFrames) /\ t \o more \in Seq(WorkerFrames) /\ t \o one \in Seq(WorkerFrames)
      BY <1>1, Concats
  <2> HIDE DEF more
  <2>2. QED
      BY <1>1, <2>1, Concats
<1>5. CASE Batched(ch)
  <2>1. ~Direct /\ Gathered
    <3>1. ch.bytes \in Nat /\ BatchMax \in Nat /\ ch.bytes <= BatchMax
        BY <1>5, HostLaneAssumption DEF Batched
    <3>2. QED
        BY <3>1 DEF OneWay, Direct
  <2>2. QueueFastChunk(ch)
      BY <1>5 DEF Sent
  <2>3. \/ toWorker' = toWorker \o more /\ queued' = <<>>
        \/ toWorker' = toWorker /\ queued' = more
      BY <2>1, <2>2, NeverFull DEF QueueFastChunk, FlushFastChunks, Post
  <2>4. UnderWay' = t \o more
    <3> HIDE DEF more, one
    <3>1. CASE toWorker' = toWorker \o more /\ queued' = <<>>
        BY <1>4, <3>1 DEF UnderWay
    <3>2. CASE toWorker' = toWorker /\ queued' = more
        BY <3>2 DEF UnderWay
    <3>3. QED
        BY <2>3, <3>1, <3>2
  <2>5. QED
      BY <1>2, <1>3, <2>1, <2>4
<1>6. CASE ~Batched(ch)
  <2>1. Direct
      BY <1>6 DEF OneWay, Gathered, Batched
  <2>2. queued = <<>>
      BY <2>1 DEF WriterTurns
  <2>3. toWorker' = toWorker \o one /\ queued' = queued
      BY <1>6 DEF Sent, Post, queueVars
  <2>4. UnderWay' = (t \o one) \o <<>> /\ UnderWay = t
    <3>1. UnderWay = t \o <<>>
        BY <2>2 DEF UnderWay
    <3>2. QED
        BY <1>4, <2>2, <2>3, <3>1 DEF UnderWay
  <2>5. UnderWay' = UnderWay \o one
    <3> HIDE DEF one, t
    <3>1. QED
        BY <1>4, <2>4
  <2>6. QED
      BY <1>2, <2>2, <2>3, <2>5
<1>7. QED
    BY <1>5, <1>6

\* One that is not leaves everything as it was.
LEMMA ThrownAside ==
    ASSUME NEW ch, Thrown(ch)
    PROVE  UnderWay' = UnderWay /\ UNCHANGED <<queued, accepted>>
BY DEF Thrown, PostFindsFull, queueVars, UnderWay

\* A flush puts what was gathered where it belongs.
LEMMA FlushKeepsOrder ==
    ASSUME OneWay, HostLaneInv, WriterTurns, FlushTick
    PROVE  UnderWay' = UnderWay /\ queued' = <<>>
<1>1. queued' = <<>> /\ (Post(queued) \/ (queued # <<>> /\ PostFindsFull(queued)))
    BY DEF FlushTick, FlushFastChunks
<1>2. queued # <<>> => ~PostFindsFull(queued)
    BY NeverFull DEF OneWay, WriterTurns
<1>3. toWorker' = toWorker \o queued
    BY <1>1, <1>2 DEF Post
<1>4. (toWorker \o queued) \o <<>> = toWorker \o queued
    BY UnderWayParts, Concats
<1>5. QED
    BY <1>1, <1>3, <1>4 DEF UnderWay

LEMMA RefusedOne ==
    ASSUME NEW oks \in [1 .. 3 -> BOOLEAN], ~oks[1]
    PROVE  Refusals(oks) \in Nat \ {0}
<1> DEFINE S == {i \in DOMAIN oks : ~oks[i]}
<1>1. 1 \in S
    OBVIOUS
<1>2. IsFiniteSet(S)
  <2>1. IsFiniteSet(1 .. 3)
    <3>1. 1 \in Int /\ 3 \in Int
        OBVIOUS
    <3>2. QED
        BY <3>1, FS_Interval, Zenon
  <2>2. QED
      BY <2>1, FS_Subset
<1>3. Cardinality(S) # 0
    BY <1>1, <1>2, FS_EmptySet
<1>4. QED
    BY <1>3, RefusalsNat DEF Refusals

\* The end goes behind what was gathered.
LEMMA EndBehind ==
    ASSUME OneWay, HostLaneInv, WriterTurns, NEW oks \in [1 .. 3 -> BOOLEAN],
           NEW frames \in Seq(WorkerFrames), EndPosts(frames, oks)
    PROVE  UnderWay' = UnderWay \o frames /\ queued' = <<>>
<1>1. oks[1]
  <2>1. SUFFICES ASSUME ~oks[1] PROVE FALSE
      OBVIOUS
  <2>2. queued # <<>>
      BY <2>1 DEF EndPosts
  <2>3. Gathered
      BY <2>2 DEF OneWay, WriterTurns
  <2>4. fulls \in Nat /\ Refusals(oks) \in Nat \ {0}
      BY <2>1, TypeParts, RefusedOne DEF HostLaneInv, SendOK
  <2>5. QED
      BY <2>3, <2>4 DEF Gathered, EndPosts
<1>2. queued' = <<>> /\ toWorker' = (toWorker \o queued) \o frames
    BY <1>1 DEF EndPosts, When
<1>3. ((toWorker \o queued) \o frames) \o <<>> = (toWorker \o queued) \o frames
  <2>1. toWorker \o queued \in Seq(WorkerFrames)
      BY UnderWayParts, Concats
  <2>2. (toWorker \o queued) \o frames \in Seq(WorkerFrames)
      BY <2>1, Concats
  <2>3. QED
      BY <2>2, Concats
<1>4. QED
    BY <1>2, <1>3 DEF UnderWay

-----------------------------------------------------------------------------
\* What a call has left to send is what it was given or less.
LEMMA UnsentOne ==
    ASSUME HostLaneInv, WriterTurns, nextId <= MaxChunks, NEW n \in Sizes
    PROVE  /\ Chunk(nextId, n) \in Chunks /\ Chunk(nextId, n).id \in 1 .. MaxChunks
           /\ Chunk(nextId, n).bytes \in Sizes
           /\ Unsent(<<Chunk(nextId, n)>>)
<1> DEFINE ch == Chunk(nextId, n)
           one == <<ch>>
<1>1. nextId \in Nat \ {0} /\ MaxChunks \in Nat
    BY TypeParts, HostLaneAssumption DEF HostLaneInv, WriterOK, WriterTurns
<1>2. ch \in Chunks /\ ch.id = nextId /\ ch.bytes = n
    BY <1>1, NewChunk DEF Chunk
<1>3. ch.id \in 1 .. MaxChunks /\ ch.bytes \in Sizes
    BY <1>1, <1>2
<1>4. DOMAIN one = {1} /\ one[1] = ch
    OBVIOUS
<1> HIDE DEF ch, one
<1>5. Unsent(one)
    BY <1>3, <1>4 DEF Unsent
<1>6. QED
    BY <1>2, <1>3, <1>5 DEF one, ch

LEMMA UnsentMany ==
    ASSUME HostLaneInv, WriterTurns, NEW sizes \in Batches, nextId + Len(sizes) <= MaxChunks + 1
    PROVE  LET chunks == [i \in DOMAIN sizes |-> Chunk(nextId + i - 1, sizes[i])]
               k == nextId - 1
           IN  /\ chunks \in Seq(Chunks) /\ chunks # <<>> /\ Unsent(chunks)
               /\ k \in Nat /\ k + Len(chunks) <= MaxChunks
               /\ \A i \in DOMAIN chunks : chunks[i].id = k + i
<1> DEFINE chunks == [i \in DOMAIN sizes |-> Chunk(nextId + i - 1, sizes[i])]
           k == nextId - 1
<1>1. nextId \in Nat \ {0} /\ MaxChunks \in Nat
    BY TypeParts, HostLaneAssumption DEF HostLaneInv, WriterOK, WriterTurns
<1>2. sizes \in Seq(Sizes)
    BY HostLaneAssumption
<1>3. chunks \in Seq(Chunks) /\ chunks # <<>>
    BY <1>1, BatchChunks
<1>4. /\ Len(sizes) \in Nat /\ DOMAIN chunks = 1 .. Len(sizes) /\ Len(chunks) = Len(sizes)
      /\ \A i \in 1 .. Len(sizes) : chunks[i].id = nextId + i - 1 /\ chunks[i].bytes = sizes[i]
      /\ \A i \in 1 .. Len(sizes) : sizes[i] \in Sizes
    BY <1>2 DEF Chunk
<1> HIDE DEF chunks
<1>5. k \in Nat /\ k + Len(chunks) <= MaxChunks
    BY <1>1, <1>4
<1>6. ASSUME NEW i \in DOMAIN chunks
      PROVE  chunks[i].id = k + i /\ chunks[i].id \in 1 .. MaxChunks /\ chunks[i].bytes \in Sizes
  <2>1. i \in 1 .. Len(sizes)
      BY <1>4
  <2>2. chunks[i].id = nextId + i - 1 /\ chunks[i].bytes \in Sizes
      BY <1>4, <2>1
  <2>3. QED
      BY <1>1, <1>4, <2>1, <2>2
<1>7. QED
    BY <1>3, <1>5, <1>6 DEF Unsent, chunks

LEMMA UnsentRest ==
    ASSUME NEW t \in Seq(Chunks), t # <<>>, Unsent(t)
    PROVE  /\ Head(t) \in Chunks /\ Head(t).id \in 1 .. MaxChunks /\ Head(t).bytes \in Sizes
           /\ Unsent(Tail(t))
<1>1. /\ Head(t) = t[1] /\ 1 \in DOMAIN t /\ Head(t) \in Chunks
      /\ \A i \in DOMAIN Tail(t) : Tail(t)[i] = t[i + 1] /\ i + 1 \in DOMAIN t
    OBVIOUS
<1>2. QED
    BY <1>1 DEF Unsent

\* A call of c begins or goes on while the stream is open.
LEMMA TurnsBlock ==
    ASSUME CreditTypeOK, WriterTurns, ended = "no", ended' = "no", nextId' # 0, NEW c \in Callers,
           NEW need, NEW t, Unsent(t),
           call' = [call EXCEPT ![c] = [need |-> need, todo |-> t]],
           Direct => queued' = <<>>
    PROVE  WriterTurns'
<1>1. call \in [Callers -> CallRecords]
    BY CreditParts
<1>2. ASSUME NEW d \in Callers
      PROVE  Unsent(call'[d].todo)
  <2>1. CASE d = c
      BY <1>1, <2>1
  <2>2. CASE d # c
      BY <1>1, <2>2 DEF WriterTurns
  <2>3. QED
      BY <2>1, <2>2
<1>3. QED
    BY <1>2 DEF WriterTurns, Unsent

\* It does not block, or another one does not.
LEMMA TurnsKept ==
    ASSUME WriterTurns, ended = "no", UNCHANGED <<ended, call>>, nextId' # 0,
           Direct => queued' = <<>>
    PROVE  WriterTurns'
BY DEF WriterTurns, Unsent

-----------------------------------------------------------------------------
(***************************************************************************)
(* The chunks that went through and are not read yet: Flow, of the frames  *)
(* in the channel and, behind them, those that were gathered.              *)
(***************************************************************************)
LaneFlow == \E fr, acc, e : fr = UnderWay /\ acc = accepted /\ e = ended /\ Flow(fr, acc, e)

Marks == EndedWhenClosed /\ LocalWhenClosed

LEMMA FlowStays ==
    ASSUME LaneFlow, UNCHANGED <<readerVars, accepted, ended>>, UnderWay' = UnderWay
    PROVE  LaneFlow' /\ StreamStep
<1>1. PICK fr, acc, e : fr = UnderWay /\ acc = accepted /\ e = ended /\ Flow(fr, acc, e)
    BY DEF LaneFlow
<1>2. Flow(fr, acc, e)' /\ TellsNothing
    BY <1>1, FlowKept
<1>3. LaneFlow'
    BY <1>1, <1>2 DEF LaneFlow
<1>4. QED
    BY <1>2, <1>3, Stutters DEF TellsNothing

\* Chunks of successive ids go through together.
LEMMA SendFlow ==
    ASSUME Marks, received \in Seq(Nat), LaneFlow, ended = "no", UNCHANGED <<readerVars, ended>>,
           NEW b \in Seq(Chunks), b # <<>>, NEW k \in Nat, k + Len(b) <= MaxChunks,
           \A i \in DOMAIN b : b[i].id = k + i,
           UnderWay' = UnderWay \o b, accepted' = accepted \o Ids(b)
    PROVE  LaneFlow' /\ StreamStep
<1>1. PICK fr, acc, e : fr = UnderWay /\ acc = accepted /\ e = ended /\ Flow(fr, acc, e)
    BY DEF LaneFlow
<1>2. PICK fr2, acc2 : fr2 = fr \o b /\ acc2 = acc \o Ids(b)
    OBVIOUS
<1>3. Flow(fr2, acc2, "no")'
    BY <1>1, <1>2, FlowPosts DEF Marks
<1>4. LaneFlow'
    BY <1>1, <1>2, <1>3 DEF LaneFlow
<1>5. received' = received /\ told' = told
    BY DEF readerVars
<1>6. StreamStep
    BY <1>5, Sends
<1>7. QED
    BY <1>4, <1>6

\* A single chunk is handed over, or not.
LEMMA HandOverFlow ==
    ASSUME OneWay, HostLaneInv, WriterTurns, Marks, LaneFlow, ended = "no",
           UNCHANGED <<readerVars, ended>>,
           NEW ch \in Chunks, ch.id \in 1 .. MaxChunks, ch.bytes \in Sizes, Sent(ch) \/ Thrown(ch)
    PROVE  LaneFlow' /\ StreamStep /\ (Direct => queued' = <<>>)
<1>1. CASE Sent(ch)
  <2> DEFINE one == <<ch>>
             k == ch.id - 1
  <2>1. /\ UnderWay' = UnderWay \o one /\ accepted' = accepted \o Ids(one)
        /\ Direct => queued' = <<>>
      BY <1>1, SentLast
  <2>2. /\ one \in Seq(Chunks) /\ one # <<>> /\ Len(one) = 1 /\ DOMAIN one = {1}
        /\ one[1] = ch
      OBVIOUS
  <2>3. k \in Nat /\ k + 1 <= MaxChunks /\ ch.id = k + 1
      BY HostLaneAssumption
  <2> HIDE DEF one, k
  <2>4. k + Len(one) <= MaxChunks /\ \A i \in DOMAIN one : one[i].id = k + i
      BY <2>2, <2>3
  <2>5. received \in Seq(Nat)
      BY TypeParts DEF HostLaneInv, WorkerOK, ReaderTypeOK
  <2>6. LaneFlow' /\ StreamStep
      BY <2>1, <2>2, <2>3, <2>4, <2>5, SendFlow
  <2>7. QED
      BY <2>1, <2>6
<1>2. CASE Thrown(ch)
  <2>1. UnderWay' = UnderWay /\ UNCHANGED <<queued, accepted>>
      BY <1>2, ThrownAside
  <2>2. QED
      BY <2>1, FlowStays DEF WriterTurns
<1>3. QED
    BY <1>1, <1>2

LEMMA WriteFlow ==
    ASSUME OneWay, HostLaneInv, WriterTurns, Marks, LaneFlow,
           NEW c \in Callers, NEW n \in Sizes, Write(c, n)
    PROVE  WriterTurns' /\ LaneFlow' /\ StreamStep
<1> DEFINE ch == Chunk(nextId, n)
           one == <<ch>>
<1>1. /\ ended = "no" /\ nextId <= MaxChunks /\ UNCHANGED <<readerVars, ended>>
      /\ nextId' = nextId + 1
    BY DEF Write, MayCall, outsideWriter, workerVars
<1>2. /\ ch \in Chunks /\ ch.id \in 1 .. MaxChunks /\ ch.bytes \in Sizes /\ Unsent(one)
    BY <1>1, UnsentOne
<1>3. CreditTypeOK /\ nextId' # 0 /\ (Direct => queued = <<>>)
    BY <1>1, TypeParts DEF HostLaneInv, WriterOK, WriterTurns
<1>4. \/ (Sent(ch) \/ Thrown(ch)) /\ UNCHANGED call
      \/ Block(c, n, one) /\ UNCHANGED <<queueVars, toWorker, accepted>>
    BY DEF Write
<1> HIDE DEF ch, one
<1>5. CASE (Sent(ch) \/ Thrown(ch)) /\ UNCHANGED call
  <2>1. LaneFlow' /\ StreamStep /\ (Direct => queued' = <<>>)
      BY <1>1, <1>2, <1>5, HandOverFlow
  <2>2. QED
      BY <1>1, <1>3, <1>5, <2>1, TurnsKept
<1>6. CASE Block(c, n, one) /\ UNCHANGED <<queueVars, toWorker, accepted>>
  <2>1. /\ call' = [call EXCEPT ![c] = [need |-> n, todo |-> one]] /\ UNCHANGED queued
        /\ UnderWay' = UnderWay
      BY <1>6 DEF Block, queueVars, UnderWay
  <2>2. WriterTurns'
      BY <1>1, <1>2, <1>3, <2>1, TurnsBlock
  <2>3. QED
      BY <1>1, <1>6, <2>1, <2>2, FlowStays
<1>7. QED
    BY <1>4, <1>5, <1>6

LEMMA WriteManyFlow ==
    ASSUME OneWay, HostLaneInv, WriterTurns, Marks, LaneFlow,
           NEW c \in Callers, NEW sizes \in Batches, WriteMany(c, sizes)
    PROVE  WriterTurns' /\ LaneFlow' /\ StreamStep
<1> DEFINE chunks == [i \in DOMAIN sizes |-> Chunk(nextId + i - 1, sizes[i])]
           k == nextId - 1
<1>1. /\ ended = "no" /\ nextId + Len(sizes) <= MaxChunks + 1 /\ UNCHANGED <<readerVars, ended>>
      /\ nextId' = nextId + Len(sizes) /\ UNCHANGED queued
    BY DEF WriteMany, MayCall, outsideWriter, workerVars, queueVars
<1>2. /\ chunks \in Seq(Chunks) /\ chunks # <<>> /\ Unsent(chunks)
      /\ k \in Nat /\ k + Len(chunks) <= MaxChunks
      /\ \A i \in DOMAIN chunks : chunks[i].id = k + i
    BY <1>1, UnsentMany
<1>3. /\ CreditTypeOK /\ received \in Seq(Nat) /\ toWorker \in Seq(WorkerFrames)
      /\ nextId \in Nat \ {0}
    BY TypeParts, UnderWayParts DEF HostLaneInv, WorkerOK, ReaderTypeOK, WriterOK, WriterTurns
<1>4. Direct /\ queued = <<>> /\ queued' = <<>>
  <2>1. Direct
      BY DEF WriteMany, MayCall, OneWay, Gathered
  <2>2. QED
      BY <1>1, <2>1 DEF WriterTurns
<1>5. Len(sizes) \in Nat
    BY HostLaneAssumption
<1>6. nextId' # 0
    BY <1>1, <1>3, <1>5
<1>7. \/ UNCHANGED call /\ Post(chunks) /\ accepted' = accepted \o Ids(chunks)
      \/ UNCHANGED call /\ PostFindsFull(chunks) /\ UNCHANGED accepted
      \/ Block(c, Head(chunks).bytes, chunks) /\ UNCHANGED <<toWorker, accepted>>
    BY DEF WriteMany, Ids
<1> HIDE DEF chunks, k
<1>8. chunks \in Seq(WorkerFrames)
    BY <1>2, FrameKinds
<1>9. CASE UNCHANGED call /\ Post(chunks) /\ accepted' = accepted \o Ids(chunks)
  <2>1. UnderWay' = UnderWay \o chunks
    <3>1. UnderWay = toWorker \o <<>> /\ UnderWay' = (toWorker \o chunks) \o <<>>
        BY <1>4, <1>9 DEF UnderWay, Post
    <3>2. toWorker \o chunks \in Seq(WorkerFrames)
        BY <1>3, <1>8, Concats
    <3>3. toWorker \o <<>> = toWorker /\ (toWorker \o chunks) \o <<>> = toWorker \o chunks
        BY <1>3, <3>2, Concats
    <3>4. QED
        BY <3>1, <3>3
  <2>2. LaneFlow' /\ StreamStep
      BY <1>1, <1>2, <1>3, <1>9, <2>1, SendFlow
  <2>3. QED
      BY <1>1, <1>4, <1>6, <1>9, <2>2, TurnsKept
<1>10. CASE UNCHANGED call /\ PostFindsFull(chunks) /\ UNCHANGED accepted
  <2>1. UnderWay' = UnderWay
      BY <1>1, <1>10 DEF UnderWay, PostFindsFull
  <2>2. QED
      BY <1>1, <1>4, <1>6, <1>10, <2>1, TurnsKept, FlowStays
<1>11. CASE Block(c, Head(chunks).bytes, chunks) /\ UNCHANGED <<toWorker, accepted>>
  <2>1. UnderWay' = UnderWay
      BY <1>1, <1>11 DEF UnderWay
  <2>2. call' = [call EXCEPT ![c] = [need |-> Head(chunks).bytes, todo |-> chunks]]
      BY <1>11 DEF Block
  <2>3. WriterTurns'
      BY <1>1, <1>2, <1>3, <1>4, <1>6, <2>2, TurnsBlock
  <2>4. QED
      BY <1>1, <1>11, <2>1, <2>3, FlowStays
<1>12. QED
    BY <1>7, <1>9, <1>10, <1>11

LEMMA ReadyFlow ==
    ASSUME HostLaneInv, WriterTurns, LaneFlow, NEW c \in Callers, NEW n \in Sizes, Ready(c, n)
    PROVE  WriterTurns' /\ LaneFlow' /\ StreamStep
<1> DEFINE none == <<>>
<1>1. /\ ended = "no" /\ UNCHANGED <<readerVars, accepted, ended, nextId, queued>>
      /\ UnderWay' = UnderWay
      /\ call' = [call EXCEPT ![c] = [need |-> n, todo |-> none]]
    BY DEF Ready, MayCall, outsideWriter, workerVars, historyVars, queueVars, UnderWay, Block
<1>2. CreditTypeOK /\ Unsent(none)
    BY TypeParts, NothingUnsent DEF HostLaneInv
<1> HIDE DEF none
<1>3. WriterTurns'
  <2>1. nextId' # 0 /\ ended' = "no" /\ (Direct => queued' = <<>>)
      BY <1>1 DEF WriterTurns
  <2>2. QED
      BY <1>1, <1>2, <2>1, TurnsBlock
<1>4. QED
    BY <1>1, <1>3, FlowStays

\* A resumed call hands its next chunk over, unless the stream has ended: then
\* no call is left.
LEMMA ResumeFlow ==
    ASSUME OneWay, HostLaneInv, WriterTurns, Marks, LaneFlow, Resume
    PROVE  WriterTurns' /\ LaneFlow' /\ StreamStep
<1> DEFINE c == Head(jobs).caller
           todo == call[c].todo
           ch == Head(todo)
           none == <<>>
<1>1. CreditTypeOK
    BY TypeParts DEF HostLaneInv
<1>2. jobs # <<>> /\ Continues(c, todo) /\ UNCHANGED <<outsideWriter, nextId>>
    BY Zenon DEF Resume, Continues
<1>3. c \in Callers /\ todo \in Seq(Chunks)
    BY <1>1, <1>2, HeadJob
<1>4. /\ Unsent(todo) /\ nextId' # 0 /\ UNCHANGED <<readerVars, ended>>
      /\ ended # "no" => todo = <<>>
    BY <1>2, <1>3 DEF WriterTurns, outsideWriter, workerVars, NoCall
<1>5. call \in [Callers -> CallRecords]
    BY <1>1, CreditParts
<1> HIDE DEF c, todo
<1>6. CASE todo = <<>>
  <2>1. Settle(c) /\ UNCHANGED <<queueVars, toWorker, accepted>>
      BY <1>2, <1>6 DEF Continues
  <2>2. /\ call' = [call EXCEPT ![c] = NoCall] /\ UNCHANGED <<queued, accepted>>
        /\ UnderWay' = UnderWay
      BY <2>1 DEF Settle, queueVars, UnderWay
  <2>3. ASSUME NEW d \in Callers
        PROVE  Unsent(call'[d].todo) /\ (ended # "no" => call'[d] = NoCall)
    <3>1. CASE d = c
      <4>1. call'[d] = NoCall
          BY <1>3, <1>5, <2>2, <3>1
      <4>2. QED
          BY <4>1, NothingUnsent DEF NoCall
    <3>2. CASE d # c
        BY <1>5, <2>2, <3>2 DEF WriterTurns
    <3>3. QED
        BY <3>1, <3>2
  <2>4. WriterTurns'
    <3>1. \A d \in Callers : Unsent(call'[d].todo)
        BY <2>3
    <3>2. ended' # "no" => queued' = <<>> /\ \A d \in Callers : call'[d] = NoCall
        BY <1>4, <2>2, <2>3 DEF WriterTurns
    <3>3. Direct => queued' = <<>>
        BY <2>2 DEF WriterTurns
    <3>4. QED
        BY <1>4, <3>1, <3>2, <3>3 DEF WriterTurns, Unsent, NoCall
  <2>5. QED
      BY <1>4, <2>2, <2>4, FlowStays
<1>7. CASE todo # <<>>
  <2>1. /\ ch \in Chunks /\ ch.id \in 1 .. MaxChunks /\ ch.bytes \in Sizes
        /\ Unsent(Tail(todo)) /\ ended = "no"
      BY <1>3, <1>4, <1>7, UnsentRest
  <2>2. /\ Sent(ch) \/ Thrown(ch)
        /\ \/ call' = [call EXCEPT ![c] = NoCall]
           \/ call' = [call EXCEPT ![c] = [need |-> todo[2].bytes, todo |-> Tail(todo)]]
      BY <1>2, <1>7 DEF Continues, Settle
  <2> HIDE DEF ch
  <2>3. LaneFlow' /\ StreamStep /\ (Direct => queued' = <<>>)
      BY <1>4, <2>1, <2>2, HandOverFlow
  <2>4. WriterTurns'
    <3>1. CASE call' = [call EXCEPT ![c] = NoCall]
      <4>1. call' = [call EXCEPT ![c] = [need |-> 0, todo |-> none]] /\ Unsent(none)
          BY <3>1, NothingUnsent DEF NoCall
      <4> HIDE DEF none
      <4>2. QED
          BY <1>1, <1>3, <1>4, <2>1, <2>3, <4>1, TurnsBlock
    <3>2. CASE call' = [call EXCEPT ![c] = [need |-> todo[2].bytes, todo |-> Tail(todo)]]
        BY <1>1, <1>3, <1>4, <2>1, <2>3, <3>2, TurnsBlock
    <3>3. QED
        BY <2>2, <3>1, <3>2
  <2>5. QED
      BY <2>3, <2>4
<1>8. QED
    BY <1>6, <1>7

LEMMA FlushFlow ==
    ASSUME OneWay, HostLaneInv, WriterTurns, LaneFlow, FlushTick
    PROVE  WriterTurns' /\ LaneFlow' /\ StreamStep
<1>1. /\ UnderWay' = UnderWay /\ queued' = <<>>
      /\ UNCHANGED <<readerVars, accepted, ended, call, nextId>>
    BY FlushKeepsOrder DEF FlushTick, outsideWriter, workerVars
<1>2. WriterTurns'
    BY <1>1 DEF WriterTurns, Unsent, NoCall
<1>3. QED
    BY <1>1, <1>2, FlowStays

-----------------------------------------------------------------------------
\* close(), error() or cancel(): what is posted stands behind all chunks.
LEMMA EndFlow ==
    ASSUME AwaitsCalls, OneWay, HostLaneInv, WriterTurns, LaneFlow,
           NEW kind \in {"close", "error", "cancel"}, MayEnd(kind), UNCHANGED endUnchanged,
           NEW oks \in [1 .. 3 -> BOOLEAN], NEW frames \in Seq(WorkerFrames),
           frames \in Behind(kind), EndPosts(frames, oks),
           ReleaseWriter \/ UNCHANGED call
    PROVE  WriterTurns' /\ LaneFlow' /\ StreamStep
<1>1. /\ ended = "no" /\ ended' = kind /\ \A c \in Callers : call[c] = NoCall
      /\ UNCHANGED <<readerVars, received, accepted, nextId>>
    BY DEF MayEnd, endUnchanged, workerVars, readerVars
<1>2. UnderWay' = UnderWay \o frames /\ queued' = <<>>
    BY EndBehind
<1>3. \A c \in Callers : call'[c] = NoCall
    BY <1>1 DEF ReleaseWriter, RejectWriterWaiters
<1>4. WriterTurns'
  <2>1. \A c \in Callers : Unsent(call'[c].todo)
      BY <1>3, NothingUnsent DEF NoCall
  <2>2. QED
      BY <1>1, <1>2, <1>3, <2>1 DEF WriterTurns, Unsent, NoCall
<1>5. StreamStep
    BY <1>1, Ends DEF readerVars
<1>6. PICK fr, acc, e : fr = UnderWay /\ acc = accepted /\ e = ended /\ Flow(fr, acc, e)
    BY DEF LaneFlow
<1>7. PICK end \in Behind(kind) : end = frames
    OBVIOUS
<1>8. PICK fr2 : fr2 = fr \o end
    OBVIOUS
<1>9. Flow(fr2, acc, kind)'
    BY <1>1, <1>6, <1>8, FlowEnds DEF EndedKinds
<1>10. LaneFlow'
    BY <1>1, <1>2, <1>6, <1>7, <1>8, <1>9 DEF LaneFlow
<1>11. QED
    BY <1>4, <1>5, <1>10

\* The frames of an end, as far as they go through.
LEMMA BehindFrames ==
    ASSUME NEW oks \in [1 .. 3 -> BOOLEAN], NEW kind \in {"close", "error", "cancel"}
    PROVE  /\ When(oks[2], <<Control(kind)>>) \o When(oks[3], <<Control("discard")>>)
                \in Behind(kind)
           /\ <<Control(kind)>> \o When(oks[3], <<Control("discard")>>) \in Behind(kind)
           /\ <<>> \in Behind(kind)
<1> DEFINE x == Control(kind)
           y == Control("discard")
<1>1. /\ <<x>> \o <<>> = <<x>> /\ <<>> \o <<y>> = <<y>> /\ <<>> \o <<>> = <<>>
    OBVIOUS
<1>2. <<x>> \o <<y>> = <<x, y>>
    BY TwoInARow
<1> HIDE DEF x, y
<1>3. Behind(kind) = {<<>>, <<x>>, <<y>>, <<x, y>>}
    BY DEF Behind, x, y
<1>4. QED
    BY <1>1, <1>2, <1>3 DEF When, x, y

LEMMA CloseFlow ==
    ASSUME AwaitsCalls, OneWay, HostLaneInv, WriterTurns, LaneFlow, Close
    PROVE  WriterTurns' /\ LaneFlow' /\ StreamStep
<1>1. PICK oks \in [1 .. 3 -> BOOLEAN] :
          \/ /\ EndPosts(When(oks[2], <<Control("close")>>)
                           \o When(oks[3], <<Control("discard")>>), oks)
             /\ ReleaseWriter
          \/ EndFails(oks)
    BY DEF Close
<1>2. MayEnd("close") /\ UNCHANGED endUnchanged
    BY DEF Close
<1> DEFINE both == When(oks[2], <<Control("close")>>) \o When(oks[3], <<Control("discard")>>)
           none == <<>>
<1>3. both \in Seq(WorkerFrames) /\ none \in Seq(WorkerFrames)
    BY EndFrames
<1>4. both \in Behind("close") /\ none \in Behind("close")
    BY BehindFrames
<1>5. (EndPosts(both, oks) /\ ReleaseWriter) \/ EndFails(oks)
    BY <1>1
<1>6. EndFails(oks) => UNCHANGED call
    BY DEF EndFails
<1>7. EndFails(oks) => EndPosts(none, oks)
    BY Zenon DEF EndFails
<1> HIDE DEF both, none
<1>8. (EndPosts(both, oks) /\ ReleaseWriter) \/ (EndPosts(none, oks) /\ UNCHANGED call)
    BY <1>5, <1>6, <1>7, Zenon
<1>9. QED
    BY <1>2, <1>3, <1>4, <1>8, EndFlow

LEMMA AbortFlow ==
    ASSUME AwaitsCalls, OneWay, HostLaneInv, WriterTurns, LaneFlow,
           NEW kind \in {"error", "cancel"}, Abort(kind)
    PROVE  WriterTurns' /\ LaneFlow' /\ StreamStep
<1>1. PICK oks \in [1 .. 3 -> BOOLEAN] :
          \/ /\ EndPosts(<<Control(kind)>> \o When(oks[3], <<Control("discard")>>), oks)
             /\ ReleaseWriter
          \/ EndFails(oks)
    BY DEF Abort
<1>2. MayEnd(kind) /\ UNCHANGED endUnchanged
    BY DEF Abort
<1> DEFINE both == <<Control(kind)>> \o When(oks[3], <<Control("discard")>>)
           none == <<>>
<1>3. both \in Seq(WorkerFrames) /\ none \in Seq(WorkerFrames)
    BY EndFrames
<1>4. both \in Behind(kind) /\ none \in Behind(kind)
    BY BehindFrames
<1>5. (EndPosts(both, oks) /\ ReleaseWriter) \/ EndFails(oks)
    BY <1>1
<1>6. EndFails(oks) => UNCHANGED call
    BY DEF EndFails
<1>7. EndFails(oks) => EndPosts(none, oks)
    BY Zenon DEF EndFails
<1> HIDE DEF both, none
<1>8. (EndPosts(both, oks) /\ ReleaseWriter) \/ (EndPosts(none, oks) /\ UNCHANGED call)
    BY <1>5, <1>6, <1>7, Zenon
<1>9. QED
    BY <1>2, <1>3, <1>4, <1>8, EndFlow

-----------------------------------------------------------------------------
LEMMA ReceiveFlow ==
    ASSUME HostLaneInv, LaneFlow, Marks, WorkerReceive
    PROVE  LaneFlow' /\ StreamStep
<1>1. PICK fr, acc, e : fr = UnderWay /\ acc = accepted /\ e = ended /\ Flow(fr, acc, e)
    BY DEF LaneFlow
<1>2. /\ ReaderTypeOK /\ EndedWhenClosed /\ e \in EndedKinds /\ received \in Seq(Nat)
      /\ toWorker # <<>> /\ toWorker' = Tail(toWorker)
      /\ queued' = queued /\ accepted' = accepted /\ ended' = ended
    BY <1>1, TypeParts DEF HostLaneInv, WorkerReceive, WorkerOK, WriterOK, ReaderTypeOK, Marks,
                           writerVars, queueVars, historyVars
<1>3. fr # <<>> /\ Head(fr) = Head(toWorker) /\ UnderWay' = Tail(fr)
  <2> DEFINE t == toWorker
             q == queued
  <2>1. t \in Seq(WorkerFrames) /\ q \in Seq(WorkerFrames) /\ t # <<>>
      BY <1>2, UnderWayParts
  <2>2. fr = t \o q /\ UnderWay' = Tail(t) \o q
      BY <1>1, <1>2 DEF UnderWay
  <2> HIDE DEF t, q
  <2>3. Head(t \o q) = Head(t) /\ Tail(t \o q) = Tail(t) \o q
      BY <2>1, ConcatHead
  <2>4. Len(t \o q) = Len(t) + Len(q) /\ Len(t) \in Nat \ {0} /\ Len(q) \in Nat
      BY <2>1
  <2>5. fr # <<>>
      BY <2>2, <2>4
  <2>6. QED
      BY <2>2, <2>3, <2>5 DEF t
<1>4. \/ Head(fr).t = "chunk" /\ PushChunk(Head(fr))
      \/ /\ Head(fr).t \in {"close", "error", "cancel"}
         /\ PushEnd(IF Head(fr).t = "close" THEN "close" ELSE "error")
      \/ UNCHANGED readerVars /\ (reader.closed \/ Head(fr).t = "discard")
  <2>1. Released(workerMeta) => reader.closed
      BY DEF Released, Gone, Marks, LocalWhenClosed
  <2>2. CASE ReceiveChunk(Head(fr))
      BY <2>1, <2>2 DEF ReceiveChunk
  <2>3. CASE ReceiveEnd(Head(fr))
      BY <2>1, <2>3 DEF ReceiveEnd, workerVars
  <2>4. CASE ReceiveDiscard(Head(fr))
      BY <2>4 DEF ReceiveDiscard
  <2>5. QED
      BY <1>3, <2>2, <2>3, <2>4 DEF WorkerReceive
<1>5. PICK fr2 : fr2 = Tail(fr)
    OBVIOUS
<1>6. Flow(fr2, acc, e)' /\ ReaderStep(acc, e)
    BY <1>1, <1>2, <1>3, <1>4, <1>5, FlowArrives
<1>7. LaneFlow'
    BY <1>1, <1>2, <1>3, <1>5, <1>6 DEF LaneFlow
<1>8. ReaderStep(accepted, ended)
    BY <1>1, <1>6
<1>9. QED
    BY <1>1, <1>2, <1>7, <1>8, ReaderSteps

LEMMA ReadFlow ==
    ASSUME HostLaneInv, LaneFlow, Marks, UNCHANGED <<accepted, ended>>, UnderWay' = UnderWay,
           CancelRead \/ \E r \in Readers : ReadChunk(r) \/ ReadEnd(r) \/ ReadEnded(r) \/ ReadWait(r)
    PROVE  LaneFlow' /\ StreamStep
<1>1. PICK fr, acc, e : fr = UnderWay /\ acc = accepted /\ e = ended /\ Flow(fr, acc, e)
    BY DEF LaneFlow
<1>2. ReaderTypeOK /\ EndedWhenClosed /\ ended \in EndedKinds /\ received \in Seq(Nat)
    BY TypeParts DEF HostLaneInv, WorkerOK, WriterOK, ReaderTypeOK, Marks
<1>3. Flow(fr, acc, e)' /\ ReaderStep(acc, e)
    BY <1>1, <1>2, FlowReads, FlowCancelled
<1>4. LaneFlow'
    BY <1>1, <1>3 DEF LaneFlow
<1>5. ReaderStep(accepted, ended)
    BY <1>1, <1>3
<1>6. QED
    BY <1>2, <1>4, <1>5, ReaderSteps

-----------------------------------------------------------------------------
LEMMA MarksReceive ==
    ASSUME HostLaneInv, Marks, WorkerReceive
    PROVE  Marks'
<1> DEFINE f == Head(toWorker)
<1>1. ReaderTypeOK /\ workerMeta \in Metas /\ toWorker # <<>> /\ f \in WorkerFrames
    BY TypeParts DEF HostLaneInv, WorkerReceive, WorkerOK, SendOK
<1>2. CASE ReceiveChunk(f)
  <2>1. workerMeta' = workerMeta /\ (UNCHANGED readerVars \/ PushChunk(f)) /\ f \in Chunks
      BY <1>1, <1>2 DEF ReceiveChunk, WorkerFrames, Chunks
  <2>2. CASE UNCHANGED readerVars
      BY <2>1, <2>2, EndedUnchanged DEF Marks, LocalWhenClosed, readerVars
  <2>3. CASE PushChunk(f)
    <3>1. reader'.closed = reader.closed
        BY <1>1, <2>3 DEF PushChunk, readerVars, ReaderTypeOK, ReaderRecords
    <3>2. QED
        BY <1>1, <2>1, <2>3, <3>1, EndedPushChunk DEF Marks, LocalWhenClosed
  <2>4. QED
      BY <2>1, <2>2, <2>3
<1>3. CASE ReceiveEnd(f)
  <2>1. CASE UNCHANGED <<workerVars, toHost>>
    <3>1. UNCHANGED <<reader, workerMeta>>
        BY <2>1 DEF workerVars, readerVars
    <3>2. QED
        BY <3>1, EndedUnchanged DEF Marks, LocalWhenClosed
  <2>2. CASE PushEnd("close") \/ PushEnd("error")
      BY <1>1, <2>2, EndedOnceClosed DEF Marks, LocalWhenClosed
  <2>3. QED
      BY <1>3, <2>1, <2>2 DEF ReceiveEnd
<1>4. CASE ReceiveDiscard(f)
  <2>1. UNCHANGED reader /\ workerMeta' = MarkRemote(workerMeta)
      BY <1>4 DEF ReceiveDiscard, readerVars
  <2>2. workerMeta'.local = workerMeta.local
      BY <1>1, <2>1 DEF MarkRemote, Metas
  <2>3. QED
      BY <2>1, <2>2, EndedUnchanged DEF Marks, LocalWhenClosed
<1>5. QED
    BY <1>2, <1>3, <1>4 DEF WorkerReceive

LEMMA MarksRead ==
    ASSUME HostLaneInv, Marks, NEW r \in Readers, Read(r)
    PROVE  Marks'
<1>1. ReaderTypeOK /\ workerMeta' = workerMeta
    BY TypeParts DEF HostLaneInv, WorkerOK, Read
<1>2. ReadChunk(r) \/ ReadEnded(r) \/ ReadEnd(r) \/ ReadWait(r)
    BY DEF Read
<1>3. reader'.closed = reader.closed
    BY <1>1, <1>2 DEF ReadChunk, ReadEnded, ReadEnd, ReadWait, ReaderTypeOK, ReaderRecords
<1>4. QED
    BY <1>1, <1>2, <1>3, EndedRead DEF Marks, LocalWhenClosed

\* The writer's side leaves the reader alone.
LEMMA MarksKept ==
    ASSUME Marks, UNCHANGED workerVars
    PROVE  Marks'
<1>1. UNCHANGED <<reader, workerMeta>>
    BY DEF workerVars, readerVars
<1>2. QED
    BY <1>1, EndedUnchanged DEF Marks, LocalWhenClosed

-----------------------------------------------------------------------------
(***************************************************************************)
(* The invariant under which every step of the lane is a step of the byte  *)
(* stream, and the theorem.                                                *)
(***************************************************************************)
StreamInv == HostLaneInv /\ WriterTurns /\ Marks /\ LaneFlow

LEMMA StreamInvInit == Init => StreamInv /\ Stream!Init
<1>1. SUFFICES ASSUME Init PROVE StreamInv /\ Stream!Init
    OBVIOUS
<1> DEFINE none == <<>>
<1>2. /\ ReaderInit /\ toWorker = none /\ queued = none /\ accepted = none /\ received = none
      /\ ended = "no" /\ ~workerMeta.local
    BY <1>1 DEF Init, ReaderInit, Fresh
<1>3. EndedWhenClosed /\ Flow(none, none, "no") /\ told = "no"
    BY <1>2, FlowInit
<1>4. HostLaneInv /\ WriterTurns /\ Marks
    BY <1>1, <1>2, <1>3, InvInit, TurnsInit DEF Marks, LocalWhenClosed
<1>5. Stream!Init
    BY <1>2, <1>3 DEF Stream!Init
<1>6. none \o none = none
    OBVIOUS
<1> HIDE DEF none
<1>7. UnderWay = none
    BY <1>2, <1>6 DEF UnderWay
<1>8. LaneFlow
    BY <1>2, <1>3, <1>7 DEF LaneFlow
<1>9. QED
    BY <1>4, <1>5, <1>8 DEF StreamInv

LEMMA StreamInvStep ==
    ASSUME AwaitsCalls, OneWay
    PROVE  StreamInv /\ [Next]_vars => StreamInv' /\ StreamStep
<1>1. SUFFICES ASSUME StreamInv, [Next]_vars PROVE StreamInv' /\ StreamStep
    OBVIOUS
<1>2. HostLaneInv /\ WriterTurns /\ Marks /\ LaneFlow
    BY <1>1 DEF StreamInv
<1>3. HostLaneInv'
    BY <1>1, <1>2, InvStep
<1>4. SUFFICES WriterTurns' /\ Marks' /\ LaneFlow' /\ StreamStep
    BY <1>3 DEF StreamInv
<1>5. CASE UNCHANGED vars
  <2>1. /\ UNCHANGED <<ended, queued, call, nextId>> /\ UNCHANGED workerVars
        /\ UNCHANGED <<readerVars, accepted, ended>> /\ UnderWay' = UnderWay
      BY <1>5 DEF vars, writerVars, creditVars, queueVars, workerVars, historyVars, UnderWay
  <2>2. QED
      BY <1>2, <2>1, TurnsUnchanged, MarksKept, FlowStays
<1>6. ASSUME NEW c \in Callers, NEW n \in Sizes, Write(c, n) \/ Ready(c, n)
      PROVE  WriterTurns' /\ Marks' /\ LaneFlow' /\ StreamStep
  <2>1. UNCHANGED workerVars
      BY <1>6 DEF Write, Ready, outsideWriter
  <2>2. QED
      BY <1>2, <1>6, <2>1, WriteFlow, ReadyFlow, MarksKept
<1>7. ASSUME NEW c \in Callers, NEW sizes \in Batches, WriteMany(c, sizes)
      PROVE  WriterTurns' /\ Marks' /\ LaneFlow' /\ StreamStep
  <2>1. UNCHANGED workerVars
      BY <1>7 DEF WriteMany, outsideWriter
  <2>2. QED
      BY <1>2, <1>7, <2>1, WriteManyFlow, MarksKept
<1>8. CASE Resume
  <2>1. UNCHANGED outsideWriter
      BY <1>8, Zenon DEF Resume
  <2>2. UNCHANGED workerVars
      BY <2>1 DEF outsideWriter
  <2>3. QED
      BY <1>2, <1>8, <2>2, ResumeFlow, MarksKept
<1>9. CASE FlushTick
  <2>1. UNCHANGED workerVars
      BY <1>9 DEF FlushTick, outsideWriter
  <2>2. QED
      BY <1>2, <1>9, <2>1, FlushFlow, MarksKept
<1>10. CASE Close
  <2>1. UNCHANGED workerVars
      BY <1>10 DEF Close, endUnchanged
  <2>2. QED
      BY <1>2, <1>10, <2>1, CloseFlow, MarksKept
<1>11. ASSUME NEW kind \in {"error", "cancel"}, Abort(kind)
       PROVE  WriterTurns' /\ Marks' /\ LaneFlow' /\ StreamStep
  <2>1. UNCHANGED workerVars
      BY <1>11 DEF Abort, endUnchanged
  <2>2. QED
      BY <1>2, <1>11, <2>1, AbortFlow, MarksKept
<1>12. CASE HostReceive
  <2>1. /\ UNCHANGED <<ended, queued, call, nextId>> /\ UNCHANGED workerVars
        /\ UNCHANGED <<readerVars, accepted, ended>> /\ UnderWay' = UnderWay
      BY <1>12 DEF HostReceive, queueVars, workerVars, historyVars, UnderWay
  <2>2. QED
      BY <1>2, <2>1, TurnsUnchanged, MarksKept, FlowStays
<1>13. CASE WorkerReceive
  <2>1. UNCHANGED <<ended, queued, call, nextId>>
      BY <1>13 DEF WorkerReceive, writerVars, creditVars, queueVars, historyVars
  <2>2. QED
      BY <1>2, <1>13, <2>1, TurnsUnchanged, MarksReceive, ReceiveFlow
<1>14. ASSUME NEW r \in Readers, Read(r)
       PROVE  WriterTurns' /\ Marks' /\ LaneFlow' /\ StreamStep
  <2>1. /\ UNCHANGED <<ended, queued, call, nextId>>
        /\ UNCHANGED <<accepted, ended>> /\ UnderWay' = UnderWay
        /\ ReadChunk(r) \/ ReadEnd(r) \/ ReadEnded(r) \/ ReadWait(r)
      BY <1>14 DEF Read, writerVars, creditVars, queueVars, historyVars, UnderWay
  <2>2. LaneFlow' /\ StreamStep
      BY <1>2, <2>1, ReadFlow
  <2>3. QED
      BY <1>2, <1>14, <2>1, <2>2, TurnsUnchanged, MarksRead
<1>15. CASE CancelReader
  <2>1. /\ UNCHANGED <<ended, queued, call, nextId>>
        /\ UNCHANGED <<accepted, ended>> /\ UnderWay' = UnderWay /\ CancelRead
      BY <1>15 DEF CancelReader, writerVars, creditVars, queueVars, historyVars, UnderWay
  <2>2. Marks'
    <3>1. ReaderTypeOK
        BY <1>2, TypeParts DEF HostLaneInv, WorkerOK
    <3>2. QED
        BY <1>2, <2>1, <3>1, EndedOnceClosed DEF Marks, LocalWhenClosed
  <2>3. QED
      BY <1>2, <2>1, <2>2, TurnsUnchanged, ReadFlow
<1>16. QED
    BY <1>1, <1>5, <1>6, <1>7, <1>8, <1>9, <1>10, <1>11, <1>12, <1>13, <1>14, <1>15 DEF Next

\* A stream from the host whose writer awaits its calls before it ends it, and
\* whose chunks go one way, is a byte stream for every window, limit, number of
\* callers and readers: what write() and writeMany() put through, the worker's
\* reader returns in that order, none missing and none twice, and read() shows
\* a clean end only behind the last chunk (DenoWorkerStreamReader in types.ts).
THEOREM HostLaneIsAByteStream ==
    ASSUME AwaitsCalls, OneWay
    PROVE  Spec => ImplementsByteStream
<1>1. Init => StreamInv /\ Stream!Init
    BY StreamInvInit
<1>2. StreamInv /\ [Next]_vars => StreamInv' /\ [Stream!Next]_(Stream!vars)
    BY StreamInvStep DEF StreamStep
<1>3. QED
    BY <1>1, <1>2, PTL DEF Spec, ImplementsByteStream, Stream!Spec
=============================================================================
