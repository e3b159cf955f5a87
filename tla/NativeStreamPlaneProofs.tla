----------------------- MODULE NativeStreamPlaneProofs -----------------------
(***************************************************************************)
(* Theorems about the native incoming plane, for any streams, keys and     *)
(* accepts, any number of chunks and either way of reading.                *)
(***************************************************************************)
EXTENDS NativeStreamPlane, TLAPS

Ends == {Close, Error}

\* Of a stream the host has not opened there is no trace.
Untouched(i) ==
    host[i].st = "new" =>
        /\ ~streams[i].there /\ host[i].sent = 0
        /\ pending[i] = <<>> /\ got[i] = <<>> /\ reader[i] = "none"

\* What was read and what is queued are, put together, the chunks that were
\* sent; an end is the last of the queue, after the host's last frame.
InOrder(i) ==
    streams[i].there =>
        /\ \A n \in 1..Len(got[i]) : got[i][n] = n
        /\ \A n \in 1..Len(streams[i].queue) :
              \/ streams[i].queue[n] = Len(got[i]) + n
              \/ /\ streams[i].queue[n] \in Ends
                 /\ n = Len(streams[i].queue) /\ ~Writing(i)
        /\ Writing(i) => Len(got[i]) + Len(streams[i].queue) = host[i].sent

\* What a reader has returned so far.
Prefix(i) ==
    \A n \in 1..Len(got[i]) :
        got[i][n] = n \/ (got[i][n] \in Ends /\ n = Len(got[i]))

(***************************************************************************)
(* The inductive invariant.  The order of what a reader returns is not     *)
(* inductive by itself: the queue of the stream has to continue it, and    *)
(* only a stream that was never opened may find an empty history.          *)
(***************************************************************************)
PlaneInv ==
    /\ PlaneConsistent
    /\ \A i \in Ids : Untouched(i) /\ InOrder(i) /\ Prefix(i)

-----------------------------------------------------------------------------
HostRecords == [st : {"new", "open", "ended", "gone"}, key : Keys \cup {NoId}, sent : 0..MaxChunks]
StreamRecords == [there : BOOLEAN, key : Keys \cup {NoId}, queue : Seq(Events), waiting : BOOLEAN]
AcceptRecords ==
    [st : {"none"}, key : {NoId}] \cup
    [st : {"polling", "waiting", "lost", "lostPolling", "done"}, key : Keys]
ReaderStates == {"none", "idle", "reading", "waiting", "done", "lost"}

InPlace(i) ==
    IF streams[i].there THEN streams[i].key # NoId /\ pending[i] = <<>> ELSE streams[i] = NoStream

LEMMA Numbers ==
    /\ MaxChunks \in Nat /\ Close \in Events /\ Error \in Events
    /\ \A n \in 1..MaxChunks : n \in Events /\ n \notin Ends
    /\ \A e \in Events : e \in Nat
BY BoundIsNatural DEF Events, Close, Error, Ends

LEMMA TypeParts ==
    PlaneTypeOK <=>
        /\ mode \in Modes
        /\ host \in [Ids -> HostRecords]
        /\ streams \in [Ids -> StreamRecords]
        /\ \A i \in Ids : InPlace(i)
        /\ keyToId \in [Keys -> Ids \cup {NoId}] /\ backlog \in [Keys -> Ids \cup {NoId}]
        /\ pending \in [Ids -> Seq(Events)]
        /\ accept \in [Accepts -> AcceptRecords]
        /\ reader \in [Ids -> ReaderStates]
        /\ waiter \in [Ids -> BOOLEAN]
        /\ got \in [Ids -> Seq(Events)]
BY DEF PlaneTypeOK, HostRecords, StreamRecords, AcceptRecords, ReaderStates, InPlace

LEMMA TypePartsNext ==
    PlaneTypeOK' <=>
        /\ mode' \in Modes
        /\ host' \in [Ids -> HostRecords]
        /\ streams' \in [Ids -> StreamRecords]
        /\ \A i \in Ids : InPlace(i)'
        /\ keyToId' \in [Keys -> Ids \cup {NoId}] /\ backlog' \in [Keys -> Ids \cup {NoId}]
        /\ pending' \in [Ids -> Seq(Events)]
        /\ accept' \in [Accepts -> AcceptRecords]
        /\ reader' \in [Ids -> ReaderStates]
        /\ waiter' \in [Ids -> BOOLEAN]
        /\ got' \in [Ids -> Seq(Events)]
BY DEF PlaneTypeOK, HostRecords, StreamRecords, AcceptRecords, ReaderStates, InPlace

LEMMA InvInit == Init => PlaneInv
<1> SUFFICES ASSUME Init PROVE PlaneInv
    OBVIOUS
<1>1. PlaneTypeOK
  <2>1. host \in [Ids -> HostRecords]
      BY Numbers DEF Init, HostRecords
  <2>2. streams \in [Ids -> StreamRecords] /\ \A i \in Ids : InPlace(i)
      BY DEF Init, StreamRecords, NoStream, InPlace
  <2>3. accept \in [Accepts -> AcceptRecords] /\ reader \in [Ids -> ReaderStates]
      BY DEF Init, AcceptRecords, ReaderStates
  <2>4. QED
      BY <2>1, <2>2, <2>3, TypeParts DEF Init
<1>2. TablesAgree
    BY DEF Init, TablesAgree, NoStream
<1>3. \A i \in Ids : Untouched(i) /\ InOrder(i) /\ Prefix(i)
    BY DEF Init, NoStream, Untouched, InOrder, Prefix
<1>4. QED
    BY <1>1, <1>2, <1>3 DEF PlaneInv, PlaneConsistent

-----------------------------------------------------------------------------
\* A reader nobody has accepted is left alone by every wakeup.
StaysUnaccepted == \A j \in Ids : reader[j] = "none" => reader'[j] = "none"

LEMMA NotifyReadersFacts ==
    ASSUME PlaneTypeOK
    PROVE  /\ NotifyReaders \in [Ids -> ReaderStates]
           /\ \A j \in Ids : reader[j] = "none" <=> NotifyReaders[j] = "none"
BY TypeParts DEF NotifyReaders, ReaderStates

LEMMA NotifyAcceptsType ==
    ASSUME PlaneTypeOK
    PROVE  NotifyAccepts \in [Accepts -> AcceptRecords]
<1>1. SUFFICES ASSUME NEW a \in Accepts
               PROVE  [accept[a] EXCEPT !.st =
                         CASE @ = "waiting" -> "polling" [] @ = "lost" -> "lostPolling" [] OTHER -> @]
                      \in AcceptRecords
    BY DEF NotifyAccepts
<1>2. accept[a] \in AcceptRecords
    BY TypeParts
<1>3. QED
    BY <1>2 DEF AcceptRecords

LEMMA PokeFacts ==
    ASSUME PlaneTypeOK, NEW i \in Ids, Poke(i)
    PROVE  /\ waiter' \in [Ids -> BOOLEAN]
           /\ reader' \in [Ids -> ReaderStates]
           /\ StaysUnaccepted
<1>1. CASE mode = "poll" /\ streams[i].waiting /\ waiter[i]
  <2>1. /\ waiter' = [waiter EXCEPT ![i] = FALSE]
        /\ reader' = [reader EXCEPT ![i] = IF @ = "waiting" THEN "reading" ELSE @]
      BY <1>1 DEF Poke
  <2>2. QED
      BY <2>1, TypeParts DEF StaysUnaccepted, ReaderStates
<1>2. CASE ~(mode = "poll" /\ streams[i].waiting /\ waiter[i])
  <2>1. waiter' = waiter /\ reader' = NotifyReaders
      BY <1>2 DEF Poke
  <2>2. QED
      BY <2>1, NotifyReadersFacts, TypeParts DEF StaysUnaccepted
<1>3. QED
    BY <1>1, <1>2

\* The tables still agree when no stream comes or goes.
LEMMA TablesKept ==
    ASSUME PlaneConsistent, UNCHANGED <<keyToId, backlog>>, StaysUnaccepted,
           \A j \in Ids : streams'[j].there = streams[j].there /\ streams'[j].key = streams[j].key
    PROVE  TablesAgree'
<1>1. \A k \in Keys : keyToId[k] \in Ids \cup {NoId} /\ backlog[k] \in Ids \cup {NoId}
    BY TypeParts DEF PlaneConsistent
<1>2. QED
    BY <1>1 DEF PlaneConsistent, TablesAgree, StaysUnaccepted

\* A stream goes, and its key with it; the tables agree on those that stay.
LEMMA StreamRemoved ==
    ASSUME PlaneConsistent, NEW i \in Ids, streams[i].there, RemoveStream(i),
           \A j \in Ids \ {i} : reader[j] = "none" => reader'[j] = "none"
    PROVE  /\ streams' \in [Ids -> StreamRecords]
           /\ streams'[i] = NoStream
           /\ \A j \in Ids \ {i} : streams'[j] = streams[j]
           /\ keyToId' \in [Keys -> Ids \cup {NoId}] /\ backlog' \in [Keys -> Ids \cup {NoId}]
           /\ TablesAgree'
<1> USE TypeParts DEF PlaneConsistent
<1> DEFINE k0 == streams[i].key
<1>1. k0 \in Keys /\ keyToId[k0] = i
    BY DEF InPlace, StreamRecords, TablesAgree
<1>2. /\ streams' = [streams EXCEPT ![i] = NoStream]
      /\ keyToId' = [keyToId EXCEPT ![k0] = NoId]
      /\ backlog' = [backlog EXCEPT ![k0] = NoId]
    BY DEF RemoveStream, Without
<1> HIDE DEF k0
<1>3. NoStream \in StreamRecords /\ ~NoStream.there
    BY DEF NoStream, StreamRecords
<1>4. /\ streams' \in [Ids -> StreamRecords]
      /\ streams'[i] = NoStream
      /\ \A j \in Ids \ {i} : streams'[j] = streams[j]
      /\ keyToId' \in [Keys -> Ids \cup {NoId}] /\ backlog' \in [Keys -> Ids \cup {NoId}]
      /\ keyToId'[k0] = NoId /\ backlog'[k0] = NoId
      /\ \A k \in Keys \ {k0} : keyToId'[k] = keyToId[k] /\ backlog'[k] = backlog[k]
    BY <1>1, <1>2, <1>3
<1>5. \A j \in Ids \ {i} : streams[j].there => streams[j].key \in Keys \ {k0}
    BY <1>1 DEF InPlace, StreamRecords, TablesAgree
<1>6. \A k \in Keys \ {k0} : keyToId[k] # i /\ keyToId[k] \in Ids \cup {NoId}
    BY NoIdIsNone DEF TablesAgree, k0
<1>7. ASSUME NEW j \in Ids, streams'[j].there
      PROVE  keyToId'[streams'[j].key] = j
  <2>1. j # i
      BY <1>3, <1>4, <1>7
  <2>2. streams'[j] = streams[j] /\ streams[j].there
      BY <1>4, <1>7, <2>1
  <2>3. streams[j].key \in Keys \ {k0} /\ keyToId[streams[j].key] = j
      BY <1>5, <2>1, <2>2 DEF TablesAgree
  <2>4. QED
      BY <1>4, <2>2, <2>3
<1>8. ASSUME NEW k \in Keys
      PROVE  /\ keyToId'[k] # NoId => streams'[keyToId'[k]].there /\ streams'[keyToId'[k]].key = k
             /\ backlog'[k] # NoId => backlog'[k] = keyToId'[k] /\ reader'[backlog'[k]] = "none"
  <2>1. CASE k = k0
      BY <1>4, <2>1
  <2>2. CASE k # k0
      BY <1>4, <1>6, <2>2 DEF TablesAgree
  <2>3. QED
      BY <2>1, <2>2
<1>9. QED
    BY <1>4, <1>7, <1>8 DEF TablesAgree

(***************************************************************************)
(* What a step shows: the types, the tables, and the order of the one      *)
(* stream it touches.                                                      *)
(***************************************************************************)
LEMMA StreamStep ==
    ASSUME PlaneInv, PlaneConsistent', NEW i \in Ids,
           \A j \in Ids \ {i} :
               /\ host'[j] = host[j] /\ streams'[j] = streams[j]
               /\ pending'[j] = pending[j] /\ got'[j] = got[j]
               /\ reader[j] = "none" => reader'[j] = "none",
           Untouched(i)', InOrder(i)', Prefix(i)'
    PROVE  PlaneInv'
<1>1. ASSUME NEW j \in Ids \ {i}
      PROVE  Untouched(j)' /\ InOrder(j)' /\ Prefix(j)'
  <2>1. Untouched(j) /\ InOrder(j) /\ Prefix(j)
      BY DEF PlaneInv
  <2>2. Untouched(j)'
      BY <2>1 DEF Untouched
  <2>3. InOrder(j)'
      BY <2>1 DEF InOrder, Writing
  <2>4. Prefix(j)'
      BY <2>1 DEF Prefix
  <2>5. QED
      BY <2>2, <2>3, <2>4
<1>2. QED
    BY <1>1 DEF PlaneInv

LEMMA NoStreamStep ==
    ASSUME PlaneInv, PlaneConsistent',
           \A j \in Ids :
               /\ host'[j] = host[j] /\ streams'[j].there = streams[j].there
               /\ streams'[j].queue = streams[j].queue
               /\ pending'[j] = pending[j] /\ got'[j] = got[j]
               /\ reader[j] = "none" => reader'[j] = "none" \/ host[j].st # "new"
    PROVE  PlaneInv'
<1>1. ASSUME NEW j \in Ids
      PROVE  Untouched(j)' /\ InOrder(j)' /\ Prefix(j)'
  <2>1. Untouched(j) /\ InOrder(j) /\ Prefix(j)
      BY DEF PlaneInv
  <2>2. Untouched(j)'
      BY <2>1 DEF Untouched
  <2>3. InOrder(j)'
      BY <2>1 DEF InOrder, Writing
  <2>4. Prefix(j)'
      BY <2>1 DEF Prefix
  <2>5. QED
      BY <2>2, <2>3, <2>4
<1>2. QED
    BY <1>1 DEF PlaneInv

-----------------------------------------------------------------------------
LEMMA OpenInv ==
    ASSUME PlaneInv, NEW i \in Ids, NEW k \in Keys, Open(i, k)
    PROVE  PlaneInv'
<1> USE TypeParts DEF PlaneInv, PlaneConsistent
<1> DEFINE h == [st |-> "open", key |-> k, sent |-> 0]
<1>1. /\ host[i].st = "new"
      /\ host' = [host EXCEPT ![i] = h]
      /\ UNCHANGED <<mode, reader, waiter, got>>
    BY DEF Open
<1>2. /\ ~streams[i].there /\ pending[i] = <<>> /\ got[i] = <<>> /\ reader[i] = "none"
      /\ streams[i] = NoStream
    BY <1>1 DEF Untouched, InPlace
<1>3. h \in HostRecords
    BY Numbers DEF HostRecords
<1> HIDE DEF h
<1>4. /\ host' \in [Ids -> HostRecords] /\ host'[i] = h
      /\ \A j \in Ids \ {i} : host'[j] = host[j]
    BY <1>1, <1>3
<1>5. StaysUnaccepted
    BY <1>1 DEF StaysUnaccepted
<1>6. CASE keyToId[k] # NoId \/ backlog[k] # NoId
  <2>1. UNCHANGED <<planeVars, accept>>
      BY <1>6 DEF Open, TablesAgree
  <2>2. TablesAgree'
      BY <1>5, <2>1, TablesKept DEF planeVars
  <2>3. PlaneTypeOK'
    <3>1. \A j \in Ids : InPlace(j)'
        BY <2>1 DEF InPlace, planeVars
    <3>2. QED
        BY <1>1, <1>4, <2>1, <3>1, TypePartsNext DEF planeVars
  <2>4. Untouched(i)' /\ InOrder(i)' /\ Prefix(i)'
    <3>1. host'[i].st = "open"
        BY <1>4 DEF h
    <3>2. QED
        BY <1>1, <1>2, <2>1, <3>1 DEF Untouched, InOrder, Prefix, planeVars
  <2>5. QED
      BY <1>1, <1>4, <2>1, <2>2, <2>3, <2>4, StreamStep DEF planeVars
<1>7. CASE keyToId[k] = NoId /\ backlog[k] = NoId
  <2> DEFINE s == [there |-> TRUE, key |-> k, queue |-> pending[i], waiting |-> FALSE]
  <2>1. /\ streams' = [streams EXCEPT ![i] = s]
        /\ pending' = [pending EXCEPT ![i] = <<>>]
        /\ keyToId' = [keyToId EXCEPT ![k] = i]
        /\ backlog' = [backlog EXCEPT ![k] = i]
        /\ accept' = NotifyAccepts
      BY <1>7 DEF Open
  <2>2. s \in StreamRecords /\ s.there /\ s.key = k /\ s.queue = <<>>
      BY <1>2 DEF StreamRecords
  <2> HIDE DEF s
  <2>3. /\ streams' \in [Ids -> StreamRecords] /\ streams'[i] = s
        /\ \A j \in Ids \ {i} : streams'[j] = streams[j]
        /\ pending' \in [Ids -> Seq(Events)] /\ \A j \in Ids : pending'[j] = pending[j]
        /\ keyToId' \in [Keys -> Ids \cup {NoId}] /\ backlog' \in [Keys -> Ids \cup {NoId}]
        /\ keyToId'[k] = i /\ backlog'[k] = i
        /\ \A c \in Keys \ {k} : keyToId'[c] = keyToId[c] /\ backlog'[c] = backlog[c]
        /\ accept' \in [Accepts -> AcceptRecords]
      BY <1>2, <2>1, <2>2, NotifyAcceptsType
  <2>4. k # NoId
      BY NoIdIsNone
  <2>5. PlaneTypeOK'
    <3>1. InPlace(i)'
        BY <1>2, <2>2, <2>3, <2>4 DEF InPlace
    <3>2. \A j \in Ids \ {i} : InPlace(j)'
        BY <2>3 DEF InPlace
    <3>3. QED
        BY <1>1, <1>4, <2>3, <3>1, <3>2, TypePartsNext
  <2>6. TablesAgree'
    <3>1. ASSUME NEW j \in Ids, streams'[j].there
          PROVE  keyToId'[streams'[j].key] = j
      <4>1. CASE j = i
          BY <2>2, <2>3, <4>1
      <4>2. CASE j # i
        <5>1. streams[j].there /\ streams'[j] = streams[j] /\ keyToId[streams[j].key] = j
            BY <2>3, <3>1, <4>2 DEF TablesAgree
        <5>2. streams[j].key \in Keys /\ streams[j].key # k
            BY <1>7, <5>1, NoIdIsNone DEF InPlace, StreamRecords
        <5>3. QED
            BY <2>3, <5>1, <5>2
      <4>3. QED
          BY <4>1, <4>2
    <3>2. ASSUME NEW c \in Keys
          PROVE  /\ keyToId'[c] # NoId => streams'[keyToId'[c]].there /\ streams'[keyToId'[c]].key = c
                 /\ backlog'[c] # NoId => backlog'[c] = keyToId'[c] /\ reader'[backlog'[c]] = "none"
      <4>1. CASE c = k
          BY <1>1, <1>2, <2>2, <2>3, <4>1
      <4>2. CASE c # k
        <5>1. keyToId'[c] = keyToId[c] /\ backlog'[c] = backlog[c] /\ keyToId[c] \in Ids \cup {NoId}
            BY <2>3, <4>2
        <5>2. keyToId[c] # i
            BY <1>2, NoIdIsNone DEF TablesAgree
        <5>3. QED
            BY <1>1, <2>3, <5>1, <5>2 DEF TablesAgree
      <4>3. QED
          BY <4>1, <4>2
    <3>3. QED
        BY <3>1, <3>2 DEF TablesAgree
  <2>7. Untouched(i)' /\ InOrder(i)' /\ Prefix(i)'
    <3>1. host'[i].st = "open" /\ host'[i].sent = 0
        BY <1>4 DEF h
    <3>2. streams'[i].queue = <<>> /\ got'[i] = <<>>
        BY <1>1, <1>2, <2>2, <2>3
    <3>3. QED
        BY <3>1, <3>2 DEF Untouched, InOrder, Prefix
  <2>8. QED
      BY <1>1, <1>4, <2>3, <2>5, <2>6, <2>7, StreamStep
<1>8. QED
    BY <1>6, <1>7

\* The events of one push, and where they go.
LEMMA EnqueueFacts ==
    ASSUME PlaneConsistent, NEW i \in Ids, NEW events \in Seq(Events), Enqueue(i, events),
           UNCHANGED <<keyToId, backlog>>
    PROVE  /\ streams' \in [Ids -> StreamRecords] /\ pending' \in [Ids -> Seq(Events)]
           /\ waiter' \in [Ids -> BOOLEAN] /\ reader' \in [Ids -> ReaderStates]
           /\ StaysUnaccepted
           /\ \A j \in Ids : InPlace(j)'
           /\ \A j \in Ids \ {i} : streams'[j] = streams[j] /\ pending'[j] = pending[j]
           /\ streams'[i].there = streams[i].there /\ streams'[i].key = streams[i].key
           /\ streams[i].there => streams'[i].queue = streams[i].queue \o events
           /\ TablesAgree'
<1> USE TypeParts DEF PlaneConsistent
<1>0. streams[i] \in StreamRecords /\ pending[i] \in Seq(Events)
    OBVIOUS
<1>1. CASE streams[i].there
  <2> DEFINE q == streams[i].queue \o events
             s == [streams[i] EXCEPT !.queue = q, !.waiting = FALSE]
  <2>1. /\ streams' = [streams EXCEPT ![i] = s]
        /\ UNCHANGED pending /\ Poke(i)
      BY <1>1 DEF Enqueue
  <2>2. q \in Seq(Events)
      BY <1>0 DEF StreamRecords
  <2> HIDE DEF q
  <2>3. /\ s \in StreamRecords /\ s.there /\ s.there = streams[i].there
        /\ s.key = streams[i].key /\ s.queue = q
      BY <1>0, <1>1, <2>2 DEF StreamRecords
  <2> HIDE DEF s
  <2>4. /\ streams' \in [Ids -> StreamRecords] /\ streams'[i] = s
        /\ \A j \in Ids \ {i} : streams'[j] = streams[j]
      BY <2>1, <2>3
  <2>5. \A j \in Ids : InPlace(j)'
      BY <1>1, <2>1, <2>3, <2>4 DEF InPlace
  <2>6. /\ waiter' \in [Ids -> BOOLEAN] /\ reader' \in [Ids -> ReaderStates]
        /\ StaysUnaccepted
      BY <2>1, PokeFacts
  <2>7. TablesAgree'
    <3>1. \A j \in Ids : streams'[j].there = streams[j].there /\ streams'[j].key = streams[j].key
        BY <1>1, <2>3, <2>4
    <3>2. QED
        BY <2>6, <3>1, TablesKept
  <2>8. QED
      BY <1>1, <2>1, <2>3, <2>4, <2>5, <2>6, <2>7 DEF q
<1>2. CASE ~streams[i].there
  <2>1. /\ pending' = [pending EXCEPT ![i] = pending[i] \o events]
        /\ reader' = NotifyReaders
        /\ UNCHANGED <<streams, waiter>>
      BY <1>2 DEF Enqueue
  <2>2. pending[i] \o events \in Seq(Events)
      BY <1>0
  <2>3. /\ pending' \in [Ids -> Seq(Events)]
        /\ \A j \in Ids \ {i} : pending'[j] = pending[j]
      BY <2>1, <2>2
  <2>4. \A j \in Ids : InPlace(j)'
      BY <1>2, <2>1, <2>3 DEF InPlace
  <2>5. reader' \in [Ids -> ReaderStates] /\ StaysUnaccepted
      BY <2>1, NotifyReadersFacts DEF StaysUnaccepted
  <2>6. TablesAgree'
      BY <2>1, <2>5, TablesKept
  <2>7. QED
      BY <1>2, <2>1, <2>3, <2>4, <2>5, <2>6
<1>3. QED
    BY <1>1, <1>2

LEMMA PushChunksInv ==
    ASSUME PlaneInv, NEW i \in Ids, NEW n \in Nat, PushChunks(i, n)
    PROVE  PlaneInv'
<1> USE DEF PlaneInv, PlaneConsistent
<1>0. /\ host[i] \in HostRecords /\ got[i] \in Seq(Events) /\ streams[i] \in StreamRecords
      /\ host \in [Ids -> HostRecords]
    BY TypeParts
<1>1. PICK sent : sent = host[i].sent
    OBVIOUS
<1> DEFINE events == [j \in 1..n |-> sent + j]
<1>2. /\ host[i].st = "open" /\ sent + n <= MaxChunks
      /\ host' = [host EXCEPT ![i].sent = sent + n]
      /\ Enqueue(i, events)
      /\ UNCHANGED <<mode, keyToId, backlog, accept, got>>
    BY <1>1 DEF PushChunks, Writing
<1>3. sent \in Nat /\ MaxChunks \in Nat /\ sent + n \in 0..MaxChunks
    BY <1>0, <1>1, <1>2, Numbers DEF HostRecords
<1>4. events \in Seq(Events) /\ Len(events) = n /\ \A j \in 1..n : events[j] = sent + j
  <2>1. \A j \in 1..n : sent + j \in 1..MaxChunks
      BY <1>2, <1>3
  <2>2. \A j \in 1..n : sent + j \in Events
      BY <2>1, Numbers
  <2>3. QED
      BY <2>2
<1> HIDE DEF events
<1>5. /\ host' \in [Ids -> HostRecords] /\ host'[i].sent = sent + n /\ host'[i].st = "open"
      /\ \A j \in Ids \ {i} : host'[j] = host[j]
    BY <1>0, <1>2, <1>3 DEF HostRecords
<1>6. /\ streams' \in [Ids -> StreamRecords] /\ pending' \in [Ids -> Seq(Events)]
      /\ waiter' \in [Ids -> BOOLEAN] /\ reader' \in [Ids -> ReaderStates]
      /\ StaysUnaccepted
      /\ \A j \in Ids : InPlace(j)'
      /\ \A j \in Ids \ {i} : streams'[j] = streams[j] /\ pending'[j] = pending[j]
      /\ streams'[i].there = streams[i].there /\ streams'[i].key = streams[i].key
      /\ streams[i].there => streams'[i].queue = streams[i].queue \o events
      /\ TablesAgree'
    BY <1>2, <1>4, EnqueueFacts
<1>7. PlaneTypeOK'
    BY <1>2, <1>5, <1>6, TypeParts, TypePartsNext
<1>8. Untouched(i)'
    BY <1>5 DEF Untouched
<1>9. InOrder(i)'
  <2>1. SUFFICES ASSUME streams[i].there PROVE InOrder(i)'
      BY <1>6 DEF InOrder
  <2> DEFINE q == streams[i].queue
             g == Len(got[i])
             l == Len(q)
  <2>2. q \in Seq(Events) /\ g \in Nat /\ l \in Nat
      BY <1>0 DEF StreamRecords
  <2>3. /\ \A m \in 1..l : q[m] = g + m
        /\ g + l = sent
        /\ \A m \in 1..g : got[i][m] = m
      BY <1>1, <1>2, <2>1 DEF InOrder, Writing
  <2>4. streams'[i].queue = q \o events /\ got'[i] = got[i]
      BY <1>2, <1>6, <2>1
  <2> HIDE DEF q, g
  <2>5. /\ Len(q \o events) = l + n
        /\ \A m \in 1..l : (q \o events)[m] = q[m]
        /\ \A m \in 1..n : (q \o events)[l + m] = events[m]
      BY <1>4, <2>2
  <2> HIDE DEF l
  <2>6. ASSUME NEW m \in 1..(l + n) PROVE (q \o events)[m] = g + m
    <3>1. CASE m <= l
        BY <2>2, <2>3, <2>5, <3>1
    <3>2. CASE m > l
      <4>1. PICK d \in 1..n : m = l + d
        <5>1. m - l \in 1..n /\ m = l + (m - l)
            BY <2>2, <3>2
        <5>2. QED
            BY <5>1
      <4>2. (q \o events)[m] = sent + d
          BY <1>4, <2>5, <4>1
      <4>3. sent + d = g + m
          BY <2>2, <2>3, <4>1
      <4>4. QED
          BY <4>2, <4>3
    <3>3. m <= l \/ m > l
        BY <2>2
    <3>4. QED
        BY <3>1, <3>2, <3>3
  <2>7. g + (l + n) = sent + n
      BY <2>2, <2>3
  <2>8. \A m \in 1..g : got'[i][m] = m
      BY <2>3, <2>4
  <2>9. Len(got'[i]) = g
      BY <2>4 DEF g
  <2>10. QED
      BY <1>5, <2>4, <2>5, <2>6, <2>7, <2>8, <2>9 DEF InOrder
<1>10. Prefix(i)'
    BY <1>2 DEF Prefix
<1>11. QED
    BY <1>2, <1>5, <1>6, <1>7, <1>8, <1>9, <1>10, StreamStep DEF StaysUnaccepted

LEMMA PushTerminalInv ==
    ASSUME PlaneInv, NEW i \in Ids, NEW terminal \in Ends, PushTerminal(i, terminal)
    PROVE  PlaneInv'
<1> USE TypeParts DEF PlaneInv, PlaneConsistent
<1>0. host[i] \in HostRecords /\ streams[i] \in StreamRecords /\ terminal \in Events
    BY Numbers DEF Ends
<1>1. /\ host' = [host EXCEPT ![i].st = "ended"]
      /\ UNCHANGED <<mode, keyToId, backlog, accept, got>>
    BY DEF PushTerminal
<1>2. /\ host' \in [Ids -> HostRecords] /\ host'[i].st = "ended"
      /\ \A j \in Ids \ {i} : host'[j] = host[j]
    BY <1>0, <1>1 DEF HostRecords
<1>3. /\ streams' \in [Ids -> StreamRecords] /\ pending' \in [Ids -> Seq(Events)]
      /\ waiter' \in [Ids -> BOOLEAN] /\ reader' \in [Ids -> ReaderStates]
      /\ StaysUnaccepted
      /\ \A j \in Ids : InPlace(j)'
      /\ \A j \in Ids \ {i} : streams'[j] = streams[j] /\ pending'[j] = pending[j]
      /\ streams'[i].there = streams[i].there /\ streams'[i].key = streams[i].key
      /\ streams[i].there => streams'[i].queue = <<terminal>>
  <2>1. CASE streams[i].there
    <3> DEFINE s == [streams[i] EXCEPT !.queue = <<terminal>>, !.waiting = FALSE]
    <3>1. /\ streams' = [streams EXCEPT ![i] = s]
          /\ UNCHANGED pending /\ Poke(i)
        BY <2>1 DEF PushTerminal
    <3>2. s \in StreamRecords /\ s.there /\ s.key = streams[i].key /\ s.queue = <<terminal>>
      <4>1. <<terminal>> \in Seq(Events)
          BY <1>0
      <4>2. QED
          BY <1>0, <2>1, <4>1 DEF StreamRecords
    <3> HIDE DEF s
    <3>3. /\ streams' \in [Ids -> StreamRecords] /\ streams'[i] = s
          /\ \A j \in Ids \ {i} : streams'[j] = streams[j]
        BY <3>1, <3>2
    <3>4. \A j \in Ids : InPlace(j)'
        BY <2>1, <3>1, <3>2, <3>3 DEF InPlace
    <3>5. QED
        BY <2>1, <3>1, <3>2, <3>3, <3>4, PokeFacts
  <2>2. CASE ~streams[i].there
    <3>1. /\ pending' = [pending EXCEPT ![i] = <<terminal>>]
          /\ reader' = NotifyReaders
          /\ UNCHANGED <<streams, waiter>>
        BY <2>2 DEF PushTerminal
    <3>2. /\ pending' \in [Ids -> Seq(Events)]
          /\ \A j \in Ids \ {i} : pending'[j] = pending[j]
        BY <1>0, <3>1
    <3>3. \A j \in Ids : InPlace(j)'
        BY <2>2, <3>1, <3>2 DEF InPlace
    <3>4. reader' \in [Ids -> ReaderStates] /\ StaysUnaccepted
        BY <3>1, NotifyReadersFacts DEF StaysUnaccepted
    <3>5. QED
        BY <2>2, <3>1, <3>2, <3>3, <3>4
  <2>3. QED
      BY <2>1, <2>2
<1>4. TablesAgree'
    BY <1>1, <1>3, TablesKept
<1>5. PlaneTypeOK'
    BY <1>1, <1>2, <1>3, TypePartsNext
<1>6. Untouched(i)' /\ Prefix(i)'
    BY <1>1, <1>2 DEF Untouched, Prefix
<1>7. InOrder(i)'
  <2>1. SUFFICES ASSUME streams[i].there PROVE InOrder(i)'
      BY <1>3 DEF InOrder
  <2>2. /\ \A m \in 1..Len(got'[i]) : got'[i][m] = m
        /\ streams'[i].queue = <<terminal>> /\ ~Writing(i)'
      BY <1>1, <1>2, <1>3, <2>1 DEF InOrder, Writing
  <2>3. QED
      BY <2>2 DEF InOrder
<1>8. QED
    BY <1>1, <1>2, <1>3, <1>4, <1>5, <1>6, <1>7, StreamStep DEF StaysUnaccepted

LEMMA DiscardByHostInv ==
    ASSUME PlaneInv, NEW i \in Ids, DiscardByHost(i)
    PROVE  PlaneInv'
<1> USE DEF PlaneInv, PlaneConsistent
<1>0. host[i] \in HostRecords
    BY TypeParts
<1>1. /\ host' = [host EXCEPT ![i].st = "gone"]
      /\ pending' = [pending EXCEPT ![i] = <<>>]
      /\ UNCHANGED <<mode, got>>
    BY DEF DiscardByHost
<1>2. /\ host' \in [Ids -> HostRecords] /\ host'[i].st = "gone"
      /\ \A j \in Ids \ {i} : host'[j] = host[j]
    BY <1>0, <1>1, TypeParts DEF HostRecords
<1>3. /\ pending' \in [Ids -> Seq(Events)] /\ pending'[i] = <<>>
      /\ \A j \in Ids \ {i} : pending'[j] = pending[j]
    BY <1>1, TypeParts
<1>4. /\ streams' \in [Ids -> StreamRecords] /\ ~streams'[i].there /\ streams'[i] = NoStream
      /\ \A j \in Ids \ {i} : streams'[j] = streams[j]
      /\ keyToId' \in [Keys -> Ids \cup {NoId}] /\ backlog' \in [Keys -> Ids \cup {NoId}]
      /\ accept' \in [Accepts -> AcceptRecords]
      /\ waiter' \in [Ids -> BOOLEAN] /\ reader' \in [Ids -> ReaderStates]
      /\ StaysUnaccepted
      /\ TablesAgree'
  <2>1. CASE streams[i].there
    <3>1. RemoveStream(i) /\ Poke(i) /\ accept' = NotifyAccepts
        BY <2>1 DEF DiscardByHost
    <3>2. /\ waiter' \in [Ids -> BOOLEAN] /\ reader' \in [Ids -> ReaderStates]
          /\ StaysUnaccepted
        BY <3>1, PokeFacts
    <3>3. \A j \in Ids \ {i} : reader[j] = "none" => reader'[j] = "none"
        BY <3>2 DEF StaysUnaccepted
    <3>4. /\ streams' \in [Ids -> StreamRecords] /\ streams'[i] = NoStream
          /\ \A j \in Ids \ {i} : streams'[j] = streams[j]
          /\ keyToId' \in [Keys -> Ids \cup {NoId}] /\ backlog' \in [Keys -> Ids \cup {NoId}]
          /\ TablesAgree'
        BY <2>1, <3>1, <3>3, StreamRemoved
    <3>5. QED
        BY <3>1, <3>2, <3>4, NotifyAcceptsType DEF NoStream
  <2>2. CASE ~streams[i].there
    <3>1. UNCHANGED <<streams, keyToId, backlog, reader, waiter, accept>>
        BY <2>2 DEF DiscardByHost
    <3>2. StaysUnaccepted
        BY <3>1 DEF StaysUnaccepted
    <3>3. TablesAgree'
        BY <3>1, <3>2, TablesKept
    <3>4. streams[i] = NoStream
        BY <2>2, TypeParts DEF InPlace
    <3>5. QED
        BY <2>2, <3>1, <3>2, <3>3, <3>4, TypeParts
  <2>3. QED
      BY <2>1, <2>2
<1>5. PlaneTypeOK'
  <2>1. \A j \in Ids : InPlace(j)'
      BY <1>3, <1>4, TypeParts DEF InPlace
  <2>2. QED
      BY <1>1, <1>2, <1>3, <1>4, <2>1, TypeParts, TypePartsNext
<1>6. Untouched(i)' /\ InOrder(i)' /\ Prefix(i)'
    BY <1>1, <1>2, <1>4 DEF Untouched, InOrder, Prefix
<1>7. QED
    BY <1>1, <1>2, <1>3, <1>4, <1>5, <1>6, StreamStep DEF StaysUnaccepted

-----------------------------------------------------------------------------
LEMMA AcceptInv ==
    ASSUME PlaneInv, NEW a \in Accepts,
           (\E k \in Keys : Accept(a, k)) \/ AcceptTimesOut(a)
    PROVE  PlaneInv'
<1> USE DEF PlaneInv, PlaneConsistent
<1>1. UNCHANGED <<mode, host, planeVars, reader, waiter, got>>
    BY DEF Accept, AcceptTimesOut
<1>2. accept' \in [Accepts -> AcceptRecords]
  <2>1. accept[a] \in AcceptRecords /\ accept \in [Accepts -> AcceptRecords]
      BY TypeParts
  <2>2. CASE \E k \in Keys : Accept(a, k)
      BY <2>1, <2>2 DEF Accept, AcceptRecords
  <2>3. CASE AcceptTimesOut(a)
      BY <2>1, <2>3 DEF AcceptTimesOut, AcceptRecords
  <2>4. QED
      BY <2>2, <2>3
<1>3. PlaneTypeOK'
  <2>1. \A j \in Ids : InPlace(j)'
      BY <1>1, TypeParts DEF InPlace, planeVars
  <2>2. QED
      BY <1>1, <1>2, <2>1, TypeParts, TypePartsNext DEF planeVars
<1>4. TablesAgree'
    BY <1>1, TablesKept DEF StaysUnaccepted, planeVars
<1>5. QED
    BY <1>1, <1>3, <1>4, NoStreamStep DEF planeVars

LEMMA AcceptPollInv ==
    ASSUME PlaneInv, NEW a \in Accepts, AcceptPoll(a)
    PROVE  PlaneInv'
<1> USE DEF PlaneInv, PlaneConsistent
<1> DEFINE k == accept[a].key
           i == backlog[k]
<1>0. accept[a] \in AcceptRecords /\ accept \in [Accepts -> AcceptRecords]
    BY TypeParts
<1>1. UNCHANGED <<mode, host, streams, keyToId, pending, waiter, got>>
    BY DEF AcceptPoll
<1>2. \A j \in Ids : InPlace(j)'
    BY <1>1, TypeParts DEF InPlace
<1>3. CASE i # NoId /\ backlog' = Without(backlog, k)
           /\ accept' = [accept EXCEPT ![a].st = "done"]
           /\ reader' = [reader EXCEPT ![i] = IF accept[a].st = "polling" THEN "idle" ELSE "lost"]
  <2>0. PICK id : id = i
      OBVIOUS
  <2>1. PICK k0 : k0 = k
      OBVIOUS
  <2>2. k0 \in Keys
      BY <1>0, <2>1 DEF AcceptRecords, AcceptPoll
  <2>3. /\ id \in Ids /\ keyToId[k0] = id /\ reader[id] = "none" /\ id = backlog[k0]
        /\ streams[id].there /\ streams[id].key = k0
      BY <1>3, <2>0, <2>1, <2>2, TypeParts DEF TablesAgree
  <2>4. /\ backlog' \in [Keys -> Ids \cup {NoId}] /\ backlog'[k0] = NoId
        /\ \A c \in Keys \ {k0} : backlog'[c] = backlog[c]
      BY <1>3, <2>1, <2>2, TypeParts DEF Without
  <2>5. /\ reader' \in [Ids -> ReaderStates]
        /\ \A j \in Ids \ {id} : reader'[j] = reader[j]
      BY <1>3, <2>0, <2>3, TypeParts DEF ReaderStates
  <2>6. accept' \in [Accepts -> AcceptRecords]
      BY <1>0, <1>3 DEF AcceptRecords, AcceptPoll
  <2>7. PlaneTypeOK'
      BY <1>1, <1>2, <2>4, <2>5, <2>6, TypeParts, TypePartsNext
  <2>8. TablesAgree'
    <3>1. \A c \in Keys \ {k0} : backlog[c] # NoId => backlog[c] = keyToId[c] /\ backlog[c] # id /\ backlog[c] \in Ids
        BY <2>3, TypeParts DEF TablesAgree
    <3>2. QED
        BY <1>1, <2>4, <2>5, <3>1 DEF TablesAgree
  <2>9. host[id].st # "new"
      BY <2>3 DEF Untouched
  <2>10. QED
      BY <1>1, <2>5, <2>7, <2>8, <2>9, NoStreamStep
<1>4. CASE i = NoId /\ UNCHANGED <<backlog, reader>>
           /\ accept' = [accept EXCEPT ![a].st = IF @ = "polling" THEN "waiting" ELSE "lost"]
  <2>1. accept' \in [Accepts -> AcceptRecords]
      BY <1>0, <1>4 DEF AcceptRecords, AcceptPoll
  <2>2. TablesAgree'
      BY <1>1, <1>4, TablesKept DEF StaysUnaccepted
  <2>3. PlaneTypeOK'
      BY <1>1, <1>2, <1>4, <2>1, TypeParts, TypePartsNext
  <2>4. QED
      BY <1>1, <1>4, <2>2, <2>3, NoStreamStep
<1>5. QED
    BY <1>3, <1>4 DEF AcceptPoll

LEMMA ReadInv ==
    ASSUME PlaneInv, NEW i \in Ids, Read(i)
    PROVE  PlaneInv'
<1> USE DEF PlaneInv, PlaneConsistent
<1>1. /\ reader[i] = "idle" /\ reader' = [reader EXCEPT ![i] = "reading"]
      /\ UNCHANGED <<mode, host, planeVars, accept, waiter, got>>
    BY DEF Read
<1>2. /\ reader' \in [Ids -> ReaderStates] /\ StaysUnaccepted
    BY <1>1, TypeParts DEF ReaderStates, StaysUnaccepted
<1>3. \A j \in Ids : InPlace(j)'
    BY <1>1, TypeParts DEF InPlace, planeVars
<1>4. PlaneTypeOK'
    BY <1>1, <1>2, <1>3, TypeParts, TypePartsNext DEF planeVars
<1>5. TablesAgree'
    BY <1>1, <1>2, TablesKept DEF planeVars
<1>6. QED
    BY <1>1, <1>2, <1>4, <1>5, NoStreamStep DEF StaysUnaccepted, planeVars

LEMMA CancelInv ==
    ASSUME PlaneInv, NEW i \in Ids, Cancel(i)
    PROVE  PlaneInv'
<1> USE DEF PlaneInv, PlaneConsistent
<1>1. /\ reader[i] # "none"
      /\ reader' = [(IF streams[i].there THEN NotifyReaders ELSE reader) EXCEPT ![i] = "done"]
      /\ waiter' = [waiter EXCEPT ![i] = FALSE]
      /\ pending' = [pending EXCEPT ![i] = <<>>]
      /\ UNCHANGED <<mode, host, got>>
    BY DEF Cancel
<1>2. /\ reader' \in [Ids -> ReaderStates] /\ StaysUnaccepted
      /\ waiter' \in [Ids -> BOOLEAN]
  <2>1. CASE streams[i].there
      BY <1>1, <2>1, NotifyReadersFacts, TypeParts DEF StaysUnaccepted, ReaderStates
  <2>2. CASE ~streams[i].there
      BY <1>1, <2>2, TypeParts DEF StaysUnaccepted, ReaderStates
  <2>3. QED
      BY <2>1, <2>2
<1>3. /\ pending' \in [Ids -> Seq(Events)] /\ pending'[i] = <<>>
      /\ \A j \in Ids \ {i} : pending'[j] = pending[j]
    BY <1>1, TypeParts
<1>4. /\ streams' \in [Ids -> StreamRecords] /\ ~streams'[i].there /\ streams'[i] = NoStream
      /\ \A j \in Ids \ {i} : streams'[j] = streams[j]
      /\ keyToId' \in [Keys -> Ids \cup {NoId}] /\ backlog' \in [Keys -> Ids \cup {NoId}]
      /\ accept' \in [Accepts -> AcceptRecords]
      /\ TablesAgree'
  <2>1. CASE streams[i].there
    <3>1. RemoveStream(i) /\ accept' = NotifyAccepts
        BY <2>1 DEF Cancel
    <3>2. \A j \in Ids \ {i} : reader[j] = "none" => reader'[j] = "none"
        BY <1>2 DEF StaysUnaccepted
    <3>3. /\ streams' \in [Ids -> StreamRecords] /\ streams'[i] = NoStream
          /\ \A j \in Ids \ {i} : streams'[j] = streams[j]
          /\ keyToId' \in [Keys -> Ids \cup {NoId}] /\ backlog' \in [Keys -> Ids \cup {NoId}]
          /\ TablesAgree'
        BY <2>1, <3>1, <3>2, StreamRemoved
    <3>4. QED
        BY <3>1, <3>3, NotifyAcceptsType DEF NoStream
  <2>2. CASE ~streams[i].there
    <3>1. UNCHANGED <<streams, keyToId, backlog, accept>>
        BY <2>2 DEF Cancel
    <3>2. TablesAgree'
        BY <1>2, <3>1, TablesKept
    <3>3. streams[i] = NoStream
        BY <2>2, TypeParts DEF InPlace
    <3>4. QED
        BY <2>2, <3>1, <3>2, <3>3, TypeParts
  <2>3. QED
      BY <2>1, <2>2
<1>5. PlaneTypeOK'
  <2>1. \A j \in Ids : InPlace(j)'
      BY <1>3, <1>4, TypeParts DEF InPlace
  <2>2. QED
      BY <1>1, <1>2, <1>3, <1>4, <2>1, TypeParts, TypePartsNext
<1>6. Untouched(i)' /\ InOrder(i)' /\ Prefix(i)'
    BY <1>1, <1>4 DEF Untouched, InOrder, Prefix
<1>7. QED
    BY <1>1, <1>2, <1>3, <1>4, <1>5, <1>6, StreamStep DEF StaysUnaccepted

(***************************************************************************)
(* read_poll_event: an empty queue leaves a reader waiting, a chunk leaves *)
(* the queue for the history, an end takes the stream with it.             *)
(***************************************************************************)
LEMMA ReadPollInv ==
    ASSUME PlaneInv, NEW i \in Ids, ReadPoll(i)
    PROVE  PlaneInv'
<1> USE DEF PlaneInv, PlaneConsistent
<1> DEFINE q == streams[i].queue
           g == got[i]
<1>0. /\ streams \in [Ids -> StreamRecords] /\ streams[i] \in StreamRecords
      /\ q \in Seq(Events) /\ g \in Seq(Events) /\ got \in [Ids -> Seq(Events)]
      /\ waiter \in [Ids -> BOOLEAN] /\ reader \in [Ids -> ReaderStates]
      /\ mode \in Modes
    BY TypeParts DEF StreamRecords
<1>1. /\ reader[i] = "reading"
      /\ UNCHANGED <<mode, host, pending, accept>>
    BY DEF ReadPoll
<1>2. host[i].st # "new"
    BY <1>1 DEF Untouched
<1>3. CASE streams[i].there /\ q = <<>>
           /\ streams' = [streams EXCEPT ![i].waiting = TRUE]
           /\ waiter' = [waiter EXCEPT ![i] = (mode = "poll")]
           /\ reader' = [reader EXCEPT ![i] = "waiting"]
           /\ UNCHANGED <<keyToId, backlog, got>>
  <2>1. /\ streams' \in [Ids -> StreamRecords]
        /\ \A j \in Ids : /\ streams'[j].there = streams[j].there /\ streams'[j].key = streams[j].key
                          /\ streams'[j].queue = streams[j].queue
        /\ \A j \in Ids \ {i} : streams'[j] = streams[j]
        /\ streams'[i].there
      BY <1>0, <1>3 DEF StreamRecords
  <2>2. /\ waiter' \in [Ids -> BOOLEAN] /\ reader' \in [Ids -> ReaderStates]
        /\ StaysUnaccepted
      BY <1>0, <1>1, <1>3 DEF ReaderStates, StaysUnaccepted
  <2>3. \A j \in Ids : InPlace(j)'
    <3>1. InPlace(i)'
        BY <1>1, <1>3, <2>1, TypeParts DEF InPlace
    <3>2. \A j \in Ids \ {i} : InPlace(j)'
        BY <1>1, <2>1, TypeParts DEF InPlace
    <3>3. QED
        BY <3>1, <3>2
  <2>4. PlaneTypeOK'
      BY <1>0, <1>1, <1>3, <2>1, <2>2, <2>3, TypeParts, TypePartsNext
  <2>5. TablesAgree'
      BY <1>3, <2>1, <2>2, TablesKept
  <2>6. QED
      BY <1>1, <1>3, <2>1, <2>2, <2>4, <2>5, NoStreamStep DEF StaysUnaccepted
<1>4. CASE streams[i].there /\ q # <<>> /\ Head(q) \notin Ends
           /\ streams' = [streams EXCEPT ![i].queue = Tail(@), ![i].waiting = FALSE]
           /\ got' = [got EXCEPT ![i] = Append(@, Head(q))]
           /\ reader' = [reader EXCEPT ![i] = "idle"]
           /\ UNCHANGED <<keyToId, backlog, waiter>>
  <2> DEFINE s == [streams[i] EXCEPT !.queue = Tail(q), !.waiting = FALSE]
             lq == Len(q)
             lg == Len(g)
  <2>1. /\ Tail(q) \in Seq(Events) /\ Head(q) \in Events /\ Head(q) = q[1]
        /\ Append(g, Head(q)) \in Seq(Events)
      BY <1>0, <1>4
  <2>2. /\ lq \in Nat \ {0} /\ lg \in Nat
        /\ Len(Tail(q)) = lq - 1 /\ \A m \in 1..(lq - 1) : Tail(q)[m] = q[m + 1]
        /\ Len(Append(g, Head(q))) = lg + 1
        /\ \A m \in 1..lg : Append(g, Head(q))[m] = g[m]
        /\ Append(g, Head(q))[lg + 1] = Head(q)
      BY <1>0, <1>4, <2>1
  <2>3. /\ s \in StreamRecords /\ s.there /\ s.there = streams[i].there
        /\ s.key = streams[i].key /\ s.queue = Tail(q)
      BY <1>0, <1>4, <2>1 DEF StreamRecords
  <2>4. streams' = [streams EXCEPT ![i] = s]
      BY <1>4
  <2> HIDE DEF s
  <2>5. /\ streams' \in [Ids -> StreamRecords] /\ streams'[i] = s
        /\ \A j \in Ids \ {i} : streams'[j] = streams[j]
      BY <1>0, <2>3, <2>4
  <2>6. /\ got' \in [Ids -> Seq(Events)] /\ got'[i] = Append(g, Head(q))
        /\ \A j \in Ids \ {i} : got'[j] = got[j]
      BY <1>0, <1>4, <2>1
  <2>7. reader' \in [Ids -> ReaderStates] /\ StaysUnaccepted
      BY <1>0, <1>1, <1>4 DEF ReaderStates, StaysUnaccepted
  <2>8. \A j \in Ids : InPlace(j)'
    <3>1. InPlace(i)'
        BY <1>1, <1>4, <2>3, <2>5, TypeParts DEF InPlace
    <3>2. \A j \in Ids \ {i} : InPlace(j)'
        BY <1>1, <2>5, TypeParts DEF InPlace
    <3>3. QED
        BY <3>1, <3>2
  <2>9. PlaneTypeOK'
      BY <1>0, <1>1, <1>4, <2>5, <2>6, <2>7, <2>8, TypeParts, TypePartsNext
  <2>10. TablesAgree'
    <3>1. \A j \in Ids : streams'[j].there = streams[j].there /\ streams'[j].key = streams[j].key
        BY <2>3, <2>5
    <3>2. QED
        BY <1>4, <2>7, <3>1, TablesKept
  <2>11. /\ \A m \in 1..lg : g[m] = m
         /\ \A m \in 1..lq : q[m] = lg + m \/ (q[m] \in Ends /\ m = lq /\ ~Writing(i))
         /\ Writing(i) => lg + lq = host[i].sent
      BY <1>4 DEF InOrder
  <2> HIDE DEF q, g, lq, lg
  <2>12. Head(q) = lg + 1
      BY <1>4, <2>1, <2>2, <2>11
  <2>13. \A m \in 1..(lg + 1) : got'[i][m] = m
    <3>1. SUFFICES ASSUME NEW m \in 1..(lg + 1) PROVE got'[i][m] = m
        OBVIOUS
    <3>2. m \in 1..lg \/ m = lg + 1
        BY <2>2
    <3>3. QED
        BY <2>2, <2>6, <2>11, <2>12, <3>2
  <2>14. \A m \in 1..(lq - 1) :
            \/ Tail(q)[m] = (lg + 1) + m
            \/ (Tail(q)[m] \in Ends /\ m = lq - 1 /\ ~Writing(i))
    <3>1. SUFFICES ASSUME NEW m \in 1..(lq - 1)
                   PROVE  \/ Tail(q)[m] = (lg + 1) + m
                          \/ (Tail(q)[m] \in Ends /\ m = lq - 1 /\ ~Writing(i))
        OBVIOUS
    <3>2. m + 1 \in 1..lq /\ lg + (m + 1) = (lg + 1) + m /\ (m + 1 = lq => m = lq - 1)
        BY <2>2
    <3>3. QED
        BY <2>2, <2>11, <3>2
  <2>15. Writing(i) => (lg + 1) + (lq - 1) = host[i].sent
      BY <2>2, <2>11
  <2>16. InOrder(i)'
    <3>1. /\ Len(got'[i]) = lg + 1 /\ streams'[i].queue = Tail(q) /\ Len(Tail(q)) = lq - 1
          /\ Writing(i)' = Writing(i) /\ host'[i] = host[i]
        BY <1>1, <2>2, <2>3, <2>5, <2>6 DEF Writing
    <3>2. QED
        BY <2>13, <2>14, <2>15, <3>1 DEF InOrder
  <2>17. Prefix(i)'
      BY <2>2, <2>6, <2>13 DEF Prefix
  <2>18. Untouched(i)'
      BY <1>1, <1>2 DEF Untouched
  <2>19. QED
      BY <1>1, <2>5, <2>6, <2>7, <2>9, <2>10, <2>16, <2>17, <2>18, StreamStep DEF StaysUnaccepted
<1>5. CASE streams[i].there /\ q # <<>> /\ Head(q) \in Ends
           /\ RemoveStream(i)
           /\ got' = [got EXCEPT ![i] = Append(@, Head(q))]
           /\ reader' = [reader EXCEPT ![i] = "done"]
           /\ UNCHANGED waiter
  <2> DEFINE lg == Len(g)
  <2>1. /\ Head(q) \in Events /\ lg \in Nat
        /\ Append(g, Head(q)) \in Seq(Events)
        /\ Len(Append(g, Head(q))) = lg + 1
        /\ \A m \in 1..lg : Append(g, Head(q))[m] = g[m]
        /\ Append(g, Head(q))[lg + 1] = Head(q)
      BY <1>0, <1>5
  <2>2. /\ got' \in [Ids -> Seq(Events)] /\ got'[i] = Append(g, Head(q))
        /\ \A j \in Ids \ {i} : got'[j] = got[j]
      BY <1>0, <1>5, <2>1
  <2>3. reader' \in [Ids -> ReaderStates] /\ StaysUnaccepted
      BY <1>0, <1>1, <1>5 DEF ReaderStates, StaysUnaccepted
  <2>4. /\ streams' \in [Ids -> StreamRecords] /\ ~streams'[i].there /\ streams'[i] = NoStream
        /\ \A j \in Ids \ {i} : streams'[j] = streams[j]
        /\ keyToId' \in [Keys -> Ids \cup {NoId}] /\ backlog' \in [Keys -> Ids \cup {NoId}]
        /\ TablesAgree'
    <3>1. \A j \in Ids \ {i} : reader[j] = "none" => reader'[j] = "none"
        BY <2>3 DEF StaysUnaccepted
    <3>2. /\ streams' \in [Ids -> StreamRecords] /\ streams'[i] = NoStream
          /\ \A j \in Ids \ {i} : streams'[j] = streams[j]
          /\ keyToId' \in [Keys -> Ids \cup {NoId}] /\ backlog' \in [Keys -> Ids \cup {NoId}]
          /\ TablesAgree'
        BY <1>5, <3>1, StreamRemoved
    <3>3. QED
        BY <3>2 DEF NoStream
  <2>5. \A j \in Ids : InPlace(j)'
      BY <1>1, <2>4, TypeParts DEF InPlace
  <2>6. PlaneTypeOK'
      BY <1>0, <1>1, <1>5, <2>2, <2>3, <2>4, <2>5, TypeParts, TypePartsNext
  <2>7. \A m \in 1..lg : g[m] = m
      BY <1>5 DEF InOrder
  <2> HIDE DEF q, g, lg
  <2>8. Prefix(i)'
    <3>1. \A m \in 1..(lg + 1) : m \in 1..lg \/ m = lg + 1
        BY <2>1
    <3>2. QED
        BY <1>5, <2>1, <2>2, <2>7, <3>1 DEF Prefix
  <2>9. Untouched(i)' /\ InOrder(i)'
      BY <1>1, <1>2, <2>4 DEF Untouched, InOrder
  <2>10. QED
      BY <1>1, <2>2, <2>3, <2>4, <2>6, <2>8, <2>9, StreamStep DEF StaysUnaccepted
<1>6. CASE reader' = [reader EXCEPT ![i] = "done"]
           /\ UNCHANGED <<streams, keyToId, backlog, waiter, got>>
  <2>1. reader' \in [Ids -> ReaderStates] /\ StaysUnaccepted
      BY <1>0, <1>1, <1>6 DEF ReaderStates, StaysUnaccepted
  <2>2. \A j \in Ids : InPlace(j)'
      BY <1>1, <1>6, TypeParts DEF InPlace
  <2>3. PlaneTypeOK'
      BY <1>0, <1>1, <1>6, <2>1, <2>2, TypeParts, TypePartsNext
  <2>4. TablesAgree'
      BY <1>6, <2>1, TablesKept
  <2>5. QED
      BY <1>1, <1>6, <2>1, <2>3, <2>4, NoStreamStep DEF StaysUnaccepted
<1>7. QED
    BY <1>3, <1>4, <1>5, <1>6 DEF ReadPoll, Ends

LEMMA StutterInv ==
    ASSUME PlaneInv, UNCHANGED vars
    PROVE  PlaneInv'
<1> USE DEF PlaneInv, PlaneConsistent, vars, planeVars
<1>1. \A j \in Ids : InPlace(j)'
    BY TypeParts DEF InPlace
<1>2. PlaneTypeOK'
    BY <1>1, TypeParts, TypePartsNext
<1>3. TablesAgree'
    BY TablesKept DEF StaysUnaccepted
<1>4. QED
    BY <1>2, <1>3, NoStreamStep

LEMMA InvStep == PlaneInv /\ [Next]_vars => PlaneInv'
<1> SUFFICES ASSUME PlaneInv, [Next]_vars PROVE PlaneInv'
    OBVIOUS
<1>1. ASSUME Host PROVE PlaneInv'
    BY <1>1, OpenInv, PushChunksInv, PushTerminalInv, DiscardByHostInv DEF Host, Ends
<1>2. ASSUME NEW a \in Accepts,
             (\E k \in Keys : Accept(a, k)) \/ AcceptPoll(a) \/ AcceptTimesOut(a)
      PROVE  PlaneInv'
    BY <1>2, AcceptInv, AcceptPollInv
<1>3. ASSUME NEW i \in Ids, Read(i) \/ ReadPoll(i) \/ Cancel(i)
      PROVE  PlaneInv'
    BY <1>3, ReadInv, ReadPollInv, CancelInv
<1>4. CASE UNCHANGED vars
    BY <1>4, StutterInv
<1>5. QED
    BY <1>1, <1>2, <1>3, <1>4 DEF Next

-----------------------------------------------------------------------------
(***************************************************************************)
(* The tables of streams, keys and backlog agree in every order of open,   *)
(* accept, end, discard and cancel, and every variable has its type.       *)
(***************************************************************************)
THEOREM TablesConsistent == Spec => []PlaneConsistent
<1>1. PlaneInv => PlaneConsistent
    BY DEF PlaneInv
<1>2. QED
    BY <1>1, InvInit, InvStep, PTL DEF Spec

(***************************************************************************)
(* A reader returns the chunks of its stream in order, none skipped and    *)
(* none twice, and at most one end, the last thing it returns: whichever   *)
(* way the worker reads, and whoever discards the stream in between.       *)
(***************************************************************************)
THEOREM NothingSkippedOrTwice == Spec => []ReadsAreAPrefix
<1>1. PlaneInv => ReadsAreAPrefix
  <2>1. SUFFICES ASSUME PlaneInv, NEW i \in Ids
                 PROVE  \A n \in DOMAIN got[i] :
                          got[i][n] = n \/ (got[i][n] \in {Close, Error} /\ n = Len(got[i]))
      BY DEF ReadsAreAPrefix
  <2>2. DOMAIN got[i] = 1..Len(got[i])
      BY <2>1, TypeParts DEF PlaneInv, PlaneConsistent
  <2>3. QED
      BY <2>1, <2>2 DEF PlaneInv, Prefix, Ends
<1>2. QED
    BY <1>1, InvInit, InvStep, PTL DEF Spec

-----------------------------------------------------------------------------
(***************************************************************************)
(* No wakeup is lost.  A read() that waits has nothing to return yet, and  *)
(* with the polling op the next frame finds the mark of the plane and the  *)
(* waiter of the reader both set: each would be missed without the other.  *)
(***************************************************************************)
HasToWait(i) ==
    reader[i] = "waiting" =>
        /\ streams[i].there /\ streams[i].queue = <<>>
        /\ mode = "poll" => streams[i].waiting /\ waiter[i]

NoReaderForgotten == \A i \in Ids : HasToWait(i)

\* An accept() that waits has no stream of its key to take.
NoAcceptForgotten ==
    \A a \in Accepts : accept[a].st = "waiting" => backlog[accept[a].key] = NoId

WakeInv == NoReaderForgotten /\ NoAcceptForgotten

\* A reader but that of stream i may be woken; none starts to wait.
OthersOnlyWoken(i) ==
    \A j \in Ids \ {i} :
        /\ streams'[j] = streams[j] /\ waiter'[j] = waiter[j]
        /\ reader'[j] = "waiting" => reader[j] = "waiting"

LEMMA ReaderStep ==
    ASSUME NoReaderForgotten, NEW i \in Ids, mode' = mode, OthersOnlyWoken(i),
           reader'[i] = "waiting" => HasToWait(i)'
    PROVE  NoReaderForgotten'
<1>1. ASSUME NEW j \in Ids \ {i} PROVE HasToWait(j)'
  <2>1. HasToWait(j)
      BY DEF NoReaderForgotten
  <2>2. QED
      BY <2>1 DEF HasToWait, OthersOnlyWoken
<1>2. HasToWait(i)'
    BY DEF HasToWait
<1>3. QED
    BY <1>1, <1>2 DEF NoReaderForgotten

LEMMA SameReaders ==
    ASSUME NoReaderForgotten, UNCHANGED <<mode, streams, reader, waiter>>
    PROVE  NoReaderForgotten'
BY DEF NoReaderForgotten, HasToWait

\* The next frame of a stream finds its reader, if one waits.
LEMMA PokeWakes ==
    ASSUME PlaneTypeOK, NoReaderForgotten, NEW i \in Ids, Poke(i),
           \A j \in Ids \ {i} : streams'[j] = streams[j]
    PROVE  reader'[i] # "waiting" /\ OthersOnlyWoken(i)
<1>1. /\ reader \in [Ids -> ReaderStates] /\ waiter \in [Ids -> BOOLEAN]
      /\ mode \in {"async", "poll"} /\ HasToWait(i)
    BY TypeParts, WaysOfReading DEF NoReaderForgotten
<1>2. CASE mode = "poll" /\ streams[i].waiting /\ waiter[i]
  <2>1. /\ waiter' = [waiter EXCEPT ![i] = FALSE]
        /\ reader' = [reader EXCEPT ![i] = IF @ = "waiting" THEN "reading" ELSE @]
      BY <1>2 DEF Poke
  <2>2. QED
      BY <1>1, <2>1 DEF OthersOnlyWoken
<1>3. CASE ~(mode = "poll" /\ streams[i].waiting /\ waiter[i])
  <2>1. waiter' = waiter /\ reader' = NotifyReaders
      BY <1>3 DEF Poke
  <2>2. reader[i] = "waiting" => mode = "async"
      BY <1>1, <1>3 DEF HasToWait
  <2>3. QED
      BY <1>1, <2>1, <2>2 DEF OthersOnlyWoken, NotifyReaders
<1>4. QED
    BY <1>2, <1>3

\* notify_waiters() makes no reader wait.
LEMMA NotifyWakes ==
    ASSUME NoReaderForgotten, UNCHANGED <<mode, streams, waiter>>, reader' = NotifyReaders
    PROVE  NoReaderForgotten'
BY DEF NoReaderForgotten, HasToWait, NotifyReaders

\* An accept() that waits goes on waiting only for a key that no stream got.
LEMMA AcceptStep ==
    ASSUME PlaneTypeOK, NoAcceptForgotten,
           \A a \in Accepts : accept'[a].st = "waiting" => accept'[a] = accept[a],
           \A k \in Keys : backlog'[k] = backlog[k] \/ backlog'[k] = NoId
    PROVE  NoAcceptForgotten'
<1>1. SUFFICES ASSUME NEW a \in Accepts, accept'[a].st = "waiting"
               PROVE  backlog'[accept'[a].key] = NoId
    BY DEF NoAcceptForgotten
<1>2. accept'[a] = accept[a] /\ accept[a] \in AcceptRecords
    BY <1>1, TypeParts
<1>3. accept[a].key \in Keys /\ backlog[accept[a].key] = NoId
    BY <1>1, <1>2 DEF AcceptRecords, NoAcceptForgotten
<1>4. QED
    BY <1>2, <1>3

LEMMA SameAccepts ==
    ASSUME NoAcceptForgotten, UNCHANGED <<accept, backlog>>
    PROVE  NoAcceptForgotten'
BY DEF NoAcceptForgotten

LEMMA NotifiedAccepts ==
    ASSUME accept' = NotifyAccepts, PlaneTypeOK
    PROVE  \A a \in Accepts : accept'[a].st # "waiting"
<1>1. SUFFICES ASSUME NEW a \in Accepts
               PROVE  accept'[a].st # "waiting"
    OBVIOUS
<1>2. accept[a] \in AcceptRecords
    BY TypeParts
<1>3. accept'[a] =
        [accept[a] EXCEPT !.st =
            CASE @ = "waiting" -> "polling" [] @ = "lost" -> "lostPolling" [] OTHER -> @]
    BY DEF NotifyAccepts
<1>4. QED
    BY <1>2, <1>3 DEF AcceptRecords

LEMMA WakeInit == Init => WakeInv
BY DEF Init, WakeInv, NoReaderForgotten, NoAcceptForgotten, HasToWait

LEMMA OpenWakes ==
    ASSUME PlaneInv, WakeInv, NEW i \in Ids, NEW k \in Keys, Open(i, k)
    PROVE  WakeInv'
<1> USE DEF PlaneInv, PlaneConsistent, WakeInv
<1>1. reader[i] = "none" /\ UNCHANGED <<mode, reader, waiter>>
    BY DEF Open, Untouched
<1>2. CASE UNCHANGED <<planeVars, accept>>
    BY <1>1, <1>2, SameReaders, SameAccepts DEF planeVars
<1>3. CASE /\ streams' = [streams EXCEPT ![i] =
                            [there |-> TRUE, key |-> k, queue |-> pending[i], waiting |-> FALSE]]
           /\ accept' = NotifyAccepts
  <2>1. OthersOnlyWoken(i)
      BY <1>1, <1>3, TypeParts DEF OthersOnlyWoken
  <2>2. NoReaderForgotten'
      BY <1>1, <2>1, ReaderStep
  <2>3. NoAcceptForgotten'
      BY <1>3, NotifiedAccepts DEF NoAcceptForgotten
  <2>4. QED
      BY <2>2, <2>3
<1>4. QED
    BY <1>2, <1>3 DEF Open

LEMMA PushChunksWakes ==
    ASSUME PlaneInv, WakeInv, NEW i \in Ids, NEW n \in 1..2, PushChunks(i, n)
    PROVE  WakeInv'
<1> USE DEF PlaneInv, PlaneConsistent, WakeInv
<1> DEFINE events == [j \in 1..n |-> host[i].sent + j]
<1>1. Enqueue(i, events) /\ UNCHANGED <<mode, keyToId, backlog, accept>>
    BY DEF PushChunks
<1> HIDE DEF events
<1>2. NoAcceptForgotten'
    BY <1>1, SameAccepts
<1>3. CASE streams[i].there
  <2>1. streams' = [streams EXCEPT ![i].queue = @ \o events, ![i].waiting = FALSE] /\ Poke(i)
      BY <1>1, <1>3 DEF Enqueue
  <2>2. \A j \in Ids \ {i} : streams'[j] = streams[j]
      BY <2>1, TypeParts
  <2>3. QED
      BY <1>1, <1>2, <2>1, <2>2, PokeWakes, ReaderStep
<1>4. CASE ~streams[i].there
  <2>1. reader' = NotifyReaders /\ UNCHANGED <<streams, waiter>>
      BY <1>1, <1>4 DEF Enqueue
  <2>2. QED
      BY <1>1, <1>2, <2>1, NotifyWakes
<1>5. QED
    BY <1>3, <1>4

LEMMA PushTerminalWakes ==
    ASSUME PlaneInv, WakeInv, NEW i \in Ids, NEW terminal, PushTerminal(i, terminal)
    PROVE  WakeInv'
<1> USE DEF PlaneInv, PlaneConsistent, WakeInv
<1>1. UNCHANGED <<mode, keyToId, backlog, accept>>
    BY DEF PushTerminal
<1>2. NoAcceptForgotten'
    BY <1>1, SameAccepts
<1>3. CASE streams[i].there
  <2>1. streams' = [streams EXCEPT ![i].queue = <<terminal>>, ![i].waiting = FALSE] /\ Poke(i)
      BY <1>3 DEF PushTerminal
  <2>2. \A j \in Ids \ {i} : streams'[j] = streams[j]
      BY <2>1, TypeParts
  <2>3. QED
      BY <1>1, <1>2, <2>1, <2>2, PokeWakes, ReaderStep
<1>4. CASE ~streams[i].there
  <2>1. reader' = NotifyReaders /\ UNCHANGED <<streams, waiter>>
      BY <1>4 DEF PushTerminal
  <2>2. QED
      BY <1>1, <1>2, <2>1, NotifyWakes
<1>5. QED
    BY <1>3, <1>4

\* A stream that goes leaves the others where they were.
LEMMA RemovedAlone ==
    ASSUME PlaneTypeOK, NEW i \in Ids, RemoveStream(i)
    PROVE  /\ \A j \in Ids \ {i} : streams'[j] = streams[j]
           /\ \A k \in Keys : backlog'[k] = backlog[k] \/ backlog'[k] = NoId
BY TypeParts DEF RemoveStream, Without

LEMMA DiscardByHostWakes ==
    ASSUME PlaneInv, WakeInv, NEW i \in Ids, DiscardByHost(i)
    PROVE  WakeInv'
<1> USE DEF PlaneInv, PlaneConsistent, WakeInv
<1>1. mode' = mode
    BY DEF DiscardByHost
<1>2. CASE streams[i].there
  <2>1. RemoveStream(i) /\ Poke(i) /\ accept' = NotifyAccepts
      BY <1>2 DEF DiscardByHost
  <2>2. NoReaderForgotten'
      BY <1>1, <2>1, RemovedAlone, PokeWakes, ReaderStep
  <2>3. NoAcceptForgotten'
      BY <2>1, NotifiedAccepts DEF NoAcceptForgotten
  <2>4. QED
      BY <2>2, <2>3
<1>3. CASE ~streams[i].there
  <2>1. UNCHANGED <<streams, keyToId, backlog, reader, waiter, accept>>
      BY <1>3 DEF DiscardByHost
  <2>2. QED
      BY <1>1, <2>1, SameReaders, SameAccepts
<1>4. QED
    BY <1>2, <1>3

LEMMA AcceptWakes ==
    ASSUME PlaneInv, WakeInv, NEW a \in Accepts,
           (\E k \in Keys : Accept(a, k)) \/ AcceptTimesOut(a)
    PROVE  WakeInv'
<1> USE DEF PlaneInv, PlaneConsistent, WakeInv
<1>1. UNCHANGED <<mode, streams, backlog, reader, waiter>>
    BY DEF Accept, AcceptTimesOut, planeVars
<1>2. \A b \in Accepts : accept'[b].st = "waiting" => accept'[b] = accept[b]
  <2>1. accept \in [Accepts -> AcceptRecords]
      BY TypeParts
  <2>2. CASE \E k \in Keys : Accept(a, k)
      BY <2>1, <2>2 DEF Accept
  <2>3. CASE AcceptTimesOut(a)
    <3> DEFINE s == IF mode = "poll" THEN "done"
                    ELSE IF accept[a].st = "waiting" THEN "lost" ELSE "lostPolling"
    <3>1. accept' = [accept EXCEPT ![a] = [accept[a] EXCEPT !.st = s]]
        BY <2>3 DEF AcceptTimesOut
    <3>2. s # "waiting"
        OBVIOUS
    <3> HIDE DEF s
    <3>3. accept[a] \in AcceptRecords
        BY <2>1
    <3>4. accept'[a].st # "waiting"
        BY <2>1, <3>1, <3>2, <3>3 DEF AcceptRecords
    <3>5. QED
        BY <2>1, <3>1, <3>4
  <2>4. QED
      BY <2>2, <2>3
<1>3. QED
    BY <1>1, <1>2, SameReaders, AcceptStep

LEMMA AcceptPollWakes ==
    ASSUME PlaneInv, WakeInv, NEW a \in Accepts, AcceptPoll(a)
    PROVE  WakeInv'
<1> USE DEF PlaneInv, PlaneConsistent, WakeInv
<1> DEFINE k == accept[a].key
           i == backlog[k]
<1>1. /\ accept[a].st \in {"polling", "lostPolling"}
      /\ UNCHANGED <<mode, streams, waiter>>
    BY DEF AcceptPoll
<1>2. accept \in [Accepts -> AcceptRecords] /\ reader \in [Ids -> ReaderStates]
    BY TypeParts
<1>3. accept[a] \in AcceptRecords /\ k \in Keys /\ i \in Ids \cup {NoId}
    BY <1>1, <1>2, TypeParts DEF AcceptRecords
<1>4. CASE /\ i # NoId
           /\ backlog' = Without(backlog, k)
           /\ accept' = [accept EXCEPT ![a].st = "done"]
           /\ reader' = [reader EXCEPT ![i] = IF accept[a].st = "polling" THEN "idle" ELSE "lost"]
  <2>1. i \in Ids
      BY <1>3, <1>4
  <2>2. OthersOnlyWoken(i) /\ reader'[i] # "waiting"
      BY <1>1, <1>2, <1>4, <2>1 DEF OthersOnlyWoken
  <2>3. NoReaderForgotten'
      BY <1>1, <2>1, <2>2, ReaderStep
  <2>4. accept'[a].st # "waiting" /\ \A b \in Accepts \ {a} : accept'[b] = accept[b]
      BY <1>2, <1>3, <1>4 DEF AcceptRecords
  <2>5. \A c \in Keys : backlog'[c] = backlog[c] \/ backlog'[c] = NoId
      BY <1>4, TypeParts DEF Without
  <2>6. QED
      BY <2>3, <2>4, <2>5, AcceptStep
<1>5. CASE /\ i = NoId /\ UNCHANGED <<backlog, reader>>
           /\ accept' = [accept EXCEPT ![a].st = IF @ = "polling" THEN "waiting" ELSE "lost"]
  <2>1. NoReaderForgotten'
      BY <1>1, <1>5, SameReaders
  <2>2. accept'[a].key = k /\ \A b \in Accepts \ {a} : accept'[b] = accept[b]
      BY <1>2, <1>3, <1>5 DEF AcceptRecords
  <2>3. NoAcceptForgotten'
      BY <1>5, <2>2 DEF NoAcceptForgotten
  <2>4. QED
      BY <2>1, <2>3
<1>6. QED
    BY <1>4, <1>5 DEF AcceptPoll

LEMMA ReadWakes ==
    ASSUME PlaneInv, WakeInv, NEW i \in Ids, Read(i)
    PROVE  WakeInv'
<1> USE DEF PlaneInv, PlaneConsistent, WakeInv
<1>1. /\ reader' = [reader EXCEPT ![i] = "reading"]
      /\ UNCHANGED <<mode, streams, backlog, accept, waiter>>
    BY DEF Read, planeVars
<1>2. OthersOnlyWoken(i) /\ reader'[i] # "waiting"
    BY <1>1, TypeParts DEF OthersOnlyWoken
<1>3. QED
    BY <1>1, <1>2, ReaderStep, SameAccepts

LEMMA ReadPollWakes ==
    ASSUME PlaneInv, WakeInv, NEW i \in Ids, ReadPoll(i)
    PROVE  WakeInv'
<1> USE DEF PlaneInv, PlaneConsistent, WakeInv
<1>0. /\ reader \in [Ids -> ReaderStates] /\ waiter \in [Ids -> BOOLEAN]
      /\ streams \in [Ids -> StreamRecords] /\ streams[i] \in StreamRecords
    BY TypeParts
<1>1. mode' = mode /\ accept' = accept
    BY DEF ReadPoll
<1>2. CASE /\ streams[i].there /\ streams[i].queue = <<>>
           /\ streams' = [streams EXCEPT ![i].waiting = TRUE]
           /\ waiter' = [waiter EXCEPT ![i] = (mode = "poll")]
           /\ reader' = [reader EXCEPT ![i] = "waiting"]
           /\ UNCHANGED <<keyToId, backlog, got>>
  <2>1. /\ streams'[i].there /\ streams'[i].queue = <<>> /\ streams'[i].waiting
        /\ waiter'[i] = (mode = "poll")
      BY <1>0, <1>2 DEF StreamRecords
  <2>2. HasToWait(i)'
      BY <1>1, <2>1 DEF HasToWait
  <2>3. OthersOnlyWoken(i)
      BY <1>0, <1>2 DEF OthersOnlyWoken
  <2>4. QED
      BY <1>1, <1>2, <2>2, <2>3, ReaderStep, SameAccepts
<1>3. CASE /\ streams' = [streams EXCEPT ![i].queue = Tail(@), ![i].waiting = FALSE]
           /\ reader' = [reader EXCEPT ![i] = "idle"]
           /\ UNCHANGED <<keyToId, backlog, waiter>>
  <2>1. OthersOnlyWoken(i) /\ reader'[i] # "waiting"
      BY <1>0, <1>3 DEF OthersOnlyWoken
  <2>2. QED
      BY <1>1, <1>3, <2>1, ReaderStep, SameAccepts
<1>4. CASE /\ RemoveStream(i) /\ reader' = [reader EXCEPT ![i] = "done"]
           /\ UNCHANGED waiter
  <2>1. OthersOnlyWoken(i) /\ reader'[i] # "waiting"
      BY <1>0, <1>4, RemovedAlone DEF OthersOnlyWoken
  <2>2. NoReaderForgotten'
      BY <1>1, <2>1, ReaderStep
  <2>3. NoAcceptForgotten'
      BY <1>1, <1>4, RemovedAlone, AcceptStep
  <2>4. QED
      BY <2>2, <2>3
<1>5. CASE /\ reader' = [reader EXCEPT ![i] = "done"]
           /\ UNCHANGED <<streams, keyToId, backlog, waiter, got>>
  <2>1. OthersOnlyWoken(i) /\ reader'[i] # "waiting"
      BY <1>0, <1>5 DEF OthersOnlyWoken
  <2>2. QED
      BY <1>1, <1>5, <2>1, ReaderStep, SameAccepts
<1>6. QED
    BY <1>2, <1>3, <1>4, <1>5 DEF ReadPoll

LEMMA CancelWakes ==
    ASSUME PlaneInv, WakeInv, NEW i \in Ids, Cancel(i)
    PROVE  WakeInv'
<1> USE DEF PlaneInv, PlaneConsistent, WakeInv
<1>0. /\ reader \in [Ids -> ReaderStates] /\ waiter \in [Ids -> BOOLEAN]
    BY TypeParts
<1>1. /\ mode' = mode /\ waiter' = [waiter EXCEPT ![i] = FALSE]
      /\ reader' = [(IF streams[i].there THEN NotifyReaders ELSE reader) EXCEPT ![i] = "done"]
    BY DEF Cancel
<1>2. /\ reader'[i] # "waiting"
      /\ \A j \in Ids \ {i} : /\ waiter'[j] = waiter[j]
                              /\ reader'[j] = "waiting" => reader[j] = "waiting"
    BY <1>0, <1>1 DEF NotifyReaders
<1>3. CASE streams[i].there
  <2>1. RemoveStream(i) /\ accept' = NotifyAccepts
      BY <1>3 DEF Cancel
  <2>2. OthersOnlyWoken(i)
    <3>1. \A j \in Ids \ {i} : streams'[j] = streams[j]
        BY <2>1, RemovedAlone
    <3>2. QED
        BY <1>2, <3>1 DEF OthersOnlyWoken
  <2>3. NoReaderForgotten'
      BY <1>1, <1>2, <2>2, ReaderStep
  <2>4. NoAcceptForgotten'
      BY <2>1, NotifiedAccepts DEF NoAcceptForgotten
  <2>5. QED
      BY <2>3, <2>4
<1>4. CASE ~streams[i].there
  <2>1. UNCHANGED <<streams, keyToId, backlog, accept>>
      BY <1>4 DEF Cancel
  <2>2. OthersOnlyWoken(i)
    <3>1. \A j \in Ids \ {i} : streams'[j] = streams[j]
        BY <2>1
    <3>2. QED
        BY <1>2, <3>1 DEF OthersOnlyWoken
  <2>3. QED
      BY <1>1, <1>2, <2>1, <2>2, ReaderStep, SameAccepts
<1>5. QED
    BY <1>3, <1>4

LEMMA WakeStep == PlaneInv /\ WakeInv /\ [Next]_vars => WakeInv'
<1> SUFFICES ASSUME PlaneInv, WakeInv, [Next]_vars PROVE WakeInv'
    OBVIOUS
<1>1. ASSUME Host PROVE WakeInv'
    BY <1>1, OpenWakes, PushChunksWakes, PushTerminalWakes, DiscardByHostWakes DEF Host
<1>2. ASSUME NEW a \in Accepts,
             (\E k \in Keys : Accept(a, k)) \/ AcceptPoll(a) \/ AcceptTimesOut(a)
      PROVE  WakeInv'
    BY <1>2, AcceptWakes, AcceptPollWakes
<1>3. ASSUME NEW i \in Ids, Read(i) \/ ReadPoll(i) \/ Cancel(i)
      PROVE  WakeInv'
    BY <1>3, ReadWakes, ReadPollWakes, CancelWakes
<1>4. CASE UNCHANGED vars
    BY <1>4, SameReaders, SameAccepts DEF vars, planeVars, WakeInv
<1>5. QED
    BY <1>1, <1>2, <1>3, <1>4 DEF Next

LEMMA WakeAlways == Spec => []WakeInv
BY InvInit, InvStep, WakeInit, WakeStep, PTL DEF Spec

(***************************************************************************)
(* No read() is left waiting while it has an event to return or its stream *)
(* is gone: a frame, a terminal, a discard by the host and a cancel of the *)
(* same stream all wake it in the step that changes what it would find.    *)
(***************************************************************************)
THEOREM ReadersWake == Spec => WaitingReaderWakes
<1>1. ASSUME NEW i \in Ids
      PROVE  []WakeInv =>
                (reader[i] = "waiting" /\ (streams[i].queue # <<>> \/ ~streams[i].there)
                    ~> reader[i] # "waiting")
  <2>1. WakeInv => ~(reader[i] = "waiting" /\ (streams[i].queue # <<>> \/ ~streams[i].there))
      BY DEF WakeInv, NoReaderForgotten, HasToWait
  <2>2. QED
      BY <2>1, PTL
<1>2. []WakeInv =>
        \A i \in Ids :
            reader[i] = "waiting" /\ (streams[i].queue # <<>> \/ ~streams[i].there)
                ~> reader[i] # "waiting"
    BY <1>1
<1>3. QED
    BY <1>2, WakeAlways, PTL DEF WaitingReaderWakes

(***************************************************************************)
(* No accept() is left waiting while the backlog holds a stream of its key:*)
(* the open that fills the backlog wakes every call that waits.            *)
(***************************************************************************)
THEOREM AcceptsWake == Spec => WaitingAcceptWakes
<1>1. ASSUME NEW a \in Accepts
      PROVE  []WakeInv =>
                (accept[a].st = "waiting" /\ backlog[accept[a].key] # NoId
                    ~> accept[a].st # "waiting")
  <2>1. WakeInv => ~(accept[a].st = "waiting" /\ backlog[accept[a].key] # NoId)
      BY DEF WakeInv, NoAcceptForgotten
  <2>2. QED
      BY <2>1, PTL
<1>2. []WakeInv =>
        \A a \in Accepts :
            accept[a].st = "waiting" /\ backlog[accept[a].key] # NoId
                ~> accept[a].st # "waiting"
    BY <1>1
<1>3. QED
    BY <1>2, WakeAlways, PTL DEF WaitingAcceptWakes
=============================================================================
