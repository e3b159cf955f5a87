------------------------- MODULE NativeStreamPlane -------------------------
(***************************************************************************)
(* The native incoming plane of a worker: the stream frames of the host are *)
(* kept on the Rust side, per stream, and the worker's code takes them with *)
(* ops, either asynchronous ones that wait on a Notify or a polling op with *)
(* a waiter that the next frame pokes.                                      *)
(***************************************************************************)
EXTENDS Naturals, Sequences, FiniteSets

CONSTANTS
    Ids,        \* streams of the host
    Keys,       \* stream keys
    Accepts,    \* hostStreams.accept() calls of the worker
    MaxChunks,  \* bound: chunks written to one stream
    Modes       \* how the worker reads: "async", "poll"

ASSUME BoundIsNatural == MaxChunks \in Nat

VARIABLES
    mode,       \* of this worker
    host,       \* what the host has sent for each stream
    streams,    \* streams: is it there, its queue, is a reader waiting
    keyToId, backlog,   \* key_to_id, backlog
    pending,    \* pending_by_id
    accept,     \* the accept() calls
    reader,     \* the accepted readers, one per stream
    waiter,     \* __nodeNativeStreamReadWaiters
    got         \* history: what each reader has returned

planeVars == <<streams, keyToId, backlog, pending>>
vars == <<mode, host, planeVars, accept, reader, waiter, got>>

NoId     == 0
Close    == MaxChunks + 1   \* a chunk is its number
Error    == MaxChunks + 2
NoStream == [there |-> FALSE, key |-> NoId, queue |-> <<>>, waiting |-> FALSE]

\* The bootstrap awaits the asynchronous ops where it finds them, and else polls.
ASSUME WaysOfReading == Modes \subseteq {"async", "poll"}

\* NoId stands for None: it is neither a stream nor a key.
ASSUME NoIdIsNone == NoId \notin Ids \cup Keys

Init ==
    /\ mode \in Modes
    /\ host = [i \in Ids |-> [st |-> "new", key |-> NoId, sent |-> 0]]
    /\ streams = [i \in Ids |-> NoStream]
    /\ keyToId = [k \in Keys |-> NoId] /\ backlog = [k \in Keys |-> NoId]
    /\ pending = [i \in Ids |-> <<>>]
    /\ accept = [a \in Accepts |-> [st |-> "none", key |-> NoId]]
    /\ reader = [i \in Ids |-> "none"]
    /\ waiter = [i \in Ids |-> FALSE]
    /\ got = [i \in Ids |-> <<>>]

-----------------------------------------------------------------------------
\* notify_waiters() of the two Notifys: every op that waits polls again.
NotifyReaders == [i \in Ids |-> IF mode = "async" /\ reader[i] = "waiting" THEN "reading" ELSE reader[i]]
NotifyAccepts ==
    [a \in Accepts |-> [accept[a] EXCEPT !.st =
        CASE @ = "waiting" -> "polling" [] @ = "lost" -> "lostPolling" [] OTHER -> @]]

\* A poke wakes the reader that left a waiter, when the plane saw one waiting.
Poke(i) ==
    IF mode = "poll" /\ streams[i].waiting /\ waiter[i]
    THEN /\ waiter' = [waiter EXCEPT ![i] = FALSE]
         /\ reader' = [reader EXCEPT ![i] = IF @ = "waiting" THEN "reading" ELSE @]
    ELSE /\ UNCHANGED waiter
         /\ reader' = NotifyReaders

\* Mutant of Enqueue: the readers are not told.
EnqueueSilently(i, events) ==
    /\ IF streams[i].there
       THEN /\ streams' = [streams EXCEPT ![i].queue = @ \o events, ![i].waiting = FALSE]
            /\ UNCHANGED pending
       ELSE /\ pending' = [pending EXCEPT ![i] = @ \o events]
            /\ UNCHANGED streams
    /\ UNCHANGED <<reader, waiter>>

\* Mutant of Enqueue: the events are put in front.
EnqueueInFront(i, events) ==
    IF streams[i].there
    THEN /\ streams' = [streams EXCEPT ![i].queue = events \o @, ![i].waiting = FALSE]
         /\ Poke(i)
         /\ UNCHANGED pending
    ELSE /\ pending' = [pending EXCEPT ![i] = events \o @]
         /\ reader' = NotifyReaders
         /\ UNCHANGED <<streams, waiter>>

Enqueue(i, events) ==
    IF streams[i].there
    THEN /\ streams' = [streams EXCEPT ![i].queue = @ \o events, ![i].waiting = FALSE]
         /\ Poke(i)
         /\ UNCHANGED pending
    ELSE /\ pending' = [pending EXCEPT ![i] = @ \o events]
         /\ reader' = NotifyReaders
         /\ UNCHANGED <<streams, waiter>>

Without(table, k) == [table EXCEPT ![k] = NoId]

\* Mutant of RemoveStream: the key stays taken.
RemoveStreamKeepKey(i) ==
    /\ streams' = [streams EXCEPT ![i] = NoStream]
    /\ backlog' = Without(backlog, streams[i].key)
    /\ UNCHANGED keyToId

RemoveStream(i) ==
    /\ streams' = [streams EXCEPT ![i] = NoStream]
    /\ keyToId' = Without(keyToId, streams[i].key)
    /\ backlog' = Without(backlog, streams[i].key)

-----------------------------------------------------------------------------
(***************************************************************************)
(* Frames of the host, handled by the worker thread one at a time.  The host*)
(* gives a key to a new stream once its own stream of that key has ended.   *)
(***************************************************************************)
Writing(i) == host[i].st = "open"

\* Mutant of Open: accept() is not told.
OpenSilently(i, k) ==
    /\ host[i].st = "new"
    /\ \A j \in Ids : Writing(j) => host[j].key # k
    /\ host' = [host EXCEPT ![i] = [st |-> "open", key |-> k, sent |-> 0]]
    /\ \/ /\ keyToId[k] = NoId /\ backlog[k] = NoId
          /\ streams' = [streams EXCEPT ![i] =
                            [there |-> TRUE, key |-> k, queue |-> pending[i], waiting |-> FALSE]]
          /\ pending' = [pending EXCEPT ![i] = <<>>]
          /\ keyToId' = [keyToId EXCEPT ![k] = i]
          /\ backlog' = [backlog EXCEPT ![k] = i]
       \/ /\ keyToId[k] # NoId \/ backlog[k] # NoId
          /\ UNCHANGED planeVars
    /\ UNCHANGED <<mode, accept, reader, waiter, got>>

\* A second stream of a key, or a second open of a stream, answers true and
\* creates nothing.
Open(i, k) ==
    /\ host[i].st = "new"
    /\ \A j \in Ids : Writing(j) => host[j].key # k
    /\ host' = [host EXCEPT ![i] = [st |-> "open", key |-> k, sent |-> 0]]
    /\ \/ /\ keyToId[k] = NoId /\ backlog[k] = NoId
          /\ streams' = [streams EXCEPT ![i] =
                            [there |-> TRUE, key |-> k, queue |-> pending[i], waiting |-> FALSE]]
          /\ pending' = [pending EXCEPT ![i] = <<>>]
          /\ keyToId' = [keyToId EXCEPT ![k] = i]
          /\ backlog' = [backlog EXCEPT ![k] = i]
          /\ accept' = NotifyAccepts
       \/ /\ keyToId[k] # NoId \/ backlog[k] # NoId
          /\ UNCHANGED <<planeVars, accept>>
    /\ UNCHANGED <<mode, reader, waiter, got>>

\* One chunk, or several in one vectorized frame.
PushChunks(i, n) ==
    /\ Writing(i) /\ host[i].sent + n <= MaxChunks
    /\ host' = [host EXCEPT ![i].sent = @ + n]
    /\ Enqueue(i, [j \in 1..n |-> host[i].sent + j])
    /\ UNCHANGED <<mode, keyToId, backlog, accept, got>>

\* push_terminal_with_wake: whatever is queued gives way to the terminal.
PushTerminal(i, terminal) ==
    /\ Writing(i)
    /\ host' = [host EXCEPT ![i].st = "ended"]
    /\ IF streams[i].there
       THEN /\ streams' = [streams EXCEPT ![i].queue = <<terminal>>, ![i].waiting = FALSE]
            /\ Poke(i)
            /\ UNCHANGED pending
       ELSE /\ pending' = [pending EXCEPT ![i] = <<terminal>>]
            /\ reader' = NotifyReaders
            /\ UNCHANGED <<streams, waiter>>
    /\ UNCHANGED <<mode, keyToId, backlog, accept, got>>

\* The host lets go of a stream it has ended.
DiscardByHost(i) ==
    /\ host[i].st = "ended"
    /\ host' = [host EXCEPT ![i].st = "gone"]
    /\ pending' = [pending EXCEPT ![i] = <<>>]
    /\ IF streams[i].there
       THEN /\ RemoveStream(i)
            /\ Poke(i)
            /\ accept' = NotifyAccepts
       ELSE UNCHANGED <<streams, keyToId, backlog, reader, waiter, accept>>
    /\ UNCHANGED <<mode, got>>

-----------------------------------------------------------------------------
(***************************************************************************)
(* The worker's code.                                                      *)
(***************************************************************************)
Accept(a, k) ==
    /\ accept[a].st = "none"
    /\ accept' = [accept EXCEPT ![a] = [st |-> "polling", key |-> k]]
    /\ UNCHANGED <<mode, host, planeVars, reader, waiter, got>>

\* accept_poll: the backlog entry of the key is taken; the op of an accept()
\* that timed out goes on and takes it as well.
AcceptPoll(a) ==
    /\ accept[a].st \in {"polling", "lostPolling"}
    /\ LET k == accept[a].key
           i == backlog[k]
       IN \/ /\ i # NoId
             /\ backlog' = Without(backlog, k)
             /\ accept' = [accept EXCEPT ![a].st = "done"]
             /\ reader' = [reader EXCEPT ![i] = IF accept[a].st = "polling" THEN "idle" ELSE "lost"]
          \/ /\ i = NoId /\ mode = "async"
             /\ accept' = [accept EXCEPT ![a].st = IF @ = "polling" THEN "waiting" ELSE "lost"]
             /\ UNCHANGED <<backlog, reader>>
    /\ UNCHANGED <<mode, host, streams, keyToId, pending, waiter, got>>

AcceptTimesOut(a) ==
    /\ accept[a].st \in {"polling", "waiting"}
    /\ accept' = [accept EXCEPT ![a].st =
                    IF mode = "poll" THEN "done" ELSE IF @ = "waiting" THEN "lost" ELSE "lostPolling"]
    /\ UNCHANGED <<mode, host, planeVars, reader, waiter, got>>

Read(i) ==
    /\ reader[i] = "idle"
    /\ reader' = [reader EXCEPT ![i] = "reading"]
    /\ UNCHANGED <<mode, host, planeVars, accept, waiter, got>>

\* read_poll_event, and what the reader of the bootstrap makes of it.
ReadPoll(i) ==
    /\ reader[i] = "reading"
    /\ \/ /\ streams[i].there /\ streams[i].queue = <<>>
          /\ streams' = [streams EXCEPT ![i].waiting = TRUE]
          /\ waiter' = [waiter EXCEPT ![i] = (mode = "poll")]
          /\ reader' = [reader EXCEPT ![i] = "waiting"]
          /\ UNCHANGED <<keyToId, backlog, got>>
       \/ /\ streams[i].there /\ streams[i].queue # <<>>
          /\ Head(streams[i].queue) \notin {Close, Error}
          /\ streams' = [streams EXCEPT ![i].queue = Tail(@), ![i].waiting = FALSE]
          /\ got' = [got EXCEPT ![i] = Append(@, Head(streams[i].queue))]
          /\ reader' = [reader EXCEPT ![i] = "idle"]
          /\ UNCHANGED <<keyToId, backlog, waiter>>
       \/ /\ streams[i].there /\ streams[i].queue # <<>>
          /\ Head(streams[i].queue) \in {Close, Error}
          /\ RemoveStream(i)
          /\ got' = [got EXCEPT ![i] = Append(@, Head(streams[i].queue))]
          /\ reader' = [reader EXCEPT ![i] = "done"]
          /\ UNCHANGED waiter
       \/ /\ ~streams[i].there
          /\ reader' = [reader EXCEPT ![i] = "done"]
          /\ UNCHANGED <<streams, keyToId, backlog, waiter, got>>
    /\ UNCHANGED <<mode, host, pending, accept>>

\* cancel() ends a read() that waits, and discards the stream.
Cancel(i) ==
    /\ reader[i] \in {"idle", "reading", "waiting"}
    /\ reader' = [(IF streams[i].there THEN NotifyReaders ELSE reader) EXCEPT ![i] = "done"]
    /\ waiter' = [waiter EXCEPT ![i] = FALSE]
    /\ pending' = [pending EXCEPT ![i] = <<>>]
    /\ IF streams[i].there
       THEN /\ RemoveStream(i)
            /\ accept' = NotifyAccepts
       ELSE UNCHANGED <<streams, keyToId, backlog, accept>>
    /\ UNCHANGED <<mode, host, got>>

-----------------------------------------------------------------------------
Host ==
    \E i \in Ids :
        \/ \E k \in Keys : Open(i, k)
        \/ \E n \in 1..2 : PushChunks(i, n)
        \/ \E terminal \in {Close, Error} : PushTerminal(i, terminal)
        \/ DiscardByHost(i)

Next ==
    \/ Host
    \/ \E a \in Accepts : (\E k \in Keys : Accept(a, k)) \/ AcceptPoll(a) \/ AcceptTimesOut(a)
    \/ \E i \in Ids : Read(i) \/ ReadPoll(i) \/ Cancel(i)

\* The event loop of the worker polls the ops that are ready.  Nobody has to
\* write, read, accept or cancel.
Spec == /\ Init /\ [][Next]_vars
        /\ \A a \in Accepts : WF_vars(AcceptPoll(a))
        /\ \A i \in Ids : WF_vars(ReadPoll(i))

-----------------------------------------------------------------------------
Events == 1..Error

\* Every variable has its type; a stream that is there has a key and keeps its
\* events in its own queue, one that is not there keeps nothing.
PlaneTypeOK ==
    /\ mode \in Modes
    /\ host \in [Ids -> [st : {"new", "open", "ended", "gone"}, key : Keys \cup {NoId},
                         sent : 0..MaxChunks]]
    /\ streams \in [Ids -> [there : BOOLEAN, key : Keys \cup {NoId}, queue : Seq(Events),
                            waiting : BOOLEAN]]
    /\ \A i \in Ids : IF streams[i].there THEN streams[i].key # NoId /\ pending[i] = <<>>
                                         ELSE streams[i] = NoStream
    /\ keyToId \in [Keys -> Ids \cup {NoId}] /\ backlog \in [Keys -> Ids \cup {NoId}]
    /\ pending \in [Ids -> Seq(Events)]
    /\ accept \in [Accepts ->
                      [st : {"none"}, key : {NoId}] \cup
                      [st : {"polling", "waiting", "lost", "lostPolling", "done"}, key : Keys]]
    /\ reader \in [Ids -> {"none", "idle", "reading", "waiting", "done", "lost"}]
    /\ waiter \in [Ids -> BOOLEAN]
    /\ got \in [Ids -> Seq(Events)]

\* The three tables agree through every order of open, accept, end, discard and
\* cancel: a key names the one stream that carries it, and only a stream that
\* nobody has accepted is in the backlog.
TablesAgree ==
    /\ \A i \in Ids : streams[i].there => keyToId[streams[i].key] = i
    /\ \A k \in Keys :
        /\ keyToId[k] # NoId => streams[keyToId[k]].there /\ streams[keyToId[k]].key = k
        /\ backlog[k] # NoId => backlog[k] = keyToId[k] /\ reader[backlog[k]] = "none"

\* Every variable has its type, and the tables agree.
PlaneConsistent == PlaneTypeOK /\ TablesAgree

\* A reader returns the chunks of its stream in the order they were written,
\* none skipped and none twice, and at most one end, which is the last.
ReadsAreAPrefix ==
    \A i \in Ids : \A n \in DOMAIN got[i] :
        got[i][n] = n \/ (got[i][n] \in {Close, Error} /\ n = Len(got[i]))

\* No wakeup is lost: a read() that waits goes on when a frame for it is there,
\* or when its stream has been discarded.
WaitingReaderWakes ==
    \A i \in Ids :
        reader[i] = "waiting" /\ (streams[i].queue # <<>> \/ ~streams[i].there)
            ~> reader[i] # "waiting"

\* An accept() that waits gets the stream that is opened under its key, unless
\* another call, of this key or timed out, took it.
WaitingAcceptWakes ==
    \A a \in Accepts :
        accept[a].st = "waiting" /\ backlog[accept[a].key] # NoId ~> accept[a].st # "waiting"

\* "Gracefully close the stream": a reader that sees the stream close has been
\* given every chunk that was written.
CloseLosesNothing ==
    \A i \in Ids : \A n \in DOMAIN got[i] : got[i][n] = Close => n = host[i].sent + 1
=============================================================================
