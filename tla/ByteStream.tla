----------------------------- MODULE ByteStream -----------------------------
(***************************************************************************)
(* What a byte stream promises its two applications, whichever way it runs *)
(* (DenoWorkerStreamWriter and DenoWorkerStreamReader in types.ts): the    *)
(* chunks that were written are read in the order they were written, none  *)
(* missing and none twice; the reader sees a clean end only after it has   *)
(* read everything; once it has seen the end it reads nothing more.  The   *)
(* lanes HostLane and WorkerLane implement it.                             *)
(***************************************************************************)
EXTENDS Naturals, Sequences

CONSTANT ChunkId

VARIABLES
    sent,    \* the chunks the writer handed over
    ended,   \* "no", or how the writer ended the stream
    got,     \* the chunks the reader has read
    seen     \* "no", or what the reader has seen of the end

vars == <<sent, ended, got, seen>>

TypeOK ==
    /\ sent \in Seq(ChunkId)
    /\ ended \in {"no", "close", "error"}
    /\ got \in Seq(ChunkId)
    /\ seen \in {"no", "eof", "failed"}

Init ==
    /\ sent = <<>>
    /\ ended = "no"
    /\ got = <<>>
    /\ seen = "no"

\* A write goes through.
Send(id) ==
    /\ ended = "no"
    /\ sent' = Append(sent, id)
    /\ UNCHANGED <<ended, got, seen>>

\* A writeMany hands several chunks over at once.
SendMany(ids) ==
    /\ ended = "no"
    /\ sent' = sent \o ids
    /\ UNCHANGED <<ended, got, seen>>

\* close(), or error() and cancel().
End(how) ==
    /\ ended = "no"
    /\ ended' = how
    /\ UNCHANGED <<sent, got, seen>>

Get ==
    /\ seen = "no"
    /\ Len(got) < Len(sent)
    /\ got' = Append(got, sent[Len(got) + 1])
    /\ UNCHANGED <<sent, ended, seen>>

SeeEnd ==
    /\ seen = "no"
    /\ ended # "no"
    /\ got = sent
    /\ seen' = IF ended = "close" THEN "eof" ELSE "failed"
    /\ UNCHANGED <<sent, ended, got>>

Next ==
    \/ \E id \in ChunkId : Send(id)
    \/ \E m, n \in ChunkId : m <= n /\ SendMany([i \in 1 .. n - m + 1 |-> m + i - 1])
    \/ \E how \in {"close", "error"} : End(how)
    \/ Get
    \/ SeeEnd

Spec == Init /\ [][Next]_vars
=============================================================================
