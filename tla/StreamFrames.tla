---------------------------- MODULE StreamFrames ----------------------------
(***************************************************************************)
(* The frames of the stream protocol (stream-envelope.ts, StreamFrame in   *)
(* worker.ts), the marks both sides keep per stream, and the counting of   *)
(* bytes over sequences of frames.                                         *)
(*                                                                         *)
(* A frame is a record [t, id, bytes].  For a chunk, id is the position of *)
(* its write among all writes and bytes its length; for a credit frame     *)
(* bytes is the credit; both are 0 in every other frame.                   *)
(***************************************************************************)
EXTENDS Integers, Sequences, FiniteSets

\* JavaScript's Math.max(0, x).
Max0(x) == IF x > 0 THEN x ELSE 0

Chunk(id, n) == [t |-> "chunk", id |-> id, bytes |-> n]
Credit(n) == [t |-> "credit", id |-> 0, bytes |-> n]
Control(kind) == [t |-> kind, id |-> 0, bytes |-> 0]

\* The bytes carried by all frames of s together.
Bytes(s) ==
    LET upTo[n \in 0 .. Len(s)] == IF n = 0 THEN 0 ELSE upTo[n - 1] + s[n].bytes
    IN  upTo[Len(s)]

\* The elements of s at the positions in I, in their order.
At(s, I) ==
    LET upTo[n \in 0 .. Len(s)] ==
            IF n = 0 THEN <<>>
            ELSE IF n \in I THEN Append(upTo[n - 1], s[n]) ELSE upTo[n - 1]
    IN  upTo[Len(s)]

(***************************************************************************)
(* The entry of a stream in streamById (worker.ts) or __nodeStreamById     *)
(* (bootstrap.js): which side has discarded the stream.  tryReleaseStream  *)
(* deletes the entry once both have.  The deleted entry is represented by  *)
(* both marks being set, for a missing entry is left alone by every step   *)
(* that a marked one is.                                                   *)
(***************************************************************************)
Metas == [local : BOOLEAN, remote : BOOLEAN]
Fresh == [local |-> FALSE, remote |-> FALSE]
Gone == [local |-> TRUE, remote |-> TRUE]
Released(meta) == meta = Gone

\* markLocalDiscard and markRemoteDiscard.
MarkLocal(meta) == [meta EXCEPT !.local = TRUE]
MarkRemote(meta) == [meta EXCEPT !.remote = TRUE]
=============================================================================
