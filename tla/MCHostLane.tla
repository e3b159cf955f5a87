---------------------------- MODULE MCHostLane ----------------------------
(***************************************************************************)
(* HostLane on small instances.                                            *)
(***************************************************************************)
EXTENDS HostLane

\* writeMany calls of one and of two chunks.
MCBatches == {<<1>>, <<2, 1>>}

\* A writeMany call larger than the window of HostLane_live, so that its chunks
\* always go one by one.
LongBatches == {<<2, 1>>}
=============================================================================
