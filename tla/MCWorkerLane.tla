--------------------------- MODULE MCWorkerLane ---------------------------
(***************************************************************************)
(* WorkerLane on small instances.                                          *)
(***************************************************************************)
EXTENDS WorkerLane

\* writeMany calls of one, of two and of three chunks.
MCBatches == {<<1>>, <<2, 1>>, <<1, 1, 1>>}
NoBatches == {}
=============================================================================
