---------------------------- MODULE MCTotalCache ----------------------------
(* TotalCache for TLC.  Two goroutines report three bytes, one at a time,   *)
(* in either direction; with a threshold of one, bytes arrive before,       *)
(* during and after a sync, and one restart may come at any step.           *)
EXTENDS TotalCache

CONSTANTS a1, a2

MCAdders == {a1, a2}
MCChunks == {1}
=============================================================================
