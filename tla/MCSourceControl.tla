-------------------------- MODULE MCSourceControl --------------------------
(* SourceControl for TLC.  A queue of one is full with the second packet;   *)
(* a queue of two can hold a packet that left no token.  Two sockets let a  *)
(* new read loop overlap the end of the old one.                            *)
EXTENDS SourceControl, TLC

CONSTANTS p1, p2

MCPkts == {p1, p2}
MCSymmetry == Permutations(Pkts)
=============================================================================
