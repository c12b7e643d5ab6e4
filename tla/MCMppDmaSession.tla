--------------------------- MODULE MCMppDmaSession ---------------------------
(* Two tasks that share a file descriptor.                                   *)
EXTENDS MppDmaSession, TLC

CONSTANTS t1, t2, fa, fb, p1, p2, b1, b2, b3
MCUses == [t \in Tasks |-> IF t = t1 THEN {fa} ELSE {fa, fb}]
Symmetry == Permutations(Buffers)
=============================================================================
