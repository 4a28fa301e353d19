------------------------------ MODULE MCSched ------------------------------
(* Small instances of Sched for TLC. *)
EXTENDS Sched, TLC

CONSTANTS t1, t2, t3, c1, c2

Symmetry == Permutations(Threads \ {InitThread})
=============================================================================
