---------------------------- MODULE MCSemaphore ----------------------------
(* The semaphore with model values for the threads. *)
EXTENDS Semaphore, TLC

CONSTANTS t1, t2, t3

Symmetry == Permutations(Threads)
=============================================================================
