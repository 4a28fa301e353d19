------------------------------ MODULE MCMutex ------------------------------
(* The mutex with model values for the threads. *)
EXTENDS Mutex, TLC

CONSTANTS t1, t2, t3

Symmetry == Permutations(Threads)
=============================================================================
