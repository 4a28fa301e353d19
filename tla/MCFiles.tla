------------------------------ MODULE MCFiles -------------------------------
(***************************************************************************)
(* A process with two threads, of which one opens, closes, duplicates,     *)
(* unmaps and clones while the other works on the same descriptors, maps   *)
(* them and closes them, and a child with one thread, which truncates and  *)
(* redirects what it has inherited and exits, again and again.             *)
(***************************************************************************)
EXTENDS Files

MCThreads == {"a", "b", "c"}
MCProcOf == [t \in MCThreads |-> IF t = "c" THEN 2 ELSE 1]
MCCalls ==
  [t \in MCThreads |->
     CASE t = "a" -> {"open", "close", "dup", "munmap", "clone"}
       [] t = "b" -> {"use", "close", "mmap"}
       [] OTHER -> {"truncate", "redirect", "exit"}]
=============================================================================
