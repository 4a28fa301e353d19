----------------------------- MODULE MCProcLife -----------------------------
(***************************************************************************)
(* Process 0, and two process ids that are used again and again: process 1 *)
(* has up to two threads, which start each other and wait for children     *)
(* (any one and process 2), and of which the first clones and the other    *)
(* joins; process 2 has one thread, which clones.                          *)
(* Every thread ends itself at some time or gets a signal.                 *)
(***************************************************************************)
EXTENDS ProcLife

MCProcs == 0..2
MCThreads == {10, 20, 21, 30}
MCProcOf == [t \in MCThreads |-> (t \div 10) - 1]
MCMain == [p \in MCProcs |-> 10 * (p + 1)]
MCCalls ==
  [t \in MCThreads |->
     CASE t = 10 -> {"clone", "waitChild"}
       [] t = 20 -> {"clone", "startThread", "waitChild"}
       [] t = 21 -> {"startThread", "waitChild", "join"}
       [] t = 30 -> {"clone"}]
MCAwaited == [t \in MCThreads |-> IF t = 21 THEN {2} ELSE {Any}]
=============================================================================
