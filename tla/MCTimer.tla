------------------------------ MODULE MCTimer ------------------------------
(***************************************************************************)
(* Two threads, two CPUs and ticks of 5 ms; sleeps and alarms of exactly   *)
(* one tick and of more than one.  Three listeners, so that they           *)
(* run out.                                                                *)
(***************************************************************************)
EXTENDS Timer, TLC

MCDurations == {5, 7}
=============================================================================
