----------------------------- MODULE MCChannel -----------------------------
(* IPC with model values for the clients and the driver. *)
EXTENDS Channel, TLC

CONSTANTS a, b
=============================================================================
