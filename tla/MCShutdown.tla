----------------------------- MODULE MCShutdown -----------------------------
(* Instances of Shutdown for TLC. *)
EXTENDS Shutdown

CONSTANTS c1, c2, c3
=============================================================================
