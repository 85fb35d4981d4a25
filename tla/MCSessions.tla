----------------------------- MODULE MCSessions -----------------------------
(* Instances of Sessions for TLC. *)
EXTENDS SessionRefinement

CONSTANTS c1, c2, u1, u2

=============================================================================
