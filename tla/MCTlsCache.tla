----------------------------- MODULE MCTlsCache -----------------------------
(* Instances of TlsCache for TLC. *)
EXTENDS TlsCache
=============================================================================
