------------------------------ MODULE MCDns01 ------------------------------
(* Instances of Dns01 for TLC. *)
EXTENDS Dns01

CONSTANTS a, b

\* As many names as the record keeps values, and one more.
MCNames   == {a, b}
MCConfigs == {{a}, {b}, {a, b}}
=============================================================================
