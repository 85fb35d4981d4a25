------------------------------ MODULE MCAdmin ------------------------------
(* Instances of Admin for TLC. *)
EXTENDS Admin

CONSTANTS s1, s2, s3, s4

MCSids   == {s1, s2, s3, s4}
\* None, a page of one row, one of two, and more than the most.
MCLimits == {0, 1, 5}
=============================================================================
