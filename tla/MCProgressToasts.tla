-------------------------- MODULE MCProgressToasts --------------------------
(* Checking ProgressToasts with TLC. *)
EXTENDS ProgressToasts
CONSTANTS j1, j2, s1, s2
=============================================================================
