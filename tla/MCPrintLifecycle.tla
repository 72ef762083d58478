------------------------- MODULE MCPrintLifecycle ---------------------------
(* Model values for checking PrintLifecycle with TLC. *)
EXTENDS PrintLifecycle, TLC

FileSymmetry == Permutations(Files)
=============================================================================
