---------------------------- MODULE MCPrintQueue ----------------------------
(* Model values for checking PrintQueue with TLC. *)
EXTENDS PrintQueue, TLC

PrinterSymmetry == Permutations(Printers)
=============================================================================
