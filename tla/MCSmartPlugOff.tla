--------------------------- MODULE MCSmartPlugOff ---------------------------
(* Checking SmartPlugOff with TLC; the constants are numbers. *)
EXTENDS SmartPlugOff
=============================================================================
