--------------------------- MODULE MCLiveUpdates ---------------------------
(* Checking LiveUpdates with TLC; the constants are numbers. *)
EXTENDS LiveUpdates
=============================================================================
