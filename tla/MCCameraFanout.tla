--------------------------- MODULE MCCameraFanout ---------------------------
(* Checking CameraFanout with TLC; the viewers are model values. *)
EXTENDS CameraFanout
=============================================================================
