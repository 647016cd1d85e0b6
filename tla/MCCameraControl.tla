--------------------------- MODULE MCCameraControl ---------------------------
(* CameraControl on small instances.                                       *)
EXTENDS CameraControl
=============================================================================
