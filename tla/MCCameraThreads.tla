--------------------------- MODULE MCCameraThreads ---------------------------
(* Instances of CameraThreads for TLC.                                     *)
EXTENDS CameraThreads
=============================================================================
