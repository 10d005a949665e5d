--------------------------- MODULE MCCameraChannel --------------------------
(* Instances of CameraChannel for TLC: the camera has the lowest priority. *)
EXTENDS CameraChannel

MCPriority == [c \in ChannelIds |-> IF c = Cam THEN 0 ELSE 1]
=============================================================================
