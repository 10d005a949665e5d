----------------------------- MODULE MCSupervisor ----------------------------
(* Instances of Supervisor for TLC.                                        *)
EXTENDS Supervisor

MCSerials == <<"gimbal", "ttyACM0">>

=============================================================================
