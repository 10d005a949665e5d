----------------------------- MODULE MCUprotoRx ------------------------------
(* Instances of UprotoRx for TLC.                                          *)
EXTENDS UprotoRx
=============================================================================
