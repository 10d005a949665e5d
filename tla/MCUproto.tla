------------------------------ MODULE MCUproto ------------------------------
(* Instances of Uproto for TLC. *)
EXTENDS Uproto
=============================================================================
