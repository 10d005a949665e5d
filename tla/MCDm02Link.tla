----------------------------- MODULE MCDm02Link ------------------------------
(* Instances of Dm02Link for TLC.                                          *)
EXTENDS Dm02Link
=============================================================================
