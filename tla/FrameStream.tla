----------------------------- MODULE FrameStream ------------------------------
(***************************************************************************)
(* What the stages that hand frames on promise each other: frames arrive   *)
(* in the order they were taken and none arrives twice.  Frames may be     *)
(* dropped; which ones, and when the others arrive, is left open.          *)
(***************************************************************************)
EXTENDS Naturals, Sequences

VARIABLES
  captured,   \* the number of the frame taken last
  received    \* the numbers of the frames handed over

Init == captured = 0 /\ received = <<>>

Capture == captured' = captured + 1 /\ UNCHANGED received

Last == IF received = <<>> THEN 0 ELSE received[Len(received)]

Deliver ==
  /\ \E f \in (Last + 1)..captured : received' = Append(received, f)
  /\ UNCHANGED captured

Spec == Init /\ [][Capture \/ Deliver]_<<captured, received>>
=============================================================================
