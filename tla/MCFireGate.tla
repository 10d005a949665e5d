----------------------------- MODULE MCFireGate ------------------------------
(* Instances of FireGate for TLC: io::Dm02 with every delay, the sentry    *)
(* with a slow main loop and everything else within the tick.              *)
EXTENDS FireGate

MCTiming ==
  [Dm02   |-> [stale |-> 2, slot |-> 1, line |-> 1, app |-> 1, worker |-> 0, end |-> 17],
   sentry |-> [stale |-> 1, slot |-> 0, line |-> 0, app |-> 1, worker |-> 0, end |-> 13]]
=============================================================================
