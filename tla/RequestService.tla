--------------------------- MODULE RequestService ---------------------------
(***************************************************************************)
(* What a caller of uproto_send_request is promised (uproto.h): a request  *)
(* is refused at once or accepted; an accepted one ends once, with OK only *)
(* after the peer answered it, or with a timeout; its outcome never        *)
(* changes again.  Nothing here knows of slots, ids, retries or clocks.    *)
(***************************************************************************)
CONSTANT Requests

VARIABLES result, answered

svars == <<result, answered>>

Init ==
  /\ result = [r \in Requests |-> "NONE"]
  /\ answered = {}

Issue(r) ==
  /\ result[r] = "NONE"
  /\ \E o \in {"WAITING", "TX_FULL"} : result' = [result EXCEPT ![r] = o]
  /\ UNCHANGED answered

(* The peer answers an accepted request, possibly after it timed out.      *)
Answer(r) ==
  /\ result[r] \in {"WAITING", "OK", "TIMEOUT"}
  /\ answered' = answered \cup {r}
  /\ UNCHANGED result

Finish(r) ==
  /\ result[r] = "WAITING"
  /\ \/ r \in answered /\ result' = [result EXCEPT ![r] = "OK"]
     \/ result' = [result EXCEPT ![r] = "TIMEOUT"]
  /\ UNCHANGED answered

Next == \E r \in Requests : Issue(r) \/ Answer(r) \/ Finish(r)

Spec == Init /\ [][Next]_svars
=============================================================================
