------------------------------ MODULE Supervisor -----------------------------
(***************************************************************************)
(* spv_supervisor.sh, run by systemd: it waits until everything the vision *)
(* program needs is there, starts its container, waits for the container   *)
(* to end and starts over; failures are reported over UDP.  Things may     *)
(* come and go between any two steps, the container may end or be removed  *)
(* by others, and the supervisor itself may be ended or killed.            *)
(*                                                                         *)
(* SPV_AUTOSTART and SPV_SUPERVISE are set, SPV_STARTUP_TIMEOUT_SEC is 0   *)
(* and USE_HOST_NET is "no", as in spv-supervisor.env.example.             *)
(***************************************************************************)
EXTENDS Naturals, Sequences

CONSTANTS
  Serials,    \* SPV_SERIAL_CANDIDATES, in this order
  MaxKills    \* bound on how often the supervisor is ended or killed

ASSUME SupervisorAssumption == Serials \in Seq(STRING) /\ MaxKills \in Nat

VARIABLES
  pc,         \* the step of the script, "off" when it does not run
  missing,    \* what is not there, of Things and Serials
  serial,     \* CURRENT_SERIAL_HOST
  container,  \* "none", "running" or "exited"
  exited,     \* how it ended: exit code, and whether within 5 s
  last,       \* LAST_FAILURE_SIGNATURE
  told,       \* history: the report that left in this round of the loop
  orphan,     \* history: the supervisor was killed and has not cleaned up since
  kills

vars == <<pc, missing, serial, container, exited, last, told, orphan, kills>>

None == "none"

Things == {"image", "target", "ros", "ports", "camera"}

(* The checks of wait_for_dependencies in their order.                     *)
NextCheck ==
  [image |-> "target", target |-> "ros", ros |-> "ports", ports |-> "camera", camera |-> "serial"]

Candidates == {Serials[i] : i \in DOMAIN Serials}

Init ==
  /\ pc = "off"
  /\ missing \in SUBSET (Things \cup Candidates)
  /\ serial = None
  /\ container = "none"
  /\ exited = [code |-> 0, early |-> FALSE]
  /\ last = None
  /\ told = None
  /\ orphan = FALSE
  /\ kills = 0

Go(from, to) == pc = from /\ pc' = to

(* report_failure: what was reported last is not repeated.  The signature  *)
(* is remembered before the packet is sent, also if it cannot be sent.     *)
Report(reason, sent) ==
  /\ last' = reason
  /\ told' = IF sent /\ last # reason THEN reason ELSE told

-----------------------------------------------------------------------------
(* systemd starts the script, Restart=always.                              *)
Boot ==
  /\ Go("off", "cleanup")
  /\ last' = None
  /\ serial' = None
  /\ told' = None
  /\ UNCHANGED <<missing, container, exited, orphan, kills>>

(* cleanup_container at the head of the loop.                              *)
Cleanup ==
  /\ Go("cleanup", "image")
  /\ container' = "none"
  /\ orphan' = FALSE
  /\ UNCHANGED <<missing, serial, exited, last, told, kills>>

CheckOk ==
  /\ pc \in Things \ missing
  /\ pc' = NextCheck[pc]
  /\ UNCHANGED <<missing, serial, container, exited, last, told, orphan, kills>>

(* The checks run as conditions, where set -e is off: whether the packet   *)
(* left makes no difference, and it is not tried again.                    *)
CheckFails ==
  /\ pc \in Things \cap missing
  /\ \E sent \in BOOLEAN : Report(pc, sent)
  /\ pc' = "retry"
  /\ UNCHANGED <<missing, serial, container, exited, orphan, kills>>

(* Mutant: the failure stays remembered when all dependencies are there.   *)
SelectSerialRemembers ==
  /\ Go("serial", "start")
  /\ \E i \in DOMAIN Serials :
       /\ Serials[i] \notin missing
       /\ \A j \in 1..(i - 1) : Serials[j] \in missing
       /\ serial' = Serials[i]
  /\ UNCHANGED <<missing, container, exited, last, told, orphan, kills>>

(* select_serial: the first candidate that is there; with it the           *)
(* dependencies are complete, and clear_failure_state forgets the failure. *)
SelectSerial ==
  /\ Go("serial", "start")
  /\ \E i \in DOMAIN Serials :
       /\ Serials[i] \notin missing
       /\ \A j \in 1..(i - 1) : Serials[j] \in missing
       /\ serial' = Serials[i]
  /\ last' = None
  /\ UNCHANGED <<missing, container, exited, told, orphan, kills>>

NoSerial ==
  /\ Go("serial", "retry")
  /\ Candidates \subseteq missing
  /\ \E sent \in BOOLEAN : Report("serial", sent)
  /\ UNCHANGED <<missing, serial, container, exited, orphan, kills>>

Retry ==
  /\ Go("retry", "image")
  /\ told' = None
  /\ UNCHANGED <<missing, serial, container, exited, last, orphan, kills>>

(* start_container removes the old container; docker needs the image, the  *)
(* device that was selected and the ports it publishes.                    *)
Start ==
  /\ pc = "start"
  /\ IF {"image", "ports", serial} \cap missing = {}
       THEN pc' = "wait" /\ container' = "running" /\ UNCHANGED <<last, told>>
       ELSE /\ pc' = "sleep" /\ container' = "none"
            /\ \E sent \in BOOLEAN : Report("start_failed", sent)
  /\ orphan' = FALSE
  /\ UNCHANGED <<missing, serial, exited, kills>>

(* Mutant: only the end of the container ends the wait.                    *)
WaitForExit ==
  /\ Go("wait", "judge")
  /\ container = "exited"
  /\ UNCHANGED <<missing, serial, container, exited, last, told, orphan, kills>>

(* docker wait; without a container it fails, which counts as code 125.    *)
Wait ==
  /\ Go("wait", "judge")
  /\ container # "running"
  /\ exited' = IF container = "exited" THEN exited ELSE [exited EXCEPT !.code = 125]
  /\ UNCHANGED <<missing, serial, container, last, told, orphan, kills>>

(* The reason and its details; a report of the checks reads differently.   *)
Reason == CASE exited.code = 120 -> "exit_ros"
            [] exited.code = 127 -> "exit_target"
            [] exited.code = 125 -> "exit_docker"
            [] OTHER -> "exit_other"

(* Mutant: no EXIT trap.                                                   *)
LeaveContainer == UNCHANGED container

(* trap cleanup_container EXIT.                                            *)
ExitTrap == container' = "none"

(* An early failure is reported; here set -e holds, and a packet that      *)
(* cannot be sent ends the script.                                         *)
Judge ==
  /\ pc = "judge"
  /\ IF exited.code # 0 /\ exited.early
       THEN \E sent \in BOOLEAN :
              /\ Report(Reason, sent)
              /\ IF sent \/ last = Reason THEN pc' = "sleep" /\ container' = "none"
                 ELSE pc' = "off" /\ ExitTrap
       ELSE pc' = "sleep" /\ container' = "none" /\ UNCHANGED <<last, told>>
  /\ UNCHANGED <<missing, serial, exited, orphan, kills>>

Sleep ==
  /\ Go("sleep", "cleanup")
  /\ told' = None
  /\ UNCHANGED <<missing, serial, container, exited, last, orphan, kills>>

Script ==
  \/ Cleanup \/ CheckOk \/ CheckFails \/ SelectSerial \/ NoSerial \/ Retry
  \/ Start \/ Wait \/ Judge \/ Sleep

-----------------------------------------------------------------------------
(* The program ends; without the ROS setup or the binary at once.          *)
ContainerEnds ==
  /\ container = "running"
  /\ container' = "exited"
  /\ exited' \in CASE "ros" \in missing -> [code : {120}, early : {TRUE}]
                   [] "ros" \notin missing /\ "target" \in missing -> [code : {127}, early : {TRUE}]
                   [] OTHER -> [code : {0, 1}, early : BOOLEAN]
  /\ UNCHANGED <<pc, missing, serial, last, told, orphan, kills>>

ContainerRemoved ==
  /\ container # "none"
  /\ container' = "none"
  /\ UNCHANGED <<pc, missing, serial, exited, last, told, orphan, kills>>

ComesOrGoes ==
  /\ \E t \in Things \cup Candidates :
       missing' = IF t \in missing THEN missing \ {t} ELSE missing \cup {t}
  /\ UNCHANGED <<pc, serial, container, exited, last, told, orphan, kills>>

(* SIGTERM runs the trap, SIGKILL does not.                                *)
Terminate ==
  /\ pc # "off"
  /\ kills < MaxKills
  /\ kills' = kills + 1
  /\ pc' = "off"
  /\ \/ ExitTrap /\ UNCHANGED orphan
     \/ orphan' = TRUE /\ UNCHANGED container
  /\ UNCHANGED <<missing, serial, exited, last, told>>

Next == Boot \/ Script \/ ContainerEnds \/ ContainerRemoved \/ ComesOrGoes \/ Terminate

Spec == Init /\ [][Next]_vars

(* systemd restarts the script and the script goes on; nothing else is     *)
(* sure to happen.                                                         *)
FairSpec == Spec /\ WF_vars(Boot) /\ WF_vars(Script)

-----------------------------------------------------------------------------
(* "restarts the target after it has exited": once everything is there to  *)
(* stay the program runs again and again, however it ends, whoever removes *)
(* the container and however often the supervisor is killed.               *)
Revives == <>[](missing = {}) => []<>(container = "running")

(* A running container is being waited for, unless a kill left it behind:  *)
(* no other way out of the script leaves it running unwatched.             *)
Watched == container = "running" => pc = "wait" \/ orphan

(* A program that ends early is reported each time it does, however often *)
(* in a row it fails in the same way, and whatever start and checks        *)
(* reported in between: no report of it is taken for a repeat.  One that   *)
(* cannot be sent ends the script, and systemd starts it anew.             *)
EndReported ==
  [][pc = "judge" /\ pc' # "judge" /\ exited.code # 0 /\ exited.early
       => (told = None /\ told' = Reason) \/ pc' = "off"]_vars

=============================================================================
