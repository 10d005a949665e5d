-------------------------- MODULE SupervisorProofs ---------------------------
(***************************************************************************)
(* Proofs about Supervisor, for any list of serial devices.                *)
(***************************************************************************)
EXTENDS Supervisor, TLAPS

(* From the completion of the dependencies until the end of the program is *)
(* judged nothing is remembered as reported: clear_failure_state has run,  *)
(* and only a failed start would report.  A report ends the round.         *)
ReportInv ==
  /\ pc \in {"start", "wait", "judge"} => last = None
  /\ pc \notin {"retry", "sleep", "off"} => told = None

(* A step of the script, or of systemd, keeps both.                        *)
LEMMA ScriptInv ==
  ASSUME Watched, ReportInv, Boot \/ Script
  PROVE  Watched' /\ ReportInv'
<1> USE DEF Watched, ReportInv, Go, None
<1>1. CASE Boot
  BY <1>1 DEF Boot
<1>2. CASE Cleanup
  BY <1>2 DEF Cleanup
<1>3. CASE CheckOk
  <2>1. /\ pc' \notin {"start", "wait", "judge"}
        /\ pc \notin {"wait", "retry", "sleep", "off"}
    BY <1>3 DEF CheckOk, NextCheck, Things
  <2> QED
    BY <1>3, <2>1 DEF CheckOk
<1>4. CASE CheckFails
  BY <1>4 DEF CheckFails, Report, Things
<1>5. CASE SelectSerial
  BY <1>5 DEF SelectSerial
<1>6. CASE NoSerial
  BY <1>6 DEF NoSerial, Report
<1>7. CASE Retry
  BY <1>7 DEF Retry
<1>8. CASE Start
  BY <1>8 DEF Start, Report
<1>9. CASE Wait
  BY <1>9 DEF Wait
<1>10. CASE Judge
  <2>1. Reason # None
    BY DEF Reason
  <2> QED
    BY <1>10, <2>1 DEF Judge, Report, ExitTrap
<1>11. CASE Sleep
  BY <1>11 DEF Sleep
<1> QED
  BY <1>1, <1>2, <1>3, <1>4, <1>5, <1>6, <1>7, <1>8, <1>9, <1>10, <1>11 DEF Script

(* So does everything that happens around it.                              *)
LEMMA AroundInv ==
  ASSUME Watched, ReportInv,
         ContainerEnds \/ ContainerRemoved \/ ComesOrGoes \/ Terminate \/ UNCHANGED vars
  PROVE  Watched' /\ ReportInv'
<1> USE DEF Watched, ReportInv, None
<1>1. CASE ContainerEnds \/ ContainerRemoved
  BY <1>1 DEF ContainerEnds, ContainerRemoved
<1>2. CASE ComesOrGoes \/ UNCHANGED vars
  BY <1>2 DEF ComesOrGoes, vars
<1>3. CASE Terminate
  BY <1>3 DEF Terminate, ExitTrap
<1> QED
  BY <1>1, <1>2, <1>3

(* The invariant holds in every reachable state.                           *)
THEOREM InvCorrect == Spec => [](Watched /\ ReportInv)
<1>1. Init => Watched /\ ReportInv
  BY DEF Init, Watched, ReportInv, None
<1>2. Watched /\ ReportInv /\ [Next]_vars => Watched' /\ ReportInv'
  BY ScriptInv, AroundInv DEF Next
<1> QED
  BY <1>1, <1>2, PTL DEF Spec

(* No container runs unwatched but the one a kill left behind, whichever   *)
(* way the script ends.                                                    *)
THEOREM WatchedCorrect == Spec => []Watched
<1> QED
  BY InvCorrect, PTL

(* An early end of the program is reported each time, or the script ends:  *)
(* neither the end before nor what the checks found suppresses it.         *)
THEOREM EndReportedCorrect == Spec => EndReported
<1> DEFINE A == pc = "judge" /\ pc' # "judge" /\ exited.code # 0 /\ exited.early
                  => (told = None /\ told' = Reason) \/ pc' = "off"
<1>1. ReportInv /\ [Next]_vars => [A]_vars
  <2> SUFFICES ASSUME ReportInv, Next, pc = "judge", pc' # "judge",
                      exited.code # 0 /\ exited.early, pc' # "off"
               PROVE  told = None /\ told' = Reason
    OBVIOUS
  <2>1. last = None /\ told = None
    BY DEF ReportInv
  <2>2. Judge
    BY DEF Next, Script, Boot, Cleanup, CheckOk, CheckFails, SelectSerial, NoSerial, Retry, Start,
           Wait, Sleep, ContainerEnds, ContainerRemoved, ComesOrGoes, Terminate, Go, Things
  <2>3. PICK sent \in BOOLEAN : /\ Report(Reason, sent)
                                /\ sent \/ last = Reason
    BY <2>2 DEF Judge
  <2>4. Reason # None
    BY DEF Reason, None
  <2> QED
    BY <2>1, <2>3, <2>4 DEF Report
<1> QED
  BY <1>1, InvCorrect, PTL DEF Spec, EndReported
=============================================================================
