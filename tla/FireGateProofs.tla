--------------------------- MODULE FireGateProofs ----------------------------
(***************************************************************************)
(* Proofs about FireGate, for any delays of the board, the line and the    *)
(* threads of the host.  The argument follows the permission on its way:   *)
(* every place that holds a permission (slot, line, status, copy, command) *)
(* says how long ago at most the referee still gave it.                    *)
(***************************************************************************)
EXTENDS FireGate, TLAPS

Statuses   == [valid : BOOLEAN, allowed : BOOLEAN, hostTs : Nat]
UpFrames   == [kind : {"REFEREE"}, allowed : BOOLEAN, word : Nat, sent : Nat]
SlotStates == [kind : {"STATE"}, sent : Nat]
DownFrames == [kind : {"FIRE"}, on : BOOLEAN, torn : BOOLEAN, sent : Nat]
Copies     == [pc : {"allowed", "hostTs", "done"}, copy : Statuses, since : Nat]
Verdicts   == [pc : {"write"}, on : BOOLEAN, since : Nat]

TypeInv ==
  /\ program \in Programs
  /\ now \in Nat
  /\ decision \in {"allow", "deny", "invalid"}
  /\ revokedAt \in Nat
  /\ slot \in {None} \cup UpFrames \cup SlotStates
  /\ up \in Seq(UpFrames)
  /\ down \in Seq(DownFrames)
  /\ status \in Statuses
  /\ rx \in {Idle} \cup [pc : Fields, new : Statuses]
  /\ app \in {Idle} \cup Copies \cup Verdicts
  /\ pending \in {None} \cup DownFrames
  /\ torn \in BOOLEAN
  /\ program = "Dm02" => ~torn /\ rx = Idle /\ app.pc \notin Fields

(* The permission lasted at least until t.                                 *)
Alive(t) == decision = "allow" \/ t <= revokedAt

(* What a status may claim: the delays before it was received.             *)
Carry == SlotDelay + LineDelay

Grants(f) == IsValid(f.word) /\ f.allowed

Backed(s) ==
  /\ s.hostTs <= now
  /\ s.valid /\ s.allowed => Alive(s.hostTs - Carry)

(* Reports on their way to the host.                                       *)
UpInv ==
  /\ slot # None =>
       /\ slot.sent <= now /\ now - slot.sent <= SlotDelay
       /\ slot.kind = "REFEREE" => (Grants(slot) => Alive(slot.sent))
  /\ \A i \in 1..Len(up) :
       /\ up[i].sent <= now /\ now - up[i].sent <= LineDelay
       /\ Grants(up[i]) => Alive(up[i].sent - SlotDelay)

(* The status, also between two stores of the sentry's worker.             *)
StoreInv ==
  /\ status.hostTs <= now
  /\ rx = Idle \/ rx.pc = "valid" => Backed(status)
  /\ rx # Idle =>
       /\ Backed(rx.new)
       /\ rx.pc # "valid" => status.valid = rx.new.valid
       /\ rx.pc = "hostTs" => status.allowed = rx.new.allowed

(* The copy, also between two loads; a copy that is not torn has seen one  *)
(* and the same status.                                                    *)
CopyInv ==
  /\ app # Idle => app.since <= now /\ now - app.since <= AppDelay
  /\ app.pc \in {"allowed", "hostTs"} /\ ~torn =>
       /\ rx = Idle \/ rx.pc = "valid"
       /\ app.copy.valid = status.valid
       /\ app.pc = "hostTs" => app.copy.allowed = status.allowed
  /\ app.pc = "done" /\ ~torn => Backed(app.copy)
  /\ app.pc = "write" /\ ~torn => (app.on => Alive(app.since - (Stale + Carry)))

(* Commands on their way to the board.                                     *)
DownInv ==
  /\ pending # None =>
       /\ pending.sent <= now /\ now - pending.sent <= WorkerDelay
       /\ pending.on /\ ~pending.torn => Alive(pending.sent - (AppDelay + Stale + Carry))
  /\ \A i \in 1..Len(down) :
       /\ down[i].sent <= now /\ now - down[i].sent <= LineDelay
       /\ down[i].on /\ ~down[i].torn =>
            Alive(down[i].sent - (WorkerDelay + AppDelay + Stale + Carry))

BackInv == TypeInv /\ UpInv /\ StoreInv /\ CopyInv /\ DownInv

(* The status still permits to fire, or something has arrived since t.     *)
Current(t) ==
  \/ status.valid /\ status.allowed
  \/ rx # Idle
  \/ t <= status.hostTs

(* A permission that is being used is the one in the status, or a newer    *)
(* report has come after it was copied.                                    *)
FollowInv ==
  /\ app # Idle /\ ~torn =>
       /\ rx # Idle => app.since <= rx.new.hostTs
       /\ app.pc = "done" => (app.copy.valid /\ app.copy.allowed => Current(app.since))
       /\ app.pc = "write" => (app.on => Current(app.since))
  /\ pending # None =>
       (pending.on /\ ~pending.torn =>
          /\ Current(pending.sent - AppDelay)
          /\ rx # Idle => pending.sent - AppDelay <= rx.new.hostTs)

IInv == BackInv /\ FollowInv

-----------------------------------------------------------------------------
gateVars == <<rvars, gvars>>

(* The delays of the running program are natural numbers.                  *)
LEMMA Delays ==
  ASSUME program \in Programs
  PROVE  /\ Stale \in Nat /\ SlotDelay \in Nat /\ LineDelay \in Nat
         /\ AppDelay \in Nat /\ WorkerDelay \in Nat
         /\ Carry = SlotDelay + LineDelay /\ Carry \in Nat
<1>1. Timing[program] \in [stale : Nat, slot : Nat, line : Nat, app : Nat, worker : Nat, end : Nat]
  BY RefereeAssumption
<1> QED
  BY <1>1 DEF Stale, SlotDelay, LineDelay, AppDelay, WorkerDelay, Carry

(* Only the words of a report with valid data make it valid.               *)
LEMMA Words ==
  /\ IsValid(VALID)
  /\ \A w \in InvalidWords : w \in Nat /\ ~IsValid(w)
BY RefereeAssumption DEF IsValid, VALID

(* What is left of a line when its first frame is taken.                   *)
LEMMA TailOf ==
  ASSUME NEW S, NEW s \in Seq(S), s # <<>>
  PROVE  /\ Tail(s) \in Seq(S)
         /\ Len(s) \in Nat /\ Len(s) >= 1
         /\ Len(Tail(s)) = Len(s) - 1
         /\ \A i \in 1..Len(Tail(s)) : i + 1 \in 1..Len(s) /\ Tail(s)[i] = s[i + 1]
         /\ Head(s) = s[1] /\ Head(s) \in S
OBVIOUS

(* Sequences of different lengths differ.                                  *)
LEMMA Longer ==
  ASSUME NEW s, NEW t, Len(s) \in Nat, Len(t) > Len(s)
  PROVE  t # s
OBVIOUS

(* What Append does to a sequence.                                         *)
LEMMA AppendOf ==
  ASSUME NEW S, NEW s \in Seq(S), NEW x \in S
  PROVE  /\ Append(s, x) \in Seq(S)
         /\ Len(s) \in Nat
         /\ Len(Append(s, x)) = Len(s) + 1
         /\ \A i \in 1..Len(s) : Append(s, x)[i] = s[i]
         /\ Append(s, x)[Len(s) + 1] = x
         /\ Append(s, x)[Len(Append(s, x))] = x
OBVIOUS

-----------------------------------------------------------------------------

(* The kinds of steps.                                                     *)
LEMMA NextCases ==
  ASSUME [Next]_gateVars
  PROVE  \/ Change /\ UNCHANGED gvars
         \/ PublishReferee /\ UNCHANGED gvars
         \/ PublishState /\ UNCHANGED gvars
         \/ BoardSend /\ UNCHANGED gvars
         \/ BoardFire /\ UNCHANGED gvars
         \/ LoseUp /\ UNCHANGED gvars
         \/ OnReferee \/ WorkerRx \/ WorkerStore
         \/ AppRead \/ AppLoad \/ AppJudge \/ AppWrite \/ QueueFire \/ WorkerSend
         \/ Reconnect \/ ClockStep
         \/ UNCHANGED gateVars
BY DEF Next, BoardNext

(* What the host makes of a frame is a status.                             *)
LEMMA ReceivedType ==
  ASSUME now \in Nat, NEW f \in UpFrames
  PROVE  Received(f) \in Statuses
<1>1. IsValid(f.word) \in BOOLEAN
  BY DEF IsValid
<1>2. f.allowed \in BOOLEAN
  BY DEF UpFrames
<1> QED
  BY <1>1, <1>2 DEF Received, Statuses

(* The board only publishes frames the wire may hold.                      *)
LEMMA PublishType ==
  ASSUME now \in Nat
  PROVE  RefereeFrames \cup InvalidFrames \subseteq UpFrames
<1>1. (decision = "allow") \in BOOLEAN /\ VALID \in Nat /\ InvalidWords \subseteq Nat
  BY Words DEF VALID
<1>2. RefereeFrames \subseteq UpFrames
  BY <1>1 DEF RefereeFrames, UpFrames
<1>3. InvalidFrames \subseteq UpFrames
  BY <1>1 DEF InvalidFrames, UpFrames
<1> QED
  BY <1>2, <1>3

(* The sentry's loads, one by one.                                         *)
LEMMA FirstLoad ==
  ASSUME TypeInv, AppLoad, app = Idle
  PROVE  /\ app' \in Copies
         /\ app'.pc = "allowed" /\ app'.since = now
         /\ app'.copy.valid = status.valid
         /\ torn' = (rx # Idle)
<1>1. status.valid \in BOOLEAN /\ NoStatus \in Statuses /\ now \in Nat
  BY DEF TypeInv, Statuses, NoStatus
<1>2. [NoStatus EXCEPT !.valid = status.valid] \in Statuses
  BY <1>1 DEF Statuses
<1>3. /\ app' = [pc |-> "allowed", copy |-> [NoStatus EXCEPT !.valid = status.valid], since |-> now]
      /\ torn' = (rx # Idle)
  BY DEF AppLoad, Idle, Fields
<1>4. app' \in Copies
  BY <1>1, <1>2, <1>3 DEF Copies
<1> QED
  BY <1>3, <1>4 DEF NoStatus

(* One further load of the sentry: which field it copies, and what it      *)
(* keeps.                                                                  *)
LEMMA NextLoad ==
  ASSUME TypeInv, AppLoad, app # Idle
  PROVE  /\ app \in Copies /\ app' \in Copies
         /\ app'.since = app.since
         /\ app'.copy.valid = app.copy.valid
         /\ app.pc \in {"allowed", "hostTs"}
         /\ app.pc = "allowed" => app'.pc = "hostTs" /\ app'.copy.allowed = status.allowed
         /\ app.pc = "hostTs" => /\ app'.pc = "done"
                                 /\ app'.copy.allowed = app.copy.allowed
                                 /\ app'.copy.hostTs = status.hostTs
         /\ torn' = torn
<1>1. app \in Copies /\ app.pc \in {"allowed", "hostTs"}
  BY DEF TypeInv, AppLoad, Verdicts, Copies, Fields
<1>2. /\ app' = [app EXCEPT !.pc = NextField[@], !.copy[app.pc] = status[app.pc]]
      /\ torn' = torn
  BY DEF AppLoad
<1>3. app = [pc |-> app.pc, copy |-> app.copy, since |-> app.since] /\ app.copy \in Statuses
  BY <1>1 DEF Copies
<1>4. CASE app.pc = "allowed"
  <2>1. app' = [app EXCEPT !.pc = "hostTs", !.copy.allowed = status.allowed]
    <3>1. app' = [app EXCEPT !.pc = "hostTs", !.copy["allowed"] = status["allowed"]]
      BY <1>2, <1>4 DEF NextField
    <3> QED
      BY <3>1
  <2>2. app' = [pc |-> "hostTs", copy |-> [app.copy EXCEPT !.allowed = status.allowed],
                since |-> app.since]
    BY <1>3, <2>1
  <2>3. [app.copy EXCEPT !.allowed = status.allowed] \in Statuses
    BY <1>3 DEF Statuses, TypeInv
  <2> QED
    <3>1. app' \in Copies
      BY <1>1, <2>2, <2>3 DEF Copies
    <3>2. /\ app'.since = app.since /\ app'.copy.valid = app.copy.valid
          /\ app'.pc = "hostTs" /\ app'.copy.allowed = status.allowed
      BY <1>3, <2>2 DEF Statuses
    <3> QED
      BY <1>1, <1>2, <1>4, <3>1, <3>2
<1>5. CASE app.pc = "hostTs"
  <2>1. app' = [app EXCEPT !.pc = "done", !.copy.hostTs = status.hostTs]
    <3>1. app' = [app EXCEPT !.pc = "done", !.copy["hostTs"] = status["hostTs"]]
      BY <1>2, <1>5 DEF NextField
    <3> QED
      BY <3>1
  <2>2. app' = [pc |-> "done", copy |-> [app.copy EXCEPT !.hostTs = status.hostTs],
                since |-> app.since]
    BY <1>3, <2>1
  <2>3. [app.copy EXCEPT !.hostTs = status.hostTs] \in Statuses
    BY <1>3 DEF Statuses, TypeInv
  <2> QED
    <3>1. app' \in Copies
      BY <1>1, <2>2, <2>3 DEF Copies
    <3>2. /\ app'.since = app.since /\ app'.copy.valid = app.copy.valid
          /\ app'.pc = "done" /\ app'.copy.hostTs = status.hostTs
          /\ app'.copy.allowed = app.copy.allowed
      BY <1>3, <2>2 DEF Statuses
    <3> QED
      BY <1>1, <1>2, <1>5, <3>1, <3>2
<1> QED
  BY <1>1, <1>4, <1>5

LEMMA TypeStep ==
  ASSUME TypeInv, [Next]_gateVars
  PROVE  TypeInv'
<1> USE DEF TypeInv
<1>1. CASE Change /\ UNCHANGED gvars
  BY <1>1 DEF Change, gvars
<1>2. CASE PublishReferee /\ UNCHANGED gvars
  BY <1>2, PublishType DEF PublishReferee, gvars
<1>3. CASE PublishState /\ UNCHANGED gvars
  BY <1>3 DEF PublishState, StateFrame, SlotStates, gvars
<1>4. CASE BoardSend /\ UNCHANGED gvars
  BY <1>4, AppendOf DEF BoardSend, gvars, UpFrames, SlotStates
<1>5. CASE BoardFire /\ UNCHANGED gvars
  BY <1>5 DEF BoardFire, gvars
<1>6. CASE LoseUp /\ UNCHANGED gvars
  BY <1>6 DEF LoseUp, gvars
<1>7. CASE OnReferee
  BY <1>7, TailOf, ReceivedType DEF OnReferee, TakeUp
<1>8. CASE WorkerRx
  BY <1>8, TailOf, ReceivedType DEF WorkerRx, TakeUp, Fields
<1>9. CASE WorkerStore
  BY <1>9 DEF WorkerStore, Statuses, Fields, NextField, Idle, rvars
<1>10. CASE AppRead
  BY <1>10 DEF AppRead, Copies, rvars, Fields
<1>11. CASE AppLoad
  <2>1. CASE app = Idle
    BY <1>11, <2>1, FirstLoad DEF rvars, AppLoad, Fields, Programs
  <2>2. CASE app # Idle
    BY <1>11, <2>2, NextLoad DEF rvars, AppLoad, Programs
  <2> QED
    BY <2>1, <2>2
<1>12. CASE AppJudge
  BY <1>12 DEF AppJudge, Verdicts, Copies, CanFire, rvars, Idle, Fields
<1>13. CASE AppWrite
  <2>1. app.on \in BOOLEAN
    BY <1>13 DEF AppWrite, Verdicts, Copies, Idle
  <2>2. Fire(app.on, FALSE) \in DownFrames
    BY <2>1 DEF Fire, DownFrames
  <2>3. down' \in Seq(DownFrames)
    BY <1>13, <2>2, AppendOf DEF AppWrite
  <2> QED
    BY <1>13, <2>3 DEF AppWrite, Idle, Fields
<1>14. CASE QueueFire
  <2>1. app.on \in BOOLEAN
    BY <1>14 DEF QueueFire, Verdicts, Copies, Idle
  <2>2. Fire(app.on, torn) \in DownFrames
    BY <2>1 DEF Fire, DownFrames
  <2> QED
    BY <1>14, <2>2 DEF QueueFire, rvars
<1>15. CASE WorkerSend
  BY <1>15, AppendOf DEF WorkerSend, DownFrames, None
<1>16. CASE Reconnect
  BY <1>16 DEF Reconnect
<1>17. CASE ClockStep
  BY <1>17 DEF ClockStep, RClockStep, gvars
<1>18. CASE UNCHANGED gateVars
  BY <1>18 DEF gateVars, rvars, gvars
<1> QED
  BY NextCases, <1>1, <1>2, <1>3, <1>4, <1>5, <1>6, <1>7, <1>8, <1>9, <1>10, <1>11, <1>12,
     <1>13, <1>14, <1>15, <1>16, <1>17, <1>18

-----------------------------------------------------------------------------
(* Which variant a record is, by its tag.                                  *)
LEMMA Shapes ==
  ASSUME TypeInv
  PROVE  /\ app = Idle <=> app.pc = "idle"
         /\ app.pc \in {"allowed", "hostTs", "done"} <=> app \in Copies
         /\ app.pc = "write" <=> app \in Verdicts
         /\ app.pc \in {"idle", "allowed", "hostTs", "done", "write"}
         /\ rx # Idle => rx \in [pc : Fields, new : Statuses]
         /\ slot # None => slot \in UpFrames \cup SlotStates
         /\ pending # None => pending \in DownFrames
         /\ UpFrames \cap SlotStates = {}
         /\ None \notin UpFrames \cup SlotStates \cup DownFrames
BY DEF TypeInv, Idle, None, Copies, Verdicts, UpFrames, SlotStates, DownFrames, Fields

(* A change of the decision ends a permission now and not earlier.         *)
LEMMA AliveChange ==
  ASSUME TypeInv, Change, NEW t \in Int, t <= now, Alive(t)
  PROVE  decision' = "allow" \/ t <= revokedAt'
BY DEF TypeInv, Change, Alive

(* A permission on its way up is no older than slot and line allow.        *)
LEMMA UpStep ==
  ASSUME TypeInv, TypeInv', UpInv, [Next]_gateVars
  PROVE  UpInv'
<1> USE Delays, Shapes DEF UpInv
<1>0. program \in Programs /\ now \in Nat /\ up \in Seq(UpFrames) /\ Len(up) \in Nat
  BY DEF TypeInv
<1>00. /\ \A i \in 1..Len(up) : up[i].sent \in Nat
       /\ slot # None => slot.sent \in Nat
  <2>1. \A i \in 1..Len(up) : up[i] \in UpFrames
    BY <1>0
  <2> QED
    BY <2>1 DEF UpFrames, SlotStates
<1>1. CASE Change /\ UNCHANGED gvars
  <2>1. UNCHANGED <<program, now, slot, up>>
    BY <1>1 DEF Change
  <2>2. slot # None => (slot.kind = "REFEREE" => (Grants(slot) => Alive(slot.sent)'))
    BY <1>00, <1>1, <2>1, AliveChange DEF Alive
  <2>3. ASSUME NEW i \in 1..Len(up), Grants(up[i])
        PROVE  Alive(up[i].sent - SlotDelay)'
    <3>1. up[i].sent - SlotDelay \in Int /\ up[i].sent - SlotDelay <= now
      BY <1>0, <1>00
    <3>2. SlotDelay' = SlotDelay /\ up' = up
      BY <2>1 DEF SlotDelay
    <3> QED
      BY <1>1, <2>3, <3>1, <3>2, AliveChange DEF Alive
  <2> QED
    BY <2>1, <2>2, <2>3 DEF SlotDelay, LineDelay, Alive, Grants
<1>2. CASE PublishReferee /\ UNCHANGED gvars
  <2>1. /\ slot' \in RefereeFrames \cup InvalidFrames
        /\ UNCHANGED <<program, now, decision, revokedAt, up>>
    BY <1>2 DEF PublishReferee
  <2>2. slot'.sent = now
    BY <2>1 DEF RefereeFrames, InvalidFrames
  <2>3. Grants(slot') => Alive(now)'
    BY <2>1, Words DEF RefereeFrames, InvalidFrames, Grants, Alive
  <2> QED
    BY <1>0, <2>1, <2>2, <2>3 DEF SlotDelay, LineDelay, Alive, Grants
<1>3. CASE PublishState /\ UNCHANGED gvars
  BY <1>0, <1>3 DEF PublishState, StateFrame, SlotDelay, LineDelay, Alive, Grants
<1>4. CASE BoardSend /\ UNCHANGED gvars
  <2>1. UNCHANGED <<program, now, decision, revokedAt>> /\ slot' = None
    BY <1>4 DEF BoardSend
  <2>2. CASE slot.kind # "REFEREE"
    BY <1>4, <2>1, <2>2 DEF BoardSend, SlotDelay, LineDelay, Alive, Grants
  <2>3. CASE slot.kind = "REFEREE"
    <3> DEFINE f == [slot EXCEPT !.sent = now]
    <3>1. slot \in UpFrames /\ up' = Append(up, f)
      BY <1>4, <2>3 DEF BoardSend, SlotStates, UpFrames
    <3>2. f \in UpFrames /\ f.sent = now /\ f.word = slot.word /\ f.allowed = slot.allowed
      BY <1>0, <3>1 DEF UpFrames
    <3>3. Grants(f) => Alive(now - SlotDelay)
      <4>1. Grants(f) => Alive(slot.sent)
        BY <1>4, <2>3, <3>2 DEF BoardSend, Grants
      <4>2. now - SlotDelay <= slot.sent /\ slot.sent \in Int
        BY <1>0, <1>4, <3>1 DEF BoardSend, UpFrames
      <4> QED
        BY <1>0, <4>1, <4>2 DEF Alive, TypeInv
    <3>4. ASSUME NEW i \in 1..Len(up')
          PROVE  /\ up'[i].sent <= now /\ now - up'[i].sent <= LineDelay
                 /\ Grants(up'[i]) => Alive(up'[i].sent - SlotDelay)
      <4>1. CASE i \in 1..Len(up)
        BY <1>0, <3>1, <3>2, <4>1, AppendOf
      <4>2. CASE i = Len(up) + 1
        BY <1>0, <3>1, <3>2, <3>3, <4>2, AppendOf
      <4> QED
        BY <1>0, <3>1, <3>2, <4>1, <4>2, AppendOf
    <3> QED
      BY <2>1, <3>4 DEF SlotDelay, LineDelay, Alive, Grants
  <2> QED
    BY <2>2, <2>3
<1>5. CASE up # <<>> /\ up' = Tail(up) /\ UNCHANGED <<program, now, decision, revokedAt, slot>>
  <2>1. \A i \in 1..Len(up') : i + 1 \in 1..Len(up) /\ up'[i] = up[i + 1]
    BY <1>0, <1>5, TailOf
  <2> QED
    BY <1>5, <2>1 DEF SlotDelay, LineDelay, Alive, Grants
<1>6. CASE UNCHANGED <<program, now, decision, revokedAt, slot>> /\ up' \in {up, <<>>}
  BY <1>6 DEF SlotDelay, LineDelay, Alive, Grants
<1>7. CASE ClockStep
  <2>1. UNCHANGED <<program, decision, revokedAt, slot, up>> /\ InTime /\ now' = now + 1
    BY <1>7 DEF ClockStep, RClockStep
  <2>2. slot # None => slot.sent <= now' /\ now' - slot.sent <= SlotDelay
    BY <1>0, <1>00, <2>1 DEF InTime
  <2>3. \A i \in 1..Len(up) : up[i].sent <= now' /\ now' - up[i].sent <= LineDelay
    BY <1>0, <1>00, <2>1 DEF InTime
  <2> QED
    BY <2>1, <2>2, <2>3 DEF SlotDelay, LineDelay, Alive, Grants
<1>8. CASE BoardFire \/ LoseUp \/ OnReferee \/ WorkerRx \/ WorkerStore \/ AppRead \/ AppLoad
           \/ AppJudge \/ AppWrite \/ QueueFire \/ WorkerSend \/ Reconnect \/ UNCHANGED gateVars
  <2>1. UNCHANGED <<program, now, decision, revokedAt, slot>>
    BY <1>8 DEF BoardFire, LoseUp, OnReferee, WorkerRx, WorkerStore, AppRead, AppLoad, AppJudge,
                AppWrite, QueueFire, WorkerSend, Reconnect, gateVars, rvars
  <2>2. up' \in {up, <<>>} \/ (up # <<>> /\ up' = Tail(up))
    BY <1>8 DEF BoardFire, LoseUp, OnReferee, WorkerRx, WorkerStore, AppRead, AppLoad, AppJudge,
                AppWrite, QueueFire, WorkerSend, Reconnect, gateVars, rvars, TakeUp
  <2> QED
    BY <1>5, <1>6, <2>1, <2>2
<1> QED
  BY NextCases, <1>1, <1>2, <1>3, <1>4, <1>7, <1>8

-----------------------------------------------------------------------------
(* Whatever happens, time does not go back and a permission that lasted    *)
(* until t did so.                                                         *)
LEMMA Forward ==
  ASSUME TypeInv, [Next]_gateVars
  PROVE  /\ UNCHANGED <<program, Stale, SlotDelay, LineDelay, AppDelay, WorkerDelay, Carry>>
         /\ now <= now'
         /\ \A t \in Int : t <= now /\ Alive(t) => decision' = "allow" \/ t <= revokedAt'
<1>1. CASE Change /\ UNCHANGED gvars
  <2>1. UNCHANGED <<program, now>>
    BY <1>1 DEF Change
  <2> QED
    BY <1>1, <2>1, AliveChange
       DEF TypeInv, Stale, SlotDelay, LineDelay, AppDelay, WorkerDelay, Carry
<1>2. CASE UNCHANGED <<program, decision, revokedAt>> /\ (UNCHANGED now \/ now' = now + 1)
  BY <1>2 DEF TypeInv, Stale, SlotDelay, LineDelay, AppDelay, WorkerDelay, Carry, Alive
<1> QED
  BY NextCases, <1>1, <1>2
     DEF PublishReferee, PublishState, BoardSend, BoardFire, LoseUp, OnReferee, WorkerRx,
         WorkerStore, AppRead, AppLoad, AppJudge, AppWrite, QueueFire, WorkerSend, Reconnect,
         ClockStep, RClockStep, gateVars, rvars

(* So a status that was backed stays so.                                   *)
LEMMA BackedKept ==
  ASSUME TypeInv, [Next]_gateVars, NEW s \in Statuses, Backed(s)
  PROVE  /\ s.hostTs <= now'
         /\ s.valid /\ s.allowed => decision' = "allow" \/ s.hostTs - Carry' <= revokedAt'
<1>1. s.hostTs \in Nat /\ now \in Nat /\ now' \in Nat /\ Carry \in Nat /\ Carry' = Carry
  BY Forward, Delays, TypeStep DEF Statuses, TypeInv
<1>2. now <= now'
  BY Forward
<1> QED
  BY <1>1, <1>2, Forward DEF Backed

(* A report is received at most the two delays after it was true.          *)
LEMMA ReceivedBacked ==
  ASSUME TypeInv, UpInv, up # <<>>
  PROVE  /\ Received(Head(up)) \in Statuses
         /\ Backed(Received(Head(up)))
         /\ Received(Head(up)).hostTs = now
<1> DEFINE f == Head(up)
<1>1. f \in UpFrames /\ f = up[1] /\ 1 \in 1..Len(up) /\ now \in Nat /\ program \in Programs
  BY TailOf DEF TypeInv
<1>2. f.sent \in Nat /\ f.sent <= now /\ now - f.sent <= LineDelay
      /\ (Grants(f) => Alive(f.sent - SlotDelay))
  BY <1>1 DEF UpInv, UpFrames
<1>3. Received(f) \in Statuses /\ Received(f).hostTs = now
  BY <1>1, ReceivedType DEF Received
<1>4. Received(f).valid /\ Received(f).allowed => Grants(f)
  BY DEF Received, Grants
<1>5. Grants(f) => Alive(now - Carry)
  BY <1>1, <1>2, Delays DEF Alive, TypeInv
<1> QED
  BY <1>1, <1>3, <1>4, <1>5 DEF Backed

(* The stores of the sentry's worker, one by one.                          *)
LEMMA StoreEffect ==
  ASSUME TypeInv, WorkerStore
  PROVE  /\ rx \in [pc : Fields, new : Statuses] /\ rx # Idle
         /\ rx.pc = "valid" => /\ rx' # Idle /\ rx'.pc = "allowed" /\ rx'.new = rx.new
                               /\ status'.valid = rx.new.valid
                               /\ status'.hostTs = status.hostTs
         /\ rx.pc = "allowed" => /\ rx' # Idle /\ rx'.pc = "hostTs" /\ rx'.new = rx.new
                                 /\ status'.valid = status.valid
                                 /\ status'.allowed = rx.new.allowed
                                 /\ status'.hostTs = status.hostTs
         /\ rx.pc = "hostTs" => /\ rx' = Idle
                                /\ status'.valid = status.valid
                                /\ status'.allowed = status.allowed
                                /\ status'.hostTs = rx.new.hostTs
<1>1. rx \in [pc : Fields, new : Statuses] /\ rx # Idle /\ status \in Statuses
  BY Shapes DEF WorkerStore, TypeInv
<1>2. CASE rx.pc = "valid"
  <2>1. status' = [status EXCEPT !.valid = rx.new.valid]
    BY <1>2 DEF WorkerStore
  <2>2. rx' = [rx EXCEPT !.pc = "allowed"]
    BY <1>2 DEF WorkerStore, NextField
  <2>3. rx'.pc = "allowed" /\ rx'.new = rx.new /\ rx' # Idle
    BY <1>1, <2>2 DEF Idle
  <2>4. status'.valid = rx.new.valid /\ status'.hostTs = status.hostTs
    BY <1>1, <2>1 DEF Statuses
  <2> QED
    BY <1>1, <1>2, <2>3, <2>4
<1>3. CASE rx.pc = "allowed"
  <2>1. status' = [status EXCEPT !.allowed = rx.new.allowed]
    BY <1>3 DEF WorkerStore
  <2>2. rx' = [rx EXCEPT !.pc = "hostTs"]
    BY <1>3 DEF WorkerStore, NextField
  <2>3. rx'.pc = "hostTs" /\ rx'.new = rx.new /\ rx' # Idle
    BY <1>1, <2>2 DEF Idle
  <2>4. /\ status'.valid = status.valid /\ status'.allowed = rx.new.allowed
        /\ status'.hostTs = status.hostTs
    BY <1>1, <2>1 DEF Statuses
  <2> QED
    BY <1>1, <1>3, <2>3, <2>4
<1>4. CASE rx.pc = "hostTs"
  <2>1. status' = [status EXCEPT !.hostTs = rx.new.hostTs] /\ rx' = Idle
    BY <1>4 DEF WorkerStore
  <2>2. /\ status'.valid = status.valid /\ status'.allowed = status.allowed
        /\ status'.hostTs = rx.new.hostTs
    BY <1>1, <2>1 DEF Statuses
  <2> QED
    BY <1>1, <1>4, <2>1, <2>2
<1> QED
  BY <1>1, <1>2, <1>3, <1>4 DEF Fields

(* A stored permission was current when it was received, also between the  *)
(* stores of the sentry that replace it.                                   *)
LEMMA StoreStep ==
  ASSUME TypeInv, TypeInv', UpInv, StoreInv, [Next]_gateVars
  PROVE  StoreInv'
<1> USE DEF StoreInv
<1>1. CASE OnReferee
  <2>1. /\ status' = Received(Head(up)) /\ up # <<>>
        /\ UNCHANGED <<program, now, decision, revokedAt, rx>> /\ rx = Idle
    BY <1>1 DEF OnReferee, TakeUp, TypeInv
  <2>2. Backed(status')
    BY <2>1, ReceivedBacked
  <2>3. Backed(status)'
    BY <2>1, <2>2 DEF Backed, Alive, Carry, SlotDelay, LineDelay
  <2> QED
    BY <2>1, <2>3 DEF Backed
<1>2. CASE WorkerRx
  <2>1. /\ rx' = [pc |-> "valid", new |-> Received(Head(up))] /\ up # <<>> /\ rx = Idle
        /\ UNCHANGED <<program, now, decision, revokedAt, status>>
    BY <1>2 DEF WorkerRx, TakeUp
  <2>2. Backed(rx'.new) /\ rx'.pc = "valid"
    BY <2>1, ReceivedBacked
  <2>3. Backed(rx.new)'
    BY <2>1, <2>2 DEF Backed, Alive, Carry, SlotDelay, LineDelay
  <2>4. Backed(status)'
    BY <2>1 DEF Backed, Alive, Carry, SlotDelay, LineDelay
  <2> QED
    BY <2>1, <2>2, <2>3, <2>4
<1>3. CASE WorkerStore
  <2>1. /\ rx \in [pc : Fields, new : Statuses] /\ rx # Idle
        /\ UNCHANGED <<program, now, decision, revokedAt>>
        /\ status \in Statuses
    BY <1>3, Shapes DEF WorkerStore, rvars, TypeInv
  <2>2. Backed(rx.new) /\ rx.new \in Statuses
    BY <2>1
  <2>3. CASE rx.pc = "valid"
    BY <1>3, <2>1, <2>2, <2>3, StoreEffect DEF Backed, Alive, Carry, SlotDelay, LineDelay
  <2>4. CASE rx.pc = "allowed"
    BY <1>3, <2>1, <2>2, <2>4, StoreEffect DEF Backed, Alive, Carry, SlotDelay, LineDelay
  <2>5. CASE rx.pc = "hostTs"
    BY <1>3, <2>1, <2>2, <2>5, StoreEffect DEF Backed, Alive, Carry, SlotDelay, LineDelay
  <2> QED
    BY <2>1, <2>3, <2>4, <2>5 DEF Fields
<1>4. CASE UNCHANGED <<status, rx>>
  <2>1. status \in Statuses /\ (rx # Idle => rx.new \in Statuses)
    BY Shapes DEF TypeInv
  <2>2. status.hostTs <= now'
    BY <2>1, Forward, TypeStep DEF TypeInv, Statuses
  <2>3. Backed(status) => Backed(status)'
    BY <1>4, <2>1, BackedKept DEF Backed, Alive
  <2>4. rx # Idle => Backed(rx.new)'
    BY <1>4, <2>1, BackedKept DEF Backed, Alive
  <2> QED
    BY <1>4, <2>2, <2>3, <2>4
<1> QED
  BY NextCases, <1>1, <1>2, <1>3, <1>4
     DEF AppRead, AppLoad, AppJudge, AppWrite, QueueFire, WorkerSend, Reconnect,
         ClockStep, gateVars, gvars

-----------------------------------------------------------------------------
(* What was judged or copied before stays backed.                          *)
LEMMA CopyKept ==
  ASSUME TypeInv, TypeInv', CopyInv, [Next]_gateVars, app' = app, torn' = FALSE => torn = FALSE
  PROVE  /\ app # Idle => app.since <= now'
         /\ app.pc = "done" /\ ~torn' => Backed(app.copy)'
         /\ app.pc = "write" /\ ~torn' => (app.on => Alive(app.since - (Stale + Carry))')
<1>0. torn \in BOOLEAN /\ torn' \in BOOLEAN /\ now \in Nat /\ now' \in Nat /\ program \in Programs
  BY DEF TypeInv
<1>1. app # Idle => app.since \in Nat /\ app.since <= now
  BY Shapes DEF TypeInv, CopyInv, Copies, Verdicts
<1>2. app.pc = "done" /\ ~torn' => Backed(app.copy)'
  <2>1. app.pc = "done" => app.copy \in Statuses
    BY Shapes DEF Copies
  <2> QED
    BY <1>0, <2>1, BackedKept DEF CopyInv, Backed, Alive
<1>3. app.pc = "write" /\ ~torn' => (app.on => Alive(app.since - (Stale + Carry))')
  <2>1. app.pc = "write" => /\ app.since - (Stale + Carry) \in Int
                            /\ app.since - (Stale + Carry) <= now
    BY <1>0, <1>1, Delays, Shapes
  <2>2. UNCHANGED <<Stale, Carry>>
    BY Forward
  <2> QED
    BY <1>0, <2>1, <2>2, Forward DEF CopyInv, Alive
<1> QED
  BY <1>0, <1>1, <1>2, <1>3, Forward

(* A copy that no store overlapped is as good as what was stored when it   *)
(* began.                                                                  *)
LEMMA CopyStep ==
  ASSUME TypeInv, TypeInv', StoreInv, CopyInv, [Next]_gateVars
  PROVE  CopyInv'
<1>0. /\ torn \in BOOLEAN /\ torn' \in BOOLEAN /\ now \in Nat /\ now' \in Nat /\ program \in Programs
      /\ AppDelay \in Nat /\ AppDelay' = AppDelay
  BY Delays, Forward DEF TypeInv
<1>1. CASE AppRead
  <2>1. /\ app' = [pc |-> "done", copy |-> status, since |-> now] /\ rx = Idle
        /\ UNCHANGED <<program, now, decision, revokedAt>>
    BY <1>1 DEF AppRead, TypeInv, rvars
  <2>2. Backed(app.copy)'
    BY <2>1 DEF StoreInv, Backed, Alive, Carry, SlotDelay, LineDelay
  <2> QED
    BY <1>0, <2>1, <2>2 DEF CopyInv
<1>2. CASE AppLoad
  <2>0. UNCHANGED <<program, now, decision, revokedAt, status, rx>>
    BY <1>2 DEF AppLoad, rvars
  <2>1. CASE app = Idle
    <3>1. app'.pc = "allowed" /\ app'.since = now /\ app'.copy.valid = status'.valid
      BY <1>2, <2>0, <2>1, FirstLoad
    <3>2. ~torn' => rx' = Idle
      BY <1>2, <2>0, <2>1, FirstLoad
    <3> QED
      BY <1>0, <2>0, <3>1, <3>2 DEF CopyInv
  <2>2. CASE app # Idle
    <3>1. CASE app.pc = "allowed"
      BY <1>0, <1>2, <2>0, <2>2, <3>1, NextLoad DEF CopyInv, Idle
    <3>2. CASE app.pc = "hostTs"
      <4>1. ~torn' => Backed(app'.copy)
        BY <1>0, <1>2, <2>0, <2>2, <3>2, NextLoad DEF CopyInv, StoreInv, Backed
      <4>2. ~torn' => Backed(app.copy)'
        BY <2>0, <4>1 DEF Backed, Alive, Carry, SlotDelay, LineDelay
      <4> QED
        BY <1>0, <1>2, <2>0, <2>2, <3>2, <4>2, NextLoad DEF CopyInv, Idle
    <3> QED
      BY <1>2, <2>2, <3>1, <3>2, NextLoad
  <2> QED
    BY <2>1, <2>2
<1>3. CASE AppJudge
  <2>1. /\ app' = [pc |-> "write", on |-> CanFire(app.copy), since |-> app.since]
        /\ app.pc = "done" /\ app # Idle
        /\ UNCHANGED <<program, now, decision, revokedAt, torn>>
    BY <1>3, Shapes DEF AppJudge, rvars
  <2>2. app \in Copies /\ app.copy \in Statuses /\ app.copy.hostTs \in Nat /\ app.since \in Nat
    BY <2>1, Shapes DEF Copies, Statuses
  <2>3. ~torn /\ CanFire(app.copy) => Alive(app.since - (Stale + Carry))
    <3>1. SUFFICES ASSUME ~torn, CanFire(app.copy)
                   PROVE  Alive(app.since - (Stale + Carry))
      OBVIOUS
    <3>2. Alive(app.copy.hostTs - Carry)
      BY <2>1, <3>1 DEF CopyInv, Backed, CanFire
    <3>3. app.since <= now /\ now - app.copy.hostTs <= Stale
      BY <2>1, <3>1 DEF CopyInv, CanFire
    <3>4. Stale \in Nat /\ Carry \in Nat /\ revokedAt \in Nat
      BY <1>0, Delays DEF TypeInv
    <3>5. app.since - (Stale + Carry) <= app.copy.hostTs - Carry
      BY <1>0, <2>2, <3>3, <3>4
    <3> QED
      BY <2>2, <3>2, <3>4, <3>5 DEF Alive
  <2>4. ~torn' => (app'.on => Alive(app.since - (Stale + Carry))')
    BY <2>1, <2>3 DEF Alive, Carry, SlotDelay, LineDelay, Stale
  <2> QED
    BY <1>0, <2>1, <2>4 DEF CopyInv
<1>4. CASE AppWrite \/ QueueFire
  <2>1. app' = Idle /\ app'.pc = "idle"
    <3>1. app' = Idle
      BY <1>4 DEF AppWrite, QueueFire
    <3> QED
      BY <3>1 DEF Idle
  <2> QED
    BY <2>1 DEF CopyInv
<1>5. CASE WorkerRx
  BY <1>0, <1>5, CopyKept, Shapes DEF WorkerRx, CopyInv
<1>6. CASE WorkerStore
  <2>1. /\ app' = app /\ now' = now
        /\ torn' = (torn \/ app.pc \in {"allowed", "hostTs"})
    BY <1>6 DEF WorkerStore, rvars
  <2> QED
    BY <1>0, <2>1, CopyKept DEF CopyInv
<1>7. CASE OnReferee
  <2>1. UNCHANGED <<app, torn, now>> /\ app.pc \notin {"allowed", "hostTs"}
    BY <1>7 DEF OnReferee, TypeInv, Fields
  <2> QED
    BY <1>0, <2>1, CopyKept DEF CopyInv
<1>8. CASE ClockStep
  <2>1. /\ UNCHANGED <<app, torn, status, rx>> /\ now' = now + 1
        /\ app # Idle => now - app.since < AppDelay
    BY <1>8 DEF ClockStep, RClockStep, gvars
  <2>2. app # Idle => app.since \in Nat
    BY Shapes DEF TypeInv, Copies, Verdicts
  <2>3. app # Idle => now' - app.since <= AppDelay
    BY <1>0, <2>1, <2>2
  <2> QED
    BY <1>0, <2>1, <2>3, CopyKept DEF CopyInv
<1>9. CASE UNCHANGED <<app, torn, status, rx, now>>
  BY <1>0, <1>9, CopyKept DEF CopyInv
<1> QED
  BY NextCases, <1>1, <1>2, <1>3, <1>4, <1>5, <1>6, <1>7, <1>8, <1>9
     DEF Change, PublishReferee, PublishState, BoardSend, BoardFire, LoseUp, WorkerSend, Reconnect,
         gateVars, gvars, rvars

-----------------------------------------------------------------------------
(* What a FIRE frame on the line, or in pending_fire, claims.              *)
Sound(f, d) == f.on /\ ~f.torn => Alive(f.sent - d)

(* A command that was backed stays backed while the decision changes and   *)
(* time passes.                                                            *)
LEMMA SoundKept ==
  ASSUME TypeInv, [Next]_gateVars, NEW f \in DownFrames, NEW d \in Nat, f.sent <= now, Sound(f, d)
  PROVE  f.on /\ ~f.torn => decision' = "allow" \/ f.sent - d <= revokedAt'
<1>1. f.sent \in Nat /\ now \in Nat
  BY DEF DownFrames, TypeInv
<1> QED
  BY <1>1, Forward DEF Sound

(* A command on its way down is backed when it was given.                  *)
LEMMA DownStep ==
  ASSUME TypeInv, TypeInv', CopyInv, DownInv, [Next]_gateVars
  PROVE  DownInv'
<1> DEFINE A == AppDelay + Stale + Carry
           W == WorkerDelay + AppDelay + Stale + Carry
<1>0. /\ now \in Nat /\ now' \in Nat /\ revokedAt \in Nat /\ revokedAt' \in Nat
      /\ program \in Programs /\ now <= now'
      /\ A \in Nat /\ W \in Nat /\ W = WorkerDelay + A /\ A = AppDelay + (Stale + Carry)
      /\ UNCHANGED <<A, W, WorkerDelay, LineDelay>>
      /\ Stale \in Nat /\ AppDelay \in Nat /\ Carry \in Nat
      /\ WorkerDelay \in Nat /\ LineDelay \in Nat
  <2>1. /\ now \in Nat /\ now' \in Nat /\ revokedAt \in Nat /\ revokedAt' \in Nat
        /\ program \in Programs
    BY DEF TypeInv
  <2>2. /\ Stale \in Nat /\ AppDelay \in Nat /\ Carry \in Nat
        /\ WorkerDelay \in Nat /\ LineDelay \in Nat
    BY <2>1, Delays
  <2>3. /\ UNCHANGED <<Stale, LineDelay, AppDelay, WorkerDelay, Carry>>
        /\ now <= now'
    BY Forward
  <2>4. UNCHANGED <<A, W, WorkerDelay, LineDelay>>
    BY <2>3
  <2>5. A \in Nat /\ W \in Nat /\ W = WorkerDelay + A /\ A = AppDelay + (Stale + Carry)
    BY <2>2
  <2> QED
    BY <2>1, <2>2, <2>3, <2>4, <2>5
<1>1. /\ pending # None => pending \in DownFrames /\ pending.sent \in Nat
      /\ Len(down) \in Nat
      /\ \A i \in 1..Len(down) : down[i] \in DownFrames
      /\ \A i \in 1..Len(down) : down[i].sent \in Nat
  <2>1. \A i \in 1..Len(down) : down[i] \in DownFrames
    BY DEF TypeInv
  <2>2. pending # None => pending \in DownFrames
    BY Shapes
  <2>3. \A f \in DownFrames : f.sent \in Nat
    BY DEF DownFrames
  <2>4. Len(down) \in Nat
    BY DEF TypeInv
  <2> QED
    BY <2>1, <2>2, <2>3, <2>4
<1>2. /\ pending # None => /\ pending.sent <= now /\ now - pending.sent <= WorkerDelay
                           /\ Sound(pending, A)
      /\ \A i \in 1..Len(down) : /\ down[i].sent <= now /\ now - down[i].sent <= LineDelay
                                 /\ Sound(down[i], W)
  BY DEF DownInv, Sound
(* The goal in two parts.                                                  *)
<1> DEFINE P == pending' # None =>
                  /\ pending'.sent <= now' /\ now' - pending'.sent <= WorkerDelay
                  /\ pending'.on /\ ~pending'.torn =>
                       decision' = "allow" \/ pending'.sent - A <= revokedAt'
           D(f) == /\ f.sent <= now' /\ now' - f.sent <= LineDelay
                   /\ f.on /\ ~f.torn => decision' = "allow" \/ f.sent - W <= revokedAt'
<1>3. SUFFICES P /\ \A i \in 1..Len(down') : D(down'[i])
  BY <1>0 DEF DownInv, Alive
<1>4. ASSUME pending' = pending, now' = now
      PROVE  P
  BY <1>0, <1>1, <1>2, <1>4, SoundKept
<1>5. ASSUME now' = now, NEW i \in 1..Len(down)
      PROVE  D(down[i])
  BY <1>0, <1>1, <1>2, <1>5, SoundKept
<1> HIDE DEF P, D, A, W
<1>P. ASSUME now' = now, NEW f \in DownFrames, down' = Append(down, f), D(f),
              NEW i \in 1..Len(down')
       PROVE  D(down'[i])
  <2>1. down \in Seq(DownFrames) /\ Len(down) \in Nat
    BY <1>1 DEF TypeInv
  <2>2. /\ Len(down') = Len(down) + 1
        /\ \A j \in 1..Len(down) : down'[j] = down[j]
        /\ down'[Len(down) + 1] = f
    BY <1>P, <2>1, AppendOf
  <2>3. CASE i \in 1..Len(down)
    BY <1>5, <1>P, <2>2, <2>3
  <2>4. CASE i = Len(down) + 1
    BY <1>P, <2>2, <2>4
  <2> QED
    BY <1>P, <2>1, <2>2, <2>3, <2>4
<1>6. CASE QueueFire
  <2>1. /\ pending' = Fire(app.on, torn) /\ app.pc = "write" /\ app # Idle
        /\ UNCHANGED <<now, decision, revokedAt, down>>
    BY <1>6, Shapes DEF QueueFire, rvars
  <2>2. pending'.sent = now /\ pending'.on = app.on /\ pending'.torn = torn
    BY <2>1 DEF Fire
  <2>3. app.since \in Nat /\ app.since <= now /\ now - app.since <= AppDelay
    BY <2>1, Shapes DEF CopyInv, Verdicts
  <2>4. app.on /\ ~torn => Alive(app.since - (Stale + Carry))
    BY <2>1 DEF CopyInv
  <2>5. app.on /\ ~torn => decision' = "allow" \/ now - A <= revokedAt'
    BY <1>0, <2>1, <2>3, <2>4 DEF Alive
  <2>6. P
    BY <1>0, <2>1, <2>2, <2>5 DEF P
  <2> QED
    BY <1>5, <2>1, <2>6
<1>7. CASE AppWrite
  <2>1. /\ down' = down \/ down' = Append(down, Fire(app.on, FALSE))
        /\ app.pc = "write" /\ app # Idle /\ ~torn
        /\ UNCHANGED <<now, decision, revokedAt, pending>>
    BY <1>7, Shapes DEF AppWrite, TypeInv
  <2>2. /\ Fire(app.on, FALSE).sent = now /\ Fire(app.on, FALSE).on = app.on
        /\ Fire(app.on, FALSE).torn = FALSE
    BY DEF Fire
  <2>3. app.since \in Nat /\ app.since <= now /\ now - app.since <= AppDelay /\ app.on \in BOOLEAN
    BY <2>1, Shapes DEF CopyInv, Verdicts
  <2>4. app.on => Alive(app.since - (Stale + Carry))
    BY <2>1 DEF CopyInv
  <2>5. app.on => decision' = "allow" \/ now - W <= revokedAt'
    BY <1>0, <2>1, <2>3, <2>4 DEF Alive
  <2>6. D(Fire(app.on, FALSE))
    <3> DEFINE g == Fire(app.on, FALSE)
    <3>0. g.sent = now /\ now' = now
      BY <2>1, <2>2
    <3>1. g.sent <= now' /\ now' - g.sent <= LineDelay
      <4> HIDE DEF g
      <4> QED
        BY <1>0, <3>0
    <3>2. g.on => app.on
      BY <2>2
    <3>3. g.on => decision' = "allow" \/ g.sent - W <= revokedAt'
      BY <2>2, <2>5, <3>2
    <3> HIDE DEF g
    <3>4. D(g)
      BY <3>1, <3>3 DEF D
    <3> QED
      BY <3>4 DEF g
  <2>7. Fire(app.on, FALSE) \in DownFrames /\ down \in Seq(DownFrames)
    BY <1>0, <2>3 DEF Fire, DownFrames, TypeInv
  <2>8. CASE down' = down
    BY <1>4, <1>5, <2>1, <2>8
  <2>9. CASE down' = Append(down, Fire(app.on, FALSE))
    <3>1. \A i \in 1..Len(down') : D(down'[i])
      BY <1>P, <2>1, <2>6, <2>7, <2>9
    <3> QED
      BY <1>4, <2>1, <3>1
  <2> QED
    BY <2>1, <2>8, <2>9
<1>8. CASE WorkerSend
  <2> DEFINE f == [pending EXCEPT !.sent = now]
  <2>1. /\ pending # None /\ pending' = None /\ down' = Append(down, f)
        /\ UNCHANGED <<now, decision, revokedAt>>
    BY <1>8 DEF WorkerSend
  <2>2. f \in DownFrames /\ f.sent = now /\ f.on = pending.on /\ f.torn = pending.torn
    BY <1>0, <1>1, <2>1 DEF DownFrames
  <2> HIDE DEF f
  <2>3. f.on /\ ~f.torn => Alive(now - W)
    <3> SUFFICES ASSUME f.on, ~f.torn PROVE Alive(now - W)
      OBVIOUS
    <3>1. pending.on /\ ~pending.torn
      BY <2>2
    <3>2. Alive(pending.sent - A)
      BY <1>2, <2>1, <3>1 DEF Sound
    <3> DEFINE t == pending.sent
    <3>0. t \in Nat /\ now - t <= WorkerDelay
      BY <1>1, <1>2, <2>1
    <3> HIDE DEF t
    <3>3. now - W <= t - A /\ now - W \in Int /\ t - A \in Int
      BY <1>0, <3>0
    <3>4. Alive(t - A)
      BY <3>2 DEF t
    <3> QED
      BY <1>0, <3>3, <3>4 DEF Alive
  <2>4. D(f)
    BY <1>0, <2>1, <2>2, <2>3 DEF D, Alive
  <2>5. \A i \in 1..Len(down') : D(down'[i])
    BY <1>P, <2>1, <2>2, <2>4
  <2> QED
    BY <2>1, <2>5 DEF P
<1>9. CASE (BoardFire /\ UNCHANGED gvars) \/ Reconnect
  <2>1. /\ UNCHANGED <<now, pending>>
        /\ (down # <<>> /\ down' = Tail(down)) \/ down' = <<>>
    BY <1>9 DEF BoardFire, Reconnect, gvars
  <2>2. \A i \in 1..Len(down') : D(down'[i])
    <3>1. CASE down # <<>> /\ down' = Tail(down)
      <4>1. \A i \in 1..Len(down') : i + 1 \in 1..Len(down) /\ down'[i] = down[i + 1]
        BY <3>1, TailOf DEF TypeInv
      <4> QED
        BY <1>5, <2>1, <4>1
    <3>2. CASE down' = <<>>
      BY <3>2
    <3> QED
      BY <2>1, <3>1, <3>2
  <2> QED
    BY <1>4, <2>1, <2>2
<1>10. CASE ClockStep
  <2>1. /\ UNCHANGED <<pending, down, decision, revokedAt>> /\ now' = now + 1 /\ InTime
        /\ pending # None => now - pending.sent < WorkerDelay
    BY <1>10 DEF ClockStep, RClockStep, gvars
  <2>2. P
    BY <1>0, <1>1, <1>2, <2>1 DEF P, Sound, Alive
  <2>3. ASSUME NEW i \in 1..Len(down)
        PROVE  D(down[i])
    BY <1>0, <1>1, <1>2, <2>1 DEF D, Sound, Alive, InTime
  <2> QED
    BY <2>1, <2>2, <2>3
<1>11. CASE UNCHANGED <<now, pending, down>>
  BY <1>4, <1>5, <1>11
<1> QED
  BY NextCases, <1>6, <1>7, <1>8, <1>9, <1>10, <1>11
     DEF Change, PublishReferee, PublishState, BoardSend, LoseUp, OnReferee, WorkerRx, WorkerStore,
         AppRead, AppLoad, AppJudge, gateVars, gvars, rvars

-----------------------------------------------------------------------------
(* A permission in use is the one in the status, or a newer report has     *)
(* come since.                                                             *)
LEMMA FollowStep ==
  ASSUME TypeInv, TypeInv', UpInv, StoreInv, CopyInv, DownInv, FollowInv, [Next]_gateVars
  PROVE  FollowInv'
<1>0. /\ torn \in BOOLEAN /\ torn' \in BOOLEAN /\ now \in Nat /\ now' \in Nat
      /\ AppDelay \in Nat /\ AppDelay' = AppDelay /\ status \in Statuses
      /\ status.hostTs \in Nat
      /\ app # Idle => app.since \in Nat /\ app.since <= now /\ now - app.since <= AppDelay
      /\ pending # None => pending.sent \in Nat /\ pending.sent <= now
      /\ rx # Idle => rx.new \in Statuses /\ rx.new.hostTs \in Nat
  BY Delays, Forward, Shapes
     DEF TypeInv, CopyInv, DownInv, Statuses, Copies, Verdicts, DownFrames
<1>1. CASE OnReferee \/ WorkerRx
  <2>1. /\ UNCHANGED <<app, pending, torn, now>> /\ rx = Idle /\ up # <<>>
        /\ \/ status' = Received(Head(up)) /\ rx' = rx
           \/ status' = status /\ rx' = [pc |-> "valid", new |-> Received(Head(up))]
    BY <1>1 DEF OnReferee, WorkerRx, TakeUp, TypeInv
  <2>2. Received(Head(up)).hostTs = now
    BY <2>1, ReceivedBacked
  <2>3. \/ status'.hostTs = now /\ rx' = Idle
        \/ rx' # Idle /\ rx'.new.hostTs = now
    BY <2>1, <2>2 DEF Idle
  <2> QED
    BY <1>0, <2>1, <2>3 DEF FollowInv, Current
<1>2. CASE WorkerStore
  <2>1. UNCHANGED <<app, pending, now>> /\ (~torn' => ~torn) /\ rx # Idle
    BY <1>0, <1>2 DEF WorkerStore, rvars
  <2>2. \/ rx' # Idle /\ rx'.new = rx.new
        \/ rx' = Idle /\ status'.hostTs = rx.new.hostTs
    BY <1>2, StoreEffect DEF Fields
  <2> QED
    BY <1>0, <2>1, <2>2 DEF FollowInv, Current
<1>3. CASE AppRead
  <2>1. /\ app' = [pc |-> "done", copy |-> status, since |-> now] /\ rx = Idle /\ ~torn
        /\ UNCHANGED <<pending, status, rx, torn>>
    BY <1>3 DEF AppRead, TypeInv
  <2> QED
    BY <1>0, <2>1 DEF FollowInv, Current
<1>4. CASE AppLoad
  <2>0. UNCHANGED <<now, pending, status, rx>>
    BY <1>4 DEF AppLoad, rvars
  <2>1. CASE app = Idle
    <3>1. app'.pc = "allowed" /\ (~torn' => rx' = Idle)
      BY <1>4, <2>0, <2>1, FirstLoad
    <3> QED
      BY <1>0, <2>0, <3>1 DEF FollowInv, Current
  <2>2. CASE app # Idle
    <3>1. /\ app'.since = app.since /\ torn' = torn
          /\ app'.pc \in {"hostTs", "done"}
          /\ ~torn /\ app'.pc = "done" => /\ app'.copy.valid = status.valid
                                          /\ app'.copy.allowed = status.allowed
      BY <1>4, <2>2, NextLoad DEF CopyInv
    <3> QED
      BY <1>0, <2>0, <2>2, <3>1 DEF FollowInv, Current
  <2> QED
    BY <2>1, <2>2
<1>5. CASE AppJudge
  <2>1. /\ app' = [pc |-> "write", on |-> CanFire(app.copy), since |-> app.since]
        /\ app.pc = "done" /\ app # Idle
        /\ UNCHANGED <<pending, status, rx, torn>>
    BY <1>5, Shapes DEF AppJudge
  <2>2. /\ app'.since = app.since /\ app'.pc = "write"
        /\ app'.on => app.copy.valid /\ app.copy.allowed
    BY <2>1 DEF CanFire
  <2> QED
    BY <1>0, <2>1, <2>2 DEF FollowInv, Current
<1>6. CASE QueueFire
  <2>1. /\ app' = Idle /\ pending' = Fire(app.on, torn) /\ app.pc = "write" /\ app # Idle
        /\ UNCHANGED <<status, rx>>
    BY <1>6, Shapes DEF QueueFire
  <2>2. pending'.sent = now /\ pending'.on = app.on /\ pending'.torn = torn
    BY <2>1 DEF Fire
  <2>3. app.on /\ ~torn => /\ Current(app.since)
                           /\ rx # Idle => app.since <= rx.new.hostTs
    BY <2>1 DEF FollowInv
  <2>4. now - AppDelay <= app.since
    BY <1>0, <2>1
  <2> QED
    BY <1>0, <2>1, <2>2, <2>3, <2>4 DEF FollowInv, Current
<1>7. CASE AppWrite
  BY <1>0, <1>7 DEF AppWrite, FollowInv, Current
<1>8. CASE WorkerSend
  BY <1>0, <1>8 DEF WorkerSend, FollowInv, Current
<1>9. CASE UNCHANGED <<app, pending, status, rx, torn>>
  BY <1>0, <1>9 DEF FollowInv, Current
<1> QED
  BY NextCases, <1>1, <1>2, <1>3, <1>4, <1>5, <1>6, <1>7, <1>8, <1>9
     DEF Reconnect, ClockStep, gateVars, gvars

-----------------------------------------------------------------------------
LEMMA InitInv == Init => IInv
<1> SUFFICES ASSUME Init PROVE IInv
  OBVIOUS
<1>1. TypeInv
  <2>1. /\ program \in Programs /\ now \in Nat /\ decision = "deny" /\ revokedAt = 0
        /\ slot = None /\ rx = Idle /\ app = Idle /\ pending = None
        /\ up = <<>> /\ down = <<>> /\ ~torn /\ torn \in BOOLEAN
    BY RefereeAssumption DEF Init, RInit
  <2>2. status \in Statuses
    BY DEF Init, NoStatus, Statuses
  <2>3. up \in Seq(UpFrames) /\ down \in Seq(DownFrames)
    BY <2>1
  <2>4. app.pc \notin Fields
    BY <2>1 DEF Idle, Fields
  <2> QED
    BY <2>1, <2>2, <2>3, <2>4 DEF TypeInv
<1>2. UpInv /\ DownInv
  BY DEF Init, RInit, UpInv, DownInv
<1>3. StoreInv
  BY RefereeAssumption DEF Init, RInit, StoreInv, NoStatus, Backed
<1>4. CopyInv /\ FollowInv
  BY DEF Init, RInit, CopyInv, FollowInv, Idle
<1> QED
  BY <1>1, <1>2, <1>3, <1>4 DEF IInv, BackInv

(* The invariant holds in every reachable state.                           *)
THEOREM InvCorrect == Spec => []IInv
<1>1. IInv /\ [Next]_gateVars => IInv'
  BY TypeStep, UpStep, StoreStep, CopyStep, DownStep, FollowStep DEF IInv, BackInv
<1> QED
  BY InitInv, <1>1, PTL DEF Spec, gateVars

(* No FIRE frame says "on" later after the end of the permission than the  *)
(* sum of the delays and the staleness limit, in either program.           *)
THEOREM BackedUnlessTornCorrect == Spec => []BackedUnlessTorn
<1>1. IInv => BackedUnlessTorn
  <2> SUFFICES ASSUME IInv, NEW i \in 1..Len(down), down[i].on, ~down[i].torn
               PROVE  PermissionAge <= Latency
    BY DEF BackedUnlessTorn
  <2>1. down[i] \in DownFrames /\ now \in Nat /\ revokedAt \in Nat /\ program \in Programs
    BY DEF IInv, BackInv, TypeInv
  <2>2. down[i].sent \in Nat
    BY <2>1 DEF DownFrames
  <2>3. /\ now - down[i].sent <= LineDelay
        /\ Alive(down[i].sent - (WorkerDelay + AppDelay + Stale + Carry))
    BY DEF IInv, BackInv, DownInv
  <2>4. /\ Stale \in Nat /\ SlotDelay \in Nat /\ LineDelay \in Nat
        /\ AppDelay \in Nat /\ WorkerDelay \in Nat /\ Carry = SlotDelay + LineDelay
    BY <2>1, Delays
  <2>5. Latency \in Nat /\ now - Latency <= down[i].sent - (WorkerDelay + AppDelay + Stale + Carry)
    BY <2>1, <2>2, <2>3, <2>4 DEF Latency
  <2>6. CASE decision = "allow"
    BY <2>5, <2>6 DEF PermissionAge
  <2>7. CASE decision # "allow"
    <3> DEFINE t == down[i].sent - (WorkerDelay + AppDelay + Stale + Carry)
    <3>0. t \in Int /\ t <= revokedAt /\ now - Latency <= t
      BY <2>2, <2>3, <2>4, <2>5, <2>7 DEF Alive
    <3> HIDE DEF t
    <3>1. now - revokedAt <= Latency
      BY <2>1, <2>5, <3>0
    <3> QED
      BY <2>7, <3>1 DEF PermissionAge
  <2> QED
    BY <2>6, <2>7
<1> QED
  BY <1>1, InvCorrect, PTL

(* A FIRE frame that says "on" leaves at most the delays of the threads    *)
(* after a report that forbids it has arrived.                             *)
THEOREM FollowsStatusCorrect == Spec => FollowsStatus
<1> DEFINE N == Len(down') > Len(down) /\ down'[Len(down')].on /\ ~down'[Len(down')].torn
                  => \/ status.valid /\ status.allowed
                     \/ rx # Idle
                     \/ now - status.hostTs <= AppDelay + WorkerDelay
<1>1. IInv /\ [Next]_gateVars => [N]_gateVars
  <2> SUFFICES ASSUME IInv, [Next]_gateVars,
                      Len(down') > Len(down), down'[Len(down')].on, ~down'[Len(down')].torn
               PROVE  \/ status.valid /\ status.allowed
                      \/ rx # Idle
                      \/ now - status.hostTs <= AppDelay + WorkerDelay
    OBVIOUS
  <2>0. /\ TypeInv /\ FollowInv /\ CopyInv /\ DownInv
        /\ now \in Nat /\ status.hostTs \in Nat
        /\ AppDelay \in Nat /\ WorkerDelay \in Nat
        /\ down \in Seq(DownFrames) /\ Len(down) \in Nat
    BY Delays DEF IInv, BackInv, TypeInv, Statuses
  <2>1. CASE AppWrite
    <3>0. program = "Dm02" /\ app.pc = "write" /\ down' # down
      BY <2>0, <2>1, Longer DEF AppWrite
    <3>1. app # Idle /\ ~torn /\ down' = Append(down, Fire(app.on, FALSE))
      BY <2>0, <2>1, <3>0, Shapes DEF AppWrite, TypeInv
    <3>2. app \in Verdicts /\ app.on \in BOOLEAN /\ app.since \in Nat
      BY <2>0, <3>0, Shapes DEF Verdicts
    <3>3. Fire(app.on, FALSE) \in DownFrames
      BY <2>0, <3>2 DEF Fire, DownFrames
    <3>4. down'[Len(down')] = Fire(app.on, FALSE)
      <4>1. Append(down, Fire(app.on, FALSE))[Len(Append(down, Fire(app.on, FALSE)))]
              = Fire(app.on, FALSE)
        BY <2>0, <3>3, AppendOf
      <4> QED
        BY <3>1, <4>1
    <3>5. app.on
      BY <3>4 DEF Fire
    <3>6. Current(app.since) /\ now - app.since <= AppDelay
      BY <2>0, <3>0, <3>1, <3>5 DEF FollowInv, CopyInv
    <3> QED
      BY <2>0, <3>2, <3>6 DEF Current
  <2>2. CASE WorkerSend
    <3> DEFINE f == [pending EXCEPT !.sent = now]
    <3>1. pending # None /\ down' = Append(down, f)
      BY <2>2 DEF WorkerSend
    <3>2. pending \in DownFrames /\ pending.sent \in Nat
      BY <2>0, <3>1, Shapes DEF DownFrames
    <3>3. f \in DownFrames /\ f.on = pending.on /\ f.torn = pending.torn
      BY <2>0, <3>2 DEF DownFrames
    <3>4. down'[Len(down')] = f
      BY <2>0, <3>1, <3>3, AppendOf
    <3>5. Current(pending.sent - AppDelay) /\ now - pending.sent <= WorkerDelay
      BY <2>0, <3>1, <3>3, <3>4 DEF FollowInv, DownInv
    <3> QED
      BY <2>0, <3>2, <3>5 DEF Current
  <2>3. CASE down' = down
    BY <2>0, <2>3
  <2>4. CASE (down # <<>> /\ down' = Tail(down)) \/ down' = <<>>
    BY <2>0, <2>4, TailOf
  <2> QED
    BY NextCases, <2>1, <2>2, <2>3, <2>4
       DEF Change, PublishReferee, PublishState, BoardSend, BoardFire, LoseUp, OnReferee, WorkerRx,
           WorkerStore, AppRead, AppLoad, AppJudge, QueueFire, Reconnect, ClockStep, RClockStep,
           gateVars, rvars
<1>2. IInv /\ [Next]_<<rvars, gvars>> => [N]_<<rvars, gvars>>
  BY <1>1 DEF gateVars
<1> QED
  BY <1>2, InvCorrect, PTL DEF Spec, FollowsStatus
=============================================================================
