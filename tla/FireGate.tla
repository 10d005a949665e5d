------------------------------ MODULE FireGate -------------------------------
(***************************************************************************)
(* The fire gates of the host: a thread that receives REFEREE frames       *)
(* stores the status, another one copies it, judges it by the clock and    *)
(* sends a FIRE frame.                                                     *)
(*                                                                         *)
(* io::Dm02: the io thread of LinkImpl stores and Dm02::send copies under  *)
(* one mutex; the link may go down and come back, which keeps the status.  *)
(* sentry.cpp: DmWorker stores the fields in one atomic variable each, the *)
(* main loop loads them one by one and leaves the command to the worker.   *)
(***************************************************************************)
EXTENDS RefereeLink

VARIABLES
  status,    \* LinkImpl::referee_; referee_valid, referee_fire_allowed, referee_host_ts_ns
  rx,        \* the sentry's worker in on_referee_status: the frame and the next field
  app,       \* the judging thread: its step, its copy, and since when
  pending,   \* the sentry's pending_fire
  isOpen,    \* Driver::is_open
  torn       \* history: the copy overlaps the worker's stores

gvars == <<status, rx, app, pending, isOpen, torn>>

Idle == [pc |-> "idle"]

Fields == {"valid", "allowed", "hostTs"}

(* The order of the fields, in the stores and in the loads.                *)
NextField == [valid |-> "allowed", allowed |-> "hostTs", hostTs |-> "done"]

NoStatus == [valid |-> FALSE, allowed |-> FALSE, hostTs |-> 0]

Init ==
  /\ RInit
  /\ status = NoStatus
  /\ rx = Idle
  /\ app = Idle
  /\ pending = None
  /\ isOpen = TRUE
  /\ torn = FALSE

(* The validity the host derives from the status word; 0 is taken for an   *)
(* old board that sends none.                                              *)
IsValid(word) == IF word # 0 THEN word % 2 = 1 ELSE TRUE

Received(f) == [valid |-> IsValid(f.word), allowed |-> f.allowed, hostTs |-> now]

TakeUp == up # <<>> /\ up' = Tail(up)

(* LinkImpl: the frame is handled and stored under the mutex.              *)
OnReferee ==
  /\ program = "Dm02"
  /\ isOpen
  /\ TakeUp
  /\ status' = Received(Head(up))
  /\ UNCHANGED <<program, now, decision, changes, revokedAt, slot, down, rx, app, pending, isOpen, torn>>

(* DmWorker: step() hands a frame to on_referee_status.                    *)
WorkerRx ==
  /\ program = "sentry"
  /\ rx = Idle
  /\ TakeUp
  /\ rx' = [pc |-> "valid", new |-> Received(Head(up))]
  /\ UNCHANGED <<program, now, decision, changes, revokedAt, slot, down, status, app, pending,
                 isOpen, torn>>

WorkerStore ==
  /\ rx # Idle
  /\ status' = [status EXCEPT ![rx.pc] = rx.new[rx.pc]]
  /\ rx' = IF rx.pc = "hostTs" THEN Idle ELSE [rx EXCEPT !.pc = NextField[rx.pc]]
  /\ torn' = (torn \/ app.pc \in {"allowed", "hostTs"})
  /\ UNCHANGED <<rvars, app, pending, isOpen>>

-----------------------------------------------------------------------------
(* Dm02::send, called with control and fire: the copy of the status.       *)
AppRead ==
  /\ program = "Dm02"
  /\ app = Idle
  /\ Len(down) < LineCap
  /\ app' = [pc |-> "done", copy |-> status, since |-> now]
  /\ UNCHANGED <<rvars, status, rx, pending, isOpen, torn>>

(* The sentry's main loop: one load after the other.                       *)
AppLoad ==
  /\ program = "sentry"
  /\ \/ /\ app = Idle
        /\ app' = [pc |-> "allowed", copy |-> [NoStatus EXCEPT !.valid = status.valid], since |-> now]
        /\ torn' = (rx # Idle)
     \/ /\ app.pc \in Fields
        /\ app' = [app EXCEPT !.pc = NextField[@], !.copy[app.pc] = status[app.pc]]
        /\ UNCHANGED torn
  /\ UNCHANGED <<rvars, status, rx, pending, isOpen>>

(* Mutant: the age of the status does not matter.                          *)
CanFireAnyAge(rs) == rs.valid /\ rs.allowed /\ rs.hostTs # 0

(* Mutant: a valid and fresh status is enough.                             *)
CanFireIfFresh(rs) == rs.valid /\ rs.hostTs # 0 /\ now - rs.hostTs <= Stale

(* referee_can_fire and referee_runtime::can_fire.                         *)
CanFire(rs) ==
  /\ rs.valid
  /\ rs.allowed
  /\ rs.hostTs # 0
  /\ rs.hostTs <= now
  /\ now - rs.hostTs <= Stale

AppJudge ==
  /\ app.pc = "done"
  /\ app' = [pc |-> "write", on |-> CanFire(app.copy), since |-> app.since]
  /\ UNCHANGED <<rvars, status, rx, pending, isOpen, torn>>

Fire(on, t) == [kind |-> "FIRE", on |-> on, torn |-> t, sent |-> now]

(* LinkImpl::send_fire: nothing is sent over a closed link.                *)
AppWrite ==
  /\ program = "Dm02"
  /\ app.pc = "write"
  /\ app' = Idle
  /\ down' = IF isOpen THEN Append(down, Fire(app.on, FALSE)) ELSE down
  /\ UNCHANGED <<program, now, decision, changes, revokedAt, slot, up, status, rx, pending, isOpen, torn>>

(* queue_fire replaces an older command; the worker sends the newest.      *)
QueueFire ==
  /\ program = "sentry"
  /\ app.pc = "write"
  /\ app' = Idle
  /\ pending' = Fire(app.on, torn)
  /\ torn' = FALSE
  /\ UNCHANGED <<rvars, status, rx, isOpen>>

WorkerSend ==
  /\ rx = Idle
  /\ pending # None
  /\ Len(down) < LineCap
  /\ down' = Append(down, [pending EXCEPT !.sent = now])
  /\ pending' = None
  /\ UNCHANGED <<program, now, decision, changes, revokedAt, slot, up, status, rx, app, isOpen, torn>>

-----------------------------------------------------------------------------
(* reconnect: what was on the line is gone, the status is kept.            *)
Reconnect ==
  /\ program = "Dm02"
  /\ isOpen' = ~isOpen
  /\ up' = <<>>
  /\ down' = <<>>
  /\ UNCHANGED <<program, now, decision, changes, revokedAt, slot, status, rx, app, pending, torn>>

ClockStep ==
  /\ app # Idle => now - app.since < AppDelay
  /\ rx # Idle => now - rx.new.hostTs < WorkerDelay
  /\ pending # None => now - pending.sent < WorkerDelay
  /\ RClockStep
  /\ UNCHANGED gvars

Next ==
  \/ BoardNext /\ UNCHANGED gvars
  \/ OnReferee \/ WorkerRx \/ WorkerStore
  \/ AppRead \/ AppLoad \/ AppJudge \/ AppWrite \/ QueueFire \/ WorkerSend
  \/ Reconnect \/ ClockStep

Spec == Init /\ [][Next]_<<rvars, gvars>>

-----------------------------------------------------------------------------
(* From the permission to the shot: the wait of the report in the slot and *)
(* on the line, the staleness limit, the judging thread, the worker and    *)
(* the way back.                                                           *)
Latency == SlotDelay + LineDelay + Stale + AppDelay + WorkerDelay + LineDelay

(* "when the referee is invalid, timed out or forbids it, shooting is      *)
(* forced off": no FIRE frame says "on" later than that after the          *)
(* permission ended, whatever is lost, delayed or overtaken on the way,    *)
(* unless the copy of the status behind it overlapped a store, which       *)
(* io::Dm02 never does and the sentry may.                                 *)
BackedUnlessTorn ==
  \A i \in 1..Len(down) : down[i].on /\ ~down[i].torn => PermissionAge <= Latency

(* The host follows what it has been told: a FIRE frame that says "on"     *)
(* leaves within the delays of its threads after a status that forbids it  *)
(* arrived, unless the copy was torn.                                      *)
FollowsStatus ==
  [][(Len(down') > Len(down) /\ down'[Len(down')].on /\ ~down'[Len(down')].torn)
        => \/ status.valid /\ status.allowed
           \/ rx # Idle
           \/ now - status.hostTs <= AppDelay + WorkerDelay]_<<rvars, gvars>>

=============================================================================
