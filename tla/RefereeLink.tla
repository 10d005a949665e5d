----------------------------- MODULE RefereeLink -----------------------------
(***************************************************************************)
(* What the fire gates of the host have in common: the referee's decision  *)
(* as the board knows it, the board's pending slot, the serial line in     *)
(* both directions and the clock.  The board publishes REFEREE frames      *)
(* (gimbal_channel.c) through the slot it shares with its STATE frames;    *)
(* it executes the FIRE frames of the host.  Frames may be lost but do not *)
(* live longer than the line takes.                                        *)
(***************************************************************************)
EXTENDS Integers, Sequences

CONSTANTS
  Timing,        \* the times below, for each program
  InvalidWords,  \* status words without VALID: TIMEOUT, ERROR, NOT_READY
  Start,         \* the host's clock when the link starts
  LineCap,       \* bound on the frames under way in one direction
  MaxChanges     \* bound on changes of the referee's decision

Programs == {"Dm02", "sentry"}

VALID == 1       \* GIMBAL_REFEREE_STATUS_VALID

ASSUME RefereeAssumption ==
  /\ Timing \in [Programs -> [stale : Nat, slot : Nat, line : Nat, app : Nat, worker : Nat,
                             end : Nat]]
  /\ InvalidWords \subseteq {w \in Nat : w # 0 /\ w % 2 = 0}
  /\ Start \in Nat \ {0}
  /\ LineCap \in Nat \ {0}
  /\ MaxChanges \in Nat

VARIABLES
  program,    \* the program that runs on the host
  now,        \* the steady clock of the host
  decision,   \* the referee's decision: "allow", "deny" or "invalid"
  changes,    \* how often it changed
  revokedAt,  \* history: when it last stopped being "allow"
  slot,       \* the board's pending slot for the gimbal channel
  up,         \* frames from the board to the host
  down        \* FIRE frames from the host to the board

rvars == <<program, now, decision, changes, revokedAt, slot, up, down>>

Stale       == Timing[program].stale   \* kRefereeStaleNs
SlotDelay   == Timing[program].slot    \* longest wait in the board's pending slot
LineDelay   == Timing[program].line    \* longest way over the line, one direction
AppDelay    == Timing[program].app     \* longest time from the copy of the status to the command
WorkerDelay == Timing[program].worker  \* longest turn of the sentry's worker
MaxTime     == Timing[program].end     \* bound on the clock

None == [kind |-> "NONE"]

(* gimbal_channel_publish_referee: fire_allowed and the status word.  A    *)
(* board without valid data may report either value of fire_allowed.       *)
RefereeFrames ==
  [kind : {"REFEREE"}, allowed : {decision = "allow"}, word : {VALID}, sent : {now}]

InvalidFrames ==
  [kind : {"REFEREE"}, allowed : BOOLEAN, word : InvalidWords, sent : {now}]

StateFrame == [kind |-> "STATE", sent |-> now]

RInit ==
  /\ program \in Programs
  /\ now = Start
  /\ decision = "deny"
  /\ changes = 0
  /\ revokedAt = 0
  /\ slot = None
  /\ up = <<>>
  /\ down = <<>>

Change ==
  /\ changes < MaxChanges
  /\ changes' = changes + 1
  /\ decision' \in {"allow", "deny", "invalid"} \ {decision}
  /\ revokedAt' = IF decision = "allow" THEN now ELSE revokedAt
  /\ UNCHANGED <<program, now, slot, up, down>>

(* gimbal_channel_publish_referee, after a query or on the board's own     *)
(* account: the frame replaces what is pending.                            *)
PublishReferee ==
  /\ slot' \in IF decision = "invalid" THEN InvalidFrames ELSE RefereeFrames
  /\ UNCHANGED <<program, now, decision, changes, revokedAt, up, down>>

(* gimbal_channel_publish: so does the periodic state.                     *)
PublishState ==
  /\ slot' = StateFrame
  /\ UNCHANGED <<program, now, decision, changes, revokedAt, up, down>>

(* The arbiter's turn.  STATE frames leave the referee status of the host  *)
(* alone and are not followed further.                                     *)
BoardSend ==
  /\ slot # None
  /\ Len(up) < LineCap
  /\ up' = IF slot.kind = "REFEREE" THEN Append(up, [slot EXCEPT !.sent = now]) ELSE up
  /\ slot' = None
  /\ UNCHANGED <<program, now, decision, changes, revokedAt, down>>

(* How long ago the permission to fire ended, 0 while it lasts.            *)
PermissionAge == IF decision = "allow" THEN 0 ELSE now - revokedAt

(* gimbal on_rx takes a FIRE frame off the line; a frame that is lost on   *)
(* the way there leaves it likewise.                                       *)
BoardFire ==
  /\ down # <<>>
  /\ down' = Tail(down)
  /\ UNCHANGED <<program, now, decision, changes, revokedAt, slot, up>>

LoseUp ==
  /\ up # <<>>
  /\ up' = Tail(up)
  /\ UNCHANGED <<program, now, decision, changes, revokedAt, slot, down>>

(* Time passes only as long as no frame is overdue.                        *)
InTime ==
  /\ slot # None => now - slot.sent < SlotDelay
  /\ \A i \in 1..Len(up) : now - up[i].sent < LineDelay
  /\ \A i \in 1..Len(down) : now - down[i].sent < LineDelay

RClockStep ==
  /\ now < MaxTime
  /\ InTime
  /\ now' = now + 1
  /\ UNCHANGED <<program, decision, changes, revokedAt, slot, up, down>>

BoardNext ==
  \/ Change \/ PublishReferee \/ PublishState \/ BoardSend \/ BoardFire \/ LoseUp

=============================================================================
