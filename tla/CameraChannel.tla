--------------------------- MODULE CameraChannel ----------------------------
(***************************************************************************)
(* The camera channel (io/dm02/protocol/channel/camera/camera_channel.c)   *)
(* on top of the arbiter: every trigger edge queues an EVENT frame, a      *)
(* RESET of the host restarts the frame ids and is acknowledged from the   *)
(* channel's tick.  Both use the channel's one pending slot, and share the *)
(* link with the other channels.  The event FIFO is written and never      *)
(* read, and is left out.                                                  *)
(***************************************************************************)
EXTENDS MuxArbiter

CONSTANTS
  Cam,          \* the camera's channel id
  Other,        \* the message the other channels send
  PublishEvents,\* CAM_EVENT_PUBLISH_ENABLE, off in camera_config.h by default
  MaxTriggers,  \* bound on the trigger edges
  MaxResets     \* bound on the RESETs of the host

Event(e, id) == [kind |-> "EVENT", epoch |-> e, id |-> id]
Ack(e)       == [kind |-> "RESET", epoch |-> e, id |-> 0]

CameraMessages ==
  {Event(e, id) : e \in 0..MaxResets, id \in 1..MaxTriggers}
    \cup {Ack(e) : e \in 0..MaxResets} \cup {Other}

ASSUME CameraAssumption ==
  /\ Cam \in ChannelIds
  /\ PublishEvents \in BOOLEAN
  /\ MaxTriggers \in Nat
  /\ MaxResets \in Nat
  /\ CameraMessages \subseteq Messages

VARIABLES
  nextFrameId,  \* cam->next_frame_id
  ackPending,   \* cam->ack_pending
  epoch,        \* history: RESETs handled
  delivered,    \* history: camera frames the host has received
  overtaken     \* history: a trigger came after the last RESET

cvars == <<nextFrameId, ackPending, epoch, delivered, overtaken>>

(* camera_channel_init_ex, after the channel was registered; the other     *)
(* channels register before or after it.                                   *)
CInit ==
  /\ Init
  /\ nextFrameId = 1
  /\ ackPending = FALSE
  /\ epoch = 0
  /\ delivered = {}
  /\ overtaken = FALSE

IsRegistered(c) == \E i \in Registered : slots[i] = c

(* The channels register when the board starts: the camera at any place,   *)
(* the others, which differ in their priorities only, in order.            *)
CRegister ==
  /\ \E c \in ChannelIds :
       /\ ~IsRegistered(c)
       /\ c = Cam \/ \A d \in ChannelIds \ {Cam} : d < c => IsRegistered(d)
       /\ Register(c)
  /\ UNCHANGED cvars

Running == \A c \in ChannelIds : IsRegistered(c)

(* camera_channel_trigger: the event replaces whatever the slot holds.     *)
Trigger ==
  /\ PublishEvents
  /\ Running
  /\ nextFrameId <= MaxTriggers
  /\ QueueNotify(Cam, Event(epoch, nextFrameId))
  /\ nextFrameId' = nextFrameId + 1
  /\ overtaken' = TRUE
  /\ UNCHANGED <<ackPending, epoch, delivered>>

(* camera_on_rx for a RESET: the acknowledgement is left to the tick.      *)
OnReset ==
  /\ Running
  /\ epoch < MaxResets
  /\ nextFrameId' = 1
  /\ ackPending' = TRUE
  /\ epoch' = epoch + 1
  /\ overtaken' = FALSE
  /\ UNCHANGED <<avars, delivered>>

(* camera_channel_reset: a local reset, which announces nothing.           *)
LocalReset ==
  /\ Running
  /\ nextFrameId' = 1
  /\ UNCHANGED <<avars, ackPending, epoch, delivered, overtaken>>

(* camera_channel_tick: ack_pending is cleared once the ACK was queued.    *)
CameraTick ==
  /\ ackPending
  /\ QueueNotify(Cam, Ack(epoch))
  /\ ackPending' = FALSE
  /\ UNCHANGED <<nextFrameId, epoch, delivered, overtaken>>

OtherTraffic ==
  /\ Running
  /\ \E c \in ChannelIds \ {Cam} : QueueNotify(c, Other)
  /\ UNCHANGED cvars

CArbiterTick ==
  /\ ArbiterTick
  /\ delivered' = (delivered \cup {sent'[Cam]}) \ {NoMessage}
  /\ UNCHANGED <<nextFrameId, ackPending, epoch, overtaken>>

CNext ==
  CRegister \/ Trigger \/ OnReset \/ LocalReset \/ CameraTick \/ OtherTraffic \/ CArbiterTick

CSpec == CInit /\ [][CNext]_<<avars, cvars>>

(* Both periodic functions are called from the main loop of the board.     *)
CFairSpec == CSpec /\ WF_<<avars, cvars>>(CameraTick) /\ WF_<<avars, cvars>>(CArbiterTick)

-----------------------------------------------------------------------------
(* A RESET of the host is acknowledged, however busy the other channels    *)
(* are, unless another RESET or a trigger edge comes before the ACK left.  *)
AckUnlessOvertaken ==
  \A e \in 1..MaxResets :
    epoch = e ~> (Ack(e) \in delivered \/ epoch > e \/ overtaken)

=============================================================================
