---------------------------- MODULE CameraThreads -----------------------------
(***************************************************************************)
(* The two camera drivers, io::HikRobot and io::USBCamera.  A capture      *)
(* thread reads frames and pushes them into a queue of one; a guard thread *)
(* watches a flag of the capture thread and reopens the camera; the        *)
(* application reads frames and destroys the camera.  The flags are set    *)
(* by the threads themselves, so each may be behind what it reports.       *)
(*                                                                         *)
(* A device that is unplugged fails every call on the handle that was      *)
(* opened before, also after it is plugged in again; the same stands for a *)
(* device that fails for once.                                             *)
(***************************************************************************)
EXTENDS Naturals, Sequences

CONSTANTS
  QueueCap,   \* capacity of queue_, 1
  OpenLimit,  \* USBCamera gives up when open_count_ is above it, 20
  MaxFrames,  \* bound on the frames taken
  MaxLate     \* how often a new thread may not have run when the guard looks, 100 ms later

ASSUME CameraAssumption ==
  /\ QueueCap \in Nat \ {0}
  /\ OpenLimit \in Nat
  /\ MaxFrames \in Nat
  /\ MaxLate \in Nat

VARIABLES
  kind,       \* the driver: "hik" or "usb"
  device,     \* the camera is plugged in
  cap,        \* handle_, cap_: "none", "open", "broken" (unplugged since it was opened)
  thread,     \* capture_thread_: "none" (not joinable) or where it is
  flag,       \* capturing_, ok_
  captureQuit,\* capture_quit_ of HikRobot
  quit,       \* daemon_quit_, quit_
  guard,      \* daemon_thread_
  opens,      \* open_count_ of USBCamera
  queue,      \* queue_
  app,        \* the application: reading, destroying
  late,       \* how often the guard looked too early
  captured,   \* history: frames taken
  received    \* history: the frames read

threadVars == <<thread, flag, queue, captured>>
guardVars  == <<guard, captureQuit, opens, late>>
vars == <<kind, device, cap, quit, app, received, threadVars, guardVars>>

Joined == thread \in {"none", "ended"}

(* What open and capture_start do: on success the capture thread starts.   *)
TryOpen ==
  IF device THEN cap' = "open" /\ thread' = "born"
            ELSE UNCHANGED <<cap, thread>>

(* USBCamera opens in its constructor, HikRobot in its guard.              *)
Init ==
  /\ kind \in {"hik", "usb"}
  /\ device \in BOOLEAN
  /\ cap = IF kind = "usb" /\ device THEN "open" ELSE "none"
  /\ thread = IF kind = "usb" /\ device THEN "born" ELSE "none"
  /\ flag = FALSE
  /\ captureQuit = FALSE
  /\ quit = FALSE
  /\ guard = IF kind = "usb" THEN "head" ELSE "open"
  /\ opens = IF kind = "usb" THEN 1 ELSE 0
  /\ queue = <<>>
  /\ app = "run"
  /\ late = 0
  /\ captured = 0
  /\ received = <<>>

-----------------------------------------------------------------------------
(* The capture thread.                                                     *)

CaptureBegin ==
  /\ thread = "born"
  /\ flag' = TRUE
  /\ thread' = "loop"
  /\ UNCHANGED <<kind, device, cap, quit, app, received, queue, captured, guardVars>>

StopAsked == IF kind = "hik" THEN captureQuit ELSE quit

(* MV_CC_GetImageBuffer, cap_.read.                                        *)
CaptureRead ==
  /\ thread = "loop"
  /\ ~StopAsked
  /\ cap = "open"
  /\ captured < MaxFrames
  /\ captured' = captured + 1
  /\ thread' = "hold"
  /\ UNCHANGED <<kind, device, cap, quit, app, received, flag, queue, guardVars>>

(* The loop is left when it is asked to, when the camera was closed and    *)
(* when it cannot be read.                                                 *)
CaptureLeave ==
  /\ thread = "loop"
  /\ StopAsked \/ cap # "open"
  /\ thread' = "last"
  /\ UNCHANGED <<kind, device, cap, quit, app, received, flag, queue, captured, guardVars>>

(* queue_.push drops the new frame when the queue is full.  HikRobot also  *)
(* gives the buffer back, and leaves when that fails.                      *)
CapturePush ==
  /\ thread = "hold"
  /\ queue' = IF Len(queue) < QueueCap THEN Append(queue, captured) ELSE queue
  /\ thread' = IF kind = "hik" /\ cap = "broken" THEN "last" ELSE "loop"
  /\ UNCHANGED <<kind, device, cap, quit, app, received, flag, captured, guardVars>>

(* Mutant: a capture thread that ends leaves its flag set.                 *)
CaptureEndSilent ==
  /\ thread = "last"
  /\ thread' = "ended"
  /\ UNCHANGED <<kind, device, cap, quit, app, received, flag, queue, captured, guardVars>>

CaptureEnd ==
  /\ thread = "last"
  /\ flag' = FALSE
  /\ thread' = "ended"
  /\ UNCHANGED <<kind, device, cap, quit, app, received, queue, captured, guardVars>>

CaptureThread == CaptureBegin \/ CaptureRead \/ CaptureLeave \/ CapturePush \/ CaptureEnd

-----------------------------------------------------------------------------
(* The guard threads.                                                      *)

Guard(from, to) ==
  /\ guard = from
  /\ guard' = to
  /\ UNCHANGED <<kind, device, app, received, queue, captured>>

GuardHead ==
  /\ Guard("head", IF ~quit THEN "check" ELSE IF kind = "hik" THEN "finalStop" ELSE "stopped")
  /\ UNCHANGED <<cap, thread, flag, captureQuit, quit, opens, late>>

(* After the sleep: nothing to do while the flag is set.                   *)
GuardCheck ==
  /\ Guard("check", IF flag THEN "head"
                    ELSE IF kind = "hik" THEN "stop"
                    ELSE IF opens > OpenLimit THEN "giveUp" ELSE "join")
  /\ late' = IF thread = "born" THEN late + 1 ELSE late
  /\ late' <= MaxLate
  /\ UNCHANGED <<cap, thread, flag, captureQuit, quit, opens>>

(* Mutant: capture_stop does not ask the thread to end.                    *)
HikStopUnasked(from, to) ==
  /\ Guard(from, to)
  /\ UNCHANGED <<cap, thread, flag, captureQuit, quit, opens, late>>

(* HikRobot: capture_stop asks the thread to end, joins it and closes the  *)
(* device, unless the device refuses; capture_start resets both flags.     *)
HikStop(from, to) ==
  /\ Guard(from, to)
  /\ captureQuit' = TRUE
  /\ UNCHANGED <<cap, thread, flag, quit, opens, late>>

HikJoin(from, to) ==
  /\ Joined
  /\ Guard(from, to)
  /\ thread' = "none"
  /\ cap' = IF cap = "open" THEN "none" ELSE cap
  /\ UNCHANGED <<flag, captureQuit, quit, opens, late>>

HikOpen ==
  /\ kind = "hik"
  /\ Guard("open", "head")
  /\ flag' = FALSE
  /\ captureQuit' = FALSE
  /\ TryOpen
  /\ UNCHANGED <<quit, opens, late>>

HikGuard ==
  /\ kind = "hik"
  /\ \/ HikStop("stop", "join") \/ HikJoin("join", "open") \/ HikOpen
     \/ HikStop("finalStop", "finalJoin") \/ HikJoin("finalJoin", "stopped")

(* USBCamera: too many attempts end the guard and the capture thread.      *)
UsbGiveUp ==
  /\ Guard("giveUp", "finalJoin")
  /\ quit' = TRUE
  /\ cap' = "none"
  /\ UNCHANGED <<thread, flag, captureQuit, opens, late>>

UsbFinalJoin ==
  /\ Joined
  /\ Guard("finalJoin", "stopped")
  /\ thread' = "none"
  /\ UNCHANGED <<cap, flag, captureQuit, quit, opens, late>>

(* Mutant: the old capture thread is not waited for.                       *)
UsbJoinNone ==
  /\ Guard("join", "open")
  /\ cap' = "none"
  /\ UNCHANGED <<thread, flag, captureQuit, quit, opens, late>>

UsbJoin ==
  /\ Joined
  /\ Guard("join", "open")
  /\ thread' = "none"
  /\ cap' = "none"
  /\ UNCHANGED <<flag, captureQuit, quit, opens, late>>

UsbOpen ==
  /\ Guard("open", "head")
  /\ opens' = opens + 1
  /\ TryOpen
  /\ UNCHANGED <<flag, captureQuit, quit, late>>

UsbGuard == kind = "usb" /\ (UsbGiveUp \/ UsbFinalJoin \/ UsbJoin \/ UsbOpen)

GuardThread == GuardHead \/ GuardCheck \/ HikGuard \/ UsbGuard

-----------------------------------------------------------------------------
(* The application: read blocks in queue_.pop.                             *)
Read ==
  /\ app = "run"
  /\ app' = "read"
  /\ UNCHANGED <<kind, device, cap, quit, received, threadVars, guardVars>>

(* Mutant: the frame is read with front() and stays in the queue.          *)
ReadFront ==
  /\ app = "read"
  /\ queue # <<>>
  /\ received' = Append(received, Head(queue))
  /\ app' = "run"
  /\ UNCHANGED <<kind, device, cap, quit, threadVars, guardVars>>

ReadPop ==
  /\ app = "read"
  /\ queue # <<>>
  /\ queue' = Tail(queue)
  /\ received' = Append(received, Head(queue))
  /\ app' = "run"
  /\ UNCHANGED <<kind, device, cap, quit, thread, flag, captured, guardVars>>

(* The destructors; USBCamera closes before it joins.                      *)
Destroy ==
  /\ app = "run"
  /\ quit' = TRUE
  /\ app' = "close"
  /\ UNCHANGED <<kind, device, cap, received, threadVars, guardVars>>

DestroyClose ==
  /\ app = "close"
  /\ cap' = IF kind = "usb" THEN "none" ELSE cap
  /\ app' = "join"
  /\ UNCHANGED <<kind, device, quit, received, threadVars, guardVars>>

DestroyJoin ==
  /\ app = "join"
  /\ guard = "stopped"
  /\ Joined
  /\ app' = "done"
  /\ UNCHANGED <<kind, device, cap, quit, received, threadVars, guardVars>>

App == ReadPop \/ DestroyClose \/ DestroyJoin

Unplug ==
  /\ device
  /\ device' = FALSE
  /\ cap' = IF cap = "open" THEN "broken" ELSE cap
  /\ UNCHANGED <<kind, quit, app, received, threadVars, guardVars>>

Plug ==
  /\ ~device
  /\ device' = TRUE
  /\ UNCHANGED <<kind, cap, quit, app, received, threadVars, guardVars>>

Next == CaptureThread \/ GuardThread \/ Read \/ App \/ Destroy \/ Unplug \/ Plug

Spec == Init /\ [][Next]_vars

(* Every thread runs on when it can.                                       *)
FairSpec ==
  Spec /\ WF_vars(CaptureThread) /\ WF_vars(GuardThread) /\ WF_vars(App)

-----------------------------------------------------------------------------
(* The reader gets frames in the order they were taken, each once, across  *)
(* drops, reopened devices and restarted capture threads.                  *)
Stream == INSTANCE FrameStream WITH captured <- captured, received <- received

ImplementsStream == Stream!Spec

(* A std::thread that is still joinable is never overwritten, which would  *)
(* terminate the program, although the guard goes by a flag that the       *)
(* thread itself sets and clears.                                          *)
NeverTerminates == [][thread' = "born" => thread \in {"none", "born"}]_vars

(* A camera that stays plugged in captures again, whenever it was lost,    *)
(* unless it is destroyed or the USB guard has given up.                   *)
Recovers == device ~> ((cap = "open" /\ thread = "loop") \/ ~device \/ quit)

(* Destruction ends, whatever the guard and the capture thread are doing.  *)
Stops == app = "close" ~> app = "done"

=============================================================================
