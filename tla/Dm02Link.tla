------------------------------ MODULE Dm02Link -------------------------------
(***************************************************************************)
(* LinkImpl (io/dm02/impl/link_impl.cpp) with its two threads.  The io     *)
(* thread steps the driver, pushes every pose it receives into a bounded   *)
(* queue, and reconnects when the device is gone.  The application thread  *)
(* asks for the pose at a frame's time, q(t), sends a command, and may     *)
(* destroy the link.  Nothing but the queue has a lock of its own; the     *)
(* driver has none.                                                        *)
(*                                                                         *)
(* Times only matter compared with the t of the running or last call of    *)
(* q: a pose is "before", "at" or "after" it.  Poses are stamped on        *)
(* arrival with a nanosecond clock, so no two are at the same time, and a  *)
(* frame's time has passed when q is called.                               *)
(***************************************************************************)
EXTENDS Integers, Sequences

CONSTANTS
  QueueCap,    \* capacity of queue_, 1000
  ErrorLimit,  \* error_count above which io_thread reconnects, 2000
  MaxRetry     \* kMaxRetry of reconnect, 10

ASSUME LinkAssumption ==
  /\ QueueCap \in Nat \ {0}
  /\ ErrorLimit \in Nat
  /\ MaxRetry \in Nat \ {0}

VARIABLES
  device,   \* the board is plugged in
  port,     \* serial_: "none", "ok", or "broken" (opened, and unplugged since)
  io,       \* the io thread: pc, error_count and the attempts of reconnect
  queue,    \* queue_
  app,      \* the application thread: pc and the pose q popped
  quit,     \* quit_
  answer    \* history: the two poses the last call of q used

vars == <<device, port, io, queue, app, quit, answer>>

Labels == {"before", "at", "after"}
Poses  == Labels \cup {"none"}

(* Driver::is_open: open and close keep it in step with the port.          *)
IsOpen == port # "none"

(* Earlier poses first, no two at the same time.                           *)
Follows(x, y) == \/ x = "before"
                 \/ y = "after"

Ordered(s) == \A i, j \in 1..Len(s) : i < j => Follows(s[i], s[j])

Orders == {s \in UNION {[1..n -> Labels] : n \in 0..QueueCap} : Ordered(s)}

(* The constructor has opened the port and started the thread, and waits   *)
(* for the first pose.                                                     *)
Init ==
  /\ device = TRUE
  /\ port = "ok"
  /\ io = [pc |-> "loop", errors |-> 0, tries |-> 0]
  /\ queue = <<>>
  /\ app = [pc |-> "ctor", a |-> "none"]
  /\ quit = FALSE
  /\ answer = <<"none", "none">>

-----------------------------------------------------------------------------
(* The io thread.                                                          *)

IoGoto(pc) == io' = [io EXCEPT !.pc = pc]

(* The head of the loop: leave, reconnect, or step the driver.             *)
IoLoop ==
  /\ io.pc = "loop"
  /\ \/ quit /\ IoGoto("stopped")
     \/ ~quit /\ IsOpen /\ IoGoto("step")
     \/ ~quit /\ ~IsOpen /\ io' = [io EXCEPT !.pc = "close", !.tries = 0]
  /\ UNCHANGED <<device, port, queue, app, quit, answer>>

(* ThreadSafeQueue::push: a full queue drops the new pose.                 *)
Push(x) == queue' = IF Len(queue) >= QueueCap THEN queue ELSE Append(queue, x)

(* driver.step: frames that arrived are handled; a STATE frame becomes a   *)
(* pose.  It is later than t when it comes after the call, unless the call *)
(* is for this very moment.                                                *)
PoseNow(x) ==
  /\ x \in {"at", "after"}
  /\ x = "at" => /\ app.pc \in {"pop", "front"}
                 /\ app.a # "after"
                 /\ app.a # "at"
                 /\ \A i \in 1..Len(queue) : queue[i] = "before"

IoPose ==
  /\ io.pc = "step"
  /\ port = "ok"
  /\ \E x \in Labels : PoseNow(x) /\ Push(x)
  /\ io' = [io EXCEPT !.pc = "loop", !.errors = 0]
  /\ UNCHANGED <<device, port, app, quit, answer>>

IoQuiet ==
  /\ io.pc = "step"
  /\ port = "ok"
  /\ io' = [io EXCEPT !.pc = "loop", !.errors = 0]
  /\ UNCHANGED <<device, port, queue, app, quit, answer>>

(* Mutant: an error that is caught is not counted.                         *)
IoThrowUncounted ==
  /\ io.pc = "step"
  /\ port = "broken"
  /\ IoGoto("loop")
  /\ UNCHANGED <<device, port, queue, app, quit, answer>>

(* Reading a port whose device is gone throws; after enough of it in a row *)
(* the thread reconnects.                                                  *)
IoThrow ==
  /\ io.pc = "step"
  /\ port = "broken"
  /\ io' = IF io.errors + 1 > ErrorLimit
           THEN [pc |-> "close", errors |-> 0, tries |-> 0]
           ELSE [io EXCEPT !.pc = "loop", !.errors = @ + 1]
  /\ UNCHANGED <<device, port, queue, app, quit, answer>>

(* Mutant: the attempts have no end, and quit_ is not looked at.           *)
RcCloseForever ==
  /\ io.pc = "close"
  /\ io' = [io EXCEPT !.pc = "open", !.tries = 0]
  /\ port' = "none"
  /\ UNCHANGED <<device, queue, app, quit, answer>>

(* reconnect: the head of its loop and close().                            *)
RcClose ==
  /\ io.pc = "close"
  /\ IF io.tries < MaxRetry /\ ~quit
     THEN IoGoto("open") /\ port' = "none"
     ELSE IoGoto("loop") /\ UNCHANGED port
  /\ UNCHANGED <<device, queue, app, quit, answer>>

(* After a pause, open(); on failure another pause and the next attempt.   *)
RcOpen ==
  /\ io.pc = "open"
  /\ IF device
     THEN IoGoto("clear") /\ port' = "ok"
     ELSE io' = [io EXCEPT !.pc = "close", !.tries = @ + 1] /\ UNCHANGED port
  /\ UNCHANGED <<device, queue, app, quit, answer>>

(* queue_.clear() and the return to io_thread.                             *)
RcClear ==
  /\ io.pc = "clear"
  /\ queue' = <<>>
  /\ IoGoto("loop")
  /\ UNCHANGED <<device, port, app, quit, answer>>

Io == IoLoop \/ IoPose \/ IoQuiet \/ IoThrow \/ RcClose \/ RcOpen \/ RcClear

-----------------------------------------------------------------------------
(* The application thread.                                                 *)

(* The constructor's queue_.pop().                                         *)
FirstPose ==
  /\ app.pc = "ctor"
  /\ queue # <<>>
  /\ queue' = Tail(queue)
  /\ app' = [app EXCEPT !.pc = "idle"]
  /\ UNCHANGED <<device, port, io, quit, answer>>

(* q(t) for a frame later than the last one: what was not after the old t  *)
(* is before the new one.                                                  *)
QCall ==
  /\ app.pc = "idle"
  /\ app' = [pc |-> "pop", a |-> "none"]
  /\ \E s \in Orders :
       /\ Len(s) = Len(queue)
       /\ \A i \in 1..Len(s) : queue[i] # "after" => s[i] = "before"
       /\ queue' = s
  /\ UNCHANGED <<device, port, io, quit, answer>>

QPop ==
  /\ app.pc = "pop"
  /\ queue # <<>>
  /\ queue' = Tail(queue)
  /\ app' = [pc |-> "front", a |-> Head(queue)]
  /\ UNCHANGED <<device, port, io, quit, answer>>

(* Mutant: a pair that lies before t is used as well.                      *)
PairAnywhere(a, b) == a # "at"

(* Mutant: q goes on when t lies before both poses.                        *)
PairAroundOnly(a, b) == a = "before" /\ b # "before"

(* The two conditions under which q returns instead of going on.           *)
Usable(a, b) == a = "after" \/ (a = "before" /\ b # "before")

(* front(), the interpolation and the decision.                            *)
QFront ==
  /\ app.pc = "front"
  /\ queue # <<>>
  /\ IF Usable(app.a, Head(queue))
     THEN /\ app' = [pc |-> "send", a |-> "none"]
          /\ answer' = <<app.a, Head(queue)>>
     ELSE /\ app' = [pc |-> "pop", a |-> "none"]
          /\ UNCHANGED answer
  /\ UNCHANGED <<device, port, io, queue, quit>>

(* LinkImpl::send, send_fire, send_chassis: nothing over a closed link,    *)
(* else a call into the driver.                                            *)
SendCheck ==
  /\ app.pc = "send"
  /\ app' = [app EXCEPT !.pc = IF IsOpen THEN "write" ELSE "idle"]
  /\ UNCHANGED <<device, port, io, queue, quit, answer>>

SendWrite ==
  /\ app.pc = "write"
  /\ app' = [app EXCEPT !.pc = "idle"]
  /\ UNCHANGED <<device, port, io, queue, quit, answer>>

(* The destructor: quit_, join, close.                                     *)
Quit ==
  /\ app.pc = "idle"
  /\ quit' = TRUE
  /\ app' = [app EXCEPT !.pc = "join"]
  /\ UNCHANGED <<device, port, io, queue, answer>>

Join ==
  /\ app.pc = "join"
  /\ io.pc = "stopped"
  /\ port' = "none"
  /\ app' = [app EXCEPT !.pc = "done"]
  /\ UNCHANGED <<device, io, queue, quit, answer>>

App == FirstPose \/ QPop \/ QFront \/ SendCheck \/ SendWrite \/ Join

-----------------------------------------------------------------------------
(* The cable.                                                              *)
Unplug ==
  /\ device
  /\ device' = FALSE
  /\ port' = IF port = "ok" THEN "broken" ELSE port
  /\ UNCHANGED <<io, queue, app, quit, answer>>

Plug ==
  /\ ~device
  /\ device' = TRUE
  /\ UNCHANGED <<port, io, queue, app, quit, answer>>

Next == Io \/ App \/ QCall \/ Quit \/ Unplug \/ Plug

Spec == Init /\ [][Next]_vars

(* Both threads keep running when they can, and a board that is connected  *)
(* keeps sending its state.  Nobody needs to call q, to destroy the link   *)
(* or to touch the cable.                                                  *)
FairSpec ==
  /\ Spec
  /\ WF_vars(Io)
  /\ SF_vars(IoPose)
  /\ WF_vars(App)

-----------------------------------------------------------------------------
(* q(t) uses two poses around t, or two later ones in order (it            *)
(* extrapolates back when several frames fall between two poses); never    *)
(* poses that t has left behind, although the queue may overflow or be     *)
(* cleared between the pop and the front.                                  *)
AroundFrame ==
  answer \in {<<"none", "none">>, <<"before", "at">>, <<"before", "after">>, <<"after", "after">>}

(* Waiting for poses ends: with a port that stays healthy q returns, and   *)
(* so does the constructor.                                                *)
QReturns ==
  (<>[](port = "ok")) => (app.pc \in {"ctor", "pop", "front"} ~> app.pc \in {"idle", "send"})

(* A device that stays plugged in is used again, whenever it was lost and  *)
(* however many attempts have failed, unless the link is destroyed.        *)
Recovers == device ~> (port = "ok" \/ ~device \/ quit)

(* The destructor ends, even while the io thread is reconnecting.          *)
Stops == app.pc = "join" ~> app.pc = "done"

=============================================================================
