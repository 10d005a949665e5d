------------------------------ MODULE Pipeline -------------------------------
(***************************************************************************)
(* The two ways the repository runs the detector beside the rest:          *)
(*                                                                         *)
(* "mt", mt_standard.cpp: a detect thread reads the camera and starts the  *)
(* inference (MultiThreadDetector::push), the main thread waits for the    *)
(* result, tracks, and leaves the newest targets to the thread of          *)
(* CommandGener, which sends commands from them for as long as they are    *)
(* fresh.                                                                  *)
(*                                                                         *)
(* "pool", camera_thread_test.cpp: the main thread numbers the frames and  *)
(* gives them to a ThreadPool; the workers finish in any order and an      *)
(* OrderedQueue puts the frames back in order for the process thread.  A   *)
(* frame is its number here: the image a worker copies is the one the main *)
(* thread holds at that time, which may be a later one.                    *)
(*                                                                         *)
(* The camera is what CameraThreads is shown to be: frames come in order;  *)
(* they are numbered here as they are read.  Dm02::imu_at, which main      *)
(* calls for each result, is taken to return: see QReturns of Dm02Link.    *)
(***************************************************************************)
EXTENDS Naturals, Sequences, FiniteSets

CONSTANTS
  QueueCap,   \* capacity of queue_ of MultiThreadDetector, 16
  Workers,    \* the threads of the pool, 8
  Fresh,      \* CommandGener uses targets younger than this, 0.2 s
  MaxFrames,  \* bound on the frames; after them the camera is silent
  MaxTime,    \* bound on the clock
  MaxModes    \* bound on changes of the mode

ASSUME PipelineAssumption ==
  /\ QueueCap \in Nat \ {0}
  /\ IsFiniteSet(Workers)
  /\ {Fresh, MaxFrames, MaxTime, MaxModes} \subseteq Nat

VARIABLES
  program,   \* "mt" or "pool"
  exit,      \* exit_, set by SIGINT
  now,       \* the steady clock
  taken,     \* the times at which the frames read so far were taken
  received,  \* history: the frames tracked or processed
  main,      \* the main thread
  stop,      \* CommandGener::stop_, ThreadPool::stop
  (* mt *)
  mode,      \* [is: cboard.mode, seen: the atomic mode of main, changes: their number]
  detect,    \* the detect thread
  queue,     \* MultiThreadDetector::queue_
  latest,    \* CommandGener::latest_, its frame
  gener,     \* the thread of CommandGener
  (* pool *)
  tasks,     \* ThreadPool::tasks
  worker,    \* the workers; yolo is the detector looked at last, or in use
  used,      \* yolo_used: the detectors marked
  ordered,   \* OrderedQueue: current_id_, buffer_, main_queue_
  process,   \* the process thread is in its loop
  missing    \* history: frames no worker found a detector for

envVars  == <<program, exit, now>>
mtVars   == <<mode, detect, queue, latest, gener>>
poolVars == <<tasks, worker, used, ordered, process, missing>>
vars == <<envVars, taken, received, main, stop, mtVars, poolVars>>

At(pc, f) == [pc |-> pc, f |-> f]

None == 0

Init ==
  /\ program \in {"mt", "pool"}
  /\ exit = FALSE
  /\ now = 0
  /\ taken = <<>>
  /\ received = <<>>
  /\ main = At("loop", None)
  /\ stop = FALSE
  /\ mode = [is |-> "idle", seen |-> "idle", changes |-> 0]
  /\ detect = At("loop", None)
  /\ queue = <<>>
  /\ latest = None
  /\ gener = At("loop", None)
  /\ tasks = <<>>
  /\ worker = [w \in Workers |-> [pc |-> "idle", f |-> None, yolo |-> None]]
  /\ used = {}
  /\ ordered = [current |-> 1, buffer |-> {}, ready |-> <<>>]
  /\ process = TRUE
  /\ missing = {}

CameraSilent == Len(taken) = MaxFrames

(* camera.read: the frame may have waited in the camera's queue.           *)
ReadCamera ==
  /\ ~CameraSilent
  /\ \E t \in (IF taken = <<>> THEN 0 ELSE taken[Len(taken)])..now : taken' = Append(taken, t)

-----------------------------------------------------------------------------
(* mt: the detect thread.                                                  *)

(* Mutant: the thread asks the board for the mode.                         *)
DetectLoopOwnMode ==
  /\ detect.pc = "loop"
  /\ \/ exit /\ detect' = At("ended", None)
     \/ ~exit /\ mode.is = "auto_aim" /\ detect' = At("read", None)
  /\ UNCHANGED <<envVars, taken, received, main, stop, mode, queue, latest, gener, poolVars>>

DetectLoop ==
  /\ detect.pc = "loop"
  /\ \/ exit /\ detect' = At("ended", None)
     \/ ~exit /\ mode.seen = "auto_aim" /\ detect' = At("read", None)
  /\ UNCHANGED <<envVars, taken, received, main, stop, mode, queue, latest, gener, poolVars>>

DetectRead ==
  /\ detect.pc = "read"
  /\ ReadCamera
  /\ detect' = At("push", Len(taken'))
  /\ UNCHANGED <<envVars, received, main, stop, mode, queue, latest, gener, poolVars>>

(* detector.push: a full queue drops the new frame.                        *)
DetectPush ==
  /\ detect.pc = "push"
  /\ queue' = IF Len(queue) < QueueCap THEN Append(queue, detect.f) ELSE queue
  /\ detect' = At("loop", None)
  /\ UNCHANGED <<envVars, taken, received, main, stop, mode, latest, gener, poolVars>>

Detect == program = "mt" /\ (DetectLoop \/ DetectRead \/ DetectPush)

-----------------------------------------------------------------------------
(* mt: the main thread.                                                    *)

MainLoop ==
  /\ main.pc = "loop"
  /\ \/ exit /\ main' = At("join", None) /\ UNCHANGED mode
     \/ /\ ~exit
        /\ mode' = [mode EXCEPT !.seen = mode.is]
        /\ main' = IF mode.is = "auto_aim" THEN At("pop", None) ELSE main
  /\ UNCHANGED <<envVars, taken, received, stop, detect, queue, latest, gener, poolVars>>

(* Mutant: the result is read with front() and stays in the queue.         *)
MainFront ==
  /\ main.pc = "pop"
  /\ queue # <<>>
  /\ received' = Append(received, Head(queue))
  /\ main' = At("push", Head(queue))
  /\ UNCHANGED <<envVars, taken, stop, mtVars, poolVars>>

(* debug_pop, the wait for the inference, and the tracker.                 *)
MainPop ==
  /\ main.pc = "pop"
  /\ queue # <<>>
  /\ queue' = Tail(queue)
  /\ received' = Append(received, Head(queue))
  /\ main' = At("push", Head(queue))
  /\ UNCHANGED <<envVars, taken, stop, mode, detect, latest, gener, poolVars>>

(* commandgener.push.                                                      *)
MainPush ==
  /\ main.pc = "push"
  /\ latest' = main.f
  /\ main' = At("loop", None)
  /\ UNCHANGED <<envVars, taken, received, stop, mode, detect, queue, gener, poolVars>>

(* detect_thread.join, then the destructor of CommandGener.                *)
MainJoin ==
  /\ main.pc = "join"
  /\ detect.pc = "ended"
  /\ stop' = TRUE
  /\ main' = At("joinGener", None)
  /\ UNCHANGED <<envVars, taken, received, mtVars, poolVars>>

MainEnd ==
  /\ main.pc = "joinGener"
  /\ gener.pc = "ended"
  /\ main' = At("done", None)
  /\ UNCHANGED <<envVars, taken, received, stop, mtVars, poolVars>>

MtMain == program = "mt" /\ (MainLoop \/ MainPop \/ MainPush \/ MainJoin \/ MainEnd)

-----------------------------------------------------------------------------
(* mt: generate_command looks at latest_ under the lock and then aims,     *)
(* decides on the shot and sends.                                          *)

IsFresh == latest # None /\ now - taken[latest] < Fresh

GenerLook ==
  /\ gener.pc = "loop"
  /\ \/ stop /\ gener' = [gener EXCEPT !.pc = "ended"]
     \/ ~stop /\ IsFresh /\ gener' = At("send", latest)
  /\ UNCHANGED <<envVars, taken, received, main, stop, mode, detect, queue, latest, poolVars>>

GenerSend ==
  /\ gener.pc = "send"
  /\ gener' = At("loop", None)
  /\ UNCHANGED <<envVars, taken, received, main, stop, mode, detect, queue, latest, poolVars>>

Gener == program = "mt" /\ (GenerLook \/ GenerSend)

-----------------------------------------------------------------------------
(* pool: the main thread.                                                  *)

PoolLoop ==
  /\ main.pc = "loop"
  /\ main' = At(IF exit THEN "stop" ELSE "read", None)
  /\ UNCHANGED <<envVars, taken, received, stop, mtVars, poolVars>>

PoolRead ==
  /\ main.pc = "read"
  /\ ReadCamera
  /\ main' = At("enqueue", Len(taken'))
  /\ UNCHANGED <<envVars, received, stop, mtVars, poolVars>>

PoolEnqueue ==
  /\ main.pc = "enqueue"
  /\ tasks' = Append(tasks, main.f)
  /\ main' = At("loop", None)
  /\ UNCHANGED <<envVars, taken, received, stop, mtVars, worker, used, ordered, process, missing>>

(* The destructor of ThreadPool.                                           *)
PoolStop ==
  /\ main.pc = "stop"
  /\ stop' = TRUE
  /\ tasks' = <<>>
  /\ main' = At("joinPool", None)
  /\ UNCHANGED <<envVars, taken, received, mtVars, worker, used, ordered, process, missing>>

PoolJoin ==
  /\ main.pc = "joinPool"
  /\ \A w \in Workers : worker[w].pc = "ended"
  /\ main' = At("done", None)
  /\ UNCHANGED <<envVars, taken, received, stop, mtVars, poolVars>>

PoolMain == program = "pool" /\ (PoolLoop \/ PoolRead \/ PoolEnqueue \/ PoolStop \/ PoolJoin)

-----------------------------------------------------------------------------
(* pool: a worker.                                                         *)

(* Mutant: a worker that waits misses the stop.                            *)
WorkerTakeOnly(w) ==
  /\ worker[w].pc = "idle"
  /\ tasks # <<>>
  /\ tasks' = Tail(tasks)
  /\ worker' = [worker EXCEPT ![w].pc = "search", ![w].f = Head(tasks)]
  /\ UNCHANGED <<envVars, taken, received, main, stop, mtVars, used, ordered, process, missing>>

WorkerTake(w) ==
  /\ worker[w].pc = "idle"
  /\ \/ /\ tasks # <<>>
        /\ tasks' = Tail(tasks)
        /\ worker' = [worker EXCEPT ![w].pc = "search", ![w].f = Head(tasks)]
     \/ /\ stop /\ tasks = <<>>
        /\ worker' = [worker EXCEPT ![w].pc = "ended"]
        /\ UNCHANGED tasks
  /\ UNCHANGED <<envVars, taken, received, main, stop, mtVars, used, ordered, process, missing>>

(* One detector per worker.                                                *)
Yolos == 1..Cardinality(Workers)

(* The marks are looked at one by one: the first detector without one is   *)
(* taken, and if there is none the frame is dropped.                       *)
WorkerSearch(w) ==
  LET y == worker[w].yolo + 1 IN
  /\ worker[w].pc = "search"
  /\ \/ /\ y \in Yolos \ used
        /\ worker' = [worker EXCEPT ![w].pc = "mark", ![w].yolo = y]
        /\ UNCHANGED missing
     \/ /\ y \in Yolos \cap used
        /\ worker' = [worker EXCEPT ![w].yolo = y]
        /\ UNCHANGED missing
     \/ /\ y \notin Yolos
        /\ missing' = missing \cup {worker[w].f}
        /\ worker' = [worker EXCEPT ![w] = [pc |-> "idle", f |-> None, yolo |-> None]]
  /\ UNCHANGED <<envVars, taken, received, main, stop, mtVars, tasks, used, ordered, process>>

(* yolo_used is a vector<bool> without a lock: its elements share a word,  *)
(* so a write may be undone by one that another worker makes at the time.  *)
WriteYoloUsed(w, marked) ==
  \/ used' = marked
  \/ (\E v \in Workers \ {w} : worker[v].pc \in {"mark", "release"}) /\ UNCHANGED used

WorkerMark(w) ==
  /\ worker[w].pc = "mark"
  /\ WriteYoloUsed(w, used \cup {worker[w].yolo})
  /\ worker' = [worker EXCEPT ![w].pc = "detect"]
  /\ UNCHANGED <<envVars, taken, received, main, stop, mtVars, tasks, ordered, process, missing>>

(* Mutant: only the frame itself is made ready.                            *)
EnqueueAlone(oq, id) ==
  IF id < oq.current THEN oq
  ELSE IF id > oq.current THEN [oq EXCEPT !.buffer = @ \cup {id}]
  ELSE [oq EXCEPT !.current = id + 1, !.ready = Append(@, id)]

(* OrderedQueue::enqueue: the awaited frame releases those behind it.      *)
Enqueue(oq, id) ==
  LET next == CHOOSE n \in (id + 1)..(MaxFrames + 1) :
                /\ n \notin oq.buffer
                /\ (id + 1)..(n - 1) \subseteq oq.buffer
  IN IF id < oq.current THEN oq
     ELSE IF id > oq.current THEN [oq EXCEPT !.buffer = @ \cup {id}]
     ELSE [current |-> next, buffer |-> oq.buffer \ (id..(next - 1)),
           ready |-> oq.ready \o [i \in 1..(next - id) |-> id + i - 1]]

WorkerDetect(w) ==
  /\ worker[w].pc = "detect"
  /\ ordered' = Enqueue(ordered, worker[w].f)
  /\ worker' = [worker EXCEPT ![w].pc = "release", ![w].f = None]
  /\ UNCHANGED <<envVars, taken, received, main, stop, mtVars, tasks, used, process, missing>>

WorkerRelease(w) ==
  /\ worker[w].pc = "release"
  /\ WriteYoloUsed(w, used \ {worker[w].yolo})
  /\ worker' = [worker EXCEPT ![w].pc = "idle", ![w].yolo = None]
  /\ UNCHANGED <<envVars, taken, received, main, stop, mtVars, tasks, ordered, process, missing>>

Worker(w) ==
  /\ program = "pool"
  /\ \/ WorkerTake(w) \/ WorkerSearch(w) \/ WorkerMark(w)
     \/ WorkerDetect(w) \/ WorkerRelease(w)

(* The process thread, in dequeue; then it looks at exit_.                 *)
Process ==
  /\ program = "pool"
  /\ process
  /\ ordered.ready # <<>>
  /\ received' = Append(received, Head(ordered.ready))
  /\ ordered' = [ordered EXCEPT !.ready = Tail(@)]
  /\ process' = ~exit
  /\ UNCHANGED <<envVars, taken, main, stop, mtVars, tasks, worker, used, missing>>

-----------------------------------------------------------------------------
SwitchMode ==
  /\ program = "mt"
  /\ mode.changes < MaxModes
  /\ mode' = [mode EXCEPT !.is = IF @ = "idle" THEN "auto_aim" ELSE "idle", !.changes = @ + 1]
  /\ UNCHANGED <<envVars, taken, received, main, stop, detect, queue, latest, gener, poolVars>>

Interrupt ==
  /\ ~exit
  /\ exit' = TRUE
  /\ UNCHANGED <<program, now, taken, received, main, stop, mtVars, poolVars>>

ClockStep ==
  /\ program = "mt"
  /\ now < MaxTime
  /\ now' = now + 1
  /\ UNCHANGED <<program, exit, taken, received, main, stop, mtVars, poolVars>>

Next ==
  \/ Detect \/ MtMain \/ Gener
  \/ PoolMain \/ (\E w \in Workers : Worker(w)) \/ Process
  \/ SwitchMode \/ Interrupt \/ ClockStep

Spec == Init /\ [][Next]_vars

(* Every thread runs on when it can; nothing obliges the user, the mode    *)
(* or the clock.                                                           *)
FairSpec ==
  /\ Spec
  /\ WF_vars(Detect) /\ WF_vars(MtMain) /\ WF_vars(Gener)
  /\ WF_vars(PoolMain) /\ WF_vars(Process)
  /\ \A w \in Workers : WF_vars(Worker(w))

-----------------------------------------------------------------------------
(* Frames are tracked, or processed, in the order they were read and each  *)
(* once, although queues drop them and workers overtake each other.        *)
Stream == INSTANCE FrameStream WITH captured <- Len(taken), received <- received

ImplementsStream == Stream!Spec

(* While main waits for a result the detect thread is on its way to        *)
(* deliver one, also if the mode has changed meanwhile: main goes on       *)
(* unless the program is interrupted or the camera is silent.              *)
Proceeds == main.pc = "pop" ~> (main.pc # "pop" \/ exit \/ CameraSilent)

(* The frames that wait in the buffer of the OrderedQueue are released,    *)
(* unless an earlier frame was dropped, which is awaited for ever.  (With  *)
(* finitely many frames this says the same of each of them.)               *)
Released == ordered.buffer # {} ~> (ordered.buffer = {} \/ missing # {} \/ exit)

(* After SIGINT the program ends, but for the calls nothing wakes: a read  *)
(* from a silent camera, and debug_pop once the detect thread has left.    *)
Blocked ==
  \/ CameraSilent /\ (main.pc = "read" \/ detect.pc = "read")
  \/ main.pc = "pop" /\ queue = <<>> /\ detect.pc = "ended"

Exits == exit ~> (main.pc = "done" \/ Blocked)

=============================================================================
