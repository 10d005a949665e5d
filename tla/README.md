# Verification of sp_vision

sp_vision is the vision and aiming program of a RoboMaster robot.  A host
computer reads cameras, finds armour plates, tracks targets and sends aiming,
fire and chassis commands over a serial line to the DM02 board, which drives the
gimbal and talks to the referee system.  This directory holds TLA+ models of the
parts whose correctness depends on the order of events, the TLC runs that check
them, and TLAPS proofs of their safety properties for every value of the constants.

    tlc -workers 2 -config MCUproto.cfg MCUproto     # one run
    tlapm UprotoProofs.tla                           # one proof module

`PROJECT.json` lists the runs, the source lines behind every definition, the
mutants that show that each property can fail, the findings and the hazards.

## 1. The system

systemd starts a host supervisor (`tools/spv_supervisor.sh`), which starts a
container with one main program of `src/`.  A main program is a loop over a
camera, a detector, a tracker, the aimer and shooter, and the DM02 link; the
link and the cameras have threads of their own, the ROS 2 node and the WebSocket
bridge too.

| component | state | operations | what makes it correct |
|---|---|---|---|
| uproto endpoint (`io/dm02/protocol/core/uproto.c`) | link state, table of 8 transactions, next id, last transmission | handshake, request, tick, one handler per kind of frame | every request ends once, with its own answer or a timeout that is neither early nor late; slots come back |
| receive buffer (same file) | 512 bytes | feed, resynchronise, decode | garbage costs only the frames it touches |
| channel manager, mux arbiter (`core/comm.c`) | registered channels, one pending slot each, ages, cursor | register, queue (keep latest), arbiter tick | no channel starves; the latest value arrives |
| camera, gimbal, time-sync channels (`protocol/channel/*`) | counters, pending acknowledgement, mailbox, clock mapping | receive, tick, publish | an accepted command is acknowledged; the mailbox never shows half a command |
| driver (`io/dm02/impl/dm02_driver.cpp`) | uproto context, sequence numbers, last status, `TimeSync` | open, close, poll, tick, send | device times map to host times; frames are numbered |
| link (`impl/link_impl.cpp`, `dm02.cpp`) | state under a mutex, pose queue, io thread | reconnect, query the referee, `q(t)`, `send` | fire only with a fresh permission; a lost device comes back |
| `ThreadSafeQueue`, `OrderedQueue`, `ThreadPool` (`tools/`) | queue, mutex, condition | push, pop, front, back | order, no lost wake-up, no lost newest element |
| cameras (`io/hikrobot`, `io/usbcamera`) | capture thread, guard thread, queue of 1 | open, capture, reopen | a failed camera is reopened; shutdown ends |
| tracker, target (`tasks/auto_aim`) | state machine, counters, filter | track, switch | only confirmed enemies seen lately are aimed at |
| aimer, shooter, planner | lock on an armour, last command | aim, shoot | no shot before the gimbal follows |
| command generator, multithreaded detector | latest input, inference queue | push, generate, stop | newest frame wins, order kept |
| omnidirectional perception (`tasks/omniperception`) | detection queue, invincible set (never filled) | filter, sort, decide | turns to the most urgent detection |
| ROS 2, WebSocket bridge, Foxglove | queues, server, subscribers | publish, subscribe, time out | stale goals are dropped |
| supervisor | child container, last reported error | check, start, restart, clean up | the program runs whenever its devices are there |
| numerics (filters, ballistics, networks, calibration) | matrices | - | outside the reach of model checking |

How they interact.  The io thread of `LinkImpl` polls the driver, which runs
uproto, which calls back into the link; application threads call `send` and read
what the callbacks stored.  On the board, channels queue frames into the
arbiter, one of whose slots leaves per tick.  The sentry program bypasses
`LinkImpl`: one worker thread owns the driver and shares its results through
single atomic variables.

What is hard.  Frames are lost, delayed, answered twice and overwritten in
pending slots; 16-bit ids, 16-bit ages and 32-bit milliseconds wrap or saturate;
status is copied, then used; the permission to fire is only as fresh as the last
frame; threads are woken and stopped by flags.  The complete list, with lines,
is under `hazards` in `PROJECT.json`.  Where a property can only be stated with the bad
case excepted, the hazard lists no property, or a note says what stays uncovered: ids
given again after a whole round, copies of the status that overlap a store, a board that
falls silent in `q(t)`, a camera handle left open, the hang in `debug_pop`, lost detector
marks, the confirmation after a switch, the order of pictures of which one is empty, and
magic bytes split while the decoder is out of step.

## 2. Plan

In order of importance; "done" means modelled and checked.

1. `Uproto`, `RequestService`, `UprotoProofs`: the endpoint, the service it
   promises, the refinement and all safety proofs.  Done.
2. `MuxArbiter`, `CameraChannel` (which extends it): fairness, keep-latest,
   acknowledgements.  Done, proved in `MuxProofs`.
3. `TimeSync`: the exchange, the history, the filter.  Done, proved in
   `TimeSyncProofs`.
4. `RefereeLink`, `FireGate`: when fire may be on, in both programs.  Done,
   proved in `FireGateProofs`.
5. `Dm02Link`: io thread, application thread, reconnect, pose queue.  Done,
   proved in `LinkProofs`; open: the referee query.
6. `CameraThreads`, `Pipeline`, `FrameStream`: the camera drivers, the
   multithreaded detector, the thread pool, and the frame stream they implement.
   Done, refinements proved in `PipelineProofs`.
7. `AutoAim`, `AutoAimProofs`: tracker and decider.  Done.
8. `Supervisor`, `SupervisorProofs`: restarts and reports.  Done.
9. `UprotoRx`: the receive buffer.  Done, the refinement and `Resynchronises`
   proved in `LinkProofs`.
10. Open: the board as initiator of the time exchange, receive dispatch of the
    channel manager, the ROS 2 inactivity timer.

## 3. Modules

### Uproto

One endpoint, driven by one thread, two lossy FIFO wires, and the peer as this
endpoint expects it (external).  State and names follow `uproto_context_t`;
`txns` is the table, a slot keeps the fields of `uproto_transaction`.
`uproto_send_request` is `SendRequest` (id taken, then `Accepted` or `TxFull`) or
`NoMemory`; the callers are `StartHandshake`, `AppRequest` and the heartbeat.
`uproto_tick` reads the clock once and then walks the table, so it is three
actions, `TickBegin`, `TickSlot` (once per slot) and `TickHeartbeat`, between
which time may pass and the peer may act; the endpoint itself does nothing else
until the tick is over.  `uproto_handle_frame` is one action per kind of frame.
A frame with a bad CRC, or one lost to a full buffer, is `LoseFrame`; `UprotoRx`
shows that the receive buffer does no more than that.  Replies of this endpoint to
the peer only move `last_tx_time`.  Event strings, statistics and handlers of the
application are left out.

History variables: `result`, `calls` and `answered` say what became of each
request, `lag`, `age` and `hsAge` the true ages behind the wrapped times.

Assumptions, all named in the module: `ConfigAssumption`; `TimeAssumption`, the
clock is longer than any timeout plus two tick periods (it has 2^32 ms);
`TickGap`, the loop calls the tick at least that often; and `IdReuseSafe` in the
guard of `SendRequest`, no request is outlived by a whole round of ids.  The last
one is a real condition of the code: `next_txn_id` is never compared with the ids
in use, and 65536 requests during the life of one frame are what it would take.

### RequestService

What the callers see: accepted or refused at once, ended once, `OK` only after an
answer.  `Uproto` refines it with the identity on `result` and `answered`.

### UprotoRx

`uproto_on_rx_bytes` and `uproto_process_rx_buffer`.  `Receive` appends a chunk of
any size, and a byte that finds the buffer full empties it; `Wait`, `SkipHeader`
and `TakeFrame` are the ways through one turn of the decoding loop.  A byte carries
the frame and the place it comes from as history, so the checksums can be taken as
perfect: a frame decodes when all its bytes are those one frame was sent with.
`Disturb` damages, loses or inserts one byte of any value.  Payloads never contain
the magic bytes, the one restriction on what is sent; some payload length is
possible and none exceeds `MaxPayload`.  `Lost` are the frames that have been received
to their last byte (`FrameAt` is the first one with bytes still to come, bytes the
line made up aside) and were not handled.  The specification is `RxSpec`,
so that proofs can use this module and `Dm02Link` together.

### MuxArbiter and CameraChannel

`slots` and `pending` are `channel_manager_t` and the bind's pending array;
`Bumped`, `Urgent`, `Aged`, `IsOldestAged` and `IsNextUrgent` are the passes of
`find_next_ready_index`.  Sequence numbers and bytes are left out.  The model
keeps the code's rule that the guard for starved slots leaves the round-robin
cursor alone.  `CameraChannel` extends it with triggers, `RESET` and the deferred
acknowledgement.  `PublishEvents` is `CAM_EVENT_PUBLISH_ENABLE`, which is off by
default; the run switches it on.  `CameraAssumption` says that what the camera queues
are messages the arbiter can carry.

### TimeSync

Host and board with the skew of their clocks; `BoardRx` and `BoardQueue` are the
two readings of the board's clock, the answer then waits in the pending slot,
where the next one replaces it.  `Offset`, `Rtt` and `Filtered` keep C's division,
which truncates.  A reboot of the board restarts its clock.  No shipped program sets
`timesync_max_rtt_us`, so its default 0 holds (`dm02_driver.hpp:134`) and every round
trip is accepted; the run uses that value.  `settled` and `longest` are history: the
mapping has once come as close as half the round trip of the exchange it took, and the
longest round trip it took since then.

### RefereeLink and FireGate

`RefereeLink` is the environment of the fire gates: the referee's decision, the
board slot that REFEREE frames share with STATE frames, both directions of the
line, and the clock.  Delays are bounded by constants, and time stops while a
frame is overdue; so a property of the form "at most so long after" is a state
predicate.  `FireGate` covers both programs; `program` says which one runs.  In
`io::Dm02`, `OnReferee` stores a status under the mutex, `AppRead`, `AppJudge` and
`AppWrite` are the parts of `Dm02::send` between which the io thread may run, and
`Reconnect` empties the line but keeps the status.  In `sentry.cpp`, `WorkerStore`
and `AppLoad` are one store and one load per atomic variable and `QueueFire` and
`WorkerSend` hand the command to the worker; `torn` remembers that a load and a
store overlapped.  Both assume that a board without valid referee data sets one of
the bits the header defines for it.

### Dm02Link

`LinkImpl` with its io thread and the application thread that calls `q(t)`, sends
and destroys the link.  `io.pc` runs through `io_thread` and `reconnect`, `app.pc`
through `q`, `send` and the destructor; every queue operation is one step because
the queue has its own mutex, the driver has none.  Instead of time stamps a pose
carries how it compares with the `t` of the current call (`before`, `at`,
`after`); a call for a later frame relabels the queue (`QCall`).  This is exact,
because `q` only compares, and keeps the state space finite without a bound on
time.  `Unplug` breaks an open port: reading it throws until it is reopened.

### FrameStream

What one stage promises the next: frames arrive in the order they were taken and
none arrives twice; any may be dropped.  `CameraThreads`, `Pipeline` and `UprotoRx`
each implement it, with their own notion of what is taken and what is handed over.
`Pipeline` takes its camera to be such a stream.

### CameraThreads

`io::HikRobot` and `io::USBCamera`, chosen by `kind`.  `thread` and `guard` are the
program counters of the capture and guard threads, `flag` the variable by which the
capture thread tells the guard that it works (`capturing_`, `ok_`), which is set
by the thread and so behind what it reports: a guard that looks before a new
thread has run takes it for a failed one (`late`, bounded by `MaxLate`).
`Unplug` breaks an open handle until it is opened again.

### Pipeline

Two programs, chosen by `program`.  "mt" is `mt_standard`: the detect thread, the
main thread, the thread of `CommandGener`, and the queue and the latest-value slot
between them.  "pool" is `camera_thread_test`: the main thread numbers frames and
queues tasks, workers of the `ThreadPool` look at the flags of the detectors one by one
without a lock (`WorkerSearch`, `WorkerMark`; the mark of another worker may be lost),
and the
`OrderedQueue` puts their results back in order.  SIGINT may come at any step.
Inference, tracking and aiming have no state here.

### AutoAim

One action, `Frame`, is a turn of a main loop: any plates that pass the filter are
seen, `SetTarget` or `UpdateTarget` follows the target, `Step` is the state machine
at the end of both track functions.  `program` distinguishes the three ways the
main loops use the tracker.  `UpdateTarget` matches plates by name alone, as the code
does, and the target takes the colour of the plate that was matched.  `Infer` is a side
camera that adds a picture to the queue: all its plates, of either colour, and the
angle to the one the detector put in front, taken before anything is filtered or
sorted.  `Turn` is the picture the gimbal is turned to, when the tracker enters
"switching" and, by `Decider::decide`, while there is no target; an angle is stood for
by its plate.  Whether the Kalman filter has converged or diverged is left open in every
frame.  Counters are kept up to the limits they are compared with.  `age` (frames since
the target was seen), `friendly` (frames in a row in which the target had not the
enemy's colour) and `streak` (frames it was seen in a row) are history.

### Supervisor

`spv_supervisor.sh`, one action per step of the script that can be interrupted:
the checks of `wait_for_dependencies` in their order, the choice of a serial
device, `docker run`, the wait, the judgement of the exit code.  `missing` is what
is not there; it changes between any two steps.  `Report` remembers the signature
before it sends.  A report that cannot be sent ends the script in `Judge`, where `set -e`
holds, and goes unnoticed in the checks and after a failed start, which run as
conditions; there it is not repeated either.  `told` is history: the report that left in
this round of the loop.  `Boot` is systemd's `Restart=always`.
`orphan` is history: the script was killed (no trap) and has not cleaned up since.

## 4. Runs

| run | instance | what it shows |
|---|---|---|
| `uproto` | 2 slots, 3 requests, ids modulo 2, clock modulo 5, HELLO with a retry, PINGs | the safety properties and the refinement, with a full table, wrapped ids and clock, late and double answers |
| `uproto_live` | 2 requests, PINGs due after 1 ms, all of the peer's own traffic | every accepted request ends |
| `uproto_hello` | 1 request | violation, see findings |
| `uproto_rx` | header 3, trailer 1, payloads of 0 and 1 of at most 5, buffer 10, up to 15 bytes at once, 6 frames, 1 disturbed byte | nothing is lost on a quiet line however it is cut; after a disturbance no more than a damaged header can swallow; frames in order and single |
| `mux` | 3 places and channels, the camera least urgent and two equally urgent rivals, age limit 4, ages saturate at 5, 1 trigger, 1 RESET, a port that may fail once | no slot waits for more than the age limit plus the number of channels, keep-latest delivers the latest, a RESET that nothing overtakes is acknowledged |
| `time_sync` | history of 2, sequence modulo 4, any round trip accepted, 5 readings of the clock, a reboot | right request, bounded error, a settled mapping stays within the longest round trip since |
| `fire_gate` | both programs, each with its own delays and staleness limit, two changes of the decision, reconnects | fire ends in time, for copies of the status that overlap no store |
| `link` | queue of 3, a reconnect of 2 attempts after more than 1 error, cable pulled and plugged at will | `q(t)` uses the right poses and returns, the device is found again, destruction ends |
| `cameras` | both drivers, queue of 1, USB gives up after 2 openings, 3 frames, the guard too early once | frames in order, no live thread overwritten, the camera comes back, destruction ends |
| `pipeline` | queue of 1, 2 workers, 4 frames, freshness 2, 3 units of time, 2 mode changes | frames in order, no wait for a frame that is not coming, the program ends |
| `auto_aim` | 3 plates, one name in both colours, confirmation after 3, "switching" for 3, side queue of 2 pictures of at most 2 plates | what is aimed at was seen lately and confirmed, a target of the own side fades, the gimbal turns to the best picture, switching ends |
| `supervisor` | 2 serial devices, 1 kill | no unwatched container, every early end of the program is reported or ends the script, the program comes back |

Why the bounds are enough.  Two transactions are the least that can collide; ids
modulo 2 and a clock modulo 5 wrap several times within three requests, which no
real session does.  `FairAge` must exceed the number of channels (10 and 8 in
`config.h`); 4 and 3 keep that.  The bound counts frames since the port last
failed, because a failing port ages every slot without serving one.  In
`time_sync` two entries of history make every answer that is two requests late
meet an overwritten entry.  In `fire_gate` the clock runs up to the first moment
at which the bound could be exceeded, and lowering the bound by one is refuted, so
it is reached exactly; the same holds of the number of frames that `uproto_rx`
allows to be lost.  Its buffer of 10 is the least that holds the longest frame with
a byte to spare, and 6 frames are more than a damaged header can swallow.  In
`link` a queue of 3 overflows and is cleared with the reader in every position;
limits of 1 and 2 stand for 2000 and 10, as only reaching them matters.  In
`cameras` the guard of the USB camera gives up after 2 openings instead of 20, so
both outcomes occur.  In `pipeline` two workers are enough to overtake each other,
to lose a mark and to leave a frame without a detector; the queue of 1 is full
after one frame.  In `auto_aim` one name has the longer limit out of sight, which is the
outpost's in the code (`max_temp_lost_count_`); the names that `armor_filter` takes out do
not occur, but a plate of the other colour is filtered out just the same.  Two plates in
a picture (`MaxSeen`) are the least of which one is filtered out and the other stays, and
two pictures the least that can be sorted wrongly.  In
`supervisor` a second serial device makes the choice matter, and a kill hits every
step.

Deadlock.  Checked in the `uproto`, `uproto_live`, `mux`, `link`, `cameras`,
`auto_aim` and `supervisor` runs: there is always a next step.  The models with an
absolute clock (`time_sync`, `fire_gate`) stop at `MaxTime` and those with a bounded
number of frames (`pipeline`, `uproto_rx`) after the last frame, so those runs do not
check it; `Proceeds`, `Released` and `Exits` say for `pipeline` who may wait.

Fairness.  `uproto_live`: weak fairness of the tick and of the clock, because
`LinkImpl::io_thread` calls `driver.step()` in a loop with a sleep; nothing is
assumed of the peer or of the wires.  `mux`: weak fairness of the camera's tick
and of the arbiter's tick, the two functions the board's main loop calls.  `link`:
weak fairness of each thread, and strong fairness of receiving a pose: the board
publishes its state periodically, so a loop that reads a healthy port again and
again meets one.  `cameras` and `pipeline`: weak fairness of each thread; nobody is
assumed to plug a cable in, to press Ctrl-C or to change the mode, and in
`pipeline` the camera may fall silent.  `auto_aim`: weak fairness of `Frame`, the main
loop.  `supervisor`: weak fairness of the script and of systemd's restart; devices
come back only where the property says so.

## 5. Proofs

`UprotoProofs` proves for all table sizes, id and clock widths, timeouts and
retry counts that satisfy `ConfigAssumption` and `TimeAssumption`:
`TypeCorrect`, `InvCorrect`, `CompletedOnceCorrect`, `UniqueIdsCorrect`,
`OwnAnswerCorrect`, `BoundedWaitCorrect`, `HandshakeBoundedCorrect`,
`TimeoutNotEarlyCorrect`, and `Implements`, the refinement of `RequestService`.

Apart from `TypeOK`, none of the properties is inductive.  The invariant `IInv` adds, in parts of
their own:

- `IdInv`: every id alive, in the table or on a wire, is fewer than `IdMod`
  allocations old, and adding the allocations since gives `next_txn_id`.  Two
  live ids that are equal then belong to the same request (`LiveUnique`), which
  is what makes an answer find its own transaction.
- `TableInv`: a waiting request has exactly one slot, and requests beyond
  `issued` have no outcome.
- `WireInv`: an answer on the wire was given by the peer to an accepted request.
- `TimeInv`: the wrapped difference of two stored times is the true one, no slot
  is overdue by more than the time since the last tick began, and a request's
  age lies between `retry_count * timeout + lag` and
  `retry_count * (timeout + TickGap) + lag`.  Both time bounds follow from this.
- `HandshakeInv`: the same for the handshake.

The steps are sorted by what they do to the table (`IssueStep`, `AnswerStep`,
`TickSlot`, `PeerReads`, `QuietStep`; lemma `NextCases`), and each part is shown
to be preserved by each of them.

`AutoAimProofs` proves `AimedSeen`, `OwnSideFades`, `Confirmed` and `TurnsToBest`
for any set of plates, any priorities and any limits that satisfy
`AutoAimAssumption` (a target out of sight is given up no later than a switch).  The invariant adds `OmniInv`
(only the program with side cameras switches), `AgeInv` (the frames a target has
been out of sight are what `temp_lost_count_` says, in every state), `CountInv`
(`detect_count_` is no more than the frames in a row, unless a switch left it) and
`OwnInv` (a target has been of the own side no longer than it has been out of sight:
every sighting is one of an enemy of that moment, `FilterEnemy`).
Every frame is one of three kinds, `Sighted`, `Unseen` and `Turned` (lemma
`FrameKinds`), and each preserves the invariant.  `TurnsToBest` is about a step:
what the gimbal turns to is the front of the list that `Decider::sort` leaves
(`TurnsToFront`), and that list has a most urgent picture in front (`SortedBest`).

`SupervisorProofs` proves `Watched` and `EndReported` for any list of serial devices and
any number of kills.  Both need `ReportInv`: from the completion of the dependencies
until the end of the program is judged nothing is remembered as reported, so no early
end is taken for a repeat, and nothing has left in a round before its report.

`MuxProofs` proves `LatestSent` and `NoStarvation` for any number of channels below
`FairAge`, any priorities and any failures of the port.  `LatestInv` says where the
latest value of a channel is: in its slot, or sent.  `NoStarvation` rests on a
measure: once a slot has let `FairAge` frames pass, the frames it has let pass plus
the number of slots still ahead of it (`Ahead`: older ones, and those the round
robin reaches first) stay below `FairAge` plus the number of channels (`WaitInv`),
because a tick that passes it by serves one of those ahead (`WaitTick`).  The count
alone is not inductive: the starvation guard does not move the cursor, so two
mechanisms choose, and a slot is passed by both.  `CameraImplementsArbiter` shows
that `CameraChannel` only takes the arbiter's steps, and so `CameraServed` gives both
properties for the board.

`TimeSyncProofs` proves `RightRequest`, `SampleBound` and `StaysClose` for any sizes
of history and sequence numbers, the second a multiple of the first, any delays and
any skew.
`FrameInv` and `HistInv` count requests: a frame under way is fewer than `SeqMod`
requests old, an entry of the history fewer than `HistSize`, so a number that is
found belongs to the frame's own request.  `TimesInv` puts the four times of an
exchange in order on one clock, which bounds the error of a sample; `CloseInv` adds
that a settled mapping only meets answers of the same board, and lemma `TruncTenth`
bounds what the truncating division of the filter loses (`FilterBound`).  `StaysClose`
holds for every `MaxRtt`, the shipped 0 included, since its bound is the longest round
trip that was taken and not the one that is let through.

`FireGateProofs` proves `BackedUnlessTorn` and `FollowsStatus` for both programs and
all delays.  Every place that holds a permission (slot, line, status, copy, pending
command, line back) bounds how long ago the referee still gave it, `Alive(t)`; the
bound grows by the delay of the place on each step (`UpInv`, `StoreInv`, `CopyInv`,
`DownInv`).  `StoreInv` and `CopyInv` hold between the single stores and loads of the
sentry too: a copy no store overlapped has all its fields from one status.
`FollowInv` says that a permission in use is the one in the status or that a newer
report has come since.

`LinkProofs` is about both steps of receiving.  `RxImplementsStream`: for any sizes of
header, payload and buffer, `UprotoRx` handles frames in the order they were sent and
none twice.  The invariant is about bytes, not frames: what is in the buffer and on
the line is a `Chain`, in the order it was sent in, and the frames that begin in it
are behind the last one handled; dropping, damaging and inserting bytes keep it, and
a frame that decodes begins in it.  It also shows that the buffer is never exceeded,
with chunks longer than the buffer included.

`ResynchronisesCorrect`, also for any number of disturbances and any length of line,
needs to know where the decoder will be in step again.  Its invariant `ResyncInv` is
about the bytes not dealt with, buffer and line in a row:

- `Offsets`: the number of bytes sent before each frame.  `k` frames take up at least
  `k` times the shortest, which bounds the frames that begin in a stretch of bytes.
- `Synced`: there is a place `c`, the beginning of a frame `m`, from which all bytes are
  as they were sent.  On a quiet line `c` is the first byte (`InStepAt`).
- The frames missing before `m` are at most `Swallowed`, and once one is missing no
  byte before `c` can begin a header.  This is what makes the bound hold for the whole
  time: a false header before `c` can carry the decoder past `c`, which moves `m` to the
  first frame that begins behind the false frame, but it cannot happen again until the
  next disturbance, which moves `resume` behind everything sent.
- `SplitInv`: the last byte of the buffer is no first magic byte of a frame to resume,
  or clearing the buffer would lose that frame; `Receive` moves `resume` behind it.
- `Waiting`: what is left in the buffer between chunks is an incomplete frame, so the
  frames before `FrameAt` are those before `m`.

A first version of `FrameAt` took a byte the line made up, at the head of the line, as
the end of everything sent.  The proof failed there, and TLC then showed frames still
under way counted as lost, with a longer line than the run used; definition and bound
of the run were corrected.

`AroundFrameCorrect`: for any capacity
of the queue, `q(t)` uses poses in order around `t`; between its pop and its front it
holds a pose that everything in the queue follows (`HeldInv`), also after a clear.

`PipelineProofs` proves for any number of workers, frames and places in the queues
that `Pipeline` implements `FrameStream`.
In "mt" the queue follows on the newest frame handed over and ends before the frame
the detect thread holds (`QueueInv`).  In "pool" the frames ready follow on the
last one processed and the awaited one follows on them (`InARow`), whatever order the
workers finish in.  Its last part proves of both camera drivers that they implement
`FrameStream` and that no live capture thread is overwritten (`NeverTerminates`),
because the guard opens the camera only while there is no thread.

Only model-checked: liveness (`RequestsEnd`, `AckUnlessOvertaken`, `QReturns`,
`Recovers`, `Stops`, `Proceeds`, `Released`, `Exits`, `SwitchingEnds`, `Revives`), because
the prover does not handle fairness and ENABLED.  Facts that need induction over
data are out of the prover's reach as well.  Every invariant and every safety property
of a step that a run checks is stated by a theorem.

## 6. Findings

`uproto_hello`, a run that is expected to fail (quotations are in `PROJECT.json`): the
HELLO is retried after the same time that ends the handshake.  An answer to the
retry, or a late one, completes the HELLO with `UPROTO_OK` and leaves the link
IDLE, and nothing starts another handshake: `established()` stays false and the
referee is never queried.

Observations made while modelling, without a run of their own:

- `LinkImpl::device_us_to_host_us` (`link_impl.cpp:426`) adds the offset that the
  driver subtracts (`dm02_driver.cpp:148`); nothing calls it.
- `LinkImpl` uses the driver from two threads without a lock (`link_impl.cpp:351`,
  `483`, `497`, `513`); the sentry confines it to one because it is not thread-safe
  (`sentry.cpp:69`).
- The sentry loads the permission before its time stamp (`sentry.cpp:374`); a frame
  that arrives in between makes a permission that has timed out look fresh.
  `BackedUnlessTorn` excludes exactly these copies.
- A status word of 0 counts as valid (`link_impl.cpp:273`), also in a frame long
  enough to carry one.
- When a chunk ends between the two magic bytes while the buffer is out of step,
  the frame they begin is lost (`uproto.c:350`).  `Resynchronises` excludes it only
  after a disturbance; on a quiet line it cannot happen.
- `uproto_init` on a reconnect restarts the ids and drops the transactions without
  completing them.
- `Decider::sort` reads the front of an empty list when a detection holds no enemy
  (`decider.cpp:191`), which is undefined; `TurnsToBest` excludes it.
- The angle the gimbal turns by belongs to the plate a side camera's detector put in
  front (`perceptron.cpp:90`), the priority that decides on the turn to the front after
  filtering and sorting: the gimbal may turn to another plate of the picture, also to one
  of the own side.  `TurnsToBest` promises the picture, not the plate.
- `update_target` matches by name and size: after a change of the enemy's colour a
  target of the old colour is updated with plates of the new one, with the filter state
  it had.
- When "switching" ends with the announced plate, `target_` is still the old target for
  one frame, which is handed to the aimer, and `detect_count_` is the old one, so that
  the next sighting confirms at once (`tracker.cpp:217`).
- A report that cannot be sent in the checks is lost: the signature is stored before the
  send (`spv_supervisor.sh:182`), the checks run as conditions, where `set -e` is off, and
  the next round takes the failure for a repeat.
- No program sets `timesync_max_rtt_us` (default 0, `dm02_driver.hpp:134`): answers of any
  delay enter the filter.
- Programs without a `Decider` sort plates by a priority that was never set.
- In `camera_thread_test` a worker copies the image the main thread holds by then,
  `yolo_used` is written without a lock, and the process thread is never joined.
  After SIGINT the main thread of `mt_standard` can hang in `debug_pop`: this is one
  of the two cases `Exits` excepts.
- `Subscribe2Nav` starts its inactivity timer only with the second message
  (`subscribe2nav.cpp:41`), so a single message stays until another arrives.

## 7. Not modelled

Vendored and generated code makes up most of the lines: `3rdparty`, `io/serial`,
`io/hikrobot/include`, `io/foxglove/fb`, `tasks/auto_aim/planner/tinympc`, `ros2_ws`.
Networks and image processing, Kalman filters, ballistics, the planner and the
calibration programs are real-number arithmetic without interesting control.  The
control that is left is small:

- the aimer's lock and the shooter's last command, chosen by comparing angles;
- the board's command mailbox of the gimbal channel, whose callers are not in the
  repository, and the board's own time exchange;
- the ROS 2 subscriber, a queue of one that only tests read;
- the WebSocket bridge, an outgoing server around one mutex;
- the main programs not named above, sequential loops over modelled components.

`PROJECT.json` names the reason for each component.
