------------------------------- MODULE AutoAim -------------------------------
(***************************************************************************)
(* From the armour plates of a frame to the target that is aimed at: the   *)
(* filter and the priorities of omniperception::Decider, the detections    *)
(* Perceptron collects from the side cameras, and the state machine of     *)
(* auto_aim::Tracker, as the main loops put them together:                 *)
(*   "standard"  mt_standard.cpp, uav.cpp: Tracker alone,                  *)
(*   "sentry"    sentry.cpp: Decider's filter before Tracker,              *)
(*   "omni"      sentry_multithread.cpp: with the side cameras.            *)
(*                                                                         *)
(* The Kalman filter is real-number arithmetic: whether a target has       *)
(* converged or diverged is left open in every frame.  The angle a side    *)
(* camera reports is the plate it was computed from.                       *)
(***************************************************************************)
EXTENDS Naturals, Sequences, FiniteSets

CONSTANTS
  Armors,       \* the plates that may be seen, [name, color]; the name stands for name and size
  Priority,     \* Decider::mode1, smaller is more urgent
  Excluded,     \* names Decider filters out: five, outpost; no program sets invincible_armor_
  MinDetect,    \* min_detect_count_, 5
  MaxLost,      \* max_temp_lost_count_ for each name: outpost 75, else 25
  SwitchLimit,  \* frames of "switching", 200
  QueueCap,     \* capacity of detection_queue_, 10
  MaxSeen       \* bound on the plates in one picture of a side camera

Names  == {a.name : a \in Armors}
Colors == {a.color : a \in Armors}

ASSUME AutoAimAssumption ==
  /\ \A a \in Armors : a = [name |-> a.name, color |-> a.color]
  /\ Priority \in [Names -> Nat]
  /\ MaxLost \in [Names -> Nat \ {0}]
  /\ {MinDetect, SwitchLimit, QueueCap, MaxSeen} \subseteq Nat
  /\ \A n \in Names : MaxLost[n] <= SwitchLimit

VARIABLES
  program,
  state,         \* state_
  preState,      \* pre_state_
  detectCount,   \* detect_count_; beyond MinDetect its value is not told apart
  tempLost,      \* temp_lost_count_, likewise beyond SwitchLimit
  target,        \* target_: its name and, as history, the colour of the plate last matched with it
  omniPriority,  \* omni_target_priority_
  enemy,         \* enemy_color_ of Tracker and Decider
  queue,         \* Perceptron::detection_queue_
  turn,          \* the plate the last step turned the gimbal to, for a side camera
  age,           \* history: frames since target_ was last set or matched, 0 when it is lost
  friendly,      \* history: frames in a row in which its colour was not the enemy's, likewise
  streak         \* history: frames in a row in which a target was found

track == <<state, preState, detectCount, tempLost, target, omniPriority, enemy, age, friendly, streak>>
vars == <<program, queue, turn, track>>

NoPlate == [name |-> "none", color |-> "none"]

(* What a side camera's detector found, and the plate of the angle.        *)
Pictures ==
  {p \in [armors : SUBSET Armors, angle : Armors] :
     p.angle \in p.armors /\ Cardinality(p.armors) <= MaxSeen}

Init ==
  /\ program \in {"standard", "sentry", "omni"}
  /\ state = "lost"
  /\ preState = "lost"
  /\ detectCount = 0
  /\ tempLost = 0
  /\ target \in Armors
  /\ omniPriority = 0
  /\ enemy \in Colors
  /\ queue = <<>>
  /\ turn = NoPlate
  /\ age = 0
  /\ friendly = 0
  /\ streak = 0

-----------------------------------------------------------------------------
(* A side camera: parallel_infer pushes all its detector found, of either  *)
(* colour, with the angle to the plate in front before anything is         *)
(* filtered or sorted; the queue drops what is new when it is full.        *)
Infer ==
  /\ program = "omni"
  /\ Len(queue) < QueueCap
  /\ \E p \in Pictures : queue' = Append(queue, p)
  /\ turn' = NoPlate
  /\ UNCHANGED <<program, track>>

(* Mutant: the plates are not told apart by colour.                        *)
FilterNames(armors) == {a \in armors : program # "standard" => a.name \notin Excluded}

(* Tracker removes the other colour, armor_filter also the excluded names. *)
Filter(armors) ==
  {a \in armors : a.color = enemy' /\ (program # "standard" => a.name \notin Excluded)}

(* Priority of the most urgent of some plates.                             *)
Top(armors) ==
  CHOOSE p \in {Priority[a.name] : a \in armors} : \A a \in armors : p <= Priority[a.name]

(* The plates sort() may leave in front.  Only Decider sets the priority:  *)
(* without it Tracker compares members that were never initialised.        *)
Fronts(armors) ==
  IF program = "standard" THEN armors ELSE {a \in armors : Priority[a.name] = Top(armors)}

NoPicture == [armors |-> {}, angle |-> NoPlate]

(* Mutant: the results are taken in the order they came in.                *)
FirstResults(results) == IF results = <<>> THEN {NoPicture} ELSE {results[1]}

(* The detection in front after Decider::sort, which reads the first plate *)
(* of every result it compares, also of one the filter left empty: then    *)
(* any order may come out.                                                 *)
SortedFirst(results) ==
  LET all == {results[i] : i \in 1..Len(results)}
  IN IF results = <<>> THEN {NoPicture}
     ELSE IF Len(results) > 1 /\ \E r \in all : r.armors = {} THEN all
     ELSE {r \in all : r.armors = {} \/ \A o \in all : Top(r.armors) <= Top(o.armors)}

(* The filter takes plates out of a picture; its angle stays.              *)
Filtered(p) == [p EXCEPT !.armors = Filter(@)]

-----------------------------------------------------------------------------
(* Tracker::state_machine.                                                 *)
Go(to, detect, lost) == [state |-> to, detect |-> detect, lost |-> lost]

(* Mutant: a new detection continues the count of the last one.            *)
FoundGoesOn(s) ==
  CASE s \in {"lost", "detecting"} -> Go(IF detectCount + 1 >= MinDetect THEN "tracking" ELSE "detecting",
                                         detectCount + 1, tempLost)
    [] s = "switching" -> Go("detecting", detectCount, tempLost)
    [] s \in {"tracking", "temp_lost"} -> Go("tracking", detectCount, tempLost)

Found(s) ==
  CASE s = "lost"      -> Go("detecting", 1, tempLost)
    [] s = "detecting" -> Go(IF detectCount + 1 >= MinDetect THEN "tracking" ELSE s,
                             detectCount + 1, tempLost)
    [] s = "switching" -> Go("detecting", detectCount, tempLost)
    [] s \in {"tracking", "temp_lost"} -> Go("tracking", detectCount, tempLost)

(* Mutant: the frames without the target are not counted.                  *)
MissedUncounted(s, limit) == Go(IF tempLost > limit THEN "lost" ELSE s, detectCount, tempLost)

(* One more frame without the target.                                      *)
Missed(s, limit) == Go(IF tempLost + 1 > limit THEN "lost" ELSE s, detectCount, tempLost + 1)

NotFound(s) ==
  CASE s = "lost"      -> Go(s, detectCount, tempLost)
    [] s = "detecting" -> Go("lost", 0, tempLost)
    [] s = "tracking"  -> Go("temp_lost", detectCount, 1)
    [] s = "switching" -> Missed(s, SwitchLimit)
    [] s = "temp_lost" -> Missed(s, MaxLost[target.name])

(* The state machine and the checks behind it: a target that has diverged, *)
(* or converged badly, is lost.                                            *)
Step(s, found) ==
  LET m == IF found THEN Found(s) ELSE NotFound(s) IN
  /\ detectCount' = IF m.detect > MinDetect THEN MinDetect ELSE m.detect
  /\ tempLost' = IF m.lost > SwitchLimit THEN SwitchLimit + 1 ELSE m.lost
  /\ preState' = IF program = "omni" THEN s ELSE preState
  /\ state' \in {m.state, "lost"}
  /\ streak' = IF ~found \/ state' = "lost" THEN 0
               ELSE IF streak < MinDetect THEN streak + 1 ELSE streak

OneMore(n) == IF n <= SwitchLimit + 1 THEN n + 1 ELSE n

Keep ==
  /\ UNCHANGED target
  /\ age' = IF state' = "lost" THEN 0 ELSE OneMore(age)

Sight(a) == target' = a /\ age' = 0

(* Tracker::set_target.                                                    *)
SetTarget(s, armors) ==
  \/ armors = {} /\ Step(s, FALSE) /\ Keep
  \/ Step(s, TRUE) /\ \E a \in Fronts(armors) : Sight(a)

(* Tracker::update_target: plates are matched by name and size, also when  *)
(* they are of the other colour than those the target was made from.       *)
UpdateTarget(s, armors) ==
  \/ (\A a \in armors : a.name # target.name) /\ Step(s, FALSE) /\ Keep
  \/ Step(s, TRUE) /\ \E a \in armors : a.name = target.name /\ Sight(a)

(* Tracker::track with the plates of the side camera's detection in front. *)
TrackOmni(s, armors, omni) ==
  LET above == s = "tracking" /\ armors # {} /\ Top(armors) < Priority[target.name]
      beside == s = "tracking" /\ ~above /\ omni # {} /\ Top(omni) < Priority[target.name]
      renew == s = "detecting" /\ preState = "switching"
  IN \/ (above \/ renew) /\ SetTarget(s, armors) /\ UNCHANGED omniPriority
     \/ beside /\ Step("switching", FALSE) /\ Keep /\ omniPriority' = Top(omni)
     \/ /\ s = "switching"
        /\ Step(s, armors # {} /\ Top(armors) = omniPriority)
        /\ Keep
        /\ UNCHANGED omniPriority
     \/ ~above /\ ~renew /\ s # "switching" /\ UpdateTarget(s, armors) /\ UNCHANGED omniPriority

(* The main loop turns to the detection in front when the tracker has just *)
(* turned to it, and by Decider::decide while there is no target.          *)
Turn(omni) ==
  IF /\ program = "omni"
     /\ omni.armors # {}
     /\ state' = "lost" \/ (state # "switching" /\ state' = "switching")
  THEN omni.angle ELSE NoPlate

(* One turn of a main loop: a frame is read, the colour comes from the     *)
(* referee or from the configuration, the detector finds plates of which   *)
(* the filter leaves some, the side cameras' detections are collected, and *)
(* the target is followed.  After a gap of 0.1 s it counts as lost.        *)
Frame ==
  /\ queue' = <<>>
  /\ UNCHANGED program
  /\ enemy' \in Colors
  /\ \E omni \in SortedFirst([i \in DOMAIN queue |-> Filtered(queue[i])]),
        armors \in SUBSET Filter(Armors), s \in {state, "lost"} :
       /\ \/ s = "lost" /\ SetTarget(s, armors) /\ UNCHANGED omniPriority
          \/ s # "lost" /\ program # "omni" /\ UpdateTarget(s, armors) /\ UNCHANGED omniPriority
          \/ s # "lost" /\ program = "omni" /\ TrackOmni(s, armors, omni.armors)
       /\ turn' = Turn(omni)
  /\ friendly' = IF state' = "lost" \/ target'.color = enemy' THEN 0 ELSE OneMore(friendly)

Next == Infer \/ Frame

Spec == Init /\ [][Next]_vars

(* The camera goes on delivering frames.                                   *)
FairSpec == Spec /\ WF_vars(Frame)

-----------------------------------------------------------------------------
(* The main loops call aimer.aim with the target, and may shoot.           *)
Aims == state \notin {"lost", "switching"}

(* The frames the configuration grants a target out of sight; only in the  *)
(* frame that ends "switching" the old target is aimed at once more, after *)
(* up to SwitchLimit + 1 frames.                                           *)
Grace == IF preState = "switching" /\ state = "detecting" THEN SwitchLimit + 1
         ELSE MaxLost[target.name]

(* What is aimed at was seen no longer ago than that.                      *)
AimedSeen == Aims => age <= Grace

(* A target whose last plate was of the own side is aimed at no longer     *)
(* than that: the referee may change the enemy's colour, or fall silent so *)
(* that the configured one takes over, at any time, and a target on its    *)
(* way out lives on in "temp_lost"; but no plate of the own side revives   *)
(* it.                                                                     *)
OwnSideFades == Aims => friendly <= Grace

(* A target is confirmed by MinDetect frames in a row before it is         *)
(* "tracking", unless the side cameras announced it: then detect_count_    *)
(* still holds the count of the target before.                             *)
Confirmed ==
  [][state = "detecting" /\ state' = "tracking" /\ preState # "switching"
       => streak' >= MinDetect]_vars

(* The gimbal turns to a picture whose most urgent enemy is as urgent as   *)
(* that of any other, and the tracker waits for a plate of that priority;  *)
(* unless one picture held no enemy, when the order is undefined.  Within  *)
(* the picture the angle is that of the plate the detector put in front,   *)
(* which may be another one, or of the own side.                           *)
TurnsToBest ==
  [][turn' # NoPlate =>
       LET results == {Filtered(queue[i]) : i \in DOMAIN queue}
       IN \/ \E r \in results : r.armors = {}
          \/ \E r \in results :
               /\ turn' = r.angle
               /\ state' = "switching" => omniPriority' = Top(r.armors)
               /\ \A o \in results : Top(r.armors) <= Top(o.armors)]_vars

(* "switching" ends, whatever comes into view.                             *)
SwitchingEnds == state = "switching" ~> state # "switching"

=============================================================================
