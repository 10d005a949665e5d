---------------------------- MODULE AutoAimProofs ----------------------------
(***************************************************************************)
(* Proofs about AutoAim, for any plates, priorities and limits.            *)
(*                                                                         *)
(* Neither AimedSeen nor Confirmed is inductive.  The age of a target is   *)
(* bounded by the counter of the state it is in (AgeInv), and what counts  *)
(* as confirmed depends on what the counter of detections still holds when *)
(* "detecting" is entered from "switching" (CountInv).  A target of the    *)
(* own side has not been seen since (OwnInv).                              *)
(***************************************************************************)
EXTENDS AutoAim, TLAPS

States == {"lost", "detecting", "tracking", "temp_lost", "switching"}

Plates == [name : Names, color : Colors]

TypeInv ==
  /\ program \in {"standard", "sentry", "omni"}
  /\ state \in States
  /\ preState \in States
  /\ detectCount \in 0..MinDetect
  /\ tempLost \in 0..(SwitchLimit + 1)
  /\ target \in Plates
  /\ enemy \in Colors
  /\ age \in Nat
  /\ streak \in 0..MinDetect

(* Only the program with side cameras switches.                            *)
OmniInv == state = "switching" \/ preState = "switching" => program = "omni"

(* The age of the target in each state.                                    *)
AgeInv ==
  /\ state = "tracking" => age = 0
  /\ state = "detecting" => age = 0 \/ (preState = "switching" /\ age <= SwitchLimit + 1)
  /\ state = "temp_lost" => age <= tempLost /\ tempLost <= MaxLost[target.name]
  /\ state = "switching" => age <= tempLost /\ tempLost <= SwitchLimit

(* A target that was once confirmed leaves the counter full; a new one has *)
(* been found in as many frames in a row as were counted.                  *)
CountInv ==
  /\ state \in {"tracking", "temp_lost", "switching"} => detectCount = MinDetect
  /\ state = "detecting" /\ preState = "switching" => detectCount = MinDetect
  /\ state = "detecting" /\ preState # "switching" => detectCount <= streak

TrackInv == TypeInv /\ OmniInv /\ AgeInv /\ CountInv

(* The filter leaves no plate of the own side, so a target that is of the  *)
(* own side was not seen in the frames since it became that.               *)
OwnInv == friendly \in Nat /\ (state # "lost" => friendly <= age)

IInv == TrackInv /\ OwnInv

-----------------------------------------------------------------------------
(* What a frame may do, whatever the program.                              *)

(* The target was set, or matched with a plate, of the enemy.              *)
Sighted(s) ==
  /\ s # "switching"
  /\ s = "detecting" => s = state
  /\ target' \in Plates
  /\ target'.color = enemy'
  /\ age' = 0
  /\ Step(s, TRUE)

(* It was not.                                                             *)
Unseen(s) == Step(s, FALSE) /\ Keep

(* The target the side cameras announced came into view.                   *)
Turned(s) == s = "switching" /\ s = state /\ Step(s, TRUE) /\ Keep

(* The state the state machine starts from.                                *)
StartsFrom(s) ==
  \/ s = "lost"
  \/ s = state
  \/ s = "switching" /\ state = "tracking" /\ program = "omni"

(* A plate left by the filter is a plate of the enemy's colour.            *)
LEMMA FilterEnemy ==
  ASSUME NEW a \in Filter(Armors)
  PROVE  a \in Plates /\ a.color = enemy'
<1>1. a \in Armors /\ a.color = enemy'
  BY DEF Filter
<1>2. a = [name |-> a.name, color |-> a.color]
  BY <1>1, AutoAimAssumption
<1>3. a.name \in Names /\ a.color \in Colors
  BY <1>1 DEF Names, Colors
<1> QED
  BY <1>1, <1>2, <1>3 DEF Plates

(* set_target either finds a plate or leaves the target alone.             *)
LEMMA SetTargetKinds ==
  ASSUME NEW s, NEW armors \in SUBSET Filter(Armors), s # "switching",
         s = "detecting" => s = state,
         SetTarget(s, armors)
  PROVE  Sighted(s) \/ Unseen(s)
<1>1. CASE armors = {} /\ Step(s, FALSE) /\ Keep
  BY <1>1 DEF Unseen
<1>2. CASE Step(s, TRUE) /\ \E a \in Fronts(armors) : Sight(a)
  <2>1. PICK a \in Fronts(armors) : target' = a /\ age' = 0
    BY <1>2 DEF Sight
  <2>2. a \in Filter(Armors)
    <3>1. Fronts(armors) \subseteq armors
      BY DEF Fronts
    <3> QED
      BY <2>1, <3>1
  <2> QED
    BY <1>2, <2>1, <2>2, FilterEnemy DEF Sighted
<1> QED
  BY <1>1, <1>2 DEF SetTarget

(* So does update_target.                                                  *)
LEMMA UpdateTargetKinds ==
  ASSUME NEW s, NEW armors \in SUBSET Filter(Armors), s # "switching",
         s = "detecting" => s = state,
         UpdateTarget(s, armors)
  PROVE  Sighted(s) \/ Unseen(s)
<1>1. CASE Step(s, TRUE) /\ \E a \in armors : a.name = target.name /\ Sight(a)
  <2>1. PICK a \in Filter(Armors) : target' = a /\ age' = 0
    BY <1>1 DEF Sight
  <2> QED
    BY <1>1, <2>1, FilterEnemy DEF Sighted
<1>2. CASE Step(s, FALSE) /\ Keep
  BY <1>2 DEF Unseen
<1> QED
  BY <1>1, <1>2 DEF UpdateTarget

(* The parts of a frame.                                                   *)
LEMMA FrameParts ==
  ASSUME Frame
  PROVE  \E omni \in SortedFirst([i \in DOMAIN queue |-> Filtered(queue[i])]) :
         \E armors \in SUBSET Filter(Armors) : \E s \in {state, "lost"} :
           /\ \/ s = "lost" /\ SetTarget(s, armors) /\ UNCHANGED omniPriority
              \/ s # "lost" /\ program # "omni" /\ UpdateTarget(s, armors) /\ UNCHANGED omniPriority
              \/ s # "lost" /\ program = "omni" /\ TrackOmni(s, armors, omni.armors)
           /\ turn' = Turn(omni)
BY DEF Frame

(* Every frame is one of the three kinds.                                  *)
LEMMA FrameKinds ==
  ASSUME TypeInv, OmniInv, Frame
  PROVE  \E s \in States : StartsFrom(s) /\ (Sighted(s) \/ Unseen(s) \/ Turned(s))
<1>1. state \in States
  BY DEF TypeInv
<1>2. PICK omni \in SortedFirst([i \in DOMAIN queue |-> Filtered(queue[i])]),
           armors \in SUBSET Filter(Armors), s \in {state, "lost"} :
        \/ s = "lost" /\ SetTarget(s, armors)
        \/ s # "lost" /\ program # "omni" /\ UpdateTarget(s, armors)
        \/ s # "lost" /\ program = "omni" /\ TrackOmni(s, armors, omni.armors)
  BY FrameParts
<1>3. s \in States /\ StartsFrom(s) /\ (s # "lost" => s = state)
  BY <1>1 DEF States, StartsFrom
<1>4. CASE s = "lost" /\ SetTarget(s, armors)
  BY <1>3, <1>4, SetTargetKinds
<1>5. CASE s # "lost" /\ program # "omni" /\ UpdateTarget(s, armors)
  <2>1. s # "switching"
    BY <1>3, <1>5 DEF OmniInv
  <2> QED
    BY <1>3, <1>5, <2>1, UpdateTargetKinds
<1>6. CASE s # "lost" /\ program = "omni" /\ TrackOmni(s, armors, omni.armors)
  <2>1. \/ s \in {"tracking", "detecting"} /\ SetTarget(s, armors)
        \/ s = "tracking" /\ Step("switching", FALSE) /\ Keep
        \/ s = "switching" /\ (Step(s, TRUE) \/ Step(s, FALSE)) /\ Keep
        \/ s # "switching" /\ UpdateTarget(s, armors)
    <3>1. CASE armors # {} /\ Top(armors) = omniPriority
      BY <1>6, <3>1 DEF TrackOmni
    <3>2. CASE ~(armors # {} /\ Top(armors) = omniPriority)
      BY <1>6, <3>2 DEF TrackOmni
    <3> QED
      BY <3>1, <3>2
  <2>2. CASE s \in {"tracking", "detecting"} /\ SetTarget(s, armors)
    BY <1>3, <1>6, <2>2, SetTargetKinds
  <2>3. CASE s = "tracking" /\ Step("switching", FALSE) /\ Keep
    BY <1>3, <1>6, <2>3 DEF Unseen, StartsFrom, States
  <2>4. CASE s = "switching" /\ (Step(s, TRUE) \/ Step(s, FALSE)) /\ Keep
    BY <1>3, <1>6, <2>4 DEF Unseen, Turned
  <2>5. CASE s # "switching" /\ UpdateTarget(s, armors)
    BY <1>3, <1>6, <2>5, UpdateTargetKinds
  <2> QED
    BY <2>1, <2>2, <2>3, <2>4, <2>5
<1> QED
  BY <1>2, <1>4, <1>5, <1>6

-----------------------------------------------------------------------------
(* The constants, as the provers need them.                                *)
LEMMA Limits ==
  /\ MinDetect \in Nat
  /\ SwitchLimit \in Nat
  /\ \A p \in Plates : MaxLost[p.name] \in Nat /\ MaxLost[p.name] > 0 /\ MaxLost[p.name] <= SwitchLimit
<1>1. \A p \in Plates : p.name \in Names
  BY DEF Plates
<1> QED
  BY <1>1, AutoAimAssumption

(* Initially all parts hold.                                               *)
LEMMA InitInv == Init => IInv
<1> SUFFICES ASSUME Init PROVE IInv
  OBVIOUS
<1>1. target \in Plates
  <2>1. target \in Armors
    BY DEF Init
  <2>2. target = [name |-> target.name, color |-> target.color]
    BY <2>1, AutoAimAssumption
  <2> QED
    BY <2>1, <2>2 DEF Plates, Names, Colors
<1> QED
  BY <1>1, Limits DEF Init, IInv, TypeInv, States, OmniInv, AgeInv, CountInv, OwnInv, TrackInv

(* A frame in which the target is seen.                                    *)
LEMMA SightedInv ==
  ASSUME TrackInv, NEW s \in States, StartsFrom(s), Sighted(s), enemy' \in Colors, UNCHANGED program
  PROVE  TrackInv'
<1> USE Limits
<1>1. /\ s \in {"lost", "detecting", "tracking", "temp_lost"}
      /\ s # "lost" => s = state
      /\ target' \in Plates /\ target'.color = enemy' /\ age' = 0
  BY DEF Sighted, StartsFrom, States
<1>2. DEFINE m == Found(s)
<1>3. /\ detectCount' = IF m.detect > MinDetect THEN MinDetect ELSE m.detect
      /\ tempLost' = IF m.lost > SwitchLimit THEN SwitchLimit + 1 ELSE m.lost
      /\ preState' = IF program = "omni" THEN s ELSE preState
      /\ state' \in {m.state, "lost"}
      /\ streak' = IF state' = "lost" THEN 0 ELSE IF streak < MinDetect THEN streak + 1 ELSE streak
  BY DEF Sighted, Step
<1>4. /\ m.lost = tempLost
      /\ s = "lost" => m.state = "detecting" /\ m.detect = 1
      /\ s = "detecting" => /\ m.state = IF detectCount + 1 >= MinDetect THEN "tracking" ELSE s
                            /\ m.detect = detectCount + 1
      /\ s \in {"tracking", "temp_lost"} => m.state = "tracking" /\ m.detect = detectCount
  BY <1>1 DEF Found, Go
<1> HIDE DEF m
<1>5. TypeInv'
  BY <1>1, <1>3, <1>4 DEF TrackInv, TypeInv, States
<1>6. OmniInv'
  BY <1>1, <1>3, <1>4 DEF TrackInv, TypeInv, OmniInv
<1>7. AgeInv'
  BY <1>1, <1>3, <1>4 DEF TrackInv, TypeInv, AgeInv
<1>8. CountInv'
  BY <1>1, <1>3, <1>4 DEF TrackInv, TypeInv, OmniInv, CountInv
<1> QED
  BY <1>5, <1>6, <1>7, <1>8 DEF TrackInv

(* A frame without it.                                                     *)
LEMMA UnseenInv ==
  ASSUME TrackInv, NEW s \in States, StartsFrom(s), Unseen(s), enemy' \in Colors, UNCHANGED program
  PROVE  TrackInv'
<1> USE Limits
<1>1. /\ target' = target /\ target \in Plates
      /\ age' \in {0, age, age + 1}
      /\ MaxLost[target.name] \in Nat /\ MaxLost[target.name] > 0
      /\ MaxLost[target.name] <= SwitchLimit
  BY DEF Unseen, Keep, OneMore, TrackInv, TypeInv
<1>2. DEFINE m == NotFound(s)
<1>3. /\ detectCount' = IF m.detect > MinDetect THEN MinDetect ELSE m.detect
      /\ tempLost' = IF m.lost > SwitchLimit THEN SwitchLimit + 1 ELSE m.lost
      /\ preState' = IF program = "omni" THEN s ELSE preState
      /\ state' \in {m.state, "lost"}
      /\ streak' = 0
  BY DEF Unseen, Step
<1>4. /\ s = "lost" => m.state = s /\ m.detect = detectCount /\ m.lost = tempLost
      /\ s = "detecting" => m.state = "lost" /\ m.detect = 0 /\ m.lost = tempLost
      /\ s = "tracking" => m.state = "temp_lost" /\ m.detect = detectCount /\ m.lost = 1
      /\ s = "switching" => /\ m.state = IF tempLost + 1 > SwitchLimit THEN "lost" ELSE s
                            /\ m.detect = detectCount /\ m.lost = tempLost + 1
      /\ s = "temp_lost" => /\ m.state = IF tempLost + 1 > MaxLost[target.name] THEN "lost" ELSE s
                            /\ m.detect = detectCount /\ m.lost = tempLost + 1
  BY DEF NotFound, Missed, Go, States
<1> HIDE DEF m
<1>5. state' \in {"lost", "temp_lost", "switching"}
  BY <1>3, <1>4 DEF States
<1>6. TypeInv'
  BY <1>1, <1>3, <1>4 DEF TrackInv, TypeInv, States
<1>7. OmniInv'
  BY <1>3, <1>4 DEF TrackInv, TypeInv, OmniInv, StartsFrom, States
<1>8. AgeInv'
  <2>1. CASE state' = "temp_lost"
    BY <1>1, <1>3, <1>4, <2>1 DEF TrackInv, TypeInv, AgeInv, StartsFrom, States
  <2>2. CASE state' = "switching"
    BY <1>1, <1>3, <1>4, <2>2 DEF TrackInv, TypeInv, AgeInv, StartsFrom, States
  <2> QED
    BY <1>5, <2>1, <2>2 DEF AgeInv
<1>9. CountInv'
  BY <1>3, <1>4, <1>5 DEF TrackInv, TypeInv, CountInv, StartsFrom, States
<1> QED
  BY <1>6, <1>7, <1>8, <1>9 DEF TrackInv

(* The frame that ends "switching".                                        *)
LEMMA TurnedInv ==
  ASSUME TrackInv, NEW s \in States, Turned(s), enemy' \in Colors, UNCHANGED program
  PROVE  TrackInv'
<1> USE Limits
<1>1. /\ s = "switching" /\ state = "switching" /\ program = "omni"
      /\ target' = target /\ target \in Plates
      /\ age' \in {0, age, age + 1}
      /\ age <= tempLost /\ tempLost <= SwitchLimit
      /\ detectCount = MinDetect
  BY DEF Turned, Keep, OneMore, TrackInv, TypeInv, OmniInv, AgeInv, CountInv
<1>2. /\ detectCount' = IF detectCount > MinDetect THEN MinDetect ELSE detectCount
      /\ tempLost' = IF tempLost > SwitchLimit THEN SwitchLimit + 1 ELSE tempLost
      /\ preState' = "switching"
      /\ state' \in {"detecting", "lost"}
      /\ streak' = IF state' = "lost" THEN 0 ELSE IF streak < MinDetect THEN streak + 1 ELSE streak
  BY <1>1 DEF Turned, Step, Found, Go
<1>3. TypeInv'
  BY <1>1, <1>2 DEF TrackInv, TypeInv, States
<1>4. OmniInv' /\ CountInv'
  BY <1>1, <1>2 DEF OmniInv, CountInv
<1>5. AgeInv'
  BY <1>1, <1>2 DEF TrackInv, TypeInv, AgeInv
<1> QED
  BY <1>3, <1>4, <1>5 DEF TrackInv

(* The frames in which the target was of the own side.                     *)
LEMMA OwnStep ==
  ASSUME IInv, NEW s \in States, StartsFrom(s), Sighted(s) \/ Unseen(s) \/ Turned(s),
         friendly' = IF state' = "lost" \/ target'.color = enemy' THEN 0 ELSE OneMore(friendly)
  PROVE  OwnInv'
<1>1. CASE Sighted(s)
  BY <1>1 DEF Sighted, OwnInv
<1>2. CASE Unseen(s) \/ Turned(s)
  <2>1. s = "lost" => state' = "lost"
    BY <1>2 DEF Unseen, Turned, Step, NotFound, Go
  <2>2. CASE state' = "lost"
    BY <2>2 DEF OwnInv
  <2>3. CASE state' # "lost"
    <3>1. state # "lost" /\ age' = OneMore(age)
      BY <1>2, <2>1, <2>3 DEF Unseen, Turned, Keep, StartsFrom
    <3>2. friendly \in Nat /\ age \in Nat /\ friendly <= age /\ SwitchLimit \in Nat
      BY <3>1, Limits DEF IInv, TrackInv, TypeInv, OwnInv
    <3>3. OneMore(friendly) <= OneMore(age) /\ OneMore(friendly) \in Nat /\ OneMore(age) \in Nat
      BY <3>2 DEF OneMore
    <3> QED
      BY <3>1, <3>3 DEF OwnInv
  <2> QED
    BY <2>2, <2>3
<1> QED
  BY <1>1, <1>2

(* Every step keeps the invariant.                                         *)
LEMMA NextInv == IInv /\ [Next]_vars => IInv'
<1> SUFFICES ASSUME IInv, [Next]_vars PROVE IInv'
  OBVIOUS
<1>1. CASE Infer \/ UNCHANGED vars
  BY <1>1 DEF Infer, vars, track, IInv, TrackInv, TypeInv, OmniInv, AgeInv, CountInv, OwnInv
<1>2. CASE Frame
  <2>1. /\ enemy' \in Colors /\ UNCHANGED program
        /\ friendly' = IF state' = "lost" \/ target'.color = enemy' THEN 0 ELSE OneMore(friendly)
    BY <1>2 DEF Frame
  <2>2. PICK s \in States : StartsFrom(s) /\ (Sighted(s) \/ Unseen(s) \/ Turned(s))
    BY <1>2, FrameKinds DEF IInv, TrackInv
  <2>3. TrackInv'
    BY <2>1, <2>2, SightedInv, UnseenInv, TurnedInv DEF IInv
  <2>4. OwnInv'
    BY <2>1, <2>2, OwnStep
  <2> QED
    BY <2>3, <2>4 DEF IInv
<1> QED
  BY <1>1, <1>2 DEF Next

(* The inductive invariant of the tracker holds in every reachable state.  *)
THEOREM InvCorrect == Spec => []IInv
<1> QED
  BY InitInv, NextInv, PTL DEF Spec

(* The age of a target that is aimed at.                                   *)
LEMMA AgeBound ==
  ASSUME IInv, Aims
  PROVE  age <= Grace /\ Grace \in Nat
<1>1. /\ state \in {"detecting", "tracking", "temp_lost"}
      /\ MaxLost[target.name] \in Nat /\ MaxLost[target.name] > 0
  BY Limits DEF IInv, TrackInv, TypeInv, States, Aims
<1> QED
  BY <1>1, Limits DEF IInv, TrackInv, TypeInv, AgeInv, Grace

(* What is aimed at was seen within the limits of the configuration.       *)
THEOREM AimedSeenCorrect == Spec => []AimedSeen
<1>1. IInv => AimedSeen
  BY AgeBound DEF AimedSeen
<1> QED
  BY <1>1, InvCorrect, PTL

(* A target of the own side is aimed at no longer than that, whenever the  *)
(* enemy's colour changes.                                                 *)
THEOREM OwnSideFadesCorrect == Spec => []OwnSideFades
<1>1. IInv => OwnSideFades
  <2> SUFFICES ASSUME IInv, Aims PROVE friendly <= Grace
    BY DEF OwnSideFades
  <2>1. friendly \in Nat /\ age \in Nat /\ friendly <= age
    BY DEF IInv, TrackInv, TypeInv, OwnInv, Aims
  <2>2. age <= Grace /\ Grace \in Nat
    BY AgeBound
  <2> QED
    BY <2>1, <2>2
<1> QED
  BY <1>1, InvCorrect, PTL

(* A target is confirmed by MinDetect frames in a row, unless the side     *)
(* cameras announced it.                                                   *)
THEOREM ConfirmedCorrect == Spec => Confirmed
<1> DEFINE A == state = "detecting" /\ state' = "tracking" /\ preState # "switching"
                  => streak' >= MinDetect
<1>1. IInv /\ [Next]_vars => [A]_vars
  <2> SUFFICES ASSUME IInv, Next, state = "detecting", state' = "tracking", preState # "switching"
               PROVE  streak' >= MinDetect
    OBVIOUS
  <2>1. Frame
    BY DEF Next, Infer, track
  <2>2. PICK s \in States : StartsFrom(s) /\ (Sighted(s) \/ Unseen(s) \/ Turned(s))
    BY <2>1, FrameKinds DEF IInv, TrackInv
  <2>3. Sighted(s)
    <3>1. CASE Unseen(s)
      BY <2>2, <3>1 DEF Unseen, Step, NotFound, Missed, Go, States
    <3> QED
      BY <2>2, <3>1 DEF Turned
  <2>4. s = "detecting"
    BY <2>2, <2>3 DEF Sighted, StartsFrom, Step, Found, Go
  <2>5. /\ detectCount + 1 >= MinDetect
        /\ streak' = IF streak < MinDetect THEN streak + 1 ELSE streak
    BY <2>3, <2>4 DEF Sighted, Step, Found, Go
  <2>6. detectCount <= streak /\ detectCount \in Nat /\ streak \in Nat
    BY Limits DEF IInv, TrackInv, TypeInv, CountInv
  <2> QED
    BY <2>5, <2>6, Limits
<1> QED
  BY <1>1, InvCorrect, PTL DEF Spec, Confirmed

-----------------------------------------------------------------------------
(* The turn to a side camera's target.                                     *)

QueueInv == queue \in Seq(Pictures)

(* The queue of the side cameras holds what Infer adds to it.              *)
LEMMA QueueCorrect == Spec => []QueueInv
<1>1. Init => QueueInv
  BY DEF Init, QueueInv
<1>2. QueueInv /\ [Next]_vars => QueueInv'
  <2> SUFFICES ASSUME QueueInv, [Next]_vars PROVE QueueInv'
    OBVIOUS
  <2>1. CASE Infer
    <3>1. PICK p \in Pictures : queue' = Append(queue, p)
      BY <2>1 DEF Infer
    <3> QED
      BY <3>1 DEF QueueInv
  <2>2. CASE Frame \/ UNCHANGED vars
    <3>1. queue' = <<>> \/ queue' = queue
      BY <2>2 DEF Frame, vars
    <3>2. <<>> \in Seq(Pictures)
      OBVIOUS
    <3> QED
      BY <3>1, <3>2 DEF QueueInv
  <2> QED
    BY <2>1, <2>2 DEF Next
<1> QED
  BY <1>1, <1>2, PTL DEF Spec

(* Decider::sort leaves a picture in front whose most urgent plate no      *)
(* other picture exceeds, unless one of them is empty.                     *)
LEMMA SortedBest ==
  ASSUME NEW results, NEW omni \in SortedFirst(results), omni.armors # {}
  PROVE  /\ \E i \in 1..Len(results) : omni = results[i]
         /\ \/ \E i \in 1..Len(results) : results[i].armors = {}
            \/ \A i \in 1..Len(results) : Top(omni.armors) <= Top(results[i].armors)
<1> DEFINE all == {results[i] : i \in 1..Len(results)}
<1>1. results # <<>>
  BY DEF SortedFirst, NoPicture
<1>2. omni \in all
  BY <1>1 DEF SortedFirst
<1>3. CASE ~\E r \in all : r.armors = {}
  <2>1. omni \in {r \in all : r.armors = {} \/ \A o \in all : Top(r.armors) <= Top(o.armors)}
    BY <1>1, <1>3 DEF SortedFirst
  <2> QED
    BY <1>2, <2>1
<1> QED
  BY <1>2, <1>3

(* Tracker::state_machine never goes to "switching" by itself.             *)
LEMMA StaysOut ==
  ASSUME NEW s \in States, s # "switching", NEW found \in BOOLEAN, Step(s, found)
  PROVE  state' # "switching"
<1>1. CASE found
  BY <1>1 DEF Step, Found, Go, States
<1>2. CASE ~found
  BY <1>2 DEF Step, NotFound, Missed, Go, States
<1> QED
  BY <1>1, <1>2

(* The gimbal turns to the picture in front; when the tracker turns to it  *)
(* too, it waits for the priority of that picture's most urgent plate.     *)
LEMMA TurnsToFront ==
  ASSUME TypeInv, Frame, turn' # NoPlate
  PROVE  \E omni \in SortedFirst([i \in DOMAIN queue |-> Filtered(queue[i])]) :
           /\ omni.armors # {}
           /\ turn' = omni.angle
           /\ state' = "switching" => omniPriority' = Top(omni.armors)
<1>1. PICK omni \in SortedFirst([i \in DOMAIN queue |-> Filtered(queue[i])]),
           armors \in SUBSET Filter(Armors), s \in {state, "lost"} :
        /\ \/ s = "lost" /\ SetTarget(s, armors)
           \/ s # "lost" /\ program # "omni" /\ UpdateTarget(s, armors)
           \/ s # "lost" /\ program = "omni" /\ TrackOmni(s, armors, omni.armors)
        /\ turn' = Turn(omni)
  BY FrameParts
<1>2. /\ omni.armors # {} /\ turn' = omni.angle
      /\ state' = "lost" \/ (state # "switching" /\ state' = "switching")
  BY <1>1 DEF Turn
<1>3. ASSUME state' = "switching" PROVE omniPriority' = Top(omni.armors)
  <2>1. s \in States /\ s # "switching"
    BY <1>2, <1>3 DEF TypeInv, States
  <2>2. ~SetTarget(s, armors)
    BY <1>3, <2>1, StaysOut DEF SetTarget
  <2>3. ~UpdateTarget(s, armors)
    BY <1>3, <2>1, StaysOut DEF UpdateTarget
  <2> QED
    BY <1>1, <2>1, <2>2, <2>3 DEF TrackOmni
<1> QED
  BY <1>2, <1>3

(* The gimbal turns to a picture with a most urgent enemy, unless one of   *)
(* them held no enemy.                                                     *)
THEOREM TurnsToBestCorrect == Spec => TurnsToBest
<1> DEFINE Best == LET results == {Filtered(queue[i]) : i \in DOMAIN queue}
                   IN \/ \E r \in results : r.armors = {}
                      \/ \E r \in results :
                           /\ turn' = r.angle
                           /\ state' = "switching" => omniPriority' = Top(r.armors)
                           /\ \A o \in results : Top(r.armors) <= Top(o.armors)
<1>1. IInv /\ QueueInv /\ [Next]_vars => [turn' # NoPlate => Best]_vars
  <2> SUFFICES ASSUME IInv, QueueInv, Next, turn' # NoPlate
               PROVE  Best
    OBVIOUS
  <2>1. Frame
    BY DEF Next, Infer
  <2>2. PICK omni \in SortedFirst([i \in DOMAIN queue |-> Filtered(queue[i])]) :
          /\ omni.armors # {}
          /\ turn' = omni.angle
          /\ state' = "switching" => omniPriority' = Top(omni.armors)
    BY <2>1, TurnsToFront DEF IInv, TrackInv
  <2>3. PICK F : F = [i \in DOMAIN queue |-> Filtered(queue[i])]
    OBVIOUS
  <2>4. DOMAIN queue = 1..Len(queue) /\ Len(queue) \in Nat
    BY DEF QueueInv
  <2>5. Len(F) = Len(queue) /\ \A i \in 1..Len(queue) : F[i] = Filtered(queue[i])
    BY <2>3, <2>4
  <2>6. omni \in SortedFirst(F) /\ omni.armors # {}
    BY <2>2, <2>3
  <2>7. /\ \E i \in 1..Len(F) : omni = F[i]
        /\ \/ \E i \in 1..Len(F) : F[i].armors = {}
           \/ \A i \in 1..Len(F) : Top(omni.armors) <= Top(F[i].armors)
    BY ONLY <2>6, SortedBest
  <2>8. /\ \E i \in DOMAIN queue : omni = Filtered(queue[i])
        /\ \/ \E i \in DOMAIN queue : Filtered(queue[i]).armors = {}
           \/ \A i \in DOMAIN queue : Top(omni.armors) <= Top(Filtered(queue[i]).armors)
    BY <2>4, <2>5, <2>7
  <2> QED
    BY <2>2, <2>8
<1> QED
  BY <1>1, InvCorrect, QueueCorrect, PTL DEF Spec, TurnsToBest
=============================================================================
