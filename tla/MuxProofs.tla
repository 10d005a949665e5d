------------------------------ MODULE MuxProofs ------------------------------
(***************************************************************************)
(* Proofs about MuxArbiter and, through it, about CameraChannel, for any   *)
(* number of channels, any priorities and any sequence of failed sends.    *)
(***************************************************************************)
EXTENDS CameraChannel, FiniteSetTheorems, TLAPS

Slots == [used : BOOLEAN, msg : Messages \cup {NoMessage}, age : Nat]

TypeInv ==
  /\ slots \in Seq(ChannelIds)
  /\ Len(slots) <= ChMax
  /\ pending \in [Indices -> Slots]
  /\ rrCursor \in 0..Len(slots)
  /\ DOMAIN queued = ChannelIds
  /\ DOMAIN sent = ChannelIds
  /\ waited \in [Indices -> Nat]

(* Only the first slot of a channel is ever used, and it waits for no      *)
(* longer than its age tells.                                              *)
UsedInv ==
  \A i \in Indices :
    /\ pending[i].used => IsSlotOf(i, slots[i])
    /\ ~pending[i].used => waited[i] = 0
    /\ waited[i] <= pending[i].age \/ AgeCap <= pending[i].age

(* The first slot of a channel holds what was queued last, or it was sent. *)
LatestInv ==
  \A c \in ChannelIds :
    \/ /\ \A i \in Registered : slots[i] # c
       /\ sent[c] = queued[c]
    \/ \E i \in Registered :
         /\ IsSlotOf(i, c)
         /\ IF pending[i].used THEN pending[i].msg = queued[c] ELSE sent[c] = queued[c]

-----------------------------------------------------------------------------
(* Which slots can still be served before slot i, once it has seen FairAge *)
(* frames of others.                                                       *)

(* Those that wait since before i had seen FairAge frames: the others are  *)
(* too young for the starvation guard.                                     *)
Older(i) ==
  {j \in Registered \ {i} : pending[j].used /\ waited[i] - FairAge < pending[j].age}

(* Those of the same priority that the round robin reaches before i.       *)
Before(i) == {j \in Registered : Prio(j) = Prio(i) /\ Distance(j) < Distance(i)}

Ahead(i) == Older(i) \cup (IF i \in Urgent THEN Before(i) ELSE {})

(* Every frame that passes a waiting slot by is one of them less.          *)
WaitInv ==
  \A i \in Registered :
    FairAge <= waited[i] => waited[i] + Cardinality(Ahead(i)) < FairAge + Len(slots)

IInv == TypeInv /\ UsedInv /\ LatestInv /\ WaitInv

-----------------------------------------------------------------------------
(* The limits of config.h as the proofs use them.                          *)
LEMMA Limits ==
  /\ ChMax \in Nat /\ FairAge \in Nat /\ AgeCap \in Nat
  /\ ChMax < FairAge /\ FairAge <= AgeCap
BY ArbiterAssumption

(* What the state types say about one slot.                                *)
LEMMA Typed ==
  ASSUME TypeInv
  PROVE  /\ Len(slots) \in Nat /\ Len(slots) <= ChMax /\ Registered \subseteq Indices
         /\ \A i \in Registered : slots[i] \in ChannelIds
         /\ \A i \in Indices : /\ pending[i] \in Slots
                               /\ pending[i].used \in BOOLEAN
                               /\ pending[i].age \in Nat
                               /\ waited[i] \in Nat
<1>1. Len(slots) \in Nat /\ Len(slots) <= ChMax /\ Registered \subseteq Indices
  BY Limits DEF TypeInv, Registered, Indices
<1>2. \A i \in Indices : pending[i] \in Slots /\ waited[i] \in Nat
  BY DEF TypeInv
<1>3. \A i \in Registered : slots[i] \in ChannelIds
  BY DEF TypeInv, Registered
<1> QED
  BY <1>1, <1>2, <1>3 DEF Slots

(* Ageing only changes ages, and those by at most one.                     *)
LEMMA BumpedIs ==
  ASSUME TypeInv
  PROVE  /\ Bumped \in [Indices -> Slots]
         /\ \A j \in Indices :
              /\ Bumped[j].used <=> pending[j].used
              /\ Bumped[j].msg = pending[j].msg
              /\ Bumped[j].age = IF pending[j].used /\ pending[j].age < AgeCap
                                 THEN pending[j].age + 1 ELSE pending[j].age
<1> SUFFICES ASSUME NEW j \in Indices
             PROVE  /\ Bumped[j] \in Slots
                    /\ Bumped[j].used <=> pending[j].used
                    /\ Bumped[j].msg = pending[j].msg
                    /\ Bumped[j].age = IF pending[j].used /\ pending[j].age < AgeCap
                                       THEN pending[j].age + 1 ELSE pending[j].age
  BY DEF Bumped
<1>1. pending[j] \in Slots /\ pending[j].age \in Nat
  BY Typed
<1>2. CASE pending[j].used /\ pending[j].age < AgeCap
  <2>1. Bumped[j] = [pending[j] EXCEPT !.age = pending[j].age + 1]
    BY <1>2 DEF Bumped
  <2> QED
    BY <1>1, <1>2, <2>1 DEF Slots
<1>3. CASE ~(pending[j].used /\ pending[j].age < AgeCap)
  <2>1. Bumped[j] = pending[j]
    BY <1>3 DEF Bumped
  <2> QED
    BY <1>1, <1>3, <2>1
<1> QED
  BY <1>2, <1>3

(* The effect of the three operations, slot by slot.                       *)
LEMMA RegisterEffect ==
  ASSUME TypeInv, NEW c \in ChannelIds, Register(c)
  PROVE  /\ slots' \in Seq(ChannelIds) /\ Len(slots') = Len(slots) + 1
         /\ Len(slots) < ChMax
         /\ \A i \in Registered : slots'[i] = slots[i]
         /\ slots'[Len(slots) + 1] = c
         /\ Registered' = Registered \cup {Len(slots) + 1}
         /\ UNCHANGED <<pending, rrCursor, queued, sent, waited>>
<1>1. slots \in Seq(ChannelIds) /\ slots' = Append(slots, c) /\ Len(slots) \in Nat
  BY DEF TypeInv, Register
<1>2. /\ slots' \in Seq(ChannelIds) /\ Len(slots') = Len(slots) + 1
      /\ \A i \in 1..Len(slots) : slots'[i] = slots[i]
      /\ slots'[Len(slots) + 1] = c
  BY <1>1
<1>3. 1..(Len(slots) + 1) = (1..Len(slots)) \cup {Len(slots) + 1}
  BY <1>1
<1> QED
  BY <1>2, <1>3 DEF Register, Registered

(* Queueing changes the slot of its channel and no other.                  *)
LEMMA QueueEffect ==
  ASSUME TypeInv, NEW c \in ChannelIds, NEW m \in Messages, QueueNotify(c, m)
  PROVE  \E i \in Indices :
           /\ IsSlotOf(i, c)
           /\ pending' \in [Indices -> Slots]
           /\ pending'[i].used /\ pending'[i].msg = m
           /\ pending'[i].age = IF pending[i].used THEN pending[i].age ELSE 0
           /\ \A j \in Indices \ {i} : pending'[j] = pending[j]
           /\ queued' = [queued EXCEPT ![c] = m]
           /\ UNCHANGED <<slots, rrCursor, sent, waited>>
<1>1. PICK i \in Indices :
        /\ IsSlotOf(i, c)
        /\ pending' = [pending EXCEPT ![i] =
             [used |-> TRUE, msg |-> m, age |-> IF @.used THEN @.age ELSE 0]]
  BY DEF QueueNotify
<1> DEFINE a == IF pending[i].used THEN pending[i].age ELSE 0
           r == [used |-> TRUE, msg |-> m, age |-> a]
<1>2. pending' = [pending EXCEPT ![i] = r] /\ pending \in [Indices -> Slots]
  BY <1>1 DEF TypeInv
<1>3. a \in Nat
  BY Typed
<1>4. r \in Slots /\ r.used /\ r.msg = m /\ r.age = a
  BY <1>3 DEF Slots
<1> HIDE DEF r
<1>5. pending' \in [Indices -> Slots] /\ pending'[i] = r
      /\ \A j \in Indices \ {i} : pending'[j] = pending[j]
  BY <1>2, <1>4
<1> QED
  BY <1>1, <1>4, <1>5 DEF QueueNotify

(* What a tick does to the slots it does not choose, with their waits.     *)
Sent(k) ==
  /\ \A j \in Indices \ {k} : pending'[j] = Bumped[j]
  /\ ~pending'[k].used /\ pending'[k].age = 0
  /\ sent' = [sent EXCEPT ![slots[k]] = pending[k].msg]
  /\ waited' = [j \in Indices |-> IF j \in Ready \ {k} THEN LongerWait(waited[j]) ELSE 0]

Refused == pending' = Bumped /\ waited' = [j \in Indices |-> 0] /\ UNCHANGED sent

(* A tick serves one ready slot, or ages all when the port refuses.        *)
LEMMA TickEffect ==
  ASSUME TypeInv, ArbiterTick
  PROVE  \E k \in Ready :
           /\ k \in Registered /\ pending[k].used
           /\ Choose(k)
           /\ pending' \in [Indices -> Slots]
           /\ UNCHANGED <<slots, queued>>
           /\ Sent(k) \/ Refused
<1>1. PICK k \in Ready :
        /\ Choose(k)
        /\ \/ /\ pending' = [Bumped EXCEPT ![k] = [@ EXCEPT !.used = FALSE, !.age = 0]]
              /\ sent' = [sent EXCEPT ![slots[k]] = pending[k].msg]
              /\ waited' = [j \in Indices |->
                   IF j \in Ready \ {k} THEN LongerWait(waited[j]) ELSE 0]
           \/ Refused
        /\ UNCHANGED <<slots, queued>>
  BY DEF ArbiterTick, Refused
<1>2. k \in Registered /\ pending[k].used /\ k \in Indices
  BY Typed DEF Ready
<1>3. Bumped \in [Indices -> Slots]
  BY BumpedIs
<1>4. CASE Refused
  BY <1>1, <1>2, <1>3, <1>4 DEF Refused
<1>5. CASE /\ pending' = [Bumped EXCEPT ![k] = [@ EXCEPT !.used = FALSE, !.age = 0]]
           /\ sent' = [sent EXCEPT ![slots[k]] = pending[k].msg]
           /\ waited' = [j \in Indices |->
                IF j \in Ready \ {k} THEN LongerWait(waited[j]) ELSE 0]
  <2> DEFINE b == Bumped[k]
             r == [b EXCEPT !.used = FALSE, !.age = 0]
  <2>1. b \in Slots
    BY <1>2, <1>3
  <2>2. r \in Slots /\ ~r.used /\ r.age = 0
    <3> HIDE DEF b
    <3> QED
      BY <2>1 DEF Slots
  <2>3. pending' = [Bumped EXCEPT ![k] = r]
    BY <1>5
  <2> HIDE DEF r, b
  <2>4. /\ pending' \in [Indices -> Slots] /\ pending'[k] = r
        /\ \A j \in Indices \ {k} : pending'[j] = Bumped[j]
    BY <1>2, <1>3, <2>2, <2>3
  <2>5. Sent(k)
    BY <1>5, <2>2, <2>4 DEF Sent
  <2> QED
    BY <1>1, <1>2, <2>4, <2>5
<1> QED
  BY <1>1, <1>4, <1>5

-----------------------------------------------------------------------------
(* Every step registers, queues or ticks.                                  *)
LEMMA NextCases ==
  ASSUME [Next]_avars
  PROVE  \/ \E c \in ChannelIds : Register(c)
         \/ \E c \in ChannelIds, m \in Messages : QueueNotify(c, m)
         \/ ArbiterTick
         \/ UNCHANGED avars
BY DEF Next

LEMMA TypeStep ==
  ASSUME TypeInv, [Next]_avars
  PROVE  TypeInv'
<1>1. CASE \E c \in ChannelIds : Register(c)
  <2>1. PICK c \in ChannelIds : Register(c)
    BY <1>1
  <2>2. /\ slots' \in Seq(ChannelIds) /\ Len(slots') = Len(slots) + 1 /\ Len(slots) < ChMax
        /\ UNCHANGED <<pending, rrCursor, queued, sent, waited>>
    BY <2>1, RegisterEffect
  <2>3. Len(slots) \in Nat /\ ChMax \in Nat /\ rrCursor \in 0..Len(slots)
    BY Typed, Limits DEF TypeInv
  <2>4. Len(slots') <= ChMax /\ rrCursor' \in 0..Len(slots')
    BY <2>2, <2>3
  <2> QED
    BY <2>2, <2>4 DEF TypeInv, Indices
<1>2. CASE \E c \in ChannelIds, m \in Messages : QueueNotify(c, m)
  <2>1. PICK c \in ChannelIds, m \in Messages : QueueNotify(c, m)
    BY <1>2
  <2>2. /\ pending' \in [Indices -> Slots] /\ queued' = [queued EXCEPT ![c] = m]
        /\ UNCHANGED <<slots, rrCursor, sent, waited>>
    BY <2>1, QueueEffect
  <2> QED
    BY <2>2 DEF TypeInv, Indices
<1>3. CASE ArbiterTick
  <2>1. PICK k \in Ready : /\ k \in Registered /\ Choose(k)
                           /\ pending' \in [Indices -> Slots]
                           /\ UNCHANGED <<slots, queued>>
                           /\ Sent(k) \/ Refused
    BY <1>3, TickEffect
  <2>2. rrCursor' \in 0..Len(slots)
    BY <2>1, Typed DEF Choose, CursorAfter, Registered, TypeInv
  <2>3. DOMAIN sent' = ChannelIds
    BY <2>1 DEF Sent, Refused, TypeInv
  <2>4. waited' \in [Indices -> Nat]
    <3>1. \A j \in Indices : LongerWait(waited[j]) \in Nat
      BY Typed DEF LongerWait
    <3> QED
      BY <2>1, <3>1 DEF Sent, Refused
  <2> QED
    BY <2>1, <2>2, <2>3, <2>4 DEF TypeInv
<1>4. CASE UNCHANGED avars
  BY <1>4 DEF avars, TypeInv
<1> QED
  BY NextCases, <1>1, <1>2, <1>3, <1>4

(* Registering and sending leave the first slots where they are.           *)
LEMMA SlotOfKept ==
  ASSUME TypeInv, NEW i \in Indices, NEW c, IsSlotOf(i, c),
         Registered \subseteq Registered', \A j \in Registered : slots'[j] = slots[j]
  PROVE  IsSlotOf(i, c)'
<1>1. i \in Registered /\ slots[i] = c /\ \A j \in 1..(i - 1) : slots[j] # c
  BY DEF IsSlotOf
<1>2. \A j \in 1..(i - 1) : j \in Registered
  BY <1>1, Typed DEF Registered
<1> QED
  BY <1>1, <1>2 DEF IsSlotOf

(* Only the first slot of a channel is used, and it waits no longer than   *)
(* its age tells.                                                          *)
LEMMA UsedStep ==
  ASSUME TypeInv, TypeInv', UsedInv, [Next]_avars
  PROVE  UsedInv'
<1>1. CASE \E c \in ChannelIds : Register(c)
  <2>1. PICK c \in ChannelIds : Register(c)
    BY <1>1
  <2>2. /\ \A j \in Registered : slots'[j] = slots[j]
        /\ Registered \subseteq Registered'
        /\ UNCHANGED <<pending, waited>>
    BY <2>1, RegisterEffect
  <2>3. ASSUME NEW i \in Indices, pending[i].used
        PROVE  IsSlotOf(i, slots[i])' 
    <3>1. IsSlotOf(i, slots[i]) /\ i \in Registered
      BY <2>3 DEF UsedInv, IsSlotOf
    <3> DEFINE c0 == slots[i]
    <3>2. slots'[i] = c0
      BY <2>2, <3>1
    <3>3. \A j \in 1..(i - 1) : j \in Registered
      BY <3>1, Typed DEF Registered
    <3> QED
      BY <2>2, <3>1, <3>2, <3>3 DEF IsSlotOf
  <2> QED
    BY <2>2, <2>3 DEF UsedInv, Indices
<1>2. CASE \E c \in ChannelIds, m \in Messages : QueueNotify(c, m)
  <2>1. PICK c \in ChannelIds, m \in Messages : QueueNotify(c, m)
    BY <1>2
  <2>2. PICK i \in Indices :
           /\ IsSlotOf(i, c)
           /\ pending'[i].used
           /\ pending'[i].age = IF pending[i].used THEN pending[i].age ELSE 0
           /\ \A j \in Indices \ {i} : pending'[j] = pending[j]
           /\ UNCHANGED <<slots, rrCursor, sent, waited>>
    BY <2>1, QueueEffect
  <2>3. IsSlotOf(i, slots[i])
    BY <2>2 DEF IsSlotOf
  <2>4. waited[i] <= pending'[i].age \/ AgeCap <= pending'[i].age
    <3>1. waited[i] \in Nat /\ pending[i].age \in Nat /\ AgeCap \in Nat
      BY Typed, Limits
    <3> QED
      BY <2>2, <3>1 DEF UsedInv
  <2> QED
    BY <2>2, <2>3, <2>4 DEF UsedInv, IsSlotOf, Registered
<1>3. CASE ArbiterTick
  <2>1. PICK k \in Ready : /\ k \in Registered /\ pending[k].used
                           /\ UNCHANGED <<slots, queued>>
                           /\ Sent(k) \/ Refused
    BY <1>3, TickEffect
  <2> SUFFICES ASSUME NEW i \in Indices
               PROVE  /\ pending'[i].used => IsSlotOf(i, slots[i])
                      /\ ~pending'[i].used => waited'[i] = 0
                      /\ waited'[i] <= pending'[i].age \/ AgeCap <= pending'[i].age
    BY <2>1 DEF UsedInv, IsSlotOf, Registered
  <2>2. /\ waited[i] \in Nat /\ pending[i].age \in Nat /\ pending'[i].age \in Nat /\ AgeCap \in Nat
        /\ waited'[i] \in Nat
    <3>1. pending'[i] \in Slots /\ waited'[i] \in Nat
      BY DEF TypeInv, Indices
    <3> QED
      BY <3>1, Typed, Limits DEF Slots
  <2>3. /\ Bumped[i].used <=> pending[i].used
        /\ Bumped[i].age = IF pending[i].used /\ pending[i].age < AgeCap
                           THEN pending[i].age + 1 ELSE pending[i].age
    BY BumpedIs
  <2>4. i \in Ready => pending[i].used
    BY DEF Ready
  <2>5. CASE Refused
    <3>1. waited'[i] = 0 /\ pending'[i] = Bumped[i]
      BY <2>5 DEF Refused
    <3> QED
      BY <2>2, <2>3, <3>1 DEF UsedInv
  <2>6. CASE Sent(k) /\ i = k
    <3>1. ~pending'[i].used /\ waited'[i] = 0
      BY <2>6 DEF Sent
    <3> QED
      BY <2>2, <3>1
  <2>7. CASE Sent(k) /\ i # k
    <3>1. /\ pending'[i] = Bumped[i]
          /\ waited'[i] = IF i \in Ready THEN LongerWait(waited[i]) ELSE 0
      BY <2>7 DEF Sent
    <3>2. LongerWait(waited[i]) \in {waited[i], waited[i] + 1}
      BY DEF LongerWait
    <3>3. ~pending[i].used => waited'[i] = 0
      BY <2>4, <3>1
    <3>4. waited'[i] <= pending'[i].age \/ AgeCap <= pending'[i].age
      BY <2>2, <2>3, <2>4, <3>1, <3>2 DEF UsedInv
    <3> QED
      BY <2>3, <3>1, <3>3, <3>4 DEF UsedInv
  <2> QED
    BY <2>1, <2>5, <2>6, <2>7
<1>4. CASE UNCHANGED avars
  BY <1>4 DEF avars, UsedInv, IsSlotOf, Registered
<1> QED
  BY NextCases, <1>1, <1>2, <1>3, <1>4

-----------------------------------------------------------------------------
(* Channel c as LatestInv has it.                                          *)
Unregistered(c) == (\A i \in Registered : slots[i] # c) /\ sent[c] = queued[c]

Served(i, c) ==
  /\ i \in Registered
  /\ IsSlotOf(i, c)
  /\ pending[i].used => pending[i].msg = queued[c]
  /\ ~pending[i].used => sent[c] = queued[c]

(* LatestInv, channel by channel.                                          *)
LEMMA LatestIs == LatestInv <=> \A c \in ChannelIds : Unregistered(c) \/ \E i \in Registered : Served(i, c)
BY DEF LatestInv, Unregistered, Served

(* A channel has one slot.                                                 *)
LEMMA OneSlot ==
  ASSUME TypeInv, NEW c, NEW i \in Indices, NEW j \in Indices, IsSlotOf(i, c), IsSlotOf(j, c)
  PROVE  i = j
<1>1. i \in Nat /\ j \in Nat /\ i >= 1 /\ j >= 1
  BY DEF Indices
<1>2. ~(i < j) /\ ~(j < i)
  BY <1>1 DEF IsSlotOf
<1> QED
  BY <1>1, <1>2

(* A slot in use holds the latest value; an empty one has sent it.         *)
LEMMA LatestStep ==
  ASSUME TypeInv, UsedInv, LatestInv, [Next]_avars
  PROVE  LatestInv'
<1>0. SUFFICES ASSUME NEW c \in ChannelIds
               PROVE  Unregistered(c)' \/ \E i \in Registered' : Served(i, c)'
  BY DEF LatestInv, Unregistered, Served
<1>1. Unregistered(c) \/ \E i \in Registered : Served(i, c)
  BY LatestIs
<1>2. CASE \E d \in ChannelIds : Register(d)
  <2>1. PICK d \in ChannelIds : Register(d)
    BY <1>2
  <2>2. PICK l \in Indices :
        /\ \A j \in Registered : slots'[j] = slots[j]
        /\ slots'[l] = d
        /\ Registered' = Registered \cup {l}
        /\ UNCHANGED <<pending, queued, sent>>
        /\ l \notin Registered /\ \A j \in 1..(l - 1) : j \in Registered
    <3> DEFINE l == Len(slots) + 1
    <3>1. Len(slots) \in Nat /\ Len(slots) < ChMax /\ ChMax \in Nat
      BY <2>1, RegisterEffect, Typed, Limits
    <3>2. l \in Indices /\ l \notin Registered /\ \A j \in 1..(l - 1) : j \in Registered
      BY <3>1 DEF Indices, Registered
    <3> QED
      BY <2>1, <3>2, RegisterEffect
  <2>3. CASE Unregistered(c) /\ c # d
    BY <2>2, <2>3 DEF Unregistered
  <2>4. CASE Unregistered(c) /\ c = d
    <3>1. ~pending[l].used
      BY <2>2 DEF UsedInv, IsSlotOf
    <3>2. IsSlotOf(l, c)'
      BY <2>2, <2>4 DEF IsSlotOf, Unregistered
    <3>3. Served(l, c)'
      BY <2>2, <2>4, <3>1, <3>2 DEF Served, Unregistered
    <3> QED
      BY <2>2, <3>3
  <2>5. ASSUME NEW i \in Registered, Served(i, c)
        PROVE  Served(i, c)' /\ i \in Registered'
    <3>1. i \in Indices /\ IsSlotOf(i, c) /\ Registered \subseteq Registered'
      BY <2>2, <2>5, Typed DEF Served
    <3>2. IsSlotOf(i, c)'
      BY <2>2, <3>1, SlotOfKept
    <3> QED
      BY <2>2, <2>5, <3>1, <3>2 DEF Served
  <2> QED
    BY <1>1, <2>3, <2>4, <2>5
<1>3. CASE \E d \in ChannelIds, m \in Messages : QueueNotify(d, m)
  <2>1. PICK d \in ChannelIds, m \in Messages : QueueNotify(d, m)
    BY <1>3
  <2>2. PICK i \in Indices :
           /\ IsSlotOf(i, d)
           /\ pending'[i].used /\ pending'[i].msg = m
           /\ \A j \in Indices \ {i} : pending'[j] = pending[j]
           /\ queued' = [queued EXCEPT ![d] = m]
           /\ UNCHANGED <<slots, rrCursor, sent, waited>>
    BY <2>1, QueueEffect
  <2>3. /\ queued'[d] = m /\ (c # d => queued'[c] = queued[c]) /\ Registered' = Registered
        /\ i \in Registered /\ slots[i] = d
    BY <2>2 DEF TypeInv, Registered, IsSlotOf
  <2>4. CASE c = d
    <3>1. Served(i, c)'
      BY <2>2, <2>3, <2>4 DEF Served, IsSlotOf
    <3> QED
      BY <2>3, <3>1
  <2>5. CASE c # d /\ Unregistered(c)
    BY <2>2, <2>3, <2>5 DEF Unregistered
  <2>6. ASSUME c # d, NEW j \in Registered, Served(j, c)
        PROVE  Served(j, c)'
    <3>1. j # i /\ j \in Indices
      BY <2>3, <2>6, Typed DEF Served, IsSlotOf
    <3>2. pending'[j] = pending[j]
      BY <2>2, <3>1
    <3> QED
      BY <2>2, <2>3, <2>6, <3>2 DEF Served, IsSlotOf
  <2> QED
    BY <1>1, <2>3, <2>4, <2>5, <2>6
<1>4. CASE ArbiterTick
  <2>1. PICK k \in Ready : /\ k \in Registered /\ pending[k].used
                           /\ UNCHANGED <<slots, queued>>
                           /\ Sent(k) \/ Refused
    BY <1>4, TickEffect
  <2>2. k \in Indices /\ IsSlotOf(k, slots[k]) /\ slots[k] \in ChannelIds /\ Registered' = Registered
    BY <2>1, Typed DEF UsedInv, Registered
  <2>3. \A j \in Indices : (Bumped[j].used <=> pending[j].used) /\ Bumped[j].msg = pending[j].msg
    BY BumpedIs
  <2>4. CASE Refused
    <3>1. pending' = Bumped /\ sent' = sent
      BY <2>4 DEF Refused
    <3>2. CASE Unregistered(c)
      BY <2>1, <2>2, <3>1, <3>2 DEF Unregistered
    <3>3. ASSUME NEW j \in Registered, Served(j, c)
          PROVE  Served(j, c)'
      BY <2>1, <2>2, <2>3, <3>1, <3>3, Typed DEF Served, IsSlotOf
    <3> QED
      BY <1>1, <2>2, <3>2, <3>3
  <2>5. CASE Sent(k) /\ c = slots[k]
    <3>1. Served(k, c)
      <4>1. ~Unregistered(c)
        BY <2>1, <2>5 DEF Unregistered
      <4>2. PICK j \in Registered : Served(j, c)
        BY <1>1, <4>1
      <4>3. j = k
        BY <2>2, <2>5, <4>2, OneSlot, Typed DEF Served
      <4> QED
        BY <4>2, <4>3
    <3>2. ~pending'[k].used /\ sent'[c] = pending[k].msg
      BY <2>5 DEF Sent, TypeInv
    <3>3. Served(k, c)'
      BY <2>1, <2>2, <3>1, <3>2 DEF Served, IsSlotOf
    <3> QED
      BY <2>1, <2>2, <3>3
  <2>6. CASE Sent(k) /\ c # slots[k]
    <3>1. sent'[c] = sent[c] /\ \A j \in Indices \ {k} : pending'[j] = Bumped[j]
      BY <2>6 DEF Sent, TypeInv
    <3>2. CASE Unregistered(c)
      BY <2>1, <2>2, <3>1, <3>2 DEF Unregistered
    <3>3. ASSUME NEW j \in Registered, Served(j, c)
          PROVE  Served(j, c)'
      <4>1. j # k /\ j \in Indices
        BY <2>6, <3>3, Typed DEF Served, IsSlotOf
      <4> QED
        BY <2>1, <2>2, <2>3, <3>1, <3>3, <4>1 DEF Served, IsSlotOf
    <3> QED
      BY <1>1, <2>2, <3>2, <3>3
  <2> QED
    BY <2>1, <2>4, <2>5, <2>6
<1>5. CASE UNCHANGED avars
  BY <1>1, <1>5 DEF avars, Unregistered, Served, IsSlotOf, Registered
<1> QED
  BY NextCases, <1>2, <1>3, <1>4, <1>5

-----------------------------------------------------------------------------
(* The round robin.                                                        *)

(* The remainder of a difference of two numbers below the divisor.         *)
LEMMA ModSmall ==
  ASSUME NEW m \in Nat \ {0}, NEW a \in Int, -m <= a, a < m
  PROVE  a % m = IF a >= 0 THEN a ELSE a + m
<1> DEFINE q == a \div m
           r == a % m
<1>1. q \in Int /\ r \in 0..(m - 1) /\ a = m * q + r
  OBVIOUS
<1> HIDE DEF q, r
<1>2. CASE q >= 1
  <2>1. m * q >= m
    BY <1>1, <1>2
  <2> QED
    BY <1>1, <2>1
<1>3. CASE q <= -2
  <2>1. m * q <= -(m + m)
    BY <1>1, <1>3
  <2> QED
    BY <1>1, <2>1
<1>4. CASE q = 0
  <2>1. a = r
    BY <1>1, <1>4
  <2> QED
    BY <1>1, <2>1 DEF r
<1>5. CASE q = -1
  <2>1. m * q = -m
    BY <1>5
  <2>2. r = a + m
    BY <1>1, <2>1
  <2>3. ~(a >= 0)
    BY <1>1, <2>2
  <2> QED
    BY <2>2, <2>3 DEF r
<1> QED
  BY <1>1, <1>2, <1>3, <1>4, <1>5

(* The distance without the modulus: cursor c, n slots.                    *)
Around(i, c, n) ==
  IF c = n THEN i - 1 ELSE IF c <= i - 1 THEN (i - 1) - c ELSE (i - 1) - c + n

(* The distance of round robin without the remainders.                     *)
LEMMA AroundIs ==
  ASSUME NEW n \in Nat \ {0}, NEW c \in 0..n, NEW i \in 1..n
  PROVE  ((i - 1) - (c % n)) % n = Around(i, c, n)
<1>1. CASE c = n
  <2>1. c % n = 0
    <3>1. n \in Int /\ n % n = 0
      OBVIOUS
    <3> QED
      BY <1>1, <3>1
  <2>2. ((i - 1) - 0) % n = i - 1
    <3>1. i - 1 \in Int /\ -n <= i - 1 /\ i - 1 < n /\ i - 1 >= 0 /\ (i - 1) - 0 = i - 1
      OBVIOUS
    <3> QED
      BY <3>1, ModSmall
  <2> QED
    BY <1>1, <2>1, <2>2 DEF Around
<1>2. CASE c # n
  <2>1. c \in Int /\ -n <= c /\ c < n /\ c >= 0
    BY <1>2
  <2>2. c % n = c
    BY <2>1, ModSmall
  <2> DEFINE a == (i - 1) - c
  <2>3. a \in Int /\ -n <= a /\ a < n /\ (a >= 0 <=> c <= i - 1)
    BY <2>1
  <2> HIDE DEF a
  <2>4. a % n = IF a >= 0 THEN a ELSE a + n
    BY <2>3, ModSmall
  <2> QED
    BY <1>2, <2>2, <2>3, <2>4 DEF Around, a
<1> QED
  BY <1>1, <1>2

(* Distance(i) is that distance from the cursor.                           *)
LEMMA DistanceIs ==
  ASSUME TypeInv, NEW i \in Registered
  PROVE  Distance(i) = Around(i, rrCursor, Len(slots))
<1>1. Len(slots) \in Nat \ {0} /\ i \in 1..Len(slots) /\ rrCursor \in 0..Len(slots)
  BY Typed DEF TypeInv, Registered
<1> QED
  BY <1>1, AroundIs DEF Distance

(* The order in which the round robin reaches the slots.                   *)
LEMMA AroundOrder ==
  ASSUME NEW n \in Nat, NEW c \in 0..n, NEW i \in 1..n, NEW j \in 1..n
  PROVE  /\ Around(i, c, n) \in 0..(n - 1)
         /\ Around(i, c, n) = Around(j, c, n) => i = j
         /\ Around(j, c, n + 1) < Around(i, c, n + 1) => Around(j, c, n) < Around(i, c, n)
BY DEF Around

(* After slot k was served, those between it and slot i remain.            *)
LEMMA AroundServed ==
  ASSUME NEW n \in Nat, NEW c \in 0..n, NEW i \in 1..n, NEW j \in 1..n, NEW k \in 1..n,
         Around(k, c, n) < Around(i, c, n), Around(j, k, n) < Around(i, k, n)
  PROVE  j # k /\ Around(j, c, n) < Around(i, c, n)
BY DEF Around

-----------------------------------------------------------------------------
(* A slot has one rival fewer than there are slots.                        *)
LEMMA Others ==
  ASSUME TypeInv, NEW i \in Registered
  PROVE  IsFiniteSet(Registered \ {i}) /\ Cardinality(Registered \ {i}) = Len(slots) - 1
<1>1. Len(slots) \in Nat /\ i \in 1..Len(slots)
  BY Typed DEF Registered
<1>2. 1 \in Int /\ Len(slots) \in Int /\ ~(1 > Len(slots))
  BY <1>1
<1>3. IsFiniteSet(1..Len(slots)) /\ Cardinality(1..Len(slots)) = Len(slots) - 1 + 1
  BY <1>2, FS_Interval
<1>4. IsFiniteSet(Registered) /\ Cardinality(Registered) = Len(slots)
  BY <1>1, <1>3 DEF Registered
<1> QED
  BY <1>4, FS_RemoveElement

(* The slots that go before a starved one are finitely many.               *)
LEMMA AheadSize ==
  ASSUME TypeInv, NEW i \in Registered
  PROVE  IsFiniteSet(Ahead(i)) /\ Cardinality(Ahead(i)) \in Nat
<1>1. Ahead(i) \subseteq Registered \cup {i}
  BY DEF Ahead, Older, Before
<1>2. IsFiniteSet(Registered \ {i}) /\ Registered = (Registered \ {i}) \cup {i}
  BY Others
<1>3. IsFiniteSet(Registered)
  BY <1>2, FS_AddElement
<1> QED
  BY <1>1, <1>3, FS_Subset, FS_CardinalityType

(* A slot that has waited is in use.                                       *)
LEMMA Waiting ==
  ASSUME TypeInv, UsedInv, NEW i \in Registered, FairAge <= waited[i]
  PROVE  /\ i \in Ready /\ pending[i].used
         /\ FairAge <= pending[i].age
<1>1. /\ waited[i] \in Nat /\ pending[i].age \in Nat /\ i \in Indices
      /\ FairAge \in Nat /\ AgeCap \in Nat /\ FairAge > 0 /\ FairAge <= AgeCap
  BY Typed, Limits
<1>2. pending[i].used
  BY <1>1 DEF UsedInv
<1>3. waited[i] <= pending[i].age \/ AgeCap <= pending[i].age
  BY <1>1 DEF UsedInv
<1> QED
  BY <1>1, <1>2, <1>3 DEF Ready

LEMMA PrioNat ==
  ASSUME TypeInv, NEW i \in Registered
  PROVE  Prio(i) \in Nat
BY Typed, ArbiterAssumption DEF Prio

(* A new channel may come before a waiting slot, once.                     *)
LEMMA WaitRegister ==
  ASSUME TypeInv, TypeInv', UsedInv, WaitInv, NEW c \in ChannelIds, Register(c),
         NEW i \in Registered', FairAge <= waited'[i]
  PROVE  waited'[i] + Cardinality(Ahead(i)') < FairAge + Len(slots')
<1>1. PICK l \in Indices :
        /\ l = Len(slots) + 1 /\ Len(slots) \in Nat /\ Len(slots') = Len(slots) + 1
        /\ \A j \in Registered : slots'[j] = slots[j]
        /\ Registered' = Registered \cup {l}
        /\ UNCHANGED <<pending, rrCursor, waited>>
        /\ l \notin Registered
        /\ rrCursor \in 0..Len(slots)
  <2>1. Len(slots) \in Nat /\ Len(slots) < ChMax /\ ChMax \in Nat
    BY RegisterEffect, Typed, Limits
  <2>2. Len(slots) + 1 \in Indices /\ Len(slots) + 1 \notin Registered
    BY <2>1 DEF Indices, Registered
  <2> QED
    BY <2>1, <2>2, RegisterEffect DEF TypeInv
<1>2. ~pending[l].used
  BY <1>1 DEF UsedInv, IsSlotOf
<1>3. i \in Registered /\ FairAge <= waited[i]
  <2>1. waited[l] = 0 /\ 0 < FairAge
    BY <1>1, <1>2, Limits DEF UsedInv
  <2> QED
    BY <1>1, <2>1, Limits
<1>4. Ready' = Ready /\ \A j \in Registered : Prio(j)' = Prio(j)
  BY <1>1, <1>2 DEF Ready, Prio
<1>5. Urgent' = Urgent
  <2>1. Ready \subseteq Registered
    BY DEF Ready
  <2> QED
    BY <1>4, <2>1 DEF Urgent
<1>6. Older(i)' \subseteq Older(i)
  BY <1>1, <1>2 DEF Older
<1>7. Before(i)' \subseteq Before(i) \cup {l}
  <2> SUFFICES ASSUME NEW j \in Registered, j \in Before(i)' PROVE j \in Before(i)
    BY <1>1 DEF Before
  <2>1. Prio(j) = Prio(i) /\ Distance(j)' < Distance(i)'
    BY <1>3, <1>4 DEF Before
  <2>2. /\ Distance(j)' = Around(j, rrCursor, Len(slots) + 1)
        /\ Distance(i)' = Around(i, rrCursor, Len(slots) + 1)
    <3>1. /\ Len(slots) + 1 \in Nat \ {0} /\ rrCursor \in 0..(Len(slots) + 1)
          /\ i \in 1..(Len(slots) + 1) /\ j \in 1..(Len(slots) + 1)
      BY <1>1, <1>3 DEF Registered
    <3> QED
      BY <1>1, <3>1, AroundIs DEF Distance
  <2>3. /\ Distance(j) = Around(j, rrCursor, Len(slots))
        /\ Distance(i) = Around(i, rrCursor, Len(slots))
    BY <1>3, DistanceIs
  <2>4. Distance(j) < Distance(i)
    <3>1. /\ Len(slots) \in Nat /\ rrCursor \in 0..Len(slots)
          /\ i \in 1..Len(slots) /\ j \in 1..Len(slots)
      BY <1>1, <1>3 DEF Registered
    <3>2. Around(j, rrCursor, Len(slots) + 1) < Around(i, rrCursor, Len(slots) + 1)
            => Around(j, rrCursor, Len(slots)) < Around(i, rrCursor, Len(slots))
      BY <3>1, AroundOrder
    <3> QED
      BY <2>1, <2>2, <2>3, <3>2
  <2> QED
    BY <2>1, <2>4 DEF Before
<1>8. Ahead(i)' \subseteq Ahead(i) \cup {l}
  BY <1>5, <1>6, <1>7 DEF Ahead
<1> DEFINE a == Cardinality(Ahead(i))
           b == Cardinality(Ahead(i)')
<1>9. a \in Nat /\ b \in Nat /\ b <= a + 1
  <2>1. IsFiniteSet(Ahead(i)) /\ a \in Nat
    BY <1>3, AheadSize
  <2>2. IsFiniteSet(Ahead(i) \cup {l}) /\ Cardinality(Ahead(i) \cup {l}) \in {a, a + 1}
    BY <2>1, FS_AddElement
  <2>3. IsFiniteSet(Ahead(i)') /\ b <= Cardinality(Ahead(i) \cup {l})
    BY <1>8, <2>2, FS_Subset
  <2>4. b \in Nat
    BY <2>3, FS_CardinalityType
  <2> HIDE DEF a, b
  <2> QED
    BY <2>1, <2>2, <2>3, <2>4
<1>10. waited[i] + a < FairAge + Len(slots) /\ waited[i] \in Nat
  BY <1>3, Typed DEF WaitInv
<1> HIDE DEF a, b
<1>11. waited[i] + b < FairAge + (Len(slots) + 1)
  BY <1>1, <1>9, <1>10, Limits
<1> QED
  BY <1>1, <1>11 DEF b

(* What is queued now is too young to come before a waiting slot.          *)
LEMMA WaitQueue ==
  ASSUME TypeInv, TypeInv', UsedInv, WaitInv, NEW c \in ChannelIds, NEW m \in Messages,
         QueueNotify(c, m), NEW i \in Registered', FairAge <= waited'[i]
  PROVE  waited'[i] + Cardinality(Ahead(i)') < FairAge + Len(slots')
<1>1. PICK k \in Indices :
        /\ pending'[k].used
        /\ pending'[k].age = IF pending[k].used THEN pending[k].age ELSE 0
        /\ \A j \in Indices \ {k} : pending'[j] = pending[j]
        /\ UNCHANGED <<slots, rrCursor, sent, waited>>
  BY QueueEffect
<1>2. Registered' = Registered /\ i \in Registered /\ Registered \subseteq Indices
  BY <1>1, Typed DEF Registered
<1>3. i \in Ready /\ FairAge <= waited[i] /\ waited[i] \in Nat /\ FairAge \in Nat
  BY <1>1, <1>2, Waiting, Typed, Limits
<1>4. Older(i)' \subseteq Older(i)
  <2> SUFFICES ASSUME NEW j \in Registered \ {i}, pending'[j].used, waited[i] - FairAge < pending'[j].age
               PROVE  pending[j].used /\ waited[i] - FairAge < pending[j].age
    BY <1>1, <1>2 DEF Older
  <2>1. CASE j = k
    BY <1>1, <1>3, <2>1
  <2>2. CASE j # k
    BY <1>1, <1>2, <2>2
  <2> QED
    BY <2>1, <2>2
<1>5. Ready \subseteq Ready' /\ \A j \in Registered : Prio(j)' = Prio(j)
  <2>1. \A j \in Registered : pending[j].used => pending'[j].used
    BY <1>1, <1>2
  <2> QED
    BY <1>1, <1>2, <2>1 DEF Ready, Prio
<1>6. i \in Urgent' => i \in Urgent
  <2>1. Ready \subseteq Registered
    BY DEF Ready
  <2> QED
    BY <1>2, <1>3, <1>5, <2>1 DEF Urgent
<1>7. Before(i)' = Before(i)
  BY <1>1, <1>2 DEF Before, Prio, Distance
<1>8. Ahead(i)' \subseteq Ahead(i)
  BY <1>4, <1>6, <1>7 DEF Ahead
<1> DEFINE a == Cardinality(Ahead(i))
           b == Cardinality(Ahead(i)')
<1>9. a \in Nat /\ b \in Nat /\ b <= a
  <2>1. IsFiniteSet(Ahead(i)) /\ a \in Nat
    BY <1>2, AheadSize
  <2>2. IsFiniteSet(Ahead(i)') /\ b <= a
    BY <1>8, <2>1, FS_Subset
  <2> QED
    BY <2>1, <2>2, FS_CardinalityType
<1>10. waited[i] + a < FairAge + Len(slots) /\ Len(slots) \in Nat
  BY <1>2, <1>3, Typed DEF WaitInv
<1> HIDE DEF a, b
<1>11. waited[i] + b < FairAge + Len(slots)
  BY <1>3, <1>9, <1>10
<1> QED
  BY <1>1, <1>11 DEF b

(* A frame that passes a waiting slot by leaves one slot less ahead of it. *)
LEMMA Passed ==
  ASSUME TypeInv, UsedInv, NEW i \in Registered, NEW k \in Ready, k # i,
         FairAge <= waited[i], waited[i] < FairAge + Len(slots),
         waited'[i] = waited[i] + 1, Choose(k), Sent(k), slots' = slots
  PROVE  k \in Ahead(i) /\ Ahead(i)' \subseteq Ahead(i) \ {k}
<1>1. /\ waited[i] \in Nat /\ FairAge \in Nat /\ AgeCap \in Nat /\ ChMax \in Nat
      /\ Len(slots) \in Nat /\ Len(slots) <= ChMax /\ ChMax < FairAge /\ FairAge <= AgeCap
      /\ \A j \in Registered : j \in Indices /\ pending[j].age \in Nat /\ Prio(j) \in Nat
      /\ k \in Registered /\ pending[k].used /\ Ready \subseteq Registered
  BY Limits, Typed, PrioNat DEF Ready
<1>2. i \in Ready /\ FairAge <= pending[i].age
  BY Waiting
<1>3. \A j \in Registered :
        /\ Bumped[j].used <=> pending[j].used
        /\ Bumped[j].age = IF pending[j].used /\ pending[j].age < AgeCap
                           THEN pending[j].age + 1 ELSE pending[j].age
  BY <1>1, BumpedIs
<1>4. /\ \A j \in Registered \ {k} : pending'[j] = Bumped[j]
      /\ ~pending'[k].used
      /\ Registered' = Registered
      /\ Ready' = Ready \ {k}
      /\ \A j \in Registered : Prio(j)' = Prio(j)
  <2>1. /\ \A j \in Registered \ {k} : pending'[j] = Bumped[j]
        /\ ~pending'[k].used
        /\ Registered' = Registered
        /\ \A j \in Registered : Prio(j)' = Prio(j)
    BY <1>1 DEF Sent, Registered, Prio
  <2> QED
    BY <1>1, <1>3, <2>1 DEF Ready
<1>5. Older(i)' \subseteq Older(i) \ {k}
  <2> SUFFICES ASSUME NEW j \in Registered \ {i}, pending'[j].used,
                      waited'[i] - FairAge < pending'[j].age
               PROVE  j # k /\ pending[j].used /\ waited[i] - FairAge < pending[j].age
    BY <1>4 DEF Older
  <2>1. j # k /\ pending'[j] = Bumped[j]
    BY <1>4
  <2>2. pending[j].used
    BY <1>3, <2>1
  <2> DEFINE w == waited[i]
             a == pending[j].age
             b == Bumped[j].age
             n == Len(slots)
  <2>3. /\ w \in Nat /\ a \in Nat /\ w < FairAge + n /\ n \in Nat /\ n <= ChMax
        /\ w + 1 - FairAge < b
        /\ b = IF a < AgeCap THEN a + 1 ELSE a
    BY <1>1, <1>3, <2>1, <2>2
  <2> HIDE DEF w, a, b, n
  <2>4. w - FairAge < a
    BY <1>1, <2>3
  <2> QED
    BY <2>1, <2>2, <2>4 DEF w, a
<1>6. CASE IsOldestAged(k) /\ rrCursor' = rrCursor
  <2>1. k \in Aged /\ Bumped[k].age >= FairAge
    BY <1>6 DEF IsOldestAged, Aged
  <2>2. waited[i] - FairAge < pending[k].age
    <3> DEFINE w == waited[i]
               a == pending[k].age
               b == Bumped[k].age
               n == Len(slots)
    <3>1. /\ w \in Nat /\ a \in Nat /\ w < FairAge + n /\ n \in Nat /\ n <= ChMax
          /\ b >= FairAge
          /\ b = IF a < AgeCap THEN a + 1 ELSE a
      BY <1>1, <1>3, <2>1
    <3> HIDE DEF w, a, b, n
    <3>2. w - FairAge < a
      BY <1>1, <3>1
    <3> QED
      BY <3>2 DEF w, a
  <2>3. k \in Older(i)
    BY <1>1, <2>2 DEF Older
  <2>4. PICK h \in Ready : ~(Prio(h) <= Prio(k))
    BY <2>1 DEF Aged, Urgent
  <2>5. i \in Urgent' => i \in Urgent
    <3> SUFFICES ASSUME i \in Urgent', NEW j \in Ready PROVE Prio(j) <= Prio(i)
      BY <1>2 DEF Urgent
    <3>1. \A g \in Ready \ {k} : Prio(g) <= Prio(i)
      BY <1>1, <1>4 DEF Urgent
    <3>2. h # k /\ Prio(h) <= Prio(i)
      BY <1>1, <2>4, <3>1
    <3>3. CASE j = k
      BY <1>1, <2>4, <3>2, <3>3
    <3> QED
      BY <3>1, <3>3
  <2>6. Before(i)' = Before(i)
    BY <1>4, <1>6 DEF Before, Prio, Distance
  <2>7. i \in Urgent => k \notin Before(i)
    BY <1>1, <2>4 DEF Urgent, Before
  <2> QED
    BY <1>5, <2>3, <2>5, <2>6, <2>7 DEF Ahead
<1>7. CASE Aged = {} /\ IsNextUrgent(k) /\ rrCursor' = k
  <2>1. Bumped[i].age >= FairAge
    BY <1>1, <1>2, <1>3
  <2>2. i \in Urgent /\ k \in Urgent
    BY <1>2, <1>7, <2>1 DEF Aged, IsNextUrgent
  <2>3. Prio(k) = Prio(i)
    BY <1>1, <2>2 DEF Urgent
  <2> DEFINE n == Len(slots)
             D(j) == Around(j, rrCursor, n)
             E(j) == Around(j, k, n)
  <2>4. n \in Nat \ {0} /\ rrCursor \in 0..n /\ \A j \in Registered : j \in 1..n
    BY <1>1 DEF TypeInv, Registered
  <2>5. \A j \in Registered : Distance(j) = D(j) /\ Distance(j)' = E(j)
    <3>1. \A j \in Registered : Distance(j)' = ((j - 1) - (k % n)) % n
      BY <1>7 DEF Distance
    <3>2. k \in 0..n
      BY <1>1, <2>4
    <3> QED
      BY <2>4, <3>1, <3>2, DistanceIs, AroundIs
  <2>6. D(k) < D(i)
    <3>1. D(k) <= D(i)
      BY <1>1, <1>7, <2>2, <2>5 DEF IsNextUrgent
    <3>2. D(k) \in Int /\ D(i) \in Int /\ D(k) # D(i)
      BY <1>1, <2>4, AroundOrder
    <3> HIDE DEF D
    <3> QED
      BY <3>1, <3>2
  <2>7. k \in Before(i)
    BY <1>1, <2>3, <2>5, <2>6 DEF Before
  <2>8. Before(i)' \subseteq Before(i) \ {k}
    <3> SUFFICES ASSUME NEW j \in Registered, Prio(j) = Prio(i), E(j) < E(i)
                 PROVE  j # k /\ D(j) < D(i)
      BY <1>4, <2>5 DEF Before
    <3> QED
      BY <1>1, <2>4, <2>6, AroundServed
  <2> QED
    BY <1>5, <2>2, <2>7, <2>8 DEF Ahead
<1> QED
  BY <1>6, <1>7 DEF Choose, CursorAfter

(* The heart of NoStarvation: a tick that makes a starved slot wait serves *)
(* one that was ahead of it, so the sum grows no further.                  *)
LEMMA WaitTick ==
  ASSUME TypeInv, TypeInv', UsedInv, WaitInv, ArbiterTick, NEW i \in Registered',
         FairAge <= waited'[i]
  PROVE  waited'[i] + Cardinality(Ahead(i)') < FairAge + Len(slots')
<1>1. PICK k \in Ready : /\ k \in Registered /\ Choose(k)
                         /\ UNCHANGED <<slots, queued>>
                         /\ Sent(k) \/ Refused
  BY TickEffect
<1>2. /\ Registered' = Registered /\ i \in Registered /\ i \in Indices
      /\ waited[i] \in Nat /\ FairAge \in Nat /\ FairAge > 0
      /\ Len(slots) \in Nat /\ Len(slots) <= ChMax /\ ChMax \in Nat
  BY <1>1, Typed, Limits DEF Registered
<1>3. Sent(k) /\ i \in Ready \ {k} /\ waited'[i] = LongerWait(waited[i])
  <2>1. waited'[i] # 0
    BY <1>2
  <2>2. ~Refused
    BY <1>2, <2>1 DEF Refused
  <2>3. waited'[i] = IF i \in Ready \ {k} THEN LongerWait(waited[i]) ELSE 0
    BY <1>1, <1>2, <2>2 DEF Sent
  <2> QED
    BY <1>1, <2>1, <2>2, <2>3
<1>4. CASE waited[i] < FairAge
  <2>1. waited'[i] = FairAge
    BY <1>2, <1>3, <1>4 DEF LongerWait
  <2>2. i \notin Before(i)'
    <3>1. /\ Len(slots) \in Nat \ {0} /\ i \in 1..Len(slots) /\ rrCursor' \in 0..Len(slots)
      BY <1>1, <1>2 DEF TypeInv, Registered
    <3>2. Distance(i)' = Around(i, rrCursor', Len(slots))
      BY <1>1, <3>1, AroundIs DEF Distance
    <3>3. Distance(i)' \in Int
      BY <3>1, <3>2, AroundOrder
    <3> QED
      BY <3>3 DEF Before
  <2>3. Ahead(i)' \subseteq Registered \ {i}
    BY <1>2, <2>2 DEF Ahead, Older, Before
  <2>4. IsFiniteSet(Registered \ {i}) /\ Cardinality(Registered \ {i}) = Len(slots) - 1
    BY <1>2, Others
  <2> DEFINE b == Cardinality(Ahead(i)')
  <2>5. b \in Nat /\ b <= Len(slots) - 1
    BY <2>3, <2>4, FS_Subset, FS_CardinalityType
  <2> HIDE DEF b
  <2>6. FairAge + b < FairAge + Len(slots)
    BY <1>2, <2>5
  <2> QED
    BY <1>1, <2>1, <2>6 DEF b
<1>5. CASE FairAge <= waited[i]
  <2> DEFINE a == Cardinality(Ahead(i))
             b == Cardinality(Ahead(i)')
  <2>1. IsFiniteSet(Ahead(i)) /\ a \in Nat /\ waited[i] + a < FairAge + Len(slots)
    BY <1>2, <1>5, AheadSize DEF WaitInv
  <2>2. waited[i] < FairAge + Len(slots) /\ waited'[i] = waited[i] + 1
    <3> HIDE DEF a
    <3> QED
      BY <1>2, <1>3, <2>1 DEF LongerWait
  <2>3. k \in Ahead(i) /\ Ahead(i)' \subseteq Ahead(i) \ {k}
    BY <1>1, <1>2, <1>3, <1>5, <2>2, Passed
  <2>4. IsFiniteSet(Ahead(i) \ {k}) /\ Cardinality(Ahead(i) \ {k}) = a - 1
    BY <2>1, <2>3, FS_RemoveElement
  <2>5. b \in Nat /\ b <= a - 1
    BY <2>3, <2>4, FS_Subset, FS_CardinalityType
  <2> HIDE DEF a, b
  <2>6. (waited[i] + 1) + b < FairAge + Len(slots)
    BY <1>2, <2>1, <2>5
  <2> QED
    BY <1>1, <2>2, <2>6 DEF b
<1> QED
  BY <1>2, <1>4, <1>5

LEMMA WaitStep ==
  ASSUME TypeInv, TypeInv', UsedInv, WaitInv, [Next]_avars
  PROVE  WaitInv'
<1>1. CASE UNCHANGED avars
  BY <1>1 DEF avars, WaitInv, Ahead, Older, Before, Urgent, Ready, Prio, Distance, Registered
<1>2. CASE ~UNCHANGED avars
  <2> SUFFICES ASSUME NEW i \in Registered', FairAge <= waited'[i]
               PROVE  waited'[i] + Cardinality(Ahead(i)') < FairAge + Len(slots')
    BY DEF WaitInv
  <2> QED
    BY NextCases, <1>2, WaitRegister, WaitQueue, WaitTick
<1> QED
  BY <1>1, <1>2

-----------------------------------------------------------------------------
LEMMA InitInv == Init => IInv
<1> SUFFICES ASSUME Init PROVE IInv
  OBVIOUS
<1>1. /\ slots = <<>> /\ slots \in Seq(ChannelIds) /\ Len(slots) = 0 /\ Registered = {}
      /\ \A i \in Indices : pending[i] = Empty /\ waited[i] = 0
      /\ \A c \in ChannelIds : sent[c] = queued[c]
  BY DEF Init, Registered
<1>2. Empty \in Slots /\ ~Empty.used /\ Empty.age = 0
  BY DEF Empty, Slots
<1>3. TypeInv
  BY <1>1, <1>2, Limits DEF Init, TypeInv
<1>4. UsedInv
  BY <1>1, <1>2, Limits DEF UsedInv
<1> QED
  BY <1>1, <1>3, <1>4 DEF IInv, LatestInv, WaitInv

LEMMA NextInv == IInv /\ [Next]_avars => IInv'
BY TypeStep, UsedStep, LatestStep, WaitStep DEF IInv

(* What the camera channel queues are messages.                            *)
LEMMA CameraTypes ==
  /\ Cam \in ChannelIds /\ Other \in Messages
  /\ \A e \in 0..MaxResets : Ack(e) \in Messages
  /\ \A e \in 0..MaxResets, id \in 1..MaxTriggers : Event(e, id) \in Messages
<1>1. CameraMessages \subseteq Messages
  BY CameraAssumption
<1> QED
  BY <1>1, CameraAssumption DEF CameraMessages

CameraInv == nextFrameId \in Nat /\ nextFrameId >= 1 /\ epoch \in 0..MaxResets

LEMMA CameraStep == CameraInv /\ [CNext]_<<avars, cvars>> => CameraInv'
<1> SUFFICES ASSUME CameraInv, [CNext]_<<avars, cvars>> PROVE CameraInv'
  OBVIOUS
<1>1. MaxResets \in Nat /\ epoch \in Nat
  BY CameraAssumption DEF CameraInv
<1>2. \/ UNCHANGED <<nextFrameId, epoch>>
      \/ nextFrameId' = nextFrameId + 1 /\ epoch' = epoch
      \/ nextFrameId' = 1 /\ (epoch' = epoch \/ (epoch < MaxResets /\ epoch' = epoch + 1))
  <2>1. CASE CRegister \/ CameraTick \/ OtherTraffic \/ CArbiterTick \/ UNCHANGED <<avars, cvars>>
    BY <2>1 DEF CRegister, CameraTick, OtherTraffic, CArbiterTick, cvars
  <2>2. CASE Trigger
    BY <2>2 DEF Trigger
  <2>3. CASE OnReset
    BY <2>3 DEF OnReset
  <2>4. CASE LocalReset
    BY <2>4 DEF LocalReset
  <2> QED
    BY <2>1, <2>2, <2>3, <2>4 DEF CNext
<1> QED
  BY <1>1, <1>2 DEF CameraInv

(* Every step of the board with a camera channel is one of the arbiter.    *)
LEMMA CameraSteps == CameraInv /\ [CNext]_<<avars, cvars>> => [Next]_avars
<1> SUFFICES ASSUME CameraInv, [CNext]_<<avars, cvars>> PROVE [Next]_avars
  OBVIOUS
<1>1. CASE CRegister
  BY <1>1 DEF CRegister, Next
<1>2. CASE Trigger
  <2>1. QueueNotify(Cam, Event(epoch, nextFrameId)) /\ nextFrameId <= MaxTriggers
    BY <1>2 DEF Trigger
  <2>2. nextFrameId \in 1..MaxTriggers /\ epoch \in 0..MaxResets
    BY <2>1, CameraAssumption DEF CameraInv
  <2>3. Event(epoch, nextFrameId) \in Messages
    BY <2>2, CameraTypes
  <2> QED
    BY <2>1, <2>3, CameraTypes DEF Next
<1>3. CASE CameraTick
  <2>1. QueueNotify(Cam, Ack(epoch)) /\ Ack(epoch) \in Messages
    BY <1>3, CameraTypes DEF CameraTick, CameraInv
  <2> QED
    BY <2>1, CameraTypes DEF Next
<1>4. CASE OtherTraffic
  BY <1>4, CameraTypes DEF OtherTraffic, Next
<1>5. CASE CArbiterTick
  BY <1>5 DEF CArbiterTick, Next
<1>6. CASE UNCHANGED avars
  BY <1>6
<1> QED
  BY <1>1, <1>2, <1>3, <1>4, <1>5, <1>6 DEF CNext, OnReset, LocalReset

(* The board with the camera channel runs the arbiter and adds nothing to  *)
(* it: CameraChannel implements MuxArbiter.                                *)
THEOREM CameraImplementsArbiter == CSpec => Spec
<1>1. CInit => CameraInv /\ Init
  BY CameraAssumption DEF CInit, CameraInv
<1> QED
  BY <1>1, CameraStep, CameraSteps, PTL DEF CSpec, Spec

(* The invariant holds in every reachable state.                           *)
THEOREM InvCorrect == Spec => []IInv
BY InitInv, NextInv, PTL DEF Spec

(* A channel with nothing pending has sent what was queued for it last,    *)
(* for any number of channels, overwrites and failed sends.                *)
THEOREM LatestSentCorrect == Spec => []LatestSent
<1>1. IInv => LatestSent
  <2> SUFFICES ASSUME IInv, NEW c \in ChannelIds,
                      \A i \in Registered : slots[i] = c => ~pending[i].used
               PROVE  sent[c] = queued[c]
    BY DEF LatestSent
  <2> QED
    BY DEF IInv, LatestInv, IsSlotOf
<1> QED
  BY <1>1, InvCorrect, PTL

(* No slot sees FairAge frames of others and one more for each other       *)
(* registered channel go by.                                               *)
THEOREM NoStarvationCorrect == Spec => []NoStarvation
<1>1. IInv => NoStarvation
  <2> SUFFICES ASSUME IInv, NEW i \in Registered PROVE waited[i] < FairAge + Len(slots)
    BY DEF NoStarvation
  <2>1. /\ waited[i] \in Nat /\ FairAge \in Nat /\ Len(slots) \in Nat /\ Len(slots) >= 1
        /\ Cardinality(Ahead(i)) \in Nat
    BY Typed, Limits, AheadSize DEF IInv, Registered
  <2> QED
    BY <2>1 DEF IInv, WaitInv
<1> QED
  BY <1>1, InvCorrect, PTL

(* Both hold on the board with the camera channel, whatever it queues.     *)
THEOREM CameraServed == CSpec => [](LatestSent /\ NoStarvation)
BY CameraImplementsArbiter, LatestSentCorrect, NoStarvationCorrect, PTL
=============================================================================
