----------------------------- MODULE MuxArbiter -----------------------------
(***************************************************************************)
(* The channel manager and the arbiter that multiplexes the logical        *)
(* channels onto one uproto notification stream                            *)
(* (io/dm02/protocol/core/comm.c).  Every registered channel owns one      *)
(* pending slot; queueing overwrites what is still there (keep-latest).    *)
(* Each arbiter tick ages the pending slots, picks one and sends it.       *)
(*                                                                         *)
(* Sequence numbers and the byte layout of a frame are left out: with the  *)
(* sizes of config.h a pending payload always fits the encode buffer, so   *)
(* mux_encode never fails.                                                 *)
(***************************************************************************)
EXTENDS Integers, Sequences

CONSTANTS
  ChMax,       \* CH_MAX
  ChannelIds,  \* logical channel ids
  Priority,    \* cfg.priority of every channel, larger is more urgent
  FairAge,     \* CH_ARB_FAIR_AGE
  AgeCap,      \* 0xFFFF, where the 16-bit age saturates
  Messages,    \* what is queued
  NoMessage,   \* stands for "nothing yet"
  MaxFails     \* bound on the sends the port refuses

ASSUME ArbiterAssumption ==
  /\ ChMax \in Nat \ {0}
  /\ Priority \in [ChannelIds -> Nat]
  /\ FairAge \in Nat
  /\ ChMax < FairAge        \* 8 and 10 in config.h
  /\ AgeCap \in Nat
  /\ FairAge <= AgeCap
  /\ NoMessage \notin Messages
  /\ MaxFails \in Nat

VARIABLES
  slots,     \* channel_manager_t: the registered channels in order
  pending,   \* ch_uproto_bind_t.pending
  rrCursor,  \* ch_uproto_bind_t.rr_cursor
  queued,    \* history: the message last queued for a channel
  sent,      \* history: the message last sent for a channel
  waited,    \* history: frames sent while a slot was pending, since the port last failed
  fails      \* sends the port has refused

avars == <<slots, pending, rrCursor, queued, sent, waited, fails>>

Indices    == 1..ChMax
Registered == 1..Len(slots)
Empty      == [used |-> FALSE, msg |-> NoMessage, age |-> 0]

(* chmgr_init and ch_uproto_bind zero both structures.                     *)
Init ==
  /\ slots = <<>>
  /\ pending = [i \in Indices |-> Empty]
  /\ rrCursor = 0
  /\ queued = [c \in ChannelIds |-> NoMessage]
  /\ sent = [c \in ChannelIds |-> NoMessage]
  /\ waited = [i \in Indices |-> 0]
  /\ fails = 0

(* chmgr_register: refused when the table is full.                         *)
Register(c) ==
  /\ Len(slots) < ChMax
  /\ slots' = Append(slots, c)
  /\ UNCHANGED <<pending, rrCursor, queued, sent, waited, fails>>

(* The slot chmgr_find and ch_uproto_queue_notify reach: the first one     *)
(* with that id.                                                           *)
IsSlotOf(i, c) ==
  /\ i \in Registered
  /\ slots[i] = c
  /\ \A j \in 1..(i - 1) : slots[j] # c

(* Mutant: a slot that is still pending is not overwritten.                *)
KeepFirst(c, m) ==
  /\ \E i \in Indices :
       /\ IsSlotOf(i, c)
       /\ pending' = IF pending[i].used THEN pending
                     ELSE [pending EXCEPT ![i] = [used |-> TRUE, msg |-> m, age |-> 0]]
  /\ queued' = [queued EXCEPT ![c] = m]
  /\ UNCHANGED <<slots, rrCursor, sent, waited, fails>>

(* Mutant: overwriting a pending slot restarts its age.                    *)
RestartAge(c, m) ==
  /\ \E i \in Indices :
       /\ IsSlotOf(i, c)
       /\ pending' = [pending EXCEPT ![i] = [used |-> TRUE, msg |-> m, age |-> 0]]
  /\ queued' = [queued EXCEPT ![c] = m]
  /\ UNCHANGED <<slots, rrCursor, sent, waited, fails>>

(* ch_uproto_queue_notify: keep-latest; the age survives an overwrite.  A  *)
(* channel that is not registered is refused.                              *)
QueueNotify(c, m) ==
  /\ \E i \in Indices :
       /\ IsSlotOf(i, c)
       /\ pending' = [pending EXCEPT ![i] =
             [used |-> TRUE, msg |-> m, age |-> IF @.used THEN @.age ELSE 0]]
  /\ queued' = [queued EXCEPT ![c] = m]
  /\ UNCHANGED <<slots, rrCursor, sent, waited, fails>>

-----------------------------------------------------------------------------
(* find_next_ready_index.                                                  *)

(* Every pending slot gets one tick older, up to the cap of its counter.   *)
Bumped == [i \in Indices |->
             IF pending[i].used /\ pending[i].age < AgeCap
             THEN [pending[i] EXCEPT !.age = @ + 1] ELSE pending[i]]

Prio(i) == Priority[slots[i]]
Ready   == {i \in Registered : pending[i].used}
Urgent  == {i \in Ready : \A j \in Ready : Prio(j) <= Prio(i)}

(* Mutant: no channel is ever considered starved.                          *)
NoneAged == {}

(* The starvation guard: less urgent slots that waited long enough.        *)
Aged == {i \in Ready \ Urgent : Bumped[i].age >= FairAge}

(* Of those, the oldest; of equally old ones, the first.                   *)
IsOldestAged(i) ==
  /\ i \in Aged
  /\ \A j \in Aged : Bumped[j].age < Bumped[i].age \/ (Bumped[j].age = Bumped[i].age /\ i <= j)

(* How far slot i is from the round-robin cursor.                          *)
Distance(i) == ((i - 1) - (rrCursor % Len(slots))) % Len(slots)

IsNextUrgent(i) == i \in Urgent /\ \A j \in Urgent : Distance(i) <= Distance(j)

(* The cursor after slot i (0-based in the code) was chosen.               *)
CursorAfter(i) == i

Choose(i) ==
  \/ IsOldestAged(i) /\ UNCHANGED rrCursor
  \/ Aged = {} /\ IsNextUrgent(i) /\ rrCursor' = CursorAfter(i)

(* The history variable stops at a value that is already too long.         *)
LongerWait(w) == IF w < FairAge + ChMax THEN w + 1 ELSE w

(* ch_uproto_arbiter_tick: the chosen slot is freed when uproto_send_notify*)
(* took it and stays pending, with its new age, otherwise.                 *)
ArbiterTick ==
  \E i \in Ready :
    /\ Choose(i)
    /\ \/ /\ pending' = [Bumped EXCEPT ![i] = [@ EXCEPT !.used = FALSE, !.age = 0]]
          /\ sent' = [sent EXCEPT ![slots[i]] = pending[i].msg]
          /\ waited' = [j \in Indices |->
               IF j \in Ready \ {i} THEN LongerWait(waited[j]) ELSE 0]
          /\ UNCHANGED fails
       \/ /\ fails < MaxFails
          /\ fails' = fails + 1
          /\ pending' = Bumped
          /\ waited' = [j \in Indices |-> 0]
          /\ UNCHANGED sent
    /\ UNCHANGED <<slots, queued>>

Next ==
  \/ \E c \in ChannelIds : Register(c)
  \/ \E c \in ChannelIds, m \in Messages : QueueNotify(c, m)
  \/ ArbiterTick

Spec == Init /\ [][Next]_avars

-----------------------------------------------------------------------------
(* When nothing is pending for a channel the peer has what was queued for  *)
(* it last: neither an overwrite nor a failed send loses the latest value. *)
LatestSent ==
  \A c \in ChannelIds :
    (\A i \in Registered : slots[i] = c => ~pending[i].used) => sent[c] = queued[c]

(* The starvation guard works: whatever the other channels queue, a slot   *)
(* is served within this many arbiter ticks ("deliver at least 1 per       *)
(* ~CH_ARB_FAIR_AGE arbiter ticks"), as long as the port takes frames; and *)
(* the guard does not starve the urgent channels in turn.                  *)
NoStarvation == \A i \in Registered : waited[i] < FairAge + Len(slots)

=============================================================================
