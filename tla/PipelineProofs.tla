--------------------------- MODULE PipelineProofs ----------------------------
(***************************************************************************)
(* Proofs about Pipeline, for any number of workers, frames and mode       *)
(* changes and any capacity of the queue: both programs implement          *)
(* FrameStream.  The last part proves the same of the cameras that the     *)
(* frames come from, CameraThreads, and that their guards never start a    *)
(* second capture thread.                                                  *)
(***************************************************************************)
EXTENDS Pipeline, WellFoundedInduction, TLAPS

MainPcs == {"loop", "pop", "push", "join", "joinGener", "done",
            "read", "enqueue", "stop", "joinPool"}
WorkerPcs == {"idle", "search", "mark", "detect", "release", "ended"}

QueueTypes == [current : Nat, buffer : SUBSET Nat, ready : Seq(Nat)]

TypeInv ==
  /\ program \in {"mt", "pool"}
  /\ now \in Nat
  /\ taken \in Seq(Nat)
  /\ Len(taken) <= MaxFrames
  /\ received \in Seq(Nat)
  /\ main \in [pc : MainPcs, f : Nat]
  /\ detect \in [pc : {"loop", "read", "push", "ended"}, f : Nat]
  /\ queue \in Seq(Nat)
  /\ latest \in Nat
  /\ gener \in [pc : {"loop", "send", "ended"}, f : Nat]
  /\ tasks \in Seq(Nat)
  /\ worker \in [Workers -> [pc : WorkerPcs, f : Nat, yolo : Nat]]
  /\ ordered \in QueueTypes

Frames == 1..Len(taken)

Newest == Stream!Last

(* What waits in a queue follows on the last frame handed over, is in      *)
(* order, and does not go beyond the last frame offered to the queue.      *)
InOrder(q, last, top) ==
  /\ last <= top
  /\ \A i \in 1..Len(q) :
       /\ last < q[i] /\ q[i] <= top
       /\ \A j \in 1..(i - 1) : q[j] < q[i]

(* mt: the detect thread may hold a frame that it has not pushed yet.      *)
QueueInv ==
  /\ InOrder(queue, Newest, IF detect.pc = "push" THEN Len(taken) - 1 ELSE Len(taken))
  /\ detect.pc = "push" => detect.f = Len(taken) /\ Len(taken) >= 1

(* The frames ready follow on the last one processed, the awaited one      *)
(* follows on them, and no frame waits that was not read.                  *)
InARow(oq, last, top) ==
  /\ oq.current \in 1..(top + 1)
  /\ oq.buffer \subseteq 1..top
  /\ last + Len(oq.ready) + 1 = oq.current
  /\ \A i \in 1..Len(oq.ready) : oq.ready[i] = last + i

(* pool: the frames on their way to the ordered queue were read.           *)
UnderWay ==
  /\ main.pc = "enqueue" => main.f \in Frames
  /\ \A i \in 1..Len(tasks) : tasks[i] \in Frames
  /\ \A w \in Workers : worker[w].pc \in {"search", "mark", "detect"} => worker[w].f \in Frames

OrderedInv ==
  /\ InARow(ordered, Newest, Len(taken))
  /\ UnderWay

IInv ==
  /\ TypeInv
  /\ program = "mt" => QueueInv
  /\ program = "pool" => OrderedInv

-----------------------------------------------------------------------------
(* What Append does to a sequence.                                         *)
LEMMA AppendOf ==
  ASSUME NEW S, NEW s \in Seq(S), NEW x \in S
  PROVE  /\ Append(s, x) \in Seq(S)
         /\ Len(s) \in Nat
         /\ Len(Append(s, x)) = Len(s) + 1
         /\ \A i \in 1..Len(s) : Append(s, x)[i] = s[i]
         /\ Append(s, x)[Len(s) + 1] = x
         /\ Append(s, x) # <<>>
OBVIOUS

(* What Tail does to one that is not empty.                                *)
LEMMA TailOf ==
  ASSUME NEW S, NEW s \in Seq(S), s # <<>>
  PROVE  /\ Tail(s) \in Seq(S)
         /\ Len(s) \in Nat /\ Len(s) >= 1
         /\ Len(Tail(s)) = Len(s) - 1
         /\ \A i \in 1..Len(Tail(s)) : i + 1 \in 1..Len(s) /\ Tail(s)[i] = s[i + 1]
         /\ Head(s) = s[1] /\ Head(s) \in S
OBVIOUS

(* A set of numbers that is not empty has a smallest element.              *)
LEMMA Smallest ==
  ASSUME NEW S \in SUBSET Nat, S # {}
  PROVE  \E n \in S : \A m \in S : n <= m
<1> DEFINE R == OpToRel(<, Nat)
<1>1. IsWellFoundedOn(R, Nat)
  BY NatLessThanWellFounded
<1>2. \A m \in Nat, n \in Nat : <<m, n>> \in R <=> m < n
  BY DEF OpToRel
<1> HIDE DEF R
<1>3. PICK n \in S : \A m \in S : ~(<<m, n>> \in R)
  BY <1>1, WFMin
<1>4. ASSUME NEW m \in S PROVE n <= m
  <2>1. ~(m < n) /\ m \in Nat /\ n \in Nat
    BY <1>2, <1>3
  <2> QED
    BY <2>1
<1> QED
  BY <1>4

LEMMA Limits == MaxFrames \in Nat /\ Fresh \in Nat
BY PipelineAssumption

LEMMA NewestNat == ASSUME TypeInv PROVE Newest \in Nat
<1>1. CASE received = <<>>
  BY <1>1 DEF Newest, Stream!Last
<1>2. CASE received # <<>>
  <2>1. Len(received) \in 1..Len(received)
    BY <1>2, TailOf DEF TypeInv
  <2> QED
    BY <1>2, <2>1 DEF Newest, Stream!Last, TypeInv
<1> QED
  BY <1>1, <1>2

(* A frame that is handed over is the newest.                              *)
LEMMA NewestOf ==
  ASSUME TypeInv, NEW f \in Nat, received' = Append(received, f)
  PROVE  Newest' = f
<1>1. received \in Seq(Nat)
  BY DEF TypeInv
<1>2. received' # <<>> /\ Len(received') = Len(received) + 1 /\ received'[Len(received) + 1] = f
  BY <1>1, AppendOf
<1> QED
  BY <1>2 DEF Newest, Stream!Last

(* ThreadSafeQueue::push drops the frame or appends it; pop takes the      *)
(* first one.                                                              *)
LEMMA InOrderPush ==
  ASSUME NEW q \in Seq(Nat), NEW last \in Nat, NEW top \in Nat, InOrder(q, last, top)
  PROVE  InOrder(q, last, top + 1) /\ InOrder(Append(q, top + 1), last, top + 1)
<1>1. /\ last <= top + 1 /\ last < top + 1
      /\ \A i \in 1..Len(q) : q[i] \in Nat /\ q[i] <= top /\ q[i] <= top + 1 /\ q[i] < top + 1
  BY DEF InOrder
<1>2. InOrder(q, last, top + 1)
  BY <1>1 DEF InOrder
<1>3. PICK l \in Nat : l = Len(q)
  OBVIOUS
<1>4. PICK a : a = Append(q, top + 1)
  OBVIOUS
<1>5. Len(a) = l + 1 /\ a[l + 1] = top + 1 /\ \A i \in 1..l : a[i] = q[i]
  BY <1>3, <1>4, AppendOf
<1>6. ASSUME NEW i \in 1..(l + 1)
      PROVE  last < a[i] /\ a[i] <= top + 1 /\ \A j \in 1..(i - 1) : a[j] < a[i]
  <2>1. \A j \in 1..(i - 1) : j \in 1..l
    OBVIOUS
  <2>2. CASE i = l + 1
    BY <1>1, <1>3, <1>5, <2>1, <2>2
  <2>3. CASE i \in 1..l
    BY <1>1, <1>3, <1>5, <2>1, <2>3 DEF InOrder
  <2> QED
    BY <2>2, <2>3
<1> QED
  BY <1>1, <1>2, <1>4, <1>5, <1>6 DEF InOrder

(* Taking the first frame of an ordered queue leaves an ordered queue      *)
(* behind it.                                                              *)
LEMMA InOrderPop ==
  ASSUME NEW q \in Seq(Nat), NEW last \in Nat, NEW top \in Nat, InOrder(q, last, top), q # <<>>
  PROVE  /\ Head(q) \in Nat /\ last < Head(q) /\ Head(q) <= top
         /\ Tail(q) \in Seq(Nat) /\ InOrder(Tail(q), Head(q), top)
<1>1. PICK h, t : h = Head(q) /\ t = Tail(q)
  OBVIOUS
<1>2. /\ t \in Seq(Nat) /\ h = q[1] /\ h \in Nat /\ 1 \in 1..Len(q)
      /\ \A i \in 1..Len(t) : i + 1 \in 1..Len(q) /\ t[i] = q[i + 1]
      /\ Len(t) \in Nat
  BY <1>1, TailOf
<1>3. last < h /\ h <= top
  BY <1>2 DEF InOrder
<1>4. ASSUME NEW i \in 1..Len(t)
      PROVE  h < t[i] /\ t[i] <= top /\ \A j \in 1..(i - 1) : t[j] < t[i]
  <2>1. i \in Nat /\ i + 1 \in 1..Len(q) /\ t[i] = q[i + 1] /\ 1 \in 1..((i + 1) - 1)
    BY <1>2
  <2>2. q[i + 1] <= top /\ \A j \in 1..((i + 1) - 1) : q[j] < q[i + 1]
    BY <2>1 DEF InOrder
  <2>3. ASSUME NEW j \in 1..(i - 1) PROVE t[j] < t[i]
    <3>1. j \in 1..Len(t) /\ j + 1 \in 1..((i + 1) - 1)
      BY <1>2, <2>1
    <3> QED
      BY <1>2, <2>1, <2>2, <3>1
  <2> QED
    BY <1>2, <2>1, <2>2, <2>3
<1>5. InOrder(t, h, top)
  BY <1>3, <1>4 DEF InOrder
<1> QED
  BY <1>1, <1>2, <1>3, <1>5

-----------------------------------------------------------------------------
(* Reading a frame.                                                        *)
LEMMA ReadEffect ==
  ASSUME TypeInv, ReadCamera
  PROVE  /\ taken' \in Seq(Nat)
         /\ Len(taken) \in Nat /\ Len(taken') = Len(taken) + 1 /\ Len(taken') <= MaxFrames
         /\ \A i \in Frames : taken'[i] = taken[i]
         /\ taken'[Len(taken')] <= now
<1>1. PICK t \in (IF taken = <<>> THEN 0 ELSE taken[Len(taken)])..now : taken' = Append(taken, t)
  BY DEF ReadCamera
<1>2. Len(taken) \in Nat /\ Len(taken) # MaxFrames /\ Len(taken) <= MaxFrames /\ MaxFrames \in Nat
  BY Limits DEF ReadCamera, CameraSilent, TypeInv
<1>3. t \in Nat /\ t <= now
  <2>1. (IF taken = <<>> THEN 0 ELSE taken[Len(taken)]) \in Nat
    <3>1. CASE taken # <<>>
      <4>1. Len(taken) \in 1..Len(taken)
        BY <3>1, TailOf DEF TypeInv
      <4> QED
        BY <3>1, <4>1 DEF TypeInv
    <3> QED
      BY <3>1
  <2> QED
    BY <1>1, <2>1 DEF TypeInv
<1>4. /\ taken' \in Seq(Nat) /\ Len(taken') = Len(taken) + 1
      /\ \A i \in 1..Len(taken) : taken'[i] = taken[i]
      /\ taken'[Len(taken) + 1] = t
  BY <1>1, <1>3, AppendOf DEF TypeInv
<1> QED
  BY <1>2, <1>3, <1>4 DEF Frames

(* The kinds of steps.                                                     *)
LEMMA NextCases ==
  ASSUME [Next]_vars
  PROVE  \/ program = "mt" /\ \/ DetectLoop \/ DetectRead \/ DetectPush
                              \/ MainLoop \/ MainPop \/ MainPush \/ MainJoin \/ MainEnd
                              \/ GenerLook \/ GenerSend \/ SwitchMode \/ ClockStep
         \/ program = "pool" /\ \/ PoolLoop \/ PoolRead \/ PoolEnqueue \/ PoolStop \/ PoolJoin
                                \/ Process
                                \/ \E w \in Workers :
                                     \/ WorkerTake(w) \/ WorkerSearch(w) \/ WorkerMark(w)
                                     \/ WorkerDetect(w) \/ WorkerRelease(w)
         \/ Interrupt
         \/ UNCHANGED vars
BY DEF Next, Detect, MtMain, Gener, PoolMain, Worker, Process, SwitchMode, ClockStep

(* OrderedQueue::enqueue: nothing, a frame more in the buffer, or the      *)
(* awaited frame with those that follow it.                                *)
LEMMA EnqueueIs ==
  ASSUME NEW oq \in [current : Nat, buffer : SUBSET Nat, ready : Seq(Nat)], NEW id \in Nat,
         oq.buffer \subseteq 1..MaxFrames, id <= MaxFrames
  PROVE  \/ Enqueue(oq, id) = oq
         \/ Enqueue(oq, id) = [oq EXCEPT !.buffer = @ \cup {id}]
         \/ \E n \in (id + 1)..(MaxFrames + 1) :
              /\ id = oq.current
              /\ (id + 1)..(n - 1) \subseteq oq.buffer
              /\ Enqueue(oq, id) =
                   [current |-> n, buffer |-> oq.buffer \ (id..(n - 1)),
                    ready |-> oq.ready \o [i \in 1..(n - id) |-> id + i - 1]]
<1> DEFINE Q(n) == n \notin oq.buffer /\ (id + 1)..(n - 1) \subseteq oq.buffer
           next == CHOOSE n \in (id + 1)..(MaxFrames + 1) : Q(n)
<1>1. \E n \in (id + 1)..(MaxFrames + 1) : Q(n)
  <2> DEFINE S == {n \in (id + 1)..(MaxFrames + 1) : n \notin oq.buffer}
  <2>1. MaxFrames + 1 \in S /\ S \subseteq Nat
    BY Limits
  <2>2. PICK n \in S : \A m \in S : n <= m
    BY <2>1, Smallest
  <2>3. ASSUME NEW m \in (id + 1)..(n - 1) PROVE m \in oq.buffer
    <3>1. m \in (id + 1)..(MaxFrames + 1) /\ ~(n <= m)
      BY <2>2, Limits
    <3> QED
      BY <2>2, <3>1
  <2> QED
    BY <2>2, <2>3
<1>2. next \in (id + 1)..(MaxFrames + 1) /\ Q(next)
  BY <1>1
<1> HIDE DEF next
<1>3. oq.current \in Nat
  OBVIOUS
<1>4. CASE id < oq.current
  BY <1>4 DEF Enqueue
<1>5. CASE id > oq.current
  BY <1>3, <1>5 DEF Enqueue
<1>6. CASE id = oq.current
  <2>1. Enqueue(oq, id) =
                   [current |-> next, buffer |-> oq.buffer \ (id..(next - 1)),
                    ready |-> oq.ready \o [i \in 1..(next - id) |-> id + i - 1]]
    BY <1>3, <1>6 DEF Enqueue, next
  <2> QED
    BY <1>2, <1>6, <2>1
<1>7. id < oq.current \/ id > oq.current \/ id = oq.current
  BY <1>3
<1> QED
  BY <1>4, <1>5, <1>6, <1>7

(* What concatenation does.                                                *)
LEMMA ConcatOf ==
  ASSUME NEW r \in Seq(Nat), NEW t \in Seq(Nat)
  PROVE  /\ r \o t \in Seq(Nat) /\ Len(r) \in Nat /\ Len(t) \in Nat
         /\ Len(r \o t) = Len(r) + Len(t)
         /\ \A i \in 1..Len(r) : (r \o t)[i] = r[i]
         /\ \A i \in (Len(r) + 1)..(Len(r) + Len(t)) : (r \o t)[i] = t[i - Len(r)]
OBVIOUS

(* The frames from id on are a sequence.                                   *)
LEMMA RowOf ==
  ASSUME NEW id \in Nat, NEW k \in Nat
  PROVE  /\ [i \in 1..k |-> id + i - 1] \in Seq(Nat)
         /\ Len([i \in 1..k |-> id + i - 1]) = k
         /\ \A j \in 1..k : [i \in 1..k |-> id + i - 1][j] = id + j - 1
<1>1. PICK t : t = [i \in 1..k |-> id + i - 1]
  OBVIOUS
<1>2. \A i \in 1..k : id + i - 1 \in Nat
  OBVIOUS
<1>3. t \in [1..k -> Nat]
  BY <1>1, <1>2
<1>4. t \in Seq(Nat) /\ Len(t) = k
  BY <1>3
<1> QED
  BY <1>1, <1>4

(* Frames in a row after the given one, and what follows on them.          *)
Row(s, last) == s \in Seq(Nat) /\ \A i \in 1..Len(s) : s[i] = last + i

(* Frames in a row, and those that follow them, are frames in a row.       *)
LEMMA RowThenRow ==
  ASSUME NEW last \in Nat, NEW r, NEW t, Row(r, last), Row(t, last + Len(r))
  PROVE  Row(r \o t, last) /\ Len(r \o t) = Len(r) + Len(t)
<1>1. r \in Seq(Nat) /\ t \in Seq(Nat)
  BY DEF Row
<1>2. PICK l \in Nat, k \in Nat : l = Len(r) /\ k = Len(t)
  BY <1>1, ConcatOf
<1>3. /\ r \o t \in Seq(Nat) /\ Len(r \o t) = l + k
      /\ \A i \in 1..l : (r \o t)[i] = r[i]
      /\ \A i \in (l + 1)..(l + k) : (r \o t)[i] = t[i - l]
  BY <1>1, <1>2, ConcatOf
<1>4. /\ \A i \in 1..l : r[i] = last + i
      /\ \A i \in 1..k : t[i] = last + l + i
  BY <1>2 DEF Row
<1>5. ASSUME NEW i \in 1..(l + k) PROVE (r \o t)[i] = last + i
  <2>1. CASE i \in 1..l
    BY <1>3, <1>4, <2>1
  <2>2. CASE i \in (l + 1)..(l + k)
    <3>1. PICK j \in Nat : j = i - l /\ j \in 1..k
      BY <2>2
    <3>2. (r \o t)[i] = t[j] /\ t[j] = last + l + j
      BY <1>3, <1>4, <2>2, <3>1
    <3> QED
      BY <3>1, <3>2
  <2>3. i \in 1..l \/ i \in (l + 1)..(l + k)
    BY SMT
  <2> QED
    BY <2>1, <2>2, <2>3
<1> QED
  BY <1>2, <1>3, <1>5 DEF Row

(* OrderedQueue::enqueue keeps that.                                       *)
LEMMA EnqueueInARow ==
  ASSUME NEW oq \in QueueTypes, NEW last \in Nat, NEW top \in Nat, top <= MaxFrames,
         NEW id \in 1..top, InARow(oq, last, top)
  PROVE  Enqueue(oq, id) \in QueueTypes /\ InARow(Enqueue(oq, id), last, top)
<1>1. oq.current \in Nat /\ oq.buffer \in SUBSET Nat /\ oq.ready \in Seq(Nat)
  BY DEF QueueTypes
<1>2. MaxFrames \in Nat /\ id \in Nat /\ id <= top /\ id <= MaxFrames
  BY Limits
<1>3. oq.buffer \subseteq 1..MaxFrames
  BY <1>2 DEF InARow
<1>4. CASE Enqueue(oq, id) = oq
  BY <1>4
<1>5. CASE Enqueue(oq, id) = [oq EXCEPT !.buffer = @ \cup {id}]
  <2>1. PICK q : q = Enqueue(oq, id)
    OBVIOUS
  <2>2. /\ q \in QueueTypes /\ q.current = oq.current /\ q.ready = oq.ready
        /\ q.buffer = oq.buffer \cup {id}
    BY <1>1, <1>2, <1>5, <2>1 DEF QueueTypes
  <2>3. q.buffer \subseteq 1..top
    BY <2>2 DEF InARow
  <2> QED
    BY <2>1, <2>2, <2>3 DEF InARow
<1>6. ASSUME NEW n \in (id + 1)..(MaxFrames + 1), id = oq.current,
             (id + 1)..(n - 1) \subseteq oq.buffer,
             Enqueue(oq, id) =
               [current |-> n, buffer |-> oq.buffer \ (id..(n - 1)),
                ready |-> oq.ready \o [i \in 1..(n - id) |-> id + i - 1]]
      PROVE  Enqueue(oq, id) \in QueueTypes /\ InARow(Enqueue(oq, id), last, top)
  <2>1. PICK q : q = Enqueue(oq, id)
    OBVIOUS
  <2>2. PICK t : t = [i \in 1..(n - id) |-> id + i - 1]
    OBVIOUS
  <2>3. PICK rt : rt = oq.ready \o t
    OBVIOUS
  <2>4. PICK b : b = oq.buffer \ (id..(n - 1))
    OBVIOUS
  <2>5. q = [current |-> n, buffer |-> b, ready |-> rt]
    BY <1>6, <2>1, <2>2, <2>3, <2>4
  <2>6. n \in Nat /\ id < n
    BY <1>2
  <2>7. last + Len(oq.ready) + 1 = id /\ \A i \in 1..Len(oq.ready) : oq.ready[i] = last + i
    BY <1>6 DEF InARow
  <2>8. /\ rt \in Seq(Nat) /\ last + Len(rt) + 1 = n
        /\ \A i \in 1..Len(rt) : rt[i] = last + i
    <3>1. oq.ready \in Seq(Nat) /\ id \in Nat
      BY <1>1, <1>2
    <3> DEFINE r == oq.ready
    <3>2. r \in Seq(Nat) /\ Len(r) \in Nat /\ rt = r \o t /\ last + Len(r) + 1 = id
      BY <2>3, <2>7, <3>1
    <3>3. Row(r, last)
      BY <2>7, <3>1 DEF Row
    <3> HIDE DEF r
    <3>4. PICK k \in Nat : k = n - id
      BY <2>6, <3>1
    <3>5. t \in Seq(Nat) /\ Len(t) = k /\ \A i \in 1..k : t[i] = id + i - 1
      BY <2>2, <3>1, <3>4, RowOf
    <3>6. PICK l \in Nat : l = Len(r)
      BY <3>2
    <3>7. last + l + 1 = id
      BY <3>2, <3>6
    <3>8. ASSUME NEW i \in 1..k PROVE t[i] = (last + l) + i
      <4>1. t[i] = id + i - 1
        BY <3>5
      <4>2. id + i - 1 = (last + l) + i
        BY <3>7
      <4> QED
        BY <4>1, <4>2
    <3>9. Row(t, last + Len(r))
      BY <3>5, <3>6, <3>8 DEF Row
    <3>10. Row(rt, last) /\ Len(rt) = Len(r) + Len(t)
      <4>1. Row(r \o t, last) /\ Len(r \o t) = Len(r) + Len(t)
        BY <3>3, <3>9, RowThenRow
      <4> QED
        BY <3>2, <4>1
    <3>11. Len(rt) = l + k /\ rt \in Seq(Nat) /\ \A i \in 1..Len(rt) : rt[i] = last + i
      BY <3>5, <3>6, <3>10 DEF Row
    <3>12. last + (l + k) + 1 = n
      BY <2>6, <3>1, <3>4, <3>7
    <3> QED
      BY <3>11, <3>12
  <2>9. n <= top + 1
    <3>1. CASE n = id + 1
      BY <1>2, <3>1
    <3>2. CASE n # id + 1
      <4>1. n - 1 \in (id + 1)..(n - 1)
        BY <1>2, <3>2
      <4>2. n - 1 \in 1..top
        BY <1>6, <4>1 DEF InARow
      <4> QED
        BY <2>6, <4>2
    <3> QED
      BY <3>1, <3>2
  <2>10. b \in SUBSET Nat /\ b \subseteq 1..top
    BY <1>1, <2>4 DEF InARow
  <2>11. q \in QueueTypes /\ q.current = n /\ q.buffer = b /\ q.ready = rt
    BY <2>5, <2>6, <2>8, <2>10 DEF QueueTypes
  <2>12. n \in 1..(top + 1)
    BY <2>6, <2>9, <1>2
  <2> QED
    BY <2>1, <2>8, <2>10, <2>11, <2>12 DEF InARow
<1> QED
  BY <1>1, <1>2, <1>3, <1>4, <1>5, <1>6, EnqueueIs DEF QueueTypes

-----------------------------------------------------------------------------
(* Types.                                                                  *)

LEMMA HeadFrame ==
  ASSUME NEW q \in Seq(Nat), q # <<>>
  PROVE  Head(q) \in Nat /\ Tail(q) \in Seq(Nat)
BY TailOf

LEMMA PlaceType ==
  ASSUME NEW S, NEW p \in S, NEW f \in Nat
  PROVE  At(p, f) \in [pc : S, f : Nat] /\ At(p, f).pc = p /\ At(p, f).f = f
BY DEF At

(* A step of the multithreaded program.                                    *)
LEMMA TypeStepMt ==
  ASSUME TypeInv,
         \/ DetectLoop \/ DetectRead \/ DetectPush
         \/ MainLoop \/ MainPop \/ MainPush \/ MainJoin \/ MainEnd
         \/ GenerLook \/ GenerSend \/ SwitchMode \/ ClockStep
  PROVE  TypeInv'
<1> USE DEF envVars, poolVars, mtVars, None
<1>0. detect.f \in Nat /\ main.f \in Nat /\ 0 \in Nat
  BY DEF TypeInv
<1>1. CASE DetectLoop
  <2>1. detect' \in [pc : {"loop", "read", "push", "ended"}, f : Nat]
    BY <1>1 DEF DetectLoop, At
  <2> QED
    BY <1>1, <2>1 DEF DetectLoop, TypeInv
<1>2. CASE DetectRead
  <2>1. taken' \in Seq(Nat) /\ Len(taken') \in Nat /\ Len(taken') <= MaxFrames
    BY <1>2, ReadEffect DEF DetectRead
  <2> QED
    BY <1>2, <2>1, PlaceType DEF DetectRead, TypeInv
<1>3. CASE DetectPush
  <2>1. queue' \in Seq(Nat)
    BY <1>0, <1>3, AppendOf DEF DetectPush, TypeInv
  <2> QED
    BY <1>0, <1>3, <2>1, PlaceType DEF DetectPush, TypeInv
<1>4. CASE MainLoop
  <2>1. main' \in [pc : MainPcs, f : Nat]
    BY <1>4 DEF MainLoop, TypeInv, MainPcs, At
  <2> QED
    BY <1>4, <2>1 DEF MainLoop, TypeInv
<1>5. CASE MainPop
  <2>1. Head(queue) \in Nat /\ queue' \in Seq(Nat)
    BY <1>5, HeadFrame DEF MainPop, TypeInv
  <2>2. received' \in Seq(Nat)
    BY <1>5, <2>1, AppendOf DEF MainPop, TypeInv
  <2>3. main' \in [pc : MainPcs, f : Nat]
    BY <1>5, <2>1, PlaceType DEF MainPop, MainPcs
  <2> QED
    BY <1>5, <2>1, <2>2, <2>3 DEF MainPop, TypeInv
<1>6. CASE MainPush
  <2>1. main' \in [pc : MainPcs, f : Nat]
    BY <1>6, PlaceType DEF MainPush, MainPcs
  <2> QED
    BY <1>0, <1>6, <2>1 DEF MainPush, TypeInv
<1>7. CASE MainJoin \/ MainEnd
  <2>1. main' \in [pc : MainPcs, f : Nat]
    BY <1>7 DEF MainJoin, MainEnd, MainPcs, At
  <2> QED
    BY <1>7, <2>1 DEF MainJoin, MainEnd, TypeInv
<1>8. CASE GenerLook
  <2>1. gener' \in [pc : {"loop", "send", "ended"}, f : Nat]
    BY <1>8 DEF GenerLook, At, TypeInv
  <2> QED
    BY <1>8, <2>1 DEF GenerLook, TypeInv
<1>9. CASE GenerSend
  BY <1>9 DEF GenerSend, At, TypeInv
<1>10. CASE SwitchMode
  BY <1>10 DEF SwitchMode, TypeInv
<1>11. CASE ClockStep
  BY <1>11 DEF ClockStep, TypeInv
<1> QED
  BY <1>1, <1>2, <1>3, <1>4, <1>5, <1>6, <1>7, <1>8, <1>9, <1>10, <1>11

(* A worker that changes its place, its frame or its detector.             *)
LEMMA WorkerType ==
  ASSUME TypeInv, NEW w \in Workers, NEW p \in WorkerPcs, NEW f \in Nat, NEW y \in Nat
  PROVE  /\ [worker EXCEPT ![w].pc = p] \in [Workers -> [pc : WorkerPcs, f : Nat, yolo : Nat]]
         /\ [worker EXCEPT ![w].pc = p, ![w].f = f]
              \in [Workers -> [pc : WorkerPcs, f : Nat, yolo : Nat]]
         /\ [worker EXCEPT ![w].pc = p, ![w].yolo = y]
              \in [Workers -> [pc : WorkerPcs, f : Nat, yolo : Nat]]
BY DEF TypeInv

(* A step of the program with the pool, but for the ordered queue.         *)
LEMMA TypeStepPool ==
  ASSUME TypeInv,
         \/ PoolLoop \/ PoolRead \/ PoolEnqueue \/ PoolStop \/ PoolJoin
         \/ \E w \in Workers :
              WorkerTake(w) \/ WorkerSearch(w) \/ WorkerMark(w) \/ WorkerRelease(w)
  PROVE  TypeInv'
<1> USE DEF envVars, poolVars, mtVars, None
<1>0. main.f \in Nat /\ 0 \in Nat
  BY DEF TypeInv
<1>1. CASE PoolLoop
  <2>1. main' \in [pc : MainPcs, f : Nat]
    BY <1>1, PlaceType DEF PoolLoop, MainPcs
  <2> QED
    BY <1>1, <2>1 DEF PoolLoop, TypeInv
<1>2. CASE PoolRead
  <2>1. taken' \in Seq(Nat) /\ Len(taken') \in Nat /\ Len(taken') <= MaxFrames
    BY <1>2, ReadEffect DEF PoolRead
  <2>2. main' \in [pc : MainPcs, f : Nat]
    BY <1>2, <2>1, PlaceType DEF PoolRead, MainPcs
  <2> QED
    BY <1>2, <2>1, <2>2 DEF PoolRead, TypeInv
<1>3. CASE PoolEnqueue
  <2>1. tasks' \in Seq(Nat)
    BY <1>0, <1>3, AppendOf DEF PoolEnqueue, TypeInv
  <2>2. main' \in [pc : MainPcs, f : Nat]
    BY <1>3, PlaceType DEF PoolEnqueue, MainPcs
  <2> QED
    BY <1>3, <2>1, <2>2 DEF PoolEnqueue, TypeInv
<1>4. CASE PoolStop
  <2>1. main' \in [pc : MainPcs, f : Nat]
    BY <1>4, PlaceType DEF PoolStop, MainPcs
  <2> QED
    BY <1>4, <2>1 DEF PoolStop, TypeInv
<1>5. CASE PoolJoin
  <2>1. main' \in [pc : MainPcs, f : Nat]
    BY <1>5, PlaceType DEF PoolJoin, MainPcs
  <2> QED
    BY <1>5, <2>1 DEF PoolJoin, TypeInv
<1>6. ASSUME NEW w \in Workers, WorkerTake(w) PROVE TypeInv'
  <2>1. CASE tasks # <<>>
    <3>1. Head(tasks) \in Nat /\ Tail(tasks) \in Seq(Nat)
      BY <2>1, HeadFrame DEF TypeInv
    <3>2. worker' \in [Workers -> [pc : WorkerPcs, f : Nat, yolo : Nat]] /\ tasks' \in Seq(Nat)
      <4>1. /\ worker' = [worker EXCEPT ![w].pc = "search", ![w].f = Head(tasks)]
            /\ tasks' = Tail(tasks)
        BY <1>6, <2>1 DEF WorkerTake
      <4> QED
        BY <3>1, <4>1, WorkerType DEF WorkerPcs
    <3> QED
      BY <1>6, <3>2 DEF WorkerTake, TypeInv
  <2>2. CASE tasks = <<>>
    <3>1. worker' \in [Workers -> [pc : WorkerPcs, f : Nat, yolo : Nat]] /\ tasks' \in Seq(Nat)
      <4>1. worker' = [worker EXCEPT ![w].pc = "ended"] /\ tasks' = tasks
        BY <1>6, <2>2 DEF WorkerTake
      <4> QED
        BY <4>1, WorkerType DEF WorkerPcs, TypeInv
    <3> QED
      BY <1>6, <3>1 DEF WorkerTake, TypeInv
  <2> QED
    BY <2>1, <2>2
<1>7. ASSUME NEW w \in Workers, WorkerSearch(w) PROVE TypeInv'
  <2>1. worker[w].yolo + 1 \in Nat
    BY DEF TypeInv
  <2>2. worker' \in [Workers -> [pc : WorkerPcs, f : Nat, yolo : Nat]]
    <3> DEFINE y == worker[w].yolo + 1
    <3>1. CASE worker' = [worker EXCEPT ![w].pc = "mark", ![w].yolo = y]
      BY <2>1, <3>1, WorkerType DEF WorkerPcs
    <3>2. CASE worker' = [worker EXCEPT ![w].yolo = y]
      BY <2>1, <3>2 DEF TypeInv
    <3>3. CASE worker' = [worker EXCEPT ![w] = [pc |-> "idle", f |-> None, yolo |-> None]]
      BY <3>3 DEF TypeInv, WorkerPcs
    <3> QED
      BY <1>7, <3>1, <3>2, <3>3 DEF WorkerSearch
  <2> QED
    BY <1>7, <2>2 DEF WorkerSearch, TypeInv
<1>8. ASSUME NEW w \in Workers, WorkerMark(w) PROVE TypeInv'
  <2>1. worker' \in [Workers -> [pc : WorkerPcs, f : Nat, yolo : Nat]]
    BY <1>8, WorkerType DEF WorkerMark, WorkerPcs
  <2> QED
    BY <1>8, <2>1 DEF WorkerMark, TypeInv
<1>9. ASSUME NEW w \in Workers, WorkerRelease(w) PROVE TypeInv'
  <2>1. worker' \in [Workers -> [pc : WorkerPcs, f : Nat, yolo : Nat]]
    BY <1>9, WorkerType DEF WorkerRelease, WorkerPcs
  <2> QED
    BY <1>9, <2>1 DEF WorkerRelease, TypeInv
<1> QED
  BY <1>1, <1>2, <1>3, <1>4, <1>5, <1>6, <1>7, <1>8, <1>9

-----------------------------------------------------------------------------
(* The multithreaded program.                                              *)

(* The order of frames in "mt", one lemma per action that moves one.       *)
LEMMA DetectReadQueue == ASSUME TypeInv, QueueInv, DetectRead PROVE QueueInv'
<1>1. Len(taken) \in Nat /\ Len(taken') = Len(taken) + 1
  BY ReadEffect DEF DetectRead
<1>2. detect'.pc = "push" /\ detect'.f = Len(taken') /\ queue' = queue /\ Newest' = Newest
  BY DEF DetectRead, At, Newest, Stream!Last
<1>3. InOrder(queue, Newest, Len(taken))
  BY DEF QueueInv, DetectRead
<1>4. Len(taken') - 1 = Len(taken) /\ Len(taken') >= 1
  BY <1>1
<1> QED
  BY <1>2, <1>3, <1>4 DEF QueueInv

LEMMA DetectPushQueue == ASSUME TypeInv, QueueInv, DetectPush PROVE QueueInv'
<1>1. detect'.pc = "loop" /\ taken' = taken /\ Newest' = Newest
  BY DEF DetectPush, At, Newest, Stream!Last
<1>2. /\ detect.f = Len(taken) /\ Len(taken) >= 1 /\ Len(taken) \in Nat
      /\ queue \in Seq(Nat) /\ Newest \in Nat /\ InOrder(queue, Newest, Len(taken) - 1)
  BY NewestNat DEF DetectPush, QueueInv, TypeInv
<1>3. PICK top \in Nat : top = Len(taken) - 1 /\ top + 1 = Len(taken)
  BY <1>2
<1>4. InOrder(queue, Newest, Len(taken)) /\ InOrder(Append(queue, detect.f), Newest, Len(taken))
  BY <1>2, <1>3, InOrderPush
<1> QED
  BY <1>1, <1>4 DEF QueueInv, DetectPush

LEMMA MainPopQueue ==
  ASSUME TypeInv, QueueInv, MainPop
  PROVE  /\ QueueInv'
         /\ Head(queue) \in Nat /\ Newest < Head(queue) /\ Head(queue) <= Len(taken)
<1> DEFINE top == IF detect.pc = "push" THEN Len(taken) - 1 ELSE Len(taken)
<1>1. detect' = detect /\ taken' = taken /\ received' = Append(received, Head(queue))
  BY DEF MainPop
<1>2. queue \in Seq(Nat) /\ queue # <<>> /\ queue' = Tail(queue) /\ InOrder(queue, Newest, top)
  BY DEF MainPop, TypeInv, QueueInv
<1>3. top \in Nat /\ top <= Len(taken) /\ Newest \in Nat
  BY NewestNat DEF QueueInv, TypeInv
<1>4. PICK h, t, n : h = Head(queue) /\ t = top /\ n = Len(taken)
  OBVIOUS
<1>5. h \in Nat /\ Newest < h /\ h <= t /\ InOrder(queue', h, t)
  BY <1>2, <1>3, <1>4, InOrderPop
<1>6. Newest' = h
  BY <1>1, <1>4, <1>5, NewestOf
<1>7. QueueInv'
  BY <1>1, <1>4, <1>5, <1>6 DEF QueueInv
<1>8. h <= n
  <2>1. n \in Nat /\ t \in Nat /\ t <= n
    BY <1>3, <1>4 DEF TypeInv
  <2> QED
    BY <1>5, <2>1
<1> QED
  BY <1>4, <1>5, <1>7, <1>8

(* The other steps leave the frames alone.                                 *)
LEMMA QuietQueue ==
  ASSUME QueueInv, taken' = taken, received' = received, queue' = queue,
         detect' = detect \/ (detect.pc # "push" /\ detect'.pc # "push")
  PROVE  QueueInv'
<1>1. Newest' = Newest
  BY DEF Newest, Stream!Last
<1> QED
  BY <1>1 DEF QueueInv

(* No other step of "mt" disturbs that order.                              *)
LEMMA QueueStep ==
  ASSUME TypeInv, QueueInv,
         \/ DetectLoop \/ DetectRead \/ DetectPush
         \/ MainLoop \/ MainPop \/ MainPush \/ MainJoin \/ MainEnd
         \/ GenerLook \/ GenerSend \/ SwitchMode \/ ClockStep
  PROVE  QueueInv'
<1>1. CASE DetectLoop
  <2>1. detect.pc # "push" /\ detect'.pc # "push"
    BY <1>1 DEF DetectLoop, At
  <2> QED
    BY <1>1, <2>1, QuietQueue DEF DetectLoop
<1>2. CASE MainLoop \/ MainPush \/ MainJoin \/ MainEnd
  <2>1. taken' = taken /\ received' = received /\ queue' = queue /\ detect' = detect
    BY <1>2 DEF MainLoop, MainPush, MainJoin, MainEnd, mtVars
  <2> QED
    BY <2>1, QuietQueue
<1>3. CASE GenerLook \/ GenerSend \/ SwitchMode \/ ClockStep
  <2>1. taken' = taken /\ received' = received /\ queue' = queue /\ detect' = detect
    BY <1>3 DEF GenerLook, GenerSend, SwitchMode, ClockStep, mtVars
  <2> QED
    BY <2>1, QuietQueue
<1> QED
  BY <1>1, <1>2, <1>3, DetectReadQueue, DetectPushQueue, MainPopQueue

-----------------------------------------------------------------------------
(* The program with the pool.                                              *)

(* A frame that is read may still be missing in the ordered queue.         *)
LEMMA InARowRead ==
  ASSUME NEW oq, NEW last, NEW top \in Nat, InARow(oq, last, top)
  PROVE  InARow(oq, last, top + 1)
BY DEF InARow

(* OrderedQueue::dequeue: what is taken is the frame after the last one.   *)
LEMMA InARowDequeue ==
  ASSUME NEW oq \in QueueTypes, NEW last \in Nat, NEW top \in Nat, InARow(oq, last, top),
         oq.ready # <<>>, NEW q, q = [oq EXCEPT !.ready = Tail(@)]
  PROVE  /\ q \in QueueTypes
         /\ Head(oq.ready) = last + 1 /\ last + 1 <= top
         /\ InARow(q, last + 1, top)
<1> DEFINE r == oq.ready
<1>1. r \in Seq(Nat) /\ oq.current \in Nat /\ oq.buffer \in SUBSET Nat /\ r # <<>>
  BY DEF QueueTypes
<1>2. /\ Tail(r) \in Seq(Nat) /\ Len(r) \in Nat /\ Len(r) >= 1 /\ Len(Tail(r)) = Len(r) - 1
      /\ \A i \in 1..Len(Tail(r)) : i + 1 \in 1..Len(r) /\ Tail(r)[i] = r[i + 1]
      /\ Head(r) = r[1]
  <2> HIDE DEF r
  <2> QED
    BY <1>1, TailOf
<1>3. q \in QueueTypes /\ q.current = oq.current /\ q.buffer = oq.buffer /\ q.ready = Tail(r)
  <2>1. Tail(oq.ready) \in Seq(Nat)
    BY <1>2
  <2> QED
    BY <2>1 DEF QueueTypes
<1>4. /\ oq.current \in 1..(top + 1) /\ oq.buffer \subseteq 1..top
      /\ last + Len(r) + 1 = oq.current /\ \A i \in 1..Len(r) : r[i] = last + i
  BY DEF InARow
<1>5. PICK l \in Nat, c \in Nat : l = Len(r) /\ c = oq.current
  BY <1>1, <1>2
<1> HIDE DEF r
<1>6. l >= 1 /\ last + l + 1 = c /\ c \in 1..(top + 1)
  BY <1>2, <1>4, <1>5
<1>7. Head(r) = last + 1 /\ last + 1 <= top
  <2>1. 1 \in 1..l
    BY <1>6
  <2>2. r[1] = last + 1
    BY <1>4, <1>5, <2>1
  <2>3. last + 1 <= top
    BY <1>6
  <2> QED
    BY <1>2, <2>2, <2>3
<1>8. (last + 1) + Len(Tail(r)) + 1 = c
  BY <1>2, <1>5, <1>6
<1>9. ASSUME NEW i \in 1..Len(Tail(r)) PROVE Tail(r)[i] = (last + 1) + i
  <2>1. i \in Nat /\ Tail(r)[i] = r[i + 1] /\ r[i + 1] = last + (i + 1)
    BY <1>2, <1>4
  <2> QED
    BY <2>1
<1>10. InARow(q, last + 1, top)
  BY <1>3, <1>4, <1>5, <1>8, <1>9 DEF InARow
<1> QED
  BY <1>3, <1>7, <1>10 DEF r

(* A worker that keeps its frame, or gives it up, works on none that was   *)
(* not read.                                                               *)
LEMMA WorkerMoves ==
  ASSUME TypeInv, UnderWay, NEW w \in Workers,
         taken' = taken, tasks' = tasks, main' = main,
         \A v \in Workers \ {w} : worker'[v] = worker[v],
         worker'[w].pc \in {"search", "mark", "detect"} =>
           worker'[w].f = worker[w].f /\ worker[w].pc \in {"search", "mark", "detect"}
  PROVE  UnderWay'
BY DEF UnderWay, Frames

(* The frames under way were read, in every step of "pool".                *)
LEMMA UnderWayStep ==
  ASSUME TypeInv, UnderWay,
         \/ PoolLoop \/ PoolRead \/ PoolEnqueue \/ PoolStop \/ PoolJoin \/ Process
         \/ \E w \in Workers :
              \/ WorkerTake(w) \/ WorkerSearch(w) \/ WorkerMark(w)
              \/ WorkerDetect(w) \/ WorkerRelease(w)
  PROVE  UnderWay'
<1> USE DEF envVars, mtVars, poolVars
<1>0. /\ \A v \in Workers : worker[v] \in [pc : WorkerPcs, f : Nat, yolo : Nat]
      /\ worker \in [Workers -> [pc : WorkerPcs, f : Nat, yolo : Nat]]
  BY DEF TypeInv
<1>1. CASE PoolLoop
  <2>1. main'.pc # "enqueue" /\ taken' = taken /\ tasks' = tasks /\ worker' = worker
    BY <1>1 DEF PoolLoop, At
  <2> QED
    BY <2>1 DEF UnderWay, Frames
<1>2. CASE PoolRead
  <2>1. /\ Len(taken) \in Nat /\ Len(taken') = Len(taken) + 1
        /\ tasks' = tasks /\ worker' = worker /\ main'.f = Len(taken')
    BY <1>2, ReadEffect DEF PoolRead, At
  <2>2. Frames \subseteq Frames' /\ main'.f \in Frames'
    BY <2>1 DEF Frames
  <2> QED
    BY <2>1, <2>2 DEF UnderWay
<1>3. CASE PoolEnqueue
  <2>1. /\ tasks' = Append(tasks, main.f) /\ main.f \in Frames
        /\ main'.pc # "enqueue" /\ taken' = taken /\ worker' = worker
    BY <1>3 DEF PoolEnqueue, UnderWay, At
  <2>2. tasks \in Seq(Nat) /\ main.f \in Nat
    BY DEF TypeInv
  <2>3. /\ Len(tasks) \in Nat /\ Len(tasks') = Len(tasks) + 1
        /\ \A i \in 1..Len(tasks) : tasks'[i] = tasks[i]
        /\ tasks'[Len(tasks) + 1] = main.f
    BY <2>1, <2>2, AppendOf
  <2>4. ASSUME NEW i \in 1..Len(tasks') PROVE tasks'[i] \in Frames
    <3>1. i \in 1..Len(tasks) \/ i = Len(tasks) + 1
      BY <2>3
    <3> QED
      BY <2>1, <2>3, <3>1 DEF UnderWay
  <2>5. Frames' = Frames
    BY <2>1 DEF Frames
  <2> QED
    BY <2>1, <2>4, <2>5 DEF UnderWay
<1>4. CASE PoolStop
  <2>1. main'.pc # "enqueue" /\ taken' = taken /\ tasks' = <<>> /\ worker' = worker
    BY <1>4 DEF PoolStop, At
  <2>2. \A i \in 1..Len(tasks') : FALSE
    BY <2>1
  <2> QED
    BY <2>1, <2>2 DEF UnderWay, Frames
<1>5. CASE PoolJoin
  <2>1. main'.pc # "enqueue" /\ taken' = taken /\ tasks' = tasks /\ worker' = worker
    BY <1>5 DEF PoolJoin, At
  <2> QED
    BY <2>1 DEF UnderWay, Frames
<1>6. CASE Process
  <2>1. main' = main /\ taken' = taken /\ tasks' = tasks /\ worker' = worker
    BY <1>6 DEF Process
  <2> QED
    BY <2>1 DEF UnderWay, Frames
<1>7. ASSUME NEW w \in Workers, WorkerTake(w) PROVE UnderWay'
  <2>1. main' = main /\ taken' = taken
    BY <1>7 DEF WorkerTake
  <2>2. CASE tasks # <<>>
    <3>1. tasks' = Tail(tasks) /\ worker' = [worker EXCEPT ![w].pc = "search", ![w].f = Head(tasks)]
      BY <1>7, <2>2 DEF WorkerTake
    <3>2. /\ Head(tasks) = tasks[1] /\ 1 \in 1..Len(tasks)
          /\ \A i \in 1..Len(tasks') : i + 1 \in 1..Len(tasks) /\ tasks'[i] = tasks[i + 1]
      BY <2>2, <3>1, TailOf DEF TypeInv
    <3>3. /\ \A i \in 1..Len(tasks') : tasks'[i] \in Frames
          /\ Head(tasks) \in Frames
      BY <3>2 DEF UnderWay
    <3>4. worker'[w].f = Head(tasks) /\ \A v \in Workers \ {w} : worker'[v] = worker[v]
      BY <1>0, <3>1
    <3> QED
      BY <2>1, <3>3, <3>4 DEF UnderWay, Frames
  <2>3. CASE tasks = <<>>
    <3>1. tasks' = tasks /\ worker' = [worker EXCEPT ![w].pc = "ended"]
      BY <1>7, <2>3 DEF WorkerTake
    <3>2. worker'[w].pc = "ended" /\ \A v \in Workers \ {w} : worker'[v] = worker[v]
      BY <1>0, <3>1
    <3> QED
      BY <2>1, <3>1, <3>2, WorkerMoves
  <2> QED
    BY <2>2, <2>3
<1>8. ASSUME NEW w \in Workers, WorkerSearch(w) PROVE UnderWay'
  <2>1. main' = main /\ taken' = taken /\ tasks' = tasks /\ worker[w].pc = "search"
    BY <1>8 DEF WorkerSearch
  <2>2. /\ \A v \in Workers \ {w} : worker'[v] = worker[v]
        /\ worker'[w].pc = "idle" \/ worker'[w].f = worker[w].f
    BY <1>0, <1>8 DEF WorkerSearch
  <2> QED
    BY <2>1, <2>2, WorkerMoves
<1>9. ASSUME NEW w \in Workers, WorkerMark(w) PROVE UnderWay'
  <2>1. /\ main' = main /\ taken' = taken /\ tasks' = tasks /\ worker[w].pc = "mark"
        /\ worker' = [worker EXCEPT ![w].pc = "detect"]
    BY <1>9 DEF WorkerMark
  <2>2. worker'[w].f = worker[w].f /\ \A v \in Workers \ {w} : worker'[v] = worker[v]
    BY <1>0, <2>1
  <2> QED
    BY <2>1, <2>2, WorkerMoves
<1>10. ASSUME NEW w \in Workers, WorkerDetect(w) \/ WorkerRelease(w) PROVE UnderWay'
  <2>1. main' = main /\ taken' = taken /\ tasks' = tasks
    BY <1>10 DEF WorkerDetect, WorkerRelease
  <2>2. worker'[w].pc \in {"release", "idle"} /\ \A v \in Workers \ {w} : worker'[v] = worker[v]
    BY <1>0, <1>10 DEF WorkerDetect, WorkerRelease
  <2> QED
    BY <2>1, <2>2, WorkerMoves
<1> QED
  BY <1>1, <1>2, <1>3, <1>4, <1>5, <1>6, <1>7, <1>8, <1>9, <1>10

(* The ordered queue in a step of the pool.                                *)
LEMMA InARowStep ==
  ASSUME TypeInv, OrderedInv,
         \/ PoolLoop \/ PoolRead \/ PoolEnqueue \/ PoolStop \/ PoolJoin \/ Process
         \/ \E w \in Workers :
              \/ WorkerTake(w) \/ WorkerSearch(w) \/ WorkerMark(w)
              \/ WorkerDetect(w) \/ WorkerRelease(w)
  PROVE  ordered' \in QueueTypes /\ InARow(ordered', Newest', Len(taken'))
<1> USE DEF envVars, mtVars, poolVars
<1>0. /\ ordered \in QueueTypes /\ Newest \in Nat /\ Len(taken) \in Nat /\ Len(taken) <= MaxFrames
      /\ InARow(ordered, Newest, Len(taken))
  BY NewestNat DEF TypeInv, OrderedInv
<1>1. CASE ordered' = ordered /\ received' = received /\ taken' = taken
  <2>1. Newest' = Newest
    BY <1>1 DEF Newest, Stream!Last
  <2> QED
    BY <1>0, <1>1, <2>1
<1>2. CASE PoolRead
  <2>1. Newest' = Newest /\ ordered' = ordered
    BY <1>2 DEF PoolRead, Newest, Stream!Last
  <2>2. Len(taken') = Len(taken) + 1
    BY <1>2, ReadEffect DEF PoolRead
  <2> QED
    BY <1>0, <2>1, <2>2, InARowRead
<1>3. CASE Process
  <2>1. /\ ordered.ready # <<>> /\ ordered' = [ordered EXCEPT !.ready = Tail(@)]
        /\ received' = Append(received, Head(ordered.ready)) /\ taken' = taken
    BY <1>3 DEF Process
  <2>2. /\ ordered' \in QueueTypes /\ Head(ordered.ready) = Newest + 1
        /\ InARow(ordered', Newest + 1, Len(taken))
    BY <1>0, <2>1, InARowDequeue
  <2>3. Newest' = Newest + 1
    <3>1. Newest + 1 \in Nat /\ received' = Append(received, Newest + 1)
      BY <1>0, <2>1, <2>2
    <3> QED
      BY <3>1, NewestOf
  <2> QED
    BY <2>1, <2>2, <2>3
<1>4. ASSUME NEW w \in Workers, WorkerDetect(w)
      PROVE  ordered' \in QueueTypes /\ InARow(ordered', Newest', Len(taken'))
  <2>1. worker[w].f \in 1..Len(taken) /\ ordered' = Enqueue(ordered, worker[w].f)
    BY <1>4 DEF WorkerDetect, OrderedInv, UnderWay, Frames
  <2>2. Newest' = Newest /\ taken' = taken
    BY <1>4 DEF WorkerDetect, Newest, Stream!Last
  <2> QED
    BY <1>0, <2>1, <2>2, EnqueueInARow
<1>5. CASE PoolLoop \/ PoolEnqueue \/ PoolStop \/ PoolJoin
  BY <1>1, <1>5 DEF PoolLoop, PoolEnqueue, PoolStop, PoolJoin
<1>6. ASSUME NEW w \in Workers,
             WorkerTake(w) \/ WorkerSearch(w) \/ WorkerMark(w) \/ WorkerRelease(w)
      PROVE  ordered' \in QueueTypes /\ InARow(ordered', Newest', Len(taken'))
  BY <1>1, <1>6 DEF WorkerTake, WorkerSearch, WorkerMark, WorkerRelease
<1> QED
  BY <1>2, <1>3, <1>4, <1>5, <1>6

(* The results are put back in order.                                      *)
LEMMA OrderedStep ==
  ASSUME TypeInv, OrderedInv,
         \/ PoolLoop \/ PoolRead \/ PoolEnqueue \/ PoolStop \/ PoolJoin \/ Process
         \/ \E w \in Workers :
              \/ WorkerTake(w) \/ WorkerSearch(w) \/ WorkerMark(w)
              \/ WorkerDetect(w) \/ WorkerRelease(w)
  PROVE  TypeInv' /\ OrderedInv' /\ UNCHANGED program
<1> USE DEF envVars, mtVars, poolVars
<1>1. ordered' \in QueueTypes /\ InARow(ordered', Newest', Len(taken'))
  BY InARowStep
<1>2. UnderWay'
  BY UnderWayStep DEF OrderedInv
<1>3. program' = program
  BY DEF PoolLoop, PoolRead, PoolEnqueue, PoolStop, PoolJoin, Process,
         WorkerTake, WorkerSearch, WorkerMark, WorkerDetect, WorkerRelease
<1>4. OrderedInv'
  BY <1>1, <1>2 DEF OrderedInv
<1>5. TypeInv'
  <2>1. CASE Process
    <3>1. Head(ordered.ready) \in Nat
      BY <2>1, HeadFrame DEF Process, TypeInv, QueueTypes
    <3>2. received' \in Seq(Nat)
      BY <2>1, <3>1, AppendOf DEF Process, TypeInv
    <3> QED
      BY <1>1, <2>1, <3>2 DEF Process, TypeInv
  <2>2. ASSUME NEW w \in Workers, WorkerDetect(w) PROVE TypeInv'
    <3>1. worker' \in [Workers -> [pc : WorkerPcs, f : Nat, yolo : Nat]]
      BY <2>2, WorkerType DEF WorkerDetect, WorkerPcs, None
    <3> QED
      BY <1>1, <2>2, <3>1 DEF WorkerDetect, TypeInv
  <2> QED
    BY <2>1, <2>2, TypeStepPool
<1> QED
  BY <1>3, <1>4, <1>5

-----------------------------------------------------------------------------
LEMMA InitInv == ASSUME Init PROVE IInv
<1>1. Newest = 0 /\ Len(taken) = 0 /\ Len(queue) = 0
  BY DEF Init, Newest, Stream!Last
<1>2. TypeInv
  BY Limits DEF Init, TypeInv, At, None, MainPcs, WorkerPcs, QueueTypes
<1>3. QueueInv
  BY <1>1 DEF Init, QueueInv, InOrder, At
<1>4. UnderWay
  BY DEF Init, UnderWay, Frames, At
<1>5. InARow(ordered, Newest, Len(taken))
  <2>1. ordered.current = 1 /\ ordered.buffer = {} /\ ordered.ready = <<>>
    BY DEF Init
  <2> QED
    BY <1>1, <2>1 DEF InARow
<1>6. OrderedInv
  BY <1>4, <1>5 DEF OrderedInv, Init
<1> QED
  BY <1>2, <1>3, <1>6 DEF IInv

LEMMA NextInv == ASSUME IInv, [Next]_vars PROVE IInv'
<1>1. CASE program = "mt" /\ \/ DetectLoop \/ DetectRead \/ DetectPush
                             \/ MainLoop \/ MainPop \/ MainPush \/ MainJoin \/ MainEnd
                             \/ GenerLook \/ GenerSend \/ SwitchMode \/ ClockStep
  <2>1. TypeInv' /\ QueueInv'
    BY <1>1, TypeStepMt, QueueStep DEF IInv
  <2>2. program' = program
    BY <1>1 DEF DetectLoop, DetectRead, DetectPush, MainLoop, MainPop, MainPush, MainJoin, MainEnd,
                GenerLook, GenerSend, SwitchMode, ClockStep, envVars
  <2> QED
    BY <1>1, <2>1, <2>2 DEF IInv
<1>2. CASE program = "pool" /\ \/ PoolLoop \/ PoolRead \/ PoolEnqueue \/ PoolStop \/ PoolJoin
                               \/ Process
                               \/ \E w \in Workers :
                                    \/ WorkerTake(w) \/ WorkerSearch(w) \/ WorkerMark(w)
                                    \/ WorkerDetect(w) \/ WorkerRelease(w)
  BY <1>2, OrderedStep DEF IInv
<1>3. CASE Interrupt \/ UNCHANGED vars
  <2>1. UNCHANGED <<program, now, taken, received, main, stop, mtVars, poolVars>>
    BY <1>3 DEF Interrupt, vars, envVars
  <2>2. Newest' = Newest /\ Frames' = Frames
    BY <2>1 DEF Newest, Stream!Last, Frames
  <2>3. TypeInv'
    BY <2>1 DEF IInv, TypeInv, mtVars, poolVars
  <2>4. QueueInv => QueueInv'
    BY <2>1, <2>2 DEF QueueInv, mtVars
  <2>5. OrderedInv => OrderedInv'
    BY <2>1, <2>2 DEF OrderedInv, UnderWay, mtVars, poolVars
  <2> QED
    BY <2>1, <2>3, <2>4, <2>5 DEF IInv
<1> QED
  BY <1>1, <1>2, <1>3, NextCases

(* The inductive invariant holds in every run of either program.           *)
THEOREM InvCorrect == Spec => []IInv
<1>1. Init => IInv
  BY InitInv
<1>2. IInv /\ [Next]_vars => IInv'
  BY NextInv
<1> QED
  BY <1>1, <1>2, PTL DEF Spec

(* Every step of either program takes a frame, delivers one that was not   *)
(* overtaken, or does neither.                                             *)
LEMMA StreamStep ==
  ASSUME IInv, [Next]_vars
  PROVE  [Stream!Capture \/ Stream!Deliver]_<<Len(taken), received>>
<1> USE DEF envVars, mtVars, poolVars
<1>1. CASE taken' = taken /\ received' = received
  BY <1>1
<1>2. CASE ReadCamera /\ received' = received
  BY <1>2, ReadEffect DEF IInv, Stream!Capture
<1>3. ASSUME NEW f \in Nat, Newest < f, f <= Len(taken), received' = Append(received, f), taken' = taken
      PROVE  Stream!Deliver
  <2>1. Newest \in Nat /\ Len(taken) \in Nat
    BY NewestNat DEF IInv, TypeInv
  <2>2. f \in (Newest + 1)..Len(taken)
    BY <1>3, <2>1
  <2> QED
    BY <1>3, <2>2 DEF Stream!Deliver, Newest
<1>4. CASE program = "mt" /\ MainPop
  <2>1. Newest < Head(queue) /\ Head(queue) <= Len(taken) /\ Head(queue) \in Nat
    BY <1>4, MainPopQueue DEF IInv
  <2> QED
    BY <1>3, <1>4, <2>1 DEF MainPop
<1>5. CASE program = "pool" /\ Process
  <2>1. /\ ordered \in QueueTypes /\ Newest \in Nat /\ Len(taken) \in Nat
        /\ InARow(ordered, Newest, Len(taken))
    BY <1>5, NewestNat DEF IInv, TypeInv, OrderedInv
  <2>2. Head(ordered.ready) = Newest + 1 /\ Newest + 1 <= Len(taken)
    BY <1>5, <2>1, InARowDequeue DEF Process
  <2>3. Newest + 1 \in Nat /\ Newest < Newest + 1
    BY <2>1
  <2> QED
    BY <1>3, <1>5, <2>2, <2>3 DEF Process
<1>6. CASE DetectRead \/ PoolRead
  BY <1>2, <1>6 DEF DetectRead, PoolRead
<1>7. CASE \/ DetectLoop \/ DetectPush \/ MainLoop \/ MainPush \/ MainJoin \/ MainEnd
           \/ GenerLook \/ GenerSend \/ SwitchMode \/ ClockStep
  BY <1>1, <1>7 DEF DetectLoop, DetectPush, MainLoop, MainPush, MainJoin, MainEnd,
                    GenerLook, GenerSend, SwitchMode, ClockStep
<1>8. CASE PoolLoop \/ PoolEnqueue \/ PoolStop \/ PoolJoin \/ Interrupt \/ UNCHANGED vars
  BY <1>1, <1>8 DEF PoolLoop, PoolEnqueue, PoolStop, PoolJoin, Interrupt, vars
<1>9. ASSUME NEW w \in Workers,
             \/ WorkerTake(w) \/ WorkerSearch(w) \/ WorkerMark(w)
             \/ WorkerDetect(w) \/ WorkerRelease(w)
      PROVE  taken' = taken /\ received' = received
  BY <1>9 DEF WorkerTake, WorkerSearch, WorkerMark, WorkerDetect, WorkerRelease
<1> QED
  BY <1>1, <1>4, <1>5, <1>6, <1>7, <1>8, <1>9, NextCases

(* Frames are tracked, or processed, in the order they were read and each  *)
(* once: both programs implement FrameStream, the full queue, the          *)
(* overtaking workers and the workers without a detector included.         *)
THEOREM ImplementsStreamCorrect == Spec => ImplementsStream
<1>1. Init => Stream!Init
  BY DEF Init, Stream!Init
<1>2. IInv /\ [Next]_vars => [Stream!Capture \/ Stream!Deliver]_<<Len(taken), received>>
  BY StreamStep
<1> QED
  BY <1>1, <1>2, InvCorrect, PTL DEF Spec, ImplementsStream, Stream!Spec

(* The same under the fairness of the runs.                                *)
COROLLARY FairSpecCorrect == FairSpec => ImplementsStream
<1>1. FairSpec => Spec
  BY PTL DEF FairSpec
<1> QED
  BY <1>1, ImplementsStreamCorrect

-----------------------------------------------------------------------------
(***************************************************************************)
(* The cameras the frames come from.  Their queue and the frames they hand *)
(* over are other ones than those of the program.                          *)
(***************************************************************************)
CONSTANTS OpenLimit, MaxLate

VARIABLES kind, device, cap, thread, flag, captureQuit, quit, guard, opens, app, late, captured,
          images,   \* the queue of the camera
          handed    \* the frames read from it

Cameras == INSTANCE CameraThreads WITH queue <- images, received <- handed

LastHanded == Cameras!Stream!Last

CameraTypes == captured \in Nat /\ images \in Seq(Nat) /\ handed \in Seq(Nat)

(* The capture thread may hold a frame that it has not pushed yet.  The    *)
(* guard opens the camera when there is no capture thread.                 *)
CameraInv ==
  /\ CameraTypes
  /\ InOrder(images, LastHanded, IF thread = "hold" THEN captured - 1 ELSE captured)
  /\ thread = "hold" => captured >= 1
  /\ guard = "open" => thread = "none"

LEMMA LastHandedNat == ASSUME CameraTypes PROVE LastHanded \in Nat
<1>1. CASE handed = <<>>
  BY <1>1 DEF LastHanded, Cameras!Stream!Last
<1>2. CASE handed # <<>>
  <2>1. Len(handed) \in 1..Len(handed)
    BY <1>2, TailOf DEF CameraTypes
  <2> QED
    BY <1>2, <2>1 DEF LastHanded, Cameras!Stream!Last, CameraTypes
<1> QED
  BY <1>1, <1>2

(* CaptureRead and CapturePush.                                            *)
LEMMA CaptureKeeps ==
  ASSUME CameraInv, Cameras!CaptureRead \/ Cameras!CapturePush
  PROVE  CameraInv'
<1> USE DEF Cameras!guardVars
<1>1. handed' = handed /\ LastHanded' = LastHanded /\ guard' = guard
  BY DEF Cameras!CaptureRead, Cameras!CapturePush, LastHanded, Cameras!Stream!Last
<1>2. LastHanded \in Nat /\ captured \in Nat /\ images \in Seq(Nat) /\ handed \in Seq(Nat)
  BY LastHandedNat DEF CameraInv, CameraTypes
<1>3. CASE Cameras!CaptureRead
  <2>1. thread = "loop" /\ thread' = "hold" /\ captured' = captured + 1 /\ images' = images
    BY <1>3 DEF Cameras!CaptureRead
  <2>2. captured' - 1 = captured /\ captured' >= 1 /\ captured' \in Nat
    BY <1>2, <2>1
  <2>3. InOrder(images, LastHanded, captured)
    BY <2>1 DEF CameraInv
  <2> QED
    BY <1>1, <1>2, <2>1, <2>2, <2>3 DEF CameraInv, CameraTypes
<1>4. CASE Cameras!CapturePush
  <2>1. /\ thread = "hold" /\ thread' \in {"last", "loop"} /\ captured' = captured
        /\ images' = images \/ images' = Append(images, captured)
    BY <1>4 DEF Cameras!CapturePush
  <2>2. PICK top \in Nat : top = captured - 1 /\ top + 1 = captured
    BY <1>2, <2>1 DEF CameraInv
  <2>3. InOrder(images, LastHanded, top)
    BY <2>1, <2>2 DEF CameraInv
  <2>4. InOrder(images, LastHanded, captured) /\ InOrder(Append(images, captured), LastHanded, captured)
    BY <1>2, <2>2, <2>3, InOrderPush
  <2>5. images' \in Seq(Nat)
    <3>1. Append(images, captured) \in Seq(Nat)
      BY <1>2, AppendOf
    <3> QED
      BY <1>2, <2>1, <3>1
  <2>6. guard # "open"
    BY <2>1 DEF CameraInv
  <2> QED
    BY <1>1, <1>2, <2>1, <2>4, <2>5, <2>6 DEF CameraInv, CameraTypes
<1> QED
  BY <1>3, <1>4

(* What the reader takes was not overtaken.                                *)
LEMMA HandedNext ==
  ASSUME CameraInv, Cameras!ReadPop
  PROVE  CameraInv' /\ Cameras!Stream!Deliver
<1> USE DEF Cameras!guardVars
<1> DEFINE top == IF thread = "hold" THEN captured - 1 ELSE captured
<1>1. /\ images # <<>> /\ images' = Tail(images) /\ handed' = Append(handed, Head(images))
      /\ thread' = thread /\ captured' = captured /\ guard' = guard
  BY DEF Cameras!ReadPop
<1>2. /\ LastHanded \in Nat /\ captured \in Nat /\ images \in Seq(Nat) /\ handed \in Seq(Nat)
      /\ InOrder(images, LastHanded, top)
  BY LastHandedNat DEF CameraInv, CameraTypes
<1>3. top \in Nat /\ top <= captured
  BY <1>2 DEF CameraInv
<1>4. PICK h, t : h = Head(images) /\ t = top
  OBVIOUS
<1>5. h \in Nat /\ LastHanded < h /\ h <= t /\ images' \in Seq(Nat) /\ InOrder(images', h, t)
  BY <1>1, <1>2, <1>3, <1>4, InOrderPop
<1>6. handed' \in Seq(Nat) /\ LastHanded' = h
  <2>1. /\ handed' \in Seq(Nat) /\ handed' # <<>> /\ Len(handed') = Len(handed) + 1
        /\ handed'[Len(handed) + 1] = h
    BY <1>1, <1>2, <1>4, <1>5, AppendOf
  <2> QED
    BY <2>1 DEF LastHanded, Cameras!Stream!Last
<1>7. CameraInv'
  BY <1>1, <1>2, <1>4, <1>5, <1>6 DEF CameraInv, CameraTypes
<1>8. h \in (LastHanded + 1)..captured
  <2>1. t \in Nat /\ t <= captured
    BY <1>3, <1>4
  <2> QED
    BY <1>2, <1>5, <2>1
<1> QED
  BY <1>1, <1>4, <1>7, <1>8 DEF Cameras!Stream!Deliver, LastHanded

(* The other steps.                                                        *)
LEMMA QuietCamera ==
  ASSUME CameraInv, captured' = captured, images' = images, handed' = handed,
         thread' = thread \/ (thread # "hold" /\ thread' # "hold"),
         guard' = "open" => thread' = "none"
  PROVE  CameraInv'
<1>1. LastHanded' = LastHanded
  BY DEF LastHanded, Cameras!Stream!Last
<1> QED
  BY <1>1 DEF CameraInv, CameraTypes

(* A capture thread starts only where there is none.                       *)
LEMMA CameraStep ==
  ASSUME CameraInv, [Cameras!Next]_Cameras!vars
  PROVE  /\ CameraInv'
         /\ [Cameras!Stream!Capture \/ Cameras!Stream!Deliver]_<<captured, handed>>
         /\ thread' = "born" => thread \in {"none", "born"}
<1> USE DEF Cameras!threadVars, Cameras!guardVars
<1>0. guard = "open" => thread = "none"
  BY DEF CameraInv
<1>1. CASE Cameras!CaptureRead
  <2>1. captured' = captured + 1 /\ handed' = handed /\ thread' = "hold"
    BY <1>1 DEF Cameras!CaptureRead
  <2> QED
    BY <1>1, <2>1, CaptureKeeps DEF Cameras!Stream!Capture
<1>2. CASE Cameras!CapturePush
  <2>1. captured' = captured /\ handed' = handed /\ thread' # "born"
    BY <1>2 DEF Cameras!CapturePush
  <2> QED
    BY <1>2, <2>1, CaptureKeeps
<1>3. CASE Cameras!ReadPop
  <2>1. thread' = thread
    BY <1>3 DEF Cameras!ReadPop
  <2> QED
    BY <1>3, <2>1, HandedNext
<1>4. CASE Cameras!CaptureBegin \/ Cameras!CaptureLeave \/ Cameras!CaptureEnd
  <2>1. /\ captured' = captured /\ images' = images /\ handed' = handed /\ guard' = guard
        /\ thread \in {"born", "loop", "last"} /\ thread' \in {"loop", "last", "ended"}
    BY <1>4 DEF Cameras!CaptureBegin, Cameras!CaptureLeave, Cameras!CaptureEnd
  <2> QED
    BY <1>0, <2>1, QuietCamera
<1>5. CASE Cameras!GuardHead \/ Cameras!GuardCheck
  <2>1. /\ captured' = captured /\ images' = images /\ handed' = handed /\ thread' = thread
        /\ guard' # "open"
    BY <1>5 DEF Cameras!GuardHead, Cameras!GuardCheck, Cameras!Guard
  <2> QED
    BY <2>1, QuietCamera
<1>6. CASE Cameras!HikGuard
  <2>1. captured' = captured /\ images' = images /\ handed' = handed
    BY <1>6 DEF Cameras!HikGuard, Cameras!HikStop, Cameras!HikJoin, Cameras!HikOpen, Cameras!Guard
  <2>2. CASE \/ Cameras!HikStop("stop", "join") \/ Cameras!HikStop("finalStop", "finalJoin")
    <3>1. thread' = thread /\ guard' # "open"
      BY <2>2 DEF Cameras!HikStop, Cameras!Guard
    <3> QED
      BY <2>1, <3>1, QuietCamera
  <2>3. CASE Cameras!HikJoin("join", "open") \/ Cameras!HikJoin("finalJoin", "stopped")
    <3>1. thread # "hold" /\ thread' = "none"
      BY <2>3 DEF Cameras!HikJoin, Cameras!Joined
    <3> QED
      BY <2>1, <3>1, QuietCamera
  <2>4. CASE Cameras!HikOpen
    <3>1. guard = "open" /\ guard' = "head" /\ (thread' = thread \/ thread' = "born")
      BY <2>4 DEF Cameras!HikOpen, Cameras!Guard, Cameras!TryOpen
    <3> QED
      BY <1>0, <2>1, <3>1, QuietCamera
  <2> QED
    BY <1>6, <2>2, <2>3, <2>4 DEF Cameras!HikGuard
<1>7. CASE Cameras!UsbGuard
  <2>1. captured' = captured /\ images' = images /\ handed' = handed
    BY <1>7 DEF Cameras!UsbGuard, Cameras!UsbGiveUp, Cameras!UsbFinalJoin, Cameras!UsbJoin,
                Cameras!UsbOpen, Cameras!Guard
  <2>2. CASE Cameras!UsbGiveUp
    <3>1. thread' = thread /\ guard' # "open"
      BY <2>2 DEF Cameras!UsbGiveUp, Cameras!Guard
    <3> QED
      BY <2>1, <3>1, QuietCamera
  <2>3. CASE Cameras!UsbFinalJoin \/ Cameras!UsbJoin
    <3>1. thread # "hold" /\ thread' = "none"
      BY <2>3 DEF Cameras!UsbFinalJoin, Cameras!UsbJoin, Cameras!Joined
    <3> QED
      BY <2>1, <3>1, QuietCamera
  <2>4. CASE Cameras!UsbOpen
    <3>1. guard = "open" /\ guard' = "head" /\ (thread' = thread \/ thread' = "born")
      BY <2>4 DEF Cameras!UsbOpen, Cameras!Guard, Cameras!TryOpen
    <3> QED
      BY <1>0, <2>1, <3>1, QuietCamera
  <2> QED
    BY <1>7, <2>2, <2>3, <2>4 DEF Cameras!UsbGuard
<1>8. CASE \/ Cameras!Read \/ Cameras!DestroyClose \/ Cameras!DestroyJoin \/ Cameras!Destroy
           \/ Cameras!Unplug \/ Cameras!Plug \/ UNCHANGED Cameras!vars
  <2>1. /\ captured' = captured /\ images' = images /\ handed' = handed /\ thread' = thread
        /\ guard' = guard
    BY <1>8 DEF Cameras!Read, Cameras!DestroyClose, Cameras!DestroyJoin, Cameras!Destroy,
                Cameras!Unplug, Cameras!Plug, Cameras!vars
  <2> QED
    BY <1>0, <2>1, QuietCamera
<1> QED
  BY <1>1, <1>2, <1>3, <1>4, <1>5, <1>6, <1>7, <1>8
  DEF Cameras!Next, Cameras!CaptureThread, Cameras!GuardThread, Cameras!App

(* The invariant of the cameras holds at first.                            *)
LEMMA CameraInit == ASSUME Cameras!Init PROVE CameraInv /\ Cameras!Stream!Init
<1>1. captured = 0 /\ images = <<>> /\ handed = <<>> /\ thread \in {"born", "none"}
  BY DEF Cameras!Init
<1>2. guard = "open" => thread = "none"
  BY DEF Cameras!Init
<1>3. LastHanded = 0 /\ Len(images) = 0
  BY <1>1 DEF LastHanded, Cameras!Stream!Last
<1> QED
  BY <1>1, <1>2, <1>3 DEF CameraInv, CameraTypes, InOrder, Cameras!Stream!Init

(* In either camera driver what is captured, queued and handed over is in  *)
(* order, and the guard opens the camera only while there is no capture    *)
(* thread.                                                                 *)
THEOREM CameraInvCorrect == Cameras!Spec => []CameraInv
<1>1. Cameras!Init => CameraInv
  BY CameraInit
<1>2. CameraInv /\ [Cameras!Next]_Cameras!vars => CameraInv'
  BY CameraStep
<1> QED
  BY <1>1, <1>2, PTL DEF Cameras!Spec

(* The reader of a camera gets the frames in the order they were taken,    *)
(* each once, across full queues, reopened devices and restarted threads.  *)
THEOREM CameraImplementsStream == Cameras!Spec => Cameras!ImplementsStream
<1>1. Cameras!Init => Cameras!Stream!Init
  BY CameraInit
<1>2. CameraInv /\ [Cameras!Next]_Cameras!vars
        => [Cameras!Stream!Capture \/ Cameras!Stream!Deliver]_<<captured, handed>>
  BY CameraStep
<1> QED
  BY <1>1, <1>2, CameraInvCorrect, PTL
  DEF Cameras!Spec, Cameras!ImplementsStream, Cameras!Stream!Spec

(* The guard never overwrites a capture thread that is still joinable.     *)
THEOREM NeverTerminatesCorrect == Cameras!Spec => Cameras!NeverTerminates
<1>1. CameraInv /\ [Cameras!Next]_Cameras!vars
        => [thread' = "born" => thread \in {"none", "born"}]_Cameras!vars
  BY CameraStep
<1> QED
  BY <1>1, CameraInvCorrect, PTL DEF Cameras!Spec, Cameras!NeverTerminates
=============================================================================
