--------------------------- MODULE TimeSyncProofs ----------------------------
(***************************************************************************)
(* Proofs about TimeSync, for any sizes of the history and the sequence    *)
(* numbers, any period, and any time a frame spends on the wire, in the    *)
(* board's slot or in the host's buffer.                                   *)
(***************************************************************************)
EXTENDS TimeSync, TLAPS

Requests  == [n : Nat, seq : Nat, t0 : Nat]
Stamped   == [n : Nat, seq : Nat, t0 : Nat, t1 : Int]
Answers   == [n : Nat, seq : Nat, t0 : Nat, t1 : Int, t2 : Int, skew : Int]
Exchanges == [n : Nat, sentAt : Nat, skew : Int, t0 : Nat, t1 : Int, t2 : Int, t3 : Nat]

TypeInv ==
  /\ now \in Nat
  /\ skew \in Int
  /\ requests \in Nat
  /\ lastReq \in Nat
  /\ hist \in [0..(HistSize - 1) -> [seq : Nat, t0 : Nat]]
  /\ toBoard \in Seq(Requests)
  /\ rxReq \in {None} \cup Stamped
  /\ slot \in {None} \cup Answers
  /\ toHost \in Seq(Answers)
  /\ offset \in Int
  /\ taken \in {None} \cup Exchanges
  /\ settled \in BOOLEAN
  /\ longest \in Nat

(* Request n, with that number and time, and the history agree, as long as *)
(* the history reaches back to it.                                         *)
Numbered(n, seq, t0) ==
  /\ n < requests
  /\ requests - n <= SeqMod
  /\ seq = n % SeqMod
  /\ requests - n <= HistSize => hist[n % HistSize].t0 = t0
  /\ t0 <= now

FrameInv == \A f \in InFlight : Numbered(f.n, f.seq, f.t0)

(* An entry in use belongs to one of the last HistSize requests.           *)
HistInv ==
  \A i \in 0..(HistSize - 1) : hist[i].t0 # 0 =>
    \E n \in 0..(requests - 1) :
      requests - n <= HistSize /\ i = n % HistSize /\ hist[i].seq = n % SeqMod

(* The four times of an exchange are in order, on the host's clock.        *)
InOrder(f, t3) == f.t0 <= f.t1 - f.skew /\ f.t1 <= f.t2 /\ f.t2 - f.skew <= t3

TimesInv ==
  /\ rxReq # None => rxReq.t0 <= rxReq.t1 - skew /\ rxReq.t1 - skew <= now
  /\ slot # None => slot.skew = skew
  /\ \A f \in Responses : InOrder(f, now)

TakenInv == taken # None => taken.t0 = taken.sentAt /\ InOrder(taken, taken.t3)

(* A settled mapping meets only answers of the board it belongs to.        *)
CloseInv ==
  settled => /\ \A f \in FramesOf(toHost) : f.skew = skew
             /\ Abs(offset - skew) <= Margin(longest)

IInv == TypeInv /\ FrameInv /\ HistInv /\ TimesInv /\ TakenInv /\ CloseInv

-----------------------------------------------------------------------------
(* Arithmetic.                                                             *)

(* Division with remainder.                                                *)
LEMMA DivMod ==
  ASSUME NEW a \in Nat, NEW m \in Nat \ {0}
  PROVE  /\ a \div m \in Nat /\ a % m \in 0..(m - 1)
         /\ a = m * (a \div m) + (a % m)
OBVIOUS

(* Numbers of a window no longer than m differ modulo m.                   *)
LEMMA ModWindow ==
  ASSUME NEW m \in Nat \ {0}, NEW a \in Nat, NEW b \in Nat,
         a <= b, b - a < m, a % m = b % m
  PROVE  a = b
<1> DEFINE p == a \div m
           q == b \div m
           r == a % m
<1>1. p \in Nat /\ q \in Nat /\ r \in 0..(m - 1) /\ a = m * p + r /\ b = m * q + r
  BY DivMod
<1> HIDE DEF p, q, r
<1>2. b - a = m * (q - p)
  BY <1>1
<1>3. CASE q - p >= 1
  <2>1. m * (q - p) >= m
    BY <1>1, <1>3
  <2> QED
    BY <1>2, <2>1
<1>4. CASE q - p <= -1
  <2>1. m * (q - p) <= -m
    BY <1>1, <1>4
  <2> QED
    BY <1>2, <2>1
<1>5. CASE q = p
  BY <1>1, <1>5
<1> QED
  BY <1>1, <1>3, <1>4, <1>5

(* Remainders repeat with the divisor.                                     *)
LEMMA ModShift ==
  ASSUME NEW m \in Nat \ {0}, NEW a \in Nat
  PROVE  (a + m) % m = a % m
<1> DEFINE b == a + m
           p == a \div m
           q == b \div m
           r == a % m
           t == b % m
<1>1. /\ p \in Nat /\ r \in 0..(m - 1) /\ a = m * p + r
      /\ q \in Nat /\ t \in 0..(m - 1) /\ b = m * q + t
  <2>1. b \in Nat
    OBVIOUS
  <2> QED
    BY <2>1, DivMod
<1>2. b = a + m
  OBVIOUS
<1> HIDE DEF b, p, q, r, t
<1>3. m * (q - p) = m + r - t
  BY <1>1, <1>2
<1>4. CASE q - p >= 2
  <2>1. m * (q - p) >= m + m
    BY <1>1, <1>4
  <2> QED
    BY <1>1, <1>3, <2>1
<1>5. CASE q - p <= 0
  <2>1. m * (q - p) <= 0
    BY <1>1, <1>5
  <2> QED
    BY <1>1, <1>3, <2>1
<1>6. CASE q - p = 1
  <2>1. m * (q - p) = m
    BY <1>6
  <2>2. r = t
    BY <1>1, <1>3, <2>1
  <2> QED
    BY <2>2 DEF r, t, b
<1> QED
  BY <1>1, <1>4, <1>5, <1>6

(* Division of C rounds by less than one.                                  *)
LEMMA TruncHalf ==
  ASSUME NEW a \in Int
  PROVE  /\ TruncDiv(a, 2) \in Int
         /\ 2 * TruncDiv(a, 2) <= a + 1 /\ a - 1 <= 2 * TruncDiv(a, 2)
BY DEF TruncDiv

(* The filter divides by ten and truncates, so it is less than a unit off. *)
LEMMA TruncTenth ==
  ASSUME NEW a \in Int
  PROVE  /\ TruncDiv(a, 10) \in Int
         /\ 10 * TruncDiv(a, 10) <= a + 9 /\ a - 9 <= 10 * TruncDiv(a, 10)
BY DEF TruncDiv

(* The offset of an exchange is off by half its round trip.                *)
LEMMA OffsetBound ==
  ASSUME NEW t0 \in Int, NEW t1 \in Int, NEW t2 \in Int, NEW t3 \in Int, NEW k \in Int,
         t0 <= t1 - k, t1 <= t2, t2 - k <= t3
  PROVE  /\ Offset(t0, t1, t2, t3) \in Int
         /\ 2 * Abs(Offset(t0, t1, t2, t3) - k) <= Rtt(t0, t1, t2, t3) + 1
<1> DEFINE a == (t1 - t0) + (t2 - t3)
           s == TruncDiv(a, 2)
<1>1. s \in Int /\ 2 * s <= a + 1 /\ a - 1 <= 2 * s
  BY TruncHalf
<1>2. Rtt(t0, t1, t2, t3) = (t3 - t0) - (t2 - t1)
  BY DEF Rtt
<1> HIDE DEF s
<1>3. 2 * (s - k) <= (t3 - t0) - (t2 - t1) + 1 /\ -(2 * (s - k)) <= (t3 - t0) - (t2 - t1) + 1
  BY <1>1
<1>4. 2 * Abs(s - k) <= (t3 - t0) - (t2 - t1) + 1
  BY <1>1, <1>3 DEF Abs
<1> QED
  BY <1>1, <1>2, <1>4 DEF s, Offset

(* The filter keeps a mapping within the margin of a clock that its        *)
(* samples meet within half the longest round trip.                        *)
LEMMA FilterBound ==
  ASSUME NEW k \in Int, NEW off \in Int, NEW s \in Int, NEW p \in Nat, NEW r \in Nat, p <= r,
         Abs(off - k) <= Margin(p), 2 * Abs(s - k) <= r + 1
  PROVE  Abs(Filtered(off, s) - k) <= Margin(r)
<1> DEFINE h == (r + 1) \div 2
<1>1. h \in Nat /\ r <= 2 * h /\ 2 * h <= r + 1 /\ (p + 1) \div 2 <= h
  OBVIOUS
<1>2. Margin(r) = h + 10 /\ Margin(p) <= h + 10
  BY <1>1 DEF Margin
<1>3. Abs(s - k) \in Int /\ Abs(off - k) \in Int /\ Margin(p) \in Int
  BY DEF Abs, Margin
<1> HIDE DEF h
<1>4. Abs(s - k) <= h /\ Abs(off - k) <= h + 10
  BY <1>1, <1>2, <1>3
<1>5. /\ off - k <= h + 10 /\ -(h + 10) <= off - k
      /\ s - k <= h /\ -h <= s - k
  BY <1>1, <1>4 DEF Abs
<1> DEFINE v == TruncDiv(off * 9 + s, 10)
<1>6. v \in Int /\ 10 * v <= off * 9 + s + 9 /\ off * 9 + s - 9 <= 10 * v
  BY TruncTenth
<1> HIDE DEF v
<1>7. v - k <= h + 10 /\ -(h + 10) <= v - k
  BY <1>1, <1>5, <1>6
<1>8. Abs(v - k) <= h + 10
  BY <1>1, <1>6, <1>7 DEF Abs
<1> QED
  BY <1>2, <1>8 DEF v, Filtered

-----------------------------------------------------------------------------
(* Frames on a wire.                                                       *)
LEMMA FramesAppend ==
  ASSUME NEW S, NEW s \in Seq(S), NEW x \in S
  PROVE  Append(s, x) \in Seq(S) /\ FramesOf(Append(s, x)) = FramesOf(s) \cup {x}
<1>1. /\ Append(s, x) \in Seq(S) /\ Len(s) \in Nat /\ Len(Append(s, x)) = Len(s) + 1
      /\ \A i \in 1..Len(s) : Append(s, x)[i] = s[i]
      /\ Append(s, x)[Len(s) + 1] = x
  OBVIOUS
<1>2. 1..(Len(s) + 1) = (1..Len(s)) \cup {Len(s) + 1}
  BY <1>1
<1> QED
  BY <1>1, <1>2 DEF FramesOf

(* Taking the first frame adds none.                                       *)
LEMMA FramesTail ==
  ASSUME NEW S, NEW s \in Seq(S), s # <<>>
  PROVE  /\ Tail(s) \in Seq(S) /\ FramesOf(Tail(s)) \subseteq FramesOf(s)
         /\ Head(s) \in S /\ Head(s) \in FramesOf(s)
<1>1. /\ Tail(s) \in Seq(S) /\ Len(s) \in Nat /\ Len(s) >= 1 /\ Len(Tail(s)) = Len(s) - 1
      /\ \A i \in 1..Len(Tail(s)) : i + 1 \in 1..Len(s) /\ Tail(s)[i] = s[i + 1]
      /\ Head(s) = s[1] /\ Head(s) \in S
  OBVIOUS
<1>2. FramesOf(Tail(s)) \subseteq FramesOf(s)
  <2> SUFFICES ASSUME NEW i \in 1..Len(Tail(s)) PROVE Tail(s)[i] \in FramesOf(s)
    BY DEF FramesOf
  <2> QED
    BY <1>1 DEF FramesOf
<1>3. Head(s) \in FramesOf(s)
  <2>1. 1 \in 1..Len(s)
    BY <1>1
  <2> QED
    BY <1>1, <2>1 DEF FramesOf
<1> QED
  BY <1>1, <1>2, <1>3

LEMMA FramesType ==
  ASSUME NEW S, NEW s \in Seq(S)
  PROVE  FramesOf(s) \subseteq S
BY DEF FramesOf

(* The kinds of frames, by the types of the places that hold them.         *)
LEMMA Shapes ==
  ASSUME TypeInv
  PROVE  /\ FramesOf(toBoard) \subseteq Requests /\ FramesOf(toHost) \subseteq Answers
         /\ rxReq # None => rxReq \in Stamped
         /\ slot # None => slot \in Answers
         /\ taken # None => taken \in Exchanges
         /\ None \notin Requests \cup Stamped \cup Answers \cup Exchanges
         /\ \A f \in InFlight : f.n \in Nat /\ f.seq \in Nat /\ f.t0 \in Nat
         /\ \A f \in Responses : f \in Answers
<1>1. FramesOf(toBoard) \subseteq Requests /\ FramesOf(toHost) \subseteq Answers
  BY FramesType DEF TypeInv
<1>2. /\ rxReq # None => rxReq \in Stamped
      /\ slot # None => slot \in Answers
      /\ taken # None => taken \in Exchanges
  BY DEF TypeInv
<1>3. \A f \in Requests \cup Stamped \cup Answers : f.n \in Nat /\ f.seq \in Nat /\ f.t0 \in Nat
  BY DEF Requests, Stamped, Answers
<1>4. None \notin Requests \cup Stamped \cup Answers \cup Exchanges
  <2>1. \A f \in Requests \cup Stamped \cup Answers \cup Exchanges : f.n \in Nat
    BY DEF Requests, Stamped, Answers, Exchanges
  <2>2. None.n \notin Nat
    BY DEF None
  <2> QED
    BY <2>1, <2>2
<1> QED
  BY <1>1, <1>2, <1>3, <1>4 DEF InFlight, Requested, Responses

-----------------------------------------------------------------------------
LEMMA Sizes == HistSize \in Nat \ {0} /\ SeqMod \in Nat \ {0} /\ HistSize < SeqMod
BY SyncAssumption

LEMMA T0Nat ==
  ASSUME TypeInv, NEW seq
  PROVE  T0Of(seq) \in Nat
<1>1. \A i \in DOMAIN hist : hist[i].t0 \in Nat
  BY DEF TypeInv
<1> QED
  BY <1>1 DEF T0Of

(* What the history says about the number of a frame that is under way is  *)
(* the time its request was sent, or nothing.                              *)
LEMMA T0Right ==
  ASSUME TypeInv, HistInv, NEW n \in Nat, NEW seq, NEW t0, Numbered(n, seq, t0), T0Of(seq) # 0
  PROVE  T0Of(seq) = t0
<1>1. PICK i \in 0..(HistSize - 1) : hist[i].seq = seq /\ T0Of(seq) = hist[i].t0
  <2>1. (\E i \in DOMAIN hist : IsEntryOf(i, seq)) /\ DOMAIN hist = 0..(HistSize - 1)
    BY DEF T0Of, TypeInv
  <2>2. PICK i \in DOMAIN hist : i = CHOOSE j \in DOMAIN hist : IsEntryOf(j, seq)
    BY <2>1
  <2>3. IsEntryOf(i, seq)
    BY <2>1, <2>2
  <2> QED
    BY <2>1, <2>2, <2>3 DEF IsEntryOf, T0Of
<1>2. PICK k \in 0..(requests - 1) :
        requests - k <= HistSize /\ i = k % HistSize /\ seq = k % SeqMod
  BY <1>1 DEF HistInv
<1>3. k = n
  <2>1. k \in Nat /\ requests \in Nat /\ k < requests /\ n < requests
    BY <1>2 DEF TypeInv, Numbered
  <2>2. n % SeqMod = k % SeqMod /\ requests - n <= SeqMod /\ requests - k <= SeqMod
    BY <1>2, <2>1, Sizes DEF Numbered
  <2>3. CASE n <= k
    <3>1. k - n < SeqMod
      BY <2>1, <2>2, Sizes
    <3> QED
      BY <2>1, <2>2, <2>3, <3>1, Sizes, ModWindow
  <2>4. CASE k <= n
    <3>1. n - k < SeqMod
      BY <2>1, <2>2, Sizes
    <3> QED
      BY <2>1, <2>2, <2>4, <3>1, Sizes, ModWindow
  <2> QED
    BY <2>1, <2>3, <2>4
<1> QED
  BY <1>1, <1>2, <1>3 DEF Numbered

(* The kinds of steps.                                                     *)
LEMMA NextCases ==
  ASSUME [Next]_vars
  PROVE  \/ Tick \/ BoardRx \/ BoardQueue \/ BoardSend \/ HandleResp
         \/ LoseReq \/ LoseResp \/ ClockStep \/ Reboot \/ UNCHANGED vars
BY DEF Next

(* An answer is left aside or taken into the filter.                       *)
LEMMA HandleCases ==
  ASSUME HandleResp
  PROVE  \/ UNCHANGED <<offset, taken, close>>
         \/ LET f == Head(toHost)
                t0 == T0Of(f.seq)
            IN  /\ t0 # 0
                /\ offset' = Filtered(offset, Offset(t0, f.t1, f.t2, now))
                /\ taken' = [n |-> f.n, sentAt |-> f.t0, skew |-> f.skew,
                             t0 |-> t0, t1 |-> f.t1, t2 |-> f.t2, t3 |-> now]
                /\ Settle(offset', Rtt(t0, f.t1, f.t2, now))
BY DEF HandleResp, est

(* What the handling of an answer assigns.                                 *)
LEMMA HandleType ==
  ASSUME TypeInv, HandleResp
  PROVE  /\ offset' \in Int /\ taken' \in {None} \cup Exchanges /\ settled' \in BOOLEAN /\ longest' \in Nat
<1> DEFINE f == Head(toHost)
           t0 == T0Of(f.seq)
<1>1. f \in Answers
  BY FramesTail DEF HandleResp, TypeInv
<1>2. f.n \in Nat /\ f.t0 \in Nat /\ f.t1 \in Int /\ f.t2 \in Int /\ f.skew \in Int /\ t0 \in Nat
  BY <1>1, T0Nat DEF Answers
<1> HIDE DEF f, t0
<1>3. CASE UNCHANGED <<offset, taken, close>>
  BY <1>3 DEF TypeInv, close
<1>4. CASE /\ offset' = Filtered(offset, Offset(t0, f.t1, f.t2, now))
           /\ taken' = [n |-> f.n, sentAt |-> f.t0, skew |-> f.skew,
                        t0 |-> t0, t1 |-> f.t1, t2 |-> f.t2, t3 |-> now]
           /\ Settle(offset', Rtt(t0, f.t1, f.t2, now))
  <2>1. Offset(t0, f.t1, f.t2, now) \in Int
    <3>1. (f.t1 - t0) + (f.t2 - now) \in Int
      BY <1>2 DEF TypeInv
    <3> QED
      BY <3>1, TruncHalf DEF Offset
  <2>2. offset' \in Int
    <3> DEFINE o == Offset(t0, f.t1, f.t2, now)
    <3>1. o \in Int /\ offset \in Int /\ offset' = TruncDiv(offset * 9 + o, 10)
      BY <1>4, <2>1 DEF Filtered, TypeInv
    <3> HIDE DEF o
    <3> QED
      BY <3>1, TruncTenth
  <2>3. taken' \in Exchanges
    BY <1>2, <1>4 DEF Exchanges, TypeInv
  <2>4. settled' \in BOOLEAN /\ longest' \in Nat
    <3> DEFINE rtt == Rtt(t0, f.t1, f.t2, now)
    <3>1. rtt \in Int
      BY <1>2 DEF Rtt, TypeInv
    <3> HIDE DEF rtt
    <3> QED
      BY <1>4, <3>1 DEF rtt, Settle, TypeInv
  <2> QED
    BY <2>2, <2>3, <2>4
<1> QED
  BY HandleCases, <1>3, <1>4 DEF f, t0

LEMMA TypeStep ==
  ASSUME TypeInv, [Next]_vars
  PROVE  TypeInv'
<1> USE DEF TypeInv, host, board, est, close
<1>1. CASE Tick
  <2>1. requests % SeqMod \in Nat /\ requests % HistSize \in 0..(HistSize - 1)
    BY Sizes, DivMod
  <2>2. Frame \in Requests
    BY <2>1 DEF Frame, Requests
  <2>3. hist' \in [0..(HistSize - 1) -> [seq : Nat, t0 : Nat]]
    BY <1>1, <2>1 DEF Tick
  <2>4. toBoard' \in Seq(Requests)
    BY <1>1, <2>2, FramesAppend DEF Tick
  <2> QED
    BY <1>1, <2>3, <2>4 DEF Tick
<1>2. CASE BoardRx
  <2>1. Head(toBoard) \in Requests /\ Tail(toBoard) \in Seq(Requests)
    BY <1>2, FramesTail DEF BoardRx
  <2>2. rxReq' \in Stamped
    BY <1>2, <2>1 DEF BoardRx, Requests, Stamped
  <2> QED
    BY <1>2, <2>1, <2>2 DEF BoardRx
<1>3. CASE BoardQueue
  <2>1. rxReq \in Stamped
    BY <1>3 DEF BoardQueue
  <2>2. Answer(rxReq) \in Answers
    BY <2>1 DEF Answer, Stamped, Answers
  <2> QED
    BY <1>3, <2>2 DEF BoardQueue
<1>4. CASE BoardSend
  BY <1>4, FramesAppend DEF BoardSend
<1>5. CASE HandleResp
  <2>1. Tail(toHost) \in Seq(Answers)
    BY <1>5, FramesTail DEF HandleResp
  <2> QED
    BY <1>5, <2>1, HandleType DEF HandleResp
<1>6. CASE LoseReq
  BY <1>6, FramesTail DEF LoseReq
<1>7. CASE LoseResp
  BY <1>7, FramesTail DEF LoseResp
<1>8. CASE ClockStep
  BY <1>8 DEF ClockStep
<1>9. CASE Reboot
  <2>1. -now \in Int
    OBVIOUS
  <2> QED
    BY <1>9, <2>1 DEF Reboot
<1>10. CASE UNCHANGED vars
  BY <1>10 DEF vars
<1> QED
  BY NextCases, <1>1, <1>2, <1>3, <1>4, <1>5, <1>6, <1>7, <1>8, <1>9, <1>10

-----------------------------------------------------------------------------
(* The history after a request: what was sent before keeps its entry until *)
(* the request that takes its place.                                       *)
LEMMA NumberedTick ==
  ASSUME TypeInv, Tick, NEW n \in Nat, NEW seq, NEW t0,
         Numbered(n, seq, t0), requests - n < SeqMod
  PROVE  Numbered(n, seq, t0)'
<1>1. /\ requests \in Nat /\ requests' = requests + 1 /\ now' = now /\ n < requests
      /\ hist' = [hist EXCEPT ![requests % HistSize] = [seq |-> requests % SeqMod, t0 |-> now]]
  BY DEF Tick, TypeInv, Numbered
<1>2. requests' - n <= HistSize => hist'[n % HistSize].t0 = t0
  <2> SUFFICES ASSUME requests' - n <= HistSize PROVE hist'[n % HistSize].t0 = t0
    OBVIOUS
  <2>1. requests - n < HistSize /\ n <= requests /\ n # requests
    BY <1>1, Sizes
  <2>2. n % HistSize # requests % HistSize
    BY <1>1, <2>1, Sizes, ModWindow
  <2>3. n % HistSize \in 0..(HistSize - 1) /\ DOMAIN hist = 0..(HistSize - 1)
    BY Sizes, DivMod DEF TypeInv
  <2>4. hist'[n % HistSize] = hist[n % HistSize]
    BY <1>1, <2>2, <2>3
  <2> QED
    BY <1>1, <2>1, <2>4, Sizes DEF Numbered
<1> QED
  BY <1>1, <1>2, Sizes DEF Numbered

(* A new request has the newest number.                                    *)
LEMMA NumberedNew ==
  ASSUME TypeInv, Tick, NEW n, NEW seq, NEW t0, n = requests, seq = requests % SeqMod, t0 = now
  PROVE  Numbered(n, seq, t0)'
<1>1. /\ requests \in Nat /\ requests' = requests + 1 /\ now' = now /\ now \in Nat
      /\ hist' = [hist EXCEPT ![requests % HistSize] = [seq |-> requests % SeqMod, t0 |-> now]]
  BY DEF Tick, TypeInv
<1>2. requests % HistSize \in DOMAIN hist
  BY Sizes, DivMod DEF TypeInv
<1>3. hist'[requests % HistSize].t0 = now
  BY <1>1, <1>2
<1> QED
  BY <1>1, <1>3, Sizes DEF Numbered

(* The number of an older one stays right as time passes.                  *)
LEMMA NumberedKept ==
  ASSUME TypeInv, TypeInv', UNCHANGED <<requests, hist>>, now <= now',
         NEW n, NEW seq, NEW t0 \in Nat, Numbered(n, seq, t0)
  PROVE  Numbered(n, seq, t0)'
BY DEF Numbered, TypeInv

(* Apart from new requests, frames come from frames that were under way.   *)
LEMMA Origins ==
  ASSUME TypeInv, [Next]_vars, ~Tick, NEW f \in InFlight'
  PROVE  \E g \in InFlight : f.n = g.n /\ f.seq = g.seq /\ f.t0 = g.t0
<1> USE DEF host, board, est
<1>1. CASE BoardRx
  <2>1. Head(toBoard) \in FramesOf(toBoard) /\ FramesOf(toBoard') \subseteq FramesOf(toBoard)
    BY <1>1, FramesTail DEF BoardRx, TypeInv
  <2>2. CASE f \in FramesOf(toBoard') \cup Responses'
    BY <1>1, <2>1, <2>2 DEF BoardRx, InFlight, Requested, Responses
  <2>3. CASE f = rxReq'
    <3>1. f.n = Head(toBoard).n /\ f.seq = Head(toBoard).seq /\ f.t0 = Head(toBoard).t0
      BY <1>1, <2>3 DEF BoardRx
    <3> QED
      BY <2>1, <3>1 DEF InFlight, Requested
  <2> QED
    BY <2>2, <2>3 DEF InFlight, Requested
<1>2. CASE BoardQueue
  <2>1. CASE f \in FramesOf(toBoard) \cup FramesOf(toHost)
    BY <2>1 DEF InFlight, Requested, Responses
  <2>2. CASE f = slot'
    <3>1. f.n = rxReq.n /\ f.seq = rxReq.seq /\ f.t0 = rxReq.t0
      BY <1>2, <2>2 DEF BoardQueue, Answer
    <3> QED
      BY <1>2, <3>1 DEF BoardQueue, InFlight, Requested
  <2> QED
    BY <1>2, <2>1, <2>2 DEF BoardQueue, InFlight, Requested, Responses
<1>3. CASE BoardSend
  <2>1. FramesOf(toHost') = FramesOf(toHost) \cup {slot}
    BY <1>3, FramesAppend, Shapes DEF BoardSend, TypeInv
  <2> QED
    BY <1>3, <2>1 DEF BoardSend, InFlight, Requested, Responses
<1>4. CASE HandleResp \/ LoseResp
  <2>1. FramesOf(toHost') \subseteq FramesOf(toHost)
    BY <1>4, FramesTail DEF HandleResp, LoseResp, TypeInv
  <2> QED
    BY <1>4, <2>1 DEF HandleResp, LoseResp, InFlight, Requested, Responses
<1>5. CASE LoseReq
  <2>1. FramesOf(toBoard') \subseteq FramesOf(toBoard)
    BY <1>5, FramesTail DEF LoseReq, TypeInv
  <2> QED
    BY <1>5, <2>1 DEF LoseReq, InFlight, Requested, Responses
<1>6. CASE Reboot
  BY <1>6 DEF Reboot, InFlight, Requested, Responses
<1>7. CASE ClockStep \/ UNCHANGED vars
  BY <1>7 DEF ClockStep, vars, InFlight, Requested, Responses
<1> QED
  BY NextCases, <1>1, <1>2, <1>3, <1>4, <1>5, <1>6, <1>7

(* Only Tick touches the history.                                          *)
LEMMA Kept ==
  ASSUME TypeInv, [Next]_vars, ~Tick
  PROVE  UNCHANGED <<requests, hist>> /\ now <= now'
<1>1. CASE ClockStep
  BY <1>1 DEF ClockStep, host, TypeInv
<1>2. CASE UNCHANGED host /\ now' = now
  BY <1>2 DEF host, TypeInv
<1> QED
  BY NextCases, <1>1, <1>2
     DEF BoardRx, BoardQueue, BoardSend, HandleResp, LoseReq, LoseResp, Reboot, vars

(* Frames under way carry the number and the time of their request.        *)
LEMMA FrameStep ==
  ASSUME TypeInv, TypeInv', FrameInv, [Next]_vars
  PROVE  FrameInv'
<1> SUFFICES ASSUME NEW f \in InFlight' PROVE Numbered(f.n, f.seq, f.t0)'
  BY DEF FrameInv
<1>1. CASE Tick
  <2>1. Frame \in Requests /\ FramesOf(toBoard') = FramesOf(toBoard) \cup {Frame}
    <3>1. requests % SeqMod \in Nat
      BY Sizes, DivMod DEF TypeInv
    <3>2. Frame \in Requests
      BY <3>1 DEF Frame, Requests, TypeInv
    <3> QED
      BY <1>1, <3>2, FramesAppend DEF Tick, TypeInv
  <2>2. InFlight' = InFlight \cup {Frame}
    BY <1>1, <2>1 DEF Tick, InFlight, Requested, Responses, board
  <2>3. CASE f \in InFlight
    <3>1. f.n \in Nat /\ requests - f.n < SeqMod /\ Numbered(f.n, f.seq, f.t0)
      BY <1>1, <2>3, Shapes DEF Tick, FrameLife, FrameInv
    <3> QED
      BY <1>1, <3>1, NumberedTick
  <2>4. CASE f = Frame
    <3>1. f.n = requests /\ f.seq = requests % SeqMod /\ f.t0 = now
      BY <2>4 DEF Frame
    <3> QED
      BY <1>1, <3>1, NumberedNew
  <2> QED
    BY <2>2, <2>3, <2>4
<1>2. CASE ~Tick
  <2>1. PICK g \in InFlight : f.n = g.n /\ f.seq = g.seq /\ f.t0 = g.t0
    BY <1>2, Origins
  <2>2. Numbered(g.n, g.seq, g.t0) /\ g.t0 \in Nat
    BY Shapes DEF FrameInv
  <2>3. Numbered(g.n, g.seq, g.t0)'
    BY <1>2, <2>2, Kept, NumberedKept
  <2> QED
    BY <2>1, <2>3
<1> QED
  BY <1>1, <1>2

(* An entry of the history holds the time of the last request with its     *)
(* number.                                                                 *)
LEMMA HistStep ==
  ASSUME TypeInv, HistInv, [Next]_vars
  PROVE  HistInv'
<1>1. CASE Tick
  <2> DEFINE r == requests % HistSize
  <2>1. /\ requests \in Nat /\ requests' = requests + 1
        /\ hist' = [hist EXCEPT ![r] = [seq |-> requests % SeqMod, t0 |-> now]]
        /\ DOMAIN hist = 0..(HistSize - 1)
    BY <1>1 DEF Tick, TypeInv
  <2> SUFFICES ASSUME NEW i \in 0..(HistSize - 1), hist'[i].t0 # 0
               PROVE  \E n \in 0..(requests' - 1) :
                        requests' - n <= HistSize /\ i = n % HistSize /\ hist'[i].seq = n % SeqMod
    BY DEF HistInv
  <2>2. CASE i = r
    <3>1. hist'[i].seq = requests % SeqMod
      BY <2>1, <2>2
    <3>2. requests \in 0..(requests' - 1) /\ requests' - requests <= HistSize
      BY <2>1, Sizes
    <3> QED
      BY <2>2, <3>1, <3>2
  <2>3. CASE i # r
    <3>1. hist'[i] = hist[i]
      BY <2>1, <2>3
    <3>2. PICK n \in 0..(requests - 1) :
            requests - n <= HistSize /\ i = n % HistSize /\ hist[i].seq = n % SeqMod
      BY <3>1 DEF HistInv
    <3>3. requests - n # HistSize
      <4> SUFFICES ASSUME requests - n = HistSize PROVE FALSE
        OBVIOUS
      <4>1. n \in Nat /\ requests = n + HistSize
        BY <2>1, <3>2, Sizes
      <4>2. r = n % HistSize
        BY <4>1, Sizes, ModShift
      <4> QED
        BY <2>3, <3>2, <4>2
    <3>4. n \in 0..(requests' - 1) /\ requests' - n <= HistSize
      BY <2>1, <3>2, <3>3, Sizes
    <3> QED
      BY <3>1, <3>2, <3>4
  <2> QED
    BY <2>2, <2>3
<1>2. CASE ~Tick
  BY <1>2, Kept DEF HistInv
<1> QED
  BY <1>1, <1>2

-----------------------------------------------------------------------------
LEMMA OrderKept ==
  ASSUME NEW f \in Answers, NEW t \in Nat, NEW u \in Nat, InOrder(f, t), t <= u
  PROVE  InOrder(f, u)
BY DEF InOrder, Answers

(* The four times of an exchange are in order on one clock.                *)
LEMMA TimesStep ==
  ASSUME TypeInv, TypeInv', FrameInv, TimesInv, [Next]_vars
  PROVE  TimesInv'
<1> USE DEF host, board, est
<1>1. CASE BoardRx
  <2>1. /\ rxReq'.t0 = Head(toBoard).t0 /\ rxReq'.t1 = now + skew
        /\ UNCHANGED <<now, skew, slot, toHost>>
    BY <1>1 DEF BoardRx
  <2>2. Head(toBoard) \in InFlight
    BY <1>1, FramesTail DEF BoardRx, TypeInv, InFlight, Requested
  <2>3. Head(toBoard).t0 \in Nat /\ Head(toBoard).t0 <= now /\ now \in Nat /\ skew \in Int
    BY <2>2, Shapes DEF FrameInv, Numbered, TypeInv
  <2>4. rxReq'.t0 <= rxReq'.t1 - skew' /\ rxReq'.t1 - skew' <= now'
    BY <2>1, <2>3
  <2> QED
    BY <2>1, <2>4 DEF TimesInv, Responses
<1>2. CASE BoardQueue
  <2> DEFINE a == Answer(rxReq)
  <2>1. rxReq # None /\ rxReq' = None /\ slot' = a /\ UNCHANGED <<now, skew, toHost>>
    BY <1>2 DEF BoardQueue
  <2>2. /\ a.skew = skew /\ a.t0 = rxReq.t0 /\ a.t1 = rxReq.t1 /\ a.t2 = now + skew
    BY DEF Answer
  <2>3. rxReq.t0 \in Nat /\ rxReq.t1 \in Int /\ now \in Nat /\ skew \in Int
    BY <2>1, Shapes DEF TypeInv, Stamped
  <2>4. rxReq.t0 <= rxReq.t1 - skew /\ rxReq.t1 - skew <= now
    BY <2>1 DEF TimesInv
  <2> HIDE DEF a
  <2>5. InOrder(a, now)
    BY <2>2, <2>3, <2>4 DEF InOrder
  <2>6. Responses' \subseteq Responses \cup {a}
    BY <2>1 DEF Responses
  <2> QED
    BY <2>1, <2>2, <2>5, <2>6 DEF TimesInv
<1>3. CASE BoardSend
  <2>1. FramesOf(toHost') = FramesOf(toHost) \cup {slot}
    BY <1>3, FramesAppend, Shapes DEF BoardSend, TypeInv
  <2>2. Responses' \subseteq Responses
    BY <1>3, <2>1 DEF BoardSend, Responses
  <2> QED
    BY <1>3, <2>2 DEF BoardSend, TimesInv
<1>4. CASE HandleResp \/ LoseResp
  <2>1. FramesOf(toHost') \subseteq FramesOf(toHost)
    BY <1>4, FramesTail DEF HandleResp, LoseResp, TypeInv
  <2>2. Responses' \subseteq Responses /\ UNCHANGED <<rxReq, slot, skew, now>>
    BY <1>4, <2>1 DEF HandleResp, LoseResp, Responses
  <2> QED
    BY <2>2 DEF TimesInv
<1>5. CASE Reboot
  <2>1. Responses' \subseteq Responses /\ rxReq' = None /\ slot' = None /\ now' = now
    BY <1>5 DEF Reboot, Responses
  <2> QED
    BY <2>1 DEF TimesInv
<1>6. CASE ClockStep
  <2>1. /\ UNCHANGED <<rxReq, slot, skew, Responses>> /\ now' = now + 1
        /\ now \in Nat /\ now' \in Nat /\ skew \in Int
    BY <1>6 DEF ClockStep, Responses, TypeInv
  <2>2. \A f \in Responses : InOrder(f, now')
    BY <2>1, OrderKept, Shapes DEF TimesInv
  <2>3. rxReq # None => rxReq.t1 \in Int
    BY Shapes DEF Stamped
  <2>4. rxReq # None => rxReq.t1 - skew <= now'
    BY <2>1, <2>3 DEF TimesInv
  <2> QED
    BY <2>1, <2>2, <2>4 DEF TimesInv
<1>7. CASE UNCHANGED <<rxReq, slot, skew, now, toHost>>
  BY <1>7 DEF TimesInv, Responses
<1> QED
  BY NextCases, <1>1, <1>2, <1>3, <1>4, <1>5, <1>6, <1>7 DEF Tick, LoseReq, vars

(* The answer the filter takes is judged by its own request.               *)
LEMMA Taking ==
  ASSUME TypeInv, FrameInv, HistInv, TimesInv, toHost # <<>>, T0Of(Head(toHost).seq) # 0
  PROVE  /\ Head(toHost) \in Answers /\ Head(toHost) \in FramesOf(toHost)
         /\ T0Of(Head(toHost).seq) = Head(toHost).t0
         /\ InOrder(Head(toHost), now)
<1>1. Head(toHost) \in Answers /\ Head(toHost) \in FramesOf(toHost)
  BY FramesTail DEF TypeInv
<1>2. Head(toHost) \in InFlight /\ Head(toHost) \in Responses
  BY <1>1 DEF InFlight, Responses
<1>3. T0Of(Head(toHost).seq) = Head(toHost).t0
  BY <1>2, Shapes, T0Right DEF FrameInv
<1> QED
  BY <1>1, <1>2, <1>3 DEF TimesInv

(* A sample belongs to its request, and its four times are in order.       *)
LEMMA TakenStep ==
  ASSUME TypeInv, FrameInv, HistInv, TimesInv, TakenInv, [Next]_vars
  PROVE  TakenInv'
<1>1. CASE HandleResp
  <2> DEFINE f == Head(toHost)
             t0 == T0Of(f.seq)
  <2>1. CASE UNCHANGED <<offset, taken, close>>
    BY <2>1 DEF TakenInv, InOrder
  <2>2. CASE /\ t0 # 0
             /\ taken' = [n |-> f.n, sentAt |-> f.t0, skew |-> f.skew,
                          t0 |-> t0, t1 |-> f.t1, t2 |-> f.t2, t3 |-> now]
    <3>1. t0 = f.t0 /\ InOrder(f, now)
      BY <1>1, <2>2, Taking DEF HandleResp
    <3> HIDE DEF f, t0
    <3> QED
      BY <2>2, <3>1 DEF TakenInv, InOrder
  <2> QED
    BY <1>1, <2>1, <2>2, HandleCases
<1>2. CASE UNCHANGED taken
  BY <1>2 DEF TakenInv, InOrder
<1> QED
  BY NextCases, <1>1, <1>2
     DEF Tick, BoardRx, BoardQueue, BoardSend, LoseReq, LoseResp, ClockStep, Reboot, vars, est

(* Filtering keeps a settled offset within the bound.                      *)
LEMMA CloseStep ==
  ASSUME TypeInv, FrameInv, HistInv, TimesInv, CloseInv, [Next]_vars
  PROVE  CloseInv'
<1> USE DEF host, board, est, close
<1>1. CASE HandleResp
  <2> DEFINE f == Head(toHost)
             t0 == T0Of(f.seq)
             o == Offset(t0, f.t1, f.t2, now)
             rtt == Rtt(t0, f.t1, f.t2, now)
  <2>1. FramesOf(toHost') \subseteq FramesOf(toHost) /\ UNCHANGED skew
    BY <1>1, FramesTail DEF HandleResp, TypeInv
  <2>2. CASE UNCHANGED <<offset, taken, close>>
    BY <2>1, <2>2 DEF CloseInv
  <2>3. CASE t0 # 0 /\ offset' = Filtered(offset, o) /\ Settle(offset', rtt)
    <3>1. f \in FramesOf(toHost) /\ f \in Answers /\ t0 = f.t0 /\ InOrder(f, now)
      BY <1>1, <2>3, Taking DEF HandleResp
    <3>2. /\ t0 \in Int /\ f.t1 \in Int /\ f.t2 \in Int /\ f.skew \in Int /\ now \in Int
          /\ t0 <= f.t1 - f.skew /\ f.t1 <= f.t2 /\ f.t2 - f.skew <= now
      <4>1. f.t0 \in Nat /\ f.t1 \in Int /\ f.t2 \in Int /\ f.skew \in Int /\ now \in Nat
        BY <3>1 DEF Answers, TypeInv
      <4>2. f.t0 <= f.t1 - f.skew /\ f.t1 <= f.t2 /\ f.t2 - f.skew <= now
        BY <3>1 DEF InOrder
      <4> HIDE DEF f, t0
      <4> QED
        BY <3>1, <4>1, <4>2
    <3> HIDE DEF f, t0
    <3>3. rtt \in Nat
      <4>1. rtt = (now - t0) - (f.t2 - f.t1)
        BY <3>2 DEF Rtt
      <4> QED
        BY <3>2, <4>1
    <3>4. o \in Int /\ 2 * Abs(o - f.skew) <= rtt + 1
      BY <3>2, OffsetBound, Zenon
    <3> HIDE DEF o, rtt
    <3>5. CASE settled
      <4>1. f.skew = skew
        BY <3>1, <3>5 DEF CloseInv
      <4>2. settled' /\ longest' \in Nat /\ longest <= longest' /\ rtt <= longest'
        <5>1. settled'
          BY <2>3, <3>5 DEF Settle
        <5>2. longest' = IF rtt > longest THEN rtt ELSE longest
          BY <2>3, <5>1 DEF Settle
        <5> QED
          BY <3>3, <5>1, <5>2 DEF TypeInv
      <4>3. skew \in Int /\ offset \in Int /\ longest \in Nat /\ Abs(offset - skew) <= Margin(longest)
        BY <3>5 DEF CloseInv, TypeInv
      <4>4. 2 * Abs(o - skew) <= longest' + 1
        <5>1. Abs(o - skew) \in Int
          BY <3>4, <4>3 DEF Abs
        <5> QED
          BY <3>3, <3>4, <4>1, <4>2, <5>1
      <4>5. Abs(Filtered(offset, o) - skew) <= Margin(longest')
        BY <3>4, <4>2, <4>3, <4>4, FilterBound
      <4> QED
        BY <2>1, <2>3, <3>5, <4>5 DEF CloseInv
    <3>6. CASE ~settled
      <4> SUFFICES ASSUME settled' PROVE CloseInv'
        BY DEF CloseInv
      <4>1. IsClose(offset', rtt)
        BY <2>3, <3>6 DEF Settle
      <4>2. longest' \in Nat /\ rtt <= longest'
        BY <2>3, <3>3 DEF Settle, TypeInv
      <4>3. Margin(rtt) <= Margin(longest') /\ Margin(rtt) \in Int /\ Margin(longest') \in Int
        BY <3>3, <4>2 DEF Margin
      <4>4. Abs(offset' - skew) <= Margin(rtt) /\ Abs(offset' - skew) \in Int
        <5>1. offset' \in Int /\ skew \in Int
          BY <1>1, HandleType DEF TypeInv
        <5>2. Abs(offset' - skew) \in Int
          <6> DEFINE x == offset' - skew
          <6>1. x \in Int
            BY <5>1
          <6> HIDE DEF x
          <6>2. Abs(x) \in Int
            BY <6>1 DEF Abs
          <6> QED
            BY <6>2 DEF x
        <5> QED
          BY <4>1, <5>2 DEF IsClose
      <4>5. Abs(offset' - skew) <= Margin(longest')
        BY <4>3, <4>4
      <4>6. \A g \in FramesOf(toHost) : g.skew = skew
        BY <4>1 DEF IsClose
      <4> QED
        BY <2>1, <4>5, <4>6 DEF CloseInv
    <3> QED
      BY <3>5, <3>6
  <2> HIDE DEF f, t0, o, rtt
  <2> QED
    BY <1>1, <2>2, <2>3, HandleCases DEF f, t0, o, rtt
<1>2. CASE BoardSend
  <2>1. FramesOf(toHost') = FramesOf(toHost) \cup {slot} /\ slot.skew = skew
    BY <1>2, FramesAppend, Shapes DEF BoardSend, TypeInv, TimesInv
  <2> QED
    BY <1>2, <2>1 DEF BoardSend, CloseInv
<1>3. CASE LoseResp
  <2>1. FramesOf(toHost') \subseteq FramesOf(toHost)
    BY <1>3, FramesTail DEF LoseResp, TypeInv
  <2> QED
    BY <1>3, <2>1 DEF LoseResp, CloseInv
<1>4. CASE Reboot
  BY <1>4 DEF Reboot, CloseInv
<1>5. CASE UNCHANGED <<skew, toHost, offset, close>>
  BY <1>5 DEF CloseInv
<1> QED
  BY NextCases, <1>1, <1>2, <1>3, <1>4, <1>5
     DEF Tick, BoardRx, BoardQueue, LoseReq, ClockStep, vars

-----------------------------------------------------------------------------
LEMMA InitInv == Init => IInv
<1> SUFFICES ASSUME Init PROVE IInv
  OBVIOUS
<1>1. TypeInv
  BY SyncAssumption DEF Init, TypeInv
<1>2. InFlight = {} /\ Responses = {} /\ FramesOf(toHost) = {}
  BY DEF Init, InFlight, Requested, Responses, FramesOf
<1>3. HistInv
  BY DEF Init, HistInv
<1> QED
  BY <1>1, <1>2, <1>3 DEF Init, IInv, FrameInv, TimesInv, TakenInv, CloseInv

(* The invariant holds in every reachable state.                           *)
THEOREM InvCorrect == Spec => []IInv
<1>1. IInv /\ [Next]_vars => IInv'
  BY TypeStep, FrameStep, HistStep, TimesStep, TakenStep, CloseStep DEF IInv
<1> QED
  BY InitInv, <1>1, PTL DEF Spec

(* An answer is judged by its own request, for any size of the history and *)
(* any range of the sequence numbers that is larger.                       *)
THEOREM RightRequestCorrect == Spec => []RightRequest
<1>1. IInv => RightRequest
  BY DEF IInv, TakenInv, RightRequest
<1> QED
  BY <1>1, InvCorrect, PTL

(* Half of the time on the way bounds the error of every sample.           *)
THEOREM SampleBoundCorrect == Spec => []SampleBound
<1>1. IInv => SampleBound
  <2> SUFFICES ASSUME IInv, taken # None
               PROVE  2 * Abs(Offset(taken.t0, taken.t1, taken.t2, taken.t3) - taken.skew)
                        <= Rtt(taken.t0, taken.t1, taken.t2, taken.t3) + 1
    BY DEF SampleBound
  <2>1. /\ taken.t0 \in Int /\ taken.t1 \in Int /\ taken.t2 \in Int /\ taken.t3 \in Int
        /\ taken.skew \in Int
    BY Shapes DEF IInv, Exchanges
  <2>2. InOrder(taken, taken.t3)
    BY DEF IInv, TakenInv
  <2> QED
    BY <2>1, <2>2, OffsetBound DEF InOrder
<1> QED
  BY <1>1, InvCorrect, PTL

(* A mapping that has come close to the board's clock stays close, to half *)
(* of the longest round trip since then, whatever MaxRtt lets through.     *)
THEOREM StaysCloseCorrect == Spec => []StaysClose
<1>1. IInv => StaysClose
  <2> SUFFICES ASSUME IInv, settled
               PROVE  Abs(DeviceToHost(now + skew) - now) <= Margin(longest)
    BY DEF StaysClose
  <2>1. now \in Nat /\ skew \in Int /\ offset \in Int /\ Abs(offset - skew) <= Margin(longest)
    BY DEF IInv, TypeInv, CloseInv
  <2>2. DeviceToHost(now + skew) - now = -(offset - skew)
    BY <2>1 DEF DeviceToHost
  <2>3. Abs(-(offset - skew)) = Abs(offset - skew)
    BY <2>1 DEF Abs
  <2> QED
    BY <2>1, <2>2, <2>3
<1> QED
  BY <1>1, InvCorrect, PTL
=============================================================================
