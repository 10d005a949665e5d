----------------------------- MODULE LinkProofs ------------------------------
(***************************************************************************)
(* Proofs about the receiving side of the DM02 link, in the two steps in   *)
(* which it is modelled.  UprotoRx, for any sizes of buffer, header and    *)
(* payload: the bytes become frames in the order they were sent in, the    *)
(* buffer holds, and no more frames are lost than a damaged header can     *)
(* swallow.  Dm02Link, for any capacity of the queue: which of the poses   *)
(* received q(t) uses, whatever the io thread does to the queue between    *)
(* the pop and the front.                                                  *)
(***************************************************************************)
EXTENDS UprotoRx, Dm02Link, FiniteSetTheorems, SequenceTheorems, WellFoundedInduction, TLAPS

Byte == [v : Nat, of : Nat, at : Nat]

(* A byte of a later frame, or a later byte of the same; bytes the line    *)
(* made up stand anywhere.                                                 *)
Before(x, y) == x.of = 0 \/ y.of = 0 \/ x.of < y.of \/ (x.of = y.of /\ x.at < y.at)

(* Bytes in the order they were sent in, of frames up to top; the frames   *)
(* that begin among them are behind last.                                  *)
Chain(s, last, top) ==
  /\ s \in Seq(Byte)
  /\ \A i \in 1..Len(s) :
       /\ s[i].of <= top
       /\ s[i].of # 0 /\ s[i].at = 1 => last < s[i].of
       /\ \A j \in 1..(i - 1) : Before(s[j], s[i])

LastHandled == Stream!Last

(* What is in the buffer and on the line is such a chain, behind the last  *)
(* frame handled, and the buffer holds.                                    *)
RxInv ==
  /\ sent \in Nat
  /\ handled \in Seq(Nat)
  /\ buf \in Seq(Byte) /\ line \in Seq(Byte)
  /\ Len(buf) <= BufSize
  /\ LastHandled <= sent
  /\ Chain(buf \o line, LastHandled, sent)

-----------------------------------------------------------------------------
(* t is what is left of s when n bytes are dropped.                        *)
From(t, s, n) ==
  /\ n \in 0..Len(s)
  /\ t \in Seq(Byte)
  /\ Len(t) = Len(s) - n
  /\ \A i \in 1..Len(t) : t[i] = s[n + i]

(* Dropping bytes leaves an end of the sequence, the empty one at worst.   *)
LEMMA DropFrom ==
  ASSUME NEW s \in Seq(Byte), NEW n \in Nat
  PROVE  \E k \in 0..Len(s) :
           /\ From(Drop(s, n), s, k)
           /\ n <= Len(s) => k = n
           /\ n >= 1 /\ s # <<>> => k >= 1
<1>1. PICK l \in Nat : l = Len(s)
  OBVIOUS
<1>2. CASE n <= l
  <2>1. \A i \in (n + 1)..l : s[i] \in Byte
    BY <1>1
  <2>2. PICK t : t = SubSeq(s, n + 1, l)
    OBVIOUS
  <2>3. /\ t \in Seq(Byte)
        /\ Len(t) = IF n + 1 <= l THEN l - (n + 1) + 1 ELSE 0
        /\ \A i \in 1..(l - (n + 1) + 1) : t[i] = s[(n + 1) + i - 1]
    BY <2>1, <2>2, SubSeqProperties
  <2>4. Len(t) = l - n
    BY <1>2, <2>3
  <2>5. ASSUME NEW i \in 1..Len(t) PROVE t[i] = s[n + i]
    <3>1. i \in 1..(l - (n + 1) + 1) /\ (n + 1) + i - 1 = n + i
      BY <2>4
    <3> QED
      BY <2>3, <3>1
  <2> QED
    BY <1>1, <1>2, <2>2, <2>3, <2>4, <2>5 DEF From, Drop
<1>3. CASE n > l
  <2>1. Drop(s, n) = <<>>
    BY <1>1, <1>3, SubSeqEmpty DEF Drop
  <2>2. From(<<>>, s, l)
    BY <1>1 DEF From
  <2>3. s # <<>> => l >= 1
    BY <1>1
  <2> QED
    BY <1>1, <1>3, <2>1, <2>2, <2>3
<1> QED
  BY <1>2, <1>3

(* An end of an end is an end.                                             *)
LEMMA FromTrans ==
  ASSUME NEW s \in Seq(Byte), NEW t, NEW u, NEW m, NEW n, From(t, s, n), From(u, t, m)
  PROVE  From(u, s, n + m)
<1>0. t \in Seq(Byte) /\ u \in Seq(Byte)
  BY DEF From
<1>1. PICK a \in Nat, b \in Nat, c \in Nat : a = Len(s) /\ b = Len(t) /\ c = Len(u)
  BY <1>0
<1>2. n \in 0..a /\ m \in 0..b /\ b = a - n /\ c = b - m
  BY <1>1 DEF From
<1>3. n + m \in 0..a /\ c = a - (n + m)
  BY <1>2
<1>4. ASSUME NEW i \in 1..c PROVE u[i] = s[(n + m) + i]
  <2>1. m + i \in 1..b /\ n + (m + i) = (n + m) + i
    BY <1>2
  <2>2. u[i] = t[m + i] /\ t[m + i] = s[n + (m + i)]
    BY <1>1, <2>1 DEF From
  <2> QED
    BY <2>1, <2>2
<1> QED
  BY <1>1, <1>3, <1>4 DEF From

(* What follows on the line stays behind the end that is left.             *)
LEMMA FromConcat ==
  ASSUME NEW s \in Seq(Byte), NEW l \in Seq(Byte), NEW t, NEW n, From(t, s, n)
  PROVE  From(t \o l, s \o l, n)
<1>0. t \in Seq(Byte)
  BY DEF From
<1>1. PICK a \in Nat, b \in Nat, c \in Nat : a = Len(s) /\ b = Len(t) /\ c = Len(l)
  BY <1>0
<1>2. n \in 0..a /\ b = a - n /\ \A i \in 1..b : t[i] = s[n + i]
  BY <1>1 DEF From
<1>3. PICK x, y : x = t \o l /\ y = s \o l
  OBVIOUS
<1>4. /\ x \in Seq(Byte) /\ Len(x) = b + c
      /\ \A i \in 1..(b + c) : x[i] = IF i <= b THEN t[i] ELSE l[i - b]
  BY <1>0, <1>1, <1>3, ConcatProperties
<1>5. /\ y \in Seq(Byte) /\ Len(y) = a + c
      /\ \A i \in 1..(a + c) : y[i] = IF i <= a THEN s[i] ELSE l[i - a]
  BY <1>1, <1>3, ConcatProperties
<1>6. ASSUME NEW i \in 1..(b + c) PROVE x[i] = y[n + i]
  <2>1. n + i \in 1..(a + c) /\ (i <= b <=> n + i <= a) /\ (n + i) - a = i - b
    BY <1>2
  <2>2. CASE i <= b
    BY <1>2, <1>4, <1>5, <2>1, <2>2
  <2>3. CASE ~(i <= b)
    BY <1>4, <1>5, <2>1, <2>3
  <2> QED
    BY <2>2, <2>3
<1>7. n \in 0..(a + c) /\ b + c = (a + c) - n
  BY <1>2
<1> QED
  BY <1>3, <1>4, <1>5, <1>6, <1>7 DEF From

(* Every byte of t is made up or one of s, in the same order: f tells      *)
(* which.                                                                  *)
Embeds(t, s, f) ==
  /\ \A i \in 1..Len(t) : t[i].of = 0 \/ (f[i] \in 1..Len(s) /\ t[i] = s[f[i]])
  /\ \A i \in 1..Len(t) : \A j \in 1..(i - 1) :
       t[i].of # 0 /\ t[j].of # 0 => f[j] \in Int /\ f[i] \in Int /\ f[j] < f[i]

(* Leaving bytes out, anywhere, keeps the others in order.                 *)
LEMMA ChainEmbeds ==
  ASSUME NEW s, NEW last, NEW top \in Nat, Chain(s, last, top),
         NEW t \in Seq(Byte), NEW f, Embeds(t, s, f)
  PROVE  Chain(t, last, top)
<1>1. ASSUME NEW i \in 1..Len(t)
      PROVE  t[i].of <= top /\ (t[i].of # 0 /\ t[i].at = 1 => last < t[i].of)
  BY DEF Chain, Embeds
<1>2. ASSUME NEW i \in 1..Len(t), NEW j \in 1..(i - 1) PROVE Before(t[j], t[i])
  <2>1. CASE t[i].of = 0 \/ t[j].of = 0
    BY <2>1 DEF Before
  <2>2. CASE ~(t[i].of = 0 \/ t[j].of = 0)
    <3>1. j \in 1..Len(t)
      OBVIOUS
    <3>2. /\ f[i] \in 1..Len(s) /\ t[i] = s[f[i]]
          /\ f[j] \in 1..Len(s) /\ t[j] = s[f[j]] /\ f[j] < f[i]
      BY <2>2, <3>1 DEF Embeds
    <3>3. f[j] \in 1..(f[i] - 1)
      BY <3>2
    <3> QED
      BY <3>2, <3>3 DEF Chain
  <2> QED
    BY <2>1, <2>2
<1> QED
  BY <1>1, <1>2 DEF Chain

(* In particular dropping them at the front.                               *)
LEMMA ChainFrom ==
  ASSUME NEW s, NEW last, NEW top \in Nat, Chain(s, last, top), NEW t, NEW n, From(t, s, n)
  PROVE  Chain(t, last, top)
<1>0. s \in Seq(Byte) /\ t \in Seq(Byte)
  BY DEF Chain, From
<1>1. PICK a \in Nat, b \in Nat : a = Len(s) /\ b = Len(t)
  BY <1>0
<1>2. n \in 0..a /\ b = a - n /\ \A i \in 1..b : t[i] = s[n + i]
  BY <1>1 DEF From
<1>3. PICK f : f = [i \in 1..b |-> n + i]
  OBVIOUS
<1>4. \A i \in 1..b : f[i] = n + i
  BY <1>3
<1>5. \A i \in 1..b : t[i].of = 0 \/ (f[i] \in 1..a /\ t[i] = s[f[i]])
  BY <1>2, <1>4
<1>6. \A i \in 1..b : \A j \in 1..(i - 1) : f[j] \in Int /\ f[i] \in Int /\ f[j] < f[i]
  BY <1>2, <1>4
<1> QED
  BY <1>0, <1>1, <1>5, <1>6, ChainEmbeds DEF Embeds

(* When the first byte begins a frame that is handled, all frames that     *)
(* begin behind it are later ones.                                         *)
LEMMA ChainTake ==
  ASSUME NEW s, NEW last, NEW top \in Nat, Chain(s, last, top), NEW t, NEW n, From(t, s, n),
         n >= 1, s[1].of # 0, s[1].at = 1
  PROVE  Chain(t, s[1].of, top)
<1>0. s \in Seq(Byte) /\ t \in Seq(Byte)
  BY DEF Chain, From
<1>1. PICK a \in Nat, b \in Nat : a = Len(s) /\ b = Len(t)
  BY <1>0
<1>2. n \in 1..a /\ b = a - n /\ \A i \in 1..b : t[i] = s[n + i]
  BY <1>1 DEF From
<1>3. ASSUME NEW i \in 1..b, t[i].of # 0, t[i].at = 1 PROVE s[1].of < t[i].of
  <2>1. n + i \in 1..a /\ 1 \in 1..((n + i) - 1)
    BY <1>2
  <2>2. Before(s[1], s[n + i]) /\ t[i] = s[n + i]
    BY <1>1, <1>2, <2>1 DEF Chain
  <2>3. s[1].at = 1 /\ s[1].of \in Nat /\ t[i].of \in Nat
    <3>1. 1 \in 1..a
      BY <1>2
    <3>2. s[1] \in Byte /\ t[i] \in Byte
      BY <1>0, <1>1, <3>1
    <3> QED
      BY <3>2 DEF Byte
  <2> QED
    BY <1>3, <2>2, <2>3 DEF Before
<1>4. Chain(t, last, top)
  BY ChainFrom
<1> QED
  BY <1>1, <1>3, <1>4 DEF Chain

(* A new frame behind everything on the way.                               *)
LEMMA ChainSend ==
  ASSUME NEW s, NEW last \in Nat, NEW top \in Nat, last <= top, Chain(s, last, top),
         NEW e \in Seq(Byte), \A i \in 1..Len(e) : e[i].of = top + 1 /\ e[i].at = i
  PROVE  Chain(s \o e, last, top + 1)
<1>0. s \in Seq(Byte)
  BY DEF Chain
<1>1. PICK a \in Nat, b \in Nat : a = Len(s) /\ b = Len(e)
  BY <1>0
<1>2. PICK x : x = s \o e
  OBVIOUS
<1>3. /\ x \in Seq(Byte) /\ Len(x) = a + b
      /\ \A i \in 1..(a + b) : x[i] = IF i <= a THEN s[i] ELSE e[i - a]
  BY <1>0, <1>1, <1>2, ConcatProperties
<1>4. \A i \in 1..a : s[i].of \in Nat /\ s[i].of <= top /\ s[i].of <= top + 1 /\ s[i].of < top + 1
  <2>1. \A i \in 1..a : s[i] \in Byte /\ s[i].of <= top
    BY <1>0, <1>1 DEF Chain
  <2>2. \A i \in 1..a : s[i].of \in Nat
    BY <2>1 DEF Byte
  <2> QED
    BY <2>1, <2>2
<1>5. ASSUME NEW i \in 1..(a + b)
      PROVE  /\ x[i].of <= top + 1
             /\ x[i].of # 0 /\ x[i].at = 1 => last < x[i].of
             /\ \A j \in 1..(i - 1) : Before(x[j], x[i])
  <2>1. CASE i <= a
    <3>1. i \in 1..a /\ x[i] = s[i] /\ \A j \in 1..(i - 1) : x[j] = s[j]
      BY <1>3, <2>1
    <3> QED
      BY <1>1, <1>4, <3>1 DEF Chain
  <2>2. CASE ~(i <= a)
    <3>1. i - a \in 1..b /\ x[i] = e[i - a] /\ x[i].of = top + 1 /\ x[i].at = i - a
      BY <1>1, <1>3, <2>2
    <3>2. ASSUME NEW j \in 1..(i - 1) PROVE Before(x[j], x[i])
      <4>1. CASE j <= a
        <5>1. x[j] = s[j] /\ s[j].of < top + 1
          BY <1>3, <1>4, <4>1
        <5> QED
          BY <3>1, <5>1 DEF Before
      <4>2. CASE ~(j <= a)
        <5>1. j \in 1..(a + b) /\ j - a \in 1..b /\ j - a < i - a
          BY <4>2
        <5>2. x[j].of = top + 1 /\ x[j].at = j - a
          BY <1>1, <1>3, <4>2, <5>1
        <5> QED
          BY <3>1, <5>1, <5>2 DEF Before
      <4> QED
        BY <4>1, <4>2
    <3>3. last < top + 1 /\ top + 1 <= top + 1
      OBVIOUS
    <3> QED
      BY <3>1, <3>2, <3>3
  <2> QED
    BY <2>1, <2>2
<1> QED
  BY <1>2, <1>3, <1>5 DEF Chain

(* A byte that is lost, changed or inserted.                               *)
LEMMA ChainTail ==
  ASSUME NEW b \in Seq(Byte), NEW l \in Seq(Byte), l # <<>>, NEW last, NEW top \in Nat,
         Chain(b \o l, last, top)
  PROVE  Chain(b \o Tail(l), last, top)
<1>1. PICK n \in Nat, m \in Nat : n = Len(b) /\ m = Len(l)
  OBVIOUS
<1>2. PICK t : t = Tail(l)
  OBVIOUS
<1>3. m >= 1 /\ t \in Seq(Byte) /\ Len(t) = m - 1 /\ \A i \in 1..(m - 1) : t[i] = l[i + 1]
  BY <1>1, <1>2, HeadTailProperties
<1>4. PICK s, y : s = b \o l /\ y = b \o t
  OBVIOUS
<1>5. Len(s) = n + m /\ \A i \in 1..(n + m) : s[i] = IF i <= n THEN b[i] ELSE l[i - n]
  BY <1>1, <1>4, ConcatProperties
<1>6. /\ y \in Seq(Byte) /\ Len(y) = n + (m - 1)
      /\ \A i \in 1..(n + (m - 1)) : y[i] = IF i <= n THEN b[i] ELSE t[i - n]
  <2>1. /\ y \in Seq(Byte) /\ Len(y) = Len(b) + Len(t)
        /\ \A i \in 1..(Len(b) + Len(t)) : y[i] = IF i <= Len(b) THEN b[i] ELSE t[i - Len(b)]
    BY <1>3, <1>4, ConcatProperties
  <2>2. Len(b) = n /\ Len(t) = m - 1
    BY <1>1, <1>3
  <2> QED
    BY <2>1, <2>2
<1>7. PICK f : f = [i \in 1..(n + (m - 1)) |-> IF i <= n THEN i ELSE i + 1]
  OBVIOUS
<1>8. \A i \in 1..(n + (m - 1)) : f[i] = IF i <= n THEN i ELSE i + 1
  BY <1>7
<1>9. ASSUME NEW i \in 1..(n + (m - 1)) PROVE f[i] \in 1..(n + m) /\ y[i] = s[f[i]]
  <2>1. CASE i <= n
    BY <1>3, <1>5, <1>6, <1>8, <2>1
  <2>2. CASE ~(i <= n)
    <3>1. i - n \in 1..(m - 1) /\ i + 1 \in 1..(n + m) /\ ~(i + 1 <= n) /\ (i + 1) - n = (i - n) + 1
      BY <1>3, <2>2
    <3> QED
      BY <1>3, <1>5, <1>6, <1>8, <2>2, <3>1
  <2> QED
    BY <2>1, <2>2
<1>10. ASSUME NEW i \in 1..(n + (m - 1)), NEW j \in 1..(i - 1)
       PROVE  f[j] \in Int /\ f[i] \in Int /\ f[j] < f[i]
  <2>1. j \in 1..(n + (m - 1)) /\ j < i
    BY <1>3
  <2> QED
    BY <1>8, <2>1
<1>11. Chain(y, last, top)
  <2>1. \A i \in 1..Len(y) : y[i].of = 0 \/ (f[i] \in 1..Len(s) /\ y[i] = s[f[i]])
    BY <1>5, <1>6, <1>9
  <2>2. \A i \in 1..Len(y) : \A j \in 1..(i - 1) :
          y[i].of # 0 /\ y[j].of # 0 => f[j] \in Int /\ f[i] \in Int /\ f[j] < f[i]
    BY <1>6, <1>10
  <2>3. Chain(s, last, top)
    BY <1>4
  <2>4. Embeds(y, s, f)
    BY <2>1, <2>2 DEF Embeds
  <2> QED
    BY <1>6, <2>3, <2>4, ChainEmbeds
<1> QED
  BY <1>2, <1>4, <1>11

(* A byte the line makes up may stand anywhere.                            *)
LEMMA ChainInsert ==
  ASSUME NEW b \in Seq(Byte), NEW l \in Seq(Byte), NEW last, NEW top \in Nat,
         Chain(b \o l, last, top), NEW x \in Byte, x.of = 0
  PROVE  Chain(b \o (<<x>> \o l), last, top)
<1>1. PICK n \in Nat, m \in Nat : n = Len(b) /\ m = Len(l)
  OBVIOUS
<1>2. PICK t : t = <<x>> \o l
  OBVIOUS
<1>3. <<x>> \in Seq(Byte) /\ Len(<<x>>) = 1 /\ <<x>>[1] = x
  OBVIOUS
<1>4. /\ t \in Seq(Byte) /\ Len(t) = 1 + m
      /\ \A i \in 1..(1 + m) : t[i] = IF i <= 1 THEN <<x>>[i] ELSE l[i - 1]
  BY <1>1, <1>2, <1>3, ConcatProperties
<1>5. t[1] = x /\ \A i \in 2..(1 + m) : t[i] = l[i - 1]
  BY <1>3, <1>4
<1>6. PICK s, y : s = b \o l /\ y = b \o t
  OBVIOUS
<1>7. Len(s) = n + m /\ \A i \in 1..(n + m) : s[i] = IF i <= n THEN b[i] ELSE l[i - n]
  BY <1>1, <1>6, ConcatProperties
<1>8. /\ y \in Seq(Byte) /\ Len(y) = n + (1 + m)
      /\ \A i \in 1..(n + (1 + m)) : y[i] = IF i <= n THEN b[i] ELSE t[i - n]
  <2>1. PICK k \in Nat : k = 1 + m /\ k = Len(t)
    BY <1>4
  <2>2. /\ y \in Seq(Byte) /\ Len(y) = n + k
        /\ \A i \in 1..(n + k) : y[i] = IF i <= n THEN b[i] ELSE t[i - n]
    BY <1>1, <1>4, <1>6, <2>1, ConcatProperties
  <2> QED
    BY <2>1, <2>2
<1>9. PICK f : f = [i \in 1..(n + (1 + m)) |-> IF i <= n THEN i ELSE i - 1]
  OBVIOUS
<1>10. \A i \in 1..(n + (1 + m)) : f[i] = IF i <= n THEN i ELSE i - 1
  BY <1>9
<1>11. y[n + 1].of = 0
  <2>1. n + 1 \in 1..(n + (1 + m)) /\ ~(n + 1 <= n) /\ (n + 1) - n = 1
    OBVIOUS
  <2> QED
    BY <1>5, <1>8, <2>1
<1>12. ASSUME NEW i \in 1..(n + (1 + m))
       PROVE  y[i].of = 0 \/ (f[i] \in 1..(n + m) /\ y[i] = s[f[i]])
  <2>1. CASE i <= n
    BY <1>7, <1>8, <1>10, <2>1
  <2>2. CASE i = n + 1
    BY <1>11, <2>2
  <2>3. CASE i > n + 1
    <3>1. /\ i - n \in 2..(1 + m) /\ i - 1 \in 1..(n + m) /\ ~(i - 1 <= n) /\ ~(i <= n)
          /\ (i - 1) - n = (i - n) - 1
      BY <2>3
    <3> QED
      BY <1>5, <1>7, <1>8, <1>10, <3>1
  <2> QED
    BY <2>1, <2>2, <2>3
<1>13. ASSUME NEW i \in 1..(n + (1 + m)), NEW j \in 1..(i - 1), y[i].of # 0, y[j].of # 0
       PROVE  f[j] \in Int /\ f[i] \in Int /\ f[j] < f[i]
  <2>1. j \in 1..(n + (1 + m)) /\ j < i /\ j # n + 1 /\ i # n + 1
    BY <1>11, <1>13
  <2> QED
    BY <1>10, <2>1
<1>14. Chain(y, last, top)
  <2>1. \A i \in 1..Len(y) : y[i].of = 0 \/ (f[i] \in 1..Len(s) /\ y[i] = s[f[i]])
    BY <1>7, <1>8, <1>12
  <2>2. \A i \in 1..Len(y) : \A j \in 1..(i - 1) :
          y[i].of # 0 /\ y[j].of # 0 => f[j] \in Int /\ f[i] \in Int /\ f[j] < f[i]
    BY <1>8, <1>13
  <2>3. Chain(s, last, top)
    BY <1>6
  <2>4. Embeds(y, s, f)
    BY <2>1, <2>2 DEF Embeds
  <2> QED
    BY <1>8, <2>3, <2>4, ChainEmbeds
<1> QED
  BY <1>2, <1>6, <1>14

-----------------------------------------------------------------------------
(* The number of the last frame handled, 0 before the first.               *)
LEMMA LastHandledNat == ASSUME handled \in Seq(Nat) PROVE LastHandled \in Nat
<1>1. CASE handled = <<>>
  BY <1>1 DEF LastHandled, Stream!Last
<1>2. CASE handled # <<>>
  <2>1. Len(handled) \in 1..Len(handled)
    BY <1>2
  <2> QED
    BY <1>2, <2>1 DEF LastHandled, Stream!Last
<1> QED
  BY <1>1, <1>2

(* uproto_encode_frame.                                                    *)
LEMMA EncodeIs ==
  ASSUME NEW k \in Nat, NEW len \in Payloads
  PROVE  /\ Encode(k, len) \in Seq(Byte)
         /\ \A i \in 1..Len(Encode(k, len)) : Encode(k, len)[i].of = k /\ Encode(k, len)[i].at = i
<1>1. len \in Nat /\ MaxPayload \in Nat /\ Header \in Nat /\ Trailer \in Nat
  BY RxAssumption
<1>2. PICK n \in Nat : n = Total(len)
  BY <1>1 DEF Total
<1> DEFINE v(i) == CASE i = 1 -> MAGIC_0 [] i = 2 -> MAGIC_1 [] i = Header -> len [] OTHER -> DATA
<1>3. \A i \in 1..n : v(i) \in Nat
  BY <1>1 DEF MAGIC_0, MAGIC_1, DATA
<1> HIDE DEF v
<1>4. Encode(k, len) = [i \in 1..n |-> [v |-> v(i), of |-> k, at |-> i]]
  BY <1>2 DEF Encode, v
<1>5. PICK e : e = Encode(k, len)
  OBVIOUS
<1>6. \A i \in 1..n : [v |-> v(i), of |-> k, at |-> i] \in Byte
  BY <1>3 DEF Byte
<1>7. e \in [1..n -> Byte] /\ \A i \in 1..n : e[i].of = k /\ e[i].at = i
  BY <1>4, <1>5, <1>6
<1>8. e \in Seq(Byte) /\ Len(e) = n
  BY <1>7
<1> QED
  BY <1>5, <1>7, <1>8

(* One lemma per action: each keeps the invariant.  Sending a frame.       *)
LEMMA SendInv == ASSUME RxInv, Send PROVE RxInv'
<1>1. PICK len \in Payloads : line' = line \o Encode(sent + 1, len)
  BY DEF Send
<1>2. sent' = sent + 1 /\ buf' = buf /\ handled' = handled /\ LastHandled' = LastHandled
  BY DEF Send, LastHandled, Stream!Last
<1>3. /\ sent \in Nat /\ handled \in Seq(Nat) /\ buf \in Seq(Byte) /\ line \in Seq(Byte)
      /\ LastHandled \in Nat /\ LastHandled <= sent /\ Chain(buf \o line, LastHandled, sent)
  BY LastHandledNat DEF RxInv
<1>4. PICK e : e = Encode(sent + 1, len)
  OBVIOUS
<1>5. e \in Seq(Byte) /\ \A i \in 1..Len(e) : e[i].of = sent + 1 /\ e[i].at = i
  <2>1. sent + 1 \in Nat
    BY <1>3
  <2> QED
    BY <1>4, <2>1, EncodeIs
<1>6. Chain((buf \o line) \o e, LastHandled, sent + 1)
  BY <1>3, <1>5, ChainSend
<1>7. (buf \o line) \o e = buf \o (line \o e) /\ line \o e \in Seq(Byte)
  BY <1>3, <1>5, ConcatAssociative, ConcatProperties
<1>8. sent + 1 \in Nat /\ LastHandled <= sent + 1
  BY <1>3
<1> QED
  BY <1>1, <1>2, <1>3, <1>4, <1>6, <1>7, <1>8 DEF RxInv

(* A byte lost, changed or inserted.                                       *)
LEMMA DisturbInv == ASSUME RxInv, Disturb PROVE RxInv'
<1>1. sent' = sent /\ buf' = buf /\ handled' = handled /\ LastHandled' = LastHandled /\ line # <<>>
  BY DEF Disturb, LastHandled, Stream!Last
<1>2. /\ sent \in Nat /\ handled \in Seq(Nat) /\ buf \in Seq(Byte) /\ line \in Seq(Byte)
      /\ LastHandled <= sent /\ Chain(buf \o line, LastHandled, sent)
  BY DEF RxInv
<1>3. Tail(line) \in Seq(Byte) /\ Chain(buf \o Tail(line), LastHandled, sent)
  BY <1>1, <1>2, ChainTail, HeadTailProperties
<1>4. ASSUME NEW v \in Values
      PROVE  /\ [v |-> v, of |-> 0, at |-> 0] \in Byte
             /\ <<[v |-> v, of |-> 0, at |-> 0]>> \in Seq(Byte)
  <2>1. v \in Nat
    BY RxAssumption DEF Values, MAGIC_1
  <2>2. [v |-> v, of |-> 0, at |-> 0] \in Byte
    BY <2>1 DEF Byte
  <2> QED
    BY <2>2
<1>5. ASSUME NEW v \in Values, NEW l \in Seq(Byte), Chain(buf \o l, LastHandled, sent),
             line' = <<[v |-> v, of |-> 0, at |-> 0]>> \o l
      PROVE  RxInv'
  <2>1. PICK x : x = [v |-> v, of |-> 0, at |-> 0]
    OBVIOUS
  <2>2. x \in Byte /\ x.of = 0 /\ <<x>> \in Seq(Byte)
    BY <1>4, <2>1
  <2>3. Chain(buf \o (<<x>> \o l), LastHandled, sent) /\ <<x>> \o l \in Seq(Byte)
    BY <1>2, <1>5, <2>2, ChainInsert, ConcatProperties
  <2> QED
    BY <1>1, <1>2, <1>5, <2>1, <2>3 DEF RxInv
<1>6. CASE line' = Tail(line)
  BY <1>1, <1>2, <1>3, <1>6 DEF RxInv
<1> QED
  BY <1>2, <1>3, <1>5, <1>6 DEF Disturb

(* Bytes are dropped in front of what is on the way.                       *)
LEMMA FromInv ==
  ASSUME RxInv, NEW n, From(buf' \o line', buf \o line, n),
         buf' \in Seq(Byte), Len(buf') <= BufSize, line' \in Seq(Byte),
         sent' = sent, handled' = handled
  PROVE  RxInv'
<1>1. LastHandled' = LastHandled
  BY DEF LastHandled, Stream!Last
<1>2. PICK s, t : s = buf \o line /\ t = buf' \o line'
  OBVIOUS
<1>3. Chain(t, LastHandled, sent)
  <2>1. sent \in Nat /\ Chain(s, LastHandled, sent) /\ From(t, s, n)
    BY <1>2 DEF RxInv
  <2> QED
    BY <2>1, ChainFrom
<1> QED
  BY <1>1, <1>2, <1>3 DEF RxInv

(* How the bytes of three parts are put together does not matter.          *)
LEMMA Associative ==
  ASSUME NEW s \in Seq(Byte), NEW t \in Seq(Byte), NEW u \in Seq(Byte)
  PROVE  (s \o t) \o u = s \o (t \o u)
BY ConcatAssociative

(* Dropping nothing.                                                       *)
LEMMA FromSelf == ASSUME NEW s \in Seq(Byte) PROVE From(s, s, 0)
BY DEF From

(* Dropping bytes leaves no more than there were.                          *)
LEMMA FromShorter ==
  ASSUME RxInv, NEW t, NEW n, From(t, buf, n)
  PROVE  t \in Seq(Byte) /\ Len(t) <= BufSize
<1>1. t \in Seq(Byte) /\ buf \in Seq(Byte) /\ n \in 0..Len(buf) /\ Len(t) = Len(buf) - n
  BY DEF From, RxInv
<1>2. Len(buf) \in Nat /\ Len(buf) <= BufSize /\ BufSize \in Nat
  BY <1>1, RxAssumption DEF RxInv
<1> QED
  BY <1>1, <1>2

(* What division by a positive number gives.                               *)
LEMMA DivBounds ==
  ASSUME NEW a \in Nat, NEW m \in Nat, m >= 1
  PROVE  a \div m \in Nat /\ (a \div m) * m <= a /\ a < (a \div m) * m + m
<1>1. a \div m \in Nat
  BY SMT
<1>2. (a \div m) * m <= a
  BY SMT
<1>3. a < (a \div m) * m + m
  BY SMT
<1> QED
  BY <1>1, <1>2, <1>3

(* A byte that finds the buffer full empties it: what is left fits.        *)
LEMMA Overflow ==
  ASSUME NEW l \in Nat, NEW room \in Nat, ~(l <= room), NEW m \in Nat, m >= 1
  PROVE  LET x == room + 1 + ((l - room - 1) \div m) * m
         IN x \in Nat /\ x <= l /\ l - x < m
<1>1. PICK a \in Nat : a = l - room - 1
  OBVIOUS
<1>2. PICK q \in Nat : q = (a \div m) * m /\ q <= a /\ a < q + m
  <2>1. a \div m \in Nat /\ (a \div m) * m <= a /\ a < (a \div m) * m + m
    BY DivBounds
  <2>2. (a \div m) * m \in Nat
    BY <2>1
  <2> QED
    BY <2>1, <2>2
<1>3. room + 1 + q \in Nat /\ room + 1 + q <= l /\ l - (room + 1 + q) < m
  BY <1>1, <1>2
<1> QED
  BY <1>1, <1>2, <1>3

(* uproto_on_rx_bytes.                                                     *)
LEMMA ReceiveInv == ASSUME RxInv, Receive PROVE RxInv'
<1>1. PICK n \in 1..Len(line) : line' = Drop(line, n) /\ buf' = Fill(buf, SubSeq(line, 1, n))
  BY DEF Receive
<1>2. sent' = sent /\ handled' = handled
  BY DEF Receive
<1>3. /\ buf \in Seq(Byte) /\ line \in Seq(Byte) /\ Len(buf) \in Nat /\ Len(line) \in Nat /\ n \in Nat
      /\ Len(buf) <= BufSize /\ BufSize \in Nat
  BY RxAssumption DEF RxInv
<1>4. PICK c, r : c = SubSeq(line, 1, n) /\ r = Drop(line, n)
  OBVIOUS
<1>5. c \in Seq(Byte) /\ Len(c) \in Nat
  <2>1. \A i \in 1..n : line[i] \in Byte
    BY <1>3
  <2>2. c \in Seq(Byte)
    BY <1>3, <1>4, <2>1, SubSeqProperties
  <2> QED
    BY <2>2
<1>6. r \in Seq(Byte)
  BY <1>3, <1>4, DropFrom DEF From
<1>7. c \o r = line
  <2>1. 1 \in 1..(Len(line) + 1) /\ n \in (1 - 1)..Len(line) /\ Len(line) \in n..Len(line)
    BY <1>3
  <2>2. c \o r = SubSeq(line, 1, Len(line))
    BY <1>3, <1>4, <2>1, ConcatAdjacentSubSeq DEF Drop
  <2> QED
    BY <1>3, <2>2, SubSeqFull
<1>8. CASE Len(c) <= BufSize - Len(buf)
  <2>1. buf' = buf \o c
    BY <1>1, <1>4, <1>8 DEF Fill
  <2>2. buf' \o line' = buf \o line /\ buf' \in Seq(Byte)
    <3>1. (buf \o c) \o r = buf \o (c \o r) /\ buf \o c \in Seq(Byte)
      <4>1. (buf \o c) \o r = buf \o (c \o r)
        BY <1>3, <1>5, <1>6, Associative
      <4> QED
        BY <1>3, <1>5, <4>1, ConcatProperties
    <3> QED
      BY <1>1, <1>4, <1>7, <2>1, <3>1
  <2>3. From(buf \o line, buf \o line, 0)
    BY <1>3, ConcatProperties, FromSelf
  <2>4. Len(buf') <= BufSize
    <3>1. Len(buf') = Len(buf) + Len(c)
      BY <1>3, <1>5, <2>1, ConcatProperties
    <3> QED
      BY <1>3, <1>5, <1>8, <3>1
  <2> QED
    BY <1>1, <1>2, <1>4, <1>6, <2>2, <2>3, <2>4, FromInv
<1>9. CASE ~(Len(c) <= BufSize - Len(buf))
  <2>1. PICK x \in Nat : buf' = Drop(c, x) /\ x <= Len(c) /\ Len(c) - x <= BufSize
    <3>1. PICK room \in Nat : room = BufSize - Len(buf) /\ room <= BufSize
      BY <1>3
    <3>2. PICK x :
            x = room + 1 + ((Len(c) - room - 1) \div (BufSize + 1)) * (BufSize + 1)
      OBVIOUS
    <3>3. buf' = Drop(c, x)
      BY <1>1, <1>4, <1>9, <3>1, <3>2 DEF Fill
    <3>4. x \in Nat /\ x <= Len(c) /\ Len(c) - x <= BufSize
      <4>1. BufSize + 1 \in Nat /\ BufSize + 1 >= 1 /\ ~(Len(c) <= room)
        BY <1>3, <1>9, <3>1
      <4>2. x \in Nat /\ x <= Len(c) /\ Len(c) - x < BufSize + 1
        BY <1>5, <3>2, <4>1, Overflow
      <4> QED
        BY <1>3, <1>5, <4>2
    <3> QED
      BY <3>3, <3>4
  <2>2. PICK k \in 0..Len(c) : From(buf', c, k) /\ k = x
    BY <1>5, <2>1, DropFrom
  <2>3. buf' \in Seq(Byte) /\ Len(buf') <= BufSize
    BY <1>5, <2>1, <2>2 DEF From
  <2>4. From(buf' \o line', line, k)
    BY <1>1, <1>4, <1>5, <1>6, <1>7, <2>2, FromConcat
  <2>5. From(line, buf \o line, Len(buf))
    <3>1. /\ buf \o line \in Seq(Byte) /\ Len(buf \o line) = Len(buf) + Len(line)
          /\ \A i \in 1..(Len(buf) + Len(line)) :
               (buf \o line)[i] = IF i <= Len(buf) THEN buf[i] ELSE line[i - Len(buf)]
      BY <1>3, ConcatProperties
    <3>2. PICK a \in Nat, b \in Nat : a = Len(buf) /\ b = Len(line)
      BY <1>3
    <3> DEFINE s == buf \o line
    <3>3. ASSUME NEW i \in 1..b PROVE line[i] = s[a + i]
      <4>1. a + i \in 1..(a + b) /\ ~(a + i <= a) /\ (a + i) - a = i
        OBVIOUS
      <4> QED
        BY <3>1, <3>2, <4>1
    <3>4. a \in 0..(a + b) /\ b = (a + b) - a
      OBVIOUS
    <3> QED
      BY <1>3, <3>1, <3>2, <3>3, <3>4 DEF From
  <2>6. buf \o line \in Seq(Byte)
    BY <1>3, ConcatProperties
  <2>7. From(buf' \o line', buf \o line, Len(buf) + k)
    BY <2>4, <2>5, <2>6, FromTrans
  <2> QED
    BY <1>1, <1>2, <1>4, <1>6, <2>3, <2>7, FromInv
<1> QED
  BY <1>8, <1>9

-----------------------------------------------------------------------------
(* Min is the smallest element, as the code takes the first magic bytes.   *)
LEMMA Smallest ==
  ASSUME NEW S \in SUBSET Nat, S # {}
  PROVE  Min(S) \in S /\ \A x \in S : Min(S) <= x
<1> DEFINE R == OpToRel(<, Nat)
<1>1. IsWellFoundedOn(R, Nat)
  BY NatLessThanWellFounded
<1>2. \A m \in Nat, n \in Nat : <<m, n>> \in R <=> m < n
  BY DEF OpToRel
<1> HIDE DEF R
<1>3. PICK n \in S : \A m \in S : ~(<<m, n>> \in R)
  BY <1>1, WFMin
<1>4. ASSUME NEW m \in S PROVE n <= m
  <2>1. ~(m < n) /\ m \in Nat /\ n \in Nat
    BY <1>2, <1>3
  <2> QED
    BY <2>1
<1> QED
  BY <1>4 DEF Min

(* The bytes before the first magic bytes are dropped.                     *)
LEMMA FoundFrom ==
  ASSUME RxInv, Starts # {}
  PROVE  Found \in Seq(Byte) /\ \E n : From(Found, buf, n)
<1>1. buf \in Seq(Byte)
  BY DEF RxInv
<1>2. Starts \in SUBSET Nat /\ \A i \in Starts : i - 1 \in Nat
  BY DEF Starts
<1>3. Min(Starts) - 1 \in Nat
  BY <1>2, Smallest
<1> QED
  BY <1>1, <1>3, DropFrom DEF Found, From

(* The turns that wait for more bytes.                                     *)
LEMMA WaitInv == ASSUME RxInv, Wait PROVE RxInv'
<1>1. sent' = sent /\ handled' = handled /\ line' = line
  BY DEF Wait
<1>2. buf \in Seq(Byte) /\ line \in Seq(Byte)
  BY DEF RxInv
<1>3. \E n : From(buf', buf, n)
  <2>1. CASE buf' = buf
    BY <1>2, <2>1, FromSelf
  <2>2. CASE buf' = <<>>
    <3>1. From(<<>>, buf, Len(buf))
      BY <1>2 DEF From
    <3> QED
      BY <2>2, <3>1
  <2>3. CASE Starts # {} /\ buf' = Found
    BY <2>3, FoundFrom
  <2> QED
    BY <2>1, <2>2, <2>3 DEF Wait
<1>4. PICK n : From(buf', buf, n)
  BY <1>3
<1>5. buf' \in Seq(Byte) /\ Len(buf') <= BufSize
  BY <1>4, FromShorter
<1>6. From(buf' \o line, buf \o line, n)
  BY <1>2, <1>4, FromConcat
<1> QED
  BY <1>1, <1>2, <1>5, <1>6, FromInv

(* A header with an impossible length.                                     *)
LEMMA SkipInv == ASSUME RxInv, SkipHeader PROVE RxInv'
<1>1. sent' = sent /\ handled' = handled /\ line' = line /\ Starts # {} /\ buf' = Drop(Found, 2)
  BY DEF SkipHeader, HasHeader
<1>2. buf \in Seq(Byte) /\ line \in Seq(Byte)
  BY DEF RxInv
<1>3. PICK n : Found \in Seq(Byte) /\ From(Found, buf, n)
  BY <1>1, FoundFrom
<1>4. PICK k : From(buf', Found, k)
  BY <1>1, <1>3, DropFrom
<1>5. From(buf', buf, n + k)
  BY <1>2, <1>3, <1>4, FromTrans
<1>6. buf' \in Seq(Byte) /\ Len(buf') <= BufSize
  BY <1>5, FromShorter
<1>7. From(buf' \o line, buf \o line, n + k)
  BY <1>2, <1>5, FromConcat
<1> QED
  BY <1>1, <1>2, <1>6, <1>7, FromInv

(* The frame that is handled is later than all handled before, and so are  *)
(* the frames that begin behind it.                                        *)
LEMMA TakeInv ==
  ASSUME RxInv, TakeFrame
  PROVE  RxInv' /\ (handled' = handled \/ Stream!Deliver)
<1> DEFINE frame == SubSeq(Found, 1, Total(Length))
<1>1. /\ sent' = sent /\ line' = line /\ Starts # {} /\ buf' = Drop(Found, Total(Length))
      /\ Length <= MaxPayload /\ Len(Found) >= Total(Length) /\ Len(Found) >= Header
      /\ handled' = IF Decodes(frame) THEN Append(handled, frame[1].of) ELSE handled
  BY DEF TakeFrame, HasHeader
<1>2. /\ buf \in Seq(Byte) /\ line \in Seq(Byte) /\ sent \in Nat /\ handled \in Seq(Nat)
      /\ LastHandled \in Nat /\ Chain(buf \o line, LastHandled, sent)
  BY LastHandledNat DEF RxInv
<1>3. PICK F, n : F = Found /\ F \in Seq(Byte) /\ From(F, buf, n)
  BY <1>1, FoundFrom
<1>4. PICK w \in Nat : w = Total(Length) /\ w >= 1 /\ w <= Len(F)
  <2>1. Header \in Nat /\ Header >= 3 /\ Trailer \in Nat
    BY RxAssumption
  <2>2. Header \in 1..Len(F)
    BY <1>1, <1>3, <2>1
  <2>3. Length \in Nat
    <3>1. F[Header] \in Byte /\ Length = F[Header].v
      BY <1>3, <2>2 DEF Length
    <3> QED
      BY <3>1 DEF Byte
  <2> QED
    BY <1>1, <1>3, <2>1, <2>3 DEF Total
<1>5. PICK k \in 0..Len(F) : From(buf', F, k) /\ k >= 1
  <2>1. F # <<>>
    BY <1>3, <1>4
  <2> QED
    BY <1>1, <1>3, <1>4, <2>1, DropFrom
<1>6. PICK s, t : s = F \o line /\ t = buf' \o line
  OBVIOUS
<1>7. /\ s \in Seq(Byte) /\ buf' \in Seq(Byte) /\ Len(buf') <= BufSize
      /\ From(t, s, k) /\ Chain(s, LastHandled, sent)
  <2>1. From(s, buf \o line, n)
    BY <1>2, <1>3, <1>6, FromConcat
  <2>2. From(t, s, k)
    BY <1>2, <1>3, <1>5, <1>6, FromConcat
  <2>3. Chain(s, LastHandled, sent)
    BY <1>2, <2>1, ChainFrom
  <2>4. s \in Seq(Byte)
    BY <2>3 DEF Chain
  <2>5. From(buf', buf, n + k)
    BY <1>2, <1>3, <1>5, FromTrans
  <2>6. buf' \in Seq(Byte) /\ Len(buf') <= BufSize
    BY <2>5, FromShorter
  <2> QED
    BY <2>2, <2>3, <2>4, <2>6
<1>8. CASE ~Decodes(frame)
  <2>1. handled' = handled /\ LastHandled' = LastHandled
    BY <1>1, <1>8 DEF LastHandled, Stream!Last
  <2>2. Chain(t, LastHandled, sent)
    BY <1>2, <1>7, ChainFrom
  <2> QED
    BY <1>1, <1>2, <1>6, <1>7, <2>1, <2>2 DEF RxInv
<1>9. CASE Decodes(frame)
  <2>1. F[1] \in Byte /\ s[1] = F[1]
    <3>1. 1 \in 1..Len(F)
      BY <1>3, <1>4
    <3> QED
      BY <1>2, <1>3, <1>6, <3>1, ConcatProperties
  <2>2. frame[1] = F[1] /\ DOMAIN frame = 1..w
    <3>1. PICK g : g = SubSeq(F, 1, w)
      OBVIOUS
    <3>2. \A i \in 1..w : F[i] \in Byte
      BY <1>3, <1>4
    <3>3. g \in Seq(Byte) /\ Len(g) = w /\ g[1] = F[1]
      <4>1. /\ g \in Seq(Byte) /\ Len(g) = IF 1 <= w THEN w - 1 + 1 ELSE 0
            /\ \A i \in 1..(w - 1 + 1) : g[i] = F[1 + i - 1]
        BY <3>1, <3>2, SubSeqProperties
      <4>2. 1 \in 1..(w - 1 + 1) /\ 1 + 1 - 1 = 1 /\ w - 1 + 1 = w
        BY <1>4
      <4> QED
        BY <1>4, <4>1, <4>2
    <3>4. DOMAIN g = 1..w
      BY <3>3
    <3> QED
      BY <1>3, <1>4, <3>1, <3>3, <3>4
  <2>3. s[1].of # 0 /\ s[1].at = 1
    <3>1. 1 \in 1..w
      BY <1>4
    <3> QED
      BY <1>9, <2>1, <2>2, <3>1 DEF Decodes
  <2>4. PICK f \in Nat : f = s[1].of /\ LastHandled < f /\ f <= sent
    <3>1. 1 \in 1..Len(s)
      BY <1>5, <1>7 DEF From
    <3>2. LastHandled < s[1].of /\ s[1].of <= sent
      BY <1>7, <2>3, <3>1 DEF Chain
    <3>3. s[1].of \in Nat
      BY <2>1 DEF Byte
    <3> QED
      BY <3>2, <3>3
  <2>5. handled' = Append(handled, f)
    BY <1>1, <1>9, <2>1, <2>2, <2>4
  <2>6. handled' \in Seq(Nat) /\ LastHandled' = f
    BY <1>2, <2>5, AppendProperties DEF LastHandled, Stream!Last
  <2>7. Chain(t, f, sent)
    BY <1>2, <1>5, <1>7, <2>3, <2>4, ChainTake
  <2>8. RxInv'
    BY <1>1, <1>2, <1>6, <1>7, <2>4, <2>6, <2>7 DEF RxInv
  <2>9. f \in (LastHandled + 1)..sent
    BY <1>2, <2>4
  <2>10. Stream!Deliver
    BY <1>1, <2>5, <2>9 DEF Stream!Deliver, LastHandled
  <2> QED
    BY <2>8, <2>10
<1> QED
  BY <1>8, <1>9

-----------------------------------------------------------------------------
(* Every step keeps the invariant and is a step of the stream, or none.    *)
LEMMA RxStep ==
  ASSUME RxInv, [RxNext]_rxVars
  PROVE  RxInv' /\ [Stream!Capture \/ Stream!Deliver]_<<sent, handled>>
<1>1. CASE Send
  <2>1. Stream!Capture
    BY <1>1 DEF Send, Stream!Capture
  <2> QED
    BY <1>1, <2>1, SendInv
<1>2. CASE Disturb
  BY <1>2, DisturbInv DEF Disturb
<1>3. CASE Receive
  BY <1>3, ReceiveInv DEF Receive
<1>4. CASE Wait
  BY <1>4, WaitInv DEF Wait
<1>5. CASE SkipHeader
  BY <1>5, SkipInv DEF SkipHeader
<1>6. CASE TakeFrame
  <2>1. sent' = sent
    BY <1>6 DEF TakeFrame
  <2> QED
    BY <1>6, <2>1, TakeInv
<1>7. CASE UNCHANGED rxVars
  BY <1>7 DEF rxVars, RxInv, LastHandled, Stream!Last
<1> QED
  BY <1>1, <1>2, <1>3, <1>4, <1>5, <1>6, <1>7 DEF RxNext

(* So do the initial states.                                               *)
LEMMA RxStarts == ASSUME RxInit PROVE RxInv /\ Stream!Init
<1>1. sent = 0 /\ handled = <<>> /\ buf = <<>> /\ line = <<>> /\ LastHandled = 0
  BY DEF RxInit, LastHandled, Stream!Last
<1>2. buf \o line = <<>>
  BY <1>1
<1>3. Chain(<<>>, 0, 0)
  BY DEF Chain
<1> QED
  BY <1>1, <1>2, <1>3, RxAssumption DEF RxInv, Stream!Init

(* The bytes under way stay in the order they were sent in, and the buffer *)
(* never holds more than it has room for.                                  *)
THEOREM RxInvCorrect == RxSpec => []RxInv
<1>1. RxInit => RxInv
  BY RxStarts
<1>2. RxInv /\ [RxNext]_rxVars => RxInv'
  BY RxStep
<1> QED
  BY <1>1, <1>2, PTL DEF RxSpec

(* Frames are handled in the order they were sent, none twice, whatever    *)
(* the line does and however the bytes are cut into chunks.                *)
THEOREM RxImplementsStream == RxSpec => ImplementsStream
<1>1. RxInit => Stream!Init
  BY RxStarts
<1>2. RxInv /\ [RxNext]_rxVars => [Stream!Capture \/ Stream!Deliver]_<<sent, handled>>
  BY RxStep
<1> QED
  BY <1>1, <1>2, RxInvCorrect, PTL DEF RxSpec, ImplementsStream, Stream!Spec

-----------------------------------------------------------------------------
(* No more frames are lost than a damaged header can swallow.              *)

(* The bytes of the shortest frame that is sent.                           *)
Shortest == Total(Min(Payloads))

(* off[k] is the number of bytes sent before frame k.  That k - j frames   *)
(* have at least k - j times the shortest length is part of it.            *)
Offsets(off, top) ==
  /\ off \in [Nat -> Nat]
  /\ \A k \in 1..top : \E len \in Payloads : off[k + 1] = off[k] + Total(len)
  /\ \A j \in 1..(top + 1) : \A k \in j..(top + 1) : off[j] + (k - j) * Shortest <= off[k]

(* A byte of one of the frames sent, as it was sent.                       *)
AsSent(b, off, top) ==
  /\ b.of \in 1..top
  /\ b.at \in 1..(off[b.of + 1] - off[b.of])
  /\ b.at = 1 => b.v = MAGIC_0
  /\ b.at = 2 => b.v = MAGIC_1
  /\ b.at = Header => b.v = off[b.of + 1] - off[b.of] - Total(0)
  /\ b.at \notin {1, 2, Header} => b.v = DATA

(* It has as many bytes behind it as were sent after it.                   *)
InPlace(s, j, off, top) ==
  /\ AsSent(s[j], off, top)
  /\ off[s[j].of] + s[j].at + (Len(s) - j) = off[top + 1]

(* From place c on the bytes are those that were sent, none is missing.    *)
Clean(s, c, off, top) == \A j \in c..Len(s) : InPlace(s, j, off, top)

(* The sizes of frames: none is shorter than the shortest payload makes    *)
(* it.                                                                     *)
LEMMA Sizes ==
  /\ Header \in Nat /\ Header >= 3 /\ Trailer \in Nat /\ MaxPayload \in Nat /\ MaxPayload >= 1
  /\ \A len \in Payloads : len \in 0..MaxPayload /\ Min(Payloads) <= len
  /\ Min(Payloads) \in Payloads
  /\ Shortest \in Nat /\ Shortest >= Total(0) /\ Shortest >= 3
  /\ \A len \in Payloads : Total(len) >= Shortest /\ Total(len) \in Nat
  /\ Total(0) = Header + Trailer
<1>1. /\ Header \in Nat /\ Header >= 3 /\ Trailer \in Nat /\ MaxPayload \in Nat /\ MaxPayload >= 1
      /\ Payloads # {} /\ Payloads \in SUBSET (0..MaxPayload)
  BY RxAssumption
<1>2. Payloads \in SUBSET Nat
  BY <1>1
<1>3. Min(Payloads) \in Payloads /\ \A len \in Payloads : Min(Payloads) <= len
  BY <1>1, <1>2, Smallest
<1>4. \A len \in Payloads : len \in 0..MaxPayload
  BY <1>1
<1>5. PICK p : p = Min(Payloads)
  OBVIOUS
<1>6. p \in Nat /\ \A len \in Payloads : p <= len /\ len \in Nat
  BY <1>3, <1>4, <1>5
<1>7. /\ Shortest = Header + p + Trailer /\ Total(0) = Header + 0 + Trailer
      /\ \A len \in Payloads : Total(len) = Header + len + Trailer
  BY <1>5 DEF Shortest, Total
<1>8. /\ Shortest \in Nat /\ Shortest >= Total(0) /\ Shortest >= 3
      /\ \A len \in Payloads : Total(len) >= Shortest /\ Total(len) \in Nat
      /\ Total(0) = Header + Trailer
  BY <1>1, <1>6, <1>7
<1> QED
  BY <1>1, <1>3, <1>4, <1>8

(* Products by a positive number, in the form the steps below need.        *)
LEMMA Times ==
  ASSUME NEW a \in Nat, NEW b \in Nat, b >= 1
  PROVE  /\ a * b \in Nat /\ (a + 1) * b = a * b + b
         /\ a <= a * b /\ 0 * b = 0
OBVIOUS

(* Later frames begin later, by what the frames between have at least.     *)
LEMMA Later ==
  ASSUME NEW top \in Nat, NEW off, Offsets(off, top)
  PROVE  /\ \A k \in 1..(top + 1) : off[k] \in Nat
         /\ \A j \in 1..(top + 1) : \A k \in j..(top + 1) :
              /\ off[j] <= off[k]
              /\ j # k => off[j] < off[k]
              /\ (k - j) * Shortest \in Nat
              /\ off[j] + (k - j) * Shortest <= off[k]
         /\ \A k \in 1..top : /\ off[k + 1] - off[k] \in Nat
                              /\ off[k + 1] - off[k] >= Total(0)
                              /\ off[k + 1] - off[k] - Total(0) \in Payloads
<1>1. \A k \in Nat : off[k] \in Nat
  BY DEF Offsets
<1>2. ASSUME NEW j \in 1..(top + 1), NEW k \in j..(top + 1)
      PROVE  /\ off[j] <= off[k]
             /\ j # k => off[j] < off[k]
             /\ (k - j) * Shortest \in Nat
             /\ off[j] + (k - j) * Shortest <= off[k]
  <2>1. PICK d \in Nat : d = k - j
    OBVIOUS
  <2>2. PICK x : x = d * Shortest
    OBVIOUS
  <2>3. x \in Nat /\ d <= x
    BY <2>2, Times, Sizes
  <2>4. off[j] + x <= off[k]
    BY <2>1, <2>2 DEF Offsets
  <2> QED
    BY <1>1, <2>1, <2>2, <2>3, <2>4
<1>3. ASSUME NEW k \in 1..top
      PROVE  /\ off[k + 1] - off[k] \in Nat
             /\ off[k + 1] - off[k] >= Total(0)
             /\ off[k + 1] - off[k] - Total(0) \in Payloads
  <2>1. PICK len \in Payloads : off[k + 1] = off[k] + Total(len)
    BY DEF Offsets
  <2> QED
    BY <1>1, <2>1, Sizes DEF Total
<1> QED
  BY <1>1, <1>2, <1>3

(* Which frame the byte at a place belongs to.                             *)
LEMMA Where ==
  ASSUME NEW top \in Nat, NEW off, Offsets(off, top), NEW s \in Seq(Byte), NEW j \in 1..Len(s),
         InPlace(s, j, off, top), NEW m \in 1..(top + 1)
  PROVE  /\ off[m] + (Len(s) - j) < off[top + 1] => m <= s[j].of
         /\ off[m] + (Len(s) - j) >= off[top + 1] => s[j].of < m
<1>1. PICK f \in Nat, a \in Nat, l \in Nat : f = s[j].of /\ a = s[j].at /\ l = Len(s)
  <2>1. s[j] \in Byte
    OBVIOUS
  <2> QED
    BY <2>1 DEF Byte
<1>2. /\ f \in 1..top /\ a \in 1..(off[f + 1] - off[f])
      /\ off[f] + a + (l - j) = off[top + 1]
  BY <1>1 DEF InPlace, AsSent
<1>3. f \in 1..(top + 1) /\ f + 1 \in 1..(top + 1) /\ top + 1 \in 1..(top + 1)
  BY <1>2
<1>4. /\ off[m] \in Nat /\ off[f] \in Nat /\ off[f + 1] \in Nat /\ off[top + 1] \in Nat
  BY <1>3, Later
<1>5. PICK p \in Nat, q \in Nat, r \in Nat, t \in Nat :
        p = off[m] /\ q = off[f] /\ r = off[f + 1] /\ t = off[top + 1]
  BY <1>4
<1>6. a >= 1 /\ q + a <= r /\ q + a + (l - j) = t /\ j \in Nat /\ j <= l
  <2>1. a \in 1..(r - q)
    BY <1>2, <1>5
  <2>2. q + a + (l - j) = t
    BY <1>2, <1>5
  <2>3. j \in 1..l
    BY <1>1
  <2> QED
    BY <2>1, <2>2, <2>3
<1>7. CASE f < m
  <2>1. m \in (f + 1)..(top + 1)
    BY <1>7
  <2>2. off[f + 1] <= off[m]
    BY <1>3, <2>1, Later
  <2>3. r <= p
    BY <1>5, <2>2
  <2>4. ~(p + (l - j) < t)
    BY <1>6, <2>3
  <2> QED
    BY <1>5, <1>1, <1>7, <2>4
<1>8. CASE m <= f
  <2>1. f \in m..(top + 1)
    BY <1>2, <1>8
  <2>2. off[m] <= off[f]
    BY <2>1, Later
  <2>3. p <= q
    BY <1>5, <2>2
  <2>4. ~(p + (l - j) >= t)
    BY <1>6, <2>3
  <2> QED
    BY <1>5, <1>1, <1>8, <2>4
<1> QED
  BY <1>7, <1>8

(* Where a frame begins in what is clean, all of it follows.               *)
LEMMA WholeFrame ==
  ASSUME NEW top \in Nat, NEW off, Offsets(off, top), NEW s \in Seq(Byte), NEW c \in 1..Len(s),
         Clean(s, c, off, top), NEW m \in 1..(top + 1),
         off[m] + (Len(s) + 1 - c) = off[top + 1]
  PROVE  /\ m <= top
         /\ \A d \in 1..(off[m + 1] - off[m]) :
              /\ c + d - 1 \in c..Len(s)
              /\ AsSent(s[c + d - 1], off, top)
              /\ s[c + d - 1].of = m /\ s[c + d - 1].at = d
<1>1. PICK l \in Nat : l = Len(s)
  OBVIOUS
<1>2. m <= top /\ off[m] \in Nat /\ off[top + 1] \in Nat
  <2>1. off[m] \in Nat /\ off[top + 1] \in Nat
    BY Later
  <2>2. off[m] # off[top + 1]
    BY <1>1, <2>1
  <2> QED
    BY <2>1, <2>2
<1>3. /\ off[m + 1] \in Nat /\ off[m + 1] <= off[top + 1]
      /\ off[m + 1] - off[m] \in Nat
  <2>1. m + 1 \in 1..(top + 1) /\ top + 1 \in (m + 1)..(top + 1) /\ m \in 1..top
    BY <1>2
  <2> QED
    BY <2>1, Later
<1>4. ASSUME NEW d \in 1..(off[m + 1] - off[m])
      PROVE  /\ c + d - 1 \in c..Len(s)
             /\ AsSent(s[c + d - 1], off, top)
             /\ s[c + d - 1].of = m /\ s[c + d - 1].at = d
  <2>1. PICK j : j = c + d - 1
    OBVIOUS
  <2>2. j \in c..l /\ j \in 1..l /\ l - j = l + 1 - c - d
    BY <1>1, <1>2, <1>3, <2>1
  <2>3. InPlace(s, j, off, top)
    BY <1>1, <2>2 DEF Clean
  <2>4. m <= s[j].of
    <3>1. off[m] + (l - j) < off[top + 1]
      BY <1>1, <1>2, <2>2
    <3> QED
      BY <1>1, <2>2, <2>3, <3>1, Where
  <2>5. s[j].of < m + 1
    <3>1. off[m + 1] + (l - j) >= off[top + 1]
      <4>1. d <= off[m + 1] - off[m] /\ d \in Nat
        BY <1>3
      <4>2. l - j = l + 1 - c - d /\ off[m] + (l + 1 - c) = off[top + 1]
        BY <1>1, <2>2
      <4> QED
        BY <1>1, <1>2, <1>3, <4>1, <4>2
    <3>2. m + 1 \in 1..(top + 1)
      BY <1>2
    <3> QED
      BY <1>1, <2>2, <2>3, <3>1, <3>2, Where
  <2>6. AsSent(s[j], off, top) /\ s[j].of \in Nat /\ s[j].at \in Nat
    BY <2>3 DEF InPlace, AsSent
  <2>7. s[j].of = m
    BY <2>4, <2>5, <2>6
  <2>8. off[m] + s[j].at + (l - j) = off[top + 1]
    BY <1>1, <2>3, <2>7 DEF InPlace
  <2>9. s[j].at = d
    <3>1. PICK x \in Nat : x = s[j].at
      BY <2>6
    <3>2. PICK p \in Nat : p = off[m]
      BY <1>2
    <3>3. p + x + (l + 1 - c - d) = p + (l + 1 - c)
      BY <1>1, <2>2, <2>8, <3>1, <3>2
    <3>4. d \in Int /\ c \in Int
      BY <1>3
    <3>5. x = d
      BY <3>3, <3>4
    <3> QED
      BY <3>1, <3>5
  <2> QED
    BY <1>1, <2>1, <2>2, <2>6, <2>7, <2>9
<1> QED
  BY <1>2, <1>4

(* Frame m begins at place c, and all from there on is as it was sent.     *)
Synced(s, m, c, off, top) ==
  /\ m \in 1..(top + 1)
  /\ c \in 1..(Len(s) + 1)
  /\ off[m] + (Len(s) + 1 - c) = off[top + 1]
  /\ Clean(s, c, off, top)

(* A place of the end t of s is one of s.                                  *)
LEMMA PlaceFrom ==
  ASSUME NEW top, NEW off, NEW s \in Seq(Byte), NEW t, NEW n, From(t, s, n), NEW j \in 1..Len(t)
  PROVE  /\ n + j \in 1..Len(s)
         /\ t[j] = s[n + j]
         /\ InPlace(t, j, off, top) <=> InPlace(s, n + j, off, top)
<1>1. PICK a \in Nat, b \in Nat : a = Len(s) /\ b = Len(t)
  BY DEF From
<1>2. n \in 0..a /\ b = a - n /\ j \in 1..b
  BY <1>1 DEF From
<1>3. n + j \in 1..a /\ b - j = a - (n + j)
  BY <1>2
<1>4. t[j] = s[n + j]
  BY DEF From
<1> QED
  BY <1>1, <1>3, <1>4 DEF InPlace

(* Seen from the end of s that remains, the place is nearer; and back.     *)
LEMMA SyncedFrom ==
  ASSUME NEW top \in Nat, NEW off, Offsets(off, top), NEW s \in Seq(Byte), NEW t, NEW n,
         From(t, s, n), NEW m, NEW c \in Nat, c >= 1
  PROVE  Synced(s, m, n + c, off, top) <=> Synced(t, m, c, off, top)
<1>1. PICK a \in Nat, b \in Nat : a = Len(s) /\ b = Len(t)
  BY DEF From
<1>2. n \in 0..a /\ b = a - n
  BY <1>1 DEF From
<1>3. n + c \in 1..(a + 1) <=> c \in 1..(b + 1)
  BY <1>2
<1>4. a + 1 - (n + c) = b + 1 - c
  BY <1>2
<1>5. ASSUME Clean(s, n + c, off, top), NEW j \in c..b
      PROVE  InPlace(t, j, off, top)
  <2>1. j \in 1..b /\ n + j \in (n + c)..a
    BY <1>2
  <2>2. InPlace(s, n + j, off, top)
    BY <1>1, <1>5, <2>1 DEF Clean
  <2> QED
    BY <1>1, <2>1, <2>2, PlaceFrom
<1>6. ASSUME Clean(t, c, off, top), NEW j \in (n + c)..a
      PROVE  InPlace(s, j, off, top)
  <2>1. PICK i \in c..b : j = n + i
    <3>1. j - n \in c..b /\ j = n + (j - n)
      BY <1>2
    <3> QED
      BY <3>1
  <2>2. i \in 1..b
    BY <2>1
  <2>3. InPlace(t, i, off, top)
    BY <1>1, <1>6, <2>1 DEF Clean
  <2> QED
    BY <1>1, <2>1, <2>2, <2>3, PlaceFrom
<1>7. Clean(s, n + c, off, top) <=> Clean(t, c, off, top)
  BY <1>1, <1>5, <1>6 DEF Clean
<1> QED
  BY <1>1, <1>3, <1>4, <1>7 DEF Synced

(* How long frame m is.                                                    *)
Size(off, m) == off[m + 1] - off[m]

(* The frame at the place in step, and the next one behind it.             *)
LEMMA FrameSynced ==
  ASSUME NEW top \in Nat, NEW off, Offsets(off, top), NEW s \in Seq(Byte), NEW m, NEW c,
         Synced(s, m, c, off, top), c # Len(s) + 1
  PROVE  /\ Size(off, m) \in Nat /\ Size(off, m) >= Total(0) /\ Size(off, m) - Total(0) \in Payloads
         /\ m \in 1..top /\ c \in 1..Len(s) /\ c + Size(off, m) \in 1..(Len(s) + 1)
         /\ \A d \in 1..Size(off, m) : AsSent(s[c + d - 1], off, top) /\ s[c + d - 1].of = m /\ s[c + d - 1].at = d
         /\ Synced(s, m + 1, c + Size(off, m), off, top)
<1>1. PICK l \in Nat : l = Len(s)
  OBVIOUS
<1>2. m \in 1..(top + 1) /\ c \in 1..l /\ Clean(s, c, off, top) /\ off[m] + (l + 1 - c) = off[top + 1]
  BY <1>1 DEF Synced
<1>3. /\ m <= top
      /\ \A d \in 1..(off[m + 1] - off[m]) :
              /\ c + d - 1 \in c..Len(s)
              /\ AsSent(s[c + d - 1], off, top)
              /\ s[c + d - 1].of = m /\ s[c + d - 1].at = d
  <2>1. c \in 1..Len(s) /\ off[m] + (Len(s) + 1 - c) = off[top + 1]
    BY <1>1, <1>2
  <2> QED
    BY <1>2, <2>1, WholeFrame
<1>4. m \in 1..top
  BY <1>2, <1>3
<1>5. PICK z \in Nat : z = off[m + 1] - off[m] /\ z >= Total(0) /\ z - Total(0) \in Payloads
  BY <1>4, Later
<1>6. PICK p \in Nat, q \in Nat, r \in Nat :
         p = off[m] /\ q = off[m + 1] /\ r = off[top + 1] /\ q <= r
  <2>1. m + 1 \in 1..(top + 1) /\ top + 1 \in (m + 1)..(top + 1) /\ m \in 1..(top + 1)
    BY <1>4
  <2>2. off[m] \in Nat /\ off[m + 1] \in Nat /\ off[top + 1] \in Nat /\ off[m + 1] <= off[top + 1]
    BY <2>1, Later
  <2> QED
    BY <2>2
<1>7. z = q - p /\ p + (l + 1 - c) = r
  BY <1>2, <1>5, <1>6
<1>8. c + z \in 1..(l + 1) /\ q + (l + 1 - (c + z)) = r
  <2>1. c \in Nat /\ c >= 1
    BY <1>2
  <2>2. q <= r
    BY <1>6
  <2>3. c + z \in Nat /\ c + z >= 1 /\ c + z <= l + 1
    BY <1>7, <2>1, <2>2
  <2>4. q + (l + 1 - (c + z)) = r
    BY <1>7, <2>1, <2>2
  <2> QED
    BY <2>3, <2>4
<1>9. Clean(s, c + z, off, top)
  <2>1. \A j \in (c + z)..l : j \in c..l
    BY <1>2
  <2> QED
    BY <1>1, <1>2, <2>1 DEF Clean
<1>10. Synced(s, m + 1, c + z, off, top)
  <2>1. m + 1 \in 1..(top + 1)
    BY <1>4
  <2> QED
    BY <1>1, <1>6, <1>8, <1>9, <2>1 DEF Synced
<1>11. z = Size(off, m)
  BY <1>5 DEF Size
<1> QED
  BY <1>1, <1>2, <1>3, <1>4, <1>5, <1>8, <1>10, <1>11

(* When the first bytes of a frame are cut off, the decoder is in step     *)
(* again with the next; what is left of the frame begins nothing.          *)
LEMMA CutSynced ==
  ASSUME NEW top \in Nat, NEW off, Offsets(off, top), NEW s \in Seq(Byte), NEW m, NEW c,
         Synced(s, m, c, off, top), NEW t, NEW n, From(t, s, n), n + 1 >= c
  PROVE  \E k \in m..(top + 1), e \in Nat :
           /\ Synced(t, k, e, off, top)
           /\ \A j \in 1..(e - 1) : t[j].v # MAGIC_0
           /\ k # m => off[k - 1] < off[m] + (n + 1 - c)
<1>1. PICK a \in Nat, b \in Nat, w \in Nat : a = Len(s) /\ b = Len(t) /\ w = off[top + 1]
  <2>1. top + 1 \in 1..(top + 1)
    OBVIOUS
  <2>2. off[top + 1] \in Nat
    BY <2>1, Later
  <2> QED
    BY <2>2 DEF From
<1>2. n \in 0..a /\ b = a - n /\ t \in Seq(Byte)
  BY <1>1 DEF From
<1>3. m \in 1..(top + 1) /\ c \in 1..(a + 1) /\ Clean(s, c, off, top) /\ off[m] + (a + 1 - c) = w
  BY <1>1 DEF Synced
<1> DEFINE K == {i \in m..(top + 1) : off[i] + b >= w}
<1>4. PICK k : k \in K /\ \A i \in K : k <= i
  <2>1. top + 1 \in m..(top + 1)
    BY <1>3
  <2>2. w + b >= w
    OBVIOUS
  <2>3. top + 1 \in K
    BY <1>1, <2>1, <2>2
  <2>4. K \in SUBSET Nat /\ K # {}
    BY <1>3, <2>3
  <2> HIDE DEF K
  <2> QED
    BY <2>4, Smallest
<1>5. /\ k \in m..(top + 1) /\ off[k] + b >= w
      /\ \A i \in m..(top + 1) : off[i] + b >= w => k <= i
  BY <1>4
<1> HIDE DEF K
<1>6. k \in 1..(top + 1)
  BY <1>3, <1>5
<1>7. off[k] \in Nat /\ off[k] <= w /\ off[m] \in Nat
  <2>1. top + 1 \in k..(top + 1)
    BY <1>6
  <2> QED
    BY <1>1, <1>3, <1>6, <2>1, Later
<1>8. PICK e \in Nat : e = off[k] + b + 1 - w
  BY <1>5, <1>7
<1>9. PICK q \in Nat : q = off[k] /\ q <= w /\ e = q + b + 1 - w /\ q + b >= w
  BY <1>5, <1>7, <1>8
<1>10. e \in 1..(b + 1) /\ q + (b + 1 - e) = w
  <2>1. q <= w /\ e = q + b + 1 - w /\ q + b >= w
    BY <1>9
  <2>2. e >= 1 /\ e <= b + 1 /\ q + (b + 1 - e) = w
    BY <2>1
  <2> QED
    BY <2>2
<1>11. ASSUME NEW j \in 1..b
       PROVE  InPlace(t, j, off, top) /\ InPlace(s, n + j, off, top) /\ n + j \in c..a /\ n + j \in 1..a
  <2>1. n + j \in c..a /\ n + j \in 1..a
    BY <1>2, <1>3
  <2>2. InPlace(s, n + j, off, top)
    BY <1>1, <1>3, <2>1 DEF Clean
  <2> QED
    BY <1>1, <2>1, <2>2, PlaceFrom
<1>12. Synced(t, k, e, off, top)
  <2>1. \A j \in e..b : InPlace(t, j, off, top)
    BY <1>10, <1>11
  <2> QED
    BY <1>1, <1>6, <1>9, <1>10, <2>1 DEF Synced, Clean
<1>13. ASSUME NEW j \in 1..(e - 1) PROVE t[j].v # MAGIC_0
  <2>1. j \in 1..b /\ j \in Nat /\ j >= 1 /\ j < e
    BY <1>10
  <2>2. InPlace(t, j, off, top)
    BY <2>1, <1>11
  <2>3. q + (b - j) >= w
    BY <2>1, <1>10
  <2>4. t[j].of < k
    BY <1>1, <1>2, <1>6, <1>9, <2>1, <2>2, <2>3, Where
  <2>5. m <= t[j].of
    <3>1. InPlace(s, n + j, off, top) /\ n + j \in c..a /\ n + j \in 1..a /\ t[j] = s[n + j]
      BY <1>1, <2>1, <1>11, PlaceFrom
    <3>2. PICK p \in Nat : p = off[m]
      BY <1>7
    <3>3. p + (a - (n + j)) < w
      <4>1. p + (a + 1 - c) = w /\ n + j >= c
        BY <1>3, <3>1, <3>2
      <4> QED
        BY <4>1, <1>2, <1>3, <2>1
    <3> QED
      BY <1>1, <1>3, <3>1, <3>2, <3>3, Where
  <2>6. PICK f \in Nat, x \in Nat : f = t[j].of /\ x = t[j].at
    <3>1. \A i \in 1..Len(t) : t[i] \in Byte
      BY <1>2
    <3>2. j \in 1..Len(t)
      BY <1>1, <2>1
    <3>3. t[j] \in Byte
      BY <3>1, <3>2
    <3> QED
      BY <3>3 DEF Byte
  <2>7. f \in m..(top + 1) /\ f < k
    BY <1>3, <1>6, <2>4, <2>5, <2>6
  <2>8. off[f] + x + (b - j) = w
    BY <1>1, <2>2, <2>6 DEF InPlace
  <2>9. x # 1
    <3>1. SUFFICES ASSUME x = 1 PROVE off[f] + b >= w
      BY <1>5, <2>7, <1>6
    <3>2. f \in 1..(top + 1)
      BY <1>3, <2>7
    <3>3. off[f] \in Nat
      BY <3>2, Later
    <3>4. PICK p \in Nat : p = off[f]
      BY <3>3
    <3>5. p + 1 + (b - j) = w
      BY <2>8, <3>1, <3>4
    <3>6. p + b >= w
      BY <3>5, <2>1
    <3> QED
      BY <3>4, <3>6
  <2>10. AsSent(t[j], off, top)
    BY <2>2 DEF InPlace
  <2>11. t[j].v \in 0..MaxPayload \/ t[j].v = MAGIC_1 \/ t[j].v = DATA
    <3>1. CASE x = 2
      BY <2>6, <2>10, <3>1 DEF AsSent
    <3>2. CASE x = Header
      <4>1. f \in 1..top
        BY <2>6, <2>10 DEF AsSent
      <4>2. t[j].v \in Payloads
        BY <2>6, <2>10, <3>2, <4>1, Later DEF AsSent
      <4> QED
        BY <4>2, Sizes
    <3>3. CASE x \notin {1, 2, Header}
      BY <2>6, <2>10, <3>3 DEF AsSent
    <3> QED
      BY <2>9, <3>1, <3>2, <3>3
  <2> QED
    BY <2>11, Sizes DEF MAGIC_0, MAGIC_1, DATA
<1>14. ASSUME k # m PROVE off[k - 1] < off[m] + (n + 1 - c)
  <2>1. k - 1 \in m..(top + 1) /\ k - 1 < k /\ k - 1 \in 1..(top + 1)
    BY <1>3, <1>5, <1>14
  <2>2. ~(off[k - 1] + b >= w)
    BY <1>5, <2>1
  <2>3. PICK p \in Nat, r \in Nat : p = off[m] /\ r = off[k - 1]
    BY <1>7, <2>1, Later
  <2>4. p + (a + 1 - c) = w /\ ~(r + b >= w)
    BY <1>3, <2>2, <2>3
  <2>5. r < p + (n + 1 - c)
    BY <2>4, <1>2, <1>3
  <2> QED
    BY <2>3, <2>5
<1> QED
  BY <1>5, <1>8, <1>12, <1>13, <1>14

(* The decoder is in step with the frame behind the one a part begins in.  *)
LEMMA NextSynced ==
  ASSUME NEW top \in Nat, NEW off, Offsets(off, top), NEW s \in Seq(Byte), s # <<>>,
         Clean(s, 1, off, top)
  PROVE  /\ s[1].of \in 1..top
         /\ \E c \in Nat : Synced(s, IF s[1].at = 1 THEN s[1].of ELSE s[1].of + 1, c, off, top)
<1>1. PICK l \in Nat : l = Len(s) /\ l >= 1
  OBVIOUS
<1>2. 1 \in 1..l /\ InPlace(s, 1, off, top)
  BY <1>1 DEF Clean
<1>3. PICK f \in Nat, x \in Nat : f = s[1].of /\ x = s[1].at
  <2>1. \A i \in 1..l : s[i] \in Byte
    BY <1>1
  <2>2. s[1] \in Byte
    BY <1>2, <2>1
  <2> QED
    BY <2>2 DEF Byte
<1>4. f \in 1..top /\ x \in 1..(off[f + 1] - off[f]) /\ off[f] + x + (l - 1) = off[top + 1]
  BY <1>1, <1>2, <1>3 DEF InPlace, AsSent
<1>5. f + 1 \in 1..(top + 1) /\ f \in 1..(top + 1) /\ top + 1 \in (f + 1)..(top + 1)
  BY <1>4
<1>6. PICK p \in Nat, q \in Nat, w \in Nat : p = off[f] /\ q = off[f + 1] /\ w = off[top + 1] /\ q <= w
  <2>1. off[f] \in Nat /\ off[f + 1] \in Nat /\ off[top + 1] \in Nat /\ off[f + 1] <= off[top + 1]
    BY <1>5, Later
  <2> QED
    BY <2>1
<1>7. x >= 1 /\ p + x <= q /\ p + x + (l - 1) = w
  <2>1. x \in 1..(q - p)
    BY <1>4, <1>6
  <2>2. p + x + (l - 1) = w
    BY <1>4, <1>6
  <2> QED
    BY <2>1, <2>2, <1>6
<1>8. CASE x = 1
  <2>1. p + (l + 1 - 1) = w
    BY <1>7, <1>8
  <2>2. off[f] + (Len(s) + 1 - 1) = off[top + 1]
    BY <1>1, <1>6, <2>1
  <2>3. 1 \in 1..(Len(s) + 1)
    BY <1>1
  <2>4. Synced(s, f, 1, off, top)
    BY <1>5, <2>2, <2>3 DEF Synced
  <2> QED
    BY <1>3, <1>4, <1>8, <2>4
<1>9. CASE x # 1
  <2>1. PICK c \in Nat : c = q - p - x + 2
    BY <1>7
  <2>2. c >= 1 /\ c <= l + 1 /\ q + (l + 1 - c) = w
    <3>1. q <= w
      BY <1>6
    <3> QED
      BY <1>7, <2>1, <3>1
  <2>3. c \in 1..(Len(s) + 1)
    BY <1>1, <2>2
  <2>4. off[f + 1] + (Len(s) + 1 - c) = off[top + 1]
    BY <1>1, <1>6, <2>2
  <2>5. Clean(s, c, off, top)
    BY <1>1, <2>2 DEF Clean
  <2>6. Synced(s, f + 1, c, off, top)
    BY <1>5, <2>3, <2>4, <2>5 DEF Synced
  <2> QED
    BY <1>3, <1>4, <1>9, <2>6
<1> QED
  BY <1>8, <1>9

(* The factor decides.                                                     *)
LEMMA LessTimes ==
  ASSUME NEW a \in Nat, NEW b \in Nat, NEW n \in Nat, n >= 1, a * n < b * n
  PROVE  a < b
<1>1. SUFFICES ASSUME b <= a PROVE FALSE
  OBVIOUS
<1>2. PICK d \in Nat : a = b + d
  <2>1. a - b \in Nat /\ a = b + (a - b)
    BY <1>1
  <2> QED
    BY <2>1
<1>3. (b + d) * n = b * n + d * n /\ d * n \in Nat /\ b * n \in Nat
  OBVIOUS
<1> QED
  BY <1>2, <1>3

(* What a damaged header that begins at place i announces: from place c    *)
(* on it reaches at most Swallowed frames, the last one in part.  If the   *)
(* length itself is one of those bytes it is the value of any other byte.  *)
LEMMA Announced ==
  ASSUME NEW i \in Nat, NEW c \in Nat, NEW e \in Nat, NEW n \in Nat, NEW k \in Nat,
         n <= MaxPayload, i + 2 <= c, e + 1 <= i + Total(n),
         c + 1 <= i + Header => n = 1,
         k * Shortest < e + 1 - c
  PROVE  k + 1 <= Swallowed /\ Swallowed \in Nat
<1>1. PICK h \in Nat, t \in Nat, p \in Nat, z \in Nat : 
         /\ h = Header /\ t = Trailer /\ p = MaxPayload /\ z = Shortest
         /\ p >= 1 /\ z >= h + t /\ z >= 3
  BY Sizes
<1>2. Total(n) = h + n + t
  BY <1>1 DEF Total
<1>3. PICK y \in Nat : y = k * z
  BY <1>1
<1>4. y < e + 1 - c /\ e + 1 <= i + (h + n + t)
  BY <1>1, <1>2, <1>3
<1>5. CASE i + h <= c
  <2>1. y < p + t
    BY <1>1, <1>4, <1>5
  <2> QED
    <3>1. PICK a \in Nat : a = p + t + z - 1
      BY <1>1
    <3>2. PICK d : d = a \div z
      OBVIOUS
    <3>3. d \in Nat /\ a < d * z + z
      BY <1>1, <3>2, DivBounds
    <3>4. (k + 1) * z = y + z /\ (d + 1) * z = d * z + z /\ d * z \in Nat
      BY <1>1, <1>3, <3>3, Times
    <3>5. (k + 1) * z < (d + 1) * z
      BY <2>1, <3>1, <3>3, <3>4
    <3>6. k + 1 < d + 1
      <4>1. k + 1 \in Nat /\ d + 1 \in Nat /\ z >= 1
        BY <1>1, <3>3
      <4> QED
        BY <3>5, <4>1, LessTimes
    <3>7. Swallowed = d
      BY <1>1, <3>1, <3>2 DEF Swallowed, Shortest
    <3> QED
      BY <3>3, <3>6, <3>7
<1>6. CASE ~(i + h <= c)
  <2>1. n = 1 /\ y < z
    <3>1. n = 1
      BY <1>1, <1>6
    <3> QED
      BY <1>1, <1>4, <3>1
  <2> QED
    <3>1. PICK a \in Nat : a = p + t + z - 1 /\ a >= z
      BY <1>1
    <3>2. PICK d : d = a \div z
      OBVIOUS
    <3>3. d \in Nat /\ a < d * z + z
      BY <1>1, <3>2, DivBounds
    <3>4. k * z < 1 * z
      BY <1>3, <2>1
    <3>5. k < 1
      BY <1>1, <3>4, LessTimes
    <3>6. (d + 1) * z = d * z + z /\ d * z \in Nat
      BY <1>1, <3>3, Times
    <3>7. 1 * z < (d + 1) * z
      BY <3>1, <3>3, <3>6
    <3>8. 1 < d + 1
      <4>1. d + 1 \in Nat /\ z >= 1
        BY <1>1, <3>3
      <4> QED
        BY <3>7, <4>1, LessTimes
    <3>9. Swallowed = d
      BY <1>1, <3>1, <3>2 DEF Swallowed, Shortest
    <3> QED
      BY <3>3, <3>5, <3>8, <3>9
<1> QED
  BY <1>5, <1>6

(* The bound is a number.                                                  *)
LEMMA SwallowedNat == Swallowed \in Nat
<1>1. PICK a \in Nat, z \in Nat : a = MaxPayload + Trailer + Shortest - 1 /\ z = Shortest /\ z >= 1
  BY Sizes
<1>2. a \div z \in Nat
  BY <1>1, DivBounds
<1> QED
  BY <1>1, <1>2 DEF Swallowed, Shortest

(* The numbers up to a bound that are in no set of more.                   *)
LEMMA Few ==
  ASSUME NEW S, NEW a \in Nat, NEW b \in Nat, S \subseteq a..(b - 1)
  PROVE  IsFiniteSet(S) /\ Cardinality(S) \in Nat /\ (a <= b => Cardinality(S) <= b - a)
<1>1. IsFiniteSet(a..(b - 1)) /\ (a <= b => Cardinality(a..(b - 1)) = b - a)
  <2>1. a \in Int /\ b - 1 \in Int
    OBVIOUS
  <2>2. Cardinality(a..(b - 1)) = (IF a <= b - 1 THEN b - 1 - a + 1 ELSE 0) /\ IsFiniteSet(a..(b - 1))
    BY <2>1, FS_Interval
  <2>3. a <= b => (IF a <= b - 1 THEN b - 1 - a + 1 ELSE 0) = b - a
    OBVIOUS
  <2> QED
    BY <2>2, <2>3
<1>2. IsFiniteSet(S) /\ Cardinality(S) <= Cardinality(a..(b - 1))
  BY <1>1, FS_Subset
<1>3. Cardinality(S) \in Nat
  BY <1>2, FS_CardinalityType
<1> QED
  BY <1>1, <1>2, <1>3

(* A part of a finite set has no more elements.                            *)
LEMMA Fewer ==
  ASSUME NEW S, NEW T, IsFiniteSet(T), S \subseteq T
  PROVE  IsFiniteSet(S) /\ Cardinality(S) <= Cardinality(T)
BY FS_Subset

(* The bytes the decoder has not dealt with, in their order.               *)
Way == buf \o line

(* What may be lost: the bound of Resynchronises.                          *)
Allowed == IF upset THEN Swallowed ELSE 0

(* The frames before m, since the line has been quiet, that are lost.      *)
Missing(m) == {k \in resume..(m - 1) : \A i \in DOMAIN handled : handled[i] # k}

(* What the line made up comes first, all behind it is as it was sent.     *)
OnLine(l, off, top) ==
  \E g \in 1..(Len(l) + 1) : (\A j \in 1..(g - 1) : l[j].of = 0) /\ Clean(l, g, off, top)

(* The decoder will be in step at place c with frame m.  As long as bytes  *)
(* before that place can pass for a header, no frame is lost.              *)
InStepAt(m, c, off) ==
  /\ Synced(Way, m, c, off, sent)
  /\ ~upset => c = 1
  /\ Cardinality(Missing(m)) <= Allowed
  /\ Missing(m) # {} => \A j \in 1..(c - 1) : Way[j].v # MAGIC_0

InStep(off) == \E m \in resume..(sent + 1), c \in Nat : InStepAt(m, c, off)

(* A chunk does not end within magic bytes that begin a frame to resume.   *)
SplitInv == busy /\ upset /\ buf # <<>> /\ buf[Len(buf)].at = 1 => buf[Len(buf)].of < resume

(* What the decoder waits with is incomplete.                              *)
Waiting ==
  ~busy => \/ Len(buf) < Total(0)
           \/ /\ buf[1].v = MAGIC_0 /\ buf[2].v = MAGIC_1
              /\ buf[Header].v <= MaxPayload /\ Len(buf) < Total(buf[Header].v)

(* The decoder will be in step again at a place that can be told, and what *)
(* it has lost up to there is within the bound.                            *)
ResyncInv ==
  /\ RxInv
  /\ resume \in 1..(sent + 1)
  /\ busy \in BOOLEAN /\ upset \in BOOLEAN
  /\ SplitInv
  /\ Waiting
  /\ \E off : Offsets(off, sent) /\ OnLine(line, off, sent) /\ InStep(off)

(* The buffer, and behind it the line.                                     *)
LEMMA WayIs ==
  ASSUME RxInv
  PROVE  /\ buf \in Seq(Byte) /\ line \in Seq(Byte) /\ Way \in Seq(Byte)
         /\ Len(Way) = Len(buf) + Len(line)
         /\ \A i \in 1..Len(buf) : Way[i] = buf[i] /\ i \in 1..Len(Way)
         /\ From(line, Way, Len(buf))
<1>1. buf \in Seq(Byte) /\ line \in Seq(Byte)
  BY DEF RxInv
<1>2. PICK s : s = buf \o line
  OBVIOUS
<1>21. PICK a \in Nat, b \in Nat : a = Len(buf) /\ b = Len(line)
  BY <1>1
<1>3. /\ s \in Seq(Byte) /\ Len(s) = a + b
      /\ \A i \in 1..(a + b) : s[i] = IF i <= a THEN buf[i] ELSE line[i - a]
  BY <1>1, <1>2, <1>21, ConcatProperties
<1>4. ASSUME NEW i \in 1..a PROVE s[i] = buf[i] /\ i \in 1..(a + b)
  BY <1>3
<1>5. ASSUME NEW i \in 1..b PROVE line[i] = s[a + i]
  <2>1. a + i \in 1..(a + b) /\ ~(a + i <= a) /\ (a + i) - a = i
    OBVIOUS
  <2> QED
    BY <1>3, <2>1
<1>6. a \in 0..(a + b) /\ b = (a + b) - a
  OBVIOUS
<1>7. From(line, s, a)
  BY <1>1, <1>2, <1>21, <1>3, <1>5, <1>6 DEF From
<1> QED
  BY <1>1, <1>2, <1>21, <1>3, <1>4, <1>7 DEF Way

(* The bytes on the way are of frames that were sent.                      *)
LEMMA OfSent ==
  ASSUME RxInv
  PROVE  \A i \in 1..Len(Way) : Way[i].of <= sent /\ \A j \in 1..(i - 1) : Before(Way[j], Way[i])
BY DEF RxInv, Chain, Way

(* No more frames can be missing than there are.                           *)
LEMMA MissingFinite ==
  ASSUME ResyncInv, NEW m \in 1..(sent + 1)
  PROVE  /\ IsFiniteSet(Missing(m)) /\ Cardinality(Missing(m)) \in Nat
         /\ Missing(m) \subseteq resume..(m - 1)
<1>1. resume \in Nat /\ m \in Nat
  BY DEF ResyncInv, RxInv
<1>2. Missing(m) \subseteq resume..(m - 1)
  BY DEF Missing
<1> QED
  BY <1>1, <1>2, Few

(* Bytes are dropped before the place where the decoder is in step.        *)
LEMMA StepDrop ==
  ASSUME RxInv, RxInv', NEW off, Offsets(off, sent), NEW m \in resume..(sent + 1), NEW c \in Nat,
         InStepAt(m, c, off), resume \in 1..(sent + 1), resume' = resume,
         NEW n, From(Way', Way, n), n + 1 <= c,
         sent' = sent, upset' = upset, Missing(m)' \subseteq Missing(m)
  PROVE  InStep(off)'
<1>1. PICK s, t, top : s = Way /\ t = Way' /\ top = sent
  OBVIOUS
<1>2. top \in Nat /\ s \in Seq(Byte) /\ t \in Seq(Byte)
  BY <1>1, WayIs DEF RxInv, From
<1>3. n \in Nat /\ \A j \in 1..Len(t) : t[j] = s[n + j]
  BY <1>1, <1>2 DEF From
<1>4. PICK d \in Nat : d >= 1 /\ c = n + d
  <2>1. c - n \in Nat /\ c - n >= 1 /\ c = n + (c - n)
    BY <1>3
  <2> QED
    BY <2>1
<1>5. Synced(t, m, d, off, top)
  <2>1. Synced(s, m, n + d, off, top) /\ From(t, s, n) /\ Offsets(off, top)
    BY <1>1, <1>4 DEF InStepAt
  <2> QED
    BY <1>2, <1>3, <1>4, <2>1, SyncedFrom
<1>6. ~upset' => d = 1
  <2>1. ~upset => c = 1
    BY DEF InStepAt
  <2> QED
    BY <1>3, <1>4, <2>1
<1>7. Cardinality(Missing(m)') <= Allowed'
  <2>1. IsFiniteSet(Missing(m)) /\ Cardinality(Missing(m)) \in Nat
    <3>1. Missing(m) \subseteq resume..(m - 1) /\ resume \in Nat /\ m \in Nat
      BY <1>1, <1>2 DEF Missing
    <3> QED
      BY <3>1, Few
  <2>2. Cardinality(Missing(m)') <= Cardinality(Missing(m)) /\ Cardinality(Missing(m)') \in Nat
    BY <2>1, Fewer, FS_CardinalityType
  <2>3. Cardinality(Missing(m)) <= Allowed /\ Allowed' = Allowed /\ Allowed \in Nat
    BY SwallowedNat DEF InStepAt, Allowed
  <2> QED
    BY <2>1, <2>2, <2>3
<1>8. ASSUME Missing(m)' # {}, NEW j \in 1..(d - 1) PROVE t[j].v # MAGIC_0
  <2>1. n + j \in 1..(c - 1)
    BY <1>3, <1>4
  <2>2. s[n + j].v # MAGIC_0
    BY <1>1, <1>8, <2>1 DEF InStepAt
  <2>3. j \in 1..Len(t)
    <3>1. d \in 1..(Len(t) + 1)
      BY <1>5 DEF Synced
    <3>2. Len(t) \in Nat
      BY <1>2
    <3> QED
      BY <3>1, <3>2
  <2> QED
    BY <1>3, <2>2, <2>3
<1>9. InStepAt(m, d, off)'
  <2>1. Way' = t /\ sent' = top
    BY <1>1
  <2> QED
    BY <1>5, <1>6, <1>7, <1>8, <2>1 DEF InStepAt
<1>10. m \in (resume..(sent + 1))'
  OBVIOUS
<1> QED
  BY <1>9, <1>10 DEF InStep

(* All of frame m is there, from place c on.                               *)
WholeFrameAt(s, m, c, off, top) ==
  /\ Size(off, m) \in Nat /\ Size(off, m) >= Total(0) /\ Size(off, m) - Total(0) \in Payloads
  /\ m \in 1..top /\ c \in 1..Len(s) /\ c + Size(off, m) \in 1..(Len(s) + 1)
  /\ Synced(s, m + 1, c + Size(off, m), off, top)
  /\ \A d \in 1..Size(off, m) : s[c + d - 1].of = m /\ s[c + d - 1].at = d
  /\ s[c].v = MAGIC_0 /\ s[c].of = m /\ s[c].at = 1
  /\ s[c + 1].v = MAGIC_1
  /\ s[c + Header - 1].v = Size(off, m) - Total(0)

(* What the bytes of the frame in step are.                                *)
LEMMA FrameBytes ==
  ASSUME NEW top \in Nat, NEW off, Offsets(off, top), NEW s \in Seq(Byte), NEW m, NEW c,
         Synced(s, m, c, off, top), c # Len(s) + 1
  PROVE  WholeFrameAt(s, m, c, off, top)
<1>0. PICK z \in Nat : z = Size(off, m)
  BY FrameSynced
<1>1. /\ z \in Nat /\ z >= Total(0) /\ z - Total(0) \in Payloads
      /\ m \in 1..top /\ c + z \in 1..(Len(s) + 1)
      /\ \A d \in 1..z : AsSent(s[c + d - 1], off, top) /\ s[c + d - 1].of = m /\ s[c + d - 1].at = d
      /\ Synced(s, m + 1, c + z, off, top)
  BY <1>0, FrameSynced
<1>2. c \in 1..Len(s)
  BY DEF Synced
<1>3. PICK h \in Nat : h = Header /\ h >= 3 /\ z >= h
  BY <1>1, Sizes
<1>4. 1 \in 1..z /\ 2 \in 1..z /\ h \in 1..z
  BY <1>3
<1>5. c + 1 - 1 = c /\ c + 2 - 1 = c + 1
  BY <1>2
<1>6. s[c].v = MAGIC_0 /\ s[c].of = m /\ s[c].at = 1
  BY <1>1, <1>4, <1>5 DEF AsSent
<1>7. s[c + 1].v = MAGIC_1
  BY <1>1, <1>4, <1>5 DEF AsSent
<1>8. s[c + h - 1].v = z - Total(0)
  BY <1>0, <1>1, <1>3, <1>4 DEF AsSent, Size
<1> QED
  BY <1>0, <1>1, <1>2, <1>3, <1>6, <1>7, <1>8 DEF WholeFrameAt

(* The magic bytes of the frame in step, and what stands between them and  *)
(* its length.                                                             *)
LEMMA HeaderBytes ==
  ASSUME NEW top \in Nat, NEW off, Offsets(off, top), NEW s \in Seq(Byte), NEW m, NEW c,
         Synced(s, m, c, off, top), c # Len(s) + 1
  PROVE  /\ s[c].v = MAGIC_0 /\ s[c + 1].v = MAGIC_1
         /\ \A d \in 3..(Header - 1) : s[c + d - 1].v = DATA
<1>0. PICK z \in Nat : z = Size(off, m)
  BY FrameSynced
<1>1. /\ z >= Total(0)
      /\ \A d \in 1..z : AsSent(s[c + d - 1], off, top) /\ s[c + d - 1].of = m /\ s[c + d - 1].at = d
      /\ Synced(s, m + 1, c + z, off, top)
  BY <1>0, FrameSynced
<1>2. c \in 1..Len(s)
  BY DEF Synced
<1>3. PICK h \in Nat : h = Header /\ h >= 3 /\ z >= h
  BY <1>1, Sizes
<1>4. 1 \in 1..z /\ 2 \in 1..z /\ h \in 1..z
  BY <1>3
<1>5. c + 1 - 1 = c /\ c + 2 - 1 = c + 1
  BY <1>2
<1>6. s[c].v = MAGIC_0 /\ s[c].of = m /\ s[c].at = 1
  BY <1>1, <1>4, <1>5 DEF AsSent
<1>7. s[c + 1].v = MAGIC_1
  BY <1>1, <1>4, <1>5 DEF AsSent
<1>9. ASSUME NEW d \in 3..(h - 1) PROVE s[c + d - 1].v = DATA
  <2>1. d \in 1..z /\ d \notin {1, 2, h}
    BY <1>3
  <2> QED
    BY <1>1, <1>3, <2>1 DEF AsSent
<1> QED
  BY <1>3, <1>6, <1>7, <1>9

(* Where the search for the magic bytes ends.                              *)
LEMMA FirstMagic ==
  ASSUME ResyncInv, NEW off, Offsets(off, sent), NEW m \in resume..(sent + 1), NEW c \in Nat,
         InStepAt(m, c, off), busy, Len(buf) >= Total(0)
  PROVE  /\ Starts = {} => Len(buf) + 1 <= c
         /\ Starts # {} =>
              \E i \in 1..(Len(buf) - 1) :
                /\ i = Min(Starts) /\ buf[i].v = MAGIC_0 /\ buf[i + 1].v = MAGIC_1
                /\ i <= c /\ i + 1 # c
                /\ i # c => Missing(m) = {} /\ upset
<1>1. /\ RxInv /\ sent \in Nat /\ Synced(Way, m, c, off, sent)
      /\ resume \in Nat /\ m \in Nat /\ resume <= m
  BY DEF ResyncInv, RxInv, InStepAt
<1>2. PICK b \in Nat, w \in Nat : b = Len(buf) /\ w = Len(Way) /\ b <= w /\ b >= 3
  <2>1. Len(buf) \in Nat /\ Len(line) \in Nat /\ Len(Way) = Len(buf) + Len(line)
    BY <1>1, WayIs
  <2> QED
    BY <2>1, Sizes
<1>3. /\ Way \in Seq(Byte) /\ buf \in Seq(Byte)
      /\ \A i \in 1..b : Way[i] = buf[i] /\ i \in 1..w
  BY <1>1, <1>2, WayIs
<1>4. c \in 1..(w + 1)
  BY <1>1, <1>2 DEF Synced
<1>5. c # w + 1 => Way[c].v = MAGIC_0 /\ Way[c + 1].v = MAGIC_1 /\ Way[c].of = m /\ Way[c].at = 1
  <2>1. SUFFICES ASSUME c # Len(Way) + 1
        PROVE  Way[c].v = MAGIC_0 /\ Way[c + 1].v = MAGIC_1 /\ Way[c].of = m /\ Way[c].at = 1
    BY <1>2
  <2>2. WholeFrameAt(Way, m, c, off, sent)
    BY <1>1, <1>3, <2>1, FrameBytes
  <2> QED
    BY <2>2 DEF WholeFrameAt
<1>6. c \in 1..(b - 1) => c \in Starts
  <2>1. SUFFICES ASSUME c \in 1..(b - 1) PROVE c \in Starts
    OBVIOUS
  <2>2. c \in 1..b /\ c + 1 \in 1..b /\ c # w + 1
    BY <1>2, <2>1
  <2>3. buf[c] = Way[c] /\ buf[c + 1] = Way[c + 1]
    BY <1>3, <2>2
  <2> QED
    BY <1>2, <1>5, <2>1, <2>2, <2>3 DEF Starts
<1>7. ASSUME Starts = {} PROVE b + 1 <= c
  <2>1. SUFFICES ASSUME c = b PROVE FALSE
    BY <1>2, <1>4, <1>6, <1>7
  <2>2. upset
    BY <1>2, <2>1 DEF InStepAt
  <2>3. buf[b].at = 1 /\ buf[b].of = m
    <3>1. b \in 1..b /\ c # w + 1
      BY <1>2, <2>1
    <3> QED
      BY <1>3, <1>5, <2>1, <3>1
  <2>4. m < resume
    <3>1. buf # <<>>
      BY <1>2
    <3> QED
      BY <1>2, <2>2, <2>3, <3>1 DEF ResyncInv, SplitInv
  <2> QED
    BY <1>1, <2>4
<1>8. ASSUME Starts # {}
      PROVE  \E i \in 1..(b - 1) :
                /\ i = Min(Starts) /\ buf[i].v = MAGIC_0 /\ buf[i + 1].v = MAGIC_1
                /\ i <= c /\ i + 1 # c
                /\ i # c => Missing(m) = {} /\ upset
  <2>1. Starts \in SUBSET Nat
    BY <1>2 DEF Starts
  <2>2. PICK i : i = Min(Starts) /\ i \in Starts /\ \A j \in Starts : i <= j
    BY <1>8, <2>1, Smallest
  <2>3. i \in 1..(b - 1) /\ buf[i].v = MAGIC_0 /\ buf[i + 1].v = MAGIC_1
    BY <1>2, <2>2 DEF Starts
  <2>4. i <= c
    <3>1. CASE c \in 1..(b - 1)
      BY <1>6, <2>2, <3>1
    <3>2. CASE ~(c \in 1..(b - 1))
      BY <1>2, <1>4, <2>3, <3>2
    <3> QED
      BY <3>1, <3>2
  <2>5. i + 1 # c
    <3>1. SUFFICES ASSUME i + 1 = c PROVE FALSE
      OBVIOUS
    <3>2. c \in 1..b /\ c # w + 1
      BY <1>2, <2>3, <3>1
    <3>3. buf[c].v = MAGIC_0
      BY <1>3, <1>5, <3>2
    <3> QED
      BY <2>3, <3>1, <3>3, Sizes DEF MAGIC_0, MAGIC_1
  <2>6. ASSUME i # c PROVE Missing(m) = {} /\ upset
    <3>1. i \in 1..(c - 1) /\ c # 1
      BY <2>3, <2>4, <2>6
    <3>2. Way[i].v = MAGIC_0
      <4>1. i \in 1..b
        BY <2>3, <1>2
      <4> QED
        BY <1>3, <2>3, <4>1
    <3> QED
      BY <3>1, <3>2 DEF InStepAt
  <2> QED
    BY <2>2, <2>3, <2>4, <2>5, <2>6
<1> QED
  BY <1>2, <1>7, <1>8

(* The buffer from the first magic bytes on.                               *)
LEMMA FoundIs ==
  ASSUME RxInv, NEW i \in 1..(Len(buf) - 1), i = Min(Starts)
  PROVE  /\ From(Found, buf, i - 1) /\ Found \in Seq(Byte)
         /\ Len(Found) = Len(buf) + 1 - i
         /\ \A j \in 1..(Len(buf) + 1 - i) : Found[j] = buf[i + j - 1]
<1>1. buf \in Seq(Byte) /\ Len(buf) \in Nat
  BY DEF RxInv
<1>2. PICK n \in Nat : n = i - 1 /\ n <= Len(buf)
  BY <1>1
<1>3. PICK k \in 0..Len(buf) : From(Drop(buf, n), buf, k) /\ (n <= Len(buf) => k = n)
  BY <1>1, DropFrom
<1>4. Found = Drop(buf, n)
  BY <1>2 DEF Found
<1>5. From(Found, buf, n)
  BY <1>2, <1>3, <1>4
<1>6. /\ Found \in Seq(Byte) /\ Len(Found) = Len(buf) - n
      /\ \A j \in 1..Len(Found) : Found[j] = buf[n + j]
  BY <1>5 DEF From
<1>7. ASSUME NEW j \in 1..(Len(buf) + 1 - i) PROVE Found[j] = buf[i + j - 1]
  <2>1. j \in 1..Len(Found) /\ n + j = i + j - 1
    BY <1>1, <1>2, <1>6
  <2> QED
    BY <1>6, <2>1
<1> QED
  BY <1>1, <1>2, <1>5, <1>6, <1>7

(* What a turn of the decoder leaves alone.                                *)
LEMMA TurnKeeps ==
  ASSUME ResyncInv, RxInv', NEW n, From(buf', buf, n), line' = line, sent' = sent,
         upset' = upset, resume' = resume, busy' \in BOOLEAN, busy' => busy, Waiting',
         NEW off, Offsets(off, sent), OnLine(line, off, sent), InStep(off)'
  PROVE  ResyncInv'
<1>1. buf \in Seq(Byte) /\ buf' \in Seq(Byte) /\ Len(buf) \in Nat /\ Len(buf') \in Nat
  BY DEF ResyncInv, RxInv
<1>2. SplitInv'
  <2>1. SUFFICES ASSUME busy', upset', buf' # <<>>, buf'[Len(buf')].at = 1
                 PROVE  buf'[Len(buf')].of < resume'
    BY DEF SplitInv
  <2>2. PICK l \in Nat : l = Len(buf') /\ l >= 1
    BY <1>1, <2>1
  <2>3. n \in 0..Len(buf) /\ l = Len(buf) - n /\ \A j \in 1..l : buf'[j] = buf[n + j]
    BY <2>2 DEF From
  <2>4. l \in 1..l /\ n + l = Len(buf) /\ Len(buf) >= 1
    BY <1>1, <2>2, <2>3
  <2>5. buf'[l] = buf[Len(buf)]
    BY <2>3, <2>4
  <2>6. buf # <<>>
    BY <1>1, <2>4
  <2> QED
    BY <2>1, <2>2, <2>5, <2>6 DEF ResyncInv, SplitInv
<1>3. resume' \in (1..(sent + 1))' /\ upset' \in BOOLEAN
  BY DEF ResyncInv
<1>4. (Offsets(off, sent) /\ OnLine(line, off, sent))'
  OBVIOUS
<1> QED
  BY <1>2, <1>3, <1>4 DEF ResyncInv

(* Bytes dropped from the buffer are dropped in front of what is on the    *)
(* way.                                                                    *)
LEMMA WayFrom ==
  ASSUME RxInv, NEW n, From(buf', buf, n), line' = line
  PROVE  From(Way', Way, n)
<1>1. buf \in Seq(Byte) /\ line \in Seq(Byte)
  BY DEF RxInv
<1> QED
  BY <1>1, FromConcat DEF Way

(* A turn that drops bytes in front of the place where the decoder is in   *)
(* step.                                                                   *)
LEMMA TurnDrop ==
  ASSUME ResyncInv, RxInv', line' = line, sent' = sent, upset' = upset, resume' = resume,
         busy' \in BOOLEAN, busy' => busy, Waiting',
         NEW off, Offsets(off, sent), OnLine(line, off, sent),
         NEW m \in resume..(sent + 1), NEW c \in Nat, InStepAt(m, c, off),
         NEW n, From(buf', buf, n), n + 1 <= c, Missing(m)' \subseteq Missing(m)
  PROVE  ResyncInv'
<1>1. RxInv /\ resume \in 1..(sent + 1)
  BY DEF ResyncInv
<1>2. From(Way', Way, n)
  BY <1>1, WayFrom
<1>3. InStep(off)'
  BY <1>1, <1>2, StepDrop
<1> QED
  BY <1>3, TurnKeeps

(* The turns that wait for more bytes.                                     *)
LEMMA WaitResync == ASSUME ResyncInv, Wait PROVE ResyncInv'
<1>1. RxInv /\ RxInv' /\ resume \in 1..(sent + 1)
  BY WaitInv DEF ResyncInv
<1>2. /\ busy = TRUE /\ busy' = FALSE
      /\ line' = line /\ sent' = sent /\ handled' = handled /\ upset' = upset /\ resume' = resume
  BY DEF Wait, ResyncInv
<1>30. PICK off : Offsets(off, sent) /\ OnLine(line, off, sent) /\ InStep(off)
  BY DEF ResyncInv
<1>31. PICK m \in resume..(sent + 1), c \in Nat : InStepAt(m, c, off)
  BY <1>30 DEF InStep
<1>3. Offsets(off, sent) /\ OnLine(line, off, sent) /\ InStepAt(m, c, off)
  BY <1>30, <1>31
<1>4. PICK b \in Nat : b = Len(buf) /\ buf \in Seq(Byte)
  BY <1>1 DEF RxInv
<1>5. c >= 1
  <2>1. c \in 1..(Len(Way) + 1)
    BY <1>3 DEF InStepAt, Synced
  <2> QED
    BY <2>1
<1>6. ASSUME NEW n \in Nat, From(buf', buf, n), n + 1 <= c, Waiting' PROVE ResyncInv'
  <2>1. Missing(m)' \subseteq Missing(m)
    BY <1>2 DEF Missing
  <2>2. busy' \in BOOLEAN /\ (busy' => busy)
    BY <1>2
  <2> QED
    BY <1>1, <1>2, <1>3, <1>6, <2>1, <2>2, TurnDrop
<1>7. CASE Len(buf) < Total(0) /\ buf' = buf
  <2>1. From(buf', buf, 0) /\ 0 \in Nat /\ 0 + 1 <= c
    BY <1>4, <1>5, <1>7, FromSelf
  <2>2. Waiting'
    BY <1>7 DEF Waiting
  <2> QED
    BY <1>6, <2>1, <2>2
<1>8. CASE Len(buf) >= Total(0) /\ Starts = {} /\ buf' = <<>>
  <2>1. b + 1 <= c
    BY <1>2, <1>3, <1>4, <1>8, FirstMagic
  <2>2. From(buf', buf, b)
    BY <1>4, <1>8 DEF From
  <2>3. Waiting'
    <3>1. Len(buf') < Total(0)
      BY <1>8, Sizes
    <3> QED
      BY <3>1 DEF Waiting
  <2> QED
    BY <1>6, <2>1, <2>2, <2>3
<1>9. CASE /\ Len(buf) >= Total(0) /\ Starts # {}
           /\ \/ Len(Found) < Header
              \/ HasHeader /\ Length <= MaxPayload /\ Len(Found) < Total(Length)
           /\ buf' = Found
  <2>1. PICK i \in 1..(Len(buf) - 1) :
          i = Min(Starts) /\ buf[i].v = MAGIC_0 /\ buf[i + 1].v = MAGIC_1 /\ i <= c
    BY <1>2, <1>3, <1>9, FirstMagic
  <2>2. /\ From(Found, buf, i - 1) /\ Len(Found) = Len(buf) + 1 - i
        /\ \A j \in 1..(Len(buf) + 1 - i) : Found[j] = buf[i + j - 1]
    BY <1>1, <2>1, FoundIs
  <2>3. PICK n \in Nat : n = i - 1 /\ n + 1 <= c
    BY <2>1, <1>4
  <2>4. Waiting'
    <3>1. CASE Len(Found) < Header
      <4>1. Len(buf') < Total(0)
        <5>1. Header \in Nat /\ Total(0) = Header + Trailer /\ Trailer \in Nat
          BY Sizes
        <5>2. Len(Found) \in Nat
          BY <1>4, <2>1, <2>2
        <5>3. Len(Found) < Total(0)
          BY <3>1, <5>1, <5>2
        <5> QED
          BY <1>9, <5>3
      <4> QED
        BY <4>1 DEF Waiting
    <3>2. CASE HasHeader /\ Length <= MaxPayload /\ Len(Found) < Total(Length)
      <4>1. buf'[Header].v <= MaxPayload /\ Len(buf') < Total(buf'[Header].v)
        BY <1>9, <3>2 DEF Length
      <4>2. 1 \in 1..(b + 1 - i) /\ 2 \in 1..(b + 1 - i) /\ i + 1 - 1 = i /\ i + 2 - 1 = i + 1
        BY <1>4, <2>1
      <4>3. buf'[1] = buf[i] /\ buf'[2] = buf[i + 1]
        <5>1. Found[1] = buf[i + 1 - 1] /\ Found[2] = buf[i + 2 - 1]
          BY <1>4, <2>2, <4>2
        <5> QED
          BY <1>9, <4>2, <5>1
      <4> QED
        BY <2>1, <4>1, <4>3 DEF Waiting
    <3> QED
      BY <1>9, <3>1, <3>2
  <2> QED
    BY <1>6, <1>9, <2>2, <2>3, <2>4
<1> QED
  BY <1>7, <1>8, <1>9 DEF Wait

(* A damaged header takes its length from what is before the place where   *)
(* the decoder is in step, or from one of the bytes that mean nothing.     *)
LEMMA LengthByte ==
  ASSUME RxInv, NEW off, Offsets(off, sent), NEW m, NEW c \in Nat, Synced(Way, m, c, off, sent),
         NEW i \in Nat, i >= 1, i + 2 <= c, c + 1 <= i + Header, i + Header - 1 <= Len(buf),
         buf[i + Header - 1].v <= MaxPayload
  PROVE  buf[i + Header - 1].v = 1
<1>1. PICK h \in Nat : h = Header /\ h >= 3
  BY Sizes
<1>2. PICK b \in Nat : b = Len(buf) /\ b <= Len(Way) /\ Len(Way) \in Nat
  <2>1. Len(buf) \in Nat /\ Len(line) \in Nat /\ Len(Way) = Len(buf) + Len(line)
    BY WayIs
  <2> QED
    BY <2>1
<1>3. i + h - 1 <= b /\ i + 2 <= c /\ c + 1 <= i + h
  BY <1>1, <1>2
<1>4. PICK d \in Nat : d = i + h - c /\ d >= 1 /\ d <= h - 2
  BY <1>3
<1>5. c # Len(Way) + 1 /\ c + d - 1 = i + h - 1 /\ i + h - 1 \in 1..b
  BY <1>1, <1>2, <1>3, <1>4
<1>6. Way \in Seq(Byte) /\ sent \in Nat
  BY WayIs DEF RxInv
<1>7. Way[c].v = MAGIC_0 /\ Way[c + 1].v = MAGIC_1 /\ \A x \in 3..(h - 1) : Way[c + x - 1].v = DATA
  <2>1. PICK s, top : s = Way /\ top = sent
    OBVIOUS
  <2>2. s[c].v = MAGIC_0 /\ s[c + 1].v = MAGIC_1 /\ \A x \in 3..(Header - 1) : s[c + x - 1].v = DATA
    <3>1. s \in Seq(Byte) /\ top \in Nat /\ Offsets(off, top) /\ Synced(s, m, c, off, top) /\ c # Len(s) + 1
      BY <1>5, <1>6, <2>1
    <3> QED
      BY <3>1, HeaderBytes
  <2> QED
    BY <1>1, <2>1, <2>2
<1>8. Way[i + h - 1] = buf[i + h - 1]
  BY <1>2, <1>5, WayIs
<1>9. Way[c + d - 1].v <= MaxPayload
  BY <1>1, <1>5, <1>8
<1>10. CASE d = 1
  <2>1. c + d - 1 = c
    BY <1>10
  <2> QED
    BY <1>7, <1>9, <2>1, Sizes DEF MAGIC_0
<1>11. CASE d = 2
  <2>1. c + d - 1 = c + 1
    BY <1>11
  <2> QED
    BY <1>7, <1>9, <2>1, Sizes DEF MAGIC_1
<1>12. CASE d \in 3..(h - 1)
  <2>1. Way[c + d - 1].v = DATA
    BY <1>7, <1>12
  <2> QED
    BY <1>1, <1>5, <1>8, <2>1 DEF DATA
<1>13. d = 1 \/ d = 2 \/ d \in 3..(h - 1)
  BY <1>4
<1> QED
  BY <1>10, <1>11, <1>12, <1>13

(* A header with an impossible length.                                     *)
LEMMA SkipResync == ASSUME ResyncInv, SkipHeader PROVE ResyncInv'
<1>1. RxInv /\ RxInv'
  BY SkipInv DEF ResyncInv
<1>2. /\ busy = TRUE /\ busy' = TRUE /\ Waiting'
      /\ line' = line /\ sent' = sent /\ handled' = handled /\ upset' = upset /\ resume' = resume
      /\ Len(buf) >= Total(0) /\ Starts # {} /\ Len(Found) >= Header
      /\ Length > MaxPayload /\ buf' = Drop(Found, 2)
  BY DEF SkipHeader, HasHeader, ResyncInv, Waiting
<1>30. PICK off : Offsets(off, sent) /\ OnLine(line, off, sent) /\ InStep(off)
  BY DEF ResyncInv
<1>31. PICK m \in resume..(sent + 1), c \in Nat : InStepAt(m, c, off)
  BY <1>30 DEF InStep
<1>4. PICK b \in Nat : b = Len(buf) /\ buf \in Seq(Byte)
  BY <1>1 DEF RxInv
<1>5. PICK i \in 1..(b - 1) : i = Min(Starts) /\ i <= c /\ i + 1 # c
  BY <1>2, <1>30, <1>31, <1>4, FirstMagic
<1>6. /\ From(Found, buf, i - 1) /\ Found \in Seq(Byte) /\ Len(Found) = b + 1 - i
      /\ \A j \in 1..(b + 1 - i) : Found[j] = buf[i + j - 1]
  BY <1>1, <1>4, <1>5, FoundIs
<1>7. From(buf', buf, i + 1)
  <2>1. 2 \in Nat /\ 2 <= Len(Found)
    BY <1>2, <1>4, <1>5, <1>6
  <2>2. From(buf', Found, 2)
    BY <1>2, <1>6, <2>1, DropFrom
  <2>3. From(buf', buf, i - 1 + 2) /\ i - 1 + 2 = i + 1
    BY <1>4, <1>5, <1>6, <2>2, FromTrans
  <2> QED
    BY <2>3
<1>8. i # c
  <2>1. SUFFICES ASSUME i = c PROVE FALSE
    OBVIOUS
  <2>2. PICK h \in Nat : h = Header /\ h >= 3
    BY Sizes
  <2>3. h \in 1..(b + 1 - i)
    BY <1>2, <1>4, <1>5, <1>6, <2>2
  <2>4. i + h - 1 \in 1..b
    BY <1>5, <2>3
  <2>5. Length = buf[i + h - 1].v
    BY <1>6, <2>2, <2>3 DEF Length
  <2>6. /\ Way \in Seq(Byte) /\ sent \in Nat /\ Way[i + h - 1] = buf[i + h - 1]
        /\ Len(Way) \in Nat /\ b <= Len(Way)
    <3>1. Len(line) \in Nat /\ Len(Way) = b + Len(line) /\ Way \in Seq(Byte)
      BY <1>1, <1>4, WayIs
    <3>2. Len(Way) \in Nat /\ b <= Len(Way)
      BY <3>1
    <3>3. Way[i + h - 1] = buf[i + h - 1]
      BY <1>1, <1>4, <2>4, WayIs
    <3> QED
      BY <1>1, <3>1, <3>2, <3>3 DEF RxInv
  <2>7. c # Len(Way) + 1
    BY <1>5, <2>1, <2>6
  <2>8. WholeFrameAt(Way, m, c, off, sent)
    BY <1>30, <1>31, <2>6, <2>7, FrameBytes DEF InStepAt
  <2>9. Length \in Payloads
    BY <2>1, <2>2, <2>5, <2>6, <2>8 DEF WholeFrameAt
  <2> QED
    BY <1>2, <2>9, Sizes
<1>9. i + 1 + 1 <= c
  BY <1>5, <1>8
<1>10. Missing(m)' \subseteq Missing(m)
  BY <1>2 DEF Missing
<1> QED
  BY <1>1, <1>2, <1>30, <1>31, <1>7, <1>9, <1>10, TurnDrop

(* The length lies within the frame it announces.                          *)
LEMMA LengthWithin ==
  ASSUME NEW i \in Nat, NEW h \in Nat, NEW l \in Nat, NEW t \in Nat, NEW e \in Nat, NEW b \in Nat,
         e + 1 = i + (h + l + t), e <= b
  PROVE  i + h - 1 <= b
OBVIOUS

(* A header in what comes before place c, of a length that is possible,    *)
(* swallows what is left up to the end it announces, and the frame begun   *)
(* there; the decoder is in step with the next one.                        *)
LEMMA TurnSwallow ==
  ASSUME ResyncInv, RxInv', line' = line, sent' = sent, upset' = upset, resume' = resume,
         busy' \in BOOLEAN, busy' => busy, Waiting',
         NEW off, Offsets(off, sent), OnLine(line, off, sent),
         NEW m \in resume..(sent + 1), NEW c \in Nat, InStepAt(m, c, off),
         NEW i \in Nat, i >= 1, i + 2 <= c, Missing(m) = {}, upset,
         NEW l \in Nat, l = buf[i + Header - 1].v, l <= MaxPayload,
         NEW e \in Nat, e + 1 = i + Total(l), c <= e + 1, e <= Len(buf), From(buf', buf, e),
         \A k : (\A j \in DOMAIN handled' : handled'[j] # k) => \A j \in DOMAIN handled : handled[j] # k
  PROVE  ResyncInv'
<1>1. RxInv /\ sent \in Nat /\ resume \in 1..(sent + 1) /\ Way \in Seq(Byte)
  BY WayIs DEF ResyncInv, RxInv
<1>2. From(Way', Way, e)
  BY <1>1, WayFrom
<1>3. Synced(Way, m, c, off, sent)
  BY DEF InStepAt
<1>4. PICK k \in m..(sent + 1), d \in Nat :
           /\ Synced(Way', k, d, off, sent)
           /\ \A j \in 1..(d - 1) : Way'[j].v # MAGIC_0
           /\ k # m => off[k - 1] < off[m] + (e + 1 - c)
  <2>1. PICK s, t, top : s = Way /\ t = Way' /\ top = sent
    OBVIOUS
  <2>2. \E k \in m..(top + 1), d \in Nat :
           /\ Synced(t, k, d, off, top)
           /\ \A j \in 1..(d - 1) : t[j].v # MAGIC_0
           /\ k # m => off[k - 1] < off[m] + (e + 1 - c)
    <3>1. top \in Nat /\ Offsets(off, top) /\ s \in Seq(Byte) /\ Synced(s, m, c, off, top)
          /\ From(t, s, e) /\ e + 1 >= c
      BY <1>1, <1>2, <1>3, <2>1
    <3> QED
      BY <3>1, CutSynced
  <2> QED
    BY <2>1, <2>2
<1>5. k \in resume..(sent + 1) /\ m \in Nat /\ k \in Nat /\ m <= k /\ m >= 1 /\ resume \in Nat
  BY <1>1, <1>4
<1>6. Missing(k)' \subseteq m..(k - 1)
  <2>1. SUFFICES ASSUME NEW x \in Missing(k)', x < m PROVE FALSE
    <3>1. \A x \in Missing(k)' : x \in resume..(k - 1)
      BY DEF Missing
    <3> QED
      BY <1>5, <2>1, <3>1
  <2>2. x \in resume..(m - 1)
    BY <1>5, <2>1 DEF Missing
  <2>3. \A j \in DOMAIN handled : handled[j] # x
    BY <2>1 DEF Missing
  <2>4. x \in Missing(m)
    BY <2>2, <2>3 DEF Missing
  <2> QED
    BY <2>4
<1>7. Cardinality(Missing(k)') \in Nat /\ Cardinality(Missing(k)') <= k - m
  BY <1>5, <1>6, Few
<1>8. k - m <= Swallowed
  <2>1. CASE k = m
    BY <1>5, <2>1, SwallowedNat
  <2>2. CASE k # m
    <3>1. PICK n \in Nat : n = k - 1 - m /\ k - m = n + 1
      <4>1. k - 1 - m \in Nat /\ k - m = k - 1 - m + 1
        BY <1>5, <2>2
      <4> QED
        BY <4>1
    <3>2. m \in 1..(sent + 1) /\ k - 1 \in m..(sent + 1) /\ k - 1 \in 1..(sent + 1)
      BY <1>1, <1>5, <2>2
    <3>3. off[m] + n * Shortest <= off[k - 1] /\ off[m] \in Nat /\ off[k - 1] \in Nat /\ n * Shortest \in Nat
      <4>1. /\ off[m] + (k - 1 - m) * Shortest <= off[k - 1] /\ off[m] \in Nat /\ off[k - 1] \in Nat
            /\ (k - 1 - m) * Shortest \in Nat
        BY <1>1, <3>2, Later
      <4> QED
        BY <3>1, <4>1
    <3>4. n * Shortest < e + 1 - c
      <4>1. PICK x \in Nat, p \in Nat, q \in Nat : x = n * Shortest /\ p = off[m] /\ q = off[k - 1]
        BY <3>3
      <4>2. p + x <= q /\ q < p + (e + 1 - c)
        BY <1>4, <2>2, <3>3, <4>1
      <4>3. x < e + 1 - c
        BY <4>2
      <4> QED
        BY <4>1, <4>3
    <3>5. ASSUME c + 1 <= i + Header PROVE l = 1
      <4>1. i + Header - 1 <= Len(buf)
        <5>1. PICK h \in Nat, t \in Nat, b \in Nat : h = Header /\ t = Trailer /\ b = Len(buf)
          <6>1. Len(buf) \in Nat
            BY <1>1 DEF RxInv
          <6> QED
            BY <6>1, Sizes
        <5>2. e + 1 = i + (h + l + t) /\ e <= b
          <6>1. Total(l) = h + l + t
            BY <5>1 DEF Total
          <6> QED
            BY <5>1, <6>1
        <5>3. i + h - 1 <= b
          <6>1. PICK y \in Nat, x \in Nat : x + 1 = i + (h + y + t) /\ x <= b
            BY <5>2
          <6> QED
            BY <6>1, LengthWithin
        <5> QED
          BY <5>1, <5>3
      <4> QED
        BY <1>1, <1>3, <3>5, <4>1, LengthByte
    <3>6. n + 1 <= Swallowed
      <4>1. e + 1 <= i + Total(l)
        <5>1. PICK x \in Nat : x = i + Total(l)
          OBVIOUS
        <5> QED
          BY <5>1
      <4> QED
        BY <3>4, <3>5, <4>1, Announced
    <3> QED
      BY <3>1, <3>6
  <2> QED
    BY <2>1, <2>2
<1>9. Cardinality(Missing(k)') <= Allowed'
  <2>1. Allowed' = Swallowed
    BY DEF Allowed
  <2> QED
    BY <1>5, <1>7, <1>8, <2>1, SwallowedNat
<1>10. InStepAt(k, d, off)'
  <2>1. Synced(Way', k, d, off, sent')
    BY <1>4
  <2> QED
    BY <1>4, <1>9, <2>1 DEF InStepAt
<1>11. InStep(off)'
  <2>1. k \in resume'..(sent' + 1)
    BY <1>5
  <2> QED
    BY <1>10, <2>1 DEF InStep
<1> QED
  BY <1>11, TurnKeeps

(* A complete frame where the decoder is in step is handled.               *)
LEMMA TakeResync == ASSUME ResyncInv, TakeFrame PROVE ResyncInv'
<1> DEFINE frame == SubSeq(Found, 1, Total(Length))
<1>1. RxInv /\ RxInv' /\ sent \in Nat /\ handled \in Seq(Nat) /\ resume \in 1..(sent + 1)
  BY TakeInv DEF ResyncInv, RxInv
<1>2. /\ busy = TRUE /\ busy' = TRUE /\ Waiting'
      /\ line' = line /\ sent' = sent /\ upset' = upset /\ resume' = resume
      /\ Len(buf) >= Total(0) /\ Starts # {} /\ Len(Found) >= Header
      /\ Length <= MaxPayload /\ Len(Found) >= Total(Length) /\ buf' = Drop(Found, Total(Length))
      /\ handled' = IF Decodes(frame) THEN Append(handled, frame[1].of) ELSE handled
  BY DEF TakeFrame, HasHeader, ResyncInv, Waiting
<1> HIDE DEF frame
<1>30. PICK off : Offsets(off, sent) /\ OnLine(line, off, sent) /\ InStep(off)
  BY DEF ResyncInv
<1>31. PICK m \in resume..(sent + 1), c \in Nat : InStepAt(m, c, off)
  BY <1>30 DEF InStep
<1>4. PICK b \in Nat : b = Len(buf) /\ buf \in Seq(Byte)
  BY <1>1 DEF RxInv
<1>5. PICK i \in 1..(b - 1) : i = Min(Starts) /\ i <= c /\ i + 1 # c /\ (i # c => Missing(m) = {} /\ upset)
  BY <1>2, <1>30, <1>31, <1>4, FirstMagic
<1>6. /\ From(Found, buf, i - 1) /\ Found \in Seq(Byte) /\ Len(Found) = b + 1 - i
      /\ \A j \in 1..(b + 1 - i) : Found[j] = buf[i + j - 1]
  BY <1>1, <1>4, <1>5, FoundIs
<1>7. PICK h \in Nat : h = Header /\ h >= 3 /\ h \in 1..(b + 1 - i) /\ i + h - 1 \in 1..b
  <2>1. PICK h \in Nat : h = Header /\ h >= 3 /\ h <= b + 1 - i
    BY <1>2, <1>6, Sizes
  <2>2. h \in 1..(b + 1 - i) /\ i + h - 1 \in 1..b
    BY <1>5, <2>1
  <2> QED
    BY <2>1, <2>2
<1>8. PICK l \in Nat : l = Length /\ l = buf[i + Header - 1].v /\ l <= MaxPayload
  <2>1. Length = buf[i + h - 1].v
    BY <1>6, <1>7 DEF Length
  <2>2. \A j \in 1..b : buf[j] \in Byte
    BY <1>4
  <2>3. buf[i + h - 1].v \in Nat
    BY <1>7, <2>2 DEF Byte
  <2> QED
    BY <1>2, <1>7, <2>1, <2>3
<1>9. PICK w \in Nat : w = Total(l) /\ w >= 3 /\ w <= b + 1 - i /\ w = l + Total(0)
  <2>1. Total(l) = Header + l + Trailer /\ Total(0) = Header + Trailer /\ Header \in Nat /\ Trailer \in Nat /\ Header >= 3
    BY Sizes DEF Total
  <2>2. Total(l) \in Nat /\ Total(l) >= 3 /\ Total(l) = l + Total(0)
    BY <2>1
  <2>3. Total(l) <= b + 1 - i
    BY <1>2, <1>6, <1>8
  <2> QED
    BY <2>2, <2>3
<1>10. PICK e \in Nat : e + 1 = i + w /\ e <= b
  <2>1. i + w - 1 \in Nat /\ i + w - 1 + 1 = i + w /\ i + w - 1 <= b
    BY <1>5, <1>9
  <2> QED
    BY <2>1
<1>11. From(buf', buf, e)
  <2>1. w <= Len(Found) /\ buf' = Drop(Found, w)
    BY <1>2, <1>8, <1>9
  <2>2. From(buf', Found, w)
    <3>1. PICK F : F = Found
      OBVIOUS
    <3>2. PICK k \in 0..Len(F) : From(Drop(F, w), F, k) /\ (w <= Len(F) => k = w)
      BY <1>6, <3>1, DropFrom
    <3> QED
      BY <2>1, <3>1, <3>2
  <2>3. From(buf', buf, i - 1 + w)
    BY <1>4, <1>6, <2>2, FromTrans
  <2>4. i - 1 + w = e
    BY <1>5, <1>10
  <2> QED
    BY <2>3, <2>4
<1>12. \A k : (\A j \in DOMAIN handled' : handled'[j] # k) => \A j \in DOMAIN handled : handled[j] # k
  <2>1. CASE handled' = handled
    BY <2>1
  <2>2. ASSUME NEW x, handled' = Append(handled, x), NEW k, NEW j \in DOMAIN handled, handled[j] = k
        PROVE  \E q \in DOMAIN handled' : handled'[q] = k
    <3>1. handled'[j] = handled[j] /\ j \in DOMAIN handled'
      BY <1>1, <2>2
    <3> QED
      BY <2>2, <3>1
  <2> QED
    BY <1>2, <2>1, <2>2
<1>13. CASE i # c
  <2>1. i + 2 <= c /\ i >= 1 /\ i \in Nat /\ Missing(m) = {} /\ upset
    BY <1>5, <1>13
  <2>2. CASE e + 1 <= c
    <3>1. Missing(m)' \subseteq Missing(m)
      BY <1>2, <1>12 DEF Missing
    <3> QED
      BY <1>1, <1>2, <1>30, <1>31, <1>11, <2>2, <3>1, TurnDrop
  <2>3. CASE c <= e + 1
    <3>1. e + 1 = i + Total(l) /\ e <= Len(buf)
      BY <1>4, <1>9, <1>10
    <3> QED
      BY <1>1, <1>2, <1>30, <1>31, <1>8, <1>11, <1>12, <2>1, <2>3, <3>1, TurnSwallow
  <2> QED
    BY <1>10, <2>2, <2>3
<1>14. CASE i = c
  <2>1. /\ Way \in Seq(Byte) /\ Len(Way) \in Nat /\ b <= Len(Way)
        /\ \A j \in 1..b : Way[j] = buf[j]
    <3>1. Len(line) \in Nat /\ Len(Way) = b + Len(line) /\ Way \in Seq(Byte)
      BY <1>1, <1>4, WayIs
    <3>2. Len(Way) \in Nat /\ b <= Len(Way)
      BY <3>1
    <3>3. \A j \in 1..b : Way[j] = buf[j]
      BY <1>1, <1>4, WayIs
    <3> QED
      BY <3>1, <3>2, <3>3
  <2>2. Synced(Way, m, c, off, sent) /\ c # Len(Way) + 1
    BY <1>5, <1>14, <1>31, <2>1 DEF InStepAt
  <2>3. PICK z \in Nat :
        /\ z - Total(0) \in Payloads /\ m \in 1..sent
        /\ Synced(Way, m + 1, c + z, off, sent)
        /\ \A d \in 1..z : Way[c + d - 1].of = m /\ Way[c + d - 1].at = d
        /\ Way[c + Header - 1].v = z - Total(0)
    <3>1. WholeFrameAt(Way, m, c, off, sent)
      BY <1>1, <1>30, <2>1, <2>2, FrameBytes
    <3> QED
      BY <3>1 DEF WholeFrameAt
  <2>4. z = w
    <3>1. Way[i + h - 1] = buf[i + h - 1]
      BY <1>7, <2>1
    <3>2. l = z - Total(0)
      BY <1>7, <1>8, <1>14, <2>3, <3>1
    <3> QED
      BY <1>9, <2>3, <3>2, Sizes
  <2>5. Decodes(frame) /\ frame[1].of = m
    <3>1. PICK g : g = SubSeq(Found, 1, w)
      OBVIOUS
    <3>2. g = frame
      BY <1>8, <1>9, <3>1 DEF frame
    <3>3. \A j \in 1..w : Found[j] \in Byte
      BY <1>6, <1>9
    <3>4. /\ g \in Seq(Byte) /\ Len(g) = IF 1 <= w THEN w - 1 + 1 ELSE 0
          /\ \A j \in 1..(w - 1 + 1) : g[j] = Found[1 + j - 1]
      BY <3>1, <3>3, SubSeqProperties
    <3>5. g \in Seq(Byte) /\ Len(g) = w /\ \A j \in 1..w : g[j] = Found[j]
      <4>1. w - 1 + 1 = w /\ (1 <= w)
        BY <1>9
      <4>2. \A j \in 1..w : 1 + j - 1 = j
        OBVIOUS
      <4> QED
        BY <3>4, <4>1, <4>2
    <3>6. ASSUME NEW j \in 1..w PROVE g[j].of = m /\ g[j].at = j
      <4>1. j \in 1..(b + 1 - i) /\ i + j - 1 \in 1..b
        BY <1>5, <1>9
      <4>2. g[j] = Way[c + j - 1]
        BY <1>6, <1>14, <2>1, <3>5, <4>1
      <4> QED
        BY <2>3, <2>4, <4>2
    <3>7. DOMAIN g = 1..w /\ 1 \in 1..w /\ m # 0
      BY <1>9, <2>3, <3>5
    <3> QED
      BY <3>2, <3>6, <3>7 DEF Decodes
  <2>6. handled' = Append(handled, m)
    BY <1>2, <2>5
  <2>7. PICK n \in Nat : n = m /\ n \in 1..sent /\ n \in resume..sent
    BY <1>1, <2>3
  <2>8. Missing(n + 1)' \subseteq Missing(m)
    <3>1. ASSUME NEW x \in Missing(n + 1)' PROVE x \in Missing(m)
      <4>1. x \in resume..(n + 1 - 1) /\ \A j \in DOMAIN handled' : handled'[j] # x
        BY <1>2 DEF Missing
      <4>2. x # n
        <5>1. Len(handled) + 1 \in DOMAIN handled' /\ handled'[Len(handled) + 1] = m
          BY <1>1, <2>6, <2>7
        <5> QED
          BY <2>7, <4>1, <5>1
      <4>3. x \in resume..(m - 1)
        BY <1>1, <2>7, <4>1, <4>2
      <4> QED
        BY <1>12, <4>1, <4>3 DEF Missing
    <3> QED
      BY <3>1
  <2>9. Cardinality(Missing(n + 1)') <= Allowed'
    <3>1. m \in 1..(sent + 1)
      BY <1>1, <2>7
    <3>2. IsFiniteSet(Missing(m)) /\ Cardinality(Missing(m)) \in Nat
      BY <3>1, MissingFinite
    <3>3. Cardinality(Missing(n + 1)') <= Cardinality(Missing(m)) /\ Cardinality(Missing(n + 1)') \in Nat
      BY <2>8, <3>2, Fewer, FS_CardinalityType
    <3>4. Cardinality(Missing(m)) <= Allowed /\ Allowed' = Allowed /\ Allowed \in Nat
      BY <1>2, <1>31, SwallowedNat DEF InStepAt, Allowed
    <3> QED
      BY <3>2, <3>3, <3>4
  <2>10. Synced(Way', n + 1, 1, off, sent)
    <3>1. From(Way', Way, e)
      BY <1>1, <1>2, <1>11, WayFrom
    <3>2. e + 1 = c + z
      BY <1>10, <1>14, <2>4
    <3>3. Synced(Way, n + 1, e + 1, off, sent)
      BY <2>3, <2>7, <3>2
    <3>4. PICK s, t, top : s = Way /\ t = Way' /\ top = sent
      OBVIOUS
    <3>5. Synced(t, n + 1, 1, off, top)
      <4>1. top \in Nat /\ Offsets(off, top) /\ s \in Seq(Byte) /\ From(t, s, e) /\ Synced(s, n + 1, e + 1, off, top)
        BY <1>1, <1>30, <2>1, <3>1, <3>3, <3>4
      <4> QED
        BY <4>1, SyncedFrom
    <3> QED
      BY <3>4, <3>5
  <2>11. InStepAt(n + 1, 1, off)'
    <3>1. Synced(Way', n + 1, 1, off, sent') /\ 1..(1 - 1) = {}
      BY <1>2, <2>10
    <3> QED
      BY <2>9, <3>1 DEF InStepAt
  <2>12. InStep(off)'
    <3>1. n + 1 \in (resume'..(sent' + 1))
      BY <1>1, <1>2, <2>7
    <3> QED
      BY <2>11, <3>1 DEF InStep
  <2> QED
    BY <1>1, <1>2, <1>30, <1>11, <2>12, TurnKeeps
<1> QED
  BY <1>13, <1>14

(* At the end of what was sent any place is in step.                       *)
LEMMA SyncedEnd ==
  ASSUME NEW top \in Nat, NEW off, Offsets(off, top), NEW s \in Seq(Byte)
  PROVE  Synced(s, top + 1, Len(s) + 1, off, top)
<1>1. PICK l \in Nat : l = Len(s)
  OBVIOUS
<1>2. top + 1 \in 1..(top + 1) /\ l + 1 \in 1..(l + 1) /\ (l + 1)..l = {}
  OBVIOUS
<1>3. PICK p \in Nat : p = off[top + 1]
  BY <1>2, Later
<1>4. p + (l + 1 - (l + 1)) = p
  OBVIOUS
<1> QED
  BY <1>1, <1>2, <1>3, <1>4 DEF Synced, Clean

(* What is left of the line is as the line was.                            *)
LEMMA OnLineFrom ==
  ASSUME NEW top, NEW off, NEW s \in Seq(Byte), OnLine(s, off, top), NEW t, NEW n, From(t, s, n)
  PROVE  OnLine(t, off, top)
<1>1. PICK g \in 1..(Len(s) + 1) : (\A j \in 1..(g - 1) : s[j].of = 0) /\ Clean(s, g, off, top)
  BY DEF OnLine
<1>2. PICK a \in Nat, b \in Nat : a = Len(s) /\ b = Len(t)
  BY DEF From
<1>3. n \in 0..a /\ b = a - n /\ g \in 1..(a + 1)
  BY <1>1, <1>2 DEF From
<1>4. ASSUME NEW h \in 1..(b + 1), n + h >= g,
             \A j \in 1..(h - 1) : t[j].of = 0
      PROVE  OnLine(t, off, top)
  <2>1. ASSUME NEW j \in h..b PROVE InPlace(t, j, off, top)
    <3>1. n + j \in g..a /\ j \in 1..b
      BY <1>3, <1>4
    <3>2. InPlace(s, n + j, off, top)
      BY <1>1, <1>2, <3>1 DEF Clean
    <3> QED
      BY <1>2, <3>1, <3>2, PlaceFrom
  <2>2. Clean(t, h, off, top)
    BY <1>2, <2>1 DEF Clean
  <2> QED
    BY <1>2, <1>4, <2>2 DEF OnLine
<1>5. CASE g <= n + 1
  <2>1. 1 \in 1..(b + 1) /\ n + 1 >= g /\ 1..(1 - 1) = {}
    BY <1>3, <1>5
  <2> QED
    BY <1>4, <2>1
<1>6. CASE n + 1 <= g
  <2>1. g - n \in 1..(b + 1) /\ n + (g - n) >= g
    BY <1>3, <1>6
  <2>2. ASSUME NEW j \in 1..(g - n - 1) PROVE t[j].of = 0
    <3>1. j \in 1..b /\ n + j \in 1..(g - 1)
      BY <1>3, <1>6
    <3> QED
      BY <1>1, <1>2, <3>1 DEF From
  <2> QED
    BY <1>4, <2>1, <2>2
<1> QED
  BY <1>3, <1>5, <1>6

(* A byte the line made up comes first.                                    *)
LEMMA OnLineInsert ==
  ASSUME NEW top, NEW off, NEW s \in Seq(Byte), OnLine(s, off, top), NEW x \in Byte, x.of = 0
  PROVE  OnLine(<<x>> \o s, off, top)
<1>1. PICK g \in 1..(Len(s) + 1) : (\A j \in 1..(g - 1) : s[j].of = 0) /\ Clean(s, g, off, top)
  BY DEF OnLine
<1>2. PICK t : t = <<x>> \o s
  OBVIOUS
<1>3. PICK a \in Nat : a = Len(s)
  OBVIOUS
<1>4. /\ t \in Seq(Byte) /\ Len(t) = 1 + a
      /\ \A i \in 1..(1 + a) : t[i] = IF i <= 1 THEN <<x>>[i] ELSE s[i - 1]
  <2>1. <<x>> \in Seq(Byte) /\ Len(<<x>>) = 1
    OBVIOUS
  <2> QED
    BY <1>2, <1>3, <2>1, ConcatProperties
<1>5. t[1] = x
  <2>1. 1 \in 1..(1 + a)
    OBVIOUS
  <2> QED
    BY <1>4, <2>1
<1>6. ASSUME NEW i \in 1..a PROVE s[i] = t[1 + i]
  <2>1. 1 + i \in 1..(1 + a) /\ ~(1 + i <= 1) /\ 1 + i - 1 = i
    OBVIOUS
  <2> QED
    BY <1>4, <2>1
<1>7. From(s, t, 1)
  <2>1. 1 \in 0..(1 + a) /\ a = 1 + a - 1
    OBVIOUS
  <2> QED
    BY <1>3, <1>4, <1>6, <2>1 DEF From
<1>8. ASSUME NEW j \in (g + 1)..(1 + a) PROVE InPlace(t, j, off, top)
  <2>1. PICK i \in Nat : i = j - 1 /\ i \in g..a /\ i \in 1..a /\ j = 1 + i
    <3>1. g \in Nat /\ g >= 1
      BY <1>1
    <3>2. j - 1 \in Nat /\ j - 1 \in g..a /\ j - 1 \in 1..a /\ j = 1 + (j - 1)
      BY <3>1
    <3> QED
      BY <3>2
  <2>2. InPlace(s, i, off, top)
    BY <1>1, <1>3, <2>1 DEF Clean
  <2>3. PICK n : n = 1
    OBVIOUS
  <2>4. From(s, t, n) /\ t \in Seq(Byte) /\ i \in 1..Len(s)
    BY <1>3, <1>4, <1>7, <2>1, <2>3
  <2>5. InPlace(t, n + i, off, top)
    BY <2>2, <2>4, PlaceFrom
  <2> QED
    BY <2>1, <2>3, <2>5
<1>9. ASSUME NEW j \in 1..g PROVE t[j].of = 0
  <2>1. CASE j = 1
    BY <1>5, <2>1
  <2>2. CASE j # 1
    <3>1. PICK i \in Nat : i = j - 1 /\ i \in 1..(g - 1) /\ i \in 1..a /\ j = 1 + i
      <4>1. g \in 1..(a + 1)
        BY <1>1, <1>3
      <4>2. j - 1 \in Nat /\ j - 1 \in 1..(g - 1) /\ j - 1 \in 1..a /\ j = 1 + (j - 1)
        BY <2>2, <4>1
      <4> QED
        BY <4>2
    <3> QED
      BY <1>1, <1>6, <3>1
  <2> QED
    BY <2>1, <2>2
<1>10. g + 1 \in 1..(Len(t) + 1) /\ g + 1 - 1 = g /\ Clean(t, g + 1, off, top)
  BY <1>1, <1>3, <1>4, <1>8 DEF Clean
<1>11. PICK h : h = g + 1
  OBVIOUS
<1>12. h \in 1..(Len(t) + 1) /\ (\A j \in 1..(h - 1) : t[j].of = 0) /\ Clean(t, h, off, top)
  BY <1>9, <1>10, <1>11
<1> QED
  BY <1>2, <1>12 DEF OnLine

(* The line is disturbed: the frames from the next one on count.           *)
LEMMA DisturbResync == ASSUME ResyncInv, Disturb PROVE ResyncInv'
<1>1. RxInv /\ RxInv' /\ sent \in Nat /\ line \in Seq(Byte) /\ buf \in Seq(Byte) /\ busy \in BOOLEAN
  BY DisturbInv DEF ResyncInv, RxInv
<1>2. /\ sent' = sent /\ buf' = buf /\ busy' = busy /\ upset' = TRUE /\ resume' = sent + 1
      /\ handled' = handled /\ line # <<>>
  BY DEF Disturb
<1>3. PICK off : Offsets(off, sent) /\ OnLine(line, off, sent)
  BY DEF ResyncInv
<1>4. OnLine(line', off, sent)
  <2>1. From(Tail(line), line, 1) /\ Tail(line) \in Seq(Byte)
    <3>1. PICK a \in Nat : a = Len(line) /\ a >= 1
      BY <1>1, <1>2
    <3>2. Tail(line) \in Seq(Byte) /\ Len(Tail(line)) = a - 1 /\ \A i \in 1..(a - 1) : Tail(line)[i] = line[i + 1]
      BY <1>1, <1>2, <3>1, HeadTailProperties
    <3>3. 1 \in 0..a /\ \A i \in 1..(a - 1) : i + 1 = 1 + i
      BY <3>1
    <3> QED
      BY <3>1, <3>2, <3>3 DEF From
  <2>2. OnLine(Tail(line), off, sent)
    BY <1>1, <1>3, <2>1, OnLineFrom
  <2>3. ASSUME NEW v \in Values, NEW l \in Seq(Byte), OnLine(l, off, sent)
        PROVE  OnLine(<<[v |-> v, of |-> 0, at |-> 0]>> \o l, off, sent)
    <3>1. v \in Nat
      BY RxAssumption DEF Values, MAGIC_1
    <3>2. PICK x : x = [v |-> v, of |-> 0, at |-> 0]
      OBVIOUS
    <3>3. x \in Byte /\ x.of = 0
      BY <3>1, <3>2 DEF Byte
    <3> QED
      BY <2>3, <3>2, <3>3, OnLineInsert
  <2> QED
    BY <1>1, <1>3, <2>1, <2>2, <2>3 DEF Disturb
<1>5. InStep(off)'
  <2>1. PICK t, c, top : t = Way' /\ c = Len(t) + 1 /\ top = sent
    OBVIOUS
  <2>2. t \in Seq(Byte) /\ c \in Nat
    <3>1. buf' \in Seq(Byte) /\ line' \in Seq(Byte)
      BY <1>1 DEF RxInv
    <3>2. t \in Seq(Byte)
      BY <2>1, <3>1, ConcatProperties DEF Way
    <3> QED
      BY <2>1, <3>2
  <2>3. Synced(t, top + 1, c, off, top)
    BY <1>1, <1>3, <2>1, <2>2, SyncedEnd
  <2>4. Missing(sent + 1)' = {}
    <3>1. resume'..(sent + 1 - 1) = {}
      BY <1>1, <1>2
    <3> QED
      BY <3>1, <1>2 DEF Missing
  <2>5. Cardinality(Missing(sent + 1)') <= Allowed'
    <3>1. Cardinality({}) = 0
      BY FS_EmptySet
    <3>2. Allowed' = Swallowed
      BY <1>2 DEF Allowed
    <3> QED
      BY <2>4, <3>1, <3>2, SwallowedNat
  <2>6. Synced(Way', sent + 1, c, off, sent')
    BY <1>2, <2>1, <2>3
  <2>7. InStepAt(sent + 1, c, off)'
    BY <1>2, <2>4, <2>5, <2>6 DEF InStepAt
  <2>8. sent + 1 \in resume'..(sent' + 1)
    BY <1>1, <1>2
  <2>9. PICK m : m = sent + 1
    OBVIOUS
  <2>10. m \in (resume..(sent + 1))' /\ InStepAt(m, c, off)'
    BY <1>2, <2>7, <2>8, <2>9
  <2> QED
    BY <2>2, <2>10 DEF InStep
<1>6. SplitInv'
  <2>1. SUFFICES ASSUME buf # <<>> PROVE buf[Len(buf)].of < sent + 1
    BY <1>2 DEF SplitInv
  <2>2. Len(buf) \in 1..Len(buf)
    BY <1>1, <2>1
  <2>3. Way[Len(buf)] = buf[Len(buf)] /\ Len(buf) \in 1..Len(Way)
    BY <1>1, <2>2, WayIs
  <2>4. buf[Len(buf)].of <= sent
    BY <1>1, <2>3, OfSent
  <2>5. buf[Len(buf)].of \in Nat
    <3>1. \A i \in 1..Len(buf) : buf[i] \in Byte
      BY <1>1
    <3> QED
      BY <2>2, <3>1 DEF Byte
  <2> QED
    BY <1>1, <2>4, <2>5
<1>7. Waiting'
  BY <1>2 DEF ResyncInv, Waiting
<1>8. resume' \in 1..(sent' + 1) /\ upset' \in BOOLEAN /\ busy' \in BOOLEAN
  BY <1>1, <1>2
<1>9. (Offsets(off, sent) /\ OnLine(line, off, sent))'
  BY <1>2, <1>3, <1>4
<1> QED
  BY <1>1, <1>5, <1>6, <1>7, <1>8, <1>9 DEF ResyncInv

(* What one read takes from the line.                                      *)
LEMMA Chunk ==
  ASSUME RxInv, NEW n \in 1..Len(line), NEW c, c = SubSeq(line, 1, n)
  PROVE  /\ c \in Seq(Byte) /\ Len(c) = n /\ \A i \in 1..n : c[i] = line[i]
         /\ From(Drop(line, n), line, n)
         /\ c \o Drop(line, n) = line
<1>1. line \in Seq(Byte) /\ Len(line) \in Nat /\ n \in Nat /\ n >= 1 /\ n <= Len(line)
  BY DEF RxInv
<1>2. \A i \in 1..n : line[i] \in Byte
  BY <1>1
<1>3. /\ c \in Seq(Byte) /\ Len(c) = IF 1 <= n THEN n - 1 + 1 ELSE 0
      /\ \A i \in 1..(n - 1 + 1) : c[i] = line[1 + i - 1]
  BY <1>1, <1>2, SubSeqProperties
<1>4. n - 1 + 1 = n /\ \A i \in 1..n : 1 + i - 1 = i
  BY <1>1
<1>5. From(Drop(line, n), line, n)
  <2>1. PICK k : From(Drop(line, n), line, k) /\ (n <= Len(line) => k = n)
    BY <1>1, DropFrom
  <2> QED
    BY <1>1, <2>1
<1>6. c \o Drop(line, n) = line
  <2>1. 1 \in 1..(Len(line) + 1) /\ n \in (1 - 1)..Len(line) /\ Len(line) \in n..Len(line)
    BY <1>1
  <2>2. c \o Drop(line, n) = SubSeq(line, 1, Len(line))
    BY <1>1, <2>1, ConcatAdjacentSubSeq DEF Drop
  <2> QED
    BY <1>1, <2>2, SubSeqFull
<1> QED
  BY <1>1, <1>3, <1>4, <1>5, <1>6

(* The buffer ends with the last byte read, unless that emptied it; if     *)
(* there was room for all, nothing is lost.                                *)
LEMMA Filled ==
  ASSUME RxInv, NEW n \in 1..Len(line), line' = Drop(line, n),
         buf' = Fill(buf, SubSeq(line, 1, n))
  PROVE  /\ ~(Len(buf) + n > BufSize) => Way' = Way
         /\ buf' # <<>> => buf'[Len(buf')] = line[n]
<1>1. /\ buf \in Seq(Byte) /\ line \in Seq(Byte) /\ Len(buf) \in Nat /\ n \in Nat /\ n >= 1
      /\ Len(buf) <= BufSize /\ BufSize \in Nat
  BY RxAssumption DEF RxInv
<1>2. PICK c, r : c = SubSeq(line, 1, n) /\ r = Drop(line, n)
  OBVIOUS
<1>3. /\ c \in Seq(Byte) /\ Len(c) = n /\ \A i \in 1..n : c[i] = line[i]
      /\ From(r, line, n) /\ r \in Seq(Byte) /\ c \o r = line
  BY <1>2, Chunk DEF From
<1>4. CASE n <= BufSize - Len(buf)
  <2>1. buf' = buf \o c
    BY <1>2, <1>3, <1>4 DEF Fill
  <2>2. Way' = Way
    <3>1. (buf \o c) \o r = buf \o (c \o r)
      BY <1>1, <1>3, Associative
    <3> QED
      BY <1>2, <1>3, <2>1, <3>1 DEF Way
  <2>3. buf'[Len(buf')] = line[n]
    <3>1. PICK a \in Nat : a = Len(buf)
      BY <1>1
    <3>2. /\ Len(buf') = a + n
          /\ \A i \in 1..(a + n) : buf'[i] = IF i <= a THEN buf[i] ELSE c[i - a]
      BY <1>1, <1>3, <2>1, <3>1, ConcatProperties
    <3>3. a + n \in 1..(a + n) /\ ~(a + n <= a) /\ a + n - a = n /\ n \in 1..n
      BY <1>1
    <3>4. buf'[a + n] = c[n] /\ c[n] = line[n]
      BY <1>3, <3>2, <3>3
    <3> QED
      BY <3>2, <3>4
  <2> QED
    BY <2>2, <2>3
<1>5. CASE ~(n <= BufSize - Len(buf))
  <2>1. PICK x \in Nat : buf' = Drop(c, x)
    <3>1. PICK room \in Nat : room = BufSize - Len(buf) /\ ~(n <= room)
      BY <1>1, <1>5
    <3>2. PICK x : x = room + 1 + ((n - room - 1) \div (BufSize + 1)) * (BufSize + 1)
      OBVIOUS
    <3>3. buf' = Drop(c, x)
      BY <1>2, <1>3, <1>5, <3>1, <3>2 DEF Fill
    <3>4. x \in Nat
      <4>1. BufSize + 1 \in Nat /\ BufSize + 1 >= 1
        BY <1>1
      <4> QED
        BY <1>1, <3>1, <3>2, <4>1, Overflow
    <3> QED
      BY <3>3, <3>4
  <2>2. PICK k \in 0..Len(c) : From(buf', c, k)
    BY <1>3, <2>1, DropFrom
  <2>3. ASSUME buf' # <<>> PROVE buf'[Len(buf')] = line[n]
    <3>1. buf' \in Seq(Byte)
      BY <2>2 DEF From
    <3>2. PICK l \in Nat : l = Len(buf') /\ l >= 1
      BY <2>3, <3>1
    <3>3. l = n - k /\ \A i \in 1..l : buf'[i] = c[k + i]
      BY <1>3, <2>2, <3>2 DEF From
    <3>4. l \in 1..l /\ k + l = n /\ n \in 1..n
      BY <1>1, <1>3, <2>2, <3>2, <3>3
    <3> QED
      BY <1>3, <3>2, <3>3, <3>4
  <2> QED
    BY <1>1, <1>5, <2>3
<1> QED
  BY <1>4, <1>5

(* The decoder is in step with the frame that begins next on the line, and *)
(* it is behind the frame of the last byte read if that byte is its first. *)
LEMMA NextInStep ==
  ASSUME RxInv, RxInv', NEW n \in 1..Len(line), line' = Drop(line, n), sent' = sent,
         NEW off, Offsets(off, sent), OnLine(line', off, sent)
  PROVE  /\ NextStart(line') \in 1..(sent + 1)
         /\ line[n].at = 1 => line[n].of < NextStart(line')
         /\ \E c \in Nat : Synced(Way', NextStart(line'), c, off, sent)
<1>1. /\ sent \in Nat /\ line \in Seq(Byte) /\ buf \in Seq(Byte) /\ line' \in Seq(Byte) /\ buf' \in Seq(Byte)
      /\ n \in Nat /\ n <= Len(line) /\ Len(line) \in Nat
  BY DEF RxInv
<1>2. From(line', line, n)
  BY Chunk
<1>3. From(line', Way', Len(buf')) /\ Way' \in Seq(Byte) /\ Len(buf') \in Nat
  <2>0. PICK s, t : s = Way' /\ t = line'
    OBVIOUS
  <2>1. PICK a \in Nat, b \in Nat : a = Len(buf') /\ b = Len(t)
    BY <1>1, <2>0
  <2>2. /\ s \in Seq(Byte) /\ Len(s) = a + b
        /\ \A i \in 1..(a + b) : s[i] = IF i <= a THEN buf'[i] ELSE t[i - a]
    BY <1>1, <2>0, <2>1, ConcatProperties DEF Way
  <2>3. ASSUME NEW i \in 1..b PROVE t[i] = s[a + i]
    <3>1. a + i \in 1..(a + b) /\ ~(a + i <= a) /\ (a + i) - a = i
      OBVIOUS
    <3> QED
      BY <2>2, <3>1
  <2>4. a \in 0..(a + b) /\ b = (a + b) - a
    OBVIOUS
  <2> QED
    BY <1>1, <2>0, <2>1, <2>2, <2>3, <2>4 DEF From
<1>4. PICK f \in Nat, x \in Nat : f = line[n].of /\ x = line[n].at
  <2>1. \A i \in 1..Len(line) : line[i] \in Byte
    BY <1>1
  <2> QED
    BY <2>1 DEF Byte
<1>5. PICK a \in Nat, b \in Nat : a = Len(buf) /\ b = Len(line) /\ a + n \in 1..(a + b)
  BY <1>1
<1>6. /\ Len(Way) = a + b /\ \A i \in 1..b : Way[a + i] = line[i]
  BY <1>5, WayIs DEF From
<1>7. f <= sent
  <2>1. Way[a + n] = line[n] /\ a + n \in 1..Len(Way)
    BY <1>5, <1>6
  <2> QED
    BY <1>4, <2>1, OfSent
<1>8. CASE line' = <<>> \/ line'[1].of = 0
  <2>1. NextStart(line') = sent + 1
    BY <1>8 DEF NextStart
  <2>2. PICK t, top : t = Way' /\ top = sent
    OBVIOUS
  <2>3. Synced(t, top + 1, Len(t) + 1, off, top) /\ Len(t) + 1 \in Nat
    BY <1>1, <1>3, <2>2, SyncedEnd
  <2> QED
    BY <1>1, <1>4, <1>7, <2>1, <2>2, <2>3
<1>9. CASE ~(line' = <<>> \/ line'[1].of = 0)
  <2>1. PICK s, top : s = line' /\ top = sent
    OBVIOUS
  <2>2. s \in Seq(Byte) /\ s # <<>> /\ s[1].of # 0 /\ top \in Nat /\ Offsets(off, top) /\ OnLine(s, off, top)
    BY <1>1, <1>9, <2>1
  <2>3. Clean(s, 1, off, top)
    <3>1. PICK g \in 1..(Len(s) + 1) : (\A j \in 1..(g - 1) : s[j].of = 0) /\ Clean(s, g, off, top)
      BY <2>2 DEF OnLine
    <3>2. g = 1
      <4>1. SUFFICES ASSUME g # 1 PROVE FALSE
        OBVIOUS
      <4>2. 1 \in 1..(g - 1)
        BY <2>2, <4>1
      <4> QED
        BY <2>2, <3>1, <4>2
    <3> QED
      BY <3>1, <3>2
  <2>4. PICK m : m = IF s[1].at = 1 THEN s[1].of ELSE s[1].of + 1
    OBVIOUS
  <2>5. NextStart(line') = m
    BY <1>9, <2>1, <2>4 DEF NextStart
  <2>6. PICK c \in Nat : Synced(s, m, c, off, top)
    BY <2>2, <2>3, <2>4, NextSynced
  <2>7. m \in 1..(top + 1) /\ c >= 1
    BY <2>6 DEF Synced
  <2>80. PICK k \in Nat : k = Len(buf') /\ From(s, Way', k) /\ Way' \in Seq(Byte)
    BY <1>3, <2>1
  <2>8. PICK t : k = Len(buf') /\ t = Way' /\ From(s, t, k) /\ t \in Seq(Byte)
    BY <2>80
  <2>9. Synced(t, m, k + c, off, top) /\ k + c \in Nat
    BY <2>2, <2>6, <2>7, <2>8, SyncedFrom
  <2>10. ASSUME line[n].at = 1 PROVE f < m
    <3>1. PICK i \in Nat : i = n + 1 /\ i \in 1..b /\ s[1] = line[i] /\ 1 \in 1..Len(s)
      <4>1. Len(s) \in Nat /\ Len(s) >= 1 /\ 1 \in 1..Len(s)
        BY <2>2
      <4>2. Len(s) = b - n /\ s[1] = line[n + 1]
        BY <1>2, <1>5, <2>1, <4>1 DEF From
      <4>3. n + 1 \in Nat /\ n + 1 \in 1..b
        BY <1>1, <1>5, <4>1, <4>2
      <4> QED
        BY <4>1, <4>2, <4>3
    <3>2. PICK g \in Nat, y \in Nat : g = s[1].of /\ y = s[1].at
      <4>1. \A j \in 1..Len(s) : s[j] \in Byte
        BY <2>2
      <4> QED
        BY <3>1, <4>1 DEF Byte
    <3>3. Before(line[n], s[1])
      <4>1. Way[a + i] = line[i] /\ Way[a + n] = line[n]
        BY <1>1, <1>5, <1>6, <3>1
      <4>2. a + i \in 1..Len(Way) /\ a + n \in 1..(a + i - 1)
        BY <1>1, <1>5, <1>6, <3>1
      <4>3. Before(Way[a + n], Way[a + i])
        BY <4>2, OfSent
      <4> QED
        BY <3>1, <4>1, <4>3
    <3>4. f = 0 \/ f < g \/ (f = g /\ 1 < y)
      BY <1>4, <2>2, <2>10, <3>2, <3>3 DEF Before
    <3>5. m = IF y = 1 THEN g ELSE g + 1
      BY <2>4, <3>2
    <3>6. g # 0
      BY <2>2, <3>2
    <3> QED
      BY <3>4, <3>5, <3>6
  <2> QED
    BY <1>4, <2>1, <2>5, <2>7, <2>8, <2>9, <2>10
<1> QED
  BY <1>8, <1>9

(* One read of the driver.                                                 *)
LEMMA ReceiveResync == ASSUME ResyncInv, Receive PROVE ResyncInv'
<1>1. RxInv /\ RxInv' /\ sent \in Nat /\ line \in Seq(Byte) /\ resume \in 1..(sent + 1) /\ upset \in BOOLEAN
  BY ReceiveInv DEF ResyncInv, RxInv
<1>2. PICK n \in 1..Len(line) :
        LET over == Len(buf) + n > BufSize
            split == upset /\ line[n].at = 1
        IN /\ line' = Drop(line, n)
           /\ buf' = Fill(buf, SubSeq(line, 1, n))
           /\ upset' = (upset \/ over)
           /\ resume' = IF over \/ split THEN NextStart(line') ELSE resume
  BY DEF Receive
<1>3. busy' = TRUE /\ sent' = sent /\ handled' = handled
  BY DEF Receive
<1>4. PICK off : Offsets(off, sent) /\ OnLine(line, off, sent) /\ InStep(off)
  BY DEF ResyncInv
<1>5. OnLine(line', off, sent)
  <2>1. From(line', line, n)
    BY <1>1, <1>2, Chunk
  <2> QED
    BY <1>1, <1>4, <2>1, OnLineFrom
<1>6. /\ ~(Len(buf) + n > BufSize) => Way' = Way
      /\ buf' # <<>> => buf'[Len(buf')] = line[n]
  BY <1>1, <1>2, Filled
<1>7. Waiting' /\ busy' \in BOOLEAN /\ upset' \in BOOLEAN /\ (Offsets(off, sent) /\ OnLine(line, off, sent))'
  BY <1>1, <1>2, <1>3, <1>4, <1>5 DEF Waiting
<1>8. ASSUME resume' \in 1..(sent + 1), InStep(off)', SplitInv' PROVE ResyncInv'
  BY <1>1, <1>3, <1>7, <1>8 DEF ResyncInv
<1>9. CASE ~(Len(buf) + n > BufSize) /\ ~(upset /\ line[n].at = 1)
  <2>1. resume' = resume /\ upset' = upset /\ Way' = Way
    BY <1>1, <1>2, <1>6, <1>9
  <2>2. InStep(off)'
    <3>1. PICK m \in resume..(sent + 1), c \in Nat : InStepAt(m, c, off)
      BY <1>4 DEF InStep
    <3>2. Missing(m)' = Missing(m) /\ Allowed' = Allowed
      BY <1>3, <2>1 DEF Missing, Allowed
    <3>3. InStepAt(m, c, off)' /\ m \in (resume..(sent + 1))'
      BY <1>3, <2>1, <3>1, <3>2 DEF InStepAt
    <3> QED
      BY <3>3 DEF InStep
  <2>3. SplitInv'
    BY <1>6, <1>9, <2>1 DEF SplitInv
  <2> QED
    BY <1>1, <1>8, <2>1, <2>2, <2>3
<1>10. CASE Len(buf) + n > BufSize \/ (upset /\ line[n].at = 1)
  <2>1. upset' = TRUE /\ resume' = NextStart(line')
    BY <1>1, <1>2, <1>10
  <2>2. /\ resume' \in 1..(sent + 1)
        /\ line[n].at = 1 => line[n].of < resume'
        /\ \E c \in Nat : Synced(Way', resume', c, off, sent)
    BY <1>1, <1>2, <1>3, <1>4, <1>5, <2>1, NextInStep
  <2>30. PICK c \in Nat : Synced(Way', resume', c, off, sent)
    BY <2>2
  <2>3. PICK m : m = resume' /\ Synced(Way', m, c, off, sent)
    BY <2>30
  <2>4. Missing(m)' = {}
    <3>1. resume'..(m - 1) = {}
      BY <1>1, <2>2, <2>3
    <3> QED
      BY <3>1 DEF Missing
  <2>5. Cardinality(Missing(m)') <= Allowed'
    <3>1. Cardinality({}) = 0
      BY FS_EmptySet
    <3>2. Allowed' = Swallowed
      BY <2>1 DEF Allowed
    <3> QED
      BY <2>4, <3>1, <3>2, SwallowedNat
  <2>6. InStepAt(m, c, off)'
    BY <1>3, <2>1, <2>3, <2>4, <2>5 DEF InStepAt
  <2>7. m \in resume'..(sent' + 1)
    BY <1>1, <1>3, <2>2, <2>3
  <2>8. InStep(off)'
    BY <2>6, <2>7 DEF InStep
  <2>9. SplitInv'
    BY <1>6, <2>2 DEF SplitInv
  <2> QED
    BY <1>8, <2>2, <2>8, <2>9
<1> QED
  BY <1>9, <1>10

(* The bytes uproto_encode_frame writes.                                   *)
LEMMA EncodeBytes ==
  ASSUME NEW k \in Nat, NEW len \in Payloads, NEW e, e = Encode(k, len)
  PROVE  /\ e \in Seq(Byte) /\ Len(e) = Total(len)
         /\ \A i \in 1..Total(len) :
              /\ e[i].of = k /\ e[i].at = i
              /\ i = 1 => e[i].v = MAGIC_0
              /\ i = 2 => e[i].v = MAGIC_1
              /\ i = Header => e[i].v = len
              /\ i \notin {1, 2, Header} => e[i].v = DATA
<1>1. e \in Seq(Byte)
  BY EncodeIs
<1>2. PICK n \in Nat : n = Total(len)
  BY Sizes
<1>3. /\ DOMAIN e = 1..n
      /\ \A i \in 1..n : e[i] =
           [v |-> CASE i = 1 -> MAGIC_0 [] i = 2 -> MAGIC_1 [] i = Header -> len [] OTHER -> DATA,
            of |-> k, at |-> i]
  BY <1>2 DEF Encode
<1>4. Len(e) = n
  BY <1>1, <1>3
<1>5. ASSUME NEW i \in 1..n
      PROVE  /\ e[i].of = k /\ e[i].at = i
             /\ i = 1 => e[i].v = MAGIC_0
             /\ i = 2 => e[i].v = MAGIC_1
             /\ i = Header => e[i].v = len
             /\ i \notin {1, 2, Header} => e[i].v = DATA
  BY <1>3, Sizes
<1> QED
  BY <1>1, <1>2, <1>4, <1>5

(* The frame sent begins behind all others.                                *)
Extends(new, off, top, len) ==
  /\ Offsets(new, top + 1)
  /\ new[top + 2] = off[top + 1] + Total(len)
  /\ \A k \in 1..(top + 1) : new[k] = off[k]

(* There is room behind them for one more.                                 *)
LEMMA SendOffsets ==
  ASSUME NEW top \in Nat, NEW off, Offsets(off, top), NEW len \in Payloads
  PROVE  \E new : Extends(new, off, top, len)
<1>0. PICK new : new = [off EXCEPT ![top + 2] = off[top + 1] + Total(len)]
  OBVIOUS
<1>1. /\ off \in [Nat -> Nat] /\ top + 1 \in Nat /\ top + 2 \in Nat
      /\ off[top + 1] \in Nat /\ Total(len) \in Nat /\ Total(len) >= Shortest /\ Shortest \in Nat
      /\ Shortest >= 1
  BY Sizes DEF Offsets
<1>2. new \in [Nat -> Nat]
  BY <1>0, <1>1
<1>3. new[top + 2] = off[top + 1] + Total(len)
  BY <1>0, <1>1
<1>4. \A k \in 1..(top + 1) : new[k] = off[k]
  BY <1>0, <1>1
<1>5. ASSUME NEW k \in 1..(top + 1) PROVE \E x \in Payloads : new[k + 1] = new[k] + Total(x)
  <2>1. CASE k = top + 1
    <3>1. k + 1 = top + 2 /\ top + 1 \in 1..(top + 1)
      BY <2>1
    <3> QED
      BY <1>3, <1>4, <2>1, <3>1
  <2>2. CASE k # top + 1
    <3>1. k \in 1..top /\ k + 1 \in 1..(top + 1)
      BY <2>2
    <3>2. \E x \in Payloads : off[k + 1] = off[k] + Total(x)
      BY <3>1 DEF Offsets
    <3> QED
      BY <1>4, <3>1, <3>2
  <2> QED
    BY <2>1, <2>2
<1>6. ASSUME NEW j \in 1..(top + 1 + 1), NEW k \in j..(top + 1 + 1)
      PROVE  new[j] + (k - j) * Shortest <= new[k]
  <2>1. CASE k # top + 2
    <3>1. j \in 1..(top + 1) /\ k \in 1..(top + 1) /\ k \in j..(top + 1)
      BY <2>1
    <3>2. off[j] + (k - j) * Shortest <= off[k]
      BY <3>1 DEF Offsets
    <3> QED
      BY <1>4, <3>1, <3>2
  <2>2. CASE k = top + 2 /\ j # top + 2
    <3>1. j \in 1..(top + 1) /\ top + 1 \in j..(top + 1)
      BY <2>2
    <3>2. PICK d \in Nat : d = top + 1 - j /\ d + 1 = k - j
      <4>1. top + 1 - j \in Nat /\ top + 1 - j + 1 = k - j
        BY <2>2, <3>1
      <4> QED
        BY <4>1
    <3>3. off[j] + d * Shortest <= off[top + 1] /\ off[j] \in Nat
      <4>1. off[j] + (top + 1 - j) * Shortest <= off[top + 1]
        BY <3>1 DEF Offsets
      <4>2. off[j] \in Nat
        BY <1>1, <3>1
      <4> QED
        BY <3>2, <4>1, <4>2
    <3>4. (d + 1) * Shortest = d * Shortest + Shortest /\ d * Shortest \in Nat
      BY <1>1, Times
    <3>5. off[j] + (d + 1) * Shortest <= off[top + 1] + Total(len)
      <4>1. PICK x \in Nat, s \in Nat, p \in Nat, q \in Nat, t \in Nat :
              x = d * Shortest /\ s = Shortest /\ p = off[j] /\ q = off[top + 1] /\ t = Total(len)
        BY <1>1, <3>3, <3>4
      <4>2. p + x <= q /\ t >= s /\ (d + 1) * Shortest = x + s
        BY <1>1, <3>3, <3>4, <4>1
      <4>3. p + (x + s) <= q + t
        BY <4>2
      <4> QED
        BY <4>1, <4>2, <4>3
    <3> QED
      BY <1>3, <1>4, <2>2, <3>1, <3>2, <3>5
  <2>3. CASE k = top + 2 /\ j = top + 2
    <3>1. k - j = 0 /\ 0 * Shortest = 0
      BY <1>1, <2>3, Times
    <3>2. new[k] \in Nat
      BY <1>1, <1>2, <2>3
    <3> QED
      BY <2>3, <3>1, <3>2
  <2> QED
    BY <2>1, <2>2, <2>3
<1>7. top + 1 + 1 = top + 2
  OBVIOUS
<1>8. Offsets(new, top + 1)
  BY <1>2, <1>5, <1>6 DEF Offsets
<1> QED
  BY <1>3, <1>4, <1>8 DEF Extends

(* A frame behind what was clean.                                          *)
Longer(s, c, t, len, new, top) ==
  /\ t \in Seq(Byte) /\ Len(t) = Len(s) + Total(len)
  /\ \A j \in 1..Len(s) : t[j] = s[j]
  /\ Clean(t, c, new, top + 1)

(* What was clean stays clean when a frame is sent.                        *)
LEMMA SendClean ==
  ASSUME NEW top \in Nat, NEW off, Offsets(off, top), NEW len \in Payloads, NEW new,
         Extends(new, off, top, len),
         NEW s \in Seq(Byte), NEW c \in 1..(Len(s) + 1), Clean(s, c, off, top)
  PROVE  Longer(s, c, s \o Encode(top + 1, len), len, new, top)
<1>0. PICK e, t : e = Encode(top + 1, len) /\ t = s \o e
  OBVIOUS
<1>1. /\ top + 1 \in Nat
      /\ new[top + 2] = off[top + 1] + Total(len)
      /\ \A k \in 1..(top + 1) : new[k] = off[k]
      /\ \A k \in 1..(top + 1) : off[k] \in Nat
  <2>1. new[top + 2] = off[top + 1] + Total(len) /\ \A k \in 1..(top + 1) : new[k] = off[k]
    BY DEF Extends
  <2>2. \A k \in 1..(top + 1) : off[k] \in Nat
    BY Later
  <2> QED
    BY <2>1, <2>2
<1>2. /\ e \in Seq(Byte) /\ Len(e) = Total(len)
      /\ \A i \in 1..Total(len) :
           /\ e[i].of = top + 1 /\ e[i].at = i
           /\ i = 1 => e[i].v = MAGIC_0
           /\ i = 2 => e[i].v = MAGIC_1
           /\ i = Header => e[i].v = len
           /\ i \notin {1, 2, Header} => e[i].v = DATA
  BY <1>0, <1>1, EncodeBytes
<1>3. PICK a \in Nat, n \in Nat : a = Len(s) /\ n = Total(len)
  BY Sizes
<1>4. /\ t \in Seq(Byte) /\ Len(t) = a + n
      /\ \A i \in 1..(a + n) : t[i] = IF i <= a THEN s[i] ELSE e[i - a]
  <2>1. e \in Seq(Byte) /\ Len(e) = n
    BY <1>2, <1>3
  <2>2. /\ s \o e \in Seq(Byte) /\ Len(s \o e) = Len(s) + Len(e)
        /\ \A i \in 1..(Len(s) + Len(e)) : (s \o e)[i] = IF i <= Len(s) THEN s[i] ELSE e[i - Len(s)]
    BY <2>1, ConcatProperties
  <2> QED
    BY <1>0, <1>3, <2>1, <2>2
<1>5. \A j \in 1..a : t[j] = s[j]
  BY <1>4
<1>6. PICK w \in Nat : w = off[top + 1]
  <2>1. top + 1 \in 1..(top + 1)
    OBVIOUS
  <2> QED
    BY <1>1, <2>1
<1>7. ASSUME NEW j \in c..a PROVE InPlace(t, j, new, top + 1)
  <2>1. j \in 1..a /\ InPlace(s, j, off, top) /\ t[j] = s[j]
    BY <1>3, <1>5 DEF Clean
  <2>2. PICK f, x : f = s[j].of /\ x = s[j].at
    OBVIOUS
  <2>3. /\ f \in 1..top /\ x \in 1..(off[f + 1] - off[f]) /\ off[f] + x + (a - j) = w
    BY <1>3, <1>6, <2>1, <2>2 DEF InPlace, AsSent
  <2>4. f \in 1..(top + 1) /\ f + 1 \in 1..(top + 1)
    BY <2>3
  <2>5. new[f] = off[f] /\ new[f + 1] = off[f + 1] /\ off[f] \in Nat /\ off[f + 1] \in Nat
    BY <1>1, <2>4
  <2>6. AsSent(t[j], new, top + 1)
    <3>1. AsSent(s[j], off, top)
      BY <2>1 DEF InPlace
    <3> QED
      BY <2>1, <2>2, <2>4, <2>5, <3>1 DEF AsSent
  <2>7. new[f] + x + (a + n - j) = new[top + 2]
    <3>1. PICK p \in Nat : p = off[f]
      BY <2>5
    <3>2. x \in Int
      BY <2>3, <2>5
    <3>3. p + x + (a - j) = w
      BY <2>3, <3>1
    <3>4. p + x + (a + n - j) = w + n
      BY <2>1, <3>2, <3>3
    <3> QED
      BY <1>1, <1>3, <1>6, <2>5, <3>1, <3>4
  <2> QED
    <3>1. top + 1 + 1 = top + 2
      OBVIOUS
    <3>2. new[t[j].of] + t[j].at + (Len(t) - j) = new[top + 1 + 1]
      <4>1. t[j].of = f /\ t[j].at = x /\ Len(t) = a + n
        BY <1>4, <2>1, <2>2
      <4>2. new[t[j].of] = new[f]
        BY <4>1
      <4>3. Len(t) - j = a + n - j
        BY <4>1
      <4>4. new[top + 1 + 1] = new[top + 2]
        BY <3>1
      <4> QED
        BY <2>7, <4>1, <4>2, <4>3, <4>4
    <3> QED
      BY <2>6, <3>2 DEF InPlace
<1>8. ASSUME NEW j \in (a + 1)..(a + n) PROVE InPlace(t, j, new, top + 1)
  <2>1. PICK i \in 1..n : j = a + i
    <3>1. j - a \in 1..n /\ j = a + (j - a)
      OBVIOUS
    <3> QED
      BY <3>1
  <2>2. t[j] = e[i]
    <3>1. j \in 1..(a + n) /\ ~(j <= a) /\ j - a = i
      BY <2>1
    <3> QED
      BY <1>4, <3>1
  <2>3. new[top + 1] = w /\ new[top + 2] = w + n /\ top + 1 \in 1..(top + 1) /\ top + 1 + 1 = top + 2
    <3>1. top + 1 \in 1..(top + 1) /\ top + 1 + 1 = top + 2
      OBVIOUS
    <3> QED
      BY <1>1, <1>3, <1>6, <3>1
  <2>4. n - Total(0) = len
    <3>1. n = Header + len + Trailer /\ Total(0) = Header + Trailer /\ Header \in Nat /\ Trailer \in Nat /\ len \in Nat
      BY <1>3, Sizes DEF Total
    <3> QED
      BY <3>1
  <2>5. w + n - w = n
    OBVIOUS
  <2>6. AsSent(t[j], new, top + 1)
    <3>1. t[j].of = top + 1 /\ t[j].at = i /\ i \in 1..n
      BY <1>2, <1>3, <2>1, <2>2
    <3>2. new[t[j].of + 1] - new[t[j].of] = n
      <4>1. new[t[j].of] = w
        BY <2>3, <3>1
      <4>2. new[t[j].of + 1] = w + n
        BY <2>3, <3>1
      <4> QED
        BY <2>5, <4>1, <4>2
    <3>3. /\ i = 1 => t[j].v = MAGIC_0
          /\ i = 2 => t[j].v = MAGIC_1
          /\ i = Header => t[j].v = n - Total(0)
          /\ i \notin {1, 2, Header} => t[j].v = DATA
      BY <1>2, <1>3, <2>1, <2>2, <2>4
    <3> QED
      BY <2>3, <3>1, <3>2, <3>3 DEF AsSent
  <2>7. w + i + (a + n - j) = w + n
    BY <2>1
  <2> QED
    <3>1. t[j].of = top + 1 /\ t[j].at = i
      BY <1>2, <1>3, <2>1, <2>2
    <3>2. new[t[j].of] + t[j].at + (Len(t) - j) = new[top + 1 + 1]
      <4>1. new[t[j].of] = w
        BY <2>3, <3>1
      <4>2. new[top + 1 + 1] = w + n
        BY <2>3
      <4>3. Len(t) - j = a + n - j
        BY <1>4
      <4> QED
        BY <2>7, <3>1, <4>1, <4>2, <4>3
    <3> QED
      BY <2>6, <3>2 DEF InPlace
<1>9. \A j \in c..(a + n) : j \in c..a \/ j \in (a + 1)..(a + n)
  BY <1>3
<1>10. Clean(t, c, new, top + 1)
  BY <1>4, <1>7, <1>8, <1>9 DEF Clean
<1> QED
  BY <1>0, <1>3, <1>4, <1>5, <1>10 DEF Longer

(* A frame is sent.                                                        *)
LEMMA SendResync == ASSUME ResyncInv, Send PROVE ResyncInv'
<1>1. RxInv /\ RxInv' /\ sent \in Nat /\ line \in Seq(Byte) /\ buf \in Seq(Byte) /\ resume \in 1..(sent + 1)
  BY SendInv DEF ResyncInv, RxInv
<1>2. /\ sent' = sent + 1 /\ buf' = buf /\ busy' = busy /\ handled' = handled
      /\ upset' = upset /\ resume' = resume
  BY DEF Send
<1>3. PICK len \in Payloads : line' = line \o Encode(sent + 1, len)
  BY DEF Send
<1>4. PICK off : Offsets(off, sent) /\ OnLine(line, off, sent) /\ InStep(off)
  BY DEF ResyncInv
<1>5. PICK m \in resume..(sent + 1), c \in Nat : InStepAt(m, c, off)
  BY <1>4 DEF InStep
<1>70. PICK top \in Nat : top = sent
  BY <1>1
<1>7. PICK e : top = sent /\ e = Encode(top + 1, len)
  BY <1>70
<1>6. PICK new : Extends(new, off, top, len)
  BY <1>4, <1>7, SendOffsets
<1>8. /\ Offsets(new, top + 1)
      /\ new[top + 2] = off[top + 1] + Total(len)
      /\ \A k \in 1..(top + 1) : new[k] = off[k]
  BY <1>6 DEF Extends
<1>9. OnLine(line', new, top + 1)
  <2>1. PICK g \in 1..(Len(line) + 1) :
          (\A j \in 1..(g - 1) : line[j].of = 0) /\ Clean(line, g, off, top)
    BY <1>4, <1>7 DEF OnLine
  <2>2. PICK s, t : s = line /\ t = s \o e
    OBVIOUS
  <2>3. /\ t \in Seq(Byte) /\ Len(t) = Len(s) + Total(len)
        /\ \A j \in 1..Len(s) : t[j] = s[j]
        /\ Clean(t, g, new, top + 1)
    <3>1. s \in Seq(Byte) /\ g \in 1..(Len(s) + 1) /\ Clean(s, g, off, top) /\ Offsets(off, top)
      BY <1>1, <1>4, <1>7, <2>1, <2>2
    <3> QED
      <4>1. Longer(s, g, s \o Encode(top + 1, len), len, new, top)
        BY <1>6, <3>1, SendClean
      <4> QED
        BY <1>7, <2>2, <4>1 DEF Longer
  <2>4. PICK a \in Nat, n \in Nat : a = Len(s) /\ n = Total(len)
    BY <1>1, <2>2, Sizes
  <2>5. g \in 1..(a + n + 1) /\ \A j \in 1..(g - 1) : j \in 1..a
    BY <2>1, <2>2, <2>4
  <2>6. \A j \in 1..(g - 1) : t[j].of = 0
    BY <2>1, <2>2, <2>3, <2>4, <2>5
  <2>7. OnLine(t, new, top + 1)
    BY <2>3, <2>4, <2>5, <2>6 DEF OnLine
  <2> QED
    BY <1>3, <1>7, <2>2, <2>7
<1>10. /\ Synced(Way', m, c, new, top + 1)
       /\ \A j \in 1..(c - 1) : Way'[j] = Way[j]
  <2>1. PICK s, t : s = Way /\ t = s \o e
    OBVIOUS
  <2>2. Way' = t
    <3>1. e \in Seq(Byte)
      <4>1. top + 1 \in Nat
        OBVIOUS
      <4> QED
        BY <1>7, <4>1, EncodeBytes
    <3>2. (buf \o line) \o e = buf \o (line \o e)
      BY <1>1, <3>1, Associative
    <3> QED
      BY <1>2, <1>3, <1>7, <2>1, <3>2 DEF Way
  <2>3. Synced(s, m, c, off, top) /\ s \in Seq(Byte) /\ Offsets(off, top)
    BY <1>1, <1>4, <1>5, <1>7, <2>1, WayIs DEF InStepAt
  <2>4. c \in 1..(Len(s) + 1) /\ Clean(s, c, off, top) /\ m \in 1..(top + 1)
        /\ off[m] + (Len(s) + 1 - c) = off[top + 1]
    BY <2>3 DEF Synced
  <2>5. /\ t \in Seq(Byte) /\ Len(t) = Len(s) + Total(len)
        /\ \A j \in 1..Len(s) : t[j] = s[j]
        /\ Clean(t, c, new, top + 1)
    <3>1. Longer(s, c, s \o Encode(top + 1, len), len, new, top)
      BY <1>6, <2>3, <2>4, SendClean
    <3> QED
      BY <1>7, <2>1, <3>1 DEF Longer
  <2>6. PICK a \in Nat, n \in Nat : a = Len(s) /\ n = Total(len)
    BY <2>3, Sizes
  <2>7. c \in 1..(a + 1) /\ c \in 1..(a + n + 1) /\ \A j \in 1..(c - 1) : j \in 1..a
    BY <2>4, <2>6
  <2>8. \A j \in 1..(c - 1) : t[j] = s[j]
    BY <2>5, <2>6, <2>7
  <2>9. new[m] + (Len(t) + 1 - c) = new[top + 1 + 1]
    <3>1. new[m] = off[m] /\ off[m] \in Nat
      BY <1>8, <2>3, <2>4, Later
    <3>2. PICK p \in Nat : p = off[m]
      BY <3>1
    <3>3. p + (a + 1 - c) = off[top + 1]
      BY <2>4, <2>6, <3>2
    <3>4. new[top + 2] = p + (a + 1 - c) + n
      BY <1>8, <2>6, <3>3
    <3>5. p + (a + 1 - c) + n = p + (a + n + 1 - c)
      BY <2>7
    <3>6. top + 1 + 1 = top + 2
      OBVIOUS
    <3>7. Len(t) + 1 - c = a + n + 1 - c
      BY <2>5, <2>6
    <3> QED
      BY <3>1, <3>2, <3>4, <3>5, <3>6, <3>7
  <2>10. m \in 1..(top + 1 + 1)
    BY <2>4
  <2>11. c \in 1..(Len(t) + 1)
    BY <2>5, <2>6, <2>7
  <2>12. Synced(t, m, c, new, top + 1)
    BY <2>5, <2>9, <2>10, <2>11 DEF Synced
  <2> QED
    BY <2>1, <2>2, <2>8, <2>12
<1>11. InStep(new)'
  <2>1. Missing(m)' = Missing(m) /\ Allowed' = Allowed
    BY <1>2 DEF Missing, Allowed
  <2>2. Synced(Way', m, c, new, sent')
    BY <1>2, <1>7, <1>10
  <2>3. /\ ~upset' => c = 1
        /\ Cardinality(Missing(m)') <= Allowed'
        /\ Missing(m)' # {} => \A j \in 1..(c - 1) : Way'[j].v # MAGIC_0
    BY <1>2, <1>5, <1>10, <2>1 DEF InStepAt
  <2>4. InStepAt(m, c, new)'
    BY <2>2, <2>3 DEF InStepAt
  <2>5. m \in resume'..(sent' + 1)
    BY <1>1, <1>2
  <2> QED
    BY <2>4, <2>5 DEF InStep
<1>12. SplitInv' /\ Waiting' /\ busy' \in BOOLEAN /\ upset' \in BOOLEAN
  BY <1>2 DEF ResyncInv, SplitInv, Waiting
<1>13. resume' \in 1..(sent' + 1)
  BY <1>1, <1>2
<1>14. Offsets(new, sent') /\ OnLine(line', new, sent')
  BY <1>2, <1>7, <1>8, <1>9
<1> QED
  BY <1>1, <1>11, <1>12, <1>13, <1>14 DEF ResyncInv

(* So do the initial states: nothing was sent.                             *)
LEMMA ResyncStarts == ASSUME RxInit PROVE ResyncInv
<1>1. /\ line = <<>> /\ buf = <<>> /\ busy = FALSE /\ sent = 0 /\ handled = <<>>
      /\ upset = FALSE /\ resume = 1 /\ RxInv
  BY RxStarts DEF RxInit
<1>2. PICK off : off = [k \in Nat |-> 0]
  OBVIOUS
<1>3. off \in [Nat -> Nat] /\ \A k \in Nat : off[k] = 0
  BY <1>2
<1>4. Offsets(off, 0)
  <2>1. 1..0 = {} /\ 1..(0 + 1) = {1} /\ 1..1 = {1}
    OBVIOUS
  <2>2. (1 - 1) * Shortest = 0
    BY Sizes, Times
  <2>3. \A j \in 1..(0 + 1) : \A k \in j..(0 + 1) : off[j] + (k - j) * Shortest <= off[k]
    <3>1. SUFFICES ASSUME NEW j \in 1..(0 + 1), NEW k \in j..(0 + 1)
                   PROVE  off[j] + (k - j) * Shortest <= off[k]
      OBVIOUS
    <3>2. j = 1 /\ k = 1
      OBVIOUS
    <3>3. off[1] = 0
      BY <1>3
    <3> QED
      BY <2>2, <3>2, <3>3
  <2> QED
    BY <1>3, <2>1, <2>3 DEF Offsets
<1>5. <<>> \in Seq(Byte) /\ Len(<<>>) = 0
  OBVIOUS
<1>6. OnLine(<<>>, off, 0)
  <2>1. 1 \in 1..(Len(<<>>) + 1) /\ 1..(1 - 1) = {} /\ 1..Len(<<>>) = {}
    BY <1>5
  <2> QED
    BY <2>1 DEF OnLine, Clean
<1>7. Way = <<>>
  BY <1>1 DEF Way
<1>8. Synced(Way, 1, 1, off, 0)
  <2>1. PICK top \in Nat : top = 0 /\ top + 1 = 1 /\ Len(<<>>) + 1 = 1
    BY <1>5
  <2>2. Synced(<<>>, top + 1, Len(<<>>) + 1, off, top)
    BY <1>4, <1>5, <2>1, SyncedEnd
  <2> QED
    BY <1>7, <2>1, <2>2
<1>9. Missing(1) = {}
  <2>1. resume..(1 - 1) = {}
    BY <1>1
  <2> QED
    BY <2>1 DEF Missing
<1>10. InStepAt(1, 1, off)
  <2>1. Cardinality({}) = 0 /\ Allowed = 0
    BY <1>1, FS_EmptySet DEF Allowed
  <2>2. Cardinality(Missing(1)) <= Allowed
    BY <1>9, <2>1
  <2> QED
    BY <1>1, <1>8, <1>9, <2>2 DEF InStepAt
<1>11. InStep(off)
  <2>1. 1 \in resume..(sent + 1)
    BY <1>1
  <2> QED
    BY <1>10, <2>1 DEF InStep
<1>12. SplitInv /\ Waiting
  <2>1. Len(buf) < Total(0)
    BY <1>1, Sizes
  <2> QED
    BY <1>1, <2>1 DEF SplitInv, Waiting
<1>13. resume \in 1..(sent + 1) /\ busy \in BOOLEAN /\ upset \in BOOLEAN
  <2>1. resume \in 1..(sent + 1)
    BY <1>1
  <2>2. busy \in BOOLEAN /\ upset \in BOOLEAN
    BY <1>1, Zenon
  <2> QED
    BY <2>1, <2>2
<1> QED
  BY <1>1, <1>4, <1>6, <1>11, <1>12, <1>13 DEF ResyncInv

(* The first frame with bytes on the line is no earlier than any of those  *)
(* that are there; without any it is the next one to be sent.              *)
LEMMA FrameAtIs ==
  ASSUME NEW s \in Seq(Byte), sent \in Nat
  PROVE  /\ FrameAt(s) \in Nat /\ FrameAt(s) <= sent + 1
         /\ \A i \in 1..Len(s) : s[i].of # 0 => FrameAt(s) <= s[i].of
         /\ FrameAt(s) = sent + 1 \/ \E i \in 1..Len(s) : s[i].of # 0 /\ FrameAt(s) = s[i].of
<1>1. PICK S : S = {sent + 1} \cup ({s[i].of : i \in DOMAIN s} \ {0})
  OBVIOUS
<1>2. \A i \in 1..Len(s) : s[i].of \in Nat
  <2>1. \A i \in 1..Len(s) : s[i] \in Byte
    OBVIOUS
  <2> QED
    BY <2>1 DEF Byte
<1>3. DOMAIN s = 1..Len(s)
  OBVIOUS
<1>4. S \in SUBSET Nat /\ sent + 1 \in S /\ \A i \in 1..Len(s) : s[i].of # 0 => s[i].of \in S
  BY <1>1, <1>2, <1>3
<1>5. FrameAt(s) = Min(S)
  BY <1>1 DEF FrameAt
<1>6. PICK f : f = Min(S)
  OBVIOUS
<1>7. f \in S /\ \A x \in S : f <= x
  BY <1>4, <1>6, Smallest
<1>8. f = sent + 1 \/ \E i \in 1..Len(s) : s[i].of # 0 /\ f = s[i].of
  BY <1>1, <1>3, <1>7
<1> QED
  BY <1>4, <1>5, <1>6, <1>7, <1>8

(* If a frame the decoder would be in step with is all received, its bytes *)
(* and those of the frames behind it are in the buffer.                    *)
LEMMA AllReceived ==
  ASSUME RxInv, NEW off, Offsets(off, sent), OnLine(line, off, sent),
         NEW m, NEW c \in Nat, Synced(Way, m, c, off, sent), m < FrameAt(line)
  PROVE  /\ c # Len(Way) + 1 /\ FrameAt(line) \in 1..(sent + 1)
         /\ off[FrameAt(line)] \in Nat /\ off[m] \in Nat
         /\ off[FrameAt(line)] <= off[m] + (Len(buf) + 1 - c)
<1>1. /\ sent \in Nat /\ buf \in Seq(Byte) /\ line \in Seq(Byte) /\ Way \in Seq(Byte)
      /\ From(line, Way, Len(buf)) /\ Len(Way) = Len(buf) + Len(line)
  BY WayIs DEF RxInv
<1>2. PICK a \in Nat, b \in Nat, f \in Nat : a = Len(buf) /\ b = Len(line) /\ f = FrameAt(line)
  BY <1>1, FrameAtIs
<1>3. /\ m \in 1..(sent + 1) /\ c \in 1..(a + b + 1) /\ off[m] + (a + b + 1 - c) = off[sent + 1]
      /\ Clean(Way, c, off, sent)
  BY <1>1, <1>2 DEF Synced
<1>4. f \in 1..(sent + 1) /\ m < f
  BY <1>1, <1>2, <1>3, FrameAtIs
<1>5. off[m] \in Nat /\ off[f] \in Nat /\ off[sent + 1] \in Nat
  <2>1. sent + 1 \in 1..(sent + 1)
    BY <1>1
  <2> QED
    BY <1>1, <1>3, <1>4, <2>1, Later
<1>6. c # a + b + 1
  <2>1. SUFFICES ASSUME c = a + b + 1 PROVE FALSE
    OBVIOUS
  <2>2. PICK p \in Nat, q \in Nat : p = off[m] /\ q = off[sent + 1]
    BY <1>5
  <2>3. p = q
    BY <1>3, <2>1, <2>2
  <2>4. m \in 1..(sent + 1) /\ sent + 1 \in m..(sent + 1) /\ m # sent + 1
    BY <1>1, <1>3, <1>4
  <2>5. off[m] < off[sent + 1]
    BY <1>1, <2>4, Later
  <2> QED
    BY <2>2, <2>3, <2>5
<1>7. c <= a
  <2>1. SUFFICES ASSUME a < c PROVE FALSE
    BY <1>2, <1>3
  <2>2. PICK j \in Nat : j = c - a /\ c = a + j /\ j \in 1..b
    <3>1. c - a \in Nat /\ c = a + (c - a) /\ c - a \in 1..b
      BY <1>3, <1>6, <2>1
    <3> QED
      BY <3>1
  <2>3. line[j] = Way[c]
    BY <1>1, <1>2, <2>2 DEF From
  <2>4. WholeFrameAt(Way, m, c, off, sent)
    <3>1. c # Len(Way) + 1
      BY <1>1, <1>2, <1>6
    <3> QED
      BY <1>1, <3>1, FrameBytes
  <2>5. line[j].of = m /\ m # 0
    BY <1>3, <2>3, <2>4 DEF WholeFrameAt
  <2>6. FrameAt(line) <= m
    BY <1>1, <1>2, <2>2, <2>5, FrameAtIs
  <2> QED
    BY <1>2, <1>3, <1>4, <2>6
<1>8. ASSUME NEW j \in 1..b PROVE InPlace(line, j, off, sent)
  <2>1. PICK k : k = a
    OBVIOUS
  <2>2. From(line, Way, k) /\ k + j \in c..(a + b) /\ j \in 1..Len(line)
    BY <1>1, <1>2, <1>3, <1>7, <2>1
  <2>3. InPlace(Way, k + j, off, sent)
    BY <1>1, <1>2, <1>3, <2>2 DEF Clean
  <2> QED
    BY <1>1, <2>2, <2>3, PlaceFrom
<1>9. off[f] + b <= off[sent + 1]
  <2>1. CASE b = 0
    <3>1. sent + 1 \in f..(sent + 1)
      BY <1>1, <1>4
    <3>2. off[f] <= off[sent + 1]
      BY <1>1, <1>4, <3>1, Later
    <3> QED
      BY <1>5, <2>1, <3>2
  <2>2. CASE b # 0
    <3>1. 1 \in 1..b /\ InPlace(line, 1, off, sent)
      BY <1>8, <2>2
    <3>2. PICK g, x : g = line[1].of /\ x = line[1].at
      OBVIOUS
    <3>3. g \in 1..sent /\ x \in 1..(off[g + 1] - off[g]) /\ off[g] + x + (b - 1) = off[sent + 1]
      BY <1>2, <3>1, <3>2 DEF InPlace, AsSent
    <3>4. f <= g
      <4>1. line[1].of # 0
        BY <3>2, <3>3
      <4> QED
        BY <1>1, <1>2, <3>1, <3>2, <4>1, FrameAtIs
    <3>5. g \in f..(sent + 1) /\ g \in 1..(sent + 1) /\ g + 1 \in 1..(sent + 1)
      BY <1>1, <1>2, <3>3, <3>4
    <3>6. off[f] <= off[g] /\ off[g] \in Nat /\ off[g + 1] \in Nat
      BY <1>1, <1>4, <3>5, Later
    <3>7. PICK p \in Nat, q \in Nat, w \in Nat, r \in Nat : p = off[f] /\ q = off[g] /\ w = off[sent + 1] /\ r = off[g + 1]
      BY <1>5, <3>6
    <3>8. p <= q /\ x \in 1..(r - q) /\ q + x + (b - 1) = w
      BY <3>3, <3>6, <3>7
    <3>9. p + b <= w
      BY <3>8
    <3> QED
      BY <3>7, <3>9
  <2> QED
    BY <2>1, <2>2
<1>10. off[f] <= off[m] + (a + 1 - c)
  <2>1. PICK p \in Nat, q \in Nat, w \in Nat : p = off[f] /\ q = off[m] /\ w = off[sent + 1]
    BY <1>5
  <2>2. p + b <= w /\ q + (a + b + 1 - c) = w
    BY <1>3, <1>9, <2>1
  <2>3. p <= q + (a + 1 - c)
    BY <1>3, <2>2
  <2> QED
    BY <2>1, <2>3
<1> QED
  BY <1>1, <1>2, <1>4, <1>5, <1>6, <1>10

(* What the decoder waits for does not hide more than is allowed.          *)
LEMMA ResyncHolds == ASSUME ResyncInv PROVE Resynchronises
<1>1. /\ RxInv /\ sent \in Nat /\ buf \in Seq(Byte) /\ line \in Seq(Byte) /\ Way \in Seq(Byte)
      /\ resume \in 1..(sent + 1) /\ resume \in Nat
  BY WayIs DEF ResyncInv, RxInv
<1>2. PICK off : Offsets(off, sent) /\ OnLine(line, off, sent) /\ InStep(off)
  BY DEF ResyncInv
<1>3. PICK m \in resume..(sent + 1), c \in Nat : InStepAt(m, c, off)
  BY <1>2 DEF InStep
<1>4. PICK f \in Nat : f = FrameAt(line) /\ f <= sent + 1
  BY <1>1, FrameAtIs
<1>5. SUFFICES ASSUME ~busy PROVE Cardinality(Lost) <= Allowed
  BY DEF Resynchronises, Allowed
<1>6. Lost = {k \in resume..(f - 1) : \A i \in DOMAIN handled : handled[i] # k}
  BY <1>4 DEF Lost
<1>7. m \in 1..(sent + 1) /\ m \in Nat /\ c >= 1 /\ Synced(Way, m, c, off, sent)
  <2>1. Synced(Way, m, c, off, sent) /\ c \in 1..(Len(Way) + 1)
    BY <1>3 DEF InStepAt, Synced
  <2> QED
    BY <1>1, <2>1
<1>8. CASE f <= m
  <2>1. Lost \subseteq Missing(m)
    <3>1. \A k \in resume..(f - 1) : k \in resume..(m - 1)
      BY <1>1, <1>7, <1>8
    <3> QED
      BY <1>6, <3>1 DEF Missing
  <2>2. IsFiniteSet(Missing(m)) /\ Cardinality(Missing(m)) \in Nat
    BY <1>7, MissingFinite
  <2>3. Cardinality(Lost) <= Cardinality(Missing(m)) /\ Cardinality(Lost) \in Nat
    BY <2>1, <2>2, Fewer, FS_CardinalityType
  <2>4. Cardinality(Missing(m)) <= Allowed /\ Allowed \in Nat
    BY <1>3, SwallowedNat DEF InStepAt, Allowed
  <2> QED
    BY <2>2, <2>3, <2>4
<1>9. CASE m < f
  <2>1. /\ c # Len(Way) + 1 /\ f \in 1..(sent + 1) /\ off[f] \in Nat /\ off[m] \in Nat
        /\ off[f] <= off[m] + (Len(buf) + 1 - c)
    BY <1>1, <1>2, <1>4, <1>7, <1>9, AllReceived
  <2>2. PICK a \in Nat : a = Len(buf)
    BY <1>1
  <2>3. PICK z \in Nat : /\ z = off[m + 1] - off[m] /\ z >= Total(0) /\ z - Total(0) \in Payloads
                         /\ m \in 1..sent
                         /\ Way[c + Header - 1].v = z - Total(0)
    <3>1. WholeFrameAt(Way, m, c, off, sent)
      BY <1>1, <1>2, <1>7, <2>1, FrameBytes
    <3> QED
      BY <3>1 DEF WholeFrameAt, Size
  <2>4. c + z <= a + 1
    <3>1. m + 1 \in 1..(sent + 1) /\ f \in (m + 1)..(sent + 1)
      BY <1>1, <1>9, <2>1, <2>3
    <3>2. off[m + 1] <= off[f] /\ off[m + 1] \in Nat
      BY <1>1, <1>2, <3>1, Later
    <3>3. PICK p \in Nat, q \in Nat, r \in Nat : p = off[m] /\ q = off[m + 1] /\ r = off[f]
      BY <2>1, <3>2
    <3>4. q <= r /\ r <= p + (a + 1 - c) /\ z = q - p
      BY <2>1, <2>2, <2>3, <3>2, <3>3
    <3> QED
      BY <3>4
  <2>5. PICK h \in Nat, t \in Nat : h = Header /\ t = Trailer /\ h >= 3 /\ Total(0) = h + t /\ z >= h + t
    BY <2>3, Sizes
  <2>6. a >= Total(0) /\ h \in 1..a /\ c + h - 1 \in 1..a /\ 1 \in 1..a /\ 2 \in 1..a
    BY <1>7, <2>4, <2>5
  <2>7. /\ buf[1].v = MAGIC_0 /\ buf[2].v = MAGIC_1
        /\ buf[Header].v <= MaxPayload /\ a < Total(buf[Header].v)
    <3>1. ~(Len(buf) < Total(0))
      BY <2>2, <2>5, <2>6
    <3> QED
      BY <1>5, <2>2, <3>1 DEF ResyncInv, Waiting
  <2>8. PICK l \in Nat : l = buf[Header].v /\ l <= MaxPayload /\ a < h + l + t
    <3>1. \A j \in 1..a : buf[j] \in Byte
      BY <1>1, <2>2
    <3>2. buf[h].v \in Nat
      BY <2>6, <3>1 DEF Byte
    <3>3. Total(buf[h].v) = h + buf[h].v + t
      BY <2>5 DEF Total
    <3> QED
      BY <2>5, <2>7, <3>2, <3>3
  <2>9. \A j \in 1..a : Way[j] = buf[j]
    BY <1>1, <2>2, WayIs
  <2>10. c # 1
    <3>1. SUFFICES ASSUME c = 1 PROVE FALSE
      OBVIOUS
    <3>2. c + h - 1 = h
      BY <3>1
    <3>3. l = z - Total(0)
      BY <2>3, <2>5, <2>6, <2>8, <2>9, <3>2
    <3> QED
      BY <2>4, <2>5, <2>8, <3>1, <3>3
  <2>11. c # 2
    <3>1. SUFFICES ASSUME c = 2 PROVE FALSE
      OBVIOUS
    <3>2. Way[2].v = MAGIC_0
      <4>1. WholeFrameAt(Way, m, c, off, sent)
        BY <1>1, <1>2, <1>7, <2>1, FrameBytes
      <4> QED
        BY <3>1, <4>1 DEF WholeFrameAt
    <3> QED
      BY <2>6, <2>7, <2>9, <3>2, Sizes DEF MAGIC_0, MAGIC_1
  <2>12. upset /\ Missing(m) = {}
    <3>1. 1 \in 1..(c - 1) /\ Way[1].v = MAGIC_0
      BY <1>7, <2>6, <2>7, <2>9, <2>10
    <3> QED
      BY <1>3, <2>10, <3>1 DEF InStepAt
  <2>13. Lost \subseteq m..(f - 1)
    <3>1. SUFFICES ASSUME NEW k \in Lost PROVE k \in m..(f - 1)
      OBVIOUS
    <3>2. k \in resume..(f - 1) /\ \A i \in DOMAIN handled : handled[i] # k
      BY <1>6
    <3>3. ~(k \in resume..(m - 1))
      BY <2>12, <3>2 DEF Missing
    <3> QED
      BY <1>1, <1>7, <3>2, <3>3
  <2>14. Cardinality(Lost) \in Nat /\ Cardinality(Lost) <= f - m
    <3>1. PICK S, x : S = Lost /\ x = m /\ x \in Nat
      BY <1>7
    <3>2. S \subseteq x..(f - 1)
      BY <2>13, <3>1
    <3>3. IsFiniteSet(S) /\ Cardinality(S) \in Nat /\ (x <= f => Cardinality(S) <= f - x)
      BY <3>1, <3>2, Few
    <3> QED
      BY <1>9, <3>1, <3>3
  <2>15. f - m <= Swallowed
    <3>1. PICK n \in Nat : n = f - 1 - m /\ f - m = n + 1
      <4>1. f - 1 - m \in Nat /\ f - m = f - 1 - m + 1
        BY <1>7, <1>9
      <4> QED
        BY <4>1
    <3>2. n * Shortest < a + 1 - c
      <4>1. f \in m..(sent + 1)
        BY <1>1, <1>7, <1>9, <2>1
      <4>2. off[m] + (f - m) * Shortest <= off[f] /\ (f - m) * Shortest \in Nat
        BY <1>1, <1>2, <1>7, <4>1, Later
      <4>3. (n + 1) * Shortest = n * Shortest + Shortest /\ n * Shortest \in Nat
        BY Sizes, Times
      <4>4. PICK x \in Nat, s \in Nat, p \in Nat, q \in Nat :
              x = n * Shortest /\ s = Shortest /\ s >= 3 /\ p = off[m] /\ q = off[f]
        BY <2>1, <4>3, Sizes
      <4>5. p + (x + s) <= q /\ q <= p + (a + 1 - c)
        BY <2>1, <2>2, <3>1, <4>2, <4>3, <4>4
      <4>6. x < a + 1 - c
        BY <4>4, <4>5
      <4> QED
        BY <4>4, <4>6
    <3>3. PICK i \in Nat : i = 1 /\ i >= 1 /\ i + 2 <= c
      BY <1>7, <2>10, <2>11
    <3>4. i + Header - 1 = Header
      BY <2>5, <3>3
    <3>5. ASSUME c + 1 <= i + Header PROVE l = 1
      <4>1. buf[i + Header - 1].v <= MaxPayload /\ buf[i + Header - 1].v = l
        BY <2>8, <3>4
      <4>2. i + Header - 1 <= Len(buf)
        BY <2>2, <2>5, <2>6, <3>4
      <4> QED
        BY <1>1, <1>2, <1>7, <3>3, <3>5, <4>1, <4>2, LengthByte
    <3>6. a + 1 <= i + Total(l)
      <4>1. Total(l) = h + l + t
        BY <2>5 DEF Total
      <4> QED
        BY <2>8, <3>3, <4>1
    <3>7. n + 1 <= Swallowed
      BY <2>8, <3>2, <3>3, <3>5, <3>6, Announced
    <3> QED
      BY <3>1, <3>7
  <2>16. Allowed = Swallowed
    BY <2>12 DEF Allowed
  <2> QED
    BY <1>7, <2>14, <2>15, <2>16, SwallowedNat
<1> QED
  BY <1>4, <1>7, <1>8, <1>9

(* Every step keeps the invariant.                                         *)
LEMMA ResyncStep == ASSUME ResyncInv, [RxNext]_rxVars PROVE ResyncInv'
<1>1. CASE UNCHANGED rxVars
  <2>1. /\ RxInv' /\ SplitInv' /\ Waiting' /\ busy' \in BOOLEAN /\ upset' \in BOOLEAN
        /\ resume' \in 1..(sent' + 1)
    BY <1>1 DEF rxVars, ResyncInv, RxInv, LastHandled, Stream!Last, SplitInv, Waiting
  <2>2. PICK off : Offsets(off, sent) /\ OnLine(line, off, sent) /\ InStep(off)
    BY DEF ResyncInv
  <2>3. InStep(off)'
    <3>1. PICK m \in resume..(sent + 1), c \in Nat : InStepAt(m, c, off)
      BY <2>2 DEF InStep
    <3>2. Missing(m)' = Missing(m) /\ Allowed' = Allowed /\ Way' = Way
      BY <1>1 DEF rxVars, Missing, Allowed, Way
    <3>3. InStepAt(m, c, off)' /\ m \in (resume..(sent + 1))'
      BY <1>1, <3>1, <3>2 DEF rxVars, InStepAt
    <3> QED
      BY <3>3 DEF InStep
  <2>4. Offsets(off, sent') /\ OnLine(line', off, sent')
    BY <1>1, <2>2 DEF rxVars
  <2> QED
    BY <2>1, <2>3, <2>4 DEF ResyncInv
<1> QED
  BY <1>1, SendResync, DisturbResync, ReceiveResync, WaitResync, SkipResync, TakeResync DEF RxNext

(* At every moment the decoder will be in step again with some frame, and  *)
(* what is lost before that one is within the bound: the turns of          *)
(* uproto_process_rx_buffer, the overflow and the line keep that.          *)
THEOREM ResyncInvCorrect == RxSpec => []ResyncInv
<1>1. RxInit => ResyncInv
  BY ResyncStarts
<1>2. ResyncInv /\ [RxNext]_rxVars => ResyncInv'
  BY ResyncStep
<1> QED
  BY <1>1, <1>2, PTL DEF RxSpec

(* On a quiet line no frame is lost, however the bytes are cut into        *)
(* chunks; after a disturbance or an overflow of rx_buffer no more are     *)
(* lost than a damaged header can swallow, for all sizes of header,        *)
(* payload and buffer.                                                     *)
THEOREM ResynchronisesCorrect == RxSpec => []Resynchronises
<1>1. ResyncInv => Resynchronises
  BY ResyncHolds
<1> QED
  BY <1>1, ResyncInvCorrect, PTL

-----------------------------------------------------------------------------
(* From frames to poses: Dm02Link.                                         *)

(* Labels stand in the order of the times they stand for.                  *)
OrderInv ==
  /\ queue \in Seq(Labels)
  /\ Ordered(queue)

(* Between pop and front q holds a pose that everything in the queue       *)
(* follows, also what has been pushed, or pushed after a clear, meanwhile. *)
HeldInv ==
  /\ app \in [pc : {"ctor", "idle", "pop", "front", "send", "write", "join", "done"}, a : Poses]
  /\ app.pc = "front" => /\ app.a \in Labels
                         /\ \A i \in 1..Len(queue) : Follows(app.a, queue[i])

LinkInv == OrderInv /\ HeldInv /\ AroundFrame

-----------------------------------------------------------------------------
(* Taking the first pose leaves an ordered queue that follows it.          *)
LEMMA TailOrdered ==
  ASSUME OrderInv, queue # <<>>
  PROVE  /\ Head(queue) \in Labels
         /\ Tail(queue) \in Seq(Labels)
         /\ Ordered(Tail(queue))
         /\ \A i \in 1..Len(Tail(queue)) : Follows(Head(queue), Tail(queue)[i])
<1>1. /\ Len(queue) \in Nat /\ Len(queue) >= 1
      /\ Len(Tail(queue)) = Len(queue) - 1
      /\ \A i \in 1..Len(Tail(queue)) : Tail(queue)[i] = queue[i + 1]
      /\ Head(queue) = queue[1]
  BY DEF OrderInv
<1>2. Head(queue) \in Labels /\ Tail(queue) \in Seq(Labels)
  BY DEF OrderInv
<1>3. ASSUME NEW i \in 1..Len(Tail(queue)), NEW j \in 1..Len(Tail(queue)), i < j
      PROVE  Follows(Tail(queue)[i], Tail(queue)[j])
  BY <1>1, <1>3 DEF OrderInv, Ordered
<1>4. ASSUME NEW i \in 1..Len(Tail(queue))
      PROVE  Follows(Head(queue), Tail(queue)[i])
  BY <1>1 DEF OrderInv, Ordered
<1> QED
  BY <1>2, <1>3, <1>4 DEF Ordered

(* A pose that arrives follows all that are there and the one q holds.     *)
LEMMA PushOrdered ==
  ASSUME OrderInv, HeldInv, NEW x \in Labels, PoseNow(x), Push(x), UNCHANGED app
  PROVE  OrderInv' /\ HeldInv'
<1>1. CASE Len(queue) >= QueueCap
  BY <1>1 DEF Push, OrderInv, HeldInv, Ordered
<1>2. CASE ~(Len(queue) >= QueueCap)
  <2>1. queue' = Append(queue, x)
    BY <1>2 DEF Push
  <2>2. /\ Len(queue) \in Nat
        /\ Len(queue') = Len(queue) + 1
        /\ queue' \in Seq(Labels)
        /\ \A i \in 1..Len(queue) : queue'[i] = queue[i]
        /\ queue'[Len(queue) + 1] = x
    BY <2>1 DEF OrderInv
  <2>3. \A i \in 1..Len(queue) : Follows(queue[i], x)
    BY DEF PoseNow, Follows
  <2>4. ASSUME NEW i \in 1..Len(queue'), NEW j \in 1..Len(queue'), i < j
        PROVE  Follows(queue'[i], queue'[j])
    <3>1. CASE j <= Len(queue)
      BY <2>2, <2>4, <3>1 DEF OrderInv, Ordered
    <3>2. CASE j = Len(queue) + 1
      BY <2>2, <2>3, <2>4, <3>2
    <3> QED
      BY <2>2, <3>1, <3>2
  <2>5. app.pc = "front" => Follows(app.a, x)
    BY DEF PoseNow, Follows, HeldInv, Labels
  <2>6. app.pc = "front" => \A i \in 1..Len(queue') : Follows(app.a, queue'[i])
    BY <2>2, <2>5 DEF HeldInv
  <2> QED
    BY <2>2, <2>4, <2>6 DEF OrderInv, HeldInv, Ordered
<1> QED
  BY <1>1, <1>2

(* The steps of the io thread.                                             *)
LEMMA IoStep ==
  ASSUME LinkInv, Io
  PROVE  LinkInv'
<1> USE DEF LinkInv
<1>1. CASE IoPose
  <2>1. PICK x \in Labels : PoseNow(x) /\ Push(x)
    BY <1>1 DEF IoPose
  <2> QED
    BY <1>1, <2>1, PushOrdered DEF IoPose, AroundFrame
<1>2. CASE RcClear
  <2>1. queue' = <<>> /\ Len(queue') = 0 /\ queue' \in Seq(Labels)
    BY <1>2 DEF RcClear
  <2> QED
    BY <1>2, <2>1 DEF RcClear, OrderInv, HeldInv, AroundFrame, Ordered
<1>3. CASE IoLoop \/ IoQuiet \/ IoThrow \/ RcClose \/ RcOpen
  <2>1. UNCHANGED <<queue, app, answer>>
    BY <1>3 DEF IoLoop, IoQuiet, IoThrow, RcClose, RcOpen
  <2> QED
    BY <2>1 DEF OrderInv, HeldInv, AroundFrame, Ordered
<1> QED
  BY <1>1, <1>2, <1>3 DEF Io

(* The steps of the application and of the cable.                          *)
LEMMA AppStep ==
  ASSUME LinkInv, App \/ QCall \/ Quit \/ Unplug \/ Plug \/ UNCHANGED vars
  PROVE  LinkInv'
<1> USE DEF LinkInv
<1>1. CASE FirstPose
  BY <1>1, TailOrdered DEF FirstPose, OrderInv, HeldInv, AroundFrame, Ordered
<1>2. CASE QCall
  <2>1. PICK s \in Orders : queue' = s
    BY <1>2 DEF QCall
  <2>2. s \in Seq(Labels) /\ Ordered(s)
    BY <2>1 DEF Orders
  <2> QED
    BY <1>2, <2>1, <2>2 DEF QCall, OrderInv, HeldInv, AroundFrame, Poses
<1>3. CASE QPop
  BY <1>3, TailOrdered DEF QPop, OrderInv, HeldInv, AroundFrame, Ordered, Poses
<1>4. CASE QFront
  <2>1. Head(queue) \in Labels /\ Follows(app.a, Head(queue)) /\ app.a \in Labels
    BY <1>4 DEF QFront, OrderInv, HeldInv
  <2>2. AroundFrame'
    BY <1>4, <2>1 DEF QFront, AroundFrame, Usable, Follows, Labels
  <2> QED
    BY <1>4, <2>2 DEF QFront, OrderInv, HeldInv, Ordered, Poses
<1>5. CASE SendCheck \/ SendWrite \/ Quit \/ Join
  <2>1. /\ UNCHANGED <<queue, answer>>
        /\ app' \in [pc : {"idle", "write", "join", "done"}, a : Poses]
    BY <1>5 DEF SendCheck, SendWrite, Quit, Join, HeldInv
  <2> QED
    BY <2>1 DEF OrderInv, HeldInv, AroundFrame, Ordered
<1>6. CASE Unplug \/ Plug \/ UNCHANGED vars
  BY <1>6 DEF Unplug, Plug, vars, OrderInv, HeldInv, AroundFrame, Ordered
<1> QED
  BY <1>1, <1>2, <1>3, <1>4, <1>5, <1>6 DEF App

(* The queue is in order and what q holds comes before it, always.         *)
THEOREM LinkInvCorrect == Spec => []LinkInv
<1>1. Init => LinkInv
  BY DEF Init, LinkInv, OrderInv, HeldInv, AroundFrame, Ordered, Poses
<1>2. LinkInv /\ [Next]_vars => LinkInv'
  BY IoStep, AppStep DEF Next
<1> QED
  BY <1>1, <1>2, PTL DEF Spec

(* q(t) uses poses around t or after it, in order, however often the io    *)
(* thread drops poses or clears the queue under it.                        *)
THEOREM AroundFrameCorrect == Spec => []AroundFrame
<1> QED
  BY LinkInvCorrect, PTL DEF LinkInv
=============================================================================
