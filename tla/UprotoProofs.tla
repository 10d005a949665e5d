---------------------------- MODULE UprotoProofs ----------------------------
(***************************************************************************)
(* Proofs about Uproto for every table size, id width, clock width,        *)
(* timeout, retry count and tick period.                                   *)
(***************************************************************************)
EXTENDS Uproto, SequenceTheorems, TLAPS

(* The part of the state that uproto_send_request and the transaction      *)
(* table own, as a conjunct of the type invariant.                         *)
TableType ==
  /\ txns \in [Slots -> Txn]
  /\ nextTxnId \in Ids
  /\ lastTxTime \in Times
  /\ toPeer \in Seq(OutFrames) /\ Len(toPeer) <= WireCap
  /\ issued \in 0..MaxRequests
  /\ result \in [Requests -> Results]
  /\ calls \in [Requests -> Nat]
  /\ lag \in [Slots -> Nat]
  /\ age \in [Slots -> Nat]

LEMMA ZeroTime == 0 \in Times
  BY ConfigAssumption, TimeAssumption DEF Times

LEMMA TailType ==
  ASSUME NEW S, NEW q \in Seq(S), q # <<>>
  PROVE  Tail(q) \in Seq(S) /\ Len(Tail(q)) = Len(q) - 1 /\ Len(q) \in Nat
  OBVIOUS

LEMMA RetriedTxnType ==
  ASSUME NEW t \in Txn, NEW now \in Times
  PROVE  [t EXCEPT !.retry_count = @ + 1, !.last_tx_time = now] \in Txn
<1>1. [t EXCEPT !.retry_count = @ + 1] \in Txn
  BY DEF Txn
<1>2. \A u \in Txn : [u EXCEPT !.last_tx_time = now] \in Txn
  BY DEF Txn
<1> QED BY <1>1, <1>2

LEMMA TypeInit == Init => TypeOK
  BY ConfigAssumption, TimeAssumption DEF Init, TypeOK, Slots, Requests, Ids, Times,
     LinkStates, Txn, EmptyTxn, RequestType, Retries, Timeouts, Results

(* The record send_request builds is a transaction.                        *)
LEMMA NewTxnType ==
  ASSUME TypeOK, issued < MaxRequests, NEW type \in RequestType,
         NEW timeout \in Timeouts, NEW retries \in Retries
  PROVE  [state |-> "WAITING", id |-> nextTxnId, req |-> issued + 1, type |-> type,
          retry_count |-> 0, max_retries |-> retries,
          timeout |-> IF timeout > 0 THEN timeout ELSE DefaultTimeout,
          last_tx_time |-> clock] \in Txn
<1>1. (IF timeout > 0 THEN timeout ELSE DefaultTimeout) \in Timeouts
  BY DEF Timeouts
<1>2. issued + 1 \in 0..MaxRequests
  BY ConfigAssumption DEF TypeOK
<1> QED BY <1>1, <1>2 DEF Txn, TypeOK

LEMMA TypeSendRequest ==
  ASSUME TypeOK, NEW type \in RequestType, NEW timeout \in Timeouts, NEW retries \in Retries,
         SendRequest(type, timeout, retries)
  PROVE  TableType' /\ UNCHANGED <<calls, answered, fromPeer>>
<1>1. PICK s \in Slots : Accepted(s, type, timeout, retries) \/ TxFull
  BY DEF SendRequest
<1>2. /\ issued < MaxRequests
      /\ issued' = issued + 1
      /\ nextTxnId' = NextId(nextTxnId)
      /\ UNCHANGED <<calls, answered, fromPeer>>
  BY DEF SendRequest
<1>3. issued' \in 0..MaxRequests /\ issued + 1 \in Requests /\ nextTxnId' \in Ids
  BY <1>2, ConfigAssumption DEF NextId, Ids, Requests, TypeOK
<1>4. CASE Accepted(s, type, timeout, retries)
  <2>1. txns' \in [Slots -> Txn]
    BY <1>2, <1>4, NewTxnType DEF Accepted, TypeOK
  <2>2. [type |-> type, id |-> nextTxnId, req |-> issued + 1] \in OutFrames
    BY <1>3, ConfigAssumption DEF OutFrames, TypeOK, Requests
  <2>3. toPeer' \in Seq(OutFrames) /\ Len(toPeer') <= WireCap
    BY <1>4, <2>2, ConfigAssumption DEF Accepted, TypeOK
  <2>4. result' \in [Requests -> Results]
    BY <1>3, <1>4 DEF Accepted, TypeOK, Results
  <2>5. lag' \in [Slots -> Nat] /\ age' \in [Slots -> Nat] /\ lastTxTime' \in Times
    BY <1>4 DEF Accepted, TypeOK
  <2> QED
    BY <1>2, <1>3, <2>1, <2>3, <2>4, <2>5 DEF TableType, TypeOK
<1>5. CASE TxFull
  BY <1>2, <1>3, <1>5 DEF TxFull, TableType, TypeOK, Results
<1> QED BY <1>1, <1>2, <1>4, <1>5

(* A slot that is completed leaves the table well typed.                   *)
LEMMA TypeComplete ==
  ASSUME TypeOK, NEW s \in Slots, NEW o \in {"OK", "TIMEOUT"}, Complete(s, o)
  PROVE  /\ txns' \in [Slots -> Txn]
         /\ result' \in [Requests -> Results]
         /\ calls' \in [Requests -> Nat]
         /\ lag' \in [Slots -> Nat]
         /\ age' \in [Slots -> Nat]
<1>1. EmptyTxn \in Txn
  BY ConfigAssumption, TimeAssumption DEF EmptyTxn, Txn, Ids, RequestType, Retries, Timeouts, Times
<1>2. txns' \in [Slots -> Txn]
  BY <1>1 DEF Complete, TypeOK
<1>3. result' \in [Requests -> Results]
  BY DEF Complete, TypeOK, Results
<1>4. calls' \in [Requests -> Nat]
  <2>1. CASE txns[s].req \in Requests
    BY <2>1 DEF Complete, TypeOK
  <2>2. CASE txns[s].req \notin Requests
    BY <2>2 DEF Complete, TypeOK
  <2> QED BY <2>1, <2>2
<1>5. lag' \in [Slots -> Nat] /\ age' \in [Slots -> Nat]
  BY DEF Complete, TypeOK
<1> QED BY <1>2, <1>3, <1>4, <1>5

(* An answer leaves the table well typed, found or not.                    *)
LEMMA TypeCompleteById ==
  ASSUME TypeOK, NEW id, CompleteById(id)
  PROVE  /\ txns' \in [Slots -> Txn]
         /\ result' \in [Requests -> Results]
         /\ calls' \in [Requests -> Nat]
         /\ lag' \in [Slots -> Nat]
         /\ age' \in [Slots -> Nat]
  BY TypeComplete DEF CompleteById, TypeOK

(* Taking the first frame off a wire.                                      *)
LEMMA TypeReceived ==
  ASSUME TypeOK, NEW type, Received(type)
  PROVE  fromPeer' \in Seq(InFrames) /\ Len(fromPeer') <= WireCap
  BY ConfigAssumption DEF Received, TypeOK

LEMMA TypeNext == TypeOK /\ [Next]_vars => TypeOK'
<1> SUFFICES ASSUME TypeOK, [Next]_vars PROVE TypeOK'
  OBVIOUS
<1> USE ConfigAssumption, TimeAssumption
<1>1. CASE StartHandshake
  <2>1. "HELLO" \in RequestType /\ HandshakeTimeout \in Timeouts /\ DefaultRetries \in Retries
    BY DEF RequestType, Timeouts, Retries
  <2>2. CASE SendRequest("HELLO", HandshakeTimeout, DefaultRetries)
    BY <1>1, <2>1, <2>2, TypeSendRequest
    DEF StartHandshake, TypeOK, TableType, tickVars, timeVars, LinkStates
  <2>3. CASE NoMemory
    BY <1>1, <2>3 DEF StartHandshake, NoMemory, TypeOK, tickVars, timeVars, wireVars, LinkStates
  <2> QED BY <1>1, <2>2, <2>3 DEF StartHandshake
<1>2. CASE AppRequest
  <2>1. PICK t \in AppTimeouts, n \in AppRetries : SendRequest("DATA", t, n)
    BY <1>2 DEF AppRequest
  <2>2. "DATA" \in RequestType /\ t \in Timeouts /\ n \in Retries
    BY DEF RequestType, Timeouts, Retries
  <2> QED
    BY <1>2, <2>1, <2>2, TypeSendRequest DEF AppRequest, TypeOK, TableType, tickVars, timeVars
<1>3. CASE TickBegin
  BY <1>3 DEF TickBegin, Idle, TypeOK, wireVars, LinkStates
<1>4. CASE TickSlot
  <2>1. tickPos \in Slots /\ tickPos' \in 0..(MaxTransactions + 1)
    BY <1>4 DEF TickSlot, Slots
  <2>2. CASE Expired(tickPos) /\ Retransmit(tickPos)
    <3>1. txns' \in [Slots -> Txn] /\ lag' \in [Slots -> Nat]
      <4>1. txns[tickPos] \in Txn
        BY <2>1 DEF TypeOK
      <4>2. [txns[tickPos] EXCEPT !.retry_count = @ + 1, !.last_tx_time = tickNow] \in Txn
        BY <4>1, RetriedTxnType DEF TypeOK
      <4>3. txns' = [txns EXCEPT ![tickPos] =
                       [txns[tickPos] EXCEPT !.retry_count = @ + 1, !.last_tx_time = tickNow]]
        BY <2>1, <2>2 DEF Retransmit, TypeOK
      <4>4. txns' \in [Slots -> Txn]
        BY <4>2, <4>3 DEF TypeOK
      <4>5. lag' = [lag EXCEPT ![tickPos] = sinceTick] /\ lag \in [Slots -> Nat] /\ sinceTick \in Nat
        BY <2>2 DEF Retransmit, TypeOK
      <4>6. lag' \in [Slots -> Nat]
        BY <4>5
      <4> QED BY <4>4, <4>6
    <3>2. [type |-> txns[tickPos].type, id |-> txns[tickPos].id, req |-> txns[tickPos].req] \in OutFrames
      BY <2>1 DEF OutFrames, TypeOK, Txn
    <3>3. toPeer' \in Seq(OutFrames) /\ Len(toPeer') <= WireCap
      <4> DEFINE f == [type |-> txns[tickPos].type, id |-> txns[tickPos].id, req |-> txns[tickPos].req]
      <4>1. toPeer \in Seq(OutFrames) /\ Len(toPeer) <= WireCap /\ f \in OutFrames
        BY <3>2 DEF TypeOK
      <4>2. \/ Len(toPeer) < WireCap /\ toPeer' = Append(toPeer, f)
            \/ toPeer' = toPeer
        BY <2>2 DEF Retransmit
      <4> HIDE DEF f
      <4> QED BY <4>1, <4>2
    <3> QED BY <1>4, <2>1, <2>2, <3>1, <3>3 DEF TickSlot, Retransmit, TypeOK, timeVars
  <2>3. CASE Expired(tickPos) /\ GiveUp(tickPos)
    BY <1>4, <2>1, <2>3, TypeComplete DEF TickSlot, GiveUp, TypeOK, timeVars
  <2>4. CASE UNCHANGED <<txns, lag, age, toPeer, result, calls>>
    BY <1>4, <2>1, <2>4 DEF TickSlot, TypeOK, timeVars
  <2> QED BY <1>4, <2>2, <2>3, <2>4 DEF TickSlot
<1>5. CASE TickHeartbeat
  <2>1. "PING" \in RequestType /\ DefaultTimeout \in Timeouts /\ 0 \in Retries
    BY DEF RequestType, Timeouts, Retries
  <2>2. CASE SendRequest("PING", DefaultTimeout, 0)
    <3>1. TableType' /\ UNCHANGED <<calls, answered, fromPeer>>
      BY <2>1, <2>2, TypeSendRequest
    <3>2. tickPos' \in 0..(MaxTransactions + 1) /\ tickNow' \in Times
      BY <1>5, ZeroTime DEF TickHeartbeat
    <3> QED BY <1>5, <3>1, <3>2 DEF TickHeartbeat, TypeOK, TableType, timeVars
  <2>3. CASE NoMemory
    BY <1>5, <2>3 DEF TickHeartbeat, NoMemory, TypeOK, timeVars, wireVars, Times
  <2>4. CASE UNCHANGED <<txns, nextTxnId, lastTxTime, wireVars,
                         issued, result, calls, answered, lag, age>>
    BY <1>5, <2>4 DEF TickHeartbeat, TypeOK, timeVars, wireVars, Times
  <2> QED BY <1>5, <2>2, <2>3, <2>4 DEF TickHeartbeat
<1>6. CASE HandleHello
  BY <1>6, TypeReceived DEF HandleHello, SendFrame, TypeOK, LinkStates, tickVars, timeVars
<1>7. CASE HandleHelloAck
  BY <1>7, TypeReceived, TypeCompleteById
  DEF HandleHelloAck, TypeOK, LinkStates, tickVars, timeVars
<1>8. CASE HandleResponse
  BY <1>8, TypeReceived, TypeCompleteById DEF HandleResponse, TypeOK, tickVars, timeVars
<1>9. CASE HandlePeerRequest
  BY <1>9, TypeReceived DEF HandlePeerRequest, SendFrame, TypeOK, tickVars, timeVars, histVars
<1>10. CASE HandleNotify
  BY <1>10, TypeReceived DEF HandleNotify, TypeOK, ctxVars, tickVars, timeVars, histVars
<1>11. CASE ClockStep
  BY <1>11 DEF ClockStep, TypeOK, Times, ctxVars, tickVars, wireVars
<1>12. CASE PeerReads
  <2>1. Head(toPeer) \in OutFrames /\ toPeer' \in Seq(OutFrames) /\ Len(toPeer') <= WireCap
    BY <1>12 DEF PeerReads, TypeOK
  <2>2. [type |-> AnswerTo(Head(toPeer).type), id |-> Head(toPeer).id, req |-> Head(toPeer).req]
          \in InFrames
    BY <2>1 DEF OutFrames, InFrames, AnswerTo, RequestType, AnswerType, Requests
  <2>3. fromPeer' \in Seq(InFrames) /\ Len(fromPeer') <= WireCap
    BY <1>12, <2>2 DEF PeerReads, TypeOK
  <2>4. answered' \subseteq 0..MaxRequests
    BY <1>12, <2>1 DEF PeerReads, TypeOK, OutFrames
  <2> QED BY <1>12, <2>1, <2>3, <2>4 DEF PeerReads, TypeOK, ctxVars, tickVars, timeVars
<1>13. CASE PeerSends
  <2>1. PICK type \in PeerTraffic : fromPeer' = Append(fromPeer, [type |-> type, id |-> 0, req |-> 0])
    BY <1>13 DEF PeerSends
  <2>2. [type |-> type, id |-> 0, req |-> 0] \in InFrames
    BY DEF InFrames, Ids, RequestType
  <2>3. fromPeer' \in Seq(InFrames) /\ Len(fromPeer') <= WireCap
    BY <1>13, <2>1, <2>2 DEF PeerSends, TypeOK
  <2> QED BY <1>13, <2>3 DEF PeerSends, TypeOK, ctxVars, tickVars, timeVars, histVars
<1>14. CASE LoseFrame
  <2>1. /\ toPeer \in Seq(OutFrames) /\ Len(toPeer) <= WireCap
        /\ fromPeer \in Seq(InFrames) /\ Len(fromPeer) <= WireCap
    BY DEF TypeOK
  <2>2. /\ toPeer' \in Seq(OutFrames) /\ Len(toPeer') <= WireCap
        /\ fromPeer' \in Seq(InFrames) /\ Len(fromPeer') <= WireCap
    <3>1. CASE toPeer # <<>> /\ toPeer' = Tail(toPeer) /\ UNCHANGED fromPeer
      BY <2>1, <3>1, TailType
    <3>2. CASE fromPeer # <<>> /\ fromPeer' = Tail(fromPeer) /\ UNCHANGED toPeer
      BY <2>1, <3>2, TailType
    <3> QED BY <1>14, <3>1, <3>2 DEF LoseFrame
  <2> QED BY <1>14, <2>2 DEF LoseFrame, TypeOK, ctxVars, tickVars, timeVars, histVars
<1>15. CASE UNCHANGED vars
  BY <1>15 DEF vars, TypeOK, ctxVars, tickVars, timeVars, wireVars, histVars
<1> QED
  BY <1>1, <1>2, <1>3, <1>4, <1>5, <1>6, <1>7, <1>8, <1>9, <1>10, <1>11, <1>12, <1>13, <1>14, <1>15
  DEF Next, Tick, Handle, Env

(* Every reachable state of the endpoint is well typed.                    *)
THEOREM TypeCorrect == Spec => []TypeOK
  BY TypeInit, TypeNext, PTL DEF Spec

-----------------------------------------------------------------------------
(* The steps, sorted by what they do to the transaction table.             *)

IssueStep ==
  \E type \in RequestType, t \in Timeouts, n \in Retries : SendRequest(type, t, n)

AnswerStep ==
  /\ \E type \in AnswerType : Received(type)
  /\ CompleteById(Head(fromPeer).id)
  /\ UNCHANGED <<issued, nextTxnId, toPeer, answered>>

(* Nothing happens to the table; the wires lose a frame or gain one of the *)
(* peer's own.                                                             *)
QuietStep ==
  /\ UNCHANGED <<txns, nextTxnId, issued, result, calls, answered>>
  /\ \/ toPeer' = toPeer
     \/ toPeer # <<>> /\ toPeer' = Tail(toPeer)
  /\ \/ fromPeer' = fromPeer
     \/ fromPeer # <<>> /\ fromPeer' = Tail(fromPeer)
     \/ \E type \in PeerTraffic :
          fromPeer' = Append(fromPeer, [type |-> type, id |-> 0, req |-> 0])

LEMMA NextCases ==
  ASSUME [Next]_vars
  PROVE  IssueStep \/ AnswerStep \/ TickSlot \/ PeerReads \/ QuietStep
<1>1. CASE StartHandshake
  <2>1. CASE SendRequest("HELLO", HandshakeTimeout, DefaultRetries)
    BY <2>1 DEF IssueStep, RequestType, Timeouts, Retries
  <2>2. CASE NoMemory
    BY <2>2 DEF NoMemory, QuietStep, wireVars
  <2> QED BY <1>1, <2>1, <2>2 DEF StartHandshake
<1>2. CASE AppRequest
  BY <1>2 DEF AppRequest, IssueStep, RequestType, Timeouts, Retries
<1>3. CASE TickBegin
  BY <1>3 DEF TickBegin, QuietStep, wireVars
<1>4. CASE TickHeartbeat
  <2>1. CASE SendRequest("PING", DefaultTimeout, 0)
    BY <2>1 DEF IssueStep, RequestType, Timeouts, Retries
  <2>2. CASE NoMemory
    BY <2>2 DEF NoMemory, QuietStep, wireVars
  <2>3. CASE UNCHANGED <<txns, nextTxnId, lastTxTime, wireVars,
                         issued, result, calls, answered, lag, age>>
    BY <2>3 DEF QuietStep, wireVars
  <2> QED BY <1>4, <2>1, <2>2, <2>3 DEF TickHeartbeat
<1>5. CASE HandleHello
  BY <1>5 DEF HandleHello, Received, SendFrame, QuietStep
<1>6. CASE HandleHelloAck
  BY <1>6 DEF HandleHelloAck, AnswerStep, AnswerType
<1>7. CASE HandleResponse
  BY <1>7 DEF HandleResponse, AnswerStep, AnswerType
<1>8. CASE HandlePeerRequest
  BY <1>8 DEF HandlePeerRequest, Received, SendFrame, QuietStep, histVars
<1>9. CASE HandleNotify
  BY <1>9 DEF HandleNotify, Received, QuietStep, ctxVars, histVars
<1>10. CASE ClockStep
  BY <1>10 DEF ClockStep, QuietStep, ctxVars, wireVars
<1>11. CASE PeerSends
  BY <1>11 DEF PeerSends, QuietStep, ctxVars, histVars
<1>12. CASE LoseFrame
  BY <1>12 DEF LoseFrame, QuietStep, ctxVars, histVars
<1>13. CASE UNCHANGED vars
  BY <1>13 DEF vars, QuietStep, ctxVars, wireVars, histVars
<1> QED
  BY <1>1, <1>2, <1>3, <1>4, <1>5, <1>6, <1>7, <1>8, <1>9, <1>10, <1>11, <1>12, <1>13
  DEF Next, Tick, Handle, Env

-----------------------------------------------------------------------------
(* Transaction ids.                                                        *)

(* An id that is not yet IdMod allocations old stays live when the next    *)
(* one is handed out, although next_txn_id may wrap to 0.                  *)
LEMMA LiveKept ==
  ASSUME TypeOK, NEW id \in Ids, NEW req \in Nat, Live(id, req), Fresh(req),
         issued' = issued + 1, nextTxnId' = NextId(nextTxnId)
  PROVE  Live(id, req)'
  BY ConfigAssumption DEF TypeOK, Live, Fresh, IdPlus, NextId, Ids

LEMMA LiveNew ==
  ASSUME TypeOK, NEW id, NEW req, id = nextTxnId, req = issued + 1,
         issued' = issued + 1, nextTxnId' = NextId(nextTxnId)
  PROVE  Live(id, req)'
  BY ConfigAssumption DEF TypeOK, Live, IdPlus, NextId, Ids

(* Two live ids are equal only for the same request.                       *)
LEMMA LiveUnique ==
  ASSUME TypeOK, NEW id \in Ids, NEW r1 \in Nat, NEW r2 \in Nat, Live(id, r1), Live(id, r2)
  PROVE  r1 = r2
  BY ConfigAssumption DEF TypeOK, Live, IdPlus, Ids

(* The elements of a wire after a frame was appended or taken.             *)
LEMMA AppendElems ==
  ASSUME NEW S, NEW q \in Seq(S), NEW f \in S, NEW i \in 1..Len(Append(q, f))
  PROVE  Append(q, f)[i] = f \/ \E j \in 1..Len(q) : Append(q, f)[i] = q[j]
  OBVIOUS

LEMMA TailElems ==
  ASSUME NEW S, NEW q \in Seq(S), q # <<>>, NEW i \in 1..Len(Tail(q))
  PROVE  \E j \in 1..Len(q) : Tail(q)[i] = q[j]
<1>1. i + 1 \in 1..Len(q) /\ Tail(q)[i] = q[i + 1]
  OBVIOUS
<1> QED BY <1>1

(* In a quiet step every frame left on a wire was there before, or is one  *)
(* of the peer's own.                                                      *)
LEMMA QuietWires ==
  ASSUME TypeOK, QuietStep
  PROVE  /\ \A i \in 1..Len(toPeer') : \E j \in 1..Len(toPeer) : toPeer'[i] = toPeer[j]
         /\ \A i \in 1..Len(fromPeer') :
              fromPeer'[i].type \in AnswerType =>
                \E j \in 1..Len(fromPeer) : fromPeer'[i] = fromPeer[j]
<1>1. toPeer \in Seq(OutFrames) /\ fromPeer \in Seq(InFrames)
  BY DEF TypeOK
<1>2. \A i \in 1..Len(toPeer') : \E j \in 1..Len(toPeer) : toPeer'[i] = toPeer[j]
  <2>1. CASE toPeer' = toPeer
    BY <2>1
  <2>2. CASE toPeer # <<>> /\ toPeer' = Tail(toPeer)
    BY <1>1, <2>2, TailElems
  <2> QED BY <2>1, <2>2 DEF QuietStep
<1>3. ASSUME NEW i \in 1..Len(fromPeer'), fromPeer'[i].type \in AnswerType
      PROVE  \E j \in 1..Len(fromPeer) : fromPeer'[i] = fromPeer[j]
  <2>1. CASE fromPeer' = fromPeer
    BY <1>3, <2>1
  <2>2. CASE fromPeer # <<>> /\ fromPeer' = Tail(fromPeer)
    BY <1>1, <1>3, <2>2, TailElems
  <2>3. CASE \E type \in PeerTraffic :
               fromPeer' = Append(fromPeer, [type |-> type, id |-> 0, req |-> 0])
    <3>1. PICK type \in PeerTraffic :
               fromPeer' = Append(fromPeer, [type |-> type, id |-> 0, req |-> 0])
      BY <2>3
    <3> DEFINE f == [type |-> type, id |-> 0, req |-> 0]
    <3>2. f \in InFrames /\ f.type \notin AnswerType
      BY ConfigAssumption DEF InFrames, Ids, RequestType, AnswerType
    <3>3. fromPeer' = Append(fromPeer, f)
      BY <3>1
    <3> HIDE DEF f
    <3>4. fromPeer'[i] = f \/ \E j \in 1..Len(fromPeer) : fromPeer'[i] = fromPeer[j]
      BY <1>1, <1>3, <3>2, <3>3, AppendElems
    <3> QED BY <1>3, <3>2, <3>4
  <2> QED BY <2>1, <2>2, <2>3 DEF QuietStep
<1> QED BY <1>2, <1>3

(* The types of the fields the invariants speak about.                     *)
LEMMA FieldTypes ==
  ASSUME TypeOK
  PROVE  /\ toPeer \in Seq(OutFrames) /\ fromPeer \in Seq(InFrames) /\ txns \in [Slots -> Txn]
         /\ \A i \in 1..Len(toPeer) : toPeer[i] \in OutFrames
         /\ \A i \in 1..Len(toPeer) : toPeer[i].id \in Ids /\ toPeer[i].req \in Nat
         /\ \A i \in 1..Len(fromPeer) : fromPeer[i] \in InFrames
         /\ \A i \in 1..Len(fromPeer) : fromPeer[i].id \in Ids /\ fromPeer[i].req \in Nat
         /\ \A s \in Slots : txns[s] \in Txn
         /\ \A s \in Slots : txns[s].id \in Ids /\ txns[s].req \in Nat
<1>1. /\ toPeer \in Seq(OutFrames) /\ fromPeer \in Seq(InFrames) /\ txns \in [Slots -> Txn]
      /\ \A i \in 1..Len(toPeer) : toPeer[i] \in OutFrames
      /\ \A i \in 1..Len(fromPeer) : fromPeer[i] \in InFrames
      /\ \A s \in Slots : txns[s] \in Txn
  BY DEF TypeOK
<1>2. /\ \A f \in OutFrames : f.id \in Ids /\ f.req \in Nat
      /\ \A f \in InFrames : f.id \in Ids /\ f.req \in Nat
      /\ \A t \in Txn : t.id \in Ids /\ t.req \in Nat
  BY ConfigAssumption DEF OutFrames, InFrames, Txn
<1> QED BY <1>1, <1>2

(* A retransmission keeps id and request number of the slot.               *)
LEMMA RetransmitFields ==
  ASSUME TypeOK, NEW s \in Slots, Retransmit(s)
  PROVE  /\ \A u \in Slots : u # s => txns'[u] = txns[u]
         /\ txns'[s].id = txns[s].id /\ txns'[s].req = txns[s].req
         /\ txns'[s].state = txns[s].state /\ txns'[s].timeout = txns[s].timeout
         /\ txns'[s].max_retries = txns[s].max_retries
         /\ txns'[s].retry_count = txns[s].retry_count + 1
         /\ txns'[s].last_tx_time = tickNow
         /\ \A u \in Slots : txns'[u].id = txns[u].id /\ txns'[u].req = txns[u].req
                             /\ txns'[u].state = txns[u].state
<1>1. txns[s] \in Txn /\ txns \in [Slots -> Txn]
  BY DEF TypeOK
<1>2. txns' = [txns EXCEPT ![s] =
                 [txns[s] EXCEPT !.retry_count = @ + 1, !.last_tx_time = tickNow]]
  BY <1>1 DEF Retransmit
<1>3. /\ \A u \in Slots : u # s => txns'[u] = txns[u]
      /\ txns'[s] = [txns[s] EXCEPT !.retry_count = @ + 1, !.last_tx_time = tickNow]
  BY <1>1, <1>2
<1> QED BY <1>1, <1>3 DEF Txn

(* The id invariant is preserved.                                          *)
LEMMA IdNext ==
  ASSUME TypeOK, IdInv, [Next]_vars
  PROVE  IdInv'
<1>0. /\ toPeer \in Seq(OutFrames) /\ fromPeer \in Seq(InFrames) /\ txns \in [Slots -> Txn]
      /\ \A i \in 1..Len(toPeer) : toPeer[i].id \in Ids /\ toPeer[i].req \in Nat
      /\ \A i \in 1..Len(fromPeer) : fromPeer[i].id \in Ids /\ fromPeer[i].req \in Nat
      /\ \A s \in Slots : txns[s].id \in Ids /\ txns[s].req \in Nat
  BY FieldTypes
<1>1. CASE IssueStep
  <2>1. PICK type \in RequestType, t \in Timeouts, n \in Retries : SendRequest(type, t, n)
    BY <1>1 DEF IssueStep
  <2>2. PICK s \in Slots : Accepted(s, type, t, n) \/ TxFull
    BY <2>1 DEF SendRequest
  <2>3. /\ IdReuseSafe
        /\ issued' = issued + 1
        /\ nextTxnId' = NextId(nextTxnId)
        /\ fromPeer' = fromPeer
    BY <2>1 DEF SendRequest
  <2>4. \A id \in Ids, req \in Nat : (Live(id, req) /\ Fresh(req)) => Live(id, req)'
    BY <2>3, LiveKept
  <2>5. (\A i \in 1..Len(fromPeer) :
          fromPeer[i].type \in AnswerType => Live(fromPeer[i].id, fromPeer[i].req))'
    BY <1>0, <2>3, <2>4 DEF IdInv, IdReuseSafe
  <2>6. CASE TxFull
    BY <1>0, <2>3, <2>4, <2>5, <2>6 DEF IdInv, IdReuseSafe, TxFull, Waiting
  <2>7. CASE Accepted(s, type, t, n)
    <3> DEFINE f == [type |-> type, id |-> nextTxnId, req |-> issued + 1]
    <3>1. \A id, req : (id = nextTxnId /\ req = issued + 1) => Live(id, req)'
      BY <2>3, LiveNew
    <3>2. (\A u \in Slots : Waiting(u) => Live(txns[u].id, txns[u].req))'
      BY <1>0, <2>3, <2>4, <2>7, <3>1 DEF IdInv, IdReuseSafe, Accepted, Waiting
    <3>3. f \in OutFrames /\ toPeer' = Append(toPeer, f)
      BY <2>1, <2>7, ConfigAssumption DEF Accepted, OutFrames, TypeOK, SendRequest
    <3>4. ASSUME NEW i \in 1..Len(toPeer')
          PROVE  Live(toPeer[i].id, toPeer[i].req)'
      <4>1. f.id = nextTxnId /\ f.req = issued + 1
        OBVIOUS
      <4> HIDE DEF f
      <4>2. toPeer'[i] = f \/ \E j \in 1..Len(toPeer) : toPeer'[i] = toPeer[j]
        BY <1>0, <3>3, AppendElems
      <4>3. CASE toPeer'[i] = f
        BY <3>1, <4>1, <4>3
      <4>4. CASE \E j \in 1..Len(toPeer) : toPeer'[i] = toPeer[j]
        BY <1>0, <2>3, <2>4, <4>4 DEF IdInv, IdReuseSafe
      <4> QED BY <4>2, <4>3, <4>4
    <3> QED BY <2>5, <3>2, <3>4 DEF IdInv
  <2> QED BY <2>2, <2>6, <2>7
<1>2. ASSUME UNCHANGED <<issued, nextTxnId>>
      PROVE  \A id, req : Live(id, req) => Live(id, req)'
  BY <1>2 DEF Live
<1>3. ASSUME NEW s \in Slots, NEW o, Complete(s, o)
      PROVE  \A u \in Slots : Waiting(u)' => txns'[u] = txns[u] /\ Waiting(u)
  BY <1>0, <1>3 DEF Complete, Waiting, EmptyTxn
<1>4. CASE AnswerStep
  <2>1. /\ UNCHANGED <<issued, nextTxnId, toPeer>>
        /\ fromPeer # <<>> /\ fromPeer' = Tail(fromPeer)
    BY <1>4 DEF AnswerStep, Received
  <2>2. \A u \in Slots : Waiting(u)' => txns'[u] = txns[u] /\ Waiting(u)
    BY <1>3, <1>4 DEF AnswerStep, CompleteById, Waiting
  <2>3. \A i \in 1..Len(fromPeer') : \E j \in 1..Len(fromPeer) : fromPeer'[i] = fromPeer[j]
    BY <1>0, <2>1, TailElems
  <2> QED BY <1>2, <2>1, <2>2, <2>3 DEF IdInv
<1>5. CASE TickSlot
  <2>1. tickPos \in Slots /\ UNCHANGED <<issued, nextTxnId, fromPeer>>
    BY <1>5 DEF TickSlot
  <2>2. CASE Expired(tickPos) /\ Retransmit(tickPos)
    <3> DEFINE f == [type |-> txns[tickPos].type, id |-> txns[tickPos].id, req |-> txns[tickPos].req]
    <3>1. f \in OutFrames
      BY <1>0, <2>1 DEF OutFrames, Txn
    <3>2. Live(f.id, f.req)
      BY <2>1, <2>2 DEF IdInv, Expired, Waiting
    <3>3. (\A u \in Slots : Waiting(u) => Live(txns[u].id, txns[u].req))'
      BY <1>2, <2>1, <2>2, RetransmitFields DEF IdInv, Waiting
    <3>4. toPeer' = Append(toPeer, f) \/ toPeer' = toPeer
      BY <2>2 DEF Retransmit
    <3> HIDE DEF f
    <3>5. (\A i \in 1..Len(toPeer) : Live(toPeer[i].id, toPeer[i].req))'
      BY <1>0, <1>2, <2>1, <3>1, <3>2, <3>4, AppendElems DEF IdInv
    <3> QED BY <1>2, <2>1, <3>3, <3>5 DEF IdInv
  <2>3. CASE Expired(tickPos) /\ GiveUp(tickPos)
    BY <1>2, <1>3, <2>1, <2>3 DEF IdInv, GiveUp
  <2>4. CASE UNCHANGED <<txns, lag, age, toPeer, result, calls>>
    BY <1>2, <2>1, <2>4 DEF IdInv, Waiting
  <2> QED BY <1>5, <2>2, <2>3, <2>4 DEF TickSlot
<1>6. CASE PeerReads
  <2> DEFINE h == Head(toPeer)
             f == [type |-> AnswerTo(h.type), id |-> h.id, req |-> h.req]
  <2>1. /\ UNCHANGED <<issued, nextTxnId, txns>>
        /\ toPeer # <<>> /\ toPeer' = Tail(toPeer)
        /\ fromPeer' = Append(fromPeer, f)
    BY <1>6 DEF PeerReads, ctxVars
  <2>2. h = toPeer[1] /\ 1 \in 1..Len(toPeer) /\ h \in OutFrames
    BY <1>0, <2>1
  <2>3. f \in InFrames
    BY <2>2 DEF OutFrames, InFrames, AnswerTo, RequestType, AnswerType, Requests
  <2>4. Live(f.id, f.req)
    BY <2>2 DEF IdInv
  <2>5. \A i \in 1..Len(toPeer') : \E j \in 1..Len(toPeer) : toPeer'[i] = toPeer[j]
    BY <1>0, <2>1, TailElems
  <2> HIDE DEF f
  <2>6. \A i \in 1..Len(fromPeer') :
           fromPeer'[i] = f \/ \E j \in 1..Len(fromPeer) : fromPeer'[i] = fromPeer[j]
    BY <1>0, <2>1, <2>3, AppendElems
  <2> QED BY <1>2, <2>1, <2>4, <2>5, <2>6 DEF IdInv, Waiting
<1>7. CASE QuietStep
  BY <1>2, <1>7, QuietWires DEF IdInv, QuietStep, Waiting
<1> QED BY <1>1, <1>4, <1>5, <1>6, <1>7, NextCases

-----------------------------------------------------------------------------
(* The table and the outcomes.                                             *)

(* Completing a waiting slot ends exactly its request.                     *)
LEMMA TableComplete ==
  ASSUME TypeOK, IdInv, TableInv, NEW s \in Slots, Waiting(s), NEW o \in {"OK", "TIMEOUT"},
         Complete(s, o), issued' = issued
  PROVE  TableInv'
<1>1. /\ txns \in [Slots -> Txn] /\ result \in [Requests -> Results]
      /\ calls \in [Requests -> Nat] /\ issued \in 0..MaxRequests
  BY DEF TypeOK
<1>2. txns[s].req \in Requests /\ txns[s].req \in 1..issued
  BY <1>1, ConfigAssumption DEF IdInv, Live, Requests
<1>3. /\ ~Waiting(s)'
      /\ \A u \in Slots : u # s => txns'[u] = txns[u]
      /\ \A u \in Slots : Waiting(u)' <=> (Waiting(u) /\ u # s)
  BY <1>1 DEF Complete, Waiting, EmptyTxn
<1>4. \A r \in Requests :
        /\ result'[r] = IF r = txns[s].req THEN o ELSE result[r]
        /\ calls'[r] = IF r = txns[s].req THEN calls[r] + 1 ELSE calls[r]
  BY <1>1, <1>2 DEF Complete
<1>5. result[txns[s].req] = "WAITING" /\ calls[txns[s].req] = 0
  BY <1>2 DEF TableInv, CompletedOnce
<1>6. ASSUME NEW u \in Slots, Waiting(u)'
      PROVE  result'[txns'[u].req] = "WAITING" /\ txns'[u].req # txns[s].req
  <2>1. Waiting(u) /\ u # s /\ txns'[u] = txns[u]
    BY <1>3, <1>6
  <2>2. txns[u].req # txns[s].req /\ result[txns[u].req] = "WAITING"
    BY <2>1 DEF TableInv
  <2>3. txns[u].req \in Requests
    BY <1>1, <2>1, ConfigAssumption DEF IdInv, Live, Requests
  <2> QED BY <1>4, <2>1, <2>2, <2>3
<1>7. \A u, v \in Slots : (Waiting(u)' /\ Waiting(v)' /\ txns'[u].req = txns'[v].req) => u = v
  BY <1>3 DEF TableInv
<1>8. \A r \in Requests :
        /\ calls'[r] = IF result'[r] \in {"OK", "TIMEOUT"} THEN 1 ELSE 0
        /\ result'[r] = "WAITING" <=> \E u \in Slots : Waiting(u)' /\ txns'[u].req = r
  <2> SUFFICES ASSUME NEW r \in Requests
               PROVE  /\ calls'[r] = IF result'[r] \in {"OK", "TIMEOUT"} THEN 1 ELSE 0
                      /\ result'[r] = "WAITING" <=> \E u \in Slots : Waiting(u)' /\ txns'[u].req = r
    OBVIOUS
  <2>1. CASE r = txns[s].req
    BY <1>4, <1>5, <1>6, <2>1
  <2>2. CASE r # txns[s].req
    <3>1. calls'[r] = IF result'[r] \in {"OK", "TIMEOUT"} THEN 1 ELSE 0
      BY <1>4, <2>2 DEF TableInv, CompletedOnce
    <3>2. result'[r] = "WAITING" <=> \E u \in Slots : Waiting(u) /\ txns[u].req = r
      BY <1>4, <2>2 DEF TableInv, CompletedOnce, Waiting
    <3> QED BY <1>3, <2>2, <3>1, <3>2
  <2> QED BY <2>1, <2>2
<1>9. \A r \in Requests : r > issued' <=> result'[r] = "NONE"
  BY <1>1, <1>2, <1>4 DEF TableInv
<1> QED BY <1>6, <1>7, <1>8, <1>9 DEF TableInv, CompletedOnce, Waiting

(* An answer that matches a slot completes a waiting one.                  *)
LEMMA TableAnswer ==
  ASSUME TypeOK, IdInv, TableInv, AnswerStep
  PROVE  TableInv'
<1>1. CASE \E s \in Slots : IsFoundSlot(s, Head(fromPeer).id) /\ Complete(s, "OK")
  <2>1. PICK s \in Slots : IsFoundSlot(s, Head(fromPeer).id) /\ Complete(s, "OK")
    BY <1>1
  <2>2. Waiting(s)
    BY <2>1, FieldTypes DEF IsFoundSlot, Waiting, Txn
  <2> QED BY <2>1, <2>2, TableComplete DEF AnswerStep
<1>2. CASE UNCHANGED <<txns, result, calls, lag, age>>
  BY <1>2 DEF AnswerStep, TableInv, CompletedOnce, Waiting
<1> QED BY <1>1, <1>2 DEF AnswerStep, CompleteById

(* A new request gets a number and a slot that nothing used.               *)
LEMMA TableIssue ==
  ASSUME TypeOK, IdInv, TableInv, IssueStep
  PROVE  TableInv'
<1>1. PICK type \in RequestType, t \in Timeouts, n \in Retries : SendRequest(type, t, n)
  BY DEF IssueStep
<1>2. PICK s \in Slots : IsAllocSlot(s) /\ (Accepted(s, type, t, n) \/ TxFull)
  BY <1>1 DEF SendRequest
<1>3. /\ issued < MaxRequests /\ issued' = issued + 1 /\ calls' = calls
      /\ txns \in [Slots -> Txn] /\ result \in [Requests -> Results]
      /\ calls \in [Requests -> Nat] /\ issued \in 0..MaxRequests
      /\ issued + 1 \in Requests
  BY <1>1, ConfigAssumption DEF SendRequest, TypeOK, Requests
<1>4. result[issued + 1] = "NONE" /\ calls[issued + 1] = 0
  BY <1>3 DEF TableInv, CompletedOnce
<1>5. \A u \in Slots : Waiting(u) => txns[u].req \in 1..issued
  BY DEF IdInv, Live
<1>6. CASE TxFull
  <2>1. \A r \in Requests : result'[r] = IF r = issued + 1 THEN "TX_FULL" ELSE result[r]
    BY <1>3, <1>6 DEF TxFull
  <2>2. txns' = txns
    BY <1>6 DEF TxFull
  <2>3. \A u \in Slots : Waiting(u) => txns[u].req \in Requests /\ txns[u].req # issued + 1
    BY <1>3, <1>5, ConfigAssumption DEF Requests
  <2>4. \A u \in Slots : Waiting(u)' => result'[txns'[u].req] = "WAITING"
    BY <2>1, <2>2, <2>3 DEF TableInv, Waiting
  <2>5. CompletedOnce'
    BY <1>3, <1>4, <2>1, <2>2, <2>3 DEF TableInv, CompletedOnce, Waiting
  <2>6. \A r \in Requests : r > issued' <=> result'[r] = "NONE"
    BY <1>3, <2>1 DEF TableInv, Requests
  <2> QED BY <2>2, <2>4, <2>5, <2>6 DEF TableInv, Waiting
<1>7. CASE Accepted(s, type, t, n)
  <2>1. \A r \in Requests : result'[r] = IF r = issued + 1 THEN "WAITING" ELSE result[r]
    BY <1>3, <1>7 DEF Accepted
  <2>2. /\ txns'[s].state = "WAITING" /\ txns'[s].req = issued + 1
        /\ \A u \in Slots : u # s => txns'[u] = txns[u]
        /\ ~Waiting(s)
    BY <1>2, <1>3, <1>7 DEF Accepted, IsAllocSlot, Waiting
  <2>3. \A u \in Slots : Waiting(u) => txns[u].req \in Requests /\ txns[u].req # issued + 1
    BY <1>3, <1>5, ConfigAssumption DEF Requests
  <2>4. \A u \in Slots : Waiting(u)' => result'[txns'[u].req] = "WAITING"
    BY <1>3, <2>1, <2>2, <2>3 DEF TableInv, Waiting
  <2>5. \A u, v \in Slots : (Waiting(u)' /\ Waiting(v)' /\ txns'[u].req = txns'[v].req) => u = v
    BY <2>2, <2>3 DEF TableInv, Waiting
  <2>6. \A r \in Requests : calls'[r] = IF result'[r] \in {"OK", "TIMEOUT"} THEN 1 ELSE 0
    BY <1>3, <1>4, <2>1 DEF TableInv, CompletedOnce
  <2>7. ASSUME NEW r \in Requests
        PROVE  result'[r] = "WAITING" <=> \E u \in Slots : txns'[u].state = "WAITING" /\ txns'[u].req = r
    <3>1. CASE r = issued + 1
      BY <2>1, <2>2, <3>1
    <3>2. CASE r # issued + 1
      <4>1. result'[r] = "WAITING" <=> \E u \in Slots : txns[u].state = "WAITING" /\ txns[u].req = r
        BY <2>1, <3>2 DEF TableInv, CompletedOnce
      <4>2. \A u \in Slots : (txns'[u].state = "WAITING" /\ txns'[u].req = r)
                             <=> (txns[u].state = "WAITING" /\ txns[u].req = r)
        BY <2>2, <3>2 DEF Waiting
      <4> QED BY <4>1, <4>2
    <3> QED BY <3>1, <3>2
  <2>8. \A r \in Requests : r > issued' <=> result'[r] = "NONE"
    BY <1>3, <2>1 DEF TableInv, Requests
  <2> QED BY <2>4, <2>5, <2>6, <2>7, <2>8 DEF TableInv, CompletedOnce, Waiting
<1> QED BY <1>2, <1>6, <1>7

LEMMA TableNext ==
  ASSUME TypeOK, IdInv, TableInv, [Next]_vars
  PROVE  TableInv'
<1>1. CASE TickSlot
  <2>1. tickPos \in Slots /\ issued' = issued
    BY <1>1 DEF TickSlot
  <2>2. CASE Expired(tickPos) /\ Retransmit(tickPos)
    <3>1. UNCHANGED <<result, calls>>
      BY <2>2 DEF Retransmit
    <3>2. \A u \in Slots : txns'[u].state = txns[u].state /\ txns'[u].req = txns[u].req
      BY <2>1, <2>2, RetransmitFields
    <3> QED BY <2>1, <3>1, <3>2 DEF TableInv, CompletedOnce, Waiting
  <2>3. CASE Expired(tickPos) /\ GiveUp(tickPos)
    BY <2>1, <2>3, TableComplete DEF GiveUp, Expired, Waiting
  <2>4. CASE UNCHANGED <<txns, lag, age, toPeer, result, calls>>
    BY <2>1, <2>4 DEF TableInv, CompletedOnce, Waiting
  <2> QED BY <1>1, <2>2, <2>3, <2>4 DEF TickSlot
<1>2. CASE PeerReads
  BY <1>2 DEF PeerReads, ctxVars, TableInv, CompletedOnce, Waiting
<1>3. CASE QuietStep
  BY <1>3 DEF QuietStep, TableInv, CompletedOnce, Waiting
<1> QED BY <1>1, <1>2, <1>3, TableIssue, TableAnswer, NextCases

-----------------------------------------------------------------------------
(* The wires: answers belong to the requests they complete.                *)

LEMMA WireNext ==
  ASSUME TypeOK, IdInv, TableInv, WireInv, [Next]_vars
  PROVE  WireInv'
<1> DEFINE Over == {"WAITING", "OK", "TIMEOUT"}
<1>0. /\ toPeer \in Seq(OutFrames) /\ fromPeer \in Seq(InFrames) /\ txns \in [Slots -> Txn]
      /\ \A i \in 1..Len(toPeer) : toPeer[i].id \in Ids /\ toPeer[i].req \in Nat
      /\ \A i \in 1..Len(fromPeer) : fromPeer[i].id \in Ids /\ fromPeer[i].req \in Nat
      /\ \A s \in Slots : txns[s].id \in Ids /\ txns[s].req \in Nat
      /\ result \in [Requests -> Results] /\ issued \in 0..MaxRequests
  BY FieldTypes DEF TypeOK
<1>1. \A i \in 1..Len(toPeer) : toPeer[i].req \in Requests /\ toPeer[i].req \in 1..issued
  BY <1>0, ConfigAssumption DEF IdInv, Live, Requests
<1>2. \A s \in Slots : Waiting(s) => txns[s].req \in Requests /\ result[txns[s].req] = "WAITING"
  BY <1>0, ConfigAssumption DEF IdInv, Live, Requests, TableInv
<1>3. CASE IssueStep
  <2>1. PICK type \in RequestType, t \in Timeouts, n \in Retries : SendRequest(type, t, n)
    BY <1>3 DEF IssueStep
  <2>2. PICK s \in Slots : Accepted(s, type, t, n) \/ TxFull
    BY <2>1 DEF SendRequest
  <2>3. /\ issued + 1 \in Requests /\ UNCHANGED <<answered, fromPeer>>
        /\ \A i \in 1..Len(toPeer) : toPeer[i].req # issued + 1
    <3>1. issued < MaxRequests /\ UNCHANGED <<answered, fromPeer>>
      BY <2>1 DEF SendRequest
    <3>2. issued + 1 \in Requests
      BY <1>0, <3>1, ConfigAssumption DEF Requests
    <3>3. \A r \in 1..issued : r # issued + 1
      BY <1>0
    <3> QED BY <1>1, <3>1, <3>2, <3>3
  <2>4. CASE TxFull
    BY <1>0, <1>1, <2>3, <2>4 DEF TxFull, WireInv, OwnAnswer
  <2>5. CASE Accepted(s, type, t, n)
    <3> DEFINE f == [type |-> type, id |-> nextTxnId, req |-> issued + 1]
    <3>1. f \in OutFrames /\ toPeer' = Append(toPeer, f) /\ f.req = issued + 1
      BY <2>1, <2>5, ConfigAssumption DEF Accepted, OutFrames, TypeOK, SendRequest
    <3>2. \A r \in Requests : result'[r] = IF r = issued + 1 THEN "WAITING" ELSE result[r]
      BY <1>0, <2>3, <2>5 DEF Accepted
    <3> HIDE DEF f
    <3>3. \A i \in 1..Len(toPeer') :
             toPeer'[i] = f \/ \E j \in 1..Len(toPeer) : toPeer'[i] = toPeer[j]
      BY <1>0, <3>1, AppendElems
    <3>4. \A i \in 1..Len(toPeer') : result'[toPeer'[i].req] \in Over
      BY <1>1, <2>3, <3>1, <3>2, <3>3 DEF WireInv
    <3> QED BY <2>3, <3>2, <3>4 DEF WireInv, OwnAnswer
  <2> QED BY <2>2, <2>4, <2>5
<1>4. CASE AnswerStep
  <2> DEFINE f == Head(fromPeer)
  <2>1. /\ UNCHANGED <<answered, toPeer>>
        /\ fromPeer # <<>> /\ fromPeer' = Tail(fromPeer)
        /\ f.type \in AnswerType
    BY <1>4 DEF AnswerStep, Received
  <2>2. f = fromPeer[1] /\ 1 \in 1..Len(fromPeer)
    BY <1>0, <2>1
  <2>3. f.req \in answered /\ Live(f.id, f.req) /\ f.id \in Ids /\ f.req \in Nat
    BY <1>0, <2>1, <2>2 DEF WireInv, IdInv
  <2>4. \A i \in 1..Len(fromPeer') : \E j \in 1..Len(fromPeer) : fromPeer'[i] = fromPeer[j]
    BY <1>0, <2>1, TailElems
  <2>5. CASE \E s \in Slots : IsFoundSlot(s, f.id) /\ Complete(s, "OK")
    <3>1. PICK s \in Slots : IsFoundSlot(s, f.id) /\ Complete(s, "OK")
      BY <2>5
    <3>2. Waiting(s) /\ txns[s].id = f.id
      BY <3>1, FieldTypes DEF IsFoundSlot, Waiting, Txn
    <3>3. txns[s].req = f.req
      BY <1>0, <2>3, <3>2, LiveUnique DEF IdInv
    <3>4. \A r \in Requests : result'[r] = IF r = f.req THEN "OK" ELSE result[r]
      BY <1>0, <3>1, <3>3 DEF Complete
    <3>5. \A i \in 1..Len(toPeer) : result'[toPeer[i].req] \in Over
      BY <1>1, <3>4 DEF WireInv
    <3> HIDE DEF f
    <3> QED BY <2>1, <2>3, <2>4, <3>4, <3>5 DEF WireInv, OwnAnswer
  <2>6. CASE UNCHANGED <<txns, result, calls, lag, age>>
    <3> HIDE DEF f
    <3> QED BY <2>1, <2>4, <2>6 DEF WireInv, OwnAnswer
  <2> QED BY <1>4, <2>5, <2>6 DEF AnswerStep, CompleteById
<1>5. CASE TickSlot
  <2>1. tickPos \in Slots /\ UNCHANGED <<answered, fromPeer>>
    BY <1>5 DEF TickSlot
  <2>2. CASE Expired(tickPos) /\ Retransmit(tickPos)
    <3> DEFINE f == [type |-> txns[tickPos].type, id |-> txns[tickPos].id, req |-> txns[tickPos].req]
    <3>1. f \in OutFrames /\ f.req = txns[tickPos].req
      BY <1>0, <2>1 DEF OutFrames, Txn
    <3>2. result[f.req] = "WAITING" /\ result' = result
      BY <1>2, <2>1, <2>2 DEF Expired, Waiting, Retransmit
    <3>3. toPeer' = Append(toPeer, f) \/ toPeer' = toPeer
      BY <2>2 DEF Retransmit
    <3> HIDE DEF f
    <3>4. \A i \in 1..Len(toPeer') :
             toPeer'[i] = f \/ \E j \in 1..Len(toPeer) : toPeer'[i] = toPeer[j]
      <4>1. CASE toPeer' = toPeer
        BY <4>1
      <4>2. CASE toPeer' = Append(toPeer, f)
        BY <1>0, <3>1, <4>2, AppendElems
      <4> QED BY <3>3, <4>1, <4>2
    <3>5. \A i \in 1..Len(toPeer') : result'[toPeer'[i].req] \in Over
      BY <3>2, <3>4 DEF WireInv
    <3> QED BY <2>1, <3>2, <3>5 DEF WireInv, OwnAnswer
  <2>3. CASE Expired(tickPos) /\ GiveUp(tickPos)
    <3>1. \A r \in Requests : result'[r] = IF r = txns[tickPos].req THEN "TIMEOUT" ELSE result[r]
      BY <1>0, <2>3 DEF GiveUp, Complete
    <3>2. toPeer' = toPeer
      BY <2>3 DEF GiveUp
    <3>3. \A i \in 1..Len(toPeer') : result'[toPeer'[i].req] \in Over
      BY <1>1, <3>1, <3>2 DEF WireInv
    <3> QED BY <2>1, <3>1, <3>3 DEF WireInv, OwnAnswer
  <2>4. CASE UNCHANGED <<txns, lag, age, toPeer, result, calls>>
    BY <2>1, <2>4 DEF WireInv, OwnAnswer
  <2> QED BY <1>5, <2>2, <2>3, <2>4 DEF TickSlot
<1>6. CASE PeerReads
  <2> DEFINE h == Head(toPeer)
             f == [type |-> AnswerTo(h.type), id |-> h.id, req |-> h.req]
  <2>1. /\ result' = result /\ answered' = answered \cup {h.req}
        /\ toPeer # <<>> /\ toPeer' = Tail(toPeer)
        /\ fromPeer' = Append(fromPeer, f)
    BY <1>6 DEF PeerReads
  <2>2. h = toPeer[1] /\ 1 \in 1..Len(toPeer) /\ h \in OutFrames
    BY <1>0, <2>1
  <2>3. f \in InFrames /\ f.req = h.req
    BY <2>2 DEF OutFrames, InFrames, AnswerTo, RequestType, AnswerType
  <2>5. \A i \in 1..Len(toPeer') : \E j \in 1..Len(toPeer) : toPeer'[i] = toPeer[j]
    BY <1>0, <2>1, TailElems
  <2> HIDE DEF f, h
  <2>6. \A i \in 1..Len(fromPeer') :
           fromPeer'[i] = f \/ \E j \in 1..Len(fromPeer) : fromPeer'[i] = fromPeer[j]
    BY <1>0, <2>1, <2>3, AppendElems
  <2> QED BY <2>1, <2>3, <2>5, <2>6 DEF WireInv, OwnAnswer
<1>7. CASE QuietStep
  BY <1>7, QuietWires DEF WireInv, OwnAnswer, QuietStep
<1> QED BY <1>3, <1>4, <1>5, <1>6, <1>7, NextCases

-----------------------------------------------------------------------------
(* Time.                                                                   *)

LEMMA ElapsedType ==
  ASSUME NEW a \in Times, NEW b \in Times
  PROVE  Elapsed(a, b) \in Nat /\ Elapsed(a, b) < TimeMod /\ Elapsed(a, a) = 0
  BY TimeAssumption DEF Elapsed, Times

(* One more millisecond is one more elapsed, until a whole turn is over.   *)
LEMMA ElapsedStep ==
  ASSUME NEW a \in Times, NEW b \in Times, NEW c, Elapsed(a, b) + 1 < TimeMod,
         c = IF a = TimeMod - 1 THEN 0 ELSE a + 1
  PROVE  Elapsed(c, b) = Elapsed(a, b) + 1
  BY TimeAssumption DEF Elapsed, Times

(* The difference of two readings taken against the same clock.            *)
LEMMA ElapsedDiff ==
  ASSUME NEW a \in Times, NEW b \in Times, NEW c \in Times, Elapsed(a, b) >= Elapsed(a, c)
  PROVE  Elapsed(c, b) = Elapsed(a, b) - Elapsed(a, c)
  BY TimeAssumption DEF Elapsed, Times

LEMMA TimeoutBound ==
  ASSUME NEW t \in Timeouts
  PROVE  t \in Nat /\ t + 2 * TickGap < TimeMod /\ TickGap \in Nat /\ TickGap > 0
  BY ConfigAssumption, TimeAssumption DEF Timeouts

(* The arithmetic of one more retry.                                       *)
LEMMA OneMore ==
  ASSUME NEW n \in Nat, NEW k \in Nat
  PROVE  (n + 1) * k = n * k + k /\ n * k \in Nat
  OBVIOUS

LEMMA RetryArith ==
  ASSUME NEW T \in Nat, NEW G \in Nat, NEW n \in Nat, NEW a \in Nat, NEW l \in Nat, NEW st \in Nat,
         l - st >= T, l - st <= T + G, a >= n * T + l, a <= n * (T + G) + l
  PROVE  a >= (n + 1) * T + st /\ a <= (n + 1) * (T + G) + st
<1>1. (n + 1) * T = n * T + T /\ n * T \in Nat
  BY OneMore
<1>2. T + G \in Nat
  OBVIOUS
<1>3. (n + 1) * (T + G) = n * (T + G) + (T + G) /\ n * (T + G) \in Nat
  BY <1>2, OneMore
<1>4. a >= n * T + T + st
  BY <1>1
<1>5. a <= n * (T + G) + (T + G) + st
  BY <1>3
<1> QED BY <1>1, <1>3, <1>4, <1>5

LEMMA Monotone ==
  ASSUME NEW m \in Nat, NEW n \in Nat, NEW k \in Nat, m <= n
  PROVE  m * k <= n * k
  OBVIOUS

(* What the bounds on lag and retries amount to.                           *)
LEMMA WaitArith ==
  ASSUME NEW n \in Nat, NEW m \in Nat, NEW T \in Nat, NEW G \in Nat, NEW a \in Nat, NEW l \in Nat,
         NEW st \in Nat, n <= m, st <= G, a <= n * (T + G) + l, l <= T + st + G
  PROVE  a <= (m + 1) * (T + G) + G
<1> DEFINE k == T + G
<1>1. k \in Nat
  OBVIOUS
<1>2. n * k <= m * k /\ (m + 1) * k = m * k + k /\ n * k \in Nat /\ m * k \in Nat
  BY <1>1, Monotone, OneMore
<1>3. a <= n * k + l /\ l <= k + G
  OBVIOUS
<1> HIDE DEF k
<1>4. a <= (m + 1) * k + G
  BY <1>1, <1>2, <1>3
<1> QED BY <1>4 DEF k

(* The fields SlotTime speaks about.                                       *)
LEMMA TxnTimes ==
  ASSUME TypeOK, NEW s \in Slots
  PROVE  /\ txns[s].timeout \in Timeouts /\ txns[s].timeout \in Nat
         /\ txns[s].timeout + 2 * TickGap < TimeMod
         /\ txns[s].retry_count \in Nat /\ txns[s].max_retries \in Nat
         /\ txns[s].last_tx_time \in Times
         /\ lag[s] \in Nat /\ age[s] \in Nat /\ s \in Nat
         /\ TickGap \in Nat /\ TimeMod \in Nat /\ sinceTick \in Nat /\ sinceTick <= TickGap
<1>1. txns[s] \in Txn /\ lag[s] \in Nat /\ age[s] \in Nat /\ s \in Nat
  BY ConfigAssumption DEF TypeOK, Slots
<1>2. \A n \in Retries : n \in Nat
  BY ConfigAssumption DEF Retries
<1>3. txns[s].timeout \in Timeouts /\ txns[s].retry_count \in Nat /\ txns[s].max_retries \in Retries
      /\ txns[s].last_tx_time \in Times
  BY <1>1 DEF Txn
<1> QED BY <1>1, <1>2, <1>3, TimeoutBound, TimeAssumption DEF TypeOK

(* A slot the step does not touch keeps its bounds while time stands still *)
(* and the tick does not move past it.                                     *)
LEMMA SlotTimeKept ==
  ASSUME NEW s \in Slots, SlotTime(s), txns'[s] = txns[s], lag'[s] = lag[s], age'[s] = age[s],
         UNCHANGED <<clock, sinceTick, tickPos>>
  PROVE  SlotTime(s)'
  BY DEF SlotTime

(* A request that has just been accepted.                                  *)
LEMMA SlotTimeNew ==
  ASSUME TypeOK, NEW s \in Slots, NEW type \in RequestType, NEW t \in Timeouts, NEW n \in Retries,
         Accepted(s, type, t, n), UNCHANGED <<clock, sinceTick>>, tickPos' = 0
  PROVE  SlotTime(s)'
<1>1. /\ txns'[s].last_tx_time = clock /\ txns'[s].retry_count = 0 /\ txns'[s].max_retries = n
      /\ txns'[s].timeout = IF t > 0 THEN t ELSE DefaultTimeout
      /\ lag'[s] = 0 /\ age'[s] = 0
  BY DEF Accepted, TypeOK
<1>2. txns'[s].timeout \in Nat /\ n \in Nat /\ TickGap \in Nat /\ sinceTick \in Nat
  <2>1. DefaultTimeout \in Timeouts /\ \A m \in Retries : m \in Nat
    BY ConfigAssumption DEF Timeouts, Retries
  <2> QED BY <1>1, <2>1, TimeoutBound, ConfigAssumption DEF TypeOK
<1>3. Elapsed(clock, clock) = 0
  BY ElapsedType DEF TypeOK
<1>4. 0 * txns'[s].timeout = 0 /\ 0 * (txns'[s].timeout + TickGap) = 0
  BY <1>2
<1>5. s \in Nat
  BY DEF Slots
<1> QED BY <1>1, <1>2, <1>3, <1>4, <1>5 DEF SlotTime

(* One iteration of the tick re-establishes the tight bound for its slot.  *)
LEMMA SlotTimeTick ==
  ASSUME TypeOK, TimeInv, TickSlot, NEW s \in Slots, s = tickPos, Waiting(s)'
  PROVE  SlotTime(s)'
<1>0. s \in Nat /\ s > 0
  BY ConfigAssumption DEF Slots
<1>1. UNCHANGED <<clock, sinceTick, tickNow>> /\ tickPos' = s + 1 /\ tickPos' \notin 1..s /\ tickPos # 0
  BY <1>0 DEF TickSlot, timeVars
<1>2. Waiting(s)
  <2>1. CASE Retransmit(s)
    BY <2>1, RetransmitFields DEF Waiting
  <2>2. CASE GiveUp(s)
    BY <2>2 DEF GiveUp, Complete, Waiting, EmptyTxn, TypeOK
  <2>3. CASE UNCHANGED txns
    BY <2>3 DEF Waiting
  <2> QED BY <2>1, <2>2, <2>3 DEF TickSlot
<1>3. /\ SlotTime(s) /\ Elapsed(clock, tickNow) = sinceTick
      /\ clock \in Times /\ tickNow \in Times
  BY <1>1, <1>2 DEF TimeInv, TypeOK
<1>4. /\ txns[s].timeout \in Nat /\ txns[s].retry_count \in Nat /\ txns[s].max_retries \in Nat
      /\ txns[s].last_tx_time \in Times /\ lag[s] \in Nat /\ age[s] \in Nat
      /\ TickGap \in Nat /\ sinceTick \in Nat
  BY TxnTimes
<1>5. Elapsed(tickNow, txns[s].last_tx_time) = lag[s] - sinceTick
  BY <1>1, <1>3, <1>4, ElapsedDiff DEF SlotTime
<1>6. CASE Expired(s) /\ Retransmit(s)
  <2>1. /\ txns'[s].timeout = txns[s].timeout /\ txns'[s].max_retries = txns[s].max_retries
        /\ txns'[s].retry_count = txns[s].retry_count + 1
        /\ txns'[s].last_tx_time = tickNow
    BY <1>6, RetransmitFields
  <2>2. lag'[s] = sinceTick /\ age'[s] = age[s] /\ txns[s].retry_count < txns[s].max_retries
    BY <1>6 DEF Retransmit, TypeOK
  <2>3. lag[s] - sinceTick >= txns[s].timeout /\ lag[s] - sinceTick <= txns[s].timeout + TickGap
    BY <1>0, <1>3, <1>4, <1>5, <1>6 DEF Expired, SlotTime
  <2>4. /\ age[s] >= txns[s].retry_count * txns[s].timeout + lag[s]
        /\ age[s] <= txns[s].retry_count * (txns[s].timeout + TickGap) + lag[s]
    BY <1>3 DEF SlotTime
  <2>7. /\ age[s] >= (txns[s].retry_count + 1) * txns[s].timeout + sinceTick
        /\ age[s] <= (txns[s].retry_count + 1) * (txns[s].timeout + TickGap) + sinceTick
    BY <1>4, <2>3, <2>4, RetryArith
  <2>8. /\ age'[s] >= txns'[s].retry_count * txns'[s].timeout + lag'[s]
        /\ age'[s] <= txns'[s].retry_count * (txns'[s].timeout + TickGap) + lag'[s]
    BY <2>1, <2>2, <2>7
  <2>9. txns'[s].retry_count <= txns'[s].max_retries
    BY <1>4, <2>1, <2>2
  <2>10. lag'[s] <= txns'[s].timeout + sinceTick
    BY <1>4, <2>1, <2>2
  <2>11. Elapsed(clock', txns'[s].last_tx_time) = lag'[s] /\ lag'[s] >= sinceTick'
    BY <1>1, <1>3, <1>4, <2>1, <2>2
  <2> QED BY <1>1, <1>4, <2>1, <2>8, <2>9, <2>10, <2>11 DEF SlotTime
<1>7. CASE ~Expired(s) /\ UNCHANGED <<txns, lag, age>>
  <2>1. lag[s] - sinceTick <= txns[s].timeout
    BY <1>2, <1>4, <1>5, <1>7 DEF Expired, Waiting
  <2> QED BY <1>1, <1>3, <1>4, <1>7, <2>1 DEF SlotTime
<1>8. CASE GiveUp(s)
  BY <1>8 DEF GiveUp, Complete, Waiting, EmptyTxn, TypeOK
<1> QED BY <1>6, <1>7, <1>8 DEF TickSlot

(* Leaving the tick, or staying out of it, keeps every untouched bound.    *)
LEMMA SlotTimeOut ==
  ASSUME NEW s \in Slots, SlotTime(s), txns'[s] = txns[s], lag'[s] = lag[s], age'[s] = age[s],
         UNCHANGED <<clock, sinceTick>>, tickPos \in {0, MaxTransactions + 1}, tickPos' = 0
  PROVE  SlotTime(s)'
<1>1. tickPos \notin 1..s /\ tickPos' \notin 1..s
  BY ConfigAssumption DEF Slots
<1> QED BY <1>1 DEF SlotTime

LEMMA TimeIssue ==
  ASSUME TypeOK, TimeInv, NEW type \in RequestType, NEW t \in Timeouts, NEW n \in Retries,
         SendRequest(type, t, n), UNCHANGED timeVars,
         tickPos \in {0, MaxTransactions + 1}, tickPos' = 0
  PROVE  TimeInv'
<1>1. PICK s \in Slots : Accepted(s, type, t, n) \/ TxFull
  BY DEF SendRequest
<1>2. UNCHANGED <<clock, sinceTick>>
  BY DEF timeVars
<1>3. CASE TxFull
  BY <1>2, <1>3, SlotTimeOut DEF TxFull, TimeInv, Waiting
<1>4. CASE Accepted(s, type, t, n)
  <2>1. SlotTime(s)'
    BY <1>2, <1>4, SlotTimeNew
  <2>2. \A u \in Slots : u # s => txns'[u] = txns[u] /\ lag'[u] = lag[u] /\ age'[u] = age[u]
    BY <1>4 DEF Accepted, TypeOK
  <2>3. \A u \in Slots : (u # s /\ Waiting(u)') => SlotTime(u)'
    BY <1>2, <2>2, SlotTimeOut DEF TimeInv, Waiting
  <2> QED BY <2>1, <2>3 DEF TimeInv
<1> QED BY <1>1, <1>3, <1>4

LEMMA TimeNext ==
  ASSUME TypeOK, TimeInv, [Next]_vars
  PROVE  TimeInv'
<1>1. ASSUME UNCHANGED <<txns, lag, age, tickVars, timeVars>> PROVE TimeInv'
  <2>1. UNCHANGED <<txns, lag, age, tickPos, tickNow, clock, sinceTick>>
    BY <1>1 DEF tickVars, timeVars
  <2> QED BY <2>1 DEF TimeInv, SlotTime, Waiting
<1>2. CASE StartHandshake
  <2>1. CASE SendRequest("HELLO", HandshakeTimeout, DefaultRetries)
    <3>1. tickPos = 0 /\ tickPos' = 0 /\ UNCHANGED timeVars
      BY <1>2 DEF StartHandshake, Idle, tickVars
    <3>2. "HELLO" \in RequestType /\ HandshakeTimeout \in Timeouts /\ DefaultRetries \in Retries
      BY DEF RequestType, Timeouts, Retries
    <3> QED BY <2>1, <3>1, <3>2, TimeIssue
  <2>2. CASE NoMemory
    BY <1>1, <1>2, <2>2 DEF StartHandshake, NoMemory
  <2> QED BY <1>2, <2>1, <2>2 DEF StartHandshake
<1>3. CASE AppRequest
  <2>1. PICK t \in AppTimeouts, n \in AppRetries : SendRequest("DATA", t, n)
    BY <1>3 DEF AppRequest
  <2>2. tickPos = 0 /\ tickPos' = 0 /\ UNCHANGED timeVars
    BY <1>3 DEF AppRequest, Idle, tickVars
  <2>3. "DATA" \in RequestType /\ t \in Timeouts /\ n \in Retries
    BY DEF RequestType, Timeouts, Retries
  <2> QED BY <2>1, <2>2, <2>3, TimeIssue
<1>4. CASE TickBegin
  <2>1. /\ tickPos = 0 /\ tickPos' = 1 /\ sinceTick' = 0 /\ tickNow' = clock
        /\ UNCHANGED <<txns, clock, lag, age>>
    BY <1>4 DEF TickBegin, Idle
  <2>2. Elapsed(clock', tickNow') = sinceTick'
    BY <2>1, ElapsedType DEF TypeOK
  <2>3. ASSUME NEW s \in Slots, Waiting(s)' PROVE SlotTime(s)'
    <3>1. SlotTime(s)
      BY <2>1, <2>3 DEF TimeInv, Waiting
    <3>2. 1 \in 1..s /\ 0 \notin 1..s
      BY ConfigAssumption DEF Slots
    <3> QED BY <2>1, <3>1, <3>2, TxnTimes DEF SlotTime
  <2> QED BY <2>2, <2>3 DEF TimeInv
<1>5. CASE TickSlot
  <2>1. /\ UNCHANGED <<clock, sinceTick, tickNow>> /\ tickPos' = tickPos + 1
        /\ tickPos \in Slots /\ tickPos # 0
    BY <1>5, ConfigAssumption DEF TickSlot, timeVars, Slots
  <2>2. ASSUME NEW s \in Slots, Waiting(s)', s # tickPos PROVE SlotTime(s)'
    <3>1. txns'[s] = txns[s] /\ lag'[s] = lag[s] /\ age'[s] = age[s]
      BY <1>5, <2>1, <2>2 DEF TickSlot, Retransmit, GiveUp, Complete, TypeOK
    <3>2. SlotTime(s)
      BY <2>2, <3>1 DEF TimeInv, Waiting
    <3>3. (tickPos \in 1..s <=> tickPos' \in 1..s) /\ tickPos' # 0
      BY <2>1, <2>2, ConfigAssumption DEF Slots
    <3> QED BY <2>1, <3>1, <3>2, <3>3 DEF SlotTime
  <2>3. \A s \in Slots : Waiting(s)' => SlotTime(s)'
    BY <1>5, <2>2, SlotTimeTick
  <2> QED BY <2>1, <2>3 DEF TimeInv
<1>6. CASE TickHeartbeat
  <2>1. tickPos = MaxTransactions + 1 /\ tickPos' = 0 /\ UNCHANGED timeVars
    BY <1>6 DEF TickHeartbeat
  <2>2. CASE SendRequest("PING", DefaultTimeout, 0)
    <3>1. "PING" \in RequestType /\ DefaultTimeout \in Timeouts /\ 0 \in Retries
      BY DEF RequestType, Timeouts, Retries
    <3> QED BY <2>1, <2>2, <3>1, TimeIssue
  <2>3. CASE UNCHANGED <<txns, lag, age>>
    BY <2>1, <2>3, SlotTimeOut DEF TimeInv, Waiting, timeVars
  <2> QED BY <1>6, <2>2, <2>3 DEF TickHeartbeat, NoMemory
<1>7. CASE ClockStep
  <2>1. /\ sinceTick < TickGap /\ sinceTick' = sinceTick + 1
        /\ clock' = IF clock = TimeMod - 1 THEN 0 ELSE clock + 1
        /\ UNCHANGED <<txns, tickPos, tickNow>>
        /\ \A s \in Slots : Waiting(s) => lag'[s] = lag[s] + 1 /\ age'[s] = age[s] + 1
    BY <1>7 DEF ClockStep, ctxVars, tickVars, Waiting
  <2>2. tickPos' # 0 => Elapsed(clock', tickNow') = sinceTick'
    <3>1. DefaultTimeout \in Timeouts /\ clock \in Times /\ tickNow \in Times /\ sinceTick \in Nat
      BY DEF Timeouts, TypeOK
    <3>2. sinceTick + 1 < TimeMod
      BY <2>1, <3>1, TimeoutBound, TimeAssumption
    <3> QED BY <2>1, <3>1, <3>2, ElapsedStep DEF TimeInv
  <2>3. ASSUME NEW s \in Slots, Waiting(s)' PROVE SlotTime(s)'
    <3>1. Waiting(s) /\ SlotTime(s)
      BY <2>1, <2>3 DEF TimeInv, Waiting
    <3>2. /\ txns[s].timeout \in Nat /\ txns[s].timeout + 2 * TickGap < TimeMod
          /\ txns[s].last_tx_time \in Times /\ lag[s] \in Nat /\ age[s] \in Nat
          /\ TickGap \in Nat /\ TimeMod \in Nat /\ sinceTick \in Nat
      BY TxnTimes
    <3>3. lag[s] <= txns[s].timeout + sinceTick + TickGap
      BY <3>1, <3>2 DEF SlotTime
    <3>4. lag[s] + 1 < TimeMod
      BY <2>1, <3>2, <3>3
    <3>5. Elapsed(clock', txns[s].last_tx_time) = lag[s] + 1
      <4>1. Elapsed(clock, txns[s].last_tx_time) = lag[s] /\ clock \in Times
        BY <3>1 DEF SlotTime, TypeOK
      <4>2. Elapsed(clock, txns[s].last_tx_time) + 1 < TimeMod
        BY <3>4, <4>1
      <4> QED BY <2>1, <3>2, <4>1, <4>2, ElapsedStep
    <3>6. /\ age[s] + 1 >= txns[s].retry_count * txns[s].timeout + (lag[s] + 1)
          /\ age[s] + 1 <= txns[s].retry_count * (txns[s].timeout + TickGap) + (lag[s] + 1)
      <4>1. /\ txns[s].retry_count * txns[s].timeout \in Nat
            /\ txns[s].retry_count * (txns[s].timeout + TickGap) \in Nat
        BY TxnTimes, OneMore
      <4>2. /\ age[s] >= txns[s].retry_count * txns[s].timeout + lag[s]
            /\ age[s] <= txns[s].retry_count * (txns[s].timeout + TickGap) + lag[s]
        BY <3>1 DEF SlotTime
      <4> QED BY <3>2, <4>1, <4>2
    <3> QED BY <2>1, <3>1, <3>2, <3>5, <3>6 DEF SlotTime
  <2> QED BY <2>2, <2>3 DEF TimeInv
<1>8. CASE HandleHelloAck \/ HandleResponse
  <2>1. CompleteById(Head(fromPeer).id) /\ UNCHANGED <<tickPos, tickNow, clock, sinceTick>>
    BY <1>8 DEF HandleHelloAck, HandleResponse, tickVars, timeVars
  <2>2. CASE UNCHANGED <<txns, result, calls, lag, age>>
    BY <1>1, <2>1, <2>2 DEF tickVars, timeVars
  <2>3. CASE \E s \in Slots : IsFoundSlot(s, Head(fromPeer).id) /\ Complete(s, "OK")
    <3>1. PICK s \in Slots : Complete(s, "OK")
      BY <2>3
    <3>2. /\ ~Waiting(s)'
          /\ \A u \in Slots : u # s => txns'[u] = txns[u] /\ lag'[u] = lag[u] /\ age'[u] = age[u]
      BY <3>1 DEF Complete, Waiting, EmptyTxn, TypeOK
    <3>3. \A u \in Slots : Waiting(u)' => SlotTime(u)'
      BY <2>1, <3>2, SlotTimeKept DEF TimeInv, Waiting
    <3> QED BY <2>1, <3>3 DEF TimeInv
  <2> QED BY <2>1, <2>2, <2>3 DEF CompleteById
<1>9. CASE HandleHello \/ HandlePeerRequest \/ HandleNotify \/ PeerReads \/ PeerSends \/ LoseFrame
  BY <1>1, <1>9 DEF HandleHello, HandlePeerRequest, HandleNotify, PeerReads, PeerSends, LoseFrame,
     SendFrame, histVars, ctxVars
<1>10. CASE UNCHANGED vars
  BY <1>1, <1>10 DEF vars, ctxVars, histVars
<1> QED
  BY <1>2, <1>3, <1>4, <1>5, <1>6, <1>7, <1>8, <1>9, <1>10 DEF Next, Tick, Handle, Env

-----------------------------------------------------------------------------
(* The handshake timer.                                                    *)

LEMMA HandshakeNext ==
  ASSUME TypeOK, HandshakeInv, [Next]_vars
  PROVE  HandshakeInv'
<1>1. ASSUME UNCHANGED <<state, handshakeStart, hsAge, clock, sinceTick>> PROVE HandshakeInv'
  BY <1>1 DEF HandshakeInv
<1>2. CASE StartHandshake
  <2>1. handshakeStart' = clock /\ hsAge' = 0 /\ UNCHANGED <<clock, sinceTick>>
    BY <1>2 DEF StartHandshake, timeVars
  <2>2. Elapsed(clock, clock) = 0 /\ sinceTick \in Nat /\ HandshakeTimeout \in Nat
    BY ElapsedType, ConfigAssumption DEF TypeOK
  <2> QED BY <2>1, <2>2 DEF HandshakeInv
<1>3. CASE TickBegin
  <2>1. /\ sinceTick' = 0 /\ UNCHANGED <<clock, handshakeStart>>
        /\ state' = IF /\ state = "HANDSHAKING"
                       /\ HandshakeTimeout > 0
                       /\ Elapsed(clock, handshakeStart) > HandshakeTimeout
                    THEN "IDLE" ELSE state
        /\ state' = "HANDSHAKING" => hsAge' = hsAge
    BY <1>3 DEF TickBegin
  <2>2. hsAge \in Nat /\ HandshakeTimeout \in Nat
    BY ConfigAssumption DEF TypeOK
  <2> QED BY <2>1, <2>2 DEF HandshakeInv
<1>4. CASE ClockStep
  <2> SUFFICES ASSUME state' = "HANDSHAKING", HandshakeTimeout > 0
               PROVE  /\ Elapsed(clock', handshakeStart') = hsAge'
                      /\ hsAge' <= HandshakeTimeout + sinceTick'
    BY DEF HandshakeInv
  <2>1. /\ sinceTick < TickGap /\ sinceTick' = sinceTick + 1
        /\ clock' = IF clock = TimeMod - 1 THEN 0 ELSE clock + 1
        /\ UNCHANGED <<handshakeStart, state>>
        /\ hsAge' = hsAge + 1
    BY <1>4 DEF ClockStep, ctxVars
  <2>2. /\ HandshakeTimeout \in Timeouts /\ clock \in Times /\ handshakeStart \in Times
        /\ sinceTick \in Nat /\ hsAge \in Nat
    BY DEF Timeouts, TypeOK
  <2>3. Elapsed(clock, handshakeStart) = hsAge /\ hsAge <= HandshakeTimeout + sinceTick
    BY <2>1 DEF HandshakeInv
  <2>4. HandshakeTimeout \in Nat /\ HandshakeTimeout + 2 * TickGap < TimeMod /\ TickGap \in Nat
    BY <2>2, TimeoutBound
  <2>5. Elapsed(clock, handshakeStart) + 1 < TimeMod
    BY <2>1, <2>2, <2>3, <2>4, TimeAssumption
  <2>6. Elapsed(clock', handshakeStart) = hsAge + 1
    BY <2>1, <2>2, <2>3, <2>5, ElapsedStep
  <2> QED BY <2>1, <2>2, <2>3, <2>4, <2>6
<1>5. CASE HandleHello
  BY <1>5 DEF HandleHello, HandshakeInv
<1>6. CASE HandleHelloAck
  BY <1>6 DEF HandleHelloAck, HandshakeInv
<1>7. CASE AppRequest \/ TickSlot \/ TickHeartbeat \/ HandleResponse \/ HandlePeerRequest
  BY <1>1, <1>7 DEF AppRequest, TickSlot, TickHeartbeat, HandleResponse, HandlePeerRequest,
     timeVars, histVars
<1>8. CASE HandleNotify \/ PeerReads \/ PeerSends \/ LoseFrame \/ UNCHANGED vars
  BY <1>1, <1>8 DEF HandleNotify, PeerReads, PeerSends, LoseFrame, vars, ctxVars, timeVars, histVars
<1> QED
  BY <1>2, <1>3, <1>4, <1>5, <1>6, <1>7, <1>8 DEF Next, Tick, Handle, Env

-----------------------------------------------------------------------------
(* The inductive invariant and what follows from it.                       *)

LEMMA InvInit == Init => IInv
<1> SUFFICES ASSUME Init PROVE IInv
  OBVIOUS
<1>1. TypeOK
  BY TypeInit
<1>2. /\ \A s \in Slots : ~Waiting(s)
      /\ toPeer = <<>> /\ fromPeer = <<>> /\ issued = 0 /\ answered = {}
      /\ \A r \in Requests : result[r] = "NONE" /\ calls[r] = 0
      /\ state = "IDLE" /\ tickPos = 0
  BY DEF Init, Waiting, EmptyTxn
<1>3. IdInv
  BY <1>2 DEF IdInv
<1>4. TableInv
  BY <1>2, ConfigAssumption DEF TableInv, CompletedOnce, Waiting, Requests
<1>5. WireInv
  BY <1>2 DEF WireInv, OwnAnswer
<1>6. TimeInv /\ HandshakeInv
  BY <1>2 DEF TimeInv, HandshakeInv
<1> QED BY <1>1, <1>3, <1>4, <1>5, <1>6 DEF IInv

LEMMA InvNext == IInv /\ [Next]_vars => IInv'
  BY TypeNext, IdNext, TableNext, WireNext, TimeNext, HandshakeNext DEF IInv

(* Every reachable state of the endpoint satisfies the inductive           *)
(* invariant: ids, table, wires, timers and handshake agree.               *)
THEOREM InvCorrect == Spec => []IInv
  BY InvInit, InvNext, PTL DEF Spec

(* uproto_complete_transaction runs exactly once for a request that is     *)
(* over, and never for one still in the table or refused.                  *)
THEOREM CompletedOnceCorrect == Spec => []CompletedOnce
<1>1. IInv => CompletedOnce
  BY DEF IInv, TableInv
<1> QED BY <1>1, InvCorrect, PTL

(* uproto_find_transaction has at most one candidate, although the ids     *)
(* wrap around.                                                            *)
THEOREM UniqueIdsCorrect == Spec => []UniqueIds
<1>1. IInv => UniqueIds
  <2> SUFFICES ASSUME IInv, NEW s \in Slots, NEW t \in Slots,
                      Waiting(s), Waiting(t), txns[s].id = txns[t].id
               PROVE  s = t
    BY DEF UniqueIds, Waiting
  <2>1. Live(txns[s].id, txns[s].req) /\ Live(txns[s].id, txns[t].req)
    BY DEF IInv, IdInv
  <2>2. txns[s].id \in Ids /\ txns[s].req \in Nat /\ txns[t].req \in Nat /\ TypeOK
    BY FieldTypes DEF IInv
  <2>3. txns[s].req = txns[t].req
    BY <2>1, <2>2, LiveUnique
  <2> QED BY <2>3 DEF IInv, TableInv
<1> QED BY <1>1, InvCorrect, PTL

(* A request that uproto_handle_frame completes with OK was answered by    *)
(* the peer itself; no late or duplicate answer of another ends it.        *)
THEOREM OwnAnswerCorrect == Spec => []OwnAnswer
<1>1. IInv => OwnAnswer
  BY DEF IInv, WireInv
<1> QED BY <1>1, InvCorrect, PTL

(* A request waits at most (timeout + tick period) per transmission plus   *)
(* one tick period before uproto_tick ends it.                             *)
THEOREM BoundedWaitCorrect == Spec => []BoundedWait
<1>1. IInv => BoundedWait
  <2> SUFFICES ASSUME IInv, NEW s \in Slots, Waiting(s)
               PROVE  age[s] <= (txns[s].max_retries + 1) * (txns[s].timeout + TickGap) + TickGap
    BY DEF BoundedWait, Waiting
  <2>1. TypeOK /\ SlotTime(s)
    BY DEF IInv, TimeInv
  <2>2. /\ txns[s].timeout \in Nat /\ txns[s].retry_count \in Nat /\ txns[s].max_retries \in Nat
        /\ TickGap \in Nat /\ sinceTick \in Nat /\ lag[s] \in Nat /\ age[s] \in Nat
    BY <2>1, TxnTimes
  <2>3. sinceTick <= TickGap
    BY <2>1, ConfigAssumption DEF TypeOK
  <2>4. /\ txns[s].retry_count <= txns[s].max_retries
        /\ age[s] <= txns[s].retry_count * (txns[s].timeout + TickGap) + lag[s]
        /\ lag[s] <= txns[s].timeout + sinceTick + TickGap
    BY <2>1, <2>2 DEF SlotTime
  <2> QED BY <2>2, <2>3, <2>4, WaitArith
<1> QED BY <1>1, InvCorrect, PTL

(* HANDSHAKING lasts at most the handshake timeout plus two tick periods.  *)
THEOREM HandshakeBoundedCorrect == Spec => []HandshakeBounded
<1>1. IInv => HandshakeBounded
  BY ConfigAssumption DEF IInv, HandshakeInv, HandshakeBounded, TypeOK
<1> QED BY <1>1, InvCorrect, PTL

-----------------------------------------------------------------------------
(* Action properties and refinement.                                       *)

(* uproto_tick reports a timeout only after the full wait of every         *)
(* transmission, also across a wrap of the 32-bit clock.                   *)
THEOREM TimeoutNotEarlyCorrect == Spec => TimeoutNotEarly
<1>1. ASSUME IInv, Next, NEW s \in Slots, txns[s].state = "WAITING", txns'[s].state = "FREE",
             result'[txns[s].req] = "TIMEOUT"
      PROVE  age[s] >= (txns[s].max_retries + 1) * txns[s].timeout
  <2>1. TypeOK /\ IdInv /\ TableInv /\ Waiting(s) /\ SlotTime(s)
    BY <1>1 DEF IInv, TimeInv, Waiting
  <2>2. txns[s].req \in Requests
    BY <2>1, ConfigAssumption DEF IdInv, Live, TypeOK, Requests
  <2>3. result[txns[s].req] = "WAITING"
    BY <2>1 DEF TableInv
  <2>4. tickPos = s /\ Expired(s) /\ GiveUp(s)
    <3>1. CASE IssueStep
      BY <1>1, <2>1, <3>1 DEF IssueStep, SendRequest, Accepted, TxFull, TypeOK, IsAllocSlot
    <3>2. CASE AnswerStep
      BY <1>1, <2>1, <2>2, <2>3, <3>2 DEF AnswerStep, CompleteById, Complete, TypeOK
    <3>3. CASE TickSlot
      <4>1. tickPos \in Slots
        BY <3>3 DEF TickSlot
      <4>2. CASE Expired(tickPos) /\ Retransmit(tickPos)
        BY <1>1, <2>1, <4>1, <4>2, RetransmitFields
      <4>3. CASE Expired(tickPos) /\ GiveUp(tickPos)
        BY <1>1, <2>1, <4>1, <4>3 DEF GiveUp, Complete, TypeOK
      <4> QED BY <1>1, <3>3, <4>2, <4>3 DEF TickSlot
    <3>4. CASE PeerReads
      BY <1>1, <3>4 DEF PeerReads, ctxVars
    <3>5. CASE QuietStep
      BY <1>1, <3>5 DEF QuietStep
    <3> QED BY <1>1, <3>1, <3>2, <3>3, <3>4, <3>5, NextCases
  <2>5. /\ txns[s].timeout \in Nat /\ txns[s].retry_count \in Nat /\ txns[s].max_retries \in Nat
        /\ txns[s].last_tx_time \in Times /\ lag[s] \in Nat /\ age[s] \in Nat
        /\ sinceTick \in Nat /\ s # 0
    BY <2>1, TxnTimes, ConfigAssumption DEF Slots
  <2>6. Elapsed(tickNow, txns[s].last_tx_time) = lag[s] - sinceTick
    <3>1. clock \in Times /\ tickNow \in Times
      BY <2>1 DEF TypeOK
    <3>2. /\ Elapsed(clock, tickNow) = sinceTick /\ lag[s] >= sinceTick
          /\ Elapsed(clock, txns[s].last_tx_time) = lag[s]
      BY <1>1, <2>1, <2>4, <2>5 DEF IInv, TimeInv, SlotTime
    <3> QED BY <2>5, <3>1, <3>2, ElapsedDiff
  <2>7. lag[s] >= txns[s].timeout
    BY <2>4, <2>5, <2>6 DEF Expired
  <2>8. /\ txns[s].retry_count = txns[s].max_retries
        /\ age[s] >= txns[s].retry_count * txns[s].timeout + lag[s]
    BY <2>1, <2>4, <2>5 DEF SlotTime, GiveUp
  <2>9. /\ (txns[s].max_retries + 1) * txns[s].timeout
             = txns[s].max_retries * txns[s].timeout + txns[s].timeout
        /\ txns[s].max_retries * txns[s].timeout \in Nat
    BY <2>5, OneMore
  <2> QED BY <2>5, <2>7, <2>8, <2>9
<1>2. IInv /\ [Next]_vars =>
        [\A s \in Slots :
           (txns[s].state = "WAITING" /\ txns'[s].state = "FREE" /\ result'[txns[s].req] = "TIMEOUT")
             => age[s] >= (txns[s].max_retries + 1) * txns[s].timeout]_vars
  BY <1>1
<1> QED BY <1>2, InvCorrect, PTL DEF Spec, TimeoutNotEarly

(* Every step of the endpoint is a step of the service or leaves what its  *)
(* callers see unchanged.                                                  *)
LEMMA ServiceStep ==
  ASSUME IInv, [Next]_vars
  PROVE  [Service!Next]_<<result, answered>>
<1>1. TypeOK /\ IdInv /\ TableInv /\ WireInv
  BY DEF IInv
<1>2. /\ result \in [Requests -> Results] /\ issued \in 0..MaxRequests /\ MaxRequests \in Nat
  BY <1>1, ConfigAssumption DEF TypeOK
<1>3. CASE IssueStep
  <2>1. /\ issued < MaxRequests /\ UNCHANGED answered
        /\ \/ result' = [result EXCEPT ![issued + 1] = "WAITING"]
           \/ result' = [result EXCEPT ![issued + 1] = "TX_FULL"]
    BY <1>3 DEF IssueStep, SendRequest, Accepted, TxFull
  <2>2. issued + 1 \in Requests
    BY <1>2, <2>1 DEF Requests
  <2>3. result[issued + 1] = "NONE"
    BY <1>1, <1>2, <2>2 DEF TableInv
  <2>4. Service!Issue(issued + 1)
    BY <2>1, <2>3 DEF Service!Issue
  <2> QED BY <2>2, <2>4 DEF Service!Next
<1>4. CASE AnswerStep
  <2>1. CASE \E s \in Slots : IsFoundSlot(s, Head(fromPeer).id) /\ Complete(s, "OK")
    <3>1. PICK s \in Slots : IsFoundSlot(s, Head(fromPeer).id) /\ Complete(s, "OK")
      BY <2>1
    <3>2. Waiting(s) /\ txns[s].id = Head(fromPeer).id
      BY <1>1, <3>1 DEF IsFoundSlot, Waiting, TypeOK, Txn
    <3>3. 1 \in 1..Len(fromPeer) /\ Head(fromPeer) = fromPeer[1] /\ fromPeer[1].type \in AnswerType
      <4>1. fromPeer # <<>> /\ Head(fromPeer).type \in AnswerType
        BY <1>4 DEF AnswerStep, Received
      <4> QED BY <1>1, <4>1, FieldTypes
    <3>4. Live(txns[s].id, fromPeer[1].req) /\ fromPeer[1].req \in answered
      BY <1>1, <3>2, <3>3 DEF IdInv, WireInv
    <3>5. Live(txns[s].id, txns[s].req)
      BY <1>1, <3>2 DEF IdInv
    <3>6. txns[s].req = fromPeer[1].req
      BY <1>1, <3>3, <3>4, <3>5, FieldTypes, LiveUnique
    <3>7. txns[s].req \in Requests /\ result[txns[s].req] = "WAITING"
      BY <1>1, <1>2, <3>2, <3>5 DEF Live, TableInv, Requests
    <3>8. result' = [result EXCEPT ![txns[s].req] = "OK"] /\ UNCHANGED answered
      BY <1>4, <3>1 DEF Complete, AnswerStep
    <3>9. Service!Finish(txns[s].req)
      BY <3>4, <3>6, <3>7, <3>8 DEF Service!Finish
    <3> QED BY <3>7, <3>9 DEF Service!Next
  <2>2. CASE UNCHANGED <<txns, result, calls, lag, age>>
    BY <1>4, <2>2 DEF AnswerStep
  <2> QED BY <1>4, <2>1, <2>2 DEF AnswerStep, CompleteById
<1>5. CASE TickSlot
  <2>1. tickPos \in Slots /\ UNCHANGED answered
    BY <1>5 DEF TickSlot
  <2>2. CASE Expired(tickPos) /\ GiveUp(tickPos)
    <3>1. Waiting(tickPos) /\ result' = [result EXCEPT ![txns[tickPos].req] = "TIMEOUT"]
      BY <2>2 DEF Expired, Waiting, GiveUp, Complete
    <3>2. txns[tickPos].req \in Requests /\ result[txns[tickPos].req] = "WAITING"
      BY <1>1, <1>2, <2>1, <3>1 DEF IdInv, Live, TableInv, Requests
    <3>3. Service!Finish(txns[tickPos].req)
      BY <2>1, <3>1, <3>2 DEF Service!Finish
    <3> QED BY <3>2, <3>3 DEF Service!Next
  <2>3. CASE UNCHANGED result
    BY <2>1, <2>3
  <2> QED BY <1>5, <2>2, <2>3 DEF TickSlot, Retransmit
<1>6. CASE PeerReads
  <2>1. /\ toPeer # <<>> /\ answered' = answered \cup {Head(toPeer).req} /\ UNCHANGED result
    BY <1>6 DEF PeerReads
  <2>2. 1 \in 1..Len(toPeer) /\ Head(toPeer) = toPeer[1]
    BY <1>1, <2>1, FieldTypes
  <2>3. toPeer[1].req \in Requests /\ result[toPeer[1].req] \in {"WAITING", "OK", "TIMEOUT"}
    BY <1>1, <1>2, <2>2 DEF IdInv, Live, WireInv, Requests
  <2>4. Service!Answer(toPeer[1].req)
    BY <2>1, <2>2, <2>3 DEF Service!Answer
  <2> QED BY <2>3, <2>4 DEF Service!Next
<1>7. CASE QuietStep
  BY <1>7 DEF QuietStep
<1> QED BY <1>3, <1>4, <1>5, <1>6, <1>7, NextCases

(* The endpoint, with its retries, slots, wrapping ids and wrapping clock, *)
(* implements the service promised to callers of uproto_send_request.      *)
THEOREM Implements == Spec => ImplementsService
<1>1. Init => Service!Init
  BY DEF Init, Service!Init
<1>2. IInv /\ [Next]_vars => [Service!Next]_Service!svars
  BY ServiceStep DEF Service!svars
<1> QED BY <1>1, <1>2, InvCorrect, PTL DEF Spec, ImplementsService, Service!Spec

=============================================================================
