------------------------------- MODULE Uproto -------------------------------
(***************************************************************************)
(* One endpoint of the uproto link (io/dm02/protocol/core/uproto.c): the   *)
(* handshake, the table of request/response transactions with retries and  *)
(* timeouts, the heartbeat, and the reaction to every kind of frame.       *)
(*                                                                         *)
(* The endpoint is driven by one thread.  Frames travel over two FIFO      *)
(* wires that may lose any frame (a CRC error or an rx-buffer overflow     *)
(* drops a frame, module UprotoRx).  The peer is not in the repository: it *)
(* is modelled by what this endpoint expects of it.  uproto_tick is a loop *)
(* over the table that takes the time once, at its start, so it is split   *)
(* into one step per iteration and the clock may move between them.        *)
(***************************************************************************)
EXTENDS Integers, Sequences, FiniteSets

CONSTANTS
  MaxTransactions,    \* UPROTO_MAX_TRANSACTIONS
  IdMod,              \* transaction ids are taken modulo this (2^16)
  TimeMod,            \* milliseconds are taken modulo this (2^32)
  HandshakeTimeout,   \* config.handshake_timeout_ms, 0 disables the timeout
  HeartbeatInterval,  \* config.heartbeat_interval_ms, 0 disables the heartbeat
  DefaultTimeout,     \* config.default_timeout_ms
  DefaultRetries,     \* config.default_retries
  AppTimeouts,        \* timeouts the application passes to send_request
  AppRetries,         \* retry counts the application passes
  TickGap,            \* uproto_tick runs at least once every TickGap ms
  MaxRequests,        \* bound on the requests issued in one session
  PeerTraffic,        \* frames the peer sends by itself
  WireCap             \* bound on the frames in flight in one direction

ASSUME ConfigAssumption ==
  /\ MaxTransactions \in Nat \ {0}
  /\ IdMod \in Nat \ {0, 1}
  /\ HandshakeTimeout \in Nat
  /\ HeartbeatInterval \in Nat
  /\ DefaultTimeout \in Nat \ {0}
  /\ DefaultRetries \in Nat
  /\ AppTimeouts \subseteq Nat
  /\ AppRetries \subseteq Nat
  /\ TickGap \in Nat \ {0}
  /\ MaxRequests \in Nat
  /\ PeerTraffic \subseteq {"HELLO", "PING", "DATA", "NOTIFY"}
  /\ WireCap \in Nat \ {0}

(* The 32-bit clock is longer than any timeout plus two tick periods.      *)
ASSUME TimeAssumption ==
  /\ TimeMod \in Nat
  /\ \A t \in AppTimeouts \cup {DefaultTimeout, HandshakeTimeout, HeartbeatInterval} :
       t + 2 * TickGap < TimeMod

Slots    == 1..MaxTransactions
Requests == 1..MaxRequests
Ids      == 0..(IdMod - 1)
Times    == 0..(TimeMod - 1)

LinkStates  == {"IDLE", "HANDSHAKING", "ESTABLISHED"}
RequestType == {"HELLO", "PING", "DATA"}
AnswerType  == {"HELLO_ACK", "PONG", "RESPONSE"}
Results     == {"NONE", "WAITING", "OK", "TIMEOUT", "TX_FULL"}

Timeouts  == AppTimeouts \cup {DefaultTimeout, HandshakeTimeout}
Retries   == AppRetries \cup {DefaultRetries, 0}

(* The frames on the wires.  req is a history value: the number of the     *)
(* request a frame carries or answers (0 for the peer's own traffic).      *)
OutFrames == [type : RequestType, id : Ids, req : 0..MaxRequests]
InFrames  == [type : RequestType \cup AnswerType \cup {"NOTIFY"}, id : Ids, req : 0..MaxRequests]

Txn == [state : {"FREE", "WAITING"}, id : Ids, req : 0..MaxRequests,
        type : RequestType, retry_count : Nat, max_retries : Retries,
        timeout : Timeouts, last_tx_time : Times]

VARIABLES
  state,           \* ctx->state
  handshakeStart,  \* ctx->handshake_start_time
  txns,            \* ctx->transactions
  nextTxnId,       \* ctx->next_txn_id
  lastTxTime,      \* ctx->last_tx_time
  tickPos,         \* 0: not in uproto_tick; 1..N: slot being visited; N+1: heartbeat
  tickNow,         \* the local "now" of uproto_tick
  clock,           \* what uproto_now returns
  sinceTick,       \* ms since the last uproto_tick began
  toPeer,          \* requests written to the port, not yet read by the peer
  fromPeer,        \* frames of the peer, not yet handled
  issued,          \* history: requests that took an id
  result,          \* history: what became of each request
  calls,           \* history: how often each request was completed
  answered,        \* history: requests the peer has answered
  lag,             \* history: true ms since a slot's last_tx_time
  age,             \* history: true ms since a slot's request was issued
  hsAge            \* history: true ms since the handshake started

ctxVars  == <<state, handshakeStart, txns, nextTxnId, lastTxTime>>
tickVars == <<tickPos, tickNow>>
timeVars == <<clock, sinceTick>>
wireVars == <<toPeer, fromPeer>>
histVars == <<issued, result, calls, answered, lag, age, hsAge>>
vars     == <<ctxVars, tickVars, timeVars, wireVars, histVars>>

-----------------------------------------------------------------------------
(* uint32_t subtraction of two millisecond readings.                       *)
Elapsed(now, then) == IF now >= then THEN now - then ELSE now - then + TimeMod

(* Mutant: the id counter is wider than the 16 bits of the frame.          *)
NextIdUnwrapped(i) == i + 1

(* Mutant: the id counter wraps one too early.                             *)
NextIdShort(i) == IF i >= IdMod - 2 THEN 0 ELSE i + 1

(* uint16_t increment of next_txn_id.                                      *)
NextId(i) == IF i = IdMod - 1 THEN 0 ELSE i + 1

EmptyTxn == [state |-> "FREE", id |-> 0, req |-> 0, type |-> "HELLO",
             retry_count |-> 0, max_retries |-> 0, timeout |-> DefaultTimeout,
             last_tx_time |-> 0]

(* uproto_init: the context is zeroed, ids start at 1.                     *)
Init ==
  /\ state = "IDLE"
  /\ handshakeStart = 0
  /\ txns = [s \in Slots |-> EmptyTxn]
  /\ nextTxnId = 1
  /\ lastTxTime = 0
  /\ tickPos = 0
  /\ tickNow = 0
  /\ clock \in Times
  /\ sinceTick = 0
  /\ toPeer = <<>>
  /\ fromPeer = <<>>
  /\ issued = 0
  /\ result = [r \in Requests |-> "NONE"]
  /\ calls = [r \in Requests |-> 0]
  /\ answered = {}
  /\ lag = [s \in Slots |-> 0]
  /\ age = [s \in Slots |-> 0]
  /\ hsAge = 0

Idle == tickPos = 0

-----------------------------------------------------------------------------
(* The transaction table.                                                  *)

(* uproto_alloc_transaction: the first FREE slot.                          *)
IsAllocSlot(s) ==
  /\ txns[s].state = "FREE"
  /\ \A t \in Slots : t < s => txns[t].state # "FREE"

TableFull == \A s \in Slots : txns[s].state # "FREE"

(* Mutant: the id of the answer is not compared.                           *)
FoundAnySlot(s, id) ==
  /\ txns[s].state # "FREE"
  /\ \A t \in Slots : t < s => txns[t].state = "FREE"

(* uproto_find_transaction: the first slot in use with that id.            *)
IsFoundSlot(s, id) ==
  /\ txns[s].state # "FREE"
  /\ txns[s].id = id
  /\ \A t \in Slots : t < s => (txns[t].state = "FREE" \/ txns[t].id # id)

(* Mutant: the slot is not freed after its callback ran.                   *)
CompleteKeepsSlot(s, outcome) ==
  /\ UNCHANGED <<txns, lag, age>>
  /\ result' = [result EXCEPT ![txns[s].req] = outcome]
  /\ calls' = [calls EXCEPT ![txns[s].req] = @ + 1]

(* Mutant: the slot is freed, but the callback does not run.               *)
CompleteSilently(s, outcome) ==
  /\ txns' = [txns EXCEPT ![s] = EmptyTxn]
  /\ lag' = [lag EXCEPT ![s] = 0]
  /\ age' = [age EXCEPT ![s] = 0]
  /\ UNCHANGED <<result, calls>>

(* uproto_complete_transaction: the callback gets the outcome, the slot is *)
(* freed.  The fields of a FREE slot are never read and are not tracked.   *)
Complete(s, outcome) ==
  /\ txns' = [txns EXCEPT ![s] = EmptyTxn]
  /\ lag' = [lag EXCEPT ![s] = 0]
  /\ age' = [age EXCEPT ![s] = 0]
  /\ result' = [result EXCEPT ![txns[s].req] = outcome]
  /\ calls' = [calls EXCEPT ![txns[s].req] = @ + 1]

(* The assumption under which 16-bit ids are enough: a request is never    *)
(* outlived, in the table or on a wire, by IdMod - 1 later ones.           *)
Fresh(req) == issued + 1 - req < IdMod

IdReuseSafe ==
  /\ \A s \in Slots : txns[s].state = "WAITING" => Fresh(txns[s].req)
  /\ \A i \in 1..Len(toPeer) : Fresh(toPeer[i].req)
  /\ \A i \in 1..Len(fromPeer) : fromPeer[i].type \in AnswerType => Fresh(fromPeer[i].req)

(* uproto_send_request when the port takes the whole frame: slot s now     *)
(* waits for the answer.                                                   *)
Accepted(s, type, timeout, retries) ==
  /\ Len(toPeer) < WireCap
  /\ toPeer' = Append(toPeer, [type |-> type, id |-> nextTxnId, req |-> issued + 1])
  /\ txns' = [txns EXCEPT ![s] =
        [state |-> "WAITING", id |-> nextTxnId, req |-> issued + 1, type |-> type,
         retry_count |-> 0, max_retries |-> retries,
         timeout |-> IF timeout > 0 THEN timeout ELSE DefaultTimeout,
         last_tx_time |-> clock]]
  /\ lastTxTime' = clock
  /\ result' = [result EXCEPT ![issued + 1] = "WAITING"]
  /\ lag' = [lag EXCEPT ![s] = 0]
  /\ age' = [age EXCEPT ![s] = 0]

(* The port's write falls short: UPROTO_ERR_TX_FULL, the slot stays FREE.  *)
TxFull ==
  /\ result' = [result EXCEPT ![issued + 1] = "TX_FULL"]
  /\ UNCHANGED <<toPeer, txns, lastTxTime, lag, age>>

(* uproto_send_request with a FREE slot: the id is consumed before the     *)
(* write, whether or not the write succeeds.                               *)
SendRequest(type, timeout, retries) ==
  /\ issued < MaxRequests
  /\ IdReuseSafe
  /\ issued' = issued + 1
  /\ nextTxnId' = NextId(nextTxnId)
  /\ \E s \in Slots :
       /\ IsAllocSlot(s)
       /\ Accepted(s, type, timeout, retries) \/ TxFull
  /\ UNCHANGED <<calls, answered, fromPeer>>

(* uproto_send_request when no slot is FREE: UPROTO_ERR_NO_MEMORY, nothing *)
(* changes, not even next_txn_id.                                          *)
NoMemory ==
  /\ TableFull
  /\ UNCHANGED <<txns, nextTxnId, lastTxTime, wireVars,
                 issued, result, calls, answered, lag, age>>

(* uproto_send_frame, which carries the replies to the peer: a write that  *)
(* succeeds moves last_tx_time.  What the peer does with a reply does not  *)
(* concern this endpoint, so the frame itself is not kept.                 *)
SendFrame ==
  /\ \/ lastTxTime' = clock
     \/ UNCHANGED lastTxTime
  /\ UNCHANGED toPeer

-----------------------------------------------------------------------------
(* Calls of the application.                                               *)

(* uproto_start_handshake: refused (BUSY) unless IDLE.  The state changes  *)
(* before the HELLO is sent and stays changed when sending fails.          *)
StartHandshake ==
  /\ Idle
  /\ state = "IDLE"
  /\ state' = "HANDSHAKING"
  /\ handshakeStart' = clock
  /\ hsAge' = 0
  /\ \/ SendRequest("HELLO", HandshakeTimeout, DefaultRetries)
     \/ NoMemory
  /\ UNCHANGED <<tickVars, timeVars>>

(* uproto_send_request of the application.                                 *)
AppRequest ==
  /\ Idle
  /\ \E t \in AppTimeouts, n \in AppRetries : SendRequest("DATA", t, n)
  /\ UNCHANGED <<state, handshakeStart, hsAge, tickVars, timeVars>>

-----------------------------------------------------------------------------
(* uproto_tick.                                                            *)

(* Mutant: the handshake timeout is never checked.                         *)
TickBeginNoTimeout ==
  /\ Idle
  /\ tickPos' = 1
  /\ tickNow' = clock
  /\ sinceTick' = 0
  /\ UNCHANGED <<state, hsAge, handshakeStart, txns, nextTxnId, lastTxTime, clock, wireVars,
                 issued, result, calls, answered, lag, age>>

(* The time is read once; a handshake that took longer than its timeout    *)
(* falls back to IDLE (its HELLO stays in the table).                      *)
TickBegin ==
  /\ Idle
  /\ tickPos' = 1
  /\ tickNow' = clock
  /\ sinceTick' = 0
  /\ state' = IF /\ state = "HANDSHAKING"
                 /\ HandshakeTimeout > 0
                 /\ Elapsed(clock, handshakeStart) > HandshakeTimeout
              THEN "IDLE" ELSE state
  /\ hsAge' = IF state' = "HANDSHAKING" THEN hsAge ELSE 0
  /\ UNCHANGED <<handshakeStart, txns, nextTxnId, lastTxTime, clock, wireVars,
                 issued, result, calls, answered, lag, age>>

Expired(s) ==
  /\ txns[s].state = "WAITING"
  /\ Elapsed(tickNow, txns[s].last_tx_time) >= txns[s].timeout

(* Mutant: the retry is not counted.                                       *)
RetransmitUncounted(s) ==
  /\ txns[s].retry_count < txns[s].max_retries
  /\ txns' = [txns EXCEPT ![s].last_tx_time = tickNow]
  /\ lag' = [lag EXCEPT ![s] = sinceTick]
  /\ UNCHANGED <<toPeer, result, calls, age>>

(* Mutant: the retry does not restart the timeout.                         *)
RetransmitKeepsTime(s) ==
  /\ txns[s].retry_count < txns[s].max_retries
  /\ txns' = [txns EXCEPT ![s].retry_count = @ + 1]
  /\ UNCHANGED <<toPeer, result, calls, lag, age>>

(* The stored frame is written again; what write returns is ignored, and   *)
(* neither next_txn_id nor ctx->last_tx_time changes.                      *)
Retransmit(s) ==
  /\ txns[s].retry_count < txns[s].max_retries
  /\ txns' = [txns EXCEPT ![s].retry_count = @ + 1, ![s].last_tx_time = tickNow]
  /\ lag' = [lag EXCEPT ![s] = sinceTick]
  /\ \/ /\ Len(toPeer) < WireCap
        /\ toPeer' = Append(toPeer, [type |-> txns[s].type, id |-> txns[s].id, req |-> txns[s].req])
     \/ UNCHANGED toPeer
  /\ UNCHANGED <<result, calls, age>>

GiveUp(s) ==
  /\ txns[s].retry_count >= txns[s].max_retries
  /\ Complete(s, "TIMEOUT")
  /\ UNCHANGED toPeer

(* One iteration of the loop over the transactions.                        *)
TickSlot ==
  /\ tickPos \in Slots
  /\ tickPos' = tickPos + 1
  /\ \/ /\ Expired(tickPos)
        /\ Retransmit(tickPos) \/ GiveUp(tickPos)
     \/ /\ ~Expired(tickPos)
        /\ UNCHANGED <<txns, lag, age, toPeer, result, calls>>
  /\ UNCHANGED <<state, handshakeStart, nextTxnId, lastTxTime, tickNow, timeVars,
                 fromPeer, issued, answered, hsAge>>

HeartbeatDue ==
  /\ HeartbeatInterval > 0
  /\ state = "ESTABLISHED"
  /\ Elapsed(tickNow, lastTxTime) >= HeartbeatInterval

(* Within the bounds of the model; beyond them no further PING is sent.    *)
MayIssue == issued < MaxRequests /\ IdReuseSafe

(* The end of uproto_tick: a PING request without retries when due.        *)
TickHeartbeat ==
  /\ tickPos = MaxTransactions + 1
  /\ tickPos' = 0
  /\ tickNow' = 0
  /\ \/ /\ HeartbeatDue
        /\ SendRequest("PING", DefaultTimeout, 0) \/ NoMemory
     \/ /\ ~HeartbeatDue \/ ~MayIssue
        /\ UNCHANGED <<txns, nextTxnId, lastTxTime, wireVars,
                       issued, result, calls, answered, lag, age>>
  /\ UNCHANGED <<state, handshakeStart, timeVars, hsAge>>

-----------------------------------------------------------------------------
(* uproto_handle_frame, one action per kind of frame.                      *)

Received(type) ==
  /\ Idle
  /\ fromPeer # <<>>
  /\ Head(fromPeer).type = type
  /\ fromPeer' = Tail(fromPeer)

(* HELLO of the peer: acknowledged in every state; it establishes the link *)
(* whether or not this side had started a handshake.                       *)
HandleHello ==
  /\ Received("HELLO")
  /\ SendFrame
  /\ state' = "ESTABLISHED"
  /\ hsAge' = 0
  /\ UNCHANGED <<handshakeStart, txns, nextTxnId, tickVars, timeVars,
                 issued, result, calls, answered, lag, age>>

(* The part shared by every answer: the transaction with that id, if any,  *)
(* is completed; a late or duplicate answer finds none and is dropped.     *)
CompleteById(id) ==
  \/ \E s \in Slots : IsFoundSlot(s, id) /\ Complete(s, "OK")
  \/ /\ \A s \in Slots : ~IsFoundSlot(s, id)
     /\ UNCHANGED <<txns, result, calls, lag, age>>

(* HELLO_ACK: establishes the link only while HANDSHAKING.                 *)
HandleHelloAck ==
  /\ Received("HELLO_ACK")
  /\ state' = IF state = "HANDSHAKING" THEN "ESTABLISHED" ELSE state
  /\ hsAge' = 0
  /\ CompleteById(Head(fromPeer).id)
  /\ UNCHANGED <<handshakeStart, nextTxnId, lastTxTime, tickVars, timeVars, toPeer,
                 issued, answered>>

(* PONG, and every frame with the RESPONSE flag.                           *)
HandleResponse ==
  /\ Received("PONG") \/ Received("RESPONSE")
  /\ CompleteById(Head(fromPeer).id)
  /\ UNCHANGED <<state, handshakeStart, nextTxnId, lastTxTime, tickVars, timeVars, toPeer,
                 issued, answered, hsAge>>

(* PING is answered by PONG; a request by its handler's response, or by    *)
(* ERROR when no handler is registered for its type.                       *)
HandlePeerRequest ==
  /\ Received("PING") \/ Received("DATA")
  /\ SendFrame
  /\ UNCHANGED <<state, handshakeStart, txns, nextTxnId, tickVars, timeVars, histVars>>

(* A notification goes to its handler; the context does not change.        *)
HandleNotify ==
  /\ Received("NOTIFY")
  /\ UNCHANGED <<ctxVars, tickVars, timeVars, toPeer, histVars>>

-----------------------------------------------------------------------------
(* The environment: the clock, the wires and the peer (external).          *)

(* One millisecond passes.  uproto_tick is called from a loop that never   *)
(* lets more than TickGap ms pass between two calls.                       *)
ClockStep ==
  /\ sinceTick < TickGap
  /\ clock' = IF clock = TimeMod - 1 THEN 0 ELSE clock + 1
  /\ sinceTick' = sinceTick + 1
  /\ lag' = [s \in Slots |-> IF txns[s].state = "WAITING" THEN lag[s] + 1 ELSE lag[s]]
  /\ age' = [s \in Slots |-> IF txns[s].state = "WAITING" THEN age[s] + 1 ELSE age[s]]
  /\ hsAge' = IF state = "HANDSHAKING" THEN hsAge + 1 ELSE hsAge
  /\ UNCHANGED <<ctxVars, tickVars, wireVars, issued, result, calls, answered>>

AnswerTo(type) == CASE type = "HELLO" -> "HELLO_ACK"
                    [] type = "PING"  -> "PONG"
                    [] type = "DATA"  -> "RESPONSE"

(* The peer reads a request and answers with the request's id.             *)
PeerReads ==
  /\ toPeer # <<>>
  /\ toPeer' = Tail(toPeer)
  /\ LET f == Head(toPeer) IN
       /\ Len(fromPeer) < WireCap
       /\ fromPeer' = Append(fromPeer, [type |-> AnswerTo(f.type), id |-> f.id, req |-> f.req])
       /\ answered' = answered \cup {f.req}
  /\ UNCHANGED <<ctxVars, tickVars, timeVars, issued, result, calls, lag, age, hsAge>>

(* Traffic the peer starts by itself, with ids of its own.                 *)
PeerSends ==
  /\ Len(fromPeer) < WireCap
  /\ \E type \in PeerTraffic :
       fromPeer' = Append(fromPeer, [type |-> type, id |-> 0, req |-> 0])
  /\ UNCHANGED <<ctxVars, tickVars, timeVars, toPeer, histVars>>

(* A frame is lost on either wire.                                         *)
LoseFrame ==
  /\ \/ toPeer # <<>> /\ toPeer' = Tail(toPeer) /\ UNCHANGED fromPeer
     \/ fromPeer # <<>> /\ fromPeer' = Tail(fromPeer) /\ UNCHANGED toPeer
  /\ UNCHANGED <<ctxVars, tickVars, timeVars, histVars>>

-----------------------------------------------------------------------------
Tick   == TickBegin \/ TickSlot \/ TickHeartbeat
Handle == HandleHello \/ HandleHelloAck \/ HandleResponse \/ HandlePeerRequest \/ HandleNotify
Env    == ClockStep \/ PeerReads \/ PeerSends \/ LoseFrame

Next == StartHandshake \/ AppRequest \/ Tick \/ Handle \/ Env

Spec == Init /\ [][Next]_vars

-----------------------------------------------------------------------------
(* Properties.                                                             *)

(* Every variable keeps its type: ids stay 16-bit, times 32-bit, the table *)
(* keeps its size and the wires their capacity.                            *)
TypeOK ==
  /\ state \in LinkStates
  /\ handshakeStart \in Times
  /\ txns \in [Slots -> Txn]
  /\ nextTxnId \in Ids
  /\ lastTxTime \in Times
  /\ tickPos \in 0..(MaxTransactions + 1)
  /\ tickNow \in Times
  /\ clock \in Times
  /\ sinceTick \in 0..TickGap
  /\ toPeer \in Seq(OutFrames) /\ Len(toPeer) <= WireCap
  /\ fromPeer \in Seq(InFrames) /\ Len(fromPeer) <= WireCap
  /\ issued \in 0..MaxRequests
  /\ result \in [Requests -> Results]
  /\ calls \in [Requests -> Nat]
  /\ answered \subseteq 0..MaxRequests
  /\ lag \in [Slots -> Nat]
  /\ age \in [Slots -> Nat]
  /\ hsAge \in Nat

(* uproto_complete_transaction runs exactly once for a request that was    *)
(* accepted and is over, and not at all for one still in the table or      *)
(* refused, whatever the order of answers, duplicates, retries, timeouts.  *)
CompletedOnce ==
  \A r \in Requests :
    /\ calls[r] = IF result[r] \in {"OK", "TIMEOUT"} THEN 1 ELSE 0
    /\ result[r] = "WAITING" <=> \E s \in Slots : txns[s].state = "WAITING" /\ txns[s].req = r

(* uproto_find_transaction can match only one slot: the ids of the         *)
(* requests in the table differ although next_txn_id wraps around.         *)
UniqueIds ==
  \A s, t \in Slots :
    (txns[s].state = "WAITING" /\ txns[t].state = "WAITING" /\ txns[s].id = txns[t].id) => s = t

(* A request reported OK was answered itself: a late answer to an earlier  *)
(* request, or a duplicate caused by a retry, never completes another one. *)
OwnAnswer == \A r \in Requests : result[r] = "OK" => r \in answered

(* No request stays in the table longer than its transmissions can take:   *)
(* each retry waits at most the timeout and one tick period.               *)
BoundedWait ==
  \A s \in Slots : txns[s].state = "WAITING" =>
    age[s] <= (txns[s].max_retries + 1) * (txns[s].timeout + TickGap) + TickGap

(* uproto_tick reports a timeout only after the request waited its whole   *)
(* timeout once for every transmission, across clock wrap-around.          *)
TimeoutNotEarly ==
  [][\A s \in Slots :
       (txns[s].state = "WAITING" /\ txns'[s].state = "FREE" /\ result'[txns[s].req] = "TIMEOUT")
         => age[s] >= (txns[s].max_retries + 1) * txns[s].timeout]_vars

(* A handshake with a timeout does not stay in HANDSHAKING for ever: the   *)
(* first tick after the timeout ends it.                                   *)
HandshakeBounded ==
  (state = "HANDSHAKING" /\ HandshakeTimeout > 0) => hsAge <= HandshakeTimeout + 2 * TickGap

(* The documentation of uproto_is_established: "true once the handshake    *)
(* succeeded".  A HELLO transaction that completes with UPROTO_OK leaves   *)
(* the link established.  It does not when the answer is to a retry, which *)
(* uproto_tick sends when it also ends the handshake.                      *)
HelloOkEstablishes ==
  [][\A s \in Slots :
       (/\ txns[s].state = "WAITING" /\ txns[s].type = "HELLO"
        /\ txns'[s].state = "FREE" /\ result'[txns[s].req] = "OK")
         => state' = "ESTABLISHED"]_vars

(* The endpoint implements the service its callers see.                    *)
Service == INSTANCE RequestService WITH Requests <- Requests, result <- result, answered <- answered

ImplementsService == Service!Spec

-----------------------------------------------------------------------------
(* The inductive invariant behind these properties.                        *)

Waiting(s) == txns[s].state = "WAITING"

IdPlus(i, d) == IF i + d < IdMod THEN i + d ELSE i + d - IdMod

(* A live id is at most IdMod allocations old, and counting on from it by  *)
(* the number of allocations since gives next_txn_id.                      *)
Live(id, req) ==
  /\ req \in 1..issued
  /\ issued + 1 - req <= IdMod
  /\ nextTxnId = IdPlus(id, issued + 1 - req)

IdInv ==
  /\ \A s \in Slots : Waiting(s) => Live(txns[s].id, txns[s].req)
  /\ \A i \in 1..Len(toPeer) : Live(toPeer[i].id, toPeer[i].req)
  /\ \A i \in 1..Len(fromPeer) :
       fromPeer[i].type \in AnswerType => Live(fromPeer[i].id, fromPeer[i].req)

(* The table and the outcomes agree: one slot per waiting request.         *)
TableInv ==
  /\ \A s \in Slots : Waiting(s) => result[txns[s].req] = "WAITING"
  /\ \A s, t \in Slots : (Waiting(s) /\ Waiting(t) /\ txns[s].req = txns[t].req) => s = t
  /\ CompletedOnce
  /\ \A r \in Requests : r > issued <=> result[r] = "NONE"

(* What is on the wires is about accepted requests, and every answer on    *)
(* the wire was given by the peer.                                         *)
WireInv ==
  /\ \A i \in 1..Len(toPeer) : result[toPeer[i].req] \in {"WAITING", "OK", "TIMEOUT"}
  /\ \A i \in 1..Len(fromPeer) :
       fromPeer[i].type \in AnswerType => fromPeer[i].req \in answered
  /\ OwnAnswer

(* The stored 32-bit times stand for the true times of the history         *)
(* variables; between two ticks no slot is overdue by more than the time   *)
(* since the tick.                                                         *)
SlotTime(s) ==
  /\ Elapsed(clock, txns[s].last_tx_time) = lag[s]
  /\ tickPos # 0 => lag[s] >= sinceTick
  /\ lag[s] <= txns[s].timeout + sinceTick + (IF tickPos \in 1..s THEN TickGap ELSE 0)
  /\ txns[s].retry_count <= txns[s].max_retries
  /\ age[s] >= txns[s].retry_count * txns[s].timeout + lag[s]
  /\ age[s] <= txns[s].retry_count * (txns[s].timeout + TickGap) + lag[s]

TimeInv ==
  /\ tickPos # 0 => Elapsed(clock, tickNow) = sinceTick
  /\ \A s \in Slots : Waiting(s) => SlotTime(s)

HandshakeInv ==
  (state = "HANDSHAKING" /\ HandshakeTimeout > 0) =>
    /\ Elapsed(clock, handshakeStart) = hsAge
    /\ hsAge <= HandshakeTimeout + sinceTick

(* The conjunction TLC checks and the proofs show to be inductive.         *)
IInv == TypeOK /\ IdInv /\ TableInv /\ WireInv /\ TimeInv /\ HandshakeInv

-----------------------------------------------------------------------------
(* Fairness: the loop of LinkImpl::io_thread keeps calling the tick, and   *)
(* time passes.  Nothing is assumed of the peer or of the wires.           *)
FairSpec == Spec /\ WF_vars(Tick) /\ WF_vars(ClockStep)

(* Every accepted request ends, even when the peer never answers: the      *)
(* slots of the table are always given back.                               *)
RequestsEnd == \A r \in Requests : result[r] = "WAITING" ~> result[r] \in {"OK", "TIMEOUT"}

=============================================================================
