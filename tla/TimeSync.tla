------------------------------- MODULE TimeSync ------------------------------
(***************************************************************************)
(* Clock synchronisation between the host and the DM02 board.  The host    *)
(* (class TimeSync of io/dm02/impl/dm02_driver.cpp) asks once per period;  *)
(* the board (channel/time_sync/time_sync_channel.c) answers through its   *)
(* pending slot of the arbiter, so an answer may wait there or be replaced *)
(* by the next one.  From the four times of an exchange the host computes  *)
(* the offset of the board's clock and filters it.  The board may restart, *)
(* which restarts its clock; the host keeps its mapping.                   *)
(***************************************************************************)
EXTENDS Integers, Sequences

CONSTANTS
  HistSize,    \* entries of hist_, 32
  SeqMod,      \* 2^16, the range of seq_
  Period,      \* period_ms_
  MaxRtt,      \* max_rtt_us_; 0, the default, accepts everything
  Start,       \* the host's clock when the driver starts
  Skews,       \* the board's clock minus the host's, initially
  MaxTime,     \* bound on the host's clock
  MaxReboots   \* bound on restarts of the board

ASSUME SyncAssumption ==
  /\ HistSize \in Nat \ {0}
  /\ SeqMod \in Nat \ {0}
  /\ HistSize < SeqMod
  /\ SeqMod % HistSize = 0
  /\ Period \in Nat \ {0}
  /\ MaxRtt \in Nat
  /\ Start \in Nat \ {0}
  /\ MaxTime \in Nat
  /\ MaxReboots \in Nat
  /\ Skews \subseteq Int /\ \A k \in Skews : Start + k >= 0

VARIABLES
  now,       \* the host's steady clock
  skew,      \* board clock minus host clock
  reboots,   \* restarts of the board so far
  requests,  \* requests sent so far; seq_ is this number modulo SeqMod
  lastReq,   \* last_req_us_
  hist,      \* hist_
  toBoard,   \* REQ frames on the wire
  rxReq,     \* the REQ the board is handling, with t1
  slot,      \* the RESP in the board's pending slot
  toHost,    \* RESP frames on the wire
  rttLast,   \* rtt_us_last_
  offset,    \* offset_us_
  valid,     \* mapping_valid_
  taken,     \* history: the exchange the filter took last
  settled,   \* history: the mapping has come close to the board's clock
  longest    \* history: the longest round trip of an exchange taken since then

host  == <<requests, lastReq, hist>>
board == <<rxReq, slot>>
est   == <<rttLast, offset, valid, taken>>
close == <<settled, longest>>
vars  == <<now, skew, reboots, host, toBoard, board, toHost, est, close>>

None == [n |-> -1]

Abs(x) == IF x < 0 THEN -x ELSE x

(* Integer division of C, which truncates towards zero.                    *)
TruncDiv(a, b) == IF a >= 0 THEN a \div b ELSE -((-a) \div b)

(* How far off a settled mapping may be when no round trip was longer: the *)
(* filter works in integers and stops up to ten units away from its input. *)
Margin(rtt) == (rtt + 1) \div 2 + 10

Init ==
  /\ now = Start
  /\ skew \in Skews
  /\ reboots = 0
  /\ requests = 0
  /\ lastReq = 0
  /\ hist = [i \in 0..(HistSize - 1) |-> [seq |-> 0, t0 |-> 0]]
  /\ toBoard = <<>>
  /\ rxReq = None
  /\ slot = None
  /\ toHost = <<>>
  /\ rttLast = 0
  /\ offset = 0
  /\ valid = FALSE
  /\ taken = None
  /\ settled = FALSE
  /\ longest = 0

-----------------------------------------------------------------------------
(* Frames between the two clocks.                                          *)

FramesOf(s) == {s[i] : i \in 1..Len(s)}
Requested   == FramesOf(toBoard) \cup ({rxReq} \ {None})
Responses   == FramesOf(toHost) \cup ({slot} \ {None})
InFlight    == Requested \cup Responses

(* A frame does not outlive the wrap of the sequence number (18 hours with *)
(* one request per second).                                                *)
FrameLife == \A f \in InFlight : requests - f.n < SeqMod

(* send_req_: the request as it goes out.                                  *)
Frame == [n |-> requests, seq |-> requests % SeqMod, t0 |-> now]

(* tick, send_req_: the request is remembered whether or not it gets out.  *)
Tick ==
  /\ now - lastReq >= Period
  /\ FrameLife
  /\ lastReq' = now
  /\ requests' = requests + 1
  /\ hist' = [hist EXCEPT ![requests % HistSize] = [seq |-> requests % SeqMod, t0 |-> now]]
  /\ toBoard' = Append(toBoard, Frame)
  /\ UNCHANGED <<now, skew, reboots, board, toHost, est, close>>

(* on_rx of the board: t1 is read first, then t2, and the answer is queued *)
(* over an older one that is still pending.                                *)
BoardRx ==
  /\ rxReq = None
  /\ toBoard # <<>>
  /\ rxReq' = [n |-> Head(toBoard).n, seq |-> Head(toBoard).seq, t0 |-> Head(toBoard).t0,
               t1 |-> now + skew]
  /\ toBoard' = Tail(toBoard)
  /\ UNCHANGED <<now, skew, reboots, host, slot, toHost, est, close>>

Answer(r) == [n |-> r.n, seq |-> r.seq, t0 |-> r.t0, t1 |-> r.t1, t2 |-> now + skew, skew |-> skew]

BoardQueue ==
  /\ rxReq # None
  /\ slot' = Answer(rxReq)
  /\ rxReq' = None
  /\ UNCHANGED <<now, skew, reboots, host, toBoard, toHost, est, close>>

(* The arbiter's turn for the channel.                                     *)
BoardSend ==
  /\ slot # None
  /\ toHost' = Append(toHost, slot)
  /\ slot' = None
  /\ UNCHANGED <<now, skew, reboots, host, toBoard, rxReq, est, close>>

-----------------------------------------------------------------------------
(* on_mux for a RESP.                                                      *)

(* Mutant: the newest request is taken to be the one that was answered.    *)
T0Newest(seq) == IF requests > 0 THEN lastReq ELSE 0

(* The first entry of the history with that sequence number, 0 if none.    *)
IsEntryOf(i, seq) ==
  /\ i \in DOMAIN hist
  /\ hist[i].seq = seq
  /\ \A j \in 0..(i - 1) : hist[j].seq # seq

T0Of(seq) == IF \E i \in DOMAIN hist : IsEntryOf(i, seq)
             THEN hist[CHOOSE i \in DOMAIN hist : IsEntryOf(i, seq)].t0
             ELSE 0

Rtt(t0, t1, t2, t3) == IF t2 >= t1 THEN (t3 - t0) - (t2 - t1) ELSE t3 - t0

(* Mutant: the return path is added instead of averaged out.               *)
OffsetForward(t0, t1, t2, t3) == t1 - t0

Offset(t0, t1, t2, t3) == TruncDiv((t1 - t0) + (t2 - t3), 2)

(* Mutant: the new sample gets a whole weight, nothing is divided out.     *)
FilteredSum(old, new) == TruncDiv(old * 9 + new * 10, 10)

Filtered(old, new) == TruncDiv(old * 9 + new, 10)

Accepted(rtt) == MaxRtt = 0 \/ rtt <= MaxRtt

(* Driver::device_us_to_host_ns, in microseconds.                          *)
DeviceToHost(t) == t - offset

(* The mapping is as close to the clock of the running board as it gets.   *)
IsClose(off, rtt) == Abs(off - skew) <= Margin(rtt) /\ \A f \in FramesOf(toHost) : f.skew = skew

(* History: the mapping settles, and is fed longer round trips from then.  *)
Settle(off, rtt) ==
  /\ settled' = (settled \/ IsClose(off, rtt))
  /\ longest' = IF settled' /\ rtt > longest THEN rtt ELSE longest

HandleResp ==
  /\ toHost # <<>>
  /\ toHost' = Tail(toHost)
  /\ LET f   == Head(toHost)
         t0  == T0Of(f.seq)
         rtt == Rtt(t0, f.t1, f.t2, now)
     IN  IF t0 = 0 THEN UNCHANGED <<est, close>>
         ELSE /\ rttLast' = rtt
              /\ IF Accepted(rtt)
                 THEN /\ offset' = Filtered(offset, Offset(t0, f.t1, f.t2, now))
                      /\ valid' = TRUE
                      /\ taken' = [n |-> f.n, sentAt |-> f.t0, skew |-> f.skew,
                                   t0 |-> t0, t1 |-> f.t1, t2 |-> f.t2, t3 |-> now]
                      /\ Settle(offset', rtt)
                 ELSE UNCHANGED <<offset, valid, taken, close>>
  /\ UNCHANGED <<now, skew, reboots, host, toBoard, board>>

-----------------------------------------------------------------------------
(* The environment.                                                        *)

LoseReq ==
  /\ toBoard # <<>>
  /\ toBoard' = Tail(toBoard)
  /\ UNCHANGED <<now, skew, reboots, host, board, toHost, est, close>>

LoseResp ==
  /\ toHost # <<>>
  /\ toHost' = Tail(toHost)
  /\ UNCHANGED <<now, skew, reboots, host, toBoard, board, est, close>>

ClockStep ==
  /\ now < MaxTime
  /\ now' = now + 1
  /\ UNCHANGED <<skew, reboots, host, toBoard, board, toHost, est, close>>

(* The board restarts: its clock starts at 0, what it held is lost.        *)
Reboot ==
  /\ reboots < MaxReboots
  /\ reboots' = reboots + 1
  /\ skew' = -now
  /\ rxReq' = None
  /\ slot' = None
  /\ settled' = FALSE
  /\ longest' = 0
  /\ UNCHANGED <<now, host, toBoard, toHost, est>>

Next ==
  \/ Tick \/ BoardRx \/ BoardQueue \/ BoardSend \/ HandleResp
  \/ LoseReq \/ LoseResp \/ ClockStep \/ Reboot

Spec == Init /\ [][Next]_vars

-----------------------------------------------------------------------------
(* An answer is judged by the time its own request was sent, although the  *)
(* sequence number wraps and the history holds only the newest requests.   *)
RightRequest == taken # None => taken.t0 = taken.sentAt

(* The offset taken from an exchange is off by at most half of the time    *)
(* the two frames were under way, wherever that time was spent.            *)
SampleBound ==
  taken # None =>
    LET s == Offset(taken.t0, taken.t1, taken.t2, taken.t3)
    IN  2 * Abs(s - taken.skew) <= Rtt(taken.t0, taken.t1, taken.t2, taken.t3) + 1

(* Once the mapping is as close to the board's clock as the filter can     *)
(* bring it, no further exchange with that board moves it away again: a    *)
(* time of the board converts to the host's time within half of the        *)
(* longest round trip taken since and the filter's dead band.  Nothing     *)
(* bounds that round trip in the shipped programs, which accept any.       *)
StaysClose ==
  settled => Abs(DeviceToHost(now + skew) - now) <= Margin(longest)

=============================================================================
