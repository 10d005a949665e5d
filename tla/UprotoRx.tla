------------------------------- MODULE UprotoRx ------------------------------
(***************************************************************************)
(* The receiving side of uproto: bytes arrive in chunks of any size, are   *)
(* collected in rx_buffer and cut into frames.  The line damages, loses    *)
(* and inserts bytes, and the driver may hand over more bytes at once than *)
(* the buffer has room for.                                                *)
(*                                                                         *)
(* A byte is its value with, as history, the frame and the place it comes  *)
(* from.  The checksums are taken to be perfect: a frame decodes when all  *)
(* its bytes are those one frame was sent with.  Payloads do not contain   *)
(* the magic bytes.                                                        *)
(***************************************************************************)
EXTENDS Naturals, Sequences, FiniteSetsExt

CONSTANTS
  Header,      \* UPROTO_HEADER_SIZE, 16: two magic bytes up to the length
  Trailer,     \* the frame CRC, 2
  MaxPayload,  \* UPROTO_MAX_PAYLOAD, 256
  BufSize,     \* UPROTO_RX_BUFFER_SIZE, 512
  Payloads,    \* the payload lengths that are sent
  MaxLine,     \* bound on the bytes under way: what one read may return
  MaxFrames,   \* bound on the frames sent
  MaxNoise     \* bound on the bytes the line damages, loses or inserts

Total(len) == Header + len + Trailer

ASSUME RxAssumption ==
  /\ Header \in Nat /\ Header >= 3
  /\ {Trailer, MaxPayload, BufSize, MaxLine, MaxFrames, MaxNoise} \subseteq Nat
  /\ MaxPayload >= 1
  /\ Payloads # {} /\ Payloads \subseteq 0..MaxPayload
  /\ Total(MaxPayload) <= BufSize

VARIABLES
  line,       \* bytes on the way
  buf,        \* rx_buffer up to rx_pos
  busy,       \* uproto_process_rx_buffer is running
  sent,       \* history: frames sent
  handled,    \* history: the frames given to uproto_handle_frame
  noise,      \* history: disturbances by the line
  upset,      \* history: a disturbance or an overflow has happened
  resume      \* history: the first frame that begins after the last one

rxVars == <<line, buf, busy, sent, handled, noise, upset, resume>>

MAGIC_0 == MaxPayload + 1
MAGIC_1 == MaxPayload + 2
DATA    == 1     \* any other byte; as a length it is one that is possible

Values == 0..MAGIC_1

(* uproto_encode_frame.                                                    *)
Encode(k, len) ==
  [i \in 1..Total(len) |->
     [v |-> CASE i = 1 -> MAGIC_0 [] i = 2 -> MAGIC_1 [] i = Header -> len [] OTHER -> DATA,
      of |-> k, at |-> i]]

(* uproto_decode_frame succeeds.                                           *)
Decodes(b) == b[1].of # 0 /\ \A i \in DOMAIN b : b[i].of = b[1].of /\ b[i].at = i

RxInit ==
  /\ line = <<>>
  /\ buf = <<>>
  /\ busy = FALSE
  /\ sent = 0
  /\ handled = <<>>
  /\ noise = 0
  /\ upset = FALSE
  /\ resume = 1

Drop(b, n) == SubSeq(b, n + 1, Len(b))

(* uproto_on_rx_bytes: a byte that finds the buffer full empties it.       *)
Fill(b, chunk) ==
  LET room == BufSize - Len(b)
      over == Len(chunk) - room - 1
  IN IF Len(chunk) <= room THEN b \o chunk
     ELSE Drop(chunk, room + 1 + (over \div (BufSize + 1)) * (BufSize + 1))

-----------------------------------------------------------------------------
Send ==
  /\ sent < MaxFrames
  /\ \E len \in Payloads :
       /\ Len(line) + Total(len) <= MaxLine
       /\ line' = line \o Encode(sent + 1, len)
  /\ sent' = sent + 1
  /\ UNCHANGED <<buf, busy, handled, noise, upset, resume>>

(* The line changes, loses or inserts the next byte.                       *)
Disturb ==
  /\ noise < MaxNoise
  /\ line # <<>>
  /\ noise' = noise + 1
  /\ upset' = TRUE
  /\ resume' = sent + 1
  /\ \/ line' = Tail(line)
     \/ \E v \in Values : line' = <<[v |-> v, of |-> 0, at |-> 0]>> \o Tail(line)
     \/ \E v \in Values : line' = <<[v |-> v, of |-> 0, at |-> 0]>> \o line
  /\ UNCHANGED <<buf, busy, sent, handled>>

(* The first frame that has bytes in a part of the line.                   *)
FrameAt(bytes) == Min({sent + 1} \cup ({bytes[i].of : i \in DOMAIN bytes} \ {0}))

(* The frame behind that one, unless it has just begun.                    *)
NextStart(bytes) ==
  IF bytes = <<>> \/ bytes[1].of = 0 THEN sent + 1
  ELSE IF bytes[1].at = 1 THEN bytes[1].of ELSE bytes[1].of + 1

(* One read of Driver::poll.  An overflow loses the bytes collected; a     *)
(* chunk that ends between the magic bytes, while the decoder is out of    *)
(* step, may lose the frame that begins there.                             *)
Receive ==
  /\ ~busy
  /\ busy' = TRUE
  /\ \E n \in 1..Len(line) :
       LET over == Len(buf) + n > BufSize
           split == upset /\ line[n].at = 1
       IN /\ line' = Drop(line, n)
          /\ buf' = Fill(buf, SubSeq(line, 1, n))
          /\ upset' = (upset \/ over)
          /\ resume' = IF over \/ split THEN NextStart(line') ELSE resume
  /\ UNCHANGED <<sent, handled, noise>>

-----------------------------------------------------------------------------
(* uproto_process_rx_buffer: one turn of its loop.                         *)

Starts == {i \in 1..(Len(buf) - 1) : buf[i].v = MAGIC_0 /\ buf[i + 1].v = MAGIC_1}

(* Mutant: the search does not end at the first magic bytes.               *)
FoundLast == Drop(buf, Max(Starts) - 1)

(* The buffer from the first magic bytes on, and the length they announce. *)
Found == Drop(buf, Min(Starts) - 1)
Length == Found[Header].v

HasHeader == busy /\ Len(buf) >= Total(0) /\ Starts # {} /\ Len(Found) >= Header

(* The turns that leave the loop to wait for more bytes.                   *)
Wait ==
  /\ busy
  /\ busy' = FALSE
  /\ \/ Len(buf) < Total(0) /\ UNCHANGED buf
     \/ Len(buf) >= Total(0) /\ Starts = {} /\ buf' = <<>>
     \/ /\ Len(buf) >= Total(0) /\ Starts # {}
        /\ \/ Len(Found) < Header
           \/ HasHeader /\ Length <= MaxPayload /\ Len(Found) < Total(Length)
        /\ buf' = Found
  /\ UNCHANGED <<line, sent, handled, noise, upset, resume>>

(* An impossible length: these magic bytes were none.                      *)
SkipHeader ==
  /\ HasHeader
  /\ Length > MaxPayload
  /\ buf' = Drop(Found, 2)
  /\ UNCHANGED <<line, busy, sent, handled, noise, upset, resume>>

(* Mutant: a frame that was handled is not removed.                        *)
TakeFrameAgain ==
  /\ HasHeader
  /\ Length <= MaxPayload
  /\ Len(Found) >= Total(Length)
  /\ LET frame == SubSeq(Found, 1, Total(Length))
     IN handled' = IF Decodes(frame) THEN Append(handled, frame[1].of) ELSE handled
  /\ buf' = Found
  /\ UNCHANGED <<line, busy, sent, noise, upset, resume>>

(* A complete frame is handled if it decodes, and removed in any case.     *)
TakeFrame ==
  /\ HasHeader
  /\ Length <= MaxPayload
  /\ Len(Found) >= Total(Length)
  /\ LET frame == SubSeq(Found, 1, Total(Length))
     IN handled' = IF Decodes(frame) THEN Append(handled, frame[1].of) ELSE handled
  /\ buf' = Drop(Found, Total(Length))
  /\ UNCHANGED <<line, busy, sent, noise, upset, resume>>

RxNext == Send \/ Disturb \/ Receive \/ Wait \/ SkipHeader \/ TakeFrame

RxSpec == RxInit /\ [][RxNext]_rxVars

-----------------------------------------------------------------------------
(* The frames whose bytes have all been received, since the line has been  *)
(* quiet, and that were not handled.                                       *)
Lost == {k \in resume..(FrameAt(line) - 1) : \A i \in DOMAIN handled : handled[i] # k}

(* How many frames begin within what a damaged header can announce.        *)
Swallowed ==
  LET shortest == Total(Min(Payloads))
  IN (MaxPayload + Trailer + shortest - 1) \div shortest

(* On a quiet line no frame is lost, however the bytes are cut into        *)
(* chunks; after a disturbance or an overflow no more are lost than a      *)
(* damaged header can swallow, chunks that split the magic bytes aside.    *)
Resynchronises == ~busy => Cardinality(Lost) <= IF upset THEN Swallowed ELSE 0

(* Frames are handled in the order they were sent, none twice, also when   *)
(* the decoder finds headers in the middle of frames.                      *)
Stream == INSTANCE FrameStream WITH captured <- sent, received <- handled

ImplementsStream == Stream!Spec

=============================================================================
