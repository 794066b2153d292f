--------------------------- MODULE HostcmFraming ---------------------------
(***************************************************************************)
(* How bytes on the serial line become commands: the tty settings of       *)
(* setterm(), the reads of receive(), checksum(), and the checksum test at *)
(* the head of server()'s loop.  Bytes are the numbers of their codes.     *)
(*                                                                         *)
(* A frame is its payload, a checksum letter and a line end; the one-byte  *)
(* frames 'N' and 'q' carry no checksum.  With a baud rate given, the tty  *)
(* runs 7 bits with parity and PARMRK|INPCK: a byte that arrives with a    *)
(* parity error is passed to the reader as \377 \0 and the byte.           *)
(*                                                                         *)
(* HostcmLink takes the checksum test to see the damage done to a frame;   *)
(* this module checks exactly which damage it sees.                        *)
(***************************************************************************)
EXTENDS Integers, Sequences, SequencesExt

CONSTANTS
  Payloads,    \* the commands the client sends, sequences of 7-bit bytes
  MaxFrames,   \* bound: frames the client sends
  MaxHarm,     \* bound: bits the line flips and line ends it swallows
  BufSize      \* BUFSIZ, the space receive() is given

LineEnd == 13      \* opt.lineend

(* The client sends no line end inside a command, and receive()'s buffer   *)
(* holds two frames that have run together: BUFSIZ is a kilobyte or more,  *)
(* the client's commands are short.                                        *)
ASSUME FramingAssumption ==
  /\ Payloads \subseteq Seq(0..127 \ {LineEnd}) /\ <<>> \notin Payloads
  /\ MaxFrames \in Nat /\ MaxHarm \in Nat
  /\ BufSize \in Nat
  /\ \A p, q \in Payloads : Len(p) + Len(q) + 3 <= BufSize

VARIABLES
  sent,     \* history: the payloads the client has sent
  line,     \* bytes under way, as the tty will hand them over
  buf,      \* bytes receive() has read so far
  taken,    \* history: what the loop made of each frame, in order
  flip,     \* history: [at, from, to] of the flipped byte in its frame
  flips, lost

framingVars == <<sent, line, buf, taken, flip, flips, lost>>

Nak     == 78      \* 'N'
Quit    == 113     \* 'q'
NoFlip  == [at |-> 0, from |-> 0, to |-> 0]

(* The sum of the low nibbles, less what the 16 letters cannot tell apart. *)
NibbleSum(b) == FoldLeft(LAMBDA s, c : s + (c % 16), 0, b) % 16

(* As Checksum, with the letters taken from '@' on. *)
ChecksumFromAt(b) == 64 + NibbleSum(b)

Checksum(b) == 65 + NibbleSum(b)

Framed(p) ==
  IF Len(p) = 1 /\ p[1] \in {Nak, Quit} THEN p ELSE Append(p, Checksum(p))

FramingInit ==
  /\ sent = <<>> /\ line = <<>> /\ buf = <<>> /\ taken = <<>>
  /\ flip = NoFlip /\ flips = 0 /\ lost = 0

-----------------------------------------------------------------------------
(* The client and the line (external). *)

SendFrame ==
  /\ Len(sent) < MaxFrames /\ line = <<>>
  /\ \E p \in Payloads :
       /\ sent' = Append(sent, p)
       /\ line' = Append(Framed(p), LineEnd)
  /\ UNCHANGED <<buf, taken, flip, flips, lost>>

(* The bits of a byte by their weights; 0 is the parity bit, which the tty *)
(* does not hand over.                                                     *)
Bits == {0, 1, 2, 4, 8, 16, 32, 64}

FlipBit(c, bit) ==
  IF bit = 0 THEN c
  ELSE IF (c \div bit) % 2 = 0 THEN c + bit ELSE c - bit

(* As Marked, with parity checking left off (no INPCK). *)
Unmarked(c) == <<c>>

(* What the tty makes of a byte with a parity error. *)
Marked(c) == <<255, 0, c>>

(* Noise flips one bit of a byte of a frame not yet read from. *)
Flip ==
  /\ flips + lost < MaxHarm
  /\ line # <<>> /\ Len(line) = Len(Framed(Last(sent))) + 1
  /\ \E i \in 1..Len(line), bit \in Bits :
       /\ line' = SubSeq(line, 1, i - 1) \o Marked(FlipBit(line[i], bit))
                    \o SubSeq(line, i + 1, Len(line))
       /\ flip' = [at |-> i, from |-> line[i], to |-> FlipBit(line[i], bit)]
  /\ flips' = flips + 1
  /\ UNCHANGED <<sent, buf, taken, lost>>

SwallowLineEnd ==
  /\ flips + lost < MaxHarm
  /\ line # <<>> /\ Last(line) = LineEnd
  /\ line' = Front(line)
  /\ lost' = lost + 1
  /\ UNCHANGED <<sent, buf, taken, flip, flips>>

-----------------------------------------------------------------------------
(* The server. *)

NakSent    == [kind |-> "nak", bytes |-> <<>>]
Accepted(p) == [kind |-> "command", bytes |-> p]

(* As Verdict, with the checksum asked of frames of one byte too. *)
VerdictOnAll(frame) ==
  IF Len(frame) > 0 /\ Checksum(Front(frame)) # Last(frame) THEN NakSent
  ELSE IF Len(frame) > 1 THEN Accepted(Front(frame))
  ELSE Accepted(frame)

(* What the loop of server() makes of a frame. *)
Verdict(frame) ==
  IF Len(frame) > 1 /\ Checksum(Front(frame)) # Last(frame) THEN NakSent
  ELSE IF Len(frame) > 1 THEN Accepted(Front(frame))
  ELSE Accepted(frame)

(* One read() of receive(): it returns as much as has arrived, and the     *)
(* frame is over when its last byte is a line end or the buffer is full.   *)
(* An empty frame is an unknown command.  A read() that fails or returns   *)
(* nothing is the end of the line and of the process, which is Exit in     *)
(* HostcmLink; here the line stays up.                                     *)
Read ==
  /\ line # <<>>
  /\ \E k \in 1..Len(line) :
       LET read == buf \o SubSeq(line, 1, k) IN
       /\ Len(read) <= BufSize
       /\ line' = SubSeq(line, k + 1, Len(line))
       /\ IF Last(read) = LineEnd \/ Len(read) = BufSize
            THEN /\ buf' = <<>>
                 /\ taken' = Append(taken, Verdict(Front(read)))
            ELSE buf' = read /\ UNCHANGED taken
  /\ UNCHANGED <<sent, flip, flips, lost>>

FramingNext == SendFrame \/ Flip \/ SwallowLineEnd \/ Read

FramingSpec == FramingInit /\ [][FramingNext]_framingVars
-----------------------------------------------------------------------------
(* Properties. *)

Quiet == line = <<>> /\ buf = <<>>

(* Types, and what receive() holds between two reads is never a whole      *)
(* frame nor a full buffer.                                                *)
FramingTypeOK ==
  /\ sent \in Seq(Payloads)
  /\ line \in Seq(0..255) /\ buf \in Seq(0..255)
  /\ taken \in Seq([kind : {"nak", "command"}, bytes : Seq(0..255)])
  /\ flip \in [at : Nat, from : 0..255, to : 0..255]
  /\ buf # <<>> => Len(buf) < BufSize /\ Last(buf) # LineEnd
  /\ flips \in Nat /\ lost \in Nat /\ flips + lost <= MaxHarm

(* On a quiet line the loop takes exactly the commands that were sent, in  *)
(* order and unchanged, however the reads cut up the bytes (receive()).    *)
CleanFramesArrive ==
  flips = 0 /\ lost = 0 /\ Quiet => taken = [i \in 1..Len(sent) |-> Accepted(sent[i])]

(* A flipped bit is seen in every frame with a checksum except these: the  *)
(* lowest bit set in a payload byte, or cleared in a checksum letter other *)
(* than 'A' (the marker \377 \0 adds 15 to the sum of checksum()), or a    *)
(* byte turned into a line end, or the line end itself.                    *)
LowestBitSet == flip.to = flip.from + 1 /\ flip.from % 2 = 0
LowestBitCleared == flip.to = flip.from - 1 /\ flip.from % 2 = 1
Escapes ==
  LET n == Len(Framed(sent[1])) IN
  \/ flip.at < n /\ LowestBitSet
  \/ flip.at = n /\ LowestBitCleared /\ flip.from # 65
LineEndInvolved == LineEnd \in {flip.from, flip.to}

OneFlipSeen ==
  flips = 1 /\ lost = 0 /\ Quiet /\ Len(sent) = 1 /\ ~LineEndInvolved
    /\ Len(Framed(sent[1])) > 1
    => (taken = <<NakSent>> <=> ~Escapes)

(* A frame that has lost its line end runs together with the next command, *)
(* and the loop never takes the two for one command (checksum(): the first *)
(* frame with its letter always adds an odd number to the sum).            *)
RunTogetherSeen ==
  flips = 0 /\ lost <= 1 /\ <<Nak>> \notin Range(sent) =>
    \A i \in 1..Len(taken) :
      taken[i].kind = "command" => taken[i].bytes \in Range(sent)

=============================================================================
