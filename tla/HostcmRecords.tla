--------------------------- MODULE HostcmRecords ---------------------------
(***************************************************************************)
(* How hostput and hostget of protocol.c cut the records of one file into  *)
(* buffers and find their ends again.  A client writes records, each in    *)
(* one or more puts, the last of them flagged 'z'; then it opens the file  *)
(* again, seeks as it likes and puts the answers of its gets together, up  *)
(* to one flagged 'z', to have the records back.                           *)
(*                                                                         *)
(* Three kinds of file: text (format t), variable (format b, type v) and   *)
(* fixed (format b, type f, with a record length).  What goes over the     *)
(* line for format b is in hex digits: HexCodec has xtob and btox.         *)
(***************************************************************************)
EXTENDS Integers, Sequences, SequencesExt, HexCodec

CONSTANTS
  Record(_, _), \* the k-th record, if it has n bytes
  Lengths,      \* for each kind of file, lengths of records the client writes
  SendBuf,      \* SENDBUF: 98
  PutBuf,       \* bytes the client sends in one put
  MaxRecords,   \* bound: records written
  MaxSeeks      \* bound: seeks

Kinds == {"text", "variable", "fixed"}

CR == 0            \* opt.lineend; no byte of a line

ASSUME RecordsAssumption ==
  /\ Lengths \in [Kinds -> SUBSET Nat] /\ 0 \notin Lengths["fixed"]
  /\ \A k \in 1..MaxRecords, x \in Kinds : \A n \in Lengths[x] :
       /\ Record(k, n) \in [1..n -> 0..255]
       /\ x = "text" => \A j \in 1..n : Record(k, n)[j] # CR
  /\ SendBuf \in Nat /\ SendBuf > 5 /\ PutBuf \in Nat \ {0}
  /\ MaxRecords \in Nat /\ MaxSeeks \in Nat

VARIABLES
  kind,     \* of file
  rl,       \* ftab's record length: that of a fixed file, 0 for the others
  phase,    \* "write" or "read"
  file,     \* the bytes of the file
  records,  \* records the client has written or is writing
  todo,     \* what it has still to put of the last one
  pos,      \* the read stream's position
  part,     \* what it has got so far of the record it is reading
  next,     \* the record it is reading
  last,     \* [index, bytes] of the last record it has completed
  answer,   \* code of the last get: "b", "e", or "-" before
  seeks

recordVars ==
  <<kind, rl, phase, file, records, todo, pos, part, next, last, answer, seeks>>

NoRecord == [index |-> 0, bytes |-> <<>>]

RecordsTypeOK ==
  /\ kind \in Kinds /\ rl \in Lengths["fixed"] \cup {0}
  /\ rl # 0 <=> kind = "fixed"
  /\ phase \in {"write", "read"}
  /\ file \in Seq(0..255) /\ pos \in 0..Len(file)
  /\ records \in Seq(Seq(0..255)) /\ Len(records) <= MaxRecords
  /\ todo \in Seq(0..255) /\ part \in Seq(0..255)
  /\ phase = "read" => todo = <<>>
  /\ next \in 1..(Len(records) + Len(file) + 1)
  /\ last \in [index : Nat, bytes : Seq(0..255)]
  /\ answer \in {"b", "e", "-"} /\ seeks \in 0..MaxSeeks

RecordsInit ==
  /\ kind \in Kinds /\ Lengths[kind] # {}
  /\ rl \in IF kind = "fixed" THEN Lengths[kind] ELSE {0}
  /\ phase = "write"
  /\ file = <<>> /\ records = <<>> /\ todo = <<>>
  /\ pos = 0 /\ part = <<>> /\ next = 1 /\ last = NoRecord /\ answer = "-"
  /\ seeks = 0

-----------------------------------------------------------------------------
(* Writing. *)

reading == <<pos, part, next, last, answer, seeks>>

(* What the client sends of format b (it has its own conversion, in lower  *)
(* case), and what it makes of an answer.                                  *)
ClientHex(data) ==
  LET digit(d) == IF d < 10 THEN 48 + d ELSE 87 + d
  IN <<>> \o [i \in 1..(2 * Len(data)) |->
       LET byte == data[(i + 1) \div 2] IN digit(IF i % 2 = 1 THEN byte \div 16 ELSE byte % 16)]
ClientBytes(hex) == [i \in 1..(Len(hex) \div 2) |-> 16 * Value(hex[2 * i - 1]) + Value(hex[2 * i])]

Translated(data) == IF kind = "text" THEN data ELSE Xtob(ClientHex(data))

(* As Written, with the line end left out for text as well. *)
WrittenBare(data, eor) ==
  IF eor = "z" /\ kind = "variable" THEN Append(data, CR) ELSE data

(* What hostput writes for a put: at the end of a record a line end too,   *)
(* unless the file is fixed (and not text).                                *)
Written(data, eor) ==
  IF eor = "z" /\ kind # "fixed" THEN Append(data, CR) ELSE data

(* hostput, for the first or the next part of a record. *)
PutPart(data, rest) ==
  /\ file' = file \o Written(Translated(data), IF rest = <<>> THEN "z" ELSE "n")
  /\ todo' = rest
  /\ UNCHANGED <<kind, rl, phase, reading>>

SplitAt(r, k) == PutPart(SubSeq(r, 1, k), SubSeq(r, k + 1, Len(r)))

PutFirst ==
  /\ phase = "write" /\ todo = <<>> /\ Len(records) < MaxRecords
  /\ \E n \in IF kind = "fixed" THEN {rl} ELSE Lengths[kind] :
       LET r == Record(Len(records) + 1, n) IN
       /\ records' = Append(records, r)
       /\ \E k \in 0..Len(r) : k <= PutBuf /\ (k = 0 => r = <<>>) /\ SplitAt(r, k)

PutNext ==
  /\ phase = "write" /\ todo # <<>>
  /\ \E k \in 1..Len(todo) : k <= PutBuf /\ SplitAt(todo, k)
  /\ UNCHANGED records

(* The file is closed and opened for read. *)
Reopen ==
  /\ phase = "write" /\ todo = <<>>
  /\ phase' = "read"
  /\ UNCHANGED <<kind, rl, file, records, todo, reading>>

-----------------------------------------------------------------------------
(* Reading. *)

TextMax == SendBuf - 5      \* bytes between out[3] and out[SENDBUF - 2]

NextCR ==
  LET ends == {i \in (pos + 1)..Len(file) : file[i] = CR} IN
  IF ends = {} THEN Len(file) + 1 ELSE CHOOSE i \in ends : \A j \in ends : i <= j

(* What the client does with an answer of "b". *)
Got(data, eor) ==
  /\ answer' = "b"
  /\ IF eor = "z"
       THEN /\ last' = [index |-> next, bytes |-> part \o data]
            /\ part' = <<>>
            /\ next' = next + 1
       ELSE /\ part' = part \o data
            /\ UNCHANGED <<last, next>>
  /\ UNCHANGED <<kind, rl, phase, file, records, todo, seeks>>

GotEof ==
  /\ answer' = "e"
  /\ UNCHANGED <<kind, rl, phase, file, records, todo, part, next, last, seeks>>

(* hostget of text: bytes are read one by one up to a line end or a full   *)
(* buffer.  The byte that is read when the buffer is full is overwritten   *)
(* by the checksum, be it a line end or not; when the file ends first the  *)
(* bytes read are dropped for an "e".                                      *)
GetText ==
  /\ phase = "read" /\ kind = "text"
  /\ LET read == NextCR - pos - 1 IN
     \/ /\ read < TextMax /\ NextCR <= Len(file)
        /\ pos' = NextCR
        /\ Got(SubSeq(file, pos + 1, NextCR - 1), "z")
     \/ /\ read >= TextMax /\ pos + TextMax + 1 <= Len(file)
        /\ pos' = pos + TextMax + 1
        /\ Got(SubSeq(file, pos + 1, pos + TextMax), "n")
     \/ /\ NextCR > Len(file) /\ pos + TextMax + 1 > Len(file)
        /\ pos' = Len(file)
        /\ GotEof

(* For a fixed file with records of a buffer or more: the next read would  *)
(* cross a record boundary.                                                *)
Crosses(rdcount) == pos % rl > (pos + rdcount) % rl

(* How much hostget asks of fread for formats of bytes. *)
ReadCount ==
  IF kind # "fixed" THEN SendBuf
  ELSE IF rl < SendBuf THEN rl
  ELSE IF Crosses(SendBuf) THEN ((pos + SendBuf) \div rl) * rl - pos
  ELSE SendBuf

EndOfRecord ==
  IF kind = "fixed" /\ (rl < SendBuf \/ Crosses(SendBuf)) THEN "z" ELSE "n"

(* As GetBytes, with the end of the file answered like any other read. *)
GetBytesNoEof ==
  /\ phase = "read" /\ kind # "text"
  /\ LET to == Min({pos + ReadCount, Len(file)}) IN
     /\ pos' = to
     /\ Got(ClientBytes(Btox(SubSeq(file, pos + 1, to))), EndOfRecord)

(* hostget of bytes. *)
GetBytes ==
  /\ phase = "read" /\ kind # "text"
  /\ \/ /\ pos < Len(file)
        /\ LET to == Min({pos + ReadCount, Len(file)}) IN
           /\ pos' = to
           /\ Got(ClientBytes(Btox(SubSeq(file, pos + 1, to))), EndOfRecord)
     \/ pos = Len(file) /\ GotEof /\ UNCHANGED pos

Get == answer # "e" /\ (GetText \/ GetBytes)

Unit == IF rl = 0 THEN 1 ELSE rl

(* hostseek to a record of a fixed file; whatever was got of the record    *)
(* before is dropped.                                                      *)
Seek ==
  /\ phase = "read" /\ kind = "fixed" /\ seeks < MaxSeeks
  /\ seeks' = seeks + 1
  /\ \E n \in 0..Len(records) :
       /\ n * Unit <= Len(file)
       /\ pos' = n * Unit
       /\ next' = n + 1
  /\ part' = <<>> /\ answer' = "-"
  /\ UNCHANGED <<kind, rl, phase, file, records, todo, last>>

RecordsNext == PutFirst \/ PutNext \/ Reopen \/ Get \/ Seek

RecordsSpec == RecordsInit /\ [][RecordsNext]_recordVars
RecordsFairSpec == RecordsSpec /\ WF_recordVars(Get)

-----------------------------------------------------------------------------
(* Properties. *)

(* Records that hostget has room for: lines that leave a byte of the       *)
(* buffer, and fixed records of any length but SENDBUF itself.             *)
Fits ==
  /\ kind = "text" => \A i \in 1..Len(records) : Len(records[i]) < TextMax
  /\ kind = "fixed" => rl # SendBuf

(* "get to the next EOR or to eof": a record the client has put together   *)
(* is the one that was written, byte for byte, however it was cut up by    *)
(* the puts and the gets (hostget, hostput).                               *)
RecordsComeBack ==
  kind # "variable" /\ last # NoRecord =>
    last.index <= Len(records) /\ last.bytes = records[last.index]

(* So it is for the records that fit, wherever the client has seeked       *)
(* before.                                                                 *)
FittingRecordsComeBack == Fits => RecordsComeBack

(* The end of the file is answered only when the client has every record   *)
(* it wrote, and of a variable file all bytes (hostget's feof tests).      *)
EofOnlyAtEnd ==
  answer = "e" /\ Fits =>
    IF kind = "variable" THEN part = file
    ELSE part = <<>> /\ next = Len(records) + 1

(* A client that goes on getting reaches the end of the file, for records  *)
(* of every length (hostget always takes a byte or answers "e").           *)
ReadsEnd == phase = "read" ~> answer = "e"

=============================================================================
