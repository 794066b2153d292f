-------------------------- MODULE DiskFormatProofs --------------------------
(***************************************************************************)
(* Proofs about di_format, for every set of image types and every content  *)
(* of the image before: its loops visit the blocks in order, a block that  *)
(* is freed or allocated leaves the cells of other tracks alone, when it   *)
(* is over the counts say what the bits say, and the number of blocks it   *)
(* counts is the number of free bits on the tracks the allocator searches. *)
(***************************************************************************)
EXTENDS DiskFormat, DiskGeometryProofs, FiniteSetTheorems, WellFoundedInduction

(* What the steps need to know of the state: the map is a function on its  *)
(* bytes, the loop's track and sector are valid, and the number of blocks  *)
(* passed is the number of the one the loop has come to.                   *)
Known == type \in ImageTypes /\ DOMAIN map = MapBytes /\ passed \in Nat

Cursor ==
  /\ phase \in {"clear", "free", "alloc", "done"}
  /\ taken \in 0..Len(OwnBlocks)
  /\ phase = "clear" => ts = TS(1, 0) /\ passed = 0
  /\ phase = "free" =>
       /\ ts.track \in 1..Tracks(type)
       /\ ts.sector \in 0..(SectorsPerTrack(type, ts.track) - 1)
       /\ ts = TS(ts.track, ts.sector)

FormatInv == Known /\ Cursor /\ BlockNumbersAreDense

(* It holds at first and every step keeps it. *)
LEMMA FormatInit == Init => FormatInv
<1> SUFFICES ASSUME Init PROVE FormatInv
  OBVIOUS
<1>1. Known
  BY FormatAssumption DEF Init, Known
<1>2. Cursor
  <2>1. Len(OwnBlocks) \in Nat BY <1>1 DEF OwnBlocks, ImageTypes, Known
  <2> QED BY <2>1 DEF Init, Cursor
<1>3. BlockNumbersAreDense
  BY DEF Init, BlockNumbersAreDense
<1> QED BY <1>1, <1>2, <1>3 DEF FormatInv

LEMMA FormatStep == FormatInv /\ [Next]_vars => FormatInv'
<1> SUFFICES ASSUME FormatInv, [Next]_vars PROVE FormatInv'
  OBVIOUS
<1>a. Known /\ Cursor /\ BlockNumbersAreDense BY DEF FormatInv
<1>1. Known'
  BY <1>a DEF Known, vars, Next, ClearMap, FreeNext, AllocOwn, CountBlocks, FreeTS, AllocTS
<1>b. type' = type
  BY DEF vars, Next, ClearMap, FreeNext, AllocOwn, CountBlocks
<1>c. OwnBlocks' = OwnBlocks BY <1>b DEF OwnBlocks
<1>d. Len(OwnBlocks) \in Nat BY <1>a DEF OwnBlocks, ImageTypes, Known
<1>2. CASE UNCHANGED vars
  BY <1>a, <1>1, <1>2, <1>b, <1>c DEF vars, FormatInv, Cursor, BlockNumbersAreDense
<1>3. CASE ClearMap
  <2>1. 1 \in 1..Tracks(type) BY <1>a DEF Known, ImageTypes, Tracks
  <2>2. SectorsPerTrack(type, 1) \in 17..40 BY <1>a, <2>1, Sizes DEF Known
  <2>3. TS(1, 0).track = 1 /\ TS(1, 0).sector = 0 BY DEF TS
  <2>4. ts' = TS(1, 0) /\ phase' = "free" /\ passed' = 0 /\ taken' = taken
    BY <1>3, <1>a DEF ClearMap, Cursor
  <2>5. Cursor'
    <3>1. ts'.track = 1 /\ ts'.sector = 0 /\ ts' = TS(ts'.track, ts'.sector) BY <2>3, <2>4
    <3>2. 0 \in 0..(SectorsPerTrack(type, 1) - 1) BY <2>2
    <3>3. ts'.sector \in 0..(SectorsPerTrack(type, ts'.track) - 1) BY <3>1, <3>2
    <3>4. ts'.track \in 1..Tracks(type) BY <2>1, <3>1
    <3>5. taken' \in 0..Len(OwnBlocks)' BY <1>a, <1>c, <2>4 DEF Cursor
    <3> QED BY <1>b, <2>4, <3>1, <3>3, <3>4, <3>5 DEF Cursor
  <2>6. BlockNum(type, TS(1, 0)) = 0 BY <1>a, <2>1, TrackBases DEF Known, TrackBase
  <2>7. BlockNumbersAreDense' BY <1>b, <2>4, <2>6 DEF BlockNumbersAreDense
  <2> QED BY <1>1, <2>5, <2>7 DEF FormatInv
<1>4. CASE FreeNext
  <2>1. /\ phase = "free" /\ taken' = taken
        /\ ts.track \in 1..Tracks(type)
        /\ ts.sector \in 0..(SectorsPerTrack(type, ts.track) - 1)
        /\ ts = TS(ts.track, ts.sector)
        /\ passed' = passed + 1 /\ passed \in Nat
        /\ BlockNum(type, ts) = passed
        /\ type \in ImageTypes
    BY <1>4, <1>a DEF FreeNext, Cursor, Known, BlockNumbersAreDense
  <2>2. /\ SectorsPerTrack(type, ts.track) \in 17..40
        /\ Tracks(type) \in Nat
        /\ ts.track \in Nat /\ ts.sector \in Nat
    BY <2>1, Sizes
  <2>3. /\ TrackBase(type, ts.track) \in Nat
        /\ BlockNum(type, ts) = TrackBase(type, ts.track) + ts.sector
    BY <2>1, <2>2, TrackBases
  <2>4. CASE ts.sector + 1 < SectorsPerTrack(type, ts.track)
    <3>1. ts' = TS(ts.track, ts.sector + 1) /\ phase' = "free"
      BY <1>4, <2>1, <2>2, <2>4 DEF FreeNext
    <3>2. ts'.track = ts.track /\ ts'.sector = ts.sector + 1 BY <3>1 DEF TS
    <3>3. ts.sector + 1 \in 0..(SectorsPerTrack(type, ts.track) - 1) BY <2>2, <2>4
    <3>4. Cursor' BY <1>a, <1>b, <1>c, <2>1, <3>1, <3>2, <3>3 DEF Cursor
    <3>5. BlockNum(type, TS(ts.track, ts.sector + 1)) = TrackBase(type, ts.track) + (ts.sector + 1)
      BY <2>1, <2>2, TrackBases
    <3>6. BlockNum(type, ts') = passed' BY <2>1, <2>2, <2>3, <3>1, <3>5
    <3>7. BlockNumbersAreDense' BY <1>b, <3>1, <3>6 DEF BlockNumbersAreDense
    <3> QED BY <1>1, <3>4, <3>7 DEF FormatInv
  <2>5. CASE ts.sector + 1 = SectorsPerTrack(type, ts.track)
    <3>1. /\ ts' = TS(ts.track + 1, 0)
          /\ phase' = IF ts.track = Tracks(type) THEN "alloc" ELSE "free"
      BY <1>4, <2>1, <2>2, <2>5 DEF FreeNext
    <3>2. ts'.track = ts.track + 1 /\ ts'.sector = 0 BY <3>1 DEF TS
    <3>3. passed' = TrackBase(type, ts.track) + SectorsPerTrack(type, ts.track)
      BY <2>1, <2>2, <2>3, <2>5
    <3>4. CASE ts.track = Tracks(type)
      <4>1. passed' = Blocks(type) BY <2>1, <2>2, <3>3, <3>4, TrackBases
      <4>2. phase' = "alloc" BY <3>1, <3>4
      <4> QED BY <1>1, <1>a, <1>b, <1>c, <2>1, <4>1, <4>2
              DEF FormatInv, Cursor, BlockNumbersAreDense
    <3>5. CASE ts.track # Tracks(type)
      <4>1. phase' = "free" BY <3>1, <3>5
      <4>2. ts.track + 1 \in 1..Tracks(type) BY <2>1, <2>2, <3>5
      <4>3. 0 \in 0..(SectorsPerTrack(type, ts.track + 1) - 1) BY <2>1, <4>2, Sizes
      <4>4. Cursor' BY <1>a, <1>b, <1>c, <2>1, <3>1, <3>2, <4>1, <4>2, <4>3 DEF Cursor
      <4>5. TrackBase(type, ts.track + 1) = passed' BY <2>1, <2>2, <3>3, <3>5, TrackBases
      <4>6. BlockNumbersAreDense' BY <1>b, <3>1, <4>1, <4>5 DEF BlockNumbersAreDense, TrackBase
      <4> QED BY <1>1, <4>4, <4>6 DEF FormatInv
    <3> QED BY <3>4, <3>5
  <2> QED BY <2>1, <2>2, <2>4, <2>5
<1>5. CASE AllocOwn
  BY <1>5, <1>a, <1>1, <1>b, <1>c, <1>d
     DEF AllocOwn, FormatInv, Cursor, BlockNumbersAreDense
<1>6. CASE CountBlocks
  BY <1>6, <1>a, <1>1, <1>b, <1>c, <1>d
     DEF CountBlocks, FormatInv, Cursor, BlockNumbersAreDense
<1> QED BY <1>2, <1>3, <1>4, <1>5, <1>6 DEF Next

(* Whatever the types and the image's content before, the loops of         *)
(* di_format go through the blocks in the order of get_block_num, without  *)
(* a gap, to the last block of the image.                                  *)
THEOREM FormatVisitsEveryBlock == Spec => []BlockNumbersAreDense
<1>1. FormatInv => BlockNumbersAreDense BY DEF FormatInv
<1> QED BY <1>1, FormatInit, FormatStep, PTL DEF Spec

-----------------------------------------------------------------------------
(* The bytes of a cell are bytes of the map. *)
LEMMA CellsInMap ==
  ASSUME NEW type_ \in ImageTypes, NEW t \in 1..Tracks(type_)
  PROVE  CellBytes(type_, t) \subseteq MapBytes
<1> SUFFICES ASSUME NEW a \in CellBytes(type_, t) PROVE a \in MapBytes
  OBVIOUS
<1>1. CASE type_ = "D64"
  <2>1. t \in 1..35 BY <1>1 DEF Tracks
  <2>2. PICK k \in 0..3 : a = <<"bam", t * 4 + k>> BY <1>1, <2>1, CellOfD64
  <2>3. t * 4 + k \in Offsets BY <2>1 DEF Offsets
  <2> QED BY <2>2, <2>3 DEF MapBytes
<1>2. CASE type_ = "D71"
  <2>1. t \in 1..70 BY <1>2 DEF Tracks
  <2>2. CASE t < 36 /\ \E k \in 0..3 : a = <<"bam", t * 4 + k>>
    <3>1. PICK k \in 0..3 : a = <<"bam", t * 4 + k>> BY <2>2
    <3>2. t * 4 + k \in Offsets BY <2>1, <2>2 DEF Offsets
    <3> QED BY <3>1, <3>2 DEF MapBytes
  <2>3. CASE t >= 36 /\ a = <<"bam", t + 185>>
    <3>1. t + 185 \in Offsets BY <2>1 DEF Offsets
    <3> QED BY <2>3, <3>1 DEF MapBytes
  <2>4. CASE t >= 36 /\ \E k \in 0..2 : a = <<"bam2", (t - 36) * 3 + k>>
    <3>1. PICK k \in 0..2 : a = <<"bam2", (t - 36) * 3 + k>> BY <2>4
    <3>2. (t - 36) * 3 + k \in Offsets BY <2>1, <2>4 DEF Offsets
    <3> QED BY <3>1, <3>2 DEF MapBytes
  <2> QED BY <1>2, <2>1, <2>2, <2>3, <2>4, CellOfD71
<1>3. CASE type_ = "D80"
  <2>1. t \in 1..77 BY <1>3 DEF Tracks
  <2>2. PICK k \in 0..4 : a = <<Map80(t), Local80(t) * 5 + 6 + k>> BY <1>3, <2>1, CellOfD80
  <2>3. Local80(t) * 5 + 6 + k \in Offsets BY <2>1 DEF Offsets, Local80
  <2>4. Map80(t) \in {"bam", "bam2"} BY DEF Map80
  <2> QED BY <2>2, <2>3, <2>4 DEF MapBytes
<1>4. CASE type_ = "D81"
  <2>1. t \in 1..80 BY <1>4 DEF Tracks
  <2>2. PICK k \in 0..5 : a = <<Map81(t), Local81(t) * 6 + 10 + k>> BY <1>4, <2>1, CellOfD81
  <2>3. Local81(t) * 6 + 10 + k \in Offsets BY <2>1 DEF Offsets, Local81
  <2>4. Map81(t) \in {"bam", "bam2"} BY DEF Map81
  <2> QED BY <2>2, <2>3, <2>4 DEF MapBytes
<1> QED BY <1>1, <1>2, <1>3, <1>4 DEF ImageTypes

(* The blocks the format takes for itself are blocks of the image. *)
LEMMA OwnBlocksValid ==
  ASSUME Known, NEW k \in 1..Len(OwnBlocks)
  PROVE  LET b == OwnBlocks[k] IN
           /\ b.track \in 1..Tracks(type)
           /\ b.sector \in 0..(SectorsPerTrack(type, b.track) - 1)
           /\ b = TS(b.track, b.sector)
<1>a. \A n \in 17..40 : \A r \in 0..3 : r \in 0..(n - 1) OBVIOUS
<1>1. CASE type \in {"D64", "D71"}
  <2>1. OwnBlocks = <<TS(18, 0), TS(18, 1)>> BY <1>1 DEF OwnBlocks
  <2>2. 18 \in 1..Tracks(type) BY <1>1 DEF Tracks
  <2>3. \A r \in 0..3 : r \in 0..(SectorsPerTrack(type, 18) - 1)
    <3>1. SectorsPerTrack(type, 18) \in 17..40 BY <2>2, Sizes DEF Known
    <3> QED BY <1>a, <3>1
  <2>4. OwnBlocks[k] = TS(18, 0) \/ OwnBlocks[k] = TS(18, 1) BY <2>1
  <2>5. \A r : TS(18, r).track = 18 /\ TS(18, r).sector = r BY DEF TS
  <2> QED BY <2>2, <2>3, <2>4, <2>5
<1>2. CASE type = "D80"
  <2>1. OwnBlocks = <<TS(38, 0), TS(38, 3), TS(39, 0), TS(39, 1)>> BY <1>2 DEF OwnBlocks
  <2>2. 38 \in 1..Tracks(type) /\ 39 \in 1..Tracks(type) BY <1>2 DEF Tracks
  <2>3. \A r \in 0..3 : /\ r \in 0..(SectorsPerTrack(type, 38) - 1)
                        /\ r \in 0..(SectorsPerTrack(type, 39) - 1)
    <3>1. SectorsPerTrack(type, 38) \in 17..40 /\ SectorsPerTrack(type, 39) \in 17..40
      BY <2>2, Sizes DEF Known
    <3> QED BY <1>a, <3>1
  <2>4. \/ OwnBlocks[k] = TS(38, 0) \/ OwnBlocks[k] = TS(38, 3)
        \/ OwnBlocks[k] = TS(39, 0) \/ OwnBlocks[k] = TS(39, 1)
    BY <2>1
  <2>5. \A u, r : TS(u, r).track = u /\ TS(u, r).sector = r BY DEF TS
  <2> QED BY <2>2, <2>3, <2>4, <2>5
<1>3. CASE type = "D81"
  <2>1. OwnBlocks = <<TS(40, 0), TS(40, 1), TS(40, 2), TS(40, 3)>> BY <1>3 DEF OwnBlocks
  <2>2. 40 \in 1..Tracks(type) BY <1>3 DEF Tracks
  <2>3. \A r \in 0..3 : r \in 0..(SectorsPerTrack(type, 40) - 1)
    <3>1. SectorsPerTrack(type, 40) \in 17..40 BY <2>2, Sizes DEF Known
    <3> QED BY <1>a, <3>1
  <2>4. \E r \in 0..3 : OwnBlocks[k] = TS(40, r) BY <2>1
  <2>5. \A u, r : TS(u, r).track = u /\ TS(u, r).sector = r BY DEF TS
  <2> QED BY <2>2, <2>3, <2>4, <2>5
<1> QED BY <1>1, <1>2, <1>3 DEF Known, ImageTypes

(* An update for one block leaves the bytes of other tracks' cells. *)
LEMMA OtherCellsKept ==
  ASSUME Known,
         NEW b, b.track \in 1..Tracks(type),
         b.sector \in 0..(SectorsPerTrack(type, b.track) - 1), b = TS(b.track, b.sector),
         NEW t \in 1..Tracks(type), t # b.track, NEW a \in CellBytes(type, t)
  PROVE  FreeTS(map, b)[a] = map[a] /\ AllocTS(map, b)[a] = map[a]
<1>1. CountAt(type, b.track) \in CellBytes(type, b.track) BY DEF CellBytes
<1>2. BitsAt(type, b) \in CellBytes(type, b.track) BY DEF CellBytes
<1>3. a # CountAt(type, b.track) /\ a # BitsAt(type, b) BY <1>1, <1>2, CellsApart DEF Known
<1>4. a \in DOMAIN map BY CellsInMap DEF Known
<1> QED BY <1>3, <1>4 DEF FreeTS, AllocTS

(* Freeing and allocating keep to the cell of the block's track, whatever  *)
(* the types and the image's content before (di_free_ts, di_alloc_ts).     *)
THEOREM FormatKeepsToOneCell == Spec => OneCellAtATime
<1> DEFINE Kept ==
      LET b == IF phase = "free" THEN ts ELSE ts' IN
      (phase = "free" \/ phase = "alloc") =>
        \A t \in (1..Tracks(type)) \ {b.track} :
          \A a \in CellBytes(type, t) : map'[a] = map[a]
<1>1. FormatInv /\ [Next]_vars => [Kept]_vars
  <2> SUFFICES ASSUME FormatInv, Next, phase = "free" \/ phase = "alloc",
                      NEW t \in 1..Tracks(type),
                      t # (IF phase = "free" THEN ts ELSE ts').track,
                      NEW a \in CellBytes(type, t)
               PROVE  map'[a] = map[a]
    OBVIOUS
  <2>a. Known /\ Cursor BY DEF FormatInv
  <2>1. CASE FreeNext
    <3>1. phase = "free" /\ t # ts.track BY <2>1 DEF FreeNext
    <3>2. /\ ts.track \in 1..Tracks(type)
          /\ ts.sector \in 0..(SectorsPerTrack(type, ts.track) - 1)
          /\ ts = TS(ts.track, ts.sector)
      BY <2>a, <3>1 DEF Cursor
    <3>3. FreeTS(map, ts)[a] = map[a] BY <2>a, <3>1, <3>2, OtherCellsKept
    <3>4. map' = map \/ map' = FreeTS(map, ts) BY <2>1 DEF FreeNext
    <3> QED BY <3>3, <3>4
  <2>2. CASE AllocOwn
    <3>1. phase = "alloc" /\ taken < Len(OwnBlocks) /\ taken' = taken + 1
          /\ ts' = OwnBlocks[taken'] /\ map' = AllocTS(map, ts')
      BY <2>2 DEF AllocOwn
    <3>2. Len(OwnBlocks) \in Nat BY <2>a DEF OwnBlocks, ImageTypes, Known
    <3>3. taken' \in 1..Len(OwnBlocks) BY <2>a, <3>1, <3>2 DEF Cursor
    <3>4. /\ ts'.track \in 1..Tracks(type)
          /\ ts'.sector \in 0..(SectorsPerTrack(type, ts'.track) - 1)
          /\ ts' = TS(ts'.track, ts'.sector)
      BY <2>a, <3>1, <3>3, OwnBlocksValid
    <3>5. t # ts'.track BY <3>1
    <3>6. AllocTS(map, ts')[a] = map[a] BY <2>a, <3>4, <3>5, OtherCellsKept
    <3> QED BY <3>1, <3>6
  <2>3. CASE ClearMap BY <2>3 DEF ClearMap
  <2>4. CASE CountBlocks BY <2>4 DEF CountBlocks
  <2> QED BY <2>1, <2>2, <2>3, <2>4 DEF Next
<1> QED BY <1>1, FormatInit, FormatStep, PTL DEF Spec, OneCellAtATime
-----------------------------------------------------------------------------
(* Bits. *)

Bits == 0..7
Weights == {1, 2, 4, 8, 16, 32, 64, 128}

(* Different bits have different weights. *)
LEMMA WeightOfBit ==
  \A k \in Bits : 2^k \in Weights /\ \A j \in Bits : j # k => 2^j # 2^k
<1> DEFINE W(k) == 2^k
<1>1. /\ W(0) = 1 /\ W(1) = 2 /\ W(2) = 4 /\ W(3) = 8
      /\ W(4) = 16 /\ W(5) = 32 /\ W(6) = 64 /\ W(7) = 128
  OBVIOUS
<1> HIDE DEF W
<1>2. \A k \in Bits : W(k) \in Weights /\ \A j \in Bits : j # k => W(j) # W(k)
  BY <1>1 DEF Bits, Weights
<1> QED BY <1>2 DEF W

(* A bit that is not set can be added to a byte, one that is set taken     *)
(* away, and neither changes another bit.                                  *)
HasWeight(n, w) == (n \div w) % 2 = 1

LEMMA AddingAWeight ==
  ASSUME NEW n \in Byte, NEW w \in Weights, ~HasWeight(n, w)
  PROVE  /\ n + w \in Byte /\ HasWeight(n + w, w)
         /\ \A v \in Weights : v # w => (HasWeight(n + w, v) <=> HasWeight(n, v))
<1> USE DEF HasWeight, Byte, Weights
<1>1. CASE w = 1 BY <1>1
<1>2. CASE w = 2 BY <1>2
<1>3. CASE w = 4 BY <1>3
<1>4. CASE w = 8 BY <1>4
<1>5. CASE w = 16 BY <1>5
<1>6. CASE w = 32 BY <1>6
<1>7. CASE w = 64 BY <1>7
<1>8. CASE w = 128 BY <1>8
<1> QED BY <1>1, <1>2, <1>3, <1>4, <1>5, <1>6, <1>7, <1>8

(* The other way round, for a bit that is set. *)
LEMMA TakingAWeight ==
  ASSUME NEW n \in Byte, NEW w \in Weights, HasWeight(n, w)
  PROVE  /\ n - w \in Byte /\ ~HasWeight(n - w, w)
         /\ \A v \in Weights : v # w => (HasWeight(n - w, v) <=> HasWeight(n, v))
<1> USE DEF HasWeight, Byte, Weights
<1>1. CASE w = 1 BY <1>1
<1>2. CASE w = 2 BY <1>2
<1>3. CASE w = 4 BY <1>3
<1>4. CASE w = 8 BY <1>4
<1>5. CASE w = 16 BY <1>5
<1>6. CASE w = 32 BY <1>6
<1>7. CASE w = 64 BY <1>7
<1>8. CASE w = 128 BY <1>8
<1> QED BY <1>1, <1>2, <1>3, <1>4, <1>5, <1>6, <1>7, <1>8

(* The sectors of track t whose bits are set. *)
OnTrack(t) == 0..(SectorsPerTrack(type, t) - 1)
Marked(m, t) == {s \in OnTrack(t) : IsSet(m[BitsAt(type, TS(t, s))], Bit(TS(t, s)))}

(* The bits of a track are bits of their own, and none is in the count.    *)
LEMMA BitsApart ==
  ASSUME NEW type_ \in ImageTypes, NEW t \in 1..Tracks(type_),
         NEW s \in 0..(SectorsPerTrack(type_, t) - 1)
  PROVE  /\ BitsAt(type_, TS(t, s)) # CountAt(type_, t)
         /\ Bit(TS(t, s)) \in Bits
         /\ \A r \in 0..(SectorsPerTrack(type_, t) - 1) :
              BitsAt(type_, TS(t, r)) = BitsAt(type_, TS(t, s)) /\ r # s =>
                Bit(TS(t, r)) # Bit(TS(t, s))
<1>1. SectorsPerTrack(type_, t) \in 17..40 /\ t \in Nat
  BY Sizes
<1>2. s \in 0..39 /\ s \div 8 \in 0..4
  BY <1>1
<1>3. Bit(TS(t, s)) = s % 8 /\ Bit(TS(t, s)) \in Bits
  BY <1>2 DEF Bit, TS, Bits
<1> DEFINE ByteOf(g) == CASE type_ = "D64" -> At("bam", t * 4 + g + 1)
                          [] type_ = "D71" -> IF t < 36 THEN At("bam", t * 4 + g + 1)
                                              ELSE At("bam2", ((t - 35) * 3 + g) - 3)
                          [] type_ = "D80" -> IF t < 51 THEN At("bam", t * 5 + g + 7)
                                              ELSE At("bam2", (t - 50) * 5 + g + 7)
                          [] type_ = "D81" -> IF t < 41 THEN At("bam", t * 6 + g + 11)
                                              ELSE At("bam2", (t - 40) * 6 + g + 11)
<1>4. \A r : BitsAt(type_, TS(t, r)) = ByteOf(r \div 8)
  BY DEF BitsAt, TS
<1>5. \A g \in 0..4 : ByteOf(g) # CountAt(type_, t)
  BY <1>1 DEF CountAt, At, ImageTypes
<1>6. \A g, h \in 0..4 : ByteOf(g) = ByteOf(h) => g = h
  BY <1>1 DEF At, ImageTypes
<1> HIDE DEF ByteOf
<1>7. ASSUME NEW r \in 0..(SectorsPerTrack(type_, t) - 1),
             BitsAt(type_, TS(t, r)) = BitsAt(type_, TS(t, s)), r # s
      PROVE  Bit(TS(t, r)) # Bit(TS(t, s))
  <2>1. r \in 0..39 /\ r \div 8 \in 0..4
    BY <1>1
  <2>2. r \div 8 = s \div 8
    BY <1>2, <1>4, <1>6, <1>7, <2>1
  <2>3. r % 8 # s % 8
    BY <1>2, <1>7, <2>1, <2>2
  <2> QED BY <1>3, <2>3 DEF Bit, TS
<1> QED BY <1>2, <1>3, <1>4, <1>5, <1>7

(* IsSet is the same thing, said of the number of a bit. *)
LEMMA BitIsSet ==
  ASSUME NEW n \in Byte, NEW k \in Bits
  PROVE  LET up   == IF IsSet(n, k) THEN n ELSE n + 2^k
             down == IF IsSet(n, k) THEN n - 2^k ELSE n
         IN /\ up \in Byte /\ IsSet(up, k) /\ down \in Byte /\ ~IsSet(down, k)
            /\ \A j \in Bits : j # k => /\ IsSet(up, j) <=> IsSet(n, j)
                                        /\ IsSet(down, j) <=> IsSet(n, j)
<1>1. \A m, j : IsSet(m, j) <=> HasWeight(m, 2^j)
  BY DEF IsSet, HasWeight
<1>2. 2^k \in Weights /\ \A j \in Bits : 2^j \in Weights /\ (j # k => 2^j # 2^k)
  BY WeightOfBit
<1>3. CASE IsSet(n, k)
  <2>1. HasWeight(n, 2^k)
    BY <1>1, <1>3
  <2>2. /\ n - 2^k \in Byte /\ ~HasWeight(n - 2^k, 2^k)
        /\ \A v \in Weights : v # 2^k => (HasWeight(n - 2^k, v) <=> HasWeight(n, v))
    BY <1>2, <2>1, TakingAWeight
  <2> QED BY <1>1, <1>2, <1>3, <2>2, Zenon
<1>4. CASE ~IsSet(n, k)
  <2>1. ~HasWeight(n, 2^k)
    BY <1>1, <1>4
  <2>2. /\ n + 2^k \in Byte /\ HasWeight(n + 2^k, 2^k)
        /\ \A v \in Weights : v # 2^k => (HasWeight(n + 2^k, v) <=> HasWeight(n, v))
    BY <1>2, <2>1, AddingAWeight
  <2> QED BY <1>1, <1>2, <1>4, <2>2, Zenon
<1> QED BY <1>3, <1>4

(* What an update of one block's bit and count does to its track. *)
Updated(m, b, byte, number) ==
  [m EXCEPT ![BitsAt(type, b)] = byte, ![CountAt(type, b.track)] = number]

(* What an update of one byte of bits and the count does to a track. *)
LEMMA UpdateIs ==
  ASSUME type \in ImageTypes, NEW m \in [MapBytes -> Byte],
         NEW t \in 1..Tracks(type), NEW s \in OnTrack(t),
         NEW byte \in Byte, NEW number \in Byte,
         \A j \in Bits : j # Bit(TS(t, s)) =>
           (IsSet(byte, j) <=> IsSet(m[BitsAt(type, TS(t, s))], j))
  PROVE  LET u == Updated(m, TS(t, s), byte, number)
         IN /\ u \in [MapBytes -> Byte]
            /\ u[CountAt(type, t)] = number
            /\ Marked(u, t) = IF IsSet(byte, Bit(TS(t, s))) THEN Marked(m, t) \cup {s}
                              ELSE Marked(m, t) \ {s}
<1> DEFINE b == TS(t, s)
           at == BitsAt(type, b)
           u == Updated(m, b, byte, number)
<1>1. b.track = t
  BY DEF TS
<1>2. /\ at # CountAt(type, t)
      /\ \A r \in OnTrack(t) : BitsAt(type, TS(t, r)) = at /\ r # s => Bit(TS(t, r)) # Bit(b)
      /\ \A r \in OnTrack(t) : BitsAt(type, TS(t, r)) # CountAt(type, t) /\ Bit(TS(t, r)) \in Bits
  BY BitsApart DEF OnTrack
<1>3. CellBytes(type, t) \subseteq MapBytes
  BY CellsInMap
<1>4. /\ at \in MapBytes /\ CountAt(type, t) \in MapBytes
      /\ \A r \in OnTrack(t) : BitsAt(type, TS(t, r)) \in MapBytes
  BY <1>3 DEF CellBytes, OnTrack
<1>5. u \in [MapBytes -> Byte] /\ u[CountAt(type, t)] = number
  BY <1>1, <1>4 DEF Updated
<1>6. u[at] = byte /\ \A a \in MapBytes : a # at /\ a # CountAt(type, t) => u[a] = m[a]
  BY <1>1, <1>2, <1>4 DEF Updated
<1> HIDE DEF u, at
<1>7. ASSUME NEW r \in OnTrack(t), r # s
      PROVE  IsSet(u[BitsAt(type, TS(t, r))], Bit(TS(t, r))) <=>
               IsSet(m[BitsAt(type, TS(t, r))], Bit(TS(t, r)))
  <2>1. CASE BitsAt(type, TS(t, r)) = at
    BY <1>2, <1>6, <1>7, <2>1 DEF at
  <2>2. CASE BitsAt(type, TS(t, r)) # at
    BY <1>2, <1>4, <1>6, <2>2
  <2> QED BY <2>1, <2>2
<1>8. IsSet(u[BitsAt(type, TS(t, s))], Bit(TS(t, s))) <=> IsSet(byte, Bit(TS(t, s)))
  BY <1>6 DEF at
<1>9. \A r \in OnTrack(t) :
        r \in Marked(u, t) <=> IF r = s THEN IsSet(byte, Bit(TS(t, s))) ELSE r \in Marked(m, t)
  BY <1>7, <1>8 DEF Marked
<1>10. Marked(u, t) \subseteq OnTrack(t) /\ Marked(m, t) \subseteq OnTrack(t)
  BY DEF Marked
<1>11. Marked(u, t) =
         IF IsSet(byte, Bit(TS(t, s))) THEN Marked(m, t) \cup {s} ELSE Marked(m, t) \ {s}
  BY <1>9, <1>10
<1> QED BY <1>5, <1>11 DEF u

(* What di_free_ts and di_alloc_ts do to a track's cell, and that they     *)
(* leave the cells of other tracks alone.                                  *)
LEMMA FreeIs ==
  ASSUME Known, map \in [MapBytes -> Byte], NEW t \in 1..Tracks(type), NEW s \in OnTrack(t)
  PROVE  LET u == FreeTS(map, TS(t, s))
         IN /\ u \in [MapBytes -> Byte]
            /\ u[CountAt(type, t)] = (map[CountAt(type, t)] + 1) % 256
            /\ Marked(u, t) = Marked(map, t) \cup {s}
<1> DEFINE b == TS(t, s)
           at == BitsAt(type, b)
           n == map[at]
           up == IF IsSet(n, Bit(b)) THEN n ELSE n + 2^Bit(b)
           number == (map[CountAt(type, t)] + 1) % 256
<1>1. b.track = t /\ type \in ImageTypes
  BY DEF TS, Known
<1>2. at # CountAt(type, t) /\ Bit(b) \in Bits
  BY <1>1, BitsApart DEF OnTrack
<1>3. at \in MapBytes /\ CountAt(type, t) \in MapBytes
  BY <1>1, CellsInMap DEF CellBytes, OnTrack
<1>4. n \in Byte /\ map[CountAt(type, t)] \in Byte /\ number \in Byte
  BY <1>3 DEF Byte
<1>5. /\ up \in Byte /\ IsSet(up, Bit(b))
      /\ \A j \in Bits : j # Bit(b) => (IsSet(up, j) <=> IsSet(n, j))
  <2> HIDE DEF n, b
  <2> QED BY <1>2, <1>4, BitIsSet
<1>6. FreeTS(map, b) = Updated(map, b, up, number)
  <2> HIDE DEF b
  <2> QED BY <1>1, <1>2, <1>3 DEF FreeTS, Updated
<1> HIDE DEF up, number
<1>7. LET u == Updated(map, b, up, number)
      IN /\ u \in [MapBytes -> Byte] /\ u[CountAt(type, t)] = number
         /\ Marked(u, t) = IF IsSet(up, Bit(b))
                          THEN Marked(map, t) \cup {s} ELSE Marked(map, t) \ {s}
  BY <1>1, <1>4, <1>5, UpdateIs
<1> QED BY <1>5, <1>6, <1>7 DEF number

(* What di_alloc_ts does to the track of its block. *)
LEMMA AllocIs ==
  ASSUME Known, map \in [MapBytes -> Byte], NEW t \in 1..Tracks(type), NEW s \in OnTrack(t)
  PROVE  LET u == AllocTS(map, TS(t, s))
         IN /\ u \in [MapBytes -> Byte]
            /\ u[CountAt(type, t)] = (map[CountAt(type, t)] + 255) % 256
            /\ Marked(u, t) = Marked(map, t) \ {s}
<1> DEFINE b == TS(t, s)
           at == BitsAt(type, b)
           n == map[at]
           down == IF IsSet(n, Bit(b)) THEN n - 2^Bit(b) ELSE n
           number == (map[CountAt(type, t)] + 255) % 256
<1>1. b.track = t /\ type \in ImageTypes
  BY DEF TS, Known
<1>2. at # CountAt(type, t) /\ Bit(b) \in Bits
  BY <1>1, BitsApart DEF OnTrack
<1>3. at \in MapBytes /\ CountAt(type, t) \in MapBytes
  BY <1>1, CellsInMap DEF CellBytes, OnTrack
<1>4. n \in Byte /\ map[CountAt(type, t)] \in Byte /\ number \in Byte
  BY <1>3 DEF Byte
<1>5. /\ down \in Byte /\ ~IsSet(down, Bit(b))
      /\ \A j \in Bits : j # Bit(b) => (IsSet(down, j) <=> IsSet(n, j))
  <2> HIDE DEF n, b
  <2> QED BY <1>2, <1>4, BitIsSet
<1>6. AllocTS(map, b) = Updated(map, b, down, number)
  <2> HIDE DEF b
  <2> QED BY <1>1, <1>2, <1>3 DEF AllocTS, Updated
<1> HIDE DEF down, number
<1>7. LET u == Updated(map, b, down, number)
      IN /\ u \in [MapBytes -> Byte] /\ u[CountAt(type, t)] = number
         /\ Marked(u, t) = IF IsSet(down, Bit(b))
                          THEN Marked(map, t) \cup {s} ELSE Marked(map, t) \ {s}
  BY <1>1, <1>4, <1>5, UpdateIs
<1> QED BY <1>5, <1>6, <1>7 DEF number

(* Neither changes the count or the bits of another track. *)
LEMMA OtherTracksKept ==
  ASSUME Known, NEW t \in 1..Tracks(type), NEW s \in OnTrack(t),
         NEW v \in 1..Tracks(type), v # t,
         NEW u, u = FreeTS(map, TS(t, s)) \/ u = AllocTS(map, TS(t, s))
  PROVE  u[CountAt(type, v)] = map[CountAt(type, v)] /\ Marked(u, v) = Marked(map, v)
<1>1. TS(t, s).track = t /\ TS(t, s).sector = s
  BY DEF TS
<1>2. \A a \in CellBytes(type, v) : u[a] = map[a]
  BY <1>1, OtherCellsKept DEF OnTrack
<1>3. /\ CountAt(type, v) \in CellBytes(type, v)
      /\ \A r \in OnTrack(v) : BitsAt(type, TS(v, r)) \in CellBytes(type, v)
  BY DEF CellBytes, OnTrack
<1> QED BY <1>2, <1>3 DEF Marked

-----------------------------------------------------------------------------
(* Counts. *)

(* The one track whose blocks the loop does not free. *)
Skipped(t) == type = "D71" /\ t = 53

(* The blocks of track t that have been freed and not taken back. *)
Visited(t) ==
  IF Skipped(t) THEN {}
  ELSE IF phase = "free" THEN {s \in OnTrack(t) : t < ts.track \/ (t = ts.track /\ s < ts.sector)}
  ELSE {s \in OnTrack(t) : \A k \in 1..taken : OwnBlocks[k] # TS(t, s)}

(* A track's count says how many were, and their bits are set; once the    *)
(* loop is over no others are.  Before that they may be: on a D80 the bits *)
(* of track 50 are not cleared.                                            *)
CellsKept ==
  phase # "clear" => \A t \in 1..Tracks(type) :
    /\ map[CountAt(type, t)] = Cardinality(Visited(t))
    /\ Visited(t) \subseteq Marked(map, t)
    /\ phase # "free" \/ Skipped(t) => Marked(map, t) = Visited(t)

Bytes == map \in [MapBytes -> Byte] /\ (phase \in {"clear", "free"} => taken = 0)

CountsInv == FormatInv /\ Bytes /\ CellsKept

(* A track has at most 40 sectors, and so a count is a byte. *)
LEMMA VisitedIsFinite ==
  ASSUME Known, NEW t \in 1..Tracks(type)
  PROVE  /\ Visited(t) \subseteq OnTrack(t) /\ IsFiniteSet(OnTrack(t)) /\ IsFiniteSet(Visited(t))
         /\ Cardinality(Visited(t)) \in 0..40
<1>1. SectorsPerTrack(type, t) \in 17..40
  BY Sizes DEF Known
<1>2. IsFiniteSet(OnTrack(t)) /\ Cardinality(OnTrack(t)) <= 40
  <2> DEFINE n == SectorsPerTrack(type, t) - 1
  <2>1. n \in 16..39
    BY <1>1
  <2> HIDE DEF n
  <2>2. IsFiniteSet(0..n) /\ Cardinality(0..n) = n + 1
    <3>1. IsFiniteSet(0..n) /\ Cardinality(0..n) = IF 0 > n THEN 0 ELSE n - 0 + 1
      BY <2>1, FS_Interval
    <3> QED BY <2>1, <3>1
  <2> QED BY <2>1, <2>2 DEF OnTrack, n
<1>3. Visited(t) \subseteq OnTrack(t)
  BY DEF Visited
<1>4. /\ IsFiniteSet(Visited(t)) /\ Cardinality(Visited(t)) <= Cardinality(OnTrack(t))
      /\ Cardinality(Visited(t)) \in Nat /\ Cardinality(OnTrack(t)) \in Nat
  BY <1>2, <1>3, FS_Subset, FS_CardinalityType
<1> QED BY <1>2, <1>3, <1>4

(* The bytes that are cleared: every count, and the skipped track's bits.  *)
LEMMA CountsAreCleared ==
  ASSUME Known, NEW t \in 1..Tracks(type)
  PROVE  /\ CountAt(type, t) \in Cleared
         /\ Skipped(t) => \A s \in OnTrack(t) : BitsAt(type, TS(t, s)) \in Cleared
<1>1. CASE type = "D64"
  BY <1>1 DEF Cleared, CountAt, At, Tracks, Skipped
<1>2. CASE type = "D71"
  <2>1. CountAt(type, t) \in Cleared
    BY <1>2 DEF Cleared, CountAt, At, Tracks
  <2>2. ASSUME t = 53, NEW s \in OnTrack(t) PROVE BitsAt(type, TS(t, s)) \in Cleared
    <3>1. s \in 0..39
      BY Sizes DEF Known, OnTrack
    <3>2. s \div 8 \in 0..4
      BY <3>1
    <3>3. BitsAt(type, TS(t, s)) = <<"bam2", ((53 - 35) * 3 + (s \div 8)) - 3>>
      BY <1>2, <2>2 DEF BitsAt, At, TS
    <3>4. ((53 - 35) * 3 + (s \div 8)) - 3 \in 0..255
      BY <3>2
    <3> QED BY <1>2, <3>3, <3>4 DEF Cleared
  <2> QED BY <2>1, <2>2 DEF Skipped
<1>3. CASE type = "D80"
  BY <1>3 DEF Cleared, CountAt, At, Tracks, Skipped
<1>4. CASE type = "D81"
  BY <1>4 DEF Cleared, CountAt, At, Tracks, Skipped
<1> QED BY <1>1, <1>2, <1>3, <1>4 DEF Known, ImageTypes

(* Nothing is asked of the cells before they are cleared. *)
LEMMA CountsInit == Init => CountsInv
<1> SUFFICES ASSUME Init PROVE CountsInv
  OBVIOUS
<1>1. map \in [MapBytes -> Byte] /\ taken = 0 /\ phase = "clear"
  BY FormatAssumption DEF Init
<1> QED BY <1>1, FormatInit DEF CountsInv, Bytes, CellsKept

(* The memsets clear every count. *)
LEMMA ClearCounts ==
  ASSUME CountsInv, ClearMap
  PROVE  Bytes' /\ CellsKept'
<1>1. /\ phase = "clear" /\ phase' = "free" /\ type' = type /\ ts' = ts /\ taken' = taken
      /\ map' = [a \in MapBytes |-> IF a \in Cleared THEN 0 ELSE map[a]]
  BY DEF ClearMap
<1>2. Known /\ ts = TS(1, 0) /\ taken = 0 /\ map \in [MapBytes -> Byte]
  BY <1>1 DEF CountsInv, FormatInv, Cursor, Bytes
<1>3. Bytes'
  BY <1>1, <1>2 DEF Bytes, Byte
<1>4. ASSUME NEW t \in 1..Tracks(type)
      PROVE  /\ map'[CountAt(type, t)] = Cardinality(Visited(t)')
             /\ Visited(t)' \subseteq Marked(map', t)
             /\ Skipped(t) => Marked(map', t) = Visited(t)'
  <2>1. Visited(t)' = {}
    <3>1. ts'.track = 1 /\ ts'.sector = 0 /\ t \in Nat /\ t >= 1
      BY <1>1, <1>2, Sizes DEF TS, Known
    <3>2. \A s \in OnTrack(t) : s \in Nat
      BY DEF OnTrack
    <3>3. \A s \in OnTrack(t) : ~(t < 1 \/ (t = 1 /\ s < 0))
      BY <3>1, <3>2
    <3> QED BY <1>1, <3>1, <3>3 DEF Visited, Skipped, OnTrack
  <2>2. CountAt(type, t) \in MapBytes /\ \A s \in OnTrack(t) : BitsAt(type, TS(t, s)) \in MapBytes
    BY <1>2, CellsInMap DEF CellBytes, OnTrack, Known
  <2>3. map'[CountAt(type, t)] = 0
    BY <1>1, <1>2, <2>2, CountsAreCleared
  <2>4. ASSUME Skipped(t) PROVE Marked(map', t) = {}
    <3>1. SUFFICES ASSUME NEW s \in OnTrack(t), IsSet(map'[BitsAt(type, TS(t, s))], Bit(TS(t, s)))
                   PROVE  FALSE
      BY DEF Marked
    <3>2. map'[BitsAt(type, TS(t, s))] = 0
      BY <1>1, <1>2, <2>2, <2>4, CountsAreCleared
    <3>3. Bit(TS(t, s)) \in Bits
      BY <1>2, BitsApart DEF OnTrack, Known
    <3>4. \A w \in Weights : (0 \div w) % 2 = 0
      BY DEF Weights
    <3> QED BY <3>1, <3>2, <3>3, <3>4, WeightOfBit DEF IsSet
  <2> QED BY <2>1, <2>3, <2>4, FS_EmptySet
<1> QED BY <1>1, <1>3, <1>4 DEF CellsKept, Skipped, Marked, OnTrack

(* A turn of the loop visits one block more, unless it is skipped. *)
LEMMA VisitsNext ==
  ASSUME CountsInv, FreeNext
  PROVE  /\ ts.track \in 1..Tracks(type) /\ ts.sector \in OnTrack(ts.track)
         /\ ts = TS(ts.track, ts.sector)
         /\ ts.sector \notin Visited(ts.track)
         /\ \A t \in 1..Tracks(type) :
              /\ Visited(t)' = IF t = ts.track /\ ~Skipped(t)
                                THEN Visited(t) \cup {ts.sector} ELSE Visited(t)
              /\ phase' # "free" /\ ~Skipped(t) => Visited(t)' = OnTrack(t)
<1>1. /\ phase = "free" /\ type' = type /\ taken = 0 /\ taken' = taken /\ Known
      /\ ts.track \in 1..Tracks(type) /\ ts.sector \in OnTrack(ts.track)
      /\ ts = TS(ts.track, ts.sector)
  BY DEF CountsInv, FormatInv, Cursor, Bytes, FreeNext, OnTrack
<1>2. /\ Tracks(type) \in Nat /\ SectorsPerTrack(type, ts.track) \in Nat
      /\ ts.track \in Nat /\ ts.sector \in Nat
  BY <1>1, Sizes DEF Known, OnTrack
<1>3. \A t : OnTrack(t)' = OnTrack(t) /\ (Skipped(t)' <=> Skipped(t))
  BY <1>1 DEF OnTrack, Skipped
<1>4. ASSUME NEW t \in 1..Tracks(type)
      PROVE  /\ Visited(t)' = IF t = ts.track /\ ~Skipped(t)
                                THEN Visited(t) \cup {ts.sector} ELSE Visited(t)
             /\ phase' # "free" /\ ~Skipped(t) => Visited(t)' = OnTrack(t)
  <2>1. CASE Skipped(t)
    BY <1>3, <2>1 DEF Visited
  <2>2. CASE ~Skipped(t)
    <3>1. Visited(t) = {s \in OnTrack(t) : t < ts.track \/ (t = ts.track /\ s < ts.sector)}
      BY <1>1, <2>2 DEF Visited
    <3>2. t \in Nat /\ \A s \in OnTrack(t) : s \in Nat
      BY <1>1, Sizes DEF Known, OnTrack
    <3>3. CASE phase' = "free"
      <4>1. Visited(t)' = {s \in OnTrack(t) : t < ts'.track \/ (t = ts'.track /\ s < ts'.sector)}
        BY <1>3, <2>2, <3>3 DEF Visited
      <4>2. \/ ts'.track = ts.track /\ ts'.sector = ts.sector + 1
            \/ /\ ts'.track = ts.track + 1 /\ ts'.sector = 0
               /\ ts.sector + 1 = SectorsPerTrack(type, ts.track)
        BY DEF FreeNext, TS
      <4>3. ASSUME NEW s \in OnTrack(t)
            PROVE  (t < ts'.track \/ (t = ts'.track /\ s < ts'.sector)) <=>
                   \/ t < ts.track \/ (t = ts.track /\ s < ts.sector)
                   \/ t = ts.track /\ s = ts.sector
        <5>1. t = ts.track => s < SectorsPerTrack(type, ts.track)
          BY <1>2, <3>2 DEF OnTrack
        <5> QED BY <1>2, <3>2, <4>2, <5>1
      <4> QED BY <1>1, <2>2, <3>1, <3>3, <4>1, <4>3
    <3>4. CASE phase' # "free"
      <4>1. ts.track = Tracks(type) /\ ts.sector + 1 = SectorsPerTrack(type, ts.track)
        BY <1>1, <3>4 DEF FreeNext
      <4>2. Visited(t)' = OnTrack(t)
        <5>1. 1..taken' = {}
          BY <1>1
        <5> QED BY <1>3, <2>2, <3>4, <5>1 DEF Visited
      <4>3. ASSUME NEW s \in OnTrack(t)
            PROVE  t < ts.track \/ (t = ts.track /\ s < ts.sector)
                     \/ (t = ts.track /\ s = ts.sector)
        <5>1. t = ts.track => s < SectorsPerTrack(type, ts.track)
          BY <1>2, <3>2 DEF OnTrack
        <5> QED BY <1>2, <3>2, <4>1, <5>1
      <4> QED BY <1>1, <2>2, <3>1, <4>2, <4>3
    <3> QED BY <3>3, <3>4
  <2> QED BY <2>1, <2>2
<1>5. ts.sector \notin Visited(ts.track)
  BY <1>1, <1>2 DEF Visited
<1> QED BY <1>1, <1>4, <1>5

(* A turn of the loop counts one block more. *)
LEMMA FreeCounts ==
  ASSUME CountsInv, FreeNext
  PROVE  Bytes' /\ CellsKept'
<1> DEFINE t0 == ts.track
           s0 == ts.sector
<1>1. /\ phase = "free" /\ type' = type /\ taken = 0 /\ taken' = taken /\ Known
      /\ map \in [MapBytes -> Byte] /\ phase' \in {"free", "alloc"}
  BY DEF CountsInv, FormatInv, Cursor, Bytes, FreeNext
<1>2. /\ t0 \in 1..Tracks(type) /\ s0 \in OnTrack(t0) /\ ts = TS(t0, s0)
      /\ s0 \notin Visited(t0)
      /\ \A t \in 1..Tracks(type) :
           /\ Visited(t)' = IF t = t0 /\ ~Skipped(t) THEN Visited(t) \cup {s0} ELSE Visited(t)
           /\ phase' # "free" /\ ~Skipped(t) => Visited(t)' = OnTrack(t)
  BY VisitsNext
<1>3. map' = IF Skipped(t0) THEN map ELSE FreeTS(map, TS(t0, s0))
  BY <1>2 DEF FreeNext, Skipped
<1> HIDE DEF t0, s0
<1>4. Bytes'
  BY <1>1, <1>2, <1>3, FreeIs DEF Bytes
<1>5. ASSUME NEW t \in 1..Tracks(type)
      PROVE  /\ map'[CountAt(type, t)] = Cardinality(Visited(t)')
             /\ Visited(t)' \subseteq Marked(map', t)
             /\ phase' # "free" \/ Skipped(t) => Marked(map', t) = Visited(t)'
  <2>1. /\ map[CountAt(type, t)] = Cardinality(Visited(t))
        /\ Visited(t) \subseteq Marked(map, t)
        /\ Skipped(t) => Marked(map, t) = Visited(t)
    BY <1>1 DEF CountsInv, CellsKept
  <2>2. Marked(map', t) \subseteq OnTrack(t)
    BY DEF Marked
  <2>3. CASE t = t0 /\ ~Skipped(t)
    <3>1. /\ map'[CountAt(type, t)] = (map[CountAt(type, t)] + 1) % 256
          /\ Marked(map', t) = Marked(map, t) \cup {s0}
      BY <1>1, <1>2, <1>3, <2>3, FreeIs
    <3>2. IsFiniteSet(Visited(t)) /\ Cardinality(Visited(t)) \in 0..40
      BY <1>1, VisitedIsFinite
    <3>3. Visited(t)' = Visited(t) \cup {s0} /\ s0 \notin Visited(t)
      BY <1>2, <2>3
    <3>4. Cardinality(Visited(t)') = Cardinality(Visited(t)) + 1
      BY <3>2, <3>3, FS_AddElement
    <3>5. map'[CountAt(type, t)] = Cardinality(Visited(t)')
      BY <2>1, <3>1, <3>2, <3>4
    <3>6. Visited(t)' \subseteq Marked(map', t)
      BY <2>1, <3>1, <3>3
    <3> QED BY <1>2, <2>2, <2>3, <3>5, <3>6
  <2>4. CASE t # t0 \/ Skipped(t)
    <3>1. map'[CountAt(type, t)] = map[CountAt(type, t)] /\ Marked(map', t) = Marked(map, t)
      <4>1. CASE Skipped(t0)
        BY <1>3, <4>1
      <4>2. CASE ~Skipped(t0)
        BY <1>1, <1>2, <1>3, <2>4, <4>2, OtherTracksKept
      <4> QED BY <4>1, <4>2
    <3>2. Visited(t)' = Visited(t)
      BY <1>2, <2>4
    <3> QED BY <1>2, <2>1, <2>2, <3>1, <3>2
  <2> QED BY <2>3, <2>4
<1> QED BY <1>1, <1>4, <1>5 DEF CellsKept, Skipped, Marked, OnTrack

(* The blocks the format takes are different ones, and none is skipped. *)
LEMMA OwnBlocksApart ==
  ASSUME Known, NEW k \in 1..Len(OwnBlocks)
  PROVE  /\ \A j \in 1..Len(OwnBlocks) : j # k => OwnBlocks[j] # OwnBlocks[k]
         /\ ~Skipped(OwnBlocks[k].track)
<1>1. CASE type \in {"D64", "D71"}
  <2>1. OwnBlocks = <<TS(18, 0), TS(18, 1)>> BY <1>1 DEF OwnBlocks
  <2>2. TS(18, 0) # TS(18, 1) /\ TS(18, 0).track = 18 /\ TS(18, 1).track = 18 BY DEF TS
  <2> QED BY <2>1, <2>2 DEF Skipped
<1>2. CASE type = "D80"
  <2>1. OwnBlocks = <<TS(38, 0), TS(38, 3), TS(39, 0), TS(39, 1)>> BY <1>2 DEF OwnBlocks
  <2>2. /\ TS(38, 0) # TS(38, 3) /\ TS(38, 0) # TS(39, 0) /\ TS(38, 0) # TS(39, 1)
        /\ TS(38, 3) # TS(39, 0) /\ TS(38, 3) # TS(39, 1) /\ TS(39, 0) # TS(39, 1)
    BY DEF TS
  <2> QED BY <1>2, <2>1, <2>2 DEF Skipped
<1>3. CASE type = "D81"
  <2>1. OwnBlocks = <<TS(40, 0), TS(40, 1), TS(40, 2), TS(40, 3)>> BY <1>3 DEF OwnBlocks
  <2>2. \A q, r : q # r => TS(40, q) # TS(40, r)
    BY DEF TS
  <2> QED BY <1>3, <2>1, <2>2 DEF Skipped
<1> QED BY <1>1, <1>2, <1>3 DEF Known, ImageTypes

(* Taking one of the format's own blocks counts one less. *)
LEMMA AllocCounts ==
  ASSUME CountsInv, AllocOwn
  PROVE  Bytes' /\ CellsKept'
<1> DEFINE b == OwnBlocks[taken + 1]
           t0 == b.track
           s0 == b.sector
<1>1. /\ phase = "alloc" /\ phase' = phase /\ type' = type /\ taken' = taken + 1 /\ Known
      /\ map \in [MapBytes -> Byte] /\ taken \in 0..Len(OwnBlocks) /\ taken < Len(OwnBlocks)
      /\ map' = AllocTS(map, b)
  BY DEF CountsInv, FormatInv, Cursor, Bytes, AllocOwn
<1>2. Len(OwnBlocks) \in Nat /\ taken \in Nat /\ taken + 1 \in 1..Len(OwnBlocks)
  <2>1. Len(OwnBlocks) \in Nat BY <1>1 DEF OwnBlocks, ImageTypes, Known
  <2> QED BY <1>1, <2>1
<1>3. /\ t0 \in 1..Tracks(type) /\ s0 \in OnTrack(t0) /\ b = TS(t0, s0) /\ ~Skipped(t0)
      /\ \A j \in 1..taken : OwnBlocks[j] # b
  BY <1>1, <1>2, OwnBlocksValid, OwnBlocksApart DEF OnTrack
<1>4. \A t : OnTrack(t)' = OnTrack(t) /\ (Skipped(t)' <=> Skipped(t))
  BY <1>1 DEF OnTrack, Skipped
<1>5. OwnBlocks' = OwnBlocks
  BY <1>1 DEF OwnBlocks
<1>6. ASSUME NEW t \in 1..Tracks(type)
      PROVE  Visited(t)' = IF t = t0 THEN Visited(t) \ {s0} ELSE Visited(t)
  <2>1. CASE Skipped(t)
    BY <1>3, <1>4, <2>1 DEF Visited
  <2>2. CASE ~Skipped(t)
    <3>1. Visited(t) = {s \in OnTrack(t) : \A k \in 1..taken : OwnBlocks[k] # TS(t, s)}
      BY <1>1, <2>2 DEF Visited
    <3>2. Visited(t)' = {s \in OnTrack(t) : \A k \in 1..(taken + 1) : OwnBlocks[k] # TS(t, s)}
      BY <1>1, <1>4, <1>5, <2>2 DEF Visited
    <3>3. \A k : k \in 1..(taken + 1) <=> k \in 1..taken \/ k = taken + 1
      BY <1>2
    <3>4. \A s : b = TS(t, s) <=> t = t0 /\ s = s0
      BY <1>3 DEF TS
    <3> HIDE DEF t0, s0
    <3>5. \A s \in OnTrack(t) : (\A k \in 1..(taken + 1) : OwnBlocks[k] # TS(t, s)) <=>
                                (\A k \in 1..taken : OwnBlocks[k] # TS(t, s)) /\ ~(t = t0 /\ s = s0)
      BY <3>3, <3>4
    <3> QED BY <3>1, <3>2, <3>5
  <2> QED BY <2>1, <2>2
<1>7. s0 \in Visited(t0)
  BY <1>1, <1>3 DEF Visited
<1> HIDE DEF t0, s0, b
<1>8. Bytes'
  BY <1>1, <1>3, AllocIs DEF Bytes
<1>9. ASSUME NEW t \in 1..Tracks(type)
      PROVE  map'[CountAt(type, t)] = Cardinality(Visited(t)') /\ Marked(map', t) = Visited(t)'
  <2>1. map[CountAt(type, t)] = Cardinality(Visited(t)) /\ Marked(map, t) = Visited(t)
    BY <1>1 DEF CountsInv, CellsKept
  <2>2. CASE t = t0
    <3>1. /\ map'[CountAt(type, t)] = (map[CountAt(type, t)] + 255) % 256
          /\ Marked(map', t) = Marked(map, t) \ {s0}
      BY <1>1, <1>3, <2>2, AllocIs
    <3>2. IsFiniteSet(Visited(t)) /\ Cardinality(Visited(t)) \in 0..40
      BY <1>1, VisitedIsFinite
    <3>3. Visited(t)' = Visited(t) \ {s0} /\ s0 \in Visited(t)
      BY <1>6, <1>7, <2>2
    <3>4. Cardinality(Visited(t)') = Cardinality(Visited(t)) - 1 /\ Cardinality(Visited(t)) # 0
      BY <3>2, <3>3, FS_RemoveElement, FS_EmptySet
    <3>5. map'[CountAt(type, t)] = Cardinality(Visited(t)')
      BY <2>1, <3>1, <3>2, <3>4
    <3> QED BY <2>1, <3>1, <3>3, <3>5
  <2>3. CASE t # t0
    BY <1>1, <1>3, <1>6, <2>1, <2>3, OtherTracksKept
  <2> QED BY <2>2, <2>3
<1> QED BY <1>1, <1>8, <1>9 DEF CellsKept, Skipped, Marked, OnTrack

(* Every step keeps the counts. *)
LEMMA CountsStep == CountsInv /\ [Next]_vars => CountsInv'
<1> SUFFICES ASSUME CountsInv, [Next]_vars PROVE CountsInv'
  OBVIOUS
<1>1. FormatInv'
  BY FormatStep DEF CountsInv
<1>2. CASE ClearMap
  BY <1>1, <1>2, ClearCounts DEF CountsInv
<1>3. CASE FreeNext
  BY <1>1, <1>3, FreeCounts DEF CountsInv
<1>4. CASE AllocOwn
  BY <1>1, <1>4, AllocCounts DEF CountsInv
<1>5. ASSUME UNCHANGED <<type, map, ts, taken>>,
             phase' = phase \/ (phase = "alloc" /\ phase' = "done")
      PROVE  CountsInv'
  <2>1. \A t : /\ OnTrack(t)' = OnTrack(t) /\ (Skipped(t)' <=> Skipped(t))
              /\ Marked(map, t)' = Marked(map, t)
    BY <1>5 DEF OnTrack, Skipped, Marked
  <2>2. OwnBlocks' = OwnBlocks
    BY <1>5 DEF OwnBlocks
  <2>3. \A t : Visited(t)' = Visited(t)
    BY <1>5, <2>1, <2>2 DEF Visited
  <2>4. Bytes'
    BY <1>5 DEF CountsInv, Bytes
  <2>5. CellsKept'
    BY <1>5, <2>1, <2>3 DEF CountsInv, CellsKept
  <2> QED BY <1>1, <2>4, <2>5 DEF CountsInv
<1>6. CASE CountBlocks
  BY <1>5, <1>6 DEF CountBlocks
<1>7. CASE UNCHANGED vars
  BY <1>5, <1>7 DEF vars
<1> QED BY <1>2, <1>3, <1>4, <1>6, <1>7 DEF Next

(* What di_is_ts_free and the count say of a settled track. *)
LEMMA SettledIs ==
  ASSUME CountsInv, NEW t \in Settled
  PROVE  /\ t \in 1..Tracks(type) /\ FreeSectors(t) = Visited(t)
         /\ map[CountAt(type, t)] = Cardinality(Visited(t))
<1>1. Known /\ Cursor
  BY DEF CountsInv, FormatInv
<1>2. \/ phase = "done" /\ t \in 1..Tracks(type)
      \/ phase = "free" /\ ts.sector = 0 /\ t = ts.track - 1 /\ t # 0
  BY DEF Settled
<1>3. phase # "clear" /\ t \in 1..Tracks(type)
  <2>1. phase = "free" => ts.track \in 1..Tracks(type)
    BY <1>1 DEF Cursor
  <2>2. Tracks(type) \in Nat
    BY <1>1 DEF Known, ImageTypes, Tracks
  <2> QED BY <1>2, <2>1, <2>2
<1>4. /\ map[CountAt(type, t)] = Cardinality(Visited(t))
      /\ Visited(t) \subseteq Marked(map, t)
      /\ phase # "free" \/ Skipped(t) => Marked(map, t) = Visited(t)
  BY <1>3 DEF CountsInv, CellsKept
<1>5. Marked(map, t) = Visited(t)
  <2>1. CASE phase = "free" /\ ~Skipped(t)
    <3>1. t < ts.track
      BY <1>1, <1>2, <1>3, <2>1, Sizes DEF Known, Cursor
    <3>2. Visited(t) = OnTrack(t)
      BY <2>1, <3>1 DEF Visited
    <3> QED BY <1>4, <3>2 DEF Marked
  <2> QED BY <1>4, <2>1
<1>6. FreeSectors(t) = Marked(map, t)
  <2>1. TS(t, 0).track = t /\ \A s : TS(t, s).track = t
    BY DEF TS
  <2>2. ASSUME NEW s \in OnTrack(t), s \in Marked(map, t) PROVE map[CountAt(type, t)] # 0
    BY <1>1, <1>3, <1>4, <1>5, <2>2, VisitedIsFinite, FS_EmptySet
  <2>3. \A s \in OnTrack(t) : IsFree(map, TS(t, s)) <=> s \in Marked(map, t)
    BY <2>1, <2>2 DEF IsFree, Marked
  <2>4. FreeSectors(t) \subseteq OnTrack(t) /\ Marked(map, t) \subseteq OnTrack(t)
    BY DEF FreeSectors, Marked, OnTrack
  <2>5. \A s \in OnTrack(t) : s \in FreeSectors(t) <=> IsFree(map, TS(t, s))
    BY DEF FreeSectors, OnTrack
  <2> QED BY <2>3, <2>4, <2>5
<1> QED BY <1>3, <1>4, <1>5, <1>6

(* DiskFormat!CountsMatchBits: when a track has been gone through, and for *)
(* all of them when the format is over, the count is the number of the     *)
(* sectors whose bits say free, whatever bytes the image held before       *)
(* (di_free_ts, di_alloc_ts).                                              *)
THEOREM FormatCountsMatch == Spec => []CountsMatchBits
<1>1. CountsInv => CountsMatchBits
  BY SettledIs DEF CountsMatchBits
<1> QED BY <1>1, CountsInit, CountsStep, PTL DEF Spec

-----------------------------------------------------------------------------
(* Natural numbers: a set of them has a least one; induction, stated about *)
(* a set; and what follows from it, that a function can be iterated.       *)

(* A set of natural numbers that has a member has a least one. *)
LEMMA Least ==
  ASSUME NEW T \in SUBSET Nat, T # {}
  PROVE  \E n \in T : \A m \in T : n <= m
<1>1. \E x \in T : \A y \in T : ~(<<y, x>> \in OpToRel(<, Nat))
  BY NatLessThanWellFounded, WFMin
<1>2. PICK x \in T : \A y \in T : ~(<<y, x>> \in OpToRel(<, Nat))
  BY <1>1
<1>3. \A y \in T : <<y, x>> \in OpToRel(<, Nat) <=> y < x
  BY DEF OpToRel
<1>4. \A y \in T : ~(y < x)
  BY <1>2, <1>3
<1> HIDE DEF OpToRel
<1>5. x \in Nat /\ \A y \in T : y \in Nat
  OBVIOUS
<1> QED BY <1>4, <1>5

(* Induction. *)
LEMMA Induct ==
  ASSUME NEW S, 0 \in S, \A n \in Nat : n \in S => n + 1 \in S
  PROVE  Nat \subseteq S
<1> SUFFICES ASSUME Nat \ S # {} PROVE FALSE
  OBVIOUS
<1>1. PICK n \in Nat \ S : \A m \in Nat \ S : n <= m
  BY Least
<1>2. n # 0 /\ n - 1 \in Nat
  BY <1>1
<1>3. n - 1 \in S BY <1>1, <1>2
<1> QED BY <1>1, <1>2, <1>3

(* f are the iterates of step, which is in [S -> S], from s on. *)
IsIteration(f, S, step, s) ==
  f \in [Nat -> S] /\ f[0] = s /\ \A n \in Nat : f[n + 1] = step[f[n]]

(* A function from S to S can be iterated from any member of S. *)
LEMMA Iterates ==
  ASSUME NEW S, NEW step \in [S -> S], NEW s \in S
  PROVE  \E f : IsIteration(f, S, step, s)
<1> DEFINE Upto(n, g) == /\ g \in [0..n -> S] /\ g[0] = s
                         /\ \A i \in 0..(n - 1) : g[i + 1] = step[g[i]]
           Reached == {n \in Nat : \E g : Upto(n, g)}
<1>1. Nat \subseteq Reached
  <2>1. 0 \in Reached
    <3>1. Upto(0, [i \in 0..0 |-> s])
      OBVIOUS
    <3> QED BY <3>1
  <2>2. ASSUME NEW n \in Nat, n \in Reached PROVE n + 1 \in Reached
    <3>1. PICK g : Upto(n, g)
      BY <2>2
    <3> DEFINE h == [i \in 0..(n + 1) |-> IF i = n + 1 THEN step[g[n]] ELSE g[i]]
    <3>2. g[n] \in S /\ step[g[n]] \in S
      BY <3>1
    <3>3. h \in [0..(n + 1) -> S]
      BY <3>1, <3>2
    <3>4. h[0] = s
      BY <3>1
    <3>5. \A i \in 0..n : h[i + 1] = step[h[i]]
      BY <3>1
    <3>6. Upto(n + 1, h)
      BY <3>3, <3>4, <3>5
    <3> HIDE DEF h, Upto
    <3> QED BY <3>6
  <2> HIDE DEF Reached
  <2> QED BY <2>1, <2>2, Induct
<1>2. ASSUME NEW m \in Nat, NEW n \in Nat, NEW g, NEW h, Upto(m, g), Upto(n, h)
      PROVE  \A i \in Nat : i <= m /\ i <= n => g[i] = h[i]
  <2> DEFINE Same == {i \in Nat : i <= m /\ i <= n => g[i] = h[i]}
  <2>1. 0 \in Same
    BY <1>2
  <2>2. ASSUME NEW i \in Nat, i \in Same PROVE i + 1 \in Same
    <3>1. SUFFICES ASSUME i + 1 <= m, i + 1 <= n PROVE g[i + 1] = h[i + 1]
      OBVIOUS
    <3>2. g[i] = h[i] /\ i \in 0..(m - 1) /\ i \in 0..(n - 1)
      BY <2>2, <3>1
    <3> QED BY <3>2, <1>2
  <2>3. Nat \subseteq Same
    <3> HIDE DEF Same
    <3> QED BY <2>1, <2>2, Induct
  <2> QED BY <2>3
<1> DEFINE some(n) == CHOOSE g : Upto(n, g)
           f == [n \in Nat |-> some(n)[n]]
<1>3. \A n \in Nat : Upto(n, some(n))
  BY <1>1
<1>4. f \in [Nat -> S]
  <2>1. ASSUME NEW n \in Nat PROVE some(n)[n] \in S
    <3> HIDE DEF some
    <3>1. Upto(n, some(n)) /\ n \in 0..n
      BY <1>3
    <3> QED BY <3>1
  <2> HIDE DEF some
  <2> QED BY <2>1
<1>5. f[0] = s
  BY <1>3
<1>6. ASSUME NEW n \in Nat PROVE f[n + 1] = step[f[n]]
  <2>1. Upto(n, some(n)) /\ Upto(n + 1, some(n + 1))
    <3> HIDE DEF some, Upto
    <3> QED BY <1>3
  <2>2. some(n)[n] = some(n + 1)[n]
    <3> HIDE DEF some, Upto
    <3> QED BY <2>1, <1>2
  <2>3. some(n + 1)[n + 1] = step[some(n + 1)[n]]
    <3> HIDE DEF some
    <3> QED BY <2>1
  <2>4. f[n + 1] = some(n + 1)[n + 1] /\ f[n] = some(n)[n]
    <3> HIDE DEF some
    <3> QED OBVIOUS
  <2> QED BY <2>2, <2>3, <2>4
<1> HIDE DEF f
<1> QED BY <1>4, <1>5, <1>6 DEF IsIteration

-----------------------------------------------------------------------------
(* Sums. *)

Some(T) == CHOOSE x \in T : TRUE

(* What MapThenSumSet builds on the subsets of T. *)
Recurses(h, T, g) ==
  h = [U \in SUBSET T |-> IF U = {} THEN 0 ELSE g[Some(U)] + h[U \ {Some(U)}]]

(* h is the sum of g over the subsets of S, in whichever order. *)
SumsUp(h, S, g) ==
  /\ h \in [SUBSET S -> Nat] /\ h[{}] = 0
  /\ \A T \in SUBSET S : \A x \in T : h[T] = g[x] + h[T \ {x}]

(* Some is a choice. *)
LEMMA SomeIsOf ==
  ASSUME NEW T, T # {}
  PROVE  Some(T) \in T
BY DEF Some

(* h is the sum of g over the subsets of S, taken in the order of Some. *)
SumsInOrder(h, S, g) ==
  /\ h \in [SUBSET S -> Nat] /\ h[{}] = 0
  /\ \A T \in SUBSET S : T # {} => h[T] = g[Some(T)] + h[T \ {Some(T)}]

(* There is a function that recurses as MapThenSumSet does. *)
LEMMA RecursionExists ==
  ASSUME NEW S, IsFiniteSet(S), NEW g \in [S -> Nat]
  PROVE  \E h : SumsInOrder(h, S, g)
<1> DEFINE F == [SUBSET S -> Nat]
           next(h) == [T \in SUBSET S |-> IF T = {} THEN 0 ELSE g[Some(T)] + h[T \ {Some(T)}]]
           step == [h \in F |-> next(h)]
           zero == [T \in SUBSET S |-> 0]
<1>1. step \in [F -> F] /\ zero \in F
  <2>1. ASSUME NEW h \in F PROVE next(h) \in F
    <3>1. ASSUME NEW T \in SUBSET S, T # {} PROVE g[Some(T)] + h[T \ {Some(T)}] \in Nat
      BY <3>1, SomeIsOf
    <3> QED BY <3>1
  <2> HIDE DEF next
  <2>2. zero \in F
    OBVIOUS
  <2> HIDE DEF F
  <2> QED BY <2>1, <2>2
<1>2. PICK r : IsIteration(r, F, step, zero)
  <2> HIDE DEF F, step, zero
  <2> QED BY <1>1, Iterates
<1>3. /\ r \in [Nat -> F] /\ \A n \in Nat : r[n + 1] = next(r[n])
      /\ r[0] = zero
  <2> HIDE DEF F, next, zero
  <2>1. r \in [Nat -> F] /\ r[0] = zero /\ \A n \in Nat : r[n + 1] = step[r[n]]
    <3> HIDE DEF step
    <3> QED BY <1>2 DEF IsIteration
  <2> QED BY <2>1
<1> DEFINE h == [T \in SUBSET S |-> r[Cardinality(T)][T]]
<1>4. \A T \in SUBSET S : IsFiniteSet(T) /\ Cardinality(T) \in Nat
  BY FS_Subset, FS_CardinalityType
<1>5. h \in [SUBSET S -> Nat]
  BY <1>3, <1>4
<1>6. h[{}] = 0
  BY <1>3, FS_EmptySet
<1>7. ASSUME NEW T \in SUBSET S, T # {}
      PROVE  h[T] = g[Some(T)] + h[T \ {Some(T)}]
  <2> DEFINE n == Cardinality(T) - 1
             U == T \ {Some(T)}
  <2>1. n \in Nat /\ Cardinality(T) = n + 1 /\ Cardinality(U) = n /\ U \in SUBSET S
    <3> HIDE DEF n, U
    <3>1. IsFiniteSet(T) /\ Cardinality(T) \in Nat /\ Some(T) \in T
      BY <1>4, <1>7, SomeIsOf
    <3>2. Cardinality(T) # 0
      BY <3>1, <1>7, FS_EmptySet
    <3>3. n \in Nat /\ Cardinality(T) = n + 1
      BY <3>1, <3>2 DEF n
    <3>4. Cardinality(U) = Cardinality(T) - 1
      BY <3>1, FS_RemoveElement DEF U
    <3>5. U \in SUBSET S
      BY DEF U
    <3> QED BY <3>3, <3>4, <3>5
  <2>2. h[T] = r[n + 1][T] /\ h[U] = r[n][U]
    <3> HIDE DEF n, U
    <3> QED BY <2>1
  <2>3. r[n + 1] = next(r[n])
    <3> HIDE DEF n, next
    <3> QED BY <1>3, <2>1
  <2>4. next(r[n])[T] = g[Some(T)] + r[n][U]
    <3> HIDE DEF n
    <3> QED BY <1>7
  <2> HIDE DEF h, n, next
  <2> QED BY <2>2, <2>3, <2>4
<1> HIDE DEF h
<1> QED BY <1>5, <1>6, <1>7 DEF SumsInOrder

(* g has a sum, and it is the same in whichever order it is taken. *)
LEMMA SumExists ==
  ASSUME NEW S, IsFiniteSet(S), NEW g \in [S -> Nat]
  PROVE  \E h : SumsUp(h, S, g)
<1>0. PICK h : SumsInOrder(h, S, g)
  BY RecursionExists
<1>1. /\ h \in [SUBSET S -> Nat] /\ h[{}] = 0
      /\ \A T \in SUBSET S : T # {} => h[T] = g[Some(T)] + h[T \ {Some(T)}]
  BY <1>0 DEF SumsInOrder
<1> DEFINE Any(T) == \A x \in T : h[T] = g[x] + h[T \ {x}]
           Good == {n \in Nat : \A T \in SUBSET S : Cardinality(T) = n => Any(T)}
<1>2. \A T \in SUBSET S : IsFiniteSet(T) /\ Cardinality(T) \in Nat
  BY FS_Subset, FS_CardinalityType
<1>3. 0 \in Good
  <2>1. \A T \in SUBSET S : Cardinality(T) = 0 => T = {}
    BY <1>2, FS_EmptySet
  <2> QED BY <2>1
<1>4. ASSUME NEW n \in Nat, n \in Good PROVE n + 1 \in Good
  <2> SUFFICES ASSUME NEW T \in SUBSET S, Cardinality(T) = n + 1, NEW x \in T
               PROVE  h[T] = g[x] + h[T \ {x}]
    OBVIOUS
  <2> DEFINE c == Some(T)
  <2>1. T # {} /\ c \in T
    BY SomeIsOf
  <2>2. h[T] = g[c] + h[T \ {c}]
    BY <1>1, <2>1
  <2> HIDE DEF c
  <2>3. CASE x # c
    <3>1. Cardinality(T \ {c}) = n /\ Cardinality(T \ {x}) = n
      <4>1. IsFiniteSet(T) /\ Cardinality(T) - 1 = n
        BY <1>2
      <4>2. Cardinality(T \ {c}) = Cardinality(T) - 1
        BY <4>1, <2>1, FS_RemoveElement
      <4>3. Cardinality(T \ {x}) = Cardinality(T) - 1
        BY <4>1, FS_RemoveElement
      <4> QED BY <4>1, <4>2, <4>3
    <3>2. Any(T \ {c}) /\ Any(T \ {x})
      BY <1>4, <3>1
    <3>3. h[T \ {c}] = g[x] + h[(T \ {c}) \ {x}] /\ h[T \ {x}] = g[c] + h[(T \ {x}) \ {c}]
      BY <2>1, <2>3, <3>2
    <3>4. (T \ {c}) \ {x} = (T \ {x}) \ {c} /\ (T \ {x}) \ {c} \in SUBSET S
      OBVIOUS
    <3> DEFINE both == h[(T \ {x}) \ {c}]
    <3>5. g[c] \in Nat /\ g[x] \in Nat /\ both \in Nat
      BY <1>1, <2>1
    <3>6. h[T \ {c}] = g[x] + both /\ h[T \ {x}] = g[c] + both
      BY <3>3, <3>4
    <3>7. h[T] = g[c] + (g[x] + both)
      BY <2>2, <3>6
    <3>8. g[c] + (g[x] + both) = g[x] + (g[c] + both)
      <4> HIDE DEF both
      <4> QED BY <3>5
    <3> HIDE DEF both
    <3> QED BY <3>6, <3>7, <3>8
  <2> QED BY <2>2, <2>3
<1>5. \A T \in SUBSET S : Any(T)
  <2>1. Nat \subseteq Good
    <3> HIDE DEF Good
    <3> QED BY <1>3, <1>4, Induct
  <2> HIDE DEF Any
  <2> QED BY <1>2, <2>1
<1> QED BY <1>1, <1>5 DEF SumsUp

(* What MapThenSumSet computes over a part of S. *)
LEMMA SumIs ==
  ASSUME NEW S, IsFiniteSet(S), NEW g \in [S -> Nat], NEW h, SumsUp(h, S, g), NEW T \in SUBSET S
  PROVE  (CHOOSE f : Recurses(f, T, g))[T] = h[T]
<1>1. Recurses([U \in SUBSET T |-> h[U]], T, g)
  <2>1. ASSUME NEW U \in SUBSET T, U # {}
        PROVE  h[U] = g[Some(U)] + [V \in SUBSET T |-> h[V]][U \ {Some(U)}]
    BY <2>1, SomeIsOf DEF SumsUp
  <2> QED BY <2>1 DEF SumsUp, Recurses
<1>2. PICK f : f = (CHOOSE r : Recurses(r, T, g)) /\ Recurses(f, T, g)
  BY <1>1
<1> DEFINE Good == {n \in Nat : \A U \in SUBSET T : Cardinality(U) = n => f[U] = h[U]}
<1>3. \A U \in SUBSET T : IsFiniteSet(U) /\ Cardinality(U) \in Nat
  BY FS_Subset, FS_CardinalityType
<1>4. 0 \in Good
  <2>1. \A U \in SUBSET T : Cardinality(U) = 0 => U = {}
    BY <1>3, FS_EmptySet
  <2>2. f[{}] = 0 /\ h[{}] = 0
    BY <1>2 DEF Recurses, SumsUp
  <2> QED BY <2>1, <2>2
<1>5. ASSUME NEW n \in Nat, n \in Good PROVE n + 1 \in Good
  <2> SUFFICES ASSUME NEW U \in SUBSET T, Cardinality(U) = n + 1 PROVE f[U] = h[U]
    OBVIOUS
  <2>1. U # {} /\ Some(U) \in U
    BY SomeIsOf, FS_EmptySet
  <2>2. Cardinality(U \ {Some(U)}) = n
    BY <1>3, <2>1, FS_RemoveElement
  <2>3. f[U \ {Some(U)}] = h[U \ {Some(U)}]
    BY <1>5, <2>2
  <2>4. f[U] = g[Some(U)] + f[U \ {Some(U)}]
    BY <1>2, <2>1 DEF Recurses
  <2> QED BY <2>1, <2>3, <2>4 DEF SumsUp
<1>6. Nat \subseteq Good
  <2> HIDE DEF Good
  <2> QED BY <1>4, <1>5, Induct
<1> QED BY <1>2, <1>3, <1>6

-----------------------------------------------------------------------------
(* What a format counts. *)

AllTracks == 1..Tracks(type)

Counts == [t \in AllTracks |-> map[CountAt(type, t)]]

(* blocks_free adds up the counts of all tracks but the directory's. *)
LEMMA BlocksFreeIs ==
  ASSUME NEW h, SumsUp(h, AllTracks, Counts), Counts \in [AllTracks -> Nat],
         IsFiniteSet(AllTracks)
  PROVE  BlocksFree(map) = h[AllTracks \ {DirBlock(type).track}]
<1> DEFINE T == AllTracks \ {DirBlock(type).track}
           R(f) == f = [U \in SUBSET T |->
                          IF U = {} THEN 0
                          ELSE map[CountAt(type, CHOOSE x \in U : TRUE)]
                               + f[U \ {CHOOSE x \in U : TRUE}]]
<1>1. BlocksFree(map) = (CHOOSE f : R(f))[T]
  BY Zenon DEF BlocksFree, MapThenSumSet, MapThenFoldSet, AllTracks
<1>2. \A f : R(f) <=> Recurses(f, T, Counts)
  <2> SUFFICES ASSUME NEW f PROVE R(f) <=> Recurses(f, T, Counts)
    OBVIOUS
  <2>1. ASSUME NEW U \in SUBSET T, U # {} PROVE Counts[Some(U)] = map[CountAt(type, Some(U))]
    BY <2>1, SomeIsOf DEF Counts
  <2> QED BY <2>1 DEF Recurses, Some
<1>3. (CHOOSE f : R(f)) = (CHOOSE f : Recurses(f, T, Counts))
  <2> HIDE DEF R
  <2> QED BY <1>2
<1>4. (CHOOSE f : Recurses(f, T, Counts))[T] = h[T]
  <2>1. T \in SUBSET AllTracks OBVIOUS
  <2> HIDE DEF T
  <2> QED BY <2>1, SumIs
<1> QED BY <1>1, <1>3, <1>4

(* The blocks of the tracks alloc_next_ts searches, added up in the same way. *)
LEMMA TakableIs ==
  ASSUME NEW h, SumsUp(h, AllTracks, Counts), Counts \in [AllTracks -> Nat],
         IsFiniteSet(AllTracks),
         \A t \in AllTracks : Counts[t] = Cardinality(FreeSectors(t))
  PROVE  MapThenSumSet(LAMBDA t : Cardinality(FreeSectors(t)), (1..Tracks(type)) \ Reserved(type))
           = h[AllTracks \ Reserved(type)]
<1> DEFINE T == AllTracks \ Reserved(type)
           R(f) == f = [U \in SUBSET T |->
                          IF U = {} THEN 0
                          ELSE Cardinality(FreeSectors(CHOOSE x \in U : TRUE))
                               + f[U \ {CHOOSE x \in U : TRUE}]]
<1>1. MapThenSumSet(LAMBDA t : Cardinality(FreeSectors(t)), (1..Tracks(type)) \ Reserved(type))
        = (CHOOSE f : R(f))[T]
  BY Zenon DEF MapThenSumSet, MapThenFoldSet, AllTracks
<1>2. \A f : R(f) <=> Recurses(f, T, Counts)
  <2> SUFFICES ASSUME NEW f PROVE R(f) <=> Recurses(f, T, Counts)
    OBVIOUS
  <2> DEFINE Q(U) == Cardinality(FreeSectors(Some(U)))
  <2>1. ASSUME NEW U \in SUBSET T, U # {} PROVE Counts[Some(U)] = Q(U)
    BY <2>1, SomeIsOf
  <2>2. R(f) <=> f = [U \in SUBSET T |-> IF U = {} THEN 0 ELSE Q(U) + f[U \ {Some(U)}]]
    BY Zenon DEF Some
  <2> HIDE DEF Q, R
  <2> QED BY <2>1, <2>2 DEF Recurses
<1>3. (CHOOSE f : R(f)) = (CHOOSE f : Recurses(f, T, Counts))
  <2> HIDE DEF R
  <2> QED BY <1>2
<1>4. (CHOOSE f : Recurses(f, T, Counts))[T] = h[T]
  <2>1. T \in SUBSET AllTracks OBVIOUS
  <2> HIDE DEF T
  <2> QED BY <2>1, SumIs
<1> QED BY <1>1, <1>3, <1>4

PromiseInv ==
  /\ CountsInv
  /\ phase = "done" => blocksfree = BlocksFree(map) /\ taken = Len(OwnBlocks)

(* blocks_free depends on the type and the map alone. *)
Adds(ty, m) ==
  MapThenSumSet(LAMBDA t : m[CountAt(ty, t)], (1..Tracks(ty)) \ {DirBlock(ty).track})

LEMMA BlocksFreeKept ==
  ASSUME type' = type, map' = map
  PROVE  BlocksFree(map)' = BlocksFree(map)
<1>1. BlocksFree(map) = Adds(type, map)
  BY Zenon DEF BlocksFree, Adds
<1>2. BlocksFree(map)' = Adds(type', map')
  BY Zenon DEF BlocksFree, Adds, MapThenSumSet, MapThenFoldSet
<1> QED BY <1>1, <1>2

(* blocksfree is only looked at when the format is over. *)
LEMMA PromiseInit == Init => PromiseInv
BY CountsInit DEF Init, PromiseInv

(* Every step keeps it. *)
LEMMA PromiseStep == PromiseInv /\ [Next]_vars => PromiseInv'
<1> SUFFICES ASSUME PromiseInv, [Next]_vars PROVE PromiseInv'
  OBVIOUS
<1>1. CountsInv'
  BY CountsStep DEF PromiseInv
<1>2. CASE ClearMap
  BY <1>1, <1>2 DEF PromiseInv, ClearMap
<1>3. CASE FreeNext
  BY <1>1, <1>3 DEF PromiseInv, FreeNext
<1>4. CASE AllocOwn
  BY <1>1, <1>4 DEF PromiseInv, AllocOwn
<1>5. CASE CountBlocks
  <2>1. BlocksFree(map)' = BlocksFree(map) /\ OwnBlocks' = OwnBlocks
    BY <1>5, BlocksFreeKept DEF CountBlocks, OwnBlocks
  <2> QED BY <1>1, <1>5, <2>1 DEF PromiseInv, CountBlocks
<1>6. CASE UNCHANGED vars
  <2>1. BlocksFree(map)' = BlocksFree(map) /\ OwnBlocks' = OwnBlocks
    BY <1>6, BlocksFreeKept DEF vars, OwnBlocks
  <2> QED BY <1>1, <1>6, <2>1 DEF PromiseInv, vars
<1> QED BY <1>2, <1>3, <1>4, <1>5, <1>6 DEF Next

(* Tracks 39 and 50 of a D80 have as many free blocks: the one is two      *)
(* sectors longer, and two of them are the format's own.                   *)
LEMMA D80TracksAlike ==
  ASSUME type = "D80", phase = "done", taken = Len(OwnBlocks)
  PROVE  Cardinality(Visited(39)) = 27 /\ Cardinality(Visited(50)) = 27
<1>1. OwnBlocks = <<TS(38, 0), TS(38, 3), TS(39, 0), TS(39, 1)>> /\ taken = 4
  BY DEF OwnBlocks
<1>2. SectorsPerTrack(type, 39) = 29 /\ SectorsPerTrack(type, 50) = 27
  BY DEF SectorsPerTrack, Sectors8050, Zone8050, Zone
<1>3. ASSUME NEW t, NEW s
      PROVE  (\A k \in 1..taken : OwnBlocks[k] # TS(t, s)) <=>
               /\ TS(38, 0) # TS(t, s) /\ TS(38, 3) # TS(t, s)
               /\ TS(39, 0) # TS(t, s) /\ TS(39, 1) # TS(t, s)
  BY <1>1
<1>4. \A t : Visited(t) = {s \in OnTrack(t) : \A k \in 1..taken : OwnBlocks[k] # TS(t, s)}
  BY DEF Visited, Skipped
<1>5. \A t \in {39, 50} : /\ IsFiniteSet(OnTrack(t))
                          /\ Cardinality(OnTrack(t)) = SectorsPerTrack(type, t)
                          /\ 0 \in OnTrack(t) /\ 1 \in OnTrack(t)
  <2> SUFFICES ASSUME NEW t \in {39, 50}
               PROVE  /\ IsFiniteSet(OnTrack(t))
                      /\ Cardinality(OnTrack(t)) = SectorsPerTrack(type, t)
                      /\ 0 \in OnTrack(t) /\ 1 \in OnTrack(t)
    OBVIOUS
  <2> DEFINE n == SectorsPerTrack(type, t) - 1
  <2>1. n \in Nat /\ n >= 1 /\ SectorsPerTrack(type, t) = n + 1
    BY <1>2
  <2>2. OnTrack(t) = 0..n
    BY DEF OnTrack
  <2> HIDE DEF n
  <2>3. IsFiniteSet(0..n) /\ Cardinality(0..n) = IF 0 > n THEN 0 ELSE n - 0 + 1
    BY <2>1, FS_Interval
  <2> QED BY <2>1, <2>2, <2>3
<1>6. Visited(39) = (OnTrack(39) \ {0}) \ {1}
  <2>1. \A s : (\A k \in 1..taken : OwnBlocks[k] # TS(39, s)) <=> s # 0 /\ s # 1
    BY <1>3 DEF TS
  <2> QED BY Zenon, <1>4, <2>1
<1>7. Visited(50) = OnTrack(50)
  <2>1. \A s : \A k \in 1..taken : OwnBlocks[k] # TS(50, s)
    BY <1>3 DEF TS
  <2> QED BY Zenon, <1>4, <2>1
<1>8. Cardinality((OnTrack(39) \ {0}) \ {1}) = 27
  <2> DEFINE T == OnTrack(39) \ {0}
  <2>1. IsFiniteSet(OnTrack(39)) /\ 0 \in OnTrack(39) /\ 1 \in T
    BY <1>5
  <2>2. IsFiniteSet(T) /\ Cardinality(T) = Cardinality(OnTrack(39)) - 1
    BY <2>1, FS_RemoveElement
  <2> HIDE DEF T
  <2>3. Cardinality(T \ {1}) = Cardinality(T) - 1
    BY <2>1, <2>2, FS_RemoveElement
  <2>4. Cardinality(T \ {1}) = 27
    BY <1>2, <1>5, <2>2, <2>3
  <2> QED BY <2>4 DEF T
<1> QED BY <1>2, <1>5, <1>6, <1>7, <1>8

(* DiskFormat!BlocksFreeMatchesBits: after a format blocksfree, which is   *)
(* all di_write looks at, is the number of free bits on the tracks that    *)
(* alloc_next_ts does not pass over, although on a D80 blocks_free leaves  *)
(* out others.  It says nothing of whether the search finds those blocks.  *)
THEOREM FormatBlocksFree == Spec => []BlocksFreeMatchesBits
<1>1. PromiseInv => BlocksFreeMatchesBits
  <2> SUFFICES ASSUME PromiseInv, phase = "done"
               PROVE  blocksfree = MapThenSumSet(LAMBDA t : Cardinality(FreeSectors(t)),
                                                 (1..Tracks(type)) \ Reserved(type))
    BY DEF BlocksFreeMatchesBits
  <2>1. CountsInv /\ Known /\ blocksfree = BlocksFree(map) /\ taken = Len(OwnBlocks)
    BY DEF PromiseInv, CountsInv, FormatInv
  <2>2. \A t \in AllTracks : /\ Counts[t] = Cardinality(FreeSectors(t))
                             /\ Counts[t] = Cardinality(Visited(t)) /\ Counts[t] \in Nat
    <3> SUFFICES ASSUME NEW t \in AllTracks
                 PROVE  /\ Counts[t] = Cardinality(FreeSectors(t))
                        /\ Counts[t] = Cardinality(Visited(t)) /\ Counts[t] \in Nat
      OBVIOUS
    <3>1. t \in Settled
      BY DEF Settled, AllTracks
    <3>2. FreeSectors(t) = Visited(t) /\ map[CountAt(type, t)] = Cardinality(Visited(t))
      BY <2>1, <3>1, SettledIs
    <3>3. Cardinality(Visited(t)) \in 0..40
      BY <2>1, VisitedIsFinite DEF AllTracks
    <3> QED BY <3>2, <3>3 DEF Counts
  <2>3. Counts \in [AllTracks -> Nat] /\ IsFiniteSet(AllTracks)
    <3>1. Tracks(type) \in Nat
      BY <2>1 DEF Known, ImageTypes, Tracks
    <3>2. IsFiniteSet(AllTracks)
      BY <3>1, FS_Interval DEF AllTracks
    <3>3. Counts \in [AllTracks -> Nat]
      <4> HIDE DEF AllTracks
      <4>1. Counts = [t \in AllTracks |-> Counts[t]]
        BY DEF Counts
      <4> QED BY <2>2, <4>1
    <3> QED BY <3>2, <3>3
  <2>4. PICK h : SumsUp(h, AllTracks, Counts)
    BY <2>3, SumExists
  <2>5. h[AllTracks \ {DirBlock(type).track}] = h[AllTracks \ Reserved(type)]
    <3>1. CASE type \in {"D64", "D81"}
      BY <3>1 DEF DirBlock, Reserved, TS
    <3>2. CASE type = "D71"
      <4>1. DirBlock(type).track = 18 /\ Reserved(type) = {18, 53} /\ AllTracks = 1..70
        BY <3>2 DEF DirBlock, Reserved, TS, AllTracks, Tracks
      <4>2. Counts[53] = 0
        BY <2>2, <3>2, <4>1, FS_EmptySet DEF Visited, Skipped
      <4> DEFINE T == AllTracks \ {18}
      <4>3. T \in SUBSET AllTracks /\ 53 \in T /\ T \ {53} = AllTracks \ {18, 53}
        BY <4>1
      <4>4. h[T] = Counts[53] + h[T \ {53}] /\ h[T \ {53}] \in Nat
        BY <2>4, <4>3 DEF SumsUp
      <4> QED BY <4>1, <4>2, <4>3, <4>4
    <3>3. CASE type = "D80"
      <4>1. DirBlock(type).track = 39 /\ Reserved(type) = {50} /\ AllTracks = 1..77
        BY <3>3 DEF DirBlock, Reserved, TS, AllTracks, Tracks
      <4>2. Counts[39] = 27 /\ Counts[50] = 27
        BY <2>1, <2>2, <3>3, <4>1, D80TracksAlike
      <4>3. \A t \in {39, 50} : h[AllTracks] = Counts[t] + h[AllTracks \ {t}]
                                /\ h[AllTracks \ {t}] \in Nat
        BY <2>4, <4>1 DEF SumsUp
      <4> DEFINE a == h[AllTracks \ {39}]
                 b == h[AllTracks \ {50}]
      <4>4. 27 + a = 27 + b /\ a \in Nat /\ b \in Nat
        BY <4>2, <4>3
      <4>5. a = b
        <5> HIDE DEF a, b
        <5> QED BY <4>4
      <4> QED BY <4>1, <4>5
    <3> QED BY <2>1, <3>1, <3>2, <3>3 DEF Known, ImageTypes
  <2>6. BlocksFree(map) = h[AllTracks \ {DirBlock(type).track}]
    BY <2>3, <2>4, BlocksFreeIs
  <2>7. MapThenSumSet(LAMBDA t : Cardinality(FreeSectors(t)), (1..Tracks(type)) \ Reserved(type))
          = h[AllTracks \ Reserved(type)]
    BY <2>2, <2>3, <2>4, TakableIs
  <2> QED BY Zenon, <2>1, <2>5, <2>6, <2>7
<1> QED BY <1>1, PromiseInit, PromiseStep, PTL DEF Spec

TypeInv ==
  /\ PromiseInv
  /\ type \in Types
  /\ phase # "done" => blocksfree = 0

(* At the end blocksfree is a sum of counts. *)
LEMMA BlocksFreeIsNat ==
  ASSUME CountsInv, phase # "clear"
  PROVE  BlocksFree(map) \in Nat
<1>1. Known
  BY DEF CountsInv, FormatInv
<1>2. Tracks(type) \in Nat
  BY <1>1 DEF Known, ImageTypes, Tracks
<1>3. IsFiniteSet(AllTracks)
  BY <1>2, FS_Interval DEF AllTracks
<1>4. \A t \in AllTracks : Counts[t] \in Nat
  <2> SUFFICES ASSUME NEW t \in AllTracks PROVE Counts[t] \in Nat
    OBVIOUS
  <2>1. map[CountAt(type, t)] = Cardinality(Visited(t))
    BY DEF CountsInv, CellsKept, AllTracks
  <2>2. Cardinality(Visited(t)) \in 0..40
    BY <1>1, VisitedIsFinite DEF AllTracks
  <2> QED BY <2>1, <2>2 DEF Counts
<1>5. Counts \in [AllTracks -> Nat]
  <2> HIDE DEF AllTracks
  <2>1. Counts = [t \in AllTracks |-> Counts[t]]
    BY DEF Counts
  <2> QED BY <1>4, <2>1
<1>6. PICK h : SumsUp(h, AllTracks, Counts)
  BY <1>3, <1>5, SumExists
<1>7. BlocksFree(map) = h[AllTracks \ {DirBlock(type).track}]
  BY <1>3, <1>5, <1>6, BlocksFreeIs
<1> QED BY <1>6, <1>7 DEF SumsUp

LEMMA TypesKept == TypeInv /\ [Next]_vars => TypeInv'
<1> SUFFICES ASSUME TypeInv, [Next]_vars PROVE TypeInv'
  OBVIOUS
<1>1. PromiseInv'
  BY PromiseStep DEF TypeInv
<1>2. type' = type
  BY DEF Next, ClearMap, FreeNext, AllocOwn, CountBlocks, vars
<1>3. phase' # "done" => phase # "done" /\ blocksfree' = blocksfree
  BY DEF Next, ClearMap, FreeNext, AllocOwn, CountBlocks, vars
<1> QED BY <1>1, <1>2, <1>3 DEF TypeInv

(* DiskFormat!TypeOK: the map's bytes stay bytes, the loop stays on the    *)
(* disk, and it passes no more blocks than the image has.                  *)
THEOREM FormatTypeCorrect == Spec => []TypeOK
<1>1. Init => TypeInv
  BY PromiseInit DEF Init, TypeInv
<1>2. TypeInv => TypeOK
  <2> SUFFICES ASSUME TypeInv PROVE TypeOK
    OBVIOUS
  <2>1. Known /\ Cursor /\ BlockNumbersAreDense /\ Bytes /\ CountsInv
    BY DEF TypeInv, PromiseInv, CountsInv, FormatInv
  <2>2. ASSUME phase \in {"clear", "free"}
        PROVE  /\ ts.track \in 1..Tracks(type) /\ ts = TS(ts.track, ts.sector)
               /\ ts.sector \in 0..(SectorsPerTrack(type, ts.track) - 1)
    <3>1. CASE phase = "free"
      BY <2>1, <3>1 DEF Cursor
    <3>2. CASE phase = "clear"
      <4>1. ts = TS(1, 0) /\ ts.track = 1 /\ ts.sector = 0
        BY <2>1, <3>2 DEF Cursor, TS
      <4>2. Tracks(type) \in Nat /\ 1 \in 1..Tracks(type)
        BY <2>1 DEF Known, ImageTypes, Tracks
      <4>3. SectorsPerTrack(type, 1) \in 17..40
        BY <2>1, <4>2, Sizes DEF Known
      <4> QED BY <4>1, <4>2, <4>3
    <3> QED BY <2>2, <3>1, <3>2
  <2>3. phase \in {"clear", "free"} => TsIsValid(type, ts)
    <3> SUFFICES ASSUME phase \in {"clear", "free"} PROVE TsIsValid(type, ts)
      OBVIOUS
    <3>1. Tracks(type) \in Nat /\ SectorsPerTrack(type, ts.track) \in 17..40
      BY <2>1, <2>2, Sizes DEF Known
    <3> QED BY <2>2, <3>1 DEF TsIsValid
  <2>4. passed \in 0..Blocks(type)
    <3>0. Blocks(type) \in Nat
      BY <2>1 DEF Known, ImageTypes, Blocks
    <3>1. CASE phase = "clear"
      BY <2>1, <3>0, <3>1 DEF Cursor
    <3>2. CASE phase = "free"
      <4>1. ts \in ValidTS(type)
        <5>1. /\ Tracks(type) \in Nat /\ Tracks(type) <= 80
              /\ SectorsPerTrack(type, ts.track) \in 17..40
          BY <2>1, <2>2, <3>2, Sizes DEF Known
        <5>2. ts.track \in Byte /\ ts.sector \in Byte
          BY <2>2, <3>2, <5>1 DEF Byte
        <5>3. ts \in TrackSector
          BY <2>2, <3>2, <5>2 DEF TrackSector, TS
        <5> QED BY <2>3, <3>2, <5>3 DEF ValidTS
      <4>2. BlockNum(type, ts) \in 0..(Blocks(type) - 1)
        BY <2>1, <4>1, BlockNumInImage DEF Known
      <4> QED BY <2>1, <3>0, <3>2, <4>2 DEF BlockNumbersAreDense
    <3>3. CASE phase \in {"alloc", "done"}
      BY <2>1, <3>0, <3>3 DEF BlockNumbersAreDense
    <3> QED BY <2>1, <3>1, <3>2, <3>3 DEF Cursor
  <2>5. blocksfree \in Nat
    BY <2>1, BlocksFreeIsNat DEF TypeInv, PromiseInv
  <2>6. map \in [MapBytes -> Byte] /\ taken \in 0..Len(OwnBlocks) /\ type \in Types
        /\ phase \in {"clear", "free", "alloc", "done"}
    BY <2>1 DEF TypeInv, Cursor, Bytes
  <2> QED BY <2>3, <2>4, <2>5, <2>6 DEF TypeOK
<1> QED BY <1>1, <1>2, TypesKept, PTL DEF Spec
=============================================================================
