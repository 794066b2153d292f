------------------------- MODULE DiskGeometryProofs -------------------------
(***************************************************************************)
(* Proofs about the arithmetic of DiskGeometry.                            *)
(***************************************************************************)
EXTENDS DiskGeometry, TLAPS

(* The sizes are numbers, and a track has a sector at least. *)
LEMMA Sizes ==
  ASSUME NEW type \in ImageTypes, NEW t \in 1..Tracks(type)
  PROVE  /\ Tracks(type) \in Nat /\ Tracks(type) >= 35 /\ Tracks(type) <= 80
         /\ SectorsPerTrack(type, t) \in 17..40
         /\ Blocks(type) \in Nat
  BY DEF ImageTypes, Tracks, SectorsPerTrack, Sectors1541, Sectors8050,
         Zone1541, Zone8050, Zone, OnSide, Blocks

(* One side of a 1541 or 1571 disk: where a track begins, and that the     *)
(* next begins where it ends.                                              *)
LEMMA Side1541 ==
  ASSUME NEW t \in 1..35
  PROVE  /\ Base1541(t) \in Nat
         /\ Sectors1541(t) \in 17..21
         /\ Base1541(t) + Sectors1541(t) <= 683
         /\ t # 35 => Base1541(t + 1) = Base1541(t) + Sectors1541(t)
         /\ t = 35 => Base1541(t) + Sectors1541(t) = 683
         /\ Base1541(1) = 0
  BY DEF Base1541, Sectors1541, Zone1541, Zone

(* The same of an 8050 disk. *)
LEMMA Side8050 ==
  ASSUME NEW t \in 1..77
  PROVE  /\ Base8050(t) \in Nat
         /\ Sectors8050(t) \in 23..29
         /\ Base8050(t) + Sectors8050(t) <= 2083
         /\ t # 77 => Base8050(t + 1) = Base8050(t) + Sectors8050(t)
         /\ t = 77 => Base8050(t) + Sectors8050(t) = 2083
         /\ Base8050(1) = 0
  BY DEF Base8050, Sectors8050, Zone8050, Zone

(* The number of a track's first block; the number of any block is that    *)
(* and its sector.                                                         *)
TrackBase(type, t) == BlockNum(type, TS(t, 0))

LEMMA TrackBases ==
  ASSUME NEW type \in ImageTypes, NEW t \in 1..Tracks(type), NEW s \in Nat
  PROVE  /\ TrackBase(type, t) \in Nat
         /\ BlockNum(type, TS(t, s)) = TrackBase(type, t) + s
         /\ TrackBase(type, t) + SectorsPerTrack(type, t) <= Blocks(type)
         /\ t # Tracks(type) =>
              TrackBase(type, t + 1) = TrackBase(type, t) + SectorsPerTrack(type, t)
         /\ t = Tracks(type) =>
              TrackBase(type, t) + SectorsPerTrack(type, t) = Blocks(type)
         /\ TrackBase(type, 1) = 0
<1>1. CASE type = "D64"
  <2>1. Tracks(type) = 35 /\ Blocks(type) = 683 BY <1>1 DEF Tracks, Blocks
  <2>2. SectorsPerTrack(type, t) = Sectors1541(t) BY <1>1 DEF SectorsPerTrack
  <2>3. \A u, r : BlockNum(type, TS(u, r)) = r + Base1541(u) BY <1>1 DEF BlockNum, TS
  <2> QED BY <2>1, <2>2, <2>3, Side1541 DEF TrackBase
<1>2. CASE type = "D71"
  <2>1. Tracks(type) = 70 /\ Blocks(type) = 1366 BY <1>2 DEF Tracks, Blocks
  <2>2. SectorsPerTrack(type, t) = Sectors1541(OnSide(t)) BY <1>2 DEF SectorsPerTrack
  <2>3. \A u, r : BlockNum(type, TS(u, r)) =
                    r + (Base1541(OnSide(u)) + (IF u > 35 THEN 683 ELSE 0))
    BY <1>2 DEF BlockNum, TS
  <2>4. CASE t < 35
    BY <2>1, <2>2, <2>3, <2>4, Side1541 DEF TrackBase, OnSide
  <2>5. CASE t = 35
    BY <2>1, <2>2, <2>3, <2>5, Side1541 DEF TrackBase, OnSide
  <2>6. CASE t > 35
    <3>1. t - 35 \in 1..35 /\ OnSide(t) = t - 35 BY <2>1, <2>6 DEF OnSide
    <3>2. OnSide(t + 1) = (t - 35) + 1 BY <2>1, <2>6 DEF OnSide
    <3>3. OnSide(1) = 1 BY DEF OnSide
    <3> QED BY <2>1, <2>2, <2>3, <2>6, <3>1, <3>2, <3>3, Side1541 DEF TrackBase
  <2> QED BY <2>1, <2>4, <2>5, <2>6
<1>3. CASE type = "D80"
  <2>1. Tracks(type) = 77 /\ Blocks(type) = 2083 BY <1>3 DEF Tracks, Blocks
  <2>2. SectorsPerTrack(type, t) = Sectors8050(t) BY <1>3 DEF SectorsPerTrack
  <2>3. \A u, r : BlockNum(type, TS(u, r)) = r + Base8050(u) BY <1>3 DEF BlockNum, TS
  <2> QED BY <2>1, <2>2, <2>3, Side8050 DEF TrackBase
<1>4. CASE type = "D81"
  <2>1. Tracks(type) = 80 /\ Blocks(type) = 3200 BY <1>4 DEF Tracks, Blocks
  <2>2. SectorsPerTrack(type, t) = 40 BY <1>4 DEF SectorsPerTrack
  <2>3. \A u, r : BlockNum(type, TS(u, r)) = r + (u - 1) * 40 BY <1>4 DEF BlockNum, TS
  <2> QED BY <2>1, <2>2, <2>3 DEF TrackBase
<1> QED BY <1>1, <1>2, <1>3, <1>4 DEF ImageTypes

(* A later track begins where an earlier one ends, or after. *)
LEMMA Order1541 ==
  ASSUME NEW t \in 1..35, NEW u \in 1..35, t < u
  PROVE  Base1541(t) + Sectors1541(t) <= Base1541(u)
  BY DEF Base1541, Sectors1541, Zone1541, Zone

LEMMA Order8050 ==
  ASSUME NEW t \in 1..77, NEW u \in 1..77, t < u
  PROVE  Base8050(t) + Sectors8050(t) <= Base8050(u)
  BY DEF Base8050, Sectors8050, Zone8050, Zone

LEMMA TracksInOrder ==
  ASSUME NEW type \in ImageTypes,
         NEW t \in 1..Tracks(type), NEW u \in 1..Tracks(type), t < u
  PROVE  TrackBase(type, t) + SectorsPerTrack(type, t) <= TrackBase(type, u)
<1>1. CASE type = "D64"
  <2>1. t \in 1..35 /\ u \in 1..35 BY <1>1 DEF Tracks
  <2>2. SectorsPerTrack(type, t) = Sectors1541(t) BY <1>1 DEF SectorsPerTrack
  <2>3. \A v \in 1..35 : TrackBase(type, v) = Base1541(v)
    BY <1>1, Side1541 DEF TrackBase, BlockNum, TS
  <2> QED BY <2>1, <2>2, <2>3, Order1541
<1>2. CASE type = "D71"
  <2> DEFINE side(v) == IF v > 35 THEN 683 ELSE 0
  <2>1. t \in 1..70 /\ u \in 1..70 BY <1>2 DEF Tracks
  <2>2. SectorsPerTrack(type, t) = Sectors1541(OnSide(t)) BY <1>2 DEF SectorsPerTrack
  <2>3. \A v : BlockNum(type, TS(v, 0)) = 0 + (Base1541(OnSide(v)) + side(v))
    BY <1>2 DEF BlockNum, TS
  <2>4. \A v \in 1..70 : OnSide(v) \in 1..35 BY DEF OnSide
  <2>5. \A v \in 1..70 : TrackBase(type, v) = Base1541(OnSide(v)) + side(v)
    <3> HIDE DEF side
    <3>1. ASSUME NEW v \in 1..70 PROVE TrackBase(type, v) = Base1541(OnSide(v)) + side(v)
      <4>1. Base1541(OnSide(v)) \in Nat BY <2>4, Side1541
      <4>2. side(v) \in Nat BY DEF side
      <4>3. TrackBase(type, v) = 0 + (Base1541(OnSide(v)) + side(v)) BY <2>3 DEF TrackBase
      <4> QED BY <4>1, <4>2, <4>3
    <3> QED BY <3>1
  <2>6. Base1541(OnSide(t)) \in Nat /\ Base1541(OnSide(u)) \in Nat
    BY <2>1, <2>4, Side1541
  <2>7. Sectors1541(OnSide(t)) \in 17..21 /\ Base1541(OnSide(t)) + Sectors1541(OnSide(t)) <= 683
    BY <2>1, <2>4, Side1541
  <2>8. CASE t <= 35 /\ u > 35 BY <2>1, <2>2, <2>5, <2>6, <2>7, <2>8
  <2>9. CASE (t <= 35) <=> (u <= 35)
    <3>1. OnSide(t) < OnSide(u) BY <2>1, <2>9 DEF OnSide
    <3>2. Base1541(OnSide(t)) + Sectors1541(OnSide(t)) <= Base1541(OnSide(u))
      BY <2>1, <2>4, <3>1, Order1541
    <3>3. side(t) = side(u) BY <2>1, <2>9
    <3>4. side(t) \in Nat OBVIOUS
    <3> HIDE DEF side
    <3> QED BY <2>1, <2>2, <2>5, <2>6, <2>7, <3>2, <3>3, <3>4
  <2> QED BY <2>1, <2>8, <2>9
<1>3. CASE type = "D80"
  <2>1. t \in 1..77 /\ u \in 1..77 BY <1>3 DEF Tracks
  <2>2. SectorsPerTrack(type, t) = Sectors8050(t) BY <1>3 DEF SectorsPerTrack
  <2>3. \A v \in 1..77 : TrackBase(type, v) = Base8050(v)
    BY <1>3, Side8050 DEF TrackBase, BlockNum, TS
  <2> QED BY <2>1, <2>2, <2>3, Order8050
<1>4. CASE type = "D81"
  BY <1>4 DEF Tracks, SectorsPerTrack, TrackBase, BlockNum, TS
<1> QED BY <1>1, <1>2, <1>3, <1>4 DEF ImageTypes

(* A valid track and sector, taken apart. *)
LEMMA ValidParts ==
  ASSUME NEW type \in ImageTypes, NEW ts \in ValidTS(type)
  PROVE  /\ ts.track \in 1..Tracks(type)
         /\ ts.sector \in 0..(SectorsPerTrack(type, ts.track) - 1)
         /\ ts = TS(ts.track, ts.sector)
<1>1. ts \in TrackSector /\ TsIsValid(type, ts) BY DEF ValidTS
<1>2. ts.track \in Byte /\ ts.sector \in Byte /\ ts = TS(ts.track, ts.sector)
  BY <1>1 DEF TrackSector, TS
<1>3. Tracks(type) \in Nat BY DEF ImageTypes, Tracks
<1>4. ts.track \in 1..Tracks(type) BY <1>1, <1>2, <1>3 DEF TsIsValid, Byte
<1> QED BY <1>1, <1>2, <1>4, Sizes DEF TsIsValid, Byte

(* get_block_num of a valid track and sector lies in the image, so that    *)
(* di_get_ts_addr points into the buffer that holds it.                    *)
THEOREM BlockNumInImage ==
  ASSUME NEW type \in ImageTypes, NEW ts \in ValidTS(type)
  PROVE  BlockNum(type, ts) \in 0..(Blocks(type) - 1)
<1>1. /\ ts.track \in 1..Tracks(type)
      /\ ts.sector \in 0..(SectorsPerTrack(type, ts.track) - 1)
      /\ ts = TS(ts.track, ts.sector)
  BY ValidParts
<1>2. SectorsPerTrack(type, ts.track) \in 17..40 /\ Blocks(type) \in Nat BY <1>1, Sizes
<1>3. ts.sector \in Nat BY <1>1, <1>2
<1>4. /\ BlockNum(type, ts) = TrackBase(type, ts.track) + ts.sector
      /\ TrackBase(type, ts.track) \in Nat
      /\ TrackBase(type, ts.track) + SectorsPerTrack(type, ts.track) <= Blocks(type)
  BY <1>1, <1>3, TrackBases
<1> QED BY <1>1, <1>2, <1>3, <1>4

(* No two valid tracks and sectors have the same block: what is written to *)
(* one is never found at another (get_block_num).                          *)
THEOREM BlockNumInjective ==
  ASSUME NEW type \in ImageTypes, NEW x \in ValidTS(type), NEW y \in ValidTS(type),
         BlockNum(type, x) = BlockNum(type, y)
  PROVE  x = y
<1> DEFINE Parts(ts) ==
      /\ ts.track \in 1..Tracks(type)
      /\ ts.sector \in 0..(SectorsPerTrack(type, ts.track) - 1)
      /\ SectorsPerTrack(type, ts.track) \in 17..40
      /\ TrackBase(type, ts.track) \in Nat
      /\ BlockNum(type, ts) = TrackBase(type, ts.track) + ts.sector
      /\ ts = TS(ts.track, ts.sector)
<1>1. ASSUME NEW ts \in ValidTS(type) PROVE Parts(ts)
  <2>1. /\ ts.track \in 1..Tracks(type)
        /\ ts.sector \in 0..(SectorsPerTrack(type, ts.track) - 1)
        /\ ts = TS(ts.track, ts.sector)
    BY ValidParts
  <2>2. SectorsPerTrack(type, ts.track) \in 17..40 BY <2>1, Sizes
  <2>3. ts.sector \in Nat BY <2>1, <2>2
  <2> QED BY <2>1, <2>2, <2>3, TrackBases
<1>2. Parts(x) /\ Parts(y) BY <1>1
<1>3. ASSUME NEW v \in ValidTS(type), NEW w \in ValidTS(type), v.track < w.track
      PROVE  BlockNum(type, v) < BlockNum(type, w)
  <2>1. Parts(v) /\ Parts(w) BY <1>1
  <2>2. TrackBase(type, v.track) + SectorsPerTrack(type, v.track) <= TrackBase(type, w.track)
    BY <1>3, <2>1, TracksInOrder
  <2>3. w.sector \in Nat BY <2>1, Sizes
  <2> QED BY <2>1, <2>2, <2>3
<1>4. x.track \in Nat /\ y.track \in Nat BY <1>2
<1>5. x.track = y.track
  <2>1. BlockNum(type, x) \in Nat BY BlockNumInImage, Sizes
  <2>2. ~(x.track < y.track) BY <1>3, <2>1
  <2>3. ~(y.track < x.track) BY <1>3, <2>1
  <2> QED BY <1>4, <2>2, <2>3
<1>6. x.sector \in Nat /\ y.sector \in Nat BY <1>2
<1>7. x.sector = y.sector
  <2>1. /\ TrackBase(type, x.track) \in Nat
        /\ BlockNum(type, x) = TrackBase(type, x.track) + x.sector
        /\ BlockNum(type, y) = TrackBase(type, x.track) + y.sector
    BY <1>2, <1>5
  <2>2. TrackBase(type, x.track) + x.sector = TrackBase(type, x.track) + y.sector
    BY <2>1
  <2>3. \A a, b, c \in Nat : a + b = a + c => b = c OBVIOUS
  <2> QED BY <1>6, <2>1, <2>2, <2>3
<1> QED BY <1>2, <1>5, <1>7

(* Eight sectors to a byte. *)
LEMMA Groups ==
  /\ \A s \in 0..20 : s \div 8 \in 0..2
  /\ \A s \in 0..28 : s \div 8 \in 0..3
  /\ \A s \in 0..39 : s \div 8 \in 0..4
  OBVIOUS

(* The bytes of a cell: its count and the few that follow it, save on a    *)
(* D71's second side, whose counts and bits are in different blocks.       *)
LEMMA CellOfD64 ==
  ASSUME NEW t \in 1..35
  PROVE  \A a \in CellBytes("D64", t) : \E k \in 0..3 : a = <<"bam", t * 4 + k>>
<1> SUFFICES ASSUME NEW a \in CellBytes("D64", t)
             PROVE  \E k \in 0..3 : a = <<"bam", t * 4 + k>>
  OBVIOUS
<1>1. CASE a = CountAt("D64", t)
  <2>1. a = <<"bam", t * 4 + 0>> BY <1>1 DEF CountAt, At
  <2> QED BY <2>1
<1>2. CASE \E s \in 0..(SectorsPerTrack("D64", t) - 1) : a = BitsAt("D64", TS(t, s))
  <2>1. SectorsPerTrack("D64", t) \in 17..21 BY Side1541 DEF SectorsPerTrack
  <2>2. PICK s \in 0..20 : a = BitsAt("D64", TS(t, s)) BY <1>2, <2>1
  <2>3. a = <<"bam", t * 4 + (s \div 8) + 1>> BY <2>2 DEF BitsAt, At, TS
  <2>4. s \div 8 \in 0..2 BY Groups
  <2>5. a = <<"bam", t * 4 + ((s \div 8) + 1)>> BY <2>3, <2>4
  <2> QED BY <2>4, <2>5
<1> QED BY <1>1, <1>2 DEF CellBytes
LEMMA CellOfD71 ==
  ASSUME NEW t \in 1..70
  PROVE  \A a \in CellBytes("D71", t) :
           \/ t < 36 /\ \E k \in 0..3 : a = <<"bam", t * 4 + k>>
           \/ t >= 36 /\ a = <<"bam", t + 185>>
           \/ t >= 36 /\ \E k \in 0..2 : a = <<"bam2", (t - 36) * 3 + k>>
<1> SUFFICES ASSUME NEW a \in CellBytes("D71", t)
             PROVE  \/ t < 36 /\ \E k \in 0..3 : a = <<"bam", t * 4 + k>>
                    \/ t >= 36 /\ a = <<"bam", t + 185>>
                    \/ t >= 36 /\ \E k \in 0..2 : a = <<"bam2", (t - 36) * 3 + k>>
  OBVIOUS
<1>1. CASE a = CountAt("D71", t)
  <2>1. CASE t < 36
    <3>1. a = <<"bam", t * 4 + 0>> BY <1>1, <2>1 DEF CountAt, At
    <3> QED BY <2>1, <3>1
  <2>2. CASE t >= 36
    <3>1. a = <<"bam", t + 185>> BY <1>1, <2>2 DEF CountAt, At
    <3> QED BY <2>2, <3>1
  <2> QED BY <2>1, <2>2
<1>2. CASE \E s \in 0..(SectorsPerTrack("D71", t) - 1) : a = BitsAt("D71", TS(t, s))
  <2>1. OnSide(t) \in 1..35 BY DEF OnSide
  <2>2. SectorsPerTrack("D71", t) \in 17..21 BY <2>1, Side1541 DEF SectorsPerTrack
  <2>3. PICK s \in 0..20 : a = BitsAt("D71", TS(t, s)) BY <1>2, <2>2
  <2>4. s \div 8 \in 0..2 BY Groups
  <2>5. CASE t < 36
    <3>1. a = <<"bam", t * 4 + (s \div 8) + 1>> BY <2>3, <2>5 DEF BitsAt, At, TS
    <3>2. a = <<"bam", t * 4 + ((s \div 8) + 1)>> BY <2>4, <3>1
    <3> QED BY <2>4, <2>5, <3>2
  <2>6. CASE t >= 36
    <3>1. a = <<"bam2", ((t - 35) * 3 + (s \div 8)) - 3>> BY <2>3, <2>6 DEF BitsAt, At, TS
    <3>2. ((t - 35) * 3 + (s \div 8)) - 3 = (t - 36) * 3 + (s \div 8) BY <2>4
    <3> QED BY <2>4, <2>6, <3>1, <3>2
  <2> QED BY <2>5, <2>6
<1> QED BY <1>1, <1>2 DEF CellBytes

(* A D80's and a D81's tracks, numbered within their map block. *)
Local80(t) == IF t < 51 THEN t ELSE t - 50
Local81(t) == IF t < 41 THEN t ELSE t - 40
Map80(t) == IF t < 51 THEN "bam" ELSE "bam2"
Map81(t) == IF t < 41 THEN "bam" ELSE "bam2"

LEMMA CellOfD80 ==
  ASSUME NEW t \in 1..77
  PROVE  \A a \in CellBytes("D80", t) : \E k \in 0..4 : a = <<Map80(t), Local80(t) * 5 + 6 + k>>
<1> SUFFICES ASSUME NEW a \in CellBytes("D80", t)
             PROVE  \E k \in 0..4 : a = <<Map80(t), Local80(t) * 5 + 6 + k>>
  OBVIOUS
<1>a. Local80(t) \in Nat BY DEF Local80
<1>1. CASE a = CountAt("D80", t)
  <2>1. a = <<Map80(t), Local80(t) * 5 + 6>> BY <1>1 DEF CountAt, At, Map80, Local80
  <2>2. Local80(t) * 5 + 6 = Local80(t) * 5 + 6 + 0 BY <1>a
  <2> QED BY <2>1, <2>2
<1>2. CASE \E s \in 0..(SectorsPerTrack("D80", t) - 1) : a = BitsAt("D80", TS(t, s))
  <2>1. SectorsPerTrack("D80", t) \in 23..29 BY Side8050 DEF SectorsPerTrack
  <2>2. PICK s \in 0..28 : a = BitsAt("D80", TS(t, s)) BY <1>2, <2>1
  <2>3. a = <<Map80(t), Local80(t) * 5 + (s \div 8) + 7>>
    BY <2>2 DEF BitsAt, At, TS, Map80, Local80
  <2>4. s \div 8 \in 0..3 BY Groups
  <2>5. Local80(t) * 5 + (s \div 8) + 7 = Local80(t) * 5 + 6 + ((s \div 8) + 1) BY <1>a, <2>4
  <2> QED BY <2>3, <2>4, <2>5
<1> QED BY <1>1, <1>2 DEF CellBytes

LEMMA CellOfD81 ==
  ASSUME NEW t \in 1..80
  PROVE  \A a \in CellBytes("D81", t) : \E k \in 0..5 : a = <<Map81(t), Local81(t) * 6 + 10 + k>>
<1> SUFFICES ASSUME NEW a \in CellBytes("D81", t)
             PROVE  \E k \in 0..5 : a = <<Map81(t), Local81(t) * 6 + 10 + k>>
  OBVIOUS
<1>a. Local81(t) \in Nat BY DEF Local81
<1>1. CASE a = CountAt("D81", t)
  <2>1. a = <<Map81(t), Local81(t) * 6 + 10>> BY <1>1 DEF CountAt, At, Map81, Local81
  <2>2. Local81(t) * 6 + 10 = Local81(t) * 6 + 10 + 0 BY <1>a
  <2> QED BY <2>1, <2>2
<1>2. CASE \E s \in 0..(SectorsPerTrack("D81", t) - 1) : a = BitsAt("D81", TS(t, s))
  <2>1. SectorsPerTrack("D81", t) = 40 BY DEF SectorsPerTrack
  <2>2. PICK s \in 0..39 : a = BitsAt("D81", TS(t, s)) BY <1>2, <2>1
  <2>3. a = <<Map81(t), Local81(t) * 6 + (s \div 8) + 11>>
    BY <2>2 DEF BitsAt, At, TS, Map81, Local81
  <2>4. s \div 8 \in 0..4 BY Groups
  <2>5. Local81(t) * 6 + (s \div 8) + 11 = Local81(t) * 6 + 10 + ((s \div 8) + 1) BY <1>a, <2>4
  <2> QED BY <2>3, <2>4, <2>5
<1> QED BY <1>1, <1>2 DEF CellBytes

(* No two tracks share a byte of the map, in any of the four layouts: an   *)
(* update of one track's count or bits (di_alloc_ts, di_free_ts) leaves    *)
(* every other track's alone.                                              *)
THEOREM CellsApart ==
  ASSUME NEW type \in ImageTypes,
         NEW t \in 1..Tracks(type), NEW u \in 1..Tracks(type), t # u
  PROVE  CellBytes(type, t) \cap CellBytes(type, u) = {}
<1> SUFFICES ASSUME NEW a, a \in CellBytes(type, t), a \in CellBytes(type, u)
             PROVE  FALSE
  OBVIOUS
<1>1. CASE type = "D64"
  <2>1. t \in 1..35 /\ u \in 1..35 BY <1>1 DEF Tracks
  <2>2. PICK j \in 0..3 : a = <<"bam", t * 4 + j>> BY <1>1, <2>1, CellOfD64
  <2>3. PICK k \in 0..3 : a = <<"bam", u * 4 + k>> BY <1>1, <2>1, CellOfD64
  <2>4. t * 4 + j = u * 4 + k BY <2>2, <2>3
  <2> QED BY <2>1, <2>4
<1>2. CASE type = "D71"
  <2>1. t \in 1..70 /\ u \in 1..70 BY <1>2 DEF Tracks
  <2>2. \/ t < 36 /\ \E k \in 0..3 : a = <<"bam", t * 4 + k>>
        \/ t >= 36 /\ a = <<"bam", t + 185>>
        \/ t >= 36 /\ \E k \in 0..2 : a = <<"bam2", (t - 36) * 3 + k>>
    BY <1>2, <2>1, CellOfD71
  <2>3. \/ u < 36 /\ \E k \in 0..3 : a = <<"bam", u * 4 + k>>
        \/ u >= 36 /\ a = <<"bam", u + 185>>
        \/ u >= 36 /\ \E k \in 0..2 : a = <<"bam2", (u - 36) * 3 + k>>
    BY <1>2, <2>1, CellOfD71
  <2>4. CASE a[1] = "bam2"
    <3>1. PICK j \in 0..2 : a = <<"bam2", (t - 36) * 3 + j>> BY <2>2, <2>4
    <3>2. PICK k \in 0..2 : a = <<"bam2", (u - 36) * 3 + k>> BY <2>3, <2>4
    <3>3. (t - 36) * 3 + j = (u - 36) * 3 + k BY <3>1, <3>2
    <3> QED BY <2>1, <3>3
  <2>5. CASE a[1] = "bam"
    <3>1. \/ t < 36 /\ \E k \in 0..3 : a[2] = t * 4 + k
          \/ t >= 36 /\ a[2] = t + 185
      BY <2>2, <2>5
    <3>2. \/ u < 36 /\ \E k \in 0..3 : a[2] = u * 4 + k
          \/ u >= 36 /\ a[2] = u + 185
      BY <2>3, <2>5
    <3> QED BY <2>1, <3>1, <3>2
  <2>6. a[1] = "bam" \/ a[1] = "bam2" BY <2>2
  <2> QED BY <2>4, <2>5, <2>6
<1>3. CASE type = "D80"
  <2>1. t \in 1..77 /\ u \in 1..77 BY <1>3 DEF Tracks
  <2>2. PICK j \in 0..4 : a = <<Map80(t), Local80(t) * 5 + 6 + j>> BY <1>3, <2>1, CellOfD80
  <2>3. PICK k \in 0..4 : a = <<Map80(u), Local80(u) * 5 + 6 + k>> BY <1>3, <2>1, CellOfD80
  <2>4. Map80(t) = Map80(u) /\ Local80(t) * 5 + 6 + j = Local80(u) * 5 + 6 + k BY <2>2, <2>3
  <2>5. Local80(t) # Local80(u) BY <2>1, <2>4 DEF Map80, Local80
  <2>6. Local80(t) \in Nat /\ Local80(u) \in Nat BY <2>1 DEF Local80
  <2> QED BY <2>4, <2>5, <2>6
<1>4. CASE type = "D81"
  <2>1. t \in 1..80 /\ u \in 1..80 BY <1>4 DEF Tracks
  <2>2. PICK j \in 0..5 : a = <<Map81(t), Local81(t) * 6 + 10 + j>> BY <1>4, <2>1, CellOfD81
  <2>3. PICK k \in 0..5 : a = <<Map81(u), Local81(u) * 6 + 10 + k>> BY <1>4, <2>1, CellOfD81
  <2>4. Map81(t) = Map81(u) /\ Local81(t) * 6 + 10 + j = Local81(u) * 6 + 10 + k BY <2>2, <2>3
  <2>5. Local81(t) # Local81(u) BY <2>1, <2>4 DEF Map81, Local81
  <2>6. Local81(t) \in Nat /\ Local81(u) \in Nat BY <2>1 DEF Local81
  <2> QED BY <2>4, <2>5, <2>6
<1> QED BY <1>1, <1>2, <1>3, <1>4 DEF ImageTypes
=============================================================================
