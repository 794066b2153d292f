---------------------------- MODULE DiskGeometry ----------------------------
(***************************************************************************)
(* The shape of the four kinds of disk image that diutil/diskimage.c       *)
(* knows: how many tracks, how many sectors on each, the number of the     *)
(* block that a track and sector name, and where the block availability    *)
(* map (BAM) keeps the count and the bits of a track.  A block of the map  *)
(* is "bam" or "bam2" (di->bam, di->bam2); a byte of it is <<block,        *)
(* offset>>, whose offset the code never compares with the block's size.   *)
(***************************************************************************)
EXTENDS Naturals, FiniteSets

ImageTypes == {"D64", "D71", "D80", "D81"}

(* An unsigned char; the values a TrackSector can have. *)
Byte == 0..255
TrackSector == [track : Byte, sector : Byte]
TS(t, s) == [track |-> t, sector |-> s]
NoTS == TS(0, 0)

(* Blocks of an image: D64SIZE, D71SIZE, D81SIZE and D80SIZE over 256. *)
Blocks(type) ==
  CASE type = "D64" -> 683
    [] type = "D71" -> 1366
    [] type = "D80" -> 2083
    [] type = "D81" -> 3200

(* di_tracks. *)
Tracks(type) ==
  CASE type = "D64" -> 35
    [] type = "D71" -> 70
    [] type = "D80" -> 77
    [] type = "D81" -> 80

(* The four zones of one side of a 1541 or 1571 disk, and of an 8050 disk: *)
(* the zone that track t is in, for zones that end before the bounds.      *)
Zone(t, b1, b2, b3) ==
  CASE t < b1 -> 1 [] b1 <= t /\ t < b2 -> 2 [] b2 <= t /\ t < b3 -> 3 [] b3 <= t -> 4

Zone1541(t) == Zone(t, 18, 25, 31)
Zone8050(t) == Zone(t, 40, 54, 65)

(* track - 35 on the second side of a 1571 disk. *)
OnSide(t) == IF t > 35 THEN t - 35 ELSE t

(* di_sectors_per_track. *)
Sectors1541(t) ==
  CASE Zone1541(t) = 1 -> 21 [] Zone1541(t) = 2 -> 19
    [] Zone1541(t) = 3 -> 18 [] Zone1541(t) = 4 -> 17

Sectors8050(t) ==
  CASE Zone8050(t) = 1 -> 29 [] Zone8050(t) = 2 -> 27
    [] Zone8050(t) = 3 -> 25 [] Zone8050(t) = 4 -> 23

SectorsPerTrack(type, t) ==
  CASE type = "D64" -> Sectors1541(t)
    [] type = "D71" -> Sectors1541(OnSide(t))
    [] type = "D80" -> Sectors8050(t)
    [] type = "D81" -> 40

(* di_ts_is_valid. *)
TsIsValid(type, ts) ==
  /\ ts.track >= 1 /\ ts.track <= Tracks(type)
  /\ ts.sector <= SectorsPerTrack(type, ts.track) - 1

ValidTS(type) == {ts \in TrackSector : TsIsValid(type, ts)}

(* As Base1541, with the third zone one track short. *)
Base1541Short(t) ==
  CASE Zone1541(t) = 1 -> (t - 1) * 21
    [] Zone1541(t) = 2 -> (t - 18) * 19 + 17 * 21
    [] Zone1541(t) = 3 -> (t - 25) * 18 + 17 * 21 + 7 * 19
    [] Zone1541(t) = 4 -> (t - 31) * 17 + 17 * 21 + 7 * 19 + 5 * 18

(* get_block_num: the number of a track's first block. *)
Base1541(t) ==
  CASE Zone1541(t) = 1 -> (t - 1) * 21
    [] Zone1541(t) = 2 -> (t - 18) * 19 + 17 * 21
    [] Zone1541(t) = 3 -> (t - 25) * 18 + 17 * 21 + 7 * 19
    [] Zone1541(t) = 4 -> (t - 31) * 17 + 17 * 21 + 7 * 19 + 6 * 18

Base8050(t) ==
  CASE Zone8050(t) = 1 -> (t - 1) * 29
    [] Zone8050(t) = 2 -> (t - 40) * 27 + 39 * 29
    [] Zone8050(t) = 3 -> (t - 54) * 25 + 14 * 27 + 39 * 29
    [] Zone8050(t) = 4 -> (t - 65) * 23 + 11 * 25 + 14 * 27 + 39 * 29

(* get_block_num of a valid track and sector; of any other it exits. *)
BlockNum(type, ts) ==
  ts.sector +
  CASE type = "D64" -> Base1541(ts.track)
    [] type = "D71" -> Base1541(OnSide(ts.track)) + (IF ts.track > 35 THEN 683 ELSE 0)
    [] type = "D80" -> Base8050(ts.track)
    [] type = "D81" -> (ts.track - 1) * 40

-----------------------------------------------------------------------------
(* The block availability map. *)

At(block, offset) == <<block, offset>>

(* The byte that counts the free blocks of track t (di_track_blocks_free,  *)
(* di_alloc_ts, di_free_ts).                                               *)
CountAt(type, t) ==
  CASE type = "D64" -> At("bam", t * 4)
    [] type = "D71" -> IF t < 36 THEN At("bam", t * 4) ELSE At("bam", t + 185)
    [] type = "D80" -> IF t < 51 THEN At("bam", t * 5 + 6) ELSE At("bam2", (t - 50) * 5 + 6)
    [] type = "D81" -> IF t < 41 THEN At("bam", t * 6 + 10) ELSE At("bam2", (t - 40) * 6 + 10)

(* The byte with the bit of a sector, which is bit sector & 7 of it        *)
(* (di_is_ts_free, di_alloc_ts, di_free_ts).                               *)
BitsAt(type, ts) ==
  LET t == ts.track
      g == ts.sector \div 8 IN
  CASE type = "D64" -> At("bam", t * 4 + g + 1)
    [] type = "D71" -> IF t < 36 THEN At("bam", t * 4 + g + 1)
                                 ELSE At("bam2", ((t - 35) * 3 + g) - 3)
    [] type = "D80" -> IF t < 51 THEN At("bam", t * 5 + g + 7)
                                 ELSE At("bam2", (t - 50) * 5 + g + 7)
    [] type = "D81" -> IF t < 41 THEN At("bam", t * 6 + g + 11)
                                 ELSE At("bam2", (t - 40) * 6 + g + 11)

Bit(ts) == ts.sector % 8

(* The bytes of one track's cell of the map. *)
CellBytes(type, t) ==
  {CountAt(type, t)} \cup {BitsAt(type, TS(t, s)) : s \in 0..(SectorsPerTrack(type, t) - 1)}

(* t1 in alloc_next_ts: the last track of its first loop. *)
FirstLoopEnd(type) ==
  CASE type \in {"D64", "D71"} -> 35 [] type = "D80" -> 50 [] type = "D81" -> 40

(* res1 and res2 in alloc_next_ts: tracks no file is given a block of. *)
Reserved(type) ==
  CASE type = "D64" -> {18} [] type = "D71" -> {18, 53} [] type = "D80" -> {50} [] type = "D81" -> {40}

(* The byte alloc_next_ts takes for the count of a track: bpt and boff are *)
(* the same in both loops, whose map blocks on a D71 are not laid out alike.*)
AllocCountAt(type, t) ==
  LET bpt  == CASE type \in {"D64", "D71"} -> 4 [] type = "D80" -> 5 [] type = "D81" -> 6
      boff == CASE type \in {"D64", "D71"} -> 0 [] type = "D80" -> 6 [] type = "D81" -> 10
  IN IF t <= FirstLoopEnd(type)
     THEN At("bam", t * bpt + boff)
     ELSE At("bam2", (t - FirstLoopEnd(type)) * bpt + boff)

(* di->dir, as di_load_image sets it. *)
DirBlock(type) ==
  CASE type \in {"D64", "D71"} -> TS(18, 1) [] type = "D80" -> TS(39, 1) [] type = "D81" -> TS(40, 0)

(* interleave. *)
WriteInterleave(type) ==
  CASE type = "D64" -> 10 [] type = "D71" -> 6 [] type \in {"D80", "D81"} -> 1

=============================================================================
