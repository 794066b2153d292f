----------------------------- MODULE DiskFormat -----------------------------
(***************************************************************************)
(* di_format of diutil/diskimage.c, as far as the block availability map   *)
(* goes: it clears the map, frees every block of the image in turn, and    *)
(* takes back the blocks of the map and the directory.  The map is kept    *)
(* byte by byte, where DiskGeometry says; names, ids and the rest of the   *)
(* header are left out (no byte of theirs is a byte of the map's cells).   *)
(***************************************************************************)
EXTENDS DiskGeometry, Sequences, FiniteSetsExt

CONSTANTS
  Types,   \* the image types that are formatted
  Junk     \* what the bytes of a used image may hold before

ASSUME FormatAssumption == Types \subseteq ImageTypes /\ Junk \subseteq Byte

VARIABLES
  type,        \* di->type
  map,         \* the bytes of the two map blocks, and the few after them
  phase,       \* "clear", "free", "alloc" or "done"
  ts,          \* the loop's track and sector
  taken,       \* how many of the format's own blocks have been allocated
  blocksfree,  \* di->blocksfree
  passed       \* history: blocks the loop has been through

vars == <<type, map, phase, ts, taken, blocksfree, passed>>

(* The offsets of the cells: the last, of D80's track 50, is 260. *)
Offsets == 0..260
MapBytes == {"bam", "bam2"} \X Offsets

IsSet(byte, bit) == (byte \div 2^bit) % 2 = 1

(* di_is_ts_free.  On a D64 a track whose count is 0 has no free sector. *)
IsFree(m, b) ==
  /\ IsSet(m[BitsAt(type, b)], Bit(b))
  /\ type = "D64" => m[CountAt(type, b.track)] # 0

(* As FreeTS, with the second map block's tracks kept in the first too. *)
OneMap(a) == At("bam", a[2])
FreeTSOneMap(m, b) ==
  [m EXCEPT ![OneMap(BitsAt(type, b))] = IF IsSet(@, Bit(b)) THEN @ ELSE @ + 2^Bit(b),
            ![OneMap(CountAt(type, b.track))] = (@ + 1) % 256]

(* di_free_ts: the bit is set (it may be already), the count goes up. *)
FreeTS(m, b) ==
  [m EXCEPT ![BitsAt(type, b)] = IF IsSet(@, Bit(b)) THEN @ ELSE @ + 2^Bit(b),
            ![CountAt(type, b.track)] = (@ + 1) % 256]

(* As AllocTS, with the bit cleared and the count kept. *)
AllocTSUncounted(m, b) ==
  [m EXCEPT ![BitsAt(type, b)] = IF IsSet(@, Bit(b)) THEN @ - 2^Bit(b) ELSE @]

(* di_alloc_ts: the bit is cleared, the count goes down. *)
AllocTS(m, b) ==
  [m EXCEPT ![BitsAt(type, b)] = IF IsSet(@, Bit(b)) THEN @ - 2^Bit(b) ELSE @,
            ![CountAt(type, b.track)] = (@ + 255) % 256]

(* blocks_free. *)
BlocksFree(m) ==
  MapThenSumSet(LAMBDA t : m[CountAt(type, t)], (1..Tracks(type)) \ {DirBlock(type).track})

(* As Cleared, without the counts of a D71's second side. *)
ClearedOneSide ==
  CASE type \in {"D64", "D71"} -> ({"bam"} \X (4..143)) \cup ({"bam2"} \X (0..255))
    [] type = "D80" -> {"bam", "bam2"} \X (6..256)
    [] type = "D81" -> {"bam", "bam2"} \X (7..256)

(* The bytes that di_format's memsets clear before the loop. *)
Cleared ==
  CASE type = "D64" -> {"bam"} \X (4..143)
    [] type = "D71" -> ({"bam"} \X ((4..143) \cup (221..255))) \cup ({"bam2"} \X (0..255))
    [] type = "D80" -> {"bam", "bam2"} \X (6..256)
    [] type = "D81" -> {"bam", "bam2"} \X (7..256)

(* The blocks di_format allocates at the end. *)
OwnBlocks ==
  CASE type \in {"D64", "D71"} -> <<TS(18, 0), TS(18, 1)>>
    [] type = "D80" -> <<TS(38, 0), TS(38, 3), TS(39, 0), TS(39, 1)>>
    [] type = "D81" -> <<TS(40, 0), TS(40, 1), TS(40, 2), TS(40, 3)>>

TypeOK ==
  /\ type \in Types
  /\ map \in [MapBytes -> Byte]
  /\ phase \in {"clear", "free", "alloc", "done"}
  /\ phase \in {"clear", "free"} => TsIsValid(type, ts)
  /\ taken \in 0..Len(OwnBlocks)
  /\ blocksfree \in Nat /\ passed \in 0..Blocks(type)

(* A blank image (di_create_image, or a format with an id, which erases    *)
(* it first) holds 0; one formatted without an id holds what it held.      *)
Init ==
  /\ type \in Types
  /\ \E junk \in Junk : map = [a \in MapBytes |-> junk]
  /\ phase = "clear" /\ ts = TS(1, 0) /\ taken = 0
  /\ blocksfree = 0 /\ passed = 0

ClearMap ==
  /\ phase = "clear" /\ phase' = "free"
  /\ map' = [a \in MapBytes |-> IF a \in Cleared THEN 0 ELSE map[a]]
  /\ UNCHANGED <<type, ts, taken, blocksfree, passed>>

(* One step of the two loops over tracks and sectors.  On a D71 track 53,  *)
(* which holds the second map block, is passed over.                       *)
FreeNext ==
  /\ phase = "free"
  /\ map' = IF type = "D71" /\ ts.track = 53 THEN map ELSE FreeTS(map, ts)
  /\ passed' = passed + 1
  /\ \/ /\ ts.sector + 1 < SectorsPerTrack(type, ts.track)
        /\ ts' = TS(ts.track, ts.sector + 1)
        /\ UNCHANGED phase
     \/ /\ ts.sector + 1 = SectorsPerTrack(type, ts.track)
        /\ ts' = TS(ts.track + 1, 0)
        /\ phase' = IF ts.track = Tracks(type) THEN "alloc" ELSE "free"
  /\ UNCHANGED <<type, taken, blocksfree>>

AllocOwn ==
  /\ phase = "alloc" /\ taken < Len(OwnBlocks)
  /\ taken' = taken + 1
  /\ ts' = OwnBlocks[taken']
  /\ map' = AllocTS(map, ts')
  /\ UNCHANGED <<type, phase, blocksfree, passed>>

CountBlocks ==
  /\ phase = "alloc" /\ taken = Len(OwnBlocks)
  /\ blocksfree' = BlocksFree(map)
  /\ phase' = "done"
  /\ UNCHANGED <<type, map, ts, taken, passed>>

Next == ClearMap \/ FreeNext \/ AllocOwn \/ CountBlocks

Spec == Init /\ [][Next]_vars

-----------------------------------------------------------------------------
(* Properties. *)

FreeSectors(t) == {s \in 0..(SectorsPerTrack(type, t) - 1) : IsFree(map, TS(t, s))}

(* The loop over tracks and sectors visits the blocks in the order of      *)
(* their numbers: get_block_num leaves no gap, gives no block two names,   *)
(* and ends at the last block of the file (get_block_num against           *)
(* di_sectors_per_track and the sizes of the images).                      *)
BlockNumbersAreDense ==
  /\ phase = "free" => BlockNum(type, ts) = passed
  /\ phase \in {"alloc", "done"} => passed = Blocks(type)

(* The tracks whose cells should be settled: all when the format is over,  *)
(* before that the one the loop has just left.                             *)
Settled ==
  CASE phase = "done" -> 1..Tracks(type)
    [] phase = "free" /\ ts.sector = 0 -> {ts.track - 1} \ {0}
    [] OTHER -> {}

(* The count of a track is the number of its sectors whose bits say free   *)
(* (di_track_blocks_free against di_is_ts_free), whatever the image held   *)
(* before the format.                                                      *)
CountsMatchBits ==
  \A t \in Settled : map[CountAt(type, t)] = Cardinality(FreeSectors(t))

(* A block that is freed or allocated leaves the cells of all other tracks *)
(* alone: no two tracks share a byte of the map (di_free_ts, di_alloc_ts). *)
OneCellAtATime ==
  [][LET b == IF phase = "free" THEN ts ELSE ts' IN
     (phase = "free" \/ phase = "alloc") =>
       \A t \in (1..Tracks(type)) \ {b.track} :
         \A a \in CellBytes(type, t) : map'[a] = map[a]]_vars

(* After a format blocksfree, all that di_write looks at, is the number of *)
(* blocks whose bits say free on the tracks that alloc_next_ts does not    *)
(* pass over.  On a D80 the two functions leave out different tracks:      *)
(* track 50 is counted and passed over, track 39 is searched and not       *)
(* counted, and the sum is right because as many are free on either        *)
(* (blocks_free against the reserved tracks of alloc_next_ts).  That the   *)
(* search finds these blocks is not said here: DiskBlocks shows that on a  *)
(* D71 it does not.                                                        *)
BlocksFreeMatchesBits ==
  phase = "done" =>
    blocksfree = MapThenSumSet(LAMBDA t : Cardinality(FreeSectors(t)),
                               (1..Tracks(type)) \ Reserved(type))

=============================================================================
