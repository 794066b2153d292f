---------------------------- MODULE DiskDirectory ----------------------------
(***************************************************************************)
(* The directory of a loaded disk image in diutil/diskimage.c: entries     *)
(* created by di_open for writing, found, renamed and deleted by pattern,  *)
(* directory blocks added by alloc_next_dir_ts, and the directory streams  *)
(* of diutil/di_dirent.c that read it all the while.                       *)
(*                                                                         *)
(* A slot has a number: SlotsPerBlock times its block plus its place.  The *)
(* blocks of the chain are 1, 2 and so on.  Block 0 is one that is no      *)
(* directory block and is taken for one: to alloc_file_entry it is the     *)
(* second map block of a D80 or D81, where di->bam links to; to a stream   *)
(* of a D81 it is the header (di->dir).                                    *)
(*                                                                         *)
(* A pattern is the set of the names that match_pattern lets it match.     *)
(***************************************************************************)
EXTENDS DiskGeometry, SequencesExt

CONSTANTS
  SlotsPerBlock,  \* 8 in the code
  Images,         \* the images that may be loaded: what Init takes from each
  Names,          \* of files
  Patterns,       \* subsets of Names
  CreateTypes,    \* types of the files that are created
  AskedTypes,     \* types asked for in renaming and deleting
  MaxBlocks       \* bound: no more StoreBlock on the directory's tracks

(* The tracks with directory blocks or their count: di->bam and di->dir.   *)
BamTrack(type) == CASE type \in {"D64", "D71"} -> 18 [] type = "D80" -> 38 [] type = "D81" -> 40
DirTrack(type) == DirBlock(type).track
DirTracks(type) == {BamTrack(type), DirTrack(type)}
Sectors(type, t) == 0..(SectorsPerTrack(type, t) - 1)

FileTypes == {"seq", "prg", "usr", "rel"}

(* A slot: "del" is type 0, an empty one; "map" is a nonzero byte of the   *)
(* map, which no block but block 0 has.                                    *)
Slot == [type : FileTypes \cup {"del", "map"}, name : Names \cup {"-"}]
Entry == [type : FileTypes, name : Names]
Empty == [type |-> "del", name |-> "-"]
MapByte == [type |-> "map", name |-> "-"]
NewEntry(n, t) == [type |-> t, name |-> n]

ASSUME DirectoryAssumption ==
  /\ SlotsPerBlock \in Nat \ {0} /\ MaxBlocks \in Nat
  /\ "-" \notin Names /\ Patterns \subseteq SUBSET Names
  /\ CreateTypes \subseteq FileTypes /\ AskedTypes \subseteq FileTypes
  /\ \A i \in Images :
       /\ i.type \in ImageTypes
       /\ i.chain \in Seq(Sectors(i.type, DirTrack(i.type)))
       /\ i.chain # <<>> /\ IsInjective(i.chain)
       /\ DOMAIN i.free = DirTracks(i.type)
       /\ \A t \in DOMAIN i.free : i.free[t] \subseteq Sectors(i.type, t)
       /\ i.free[DirTrack(i.type)] \cap ToSet(i.chain) = {}
       /\ i.slots \in [0..((Len(i.chain) + 1) * SlotsPerBlock - 1) -> Slot]
       /\ \A p \in DOMAIN i.slots : p >= SlotsPerBlock => i.slots[p] \in Entry \cup {Empty}

VARIABLES
  type,    \* di->type
  chain,   \* the sectors of the directory's blocks, in the order of the links
  slots,   \* the slots of block 0 and of the chain, by number
  free,    \* the free sectors of the directory's tracks
  owned,   \* the blocks of files on those tracks: [track, sector, slot]
  status,  \* di->status after the last call that sets it
  outcome, \* "running", or "hung" in alloc_next_dir_ts
  stream,  \* the DIDir and its ImageFile
  listed,  \* history: the slots it has returned, in order
  stayed   \* history: the slots whose entry has not changed since it was opened

dirVars == <<chain, slots, free, owned, status, outcome>>
streamVars == <<stream, listed, stayed>>
vars == <<type, dirVars, streamVars>>

BlockOf(p) == p \div SlotsPerBlock
SlotsOf(b) == (b * SlotsPerBlock)..(b * SlotsPerBlock + SlotsPerBlock - 1)

(* at: the slot the next call looks at first; buffer: the copy of its      *)
(* block; more: whether nextts, as it was when the block was read, goes on.*)
NoStream == [open |-> FALSE, at |-> 0, buffer |-> <<>>, more |-> FALSE]

TypeOK ==
  /\ type \in ImageTypes
  /\ chain \in Seq(Sectors(type, DirTrack(type)))
  /\ slots \in [0..((Len(chain) + 1) * SlotsPerBlock - 1) -> Slot]
  /\ DOMAIN free = DirTracks(type) /\ \A t \in DOMAIN free : free[t] \subseteq Sectors(type, t)
  /\ \A o \in owned : o.sector \in Sectors(type, o.track) /\ o.slot \in DOMAIN slots
  /\ status \in {0, 1, 62, 63, 64, 72, 254} /\ outcome \in {"running", "hung"}
  /\ stream.open \in BOOLEAN /\ stream.more \in BOOLEAN
  /\ stream.at \in 0..((Len(chain) + 1) * SlotsPerBlock)
  /\ stream.buffer # <<>> => DOMAIN stream.buffer = SlotsOf(BlockOf(stream.at))
  /\ listed \in Seq(DOMAIN slots) /\ stayed \subseteq DOMAIN slots

(* di_load_image. *)
Init ==
  /\ \E i \in Images :
       /\ type = i.type /\ chain = i.chain /\ slots = i.slots /\ free = i.free
  /\ owned = {} /\ status = 254 /\ outcome = "running"
  /\ stream = NoStream /\ listed = <<>> /\ stayed = {}

-----------------------------------------------------------------------------
(* Looking for entries. *)

(* find_file_entry from first_ts_in_dir on. *)
SearchSlots == {p \in DOMAIN slots : p >= SlotsPerBlock}

(* alloc_file_entry follows the link of di->bam, which on a D80 comes to   *)
(* the directory through the second map block and on a D81 ends there.     *)
AllocSlots ==
  CASE type \in {"D64", "D71"} -> SearchSlots
    [] type = "D80" -> DOMAIN slots
    [] type = "D81" -> SlotsOf(0)

(* The entries a pattern and a type match; find_file_entry returns the     *)
(* first of them.                                                          *)
Matching(pattern, t) == {p \in SearchSlots : slots[p].type = t /\ slots[p].name \in pattern}

SlotsNamed(n) == {p \in AllocSlots : slots[p].type # "del" /\ slots[p].name = n}
EmptySlots == {p \in AllocSlots : slots[p].type = "del"}

-----------------------------------------------------------------------------
(* Creating. *)

(* As SearchFrom, with the first sector taken unseen. *)
SearchFromUnseen(t, s) == s

(* From sector s on and round, as alloc_next_dir_ts searches: s itself may *)
(* be past the end of the track, where the map has no free sectors.        *)
SearchFrom(t, s) ==
  LET nth(k) == IF k = 0 THEN s ELSE (s + k) % SectorsPerTrack(type, t)
      far == CHOOSE k \in 0..SectorsPerTrack(type, t) :
               nth(k) \in free[t] /\ \A j \in 0..(k - 1) : nth(j) \notin free[t]
  IN nth(far)

(* As NewDirBlock, with the block left free in the map. *)
NewDirBlockUnmapped(e) ==
  LET t == DirTrack(type)
      s == SearchFrom(t, Last(chain) + 3)
      p == (Len(chain) + 1) * SlotsPerBlock
  IN
  /\ free[t] # {}
  /\ chain' = Append(chain, s)
  /\ slots' = [q \in DOMAIN slots \cup SlotsOf(Len(chain) + 1) |->
                 IF q \in DOMAIN slots THEN slots[q] ELSE IF q = p THEN e ELSE Empty]
  /\ status' = 0
  /\ UNCHANGED <<free, outcome>>

(* As NewDirBlock, with the search ending at the end of the track. *)
NewDirBlockUpward(e) ==
  LET t == DirTrack(type)
      found == {s \in free[t] : s > Last(chain)}
      p == (Len(chain) + 1) * SlotsPerBlock
  IN
  \/ /\ found = {}
     /\ status' = 72
     /\ UNCHANGED <<chain, slots, free, outcome>>
  \/ /\ found # {}
     /\ chain' = Append(chain, Min(found))
     /\ free' = [free EXCEPT ![t] = @ \ {Min(found)}]
     /\ slots' = [q \in DOMAIN slots \cup SlotsOf(Len(chain) + 1) |->
                    IF q \in DOMAIN slots THEN slots[q] ELSE IF q = p THEN e ELSE Empty]
     /\ status' = 0
     /\ UNCHANGED outcome

(* alloc_next_dir_ts, and the entry in the first slot of the new block.    *)
(* The track whose count is looked at is not the one that is searched on a *)
(* D80; without a free sector there the search does not end.               *)
NewDirBlock(e) ==
  LET t == DirTrack(type)
      s == SearchFrom(t, Last(chain) + 3)
      p == (Len(chain) + 1) * SlotsPerBlock
  IN
  \/ /\ free[BamTrack(type)] = {}
     /\ status' = 72
     /\ UNCHANGED <<chain, slots, free, outcome>>
  \/ /\ free[BamTrack(type)] # {} /\ free[t] = {}
     /\ outcome' = "hung"
     /\ UNCHANGED <<chain, slots, free, status>>
  \/ /\ free[BamTrack(type)] # {} /\ free[t] # {}
     /\ chain' = Append(chain, s)
     /\ free' = [free EXCEPT ![t] = @ \ {s}]
     /\ slots' = [q \in DOMAIN slots \cup SlotsOf(Len(chain) + 1) |->
                    IF q \in DOMAIN slots THEN slots[q] ELSE IF q = p THEN e ELSE Empty]
     /\ status' = 0
     /\ UNCHANGED outcome

Running == outcome = "running"

(* di_open(di, name, type, "wb") up to the entry: alloc_file_entry.        *)
Create(n, t) ==
  /\ Running
  /\ \/ /\ SlotsNamed(n) # {}
        /\ status' = 63
        /\ UNCHANGED <<chain, slots, free, outcome>>
     \/ /\ SlotsNamed(n) = {} /\ EmptySlots # {}
        /\ slots' = [slots EXCEPT ![Min(EmptySlots)] = NewEntry(n, t)]
        /\ status' = 0
        /\ UNCHANGED <<chain, free, outcome>>
     \/ /\ SlotsNamed(n) = {} /\ EmptySlots = {}
        /\ NewDirBlock(NewEntry(n, t))
  /\ UNCHANGED <<type, owned, stream, listed, stayed>>

(* di_write or di_close gives a file a block.  On a D80 alloc_next_ts      *)
(* takes those of the directory's tracks as well, for it keeps off track   *)
(* 50 instead.                                                             *)
StoreBlock(p) ==
  /\ Running /\ slots[p].type \in FileTypes
  /\ type = "D80" /\ Cardinality(owned) < MaxBlocks
  /\ \E t \in DirTracks(type) : \E s \in free[t] :
       /\ free' = [free EXCEPT ![t] = @ \ {s}]
       /\ owned' = owned \cup {[track |-> t, sector |-> s, slot |-> p]}
  /\ UNCHANGED <<type, chain, slots, status, outcome, streamVars>>

-----------------------------------------------------------------------------
(* Deleting and renaming. *)

(* di_delete: every file that matches, and its blocks.  Only files of      *)
(* three types can be deleted.                                             *)
Delete(pattern, t) ==
  /\ Running
  /\ LET found == Matching(pattern, t)
         gone  == {o \in owned : o.slot \in found}
     IN \/ /\ t \notin {"seq", "prg", "usr"}
           /\ status' = 64
           /\ UNCHANGED <<slots, free, owned, stayed>>
        \/ /\ t \in {"seq", "prg", "usr"}
           /\ slots' = [p \in DOMAIN slots |-> IF p \in found THEN Empty ELSE slots[p]]
           /\ owned' = owned \ gone
           /\ free' = [u \in DOMAIN free |-> free[u] \cup {o.sector : o \in {g \in gone : g.track = u}}]
           /\ status' = IF found = {} THEN 62 ELSE 1
           /\ stayed' = stayed \ found
  /\ UNCHANGED <<type, chain, outcome, stream, listed>>

(* di_rename: the first file that matches; the new name is not looked for. *)
Rename(pattern, new, t) ==
  /\ Running
  /\ LET found == Matching(pattern, t)
     IN \/ /\ found = {}
           /\ status' = 62
           /\ UNCHANGED <<slots, stayed>>
        \/ /\ found # {}
           /\ slots' = [slots EXCEPT ![Min(found)].name = new]
           /\ stayed' = stayed \ {Min(found)}
           /\ status' = 0
  /\ UNCHANGED <<type, chain, free, owned, outcome, stream, listed>>

-----------------------------------------------------------------------------
(* Directory streams. *)

(* The header of a D81 as a stream sees it: its byte 2 is the 'D' of the   *)
(* format, which reads as an entry of type "rel" and no one's name.        *)
HeaderSlots == [p \in SlotsOf(0) |-> IF p = 0 THEN [type |-> "rel", name |-> "-"] ELSE Empty]

FirstListed == IF type = "D81" THEN 0 ELSE 1

BlockSlots(b) == IF b = 0 THEN HeaderSlots ELSE [p \in SlotsOf(b) |-> slots[p]]

(* di_opendir: the first block is read.  nextts is first_ts_in_dir, which  *)
(* is never 0, so that after the first block the link is followed as it is *)
(* then.                                                                   *)
OpenDir ==
  /\ Running /\ ~stream.open
  /\ stream' = [open |-> TRUE, at |-> FirstListed * SlotsPerBlock,
                buffer |-> BlockSlots(FirstListed), more |-> TRUE]
  /\ listed' = <<>>
  /\ stayed' = {p \in SearchSlots : slots[p].type \in FileTypes}
  /\ status' = 0
  /\ UNCHANGED <<type, chain, slots, free, owned, outcome>>

(* The slot as di_readdir reads it: copied or, if its block is still to be *)
(* read, as it is.                                                         *)
View(p) == IF p \in DOMAIN stream.buffer THEN stream.buffer[p] ELSE slots[p]

(* The entries that lie before the stream.  di_read stops at a block whose *)
(* nextts was 0 when it was read.                                          *)
Ahead ==
  {p \in DOMAIN slots :
     /\ p >= stream.at
     /\ p \in DOMAIN stream.buffer \/ stream.more
     /\ View(p).type # "del"}

(* As Refilled, with the cached link followed also after the first block,  *)
(* where it leads to the first block.                                      *)
RefilledFromCache(p, b, more) ==
  IF b = 1 /\ more
  THEN [open |-> TRUE, at |-> SlotsPerBlock, buffer |-> BlockSlots(1), more |-> Len(chain) > 1]
  ELSE IF more /\ b < Len(chain)
  THEN [open |-> TRUE, at |-> p, buffer |-> BlockSlots(b + 1), more |-> b + 1 < Len(chain)]
  ELSE [open |-> TRUE, at |-> p, buffer |-> <<>>, more |-> FALSE]

(* What di_read brings after block b. *)
Refilled(p, b, more) ==
  IF more /\ b < Len(chain)
  THEN [open |-> TRUE, at |-> p, buffer |-> BlockSlots(b + 1), more |-> b + 1 < Len(chain)]
  ELSE [open |-> TRUE, at |-> p, buffer |-> <<>>, more |-> FALSE]

(* di_readdir: empty slots are passed over, across blocks; the next block  *)
(* is read at once when the entry returned is the last of its own.         *)
ReadDir ==
  /\ Running /\ stream.open
  /\ IF Ahead = {}
     THEN /\ stream' = [stream EXCEPT !.buffer = <<>>, !.more = FALSE]
          /\ UNCHANGED listed
     ELSE LET p == Min(Ahead)
              b == BlockOf(p)
              more == IF p \in DOMAIN stream.buffer THEN stream.more ELSE b < Len(chain)
          IN /\ listed' = Append(listed, p)
             /\ stream' = IF BlockOf(p + 1) # b THEN Refilled(p + 1, b, more)
                          ELSE [open |-> TRUE, at |-> p + 1, more |-> more,
                                buffer |-> IF p \in DOMAIN stream.buffer THEN stream.buffer
                                           ELSE BlockSlots(b)]
  /\ UNCHANGED <<type, dirVars, stayed>>

(* di_closedir. *)
CloseDir ==
  /\ Running /\ stream.open
  /\ stream' = NoStream /\ listed' = <<>> /\ stayed' = {}
  /\ UNCHANGED <<type, dirVars>>

DirNext ==
  \/ \E n \in Names, t \in CreateTypes : Create(n, t)
  \/ \E p \in DOMAIN slots : StoreBlock(p)
  \/ \E pattern \in Patterns, t \in AskedTypes : Delete(pattern, t)
  \/ \E pattern \in Patterns, n \in Names, t \in AskedTypes : Rename(pattern, n, t)
  \/ OpenDir \/ ReadDir \/ CloseDir

DirSpec == Init /\ [][DirNext]_vars

-----------------------------------------------------------------------------
(* Properties. *)

(* No block is in the directory twice, or in the directory and free, or in *)
(* it and a file's: also on a D80, where files and the directory take      *)
(* blocks of the same track (alloc_next_dir_ts, alloc_next_ts).            *)
DirBlocksApart ==
  /\ IsInjective(chain)
  /\ ToSet(chain) \cap free[DirTrack(type)] = {}
  /\ \A o \in owned : o.track = DirTrack(type) => o.sector \notin ToSet(chain)

(* "di_opendir(), di_readdir(), di_closedir() parallel the stdlibc         *)
(* functions": no slot is returned twice, and when a listing has come to   *)
(* its end it has returned every entry that was there from its beginning   *)
(* unchanged, though others were created, deleted and renamed meanwhile    *)
(* and blocks added (cached block and nextts of the stream).               *)
ListedOnce ==
  /\ IsInjective(listed)
  /\ stream.open /\ stream.buffer = <<>> => stayed \subseteq ToSet(listed)

(* Except on a D80 the search for a directory block ends, and a new file   *)
(* is refused for want of room only when no slot that is looked at is      *)
(* empty and the directory's track has no free sector (alloc_file_entry,   *)
(* alloc_next_dir_ts).                                                     *)
DirectoryFills ==
  type # "D80" =>
    /\ outcome = "running"
    /\ status = 72 => EmptySlots = {} /\ free[DirTrack(type)] = {}

=============================================================================
