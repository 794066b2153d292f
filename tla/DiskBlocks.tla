----------------------------- MODULE DiskBlocks -----------------------------
(***************************************************************************)
(* How the blocks of a disk image go to files and come back, in            *)
(* diutil/diskimage.c: di_open for writing, di_write and di_close with     *)
(* alloc_next_ts, and di_delete with free_chain.  The image is a D64, D71  *)
(* or D81 that di_load_image has loaded: all blocks belong to files        *)
(* already on it, save for a few (the pool).  A D80 is left out: a byte of *)
(* its map that is always 0 is taken for an empty entry, and the first     *)
(* file to be opened is put over the cells of its last tracks.             *)
(*                                                                         *)
(* The map is kept by the cell: the count of a track and the set of its    *)
(* sectors whose bits say free.  Where alloc_next_ts reads a byte of the   *)
(* map for a count, NonzeroBytes tells from DiskGeometry what is in that   *)
(* byte.  A file is the sequence of its blocks, which the code keeps in    *)
(* the links of the blocks.  Files are names that have room in the blocks  *)
(* of the directory as it is or, on a D81, in new ones on its track.       *)
(***************************************************************************)
EXTENDS DiskGeometry, SequencesExt

CONSTANTS
  Types,   \* the image types
  Files,   \* the files the caller writes
  Pools    \* for each type, the sets of blocks that may be free at first

ASSUME BlocksAssumption ==
  /\ Types \subseteq {"D64", "D71", "D81"}
  /\ Pools \in [Types -> SUBSET SUBSET TrackSector]
  /\ \A type \in Types : \A pool \in Pools[type] :
       \A ts \in pool : TsIsValid(type, ts) /\ ts.track # DirBlock(type).track

VARIABLES
  type,        \* di->type
  count,       \* the count byte of each track
  free,        \* the sectors of each track whose bits are set
  blocksfree,  \* di->blocksfree
  chain,       \* the blocks of each file, in order
  state,       \* of a file: "absent", "writing", "closed" or "unclosed"
  buf,         \* of a file's 254 bytes of buffer: "empty", "some" or "full"
  outcome,     \* "running", "hung" in alloc_next_ts or "exited"
  pool,        \* history: the blocks free at first
  filled       \* history: how many buffers' worth each file was given

imageVars == <<count, free, blocksfree>>
fileVars  == <<chain, state, buf, filled>>
vars == <<type, imageVars, fileVars, outcome, pool>>

AllTracks == 1..Tracks(type)
SectorsOn(t) == 0..(SectorsPerTrack(type, t) - 1)

TypeOK ==
  /\ type \in Types
  /\ count \in [AllTracks -> Byte]
  /\ DOMAIN free = AllTracks /\ \A t \in AllTracks : free[t] \subseteq SectorsOn(t)
  /\ blocksfree \in 0..Blocks(type)
  /\ DOMAIN chain = Files /\ \A f \in Files : chain[f] \in Seq(ValidTS(type))
  /\ state \in [Files -> {"absent", "writing", "closed", "unclosed"}]
  /\ buf \in [Files -> {"empty", "some", "full"}]
  /\ outcome \in {"running", "hung", "exited"}
  /\ filled \in [Files -> Nat]
  /\ \A f \in Files : state[f] = "absent" => chain[f] = <<>> /\ buf[f] = "empty"

Init ==
  /\ type \in Types
  /\ pool \in Pools[type]
  /\ free = [t \in AllTracks |-> {ts.sector : ts \in {p \in pool : p.track = t}}]
  /\ count = [t \in AllTracks |-> Cardinality(free[t])]
  /\ blocksfree = Cardinality(pool)
  /\ chain = [f \in Files |-> <<>>] /\ state = [f \in Files |-> "absent"]
  /\ buf = [f \in Files |-> "empty"] /\ filled = [f \in Files |-> 0]
  /\ outcome = "running"

-----------------------------------------------------------------------------
(* The map. *)

(* di_is_ts_free.  Only the D64's looks at the count as well. *)
IsFree(ts) ==
  /\ ts.sector \in free[ts.track]
  /\ type = "D64" => count[ts.track] # 0

(* The bytes of the map that are not 0: counts, and eight bits at a time.  *)
NonzeroBytes ==
  {CountAt(type, t) : t \in {u \in AllTracks : count[u] # 0}}
  \cup UNION {{BitsAt(type, TS(t, s)) : s \in free[t]} : t \in AllTracks}

(* The tracks alloc_next_ts would stop at, by the bytes it takes for their *)
(* counts; it takes the first of them.                                     *)
Candidates ==
  LET nonzero == NonzeroBytes
  IN {t \in AllTracks \ Reserved(type) : AllocCountAt(type, t) \in nonzero}

HasFree(t) == \E s \in SectorsOn(t) : IsFree(TS(t, s))

(* The first free sector of track t from s on, and round. *)
FirstFree(t, s) ==
  LET spt == SectorsPerTrack(type, t)
      far == CHOOSE k \in 0..(spt - 1) :
               /\ IsFree(TS(t, (s + k) % spt))
               /\ \A j \in 0..(k - 1) : ~IsFree(TS(t, (s + j) % spt))
  IN TS(t, (s + far) % spt)

(* di_alloc_ts on a cell <<count, sectors>>; AllocUncounted is the same     *)
(* with the count kept.                                                    *)
AllocUncounted(cell, s) == <<cell[1], cell[2] \ {s}>>
Alloc(cell, s) == <<(cell[1] + 255) % 256, cell[2] \ {s}>>

Cell(t) == <<count[t], free[t]>>
SetCells(cells) ==
  /\ count' = [t \in AllTracks |-> cells[t][1]]
  /\ free' = [t \in AllTracks |-> cells[t][2]]

-----------------------------------------------------------------------------
(* Files. *)

LastOf(f) == IF chain[f] = <<>> THEN NoTS ELSE Last(chain[f])

(* As StoreBlock, with the first sector of the track taken. *)
StoreBlockFirst(f) ==
  LET found == Candidates
      t     == Min(found)
      ts    == TS(t, (LastOf(f).sector + WriteInterleave(type)) % SectorsPerTrack(type, t))
      cells == [[u \in AllTracks |-> Cell(u)] EXCEPT ![t] = Alloc(@, ts.sector)]
  IN
  /\ found # {}
  /\ SetCells(cells)
  /\ chain' = [chain EXCEPT ![f] = Append(@, ts)]
  /\ blocksfree' = blocksfree - 1
  /\ UNCHANGED outcome

(* The buffer goes to a block (the same lines in di_write and di_close).   *)
(* When there is no block, the link to 0/0 is followed to get_block_num,   *)
(* which exits.  A track whose count was read as not 0, though it has no   *)
(* free sector, is searched for ever.                                      *)
StoreBlock(f) ==
  LET found == Candidates
      t     == Min(found)
      ts    == FirstFree(t, LastOf(f).sector + WriteInterleave(type))
      cells == [[u \in AllTracks |-> Cell(u)] EXCEPT ![t] = Alloc(@, ts.sector)]
  IN
  \/ /\ found = {}
     /\ outcome' = "exited"
     /\ UNCHANGED <<imageVars, chain>>
  \/ /\ found # {} /\ ~HasFree(t)
     /\ outcome' = "hung"
     /\ UNCHANGED <<imageVars, chain>>
  \/ /\ found # {} /\ HasFree(t)
     /\ SetCells(cells)
     /\ chain' = [chain EXCEPT ![f] = Append(@, ts)]
     /\ blocksfree' = blocksfree - 1
     /\ UNCHANGED outcome

(* alloc_file_entry looks for an empty entry in the second map block of a  *)
(* D81 first: the bytes it takes for types (the first is the D of the      *)
(* version).                                                               *)
TypeBytes == IF type = "D81" THEN {At("bam2", 32 * k + 2) : k \in 1..7} ELSE {}

(* di_open(di, name, type, "wb") of a file that is not on the disk, while  *)
(* the map is not taken for an empty entry.                                *)
OpenWrite(f) ==
  /\ outcome = "running" /\ state[f] = "absent"
  /\ TypeBytes \subseteq NonzeroBytes
  /\ state' = [state EXCEPT ![f] = "writing"]
  /\ UNCHANGED <<type, imageVars, chain, buf, filled, outcome, pool>>

(* di_write of a few bytes: a long write is several of these.  A full      *)
(* buffer goes to a block first, unless blocksfree is 0 (status 72).       *)
Write(f) ==
  /\ outcome = "running" /\ state[f] = "writing"
  /\ \/ /\ buf[f] # "full"
        /\ buf' \in {[buf EXCEPT ![f] = b] : b \in {"some", "full"}}
        /\ filled' = IF buf[f] = "empty" THEN [filled EXCEPT ![f] = @ + 1] ELSE filled
        /\ UNCHANGED <<imageVars, chain, outcome>>
     \/ /\ buf[f] = "full" /\ blocksfree = 0
        /\ UNCHANGED <<imageVars, chain, buf, filled, outcome>>
     \/ /\ buf[f] = "full" /\ blocksfree # 0
        /\ StoreBlock(f)
        /\ buf' \in {[buf EXCEPT ![f] = b] : b \in {"some", "full"}}
        /\ filled' = [filled EXCEPT ![f] = @ + 1]
  /\ UNCHANGED <<type, state, pool>>

(* As Close, with the entry flagged in either case. *)
CloseFlagging(f) ==
  /\ outcome = "running" /\ state[f] = "writing"
  /\ IF buf[f] # "empty" /\ blocksfree # 0
     THEN StoreBlock(f) ELSE UNCHANGED <<imageVars, chain, outcome>>
  /\ state' = [state EXCEPT ![f] = "closed"]
  /\ buf' = [buf EXCEPT ![f] = "empty"]
  /\ UNCHANGED <<type, filled, pool>>

(* di_close.  What is in the buffer goes to a last block; if blocksfree is *)
(* 0 it is dropped and the entry is not flagged as closed (type |= 0x80).  *)
Close(f) ==
  /\ outcome = "running" /\ state[f] = "writing"
  /\ \/ /\ buf[f] = "empty"
        /\ state' = [state EXCEPT ![f] = "closed"]
        /\ UNCHANGED <<imageVars, chain, outcome>>
     \/ /\ buf[f] # "empty" /\ blocksfree # 0
        /\ StoreBlock(f)
        /\ state' = [state EXCEPT ![f] = "closed"]
     \/ /\ buf[f] # "empty" /\ blocksfree = 0
        /\ state' = [state EXCEPT ![f] = "unclosed"]
        /\ UNCHANGED <<imageVars, chain, outcome>>
  /\ buf' = [buf EXCEPT ![f] = "empty"]
  /\ UNCHANGED <<type, filled, pool>>

(* The cell of track t after di_free_ts for each of some blocks of a chain: *)
(* a free bit is set, and the count goes up whether it was set or not.     *)
CellFreeing(t, blocks, which) ==
  LET on == {i \in which : blocks[i].track = t}
  IN <<(count[t] + Cardinality(on)) % 256, free[t] \cup {blocks[i].sector : i \in on}>>

(* As FreeChain, with the last block of the chain passed over. *)
FreeChainButLast(blocks) ==
  [t \in AllTracks |-> CellFreeing(t, blocks, 1..(Len(blocks) - 1))]

(* The cells after free_chain. *)
FreeChain(blocks) ==
  [t \in AllTracks |-> CellFreeing(t, blocks, 1..Len(blocks))]

(* di_delete of a file that no one has open.  blocksfree is not raised.    *)
Delete(f) ==
  /\ outcome = "running" /\ state[f] \in {"closed", "unclosed"}
  /\ SetCells(FreeChain(chain[f]))
  /\ chain' = [chain EXCEPT ![f] = <<>>]
  /\ state' = [state EXCEPT ![f] = "absent"]
  /\ filled' = [filled EXCEPT ![f] = 0]
  /\ UNCHANGED <<type, blocksfree, buf, outcome, pool>>

Next == \E f \in Files : OpenWrite(f) \/ Write(f) \/ Close(f) \/ Delete(f)

Spec == Init /\ [][Next]_vars

-----------------------------------------------------------------------------
(* Properties. *)

Owned == UNION {ToSet(chain[f]) : f \in Files}
FreeBlocks == UNION {{TS(t, s) : s \in free[t]} : t \in AllTracks}

(* A block belongs to one place of one file, and to no file while the map  *)
(* says it is free: deleting or extending a file never touches another's   *)
(* data (alloc_next_ts, di_write, di_close, free_chain).                   *)
NoBlockShared ==
  /\ Owned \cap FreeBlocks = {}
  /\ \A f, g \in Files : \A i \in DOMAIN chain[f], j \in DOMAIN chain[g] :
       chain[f][i] = chain[g][j] => f = g /\ i = j

(* Every block that was free at first is free or some file's, so that the  *)
(* files' being written and deleted never leaks a block (alloc_next_ts     *)
(* against free_chain), and the count of each track is the number of its   *)
(* free sectors (di_track_blocks_free against the bits).                   *)
NoBlockLost ==
  /\ FreeBlocks \cup Owned = pool
  /\ \A t \in AllTracks : count[t] = Cardinality(free[t])

(* "assertion, should never happen": on a D64 or D81, while blocksfree is  *)
(* not 0, alloc_next_ts finds a block, so that get_block_num is never      *)
(* asked for 0/0, which ends the process with the image unsaved, and no    *)
(* search runs on for ever (di_write, di_close).  On a D71 either can      *)
(* happen.                                                                 *)
AllocFinds == type \in {"D64", "D81"} => outcome = "running"

(* "allocate next available block": the search for a free sector ends, for *)
(* a track is searched only when it has one (alloc_next_ts).  On a D71 the *)
(* counts of the second side are read from the bytes of the bitmaps.       *)
AllocEnds == outcome # "hung"

(* A file flagged as closed has all that its writes accepted: di_close     *)
(* drops a buffer only of a file that it leaves unflagged.                 *)
FlaggedFilesAreWhole ==
  \A f \in Files :
    state[f] = "closed" /\ outcome = "running" => Len(chain[f]) = filled[f]

=============================================================================
