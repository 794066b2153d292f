------------------------------ MODULE DiskFiles ------------------------------
(***************************************************************************)
(* The files of a disk image as diutil/diskimage.c keeps them: blocks with *)
(* links, entries with a first block, writers that link block after block  *)
(* into the image, readers that follow the links while others write and    *)
(* delete, and the image's way to its file on the host and back (di_sync,  *)
(* di_free_image, di_load_image).                                          *)
(*                                                                         *)
(* A buffer of 254 bytes is a part: the number of the file it is of, in    *)
(* the order of their creation, and its place there; a last buffer that is *)
(* not full is stored and read back as a whole one, for its block is       *)
(* marked 0/255.  alloc_next_ts takes some free block (DiskBlocks says     *)
(* which) and a directory has NumSlots entries (DiskDirectory has them     *)
(* grow).  Names are whole names, and the caller renames only to names     *)
(* that no file has.                                                       *)
(***************************************************************************)
EXTENDS Naturals, FiniteSets, SequencesExt

CONSTANTS
  Blocks, Names, NumSlots,
  Writers, Readers,  \* the streams the program may have open
  NoBlock, EndMark,  \* the links 0/0 and 0/255
  MaxCreates,        \* bound: files created
  MaxLoads           \* bound: times the image is loaded again

ASSUME FilesAssumption ==
  /\ IsFiniteSet(Blocks) /\ NoBlock \notin Blocks /\ EndMark \notin Blocks /\ NoBlock # EndMark
  /\ NumSlots \in Nat /\ MaxCreates \in Nat /\ MaxLoads \in Nat

Slots == 1..NumSlots

(* File 0 is what was in the blocks before. *)
Part == [file : 0..MaxCreates, index : Nat]
Junk == [file |-> 0, index |-> 0]

(* type "del" is 0; closed is bit 7 of the type.  An entry that is deleted *)
(* keeps its name.                                                         *)
Entry == [type : {"del", "file"}, closed : BOOLEAN, name : Names \cup {"-"},
          start : Blocks \cup {NoBlock}, size : Nat, id : 0..MaxCreates]
Vacant(n) == [type |-> "del", closed |-> FALSE, name |-> n, start |-> NoBlock, size |-> 0, id |-> 0]
NewEntry(n, id) ==
  [type |-> "file", closed |-> FALSE, name |-> n, start |-> NoBlock, size |-> 0, id |-> id]

VARIABLES
  image,       \* di->image: links and data of the blocks, the map, the entries
  blocksfree,  \* di->blocksfree
  modified,    \* di->modified
  file,        \* the image's file on the host: whole, and then the image in it;
               \* lost is history: cut short with nothing left to remember it
  writers,     \* the ImageFiles open for writing
  readers,     \* the ImageFiles open for reading
  outcome,     \* "running" or "ended"
  created,     \* the number of files created
  loads,       \* the number of times the image was loaded again
  torn         \* history: whether a file was deleted that was open for writing

vars == <<image, blocksfree, modified, file, writers, readers, outcome, created, loads, torn>>

Image == [link : [Blocks -> Blocks \cup {NoBlock, EndMark}], data : [Blocks -> Part],
          free : SUBSET Blocks, dir : [Slots -> Entry]]

(* ts: the last block stored; buf: "empty", "some" or "full"; next: the    *)
(* part that is in the buffer.                                             *)
NoWriter == [open |-> FALSE, slot |-> 0, id |-> 0, ts |-> NoBlock, buf |-> "empty", index |-> 0]

(* ts, nextts: as in the code; unread: whether the block at ts is to be    *)
(* read; got: what was read.  stale and whole are history: the file was    *)
(* deleted since; it had no writer when it was opened.                     *)
NoReader == [open |-> FALSE, slot |-> 0, ts |-> NoBlock, nextts |-> NoBlock, unread |-> FALSE,
             got |-> <<>>, eof |-> FALSE, stale |-> FALSE, whole |-> FALSE]

TypeOK ==
  /\ image \in Image /\ blocksfree \in 0..Cardinality(image.free) /\ modified \in BOOLEAN
  /\ file.whole \in BOOLEAN /\ file.lost \in BOOLEAN /\ file.image \in Image
  /\ \A w \in Writers : writers[w].open =>
       /\ writers[w].slot \in Slots /\ writers[w].ts \in Blocks \cup {NoBlock}
       /\ writers[w].index \in Nat \ {0}
  /\ \A r \in Readers : readers[r].open =>
       /\ readers[r].slot \in Slots /\ readers[r].ts \in Blocks
       /\ readers[r].nextts \in Blocks \cup {EndMark}
       /\ readers[r].got \in Seq(Part)
  /\ outcome \in {"running", "ended"}
  /\ created \in 0..MaxCreates /\ loads \in 0..MaxLoads /\ torn \in BOOLEAN

Blank == [link |-> [b \in Blocks |-> NoBlock], data |-> [b \in Blocks |-> Junk],
          free |-> Blocks, dir |-> [s \in Slots |-> Vacant("-")]]

(* A formatted image, as di_load_image finds it. *)
Init ==
  /\ image = Blank /\ blocksfree = Cardinality(Blocks) /\ modified = FALSE
  /\ file = [whole |-> TRUE, lost |-> FALSE, image |-> Blank]
  /\ writers = [w \in Writers |-> NoWriter] /\ readers = [r \in Readers |-> NoReader]
  /\ outcome = "running" /\ created = 0 /\ loads = 0 /\ torn = FALSE

Running == outcome = "running"

-----------------------------------------------------------------------------
(* Links and entries. *)

(* The blocks from b on, as next_ts_in_chain goes from one to the next; a  *)
(* link that is no block is the end.  Links that run in a circle have no   *)
(* end, and the loops of the code do not end then.                         *)
Chain(im, b) ==
  LET upto[n \in Nat] ==
        [c \in Blocks \cup {NoBlock, EndMark} |->
           IF n = 0 \/ c \notin Blocks THEN <<>> ELSE <<c>> \o upto[n - 1][im.link[c]]]
  IN upto[Cardinality(Blocks)][b]

ChainEnds(im, b) == LET c == Chain(im, b) IN c # <<>> => im.link[Last(c)] \notin Blocks

Files(im) == {s \in Slots : im.dir[s].type = "file"}
FilesNamed(n) == {s \in Files(image) : image.dir[s].name = n}

(* alloc_file_entry: a slot is in use when its type byte is not 0. *)
InUse(s) == image.dir[s].type = "file" \/ image.dir[s].closed
Taken(n) == \E s \in Slots : InUse(s) /\ image.dir[s].name = n
EmptySlots == {s \in Slots : ~InUse(s)}

HasWriter(s) == \E w \in Writers : writers[w].open /\ writers[w].slot = s

(* di_open(di, name, type, "wb"). *)
OpenWrite(w, n) ==
  /\ Running /\ ~writers[w].open
  /\ ~Taken(n) /\ EmptySlots # {} /\ created < MaxCreates
  /\ LET s == Min(EmptySlots)
     IN /\ image' = [image EXCEPT !.dir[s] = NewEntry(n, created + 1)]
        /\ writers' = [writers EXCEPT ![w] =
             [NoWriter EXCEPT !.open = TRUE, !.slot = s, !.id = created + 1, !.index = 1]]
  /\ created' = created + 1
  /\ modified' = TRUE
  /\ UNCHANGED <<blocksfree, file, readers, outcome, loads, torn>>

-----------------------------------------------------------------------------
(* Writing. *)

(* The image with writer w's buffer in block b, which is linked to the     *)
(* last one and marked as the end.                                         *)
Linked(w, b) ==
  LET wr == writers[w]
      tied == IF wr.ts = NoBlock
              THEN [image EXCEPT !.dir[wr.slot].start = b]
              ELSE [image EXCEPT !.link[wr.ts] = b]
  IN [tied EXCEPT !.dir[wr.slot].size = @ + 1, !.free = @ \ {b},
                  !.data[b] = [file |-> wr.id, index |-> wr.index]]

(* As LinkedAndEnded, with the block left free in the map. *)
LinkedUnmapped(w, b) == [Linked(w, b) EXCEPT !.link[b] = EndMark, !.free = image.free]

LinkedAndEnded(w, b) == [Linked(w, b) EXCEPT !.link[b] = EndMark]

(* di_write of bytes that the buffer has room for; a longer write is this  *)
(* and WriteFull in turn.                                                  *)
Fill(w) ==
  /\ Running /\ writers[w].open /\ writers[w].buf # "full"
  /\ \E b \in {"some", "full"} : writers' = [writers EXCEPT ![w].buf = b]
  /\ UNCHANGED <<image, blocksfree, modified, file, readers, outcome, created, loads, torn>>

(* di_write with a full buffer, which goes to a block.  When blocksfree is *)
(* 0 nothing is written (status 72).                                       *)
WriteFull(w) ==
  /\ Running /\ writers[w].open /\ writers[w].buf = "full" /\ blocksfree # 0
  /\ \E b \in image.free :
       /\ image' = LinkedAndEnded(w, b)
       /\ writers' = [writers EXCEPT ![w].ts = b, ![w].buf = "empty", ![w].index = @ + 1]
  /\ blocksfree' = blocksfree - 1
  /\ modified' = TRUE
  /\ UNCHANGED <<file, readers, outcome, created, loads, torn>>

(* di_close: the rest goes to a last block, or is dropped when blocksfree  *)
(* is 0; the entry is flagged in the first case, and when there is no rest.*)
CloseWrite(w) ==
  /\ Running /\ writers[w].open
  /\ LET wr == writers[w]
         flagged(im) == [im EXCEPT !.dir[wr.slot].closed = TRUE]
     IN
     \/ /\ wr.buf = "empty"
        /\ image' = flagged(image)
        /\ UNCHANGED <<blocksfree, modified>>
     \/ /\ wr.buf # "empty" /\ blocksfree # 0
        /\ \E b \in image.free : image' = flagged(LinkedAndEnded(w, b))
        /\ blocksfree' = blocksfree - 1 /\ modified' = TRUE
     \/ /\ wr.buf # "empty" /\ blocksfree = 0
        /\ UNCHANGED <<image, blocksfree, modified>>
  /\ writers' = [writers EXCEPT ![w] = NoWriter]
  /\ UNCHANGED <<file, readers, outcome, created, loads, torn>>

-----------------------------------------------------------------------------
(* Deleting and renaming. *)

(* As Delete, with the map changed behind the back of di->modified. *)
DeleteQuietly(n) ==
  /\ Running /\ FilesNamed(n) # {}
  /\ \E s \in {t \in FilesNamed(n) : ChainEnds(image, image.dir[t].start)} :
       /\ image' = [image EXCEPT !.dir[s] = Vacant(n),
                                 !.free = @ \cup ToSet(Chain(image, image.dir[s].start))]
       /\ torn' = (torn \/ HasWriter(s))
       /\ readers' = [r \in Readers |->
            [readers[r] EXCEPT !.stale = @ \/ (readers[r].open /\ readers[r].slot = s)]]
  /\ UNCHANGED <<blocksfree, modified, file, writers, outcome, created, loads>>

(* di_delete: free_chain and type = 0.  Only di_free_ts sets modified, so  *)
(* not for a file without blocks; blocksfree is not raised.  No one looks  *)
(* whether the file is open.                                               *)
Delete(n) ==
  /\ Running /\ FilesNamed(n) # {}
  /\ \A s \in FilesNamed(n) : ChainEnds(image, image.dir[s].start)
  /\ LET gone   == FilesNamed(n)
         blocks == UNION {ToSet(Chain(image, image.dir[s].start)) : s \in gone}
     IN /\ image' = [image EXCEPT
             !.dir = [s \in Slots |-> IF s \in gone THEN Vacant(n) ELSE @[s]],
             !.free = @ \cup blocks]
        /\ modified' = (modified \/ blocks # {})
        /\ torn' = (torn \/ \E s \in gone : HasWriter(s))
        /\ readers' = [r \in Readers |->
             [readers[r] EXCEPT !.stale = @ \/ (readers[r].open /\ readers[r].slot \in gone)]]
  /\ UNCHANGED <<blocksfree, file, writers, outcome, created, loads>>

(* di_rename, which leaves modified as it is. *)
Rename(n, new) ==
  /\ Running /\ FilesNamed(n) # {} /\ ~Taken(new)
  /\ image' = [image EXCEPT !.dir[Min(FilesNamed(n))].name = new]
  /\ UNCHANGED <<blocksfree, modified, file, writers, readers, outcome, created, loads, torn>>

-----------------------------------------------------------------------------
(* Reading. *)

(* di_open(di, name, type, "rb"): no stream if there is no such file       *)
(* (status 62) or it has no block (66).                                    *)
OpenRead(r, n) ==
  /\ Running /\ ~readers[r].open
  /\ FilesNamed(n) # {}
  /\ LET s == Min(FilesNamed(n))
         b == image.dir[s].start
     IN /\ b # NoBlock
        /\ readers' = [readers EXCEPT ![r] =
             [NoReader EXCEPT !.open = TRUE, !.slot = s, !.ts = b, !.nextts = image.link[b],
                              !.unread = TRUE, !.whole = ~HasWriter(s)]]
  /\ UNCHANGED <<image, blocksfree, modified, file, writers, outcome, created, loads, torn>>

(* As Read, with the block read again when its end was reached. *)
ReadAgain(r) ==
  /\ Running /\ readers[r].open /\ ~readers[r].eof
  /\ LET rd == readers[r]
     IN IF rd.nextts \notin Blocks /\ ~rd.unread
        THEN readers' = [readers EXCEPT ![r].eof = TRUE]
        ELSE readers' = [readers EXCEPT ![r].unread = FALSE, ![r].nextts = image.link[rd.ts],
                                        ![r].got = Append(@, image.data[rd.ts])]
  /\ UNCHANGED <<image, blocksfree, modified, file, writers, outcome, created, loads, torn>>

(* di_read of one block's bytes, straight from the image.  Whether there   *)
(* is a next block is decided by the link that was there when this one was *)
(* reached, which it is by the link that is there now.                     *)
Read(r) ==
  /\ Running /\ readers[r].open /\ ~readers[r].eof
  /\ LET rd == readers[r]
         b  == image.link[rd.ts]
     IN \/ /\ rd.unread
           /\ readers' = [readers EXCEPT ![r].unread = FALSE,
                                         ![r].got = Append(@, image.data[rd.ts])]
        \/ /\ ~rd.unread /\ (rd.nextts \notin Blocks \/ b \notin Blocks)
           /\ readers' = [readers EXCEPT ![r].eof = TRUE]
        \/ /\ ~rd.unread /\ rd.nextts \in Blocks /\ b \in Blocks
           /\ readers' = [readers EXCEPT ![r].ts = b, ![r].nextts = image.link[b],
                                         ![r].got = Append(@, image.data[b])]
  /\ UNCHANGED <<image, blocksfree, modified, file, writers, outcome, created, loads, torn>>

(* di_close of a reader. *)
CloseRead(r) ==
  /\ Running /\ readers[r].open
  /\ readers' = [readers EXCEPT ![r] = NoReader]
  /\ UNCHANGED <<image, blocksfree, modified, file, writers, outcome, created, loads, torn>>

-----------------------------------------------------------------------------
(* The image's file. *)

(* The image's file after di_sync, with and without an error. *)
Rewritten == [whole |-> TRUE, lost |-> FALSE, image |-> image]
CutShort(lost) == [whole |-> FALSE, lost |-> lost, image |-> Blank]

(* What di_sync leaves: it truncates the file and writes it anew, and      *)
(* gives up when fwrite fails.  A failing fclose it does not see.  It may  *)
(* not get that far (fopen fails).                                         *)
Synced ==
  \/ file' = Rewritten /\ modified' = FALSE
  \/ file' = CutShort(~modified) /\ UNCHANGED modified
  \/ file' = CutShort(TRUE) /\ modified' = FALSE
  \/ UNCHANGED <<file, modified>>

Sync ==
  /\ Running
  /\ Synced
  /\ UNCHANGED <<image, blocksfree, writers, readers, outcome, created, loads, torn>>

NoStreams == writers' = [w \in Writers |-> NoWriter] /\ readers' = [r \in Readers |-> NoReader]

(* di_free_image, and the end of the program without it. *)
FreeImage ==
  /\ Running
  /\ IF modified THEN Synced ELSE UNCHANGED <<file, modified>>
  /\ outcome' = "ended"
  /\ NoStreams
  /\ UNCHANGED <<image, blocksfree, created, loads, torn>>

Crash ==
  /\ Running
  /\ outcome' = "ended"
  /\ NoStreams
  /\ UNCHANGED <<image, blocksfree, modified, file, created, loads, torn>>

(* di_load_image in the next program: a file that was cut short has none   *)
(* of the sizes it knows.                                                  *)
Load ==
  /\ outcome # "running" /\ file.whole /\ loads < MaxLoads
  /\ image' = file.image
  /\ blocksfree' = Cardinality(file.image.free)
  /\ modified' = FALSE
  /\ NoStreams
  /\ outcome' = "running" /\ loads' = loads + 1
  /\ UNCHANGED <<file, created, torn>>

Next ==
  \/ \E w \in Writers : Fill(w) \/ WriteFull(w) \/ CloseWrite(w) \/ \E n \in Names : OpenWrite(w, n)
  \/ \E n \in Names : Delete(n) \/ \E new \in Names : Rename(n, new)
  \/ \E r \in Readers : Read(r) \/ CloseRead(r) \/ \E n \in Names : OpenRead(r, n)
  \/ Sync \/ FreeImage \/ Crash \/ Load

Spec == Init /\ [][Next]_vars

-----------------------------------------------------------------------------
(* Properties. *)

Contents(im, s) ==
  LET blocks == Chain(im, im.dir[s].start)
  IN [i \in DOMAIN blocks |-> im.data[blocks[i]]]

(* The files of an image by name. *)
StoreOf(im) ==
  [n \in {im.dir[s].name : s \in Files(im)} |->
     Contents(im, CHOOSE s \in Files(im) : im.dir[s].name = n)]

Promise == INSTANCE FileStore WITH
  Parts <- [file : 1..MaxCreates, index : 1..Cardinality(Blocks)],
  store <- StoreOf(image),
  saved <- [whole |-> file.whole, store |-> StoreOf(file.image)]

(* Whatever is written, deleted and read in between, following the links   *)
(* from a file's entry gives the parts written to it in their order, an    *)
(* operation on one file changes no other though blocks are used again,    *)
(* and loading brings back what was saved; until a file is deleted that    *)
(* is open for writing (di_write, di_close, free_chain, di_sync).          *)
ImplementsStore == Promise!Spec

(* What a reader gets is the first part written to its file, the second,  *)
(* and so on, and at the end of a file that no one was writing all that    *)
(* were written, while blocks around it are freed and used again; unless   *)
(* the file is deleted (di_read, against di_write and free_chain).         *)
ReadsBack ==
  \A r \in Readers :
    LET rd == readers[r]
        e  == image.dir[rd.slot]
    IN rd.open /\ ~rd.stale /\ ~torn =>
         /\ Len(rd.got) <= e.size
         /\ \A i \in 1..Len(rd.got) : rd.got[i] = [file |-> e.id, index |-> i]
         /\ rd.eof /\ rd.whole => Len(rd.got) = e.size

(* An entry that differs from the saved one by its name or its flag, or    *)
(* the deletion of a file without blocks.                                  *)
SameData(now, then) ==
  /\ now.start = then.start
  /\ \/ /\ now.type = then.type /\ now.size = then.size /\ now.id = then.id
        /\ then.closed => now.closed
     \/ now.type = "del" /\ then.start = NoBlock

(* While modified is 0, so that di_free_image saves nothing, the image's   *)
(* file is whole and has every block, the map and the entries as they are, *)
(* but for names, flags and deleted empty files, or it was cut short by a  *)
(* di_sync that did not need to write, or by an fclose whose failure       *)
(* di_sync did not see: any other torn write-back is remembered, and made  *)
(* again (di_alloc_ts, di_free_ts, di_open and di_sync, against di_rename, *)
(* di_close and di_delete).                                                *)
UnmodifiedIsSaved ==
  Running /\ ~modified =>
    IF file.whole
    THEN /\ image.free = file.image.free /\ image.link = file.image.link
         /\ image.data = file.image.data
         /\ \A s \in Slots : SameData(image.dir[s], file.image.dir[s])
    ELSE file.lost

=============================================================================
