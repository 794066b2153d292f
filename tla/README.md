# hostcm and diutil in TLA+

This directory holds a TLA+ description of the two programs of the repository:

* **hostcm** (`protocol.c`, `server.c`, `term.c`, `checksum.c`, ...): a server
  that lends the files of a POSIX host to a Commodore SuperPET on a serial line;
* **diutil** (`diutil/`): a library for Commodore disk images (D64, D71, D80,
  D81) with two small tools, `didir` and `diextract`.

TLC checks each module on small instances; TLAPS proves the theorems of the
`*Proofs` modules for every value of the constants their assumptions allow.

    tlc -config HostcmLink.cfg HostcmLink        # and so on, see "The runs"
    tlapm HostcmPartsProofs.tla                  # and so on, see "Proofs"

## Inventory

### hostcm

| Part | State it keeps | Operations | Correct when |
|---|---|---|---|
| server loop, `server.c:14-145` | `in`, `outbuf`, `count` (locals, not initialized) | receive a frame, test its checksum, answer NAK, dispatch on the first letter, resend for `N`, send; quit and exit | a command runs once however often frames are repeated; an answer is that of the command it follows |
| line, `term.c:14-149` | the tty's settings; the bytes of a frame not yet ended (locals of `receive`) | `setterm`, `receive`, `send` | frames arrive whole, whatever `read` returns; damage is seen |
| checksum, `checksum.c` | none | `checksum` | one damaged byte and frames run together change the letter |
| file table, `protocol.c:21-31` | `ftab[NFILES]`, 16 slots: stream, mode, format, type, record length | `hostopen`, `hostclose`, `hostput`, `hostget`, `hostseek`, `hostquit`, `hostinit` | a fileid means one file; slots come back; acknowledged data is kept |
| records, `protocol.c:261-439` | the stream's position | how `hostput` and `hostget` cut records into buffers | what was put is what is got; ends are flagged |
| names, `protocol.c:442-697` | `dirp`, `pfn`, the working directory | `hostdiropen/read/close`, `hostrenamefm/to`, `hostscratch` | a rename is of the file named; nothing stays pending without cause; a listing comes back to the working directory |
| responses, `protocol.c:767-815` | `outbuf` | `hostok`, `hosterror` | |
| hex codec, `xtob.c` | none | `xtob`, `btox`, in place | one undoes the other |
| options, messages | set once / none | `main.c`, `error.c` | |

One process, one thread, one command at a time.  The client is the SuperPET's
ROM: half duplex, it sends a command and waits.  What makes the system hard is
therefore not concurrency inside the server but the line between the two
(damage, lost line ends, repetition), the ends of either side at any moment
while the other goes on, the state that stays between commands (`outbuf`,
`ftab`, `dirp`, `pfn`, the working directory, buffers of the C library),
failures of the host's calls half way through a handler, and the edges of fixed
buffers.

### diutil

| Part | State it keeps | Operations | Correct when |
|---|---|---|---|
| geometry, `diskimage.c:191-336` | none | tracks, sectors per track, block numbers, interleave | every track and sector is one block of the image |
| block map, `diskimage.c:420-766` | counts and bits in one or two blocks of the image; `blocksfree` | `di_is_ts_free`, `di_alloc_ts`, `di_free_ts`, `alloc_next_ts`, `free_chain` | counts are the numbers of set bits; a block has one owner |
| format, `diskimage.c:1385-1670` | the image | `di_format` | afterwards all but its own blocks are free |
| directory, `diskimage.c:663-703`, `1005-1108`, `1673-1711` | blocks of eight entries in a chain | find by pattern, allocate, extend, rename, delete | entries only in the directory; a listing has each of them; it grows while there is room |
| files, `diskimage.c:1112-1382` | an `ImageFile`: its block, the next, a buffer of one block | `di_open`, `di_read`, `di_write`, `di_close` | what is read is what was written, whatever happens to other files |
| load, create, sync, `diskimage.c:769-1002` | `modified`; the file | | what was saved comes back; what changed is saved |
| directory streams, `di_dirent.c` | a copied block, the link as it was read | `di_opendir`, `di_readdir`, `di_closedir` | each entry once |
| tools, `didir.c`, `diextract.c` | | list, extract | each entry has an output, opened for that entry |

No tool of the repository calls the writing half of the library; the model
takes any sequence of calls its interface allows.

## Modules

| Module | Models |
|---|---|
| `HostcmRpc` | abstract: remote calls, one at a time, executed once, answered with that execution's outcome or abandoned |
| `HostcmLink` | the server loop, the client's repetitions and the line; implements `HostcmRpc` |
| `HostcmFraming` | the same loop's bytes: reads, line ends, parity marks, checksum |
| `HostcmFiles` | the file table, stdio streams, disk, ends of the process |
| `HostcmFilesProofs` | its theorems |
| `HexCodec` | operators: `xtob` and `btox` on a buffer |
| `HostcmRecords` | one file, byte by byte: records through `hostput` and `hostget` |
| `HostcmNames` | listing, rename, scratch with the working directory |
| `HostcmPartsProofs` | the theorems of `HostcmLink`, `HostcmNames`, `HostcmFraming` and `HostcmRecords` |
| `HostcmServer` | `HostcmLink` and `HostcmFiles` together, under a client that writes a file |
| `HostcmServerProofs` | its theorems; instantiates `HostcmFilesProofs` |
| `DiskGeometry` | operators: tracks, sectors, block numbers, the map's layout |
| `DiskGeometryProofs` | its theorems |
| `DiskFormat` | `di_format` on the bytes of the map |
| `DiskFormatProofs` | its theorems |
| `DiskBlocks` | which blocks are allocated and freed, on D64, D71 and D81 images |
| `DiskBlocksProofs` | its theorems; rests on `DiskGeometryProofs` |
| `DiskDirectory` | the directory on D64, D80 and D81 images, and directory streams |
| `DiskExtract` | `diextract` on a directory of `DiskDirectory` |
| `DiskDirectoryProofs` | the theorems of both |
| `FileStore` | abstract: files that are sequences of parts, saved and loaded as a whole |
| `DiskFiles` | links, entries, writers, readers, the image's file; implements `FileStore` |
| `DiskFilesProofs` | its theorems |
| `MC*` | constants for TLC |

`HostcmLink` rests on `HostcmFraming` for what the checksum sees
(`ChecksumFails`), and leaves to `HostcmFiles` and `HostcmNames` what a command
does.  There a command is one step (`hostdirread` is three), and in `HostcmFiles` and `HostcmNames` each
command is carried out once; `HostcmServer` has no such premise: it instantiates
the link and the file table and has the frames of the one carried out on the
other.  `HostcmFiles` takes a record for one value and leaves its bytes to
`HostcmRecords`, which extends `HexCodec`.

`DiskFormat`, `DiskBlocks` and `DiskDirectory` extend `DiskGeometry`,
`DiskExtract` extends `DiskDirectory`.  The disk modules divide the library by
what a property needs to see: `DiskBlocks` which block is taken, `DiskFiles`
what links and contents are whichever block it is, `DiskDirectory` where entries
lie, `DiskFormat` the bytes of the map.

### How state and actions correspond to the code

**HostcmLink.**  `spc` is where the loop is: in `receive()`, about to `send()`,
or no process.  `outbuf` is the local of that name, `partial` the bytes
`receive()` holds.  `Reject`, `Dispatch` and `Resend` are one
turn of the loop each up to `send()`, `Send` is the rest.  A command is its call
number and its handler an outcome in `Codes`; `executions` and `outcome` are
history.  `Issue`, `OnResponse`, `GiveUp` are the client, external, read off
what the server answers to.  A new process has an uninitialized `count`, so a
first `N` sends nothing or rubbish: both are in `Resend` and `Send`.

**HostcmFraming.**  `Read` is one `read()` and returns any prefix of what has
arrived; a frame ends where the last byte read is a line end or the buffer is
full, so that a line end in the middle of a read ends nothing.  `Marked` is
PARMRK: a byte with a parity error becomes `\377 \0` and itself.  The line stays
up: a `read()` that fails or returns nothing ends the process, which is
`HostcmLink`'s `Exit`.

**HostcmFiles.**  `ftab[i]` is an entry with its stream: position and the
records the C library holds back (`wbuf`).  `Put` leaves its record there or
writes out some prefix.  Every call of the host may fail: `fopen` of either name,
`fwrite`, `fseek`, the flush or the read of a `get`, and `fclose`, which makes the
entry `dangling`: the stream is freed and the pointer kept.  `holds` is what the
client believes: a fileid it holds, one whose close was `refused`, which it may
use again, or a `stale` one of a server before.  A command that hands the C
library a null or a freed stream may do anything; the model has the process
crash.  `Requests` are the opens the client asks for.  `view`, `clean`, `orphans`
are history.

**HostcmRecords.**  `SENDBUF` is a constant, and the constants derived from it
(`TextMax`) are as in the code.  The client cuts records into puts of at most
`PutBuf` bytes, of which the last is flagged `z`.

What the records hold is a constant too (`Record`): any bytes, but no line end
in a line.

What is sent of a file of format `b` goes through `Xtob`, what is got through
`Btox`; both are written as the loops of the code, since what matters is the
order in which a buffer is overwritten.

**HostcmServer.**  A step of the link and what it means for the files are one
action: `Dispatch` is `HostcmLink`'s with the action of the handler in
`HostcmFiles`, and the handler's result is the outcome of the call (`Replied`).
The client makes the calls of `Script` with the fileid its open was answered.
`DispatchCrashing` is a put on no stream, or a close repeated after one that
failed, that takes the process down; `Exit` is the end of the process in both
modules.  The one-byte `N` can be damaged here
(`GarbleNak`); without a mark it is then a letter no command begins with
(`UnknownCommand`).  `putBy` and `answered` are history.

**HostcmNames.**  `dirp`, `pfn` and `cwd` are the server's.  `hostdirread` is cut
where its working directory is another one, since other programs go on
meanwhile and a stat or a `chdir` back may fail: `DirRead` as far as the push,
`StatEntry`, then `Pop` after a stat that succeeded and `PopUnchecked` after one
that failed.  `at`, `entry` and `pcwd` are where it is and its locals; the server
takes no other command before it is through.  `home` (where start or
`diropen -e` has put the server), `strayed` (a `chdir` back has failed), `meant`,
`chdirs` and `stuck`, the causes that leave `pfn` or `dirp` set, are history.

**DiskFormat.**  `map` holds the bytes of the two map blocks; each turn of the
two loops is a `FreeNext`.  Header text and directory are left out: they share
no byte with the map's cells.

**DiskBlocks.**  The map is kept by the track: count byte and set of free
sectors.  Where `alloc_next_ts` reads a byte of a bitmap for a count
(`diskimage.c:643`), `NonzeroBytes` says which bytes are not 0.  A write that
fills many blocks is many `Write`s.  `StoreBlock` is the part that `di_write`
and `di_close` share.  The same operator says when a D81's file can be opened
without its entry being put over the map (`TypeBytes`).

**DiskDirectory.**  `slots` are the entries in the order of the chain.  Block 0
stands for the block that is no directory block and is read as one: for
`alloc_file_entry` the second map block, where `di->bam` of a D80 or D81 links
to, with its nonzero bytes as entries of no one; for a stream of a D81 the
header.  `free` is the map of the directory's tracks only, and `StoreBlock` what
files take of it on a D80.  A pattern is the set of names it matches.  The
`stream` has the copy of its block and `more`, whether the link was 0 when the
block was read; a stream whose copy was not read yet looks at the directory.

**DiskExtract.**  `Library` is a program that has made the image what it is;
then `Start` and a turn of the loop for each `ExtractNext`.  `naming` says how
the image's names act as patterns, which of them are the same text, which `-e`
compares, and which of those become the same output name once `/` is `~`;
`lengths` are the record lengths that are put before it.  `Copy` has what the
exit status does not tell: a `di_read` that ends early, a size that is not the
entry's, an `fclose` that fails (`whole`).

**DiskFiles.**  A part is one buffer.  `image` is `di->image`, `file` the
host's file: whole with an image in it, or cut short; `lost` when it was cut
short with `modified` 0 behind it.  `Synced` has the three ways `di_sync` can go
wrong: `fopen`, `fwrite`, and the `fclose` it does not look at.  `Read` has the decision
of `di_read` on the link that was there when the block was reached and the step
along the link that is there now.  `created`, `loads`, `torn`, and in a reader
`stale` and `whole`, are history.

## The runs

| Run | Module and config | What it shows |
|---|---|---|
| `link` | `HostcmLink`, `HostcmLink.cfg` | No call runs twice (`AtMostOnce`); the loop implements `HostcmRpc` (`ImplementsRpc`); a call is answered unless a line end is lost or the server goes away (`EveryCallAnswered`). The client's one-byte `N` is left alone. |
| `server` | `MCHostcmServer`, `HostcmServer.cfg` | With `N` damaged too, and disks, kills and restarts: each repetition costs two damaged frames (`RepetitionsCostTwo`), success is never a leftover (`SuccessIsOwn`), and a file whose close was answered with success holds the puts that were, in order, with an extra record for no less than two damaged frames (`ClosedFileIsComplete`). |
| `framing` | `MCHostcmFraming`, `HostcmFraming.cfg` | A clean line delivers what was sent however it is read (`CleanFramesArrive`); exactly which single flipped bits pass (`OneFlipSeen`); two frames run together are never a command (`RunTogetherSeen`). |
| `files` | `MCHostcmFiles`, `HostcmFiles.cfg` | Disk plus buffers are the acknowledged puts (`DiskPlusBuffer`), an orderly end makes them durable (`EndedStreamsAreDurable`), fileids mean their files and slots are lost only by failed closes (`HandlesMatch`), and the server crashes only on a freed stream or under a stale fileid (`CrashesHaveACause`). |
| `records` | `MCHostcmRecords`, `HostcmRecords.cfg` | Records that fit come back (`FittingRecordsComeBack`), end of file only at the end (`EofOnlyAtEnd`), reading ends (`ReadsEnd`). |
| `records_long` | `MCHostcmRecords`, `HostcmRecordsLong.cfg` | *violated*: lines of the buffer's size do not come back (`protocol.c:345`). |
| `names` | `MCHostcmNames`, `HostcmNames.cfg` | A rename takes the file that was named (`RenameIsOfTheNamed`), refusals have a cause (`RefusedForACause`), and a listing comes back to the working directory it left, unless the `chdir` back fails (`ListingComesBack`). |
| `format` | `DiskFormat`, `DiskFormat.cfg` | All four types: block numbers without gaps (`BlockNumbersAreDense`), counts match bits, cells apart (`OneCellAtATime`), `blocksfree` is the number of free bits on the tracks that are not reserved (`BlocksFreeMatchesBits`); whether the allocator finds them is for the next two runs. |
| `blocks` | `MCDiskBlocks`, `DiskBlocks.cfg` | Blocks neither shared nor lost, counts right, flagged files whole; on a D64 or D81 allocation always ends and finds a block (`AllocFinds`). |
| `blocks_hang` | `MCDiskBlocks`, `DiskBlocksHang.cfg` | *violated*: on a D71 `alloc_next_ts` searches a full track for ever (`diskimage.c:643`). |
| `extract` | `MCDiskExtract`, `DiskExtract.cfg` | The directory's blocks are its own (`DirBlocksApart`); the directory grows while its track has room, and the search for a block ends except on a D80 (`DirectoryFills`); listings are complete while the directory changes (`ListedOnce`); `diextract` that exits with 0 has an output for every entry asked for, opened for that entry unless its name finds as a pattern one of other text or record length (`ExtractedIsListed`). |
| `disk_files` | `MCDiskFiles`, `DiskFiles.cfg` | Files are what `FileStore` promises through writes, deletes, saves, crashes and reloads (`ImplementsStore`); readers get the parts that were written, in their order (`ReadsBack`); an image not flagged as modified differs from its file by names, flags and deleted empty files only, or the file was lost by a sync that was not needed or an `fclose` no one looked at (`UnmodifiedIsSaved`). |

Deadlock is not checked in any run: each module has an end that is one, a bound
used up or a program that is over.

### Bounds, and why they are enough

* `link`: 3 calls, 4 damaged frames, 2 lost line ends, 2 exits.  A stale answer
  needs an earlier call; a repeated one a damaged response, a damaged command
  and a restart between; the third call is there to follow a call that was
  given up.  What holds for larger bounds is proved.
* `server`: open, put, put, close; 6 damaged frames, which are 3 repetitions; 2
  lost line ends, a disk failure, 2 ends of the process.  Two puts are what an
  order needs; a repetition of each of open, put and close fits in.
* `framing`: two frames of one or two bytes out of six, and `N`, with one bit
  flipped or one line end lost.  The checksum is a sum modulo 16, so a byte
  counts by its low nibble: the six cover both ends of the range, the neighbour
  of a line end and the pairs whose sums make frames run together pass a weaker
  checksum.  Two frames are what one lost line end can join.
* `files`: a table of 2 slots; three designators, of which one has no format and
  means a relative file that exists, one is that file by its full name, and one
  has a format and another record length; modes `r`, `u`, `a`; 2 puts, and one
  each of a failure, an end of the process and a client restart.  Two slots are
  enough for two streams on a file and for a full table; the failure is at every
  place where the handlers call the host.  Which file a designator means depends
  on what exists: there is a file by the name the fallback would make of the one
  that has a format.  Which of the opens are made (`Requests`) is cut to those
  that differ in what `hostopen` does.
* `records`: `SENDBUF` is 11 instead of 98, and lengths lie below, at and above
  the room for a line (6), one buffer (11) and two.  The code's arithmetic is
  linear in `SENDBUF`.  Three records, of which any may be sought; those too long
  for a line have a byte that is a line end.
* `names`: two directories, two names; two failures, one file created or removed
  by others, one restart.  Two failures are a stat and the `chdir` back after it.
* `format`: nothing is scaled: all tracks of all types, blank (0) or used (255).
* `extract`: real geometry, directories of one block of 2 slots instead of 8 that
  may grow by every free sector of the track: on a D64 one, found only by going
  round the end of the track; on a D81 one; on a D80 one on each of its two
  tracks.  In a D80's and D81's second map block one byte is 0, which is what
  an entry is put over.  Names are plain, or one is a pattern for the other, or
  both are one text, or become one output name; a relative file has a record
  length or has none.
* `disk_files`: 3 blocks, 2 entries, 2 writers and a reader, 2 files created and
  one reload; a full image, a block that goes from one file to another under a
  reader, and two writers with one block left all occur.  What follows a delete
  under a writer is not followed further: nothing is promised of it.
* `blocks`: real geometry with the free blocks reduced to a few, placed at the
  first and last tracks, about the reserved tracks, in either loop of
  `alloc_next_ts`, and two on a track.  On a D81 seven more are free, one for
  each byte of the second map block that would else be taken for an empty entry.

### Fairness

`HostcmLink!FairSpec` has weak fairness on the server's steps and on the
client's handling of a response: a server that is up goes round its loop, and
the ROM polls the line.  Nothing is assumed of the user (calls, giving up), the
line, or whoever restarts the server; damage is bounded by `MaxGarbles`, which
is the assumption that noise ends.  `HostcmRecords!RecordsFairSpec` has weak fairness
on `Get`: the program that reads a file goes on reading.  The other modules
claim no liveness.

## Proofs

| Theorem | States |
|---|---|
| `HostcmPartsProofs!TypeCorrect` | `Spec => []TypeOK` |
| `HostcmPartsProofs!AtMostOnceCorrect` | `Spec => []AtMostOnce` |
| `HostcmPartsProofs!LinkImplementsRpc` | `Spec => ImplementsRpc` |
| `HostcmFilesProofs!FilesTypeCorrect` | `Spec => []TypeOK` |
| `HostcmFilesProofs!HandlesAreOfTheNamed` | `Spec => []HandlesMatch` |
| `HostcmFilesProofs!AcknowledgedIsKept` | `Spec => []DiskPlusBuffer` |
| `HostcmFilesProofs!EndedFilesAreDurable` | `Spec => EndedStreamsAreDurable` |
| `HostcmFilesProofs!CrashesAreCaused` | `Spec => CrashesHaveACause` |
| `HostcmServerProofs!RepetitionsAreDear` | `Spec => []RepetitionsCostTwo` |
| `HostcmServerProofs!SuccessIsNeverStale` | `Spec => SuccessIsOwn` |
| `HostcmServerProofs!ClosedIsComplete` | `Spec => []ClosedFileIsComplete` |
| `HostcmServerProofs!FilesAreDriven` | `Spec => F!Spec`: the composition implements `HostcmFiles` |
| `HostcmPartsProofs!NamesTypeCorrect` | `NamesSpec => []NamesTypeOK` |
| `HostcmPartsProofs!RefusalsHaveACause` | `NamesSpec => []RefusedForACause` |
| `HostcmPartsProofs!RenamesAreOfTheNamed` | `NamesSpec => RenameIsOfTheNamed` |
| `HostcmPartsProofs!ListingsComeBack` | `NamesSpec => []ListingComesBack` |
| `HostcmPartsProofs!FramingTypeCorrect` | `FramingSpec => []FramingTypeOK` |
| `HostcmPartsProofs!CleanFramesDelivered` | `FramingSpec => []CleanFramesArrive` |
| `HostcmPartsProofs!RunTogetherAreRefused` | `FramingSpec => []RunTogetherSeen` |
| `HostcmPartsProofs!FlipsAreSeen` | `FramingSpec => []OneFlipSeen` |
| `HostcmPartsProofs!RecordsTypeCorrect` | `RecordsSpec => []RecordsTypeOK` |
| `HostcmPartsProofs!FittingRecordsReturn` | `RecordsSpec => []FittingRecordsComeBack` |
| `HostcmPartsProofs!EofIsAtEnd` | `RecordsSpec => []EofOnlyAtEnd` |
| `DiskGeometryProofs!BlockNumInImage` | a valid track and sector is a block inside the image |
| `DiskGeometryProofs!BlockNumInjective` | two valid pairs are two blocks |
| `DiskGeometryProofs!CellsApart` | two tracks' cells of the map share no byte |
| `DiskFormatProofs!FormatVisitsEveryBlock` | `Spec => []BlockNumbersAreDense` |
| `DiskFormatProofs!FormatKeepsToOneCell` | `Spec => OneCellAtATime` |
| `DiskFormatProofs!FormatTypeCorrect` | `Spec => []TypeOK` |
| `DiskFormatProofs!FormatCountsMatch` | `Spec => []CountsMatchBits` |
| `DiskFormatProofs!FormatBlocksFree` | `Spec => []BlocksFreeMatchesBits` |
| `DiskBlocksProofs!BlocksTypeCorrect` | `Spec => []TypeOK` |
| `DiskBlocksProofs!BlocksHaveOneOwner` | `Spec => []NoBlockShared` |
| `DiskBlocksProofs!BlocksAreKept` | `Spec => []NoBlockLost` |
| `DiskBlocksProofs!AllocationFinds` | `Spec => []AllocFinds` |
| `DiskBlocksProofs!FlaggedAreWhole` | `Spec => []FlaggedFilesAreWhole` |
| `DiskDirectoryProofs!ToolTypes` | `Spec => []ToolTypeOK` |
| `DiskDirectoryProofs!BlocksStayApart` | `Spec => []DirBlocksApart` |
| `DiskDirectoryProofs!EntriesAreListed` | `Spec => []ListedOnce` |
| `DiskDirectoryProofs!FillsBeforeRefusing` | `Spec => []DirectoryFills` |
| `DiskDirectoryProofs!ListedAreExtracted` | `Spec => []ExtractedIsListed` |
| `DiskFilesProofs!FilesTypeCorrect` | `Spec => []TypeOK` |
| `DiskFilesProofs!NothingUnsaved` | `Spec => []UnmodifiedIsSaved` |
| `DiskFilesProofs!FilesReadBack` | `Spec => []ReadsBack` |
| `DiskFilesProofs!FilesImplementStore` | `Spec => ImplementsStore` |

The specifications of `HostcmNames`, `HostcmFraming` and `HostcmRecords` are
called `NamesSpec`, `FramingSpec` and `RecordsSpec`, so that one module can
extend them and `HostcmLink`.

Each argument below names the inductive invariant and why the property alone is
not inductive.  What is assumed is only what the modules assume of their
constants (the `ASSUME`s, which TLC evaluates in the runs) and the guards the
modules describe.

**Link.**  `AtMostOnce` alone is not inductive: that the server never sees a
command again depends on what the client sends, which depends on what `outbuf`
holds.  The invariant `OnceInv` has four parts.  `HalfDuplex`: a frame up, a
response in preparation and a response down exclude each other.
`NotYetExecuted`: before the current call's execution only its command can be
under way and `N` can fetch nothing but the NAK.  `ExecutedOnce`: afterwards no
command is under way and `N` can fetch nothing but this call's answer.
`Counts`: no call ran twice, no later call ran.  The refinement uses the same
invariant, step by step: a `Dispatch` is `Execute`, an accepted response is
`Return`, giving up is `Abandon`, all else stutters.

Assumed: `LinkAssumption` (the bounds are numbers), and what the module says of
the line: `LoseLineEnd` (no two line ends lost in a row, since three frames run
together can have a correct letter) and `Garble` (the client's one-byte `N` is
left alone).  The second is necessary, and `HostcmServer` says what is left
without it: a damaged `N` is answered with a NAK that is written over the
response `N` was to fetch, and the client then sends the command again.

**Files.**  `FilesInv` is the types with `Owned`, `Refusals`, `FewDangle`, `Alone`
and `Matches`.  `HandlesMatch` is `Owned` and a count: the entries a failed `fclose`
left dangling are no more than the failures so far (`FewDangle`).
`DiskPlusBuffer` needs two things more than itself.  `Alone`: a slot whose view
is still kept has its file to itself, so that another slot's flush changes
nothing under it.  `Matches` says the property of the content as the C library
leaves it (`Content`: the disk, with the buffer written at the stream's
position), and the lemmas on `WriteAt` say that a buffer may be written out in
any two parts (`WriteAtTwice`, `FlushedTwice`), since `fwrite` may keep any rest
of a put.  All commands on a slot are one of `Works` (the stream goes on) and
`Closes`; that each keeps `FilesInv` is proved of those two, that each command
is one of them by a lemma per command (`PutWorks`, `SeekWorks`, `GetWorks`,
`CloseIs`, `OpenIs`).  `EndedStreamsAreDurable` follows from the invariant and
what the recursion over the slots in `WrittenOut` computes (`WrittenOutIs`): a
clean stream's path is written by its own slot and by no other.
`CrashesHaveACause` follows from `Owned` and `Refusals` (a fileid whose close was
refused has its entry dangling): what the client uses is open, dangling or stale
(`UsedIsOpen`).

**Server.**  Three invariants, each on the one before.

`LinkInv` is about the frames.  `RepetitionsCostTwo` is not inductive: a
repetition is paid for before it happens.  `Debts` says how much is paid at each
point of a call that was carried out before: a damaged response, or an `N` under
way, has cost one frame; a damaged `N`, a NAK in `outbuf` or on the way, and the
command sent again have cost two.  `OwnAnswers` says the same of `SuccessIsOwn`:
what `N` can fetch, is being sent or is on the way is no success but the current
call's.  Both rest on `HalfDuplex`, on `Fragments` (what a lost line end left in
`receive()` meets a new call's command only) and on `NotAhead`.  The number of
repetitions is the size of the set `Repeated` of pairs of a call and an
execution after its first, so that it needs no sum (`ExecutionCounts`).

`FilesInv` of `HostcmFilesProofs` holds of the composition's table and disk:
every step is a step of `HostcmFiles` or leaves it alone (`FilesMove`).  That is
the refinement `FilesAreDriven`, and it is where the fact is used that the
fileid the client sends is a slot that an open was answered with (`Fileids`),
which `LinkInv` gives: a success that arrives is the open's own.

`ServerInv` adds the file itself.  `PutHistory`: the puts are numbered in the
order they were carried out, those of a later call are later, each put answered
with success is among them, and those beyond the calls' first are repetitions.
`OnPath` and `Streams`: while the host has reported no failure, the stream of
the fileid is at the end of the file and with what it holds back makes it all
puts so far, streams that repeated opens left behind hold nothing back, and once
a close succeeded the file on the disk is complete.  `ClosedFileIsComplete` puts
these together.  `ServerAssumption` and `ScriptAssumption` say that the bounds
are numbers and that a script is an open, puts, and a close.

**Names.**  `NamesInv` has, beside the types and `RefusedForACause`, two parts on
`Here`, the working directory or, in the middle of a listing, the one to come
back to.  `PendingIsMeant`: while the client has a rename half done, `pfn` is the
source it named or is gone, and `Here` is still the directory it was named in
unless it was moved.  `InPlace`: `Here` is the directory that start or
`diropen -e` chose, unless a way back has failed.  `ListingComesBack` speaks of
the server waiting for a command only; between push and pop it needs `InPlace`
of the saved directory.

**Framing.**  The core of `FramingInv` is that what `receive()` holds and what
is still on the line, put together (`Pending`), does not depend on how the reads
have cut it up: a read leaves it as it was or takes the whole of it
(`ReadStep`), since there is a line end at its end and nowhere else, and the
buffer is not full before.  So the invariant has a part for each kind of harm
that says what is pending: on a clean line (`CleanLine`) nothing, or the last
frame; with a line end lost (`RunTogetherLine`) also a frame without one, or
that frame and the next; with one bit flipped (`FlippedLine`) the damaged frame.
`CleanFramesArrive` alone is not inductive, as it says nothing while a frame is
under way.

What the loop makes of it is arithmetic.  `checksum()` adds its bytes up in a
fold, which `NibbleSumIs` shows to be the running sum; `SumOfBoth` says that the
sum of two sequences put together is that of their sums.  A frame with its
letter adds twice its sum and one, an odd number, so that the letter of the
frame behind it is never right (`TwoAreRefused`).  The marker `\377 \0` adds 15,
so a flip passes if it adds one to a low nibble, or takes one from the letter
(`FlipSeen`, from `FlipWeights`, which says so of each bit).

Assumed (`FramingAssumption`): a command has 7-bit bytes, at least one, and no
line end among them, and the buffer of `receive()` holds two frames that have
run together.  `RunTogetherSeen` leaves out the one-byte `N`: it has no letter
of its own, and the letter of the frame before it can be an `N`.

**Records.**  The two properties speak of a record that has come back, or of an
`e`, and say nothing of a record half read.  `RecordsInv` adds `RecordsHeld`:
the records have starts in the file (`LaidOut`), the file holds what was written
of them (`FileOf`, `RestOf` for a record still being put), and while they are
read, if they fit, the stream is at the start of `next` plus what `part` holds
(`Reads`).  A variable file is read as a run of bytes: `part` is the file up to
`pos`.

What one `get` brings is the codec and the count.  `BtoxIs` and `XtobIs` follow
the two loops of the codec, which work in the buffer, turn by turn: what is
behind the turn is done, what is ahead is not yet touched.  From them a client
is given the bytes the host read (`ClientReads`) and the host the bytes the
client put (`ClientWrites`).  `CountInRecord`, from `RemainderIs`, says that the
host never reads past the end of a fixed record, and answers `z` exactly when it
comes to it; `Fits` leaves out records of `SENDBUF` bytes, and lines the buffer
does not take.  `NextCRIs` says that the line end a text `get` stops at is that
of the record it is in.

Assumed (`RecordsAssumption`): `SENDBUF` is more than 5, the length of a fixed
record is not 0, and the bytes of a record are any, but for the line end in a
line of text.

**Geometry.**  Block numbers are compared by track: the base of a track plus its
number of sectors is at most the base of the next (`TrackBases`, then
`TracksInOrder`), and a sector is less than the track's number of sectors.
Cells are placed by type (`CellOfD64` and so on); `CellsApart` puts them
together.

**Format.**  `FormatInv` adds the loop's cursor to `BlockNumbersAreDense`: the
track and sector are valid in the loop, and `passed` is the cursor's block
number, which the last step of a track carries over to the next.
`FormatKeepsToOneCell` follows from `CellsApart`.

`CountsMatchBits` speaks of tracks the loop has left; the invariant, `CountsInv`,
of every track at every step.  `Visited` are the sectors of a track that have
been freed and not taken back: the count says how many they are, and their bits
are set (`CellsKept`).  That no other bits are set holds only when the loop is
over, since on a D80 the bits of track 50 are not cleared by the `memset`s, and
of a D71's track 53, which the loop skips, from the start.  A step on a byte of
bits changes one sector's bit and no other's (`UpdateIs`, from `AddingAWeight`
and `TakingAWeight`, which say so of 2^*bit* and a byte).

`BlocksFreeMatchesBits` compares two sums over tracks, of which neither is over
a subset of the other's on a D80.  `SumExists` gives a function that takes a
summand out of the sum in any order, `SumIs` says that it is what
`MapThenSumSet` computes.  With it track 53 of a D71 adds nothing, and tracks 39
and 50 of a D80 add 27 each (`D80TracksAlike`).

**Blocks.**  `MapInv` puts `NoBlockShared` and `NoBlockLost` together, since
freeing a chain adds blocks to the map that must not be there yet, and taking
one must take it from there; and it adds `PromiseIsKept`: `blocksfree` is at
most the number of free blocks (a delete does not raise it).  This is what
`AllocFinds` needs: while `blocksfree` is not 0 a free block is left, its track
is not one of the reserved, so its count is not 0, the byte `alloc_next_ts`
reads for that count is the count on a D64 or D81 (`CountsAreFound`, from
`CellsApart`), and one of its two loops comes to that track
(`CandidatesExist`); then the walk round the sectors from the interleaved one
meets it (`Round`, `FirstFreeIsFree`).  A D71 is outside of `AllocFinds`, as the
run `blocks_hang` shows.  `Whole` relates what a file holds to what its writes
accepted, buffer included.

**Directory.**  `DirInv` has three parts, one on the other: the directory, a
stream on it, and the tool.

`DirBlocksApart` needs `OwnedOnce`: when a file is deleted its blocks on the
directory's tracks go back to the map, and only if no block has two owners are
they not a block of the directory or of another file.  With it the search of
`alloc_next_dir_ts` is followed on each type: on all but the D80 it tests the
count of the track it searches, so it ends, and its walk round the sectors meets
a free one (`DirectoryFills`).  `ProperEntries`: only block 0 can have slots that
are neither entries nor empty.

`ListedOnce` speaks of a stream at its end.  The invariant says of every moment
that an entry that stayed is listed or lies before the stream, in the copied
block or in one that will be read (`Before`), that what is listed lies behind
it, each slot once, and that the copy of an entry that stayed is that entry.  The
last is what a create may break: it puts an entry in a slot of a block already
copied, which is then no entry that stayed.

`ToolInv` says that there are as many outputs as entries asked for that the tool
has come to (`Got`), each under its entry's name, and opened for it unless it is
`Ambiguous`: what `di_open` finds first for a name that is not is an entry of the
same text, type and record length.  That one would have been copied under the
same output name, and `fopen` with `wx` refuses the second.

Assumed: an image at first has a chain without repeats, entries or empty slots
in the blocks of its chain, and no block of the directory is free in the map
(`DirectoryAssumption`); a name matches itself as a pattern
(`NamingsAssumption`).

**Disk files.**  `Saved`, the types with `UnmodifiedIsSaved`, is inductive by
itself, deletes under a writer included, since every step that touches a link, a
block's data or the map sets `modified`, save those on files without a block;
for these one must know that a link to a block is never a link to nothing
(`NoLooseLinks`).  `Intact` holds until a file is deleted under its writer
(`torn`).  Its core is `Sound`: following the links from an entry goes through
as many blocks as its size says, none of them free, and the *i*th holds part *i*
of that file (`FileAt`).  From the data alone it follows that no block occurs
twice in a chain or in two files, so disjointness is not a part of the invariant
but a lemma (`FileAtApart`, `FilesApart`).  `WriterAt` and `ReaderAt` place the
streams on their chains, `StreamsApart` says who has a file to himself.
`ChainFound` is the lemma all of it rests on: a sequence of blocks linked one to
the next is what `Chain` computes.  `ReadsBack` follows, and so does the
refinement: a new entry is `FileStore`'s `Create`, a block written its `Extend`
of the mapped store (`ExtendedStore`), a delete `Remove`, a rename `Move`, what
a sync leaves `Save`; from `torn` on, any step is a `Tear`.

**Induction.**  The induction theorems of the library take a predicate as a
parameter, which no installed prover can instantiate.  Where the proofs need
induction over numbers it is stated about a *set* of numbers (`Induct`, from
`WFMin`), and a recursive function is shown to be what its equations say by
`Iterates` or `Recursion`; this is how `Chain`, `WrittenOut`, the search for a
minimum and the sums of `DiskFormat` are reasoned about.

### What is only model-checked

* Liveness (`EveryCallAnswered`, `ReadsEnd`): fairness and ENABLED are out of the
  prover's reach.

Every safety invariant and every action property a passing run checks is proved.

`HostcmFraming`, `HostcmRecords`, `HostcmNames`, `DiskFormat` and `DiskBlocks`
state a type invariant that no config names; they are proved too.

## Where code and documents disagree

Shown by runs marked *violated* above:

* `protocol.c:345`: when a line fills the buffer, the loop's test has read one
  byte more, which is lost: a byte of the line, or its line end, which joins
  two lines.
* `diskimage.c:643`: for tracks above 35 of a D71 the count is looked for at
  `bam2[(track - 35) * 4]`, in the bitmaps, where `di_track_blocks_free` has it
  in the first map block (`diskimage.c:436`).  The search may not end; or no
  block is found though some are free and `get_block_num` exits at its
  "assertion, should never happen" (`diskimage.c:282`).

Met while modelling, and described by the model without a run of their own:

* `protocol.c:333`: `ftab[i].mode = 'l'` in a condition, where `==` was meant: a
  get on a file open for write or append is not refused by this test and changes
  the mode.  The answer meant is "file not open, or not opened for read"
  (`protocol.c:435`).
* `protocol.c:295`: `hostput` does not test whether the fileid is open, while
  `hostclose`, `hostget` and `hostseek` do; the README promises that the server
  runs until interrupted.  A client that writes on after the server was started
  again is enough (`HostcmServer`, `DispatchCrashing`).
* A repeated open leaves a second stream open for good, and a repeated close is
  answered "file not open" though the file was closed (`HostcmServer`).
* A close that fails has freed the stream, and the table keeps the pointer
  (`protocol.c:241`): the client's second try, or the quit, hands `fclose` a freed
  stream (`CrashesHaveACause`).
* After a write that failed, puts that were answered with success before may be
  missing though the close is answered with success: `ClosedFileIsComplete`
  speaks of disks that reported no failure.
* `digression.txt:83` says seeks on variable files will fail; `hostseek` moves to
  a byte offset and answers ok (`protocol.c:737`).
* `digression.txt:114` and `protocol.c:137` say that an open with another record
  length fails; the length is part of the name, so a second file is made
  (`protocol.c:158`).
* `digression.txt:45` says that without a format `seq` is presumed; the
  format is assumed only if the name as given cannot be opened, which for write
  and append it always can (`protocol.c:187`).
* `protocol.c:338` says "get to the next EOR or to eof"; a last line without line
  end is dropped for an `e` (`protocol.c:354`).
* `protocol.c:388` sets the end flag for reads that cross a record boundary;
  with a record length of exactly `SENDBUF` it is never set
  (`protocol.c:398`).  `Fits` leaves that length out.
* `xtob` leaves a byte as it is where there are no two hex digits
  (`xtob.c:22`).
* `digression.txt:77-83` wants variable files to be byte streams; a put that ends
  a record adds a line end (`protocol.c:289`).
* On a D80 the count of track 50 goes into `blocksfree` and track 39's blocks are
  given out instead (`diskimage.c:616`): after a format the sum happens to be
  right, which is what `BlocksFreeMatchesBits` checks.  On a D71 it is right too,
  and yet `alloc_next_ts` need not find the blocks (`blocks_hang`).
* On a D80 or D81 `alloc_file_entry` begins in the second map block
  (`diskimage.c:1061`).  Where a byte of it that is taken for a type is 0, the
  entry is put over the map's cells and is not found afterwards.  On a D80 there
  always is one (byte 130, in the unused bits of a cell), so the first file
  opened for writing breaks the cells of the last tracks; on a D81 there is one
  when all of track 44, 60 or 76, or one of four groups of eight sectors, is in
  use.  On a D81, where that block ends the chain,
  the directory itself is not looked at: a name that exists is not found, and
  each new file gets a directory block of its own.  On every type
  `alloc_file_entry` compares names where `find_file_entry` matches patterns
  (`diskimage.c:1066`, `1043`), so a file created as `A*` is found as whatever
  file begins with `A` and comes first.
* `alloc_next_dir_ts` tests the free blocks of track 38 of a D80 and searches
  track 39, without end if that is full (`diskimage.c:668`); `DirectoryFills`
  leaves the D80 out.
* `di_rename` does not look for the new name (`diskimage.c:1706`): two entries can
  have one name.
* `di_rename`, the flag that `di_close` sets when there is nothing left to write,
  and `di_delete` of an empty file do not set `modified`, so that
  `di_free_image` does not save them; `UnmodifiedIsSaved` says what it does.
* `di_sync` truncates the file first.  If it fails on an image that was not
  modified, the file is cut short and `modified` still 0 (`diskimage.c:975`).
  Nor does it look at what `fclose` returns: a full disk found out there leaves a
  file cut short and `modified` 0 (`diskimage.c:987`).  `UnmodifiedIsSaved` allows
  these two and nothing else.
* A file that is deleted while it is open for writing leaves, once it is closed,
  the type byte 0x80: neither a file nor an empty slot, with a name that is
  refused for good (`diskimage.c:1376`, `1066`); its blocks are linked on though
  they may be another file's.  `FileStore` promises nothing then (`torn`).
* `di_close` marks the last block as if it were full (`diskimage.c:1365`), so that
  what is read ends with what the buffer held after the data.
* `diextract` opens an entry by its name, which `di_open` takes for a pattern: a
  name with `*` or `?` is extracted with the data of the first file it matches
  (`diextract.c:140`).  It exits with 0 though an output is cut short when
  `fclose` fails (`diextract.c:212`) or `di_read` ends early, which is only a
  message (`diextract.c:184`).  A file without data, two entries of one name, and the
  header of a D81, which is read as a directory block, end it with -1.

## Not modelled

* `main.c`: the command line; the options that matter are constants
  (`DirExt`, the line end).
* Error texts, debug output, the layout of directory entries in responses.
* Commands too short or malformed for the ROM to send (missing parentheses, a
  fileid out of range).
* The tty's other settings, modem lines, errors of its ioctls; what `receive()`
  holds of a frame when `read()` returns nothing, which it hands to the loop once
  before the process ends (`term.c:129`).
* An open whose assumed format does not fit the path (`protocol.c:192`): the path
  has room for `MAXPATHLEN` bytes, a frame of the client for 208.
* What a freed or null stream does but crash.
* `di_create_image`, which no program of the repository calls, and directories on
  images it created: their `di->dir` is the map block (`diskimage.c:886-967`).
* The error info some images carry, and images with broken links or cycles.
* `di_format`'s header, name and directory blocks; the blocks of a
  D80's files, which the first entry's damage to the map makes arbitrary; block 38/1 of a D80, which a file may own and in whose
  first bytes the map of track 50 lies (`diskimage.c:445`).
* `didir`, which prints what `di_readdir` returns; `diextract`'s options, pip
  command file and further images of a command line.
* The length of a file's last part.

## Plan

Done, in this order, because the link carries everything else and the file
table holds the user's data: `HostcmRpc`, `HostcmLink` and its proofs,
`HostcmFraming`, `HostcmFiles`, `HostcmRecords`, `HostcmNames`, `DiskGeometry`,
`DiskFormat` and their proofs, `DiskBlocks`; then what was left of the disk
library, `DiskDirectory`, `DiskExtract`, `FileStore` and `DiskFiles`, and the
composition `HostcmServer` with `HexCodec` below `HostcmRecords`.

The theorems came in the order of what depends on them: the link, geometry and
format; then names, blocks, the files of the image and the files of the host,
each for itself; then `HostcmServer`, whose proofs use those of the files; last
the directory with the tool, the framing, and the records.

Next in the models: a D80's map and block 38/1, with the cells of
track 50, as one array of bytes, and `DiskBlocks` on top of it.
