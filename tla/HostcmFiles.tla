---------------------------- MODULE HostcmFiles ----------------------------
(***************************************************************************)
(* The file table of protocol.c: hostopen, hostclose, hostput, hostget,    *)
(* hostseek and hostquit over the C library's buffered streams and the     *)
(* host's disk.  Each command is one step, as server() runs it; between    *)
(* two commands the process can be killed and started again.               *)
(*                                                                         *)
(* A file's content is a sequence of records, each the number of the put   *)
(* that wrote it (0 for a hole).  How records are cut into buffers and     *)
(* encoded is the subject of HostcmRecords.                                *)
(***************************************************************************)
EXTENDS Integers, Sequences, FiniteSets, FiniteSetsExt

CONSTANTS
  NFiles,        \* NFILES, the size of ftab
  Names,         \* file designators the client uses: [base, ext], ext may be ""
  Modes,         \* open modes the client uses, among r l w s u a
  RecordLengths, \* record lengths it gives; 0 is none given, for any type
  Types,         \* file types it uses, among t (text), v (variable), f (fixed)
  DefaultRL,     \* 80
  Requests,      \* the opens it asks for: <<mode, name, type, record length>>
  InitialDisk,   \* the paths that exist before the server is first started
  StaleHandles,  \* whether the client uses fileids of a server that is gone
  MaxPuts,       \* bound: records put
  MaxFaults,     \* bound: failures of the host's file system
  MaxExits,      \* bound: ends of the server process
  MaxReboots     \* bound: restarts of the client

ASSUME FilesAssumption ==
  /\ NFiles \in Nat \ {0} /\ DefaultRL \in Nat \ {0}
  /\ Modes \subseteq {"r", "l", "w", "s", "u", "a"}
  /\ Types \subseteq {"t", "v", "f"} /\ RecordLengths \subseteq Nat
  /\ StaleHandles \in BOOLEAN
  /\ MaxPuts \in Nat /\ MaxFaults \in Nat /\ MaxExits \in Nat /\ MaxReboots \in Nat

VARIABLES
  disk,     \* path -> content, for the paths that exist
  ftab,     \* slot -> entry of the file table, with its stream
  process,  \* "up", "quit", "killed" or "crashed"
  holds,    \* client: slot -> what it has under that fileid: nothing, a file
            \* "held" open, one whose close was "refused", a "stale" fileid
  view,     \* history: slot -> content the acknowledged puts should have made
  clean,    \* history: slots that shared their file with no other since they
            \* were opened, and none of whose puts failed
  orphans,  \* history: slots whose fileid the client forgot in a restart
  puts, faults, exits, reboots

client == <<holds, orphans, reboots>>
vars == <<disk, ftab, process, holds, view, clean, orphans,
          puts, faults, exits, reboots>>

Slots == 1..NFiles
Closed == [st |-> "closed"]
Nothing == [st |-> "none"]

-----------------------------------------------------------------------------
(* Paths. *)

(* The record length in force: fixed files default to 80, no other has one *)
(* (a client gives a length to fixed files only).                          *)
EffectiveRL(type, rl) ==
  IF type # "f" THEN 0 ELSE IF rl = 0 THEN DefaultRL ELSE rl

(* A fixed file is kept under a name that starts with its record length. *)
Given(name, rl) == [rl |-> rl, base |-> name.base, ext |-> name.ext]

(* A format is assumed when the given name has none and cannot be opened. *)
AnyName(name) == TRUE
LacksFormat(name) == name.ext = ""

AssumedFormat(mode, type) ==
  IF mode \in {"l", "s"} THEN "prg" ELSE IF type = "f" THEN "rel" ELSE "seq"

Assumed(name, rl, mode, type) ==
  [Given(name, rl) EXCEPT !.ext = AssumedFormat(mode, type)]

Paths == [rl : RecordLengths \cup {0, DefaultRL}, base : {n.base : n \in Names},
          ext : {n.ext : n \in Names} \cup {"prg", "rel", "seq"}]

ASSUME InitialDiskAssumption == InitialDisk \subseteq Paths

-----------------------------------------------------------------------------
(* Streams. *)

Padded(content, n) ==
  IF Len(content) >= n THEN content
  ELSE content \o [i \in 1..(n - Len(content)) |-> 0]

WriteAt(content, pos, data) ==
  LET c == Padded(content, pos) IN
  SubSeq(c, 1, pos) \o data \o SubSeq(c, pos + Len(data) + 1, Len(c))

(* What a content becomes when a stream's unwritten records reach it. *)
Flushed(content, f, data) ==
  IF f.flags = "a" THEN content \o data ELSE WriteAt(content, f.pos, data)

Flags(mode) == CASE mode \in {"r", "l"} -> "r"
                 [] mode \in {"w", "s"} -> "w"
                 [] mode = "u" -> "w+"
                 [] mode = "a" -> "a"

(* A new stream: wbuf holds records written to it and not yet to the disk, *)
(* which start at pos.                                                     *)
Stream(path, mode, type, rl) ==
  [st |-> "open", path |-> path, mode |-> mode, flags |-> Flags(mode),
   type |-> type, rl |-> rl, pos |-> 0, wbuf |-> <<>>]

IsOpen(i) == ftab[i].st = "open"
OpenOn(path) == {j \in Slots : IsOpen(j) /\ ftab[j].path = path}

Init ==
  /\ disk = [p \in InitialDisk |-> <<0>>]
  /\ ftab = [i \in Slots |-> Closed]
  /\ process = "up"
  /\ holds = [i \in Slots |-> Nothing]
  /\ view = [i \in Slots |-> <<>>]
  /\ clean = {} /\ orphans = {}
  /\ puts = 0 /\ faults = 0 /\ exits = 0 /\ reboots = 0

-----------------------------------------------------------------------------
(* The handlers. *)

(* An entry whose fclose failed keeps its pointer, so only "closed" is free. *)
Free == {i \in Slots : ftab[i].st = "closed"}

(* fopen(path, flags) succeeded in slot i. *)
Opened(i, path, mode, type, rl, name) ==
  LET content == IF mode \in {"r", "l", "a"} /\ path \in DOMAIN disk
                   THEN disk[path] ELSE <<>> IN
  /\ disk' = [p \in DOMAIN disk \cup {path} |-> IF p = path THEN content ELSE disk[p]]
  /\ ftab' = [ftab EXCEPT ![i] = Stream(path, mode, type, rl)]
  /\ view' = [view EXCEPT ![i] = content]
  /\ clean' = (clean \ OpenOn(path)) \cup (IF OpenOn(path) = {} THEN {i} ELSE {})
  /\ holds' = [holds EXCEPT ![i] = [st |-> "held", name |-> name, rl |-> rl]]

OpenRefused == UNCHANGED <<disk, ftab, view, clean, holds>>

(* The buffer for the path has MAXPATHLEN bytes and a frame of the client  *)
(* 208: the format always fits, which the code asks for.                   *)
Open ==
  /\ process = "up"
  /\ \E mode \in Modes, name \in Names, type \in Types, given \in RecordLengths :
       /\ <<mode, name, type, given>> \in Requests
       /\ type # "f" => given = 0
       /\ LET rl      == EffectiveRL(type, given)
              asked   == Given(name, rl)
              assumed == Assumed(name, rl, mode, type)
              i       == Min(Free)
          IN \E denied \in SUBSET {asked, assumed} :
               LET Opens(path) == path \notin denied
                                    /\ (mode \in {"r", "l"} => path \in DOMAIN disk)
               IN
               /\ faults' = faults + Cardinality(denied) /\ faults' <= MaxFaults
               /\ \/ Free = {} /\ OpenRefused
                  \/ /\ Free # {} /\ Opens(asked)
                     /\ Opened(i, asked, mode, type, rl, name)
                  \/ /\ Free # {} /\ ~Opens(asked) /\ LacksFormat(name) /\ Opens(assumed)
                     /\ Opened(i, assumed, mode, type, rl, name)
                  \/ /\ Free # {} /\ ~Opens(asked)
                     /\ LacksFormat(name) => ~Opens(assumed)
                     /\ OpenRefused
  /\ UNCHANGED <<process, orphans, puts, exits, reboots>>

(* The client uses a fileid it holds, also if its close was refused; with  *)
(* StaleHandles also one it was given by a server process that is gone.    *)
Uses(i) == process = "up" /\ holds[i] # Nothing

(* A command answered with an error, and nothing else done. *)
Refused == UNCHANGED vars

(* A disk once slot i's stream has been written out to it. *)
FlushedInto(d, i) ==
  IF ~IsOpen(i) \/ ftab[i].wbuf = <<>> THEN d
  ELSE [d EXCEPT ![ftab[i].path] = Flushed(@, ftab[i], ftab[i].wbuf)]

FlushedDisk(i) == FlushedInto(disk, i)

(* The disk once slots 1 to n have been written out in order, save those   *)
(* that are lost.                                                          *)
WrittenOut(n, lost) ==
  LET upto[k \in 0..NFiles] ==
        IF k = 0 THEN disk
        ELSE IF k \in lost THEN upto[k - 1] ELSE FlushedInto(upto[k - 1], k)
  IN upto[n]

(* The process is gone, and with it the table and all stream buffers. *)
Ends(how) ==
  /\ process' = how
  /\ exits' = exits + 1 /\ exits' <= MaxExits
  /\ ftab' = [j \in Slots |-> Closed]
  /\ holds' = [j \in Slots |-> IF StaleHandles /\ holds[j] # Nothing
                                 THEN [st |-> "stale"] ELSE Nothing]
  /\ view' = [j \in Slots |-> <<>>]
  /\ clean' = {} /\ orphans' = {}
  /\ UNCHANGED <<puts, reboots>>

(* A command that hands stdio a null or freed pointer: it may do anything, *)
(* modelled as the crash it is on the hosts the server is built for.       *)
Crash == Ends("crashed") /\ UNCHANGED <<disk, faults>>

(* close, seek and get look whether the fileid is open; they cannot tell a *)
(* freed stream.                                                           *)
NotOpen(i) ==
  \/ ftab[i].st = "closed" /\ Refused
  \/ ftab[i].st = "dangling" /\ Crash

(* As Close, with the stream dropped instead of closed. *)
CloseDiscarding(i) ==
  /\ Uses(i)
  /\ \/ /\ IsOpen(i)
        /\ ftab' = [ftab EXCEPT ![i] = Closed]
        /\ holds' = [holds EXCEPT ![i] = Nothing]
        /\ clean' = clean \ {i}
        /\ view' = [view EXCEPT ![i] = <<>>]
        /\ UNCHANGED <<disk, process, orphans, reboots, puts, faults, exits>>
     \/ ~IsOpen(i) /\ NotOpen(i)

(* fclose writes the stream out and frees it.  When it fails the stream is *)
(* freed all the same, but the table keeps the pointer, and the client,    *)
(* told that the close failed, the fileid: it may try again.               *)
Close(i) ==
  /\ Uses(i)
  /\ \/ /\ IsOpen(i)
        /\ \/ /\ disk' = FlushedDisk(i)
              /\ ftab' = [ftab EXCEPT ![i] = Closed]
              /\ holds' = [holds EXCEPT ![i] = Nothing]
              /\ UNCHANGED faults
           \/ /\ faults < MaxFaults /\ faults' = faults + 1
              /\ ftab' = [ftab EXCEPT ![i] = [st |-> "dangling"]]
              /\ holds' = [holds EXCEPT ![i] = [st |-> "refused"]]
              /\ UNCHANGED disk
        /\ clean' = clean \ {i}
        /\ view' = [view EXCEPT ![i] = <<>>]
        /\ UNCHANGED <<process, orphans, reboots, puts, exits>>
     \/ ~IsOpen(i) /\ NotOpen(i)

(* fwrite takes data for the streams that were not opened with "r". *)
TakesAll(f) == TRUE
Takes(f) == f.flags # "r"

(* hostput: fwrite leaves the record in the stream's buffer, or writes out *)
(* what the buffer held before it, or all of it.  When that fails the put  *)
(* is refused, and the records it had buffered stay or are gone.           *)
(* It does not look whether the fileid is open: fwrite(..., NULL) crashes. *)
Put(i) ==
  /\ Uses(i) /\ puts < MaxPuts
  /\ LET f == ftab[i]  t == puts + 1  data == Append(f.wbuf, t) IN
     \/ ~IsOpen(i) /\ Crash
     \/ IsOpen(i) /\ ~Takes(f) /\ Refused
     \/ /\ IsOpen(i) /\ Takes(f)
        /\ puts' = t
        /\ \E n \in {0, Len(f.wbuf), Len(data)} :
             /\ disk' = IF n = 0 THEN disk
                        ELSE [disk EXCEPT ![f.path] = Flushed(@, f, SubSeq(data, 1, n))]
             /\ ftab' = [ftab EXCEPT ![i].wbuf = SubSeq(data, n + 1, Len(data)),
                                     ![i].pos = @ + n]
        /\ view' = [view EXCEPT ![i] = Flushed(@, [f EXCEPT !.pos = @ + Len(f.wbuf)], <<t>>)]
        /\ UNCHANGED <<process, client, clean, faults, exits>>
     \/ /\ IsOpen(i) /\ Takes(f)
        /\ faults < MaxFaults /\ faults' = faults + 1
        /\ puts' = t
        /\ ftab' \in {ftab, [ftab EXCEPT ![i].wbuf = <<>>]}
        /\ clean' = clean \ {i}
        /\ UNCHANGED <<disk, process, client, view, exits>>

(* As SeekTo, with the position set and the buffered records left behind. *)
SeekWithoutFlush(i, n) ==
  /\ Uses(i)
  /\ \/ ~IsOpen(i) /\ NotOpen(i)
     \/ /\ IsOpen(i)
        /\ ftab' = [ftab EXCEPT ![i].pos = n]
        /\ UNCHANGED <<disk, process, client, view, clean, puts, faults, exits>>

(* hostseek: an absolute record (rl # 0) or byte offset; fseek writes the  *)
(* stream out first.                                                       *)
SeekTo(i, n) ==
  /\ Uses(i)
  /\ \/ ~IsOpen(i) /\ NotOpen(i)
     \/ /\ IsOpen(i)
        /\ disk' = FlushedDisk(i)
        /\ ftab' = [ftab EXCEPT ![i].pos = n, ![i].wbuf = <<>>]
        /\ UNCHANGED <<process, client, view, clean, puts, faults, exits>>
     \/ /\ IsOpen(i) /\ ftab[i].wbuf # <<>>
        /\ faults < MaxFaults /\ faults' = faults + 1
        /\ clean' = clean \ {i}
        /\ UNCHANGED <<disk, ftab, process, client, view, puts, exits>>

Seek(i) == \E n \in 0..MaxPuts : SeekTo(i, n)

(* hostget: "mode = 'l'" in the test assigns, so a stream opened for write *)
(* or append is read too and its mode changes; the library refuses.  In an *)
(* update stream the records written before are written out first.  When   *)
(* that or the reading fails the get is refused, and the records it had    *)
(* buffered stay or are gone.                                              *)
Get(i) ==
  /\ Uses(i)
  /\ LET f == ftab[i] IN
     \/ ~IsOpen(i) /\ NotOpen(i)
     \/ /\ IsOpen(i) /\ f.flags \in {"w", "a"}
        /\ ftab' = [ftab EXCEPT ![i].mode = "l"]
        /\ UNCHANGED <<disk, process, client, view, clean, puts, faults, exits>>
     \/ /\ IsOpen(i) /\ f.flags \in {"r", "w+"}
        /\ disk' = FlushedDisk(i)
        /\ LET at == f.pos + Len(f.wbuf)
               more == at < Len(disk'[f.path]) IN
           /\ ftab' = [ftab EXCEPT ![i].pos = IF more THEN at + 1 ELSE at, ![i].wbuf = <<>>]
        /\ UNCHANGED <<process, client, view, clean, puts, faults, exits>>
     \/ /\ IsOpen(i) /\ f.flags \in {"r", "w+"}
        /\ faults < MaxFaults /\ faults' = faults + 1
        /\ ftab' \in {ftab, [ftab EXCEPT ![i].wbuf = <<>>]}
        /\ clean' = clean \ {i}
        /\ UNCHANGED <<disk, process, client, view, puts, exits>>

(* As Initialize, with the file table cleared for the new session. *)
InitializeClearing ==
  /\ process = "up" /\ reboots < MaxReboots
  /\ reboots' = reboots + 1
  /\ ftab' = [i \in Slots |-> Closed]
  /\ UNCHANGED <<disk, process, holds, orphans, view, clean, puts, faults, exits>>

(* hostinit keeps the file table: a client that says 'v' again may still   *)
(* hold its fileids (PIP does), or have forgotten them in a restart.       *)
Initialize ==
  /\ process = "up" /\ reboots < MaxReboots
  /\ reboots' = reboots + 1
  /\ \/ UNCHANGED <<holds, orphans>>
     \/ /\ holds' = [i \in Slots |-> Nothing]
        /\ orphans' = orphans \cup {i \in Slots : holds[i].st = "held"}
  /\ UNCHANGED <<disk, ftab, process, view, clean, puts, faults, exits>>

-----------------------------------------------------------------------------
(* The end of the process. *)

(* hostquit closes the slots in order; a failed fclose is only logged.  At *)
(* a slot whose stream is freed already the process may crash, and what    *)
(* the slots after it had buffered is lost.                                *)
Quit ==
  /\ process = "up"
  /\ \E upto \in 0..NFiles, lost \in SUBSET {i \in Slots : IsOpen(i)} :
       /\ upto < NFiles => ftab[upto + 1].st = "dangling"
       /\ Ends(IF upto = NFiles THEN "quit" ELSE "crashed")
       /\ faults' = faults + Cardinality(lost) /\ faults' <= MaxFaults
       /\ disk' = WrittenOut(upto, lost)

(* server() exits on a read or write error of the tty; exit() writes out   *)
(* the streams.                                                            *)
ExitOnError ==
  /\ process = "up"
  /\ Ends("quit")
  /\ disk' = WrittenOut(NFiles, {})
  /\ UNCHANGED faults

(* "The server will run until interrupted": the streams' buffers are lost. *)
Kill ==
  /\ process = "up"
  /\ Ends("killed")
  /\ UNCHANGED <<disk, faults>>

Restart ==
  /\ process # "up"
  /\ process' = "up"
  /\ UNCHANGED <<disk, ftab, client, view, clean, puts, faults, exits>>

-----------------------------------------------------------------------------
Next ==
  \/ Open
  \/ \E i \in Slots : Close(i) \/ Put(i) \/ Seek(i) \/ Get(i)
  \/ Initialize \/ Quit \/ ExitOnError \/ Kill \/ Restart

Spec == Init /\ [][Next]_vars

-----------------------------------------------------------------------------
(* Properties. *)

Entries == [st : {"closed", "dangling"}] \cup
           [st : {"open"}, path : Paths, mode : Modes \cup {"l"},
            flags : {"r", "w", "w+", "a"}, type : Types,
            rl : RecordLengths \cup {0, DefaultRL}, pos : Nat,
            wbuf : Seq(1..MaxPuts)]

(* Every entry is closed, open with its stream, or dangling, and only an   *)
(* open stream for writing holds records back.                             *)
TypeOK ==
  /\ DOMAIN disk \subseteq Paths
  /\ \A p \in DOMAIN disk : disk[p] \in Seq(0..MaxPuts)
  /\ \A i \in Slots : ftab[i] \in Entries
  /\ \A i \in Slots : IsOpen(i) /\ ftab[i].flags = "r" => ftab[i].wbuf = <<>>
  /\ process \in {"up", "quit", "killed", "crashed"}
  /\ process # "up" => \A i \in Slots : ftab[i] = Closed
  /\ clean \subseteq Slots /\ orphans \subseteq Slots
  /\ puts \in 0..MaxPuts /\ faults \in 0..MaxFaults
  /\ exits \in 0..MaxExits /\ reboots \in 0..MaxReboots

(* While the server is up, a fileid the client holds is open on a file of  *)
(* the designator and record length it asked for, and an open slot is held *)
(* or was forgotten by a client that restarted; and a slot is lost for     *)
(* good only by a close that failed, however opens fail and fall back      *)
(* (hostopen's slot search, hostclose, and hostinit keeping the table).    *)
HandlesMatch ==
  /\ \A i \in Slots : holds[i].st = "held" =>
       /\ IsOpen(i)
       /\ ftab[i].path.base = holds[i].name.base
       /\ ftab[i].path.rl = holds[i].rl
       /\ holds[i].name.ext \in {"", ftab[i].path.ext}
  /\ \A i \in Slots : IsOpen(i) => holds[i].st = "held" \/ i \in orphans
  /\ Cardinality({i \in Slots : ftab[i].st = "dangling"}) <= faults

(* For a stream that has its file to itself and none of whose puts failed, *)
(* the disk with the stream's buffer written out holds exactly the records *)
(* acknowledged, in place (hostput and hostseek): a killed server loses    *)
(* what was buffered and nothing else.                                     *)
DiskPlusBuffer ==
  \A i \in clean : IsOpen(i) => FlushedDisk(i)[ftab[i].path] = view[i]

(* When such a stream ends by a close, a quit or the exit on a tty error,  *)
(* and the host reports no failure, every acknowledged record is on disk.  *)
EndedStreamsAreDurable ==
  [][\A i \in clean :
       IsOpen(i) /\ ftab'[i].st # "open" /\ faults' = faults /\ process' \in {"up", "quit"}
         => disk'[ftab[i].path] = view[i]]_vars

(* The server goes down only with a stream freed by a failed close still   *)
(* in its table, or under a client that uses a fileid of a server before   *)
(* it: hostput and fclose get no null or freed pointer by any other series *)
(* of opens, refusals, closes, quits and second 'v's (hostput does not     *)
(* look whether the slot is open, and hostinit keeps the file table).      *)
CrashesHaveACause ==
  [][process = "up" /\ process' = "crashed"
       => \E i \in Slots : ftab[i].st = "dangling" \/ holds[i].st = "stale"]_vars

=============================================================================
