---------------------------- MODULE HostcmNames ----------------------------
(***************************************************************************)
(* The commands of protocol.c that work on names: the listing of a         *)
(* directory (hostdiropen, hostdirread, hostdirclose), the rename that     *)
(* comes in two commands (hostrenamefm, hostrenameto) and hostscratch.     *)
(* The server keeps one open directory, one pending name and its working   *)
(* directory, which every name is relative to; a listing leaves and        *)
(* re-enters it for each entry, in steps the host's other programs come    *)
(* between.                                                                *)
(*                                                                         *)
(* The client (external) sends the commands of a rename and of a listing   *)
(* in their order, interleaved as it likes, and may be restarted between   *)
(* any two of them; programs on the host create and remove files too.      *)
(***************************************************************************)
EXTENDS Naturals, FiniteSets

CONSTANTS
  Dirs,         \* the directories
  Start,        \* the one the server is started in
  FileNames,    \* names of files, the same in every directory
  InitialFiles, \* the <<directory, name>> pairs that exist at first
  DirExt,       \* opt.ext & DIREXT, the -e option
  MaxFaults,    \* bound: failures of the host's file system
  MaxForeign,   \* bound: files created or removed by other programs
  MaxRestarts   \* bound: restarts of the client or the server

ASSUME NamesAssumption ==
  /\ Start \in Dirs /\ InitialFiles \subseteq Dirs \X FileNames
  /\ "none" \notin Dirs /\ "none" \notin FileNames
  /\ DirExt \in BOOLEAN
  /\ MaxFaults \in Nat /\ MaxForeign \in Nat /\ MaxRestarts \in Nat

VARIABLES
  files,     \* the <<directory, name>> pairs that exist
  cwd,       \* the server's working directory
  dirp,      \* the open directory: [dir, unread], or NoDir
  pfn,       \* the pending source of a rename, or "none"
  at,        \* where hostdirread is: "pushed", "statted" or "unstatted";
             \* "loop" when the server waits for a command
  entry,     \* hostdirread's dp->d_name, or "none"
  pcwd,      \* hostdirread's saved working directory, or "none"
  listing,   \* client: "none", "open" or "ended"
  renaming,  \* client: "none" or "named"
  meant,     \* history: the file meant by the last accepted "rename from"
  chdirs,    \* history: the working directory has moved since then
  home,      \* history: the directory start or diropen -e has put it in
  strayed,   \* history: since then a way back has failed
  stuck,     \* history: which of pfn and dirp a failure or a restart left set
  reply,     \* [op, code] of the last response
  renamed,   \* history: source of the last rename that was carried out
  faults, foreign, restarts

serverVars == <<cwd, dirp, pfn>>
callVars   == <<at, entry, pcwd>>
placeVars  == <<home, strayed>>
namesClientVars == <<listing, renaming, meant, chdirs, stuck>>
bounds     == <<faults, foreign, restarts>>
namesVars == <<files, serverVars, callVars, placeVars, namesClientVars, reply, renamed, bounds>>

NoDir  == [dir |-> "none", unread |-> {}]
NoFile == <<"none", "none">>

NamesTypeOK ==
  /\ files \subseteq Dirs \X FileNames
  /\ cwd \in Dirs
  /\ dirp \in [dir : Dirs, unread : SUBSET FileNames] \cup {NoDir}
  /\ pfn \in FileNames \cup {"none"}
  /\ at \in {"loop", "pushed", "statted", "unstatted"}
  /\ IF at = "loop" THEN entry = "none" /\ pcwd = "none"
                    ELSE entry \in FileNames /\ pcwd \in Dirs /\ dirp # NoDir
  /\ home \in Dirs /\ strayed \in BOOLEAN
  /\ listing \in {"none", "open", "ended"} /\ renaming \in {"none", "named"}
  /\ meant \in (Dirs \X FileNames) \cup {NoFile}
  /\ renamed \in (Dirs \X FileNames) \cup {NoFile}
  /\ chdirs \in BOOLEAN /\ stuck \subseteq {"dirp", "pfn"}
  /\ faults \in 0..MaxFaults /\ foreign \in 0..MaxForeign
  /\ restarts \in 0..MaxRestarts
  /\ "pfn" \in stuck => pfn # "none"
  /\ "dirp" \in stuck => dirp # NoDir

NamesInit ==
  /\ files = InitialFiles
  /\ cwd = Start /\ dirp = NoDir /\ pfn = "none"
  /\ at = "loop" /\ entry = "none" /\ pcwd = "none"
  /\ home = Start /\ strayed = FALSE
  /\ listing = "none" /\ renaming = "none"
  /\ meant = NoFile /\ chdirs = FALSE /\ stuck = {}
  /\ reply = [op |-> "none", code |-> "b"] /\ renamed = NoFile
  /\ faults = 0 /\ foreign = 0 /\ restarts = 0

Reply(op, code) == reply' = [op |-> op, code |-> code]
Fault == faults < MaxFaults /\ faults' = faults + 1

-----------------------------------------------------------------------------
(* Listing. *)

(* hostdiropen.  When the chdir fails after opendir has succeeded, the     *)
(* client gets an error and the directory stays open.                      *)
DirOpen ==
  /\ listing = "none"
  /\ \E dir \in Dirs, slash \in BOOLEAN :
       LET entries == {f \in FileNames : <<dir, f>> \in files}
           opened  == [dir |-> dir, unread |-> entries]
           moves   == DirExt /\ slash
       IN
       \/ /\ dirp # NoDir
          /\ Reply("diropen", "x")
          /\ UNCHANGED <<serverVars, placeVars, namesClientVars, faults>>
       \/ /\ dirp = NoDir /\ Fault
          /\ Reply("diropen", "x")
          /\ UNCHANGED <<serverVars, placeVars, namesClientVars>>
       \/ /\ dirp = NoDir /\ moves /\ Fault
          /\ dirp' = opened
          /\ stuck' = stuck \cup {"dirp"}
          /\ Reply("diropen", "x")
          /\ UNCHANGED <<cwd, pfn, placeVars, listing, renaming, meant, chdirs>>
       \/ /\ dirp = NoDir
          /\ dirp' = opened
          /\ cwd' = IF moves THEN dir ELSE cwd
          /\ home' = IF moves THEN dir ELSE home
          /\ strayed' = (strayed /\ ~moves)
          /\ chdirs' = (chdirs \/ moves)
          /\ listing' = "open"
          /\ Reply("diropen", "b")
          /\ UNCHANGED <<pfn, renaming, meant, stuck, faults>>
  /\ UNCHANGED <<files, callVars, renamed, foreign, restarts>>

(* hostdirread as far as fchdir: the next entry, and push the working      *)
(* directory.  On an error the client goes on or closes the directory.     *)
DirRead ==
  /\ listing = "open"
  /\ \/ /\ dirp = NoDir
        /\ listing' = "none"
        /\ Reply("dirread", "x")
        /\ UNCHANGED <<serverVars, callVars, faults>>
     \/ /\ dirp # NoDir /\ dirp.unread = {}
        /\ listing' = "ended"
        /\ Reply("dirread", "e")
        /\ UNCHANGED <<serverVars, callVars, faults>>
     \/ \E f \in dirp.unread :
          /\ dirp' = [dirp EXCEPT !.unread = @ \ {f}]
          /\ UNCHANGED pfn
          /\ \/ /\ at' = "pushed" /\ entry' = f /\ pcwd' = cwd
                /\ cwd' = dirp.dir
                /\ UNCHANGED <<listing, reply, faults>>
             \/ /\ Fault
                /\ listing' \in {"open", "ended"}
                /\ Reply("dirread", "x")
                /\ UNCHANGED <<cwd, callVars>>
  /\ UNCHANGED <<files, placeVars, renaming, meant, chdirs, stuck, renamed, foreign, restarts>>

(* stat of the entry, which may be gone since opendir. *)
StatEntry ==
  /\ at = "pushed"
  /\ \/ <<cwd, entry>> \in files /\ at' = "statted" /\ UNCHANGED faults
     \/ <<cwd, entry>> \notin files /\ at' = "unstatted" /\ UNCHANGED faults
     \/ Fault /\ at' = "unstatted"
  /\ UNCHANGED <<files, serverVars, entry, pcwd, placeVars, namesClientVars, reply,
                 renamed, foreign, restarts>>

(* The server answers with the code and is back in its loop. *)
Answered(code) ==
  /\ at' = "loop" /\ entry' = "none" /\ pcwd' = "none"
  /\ listing' \in (IF code = "x" THEN {"open", "ended"} ELSE {"open"})
  /\ Reply("dirread", code)
  /\ UNCHANGED <<files, dirp, pfn, home, renaming, meant, stuck, renamed, foreign, restarts>>

(* chdir(pcwd), which fails, or takes the server back. *)
WayBackFails == Fault /\ strayed' = TRUE /\ chdirs' = TRUE /\ UNCHANGED cwd
WayBack == cwd' = pcwd /\ UNCHANGED <<strayed, chdirs, faults>>

(* Pop the working directory. *)
Pop ==
  /\ at = "statted"
  /\ \/ WayBack /\ Answered("b")
     \/ WayBackFails /\ Answered("x")

(* As PopUnchecked, with no way back after a stat that failed. *)
PopForgotten ==
  /\ at = "unstatted"
  /\ UNCHANGED <<cwd, strayed, chdirs, faults>>
  /\ Answered("x")

(* The same after a stat that failed: the error is stat's either way. *)
PopUnchecked ==
  /\ at = "unstatted"
  /\ WayBack \/ WayBackFails
  /\ Answered("x")

(* As DirClose, with dirp kept. *)
DirCloseKeeping ==
  /\ listing # "none"
  /\ listing' = "none"
  /\ Reply("dirclose", "b")
  /\ UNCHANGED <<files, serverVars, callVars, placeVars, renaming, meant, chdirs, stuck, renamed, bounds>>

(* hostdirclose; without an open directory it answers an error, and when   *)
(* closedir fails dirp is kept.                                            *)
DirClose ==
  /\ listing # "none"
  /\ listing' = "none"
  /\ \/ /\ dirp' = NoDir
        /\ stuck' = stuck \ {"dirp"}
        /\ Reply("dirclose", IF dirp = NoDir THEN "x" ELSE "b")
        /\ UNCHANGED faults
     \/ /\ dirp # NoDir /\ Fault
        /\ stuck' = stuck \cup {"dirp"}
        /\ Reply("dirclose", "x")
        /\ UNCHANGED dirp
  /\ UNCHANGED <<files, cwd, pfn, callVars, placeVars, renaming, meant, chdirs, renamed,
                 foreign, restarts>>

-----------------------------------------------------------------------------
(* Renaming and removing. *)

(* As RenameFrom, with a new name ignored while one is pending. *)
RenameFromIgnoring ==
  /\ renaming = "none"
  /\ \E name \in FileNames :
       /\ pfn' = IF pfn = "none" THEN name ELSE pfn
       /\ meant' = <<cwd, name>>
  /\ chdirs' = FALSE
  /\ renaming' = "named"
  /\ Reply("renamefm", "b")
  /\ UNCHANGED <<files, cwd, dirp, callVars, placeVars, listing, stuck, renamed, bounds>>

(* hostrenamefm only keeps the name, and refuses while one is pending. *)
RenameFrom ==
  /\ renaming = "none"
  /\ \/ /\ pfn = "none"
        /\ \E name \in FileNames : pfn' = name /\ meant' = <<cwd, name>>
        /\ chdirs' = FALSE
        /\ renaming' = "named"
        /\ Reply("renamefm", "b")
     \/ /\ pfn # "none"
        /\ Reply("renamefm", "x")
        /\ UNCHANGED <<pfn, meant, chdirs, renaming>>
  /\ UNCHANGED <<files, cwd, dirp, callVars, placeVars, listing, stuck, renamed, bounds>>

Moved(old, new) == (files \ {old}) \cup {new}

(* hostrenameto.  A rename that fails leaves its source pending. *)
RenameTo ==
  /\ renaming = "named"
  /\ renaming' = "none"
  /\ \E name \in FileNames :
       LET old == <<cwd, pfn>> IN
       \/ /\ old \in files
          /\ files' = Moved(old, <<cwd, name>>)
          /\ pfn' = "none"
          /\ renamed' = old
          /\ stuck' = stuck \ {"pfn"}
          /\ Reply("renameto", "b")
          /\ UNCHANGED faults
       \/ /\ pfn = "none"
          /\ Reply("renameto", "x")
          /\ UNCHANGED <<files, pfn, renamed, stuck, faults>>
       \/ /\ pfn # "none"
          /\ \/ old \notin files /\ UNCHANGED faults
             \/ Fault
          /\ stuck' = stuck \cup {"pfn"}
          /\ Reply("renameto", "x")
          /\ UNCHANGED <<files, pfn, renamed>>
  /\ UNCHANGED <<cwd, dirp, callVars, placeVars, listing, meant, chdirs, foreign, restarts>>

(* hostscratch. *)
Scratch ==
  /\ \E name \in FileNames :
       \/ /\ <<cwd, name>> \in files
          /\ files' = files \ {<<cwd, name>>}
          /\ Reply("scratch", "b")
          /\ UNCHANGED faults
       \/ /\ \/ <<cwd, name>> \notin files /\ UNCHANGED faults
             \/ Fault
          /\ Reply("scratch", "x")
          /\ UNCHANGED files
  /\ UNCHANGED <<serverVars, callVars, placeVars, namesClientVars, renamed, foreign, restarts>>

-----------------------------------------------------------------------------
(* The surroundings (external). *)

(* Another program creates or removes a file. *)
HostChange ==
  /\ foreign < MaxForeign /\ foreign' = foreign + 1
  /\ \E f \in Dirs \X FileNames :
       files' = IF f \in files THEN files \ {f} ELSE files \cup {f}
  /\ UNCHANGED <<serverVars, callVars, placeVars, namesClientVars, reply, renamed, faults, restarts>>

(* The client forgets what it was doing; hostinit, which the server gets   *)
(* to when it is back in its loop, keeps the server's state.               *)
ClientRestart ==
  /\ restarts < MaxRestarts /\ restarts' = restarts + 1
  /\ listing' = "none" /\ renaming' = "none"
  /\ stuck' = stuck \cup (IF listing # "none" /\ dirp # NoDir THEN {"dirp"} ELSE {})
                    \cup (IF renaming # "none" /\ pfn # "none" THEN {"pfn"} ELSE {})
  /\ Reply("init", "b")
  /\ UNCHANGED <<files, serverVars, callVars, placeVars, meant, chdirs, renamed, faults, foreign>>

(* A new server process, in the directory it is started in, at any time;   *)
(* the client goes on with the commands it had begun.                      *)
ServerRestart ==
  /\ restarts < MaxRestarts /\ restarts' = restarts + 1
  /\ cwd' = Start /\ dirp' = NoDir /\ pfn' = "none"
  /\ at' = "loop" /\ entry' = "none" /\ pcwd' = "none"
  /\ home' = Start /\ strayed' = FALSE
  /\ stuck' = {}
  /\ Reply("none", "b")
  /\ UNCHANGED <<files, listing, renaming, meant, chdirs, renamed, faults, foreign>>

-----------------------------------------------------------------------------
NamesNext ==
  \/ /\ at = "loop"
     /\ \/ DirOpen \/ DirRead \/ DirClose
        \/ RenameFrom \/ RenameTo \/ Scratch \/ ClientRestart
  \/ StatEntry \/ Pop \/ PopUnchecked
  \/ HostChange \/ ServerRestart

NamesSpec == NamesInit /\ [][NamesNext]_namesVars

-----------------------------------------------------------------------------
(* Properties. *)

(* A rename takes the file that the client's last accepted "rename from"   *)
(* meant: the name always, the directory unless the working directory was  *)
(* moved in between, by diropen -e or because a listing's way back failed. *)
(* Moved on purpose, the name is taken in the directory it was moved to    *)
(* (hostrenameto's use of pfn, hostdirread's push and pop).                *)
RenameIsOfTheNamed ==
  [][reply'.op = "renameto" /\ reply'.code = "b" /\ renaming = "named" /\ renaming' = "none"
       => /\ renamed'[2] = meant[2]
          /\ chdirs \/ renamed' = meant
          /\ strayed \/ renamed'[1] = home]_namesVars

(* A "rename from" is refused for a pending one only after a rename that   *)
(* failed or was never finished, and a listing only after one the client   *)
(* never closed or a chdir or closedir that failed: a well-behaved client  *)
(* never locks itself out (pfn and dirp).                                  *)
RefusedForACause ==
  /\ renaming = "none" /\ pfn # "none" => "pfn" \in stuck
  /\ listing = "none" /\ dirp # NoDir => "dirp" \in stuck

(* When the server waits for a command, its working directory is the one   *)
(* it was started in or diropen -e put it in, whatever failed or changed   *)
(* on the host between the push, the stat and the pop of the entries that  *)
(* were listed, unless a chdir back has itself failed (hostdirread's error *)
(* paths).                                                                 *)
ListingComesBack == at = "loop" => cwd = home \/ strayed

=============================================================================
