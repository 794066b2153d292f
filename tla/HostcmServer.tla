---------------------------- MODULE HostcmServer ----------------------------
(***************************************************************************)
(* The server as a whole: the link of server.c (HostcmLink) with the file  *)
(* table of protocol.c (HostcmFiles) behind its dispatch, so that commands *)
(* that noise makes the client repeat are carried out on the same streams  *)
(* and disk.  The client writes one file, call by call as Script says, by  *)
(* the fileid that the answer to its open brought.                         *)
(***************************************************************************)
EXTENDS Naturals, Sequences, SequencesExt, FiniteSets, FiniteSetsExt, Functions

CONSTANTS
  Script,         \* the client's calls: an "open", then some "put", a "close"
  NFiles, MaxGarbles, MaxLostEnds, MaxFaults, MaxExits

ASSUME ServerAssumption ==
  /\ NFiles \in Nat \ {0} /\ MaxGarbles \in Nat /\ MaxLostEnds \in Nat
  /\ MaxFaults \in Nat /\ MaxExits \in Nat

ASSUME ScriptAssumption ==
  /\ Script \in Seq({"open", "put", "close"}) /\ Len(Script) > 1
  /\ Script[1] = "open" /\ Script[Len(Script)] = "close"
  /\ \A c \in 2..(Len(Script) - 1) : Script[c] = "put"

MaxCalls == Len(Script)
MaxPuts == MaxCalls + MaxGarbles \div 2

VARIABLES
  cpc, call, got, up, upOk, down, downOk, spc, partial, outbuf,
  executions, outcome, garbles, lostEnds,                         \* HostcmLink
  disk, ftab, process, holds, view, clean, orphans, puts, faults, reboots,
                                                                  \* HostcmFiles
  exits,          \* of both: the ends of the process
  outId, downId,  \* the fileid in outbuf and in the frame to the client
  fileid,         \* client: what its open returned, 0 for none
  answered,       \* history: the calls answered 'b'
  putBy           \* history: put -> call that it was an execution of

linkVars  == <<cpc, call, got, up, upOk, down, downOk, spc, partial, outbuf,
               executions, outcome, garbles, lostEnds>>
fileVars  == <<disk, ftab, process, holds, view, clean, orphans, puts, faults, reboots>>
ownVars   == <<outId, downId, fileid, answered, putBy>>
vars == <<linkVars, fileVars, exits, ownVars>>

L == INSTANCE HostcmLink

F == INSTANCE HostcmFiles WITH
       Names <- {[base |-> "a", ext |-> "x"]}, Modes <- {"w"}, Types <- {"v"},
       RecordLengths <- {0}, DefaultRL <- 80, InitialDisk <- {},
       Requests <- {<<"w", [base |-> "a", ext |-> "x"], "v", 0>>},
       StaleHandles <- TRUE, MaxReboots <- 0

Path == [rl |-> 0, base |-> "a", ext |-> "x"]

Init ==
  /\ L!Init /\ F!Init
  /\ outId = 0 /\ downId = 0 /\ fileid = 0
  /\ answered = {} /\ putBy = <<>>

-----------------------------------------------------------------------------
(* The client and the line. *)

(* What a program does: no fileid, no more calls. *)
Issue ==
  /\ L!Issue
  /\ Script[call + 1] = "open" \/ fileid # 0
  /\ UNCHANGED <<fileVars, ownVars>>

OnResponse ==
  /\ L!OnResponse
  /\ LET accepted == cpc' = "idle" /\ got'[2] = "b"
     IN /\ answered' = IF accepted THEN answered \cup {call} ELSE answered
        /\ fileid' = IF accepted /\ Script[call] = "open" THEN downId ELSE fileid
  /\ UNCHANGED <<fileVars, outId, downId, putBy>>

Elsewhere ==
  /\ L!GiveUp \/ L!Garble \/ L!LoseLineEnd \/ L!Unheard
  /\ UNCHANGED <<fileVars, ownVars>>

(* Noise damages the client's one-byte 'N'. *)
GarbleNak ==
  /\ garbles < MaxGarbles
  /\ garbles' = garbles + 1
  /\ up.kind = "nak" /\ upOk
  /\ upOk' = FALSE
  /\ UNCHANGED <<cpc, call, got, up, down, downOk, spc, partial, outbuf,
                 executions, outcome, lostEnds, fileVars, exits, ownVars>>

-----------------------------------------------------------------------------
(* The server. *)

Replied(code) == outcome'[up.call] = code

OpenCommand ==
  /\ F!Open
  /\ LET opened == {i \in F!Slots : ftab[i] # ftab'[i]}
     IN IF opened = {} THEN Replied("x") /\ outId' = 0
        ELSE Replied("b") /\ outId' = Min(opened)
  /\ UNCHANGED putBy

PutCommand ==
  /\ F!Put(fileid) /\ process' = "up"
  /\ Replied(IF puts' > puts /\ faults' = faults THEN "b" ELSE "x")
  /\ putBy' = IF puts' > puts THEN Append(putBy, up.call) ELSE putBy
  /\ outId' = 0

(* A close that is repeated finds the entry closed, or the stream freed by *)
(* the close that failed: that takes the process down (DispatchCrashing).  *)
CloseCommand ==
  /\ \/ F!Close(fileid) /\ process' = "up"
     \/ holds[fileid] = F!Nothing /\ ftab[fileid] = F!Closed /\ F!Refused
  /\ Replied(IF F!IsOpen(fileid) /\ faults' = faults THEN "b" ELSE "x")
  /\ outId' = 0
  /\ UNCHANGED putBy

Dispatch ==
  /\ L!Dispatch
  /\ \/ Script[up.call] = "open" /\ OpenCommand
     \/ Script[up.call] = "put" /\ PutCommand
     \/ Script[up.call] = "close" /\ CloseCommand
  /\ UNCHANGED <<downId, fileid, answered>>

(* A command that takes the process down: there is no answer. *)
DispatchCrashing ==
  /\ ~L!ChecksumFails /\ up.kind = "command"
  /\ L!Received
  /\ \/ Script[up.call] = "put" /\ F!Put(fileid)
     \/ Script[up.call] = "close" /\ F!Close(fileid)
  /\ process' = "crashed"
  /\ spc' = "gone" /\ outbuf' = L!NoResponse /\ outId' = 0
  /\ UNCHANGED <<cpc, call, got, down, downOk, executions, outcome, garbles, lostEnds,
                 downId, fileid, answered, putBy>>

Reject ==
  /\ L!Reject
  /\ outId' = 0
  /\ UNCHANGED <<fileVars, downId, fileid, answered, putBy>>

(* A damaged 'N' that the tty did not mark is a one-byte frame with some   *)
(* other letter: no checksum is looked at, and there is no such command.   *)
UnknownCommand ==
  /\ up.kind = "nak" /\ ~upOk /\ ~partial
  /\ L!Received
  /\ spc' = "send" /\ outbuf' = L!Answer(0, "x") /\ outId' = 0
  /\ UNCHANGED <<cpc, call, got, down, downOk, executions, outcome, garbles, lostEnds,
                 fileVars, exits, downId, fileid, answered, putBy>>

Resend ==
  /\ L!Resend
  /\ UNCHANGED <<fileVars, ownVars>>

Send ==
  /\ L!Send
  /\ downId' = outId
  /\ UNCHANGED <<fileVars, outId, fileid, answered, putBy>>

(* A signal, or an error of the tty. *)
Exit ==
  /\ L!Exit
  /\ F!Kill \/ F!ExitOnError
  /\ outId' = 0
  /\ UNCHANGED <<downId, fileid, answered, putBy>>

Restart ==
  /\ L!Restart /\ F!Restart
  /\ UNCHANGED ownVars

Next ==
  \/ Issue \/ OnResponse \/ Elsewhere \/ GarbleNak
  \/ Dispatch \/ DispatchCrashing \/ Reject \/ UnknownCommand \/ Resend \/ Send
  \/ Exit \/ Restart

Spec == Init /\ [][Next]_vars

-----------------------------------------------------------------------------
(* Properties. *)

(* The executions of every call after its first. *)
Repeated == UNION {{c} \X (2..executions[c]) : c \in L!Calls}

Repetitions == Cardinality(Repeated)

(* A NAK overwrites the response that a damaged 'N' was meant to fetch, and *)
(* the command is carried out again: every repetition costs two damaged    *)
(* frames, the response and an 'N' (server.c's reject path writes into the *)
(* outbuf that 'N' resends).                                               *)
RepetitionsCostTwo == 2 * Repetitions <= garbles

(* Even then an answer of success is never a leftover: it is the outcome   *)
(* of the current call's latest execution (an error may be about no call). *)
SuccessIsOwn ==
  [][got' # got /\ got'[2] \in {"b", "e"}
       => got' = <<call, outcome[call]>>]_vars

(* Once a close was answered with success, and the host's disk reported no *)
(* failure, the file on disk holds every put that was answered so, in the  *)
(* order of the calls, with no more than one extra record for every two    *)
(* damaged frames; whatever was repeated, given up or killed on the way    *)
(* (hostopen, hostput, hostclose, and the loop of server.c).               *)
ClosedFileIsComplete ==
  faults = 0 /\ (\E c \in answered : Script[c] = "close") =>
    LET from == [i \in DOMAIN disk[Path] |-> putBy[disk[Path][i]]]
    IN /\ {c \in answered : Script[c] = "put"} \subseteq ToSet(from)
       /\ \A i, j \in DOMAIN from : i < j => from[i] <= from[j]
       /\ 2 * (Len(from) - Cardinality(ToSet(from))) <= garbles

=============================================================================
