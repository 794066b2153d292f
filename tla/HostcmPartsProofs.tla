-------------------------- MODULE HostcmPartsProofs --------------------------
(***************************************************************************)
(* Proofs about four parts of hostcm that have a specification each:       *)
(* HostcmLink, HostcmNames, HostcmFraming and HostcmRecords.               *)
(***************************************************************************)
EXTENDS HostcmLink, HostcmNames, HostcmFraming, HostcmRecords, FiniteSetTheorems,
        SequenceTheorems, WellFoundedInduction, TLAPS

-----------------------------------------------------------------------------
(* HostcmLink, for every number of calls, damaged frames, lost line ends   *)
(* and server restarts: on a line that leaves the client's one-byte 'N'    *)
(* alone, no call is carried out twice and every answer is the outcome of  *)
(* its own execution.                                                      *)

(* One party acts at a time: a frame towards the server, a response being  *)
(* prepared and a response under way exclude each other, and an idle       *)
(* client leaves nothing behind that a later call could take for its own.  *)
HalfDuplex ==
  /\ up.kind # "none" => down.kind = "none" /\ spc # "send"
  /\ down.kind # "none" => spc # "send"
  /\ cpc = "idle" => up.kind = "none" /\ down.kind = "none" /\ spc # "send"
  /\ cpc = "await" => call \in Calls
  /\ up.kind = "nak" => upOk
  /\ partial => up.kind # "nak" /\ down.kind = "none" /\ spc = "receive"

(* Before the current call has been carried out only its own command can   *)
(* be under way, and all that 'N' can fetch is the NAK of that command.    *)
NotYetExecuted ==
  cpc = "await" /\ executions[call] = 0 =>
    /\ up.kind = "command" => up.call = call
    /\ up.kind = "nak" \/ down.kind # "none" \/ spc = "send"
         => outbuf \in {ServerNak, NoResponse}
    /\ down.kind # "none" /\ downOk => down = ServerNak

(* Once it has been carried out, no command is under way and all that 'N'  *)
(* can fetch is the answer of that execution.                              *)
ExecutedOnce ==
  cpc = "await" /\ executions[call] = 1 =>
    /\ up.kind # "command"
    /\ up.kind = "nak" \/ down.kind # "none" \/ spc = "send"
         => outbuf \in {Answer(call, outcome[call]), NoResponse}
    /\ down.kind # "none" /\ downOk => down = Answer(call, outcome[call])

(* No call has run twice, and a call not yet made has not run at all. *)
Counts ==
  \A c \in Calls : executions[c] \in {0, 1} /\ (c > call => executions[c] = 0)

(* The inductive invariant behind AtMostOnce: that no call runs twice needs *)
(* that the command of a call that has run is never under way again, which *)
(* needs that outbuf still holds its answer whenever 'N' can ask for it.   *)
OnceInv == HalfDuplex /\ Counts /\ NotYetExecuted /\ ExecutedOnce

-----------------------------------------------------------------------------
(* Type correctness. *)

(* The frames and the responses the parties build are frames and responses. *)
LEMMA FrameTypes ==
  /\ NoFrame \in Frames /\ ClientNak \in Frames
  /\ \A c \in 0..MaxCalls : Command(c) \in Frames
  /\ NoResponse \in Responses /\ ServerNak \in Responses
  /\ Answer(0, "x") \in Responses /\ Answer(0, "-") \in Responses
  /\ \A c \in 0..MaxCalls, code \in Codes : Answer(c, code) \in Responses
BY LinkAssumption
   DEF Frames, Responses, Codes, NoFrame, ClientNak, Command, NoResponse,
       ServerNak, Answer

(* Counting one more execution of a call. *)
LEMMA CountedUp ==
  ASSUME NEW S, NEW f \in [S -> Nat], NEW x
  PROVE  [f EXCEPT ![x] = @ + 1] \in [S -> Nat]
<1> DEFINE g == [f EXCEPT ![x] = @ + 1]
<1>1. \A y \in S : g[y] \in Nat
  <2> TAKE y \in S
  <2>1. f[y] \in Nat
    OBVIOUS
  <2> QED
    BY <2>1
<1> QED
  BY <1>1

(* The part of the type invariant about frames and responses. *)
LEMMA ShapesStep == Shapes /\ [Next]_vars => Shapes'
<1> SUFFICES ASSUME Shapes, [Next]_vars PROVE Shapes'
  OBVIOUS
<1> USE LinkAssumption, FrameTypes DEF Shapes
<1>1. CASE Issue
  BY <1>1 DEF Issue, SendUp, history, lineVars
<1>2. CASE OnResponse
  <2>1. /\ down.call \in 0..MaxCalls
        /\ down.code # "N" => down.code \in Codes \cup {"-"}
    BY DEF Responses
  <2>2. got' \in (0..MaxCalls) \X (Codes \cup {"-"})
    BY <1>2, <2>1 DEF OnResponse, clientVars
  <2>3. cpc' \in {"idle", "await"} /\ call' = call
    BY <1>2 DEF OnResponse, clientVars
  <2>4. up' \in Frames /\ down' \in Responses
    BY <1>2 DEF OnResponse, SendUp, Delivered
  <2> QED
    BY <1>2, <2>2, <2>3, <2>4 DEF OnResponse, history, lineVars
<1>3. CASE GiveUp
  BY <1>3 DEF GiveUp, history, lineVars
<1>4. CASE Garble
  BY <1>4 DEF Garble, clientVars, history
<1>5. CASE LoseLineEnd
  BY <1>5 DEF LoseLineEnd, SendUp, clientVars, history
<1>6. CASE Unheard
  BY <1>6 DEF Unheard, SendUp, clientVars, history, lineVars
<1>7. CASE Reject
  BY <1>7 DEF Reject, Received, SendUp, clientVars, history, lineVars
<1>8. CASE Dispatch
  <2>1. PICK code \in Codes :
          /\ executions' = [executions EXCEPT ![up.call] = @ + 1]
          /\ outcome' = [outcome EXCEPT ![up.call] = code]
          /\ outbuf' = Answer(up.call, code)
    BY <1>8 DEF Dispatch, Executed
  <2>2. outbuf' \in Responses
    BY <2>1 DEF Frames
  <2>3. executions' \in [Calls -> Nat]
    BY <2>1, CountedUp
  <2>4. outcome' \in [Calls -> Codes \cup {"-"}]
    BY <2>1
  <2>5. up' \in Frames /\ spc' = "send"
    BY <1>8 DEF Dispatch, Received, SendUp
  <2> QED
    BY <1>8, <2>2, <2>3, <2>4, <2>5 DEF Dispatch, clientVars, lineVars
<1>9. CASE Resend
  BY <1>9 DEF Resend, Received, SendUp, clientVars, history, lineVars
<1>10. CASE Send
  BY <1>10 DEF Send, clientVars, history, lineVars
<1>11. CASE Exit
  BY <1>11 DEF Exit, NoResponse, clientVars, history, lineVars
<1>12. CASE Restart
  BY <1>12 DEF Restart, clientVars, history, lineVars
<1>13. CASE UNCHANGED vars
  BY <1>13 DEF vars
<1> QED
  BY <1>1, <1>2, <1>3, <1>4, <1>5, <1>6, <1>7, <1>8, <1>9, <1>10, <1>11,
     <1>12, <1>13 DEF Next, Client, Line, Server

(* The rest of the type invariant. *)
LEMMA FlagsStep == Flags /\ [Next]_vars => Flags'
<1> SUFFICES ASSUME Flags, [Next]_vars PROVE Flags'
  OBVIOUS
<1> USE DEF Flags, SendUp, Delivered, Received
<1>1. CASE Issue
  BY <1>1 DEF Issue
<1>2. CASE OnResponse
  BY <1>2 DEF OnResponse
<1>3. CASE GiveUp
  BY <1>3 DEF GiveUp
<1>4. CASE Garble
  BY <1>4 DEF Garble
<1>5. CASE LoseLineEnd
  BY <1>5 DEF LoseLineEnd
<1>6. CASE Unheard
  BY <1>6 DEF Unheard
<1>7. CASE Reject
  BY <1>7 DEF Reject
<1>8. CASE Dispatch
  BY <1>8 DEF Dispatch
<1>9. CASE Resend
  BY <1>9 DEF Resend
<1>10. CASE Send
  BY <1>10 DEF Send
<1>11. CASE Exit
  BY <1>11 DEF Exit
<1>12. CASE Restart
  BY <1>12 DEF Restart
<1>13. CASE UNCHANGED vars
  BY <1>13 DEF vars
<1> QED
  BY <1>1, <1>2, <1>3, <1>4, <1>5, <1>6, <1>7, <1>8, <1>9, <1>10, <1>11,
     <1>12, <1>13 DEF Next, Client, Line, Server

(* Every variable of the link keeps its type and a server that is gone     *)
(* leaves nothing behind, whatever the bounds on the noise.                *)
THEOREM TypeCorrect == Spec => []TypeOK
<1>1. Init => TypeOK
  <2>1. Init => Shapes
    BY LinkAssumption, FrameTypes DEF Init, Shapes
  <2>2. Init => Flags
    BY DEF Init, Flags
  <2> QED
    BY <2>1, <2>2 DEF TypeOK
<1>2. TypeOK /\ [Next]_vars => TypeOK'
  BY ShapesStep, FlagsStep DEF TypeOK
<1> QED
  BY <1>1, <1>2, PTL DEF Spec

-----------------------------------------------------------------------------
(* At most one execution of each call. *)

(* OnceInv is inductive. *)
LEMMA OnceInit == Init => OnceInv
BY LinkAssumption DEF Init, OnceInv, HalfDuplex, Counts, NotYetExecuted, ExecutedOnce,
   NoFrame, NoResponse

(* A step of either party or of the line keeps OnceInv. *)
LEMMA OnceStep ==
  ASSUME TypeOK, OnceInv, [Next]_vars
  PROVE  OnceInv'
<1> USE DEF OnceInv, HalfDuplex, Counts, NotYetExecuted, ExecutedOnce
<1>0. call \in Nat /\ MaxCalls \in Nat
  BY LinkAssumption DEF TypeOK, Shapes
<1>1. CASE Issue
  BY <1>0, <1>1 DEF Issue, SendUp, Command, Calls, history
<1>2. CASE OnResponse
  <2> USE <1>2 DEF OnResponse, Delivered, SendUp, clientVars, history, NoResponse
  <2>1. CASE ~downOk /\ SendUp(ClientNak) /\ UNCHANGED clientVars
    BY <1>0, <2>1 DEF ClientNak
  <2>2. CASE downOk /\ down.code = "N" /\ SendUp(Command(call)) /\ UNCHANGED clientVars
    <3>1. call \in Calls /\ executions[call] \in {0, 1}
      OBVIOUS
    <3>2. executions[call] # 1
      <4>1. outcome[call] # "N"
        BY <3>1 DEF TypeOK, Shapes, Codes
      <4> QED
        BY <2>2, <4>1 DEF Answer
    <3> QED
      BY <1>0, <2>2, <3>1, <3>2 DEF Command
  <2>3. CASE downOk /\ cpc' = "idle" /\ UNCHANGED <<call, up, upOk>>
    BY <1>0, <2>3
  <2> QED
    BY <2>1, <2>2, <2>3
<1>3. CASE GiveUp
  BY <1>0, <1>3 DEF GiveUp, history
<1>4. CASE Garble
  BY <1>0, <1>4 DEF Garble, clientVars, history
<1>5. CASE LoseLineEnd
  BY <1>0, <1>5 DEF LoseLineEnd, SendUp, clientVars, history, NoFrame
<1>6. CASE Unheard
  BY <1>0, <1>6 DEF Unheard, SendUp, clientVars, history, NoFrame
<1>7. CASE Reject
  <2> USE <1>7 DEF Reject, Received, SendUp, clientVars, history
  <2>1. up.kind = "command" /\ cpc = "await"
    BY DEF ChecksumFails, TypeOK, Shapes, Frames
  <2>2. call \in Calls /\ executions[call] = 0
    BY <2>1
  <2>3. HalfDuplex'
    BY <2>1, <2>2 DEF NoFrame, NoResponse
  <2>4. Counts'
    OBVIOUS
  <2>5. NotYetExecuted' /\ ExecutedOnce'
    BY <2>1, <2>2 DEF NoFrame
  <2> QED
    BY <2>3, <2>4, <2>5
<1>8. CASE Dispatch
  <2> USE <1>8 DEF Dispatch, Received, SendUp, clientVars
  <2>1. /\ cpc = "await" /\ call \in Calls
        /\ executions[call] = 0 /\ up.call = call
        /\ down.kind = "none"
    BY DEF TypeOK, Shapes
  <2>2. PICK code \in Codes :
          /\ executions' = [executions EXCEPT ![call] = @ + 1]
          /\ outcome' = [outcome EXCEPT ![call] = code]
          /\ outbuf' = Answer(call, code)
    BY <2>1 DEF Executed
  <2>3. executions'[call] = 1 /\ outcome'[call] = outbuf'.code
    BY <2>1, <2>2 DEF TypeOK, Shapes, Answer
  <2>4. HalfDuplex'
    BY <2>1 DEF NoFrame, NoResponse
  <2>5. Counts'
    <3>1. \A c \in Calls : c # call => executions'[c] = executions[c]
      BY <2>1, <2>2 DEF TypeOK, Shapes
    <3> QED
      BY <1>0, <2>1, <2>3, <3>1
  <2>6. NotYetExecuted' /\ ExecutedOnce'
    BY <2>1, <2>2, <2>3 DEF NoFrame, Answer
  <2> QED
    BY <2>4, <2>5, <2>6
<1>9. CASE Resend
  BY <1>0, <1>9 DEF Resend, SendUp, Received, clientVars, history, NoFrame
<1>10. CASE Send
  <2> USE <1>10 DEF Send, clientVars, history
  <2>1. HalfDuplex'
    BY <1>10
  <2>2. Counts'
    BY <1>10
  <2>3. CASE outbuf.kind # "none"
    BY <2>1, <2>2, <2>3, <1>10 DEF NoResponse
  <2>4. CASE outbuf.kind = "none"
    BY <2>1, <2>2, <2>4, <1>10 DEF Answer
  <2> QED
    BY <2>3, <2>4
<1>11. CASE Exit
  BY <1>0, <1>11 DEF Exit, clientVars, history
<1>12. CASE Restart
  BY <1>0, <1>12 DEF Restart, clientVars, history
<1>13. CASE UNCHANGED vars
  BY <1>13 DEF vars
<1> QED
  BY <1>1, <1>2, <1>3, <1>4, <1>5, <1>6, <1>7, <1>8, <1>9, <1>10, <1>11,
     <1>12, <1>13 DEF Next, Client, Line, Server

(* On a line that leaves the one-byte 'N' alone no call is carried out     *)
(* twice: server.c dispatches only frames whose checksum is right, and its *)
(* 'N' resends without executing.                                          *)
THEOREM AtMostOnceCorrect == Spec => []AtMostOnce
<1>1. TypeOK /\ OnceInv /\ [Next]_vars => OnceInv'
  BY OnceStep
<1>2. OnceInv => AtMostOnce
  BY DEF OnceInv, Counts, AtMostOnce
<1> QED
  BY OnceInit, TypeCorrect, <1>1, <1>2, PTL DEF Spec

-----------------------------------------------------------------------------
(* The link implements the remote calls of HostcmRpc. *)

(* HostcmRpc is implemented: the initial states, *)
LEMMA RpcInit == Init => Rpc!Init
BY DEF Init, Rpc!Init

(* and each step, which is one of HostcmRpc or a stutter. *)
LEMMA RpcStep ==
  ASSUME TypeOK, OnceInv, OnceInv', [Next]_vars
  PROVE  [Rpc!Next]_(Rpc!rpcVars)
<1> USE DEF Rpc!rpcVars, Rpc!Next
<1>1. CASE Issue
  <2>1. /\ cpc' = "await" /\ call' = call + 1 /\ call' \in Calls
        /\ executions' = executions /\ executions[call'] = 0
    BY <1>1, LinkAssumption
       DEF Issue, Calls, history, TypeOK, Shapes, OnceInv, Counts
  <2> QED
    BY <1>1, <2>1 DEF Issue, Rpc!Issue, history
<1>2. CASE OnResponse
  <2>1. CASE cpc' = cpc
    BY <1>2, <2>1 DEF OnResponse, clientVars, history
  <2>2. CASE cpc' # cpc
    <3>1. /\ down.kind # "none" /\ downOk /\ down.code # "N" /\ cpc = "await"
          /\ got' = <<down.call, down.code>> /\ cpc' = "idle"
          /\ UNCHANGED <<call, executions, outcome>>
      BY <1>2, <2>2 DEF OnResponse, clientVars, history
    <3>2. call \in Calls /\ executions[call] = 1
      BY <3>1 DEF OnceInv, HalfDuplex, Counts, NotYetExecuted, ServerNak
    <3>3. down = Answer(call, outcome[call])
      BY <3>1, <3>2 DEF OnceInv, ExecutedOnce
    <3> QED
      BY <3>1, <3>2, <3>3 DEF Answer, Rpc!Return
  <2> QED
    BY <2>1, <2>2
<1>3. CASE GiveUp
  BY <1>3 DEF GiveUp, history, Rpc!Abandon
<1>4. CASE Garble
  BY <1>4 DEF Garble, clientVars, history
<1>5. CASE LoseLineEnd
  BY <1>5 DEF LoseLineEnd, clientVars, history
<1>6. CASE Unheard
  BY <1>6 DEF Unheard, clientVars, history
<1>7. CASE Reject
  BY <1>7 DEF Reject, clientVars, history
<1>8. CASE Dispatch
  <2>1. /\ cpc = "await" /\ call \in Calls
        /\ executions[call] = 0 /\ up.call = call
    BY <1>8 DEF Dispatch, Received, OnceInv, HalfDuplex, Counts, NotYetExecuted,
                ExecutedOnce, TypeOK, Shapes
  <2>2. PICK result \in Codes :
          /\ executions' = [executions EXCEPT ![call] = @ + 1]
          /\ outcome' = [outcome EXCEPT ![call] = result]
    BY <1>8, <2>1 DEF Dispatch, Executed
  <2>3. UNCHANGED <<cpc, call, got>>
    BY <1>8 DEF Dispatch, clientVars
  <2>4. cpc' = "await" /\ executions'[call'] = 1
    BY <2>1, <2>2, <2>3 DEF TypeOK, Shapes
  <2> QED
    <3>1. \E code \in Codes : outcome' = [outcome EXCEPT ![call] = code]
      BY <2>2
    <3>2. cpc # "idle" /\ cpc' # "idle" /\ executions'[call'] # 0
      BY <2>1, <2>4
    <3>3. Rpc!Execute
      BY <2>1, <2>3, <3>1, <3>2, Zenon DEF Rpc!Execute
    <3> QED
      BY <3>3
<1>9. CASE Resend
  BY <1>9 DEF Resend, clientVars, history
<1>10. CASE Send
  BY <1>10 DEF Send, clientVars, history
<1>11. CASE Exit
  BY <1>11 DEF Exit, clientVars, history
<1>12. CASE Restart
  BY <1>12 DEF Restart, clientVars, history
<1>13. CASE UNCHANGED vars
  BY <1>13 DEF vars
<1> QED
  BY <1>1, <1>2, <1>3, <1>4, <1>5, <1>6, <1>7, <1>8, <1>9, <1>10, <1>11,
     <1>12, <1>13 DEF Next, Client, Line, Server

(* Every behaviour of the link is one of the abstract service: each answer *)
(* a call ends with is the outcome of its own single execution, whatever   *)
(* frames were damaged, run together or repeated and however often the     *)
(* server process went away.                                               *)
THEOREM LinkImplementsRpc == Spec => ImplementsRpc
<1>1. TypeOK /\ OnceInv /\ [Next]_vars => OnceInv'
  BY OnceStep
<1>2. TypeOK /\ OnceInv /\ OnceInv' /\ [Next]_vars => [Rpc!Next]_(Rpc!rpcVars)
  BY RpcStep
<1> QED
  BY OnceInit, RpcInit, TypeCorrect, <1>1, <1>2, PTL DEF Spec, ImplementsRpc, Rpc!Spec

-----------------------------------------------------------------------------
(* HostcmNames, for any directories, names and numbers of failures,        *)
(* restarts and changes by other programs: a rename moves the file that    *)
(* was named, a listing comes back to the working directory, and what is   *)
(* left pending has a cause.                                               *)

(* The working directory, or the one hostdirread is to come back to. *)
Here == IF at = "loop" THEN cwd ELSE pcwd

(* It is the one that start or diropen -e chose, or a way back has failed. *)
InPlace == Here = home \/ strayed

(* While the client has a rename half done, the server has its source, or  *)
(* has forgotten it, and the working directory is the one the source was   *)
(* named in, or it has been moved.                                         *)
PendingIsMeant ==
  renaming = "named" /\ pfn # "none" =>
    /\ pfn = meant[2]
    /\ chdirs \/ meant[1] = Here

NamesInv == NamesTypeOK /\ RefusedForACause /\ PendingIsMeant /\ InPlace

-----------------------------------------------------------------------------
(* Type correctness. *)

(* NamesInv is inductive. *)
LEMMA InitNames == NamesInit => NamesInv
<1> SUFFICES ASSUME NamesInit PROVE NamesInv
  OBVIOUS
<1> USE NamesAssumption DEF NamesInit
<1>1. files \subseteq Dirs \X FileNames /\ cwd \in Dirs
  OBVIOUS
<1>2. dirp \in [dir : Dirs, unread : SUBSET FileNames] \cup {NoDir}
  OBVIOUS
<1>3. /\ pfn \in FileNames \cup {"none"}
      /\ meant \in (Dirs \X FileNames) \cup {NoFile}
      /\ renamed \in (Dirs \X FileNames) \cup {NoFile}
  OBVIOUS
<1>4. faults \in 0..MaxFaults /\ foreign \in 0..MaxForeign /\ restarts \in 0..MaxRestarts
  OBVIOUS
<1> QED
  BY <1>1, <1>2, <1>3, <1>4 DEF NamesInv, NamesTypeOK, RefusedForACause, PendingIsMeant,
                                 InPlace, Here

(* What dirp can be. *)
LEMMA DirPType ==
  ASSUME NamesTypeOK, dirp # NoDir
  PROVE  /\ dirp.dir \in Dirs /\ dirp.unread \subseteq FileNames
         /\ \A f \in dirp.unread :
              [dirp EXCEPT !.unread = @ \ {f}] \in [dir : Dirs, unread : SUBSET FileNames]
BY DEF NamesTypeOK

(* What a read of the directory changes, as far as the push. *)
LEMMA DirReadCases ==
  ASSUME DirRead, NamesTypeOK, at = "loop"
  PROVE  /\ dirp' \in [dir : Dirs, unread : SUBSET FileNames] \cup {NoDir}
         /\ dirp' # NoDir <=> dirp # NoDir
         /\ dirp # NoDir => listing' \in {"open", "ended"}
         /\ listing' \in {"none", "open", "ended"}
         /\ \/ UNCHANGED <<cwd, callVars>>
            \/ /\ at' = "pushed" /\ entry' \in FileNames /\ pcwd' = cwd
               /\ cwd' \in Dirs /\ dirp # NoDir
         /\ faults' \in 0..MaxFaults
         /\ UNCHANGED <<files, placeVars, renaming, meant, chdirs, stuck, renamed,
                        foreign, restarts, pfn>>
<1>0. UNCHANGED <<files, placeVars, renaming, meant, chdirs, stuck, renamed, foreign, restarts>>
  BY DEF DirRead
<1>1. CASE \/ dirp = NoDir /\ listing' = "none" /\ UNCHANGED <<serverVars, callVars, faults>>
           \/ /\ dirp # NoDir /\ listing' = "ended"
              /\ UNCHANGED <<serverVars, callVars, faults>>
  BY <1>0, <1>1 DEF serverVars, NamesTypeOK
<1>2. ASSUME NEW f \in dirp.unread, dirp' = [dirp EXCEPT !.unread = @ \ {f}], UNCHANGED pfn,
             \/ /\ at' = "pushed" /\ entry' = f /\ pcwd' = cwd /\ cwd' = dirp.dir
                /\ UNCHANGED <<listing, reply, faults>>
             \/ /\ Fault /\ listing' \in {"open", "ended"} /\ Reply("dirread", "x")
                /\ UNCHANGED <<cwd, callVars>>,
             listing = "open"
      PROVE  /\ dirp' \in [dir : Dirs, unread : SUBSET FileNames] \cup {NoDir}
             /\ dirp' # NoDir /\ dirp # NoDir
             /\ listing' \in {"open", "ended"}
             /\ \/ UNCHANGED <<cwd, callVars>>
                \/ at' = "pushed" /\ entry' \in FileNames /\ pcwd' = cwd /\ cwd' \in Dirs
             /\ faults' \in 0..MaxFaults /\ UNCHANGED pfn
  <2>2. dirp # NoDir
    BY <1>2 DEF NoDir
  <2>3. dirp' \in [dir : Dirs, unread : SUBSET FileNames]
    BY <1>2, <2>2, DirPType
  <2>4. dirp' # NoDir
    BY <2>3, NamesAssumption DEF NoDir
  <2>5. f \in FileNames /\ dirp.dir \in Dirs
    BY <2>2, DirPType
  <2>6. faults' \in 0..MaxFaults
    BY <1>2, NamesAssumption DEF Fault, NamesTypeOK
  <2> QED
    BY <1>2, <2>2, <2>3, <2>4, <2>5, <2>6
<1>3. \/ \/ dirp = NoDir /\ listing' = "none" /\ UNCHANGED <<serverVars, callVars, faults>>
         \/ /\ dirp # NoDir /\ listing' = "ended"
            /\ UNCHANGED <<serverVars, callVars, faults>>
      \/ \E f \in dirp.unread :
           /\ dirp' = [dirp EXCEPT !.unread = @ \ {f}] /\ UNCHANGED pfn
           /\ \/ /\ at' = "pushed" /\ entry' = f /\ pcwd' = cwd /\ cwd' = dirp.dir
                 /\ UNCHANGED <<listing, reply, faults>>
              \/ /\ Fault /\ listing' \in {"open", "ended"} /\ Reply("dirread", "x")
                 /\ UNCHANGED <<cwd, callVars>>
           /\ listing = "open"
  BY DEF DirRead
<1> QED
  BY <1>0, <1>1, <1>2, <1>3

(* What an answer of hostdirread changes. *)
LEMMA AnsweredCases ==
  ASSUME NEW code, Answered(code), NamesTypeOK
  PROVE  /\ at' = "loop" /\ entry' = "none" /\ pcwd' = "none"
         /\ listing' \in {"open", "ended"}
         /\ UNCHANGED <<files, dirp, pfn, home, renaming, meant, stuck, renamed, foreign, restarts>>
BY DEF Answered

(* The two ways back, before an answer. *)
LEMMA WaysBack ==
  ASSUME NamesTypeOK, at # "loop", InPlace,
         WayBack \/ WayBackFails, at' = "loop", UNCHANGED home
  PROVE  /\ cwd' \in Dirs /\ strayed' \in BOOLEAN /\ chdirs' \in BOOLEAN
         /\ faults' \in 0..MaxFaults
         /\ InPlace'
         /\ chdirs' \/ (~chdirs /\ Here' = Here)
<1>1. CASE WayBack
  BY <1>1 DEF WayBack, NamesTypeOK, InPlace, Here
<1>2. CASE WayBackFails
  BY <1>2, NamesAssumption DEF WayBackFails, Fault, NamesTypeOK, InPlace, Here
<1> QED
  BY <1>1, <1>2

(* diropen moves the working directory on purpose, or not at all. *)
LEMMA DirOpenMoves ==
  ASSUME DirOpen, NamesTypeOK, cwd = home \/ strayed
  PROVE  /\ cwd' \in Dirs /\ chdirs' \in BOOLEAN /\ home' \in Dirs /\ strayed' \in BOOLEAN
         /\ (cwd' = cwd /\ chdirs' = chdirs) \/ chdirs'
         /\ cwd' = home' \/ strayed'
<1>1. cwd \in Dirs /\ home \in Dirs /\ chdirs \in BOOLEAN /\ strayed \in BOOLEAN
  BY DEF NamesTypeOK
<1>2. \/ UNCHANGED <<cwd, home, strayed, chdirs>>
      \/ \E dir \in Dirs, moves \in BOOLEAN :
           /\ cwd' = IF moves THEN dir ELSE cwd
           /\ home' = IF moves THEN dir ELSE home
           /\ strayed' = (strayed /\ ~moves)
           /\ chdirs' = (chdirs \/ moves)
  <2>1. PICK dir \in Dirs, slash \in BOOLEAN :
          \/ UNCHANGED <<cwd, home, strayed, chdirs>>
          \/ /\ cwd' = IF DirExt /\ slash THEN dir ELSE cwd
             /\ home' = IF DirExt /\ slash THEN dir ELSE home
             /\ strayed' = (strayed /\ ~(DirExt /\ slash))
             /\ chdirs' = (chdirs \/ (DirExt /\ slash))
    BY Zenon DEF DirOpen, serverVars, namesClientVars, placeVars
  <2>2. (DirExt /\ slash) \in BOOLEAN
    OBVIOUS
  <2> QED BY <2>1, <2>2, Zenon
<1>3. CASE UNCHANGED <<cwd, home, strayed, chdirs>>
  BY <1>1, <1>3
<1>4. ASSUME NEW dir \in Dirs, NEW moves \in BOOLEAN,
             /\ cwd' = IF moves THEN dir ELSE cwd
             /\ home' = IF moves THEN dir ELSE home
             /\ strayed' = (strayed /\ ~moves)
             /\ chdirs' = (chdirs \/ moves)
      PROVE  /\ cwd' \in Dirs /\ chdirs' \in BOOLEAN /\ home' \in Dirs /\ strayed' \in BOOLEAN
             /\ (cwd' = cwd /\ chdirs' = chdirs) \/ chdirs'
             /\ cwd' = home' \/ strayed'
  <2>1. CASE moves
    BY <1>4, <2>1
  <2>2. CASE ~moves
    BY <1>1, <1>4, <2>2
  <2> QED BY <2>1, <2>2
<1> QED BY <1>2, <1>3, <1>4

(* A command, the host or a restart keeps NamesInv. *)
LEMMA NamesStep == NamesInv /\ [NamesNext]_namesVars => NamesInv'
<1> SUFFICES ASSUME NamesInv, [NamesNext]_namesVars PROVE NamesInv'
  OBVIOUS
<1> USE NamesAssumption DEF NamesInv, NamesTypeOK, RefusedForACause, PendingIsMeant, InPlace, Here
<1>1. CASE DirOpen /\ at = "loop"
  <2>1. /\ \/ dirp' = dirp
           \/ dirp = NoDir /\ dirp' \in [dir : Dirs, unread : SUBSET FileNames]
        /\ "dirp" \in stuck' => "dirp" \in stuck \/ dirp' # dirp
    <3>1. \A dir \in Dirs :
            LET opened == [dir |-> dir, unread |-> {f \in FileNames : <<dir, f>> \in files}]
                            IN opened \in [dir : Dirs, unread : SUBSET FileNames] /\ opened # NoDir
      BY DEF NoDir
    <3> QED
      BY <1>1, <3>1 DEF DirOpen, serverVars, namesClientVars
  <2>2. /\ dirp' \in [dir : Dirs, unread : SUBSET FileNames] \cup {NoDir}
        /\ "dirp" \in stuck' => dirp' # NoDir
    BY <2>1 DEF NoDir
  <2>3. /\ cwd' \in Dirs /\ chdirs' \in BOOLEAN /\ home' \in Dirs /\ strayed' \in BOOLEAN
        /\ (cwd' = cwd /\ chdirs' = chdirs) \/ chdirs'
        /\ cwd' = home' \/ strayed'
    BY <1>1, DirOpenMoves
  <2>4. faults' \in 0..MaxFaults
    BY <1>1 DEF DirOpen, Fault
  <2>5. /\ UNCHANGED <<files, pfn, at, entry, pcwd, renaming, meant, renamed, foreign, restarts>>
        /\ listing' \in {listing, "open"} /\ listing = "none"
        /\ stuck' \in {stuck, stuck \cup {"dirp"}}
        /\ listing' = "open" \/ dirp' = dirp \/ "dirp" \in stuck'
    BY <1>1 DEF DirOpen, serverVars, namesClientVars, callVars
  <2> QED
    BY <1>1, <2>1, <2>2, <2>3, <2>4, <2>5
<1>2. CASE DirRead /\ at = "loop"
  <2>1. /\ dirp' \in [dir : Dirs, unread : SUBSET FileNames] \cup {NoDir}
        /\ dirp' # NoDir <=> dirp # NoDir
        /\ dirp # NoDir => listing' \in {"open", "ended"}
        /\ listing' \in {"none", "open", "ended"}
        /\ UNCHANGED <<files, home, strayed, renaming, meant, chdirs, stuck, renamed,
                       foreign, restarts, pfn>>
        /\ faults' \in 0..MaxFaults
    BY <1>2, DirReadCases DEF placeVars
  <2>2. CASE UNCHANGED <<cwd, callVars>>
    BY <1>2, <2>1, <2>2 DEF callVars
  <2>3. CASE at' = "pushed" /\ entry' \in FileNames /\ pcwd' = cwd /\ cwd' \in Dirs /\ dirp # NoDir
    BY <1>2, <2>1, <2>3
  <2> QED
    BY <1>2, <2>2, <2>3, DirReadCases
<1>11. CASE StatEntry
  BY <1>11 DEF StatEntry, Fault, serverVars, namesClientVars, placeVars
<1>12. ASSUME NEW code, at # "loop", WayBack \/ WayBackFails, Answered(code) PROVE NamesInv'
  <2>1. /\ at' = "loop" /\ entry' = "none" /\ pcwd' = "none"
        /\ listing' \in {"open", "ended"} /\ dirp # NoDir
        /\ UNCHANGED <<files, dirp, pfn, home, renaming, meant, stuck, renamed, foreign, restarts>>
    BY <1>12, AnsweredCases
  <2>2. /\ cwd' \in Dirs /\ strayed' \in BOOLEAN /\ chdirs' \in BOOLEAN
        /\ faults' \in 0..MaxFaults
        /\ InPlace'
        /\ chdirs' \/ (~chdirs /\ Here' = Here)
    BY <1>12, <2>1, WaysBack
  <2>3. NamesTypeOK'
    BY <2>1, <2>2
  <2>4. RefusedForACause'
    BY <2>1
  <2>5. PendingIsMeant'
    BY <2>1, <2>2
  <2> QED
    BY <2>2, <2>3, <2>4, <2>5
<1>13. CASE Pop \/ PopUnchecked
  BY <1>12, <1>13 DEF Pop, PopUnchecked
<1>3. CASE DirClose /\ at = "loop"
  <2>1. /\ dirp' \in {dirp, NoDir} /\ (dirp' # NoDir => dirp' = dirp /\ "dirp" \in stuck')
        /\ "dirp" \in stuck' => dirp' # NoDir
    BY <1>3 DEF DirClose, NoDir
  <2>2. faults' \in 0..MaxFaults
    BY <1>3 DEF DirClose, Fault
  <2>3. /\ UNCHANGED <<files, cwd, pfn, at, entry, pcwd, home, strayed, renaming, meant, chdirs,
                       renamed, foreign, restarts>>
        /\ listing' = "none" /\ stuck' \in {stuck \cup {"dirp"}, stuck \ {"dirp"}}
    BY <1>3 DEF DirClose, callVars, placeVars
  <2> QED
    BY <1>3, <2>1, <2>2, <2>3
<1>4. CASE RenameFrom /\ at = "loop"
  <2>1. UNCHANGED <<files, cwd, dirp, at, entry, pcwd, home, strayed, listing, stuck, renamed, bounds>>
    BY <1>4 DEF RenameFrom, callVars, placeVars
  <2>2. CASE UNCHANGED <<pfn, meant, chdirs, renaming>>
    BY <1>4, <2>1, <2>2 DEF bounds
  <2>3. CASE /\ pfn = "none" /\ chdirs' = FALSE /\ renaming' = "named"
             /\ \E name \in FileNames : pfn' = name /\ meant' = <<cwd, name>>
    <3>1. pfn' \in FileNames /\ meant' = <<cwd, pfn'>> /\ meant' \in Dirs \X FileNames
      BY <2>3
    <3> QED
      BY <1>4, <2>1, <2>3, <3>1 DEF bounds
  <2> QED
    BY <1>4, <2>2, <2>3 DEF RenameFrom
<1>5. CASE RenameTo /\ at = "loop"
  <2>1. /\ UNCHANGED <<cwd, dirp, at, entry, pcwd, home, strayed, listing, meant, chdirs,
                       foreign, restarts>>
        /\ renaming' = "none"
    BY <1>5 DEF RenameTo, callVars, placeVars
  <2>2. /\ files' \subseteq Dirs \X FileNames
        /\ renamed' \in (Dirs \X FileNames) \cup {NoFile}
    BY <1>5 DEF RenameTo, Moved
  <2>3. faults' \in 0..MaxFaults
    BY <1>5 DEF RenameTo, Fault
  <2>4. \/ pfn' = "none" /\ stuck' = stuck \ {"pfn"}
        \/ pfn' = pfn /\ pfn = "none" /\ stuck' = stuck
        \/ pfn' = pfn /\ pfn # "none" /\ stuck' = stuck \cup {"pfn"}
    BY <1>5 DEF RenameTo
  <2> QED
    BY <1>5, <2>1, <2>2, <2>3, <2>4
<1>6. CASE Scratch
  BY <1>6 DEF Scratch, Fault, Reply, serverVars, namesClientVars, callVars, placeVars
<1>7. CASE HostChange
  BY <1>7 DEF HostChange, serverVars, namesClientVars, callVars, placeVars
<1>8. CASE ClientRestart
  BY <1>8 DEF ClientRestart, Reply, serverVars, callVars, placeVars
<1>9. CASE ServerRestart
  <2>1. /\ cwd' = Start /\ dirp' = NoDir /\ pfn' = "none" /\ stuck' = {}
        /\ at' = "loop" /\ entry' = "none" /\ pcwd' = "none"
        /\ home' = Start /\ strayed' = FALSE /\ restarts' \in 0..MaxRestarts
        /\ UNCHANGED <<files, listing, renaming, meant, chdirs, renamed, faults, foreign>>
    BY <1>9 DEF ServerRestart
  <2>2. NamesTypeOK'
    BY <2>1
  <2>3. RefusedForACause' /\ PendingIsMeant' /\ InPlace'
    BY <2>1
  <2> QED BY <2>2, <2>3
<1>10. CASE UNCHANGED namesVars
  BY <1>10 DEF namesVars, serverVars, namesClientVars, callVars, placeVars, bounds
<1> QED
  BY <1>1, <1>2, <1>3, <1>4, <1>5, <1>6, <1>7, <1>8, <1>9, <1>10, <1>11, <1>13 DEF NamesNext

(* NamesInv holds in every state. *)
LEMMA NamesInvariant == NamesSpec => []NamesInv
BY InitNames, NamesStep, PTL DEF NamesSpec

(* The variables keep their types, and what is recorded as left pending is *)
(* pending: a cause is not kept when what it caused is gone.               *)
THEOREM NamesTypeCorrect == NamesSpec => []NamesTypeOK
BY NamesInvariant, PTL DEF NamesInv

(* The server refuses a "rename from" or a listing for one that is pending *)
(* only after a failure or a restart left it so (hostdiropen, hostrenamefm *)
(* and the errors of hostrenameto, hostdirclose).                          *)
THEOREM RefusalsHaveACause == NamesSpec => []RefusedForACause
BY NamesInvariant, PTL DEF NamesInv

-----------------------------------------------------------------------------
(* Action properties. *)

(* What the reply to a rename tells. *)
LEMMA RepliesTell ==
  ASSUME NamesInv, [NamesNext]_namesVars,
         reply'.op = "renameto", renaming = "named", renaming' = "none"
  PROVE  RenameTo /\ at = "loop"
<1> USE DEF Reply
<1>1. ~DirOpen
  BY DEF DirOpen, namesClientVars
<1>2. ~DirRead /\ ~DirClose /\ ~HostChange
  BY DEF DirRead, DirClose, HostChange, namesClientVars
<1>3. ~RenameFrom /\ ~Scratch
  BY DEF RenameFrom, Scratch, namesClientVars
<1>4. ~ClientRestart /\ ~ServerRestart
  BY DEF ClientRestart, ServerRestart
<1>5. ~UNCHANGED namesVars
  BY DEF namesVars, namesClientVars
<1>6. ~StatEntry /\ ~Pop /\ ~PopUnchecked
  BY DEF StatEntry, Pop, PopUnchecked, Answered, namesClientVars
<1> QED
  BY <1>1, <1>2, <1>3, <1>4, <1>5, <1>6 DEF NamesNext

(* A rename that is carried out takes the file that the client's last      *)
(* accepted "rename from" meant: the same name, and in the same directory  *)
(* unless the working directory was moved (hostrenamefm, hostrenameto).    *)
(* If diropen -e moved it, the file of that name in the directory opened.  *)
THEOREM RenamesAreOfTheNamed == NamesSpec => RenameIsOfTheNamed
<1>1. NamesInv /\ [NamesNext]_namesVars =>
        [reply'.op = "renameto" /\ reply'.code = "b" /\ renaming = "named" /\ renaming' = "none"
           => /\ renamed'[2] = meant[2]
              /\ chdirs \/ renamed' = meant
              /\ strayed \/ renamed'[1] = home]_namesVars
  <2> SUFFICES ASSUME NamesInv, [NamesNext]_namesVars,
                      reply'.op = "renameto", reply'.code = "b",
                      renaming = "named", renaming' = "none"
               PROVE  /\ renamed'[2] = meant[2]
                      /\ chdirs \/ renamed' = meant
                      /\ strayed \/ renamed'[1] = home
    OBVIOUS
  <2>1. RenameTo /\ at = "loop"
    BY RepliesTell
  <2>2. <<cwd, pfn>> \in files /\ renamed' = <<cwd, pfn>>
    BY <2>1 DEF RenameTo, Reply
  <2>3. pfn # "none"
    BY <2>2, NamesAssumption DEF NamesInv, NamesTypeOK
  <2>4. pfn = meant[2] /\ (chdirs \/ meant[1] = cwd)
    BY <2>1, <2>3 DEF NamesInv, PendingIsMeant, Here
  <2>5. meant[1] = cwd => meant = <<cwd, meant[2]>>
    BY DEF NamesInv, NamesTypeOK, NoFile
  <2>6. cwd = home \/ strayed
    BY <2>1 DEF NamesInv, InPlace, Here
  <2> QED
    BY <2>2, <2>4, <2>5, <2>6
<1> QED
  BY <1>1, NamesInvariant, PTL DEF NamesSpec, RenameIsOfTheNamed

(* Back in its loop the server is in the directory it was started in or    *)
(* diropen -e put it in, unless a chdir back has failed (hostdirread).     *)
THEOREM ListingsComeBack == NamesSpec => []ListingComesBack
<1>1. NamesInv => ListingComesBack
  BY DEF NamesInv, InPlace, Here, ListingComesBack
<1> QED
  BY <1>1, NamesInvariant, PTL

-----------------------------------------------------------------------------
(***************************************************************************)
(* HostcmFraming, for any commands, any number of frames and however the   *)
(* reads cut up the line: clean frames arrive, frames run together are     *)
(* refused, and a flipped bit is seen unless it is one checksum() cannot   *)
(* see.                                                                    *)
(*                                                                         *)
(* checksum() adds its bytes up in a fold, so the module proves first what *)
(* that fold is.  Induction is over sets of natural numbers.               *)
(***************************************************************************)

(* A set of natural numbers that has a member has a least one. *)
LEMMA Least ==
  ASSUME NEW T \in SUBSET Nat, T # {}
  PROVE  \E n \in T : \A m \in T : n <= m
<1>1. \E x \in T : \A y \in T : ~(<<y, x>> \in OpToRel(<, Nat))
  BY NatLessThanWellFounded, WFMin
<1>2. PICK x \in T : \A y \in T : ~(<<y, x>> \in OpToRel(<, Nat))
  BY <1>1
<1>3. \A y \in T : <<y, x>> \in OpToRel(<, Nat) <=> y < x
  BY DEF OpToRel
<1>4. \A y \in T : ~(y < x)
  BY <1>2, <1>3
<1> HIDE DEF OpToRel
<1>5. x \in Nat /\ \A y \in T : y \in Nat
  OBVIOUS
<1> QED BY <1>4, <1>5

(* Induction. *)
LEMMA Induct ==
  ASSUME NEW S, 0 \in S, \A n \in Nat : n \in S => n + 1 \in S
  PROVE  Nat \subseteq S
<1> SUFFICES ASSUME Nat \ S # {} PROVE FALSE
  OBVIOUS
<1>1. PICK n \in Nat \ S : \A m \in Nat \ S : n <= m
  BY Least
<1>2. n # 0 /\ n - 1 \in Nat
  BY <1>1
<1>3. n - 1 \in S BY <1>1, <1>2
<1> QED BY <1>1, <1>2, <1>3

(* f are the iterates of step, which is in [S -> S], from s on. *)
IsIteration(f, S, step, s) ==
  f \in [Nat -> S] /\ f[0] = s /\ \A n \in Nat : f[n + 1] = step[f[n]]

(* A function from S to S can be iterated from any member of S. *)
LEMMA Iterates ==
  ASSUME NEW S, NEW step \in [S -> S], NEW s \in S
  PROVE  \E f : IsIteration(f, S, step, s)
<1> DEFINE Upto(n, g) == /\ g \in [0..n -> S] /\ g[0] = s
                         /\ \A i \in 0..(n - 1) : g[i + 1] = step[g[i]]
           Reached == {n \in Nat : \E g : Upto(n, g)}
<1>1. Nat \subseteq Reached
  <2>1. 0 \in Reached
    <3>1. Upto(0, [i \in 0..0 |-> s])
      OBVIOUS
    <3> QED BY <3>1
  <2>2. ASSUME NEW n \in Nat, n \in Reached PROVE n + 1 \in Reached
    <3>1. PICK g : Upto(n, g)
      BY <2>2
    <3> DEFINE h == [i \in 0..(n + 1) |-> IF i = n + 1 THEN step[g[n]] ELSE g[i]]
    <3>2. g[n] \in S /\ step[g[n]] \in S
      BY <3>1
    <3>3. h \in [0..(n + 1) -> S]
      BY <3>1, <3>2
    <3>4. h[0] = s
      BY <3>1
    <3>5. \A i \in 0..n : h[i + 1] = step[h[i]]
      BY <3>1
    <3>6. Upto(n + 1, h)
      BY <3>3, <3>4, <3>5
    <3> HIDE DEF h, Upto
    <3> QED BY <3>6
  <2> HIDE DEF Reached
  <2> QED BY <2>1, <2>2, Induct
<1>2. ASSUME NEW m \in Nat, NEW n \in Nat, NEW g, NEW h, Upto(m, g), Upto(n, h)
      PROVE  \A i \in Nat : i <= m /\ i <= n => g[i] = h[i]
  <2> DEFINE Same == {i \in Nat : i <= m /\ i <= n => g[i] = h[i]}
  <2>1. 0 \in Same
    BY <1>2
  <2>2. ASSUME NEW i \in Nat, i \in Same PROVE i + 1 \in Same
    <3>1. SUFFICES ASSUME i + 1 <= m, i + 1 <= n PROVE g[i + 1] = h[i + 1]
      OBVIOUS
    <3>2. g[i] = h[i] /\ i \in 0..(m - 1) /\ i \in 0..(n - 1)
      BY <2>2, <3>1
    <3> QED BY <3>2, <1>2
  <2>3. Nat \subseteq Same
    <3> HIDE DEF Same
    <3> QED BY <2>1, <2>2, Induct
  <2> QED BY <2>3
<1> DEFINE some(n) == CHOOSE g : Upto(n, g)
           f == [n \in Nat |-> some(n)[n]]
<1>3. \A n \in Nat : Upto(n, some(n))
  BY <1>1
<1>4. f \in [Nat -> S]
  <2>1. ASSUME NEW n \in Nat PROVE some(n)[n] \in S
    <3> HIDE DEF some
    <3>1. Upto(n, some(n)) /\ n \in 0..n
      BY <1>3
    <3> QED BY <3>1
  <2> HIDE DEF some
  <2> QED BY <2>1
<1>5. f[0] = s
  BY <1>3
<1>6. ASSUME NEW n \in Nat PROVE f[n + 1] = step[f[n]]
  <2>1. Upto(n, some(n)) /\ Upto(n + 1, some(n + 1))
    <3> HIDE DEF some, Upto
    <3> QED BY <1>3
  <2>2. some(n)[n] = some(n + 1)[n]
    <3> HIDE DEF some, Upto
    <3> QED BY <2>1, <1>2
  <2>3. some(n + 1)[n + 1] = step[some(n + 1)[n]]
    <3> HIDE DEF some
    <3> QED BY <2>1
  <2>4. f[n + 1] = some(n + 1)[n + 1] /\ f[n] = some(n)[n]
    <3> HIDE DEF some
    <3> QED OBVIOUS
  <2> QED BY <2>2, <2>3, <2>4
<1> HIDE DEF f
<1> QED BY <1>4, <1>5, <1>6 DEF IsIteration

-----------------------------------------------------------------------------
(* Sums of low nibbles.                                                    *)

Byte == 0..255

(* A set of some of 1..n has a largest member. *)
LEMMA Largest ==
  ASSUME NEW n \in Nat, NEW T \in SUBSET (1..n), T # {}
  PROVE  Max(T) \in T /\ \A y \in T : Max(T) >= y
<1> DEFINE Gaps == {g \in Nat : \E x \in T : g = n - x}
<1>1. Gaps \in SUBSET Nat /\ Gaps # {}
  <2>1. PICK x \in T : TRUE
    OBVIOUS
  <2>2. n - x \in Nat
    BY <2>1
  <2> QED BY <2>1, <2>2
<1>2. PICK g \in Gaps : \A m \in Gaps : g <= m
  <2> HIDE DEF Gaps
  <2> QED BY <1>1, Least
<1>3. PICK x \in T : g = n - x
  BY <1>2
<1>4. \A y \in T : x >= y
  <2>1. ASSUME NEW y \in T PROVE x >= y
    <3>1. n - y \in Gaps
      OBVIOUS
    <3>2. n - x <= n - y
      BY <1>2, <1>3, <3>1
    <3> QED BY <3>2
  <2> QED BY <2>1
<1> QED BY <1>3, <1>4 DEF Max

(* What FoldLeft builds on the positions of b, the last one first. *)
Folds(f, b) ==
  f = [s \in SUBSET DOMAIN b |->
         IF s = {} THEN 0 ELSE f[s \ {Max(s)}] + (b[Max(s)] % 16)]

(* h adds up b from the left. *)
AddsUp(h, b) ==
  /\ h \in [0..Len(b) -> Nat] /\ h[0] = 0
  /\ \A i \in 1..Len(b) : h[i] = h[i - 1] + (b[i] % 16)

(* checksum() adds the bytes up one by one. *)
LEMMA NibbleSumIs ==
  ASSUME NEW b \in Seq(Byte)
  PROVE  \E h : AddsUp(h, b) /\ NibbleSum(b) = h[Len(b)] % 16
<1> DEFINE N == Len(b)
           D == 1..N
           F == [SUBSET D -> Nat]
           v == [i \in Nat |-> IF i \in D THEN b[i] % 16 ELSE 0]
           zero == [s \in SUBSET D |-> 0]
           more(i, s) == IF i \in s THEN v[i] ELSE 0
           step == [x \in Nat \X F |->
                      <<x[1] + 1, [s \in SUBSET D |-> x[2][s] + more(x[1] + 1, s)]>>]
<1>0. N \in Nat /\ DOMAIN b = D
  BY LenProperties
<1>1. v \in [Nat -> Nat]
  <2>1. \A i \in D : b[i] \in Byte
    BY ElementOfSeq
  <2>2. \A c \in Byte : c % 16 \in Nat
    BY DEF Byte
  <2> QED BY <2>1, <2>2
<1>2. \A i \in Nat, s \in SUBSET D : more(i, s) \in Nat
  <2> HIDE DEF v
  <2> QED BY <1>1
<1>3. step \in [Nat \X F -> Nat \X F]
  <2>1. ASSUME NEW x \in Nat \X F
        PROVE  <<x[1] + 1, [s \in SUBSET D |-> x[2][s] + more(x[1] + 1, s)]>> \in Nat \X F
    <3>1. x[1] + 1 \in Nat /\ x[2] \in F
      OBVIOUS
    <3>2. \A s \in SUBSET D : x[2][s] + more(x[1] + 1, s) \in Nat
      <4>1. \A s \in SUBSET D : x[2][s] \in Nat
        <5> HIDE DEF D
        <5> QED BY <3>1
      <4>2. \A s \in SUBSET D : more(x[1] + 1, s) \in Nat
        <5> HIDE DEF more, D, F
        <5> QED BY <1>2, <3>1
      <4> HIDE DEF more, D, F
      <4> QED BY <4>1, <4>2
    <3> HIDE DEF more
    <3> QED BY <3>1, <3>2
  <2> HIDE DEF F, more
  <2> QED BY <2>1
<1>4. <<0, zero>> \in Nat \X F
  OBVIOUS
<1>5. PICK g : IsIteration(g, Nat \X F, step, <<0, zero>>)
  <2> HIDE DEF F, step, zero
  <2> QED BY <1>3, <1>4, Iterates
<1>6. \A n \in Nat : /\ g[n] \in Nat \X F
                     /\ g[n + 1] = step[g[n]]
  <2> HIDE DEF step, F
  <2> QED BY <1>5 DEF IsIteration
<1> DEFINE after(n) == [s \in SUBSET D |-> g[n][2][s] + more(g[n][1] + 1, s)]
<1>61. \A n \in Nat : g[n + 1] = <<g[n][1] + 1, after(n)>>
  <2> HIDE DEF F, more, D
  <2> QED BY <1>6
<1>62. \A n \in Nat : g[n + 1][1] = g[n][1] + 1 /\ g[n + 1][2] = after(n)
  <2> SUFFICES ASSUME NEW n \in Nat
               PROVE  g[n + 1][1] = g[n][1] + 1 /\ g[n + 1][2] = after(n)
    OBVIOUS
  <2>1. g[n + 1] = <<g[n][1] + 1, after(n)>>
    BY <1>61
  <2> HIDE DEF after, F, more, D, step
  <2> QED BY <2>1
<1>7. g[0] = <<0, zero>>
  BY <1>5 DEF IsIteration
<1> DEFINE G(n) == g[n][2]
<1>8. \A n \in Nat : g[n][1] = n
  <2> DEFINE Good == {n \in Nat : g[n][1] = n}
  <2>1. 0 \in Good
    BY <1>7
  <2>2. ASSUME NEW n \in Nat, n \in Good PROVE n + 1 \in Good
    <3>1. g[n + 1][1] = g[n][1] + 1
      <4> HIDE DEF after, F, more, D, step
      <4> QED BY <1>62
    <3> QED BY <2>2, <3>1
  <2>3. Nat \subseteq Good
    <3> HIDE DEF Good
    <3> QED BY <2>1, <2>2, Induct
  <2> QED BY <2>3
<1>9. \A n \in Nat : G(n) \in F
  <2> HIDE DEF F
  <2> QED BY <1>6
<1>10. \A s \in SUBSET D : G(0)[s] = 0
  BY <1>7
<1>11. \A n \in Nat, s \in SUBSET D : G(n + 1)[s] = G(n)[s] + more(n + 1, s)
  <2>1. ASSUME NEW n \in Nat, NEW s \in SUBSET D
        PROVE  after(n)[s] = g[n][2][s] + more(n + 1, s)
    <3> HIDE DEF F, more, D, step
    <3> QED BY <1>8
  <2> HIDE DEF after, F, more, D, step
  <2> QED BY <1>62, <2>1
<1> HIDE DEF G, step, zero
<1>12. ASSUME NEW s \in SUBSET D, NEW m \in s, \A y \in s : m >= y
       PROVE  \A n \in Nat : G(n)[s] = G(n)[s \ {m}] + IF n >= m THEN v[m] ELSE 0
  <2> DEFINE piece(n) == IF n >= m THEN v[m] ELSE 0
             Good == {n \in Nat : G(n)[s] = G(n)[s \ {m}] + piece(n)}
  <2>0. m \in D /\ m \in Nat /\ m > 0 /\ s \ {m} \in SUBSET D /\ v[m] \in Nat
    BY <1>0, <1>1
  <2>1. 0 \in Good
    BY <1>10, <2>0
  <2>2. ASSUME NEW n \in Nat, n \in Good PROVE n + 1 \in Good
    <3>1. /\ G(n)[s] = G(n)[s \ {m}] + piece(n)
          /\ G(n + 1)[s] = G(n)[s] + more(n + 1, s)
          /\ G(n + 1)[s \ {m}] = G(n)[s \ {m}] + more(n + 1, s \ {m})
      BY <1>11, <2>0, <2>2
    <3>2. G(n)[s \ {m}] \in Nat /\ more(n + 1, s \ {m}) \in Nat /\ piece(n) \in Nat
      <4>1. n + 1 \in Nat
        OBVIOUS
      <4>2. G(n) \in F
        BY <1>9
      <4> HIDE DEF more, D
      <4> QED BY <1>2, <2>0, <4>1, <4>2
    <3>3. piece(n) + more(n + 1, s) = more(n + 1, s \ {m}) + piece(n + 1)
      <4> HIDE DEF v
      <4>1. CASE n + 1 = m
        BY <4>1, <2>0
      <4>2. CASE n + 1 # m
        <5>1. n >= m <=> n + 1 >= m
          BY <4>2, <2>0
        <5>2. n + 1 \in s <=> n + 1 \in s \ {m}
          BY <4>2
        <5>3. piece(n) = piece(n + 1) /\ more(n + 1, s) = more(n + 1, s \ {m})
          BY <5>1, <5>2
        <5>4. piece(n) \in Nat /\ more(n + 1, s) \in Nat
          BY <3>2, <5>3
        <5> HIDE DEF piece, more
        <5> QED BY <5>3, <5>4
      <4> QED BY <4>1, <4>2
    <3>4. piece(n + 1) \in Nat /\ more(n + 1, s) \in Nat
      <4>1. n + 1 \in Nat
        OBVIOUS
      <4> HIDE DEF v, D
      <4> QED BY <1>2, <2>0, <4>1
    <3>5. G(n + 1)[s] = G(n + 1)[s \ {m}] + piece(n + 1)
      <4> HIDE DEF piece, more, D, v
      <4> QED BY <3>1, <3>2, <3>3, <3>4
    <3> HIDE DEF piece, more, D, v
    <3> QED BY <3>5
  <2>3. Nat \subseteq Good
    <3> HIDE DEF Good
    <3> QED BY <2>1, <2>2, Induct
  <2> HIDE DEF v
  <2> QED BY <2>3
<1> DEFINE Fold == [s \in SUBSET D |-> G(N)[s]]
<1>13. \A s \in SUBSET D : s # {} =>
         /\ Max(s) \in s
         /\ s \ {Max(s)} \in SUBSET D
         /\ G(N)[s] = G(N)[s \ {Max(s)}] + (b[Max(s)] % 16)
  <2> SUFFICES ASSUME NEW s \in SUBSET D, s # {}
               PROVE /\ Max(s) \in s
                     /\ s \ {Max(s)} \in SUBSET D
                     /\ G(N)[s] = G(N)[s \ {Max(s)}] + (b[Max(s)] % 16)
    OBVIOUS
  <2>1. Max(s) \in s /\ \A y \in s : Max(s) >= y
    BY <1>0, Largest
  <2>2. N >= Max(s) /\ v[Max(s)] = b[Max(s)] % 16
    <3>1. Max(s) \in D
      <4> HIDE DEF D
      <4> QED BY <2>1
    <3>2. ASSUME NEW m \in D PROVE N >= m /\ v[m] = b[m] % 16
      BY <1>0
    <3> HIDE DEF D, v, N
    <3> QED BY <3>1, <3>2
  <2>3. G(N)[s] = G(N)[s \ {Max(s)}] + IF N >= Max(s) THEN v[Max(s)] ELSE 0
    <3> HIDE DEF N, D, v
    <3> QED BY <1>0, <1>12, <2>1
  <2> HIDE DEF v
  <2> QED BY <2>1, <2>2, <2>3
<1>14. \A n \in Nat : G(n)[{}] = 0
  <2> DEFINE Good == {n \in Nat : G(n)[{}] = 0}
  <2>1. 0 \in Good
    BY <1>10
  <2>2. ASSUME NEW n \in Nat, n \in Good PROVE n + 1 \in Good
    <3> HIDE DEF v, D
    <3> QED BY <1>11, <2>2
  <2>3. Nat \subseteq Good
    <3> HIDE DEF Good
    <3> QED BY <2>1, <2>2, Induct
  <2> QED BY <2>3
<1>15. Folds(Fold, b)
  <2>1. ASSUME NEW s \in SUBSET D
        PROVE  Fold[s] = IF s = {} THEN 0 ELSE Fold[s \ {Max(s)}] + (b[Max(s)] % 16)
    <3> HIDE DEF D, N
    <3> QED BY <1>0, <1>13, <1>14
  <2>2. \A s \in SUBSET D : Fold[s] = G(N)[s]
    OBVIOUS
  <2>3. Fold = [s \in SUBSET D |-> Fold[s]]
    OBVIOUS
  <2> HIDE DEF Fold, D
  <2> QED BY <1>0, <2>1, <2>3 DEF Folds
<1>16. PICK f : f = (CHOOSE r : Folds(r, b)) /\ Folds(f, b)
  <2> HIDE DEF Fold
  <2> QED BY <1>15
<1>17. f[D] = G(N)[D]
  <2> DEFINE Good == {n \in Nat : \A s \in SUBSET D : (\A x \in s : x <= n) => f[s] = G(N)[s]}
  <2>1. 0 \in Good
    <3>1. ASSUME NEW s \in SUBSET D, \A x \in s : x <= 0 PROVE s = {}
      BY <3>1
    <3>2. f[{}] = 0 /\ G(N)[{}] = 0
      <4> HIDE DEF D, N
      <4> QED BY <1>0, <1>14, <1>16 DEF Folds
    <3> HIDE DEF D, N
    <3> QED BY <3>1, <3>2
  <2>2. ASSUME NEW n \in Nat, n \in Good PROVE n + 1 \in Good
    <3> SUFFICES ASSUME NEW s \in SUBSET D, \A x \in s : x <= n + 1
                 PROVE  f[s] = G(N)[s]
      <4> HIDE DEF D, N
      <4> QED OBVIOUS
    <3>0. CASE s = {}
      <4>1. {} \in SUBSET D /\ \A x \in {} : x <= n
        OBVIOUS
      <4> HIDE DEF D, N
      <4> QED BY <2>2, <4>1, <3>0
    <3> SUFFICES ASSUME s # {} PROVE f[s] = G(N)[s]
      BY <3>0
    <3>1. Max(s) \in s /\ \A y \in s : Max(s) >= y
      BY <1>0, Largest
    <3>2. \A x \in s \ {Max(s)} : x <= n
      <4>1. \A x \in s : x \in Nat
        BY <1>0
      <4> HIDE DEF N, D
      <4> QED BY <4>1, <3>1
    <3>3. f[s \ {Max(s)}] = G(N)[s \ {Max(s)}]
      <4> HIDE DEF D, N
      <4> QED BY <2>2, <3>2
    <3>4. f[s] = f[s \ {Max(s)}] + (b[Max(s)] % 16)
      <4> HIDE DEF D, N
      <4> QED BY <1>0, <1>16 DEF Folds
    <3> HIDE DEF D, N
    <3> QED BY <1>13, <3>3, <3>4
  <2>3. Nat \subseteq Good
    <3> HIDE DEF Good
    <3> QED BY <2>1, <2>2, Induct
  <2>4. D \in SUBSET D /\ \A x \in D : x <= N
    BY <1>0
  <2> HIDE DEF D, N
  <2> QED BY <1>0, <2>3, <2>4
<1>18. NibbleSum(b) = f[D] % 16
  <2>1. NibbleSum(b) = (CHOOSE r : Folds(r, b))[DOMAIN b] % 16
    BY Zenon DEF NibbleSum, FoldLeft, MapThenFoldSet, Folds
  <2> QED BY <1>0, <1>16, <2>1
<1> DEFINE h == [i \in 0..N |-> G(i)[D]]
<1>19. AddsUp(h, b)
  <2>1. h \in [0..N -> Nat]
    <3>1. \A i \in 0..N : G(i) \in F /\ D \in SUBSET D
      <4>1. \A i \in 0..N : i \in Nat
        BY <1>0
      <4> HIDE DEF N, D, F
      <4> QED BY <4>1, <1>9
    <3> HIDE DEF D, N
    <3> QED BY <3>1
  <2>2. h[0] = 0
    BY <1>0, <1>10
  <2>3. ASSUME NEW i \in 1..N PROVE h[i] = h[i - 1] + (b[i] % 16)
    <3>1. i - 1 \in Nat /\ i - 1 \in 0..N /\ i \in 0..N /\ i \in D /\ (i - 1) + 1 = i
      BY <1>0
    <3>2. G(i)[D] = G(i - 1)[D] + more(i, D)
      <4>1. D \in SUBSET D OBVIOUS
      <4> HIDE DEF D, N, v, more
      <4> QED BY <1>11, <3>1, <4>1
    <3>3. more(i, D) = b[i] % 16
      BY <3>1
    <3>4. h[i] = G(i)[D] /\ h[i - 1] = G(i - 1)[D]
      <4> HIDE DEF D, N, v, more
      <4> QED BY <3>1
    <3> HIDE DEF h, more
    <3> QED BY <3>2, <3>3, <3>4
  <2> HIDE DEF h
  <2> QED BY <1>0, <2>1, <2>2, <2>3 DEF AddsUp
<1>20. h[N] = G(N)[D]
  BY <1>0
<1> HIDE DEF h
<1> QED BY <1>17, <1>18, <1>19, <1>20

(* A sum is a nibble. *)
LEMMA NibbleSumType == ASSUME NEW b \in Seq(Byte) PROVE NibbleSum(b) \in 0..15
<1>1. PICK h : AddsUp(h, b) /\ NibbleSum(b) = h[Len(b)] % 16
  BY NibbleSumIs
<1>2. h[Len(b)] \in Nat
  BY <1>1, LenProperties DEF AddsUp
<1> QED BY <1>1, <1>2

(* The sum of a sequence that is two put together. *)
LEMMA SumOfBoth ==
  ASSUME NEW b \in Seq(Byte), NEW c \in Seq(Byte)
  PROVE  NibbleSum(b \o c) = (NibbleSum(b) + NibbleSum(c)) % 16
<1> DEFINE both == b \o c
           m == Len(b)
           n == Len(c)
<1>1. both \in Seq(Byte) /\ Len(both) = m + n /\ m \in Nat /\ n \in Nat
  BY ConcatProperties, LenProperties
<1>2. PICK f : AddsUp(f, b) /\ NibbleSum(b) = f[m] % 16
  BY NibbleSumIs
<1>3. PICK g : AddsUp(g, c) /\ NibbleSum(c) = g[n] % 16
  BY NibbleSumIs
<1>4. PICK h : AddsUp(h, both) /\ NibbleSum(both) = h[Len(both)] % 16
  <2> HIDE DEF both
  <2> QED BY <1>1, NibbleSumIs
<1>5. \A i \in 1..m : both[i] = b[i] /\ b[i] \in Byte
  BY ConcatProperties, ElementOfSeq
<1>6. \A i \in 1..n : both[m + i] = c[i] /\ c[i] \in Byte
  BY ConcatProperties, ElementOfSeq
<1>7. /\ f \in [0..m -> Nat] /\ f[0] = 0
      /\ \A i \in 1..m : f[i] = f[i - 1] + (b[i] % 16)
      /\ g \in [0..n -> Nat] /\ g[0] = 0
      /\ \A i \in 1..n : g[i] = g[i - 1] + (c[i] % 16)
      /\ h \in [0..(m + n) -> Nat] /\ h[0] = 0
      /\ \A i \in 1..(m + n) : h[i] = h[i - 1] + (both[i] % 16)
  BY <1>1, <1>2, <1>3, <1>4 DEF AddsUp
<1> HIDE DEF both, m, n
<1>8. h[m] = f[m]
  <2> DEFINE Good == {i \in Nat : i <= m => h[i] = f[i]}
  <2>1. 0 \in Good
    BY <1>7
  <2>2. ASSUME NEW i \in Nat, i \in Good PROVE i + 1 \in Good
    <3> SUFFICES ASSUME i + 1 <= m PROVE h[i + 1] = f[i + 1]
      OBVIOUS
    <3>1. i + 1 \in 1..m /\ i + 1 \in 1..(m + n) /\ (i + 1) - 1 = i /\ i <= m
      BY <1>1
    <3> QED BY <1>5, <1>7, <2>2, <3>1
  <2>3. Nat \subseteq Good
    <3> HIDE DEF Good
    <3> QED BY <2>1, <2>2, Induct
  <2> QED BY <1>1, <2>3
<1>9. h[m + n] = f[m] + g[n]
  <2> DEFINE Good == {i \in Nat : i <= n => h[m + i] = f[m] + g[i]}
  <2>0. f[m] \in Nat
    BY <1>1, <1>7
  <2>1. 0 \in Good
    BY <1>1, <1>7, <1>8, <2>0
  <2>2. ASSUME NEW i \in Nat, i \in Good PROVE i + 1 \in Good
    <3> SUFFICES ASSUME i + 1 <= n PROVE h[m + (i + 1)] = f[m] + g[i + 1]
      OBVIOUS
    <3>1. /\ i + 1 \in 1..n /\ m + (i + 1) \in 1..(m + n) /\ (m + (i + 1)) - 1 = m + i
          /\ (i + 1) - 1 = i /\ i <= n /\ i \in 0..n
      BY <1>1
    <3>2. h[m + (i + 1)] = h[m + i] + (c[i + 1] % 16)
      BY <1>6, <1>7, <3>1
    <3>3. g[i + 1] = g[i] + (c[i + 1] % 16) /\ g[i] \in Nat
      BY <1>7, <3>1
    <3>4. h[m + i] = f[m] + g[i]
      BY <2>2, <3>1
    <3>5. c[i + 1] % 16 \in Nat
      <4>1. c[i + 1] \in Byte
        BY <1>6, <3>1
      <4>2. \A x \in Byte : x % 16 \in Nat
        BY DEF Byte
      <4> QED BY <4>1, <4>2
    <3> QED BY <2>0, <3>2, <3>3, <3>4, <3>5
  <2>3. Nat \subseteq Good
    <3> HIDE DEF Good
    <3> QED BY <2>1, <2>2, Induct
  <2> QED BY <1>1, <2>3
<1>10. f[m] \in Nat /\ g[n] \in Nat
  BY <1>1, <1>7
<1>11. \A x, y \in Nat : (x + y) % 16 = ((x % 16) + (y % 16)) % 16
  OBVIOUS
<1>12. NibbleSum(b \o c) = (f[m] + g[n]) % 16
  BY <1>1, <1>4, <1>9 DEF both
<1> QED BY <1>2, <1>3, <1>10, <1>11, <1>12

(* The sum of one byte is its low nibble. *)
LEMMA SumOfOne == ASSUME NEW c \in Byte PROVE <<c>> \in Seq(Byte) /\ NibbleSum(<<c>>) = c % 16
<1>1. <<c>> \in Seq(Byte) /\ Len(<<c>>) = 1
  OBVIOUS
<1>2. PICK h : AddsUp(h, <<c>>) /\ NibbleSum(<<c>>) = h[1] % 16
  BY <1>1, NibbleSumIs
<1>3. h[1] = h[0] + (<<c>>[1] % 16) /\ h[0] = 0
  BY <1>1, <1>2 DEF AddsUp
<1>4. h[1] = c % 16
  BY <1>3 DEF Byte
<1> QED BY <1>1, <1>2, <1>4 DEF Byte

(* A checksum is a letter from 'A' to 'P'. *)
LEMMA ChecksumRange == ASSUME NEW b \in Seq(Byte) PROVE Checksum(b) \in 65..80
<1>1. NibbleSum(b) \in 0..15
  BY NibbleSumType
<1>2. \A x \in 0..15 : 65 + x \in 65..80
  OBVIOUS
<1>3. 65 + NibbleSum(b) \in 65..80
  BY <1>1, <1>2, Zenon
<1> QED BY <1>3, Zenon DEF Checksum

-----------------------------------------------------------------------------
(* Frames, and what a read makes of them.                                  *)

(* A payload is bytes other than the line end, and so is its frame, whose  *)
(* last byte is a checksum letter unless it is the only one.               *)
LEMMA PayloadType ==
  ASSUME NEW p \in Payloads
  PROVE  /\ p \in Seq(Byte) /\ Len(p) \in Nat \ {0}
         /\ \A i \in 1..Len(p) : p[i] \in 0..127 /\ p[i] # LineEnd
<1>1. p \in Seq(0..127 \ {LineEnd}) /\ p # <<>>
  BY FramingAssumption
<1>2. Len(p) \in Nat \ {0}
  BY <1>1, EmptySeq, LenProperties
<1>3. \A i \in 1..Len(p) : p[i] \in 0..127 \ {LineEnd}
  BY <1>1, ElementOfSeq
<1>4. 0..127 \ {LineEnd} \subseteq Byte
  BY DEF Byte
<1>5. Seq(0..127 \ {LineEnd}) \subseteq Seq(Byte)
  BY <1>4, SeqMonotonic
<1> QED BY <1>1, <1>2, <1>3, <1>5

Plain(p) == Len(p) = 1 /\ p[1] \in {Nak, Quit}

(* What Framed makes of a payload. *)
LEMMA FrameType ==
  ASSUME NEW p \in Payloads
  PROVE  /\ Framed(p) \in Seq(Byte)
         /\ Len(Framed(p)) = IF Plain(p) THEN 1 ELSE Len(p) + 1
         /\ \A i \in 1..Len(Framed(p)) : Framed(p)[i] \in 0..127 /\ Framed(p)[i] # LineEnd
         /\ ~Plain(p) => Front(Framed(p)) = p /\ Last(Framed(p)) = Checksum(p)
         /\ Plain(p) => Framed(p) = p
<1>1. /\ p \in Seq(Byte) /\ Len(p) \in Nat \ {0}
      /\ \A i \in 1..Len(p) : p[i] \in 0..127 /\ p[i] # LineEnd
  BY PayloadType
<1>2. Checksum(p) \in 65..80
  BY <1>1, ChecksumRange
<1>3. CASE Plain(p)
  BY <1>1, <1>3 DEF Framed, Plain
<1>4. CASE ~Plain(p)
  <2>1. Framed(p) = Append(p, Checksum(p))
    BY <1>4 DEF Framed, Plain
  <2>2. Checksum(p) \in Byte /\ Checksum(p) \in 0..127 /\ Checksum(p) # LineEnd
    BY <1>2 DEF Byte, LineEnd
  <2>3. /\ Append(p, Checksum(p)) \in Seq(Byte)
        /\ Len(Append(p, Checksum(p))) = Len(p) + 1
        /\ \A i \in 1..Len(p) : Append(p, Checksum(p))[i] = p[i]
        /\ Append(p, Checksum(p))[Len(p) + 1] = Checksum(p)
    BY <1>1, <2>2, AppendProperties
  <2>4. \A i \in 1..(Len(p) + 1) : i \in 1..Len(p) \/ i = Len(p) + 1
    BY <1>1
  <2>5. Front(Append(p, Checksum(p))) = p
    <3>1. Front(Append(p, Checksum(p))) = SubSeq(Append(p, Checksum(p)), 1, Len(p))
      BY <1>1, <2>3 DEF Front
    <3> HIDE DEF Checksum
    <3>2. SubSeq(Append(p, Checksum(p)), 1, Len(p)) = p
      BY <1>1, <2>2, <2>3
    <3> QED BY <3>1, <3>2
  <2>6. Last(Append(p, Checksum(p))) = Checksum(p)
    BY <2>3 DEF Last
  <2> QED BY <1>1, <1>4, <2>1, <2>2, <2>3, <2>4, <2>5, <2>6
<1> QED BY <1>3, <1>4

(* An undamaged frame is taken for the command it carries. *)
LEMMA FrameIsTaken ==
  ASSUME NEW p \in Payloads
  PROVE  Verdict(Framed(p)) = Accepted(p)
<1>1. p \in Seq(Byte) /\ Len(p) \in Nat \ {0}
  BY PayloadType
<1> QED BY <1>1, FrameType DEF Verdict

(* Putting sequences of bytes together. *)
LEMMA Associative ==
  \A x, y, z \in Seq(Byte) : (x \o y) \o z = x \o (y \o z)
<1> SUFFICES ASSUME NEW x \in Seq(Byte), NEW y \in Seq(Byte), NEW z \in Seq(Byte)
             PROVE  (x \o y) \o z = x \o (y \o z)
  OBVIOUS
<1> QED BY ConcatAssociative

(* A read takes the whole of what is pending, to its line end, or leaves   *)
(* it pending and a rest of it to read.                                    *)
LEMMA ReadStep ==
  ASSUME buf \in Seq(Byte), line \in Seq(Byte), BufSize \in Nat,
         NEW w \in Seq(Byte), buf \o line = w,
         Len(w) <= BufSize, Len(w) = BufSize => Last(w) = LineEnd,
         \A i \in 1..(Len(w) - 1) : w[i] # LineEnd,
         Read
  PROVE  \/ /\ buf' = <<>> /\ line' = <<>> /\ taken' = Append(taken, Verdict(Front(w)))
            /\ Last(w) = LineEnd
         \/ taken' = taken /\ buf' \o line' = w /\ (Last(w) = LineEnd => line' # <<>>)
<1> DEFINE read(k) == buf \o SubSeq(line, 1, k)
           rest(k) == SubSeq(line, k + 1, Len(line))
<1>1. PICK k \in 1..Len(line) :
        /\ line' = rest(k)
        /\ IF Last(read(k)) = LineEnd \/ Len(read(k)) = BufSize
             THEN buf' = <<>> /\ taken' = Append(taken, Verdict(Front(read(k))))
             ELSE buf' = read(k) /\ taken' = taken
  BY DEF Read
<1>2. Len(line) \in Nat /\ Len(buf) \in Nat /\ Len(w) = Len(buf) + Len(line)
  BY LenProperties, ConcatProperties
<1>3. /\ SubSeq(line, 1, k) \in Seq(Byte) /\ Len(SubSeq(line, 1, k)) = k
      /\ rest(k) \in Seq(Byte) /\ Len(rest(k)) = Len(line) - k
  BY <1>2
<1>4. read(k) \o rest(k) = w
  <2>1. SubSeq(line, 1, k) \o rest(k) = line
    BY <1>2
  <2>2. read(k) \o rest(k) = buf \o (SubSeq(line, 1, k) \o rest(k))
    <3> HIDE DEF rest
    <3> QED BY <1>3, Associative, Zenon
  <2> QED BY <2>1, <2>2
<1>5. read(k) \in Seq(Byte) /\ Len(read(k)) = Len(buf) + k
  <2> HIDE DEF rest
  <2> QED BY <1>3, ConcatProperties
<1>6. Last(read(k)) = w[Len(buf) + k]
  <2>1. w = read(k) \o rest(k) /\ Len(buf) + k \in 1..Len(read(k))
    <3> HIDE DEF read, rest
    <3> QED BY <1>2, <1>4, <1>5
  <2> HIDE DEF read, rest
  <2> QED BY <1>3, <1>5, <2>1 DEF Last
<1>7. CASE k = Len(line)
  <2>1. rest(k) = <<>> /\ read(k) = w
    BY <1>2, <1>7
  <2>2. Last(read(k)) = Last(w)
    BY <2>1
  <2> HIDE DEF read, rest
  <2> QED BY <1>1, <2>1, <1>4
<1>8. CASE k # Len(line)
  <2>1. Len(buf) + k \in 1..(Len(w) - 1) /\ Len(buf) + k # BufSize
    BY <1>2, <1>8
  <2>2. Last(read(k)) # LineEnd
    BY <1>6, <2>1
  <2>3. rest(k) # <<>>
    BY <1>2, <1>3, <1>8
  <2> HIDE DEF read, rest
  <2> QED BY <1>1, <1>4, <1>5, <2>1, <2>2, <2>3
<1> QED BY <1>7, <1>8

-----------------------------------------------------------------------------
(* The invariant.                                                          *)

Pending == buf \o line

Ended(w) == Append(w, LineEnd)

Frame(i) == Framed(sent[i])

(* On a clean line, either nothing is pending and all that was sent is     *)
(* taken, or the last frame is pending and some of it not yet read.        *)
CleanLine ==
  flips = 0 /\ lost = 0 =>
    \/ Pending = <<>> /\ taken = [i \in 1..Len(sent) |-> Accepted(sent[i])]
    \/ /\ sent # <<>> /\ line # <<>> /\ Pending = Ended(Frame(Len(sent)))
       /\ taken = [i \in 1..(Len(sent) - 1) |-> Accepted(sent[i])]

(* With one line end lost, what is pending may also be a frame that lacks  *)
(* its line end, or two that have run together.                            *)
RunTogetherLine ==
  flips = 0 /\ lost = 1 =>
    \/ Pending = <<>>
    \/ sent # <<>> /\ Pending = Frame(Len(sent))
    \/ sent # <<>> /\ line # <<>> /\ Pending = Ended(Frame(Len(sent)))
    \/ /\ Len(sent) > 1 /\ line # <<>>
       /\ Pending = Ended(Frame(Len(sent) - 1) \o Frame(Len(sent)))

(* What a flip makes of a frame. *)
DamagedAt(F, i, d) == SubSeq(F, 1, i - 1) \o Marked(d) \o SubSeq(F, i + 1, Len(F))

Damaged(F) == DamagedAt(F, flip.at, flip.to)

(* With one bit flipped in the only frame, that frame is pending or taken. *)
FlippedLine ==
  flips = 1 /\ lost = 0 /\ Len(sent) = 1 /\ ~LineEndInvolved =>
    /\ flip.at \in 1..Len(Frame(1)) /\ flip.from = Frame(1)[flip.at]
    /\ \E bit \in Bits : flip.to = FlipBit(flip.from, bit)
    /\ \/ taken = <<>> /\ line # <<>> /\ Pending = Ended(Damaged(Frame(1)))
       \/ Pending = <<>> /\ taken = <<Verdict(Damaged(Frame(1)))>>

(* The line does no harm before the client sends. *)
Untouched == sent = <<>> => line = <<>> /\ flips = 0 /\ lost = 0

LineInv == Untouched /\ CleanLine /\ RunTogetherLine /\ FlippedLine /\ RunTogetherSeen

FramingInv == FramingTypeOK /\ LineInv

-----------------------------------------------------------------------------
(* Types.                                                                  *)

(* A byte with a flipped bit is a byte. *)
LEMMA FlippedByte ==
  ASSUME NEW c \in Byte, NEW bit \in Bits
  PROVE  FlipBit(c, bit) \in Byte
<1>1. bit = 0 \/ bit = 1 \/ bit = 2 \/ bit = 4 \/ bit = 8 \/ bit = 16 \/ bit = 32 \/ bit = 64
  BY DEF Bits
<1>2. CASE bit = 0 BY <1>2 DEF FlipBit, Byte
<1>3. CASE bit = 1 BY <1>3 DEF FlipBit, Byte
<1>4. CASE bit = 2 BY <1>4 DEF FlipBit, Byte
<1>5. CASE bit = 4 BY <1>5 DEF FlipBit, Byte
<1>6. CASE bit = 8 BY <1>6 DEF FlipBit, Byte
<1>7. CASE bit = 16 BY <1>7 DEF FlipBit, Byte
<1>8. CASE bit = 32 BY <1>8 DEF FlipBit, Byte
<1>9. CASE bit = 64 BY <1>9 DEF FlipBit, Byte
<1> QED BY <1>1, <1>2, <1>3, <1>4, <1>5, <1>6, <1>7, <1>8, <1>9

Outcomes == [kind : {"nak", "command"}, bytes : Seq(Byte)]

(* What the type invariant says of lengths and of what is pending. *)
LEMMA TypeFacts ==
  ASSUME FramingTypeOK
  PROVE  /\ sent \in Seq(Payloads) /\ Len(sent) \in Nat
         /\ line \in Seq(Byte) /\ Len(line) \in Nat /\ buf \in Seq(Byte) /\ Len(buf) \in Nat
         /\ taken \in Seq(Outcomes)
         /\ flips \in Nat /\ lost \in Nat
         /\ Pending \in Seq(Byte) /\ Len(Pending) = Len(buf) + Len(line)
         /\ MaxHarm \in Nat /\ BufSize \in Nat
<1>1. sent \in Seq(Payloads) /\ line \in Seq(Byte) /\ buf \in Seq(Byte) /\ taken \in Seq(Outcomes)
  BY DEF FramingTypeOK, Byte, Outcomes
<1> QED
  BY <1>1, LenProperties, ConcatProperties, FramingAssumption DEF FramingTypeOK, Pending

(* A frame is answered with a NAK or taken for a command. *)
LEMMA VerdictType == ASSUME NEW w \in Seq(Byte) PROVE Verdict(w) \in Outcomes
<1>1. Len(w) > 1 => Front(w) \in Seq(Byte)
  BY DEF Front
<1> QED BY <1>1 DEF Verdict, Outcomes, NakSent, Accepted

(* The invariant holds at first. *)
LEMMA FramingInitInv == FramingInit => FramingInv
<1> SUFFICES ASSUME FramingInit PROVE FramingInv
  OBVIOUS
<1>1. FramingTypeOK
  BY FramingAssumption DEF FramingInit, FramingTypeOK, NoFlip
<1>2. Pending = <<>> /\ taken = [i \in 1..Len(sent) |-> Accepted(sent[i])]
  BY DEF FramingInit, Pending
<1> QED
  BY <1>1, <1>2 DEF FramingInit, FramingInv, LineInv, Untouched, CleanLine, RunTogetherLine,
                    FlippedLine, RunTogetherSeen

(* Each step keeps the types, and receive() stops at a line end. *)
LEMMA FramingTypeStep == FramingTypeOK /\ [FramingNext]_framingVars => FramingTypeOK'
<1> SUFFICES ASSUME FramingTypeOK, [FramingNext]_framingVars PROVE FramingTypeOK'
  OBVIOUS
<1> USE TypeFacts
<1>1. CASE SendFrame
  <2>1. PICK p \in Payloads : sent' = Append(sent, p) /\ line' = Append(Framed(p), LineEnd)
    BY <1>1 DEF SendFrame
  <2>2. sent' \in Seq(Payloads)
    BY <2>1
  <2>3. line' \in Seq(Byte)
    <3>1. LineEnd \in Byte
      BY DEF LineEnd, Byte
    <3> QED BY <2>1, <3>1, FrameType, AppendProperties
  <2> QED BY <1>1, <2>2, <2>3 DEF SendFrame, FramingTypeOK, Byte
<1>2. CASE Flip
  <2>1. PICK i \in 1..Len(line), bit \in Bits :
          /\ line' = SubSeq(line, 1, i - 1) \o Marked(FlipBit(line[i], bit))
                       \o SubSeq(line, i + 1, Len(line))
          /\ flip' = [at |-> i, from |-> line[i], to |-> FlipBit(line[i], bit)]
    BY <1>2 DEF Flip
  <2>2. line[i] \in Byte
    BY ElementOfSeq
  <2>3. FlipBit(line[i], bit) \in Byte
    BY <2>2, FlippedByte
  <2>4. Marked(FlipBit(line[i], bit)) \in Seq(Byte)
    BY <2>3 DEF Marked, Byte
  <2>5. SubSeq(line, 1, i - 1) \in Seq(Byte) /\ SubSeq(line, i + 1, Len(line)) \in Seq(Byte)
    OBVIOUS
  <2>6. line' \in Seq(Byte)
    <3> HIDE DEF Marked
    <3> QED BY <2>1, <2>4, <2>5, ConcatProperties
  <2>7. flip' \in [at : Nat, from : Byte, to : Byte]
    BY <2>1, <2>2, <2>3
  <2>8. flips' + lost' <= MaxHarm /\ flips' \in Nat /\ UNCHANGED <<sent, buf, taken, lost>>
    BY <1>2 DEF Flip
  <2> QED BY <2>6, <2>7, <2>8 DEF FramingTypeOK, Byte
<1>3. CASE SwallowLineEnd
  <2>1. line' \in Seq(Byte)
    BY <1>3 DEF SwallowLineEnd, Front
  <2>2. flips' + lost' <= MaxHarm /\ lost' \in Nat /\ UNCHANGED <<sent, buf, taken, flip, flips>>
    BY <1>3 DEF SwallowLineEnd
  <2> QED BY <2>1, <2>2 DEF FramingTypeOK, Byte
<1>4. CASE Read
  <2> DEFINE read(k) == buf \o SubSeq(line, 1, k)
  <2>1. PICK k \in 1..Len(line) :
          /\ Len(read(k)) <= BufSize
          /\ line' = SubSeq(line, k + 1, Len(line))
          /\ IF Last(read(k)) = LineEnd \/ Len(read(k)) = BufSize
               THEN buf' = <<>> /\ taken' = Append(taken, Verdict(Front(read(k))))
               ELSE buf' = read(k) /\ taken' = taken
    BY <1>4 DEF Read
  <2>2. line' \in Seq(Byte)
    BY <2>1
  <2>3. read(k) \in Seq(Byte) /\ Len(read(k)) \in Nat /\ Front(read(k)) \in Seq(Byte)
    <3>1. SubSeq(line, 1, k) \in Seq(Byte)
      OBVIOUS
    <3>2. read(k) \in Seq(Byte) /\ Len(read(k)) \in Nat
      BY <3>1, ConcatProperties, LenProperties
    <3> HIDE DEF read
    <3> QED BY <3>2 DEF Front
  <2> HIDE DEF read
  <2>4. /\ buf' \in Seq(Byte) /\ taken' \in Seq(Outcomes)
        /\ buf' # <<>> => Len(buf') < BufSize /\ Last(buf') # LineEnd
    <3>1. CASE Last(read(k)) = LineEnd \/ Len(read(k)) = BufSize
      <4>1. Verdict(Front(read(k))) \in Outcomes
        BY <2>3, VerdictType
      <4>2. taken \in Seq(Outcomes)
        OBVIOUS
      <4>3. Append(taken, Verdict(Front(read(k)))) \in Seq(Outcomes)
        <5> HIDE DEF Outcomes, Verdict
        <5> QED BY <4>1, <4>2, AppendProperties
      <4>4. <<>> \in Seq(Byte)
        OBVIOUS
      <4>5. buf' = <<>> /\ taken' = Append(taken, Verdict(Front(read(k))))
        BY <2>1, <3>1
      <4> HIDE DEF Outcomes, Verdict
      <4> QED BY <4>3, <4>4, <4>5
    <3>2. CASE ~(Last(read(k)) = LineEnd \/ Len(read(k)) = BufSize)
      BY <2>1, <2>3, <3>2
    <3> QED BY <3>1, <3>2
  <2>5. UNCHANGED <<sent, flip, flips, lost>>
    BY <1>4 DEF Read
  <2> QED BY <2>2, <2>4, <2>5 DEF FramingTypeOK, Byte, Outcomes
<1>5. CASE UNCHANGED framingVars
  BY <1>5 DEF framingVars, FramingTypeOK
<1> QED BY <1>1, <1>2, <1>3, <1>4, <1>5 DEF FramingNext

-----------------------------------------------------------------------------
(* What is pending, action by action.                                      *)

(* Bytes without a line end that receive()'s buffer can hold. *)
Bare(w) == w \in Seq(Byte) /\ Len(w) < BufSize /\ \A i \in 1..Len(w) : w[i] # LineEnd

(* The hypotheses of ReadStep. *)
Readable(w) ==
  /\ w \in Seq(Byte) /\ Len(w) <= BufSize /\ (Len(w) = BufSize => Last(w) = LineEnd)
  /\ \A i \in 1..(Len(w) - 1) : w[i] # LineEnd

(* Bytes without a line end are never a whole frame; with one they are. *)
LEMMA BareIsReadable ==
  ASSUME NEW w, Bare(w), BufSize \in Nat
  PROVE  /\ Readable(w) /\ (w # <<>> => Last(w) # LineEnd)
         /\ Readable(Ended(w)) /\ Last(Ended(w)) = LineEnd /\ Front(Ended(w)) = w
         /\ Ended(w) # <<>>
<1>1. w \in Seq(Byte) /\ Len(w) \in Nat /\ Len(w) < BufSize /\ \A i \in 1..Len(w) : w[i] # LineEnd
  BY LenProperties DEF Bare
<1>2. w # <<>> => Len(w) \in 1..Len(w)
  BY <1>1, EmptySeq
<1>3. Readable(w) /\ (w # <<>> => Last(w) # LineEnd)
  BY <1>1, <1>2 DEF Readable, Last
<1>4. LineEnd \in Byte
  BY DEF LineEnd, Byte
<1> HIDE DEF LineEnd
<1>5. /\ Ended(w) \in Seq(Byte) /\ Len(Ended(w)) = Len(w) + 1
      /\ \A i \in 1..Len(w) : Ended(w)[i] = w[i]
      /\ Ended(w)[Len(w) + 1] = LineEnd
  BY <1>1, <1>4, AppendProperties DEF Ended
<1>6. Front(Ended(w)) = w
  BY <1>1, <1>4 DEF Ended, Front
<1>7. Last(Ended(w)) = LineEnd
  BY <1>5 DEF Last
<1>8. Readable(Ended(w)) /\ Ended(w) # <<>>
  BY <1>1, <1>5, <1>7 DEF Readable
<1> QED BY <1>3, <1>6, <1>7, <1>8

(* A frame is such bytes, *)
LEMMA FrameIsBare ==
  ASSUME NEW p \in Payloads
  PROVE  Bare(Framed(p)) /\ Framed(p) # <<>>
<1>1. Len(p) \in Nat \ {0} /\ Len(p) + Len(p) + 3 <= BufSize /\ BufSize \in Nat
  BY FramingAssumption, PayloadType
<1>2. Len(Framed(p)) \in 1..(Len(p) + 1)
  BY <1>1, FrameType
<1>3. Framed(p) # <<>>
  BY <1>1, <1>2
<1> QED BY <1>1, <1>2, <1>3, FrameType DEF Bare

(* and two that have run together are. *)
LEMMA TwoAreBare ==
  ASSUME NEW p \in Payloads, NEW q \in Payloads
  PROVE  Bare(Framed(p) \o Framed(q)) /\ Framed(p) \o Framed(q) # <<>>
<1>1. /\ Len(p) \in Nat /\ Len(q) \in Nat \ {0} /\ Len(p) + Len(q) + 3 <= BufSize
      /\ BufSize \in Nat
  BY FramingAssumption, PayloadType
<1> DEFINE f == Framed(p)
           g == Framed(q)
<1>2. Len(f) <= Len(p) + 1 /\ Len(g) <= Len(q) + 1 /\ Len(f) \in Nat /\ Len(g) \in Nat
  BY <1>1, FrameType, LenProperties
<1>3. f \in Seq(Byte) /\ g \in Seq(Byte) /\ g # <<>>
  BY FrameType, FrameIsBare
<1>4. (\A i \in 1..Len(f) : f[i] # LineEnd) /\ (\A i \in 1..Len(g) : g[i] # LineEnd)
  BY FrameType
<1> HIDE DEF f, g, LineEnd
<1>5. /\ f \o g \in Seq(Byte) /\ Len(f \o g) = Len(f) + Len(g)
      /\ \A i \in 1..(Len(f) + Len(g)) :
           (f \o g)[i] = IF i <= Len(f) THEN f[i] ELSE g[i - Len(f)]
  BY <1>3, ConcatProperties
<1>6. \A i \in 1..Len(f \o g) : (f \o g)[i] # LineEnd
  BY <1>2, <1>4, <1>5
<1>7. f \o g # <<>>
  BY <1>3, ConcatEqualIffEmpty
<1> QED BY <1>1, <1>2, <1>5, <1>6, <1>7 DEF Bare, f, g

(* Of two frames that have run together the loop makes no command, unless  *)
(* one is an 'N': the first adds an odd number to the sum.                 *)
LEMMA TwoAreRefused ==
  ASSUME NEW p \in Payloads, NEW q \in Payloads, p # <<Nak>>, q # <<Nak>>
  PROVE  Verdict(Framed(p) \o Framed(q)) = NakSent
<1> DEFINE f == Framed(p)
           g == Framed(q)
<1>1. p \in Seq(Byte) /\ q \in Seq(Byte) /\ f \in Seq(Byte) /\ g \in Seq(Byte)
  BY FrameType, PayloadType
<1>2. Len(f) \in Nat \ {0} /\ Len(g) \in Nat \ {0}
  BY FrameType, FrameIsBare, EmptySeq, LenProperties
<1>3. NibbleSum(f) % 2 = 1 /\ NibbleSum(f) \in 0..15
  <2>1. CASE Plain(p)
    <3>1. Len(p) = 1 /\ p[1] = Quit
      <4>1. Len(p) = 1 /\ p[1] \in {Nak, Quit}
        BY <2>1 DEF Plain
      <4>2. p = <<p[1]>>
        BY <1>1, <4>1
      <4> QED BY <4>1, <4>2
    <3>2. f = <<Quit>>
      BY <1>1, <2>1, <3>1, FrameType
    <3>3. Quit \in Byte /\ Quit % 16 = 1
      BY DEF Quit, Byte
    <3> HIDE DEF Quit, f
    <3>4. NibbleSum(f) = 1
      BY <3>2, <3>3, SumOfOne
    <3> QED BY <3>4
  <2>2. CASE ~Plain(p)
    <3>1. f = p \o <<Checksum(p)>>
      BY <1>1, <2>2 DEF Framed, Plain
    <3>2. Checksum(p) = 65 + NibbleSum(p) /\ NibbleSum(p) \in 0..15
      BY <1>1, NibbleSumType DEF Checksum
    <3> HIDE DEF f
    <3>3. Checksum(p) \in Byte
      BY <3>2 DEF Byte
    <3>4. NibbleSum(<<Checksum(p)>>) = Checksum(p) % 16 /\ <<Checksum(p)>> \in Seq(Byte)
      BY <3>3, SumOfOne
    <3>5. NibbleSum(f) = (NibbleSum(p) + (Checksum(p) % 16)) % 16
      BY <1>1, <3>1, <3>4, SumOfBoth
    <3> QED BY <3>2, <3>5
  <2> QED BY <2>1, <2>2
<1>4. f \o g \in Seq(Byte) /\ Len(f \o g) = Len(f) + Len(g) /\ Len(f \o g) > 1
  <2> HIDE DEF f, g
  <2> QED BY <1>1, <1>2, ConcatProperties
<1>5. Last(f \o g) = Last(g)
  <2> HIDE DEF f, g
  <2> QED BY <1>1, <1>2, <1>4, ConcatProperties DEF Last
<1>6. Front(f \o g) = f \o Front(g)
  <2> HIDE DEF f, g
  <2> QED BY <1>1, <1>2, <1>4, ConcatProperties DEF Front
<1>7. Checksum(Front(f \o g)) # Last(f \o g)
  <2>1. CASE Plain(q)
    <3>1. Last(g) = Quit
      <4>1. g = q /\ Len(q) = 1 /\ q[1] \in {Nak, Quit}
        BY <2>1, FrameType DEF Plain
      <4>2. q = <<q[1]>>
        BY <1>1, <4>1
      <4> QED BY <4>1, <4>2 DEF Last
    <3>2. Front(g) \in Seq(Byte)
      BY <1>1, <1>2 DEF Front
    <3>3. Checksum(f \o Front(g)) \in 65..80
      <4> HIDE DEF f, g
      <4>1. f \o Front(g) \in Seq(Byte)
        BY <1>1, <3>2, ConcatProperties
      <4> QED BY <4>1, ChecksumRange
    <3> HIDE DEF f, g
    <3> QED BY <1>5, <1>6, <3>1, <3>3 DEF Quit
  <2>2. CASE ~Plain(q)
    <3>1. Front(g) = q /\ Last(g) = Checksum(q)
      BY <2>2, FrameType
    <3>2. NibbleSum(f \o q) = (NibbleSum(f) + NibbleSum(q)) % 16 /\ NibbleSum(q) \in 0..15
      <4> HIDE DEF f
      <4> QED BY <1>1, SumOfBoth, NibbleSumType
    <3>3. NibbleSum(f \o q) # NibbleSum(q)
      <4> HIDE DEF f
      <4> QED BY <1>3, <3>2
    <3> HIDE DEF f, g
    <3>4. Checksum(f \o q) # Checksum(q)
      <4>1. NibbleSum(f \o q) \in 0..15
        BY <1>3, <3>2
      <4> QED BY <3>2, <3>3, <4>1 DEF Checksum
    <3> QED BY <1>5, <1>6, <3>1, <3>4
  <2> QED BY <2>1, <2>2
<1> HIDE DEF f, g
<1>8. Verdict(f \o g) = NakSent
  BY <1>4, <1>7 DEF Verdict
<1> QED BY <1>8 DEF f, g

(* Length and bytes of two sequences put together. *)
LEMMA PutTogether ==
  \A x, y \in Seq(Byte) :
    /\ x \o y \in Seq(Byte) /\ Len(x \o y) = Len(x) + Len(y)
    /\ Len(x) \in Nat /\ Len(y) \in Nat
    /\ \A i \in 1..Len(x) : (x \o y)[i] = x[i]
    /\ \A i \in 1..Len(y) : (x \o y)[Len(x) + i] = y[i]
<1> SUFFICES ASSUME NEW x \in Seq(Byte), NEW y \in Seq(Byte)
             PROVE  /\ x \o y \in Seq(Byte) /\ Len(x \o y) = Len(x) + Len(y)
                    /\ Len(x) \in Nat /\ Len(y) \in Nat
                    /\ \A i \in 1..Len(x) : (x \o y)[i] = x[i]
                    /\ \A i \in 1..Len(y) : (x \o y)[Len(x) + i] = y[i]
  OBVIOUS
<1> QED BY ConcatProperties, LenProperties

NoEnd(w) == \A i \in 1..Len(w) : w[i] # LineEnd

(* No line end comes of putting them together. *)
LEMMA JoinedNoEnd == \A x, y \in Seq(Byte) : NoEnd(x) /\ NoEnd(y) => NoEnd(x \o y)
<1> SUFFICES ASSUME NEW x \in Seq(Byte), NEW y \in Seq(Byte), NoEnd(x), NoEnd(y),
                    NEW i \in 1..Len(x \o y)
             PROVE  (x \o y)[i] # LineEnd
  BY DEF NoEnd
<1>1. Len(x) \in Nat /\ Len(y) \in Nat /\ Len(x \o y) = Len(x) + Len(y)
  BY PutTogether
<1>2. CASE i \in 1..Len(x)
  BY <1>2, PutTogether DEF NoEnd
<1>3. CASE i \notin 1..Len(x)
  <2>1. i - Len(x) \in 1..Len(y) /\ Len(x) + (i - Len(x)) = i
    BY <1>1, <1>3
  <2>2. (x \o y)[Len(x) + (i - Len(x))] = y[i - Len(x)]
    BY <2>1, PutTogether
  <2> QED BY <2>1, <2>2 DEF NoEnd
<1> QED BY <1>2, <1>3

(* A sequence is its bytes before one, that one, and those after it. *)
LEMMA AroundIt ==
  ASSUME NEW F \in Seq(Byte), NEW i \in 1..Len(F)
  PROVE  LET A == SubSeq(F, 1, i - 1)
             B == SubSeq(F, i + 1, Len(F))
         IN /\ A \in Seq(Byte) /\ Len(A) = i - 1 /\ B \in Seq(Byte) /\ Len(B) = Len(F) - i
            /\ F = (A \o <<F[i]>>) \o B
            /\ NoEnd(F) => NoEnd(A) /\ NoEnd(B)
<1> DEFINE A == SubSeq(F, 1, i - 1)
           B == SubSeq(F, i + 1, Len(F))
           c == <<F[i]>>
<1>1. Len(F) \in Nat /\ i \in Nat \ {0} /\ i <= Len(F)
  BY LenProperties
<1>2. A \in Seq(Byte) /\ Len(A) = i - 1 /\ B \in Seq(Byte) /\ Len(B) = Len(F) - i
  BY <1>1
<1>3. c \in Seq(Byte)
  BY ElementOfSeq
<1>4. A \o SubSeq(F, (i - 1) + 1, Len(F)) = SubSeq(F, 1, Len(F))
  <2>1. /\ 1 \in 1..(Len(F) + 1) /\ i - 1 \in (1 - 1)..Len(F) /\ Len(F) \in (i - 1)..Len(F)
    BY <1>1
  <2> HIDE DEF A
  <2>2. SubSeq(F, 1, i - 1) \o SubSeq(F, (i - 1) + 1, Len(F)) = SubSeq(F, 1, Len(F))
    BY <2>1, ConcatAdjacentSubSeq
  <2> QED BY <2>2 DEF A
<1>5. SubSeq(F, i, Len(F)) = c \o B
  BY <1>1, SubSeqRecursiveFirst
<1>6. SubSeq(F, 1, Len(F)) = F /\ (i - 1) + 1 = i
  BY <1>1, SubSeqFull
<1>7. F = A \o (c \o B)
  <2> HIDE DEF A, B
  <2> QED BY <1>4, <1>5, <1>6
<1>8. F = (A \o c) \o B
  <2> HIDE DEF A, B
  <2> QED BY <1>2, <1>3, <1>7, Associative
<1>9. ASSUME NoEnd(F) PROVE NoEnd(A) /\ NoEnd(B)
  <2>1. (\A j \in 1..Len(A) : A[j] = F[j]) /\ \A j \in 1..Len(B) : B[j] = F[i + j]
    BY <1>1, <1>2
  <2>2. /\ \A j \in 1..Len(A) : j \in 1..Len(F)
        /\ \A j \in 1..Len(B) : i + j \in 1..Len(F)
    <3> HIDE DEF A, B
    <3> QED BY <1>1, <1>2
  <2> HIDE DEF A, B
  <2> QED BY <1>9, <2>1, <2>2 DEF NoEnd
<1> HIDE DEF A, B
<1>10. /\ A \in Seq(Byte) /\ Len(A) = i - 1 /\ B \in Seq(Byte) /\ Len(B) = Len(F) - i
       /\ F = (A \o c) \o B
       /\ NoEnd(F) => NoEnd(A) /\ NoEnd(B)
  BY <1>2, <1>8, <1>9
<1> QED BY <1>10 DEF A, B, c

(* The three bytes the tty makes of a byte with a parity error. *)
LEMMA MarkedType ==
  \A c \in Byte : /\ Marked(c) \in Seq(Byte) /\ Len(Marked(c)) = 3
                  /\ Marked(c) = <<255, 0>> \o <<c>>
                  /\ c # LineEnd => NoEnd(Marked(c))
<1> SUFFICES ASSUME NEW c \in Byte
             PROVE  /\ Marked(c) \in Seq(Byte) /\ Len(Marked(c)) = 3
                    /\ Marked(c) = <<255, 0>> \o <<c>>
                    /\ c # LineEnd => NoEnd(Marked(c))
  OBVIOUS
<1>1. Marked(c) \in Seq(Byte) /\ Len(Marked(c)) = 3
  BY DEF Marked, Byte
<1>2. Marked(c) = <<255, 0>> \o <<c>>
  BY DEF Marked
<1>3. c # LineEnd => NoEnd(Marked(c))
  BY DEF Marked, NoEnd, LineEnd
<1> QED BY <1>1, <1>2, <1>3

(* A frame with a flipped bit is as long and the marker longer, and has no *)
(* line end in it when the flipped byte is none.                           *)
LEMMA DamagedIsBare ==
  ASSUME NEW p \in Payloads, NEW i \in 1..Len(Framed(p)), NEW d \in Byte, d # LineEnd
  PROVE  Bare(DamagedAt(Framed(p), i, d)) /\ DamagedAt(Framed(p), i, d) # <<>>
<1> DEFINE F == Framed(p)
           A == SubSeq(F, 1, i - 1)
           B == SubSeq(F, i + 1, Len(F))
           m == Marked(d)
<1>1. F \in Seq(Byte) /\ NoEnd(F) /\ Len(F) \in Nat
  BY FrameType, LenProperties DEF NoEnd
<1>2. m \in Seq(Byte) /\ Len(m) = 3 /\ NoEnd(m) /\ i \in 1..Len(F)
  BY MarkedType
<1>3. /\ A \in Seq(Byte) /\ Len(A) = i - 1 /\ B \in Seq(Byte) /\ Len(B) = Len(F) - i
      /\ NoEnd(A) /\ NoEnd(B)
  <2> HIDE DEF F
  <2> QED BY <1>1, <1>2, AroundIt
<1>4. DamagedAt(F, i, d) = (A \o m) \o B
  BY DEF DamagedAt
<1>5. Len(p) \in Nat \ {0} /\ Len(p) + Len(p) + 3 <= BufSize /\ BufSize \in Nat
  BY FramingAssumption, PayloadType
<1>6. Len(F) \in 1..(Len(p) + 1)
  BY <1>5, FrameType
<1> HIDE DEF F, A, B, m
<1>7. A \o m \in Seq(Byte) /\ Len(A \o m) = Len(A) + 3 /\ NoEnd(A \o m)
  <2>1. A \o m \in Seq(Byte) /\ Len(A \o m) = Len(A) + Len(m)
    BY <1>2, <1>3, PutTogether, Zenon
  <2>2. NoEnd(A \o m)
    BY <1>2, <1>3, JoinedNoEnd, Zenon
  <2> QED BY <1>2, <2>1, <2>2
<1> DEFINE h == DamagedAt(F, i, d)
<1> HIDE DEF h
<1>8. h \in Seq(Byte) /\ Len(h) = Len(A \o m) + Len(B) /\ NoEnd(h)
  <2>1. (A \o m) \o B \in Seq(Byte) /\ Len((A \o m) \o B) = Len(A \o m) + Len(B)
    BY <1>3, <1>7, PutTogether, Zenon
  <2>2. NoEnd((A \o m) \o B)
    BY <1>3, <1>7, JoinedNoEnd, Zenon
  <2> QED BY <1>4, <2>1, <2>2, Zenon DEF h
<1>9. Len(h) = Len(F) + 2 /\ i \in Nat
  <2>1. Len(h) = ((i - 1) + 3) + (Len(F) - i)
    BY <1>3, <1>7, <1>8, Zenon
  <2>2. i \in Nat /\ Len(F) \in Nat
    BY <1>1, <1>2
  <2>3. \A x, y \in Nat : ((x - 1) + 3) + (y - x) = y + 2
    OBVIOUS
  <2> QED BY <2>1, <2>2, <2>3, Zenon
<1>10. h # <<>> /\ Len(h) < BufSize
  BY <1>5, <1>6, <1>9
<1> QED BY <1>8, <1>10 DEF Bare, NoEnd, F, h

(* What one flip can do to the sum, and to a letter. *)
LEMMA FlipWeights ==
  ASSUME NEW c \in Byte, NEW bit \in Bits
  PROVE  /\ (FlipBit(c, bit) % 16 = (c + 1) % 16) <=> (FlipBit(c, bit) = c + 1 /\ c % 2 = 0)
         /\ c \in 65..80 =>
              ((FlipBit(c, bit) = 65 + (((c - 65) + 15) % 16))
                 <=> (FlipBit(c, bit) = c - 1 /\ c % 2 = 1 /\ c # 65))
<1>1. bit = 0 \/ bit = 1 \/ bit = 2 \/ bit = 4 \/ bit = 8 \/ bit = 16 \/ bit = 32 \/ bit = 64
  BY DEF Bits
<1>2. CASE bit = 0 BY <1>2 DEF FlipBit, Byte
<1>3. CASE bit = 1 BY <1>3 DEF FlipBit, Byte
<1>4. CASE bit = 2 BY <1>4 DEF FlipBit, Byte
<1>5. CASE bit = 4 BY <1>5 DEF FlipBit, Byte
<1>6. CASE bit = 8 BY <1>6 DEF FlipBit, Byte
<1>7. CASE bit = 16 BY <1>7 DEF FlipBit, Byte
<1>8. CASE bit = 32 BY <1>8 DEF FlipBit, Byte
<1>9. CASE bit = 64 BY <1>9 DEF FlipBit, Byte
<1> QED BY <1>1, <1>2, <1>3, <1>4, <1>5, <1>6, <1>7, <1>8, <1>9

(* Low nibbles of successive bytes. *)
LEMMA ByteMod == \A c \in Byte : c % 16 \in 0..15 /\ (c + 1) % 16 = ((c % 16) + 1) % 16
BY DEF Byte

(* The checksum is asked of a frame of more than one byte. *)
LEMMA VerdictOf ==
  ASSUME NEW w \in Seq(Byte), NEW c \in Byte, w # <<>>
  PROVE  (Verdict(w \o <<c>>) = NakSent) <=> (Checksum(w) # c)
<1> DEFINE x == w \o <<c>>
<1>1. Len(w) \in Nat \ {0}
  BY EmptySeq, LenProperties
<1>2. Len(x) > 1 /\ Front(x) = w /\ Last(x) = c
  <2>1. Len(x) = Len(w) + 1
    BY <1>1
  <2>2. Front(x) = w
    BY <1>1, <2>1 DEF Front
  <2>3. Last(x) = c
    BY <1>1, <2>1 DEF Last
  <2> QED BY <1>1, <2>1, <2>2, <2>3
<1>3. Accepted(Front(x)) # NakSent
  BY DEF Accepted, NakSent
<1> HIDE DEF x, Checksum
<1>4. (Verdict(x) = NakSent) <=> (Checksum(w) # c)
  BY <1>2, <1>3 DEF Verdict
<1> QED BY <1>4 DEF x

(* The marker adds 15 to a sum. *)
LEMMA MarkSum == <<255, 0>> \in Seq(Byte) /\ NibbleSum(<<255, 0>>) = 15
<1>1. 255 \in Byte /\ 0 \in Byte /\ 255 % 16 = 15 /\ 0 % 16 = 0
  BY DEF Byte
<1>2. /\ <<255>> \in Seq(Byte) /\ NibbleSum(<<255>>) = 15
      /\ <<0>> \in Seq(Byte) /\ NibbleSum(<<0>>) = 0
  BY <1>1, SumOfOne
<1> DEFINE a == <<255>>
           b == <<0>>
<1>3. NibbleSum(a \o b) = 15
  <2> HIDE DEF a, b
  <2>1. NibbleSum(a \o b) = (NibbleSum(a) + NibbleSum(b)) % 16
    BY <1>2, SumOfBoth DEF a, b
  <2>2. NibbleSum(a) = 15 /\ NibbleSum(b) = 0
    BY <1>2 DEF a, b
  <2> QED BY <2>1, <2>2
<1>4. <<255, 0>> \in Seq(Byte)
  BY <1>1
<1>5. a \o b = <<255, 0>>
  <2> DEFINE m == <<255, 0>>
             both == a \o b
  <2>1. Len(both) = 2 /\ both[1] = 255 /\ both[2] = 0 /\ both \in Seq(Byte)
    BY <1>2
  <2>2. Len(m) = 2 /\ m[1] = 255 /\ m[2] = 0 /\ m \in Seq(Byte)
    BY <1>4
  <2> HIDE DEF both, m
  <2>3. \A i \in 1..Len(both) : i = 1 \/ i = 2
    BY <2>1
  <2>4. both = m
    BY <2>1, <2>2, <2>3, SeqEqual
  <2> QED BY <2>4 DEF both, m
<1> QED BY <1>3, <1>4, <1>5

(* Damage in a sequence with a byte behind it leaves that byte. *)
LEMMA AppendSplit ==
  ASSUME NEW p \in Seq(Byte), NEW k \in Byte, NEW i \in 1..Len(p), NEW d \in Byte
  PROVE  DamagedAt(Append(p, k), i, d) = DamagedAt(p, i, d) \o <<k>>
<1> DEFINE F == Append(p, k)
           A == SubSeq(p, 1, i - 1)
           B == SubSeq(p, i + 1, Len(p))
           x == SubSeq(F, i + 1, Len(F))
           kk == <<k>>
           y == B \o kk
<1>1. /\ F \in Seq(Byte) /\ Len(F) = Len(p) + 1 /\ F[Len(p) + 1] = k
      /\ \A j \in 1..Len(p) : F[j] = p[j]
  BY AppendProperties
<1>2. Len(p) \in Nat
  BY LenProperties
<1>3. SubSeq(F, 1, i - 1) = A
  OBVIOUS
<1> HIDE DEF F
<1>4. x \in Seq(Byte) /\ Len(x) = Len(F) - i /\ \A j \in 1..(Len(F) - i) : x[j] = F[i + j]
  BY <1>1, <1>2
<1>5. B \in Seq(Byte) /\ Len(B) = Len(p) - i /\ \A j \in 1..(Len(p) - i) : B[j] = p[i + j]
  BY <1>2
<1>6. A \in Seq(Byte)
  BY <1>2
<1>7. kk \in Seq(Byte) /\ Len(kk) = 1 /\ kk[1] = k
  OBVIOUS
<1> HIDE DEF A, B, kk, x
<1>8. /\ y \in Seq(Byte) /\ Len(y) = Len(B) + 1
      /\ \A j \in 1..Len(B) : y[j] = B[j]
      /\ y[Len(B) + 1] = k
  <2>1. /\ y \in Seq(Byte) /\ Len(y) = Len(B) + Len(kk) /\ Len(B) \in Nat
        /\ \A j \in 1..Len(B) : y[j] = B[j]
        /\ \A j \in 1..Len(kk) : y[Len(B) + j] = kk[j]
    BY <1>5, <1>7, PutTogether, Zenon
  <2> HIDE DEF y
  <2> QED BY <1>7, <2>1
<1> HIDE DEF y
<1>9. Len(x) = Len(y)
  BY <1>1, <1>2, <1>4, <1>5, <1>8
<1>10. ASSUME NEW j \in 1..Len(x) PROVE x[j] = y[j]
  <2>1. CASE j = Len(B) + 1
    <3>1. i + j = Len(p) + 1 /\ j \in 1..(Len(F) - i)
      BY <1>1, <1>2, <1>4, <1>5, <2>1
    <3> QED BY <1>1, <1>4, <1>8, <2>1, <3>1
  <2>2. CASE j # Len(B) + 1
    <3>0. j \in Nat /\ j >= 1 /\ j <= Len(p) - i /\ i \in Nat
      <4>1. j \in 1..((Len(p) + 1) - i) /\ j # (Len(p) - i) + 1
        BY <1>1, <1>4, <1>5, <2>2, Zenon
      <4> QED BY <1>2, <4>1
    <3>1. /\ j \in 1..(Len(F) - i) /\ j \in 1..(Len(p) - i)
          /\ i + j \in 1..Len(p) /\ j \in 1..Len(B)
      <4>1. j \in 1..((Len(p) + 1) - i) /\ j \in 1..(Len(p) - i) /\ i + j \in 1..Len(p)
        BY <1>2, <3>0
      <4> QED BY <1>1, <1>5, <4>1, Zenon
    <3> QED BY <1>1, <1>4, <1>5, <1>8, <3>1
  <2> QED BY <2>1, <2>2
<1>11. x = y
  BY <1>4, <1>8, <1>9, <1>10, SeqEqual
<1>12. DamagedAt(F, i, d) = (A \o Marked(d)) \o (B \o kk)
  BY <1>3, <1>11, Zenon DEF DamagedAt, A, x, y
<1>13. DamagedAt(p, i, d) = (A \o Marked(d)) \o B
  BY Zenon DEF DamagedAt, A, B
<1>14. A \o Marked(d) \in Seq(Byte)
  BY <1>6, MarkedType, PutTogether, Zenon
<1>15. ((A \o Marked(d)) \o B) \o kk = (A \o Marked(d)) \o (B \o kk)
  BY <1>5, <1>7, <1>14, Associative, Zenon
<1> QED BY <1>12, <1>13, <1>15, Zenon DEF F, kk

(* A flip in the payload. *)
LEMMA PayloadFlipSeen ==
  ASSUME NEW p \in Payloads, ~Plain(p), NEW i \in 1..Len(p), NEW d \in Byte
  PROVE  (Verdict(DamagedAt(Framed(p), i, d)) = NakSent) <=> (d % 16 # (p[i] + 1) % 16)
<1> DEFINE F == Framed(p)
           A == SubSeq(p, 1, i - 1)
           B == SubSeq(p, i + 1, Len(p))
           w == (A \o Marked(d)) \o B
<1>1. p \in Seq(Byte) /\ Len(p) \in Nat /\ i \in 1..Len(p)
  BY PayloadType
<1>15. PICK k \in Byte : k = Checksum(p)
  <2>1. Checksum(p) \in 65..80
    BY <1>1, ChecksumRange
  <2>2. Checksum(p) \in Byte
    BY <2>1 DEF Byte
  <2> QED BY <2>2
<1>2. k = 65 + NibbleSum(p) /\ NibbleSum(p) \in 0..15
  BY <1>1, <1>15, NibbleSumType DEF Checksum
<1>16. PICK c \in Byte : c = p[i]
  BY <1>1, ElementOfSeq
<1>3. F = Append(p, k)
  BY <1>15 DEF Framed, Plain
<1>5. A \in Seq(Byte) /\ B \in Seq(Byte) /\ Len(A) = i - 1 /\ p = (A \o <<c>>) \o B
  BY <1>1, <1>16, AroundIt
<1>6. Marked(d) \in Seq(Byte) /\ Len(Marked(d)) = 3 /\ Marked(d) = <<255, 0>> \o <<d>>
  BY MarkedType
<1>7. DamagedAt(F, i, d) = w \o <<k>>
  <2>1. DamagedAt(F, i, d) = DamagedAt(p, i, d) \o <<k>>
    BY <1>1, <1>3, AppendSplit
  <2>2. DamagedAt(p, i, d) = w
    BY Zenon DEF DamagedAt
  <2> QED BY <2>1, <2>2, Zenon
<1>8. w \in Seq(Byte) /\ w # <<>>
  <2> HIDE DEF A, B
  <2>1. A \o Marked(d) \in Seq(Byte) /\ Len(A \o Marked(d)) = Len(A) + 3
    <3>1. A \o Marked(d) \in Seq(Byte) /\ Len(A \o Marked(d)) = Len(A) + Len(Marked(d))
      BY <1>5, <1>6, PutTogether, Zenon
    <3> QED BY <1>6, <3>1, Zenon
  <2>2. w \in Seq(Byte) /\ Len(w) = Len(A \o Marked(d)) + Len(B)
    BY <1>5, <2>1, PutTogether, Zenon
  <2>3. Len(A) \in Nat /\ Len(B) \in Nat
    BY <1>5, LenProperties
  <2>4. Len(w) = (Len(A) + 3) + Len(B)
    BY <2>1, <2>2, Zenon
  <2> HIDE DEF w
  <2>5. Len(w) # 0
    BY <2>3, <2>4
  <2> QED BY <2>2, <2>5
<1>9. NibbleSum(w) = (NibbleSum(A) + ((15 + (d % 16)) % 16) + NibbleSum(B)) % 16
  <2> HIDE DEF A, B
  <2>1. <<d>> \in Seq(Byte) /\ NibbleSum(<<d>>) = d % 16
    BY SumOfOne
  <2>2. NibbleSum(Marked(d)) = (15 + (d % 16)) % 16
    BY <1>6, <2>1, MarkSum, SumOfBoth
  <2>3. NibbleSum(A \o Marked(d)) = (NibbleSum(A) + NibbleSum(Marked(d))) % 16
    BY <1>5, <1>6, SumOfBoth
  <2>4. A \o Marked(d) \in Seq(Byte)
    BY <1>5, <1>6, PutTogether, Zenon
  <2>5. NibbleSum(w) = (NibbleSum(A \o Marked(d)) + NibbleSum(B)) % 16
    <3> DEFINE v == A \o Marked(d)
    <3> HIDE DEF v
    <3>1. NibbleSum(v \o B) = (NibbleSum(v) + NibbleSum(B)) % 16
      BY <1>5, <2>4, SumOfBoth DEF v
    <3> QED BY <3>1, Zenon DEF v, w
  <2>6. NibbleSum(A) \in 0..15 /\ NibbleSum(B) \in 0..15 /\ NibbleSum(Marked(d)) \in 0..15
    BY <1>5, <1>6, NibbleSumType
  <2>7. \A x, y, z \in 0..15 : (((x + y) % 16) + z) % 16 = (x + y + z) % 16
    OBVIOUS
  <2>8. NibbleSum(w) = (((NibbleSum(A) + NibbleSum(Marked(d))) % 16) + NibbleSum(B)) % 16
    BY <2>3, <2>5, Zenon
  <2>9. NibbleSum(w) = (NibbleSum(A) + NibbleSum(Marked(d)) + NibbleSum(B)) % 16
    BY <2>6, <2>7, <2>8, Zenon
  <2> QED BY <2>2, <2>9, Zenon
<1>10. NibbleSum(p) = (NibbleSum(A) + (c % 16) + NibbleSum(B)) % 16
  <2> HIDE DEF A, B
  <2>1. <<c>> \in Seq(Byte) /\ NibbleSum(<<c>>) = c % 16
    BY SumOfOne
  <2>2. A \o <<c>> \in Seq(Byte)
    BY <1>5, <2>1, PutTogether, Zenon
  <2>3. NibbleSum(A \o <<c>>) = (NibbleSum(A) + (c % 16)) % 16
    BY <1>5, <2>1, SumOfBoth
  <2>4. NibbleSum(p) = (NibbleSum(A \o <<c>>) + NibbleSum(B)) % 16
    <3> DEFINE v == A \o <<c>>
    <3> HIDE DEF v
    <3>1. NibbleSum(v \o B) = (NibbleSum(v) + NibbleSum(B)) % 16
      BY <1>5, <2>2, SumOfBoth DEF v
    <3> QED BY <1>5, <3>1, Zenon DEF v
  <2>5. NibbleSum(A) \in 0..15 /\ NibbleSum(B) \in 0..15 /\ c % 16 \in 0..15
    BY <1>5, NibbleSumType, ByteMod
  <2>6. \A x, y, z \in 0..15 : (((x + y) % 16) + z) % 16 = (x + y + z) % 16
    OBVIOUS
  <2>7. NibbleSum(p) = (((NibbleSum(A) + (c % 16)) % 16) + NibbleSum(B)) % 16
    BY <2>3, <2>4, Zenon
  <2> QED BY <2>5, <2>6, <2>7, Zenon
<1>11. (Checksum(w) # k) <=> (NibbleSum(w) # NibbleSum(p))
  <2>1. NibbleSum(w) \in 0..15
    <3> HIDE DEF w
    <3> QED BY <1>8, NibbleSumType
  <2>2. Checksum(w) = 65 + NibbleSum(w)
    BY DEF Checksum
  <2>3. \A x, y \in 0..15 : (65 + x = 65 + y) <=> (x = y)
    OBVIOUS
  <2>4. (65 + NibbleSum(w) = 65 + NibbleSum(p)) <=> (NibbleSum(w) = NibbleSum(p))
    <3> HIDE DEF w
    <3> QED BY <1>2, <2>1, <2>3, Zenon
  <2> HIDE DEF w
  <2> QED BY <1>2, <2>2, <2>4, Zenon
<1>12. (NibbleSum(w) = NibbleSum(p)) <=> (d % 16 = (c + 1) % 16)
  <2>1. NibbleSum(A) \in 0..15 /\ NibbleSum(B) \in 0..15
    <3> HIDE DEF A, B
    <3> QED BY <1>5, NibbleSumType
  <2>2. \A x, z, a, b \in 0..15 :
          ((x + ((15 + b) % 16) + z) % 16 = (x + a + z) % 16) <=> (b = (a + 1) % 16)
    <3> SUFFICES ASSUME NEW x \in 0..15, NEW z \in 0..15, NEW a \in 0..15, NEW b \in 0..15
                 PROVE  ((x + ((15 + b) % 16) + z) % 16 = (x + a + z) % 16)
                          <=> (b = (a + 1) % 16)
      OBVIOUS
    <3>1. (15 + b) % 16 = IF b = 0 THEN 15 ELSE b - 1
      OBVIOUS
    <3>2. (a + 1) % 16 = IF a = 15 THEN 0 ELSE a + 1
      OBVIOUS
    <3>3. (x + a + z) % 16 = IF x + a + z < 16 THEN x + a + z
                             ELSE IF x + a + z < 32 THEN x + a + z - 16 ELSE x + a + z - 32
      OBVIOUS
    <3> DEFINE e == (15 + b) % 16
    <3>4. e \in 0..15 /\ e = IF b = 0 THEN 15 ELSE b - 1
      BY <3>1
    <3> HIDE DEF e
    <3>5. (x + e + z) % 16 = IF x + e + z < 16 THEN x + e + z
                             ELSE IF x + e + z < 32 THEN x + e + z - 16 ELSE x + e + z - 32
      BY <3>4
    <3>6. ((x + e + z) % 16 = (x + a + z) % 16) <=> (e = a)
      BY <3>3, <3>4, <3>5
    <3> QED BY <3>2, <3>4, <3>6 DEF e
  <2>3. c % 16 \in 0..15 /\ d % 16 \in 0..15
    BY ByteMod
  <2>5. (c + 1) % 16 = ((c % 16) + 1) % 16
    BY ByteMod
  <2> HIDE DEF A, B, w
  <2>4. ((NibbleSum(A) + ((15 + (d % 16)) % 16) + NibbleSum(B)) % 16
           = (NibbleSum(A) + (c % 16) + NibbleSum(B)) % 16)
          <=> (d % 16 = ((c % 16) + 1) % 16)
    <3>1. PICK x \in 0..15 : x = NibbleSum(A)
      BY <2>1
    <3>2. PICK z \in 0..15 : z = NibbleSum(B)
      BY <2>1
    <3>3. PICK a \in 0..15 : a = c % 16
      BY <2>3, Zenon
    <3>4. PICK b \in 0..15 : b = d % 16
      BY <2>3, Zenon
    <3>5. ((x + ((15 + b) % 16) + z) % 16 = (x + a + z) % 16) <=> (b = (a + 1) % 16)
      BY <2>2
    <3> QED BY <3>1, <3>2, <3>3, <3>4, <3>5, Zenon
  <2> QED BY <1>9, <1>10, <2>4, <2>5, Zenon
<1>14. (Verdict(w \o <<k>>) = NakSent) <=> (Checksum(w) # k)
  <2> HIDE DEF w
  <2> QED BY <1>8, VerdictOf
<1> HIDE DEF w, A, B
<1> QED BY <1>7, <1>11, <1>12, <1>14, <1>16, Zenon DEF F

(* A flip in the letter. *)
LEMMA LetterFlipSeen ==
  ASSUME NEW p \in Payloads, ~Plain(p), NEW d \in Byte
  PROVE  (Verdict(DamagedAt(Framed(p), Len(p) + 1, d)) = NakSent)
           <=> (d # 65 + ((NibbleSum(p) + 15) % 16))
<1> DEFINE F == Framed(p)
           n == Len(p) + 1
           marks == <<255, 0>>
           w == p \o marks
<1>1. p \in Seq(Byte) /\ Len(p) \in Nat \ {0} /\ F \in Seq(Byte) /\ Len(F) = n /\ Front(F) = p
  BY PayloadType, FrameType
<1>2. SubSeq(F, 1, n - 1) = p
  <2> HIDE DEF F
  <2> QED BY <1>1 DEF Front
<1>3. SubSeq(F, n + 1, Len(F)) = <<>>
  <2> HIDE DEF F
  <2> QED BY <1>1
<1>4. Marked(d) \in Seq(Byte) /\ Marked(d) = marks \o <<d>> /\ <<d>> \in Seq(Byte)
  BY MarkedType
<1>5. marks \in Seq(Byte) /\ NibbleSum(marks) = 15
  BY MarkSum
<1> HIDE DEF marks
<1>6. p \o Marked(d) \in Seq(Byte)
  BY <1>1, <1>4, PutTogether, Zenon
<1>7. DamagedAt(F, n, d) = w \o <<d>>
  <2>1. DamagedAt(F, n, d) = (p \o Marked(d)) \o <<>>
    BY <1>2, <1>3, Zenon DEF DamagedAt
  <2>2. (p \o Marked(d)) \o <<>> = p \o Marked(d)
    <3> DEFINE v == p \o Marked(d)
    <3> HIDE DEF v
    <3>1. v \o <<>> = v
      BY <1>6, ConcatEmptySeq DEF v
    <3> QED BY <3>1 DEF v
  <2>3. p \o (marks \o <<d>>) = w \o <<d>>
    BY <1>1, <1>4, <1>5, Associative, Zenon
  <2> QED BY <1>4, <2>1, <2>2, <2>3, Zenon
<1>8. w \in Seq(Byte) /\ w # <<>>
  <2>1. w \in Seq(Byte) /\ Len(w) = Len(p) + Len(marks) /\ Len(marks) \in Nat
    BY <1>1, <1>5, PutTogether, Zenon
  <2> HIDE DEF w
  <2>2. Len(w) # 0
    BY <1>1, <2>1
  <2> QED BY <2>1, <2>2
<1>9. NibbleSum(w) = (NibbleSum(p) + 15) % 16
  <2>1. NibbleSum(w) = (NibbleSum(p) + NibbleSum(marks)) % 16
    BY <1>1, <1>5, SumOfBoth
  <2> QED BY <1>5, <2>1, Zenon
<1>10. (Verdict(w \o <<d>>) = NakSent) <=> (Checksum(w) # d)
  <2> HIDE DEF w
  <2> QED BY <1>8, VerdictOf
<1>11. Checksum(w) = 65 + ((NibbleSum(p) + 15) % 16)
  BY <1>9, Zenon DEF Checksum
<1> HIDE DEF w
<1> QED BY <1>7, <1>10, <1>11, Zenon

(* A flip of one bit is seen but for the flips of Escapes. *)
LEMMA FlipSeen ==
  ASSUME NEW p \in Payloads, ~Plain(p), NEW i \in 1..Len(Framed(p)), NEW bit \in Bits
  PROVE  LET c == Framed(p)[i]
             d == FlipBit(Framed(p)[i], bit)
         IN /\ c \in Byte /\ d \in Byte
            /\ (Verdict(DamagedAt(Framed(p), i, d)) = NakSent)
                 <=> ~(\/ i < Len(Framed(p)) /\ d = c + 1 /\ c % 2 = 0
                       \/ i = Len(Framed(p)) /\ d = c - 1 /\ c % 2 = 1 /\ c # 65)
<1> DEFINE F == Framed(p)
<1>1. p \in Seq(Byte) /\ Len(p) \in Nat /\ F \in Seq(Byte) /\ Len(F) = Len(p) + 1
      /\ F = Append(p, Checksum(p))
  BY PayloadType, FrameType DEF Framed, Plain
<1>2. PICK c \in Byte : c = F[i]
  BY <1>1, ElementOfSeq
<1>3. PICK d \in Byte : d = FlipBit(c, bit)
  BY FlippedByte
<1>4. /\ (d % 16 = (c + 1) % 16) <=> (d = c + 1 /\ c % 2 = 0)
      /\ c \in 65..80 =>
           ((d = 65 + (((c - 65) + 15) % 16)) <=> (d = c - 1 /\ c % 2 = 1 /\ c # 65))
  BY <1>3, FlipWeights
<1>5. CASE i # Len(F)
  <2>1. i \in 1..Len(p) /\ i < Len(F)
    BY <1>1, <1>5
  <2>2. Append(p, Checksum(p))[i] = p[i]
    <3> HIDE DEF Checksum
    <3> QED BY <1>1, <2>1
  <2>3. c = p[i]
    BY <1>1, <1>2, <2>2, Zenon
  <2>4. (Verdict(DamagedAt(F, i, d)) = NakSent) <=> (d % 16 # (p[i] + 1) % 16)
    BY <2>1, PayloadFlipSeen
  <2>5. (Verdict(DamagedAt(F, i, d)) = NakSent) <=> ~(d = c + 1 /\ c % 2 = 0)
    BY <1>4, <2>3, <2>4, Zenon
  <2> HIDE DEF F
  <2>6. (Verdict(DamagedAt(F, i, d)) = NakSent)
          <=> ~(\/ i < Len(F) /\ d = c + 1 /\ c % 2 = 0
                \/ i = Len(F) /\ d = c - 1 /\ c % 2 = 1 /\ c # 65)
    BY <1>5, <2>1, <2>5, Zenon
  <2> QED BY <1>2, <1>3, <2>6, Zenon DEF F
<1>6. CASE i = Len(F)
  <2>1. c = Checksum(p)
    <3>1. Append(p, Checksum(p))[Len(p) + 1] = Checksum(p)
      <4> HIDE DEF Checksum
      <4> QED BY <1>1
    <3> QED BY <1>1, <1>2, <1>6, <3>1, Zenon
  <2>2. c = 65 + NibbleSum(p) /\ NibbleSum(p) \in 0..15
    BY <1>1, <2>1, NibbleSumType, Zenon DEF Checksum
  <2>3. c \in 65..80 /\ c - 65 = NibbleSum(p)
    <3>1. PICK s \in 0..15 : s = NibbleSum(p)
      BY <2>2, Zenon
    <3>2. c = 65 + s
      BY <2>2, <3>1, Zenon
    <3>3. c \in 65..80 /\ c - 65 = s
      BY <3>2
    <3> QED BY <3>1, <3>3, Zenon
  <2>4. (Verdict(DamagedAt(F, Len(p) + 1, d)) = NakSent)
          <=> (d # 65 + ((NibbleSum(p) + 15) % 16))
    BY LetterFlipSeen
  <2>5. (Verdict(DamagedAt(F, i, d)) = NakSent) <=> ~(d = c - 1 /\ c % 2 = 1 /\ c # 65)
    BY <1>1, <1>4, <1>6, <2>3, <2>4, Zenon
  <2>6. ~(i < Len(F))
    BY <1>1, <1>6
  <2> HIDE DEF F
  <2>7. (Verdict(DamagedAt(F, i, d)) = NakSent)
          <=> ~(\/ i < Len(F) /\ d = c + 1 /\ c % 2 = 0
                \/ i = Len(F) /\ d = c - 1 /\ c % 2 = 1 /\ c # 65)
    BY <1>6, <2>5, <2>6, Zenon
  <2> QED BY <1>2, <1>3, <2>7, Zenon DEF F
<1> QED BY <1>5, <1>6

-----------------------------------------------------------------------------
(* The steps.                                                              *)

(* The frames of the payloads sent. *)
LEMMA SentFacts ==
  ASSUME FramingTypeOK
  PROVE  \A i \in 1..Len(sent) : /\ sent[i] \in Payloads
                                 /\ Frame(i) \in Seq(Byte) /\ Bare(Frame(i)) /\ Frame(i) # <<>>
                                 /\ Len(Frame(i)) \in Nat
<1>1. \A i \in 1..Len(sent) : sent[i] \in Payloads
  BY TypeFacts, ElementOfSeq
<1> QED BY <1>1, FrameIsBare, FrameType, LenProperties DEF Frame

(* What is pending gains a frame and its line end. *)
LEMMA SendStep ==
  ASSUME FramingInv, SendFrame
  PROVE  LineInv'
<1>1. PICK p \in Payloads : sent' = Append(sent, p) /\ line' = Ended(Framed(p))
  BY DEF SendFrame, Ended
<1>2. line = <<>> /\ UNCHANGED <<buf, taken, flip, flips, lost>>
  BY DEF SendFrame
<1>3. FramingTypeOK /\ Untouched /\ CleanLine /\ RunTogetherLine /\ RunTogetherSeen
  BY DEF FramingInv, LineInv
<1>0. PICK n \in Nat : n = Len(sent)
  BY <1>3, TypeFacts
<1>4. sent \in Seq(Payloads) /\ buf \in Seq(Byte)
  BY <1>3, TypeFacts
<1>5. /\ sent' # <<>> /\ Len(sent') = n + 1 /\ sent'[n + 1] = p
      /\ \A i \in 1..n : sent'[i] = sent[i]
  BY <1>0, <1>1, <1>4, AppendProperties
<1>6. Pending = buf
  BY <1>2, <1>4, ConcatEmptySeq DEF Pending
<1>7. line' # <<>> /\ Framed(p) \in Seq(Byte) /\ Framed(p) # <<>>
  BY <1>1, FrameIsBare, BareIsReadable, FrameType, FramingAssumption
<1>8. Pending' = Ended(buf \o Framed(p))
  <2>1. buf \o Append(Framed(p), LineEnd) = Append(buf \o Framed(p), LineEnd)
    <3>1. LineEnd \in Byte
      BY DEF LineEnd, Byte
    <3> DEFINE F == Framed(p)
    <3>2. F \in Seq(Byte)
      BY <1>7
    <3> HIDE DEF F, LineEnd
    <3>3. Append(F, LineEnd) = F \o <<LineEnd>> /\ <<LineEnd>> \in Seq(Byte)
      BY <3>1, <3>2, AppendIsConcat
    <3>4. buf \o F \in Seq(Byte)
      BY <1>4, <3>2, PutTogether, Zenon
    <3>5. Append(buf \o F, LineEnd) = (buf \o F) \o <<LineEnd>>
      BY <3>1, <3>4, AppendIsConcat
    <3>6. (buf \o F) \o <<LineEnd>> = buf \o (F \o <<LineEnd>>)
      BY <1>4, <3>2, <3>3, Associative, Zenon
    <3>7. buf \o Append(F, LineEnd) = Append(buf \o F, LineEnd)
      BY <3>3, <3>5, <3>6, Zenon
    <3> QED BY <3>7 DEF F
  <2> QED BY <1>1, <1>2, <2>1 DEF Pending, Ended
<1>9. buf = <<>> => Pending' = Ended(Framed(p))
  <2>1. <<>> \o Framed(p) = Framed(p)
    BY <1>7, ConcatEmptySeq
  <2> QED BY <1>8, <2>1
<1>10. Frame(n + 1)' = Framed(p) /\ \A i \in 1..n : Frame(i)' = Frame(i)
  BY <1>5 DEF Frame
<1>11. Untouched'
  BY <1>5 DEF Untouched
<1>12. CleanLine'
  <2> SUFFICES ASSUME flips' = 0, lost' = 0
               PROVE  /\ sent' # <<>> /\ line' # <<>> /\ Pending' = Ended(Frame(n + 1)')
                      /\ taken' = [i \in 1..((n + 1) - 1) |-> Accepted(sent'[i])]
    BY <1>5 DEF CleanLine
  <2>1. Pending = <<>> /\ taken = [i \in 1..n |-> Accepted(sent[i])]
    BY <1>0, <1>2, <1>3 DEF CleanLine
  <2>2. [i \in 1..n |-> Accepted(sent[i])] = [i \in 1..n |-> Accepted(sent'[i])]
    BY <1>5
  <2>3. (n + 1) - 1 = n
    BY <1>4
  <2> QED BY <1>2, <1>5, <1>6, <1>7, <1>9, <1>10, <2>1, <2>2, <2>3
<1>13. RunTogetherLine'
  <2> SUFFICES ASSUME flips' = 0, lost' = 1
               PROVE  \/ Pending' = Ended(Frame(n + 1)')
                      \/ n + 1 > 1 /\ Pending' = Ended(Frame((n + 1) - 1)' \o Frame(n + 1)')
    BY <1>5, <1>7 DEF RunTogetherLine
  <2>1. Pending = <<>> \/ (sent # <<>> /\ Pending = Frame(n))
    BY <1>0, <1>2, <1>3 DEF RunTogetherLine
  <2>2. CASE Pending = <<>>
    BY <1>6, <1>9, <1>10, <2>2
  <2>3. CASE sent # <<>> /\ Pending = Frame(n)
    <3>1. n \in 1..n /\ (n + 1) - 1 = n /\ n + 1 > 1
      BY <1>0, <1>4, <2>3, EmptySeq
    <3>2. Frame((n + 1) - 1)' = Frame(n)
      BY <1>10, <3>1
    <3> QED BY <1>6, <1>8, <1>10, <2>3, <3>1, <3>2
  <2> QED BY <2>1, <2>2, <2>3
<1>14. FlippedLine'
  <2>1. Len(sent') = 1 => flips' = 0
    <3> SUFFICES ASSUME Len(sent') = 1 PROVE flips = 0
      BY <1>2
    <3>1. n = 0
      BY <1>4, <1>5
    <3>2. sent = <<>>
      BY <1>0, <1>4, <3>1, EmptySeq
    <3> QED BY <1>3, <3>2 DEF Untouched
  <2> QED BY <2>1 DEF FlippedLine
<1>15. RunTogetherSeen'
  <2>1. Range(sent) \subseteq Range(sent')
    <3>1. DOMAIN sent = 1..n /\ DOMAIN sent' = 1..(n + 1) /\ \A i \in 1..n : i \in 1..(n + 1)
      BY <1>0, <1>1, <1>4, <1>5, LenProperties, AppendProperties
    <3> QED BY <1>5, <3>1 DEF Range
  <2> QED BY <1>2, <1>3, <2>1 DEF RunTogetherSeen
<1> QED BY <1>11, <1>12, <1>13, <1>14, <1>15 DEF LineInv

(* One byte of the frame pending becomes three. *)
LEMMA FlipStep ==
  ASSUME FramingInv, Flip
  PROVE  LineInv'
<1>1. FramingTypeOK /\ Untouched /\ CleanLine /\ RunTogetherLine /\ RunTogetherSeen
  BY DEF FramingInv, LineInv
<1>2. line # <<>> /\ flips' = flips + 1 /\ UNCHANGED <<sent, buf, taken, lost>>
  BY DEF Flip
<1>3. flips \in Nat /\ sent \in Seq(Payloads) /\ Len(sent) \in Nat
  BY <1>1, TypeFacts
<1>4. flips' # 0 /\ sent' # <<>>
  BY <1>1, <1>2, <1>3 DEF Untouched
<1>5. Untouched' /\ CleanLine' /\ RunTogetherLine' /\ RunTogetherSeen'
  BY <1>4 DEF Untouched, CleanLine, RunTogetherLine, RunTogetherSeen
<1>6. FlippedLine'
  <2> SUFFICES ASSUME flips' = 1, lost' = 0, Len(sent') = 1, ~LineEndInvolved'
               PROVE  /\ flip'.at \in 1..Len(Frame(1)) /\ flip'.from = Frame(1)[flip'.at]
                      /\ \E bit \in Bits : flip'.to = FlipBit(flip'.from, bit)
                      /\ taken' = <<>> /\ line' # <<>>
                      /\ Pending' = Ended(DamagedAt(Frame(1), flip'.at, flip'.to))
    BY <1>2 DEF FlippedLine, Frame, Damaged
  <2>1. flips = 0 /\ lost = 0 /\ Len(sent) = 1 /\ sent # <<>>
    BY <1>2, <1>3, <1>4
  <2>2. line \in Seq(Byte) /\ buf \in Seq(Byte) /\ Len(line) \in Nat /\ Len(buf) \in Nat
    BY <1>1, TypeFacts
  <2>3. Pending # <<>>
    BY <1>2, <2>2, ConcatEqualIffEmpty DEF Pending
  <2>4. Pending = Ended(Frame(1)) /\ taken = [j \in 1..(1 - 1) |-> Accepted(sent[j])]
    BY <1>1, <2>1, <2>3 DEF CleanLine
  <2> DEFINE F == Frame(1)
  <2>5. F \in Seq(Byte) /\ Len(F) \in Nat /\ F = Framed(Last(sent))
    BY <1>1, <2>1, SentFacts DEF Frame, Last
  <2>6. LineEnd \in Byte
    BY DEF LineEnd, Byte
  <2>7. /\ Ended(F) \in Seq(Byte) /\ Len(Ended(F)) = Len(F) + 1 /\ Ended(F)[Len(F) + 1] = LineEnd
        /\ \A j \in 1..Len(F) : Ended(F)[j] = F[j]
    <3> HIDE DEF F, LineEnd
    <3> QED BY <2>5, <2>6, AppendProperties DEF Ended
  <2>8. Len(line) = Len(F) + 1
    BY <2>5 DEF Flip
  <2>9. buf = <<>> /\ line = Ended(F)
    <3> HIDE DEF F
    <3>1. Len(buf) + Len(line) = Len(F) + 1
      BY <1>1, <2>4, <2>7, TypeFacts DEF F
    <3>2. buf = <<>>
      BY <2>2, <2>5, <2>8, <3>1, EmptySeq
    <3> QED BY <2>2, <2>4, <3>2, ConcatEmptySeq DEF Pending, F
  <2>10. PICK i \in 1..Len(line), bit \in Bits :
           /\ line' = DamagedAt(line, i, FlipBit(line[i], bit))
           /\ flip' = [at |-> i, from |-> line[i], to |-> FlipBit(line[i], bit)]
    BY Zenon DEF Flip, DamagedAt
  <2>11. flip'.at = i /\ flip'.from = line[i] /\ flip'.to = FlipBit(line[i], bit)
    BY <2>10
  <2>12. line[i] \in Byte /\ FlipBit(line[i], bit) \in Byte
    BY <2>2, ElementOfSeq, FlippedByte
  <2> HIDE DEF F
  <2>13. i \in 1..Len(F)
    <3>1. i # Len(F) + 1
      <4>1. flip'.from # LineEnd
        BY DEF LineEndInvolved
      <4> QED BY <2>7, <2>9, <2>11, <4>1, Zenon
    <3> QED BY <2>5, <2>8, <3>1
  <2>14. line[i] = F[i]
    BY <2>7, <2>9, <2>13
  <2>15. /\ line' = DamagedAt(F, i, flip'.to) \o <<LineEnd>>
         /\ line' = Ended(DamagedAt(F, i, flip'.to))
    <3> DEFINE d == FlipBit(line[i], bit)
               h == DamagedAt(F, i, d)
    <3>1. d \in Byte
      BY <2>12
    <3> HIDE DEF d
    <3>2. DamagedAt(Append(F, LineEnd), i, d) = h \o <<LineEnd>>
      <4> HIDE DEF LineEnd
      <4> QED BY <2>5, <2>6, <2>13, <3>1, AppendSplit
    <3>3. h \in Seq(Byte)
      <4>1. SubSeq(F, 1, i - 1) \in Seq(Byte) /\ SubSeq(F, i + 1, Len(F)) \in Seq(Byte)
        BY <2>5, <2>13
      <4>2. Marked(d) \in Seq(Byte)
        BY <3>1, MarkedType
      <4>3. SubSeq(F, 1, i - 1) \o Marked(d) \in Seq(Byte)
        BY <4>1, <4>2, PutTogether, Zenon
      <4> QED BY <4>1, <4>3, PutTogether, Zenon DEF DamagedAt
    <3> HIDE DEF h
    <3>4. Append(h, LineEnd) = h \o <<LineEnd>>
      <4> HIDE DEF LineEnd
      <4> QED BY <2>6, <3>3, AppendIsConcat
    <3>5. line' = h \o <<LineEnd>>
      BY <2>9, <2>10, <3>2, Zenon DEF Ended, d
    <3>6. flip'.to = d
      BY <2>11 DEF d
    <3> QED BY <3>4, <3>5, <3>6, Zenon DEF Ended, h
  <2>16. line' # <<>> /\ line' \in Seq(Byte)
    <3>1. FramingTypeOK'
      BY <1>1, FramingTypeStep DEF FramingNext
    <3>2. line' \in Seq(Byte) /\ Len(line') = Len(line) + 2
      <4>1. line' \in Seq(Byte)
        BY <3>1 DEF FramingTypeOK, Byte
      <4>2. Len(line') = (i - 1) + 3 + (Len(line) - i)
        <5> DEFINE a == SubSeq(line, 1, i - 1)
                   b == SubSeq(line, i + 1, Len(line))
                   m == Marked(FlipBit(line[i], bit))
        <5>1. a \in Seq(Byte) /\ b \in Seq(Byte) /\ Len(a) = i - 1 /\ Len(b) = Len(line) - i
          BY <2>2
        <5>2. m \in Seq(Byte) /\ Len(m) = 3
          BY <2>12, MarkedType
        <5>3. line' = (a \o m) \o b
          BY <2>10, Zenon DEF DamagedAt
        <5> HIDE DEF a, b, m
        <5>4. a \o m \in Seq(Byte) /\ Len(a \o m) = Len(a) + Len(m)
          BY <5>1, <5>2, PutTogether, Zenon
        <5>5. Len((a \o m) \o b) = Len(a \o m) + Len(b)
          BY <5>1, <5>4, PutTogether, Zenon
        <5> QED BY <5>1, <5>2, <5>3, <5>4, <5>5, Zenon
      <4> QED BY <2>2, <4>1, <4>2
    <3> QED BY <2>2, <3>2
  <2>17. Pending' = line'
    <3>1. <<>> \o line' = line'
      BY <2>16, ConcatEmptySeq
    <3> QED BY <1>2, <2>9, <3>1 DEF Pending
  <2>18. taken' = <<>>
    BY <1>2, <2>4
  <2>19. Pending' = Ended(DamagedAt(F, flip'.at, flip'.to))
    BY <2>11, <2>15, <2>17, Zenon
  <2>20. flip'.at \in 1..Len(F) /\ flip'.from = F[flip'.at]
    BY <2>11, <2>13, <2>14, Zenon
  <2>21. \E b \in Bits : flip'.to = FlipBit(flip'.from, b)
    BY <2>11, Zenon
  <2> QED BY <2>16, <2>18, <2>19, <2>20, <2>21, Zenon DEF F
<1> QED BY <1>5, <1>6 DEF LineInv

(* What is pending loses its line end. *)
LEMMA SwallowStep ==
  ASSUME FramingInv, SwallowLineEnd
  PROVE  LineInv'
<1>1. FramingTypeOK /\ Untouched /\ CleanLine /\ RunTogetherLine /\ RunTogetherSeen
  BY DEF FramingInv, LineInv
<1>2. /\ line # <<>> /\ line' = Front(line) /\ lost' = lost + 1
      /\ UNCHANGED <<sent, buf, taken, flip, flips>>
  BY DEF SwallowLineEnd
<1>3. /\ lost \in Nat /\ line \in Seq(Byte) /\ buf \in Seq(Byte)
      /\ Len(line) \in Nat /\ Len(buf) \in Nat
  BY <1>1, TypeFacts
<1>4. lost' # 0 /\ sent' # <<>>
  BY <1>1, <1>2, <1>3 DEF Untouched
<1>5. Untouched' /\ CleanLine' /\ FlippedLine'
  BY <1>4 DEF Untouched, CleanLine, FlippedLine
<1>6. RunTogetherLine'
  <2>0. PICK n \in Nat : n = Len(sent)
    BY <1>1, TypeFacts
  <2> SUFFICES ASSUME flips' = 0, lost' = 1
               PROVE  sent' # <<>> /\ Pending' = Frame(n)'
    BY <1>2, <2>0 DEF RunTogetherLine, Frame
  <2>1. flips = 0 /\ lost = 0 /\ Pending # <<>>
    BY <1>2, <1>3, ConcatEqualIffEmpty DEF Pending
  <2>2. Pending = Ended(Frame(Len(sent))) /\ sent # <<>>
    BY <1>1, <2>1 DEF CleanLine
  <2>3. Bare(Frame(Len(sent)))
    <3>1. Len(sent) \in 1..Len(sent)
      BY <1>1, <2>2, TypeFacts, EmptySeq
    <3> QED BY <1>1, <3>1, SentFacts
  <2>4. Front(Ended(Frame(Len(sent)))) = Frame(Len(sent))
    BY <1>1, <2>3, TypeFacts, BareIsReadable
  <2>5. Pending' = Front(Pending)
    <3>1. Len(buf \o line) = Len(buf) + Len(line) /\ buf \o line \in Seq(Byte) /\ Len(line) # 0
      BY <1>2, <1>3, ConcatProperties, EmptySeq
    <3>2. buf \o Front(line) = Front(buf \o line)
      BY <1>3, <3>1, ConcatProperties DEF Front
    <3> QED BY <1>2, <3>2 DEF Pending
  <2>6. Frame(n)' = Frame(n)
    BY <1>2 DEF Frame
  <2> QED BY <1>2, <2>0, <2>2, <2>4, <2>5, <2>6
<1>7. RunTogetherSeen'
  <2> SUFFICES ASSUME flips = 0, lost + 1 <= 1, <<Nak>> \notin Range(sent)
               PROVE  \A i \in 1..Len(taken) :
                        taken[i].kind = "command" => taken[i].bytes \in Range(sent)
    BY <1>2 DEF RunTogetherSeen
  <2>1. lost <= 1
    BY <1>3
  <2> QED BY <1>1, <2>1 DEF RunTogetherSeen
<1> QED BY <1>5, <1>6, <1>7 DEF LineInv

(* A read leaves what is pending as it was, or takes the whole of it. *)
LEMMA ReadLineStep ==
  ASSUME FramingInv, Read
  PROVE  LineInv'
<1>1. /\ FramingTypeOK /\ Untouched /\ CleanLine /\ RunTogetherLine /\ FlippedLine
      /\ RunTogetherSeen
  BY DEF FramingInv, LineInv
<1>2. line # <<>> /\ UNCHANGED <<sent, flip, flips, lost>>
  BY DEF Read
<1>3. PICK n \in Nat : n = Len(sent)
  BY <1>1, TypeFacts
<1>4. /\ line \in Seq(Byte) /\ buf \in Seq(Byte) /\ BufSize \in Nat /\ sent \in Seq(Payloads)
      /\ taken \in Seq(Outcomes) /\ Pending \in Seq(Byte) /\ Len(taken) \in Nat
  BY <1>1, TypeFacts, LenProperties
<1>5. sent # <<>> /\ n \in 1..n /\ (n > 1 => n - 1 \in 1..n)
  <2>1. sent # <<>>
    BY <1>1, <1>2 DEF Untouched
  <2>2. n # 0
    BY <1>3, <1>4, <2>1, EmptySeq
  <2> QED BY <2>1, <2>2
<1>6. Pending # <<>>
  BY <1>2, <1>4, ConcatEqualIffEmpty DEF Pending
<1>7. \A i \in 1..n : /\ sent[i] \in Payloads /\ Bare(Frame(i)) /\ Frame(i) # <<>>
                      /\ Frame(i)' = Frame(i) /\ Verdict(Frame(i)) = Accepted(sent[i])
  <2>1. \A i \in 1..n : sent[i] \in Payloads /\ Bare(Frame(i)) /\ Frame(i) # <<>>
    BY <1>1, <1>3, SentFacts
  <2>2. \A i \in 1..n : Verdict(Frame(i)) = Accepted(sent[i])
    BY <2>1, FrameIsTaken DEF Frame
  <2>3. \A i \in 1..n : Frame(i)' = Frame(i)
    BY <1>2 DEF Frame
  <2> QED BY <2>1, <2>2, <2>3
<1>8. ASSUME NEW w, Readable(w), Pending = w
      PROVE  \/ /\ Pending' = <<>> /\ taken' = Append(taken, Verdict(Front(w)))
                /\ Last(w) = LineEnd
             \/ taken' = taken /\ Pending' = w /\ (Last(w) = LineEnd => line' # <<>>)
  <2>1. w \in Seq(Byte) /\ buf \o line = w
    BY <1>8 DEF Readable, Pending
  <2>2. \/ /\ buf' = <<>> /\ line' = <<>> /\ taken' = Append(taken, Verdict(Front(w)))
           /\ Last(w) = LineEnd
        \/ taken' = taken /\ buf' \o line' = w /\ (Last(w) = LineEnd => line' # <<>>)
    BY <1>4, <1>8, <2>1, ReadStep, Zenon DEF Readable
  <2>3. <<>> \o <<>> = <<>>
    OBVIOUS
  <2> QED BY <2>2, <2>3, Zenon DEF Pending
<1>9. ASSUME NEW w, Bare(w), w # <<>>, Pending = Ended(w)
      PROVE  \/ Pending' = <<>> /\ taken' = Append(taken, Verdict(w))
             \/ taken' = taken /\ Pending' = Ended(w) /\ line' # <<>>
  <2>1. Readable(Ended(w)) /\ Last(Ended(w)) = LineEnd /\ Front(Ended(w)) = w
    BY <1>4, <1>9, BareIsReadable
  <2> QED BY <1>8, <1>9, <2>1, Zenon
<1>10. ASSUME NEW w, Bare(w), w # <<>>, Pending = w
       PROVE  taken' = taken /\ Pending' = w
  <2>1. Readable(w) /\ Last(w) # LineEnd
    BY <1>4, <1>10, BareIsReadable
  <2> QED BY <1>8, <1>10, <2>1, Zenon
<1>11. Untouched'
  BY <1>2, <1>5 DEF Untouched
<1>12. CleanLine'
  <2> SUFFICES ASSUME flips = 0, lost = 0
               PROVE  \/ Pending' = <<>> /\ taken' = [i \in 1..n |-> Accepted(sent[i])]
                      \/ /\ sent # <<>> /\ line' # <<>> /\ Pending' = Ended(Frame(n)')
                         /\ taken' = [i \in 1..(n - 1) |-> Accepted(sent[i])]
    BY <1>2, <1>3 DEF CleanLine
  <2>1. Pending = Ended(Frame(n)) /\ taken = [i \in 1..(n - 1) |-> Accepted(sent[i])]
    BY <1>1, <1>3, <1>6 DEF CleanLine
  <2>2. \/ Pending' = <<>> /\ taken' = Append(taken, Accepted(sent[n]))
        \/ taken' = taken /\ Pending' = Ended(Frame(n)) /\ line' # <<>>
    BY <1>5, <1>7, <1>9, <2>1
  <2>3. Append(taken, Accepted(sent[n])) = [i \in 1..n |-> Accepted(sent[i])]
    <3> DEFINE t == [i \in 1..(n - 1) |-> Accepted(sent[i])]
               u == [i \in 1..n |-> Accepted(sent[i])]
    <3>1. \A i \in 1..n : Accepted(sent[i]) \in Outcomes
      BY <1>7, PayloadType DEF Accepted, Outcomes
    <3> HIDE DEF Accepted
    <3>2. /\ t \in Seq(Outcomes) /\ Len(t) = n - 1 /\ u \in Seq(Outcomes) /\ Len(u) = n
          /\ \A i \in 1..(n - 1) : t[i] = Accepted(sent[i])
          /\ \A i \in 1..n : u[i] = Accepted(sent[i])
      BY <1>5, <3>1
    <3> HIDE DEF t, u
    <3>3. Append(t, Accepted(sent[n])) = u
      BY <1>5, <3>1, <3>2
    <3> QED BY <2>1, <3>3 DEF t, u
  <2> QED BY <1>5, <1>7, <2>1, <2>2, <2>3
<1>13. ASSUME flips = 0, lost = 1
       PROVE  /\ \/ Pending' = <<>>
                 \/ Pending' = Frame(n)
                 \/ line' # <<>> /\ Pending' = Ended(Frame(n))
                 \/ n > 1 /\ line' # <<>> /\ Pending' = Ended(Frame(n - 1) \o Frame(n))
              /\ \/ taken' = taken
                 \/ taken' = Append(taken, Accepted(sent[n]))
                 \/ <<Nak>> \notin Range(sent) => taken' = Append(taken, NakSent)
  <2>1. \/ Pending = Frame(n)
        \/ Pending = Ended(Frame(n))
        \/ n > 1 /\ Pending = Ended(Frame(n - 1) \o Frame(n))
    BY <1>1, <1>3, <1>6, <1>13 DEF RunTogetherLine
  <2>2. CASE Pending = Frame(n)
    BY <1>5, <1>7, <1>10, <2>2
  <2>3. CASE Pending = Ended(Frame(n))
    <3>1. \/ Pending' = <<>> /\ taken' = Append(taken, Accepted(sent[n]))
          \/ taken' = taken /\ Pending' = Ended(Frame(n)) /\ line' # <<>>
      BY <1>5, <1>7, <1>9, <2>3
    <3> QED BY <3>1
  <2>4. CASE n > 1 /\ Pending = Ended(Frame(n - 1) \o Frame(n))
    <3>1. sent[n - 1] \in Payloads /\ sent[n] \in Payloads
      BY <1>5, <1>7, <2>4
    <3>2. Bare(Frame(n - 1) \o Frame(n)) /\ Frame(n - 1) \o Frame(n) # <<>>
      BY <3>1, TwoAreBare, Zenon DEF Frame
    <3>3. \/ Pending' = <<>> /\ taken' = Append(taken, Verdict(Frame(n - 1) \o Frame(n)))
          \/ /\ taken' = taken /\ line' # <<>>
             /\ Pending' = Ended(Frame(n - 1) \o Frame(n))
      BY <1>9, <2>4, <3>2, Zenon
    <3>4. <<Nak>> \notin Range(sent) => Verdict(Frame(n - 1) \o Frame(n)) = NakSent
      <4> SUFFICES ASSUME <<Nak>> \notin Range(sent)
                   PROVE  Verdict(Frame(n - 1) \o Frame(n)) = NakSent
        OBVIOUS
      <4>1. DOMAIN sent = 1..n
        BY <1>3, <1>4, LenProperties
      <4>2. sent[n - 1] # <<Nak>> /\ sent[n] # <<Nak>>
        BY <1>5, <2>4, <4>1 DEF Range
      <4> QED BY <3>1, <4>2, TwoAreRefused, Zenon DEF Frame
    <3> QED BY <2>4, <3>3, <3>4
  <2> QED BY <2>1, <2>2, <2>3, <2>4
<1>14. RunTogetherLine'
  <2> SUFFICES ASSUME flips = 0, lost = 1
               PROVE  \/ Pending' = <<>>
                      \/ sent # <<>> /\ Pending' = Frame(n)'
                      \/ sent # <<>> /\ line' # <<>> /\ Pending' = Ended(Frame(n)')
                      \/ n > 1 /\ line' # <<>> /\ Pending' = Ended(Frame(n - 1)' \o Frame(n)')
    BY <1>2, <1>3 DEF RunTogetherLine
  <2> QED BY <1>5, <1>7, <1>13
<1>15. FlippedLine'
  <2> SUFFICES ASSUME flips = 1, lost = 0, Len(sent) = 1, ~LineEndInvolved
               PROVE  \/ taken' = <<>> /\ line' # <<>> /\ Pending' = Ended(Damaged(Frame(1)))
                      \/ Pending' = <<>> /\ taken' = <<Verdict(Damaged(Frame(1)))>>
    BY <1>1, <1>2 DEF FlippedLine, Frame, Damaged, LineEndInvolved
  <2> DEFINE w == Damaged(Frame(1))
  <2>1. /\ flip.at \in 1..Len(Frame(1)) /\ taken = <<>> /\ Pending = Ended(w)
    BY <1>1, <1>6 DEF FlippedLine
  <2>2. flip.to \in Byte /\ flip.to # LineEnd
    BY <1>1 DEF FramingTypeOK, LineEndInvolved, Byte
  <2>3. sent[1] \in Payloads
    BY <1>3, <1>7
  <2>4. Bare(w) /\ w # <<>>
    BY <2>1, <2>2, <2>3, DamagedIsBare, Zenon DEF Damaged, Frame
  <2> HIDE DEF w
  <2>5. \/ Pending' = <<>> /\ taken' = Append(taken, Verdict(w))
        \/ taken' = taken /\ Pending' = Ended(w) /\ line' # <<>>
    BY <1>9, <2>1, <2>4, Zenon
  <2>6. Append(<<>>, Verdict(w)) = <<Verdict(w)>>
    OBVIOUS
  <2> QED BY <2>1, <2>5, <2>6 DEF w
<1>16. RunTogetherSeen'
  <2> SUFFICES ASSUME flips = 0, lost <= 1, <<Nak>> \notin Range(sent), NEW i \in 1..Len(taken'),
                      taken'[i].kind = "command"
               PROVE  taken'[i].bytes \in Range(sent)
    BY <1>2 DEF RunTogetherSeen
  <2>1. \A j \in 1..Len(taken) : taken[j].kind = "command" => taken[j].bytes \in Range(sent)
    BY <1>1 DEF RunTogetherSeen
  <2>2. \/ taken' = taken
        \/ taken' = Append(taken, Accepted(sent[n]))
        \/ taken' = Append(taken, NakSent)
    <3>1. CASE lost = 1
      BY <1>13, <3>1
    <3>2. CASE lost = 0
      <4>1. Pending = Ended(Frame(n))
        BY <1>1, <1>3, <1>6, <3>2 DEF CleanLine
      <4> QED BY <1>5, <1>7, <1>9, <4>1
    <3>3. lost \in Nat
      BY <1>1, TypeFacts
    <3> QED BY <3>1, <3>2, <3>3
  <2>3. ASSUME NEW o \in Outcomes, taken' = Append(taken, o),
               o.kind = "command" => o.bytes \in Range(sent)
        PROVE  taken'[i].bytes \in Range(sent)
    <3>1. /\ Len(taken') = Len(taken) + 1 /\ taken'[Len(taken) + 1] = o
          /\ \A j \in 1..Len(taken) : taken'[j] = taken[j]
      BY <1>4, <2>3, AppendProperties
    <3>2. i \in 1..Len(taken) \/ i = Len(taken) + 1
      BY <1>4, <3>1
    <3> QED BY <2>1, <2>3, <3>1, <3>2
  <2>4. /\ Accepted(sent[n]) \in Outcomes /\ NakSent \in Outcomes /\ NakSent.kind # "command"
        /\ Accepted(sent[n]).bytes = sent[n]
    BY <1>5, <1>7, PayloadType DEF Accepted, NakSent, Outcomes
  <2>5. sent[n] \in Range(sent)
    <3>1. DOMAIN sent = 1..n
      BY <1>3, <1>4, LenProperties
    <3> QED BY <1>5, <3>1 DEF Range
  <2> HIDE DEF Accepted, NakSent
  <2> QED BY <2>1, <2>2, <2>3, <2>4, <2>5
<1> QED BY <1>11, <1>12, <1>14, <1>15, <1>16 DEF LineInv

(* The invariant holds in every state. *)
LEMMA FramingAlways == FramingSpec => []FramingInv
<1>1. FramingInv /\ [FramingNext]_framingVars => FramingInv'
  <2> SUFFICES ASSUME FramingInv, [FramingNext]_framingVars PROVE FramingInv'
    OBVIOUS
  <2>1. FramingTypeOK'
    BY FramingTypeStep DEF FramingInv
  <2>2. LineInv'
    <3>1. CASE SendFrame BY <3>1, SendStep
    <3>2. CASE Flip BY <3>2, FlipStep
    <3>3. CASE SwallowLineEnd BY <3>3, SwallowStep
    <3>4. CASE Read BY <3>4, ReadLineStep
    <3>5. CASE UNCHANGED framingVars
      BY <3>5 DEF framingVars, FramingInv, LineInv, Untouched, CleanLine, RunTogetherLine,
                  FlippedLine, LineEndInvolved, RunTogetherSeen, Pending, Frame, Damaged
    <3> QED BY <3>1, <3>2, <3>3, <3>4, <3>5 DEF FramingNext
  <2> QED BY <2>1, <2>2 DEF FramingInv
<1> QED BY FramingInitInv, <1>1, PTL DEF FramingSpec

(* Types, and receive() never holds a whole frame or a full buffer between *)
(* two reads.                                                              *)
THEOREM FramingTypeCorrect == FramingSpec => []FramingTypeOK
<1>1. FramingInv => FramingTypeOK
  BY DEF FramingInv
<1> QED BY <1>1, FramingAlways, PTL

(* However the reads of receive() cut up the bytes of a clean line, the    *)
(* loop of server() takes the commands that were sent, in order.           *)
THEOREM CleanFramesDelivered == FramingSpec => []CleanFramesArrive
<1>1. FramingInv => CleanFramesArrive
  <2> SUFFICES ASSUME FramingInv, flips = 0, lost = 0, Quiet
               PROVE  taken = [i \in 1..Len(sent) |-> Accepted(sent[i])]
    BY DEF CleanFramesArrive
  <2> QED BY DEF FramingInv, LineInv, CleanLine, Quiet
<1> QED BY <1>1, FramingAlways, PTL

(* Two frames run together for want of a line end are never taken for a    *)
(* command nobody sent (checksum()).                                       *)
THEOREM RunTogetherAreRefused == FramingSpec => []RunTogetherSeen
<1>1. FramingInv => RunTogetherSeen
  BY DEF FramingInv, LineInv
<1> QED BY <1>1, FramingAlways, PTL

(* A single flipped bit in a frame with a checksum is answered with a NAK  *)
(* if and only if it is none of the flips that checksum() cannot see.      *)
THEOREM FlipsAreSeen == FramingSpec => []OneFlipSeen
<1>1. FramingInv => OneFlipSeen
  <2> SUFFICES ASSUME FramingInv, flips = 1, lost = 0, Quiet, Len(sent) = 1, ~LineEndInvolved,
                      Len(Framed(sent[1])) > 1
               PROVE  taken = <<NakSent>> <=> ~Escapes
    BY DEF OneFlipSeen
  <2>1. sent[1] \in Payloads
    BY SentFacts DEF FramingInv
  <2> DEFINE p == sent[1]
             F == Framed(p)
  <2>2. /\ flip.at \in 1..Len(F) /\ flip.from = F[flip.at]
        /\ \E bit \in Bits : flip.to = FlipBit(flip.from, bit)
        /\ taken = <<Verdict(DamagedAt(F, flip.at, flip.to))>>
    BY DEF FramingInv, LineInv, FlippedLine, Frame, Damaged, Quiet
  <2>3. ~Plain(p)
    BY <2>1, FrameType
  <2>4. PICK bit \in Bits : flip.to = FlipBit(F[flip.at], bit)
    BY <2>2
  <2>5. (Verdict(DamagedAt(F, flip.at, flip.to)) = NakSent)
          <=> ~(\/ flip.at < Len(F) /\ flip.to = F[flip.at] + 1 /\ F[flip.at] % 2 = 0
                \/ /\ flip.at = Len(F) /\ flip.to = F[flip.at] - 1 /\ F[flip.at] % 2 = 1
                   /\ F[flip.at] # 65)
    BY <2>1, <2>2, <2>3, <2>4, FlipSeen
  <2> DEFINE v == Verdict(DamagedAt(F, flip.at, flip.to))
  <2>6. taken = <<NakSent>> <=> v = NakSent
    <3> HIDE DEF v
    <3>1. taken = <<v>>
      BY <2>2 DEF v
    <3> QED BY <3>1
  <2>7. Escapes <=> (\/ flip.at < Len(F) /\ flip.to = F[flip.at] + 1 /\ F[flip.at] % 2 = 0
                     \/ /\ flip.at = Len(F) /\ flip.to = F[flip.at] - 1 /\ F[flip.at] % 2 = 1
                        /\ F[flip.at] # 65)
    BY <2>2, Zenon DEF Escapes, LowestBitSet, LowestBitCleared
  <2> HIDE DEF v
  <2> QED BY <2>5, <2>6, <2>7, Zenon DEF v
<1> QED BY <1>1, FramingAlways, PTL

-----------------------------------------------------------------------------
(* HostcmRecords, for records of every length and number, every SENDBUF    *)
(* above five and every size of a client's puts: the records that hostget  *)
(* has room for come back as they were written, and "e" means that there   *)
(* are no more.                                                            *)

(* The hex digits of a byte.                                               *)

(* What the two halves of a byte are. *)
LEMMA Halves ==
  \A c \in Byte : c \div 16 \in 0..15 /\ c % 16 \in 0..15 /\ 16 * (c \div 16) + (c % 16) = c
BY DEF Byte

(* A digit stands for its value, in upper case as btox writes it and in    *)
(* lower case as the client does.                                          *)
LEMMA DigitValues ==
  \A d \in 0..15 :
    /\ Digit(d) \in Byte /\ Value(Digit(d)) = d
    /\ LET c == IF d < 10 THEN 48 + d ELSE 87 + d
       IN c \in Byte /\ IsXdigit(c) /\ Value(c) = d
BY DEF Digit, Value, Upper, IsXdigit, Byte

(* Digits have values. *)
LEMMA ValueType == \A c \in Byte : IsXdigit(c) => Value(c) \in 0..15
BY DEF Value, Upper, IsXdigit, Byte

(* xtob, turn by turn: behind the bytes made of digits the buffer is as it *)
(* was, so that the digits still to be read are there.                     *)
LEMMA XtobIs ==
  ASSUME NEW n \in Nat, NEW p \in Seq(Byte), Len(p) = 2 * n,
         \A i \in 1..(2 * n) : IsXdigit(p[i])
  PROVE  Xtob(p) = [i \in 1..n |-> 16 * Value(p[2 * i - 1]) + Value(p[2 * i])]
<1> DEFINE byte(i) == 16 * Value(p[2 * i - 1]) + Value(p[2 * i])
           made(i) == [j \in 1..(2 * n) |-> IF j <= i THEN byte(j) ELSE p[j]]
<1>1. \A i \in 1..(2 * n) : p[i] \in Byte /\ Value(p[i]) \in 0..15
  BY ValueType, ElementOfSeq
<1>2. \A i \in 1..n : byte(i) \in Byte
  <2> SUFFICES ASSUME NEW i \in 1..n PROVE byte(i) \in Byte
    OBVIOUS
  <2>1. 2 * i - 1 \in 1..(2 * n) /\ 2 * i \in 1..(2 * n)
    OBVIOUS
  <2>2. Value(p[2 * i - 1]) \in 0..15 /\ Value(p[2 * i]) \in 0..15
    BY <1>1, <2>1
  <2>3. \A h, l \in 0..15 : 16 * h + l \in Byte
    BY DEF Byte
  <2> HIDE DEF Value
  <2> QED BY <2>2, <2>3
<1>3. \A i \in 0..n : made(i) \in Seq(Byte) /\ Len(made(i)) = 2 * n
  <2> SUFFICES ASSUME NEW i \in 0..n PROVE made(i) \in Seq(Byte) /\ Len(made(i)) = 2 * n
    OBVIOUS
  <2>1. \A j \in 1..(2 * n) : (IF j <= i THEN byte(j) ELSE p[j]) \in Byte
    <3> HIDE DEF byte
    <3> QED BY <1>1, <1>2
  <2> HIDE DEF byte
  <2>2. made(i) \in [1..(2 * n) -> Byte]
    BY <2>1
  <2> QED BY <2>2
<1>4. made(0) = p
  <2> HIDE DEF byte
  <2>1. \A j \in 1..(2 * n) : made(0)[j] = p[j]
    OBVIOUS
  <2>2. DOMAIN p = 1..(2 * n) /\ p = [j \in 1..(2 * n) |-> p[j]]
    OBVIOUS
  <2> QED BY <2>2
<1>5. ASSUME NEW i \in 1..n
      PROVE  Joined(i - 1)[made(i - 1)] = made(i)
  <2> DEFINE q == made(i - 1)
  <2>1. q \in Seq(Byte) /\ i - 1 \in Nat
    BY <1>3
  <2>2. /\ 2 * (i - 1) + 1 = 2 * i - 1 /\ 2 * (i - 1) + 2 = 2 * i /\ (i - 1) + 1 = i
        /\ 2 * i - 1 \in 1..(2 * n) /\ 2 * i \in 1..(2 * n) /\ 2 * i - 1 > i - 1 /\ 2 * i > i - 1
    OBVIOUS
  <2>3. q[2 * i - 1] = p[2 * i - 1] /\ q[2 * i] = p[2 * i]
    <3> HIDE DEF byte
    <3> QED BY <2>2
  <2>4. IsXdigit(p[2 * i - 1]) /\ IsXdigit(p[2 * i])
    BY <2>2
  <2>5. Joined(i - 1)[q] = [q EXCEPT ![i] = byte(i)]
    <3> HIDE DEF made, IsXdigit, Value
    <3>1. Joined(i - 1)[q] =
            IF IsXdigit(q[2 * (i - 1) + 1]) /\ IsXdigit(q[2 * (i - 1) + 2])
            THEN [q EXCEPT ![(i - 1) + 1] =
                    16 * Value(q[2 * (i - 1) + 1]) + Value(q[2 * (i - 1) + 2])]
            ELSE q
      BY <2>1 DEF Joined, Byte
    <3> HIDE DEF q
    <3> QED BY <2>2, <2>3, <2>4, <3>1
  <2>6. [q EXCEPT ![i] = byte(i)] = made(i)
    <3> HIDE DEF byte
    <3>1. [q EXCEPT ![i] = byte(i)] = [j \in 1..(2 * n) |-> IF j = i THEN byte(i) ELSE q[j]]
      OBVIOUS
    <3>2. \A j \in 1..(2 * n) :
            (IF j = i THEN byte(i) ELSE q[j]) = IF j <= i THEN byte(j) ELSE p[j]
      OBVIOUS
    <3> HIDE DEF q
    <3> QED BY <3>1, <3>2
  <2> QED BY <2>5, <2>6
<1> DEFINE after == CHOOSE g : g = [i \in 0..n |-> IF i = 0 THEN p ELSE Joined(i - 1)[g[i - 1]]]
           f == [i \in 0..n |-> made(i)]
<1>6. f = [i \in 0..n |-> IF i = 0 THEN p ELSE Joined(i - 1)[f[i - 1]]]
  <2> HIDE DEF made
  <2>1. \A i \in 1..n : f[i] = Joined(i - 1)[f[i - 1]]
    BY <1>5
  <2>2. f[0] = p
    BY <1>4
  <2> QED BY <2>1, <2>2
<1>7. after = [i \in 0..n |-> IF i = 0 THEN p ELSE Joined(i - 1)[after[i - 1]]]
  <2> HIDE DEF f
  <2> QED BY <1>6, Zenon
<1>8. \A i \in Nat : i <= n => after[i] = made(i)
  <2> DEFINE Same == {i \in Nat : i <= n => after[i] = made(i)}
  <2> HIDE DEF made, after
  <2>1. 0 \in Same
    BY <1>4, <1>7
  <2>2. ASSUME NEW i \in Nat, i \in Same PROVE i + 1 \in Same
    <3> SUFFICES ASSUME i + 1 <= n PROVE after[i + 1] = made(i + 1)
      OBVIOUS
    <3>1. i + 1 \in 1..n /\ (i + 1) - 1 = i /\ after[i] = made(i)
      BY <2>2
    <3>2. after[i + 1] = Joined((i + 1) - 1)[after[(i + 1) - 1]]
      BY <1>7, <3>1
    <3> QED BY <1>5, <3>1, <3>2
  <2>3. Nat \subseteq Same
    <3> HIDE DEF Same
    <3> QED BY <2>1, <2>2, Induct
  <2> QED BY <2>3
<1>9. Xtob(p) = SubSeq(after[n], 1, n)
  <2>1. Len(p) \div 2 = n
    OBVIOUS
  <2> QED BY <2>1, Zenon DEF Xtob
<1>10. SubSeq(made(n), 1, n) = [i \in 1..n |-> byte(i)]
  <2> HIDE DEF byte
  <2>1. \A i \in 1..n : SubSeq(made(n), 1, n)[i] = byte(i)
    BY <1>3
  <2>2. DOMAIN SubSeq(made(n), 1, n) = 1..n
    BY <1>3
  <2> QED BY <1>3, <2>1, <2>2
<1> HIDE DEF after, made
<1> QED BY <1>8, <1>9, <1>10

(* btox, turn by turn: the digits already written lie behind the bytes     *)
(* still to be read.                                                       *)
LEMMA BtoxIs ==
  ASSUME NEW p \in Seq(Byte)
  PROVE  Btox(p) = [j \in 1..(2 * Len(p)) |->
           Digit(IF j % 2 = 1 THEN p[(j + 1) \div 2] \div 16 ELSE p[(j + 1) \div 2] % 16)]
<1> DEFINE n == Len(p)
           b == p \o p
           hex(j) == Digit(IF j % 2 = 1 THEN p[(j + 1) \div 2] \div 16
                                        ELSE p[(j + 1) \div 2] % 16)
           made(i) == [j \in 1..(2 * n) |-> IF j > 2 * (n - i) THEN hex(j) ELSE b[j]]
<1>1. n \in Nat /\ \A i \in 1..n : p[i] \in Byte
  BY ElementOfSeq
<1>2. /\ b \in Seq(Byte) /\ Len(b) = 2 * n
      /\ \A j \in 1..n : b[j] = p[j]
      /\ \A j \in 1..(2 * n) : b[j] \in Byte
  BY ConcatProperties, ElementOfSeq
<1>3. \A j \in 1..(2 * n) : hex(j) \in Byte
  <2> SUFFICES ASSUME NEW j \in 1..(2 * n) PROVE hex(j) \in Byte
    OBVIOUS
  <2>1. (j + 1) \div 2 \in 1..n
    BY <1>1
  <2>2. PICK c \in Byte : c = p[(j + 1) \div 2]
    BY <1>1, <2>1
  <2>3. c \div 16 \in 0..15 /\ c % 16 \in 0..15
    BY Halves
  <2>4. Digit(c \div 16) \in Byte /\ Digit(c % 16) \in Byte
    BY <2>3, DigitValues
  <2> HIDE DEF Digit
  <2> QED BY <2>2, <2>4
<1> HIDE DEF n, b
<1>4. \A i \in 0..n : made(i) \in Seq(Byte) /\ Len(made(i)) = 2 * n
  <2> SUFFICES ASSUME NEW i \in 0..n PROVE made(i) \in Seq(Byte) /\ Len(made(i)) = 2 * n
    OBVIOUS
  <2> HIDE DEF hex
  <2>1. \A j \in 1..(2 * n) : (IF j > 2 * (n - i) THEN hex(j) ELSE b[j]) \in Byte
    BY <1>2, <1>3
  <2>2. made(i) \in [1..(2 * n) -> Byte]
    BY <2>1
  <2> QED BY <1>1, <2>2
<1>5. made(0) = b
  <2> HIDE DEF hex
  <2>1. \A j \in 1..(2 * n) : made(0)[j] = b[j]
    BY <1>1
  <2> QED BY <1>1, <1>2, <2>1
<1>6. ASSUME NEW i \in 1..n
      PROVE  Spread(n - i)[made(i - 1)] = made(i)
  <2> DEFINE q == made(i - 1)
             k == n - i
  <2>1. q \in Seq(Byte) /\ i - 1 \in 0..n
    <3>1. i - 1 \in 0..n
      BY <1>1
    <3> HIDE DEF made
    <3> QED BY <1>4, <3>1
  <2>2. k \in 0..(n - 1) /\ n - (i - 1) = k + 1 /\ n \in Nat
    BY <1>1
  <2>3. PICK c \in Byte : c = p[k + 1]
    BY <1>1, <2>2
  <2>4. q[k + 1] = c
    <3>1. k + 1 \in 1..(2 * n) /\ ~(k + 1 > 2 * (k + 1)) /\ k + 1 \in 1..n
      BY <2>2
    <3> HIDE DEF hex, k
    <3> QED BY <1>2, <2>2, <2>3, <3>1
  <2>5. hex(2 * k + 1) = Digit(c \div 16) /\ hex(2 * k + 2) = Digit(c % 16)
    <3>1. /\ (2 * k + 1) % 2 = 1 /\ ((2 * k + 1) + 1) \div 2 = k + 1
          /\ (2 * k + 2) % 2 = 0 /\ ((2 * k + 2) + 1) \div 2 = k + 1
      BY <2>2
    <3> HIDE DEF k, Digit
    <3> QED BY <2>3, <3>1
  <2>6. Spread(k)[q] = LET low == [q EXCEPT ![2 * k + 2] = Digit(q[k + 1] % 16)]
                       IN [low EXCEPT ![2 * k + 1] = Digit(low[k + 1] \div 16)]
    <3> HIDE DEF q, k, Digit
    <3> QED BY <2>1 DEF Spread, Byte
  <2> DEFINE low == [q EXCEPT ![2 * k + 2] = Digit(c % 16)]
  <2>7. low[k + 1] = c
    <3>1. k + 1 # 2 * k + 2
      BY <2>2
    <3> HIDE DEF q, k, Digit
    <3> QED BY <2>4, <3>1
  <2>8. Spread(k)[q] = [low EXCEPT ![2 * k + 1] = Digit(c \div 16)]
    <3> HIDE DEF q, k, Digit
    <3> QED BY <2>4, <2>6, <2>7
  <2>9. Spread(k)[q] = [j \in 1..(2 * n) |-> IF j = 2 * k + 1 THEN hex(2 * k + 1)
                                             ELSE IF j = 2 * k + 2 THEN hex(2 * k + 2) ELSE q[j]]
    <3>1. DOMAIN q = 1..(2 * n) /\ 2 * k + 1 # 2 * k + 2
      BY <2>2
    <3> HIDE DEF q, k, Digit, hex
    <3> QED BY <2>5, <2>8, <3>1
  <2>10. \A j \in 1..(2 * n) :
           (IF j = 2 * k + 1 THEN hex(2 * k + 1)
            ELSE IF j = 2 * k + 2 THEN hex(2 * k + 2) ELSE q[j])
             = IF j > 2 * (n - i) THEN hex(j) ELSE b[j]
    <3> SUFFICES ASSUME NEW j \in 1..(2 * n)
                 PROVE  (IF j = 2 * k + 1 THEN hex(2 * k + 1)
                         ELSE IF j = 2 * k + 2 THEN hex(2 * k + 2) ELSE q[j])
                          = IF j > 2 * k THEN hex(j) ELSE b[j]
      OBVIOUS
    <3>1. j > 2 * k <=> j = 2 * k + 1 \/ j = 2 * k + 2 \/ j > 2 * (k + 1)
      BY <2>2
    <3>2. q[j] = IF j > 2 * (k + 1) THEN hex(j) ELSE b[j]
      <4> HIDE DEF k, hex
      <4> QED BY <2>2
    <3> HIDE DEF q, k, hex
    <3> QED BY <3>1, <3>2
  <2> HIDE DEF q, hex
  <2>11. Spread(k)[q] = made(i)
    BY <2>9, <2>10
  <2> QED BY <2>11 DEF q
<1> DEFINE after == CHOOSE g : g = [i \in 0..n |-> IF i = 0 THEN b ELSE Spread(n - i)[g[i - 1]]]
           f == [i \in 0..n |-> made(i)]
<1>7. f = [i \in 0..n |-> IF i = 0 THEN b ELSE Spread(n - i)[f[i - 1]]]
  <2> HIDE DEF made
  <2>1. \A i \in 1..n : f[i] = Spread(n - i)[f[i - 1]]
    BY <1>1, <1>6
  <2>2. f[0] = b
    BY <1>1, <1>5
  <2>3. f = [i \in 0..n |-> f[i]] /\ \A i \in 0..n : i # 0 => i \in 1..n
    BY <1>1
  <2> HIDE DEF f
  <2>4. \A i \in 0..n : f[i] = IF i = 0 THEN b ELSE Spread(n - i)[f[i - 1]]
    BY <2>1, <2>2, <2>3
  <2> QED BY <2>3, <2>4
<1>8. after = [i \in 0..n |-> IF i = 0 THEN b ELSE Spread(n - i)[after[i - 1]]]
  <2> HIDE DEF f
  <2> QED BY <1>7, Zenon
<1>9. \A i \in Nat : i <= n => after[i] = made(i)
  <2> DEFINE Same == {i \in Nat : i <= n => after[i] = made(i)}
  <2> HIDE DEF made, after
  <2>1. 0 \in Same
    BY <1>1, <1>5, <1>8
  <2>2. ASSUME NEW i \in Nat, i \in Same PROVE i + 1 \in Same
    <3> SUFFICES ASSUME i + 1 <= n PROVE after[i + 1] = made(i + 1)
      OBVIOUS
    <3>1. i + 1 \in 1..n /\ (i + 1) - 1 = i /\ after[i] = made(i)
      BY <1>1, <2>2
    <3>2. after[i + 1] = Spread(n - (i + 1))[after[(i + 1) - 1]]
      BY <1>1, <1>8, <3>1
    <3> QED BY <1>6, <3>1, <3>2
  <2>3. Nat \subseteq Same
    <3> HIDE DEF Same
    <3> QED BY <2>1, <2>2, Induct
  <2> QED BY <2>3
<1>10. Btox(p) = after[n]
  BY Zenon DEF Btox, n, b
<1>11. made(n) = [j \in 1..(2 * n) |-> hex(j)]
  <2> HIDE DEF hex
  <2>1. \A j \in 1..(2 * n) : j > 2 * (n - n)
    BY <1>1
  <2> QED BY <2>1
<1>12. Btox(p) = [j \in 1..(2 * n) |-> hex(j)]
  <2> HIDE DEF after, made
  <2> QED BY <1>1, <1>9, <1>10, <1>11
<1> QED BY <1>12, Zenon DEF n

(* The places of the digits of byte i.                                     *)
LEMMA DigitPlaces ==
  ASSUME NEW i \in Nat
  PROVE  /\ (2 * i - 1) % 2 = 1 /\ (2 * i) % 2 = 0
         /\ ((2 * i - 1) + 1) \div 2 = i /\ ((2 * i) + 1) \div 2 = i
<1>1. (2 * i - 1) % 2 = 1
  OBVIOUS
<1>2. (2 * i) % 2 = 0
  OBVIOUS
<1>3. ((2 * i - 1) + 1) \div 2 = i
  OBVIOUS
<1>4. ((2 * i) + 1) \div 2 = i
  OBVIOUS
<1> QED BY <1>1, <1>2, <1>3, <1>4

(* A client has back the bytes that btox has made digits of.               *)
LEMMA ClientReads ==
  ASSUME NEW s \in Seq(Byte)
  PROVE  ClientBytes(Btox(s)) = s
<1> DEFINE n == Len(s)
           hex(j) == Digit(IF j % 2 = 1 THEN s[(j + 1) \div 2] \div 16 ELSE s[(j + 1) \div 2] % 16)
           b == Btox(s)
<1>1. n \in Nat /\ s = [i \in 1..n |-> s[i]] /\ \A i \in 1..n : s[i] \in Byte
  BY ElementOfSeq
<1>2. b = [j \in 1..(2 * n) |-> hex(j)]
  BY BtoxIs, Zenon DEF n
<1>3. Len(b) = 2 * n
  <2> HIDE DEF b, hex, n
  <2>1. DOMAIN b = 1..(2 * n) /\ 2 * n \in Nat
    BY <1>1, <1>2
  <2>2. b \in Seq({hex(j) : j \in 1..(2 * n)})
    BY <1>2, <2>1
  <2> QED BY <2>1, <2>2
<1>4. ASSUME NEW i \in 1..n
      PROVE  16 * Value(b[2 * i - 1]) + Value(b[2 * i]) = s[i]
  <2>1. /\ 2 * i - 1 \in 1..(2 * n) /\ 2 * i \in 1..(2 * n)
        /\ (2 * i - 1) % 2 = 1 /\ ((2 * i - 1) + 1) \div 2 = i
        /\ (2 * i) % 2 = 0 /\ ((2 * i) + 1) \div 2 = i
    <3>1. i \in Nat /\ 2 * i - 1 \in 1..(2 * n) /\ 2 * i \in 1..(2 * n)
      BY <1>1
    <3> QED BY <3>1, DigitPlaces
  <2>2. PICK c \in Byte : c = s[i]
    BY <1>1
  <2>3. hex(2 * i - 1) = Digit(c \div 16) /\ hex(2 * i) = Digit(c % 16)
    <3> HIDE DEF n, b
    <3> QED BY <2>1, <2>2
  <2>4. b[2 * i - 1] = Digit(c \div 16) /\ b[2 * i] = Digit(c % 16)
    <3> HIDE DEF n, b, hex
    <3> QED BY <1>2, <2>1, <2>3
  <2>5. Value(Digit(c \div 16)) = c \div 16 /\ Value(Digit(c % 16)) = c % 16
    BY Halves, DigitValues
  <2>6. 16 * (c \div 16) + (c % 16) = c
    BY Halves
  <2> HIDE DEF b, n, hex
  <2> QED BY <2>2, <2>4, <2>5, <2>6
<1>5. Len(b) \div 2 = n
  <2> HIDE DEF b, n
  <2> QED BY <1>1, <1>3
<1>6. ClientBytes(b) = [i \in 1..n |-> 16 * Value(b[2 * i - 1]) + Value(b[2 * i])]
  <2> HIDE DEF b, n
  <2> QED BY <1>5 DEF ClientBytes
<1> HIDE DEF b, n, hex
<1>7. ClientBytes(b) = s
  BY <1>1, <1>4, <1>6
<1> QED BY <1>7 DEF b

(* And the file gets the bytes a client has made digits of.                *)
LEMMA ClientWrites ==
  ASSUME NEW s \in Seq(Byte)
  PROVE  Xtob(ClientHex(s)) = s
<1> DEFINE n == Len(s)
           digit(d) == IF d < 10 THEN 48 + d ELSE 87 + d
           hex == [j \in 1..(2 * n) |->
                     digit(IF j % 2 = 1 THEN s[(j + 1) \div 2] \div 16 ELSE s[(j + 1) \div 2] % 16)]
<1>1. n \in Nat /\ s = [i \in 1..n |-> s[i]] /\ \A i \in 1..n : s[i] \in Byte
  BY ElementOfSeq
<1>2. \A d \in 0..15 : digit(d) \in Byte /\ IsXdigit(digit(d)) /\ Value(digit(d)) = d
  BY DigitValues, Zenon
<1> HIDE DEF digit
<1>3. ASSUME NEW j \in 1..(2 * n)
      PROVE  hex[j] \in Byte /\ IsXdigit(hex[j])
  <2>1. (j + 1) \div 2 \in 1..n
    BY <1>1
  <2>2. PICK c \in Byte : c = s[(j + 1) \div 2]
    BY <1>1, <2>1
  <2>3. c \div 16 \in 0..15 /\ c % 16 \in 0..15
    BY Halves
  <2>4. hex[j] = digit(c \div 16) \/ hex[j] = digit(c % 16)
    <3> HIDE DEF n
    <3> QED BY <2>2
  <2> QED BY <1>2, <2>3, <2>4
<1>4. ASSUME NEW i \in 1..n
      PROVE  16 * Value(hex[2 * i - 1]) + Value(hex[2 * i]) = s[i]
  <2>1. /\ 2 * i - 1 \in 1..(2 * n) /\ 2 * i \in 1..(2 * n)
        /\ (2 * i - 1) % 2 = 1 /\ ((2 * i - 1) + 1) \div 2 = i
        /\ (2 * i) % 2 = 0 /\ ((2 * i) + 1) \div 2 = i
    <3>1. i \in Nat /\ 2 * i - 1 \in 1..(2 * n) /\ 2 * i \in 1..(2 * n)
      BY <1>1
    <3> QED BY <3>1, DigitPlaces
  <2>2. PICK c \in Byte : c = s[i]
    BY <1>1
  <2>3. hex[2 * i - 1] = digit(c \div 16) /\ hex[2 * i] = digit(c % 16)
    <3> HIDE DEF n
    <3> QED BY <2>1, <2>2
  <2>4. Value(digit(c \div 16)) = c \div 16 /\ Value(digit(c % 16)) = c % 16
    BY <1>2, Halves
  <2>5. 16 * (c \div 16) + (c % 16) = c
    BY Halves
  <2> HIDE DEF hex, n
  <2> QED BY <2>2, <2>3, <2>4, <2>5
<1>5. hex \in Seq(Byte) /\ Len(hex) = 2 * n
  <2> DEFINE e(j) == digit(IF j % 2 = 1 THEN s[(j + 1) \div 2] \div 16 ELSE s[(j + 1) \div 2] % 16)
  <2>1. hex = [j \in 1..(2 * n) |-> e(j)]
    OBVIOUS
  <2>2. \A j \in 1..(2 * n) : hex[j] = e(j)
    OBVIOUS
  <2> HIDE DEF hex, e, n
  <2>3. hex \in [1..(2 * n) -> Byte] /\ 2 * n \in Nat
    BY <1>1, <1>3, <2>1, <2>2
  <2> QED BY <2>3
<1>6. ClientHex(s) = <<>> \o hex
  BY Zenon DEF ClientHex, digit, hex, n
<1>7. <<>> \o hex = hex
  <2> HIDE DEF hex
  <2> QED BY <1>5
<1> HIDE DEF hex, n
<1>8. Xtob(hex) = [i \in 1..n |-> 16 * Value(hex[2 * i - 1]) + Value(hex[2 * i])]
  BY <1>1, <1>3, <1>5, XtobIs
<1>9. Xtob(hex) = s
  BY <1>1, <1>4, <1>8
<1> QED BY <1>6, <1>7, <1>9

(* Whatever the kind of the file, what comes to it is what the client put. *)
LEMMA TranslatedIs ==
  ASSUME NEW s \in Seq(Byte)
  PROVE  Translated(s) = s
BY ClientWrites DEF Translated

(* st[i] is how many bytes of the file the first i records are, each with  *)
(* an end of e bytes.                                                      *)
LaidOut(st, recs, e) ==
  /\ st \in [0..Len(recs) -> Nat] /\ st[0] = 0
  /\ \A i \in 1..Len(recs) : st[i] = st[i - 1] + Len(recs[i]) + e

(* The bytes f are those of the records, less the bytes t of the last one  *)
(* and its end.                                                            *)
FileOf(f, st, recs, t, e) ==
  /\ Len(f) = st[Len(recs)] - (IF t = <<>> THEN 0 ELSE Len(t) + e)
  /\ \A i \in 1..Len(recs) : \A j \in 1..Len(recs[i]) :
       st[i - 1] + j <= Len(f) => f[st[i - 1] + j] = recs[i][j]
  /\ e = 1 => \A i \in 1..Len(recs) : st[i] <= Len(f) => f[st[i]] = CR

RestOf(t, recs) ==
  t # <<>> =>
    /\ Len(recs) > 0 /\ Len(t) <= Len(recs[Len(recs)])
    /\ \A j \in 1..Len(t) : t[j] = recs[Len(recs)][Len(recs[Len(recs)]) - Len(t) + j]

(* g is f with the bytes d put behind it, and an end of e bytes.           *)
PutTo(f, g, d, e) ==
  /\ g \in Seq(Byte) /\ Len(g) = Len(f) + Len(d) + e
  /\ \A x \in 1..Len(f) : g[x] = f[x]
  /\ \A x \in 1..Len(d) : g[Len(f) + x] = d[x]
  /\ e = 1 => g[Len(g)] = CR

(* What is between two places of a sequence.                               *)
LEMMA Between ==
  ASSUME NEW S, NEW s \in Seq(S), NEW a \in Nat, NEW b \in a..Len(s)
  PROVE  /\ SubSeq(s, a + 1, b) \in Seq(S) /\ Len(SubSeq(s, a + 1, b)) = b - a
         /\ \A x \in 1..(b - a) : SubSeq(s, a + 1, b)[x] = s[a + x]
<1>1. PICK n \in Nat : n = Len(s)
  OBVIOUS
<1>2. b \in Nat /\ a <= b /\ b <= n /\ a + 1 \in Int /\ b \in Int
  BY <1>1
<1>3. \A x \in 1..n : s[x] \in S
  BY <1>1, ElementOfSeq
<1>4. \A x \in (a + 1)..b : s[x] \in S
  BY <1>2, <1>3
<1>5. /\ SubSeq(s, a + 1, b) \in Seq(S)
      /\ Len(SubSeq(s, a + 1, b)) = IF a + 1 <= b THEN b - (a + 1) + 1 ELSE 0
      /\ \A x \in 1..(b - (a + 1) + 1) : SubSeq(s, a + 1, b)[x] = s[a + 1 + x - 1]
  BY <1>2, <1>4, SubSeqProperties
<1>6. /\ b - (a + 1) + 1 = b - a /\ (IF a + 1 <= b THEN b - (a + 1) + 1 ELSE 0) = b - a
      /\ \A x \in Int : a + 1 + x - 1 = a + x
  BY <1>2
<1> QED BY <1>5, <1>6

(* The two parts of a sequence.                                            *)
LEMMA CutInTwo ==
  ASSUME NEW S, NEW s \in Seq(S), NEW k \in 0..Len(s)
  PROVE  /\ SubSeq(s, 1, k) \in Seq(S) /\ Len(SubSeq(s, 1, k)) = k
         /\ \A x \in 1..k : SubSeq(s, 1, k)[x] = s[x]
         /\ SubSeq(s, k + 1, Len(s)) \in Seq(S) /\ Len(SubSeq(s, k + 1, Len(s))) = Len(s) - k
         /\ \A x \in 1..(Len(s) - k) : SubSeq(s, k + 1, Len(s))[x] = s[k + x]
<1>1. 0 \in Nat /\ k \in 0..Len(s) /\ k \in Nat /\ Len(s) \in k..Len(s) /\ 0 + 1 = 1
        /\ k - 0 = k /\ \A x \in 1..k : 0 + x = x
  OBVIOUS
<1>2. /\ SubSeq(s, 0 + 1, k) \in Seq(S) /\ Len(SubSeq(s, 0 + 1, k)) = k - 0
      /\ \A x \in 1..(k - 0) : SubSeq(s, 0 + 1, k)[x] = s[0 + x]
  BY <1>1, Between, Zenon
<1>3. /\ SubSeq(s, k + 1, Len(s)) \in Seq(S) /\ Len(SubSeq(s, k + 1, Len(s))) = Len(s) - k
      /\ \A x \in 1..(Len(s) - k) : SubSeq(s, k + 1, Len(s))[x] = s[k + x]
  BY <1>1, Between, Zenon
<1> QED BY <1>1, <1>2, <1>3

(* The types of it.                                                        *)
LEMMA Layouts ==
  ASSUME NEW recs \in Seq(Seq(Byte)), NEW e \in {0, 1}, NEW st, LaidOut(st, recs, e)
  PROVE  /\ Len(recs) \in Nat
         /\ \A i \in 0..Len(recs) : st[i] \in Nat
         /\ \A i \in 1..Len(recs) :
              /\ Len(recs[i]) \in Nat /\ st[i - 1] \in Nat /\ st[i] \in Nat
              /\ st[i] = st[i - 1] + Len(recs[i]) + e
<1>1. Len(recs) \in Nat /\ \A i \in 1..Len(recs) : recs[i] \in Seq(Byte)
  BY ElementOfSeq
<1>2. PICK n \in Nat : n = Len(recs)
  BY <1>1
<1>3. st \in [0..n -> Nat]
  BY <1>2, Zenon DEF LaidOut
<1>4. \A i \in 0..n : st[i] \in Nat
  BY <1>3
<1>5. \A i \in 1..n : i \in 0..n /\ i - 1 \in 0..n
  OBVIOUS
<1>6. \A i \in 1..n : st[i - 1] \in Nat /\ st[i] \in Nat
  BY <1>4, <1>5
<1>7. \A i \in 1..n : Len(recs[i]) \in Nat
  BY <1>1, <1>2
<1>8. \A i \in 1..n : st[i] = st[i - 1] + Len(recs[i]) + e
  BY <1>2, Zenon DEF LaidOut
<1> QED BY <1>1, <1>2, <1>4, <1>6, <1>7, <1>8

(* Records start in the order they were written.                           *)
LEMMA InOrder ==
  ASSUME NEW recs \in Seq(Seq(Byte)), NEW e \in {0, 1}, NEW st, LaidOut(st, recs, e)
  PROVE  \A k \in 0..Len(recs) : \A i \in 0..k : st[i] <= st[k]
<1> DEFINE n == Len(recs)
           S == {k \in Nat : k <= n => \A i \in 0..k : st[i] <= st[k]}
<1>1. n \in Nat /\ \A i \in 0..n : st[i] \in Nat
  BY Layouts
<1>2. \A i \in 1..n : st[i - 1] <= st[i]
  <2> SUFFICES ASSUME NEW i \in 1..n PROVE st[i - 1] <= st[i]
    OBVIOUS
  <2>1. st[i] = st[i - 1] + Len(recs[i]) + e /\ Len(recs[i]) \in Nat /\ st[i - 1] \in Nat
    BY Layouts
  <2> QED BY <2>1
<1> HIDE DEF n
<1>3. 0 \in S
  BY <1>1
<1>4. ASSUME NEW k \in Nat, k \in S PROVE k + 1 \in S
  <2> SUFFICES ASSUME k + 1 <= n, NEW i \in 0..(k + 1) PROVE st[i] <= st[k + 1]
    OBVIOUS
  <2>1. k + 1 \in 1..n /\ (k + 1) - 1 = k /\ k \in 0..n /\ k + 1 \in 0..n /\ i \in 0..n
    BY <1>1
  <2>2. st[k] <= st[k + 1] /\ st[k] \in Nat /\ st[k + 1] \in Nat /\ st[i] \in Nat
    BY <1>1, <1>2, <2>1
  <2>3. i # k + 1 => st[i] <= st[k]
    BY <1>1, <1>4
  <2> QED BY <2>2, <2>3
<1>5. Nat \subseteq S
  <2> HIDE DEF S
  <2> QED BY <1>3, <1>4, Induct
<1>6. \A k \in 0..n : k \in S
  BY <1>5
<1> QED BY <1>1, <1>6 DEF n

(* Records of one length start at its multiples.                           *)
LEMMA Multiples ==
  ASSUME NEW recs \in Seq(Seq(Byte)), NEW st, LaidOut(st, recs, 0), NEW m \in Nat,
         \A i \in 1..Len(recs) : Len(recs[i]) = m
  PROVE  \A i \in 0..Len(recs) : st[i] = i * m
<1> DEFINE n == Len(recs)
           S == {k \in Nat : k <= n => st[k] = k * m}
<1>1. n \in Nat /\ st[0] = 0 /\ \A i \in 1..n : st[i] = st[i - 1] + m
  <2>1. n \in Nat /\ \A i \in 0..n : st[i] \in Nat
    BY Layouts
  <2>2. \A i \in 1..n : st[i] = st[i - 1] + Len(recs[i]) + 0
    BY Layouts
  <2>3. \A i \in 1..n : i - 1 \in 0..n /\ Len(recs[i]) = m
    OBVIOUS
  <2> HIDE DEF n
  <2>4. \A i \in 1..n : st[i] = st[i - 1] + m
    BY <2>1, <2>2, <2>3
  <2> QED BY <2>1, <2>4 DEF LaidOut
<1> HIDE DEF n
<1>2. 0 \in S
  BY <1>1
<1>3. ASSUME NEW k \in Nat, k \in S PROVE k + 1 \in S
  <2> SUFFICES ASSUME k + 1 <= n PROVE st[k + 1] = (k + 1) * m
    OBVIOUS
  <2>1. k + 1 \in 1..n /\ (k + 1) - 1 = k
    BY <1>1
  <2>2. st[k + 1] = st[k] + m /\ st[k] = k * m
    BY <1>1, <1>3, <2>1
  <2>3. (k + 1) * m = k * m + m
    OBVIOUS
  <2> QED BY <2>2, <2>3
<1>4. Nat \subseteq S
  <2> HIDE DEF S
  <2> QED BY <1>2, <1>3, Induct
<1>5. \A k \in 0..n : k \in S
  BY <1>4
<1> QED BY <1>1, <1>5 DEF n

(* A part of the last record is put behind what the file holds of it.      *)
LEMMA PartPut ==
  ASSUME NEW recs \in Seq(Seq(Byte)), NEW e \in {0, 1}, NEW st, LaidOut(st, recs, e),
         NEW f \in Seq(Byte), NEW t \in Seq(Byte), t # <<>>, RestOf(t, recs),
         FileOf(f, st, recs, t, e),
         NEW k \in 1..Len(t), NEW data, data = SubSeq(t, 1, k),
         NEW u, u = SubSeq(t, k + 1, Len(t)),
         NEW v, v = (IF u = <<>> THEN e ELSE 0), NEW g, PutTo(f, g, data, v)
  PROVE  FileOf(g, st, recs, u, e) /\ RestOf(u, recs)
<1> DEFINE n == Len(recs)
<1>1. PICK l \in Nat : l = Len(recs[n])
  BY ElementOfSeq DEF RestOf
<1>2. PICK m \in Nat : m = Len(t)
  OBVIOUS
<1>3. n \in Nat /\ n > 0 /\ m > 0 /\ m <= l /\ k \in 1..m
  BY <1>1, <1>2, EmptySeq DEF RestOf
<1>4. /\ \A i \in 0..n : st[i] \in Nat
      /\ \A i \in 1..n :
           /\ Len(recs[i]) \in Nat /\ st[i - 1] \in Nat /\ st[i] \in Nat
           /\ st[i] = st[i - 1] + Len(recs[i]) + e
  BY Layouts
<1>5. PICK b \in Nat : b = st[n - 1]
  <2>1. n \in 1..n
    BY <1>3
  <2> QED BY <1>4, <2>1
<1>6. PICK z \in Nat : z = st[n] /\ z = b + l + e
  <2>1. n \in 1..n
    BY <1>3
  <2>2. st[n] \in Nat /\ st[n] = st[n - 1] + Len(recs[n]) + e
    BY <1>4, <2>1, Zenon
  <2> QED BY <1>1, <1>5, <2>2
<1>7. PICK y \in Nat : y = Len(f) /\ y = z - (m + e)
  BY <1>2, <1>6 DEF FileOf
<1>8. \A j \in 1..m : t[j] = recs[n][l - m + j]
  BY <1>1, <1>2 DEF RestOf
<1>9. Len(u) = m - k /\ (u = <<>> <=> k = m) /\ \A j \in 1..(m - k) : u[j] = t[k + j]
  <2>1. u \in Seq(Byte) /\ Len(u) = m - k /\ \A j \in 1..(m - k) : u[j] = t[k + j]
    <3>1. k \in 0..Len(t)
      OBVIOUS
    <3> QED BY <1>2, <3>1, CutInTwo
  <2>2. u = <<>> <=> Len(u) = 0
    BY <2>1, EmptySeq
  <2>3. m - k = 0 <=> k = m
    BY <1>3
  <2> QED BY <2>1, <2>2, <2>3
<1>10. \A i \in 1..n : i # n => st[i] <= b /\ st[i] \in Nat /\ st[i - 1] \in Nat
  <2> SUFFICES ASSUME NEW i \in 1..n, i # n
               PROVE  st[i] <= b /\ st[i] \in Nat /\ st[i - 1] \in Nat
    OBVIOUS
  <2>1. n - 1 \in 0..Len(recs) /\ i \in 0..(n - 1) /\ i \in 0..n /\ i - 1 \in 0..n
    BY <1>3
  <2>2. st[i] <= st[n - 1]
    BY <2>1, InOrder
  <2>3. st[i] \in Nat /\ st[i - 1] \in Nat
    BY <2>1 DEF LaidOut
  <2> QED BY <1>5, <2>2, <2>3
<1>11. \A i \in 1..n : \A j \in 1..Len(recs[i]) :
         i # n => st[i - 1] + j <= y /\ st[i - 1] + j \in 1..y
  <2> SUFFICES ASSUME NEW i \in 1..n, NEW j \in 1..Len(recs[i]), i # n
               PROVE  st[i - 1] + j <= y /\ st[i - 1] + j \in 1..y
    OBVIOUS
  <2>1. st[i] = st[i - 1] + Len(recs[i]) + e /\ Len(recs[i]) \in Nat
    BY <1>4, Zenon
  <2>2. st[i] <= b /\ st[i] \in Nat /\ st[i - 1] \in Nat
    BY <1>10
  <2>3. b <= y
    BY <1>3, <1>6, <1>7
  <2> HIDE DEF n
  <2>4. PICK a \in Nat, c \in Nat, d \in Nat : a = st[i - 1] /\ c = st[i] /\ d = Len(recs[i])
    BY <2>1, <2>2
  <2>5. c = a + d + e /\ c <= b /\ j \in 1..d
    BY <2>1, <2>2, <2>4
  <2>6. a + j <= y /\ a + j \in 1..y
    BY <2>3, <2>5
  <2> QED BY <2>4, <2>6
<1> DEFINE w == y + k + (IF k = m THEN e ELSE 0)
<1>12. Len(data) = k /\ \A x \in 1..k : data[x] = t[x]
  <2>1. k \in 0..Len(t)
    OBVIOUS
  <2> QED BY <2>1, CutInTwo
<1>13. v = (IF k = m THEN e ELSE 0)
  BY <1>9
<1>14. Len(g) = w
  BY <1>7, <1>12, <1>13 DEF PutTo
<1>15. (\A x \in 1..y : g[x] = f[x]) /\ (\A x \in 1..k : g[y + x] = t[x])
  BY <1>7, <1>12 DEF PutTo
<1>16. k = m /\ e = 1 => g[w] = CR
  BY <1>14, <1>13 DEF PutTo
<1>17. \A i \in 1..n : \A j \in 1..Len(recs[i]) :
         st[i - 1] + j <= w => g[st[i - 1] + j] = recs[i][j]
  <2> SUFFICES ASSUME NEW i \in 1..n, NEW j \in 1..Len(recs[i]), st[i - 1] + j <= w
               PROVE  g[st[i - 1] + j] = recs[i][j]
    OBVIOUS
  <2>1. CASE st[i - 1] + j <= y
    <3>1. st[i - 1] \in Nat /\ j \in Nat /\ j > 0
      <4>1. Len(recs[i]) \in Nat /\ st[i - 1] \in Nat
        BY <1>4
      <4> QED BY <4>1
    <3>2. f[st[i - 1] + j] = recs[i][j]
      BY <1>7, <2>1 DEF FileOf
    <3>3. st[i - 1] + j \in 1..Len(f)
      <4>1. PICK a \in Nat : a = st[i - 1]
        BY <3>1
      <4>2. a + j \in 1..y
        BY <2>1, <3>1, <4>1
      <4> QED BY <1>7, <4>1, <4>2
    <3> QED BY <1>7, <1>15, <3>2, <3>3
  <2>2. CASE ~(st[i - 1] + j <= y)
    <3>1. i = n
      BY <1>11, <2>2
    <3>2. j \in 1..l /\ b + j <= w /\ ~(b + j <= y)
      BY <1>1, <1>5, <2>2, <3>1
    <3>3. y = b + l - m /\ j - (l - m) \in 1..k /\ j - (l - m) \in 1..m
      BY <1>3, <1>6, <1>7, <3>2
    <3>4. PICK x \in 1..k : x = j - (l - m) /\ x \in 1..m
      BY <3>3
    <3>5. b + j = y + x /\ l - m + x = j
      BY <3>2, <3>3, <3>4
    <3>6. g[y + x] = t[x] /\ t[x] = recs[n][l - m + x]
      BY <1>8, <1>15, <3>4
    <3> QED BY <1>5, <3>1, <3>5, <3>6
  <2> QED BY <2>1, <2>2
<1>18. e = 1 => \A i \in 1..n : st[i] <= w => g[st[i]] = CR
  <2> SUFFICES ASSUME e = 1, NEW i \in 1..n, st[i] <= w PROVE g[st[i]] = CR
    OBVIOUS
  <2>1. CASE i = n
    <3>1. z <= w
      BY <1>6, <2>1
    <3>2. k = m /\ w = z
      BY <1>3, <1>6, <1>7, <3>1
    <3> QED BY <1>6, <1>16, <2>1, <3>2
  <2>2. CASE i # n
    <3>1. st[i] <= b /\ st[i] \in Nat /\ b <= y
      BY <1>3, <1>6, <1>7, <1>10, <2>2
    <3>2. st[i] = st[i - 1] + Len(recs[i]) + e /\ Len(recs[i]) \in Nat /\ st[i - 1] \in Nat
      BY <1>4
    <3>3. st[i] \in 1..Len(f) /\ st[i] <= Len(f)
      <4>1. PICK a \in Nat, c \in Nat, d \in Nat : a = st[i - 1] /\ c = st[i] /\ d = Len(recs[i])
        BY <3>1, <3>2
      <4>2. c = a + d + 1 /\ c <= y
        BY <3>1, <3>2, <4>1
      <4>3. c \in 1..y
        BY <4>2
      <4> QED BY <1>7, <4>1, <4>2, <4>3
    <3>4. f[st[i]] = CR
      BY <3>3 DEF FileOf
    <3> QED BY <1>7, <1>15, <3>3, <3>4
  <2> QED BY <2>1, <2>2
<1>19. w = st[n] - (IF u = <<>> THEN 0 ELSE Len(u) + e)
  <2>1. CASE k = m
    <3>1. w = z /\ u = <<>>
      BY <1>6, <1>7, <1>9, <2>1
    <3>2. st[n] = z - 0 + 0 /\ z = z - 0
      BY <1>6
    <3> HIDE DEF w, n
    <3> QED BY <3>1, <3>2
  <2>2. CASE k # m
    <3>1. w = z - ((m - k) + e)
      BY <1>3, <1>6, <1>7, <2>2
    <3>2. Len(u) = m - k /\ u # <<>>
      BY <1>9, <2>2
    <3> HIDE DEF w
    <3> QED BY <1>6, <3>1, <3>2
  <2> QED BY <2>1, <2>2
<1>20. RestOf(u, recs)
  <2> SUFFICES ASSUME u # <<>>
               PROVE  Len(u) <= l /\ \A j \in 1..Len(u) : u[j] = recs[n][l - Len(u) + j]
    BY <1>1, <1>3 DEF RestOf
  <2>1. Len(u) <= l
    BY <1>3, <1>9
  <2>2. ASSUME NEW j \in 1..Len(u) PROVE u[j] = recs[n][l - Len(u) + j]
    <3>1. PICK d \in Nat : d = Len(u) /\ d = m - k
      BY <1>9
    <3>2. j \in 1..d /\ d = m - k
      BY <3>1
    <3>3. j \in 1..(m - k) /\ k + j \in 1..m /\ l - m + (k + j) = l - d + j
      BY <1>3, <3>2
    <3>4. u[j] = t[k + j] /\ t[k + j] = recs[n][l - m + (k + j)]
      BY <1>8, <1>9, <3>3
    <3> QED BY <3>1, <3>3, <3>4
  <2> QED BY <2>1, <2>2
<1> HIDE DEF w
<1> QED BY <1>14, <1>17, <1>18, <1>19, <1>20 DEF FileOf

(* A record is added to a file that holds the others: all of it is still   *)
(* to be put, unless it is empty and just its end is.                      *)
LEMMA RecordAdded ==
  ASSUME NEW recs \in Seq(Seq(Byte)), NEW e \in {0, 1}, NEW st, LaidOut(st, recs, e),
         NEW f \in Seq(Byte), FileOf(f, st, recs, <<>>, e), NEW r \in Seq(Byte)
  PROVE  \E a :
           /\ LaidOut(a, Append(recs, r), e)
           /\ r # <<>> => FileOf(f, a, Append(recs, r), r, e) /\ RestOf(r, Append(recs, r))
           /\ \A g : r = <<>> /\ PutTo(f, g, r, e) => FileOf(g, a, Append(recs, r), <<>>, e)
<1>1. PICK n \in Nat : n = Len(recs)
  OBVIOUS
<1>2. PICK m \in Nat : m = Len(r)
  OBVIOUS
<1>3. /\ \A i \in 0..n : st[i] \in Nat
      /\ \A i \in 1..n :
           /\ Len(recs[i]) \in Nat /\ st[i - 1] \in Nat /\ st[i] \in Nat
           /\ st[i] = st[i - 1] + Len(recs[i]) + e
  BY <1>1, Layouts
<1>4. PICK q : q = Append(recs, r)
  OBVIOUS
<1>5. Len(q) = n + 1 /\ q[n + 1] = r /\ \A i \in 1..n : q[i] = recs[i]
  BY <1>1, <1>4
<1>6. PICK z \in Nat : z = st[n]
  BY <1>3
<1>7. Len(f) = z
  <2>1. Len(f) = st[n] - (IF <<>> = <<>> THEN 0 ELSE Len(<<>>) + e)
    BY <1>1, Zenon DEF FileOf
  <2>2. z - 0 = z
    OBVIOUS
  <2> QED BY <1>6, <2>1, <2>2
<1> DEFINE a == [i \in 0..(n + 1) |-> IF i <= n THEN st[i] ELSE z + m + e]
<1>8. /\ a[n] = z /\ a[n + 1] = z + m + e /\ a[0] = st[0]
      /\ \A i \in 1..n : a[i] = st[i] /\ a[i - 1] = st[i - 1]
      /\ a \in [0..(n + 1) -> Nat]
  <2>1. \A i \in 0..(n + 1) : i <= n => i \in 0..n
    OBVIOUS
  <2>2. \A i \in 0..n : st[i] \in Nat
    BY <1>3
  <2>3. z + m + e \in Nat
    BY <1>1, <1>2, <1>6
  <2>4. \A i \in 0..(n + 1) : (IF i <= n THEN st[i] ELSE z + m + e) \in Nat
    BY <2>1, <2>2, <2>3
  <2>5. a \in [0..(n + 1) -> Nat]
    BY <2>4
  <2>6. n \in 0..(n + 1) /\ n + 1 \in 0..(n + 1) /\ 0 \in 0..(n + 1) /\ n <= n /\ ~(n + 1 <= n) /\ 0 <= n
    BY <1>1
  <2>7. a[n] = z /\ a[n + 1] = z + m + e /\ a[0] = st[0]
    BY <1>6, <2>6
  <2>8. ASSUME NEW i \in 1..n PROVE a[i] = st[i] /\ a[i - 1] = st[i - 1]
    <3>1. i \in 0..(n + 1) /\ i - 1 \in 0..(n + 1) /\ i <= n /\ i - 1 <= n
      OBVIOUS
    <3> QED BY <3>1
  <2> QED BY <2>5, <2>7, <2>8
<1>9. \A i \in 1..(n + 1) : i \in 1..n \/ i = n + 1
  OBVIOUS
<1>10. (n + 1) - 1 = n /\ 0 \in 0..n /\ n + 1 \in 1..(n + 1)
  OBVIOUS
<1> HIDE DEF a
<1>11. LaidOut(a, q, e)
  <2>1. ASSUME NEW i \in 1..(n + 1) PROVE a[i] = a[i - 1] + Len(q[i]) + e
    <3>1. CASE i \in 1..n
      BY <1>3, <1>5, <1>8, <3>1
    <3>2. CASE i = n + 1
      <4>1. a[n + 1] = a[n] + Len(q[n + 1]) + e
        BY <1>2, <1>5, <1>8
      <4> QED BY <1>10, <3>2, <4>1
    <3> QED BY <1>9, <3>1, <3>2
  <2>2. a[0] = 0
    BY <1>8 DEF LaidOut
  <2> QED BY <1>5, <1>8, <2>1, <2>2 DEF LaidOut
<1>12. ASSUME NEW i \in 1..n, NEW j \in 1..Len(recs[i])
       PROVE  st[i - 1] + j \in 1..z /\ f[st[i - 1] + j] = recs[i][j]
  <2>1. st[i] <= z
    <3>1. n \in 0..Len(recs) /\ i \in 0..n
      BY <1>1
    <3> QED BY <1>6, <3>1, InOrder
  <2>2. PICK b \in Nat, c \in Nat, d \in Nat : b = st[i - 1] /\ c = st[i] /\ d = Len(recs[i])
    BY <1>3
  <2>3. c = b + d + e /\ c <= z /\ j \in 1..d
    BY <1>3, <2>1, <2>2
  <2>4. b + j \in 1..z /\ b + j <= z
    BY <2>3
  <2>5. f[b + j] = recs[i][j]
    BY <1>1, <1>7, <2>2, <2>4 DEF FileOf
  <2> QED BY <2>2, <2>4, <2>5
<1>13. ASSUME e = 1, NEW i \in 1..n PROVE st[i] \in 1..z /\ f[st[i]] = CR
  <2>1. st[i] <= z
    <3>1. n \in 0..Len(recs) /\ i \in 0..n
      BY <1>1
    <3> QED BY <1>6, <3>1, InOrder
  <2>2. PICK b \in Nat, c \in Nat, d \in Nat : b = st[i - 1] /\ c = st[i] /\ d = Len(recs[i])
    BY <1>3
  <2>3. c = b + d + 1 /\ c <= z
    BY <1>3, <1>13, <2>1, <2>2
  <2>4. c \in 1..z /\ c <= z
    BY <2>3
  <2>5. f[c] = CR
    BY <1>1, <1>7, <1>13, <2>2, <2>4 DEF FileOf
  <2> QED BY <2>2, <2>4, <2>5
<1>14. ASSUME r # <<>> PROVE FileOf(f, a, q, r, e) /\ RestOf(r, q)
  <2>1. m > 0
    BY <1>2, <1>14, EmptySeq
  <2>2. Len(f) = a[Len(q)] - (IF r = <<>> THEN 0 ELSE Len(r) + e)
    BY <1>2, <1>5, <1>7, <1>8, <1>14
  <2>3. ASSUME NEW i \in 1..(n + 1), NEW j \in 1..Len(q[i]), a[i - 1] + j <= z
        PROVE  f[a[i - 1] + j] = q[i][j]
    <3>1. i # n + 1
      <4> SUFFICES ASSUME i = n + 1 PROVE FALSE
        OBVIOUS
      <4>1. j \in 1..m /\ z + j <= z
        BY <1>2, <1>5, <1>8, <1>10, <2>3
      <4> QED BY <4>1
    <3>2. i \in 1..n
      BY <1>9, <3>1
    <3>3. q[i] = recs[i] /\ a[i - 1] = st[i - 1]
      BY <1>5, <1>8, <3>2
    <3> QED BY <1>12, <3>2, <3>3
  <2>4. ASSUME e = 1, NEW i \in 1..(n + 1), a[i] <= z PROVE f[a[i]] = CR
    <3>1. i # n + 1
      <4> SUFFICES ASSUME i = n + 1 PROVE FALSE
        OBVIOUS
      <4>1. z + m + 1 <= z
        BY <1>8, <2>4
      <4> QED BY <4>1
    <3>2. i \in 1..n
      BY <1>9, <3>1
    <3> QED BY <1>8, <1>13, <2>4, <3>2
  <2>5. FileOf(f, a, q, r, e)
    BY <1>5, <1>7, <2>2, <2>3, <2>4 DEF FileOf
  <2>6. \A j \in 1..m : m - m + j = j
    OBVIOUS
  <2>7. Len(q) > 0 /\ Len(r) <= Len(q[Len(q)])
    BY <1>2, <1>5
  <2>8. \A j \in 1..Len(r) : r[j] = q[Len(q)][Len(q[Len(q)]) - Len(r) + j]
    BY <1>2, <1>5, <2>6
  <2> QED BY <2>5, <2>7, <2>8 DEF RestOf
<1>15. ASSUME NEW g, r = <<>>, PutTo(f, g, r, e) PROVE FileOf(g, a, q, <<>>, e)
  <2>1. m = 0
    BY <1>2, <1>15
  <2>2. Len(g) = z + e /\ (\A x \in 1..z : g[x] = f[x]) /\ (e = 1 => g[Len(g)] = CR)
    <3>1. Len(g) = z + 0 + e /\ (\A x \in 1..z : g[x] = f[x]) /\ (e = 1 => g[Len(g)] = CR)
      BY <1>2, <1>7, <1>15, <2>1 DEF PutTo
    <3> QED BY <3>1
  <2>3. Len(g) = a[Len(q)] - (IF <<>> = <<>> THEN 0 ELSE Len(<<>>) + e)
    <3>1. a[Len(q)] = z + e /\ Len(g) = z + e
      BY <1>5, <1>8, <2>2, <2>1
    <3>2. z + e = (z + e) - 0
      OBVIOUS
    <3> QED BY <3>1, <3>2
  <2>4. ASSUME NEW i \in 1..(n + 1), NEW j \in 1..Len(q[i])
        PROVE  g[a[i - 1] + j] = q[i][j]
    <3>1. i # n + 1
      <4> SUFFICES ASSUME i = n + 1 PROVE FALSE
        OBVIOUS
      <4>1. j \in 1..0
        BY <1>2, <1>5, <2>1
      <4> QED BY <4>1
    <3>2. i \in 1..n
      BY <1>9, <3>1
    <3>3. q[i] = recs[i] /\ a[i - 1] = st[i - 1]
      BY <1>5, <1>8, <3>2
    <3> QED BY <1>12, <2>2, <3>2, <3>3
  <2>5. ASSUME e = 1, NEW i \in 1..(n + 1) PROVE g[a[i]] = CR
    <3>1. CASE i = n + 1
      BY <1>8, <2>2, <2>1, <2>5, <3>1
    <3>2. CASE i \in 1..n
      BY <1>8, <1>13, <2>2, <2>5, <3>2
    <3> QED BY <1>9, <3>1, <3>2
  <2> QED BY <1>5, <2>3, <2>4, <2>5 DEF FileOf
<1> QED BY <1>4, <1>11, <1>14, <1>15

(* The bytes of a record's end.                                            *)
RecordEnd == IF kind = "fixed" THEN 0 ELSE 1

(* Nothing has been got yet.                                               *)
Ungot == pos = 0 /\ part = <<>> /\ next = 1 /\ last = NoRecord /\ answer = "-"

(* The stream is as far into the record the client is reading as the       *)
(* client is; only records longer than the buffer are got in parts.        *)
Reads(st) ==
  /\ next <= Len(records) + 1
  /\ pos = st[next - 1] + Len(part)
  /\ part # <<>> => /\ next <= Len(records) /\ Len(part) < Len(records[next])
                    /\ kind = "fixed" /\ rl > SendBuf
  /\ \A j \in 1..Len(part) : part[j] = records[next][j]
  /\ answer = "e" => next = Len(records) + 1
  /\ last # NoRecord => last.index \in 1..Len(records) /\ last.bytes = records[last.index]

(* The file holds the records, and the client's and the stream's places    *)
(* in it are the same.                                                     *)
RecordsHeld ==
  \E st :
    /\ LaidOut(st, records, RecordEnd)
    /\ FileOf(file, st, records, todo, RecordEnd)
    /\ phase = "read" /\ Fits => Reads(st)

(* The inductive invariant.                                                *)
RecordsInv ==
  /\ RecordsTypeOK
  /\ next <= Len(records) + pos + 1
  /\ phase = "write" => Ungot
  /\ kind = "fixed" => \A i \in 1..Len(records) : Len(records[i]) = rl
  /\ kind = "text" => \A i \in 1..Len(records) : \A j \in 1..Len(records[i]) : records[i][j] # CR
  /\ kind # "variable" => RestOf(todo, records) /\ RecordsHeld
  /\ kind = "variable" => part = SubSeq(file, 1, pos) /\ (answer = "e" => pos = Len(file))

(* It holds at the start.                                                  *)
LEMMA RecordsStart == RecordsInit => RecordsInv
<1> SUFFICES ASSUME RecordsInit PROVE RecordsInv
  OBVIOUS
<1> USE DEF RecordsInit
<1>1. rl \in Lengths["fixed"] \cup {0} /\ (rl # 0 <=> kind = "fixed")
  <2>1. Lengths \in [Kinds -> SUBSET Nat] /\ 0 \notin Lengths["fixed"] /\ "fixed" \in Kinds
    BY RecordsAssumption DEF Kinds
  <2> QED BY <2>1
<1>2. Len(<<>>) = 0 /\ <<>> \in Seq(0..255) /\ <<>> \in Seq(Seq(Byte)) /\ <<>> \in Seq(Byte)
  OBVIOUS
<1>3. RecordsTypeOK
  <2>1. MaxRecords \in Nat /\ MaxSeeks \in Nat
    BY RecordsAssumption
  <2>2. last \in [index : Nat, bytes : Seq(0..255)]
    BY <1>2 DEF NoRecord
  <2>3. pos \in 0..Len(file) /\ next \in 1..(Len(records) + Len(file) + 1)
    BY <1>2
  <2>4. Len(records) <= MaxRecords /\ seeks \in 0..MaxSeeks
    BY <1>2, <2>1
  <2> QED BY <1>1, <1>2, <2>2, <2>3, <2>4 DEF RecordsTypeOK
<1>4. next <= Len(records) + pos + 1 /\ Ungot
  BY <1>2 DEF Ungot
<1>5. \A i \in 1..Len(records) : FALSE
  BY <1>2
<1>6. RestOf(todo, records)
  BY DEF RestOf
<1>7. RecordsHeld
  <2> DEFINE st == [i \in 0..0 |-> 0]
  <2>1. st \in [0..Len(records) -> Nat] /\ st[0] = 0 /\ st[Len(records)] = 0
    BY <1>2
  <2> HIDE DEF st
  <2>2. LaidOut(st, records, RecordEnd)
    BY <1>5, <2>1 DEF LaidOut
  <2>3. FileOf(file, st, records, todo, RecordEnd)
    BY <1>2, <1>5, <2>1 DEF FileOf
  <2>4. phase # "read"
    OBVIOUS
  <2> QED BY <2>2, <2>3, <2>4 DEF RecordsHeld
<1>8. part = SubSeq(file, 1, pos) /\ answer # "e"
  OBVIOUS
<1> HIDE DEF RecordsInit
<1> QED BY <1>3, <1>4, <1>5, <1>6, <1>7, <1>8 DEF RecordsInv

(* What a put does to the file.                                            *)
LEMMA PutBytes ==
  ASSUME RecordsTypeOK, NEW data \in Seq(Byte), NEW rest \in Seq(Byte), PutPart(data, rest)
  PROVE  PutTo(file, file', data, IF rest = <<>> THEN RecordEnd ELSE 0)
<1>1. data \in Seq(Byte) /\ \A x \in 1..Len(data) : data[x] \in Byte
  BY ElementOfSeq DEF Byte
<1>2. Translated(data) = data
  BY <1>1, TranslatedIs
<1>3. file \in Seq(Byte)
  BY DEF RecordsTypeOK, Byte
<1>4. PICK f : f = file'
  OBVIOUS
<1>5. CASE rest = <<>> /\ kind # "fixed"
  <2>1. f = file \o Append(data, CR)
    BY <1>2, <1>4, <1>5 DEF PutPart, Written
  <2>2. CR \in Byte
    BY DEF CR, Byte
  <2>3. /\ Append(data, CR) \in Seq(Byte) /\ Len(Append(data, CR)) = Len(data) + 1
        /\ \A x \in 1..Len(data) : Append(data, CR)[x] = data[x]
        /\ Append(data, CR)[Len(data) + 1] = CR
    BY <1>1, <2>2
  <2> DEFINE d == Append(data, CR)
  <2> HIDE DEF d
  <2>4. /\ d \in Seq(Byte) /\ Len(d) = Len(data) + 1 /\ f = file \o d
        /\ \A x \in 1..Len(data) : d[x] = data[x]
        /\ d[Len(data) + 1] = CR
    BY <2>1, <2>3 DEF d
  <2>5. /\ f \in Seq(Byte) /\ Len(f) = Len(file) + Len(d)
        /\ \A x \in 1..Len(file) : f[x] = file[x]
        /\ \A x \in 1..Len(d) : f[Len(file) + x] = d[x]
    <3>1. f = file \o d /\ d \in Seq(Byte)
      BY <2>4
    <3> QED BY <1>3, <3>1, ConcatProperties
  <2>6. Len(data) \in Nat /\ Len(file) \in Nat
    BY <1>1, <1>3
  <2>7. Len(f) = Len(file) + (Len(data) + 1) /\ f[Len(file) + (Len(data) + 1)] = CR
    BY <2>4, <2>5, <2>6
  <2>8. \A x \in 1..Len(data) : f[Len(file) + x] = data[x]
    BY <2>4, <2>5, <2>6
  <2>9. Len(f) = Len(file) + Len(data) + 1 /\ f[Len(f)] = CR
    BY <2>6, <2>7
  <2>10. (IF rest = <<>> THEN RecordEnd ELSE 0) = 1
    BY <1>5 DEF RecordEnd
  <2> QED BY <1>4, <2>5, <2>8, <2>9, <2>10 DEF PutTo
<1>6. CASE ~(rest = <<>> /\ kind # "fixed")
  <2>1. f = file \o data
    BY <1>2, <1>4, <1>6 DEF PutPart, Written
  <2>2. /\ f \in Seq(Byte) /\ Len(f) = Len(file) + Len(data)
        /\ \A x \in 1..Len(file) : f[x] = file[x]
        /\ \A x \in 1..Len(data) : f[Len(file) + x] = data[x]
    BY <1>1, <1>3, <2>1, ConcatProperties
  <2>3. Len(file) + Len(data) = Len(file) + Len(data) + 0
    BY <1>1, <1>3
  <2>4. (IF rest = <<>> THEN RecordEnd ELSE 0) = 0
    BY <1>6 DEF RecordEnd
  <2> QED BY <1>4, <2>2, <2>3, <2>4 DEF PutTo
<1> QED BY <1>5, <1>6

(* What a put leaves as it was.                                            *)
LEMMA PutKeeps ==
  ASSUME RecordsInv, NEW data \in Seq(Byte), NEW rest \in Seq(Byte), PutPart(data, rest),
         phase = "write", records' \in Seq(Seq(Byte)), Len(records') <= MaxRecords,
         Len(records) <= Len(records')
  PROVE  /\ RecordsTypeOK' /\ (next <= Len(records) + pos + 1)'
         /\ phase' = "write" /\ Ungot' /\ kind' = kind /\ rl' = rl /\ todo' = rest
         /\ (part = SubSeq(file, 1, pos))' /\ answer' # "e" /\ RecordEnd' = RecordEnd
<1>1. file' \in Seq(Byte)
  BY PutBytes DEF RecordsInv, PutTo
<1>2. /\ kind' = kind /\ rl' = rl /\ phase' = phase /\ todo' = rest /\ pos' = pos /\ part' = part
      /\ next' = next /\ last' = last /\ answer' = answer /\ seeks' = seeks
  BY DEF PutPart, reading
<1>3. Ungot' /\ pos' = 0 /\ part' = <<>> /\ next' = 1 /\ answer' = "-"
  BY <1>2 DEF RecordsInv, Ungot
<1>4. Len(file') \in Nat /\ Len(records') \in Nat
  BY <1>1
<1>5. (next <= Len(records) + pos + 1)' /\ (pos \in 0..Len(file))'
        /\ (next \in 1..(Len(records) + Len(file) + 1))'
  BY <1>3, <1>4
<1>6. SubSeq(file', 1, 0) = <<>>
  BY <1>1
<1>7. RecordsTypeOK'
  <2>1. RecordsTypeOK
    BY DEF RecordsInv
  <2> QED BY <1>1, <1>2, <1>5, <2>1 DEF RecordsTypeOK, Byte
<1> QED BY <1>2, <1>3, <1>5, <1>6, <1>7 DEF RecordEnd

(* The records the client writes.                                          *)
LEMMA RecordTypes ==
  ASSUME NEW k \in 1..MaxRecords, NEW x \in Kinds, NEW n \in Lengths[x]
  PROVE  /\ Record(k, n) \in Seq(Byte) /\ Len(Record(k, n)) = n
         /\ x = "text" => \A j \in 1..n : Record(k, n)[j] # CR
<1>1. Lengths[x] \in SUBSET Nat
  BY RecordsAssumption
<1>2. /\ Record(k, n) \in [1..n -> Byte] /\ n \in Nat
      /\ x = "text" => \A j \in 1..n : Record(k, n)[j] # CR
  BY <1>1, RecordsAssumption DEF Byte
<1> QED BY <1>2

(* The first put of a record.                                              *)
LEMMA FirstPut ==
  ASSUME RecordsInv, PutFirst
  PROVE  RecordsInv'
<1>1. RecordsTypeOK /\ phase = "write" /\ todo = <<>> /\ Len(records) < MaxRecords
  BY DEF RecordsInv, PutFirst
<1>2. /\ kind \in Kinds /\ records \in Seq(Seq(Byte)) /\ file \in Seq(Byte)
      /\ Len(records) \in Nat /\ Len(records) + 1 \in 1..MaxRecords /\ RecordEnd \in {0, 1}
  BY <1>1, RecordsAssumption DEF RecordsTypeOK, Byte, RecordEnd
<1>3. PICK n \in IF kind = "fixed" THEN {rl} ELSE Lengths[kind] :
        LET r == Record(Len(records) + 1, n) IN
        /\ records' = Append(records, r)
        /\ \E k \in 0..Len(r) : k <= PutBuf /\ (k = 0 => r = <<>>) /\ SplitAt(r, k)
  BY DEF PutFirst
<1>4. n \in Lengths[kind] /\ (kind = "fixed" => n = rl)
  BY <1>1, <1>3 DEF RecordsTypeOK
<1>5. PICK r \in Seq(Byte) : /\ r = Record(Len(records) + 1, n) /\ Len(r) = n
                             /\ kind = "text" => \A j \in 1..n : r[j] # CR
  BY <1>2, <1>4, RecordTypes
<1>6. records' = Append(records, r)
  BY <1>3, <1>5
<1>7. PICK k \in 0..Len(r) : (k = 0 => r = <<>>) /\ SplitAt(r, k)
  BY <1>3, <1>5
<1>8. PICK data \in Seq(Byte), rest \in Seq(Byte) :
        data = SubSeq(r, 1, k) /\ rest = SubSeq(r, k + 1, Len(r))
  <2>1. SubSeq(r, 1, k) \in Seq(Byte) /\ SubSeq(r, k + 1, Len(r)) \in Seq(Byte)
    BY <1>7, CutInTwo
  <2> QED BY <2>1
<1>9. PutPart(data, rest)
  BY <1>7, <1>8, Zenon DEF SplitAt
<1>10. /\ records' \in Seq(Seq(Byte)) /\ Len(records') = Len(records) + 1
       /\ records'[Len(records) + 1] = r
       /\ \A i \in 1..Len(records) : records'[i] = records[i]
  BY <1>2, <1>6
<1>11. Len(records') <= MaxRecords /\ Len(records) <= Len(records')
  BY <1>2, <1>10
<1>12. /\ RecordsTypeOK' /\ (next <= Len(records) + pos + 1)'
       /\ phase' = "write" /\ Ungot' /\ kind' = kind /\ rl' = rl /\ todo' = rest
       /\ (part = SubSeq(file, 1, pos))' /\ answer' # "e" /\ RecordEnd' = RecordEnd
  BY <1>1, <1>9, <1>10, <1>11, PutKeeps, Zenon
<1>13. kind = "fixed" => \A i \in 1..Len(records') : Len(records'[i]) = rl
  <2> SUFFICES ASSUME kind = "fixed", NEW i \in 1..Len(records') PROVE Len(records'[i]) = rl
    OBVIOUS
  <2>1. i \in 1..Len(records) \/ i = Len(records) + 1
    BY <1>2, <1>10
  <2>2. \A j \in 1..Len(records) : Len(records[j]) = rl
    BY DEF RecordsInv
  <2> QED BY <1>4, <1>5, <1>10, <2>1, <2>2
<1>14. kind = "text" =>
         \A i \in 1..Len(records') : \A j \in 1..Len(records'[i]) : records'[i][j] # CR
  <2> SUFFICES ASSUME kind = "text", NEW i \in 1..Len(records'), NEW j \in 1..Len(records'[i])
               PROVE  records'[i][j] # CR
    OBVIOUS
  <2>1. i \in 1..Len(records) \/ i = Len(records) + 1
    BY <1>2, <1>10
  <2>2. \A x \in 1..Len(records) : \A y \in 1..Len(records[x]) : records[x][y] # CR
    BY DEF RecordsInv
  <2>3. CASE i \in 1..Len(records)
    BY <1>10, <2>2, <2>3
  <2>4. CASE i = Len(records) + 1
    BY <1>5, <1>10, <2>4
  <2> QED BY <2>1, <2>3, <2>4
<1>15. ASSUME kind # "variable" PROVE RestOf(todo', records') /\ RecordsHeld'
  <2>1. PICK st : LaidOut(st, records, RecordEnd) /\ FileOf(file, st, records, <<>>, RecordEnd)
    BY <1>1, <1>15 DEF RecordsInv, RecordsHeld
  <2>2. PICK a :
           /\ LaidOut(a, records', RecordEnd)
           /\ r # <<>> => FileOf(file, a, records', r, RecordEnd) /\ RestOf(r, records')
           /\ \A g : r = <<>> /\ PutTo(file, g, r, RecordEnd)
                    => FileOf(g, a, records', <<>>, RecordEnd)
    BY <1>2, <1>5, <1>6, <2>1, RecordAdded
  <2>3. PutTo(file, file', data, IF rest = <<>> THEN RecordEnd ELSE 0)
    BY <1>1, <1>8, <1>9, PutBytes
  <2>4. FileOf(file', a, records', rest, RecordEnd) /\ RestOf(rest, records')
    <3>1. CASE r = <<>>
      <4>1. Len(r) = 0 /\ k = 0
        BY <1>7, <3>1
      <4>2. data = <<>> /\ rest = <<>>
        BY <1>8, <3>1, <4>1
      <4>3. PutTo(file, file', r, RecordEnd)
        BY <2>3, <3>1, <4>2
      <4>4. RestOf(<<>>, records')
        BY DEF RestOf
      <4> QED BY <2>2, <3>1, <4>2, <4>3, <4>4, Zenon
    <3>2. CASE r # <<>>
      <4>1. k \in 1..Len(r)
        BY <1>7, <3>2
      <4> QED BY <1>2, <1>5, <1>8, <1>10, <2>2, <2>3, <3>2, <4>1, PartPut, Zenon
    <3> QED BY <3>1, <3>2
  <2> QED BY <1>12, <2>2, <2>4 DEF RecordsHeld
<1> QED BY <1>12, <1>13, <1>15, <1>14 DEF RecordsInv

(* The next put of it.                                                     *)
LEMMA LaterPut ==
  ASSUME RecordsInv, PutNext
  PROVE  RecordsInv'
<1>1. RecordsTypeOK /\ phase = "write" /\ todo # <<>> /\ records' = records
  BY DEF RecordsInv, PutNext
<1>2. /\ records \in Seq(Seq(Byte)) /\ file \in Seq(Byte) /\ todo \in Seq(Byte)
      /\ Len(records) <= MaxRecords /\ Len(records) \in Nat /\ RecordEnd \in {0, 1}
  BY <1>1 DEF RecordsTypeOK, Byte, RecordEnd
<1>3. PICK k \in 1..Len(todo) : SplitAt(todo, k)
  BY DEF PutNext
<1>4. PICK data \in Seq(Byte), rest \in Seq(Byte) :
        data = SubSeq(todo, 1, k) /\ rest = SubSeq(todo, k + 1, Len(todo))
  <2>1. SubSeq(todo, 1, k) \in Seq(Byte) /\ SubSeq(todo, k + 1, Len(todo)) \in Seq(Byte)
    <3>1. k \in 0..Len(todo) /\ todo \in Seq(Byte)
      BY <1>2, <1>3
    <3> QED BY <3>1, CutInTwo
  <2> QED BY <2>1
<1>5. PutPart(data, rest)
  BY <1>3, <1>4, Zenon DEF SplitAt
<1>6. /\ RecordsTypeOK' /\ (next <= Len(records) + pos + 1)'
      /\ phase' = "write" /\ Ungot' /\ kind' = kind /\ rl' = rl /\ todo' = rest
      /\ (part = SubSeq(file, 1, pos))' /\ answer' # "e" /\ RecordEnd' = RecordEnd
  <2>1. /\ records' \in Seq(Seq(Byte)) /\ Len(records') <= MaxRecords
        /\ Len(records) <= Len(records')
    BY <1>1, <1>2
  <2> QED BY <1>1, <1>5, <2>1, PutKeeps, Zenon
<1>7. ASSUME kind # "variable" PROVE RestOf(todo', records') /\ RecordsHeld'
  <2>1. PICK st : LaidOut(st, records, RecordEnd) /\ FileOf(file, st, records, todo, RecordEnd)
    BY <1>1, <1>7 DEF RecordsInv, RecordsHeld
  <2>2. RestOf(todo, records)
    BY <1>7 DEF RecordsInv
  <2>3. PutTo(file, file', data, IF rest = <<>> THEN RecordEnd ELSE 0)
    BY <1>1, <1>4, <1>5, PutBytes
  <2>4. FileOf(file', st, records, rest, RecordEnd) /\ RestOf(rest, records)
    BY <1>1, <1>2, <1>3, <1>4, <2>1, <2>2, <2>3, PartPut, Zenon
  <2> QED BY <1>1, <1>6, <2>1, <2>4 DEF RecordsHeld
<1> QED BY <1>1, <1>6, <1>7 DEF RecordsInv

(* The file is opened for reading.                                         *)
LEMMA ReadyToRead ==
  ASSUME RecordsInv, Reopen
  PROVE  RecordsInv'
<1>1. /\ phase = "write" /\ todo = <<>> /\ phase' = "read" /\ todo' = todo
      /\ kind' = kind /\ rl' = rl /\ file' = file /\ records' = records /\ pos' = pos
      /\ part' = part /\ next' = next /\ last' = last /\ answer' = answer /\ seeks' = seeks
  BY DEF Reopen, reading
<1>2. RecordsTypeOK'
  BY <1>1 DEF RecordsInv, RecordsTypeOK
<1>3. pos = 0 /\ part = <<>> /\ next = 1 /\ last = NoRecord /\ answer = "-"
  BY <1>1 DEF RecordsInv, Ungot
<1>4. RecordEnd' = RecordEnd
  BY <1>1 DEF RecordEnd
<1>5. ASSUME kind # "variable" PROVE RecordsHeld'
  <2>1. PICK st : LaidOut(st, records, RecordEnd) /\ FileOf(file, st, records, todo, RecordEnd)
    BY <1>5 DEF RecordsInv, RecordsHeld
  <2>2. Reads(st)'
    <3>1. st[0] = 0 /\ Len(records) \in Nat
      BY <2>1 DEF LaidOut, RecordsInv, RecordsTypeOK
    <3>2. Len(<<>>) = 0 /\ 1 - 1 = 0 /\ 0 = 0 + 0 /\ 1 <= Len(records) + 1
      BY <3>1
    <3> QED BY <1>1, <1>3, <3>1, <3>2 DEF Reads
  <2> QED BY <1>1, <1>4, <2>1, <2>2 DEF RecordsHeld
<1> QED BY <1>1, <1>2, <1>5 DEF RecordsInv

(* The smaller of two numbers.                                             *)
LEMMA SmallerOf ==
  ASSUME NEW a \in Int, NEW b \in Int
  PROVE  Min({a, b}) = IF a <= b THEN a ELSE b
<1> DEFINE c == IF a <= b THEN a ELSE b
<1>1. c \in {a, b} /\ (\A y \in {a, b} : c <= y) /\ c \in Int
  OBVIOUS
<1>2. ASSUME NEW x \in {a, b}, \A y \in {a, b} : x <= y PROVE x = c
  <2>1. x <= c /\ c <= x /\ x \in Int
    BY <1>1, <1>2
  <2> HIDE DEF c
  <2> QED BY <1>1, <2>1
<1> HIDE DEF c
<1>3. (CHOOSE x \in {a, b} : \A y \in {a, b} : x <= y) = c
  BY <1>1, <1>2
<1> QED BY <1>3 DEF Min, c

(* Where the line the stream is in ends.                                   *)
LEMMA NextCRIs ==
  ASSUME file \in Seq(Byte), pos \in 0..Len(file)
  PROVE  /\ NextCR \in (pos + 1)..(Len(file) + 1)
         /\ NextCR <= Len(file) => file[NextCR] = CR
         /\ \A i \in (pos + 1)..Len(file) : file[i] = CR => NextCR <= i
<1> DEFINE ends == {i \in (pos + 1)..Len(file) : file[i] = CR}
<1>1. Len(file) \in Nat /\ pos \in Nat /\ pos <= Len(file)
  OBVIOUS
<1>2. NextCR = IF ends = {} THEN Len(file) + 1
               ELSE CHOOSE i \in ends : \A j \in ends : i <= j
  BY Zenon DEF NextCR
<1>3. CASE ends = {}
  <2>1. NextCR = Len(file) + 1
    BY <1>2, <1>3
  <2>2. \A i \in (pos + 1)..Len(file) : file[i] # CR
    BY <1>3
  <2> QED BY <1>1, <2>1, <2>2
<1>4. CASE ends # {}
  <2>1. ends \in SUBSET Nat
    BY <1>1
  <2>2. \E i \in ends : \A j \in ends : i <= j
    <3> HIDE DEF ends
    <3> QED BY <1>4, <2>1, Least
  <2>3. NextCR \in ends /\ \A j \in ends : NextCR <= j
    <3> HIDE DEF ends
    <3> QED BY <1>2, <1>4, <2>2
  <2>4. NextCR \in (pos + 1)..Len(file) /\ file[NextCR] = CR
    BY <2>3
  <2>5. \A i \in (pos + 1)..Len(file) : file[i] = CR => NextCR <= i
    BY <2>3
  <2> HIDE DEF ends
  <2> QED BY <1>1, <2>4, <2>5
<1> QED BY <1>3, <1>4

(* Quotient and remainder.                                                 *)
LEMMA Remainders ==
  ASSUME NEW x \in Nat, NEW m \in Nat \ {0}
  PROVE  x \div m \in Nat /\ x % m \in 0..(m - 1) /\ x = (x \div m) * m + (x % m)
OBVIOUS

LEMMA RemainderIs ==
  ASSUME NEW a \in Nat, NEW m \in Nat \ {0}, NEW o \in 0..(m - 1)
  PROVE  (a * m + o) \div m = a /\ (a * m + o) % m = o
<1>1. PICK q \in Nat, s \in 0..(m - 1) :
        q = (a * m + o) \div m /\ s = (a * m + o) % m /\ a * m + o = q * m + s
  <2>1. a * m + o \in Nat
    OBVIOUS
  <2> QED BY <2>1, Remainders
<1>2. (q - a) * m = o - s
  BY <1>1
<1>3. \A d \in Int : (d > 0 => d * m >= m) /\ (d < 0 => d * m <= 0 - m)
  OBVIOUS
<1>4. q - a \in Int /\ o - s < m /\ o - s > 0 - m
  OBVIOUS
<1>5. q - a = 0
  BY <1>2, <1>3, <1>4
<1> QED BY <1>1, <1>2, <1>5

(* hostget asks for a byte at least.                                       *)
LEMMA CountPositive == RecordsTypeOK => ReadCount \in Nat \ {0}
<1> SUFFICES ASSUME RecordsTypeOK PROVE ReadCount \in Nat \ {0}
  OBVIOUS
<1>1. SendBuf \in Nat /\ SendBuf > 5 /\ pos \in Nat
  <2>1. pos \in 0..Len(file) /\ Len(file) \in Nat
    BY DEF RecordsTypeOK
  <2> QED BY <2>1, RecordsAssumption
<1>2. CASE kind # "fixed"
  BY <1>1, <1>2 DEF ReadCount
<1>3. CASE kind = "fixed"
  <2>1. rl \in Nat \ {0}
    <3>1. Lengths["fixed"] \in SUBSET Nat
      BY RecordsAssumption DEF Kinds
    <3> QED BY <1>3, <3>1 DEF RecordsTypeOK
  <2>2. CASE rl < SendBuf
    BY <1>3, <2>1, <2>2 DEF ReadCount
  <2>3. CASE ~(rl < SendBuf) /\ ~Crosses(SendBuf)
    BY <1>1, <1>3, <2>3 DEF ReadCount
  <2>4. CASE ~(rl < SendBuf) /\ Crosses(SendBuf)
    <3>1. PICK a \in Nat, o \in 0..(rl - 1) : o = pos % rl /\ pos = a * rl + o
      BY <1>1, <2>1, Remainders
    <3>2. PICK q \in Nat, s \in 0..(rl - 1) :
            q = (pos + SendBuf) \div rl /\ s = (pos + SendBuf) % rl /\ pos + SendBuf = q * rl + s
      <4>1. pos + SendBuf \in Nat
        BY <1>1
      <4> QED BY <2>1, <4>1, Remainders
    <3>3. s < o
      BY <2>4, <3>1, <3>2 DEF Crosses
    <3>4. (q - a) * rl = SendBuf + o - s /\ SendBuf + o - s > 0
      BY <1>1, <2>1, <3>1, <3>2, <3>3
    <3>5. \A d \in Int : (d * rl > 0 => d > 0) /\ (d > 0 => d * rl >= rl)
      BY <2>1
    <3>6. (q - a) * rl >= rl
      <4>1. q - a \in Int
        OBVIOUS
      <4> QED BY <3>4, <3>5, <4>1
    <3>7. q * rl - pos > 0 /\ q * rl - pos \in Int
      BY <1>1, <2>1, <3>1, <3>6
    <3>8. ReadCount = q * rl - pos
      BY <1>3, <2>4, <3>2 DEF ReadCount
    <3> QED BY <3>7, <3>8
  <2> QED BY <2>2, <2>3, <2>4
<1> QED BY <1>2, <1>3

(* Of a fixed record hostget asks for the bytes up to its end, and says so *)
(* then, or for fewer.                                                     *)
LEMMA CountInRecord ==
  ASSUME RecordsTypeOK, kind = "fixed", rl # SendBuf,
         NEW a \in Nat, NEW o \in 0..(rl - 1), pos = a * rl + o, rl < SendBuf => o = 0
  PROVE  /\ ReadCount \in 1..(rl - o)
         /\ EndOfRecord = IF ReadCount = rl - o THEN "z" ELSE "n"
         /\ ReadCount # rl - o => rl > SendBuf
<1>1. SendBuf \in Nat /\ SendBuf > 5
  BY RecordsAssumption
<1>2. rl \in Nat \ {0}
  <2>1. Lengths["fixed"] \in SUBSET Nat
    BY RecordsAssumption DEF Kinds
  <2> QED BY <2>1 DEF RecordsTypeOK
<1>3. CASE rl < SendBuf
  <2>1. ReadCount = rl /\ EndOfRecord = "z" /\ o = 0
    BY <1>3 DEF ReadCount, EndOfRecord
  <2> QED BY <1>2, <2>1
<1>4. CASE rl > SendBuf /\ o + SendBuf < rl
  <2>1. pos + SendBuf = a * rl + (o + SendBuf) /\ o + SendBuf \in 0..(rl - 1)
    BY <1>1, <1>2, <1>4
  <2>2. PICK w \in 0..(rl - 1) : w = o + SendBuf /\ pos + SendBuf = a * rl + w
    BY <2>1
  <2>3. (a * rl + w) % rl = w /\ (a * rl + o) % rl = o
    BY <1>2, <2>2, RemainderIs, Zenon
  <2>4. pos % rl = o /\ (pos + SendBuf) % rl = o + SendBuf
    BY <2>2, <2>3, Zenon
  <2>5. ~Crosses(SendBuf)
    BY <1>1, <2>4 DEF Crosses
  <2>6. ReadCount = SendBuf /\ EndOfRecord = "n"
    BY <1>1, <1>2, <1>4, <2>5 DEF ReadCount, EndOfRecord
  <2> QED BY <1>1, <1>2, <1>4, <2>6
<1>5. CASE rl > SendBuf /\ o + SendBuf >= rl
  <2>1. pos + SendBuf = (a + 1) * rl + (o + SendBuf - rl) /\ o + SendBuf - rl \in 0..(rl - 1)
    BY <1>1, <1>2, <1>5
  <2>2. /\ pos % rl = o /\ (pos + SendBuf) % rl = o + SendBuf - rl
        /\ (pos + SendBuf) \div rl = a + 1
    <3>1. PICK w \in 0..(rl - 1), b \in Nat :
            w = o + SendBuf - rl /\ b = a + 1 /\ pos + SendBuf = b * rl + w
      BY <2>1
    <3>2. (b * rl + w) % rl = w /\ (b * rl + w) \div rl = b /\ (a * rl + o) % rl = o
      BY <1>2, <3>1, RemainderIs, Zenon
    <3> QED BY <3>1, <3>2, Zenon
  <2>3. Crosses(SendBuf)
    BY <1>1, <1>2, <1>5, <2>2 DEF Crosses
  <2>4. ReadCount = (a + 1) * rl - pos /\ EndOfRecord = "z"
    BY <1>1, <1>2, <1>5, <2>2, <2>3 DEF ReadCount, EndOfRecord
  <2>5. ReadCount = rl - o
    BY <1>2, <2>4
  <2> QED BY <1>2, <2>4, <2>5
<1> QED BY <1>1, <1>2, <1>3, <1>4, <1>5

(* What every get and seek keeps.                                          *)
LEMMA ReadKeeps ==
  ASSUME RecordsInv, phase = "read",
         UNCHANGED <<kind, rl, phase, file, records, todo>>,
         pos' \in 0..Len(file), part' \in Seq(Byte), next' \in 1..(Len(records) + pos' + 1),
         last' \in [index : Nat, bytes : Seq(Byte)], answer' \in {"b", "e", "-"},
         seeks' \in 0..MaxSeeks,
         kind = "variable" => part' = SubSeq(file, 1, pos') /\ (answer' = "e" => pos' = Len(file)),
         NEW st,
         kind # "variable" =>
           LaidOut(st, records, RecordEnd) /\ FileOf(file, st, records, todo, RecordEnd),
         kind # "variable" /\ Fits => Reads(st)'
  PROVE  RecordsInv'
<1>1. /\ kind' = kind /\ rl' = rl /\ phase' = "read" /\ file' = file /\ records' = records
      /\ todo' = todo /\ RecordEnd' = RecordEnd
  BY DEF RecordEnd
<1>2. RecordsTypeOK'
  <2>1. RecordsTypeOK
    BY DEF RecordsInv
  <2>2. next' \in 1..(Len(records) + Len(file) + 1)
    <3>1. Len(records) \in Nat /\ Len(file) \in Nat
      BY <2>1 DEF RecordsTypeOK
    <3> QED BY <3>1
  <2> QED BY <1>1, <2>1, <2>2 DEF RecordsTypeOK, Byte
<1>3. (next <= Len(records) + pos + 1)'
  <2>1. Len(records) \in Nat /\ pos' \in Nat
    BY DEF RecordsInv, RecordsTypeOK
  <2> QED BY <1>1, <2>1
<1>4. kind = "fixed" => \A i \in 1..Len(records) : Len(records[i]) = rl
  BY DEF RecordsInv
<1>5. /\ kind # "variable" => RestOf(todo, records)
      /\ kind = "text" =>
           \A i \in 1..Len(records) : \A j \in 1..Len(records[i]) : records[i][j] # CR
  BY DEF RecordsInv
<1>6. Fits' = Fits
  BY <1>1 DEF Fits
<1>7. kind # "variable" => RecordsHeld'
  BY <1>1, <1>6 DEF RecordsHeld
<1> QED BY <1>1, <1>2, <1>3, <1>4, <1>5, <1>7 DEF RecordsInv

(* The places, as they are while the file is read.                         *)
LEMMA Places ==
  ASSUME RecordsInv, phase = "read", kind # "variable"
  PROVE  \E st :
           /\ LaidOut(st, records, RecordEnd) /\ FileOf(file, st, records, todo, RecordEnd)
           /\ Fits => Reads(st)
           /\ Len(file) = st[Len(records)] /\ st[0] = 0
           /\ \A i \in 0..Len(records) : st[i] \in 0..Len(file)
           /\ \A i \in 1..Len(records) :
                /\ records[i] \in Seq(Byte) /\ Len(records[i]) \in Nat
                /\ st[i] = st[i - 1] + Len(records[i]) + RecordEnd
                /\ \A j \in 1..Len(records[i]) : file[st[i - 1] + j] = records[i][j]
                /\ RecordEnd = 1 => file[st[i]] = CR
<1>1. PICK st : /\ LaidOut(st, records, RecordEnd) /\ FileOf(file, st, records, todo, RecordEnd)
                /\ Fits => Reads(st)
  BY DEF RecordsInv, RecordsHeld
<1>2. /\ records \in Seq(Seq(Byte)) /\ file \in Seq(Byte) /\ todo = <<>> /\ RecordEnd \in {0, 1}
  BY DEF RecordsInv, RecordsTypeOK, RecordEnd, Byte
<1>3. PICK n \in Nat : n = Len(records)
  BY <1>2
<1>4. /\ \A i \in 0..n : st[i] \in Nat
      /\ \A i \in 1..n : /\ Len(records[i]) \in Nat /\ st[i - 1] \in Nat /\ st[i] \in Nat
                         /\ st[i] = st[i - 1] + Len(records[i]) + RecordEnd
  BY <1>1, <1>2, <1>3, Layouts
<1>5. Len(file) = st[n]
  <2>1. Len(file) = st[n] - (IF <<>> = <<>> THEN 0 ELSE Len(<<>>) + RecordEnd)
    BY <1>1, <1>2, <1>3 DEF FileOf
  <2>2. st[n] \in Nat
    BY <1>4
  <2> QED BY <2>1, <2>2
<1>6. \A i \in 0..n : st[i] \in 0..Len(file)
  <2> SUFFICES ASSUME NEW i \in 0..n PROVE st[i] \in 0..Len(file)
    OBVIOUS
  <2>1. n \in 0..Len(records) /\ i \in 0..n /\ n \in 0..n
    BY <1>3
  <2>2. st[i] <= st[n]
    BY <1>1, <1>2, <2>1, InOrder
  <2> QED BY <1>4, <1>5, <2>1, <2>2
<1>7. ASSUME NEW i \in 1..n
      PROVE  /\ \A j \in 1..Len(records[i]) : file[st[i - 1] + j] = records[i][j]
             /\ RecordEnd = 1 => file[st[i]] = CR
  <2>1. i \in 0..n
    OBVIOUS
  <2>2. PICK b \in Nat, c \in Nat, d \in Nat : b = st[i - 1] /\ c = st[i] /\ d = Len(records[i])
    BY <1>4
  <2>3. c = b + d + RecordEnd /\ c <= Len(file)
    BY <1>4, <1>6, <2>1, <2>2
  <2>4. \A j \in 1..d : b + j <= Len(file)
    BY <1>2, <2>3
  <2>5. /\ \A j \in 1..Len(records[i]) :
             st[i - 1] + j <= Len(file) => file[st[i - 1] + j] = records[i][j]
        /\ RecordEnd = 1 => (st[i] <= Len(file) => file[st[i]] = CR)
    BY <1>1, <1>3, Zenon DEF FileOf
  <2> QED BY <2>2, <2>3, <2>4, <2>5
<1>8. st[0] = 0
  BY <1>1 DEF LaidOut
<1>9. \A i \in 1..n : records[i] \in Seq(Byte)
  BY <1>2, <1>3, ElementOfSeq
<1> QED BY <1>1, <1>3, <1>4, <1>5, <1>6, <1>7, <1>8, <1>9

(* The types of a get of text.                                             *)
LEMMA TextTypes ==
  ASSUME RecordsTypeOK, GetText, next <= Len(records) + pos + 1
  PROVE  /\ phase = "read" /\ kind = "text"
         /\ UNCHANGED <<kind, rl, phase, file, records, todo, seeks>>
         /\ pos' \in 0..Len(file) /\ part' \in Seq(Byte)
         /\ next' \in 1..(Len(records) + pos' + 1)
         /\ last' \in [index : Nat, bytes : Seq(Byte)] /\ answer' \in {"b", "e", "-"}
<1>1. /\ file \in Seq(Byte) /\ pos \in 0..Len(file) /\ part \in Seq(Byte) /\ Len(file) \in Nat
      /\ next \in Nat /\ next >= 1 /\ Len(records) \in Nat
      /\ last \in [index : Nat, bytes : Seq(Byte)]
  BY DEF RecordsTypeOK, Byte
<1>2. TextMax \in Nat /\ TextMax > 0
  BY RecordsAssumption DEF TextMax
<1>3. NextCR \in (pos + 1)..(Len(file) + 1)
  BY <1>1, NextCRIs
<1>4. \A b \in pos..Len(file) : SubSeq(file, pos + 1, b) \in Seq(Byte)
  BY <1>1, Between
<1>5. phase = "read" /\ kind = "text" /\ UNCHANGED <<kind, rl, phase, file, records, todo, seeks>>
  BY DEF GetText, Got, GotEof
<1> DEFINE read == NextCR - pos - 1
<1>6. CASE /\ read < TextMax /\ NextCR <= Len(file)
           /\ pos' = NextCR
           /\ Got(SubSeq(file, pos + 1, NextCR - 1), "z")
  <2>1. SubSeq(file, pos + 1, NextCR - 1) \in Seq(Byte)
    <3>1. NextCR - 1 \in pos..Len(file)
      BY <1>1, <1>3
    <3> QED BY <1>4, <3>1
  <2>2. PICK d \in Seq(Byte) : d = SubSeq(file, pos + 1, NextCR - 1)
    BY <2>1
  <2>3. /\ last' = [index |-> next, bytes |-> part \o d] /\ part' = <<>> /\ next' = next + 1
        /\ answer' = "b"
    BY <1>6, <2>2 DEF Got
  <2>4. part \o d \in Seq(Byte) /\ <<>> \in Seq(Byte)
    BY <1>1, <2>2, ConcatProperties
  <2>5. pos' \in 0..Len(file) /\ next' \in 1..(Len(records) + pos' + 1)
    BY <1>1, <1>3, <1>6, <2>3
  <2> QED BY <1>1, <1>5, <2>3, <2>4, <2>5
<1>7. CASE /\ read >= TextMax /\ pos + TextMax + 1 <= Len(file)
           /\ pos' = pos + TextMax + 1
           /\ Got(SubSeq(file, pos + 1, pos + TextMax), "n")
  <2>1. SubSeq(file, pos + 1, pos + TextMax) \in Seq(Byte)
    <3>1. pos + TextMax \in pos..Len(file)
      BY <1>1, <1>2, <1>7
    <3> QED BY <1>4, <3>1
  <2>2. PICK d \in Seq(Byte) : d = SubSeq(file, pos + 1, pos + TextMax)
    BY <2>1
  <2>3. part' = part \o d /\ last' = last /\ next' = next /\ answer' = "b"
    BY <1>7, <2>2 DEF Got
  <2>4. part \o d \in Seq(Byte)
    BY <1>1, <2>2, ConcatProperties
  <2>5. pos' \in 0..Len(file) /\ next' \in 1..(Len(records) + pos' + 1)
    BY <1>1, <1>2, <1>7, <2>3
  <2> QED BY <1>1, <1>5, <2>3, <2>4, <2>5
<1>8. CASE NextCR > Len(file) /\ pos + TextMax + 1 > Len(file) /\ pos' = Len(file) /\ GotEof
  <2>1. part' = part /\ last' = last /\ next' = next /\ answer' = "e"
    BY <1>8 DEF GotEof
  <2>2. pos' \in 0..Len(file) /\ next' \in 1..(Len(records) + pos' + 1)
    BY <1>1, <1>8, <2>1
  <2> QED BY <1>1, <1>5, <2>1, <2>2
<1> QED BY <1>6, <1>7, <1>8, Zenon DEF GetText

(* A get of text.                                                          *)
LEMMA TextGot ==
  ASSUME RecordsInv, answer # "e", GetText
  PROVE  RecordsInv'
<1>1. RecordsTypeOK /\ next <= Len(records) + pos + 1
  BY DEF RecordsInv
<1>2. /\ phase = "read" /\ kind = "text"
      /\ UNCHANGED <<kind, rl, phase, file, records, todo, seeks>>
      /\ pos' \in 0..Len(file) /\ part' \in Seq(Byte)
      /\ next' \in 1..(Len(records) + pos' + 1)
      /\ last' \in [index : Nat, bytes : Seq(Byte)] /\ answer' \in {"b", "e", "-"}
  BY <1>1, TextTypes
<1>3. PICK st :
         /\ LaidOut(st, records, RecordEnd) /\ FileOf(file, st, records, todo, RecordEnd)
         /\ Fits => Reads(st)
         /\ Len(file) = st[Len(records)] /\ st[0] = 0
         /\ \A i \in 0..Len(records) : st[i] \in 0..Len(file)
         /\ \A i \in 1..Len(records) :
              /\ records[i] \in Seq(Byte) /\ Len(records[i]) \in Nat
              /\ st[i] = st[i - 1] + Len(records[i]) + RecordEnd
              /\ \A j \in 1..Len(records[i]) : file[st[i - 1] + j] = records[i][j]
              /\ RecordEnd = 1 => file[st[i]] = CR
  <2>1. kind # "variable"
    BY <1>2
  <2> QED BY <1>2, <2>1, Places, Zenon
<1>4. /\ file \in Seq(Byte) /\ pos \in 0..Len(file) /\ part \in Seq(Byte) /\ Len(file) \in Nat
      /\ next \in Nat /\ next >= 1 /\ Len(records) \in Nat
  BY <1>1 DEF RecordsTypeOK, Byte
<1>5. RecordEnd = 1
  BY <1>2 DEF RecordEnd
<1>6. TextMax \in Nat /\ TextMax > 0
  BY RecordsAssumption DEF TextMax
<1>7. /\ NextCR \in (pos + 1)..(Len(file) + 1)
      /\ NextCR <= Len(file) => file[NextCR] = CR
      /\ \A i \in (pos + 1)..Len(file) : file[i] = CR => NextCR <= i
  BY <1>4, NextCRIs
<1>8. ASSUME Fits PROVE Reads(st)'
  <2>1. /\ next <= Len(records) + 1 /\ part = <<>> /\ pos = st[next - 1]
        /\ last # NoRecord => last.index \in 1..Len(records) /\ last.bytes = records[last.index]
    <3>1. Reads(st) /\ kind # "fixed"
      BY <1>2, <1>3, <1>8
    <3>2. part = <<>>
      BY <3>1 DEF Reads
    <3>3. pos = st[next - 1] + 0
      BY <3>1, <3>2 DEF Reads
    <3>4. st[next - 1] \in Nat
      <4>1. next - 1 \in 0..Len(records)
        BY <1>4, <3>1 DEF Reads
      <4> QED BY <1>3, <1>4, <4>1
    <3> QED BY <3>1, <3>2, <3>3, <3>4 DEF Reads
  <2>2. CASE next <= Len(records)
    <3>1. next \in 1..Len(records)
      BY <1>4, <2>2
    <3>2. PICK l \in Nat, e \in 0..Len(file) :
            l = Len(records[next]) /\ e = st[next] /\ e = pos + l + 1 /\ file[e] = CR
      <4>1. next \in 0..Len(records)
        BY <3>1
      <4> QED BY <1>3, <1>5, <2>1, <3>1, <4>1
    <3>3. \A j \in 1..l : file[pos + j] = records[next][j] /\ records[next][j] # CR
      <4>1. \A i \in 1..Len(records) : \A j \in 1..Len(records[i]) : records[i][j] # CR
        BY <1>2 DEF RecordsInv
      <4> QED BY <1>3, <2>1, <3>1, <3>2, <4>1
    <3>4. NextCR = e
      <4>1. NextCR <= e
        BY <1>4, <1>7, <3>2
      <4>2. ASSUME NextCR < e PROVE FALSE
        <5>1. PICK j \in 1..l : NextCR = pos + j
          <6>1. NextCR - pos \in 1..l /\ NextCR = pos + (NextCR - pos)
            BY <1>4, <1>7, <3>2, <4>2
          <6> QED BY <6>1
        <5>2. file[NextCR] = CR
          BY <1>7, <4>1, <3>2
        <5> QED BY <3>3, <5>1, <5>2
      <4> QED BY <1>4, <1>7, <3>2, <4>1, <4>2
    <3>5. l < TextMax
      BY <1>2, <1>8, <3>1, <3>2 DEF Fits
    <3>6. NextCR - pos - 1 = l /\ NextCR <= Len(file) /\ NextCR - 1 = pos + l
      BY <1>4, <3>2, <3>4
    <3>7. ~(NextCR - pos - 1 >= TextMax) /\ ~(NextCR > Len(file))
      <4>1. \A a, b \in Nat : (a < b => ~(a >= b)) /\ (a <= b => ~(a > b))
        OBVIOUS
      <4>2. NextCR \in Nat /\ NextCR <= Len(file)
        BY <1>4, <3>2, <3>4
      <4> QED BY <1>4, <1>6, <3>2, <3>5, <3>6, <4>1, <4>2
    <3>8. pos' = NextCR /\ Got(SubSeq(file, pos + 1, NextCR - 1), "z")
      BY <3>7, Zenon DEF GetText
    <3>9. SubSeq(file, pos + 1, pos + l) = records[next]
      <4>1. records[next] \in Seq(Byte)
        BY <1>3, <3>1
      <4>2. PICK r : r = records[next] /\ r \in Seq(Byte) /\ Len(r) = l
        BY <3>2, <4>1
      <4>3. PICK s : s = SubSeq(file, pos + 1, pos + l)
        OBVIOUS
      <4>4. pos + l \in pos..Len(file) /\ pos + l - pos = l /\ pos \in Nat
        BY <1>4, <3>2
      <4>5. s \in Seq(Byte) /\ Len(s) = l /\ \A i \in 1..l : s[i] = file[pos + i]
        <5>1. PICK b \in pos..Len(file) : b = pos + l /\ b - pos = l
          BY <4>4
        <5>2. /\ SubSeq(file, pos + 1, b) \in Seq(Byte) /\ Len(SubSeq(file, pos + 1, b)) = b - pos
              /\ \A i \in 1..(b - pos) : SubSeq(file, pos + 1, b)[i] = file[pos + i]
          BY <1>4, <4>4, <5>1, Between, Zenon
        <5>3. s = SubSeq(file, pos + 1, b)
          BY <4>3, <5>1, Zenon
        <5> QED BY <5>1, <5>2, <5>3, Zenon
      <4>6. \A i \in 1..l : s[i] = r[i]
        BY <3>3, <4>2, <4>5
      <4>7. s = r
        BY <4>2, <4>5, <4>6, SeqEqual
      <4> QED BY <4>2, <4>3, <4>7
    <3>10. /\ last' = [index |-> next, bytes |-> records[next]] /\ part' = <<>> /\ next' = next + 1
           /\ answer' = "b"
      <4>1. /\ last' = [index |-> next, bytes |-> part \o records[next]] /\ part' = <<>>
            /\ next' = next + 1 /\ answer' = "b"
        BY <3>6, <3>8, <3>9 DEF Got
      <4>2. <<>> \o records[next] = records[next]
        <5>1. records[next] \in Seq(Byte)
          BY <1>3, <3>1
        <5> QED BY <5>1, ConcatEmptySeq
      <4> QED BY <2>1, <4>1, <4>2
    <3>11. pos' = st[next' - 1] + Len(part')
      <4>1. next' - 1 = next /\ Len(part') = 0 /\ pos' = e /\ e + 0 = e
        BY <1>4, <3>4, <3>8, <3>10
      <4> QED BY <3>2, <4>1
    <3>12. next' <= Len(records) + 1
      BY <1>4, <2>2, <3>10
    <3>13. last'.index \in 1..Len(records) /\ last'.bytes = records[last'.index]
      BY <3>1, <3>10
    <3> QED BY <1>2, <3>10, <3>11, <3>12, <3>13 DEF Reads
  <2>3. CASE next = Len(records) + 1
    <3>1. pos = Len(file)
      <4>1. next - 1 = Len(records)
        BY <1>4, <2>3
      <4> QED BY <1>3, <2>1, <4>1
    <3>2. NextCR > Len(file) /\ pos + TextMax + 1 > Len(file)
      BY <1>4, <1>6, <1>7, <3>1
    <3>3. ~(NextCR <= Len(file)) /\ ~(pos + TextMax + 1 <= Len(file))
      BY <1>4, <1>6, <1>7, <3>2
    <3>4. GotEof /\ pos' = Len(file)
      BY <3>3, Zenon DEF GetText
    <3>5. part' = part /\ last' = last /\ next' = next
      BY <3>4 DEF GotEof
    <3>6. pos' = st[next' - 1] + Len(part')
      <4>1. Len(part') = 0 /\ pos' = pos /\ pos = pos + 0
        BY <1>4, <2>1, <3>1, <3>4, <3>5
      <4> QED BY <2>1, <3>5, <4>1
    <3> QED BY <1>2, <2>1, <2>3, <3>5, <3>6 DEF Reads
  <2> QED BY <1>4, <2>1, <2>2, <2>3
<1>9. seeks' \in 0..MaxSeeks
  BY <1>1, <1>2 DEF RecordsTypeOK
<1>10. kind # "variable"
  BY <1>2
<1> QED BY <1>2, <1>3, <1>8, <1>9, <1>10, ReadKeeps, Zenon

(* The bytes of the file a get of bytes is of.                             *)
LEMMA Fetched ==
  ASSUME RecordsTypeOK, pos < Len(file), NEW to, to = Min({pos + ReadCount, Len(file)})
  PROVE  /\ to \in (pos + 1)..Len(file) /\ (pos + ReadCount <= Len(file) => to = pos + ReadCount)
         /\ SubSeq(file, pos + 1, to) \in Seq(Byte) /\ Len(SubSeq(file, pos + 1, to)) = to - pos
         /\ \A x \in 1..(to - pos) : SubSeq(file, pos + 1, to)[x] = file[pos + x]
         /\ ClientBytes(Btox(SubSeq(file, pos + 1, to))) = SubSeq(file, pos + 1, to)
<1>1. file \in Seq(Byte) /\ pos \in Nat /\ Len(file) \in Nat
  BY DEF RecordsTypeOK, Byte
<1>2. PICK c \in Nat \ {0} : c = ReadCount
  BY CountPositive
<1>3. pos + c \in Int /\ Len(file) \in Int
  BY <1>1, <1>2
<1>4. to = IF pos + c <= Len(file) THEN pos + c ELSE Len(file)
  BY <1>2, <1>3, SmallerOf, Zenon
<1>5. to \in (pos + 1)..Len(file) /\ (pos + c <= Len(file) => to = pos + c)
  BY <1>1, <1>2, <1>4
<1>6. to \in pos..Len(file)
  BY <1>1, <1>5
<1>7. PICK s : s = SubSeq(file, pos + 1, to)
  OBVIOUS
<1>8. s \in Seq(Byte) /\ Len(s) = to - pos /\ \A x \in 1..(to - pos) : s[x] = file[pos + x]
  BY <1>1, <1>6, <1>7, Between
<1>9. ClientBytes(Btox(s)) = s
  BY <1>8, ClientReads
<1> QED BY <1>2, <1>5, <1>7, <1>8, <1>9, Zenon

(* Two parts of a record that follow each other.                           *)
LEMMA PartsJoin ==
  ASSUME NEW r \in Seq(Byte), NEW p \in Seq(Byte), NEW d \in Seq(Byte),
         Len(p) + Len(d) <= Len(r),
         \A j \in 1..Len(p) : p[j] = r[j], \A x \in 1..Len(d) : d[x] = r[Len(p) + x]
  PROVE  /\ p \o d \in Seq(Byte) /\ Len(p \o d) = Len(p) + Len(d)
         /\ \A j \in 1..Len(p \o d) : (p \o d)[j] = r[j]
         /\ Len(p) + Len(d) = Len(r) => p \o d = r
<1>1. PICK q : q = p \o d
  OBVIOUS
<1>2. /\ q \in Seq(Byte) /\ Len(q) = Len(p) + Len(d)
      /\ \A j \in 1..Len(p) : q[j] = p[j]
      /\ \A x \in 1..Len(d) : q[Len(p) + x] = d[x]
  BY <1>1, ConcatProperties
<1>3. PICK a \in Nat, b \in Nat : a = Len(p) /\ b = Len(d)
  OBVIOUS
<1>4. ASSUME NEW j \in 1..(a + b) PROVE q[j] = r[j]
  <2>1. CASE j <= a
    <3>1. j \in 1..a
      BY <2>1
    <3> QED BY <1>2, <1>3, <3>1
  <2>2. CASE j > a
    <3>1. PICK x \in 1..b : j = a + x
      <4>1. j - a \in 1..b /\ j = a + (j - a)
        BY <2>2
      <4> QED BY <4>1
    <3> QED BY <1>2, <1>3, <3>1
  <2> QED BY <2>1, <2>2
<1>5. Len(q) = Len(r) => q = r
  BY <1>2, <1>3, <1>4, SeqEqual
<1> QED BY <1>1, <1>2, <1>3, <1>4, <1>5

(* A get of bytes, while there are any.                                    *)
LEMMA BytesGot ==
  ASSUME RecordsInv, phase = "read", kind # "variable", kind # "text",
         NEW to, NEW data, to = Min({pos + ReadCount, Len(file)}), pos < Len(file),
         data = SubSeq(file, pos + 1, to), pos' = to, Got(data, EndOfRecord)
  PROVE  RecordsInv'
<1>1. RecordsTypeOK /\ next <= Len(records) + pos + 1 /\ kind = "fixed"
  BY DEF RecordsInv, RecordsTypeOK, Kinds
<1>2. /\ file \in Seq(Byte) /\ pos \in Nat /\ Len(file) \in Nat /\ part \in Seq(Byte)
      /\ next \in Nat /\ next >= 1 /\ Len(records) \in Nat
      /\ last \in [index : Nat, bytes : Seq(Byte)] /\ seeks \in 0..MaxSeeks
      /\ rl \in Nat \ {0} /\ records \in Seq(Seq(Byte))
  <2>1. Lengths["fixed"] \in SUBSET Nat
    BY RecordsAssumption DEF Kinds
  <2> QED BY <1>1, <2>1 DEF RecordsTypeOK, Byte
<1>3. PICK c \in Nat \ {0} : c = ReadCount
  BY <1>1, CountPositive
<1>4. /\ to \in (pos + 1)..Len(file) /\ (pos + c <= Len(file) => to = pos + c)
      /\ data \in Seq(Byte) /\ Len(data) = to - pos
      /\ \A x \in 1..(to - pos) : data[x] = file[pos + x]
  BY <1>1, <1>3, Fetched
<1>5. /\ UNCHANGED <<kind, rl, phase, file, records, todo, seeks>> /\ answer' = "b"
      /\ EndOfRecord = "z" =>
           last' = [index |-> next, bytes |-> part \o data] /\ part' = <<>> /\ next' = next + 1
      /\ EndOfRecord # "z" => part' = part \o data /\ last' = last /\ next' = next
  BY DEF Got
<1>6. part \o data \in Seq(Byte) /\ <<>> \in Seq(Byte)
  <2>1. part \in Seq(Byte) /\ data \in Seq(Byte)
    BY <1>2, <1>4
  <2>2. part \o data \in Seq(Byte)
    BY <2>1, ConcatProperties
  <2>3. <<>> \in Seq(Byte)
    BY EmptySeq, Zenon
  <2> QED BY <2>2, <2>3, Zenon
<1>7. /\ pos' \in 0..Len(file) /\ part' \in Seq(Byte) /\ next' \in 1..(Len(records) + pos' + 1)
      /\ last' \in [index : Nat, bytes : Seq(Byte)] /\ answer' \in {"b", "e", "-"}
      /\ seeks' \in 0..MaxSeeks
  <2>1. pos' \in 0..Len(file) /\ pos' >= pos + 1 /\ pos' \in Nat
    BY <1>2, <1>4
  <2>0. next \in 1..(Len(records) + pos' + 1) /\ next + 1 \in 1..(Len(records) + pos' + 1)
    <3>1. ASSUME NEW n \in Nat, NEW r \in Nat, NEW x \in Nat, NEW y \in Nat,
                 n >= 1, n <= r + x + 1, y >= x + 1
          PROVE  n \in 1..(r + y + 1) /\ n + 1 \in 1..(r + y + 1)
      BY <3>1
    <3> QED BY <1>1, <1>2, <2>1, <3>1
  <2>2. CASE EndOfRecord = "z"
    <3>1. next' \in 1..(Len(records) + pos' + 1)
      BY <1>5, <2>0, <2>2
    <3>2. last' \in [index : Nat, bytes : Seq(Byte)]
      <4>1. PICK b \in Seq(Byte), x \in Nat : b = part \o data /\ x = next
        BY <1>2, <1>6
      <4>2. last' = [index |-> x, bytes |-> b]
        BY <1>5, <2>2, <4>1
      <4> QED BY <4>2
    <3> QED BY <1>2, <1>5, <1>6, <2>1, <2>2, <3>1, <3>2
  <2>3. CASE EndOfRecord # "z"
    <3>1. next' \in 1..(Len(records) + pos' + 1)
      BY <1>5, <2>0, <2>3
    <3> QED BY <1>2, <1>5, <1>6, <2>1, <2>3, <3>1
  <2> QED BY <2>2, <2>3
<1>8. PICK st :
         /\ LaidOut(st, records, RecordEnd) /\ FileOf(file, st, records, todo, RecordEnd)
         /\ Fits => Reads(st)
         /\ Len(file) = st[Len(records)] /\ st[0] = 0
         /\ \A i \in 0..Len(records) : st[i] \in 0..Len(file)
         /\ \A i \in 1..Len(records) :
              /\ records[i] \in Seq(Byte) /\ Len(records[i]) \in Nat
              /\ st[i] = st[i - 1] + Len(records[i]) + RecordEnd
              /\ \A j \in 1..Len(records[i]) : file[st[i - 1] + j] = records[i][j]
              /\ RecordEnd = 1 => file[st[i]] = CR
  BY Places, Zenon
<1>9. ASSUME Fits PROVE Reads(st)'
  <2>1. RecordEnd = 0 /\ (\A i \in 1..Len(records) : Len(records[i]) = rl) /\ rl # SendBuf
    BY <1>1, <1>9 DEF RecordsInv, RecordEnd, Fits
  <2>2. \A i \in 0..Len(records) : st[i] = i * rl
    <3>1. LaidOut(st, records, 0) /\ rl \in Nat
      BY <1>2, <1>8, <2>1
    <3> QED BY <1>2, <2>1, <3>1, Multiples, Zenon
  <2>3. PICK a \in Nat : a = next - 1 /\ a \in 0..Len(records) /\ next = a + 1
    <3>1. next <= Len(records) + 1
      BY <1>8, <1>9 DEF Reads
    <3>2. next - 1 \in Nat /\ next - 1 \in 0..Len(records) /\ next = (next - 1) + 1
      BY <1>2, <3>1
    <3> QED BY <3>2
  <2>4. PICK o \in Nat : o = Len(part)
    BY <1>2
  <2>5. /\ pos = a * rl + o
        /\ part # <<>> => next <= Len(records) /\ o < Len(records[next]) /\ rl > SendBuf
        /\ \A j \in 1..o : part[j] = records[next][j]
        /\ last # NoRecord => last.index \in 1..Len(records) /\ last.bytes = records[last.index]
    BY <1>8, <1>9, <2>2, <2>3, <2>4 DEF Reads
  <2>6. part = <<>> <=> o = 0
    BY <1>2, <2>4, EmptySeq
  <2>7. next \in 1..Len(records)
    <3> SUFFICES ASSUME next = Len(records) + 1 PROVE FALSE
      BY <1>2, <2>3
    <3>1. part = <<>> /\ a = Len(records)
      BY <1>2, <2>3, <2>5
    <3>2. Len(file) = a * rl
      <4>1. a \in 0..Len(records)
        BY <2>3
      <4> QED BY <1>8, <2>2, <3>1, <4>1
    <3>3. pos = a * rl
      BY <1>2, <2>5, <2>6, <3>1
    <3> QED BY <1>2, <3>2, <3>3
  <2>8. PICK r \in Seq(Byte) : /\ r = records[next] /\ Len(r) = rl
                               /\ \A j \in 1..rl : file[a * rl + j] = r[j]
    <3>1. records[next] \in Seq(Byte) /\ Len(records[next]) = rl
      BY <1>8, <2>1, <2>7
    <3>2. records[next] \in Seq(Byte)
      BY <3>1
    <3>3. \A j \in 1..rl : file[st[next - 1] + j] = records[next][j]
      BY <1>8, <2>7, <3>1
    <3> QED BY <2>2, <2>3, <3>1, <3>2, <3>3
  <2>9. o \in 0..(rl - 1) /\ (rl < SendBuf => o = 0)
    <3>1. SendBuf \in Nat
      BY RecordsAssumption
    <3>2. o # 0 => o < rl /\ rl > SendBuf
      BY <2>5, <2>6, <2>8
    <3> QED BY <1>2, <3>1, <3>2
  <2>10. c \in 1..(rl - o) /\ EndOfRecord = (IF c = rl - o THEN "z" ELSE "n")
         /\ (c # rl - o => rl > SendBuf)
    BY <1>1, <1>3, <2>1, <2>5, <2>9, CountInRecord, Zenon
  <2>11. st[next] = (a + 1) * rl /\ (a + 1) * rl <= Len(file) /\ (a + 1) * rl = a * rl + rl
    <3>1. next \in 0..Len(records)
      BY <2>7
    <3>2. st[next] = (a + 1) * rl /\ st[next] \in 0..Len(file)
      BY <1>8, <2>2, <2>3, <3>1
    <3>3. (a + 1) * rl = a * rl + rl
      BY <1>2
    <3> QED BY <1>2, <3>2, <3>3
  <2>12. PICK y \in Nat : y = a * rl
    BY <1>2
  <2>13. to = y + o + c /\ to - pos = c /\ Len(data) = c
    <3>1. pos + c <= Len(file)
      BY <1>2, <2>5, <2>10, <2>11, <2>12
    <3> QED BY <1>2, <1>4, <2>5, <2>12, <3>1
  <2>14. \A x \in 1..c : data[x] = r[o + x]
    <3> SUFFICES ASSUME NEW x \in 1..c PROVE data[x] = r[o + x]
      OBVIOUS
    <3>1. o + x \in 1..rl /\ pos + x = y + (o + x)
      <4>1. c \in 1..(rl - o) /\ pos = y + o /\ rl \in Nat
        BY <1>2, <2>5, <2>10, <2>12
      <4> QED BY <4>1
    <3>2. data[x] = file[pos + x]
      BY <1>4, <2>13
    <3> QED BY <2>8, <2>12, <3>1, <3>2
  <2>15. /\ Len(part \o data) = o + c
         /\ \A j \in 1..(o + c) : (part \o data)[j] = r[j]
         /\ o + c = rl => part \o data = r
    <3>1. Len(part) + Len(data) <= Len(r)
      <4>1. Len(part) = o /\ Len(data) = c /\ Len(r) = rl
        BY <2>4, <2>8, <2>13
      <4>2. o + c <= rl
        <5>1. c \in 1..(rl - o) /\ rl \in Nat
          BY <1>2, <2>10
        <5> QED BY <5>1
      <4> QED BY <4>1, <4>2
    <3>2. \A j \in 1..Len(part) : part[j] = r[j]
      BY <2>4, <2>5, <2>8
    <3>3. \A x \in 1..Len(data) : data[x] = r[Len(part) + x]
      BY <2>4, <2>13, <2>14
    <3>4. /\ Len(part \o data) = Len(part) + Len(data)
          /\ \A j \in 1..Len(part \o data) : (part \o data)[j] = r[j]
          /\ Len(part) + Len(data) = Len(r) => part \o data = r
      <4>1. part \in Seq(Byte) /\ data \in Seq(Byte) /\ r \in Seq(Byte)
        BY <1>2, <1>4, <2>8
      <4> QED BY <3>1, <3>2, <3>3, <4>1, PartsJoin
    <3> QED BY <2>4, <2>8, <2>13, <3>4
  <2>16. CASE c = rl - o
    <3>1. o + c = rl /\ EndOfRecord = "z" /\ to = y + rl
      <4>1. EndOfRecord = "z"
        BY <2>10, <2>16, Zenon
      <4>2. rl \in Nat /\ to = y + o + c
        BY <1>2, <2>13
      <4> QED BY <2>16, <4>1, <4>2
    <3>2. last' = [index |-> next, bytes |-> r] /\ part' = <<>> /\ next' = next + 1
      BY <1>5, <2>15, <3>1
    <3>3. pos' = st[next' - 1] + Len(part')
      <4>1. next' - 1 = next /\ Len(part') = 0 /\ pos' = y + rl /\ y + rl + 0 = y + rl
        BY <1>2, <2>12, <3>1, <3>2
      <4> QED BY <2>11, <2>12, <4>1
    <3>4. next' <= Len(records) + 1
      BY <1>2, <2>7, <3>2
    <3>5. last'.index \in 1..Len(records) /\ last'.bytes = records[last'.index]
      BY <2>7, <2>8, <3>2
    <3> QED BY <1>5, <3>2, <3>3, <3>4, <3>5 DEF Reads
  <2>17. CASE c # rl - o
    <3>1. EndOfRecord # "z" /\ rl > SendBuf /\ o + c < rl
      BY <1>2, <2>10, <2>17
    <3>2. part' = part \o data /\ last' = last /\ next' = next
      BY <1>5, <3>1
    <3>3. pos' = st[next' - 1] + Len(part')
      <4>1. st[next - 1] = y
        BY <2>2, <2>3, <2>12
      <4>2. pos' = y + (o + c)
        BY <2>13
      <4> QED BY <2>15, <3>2, <4>1, <4>2
    <3>4. Len(part') < Len(records[next']) /\ next' <= Len(records) /\ next' <= Len(records) + 1
      <4>1. Len(part') = o + c /\ Len(records[next']) = rl
        BY <2>8, <2>15, <3>2
      <4>2. next' <= Len(records) /\ next' <= Len(records) + 1
        BY <1>2, <2>7, <3>2
      <4> QED BY <3>1, <4>1, <4>2
    <3>5. \A j \in 1..Len(part') : part'[j] = records[next'][j]
      BY <2>8, <2>15, <3>2
    <3> QED BY <1>1, <1>5, <2>5, <3>1, <3>2, <3>3, <3>4, <3>5 DEF Reads
  <2> QED BY <2>16, <2>17
<1> QED BY <1>5, <1>7, <1>8, <1>9, ReadKeeps, Zenon

(* A get of bytes of a variable file.                                      *)
LEMMA VariableGot ==
  ASSUME RecordsInv, phase = "read", kind = "variable",
         NEW to, NEW data, to = Min({pos + ReadCount, Len(file)}), pos < Len(file),
         data = SubSeq(file, pos + 1, to), pos' = to, Got(data, EndOfRecord)
  PROVE  RecordsInv'
<1>1. RecordsTypeOK /\ next <= Len(records) + pos + 1 /\ part = SubSeq(file, 1, pos)
  BY DEF RecordsInv
<1>2. /\ file \in Seq(Byte) /\ pos \in Nat /\ Len(file) \in Nat /\ part \in Seq(Byte)
      /\ next \in Nat /\ next >= 1 /\ Len(records) \in Nat
      /\ last \in [index : Nat, bytes : Seq(Byte)] /\ seeks \in 0..MaxSeeks
  BY <1>1 DEF RecordsTypeOK, Byte
<1>3. PICK c \in Nat \ {0} : c = ReadCount
  BY <1>1, CountPositive
<1>4. to \in (pos + 1)..Len(file) /\ data \in Seq(Byte)
  BY <1>1, <1>3, Fetched
<1>5. /\ UNCHANGED <<kind, rl, phase, file, records, todo, seeks>> /\ answer' = "b"
      /\ part' = part \o data /\ last' = last /\ next' = next
  BY DEF Got, EndOfRecord
<1>6. part' = SubSeq(file, 1, to)
  <2>1. 1 \in 1..(Len(file) + 1) /\ pos \in (1 - 1)..Len(file) /\ to \in pos..Len(file)
    BY <1>2, <1>4
  <2>2. SubSeq(file, 1, to) = SubSeq(file, 1, pos) \o SubSeq(file, pos + 1, to)
    BY <1>2, <2>1, ConcatAdjacentSubSeq, Zenon
  <2> QED BY <1>1, <1>5, <2>2
<1>7. part' \in Seq(Byte)
  <2>1. part \in Seq(Byte) /\ data \in Seq(Byte)
    BY <1>2, <1>4
  <2>2. part \o data \in Seq(Byte)
    BY <2>1, ConcatProperties
  <2> QED BY <1>5, <2>2
<1>8. /\ pos' \in 0..Len(file) /\ next' \in 1..(Len(records) + pos' + 1)
      /\ last' \in [index : Nat, bytes : Seq(Byte)] /\ answer' \in {"b", "e", "-"}
      /\ seeks' \in 0..MaxSeeks /\ answer' # "e"
  <2>1. pos' \in 0..Len(file) /\ pos' >= pos + 1 /\ pos' \in Nat
    BY <1>2, <1>4
  <2>2. next' \in 1..(Len(records) + pos' + 1)
    <3>1. PICK n \in Nat, m \in Nat, p \in Nat : n = next /\ m = Len(records) /\ p = pos
      BY <1>2
    <3>2. PICK q \in Nat : q = pos' /\ q >= p + 1
      BY <2>1, <3>1
    <3>3. n >= 1 /\ n <= m + p + 1
      BY <1>1, <1>2, <3>1
    <3>4. n \in 1..(m + q + 1)
      BY <3>2, <3>3
    <3>5. next' = n
      BY <1>5, <3>1
    <3> QED BY <3>1, <3>2, <3>4, <3>5, Zenon
  <2> QED BY <1>2, <1>5, <2>1, <2>2
<1> QED BY <1>5, <1>6, <1>7, <1>8, ReadKeeps, Zenon

(* A get of bytes at the end of the file.                                  *)
LEMMA BytesEnd ==
  ASSUME RecordsInv, phase = "read", kind # "text", pos = Len(file), GotEof, pos' = pos
  PROVE  RecordsInv'
<1>1. RecordsTypeOK /\ next <= Len(records) + pos + 1
  BY DEF RecordsInv
<1>2. /\ file \in Seq(Byte) /\ pos \in Nat /\ Len(file) \in Nat /\ part \in Seq(Byte)
      /\ next \in Nat /\ next >= 1 /\ Len(records) \in Nat
      /\ last \in [index : Nat, bytes : Seq(Byte)] /\ seeks \in 0..MaxSeeks
      /\ records \in Seq(Seq(Byte))
  BY <1>1 DEF RecordsTypeOK, Byte
<1>3. /\ UNCHANGED <<kind, rl, phase, file, records, todo, seeks>> /\ answer' = "e"
      /\ part' = part /\ last' = last /\ next' = next
  BY DEF GotEof
<1>4. /\ pos' \in 0..Len(file) /\ next' \in 1..(Len(records) + pos' + 1) /\ part' \in Seq(Byte)
      /\ last' \in [index : Nat, bytes : Seq(Byte)] /\ answer' \in {"b", "e", "-"}
      /\ seeks' \in 0..MaxSeeks
  <2>1. pos' \in 0..Len(file) /\ next' \in 1..(Len(records) + pos' + 1)
    BY <1>1, <1>2, <1>3
  <2> QED BY <1>2, <1>3, <2>1
<1>5. CASE kind = "variable"
  <2>1. part' = SubSeq(file, 1, pos') /\ pos' = Len(file)
    BY <1>3, <1>5 DEF RecordsInv
  <2> QED BY <1>3, <1>4, <1>5, <2>1, ReadKeeps, Zenon
<1>6. CASE kind # "variable"
  <2>1. PICK st :
          /\ LaidOut(st, records, RecordEnd) /\ FileOf(file, st, records, todo, RecordEnd)
          /\ Fits => Reads(st)
          /\ Len(file) = st[Len(records)] /\ st[0] = 0
          /\ \A i \in 0..Len(records) : st[i] \in 0..Len(file)
          /\ \A i \in 1..Len(records) :
               /\ records[i] \in Seq(Byte) /\ Len(records[i]) \in Nat
               /\ st[i] = st[i - 1] + Len(records[i]) + RecordEnd
               /\ \A j \in 1..Len(records[i]) : file[st[i - 1] + j] = records[i][j]
               /\ RecordEnd = 1 => file[st[i]] = CR
    BY <1>6, Places, Zenon
  <2>2. ASSUME Fits PROVE Reads(st)'
    <3>1. Reads(st)
      BY <2>1, <2>2
    <3>2. next = Len(records) + 1
      <4> SUFFICES ASSUME next # Len(records) + 1 PROVE FALSE
        OBVIOUS
      <4>1. next \in 1..Len(records) /\ next \in 0..Len(records) /\ next - 1 \in 0..Len(records)
        BY <1>2, <3>1 DEF Reads
      <4>2. PICK b \in Nat, e \in 0..Len(file), o \in Nat :
              b = st[next - 1] /\ e = st[next] /\ o = Len(part)
        <5>1. \A i \in 0..Len(records) : st[i] \in 0..Len(file) /\ st[i] \in Nat
          BY <1>2, <2>1
        <5>2. st[next - 1] \in Nat /\ st[next] \in 0..Len(file)
          BY <4>1, <5>1
        <5>3. Len(part) \in Nat
          BY <1>2
        <5> QED BY <5>2, <5>3
      <4>3. kind = "fixed" /\ RecordEnd = 0
        BY <1>1, <1>6 DEF RecordsTypeOK, Kinds, RecordEnd
      <4>4. Len(records[next]) = rl /\ rl \in Nat \ {0}
        <5>1. Lengths["fixed"] \in SUBSET Nat
          BY RecordsAssumption DEF Kinds
        <5> QED BY <1>1, <4>1, <4>3, <5>1 DEF RecordsInv, RecordsTypeOK
      <4>5. e = b + rl
        <5>1. st[next] = st[next - 1] + Len(records[next]) + RecordEnd
          BY <2>1, <4>1
        <5> QED BY <4>2, <4>3, <4>4, <5>1
      <4>6. o < rl
        <5>1. part # <<>> => o < rl
          BY <3>1, <4>2, <4>4 DEF Reads
        <5>2. part = <<>> => o = 0
          BY <4>2
        <5> QED BY <4>4, <5>1, <5>2
      <4>7. pos = b + o
        BY <3>1, <4>2 DEF Reads
      <4>8. PICK u \in Nat, y \in Nat : u = Len(file) /\ y = rl
        BY <1>2, <4>4
      <4>9. pos = u
        BY <1>2, <4>8
      <4>10. e <= u /\ e = b + y /\ o < y /\ u = b + o
        BY <4>2, <4>5, <4>6, <4>7, <4>8, <4>9
      <4> QED BY <4>2, <4>8, <4>10
    <3> QED BY <1>3, <3>1, <3>2 DEF Reads
  <2> QED BY <1>3, <1>4, <1>6, <2>1, <2>2, ReadKeeps, Zenon
<1> QED BY <1>5, <1>6

(* A seek to a record.                                                     *)
LEMMA Sought ==
  ASSUME RecordsInv, Seek
  PROVE  RecordsInv'
<1>1. RecordsTypeOK /\ phase = "read" /\ kind = "fixed" /\ kind # "variable" /\ RecordEnd = 0
  BY DEF RecordsInv, Seek, RecordEnd
<1>2. /\ file \in Seq(Byte) /\ Len(file) \in Nat /\ Len(records) \in Nat
      /\ last \in [index : Nat, bytes : Seq(Byte)] /\ seeks \in 0..MaxSeeks
      /\ records \in Seq(Seq(Byte)) /\ rl \in Nat \ {0} /\ MaxSeeks \in Nat
  <2>1. Lengths["fixed"] \in SUBSET Nat /\ MaxSeeks \in Nat
    BY RecordsAssumption DEF Kinds
  <2> QED BY <1>1, <2>1 DEF RecordsTypeOK, Byte
<1>3. PICK n \in 0..Len(records) : n * Unit <= Len(file) /\ pos' = n * Unit /\ next' = n + 1
  BY DEF Seek
<1>4. /\ UNCHANGED <<kind, rl, phase, file, records, todo, last>> /\ answer' = "-"
      /\ part' = <<>> /\ seeks' = seeks + 1 /\ seeks < MaxSeeks
  BY DEF Seek
<1>5. pos' = n * rl /\ n * rl \in Nat /\ n * rl <= Len(file) /\ n \in Nat
  <2>1. Unit = rl
    BY <1>2 DEF Unit
  <2> QED BY <1>2, <1>3, <2>1
<1>6. /\ pos' \in 0..Len(file) /\ next' \in 1..(Len(records) + pos' + 1) /\ part' \in Seq(Byte)
      /\ last' \in [index : Nat, bytes : Seq(Byte)] /\ answer' \in {"b", "e", "-"}
      /\ seeks' \in 0..MaxSeeks
  <2>1. PICK y \in Nat : y = n * rl
    BY <1>5
  <2>2. pos' \in 0..Len(file) /\ next' \in 1..(Len(records) + pos' + 1)
    <3>1. pos' = y /\ y <= Len(file) /\ next' = n + 1
      BY <1>3, <1>5, <2>1
    <3>2. y \in 0..Len(file) /\ n + 1 \in 1..(Len(records) + y + 1)
      <4>1. Len(file) \in Nat /\ Len(records) \in Nat /\ n \in 0..Len(records)
        BY <1>2, <1>3
      <4> QED BY <2>1, <3>1, <4>1
    <3> QED BY <3>1, <3>2
  <2>3. seeks' \in 0..MaxSeeks /\ <<>> \in Seq(Byte)
    BY <1>2, <1>4
  <2> QED BY <1>2, <1>4, <2>2, <2>3
<1>7. PICK st : LaidOut(st, records, RecordEnd) /\ FileOf(file, st, records, todo, RecordEnd)
                  /\ (Fits => Reads(st))
  BY <1>1 DEF RecordsInv, RecordsHeld
<1>8. ASSUME Fits PROVE Reads(st)'
  <2>1. \A i \in 1..Len(records) : Len(records[i]) = rl
    BY <1>1 DEF RecordsInv
  <2>2. LaidOut(st, records, 0) /\ rl \in Nat
    BY <1>1, <1>2, <1>7
  <2>3. \A i \in 0..Len(records) : st[i] = i * rl
    BY <1>2, <2>1, <2>2, Multiples, Zenon
  <2>4. next' - 1 = n /\ st[n] = n * rl /\ next' <= Len(records) + 1
    BY <1>2, <1>3, <2>3
  <2>5. pos' = st[next' - 1] + Len(part')
    <3>1. PICK y \in Nat : y = n * rl
      BY <1>5
    <3>2. pos' = y /\ st[next' - 1] = y /\ Len(part') = 0 /\ y = y + 0
      BY <1>4, <1>5, <2>4, <3>1
    <3> QED BY <3>2
  <2>6. \A j \in 1..Len(part') : FALSE
    BY <1>4
  <2>7. last # NoRecord => last.index \in 1..Len(records) /\ last.bytes = records[last.index]
    BY <1>7, <1>8 DEF Reads
  <2> QED BY <1>4, <2>4, <2>5, <2>6, <2>7 DEF Reads
<1> QED BY <1>1, <1>4, <1>6, <1>7, <1>8, ReadKeeps, Zenon

(* While the client writes, the file holds the records it has written but  *)
(* for what it has still to put; while it reads, the client and the read   *)
(* stream are at the same place of them (hostput, hostget, hostseek).      *)
THEOREM RecordsCorrect == RecordsSpec => []RecordsInv
<1>1. RecordsInit => RecordsInv
  BY RecordsStart
<1>2. RecordsInv /\ [RecordsNext]_recordVars => RecordsInv'
  <2> SUFFICES ASSUME RecordsInv, [RecordsNext]_recordVars PROVE RecordsInv'
    OBVIOUS
  <2>1. CASE PutFirst
    BY <2>1, FirstPut
  <2>2. CASE PutNext
    BY <2>2, LaterPut
  <2>3. CASE Reopen
    BY <2>3, ReadyToRead
  <2>4. CASE answer # "e" /\ GetText
    BY <2>4, TextGot
  <2>5. CASE GetBytes
    <3>1. phase = "read" /\ kind # "text"
      BY <2>5 DEF GetBytes
    <3>2. CASE /\ pos < Len(file)
               /\ LET to == Min({pos + ReadCount, Len(file)}) IN
                  /\ pos' = to
                  /\ Got(ClientBytes(Btox(SubSeq(file, pos + 1, to))), EndOfRecord)
      <4>1. PICK to : to = Min({pos + ReadCount, Len(file)})
        OBVIOUS
      <4>2. PICK data : data = SubSeq(file, pos + 1, to)
        OBVIOUS
      <4>3. RecordsTypeOK
        BY DEF RecordsInv
      <4>4. ClientBytes(Btox(data)) = data
        BY <3>2, <4>1, <4>2, <4>3, Fetched
      <4>5. pos' = to /\ Got(data, EndOfRecord) /\ pos < Len(file)
        BY <3>2, <4>1, <4>2, <4>4
      <4>6. CASE kind = "variable"
        BY <3>1, <4>1, <4>2, <4>5, <4>6, VariableGot
      <4>7. CASE kind # "variable"
        BY <3>1, <4>1, <4>2, <4>5, <4>7, BytesGot
      <4> QED BY <4>6, <4>7
    <3>3. CASE pos = Len(file) /\ GotEof /\ UNCHANGED pos
      BY <3>1, <3>3, BytesEnd
    <3> QED BY <2>5, <3>2, <3>3 DEF GetBytes
  <2>6. CASE Seek
    BY <2>6, Sought
  <2>7. CASE UNCHANGED recordVars
    <3>1. /\ kind' = kind /\ rl' = rl /\ phase' = phase /\ file' = file /\ records' = records
          /\ todo' = todo /\ pos' = pos /\ part' = part /\ next' = next /\ last' = last
          /\ answer' = answer /\ seeks' = seeks
      BY <2>7 DEF recordVars
    <3>2. RecordsHeld' <=> RecordsHeld
      BY <3>1 DEF RecordsHeld, RecordEnd, Reads, Fits
    <3> QED BY <3>1, <3>2 DEF RecordsInv, RecordsTypeOK, Ungot
  <2> QED BY <2>1, <2>2, <2>3, <2>4, <2>5, <2>6, <2>7 DEF RecordsNext, Get
<1> QED BY <1>1, <1>2, PTL DEF RecordsSpec

(* The types: the stream stays within the file and every byte got from it  *)
(* is one (hostget asks fread for one byte at least).                      *)
THEOREM RecordsTypeCorrect == RecordsSpec => []RecordsTypeOK
<1>1. RecordsInv => RecordsTypeOK
  BY DEF RecordsInv
<1> QED BY <1>1, RecordsCorrect, PTL

(* Records of the lengths hostget has room for come back byte for byte,    *)
(* whatever the sizes of the puts and the gets and wherever the client     *)
(* has seeked (hostput, hostget, xtob, btox).                              *)
THEOREM FittingRecordsReturn == RecordsSpec => []FittingRecordsComeBack
<1>1. RecordsInv => FittingRecordsComeBack
  <2> SUFFICES ASSUME RecordsInv, Fits, kind # "variable", last # NoRecord
               PROVE  last.index <= Len(records) /\ last.bytes = records[last.index]
    BY DEF FittingRecordsComeBack, RecordsComeBack
  <2>1. phase = "read"
    BY DEF RecordsInv, RecordsTypeOK, Ungot
  <2>2. PICK st : Reads(st)
    BY <2>1 DEF RecordsInv, RecordsHeld
  <2>3. last.index \in 1..Len(records) /\ last.bytes = records[last.index]
    BY <2>2 DEF Reads
  <2>4. Len(records) \in Nat
    BY DEF RecordsInv, RecordsTypeOK
  <2> QED BY <2>3, <2>4
<1> QED BY <1>1, RecordsCorrect, PTL

(* hostget answers "e" only when the client has every such record, and of  *)
(* a variable file every byte.                                             *)
THEOREM EofIsAtEnd == RecordsSpec => []EofOnlyAtEnd
<1>1. RecordsInv => EofOnlyAtEnd
  <2> SUFFICES ASSUME RecordsInv, answer = "e", Fits
               PROVE  IF kind = "variable" THEN part = file
                      ELSE part = <<>> /\ next = Len(records) + 1
    BY DEF EofOnlyAtEnd
  <2>1. phase = "read" /\ file \in Seq(Byte) /\ Len(records) \in Nat
    BY DEF RecordsInv, RecordsTypeOK, Ungot, Byte
  <2>2. CASE kind = "variable"
    <3>1. part = SubSeq(file, 1, Len(file))
      BY <2>2 DEF RecordsInv
    <3> QED BY <2>1, <2>2, <3>1, SubSeqFull
  <2>3. CASE kind # "variable"
    <3>1. PICK st : Reads(st)
      BY <2>1, <2>3 DEF RecordsInv, RecordsHeld
    <3>2. next = Len(records) + 1 /\ (part # <<>> => next <= Len(records))
      BY <3>1 DEF Reads
    <3> QED BY <2>1, <2>3, <3>2
  <2> QED BY <2>2, <2>3
<1> QED BY <1>1, RecordsCorrect, PTL

=============================================================================
