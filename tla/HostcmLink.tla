----------------------------- MODULE HostcmLink -----------------------------
(***************************************************************************)
(* The serial link between the SuperPET and the hostcm server: the loop of *)
(* server.c with the framing of term.c.  The server reads one frame, tests *)
(* its checksum, carries the command out or answers NAK, and keeps its     *)
(* last response in outbuf so that a client's 'N' can have it again.       *)
(*                                                                         *)
(* What the commands do is left to HostcmFiles and HostcmNames; here a     *)
(* command is a call number and its execution has an outcome in Codes.     *)
(* The client is the SuperPET ROM, which is not part of the repository: it *)
(* is modelled by what the server's code expects of it (half duplex, 'N'   *)
(* for a response it could not read, the same command again after a NAK).  *)
(* The line may damage a frame in transit or lose its line end.  It leaves *)
(* the client's one-byte 'N' alone; HostcmServer has it damaged as well.   *)
(***************************************************************************)
EXTENDS Naturals

CONSTANTS
  MaxCalls,       \* bound: calls made by the client
  MaxGarbles,     \* bound: frames the line damages
  MaxLostEnds,    \* bound: frames whose line end the line swallows
  MaxExits        \* bound: times the server process goes away

ASSUME LinkAssumption ==
  /\ MaxCalls \in Nat /\ MaxGarbles \in Nat
  /\ MaxLostEnds \in Nat /\ MaxExits \in Nat

VARIABLES
  cpc,         \* client: "idle" or "await" (a response to the current call)
  call,        \* client: number of the current or last call
  got,         \* client: <<call, code>> of the last answer it accepted
  up, upOk,    \* frame towards the server, and whether it is undamaged
  down, downOk,\* frame towards the client, and whether it is undamaged
  spc,         \* server: "receive", "send" or "gone"
  partial,     \* server: receive() holds bytes that no line end has closed
  outbuf,      \* server: the last response; "none" while never written
  executions,  \* history: call -> how often the server carried it out
  outcome,     \* history: call -> what its last execution returned
  garbles, lostEnds, exits   \* how much of the bounds is used up

clientVars == <<cpc, call, got>>
lineVars   == <<garbles, lostEnds>>
history    == <<executions, outcome>>
vars == <<cpc, call, got, up, upOk, down, downOk, spc, partial, outbuf,
          executions, outcome, garbles, lostEnds, exits>>

Calls == 1..MaxCalls
Codes == {"b", "e", "x"}        \* ok, end of file, error

Command(c)    == [kind |-> "command", call |-> c]
ClientNak     == [kind |-> "nak", call |-> 0]
NoFrame       == [kind |-> "none", call |-> 0]
(* A response; its call is a history tag no code looks at. *)
Answer(c, code) == [kind |-> "answer", call |-> c, code |-> code]
ServerNak     == [kind |-> "nak", call |-> 0, code |-> "N"]
NoResponse    == [kind |-> "none", call |-> 0, code |-> "-"]

Frames    == [kind : {"none", "command", "nak"}, call : 0..MaxCalls]
Responses == [kind : {"none", "answer", "nak"}, call : 0..MaxCalls,
              code : Codes \cup {"N", "-"}]

Shapes ==
  /\ cpc \in {"idle", "await"}
  /\ call \in 0..MaxCalls
  /\ got \in (0..MaxCalls) \X (Codes \cup {"-"})
  /\ up \in Frames
  /\ down \in Responses
  /\ spc \in {"receive", "send", "gone"}
  /\ outbuf \in Responses
  /\ executions \in [Calls -> Nat]
  /\ outcome \in [Calls -> Codes \cup {"-"}]
  /\ garbles \in 0..MaxGarbles
  /\ lostEnds \in 0..MaxLostEnds
  /\ exits \in 0..MaxExits
  /\ spc = "gone" => outbuf = NoResponse

Flags ==
  /\ upOk \in BOOLEAN /\ downOk \in BOOLEAN /\ partial \in BOOLEAN
  /\ spc = "gone" => ~partial

(* Every variable has its type, and a process that is gone has left nothing *)
(* behind: no response and no half-read frame (server.c's locals).         *)
TypeOK == Shapes /\ Flags

Init ==
  /\ cpc = "idle" /\ call = 0 /\ got = <<0, "-">>
  /\ up = NoFrame /\ upOk = TRUE
  /\ down = NoResponse /\ downOk = TRUE
  /\ spc = "receive" /\ partial = FALSE /\ outbuf = NoResponse
  /\ executions = [c \in Calls |-> 0]
  /\ outcome = [c \in Calls |-> "-"]
  /\ garbles = 0 /\ lostEnds = 0 /\ exits = 0

-----------------------------------------------------------------------------
(* The client (external). *)

SendUp(frame) == up' = frame /\ upOk' = TRUE
Delivered     == down' = NoResponse /\ downOk' = TRUE

Issue ==
  /\ cpc = "idle" /\ call < MaxCalls
  /\ call' = call + 1
  /\ cpc' = "await"
  /\ SendUp(Command(call + 1))
  /\ UNCHANGED <<got, down, downOk, spc, partial, outbuf, history, lineVars, exits>>

(* A response that cannot be read is NAKed; a NAK makes the client repeat *)
(* its command; anything else ends the call.                              *)
OnResponse ==
  /\ cpc = "await" /\ down.kind # "none"
  /\ Delivered
  /\ \/ /\ ~downOk
        /\ SendUp(ClientNak)
        /\ UNCHANGED clientVars
     \/ /\ downOk /\ down.code = "N"
        /\ SendUp(Command(call))
        /\ UNCHANGED clientVars
     \/ /\ downOk /\ down.code # "N"
        /\ cpc' = "idle"
        /\ got' = <<down.call, down.code>>
        /\ UNCHANGED <<call, up, upOk>>
  /\ UNCHANGED <<spc, partial, outbuf, history, lineVars, exits>>

(* The user stops a call that nothing will answer any more. *)
GiveUp ==
  /\ cpc = "await"
  /\ up.kind = "none" /\ down.kind = "none" /\ spc # "send"
  /\ cpc' = "idle"
  /\ UNCHANGED <<call, got, up, upOk, down, downOk, spc, partial, outbuf,
                 history, lineVars, exits>>

-----------------------------------------------------------------------------
(* The line (external). *)

(* Noise damages a frame that is under way. *)
Garble ==
  /\ garbles < MaxGarbles
  /\ garbles' = garbles + 1
  /\ \/ /\ up.kind = "command" /\ upOk
        /\ upOk' = FALSE
        /\ UNCHANGED downOk
     \/ /\ down.kind # "none" /\ downOk
        /\ downOk' = FALSE
        /\ UNCHANGED upOk
  /\ UNCHANGED <<clientVars, up, down, spc, partial, outbuf, history, lostEnds, exits>>

(* The line end is lost: receive() goes on reading after the frame's bytes. *)
(* No two are lost in a row: three frames run together can have a checksum *)
(* that is right (RunTogetherSeen in HostcmFraming).                          *)
LoseLineEnd ==
  /\ lostEnds < MaxLostEnds /\ ~partial
  /\ lostEnds' = lostEnds + 1
  /\ spc = "receive" /\ up.kind # "none"
  /\ SendUp(NoFrame)
  /\ partial' = TRUE
  /\ UNCHANGED <<clientVars, down, downOk, spc, outbuf, history, garbles, exits>>

(* Nobody has the tty open. *)
Unheard ==
  /\ spc = "gone" /\ up.kind # "none"
  /\ SendUp(NoFrame)
  /\ UNCHANGED <<clientVars, down, downOk, spc, partial, outbuf, history, lineVars, exits>>

-----------------------------------------------------------------------------
(* The server.  One turn of its loop is a frame received and handled, *)
(* which sets outbuf, and then the Send of outbuf.                     *)

Received == spc = "receive" /\ up.kind # "none" /\ SendUp(NoFrame) /\ partial' = FALSE

(* The checksum test applies to frames of more than one byte: a command, a *)
(* frame run together with the bytes before it, or a damaged 'N' that the  *)
(* tty marked with \377 \0.  The NAK is written over outbuf.  The test is  *)
(* taken to see the damage this line does; HostcmFraming says what it can *)
(* and what it cannot see.                                                 *)
ChecksumFails ==
  \/ partial
  \/ ~upOk

(* An execution of call c. *)
Executed(c) ==
  \E code \in Codes :
    /\ executions' = [executions EXCEPT ![c] = @ + 1]
    /\ outcome' = [outcome EXCEPT ![c] = code]
    /\ outbuf' = Answer(c, code)

(* As Reject, without the continue: the switch is entered all the same. *)
RejectAndFallThrough ==
  /\ ChecksumFails
  /\ Received
  /\ spc' = "send"
  /\ IF up.kind = "command"
       THEN /\ executions' = [executions EXCEPT ![up.call] = @ + 1]
            /\ UNCHANGED outcome
       ELSE UNCHANGED history
  /\ outbuf' = ServerNak
  /\ UNCHANGED <<clientVars, down, downOk, lineVars, exits>>

Reject ==
  /\ ChecksumFails
  /\ Received
  /\ spc' = "send"
  /\ outbuf' = ServerNak
  /\ UNCHANGED <<clientVars, down, downOk, history, lineVars, exits>>

(* As Dispatch, but the handler's response is not written to outbuf. *)
DispatchKeepingOutbuf ==
  /\ ~ChecksumFails /\ up.kind = "command"
  /\ Received
  /\ spc' = "send"
  /\ executions' = [executions EXCEPT ![up.call] = @ + 1]
  /\ \E code \in Codes : outcome' = [outcome EXCEPT ![up.call] = code]
  /\ outbuf' = IF outbuf.kind = "answer" THEN outbuf ELSE Answer(up.call, "b")
  /\ UNCHANGED <<clientVars, down, downOk, lineVars, exits>>

Dispatch ==
  /\ ~ChecksumFails /\ up.kind = "command"
  /\ Received
  /\ spc' = "send"
  /\ Executed(up.call)
  /\ UNCHANGED <<clientVars, down, downOk, lineVars, exits>>

(* As Resend, but the response is considered spent once it has been sent. *)
ResendNothing ==
  /\ up.kind = "nak" /\ ~ChecksumFails
  /\ Received
  /\ UNCHANGED <<clientVars, down, downOk, spc, outbuf, history, lineVars, exits>>

(* 'N': outbuf is sent again.  In a new process count and outbuf are not   *)
(* initialized: it sends nothing (count <= 0) or whatever the stack held.  *)
Resend ==
  /\ up.kind = "nak" /\ ~ChecksumFails
  /\ Received
  /\ \/ spc' = "send"
     \/ outbuf.kind = "none" /\ UNCHANGED spc
  /\ UNCHANGED <<clientVars, down, downOk, outbuf, history, lineVars, exits>>

(* An uninitialized outbuf reads as noise to the client. *)
Send ==
  /\ spc = "send"
  /\ spc' = "receive"
  /\ \/ outbuf.kind # "none" /\ down' = outbuf /\ downOk' = TRUE
     \/ outbuf.kind = "none" /\ down' = Answer(0, "-") /\ downOk' = FALSE
  /\ UNCHANGED <<clientVars, up, upOk, partial, outbuf, history, lineVars, exits>>

(* As Exit, with outbuf kept where a new process finds it. *)
ExitKeepingOutbuf ==
  /\ spc # "gone" /\ exits < MaxExits
  /\ exits' = exits + 1
  /\ spc' = "gone"
  /\ partial' = FALSE
  /\ UNCHANGED <<clientVars, up, upOk, down, downOk, outbuf, history, lineVars>>

(* The process is interrupted, exits on a read or write error, or is told *)
(* to quit.  outbuf and what receive() had read go with it.                *)
Exit ==
  /\ spc # "gone" /\ exits < MaxExits
  /\ exits' = exits + 1
  /\ spc' = "gone"
  /\ partial' = FALSE
  /\ outbuf' = NoResponse
  /\ UNCHANGED <<clientVars, up, upOk, down, downOk, history, lineVars>>

Restart ==
  /\ spc = "gone"
  /\ spc' = "receive"
  /\ UNCHANGED <<clientVars, up, upOk, down, downOk, partial, outbuf, history,
                 lineVars, exits>>

-----------------------------------------------------------------------------
Server == Reject \/ Dispatch \/ Resend \/ Send
Client == OnResponse \/ GiveUp
Line   == Garble \/ LoseLineEnd \/ Unheard

Next == Issue \/ Client \/ Line \/ Server \/ Exit \/ Restart

Spec == Init /\ [][Next]_vars

(* The server loop and the ROM run whenever they can; nothing forces the   *)
(* user to make a call or to give up, the line to do harm, or anyone to    *)
(* restart the server.                                                     *)
FairSpec == Spec /\ WF_vars(Server) /\ WF_vars(OnResponse)

-----------------------------------------------------------------------------
(* Properties. *)

(* No call is carried out twice, however often its command, the NAKs and   *)
(* the response had to be repeated (server.c's loop: a frame with a bad    *)
(* checksum is never dispatched, and 'N' resends outbuf without executing).*)
AtMostOnce == \A c \in Calls : executions[c] <= 1

(* The link implements the remote calls of HostcmRpc: in particular the    *)
(* answer a call ends with is the outcome of its own single execution,     *)
(* never a leftover in outbuf (server.c's switch and resend).              *)
Rpc == INSTANCE HostcmRpc WITH
         pc <- IF cpc = "idle" THEN "idle"
               ELSE IF executions[call] = 0 THEN "called" ELSE "executed"

ImplementsRpc == Rpc!Spec

(* A call is answered once the noise ends, unless a line end was lost or   *)
(* the server went away; every frame but the first 'N' of a new process is *)
(* answered (server.c's loop).                                             *)
EveryCallAnswered ==
  \A c \in Calls :
    (cpc = "await" /\ call = c) ~> (got[1] = c \/ lostEnds > 0 \/ exits > 0)

=============================================================================
