----------------------------- MODULE HostcmRpc -----------------------------
(***************************************************************************)
(* What the hostcm link promises to the SuperPET program above it: remote  *)
(* file operations, one at a time, each carried out once on the host, and  *)
(* answered with the outcome of that one execution.  A call may also be    *)
(* abandoned by the user without an answer.                                *)
(*                                                                         *)
(* This is the abstract service; module HostcmLink describes how server.c, *)
(* term.c and the checksum provide it over a noisy serial line, and is     *)
(* checked to implement it.                                                *)
(***************************************************************************)
EXTENDS Naturals

CONSTANTS
  Calls,   \* the calls the program makes, numbered from 1
  Codes    \* the outcomes an operation can have

VARIABLES
  pc,        \* "idle", "called" (not carried out yet) or "executed"
  call,      \* the number of the current or last call
  outcome,   \* call -> what its execution returned, "-" before that
  got        \* <<call, code>> of the answer last handed to the program

rpcVars == <<pc, call, outcome, got>>

Init ==
  /\ pc = "idle"
  /\ call = 0
  /\ outcome = [c \in Calls |-> "-"]
  /\ got = <<0, "-">>

Issue ==
  /\ pc = "idle"
  /\ call + 1 \in Calls
  /\ call' = call + 1
  /\ pc' = "called"
  /\ UNCHANGED <<outcome, got>>

(* The one execution of the current call. *)
Execute ==
  /\ pc = "called"
  /\ \E code \in Codes : outcome' = [outcome EXCEPT ![call] = code]
  /\ pc' = "executed"
  /\ UNCHANGED <<call, got>>

Return ==
  /\ pc = "executed"
  /\ got' = <<call, outcome[call]>>
  /\ pc' = "idle"
  /\ UNCHANGED <<call, outcome>>

(* The user stops waiting; the operation may have been carried out or not. *)
Abandon ==
  /\ pc # "idle"
  /\ pc' = "idle"
  /\ UNCHANGED <<call, outcome, got>>

Next == Issue \/ Execute \/ Return \/ Abandon

Spec == Init /\ [][Next]_rpcVars
=============================================================================
