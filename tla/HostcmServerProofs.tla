------------------------- MODULE HostcmServerProofs -------------------------
(***************************************************************************)
(* Proofs about HostcmServer for every script, number of slots and amount  *)
(* of noise: what a line that damages the client's one-byte 'N' as well    *)
(* can make the server repeat, and what its client finds on the disk.      *)
(***************************************************************************)
EXTENDS HostcmServer, FiniteSetTheorems, SequenceTheorems, TLAPS

-----------------------------------------------------------------------------
(* The invariant of the link. *)

(* One party acts at a time, and a command under way is the current one's. *)
HalfDuplex ==
  /\ up.kind # "none" => down.kind = "none" /\ spc # "send"
  /\ down.kind # "none" => spc # "send"
  /\ cpc = "idle" => up.kind = "none" /\ down.kind = "none" /\ spc # "send"
  /\ cpc = "await" => call \in L!Calls
  /\ up.kind = "command" => up.call = call

(* What a lost line end left in receive() is met by the command of a new   *)
(* call only.                                                              *)
Fragments ==
  partial => /\ up.kind # "nak" /\ down.kind = "none" /\ spc = "receive"
             /\ up.kind = "command" => executions[call] = 0

NotAhead == \A c \in L!Calls : c > call => executions[c] = 0 /\ outcome[c] = "-"

(* What 'N' can fetch, is being sent or is under way to the client. *)
AtHand == up.kind = "nak" \/ down.kind # "none" \/ spc = "send"

(* n frames were damaged besides those that the repetitions have cost. *)
Owed(n) == 2 * Repetitions + n <= garbles

(* The damage that a call already carried out has met since: a repetition  *)
(* is prepared by a damaged response and a damaged 'N'.                    *)
Debts ==
  /\ IsFiniteSet(Repeated)
  /\ Owed(0)
  /\ cpc = "await" /\ executions[call] > 0 =>
       /\ up.kind = "nak" => Owed(1)
       /\ up.kind = "nak" /\ ~upOk => Owed(2)
       /\ up.kind = "command" => Owed(2)
       /\ down.kind # "none" /\ ~downOk => Owed(1)
       /\ spc = "send" /\ outbuf.kind = "none" => Owed(1)
       /\ down.kind # "none" /\ down.code = "N" => Owed(2)
       /\ AtHand /\ outbuf.code = "N" => Owed(2)

(* A success at hand is the current call's. *)
OwnAnswers ==
  cpc = "await" =>
    /\ down.kind # "none" /\ down.code \in {"b", "e"} =>
         down.call = call /\ down.code = outcome[call]
    /\ AtHand /\ outbuf.code \in {"b", "e"} =>
         outbuf.call = call /\ outbuf.code = outcome[call]

LinkTypes == L!Shapes /\ L!Flags

LinkInv == LinkTypes /\ HalfDuplex /\ Fragments /\ NotAhead /\ Debts /\ OwnAnswers

-----------------------------------------------------------------------------
(* The steps as the link sees them. *)

NakGarbled ==
  /\ garbles < MaxGarbles /\ garbles' = garbles + 1
  /\ up.kind = "nak" /\ upOk /\ upOk' = FALSE
  /\ UNCHANGED <<cpc, call, got, up, down, downOk, spc, partial, outbuf,
                 executions, outcome, lostEnds, exits>>

Crashes ==
  /\ L!Received
  /\ spc' = "gone" /\ outbuf' = L!NoResponse
  /\ exits' \in 0..MaxExits
  /\ UNCHANGED <<cpc, call, got, down, downOk, executions, outcome, garbles, lostEnds>>

Unknown ==
  /\ up.kind = "nak" /\ L!Received
  /\ spc' = "send" /\ outbuf' = L!Answer(0, "x")
  /\ UNCHANGED <<cpc, call, got, down, downOk, executions, outcome, garbles, lostEnds, exits>>

LinkStep ==
  \/ L!Issue \/ L!OnResponse \/ L!GiveUp
  \/ L!Garble \/ L!LoseLineEnd \/ L!Unheard \/ NakGarbled
  \/ L!Dispatch \/ Crashes \/ L!Reject \/ Unknown \/ L!Resend \/ L!Send
  \/ L!Exit \/ L!Restart

(* Every step of the server is one of these or leaves the link alone. *)
LEMMA StepsOfTheLink ==
  ASSUME L!Shapes, [Next]_vars
  PROVE  LinkStep \/ UNCHANGED <<linkVars, exits>>
<1>1. CASE \/ Issue \/ OnResponse \/ Elsewhere \/ Dispatch \/ Reject \/ Resend
           \/ Send \/ Exit \/ Restart
  BY <1>1 DEF LinkStep, Issue, OnResponse, Elsewhere, Dispatch, Reject, Resend, Send,
        Exit, Restart
<1>2. CASE GarbleNak
  BY <1>2 DEF LinkStep, GarbleNak, NakGarbled
<1>3. CASE DispatchCrashing
  <2>1. exits' \in 0..MaxExits
    <3>1. CASE exits' = exits
      BY <3>1 DEF L!Shapes
    <3>2. CASE exits' = exits + 1 /\ exits' <= MaxExits
      BY <3>2, ServerAssumption DEF L!Shapes
    <3>3. exits' = exits \/ (exits' = exits + 1 /\ exits' <= MaxExits)
      BY <1>3 DEF DispatchCrashing, F!Put, F!Close, F!NotOpen, F!Refused, F!Crash, F!Ends,
                  F!vars
    <3> QED BY <3>1, <3>2, <3>3
  <2> QED BY <1>3, <2>1 DEF LinkStep, DispatchCrashing, Crashes
<1>4. CASE UnknownCommand
  BY <1>4 DEF LinkStep, UnknownCommand, Unknown
<1>5. CASE UNCHANGED vars
  BY <1>5 DEF vars
<1> QED
  BY <1>1, <1>2, <1>3, <1>4, <1>5 DEF Next

(* Types. *)

(* The frames and responses that the steps put on the line are of their    *)
(* types.                                                                  *)
LEMMA FrameTypes ==
  /\ L!NoFrame \in L!Frames /\ L!ClientNak \in L!Frames
  /\ \A c \in 0..MaxCalls : L!Command(c) \in L!Frames
  /\ L!NoResponse \in L!Responses /\ L!ServerNak \in L!Responses
  /\ L!Answer(0, "x") \in L!Responses /\ L!Answer(0, "-") \in L!Responses
  /\ \A c \in 0..MaxCalls, code \in L!Codes : L!Answer(c, code) \in L!Responses
BY ScriptAssumption
   DEF L!Frames, L!Responses, L!Codes, L!NoFrame, L!ClientNak, L!Command, L!NoResponse,
       L!ServerNak, L!Answer, MaxCalls

(* A count among others goes up by one. *)
LEMMA CountedUp ==
  ASSUME NEW S, NEW f \in [S -> Nat], NEW x
  PROVE  [f EXCEPT ![x] = @ + 1] \in [S -> Nat]
<1> DEFINE g == [f EXCEPT ![x] = @ + 1]
<1>1. \A y \in S : g[y] \in Nat
  <2> TAKE y \in S
  <2>1. f[y] \in Nat
    OBVIOUS
  <2> QED BY <2>1
<1> QED BY <1>1

(* What an execution does to the link's variables. *)
Executes(code) ==
  /\ executions' = [executions EXCEPT ![up.call] = @ + 1]
  /\ outcome' = [outcome EXCEPT ![up.call] = code]
  /\ outbuf' = L!Answer(up.call, code)

(* A dispatch executes the command. *)
LEMMA DispatchExecutes ==
  ASSUME L!Dispatch PROVE \E code \in L!Codes : Executes(code)
BY DEF L!Dispatch, L!Executed, Executes

(* The steps keep the types. *)
LEMMA LinkTypesStep ==
  ASSUME LinkTypes, LinkStep \/ UNCHANGED <<linkVars, exits>>
  PROVE  LinkTypes'
<1>0. MaxCalls \in Nat /\ MaxGarbles \in Nat /\ MaxLostEnds \in Nat /\ MaxExits \in Nat
  BY ServerAssumption, ScriptAssumption DEF MaxCalls
<1> USE <1>0, FrameTypes DEF LinkTypes, L!Shapes, L!Flags
<1>1. CASE L!Issue
  BY <1>1 DEF L!Issue, L!SendUp, L!history, L!lineVars
<1>2. CASE L!OnResponse
  <2>1. /\ down.call \in 0..MaxCalls
        /\ down.code # "N" => down.code \in L!Codes \cup {"-"}
    BY DEF L!Responses
  <2>2. got' \in (0..MaxCalls) \X (L!Codes \cup {"-"})
    BY <1>2, <2>1 DEF L!OnResponse, L!clientVars
  <2>3. cpc' \in {"idle", "await"} /\ call' = call
    BY <1>2 DEF L!OnResponse, L!clientVars
  <2>4. /\ up' \in L!Frames /\ down' \in L!Responses
        /\ upOk' \in BOOLEAN /\ downOk' \in BOOLEAN
    BY <1>2 DEF L!OnResponse, L!SendUp, L!Delivered
  <2> QED BY <1>2, <2>2, <2>3, <2>4 DEF L!OnResponse, L!history, L!lineVars
<1>3. CASE L!GiveUp
  BY <1>3 DEF L!GiveUp, L!history, L!lineVars
<1>4. CASE L!Garble
  <2>1. garbles' \in 0..MaxGarbles
    BY <1>4 DEF L!Garble
  <2>2. upOk' \in BOOLEAN /\ downOk' \in BOOLEAN
    BY <1>4 DEF L!Garble
  <2> QED BY <1>4, <2>1, <2>2 DEF L!Garble, L!clientVars, L!history
<1>5. CASE L!LoseLineEnd
  BY <1>5 DEF L!LoseLineEnd, L!SendUp, L!clientVars, L!history
<1>6. CASE L!Unheard
  BY <1>6 DEF L!Unheard, L!SendUp, L!clientVars, L!history, L!lineVars
<1>7. CASE NakGarbled
  <2>1. garbles' \in 0..MaxGarbles
    BY <1>7 DEF NakGarbled
  <2>2. upOk' \in BOOLEAN
    BY <1>7 DEF NakGarbled
  <2> QED BY <1>7, <2>1, <2>2 DEF NakGarbled
<1>8. CASE L!Dispatch
  <2>1. PICK code \in L!Codes : Executes(code)
    BY <1>8, DispatchExecutes
  <2>2. outbuf' \in L!Responses
    BY <2>1 DEF Executes, L!Frames
  <2>3. executions' \in [L!Calls -> Nat]
    BY <2>1, CountedUp DEF Executes
  <2>4. outcome' \in [L!Calls -> L!Codes \cup {"-"}]
    BY <2>1 DEF Executes
  <2>5. up' \in L!Frames /\ spc' = "send" /\ upOk' \in BOOLEAN /\ partial' \in BOOLEAN
    BY <1>8 DEF L!Dispatch, L!Received, L!SendUp
  <2> QED BY <1>8, <2>2, <2>3, <2>4, <2>5 DEF L!Dispatch, L!clientVars, L!lineVars
<1>9. CASE Crashes
  BY <1>9 DEF Crashes, L!Received, L!SendUp
<1>10. CASE L!Reject
  BY <1>10 DEF L!Reject, L!Received, L!SendUp, L!clientVars, L!history, L!lineVars
<1>11. CASE Unknown
  BY <1>11 DEF Unknown, L!Received, L!SendUp
<1>12. CASE L!Resend
  BY <1>12 DEF L!Resend, L!Received, L!SendUp, L!clientVars, L!history, L!lineVars
<1>13. CASE L!Send
  BY <1>13 DEF L!Send, L!clientVars, L!history, L!lineVars
<1>14. CASE L!Exit
  <2>1. exits' \in 0..MaxExits
    BY <1>14 DEF L!Exit
  <2> QED BY <1>14, <2>1 DEF L!Exit, L!NoResponse, L!clientVars, L!history, L!lineVars
<1>15. CASE L!Restart
  BY <1>15 DEF L!Restart, L!clientVars, L!history, L!lineVars
<1>16. CASE UNCHANGED <<linkVars, exits>>
  BY <1>16 DEF linkVars
<1> QED
  BY <1>1, <1>2, <1>3, <1>4, <1>5, <1>6, <1>7, <1>8, <1>9, <1>10, <1>11,
     <1>12, <1>13, <1>14, <1>15, <1>16 DEF LinkStep

-----------------------------------------------------------------------------
(* Counting the repetitions. *)

(* The executions after its first of every call of S that e counts. *)
After(S, e) == UNION {{c} \X (2..e[c]) : c \in S}

(* Membership of After. *)
LEMMA AfterIs ==
  ASSUME NEW S, NEW e, NEW x
  PROVE  x \in After(S, e) <=> \E c \in S : \E k \in 2..e[c] : x = <<c, k>>
BY DEF After

(* A first execution adds nothing. *)
LEMMA FirstIsNone ==
  ASSUME NEW S, NEW e \in [S -> Nat], NEW f \in [S -> Nat], NEW c \in S,
         e[c] = 0, f[c] = 1, \A d \in S : d # c => f[d] = e[d]
  PROVE  After(S, f) = After(S, e)
<1>1. ASSUME NEW d \in S, NEW k
      PROVE  k \in 2..e[d] <=> k \in 2..f[d]
  BY SMT
<1>2. \A x : x \in After(S, f) <=> x \in After(S, e)
  BY <1>1, AfterIs
<1> QED BY <1>2

(* A later one adds one. *)
LEMMA AgainIsOne ==
  ASSUME NEW S, NEW e \in [S -> Nat], NEW f \in [S -> Nat], NEW c \in S,
         e[c] > 0, f[c] = e[c] + 1, \A d \in S : d # c => f[d] = e[d],
         IsFiniteSet(After(S, e))
  PROVE  /\ IsFiniteSet(After(S, f))
         /\ Cardinality(After(S, f)) = Cardinality(After(S, e)) + 1
<1> DEFINE x == <<c, f[c]>>
<1>1. x \notin After(S, e)
  <2> SUFFICES ASSUME NEW d \in S, NEW k \in 2..e[d], <<d, k>> = x PROVE FALSE
    BY AfterIs
  <2>1. d = c /\ k = f[c]
    OBVIOUS
  <2> QED BY <2>1
<1>2. ASSUME NEW y PROVE y \in After(S, f) <=> y \in After(S, e) \cup {x}
  <2>1. ASSUME NEW d \in S, NEW k
        PROVE  k \in 2..f[d] <=> k \in 2..e[d] \/ (d = c /\ k = f[c])
    BY SMT
  <2>2. y \in After(S, f) <=> (\E d \in S : \E k : k \in 2..f[d] /\ y = <<d, k>>)
    BY AfterIs
  <2>3. y \in After(S, e) <=> (\E d \in S : \E k : k \in 2..e[d] /\ y = <<d, k>>)
    BY AfterIs
  <2> QED BY <2>1, <2>2, <2>3
<1>3. After(S, f) = After(S, e) \cup {x}
  BY <1>2
<1> HIDE DEF x
<1> QED BY <1>1, <1>3, FS_AddElement

(* Repeated, in these terms. *)
LEMMA RepeatedIsAfter == Repeated = After(L!Calls, executions)
BY DEF Repeated, After

(* An execution of the current call counts as a repetition unless it is    *)
(* the first.                                                              *)
LEMMA ExecutionCounts ==
  ASSUME LinkTypes, LinkTypes', IsFiniteSet(Repeated), NEW c \in L!Calls,
         executions' = [executions EXCEPT ![c] = @ + 1]
  PROVE  /\ IsFiniteSet(Repeated') /\ Repetitions \in Nat /\ Repetitions' \in Nat
         /\ executions'[c] = executions[c] + 1
         /\ \A d \in L!Calls : d # c => executions'[d] = executions[d]
         /\ executions[c] = 0 => Repetitions' = Repetitions
         /\ executions[c] > 0 => Repetitions' = Repetitions + 1
<1>0. executions \in [L!Calls -> Nat] /\ executions' \in [L!Calls -> Nat]
  BY DEF LinkTypes, L!Shapes
<1>1. /\ executions'[c] = executions[c] + 1
      /\ \A d \in L!Calls : d # c => executions'[d] = executions[d]
  BY <1>0
<1>2. Repeated = After(L!Calls, executions)
  BY RepeatedIsAfter
<1>3. Repeated' = After(L!Calls, executions')
  BY DEF Repeated, After, L!Calls
<1> DEFINE S == L!Calls
           f == executions'
<1>a. f \in [S -> Nat] /\ c \in S
  BY <1>0
<1>b. f[c] = executions[c] + 1 /\ \A d \in S : d # c => f[d] = executions[d]
  BY <1>1
<1>c. executions \in [S -> Nat] /\ Repeated = After(S, executions) /\ Repeated' = After(S, f)
  BY <1>0, <1>2, <1>3
<1> HIDE DEF f, S
<1>4. CASE executions[c] = 0
  <2>1. f[c] = 1
    BY <1>4, <1>b
  <2>2. After(S, f) = After(S, executions)
    BY <1>a, <1>b, <1>c, <1>4, <2>1, FirstIsNone
  <2>3. Repeated' = Repeated
    BY <1>c, <2>2
  <2> QED BY <1>1, <1>4, <2>3, FS_CardinalityType DEF Repetitions
<1>5. CASE executions[c] > 0
  <2>1. /\ IsFiniteSet(After(S, f))
        /\ Cardinality(After(S, f)) = Cardinality(After(S, executions)) + 1
    BY <1>a, <1>b, <1>c, <1>5, AgainIsOne
  <2>2. Repetitions \in Nat /\ Repetitions' = Repetitions + 1
    BY <1>c, <2>1, FS_CardinalityType DEF Repetitions
  <2> QED BY <1>1, <1>c, <1>5, <2>1, <2>2
<1> QED BY <1>0, <1>4, <1>5

(* Without an execution nothing is repeated. *)
LEMMA NothingCounts ==
  ASSUME IsFiniteSet(Repeated), executions' = executions
  PROVE  Repeated' = Repeated /\ Repetitions \in Nat /\ Repetitions' = Repetitions
BY FS_CardinalityType DEF Repeated, Repetitions, L!Calls

-----------------------------------------------------------------------------
(* The steps keep the invariant of the link. *)

(* What the types say that the steps need. *)
LEMMA CallTypes ==
  ASSUME LinkTypes
  PROVE  /\ MaxCalls \in Nat /\ call \in 0..MaxCalls /\ garbles \in Nat
         /\ executions \in [L!Calls -> Nat]
         /\ cpc \in {"idle", "await"} /\ spc \in {"receive", "send", "gone"}
         /\ up.kind \in {"none", "command", "nak"}
         /\ down.kind \in {"none", "answer", "nak"}
         /\ outbuf.kind \in {"none", "answer", "nak"}
         /\ spc = "gone" => ~partial /\ outbuf = L!NoResponse
BY ServerAssumption, ScriptAssumption
   DEF LinkTypes, L!Shapes, L!Flags, L!Frames, L!Responses, MaxCalls

(* The steps keep the turns of the two parties. *)
LEMMA HalfDuplexStep ==
  ASSUME LinkTypes, HalfDuplex, LinkStep \/ UNCHANGED <<linkVars, exits>>
  PROVE  HalfDuplex'
<1> USE CallTypes DEF HalfDuplex, L!Calls, L!NoFrame, L!NoResponse, L!Command,
      L!ClientNak, L!ServerNak, L!Answer, L!SendUp, L!Received, L!Delivered, L!clientVars,
      L!history, L!lineVars
<1>1. CASE L!Issue
  BY <1>1 DEF L!Issue
<1>2. CASE L!OnResponse
  BY <1>2 DEF L!OnResponse
<1>3. CASE L!GiveUp
  BY <1>3 DEF L!GiveUp
<1>4. CASE L!Garble
  BY <1>4 DEF L!Garble
<1>5. CASE L!LoseLineEnd
  BY <1>5 DEF L!LoseLineEnd
<1>6. CASE L!Unheard
  BY <1>6 DEF L!Unheard
<1>7. CASE NakGarbled
  BY <1>7 DEF NakGarbled
<1>8. CASE L!Dispatch
  BY <1>8 DEF L!Dispatch
<1>9. CASE Crashes
  BY <1>9 DEF Crashes
<1>10. CASE L!Reject
  BY <1>10 DEF L!Reject
<1>11. CASE Unknown
  BY <1>11 DEF Unknown
<1>12. CASE L!Resend
  BY <1>12 DEF L!Resend
<1>13. CASE L!Send
  BY <1>13 DEF L!Send
<1>14. CASE L!Exit
  BY <1>14 DEF L!Exit
<1>15. CASE L!Restart
  BY <1>15 DEF L!Restart
<1>16. CASE UNCHANGED <<linkVars, exits>>
  BY <1>16 DEF linkVars
<1> QED
  BY <1>1, <1>2, <1>3, <1>4, <1>5, <1>6, <1>7, <1>8,
     <1>9, <1>10, <1>11, <1>12, <1>13, <1>14, <1>15, <1>16 DEF LinkStep

(* The steps keep what is known of a fragment. *)
LEMMA FragmentsStep ==
  ASSUME LinkTypes, HalfDuplex, NotAhead, Fragments, LinkStep \/ UNCHANGED <<linkVars, exits>>
  PROVE  Fragments'
<1> USE CallTypes DEF HalfDuplex, NotAhead, Fragments, L!Calls, L!NoFrame, L!NoResponse,
      L!Command, L!ClientNak, L!ServerNak, L!Answer, L!SendUp, L!Received, L!Delivered,
      L!clientVars, L!history, L!lineVars
<1>1. CASE L!Issue
  BY <1>1 DEF L!Issue
<1>2. CASE L!OnResponse
  BY <1>2 DEF L!OnResponse
<1>3. CASE L!GiveUp
  BY <1>3 DEF L!GiveUp
<1>4. CASE L!Garble
  BY <1>4 DEF L!Garble
<1>5. CASE L!LoseLineEnd
  BY <1>5 DEF L!LoseLineEnd
<1>6. CASE L!Unheard
  BY <1>6 DEF L!Unheard
<1>7. CASE NakGarbled
  BY <1>7 DEF NakGarbled
<1>8. CASE L!Dispatch
  BY <1>8 DEF L!Dispatch
<1>9. CASE Crashes
  BY <1>9 DEF Crashes
<1>10. CASE L!Reject
  BY <1>10 DEF L!Reject
<1>11. CASE Unknown
  BY <1>11 DEF Unknown
<1>12. CASE L!Resend
  BY <1>12 DEF L!Resend
<1>13. CASE L!Send
  BY <1>13 DEF L!Send
<1>14. CASE L!Exit
  BY <1>14 DEF L!Exit
<1>15. CASE L!Restart
  BY <1>15 DEF L!Restart
<1>16. CASE UNCHANGED <<linkVars, exits>>
  BY <1>16 DEF linkVars
<1> QED
  BY <1>1, <1>2, <1>3, <1>4, <1>5, <1>6, <1>7, <1>8,
     <1>9, <1>10, <1>11, <1>12, <1>13, <1>14, <1>15, <1>16 DEF LinkStep

(* What is dispatched is the current call, and the execution is counted. *)
LEMMA DispatchIsCurrent ==
  ASSUME LinkTypes, LinkTypes', HalfDuplex, L!Dispatch
  PROVE  /\ up.call = call /\ call \in L!Calls /\ cpc = "await" /\ cpc' = cpc /\ call' = call
         /\ executions' = [executions EXCEPT ![call] = @ + 1]
         /\ up'.kind = "none" /\ down' = down /\ down.kind = "none"
         /\ spc' = "send" /\ garbles' = garbles
         /\ \E code \in L!Codes : /\ outcome' = [outcome EXCEPT ![call] = code]
                                   /\ outbuf' = L!Answer(call, code)
<1> USE CallTypes DEF HalfDuplex
<1>1. /\ up.call = call /\ call \in L!Calls /\ cpc = "await" /\ cpc' = cpc /\ call' = call
      /\ up'.kind = "none" /\ down' = down /\ down.kind = "none"
      /\ spc' = "send" /\ garbles' = garbles
  BY DEF L!Dispatch, L!Received, L!SendUp, L!NoFrame, L!clientVars, L!lineVars
<1>2. PICK code \in L!Codes : Executes(code)
  BY DispatchExecutes
<1> QED BY <1>1, <1>2 DEF Executes

(* No step runs a call before it is issued. *)
LEMMA NotAheadStep ==
  ASSUME LinkTypes, LinkTypes', HalfDuplex, NotAhead, LinkStep \/ UNCHANGED <<linkVars, exits>>
  PROVE  NotAhead'
<1> USE CallTypes DEF HalfDuplex, NotAhead, L!Calls, L!NoFrame, L!NoResponse, L!Command,
      L!ClientNak, L!ServerNak, L!Answer, L!SendUp, L!Received, L!Delivered, L!clientVars,
      L!history, L!lineVars
<1>1. CASE L!Issue
  BY <1>1 DEF L!Issue
<1>2. CASE L!OnResponse
  BY <1>2 DEF L!OnResponse
<1>3. CASE L!GiveUp
  BY <1>3 DEF L!GiveUp
<1>4. CASE L!Garble
  BY <1>4 DEF L!Garble
<1>5. CASE L!LoseLineEnd
  BY <1>5 DEF L!LoseLineEnd
<1>6. CASE L!Unheard
  BY <1>6 DEF L!Unheard
<1>7. CASE NakGarbled
  BY <1>7 DEF NakGarbled
<1>8. CASE L!Dispatch
  <2>1. /\ call' = call /\ call \in L!Calls
        /\ executions' = [executions EXCEPT ![call] = @ + 1]
    BY <1>8, DispatchIsCurrent
  <2>2. PICK code \in L!Codes : outcome' = [outcome EXCEPT ![call] = code]
    BY <1>8, DispatchIsCurrent
  <2>3. outcome \in [L!Calls -> L!Codes \cup {"-"}]
    BY DEF LinkTypes, L!Shapes
  <2>4. \A c \in L!Calls :
          c > call => executions'[c] = executions[c] /\ outcome'[c] = outcome[c]
    BY <2>1, <2>2, <2>3
  <2> QED BY <2>1, <2>4
<1>9. CASE Crashes
  BY <1>9 DEF Crashes
<1>10. CASE L!Reject
  BY <1>10 DEF L!Reject
<1>11. CASE Unknown
  BY <1>11 DEF Unknown
<1>12. CASE L!Resend
  BY <1>12 DEF L!Resend
<1>13. CASE L!Send
  BY <1>13 DEF L!Send
<1>14. CASE L!Exit
  BY <1>14 DEF L!Exit
<1>15. CASE L!Restart
  BY <1>15 DEF L!Restart
<1>16. CASE UNCHANGED <<linkVars, exits>>
  BY <1>16 DEF linkVars
<1> QED
  BY <1>1, <1>2, <1>3, <1>4, <1>5, <1>6, <1>7, <1>8,
     <1>9, <1>10, <1>11, <1>12, <1>13, <1>14, <1>15, <1>16 DEF LinkStep

(* No step repeats a call that the noise has not paid for. *)
LEMMA DebtsStep ==
  ASSUME LinkTypes, LinkTypes', HalfDuplex, Fragments, NotAhead, Debts,
         LinkStep \/ UNCHANGED <<linkVars, exits>>
  PROVE  Debts'
<1> USE CallTypes DEF HalfDuplex, Fragments, NotAhead, Debts, Owed, AtHand, L!Calls,
      L!NoFrame, L!NoResponse, L!Command, L!ClientNak, L!ServerNak, L!Answer, L!SendUp,
      L!Received, L!Delivered, L!clientVars, L!history, L!lineVars
<1>1. CASE L!Issue
  BY <1>1, NothingCounts DEF L!Issue
<1>2. CASE L!OnResponse
  BY <1>2, NothingCounts DEF L!OnResponse
<1>3. CASE L!GiveUp
  BY <1>3, NothingCounts DEF L!GiveUp
<1>4. CASE L!Garble
  BY <1>4, NothingCounts DEF L!Garble
<1>5. CASE L!LoseLineEnd
  BY <1>5, NothingCounts DEF L!LoseLineEnd
<1>6. CASE L!Unheard
  BY <1>6, NothingCounts DEF L!Unheard
<1>7. CASE NakGarbled
  BY <1>7, NothingCounts DEF NakGarbled
<1>8. CASE L!Dispatch
  <2>1. /\ call' = call /\ call \in L!Calls /\ garbles' = garbles
        /\ executions' = [executions EXCEPT ![call] = @ + 1]
        /\ up'.kind = "none" /\ down'.kind = "none"
    BY <1>8, DispatchIsCurrent
  <2>2. outbuf'.kind = "answer" /\ outbuf'.code # "N"
    BY <1>8, DispatchIsCurrent DEF L!Codes
  <2>3. Owed(0)' /\ IsFiniteSet(Repeated')
    <3>1. executions[call] > 0 => Owed(2)
      BY <1>8, DispatchIsCurrent DEF L!Dispatch
    <3>2. executions[call] \in Nat
      BY <2>1
    <3>3. /\ IsFiniteSet(Repeated') /\ Repetitions \in Nat /\ Repetitions' \in Nat
          /\ executions[call] = 0 => Repetitions' = Repetitions
          /\ executions[call] > 0 => Repetitions' = Repetitions + 1
      BY <2>1, ExecutionCounts
    <3> QED BY <2>1, <3>1, <3>2, <3>3
  <2> QED BY <2>1, <2>2, <2>3
<1>9. CASE Crashes
  BY <1>9, NothingCounts DEF Crashes
<1>10. CASE L!Reject
  <2>1. UNCHANGED <<executions, cpc, call, garbles, down, downOk>>
    BY <1>10 DEF L!Reject
  <2>2. up'.kind = "none" /\ spc' = "send" /\ outbuf'.kind = "nak" /\ down.kind = "none"
    BY <1>10 DEF L!Reject
  <2>3. cpc = "await" /\ executions[call] > 0 => Owed(2)
    BY <1>10 DEF L!Reject, L!ChecksumFails
  <2> QED BY <2>1, <2>2, <2>3, NothingCounts
<1>11. CASE Unknown
  BY <1>11, NothingCounts DEF Unknown
<1>12. CASE L!Resend
  BY <1>12, NothingCounts DEF L!Resend
<1>13. CASE L!Send
  BY <1>13, NothingCounts DEF L!Send
<1>14. CASE L!Exit
  BY <1>14, NothingCounts DEF L!Exit
<1>15. CASE L!Restart
  BY <1>15, NothingCounts DEF L!Restart
<1>16. CASE UNCHANGED <<linkVars, exits>>
  BY <1>16, NothingCounts DEF linkVars
<1> QED
  BY <1>1, <1>2, <1>3, <1>4, <1>5, <1>6, <1>7, <1>8,
     <1>9, <1>10, <1>11, <1>12, <1>13, <1>14, <1>15, <1>16 DEF LinkStep

(* No step puts a stale success at hand. *)
LEMMA OwnAnswersStep ==
  ASSUME LinkTypes, LinkTypes', HalfDuplex, OwnAnswers,
         LinkStep \/ UNCHANGED <<linkVars, exits>>
  PROVE  OwnAnswers'
<1> USE CallTypes DEF HalfDuplex, OwnAnswers, AtHand, L!Calls, L!NoFrame, L!NoResponse,
      L!Command, L!ClientNak, L!ServerNak, L!Answer, L!SendUp, L!Received, L!Delivered,
      L!clientVars, L!history, L!lineVars
<1>1. CASE L!Issue
  BY <1>1 DEF L!Issue
<1>2. CASE L!OnResponse
  BY <1>2 DEF L!OnResponse
<1>3. CASE L!GiveUp
  BY <1>3 DEF L!GiveUp
<1>4. CASE L!Garble
  BY <1>4 DEF L!Garble
<1>5. CASE L!LoseLineEnd
  BY <1>5 DEF L!LoseLineEnd
<1>6. CASE L!Unheard
  BY <1>6 DEF L!Unheard
<1>7. CASE NakGarbled
  BY <1>7 DEF NakGarbled
<1>8. CASE L!Dispatch
  <2>1. /\ cpc' = "await" /\ call' = call /\ call \in L!Calls /\ down'.kind = "none"
    BY <1>8, DispatchIsCurrent
  <2>2. PICK code \in L!Codes : /\ outcome' = [outcome EXCEPT ![call] = code]
                                /\ outbuf' = L!Answer(call, code)
    BY <1>8, DispatchIsCurrent
  <2>3. outcome'[call] = code
    BY <2>1, <2>2 DEF LinkTypes, L!Shapes
  <2> QED BY <2>1, <2>2, <2>3
<1>9. CASE Crashes
  BY <1>9 DEF Crashes
<1>10. CASE L!Reject
  BY <1>10 DEF L!Reject
<1>11. CASE Unknown
  BY <1>11 DEF Unknown
<1>12. CASE L!Resend
  BY <1>12 DEF L!Resend
<1>13. CASE L!Send
  BY <1>13 DEF L!Send
<1>14. CASE L!Exit
  BY <1>14 DEF L!Exit
<1>15. CASE L!Restart
  BY <1>15 DEF L!Restart
<1>16. CASE UNCHANGED <<linkVars, exits>>
  BY <1>16 DEF linkVars
<1> QED
  BY <1>1, <1>2, <1>3, <1>4, <1>5, <1>6, <1>7, <1>8,
     <1>9, <1>10, <1>11, <1>12, <1>13, <1>14, <1>15, <1>16 DEF LinkStep

(* The invariant of the link holds at the start. *)
LEMMA LinkInit == Init => LinkInv
<1> SUFFICES ASSUME Init PROVE LinkInv
  OBVIOUS
<1> USE DEF Init, L!Init
<1>1. LinkTypes
  <2>1. MaxCalls \in Nat /\ MaxGarbles \in Nat /\ MaxLostEnds \in Nat /\ MaxExits \in Nat
    BY ServerAssumption, ScriptAssumption DEF MaxCalls
  <2>2. L!Shapes
    BY <2>1, FrameTypes DEF L!Shapes
  <2>3. L!Flags
    BY DEF L!Flags
  <2> QED BY <2>2, <2>3 DEF LinkTypes
<1>2. HalfDuplex /\ Fragments /\ NotAhead /\ OwnAnswers
  BY DEF HalfDuplex, Fragments, NotAhead, OwnAnswers, L!NoFrame, L!NoResponse
<1>3. Repeated = {}
  BY DEF Repeated
<1>4. Debts
  BY <1>3, FS_EmptySet DEF Debts, Owed, Repetitions
<1> QED BY <1>1, <1>2, <1>4 DEF LinkInv

(* Every step keeps it. *)
LEMMA LinkInvStep == LinkInv /\ [Next]_vars => LinkInv'
<1> SUFFICES ASSUME LinkInv, [Next]_vars PROVE LinkInv'
  OBVIOUS
<1>1. LinkStep \/ UNCHANGED <<linkVars, exits>>
  BY StepsOfTheLink DEF LinkInv, LinkTypes
<1>2. LinkTypes'
  BY <1>1, LinkTypesStep DEF LinkInv
<1>3. HalfDuplex' /\ Fragments' /\ NotAhead'
  BY <1>1, <1>2, HalfDuplexStep, FragmentsStep, NotAheadStep DEF LinkInv
<1>4. Debts' /\ OwnAnswers'
  BY <1>1, <1>2, DebtsStep, OwnAnswersStep DEF LinkInv
<1> QED BY <1>2, <1>3, <1>4 DEF LinkInv

(* Every repetition of a call has cost two damaged frames, whatever the    *)
(* line does besides: server.c carries a call out again only when a NAK    *)
(* overwrote its response, and only a damaged 'N' makes it write that NAK. *)
THEOREM RepetitionsAreDear == Spec => []RepetitionsCostTwo
<1>1. LinkInv => RepetitionsCostTwo
  <2> SUFFICES ASSUME LinkInv PROVE RepetitionsCostTwo
    OBVIOUS
  <2>1. Repetitions \in Nat /\ garbles \in Nat
    BY CallTypes, FS_CardinalityType DEF LinkInv, Debts, Repetitions
  <2> QED BY <2>1 DEF LinkInv, Debts, Owed, RepetitionsCostTwo
<1> QED
  BY LinkInit, LinkInvStep, <1>1, PTL DEF Spec

(* An answer of success that a call ends with is the outcome of its latest *)
(* execution, never one left over from another call or an earlier process. *)
THEOREM SuccessIsNeverStale == Spec => SuccessIsOwn
<1>1. LinkInv /\ [Next]_vars =>
        [got' # got /\ got'[2] \in {"b", "e"} => got' = <<call, outcome[call]>>]_vars
  <2> SUFFICES ASSUME LinkInv, [Next]_vars, got' # got, got'[2] \in {"b", "e"}
               PROVE  got' = <<call, outcome[call]>>
    OBVIOUS
  <2>1. L!OnResponse
    BY StepsOfTheLink
       DEF LinkInv, LinkTypes, LinkStep, linkVars, L!Issue, L!GiveUp, L!Garble,
             L!LoseLineEnd,
           L!Unheard, NakGarbled, L!Dispatch, Crashes, L!Reject, Unknown, L!Resend, L!Send,
           L!Exit, L!Restart, L!clientVars
  <2>2. cpc = "await" /\ down.kind # "none" /\ got' = <<down.call, down.code>>
    BY <2>1 DEF L!OnResponse, L!clientVars
  <2> QED BY <2>2 DEF LinkInv, OwnAnswers
<1> QED
  BY LinkInit, LinkInvStep, <1>1, PTL DEF Spec, SuccessIsOwn

-----------------------------------------------------------------------------
(* The server's files are those of HostcmFiles: what is proved of them     *)
(* holds of the server.                                                    *)

FP == INSTANCE HostcmFilesProofs WITH
        Names <- {[base |-> "a", ext |-> "x"]}, Modes <- {"w"}, Types <- {"v"},
        RecordLengths <- {0}, DefaultRL <- 80, InitialDisk <- {},
        Requests <- {<<"w", [base |-> "a", ext |-> "x"], "v", 0>>},
        StaleHandles <- TRUE, MaxReboots <- 0

(* The constants, and where the client's calls stand in its script. *)
LEMMA CallsAre ==
  /\ MaxCalls \in Nat /\ MaxCalls > 1 /\ MaxPuts \in Nat /\ NFiles \in Nat
  /\ F!Slots = 1..NFiles /\ 0 \notin F!Slots
  /\ Script[1] = "open" /\ Script[MaxCalls] = "close"
  /\ \A c \in L!Calls : /\ Script[c] = "open" => c = 1
                        /\ Script[c] = "close" => c = MaxCalls
                        /\ Script[c] = "put" => c # 1 /\ c # MaxCalls
<1>1. MaxCalls \in Nat /\ MaxCalls > 1
  BY ScriptAssumption DEF MaxCalls
<1>2. MaxPuts \in Nat
  BY <1>1, ServerAssumption DEF MaxPuts
<1>3. ASSUME NEW c \in L!Calls
      PROVE  \/ c = 1 /\ Script[c] = "open"
             \/ c = MaxCalls /\ Script[c] = "close"
             \/ c # 1 /\ c # MaxCalls /\ Script[c] = "put"
  BY <1>1, ScriptAssumption DEF MaxCalls, L!Calls
<1>4. Script[1] = "open" /\ Script[MaxCalls] = "close"
  BY ScriptAssumption DEF MaxCalls
<1>5. \A c \in L!Calls : /\ Script[c] = "open" => c = 1
                         /\ Script[c] = "close" => c = MaxCalls
                         /\ Script[c] = "put" => c # 1 /\ c # MaxCalls
  BY <1>3, Zenon
<1> QED BY <1>1, <1>2, <1>4, <1>5, ServerAssumption DEF F!Slots

(* The assumptions of HostcmFiles, of the server's files. *)
LEMMA FilesGiven ==
  /\ NFiles \in Nat \ {0} /\ 80 \in Nat \ {0}
  /\ {"w"} \subseteq {"r", "l", "w", "s", "u", "a"}
  /\ {"v"} \subseteq {"t", "v", "f"} /\ {0} \subseteq Nat
  /\ TRUE \in BOOLEAN
  /\ MaxPuts \in Nat /\ MaxFaults \in Nat /\ MaxExits \in Nat /\ 0 \in Nat
BY CallsAre, ServerAssumption

(* The disk is empty at the start. *)
LEMMA NoFilesGiven == {} \subseteq FP!Paths
OBVIOUS

(* The files as the server has them and as they are proved about are the   *)
(* same.                                                                   *)
LEMMA SameSteps ==
  /\ F!Init <=> FP!Init
  /\ F!Open => FP!Open
  /\ F!ExitOnError => FP!ExitOnError
  /\ F!Next => FP!Next
  /\ F!Slots = FP!Slots
  /\ \A i : F!IsOpen(i) <=> FP!IsOpen(i)
<1> USE DEF F!vars, FP!vars, F!client, FP!client, F!Slots, FP!Slots, F!Closed,
    FP!Closed, F!Nothing, FP!Nothing, F!IsOpen, FP!IsOpen, F!Ends, FP!Ends
<1>1. F!Init <=> FP!Init
  BY Zenon DEF F!Init, FP!Init
<1>2. F!Open => FP!Open
  BY Zenon DEF F!Open, FP!Open, F!OpenRefused, FP!OpenRefused, F!Opened, FP!Opened,
      F!Free, FP!Free, F!Stream, FP!Stream, F!Flags, FP!Flags, F!OpenOn, FP!OpenOn,
      F!Given, FP!Given, F!Assumed, FP!Assumed, F!AssumedFormat, FP!AssumedFormat,
      F!EffectiveRL, FP!EffectiveRL, F!LacksFormat, FP!LacksFormat, F!Min, FP!Min, F!Cardinality, FP!Cardinality,
      F!IsFiniteSet, FP!IsFiniteSet
<1>3. \A i : F!Put(i) => FP!Put(i)
  BY Zenon DEF F!Put, FP!Put, F!Uses, FP!Uses, F!Crash, FP!Crash, F!Refused,
      FP!Refused, F!Takes, FP!Takes, F!Flushed, FP!Flushed, F!WriteAt, FP!WriteAt,
      F!Padded, FP!Padded
<1>4. \A i : F!Close(i) => FP!Close(i)
  BY Zenon DEF F!Close, FP!Close, F!Uses, FP!Uses, F!NotOpen, FP!NotOpen, F!Crash,
      FP!Crash, F!Refused, FP!Refused, F!FlushedDisk, FP!FlushedDisk, F!FlushedInto,
      FP!FlushedInto, F!Flushed, FP!Flushed, F!WriteAt, FP!WriteAt, F!Padded,
      FP!Padded
<1>5. F!Kill => FP!Kill
  BY Zenon DEF F!Kill, FP!Kill
<1>6. F!ExitOnError => FP!ExitOnError
  BY Zenon DEF F!ExitOnError, FP!ExitOnError, F!WrittenOut, FP!WrittenOut,
      F!FlushedInto, FP!FlushedInto, F!Flushed, FP!Flushed, F!WriteAt, FP!WriteAt,
      F!Padded, FP!Padded
<1>7. F!Restart => FP!Restart
  BY Zenon DEF F!Restart, FP!Restart
<1>8. \A i : F!Seek(i) => FP!Seek(i)
  BY Zenon DEF F!Seek, FP!Seek, F!SeekTo, FP!SeekTo, F!Uses, FP!Uses, F!NotOpen,
      FP!NotOpen, F!Crash, FP!Crash, F!Refused, FP!Refused, F!FlushedDisk,
      FP!FlushedDisk, F!FlushedInto, FP!FlushedInto, F!Flushed, FP!Flushed, F!WriteAt,
      FP!WriteAt, F!Padded, FP!Padded
<1>9. \A i : F!Get(i) => FP!Get(i)
  BY Zenon DEF F!Get, FP!Get, F!Uses, FP!Uses, F!NotOpen, FP!NotOpen, F!Crash,
      FP!Crash, F!Refused, FP!Refused, F!FlushedDisk, FP!FlushedDisk, F!FlushedInto,
      FP!FlushedInto, F!Flushed, FP!Flushed, F!WriteAt, FP!WriteAt, F!Padded,
      FP!Padded
<1>10. F!Initialize => FP!Initialize
  BY Zenon DEF F!Initialize, FP!Initialize
<1>11. F!Quit => FP!Quit
  BY Zenon DEF F!Quit, FP!Quit, F!Cardinality, FP!Cardinality, F!IsFiniteSet,
      FP!IsFiniteSet, F!WrittenOut, FP!WrittenOut, F!FlushedInto, FP!FlushedInto,
      F!Flushed, FP!Flushed, F!WriteAt, FP!WriteAt, F!Padded, FP!Padded
<1>12. F!Next => FP!Next
  BY <1>2, <1>3, <1>4, <1>5, <1>6, <1>7, <1>8, <1>9, <1>10, <1>11, Zenon DEF F!Next, FP!Next
<1> QED BY <1>1, <1>2, <1>3, <1>4, <1>5, <1>6, <1>7, <1>12, Zenon

(* The fileid the client holds is a slot; it has one as soon as it has made *)
(* its second call, and only the answer to its first brings it.            *)
Fileids ==
  /\ fileid \in 0..NFiles
  /\ fileid # 0 => call > 0 /\ (call = 1 => cpc = "idle")
  /\ call > 1 => fileid # 0
  /\ cpc = "await" /\ call = 1 =>
       /\ down.kind # "none" /\ down.code = "b" => downId \in F!Slots
       /\ AtHand /\ outbuf.code = "b" => outId \in F!Slots

(* At the start there is none. *)
LEMMA FileidsInit == Init => Fileids
BY CallsAre DEF Init, L!Init, Fileids

(* Who executes a command, and on which slot. *)
LEMMA ExecutesFor ==
  ASSUME LinkTypes, HalfDuplex, Fileids, up.kind = "command"
  PROVE  /\ up.call = call /\ call \in L!Calls /\ cpc = "await"
         /\ Script[up.call] = "open" => call = 1 /\ fileid = 0
         /\ Script[up.call] \in {"put", "close"} => fileid \in F!Slots
<1>1. up.call = call /\ call \in L!Calls /\ cpc = "await"
  BY CallTypes DEF HalfDuplex
<1>2. Script[call] = "open" => call = 1
  BY <1>1, CallsAre
<1>3. call = 1 => fileid = 0
  BY <1>1 DEF Fileids
<1>4. Script[call] \in {"put", "close"} => call # 1
  BY CallsAre
<1>5. call # 1 => fileid # 0
  BY <1>1, CallsAre DEF Fileids, L!Calls
<1> QED BY <1>1, <1>2, <1>3, <1>4, <1>5, CallsAre DEF Fileids

FileStep == F!Next \/ UNCHANGED F!vars

(* A step of the server is one of the file table or leaves it alone. *)
LEMMA FilesMove ==
  ASSUME LinkTypes, HalfDuplex, Fileids, [Next]_vars
  PROVE  FileStep
<1> USE DEF FileStep
<1>0. UNCHANGED <<fileVars, exits>> => UNCHANGED F!vars
  BY DEF F!vars, fileVars
<1>1. CASE \/ Issue \/ OnResponse \/ Elsewhere \/ GarbleNak
           \/ Reject \/ UnknownCommand \/ Resend \/ Send
  <2>1. UNCHANGED <<fileVars, exits>>
    BY <1>1
       DEF Issue, OnResponse, Elsewhere, GarbleNak, Reject, UnknownCommand, Resend, Send,
           L!Issue, L!OnResponse, L!GiveUp, L!Garble, L!LoseLineEnd, L!Unheard, L!Reject,
           L!Resend, L!Send
  <2> QED BY <1>0, <2>1
<1>2. CASE Dispatch
  <2>1. up.kind = "command"
    BY <1>2 DEF Dispatch, L!Dispatch
  <2>2. CASE Script[up.call] = "open" /\ OpenCommand
    BY <2>2 DEF OpenCommand, F!Next
  <2>3. CASE Script[up.call] = "put" /\ PutCommand
    BY <2>1, <2>3, ExecutesFor DEF PutCommand, F!Next
  <2>4. CASE Script[up.call] = "close" /\ CloseCommand
    <3>1. CASE F!Close(fileid)
      BY <2>1, <2>4, <3>1, ExecutesFor DEF F!Next
    <3>2. CASE F!Refused
      BY <3>2 DEF F!Refused
    <3> QED BY <2>4, <3>1, <3>2 DEF CloseCommand
  <2> QED BY <1>2, <2>2, <2>3, <2>4 DEF Dispatch
<1>3. CASE DispatchCrashing
  <2>1. up.kind = "command"
    BY <1>3 DEF DispatchCrashing
  <2>2. CASE Script[up.call] = "put" /\ F!Put(fileid)
    BY <2>1, <2>2, ExecutesFor DEF F!Next
  <2>3. CASE Script[up.call] = "close" /\ F!Close(fileid)
    BY <2>1, <2>3, ExecutesFor DEF F!Next
  <2> QED BY <1>3, <2>2, <2>3 DEF DispatchCrashing
<1>4. CASE Exit
  BY <1>4 DEF Exit, F!Next
<1>5. CASE Restart
  BY <1>5 DEF Restart, F!Next
<1>6. CASE UNCHANGED vars
  BY <1>0, <1>6 DEF vars
<1> QED BY <1>1, <1>2, <1>3, <1>4, <1>5, <1>6 DEF Next

(* So the invariant of the files is one of the server. *)
LEMMA FilesKeep ==
  ASSUME LinkTypes, HalfDuplex, Fileids, FP!FilesInv, [Next]_vars
  PROVE  FP!FilesInv'
<1>1. [FP!Next]_(FP!vars)
  BY FilesMove, SameSteps DEF FileStep, F!vars, FP!vars
<1> QED BY <1>1, FilesGiven, NoFilesGiven, FP!NextInv

(* The invariant of the files holds at the start. *)
LEMMA FilesStart == Init => FP!FilesInv
<1>1. Init => FP!Init
  BY SameSteps DEF Init
<1> QED BY <1>1, FilesGiven, NoFilesGiven, FP!InitInv

-----------------------------------------------------------------------------
(* The fileid. *)

(* Min picks a member. *)
LEMMA MinIsOf ==
  ASSUME NEW T \in SUBSET Nat, T # {}
  PROVE  Min(T) \in T
BY FilesGiven, NoFilesGiven, FP!Least DEF Min

(* The steps keep the fileids. *)
LEMMA FileidsStep ==
  ASSUME LinkInv, LinkInv', Fileids, FP!FilesInv, [Next]_vars
  PROVE  Fileids'
<1> USE CallsAre, CallTypes DEF LinkInv, HalfDuplex, OwnAnswers, AtHand, Fileids, L!Calls
<1>1. CASE Issue
  <2>1. /\ call' = call + 1 /\ cpc' = "await" /\ fileid' = fileid /\ downId' = downId
        /\ outId' = outId /\ call' \in L!Calls /\ cpc = "idle"
        /\ down' = down /\ spc' = spc /\ up'.kind = "command"
    BY <1>1 DEF Issue, L!Issue, L!SendUp, L!Command, ownVars
  <2>2. call' > 1 => fileid # 0
    BY <1>1, <2>1 DEF Issue
  <2>3. call' = 1 => fileid = 0
    BY <2>1
  <2> QED BY <2>1, <2>2, <2>3
<1>2. CASE OnResponse
  <2>1. /\ cpc = "await" /\ down.kind # "none" /\ call' = call /\ outId' = outId
        /\ spc' = spc /\ outbuf' = outbuf /\ down'.kind = "none"
    BY <1>2 DEF OnResponse, L!OnResponse, L!Delivered, L!NoResponse, L!clientVars
  <2>2. CASE cpc' = "idle" /\ got'[2] = "b" /\ Script[call] = "open"
    <3>1. fileid' = downId
      BY <1>2, <2>2 DEF OnResponse
    <3>2. call = 1
      BY <2>1, <2>2
    <3>3. down.code = "b"
      BY <1>2, <2>1, <2>2 DEF OnResponse, L!OnResponse, L!clientVars
    <3>4. downId \in F!Slots
      BY <2>1, <3>2, <3>3
    <3> QED BY <2>1, <2>2, <3>1, <3>2, <3>4
  <2>3. CASE ~(cpc' = "idle" /\ got'[2] = "b" /\ Script[call] = "open")
    <3>1. fileid' = fileid
      BY <1>2, <2>3 DEF OnResponse
    <3>2. cpc' \in {"idle", "await"}
      BY <1>2 DEF OnResponse, L!OnResponse, L!clientVars
    <3> QED BY <2>1, <3>1, <3>2
  <2> QED BY <2>2, <2>3
<1>3. CASE Elsewhere \/ GarbleNak
  BY <1>3 DEF Elsewhere, GarbleNak, ownVars, L!GiveUp, L!Garble, L!LoseLineEnd, L!Unheard,
              L!SendUp, L!NoFrame, L!clientVars
<1>4. CASE Dispatch
  <2>1. /\ up.kind = "command" /\ fileid' = fileid /\ downId' = downId
        /\ cpc' = cpc /\ call' = call /\ down' = down
    BY <1>4 DEF Dispatch, L!Dispatch, L!clientVars
  <2>2. down.kind = "none"
    BY <2>1
  <2>3. ASSUME call = 1, outbuf'.code = "b" PROVE outId' \in F!Slots
    <3>1. /\ up.call = call /\ cpc = "await" /\ Script[call] = "open"
      BY <2>1, <2>3, ExecutesFor
    <3>2. OpenCommand
      BY <1>4, <3>1 DEF Dispatch
    <3>3. spc' = "send"
      BY <1>4 DEF Dispatch, L!Dispatch
    <3>4. outcome'[call] = "b"
      BY <2>1, <2>3, <3>1, <3>3
    <3> DEFINE opened == {i \in F!Slots : ftab[i] # ftab'[i]}
    <3>5. opened # {} /\ outId' = Min(opened)
      BY <3>1, <3>2, <3>4 DEF OpenCommand, Replied
    <3>6. opened \subseteq Nat /\ opened \subseteq F!Slots
      OBVIOUS
    <3> HIDE DEF opened
    <3>7. Min(opened) \in opened
      BY <3>5, <3>6, MinIsOf
    <3> QED BY <3>5, <3>6, <3>7
  <2> QED BY <2>1, <2>2, <2>3
<1>5. CASE DispatchCrashing
  BY <1>5 DEF DispatchCrashing, L!Received, L!SendUp, L!NoFrame, L!NoResponse
<1>6. CASE Reject
  BY <1>6 DEF Reject, L!Reject, L!Received, L!SendUp, L!NoFrame, L!ServerNak, L!clientVars
<1>7. CASE UnknownCommand
  BY <1>7 DEF UnknownCommand, L!Received, L!SendUp, L!NoFrame, L!Answer
<1>8. CASE Resend
  BY <1>8 DEF Resend, L!Resend, L!Received, L!SendUp, L!NoFrame, L!clientVars, ownVars
<1>9. CASE Send
  BY <1>9 DEF Send, L!Send, L!Answer, L!clientVars
<1>10. CASE Exit
  BY <1>10 DEF Exit, L!Exit, L!NoResponse, L!clientVars
<1>11. CASE Restart
  BY <1>11 DEF Restart, L!Restart, L!clientVars, ownVars
<1>12. CASE UNCHANGED vars
  BY <1>12 DEF vars, linkVars, ownVars
<1> QED
  BY <1>1, <1>2, <1>3, <1>4, <1>5, <1>6, <1>7, <1>8, <1>9, <1>10, <1>11, <1>12 DEF Next

-----------------------------------------------------------------------------
(* The puts. *)

(* Puts are numbered, each belongs to a call that was carried out, and     *)
(* those of a later call are later.                                        *)
PutsOrdered ==
  /\ puts \in Nat /\ putBy \in Seq(L!Calls) /\ Len(putBy) = puts
  /\ \A i \in 1..puts : putBy[i] <= call /\ executions[putBy[i]] > 0
  /\ \A i, j \in 1..puts : i < j => putBy[i] <= putBy[j]

(* Those that were answered with success were done. *)
PutsDone ==
  /\ answered \subseteq L!Calls
  /\ \A c \in L!Calls : Script[c] = "put" /\ outcome[c] = "b" => c \in ToSet(putBy)
  /\ \A c \in answered : Script[c] = "put" => c \in ToSet(putBy)

(* Every put but the first of its call is a repetition. *)
PutsCounted ==
  IsFiniteSet(ToSet(putBy)) /\ puts <= Repetitions + Cardinality(ToSet(putBy))

NoPutsYet == fileid = 0 => puts = 0

PutHistory == PutsOrdered /\ PutsDone /\ PutsCounted /\ NoPutsYet

(* A close answered with success is the last call's latest outcome. *)
CloseAnswered ==
  MaxCalls \in answered => outcome[MaxCalls] = "b" /\ call = MaxCalls /\ cpc = "idle"

(* A step that is not an execution. *)
Quiet == UNCHANGED <<puts, putBy, executions, outcome>>

(* Only a dispatch executes. *)
LEMMA QuietOrDispatch ==
  ASSUME [Next]_vars
  PROVE  Dispatch \/ Quiet
<1> USE DEF Quiet
<1>1. CASE \/ Issue \/ OnResponse \/ Elsewhere \/ GarbleNak
           \/ Reject \/ UnknownCommand \/ Resend \/ Send
  BY <1>1
     DEF Issue, OnResponse, Elsewhere, GarbleNak, Reject, UnknownCommand, Resend, Send,
         L!Issue, L!OnResponse, L!GiveUp, L!Garble, L!LoseLineEnd, L!Unheard, L!Reject,
         L!Resend, L!Send, L!history, fileVars, ownVars
<1>2. CASE DispatchCrashing
  <2>1. puts' = puts
    BY <1>2 DEF DispatchCrashing, F!Put, F!Close, F!Uses, F!NotOpen, F!Refused, F!Crash,
                F!Ends, F!vars
  <2> QED BY <1>2, <2>1 DEF DispatchCrashing
<1>3. CASE Exit
  BY <1>3 DEF Exit, L!Exit, L!history, F!Kill, F!ExitOnError, F!Ends
<1>4. CASE Restart
  BY <1>4 DEF Restart, L!Restart, L!history, F!Restart, ownVars
<1>5. CASE UNCHANGED vars
  BY <1>5 DEF vars, linkVars, fileVars, ownVars
<1> QED BY <1>1, <1>2, <1>3, <1>4, <1>5 DEF Next

(* The fileid changes once, when the open is answered. *)
LEMMA FileidMoves ==
  ASSUME LinkInv, Fileids, [Next]_vars
  PROVE  \/ fileid' = fileid
         \/ /\ fileid = 0 /\ fileid' \in F!Slots /\ call = 1
            /\ UNCHANGED <<call, disk, ftab, faults>> /\ Quiet
<1>1. CASE OnResponse
  <2>1. /\ cpc = "await" /\ down.kind # "none" /\ call' = call /\ call \in L!Calls
    BY <1>1 DEF OnResponse, L!OnResponse, L!clientVars, LinkInv, HalfDuplex
  <2>2. CASE cpc' = "idle" /\ got'[2] = "b" /\ Script[call] = "open"
    <3>1. fileid' = downId /\ UNCHANGED <<disk, ftab, faults>> /\ Quiet
      BY <1>1, <2>2 DEF OnResponse, L!OnResponse, L!history, fileVars, Quiet
    <3>2. call = 1
      BY <2>1, <2>2, CallsAre
    <3>3. down.code = "b"
      BY <1>1, <2>1, <2>2 DEF OnResponse, L!OnResponse, L!clientVars
    <3>4. downId \in F!Slots /\ fileid = 0
      BY <2>1, <3>2, <3>3 DEF Fileids
    <3> QED BY <2>1, <3>1, <3>2, <3>4
  <2> QED BY <1>1, <2>2 DEF OnResponse
<1>2. CASE ~OnResponse
  BY <1>2 DEF Next, Issue, Elsewhere, GarbleNak, Dispatch, DispatchCrashing, Reject,
              UnknownCommand, Resend, Send, Exit, Restart, vars, ownVars
<1> QED BY <1>1, <1>2

(* What a dispatch adds to the history of the puts. *)
LEMMA DispatchPuts ==
  ASSUME LinkInv, Fileids, puts \in Nat, Dispatch
  PROVE  \/ /\ UNCHANGED <<puts, putBy>>
            /\ Script[call] = "put" => outcome'[call] # "b"
         \/ /\ puts' = puts + 1 /\ putBy' = Append(putBy, call) /\ Script[call] = "put"
<1>1. up.kind = "command"
  BY DEF Dispatch, L!Dispatch
<1>2. up.call = call
  BY <1>1, ExecutesFor DEF LinkInv
<1>3. CASE Script[call] = "open" /\ OpenCommand
  BY <1>3 DEF OpenCommand, F!Open
<1>4. CASE Script[call] = "put" /\ PutCommand
  <2>1. puts' = puts \/ puts' = puts + 1
    BY <1>4 DEF PutCommand, F!Put, F!Crash, F!Ends, F!Refused, F!vars
  <2>2. CASE puts' = puts
    BY <1>2, <1>4, <2>2 DEF PutCommand, Replied
  <2>3. CASE puts' = puts + 1
    BY <1>2, <1>4, <2>3 DEF PutCommand
  <2> QED BY <2>1, <2>2, <2>3
<1>5. CASE Script[call] = "close" /\ CloseCommand
  BY <1>5 DEF CloseCommand, F!Close, F!NotOpen, F!Crash, F!Ends, F!Refused, F!vars
<1> QED BY <1>2, <1>3, <1>4, <1>5 DEF Dispatch

(* A sequence with one more. *)
LEMMA AppendedIs ==
  ASSUME NEW S, NEW s \in Seq(S), NEW c \in S, NEW t, t = Append(s, c)
  PROVE  /\ t \in Seq(S) /\ Len(t) = Len(s) + 1 /\ Len(s) \in Nat
         /\ t[Len(s) + 1] = c /\ \A i \in 1..Len(s) : t[i] = s[i]
OBVIOUS

(* Its members. *)
LEMMA AppendedSet ==
  ASSUME NEW S, NEW s \in Seq(S), NEW c \in S
  PROVE  ToSet(Append(s, c)) = ToSet(s) \cup {c}
<1> DEFINE t == Append(s, c)
<1>1. /\ t \in Seq(S) /\ Len(t) = Len(s) + 1 /\ Len(s) \in Nat
      /\ t[Len(s) + 1] = c /\ \A i \in 1..Len(s) : t[i] = s[i]
  OBVIOUS
<1> HIDE DEF t
<1>2. DOMAIN s = 1..Len(s) /\ DOMAIN t = 1..(Len(s) + 1)
  BY <1>1
<1>3. ASSUME NEW x PROVE x \in ToSet(t) <=> x \in ToSet(s) \cup {c}
  <2>1. x \in ToSet(t) <=> \E i \in 1..(Len(s) + 1) : t[i] = x
    BY <1>2 DEF ToSet
  <2>2. x \in ToSet(s) <=> \E i \in 1..Len(s) : s[i] = x
    BY <1>2 DEF ToSet
  <2>3. \A i : i \in 1..(Len(s) + 1) <=> i \in 1..Len(s) \/ i = Len(s) + 1
    BY <1>1
  <2> QED BY <1>1, <2>1, <2>2, <2>3
<1>4. ToSet(t) = ToSet(s) \cup {c}
  BY <1>3
<1> QED BY <1>4 DEF t

(* The client goes on call by call. *)
LEMMA CallMoves ==
  ASSUME [Next]_vars
  PROVE  call' = call \/ call' = call + 1
BY DEF Next, Issue, OnResponse, Elsewhere, GarbleNak, Dispatch, DispatchCrashing, Reject,
       UnknownCommand, Resend, Send, Exit, Restart, vars, linkVars,
       L!Issue, L!OnResponse, L!GiveUp, L!Garble, L!LoseLineEnd, L!Unheard, L!Dispatch,
       L!Reject, L!Resend, L!Send, L!Exit, L!Restart, L!clientVars

(* How a dispatch counts. *)
LEMMA DispatchCounts ==
  ASSUME LinkInv, LinkInv', Dispatch
  PROVE  /\ call \in L!Calls /\ call' = call /\ cpc = "await" /\ cpc' = cpc
         /\ \A c \in L!Calls : executions'[c] >= executions[c]
         /\ executions'[call] > 0
         /\ \A c \in L!Calls : c # call => outcome'[c] = outcome[c]
         /\ Repetitions \in Nat /\ Repetitions' \in Nat /\ Repetitions' >= Repetitions
         /\ executions[call] > 0 => Repetitions' = Repetitions + 1
<1>1. /\ call \in L!Calls /\ cpc = "await" /\ cpc' = cpc /\ call' = call
      /\ executions' = [executions EXCEPT ![call] = @ + 1]
  BY DispatchIsCurrent DEF LinkInv, Dispatch
<1>2. /\ Repetitions \in Nat /\ Repetitions' \in Nat
      /\ executions'[call] = executions[call] + 1
      /\ \A d \in L!Calls : d # call => executions'[d] = executions[d]
      /\ executions[call] = 0 => Repetitions' = Repetitions
      /\ executions[call] > 0 => Repetitions' = Repetitions + 1
  BY <1>1, ExecutionCounts DEF LinkInv, Debts
<1>3. \A c \in L!Calls : executions[c] \in Nat
  BY DEF LinkInv, LinkTypes, L!Shapes
<1>4. PICK code \in L!Codes : outcome' = [outcome EXCEPT ![call] = code]
  BY DispatchIsCurrent DEF LinkInv, Dispatch
<1>5. \A c \in L!Calls : c # call => outcome'[c] = outcome[c]
  BY <1>4 DEF LinkInv, LinkTypes, L!Shapes
<1>6. \A c \in L!Calls : executions'[c] >= executions[c]
  BY <1>1, <1>2, <1>3
<1>7. executions'[call] > 0 /\ (executions[call] = 0 \/ executions[call] > 0)
  BY <1>1, <1>2, <1>3
<1> QED BY <1>1, <1>2, <1>5, <1>6, <1>7

(* The steps keep the order of the puts. *)
LEMMA PutsOrderedStep ==
  ASSUME LinkInv, LinkInv', Fileids, PutsOrdered, [Next]_vars
  PROVE  PutsOrdered'
<1>a. /\ call \in Nat
      /\ \A c \in L!Calls : executions[c] \in Nat /\ executions'[c] \in Nat /\ c \in Nat
  BY CallTypes DEF LinkInv, LinkTypes, L!Shapes, L!Calls
<1>b. \A i \in 1..puts : putBy[i] \in L!Calls
  BY DEF PutsOrdered
<1>1. CASE Quiet
  BY <1>1, <1>a, <1>b, CallMoves DEF PutsOrdered, Quiet, L!Calls
<1>2. CASE Dispatch
  <2>1. /\ call' = call /\ call \in L!Calls
        /\ executions'[call] > 0 /\ \A c \in L!Calls : executions'[c] >= executions[c]
    BY <1>2, DispatchCounts
  <2>2. CASE UNCHANGED <<puts, putBy>>
    BY <2>1, <2>2, <1>a, <1>b DEF PutsOrdered, L!Calls
  <2>3. CASE puts' = puts + 1 /\ putBy' = Append(putBy, call)
    <3>1. /\ putBy' \in Seq(L!Calls) /\ Len(putBy') = puts'
          /\ putBy'[puts + 1] = call /\ \A i \in 1..puts : putBy'[i] = putBy[i]
      BY <2>1, <2>3, AppendedIs DEF PutsOrdered
    <3>2. puts \in Nat /\ puts' \in Nat
      BY <2>3 DEF PutsOrdered
    <3>a. \A i : i \in 1..puts' => i \in 1..puts \/ i = puts + 1
      BY <2>3, <3>2
    <3>3. ASSUME NEW i \in 1..puts' PROVE putBy'[i] <= call' /\ executions'[putBy'[i]] > 0
      <4>1. CASE i = puts + 1
        BY <4>1, <2>1, <3>1, <1>a
      <4>2. CASE i \in 1..puts
        <5>1. putBy[i] \in L!Calls /\ putBy[i] <= call /\ executions[putBy[i]] > 0
          BY <4>2, <1>b DEF PutsOrdered
        <5>2. executions'[putBy[i]] > 0
          <6>1. \A c \in L!Calls : executions[c] > 0 => executions'[c] > 0
            BY <2>1, <1>a
          <6> QED BY <5>1, <6>1
        <5> QED BY <4>2, <5>1, <5>2, <2>1, <3>1
      <4> QED BY <4>1, <4>2, <3>a
    <3>4. ASSUME NEW i \in 1..puts', NEW j \in 1..puts', i < j
          PROVE  putBy'[i] <= putBy'[j]
      <4>1. i \in 1..puts
        BY <3>4, <2>3, <3>2
      <4>2. CASE j = puts + 1
        BY <4>1, <4>2, <3>1 DEF PutsOrdered
      <4>3. CASE j \in 1..puts
        BY <4>1, <4>3, <3>1, <3>4 DEF PutsOrdered
      <4> QED BY <4>2, <4>3, <3>a
    <3> QED BY <3>1, <3>2, <3>3, <3>4 DEF PutsOrdered, L!Calls
  <2> QED BY <1>2, <2>2, <2>3, DispatchPuts DEF PutsOrdered
<1> QED BY <1>1, <1>2, QuietOrDispatch

(* What a step that is not an execution adds to the answers. *)
LEMMA AnswersMove ==
  ASSUME LinkInv, [Next]_vars
  PROVE  \/ answered' = answered
         \/ /\ answered' = answered \cup {call} /\ call \in L!Calls /\ outcome[call] = "b"
            /\ Quiet /\ cpc' = "idle" /\ call' = call
<1>1. CASE OnResponse
  <2>1. CASE cpc' = "idle" /\ got'[2] = "b"
    <3>1. answered' = answered \cup {call}
      BY <1>1, <2>1 DEF OnResponse
    <3>2. /\ cpc = "await" /\ call \in L!Calls /\ down.kind # "none" /\ call' = call
          /\ got' = <<down.call, down.code>> /\ UNCHANGED <<executions, outcome>>
      BY <1>1, <2>1 DEF OnResponse, L!OnResponse, L!clientVars, L!history, LinkInv,
            HalfDuplex
    <3>3. outcome[call] = "b"
      BY <2>1, <3>2 DEF LinkInv, OwnAnswers
    <3>4. UNCHANGED <<puts, putBy>>
      BY <1>1 DEF OnResponse, fileVars
    <3> QED BY <2>1, <3>1, <3>2, <3>3, <3>4 DEF Quiet
  <2>2. CASE ~(cpc' = "idle" /\ got'[2] = "b")
    BY <1>1, <2>2 DEF OnResponse
  <2> QED BY <2>1, <2>2
<1>2. CASE ~OnResponse
  BY <1>2 DEF Next, Issue, Elsewhere, GarbleNak, Dispatch, DispatchCrashing, Reject,
              UnknownCommand, Resend, Send, Exit, Restart, vars, ownVars
<1> QED BY <1>1, <1>2

(* The steps keep that what was answered was done. *)
LEMMA PutsDoneStep ==
  ASSUME LinkInv, LinkInv', Fileids, PutsOrdered, PutsDone, [Next]_vars
  PROVE  PutsDone'
<1>1. CASE Quiet
  <2>1. /\ outcome' = outcome /\ ToSet(putBy') = ToSet(putBy)
        /\ \/ answered' = answered
           \/ answered' = answered \cup {call} /\ call \in L!Calls /\ outcome[call] = "b"
    BY <1>1, AnswersMove DEF Quiet
  <2> QED BY <2>1 DEF PutsDone, L!Calls
<1>2. CASE Dispatch
  <2>1. /\ call \in L!Calls /\ \A c \in L!Calls : c # call => outcome'[c] = outcome[c]
        /\ answered' = answered
    BY <1>2, DispatchCounts DEF Dispatch
  <2>2. CASE UNCHANGED <<puts, putBy>> /\ (Script[call] = "put" => outcome'[call] # "b")
    <3>1. ToSet(putBy') = ToSet(putBy)
      BY <2>2
    <3> QED BY <2>1, <2>2, <3>1 DEF PutsDone, L!Calls
  <2>3. CASE puts' = puts + 1 /\ putBy' = Append(putBy, call)
    <3>1. ToSet(putBy') = ToSet(putBy) \cup {call}
      <4>1. putBy \in Seq(L!Calls)
        BY DEF PutsOrdered
      <4>2. ToSet(Append(putBy, call)) = ToSet(putBy) \cup {call}
        BY <2>1, <4>1, AppendedSet
      <4> QED BY <2>3, <4>2
    <3> QED BY <2>1, <3>1 DEF PutsDone, L!Calls
  <2> QED BY <1>2, <2>2, <2>3, DispatchPuts DEF PutsOrdered
<1> QED BY <1>1, <1>2, QuietOrDispatch

(* The steps keep the count of the puts. *)
LEMMA PutsCountedStep ==
  ASSUME LinkInv, LinkInv', Fileids, PutsOrdered, PutsCounted, [Next]_vars
  PROVE  PutsCounted'
<1> DEFINE T == ToSet(putBy)
<1>a. IsFiniteSet(T) /\ Cardinality(T) \in Nat /\ puts <= Repetitions + Cardinality(T)
  BY FS_CardinalityType DEF PutsCounted
<1>1. CASE Quiet
  <2>1. Repetitions' = Repetitions
    BY <1>1, NothingCounts DEF Quiet, LinkInv, Debts
  <2>2. ToSet(putBy') = T /\ puts' = puts
    BY <1>1 DEF Quiet
  <2> QED BY <1>a, <2>1, <2>2 DEF PutsCounted
<1>2. CASE Dispatch
  <2>1. /\ call \in L!Calls
        /\ Repetitions \in Nat /\ Repetitions' \in Nat /\ Repetitions' >= Repetitions
        /\ executions[call] > 0 => Repetitions' = Repetitions + 1
    BY <1>2, DispatchCounts
  <2>0. puts \in Nat
    BY DEF PutsOrdered
  <2>2. CASE UNCHANGED <<puts, putBy>>
    <3>1. ToSet(putBy') = T /\ puts' = puts
      BY <2>2
    <3> HIDE DEF T
    <3> QED BY <1>a, <2>0, <2>1, <3>1 DEF PutsCounted
  <2>3. CASE puts' = puts + 1 /\ putBy' = Append(putBy, call)
    <3>1. ToSet(putBy') = T \cup {call}
      <4>1. putBy \in Seq(L!Calls)
        BY DEF PutsOrdered
      <4>2. ToSet(Append(putBy, call)) = ToSet(putBy) \cup {call}
        BY <2>1, <4>1, AppendedSet
      <4> QED BY <2>3, <4>2
    <3>2. call \in T => executions[call] > 0
      <4>1. DOMAIN putBy = 1..puts
        BY DEF PutsOrdered
      <4> QED BY <4>1 DEF PutsOrdered, ToSet
    <3> HIDE DEF T
    <3>3. CASE call \in T
      <4>1. ToSet(putBy') = T
        BY <3>1, <3>3
      <4>2. puts' <= Repetitions' + Cardinality(T)
        BY <1>a, <2>0, <2>1, <2>3, <3>2, <3>3
      <4> QED BY <1>a, <4>1, <4>2 DEF PutsCounted
    <3>4. CASE call \notin T
      <4>1. IsFiniteSet(T \cup {call}) /\ Cardinality(T \cup {call}) = Cardinality(T) + 1
        BY <1>a, <3>4, FS_AddElement
      <4> QED BY <1>a, <2>0, <2>1, <2>3, <3>1, <4>1 DEF PutsCounted
    <3> QED BY <3>3, <3>4
  <2> QED BY <1>2, <2>0, <2>2, <2>3, DispatchPuts
<1> QED BY <1>1, <1>2, QuietOrDispatch

(* Nothing is put before the open is answered. *)
LEMMA NoPutsYetStep ==
  ASSUME LinkInv, Fileids, PutsOrdered, NoPutsYet, [Next]_vars
  PROVE  NoPutsYet'
<1>1. fileid' = 0 => fileid = 0
  BY FileidMoves, CallsAre
<1>2. CASE Quiet
  BY <1>1, <1>2 DEF Quiet, NoPutsYet
<1>3. CASE Dispatch
  <2>1. up.kind = "command"
    BY <1>3 DEF Dispatch, L!Dispatch
  <2>2. Script[call] = "put" => fileid # 0
    BY <2>1, ExecutesFor, CallsAre DEF LinkInv
  <2>3. puts' = puts \/ Script[call] = "put"
    BY <1>3, DispatchPuts DEF PutsOrdered
  <2> QED BY <1>1, <2>2, <2>3 DEF NoPutsYet
<1> QED BY <1>2, <1>3, QuietOrDispatch

(* After the close is answered no call is carried out again. *)
LEMMA CloseAnsweredStep ==
  ASSUME LinkInv, LinkInv', CloseAnswered, PutsDone, [Next]_vars
  PROVE  CloseAnswered'
<1> USE DEF CloseAnswered
<1>1. CASE answered' = answered
  <2> SUFFICES ASSUME MaxCalls \in answered
               PROVE  outcome'[MaxCalls] = "b" /\ call' = MaxCalls /\ cpc' = "idle"
    BY <1>1
  <2>1. cpc = "idle" /\ call = MaxCalls /\ outcome[MaxCalls] = "b" /\ MaxCalls \in Nat
    BY CallsAre
  <2>2. Quiet
    BY <2>1, QuietOrDispatch, DispatchCounts
  <2>3. cpc' = "idle" /\ call' = call
    <3>1. LinkStep \/ UNCHANGED <<linkVars, exits>>
      BY StepsOfTheLink DEF LinkInv, LinkTypes
    <3>2. up.kind = "none" /\ ~(call < MaxCalls)
      BY <2>1 DEF LinkInv, HalfDuplex
    <3> QED
      BY <2>1, <3>1, <3>2
         DEF LinkStep, linkVars, L!Issue, L!OnResponse, L!GiveUp, L!Garble, L!LoseLineEnd,
             L!Unheard, NakGarbled, L!Dispatch, Crashes, L!Received, L!Reject, Unknown,
             L!Resend, L!Send, L!Exit, L!Restart, L!clientVars
  <2> QED BY <2>1, <2>2, <2>3 DEF Quiet
<1>2. CASE /\ answered' = answered \cup {call} /\ call \in L!Calls /\ outcome[call] = "b"
           /\ Quiet /\ cpc' = "idle" /\ call' = call
  <2>1. MaxCalls \in answered' => MaxCalls \in answered \/ MaxCalls = call
    BY <1>2
  <2> QED BY <1>2, <2>1 DEF Quiet
<1> QED BY <1>1, <1>2, AnswersMove

-----------------------------------------------------------------------------
(* The streams. *)

(* Every stream is the client's one file, opened to write. *)
OnPath == \A i \in F!Slots : F!IsOpen(i) => ftab[i].path = Path /\ ftab[i].flags = "w"

Iota(n) == [k \in 1..n |-> k]

(* Slot i's stream is at the end of the file, and with what it holds back  *)
(* the file is all the puts in order.                                      *)
AtEnd(i) == ftab[i].pos = Len(disk[Path]) /\ disk[Path] \o ftab[i].wbuf = Iota(puts)

(* While the host reports no failure, the fileid's stream is at the end of *)
(* the file; those that repeated opens left behind hold nothing back, so   *)
(* the end of the process adds nothing to the file; and a close that was   *)
(* answered with success has written the file out.                         *)
Streams ==
  faults = 0 =>
    /\ \A i \in F!Slots : F!IsOpen(i) =>
         /\ i # fileid => ftab[i].wbuf = <<>>
         /\ i = fileid \/ fileid = 0 => AtEnd(i)
    /\ outcome[MaxCalls] = "b" =>
         /\ \A i \in F!Slots : F!IsOpen(i) => i # fileid
         /\ disk[Path] = Iota(puts)

(* What the invariant of the files says here. *)
LEMMA EntryIs ==
  ASSUME FP!FilesInv, NEW i \in F!Slots, F!IsOpen(i)
  PROVE  /\ ftab[i] \in FP!OpenEntries /\ ftab[i].path \in DOMAIN disk
         /\ ftab[i].pos \in Nat /\ ftab[i].wbuf \in Seq(FP!Records)
         /\ disk[ftab[i].path] \in Seq(FP!Records)
<1>1. i \in FP!Slots /\ FP!IsOpen(i)
  BY SameSteps
<1>2. /\ ftab[i] \in FP!OpenEntries /\ ftab[i].path \in DOMAIN disk
      /\ ftab[i].pos \in Nat /\ ftab[i].wbuf \in Seq(FP!Records)
  BY <1>1, FilesGiven, NoFilesGiven, FP!OpenEntry DEF FP!FilesInv
<1> QED BY <1>2 DEF FP!FilesInv, FP!DiskTypes

(* The counters, and the records that puts can write. *)
LEMMA CountersAre ==
  ASSUME FP!FilesInv
  PROVE  /\ puts \in Nat /\ faults \in Nat /\ puts \in FP!Records /\ puts <= MaxPuts
         /\ 0 \in FP!Records /\ \A t \in Nat : t <= MaxPuts => t \in FP!Records
         /\ ftab = [i \in F!Slots |-> ftab[i]] /\ DOMAIN ftab = F!Slots
<1>1. puts \in 0..MaxPuts /\ faults \in 0..MaxFaults
  BY DEF FP!FilesInv, FP!HistoryTypes
<1>2. ftab \in [F!Slots -> FP!Entries]
  BY SameSteps DEF FP!FilesInv, FP!TableTypes
<1>3. MaxPuts \in Nat /\ MaxFaults \in Nat
  BY FilesGiven
<1> QED BY <1>1, <1>2, <1>3 DEF FP!Records

-----------------------------------------------------------------------------
(* Records written at the end. *)

(* The operator that writes, in both instances. *)
LEMMA SameWrites == \A c, pos, data : F!WriteAt(c, pos, data) = FP!WriteAt(c, pos, data)
BY Zenon DEF F!WriteAt, FP!WriteAt, F!Padded, FP!Padded

(* What is written at the end is appended. *)
LEMMA WriteAtEnd ==
  ASSUME NEW S, 0 \in S, NEW c \in Seq(S), NEW data \in Seq(S)
  PROVE  F!WriteAt(c, Len(c), data) = c \o data
<1> DEFINE w == FP!WriteAt(c, Len(c), data)
           j == c \o data
<1>a. Len(c) \in Nat /\ Len(data) \in Nat
  OBVIOUS
<1>1. /\ w \in Seq(S)
      /\ Len(w) = IF Len(c) + Len(data) >= Len(c) THEN Len(c) + Len(data) ELSE Len(c)
      /\ \A i \in 1..Len(w) :
           w[i] = IF i > Len(c) /\ i <= Len(c) + Len(data) THEN data[i - Len(c)]
                  ELSE IF i <= Len(c) THEN c[i] ELSE 0
  <2> DEFINE pos == Len(c)
  <2>1. pos \in Nat
    BY <1>a
  <2> HIDE DEF pos
  <2>2. /\ FP!WriteAt(c, pos, data) \in Seq(S)
        /\ Len(FP!WriteAt(c, pos, data)) =
             IF pos + Len(data) >= Len(c) THEN pos + Len(data) ELSE Len(c)
        /\ \A i \in 1..Len(FP!WriteAt(c, pos, data)) :
             FP!WriteAt(c, pos, data)[i] =
               IF i > pos /\ i <= pos + Len(data) THEN data[i - pos]
               ELSE IF i <= Len(c) THEN c[i] ELSE 0
    BY <2>1, FilesGiven, NoFilesGiven, FP!WriteAtIs
  <2> QED BY <2>2 DEF pos
<1>2. /\ j \in Seq(S) /\ Len(j) = Len(c) + Len(data)
      /\ \A i \in 1..(Len(c) + Len(data)) :
           j[i] = IF i <= Len(c) THEN c[i] ELSE data[i - Len(c)]
  BY ConcatProperties
<1> HIDE DEF w, j
<1>3. Len(w) = Len(j)
  BY <1>1, <1>2, <1>a
<1>4. ASSUME NEW i \in 1..Len(w) PROVE w[i] = j[i]
  <2>1. PICK m \in Nat, n \in Nat : m = Len(c) /\ n = Len(data)
    BY <1>a
  <2>2. i \in 1..(m + n) /\ i \in 1..(Len(c) + Len(data))
    BY <1>2, <1>3, <2>1
  <2>3. i <= m + n /\ i \in Int
    BY <2>2
  <2>4. w[i] = IF i > m /\ i <= m + n THEN data[i - m] ELSE IF i <= m THEN c[i] ELSE 0
    BY <1>1, <2>1, Zenon
  <2>5. j[i] = IF i <= m THEN c[i] ELSE data[i - m]
    BY <1>2, <2>1, <2>2, Zenon
  <2>6. CASE i <= m
    BY <2>4, <2>5, <2>6
  <2>7. CASE i > m
    BY <2>3, <2>4, <2>5, <2>7
  <2> QED BY <2>3, <2>6, <2>7
<1>5. w = j
  BY <1>1, <1>2, <1>3, <1>4, SeqEqual
<1> QED BY <1>5, SameWrites DEF w, j

(* Two sequences that hold the two ends of a third make it up. *)
LEMMA Joined ==
  ASSUME NEW S, NEW s \in Seq(S), NEW n \in 0..Len(s), NEW a \in Seq(S), NEW b \in Seq(S),
         Len(a) = n, \A i \in 1..n : a[i] = s[i],
         Len(b) = Len(s) - n, \A i \in 1..(Len(s) - n) : b[i] = s[n + i]
  PROVE  a \o b = s
<1> DEFINE c == a \o b
<1>a. Len(s) \in Nat /\ n \in Nat
  OBVIOUS
<1>1. /\ c \in Seq(S) /\ Len(c) = Len(a) + Len(b)
      /\ \A i \in 1..(Len(a) + Len(b)) : c[i] = IF i <= Len(a) THEN a[i] ELSE b[i - Len(a)]
  BY ConcatProperties
<1> HIDE DEF c
<1>2. Len(c) = Len(s) /\ \A i \in 1..Len(s) : c[i] = IF i <= n THEN a[i] ELSE b[i - n]
  BY <1>1, <1>a
<1>3. ASSUME NEW i \in 1..Len(s) PROVE c[i] = s[i]
  <2>1. CASE i <= n
    BY <2>1, <1>2, <1>a
  <2>2. CASE i > n
    <3>1. i - n \in 1..(Len(s) - n) /\ n + (i - n) = i
      BY <2>2, <1>a
    <3> QED BY <2>2, <3>1, <1>2, <1>a
  <2> QED BY <2>1, <2>2, <1>a
<1>4. c = s
  BY <1>1, <1>2, <1>3, SeqEqual
<1> QED BY <1>4 DEF c

(* A sequence is what it begins with and the rest. *)
LEMMA Parted ==
  ASSUME NEW S, NEW s \in Seq(S), NEW n \in 0..Len(s)
  PROVE  /\ SubSeq(s, 1, n) \in Seq(S) /\ SubSeq(s, n + 1, Len(s)) \in Seq(S)
         /\ Len(SubSeq(s, 1, n)) = n
         /\ SubSeq(s, 1, n) \o SubSeq(s, n + 1, Len(s)) = s
<1> DEFINE a == SubSeq(s, 1, n)
           b == SubSeq(s, n + 1, Len(s))
<1>1. a \in Seq(S) /\ Len(a) = n /\ \A i \in 1..n : a[i] = s[i]
  OBVIOUS
<1>2. b \in Seq(S) /\ Len(b) = Len(s) - n /\ \A i \in 1..(Len(s) - n) : b[i] = s[n + i]
  OBVIOUS
<1> HIDE DEF a, b
<1>3. a \o b = s
  BY <1>1, <1>2, Joined
<1> QED BY <1>1, <1>2, <1>3 DEF a, b

(* Iota is a sequence of numbers, and goes on by one number. *)
LEMMA IotaIs ==
  ASSUME NEW n \in Nat, NEW t, t = n + 1
  PROVE  /\ Iota(n) \in Seq(Nat) /\ Len(Iota(n)) = n
         /\ Iota(n) \o FP!Single(t) = Iota(t)
         /\ Iota(0) = <<>>
<1> DEFINE p == Iota(n)
           q == Iota(t)
           one == FP!Single(t)
<1>1. /\ p \in Seq(Nat) /\ Len(p) = n /\ \A i \in 1..n : p[i] = i
  BY DEF Iota
<1>2. /\ q \in Seq(Nat) /\ Len(q) = n + 1 /\ \A i \in 1..(n + 1) : q[i] = i
  BY DEF Iota
<1>3. one \in Seq(Nat) /\ Len(one) = 1 /\ one[1] = t
  BY DEF FP!Single
<1>a. Iota(0) = <<>>
  BY DEF Iota
<1> HIDE DEF p, q, one
<1>4. /\ p \o one \in Seq(Nat) /\ Len(p \o one) = Len(p) + Len(one)
      /\ \A i \in 1..(Len(p) + Len(one)) :
           (p \o one)[i] = IF i <= Len(p) THEN p[i] ELSE one[i - Len(p)]
  BY <1>1, <1>3, ConcatProperties
<1> DEFINE c == p \o one
<1>5. /\ c \in Seq(Nat) /\ Len(c) = n + 1
      /\ \A i \in 1..(n + 1) : c[i] = IF i <= n THEN p[i] ELSE one[i - n]
  BY <1>1, <1>3, <1>4
<1> HIDE DEF c
<1>6. ASSUME NEW i \in 1..(n + 1) PROVE c[i] = q[i]
  <2>1. CASE i <= n
    BY <2>1, <1>1, <1>2, <1>5
  <2>2. CASE i = n + 1
    <3>1. i - n = 1
      BY <2>2
    <3> QED BY <2>2, <3>1, <1>2, <1>3, <1>5
  <2> QED BY <2>1, <2>2
<1>7. c = q
  BY <1>2, <1>5, <1>6, SeqEqual
<1> QED BY <1>1, <1>7, <1>a DEF c, p, q, one

-----------------------------------------------------------------------------
(* What the commands do to the client's file. *)

(* The put's record, after what the stream i held back, is written at the  *)
(* end in part or whole, and the stream goes on as g.                      *)
Appended(i, g) ==
  LET data == Append(ftab[i].wbuf, puts + 1) IN
  \E n \in 0..Len(data) :
    /\ disk' = IF n = 0 THEN disk
               ELSE [disk EXCEPT ![Path] = F!WriteAt(@, ftab[i].pos, SubSeq(data, 1, n))]
    /\ g.wbuf = SubSeq(data, n + 1, Len(data)) /\ g.pos = ftab[i].pos + n

(* Stream i goes on as g, on the same file. *)
GoesOnAs(i, g) ==
  /\ ftab' = [ftab EXCEPT ![i] = g]
  /\ g.st = "open" /\ g.path = Path /\ g.flags = "w"

(* A put that leaves the server up finds the stream open, and fails or     *)
(* appends.                                                                *)
LEMMA PutIs ==
  ASSUME FP!FilesInv, OnPath, NEW i \in F!Slots, F!Put(i), process' = "up"
  PROVE  /\ F!IsOpen(i) /\ puts' = puts + 1
         /\ \E g : /\ GoesOnAs(i, g)
                   /\ faults' = faults + 1 \/ (faults' = faults /\ Appended(i, g))
<1> DEFINE f    == ftab[i]
           t    == puts + 1
           data == Append(f.wbuf, t)
<1>1. F!IsOpen(i)
  BY DEF F!Put, F!Crash, F!Ends
<1>2. /\ f.path = Path /\ f.flags = "w" /\ f \in FP!OpenEntries
      /\ f.wbuf \in Seq(FP!Records) /\ f.pos \in Nat
  BY <1>1, EntryIs DEF OnPath
<1>3. F!Takes(f)
  BY <1>2 DEF F!Takes
<1>a. ftab = [j \in F!Slots |-> ftab[j]]
  BY CountersAre
<1>4. CASE /\ puts' = t
           /\ \E n \in {0, Len(f.wbuf), Len(data)} :
                /\ disk' = IF n = 0 THEN disk
                           ELSE [disk EXCEPT ![f.path] = F!Flushed(@, f, SubSeq(data, 1, n))]
                /\ ftab' = [ftab EXCEPT ![i].wbuf = SubSeq(data, n + 1, Len(data)),
                                        ![i].pos = @ + n]
           /\ faults' = faults
  <2>1. PICK n \in {0, Len(f.wbuf), Len(data)} :
          /\ disk' = IF n = 0 THEN disk
                     ELSE [disk EXCEPT ![f.path] = F!Flushed(@, f, SubSeq(data, 1, n))]
          /\ ftab' = [ftab EXCEPT ![i].wbuf = SubSeq(data, n + 1, Len(data)),
                                  ![i].pos = @ + n]
    BY <1>4
  <2> DEFINE g == FP!Moved(f, f.pos + n, SubSeq(data, n + 1, Len(data)))
  <2>2. n \in 0..Len(data)
    <3> DEFINE b == f.wbuf
    <3>1. b \in Seq(FP!Records)
      BY <1>2
    <3> HIDE DEF b, t
    <3>2. Len(b) \in Nat /\ Len(Append(b, t)) = Len(b) + 1
      BY <3>1
    <3> QED BY <2>1, <3>2 DEF b
  <2>3. /\ g.st = "open" /\ g.path = Path /\ g.flags = "w"
        /\ g.wbuf = SubSeq(data, n + 1, Len(data)) /\ g.pos = f.pos + n
    <3> DEFINE b == SubSeq(data, n + 1, Len(data))
               p == f.pos + n
    <3> HIDE DEF b, p
    <3>1. /\ FP!Moved(f, p, b).st = "open" /\ FP!Moved(f, p, b).path = f.path
          /\ FP!Moved(f, p, b).flags = f.flags
          /\ FP!Moved(f, p, b).wbuf = b /\ FP!Moved(f, p, b).pos = p
      BY <1>2 DEF FP!OpenEntries, FP!Moved
    <3> QED BY <1>2, <3>1 DEF b, p
  <2>4. ftab' = [ftab EXCEPT ![i] = g]
    BY <1>a, <1>2, <2>1 DEF FP!Moved, FP!OpenEntries
  <2>5. disk' = IF n = 0 THEN disk
                ELSE [disk EXCEPT ![Path] = F!WriteAt(@, f.pos, SubSeq(data, 1, n))]
    BY <1>2, <2>1 DEF F!Flushed
  <2>6. Appended(i, g)
    BY <2>2, <2>3, <2>5 DEF Appended
  <2>7. GoesOnAs(i, g)
    BY <2>3, <2>4 DEF GoesOnAs
  <2> HIDE DEF g
  <2> QED BY <1>1, <1>4, <2>6, <2>7
<1>5. CASE /\ puts' = t /\ faults' = faults + 1
           /\ ftab' \in {ftab, [ftab EXCEPT ![i].wbuf = <<>>]}
  <2>1. PICK g : ftab' = [ftab EXCEPT ![i] = g] /\ g \in {f, [f EXCEPT !.wbuf = <<>>]}
    BY <1>5, <1>a
  <2>2. g.st = "open" /\ g.path = Path /\ g.flags = "w"
    BY <1>2, <2>1 DEF FP!OpenEntries
  <2>3. GoesOnAs(i, g)
    BY <2>1, <2>2 DEF GoesOnAs
  <2> QED BY <1>1, <1>5, <2>3
<1>6. \/ /\ puts' = t
         /\ \E n \in {0, Len(f.wbuf), Len(data)} :
              /\ disk' = IF n = 0 THEN disk
                         ELSE [disk EXCEPT ![f.path] = F!Flushed(@, f, SubSeq(data, 1, n))]
              /\ ftab' = [ftab EXCEPT ![i].wbuf = SubSeq(data, n + 1, Len(data)),
                                      ![i].pos = @ + n]
         /\ faults' = faults
      \/ /\ puts' = t /\ faults' = faults + 1
         /\ ftab' \in {ftab, [ftab EXCEPT ![i].wbuf = <<>>]}
  BY <1>1, <1>3, Zenon DEF F!Put
<1> QED BY <1>4, <1>5, <1>6

(* What follows a content, cut in another place. *)
Recut(c, head, rest, b, one) == (c \o head) \o rest = (c \o b) \o one

(* Joining is associative. *)
LEMMA Associates ==
  ASSUME NEW s \in Seq(Nat), NEW t \in Seq(Nat), NEW u \in Seq(Nat)
  PROVE  (s \o t) \o u = s \o (t \o u)
BY ConcatAssociative

(* Where the same records follow, it can be cut anywhere. *)
LEMMA IsRecut ==
  ASSUME NEW c \in Seq(Nat), NEW head \in Seq(Nat), NEW rest \in Seq(Nat),
         NEW b \in Seq(Nat), NEW one \in Seq(Nat), head \o rest = b \o one
  PROVE  Recut(c, head, rest, b, one)
<1>1. (c \o head) \o rest = c \o (head \o rest)
  BY Associates
<1>2. (c \o b) \o one = c \o (b \o one)
  BY Associates
<1> QED BY <1>1, <1>2 DEF Recut

(* A record put at the end is at the end. *)
LEMMA AppendedAtEnd ==
  ASSUME FP!FilesInv, OnPath, NEW i \in F!Slots, F!IsOpen(i), AtEnd(i),
         NEW g, GoesOnAs(i, g), Appended(i, g), puts' = puts + 1
  PROVE  AtEnd(i)'
<1> DEFINE f    == ftab[i]
           b    == f.wbuf
           c    == disk[Path]
           t    == puts + 1
           data == Append(b, t)
<1>0. c \in Seq(FP!Records) /\ b \in Seq(FP!Records) /\ FP!Records \subseteq Nat
  BY EntryIs DEF OnPath, FP!Records
<1>1. /\ c \in Seq(Nat) /\ b \in Seq(Nat) /\ f.pos = Len(c) /\ Path \in DOMAIN disk
      /\ c \o b = Iota(puts)
  <2>1. f.pos = Len(c) /\ c \o b = Iota(puts) /\ Path \in DOMAIN disk
    BY EntryIs DEF OnPath, AtEnd
  <2> HIDE DEF c, b
  <2> QED BY <1>0, <2>1, SeqMonotonic
<1>2. puts \in Nat
  BY CountersAre
<1>3. PICK n \in 0..Len(data) :
        /\ disk' = IF n = 0 THEN disk
                   ELSE [disk EXCEPT ![Path] = F!WriteAt(@, f.pos, SubSeq(data, 1, n))]
        /\ g.wbuf = SubSeq(data, n + 1, Len(data)) /\ g.pos = f.pos + n
  BY DEF Appended
<1> DEFINE head == SubSeq(data, 1, n)
           rest == SubSeq(data, n + 1, Len(data))
           one  == FP!Single(t)
<1>4. /\ head \in Seq(Nat) /\ rest \in Seq(Nat) /\ Len(head) = n /\ head \o rest = data
      /\ data = b \o one /\ one \in Seq(Nat)
  <2>1. data = Append(b, t) /\ one = FP!Single(t) /\ t \in Nat /\ n \in 0..Len(data)
    BY <1>2
  <2> HIDE DEF data, one, t, b
  <2>a. b \in Seq(Nat)
    BY <1>1
  <2>b. /\ Append(b, t) \in Seq(Nat) /\ FP!Single(t) \in Seq(Nat)
        /\ Append(b, t) = b \o FP!Single(t)
    BY <2>1, <2>a DEF FP!Single
  <2>2. data \in Seq(Nat) /\ data = b \o one /\ one \in Seq(Nat)
    BY <2>1, <2>b
  <2> QED BY <2>1, <2>2, Parted
<1>5. disk'[Path] = c \o head
  <2>1. CASE n = 0
    <3>1. head = <<>>
      BY <1>4, <2>1
    <3> HIDE DEF head, c
    <3>2. c \o head = c
      BY <1>1, <3>1
    <3> QED BY <1>3, <2>1, <3>2 DEF c
  <2>2. CASE n # 0
    <3> HIDE DEF head
    <3>1. F!WriteAt(c, Len(c), head) = c \o head
      <4> HIDE DEF c
      <4> QED BY <1>1, <1>4, WriteAtEnd
    <3> QED BY <1>1, <1>3, <2>2, <3>1 DEF head
  <2> QED BY <2>1, <2>2
<1>6. ftab'[i].wbuf = rest /\ ftab'[i].pos = Len(c) + n
  BY <1>1, <1>3, CountersAre DEF GoesOnAs
<1>7. /\ Len(c \o head) = Len(c) + n
      /\ (c \o head) \o rest = Iota(t)
  <2>a. /\ c \in Seq(Nat) /\ head \in Seq(Nat) /\ rest \in Seq(Nat)
        /\ b \in Seq(Nat) /\ one \in Seq(Nat)
    BY <1>1, <1>4
  <2> HIDE DEF c, head, rest, b, one, data
  <2>1. Len(c \o head) = Len(c) + n
    BY <1>1, <1>4, ConcatProperties
  <2>2. head \o rest = b \o one
    BY <1>4
  <2>3. Recut(c, head, rest, b, one)
    BY <2>a, <2>2, IsRecut
  <2>4. Iota(puts) \o one = Iota(t)
    <3>1. one = FP!Single(t) /\ t = puts + 1
      BY DEF one
    <3> HIDE DEF t
    <3> QED BY <1>2, <3>1, IotaIs
  <2> QED BY <1>1, <2>1, <2>3, <2>4 DEF Recut
<1> HIDE DEF c, head, rest, data
<1> QED BY <1>5, <1>6, <1>7 DEF AtEnd

(* A close writes out what its stream held back. *)
LEMMA CloseIs ==
  ASSUME FP!FilesInv, OnPath, NEW i \in F!Slots, F!Close(i), process' = "up", F!IsOpen(i)
  PROVE  /\ ~F!IsOpen(i)' /\ \A j \in F!Slots : j # i => ftab'[j] = ftab[j]
         /\ puts' = puts
         /\ \/ faults' = faults + 1
            \/ faults' = faults /\ (AtEnd(i) => disk'[Path] = Iota(puts))
<1> DEFINE b == ftab[i].wbuf
           c == disk[Path]
<1>1. /\ c \in Seq(FP!Records) /\ b \in Seq(FP!Records) /\ Path \in DOMAIN disk
      /\ ftab[i].path = Path /\ ftab[i].flags = "w" /\ 0 \in FP!Records
  BY EntryIs, CountersAre DEF OnPath
<1>2. DOMAIN ftab = F!Slots
  BY CountersAre
<1>3. \/ disk' = F!FlushedDisk(i) /\ ftab' = [ftab EXCEPT ![i] = F!Closed] /\ faults' = faults
      \/ faults' = faults + 1 /\ ftab' = [ftab EXCEPT ![i] = [st |-> "dangling"]]
  BY DEF F!Close
<1>4. puts' = puts
  BY DEF F!Close
<1>5. ~F!IsOpen(i)' /\ \A j \in F!Slots : j # i => ftab'[j] = ftab[j]
  BY <1>2, <1>3 DEF F!IsOpen, F!Closed
<1>6. ASSUME disk' = F!FlushedDisk(i), AtEnd(i) PROVE disk'[Path] = Iota(puts)
  <2>1. ftab[i].pos = Len(c) /\ c \o b = Iota(puts)
    BY <1>6 DEF AtEnd
  <2>2. CASE b = <<>>
    <3>1. disk' = disk
      BY <1>6, <2>2 DEF F!FlushedDisk, F!FlushedInto
    <3>2. c \o b = c
      <4> HIDE DEF c, b
      <4> QED BY <1>1, <2>2
    <3> QED BY <2>1, <3>1, <3>2
  <2>3. CASE b # <<>>
    <3>1. disk' = [disk EXCEPT ![Path] = F!WriteAt(c, ftab[i].pos, b)]
      BY <1>1, <1>6, <2>3 DEF F!FlushedDisk, F!FlushedInto, F!Flushed
    <3>2. F!WriteAt(c, Len(c), b) = c \o b
      <4> HIDE DEF c, b
      <4> QED BY <1>1, WriteAtEnd
    <3> QED BY <1>1, <2>1, <3>1, <3>2
  <2> QED BY <2>2, <2>3
<1> HIDE DEF c, b
<1> QED BY <1>3, <1>4, <1>5, <1>6

(* The file is empty, and slot i has a new stream on it. *)
Starts(i) ==
  disk'[Path] = <<>> /\ \E g : GoesOnAs(i, g) /\ g.pos = 0 /\ g.wbuf = <<>>

(* An open is refused, or starts the file anew. *)
LEMMA OpenStarts ==
  ASSUME FP!FilesInv, F!Open
  PROVE  /\ faults <= faults' /\ puts' = puts
         /\ \/ UNCHANGED <<disk, ftab>>
            \/ \E i \in F!Slots : Starts(i)
<1>1. FP!Open
  BY SameSteps
<1>2. /\ faults <= faults' /\ puts' = puts
      /\ \/ FP!OpenRefused
         \/ \E i, path, mode, type, rl, name : FP!OpensAs(i, path, mode, type, rl, name)
  BY <1>1, FilesGiven, NoFilesGiven, FP!OpenIs
<1>3. CASE FP!OpenRefused
  BY <1>2, <1>3 DEF FP!OpenRefused
<1>4. ASSUME NEW i, NEW path, NEW mode, NEW type, NEW rl, NEW name,
             FP!OpensAs(i, path, mode, type, rl, name)
      PROVE  \E j \in F!Slots : Starts(j)
  <2>a. /\ i \in F!Slots /\ mode = "w" /\ type = "v" /\ rl = 0
        /\ name = [base |-> "a", ext |-> "x"]
    BY <1>4, SameSteps DEF FP!OpensAs
  <2>b. /\ path \in FP!Paths /\ path.base = name.base /\ path.rl = rl
        /\ name.ext \in {"", path.ext}
    BY <1>4 DEF FP!OpensAs
  <2>1. /\ path \in FP!Paths /\ path.base = "a" /\ path.rl = 0 /\ path.ext = "x"
    BY <2>a, <2>b
  <2>2. path = Path
    BY <2>1 DEF FP!Paths, Path
  <2> DEFINE g == FP!Stream(Path, "w", "v", 0)
  <2>3. /\ disk' = [p \in DOMAIN disk \cup {Path} |-> IF p = Path THEN <<>> ELSE disk[p]]
        /\ ftab' = [ftab EXCEPT ![i] = g]
    BY <1>4, <2>a, <2>2 DEF FP!OpensAs, FP!Opened
  <2>4. disk'[Path] = <<>>
    BY <2>3
  <2>5. g.st = "open" /\ g.path = Path /\ g.flags = "w" /\ g.pos = 0 /\ g.wbuf = <<>>
    BY DEF FP!Stream, FP!Flags
  <2> HIDE DEF g
  <2> QED BY <2>a, <2>3, <2>4, <2>5 DEF GoesOnAs, Starts
<1> QED BY <1>2, <1>3, <1>4

-----------------------------------------------------------------------------
(* What each step of the server does to the client's file. *)

(* No stream is open any more, and what the streams held back is lost or   *)
(* written out.                                                            *)
AllEnded ==
  /\ \A i \in F!Slots : ~F!IsOpen(i)'
  /\ UNCHANGED <<faults, fileid>>
  /\ disk' = disk \/ disk' = FP!WrittenOut(NFiles, {})

(* A step that carries no command out ends all streams or moves none. *)
LEMMA StillOrEnded ==
  ASSUME [Next]_vars, ~Dispatch
  PROVE  UNCHANGED <<disk, ftab, faults>> \/ AllEnded
<1>1. CASE \/ Issue \/ OnResponse \/ Elsewhere \/ GarbleNak
           \/ Reject \/ UnknownCommand \/ Resend \/ Send
  BY <1>1
     DEF Issue, OnResponse, Elsewhere, GarbleNak, Reject, UnknownCommand, Resend, Send,
           fileVars
<1>2. ASSUME \E how : F!Ends(how) PROVE \A i \in F!Slots : ~F!IsOpen(i)'
  BY <1>2 DEF F!Ends, F!IsOpen, F!Closed
<1>3. CASE DispatchCrashing
  <2>1. F!Put(fileid) \/ F!Close(fileid)
    BY <1>3 DEF DispatchCrashing
  <2>2. process = "up" /\ process' = "crashed"
    BY <1>3, <2>1 DEF DispatchCrashing, F!Put, F!Close, F!Uses
  <2>3. F!Crash
    BY <2>1, <2>2 DEF F!Put, F!Close, F!NotOpen, F!Refused, F!vars
  <2> QED BY <1>2, <1>3, <2>3 DEF F!Crash, DispatchCrashing, AllEnded
<1>4. CASE Exit
  <2>1. CASE F!Kill
    BY <1>2, <1>4, <2>1 DEF F!Kill, Exit, AllEnded
  <2>2. CASE F!ExitOnError
    <3>1. \E how : F!Ends(how)
      BY <2>2 DEF F!ExitOnError
    <3>2. FP!ExitOnError
      BY <2>2, SameSteps
    <3> QED BY <1>2, <1>4, <3>1, <3>2 DEF FP!ExitOnError, Exit, AllEnded
  <2> QED BY <1>4, <2>1, <2>2 DEF Exit
<1>5. CASE Restart
  BY <1>5 DEF Restart, F!Restart
<1>6. CASE UNCHANGED vars
  BY <1>6 DEF vars, fileVars
<1> QED BY <1>1, <1>3, <1>4, <1>5, <1>6 DEF Next

(* The three commands. *)
Refuses ==
  UNCHANGED <<disk, ftab, puts>> /\ faults <= faults' /\ outcome'[MaxCalls] # "b"

Opens ==
  /\ fileid = 0 /\ puts' = puts /\ faults <= faults' /\ outcome'[MaxCalls] # "b"
  /\ \E i \in F!Slots : Starts(i)

Puts(i) ==
  /\ F!IsOpen(i) /\ puts' = puts + 1 /\ outcome'[MaxCalls] # "b"
  /\ \E g : /\ GoesOnAs(i, g)
            /\ faults' = faults + 1 \/ (faults' = faults /\ Appended(i, g))

Closes(i) ==
  /\ F!IsOpen(i)
  /\ ~F!IsOpen(i)' /\ \A j \in F!Slots : j # i => ftab'[j] = ftab[j]
  /\ puts' = puts
  /\ \/ faults' = faults + 1
     \/ faults' = faults /\ (AtEnd(i) => disk'[Path] = Iota(puts))

(* A dispatch is one of them. *)
LEMMA DispatchDoes ==
  ASSUME LinkInv, LinkInv', Fileids, FP!FilesInv, OnPath, Dispatch
  PROVE  Refuses \/ Opens \/ \E i \in F!Slots : i = fileid /\ (Puts(i) \/ Closes(i))
<1>1. up.kind = "command"
  BY DEF Dispatch, L!Dispatch
<1>2. /\ up.call = call /\ call \in L!Calls
      /\ Script[call] = "open" => call = 1 /\ fileid = 0
      /\ Script[call] \in {"put", "close"} => fileid \in F!Slots
  BY <1>1, ExecutesFor DEF LinkInv
<1>3. call # MaxCalls => outcome'[MaxCalls] # "b"
  <2>1. call < MaxCalls \/ call = MaxCalls
    BY <1>2, CallsAre DEF L!Calls
  <2>2. MaxCalls \in L!Calls
    BY CallsAre DEF L!Calls
  <2>3. call < MaxCalls => outcome[MaxCalls] = "-"
    BY <2>2 DEF LinkInv, NotAhead
  <2> QED BY <2>1, <2>2, <2>3, DispatchCounts
<1>4. CASE Script[call] = "open" /\ OpenCommand
  <2>1. F!Open
    BY <1>4 DEF OpenCommand
  <2>2. call # MaxCalls
    BY <1>2, <1>4, CallsAre
  <2> QED BY <1>2, <1>3, <1>4, <2>1, <2>2, OpenStarts DEF Refuses, Opens
<1>5. CASE Script[call] = "put" /\ PutCommand
  <2>1. PICK i \in F!Slots : i = fileid /\ F!Put(i) /\ process' = "up"
    BY <1>2, <1>5 DEF PutCommand
  <2>2. call # MaxCalls
    BY <1>2, <1>5, CallsAre
  <2> QED BY <1>3, <2>1, <2>2, PutIs DEF Puts
<1>6. CASE Script[call] = "close" /\ CloseCommand
  <2>0. fileid \in F!Slots /\ call = MaxCalls
    BY <1>2, <1>6, CallsAre
  <2>1. CASE F!IsOpen(fileid) /\ F!Close(fileid) /\ process' = "up"
    <3>1. PICK i \in F!Slots : i = fileid
      BY <2>0
    <3>2. F!IsOpen(i) /\ F!Close(i) /\ process' = "up"
      BY <2>1, <3>1
    <3> QED BY <3>1, <3>2, CloseIs DEF Closes
  <2>2. CASE F!Refused /\ ~F!IsOpen(fileid)
    <3>1. UNCHANGED <<disk, ftab, puts, faults>>
      BY <2>2 DEF F!Refused, F!vars
    <3>2. outcome'[MaxCalls] = "x"
      BY <1>2, <1>6, <2>0, <2>2 DEF CloseCommand, Replied
    <3> QED BY <3>1, <3>2, CountersAre DEF Refuses
  <2>3. F!Refused => ~F!IsOpen(fileid) \/ (F!Close(fileid) /\ process' = "up")
    BY <1>6 DEF CloseCommand, F!IsOpen, F!Closed
  <2>4. F!Close(fileid) /\ process' = "up" => F!IsOpen(fileid) \/ F!Refused
    BY DEF F!Close, F!NotOpen, F!Crash, F!Ends
  <2> QED BY <1>6, <2>1, <2>2, <2>3, <2>4 DEF CloseCommand
<1> QED BY <1>2, <1>4, <1>5, <1>6 DEF Dispatch

-----------------------------------------------------------------------------
(* The steps keep the streams at the end. *)

(* The table once a stream goes on. *)
LEMMA GoesOnIs ==
  ASSUME FP!FilesInv, NEW i \in F!Slots, NEW g, GoesOnAs(i, g)
  PROVE  /\ ftab'[i] = g /\ F!IsOpen(i)' /\ g.path = Path /\ g.flags = "w"
         /\ \A j \in F!Slots : j # i => ftab'[j] = ftab[j]
BY CountersAre DEF GoesOnAs, F!IsOpen

(* The steps keep every stream on the file. *)
LEMMA OnPathStep ==
  ASSUME LinkInv, LinkInv', Fileids, FP!FilesInv, OnPath, [Next]_vars
  PROVE  OnPath'
<1>1. CASE UNCHANGED <<disk, ftab, faults>>
  BY <1>1 DEF OnPath, F!IsOpen, F!Slots
<1>2. CASE AllEnded
  BY <1>2 DEF OnPath, AllEnded, F!Slots
<1>3. CASE Refuses
  BY <1>3 DEF Refuses, OnPath, F!IsOpen, F!Slots
<1>4. ASSUME NEW i \in F!Slots, NEW g, GoesOnAs(i, g) PROVE OnPath'
  BY <1>4, GoesOnIs DEF OnPath, F!IsOpen, F!Slots
<1>5. CASE Opens
  BY <1>4, <1>5 DEF Opens, Starts
<1>6. ASSUME NEW i \in F!Slots, Puts(i) PROVE OnPath'
  BY <1>4, <1>6 DEF Puts
<1>7. ASSUME NEW i \in F!Slots, Closes(i) PROVE OnPath'
  <2>1. \A j \in F!Slots : j = i \/ ftab'[j] = ftab[j]
    BY <1>7 DEF Closes
  <2>2. \A j \in F!Slots : F!IsOpen(j)' => j # i
    BY <1>7 DEF Closes
  <2> QED BY <2>1, <2>2 DEF OnPath, F!IsOpen, F!Slots
<1> QED BY <1>1, <1>2, <1>3, <1>5, <1>6, <1>7, StillOrEnded, DispatchDoes

(* With nothing held back, writing all out changes nothing. *)
LEMMA NothingHeld ==
  ASSUME FP!FilesInv, \A i \in F!Slots : F!IsOpen(i) => ftab[i].wbuf = <<>>
  PROVE  FP!WrittenOut(NFiles, {}) = disk
<1>0. NFiles \in Nat /\ F!Slots = 1..NFiles
  BY CallsAre
<1>1. PICK f : FP!WritesOut(f, {})
  BY FilesGiven, NoFilesGiven, FP!WrittenOutUnfolds DEF FP!FilesInv
<1>2. /\ f[0] = disk
      /\ \A k \in 1..NFiles : f[k] = FP!FlushedInto(f[k - 1], k)
      /\ FP!WrittenOut(NFiles, {}) = f[NFiles]
  BY <1>0, <1>1 DEF FP!WritesOut
<1>3. \A k \in 1..NFiles : FP!FlushedInto(disk, k) = disk
  BY <1>0, SameSteps DEF FP!FlushedInto
<1> DEFINE S == {k \in Nat : k <= NFiles => f[k] = disk}
<1>4. 0 \in S
  BY <1>2
<1>5. \A k \in Nat : k \in S => k + 1 \in S
  BY <1>0, <1>2, <1>3
<1>6. Nat \subseteq S
  <2> HIDE DEF S
  <2> QED BY <1>4, <1>5, FilesGiven, NoFilesGiven, FP!Induct
<1> QED BY <1>0, <1>2, <1>6

(* The steps keep the fileid's stream at the end of the file. *)
LEMMA StreamsStep ==
  ASSUME LinkInv, LinkInv', Fileids, FP!FilesInv, OnPath, Streams, NoPutsYet, puts \in Nat,
         [Next]_vars
  PROVE  Streams'
<1>0. faults \in Nat /\ faults' \in Nat
  <2>1. FP!FilesInv'
    BY FilesKeep DEF LinkInv
  <2>2. faults' \in 0..MaxFaults
    BY <2>1 DEF FP!FilesInv, FP!HistoryTypes
  <2> QED BY <2>2, CountersAre, FilesGiven
<1> SUFFICES ASSUME faults' = 0
             PROVE  /\ \A i \in F!Slots : F!IsOpen(i)' =>
                         /\ i # fileid' => ftab'[i].wbuf = <<>>
                         /\ i = fileid' \/ fileid' = 0 => AtEnd(i)'
                    /\ outcome'[MaxCalls] = "b" =>
                         /\ \A i \in F!Slots : F!IsOpen(i)' => i # fileid'
                         /\ disk'[Path] = Iota(puts')
  BY DEF Streams, F!Slots
<1>1. CASE ~Dispatch
  <2>0. Quiet
    BY <1>1, QuietOrDispatch
  <2>1. CASE UNCHANGED <<disk, ftab, faults>>
    <3>0. /\ \A i \in F!Slots : /\ F!IsOpen(i)' <=> F!IsOpen(i)
                                /\ AtEnd(i)' <=> AtEnd(i)
          /\ faults = 0 /\ UNCHANGED <<disk, ftab, puts, outcome>>
      BY <2>0, <2>1 DEF Quiet, F!IsOpen, AtEnd
    <3>1. CASE fileid' = fileid
      BY <3>0, <3>1 DEF Streams
    <3>2. CASE fileid = 0 /\ fileid' \in F!Slots /\ call = 1
      <4>1. outcome[MaxCalls] = "-"
        BY <3>2, CallsAre DEF LinkInv, NotAhead, L!Calls
      <4>2. 0 \notin F!Slots
        BY CallsAre
      <4> QED BY <3>0, <3>2, <4>1, <4>2 DEF Streams
    <3> QED BY <3>1, <3>2, FileidMoves
  <2>2. CASE AllEnded
    <3>1. faults = 0 /\ \A i \in F!Slots : ~F!IsOpen(i)'
      BY <2>2 DEF AllEnded
    <3>2. outcome'[MaxCalls] = "b" => disk'[Path] = Iota(puts')
      <4> SUFFICES ASSUME outcome[MaxCalls] = "b" PROVE disk' = disk
        BY <2>0, <3>1 DEF Quiet, Streams
      <4>1. \A i \in F!Slots : F!IsOpen(i) => ftab[i].wbuf = <<>>
        BY <3>1 DEF Streams
      <4> QED BY <2>2, <4>1, NothingHeld DEF AllEnded
    <3> QED BY <3>1, <3>2
  <2> QED BY <1>1, <2>1, <2>2, StillOrEnded
<1>2. CASE Dispatch
  <2>0. fileid' = fileid /\ 0 \notin F!Slots
    BY <1>2, CallsAre DEF Dispatch
  <2>1. CASE Refuses
    <3>1. /\ \A i \in F!Slots : /\ F!IsOpen(i)' <=> F!IsOpen(i)
                                /\ AtEnd(i)' <=> AtEnd(i)
          /\ faults = 0 /\ outcome'[MaxCalls] # "b" /\ ftab' = ftab
      BY <1>0, <2>1 DEF Refuses, F!IsOpen, AtEnd
    <3> QED BY <2>0, <3>1 DEF Streams
  <2>2. CASE Opens
    <3>1. PICK i \in F!Slots :
            \E g : disk'[Path] = <<>> /\ GoesOnAs(i, g) /\ g.pos = 0 /\ g.wbuf = <<>>
      BY <2>2 DEF Opens, Starts
    <3>2. faults = 0 /\ fileid = 0 /\ puts' = 0 /\ puts = 0 /\ outcome'[MaxCalls] # "b"
      BY <1>0, <2>2 DEF Opens, NoPutsYet
    <3>3. Iota(0) = <<>> /\ Iota(puts) = <<>> /\ Len(<<>>) = 0 /\ <<>> \o <<>> = <<>>
      BY <3>2, IotaIs
    <3>4. ASSUME NEW j \in F!Slots, F!IsOpen(j)'
          PROVE  ftab'[j].wbuf = <<>> /\ ftab'[j].pos = 0
      <4>1. CASE j = i
        BY <3>1, <4>1, GoesOnIs
      <4>2. CASE j # i
        <5>1. ftab'[j] = ftab[j] /\ F!IsOpen(j)
          BY <3>1, <3>4, <4>2, GoesOnIs DEF F!IsOpen
        <5>2. ftab[j].wbuf = <<>> /\ AtEnd(j)
          BY <3>2, <5>1, <2>0 DEF Streams
        <5>3. ftab[j].pos = Len(disk[Path]) /\ disk[Path] \o <<>> = <<>>
          BY <3>2, <3>3, <5>2 DEF AtEnd
        <5>4. disk[Path] \in Seq(FP!Records)
          BY <5>1, EntryIs DEF OnPath
        <5>5. disk[Path] = <<>>
          BY <5>3, <5>4
        <5> QED BY <3>3, <5>1, <5>2, <5>3, <5>5
      <4> QED BY <4>1, <4>2
    <3>5. ASSUME NEW j \in F!Slots, F!IsOpen(j)' PROVE AtEnd(j)'
      BY <3>1, <3>2, <3>3, <3>4, <3>5 DEF AtEnd
    <3> QED BY <3>2, <3>4, <3>5
  <2>3. ASSUME NEW i \in F!Slots, i = fileid, Puts(i)
        PROVE  /\ \A j \in F!Slots : F!IsOpen(j)' =>
                    (j # fileid => ftab'[j].wbuf = <<>>) /\ (j = fileid => AtEnd(j)')
               /\ outcome'[MaxCalls] # "b"
    <3>1. PICK g : /\ GoesOnAs(i, g)
                   /\ faults' = faults + 1 \/ (faults' = faults /\ Appended(i, g))
      BY <2>3 DEF Puts
    <3>2. /\ faults' = faults /\ Appended(i, g)
          /\ F!IsOpen(i) /\ puts' = puts + 1 /\ outcome'[MaxCalls] # "b"
      BY <1>0, <2>3, <3>1 DEF Puts
    <3>3. AtEnd(i)
      BY <2>3, <3>2 DEF Streams
    <3>4. AtEnd(i)'
      BY <3>1, <3>2, <3>3, AppendedAtEnd
    <3>5. ASSUME NEW j \in F!Slots, F!IsOpen(j)', j # fileid PROVE ftab'[j].wbuf = <<>>
      <4>1. ftab'[j] = ftab[j]
        BY <2>3, <3>1, <3>5, GoesOnIs
      <4> QED BY <3>2, <3>5, <4>1 DEF Streams, F!IsOpen
    <3> QED BY <2>3, <3>2, <3>4, <3>5
  <2>4. ASSUME NEW i \in F!Slots, i = fileid, Closes(i)
        PROVE  /\ disk'[Path] = Iota(puts')
               /\ \A j \in F!Slots : F!IsOpen(j)' => j # fileid /\ ftab'[j].wbuf = <<>>
    <3>1. /\ faults' = faults /\ (AtEnd(i) => disk'[Path] = Iota(puts)) /\ puts' = puts
          /\ F!IsOpen(i)
      BY <1>0, <2>4 DEF Closes
    <3>2. disk'[Path] = Iota(puts')
      BY <2>4, <3>1 DEF Streams
    <3>3. ASSUME NEW j \in F!Slots, F!IsOpen(j)' PROVE j # fileid /\ ftab'[j].wbuf = <<>>
      <4>1. j # i /\ ftab'[j] = ftab[j]
        BY <2>4, <3>3 DEF Closes
      <4>2. F!IsOpen(j)
        BY <3>3, <4>1 DEF F!IsOpen
      <4> QED BY <2>4, <3>1, <4>1, <4>2 DEF Streams
    <3> QED BY <3>2, <3>3
  <2>5. ASSUME NEW i \in F!Slots, i = fileid, Puts(i) \/ Closes(i)
        PROVE  /\ \A j \in F!Slots : F!IsOpen(j)' =>
                    (j # fileid => ftab'[j].wbuf = <<>>) /\ (j = fileid => AtEnd(j)')
               /\ outcome'[MaxCalls] = "b" =>
                    /\ \A j \in F!Slots : F!IsOpen(j)' => j # fileid
                    /\ disk'[Path] = Iota(puts')
    BY <2>3, <2>4, <2>5
  <2>6. CASE \E i \in F!Slots : i = fileid /\ (Puts(i) \/ Closes(i))
    BY <2>0, <2>5, <2>6
  <2> QED BY <1>2, <2>1, <2>2, <2>6, DispatchDoes
<1> QED BY <1>1, <1>2

-----------------------------------------------------------------------------
(* The invariant of the server. *)

ServerInv ==
  /\ LinkInv /\ FP!FilesInv /\ Fileids
  /\ PutHistory /\ CloseAnswered /\ OnPath /\ Streams

(* It holds at the start. *)
LEMMA ServerInit == Init => ServerInv
<1> SUFFICES ASSUME Init PROVE ServerInv
  OBVIOUS
<1>1. LinkInv /\ FP!FilesInv /\ Fileids
  BY LinkInit, FilesStart, FileidsInit
<1>2. \A i \in F!Slots : ~F!IsOpen(i)
  BY DEF Init, F!Init, F!IsOpen, F!Closed
<1>3. puts = 0 /\ putBy = <<>> /\ answered = {} /\ fileid = 0
      /\ \A c \in L!Calls : outcome[c] = "-"
  BY DEF Init, F!Init, L!Init
<1>4. outcome[MaxCalls] # "b"
  BY <1>3, CallsAre DEF L!Calls
<1>5. ToSet(putBy) = {}
  BY <1>3 DEF ToSet
<1>6. PutsOrdered
  BY <1>3 DEF PutsOrdered
<1>7. PutsDone
  BY <1>3, <1>5 DEF PutsDone
<1>8. PutsCounted
  <2>1. Repetitions \in Nat
    BY <1>1, FS_CardinalityType DEF LinkInv, Debts, Repetitions
  <2> QED BY <1>3, <1>5, <2>1, FS_EmptySet DEF PutsCounted
<1>9. NoPutsYet /\ CloseAnswered /\ OnPath /\ Streams
  BY <1>2, <1>3, <1>4 DEF NoPutsYet, CloseAnswered, OnPath, Streams
<1> QED BY <1>1, <1>6, <1>7, <1>8, <1>9 DEF ServerInv, PutHistory

(* Every step keeps it. *)
LEMMA ServerNext == ServerInv /\ [Next]_vars => ServerInv'
<1> SUFFICES ASSUME ServerInv, [Next]_vars PROVE ServerInv'
  OBVIOUS
<1> USE DEF ServerInv, PutHistory
<1>1. LinkInv'
  BY LinkInvStep
<1>2. FP!FilesInv'
  BY FilesKeep DEF LinkInv
<1>3. Fileids'
  BY <1>1, FileidsStep
<1>4. PutsOrdered' /\ PutsDone' /\ PutsCounted' /\ NoPutsYet' /\ CloseAnswered'
  BY <1>1, PutsOrderedStep, PutsDoneStep, PutsCountedStep, NoPutsYetStep, CloseAnsweredStep
<1>5. OnPath'
  BY <1>1, OnPathStep
<1>6. Streams'
  BY <1>1, StreamsStep DEF PutsOrdered
<1> QED BY <1>1, <1>2, <1>3, <1>4, <1>5, <1>6

(* So it always holds. *)
LEMMA ServerAlways == Spec => []ServerInv
BY ServerInit, ServerNext, PTL DEF Spec

(* The records of the file, by the call that each is of, are the history. *)
LEMMA RecordsAre ==
  ASSUME PutsOrdered, disk[Path] = Iota(puts)
  PROVE  [i \in DOMAIN disk[Path] |-> putBy[disk[Path][i]]] = putBy
<1>1. DOMAIN disk[Path] = 1..puts /\ \A i \in 1..puts : disk[Path][i] = i
  BY DEF Iota
<1>2. putBy = [i \in 1..puts |-> putBy[i]]
  BY DEF PutsOrdered
<1> QED BY <1>1, <1>2

(* A close answered with success leaves a complete file, in the order of   *)
(* the calls, with at most one record more for every two damaged frames    *)
(* (hostopen, hostput, hostclose, server): for every script, whatever was  *)
(* damaged, given up, killed or restarted before.                          *)
THEOREM ClosedIsComplete == Spec => []ClosedFileIsComplete
<1>1. ServerInv => ClosedFileIsComplete
  <2> SUFFICES ASSUME ServerInv, faults = 0, NEW c0 \in answered, Script[c0] = "close"
               PROVE  LET from == [i \in DOMAIN disk[Path] |-> putBy[disk[Path][i]]]
                      IN /\ {c \in answered : Script[c] = "put"} \subseteq ToSet(from)
                         /\ \A i, j \in DOMAIN from : i < j => from[i] <= from[j]
                         /\ 2 * (Len(from) - Cardinality(ToSet(from))) <= garbles
    BY DEF ClosedFileIsComplete
  <2> USE DEF ServerInv, PutHistory
  <2>1. c0 = MaxCalls
    BY CallsAre DEF PutsDone
  <2>2. disk[Path] = Iota(puts)
    BY <2>1 DEF CloseAnswered, Streams
  <2> DEFINE from == [i \in DOMAIN disk[Path] |-> putBy[disk[Path][i]]]
  <2>3. from = putBy
    BY <2>2, RecordsAre
  <2>4. {c \in answered : Script[c] = "put"} \subseteq ToSet(putBy)
    BY DEF PutsDone
  <2>5. \A i, j \in DOMAIN putBy : i < j => putBy[i] <= putBy[j]
    BY DEF PutsOrdered
  <2>6. 2 * (Len(putBy) - Cardinality(ToSet(putBy))) <= garbles
    <3>1. Repetitions \in Nat /\ Cardinality(ToSet(putBy)) \in Nat /\ garbles \in Nat
      BY CallTypes, FS_CardinalityType DEF LinkInv, Debts, Repetitions, PutsCounted
    <3>2. Len(putBy) = puts /\ puts \in Nat
      BY DEF PutsOrdered
    <3>3. puts <= Repetitions + Cardinality(ToSet(putBy)) /\ 2 * Repetitions <= garbles
      BY <3>1 DEF PutsCounted, LinkInv, Debts, Owed
    <3> DEFINE k == Cardinality(ToSet(putBy))
    <3> HIDE DEF k
    <3>4. 2 * (puts - k) <= garbles
      BY <3>1, <3>2, <3>3 DEF k
    <3> QED BY <3>2, <3>4 DEF k
  <2> HIDE DEF from
  <2> QED BY <2>3, <2>4, <2>5, <2>6 DEF from
<1> QED BY <1>1, ServerAlways, PTL

(* The server does with the file table only what HostcmFiles allows: what  *)
(* it promises of the table, the streams and the disk holds behind this    *)
(* link too (server's dispatch of hostopen, hostput and hostclose).        *)
THEOREM FilesAreDriven == Spec => F!Spec
<1>1. Init => F!Init
  BY DEF Init
<1>2. ServerInv /\ [Next]_vars => [F!Next]_(F!vars)
  BY FilesMove DEF ServerInv, LinkInv, FileStep
<1> QED BY <1>1, <1>2, ServerAlways, PTL DEF Spec, F!Spec

=============================================================================
