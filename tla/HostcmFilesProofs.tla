------------------------- MODULE HostcmFilesProofs -------------------------
(***************************************************************************)
(* Proofs about HostcmFiles: what the file table, the streams' buffers and *)
(* the disk keep to each other, through any commands, failures of the      *)
(* host, deaths of the server and restarts of the client, for every number *)
(* of slots and every bound.                                               *)
(***************************************************************************)
EXTENDS HostcmFiles, FiniteSetTheorems, SequenceTheorems, WellFoundedInduction, TLAPS

Records == 0..MaxPuts
EffectiveLengths == RecordLengths \cup {0, DefaultRL}

OpenEntries ==
  [st : {"open"}, path : Paths, mode : Modes \cup {"l"}, flags : {"r", "w", "w+", "a"},
   type : Types, rl : EffectiveLengths, pos : Nat, wbuf : Seq(1..MaxPuts)]

Refusal == [st |-> "refused"]
Stale == [st |-> "stale"]
Holds == {Nothing, Refusal, Stale} \cup [st : {"held"}, name : Names, rl : EffectiveLengths]

DiskTypes ==
  /\ disk = [p \in DOMAIN disk |-> disk[p]] /\ DOMAIN disk \subseteq Paths
  /\ \A p \in DOMAIN disk : disk[p] \in Seq(Records)

TableTypes ==
  /\ ftab \in [Slots -> Entries]
  /\ \A i \in Slots : IsOpen(i) => ftab[i].path \in DOMAIN disk
  /\ \A i \in Slots : IsOpen(i) /\ ftab[i].flags = "r" => ftab[i].wbuf = <<>>
  /\ process \in {"up", "quit", "killed", "crashed"}
  /\ process # "up" => \A i \in Slots : ftab[i] = Closed

HistoryTypes ==
  /\ holds \in [Slots -> Holds]
  /\ view \in [Slots -> Seq(Records)]
  /\ clean \subseteq {i \in Slots : IsOpen(i)} /\ orphans \subseteq Slots
  /\ puts \in 0..MaxPuts /\ faults \in 0..MaxFaults
  /\ exits \in 0..MaxExits /\ reboots \in 0..MaxReboots

(* The first two parts of HandlesMatch, and the third. *)
Owned ==
  /\ \A i \in Slots : holds[i].st = "held" =>
       /\ IsOpen(i)
       /\ ftab[i].path.base = holds[i].name.base
       /\ ftab[i].path.rl = holds[i].rl
       /\ holds[i].name.ext \in {"", ftab[i].path.ext}
  /\ \A i \in Slots : IsOpen(i) => holds[i].st = "held" \/ i \in orphans

(* What the client could not close is lost to the table too. *)
Refusals == \A i \in Slots : holds[i].st = "refused" => ftab[i].st = "dangling"

Dangling == {i \in Slots : ftab[i].st = "dangling"}

FewDangle == Cardinality(Dangling) <= faults

(* A clean slot still has its file to itself. *)
Alone ==
  \A i \in clean : \A j \in Slots : IsOpen(j) /\ ftab[j].path = ftab[i].path => j = i

(* What stream f's file holds once d has got what f holds back. *)
Content(d, f) == IF f.wbuf = <<>> THEN d[f.path] ELSE Flushed(d[f.path], f, f.wbuf)

Matches == \A i \in clean : Content(disk, ftab[i]) = view[i]

FilesInv ==
  /\ DiskTypes /\ TableTypes /\ HistoryTypes
  /\ Owned /\ Refusals /\ FewDangle /\ Alone /\ Matches

-----------------------------------------------------------------------------
(* Natural numbers: a set of them has a least one; induction, stated about *)
(* a set; a function can be defined along the numbers up to N.             *)

(* A set of numbers has a least member. *)
LEMMA Least ==
  ASSUME NEW T \in SUBSET Nat, T # {}
  PROVE  \E n \in T : \A m \in T : n <= m
<1>1. \E x \in T : \A y \in T : ~(<<y, x>> \in OpToRel(<, Nat))
  BY NatLessThanWellFounded, WFMin
<1>2. PICK x \in T : \A y \in T : ~(<<y, x>> \in OpToRel(<, Nat))
  BY <1>1
<1>3. \A y \in T : <<y, x>> \in OpToRel(<, Nat) <=> y < x
  BY DEF OpToRel
<1>4. \A y \in T : ~(y < x)
  BY <1>2, <1>3
<1> HIDE DEF OpToRel
<1>5. x \in Nat /\ \A y \in T : y \in Nat
  OBVIOUS
<1> QED BY <1>4, <1>5

(* Min picks a member. *)
LEMMA MinIsLeast ==
  ASSUME NEW T \in SUBSET Nat, T # {}
  PROVE  Min(T) \in T
BY Least DEF Min

(* Induction, about a set. *)
LEMMA Induct ==
  ASSUME NEW S, 0 \in S, \A n \in Nat : n \in S => n + 1 \in S
  PROVE  Nat \subseteq S
<1> SUFFICES ASSUME Nat \ S # {} PROVE FALSE
  OBVIOUS
<1>1. PICK n \in Nat \ S : \A m \in Nat \ S : n <= m
  BY Least
<1>2. n # 0 /\ n - 1 \in Nat
  BY <1>1
<1>3. n - 1 \in S BY <1>1, <1>2
<1> QED BY <1>1, <1>2, <1>3

Recurses(f, N, D, s, step) ==
  f \in [0..N -> D] /\ f[0] = s /\ \A k \in 1..N : f[k] = step[<<k, f[k - 1]>>]

(* The function that starts at s and goes on by step. *)
LEMMA Recursion ==
  ASSUME NEW N \in Nat, NEW D, NEW s \in D, NEW step \in [(1..N) \X D -> D]
  PROVE  \E f : Recurses(f, N, D, s, step)
<1> DEFINE Upto(n, g) == /\ g \in [0..n -> D] /\ g[0] = s
                         /\ \A k \in 1..n : g[k] = step[<<k, g[k - 1]>>]
           Reached == {n \in Nat : n <= N => \E g : Upto(n, g)}
<1>1. 0 \in Reached
  <2>1. Upto(0, [i \in 0..0 |-> s])
    OBVIOUS
  <2> QED BY <2>1
<1>2. ASSUME NEW n \in Nat, n \in Reached PROVE n + 1 \in Reached
  <2>1. SUFFICES ASSUME n + 1 <= N PROVE \E g : Upto(n + 1, g)
    OBVIOUS
  <2>2. PICK g : Upto(n, g)
    BY <1>2, <2>1
  <2> DEFINE h == [i \in 0..(n + 1) |-> IF i = n + 1 THEN step[<<n + 1, g[n]>>] ELSE g[i]]
  <2>3. g[n] \in D /\ n + 1 \in 1..N
    BY <2>1, <2>2
  <2>4. step[<<n + 1, g[n]>>] \in D
    BY <2>3
  <2>5. h \in [0..(n + 1) -> D] /\ h[0] = s
    BY <2>2, <2>4
  <2>6. ASSUME NEW k \in 1..(n + 1) PROVE h[k] = step[<<k, h[k - 1]>>]
    <3>1. h[k - 1] = g[k - 1]
      OBVIOUS
    <3>2. CASE k = n + 1
      <4>1. h[k] = step[<<n + 1, g[n]>>] /\ k - 1 = n
        BY <3>2
      <4> QED BY <3>1, <3>2, <4>1
    <3>3. CASE k # n + 1
      <4>1. h[k] = g[k] /\ k \in 1..n
        BY <3>3
      <4> QED BY <3>1, <4>1, <2>2
    <3> QED BY <3>2, <3>3
  <2>7. Upto(n + 1, h)
    BY <2>5, <2>6
  <2> HIDE DEF h, Upto
  <2> QED BY <2>7
<1>3. Nat \subseteq Reached
  <2> HIDE DEF Reached
  <2> QED BY <1>1, <1>2, Induct
<1>4. PICK g : Upto(N, g)
  BY <1>3
<1> QED BY <1>4 DEF Recurses

-----------------------------------------------------------------------------
(* What a stream's records make of a content. *)

(* The length and the records of what WriteAt makes. *)
LEMMA WriteAtIs ==
  ASSUME NEW S, 0 \in S, NEW c \in Seq(S), NEW pos \in Nat, NEW data \in Seq(S)
  PROVE  /\ WriteAt(c, pos, data) \in Seq(S)
         /\ Len(WriteAt(c, pos, data)) =
              IF pos + Len(data) >= Len(c) THEN pos + Len(data) ELSE Len(c)
         /\ \A i \in 1..Len(WriteAt(c, pos, data)) :
              WriteAt(c, pos, data)[i] =
                IF i > pos /\ i <= pos + Len(data) THEN data[i - pos]
                ELSE IF i <= Len(c) THEN c[i] ELSE 0
<1> DEFINE p    == Padded(c, pos)
           head == SubSeq(p, 1, pos)
           rest == SubSeq(p, pos + Len(data) + 1, Len(p))
<1>a. Len(c) \in Nat /\ Len(data) \in Nat
  OBVIOUS
<1>1. /\ p \in Seq(S) /\ Len(p) = IF Len(c) >= pos THEN Len(c) ELSE pos
      /\ \A i \in 1..Len(p) : p[i] = IF i <= Len(c) THEN c[i] ELSE 0
  <2>1. CASE Len(c) >= pos
    BY <2>1, <1>a DEF Padded
  <2>2. CASE Len(c) < pos
    <3> DEFINE holes == [i \in 1..(pos - Len(c)) |-> 0]
    <3>1. holes \in Seq(S) /\ Len(holes) = pos - Len(c)
      BY <2>2, <1>a
    <3>2. p = c \o holes
      BY <2>2, <1>a DEF Padded
    <3>3. \A i \in 1..(pos - Len(c)) : holes[i] = 0
      OBVIOUS
    <3> HIDE DEF holes, p
    <3>4. /\ p \in Seq(S) /\ Len(p) = Len(c) + Len(holes)
          /\ \A i \in 1..(Len(c) + Len(holes)) :
               p[i] = IF i <= Len(c) THEN c[i] ELSE holes[i - Len(c)]
      BY <3>1, <3>2, ConcatProperties
    <3>5. Len(p) = pos
      BY <3>1, <3>4, <2>2, <1>a
    <3>6. ASSUME NEW i \in 1..Len(p) PROVE p[i] = IF i <= Len(c) THEN c[i] ELSE 0
      <4>1. CASE i <= Len(c)
        BY <4>1, <3>4
      <4>2. CASE i > Len(c)
        <5>1. p[i] = holes[i - Len(c)] /\ i - Len(c) \in 1..(pos - Len(c))
          BY <4>2, <3>4, <3>5, <2>2, <1>a
        <5> QED BY <4>2, <5>1, <3>3, <1>a
      <4> QED BY <4>1, <4>2, <1>a
    <3>7. Len(p) = IF Len(c) >= pos THEN Len(c) ELSE pos
      BY <3>5, <2>2, <1>a
    <3> QED BY <3>4, <3>6, <3>7
  <2> QED BY <2>1, <2>2, <1>a
<1> HIDE DEF p
<1>b. Len(p) \in Nat /\ Len(p) >= pos
  BY <1>1, <1>a
<1>2. /\ head \in Seq(S) /\ Len(head) = pos /\ \A i \in 1..pos : head[i] = p[i]
  <2>1. \A i \in 1..pos : p[i] \in S
    BY <1>1, <1>b
  <2>2. /\ head \in Seq(S) /\ Len(head) = IF 1 <= pos THEN pos - 1 + 1 ELSE 0
        /\ \A i \in 1..(pos - 1 + 1) : head[i] = p[1 + i - 1]
    BY <2>1, SubSeqProperties
  <2> HIDE DEF head
  <2>3. pos - 1 + 1 = pos /\ \A i \in 1..pos : 1 + i - 1 = i
    OBVIOUS
  <2> QED BY <2>2, <2>3
<1>3. /\ rest \in Seq(S)
      /\ Len(rest) = IF Len(p) > pos + Len(data) THEN Len(p) - pos - Len(data) ELSE 0
      /\ \A i \in 1..(Len(p) - pos - Len(data)) : rest[i] = p[pos + Len(data) + i]
  <2> DEFINE m == pos + Len(data) + 1
  <2>1. m \in Nat /\ m >= 1
    BY <1>a
  <2>2. \A i \in m..Len(p) : p[i] \in S
    BY <1>1, <1>b, <2>1
  <2>3. /\ rest \in Seq(S) /\ Len(rest) = IF m <= Len(p) THEN Len(p) - m + 1 ELSE 0
        /\ \A i \in 1..(Len(p) - m + 1) : rest[i] = p[m + i - 1]
    <3> HIDE DEF m
    <3>1. m \in Int /\ Len(p) \in Int
      BY <2>1, <1>b
    <3>2. rest = SubSeq(p, m, Len(p))
      BY DEF m
    <3> HIDE DEF rest
    <3> QED BY <2>2, <3>1, <3>2, SubSeqProperties
  <2> HIDE DEF rest
  <2>4. Len(p) - m + 1 = Len(p) - pos - Len(data)
    BY <1>a, <1>b
  <2>5. \A i \in Nat : m + i - 1 = pos + Len(data) + i
    BY <1>a
  <2>6. Len(rest) = IF Len(p) > pos + Len(data) THEN Len(p) - pos - Len(data) ELSE 0
    BY <1>a, <1>b, <2>3
  <2>7. ASSUME NEW i \in 1..(Len(p) - pos - Len(data)) PROVE rest[i] = p[pos + Len(data) + i]
    <3>1. i \in Nat /\ i \in 1..(Len(p) - m + 1)
      BY <2>4
    <3> QED BY <2>3, <2>5, <3>1
  <2> QED BY <2>3, <2>6, <2>7
<1> HIDE DEF head, rest
<1> DEFINE front == head \o data
           w     == front \o rest
<1>4. /\ front \in Seq(S) /\ Len(front) = pos + Len(data)
      /\ \A i \in 1..(pos + Len(data)) : front[i] = IF i <= pos THEN head[i] ELSE data[i - pos]
  BY <1>2, <1>a, ConcatProperties
<1> HIDE DEF front
<1>5. /\ w \in Seq(S) /\ Len(w) = pos + Len(data) + Len(rest)
      /\ \A i \in 1..(pos + Len(data) + Len(rest)) :
           w[i] = IF i <= pos + Len(data) THEN front[i] ELSE rest[i - (pos + Len(data))]
  <2>1. /\ w \in Seq(S) /\ Len(w) = Len(front) + Len(rest)
        /\ \A i \in 1..(Len(front) + Len(rest)) :
             w[i] = IF i <= Len(front) THEN front[i] ELSE rest[i - Len(front)]
    BY <1>3, <1>4, ConcatProperties
  <2> QED BY <2>1, <1>4
<1>6. WriteAt(c, pos, data) = w
  BY DEF WriteAt, w, front, head, rest, p
<1> HIDE DEF w
<1>7. Len(w) = IF pos + Len(data) >= Len(c) THEN pos + Len(data) ELSE Len(c)
  <2>1. Len(w) = pos + Len(data) + Len(rest)
    BY <1>5
  <2>2. CASE Len(p) > pos + Len(data)
    <3>1. Len(rest) = Len(p) - pos - Len(data) /\ Len(p) = Len(c)
      BY <2>2, <1>1, <1>3, <1>a, <1>b
    <3> QED BY <2>1, <2>2, <3>1, <1>a
  <2>3. CASE Len(p) <= pos + Len(data)
    <3>1. Len(rest) = 0 /\ Len(c) <= pos + Len(data)
      BY <2>3, <1>1, <1>3, <1>a, <1>b
    <3> QED BY <2>1, <3>1, <1>a
  <2> QED BY <2>2, <2>3, <1>a, <1>b
<1>c. Len(rest) \in Nat
  BY <1>3
<1>8. ASSUME NEW i \in 1..Len(w)
      PROVE  w[i] = IF i > pos /\ i <= pos + Len(data) THEN data[i - pos]
                    ELSE IF i <= Len(c) THEN c[i] ELSE 0
  <2>1. CASE i <= pos
    BY <2>1, <1>1, <1>2, <1>4, <1>5, <1>a
  <2>2. CASE i > pos /\ i <= pos + Len(data)
    BY <2>2, <1>4, <1>5, <1>a
  <2>3. CASE i > pos + Len(data)
    <3> DEFINE k == i - (pos + Len(data))
    <3>1. Len(rest) # 0 /\ k \in 1..(Len(p) - pos - Len(data)) /\ pos + Len(data) + k = i
      <4>1. i \in Nat /\ i <= pos + Len(data) + Len(rest)
        BY <1>5, <1>a, <1>c
      <4>2. Len(rest) # 0
        BY <4>1, <2>3, <1>a
      <4>3. Len(rest) = Len(p) - pos - Len(data)
        BY <4>2, <1>3
      <4> QED BY <4>1, <4>2, <4>3, <2>3, <1>a
    <3>2. w[i] = rest[k]
      BY <2>3, <1>5
    <3>3. rest[k] = p[pos + Len(data) + k]
      <4> HIDE DEF k
      <4> QED BY <3>1, <1>3
    <3>4. w[i] = p[i] /\ i \in 1..Len(p)
      BY <3>1, <3>2, <3>3, <1>a, <1>b
    <3> QED BY <3>4, <2>3, <1>1, <1>a
  <2> QED BY <2>1, <2>2, <2>3, <1>a
<1> QED BY <1>5, <1>6, <1>7, <1>8

(* Records written one batch after the other, or all at once. *)
LEMMA WriteAtTwice ==
  ASSUME NEW S, 0 \in S, NEW c \in Seq(S), NEW pos \in Nat, NEW a \in Seq(S), NEW b \in Seq(S)
  PROVE  WriteAt(WriteAt(c, pos, a), pos + Len(a), b) = WriteAt(c, pos, a \o b)
<1> DEFINE u == WriteAt(c, pos, a)
           v == WriteAt(u, pos + Len(a), b)
           w == WriteAt(c, pos, a \o b)
<1>a. Len(a) \in Nat /\ Len(b) \in Nat /\ Len(c) \in Nat
  OBVIOUS
<1>1. /\ a \o b \in Seq(S) /\ Len(a \o b) = Len(a) + Len(b)
      /\ \A i \in 1..(Len(a) + Len(b)) : (a \o b)[i] = IF i <= Len(a) THEN a[i] ELSE b[i - Len(a)]
  BY ConcatProperties
<1>2. /\ u \in Seq(S) /\ Len(u) = IF pos + Len(a) >= Len(c) THEN pos + Len(a) ELSE Len(c)
      /\ \A i \in 1..Len(u) : u[i] = IF i > pos /\ i <= pos + Len(a) THEN a[i - pos]
                                   ELSE IF i <= Len(c) THEN c[i] ELSE 0
  BY WriteAtIs
<1> HIDE DEF u
<1>3. /\ v \in Seq(S)
      /\ Len(v) = IF pos + Len(a) + Len(b) >= Len(u) THEN pos + Len(a) + Len(b) ELSE Len(u)
      /\ \A i \in 1..Len(v) :
           v[i] = IF i > pos + Len(a) /\ i <= pos + Len(a) + Len(b) THEN b[i - (pos + Len(a))]
                  ELSE IF i <= Len(u) THEN u[i] ELSE 0
  BY <1>a, <1>2, WriteAtIs
<1>4. /\ w \in Seq(S)
      /\ Len(w) = IF pos + (Len(a) + Len(b)) >= Len(c) THEN pos + (Len(a) + Len(b)) ELSE Len(c)
      /\ \A i \in 1..Len(w) :
           w[i] = IF i > pos /\ i <= pos + (Len(a) + Len(b)) THEN (a \o b)[i - pos]
                  ELSE IF i <= Len(c) THEN c[i] ELSE 0
  <2> DEFINE ab == a \o b
  <2>1. /\ WriteAt(c, pos, ab) \in Seq(S)
        /\ Len(WriteAt(c, pos, ab)) = IF pos + Len(ab) >= Len(c) THEN pos + Len(ab) ELSE Len(c)
        /\ \A i \in 1..Len(WriteAt(c, pos, ab)) :
             WriteAt(c, pos, ab)[i] = IF i > pos /\ i <= pos + Len(ab) THEN ab[i - pos]
                                      ELSE IF i <= Len(c) THEN c[i] ELSE 0
    <3>1. ab \in Seq(S)
      BY <1>1
    <3> HIDE DEF ab
    <3> QED BY <3>1, WriteAtIs
  <2> QED BY <2>1, <1>1
<1> HIDE DEF v, w
<1>5. Len(v) = Len(w)
  BY <1>2, <1>3, <1>4, <1>a
<1>6. ASSUME NEW i \in 1..Len(v) PROVE v[i] = w[i]
  <2>1. CASE i <= pos
    BY <2>1, <1>2, <1>3, <1>4, <1>5, <1>a
  <2>2. CASE i > pos /\ i <= pos + Len(a)
    <3>1. v[i] = a[i - pos]
      BY <2>2, <1>2, <1>3, <1>a
    <3>2. w[i] = (a \o b)[i - pos]
      BY <2>2, <1>4, <1>5, <1>a
    <3> QED BY <2>2, <3>1, <3>2, <1>1, <1>a
  <2>3. CASE i > pos + Len(a) /\ i <= pos + Len(a) + Len(b)
    <3>1. v[i] = b[i - (pos + Len(a))]
      BY <2>3, <1>3, <1>a
    <3>2. w[i] = (a \o b)[i - pos]
      BY <2>3, <1>4, <1>5, <1>a
    <3>3. (a \o b)[i - pos] = b[i - pos - Len(a)]
      BY <2>3, <1>1, <1>a
    <3>4. i - pos - Len(a) = i - (pos + Len(a))
      BY <1>a
    <3> QED BY <3>1, <3>2, <3>3, <3>4
  <2>4. CASE i > pos + Len(a) + Len(b)
    BY <2>4, <1>2, <1>3, <1>4, <1>5, <1>a
  <2> QED BY <2>1, <2>2, <2>3, <2>4, <1>a
<1>7. v = w
  BY <1>3, <1>4, <1>5, <1>6, SeqEqual
<1> QED BY <1>7 DEF v, w, u

(* Written out, a content is still one. *)
LEMMA FlushedIs ==
  ASSUME NEW S, 0 \in S, NEW c \in Seq(S), NEW f, f.pos \in Nat, NEW data \in Seq(S)
  PROVE  Flushed(c, f, data) \in Seq(S)
BY WriteAtIs, ConcatProperties DEF Flushed

(* Written out in two batches, or at once. *)
LEMMA FlushedTwice ==
  ASSUME NEW S, 0 \in S, NEW c \in Seq(S), NEW a \in Seq(S), NEW b \in Seq(S),
         NEW f, NEW g, f.pos \in Nat, g.flags = f.flags, g.pos = f.pos + Len(a)
  PROVE  Flushed(Flushed(c, f, a), g, b) = Flushed(c, f, a \o b)
<1>1. CASE f.flags = "a"
  BY <1>1, ConcatAssociative DEF Flushed
<1>2. CASE f.flags # "a"
  <2>1. WriteAt(WriteAt(c, f.pos, a), f.pos + Len(a), b) = WriteAt(c, f.pos, a \o b)
    <3> DEFINE pos == f.pos
    <3>1. pos \in Nat
      OBVIOUS
    <3>2. WriteAt(WriteAt(c, pos, a), pos + Len(a), b) = WriteAt(c, pos, a \o b)
      <4> HIDE DEF pos
      <4> QED BY <3>1, WriteAtTwice
    <3> QED BY <3>2
  <2>2. /\ Flushed(c, f, a) = WriteAt(c, f.pos, a)
        /\ Flushed(c, f, a \o b) = WriteAt(c, f.pos, a \o b)
    BY <1>2 DEF Flushed
  <2>3. \A d : Flushed(d, g, b) = WriteAt(d, f.pos + Len(a), b)
    BY <1>2 DEF Flushed
  <2> QED BY <2>1, <2>2, <2>3
<1> QED BY <1>1, <1>2

-----------------------------------------------------------------------------
(* Streams and the disk. *)

Disks == [DOMAIN disk -> Seq(Records)]

(* What is known of an open slot. *)
LEMMA OpenEntry ==
  ASSUME TableTypes, NEW i \in Slots, IsOpen(i)
  PROVE  /\ ftab[i] \in OpenEntries /\ ftab[i].path \in DOMAIN disk
         /\ ftab[i].pos \in Nat /\ ftab[i].wbuf \in Seq(1..MaxPuts)
         /\ ftab[i].wbuf \in Seq(Records) /\ ftab[i].path \in Paths
<1>1. ftab[i] \in Entries /\ ftab[i].st = "open"
  BY DEF TableTypes, IsOpen
<1>2. ftab[i] \in OpenEntries
  BY <1>1 DEF Entries, OpenEntries, EffectiveLengths
<1>3. ftab[i].pos \in Nat /\ ftab[i].wbuf \in Seq(1..MaxPuts) /\ ftab[i].path \in Paths
  BY <1>2 DEF OpenEntries
<1>4. 1..MaxPuts \subseteq Records
  BY FilesAssumption DEF Records
<1>5. ftab[i].wbuf \in Seq(Records)
  BY <1>3, <1>4, SeqMonotonic
<1> QED BY <1>2, <1>3, <1>5 DEF TableTypes

(* FlushedInto changes the one file, to its Content. *)
LEMMA FlushedIntoIs ==
  ASSUME TableTypes, NEW i \in Slots, NEW d \in Disks
  PROVE  /\ FlushedInto(d, i) \in Disks
         /\ IsOpen(i) => /\ FlushedInto(d, i)[ftab[i].path] = Content(d, ftab[i])
                         /\ Content(d, ftab[i]) \in Seq(Records)
         /\ \A p \in DOMAIN disk :
              ~IsOpen(i) \/ p # ftab[i].path => FlushedInto(d, i)[p] = d[p]
<1>1. CASE ~IsOpen(i)
  BY <1>1 DEF FlushedInto
<1>2. CASE IsOpen(i)
  <2>1. /\ ftab[i].path \in DOMAIN disk /\ ftab[i].pos \in Nat /\ ftab[i].wbuf \in Seq(Records)
    BY <1>2, OpenEntry
  <2>2. CASE ftab[i].wbuf = <<>>
    BY <2>1, <2>2 DEF FlushedInto, Content, Disks
  <2>3. CASE ftab[i].wbuf # <<>>
    <3>1. 0 \in Records
      BY FilesAssumption DEF Records
    <3>2. d[ftab[i].path] \in Seq(Records)
      BY <2>1 DEF Disks
    <3>3. Flushed(d[ftab[i].path], ftab[i], ftab[i].wbuf) \in Seq(Records)
      BY <2>1, <3>1, <3>2, FlushedIs
    <3>4. FlushedInto(d, i) = [d EXCEPT ![ftab[i].path] = Flushed(d[ftab[i].path], ftab[i], ftab[i].wbuf)]
      BY <1>2, <2>3 DEF FlushedInto
    <3>5. Content(d, ftab[i]) = Flushed(d[ftab[i].path], ftab[i], ftab[i].wbuf)
      BY <2>3 DEF Content
    <3> DEFINE c == Content(d, ftab[i])
               path == ftab[i].path
    <3>6. FlushedInto(d, i) = [d EXCEPT ![path] = c] /\ c \in Seq(Records) /\ path \in DOMAIN disk
      BY <2>1, <3>3, <3>4, <3>5
    <3>7. d \in [DOMAIN disk -> Seq(Records)]
      BY DEF Disks
    <3> HIDE DEF c, path
    <3>8. /\ FlushedInto(d, i) \in [DOMAIN disk -> Seq(Records)]
          /\ FlushedInto(d, i)[path] = c
          /\ \A p \in DOMAIN disk : p # path => FlushedInto(d, i)[p] = d[p]
      BY <3>6, <3>7, Zenon
    <3>9. FlushedInto(d, i) \in Disks
      BY <3>8 DEF Disks
    <3> QED BY <1>2, <3>6, <3>8, <3>9 DEF c, path
  <2> QED BY <2>2, <2>3
<1> QED BY <1>1, <1>2

(* What the recursion of WrittenOut computes. *)
WritesOut(f, lost) ==
  /\ f \in [0..NFiles -> Disks] /\ f[0] = disk
  /\ \A k \in 1..NFiles : f[k] = IF k \in lost THEN f[k - 1] ELSE FlushedInto(f[k - 1], k)
  /\ \A n \in 0..NFiles : WrittenOut(n, lost) = f[n]

LEMMA WrittenOutUnfolds ==
  ASSUME DiskTypes, TableTypes, NEW lost
  PROVE  \E f : WritesOut(f, lost)
<1> DEFINE step == [x \in (1..NFiles) \X Disks |->
                      IF x[1] \in lost THEN x[2] ELSE FlushedInto(x[2], x[1])]
<1>a. NFiles \in Nat /\ Slots = 1..NFiles
  BY FilesAssumption DEF Slots
<1>1. step \in [(1..NFiles) \X Disks -> Disks]
  <2> SUFFICES ASSUME NEW k \in 1..NFiles, NEW d \in Disks
               PROVE  (IF k \in lost THEN d ELSE FlushedInto(d, k)) \in Disks
    OBVIOUS
  <2> QED BY <1>a, FlushedIntoIs
<1>2. disk \in Disks
  BY DEF DiskTypes, Disks
<1>b. \E f : Recurses(f, NFiles, Disks, disk, step)
  <2> HIDE DEF step
  <2>1. NFiles \in Nat
    BY <1>a
  <2> QED BY <2>1, <1>1, <1>2, Recursion
<1>3. PICK f : Recurses(f, NFiles, Disks, disk, step)
  BY <1>b
<1>c. f \in [0..NFiles -> Disks] /\ f[0] = disk
  BY <1>3 DEF Recurses
<1>4. \A k \in 1..NFiles : f[k] = IF k \in lost THEN f[k - 1] ELSE FlushedInto(f[k - 1], k)
  <2> SUFFICES ASSUME NEW k \in 1..NFiles
               PROVE  f[k] = IF k \in lost THEN f[k - 1] ELSE FlushedInto(f[k - 1], k)
    OBVIOUS
  <2>1. f[k - 1] \in Disks
    BY <1>a, <1>c
  <2>2. f[k] = step[<<k, f[k - 1]>>]
    BY <1>3 DEF Recurses
  <2> QED BY <2>1, <2>2
<1> DEFINE Body(u) == [k \in 0..NFiles |->
             IF k = 0 THEN disk
             ELSE IF k \in lost THEN u[k - 1] ELSE FlushedInto(u[k - 1], k)]
<1>5. f = Body(f)
  <2>1. ASSUME NEW k \in 0..NFiles PROVE f[k] = Body(f)[k]
    BY <1>a, <1>c, <1>4
  <2>2. f = [k \in 0..NFiles |-> f[k]]
    BY <1>c
  <2> QED BY <2>1, <2>2
<1>6. ASSUME NEW u, u = Body(u) PROVE u = f
  <2> DEFINE Same == {k \in Nat : k <= NFiles => u[k] = f[k]}
  <2>1. 0 \in Same
    <3>1. 0 \in 0..NFiles
      BY <1>a
    <3>2. Body(u)[0] = disk
      BY <3>1
    <3> QED BY <1>c, <1>6, <3>2
  <2>2. ASSUME NEW k \in Nat, k \in Same PROVE k + 1 \in Same
    <3>1. SUFFICES ASSUME k + 1 <= NFiles PROVE u[k + 1] = f[k + 1]
      OBVIOUS
    <3>2. u[k] = f[k] /\ k + 1 \in 1..NFiles /\ k + 1 \in 0..NFiles /\ (k + 1) - 1 = k
      BY <1>a, <2>2, <3>1
    <3>3. Body(u)[k + 1] = IF k + 1 \in lost THEN u[k] ELSE FlushedInto(u[k], k + 1)
      BY <3>2
    <3>4. f[k + 1] = IF k + 1 \in lost THEN f[k] ELSE FlushedInto(f[k], k + 1)
      BY <1>4, <3>2
    <3>5. u[k + 1] = Body(u)[k + 1]
      BY <1>6
    <3> HIDE DEF Body
    <3> QED BY <3>2, <3>3, <3>4, <3>5
  <2>3. Nat \subseteq Same
    <3> HIDE DEF Same
    <3> QED BY <2>1, <2>2, Induct
  <2>4. u = [k \in 0..NFiles |-> u[k]]
    BY <1>6
  <2>5. f = [k \in 0..NFiles |-> f[k]]
    BY <1>c
  <2>6. \A k \in 0..NFiles : u[k] = f[k]
    BY <1>a, <2>3
  <2> QED BY <2>4, <2>5, <2>6
<1>7. (CHOOSE u : u = Body(u)) = f
  <2> HIDE DEF Body
  <2> QED BY <1>5, <1>6
<1>8. \A n \in 0..NFiles : WrittenOut(n, lost) = f[n]
  BY <1>7 DEF WrittenOut
<1> QED BY <1>c, <1>4, <1>8 DEF WritesOut

(* A stream that has its file to itself is written out whole. *)
LEMMA WrittenOutIs ==
  ASSUME DiskTypes, TableTypes, NEW lost, NEW n \in 0..NFiles
  PROVE  /\ WrittenOut(n, lost) \in Disks
         /\ \A i \in Slots :
              (IsOpen(i) /\ i \notin lost /\ i <= n
                 /\ \A j \in Slots : IsOpen(j) /\ ftab[j].path = ftab[i].path => j = i)
                => WrittenOut(n, lost)[ftab[i].path] = Content(disk, ftab[i])
<1>b. PICK f : WritesOut(f, lost)
  BY WrittenOutUnfolds
<1>1. /\ f \in [0..NFiles -> Disks] /\ f[0] = disk
      /\ \A k \in 1..NFiles : f[k] = IF k \in lost THEN f[k - 1] ELSE FlushedInto(f[k - 1], k)
      /\ \A m \in 0..NFiles : WrittenOut(m, lost) = f[m]
  BY <1>b DEF WritesOut
<1>a. NFiles \in Nat /\ Slots = 1..NFiles
  BY FilesAssumption DEF Slots
<1>2. WrittenOut(n, lost) \in Disks
  BY <1>1
<1>3. ASSUME NEW i \in Slots, IsOpen(i), i \notin lost, i <= n,
             \A j \in Slots : IsOpen(j) /\ ftab[j].path = ftab[i].path => j = i
      PROVE  WrittenOut(n, lost)[ftab[i].path] = Content(disk, ftab[i])
  <2> DEFINE p == ftab[i].path
             Right == {k \in Nat : k <= NFiles =>
                         f[k][p] = IF k < i THEN disk[p] ELSE Content(disk, ftab[i])}
  <2>1. 0 \in Right
    BY <1>1, <1>a
  <2>2. ASSUME NEW k \in Nat, k \in Right PROVE k + 1 \in Right
    <3>1. SUFFICES ASSUME k + 1 <= NFiles
                   PROVE  f[k + 1][p] = IF k + 1 < i THEN disk[p] ELSE Content(disk, ftab[i])
      OBVIOUS
    <3>2. /\ k + 1 \in Slots /\ k \in 0..NFiles /\ f[k] \in Disks /\ i \in Nat
          /\ f[k][p] = IF k < i THEN disk[p] ELSE Content(disk, ftab[i])
      BY <1>a, <1>1, <2>2, <3>1
    <3>3. f[k + 1] = IF k + 1 \in lost THEN f[k] ELSE FlushedInto(f[k], k + 1)
      <4>1. (k + 1) - 1 = k /\ k + 1 \in 1..NFiles
        BY <1>a, <3>2
      <4> QED BY <1>1, <4>1
    <3>4. p \in DOMAIN disk
      BY <1>3, OpenEntry
    <3>5. CASE k + 1 = i
      <4>1. f[k + 1] = FlushedInto(f[k], i)
        BY <1>3, <3>3, <3>5
      <4>2. f[k + 1][p] = Content(f[k], ftab[i])
        BY <1>3, <3>2, <4>1, FlushedIntoIs
      <4>3. f[k][p] = disk[p]
        BY <3>2, <3>5
      <4> QED BY <3>2, <3>5, <4>2, <4>3 DEF Content
    <3>6. CASE k + 1 # i
      <4>1. ~IsOpen(k + 1) \/ p # ftab[k + 1].path
        BY <1>3, <3>2, <3>6
      <4>2. f[k + 1][p] = f[k][p]
        BY <3>2, <3>3, <3>4, <4>1, FlushedIntoIs
      <4> QED BY <3>2, <3>6, <4>2
    <3> QED BY <3>5, <3>6
  <2>3. Nat \subseteq Right
    <3> HIDE DEF Right
    <3> QED BY <2>1, <2>2, Induct
  <2>4. n \in Nat /\ n <= NFiles /\ i \in Nat
    BY <1>a
  <2>5. f[n][p] = Content(disk, ftab[i])
    BY <1>3, <2>3, <2>4
  <2> QED BY <1>1, <2>5
<1> QED BY <1>2, <1>3

-----------------------------------------------------------------------------
(* The first state. *)

(* The first state satisfies the invariant. *)
LEMMA InitInv == Init => FilesInv
<1> SUFFICES ASSUME Init PROVE FilesInv
  OBVIOUS
<1>a. \A i \in Slots : ftab[i] = Closed
  BY DEF Init
<1>1. DiskTypes
  <2>1. <<0>> \in Seq(Records)
    BY FilesAssumption DEF Records
  <2>2. disk = [p \in InitialDisk |-> <<0>>]
    BY DEF Init
  <2> QED BY <2>1, <2>2, InitialDiskAssumption DEF DiskTypes
<1>2. TableTypes
  <2>1. Closed \in Entries
    BY DEF Closed, Entries
  <2>2. ftab \in [Slots -> Entries]
    BY <2>1 DEF Init
  <2>3. \A i \in Slots : ~IsOpen(i)
    BY <1>a DEF Closed, IsOpen
  <2> QED BY <1>a, <2>2, <2>3 DEF TableTypes, Init
<1>3. HistoryTypes
  <2>1. holds \in [Slots -> Holds]
    BY DEF Init, Holds
  <2>2. view \in [Slots -> Seq(Records)]
    BY DEF Init
  <2>3. clean = {} /\ orphans = {} /\ puts = 0 /\ faults = 0 /\ exits = 0 /\ reboots = 0
    BY DEF Init
  <2> QED BY <2>1, <2>2, <2>3, FilesAssumption DEF HistoryTypes
<1>4. Owned
  <2>1. \A i \in Slots : holds[i].st = "none" /\ ~IsOpen(i)
    BY <1>a DEF Init, Nothing, IsOpen, Closed
  <2> QED BY <2>1 DEF Owned
<1>r. Refusals
  BY DEF Init, Nothing, Refusals
<1>5. FewDangle
  <2>1. Dangling = {}
    BY <1>a DEF Dangling, Closed
  <2> QED BY <2>1, FS_EmptySet DEF FewDangle, Init
<1>6. Alone /\ Matches
  BY DEF Alone, Matches, Init
<1> QED BY <1>1, <1>2, <1>3, <1>4, <1>r, <1>5, <1>6 DEF FilesInv

-----------------------------------------------------------------------------
(* Steps. *)

(* The dangling slots can be counted. *)
LEMMA DanglingCount ==
  ASSUME TableTypes
  PROVE  IsFiniteSet(Dangling) /\ Cardinality(Dangling) \in Nat
<1>1. IsFiniteSet(Slots)
  BY FilesAssumption, FS_Interval DEF Slots
<1>2. Dangling \subseteq Slots
  BY DEF Dangling
<1> QED BY <1>1, <1>2, FS_Subset, FS_CardinalityType

(* No more slots dangle, and no fewer failures are counted. *)
LEMMA FewStillDangle ==
  ASSUME FilesInv, NEW T \in SUBSET Dangling, NEW n \in Nat, faults <= n
  PROVE  Cardinality(T) <= n
<1>1. IsFiniteSet(Dangling) /\ Cardinality(Dangling) \in Nat
  BY DanglingCount DEF FilesInv
<1>2. Cardinality(T) \in Nat /\ Cardinality(T) <= Cardinality(Dangling)
  BY <1>1, FS_Subset, FS_CardinalityType
<1>3. faults \in Nat /\ Cardinality(Dangling) <= faults
  BY FilesAssumption DEF FilesInv, HistoryTypes, FewDangle
<1> QED BY <1>1, <1>2, <1>3

(* A step that changes nothing but what the client counts. *)
LEMMA RefusedKeeps ==
  ASSUME FilesInv, UNCHANGED vars
  PROVE  FilesInv'
<1>1. /\ disk' = disk /\ ftab' = ftab /\ process' = process /\ holds' = holds /\ view' = view
      /\ clean' = clean /\ orphans' = orphans /\ puts' = puts /\ faults' = faults
      /\ exits' = exits /\ reboots' = reboots
  BY DEF vars
<1>2. DiskTypes'
  BY <1>1 DEF FilesInv, DiskTypes
<1>3. TableTypes'
  BY <1>1 DEF FilesInv, TableTypes, IsOpen
<1>4. HistoryTypes'
  BY <1>1 DEF FilesInv, HistoryTypes, IsOpen
<1>5. Owned'
  BY <1>1 DEF FilesInv, Owned, IsOpen
<1>r. Refusals'
  BY <1>1 DEF FilesInv, Refusals
<1>6. FewDangle'
  BY <1>1 DEF FilesInv, FewDangle, Dangling
<1>7. Alone'
  BY <1>1 DEF FilesInv, Alone, IsOpen
<1>8. Matches'
  BY <1>1 DEF FilesInv, Matches
<1> QED BY <1>2, <1>3, <1>4, <1>5, <1>r, <1>6, <1>7, <1>8 DEF FilesInv

(* A step that works on slot i's stream leaves what the others' files hold. *)
LEMMA OthersKeep ==
  ASSUME FilesInv, NEW path, NEW d, \A p \in DOMAIN disk : p # path => d[p] = disk[p],
         NEW j \in clean, ftab[j].path # path
  PROVE  Content(d, ftab[j]) = view[j]
<1>1. ftab[j].path \in DOMAIN disk /\ Content(disk, ftab[j]) = view[j]
  BY DEF FilesInv, HistoryTypes, TableTypes, Matches
<1>2. d[ftab[j].path] = disk[ftab[j].path]
  BY <1>1
<1> QED BY <1>1, <1>2 DEF Content

(* Slot i's stream works on its file and goes on as g. *)
Works(i, g) ==
  /\ IsOpen(i) /\ process = "up" /\ process' = "up"
  /\ disk' \in Disks /\ \A p \in DOMAIN disk : p # ftab[i].path => disk'[p] = disk[p]
  /\ ftab' = [ftab EXCEPT ![i] = g]
  /\ g \in OpenEntries /\ g.path = ftab[i].path /\ (g.flags = "r" => g.wbuf = <<>>)
  /\ holds' = holds /\ orphans' = orphans /\ reboots' = reboots /\ exits' = exits
  /\ clean' \subseteq clean
  /\ view' \in [Slots -> Seq(Records)] /\ \A j \in Slots : j # i => view'[j] = view[j]
  /\ i \in clean' => Content(disk', g) = view'[i]
  /\ puts' \in 0..MaxPuts /\ faults' \in 0..MaxFaults /\ faults <= faults'

(* The work of a stream keeps the invariant. *)
LEMMA WorksKeeps ==
  ASSUME FilesInv, NEW i \in Slots, NEW g, Works(i, g)
  PROVE  FilesInv'
<1>a. /\ ftab \in [Slots -> Entries] /\ ftab' = [ftab EXCEPT ![i] = g]
      /\ g \in OpenEntries /\ g.path = ftab[i].path /\ IsOpen(i)
  BY DEF FilesInv, TableTypes, Works
<1>b. ftab'[i] = g /\ \A j \in Slots : j # i => ftab'[j] = ftab[j]
  BY <1>a
<1>c. g.st = "open" /\ g \in Entries
  BY <1>a DEF OpenEntries, Entries, EffectiveLengths
<1>d. \A j \in Slots : IsOpen(j)' <=> IsOpen(j)
  BY <1>a, <1>b, <1>c DEF IsOpen
<1>e. \A j \in Slots : ftab'[j].path = ftab[j].path
  BY <1>a, <1>b
<1>f. disk' \in [DOMAIN disk -> Seq(Records)]
  BY DEF Works, Disks
<1>1. DiskTypes'
  BY <1>f DEF FilesInv, DiskTypes
<1>2. TableTypes'
  <2>1. ftab' \in [Slots -> Entries]
    BY <1>a, <1>c
  <2>2. ASSUME NEW j \in Slots, IsOpen(j)' PROVE ftab'[j].path \in DOMAIN disk'
    BY <1>d, <1>e, <1>f, <2>2 DEF FilesInv, TableTypes
  <2>3. ASSUME NEW j \in Slots, IsOpen(j)', ftab'[j].flags = "r" PROVE ftab'[j].wbuf = <<>>
    <3>1. CASE j = i
      BY <1>b, <2>3, <3>1 DEF Works
    <3>2. CASE j # i
      BY <1>b, <1>d, <2>3, <3>2 DEF FilesInv, TableTypes
    <3> QED BY <3>1, <3>2
  <2>4. process' = "up"
    BY DEF Works
  <2> QED BY <2>1, <2>2, <2>3, <2>4 DEF TableTypes
<1>3. HistoryTypes'
  <2>1. clean' \subseteq {j \in Slots : IsOpen(j)'}
    BY <1>d DEF FilesInv, HistoryTypes, Works
  <2> QED BY <2>1 DEF FilesInv, HistoryTypes, Works
<1>4. Owned'
  BY <1>d, <1>e DEF FilesInv, Owned, Works
<1>r. Refusals'
  <2> SUFFICES ASSUME NEW j \in Slots, holds'[j].st = "refused" PROVE ftab'[j].st = "dangling"
    BY DEF Refusals
  <2>1. ftab[j].st = "dangling"
    BY DEF FilesInv, Refusals, Works
  <2>2. j # i
    BY <1>a, <2>1 DEF IsOpen
  <2> QED BY <1>b, <2>1, <2>2
<1>5. FewDangle'
  <2>1. Dangling' \subseteq Dangling
    BY <1>b, <1>c DEF Dangling
  <2>2. faults' \in Nat /\ faults <= faults'
    BY FilesAssumption DEF Works
  <2>3. Cardinality(Dangling') <= faults'
    BY <2>1, <2>2, FewStillDangle
  <2> QED BY <2>3 DEF FewDangle
<1>6. Alone'
  BY <1>d, <1>e DEF FilesInv, Alone, HistoryTypes, Works
<1>7. Matches'
  <2> SUFFICES ASSUME NEW j \in clean' PROVE Content(disk', ftab'[j]) = view'[j]
    BY DEF Matches
  <2>1. j \in clean /\ j \in Slots /\ IsOpen(j)
    BY DEF FilesInv, HistoryTypes, Works
  <2>2. CASE j = i
    BY <1>b, <2>2 DEF Works
  <2>3. CASE j # i
    <3>1. ftab[j].path # ftab[i].path
      BY <1>a, <2>1, <2>3 DEF FilesInv, Alone
    <3>2. Content(disk', ftab[j]) = view[j]
      BY <2>1, <3>1, OthersKeep DEF Works
    <3> QED BY <1>b, <2>1, <2>3, <3>2 DEF Works
  <2> QED BY <2>2, <2>3
<1> QED BY <1>1, <1>2, <1>3, <1>4, <1>r, <1>5, <1>6, <1>7 DEF FilesInv

(* A disk of the same files, with slot i's stream written out to it. *)
LEMMA FlushedDiskIs ==
  ASSUME FilesInv, NEW i \in Slots, IsOpen(i)
  PROVE  /\ FlushedDisk(i) \in Disks
         /\ FlushedDisk(i)[ftab[i].path] = Content(disk, ftab[i])
         /\ \A p \in DOMAIN disk : p # ftab[i].path => FlushedDisk(i)[p] = disk[p]
<1>1. disk \in Disks
  BY DEF FilesInv, DiskTypes, Disks
<1> QED BY <1>1, FlushedIntoIs DEF FlushedDisk, FilesInv

(* An entry with its position and its buffer changed. *)
Moved(f, n, b) == [f EXCEPT !.pos = n, !.wbuf = b]

LEMMA MovedEntry ==
  ASSUME NEW f \in OpenEntries, NEW n \in Nat, NEW b \in Seq(1..MaxPuts)
  PROVE  /\ Moved(f, n, b) \in OpenEntries /\ Moved(f, n, b).path = f.path
         /\ Moved(f, n, b).flags = f.flags
         /\ Moved(f, n, b).pos = n /\ Moved(f, n, b).wbuf = b
BY DEF OpenEntries, Moved

(* Counters that stay are in range. *)
LEMMA CountersStay ==
  ASSUME FilesInv
  PROVE  /\ puts \in 0..MaxPuts /\ faults \in 0..MaxFaults /\ faults <= faults /\ puts \in Nat
         /\ view \in [Slots -> Seq(Records)] /\ ftab \in [Slots -> Entries]
         /\ disk \in Disks /\ MaxPuts \in Nat /\ MaxFaults \in Nat
         /\ faults < MaxFaults => faults + 1 \in 0..MaxFaults /\ faults <= faults + 1
         /\ puts < MaxPuts => puts + 1 \in 1..MaxPuts /\ puts + 1 \in 0..MaxPuts
BY FilesAssumption DEF FilesInv, HistoryTypes, TableTypes, DiskTypes, Disks

(* The records a put adds, or the batch of them it writes out. *)
Single(t) == <<t>>

LEMMA Batches ==
  ASSUME NEW S, NEW b \in Seq(S), NEW t \in S,
         NEW data, data = Append(b, t), NEW one, one = Single(t)
  PROVE  /\ data \in Seq(S) /\ data = b \o one /\ data # <<>> /\ Len(data) = Len(b) + 1
         /\ SubSeq(data, 1, Len(data)) = data /\ SubSeq(data, 1, Len(b)) = b
         /\ SubSeq(data, Len(data), Len(data)) = one
         /\ SubSeq(data, Len(data) + 1, Len(data)) = <<>>
         /\ one \in Seq(S) /\ one # <<>>
<1>1. /\ data \in Seq(S) /\ Len(data) = Len(b) + 1 /\ Len(b) \in Nat /\ data # <<>>
      /\ data[Len(b) + 1] = t /\ \A k \in 1..Len(b) : data[k] = b[k]
  OBVIOUS
<1>2. data = b \o one
  BY AppendIsConcat DEF Single
<1>a. one \in Seq(S) /\ Len(one) = 1 /\ one[1] = t /\ one # <<>>
  BY DEF Single
<1>3. SubSeq(data, 1, Len(data)) = data
  BY <1>1, SubSeqFull
<1>4. SubSeq(data, 1, Len(b)) = b
  BY <1>1
<1>5. SubSeq(data, Len(data), Len(data)) = one
  <2> DEFINE k == Len(b) + 1
             r == SubSeq(data, k, k)
  <2>1. k \in Int /\ data[k] \in S /\ data[k] = t /\ Len(data) = k
    BY <1>1
  <2> HIDE DEF k
  <2>2. r \in Seq(S) /\ Len(r) = k - k + 1 /\ r[1] = data[k + 1 - 1]
    BY <2>1, SubSeqProperties
  <2> HIDE DEF r
  <2>a. k - k + 1 = 1 /\ k + 1 - 1 = k
    BY <2>1
  <2>3. Len(r) = 1 /\ r[1] = t
    BY <2>1, <2>2, <2>a
  <2>4. \A j \in 1..Len(r) : r[j] = one[j]
    BY <2>3, <1>a
  <2>5. r = one
    BY <2>2, <2>3, <2>4, <1>a, SeqEqual
  <2> QED BY <2>1, <2>5 DEF r, k
<1>6. SubSeq(data, Len(data) + 1, Len(data)) = <<>>
  BY <1>1
<1> QED BY <1>1, <1>2, <1>a, <1>3, <1>4, <1>5, <1>6

(* Where the new record goes, with the buffer written out first. *)
LEMMA AcknowledgedIs ==
  ASSUME NEW S, 0 \in S, NEW c \in Seq(S), NEW f, f.pos \in Nat, f.wbuf \in Seq(S),
         NEW t \in S, NEW h, h.flags = f.flags, h.pos = f.pos + Len(f.wbuf)
  PROVE  Flushed(IF f.wbuf = <<>> THEN c ELSE Flushed(c, f, f.wbuf), h, <<t>>)
           = Flushed(c, f, Append(f.wbuf, t))
<1> DEFINE b == f.wbuf
<1>1. Append(b, t) = b \o <<t>> /\ <<t>> \in Seq(S)
  <2> DEFINE data == Append(b, t)
             one  == <<t>>
  <2>1. b \in Seq(S) /\ data = Append(b, t) /\ one = Single(t)
    BY DEF Single
  <2> HIDE DEF b, data, one
  <2>2. data = b \o one
    BY <2>1, Batches
  <2>3. one \in Seq(S)
    BY <2>1 DEF Single
  <2> QED BY <2>2, <2>3 DEF data, one
<1>2. CASE b = <<>>
  <2>1. h.pos = f.pos
    BY <1>2
  <2>2. Append(b, t) = <<t>>
    BY <1>2
  <2> QED BY <1>2, <2>1, <2>2 DEF Flushed
<1>3. CASE b # <<>>
  <2>1. b \in Seq(S) /\ h.pos = f.pos + Len(b)
    OBVIOUS
  <2> HIDE DEF b
  <2>2. Flushed(Flushed(c, f, b), h, <<t>>) = Flushed(c, f, b \o <<t>>)
    <3> DEFINE one == <<t>>
    <3>1. one \in Seq(S)
      BY <1>1
    <3>2. h.flags = f.flags /\ f.pos \in Nat /\ 0 \in S /\ c \in Seq(S)
      OBVIOUS
    <3> HIDE DEF one
    <3>3. Flushed(Flushed(c, f, b), h, one) = Flushed(c, f, b \o one)
      BY <2>1, <3>1, <3>2, FlushedTwice
    <3> QED BY <3>3 DEF one
  <2> QED BY <1>1, <1>3, <2>2 DEF b
<1> QED BY <1>2, <1>3

-----------------------------------------------------------------------------
(* The commands on an open file, as work of its stream. *)

(* hostput. *)
LEMMA PutWorks ==
  ASSUME FilesInv, NEW i \in Slots, Put(i)
  PROVE  Crash \/ UNCHANGED vars \/ \E g : Works(i, g)
<1> DEFINE f    == ftab[i]
           t    == puts + 1
           data == Append(f.wbuf, t)
           h    == [f EXCEPT !.pos = @ + Len(f.wbuf)]
           c    == disk[f.path]
<1>a. process = "up" /\ puts < MaxPuts
  BY DEF Put, Uses
<1>b. ASSUME IsOpen(i)
      PROVE  /\ f \in OpenEntries /\ f.path \in DOMAIN disk /\ f.pos \in Nat
             /\ f.wbuf \in Seq(1..MaxPuts) /\ f.wbuf \in Seq(Records)
             /\ t \in 1..MaxPuts /\ t \in Records /\ 0 \in Records /\ c \in Seq(Records)
             /\ Len(f.wbuf) \in Nat /\ 0..MaxPuts = Records
  <2>1. /\ f \in OpenEntries /\ f.path \in DOMAIN disk /\ f.pos \in Nat
        /\ f.wbuf \in Seq(1..MaxPuts) /\ f.wbuf \in Seq(Records)
    BY <1>b, OpenEntry DEF FilesInv
  <2>2. t \in 1..MaxPuts /\ t \in Records /\ 0 \in Records
    BY <1>a, CountersStay DEF Records
  <2>3. c \in Seq(Records)
    BY <2>1 DEF FilesInv, DiskTypes
  <2>4. Len(f.wbuf) \in Nat
    <3> DEFINE b == f.wbuf
    <3>1. b \in Seq(Records)
      BY <2>1
    <3> HIDE DEF b
    <3>2. Len(b) \in Nat
      BY <3>1
    <3> QED BY <3>2 DEF b
  <2> QED BY <2>1, <2>2, <2>3, <2>4 DEF Records
<1>1. CASE ~IsOpen(i) /\ Crash
  BY <1>1
<1>2. CASE IsOpen(i) /\ ~Takes(f) /\ Refused
  BY <1>2 DEF Refused
<1>3. CASE /\ IsOpen(i) /\ Takes(f)
           /\ puts' = t
           /\ \E n \in {0, Len(f.wbuf), Len(data)} :
                /\ disk' = IF n = 0 THEN disk
                           ELSE [disk EXCEPT ![f.path] = Flushed(@, f, SubSeq(data, 1, n))]
                /\ ftab' = [ftab EXCEPT ![i].wbuf = SubSeq(data, n + 1, Len(data)),
                                        ![i].pos = @ + n]
           /\ view' = [view EXCEPT ![i] = Flushed(@, [f EXCEPT !.pos = @ + Len(f.wbuf)], <<t>>)]
           /\ UNCHANGED <<process, client, clean, faults, exits>>
  <2>1. PICK n \in {0, Len(f.wbuf), Len(data)} :
          /\ disk' = IF n = 0 THEN disk
                     ELSE [disk EXCEPT ![f.path] = Flushed(@, f, SubSeq(data, 1, n))]
          /\ ftab' = [ftab EXCEPT ![i].wbuf = SubSeq(data, n + 1, Len(data)),
                                  ![i].pos = @ + n]
    BY <1>3
  <2> DEFINE rest == SubSeq(data, n + 1, Len(data))
             g    == [f EXCEPT !.pos = f.pos + n, !.wbuf = rest]
  <2>2. /\ data \in Seq(1..MaxPuts) /\ data # <<>> /\ Len(data) = Len(f.wbuf) + 1
        /\ data = f.wbuf \o <<t>>
        /\ SubSeq(data, 1, Len(data)) = data /\ SubSeq(data, 1, Len(f.wbuf)) = f.wbuf
        /\ SubSeq(data, Len(f.wbuf) + 1, Len(data)) = <<t>>
        /\ SubSeq(data, Len(data) + 1, Len(data)) = <<>>
        /\ data \in Seq(Records) /\ <<t>> \in Seq(1..MaxPuts) /\ <<t>> \in Seq(Records)
    <3> DEFINE b   == f.wbuf
               dat == data
               one == <<t>>
               Numbers == 1..MaxPuts
    <3>1. b \in Seq(Numbers) /\ b \in Seq(Records) /\ t \in Numbers /\ t \in Records
      BY <1>3, <1>b
    <3>2. dat = Append(b, t) /\ one = Single(t)
      BY DEF Single
    <3> HIDE DEF b, t, one, dat, Numbers
    <3>3. /\ dat \in Seq(Numbers) /\ dat # <<>> /\ Len(dat) = Len(b) + 1
          /\ dat = b \o one
          /\ SubSeq(dat, 1, Len(dat)) = dat /\ SubSeq(dat, 1, Len(b)) = b
          /\ SubSeq(dat, Len(b) + 1, Len(dat)) = one
          /\ SubSeq(dat, Len(dat) + 1, Len(dat)) = <<>>
          /\ one \in Seq(Numbers)
      <4>1. dat \in Seq(Numbers) /\ one \in Seq(Numbers) /\ dat = b \o one /\ Len(dat) = Len(b) + 1
        BY <3>1, <3>2, Batches
      <4>2. dat # <<>>
        BY <3>1, <3>2, Batches
      <4>3. SubSeq(dat, 1, Len(dat)) = dat /\ SubSeq(dat, 1, Len(b)) = b
        BY <3>1, <3>2, Batches
      <4>4. SubSeq(dat, Len(b) + 1, Len(dat)) = one
        <5>1. Len(b) + 1 = Len(dat)
          BY <4>1
        <5>2. SubSeq(dat, Len(dat), Len(dat)) = one
          BY <3>1, <3>2, Batches
        <5> QED BY <5>1, <5>2
      <4>5. SubSeq(dat, Len(dat) + 1, Len(dat)) = <<>>
        BY <3>1, <3>2, Batches
      <4> QED BY <4>1, <4>2, <4>3, <4>4, <4>5
    <3>4. dat \in Seq(Records) /\ one \in Seq(Records)
      BY <3>1, <3>2, Batches
    <3> QED BY <3>3, <3>4 DEF b, dat, one, Numbers
  <2>3. n \in Nat /\ rest \in Seq(1..MaxPuts)
    <3>1. n \in Nat
      BY <1>3, <1>b, <2>2
    <3>2. CASE n = 0
      <4>1. n + 1 = 1
        BY <3>2
      <4>2. rest = data
        BY <2>2, <4>1
      <4> QED BY <2>2, <3>1, <4>2
    <3>3. CASE n = Len(f.wbuf)
      <4>1. rest = <<t>>
        BY <2>2, <3>3
      <4> QED BY <2>2, <3>1, <4>1
    <3>4. CASE n = Len(data)
      <4>1. rest = <<>>
        BY <2>2, <3>4
      <4>2. <<>> \in Seq(1..MaxPuts)
        OBVIOUS
      <4> HIDE DEF rest, data
      <4> QED BY <3>1, <4>1, <4>2
    <3> QED BY <2>1, <3>2, <3>3, <3>4
  <2> HIDE DEF rest
  <2>4. /\ g \in OpenEntries /\ g.path = f.path /\ g.flags = f.flags
        /\ g.pos = f.pos + n /\ g.wbuf = rest
    <3> DEFINE pos == f.pos + n
    <3>1. pos \in Nat /\ f \in OpenEntries
      BY <1>3, <1>b, <2>3
    <3>2. g = Moved(f, pos, rest)
      BY DEF Moved
    <3> HIDE DEF g
    <3>3. pos = f.pos + n
      OBVIOUS
    <3> HIDE DEF pos, f
    <3> QED BY <2>3, <3>1, <3>2, <3>3, MovedEntry
  <2>5. ftab' = [ftab EXCEPT ![i] = g]
    BY <2>1 DEF rest
  <2>6. Flushed(c, f, SubSeq(data, 1, n)) \in Seq(Records)
    <3>1. SubSeq(data, 1, n) \in Seq(Records)
      <4>1. CASE n = 0
        BY <2>2, <4>1
      <4> QED BY <1>3, <1>b, <2>1, <2>2, <4>1
    <3> DEFINE q == SubSeq(data, 1, n)
    <3>2. q \in Seq(Records) /\ f.pos \in Nat /\ c \in Seq(Records) /\ 0 \in Records
      BY <1>3, <1>b, <3>1
    <3> HIDE DEF q, c, f
    <3>3. Flushed(c, f, q) \in Seq(Records)
      BY <3>2, FlushedIs
    <3> QED BY <3>3 DEF q
  <2>7. disk' \in Disks /\ \A p \in DOMAIN disk : p # f.path => disk'[p] = disk[p]
    <3>1. disk \in [DOMAIN disk -> Seq(Records)]
      BY DEF FilesInv, DiskTypes
    <3>2. CASE n = 0
      BY <2>1, <3>1, <3>2 DEF Disks
    <3>3. CASE n # 0
      <4> DEFINE w == Flushed(c, f, SubSeq(data, 1, n))
                 path == f.path
      <4>1. disk' = [disk EXCEPT ![path] = w] /\ w \in Seq(Records)
        BY <2>1, <2>6, <3>3
      <4> HIDE DEF w
      <4>2. disk' \in [DOMAIN disk -> Seq(Records)] /\ \A p \in DOMAIN disk : p # path => disk'[p] = disk[p]
        BY <3>1, <4>1, Zenon
      <4> QED BY <4>2 DEF Disks
    <3> QED BY <3>2, <3>3
  <2>8. disk'[f.path] = IF n = 0 THEN c ELSE Flushed(c, f, SubSeq(data, 1, n))
    <3>1. f.path \in DOMAIN disk
      BY <1>3, <1>b
    <3> QED BY <2>1, <3>1
  <2>9. h.flags = f.flags /\ h.pos = f.pos + Len(f.wbuf)
    BY <1>3, <1>b DEF OpenEntries
  <2>10. view' \in [Slots -> Seq(Records)] /\ \A j \in Slots : j # i => view'[j] = view[j]
    <3>1. Flushed(view[i], h, <<t>>) \in Seq(Records)
      <4> DEFINE one == <<t>>
      <4>1. h.pos \in Nat /\ view[i] \in Seq(Records) /\ one \in Seq(Records) /\ 0 \in Records
        BY <1>3, <1>b, <2>2, <2>9, CountersStay
      <4> HIDE DEF one, h
      <4>2. Flushed(view[i], h, one) \in Seq(Records)
        BY <4>1, FlushedIs
      <4> QED BY <4>2 DEF one
    <3> DEFINE v == Flushed(view[i], h, <<t>>)
    <3>2. view' = [view EXCEPT ![i] = v] /\ view \in [Slots -> Seq(Records)] /\ v \in Seq(Records)
      BY <1>3, <3>1, CountersStay
    <3> HIDE DEF v
    <3> QED BY <3>2
  <2>11. ASSUME i \in clean PROVE Content(disk', g) = view'[i]
    <3>1. view[i] = IF f.wbuf = <<>> THEN c ELSE Flushed(c, f, f.wbuf)
      BY <2>11 DEF FilesInv, Matches, Content
    <3>2. view'[i] = Flushed(view[i], h, <<t>>)
      BY <1>3, CountersStay
    <3>3. view'[i] = Flushed(c, f, data)
      <4>1. /\ c \in Seq(Records) /\ f.pos \in Nat /\ f.wbuf \in Seq(Records) /\ t \in Records
            /\ 0 \in Records
        BY <1>3, <1>b
      <4> HIDE DEF c, f, h, t
      <4>2. Flushed(IF f.wbuf = <<>> THEN c ELSE Flushed(c, f, f.wbuf), h, <<t>>)
              = Flushed(c, f, Append(f.wbuf, t))
        BY <2>9, <4>1, AcknowledgedIs
      <4> QED BY <3>1, <3>2, <4>2
    <3>4. CASE n = 0
      <4>1. rest = data /\ g.pos = f.pos /\ g.wbuf = data
        BY <1>3, <1>b, <2>2, <2>4, <3>4 DEF rest
      <4>2. Content(disk', g) = Flushed(c, g, data)
        BY <2>2, <2>4, <2>8, <3>4, <4>1 DEF Content
      <4> QED BY <2>4, <3>3, <4>1, <4>2 DEF Flushed
    <3>5. CASE n # 0 /\ n = Len(data)
      <4>1. rest = <<>> /\ g.wbuf = <<>>
        BY <2>2, <2>4, <3>5 DEF rest
      <4>2. Content(disk', g) = Flushed(c, f, data)
        BY <2>2, <2>4, <2>8, <3>5, <4>1 DEF Content
      <4> QED BY <3>3, <4>2
    <3>6. CASE n # 0 /\ n = Len(f.wbuf)
      <4>1. rest = <<t>> /\ g.wbuf = <<t>> /\ g.pos = f.pos + Len(f.wbuf) /\ <<t>> # <<>>
        BY <2>2, <2>4, <3>6 DEF rest
      <4>2. Content(disk', g) = Flushed(Flushed(c, f, f.wbuf), g, <<t>>)
        BY <2>2, <2>4, <2>8, <3>6, <4>1 DEF Content
      <4>3. Flushed(Flushed(c, f, f.wbuf), g, <<t>>) = Flushed(c, f, f.wbuf \o <<t>>)
        <5> DEFINE one == <<t>>
                   b   == f.wbuf
        <5>1. /\ c \in Seq(Records) /\ f.pos \in Nat /\ b \in Seq(Records) /\ one \in Seq(Records)
              /\ 0 \in Records /\ g.flags = f.flags /\ g.pos = f.pos + Len(b)
          BY <1>3, <1>b, <2>2, <2>4, <4>1
        <5> HIDE DEF one, b, c, f, g
        <5>2. Flushed(Flushed(c, f, b), g, one) = Flushed(c, f, b \o one)
          BY <5>1, FlushedTwice
        <5> QED BY <5>2 DEF one, b
      <4> QED BY <2>2, <3>3, <4>2, <4>3
    <3> QED BY <2>1, <3>4, <3>5, <3>6
  <2>12. g.flags = "r" => g.wbuf = <<>>
    BY <1>3, <2>4 DEF Takes
  <2>13. /\ IsOpen(i) /\ process = "up" /\ process' = "up"
         /\ holds' = holds /\ orphans' = orphans /\ reboots' = reboots /\ exits' = exits
         /\ clean' = clean /\ puts' \in 0..MaxPuts /\ faults' \in 0..MaxFaults /\ faults <= faults'
    BY <1>3, <1>a, <1>b, CountersStay DEF client
  <2>14. Works(i, g)
    <3> HIDE DEF g
    <3> QED BY <2>4, <2>5, <2>7, <2>10, <2>11, <2>12, <2>13 DEF Works
  <2> QED BY <2>14
<1>4. CASE /\ IsOpen(i) /\ Takes(f)
           /\ faults < MaxFaults /\ faults' = faults + 1
           /\ puts' = t
           /\ ftab' \in {ftab, [ftab EXCEPT ![i].wbuf = <<>>]}
           /\ clean' = clean \ {i}
           /\ UNCHANGED <<disk, process, client, view, exits>>
  <2>1. \E g : ftab' = [ftab EXCEPT ![i] = g] /\ g \in OpenEntries /\ g.path = f.path /\ g.flags = f.flags
    <3>1. CASE ftab' = ftab
      BY <1>4, <1>b, <3>1, CountersStay
    <3>2. CASE ftab' = [ftab EXCEPT ![i].wbuf = <<>>]
      <4> DEFINE g == [f EXCEPT !.wbuf = <<>>]
      <4>1. ftab' = [ftab EXCEPT ![i] = g]
        BY <3>2
      <4>2. g \in OpenEntries /\ g.path = f.path /\ g.flags = f.flags
        <5>1. f \in OpenEntries /\ <<>> \in Seq(1..MaxPuts)
          BY <1>4, <1>b
        <5> HIDE DEF f
        <5>2. g \in OpenEntries
          BY <5>1 DEF OpenEntries
        <5> QED BY <5>1, <5>2 DEF OpenEntries
      <4> QED BY <4>1, <4>2
    <3> QED BY <1>4, <3>1, <3>2
  <2>2. PICK g : ftab' = [ftab EXCEPT ![i] = g] /\ g \in OpenEntries /\ g.path = f.path /\ g.flags = f.flags
    BY <2>1
  <2>3. /\ IsOpen(i) /\ process = "up" /\ process' = "up" /\ f.flags # "r"
        /\ holds' = holds /\ orphans' = orphans /\ reboots' = reboots /\ exits' = exits
        /\ clean' \subseteq clean /\ i \notin clean'
        /\ puts' \in 0..MaxPuts /\ faults' \in 0..MaxFaults /\ faults <= faults'
        /\ disk' = disk /\ disk \in Disks /\ view' = view /\ view \in [Slots -> Seq(Records)]
    BY <1>4, <1>a, <1>b, CountersStay DEF client, Takes
  <2>4. Works(i, g)
    BY <2>2, <2>3 DEF Works
  <2> QED BY <2>4
<1> QED BY <1>1, <1>2, <1>3, <1>4 DEF Put

(* hostseek. *)
LEMMA SeekWorks ==
  ASSUME FilesInv, NEW i \in Slots, NEW n \in Nat, SeekTo(i, n)
  PROVE  Crash \/ UNCHANGED vars \/ \E g : Works(i, g)
<1>a. process = "up"
  BY DEF SeekTo, Uses
<1>1. CASE ~IsOpen(i) /\ NotOpen(i)
  BY <1>1 DEF NotOpen, Refused
<1>2. CASE /\ IsOpen(i)
           /\ disk' = FlushedDisk(i)
           /\ ftab' = [ftab EXCEPT ![i].pos = n, ![i].wbuf = <<>>]
           /\ UNCHANGED <<process, client, view, clean, puts, faults, exits>>
  <2> DEFINE f == ftab[i]
             g == [f EXCEPT !.pos = n, !.wbuf = <<>>]
  <2>1. f \in OpenEntries
    BY <1>2, OpenEntry DEF FilesInv
  <2>2. g \in OpenEntries /\ g.path = f.path /\ g.wbuf = <<>>
    <3>1. <<>> \in Seq(1..MaxPuts)
      OBVIOUS
    <3> DEFINE b == <<>>
    <3>2. g = Moved(f, n, b) /\ b = <<>> /\ b \in Seq(1..MaxPuts)
      BY <3>1 DEF Moved
    <3> HIDE DEF f, b, g
    <3> QED BY <2>1, <3>2, MovedEntry
  <2>3. ftab' = [ftab EXCEPT ![i] = g]
    BY <1>2
  <2>4. i \in clean => Content(disk', g) = view'[i]
    <3>1. i \in clean => Content(disk, f) = view[i]
      BY DEF FilesInv, Matches
    <3>2. disk'[g.path] = Content(disk, f)
      BY <1>2, <2>2, FlushedDiskIs
    <3>3. Content(disk', g) = disk'[g.path]
      BY <2>2 DEF Content
    <3> QED BY <1>2, <3>1, <3>2, <3>3
  <2>5. disk' \in Disks /\ \A p \in DOMAIN disk : p # f.path => disk'[p] = disk[p]
    BY <1>2, FlushedDiskIs
  <2>6. /\ IsOpen(i) /\ process = "up" /\ process' = "up"
        /\ holds' = holds /\ orphans' = orphans /\ reboots' = reboots /\ exits' = exits
        /\ clean' = clean /\ view' = view /\ view \in [Slots -> Seq(Records)]
        /\ puts' \in 0..MaxPuts /\ faults' \in 0..MaxFaults /\ faults <= faults'
    BY <1>2, <1>a, CountersStay DEF client
  <2>7. Works(i, g)
    <3> HIDE DEF g
    <3> QED BY <2>2, <2>3, <2>4, <2>5, <2>6 DEF Works
  <2> QED BY <2>7
<1>3. CASE /\ IsOpen(i) /\ ftab[i].wbuf # <<>>
           /\ faults < MaxFaults /\ faults' = faults + 1
           /\ clean' = clean \ {i}
           /\ UNCHANGED <<disk, ftab, process, client, view, puts, exits>>
  <2>1. /\ ftab[i] \in OpenEntries
        /\ ftab[i].flags = "r" => ftab[i].wbuf = <<>>
    BY <1>3, OpenEntry DEF FilesInv, TableTypes
  <2>2. /\ IsOpen(i) /\ process = "up" /\ process' = "up"
        /\ holds' = holds /\ orphans' = orphans /\ reboots' = reboots /\ exits' = exits
        /\ clean' \subseteq clean /\ i \notin clean' /\ view' = view
        /\ puts' \in 0..MaxPuts /\ faults' \in 0..MaxFaults /\ faults <= faults'
        /\ disk' = disk /\ disk \in Disks /\ view \in [Slots -> Seq(Records)]
    BY <1>3, <1>a, CountersStay DEF client
  <2>3. ftab' = [ftab EXCEPT ![i] = ftab[i]]
    BY <1>3, CountersStay
  <2>4. Works(i, ftab[i])
    BY <2>1, <2>2, <2>3 DEF Works
  <2> QED BY <2>4
<1> QED BY <1>1, <1>2, <1>3 DEF SeekTo

(* hostget. *)
LEMMA GetWorks ==
  ASSUME FilesInv, NEW i \in Slots, Get(i)
  PROVE  Crash \/ UNCHANGED vars \/ \E g : Works(i, g)
<1> DEFINE f == ftab[i]
<1>a. process = "up"
  BY DEF Get, Uses
<1>1. CASE ~IsOpen(i) /\ NotOpen(i)
  BY <1>1 DEF NotOpen, Refused
<1>2. CASE /\ IsOpen(i) /\ f.flags \in {"w", "a"}
           /\ ftab' = [ftab EXCEPT ![i].mode = "l"]
           /\ UNCHANGED <<disk, process, client, view, clean, puts, faults, exits>>
  <2> DEFINE g == [f EXCEPT !.mode = "l"]
  <2>1. f \in OpenEntries
    BY <1>2, OpenEntry DEF FilesInv
  <2>2. g \in OpenEntries
    BY <2>1 DEF OpenEntries
  <2>3. g.path = f.path /\ g.wbuf = f.wbuf /\ g.flags = f.flags /\ g.pos = f.pos
    BY <2>1 DEF OpenEntries
  <2>4. ftab' = [ftab EXCEPT ![i] = g]
    BY <1>2
  <2>5. Content(disk, g) = Content(disk, f)
    BY <2>3 DEF Content, Flushed
  <2>6. i \in clean => Content(disk', g) = view'[i]
    BY <1>2, <2>5 DEF FilesInv, Matches
  <2>7. /\ IsOpen(i) /\ process = "up" /\ process' = "up"
        /\ holds' = holds /\ orphans' = orphans /\ reboots' = reboots /\ exits' = exits
        /\ clean' = clean /\ view' = view /\ view \in [Slots -> Seq(Records)]
        /\ puts' \in 0..MaxPuts /\ faults' \in 0..MaxFaults /\ faults <= faults'
        /\ disk' = disk /\ disk \in Disks /\ g.flags # "r"
    BY <1>2, <1>a, <2>3, CountersStay DEF client
  <2>8. Works(i, g)
    <3> HIDE DEF g
    <3> QED BY <2>2, <2>3, <2>4, <2>6, <2>7 DEF Works
  <2> QED BY <2>8
<1>3. CASE /\ IsOpen(i) /\ f.flags \in {"r", "w+"}
           /\ disk' = FlushedDisk(i)
           /\ LET at == f.pos + Len(f.wbuf)
                  more == at < Len(disk'[f.path]) IN
              /\ ftab' = [ftab EXCEPT ![i].pos = IF more THEN at + 1 ELSE at, ![i].wbuf = <<>>]
           /\ UNCHANGED <<process, client, view, clean, puts, faults, exits>>
  <2> DEFINE at   == f.pos + Len(f.wbuf)
             n    == IF at < Len(disk'[f.path]) THEN at + 1 ELSE at
             g    == [f EXCEPT !.pos = n, !.wbuf = <<>>]
  <2>1. f \in OpenEntries /\ f.pos \in Nat /\ f.wbuf \in Seq(Records)
    BY <1>3, OpenEntry DEF FilesInv
  <2>a. n \in Nat
    <3> DEFINE b == f.wbuf
               pos == f.pos
    <3>1. pos \in Nat /\ b \in Seq(Records)
      BY <2>1
    <3> HIDE DEF b, pos
    <3>2. pos + Len(b) \in Nat /\ pos + Len(b) + 1 \in Nat
      BY <3>1
    <3> QED BY <3>2 DEF b, pos
  <2>3. ftab' = [ftab EXCEPT ![i] = g]
    BY <1>3
  <2> HIDE DEF n
  <2>2. g \in OpenEntries /\ g.path = f.path /\ g.wbuf = <<>>
    <3>1. <<>> \in Seq(1..MaxPuts)
      OBVIOUS
    <3> DEFINE b == <<>>
    <3>2. g = Moved(f, n, b) /\ b = <<>> /\ b \in Seq(1..MaxPuts)
      BY <3>1 DEF Moved
    <3> HIDE DEF f, b, g
    <3> QED BY <2>1, <2>a, <3>2, MovedEntry
  <2>4. i \in clean => Content(disk', g) = view'[i]
    <3>1. i \in clean => Content(disk, f) = view[i]
      BY DEF FilesInv, Matches
    <3>2. disk'[g.path] = Content(disk, f)
      BY <1>3, <2>2, FlushedDiskIs
    <3>3. Content(disk', g) = disk'[g.path]
      BY <2>2 DEF Content
    <3> QED BY <1>3, <3>1, <3>2, <3>3
  <2>5. disk' \in Disks /\ \A p \in DOMAIN disk : p # f.path => disk'[p] = disk[p]
    BY <1>3, FlushedDiskIs
  <2>6. /\ IsOpen(i) /\ process = "up" /\ process' = "up"
        /\ holds' = holds /\ orphans' = orphans /\ reboots' = reboots /\ exits' = exits
        /\ clean' = clean /\ view' = view /\ view \in [Slots -> Seq(Records)]
        /\ puts' \in 0..MaxPuts /\ faults' \in 0..MaxFaults /\ faults <= faults'
    BY <1>3, <1>a, CountersStay DEF client
  <2>7. Works(i, g)
    <3> HIDE DEF g
    <3> QED BY <2>2, <2>3, <2>4, <2>5, <2>6 DEF Works
  <2> QED BY <2>7
<1>4. CASE /\ IsOpen(i) /\ f.flags \in {"r", "w+"}
           /\ faults < MaxFaults /\ faults' = faults + 1
           /\ ftab' \in {ftab, [ftab EXCEPT ![i].wbuf = <<>>]}
           /\ clean' = clean \ {i}
           /\ UNCHANGED <<disk, process, client, view, puts, exits>>
  <2>0. /\ f \in OpenEntries /\ (f.flags = "r" => f.wbuf = <<>>)
        /\ <<>> \in Seq(1..MaxPuts)
    BY <1>4, OpenEntry DEF FilesInv, TableTypes
  <2>1. \E g : /\ ftab' = [ftab EXCEPT ![i] = g] /\ g \in OpenEntries /\ g.path = f.path
               /\ (g.flags = "r" => g.wbuf = <<>>)
    <3>1. CASE ftab' = ftab
      BY <2>0, <3>1, CountersStay
    <3>2. CASE ftab' = [ftab EXCEPT ![i].wbuf = <<>>]
      <4> DEFINE g == [f EXCEPT !.wbuf = <<>>]
      <4>1. ftab' = [ftab EXCEPT ![i] = g]
        BY <3>2
      <4>2. g \in OpenEntries /\ g.path = f.path /\ g.wbuf = <<>>
        <5>1. f \in OpenEntries /\ <<>> \in Seq(1..MaxPuts)
          BY <2>0
        <5> HIDE DEF f
        <5>2. g \in OpenEntries
          BY <5>1 DEF OpenEntries
        <5> QED BY <5>1, <5>2 DEF OpenEntries
      <4> QED BY <4>1, <4>2
    <3> QED BY <1>4, <3>1, <3>2
  <2>2. PICK g : /\ ftab' = [ftab EXCEPT ![i] = g] /\ g \in OpenEntries /\ g.path = f.path
                 /\ (g.flags = "r" => g.wbuf = <<>>)
    BY <2>1
  <2>3. /\ IsOpen(i) /\ process = "up" /\ process' = "up"
        /\ holds' = holds /\ orphans' = orphans /\ reboots' = reboots /\ exits' = exits
        /\ clean' \subseteq clean /\ i \notin clean'
        /\ puts' \in 0..MaxPuts /\ faults' \in 0..MaxFaults /\ faults <= faults'
        /\ disk' = disk /\ disk \in Disks /\ view' = view /\ view \in [Slots -> Seq(Records)]
    BY <1>4, <1>a, CountersStay DEF client
  <2>4. Works(i, g)
    BY <2>2, <2>3 DEF Works
  <2> QED BY <2>4
<1> QED BY <1>1, <1>2, <1>3, <1>4 DEF Get

-----------------------------------------------------------------------------
(* Opens and closes. *)

(* A slot that leaves the table keeps the invariant. *)
LEMMA CloseKeeps ==
  ASSUME FilesInv, NEW i \in Slots, IsOpen(i), process = "up",
         disk' \in Disks, \A p \in DOMAIN disk : p # ftab[i].path => disk'[p] = disk[p],
         NEW g \in {Closed, [st |-> "dangling"]}, ftab' = [ftab EXCEPT ![i] = g],
         faults' \in 0..MaxFaults,
         faults' = IF g = Closed THEN faults ELSE faults + 1,
         holds' = [holds EXCEPT ![i] = IF g = Closed THEN Nothing ELSE Refusal],
         clean' = clean \ {i},
         view' = [view EXCEPT ![i] = <<>>],
         UNCHANGED <<process, orphans, reboots, puts, exits>>
  PROVE  FilesInv'
<1>a. g \in Entries /\ g.st # "open" /\ (g = Closed => g.st = "closed") /\ (g # Closed => g.st = "dangling")
  BY DEF Entries, Closed
<1>b. ftab'[i] = g /\ \A j \in Slots : j # i => ftab'[j] = ftab[j]
  BY CountersStay
<1>c. /\ ~IsOpen(i)'
      /\ \A j \in Slots : j # i => (IsOpen(j)' <=> IsOpen(j))
  BY <1>a, <1>b DEF IsOpen
<1>d. disk' \in [DOMAIN disk -> Seq(Records)]
  BY DEF Disks
<1>e. /\ holds \in [Slots -> Holds] /\ view \in [Slots -> Seq(Records)]
      /\ clean \subseteq {j \in Slots : IsOpen(j)}
  BY DEF FilesInv, HistoryTypes
<1>1. DiskTypes'
  BY <1>d DEF FilesInv, DiskTypes
<1>2. TableTypes'
  <2>1. ftab' \in [Slots -> Entries]
    BY <1>a, CountersStay
  <2>2. ASSUME NEW j \in Slots, IsOpen(j)'
        PROVE  ftab'[j].path \in DOMAIN disk' /\ (ftab'[j].flags = "r" => ftab'[j].wbuf = <<>>)
    <3>1. j # i /\ IsOpen(j) /\ ftab'[j] = ftab[j]
      BY <1>b, <1>c, <2>2
    <3> QED BY <1>d, <3>1 DEF FilesInv, TableTypes
  <2> QED BY <2>1, <2>2 DEF TableTypes
<1>3. HistoryTypes'
  <2>1. holds' \in [Slots -> Holds]
    <3> DEFINE h == IF g = Closed THEN Nothing ELSE Refusal
    <3>1. h \in Holds /\ holds' = [holds EXCEPT ![i] = h]
      BY DEF Holds
    <3> HIDE DEF h
    <3> QED BY <1>e, <3>1
  <2>2. view' \in [Slots -> Seq(Records)]
    <3>1. <<>> \in Seq(Records)
      OBVIOUS
    <3> QED BY <1>e, <3>1
  <2>3. clean' \subseteq {j \in Slots : IsOpen(j)'}
    BY <1>c, <1>e
  <2> QED BY <2>1, <2>2, <2>3 DEF FilesInv, HistoryTypes
<1>4. Owned'
  <2>1. holds'[i].st # "held" /\ \A j \in Slots : j # i => holds'[j] = holds[j]
    BY <1>e DEF Nothing, Refusal
  <2>2. ASSUME NEW j \in Slots, holds'[j].st = "held"
        PROVE  /\ IsOpen(j)'
               /\ ftab'[j].path.base = holds'[j].name.base
               /\ ftab'[j].path.rl = holds'[j].rl
               /\ holds'[j].name.ext \in {"", ftab'[j].path.ext}
    <3>1. j # i /\ holds'[j] = holds[j] /\ ftab'[j] = ftab[j] /\ (IsOpen(j)' <=> IsOpen(j))
      BY <1>b, <1>c, <2>1, <2>2
    <3> QED BY <2>2, <3>1 DEF FilesInv, Owned
  <2>3. ASSUME NEW j \in Slots, IsOpen(j)' PROVE holds'[j].st = "held" \/ j \in orphans'
    <3>1. j # i /\ holds'[j] = holds[j] /\ IsOpen(j)
      BY <1>c, <2>1, <2>3
    <3> QED BY <3>1 DEF FilesInv, Owned
  <2> QED BY <2>2, <2>3 DEF Owned
<1>r. Refusals'
  <2> SUFFICES ASSUME NEW j \in Slots, holds'[j].st = "refused" PROVE ftab'[j].st = "dangling"
    BY DEF Refusals
  <2>1. CASE j = i
    <3>1. g # Closed
      BY <1>e, <2>1 DEF Nothing
    <3> QED BY <1>a, <1>b, <2>1, <3>1
  <2>2. CASE j # i
    BY <1>b, <1>e, <2>2 DEF FilesInv, Refusals
  <2> QED BY <2>1, <2>2
<1>5. FewDangle'
  <2>1. CASE g = Closed
    <3>1. Dangling' \subseteq Dangling
      BY <1>a, <1>b, <2>1 DEF Dangling
    <3>2. faults' \in Nat /\ faults <= faults'
      BY <2>1, FilesAssumption, CountersStay
    <3>3. Cardinality(Dangling') <= faults'
      BY <3>1, <3>2, FewStillDangle
    <3> QED BY <3>3 DEF FewDangle
  <2>2. CASE g # Closed
    <3>1. Dangling' = Dangling \cup {i} /\ i \notin Dangling
      BY <1>a, <1>b, <2>2 DEF Dangling, IsOpen
    <3>2. IsFiniteSet(Dangling) /\ Cardinality(Dangling) \in Nat
      BY DanglingCount DEF FilesInv
    <3>3. Cardinality(Dangling') = Cardinality(Dangling) + 1
      BY <3>1, <3>2, FS_AddElement
    <3>4. faults' = faults + 1 /\ faults \in Nat /\ Cardinality(Dangling) <= faults
      BY <2>2, CountersStay DEF FilesInv, FewDangle
    <3>5. Cardinality(Dangling') <= faults'
      BY <3>2, <3>3, <3>4
    <3> QED BY <3>5 DEF FewDangle
  <2> QED BY <2>1, <2>2
<1>6. Alone'
  <2> SUFFICES ASSUME NEW j \in clean', NEW k \in Slots, IsOpen(k)', ftab'[k].path = ftab'[j].path
               PROVE  k = j
    BY DEF Alone
  <2>1. j \in clean /\ j \in Slots /\ j # i /\ k # i /\ IsOpen(k)
    BY <1>c, <1>e
  <2> QED BY <1>b, <2>1 DEF FilesInv, Alone
<1>7. Matches'
  <2> SUFFICES ASSUME NEW j \in clean' PROVE Content(disk', ftab'[j]) = view'[j]
    BY DEF Matches
  <2>1. j \in clean /\ j \in Slots /\ j # i
    BY <1>e
  <2>2. ftab[j].path # ftab[i].path
    BY <2>1 DEF FilesInv, Alone
  <2>3. Content(disk', ftab[j]) = view[j]
    BY <2>1, <2>2, OthersKeep
  <2> QED BY <1>b, <1>e, <2>1, <2>3
<1> QED BY <1>1, <1>2, <1>3, <1>4, <1>r, <1>5, <1>6, <1>7 DEF FilesInv

(* What a close does to an open file. *)
Closes(i, g) ==
  /\ IsOpen(i) /\ process = "up"
  /\ ftab' = [ftab EXCEPT ![i] = g]
  /\ \/ /\ g = Closed /\ disk' = FlushedDisk(i) /\ faults' = faults
        /\ holds' = [holds EXCEPT ![i] = Nothing]
     \/ /\ g = [st |-> "dangling"] /\ disk' = disk /\ faults' = faults + 1 /\ faults < MaxFaults
        /\ holds' = [holds EXCEPT ![i] = Refusal]
  /\ clean' = clean \ {i}
  /\ view' = [view EXCEPT ![i] = <<>>]
  /\ UNCHANGED <<process, orphans, reboots, puts, exits>>

(* hostclose. *)
LEMMA CloseIs ==
  ASSUME NEW i \in Slots, Close(i)
  PROVE  Crash \/ UNCHANGED vars \/ \E g : Closes(i, g)
<1>1. CASE ~IsOpen(i) /\ NotOpen(i)
  BY <1>1 DEF NotOpen, Refused
<1>2. CASE IsOpen(i)
  <2>1. CASE /\ disk' = FlushedDisk(i) /\ ftab' = [ftab EXCEPT ![i] = Closed]
             /\ holds' = [holds EXCEPT ![i] = Nothing] /\ UNCHANGED faults
    <3>1. Closes(i, Closed)
      BY <1>2, <2>1 DEF Close, Uses, Closes
    <3> QED BY <3>1
  <2>2. CASE /\ faults < MaxFaults /\ faults' = faults + 1
             /\ ftab' = [ftab EXCEPT ![i] = [st |-> "dangling"]]
             /\ holds' = [holds EXCEPT ![i] = [st |-> "refused"]]
             /\ UNCHANGED disk
    <3>1. Closes(i, [st |-> "dangling"])
      BY <1>2, <2>2 DEF Close, Uses, Closes, Refusal
    <3> QED BY <3>1
  <2> QED BY <1>2, <2>1, <2>2 DEF Close
<1> QED BY <1>1, <1>2 DEF Close

(* Both outcomes of fclose keep the invariant. *)
LEMMA ClosesKeeps ==
  ASSUME FilesInv, NEW i \in Slots, NEW g, Closes(i, g)
  PROVE  FilesInv'
<1>1. CASE /\ g = Closed /\ disk' = FlushedDisk(i) /\ faults' = faults
           /\ holds' = [holds EXCEPT ![i] = Nothing]
  <2>1. disk' \in Disks /\ \A p \in DOMAIN disk : p # ftab[i].path => disk'[p] = disk[p]
    BY <1>1, FlushedDiskIs DEF Closes
  <2>2. faults' \in 0..MaxFaults
    BY <1>1, CountersStay
  <2> QED BY <1>1, <2>1, <2>2, CloseKeeps DEF Closes
<1>2. CASE /\ g = [st |-> "dangling"] /\ disk' = disk /\ faults' = faults + 1 /\ faults < MaxFaults
           /\ holds' = [holds EXCEPT ![i] = Refusal]
  <2>1. disk' \in Disks /\ faults' \in 0..MaxFaults
    BY <1>2, CountersStay
  <2>2. g # Closed
    BY <1>2 DEF Closed
  <2> QED BY <1>2, <2>1, <2>2, CloseKeeps DEF Closes
<1> QED BY <1>1, <1>2 DEF Closes

(* A path the handler makes of a name, a record length and a type. *)
LEMMA PathsAre ==
  ASSUME NEW name \in Names, NEW rl \in EffectiveLengths, NEW mode, NEW type
  PROVE  /\ Given(name, rl) \in Paths /\ Given(name, rl).base = name.base
         /\ Given(name, rl).rl = rl /\ Given(name, rl).ext = name.ext
         /\ Assumed(name, rl, mode, type) \in Paths
         /\ Assumed(name, rl, mode, type).base = name.base /\ Assumed(name, rl, mode, type).rl = rl
BY DEF Given, Assumed, AssumedFormat, Paths, EffectiveLengths

(* A new stream's entry. *)
LEMMA NewEntry ==
  ASSUME NEW path \in Paths, NEW mode \in Modes, NEW type \in Types, NEW rl \in EffectiveLengths
  PROVE  /\ Stream(path, mode, type, rl) \in OpenEntries
         /\ Stream(path, mode, type, rl).st = "open" /\ Stream(path, mode, type, rl).path = path
         /\ Stream(path, mode, type, rl).wbuf = <<>>
<1>1. Flags(mode) \in {"r", "w", "w+", "a"}
  BY FilesAssumption DEF Flags
<1>2. <<>> \in Seq(1..MaxPuts) /\ 0 \in Nat
  OBVIOUS
<1> QED BY <1>1, <1>2 DEF Stream, OpenEntries

(* The end of the process keeps the invariant. *)
LEMMA EndsKeeps ==
  ASSUME FilesInv, NEW how \in {"quit", "killed", "crashed"}, Ends(how),
         disk' \in Disks, faults' \in 0..MaxFaults
  PROVE  FilesInv'
<1>a. /\ ftab' = [j \in Slots |-> Closed] /\ view' = [j \in Slots |-> <<>>]
      /\ clean' = {} /\ orphans' = {} /\ process' = how
  BY DEF Ends
<1>b. \A j \in Slots : ftab'[j] = Closed /\ ~IsOpen(j)' /\ ftab'[j].st = "closed"
  BY <1>a DEF IsOpen, Closed
<1>c. disk' \in [DOMAIN disk -> Seq(Records)]
  BY DEF Disks
<1>d. \A j \in Slots : holds'[j] \in Holds /\ holds'[j].st \notin {"held", "refused"}
  <2> SUFFICES ASSUME NEW j \in Slots
               PROVE  holds'[j] \in Holds /\ holds'[j].st \notin {"held", "refused"}
    OBVIOUS
  <2>1. holds'[j] \in {Stale, Nothing}
    BY DEF Ends, Stale
  <2>2. Stale.st = "stale" /\ Nothing.st = "none"
    BY DEF Stale, Nothing
  <2> QED BY <2>1, <2>2 DEF Holds
<1>1. DiskTypes'
  BY <1>c DEF FilesInv, DiskTypes
<1>2. TableTypes'
  <2>1. Closed \in Entries
    BY DEF Closed, Entries
  <2>2. ftab' \in [Slots -> Entries]
    BY <1>a, <2>1
  <2> QED BY <1>a, <1>b, <2>2 DEF TableTypes
<1>3. HistoryTypes'
  <2>1. holds' \in [Slots -> Holds]
    <3>1. holds' = [j \in Slots |-> holds'[j]]
      BY DEF Ends
    <3> QED BY <1>d, <3>1
  <2>2. view' \in [Slots -> Seq(Records)]
    BY <1>a
  <2>3. exits' \in 0..MaxExits /\ puts' = puts /\ reboots' = reboots
    BY FilesAssumption DEF Ends, FilesInv, HistoryTypes
  <2> QED BY <1>a, <2>1, <2>2, <2>3 DEF FilesInv, HistoryTypes
<1>4. Owned'
  BY <1>b, <1>d DEF Owned
<1>r. Refusals'
  BY <1>d DEF Refusals
<1>5. FewDangle'
  <2>1. Dangling' = {}
    BY <1>b DEF Dangling
  <2>2. Cardinality(Dangling') = 0
    BY <2>1, FS_EmptySet
  <2> QED BY <2>2 DEF FewDangle
<1>6. Alone' /\ Matches'
  BY <1>a DEF Alone, Matches
<1> QED BY <1>1, <1>2, <1>3, <1>4, <1>r, <1>5, <1>6 DEF FilesInv

(* An empty content. *)
LEMMA NoRecords ==
  ASSUME NEW S
  PROVE  <<>> \in Seq(S)
OBVIOUS

(* fopen succeeded in a free slot, on a path made of the name. *)
OpensAs(i, path, mode, type, rl, name) ==
  /\ i \in Slots /\ ftab[i].st = "closed"
  /\ path \in Paths /\ mode \in Modes /\ type \in Types /\ rl \in EffectiveLengths
  /\ type # "f" => rl = 0
  /\ name \in Names /\ path.base = name.base /\ path.rl = rl /\ name.ext \in {"", path.ext}
  /\ Opened(i, path, mode, type, rl, name)

(* A file opened keeps the invariant. *)
LEMMA OpenedKeeps ==
  ASSUME FilesInv, process = "up", NEW i, NEW path, NEW mode, NEW type, NEW rl, NEW name,
         OpensAs(i, path, mode, type, rl, name),
         faults' \in 0..MaxFaults, faults <= faults',
         UNCHANGED <<process, orphans, puts, exits, reboots>>
  PROVE  FilesInv'
<1> DEFINE g == Stream(path, mode, type, rl)
           content == IF mode \in {"r", "l", "a"} /\ path \in DOMAIN disk THEN disk[path] ELSE <<>>
<1>a. g \in OpenEntries /\ g.st = "open" /\ g.path = path /\ g.wbuf = <<>> /\ g \in Entries
  <2>1. g \in OpenEntries /\ g.st = "open" /\ g.path = path /\ g.wbuf = <<>>
    <3>1. path \in Paths /\ mode \in Modes /\ type \in Types /\ rl \in EffectiveLengths
      BY DEF OpensAs
    <3>2. g \in OpenEntries
      BY <3>1, NewEntry
    <3> QED BY <3>2 DEF Stream
  <2> HIDE DEF g
  <2>2. g \in Entries
    BY <2>1 DEF OpenEntries, Entries, EffectiveLengths
  <2> QED BY <2>1, <2>2
<1>b. /\ disk' = [p \in DOMAIN disk \cup {path} |-> IF p = path THEN content ELSE disk[p]]
      /\ ftab' = [ftab EXCEPT ![i] = g]
      /\ view' = [view EXCEPT ![i] = content]
      /\ clean' = (clean \ OpenOn(path)) \cup (IF OpenOn(path) = {} THEN {i} ELSE {})
      /\ holds' = [holds EXCEPT ![i] = [st |-> "held", name |-> name, rl |-> rl]]
  BY DEF OpensAs, Opened
<1>c. content \in Seq(Records)
  <2>1. <<>> \in Seq(Records)
    BY NoRecords
  <2> QED BY <2>1 DEF FilesInv, DiskTypes
<1> HIDE DEF g, content
<1>h. i \in Slots /\ path \in Paths
  BY DEF OpensAs
<1>d. ftab'[i] = g /\ \A j \in Slots : j # i => ftab'[j] = ftab[j]
  BY <1>b, <1>h, CountersStay
<1>e. /\ ~IsOpen(i) /\ IsOpen(i)'
      /\ \A j \in Slots : j # i => (IsOpen(j)' <=> IsOpen(j))
  BY <1>a, <1>d DEF IsOpen, OpensAs
<1>f. /\ holds \in [Slots -> Holds] /\ view \in [Slots -> Seq(Records)]
      /\ clean \subseteq {j \in Slots : IsOpen(j)}
  BY DEF FilesInv, HistoryTypes
<1>g. /\ DOMAIN disk' = DOMAIN disk \cup {path} /\ disk'[path] = content
      /\ \A p \in DOMAIN disk : p # path => disk'[p] = disk[p]
  BY <1>b
<1>1. DiskTypes'
  <2>1. \A p \in DOMAIN disk' : disk'[p] \in Seq(Records)
    BY <1>c, <1>g DEF FilesInv, DiskTypes
  <2>2. disk' = [p \in DOMAIN disk' |-> disk'[p]]
    BY <1>b
  <2>3. DOMAIN disk' \subseteq Paths
    BY <1>g, <1>h DEF FilesInv, DiskTypes
  <2> QED BY <2>1, <2>2, <2>3 DEF DiskTypes
<1>2. TableTypes'
  <2>1. ftab' \in [Slots -> Entries]
    BY <1>a, <1>b, <1>h, CountersStay
  <2>2. ASSUME NEW j \in Slots, IsOpen(j)'
        PROVE  ftab'[j].path \in DOMAIN disk' /\ (ftab'[j].flags = "r" => ftab'[j].wbuf = <<>>)
    <3>1. CASE j = i
      BY <1>a, <1>d, <1>g, <3>1
    <3>2. CASE j # i
      <4>1. IsOpen(j) /\ ftab'[j] = ftab[j]
        BY <1>d, <1>e, <2>2, <3>2
      <4> QED BY <1>g, <4>1 DEF FilesInv, TableTypes
    <3> QED BY <3>1, <3>2
  <2>3. process' = "up"
    OBVIOUS
  <2> QED BY <2>1, <2>2, <2>3 DEF TableTypes
<1>3. HistoryTypes'
  <2>1. holds' \in [Slots -> Holds]
    <3> DEFINE h == [st |-> "held", name |-> name, rl |-> rl]
    <3>1. h \in Holds
      BY DEF Holds, OpensAs
    <3>2. holds' = [holds EXCEPT ![i] = h]
      BY <1>b
    <3> HIDE DEF h
    <3> QED BY <1>f, <3>1, <3>2
  <2>2. view' \in [Slots -> Seq(Records)]
    BY <1>b, <1>c, <1>f
  <2>3. clean' \subseteq {j \in Slots : IsOpen(j)'}
    BY <1>b, <1>e, <1>f, <1>h
  <2> QED BY <2>1, <2>2, <2>3 DEF FilesInv, HistoryTypes
<1>4. Owned'
  <2>1. /\ holds'[i].st = "held" /\ holds'[i].name = name /\ holds'[i].rl = rl
        /\ \A j \in Slots : j # i => holds'[j] = holds[j]
    BY <1>b, <1>f, <1>h
  <2>2. ASSUME NEW j \in Slots, holds'[j].st = "held"
        PROVE  /\ IsOpen(j)'
               /\ ftab'[j].path.base = holds'[j].name.base
               /\ ftab'[j].path.rl = holds'[j].rl
               /\ holds'[j].name.ext \in {"", ftab'[j].path.ext}
    <3>1. CASE j = i
      BY <1>a, <1>d, <1>e, <2>1, <3>1 DEF OpensAs
    <3>2. CASE j # i
      <4>1. holds'[j] = holds[j] /\ ftab'[j] = ftab[j] /\ (IsOpen(j)' <=> IsOpen(j))
        BY <1>d, <1>e, <2>1, <3>2
      <4> QED BY <2>2, <4>1 DEF FilesInv, Owned
    <3> QED BY <3>1, <3>2
  <2>3. ASSUME NEW j \in Slots, IsOpen(j)' PROVE holds'[j].st = "held" \/ j \in orphans'
    <3>1. CASE j = i
      BY <2>1, <3>1
    <3>2. CASE j # i
      <4>1. holds'[j] = holds[j] /\ IsOpen(j)
        BY <1>e, <2>1, <2>3, <3>2
      <4> QED BY <4>1 DEF FilesInv, Owned
    <3> QED BY <3>1, <3>2
  <2> QED BY <2>2, <2>3 DEF Owned
<1>r. Refusals'
  <2> SUFFICES ASSUME NEW j \in Slots, holds'[j].st = "refused" PROVE ftab'[j].st = "dangling"
    BY DEF Refusals
  <2>1. j # i
    BY <1>b, <1>f, <1>h
  <2>2. holds'[j] = holds[j] /\ ftab'[j] = ftab[j]
    BY <1>b, <1>d, <1>f, <2>1
  <2> QED BY <2>2 DEF FilesInv, Refusals
<1>5. FewDangle'
  <2>1. Dangling' \subseteq Dangling
    BY <1>a, <1>d, <1>h DEF Dangling
  <2>2. faults' \in Nat
    BY CountersStay
  <2>3. Cardinality(Dangling') <= faults'
    BY <2>1, <2>2, FewStillDangle
  <2> QED BY <2>3 DEF FewDangle
<1>6. Alone'
  <2> SUFFICES ASSUME NEW j \in clean', NEW k \in Slots, IsOpen(k)', ftab'[k].path = ftab'[j].path
               PROVE  k = j
    BY DEF Alone
  <2>1. CASE j \in clean \ OpenOn(path)
    <3>1. IsOpen(j) /\ j \in Slots /\ j # i /\ ftab[j].path # path /\ ftab'[j] = ftab[j]
      BY <1>d, <1>e, <1>f, <2>1 DEF OpenOn
    <3>2. k # i
      BY <1>a, <1>d, <3>1
    <3> QED BY <1>d, <1>e, <2>1, <3>1, <3>2 DEF FilesInv, Alone
  <2>2. CASE j = i /\ OpenOn(path) = {}
    <3>1. ftab'[k].path = path
      BY <1>a, <1>d, <2>2
    <3>2. k # i => IsOpen(k) /\ ftab[k].path = path
      BY <1>d, <1>e, <3>1
    <3> QED BY <2>2, <3>2 DEF OpenOn
  <2> QED BY <1>b, <2>1, <2>2
<1>7. Matches'
  <2> SUFFICES ASSUME NEW j \in clean' PROVE Content(disk', ftab'[j]) = view'[j]
    BY DEF Matches
  <2>1. CASE j \in clean \ OpenOn(path)
    <3>1. /\ IsOpen(j) /\ j \in Slots /\ j # i /\ ftab[j].path # path
          /\ ftab'[j] = ftab[j] /\ view'[j] = view[j]
      BY <1>b, <1>d, <1>e, <1>f, <2>1 DEF OpenOn
    <3>2. Content(disk', ftab[j]) = view[j]
      <4>1. \A p \in DOMAIN disk : p # path => disk'[p] = disk[p]
        BY <1>g
      <4>2. j \in clean
        BY <2>1
      <4> QED BY <3>1, <4>1, <4>2, OthersKeep
    <3> QED BY <3>1, <3>2
  <2>2. CASE j = i
    <3>1. Content(disk', g) = content
      BY <1>a, <1>g DEF Content
    <3>2. view'[i] = content
      BY <1>b, <1>f, <1>h
    <3> QED BY <1>d, <2>2, <3>1, <3>2
  <2> QED BY <1>b, <2>1, <2>2
<1> QED BY <1>1, <1>2, <1>3, <1>4, <1>r, <1>5, <1>6, <1>7 DEF FilesInv

(* A step that only counts failures. *)
LEMMA OpenRefusedKeeps ==
  ASSUME FilesInv, OpenRefused, faults' \in 0..MaxFaults, faults <= faults',
         UNCHANGED <<process, orphans, puts, exits, reboots>>
  PROVE  FilesInv'
<1>1. /\ disk' = disk /\ ftab' = ftab /\ process' = process /\ holds' = holds /\ view' = view
      /\ clean' = clean /\ orphans' = orphans /\ puts' = puts
      /\ exits' = exits /\ reboots' = reboots
  BY DEF OpenRefused
<1>2. DiskTypes'
  BY <1>1 DEF FilesInv, DiskTypes
<1>3. TableTypes'
  BY <1>1 DEF FilesInv, TableTypes, IsOpen
<1>4. HistoryTypes'
  BY <1>1 DEF FilesInv, HistoryTypes, IsOpen
<1>5. Owned'
  BY <1>1 DEF FilesInv, Owned, IsOpen
<1>r. Refusals'
  BY <1>1 DEF FilesInv, Refusals
<1>6. FewDangle'
  <2>1. Dangling' = Dangling /\ faults' \in Nat
    BY <1>1, FilesAssumption DEF Dangling
  <2>2. Cardinality(Dangling) <= faults'
    BY <2>1, FewStillDangle
  <2> QED BY <2>1, <2>2 DEF FewDangle
<1>7. Alone'
  BY <1>1 DEF FilesInv, Alone, IsOpen
<1>8. Matches'
  BY <1>1 DEF FilesInv, Matches
<1> QED BY <1>2, <1>3, <1>4, <1>5, <1>r, <1>6, <1>7, <1>8 DEF FilesInv

(* hostopen: refused, or opened in a free slot. *)
LEMMA OpenIs ==
  ASSUME FilesInv, Open
  PROVE  /\ process = "up" /\ faults' \in 0..MaxFaults /\ faults <= faults'
         /\ UNCHANGED <<process, orphans, puts, exits, reboots>>
         /\ \/ OpenRefused
            \/ \E i, path, mode, type, rl, name : OpensAs(i, path, mode, type, rl, name)
<1>1. PICK mode \in Modes, name \in Names, type \in Types, given \in RecordLengths :
        /\ type # "f" => given = 0
        /\ LET rl      == EffectiveRL(type, given)
               asked   == Given(name, rl)
               assumed == Assumed(name, rl, mode, type)
               i       == Min(Free)
           IN \E denied \in SUBSET {asked, assumed} :
                LET Opens(path) == path \notin denied
                                     /\ (mode \in {"r", "l"} => path \in DOMAIN disk)
                IN
                /\ faults' = faults + Cardinality(denied) /\ faults' <= MaxFaults
                /\ \/ Free = {} /\ OpenRefused
                   \/ /\ Free # {} /\ Opens(asked)
                      /\ Opened(i, asked, mode, type, rl, name)
                   \/ /\ Free # {} /\ ~Opens(asked) /\ LacksFormat(name) /\ Opens(assumed)
                      /\ Opened(i, assumed, mode, type, rl, name)
                   \/ /\ Free # {} /\ ~Opens(asked)
                      /\ LacksFormat(name) => ~Opens(assumed)
                      /\ OpenRefused
  BY DEF Open
<1> DEFINE rl      == EffectiveRL(type, given)
           asked   == Given(name, rl)
           assumed == Assumed(name, rl, mode, type)
           i       == Min(Free)
<1>2. PICK denied \in SUBSET {asked, assumed} :
        /\ faults' = faults + Cardinality(denied) /\ faults' <= MaxFaults
        /\ \/ OpenRefused
           \/ Free # {} /\ Opened(i, asked, mode, type, rl, name)
           \/ Free # {} /\ name.ext = "" /\ Opened(i, assumed, mode, type, rl, name)
  BY <1>1 DEF LacksFormat
<1>3. rl \in EffectiveLengths /\ (type # "f" => rl = 0)
  BY DEF EffectiveRL, EffectiveLengths
<1> HIDE DEF rl
<1>4. /\ asked \in Paths /\ asked.base = name.base /\ asked.rl = rl /\ asked.ext = name.ext
      /\ assumed \in Paths /\ assumed.base = name.base /\ assumed.rl = rl
  BY <1>3, PathsAre
<1> HIDE DEF asked, assumed
<1>5. Free # {} => i \in Slots /\ ftab[i].st = "closed"
  <2>1. Free \subseteq Nat /\ \A j \in Free : j \in Slots /\ ftab[j].st = "closed"
    BY DEF Free, Slots
  <2> QED BY <2>1, MinIsLeast
<1> HIDE DEF i
<1>6. faults' \in 0..MaxFaults /\ faults <= faults'
  <2>1. IsFiniteSet(denied)
    <3>1. IsFiniteSet({asked, assumed})
      <4>1. IsFiniteSet({asked} \cup {assumed})
        BY FS_Singleton, FS_Union
      <4>2. {asked, assumed} = {asked} \cup {assumed}
        OBVIOUS
      <4> QED BY <4>1, <4>2
    <3> QED BY <3>1, FS_Subset
  <2>2. Cardinality(denied) \in Nat
    BY <2>1, FS_CardinalityType
  <2>3. faults \in Nat /\ MaxFaults \in Nat
    BY CountersStay
  <2>4. faults' = faults + Cardinality(denied) /\ faults' <= MaxFaults
    BY <1>2
  <2> QED BY <2>2, <2>3, <2>4
<1>7. process = "up" /\ UNCHANGED <<process, orphans, puts, exits, reboots>>
  BY DEF Open
<1>8. ASSUME Free # {}, Opened(i, asked, mode, type, rl, name)
      PROVE  OpensAs(i, asked, mode, type, rl, name)
  BY <1>3, <1>4, <1>5, <1>8 DEF OpensAs
<1>9. ASSUME Free # {}, name.ext = "", Opened(i, assumed, mode, type, rl, name)
      PROVE  OpensAs(i, assumed, mode, type, rl, name)
  BY <1>3, <1>4, <1>5, <1>9 DEF OpensAs
<1>10. OpenRefused \/ \E j, path, md, ty, len, nm : OpensAs(j, path, md, ty, len, nm)
  BY <1>2, <1>8, <1>9
<1> QED BY <1>6, <1>7, <1>10

(* hostopen keeps the invariant. *)
LEMMA OpenKeeps ==
  ASSUME FilesInv, Open
  PROVE  FilesInv'
<1>1. CASE OpenRefused
  BY <1>1, OpenIs, OpenRefusedKeeps
<1>2. ASSUME NEW i, NEW path, NEW mode, NEW type, NEW rl, NEW name,
             OpensAs(i, path, mode, type, rl, name)
      PROVE  FilesInv'
  <2>2. /\ process = "up" /\ faults' \in 0..MaxFaults /\ faults <= faults'
        /\ UNCHANGED <<process, orphans, puts, exits, reboots>>
    BY OpenIs
  <2> QED BY <1>2, <2>2, OpenedKeeps
<1> QED BY <1>1, <1>2, OpenIs

(* A put, a seek, a get or a close does nothing, crashes the server or does its work. *)
CommandIs(i) == Crash \/ UNCHANGED vars \/ (\E g : Works(i, g)) \/ (\E g : Closes(i, g))

(* Every command on a fileid is one of these. *)
LEMMA CommandsAre ==
  ASSUME FilesInv, NEW i \in Slots, Close(i) \/ Put(i) \/ Seek(i) \/ Get(i)
  PROVE  CommandIs(i)
<1>1. CASE Close(i)
  BY <1>1, CloseIs DEF CommandIs
<1>2. CASE Put(i)
  BY <1>2, PutWorks DEF CommandIs
<1>3. CASE Seek(i)
  <2>1. PICK n \in 0..MaxPuts : SeekTo(i, n)
    BY <1>3 DEF Seek
  <2>2. n \in Nat
    BY FilesAssumption
  <2> QED BY <2>1, <2>2, SeekWorks DEF CommandIs
<1>4. CASE Get(i)
  BY <1>4, GetWorks DEF CommandIs
<1> QED BY <1>1, <1>2, <1>3, <1>4

(* Commands on a fileid keep the invariant. *)
LEMMA CommandKeeps ==
  ASSUME FilesInv, NEW i \in Slots, CommandIs(i)
  PROVE  FilesInv'
<1>1. CASE Crash
  <2>1. disk' \in Disks /\ faults' \in 0..MaxFaults
    BY <1>1, CountersStay DEF Crash
  <2> QED BY <1>1, <2>1, EndsKeeps DEF Crash
<1>2. CASE UNCHANGED vars
  BY <1>2, RefusedKeeps
<1>3. CASE \E g : Works(i, g)
  BY <1>3, WorksKeeps
<1>4. CASE \E g : Closes(i, g)
  BY <1>4, ClosesKeeps
<1> QED BY <1>1, <1>2, <1>3, <1>4 DEF CommandIs

(* hostinit keeps the invariant. *)
LEMMA InitializeKeeps ==
  ASSUME FilesInv, Initialize
  PROVE  FilesInv'
<1>1. /\ disk' = disk /\ ftab' = ftab /\ process' = process /\ view' = view
      /\ clean' = clean /\ puts' = puts /\ faults' = faults /\ exits' = exits
  BY DEF Initialize
<1>2. DiskTypes'
  BY <1>1 DEF FilesInv, DiskTypes
<1>3. TableTypes'
  BY <1>1 DEF FilesInv, TableTypes, IsOpen
<1>a. \/ holds' = holds /\ orphans' = orphans
      \/ /\ holds' = [i \in Slots |-> Nothing]
         /\ orphans' = orphans \cup {i \in Slots : holds[i].st = "held"}
  BY DEF Initialize
<1>4. HistoryTypes'
  <2>1. holds' \in [Slots -> Holds] /\ orphans' \subseteq Slots
    BY <1>a DEF FilesInv, HistoryTypes, Holds
  <2>2. reboots' \in 0..MaxReboots
    BY FilesAssumption DEF Initialize, FilesInv, HistoryTypes
  <2>3. clean' \subseteq {i \in Slots : IsOpen(i)'}
    BY <1>1 DEF FilesInv, HistoryTypes, IsOpen
  <2> QED BY <1>1, <2>1, <2>2, <2>3 DEF FilesInv, HistoryTypes
<1>5. Owned'
  <2>1. CASE holds' = holds /\ orphans' = orphans
    BY <1>1, <2>1 DEF FilesInv, Owned, IsOpen
  <2>2. CASE /\ holds' = [i \in Slots |-> Nothing]
             /\ orphans' = orphans \cup {i \in Slots : holds[i].st = "held"}
    <3>1. \A i \in Slots : holds'[i].st # "held"
      BY <2>2 DEF Nothing
    <3>2. \A i \in Slots : IsOpen(i)' => i \in orphans'
      BY <1>1, <2>2 DEF FilesInv, Owned, IsOpen
    <3> QED BY <3>1, <3>2 DEF Owned
  <2> QED BY <1>a, <2>1, <2>2
<1>r. Refusals'
  BY <1>a, <1>1 DEF FilesInv, Refusals, Nothing
<1>6. FewDangle'
  BY <1>1 DEF FilesInv, FewDangle, Dangling
<1>7. Alone'
  BY <1>1 DEF FilesInv, Alone, IsOpen
<1>8. Matches'
  BY <1>1 DEF FilesInv, Matches
<1> QED BY <1>2, <1>3, <1>4, <1>5, <1>r, <1>6, <1>7, <1>8 DEF FilesInv

(* A new server process keeps the invariant. *)
LEMMA RestartKeeps ==
  ASSUME FilesInv, Restart
  PROVE  FilesInv'
<1>1. /\ disk' = disk /\ ftab' = ftab /\ process' = "up" /\ holds' = holds /\ view' = view
      /\ clean' = clean /\ orphans' = orphans /\ puts' = puts /\ faults' = faults
      /\ exits' = exits /\ reboots' = reboots
  BY DEF Restart, client
<1>2. DiskTypes'
  BY <1>1 DEF FilesInv, DiskTypes
<1>3. TableTypes'
  BY <1>1 DEF FilesInv, TableTypes, IsOpen
<1>4. HistoryTypes'
  BY <1>1 DEF FilesInv, HistoryTypes, IsOpen
<1>5. Owned'
  BY <1>1 DEF FilesInv, Owned, IsOpen
<1>r. Refusals'
  BY <1>1 DEF FilesInv, Refusals, Nothing
<1>6. FewDangle'
  BY <1>1 DEF FilesInv, FewDangle, Dangling
<1>7. Alone'
  BY <1>1 DEF FilesInv, Alone, IsOpen
<1>8. Matches'
  BY <1>1 DEF FilesInv, Matches
<1> QED BY <1>2, <1>3, <1>4, <1>5, <1>r, <1>6, <1>7, <1>8 DEF FilesInv

(* hostquit, exit() and a kill keep the invariant. *)
LEMMA EndingsKeep ==
  ASSUME FilesInv, Quit \/ ExitOnError \/ Kill
  PROVE  FilesInv'
<1>a. NFiles \in Nat
  BY FilesAssumption
<1>1. CASE Quit
  <2>1. PICK upto \in 0..NFiles, lost \in SUBSET {i \in Slots : IsOpen(i)} :
          /\ Ends(IF upto = NFiles THEN "quit" ELSE "crashed")
          /\ faults' = faults + Cardinality(lost) /\ faults' <= MaxFaults
          /\ disk' = WrittenOut(upto, lost)
    BY <1>1 DEF Quit
  <2>2. disk' \in Disks
    BY <2>1, WrittenOutIs DEF FilesInv
  <2>3. faults' \in 0..MaxFaults
    <3>1. IsFiniteSet(lost)
      <4>1. IsFiniteSet(Slots) /\ lost \subseteq Slots
        BY <1>a, FS_Interval DEF Slots
      <4> QED BY <4>1, FS_Subset
    <3>2. Cardinality(lost) \in Nat
      BY <3>1, FS_CardinalityType
    <3> QED BY <2>1, <3>2, CountersStay
  <2> QED BY <2>1, <2>2, <2>3, EndsKeeps
<1>2. CASE ExitOnError
  <2>1. Ends("quit") /\ disk' = WrittenOut(NFiles, {}) /\ faults' = faults
    BY <1>2 DEF ExitOnError
  <2>2. disk' \in Disks /\ faults' \in 0..MaxFaults
    BY <1>a, <2>1, WrittenOutIs, CountersStay DEF FilesInv
  <2> QED BY <2>1, <2>2, EndsKeeps
<1>3. CASE Kill
  <2>1. Ends("killed") /\ disk' \in Disks /\ faults' \in 0..MaxFaults
    BY <1>3, CountersStay DEF Kill
  <2> QED BY <2>1, EndsKeeps
<1> QED BY <1>1, <1>2, <1>3

(* Every step keeps the invariant. *)
LEMMA NextInv == FilesInv /\ [Next]_vars => FilesInv'
<1> SUFFICES ASSUME FilesInv, [Next]_vars PROVE FilesInv'
  OBVIOUS
<1>1. CASE Open
  BY <1>1, OpenKeeps
<1>2. ASSUME NEW i \in Slots, Close(i) \/ Put(i) \/ Seek(i) \/ Get(i) PROVE FilesInv'
  BY <1>2, CommandsAre, CommandKeeps
<1>3. CASE Initialize
  BY <1>3, InitializeKeeps
<1>4. CASE Quit \/ ExitOnError \/ Kill
  BY <1>4, EndingsKeep
<1>5. CASE Restart
  BY <1>5, RestartKeeps
<1>6. CASE UNCHANGED vars
  BY <1>6, RefusedKeeps
<1> QED BY <1>1, <1>2, <1>3, <1>4, <1>5, <1>6 DEF Next

(* It always holds. *)
LEMMA SpecInv == Spec => []FilesInv
BY InitInv, NextInv, PTL DEF Spec

-----------------------------------------------------------------------------
(* The theorems. *)

(* Every entry of the file table is closed, open with its stream, or       *)
(* dangling; a stream opened for reading holds nothing back; no process    *)
(* that ended left an entry (hostopen, hostclose, hostquit).               *)
THEOREM FilesTypeCorrect == Spec => []TypeOK
<1>1. FilesInv => TypeOK
  <2> SUFFICES ASSUME FilesInv PROVE TypeOK
    OBVIOUS
  <2>1. Records = 0..MaxPuts
    BY DEF Records
  <2>2. clean \subseteq Slots
    BY DEF FilesInv, HistoryTypes
  <2> QED BY <2>1, <2>2 DEF TypeOK, FilesInv, DiskTypes, TableTypes, HistoryTypes
<1> QED BY <1>1, SpecInv, PTL

(* A fileid the client holds is open on what it asked for, an open slot is *)
(* held or orphaned, and only a failed fclose loses a slot (hostopen,      *)
(* hostclose, hostinit).                                                   *)
THEOREM HandlesAreOfTheNamed == Spec => []HandlesMatch
<1>1. FilesInv => HandlesMatch
  BY DEF FilesInv, Owned, FewDangle, Dangling, HandlesMatch
<1> QED BY <1>1, SpecInv, PTL

(* The disk with a clean stream's buffer written out to it is what the     *)
(* acknowledged puts made (hostput, hostseek, hostget).                    *)
THEOREM AcknowledgedIsKept == Spec => []DiskPlusBuffer
<1>1. FilesInv => DiskPlusBuffer
  <2> SUFFICES ASSUME FilesInv, NEW i \in clean, IsOpen(i)
               PROVE  FlushedDisk(i)[ftab[i].path] = view[i]
    BY DEF DiskPlusBuffer
  <2>1. i \in Slots /\ Content(disk, ftab[i]) = view[i]
    BY DEF FilesInv, HistoryTypes, Matches
  <2> QED BY <2>1, FlushedDiskIs
<1> QED BY <1>1, SpecInv, PTL

(* What an ending step must leave on the disk. *)
Durable ==
  \A i \in clean :
    IsOpen(i) /\ ftab'[i].st # "open" /\ faults' = faults /\ process' \in {"up", "quit"}
      => disk'[ftab[i].path] = view[i]

(* A quit and an exit write every clean stream out. *)
LEMMA EndingsAreDurable ==
  ASSUME FilesInv, NEW i \in clean, IsOpen(i), faults' = faults, process' \in {"up", "quit"},
         Quit \/ ExitOnError \/ Kill
  PROVE  disk'[ftab[i].path] = view[i]
<1>a. NFiles \in Nat /\ Slots = 1..NFiles
  BY FilesAssumption DEF Slots
<1>b. /\ i \in Slots /\ Content(disk, ftab[i]) = view[i] /\ i <= NFiles
      /\ \A j \in Slots : IsOpen(j) /\ ftab[j].path = ftab[i].path => j = i
  BY <1>a DEF FilesInv, HistoryTypes, Matches, Alone
<1>1. \E lost : i \notin lost /\ disk' = WrittenOut(NFiles, lost)
  <2>1. CASE Quit
    <3>1. PICK upto \in 0..NFiles, lost \in SUBSET {j \in Slots : IsOpen(j)} :
            /\ Ends(IF upto = NFiles THEN "quit" ELSE "crashed")
            /\ faults' = faults + Cardinality(lost)
            /\ disk' = WrittenOut(upto, lost)
      BY <2>1 DEF Quit
    <3>2. upto = NFiles
      BY <3>1 DEF Ends
    <3>3. lost = {}
      <4>1. IsFiniteSet(lost)
        <5>1. IsFiniteSet(Slots) /\ lost \subseteq Slots
          BY <1>a, FS_Interval
        <5> QED BY <5>1, FS_Subset
      <4>2. Cardinality(lost) = 0
        BY <3>1, <4>1, FS_CardinalityType, CountersStay
      <4> QED BY <4>1, <4>2, FS_EmptySet
    <3> QED BY <3>1, <3>2, <3>3
  <2>2. CASE ExitOnError
    BY <2>2 DEF ExitOnError
  <2>3. CASE Kill
    BY <2>3 DEF Kill, Ends
  <2> QED BY <2>1, <2>2, <2>3
<1>2. PICK lost : i \notin lost /\ disk' = WrittenOut(NFiles, lost)
  BY <1>1
<1>3. NFiles \in 0..NFiles
  BY <1>a
<1>4. WrittenOut(NFiles, lost)[ftab[i].path] = Content(disk, ftab[i])
  BY <1>b, <1>2, <1>3, WrittenOutIs DEF FilesInv
<1> QED BY <1>b, <1>2, <1>4

(* No step loses what a clean stream wrote. *)
LEMMA NextDurable == FilesInv /\ [Next]_vars => Durable
<1> SUFFICES ASSUME FilesInv, [Next]_vars, NEW i \in clean,
                    IsOpen(i), ftab'[i].st # "open", faults' = faults, process' \in {"up", "quit"}
             PROVE  disk'[ftab[i].path] = view[i]
  BY DEF Durable
<1>a. i \in Slots /\ ftab[i].st = "open" /\ ftab'[i] # ftab[i] /\ ftab \in [Slots -> Entries]
  BY CountersStay DEF FilesInv, HistoryTypes, IsOpen
<1>1. CASE Open
  <2>1. ASSUME NEW k, NEW path, NEW mode, NEW type, NEW rl, NEW name,
               OpensAs(k, path, mode, type, rl, name)
        PROVE  FALSE
    <3>1. k # i /\ ftab' = [ftab EXCEPT ![k] = Stream(path, mode, type, rl)]
      BY <1>a, <2>1 DEF OpensAs, Opened
    <3> QED BY <1>a, <3>1
  <2>2. CASE OpenRefused
    BY <1>a, <2>2 DEF OpenRefused
  <2> QED BY <1>1, <2>1, <2>2, OpenIs
<1>2. ASSUME NEW k \in Slots, CommandIs(k) PROVE disk'[ftab[i].path] = view[i]
  <2>1. CASE Crash
    BY <2>1 DEF Crash, Ends
  <2>2. CASE UNCHANGED vars
    BY <1>a, <2>2 DEF vars
  <2>3. ASSUME NEW g, Works(k, g) PROVE FALSE
    <3>1. ftab' = [ftab EXCEPT ![k] = g] /\ g.st = "open"
      BY <2>3 DEF Works, OpenEntries
    <3> QED BY <1>a, <3>1
  <2>4. ASSUME NEW g, Closes(k, g) PROVE disk'[ftab[i].path] = view[i]
    <3>1. k = i
      BY <1>a, <2>4 DEF Closes
    <3>2. disk' = FlushedDisk(i)
      BY <2>4, <3>1, CountersStay DEF Closes
    <3>3. Content(disk, ftab[i]) = view[i]
      BY DEF FilesInv, Matches
    <3> QED BY <1>a, <3>2, <3>3, FlushedDiskIs
  <2> QED BY <1>2, <2>1, <2>2, <2>3, <2>4 DEF CommandIs
<1>3. CASE Initialize
  BY <1>a, <1>3 DEF Initialize
<1>4. CASE Quit \/ ExitOnError \/ Kill
  BY <1>4, EndingsAreDurable
<1>5. CASE Restart
  BY <1>a, <1>5 DEF Restart
<1>6. CASE UNCHANGED vars
  BY <1>a, <1>6 DEF vars
<1> QED BY <1>1, <1>2, <1>3, <1>4, <1>5, <1>6, CommandsAre DEF Next

(* When a clean stream ends by a close, a quit or the exit on a tty error, *)
(* and the host reports no failure, every acknowledged record is on disk   *)
(* (hostclose, hostquit, server).                                          *)
THEOREM EndedFilesAreDurable == Spec => EndedStreamsAreDurable
<1>1. FilesInv /\ [Next]_vars => [Durable]_vars
  BY NextDurable
<1>2. Spec => [][Durable]_vars
  BY <1>1, SpecInv, PTL DEF Spec
<1> QED BY <1>2 DEF EndedStreamsAreDurable, Durable

(* A fileid that the client uses is open, dangling or stale. *)
LEMMA UsedIsOpen ==
  ASSUME FilesInv, NEW i \in Slots, Uses(i)
  PROVE  IsOpen(i) \/ ftab[i].st = "dangling" \/ holds[i].st = "stale"
<1>1. holds[i] \in Holds /\ holds[i] # Nothing
  BY DEF FilesInv, HistoryTypes, Uses
<1>2. holds[i].st \in {"refused", "stale", "held"}
  BY <1>1 DEF Holds, Refusal, Stale
<1> QED BY <1>2 DEF FilesInv, Owned, Refusals

(* What a crash comes from. *)
Caused ==
  process = "up" /\ process' = "crashed"
    => \E i \in Slots : ftab[i].st = "dangling" \/ holds[i].st = "stale"

(* No step crashes the server without a cause. *)
LEMMA NextCaused == FilesInv /\ [Next]_vars => Caused
<1> SUFFICES ASSUME FilesInv, [Next]_vars, process = "up", process' = "crashed"
             PROVE  \E i \in Slots : ftab[i].st = "dangling" \/ holds[i].st = "stale"
  BY DEF Caused
<1>1. ASSUME NEW i \in Slots, Close(i) \/ Put(i) \/ Seek(i) \/ Get(i)
      PROVE  ftab[i].st = "dangling" \/ holds[i].st = "stale"
  <2>1. Uses(i)
    BY <1>1 DEF Close, Put, Seek, SeekTo, Get
  <2>2. ASSUME IsOpen(i) PROVE process' = process
    <3>1. CASE Close(i)
      BY <2>2, <3>1 DEF Close
    <3>2. CASE Put(i)
      BY <2>2, <3>2 DEF Put, Refused, vars
    <3>3. CASE Seek(i)
      BY <2>2, <3>3 DEF Seek, SeekTo
    <3>4. CASE Get(i)
      BY <2>2, <3>4 DEF Get
    <3> QED BY <1>1, <3>1, <3>2, <3>3, <3>4
  <2> QED BY <2>1, <2>2, UsedIsOpen
<1>2. CASE Open
  BY <1>2 DEF Open
<1>3. CASE Initialize \/ Restart
  BY <1>3 DEF Initialize, Restart
<1>4. CASE Quit
  <2>1. PICK upto \in 0..NFiles :
          /\ upto < NFiles => ftab[upto + 1].st = "dangling"
          /\ Ends(IF upto = NFiles THEN "quit" ELSE "crashed")
    BY <1>4 DEF Quit
  <2>2. upto # NFiles
    BY <2>1 DEF Ends
  <2>3. upto + 1 \in Slots /\ upto < NFiles
    BY <2>2, FilesAssumption DEF Slots
  <2> QED BY <2>1, <2>3
<1>5. CASE ExitOnError \/ Kill
  BY <1>5 DEF ExitOnError, Kill, Ends
<1>6. CASE UNCHANGED vars
  BY <1>6 DEF vars
<1> QED BY <1>1, <1>2, <1>3, <1>4, <1>5, <1>6 DEF Next

(* The server goes down only with a freed stream in its table or under a   *)
(* fileid of a process before it: opens, refusals, closes, quits and       *)
(* second 'v's leave the client with no fileid that is not open, in any    *)
(* order (hostput, hostclose, hostinit).                                   *)
THEOREM CrashesAreCaused == Spec => CrashesHaveACause
<1>1. FilesInv /\ [Next]_vars => [Caused]_vars
  BY NextCaused
<1>2. Spec => [][Caused]_vars
  BY <1>1, SpecInv, PTL DEF Spec
<1> QED BY <1>2 DEF CrashesHaveACause, Caused

=============================================================================
