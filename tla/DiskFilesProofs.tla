-------------------------- MODULE DiskFilesProofs --------------------------
(***************************************************************************)
(* Proofs about DiskFiles for any number of blocks, names, files and       *)
(* streams: it is type correct, nothing but names, flags and empty files   *)
(* is unsaved while di->modified is 0, readers get their files, and the    *)
(* links, the map and the directory together implement FileStore.          *)
(*                                                                         *)
(* Saved (the types and UnmodifiedIsSaved) holds always.  Intact holds     *)
(* until a file is deleted that is open for writing: the links from each   *)
(* entry lead through as many blocks as its size says, none of them is     *)
(* free, and each has the part of that file of its place, so that no block *)
(* is in two files; a writer knows the last of them, a reader the one it   *)
(* is at.                                                                  *)
(***************************************************************************)
EXTENDS DiskFiles, FiniteSetTheorems, SequenceTheorems, WellFoundedInduction, TLAPS

(* Natural numbers: a set of them has a least one; induction, stated about *)
(* a set; and what follows from it, that a function can be iterated.       *)

LEMMA Least ==
  ASSUME NEW T \in SUBSET Nat, T # {}
  PROVE  \E n \in T : \A m \in T : n <= m
<1>1. \E x \in T : \A y \in T : ~(<<y, x>> \in OpToRel(<, Nat))
  BY NatLessThanWellFounded, WFMin
<1>2. PICK x \in T : \A y \in T : ~(<<y, x>> \in OpToRel(<, Nat))
  BY <1>1
<1>3. \A y \in T : <<y, x>> \in OpToRel(<, Nat) <=> y < x
  BY DEF OpToRel
<1>4. \A y \in T : ~(y < x)
  BY <1>2, <1>3
<1> HIDE DEF OpToRel
<1>5. x \in Nat /\ \A y \in T : y \in Nat
  OBVIOUS
<1> QED BY <1>4, <1>5

LEMMA MinIsLeast ==
  ASSUME NEW T \in SUBSET Nat, T # {}
  PROVE  Min(T) \in T
BY Least DEF Min

LEMMA Induct ==
  ASSUME NEW S, 0 \in S, \A n \in Nat : n \in S => n + 1 \in S
  PROVE  Nat \subseteq S
<1> SUFFICES ASSUME Nat \ S # {} PROVE FALSE
  OBVIOUS
<1>1. PICK n \in Nat \ S : \A m \in Nat \ S : n <= m
  BY Least
<1>2. n # 0 /\ n - 1 \in Nat
  BY <1>1
<1>3. n - 1 \in S BY <1>1, <1>2
<1> QED BY <1>1, <1>2, <1>3

(* f are the iterates of step, which is in [S -> S], from s on. *)
IsIteration(f, S, step, s) ==
  f \in [Nat -> S] /\ f[0] = s /\ \A n \in Nat : f[n + 1] = step[f[n]]

LEMMA Iterates ==
  ASSUME NEW S, NEW step \in [S -> S], NEW s \in S
  PROVE  \E f : IsIteration(f, S, step, s)
<1> DEFINE Upto(n, g) == g \in [0..n -> S] /\ g[0] = s /\ \A i \in 0..(n - 1) : g[i + 1] = step[g[i]]
           Reached == {n \in Nat : \E g : Upto(n, g)}
<1>1. Nat \subseteq Reached
  <2>1. 0 \in Reached
    <3>1. Upto(0, [i \in 0..0 |-> s])
      OBVIOUS
    <3> QED BY <3>1
  <2>2. ASSUME NEW n \in Nat, n \in Reached PROVE n + 1 \in Reached
    <3>1. PICK g : Upto(n, g)
      BY <2>2
    <3> DEFINE h == [i \in 0..(n + 1) |-> IF i = n + 1 THEN step[g[n]] ELSE g[i]]
    <3>2. g[n] \in S /\ step[g[n]] \in S
      BY <3>1
    <3>3. h \in [0..(n + 1) -> S]
      BY <3>1, <3>2
    <3>4. h[0] = s
      BY <3>1
    <3>5. \A i \in 0..n : h[i + 1] = step[h[i]]
      BY <3>1
    <3>6. Upto(n + 1, h)
      BY <3>3, <3>4, <3>5
    <3> HIDE DEF h, Upto
    <3> QED BY <3>6
  <2> HIDE DEF Reached
  <2> QED BY <2>1, <2>2, Induct
<1>2. ASSUME NEW m \in Nat, NEW n \in Nat, NEW g, NEW h, Upto(m, g), Upto(n, h)
      PROVE  \A i \in Nat : i <= m /\ i <= n => g[i] = h[i]
  <2> DEFINE Same == {i \in Nat : i <= m /\ i <= n => g[i] = h[i]}
  <2>1. 0 \in Same
    BY <1>2
  <2>2. ASSUME NEW i \in Nat, i \in Same PROVE i + 1 \in Same
    <3>1. SUFFICES ASSUME i + 1 <= m, i + 1 <= n PROVE g[i + 1] = h[i + 1]
      OBVIOUS
    <3>2. g[i] = h[i] /\ i \in 0..(m - 1) /\ i \in 0..(n - 1)
      BY <2>2, <3>1
    <3> QED BY <3>2, <1>2
  <2>3. Nat \subseteq Same
    <3> HIDE DEF Same
    <3> QED BY <2>1, <2>2, Induct
  <2> QED BY <2>3
<1> DEFINE some(n) == CHOOSE g : Upto(n, g)
           f == [n \in Nat |-> some(n)[n]]
<1>3. \A n \in Nat : Upto(n, some(n))
  BY <1>1
<1>4. f \in [Nat -> S]
  <2>1. ASSUME NEW n \in Nat PROVE some(n)[n] \in S
    <3> HIDE DEF some
    <3>1. Upto(n, some(n)) /\ n \in 0..n
      BY <1>3
    <3> QED BY <3>1
  <2> HIDE DEF some
  <2> QED BY <2>1
<1>5. f[0] = s
  BY <1>3
<1>6. ASSUME NEW n \in Nat PROVE f[n + 1] = step[f[n]]
  <2>1. Upto(n, some(n)) /\ Upto(n + 1, some(n + 1))
    <3> HIDE DEF some, Upto
    <3> QED BY <1>3
  <2>2. some(n)[n] = some(n + 1)[n]
    <3> HIDE DEF some, Upto
    <3> QED BY <2>1, <1>2
  <2>3. some(n + 1)[n + 1] = step[some(n + 1)[n]]
    <3> HIDE DEF some
    <3> QED BY <2>1
  <2>4. f[n + 1] = some(n + 1)[n + 1] /\ f[n] = some(n)[n]
    <3> HIDE DEF some
    <3> QED OBVIOUS
  <2> QED BY <2>2, <2>3, <2>4
<1> HIDE DEF f
<1> QED BY <1>4, <1>5, <1>6 DEF IsIteration

-----------------------------------------------------------------------------
(* Chains. *)

Links == Blocks \cup {NoBlock, EndMark}

(* One more block in front: what the recursion of Chain adds. *)
Longer(im, paths) ==
  [c \in Links |-> IF c \notin Blocks THEN <<>> ELSE <<c>> \o paths[im.link[c]]]

LEMMA ChainUnfolds ==
  ASSUME NEW im \in Image
  PROVE  \E f \in [Nat -> [Links -> Seq(Blocks)]] :
           /\ \A b \in Links : f[0][b] = <<>>
           /\ \A n \in Nat : f[n + 1] = Longer(im, f[n])
           /\ \A b : Chain(im, b) = f[Cardinality(Blocks)][b]
<1> DEFINE Paths == [Links -> Seq(Blocks)]
           step == [p \in Paths |-> Longer(im, p)]
           none == [c \in Links |-> <<>>]
<1>1. ASSUME NEW p \in Paths PROVE Longer(im, p) \in Paths
  <2>1. ASSUME NEW c \in Blocks PROVE <<c>> \o p[im.link[c]] \in Seq(Blocks)
    <3>1. im.link[c] \in Links
      BY DEF Image, Links
    <3>2. p[im.link[c]] \in Seq(Blocks) /\ <<c>> \in Seq(Blocks)
      BY <3>1
    <3> QED BY <3>2, ConcatProperties
  <2>2. <<>> \in Seq(Blocks)
    OBVIOUS
  <2> QED BY <2>1, <2>2 DEF Longer
<1>2. none \in Paths
  OBVIOUS
<1>3. step \in [Paths -> Paths]
  BY <1>1
<1>4. PICK f : IsIteration(f, Paths, step, none)
  <2> HIDE DEF Paths, step, none
  <2> QED BY <1>2, <1>3, Iterates
<1>5. /\ f \in [Nat -> Paths] /\ f[0] = none
       /\ \A n \in Nat : f[n] \in Paths /\ f[n + 1] = step[f[n]]
  <2> HIDE DEF Paths, step, none
  <2> QED BY <1>4 DEF IsIteration
<1>6. \A n \in Nat : f[n + 1] = Longer(im, f[n])
  BY <1>5
<1> DEFINE Body(u) == [n \in Nat |->
             [c \in Blocks \cup {NoBlock, EndMark} |->
                IF n = 0 \/ c \notin Blocks THEN <<>> ELSE <<c>> \o u[n - 1][im.link[c]]]]
<1>7. f = Body(f)
  <2>1. ASSUME NEW n \in Nat PROVE f[n] = Body(f)[n]
    <3>1. CASE n = 0
      BY <3>1, <1>5 DEF Links
    <3>2. CASE n # 0
      <4>1. n - 1 \in Nat /\ (n - 1) + 1 = n
        BY <3>2
      <4>2. f[n] = Longer(im, f[n - 1])
        BY <4>1, <1>6
      <4> QED BY <4>2, <3>2 DEF Longer, Links
    <3> QED BY <3>1, <3>2
  <2>2. f = [n \in Nat |-> f[n]]
    BY <1>5
  <2> QED BY <2>1, <2>2
<1>8. ASSUME NEW u, u = Body(u) PROVE u = f
  <2> DEFINE Same == {n \in Nat : u[n] = f[n]}
  <2>1. u = [n \in Nat |-> u[n]]
    BY <1>8
  <2>2. 0 \in Same
    <3>1. u[0] = [c \in Links |-> <<>>]
      <4>1. u[0] = Body(u)[0]
        BY <1>8
      <4> QED BY <4>1 DEF Links
    <3> QED BY <3>1, <1>5
  <2>3. ASSUME NEW n \in Nat, n \in Same PROVE n + 1 \in Same
    <3>1. ASSUME NEW k \in Nat, k # 0, k - 1 = n PROVE u[k] = Longer(im, u[n])
      <4>1. u[k] = Body(u)[k]
        BY <1>8
      <4>2. Body(u)[k] = [c \in Blocks \cup {NoBlock, EndMark} |->
                            IF c \notin Blocks THEN <<>> ELSE <<c>> \o u[k - 1][im.link[c]]]
        BY <3>1
      <4> QED BY <4>1, <4>2, <3>1 DEF Longer, Links
    <3>2. u[n + 1] = Longer(im, u[n])
      BY <3>1
    <3> QED BY <3>2, <2>3, <1>6
  <2>4. Nat \subseteq Same
    <3> HIDE DEF Same
    <3> QED BY <2>2, <2>3, Induct
  <2>5. f = [n \in Nat |-> f[n]]
    BY <1>5
  <2> QED BY <2>1, <2>4, <2>5
<1>9. (CHOOSE u : u = Body(u)) = f
  <2> HIDE DEF Body
  <2> QED BY <1>7, <1>8
<1>10. \A b : Chain(im, b) = f[Cardinality(Blocks)][b]
  BY <1>9 DEF Chain
<1> QED BY <1>5, <1>6, <1>10

LEMMA ChainType ==
  ASSUME NEW im \in Image, NEW b \in Links
  PROVE  /\ Chain(im, b) \in Seq(Blocks)
         /\ b \notin Blocks => Chain(im, b) = <<>>
         /\ b \in Blocks => b \in ToSet(Chain(im, b))
<1>1. PICK f \in [Nat -> [Links -> Seq(Blocks)]] :
        /\ \A a \in Links : f[0][a] = <<>>
        /\ \A n \in Nat : f[n + 1] = Longer(im, f[n])
        /\ \A a : Chain(im, a) = f[Cardinality(Blocks)][a]
  BY ChainUnfolds
<1>2. Cardinality(Blocks) \in Nat
  BY FilesAssumption, FS_CardinalityType
<1>3. Chain(im, b) \in Seq(Blocks)
  BY <1>1, <1>2
<1>4. CASE Cardinality(Blocks) = 0
  <2>1. Blocks = {}
    BY <1>4, FilesAssumption, FS_EmptySet
  <2> QED BY <2>1, <1>1, <1>3, <1>4
<1>5. CASE Cardinality(Blocks) # 0
  <2> DEFINE n == Cardinality(Blocks) - 1
  <2>1. n \in Nat /\ n + 1 = Cardinality(Blocks)
    BY <1>2, <1>5
  <2> HIDE DEF n
  <2>2. Chain(im, b) = Longer(im, f[n])[b]
    BY <2>1, <1>1
  <2>3. b \notin Blocks => Chain(im, b) = <<>>
    BY <2>2 DEF Longer
  <2>4. ASSUME b \in Blocks PROVE b \in ToSet(Chain(im, b))
    <3>1. Chain(im, b) = <<b>> \o f[n][im.link[b]]
      BY <2>2, <2>4 DEF Longer
    <3>2. im.link[b] \in Links
      BY <2>4 DEF Image, Links
    <3> DEFINE rest == f[n][im.link[b]]
    <3>3. rest \in Seq(Blocks)
      BY <3>2, <2>1, <1>1
    <3>4. <<b>> \in Seq(Blocks) /\ Len(<<b>>) = 1 /\ <<b>>[1] = b
      BY <2>4
    <3>5. 1 \in 1..Len(Chain(im, b)) /\ Chain(im, b)[1] = b
      <4> HIDE DEF rest
      <4>1. Len(rest) \in Nat
        BY <3>3
      <4>2. Chain(im, b) = <<b>> \o rest
        BY <3>1 DEF rest
      <4> QED BY <4>1, <4>2, <3>3, <3>4, ConcatProperties
    <3>6. DOMAIN Chain(im, b) = 1..Len(Chain(im, b))
      BY <1>3
    <3> QED BY <3>5, <3>6 DEF ToSet
  <2> QED BY <2>3, <2>4, <1>3
<1> QED BY <1>4, <1>5

(* The links of im lead through the blocks of c, from the first to the     *)
(* last, which is the end.                                                 *)
LinkedUp(im, c) ==
  \A i \in 1..Len(c) : im.link[c[i]] = IF i = Len(c) THEN EndMark ELSE c[i + 1]

Apart(c) == \A i, j \in 1..Len(c) : c[i] = c[j] => i = j

LEMMA ApartIsShort ==
  ASSUME NEW c \in Seq(Blocks), Apart(c)
  PROVE  Len(c) <= Cardinality(Blocks) /\ Cardinality(Blocks) \in Nat
<1>1. Len(c) \in Nat /\ c \in [1..Len(c) -> Blocks]
  OBVIOUS
<1>2. c \in Injection(1..Len(c), Blocks)
  BY <1>1 DEF Injection, IsInjective, Apart
<1>3. Cardinality(1..Len(c)) <= Cardinality(Blocks)
  BY <1>2, FilesAssumption, FS_Injection
<1>4. Cardinality(1..Len(c)) = Len(c)
  BY <1>1, FS_Interval
<1> QED BY <1>3, <1>4, FilesAssumption, FS_CardinalityType

LEMMA ChainFound ==
  ASSUME NEW im \in Image, NEW c \in Seq(Blocks), c # <<>>, LinkedUp(im, c), Apart(c)
  PROVE  Chain(im, c[1]) = c
<1>1. PICK f \in [Nat -> [Links -> Seq(Blocks)]] :
        /\ \A a \in Links : f[0][a] = <<>>
        /\ \A n \in Nat : f[n + 1] = Longer(im, f[n])
        /\ \A a : Chain(im, a) = f[Cardinality(Blocks)][a]
  BY ChainUnfolds
<1>2. Len(c) \in Nat \ {0} /\ \A k \in 1..Len(c) : c[k] \in Blocks
  BY EmptySeq
<1> DEFINE Done == {n \in Nat : \A k \in 1..Len(c) :
                      Len(c) - k + 1 <= n => f[n][c[k]] = SubSeq(c, k, Len(c))}
<1>3. 0 \in Done
  BY <1>2
<1>4. ASSUME NEW n \in Nat, n \in Done PROVE n + 1 \in Done
  <2>1. SUFFICES ASSUME NEW k \in 1..Len(c), Len(c) - k + 1 <= n + 1
                 PROVE  f[n + 1][c[k]] = SubSeq(c, k, Len(c))
    OBVIOUS
  <2>2. c[k] \in Blocks /\ c[k] \in Links /\ k \in Nat /\ Len(c) \in k..Len(c)
    BY <1>2 DEF Links
  <2>3. f[n + 1][c[k]] = <<c[k]>> \o f[n][im.link[c[k]]]
    BY <2>2, <1>1 DEF Longer
  <2>4. SubSeq(c, k, Len(c)) = <<c[k]>> \o SubSeq(c, k + 1, Len(c))
    BY <2>2, SubSeqRecursiveFirst
  <2>5. CASE k = Len(c)
    <3>1. im.link[c[k]] = EndMark
      BY <2>5 DEF LinkedUp
    <3>2. f[n][EndMark] = <<>>
      <4>1. CASE n = 0
        BY <4>1, <1>1 DEF Links
      <4>2. CASE n # 0
        <5>1. n - 1 \in Nat /\ (n - 1) + 1 = n
          BY <4>2
        <5>2. f[n] = Longer(im, f[n - 1])
          BY <5>1, <1>1
        <5> QED BY <5>2, FilesAssumption DEF Longer, Links
      <4> QED BY <4>1, <4>2
    <3>3. SubSeq(c, k + 1, Len(c)) = <<>>
      BY <2>5, <1>2, SubSeqEmpty
    <3> QED BY <2>3, <2>4, <3>1, <3>2, <3>3
  <2>6. CASE k # Len(c)
    <3>1. k + 1 \in 1..Len(c) /\ Len(c) - (k + 1) + 1 <= n
      BY <2>1, <2>2, <2>6, <1>2
    <3>2. im.link[c[k]] = c[k + 1]
      BY <2>6 DEF LinkedUp
    <3>3. f[n][c[k + 1]] = SubSeq(c, k + 1, Len(c))
      BY <3>1, <1>4
    <3> QED BY <2>3, <2>4, <3>2, <3>3
  <2> QED BY <2>5, <2>6
<1>5. Nat \subseteq Done
  <2> HIDE DEF Done
  <2> QED BY <1>3, <1>4, Induct
<1>6. Len(c) <= Cardinality(Blocks) /\ Cardinality(Blocks) \in Nat
  BY ApartIsShort
<1>7. f[Cardinality(Blocks)][c[1]] = SubSeq(c, 1, Len(c))
  <2>1. Cardinality(Blocks) \in Done
    BY <1>5, <1>6
  <2>2. 1 \in 1..Len(c) /\ Len(c) - 1 + 1 <= Cardinality(Blocks)
    BY <1>2, <1>6
  <2> QED BY <2>1, <2>2
<1>8. SubSeq(c, 1, Len(c)) = c
  BY SubSeqFull
<1> QED BY <1>1, <1>7, <1>8

-----------------------------------------------------------------------------
(* The invariant. *)

(* The blocks of the file at slot s. *)
BlocksOf(im, s) == Chain(im, im.dir[s].start)

(* c are the blocks of the file at slot s: its links and its size say so,  *)
(* none of them is free, and each has the file's part of that place.       *)
FileAt(im, s, c) ==
  /\ c \in Seq(Blocks) /\ Len(c) = im.dir[s].size
  /\ im.dir[s].start = IF c = <<>> THEN NoBlock ELSE c[1]
  /\ LinkedUp(im, c)
  /\ \A i \in 1..Len(c) :
       c[i] \notin im.free /\ im.data[c[i]] = [file |-> im.dir[s].id, index |-> i]

(* An image whose files are whole and apart from each other, and are among *)
(* the first n created.                                                    *)
Sound(im, n) ==
  /\ \A s \in Files(im) :
       /\ FileAt(im, s, BlocksOf(im, s))
       /\ im.dir[s].id \in 1..n /\ im.dir[s].name \in Names
  /\ \A s, t \in Files(im) :
       s # t => im.dir[s].id # im.dir[t].id /\ im.dir[s].name # im.dir[t].name

(* A writer knows the end of its file. *)
WriterAt(im, wr) ==
  LET c == BlocksOf(im, wr.slot)
  IN wr.open =>
       /\ wr.slot \in Files(im) /\ wr.id = im.dir[wr.slot].id
       /\ wr.index = Len(c) + 1
       /\ wr.ts = IF c = <<>> THEN NoBlock ELSE c[Len(c)]

(* A reader is at the block it reads next or has just read, and has what   *)
(* is before it.                                                           *)
ReaderAt(im, rd) ==
  LET c == BlocksOf(im, rd.slot)
      k == Len(rd.got) + IF rd.unread THEN 1 ELSE 0
  IN rd.open /\ ~rd.stale =>
       /\ rd.slot \in Files(im)
       /\ k \in 1..Len(c) /\ rd.ts = c[k]
       /\ \A i \in 1..Len(rd.got) : rd.got[i] = [file |-> im.dir[rd.slot].id, index |-> i]
       /\ rd.whole => rd.nextts = im.link[rd.ts]
       /\ rd.whole /\ rd.eof => Len(rd.got) = Len(c)

(* No file has two writers, and none that a reader found without one has   *)
(* got one.                                                                *)
StreamsApart ==
  /\ \A v, w \in Writers :
       writers[v].open /\ writers[w].open /\ v # w => writers[v].slot # writers[w].slot
  /\ \A r \in Readers, w \in Writers :
       readers[r].open /\ ~readers[r].stale /\ readers[r].whole /\ writers[w].open =>
         readers[r].slot # writers[w].slot

Intact ==
  /\ Sound(image, created) /\ Sound(file.image, created)
  /\ \A w \in Writers : WriterAt(image, writers[w])
  /\ \A r \in Readers : ReaderAt(image, readers[r])
  /\ StreamsApart

(* A block that is linked to is linked itself, be it to the end. *)
NoLooseLinks(im) ==
  /\ \A s \in Slots : im.dir[s].start \in Blocks => im.link[im.dir[s].start] # NoBlock
  /\ \A b \in Blocks : im.link[b] \in Blocks => im.link[im.link[b]] # NoBlock

Writer == [open : BOOLEAN, slot : 0..NumSlots, id : 0..MaxCreates, ts : Blocks \cup {NoBlock},
           buf : {"empty", "some", "full"}, index : Nat]
Reader == [open : BOOLEAN, slot : 0..NumSlots, ts : Blocks \cup {NoBlock}, nextts : Links,
           unread : BOOLEAN, got : Seq(Part), eof : BOOLEAN, stale : BOOLEAN, whole : BOOLEAN]

ImageTypes ==
  /\ image \in Image /\ NoLooseLinks(image)
  /\ blocksfree \in Nat /\ blocksfree <= Cardinality(image.free)
FileTypes == file \in [whole : BOOLEAN, lost : BOOLEAN, image : Image] /\ NoLooseLinks(file.image)
WriterTypes ==
  /\ writers \in [Writers -> Writer]
  /\ \A w \in Writers : writers[w].open => writers[w].slot \in Slots /\ writers[w].index # 0
ReaderTypes ==
  /\ readers \in [Readers -> Reader]
  /\ \A r \in Readers : readers[r].open =>
       readers[r].slot \in Slots /\ readers[r].ts \in Blocks /\ readers[r].nextts # NoBlock
OtherTypes ==
  /\ modified \in BOOLEAN /\ outcome \in {"running", "ended"}
  /\ created \in 0..MaxCreates /\ loads \in 0..MaxLoads /\ torn \in BOOLEAN

Types == ImageTypes /\ FileTypes /\ WriterTypes /\ ReaderTypes /\ OtherTypes

FilesInv == Types /\ UnmodifiedIsSaved /\ (~torn => Intact)

-----------------------------------------------------------------------------
(* Files and their blocks. *)

LEMMA FileAtParts ==
  ASSUME NEW im \in Image, NEW s \in Slots, NEW c, FileAt(im, s, c), NEW i \in 1..Len(c)
  PROVE  /\ c[i] \in Blocks /\ c[i] \notin im.free
         /\ im.data[c[i]].file = im.dir[s].id /\ im.data[c[i]].index = i
<1>1. c \in Seq(Blocks) /\ c[i] \notin im.free
  BY DEF FileAt
<1>2. im.data[c[i]] = [file |-> im.dir[s].id, index |-> i]
  BY DEF FileAt
<1> QED BY <1>1, <1>2

LEMMA FileAtApart ==
  ASSUME NEW im \in Image, NEW s \in Slots, NEW c, FileAt(im, s, c)
  PROVE  Apart(c) /\ Len(c) \in Nat /\ Len(c) <= Cardinality(Blocks)
<1>1. c \in Seq(Blocks)
  BY DEF FileAt
<1>2. Apart(c)
  <2> SUFFICES ASSUME NEW i \in 1..Len(c), NEW j \in 1..Len(c), c[i] = c[j] PROVE i = j
    BY DEF Apart
  <2>1. im.data[c[i]].index = i /\ im.data[c[j]].index = j
    BY FileAtParts
  <2> QED BY <2>1
<1> QED BY <1>1, <1>2, ApartIsShort

LEMMA FileAtFound ==
  ASSUME NEW im \in Image, NEW s \in Slots, NEW c, FileAt(im, s, c)
  PROVE  BlocksOf(im, s) = c
<1>1. CASE c = <<>>
  <2>1. im.dir[s].start = NoBlock /\ NoBlock \in Links /\ NoBlock \notin Blocks
    BY <1>1, FilesAssumption DEF FileAt, Links
  <2> QED BY <2>1, <1>1, ChainType DEF BlocksOf
<1>2. CASE c # <<>>
  <2>1. c \in Seq(Blocks) /\ LinkedUp(im, c) /\ im.dir[s].start = c[1]
    BY <1>2 DEF FileAt
  <2> QED BY <2>1, <1>2, FileAtApart, ChainFound DEF BlocksOf
<1> QED BY <1>1, <1>2

(* A change of an image that touches neither the blocks of a file nor its  *)
(* first block, size and number leaves it the file it was.                 *)
LEMMA FileAtStays ==
  ASSUME NEW im \in Image, NEW jm \in Image, NEW s \in Slots,
         FileAt(im, s, BlocksOf(im, s)),
         jm.dir[s].start = im.dir[s].start, jm.dir[s].size = im.dir[s].size,
         jm.dir[s].id = im.dir[s].id,
         \A i \in 1..Len(BlocksOf(im, s)) :
           LET b == BlocksOf(im, s)[i]
           IN b \notin jm.free /\ jm.link[b] = im.link[b] /\ jm.data[b] = im.data[b]
  PROVE  BlocksOf(jm, s) = BlocksOf(im, s) /\ FileAt(jm, s, BlocksOf(jm, s))
<1> DEFINE c == BlocksOf(im, s)
<1> HIDE DEF c
<1>1. c \in Seq(Blocks) /\ FileAt(im, s, c)
  BY DEF c, FileAt
<1>2. \A i \in 1..Len(c) : c[i] \notin jm.free /\ jm.link[c[i]] = im.link[c[i]] /\ jm.data[c[i]] = im.data[c[i]]
  BY DEF c
<1>3. LinkedUp(jm, c)
  BY <1>1, <1>2 DEF FileAt, LinkedUp
<1>4. FileAt(jm, s, c)
  BY <1>1, <1>2, <1>3 DEF FileAt
<1>5. BlocksOf(jm, s) = c
  BY <1>4, FileAtFound
<1> QED BY <1>4, <1>5 DEF c

(* No block is in two files. *)
LEMMA FilesApart ==
  ASSUME NEW im \in Image, NEW n, Sound(im, n),
         NEW s \in Files(im), NEW t \in Files(im), s # t,
         NEW i \in 1..Len(BlocksOf(im, s)), NEW j \in 1..Len(BlocksOf(im, t))
  PROVE  BlocksOf(im, s)[i] # BlocksOf(im, t)[j]
<1>1. FileAt(im, s, BlocksOf(im, s)) /\ FileAt(im, t, BlocksOf(im, t)) /\ s \in Slots /\ t \in Slots
  BY DEF Sound, Files
<1>2. im.data[BlocksOf(im, s)[i]].file = im.dir[s].id
  BY <1>1, FileAtParts
<1>3. im.data[BlocksOf(im, t)[j]].file = im.dir[t].id
  BY <1>1, FileAtParts
<1> QED BY <1>2, <1>3 DEF Sound

LEMMA BlanksAreSound ==
  /\ Blank \in Image /\ NoLooseLinks(Blank) /\ Files(Blank) = {}
  /\ Blank.free = Blocks
  /\ \A n : Sound(Blank, n)
<1>1. Junk \in Part
  BY FilesAssumption DEF Junk, Part
<1>2. Vacant("-") \in Entry
  BY FilesAssumption DEF Vacant, Entry
<1>3. Blank \in Image
  BY <1>1, <1>2 DEF Blank, Image
<1>4. Files(Blank) = {}
  BY DEF Files, Blank, Vacant
<1>5. NoLooseLinks(Blank)
  BY FilesAssumption DEF NoLooseLinks, Blank, Vacant
<1> QED BY <1>3, <1>4, <1>5 DEF Sound, Blank

-----------------------------------------------------------------------------
(* The changes of the image. *)

(* im is the image with a block b added to the file that writer wr writes. *)
IsLinked(im, wr, b) ==
  /\ im \in Image
  /\ im.free = image.free \ {b}
  /\ im.data = [image.data EXCEPT ![b] = [file |-> wr.id, index |-> wr.index]]
  /\ \A a \in Blocks :
       im.link[a] = IF a = b THEN EndMark ELSE IF a = wr.ts THEN b ELSE image.link[a]
  /\ \A s \in Slots \ {wr.slot} : im.dir[s] = image.dir[s]
  /\ im.dir[wr.slot] = [image.dir[wr.slot] EXCEPT !.size = @ + 1,
                                                  !.start = IF wr.ts = NoBlock THEN b ELSE @]

LEMMA LinkedIs ==
  ASSUME Types, NEW w \in Writers, writers[w].open, NEW b \in image.free
  PROVE  IsLinked(LinkedAndEnded(w, b), writers[w], b)
<1> DEFINE wr == writers[w]
           im == LinkedAndEnded(w, b)
           part == [file |-> wr.id, index |-> wr.index]
           entry == [image.dir[wr.slot] EXCEPT !.size = @ + 1,
                                               !.start = IF wr.ts = NoBlock THEN b ELSE @]
<1>1. /\ wr.slot \in Slots /\ wr.ts \in Blocks \cup {NoBlock}
      /\ wr.id \in 0..MaxCreates /\ wr.index \in Nat
  BY DEF Types, WriterTypes, Writer
<1>2. /\ image.link \in [Blocks -> Blocks \cup {NoBlock, EndMark}]
      /\ image.data \in [Blocks -> Part] /\ image.dir \in [Slots -> Entry]
      /\ image.free \subseteq Blocks /\ b \in Blocks
      /\ image = [link |-> image.link, data |-> image.data, free |-> image.free, dir |-> image.dir]
  BY DEF Types, ImageTypes, Image
<1>3. part \in Part
  BY <1>1 DEF Part
<1>4. entry \in Entry
  <2> DEFINE e == image.dir[wr.slot]
  <2>1. e \in Entry
    BY <1>1, <1>2
  <2>2. e.size + 1 \in Nat /\ (IF wr.ts = NoBlock THEN b ELSE e.start) \in Blocks \cup {NoBlock}
    BY <2>1, <1>2 DEF Entry
  <2> HIDE DEF e
  <2>3. [e EXCEPT !.size = @ + 1, !.start = IF wr.ts = NoBlock THEN b ELSE @] \in Entry
    BY <2>1, <2>2 DEF Entry
  <2> QED BY <2>3 DEF e
<1> DEFINE link == IF wr.ts = NoBlock THEN image.link ELSE [image.link EXCEPT ![wr.ts] = b]
           start == IF wr.ts = NoBlock THEN b ELSE image.dir[wr.slot].start
           dir == [image.dir EXCEPT ![wr.slot] = [image.dir[wr.slot] EXCEPT !.start = start]]
           tied == IF wr.ts = NoBlock THEN [image EXCEPT !.dir[wr.slot].start = b]
                   ELSE [image EXCEPT !.link[wr.ts] = b]
<1>5. tied = [link |-> link, data |-> image.data, free |-> image.free, dir |-> dir]
  <2>1. image.dir[wr.slot] = [image.dir[wr.slot] EXCEPT !.start = image.dir[wr.slot].start]
    BY <1>1, <1>2 DEF Entry
  <2>2. image.dir = [image.dir EXCEPT ![wr.slot] = image.dir[wr.slot]]
    BY <1>2
  <2>3. CASE wr.ts = NoBlock
    BY <2>3, <1>2
  <2>4. CASE wr.ts # NoBlock
    <3>1. dir = image.dir
      BY <2>1, <2>2, <2>4
    <3> HIDE DEF dir
    <3> QED BY <3>1, <2>4, <1>2
  <2> QED BY <2>3, <2>4
<1>6. [dir EXCEPT ![wr.slot].size = @ + 1] = [image.dir EXCEPT ![wr.slot] = entry]
  BY <1>1, <1>2 DEF Entry
<1>7. im = [[tied EXCEPT !.dir[wr.slot].size = @ + 1, !.free = @ \ {b}, !.data[b] = part]
              EXCEPT !.link[b] = EndMark]
  BY DEF LinkedAndEnded, Linked
<1> HIDE DEF tied, dir, link, part, entry, im, wr
<1>8. im = [link |-> [link EXCEPT ![b] = EndMark], data |-> [image.data EXCEPT ![b] = part],
            free |-> image.free \ {b}, dir |-> [dir EXCEPT ![wr.slot].size = @ + 1]]
  BY <1>5, <1>7
<1>9. /\ im.link = [link EXCEPT ![b] = EndMark] /\ im.data = [image.data EXCEPT ![b] = part]
      /\ im.free = image.free \ {b} /\ im.dir = [image.dir EXCEPT ![wr.slot] = entry]
  BY <1>8, <1>6
<1>10. im.link \in [Blocks -> Blocks \cup {NoBlock, EndMark}]
  BY <1>9, <1>1, <1>2 DEF link
<1>11. im.data \in [Blocks -> Part]
  BY <1>9, <1>3, <1>2
<1>12. im.dir \in [Slots -> Entry]
  BY <1>9, <1>4, <1>2
<1>13. im \in Image
  BY <1>8, <1>9, <1>10, <1>11, <1>12, <1>2 DEF Image
<1>14. \A a \in Blocks :
         im.link[a] = IF a = b THEN EndMark ELSE IF a = wr.ts THEN b ELSE image.link[a]
  BY <1>9, <1>1, <1>2, FilesAssumption DEF link
<1>15. (\A s \in Slots \ {wr.slot} : im.dir[s] = image.dir[s]) /\ im.dir[wr.slot] = entry
  BY <1>9, <1>1, <1>2
<1> QED BY <1>13, <1>9, <1>14, <1>15 DEF IsLinked, part, entry, im, wr

LEMMA EntryIs ==
  ASSUME NEW im \in Image, NEW s \in Slots, NEW e \in Entry
  PROVE  LET jm == [im EXCEPT !.dir[s] = e]
         IN /\ jm \in Image
            /\ jm.link = im.link /\ jm.data = im.data /\ jm.free = im.free
            /\ jm.dir = [im.dir EXCEPT ![s] = e]
<1> DEFINE jm == [im EXCEPT !.dir[s] = e]
<1>1. /\ im.dir \in [Slots -> Entry]
      /\ im = [link |-> im.link, data |-> im.data, free |-> im.free, dir |-> im.dir]
  BY DEF Image
<1>2. jm = [link |-> im.link, data |-> im.data, free |-> im.free, dir |-> [im.dir EXCEPT ![s] = e]]
  BY <1>1
<1> HIDE DEF jm
<1>3. jm \in Image
  BY <1>1, <1>2 DEF Image
<1> QED BY <1>2, <1>3 DEF jm

LEMMA FreeIsFinite ==
  ASSUME NEW im \in Image
  PROVE  IsFiniteSet(im.free) /\ Cardinality(im.free) \in Nat
<1>1. im.free \subseteq Blocks
  BY DEF Image
<1>2. IsFiniteSet(im.free)
  BY <1>1, FilesAssumption, FS_Subset
<1> QED BY <1>2, FS_CardinalityType

-----------------------------------------------------------------------------
(* Types, and UnmodifiedIsSaved. *)

Saved == Types /\ UnmodifiedIsSaved

(* An entry with another name, or with its flag raised. *)
SameEntryData(e, f) ==
  /\ e.type = f.type /\ e.start = f.start /\ e.size = f.size /\ e.id = f.id
  /\ f.closed => e.closed

(* What is saved stays so when only names and flags change. *)
LEMMA StillSaved ==
  ASSUME UnmodifiedIsSaved, UNCHANGED <<file, outcome, modified>>,
         image'.link = image.link, image'.data = image.data, image'.free = image.free,
         \A t \in Slots : SameEntryData(image'.dir[t], image.dir[t])
  PROVE  UnmodifiedIsSaved'
<1> SUFFICES ASSUME Running, ~modified, file.whole, NEW t \in Slots
             PROVE  SameData(image'.dir[t], file.image.dir[t])
  BY DEF UnmodifiedIsSaved, Running
<1>1. SameData(image.dir[t], file.image.dir[t])
  BY DEF UnmodifiedIsSaved
<1>2. SameEntryData(image'.dir[t], image.dir[t])
  OBVIOUS
<1> QED BY <1>1, <1>2 DEF SameData, SameEntryData

LEMMA InitSaved == Init => Saved
<1> SUFFICES ASSUME Init PROVE Saved
  OBVIOUS
<1> USE DEF Init
<1>1. ImageTypes
  <2>1. Cardinality(Blocks) \in Nat
    BY FilesAssumption, FS_CardinalityType
  <2> QED BY <2>1, BlanksAreSound DEF ImageTypes
<1>2. FileTypes
  BY BlanksAreSound DEF FileTypes
<1>3. WriterTypes
  BY FilesAssumption DEF WriterTypes, Writer, NoWriter
<1>4. ReaderTypes
  <2>1. NoReader \in Reader
    <3>1. <<>> \in Seq(Part)
      OBVIOUS
    <3> QED BY <3>1, FilesAssumption DEF Reader, NoReader, Links
  <2> QED BY <2>1 DEF ReaderTypes, NoReader
<1>5. OtherTypes
  <2>1. created \in 0..MaxCreates /\ loads \in 0..MaxLoads
    BY FilesAssumption
  <2>2. modified \in BOOLEAN /\ outcome \in {"running", "ended"} /\ torn \in BOOLEAN
    OBVIOUS
  <2> QED BY <2>1, <2>2 DEF OtherTypes
<1>6. UnmodifiedIsSaved
  BY DEF UnmodifiedIsSaved, SameData
<1> QED BY <1>1, <1>2, <1>3, <1>4, <1>5, <1>6 DEF Saved, Types

LEMMA OpenWriteSaved ==
  ASSUME Saved, NEW w \in Writers, NEW n \in Names, OpenWrite(w, n)
  PROVE  Saved'
<1> DEFINE s == Min(EmptySlots)
<1>1. s \in Slots
  <2>1. EmptySlots \subseteq Slots /\ EmptySlots \subseteq Nat /\ EmptySlots # {}
    BY DEF EmptySlots, Slots, OpenWrite
  <2> QED BY <2>1, MinIsLeast
<1> HIDE DEF s
<1>2. created + 1 \in 0..MaxCreates
  BY FilesAssumption DEF OpenWrite, Saved, Types, OtherTypes
<1>3. NewEntry(n, created + 1) \in Entry
  BY <1>2 DEF NewEntry, Entry
<1>4. image' = [image EXCEPT !.dir[s] = NewEntry(n, created + 1)]
  BY DEF OpenWrite, s
<1>5. /\ image' \in Image /\ image'.link = image.link /\ image'.free = image.free
      /\ image'.dir = [image.dir EXCEPT ![s] = NewEntry(n, created + 1)]
      /\ image.dir \in [Slots -> Entry]
  <2>1. image \in Image
    BY DEF Saved, Types, ImageTypes
  <2> QED BY <2>1, <1>1, <1>3, <1>4, EntryIs DEF Image
<1>6. ImageTypes'
  <2>1. NoLooseLinks(image')
    <3>1. \A t \in Slots : image'.dir[t].start \in Blocks => image'.dir[t].start = image.dir[t].start
      BY <1>1, <1>5, FilesAssumption DEF NewEntry
    <3> QED BY <3>1, <1>5 DEF NoLooseLinks, Saved, Types, ImageTypes
  <2>2. UNCHANGED blocksfree
    BY DEF OpenWrite
  <2> QED BY <2>1, <2>2, <1>5 DEF Saved, Types, ImageTypes
<1>7. FileTypes'
  BY DEF OpenWrite, Saved, Types, FileTypes
<1>8. WriterTypes'
  <2> DEFINE wr == [NoWriter EXCEPT !.open = TRUE, !.slot = s, !.id = created + 1, !.index = 1]
  <2>1. wr \in Writer /\ wr.slot \in Slots /\ wr.index # 0
    <3>1. s \in 0..NumSlots /\ NoWriter \in Writer
      BY <1>1, FilesAssumption DEF Slots, NoWriter, Writer
    <3>2. \A x \in Writer :
            [x EXCEPT !.open = TRUE, !.slot = s, !.id = created + 1, !.index = 1] \in Writer
      BY <3>1, <1>2 DEF Writer
    <3>3. wr.slot = s /\ wr.index = 1
      BY DEF NoWriter
    <3>4. wr \in Writer
      BY <3>1, <3>2, Zenon
    <3> QED BY <3>3, <3>4, <1>1
  <2>2. writers' = [writers EXCEPT ![w] = wr]
    BY DEF OpenWrite, s
  <2> HIDE DEF wr
  <2> QED BY <2>1, <2>2 DEF Saved, Types, WriterTypes
<1>9. ReaderTypes'
  BY DEF OpenWrite, Saved, Types, ReaderTypes
<1>10. OtherTypes'
  BY <1>2 DEF OpenWrite, Saved, Types, OtherTypes
<1>11. UnmodifiedIsSaved'
  BY DEF OpenWrite, UnmodifiedIsSaved
<1> QED BY <1>6, <1>7, <1>8, <1>9, <1>10, <1>11 DEF Saved, Types

LEMMA LinkedSaves ==
  ASSUME Saved, NEW w \in Writers, writers[w].open, NEW b \in image.free, blocksfree # 0,
         NEW wr, wr = writers[w], NEW im, im = LinkedAndEnded(w, b)
  PROVE  /\ im \in Image /\ NoLooseLinks(im)
         /\ blocksfree - 1 \in Nat /\ blocksfree - 1 <= Cardinality(im.free)
<1>1. /\ im \in Image /\ im.free = image.free \ {b}
      /\ \A a \in Blocks :
           im.link[a] = IF a = b THEN EndMark ELSE IF a = wr.ts THEN b ELSE image.link[a]
      /\ \A s \in Slots \ {wr.slot} : im.dir[s] = image.dir[s]
      /\ im.dir[wr.slot] = [image.dir[wr.slot] EXCEPT !.size = @ + 1,
                                                      !.start = IF wr.ts = NoBlock THEN b ELSE @]
  <2>1. IsLinked(im, wr, b)
    BY LinkedIs DEF Saved
  <2> QED BY <2>1 DEF IsLinked
<1>2. image \in Image /\ b \in Blocks /\ wr.slot \in Slots /\ NoLooseLinks(image)
  BY DEF Saved, Types, ImageTypes, WriterTypes, Image
<1>3. blocksfree - 1 \in Nat /\ blocksfree - 1 <= Cardinality(im.free)
  <2>1. Cardinality(image.free \ {b}) = Cardinality(image.free) - 1
    BY <1>2, FreeIsFinite, FS_RemoveElement
  <2>2. Cardinality(image.free) \in Nat
    BY <1>2, FreeIsFinite
  <2> QED BY <2>1, <2>2, <1>1 DEF Saved, Types, ImageTypes
<1>4. \A a \in Blocks : im.link[a] = NoBlock => a # b /\ image.link[a] = NoBlock
  BY <1>1, <1>2, FilesAssumption
<1>5. ASSUME NEW s \in Slots, im.dir[s].start \in Blocks PROVE im.link[im.dir[s].start] # NoBlock
  <2>1. im.dir[s].start = b \/ im.dir[s].start = image.dir[s].start
    <3>1. image.dir[wr.slot] \in Entry
      BY <1>2 DEF Image
    <3>2. CASE s = wr.slot
      BY <3>1, <3>2, <1>1 DEF Entry
    <3>3. CASE s # wr.slot
      BY <3>3, <1>1
    <3> QED BY <3>2, <3>3
  <2> QED BY <2>1, <1>4, <1>5, <1>2 DEF NoLooseLinks
<1>6. ASSUME NEW a \in Blocks, im.link[a] \in Blocks PROVE im.link[im.link[a]] # NoBlock
  <2>1. im.link[a] = b \/ im.link[a] = image.link[a]
    BY <1>1, <1>6, FilesAssumption
  <2> QED BY <2>1, <1>4, <1>6, <1>2 DEF NoLooseLinks
<1> QED BY <1>1, <1>3, <1>5, <1>6 DEF NoLooseLinks

LEMMA FillSaved ==
  ASSUME Saved, NEW w \in Writers, Fill(w)
  PROVE  Saved'
<1>1. /\ writers \in [Writers -> Writer] /\ writers[w].open
      /\ \E b \in {"some", "full"} : writers' = [writers EXCEPT ![w].buf = b]
      /\ UNCHANGED <<image, blocksfree, modified, file, readers, outcome, created, loads, torn>>
  BY DEF Fill, Saved, Types, WriterTypes
<1>2. WriterTypes'
  <2>1. PICK b \in {"some", "full"} : writers' = [writers EXCEPT ![w].buf = b]
    BY <1>1
  <2>2. [writers[w] EXCEPT !.buf = b] \in Writer
    BY <1>1 DEF Writer
  <2>3. writers' \in [Writers -> Writer]
    BY <1>1, <2>1, <2>2
  <2>4. \A v \in Writers : /\ writers'[v].open = writers[v].open /\ writers'[v].slot = writers[v].slot
                           /\ writers'[v].index = writers[v].index
    BY <1>1, <2>1 DEF Writer
  <2> QED BY <2>3, <2>4 DEF Saved, Types, WriterTypes
<1>3. ImageTypes' /\ FileTypes' /\ ReaderTypes' /\ OtherTypes'
  BY <1>1 DEF Saved, Types, ImageTypes, FileTypes, ReaderTypes, OtherTypes
<1>4. UnmodifiedIsSaved'
  BY <1>1 DEF Saved, UnmodifiedIsSaved, Running
<1> QED BY <1>2, <1>3, <1>4 DEF Saved, Types

LEMMA WriteFullSaved ==
  ASSUME Saved, NEW w \in Writers, WriteFull(w)
  PROVE  Saved'
<1>1. PICK b \in image.free :
        /\ image' = LinkedAndEnded(w, b)
        /\ writers' = [writers EXCEPT ![w].ts = b, ![w].buf = "empty", ![w].index = @ + 1]
  BY DEF WriteFull
<1>2. /\ blocksfree # 0 /\ blocksfree' = blocksfree - 1 /\ modified' = TRUE /\ writers[w].open
      /\ UNCHANGED <<file, readers, outcome, created, loads, torn>>
  BY DEF WriteFull
<1>3. ImageTypes'
  <2>1. /\ image' \in Image /\ NoLooseLinks(image')
        /\ blocksfree - 1 \in Nat /\ blocksfree - 1 <= Cardinality(image'.free)
    BY <1>1, <1>2, LinkedSaves
  <2> QED BY <2>1, <1>2 DEF ImageTypes
<1>4. WriterTypes'
  <2>1. /\ writers \in [Writers -> Writer] /\ writers[w].slot \in Slots /\ b \in Blocks
        /\ writers[w] \in Writer
    BY <1>2 DEF Saved, Types, WriterTypes, ImageTypes, Image
  <2> DEFINE wr == [writers[w] EXCEPT !.ts = b, !.buf = "empty", !.index = @ + 1]
  <2>2. wr \in Writer
    <3>1. ASSUME NEW x \in Writer
          PROVE  [x EXCEPT !.ts = b, !.buf = "empty", !.index = @ + 1] \in Writer
      <4>1. x.index + 1 \in Nat
        BY DEF Writer
      <4> QED BY <4>1, <2>1 DEF Writer
    <3> QED BY <3>1, <2>1, Zenon
  <2>3. wr.slot = writers[w].slot /\ wr.index # 0
    BY <2>1 DEF Writer
  <2>4. writers' = [writers EXCEPT ![w] = wr]
    BY <2>1, <1>1
  <2> HIDE DEF wr
  <2> QED BY <2>1, <2>2, <2>3, <2>4 DEF Saved, Types, WriterTypes
<1>5. FileTypes' /\ ReaderTypes' /\ OtherTypes'
  BY <1>2 DEF Saved, Types, FileTypes, ReaderTypes, OtherTypes
<1>6. UnmodifiedIsSaved'
  BY <1>2 DEF UnmodifiedIsSaved
<1> QED BY <1>3, <1>4, <1>5, <1>6 DEF Saved, Types

(* Raising the flag of an entry changes nothing else. *)
LEMMA FlaggedIs ==
  ASSUME NEW im \in Image, NEW s \in Slots
  PROVE  LET jm == [im EXCEPT !.dir[s].closed = TRUE]
         IN /\ jm \in Image /\ jm.link = im.link /\ jm.data = im.data /\ jm.free = im.free
            /\ \A t \in Slots :
                 /\ jm.dir[t].type = im.dir[t].type /\ jm.dir[t].name = im.dir[t].name
                 /\ jm.dir[t].start = im.dir[t].start /\ jm.dir[t].size = im.dir[t].size
                 /\ jm.dir[t].id = im.dir[t].id
                 /\ im.dir[t].closed => jm.dir[t].closed
<1> DEFINE e == [im.dir[s] EXCEPT !.closed = TRUE]
           jm == [im EXCEPT !.dir[s].closed = TRUE]
<1>1. im.dir \in [Slots -> Entry] /\ im.dir[s] \in Entry
  BY DEF Image
<1>2. e \in Entry
  BY <1>1 DEF Entry
<1>3. jm = [im EXCEPT !.dir[s] = e]
  OBVIOUS
<1>4. /\ e.type = im.dir[s].type /\ e.name = im.dir[s].name /\ e.start = im.dir[s].start
      /\ e.size = im.dir[s].size /\ e.id = im.dir[s].id /\ e.closed
  BY <1>1 DEF Entry
<1> HIDE DEF e, jm
<1>5. /\ jm \in Image /\ jm.link = im.link /\ jm.data = im.data /\ jm.free = im.free
      /\ jm.dir = [im.dir EXCEPT ![s] = e]
  BY <1>2, <1>3, EntryIs
<1> QED BY <1>1, <1>4, <1>5 DEF jm

LEMMA FlaggedSaves ==
  ASSUME NEW im \in Image, NEW s \in Slots, NoLooseLinks(im)
  PROVE  /\ [im EXCEPT !.dir[s].closed = TRUE] \in Image
         /\ NoLooseLinks([im EXCEPT !.dir[s].closed = TRUE])
         /\ [im EXCEPT !.dir[s].closed = TRUE].free = im.free
BY FlaggedIs DEF NoLooseLinks

LEMMA CloseWriteSaved ==
  ASSUME Saved, NEW w \in Writers, CloseWrite(w)
  PROVE  Saved'
<1> DEFINE slot == writers[w].slot
           flagged(im) == [im EXCEPT !.dir[slot].closed = TRUE]
<1>1. /\ writers[w].open
      /\ writers' = [writers EXCEPT ![w] = NoWriter]
      /\ UNCHANGED <<file, readers, outcome, created, loads, torn>>
  BY DEF CloseWrite
<1>2. /\ image \in Image /\ NoLooseLinks(image) /\ slot \in Slots
      /\ writers \in [Writers -> Writer]
  BY <1>1 DEF Saved, Types, ImageTypes, WriterTypes
<1>3. \/ image' = flagged(image) /\ UNCHANGED <<blocksfree, modified>>
      \/ /\ blocksfree # 0 /\ blocksfree' = blocksfree - 1 /\ modified' = TRUE
         /\ \E b \in image.free : image' = flagged(LinkedAndEnded(w, b))
      \/ UNCHANGED <<image, blocksfree, modified>>
  BY DEF CloseWrite
<1>4. WriterTypes'
  <2>1. NoWriter \in Writer /\ ~NoWriter.open
    BY FilesAssumption DEF NoWriter, Writer
  <2> QED BY <1>1, <1>2, <2>1 DEF Saved, Types, WriterTypes
<1>5. FileTypes' /\ ReaderTypes'
  BY <1>1 DEF Saved, Types, FileTypes, ReaderTypes
<1>6. CASE image' = flagged(image) /\ UNCHANGED <<blocksfree, modified>>
  <2>1. ImageTypes'
    <3>1. image' \in Image /\ NoLooseLinks(image') /\ image'.free = image.free
      BY <1>2, <1>6, FlaggedSaves
    <3> QED BY <3>1, <1>6 DEF ImageTypes, Saved, Types
  <2>2. UnmodifiedIsSaved'
    <3>1. /\ image'.link = image.link /\ image'.data = image.data /\ image'.free = image.free
          /\ \A t \in Slots : SameEntryData(image'.dir[t], image.dir[t])
      BY <1>2, <1>6, FlaggedIs DEF SameEntryData
    <3>2. UnmodifiedIsSaved /\ UNCHANGED <<file, outcome, modified>>
      BY <1>1, <1>6 DEF Saved
    <3> QED BY <3>1, <3>2, StillSaved DEF Running
  <2>3. OtherTypes'
    BY <1>1, <1>6 DEF OtherTypes, Saved, Types
  <2> QED BY <1>4, <1>5, <2>1, <2>2, <2>3 DEF Saved, Types
<1>7. CASE /\ blocksfree # 0 /\ blocksfree' = blocksfree - 1 /\ modified' = TRUE
           /\ \E b \in image.free : image' = flagged(LinkedAndEnded(w, b))
  <2>1. PICK b \in image.free : image' = flagged(LinkedAndEnded(w, b))
    BY <1>7
  <2>2. /\ LinkedAndEnded(w, b) \in Image /\ NoLooseLinks(LinkedAndEnded(w, b))
        /\ blocksfree - 1 \in Nat /\ blocksfree - 1 <= Cardinality(LinkedAndEnded(w, b).free)
    BY <1>1, <1>7, LinkedSaves
  <2>3. /\ image' \in Image /\ NoLooseLinks(image')
        /\ image'.free = LinkedAndEnded(w, b).free
    BY <2>1, <2>2, <1>2, FlaggedSaves
  <2>4. ImageTypes'
    BY <2>2, <2>3, <1>7 DEF ImageTypes
  <2>5. UnmodifiedIsSaved'
    BY <1>7 DEF UnmodifiedIsSaved
  <2>6. OtherTypes'
    BY <1>1, <1>7 DEF OtherTypes, Saved, Types
  <2> QED BY <1>4, <1>5, <2>4, <2>5, <2>6 DEF Saved, Types
<1>8. CASE UNCHANGED <<image, blocksfree, modified>>
  BY <1>1, <1>4, <1>5, <1>8 DEF Saved, Types, ImageTypes, OtherTypes, UnmodifiedIsSaved, Running
<1> QED BY <1>3, <1>6, <1>7, <1>8

LEMMA ChainBlocks ==
  ASSUME NEW im \in Image, NEW s \in Slots
  PROVE  /\ ToSet(BlocksOf(im, s)) \subseteq Blocks
         /\ im.dir[s].start \in Blocks => im.dir[s].start \in ToSet(BlocksOf(im, s))
         /\ im.dir[s].start \in Blocks \cup {NoBlock}
<1>1. im.dir[s].start \in Blocks \cup {NoBlock}
  BY DEF Image, Entry
<1>2. /\ BlocksOf(im, s) \in Seq(Blocks)
      /\ im.dir[s].start \in Blocks => im.dir[s].start \in ToSet(BlocksOf(im, s))
  BY <1>1, ChainType DEF BlocksOf, Links
<1>3. ToSet(BlocksOf(im, s)) \subseteq Blocks
  BY <1>2 DEF ToSet
<1> QED BY <1>1, <1>2, <1>3

(* What Delete does to the image. *)
DeletedIs(n) ==
  LET gone   == FilesNamed(n)
      blocks == UNION {ToSet(BlocksOf(image, s)) : s \in gone}
  IN /\ image' \in Image /\ gone \subseteq Slots
     /\ image'.link = image.link /\ image'.data = image.data
     /\ image'.free = image.free \cup blocks
     /\ \A s \in Slots \ gone : image'.dir[s] = image.dir[s]
     /\ \A s \in gone : image'.dir[s] = Vacant(n)
     /\ blocks \subseteq Blocks
     /\ modified' = (modified \/ blocks # {})
     /\ torn' = (torn \/ \E s \in gone : HasWriter(s))
     /\ readers' = [r \in Readers |->
          [readers[r] EXCEPT !.stale = @ \/ (readers[r].open /\ readers[r].slot \in gone)]]

LEMMA DeleteIs ==
  ASSUME image \in Image, NEW n \in Names, Delete(n)
  PROVE  DeletedIs(n)
<1> DEFINE gone   == FilesNamed(n)
           blocks == UNION {ToSet(BlocksOf(image, s)) : s \in gone}
<1>1. gone \subseteq Slots
  BY DEF FilesNamed, Files
<1>2. blocks \subseteq Blocks
  BY <1>1, ChainBlocks
<1>3. image = [link |-> image.link, data |-> image.data, free |-> image.free, dir |-> image.dir]
      /\ image.dir \in [Slots -> Entry] /\ image.free \subseteq Blocks
      /\ image.link \in [Blocks -> Blocks \cup {NoBlock, EndMark}] /\ image.data \in [Blocks -> Part]
  BY DEF Image
<1>4. Vacant(n) \in Entry
  BY FilesAssumption DEF Vacant, Entry
<1>5. /\ image' = [image EXCEPT
             !.dir = [s \in Slots |-> IF s \in gone THEN Vacant(n) ELSE @[s]],
             !.free = @ \cup blocks]
      /\ modified' = (modified \/ blocks # {})
      /\ torn' = (torn \/ \E s \in gone : HasWriter(s))
      /\ readers' = [r \in Readers |->
           [readers[r] EXCEPT !.stale = @ \/ (readers[r].open /\ readers[r].slot \in gone)]]
  BY DEF Delete, BlocksOf
<1> HIDE DEF gone, blocks
<1>6. image' = [link |-> image.link, data |-> image.data, free |-> image.free \cup blocks,
                dir |-> [s \in Slots |-> IF s \in gone THEN Vacant(n) ELSE image.dir[s]]]
  BY <1>3, <1>5
<1>7. [s \in Slots |-> IF s \in gone THEN Vacant(n) ELSE image.dir[s]] \in [Slots -> Entry]
  BY <1>3, <1>4
<1>8. image' \in Image
  BY <1>2, <1>3, <1>6, <1>7 DEF Image
<1>9. /\ image'.link = image.link /\ image'.data = image.data /\ image'.free = image.free \cup blocks
      /\ \A s \in Slots \ gone : image'.dir[s] = image.dir[s]
      /\ \A s \in gone : image'.dir[s] = Vacant(n)
  BY <1>1, <1>6
<1> QED BY <1>1, <1>2, <1>5, <1>8, <1>9 DEF DeletedIs, gone, blocks

LEMMA DeleteSaved ==
  ASSUME Saved, NEW n \in Names, Delete(n)
  PROVE  Saved'
<1> DEFINE gone   == FilesNamed(n)
           blocks == UNION {ToSet(BlocksOf(image, s)) : s \in gone}
<1>1. /\ image \in Image /\ NoLooseLinks(image) /\ readers \in [Readers -> Reader]
      /\ blocksfree \in Nat /\ blocksfree <= Cardinality(image.free)
  BY DEF Saved, Types, ImageTypes, ReaderTypes
<1>2. UNCHANGED <<blocksfree, file, writers, outcome, created, loads>>
  BY DEF Delete
<1>3. /\ image' \in Image /\ gone \subseteq Slots
      /\ image'.link = image.link /\ image'.data = image.data
      /\ image'.free = image.free \cup blocks
      /\ \A s \in Slots \ gone : image'.dir[s] = image.dir[s]
      /\ \A s \in gone : image'.dir[s] = Vacant(n)
      /\ modified' = (modified \/ blocks # {})
      /\ torn' = (torn \/ \E s \in gone : HasWriter(s))
      /\ readers' = [r \in Readers |->
           [readers[r] EXCEPT !.stale = @ \/ (readers[r].open /\ readers[r].slot \in gone)]]
  BY <1>1, DeleteIs DEF DeletedIs
<1>4. \A s \in gone : image'.dir[s].start = NoBlock
  BY <1>3 DEF Vacant
<1>5. ImageTypes'
  <2>1. NoLooseLinks(image')
    BY <1>1, <1>3, <1>4, FilesAssumption DEF NoLooseLinks
  <2>2. Cardinality(image.free) <= Cardinality(image'.free)
    <3>1. image.free \subseteq image'.free
      BY <1>3
    <3> QED BY <3>1, <1>3, FreeIsFinite, FS_Subset
  <2>3. Cardinality(image.free) \in Nat /\ Cardinality(image'.free) \in Nat
    BY <1>1, <1>3, FreeIsFinite
  <2> QED BY <1>1, <1>2, <1>3, <2>1, <2>2, <2>3 DEF ImageTypes
<1>6. FileTypes' /\ WriterTypes'
  BY <1>2 DEF Saved, Types, FileTypes, WriterTypes
<1>7. ReaderTypes'
  <2>1. ASSUME NEW r \in Readers
        PROVE  /\ readers'[r] \in Reader /\ readers'[r].open = readers[r].open
               /\ readers'[r].slot = readers[r].slot /\ readers'[r].ts = readers[r].ts
               /\ readers'[r].nextts = readers[r].nextts
    <3> DEFINE b == readers[r].stale \/ (readers[r].open /\ readers[r].slot \in gone)
    <3>1. readers[r] \in Reader /\ readers'[r] = [readers[r] EXCEPT !.stale = b]
      BY <1>1, <1>3
    <3>2. b \in BOOLEAN
      OBVIOUS
    <3> HIDE DEF b
    <3> QED BY <3>1, <3>2 DEF Reader
  <2>2. readers' \in [Readers -> Reader]
    BY <1>3, <2>1
  <2> QED BY <2>1, <2>2 DEF Saved, Types, ReaderTypes
<1>8. OtherTypes'
  <2>1. modified' \in BOOLEAN /\ torn' \in BOOLEAN
    <3> HIDE DEF gone, blocks
    <3> QED BY <1>3
  <2> QED BY <2>1, <1>2 DEF Saved, Types, OtherTypes
<1>9. UnmodifiedIsSaved'
  <2>0. CASE modified'
    BY <2>0 DEF UnmodifiedIsSaved
  <2>1. ASSUME ~modified' PROVE ~modified /\ blocks = {}
    <3> HIDE DEF blocks, gone
    <3> QED BY <1>3, <2>1
  <2>2. ASSUME ~modified', Running, file.whole, NEW s \in Slots
        PROVE  SameData(image'.dir[s], file.image.dir[s])
    <3>1. SameData(image.dir[s], file.image.dir[s])
      BY <2>1, <2>2 DEF UnmodifiedIsSaved, Saved
    <3>2. CASE s \in gone
      <4>1. ToSet(BlocksOf(image, s)) = {}
        BY <2>1, <2>2, <3>2
      <4>2. image.dir[s].start = NoBlock
        BY <4>1, <3>2, <1>1, <1>3, ChainBlocks
      <4>3. image'.dir[s].type = "del" /\ image'.dir[s].start = NoBlock
        BY <1>3, <3>2 DEF Vacant
      <4> QED BY <3>1, <4>2, <4>3 DEF SameData
    <3>3. CASE s \notin gone
      BY <1>3, <3>1, <3>3
    <3> QED BY <3>2, <3>3
  <2>3. ASSUME ~modified' PROVE image'.free = image.free
    <3> HIDE DEF blocks, gone
    <3> QED BY <1>3, <2>1, <2>3
  <2>4. CASE ~modified'
    <3> HIDE DEF blocks, gone
    <3>1. ~modified /\ image'.free = image.free /\ (Running' <=> Running)
      BY <1>2, <2>1, <2>3, <2>4 DEF Running
    <3>2. UnmodifiedIsSaved
      BY DEF Saved
    <3> QED BY <1>2, <1>3, <2>2, <2>4, <3>1, <3>2 DEF UnmodifiedIsSaved
  <2> QED BY <2>0, <2>4
<1> QED BY <1>5, <1>6, <1>7, <1>8, <1>9 DEF Saved, Types

(* What Rename does to the image. *)
RenamedIs(n, new) ==
  LET s == Min(FilesNamed(n))
  IN /\ s \in FilesNamed(n) /\ s \in Slots
     /\ image' \in Image /\ image'.link = image.link /\ image'.data = image.data
     /\ image'.free = image.free
     /\ \A t \in Slots :
          /\ image'.dir[t].type = image.dir[t].type /\ image'.dir[t].id = image.dir[t].id
          /\ image'.dir[t].start = image.dir[t].start /\ image'.dir[t].size = image.dir[t].size
          /\ image'.dir[t].name = IF t = s THEN new ELSE image.dir[t].name
          /\ image'.dir[t].closed = image.dir[t].closed

LEMMA RenameIs ==
  ASSUME image \in Image, NEW n \in Names, NEW new \in Names, Rename(n, new)
  PROVE  RenamedIs(n, new)
<1> DEFINE s == Min(FilesNamed(n))
           e == [image.dir[s] EXCEPT !.name = new]
<1>1. s \in FilesNamed(n) /\ s \in Slots
  <2>1. FilesNamed(n) # {} /\ FilesNamed(n) \subseteq Slots /\ FilesNamed(n) \subseteq Nat
    BY DEF Rename, FilesNamed, Files, Slots
  <2> QED BY <2>1, MinIsLeast
<1>2. image' = [image EXCEPT !.dir[s].name = new]
  BY DEF Rename
<1> HIDE DEF s
<1>3. image.dir \in [Slots -> Entry] /\ image.dir[s] \in Entry
  BY <1>1 DEF Image
<1>4. e \in Entry
  BY <1>3 DEF Entry
<1>5. image' = [image EXCEPT !.dir[s] = e]
  BY <1>2
<1>6. /\ e.type = image.dir[s].type /\ e.name = new /\ e.start = image.dir[s].start
      /\ e.size = image.dir[s].size /\ e.id = image.dir[s].id
      /\ e.closed = image.dir[s].closed
  BY <1>3 DEF Entry
<1> HIDE DEF e
<1>7. /\ image' \in Image /\ image'.link = image.link /\ image'.data = image.data
      /\ image'.free = image.free /\ image'.dir = [image.dir EXCEPT ![s] = e]
  BY <1>1, <1>4, <1>5, EntryIs
<1> QED BY <1>1, <1>3, <1>6, <1>7 DEF RenamedIs, s

LEMMA RenameSaved ==
  ASSUME Saved, NEW n \in Names, NEW new \in Names, Rename(n, new)
  PROVE  Saved'
<1>1. image \in Image /\ NoLooseLinks(image)
  BY DEF Saved, Types, ImageTypes
<1>2. UNCHANGED <<blocksfree, modified, file, writers, readers, outcome, created, loads, torn>>
  BY DEF Rename
<1>3. /\ image' \in Image /\ image'.link = image.link /\ image'.data = image.data
      /\ image'.free = image.free
      /\ \A t \in Slots : SameEntryData(image'.dir[t], image.dir[t])
  BY <1>1, RenameIs DEF RenamedIs, SameEntryData
<1>4. ImageTypes'
  BY <1>1, <1>2, <1>3 DEF Saved, Types, ImageTypes, NoLooseLinks, SameEntryData
<1>5. FileTypes' /\ WriterTypes' /\ ReaderTypes' /\ OtherTypes'
  BY <1>2 DEF Saved, Types, FileTypes, WriterTypes, ReaderTypes, OtherTypes
<1>6. UnmodifiedIsSaved'
  BY <1>2, <1>3, StillSaved DEF Saved
<1> QED BY <1>4, <1>5, <1>6 DEF Saved, Types

(* What only touches the readers keeps all but their types. *)
LEMMA ReadingSaved ==
  ASSUME Saved, ReaderTypes',
         UNCHANGED <<image, blocksfree, modified, file, writers, outcome, created, loads, torn>>
  PROVE  Saved'
<1>1. ImageTypes' /\ FileTypes' /\ WriterTypes' /\ OtherTypes'
  BY DEF Saved, Types, ImageTypes, FileTypes, WriterTypes, OtherTypes
<1>2. UnmodifiedIsSaved'
  BY DEF Saved, UnmodifiedIsSaved, Running
<1> QED BY <1>1, <1>2 DEF Saved, Types

LEMMA OpenReadSaved ==
  ASSUME Saved, NEW r \in Readers, NEW n \in Names, OpenRead(r, n)
  PROVE  Saved'
<1> DEFINE s == Min(FilesNamed(n))
           b == image.dir[s].start
           whole == ~HasWriter(s)
           rd == [NoReader EXCEPT !.open = TRUE, !.slot = s, !.ts = b, !.nextts = image.link[b],
                                  !.unread = TRUE, !.whole = whole]
<1>1. s \in Slots
  <2>1. FilesNamed(n) # {} /\ FilesNamed(n) \subseteq Slots /\ FilesNamed(n) \subseteq Nat
    <3>1. FilesNamed(n) # {}
      BY Zenon DEF OpenRead
    <3>2. FilesNamed(n) \subseteq Slots
      BY Zenon DEF FilesNamed, Files
    <3>3. Slots \subseteq Nat
      BY DEF Slots
    <3> QED BY <3>1, <3>2, <3>3, Zenon
  <2> QED BY <2>1, MinIsLeast
<1>2. b # NoBlock /\ readers' = [readers EXCEPT ![r] = rd]
  BY DEF OpenRead
<1> HIDE DEF s
<1>3. image \in Image /\ NoLooseLinks(image) /\ readers \in [Readers -> Reader]
  BY DEF Saved, Types, ImageTypes, ReaderTypes
<1>4. b \in Blocks /\ image.link[b] \in Blocks \cup {EndMark} /\ image.link[b] # NoBlock
  <2>1. b \in Blocks
    BY <1>1, <1>2, <1>3 DEF Image, Entry
  <2> QED BY <2>1, <1>1, <1>3, FilesAssumption DEF NoLooseLinks, Image
<1>5. rd \in Reader
  <2>1. NoReader \in Reader
    <3>1. <<>> \in Seq(Part)
      OBVIOUS
    <3> QED BY <3>1, FilesAssumption DEF Reader, NoReader, Links
  <2>2. s \in 0..NumSlots /\ whole \in BOOLEAN
    BY <1>1 DEF Slots, HasWriter
  <2> HIDE DEF b, whole
  <2>3. ASSUME NEW x \in Reader
        PROVE  [x EXCEPT !.open = TRUE, !.slot = s, !.ts = b, !.nextts = image.link[b],
                         !.unread = TRUE, !.whole = whole] \in Reader
    BY <1>4, <2>2 DEF Reader, Links
  <2> QED BY <2>1, <2>3, Zenon
<1>6. rd.slot = s /\ rd.ts = b /\ rd.nextts = image.link[b]
  BY DEF NoReader
<1> HIDE DEF rd
<1>7. ReaderTypes'
  BY <1>1, <1>2, <1>3, <1>4, <1>5, <1>6 DEF Saved, Types, ReaderTypes
<1> QED BY <1>7, ReadingSaved DEF OpenRead

(* The three cases of Read. *)
ReadIs(r) ==
  LET rd == readers[r]
      b  == image.link[rd.ts]
  IN /\ rd.open /\ ~rd.eof
     /\ UNCHANGED <<image, blocksfree, modified, file, writers, outcome, created, loads, torn>>
     /\ \E new \in Reader :
          /\ readers' = [readers EXCEPT ![r] = new]
          /\ new.open /\ new.slot = rd.slot /\ new.stale = rd.stale /\ new.whole = rd.whole
          /\ ~new.unread
          /\ \/ /\ rd.unread /\ new.ts = rd.ts /\ new.nextts = rd.nextts /\ ~new.eof
                /\ new.got = Append(rd.got, image.data[rd.ts])
             \/ /\ ~rd.unread /\ (rd.nextts \notin Blocks \/ b \notin Blocks)
                /\ new.ts = rd.ts /\ new.nextts = rd.nextts /\ new.eof /\ new.got = rd.got
             \/ /\ ~rd.unread /\ rd.nextts \in Blocks /\ b \in Blocks
                /\ new.ts = b /\ new.nextts = image.link[b] /\ ~new.eof
                /\ new.got = Append(rd.got, image.data[b])

LEMMA ReadIsSo ==
  ASSUME Types, NEW r \in Readers, Read(r)
  PROVE  ReadIs(r)
<1> DEFINE rd == readers[r]
           b  == image.link[rd.ts]
<1>1. /\ rd.open /\ ~rd.eof
      /\ UNCHANGED <<image, blocksfree, modified, file, writers, outcome, created, loads, torn>>
  BY DEF Read
<1>2. /\ readers \in [Readers -> Reader] /\ rd \in Reader /\ rd.ts \in Blocks
      /\ image.link \in [Blocks -> Blocks \cup {NoBlock, EndMark}]
      /\ image.data \in [Blocks -> Part]
  BY <1>1 DEF Types, ReaderTypes, ImageTypes, Image
<1>3. \A p \in Part : Append(rd.got, p) \in Seq(Part)
  BY <1>2 DEF Reader
<1>4. rd.eof = FALSE
  BY <1>1, <1>2 DEF Reader
<1>5. CASE rd.unread /\ readers' = [readers EXCEPT ![r].unread = FALSE,
                                                  ![r].got = Append(@, image.data[rd.ts])]
  <2> DEFINE new == [rd EXCEPT !.unread = FALSE, !.got = Append(@, image.data[rd.ts])]
  <2>1. readers' = [readers EXCEPT ![r] = new]
    BY <1>2, <1>5
  <2>2. /\ new \in Reader /\ new.open = rd.open /\ new.slot = rd.slot /\ new.stale = rd.stale
        /\ new.whole = rd.whole /\ new.unread = FALSE /\ new.ts = rd.ts /\ new.nextts = rd.nextts
        /\ new.eof = rd.eof /\ new.got = Append(rd.got, image.data[rd.ts])
    <3>1. Append(rd.got, image.data[rd.ts]) \in Seq(Part)
      BY <1>2, <1>3
    <3> QED BY <3>1, <1>2 DEF Reader
  <2> HIDE DEF new
  <2> QED BY <1>1, <1>5, <2>1, <2>2 DEF ReadIs
<1>6. CASE /\ ~rd.unread /\ (rd.nextts \notin Blocks \/ b \notin Blocks)
           /\ readers' = [readers EXCEPT ![r].eof = TRUE]
  <2> DEFINE new == [rd EXCEPT !.eof = TRUE]
  <2>1. readers' = [readers EXCEPT ![r] = new]
    BY <1>2, <1>6
  <2>2. /\ new \in Reader /\ new.open = rd.open /\ new.slot = rd.slot /\ new.stale = rd.stale
        /\ new.whole = rd.whole /\ new.unread = rd.unread /\ new.ts = rd.ts
        /\ new.nextts = rd.nextts /\ new.eof = TRUE /\ new.got = rd.got
    BY <1>2 DEF Reader
  <2> HIDE DEF new
  <2> QED BY <1>1, <1>6, <2>1, <2>2 DEF ReadIs
<1>7. CASE /\ ~rd.unread /\ rd.nextts \in Blocks /\ b \in Blocks
           /\ readers' = [readers EXCEPT ![r].ts = b, ![r].nextts = image.link[b],
                                         ![r].got = Append(@, image.data[b])]
  <2> DEFINE new == [rd EXCEPT !.ts = b, !.nextts = image.link[b],
                               !.got = Append(@, image.data[b])]
  <2>1. readers' = [readers EXCEPT ![r] = new]
    BY <1>2, <1>7
  <2>2. /\ new \in Reader /\ new.open = rd.open /\ new.slot = rd.slot /\ new.stale = rd.stale
        /\ new.whole = rd.whole /\ new.unread = rd.unread /\ new.ts = b
        /\ new.nextts = image.link[b] /\ new.eof = rd.eof
        /\ new.got = Append(rd.got, image.data[b])
    <3>1. b \in Blocks /\ image.link[b] \in Links /\ image.data[b] \in Part
      BY <1>2, <1>7 DEF Links
    <3>2. Append(rd.got, image.data[b]) \in Seq(Part)
      BY <3>1, <1>3
    <3> HIDE DEF b
    <3> QED BY <3>1, <3>2, <1>2 DEF Reader
  <2> HIDE DEF new
  <2> QED BY <1>1, <1>4, <1>7, <2>1, <2>2 DEF ReadIs
<1> QED BY <1>5, <1>6, <1>7 DEF Read

LEMMA ReadSaved ==
  ASSUME Saved, NEW r \in Readers, Read(r)
  PROVE  Saved'
<1> DEFINE rd == readers[r]
           b  == image.link[rd.ts]
<1>1. Types /\ ReadIs(r)
  BY ReadIsSo DEF Saved
<1>2. /\ UNCHANGED <<image, blocksfree, modified, file, writers, outcome, created, loads, torn>>
      /\ \E new \in Reader :
          /\ readers' = [readers EXCEPT ![r] = new] /\ new.slot = rd.slot
          /\ \/ new.ts = rd.ts /\ new.nextts = rd.nextts
             \/ b \in Blocks /\ new.ts = b /\ new.nextts = image.link[b]
      /\ rd.open
  BY <1>1 DEF ReadIs
<1>3. rd.slot \in Slots /\ rd.ts \in Blocks /\ rd.nextts # NoBlock /\ readers \in [Readers -> Reader]
  BY <1>1, <1>2 DEF Types, ReaderTypes
<1>4. b \in Blocks => image.link[b] # NoBlock
  BY <1>1, <1>3 DEF Types, ImageTypes, NoLooseLinks
<1>5. ReaderTypes'
  BY <1>1, <1>2, <1>3, <1>4 DEF Types, ReaderTypes
<1> QED BY <1>2, <1>5, ReadingSaved

LEMMA CloseReadSaved ==
  ASSUME Saved, NEW r \in Readers, CloseRead(r)
  PROVE  Saved'
<1>1. NoReader \in Reader /\ ~NoReader.open
  <2>1. <<>> \in Seq(Part)
    OBVIOUS
  <2> QED BY <2>1, FilesAssumption DEF Reader, NoReader, Links
<1>2. ReaderTypes'
  BY <1>1 DEF CloseRead, Saved, Types, ReaderTypes
<1> QED BY <1>2, ReadingSaved DEF CloseRead

LEMMA CutShortIs ==
  ASSUME NEW lost \in BOOLEAN, file' = CutShort(lost)
  PROVE  FileTypes' /\ ~file'.whole /\ file'.lost = lost
<1>1. file' = [whole |-> FALSE, lost |-> lost, image |-> Blank]
  BY DEF CutShort
<1>2. Blank \in Image /\ NoLooseLinks(Blank)
  BY BlanksAreSound
<1>3. file' \in [whole : BOOLEAN, lost : BOOLEAN, image : Image]
  BY <1>1, <1>2
<1>4. file'.whole = FALSE /\ file'.lost = lost /\ file'.image = Blank
  BY <1>1
<1>5. NoLooseLinks(file'.image)
  BY <1>2, <1>4
<1> QED BY <1>3, <1>4, <1>5 DEF FileTypes

LEMMA SyncedSaves ==
  ASSUME Types, UnmodifiedIsSaved, Synced, UNCHANGED image
  PROVE  /\ FileTypes' /\ modified' \in BOOLEAN
         /\ (Running' => Running) => UnmodifiedIsSaved'
<1>0. modified \in BOOLEAN
  BY DEF Types, OtherTypes
<1>1. CASE file' = Rewritten /\ modified' = FALSE
  <2>1. FileTypes'
    BY <1>1 DEF Types, ImageTypes, FileTypes, Rewritten
  <2>2. UnmodifiedIsSaved'
    BY <1>1 DEF UnmodifiedIsSaved, Rewritten, SameData
  <2> QED BY <1>1, <2>1, <2>2
<1>2. CASE file' = CutShort(~modified) /\ UNCHANGED modified
  <2>1. FileTypes' /\ ~file'.whole /\ file'.lost = ~modified
    BY <1>2, CutShortIs
  <2>2. UnmodifiedIsSaved'
    BY <1>0, <1>2, <2>1 DEF UnmodifiedIsSaved
  <2> QED BY <1>0, <1>2, <2>1, <2>2
<1>3. CASE file' = CutShort(TRUE) /\ modified' = FALSE
  <2>1. FileTypes' /\ ~file'.whole /\ file'.lost = TRUE
    BY <1>3, CutShortIs
  <2>2. UnmodifiedIsSaved'
    BY <2>1 DEF UnmodifiedIsSaved
  <2> QED BY <1>3, <2>1, <2>2
<1>4. CASE UNCHANGED <<file, modified>>
  BY <1>4 DEF Types, OtherTypes, FileTypes, UnmodifiedIsSaved, Running
<1> QED BY <1>1, <1>2, <1>3, <1>4 DEF Synced

LEMMA NoStreamsTypes ==
  ASSUME NoStreams
  PROVE  WriterTypes' /\ ReaderTypes'
<1>1. NoWriter \in Writer /\ ~NoWriter.open
  BY FilesAssumption DEF NoWriter, Writer
<1>2. NoReader \in Reader /\ ~NoReader.open
  <2>1. <<>> \in Seq(Part)
    OBVIOUS
  <2> QED BY <2>1, FilesAssumption DEF Reader, NoReader, Links
<1> QED BY <1>1, <1>2 DEF NoStreams, WriterTypes, ReaderTypes

LEMMA SyncSaved ==
  ASSUME Saved, Sync
  PROVE  Saved'
<1>1. Synced /\ UNCHANGED <<image, blocksfree, writers, readers, outcome, created, loads, torn>>
  BY DEF Sync
<1>2. /\ FileTypes' /\ modified' \in BOOLEAN
      /\ (Running' => Running) => UnmodifiedIsSaved'
  BY <1>1, SyncedSaves DEF Saved
<1>3. UnmodifiedIsSaved'
  BY <1>1, <1>2 DEF Running
<1>4. ImageTypes' /\ WriterTypes' /\ ReaderTypes' /\ OtherTypes'
  BY <1>1, <1>2 DEF Saved, Types, ImageTypes, WriterTypes, ReaderTypes, OtherTypes
<1> QED BY <1>2, <1>3, <1>4 DEF Saved, Types

LEMMA EndSaved ==
  ASSUME Saved, FreeImage \/ Crash
  PROVE  Saved'
<1>1. /\ NoStreams /\ outcome' = "ended" /\ UNCHANGED <<image, blocksfree, created, loads, torn>>
      /\ Synced \/ UNCHANGED <<file, modified>>
  BY DEF FreeImage, Crash
<1>2. WriterTypes' /\ ReaderTypes'
  BY <1>1, NoStreamsTypes
<1>3. FileTypes' /\ modified' \in BOOLEAN
  <2>1. CASE Synced
    BY <2>1, <1>1, SyncedSaves DEF Saved
  <2>2. CASE UNCHANGED <<file, modified>>
    BY <2>2 DEF Saved, Types, FileTypes, OtherTypes
  <2> QED BY <1>1, <2>1, <2>2
<1>4. ImageTypes' /\ OtherTypes'
  BY <1>1, <1>3 DEF Saved, Types, ImageTypes, OtherTypes
<1>5. UnmodifiedIsSaved'
  BY <1>1 DEF UnmodifiedIsSaved, Running
<1> QED BY <1>2, <1>3, <1>4, <1>5 DEF Saved, Types

LEMMA LoadSaved ==
  ASSUME Saved, Load
  PROVE  Saved'
<1>1. /\ image' = file.image /\ blocksfree' = Cardinality(file.image.free) /\ modified' = FALSE
      /\ NoStreams /\ outcome' = "running" /\ loads' = loads + 1 /\ loads < MaxLoads
      /\ UNCHANGED <<file, created, torn>>
  BY DEF Load
<1>2. WriterTypes' /\ ReaderTypes'
  BY <1>1, NoStreamsTypes
<1>3. file.image \in Image /\ NoLooseLinks(file.image) /\ FileTypes
  BY DEF Saved, Types, FileTypes
<1>4. FileTypes'
  BY <1>1, <1>3 DEF FileTypes
<1>5. ImageTypes'
  BY <1>1, <1>3, FreeIsFinite DEF ImageTypes
<1>6. OtherTypes'
  <2>1. loads' \in 0..MaxLoads
    BY <1>1, FilesAssumption DEF Saved, Types, OtherTypes
  <2> QED BY <1>1, <2>1 DEF Saved, Types, OtherTypes
<1>7. UnmodifiedIsSaved'
  BY <1>1 DEF UnmodifiedIsSaved, SameData, Load
<1> QED BY <1>2, <1>4, <1>5, <1>6, <1>7 DEF Saved, Types

LEMMA StutterSaved ==
  ASSUME Saved, UNCHANGED vars
  PROVE  Saved'
<1>1. ReaderTypes'
  BY DEF Saved, Types, ReaderTypes, vars
<1> QED BY <1>1, ReadingSaved DEF vars

LEMMA NextSaved ==
  ASSUME Saved, [Next]_vars
  PROVE  Saved'
<1>1. CASE \E w \in Writers : Fill(w) \/ WriteFull(w) \/ CloseWrite(w) \/ \E n \in Names : OpenWrite(w, n)
  BY <1>1, FillSaved, WriteFullSaved, CloseWriteSaved, OpenWriteSaved
<1>2. CASE \E n \in Names : Delete(n) \/ \E new \in Names : Rename(n, new)
  BY <1>2, DeleteSaved, RenameSaved
<1>3. CASE \E r \in Readers : Read(r) \/ CloseRead(r) \/ \E n \in Names : OpenRead(r, n)
  BY <1>3, ReadSaved, CloseReadSaved, OpenReadSaved
<1>4. CASE Sync \/ FreeImage \/ Crash \/ Load
  BY <1>4, SyncSaved, EndSaved, LoadSaved
<1>5. CASE UNCHANGED vars
  BY <1>5, StutterSaved
<1> QED BY <1>1, <1>2, <1>3, <1>4, <1>5 DEF Next

LEMMA SavedTypes ==
  ASSUME Types
  PROVE  TypeOK
<1>1. /\ image \in Image
      /\ file.whole \in BOOLEAN /\ file.lost \in BOOLEAN /\ file.image \in Image
  BY DEF Types, ImageTypes, FileTypes
<1>2. blocksfree \in 0..Cardinality(image.free)
  BY <1>1, FreeIsFinite DEF Types, ImageTypes
<1>3. ASSUME NEW w \in Writers, writers[w].open
      PROVE  /\ writers[w].slot \in Slots /\ writers[w].ts \in Blocks \cup {NoBlock}
             /\ writers[w].index \in Nat \ {0}
  BY <1>3 DEF Types, WriterTypes, Writer
<1>4. ASSUME NEW r \in Readers, readers[r].open
      PROVE  /\ readers[r].slot \in Slots /\ readers[r].ts \in Blocks
             /\ readers[r].nextts \in Blocks \cup {EndMark} /\ readers[r].got \in Seq(Part)
  BY <1>4 DEF Types, ReaderTypes, Reader, Links
<1>5. OtherTypes
  BY DEF Types
<1> QED BY <1>1, <1>2, <1>3, <1>4, <1>5 DEF TypeOK, OtherTypes

(* DiskFiles!TypeOK: blocksfree never exceeds the free blocks of the map,  *)
(* a reader is always at a block whose link is set, and everything else    *)
(* has its type, whatever is deleted while it is open (alloc_next_ts,      *)
(* di_read).                                                               *)
THEOREM FilesTypeCorrect == Spec => []TypeOK
<1>1. Init => Saved
  BY InitSaved
<1>2. Saved /\ [Next]_vars => Saved'
  BY NextSaved
<1>3. Saved => TypeOK
  BY SavedTypes DEF Saved
<1> QED BY <1>1, <1>2, <1>3, PTL DEF Spec

(* DiskFiles!UnmodifiedIsSaved: when modified is 0, so that di_free_image  *)
(* saves nothing, the image is on the host but for names, flags and empty  *)
(* files that were deleted; or the file was cut short by an fclose that    *)
(* failed unseen, or by a di_sync of an image that was not modified.       *)
THEOREM NothingUnsaved == Spec => []UnmodifiedIsSaved
<1>1. Init => Saved
  BY InitSaved
<1>2. Saved /\ [Next]_vars => Saved'
  BY NextSaved
<1>3. Saved => UnmodifiedIsSaved
  BY DEF Saved
<1> QED BY <1>1, <1>2, <1>3, PTL DEF Spec

-----------------------------------------------------------------------------
(* Files that a step keeps. *)

Kept(im, jm, s) ==
  /\ s \in Files(im) /\ s \in Files(jm)
  /\ BlocksOf(jm, s) = BlocksOf(im, s)
  /\ FileAt(im, s, BlocksOf(im, s)) /\ FileAt(jm, s, BlocksOf(im, s))
  /\ jm.dir[s].id = im.dir[s].id

LEMMA KeptLinks ==
  ASSUME NEW im, NEW jm, NEW s, Kept(im, jm, s), NEW i \in 1..Len(BlocksOf(im, s))
  PROVE  jm.link[BlocksOf(im, s)[i]] = im.link[BlocksOf(im, s)[i]]
BY DEF Kept, FileAt, LinkedUp

LEMMA WriterAtStays ==
  ASSUME NEW im, NEW jm, NEW wr, WriterAt(im, wr), wr.open => Kept(im, jm, wr.slot)
  PROVE  WriterAt(jm, wr)
BY DEF WriterAt, Kept

LEMMA ReaderAtStays ==
  ASSUME NEW im, NEW jm, NEW rd, ReaderAt(im, rd),
         rd.open /\ ~rd.stale => Kept(im, jm, rd.slot)
  PROVE  ReaderAt(jm, rd)
<1> SUFFICES ASSUME rd.open, ~rd.stale PROVE ReaderAt(jm, rd)
  BY DEF ReaderAt
<1> DEFINE c == BlocksOf(im, rd.slot)
           k == Len(rd.got) + IF rd.unread THEN 1 ELSE 0
<1>1. /\ Kept(im, jm, rd.slot) /\ BlocksOf(jm, rd.slot) = c /\ rd.slot \in Files(jm)
      /\ jm.dir[rd.slot].id = im.dir[rd.slot].id
  BY DEF Kept
<1>2. /\ k \in 1..Len(c) /\ rd.ts = c[k]
      /\ \A i \in 1..Len(rd.got) : rd.got[i] = [file |-> im.dir[rd.slot].id, index |-> i]
      /\ rd.whole => rd.nextts = im.link[rd.ts]
      /\ rd.whole /\ rd.eof => Len(rd.got) = Len(c)
  BY DEF ReaderAt
<1>3. jm.link[rd.ts] = im.link[rd.ts]
  <2>1. \A i \in 1..Len(c) : jm.link[c[i]] = im.link[c[i]]
    BY <1>1, KeptLinks
  <2> HIDE DEF c, k
  <2> QED BY <2>1, <1>2
<1> HIDE DEF c, k
<1> QED BY <1>1, <1>2, <1>3 DEF ReaderAt, c, k

LEMMA SoundLater ==
  ASSUME NEW im, NEW n \in Nat, NEW m \in Nat, n <= m, Sound(im, n)
  PROVE  Sound(im, m)
BY DEF Sound

(* A change of flags and names keeps all files. *)
LEMMA SameBlocksKept ==
  ASSUME NEW im \in Image, NEW jm \in Image, NEW n, Sound(im, n),
         jm.link = im.link, jm.data = im.data, jm.free = im.free,
         \A s \in Slots : /\ jm.dir[s].type = im.dir[s].type /\ jm.dir[s].id = im.dir[s].id
                          /\ jm.dir[s].start = im.dir[s].start /\ jm.dir[s].size = im.dir[s].size
  PROVE  Files(jm) = Files(im) /\ \A s \in Files(im) : Kept(im, jm, s)
<1>1. Files(jm) = Files(im)
  BY DEF Files
<1>2. ASSUME NEW s \in Files(im) PROVE Kept(im, jm, s)
  <2>1. s \in Slots /\ FileAt(im, s, BlocksOf(im, s))
    BY DEF Files, Sound
  <2>2. \A i \in 1..Len(BlocksOf(im, s)) : BlocksOf(im, s)[i] \notin im.free
    BY <2>1, FileAtParts
  <2>3. BlocksOf(jm, s) = BlocksOf(im, s) /\ FileAt(jm, s, BlocksOf(jm, s))
    BY <2>1, <2>2, FileAtStays
  <2> QED BY <1>1, <2>1, <2>3 DEF Kept
<1> QED BY <1>1, <1>2

LEMMA SameNamesSound ==
  ASSUME NEW im, NEW jm, NEW n, Sound(im, n), Files(jm) = Files(im),
         \A s \in Files(im) : Kept(im, jm, s) /\ jm.dir[s].name = im.dir[s].name
  PROVE  Sound(jm, n)
BY DEF Sound, Kept

(* A block more for one file: the others are kept, and it has that one.    *)
Extended(im, wr, b) ==
  /\ Files(im) = Files(image)
  /\ \A t \in Files(image) : t # wr.slot => Kept(image, im, t)
  /\ BlocksOf(im, wr.slot) = Append(BlocksOf(image, wr.slot), b)
  /\ FileAt(im, wr.slot, BlocksOf(im, wr.slot))
  /\ \A t \in Files(image) : im.dir[t].name = image.dir[t].name /\ im.dir[t].id = image.dir[t].id

LEMMA LinkedExtends ==
  ASSUME Types, Sound(image, created), NEW w \in Writers, writers[w].open, WriterAt(image, writers[w]),
         NEW b \in image.free
  PROVE  /\ Extended(LinkedAndEnded(w, b), writers[w], b)
         /\ Sound(LinkedAndEnded(w, b), created)
         /\ LinkedAndEnded(w, b) \in Image
<1> DEFINE im == LinkedAndEnded(w, b)
           wr == writers[w]
           s == wr.slot
           c == BlocksOf(image, s)
<1>1. IsLinked(im, wr, b)
  BY LinkedIs
<1> HIDE DEF im
<1>2. /\ image \in Image /\ s \in Slots /\ s \in Files(image) /\ b \in Blocks
      /\ wr.ts \in Blocks \cup {NoBlock}
  BY DEF Types, ImageTypes, WriterTypes, Writer, WriterAt, Image, Files
<1>3. FileAt(image, s, c) /\ c \in Seq(Blocks) /\ Len(c) = image.dir[s].size /\ Len(c) \in Nat
  <2>1. FileAt(image, s, c)
    BY <1>2 DEF Sound
  <2>2. c \in Seq(Blocks) /\ Len(c) = image.dir[s].size
    BY <2>1 DEF FileAt
  <2> HIDE DEF c
  <2> QED BY <2>1, <2>2
<1>4. /\ wr.id = image.dir[s].id /\ wr.index = Len(c) + 1
      /\ wr.ts = IF c = <<>> THEN NoBlock ELSE c[Len(c)]
  BY DEF WriterAt
<1>5. /\ im \in Image /\ im.free = image.free \ {b}
      /\ im.data = [image.data EXCEPT ![b] = [file |-> wr.id, index |-> wr.index]]
      /\ \A a \in Blocks :
           im.link[a] = IF a = b THEN EndMark ELSE IF a = wr.ts THEN b ELSE image.link[a]
      /\ \A t \in Slots \ {s} : im.dir[t] = image.dir[t]
      /\ im.dir[s] = [image.dir[s] EXCEPT !.size = @ + 1,
                                          !.start = IF wr.ts = NoBlock THEN b ELSE @]
  BY <1>1 DEF IsLinked
<1> HIDE DEF wr, s, c
<1>6. /\ im.dir[s].type = image.dir[s].type /\ im.dir[s].name = image.dir[s].name
      /\ im.dir[s].id = image.dir[s].id /\ im.dir[s].size = image.dir[s].size + 1
      /\ im.dir[s].start = IF wr.ts = NoBlock THEN b ELSE image.dir[s].start
  <2>1. image.dir[s] \in Entry
    BY <1>2 DEF Image
  <2> QED BY <2>1, <1>5 DEF Entry
<1>7. Files(im) = Files(image)
  <2>1. \A t \in Slots : im.dir[t].type = image.dir[t].type
    BY <1>5, <1>6
  <2> QED BY <2>1 DEF Files
<1>8. \A t \in Files(image) : im.dir[t].name = image.dir[t].name /\ im.dir[t].id = image.dir[t].id
  BY <1>5, <1>6 DEF Files
<1>9. ASSUME NEW t \in Files(image), t # s PROVE Kept(image, im, t)
  <2>1. FileAt(image, t, BlocksOf(image, t)) /\ t \in Slots
    BY DEF Sound, Files
  <2>2. ASSUME NEW i \in 1..Len(BlocksOf(image, t))
        PROVE  LET a == BlocksOf(image, t)[i]
               IN a \notin im.free /\ im.link[a] = image.link[a] /\ im.data[a] = image.data[a]
    <3> DEFINE a == BlocksOf(image, t)[i]
    <3>1. a \in Blocks /\ a \notin image.free /\ a # b
      BY <2>1, <1>2, FileAtParts
    <3>2. a # wr.ts
      <4>1. CASE c = <<>>
        BY <3>1, <4>1, <1>4, FilesAssumption
      <4>2. CASE c # <<>>
        <5>1. Len(c) \in 1..Len(c)
          BY <4>2, <1>3, EmptySeq
        <5>2. a # c[Len(c)]
          BY <5>1, <1>2, <1>9, FilesApart DEF c
        <5> QED BY <5>2, <4>2, <1>4
      <4> QED BY <4>1, <4>2
    <3> QED BY <3>1, <3>2, <1>2, <1>5 DEF Image
  <2>3. im.dir[t] = image.dir[t]
    BY <1>5, <1>9, <2>1
  <2>4. BlocksOf(im, t) = BlocksOf(image, t) /\ FileAt(im, t, BlocksOf(im, t))
    BY <2>1, <2>2, <2>3, <1>2, <1>5, FileAtStays
  <2> QED BY <2>1, <2>3, <2>4, <1>7 DEF Kept
<1>10. FileAt(im, s, Append(c, b))
  <2> DEFINE d == Append(c, b)
  <2>1. /\ d \in Seq(Blocks) /\ Len(d) = Len(c) + 1 /\ d # <<>> /\ d[Len(c) + 1] = b
        /\ \A i \in 1..Len(c) : d[i] = c[i]
    BY <1>2, <1>3, AppendProperties
  <2> HIDE DEF d
  <2>2. \A i \in 1..Len(c) : /\ c[i] \in Blocks /\ c[i] \notin image.free /\ c[i] # b
                             /\ image.data[c[i]] = [file |-> image.dir[s].id, index |-> i]
    <3>1. \A i \in 1..Len(c) : c[i] \in Blocks /\ c[i] \notin image.free
      BY <1>2, <1>3, FileAtParts
    <3>2. \A i \in 1..Len(c) : image.data[c[i]] = [file |-> image.dir[s].id, index |-> i]
      BY <1>3 DEF FileAt
    <3> QED BY <3>1, <3>2
  <2>3. im.dir[s].start = d[1]
    <3>1. CASE c = <<>>
      <4>1. Len(c) = 0
        BY <3>1
      <4> QED BY <4>1, <3>1, <2>1, <1>4, <1>6
    <3>2. CASE c # <<>>
      <4>1. Len(c) \in Nat \ {0}
        BY <3>2, <1>3, EmptySeq
      <4>2. c[Len(c)] # NoBlock
        <5>1. Len(c) \in 1..Len(c)
          BY <4>1
        <5>2. c[Len(c)] \in Blocks
          BY <5>1, <2>2
        <5> QED BY <5>2, FilesAssumption
      <4>3. image.dir[s].start = c[1]
        BY <1>3, <3>2 DEF FileAt
      <4> QED BY <4>1, <4>2, <4>3, <3>2, <2>1, <1>4, <1>6
    <3> QED BY <3>1, <3>2
  <2>4. LinkedUp(im, d)
    <3> SUFFICES ASSUME NEW i \in 1..Len(d)
                 PROVE  im.link[d[i]] = IF i = Len(d) THEN EndMark ELSE d[i + 1]
      BY DEF LinkedUp
    <3>1. CASE i = Len(d)
      BY <3>1, <2>1, <1>2, <1>5
    <3>2. CASE i = Len(c)
      <4>1. i \in 1..Len(c) /\ Len(c) # 0 /\ i # Len(d)
        BY <3>2, <2>1, <1>3
      <4>2. c # <<>>
        BY <4>1, <1>3
      <4>3. d[i] = c[i] /\ c[i] \in Blocks /\ c[i] # b /\ c # <<>> /\ i # Len(d)
        BY <4>1, <4>2, <2>1, <2>2
      <4>4. c[i] = wr.ts /\ d[i + 1] = b
        BY <4>3, <3>2, <1>4, <2>1, <1>3
      <4> QED BY <4>3, <4>4, <1>5
    <3>3. CASE i < Len(c)
      <4>1. i \in 1..Len(c) /\ i + 1 \in 1..Len(c) /\ i # Len(d)
        BY <3>3, <2>1, <1>3
      <4>2. /\ i \in 1..Len(c) /\ i # Len(d) /\ d[i] = c[i] /\ d[i + 1] = c[i + 1]
            /\ c[i] \in Blocks /\ c[i] # b
        BY <4>1, <2>1, <2>2
      <4>3. image.link[c[i]] = c[i + 1]
        BY <4>2, <3>3, <1>3 DEF FileAt, LinkedUp
      <4>4. c[i] # wr.ts
        <5>1. Apart(c) /\ Len(c) \in 1..Len(c) /\ c # <<>>
          BY <4>2, <1>2, <1>3, FileAtApart
        <5> QED BY <5>1, <4>2, <3>3, <1>4 DEF Apart
      <4> QED BY <4>2, <4>3, <4>4, <1>5
    <3> QED BY <3>1, <3>2, <3>3, <2>1, <1>3
  <2>5. ASSUME NEW i \in 1..Len(d)
        PROVE  d[i] \notin im.free /\ im.data[d[i]] = [file |-> im.dir[s].id, index |-> i]
    <3>1. CASE i = Len(d)
      <4>1. image.data \in [Blocks -> Part]
        BY <1>2 DEF Image
      <4>2. im.data[b] = [file |-> wr.id, index |-> wr.index]
        BY <4>1, <1>2, <1>5
      <4> QED BY <3>1, <4>2, <2>1, <1>4, <1>5, <1>6
    <3>2. CASE i # Len(d)
      <4>1. i \in 1..Len(c) /\ d[i] = c[i]
        BY <3>2, <2>1, <1>3
      <4>2. image.data \in [Blocks -> Part]
        BY <1>2 DEF Image
      <4>3. im.data[c[i]] = image.data[c[i]]
        BY <4>1, <4>2, <2>2, <1>5
      <4> QED BY <4>1, <4>3, <2>2, <1>5, <1>6
    <3> QED BY <3>1, <3>2
  <2> QED BY <2>1, <2>3, <2>4, <2>5, <1>3, <1>6 DEF FileAt, d
<1>11. BlocksOf(im, s) = Append(c, b)
  <2>1. im \in Image /\ s \in Slots
    BY <1>2, <1>5
  <2> QED BY <1>10, <2>1, FileAtFound
<1>12. Sound(im, created)
  <2>1. \A t \in Files(im) : FileAt(im, t, BlocksOf(im, t))
    BY <1>7, <1>9, <1>10, <1>11 DEF Kept
  <2> QED BY <2>1, <1>7, <1>8 DEF Sound
<1>13. Extended(im, wr, b)
  BY <1>7, <1>8, <1>9, <1>10, <1>11 DEF Extended, s, c
<1> QED BY <1>5, <1>12, <1>13 DEF im, wr

-----------------------------------------------------------------------------
(* What a program finds in the files. *)

(* The first k parts of file id. *)
PartsOf(id, k) == [i \in 1..k |-> [file |-> id, index |-> i]]

NamesIn(im) == {im.dir[s].name : s \in Files(im)}

LEMMA ContentsAre ==
  ASSUME NEW im, NEW s, FileAt(im, s, BlocksOf(im, s))
  PROVE  Contents(im, s) = PartsOf(im.dir[s].id, Len(BlocksOf(im, s)))
<1> DEFINE c == BlocksOf(im, s)
<1>1. /\ c \in Seq(Blocks)
      /\ \A i \in 1..Len(c) : im.data[c[i]] = [file |-> im.dir[s].id, index |-> i]
  BY DEF FileAt
<1>2. Contents(im, s) = [i \in DOMAIN c |-> im.data[c[i]]]
  BY DEF Contents, BlocksOf
<1> HIDE DEF c
<1>3. DOMAIN c = 1..Len(c)
  BY <1>1
<1> QED BY <1>1, <1>2, <1>3 DEF PartsOf, c

(* The files of im are im's store. *)
Stores(im, store) ==
  /\ DOMAIN store = NamesIn(im) /\ store = [n \in DOMAIN store |-> store[n]]
  /\ \A s \in Files(im) :
       store[im.dir[s].name] = PartsOf(im.dir[s].id, Len(BlocksOf(im, s)))

LEMMA StoreIs ==
  ASSUME NEW im, NEW n, Sound(im, n)
  PROVE  Stores(im, StoreOf(im))
<1> DEFINE at(m) == CHOOSE s \in Files(im) : im.dir[s].name = m
<1>1. StoreOf(im) = [m \in NamesIn(im) |-> Contents(im, at(m))]
  BY DEF StoreOf, NamesIn
<1>2. ASSUME NEW s \in Files(im) PROVE at(im.dir[s].name) = s
  BY DEF Sound
<1>3. ASSUME NEW s \in Files(im)
      PROVE  StoreOf(im)[im.dir[s].name] = PartsOf(im.dir[s].id, Len(BlocksOf(im, s)))
  <2>1. im.dir[s].name \in NamesIn(im)
    BY DEF NamesIn
  <2>2. FileAt(im, s, BlocksOf(im, s))
    BY DEF Sound
  <2> HIDE DEF at
  <2>3. StoreOf(im)[im.dir[s].name] = Contents(im, s)
    BY <1>1, <1>2, <2>1
  <2> QED BY <2>2, <2>3, ContentsAre
<1> HIDE DEF at
<1> QED BY <1>1, <1>3 DEF Stores

LEMMA StoreUnique ==
  ASSUME NEW im, NEW f, NEW g, Stores(im, f), Stores(im, g)
  PROVE  f = g
<1>1. ASSUME NEW m \in NamesIn(im) PROVE f[m] = g[m]
  <2>1. PICK s \in Files(im) : im.dir[s].name = m
    BY DEF NamesIn
  <2> QED BY <2>1 DEF Stores
<1> QED BY <1>1 DEF Stores

(* Two images with the same files have the same store. *)
LEMMA SameStore ==
  ASSUME NEW im, NEW jm, NEW n, NEW m, Sound(im, n), Sound(jm, m), Files(jm) = Files(im),
         \A s \in Files(im) : Kept(im, jm, s) /\ jm.dir[s].name = im.dir[s].name
  PROVE  StoreOf(jm) = StoreOf(im)
<1>1. Stores(im, StoreOf(im)) /\ Stores(jm, StoreOf(jm))
  BY StoreIs
<1>2. NamesIn(jm) = NamesIn(im)
  BY DEF NamesIn
<1>3. Stores(im, StoreOf(jm))
  BY <1>1, <1>2 DEF Stores, Kept
<1> QED BY <1>1, <1>3, StoreUnique

LEMMA BlankStore == StoreOf(Blank) = <<>>
<1>1. Files(Blank) = {} /\ Sound(Blank, 0)
  BY BlanksAreSound
<1>2. Stores(Blank, StoreOf(Blank))
  BY <1>1, StoreIs
<1>3. NamesIn(Blank) = {}
  BY <1>1 DEF NamesIn
<1>4. DOMAIN <<>> = {} /\ <<>> = [n \in DOMAIN <<>> |-> <<>>[n]]
  OBVIOUS
<1>5. Stores(Blank, <<>>)
  BY <1>1, <1>3, <1>4 DEF Stores
<1> QED BY <1>2, <1>5, StoreUnique

LEMMA PartsAppend ==
  ASSUME NEW id, NEW k \in Nat
  PROVE  Append(PartsOf(id, k), [file |-> id, index |-> k + 1]) = PartsOf(id, k + 1)
<1> DEFINE S == {[file |-> id, index |-> i] : i \in Nat}
           new == [file |-> id, index |-> k + 1]
<1>1. ASSUME NEW j \in Nat
      PROVE  /\ PartsOf(id, j) \in Seq(S) /\ Len(PartsOf(id, j)) = j
             /\ \A i \in 1..j : PartsOf(id, j)[i] = [file |-> id, index |-> i]
  <2>1. PartsOf(id, j) \in [1..j -> S]
    BY DEF PartsOf
  <2> HIDE DEF S
  <2>2. PartsOf(id, j) \in Seq(S) /\ Len(PartsOf(id, j)) = j
    BY <2>1
  <2> QED BY <2>2 DEF PartsOf
<1>2. new \in S
  BY k + 1 \in Nat
<1> HIDE DEF S
<1> DEFINE p == PartsOf(id, k)
           q == PartsOf(id, k + 1)
<1>3. /\ p \in Seq(S) /\ Len(p) = k /\ \A i \in 1..k : p[i] = [file |-> id, index |-> i]
      /\ q \in Seq(S) /\ Len(q) = k + 1 /\ \A i \in 1..(k + 1) : q[i] = [file |-> id, index |-> i]
  BY <1>1, k + 1 \in Nat
<1> HIDE DEF p, q
<1>4. /\ Append(p, new) \in Seq(S) /\ Len(Append(p, new)) = k + 1 /\ Append(p, new)[k + 1] = new
      /\ \A i \in 1..k : Append(p, new)[i] = p[i]
  BY <1>2, <1>3, AppendProperties
<1>5. \A i \in 1..(k + 1) : Append(p, new)[i] = q[i]
  <2> SUFFICES ASSUME NEW i \in 1..(k + 1) PROVE Append(p, new)[i] = q[i]
    OBVIOUS
  <2>1. CASE i = k + 1
    BY <2>1, <1>3, <1>4
  <2>2. CASE i # k + 1
    <3>1. i \in 1..k
      BY <2>2
    <3> QED BY <3>1, <1>3, <1>4
  <2> QED BY <2>1, <2>2
<1>6. Append(p, new) = q
  BY <1>3, <1>4, <1>5, SeqEqual
<1> QED BY <1>6 DEF p, q

(* A block more is a part more. *)
ExtendedBy(store, new, name) ==
  /\ name \in Names /\ name \in DOMAIN store
  /\ \E part \in [file : 1..MaxCreates, index : 1..Cardinality(Blocks)] :
       new = [store EXCEPT ![name] = Append(@, part)]

LEMMA ExtendedStore ==
  ASSUME Types, Sound(image, created), NEW w \in Writers, writers[w].open,
         WriterAt(image, writers[w]), NEW b \in Blocks,
         NEW im \in Image, Extended(im, writers[w], b), Sound(im, created)
  PROVE  ExtendedBy(StoreOf(image), StoreOf(im), image.dir[writers[w].slot].name)
<1> DEFINE wr == writers[w]
           s == wr.slot
           c == BlocksOf(image, s)
           id == image.dir[s].id
           name == image.dir[s].name
           part == [file |-> id, index |-> Len(c) + 1]
           new == [StoreOf(image) EXCEPT ![name] = Append(@, part)]
<1>1. s \in Files(image) /\ s \in Slots
  BY DEF WriterAt, Files
<1>2. FileAt(image, s, c) /\ id \in 1..created /\ name \in Names
  BY <1>1 DEF Sound
<1>3. c \in Seq(Blocks) /\ Len(c) \in Nat
  <2>1. c \in Seq(Blocks)
    BY <1>2 DEF FileAt
  <2> HIDE DEF c
  <2> QED BY <2>1
<1>4. /\ Files(im) = Files(image) /\ BlocksOf(im, s) = Append(c, b)
      /\ FileAt(im, s, BlocksOf(im, s))
      /\ \A t \in Files(image) : t # s => Kept(image, im, t)
      /\ \A t \in Files(image) : im.dir[t].name = image.dir[t].name /\ im.dir[t].id = image.dir[t].id
  BY DEF Extended
<1> HIDE DEF c, s, wr
<1>5. Len(BlocksOf(im, s)) = Len(c) + 1 /\ Len(c) + 1 <= Cardinality(Blocks)
  <2>1. Len(BlocksOf(im, s)) = Len(c) + 1
    BY <1>3, <1>4, AppendProperties
  <2> QED BY <2>1, <1>1, <1>4, FileAtApart
<1>6. part \in [file : 1..MaxCreates, index : 1..Cardinality(Blocks)]
  <2>1. id \in 1..MaxCreates
    BY <1>2, FilesAssumption DEF Types, OtherTypes
  <2>2. Cardinality(Blocks) \in Nat
    BY FilesAssumption, FS_CardinalityType
  <2>3. Len(c) + 1 \in 1..Cardinality(Blocks)
    BY <2>2, <1>3, <1>5
  <2> HIDE DEF id
  <2> QED BY <2>1, <2>3
<1>7. Stores(image, StoreOf(image)) /\ Stores(im, StoreOf(im))
  BY StoreIs
<1>8. name \in DOMAIN StoreOf(image)
  BY <1>1, <1>7 DEF Stores, NamesIn
<1>9. NamesIn(im) = NamesIn(image)
  BY <1>4 DEF NamesIn
<1>10. Stores(im, new)
  <2>1. DOMAIN new = NamesIn(im) /\ new = [n \in DOMAIN new |-> new[n]]
    BY <1>7, <1>9 DEF Stores
  <2>2. ASSUME NEW t \in Files(im)
        PROVE  new[im.dir[t].name] = PartsOf(im.dir[t].id, Len(BlocksOf(im, t)))
    <3>1. t \in Files(image) /\ im.dir[t].name = image.dir[t].name /\ im.dir[t].id = image.dir[t].id
      BY <1>4
    <3>2. /\ StoreOf(image)[image.dir[t].name] = PartsOf(image.dir[t].id, Len(BlocksOf(image, t)))
          /\ image.dir[t].name \in DOMAIN StoreOf(image)
      BY <3>1, <1>7 DEF Stores, NamesIn
    <3>3. CASE t = s
      <4>1. new[name] = Append(StoreOf(image)[name], part)
        BY <1>8
      <4>2. StoreOf(image)[name] = PartsOf(id, Len(c))
        BY <3>2, <3>3 DEF c
      <4>3. Append(PartsOf(id, Len(c)), part) = PartsOf(id, Len(c) + 1)
        BY <1>3, PartsAppend
      <4> HIDE DEF new, part
      <4> QED BY <3>1, <3>3, <4>1, <4>2, <4>3, <1>5
    <3>4. CASE t # s
      <4>1. image.dir[t].name # name
        BY <3>1, <3>4, <1>1 DEF Sound
      <4>2. new[image.dir[t].name] = StoreOf(image)[image.dir[t].name]
        BY <3>2, <4>1
      <4>3. BlocksOf(im, t) = BlocksOf(image, t)
        BY <3>1, <3>4, <1>4 DEF Kept
      <4> HIDE DEF new
      <4> QED BY <3>1, <3>2, <4>2, <4>3
    <3> QED BY <3>3, <3>4
  <2> HIDE DEF new
  <2> QED BY <2>1, <2>2 DEF Stores
<1>11. StoreOf(im) = new
  <2> HIDE DEF new
  <2> QED BY <1>7, <1>10, StoreUnique
<1> HIDE DEF part, id
<1> QED BY <1>2, <1>6, <1>8, <1>11 DEF ExtendedBy, s, wr

-----------------------------------------------------------------------------
(* Each action keeps the files intact and does what FileStore allows. *)

(* The files of an image stay as they are in every respect. *)
LEMMA FlagKeeps ==
  ASSUME NEW im \in Image, NEW n, Sound(im, n), NEW s \in Slots,
         NEW jm, jm = [im EXCEPT !.dir[s].closed = TRUE]
  PROVE  /\ Sound(jm, n) /\ Files(jm) = Files(im) /\ StoreOf(jm) = StoreOf(im)
         /\ \A t \in Files(im) : Kept(im, jm, t)
<1>1. /\ jm \in Image /\ jm.link = im.link /\ jm.data = im.data /\ jm.free = im.free
      /\ \A t \in Slots :
           /\ jm.dir[t].type = im.dir[t].type /\ jm.dir[t].name = im.dir[t].name
           /\ jm.dir[t].start = im.dir[t].start /\ jm.dir[t].size = im.dir[t].size
           /\ jm.dir[t].id = im.dir[t].id
  BY FlaggedIs
<1>2. Files(jm) = Files(im) /\ \A t \in Files(im) : Kept(im, jm, t)
  BY <1>1, SameBlocksKept
<1>3. \A t \in Files(im) : Kept(im, jm, t) /\ jm.dir[t].name = im.dir[t].name
  BY <1>1, <1>2 DEF Files
<1>4. Sound(jm, n)
  BY <1>2, <1>3, SameNamesSound
<1>5. StoreOf(jm) = StoreOf(im)
  BY <1>2, <1>3, <1>4, SameStore
<1> QED BY <1>2, <1>4, <1>5

LEMMA WriterAtKept ==
  ASSUME NEW im, NEW jm, NEW wr, WriterAt(im, wr), \A t \in Files(im) : Kept(im, jm, t)
  PROVE  WriterAt(jm, wr)
<1>1. wr.open => wr.slot \in Files(im)
  BY DEF WriterAt
<1> QED BY <1>1, WriterAtStays

LEMMA ReaderAtKept ==
  ASSUME NEW im, NEW jm, NEW rd, ReaderAt(im, rd), \A t \in Files(im) : Kept(im, jm, t)
  PROVE  ReaderAt(jm, rd)
<1>1. rd.open /\ ~rd.stale => rd.slot \in Files(im)
  BY DEF ReaderAt
<1> QED BY <1>1, ReaderAtStays

LEMMA ReaderAtGrows ==
  ASSUME NEW im, NEW wr, NEW b \in Blocks, Extended(im, wr, b), NEW rd \in Reader,
         ReaderAt(image, rd), rd.open, ~rd.stale, rd.slot = wr.slot, ~rd.whole,
         BlocksOf(image, wr.slot) \in Seq(Blocks)
  PROVE  ReaderAt(im, rd)
<1> DEFINE c == BlocksOf(image, rd.slot)
           d == BlocksOf(im, rd.slot)
           k == Len(rd.got) + IF rd.unread THEN 1 ELSE 0
<1>1. /\ k \in 1..Len(c) /\ rd.ts = c[k] /\ rd.slot \in Files(image)
      /\ \A i \in 1..Len(rd.got) : rd.got[i] = [file |-> image.dir[rd.slot].id, index |-> i]
  BY DEF ReaderAt
<1>2. d = Append(c, b) /\ rd.slot \in Files(im) /\ im.dir[rd.slot].id = image.dir[rd.slot].id
  BY <1>1 DEF Extended
<1>3. c \in Seq(Blocks)
  OBVIOUS
<1> HIDE DEF c, d, k
<1>4. Len(c) \in Nat /\ Len(d) = Len(c) + 1 /\ \A i \in 1..Len(c) : d[i] = c[i]
  BY <1>2, <1>3, AppendProperties
<1>5. k \in 1..Len(d) /\ rd.ts = d[k]
  BY <1>1, <1>4
<1> QED BY <1>1, <1>2, <1>5 DEF ReaderAt, d, k

(* Writing a block disturbs no other stream. *)
LEMMA WritingKeeps ==
  ASSUME Types, Intact, NEW w \in Writers, writers[w].open, NEW b \in image.free,
         NEW im, im = LinkedAndEnded(w, b)
  PROVE  /\ im \in Image /\ Sound(im, created) /\ Extended(im, writers[w], b)
         /\ ExtendedBy(StoreOf(image), StoreOf(im), image.dir[writers[w].slot].name)
         /\ \A v \in Writers \ {w} : WriterAt(im, writers[v])
         /\ \A r \in Readers : ReaderAt(im, readers[r])
<1> DEFINE s == writers[w].slot
<1>1. /\ WriterAt(image, writers[w]) /\ Sound(image, created) /\ s \in Files(image)
      /\ image \in Image /\ b \in Blocks
  BY DEF Intact, WriterAt, Types, ImageTypes, Image
<1>2. im \in Image /\ Sound(im, created) /\ Extended(im, writers[w], b)
  BY <1>1, LinkedExtends
<1>3. ExtendedBy(StoreOf(image), StoreOf(im), image.dir[s].name)
  BY <1>1, <1>2, ExtendedStore
<1>4. \A t \in Files(image) : t # s => Kept(image, im, t)
  BY <1>2 DEF Extended
<1>5. ASSUME NEW v \in Writers, v # w PROVE WriterAt(im, writers[v])
  <2>1. WriterAt(image, writers[v])
    BY DEF Intact
  <2>2. writers[v].open => writers[v].slot \in Files(image) /\ writers[v].slot # s
    BY <2>1, <1>5 DEF WriterAt, Intact, StreamsApart
  <2> QED BY <2>1, <2>2, <1>4, WriterAtStays
<1>6. ASSUME NEW r \in Readers PROVE ReaderAt(im, readers[r])
  <2>1. ReaderAt(image, readers[r]) /\ readers[r] \in Reader
    BY DEF Intact, Types, ReaderTypes
  <2>2. CASE readers[r].open /\ ~readers[r].stale /\ readers[r].slot = s
    <3>1. ~readers[r].whole
      BY <2>2 DEF Intact, StreamsApart
    <3>2. BlocksOf(image, s) \in Seq(Blocks)
      BY <1>1 DEF Sound, FileAt
    <3> QED BY <2>1, <2>2, <3>1, <3>2, <1>1, <1>2, ReaderAtGrows
  <2>3. CASE readers[r].open /\ ~readers[r].stale => readers[r].slot # s
    <3>1. readers[r].open /\ ~readers[r].stale => readers[r].slot \in Files(image)
      BY <2>1 DEF ReaderAt
    <3> QED BY <2>1, <2>3, <3>1, <1>4, ReaderAtStays
  <2> QED BY <2>2, <2>3
<1> QED BY <1>2, <1>3, <1>5, <1>6

PromiseStep == [Promise!Next]_(Promise!vars)

LEMMA ExtendedIsPromised ==
  ASSUME NEW name, ExtendedBy(StoreOf(image), StoreOf(image'), name), UNCHANGED <<file, torn>>
  PROVE  PromiseStep
<1>1. Promise!Extend(name) /\ name \in Names
  BY DEF ExtendedBy, Promise!Extend
<1> QED BY <1>1 DEF PromiseStep, Promise!Next

LEMMA WriteFullIntact ==
  ASSUME Types, Intact, NEW w \in Writers, WriteFull(w)
  PROVE  Intact' /\ PromiseStep
<1>1. PICK b \in image.free :
        /\ image' = LinkedAndEnded(w, b)
        /\ writers' = [writers EXCEPT ![w].ts = b, ![w].buf = "empty", ![w].index = @ + 1]
  BY DEF WriteFull
<1>2. /\ writers[w].open
      /\ UNCHANGED <<file, readers, outcome, created, loads, torn>>
  BY DEF WriteFull
<1> DEFINE wr == writers[w]
           s == wr.slot
           c == BlocksOf(image, s)
<1>3. /\ image' \in Image /\ Sound(image', created) /\ Extended(image', wr, b)
      /\ ExtendedBy(StoreOf(image), StoreOf(image'), image.dir[s].name)
      /\ \A v \in Writers \ {w} : WriterAt(image', writers[v])
      /\ \A r \in Readers : ReaderAt(image', readers[r])
  BY <1>1, <1>2, WritingKeeps
<1>4. PromiseStep
  BY <1>2, <1>3, ExtendedIsPromised
<1>5. /\ writers \in [Writers -> Writer] /\ wr \in Writer
      /\ b \in Blocks
  BY DEF Types, WriterTypes, ImageTypes, Image
<1>6. /\ \A v \in Writers \ {w} : writers'[v] = writers[v]
      /\ writers'[w].open /\ writers'[w].slot = s /\ writers'[w].id = wr.id
      /\ writers'[w].ts = b /\ writers'[w].index = wr.index + 1
  BY <1>1, <1>2, <1>5 DEF Writer
<1>7. WriterAt(image', writers'[w])
  <2>1. /\ s \in Files(image) /\ wr.id = image.dir[s].id /\ wr.index = Len(c) + 1
        /\ FileAt(image, s, c)
    BY <1>2 DEF Intact, WriterAt, Sound
  <2>2. c \in Seq(Blocks)
    BY <2>1 DEF FileAt
  <2>3. /\ Files(image') = Files(image) /\ BlocksOf(image', s) = Append(c, b)
        /\ image'.dir[s].id = image.dir[s].id
    BY <1>3, <2>1 DEF Extended
  <2> HIDE DEF c
  <2>4. /\ Len(Append(c, b)) = Len(c) + 1 /\ Append(c, b) # <<>> /\ Append(c, b)[Len(c) + 1] = b
    BY <2>2, <1>5, AppendProperties
  <2> QED BY <2>1, <2>3, <2>4, <1>6 DEF WriterAt
<1>8. StreamsApart'
  BY <1>2, <1>6 DEF Intact, StreamsApart
<1>9. \A v \in Writers : WriterAt(image', writers'[v])
  BY <1>3, <1>6, <1>7
<1> QED BY <1>2, <1>3, <1>4, <1>8, <1>9 DEF Intact

LEMMA CloseWriteIntact ==
  ASSUME Types, Intact, NEW w \in Writers, CloseWrite(w)
  PROVE  Intact' /\ PromiseStep
<1> DEFINE s == writers[w].slot
           flagged(im) == [im EXCEPT !.dir[s].closed = TRUE]
<1>1. /\ writers[w].open
      /\ writers' = [writers EXCEPT ![w] = NoWriter]
      /\ UNCHANGED <<file, readers, outcome, created, loads, torn>>
  BY DEF CloseWrite
<1>2. \/ image' = flagged(image)
      \/ \E b \in image.free : image' = flagged(LinkedAndEnded(w, b))
      \/ UNCHANGED image
  BY DEF CloseWrite
<1>3. /\ image \in Image /\ s \in Slots /\ writers \in [Writers -> Writer]
      /\ Sound(image, created)
  BY <1>1 DEF Types, ImageTypes, WriterTypes, Intact
<1>4. ~writers'[w].open /\ \A v \in Writers \ {w} : writers'[v] = writers[v]
  BY <1>1, <1>3 DEF NoWriter
<1>5. StreamsApart'
  BY <1>1, <1>4 DEF Intact, StreamsApart
<1>6. ASSUME Sound(image', created), \A v \in Writers \ {w} : WriterAt(image', writers[v]),
             \A r \in Readers : ReaderAt(image', readers[r])
      PROVE  Intact'
  <2>1. \A v \in Writers : WriterAt(image', writers'[v])
    BY <1>4, <1>6 DEF WriterAt
  <2> QED BY <1>1, <1>5, <1>6, <2>1 DEF Intact
<1>7. CASE image' = flagged(image)
  <2>1. /\ Sound(image', created) /\ StoreOf(image') = StoreOf(image)
        /\ \A t \in Files(image) : Kept(image, image', t)
    BY <1>3, <1>7, FlagKeeps
  <2>2. Intact'
    BY <1>6, <2>1, WriterAtKept, ReaderAtKept DEF Intact
  <2>3. PromiseStep
    BY <1>1, <2>1 DEF PromiseStep, Promise!vars
  <2> QED BY <2>2, <2>3
<1>8. CASE \E b \in image.free : image' = flagged(LinkedAndEnded(w, b))
  <2>1. PICK b \in image.free : image' = flagged(LinkedAndEnded(w, b))
    BY <1>8
  <2> DEFINE im == LinkedAndEnded(w, b)
  <2>2. /\ im \in Image /\ Sound(im, created)
        /\ ExtendedBy(StoreOf(image), StoreOf(im), image.dir[s].name)
        /\ \A v \in Writers \ {w} : WriterAt(im, writers[v])
        /\ \A r \in Readers : ReaderAt(im, readers[r])
    BY <1>1, WritingKeeps
  <2>3. /\ Sound(image', created) /\ StoreOf(image') = StoreOf(im)
        /\ \A t \in Files(im) : Kept(im, image', t)
    BY <2>1, <2>2, <1>3, FlagKeeps
  <2> HIDE DEF im
  <2>4. Intact'
    BY <1>6, <2>2, <2>3, WriterAtKept, ReaderAtKept
  <2>5. PromiseStep
    BY <1>1, <2>2, <2>3, ExtendedIsPromised
  <2> QED BY <2>4, <2>5
<1>9. CASE UNCHANGED image
  <2>1. Intact'
    BY <1>6, <1>9 DEF Intact
  <2>2. PromiseStep
    BY <1>1, <1>9 DEF PromiseStep, Promise!vars
  <2> QED BY <2>1, <2>2
<1> QED BY <1>2, <1>7, <1>8, <1>9

LEMMA OpenWriteIntact ==
  ASSUME Types, Intact, NEW w \in Writers, NEW n \in Names, OpenWrite(w, n)
  PROVE  Intact' /\ PromiseStep
<1> DEFINE s == Min(EmptySlots)
           e == NewEntry(n, created + 1)
           wr == [NoWriter EXCEPT !.open = TRUE, !.slot = s, !.id = created + 1, !.index = 1]
<1>1. s \in Slots /\ ~InUse(s)
  <2>1. EmptySlots \subseteq Slots /\ EmptySlots \subseteq Nat /\ EmptySlots # {}
    BY DEF EmptySlots, Slots, OpenWrite
  <2>2. s \in EmptySlots
    BY <2>1, MinIsLeast
  <2> QED BY <2>1, <2>2 DEF EmptySlots
<1>2. /\ image' = [image EXCEPT !.dir[s] = e]
      /\ writers' = [writers EXCEPT ![w] = wr]
      /\ ~Taken(n) /\ created' = created + 1 /\ ~writers[w].open
      /\ UNCHANGED <<blocksfree, file, readers, outcome, loads, torn>>
  BY DEF OpenWrite
<1>3. wr.open /\ wr.slot = s /\ wr.id = created + 1 /\ wr.index = 1 /\ wr.ts = NoBlock
  BY DEF NoWriter
<1> HIDE DEF s, wr
<1>4. created \in Nat /\ created + 1 \in 0..MaxCreates
  BY FilesAssumption DEF OpenWrite, Types, OtherTypes
<1>5. e \in Entry /\ e.type = "file" /\ e.name = n /\ e.start = NoBlock /\ e.size = 0
      /\ e.id = created + 1
  BY <1>4 DEF NewEntry, Entry
<1> HIDE DEF e
<1>6. image \in Image /\ image.dir \in [Slots -> Entry] /\ Sound(image, created)
  BY DEF Types, ImageTypes, Image, Intact
<1>7. /\ image' \in Image /\ image'.link = image.link /\ image'.data = image.data
      /\ image'.free = image.free
      /\ \A t \in Slots \ {s} : image'.dir[t] = image.dir[t]
      /\ image'.dir[s] = e
  BY <1>1, <1>2, <1>5, <1>6, EntryIs
<1>8. s \notin Files(image) /\ Files(image') = Files(image) \cup {s}
  BY <1>1, <1>5, <1>7 DEF Files, InUse
<1>9. ASSUME NEW t \in Files(image) PROVE Kept(image, image', t) /\ t # s /\ image'.dir[t] = image.dir[t]
  <2>1. t \in Slots /\ t # s /\ FileAt(image, t, BlocksOf(image, t)) /\ image'.dir[t] = image.dir[t]
    BY <1>6, <1>7, <1>8 DEF Files, Sound
  <2>2. \A i \in 1..Len(BlocksOf(image, t)) : BlocksOf(image, t)[i] \notin image.free
    BY <2>1, <1>6, FileAtParts
  <2>3. BlocksOf(image', t) = BlocksOf(image, t) /\ FileAt(image', t, BlocksOf(image', t))
    BY <2>1, <2>2, <1>6, <1>7, FileAtStays
  <2> QED BY <1>8, <2>1, <2>3 DEF Kept
<1>10. FileAt(image', s, <<>>) /\ BlocksOf(image', s) = <<>>
  <2>1. <<>> \in Seq(Blocks) /\ Len(<<>>) = 0
    OBVIOUS
  <2>2. FileAt(image', s, <<>>)
    BY <2>1, <1>5, <1>7 DEF FileAt, LinkedUp
  <2> QED BY <2>2, <1>1, <1>7, FileAtFound
<1>11. \A t \in Files(image) : image.dir[t].id # created + 1 /\ image.dir[t].name # n
  <2>1. \A t \in Files(image) : image.dir[t].id \in 1..created
    BY <1>6 DEF Sound
  <2>2. \A t \in Files(image) : image.dir[t].name # n
    BY <1>2 DEF Taken, InUse, Files
  <2> QED BY <2>1, <2>2, <1>4
<1>12. Sound(image', created')
  <2>1. ASSUME NEW t \in Files(image')
        PROVE  /\ FileAt(image', t, BlocksOf(image', t))
               /\ image'.dir[t].id \in 1..created' /\ image'.dir[t].name \in Names
    <3>1. CASE t = s
      BY <3>1, <1>2, <1>4, <1>5, <1>7, <1>10
    <3>2. CASE t # s
      <4>1. t \in Files(image) /\ Kept(image, image', t) /\ image'.dir[t] = image.dir[t]
        BY <3>2, <1>8, <1>9
      <4>2. image.dir[t].id \in 1..created /\ image.dir[t].name \in Names
        BY <4>1, <1>6 DEF Sound
      <4> QED BY <4>1, <4>2, <1>2, <1>4 DEF Kept
    <3> QED BY <3>1, <3>2
  <2>2. ASSUME NEW t \in Files(image'), NEW u \in Files(image'), t # u
        PROVE  image'.dir[t].id # image'.dir[u].id /\ image'.dir[t].name # image'.dir[u].name
    BY <2>2, <1>5, <1>6, <1>7, <1>8, <1>9, <1>11 DEF Sound
  <2> QED BY <2>1, <2>2 DEF Sound
<1>13. Sound(file'.image, created')
  BY <1>2, <1>4, SoundLater DEF Intact
<1>14. /\ writers'[w] = wr /\ \A v \in Writers \ {w} : writers'[v] = writers[v]
  BY <1>2 DEF Types, WriterTypes
<1>15. \A v \in Writers : WriterAt(image', writers'[v])
  <2>1. WriterAt(image', wr)
    <3>1. Len(<<>>) = 0
      OBVIOUS
    <3> QED BY <3>1, <1>3, <1>5, <1>7, <1>8, <1>10 DEF WriterAt
  <2> QED BY <2>1, <1>9, <1>14, WriterAtKept DEF Intact
<1>16. \A r \in Readers : ReaderAt(image', readers'[r])
  BY <1>2, <1>9, ReaderAtKept DEF Intact
<1>17. StreamsApart'
  <2>1. \A v \in Writers : writers[v].open => writers[v].slot # s
    BY <1>8 DEF Intact, WriterAt
  <2>2. \A r \in Readers : readers[r].open /\ ~readers[r].stale => readers[r].slot # s
    BY <1>8 DEF Intact, ReaderAt
  <2> QED BY <2>1, <2>2, <1>2, <1>3, <1>14 DEF Intact, StreamsApart
<1>18. Promise!Create(n)
  <2> DEFINE new == [m \in DOMAIN StoreOf(image) \cup {n} |->
                       IF m = n THEN <<>> ELSE StoreOf(image)[m]]
  <2>1. Stores(image, StoreOf(image)) /\ Stores(image', StoreOf(image'))
    BY <1>6, <1>12, StoreIs
  <2>2. n \notin DOMAIN StoreOf(image)
    BY <2>1, <1>11 DEF Stores, NamesIn
  <2>3. NamesIn(image') = NamesIn(image) \cup {n}
    BY <1>5, <1>7, <1>8, <1>9 DEF NamesIn
  <2>4. PartsOf(created + 1, Len(<<>>)) = <<>>
    BY DEF PartsOf
  <2>5. ASSUME NEW t \in Files(image')
        PROVE  new[image'.dir[t].name] = PartsOf(image'.dir[t].id, Len(BlocksOf(image', t)))
    <3>1. CASE t = s
      BY <3>1, <2>4, <1>5, <1>7, <1>10
    <3>2. CASE t # s
      <4>1. t \in Files(image) /\ Kept(image, image', t) /\ image'.dir[t] = image.dir[t]
        BY <3>2, <1>8, <1>9
      <4>2. /\ image.dir[t].name \in DOMAIN StoreOf(image) /\ image.dir[t].name # n
            /\ StoreOf(image)[image.dir[t].name] = PartsOf(image.dir[t].id, Len(BlocksOf(image, t)))
        BY <4>1, <2>1, <1>11 DEF Stores, NamesIn
      <4> QED BY <4>1, <4>2 DEF Kept
    <3> QED BY <3>1, <3>2
  <2>6. DOMAIN new = NamesIn(image') /\ new = [m \in DOMAIN new |-> new[m]]
    BY <2>1, <2>3 DEF Stores
  <2>7. StoreOf(image') = new
    <3> HIDE DEF new
    <3>1. Stores(image', new)
      BY <2>5, <2>6 DEF Stores
    <3> QED BY <3>1, <2>1, StoreUnique
  <2> QED BY <2>2, <2>7, <1>2 DEF Promise!Create
<1> QED BY <1>12, <1>13, <1>15, <1>16, <1>17, <1>18 DEF Intact, PromiseStep, Promise!Next

LEMMA DeleteIntact ==
  ASSUME Types, Intact, NEW n \in Names, Delete(n), ~torn'
  PROVE  Intact' /\ PromiseStep
<1> DEFINE gone   == FilesNamed(n)
           blocks == UNION {ToSet(BlocksOf(image, s)) : s \in gone}
<1>1. image \in Image /\ Sound(image, created) /\ readers \in [Readers -> Reader]
  BY DEF Types, ImageTypes, ReaderTypes, Intact
<1>2. UNCHANGED <<blocksfree, file, writers, outcome, created, loads>> /\ gone # {}
  BY DEF Delete
<1>3. /\ image' \in Image /\ gone \subseteq Slots
      /\ image'.link = image.link /\ image'.data = image.data
      /\ image'.free = image.free \cup blocks
      /\ \A s \in Slots \ gone : image'.dir[s] = image.dir[s]
      /\ \A s \in gone : image'.dir[s] = Vacant(n)
      /\ torn' = (torn \/ \E s \in gone : HasWriter(s))
      /\ readers' = [r \in Readers |->
           [readers[r] EXCEPT !.stale = @ \/ (readers[r].open /\ readers[r].slot \in gone)]]
  BY <1>1, DeleteIs DEF DeletedIs
<1>4. gone \subseteq Files(image) /\ \A s \in Files(image) : s \in gone <=> image.dir[s].name = n
  BY DEF FilesNamed
<1> HIDE DEF gone
<1>5. ~torn /\ \A w \in Writers : writers[w].open => writers[w].slot \notin gone
  <2> HIDE DEF blocks
  <2>1. ~(torn \/ \E s \in gone : HasWriter(s))
    BY <1>3
  <2> QED BY <2>1 DEF HasWriter
<1>6. Files(image') = Files(image) \ gone
  BY <1>3, <1>4 DEF Files, Vacant
<1>7. ASSUME NEW t \in Files(image), t \notin gone
      PROVE  Kept(image, image', t) /\ image'.dir[t] = image.dir[t]
  <2>1. t \in Slots /\ FileAt(image, t, BlocksOf(image, t)) /\ image'.dir[t] = image.dir[t]
    BY <1>1, <1>3, <1>7 DEF Files, Sound
  <2>2. ASSUME NEW i \in 1..Len(BlocksOf(image, t)) PROVE BlocksOf(image, t)[i] \notin image'.free
    <3>1. BlocksOf(image, t)[i] \notin image.free
      BY <2>1, <1>1, FileAtParts
    <3>2. ASSUME NEW s \in gone PROVE BlocksOf(image, t)[i] \notin ToSet(BlocksOf(image, s))
      <4>1. s \in Files(image) /\ s # t
        BY <1>4, <1>7
      <4>2. BlocksOf(image, s) \in Seq(Blocks)
        BY <4>1, <1>1 DEF Sound, FileAt
      <4>3. \A j \in 1..Len(BlocksOf(image, s)) : BlocksOf(image, s)[j] # BlocksOf(image, t)[i]
        BY <4>1, <1>1, <1>7, FilesApart
      <4>4. ToSet(BlocksOf(image, s)) = {BlocksOf(image, s)[j] : j \in 1..Len(BlocksOf(image, s))}
        BY <4>2 DEF ToSet
      <4> QED BY <4>3, <4>4
    <3> QED BY <3>1, <3>2, <1>3
  <2>3. BlocksOf(image', t) = BlocksOf(image, t) /\ FileAt(image', t, BlocksOf(image', t))
    BY <2>1, <2>2, <1>1, <1>3, FileAtStays
  <2> QED BY <1>6, <1>7, <2>1, <2>3 DEF Kept
<1>8. Sound(image', created)
  BY <1>1, <1>6, <1>7 DEF Sound, Kept
<1>9. \A w \in Writers : WriterAt(image', writers[w])
  <2>1. \A w \in Writers : writers[w].open => writers[w].slot \in Files(image) /\ writers[w].slot \notin gone
    BY <1>5 DEF Intact, WriterAt
  <2> QED BY <2>1, <1>7, WriterAtStays DEF Intact
<1>10. ASSUME NEW r \in Readers
       PROVE  /\ ReaderAt(image', readers'[r])
              /\ readers'[r].open = readers[r].open /\ readers'[r].slot = readers[r].slot
              /\ readers'[r].whole = readers[r].whole
              /\ ~readers'[r].stale => ~readers[r].stale
  <2> DEFINE rd == readers[r]
             b == rd.stale \/ (rd.open /\ rd.slot \in gone)
             new == [rd EXCEPT !.stale = b]
  <2>1. readers'[r] = new /\ rd \in Reader
    BY <1>1, <1>3
  <2>2. /\ new.open = rd.open /\ new.slot = rd.slot /\ new.ts = rd.ts /\ new.nextts = rd.nextts
        /\ new.unread = rd.unread /\ new.got = rd.got /\ new.eof = rd.eof /\ new.whole = rd.whole
        /\ new.stale = b
    <3> HIDE DEF b
    <3> QED BY <2>1 DEF Reader
  <2> HIDE DEF new
  <2>3. new.open /\ ~new.stale => ~rd.stale /\ rd.slot \notin gone
    BY <2>2
  <2>4. ReaderAt(image, rd)
    BY DEF Intact
  <2>5. ReaderAt(image, new)
    BY <2>2, <2>3, <2>4 DEF ReaderAt
  <2>6. new.open /\ ~new.stale => new.slot \in Files(image) /\ new.slot \notin gone
    BY <2>2, <2>3, <2>5 DEF ReaderAt
  <2>7. ReaderAt(image', new)
    BY <2>5, <2>6, <1>7, ReaderAtStays
  <2> QED BY <2>1, <2>2, <2>3, <2>7
<1>11. StreamsApart'
  BY <1>2, <1>10 DEF Intact, StreamsApart
<1>12. Intact'
  BY <1>2, <1>8, <1>9, <1>10, <1>11 DEF Intact
<1>13. Promise!Remove(n)
  <2> DEFINE new == [m \in DOMAIN StoreOf(image) \ {n} |-> StoreOf(image)[m]]
  <2>1. Stores(image, StoreOf(image)) /\ Stores(image', StoreOf(image'))
    BY <1>1, <1>8, StoreIs
  <2>2. n \in DOMAIN StoreOf(image)
    BY <2>1, <1>2, <1>4 DEF Stores, NamesIn
  <2>3. NamesIn(image') = NamesIn(image) \ {n}
    BY <1>4, <1>6, <1>7 DEF NamesIn
  <2>4. ASSUME NEW t \in Files(image')
        PROVE  new[image'.dir[t].name] = PartsOf(image'.dir[t].id, Len(BlocksOf(image', t)))
    <3>1. t \in Files(image) /\ t \notin gone /\ Kept(image, image', t) /\ image'.dir[t] = image.dir[t]
      BY <1>6, <1>7
    <3>2. /\ image.dir[t].name \in DOMAIN StoreOf(image) /\ image.dir[t].name # n
          /\ StoreOf(image)[image.dir[t].name] = PartsOf(image.dir[t].id, Len(BlocksOf(image, t)))
      BY <3>1, <2>1, <1>4 DEF Stores, NamesIn
    <3> QED BY <3>1, <3>2 DEF Kept
  <2>5. DOMAIN new = NamesIn(image') /\ new = [m \in DOMAIN new |-> new[m]]
    BY <2>1, <2>3 DEF Stores
  <2>6. StoreOf(image') = new
    <3> HIDE DEF new
    <3>1. Stores(image', new)
      BY <2>4, <2>5 DEF Stores
    <3> QED BY <3>1, <2>1, StoreUnique
  <2>7. UNCHANGED <<file, torn>>
    <3>1. torn \in BOOLEAN /\ torn' \in BOOLEAN
      <4>1. torn \in BOOLEAN
        BY DEF Types, OtherTypes
      <4> HIDE DEF blocks
      <4> QED BY <4>1, <1>3
    <3> QED BY <3>1, <1>2, <1>5
  <2> QED BY <2>2, <2>6, <2>7 DEF Promise!Remove
<1> QED BY <1>12, <1>13 DEF PromiseStep, Promise!Next

LEMMA RenameIntact ==
  ASSUME Types, Intact, NEW n \in Names, NEW new \in Names, Rename(n, new)
  PROVE  Intact' /\ PromiseStep
<1> DEFINE s == Min(FilesNamed(n))
<1>1. image \in Image /\ Sound(image, created)
  BY DEF Types, ImageTypes, Intact
<1>2. /\ UNCHANGED <<blocksfree, modified, file, writers, readers, outcome, created, loads, torn>>
      /\ ~Taken(new)
  BY DEF Rename
<1>3. /\ s \in FilesNamed(n) /\ s \in Slots
      /\ image' \in Image /\ image'.link = image.link /\ image'.data = image.data
      /\ image'.free = image.free
      /\ \A t \in Slots :
           /\ image'.dir[t].type = image.dir[t].type /\ image'.dir[t].id = image.dir[t].id
           /\ image'.dir[t].start = image.dir[t].start /\ image'.dir[t].size = image.dir[t].size
           /\ image'.dir[t].name = IF t = s THEN new ELSE image.dir[t].name
  BY <1>1, RenameIs DEF RenamedIs
<1> HIDE DEF s
<1>4. s \in Files(image) /\ image.dir[s].name = n
  BY <1>3 DEF FilesNamed
<1>5. Files(image') = Files(image) /\ \A t \in Files(image) : Kept(image, image', t)
  BY <1>1, <1>3, SameBlocksKept
<1>6. \A t \in Files(image) : image.dir[t].name # new
  BY <1>2 DEF Taken, InUse, Files
<1>7. \A t \in Files(image) : t # s => image.dir[t].name # n
  BY <1>1, <1>4 DEF Sound
<1>8. \A t \in Files(image) : /\ image'.dir[t].name = IF t = s THEN new ELSE image.dir[t].name
                              /\ image'.dir[t].id = image.dir[t].id
  BY <1>3 DEF Files
<1>9. Sound(image', created)
  <2>1. ASSUME NEW t \in Files(image')
        PROVE  /\ FileAt(image', t, BlocksOf(image', t))
               /\ image'.dir[t].id \in 1..created /\ image'.dir[t].name \in Names
    BY <1>1, <1>5, <1>8 DEF Sound, Kept
  <2>2. ASSUME NEW t \in Files(image'), NEW u \in Files(image'), t # u
        PROVE  image'.dir[t].id # image'.dir[u].id /\ image'.dir[t].name # image'.dir[u].name
    BY <2>2, <1>1, <1>5, <1>6, <1>8 DEF Sound
  <2> QED BY <2>1, <2>2 DEF Sound
<1>10. Intact'
  <2>1. \A w \in Writers : WriterAt(image', writers[w])
    BY <1>5, WriterAtKept DEF Intact
  <2>2. \A r \in Readers : ReaderAt(image', readers[r])
    BY <1>5, ReaderAtKept DEF Intact
  <2>3. StreamsApart'
    BY <1>2 DEF Intact, StreamsApart
  <2> QED BY <1>2, <1>9, <2>1, <2>2, <2>3 DEF Intact
<1>11. Promise!Move(n, new)
  <2> DEFINE store == StoreOf(image)
             moved == [m \in (DOMAIN store \ {n}) \cup {new} |-> IF m = new THEN store[n] ELSE store[m]]
  <2>1. Stores(image, store) /\ Stores(image', StoreOf(image'))
    BY <1>1, <1>9, StoreIs
  <2> HIDE DEF store
  <2>2. n \in DOMAIN store /\ new \notin DOMAIN store
    BY <2>1, <1>4, <1>6 DEF Stores, NamesIn
  <2>3. NamesIn(image') = (NamesIn(image) \ {n}) \cup {new}
    BY <1>4, <1>5, <1>7, <1>8 DEF NamesIn
  <2>4. ASSUME NEW t \in Files(image')
        PROVE  moved[image'.dir[t].name] = PartsOf(image'.dir[t].id, Len(BlocksOf(image', t)))
    <3>1. t \in Files(image) /\ Kept(image, image', t)
      BY <1>5
    <3>2. /\ image.dir[t].name \in DOMAIN store /\ image.dir[t].name # new
          /\ store[image.dir[t].name] = PartsOf(image.dir[t].id, Len(BlocksOf(image, t)))
      BY <3>1, <2>1, <1>6 DEF Stores, NamesIn
    <3>3. moved[image'.dir[t].name] = store[image.dir[t].name]
      BY <3>1, <3>2, <1>4, <1>7, <1>8
    <3> HIDE DEF moved
    <3> QED BY <3>1, <3>2, <3>3, <1>8 DEF Kept
  <2>5. DOMAIN moved = NamesIn(image') /\ moved = [m \in DOMAIN moved |-> moved[m]]
    BY <2>1, <2>3 DEF Stores
  <2>6. StoreOf(image') = moved
    <3> HIDE DEF moved
    <3>1. Stores(image', moved)
      BY <2>4, <2>5 DEF Stores
    <3> QED BY <3>1, <2>1, StoreUnique
  <2> QED BY <2>2, <2>6, <1>2 DEF Promise!Move, store
<1> QED BY <1>10, <1>11 DEF PromiseStep, Promise!Next

LEMMA FillIntact ==
  ASSUME Types, Intact, NEW w \in Writers, Fill(w)
  PROVE  Intact' /\ PromiseStep
<1>1. /\ writers \in [Writers -> Writer]
      /\ \E b \in {"some", "full"} : writers' = [writers EXCEPT ![w].buf = b]
      /\ UNCHANGED <<image, blocksfree, modified, file, readers, outcome, created, loads, torn>>
  BY DEF Fill, Types, WriterTypes
<1>2. \A v \in Writers : /\ writers'[v].open = writers[v].open /\ writers'[v].slot = writers[v].slot
                         /\ writers'[v].index = writers[v].index /\ writers'[v].id = writers[v].id
                         /\ writers'[v].ts = writers[v].ts
  <2>1. PICK b \in {"some", "full"} : writers' = [writers EXCEPT ![w].buf = b]
    BY <1>1
  <2> QED BY <1>1, <2>1 DEF Writer
<1>3. \A v \in Writers : WriterAt(image, writers'[v])
  BY <1>2 DEF Intact, WriterAt
<1>4. StreamsApart'
  BY <1>1, <1>2 DEF Intact, StreamsApart
<1>5. Intact'
  BY <1>1, <1>3, <1>4 DEF Intact
<1> QED BY <1>1, <1>5 DEF PromiseStep, Promise!vars

(* What only touches the readers keeps the promise. *)
LEMMA ReadingIntact ==
  ASSUME Types, Intact, \A q \in Readers : ReaderAt(image, readers'[q]), StreamsApart',
         UNCHANGED <<image, blocksfree, modified, file, writers, outcome, created, loads, torn>>
  PROVE  Intact' /\ PromiseStep
BY DEF Intact, PromiseStep, Promise!vars

LEMMA OpenReadIntact ==
  ASSUME Types, Intact, NEW r \in Readers, NEW n \in Names, OpenRead(r, n)
  PROVE  Intact' /\ PromiseStep
<1> DEFINE s == Min(FilesNamed(n))
           b == image.dir[s].start
           whole == ~HasWriter(s)
           rd == [NoReader EXCEPT !.open = TRUE, !.slot = s, !.ts = b, !.nextts = image.link[b],
                                  !.unread = TRUE, !.whole = whole]
           c == BlocksOf(image, s)
<1>1. s \in Files(image)
  <2>1. FilesNamed(n) # {} /\ FilesNamed(n) \subseteq Nat
    <3>1. FilesNamed(n) # {}
      BY Zenon DEF OpenRead
    <3>2. FilesNamed(n) \subseteq Slots
      BY Zenon DEF FilesNamed, Files
    <3>3. Slots \subseteq Nat
      BY DEF Slots
    <3> QED BY <3>1, <3>2, <3>3, Zenon
  <2>2. s \in FilesNamed(n)
    BY <2>1, MinIsLeast
  <2> QED BY <2>2 DEF FilesNamed
<1>2. /\ b # NoBlock /\ readers' = [readers EXCEPT ![r] = rd]
      /\ UNCHANGED <<image, blocksfree, modified, file, writers, outcome, created, loads, torn>>
  BY DEF OpenRead
<1> HIDE DEF s
<1>3. /\ rd.open = TRUE /\ rd.slot = s /\ rd.ts = b /\ rd.nextts = image.link[b] /\ rd.unread = TRUE
      /\ rd.got = <<>> /\ rd.eof = FALSE /\ rd.whole = whole
  BY DEF NoReader
<1> HIDE DEF rd, whole
<1>4. /\ readers'[r] = rd /\ \A q \in Readers \ {r} : readers'[q] = readers[q]
  BY <1>2 DEF Types, ReaderTypes
<1>5. c # <<>> /\ b = c[1] /\ Len(c) \in Nat \ {0}
  <2>1. FileAt(image, s, c)
    BY <1>1 DEF Intact, Sound
  <2>2. c \in Seq(Blocks) /\ b = IF c = <<>> THEN NoBlock ELSE c[1]
    BY <2>1 DEF FileAt
  <2> HIDE DEF b, c
  <2> QED BY <2>2, <1>2, EmptySeq
<1> HIDE DEF b
<1>6. ReaderAt(image, rd)
  <2>1. Len(rd.got) + (IF rd.unread THEN 1 ELSE 0) = 1 /\ Len(rd.got) = 0
    BY <1>3
  <2>2. 1 \in 1..Len(c)
    BY <1>5
  <2> HIDE DEF c
  <2> QED BY <1>1, <1>3, <1>5, <2>1, <2>2 DEF ReaderAt, c
<1>7. \A q \in Readers : ReaderAt(image, readers'[q])
  BY <1>4, <1>6 DEF Intact
<1>8. StreamsApart'
  <2>1. whole => \A w \in Writers : writers[w].open => writers[w].slot # s
    BY DEF HasWriter, whole
  <2> QED BY <2>1, <1>2, <1>3, <1>4 DEF Intact, StreamsApart
<1> QED BY <1>2, <1>7, <1>8, ReadingIntact

LEMMA ReadIntact ==
  ASSUME Types, Intact, NEW r \in Readers, Read(r)
  PROVE  Intact' /\ PromiseStep
<1> DEFINE rd == readers[r]
           b  == image.link[rd.ts]
           s  == rd.slot
           c  == BlocksOf(image, s)
           k  == Len(rd.got) + IF rd.unread THEN 1 ELSE 0
<1>1. ReadIs(r) /\ readers \in [Readers -> Reader] /\ rd \in Reader
  BY ReadIsSo DEF Types, ReaderTypes
<1>2. PICK new \in Reader :
          /\ readers' = [readers EXCEPT ![r] = new]
          /\ new.open /\ new.slot = rd.slot /\ new.stale = rd.stale /\ new.whole = rd.whole
          /\ ~new.unread
          /\ \/ /\ rd.unread /\ new.ts = rd.ts /\ new.nextts = rd.nextts /\ ~new.eof
                /\ new.got = Append(rd.got, image.data[rd.ts])
             \/ /\ ~rd.unread /\ (rd.nextts \notin Blocks \/ b \notin Blocks)
                /\ new.ts = rd.ts /\ new.nextts = rd.nextts /\ new.eof /\ new.got = rd.got
             \/ /\ ~rd.unread /\ rd.nextts \in Blocks /\ b \in Blocks
                /\ new.ts = b /\ new.nextts = image.link[b] /\ ~new.eof
                /\ new.got = Append(rd.got, image.data[b])
  BY <1>1 DEF ReadIs
<1>3. /\ rd.open
      /\ UNCHANGED <<image, blocksfree, modified, file, writers, outcome, created, loads, torn>>
  BY <1>1 DEF ReadIs
<1>4. readers'[r] = new /\ \A q \in Readers \ {r} : readers'[q] = readers[q]
  BY <1>1, <1>2
<1>5. ASSUME ~rd.stale PROVE ReaderAt(image, new)
  <2>1. /\ s \in Files(image) /\ k \in 1..Len(c) /\ rd.ts = c[k]
        /\ \A i \in 1..Len(rd.got) : rd.got[i] = [file |-> image.dir[s].id, index |-> i]
        /\ rd.whole => rd.nextts = image.link[rd.ts]
    BY <1>3, <1>5 DEF Intact, ReaderAt
  <2>2. FileAt(image, s, c)
    BY <2>1 DEF Intact, Sound
  <2>3. c \in Seq(Blocks) /\ rd.got \in Seq(Part) /\ image.data \in [Blocks -> Part]
    BY <1>1, <2>2 DEF FileAt, Reader, Types, ImageTypes, Image
  <2>4. \A i \in 1..Len(c) : /\ image.data[c[i]] = [file |-> image.dir[s].id, index |-> i]
                             /\ image.link[c[i]] = IF i = Len(c) THEN EndMark ELSE c[i + 1]
    BY <2>2 DEF FileAt, LinkedUp
  <2> HIDE DEF c, s
  <2>5. Len(c) \in Nat /\ Len(rd.got) \in Nat /\ \A i \in 1..Len(c) : c[i] \in Blocks
    BY <2>3
  <2>6. ASSUME NEW j \in 1..Len(c), j = Len(rd.got) + 1,
               new.ts = c[j], new.got = Append(rd.got, image.data[c[j]]), ~new.eof,
               new.whole => new.nextts = image.link[new.ts]
        PROVE  ReaderAt(image, new)
    <3>1. image.data[c[j]] \in Part
      BY <2>3, <2>5
    <3>2. /\ Len(new.got) = j /\ new.got[j] = image.data[c[j]]
          /\ \A i \in 1..Len(rd.got) : new.got[i] = rd.got[i]
      BY <2>3, <2>6, <3>1, AppendProperties
    <3>3. \A i \in 1..Len(new.got) : new.got[i] = [file |-> image.dir[s].id, index |-> i]
      <4> SUFFICES ASSUME NEW i \in 1..Len(new.got)
                   PROVE  new.got[i] = [file |-> image.dir[s].id, index |-> i]
        OBVIOUS
      <4>1. CASE i = j
        BY <4>1, <3>2, <2>4
      <4>2. CASE i # j
        <5>1. i \in 1..Len(rd.got)
          BY <4>2, <3>2, <2>5, <2>6
        <5> QED BY <5>1, <3>2, <2>1
      <4> QED BY <4>1, <4>2
    <3>4. new.slot = s /\ Len(new.got) + (IF new.unread THEN 1 ELSE 0) = j
      BY <1>2, <3>2 DEF s
    <3> QED BY <1>2, <2>1, <2>6, <3>3, <3>4 DEF ReaderAt, c
  <2>7. CASE /\ rd.unread /\ new.ts = rd.ts /\ new.nextts = rd.nextts /\ ~new.eof
             /\ new.got = Append(rd.got, image.data[rd.ts])
    <3>1. k = Len(rd.got) + 1
      BY <2>7
    <3> HIDE DEF k
    <3> QED BY <3>1, <2>1, <2>6, <2>7, <1>2
  <2>8. CASE /\ ~rd.unread /\ (rd.nextts \notin Blocks \/ b \notin Blocks)
             /\ new.ts = rd.ts /\ new.nextts = rd.nextts /\ new.eof /\ new.got = rd.got
    <3>1. k = Len(rd.got)
      BY <2>5, <2>8
    <3>2. rd.whole => k = Len(c)
      <4> SUFFICES ASSUME rd.whole, k # Len(c) PROVE FALSE
        OBVIOUS
      <4>1. k + 1 \in 1..Len(c) /\ k \in 1..Len(c)
        <5>1. k \in 1..Len(c) /\ k # Len(c) /\ Len(c) \in Nat
          BY <2>1, <2>5
        <5> HIDE DEF k
        <5> QED BY <5>1
      <4>2. b = c[k + 1] /\ rd.nextts = c[k + 1]
        <5> HIDE DEF k
        <5> QED BY <4>1, <2>1, <2>4
      <4>3. c[k + 1] \in Blocks
        <5> HIDE DEF k
        <5> QED BY <4>1, <2>5
      <4> QED BY <2>8, <4>2, <4>3
    <3>3. new.slot = s /\ Len(new.got) + (IF new.unread THEN 1 ELSE 0) = k
      BY <1>2, <2>5, <2>8, <3>1 DEF s
    <3> HIDE DEF k
    <3> QED BY <1>2, <2>1, <2>8, <3>1, <3>2, <3>3 DEF ReaderAt, c
  <2>9. CASE /\ ~rd.unread /\ rd.nextts \in Blocks /\ b \in Blocks
             /\ new.ts = b /\ new.nextts = image.link[b] /\ ~new.eof
             /\ new.got = Append(rd.got, image.data[b])
    <3>1. k = Len(rd.got)
      BY <2>5, <2>9
    <3> HIDE DEF k
    <3>2. k # Len(c)
      <4>1. EndMark \notin Blocks
        BY FilesAssumption
      <4> QED BY <4>1, <2>1, <2>4, <2>9
    <3>3. k + 1 \in 1..Len(c) /\ k + 1 = Len(rd.got) + 1
      BY <3>1, <3>2, <2>1, <2>5
    <3>4. b = c[k + 1]
      BY <3>2, <2>1, <2>4
    <3> QED BY <3>3, <3>4, <2>6, <2>9
  <2> QED BY <2>7, <2>8, <2>9, <1>2
<1>6. \A q \in Readers : ReaderAt(image, readers'[q])
  <2>1. ReaderAt(image, new)
    BY <1>2, <1>5 DEF ReaderAt
  <2> QED BY <2>1, <1>4 DEF Intact
<1>7. StreamsApart'
  BY <1>2, <1>3, <1>4 DEF Intact, StreamsApart
<1> QED BY <1>3, <1>6, <1>7, ReadingIntact

LEMMA CloseReadIntact ==
  ASSUME Types, Intact, NEW r \in Readers, CloseRead(r)
  PROVE  Intact' /\ PromiseStep
<1>1. /\ readers' = [readers EXCEPT ![r] = NoReader] /\ ~NoReader.open
      /\ UNCHANGED <<image, blocksfree, modified, file, writers, outcome, created, loads, torn>>
  BY DEF CloseRead, NoReader
<1>2. /\ ~readers'[r].open /\ \A q \in Readers \ {r} : readers'[q] = readers[q]
  BY <1>1 DEF Types, ReaderTypes
<1>3. ASSUME NEW q \in Readers PROVE ReaderAt(image, readers'[q])
  <2>1. CASE q = r
    BY <2>1, <1>2 DEF ReaderAt
  <2>2. CASE q # r
    BY <2>2, <1>2 DEF Intact
  <2> QED BY <2>1, <2>2
<1>4. StreamsApart'
  BY <1>1, <1>2 DEF Intact, StreamsApart
<1> QED BY <1>1, <1>3, <1>4, ReadingIntact

LEMMA SyncedPromised ==
  ASSUME Types, Intact, Synced, UNCHANGED <<image, created, torn>>
  PROVE  Sound(file'.image, created) /\ PromiseStep
<1>1. CASE file' = Rewritten
  <2>0. file'.whole /\ file'.image = image
    BY <1>1 DEF Rewritten
  <2>1. Promise!Save
    BY <2>0 DEF Promise!Save
  <2> QED BY <2>0, <2>1 DEF Intact, PromiseStep, Promise!Next
<1>2. CASE \E lost : file' = CutShort(lost)
  <2>0. file'.whole = FALSE /\ file'.image = Blank
    BY <1>2 DEF CutShort
  <2>1. Promise!Save
    BY <2>0, BlankStore DEF Promise!Save
  <2> QED BY <2>0, <2>1, BlanksAreSound DEF PromiseStep, Promise!Next
<1>3. CASE UNCHANGED file
  BY <1>3 DEF Intact, PromiseStep, Promise!vars
<1> QED BY <1>1, <1>2, <1>3 DEF Synced

LEMMA NoStreamsIntact ==
  ASSUME NoStreams, NEW im
  PROVE  /\ \A w \in Writers : WriterAt(im, writers'[w])
         /\ \A r \in Readers : ReaderAt(im, readers'[r])
         /\ StreamsApart'
<1>1. ~NoWriter.open /\ ~NoReader.open
  BY DEF NoWriter, NoReader
<1>2. (\A w \in Writers : ~writers'[w].open) /\ \A r \in Readers : ~readers'[r].open
  BY <1>1 DEF NoStreams
<1> QED BY <1>2 DEF WriterAt, ReaderAt, StreamsApart

LEMMA ImageFileIntact ==
  ASSUME Types, Intact, Sync \/ FreeImage \/ Crash \/ Load
  PROVE  Intact' /\ PromiseStep
<1>1. CASE Sync
  <2>1. Synced /\ UNCHANGED <<image, writers, readers, created, torn>>
    BY <1>1 DEF Sync
  <2>2. Sound(file'.image, created) /\ PromiseStep
    BY <2>1, SyncedPromised
  <2>3. StreamsApart'
    BY <2>1 DEF Intact, StreamsApart
  <2> QED BY <2>1, <2>2, <2>3 DEF Intact
<1>2. CASE FreeImage \/ Crash
  <2>1. /\ NoStreams /\ UNCHANGED <<image, created, torn>>
        /\ Synced \/ UNCHANGED file
    BY <1>2 DEF FreeImage, Crash
  <2>2. Sound(file'.image, created) /\ PromiseStep
    <3>1. CASE Synced
      BY <2>1, <3>1, SyncedPromised
    <3>2. CASE UNCHANGED file
      BY <2>1, <3>2 DEF Intact, PromiseStep, Promise!vars
    <3> QED BY <2>1, <3>1, <3>2
  <2>3. /\ \A w \in Writers : WriterAt(image', writers'[w])
        /\ \A r \in Readers : ReaderAt(image', readers'[r])
        /\ StreamsApart'
    BY <2>1, NoStreamsIntact
  <2> QED BY <2>1, <2>2, <2>3 DEF Intact
<1>3. CASE Load
  <2>1. image' = file.image /\ NoStreams /\ file.whole /\ UNCHANGED <<file, created, torn>>
    BY <1>3 DEF Load
  <2>2. /\ \A w \in Writers : WriterAt(image', writers'[w])
        /\ \A r \in Readers : ReaderAt(image', readers'[r])
        /\ StreamsApart'
    BY <2>1, NoStreamsIntact
  <2>3. Promise!Load
    BY <2>1 DEF Promise!Load
  <2> QED BY <2>1, <2>2, <2>3 DEF Intact, PromiseStep, Promise!Next
<1> QED BY <1>1, <1>2, <1>3

LEMMA StutterIntact ==
  ASSUME Types, Intact, UNCHANGED vars
  PROVE  Intact' /\ PromiseStep
<1>1. \A q \in Readers : ReaderAt(image, readers'[q])
  BY DEF vars, Intact
<1>2. StreamsApart'
  BY DEF vars, Intact, StreamsApart
<1> QED BY <1>1, <1>2, ReadingIntact DEF vars

LEMMA NextIntact ==
  ASSUME Types, Intact, [Next]_vars, ~torn'
  PROVE  Intact' /\ PromiseStep
<1>1. CASE \E w \in Writers : Fill(w) \/ WriteFull(w) \/ CloseWrite(w) \/ \E n \in Names : OpenWrite(w, n)
  BY <1>1, FillIntact, WriteFullIntact, CloseWriteIntact, OpenWriteIntact
<1>2. CASE \E n \in Names : Delete(n) \/ \E new \in Names : Rename(n, new)
  BY <1>2, DeleteIntact, RenameIntact
<1>3. CASE \E r \in Readers : Read(r) \/ CloseRead(r) \/ \E n \in Names : OpenRead(r, n)
  BY <1>3, ReadIntact, CloseReadIntact, OpenReadIntact
<1>4. CASE Sync \/ FreeImage \/ Crash \/ Load
  BY <1>4, ImageFileIntact
<1>5. CASE UNCHANGED vars
  BY <1>5, StutterIntact
<1> QED BY <1>1, <1>2, <1>3, <1>4, <1>5 DEF Next

(* What was torn stays torn. *)
LEMMA TornStays ==
  ASSUME Types, [Next]_vars
  PROVE  torn => torn'
<1>1. CASE \E n \in Names : Delete(n)
  <2>1. PICK n \in Names : Delete(n)
    BY <1>1
  <2>2. torn' = (torn \/ \E s \in FilesNamed(n) : HasWriter(s))
    BY <2>1 DEF Delete
  <2> QED BY <2>2
<1>2. CASE UNCHANGED torn
  BY <1>2
<1>3. (\E n \in Names : Delete(n)) \/ UNCHANGED torn
  BY DEF Next, vars, Fill, WriteFull, CloseWrite, OpenWrite, Rename, Read, CloseRead, OpenRead,
         Sync, FreeImage, Crash, Load
<1> QED BY <1>1, <1>2, <1>3

LEMMA InitIntact == Init => Intact
<1> SUFFICES ASSUME Init PROVE Intact
  OBVIOUS
<1>1. Sound(image, created) /\ Sound(file.image, created)
  BY BlanksAreSound DEF Init
<1>2. ~NoWriter.open /\ ~NoReader.open
  BY DEF NoWriter, NoReader
<1>3. (\A w \in Writers : ~writers[w].open) /\ \A r \in Readers : ~readers[r].open
  BY <1>2 DEF Init
<1> QED BY <1>1, <1>3 DEF Intact, WriterAt, ReaderAt, StreamsApart

LEMMA InitInv == Init => FilesInv
BY InitSaved, InitIntact DEF FilesInv, Saved

LEMMA NextInv ==
  ASSUME FilesInv, [Next]_vars
  PROVE  FilesInv'
<1>1. Types' /\ UnmodifiedIsSaved'
  BY NextSaved DEF FilesInv, Saved
<1>2. ASSUME ~torn' PROVE Intact'
  <2>1. ~torn
    BY <1>2, TornStays DEF FilesInv
  <2> QED BY <1>2, <2>1, NextIntact DEF FilesInv
<1> QED BY <1>1, <1>2 DEF FilesInv

LEMMA InvReadsBack ==
  ASSUME FilesInv
  PROVE  ReadsBack
<1> SUFFICES ASSUME NEW r \in Readers, readers[r].open, ~readers[r].stale, ~torn
             PROVE  LET rd == readers[r]
                        e  == image.dir[rd.slot]
                    IN /\ Len(rd.got) <= e.size
                       /\ \A i \in 1..Len(rd.got) : rd.got[i] = [file |-> e.id, index |-> i]
                       /\ rd.eof /\ rd.whole => Len(rd.got) = e.size
  BY DEF ReadsBack
<1> DEFINE got == readers[r].got
           s == readers[r].slot
           c == BlocksOf(image, s)
<1>1. /\ s \in Files(image) /\ Len(got) + (IF readers[r].unread THEN 1 ELSE 0) \in 1..Len(c)
      /\ \A i \in 1..Len(got) : got[i] = [file |-> image.dir[s].id, index |-> i]
      /\ readers[r].whole /\ readers[r].eof => Len(got) = Len(c)
  BY DEF FilesInv, Intact, ReaderAt
<1>2. FileAt(image, s, c) /\ s \in Slots /\ image \in Image
  BY <1>1 DEF FilesInv, Intact, Sound, Files, Types, ImageTypes
<1>3. got \in Seq(Part) /\ c \in Seq(Blocks) /\ Len(c) = image.dir[s].size
  BY <1>2 DEF FileAt, FilesInv, Types, ReaderTypes, Reader
<1> HIDE DEF c
<1>4. Len(got) <= Len(c)
  <2> HIDE DEF got, s
  <2>1. Len(c) \in Nat /\ Len(got) \in Nat
    BY <1>3
  <2> QED BY <2>1, <1>1
<1> HIDE DEF got, s
<1> QED BY <1>1, <1>3, <1>4 DEF got, s

(* DiskFiles!ReadsBack: what a reader has got at any time are the parts    *)
(* that were written to its file, the first first, and at its end all of   *)
(* them, while other files are written and deleted and blocks are used     *)
(* again (di_read, free_chain).  The invariant behind it says of every     *)
(* file that its links lead from one of these parts to the next.           *)
THEOREM FilesReadBack == Spec => []ReadsBack
<1>1. Init => FilesInv
  BY InitInv
<1>2. FilesInv /\ [Next]_vars => FilesInv'
  BY NextInv
<1>3. FilesInv => ReadsBack
  BY InvReadsBack
<1> QED BY <1>1, <1>2, <1>3, PTL DEF Spec

(* DiskFiles!ImplementsStore: the links, the map and the directory of an   *)
(* image with any number of blocks keep what FileStore promises for named  *)
(* sequences of parts (di_write, di_close, di_delete, di_rename, di_sync,  *)
(* di_load_image).                                                         *)
THEOREM FilesImplementStore == Spec => ImplementsStore
<1>1. Init => FilesInv
  BY InitInv
<1>2. FilesInv /\ [Next]_vars => FilesInv'
  BY NextInv
<1>3. Init => Promise!Init
  BY BlankStore DEF Init, Promise!Init
<1>4. ASSUME FilesInv, FilesInv', [Next]_vars PROVE PromiseStep
  <2>1. CASE ~torn'
    <3>1. ~torn
      BY <2>1, <1>4, TornStays DEF FilesInv
    <3> QED BY <2>1, <3>1, <1>4, NextIntact DEF FilesInv
  <2>2. CASE torn'
    <3>1. torn' = TRUE
      BY <2>2, <1>4 DEF FilesInv, Types, OtherTypes
    <3> QED BY <3>1 DEF PromiseStep, Promise!Next, Promise!Tear
  <2> QED BY <2>1, <2>2
<1>5. FilesInv /\ FilesInv' /\ [Next]_vars => [Promise!Next]_(Promise!vars)
  BY <1>4 DEF PromiseStep
<1> QED BY <1>1, <1>2, <1>3, <1>5, PTL DEF Spec, ImplementsStore, Promise!Spec
============================================================================
