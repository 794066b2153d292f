------------------------ MODULE DiskDirectoryProofs ------------------------
(***************************************************************************)
(* Proofs about the directory of a disk image, its streams and the tool    *)
(* that extracts its files, for images of any type, blocks of any number   *)
(* of slots, any names and any patterns: no block is taken twice, no entry *)
(* that stays is missed or returned twice, and what the tool has extracted *)
(* is what was listed.                                                     *)
(***************************************************************************)
EXTENDS DiskExtract, FiniteSetTheorems, SequenceTheorems, WellFoundedInduction, TLAPS

-----------------------------------------------------------------------------
(* Numbers. *)

(* A set of natural numbers that has a member has a least one. *)
LEMMA Least ==
  ASSUME NEW S, S \subseteq Nat, S # {}
  PROVE  \E x \in S : \A y \in S : x <= y
<1>1. IsWellFoundedOn(OpToRel(<, Nat), Nat)
  BY NatLessThanWellFounded
<1>2. PICK x \in S : \A y \in S : ~(<<y, x>> \in OpToRel(<, Nat))
  BY <1>1, WFMin, Zenon
<1>3. \A y \in S : ~(y < x)
  BY <1>2 DEF OpToRel
<1> QED BY <1>3

(* That is what Min chooses. *)
LEMMA MinIs ==
  ASSUME NEW S, S \subseteq Nat, S # {}
  PROVE  Min(S) \in S /\ \A y \in S : Min(S) <= y
BY Least DEF Min

(* A slot is in the block its number says. *)
LEMMA SlotNumbers ==
  ASSUME NEW b \in Nat
  PROVE  /\ \A p \in Nat : p \in SlotsOf(b) <=> BlockOf(p) = b
         /\ b * SlotsPerBlock \in Nat /\ SlotsOf(b) \subseteq Nat
         /\ b * SlotsPerBlock \in SlotsOf(b)
         /\ (b + 1) * SlotsPerBlock = b * SlotsPerBlock + SlotsPerBlock
         /\ \A c \in Nat : b <= c => b * SlotsPerBlock <= c * SlotsPerBlock
<1> DEFINE k == SlotsPerBlock
<1>1. k \in Nat \ {0}
  BY DirectoryAssumption
<1> HIDE DEF k
<1>2. \A p \in Nat : p \in (b * k)..(b * k + k - 1) <=> p \div k = b
  BY <1>1
<1>3. b * k \in Nat
  BY <1>1
<1>4. (b + 1) * k = b * k + k
  BY <1>1
<1>5. \A c \in Nat : b <= c => b * k <= c * k
  BY <1>1
<1>6. (b * k)..(b * k + k - 1) \subseteq Nat /\ b * k \in (b * k)..(b * k + k - 1)
  BY <1>1, <1>3
<1> QED BY <1>2, <1>3, <1>4, <1>5, <1>6 DEF SlotsOf, BlockOf, k

(* A slot's block is a number, it begins with a multiple of the slots of a *)
(* block, and the slots after it go on into the next block at its end.     *)
LEMMA BlockNumbers ==
  ASSUME NEW p \in Nat, NEW n \in Nat
  PROVE  /\ BlockOf(p) \in Nat
         /\ p \in SlotsOf(BlockOf(p))
         /\ BlockOf(p) * SlotsPerBlock <= p
         /\ p <= (n + 1) * SlotsPerBlock - 1 <=> BlockOf(p) <= n
         /\ p >= n * SlotsPerBlock <=> BlockOf(p) >= n
         /\ BlockOf(p + 1) # BlockOf(p) =>
              p + 1 = (BlockOf(p) + 1) * SlotsPerBlock /\ BlockOf(p + 1) = BlockOf(p) + 1
<1> DEFINE k == SlotsPerBlock
           b == BlockOf(p)
<1>1. k \in Nat \ {0}
  BY DirectoryAssumption
<1>2. b \in Nat
  BY <1>1 DEF BlockOf
<1>3. p \in SlotsOf(b)
  BY <1>2, SlotNumbers
<1>4. b * k <= p /\ p <= b * k + k - 1 /\ b * k \in Nat
  BY <1>2, <1>3, SlotNumbers DEF SlotsOf
<1>5. b <= n => b * k <= n * k
  BY <1>2, SlotNumbers
<1>6. n < b => (n + 1) * k <= b * k
  BY <1>2, SlotNumbers
<1>7. (n + 1) * k = n * k + k /\ n * k \in Nat /\ (b + 1) * k = b * k + k
  BY <1>2, SlotNumbers
<1>8. n <= b => n * k <= b * k
  BY <1>2, SlotNumbers
<1>9. b < n => (b + 1) * k <= n * k
  BY <1>2, SlotNumbers
<1>10. ASSUME BlockOf(p + 1) # b PROVE p + 1 = (b + 1) * k /\ BlockOf(p + 1) = b + 1
  <2>1. p + 1 \notin SlotsOf(b)
    BY <1>2, <1>10, SlotNumbers
  <2>2. p + 1 = b * k + k
    <3>1. p + 1 \notin (b * k)..(b * k + k - 1)
      BY <2>1 DEF SlotsOf
    <3> HIDE DEF k, b
    <3> QED BY <1>1, <1>4, <3>1
  <2>3. (b + 1) * k \in SlotsOf(b + 1)
    BY <1>2, SlotNumbers
  <2>4. p + 1 = (b + 1) * k
    BY <1>7, <2>2
  <2>5. BlockOf(p + 1) = b + 1
    BY <1>2, <2>3, <2>4, SlotNumbers
  <2> QED BY <2>4, <2>5
<1> HIDE DEF k, b
<1>11. p <= (n + 1) * k - 1 <=> b <= n
  BY <1>1, <1>2, <1>4, <1>5, <1>6, <1>7
<1>12. p >= n * k <=> b >= n
  BY <1>1, <1>2, <1>4, <1>7, <1>8, <1>9
<1> QED BY <1>2, <1>3, <1>4, <1>10, <1>11, <1>12 DEF k, b

(* The search round a directory's track finds a sector that is free. *)
LEMMA SearchFinds ==
  ASSUME type \in ImageTypes, NEW t \in DirTracks(type), NEW s \in Nat,
         free[t] \subseteq Sectors(type, t), free[t] # {}
  PROVE  SearchFrom(t, s) \in free[t]
<1> DEFINE n == SectorsPerTrack(type, t)
           nth(k) == IF k = 0 THEN s ELSE (s + k) % n
           Found == {k \in 0..n : nth(k) \in free[t]}
<1>1. n \in {19, 29, 40}
  BY DEF ImageTypes, DirTracks, BamTrack, DirTrack, DirBlock, TS, SectorsPerTrack, OnSide,
         Sectors1541, Sectors8050, Zone1541, Zone8050, Zone
<1>2. PICK f \in free[t] : f \in 0..(n - 1)
  BY DEF Sectors
<1>3. \E k \in 1..n : (s + k) % n = f
  <2> HIDE DEF n
  <2> DEFINE r == s % n
             k == IF f > r THEN f - r ELSE f + n - r
  <2>1. r \in 0..(n - 1)
    BY <1>1
  <2>2. k \in 1..n
    BY <1>1, <1>2, <2>1
  <2>3. (s + k) % n = f
    <3>1. CASE n = 19 BY <1>2, <3>1
    <3>2. CASE n = 29 BY <1>2, <3>2
    <3>3. CASE n = 40 BY <1>2, <3>3
    <3> QED BY <1>1, <3>1, <3>2, <3>3
  <2> QED BY <2>2, <2>3
<1>4. Found # {} /\ Found \subseteq Nat
  <2> HIDE DEF n
  <2> QED BY <1>1, <1>2, <1>3
<1>5. PICK k \in Found : \A j \in Found : k <= j
  <2> HIDE DEF Found
  <2> QED BY <1>4, Least
<1>6. k \in 0..n /\ nth(k) \in free[t] /\ \A j \in 0..(k - 1) : nth(j) \notin free[t]
  <2> HIDE DEF nth, n
  <2>1. k \in 0..n /\ nth(k) \in free[t]
    BY <1>5
  <2>2. ASSUME NEW j \in 0..(k - 1) PROVE nth(j) \notin free[t]
    <3>1. j \in 0..n /\ ~(k <= j)
      BY <1>1, <2>1
    <3> QED BY <1>5, <3>1
  <2> QED BY <2>1, <2>2
<1> DEFINE P(j) == nth(j) \in free[t] /\ \A i \in 0..(j - 1) : nth(i) \notin free[t]
           far == CHOOSE j \in 0..n : P(j)
<1>7. P(far)
  <2> HIDE DEF nth
  <2> QED BY <1>6
<1>8. SearchFrom(t, s) = nth(far)
  BY Zenon DEF SearchFrom
<1> QED BY <1>7, <1>8

-----------------------------------------------------------------------------
(* What the image's part of the state is. *)

(* No block of a file is free or another file's. *)
OwnedOnce ==
  \A o, u \in owned :
    /\ o.track \in DirTracks(type) /\ o.sector \notin free[o.track]
    /\ o.track = u.track /\ o.sector = u.sector => o = u

(* The slots of the directory's own blocks hold entries or are empty. *)
ProperEntries == \A p \in SearchSlots : slots[p] \in Entry \cup {Empty}

DiskTypeOK ==
  /\ type \in ImageTypes
  /\ chain \in Seq(Sectors(type, DirTrack(type))) /\ chain # <<>>
  /\ slots \in [0..((Len(chain) + 1) * SlotsPerBlock - 1) -> Slot]
  /\ DOMAIN free = DirTracks(type) /\ \A t \in DOMAIN free : free[t] \subseteq Sectors(type, t)
  /\ \A o \in owned : o.sector \in Sectors(type, o.track) /\ o.slot \in DOMAIN slots
  /\ status \in {0, 1, 62, 63, 64, 72, 254} /\ outcome \in {"running", "hung"}

DiskInv == DiskTypeOK /\ DirBlocksApart /\ OwnedOnce /\ ProperEntries

(* The slots by the blocks they are in. *)
LEMMA SlotsAre ==
  ASSUME DiskTypeOK
  PROVE  /\ Len(chain) \in Nat \ {0}
         /\ DOMAIN slots = {p \in Nat : BlockOf(p) <= Len(chain)}
         /\ SearchSlots = {p \in Nat : 1 <= BlockOf(p) /\ BlockOf(p) <= Len(chain)}
         /\ \A b \in 0..Len(chain) : SlotsOf(b) \subseteq DOMAIN slots
<1>1. Len(chain) \in Nat \ {0}
  BY DEF DiskTypeOK
<1> DEFINE n == Len(chain)
<1> HIDE DEF n
<1>2. n \in Nat \ {0}
  BY <1>1 DEF n
<1>3. DOMAIN slots = 0..((n + 1) * SlotsPerBlock - 1)
  BY DEF DiskTypeOK, n
<1>4. (n + 1) * SlotsPerBlock \in Nat
  BY <1>2, SlotNumbers
<1>5. \A p \in Nat : p \in DOMAIN slots <=> BlockOf(p) <= n
  <2> TAKE p \in Nat
  <2>1. p <= (n + 1) * SlotsPerBlock - 1 <=> BlockOf(p) <= n
    BY <1>2, BlockNumbers
  <2> QED BY <1>3, <1>4, <2>1
<1>6. DOMAIN slots = {p \in Nat : BlockOf(p) <= n}
  BY <1>3, <1>4, <1>5
<1>7. \A p \in Nat : p >= SlotsPerBlock <=> BlockOf(p) >= 1
  <2> TAKE p \in Nat
  <2>1. 1 * SlotsPerBlock = SlotsPerBlock
    BY DirectoryAssumption
  <2> QED BY <2>1, BlockNumbers
<1>8. SearchSlots = {p \in Nat : 1 <= BlockOf(p) /\ BlockOf(p) <= n}
  <2>1. \A p \in Nat : BlockOf(p) \in Nat
    BY BlockNumbers
  <2> QED BY <1>6, <1>7, <2>1 DEF SearchSlots
<1>9. ASSUME NEW b \in 0..n PROVE SlotsOf(b) \subseteq DOMAIN slots
  BY <1>2, <1>6, SlotNumbers
<1> QED BY <1>2, <1>6, <1>8, <1>9 DEF n

(* A slot that is written with an entry or emptied, in any block. *)
LEMMA SlotWritten ==
  ASSUME DiskTypeOK, ProperEntries, NEW p \in DOMAIN slots, NEW e \in Entry \cup {Empty},
         slots' = [slots EXCEPT ![p] = e], chain' = chain
  PROVE  /\ slots' \in [0..((Len(chain') + 1) * SlotsPerBlock - 1) -> Slot]
         /\ DOMAIN slots' = DOMAIN slots
         /\ ProperEntries'
<1>1. e \in Slot
  BY DEF Entry, Empty, Slot
<1>2. DOMAIN slots' = DOMAIN slots
  BY DEF DiskTypeOK
<1>3. slots' \in [0..((Len(chain') + 1) * SlotsPerBlock - 1) -> Slot]
  <2> DEFINE d == 0..((Len(chain) + 1) * SlotsPerBlock - 1)
  <2>1. slots \in [d -> Slot]
    BY DEF DiskTypeOK
  <2> HIDE DEF d
  <2>2. [slots EXCEPT ![p] = e] \in [d -> Slot]
    BY <1>1, <2>1
  <2> QED BY <2>2 DEF d
<1>4. ProperEntries'
  BY <1>2 DEF ProperEntries, SearchSlots, DiskTypeOK
<1> QED BY <1>2, <1>3, <1>4

(* A slot that is looked at for a new entry is one of the directory's own  *)
(* blocks or of block 0.                                                   *)
LEMMA EmptySlotsAre ==
  ASSUME DiskTypeOK
  PROVE  /\ AllocSlots \subseteq DOMAIN slots
         /\ EmptySlots \subseteq DOMAIN slots /\ EmptySlots \subseteq Nat
         /\ EmptySlots # {} => Min(EmptySlots) \in EmptySlots
<1>1. SlotsOf(0) \subseteq DOMAIN slots /\ DOMAIN slots \subseteq Nat
  BY SlotsAre
<1>2. AllocSlots \subseteq DOMAIN slots
  BY <1>1 DEF AllocSlots, SearchSlots, DiskTypeOK, ImageTypes
<1>3. EmptySlots \subseteq DOMAIN slots
  BY <1>2 DEF EmptySlots
<1> QED BY <1>1, <1>2, <1>3, MinIs

(* A new block of the directory is one that no file and no other block of  *)
(* the directory has, and its slots are those after the last.              *)
LEMMA BlockAdded ==
  ASSUME DiskInv, NEW e \in Entry, NewDirBlock(e), chain' # chain,
         UNCHANGED <<type, owned>>
  PROVE  /\ DiskInv'
         /\ Len(chain') = Len(chain) + 1
         /\ DOMAIN slots \subseteq DOMAIN slots'
         /\ \A p \in DOMAIN slots : slots'[p] = slots[p]
         /\ \A p \in DOMAIN slots' \ DOMAIN slots :
              slots'[p] = IF p = (Len(chain) + 1) * SlotsPerBlock THEN e ELSE Empty
<1> DEFINE t == DirTrack(type)
           s == SearchFrom(t, Last(chain) + 3)
           p0 == (Len(chain) + 1) * SlotsPerBlock
           d == 0..((Len(chain) + 1) * SlotsPerBlock - 1)
           new == [q \in DOMAIN slots \cup SlotsOf(Len(chain) + 1) |->
                    IF q \in DOMAIN slots THEN slots[q] ELSE IF q = p0 THEN e ELSE Empty]
<1>1. /\ free[t] # {}
      /\ chain' = Append(chain, s)
      /\ free' = [free EXCEPT ![t] = @ \ {s}]
      /\ slots' = new
      /\ status' = 0 /\ outcome' = outcome
  BY Zenon DEF NewDirBlock
<1>2. t \in DirTracks(type) /\ type \in ImageTypes
  BY DEF DiskInv, DiskTypeOK, DirTracks
<1>3. free[t] \subseteq Sectors(type, t) /\ t \in DOMAIN free
  BY <1>2 DEF DiskInv, DiskTypeOK
<1>4. Last(chain) + 3 \in Nat
  <2>1. chain[Len(chain)] \in Sectors(type, t)
    BY SlotsAre DEF DiskInv, DiskTypeOK
  <2> QED BY <2>1 DEF Last, Sectors
<1>5. s \in free[t]
  BY <1>1, <1>2, <1>3, <1>4, SearchFinds
<1> HIDE DEF s
<1>6. chain \in Seq(Sectors(type, t)) /\ Len(chain) \in Nat \ {0}
  BY SlotsAre DEF DiskInv, DiskTypeOK
<1>7. chain' \in Seq(Sectors(type, t)) /\ chain' # <<>> /\ Len(chain') = Len(chain) + 1
  BY <1>1, <1>3, <1>5, <1>6
<1>8. DOMAIN slots \cup SlotsOf(Len(chain) + 1) = 0..((Len(chain') + 1) * SlotsPerBlock - 1)
  <2> DEFINE n == Len(chain)
  <2>1. /\ n \in Nat /\ n + 1 \in Nat
        /\ (n + 1) * SlotsPerBlock \in Nat
        /\ (n + 1 + 1) * SlotsPerBlock = (n + 1) * SlotsPerBlock + SlotsPerBlock
    BY <1>6, SlotNumbers
  <2>2. DOMAIN slots = 0..((n + 1) * SlotsPerBlock - 1)
    BY DEF DiskInv, DiskTypeOK
  <2>3. SlotsOf(n + 1) = ((n + 1) * SlotsPerBlock)..((n + 1) * SlotsPerBlock + SlotsPerBlock - 1)
    BY DEF SlotsOf
  <2> DEFINE m == (n + 1) * SlotsPerBlock
  <2>4. Len(chain') + 1 = n + 1 + 1
    BY <1>7
  <2>5. (Len(chain') + 1) * SlotsPerBlock = m + SlotsPerBlock
    BY <2>1, <2>4
  <2>8. DOMAIN slots = 0..(m - 1) /\ SlotsOf(Len(chain) + 1) = m..(m + SlotsPerBlock - 1)
    BY <2>2, <2>3
  <2> HIDE DEF m, n
  <2>6. m \in Nat /\ SlotsPerBlock \in Nat \ {0}
    BY <2>1, DirectoryAssumption DEF m
  <2>7. 0..(m - 1) \cup m..(m + SlotsPerBlock - 1) = 0..(m + SlotsPerBlock - 1)
    BY <2>6
  <2>9. (Len(chain') + 1) * SlotsPerBlock - 1 = m + SlotsPerBlock - 1
    BY <2>5, <2>6
  <2> QED BY <2>7, <2>8, <2>9, Zenon
<1>9. e \in Slot /\ Empty \in Slot
  BY DEF Entry, Empty, Slot
<1>10. slots' \in [0..((Len(chain') + 1) * SlotsPerBlock - 1) -> Slot]
  <2> DEFINE D == DOMAIN slots \cup SlotsOf(Len(chain) + 1)
  <2>1. \A q \in DOMAIN slots : slots[q] \in Slot
    BY DEF DiskInv, DiskTypeOK
  <2>2. new \in [D -> Slot]
    BY <1>9, <2>1
  <2> QED BY <1>1, <1>8, <2>2
<1>11. /\ DOMAIN slots \subseteq DOMAIN slots'
       /\ \A p \in DOMAIN slots : slots'[p] = slots[p]
       /\ \A p \in DOMAIN slots' \ DOMAIN slots : slots'[p] = IF p = p0 THEN e ELSE Empty
  BY <1>1
<1>12. ProperEntries'
  <2> SUFFICES ASSUME NEW p \in DOMAIN slots', p >= SlotsPerBlock
               PROVE  slots'[p] \in Entry \cup {Empty}
    BY DEF ProperEntries, SearchSlots
  <2>1. CASE p \in DOMAIN slots
    BY <1>11, <2>1 DEF DiskInv, ProperEntries, SearchSlots
  <2>2. CASE p \notin DOMAIN slots
    BY <1>11, <2>2
  <2> QED BY <2>1, <2>2
<1>13. /\ DOMAIN free' = DirTracks(type)
       /\ \A u \in DOMAIN free' : free'[u] \subseteq free[u]
       /\ free'[t] = free[t] \ {s}
  BY <1>1, <1>3 DEF DiskInv, DiskTypeOK
<1>14. DiskTypeOK'
  <2>1. \A u \in DOMAIN free' : free'[u] \subseteq Sectors(type, u)
    BY <1>13 DEF DiskInv, DiskTypeOK
  <2>2. \A o \in owned : o.sector \in Sectors(type, o.track) /\ o.slot \in DOMAIN slots'
    BY <1>11 DEF DiskInv, DiskTypeOK
  <2>3. outcome \in {"running", "hung"}
    BY DEF DiskInv, DiskTypeOK
  <2> QED BY <1>1, <1>2, <1>7, <1>10, <1>13, <2>1, <2>2, <2>3 DEF DiskTypeOK
<1>15. DirBlocksApart'
  <2>1. IsInjective(chain) /\ ToSet(chain) \cap free[t] = {}
        /\ \A o \in owned : o.track = t => o.sector \notin ToSet(chain)
    BY DEF DiskInv, DirBlocksApart
  <2>2. \A i \in 1..Len(chain) : chain[i] \in ToSet(chain)
    BY <1>6 DEF ToSet
  <2>3. s \notin ToSet(chain)
    BY <1>5, <2>1
  <2>4. DOMAIN chain' = 1..(Len(chain) + 1) /\ chain'[Len(chain) + 1] = s
        /\ \A i \in 1..Len(chain) : chain'[i] = chain[i]
    BY <1>1, <1>6, <1>7
  <2>5. ToSet(chain') \subseteq ToSet(chain) \cup {s}
    BY <1>6, <2>2, <2>4 DEF ToSet
  <2>6. IsInjective(chain')
    <3> SUFFICES ASSUME NEW i \in 1..(Len(chain) + 1), NEW j \in 1..(Len(chain) + 1),
                        chain'[i] = chain'[j]
                 PROVE  i = j
      BY <2>4 DEF IsInjective
    <3>1. CASE i \in 1..Len(chain) /\ j \in 1..Len(chain)
      BY <1>6, <2>1, <2>4, <3>1 DEF IsInjective
    <3>2. CASE i = Len(chain) + 1 /\ j \in 1..Len(chain)
      BY <2>2, <2>3, <2>4, <3>2
    <3>3. CASE j = Len(chain) + 1 /\ i \in 1..Len(chain)
      BY <2>2, <2>3, <2>4, <3>3
    <3> QED BY <1>6, <3>1, <3>2, <3>3
  <2>7. \A o \in owned : o.track = t => o.sector # s
    BY <1>5 DEF DiskInv, OwnedOnce
  <2> QED BY <1>13, <2>1, <2>5, <2>6, <2>7 DEF DirBlocksApart
<1>16. OwnedOnce'
  <2>1. \A o \in owned : o.track \in DOMAIN free'
    BY <1>13 DEF DiskInv, OwnedOnce
  <2> QED BY <1>13, <2>1 DEF DiskInv, OwnedOnce
<1> QED BY <1>7, <1>11, <1>12, <1>14, <1>15, <1>16 DEF DiskInv

(* alloc_next_dir_ts that adds no block changes no slot. *)
LEMMA NothingAdded ==
  ASSUME DiskTypeOK, NEW e, NewDirBlock(e), chain' = chain
  PROVE  \/ status' = 72 /\ UNCHANGED <<chain, slots, free, outcome>>
         \/ outcome' = "hung" /\ UNCHANGED <<chain, slots, free, status>>
<1> DEFINE s == SearchFrom(DirTrack(type), Last(chain) + 3)
<1>1. chain' # Append(chain, s)
  <2> HIDE DEF s
  <2>1. chain \in Seq(Sectors(type, DirTrack(type)))
    BY DEF DiskTypeOK
  <2>2. Len(Append(chain, s)) = Len(chain) + 1 /\ Len(chain) \in Nat
    BY <2>1
  <2> QED BY <2>2
<1> QED BY <1>1, Zenon DEF NewDirBlock

(* Creating a file keeps the directory's blocks apart (di_open with "wb",  *)
(* alloc_file_entry, alloc_next_dir_ts).                                   *)
LEMMA CreateKeepsDisk ==
  ASSUME DiskInv, NEW n \in Names, NEW t \in CreateTypes, Create(n, t)
  PROVE  DiskInv'
<1> DEFINE e == NewEntry(n, t)
<1>1. e \in Entry
  BY DirectoryAssumption DEF NewEntry, Entry
<1>2. CASE SlotsNamed(n) # {} /\ status' = 63 /\ UNCHANGED <<chain, slots, free, outcome>>
  BY <1>2 DEF Create, DiskInv, DiskTypeOK, DirBlocksApart, OwnedOnce, ProperEntries, SearchSlots
<1>3. CASE /\ SlotsNamed(n) = {} /\ EmptySlots # {}
           /\ slots' = [slots EXCEPT ![Min(EmptySlots)] = e]
           /\ status' = 0
           /\ UNCHANGED <<chain, free, outcome>>
  <2>1. Min(EmptySlots) \in DOMAIN slots
    BY <1>3, EmptySlotsAre DEF DiskInv
  <2> HIDE DEF e
  <2>2. /\ slots' \in [0..((Len(chain') + 1) * SlotsPerBlock - 1) -> Slot]
        /\ DOMAIN slots' = DOMAIN slots
        /\ ProperEntries'
    BY <1>1, <1>3, <2>1, SlotWritten DEF DiskInv
  <2>3. UNCHANGED <<type, owned>>
    BY DEF Create
  <2> QED BY <1>3, <2>2, <2>3 DEF DiskInv, DiskTypeOK, DirBlocksApart, OwnedOnce
<1>4. CASE SlotsNamed(n) = {} /\ EmptySlots = {} /\ NewDirBlock(e)
  <2>1. UNCHANGED <<type, owned>>
    BY DEF Create
  <2>2. CASE chain' # chain
    <3> HIDE DEF e
    <3> QED BY <1>1, <1>4, <2>1, <2>2, BlockAdded
  <2>3. CASE chain' = chain
    <3>1. UNCHANGED <<slots, free>> /\ status' \in {0, 1, 62, 63, 64, 72, 254}
          /\ outcome' \in {"running", "hung"}
      <4>1. \/ status' = 72 /\ UNCHANGED <<chain, slots, free, outcome>>
            \/ outcome' = "hung" /\ UNCHANGED <<chain, slots, free, status>>
        BY <1>4, <2>3, NothingAdded DEF DiskInv
      <4> QED BY <4>1 DEF DiskInv, DiskTypeOK
    <3> QED BY <2>1, <2>3, <3>1
            DEF DiskInv, DiskTypeOK, DirBlocksApart, OwnedOnce, ProperEntries, SearchSlots
  <2> QED BY <2>2, <2>3
<1> QED BY <1>2, <1>3, <1>4 DEF Create

(* A file's new block is one that was free (alloc_next_ts). *)
LEMMA StoreBlockKeepsDisk ==
  ASSUME DiskInv, NEW p \in DOMAIN slots, StoreBlock(p)
  PROVE  DiskInv'
<1>0. PICK t \in DirTracks(type) : \E s \in free[t] :
        /\ free' = [free EXCEPT ![t] = @ \ {s}]
        /\ owned' = owned \cup {[track |-> t, sector |-> s, slot |-> p]}
  BY DEF StoreBlock
<1>1. PICK s \in free[t] :
        /\ free' = [free EXCEPT ![t] = @ \ {s}]
        /\ owned' = owned \cup {[track |-> t, sector |-> s, slot |-> p]}
  BY <1>0
<1>2. UNCHANGED <<type, chain, slots, status, outcome>>
  BY DEF StoreBlock
<1>3. /\ t \in DOMAIN free /\ free[t] \subseteq Sectors(type, t)
      /\ DOMAIN free' = DOMAIN free
      /\ \A u \in DOMAIN free : free'[u] = IF u = t THEN free[u] \ {s} ELSE free[u]
  BY <1>1 DEF DiskInv, DiskTypeOK
<1>4. DiskTypeOK'
  BY <1>1, <1>2, <1>3 DEF DiskInv, DiskTypeOK
<1>5. DirBlocksApart'
  <2>1. DirTrack(type) \in DOMAIN free
    BY DEF DiskInv, DiskTypeOK, DirTracks
  <2>2. t = DirTrack(type) => s \notin ToSet(chain)
    BY <1>1 DEF DiskInv, DirBlocksApart
  <2> QED BY <1>1, <1>2, <1>3, <2>1, <2>2 DEF DiskInv, DirBlocksApart
<1>6. OwnedOnce'
  <2>1. \A o \in owned : o.track \in DOMAIN free /\ o.sector \notin free[o.track]
    BY DEF DiskInv, DiskTypeOK, OwnedOnce
  <2>2. \A o \in owned : o.track # t \/ o.sector # s
    BY <1>1, <2>1
  <2>3. \A o \in owned' : o.track \in DirTracks(type') /\ o.sector \notin free'[o.track]
    BY <1>1, <1>2, <1>3, <2>1 DEF DiskInv, DiskTypeOK
  <2>4. \A o, u \in owned' : o.track = u.track /\ o.sector = u.sector => o = u
    BY <1>1, <2>2 DEF DiskInv, OwnedOnce
  <2> QED BY <2>3, <2>4 DEF OwnedOnce
<1>7. ProperEntries'
  BY <1>2 DEF DiskInv, ProperEntries, SearchSlots
<1> QED BY <1>4, <1>5, <1>6, <1>7 DEF DiskInv

(* The entries that match are entries. *)
LEMMA MatchingAre ==
  ASSUME DiskInv, NEW names, NEW t
  PROVE  /\ Matching(names, t) \subseteq SearchSlots /\ SearchSlots \subseteq DOMAIN slots
         /\ SearchSlots \subseteq Nat
         /\ Matching(names, t) # {} => Min(Matching(names, t)) \in Matching(names, t)
         /\ \A p \in Matching(names, t) : Min(Matching(names, t)) <= p
<1>1. SearchSlots \subseteq Nat
  BY SlotsAre DEF DiskInv
<1>2. Matching(names, t) \subseteq SearchSlots /\ SearchSlots \subseteq DOMAIN slots
  BY DEF Matching, SearchSlots
<1> QED BY <1>1, <1>2, MinIs

(* Deleting gives each block back that a deleted file has, and no other    *)
(* file or directory has it (di_delete).                                   *)
LEMMA DeleteKeepsDisk ==
  ASSUME DiskInv, NEW names, NEW t, Delete(names, t)
  PROVE  DiskInv'
<1> DEFINE found == Matching(names, t)
           gone  == {o \in owned : o.slot \in found}
<1>1. UNCHANGED <<type, chain, outcome>>
  BY DEF Delete
<1>2. CASE status' = 64 /\ UNCHANGED <<slots, free, owned, stayed>>
  BY <1>1, <1>2 DEF DiskInv, DiskTypeOK, DirBlocksApart, OwnedOnce, ProperEntries, SearchSlots
<1>3. CASE /\ slots' = [p \in DOMAIN slots |-> IF p \in found THEN Empty ELSE slots[p]]
           /\ owned' = owned \ gone
           /\ free' = [u \in DOMAIN free |->
                         free[u] \cup {o.sector : o \in {g \in gone : g.track = u}}]
           /\ status' = IF found = {} THEN 62 ELSE 1
  <2> HIDE DEF found
  <2>1. /\ DOMAIN slots' = DOMAIN slots
        /\ \A p \in DOMAIN slots : slots'[p] = slots[p] \/ slots'[p] = Empty
    BY <1>3
  <2>2. slots' \in [0..((Len(chain') + 1) * SlotsPerBlock - 1) -> Slot]
    <3> DEFINE d == 0..((Len(chain) + 1) * SlotsPerBlock - 1)
    <3>1. slots \in [d -> Slot]
      BY DEF DiskInv, DiskTypeOK
    <3>2. Empty \in Slot
      BY DEF Empty, Slot
    <3> HIDE DEF d
    <3>3. slots' \in [d -> Slot]
      BY <1>3, <3>1, <3>2
    <3> QED BY <1>1, <3>3 DEF d
  <2>3. ProperEntries'
    BY <2>1 DEF DiskInv, ProperEntries, SearchSlots
  <2>4. \A o \in owned : o.track \in DOMAIN free /\ o.sector \in Sectors(type, o.track)
                         /\ o.sector \notin free[o.track]
    BY DEF DiskInv, DiskTypeOK, OwnedOnce
  <2>5. DOMAIN free' = DOMAIN free
        /\ \A u \in DOMAIN free : \A s : s \in free'[u] <=>
             s \in free[u] \/ \E o \in gone : o.track = u /\ o.sector = s
    BY <1>3
  <2>6. DiskTypeOK'
    BY <1>1, <1>3, <2>1, <2>2, <2>4, <2>5 DEF DiskInv, DiskTypeOK
  <2>7. DirBlocksApart'
    <3>1. DirTrack(type) \in DOMAIN free
      BY DEF DiskInv, DiskTypeOK, DirTracks
    <3> QED BY <1>1, <1>3, <2>5, <3>1 DEF DiskInv, DirBlocksApart
  <2>8. OwnedOnce'
    BY <1>1, <1>3, <2>4, <2>5 DEF DiskInv, OwnedOnce
  <2> QED BY <2>3, <2>6, <2>7, <2>8 DEF DiskInv
<1> QED BY <1>2, <1>3, Zenon DEF Delete

(* A renamed entry is an entry (di_rename). *)
LEMMA RenameKeepsDisk ==
  ASSUME DiskInv, NEW names, NEW n \in Names, NEW t \in AskedTypes, Rename(names, n, t)
  PROVE  DiskInv'
<1> DEFINE found == Matching(names, t)
           p == Min(found)
<1>1. UNCHANGED <<type, chain, free, owned, outcome>>
  BY DEF Rename
<1>2. CASE found = {} /\ status' = 62 /\ UNCHANGED slots
  BY <1>1, <1>2 DEF DiskInv, DiskTypeOK, DirBlocksApart, OwnedOnce, ProperEntries, SearchSlots
<1>3. CASE found # {} /\ slots' = [slots EXCEPT ![p].name = n] /\ status' = 0
  <2>1. p \in found /\ p \in DOMAIN slots /\ p \in SearchSlots
    BY <1>3, MatchingAre
  <2> HIDE DEF p
  <2>2. slots[p] \in Entry \cup {Empty}
    BY <2>1 DEF DiskInv, ProperEntries
  <2>3. slots[p].type = t /\ t \in FileTypes
    BY <2>1, DirectoryAssumption DEF Matching
  <2> DEFINE e == [slots[p] EXCEPT !.name = n]
  <2>4. slots' = [slots EXCEPT ![p] = e]
    BY <1>3
  <2>5. e \in Entry
    BY <2>2, <2>3 DEF Entry, Empty, FileTypes
  <2> HIDE DEF e
  <2>6. /\ slots' \in [0..((Len(chain') + 1) * SlotsPerBlock - 1) -> Slot]
        /\ DOMAIN slots' = DOMAIN slots
        /\ ProperEntries'
    BY <1>1, <2>1, <2>4, <2>5, SlotWritten DEF DiskInv
  <2> QED BY <1>1, <1>3, <2>6 DEF DiskInv, DiskTypeOK, DirBlocksApart, OwnedOnce
<1> QED BY <1>2, <1>3, Zenon DEF Rename

-----------------------------------------------------------------------------
(* Streams. *)

StreamTypeOK ==
  /\ stream = [open |-> stream.open, at |-> stream.at, buffer |-> stream.buffer,
               more |-> stream.more]
  /\ stream.open \in BOOLEAN /\ stream.more \in BOOLEAN
  /\ stream.at \in 0..((Len(chain) + 1) * SlotsPerBlock)
  /\ stream.buffer = <<>> \/ stream.buffer \in [SlotsOf(BlockOf(stream.at)) -> Slot]
  /\ listed \in Seq(DOMAIN slots)

(* What a stream may still come to, entries or not. *)
Before(p) == p >= stream.at /\ (p \in DOMAIN stream.buffer \/ stream.more)

(* A stream has returned only what lies behind it, each slot once; of the  *)
(* entries that stayed it has returned or will come to each, and a copy of *)
(* one that it still holds is the entry as it is.                          *)
StreamInv ==
  /\ StreamTypeOK
  /\ IsInjective(listed)
  /\ \A i \in DOMAIN listed : listed[i] < stream.at
  /\ stayed \subseteq Entries
  /\ ~stream.open => stream = NoStream /\ listed = <<>> /\ stayed = {}
  /\ stream.buffer = <<>> => ~stream.more
  /\ \A p \in stayed : p \in ToSet(listed) \/ Before(p)
  /\ \A p \in stayed \cap DOMAIN stream.buffer : stream.buffer[p] = slots[p]

(* What ListedOnce says of a stream at its end. *)
LEMMA ListedAll ==
  ASSUME StreamInv
  PROVE  ListedOnce
BY DEF StreamInv, ListedOnce, Before

(* A call that is not the stream's own keeps it, if it changes none of the *)
(* entries that are said to stay and takes away no block.                  *)
LEMMA StreamKept ==
  ASSUME DiskInv, DiskInv', StreamInv, UNCHANGED <<stream, listed>>,
         stayed' \subseteq stayed, Len(chain) <= Len(chain'), DOMAIN slots \subseteq DOMAIN slots',
         \A p \in stayed' : slots'[p] = slots[p]
  PROVE  StreamInv'
<1>1. Len(chain) \in Nat /\ Len(chain') \in Nat
  BY SlotsAre DEF DiskInv, DiskTypeOK
<1>2. (Len(chain) + 1) * SlotsPerBlock <= (Len(chain') + 1) * SlotsPerBlock
  <2> DEFINE n == Len(chain) + 1
             m == Len(chain') + 1
  <2>1. n \in Nat /\ m \in Nat /\ n <= m
    BY <1>1
  <2> HIDE DEF n, m
  <2>2. n * SlotsPerBlock <= m * SlotsPerBlock
    BY <2>1, SlotNumbers
  <2> QED BY <2>2 DEF n, m
<1>3. (Len(chain) + 1) * SlotsPerBlock \in Nat /\ (Len(chain') + 1) * SlotsPerBlock \in Nat
  BY <1>1, SlotNumbers
<1>4. StreamTypeOK'
  <2>1. stream.at \in 0..((Len(chain') + 1) * SlotsPerBlock)
    BY <1>2, <1>3 DEF StreamInv, StreamTypeOK
  <2> QED BY <2>1 DEF StreamInv, StreamTypeOK
<1>5. stayed' \subseteq Entries'
  BY DEF StreamInv, Entries, SearchSlots
<1> QED BY <1>4, <1>5 DEF StreamInv, Before, NoStream

(* A block as a stream copies it. *)
LEMMA BlockSlotsAre ==
  ASSUME DiskTypeOK, NEW b \in 0..Len(chain)
  PROVE  /\ BlockSlots(b) \in [SlotsOf(b) -> Slot] /\ BlockSlots(b) # <<>>
         /\ DOMAIN BlockSlots(b) = SlotsOf(b)
         /\ \A p \in SlotsOf(b) \cap SearchSlots : BlockSlots(b)[p] = slots[p]
         /\ \A p \in SlotsOf(b) \ SearchSlots : BlockSlots(b)[p] = HeaderSlots[p]
<1>0. b \in Nat /\ SlotsOf(b) \subseteq DOMAIN slots
  BY SlotsAre
<1>1. SlotsOf(b) \subseteq DOMAIN slots /\ b * SlotsPerBlock \in SlotsOf(b) /\ b \in Nat
      /\ SlotsOf(b) \subseteq Nat
  BY <1>0, SlotNumbers
<1>2. CASE b = 0
  <2>1. [type |-> "rel", name |-> "-"] \in Slot /\ Empty \in Slot
    BY DEF Empty, Slot, FileTypes
  <2>2. HeaderSlots \in [SlotsOf(0) -> Slot]
    BY <2>1, Zenon DEF HeaderSlots
  <2>3. SlotsOf(0) \cap SearchSlots = {}
    <3> SUFFICES ASSUME NEW p \in SlotsOf(0), p \in SearchSlots PROVE FALSE
      OBVIOUS
    <3>1. p \in Nat /\ BlockOf(p) = 0
      BY <1>1, <1>2, SlotNumbers
    <3>2. 1 <= BlockOf(p)
      BY SlotsAre
    <3> QED BY <3>1, <3>2
  <2> QED BY <1>1, <1>2, <2>2, <2>3 DEF BlockSlots
<1>3. CASE b # 0
  <2>1. \A p \in SlotsOf(b) : slots[p] \in Slot
    BY <1>1 DEF DiskTypeOK
  <2>2. BlockSlots(b) = [p \in SlotsOf(b) |-> slots[p]]
    BY <1>3 DEF BlockSlots
  <2>3. BlockSlots(b) \in [SlotsOf(b) -> Slot]
    BY <2>1, <2>2
  <2>4. SlotsOf(b) \subseteq SearchSlots
    <3> SUFFICES ASSUME NEW p \in SlotsOf(b) PROVE p \in SearchSlots
      OBVIOUS
    <3>1. p \in Nat /\ BlockOf(p) = b
      BY <1>1, SlotNumbers
    <3> QED BY <1>0, <1>3, <3>1, SlotsAre
  <2> QED BY <1>1, <2>2, <2>3, <2>4
<1> QED BY <1>2, <1>3

(* A stream that was just opened (di_opendir). *)
LEMMA OpenedStream ==
  ASSUME DiskInv, UNCHANGED <<type, chain, slots>>,
         stream' = [open |-> TRUE, at |-> FirstListed * SlotsPerBlock,
                    buffer |-> BlockSlots(FirstListed), more |-> TRUE],
         listed' = <<>>, stayed' = Entries
  PROVE  StreamInv'
<1> DEFINE b == FirstListed
<1>1. b \in 0..Len(chain) /\ b \in Nat /\ b <= 1
  BY SlotsAre DEF DiskInv, FirstListed
<1> HIDE DEF b
<1>2. BlockSlots(b) \in [SlotsOf(b) -> Slot] /\ BlockSlots(b) # <<>>
      /\ DOMAIN BlockSlots(b) = SlotsOf(b)
      /\ \A p \in SlotsOf(b) \cap SearchSlots : BlockSlots(b)[p] = slots[p]
  BY <1>1, BlockSlotsAre DEF DiskInv
<1>3. /\ b * SlotsPerBlock \in Nat /\ BlockOf(b * SlotsPerBlock) = b
      /\ b * SlotsPerBlock <= (Len(chain) + 1) * SlotsPerBlock
      /\ (Len(chain) + 1) * SlotsPerBlock \in Nat
      /\ b * SlotsPerBlock <= SlotsPerBlock
  <2>1. Len(chain) + 1 \in Nat /\ b <= Len(chain) + 1
    BY <1>1, SlotsAre DEF DiskInv
  <2>2. b * SlotsPerBlock \in SlotsOf(b) /\ b * SlotsPerBlock \in Nat
    BY <1>1, SlotNumbers
  <2>3. BlockOf(b * SlotsPerBlock) = b
    BY <1>1, <2>2, SlotNumbers
  <2>4. b * SlotsPerBlock <= (Len(chain) + 1) * SlotsPerBlock
    BY <1>1, <2>1, SlotNumbers
  <2>5. b * SlotsPerBlock <= SlotsPerBlock
    BY <1>1, DirectoryAssumption
  <2>6. (Len(chain) + 1) * SlotsPerBlock \in Nat
    BY <2>1, SlotNumbers
  <2> QED BY <2>2, <2>3, <2>4, <2>5, <2>6
<1>4. StreamTypeOK'
  BY <1>2, <1>3 DEF StreamTypeOK, b
<1>5. \A p \in Entries : p >= b * SlotsPerBlock
  <2>1. \A p \in SearchSlots : p \in Nat /\ p >= SlotsPerBlock
    BY SlotsAre DEF DiskInv, SearchSlots
  <2> QED BY <1>3, <2>1, DirectoryAssumption DEF Entries
<1>6. Entries' = Entries /\ Entries \subseteq SearchSlots
  BY DEF Entries, SearchSlots
<1>7. IsInjective(<<>>) /\ DOMAIN <<>> = {}
  BY DEF IsInjective
<1> QED BY <1>2, <1>4, <1>5, <1>6, <1>7 DEF StreamInv, Before, b

(* The step of a stream that returns the slot p of block b, and what it    *)
(* holds then of what lies before it.                                      *)
LEMMA ReadDirReturns ==
  ASSUME DiskInv, StreamInv, ReadDir, Ahead # {}
  PROVE  /\ Min(Ahead) \in Ahead /\ \A q \in Ahead : Min(Ahead) <= q
         /\ Ahead \subseteq DOMAIN slots /\ DOMAIN slots \subseteq Nat
         /\ listed' = Append(listed, Min(Ahead))
         /\ stream'.at = Min(Ahead) + 1
         /\ stream'.open
         /\ StreamTypeOK'
         /\ stream'.buffer = <<>> => ~stream'.more
         /\ \A q \in SearchSlots : q > Min(Ahead) /\ Before(q) => Before(q)'
         /\ \A q \in SearchSlots \cap DOMAIN stream'.buffer :
              stream'.buffer[q] = slots[q]
                \/ (q \in DOMAIN stream.buffer /\ stream'.buffer[q] = stream.buffer[q])
         /\ \A q \in DOMAIN stream'.buffer \ SearchSlots :
              stream'.buffer[q] = HeaderSlots[q]
                \/ (q \in DOMAIN stream.buffer /\ stream'.buffer[q] = stream.buffer[q])
<1> DEFINE p == Min(Ahead)
           b == BlockOf(p)
           more == IF p \in DOMAIN stream.buffer THEN stream.more ELSE b < Len(chain)
           kept == IF p \in DOMAIN stream.buffer THEN stream.buffer ELSE BlockSlots(b)
           same == [open |-> TRUE, at |-> p + 1, more |-> more, buffer |-> kept]
           next == [open |-> TRUE, at |-> p + 1, buffer |-> BlockSlots(b + 1),
                    more |-> b + 1 < Len(chain)]
           end  == [open |-> TRUE, at |-> p + 1, buffer |-> <<>>, more |-> FALSE]
<1>1. DiskTypeOK /\ Len(chain) \in Nat \ {0} /\ DOMAIN slots \subseteq Nat
      /\ DOMAIN slots = {q \in Nat : BlockOf(q) <= Len(chain)}
      /\ SearchSlots = {q \in Nat : 1 <= BlockOf(q) /\ BlockOf(q) <= Len(chain)}
  BY SlotsAre DEF DiskInv
<1>2. Ahead \subseteq DOMAIN slots
  BY DEF Ahead
<1>3. p \in Ahead /\ \A q \in Ahead : p <= q
  BY <1>1, <1>2, MinIs
<1> HIDE DEF p
<1>4. p \in Nat /\ b \in 0..Len(chain) /\ p >= stream.at
      /\ (p \in DOMAIN stream.buffer \/ stream.more)
  <2>1. p \in Nat /\ b <= Len(chain)
    BY <1>1, <1>2, <1>3
  <2>2. b \in Nat
    BY <2>1, BlockNumbers
  <2> QED BY <1>1, <1>3, <2>1, <2>2 DEF Ahead
<1>5. /\ listed' = Append(listed, p)
      /\ \/ BlockOf(p + 1) # b /\ more /\ b < Len(chain) /\ stream' = next
         \/ BlockOf(p + 1) # b /\ ~(more /\ b < Len(chain)) /\ stream' = end
         \/ BlockOf(p + 1) = b /\ stream' = same
  BY Zenon DEF ReadDir, Refilled, p
<1>6. UNCHANGED <<type, chain, slots>>
  BY DEF ReadDir, dirVars
<1>7. /\ p \in SlotsOf(b)
      /\ BlockOf(p + 1) # b =>
           p + 1 = (b + 1) * SlotsPerBlock /\ BlockOf(p + 1) = b + 1
      /\ p + 1 \in 0..((Len(chain) + 1) * SlotsPerBlock)
      /\ \A q \in Nat : BlockOf(q) \in Nat /\ (q > p => BlockOf(q) >= b)
      /\ \A q \in Nat : q > p /\ BlockOf(p + 1) # b => BlockOf(q) >= b + 1
  <2>1. /\ p \in SlotsOf(b) /\ b * SlotsPerBlock <= p
        /\ BlockOf(p + 1) # b =>
             p + 1 = (b + 1) * SlotsPerBlock /\ BlockOf(p + 1) = b + 1
    BY <1>4, BlockNumbers
  <2>2. p + 1 \in 0..((Len(chain) + 1) * SlotsPerBlock)
    <3>1. p <= (Len(chain) + 1) * SlotsPerBlock - 1 /\ (Len(chain) + 1) * SlotsPerBlock \in Nat
      BY <1>1, <1>4, BlockNumbers, SlotNumbers
    <3> QED BY <1>4, <3>1
  <2>3. ASSUME NEW q \in Nat PROVE BlockOf(q) \in Nat /\ (q > p => BlockOf(q) >= b)
    <3>1. b \in Nat /\ b * SlotsPerBlock \in Nat
      BY <1>4, SlotNumbers
    <3>2. BlockOf(q) \in Nat /\ (q >= b * SlotsPerBlock <=> BlockOf(q) >= b)
      BY <3>1, BlockNumbers
    <3> DEFINE m == b * SlotsPerBlock
    <3>3. q > p => q >= m
      <4>1. p \in Nat /\ m \in Nat /\ m <= p
        BY <1>4, <2>1, <3>1
      <4> HIDE DEF m
      <4> QED BY <4>1
    <3> QED BY <3>2, <3>3
  <2>4. ASSUME NEW q \in Nat, q > p, BlockOf(p + 1) # b PROVE BlockOf(q) >= b + 1
    <3>1. b + 1 \in Nat
      BY <1>4
    <3>2. q >= (b + 1) * SlotsPerBlock <=> BlockOf(q) >= b + 1
      BY <3>1, BlockNumbers
    <3>3. q >= (b + 1) * SlotsPerBlock
      <4>1. p \in Nat /\ p + 1 = (b + 1) * SlotsPerBlock
        BY <1>4, <2>1, <2>4
      <4>2. q >= p + 1
        BY <2>4, <4>1
      <4> QED BY <4>1, <4>2, Zenon
    <3> QED BY <3>2, <3>3
  <2> QED BY <2>1, <2>2, <2>3, <2>4
<1>8. /\ \A c \in 0..Len(chain) :
           /\ BlockSlots(c) \in [SlotsOf(c) -> Slot] /\ BlockSlots(c) # <<>>
           /\ DOMAIN BlockSlots(c) = SlotsOf(c)
           /\ \A q \in SlotsOf(c) \cap SearchSlots : BlockSlots(c)[q] = slots[q]
           /\ \A q \in SlotsOf(c) \ SearchSlots : BlockSlots(c)[q] = HeaderSlots[q]
      /\ \A c \in 0..Len(chain), q \in Nat : q \in SlotsOf(c) <=> BlockOf(q) = c
  <2>1. ASSUME NEW c \in 0..Len(chain), NEW q \in Nat PROVE q \in SlotsOf(c) <=> BlockOf(q) = c
    <3>1. c \in Nat
      OBVIOUS
    <3> QED BY <3>1, SlotNumbers
  <2> QED BY <1>1, <2>1, BlockSlotsAre
<1>9. p \in DOMAIN stream.buffer =>
        /\ stream.buffer \in [SlotsOf(b) -> Slot] /\ DOMAIN stream.buffer = SlotsOf(b)
        /\ stream.buffer # <<>>
  <2> SUFFICES ASSUME p \in DOMAIN stream.buffer
               PROVE  stream.buffer \in [SlotsOf(b) -> Slot] /\ stream.buffer # <<>>
    OBVIOUS
  <2>1. stream.buffer # <<>>
    OBVIOUS
  <2>2. stream.buffer \in [SlotsOf(BlockOf(stream.at)) -> Slot]
    BY <2>1 DEF StreamInv, StreamTypeOK
  <2>3. stream.at \in Nat
    BY <1>1, SlotNumbers DEF StreamInv, StreamTypeOK
  <2>4. p \in SlotsOf(BlockOf(stream.at)) /\ BlockOf(stream.at) \in Nat
    BY <2>2, <2>3, BlockNumbers
  <2>5. BlockOf(stream.at) = b
    BY <1>4, <2>4, SlotNumbers
  <2> QED BY <2>1, <2>2, <2>5
<1>10. /\ kept \in [SlotsOf(b) -> Slot] /\ DOMAIN kept = SlotsOf(b) /\ kept # <<>>
       /\ more \in BOOLEAN
  <2>1. stream.more \in BOOLEAN /\ (b < Len(chain)) \in BOOLEAN
    BY DEF StreamInv, StreamTypeOK
  <2>2. more \in BOOLEAN
    BY <2>1, Zenon
  <2> QED BY <1>4, <1>8, <1>9, <2>2
<1>11. listed' \in Seq(DOMAIN slots')
  BY <1>2, <1>3, <1>5, <1>6 DEF StreamInv, StreamTypeOK
<1> HIDE DEF kept, more
<1>12. CASE BlockOf(p + 1) # b /\ more /\ b < Len(chain) /\ stream' = next
  <2> DEFINE c == b + 1
  <2>1. c \in 0..Len(chain) /\ BlockOf(p + 1) = c
    BY <1>1, <1>4, <1>7, <1>12
  <2> HIDE DEF c
  <2>2. /\ stream'.at = p + 1 /\ stream'.open /\ stream'.buffer = BlockSlots(c)
        /\ stream'.more = (c < Len(chain)) /\ stream' = next
    BY <1>12 DEF c
  <2>5. stream'.more \in BOOLEAN /\ (c < Len(chain) => stream'.more = TRUE)
    <3>1. (c < Len(chain)) \in BOOLEAN
      OBVIOUS
    <3> QED BY <2>2, <3>1, Zenon
  <2>6. stream' = [open |-> stream'.open, at |-> stream'.at, buffer |-> stream'.buffer,
                   more |-> stream'.more] /\ stream'.open \in BOOLEAN
    BY <2>2
  <2>3. StreamTypeOK'
    <3>1. stream'.at = p + 1 /\ stream'.buffer = BlockSlots(c)
      BY <2>2
    <3> QED BY <1>6, <1>7, <1>8, <1>11, <2>1, <2>5, <2>6, <3>1 DEF StreamTypeOK
  <2>4. ASSUME NEW q \in SearchSlots, q > p PROVE Before(q)'
    <3>1. q \in Nat /\ c <= BlockOf(q) /\ BlockOf(q) <= Len(chain) /\ BlockOf(q) \in Nat
      BY <1>1, <1>7, <1>12, <2>4 DEF c
    <3>2. q >= p + 1
      BY <1>4, <2>4, <3>1
    <3>3. BlockOf(q) = c => q \in DOMAIN BlockSlots(c)
      BY <1>8, <2>1, <3>1
    <3>4. stream'.at = p + 1 /\ stream'.buffer = BlockSlots(c)
      BY <2>2
    <3> QED BY <1>1, <2>1, <2>5, <3>1, <3>2, <3>3, <3>4 DEF Before
  <2> QED BY <1>1, <1>2, <1>3, <1>5, <1>8, <2>1, <2>2, <2>3, <2>4 DEF p
<1>13. CASE BlockOf(p + 1) # b /\ ~(more /\ b < Len(chain)) /\ stream' = end
  <2>1. /\ stream'.at = p + 1 /\ stream'.open /\ stream'.buffer = <<>>
        /\ stream'.more = FALSE /\ stream' = end
    BY <1>13
  <2>2. StreamTypeOK'
    BY <1>6, <1>7, <1>11, <2>1 DEF StreamTypeOK
  <2>3. ASSUME NEW q \in SearchSlots, q > p, Before(q) PROVE FALSE
    <3>1. q \in Nat /\ b + 1 <= BlockOf(q) /\ BlockOf(q) <= Len(chain) /\ BlockOf(q) \in Nat
      BY <1>1, <1>7, <1>13, <2>3
    <3>2. b < Len(chain)
      BY <1>1, <1>4, <3>1
    <3>3. p \in DOMAIN stream.buffer /\ ~stream.more
      BY <1>13, <3>2 DEF more
    <3>4. q \in SlotsOf(b)
      BY <1>9, <2>3, <3>3 DEF Before
    <3> QED BY <1>4, <1>8, <3>1, <3>4
  <2> QED BY <1>1, <1>2, <1>3, <1>5, <2>1, <2>2, <2>3 DEF p
<1>14. CASE BlockOf(p + 1) = b /\ stream' = same
  <2>1. /\ stream'.at = p + 1 /\ stream'.open /\ stream'.buffer = kept
        /\ stream'.more = more /\ stream' = same
    BY <1>14
  <2>2. StreamTypeOK'
    BY <1>6, <1>7, <1>10, <1>11, <1>14, <2>1 DEF StreamTypeOK
  <2>3. ASSUME NEW q \in SearchSlots, q > p, Before(q) PROVE Before(q)'
    <3>1. q \in Nat /\ b <= BlockOf(q) /\ BlockOf(q) <= Len(chain) /\ BlockOf(q) \in Nat
          /\ q >= p + 1
      BY <1>1, <1>4, <1>7, <2>3
    <3>2. CASE p \in DOMAIN stream.buffer
      BY <2>1, <2>3, <3>1, <3>2 DEF Before, kept, more
    <3>3. CASE p \notin DOMAIN stream.buffer /\ b < Len(chain)
      BY <2>1, <3>1, <3>3 DEF Before, more
    <3>4. CASE ~(b < Len(chain))
      <4>1. BlockOf(q) = b
        BY <1>1, <1>4, <3>1, <3>4
      <4>2. q \in SlotsOf(b)
        BY <1>4, <1>8, <3>1, <4>1
      <4> QED BY <1>10, <2>1, <3>1, <4>2 DEF Before
    <3> QED BY <3>2, <3>3, <3>4
  <2>4. ASSUME NEW q \in SearchSlots \cap DOMAIN kept
        PROVE  kept[q] = slots[q] \/ (q \in DOMAIN stream.buffer /\ kept[q] = stream.buffer[q])
    BY <1>4, <1>8 DEF kept
  <2>5. ASSUME NEW q \in DOMAIN kept \ SearchSlots
        PROVE  kept[q] = HeaderSlots[q]
                 \/ (q \in DOMAIN stream.buffer /\ kept[q] = stream.buffer[q])
    BY <1>4, <1>8 DEF kept
  <2> QED BY <1>1, <1>2, <1>3, <1>5, <1>10, <2>1, <2>2, <2>3, <2>4, <2>5 DEF p
<1> QED BY <1>5, <1>12, <1>13, <1>14

(* A slot that stays and was not returned lies ahead (di_readdir). *)
LEMMA LeftIsAhead ==
  ASSUME StreamInv, NEW q \in stayed, q \notin ToSet(listed)
  PROVE  q \in Ahead
<1>1. Before(q) /\ q \in SearchSlots /\ slots[q].type \in FileTypes
  BY DEF StreamInv, Entries
<1>2. View(q) = slots[q]
  BY DEF StreamInv, View
<1> QED BY <1>1, <1>2 DEF Before, Ahead, SearchSlots, FileTypes

(* di_readdir returns the next slot, or comes to the end when all that     *)
(* stayed has been returned.                                               *)
LEMMA ReadDirKeepsStream ==
  ASSUME DiskInv, StreamInv, ReadDir
  PROVE  StreamInv'
<1>1. UNCHANGED <<type, chain, slots, stayed>> /\ stream.open
  BY DEF ReadDir, dirVars
<1>2. Entries' = Entries /\ Entries \subseteq SearchSlots
  BY <1>1 DEF Entries, SearchSlots
<1>3. CASE Ahead = {}
  <2>1. stream' = [open |-> stream.open, at |-> stream.at, buffer |-> <<>>, more |-> FALSE]
        /\ listed' = listed
    BY <1>3 DEF ReadDir, StreamInv, StreamTypeOK
  <2>2. \A p \in stayed : p \in ToSet(listed)
    BY <1>3, LeftIsAhead
  <2>3. StreamTypeOK'
    BY <1>1, <2>1 DEF StreamInv, StreamTypeOK
  <2> QED BY <1>1, <1>2, <2>1, <2>2, <2>3 DEF StreamInv
<1>4. CASE Ahead # {}
  <2> DEFINE p == Min(Ahead)
  <2>1. /\ p \in Ahead /\ \A q \in Ahead : p <= q
        /\ Ahead \subseteq DOMAIN slots /\ DOMAIN slots \subseteq Nat
        /\ listed' = Append(listed, p) /\ stream'.at = p + 1 /\ stream'.open
        /\ StreamTypeOK'
        /\ stream'.buffer = <<>> => ~stream'.more
        /\ \A q \in SearchSlots : q > p /\ Before(q) => Before(q)'
        /\ \A q \in SearchSlots \cap DOMAIN stream'.buffer :
             stream'.buffer[q] = slots[q]
               \/ (q \in DOMAIN stream.buffer /\ stream'.buffer[q] = stream.buffer[q])
    BY <1>4, ReadDirReturns
  <2> HIDE DEF p
  <2>2. listed \in Seq(DOMAIN slots) /\ p \in DOMAIN slots /\ p \in Nat /\ p >= stream.at
        /\ stream.at \in Nat
    <3>1. stream.at \in Nat
      BY SlotsAre, SlotNumbers DEF StreamInv, StreamTypeOK, DiskInv
    <3> QED BY <2>1, <3>1 DEF StreamInv, StreamTypeOK, Ahead
  <2>3. /\ DOMAIN listed = 1..Len(listed) /\ DOMAIN listed' = 1..(Len(listed) + 1)
        /\ Len(listed) \in Nat /\ listed'[Len(listed) + 1] = p
        /\ \A i \in 1..Len(listed) : listed'[i] = listed[i] /\ listed[i] \in Nat
    BY <2>1, <2>2
  <2>4. \A i \in DOMAIN listed' : listed'[i] < stream'.at
    BY <2>1, <2>2, <2>3 DEF StreamInv
  <2>5. IsInjective(listed')
    <3> SUFFICES ASSUME NEW i \in 1..(Len(listed) + 1), NEW j \in 1..(Len(listed) + 1),
                        listed'[i] = listed'[j]
                 PROVE  i = j
      BY <2>3 DEF IsInjective
    <3>1. \A m \in 1..Len(listed) : listed'[m] < p
      BY <2>2, <2>3 DEF StreamInv
    <3>2. CASE i \in 1..Len(listed) /\ j \in 1..Len(listed)
      BY <2>3, <3>2 DEF StreamInv, IsInjective
    <3>3. CASE i = Len(listed) + 1 /\ j \in 1..Len(listed)
      BY <2>2, <2>3, <3>1, <3>3
    <3>4. CASE j = Len(listed) + 1 /\ i \in 1..Len(listed)
      BY <2>2, <2>3, <3>1, <3>4
    <3> QED BY <2>3, <3>2, <3>3, <3>4
  <2>6. ToSet(listed') = ToSet(listed) \cup {p}
    BY <2>3 DEF ToSet
  <2>7. ASSUME NEW q \in stayed PROVE q \in ToSet(listed') \/ Before(q)'
    <3>1. CASE q \in ToSet(listed) \/ q = p
      BY <2>6, <3>1
    <3>2. CASE q \notin ToSet(listed) /\ q # p
      <4>1. q \in Ahead /\ q \in SearchSlots /\ Before(q)
        BY <1>2, <3>2, LeftIsAhead DEF StreamInv
      <4>2. q > p
        BY <2>1, <2>2, <3>2, <4>1
      <4> QED BY <2>1, <4>1, <4>2
    <3> QED BY <3>1, <3>2
  <2>8. \A q \in stayed \cap DOMAIN stream'.buffer : stream'.buffer[q] = slots[q]
    BY <1>2, <2>1 DEF StreamInv
  <2> QED BY <1>1, <1>2, <2>1, <2>4, <2>5, <2>7, <2>8 DEF StreamInv
<1> QED BY <1>3, <1>4

-----------------------------------------------------------------------------
(* Every step. *)

(* An image as it is loaded (di_load_image). *)
LEMMA InitDisk ==
  ASSUME Init
  PROVE  DiskInv /\ StreamInv
<1>1. PICK i \in Images : type = i.type /\ chain = i.chain /\ slots = i.slots /\ free = i.free
  BY DEF Init
<1>2. owned = {} /\ status = 254 /\ outcome = "running"
      /\ stream = NoStream /\ listed = <<>> /\ stayed = {}
  BY DEF Init
<1>3. DiskTypeOK
  BY <1>1, <1>2, DirectoryAssumption DEF DiskTypeOK
<1>4. DirBlocksApart
  BY <1>1, <1>2, DirectoryAssumption DEF DirBlocksApart
<1>5. ProperEntries
  BY <1>1, DirectoryAssumption DEF ProperEntries, SearchSlots
<1>6. DiskInv
  BY <1>2, <1>3, <1>4, <1>5 DEF DiskInv, OwnedOnce
<1>7. (Len(chain) + 1) * SlotsPerBlock \in Nat
  <2>1. Len(chain) + 1 \in Nat
    BY <1>3, SlotsAre
  <2> QED BY <2>1, SlotNumbers
<1>8. StreamTypeOK
  BY <1>2, <1>7 DEF StreamTypeOK, NoStream
<1>9. IsInjective(<<>>) /\ DOMAIN <<>> = {}
  BY DEF IsInjective
<1>10. StreamInv
  BY <1>2, <1>8, <1>9 DEF StreamInv, NoStream
<1> QED BY <1>6, <1>10

(* What a call that creates does to the slots. *)
LEMMA CreateKeepsSlots ==
  ASSUME DiskInv, NEW n \in Names, NEW t \in CreateTypes, Create(n, t)
  PROVE  /\ Len(chain) <= Len(chain') /\ DOMAIN slots \subseteq DOMAIN slots'
         /\ \A p \in DOMAIN slots : slots[p].type # "del" => slots'[p] = slots[p]
         /\ UNCHANGED <<type, owned, stream, listed, stayed>>
<1> DEFINE e == NewEntry(n, t)
<1>0. UNCHANGED <<type, owned, stream, listed, stayed>>
  BY DEF Create
<1>1. e \in Entry
  BY DirectoryAssumption DEF NewEntry, Entry
<1>2. Len(chain) \in Nat /\ DiskTypeOK
  BY SlotsAre DEF DiskInv
<1>3. CASE SlotsNamed(n) # {} /\ UNCHANGED <<chain, slots>>
  BY <1>0, <1>2, <1>3
<1>4. CASE EmptySlots # {} /\ slots' = [slots EXCEPT ![Min(EmptySlots)] = e] /\ chain' = chain
  <2> DEFINE m == Min(EmptySlots)
  <2>1. m \in EmptySlots
    BY <1>2, <1>4, EmptySlotsAre
  <2> HIDE DEF m, e
  <2>2. slots[m].type = "del"
    BY <2>1 DEF EmptySlots
  <2>3. slots' = [slots EXCEPT ![m] = e]
    BY <1>4 DEF m
  <2> QED BY <1>0, <1>2, <1>4, <2>2, <2>3
<1>5. CASE NewDirBlock(e)
  <2>1. CASE chain' # chain
    <3> HIDE DEF e
    <3>1. Len(chain') = Len(chain) + 1 /\ DOMAIN slots \subseteq DOMAIN slots'
          /\ \A p \in DOMAIN slots : slots'[p] = slots[p]
      BY <1>0, <1>1, <1>5, <2>1, BlockAdded
    <3> QED BY <1>0, <1>2, <3>1
  <2>2. CASE chain' = chain
    <3>1. UNCHANGED slots
      BY <1>2, <1>5, <2>2, NothingAdded
    <3> QED BY <1>0, <1>2, <2>2, <3>1
  <2> QED BY <2>1, <2>2
<1> QED BY <1>3, <1>4, <1>5 DEF Create

(* The calls of the library keep the directory and the stream. *)
LEMMA LibraryStep ==
  ASSUME DiskInv, StreamInv, DirNext
  PROVE  DiskInv' /\ StreamInv'
<1>1. ASSUME NEW n \in Names, NEW t \in CreateTypes, Create(n, t)
      PROVE  DiskInv' /\ StreamInv'
  <2>1. DiskInv'
    BY <1>1, CreateKeepsDisk
  <2>2. /\ Len(chain) <= Len(chain') /\ DOMAIN slots \subseteq DOMAIN slots'
        /\ \A p \in DOMAIN slots : slots[p].type # "del" => slots'[p] = slots[p]
        /\ UNCHANGED <<type, owned, stream, listed, stayed>>
    BY <1>1, CreateKeepsSlots
  <2>3. \A p \in stayed : p \in DOMAIN slots /\ slots[p].type # "del"
    BY DEF StreamInv, Entries, SearchSlots, FileTypes
  <2>4. stayed' \subseteq stayed /\ \A p \in stayed' : slots'[p] = slots[p]
    BY <2>2, <2>3
  <2>5. UNCHANGED <<stream, listed>>
    BY <2>2
  <2>6. StreamInv'
    BY <2>1, <2>2, <2>4, <2>5, StreamKept
  <2> QED BY <2>1, <2>6
<1>2. ASSUME NEW p \in DOMAIN slots, StoreBlock(p)
      PROVE  DiskInv' /\ StreamInv'
  <2>1. DiskInv'
    BY <1>2, StoreBlockKeepsDisk
  <2>2. UNCHANGED <<chain, slots, stream, listed, stayed>>
    BY <1>2 DEF StoreBlock, streamVars
  <2>3. Len(chain) \in Nat
    BY SlotsAre DEF DiskInv
  <2>4. UNCHANGED <<stream, listed>> /\ Len(chain) <= Len(chain')
        /\ stayed' \subseteq stayed /\ DOMAIN slots \subseteq DOMAIN slots'
        /\ \A q \in stayed' : slots'[q] = slots[q]
    BY <2>2, <2>3
  <2>5. StreamInv'
    BY <2>1, <2>4, StreamKept
  <2> QED BY <2>1, <2>5
<1>3. ASSUME NEW names \in Patterns, NEW t \in AskedTypes, Delete(names, t)
      PROVE  DiskInv' /\ StreamInv'
  <2> DEFINE found == Matching(names, t)
  <2>1. DiskInv'
    BY <1>3, DeleteKeepsDisk
  <2>2. /\ UNCHANGED <<chain, stream, listed>>
        /\ \/ UNCHANGED <<slots, stayed>>
           \/ /\ slots' = [p \in DOMAIN slots |-> IF p \in found THEN Empty ELSE slots[p]]
              /\ stayed' = stayed \ found
    BY <1>3, Zenon DEF Delete
  <2>3. Len(chain) \in Nat
    BY SlotsAre DEF DiskInv
  <2>4. stayed \subseteq DOMAIN slots
    BY DEF StreamInv, Entries, SearchSlots
  <2> HIDE DEF found
  <2>5. UNCHANGED <<stream, listed>> /\ Len(chain) <= Len(chain')
        /\ stayed' \subseteq stayed /\ DOMAIN slots \subseteq DOMAIN slots'
        /\ \A q \in stayed' : slots'[q] = slots[q]
    BY <2>2, <2>3, <2>4
  <2>6. StreamInv'
    BY <2>1, <2>5, StreamKept
  <2> QED BY <2>1, <2>6
<1>4. ASSUME NEW names \in Patterns, NEW n \in Names, NEW t \in AskedTypes, Rename(names, n, t)
      PROVE  DiskInv' /\ StreamInv'
  <2> DEFINE m == Min(Matching(names, t))
  <2>1. DiskInv'
    BY <1>4, RenameKeepsDisk
  <2>2. /\ UNCHANGED <<chain, stream, listed>>
        /\ \/ UNCHANGED <<slots, stayed>>
           \/ slots' = [slots EXCEPT ![m].name = n] /\ stayed' = stayed \ {m}
    BY <1>4, Zenon DEF Rename
  <2>3. Len(chain) \in Nat
    BY SlotsAre DEF DiskInv
  <2>4. stayed \subseteq DOMAIN slots
    BY DEF StreamInv, Entries, SearchSlots
  <2> HIDE DEF m
  <2>5. UNCHANGED <<stream, listed>> /\ Len(chain) <= Len(chain')
        /\ stayed' \subseteq stayed /\ DOMAIN slots \subseteq DOMAIN slots'
        /\ \A q \in stayed' : slots'[q] = slots[q]
    BY <2>2, <2>3, <2>4
  <2>6. StreamInv'
    BY <2>1, <2>5, StreamKept
  <2> QED BY <2>1, <2>6
<1>5. ASSUME OpenDir PROVE DiskInv' /\ StreamInv'
  <2>1. UNCHANGED <<type, chain, slots, free, owned, outcome>> /\ status' = 0
    BY <1>5 DEF OpenDir
  <2>2. DiskInv'
    BY <2>1 DEF DiskInv, DiskTypeOK, DirBlocksApart, OwnedOnce, ProperEntries, SearchSlots
  <2>3. stayed' = Entries /\ listed' = <<>>
        /\ stream' = [open |-> TRUE, at |-> FirstListed * SlotsPerBlock,
                      buffer |-> BlockSlots(FirstListed), more |-> TRUE]
    BY <1>5, Zenon DEF OpenDir, Entries
  <2>4. UNCHANGED <<type, chain, slots>>
    BY <2>1
  <2> QED BY <2>2, <2>3, <2>4, OpenedStream
<1>6. ASSUME ReadDir PROVE DiskInv' /\ StreamInv'
  <2>1. UNCHANGED <<type, chain, slots, free, owned, outcome, status>>
    BY <1>6 DEF ReadDir, dirVars
  <2>2. DiskInv'
    BY <2>1 DEF DiskInv, DiskTypeOK, DirBlocksApart, OwnedOnce, ProperEntries, SearchSlots
  <2> QED BY <1>6, <2>2, ReadDirKeepsStream
<1>7. ASSUME CloseDir PROVE DiskInv' /\ StreamInv'
  <2>1. UNCHANGED <<type, chain, slots, free, owned, outcome, status>>
    BY <1>7 DEF CloseDir, dirVars
  <2>2. DiskInv'
    BY <2>1 DEF DiskInv, DiskTypeOK, DirBlocksApart, OwnedOnce, ProperEntries, SearchSlots
  <2>3. stream' = NoStream /\ listed' = <<>> /\ stayed' = {}
    BY <1>7 DEF CloseDir
  <2>4. (Len(chain) + 1) * SlotsPerBlock \in Nat
    <3>1. Len(chain) + 1 \in Nat
      BY SlotsAre DEF DiskInv
    <3> QED BY <3>1, SlotNumbers
  <2>5. StreamTypeOK'
    BY <2>1, <2>3, <2>4 DEF StreamTypeOK, NoStream
  <2>6. IsInjective(<<>>) /\ DOMAIN <<>> = {}
    BY DEF IsInjective
  <2> QED BY <2>2, <2>3, <2>5, <2>6 DEF StreamInv, NoStream
<1> QED BY <1>1, <1>2, <1>3, <1>4, <1>5, <1>6, <1>7, Zenon DEF DirNext

-----------------------------------------------------------------------------
(* The tool. *)

(* The entries the tool is to copy, and those it has come to. *)
Asked == {p \in Entries : ~Filtered(slots[p])}
Got == Asked \cap ToSet(listed)

(* Each entry the tool has come to has an output, opened for that entry    *)
(* unless its name finds one that does not collide with it.                *)
ToolInv ==
  /\ phase \in {"library", "extracting", "done", "failed"} /\ naming \in Namings
  /\ withData \subseteq Entries
  /\ \A o \in outputs : o.from \in Entries /\ o.whole \in BOOLEAN
  /\ phase = "library" => outputs = {} /\ withData = {}
  /\ phase # "library" => stayed = Entries
  /\ phase \in {"extracting", "done"} =>
       /\ \A p \in SearchSlots \cap DOMAIN stream.buffer : stream.buffer[p] = slots[p]
       /\ \A p \in DOMAIN stream.buffer \ SearchSlots : stream.buffer[p] = HeaderSlots[p]
       /\ IsFiniteSet(outputs) /\ Cardinality(outputs) = Cardinality(Got)
       /\ \A p \in Got : \E o \in outputs :
            o.name = OutName(p) /\ (Ambiguous(p) \/ o.from = p)
  /\ phase = "done" => Entries \subseteq ToSet(listed)

(* There are finitely many entries. *)
LEMMA EntriesFinite ==
  ASSUME DiskTypeOK
  PROVE  \A S : S \subseteq Entries => IsFiniteSet(S)
<1>1. (Len(chain) + 1) * SlotsPerBlock - 1 \in Int
  <2>1. Len(chain) + 1 \in Nat
    BY SlotsAre
  <2> QED BY <2>1, SlotNumbers
<1>2. IsFiniteSet(DOMAIN slots)
  BY <1>1, FS_Interval DEF DiskTypeOK
<1>3. Entries \subseteq DOMAIN slots
  BY DEF Entries, SearchSlots
<1> QED BY <1>2, <1>3, FS_Subset

(* The slot the tool comes to is an entry as it is in the image, or the    *)
(* header's, which is of no name that is looked for.                       *)
LEMMA NextIsEntry ==
  ASSUME DiskInv, StreamInv, ToolInv, phase = "extracting", ReadDir, Ahead # {}
  PROVE  LET p == Min(Ahead) IN
         /\ p \in SearchSlots => View(p) = slots[p] /\ p \in Entries
         /\ p \notin SearchSlots => View(p).name \notin Names
         /\ p \notin ToSet(listed)
         /\ ToSet(listed') = ToSet(listed) \cup {p}
<1> DEFINE p == Min(Ahead)
<1>1. /\ p \in Ahead /\ Ahead \subseteq DOMAIN slots /\ DOMAIN slots \subseteq Nat
      /\ listed' = Append(listed, p)
  BY ReadDirReturns
<1> HIDE DEF p
<1>2. p \in Nat /\ p \in DOMAIN slots /\ p >= stream.at /\ View(p).type # "del"
      /\ (p \in DOMAIN stream.buffer \/ stream.more)
  BY <1>1 DEF Ahead
<1>3. p \in SearchSlots => View(p) = slots[p] /\ p \in Entries
  <2> SUFFICES ASSUME p \in SearchSlots PROVE View(p) = slots[p] /\ p \in Entries
    OBVIOUS
  <2>1. View(p) = slots[p]
    BY DEF View, ToolInv
  <2>2. slots[p] \in Entry
    BY <1>2, <2>1 DEF DiskInv, ProperEntries, Empty
  <2> QED BY <2>1, <2>2 DEF Entries, Entry
<1>4. p \notin SearchSlots => View(p).name \notin Names
  <2> SUFFICES ASSUME p \notin SearchSlots PROVE View(p).name \notin Names
    OBVIOUS
  <2>1. BlockOf(p) = 0 /\ stream.at \in Nat
    <3>1. BlockOf(p) \in Nat /\ BlockOf(p) <= Len(chain) /\ ~(1 <= BlockOf(p))
      BY <1>2, BlockNumbers, SlotsAre DEF DiskInv
    <3>2. stream.at \in Nat
      BY SlotsAre, SlotNumbers DEF StreamInv, StreamTypeOK, DiskInv
    <3> QED BY <3>1, <3>2
  <2>2. BlockOf(stream.at) = 0
    <3>1. /\ BlockOf(stream.at) \in Nat /\ BlockOf(stream.at) * SlotsPerBlock <= stream.at
          /\ BlockOf(stream.at) * SlotsPerBlock \in Nat
      BY <2>1, BlockNumbers, SlotNumbers
    <3> DEFINE a == BlockOf(stream.at)
    <3>2. p >= a * SlotsPerBlock <=> BlockOf(p) >= a
      BY <1>2, <3>1, BlockNumbers
    <3> QED BY <1>2, <2>1, <3>1, <3>2
  <2>3. p \in SlotsOf(0)
    BY <1>2, <2>1, BlockNumbers
  <2>4. p \in DOMAIN stream.buffer
    BY <1>2, <2>2, <2>3 DEF StreamInv, StreamTypeOK
  <2>5. View(p) = HeaderSlots[p]
    BY <2>4 DEF View, ToolInv
  <2>6. HeaderSlots[p].name = "-"
    BY <2>3 DEF HeaderSlots, Empty
  <2> QED BY <2>5, <2>6, DirectoryAssumption
<1>5. listed \in Seq(DOMAIN slots) /\ stream.at \in Nat
  BY SlotsAre, SlotNumbers DEF StreamInv, StreamTypeOK, DiskInv
<1>6. p \notin ToSet(listed)
  BY <1>1, <1>2, <1>5 DEF StreamInv, ToSet
<1>7. ToSet(listed') = ToSet(listed) \cup {p}
  <2>1. /\ DOMAIN listed = 1..Len(listed) /\ DOMAIN listed' = 1..(Len(listed) + 1)
        /\ Len(listed) \in Nat /\ listed'[Len(listed) + 1] = p
        /\ \A i \in 1..Len(listed) : listed'[i] = listed[i]
    BY <1>1, <1>2, <1>5
  <2> QED BY <2>1 DEF ToSet
<1> QED BY <1>3, <1>4, <1>6, <1>7 DEF p

(* One file is opened, or none; it is an entry that matches and none       *)
(* before it matches.                                                      *)
LEMMA OpenedIs ==
  ASSUME DiskInv, ToolInv, NEW e, Opened(e) # {}
  PROVE  /\ e.name \in Names
         /\ \E q \in Entries : Opened(e) = {q} /\ q \in Matching(naming.pattern[e.name], e.type)
         /\ \A q \in Opened(e), p \in Matching(naming.pattern[e.name], e.type) : q <= p
<1> DEFINE found == Matching(naming.pattern[e.name], e.type)
<1>1. e.name \in Names /\ Opened(e) = {p \in found \cap withData : \A q \in found : p <= q}
  <2>1. CASE e.name \notin Names
    BY <2>1 DEF Opened
  <2>2. CASE e.name \in Names
    BY <2>2, Zenon DEF Opened
  <2> QED BY <2>1, <2>2
<1>2. found \subseteq Nat /\ withData \subseteq Entries
  BY MatchingAre DEF ToolInv
<1> HIDE DEF found
<1>3. PICK q \in Opened(e) : TRUE
  OBVIOUS
<1>4. Opened(e) = {q}
  <2> SUFFICES ASSUME NEW u \in Opened(e) PROVE u = q
    BY <1>3
  <2>1. u \in found /\ q \in found /\ u <= q /\ q <= u
    BY <1>1, <1>3
  <2>2. u \in Nat /\ q \in Nat
    BY <1>2, <2>1
  <2> QED BY <2>1, <2>2
<1>5. q \in Entries /\ q \in found /\ \A p \in found : q <= p
  BY <1>1, <1>2, <1>3
<1> QED BY <1>1, <1>4, <1>5 DEF found

(* What is asked for, and the names of the outputs, are of the entries. *)
LEMMA OutNamesKept ==
  ASSUME UNCHANGED <<slots, naming, wanted, lengths, type>>
  PROVE  /\ Entries' = Entries /\ SearchSlots' = SearchSlots /\ HeaderSlots' = HeaderSlots
         /\ Asked' = Asked
         /\ \A p \in Entries : OutName(p)' = OutName(p) /\ Ambiguous(p)' = Ambiguous(p)
<1>1. Entries' = Entries /\ SearchSlots' = SearchSlots /\ HeaderSlots' = HeaderSlots
  BY DEF Entries, SearchSlots, HeaderSlots
<1>2. Asked' = Asked
  BY <1>1 DEF Asked, Filtered
<1>3. \A p \in Entries : OutName(p)' = OutName(p)
  BY DEF OutName
<1>4. \A p \in Entries : Ambiguous(p)' = Ambiguous(p)
  BY <1>1 DEF Ambiguous, Matching
<1> QED BY <1>1, <1>2, <1>3, <1>4

(* A round that copies a file keeps what is said of the outputs. *)
LEMMA CopyKeepsTool ==
  ASSUME DiskInv, StreamInv, ToolInv, phase = "extracting", ReadDir, Ahead # {},
         ~Filtered(View(Min(Ahead))), Copy(Min(Ahead)),
         UNCHANGED <<naming, withData, lengths, wanted>>
  PROVE  /\ \A o \in outputs' : o.from \in Entries /\ o.whole \in BOOLEAN
         /\ phase' = "failed" \/
            /\ phase' = "extracting"
            /\ IsFiniteSet(outputs') /\ Cardinality(outputs') = Cardinality(Got')
            /\ \A p \in Got' : \E o \in outputs' :
                 o.name = OutName(p) /\ (Ambiguous(p) \/ o.from = p)
<1> DEFINE p == Min(Ahead)
           e == View(p)
<1>1. /\ p \in SearchSlots => View(p) = slots[p] /\ p \in Entries
      /\ p \notin SearchSlots => View(p).name \notin Names
      /\ p \notin ToSet(listed)
      /\ ToSet(listed') = ToSet(listed) \cup {p}
  BY NextIsEntry
<1>2. \A q \in Ahead : p <= q
  BY ReadDirReturns
<1> DEFINE made == {[name |-> OutName(p), from |-> q, whole |-> TRUE] : q \in Opened(e)}
           cut  == {[name |-> OutName(p), from |-> q, whole |-> FALSE] : q \in Opened(e)}
<1>3. \/ phase' = "failed" /\ UNCHANGED outputs
      \/ /\ Opened(e) # {} /\ ~Exists(p) /\ phase' \in {phase, "failed"}
         /\ outputs' = outputs \cup made \/ outputs' = outputs \cup cut
  BY DEF Copy, Fail, Output
<1>4. CASE phase' = "failed" /\ UNCHANGED outputs
  BY <1>4 DEF ToolInv
<1>5. ASSUME NEW whole \in BOOLEAN, Opened(e) # {}, ~Exists(p), phase' \in {phase, "failed"},
             outputs' = outputs \cup {[name |-> OutName(p), from |-> q, whole |-> whole] : q \in Opened(e)}
      PROVE  /\ \A o \in outputs' : o.from \in Entries /\ o.whole \in BOOLEAN
             /\ IsFiniteSet(outputs') /\ Cardinality(outputs') = Cardinality(Got')
             /\ \A u \in Got' : \E o \in outputs' :
                  o.name = OutName(u)' /\ (Ambiguous(u)' \/ o.from = u)
  <2>0. ~Filtered(e)
    OBVIOUS
  <2>1. PICK q \in Entries : Opened(e) = {q} /\ q \in Matching(naming.pattern[e.name], e.type)
    BY <1>5, OpenedIs
  <2>2. e.name \in Names
        /\ \A u \in Matching(naming.pattern[e.name], e.type) : q <= u
    BY <1>5, <2>1, OpenedIs
  <2>3. e = slots[p] /\ p \in Entries /\ p \in Nat
    <3>1. p \in SearchSlots
      BY <1>1, <2>2
    <3> QED BY <1>1, <3>1, SlotsAre DEF DiskInv
  <2>4. p \in Asked /\ p \notin Got
    BY <1>1, <2>0, <2>3 DEF Asked, Got
  <2> DEFINE new == [name |-> OutName(p), from |-> q, whole |-> whole]
  <2>5. outputs' = outputs \cup {new} /\ new \notin outputs /\ new.name = OutName(p) /\ new.from = q
    BY <1>5, <2>1 DEF Exists
  <2>6. Asked' = Asked /\ \A u \in Entries : OutName(u)' = OutName(u) /\ Ambiguous(u)' = Ambiguous(u)
    <3>1. UNCHANGED <<slots, naming, wanted, lengths, type>>
      BY DEF ReadDir, dirVars
    <3> QED BY <3>1, OutNamesKept
  <2>7. Got' = Got \cup {p}
    BY <1>1, <2>4, <2>6 DEF Got
  <2>8. IsFiniteSet(Got) /\ IsFiniteSet(outputs) /\ Cardinality(outputs) = Cardinality(Got)
    BY EntriesFinite DEF Got, Asked, DiskInv, ToolInv
  <2>9. IsFiniteSet(outputs') /\ Cardinality(outputs') = Cardinality(Got')
    <3> HIDE DEF p, new
    <3>1. Cardinality(Got \cup {p}) = Cardinality(Got) + 1
      BY <2>4, <2>8, FS_AddElement
    <3>2. IsFiniteSet(outputs \cup {new})
          /\ Cardinality(outputs \cup {new}) = Cardinality(outputs) + 1
      BY <2>5, <2>8, FS_AddElement
    <3> QED BY <2>5, <2>7, <2>8, <3>1, <3>2
  <2>10. \A o \in outputs' : o.from \in Entries /\ o.whole \in BOOLEAN
    BY <2>1, <2>5 DEF ToolInv
  <2>12. ~Ambiguous(p) => q = p
    <3> SUFFICES ASSUME ~Ambiguous(p), q # p PROVE FALSE
      OBVIOUS
    <3> HIDE DEF e
    <3>1. p \in Matching(naming.pattern[e.name], e.type)
      <4>1. slots[p].name \in naming.pattern[slots[p].name]
        BY <2>2, <2>3, NamingsAssumption DEF ToolInv
      <4> QED BY <2>3, <4>1 DEF Matching, Entries
    <3>2. q <= p /\ q \in Nat
      BY <2>1, <2>2, <3>1, MatchingAre
    <3>3. TextIn(naming, slots[q]) = TextIn(naming, slots[p]) /\ lengths[q] = lengths[p]
      BY <2>1, <2>3 DEF Ambiguous
    <3>4. OutName(q) = OutName(p)
      <4>1. slots[q].name \in naming.pattern[slots[p].name] /\ slots[q].type = slots[p].type
        BY <2>1, <2>3 DEF Matching
      <4>2. naming \in Namings /\ slots[p].name \in Names
        BY <2>2, <2>3 DEF ToolInv
      <4>3. slots[q].name \in Names
        BY <4>1, <4>2, NamingsAssumption
      <4>4. naming.text[slots[q].name] = naming.text[slots[p].name]
        BY <3>3, <4>2, <4>3 DEF TextIn
      <4>5. naming.out[slots[q].name] = naming.out[slots[p].name]
        BY <4>2, <4>3, <4>4, NamingsAssumption
      <4> QED BY <3>3, <4>1, <4>5 DEF OutName
    <3>5. ~Filtered(slots[q])
      BY <2>0, <2>3, <3>3 DEF Filtered, e
    <3>6. q \notin Ahead
      <4> HIDE DEF p
      <4> QED BY <1>2, <2>3, <3>2
    <3>7. q \in ToSet(listed)
      BY <2>1, <3>6, LeftIsAhead DEF ToolInv
    <3>8. q \in Got
      BY <2>1, <3>5, <3>7 DEF Got, Asked
    <3>9. \E o \in outputs : o.name = OutName(p)
      BY <3>4, <3>8 DEF ToolInv
    <3> QED BY <1>5, <3>9 DEF Exists
  <2>13. \A u \in Got' : \E o \in outputs' :
           o.name = OutName(u)' /\ (Ambiguous(u)' \/ o.from = u)
    <3> SUFFICES ASSUME NEW u \in Got'
                 PROVE  \E o \in outputs' : o.name = OutName(u)' /\ (Ambiguous(u)' \/ o.from = u)
      OBVIOUS
    <3>1. u \in Entries /\ OutName(u)' = OutName(u) /\ Ambiguous(u)' = Ambiguous(u)
      BY <2>3, <2>6, <2>7 DEF Got, Asked
    <3>2. CASE u = p
      <4> HIDE DEF p
      <4> QED BY <2>5, <2>12, <3>1, <3>2
    <3>3. CASE u # p
      <4>1. u \in Got
        BY <2>7, <3>3
      <4>2. PICK o \in outputs : o.name = OutName(u) /\ (Ambiguous(u) \/ o.from = u)
        BY <4>1 DEF ToolInv
      <4> QED BY <2>5, <3>1, <4>2
    <3> QED BY <3>2, <3>3
  <2> QED BY <2>9, <2>10, <2>13
<1>6. CASE /\ Opened(e) # {} /\ ~Exists(p) /\ phase' \in {phase, "failed"}
           /\ outputs' = outputs \cup made \/ outputs' = outputs \cup cut
  <2>1. /\ \A o \in outputs' : o.from \in Entries /\ o.whole \in BOOLEAN
        /\ IsFiniteSet(outputs') /\ Cardinality(outputs') = Cardinality(Got')
        /\ \A u \in Got' : \E o \in outputs' :
             o.name = OutName(u)' /\ (Ambiguous(u)' \/ o.from = u)
    <3>1. CASE outputs' = outputs \cup made
      BY <1>5, <1>6, <3>1
    <3>2. CASE outputs' = outputs \cup cut
      BY <1>5, <1>6, <3>2
    <3> QED BY <1>6, <3>1, <3>2
  <2>2. \A u \in Got' : OutName(u)' = OutName(u) /\ Ambiguous(u)' = Ambiguous(u)
    <3>1. UNCHANGED <<slots, naming, wanted, lengths, type>>
      BY DEF ReadDir, dirVars
    <3>2. Got' \subseteq Entries
      BY <3>1, OutNamesKept DEF Got, Asked, Entries, SearchSlots
    <3> QED BY <3>1, <3>2, OutNamesKept
  <2> HIDE DEF p, e, made, cut
  <2> QED BY <1>6, <2>1, <2>2
<1> QED BY <1>3, <1>4, <1>6

(* What the tool has said of its outputs holds on while it does no round. *)
LEMMA ToolKept ==
  ASSUME ToolInv, phase # "extracting",
         UNCHANGED toolVars, phase = "library" \/ UNCHANGED vars
  PROVE  ToolInv'
<1>1. CASE phase = "library"
  BY <1>1 DEF ToolInv, toolVars
<1>2. CASE phase # "library" /\ UNCHANGED vars
  <2>1. /\ UNCHANGED <<slots, stream, listed, stayed>>
        /\ UNCHANGED <<phase, naming, withData, lengths, wanted, outputs, type>>
    BY <1>2 DEF vars, dirVars, streamVars, toolVars
  <2>2. Entries' = Entries /\ SearchSlots' = SearchSlots /\ HeaderSlots' = HeaderSlots
        /\ Got' = Got
        /\ \A p \in Entries : OutName(p)' = OutName(p) /\ Ambiguous(p)' = Ambiguous(p)
    BY <2>1, OutNamesKept DEF Got
  <2>3. Got \subseteq Entries
    BY DEF Got, Asked
  <2> QED BY <2>1, <2>2, <2>3 DEF ToolInv
<1> QED BY <1>1, <1>2

(* The tool begins with a stream that was just opened and no output. *)
LEMMA StartStep ==
  ASSUME DiskInv, ToolInv, Start
  PROVE  DiskInv' /\ StreamInv' /\ ToolInv'
<1>1. /\ UNCHANGED <<type, chain, slots, free, owned, outcome, outputs>> /\ status' = 0
      /\ phase = "library" /\ phase' = "extracting" /\ withData' \subseteq Entries
      /\ naming' \in Namings /\ listed' = <<>> /\ stayed' = Entries
      /\ stream' = [open |-> TRUE, at |-> FirstListed * SlotsPerBlock,
                    buffer |-> BlockSlots(FirstListed), more |-> TRUE]
  BY DEF Start
<1>2. DiskInv'
  BY <1>1 DEF DiskInv, DiskTypeOK, DirBlocksApart, OwnedOnce, ProperEntries, SearchSlots
<1>3. StreamInv'
  BY <1>1, OpenedStream
<1>4. outputs' = {} /\ Got' = {}
  BY <1>1 DEF ToolInv, Got, ToSet
<1>5. Entries' = Entries /\ SearchSlots' = SearchSlots
  BY <1>1 DEF Entries, SearchSlots
<1>6. /\ \A p \in SearchSlots \cap DOMAIN stream'.buffer : stream'.buffer[p] = slots[p]
      /\ \A p \in DOMAIN stream'.buffer \ SearchSlots : stream'.buffer[p] = HeaderSlots[p]
  <2>1. FirstListed \in 0..Len(chain)
    BY SlotsAre DEF DiskInv, FirstListed
  <2>2. stream'.buffer = BlockSlots(FirstListed)
    BY <1>1
  <2> QED BY <2>1, <2>2, BlockSlotsAre DEF DiskInv
<1>7. HeaderSlots' = HeaderSlots
  BY DEF HeaderSlots
<1>8. IsFiniteSet({}) /\ Cardinality({}) = 0
  BY FS_EmptySet
<1>9. ToolInv'
  BY <1>1, <1>4, <1>5, <1>6, <1>7, <1>8 DEF ToolInv
<1> QED BY <1>2, <1>3, <1>9

(* A round of the tool's loop: the end of the directory, an entry that was *)
(* not asked for, or one that is copied.                                   *)
LEMMA ExtractStep ==
  ASSUME DiskInv, StreamInv, ToolInv, ExtractNext
  PROVE  DiskInv' /\ StreamInv' /\ ToolInv'
<1>1. /\ phase = "extracting" /\ ReadDir
      /\ UNCHANGED <<type, chain, slots, free, owned, outcome, status, stayed>>
      /\ UNCHANGED <<naming, withData, lengths, wanted>>
  BY DEF ExtractNext, ReadDir, dirVars
<1>2. DiskInv'
  BY <1>1 DEF DiskInv, DiskTypeOK, DirBlocksApart, OwnedOnce, ProperEntries, SearchSlots
<1>3. StreamInv'
  BY <1>1, ReadDirKeepsStream
<1>4. /\ Entries' = Entries /\ SearchSlots' = SearchSlots /\ HeaderSlots' = HeaderSlots
      /\ Asked' = Asked
      /\ \A p \in Entries : OutName(p)' = OutName(p) /\ Ambiguous(p)' = Ambiguous(p)
      /\ Asked \subseteq Entries /\ UNCHANGED <<slots, naming, withData, stayed>>
  BY <1>1, OutNamesKept DEF Asked
<1>5. /\ \A p \in SearchSlots \cap DOMAIN stream'.buffer : stream'.buffer[p] = slots[p]
      /\ \A p \in DOMAIN stream'.buffer \ SearchSlots : stream'.buffer[p] = HeaderSlots[p]
  <2>1. CASE Ahead = {}
    <3>1. stream'.buffer = <<>>
      BY <1>1, <2>1 DEF ReadDir, StreamInv, StreamTypeOK
    <3> QED BY <3>1
  <2>2. CASE Ahead # {}
    BY <1>1, <2>2, ReadDirReturns DEF ToolInv
  <2> QED BY <2>1, <2>2
<1>6. CASE Ahead = {} /\ phase' = "done" /\ UNCHANGED outputs
  <2>1. listed' = listed
    BY <1>1, <1>6 DEF ReadDir
  <2>2. Entries \subseteq ToSet(listed)
    BY <1>1, <1>6, LeftIsAhead DEF ToolInv
  <2>3. Got' = Got /\ Got \subseteq Entries
    BY <1>4, <2>1 DEF Got
  <2>4. ToolInv'
    BY <1>1, <1>4, <1>5, <1>6, <2>1, <2>2, <2>3 DEF ToolInv
  <2> QED BY <1>2, <1>3, <2>4
<1>7. CASE Ahead # {} /\ Filtered(View(Min(Ahead))) /\ UNCHANGED <<phase, outputs>>
  <2> DEFINE p == Min(Ahead)
  <2>1. /\ p \in SearchSlots => View(p) = slots[p]
        /\ ToSet(listed') = ToSet(listed) \cup {p}
    BY <1>1, <1>7, NextIsEntry
  <2>2. p \notin Asked
    BY <1>7, <2>1 DEF Asked, Entries
  <2> HIDE DEF p
  <2>3. Got' = Got /\ Got \subseteq Entries
    BY <1>4, <2>1, <2>2 DEF Got
  <2>4. ToolInv'
    BY <1>1, <1>4, <1>5, <1>7, <2>3 DEF ToolInv
  <2> QED BY <1>2, <1>3, <2>4
<1>8. CASE Ahead # {} /\ ~Filtered(View(Min(Ahead))) /\ Copy(Min(Ahead))
  <2>1. /\ \A o \in outputs' : o.from \in Entries /\ o.whole \in BOOLEAN
        /\ phase' = "failed" \/
           /\ phase' = "extracting"
           /\ IsFiniteSet(outputs') /\ Cardinality(outputs') = Cardinality(Got')
           /\ \A p \in Got' : \E o \in outputs' :
                o.name = OutName(p) /\ (Ambiguous(p) \/ o.from = p)
    BY <1>1, <1>8, CopyKeepsTool
  <2>2. Got' \subseteq Entries
    BY <1>4 DEF Got
  <2>3. ToolInv'
    BY <1>1, <1>4, <1>5, <2>1, <2>2 DEF ToolInv
  <2> QED BY <1>2, <1>3, <2>3
<1> QED BY <1>6, <1>7, <1>8, Zenon DEF ExtractNext

(* The inductive invariant of the specification. *)
DirInv == DiskInv /\ StreamInv /\ ToolInv

(* The invariant holds at first, *)
LEMMA ToolInitInv == ToolInit => DirInv
<1> SUFFICES ASSUME ToolInit PROVE DirInv
  OBVIOUS
<1>1. DiskInv /\ StreamInv
  BY InitDisk DEF ToolInit
<1>2. naming \in Namings
  BY NamingsAssumption DEF ToolInit
<1> QED BY <1>1, <1>2 DEF DirInv, ToolInit, ToolInv

(* and every step keeps it. *)
LEMMA ToolStepInv == DirInv /\ [Next]_allVars => DirInv'
<1> SUFFICES ASSUME DirInv, [Next]_allVars PROVE DirInv'
  OBVIOUS
<1>1. CASE Library
  <2>1. DiskInv' /\ StreamInv'
    BY <1>1, LibraryStep DEF Library, DirInv
  <2>2. ToolInv'
    BY <1>1, ToolKept DEF Library, DirInv
  <2> QED BY <2>1, <2>2 DEF DirInv
<1>2. CASE Start
  BY <1>2, StartStep DEF DirInv
<1>3. CASE ExtractNext
  BY <1>3, ExtractStep DEF DirInv
<1>4. CASE UNCHANGED allVars
  <2>1. UNCHANGED <<type, chain, slots, free, owned, status, outcome, stream, listed, stayed>>
        /\ UNCHANGED <<phase, naming, withData, lengths, wanted, outputs>>
    BY <1>4 DEF allVars, vars, dirVars, streamVars, toolVars
  <2>2. DiskInv'
    BY <2>1 DEF DirInv, DiskInv, DiskTypeOK, DirBlocksApart, OwnedOnce, ProperEntries, SearchSlots
  <2>3. StreamInv'
    BY <2>1 DEF DirInv, StreamInv, StreamTypeOK, Entries, SearchSlots, Before, NoStream
  <2>4. Entries' = Entries /\ SearchSlots' = SearchSlots /\ HeaderSlots' = HeaderSlots
        /\ Got' = Got
        /\ \A p \in Entries : OutName(p)' = OutName(p) /\ Ambiguous(p)' = Ambiguous(p)
        /\ Got \subseteq Entries
    BY <2>1, OutNamesKept DEF Got, Asked
  <2>5. ToolInv'
    BY <2>1, <2>4 DEF DirInv, ToolInv
  <2> QED BY <2>2, <2>3, <2>5 DEF DirInv
<1> QED BY <1>1, <1>2, <1>3, <1>4 DEF Next

-----------------------------------------------------------------------------
(* The theorems. *)

(* The invariant holds in every state of every run. *)
THEOREM DirAlways == Spec => []DirInv
<1>1. ToolInit => DirInv
  BY ToolInitInv
<1>2. DirInv /\ [Next]_allVars => DirInv'
  BY ToolStepInv
<1> QED BY <1>1, <1>2, PTL DEF Spec

(* The state has its type: the image of di_load_image, the streams of      *)
(* di_opendir and the outputs of diextract.                                *)
THEOREM ToolTypes == Spec => []ToolTypeOK
<1>1. DirInv => ToolTypeOK
  <2> SUFFICES ASSUME DirInv PROVE ToolTypeOK
    OBVIOUS
  <2>1. stayed \subseteq DOMAIN slots
    BY DEF DirInv, StreamInv, Entries, SearchSlots
  <2>2. stream.buffer # <<>> => DOMAIN stream.buffer = SlotsOf(BlockOf(stream.at))
    BY DEF DirInv, StreamInv, StreamTypeOK
  <2>3. TypeOK
    BY <2>1, <2>2 DEF DirInv, DiskInv, DiskTypeOK, StreamInv, StreamTypeOK, TypeOK
  <2> QED BY <2>3 DEF DirInv, ToolInv, ToolTypeOK
<1> QED BY <1>1, DirAlways, PTL

(* No block of the directory is in it twice, free or a file's, on an image *)
(* of any type (alloc_next_dir_ts, alloc_next_ts, di_delete).              *)
THEOREM BlocksStayApart == Spec => []DirBlocksApart
<1>1. DirInv => DirBlocksApart
  BY DEF DirInv, DiskInv
<1> QED BY <1>1, DirAlways, PTL

(* di_readdir returns no slot twice, and at its end it has returned every  *)
(* entry that was there all the while.                                     *)
THEOREM EntriesAreListed == Spec => []ListedOnce
<1>1. DirInv => ListedOnce
  BY ListedAll DEF DirInv
<1> QED BY <1>1, DirAlways, PTL

(* Where diextract exits with 0, each entry asked for has an output of its *)
(* own, opened for that entry unless its name finds one that does not      *)
(* collide with it.  Whether all of the data is in it is not said: a short *)
(* di_read and a failing fclose leave the exit status 0.                   *)
THEOREM ListedAreExtracted == Spec => []ExtractedIsListed
<1>1. DirInv => ExtractedIsListed
  <2> SUFFICES ASSUME DirInv, phase = "done" PROVE ExtractedIsListed
    BY DEF ExtractedIsListed
  <2>1. Got = Asked /\ Asked = {p \in Entries : ~Filtered(slots[p])}
    BY DEF DirInv, ToolInv, Got, Asked
  <2> QED BY <2>1 DEF DirInv, ToolInv, ExtractedIsListed
<1> QED BY <1>1, DirAlways, PTL

(* Except on a D80 alloc_next_dir_ts ends, and says that there is no room  *)
(* only when there is no empty slot and no free sector.                    *)
THEOREM FillsBeforeRefusing == Spec => []DirectoryFills
<1>1. ToolInit => DirectoryFills
  BY DEF ToolInit, Init, DirectoryFills
<1>2. DirInv /\ DirectoryFills /\ [Next]_allVars => DirectoryFills'
  <2> SUFFICES ASSUME DirInv, DirectoryFills, [Next]_allVars, type' # "D80"
               PROVE  /\ outcome' = "running"
                      /\ status' = 72 => EmptySlots' = {} /\ free'[DirTrack(type')] = {}
    BY DEF DirectoryFills
  <2>0. type' = type /\ BamTrack(type) = DirTrack(type) /\ outcome = "running"
    <3>1. type' = type
      BY DEF Next, Library, DirNext, Create, StoreBlock, Delete, Rename, OpenDir, ReadDir, CloseDir,
             Start, ExtractNext, allVars, vars
    <3>2. BamTrack(type) = DirTrack(type)
      BY <3>1 DEF DirInv, DiskInv, DiskTypeOK, ImageTypes, BamTrack, DirTrack, DirBlock, TS
    <3> QED BY <3>1, <3>2 DEF DirectoryFills
  <2>1. CASE UNCHANGED <<chain, slots, free, status, outcome>>
    BY <2>0, <2>1 DEF DirectoryFills, EmptySlots, AllocSlots, SearchSlots
  <2>2. CASE status' # 72 /\ UNCHANGED outcome
    BY <2>0, <2>2
  <2>3. ASSUME NEW n \in Names, NEW t \in CreateTypes, Create(n, t)
        PROVE  \/ UNCHANGED <<chain, slots, free, status, outcome>>
               \/ status' # 72 /\ UNCHANGED outcome
               \/ /\ status' = 72 /\ UNCHANGED <<chain, slots, free, outcome>>
                  /\ EmptySlots = {} /\ free[BamTrack(type)] = {}
    <3>1. CASE EmptySlots = {} /\ NewDirBlock(NewEntry(n, t))
      <4>1. \/ /\ free[BamTrack(type)] = {} /\ status' = 72
               /\ UNCHANGED <<chain, slots, free, outcome>>
            \/ free[BamTrack(type)] # {} /\ free[DirTrack(type)] = {}
            \/ status' = 0 /\ UNCHANGED outcome
        BY <3>1, Zenon DEF NewDirBlock
      <4> QED BY <2>0, <3>1, <4>1
    <3>2. CASE (status' = 63 \/ status' = 0) /\ UNCHANGED outcome
      BY <3>2
    <3> QED BY <2>3, <3>1, <3>2, Zenon DEF Create
  <2>4. CASE /\ status' = 72 /\ UNCHANGED <<chain, slots, free, outcome>>
             /\ EmptySlots = {} /\ free[BamTrack(type)] = {}
    BY <2>0, <2>4 DEF EmptySlots, AllocSlots, SearchSlots
  <2>5. \/ UNCHANGED <<chain, slots, free, status, outcome>>
        \/ status' # 72 /\ UNCHANGED outcome
        \/ /\ status' = 72 /\ UNCHANGED <<chain, slots, free, outcome>>
           /\ EmptySlots = {} /\ free[BamTrack(type)] = {}
    <3>1. ASSUME NEW p \in DOMAIN slots, StoreBlock(p) PROVE FALSE
      BY <2>0, <3>1 DEF StoreBlock
    <3>2. ASSUME NEW names \in Patterns, NEW t \in AskedTypes, Delete(names, t)
          PROVE  status' # 72 /\ UNCHANGED outcome
      BY <3>2 DEF Delete
    <3>3. ASSUME NEW names \in Patterns, NEW n \in Names, NEW t \in AskedTypes, Rename(names, n, t)
          PROVE  status' # 72 /\ UNCHANGED outcome
      BY <3>3 DEF Rename
    <3>4. CASE OpenDir \/ Start
      BY <3>4 DEF OpenDir, Start
    <3>5. CASE ReadDir \/ CloseDir \/ UNCHANGED allVars
      BY <3>5 DEF ReadDir, CloseDir, dirVars, allVars, vars
    <3>6. CASE ExtractNext
      BY <3>5, <3>6 DEF ExtractNext
    <3>7. CASE Library
      <4>1. DirNext
        BY <3>7 DEF Library
      <4> QED BY <2>3, <3>1, <3>2, <3>3, <3>4, <3>5, <4>1, Zenon DEF DirNext
    <3> QED BY <3>4, <3>5, <3>6, <3>7 DEF Next
  <2> QED BY <2>1, <2>2, <2>4, <2>5
<1> QED BY <1>1, <1>2, DirAlways, PTL DEF Spec

=============================================================================
