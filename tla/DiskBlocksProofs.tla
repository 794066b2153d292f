-------------------------- MODULE DiskBlocksProofs --------------------------
(***************************************************************************)
(* Proofs about the block map and the chains, for any files and any blocks *)
(* free at first: no block is shared or lost, the counts are right, and on *)
(* a D64 or D81 alloc_next_ts finds a block while blocksfree is not 0.     *)
(*                                                                         *)
(* MapInv is about the image: each block of the pool is in the map or in   *)
(* one place of one chain, and blocksfree promises no more than the map    *)
(* has.  The last is why allocation finds a block: a free one is left, its *)
(* track is not reserved, its count is not 0, and the byte read for that   *)
(* count is no byte of another track's cell (CellsApart).  Whole is about  *)
(* buffers: a file that is written has those stored and the one it holds.  *)
(***************************************************************************)
EXTENDS DiskBlocks, DiskGeometryProofs, FiniteSetTheorems, SequenceTheorems,
        WellFoundedInduction

(* What is known of the map and the chains. *)
MapTypes ==
  /\ type \in Types /\ pool \in Pools[type]
  /\ count \in [AllTracks -> Byte]
  /\ DOMAIN free = AllTracks /\ \A t \in AllTracks : free[t] \subseteq SectorsOn(t)
  /\ blocksfree \in 0..Blocks(type)
  /\ DOMAIN chain = Files /\ \A f \in Files : chain[f] \in Seq(ValidTS(type))

(* di->blocksfree is at most the number of free blocks: those of a file    *)
(* that is deleted are not added to it.                                    *)
PromiseIsKept == blocksfree <= Cardinality(FreeBlocks)

MapInv == MapTypes /\ NoBlockShared /\ NoBlockLost /\ PromiseIsKept

(* The blocks that a file has, and the buffer not yet stored. *)
Held(f) == Len(chain[f]) + (IF buf[f] = "empty" THEN 0 ELSE 1)

FileTypes ==
  /\ state \in [Files -> {"absent", "writing", "closed", "unclosed"}]
  /\ buf \in [Files -> {"empty", "some", "full"}]
  /\ outcome \in {"running", "hung", "exited"}
  /\ filled \in [Files -> Nat]
  /\ \A f \in Files : /\ state[f] = "absent" => chain[f] = <<>>
                      /\ state[f] # "writing" => buf[f] = "empty"

Whole ==
  outcome = "running" =>
    \A f \in Files :
      /\ state[f] = "absent" => filled[f] = 0
      /\ state[f] = "writing" => filled[f] = Held(f)
      /\ state[f] = "closed" => filled[f] = Len(chain[f])

BlocksInv == MapInv /\ FileTypes /\ Whole /\ AllocFinds

-----------------------------------------------------------------------------
(* Numbers and finite sets. *)

LEMMA Least ==
  ASSUME NEW T \in SUBSET Nat, T # {}
  PROVE  \E n \in T : \A m \in T : n <= m
<1>1. \E x \in T : \A y \in T : ~(<<y, x>> \in OpToRel(<, Nat))
  BY NatLessThanWellFounded, WFMin
<1>2. PICK x \in T : \A y \in T : ~(<<y, x>> \in OpToRel(<, Nat))
  BY <1>1
<1>3. \A y \in T : <<y, x>> \in OpToRel(<, Nat) <=> y < x
  BY DEF OpToRel
<1>4. \A y \in T : ~(y < x)
  BY <1>2, <1>3
<1> HIDE DEF OpToRel
<1>5. x \in Nat /\ \A y \in T : y \in Nat
  OBVIOUS
<1> QED BY <1>4, <1>5

LEMMA MinIsLeast ==
  ASSUME NEW T \in SUBSET Nat, T # {}
  PROVE  Min(T) \in T
BY Least DEF Min

LEMMA FirstNumbers ==
  ASSUME NEW n \in Nat
  PROVE  IsFiniteSet(0..(n - 1)) /\ Cardinality(0..(n - 1)) = n
<1> DEFINE b == n - 1
<1>1. 0 \in Int /\ b \in Int
  OBVIOUS
<1>2. IsFiniteSet(0..b) /\ Cardinality(0..b) = IF 0 > b THEN 0 ELSE b - 0 + 1
  <2> HIDE DEF b
  <2> QED BY <1>1, FS_Interval, Zenon
<1> QED BY <1>2

-----------------------------------------------------------------------------
(* The image is one of the three types, whose tracks have one of five      *)
(* lengths.                                                                *)
LEMMA Shape ==
  ASSUME MapTypes
  PROVE  /\ type \in ImageTypes /\ type \in {"D64", "D71", "D81"}
         /\ pool \subseteq ValidTS(type)
         /\ \A ts \in pool : ts.track # DirBlock(type).track
         /\ AllTracks \subseteq Nat \ {0}
         /\ \A t \in AllTracks : SectorsPerTrack(type, t) \in {17, 18, 19, 21, 40}
<1>1. type \in ImageTypes /\ type \in {"D64", "D71", "D81"}
  BY BlocksAssumption DEF MapTypes, ImageTypes
<1>2. pool \subseteq ValidTS(type) /\ \A ts \in pool : ts.track # DirBlock(type).track
  BY BlocksAssumption DEF MapTypes, ValidTS
<1>3. AllTracks \subseteq Nat \ {0}
  BY <1>1 DEF AllTracks, Tracks, ImageTypes
<1>4. ASSUME NEW t \in AllTracks PROVE SectorsPerTrack(type, t) \in {17, 18, 19, 21, 40}
  BY <1>1, <1>3 DEF SectorsPerTrack, Sectors1541, OnSide, Zone1541, Zone
<1> QED BY <1>1, <1>2, <1>3, <1>4

(* A block is free when its bit is set. *)
LEMMA FreeIsSet ==
  ASSUME MapTypes
  PROVE  /\ \A ts : ts \in FreeBlocks <=> \E t \in AllTracks : \E s \in free[t] : ts = TS(t, s)
         /\ \A t \in AllTracks : \A s : TS(t, s) \in FreeBlocks <=> s \in free[t]
         /\ \A ts \in FreeBlocks : ts.track \in AllTracks /\ ts.sector \in free[ts.track]
                                     /\ ts = TS(ts.track, ts.sector)
<1>1. \A ts : ts \in FreeBlocks <=> \E t \in AllTracks : \E s \in free[t] : ts = TS(t, s)
  BY DEF FreeBlocks
<1>2. \A t, s : TS(t, s).track = t /\ TS(t, s).sector = s
  BY DEF TS
<1> QED BY <1>1, <1>2

(* A track has 40 sectors at most, so that its count fits in a byte. *)
LEMMA FreeIsFinite ==
  ASSUME MapTypes, NEW t \in AllTracks
  PROVE  /\ IsFiniteSet(free[t]) /\ Cardinality(free[t]) \in 0..40
         /\ SectorsPerTrack(type, t) \in 17..40
         /\ \A S \in SUBSET SectorsOn(t) : IsFiniteSet(S) /\ Cardinality(S) \in 0..40
<1>1. SectorsPerTrack(type, t) \in 17..40
  BY Shape
<1>2. IsFiniteSet(SectorsOn(t)) /\ Cardinality(SectorsOn(t)) <= 40
  <2> DEFINE n == SectorsPerTrack(type, t)
  <2>1. SectorsOn(t) = 0..(n - 1)
    BY DEF SectorsOn
  <2>2. n \in Nat /\ n <= 40
    BY <1>1
  <2> HIDE DEF n
  <2> QED BY <2>1, <2>2, FirstNumbers
<1>3. \A S \in SUBSET SectorsOn(t) : IsFiniteSet(S) /\ Cardinality(S) \in 0..40
  <2>1. ASSUME NEW S \in SUBSET SectorsOn(t)
        PROVE  IsFiniteSet(S) /\ Cardinality(S) <= Cardinality(SectorsOn(t))
    <3> HIDE DEF SectorsOn
    <3> QED BY <1>2, FS_Subset
  <2>2. \A S : IsFiniteSet(S) => Cardinality(S) \in Nat
    BY FS_CardinalityType
  <2> QED BY <1>2, <2>1, <2>2
<1>4. free[t] \in SUBSET SectorsOn(t)
  BY DEF MapTypes
<1> QED BY <1>1, <1>3, <1>4

(* An image has no more blocks than its size says. *)
LEMMA ImageIsFinite ==
  ASSUME NEW ty \in ImageTypes
  PROVE  IsFiniteSet(ValidTS(ty)) /\ Cardinality(ValidTS(ty)) <= Blocks(ty)
<1>1. Blocks(ty) \in Nat
  BY DEF Blocks, ImageTypes
<1> DEFINE T == 0..(Blocks(ty) - 1)
           f == [ts \in ValidTS(ty) |-> BlockNum(ty, ts)]
<1>2. IsFiniteSet(T) /\ Cardinality(T) <= Blocks(ty)
  BY <1>1, FirstNumbers
<1>3. f \in [ValidTS(ty) -> T]
  BY BlockNumInImage
<1>4. \A x, y \in ValidTS(ty) : f[x] = f[y] => x = y
  BY BlockNumInjective
<1>5. f \in Injection(ValidTS(ty), T)
  BY <1>3, <1>4, Zenon DEF Injection, IsInjective
<1> HIDE DEF f, T
<1>6. IsFiniteSet(ValidTS(ty)) /\ Cardinality(ValidTS(ty)) <= Cardinality(T)
  BY <1>2, <1>5, FS_Injection
<1>7. Cardinality(ValidTS(ty)) \in Nat /\ Cardinality(T) \in Nat
  BY <1>2, <1>6, FS_CardinalityType
<1> QED BY <1>1, <1>2, <1>6, <1>7

(* Going round a track from any sector on comes by each of its sectors. *)
LEMMA Round ==
  ASSUME NEW spt \in {17, 18, 19, 21, 40}, NEW s \in Nat
  PROVE  /\ \A k \in Nat : (s + k) % spt \in 0..(spt - 1)
         /\ \A u \in 0..(spt - 1) : \E k \in 0..(spt - 1) : (s + k) % spt = u
<1>1. \A k \in Nat : (s + k) % spt \in 0..(spt - 1)
  <2>1. CASE spt = 17 BY <2>1
  <2>2. CASE spt = 18 BY <2>2
  <2>3. CASE spt = 19 BY <2>3
  <2>4. CASE spt = 21 BY <2>4
  <2>5. CASE spt = 40 BY <2>5
  <2> QED BY <2>1, <2>2, <2>3, <2>4, <2>5
<1>2. ASSUME NEW u \in 0..(spt - 1) PROVE \E k \in 0..(spt - 1) : (s + k) % spt = u
  <2> DEFINE r == s % spt
             k == IF r <= u THEN u - r ELSE u + spt - r
  <2>1. k \in 0..(spt - 1) /\ (s + k) % spt = u
    <3>1. CASE spt = 17 BY <3>1
    <3>2. CASE spt = 18 BY <3>2
    <3>3. CASE spt = 19 BY <3>3
    <3>4. CASE spt = 21 BY <3>4
    <3>5. CASE spt = 40 BY <3>5
    <3> QED BY <3>1, <3>2, <3>3, <3>4, <3>5
  <2> QED BY <2>1
<1> QED BY <1>1, <1>2

(* The search of alloc_next_ts on a track ends at a free sector of it. *)
LEMMA FirstFreeIsFree ==
  ASSUME MapTypes, NEW t \in AllTracks, NEW s \in Nat, HasFree(t)
  PROVE  \E u \in SectorsOn(t) : FirstFree(t, s) = TS(t, u) /\ IsFree(TS(t, u))
<1> DEFINE spt == SectorsPerTrack(type, t)
           Far == {k \in 0..(spt - 1) : IsFree(TS(t, (s + k) % spt))}
           First(k) == /\ IsFree(TS(t, (s + k) % spt))
                       /\ \A j \in 0..(k - 1) : ~IsFree(TS(t, (s + j) % spt))
           far == CHOOSE k \in 0..(spt - 1) : First(k)
<1>1. spt \in {17, 18, 19, 21, 40}
  BY Shape
<1>2. PICK u \in SectorsOn(t) : IsFree(TS(t, u))
  BY DEF HasFree
<1>3. Far \subseteq Nat /\ Far # {}
  <2>1. u \in 0..(spt - 1) BY DEF SectorsOn
  <2>2. PICK k \in 0..(spt - 1) : (s + k) % spt = u
    <3> HIDE DEF spt
    <3> QED BY <1>1, <2>1, Round
  <2> QED BY <1>2, <2>2, <1>1
<1>4. PICK k \in Far : \A j \in Far : k <= j
  BY <1>3, Least
<1>5. First(k) /\ k \in 0..(spt - 1)
  <2> HIDE DEF spt
  <2> QED BY <1>4, <1>1
<1>6. far \in 0..(spt - 1) /\ First(far)
  <2> HIDE DEF First, spt
  <2> QED BY <1>5
<1>7. (s + far) % spt \in SectorsOn(t)
  <2>1. (s + far) % spt \in 0..(spt - 1)
    <3> HIDE DEF spt, far
    <3> QED BY <1>1, <1>6, Round
  <2> QED BY <2>1 DEF SectorsOn
<1>8. FirstFree(t, s) = TS(t, (s + far) % spt)
  BY DEF FirstFree
<1> HIDE DEF far, spt
<1> QED BY <1>6, <1>7, <1>8

-----------------------------------------------------------------------------
(* Where alloc_next_ts looks for the count of a track.  On a D64 and a D81 *)
(* that is where the count is, and no other track's cell has that byte.    *)
LEMMA CountsAreFound ==
  ASSUME type \in {"D64", "D81"}, NEW t \in AllTracks
  PROVE  AllocCountAt(type, t) = CountAt(type, t)
BY DEF AllocCountAt, CountAt, At, FirstLoopEnd, AllTracks, Tracks

(* A track that alloc_next_ts stops at has a free sector. *)
LEMMA CandidatesHaveFree ==
  ASSUME MapTypes, NoBlockLost, type \in {"D64", "D81"}, NEW t \in Candidates
  PROVE  HasFree(t)
<1>1. t \in AllTracks /\ CountAt(type, t) \in NonzeroBytes
  BY CountsAreFound DEF Candidates
<1>2. type \in ImageTypes
  BY Shape
<1>3. \A u \in AllTracks : u # t => CellBytes(type, t) \cap CellBytes(type, u) = {}
  BY <1>1, <1>2, CellsApart DEF AllTracks
<1>4. \A u \in AllTracks : CountAt(type, u) \in CellBytes(type, u)
  BY DEF CellBytes
<1>5. \A u \in AllTracks : \A s \in free[u] : BitsAt(type, TS(u, s)) \in CellBytes(type, u)
  BY DEF CellBytes, MapTypes, SectorsOn
<1>6. \/ \E u \in AllTracks : count[u] # 0 /\ CountAt(type, t) = CountAt(type, u)
      \/ \E u \in AllTracks : \E s \in free[u] : CountAt(type, t) = BitsAt(type, TS(u, s))
  BY <1>1 DEF NonzeroBytes
<1>7. count[t] # 0 \/ free[t] # {}
  BY <1>1, <1>3, <1>4, <1>5, <1>6
<1>8. count[t] = Cardinality(free[t]) /\ IsFiniteSet(free[t])
  BY <1>1, FreeIsFinite DEF NoBlockLost
<1>9. count[t] # 0 /\ free[t] # {}
  BY <1>7, <1>8, FS_EmptySet
<1>10. PICK s \in free[t] : s \in SectorsOn(t)
  BY <1>1, <1>9 DEF MapTypes
<1>11. IsFree(TS(t, s))
  BY <1>9, <1>10 DEF IsFree, TS
<1> QED BY <1>10, <1>11 DEF HasFree

(* While a block is free some track is a candidate: no block is free on    *)
(* the directory's track, the only one these types reserve.                *)
LEMMA CandidatesExist ==
  ASSUME MapTypes, NoBlockLost, type \in {"D64", "D81"}, FreeBlocks # {}
  PROVE  Candidates # {}
<1>1. PICK ts \in FreeBlocks : ts.track \in AllTracks /\ ts.sector \in free[ts.track]
  BY FreeIsSet
<1>2. ts.track # DirBlock(type).track
  BY <1>1, Shape DEF NoBlockLost
<1>3. ts.track \notin Reserved(type)
  BY <1>2 DEF DirBlock, Reserved, TS
<1>4. count[ts.track] = Cardinality(free[ts.track]) /\ IsFiniteSet(free[ts.track])
  BY <1>1, FreeIsFinite DEF NoBlockLost
<1>5. count[ts.track] # 0
  BY <1>1, <1>4, FS_EmptySet
<1>6. AllocCountAt(type, ts.track) \in NonzeroBytes
  BY <1>1, <1>5, CountsAreFound DEF NonzeroBytes
<1> QED BY <1>1, <1>3, <1>6 DEF Candidates

-----------------------------------------------------------------------------
(* Free block ts is given to file f. *)
Takes(f, ts) ==
  /\ chain' = [chain EXCEPT ![f] = Append(@, ts)]
  /\ \A t \in AllTracks : t # ts.track => free'[t] = free[t] /\ count'[t] = count[t]
  /\ free'[ts.track] = free[ts.track] \ {ts.sector}
  /\ count'[ts.track] = (count[ts.track] + 255) % 256
  /\ DOMAIN free' = AllTracks /\ DOMAIN count' = AllTracks
  /\ count' = [t \in AllTracks |-> count'[t]]
  /\ blocksfree' = blocksfree - 1
  /\ UNCHANGED outcome

(* No block is found, or none is ever found: on a D71 only. *)
FindsNone ==
  /\ type = "D71" /\ outcome' \in {"hung", "exited"}
  /\ UNCHANGED <<imageVars, chain>>

LEMMA WhereSearchBegins ==
  ASSUME MapTypes, NEW f \in Files
  PROVE  LastOf(f).sector + WriteInterleave(type) \in Nat
<1>1. WriteInterleave(type) \in Nat
  BY Shape DEF WriteInterleave, ImageTypes
<1>2. LastOf(f).sector \in Nat
  <2>1. CASE chain[f] = <<>>
    BY <2>1 DEF LastOf, NoTS, TS
  <2>2. CASE chain[f] # <<>>
    <3>1. chain[f] \in Seq(ValidTS(type)) BY DEF MapTypes
    <3>2. chain[f][Len(chain[f])] \in ValidTS(type) BY <2>2, <3>1
    <3>3. LastOf(f) \in TrackSector BY <2>2, <3>2 DEF LastOf, Last, ValidTS
    <3> QED BY <3>3 DEF TrackSector, Byte
  <2> QED BY <2>1, <2>2
<1> QED BY <1>1, <1>2

(* What StoreBlock can do while blocksfree is not 0. *)
LEMMA StoreBlockFinds ==
  ASSUME MapInv, blocksfree # 0, NEW f \in Files, StoreBlock(f)
  PROVE  FindsNone \/ \E ts \in FreeBlocks : Takes(f, ts)
<1> DEFINE t == Min(Candidates)
           ts == FirstFree(t, LastOf(f).sector + WriteInterleave(type))
           cells == [[u \in AllTracks |-> Cell(u)] EXCEPT ![t] = Alloc(@, ts.sector)]
<1>a. MapTypes /\ NoBlockLost /\ PromiseIsKept
  BY DEF MapInv
<1>b. type \in {"D64", "D81"} \/ type = "D71"
  BY <1>a, Shape
<1>c. Candidates \subseteq AllTracks /\ Candidates \subseteq Nat
  BY <1>a, Shape DEF Candidates
<1>d. Candidates # {} => t \in Candidates
  BY <1>c, MinIsLeast
<1>e. FreeBlocks # {}
  <2>1. blocksfree <= Cardinality(FreeBlocks) /\ blocksfree \in Nat
    BY <1>a DEF PromiseIsKept, MapTypes
  <2> QED BY <2>1, FS_EmptySet
<1>f. type \in {"D64", "D81"} => Candidates # {} /\ HasFree(t)
  BY <1>a, <1>d, <1>e, CandidatesExist, CandidatesHaveFree
<1>1. CASE Candidates = {} /\ outcome' = "exited" /\ UNCHANGED <<imageVars, chain>>
  BY <1>1, <1>b, <1>f DEF FindsNone
<1>2. CASE /\ Candidates # {} /\ ~HasFree(t)
           /\ outcome' = "hung" /\ UNCHANGED <<imageVars, chain>>
  BY <1>2, <1>b, <1>f DEF FindsNone
<1>3. CASE /\ Candidates # {} /\ HasFree(t) /\ SetCells(cells)
           /\ chain' = [chain EXCEPT ![f] = Append(@, ts)]
           /\ blocksfree' = blocksfree - 1 /\ UNCHANGED outcome
  <2>1. t \in AllTracks
    BY <1>3, <1>c, <1>d
  <2>2. PICK u \in SectorsOn(t) : ts = TS(t, u) /\ IsFree(TS(t, u))
    BY <1>3, <1>a, <2>1, WhereSearchBegins, FirstFreeIsFree
  <2>3. u \in free[t] /\ ts.track = t /\ ts.sector = u
    BY <2>2 DEF IsFree, TS
  <2>4. ts \in FreeBlocks
    BY <1>a, <2>1, <2>2, <2>3, FreeIsSet
  <2> HIDE DEF t, ts
  <2>5. \A v \in AllTracks : cells[v] = IF v = t THEN Alloc(Cell(t), u) ELSE Cell(v)
    BY <2>1, <2>3
  <2>6. Alloc(Cell(t), u) = <<(count[t] + 255) % 256, free[t] \ {u}>>
    BY DEF Alloc, Cell
  <2>7. \A v \in AllTracks : Cell(v) = <<count[v], free[v]>>
    BY DEF Cell
  <2> HIDE DEF cells
  <2>8. count' = [v \in AllTracks |-> cells[v][1]] /\ free' = [v \in AllTracks |-> cells[v][2]]
    BY <1>3 DEF SetCells
  <2>9. \A v \in AllTracks : count'[v] = cells[v][1] /\ free'[v] = cells[v][2]
    BY <2>8
  <2>10. \A v \in AllTracks : v # t => free'[v] = free[v] /\ count'[v] = count[v]
    BY <2>5, <2>7, <2>9
  <2>11. free'[t] = free[t] \ {u} /\ count'[t] = (count[t] + 255) % 256
    BY <2>1, <2>5, <2>6, <2>9
  <2>12. Takes(f, ts)
    BY <1>3, <2>3, <2>8, <2>9, <2>10, <2>11 DEF Takes
  <2> QED BY <2>4, <2>12
<1> HIDE DEF t, ts, cells
<1>4. \/ Candidates = {} /\ outcome' = "exited" /\ UNCHANGED <<imageVars, chain>>
      \/ /\ Candidates # {} /\ ~HasFree(t)
         /\ outcome' = "hung" /\ UNCHANGED <<imageVars, chain>>
      \/ /\ Candidates # {} /\ HasFree(t) /\ SetCells(cells)
         /\ chain' = [chain EXCEPT ![f] = Append(@, ts)]
         /\ blocksfree' = blocksfree - 1 /\ UNCHANGED outcome
  BY DEF StoreBlock, t, ts, cells
<1> QED BY <1>1, <1>2, <1>3, <1>4

-----------------------------------------------------------------------------
(* MapInv through the steps: what leaves the map and the chains alone, a   *)
(* block taken, a chain freed.                                             *)

LEMMA SameMap ==
  ASSUME MapInv, UNCHANGED <<type, imageVars, chain, pool>>
  PROVE  MapInv'
<1>a. /\ type' = type /\ count' = count /\ free' = free /\ blocksfree' = blocksfree
      /\ chain' = chain /\ pool' = pool
  BY DEF imageVars
<1>1. AllTracks' = AllTracks /\ \A t : SectorsOn(t)' = SectorsOn(t)
  BY <1>a DEF AllTracks, SectorsOn
<1>2. MapTypes'
  BY <1>a, <1>1 DEF MapInv, MapTypes
<1>3. FreeBlocks' = FreeBlocks /\ Owned' = Owned
  BY <1>a, <1>1 DEF FreeBlocks, Owned
<1>4. NoBlockShared' /\ NoBlockLost' /\ PromiseIsKept'
  BY <1>a, <1>1, <1>3 DEF MapInv, NoBlockShared, NoBlockLost, PromiseIsKept
<1> QED BY <1>2, <1>4 DEF MapInv

(* Who has a block. *)
LEMMA OwnedIsInAChain ==
  \A ts : ts \in Owned <=> \E g \in Files : \E i \in DOMAIN chain[g] : ts = chain[g][i]
BY DEF Owned, ToSet

LEMMA FreeBlocksAreFinite ==
  ASSUME MapTypes, NoBlockLost
  PROVE  IsFiniteSet(FreeBlocks) /\ Cardinality(FreeBlocks) \in Nat /\ IsFiniteSet(pool)
<1>1. IsFiniteSet(ValidTS(type)) /\ pool \subseteq ValidTS(type)
  BY Shape, ImageIsFinite
<1>2. FreeBlocks \subseteq pool
  BY DEF NoBlockLost
<1>3. IsFiniteSet(pool)
  <2> HIDE DEF ValidTS
  <2> QED BY <1>1, FS_Subset
<1> QED BY <1>2, <1>3, FS_Subset, FS_CardinalityType

LEMMA TakingKeepsMap ==
  ASSUME MapInv, blocksfree # 0, UNCHANGED <<type, pool>>,
         NEW f \in Files, NEW ts \in FreeBlocks, Takes(f, ts)
  PROVE  MapInv'
<1> DEFINE t == ts.track
           s == ts.sector
<1>a. MapTypes /\ NoBlockShared /\ NoBlockLost /\ PromiseIsKept
  BY DEF MapInv
<1>b. t \in AllTracks /\ s \in free[t] /\ ts = TS(t, s)
  BY <1>a, FreeIsSet
<1>c. type' = type /\ pool' = pool /\ AllTracks' = AllTracks /\ \A u : SectorsOn(u)' = SectorsOn(u)
  BY DEF AllTracks, SectorsOn
<1>d. /\ \A u \in AllTracks : u # t => free'[u] = free[u] /\ count'[u] = count[u]
      /\ free'[t] = free[t] \ {s} /\ count'[t] = (count[t] + 255) % 256
      /\ DOMAIN free' = AllTracks /\ count' = [u \in AllTracks |-> count'[u]]
      /\ blocksfree' = blocksfree - 1
  BY DEF Takes
<1>e. ts \in ValidTS(type) /\ ts \notin Owned
  BY <1>a, Shape DEF NoBlockLost, NoBlockShared
<1>f. chain' = [chain EXCEPT ![f] = Append(chain[f], ts)]
  BY DEF Takes
<1> HIDE DEF t, s
<1>1. \A u \in AllTracks : count'[u] = Cardinality(free'[u]) /\ count'[u] \in Byte
                           /\ free'[u] \subseteq SectorsOn(u)
  <2>1. ASSUME NEW u \in AllTracks
        PROVE  count[u] = Cardinality(free[u]) /\ count[u] \in Byte /\ free[u] \subseteq SectorsOn(u)
               /\ IsFiniteSet(free[u])
    BY <1>a, FreeIsFinite DEF MapTypes, NoBlockLost
  <2>2. ASSUME NEW u \in AllTracks, u # t
        PROVE  count'[u] = Cardinality(free'[u]) /\ count'[u] \in Byte /\ free'[u] \subseteq SectorsOn(u)
    BY <1>d, <2>1, <2>2
  <2>3. Cardinality(free[t] \ {s}) = count[t] - 1 /\ count[t] # 0
    <3>1. IsFiniteSet(free[t]) /\ s \in free[t] /\ Cardinality(free[t]) = count[t]
      BY <1>b, <2>1
    <3>2. Cardinality(free[t] \ {s}) = Cardinality(free[t]) - 1
      BY <3>1, FS_RemoveElement
    <3>3. Cardinality(free[t]) # 0
      BY <3>1, FS_EmptySet
    <3> QED BY <3>1, <3>2, <3>3
  <2>4. count[t] \in 1..255
    BY <1>b, <2>1, <2>3 DEF Byte
  <2>5. count'[t] = count[t] - 1
    BY <1>d, <2>4
  <2>6. count'[t] = Cardinality(free'[t]) /\ count'[t] \in Byte /\ free'[t] \subseteq SectorsOn(t)
    BY <1>b, <1>d, <2>1, <2>3, <2>4, <2>5 DEF Byte
  <2> QED BY <2>2, <2>6
<1>2. MapTypes'
  <2>1. count' \in [AllTracks -> Byte]
    BY <1>d, <1>1
  <2>2. blocksfree' \in 0..Blocks(type)
    <3>1. blocksfree \in 0..Blocks(type) /\ Blocks(type) \in Nat
      <4>1. type \in ImageTypes BY <1>a, Shape
      <4>2. Blocks(type) \in Nat BY <4>1 DEF Blocks, ImageTypes
      <4> QED BY <1>a, <4>2 DEF MapTypes
    <3> QED BY <3>1, <1>d
  <2>3. DOMAIN chain' = Files /\ \A g \in Files : chain'[g] \in Seq(ValidTS(type))
    <3>1. Append(chain[f], ts) \in Seq(ValidTS(type))
      BY <1>a, <1>e DEF MapTypes
    <3> QED BY <1>a, <1>f, <3>1 DEF MapTypes
  <2> QED BY <1>a, <1>c, <1>d, <1>1, <2>1, <2>2, <2>3 DEF MapTypes
<1>3. FreeBlocks' = FreeBlocks \ {ts}
  <2>1. \A x : x \in FreeBlocks' <=> \E u \in AllTracks : \E v \in free'[u] : x = TS(u, v)
    BY <1>c DEF FreeBlocks
  <2>2. \A x : x \in FreeBlocks <=> \E u \in AllTracks : \E v \in free[u] : x = TS(u, v)
    BY <1>a, FreeIsSet
  <2>3. \A u, v, w, x : TS(u, v) = TS(w, x) <=> u = w /\ v = x
    BY DEF TS
  <2>4. ASSUME NEW u \in AllTracks, NEW v PROVE v \in free'[u] <=> v \in free[u] /\ TS(u, v) # ts
    BY <1>b, <1>d, <2>3
  <2> QED BY <2>1, <2>2, <2>4
<1>4. \A g \in Files : \A i \in DOMAIN chain'[g] :
        \/ i \in DOMAIN chain[g] /\ chain'[g][i] = chain[g][i]
        \/ g = f /\ i = Len(chain[f]) + 1 /\ chain'[g][i] = ts
  <2>1. ASSUME NEW g \in Files PROVE chain[g] \in Seq(ValidTS(type))
    BY <1>a DEF MapTypes
  <2>2. ASSUME NEW g \in Files, g # f PROVE chain'[g] = chain[g]
    BY <1>a, <1>f, <2>2 DEF MapTypes
  <2>3. chain'[f] = Append(chain[f], ts)
    BY <1>a, <1>f DEF MapTypes
  <2>4. ASSUME NEW i \in DOMAIN Append(chain[f], ts)
        PROVE  \/ i \in DOMAIN chain[f] /\ Append(chain[f], ts)[i] = chain[f][i]
               \/ i = Len(chain[f]) + 1 /\ Append(chain[f], ts)[i] = ts
    BY <1>e, <2>1, AppendProperties
  <2> QED BY <2>2, <2>3, <2>4
<1>5. \A g \in Files : \A i \in DOMAIN chain[g] : i \in DOMAIN chain'[g] /\ chain'[g][i] = chain[g][i]
  <2>1. ASSUME NEW g \in Files PROVE chain[g] \in Seq(ValidTS(type))
    BY <1>a DEF MapTypes
  <2>2. ASSUME NEW g \in Files, g # f PROVE chain'[g] = chain[g]
    BY <1>a, <1>f, <2>2 DEF MapTypes
  <2>3. chain'[f] = Append(chain[f], ts)
    BY <1>a, <1>f DEF MapTypes
  <2>4. ASSUME NEW i \in DOMAIN chain[f]
        PROVE  i \in DOMAIN Append(chain[f], ts) /\ Append(chain[f], ts)[i] = chain[f][i]
    BY <1>e, <2>1, AppendProperties
  <2> QED BY <2>2, <2>3, <2>4
<1>6. Len(chain[f]) + 1 \in DOMAIN chain'[f] /\ chain'[f][Len(chain[f]) + 1] = ts
  <2>1. chain'[f] = Append(chain[f], ts) /\ chain[f] \in Seq(ValidTS(type))
    BY <1>a, <1>f DEF MapTypes
  <2> QED BY <1>e, <2>1, AppendProperties
<1>7. Owned' = Owned \cup {ts}
  <2>1. \A x : x \in Owned' <=> \E g \in Files : \E i \in DOMAIN chain'[g] : x = chain'[g][i]
    BY DEF Owned, ToSet
  <2> QED BY <1>4, <1>5, <1>6, <2>1, OwnedIsInAChain
<1>8. NoBlockShared'
  <2>1. Owned' \cap FreeBlocks' = {}
    BY <1>a, <1>3, <1>7 DEF NoBlockShared
  <2>2. ASSUME NEW g \in Files, NEW h \in Files, NEW i \in DOMAIN chain'[g], NEW j \in DOMAIN chain'[h],
               chain'[g][i] = chain'[h][j]
        PROVE  g = h /\ i = j
    <3>1. ASSUME NEW k \in Files, NEW l \in DOMAIN chain[k] PROVE chain[k][l] # ts
      BY <1>e, OwnedIsInAChain
    <3>2. CASE i \in DOMAIN chain[g] /\ chain'[g][i] = chain[g][i]
      <4>1. j \in DOMAIN chain[h] /\ chain'[h][j] = chain[h][j]
        BY <1>4, <2>2, <3>1, <3>2
      <4>2. chain[g][i] = chain[h][j]
        BY <2>2, <3>2, <4>1
      <4>3. \A x, y \in Files : \A k \in DOMAIN chain[x], l \in DOMAIN chain[y] :
              chain[x][k] = chain[y][l] => x = y /\ k = l
        BY <1>a DEF NoBlockShared
      <4> QED BY <3>2, <4>1, <4>2, <4>3
    <3>3. CASE g = f /\ i = Len(chain[f]) + 1 /\ chain'[g][i] = ts
      BY <1>4, <2>2, <3>1, <3>3
    <3> QED BY <1>4, <3>2, <3>3
  <2> QED BY <2>1, <2>2 DEF NoBlockShared
<1>9. NoBlockLost'
  BY <1>a, <1>c, <1>1, <1>3, <1>7 DEF NoBlockLost
<1>10. PromiseIsKept'
  <2>1. IsFiniteSet(FreeBlocks) /\ Cardinality(FreeBlocks) \in Nat
    BY <1>a, FreeBlocksAreFinite
  <2>2. Cardinality(FreeBlocks \ {ts}) = Cardinality(FreeBlocks) - 1
    BY <2>1, FS_RemoveElement
  <2>3. blocksfree \in Nat /\ blocksfree <= Cardinality(FreeBlocks)
    BY <1>a DEF MapTypes, PromiseIsKept
  <2>4. Cardinality(FreeBlocks') = Cardinality(FreeBlocks) - 1
    BY <1>3, <2>2
  <2>5. blocksfree' <= Cardinality(FreeBlocks')
    BY <1>d, <2>1, <2>3, <2>4
  <2> QED BY <2>5 DEF PromiseIsKept
<1> QED BY <1>2, <1>8, <1>9, <1>10 DEF MapInv

(* The blocks of a chain that are on a track are as many as their sectors, *)
(* none of which is free.                                                  *)
LEMMA ChainOnTrack ==
  ASSUME MapInv, NEW f \in Files, NEW t \in AllTracks
  PROVE  LET c   == chain[f]
             on  == {i \in 1..Len(c) : c[i].track = t}
             got == {c[i].sector : i \in on}
         IN /\ got \subseteq SectorsOn(t) /\ got \cap free[t] = {}
            /\ Cardinality(got) = Cardinality(on)
<1> DEFINE c   == chain[f]
           on  == {i \in 1..Len(c) : c[i].track = t}
           got == {c[i].sector : i \in on}
<1>a. MapTypes /\ NoBlockShared
  BY DEF MapInv
<1>1. c \in Seq(ValidTS(type)) /\ DOMAIN c = 1..Len(c) /\ Len(c) \in Nat
  BY <1>a DEF MapTypes
<1>2. ASSUME NEW i \in 1..Len(c)
      PROVE  /\ c[i] \in Owned /\ c[i].sector \in 0..(SectorsPerTrack(type, c[i].track) - 1)
             /\ c[i] = TS(c[i].track, c[i].sector)
  <2>1. c[i] \in ValidTS(type) /\ c[i] \in Owned
    BY <1>1, OwnedIsInAChain
  <2> HIDE DEF c
  <2> QED BY <1>a, <2>1, ValidParts, Shape
<1>3. got \subseteq SectorsOn(t)
  BY <1>2 DEF SectorsOn
<1>4. got \cap free[t] = {}
  <2> SUFFICES ASSUME NEW i \in on, c[i].sector \in free[t] PROVE FALSE
    OBVIOUS
  <2>1. c[i] \in Owned /\ c[i] = TS(t, c[i].sector)
    BY <1>2
  <2>2. c[i] \in FreeBlocks
    BY <1>a, <2>1, FreeIsSet
  <2> QED BY <1>a, <2>1, <2>2 DEF NoBlockShared
<1>5. Cardinality(got) = Cardinality(on)
  <2> DEFINE g == [i \in on |-> c[i].sector]
  <2>1. g \in Surjection(on, got)
    BY DEF Surjection
  <2>2. ASSUME NEW i \in on, NEW j \in on, g[i] = g[j] PROVE i = j
    <3>1. c[i] = TS(t, c[i].sector) /\ c[j] = TS(t, c[j].sector)
      BY <1>2
    <3>2. c[i] = c[j]
      BY <2>2, <3>1
    <3>3. i \in DOMAIN chain[f] /\ j \in DOMAIN chain[f] /\ chain[f][i] = chain[f][j]
      BY <1>1, <3>2
    <3> QED BY <1>a, <3>3 DEF NoBlockShared
  <2>3. IsFiniteSet(on)
    <3>1. IsFiniteSet(1..Len(c))
      BY <1>1, FS_Interval
    <3>2. on \in SUBSET (1..Len(c))
      OBVIOUS
    <3> HIDE DEF c, on
    <3> QED BY <3>1, <3>2, FS_Subset
  <2>4. g \in Injection(on, got)
    <3>1. g \in [on -> got]
      OBVIOUS
    <3> HIDE DEF g, on, got
    <3> QED BY <2>2, <3>1 DEF Injection, IsInjective
  <2> HIDE DEF g, on, got
  <2> QED BY <2>1, <2>3, <2>4, FS_Surjection
<1> QED BY <1>3, <1>4, <1>5

LEMMA FreeingKeepsMap ==
  ASSUME MapInv, UNCHANGED <<type, blocksfree, pool>>, NEW f \in Files,
         SetCells(FreeChain(chain[f])), chain' = [chain EXCEPT ![f] = <<>>]
  PROVE  MapInv'
<1> DEFINE c      == chain[f]
           on(t)  == {i \in 1..Len(c) : c[i].track = t}
           got(t) == {c[i].sector : i \in on(t)}
<1>a. MapTypes /\ NoBlockShared /\ NoBlockLost /\ PromiseIsKept
  BY DEF MapInv
<1>b. type' = type /\ pool' = pool /\ blocksfree' = blocksfree
      /\ AllTracks' = AllTracks /\ \A u : SectorsOn(u)' = SectorsOn(u)
  BY DEF AllTracks, SectorsOn
<1>c. c \in Seq(ValidTS(type)) /\ DOMAIN c = 1..Len(c) /\ Len(c) \in Nat
  BY <1>a DEF MapTypes
<1>d. /\ DOMAIN free' = AllTracks /\ count' = [t \in AllTracks |-> count'[t]]
      /\ \A t \in AllTracks : /\ count'[t] = (count[t] + Cardinality(on(t))) % 256
                             /\ free'[t] = free[t] \cup got(t)
  BY DEF SetCells, FreeChain, CellFreeing
<1>e. DOMAIN chain' = Files /\ chain'[f] = <<>> /\ \A g \in Files : g # f => chain'[g] = chain[g]
  BY <1>a DEF MapTypes
<1>f. ASSUME NEW i \in 1..Len(c)
      PROVE  /\ c[i] \in Owned /\ c[i].track \in AllTracks
             /\ c[i] = TS(c[i].track, c[i].sector)
  <2>1. c[i] \in ValidTS(type) /\ c[i] \in Owned
    BY <1>c, OwnedIsInAChain
  <2> HIDE DEF c
  <2> QED BY <1>a, <2>1, ValidParts, Shape DEF AllTracks
<1>1. \A t \in AllTracks : count'[t] = Cardinality(free'[t]) /\ count'[t] \in Byte
                           /\ free'[t] \subseteq SectorsOn(t)
  <2> SUFFICES ASSUME NEW t \in AllTracks
               PROVE  count'[t] = Cardinality(free'[t]) /\ count'[t] \in Byte
                      /\ free'[t] \subseteq SectorsOn(t)
    OBVIOUS
  <2>1. got(t) \subseteq SectorsOn(t) /\ got(t) \cap free[t] = {}
        /\ Cardinality(got(t)) = Cardinality(on(t))
    BY ChainOnTrack
  <2>2. free'[t] = free[t] \cup got(t) /\ count'[t] = (count[t] + Cardinality(on(t))) % 256
    BY <1>d
  <2>3. count[t] = Cardinality(free[t]) /\ free[t] \subseteq SectorsOn(t)
    BY <1>a DEF NoBlockLost, MapTypes
  <2> HIDE DEF got, on
  <2>4. /\ IsFiniteSet(free[t]) /\ IsFiniteSet(got(t))
        /\ Cardinality(free[t]) \in Nat /\ Cardinality(got(t)) \in Nat
        /\ Cardinality(free[t] \cup got(t)) \in 0..40
    <3>1. got(t) \in SUBSET SectorsOn(t) /\ free[t] \in SUBSET SectorsOn(t)
          /\ (free[t] \cup got(t)) \in SUBSET SectorsOn(t)
      BY <2>1, <2>3
    <3>2. \A S \in SUBSET SectorsOn(t) : IsFiniteSet(S) /\ Cardinality(S) \in 0..40
      BY <1>a, FreeIsFinite
    <3>3. /\ IsFiniteSet(free[t]) /\ IsFiniteSet(got(t))
          /\ Cardinality(free[t]) \in 0..40 /\ Cardinality(got(t)) \in 0..40
          /\ Cardinality(free[t] \cup got(t)) \in 0..40
      BY <3>1, <3>2, Zenon
    <3>4. 0..40 \subseteq Nat
      OBVIOUS
    <3> QED BY <3>3, <3>4, Zenon
  <2>5. Cardinality(free[t] \cup got(t)) = Cardinality(free[t]) + Cardinality(got(t))
    <3>1. free[t] \cap got(t) = {}
      BY <2>1
    <3>2. Cardinality(free[t] \cup got(t))
            = Cardinality(free[t]) + Cardinality(got(t)) - Cardinality({})
      BY <2>4, <3>1, FS_Union
    <3> QED BY <2>4, <3>2, FS_EmptySet
  <2>6. count'[t] = (Cardinality(free[t]) + Cardinality(got(t))) % 256
        /\ Cardinality(free'[t]) = Cardinality(free[t]) + Cardinality(got(t))
        /\ Cardinality(free'[t]) \in 0..40
    <3>1. Cardinality(free'[t]) = Cardinality(free[t] \cup got(t))
      BY <2>2
    <3> QED BY <2>1, <2>2, <2>3, <2>4, <2>5, <3>1, Zenon
  <2>7. count'[t] = Cardinality(free'[t]) /\ count'[t] \in Byte
    <3> DEFINE a == Cardinality(free[t])
               b == Cardinality(got(t))
               d == Cardinality(free'[t])
    <3>1. a \in Nat /\ b \in Nat /\ d \in 0..40 /\ d = a + b /\ count'[t] = (a + b) % 256
      BY <2>4, <2>6
    <3> HIDE DEF a, b, d
    <3>2. count'[t] = d /\ count'[t] \in Byte
      BY <3>1 DEF Byte
    <3> QED BY <3>2 DEF d
  <2> QED BY <2>1, <2>2, <2>3, <2>7
<1>2. MapTypes'
  <2>1. count' \in [AllTracks -> Byte]
    BY <1>d, <1>1
  <2>2. \A g \in Files : chain'[g] \in Seq(ValidTS(type))
    BY <1>a, <1>e DEF MapTypes
  <2> QED BY <1>a, <1>b, <1>d, <1>e, <1>1, <2>1, <2>2 DEF MapTypes
<1>3. FreeBlocks' = FreeBlocks \cup {c[i] : i \in 1..Len(c)}
  <2>1. \A x : x \in FreeBlocks' <=> \E u \in AllTracks : \E v \in free'[u] : x = TS(u, v)
    BY <1>b DEF FreeBlocks
  <2>2. \A x : x \in FreeBlocks <=> \E u \in AllTracks : \E v \in free[u] : x = TS(u, v)
    BY <1>a, FreeIsSet
  <2>3. ASSUME NEW u \in AllTracks, NEW v
        PROVE  v \in free'[u] <=> v \in free[u] \/ \E i \in 1..Len(c) : c[i] = TS(u, v)
    <3>1. v \in got(u) <=> \E i \in 1..Len(c) : c[i].track = u /\ c[i].sector = v
      OBVIOUS
    <3>2. \A i \in 1..Len(c) : c[i].track = u /\ c[i].sector = v <=> c[i] = TS(u, v)
      BY <1>f DEF TS
    <3> QED BY <1>d, <3>1, <3>2
  <2>4. \A i \in 1..Len(c) : c[i].track \in AllTracks /\ c[i] = TS(c[i].track, c[i].sector)
    BY <1>f
  <2> HIDE DEF c
  <2>5. ASSUME NEW x \in FreeBlocks' PROVE x \in FreeBlocks \cup {c[i] : i \in 1..Len(c)}
    <3>1. PICK u \in AllTracks : \E v \in free'[u] : x = TS(u, v)
      BY <2>1
    <3>2. PICK v \in free'[u] : x = TS(u, v)
      BY <3>1
    <3> QED BY <2>2, <2>3, <3>2
  <2>6. ASSUME NEW x \in FreeBlocks PROVE x \in FreeBlocks'
    <3>1. PICK u \in AllTracks : \E v \in free[u] : x = TS(u, v)
      BY <2>2
    <3>2. PICK v \in free[u] : x = TS(u, v)
      BY <3>1
    <3> QED BY <2>1, <2>3, <3>2
  <2>7. ASSUME NEW i \in 1..Len(c) PROVE c[i] \in FreeBlocks'
    BY <2>1, <2>3, <2>4
  <2> QED BY <2>5, <2>6, <2>7
<1>4. \A x : x \in Owned' => x \in Owned /\ \A i \in 1..Len(c) : x # c[i]
  <2> SUFFICES ASSUME NEW x \in Owned' PROVE x \in Owned /\ \A i \in 1..Len(c) : x # c[i]
    OBVIOUS
  <2>1. PICK g \in Files : \E j \in DOMAIN chain'[g] : x = chain'[g][j]
    BY DEF Owned, ToSet
  <2>2. g # f /\ chain'[g] = chain[g]
    BY <1>e, <2>1
  <2>3. PICK j \in DOMAIN chain[g] : x = chain[g][j]
    BY <2>1, <2>2
  <2>4. x \in Owned
    BY <2>3, OwnedIsInAChain
  <2>5. \A i \in DOMAIN chain[f] : chain[g][j] # chain[f][i]
    BY <1>a, <2>2 DEF NoBlockShared
  <2> QED BY <1>c, <2>3, <2>4, <2>5
<1>5. \A x \in Owned : x \in Owned' \/ \E i \in 1..Len(c) : x = c[i]
  <2> SUFFICES ASSUME NEW x \in Owned PROVE x \in Owned' \/ \E i \in 1..Len(c) : x = c[i]
    OBVIOUS
  <2>1. PICK g \in Files : \E j \in DOMAIN chain[g] : x = chain[g][j]
    BY OwnedIsInAChain
  <2>2. CASE g = f
    BY <1>c, <2>1, <2>2
  <2>3. CASE g # f
    <3>1. chain'[g] = chain[g]
      BY <1>e, <2>3
    <3> QED BY <2>1, <3>1 DEF Owned, ToSet
  <2> QED BY <2>2, <2>3
<1>6. NoBlockShared'
  <2>1. Owned' \cap FreeBlocks' = {}
    BY <1>a, <1>3, <1>4 DEF NoBlockShared
  <2>2. ASSUME NEW g \in Files, NEW h \in Files, NEW i \in DOMAIN chain'[g], NEW j \in DOMAIN chain'[h],
               chain'[g][i] = chain'[h][j]
        PROVE  g = h /\ i = j
    <3>1. g # f /\ h # f /\ chain'[g] = chain[g] /\ chain'[h] = chain[h]
      BY <1>e
    <3>2. i \in DOMAIN chain[g] /\ j \in DOMAIN chain[h] /\ chain[g][i] = chain[h][j]
      BY <2>2, <3>1
    <3>3. \A x, y \in Files : \A k \in DOMAIN chain[x], l \in DOMAIN chain[y] :
            chain[x][k] = chain[y][l] => x = y /\ k = l
      BY <1>a DEF NoBlockShared
    <3> QED BY <3>2, <3>3
  <2> QED BY <2>1, <2>2 DEF NoBlockShared
<1>7. FreeBlocks' \cup Owned' = pool
  <2>1. \A i \in 1..Len(c) : c[i] \in Owned
    BY <1>f
  <2> HIDE DEF c
  <2>2. FreeBlocks \cup Owned = pool
    BY <1>a DEF NoBlockLost
  <2> QED BY <1>3, <1>4, <1>5, <2>1, <2>2
<1>8. NoBlockLost'
  BY <1>b, <1>1, <1>7 DEF NoBlockLost
<1>9. PromiseIsKept'
  <2>1. IsFiniteSet(pool) /\ Cardinality(FreeBlocks) \in Nat
    BY <1>a, FreeBlocksAreFinite
  <2>2. IsFiniteSet(FreeBlocks') /\ Cardinality(FreeBlocks') \in Nat
    <3>1. FreeBlocks' \in SUBSET pool
      BY <1>7
    <3> QED BY <2>1, <3>1, FS_Subset, FS_CardinalityType
  <2>3. Cardinality(FreeBlocks) <= Cardinality(FreeBlocks')
    <3>1. FreeBlocks \in SUBSET FreeBlocks'
      BY <1>3
    <3> QED BY <2>2, <3>1, FS_Subset
  <2>4. blocksfree \in Nat /\ blocksfree <= Cardinality(FreeBlocks)
    BY <1>a DEF MapTypes, PromiseIsKept
  <2>5. blocksfree' <= Cardinality(FreeBlocks')
    BY <1>b, <2>1, <2>2, <2>3, <2>4
  <2> QED BY <2>5 DEF PromiseIsKept
<1> QED BY <1>2, <1>6, <1>8, <1>9 DEF MapInv

-----------------------------------------------------------------------------
LEMMA BlocksInit == Init => BlocksInv
<1> SUFFICES ASSUME Init PROVE BlocksInv
  OBVIOUS
<1>a. /\ type \in Types /\ pool \in Pools[type]
      /\ free = [t \in AllTracks |-> {ts.sector : ts \in {p \in pool : p.track = t}}]
      /\ count = [t \in AllTracks |-> Cardinality(free[t])]
      /\ blocksfree = Cardinality(pool)
      /\ chain = [f \in Files |-> <<>>] /\ state = [f \in Files |-> "absent"]
      /\ buf = [f \in Files |-> "empty"] /\ filled = [f \in Files |-> 0]
      /\ outcome = "running"
  BY DEF Init
<1>1. /\ type \in ImageTypes /\ type \in {"D64", "D71", "D81"}
      /\ pool \subseteq ValidTS(type)
  BY <1>a, BlocksAssumption DEF ImageTypes, ValidTS
<1>2. \A ts \in pool : /\ ts.track \in AllTracks /\ ts.sector \in SectorsOn(ts.track)
                       /\ ts = TS(ts.track, ts.sector)
  BY <1>1, ValidParts DEF AllTracks, SectorsOn
<1>3. \A t \in AllTracks : \A s : s \in free[t] <=> TS(t, s) \in pool
  <2>1. ASSUME NEW t \in AllTracks, NEW s
        PROVE  s \in free[t] <=> \E ts \in pool : ts.track = t /\ ts.sector = s
    BY <1>a
  <2> QED BY <1>2, <2>1 DEF TS
<1>4. \A t \in AllTracks : free[t] \subseteq SectorsOn(t)
  <2>1. \A t, s : TS(t, s).track = t /\ TS(t, s).sector = s
    BY DEF TS
  <2> QED BY <1>2, <1>3, <2>1
<1>5. FreeBlocks = pool
  <2>1. \A x : x \in FreeBlocks <=> \E t \in AllTracks : \E s \in free[t] : x = TS(t, s)
    BY DEF FreeBlocks
  <2>2. \A t \in AllTracks : \A s \in free[t] : TS(t, s) \in pool
    BY <1>3
  <2>3. \A x \in pool : x \in FreeBlocks
    BY <1>2, <1>3, <2>1
  <2> QED BY <2>1, <2>2, <2>3
<1>6. Owned = {}
  BY <1>a DEF Owned, ToSet
<1>7. \A t \in AllTracks : Cardinality(free[t]) \in 0..40
  <2> SUFFICES ASSUME NEW t \in AllTracks PROVE Cardinality(free[t]) \in 0..40
    OBVIOUS
  <2> DEFINE n == SectorsPerTrack(type, t)
  <2>1. n \in Nat /\ n <= 40
    <3>1. t \in 1..Tracks(type) BY DEF AllTracks
    <3>2. n \in 17..40 BY <1>1, <3>1, Sizes
    <3> QED BY <3>2
  <2>2. free[t] \in SUBSET (0..(n - 1))
    BY <1>4 DEF SectorsOn
  <2> HIDE DEF n
  <2>3. Cardinality(free[t]) <= n /\ Cardinality(free[t]) \in Nat
    <3> DEFINE S == 0..(n - 1)
    <3>1. IsFiniteSet(S) /\ Cardinality(S) = n /\ free[t] \in SUBSET S
      BY <2>1, <2>2, FirstNumbers
    <3> HIDE DEF S
    <3> QED BY <3>1, FS_Subset, FS_CardinalityType
  <2> QED BY <2>1, <2>3
<1>8. blocksfree \in 0..Blocks(type)
  <2>1. IsFiniteSet(ValidTS(type)) /\ Cardinality(ValidTS(type)) <= Blocks(type)
    BY <1>1, ImageIsFinite
  <2> HIDE DEF ValidTS
  <2>2. /\ Cardinality(pool) \in Nat /\ Cardinality(ValidTS(type)) \in Nat
        /\ Cardinality(pool) <= Cardinality(ValidTS(type))
    BY <1>1, <2>1, FS_Subset, FS_CardinalityType
  <2>3. Blocks(type) \in Nat
    BY <1>1 DEF Blocks, ImageTypes
  <2> QED BY <1>a, <2>1, <2>2, <2>3
<1>9. MapTypes
  <2>1. count \in [AllTracks -> Byte]
    <3>1. 0..40 \subseteq Byte
      BY DEF Byte
    <3> QED BY <1>a, <1>7, <3>1
  <2>2. DOMAIN free = AllTracks
    BY <1>a
  <2>3. DOMAIN chain = Files /\ \A f \in Files : chain[f] \in Seq(ValidTS(type))
    BY <1>a
  <2> QED BY <1>a, <1>4, <1>8, <2>1, <2>2, <2>3 DEF MapTypes
<1>10. NoBlockShared
  BY <1>a, <1>6 DEF NoBlockShared
<1>11. NoBlockLost /\ PromiseIsKept
  <2>1. \A t \in AllTracks : count[t] = Cardinality(free[t])
    BY <1>a
  <2>2. blocksfree \in Nat /\ blocksfree = Cardinality(FreeBlocks)
    BY <1>a, <1>5, <1>8
  <2> QED BY <1>5, <1>6, <2>1, <2>2 DEF NoBlockLost, PromiseIsKept
<1>12. FileTypes /\ Whole /\ AllocFinds
  BY <1>a DEF FileTypes, Whole, AllocFinds
<1> QED BY <1>9, <1>10, <1>11, <1>12 DEF BlocksInv, MapInv

(* The buffer of f, which is being written, goes to a block: what di_write *)
(* and di_close have in common.                                            *)
LEMMA Stores ==
  ASSUME BlocksInv, outcome = "running", blocksfree # 0, UNCHANGED <<type, pool>>,
         NEW f \in Files, state[f] = "writing", StoreBlock(f)
  PROVE  /\ MapInv' /\ AllocFinds'
         /\ outcome' \in {"running", "hung", "exited"}
         /\ outcome' = "running" =>
              /\ Len(chain'[f]) = Len(chain[f]) + 1
              /\ \A g \in Files : g # f => chain'[g] = chain[g]
         /\ \A g \in Files : state[g] = "absent" => chain'[g] = chain[g]
<1>a. MapInv /\ MapTypes
  BY DEF BlocksInv, MapInv
<1>1. CASE FindsNone
  <2>1. MapInv'
    BY <1>a, <1>1, SameMap DEF FindsNone
  <2> QED BY <1>1, <2>1 DEF FindsNone, AllocFinds
<1>2. ASSUME NEW ts \in FreeBlocks, Takes(f, ts)
      PROVE  /\ MapInv' /\ AllocFinds' /\ outcome' = "running"
             /\ Len(chain'[f]) = Len(chain[f]) + 1
             /\ \A g \in Files : g # f => chain'[g] = chain[g]
  <2>1. MapInv'
    BY <1>a, <1>2, TakingKeepsMap
  <2>2. outcome' = "running" /\ chain' = [chain EXCEPT ![f] = Append(@, ts)]
    BY <1>2 DEF Takes
  <2>3. chain'[f] = Append(chain[f], ts) /\ \A g \in Files : g # f => chain'[g] = chain[g]
    BY <1>a, <2>2 DEF MapTypes
  <2>4. Len(Append(chain[f], ts)) = Len(chain[f]) + 1
    BY <1>a DEF MapTypes
  <2> QED BY <2>1, <2>2, <2>3, <2>4 DEF AllocFinds
<1>3. FindsNone \/ \E ts \in FreeBlocks : Takes(f, ts)
  BY <1>a, StoreBlockFinds
<1> QED BY <1>1, <1>2, <1>3

LEMMA AbsentAreEmpty ==
  ASSUME FileTypes, NEW f \in Files, state[f] = "absent"
  PROVE  chain[f] = <<>> /\ buf[f] = "empty"
<1>1. chain[f] = <<>>
  BY DEF FileTypes
<1>2. state[f] # "writing"
  OBVIOUS
<1>3. buf[f] = "empty"
  BY <1>2 DEF FileTypes
<1> QED BY <1>1, <1>3

(* One step for each action, and under it the map, the files and Whole. *)
LEMMA BlocksStep == BlocksInv /\ [Next]_vars => BlocksInv'
<1> SUFFICES ASSUME BlocksInv, [Next]_vars PROVE BlocksInv'
  OBVIOUS
<1>a. MapInv /\ MapTypes /\ FileTypes /\ Whole /\ AllocFinds
  BY DEF BlocksInv, MapInv
<1>b. \A f \in Files : Len(chain[f]) \in Nat
  BY <1>a DEF MapTypes
<1>1. CASE UNCHANGED vars
  <2>1. MapInv'
    BY <1>a, <1>1, SameMap DEF vars, fileVars
  <2>2. FileTypes' /\ Whole' /\ AllocFinds'
    BY <1>a, <1>1 DEF vars, fileVars, FileTypes, Whole, Held, AllocFinds
  <2> QED BY <2>1, <2>2 DEF BlocksInv
<1>2. ASSUME NEW f \in Files, OpenWrite(f) PROVE BlocksInv'
  <2>1. MapInv'
    BY <1>a, <1>2, SameMap DEF OpenWrite
  <2>2. FileTypes' /\ AllocFinds'
    BY <1>a, <1>2 DEF OpenWrite, FileTypes, AllocFinds
  <2>3. Whole'
    <3>1. /\ state[f] = "absent" /\ outcome = "running" /\ state' = [state EXCEPT ![f] = "writing"]
          /\ UNCHANGED <<chain, buf, filled, outcome>>
      BY <1>2 DEF OpenWrite
    <3>2. filled[f] = 0 /\ chain[f] = <<>> /\ buf[f] = "empty"
      BY <1>a, <3>1, AbsentAreEmpty DEF Whole
    <3>3. /\ state'[f] = "writing" /\ filled'[f] = 0 /\ Held(f)' = 0
          /\ \A g \in Files : g # f => state'[g] = state[g] /\ Held(g)' = Held(g)
      BY <1>a, <3>1, <3>2 DEF FileTypes, Held
    <3> QED BY <1>a, <3>1, <3>3 DEF Whole
  <2> QED BY <2>1, <2>2, <2>3 DEF BlocksInv
<1>3. ASSUME NEW f \in Files, Write(f) PROVE BlocksInv'
  <2>a. outcome = "running" /\ state[f] = "writing" /\ state' = state /\ type' = type /\ pool' = pool
    BY <1>3 DEF Write
  <2>b. filled[f] = Held(f) /\ filled[f] \in Nat
    BY <1>a, <2>a DEF Whole, FileTypes
  <2>1. CASE /\ buf[f] # "full"
             /\ buf' \in {[buf EXCEPT ![f] = b] : b \in {"some", "full"}}
             /\ filled' = IF buf[f] = "empty" THEN [filled EXCEPT ![f] = @ + 1] ELSE filled
             /\ UNCHANGED <<imageVars, chain, outcome>>
    <3>1. MapInv'
      BY <1>a, <2>a, <2>1, SameMap
    <3>2. PICK b \in {"some", "full"} : buf' = [buf EXCEPT ![f] = b]
      BY <2>1
    <3>3. FileTypes' /\ AllocFinds'
      BY <1>a, <2>a, <2>1, <3>2 DEF FileTypes, AllocFinds
    <3>4. filled'[f] = Held(f)'
      <4>1. buf'[f] = b /\ b # "empty" /\ Held(f)' = Len(chain[f]) + 1
        BY <1>a, <2>1, <3>2 DEF FileTypes, Held
      <4>2. CASE buf[f] = "empty"
        BY <1>a, <1>b, <2>b, <2>1, <4>1, <4>2 DEF FileTypes, Held
      <4>3. CASE buf[f] # "empty"
        BY <2>b, <2>1, <4>1, <4>3 DEF Held
      <4> QED BY <4>2, <4>3
    <3>5. \A g \in Files : g # f => filled'[g] = filled[g] /\ buf'[g] = buf[g]
      BY <1>a, <2>1, <3>2 DEF FileTypes
    <3>6. Whole'
      BY <1>a, <2>a, <2>1, <3>4, <3>5 DEF Whole, Held
    <3> QED BY <3>1, <3>3, <3>6 DEF BlocksInv
  <2>2. CASE UNCHANGED <<imageVars, chain, buf, filled, outcome>>
    <3>1. MapInv'
      BY <1>a, <2>a, <2>2, SameMap
    <3>2. FileTypes' /\ Whole' /\ AllocFinds'
      BY <1>a, <2>a, <2>2 DEF FileTypes, Whole, Held, AllocFinds
    <3> QED BY <3>1, <3>2 DEF BlocksInv
  <2>3. CASE /\ buf[f] = "full" /\ blocksfree # 0
             /\ StoreBlock(f)
             /\ buf' \in {[buf EXCEPT ![f] = b] : b \in {"some", "full"}}
             /\ filled' = [filled EXCEPT ![f] = @ + 1]
    <3>1. /\ MapInv' /\ AllocFinds'
          /\ outcome' \in {"running", "hung", "exited"}
          /\ outcome' = "running" =>
               /\ Len(chain'[f]) = Len(chain[f]) + 1
               /\ \A g \in Files : g # f => chain'[g] = chain[g]
          /\ \A g \in Files : state[g] = "absent" => chain'[g] = chain[g]
      BY <2>a, <2>3, Stores
    <3>2. PICK b \in {"some", "full"} : buf' = [buf EXCEPT ![f] = b]
      BY <2>3
    <3>3. FileTypes'
      BY <1>a, <2>a, <2>3, <3>1, <3>2 DEF FileTypes
    <3>4. outcome' = "running" => filled'[f] = Held(f)'
      BY <1>a, <1>b, <2>a, <2>b, <2>3, <3>1, <3>2 DEF FileTypes, Held
    <3>5. \A g \in Files : g # f => filled'[g] = filled[g] /\ buf'[g] = buf[g]
      BY <1>a, <2>3, <3>2 DEF FileTypes
    <3>6. Whole'
      BY <1>a, <2>a, <3>1, <3>4, <3>5 DEF Whole, Held
    <3> QED BY <3>1, <3>3, <3>6 DEF BlocksInv
  <2> QED BY <1>3, <2>1, <2>2, <2>3 DEF Write
<1>4. ASSUME NEW f \in Files, Close(f) PROVE BlocksInv'
  <2>a. /\ outcome = "running" /\ state[f] = "writing" /\ type' = type /\ pool' = pool
        /\ filled' = filled /\ buf' = [buf EXCEPT ![f] = "empty"]
    BY <1>4 DEF Close
  <2>b. filled[f] = Held(f)
    BY <1>a, <2>a DEF Whole
  <2>1. CASE /\ buf[f] = "empty" /\ state' = [state EXCEPT ![f] = "closed"]
             /\ UNCHANGED <<imageVars, chain, outcome>>
    <3>1. MapInv'
      BY <1>a, <2>a, <2>1, SameMap
    <3>2. FileTypes' /\ AllocFinds'
      BY <1>a, <2>a, <2>1 DEF FileTypes, AllocFinds
    <3>3. Whole'
      <4>1. filled[f] = Len(chain[f])
        BY <1>b, <2>b, <2>1 DEF Held
      <4>2. /\ state'[f] = "closed"
            /\ \A g \in Files : g # f => state'[g] = state[g] /\ Held(g)' = Held(g)
        BY <1>a, <2>a, <2>1 DEF FileTypes, Held
      <4> QED BY <1>a, <2>a, <2>1, <4>1, <4>2 DEF Whole
    <3> QED BY <3>1, <3>2, <3>3 DEF BlocksInv
  <2>2. CASE /\ buf[f] # "empty" /\ blocksfree # 0 /\ StoreBlock(f)
             /\ state' = [state EXCEPT ![f] = "closed"]
    <3>1. /\ MapInv' /\ AllocFinds'
          /\ outcome' \in {"running", "hung", "exited"}
          /\ outcome' = "running" =>
               /\ Len(chain'[f]) = Len(chain[f]) + 1
               /\ \A g \in Files : g # f => chain'[g] = chain[g]
          /\ \A g \in Files : state[g] = "absent" => chain'[g] = chain[g]
      BY <2>a, <2>2, Stores
    <3>2. FileTypes'
      BY <1>a, <2>a, <2>2, <3>1 DEF FileTypes
    <3>3. outcome' = "running" => filled'[f] = Len(chain'[f])
      BY <1>b, <2>a, <2>b, <2>2, <3>1 DEF Held
    <3>4. state'[f] = "closed" /\ \A g \in Files : g # f => state'[g] = state[g] /\ buf'[g] = buf[g]
      BY <1>a, <2>a, <2>2 DEF FileTypes
    <3>5. Whole'
      BY <1>a, <2>a, <3>1, <3>3, <3>4 DEF Whole, Held
    <3> QED BY <3>1, <3>2, <3>5 DEF BlocksInv
  <2>3. CASE /\ buf[f] # "empty" /\ blocksfree = 0
             /\ state' = [state EXCEPT ![f] = "unclosed"]
             /\ UNCHANGED <<imageVars, chain, outcome>>
    <3>1. MapInv'
      BY <1>a, <2>a, <2>3, SameMap
    <3>2. FileTypes' /\ AllocFinds'
      BY <1>a, <2>a, <2>3 DEF FileTypes, AllocFinds
    <3>3. Whole'
      BY <1>a, <2>a, <2>3 DEF Whole, Held, FileTypes
    <3> QED BY <3>1, <3>2, <3>3 DEF BlocksInv
  <2> QED BY <1>4, <2>1, <2>2, <2>3 DEF Close
<1>5. ASSUME NEW f \in Files, Delete(f) PROVE BlocksInv'
  <2>a. /\ outcome = "running" /\ state[f] \in {"closed", "unclosed"}
        /\ SetCells(FreeChain(chain[f])) /\ chain' = [chain EXCEPT ![f] = <<>>]
        /\ state' = [state EXCEPT ![f] = "absent"] /\ filled' = [filled EXCEPT ![f] = 0]
        /\ UNCHANGED <<type, blocksfree, buf, outcome, pool>>
    BY <1>5 DEF Delete
  <2>1. MapInv'
    BY <1>a, <2>a, FreeingKeepsMap
  <2>2. /\ chain'[f] = <<>> /\ state'[f] = "absent" /\ filled'[f] = 0 /\ buf' = buf
        /\ \A g \in Files : g # f => /\ chain'[g] = chain[g] /\ state'[g] = state[g]
                                    /\ filled'[g] = filled[g] /\ Held(g)' = Held(g)
    BY <1>a, <2>a DEF FileTypes, MapTypes, Held
  <2>3. FileTypes'
    BY <1>a, <2>a, <2>2 DEF FileTypes
  <2>4. Whole' /\ AllocFinds'
    BY <1>a, <2>a, <2>2 DEF Whole, AllocFinds
  <2> QED BY <2>1, <2>3, <2>4 DEF BlocksInv
<1> QED BY <1>1, <1>2, <1>3, <1>4, <1>5 DEF Next

LEMMA BlocksInvariant == Spec => []BlocksInv
<1>1. Init => BlocksInv BY BlocksInit
<1>2. BlocksInv /\ [Next]_vars => BlocksInv' BY BlocksStep
<1> QED BY <1>1, <1>2, PTL DEF Spec

-----------------------------------------------------------------------------
(* The variables keep their types. *)
THEOREM BlocksTypeCorrect == Spec => []TypeOK
<1>1. BlocksInv => TypeOK
  <2> SUFFICES ASSUME BlocksInv PROVE TypeOK
    OBVIOUS
  <2>1. MapTypes /\ FileTypes
    BY DEF BlocksInv, MapInv
  <2>2. \A f \in Files : state[f] = "absent" => chain[f] = <<>> /\ buf[f] = "empty"
    BY <2>1, AbsentAreEmpty
  <2> QED BY <2>1, <2>2 DEF MapTypes, FileTypes, TypeOK
<1> QED BY <1>1, BlocksInvariant, PTL

(* No block has two owners (alloc_next_ts, di_write, di_close, free_chain). *)
THEOREM BlocksHaveOneOwner == Spec => []NoBlockShared
<1>1. BlocksInv => NoBlockShared
  BY DEF BlocksInv, MapInv
<1> QED BY <1>1, BlocksInvariant, PTL

(* No block is lost, and the counts of the map are right (alloc_next_ts,   *)
(* free_chain).                                                            *)
THEOREM BlocksAreKept == Spec => []NoBlockLost
<1>1. BlocksInv => NoBlockLost
  BY DEF BlocksInv, MapInv
<1> QED BY <1>1, BlocksInvariant, PTL

(* On a D64 or D81 alloc_next_ts finds a block whenever blocksfree is not  *)
(* 0, in whatever order files are written and deleted.                     *)
THEOREM AllocationFinds == Spec => []AllocFinds
<1>1. BlocksInv => AllocFinds
  BY DEF BlocksInv
<1> QED BY <1>1, BlocksInvariant, PTL

(* A file flagged as closed has all its writes accepted (di_close). *)
THEOREM FlaggedAreWhole == Spec => []FlaggedFilesAreWhole
<1>1. BlocksInv => FlaggedFilesAreWhole
  BY DEF BlocksInv, Whole, FlaggedFilesAreWhole
<1> QED BY <1>1, BlocksInvariant, PTL

=============================================================================
