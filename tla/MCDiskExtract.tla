---------------------------- MODULE MCDiskExtract ----------------------------
(* Directories of one block of two slots on a track with few free sectors: *)
(* a D64 whose last sector makes the search run over the end of the track, *)
(* with a file the caller did not create; a full one with two relative     *)
(* files of one name; a D81 with one byte of its map 0; a D80 with one     *)
(* byte of its map 0 and a sector left on each track.                      *)
EXTENDS DiskExtract

Blank(n, zero) ==
  [p \in 0..(n * SlotsPerBlock + SlotsPerBlock - 1) |->
     IF p < SlotsPerBlock /\ p \notin zero THEN MapByte ELSE Empty]

MCImages ==
  {[type |-> "D64", chain |-> <<16>>, free |-> (18 :> {2}),
    slots |-> [Blank(1, {}) EXCEPT ![3] = NewEntry("b", "rel")]],
   [type |-> "D64", chain |-> <<16>>, free |-> (18 :> {}),
    slots |-> [Blank(1, {}) EXCEPT ![2] = NewEntry("b", "rel"), ![3] = NewEntry("b", "rel")]],
   [type |-> "D81", chain |-> <<3>>, free |-> (40 :> {5}), slots |-> Blank(1, {1})],
   [type |-> "D80", chain |-> <<1>>, free |-> (38 :> {7} @@ 39 :> {28}), slots |-> Blank(1, {1})]}

(* Plain names; one that is a pattern for the other; two of one text; two  *)
(* of one output name, the first a pattern for the second.                 *)
Plain == [n \in Names |-> {n}]
Texts == [n \in Names |-> n]
OneText == [n \in Names |-> "a"]
MCNamings ==
  {[pattern |-> Plain, text |-> Texts, out |-> Texts],
   [pattern |-> [Plain EXCEPT !["b"] = Names], text |-> Texts, out |-> Texts],
   [pattern |-> Plain, text |-> OneText, out |-> OneText],
   [pattern |-> [Plain EXCEPT !["a"] = Names], text |-> Texts, out |-> OneText]}
=============================================================================
