-------------------------- MODULE MCHostcmRecords --------------------------
(* Instances of HostcmRecords, with SENDBUF scaled down to 11: lengths on  *)
(* either side of the room for a line (6), of a buffer and of two.         *)
EXTENDS HostcmRecords

(* No two bytes of a run are the same, but for a line end in the records   *)
(* that are too long for a line.                                           *)
MCRecord(k, n) == [j \in 1..n |-> IF n >= 10 /\ j = 2 THEN CR ELSE 32 * (8 - k) + j]

MCLengths ==
  [text     |-> {0, 1, 5, 6, 7},
   variable |-> {0, 1, 10, 11, 23},
   fixed    |-> {1, 2, 10, 11, 12, 16, 21, 22, 23}]

MCLines == [text |-> {5, 6, 7}, variable |-> {}, fixed |-> {}]
=============================================================================
