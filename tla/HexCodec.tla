------------------------------ MODULE HexCodec ------------------------------
(***************************************************************************)
(* The conversions of xtob.c between bytes and hex digits.  Both work in   *)
(* place: xtob goes up the buffer and writes behind what it has yet to     *)
(* read, btox has to come down it.  p[i] of the code is p[i + 1] here.      *)
(***************************************************************************)
LOCAL INSTANCE Integers
LOCAL INSTANCE Sequences

(* hex[d] *)
Digit(d) == IF d < 10 THEN 48 + d ELSE 55 + d

Upper(c) == IF c \in 97..102 THEN c - 32 ELSE c
IsXdigit(c) == c \in 48..57 \/ Upper(c) \in 65..70
Value(c) == IF c <= 57 THEN c - 48 ELSE Upper(c) - 65 + 10

(* A turn of xtob, on the buffer p: where there are no two digits the byte *)
(* stays what it was.                                                      *)
Joined(i) == [p \in Seq(0..255) |->
  IF IsXdigit(p[2 * i + 1]) /\ IsXdigit(p[2 * i + 2])
  THEN [p EXCEPT ![i + 1] = 16 * Value(p[2 * i + 1]) + Value(p[2 * i + 2])]
  ELSE p]

Xtob(p) ==
  LET n == Len(p) \div 2
      after[i \in 0..n] == IF i = 0 THEN p ELSE Joined(i - 1)[after[i - 1]]
  IN SubSeq(after[n], 1, n)

(* A turn of btox: the two digits of byte i, the low one first. *)
Spread(i) == [p \in Seq(0..255) |->
  LET low == [p EXCEPT ![2 * i + 2] = Digit(p[i + 1] % 16)]
  IN [low EXCEPT ![2 * i + 1] = Digit(low[i + 1] \div 16)]]

(* As Btox, going up the buffer. *)
BtoxUpwards(p) ==
  LET n == Len(p)
      after[i \in 0..n] == IF i = 0 THEN p \o p ELSE Spread(i - 1)[after[i - 1]]
  IN after[n]

(* btox, in a buffer with room for twice the bytes. *)
Btox(p) ==
  LET n == Len(p)
      after[i \in 0..n] == IF i = 0 THEN p \o p ELSE Spread(n - i)[after[i - 1]]
  IN after[n]

=============================================================================
