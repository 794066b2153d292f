-------------------------- MODULE MCHostcmFraming --------------------------
(* An instance of HostcmFraming: bytes whose low nibbles are 0, 1, 3, 9,   *)
(* 13 and 15 ('p', 'a', 's', 'y', 'M', 'o') in every order.  'M' is one    *)
(* bit from a line end; the sums of 's' and 'y' are those of 'p' and 'a'   *)
(* run together with their letters.  'N' is the frame without a checksum.  *)
EXTENDS HostcmFraming

MCBytes == {112, 97, 115, 121, 77, 111}
MCPayloads == UNION {[1..n -> MCBytes] : n \in 1..2} \cup {<<Nak>>}
=============================================================================
