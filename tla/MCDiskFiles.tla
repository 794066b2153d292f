----------------------------- MODULE MCDiskFiles -----------------------------
(* Blocks, names and streams are alike.  What is after a file was deleted  *)
(* under its writer is not followed further: nothing is promised of it.    *)
EXTENDS DiskFiles

Alike == Permutations(Blocks) \cup Permutations(Names) \cup Permutations(Writers)

UntilTorn == ~torn
=============================================================================
