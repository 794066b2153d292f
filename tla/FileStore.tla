------------------------------ MODULE FileStore ------------------------------
(***************************************************************************)
(* What the disk image library promises to a program that writes files on  *)
(* an image: a file is the sequence of the parts written to it; an         *)
(* operation on one file changes no other; saving the image saves all      *)
(* files, and a program that loads it finds them as they were saved.       *)
(* Nothing is promised once a file was deleted that was still open for     *)
(* writing (torn).  DiskFiles implements this.                             *)
(***************************************************************************)
EXTENDS Sequences

CONSTANTS Names, Parts

VARIABLES
  store,  \* the files: a function from the names there are to their parts
  saved,  \* [whole, store]: the image file, or what an interrupted save left
  torn    \* whether a file was deleted under its writer

vars == <<store, saved, torn>>

Init ==
  /\ store = <<>>
  /\ saved = [whole |-> TRUE, store |-> store]
  /\ torn = FALSE

Create(n) ==
  /\ n \notin DOMAIN store
  /\ store' = [m \in DOMAIN store \cup {n} |-> IF m = n THEN <<>> ELSE store[m]]
  /\ UNCHANGED <<saved, torn>>

Extend(n) ==
  /\ n \in DOMAIN store
  /\ LET was == store
     IN store' \in {[was EXCEPT ![n] = Append(@, part)] : part \in Parts}
  /\ UNCHANGED <<saved, torn>>

Remove(n) ==
  /\ n \in DOMAIN store
  /\ store' = [m \in DOMAIN store \ {n} |-> store[m]]
  /\ UNCHANGED <<saved, torn>>

Move(n, new) ==
  /\ n \in DOMAIN store /\ new \notin DOMAIN store
  /\ store' = [m \in (DOMAIN store \ {n}) \cup {new} |-> IF m = new THEN store[n] ELSE store[m]]
  /\ UNCHANGED <<saved, torn>>

Save ==
  /\ saved' \in {[whole |-> TRUE, store |-> store], [whole |-> FALSE, store |-> <<>>]}
  /\ UNCHANGED <<store, torn>>

Load ==
  /\ saved.whole
  /\ store' = saved.store
  /\ UNCHANGED <<saved, torn>>

(* Nothing is promised of the other variables. *)
Tear == torn' = TRUE

Next ==
  \/ \E n \in Names : Create(n) \/ Remove(n) \/ Extend(n)
  \/ \E n, new \in Names : Move(n, new)
  \/ Save \/ Load \/ Tear

Spec == Init /\ [][Next]_vars

=============================================================================
