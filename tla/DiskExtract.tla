----------------------------- MODULE DiskExtract -----------------------------
(***************************************************************************)
(* diutil/diextract.c: a program that used the library has ended with its  *)
(* image saved, and the tool is started on it.  It loads the image, lists  *)
(* the directory with di_readdir, opens each entry for reading by its name *)
(* and type, and copies it to an output file of its own.  The directory    *)
(* and its streams are those of DiskDirectory; the tool changes no image.  *)
(*                                                                         *)
(* di_open takes the name of an entry for a pattern.  A naming says which  *)
(* names each name so matches, the text ptoa makes of it, which -e asks    *)
(* for, and the output's name, where '/' has become '~'.  Two names may    *)
(* have one text, and two texts one output name.                           *)
(***************************************************************************)
EXTENDS DiskDirectory

CONSTANTS
  Namings,       \* records of functions on Names: pattern (a subset of Names), text, out
  RecordLengths  \* of relative files

ASSUME NamingsAssumption ==
  /\ Namings # {}
  /\ \A n \in Namings :
       /\ DOMAIN n.pattern = Names /\ DOMAIN n.text = Names /\ DOMAIN n.out = Names
       /\ \A m \in Names : m \in n.pattern[m] /\ n.pattern[m] \subseteq Names
       /\ \A m, k \in Names : n.text[m] = n.text[k] => n.out[m] = n.out[k]
  /\ RecordLengths \subseteq Nat

VARIABLES
  phase,     \* "library", then "extracting", "done" (exit 0) or "failed" (exit -1)
  naming,    \* which kind of names the image has
  withData,  \* the slots whose file has a first block (startts)
  lengths,   \* the record length (rl) of each entry
  wanted,    \* -e: the one text and type asked for, or All
  outputs    \* the output files: [name, from, whole], from the slot whose file was
             \* copied, whole when all of its data is in the output

toolVars == <<phase, naming, withData, lengths, wanted, outputs>>
allVars == <<vars, toolVars>>

(* exfn is NULL. *)
All == <<>>

(* name and type of an entry; the bytes of a map have no name. *)
TextIn(names, e) == <<IF e.name \in Names THEN names.text[e.name] ELSE e.name, e.type>>

(* fname of the entry in slot p, "(f:rl)" before it if rl is not 0. *)
OutName(p) == <<lengths[p], naming.out[slots[p].name], slots[p].type>>

Entries == {p \in SearchSlots : slots[p].type \in FileTypes}

ToolTypeOK ==
  /\ TypeOK
  /\ phase \in {"library", "extracting", "done", "failed"}
  /\ naming \in Namings /\ withData \subseteq Entries
  /\ \A o \in outputs : o.from \in Entries /\ o.whole \in BOOLEAN

ToolInit ==
  /\ Init
  /\ phase = "library" /\ naming = CHOOSE n \in Namings : TRUE
  /\ withData = {} /\ lengths = <<>> /\ wanted = All /\ outputs = {}

Library == phase = "library" /\ DirNext /\ UNCHANGED toolVars

(* The start of main: di_load_image and di_opendir.  A file that was given *)
(* no data has no first block.                                             *)
Start ==
  /\ phase = "library" /\ Running /\ ~stream.open
  /\ phase' = "extracting"
  /\ withData' \in SUBSET Entries
  /\ naming' \in Namings
  /\ lengths' \in [Entries -> RecordLengths \cup {0}]
  /\ \A p \in Entries : slots[p].type # "rel" => lengths'[p] = 0
  /\ wanted' \in {All} \cup {TextIn(naming', slots[p]) : p \in Entries}
  /\ stream' = [open |-> TRUE, at |-> FirstListed * SlotsPerBlock,
                buffer |-> BlockSlots(FirstListed), more |-> TRUE]
  /\ status' = 0 /\ listed' = <<>> /\ stayed' = Entries
  /\ UNCHANGED <<type, chain, slots, free, owned, outcome, outputs>>

(* strcmp(pdirent->name, exfn), and the type. *)
Filtered(e) == wanted # All /\ TextIn(naming, e) # wanted

(* di_open(pdi, pdirent->rawname, pdirent->type, "rb"): the first entry    *)
(* the name matches as a pattern, if there is one; there is no stream if   *)
(* it has no block (status 66).                                            *)
Opened(e) ==
  LET found == IF e.name \in Names THEN Matching(naming.pattern[e.name], e.type) ELSE {}
  IN {p \in found \cap withData : \A q \in found : p <= q}

(* fopen(fname, "wx"). *)
Exists(p) == \E o \in outputs : o.name = OutName(p)

Fail == phase' = "failed" /\ UNCHANGED outputs

Output(p, whole) == {[name |-> OutName(p), from |-> q, whole |-> whole] : q \in Opened(View(p))}

(* As Copy, with an output of that name written over. *)
CopyOver(p) ==
  \/ /\ Opened(View(p)) = {} /\ Fail
  \/ /\ Opened(View(p)) # {}
     /\ \E whole \in BOOLEAN :
          outputs' = {o \in outputs : o.name # OutName(p)} \cup Output(p, whole)
     /\ UNCHANGED phase

(* The body of the loop for the entry in slot p, not filtered out: di_open *)
(* fails; fopen fails, as it must when the output exists; or the file is   *)
(* copied.  When fwrite fails the tool exits with what it has written; it  *)
(* goes on when di_read ends early or the size is not the entry's, which   *)
(* is only said, and when fclose cannot write the last of the data, which  *)
(* it does not look at.                                                    *)
Copy(p) ==
  \/ Opened(View(p)) = {} /\ Fail
  \/ Opened(View(p)) # {} /\ Fail
  \/ /\ Opened(View(p)) # {} /\ ~Exists(p)
     /\ \E whole \in BOOLEAN :
          /\ outputs' = outputs \cup Output(p, whole)
          /\ phase' \in {phase} \cup (IF whole THEN {} ELSE {"failed"})

(* One round of the loop: di_readdir and what is done with its entry. *)
ExtractNext ==
  /\ phase = "extracting"
  /\ ReadDir
  /\ \/ /\ Ahead = {}
        /\ phase' = "done"
        /\ UNCHANGED outputs
     \/ /\ Ahead # {} /\ Filtered(View(Min(Ahead)))
        /\ UNCHANGED <<phase, outputs>>
     \/ /\ Ahead # {} /\ ~Filtered(View(Min(Ahead)))
        /\ Copy(Min(Ahead))
  /\ UNCHANGED <<naming, withData, lengths, wanted>>

Next == Library \/ Start \/ ExtractNext

Spec == ToolInit /\ [][Next]_allVars

-----------------------------------------------------------------------------
(* Properties. *)

(* The name of the entry in p finds an entry that the tool could take for  *)
(* another one: of other text, or of other record length.                  *)
Ambiguous(p) ==
  \E q \in Matching(naming.pattern[slots[p].name], slots[p].type) :
    \/ TextIn(naming, slots[q]) # TextIn(naming, slots[p])
    \/ lengths[q] # lengths[p]

(* "There's a potential that this could cause a collision, but if one      *)
(* happens it'll be caught by during the extraction": when the tool exits  *)
(* with 0, every entry asked for has an output of its own, and it was      *)
(* opened for that entry and no namesake, unless the entry's name finds    *)
(* one that does not collide with it (di_open, fopen "wx").  Not that the  *)
(* output is whole: of fclose and a short di_read the exit status tells    *)
(* nothing.                                                                *)
ExtractedIsListed ==
  phase = "done" =>
    LET asked == {p \in Entries : ~Filtered(slots[p])}
    IN /\ Cardinality(outputs) = Cardinality(asked)
       /\ \A p \in asked : \E o \in outputs :
            o.name = OutName(p) /\ (Ambiguous(p) \/ o.from = p)

=============================================================================
