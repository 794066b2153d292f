--------------------------- MODULE MCHostcmFiles ---------------------------
(* An instance of HostcmFiles: two slots, and three designators.  "a" has  *)
(* no format and is read and updated, its relative file is also appended   *)
(* to under its full name, and "b,seq" is read with a record length that   *)
(* is not the default.                                                     *)
EXTENDS HostcmFiles

Plain    == [base |-> "a", ext |-> ""]
Relative == [base |-> "a", ext |-> "rel"]
Other    == [base |-> "b", ext |-> "seq"]

MCNames    == {Plain, Relative, Other}
MCRequests == {<<"r", Plain, "f", 0>>, <<"u", Plain, "f", 0>>,
               <<"a", Relative, "f", 0>>, <<"r", Other, "f", 3>>}
MCOnDisk   == {[rl |-> 2, base |-> "a", ext |-> "rel"],
               [rl |-> 3, base |-> "b", ext |-> "seq"],
               [rl |-> 3, base |-> "b", ext |-> "rel"]}
=============================================================================
