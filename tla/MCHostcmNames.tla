--------------------------- MODULE MCHostcmNames ---------------------------
(* An instance of HostcmNames: two directories, two file names.            *)
EXTENDS HostcmNames

MCInitialFiles == {<<"top", "a">>, <<"sub", "a">>, <<"sub", "b">>}
=============================================================================
