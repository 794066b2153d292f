--------------------------- MODULE MCHostcmServer ---------------------------
(* A client that opens a file, puts two records and closes it. *)
EXTENDS HostcmServer

MCScript == <<"open", "put", "put", "close">>
=============================================================================
