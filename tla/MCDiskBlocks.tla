---------------------------- MODULE MCDiskBlocks ----------------------------
(* Instances of DiskBlocks: for each type a few pools, with blocks on the  *)
(* first and last tracks, on both sides of the gaps that alloc_next_ts     *)
(* leaves and in both of its loops, and of more than one to a track.  On a *)
(* D81 the bytes of the map that alloc_file_entry takes for types are not  *)
(* 0 at first: seven blocks are free for that alone.                       *)
EXTENDS DiskBlocks

MCPools ==
  [t \in Types |->
     CASE t = "D64" -> {{TS(1, 0), TS(1, 20), TS(17, 5), TS(35, 16)}, {TS(19, 10), TS(19, 11), TS(25, 17)}}
       [] t = "D71" -> {{TS(1, 0), TS(36, 0), TS(36, 20), TS(37, 8)}, {TS(52, 1), TS(70, 16)},
                     {TS(17, 0), TS(36, 8)}}
       [] t = "D81" -> {{TS(40 + n, 8 * g) : <<n, g>> \in
                           {<<4, 0>>, <<9, 1>>, <<14, 3>>, <<20, 0>>, <<25, 1>>, <<30, 3>>, <<36, 4>>}}
                          \cup extra : extra \in {{TS(39, 39), TS(80, 0)}, {TS(41, 7), TS(44, 1)}}}]
=============================================================================
