------------------------- MODULE MCOpiumSlabGeometry -------------------------
(***************************************************************************)
(* The slab sizes up to 160 and those of the arena; the requests up to 200 *)
(* and those around each power of two.                                     *)
(***************************************************************************)
EXTENDS OpiumArena

MCItemSizes   == (1 .. 160) \cup {2 ^ k : k \in 8 .. 16}
MCPowersOfTwo == {2 ^ k : k \in 0 .. 24}
MCRequests    == (2 .. 200) \cup {2 ^ k + d : k \in 8 .. 15, d \in {-1, 0, 1}} \cup {65535, 65536}

=============================================================================
