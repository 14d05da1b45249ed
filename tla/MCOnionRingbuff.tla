--------------------------- MODULE MCOnionRingbuff ---------------------------
(***************************************************************************)
(* OnionRingbuff for TLC: an empty record, a short one and one that fills  *)
(* most of the ring.                                                       *)
(***************************************************************************)
EXTENDS OnionRingbuff, TLC

CONSTANTS r0, r1, r3

MCLength == (r0 :> 0) @@ (r1 :> 1) @@ (r3 :> 3)

=============================================================================
