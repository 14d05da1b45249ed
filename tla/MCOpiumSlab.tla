----------------------------- MODULE MCOpiumSlab -----------------------------
(***************************************************************************)
(* The pointers that the clients of the slab pass opium_slab_free, for TLC. *)
(***************************************************************************)
EXTENDS OpiumSlabHistory

\* A client that returns the pointers it was given.
SamePointer(slot) == {slot}

\* opium_arena_free subtracts the slot header from the pointer before it calls
\* opium_slab_free, which subtracts it once more: the distance of the byte before
\* a slot is in the slot before.  Before slot 0 the distance wraps around and the
\* shift by the quotient is undefined: any bit.
ArenaPointer(slot) == IF slot > 0 THEN {slot - 1} ELSE Bits

=============================================================================
