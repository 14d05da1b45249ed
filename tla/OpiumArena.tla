----------------------------- MODULE OpiumArena ------------------------------
(***************************************************************************)
(* How the arena (project/core/opium_arena.c) chooses, for a request of    *)
(* some bytes, one of its slabs, with the two functions of opium.c it uses *)
(* for that.  The slabs are those opium_arena_init initialises with        *)
(* 2^MIN_SHIFT .. 2^MAX_SHIFT bytes; OpiumSlabGeometry has the slab itself. *)
(***************************************************************************)
EXTENDS OpiumSlabGeometry

CONSTANTS
  Requests   \* bound: the sizes opium_arena_alloc is called with

OPIUM_ARENA_MIN_SHIFT == 4
OPIUM_ARENA_MAX_SHIFT == 16
min_size    == 2 ^ OPIUM_ARENA_MIN_SHIFT
shift_count == OPIUM_ARENA_MAX_SHIFT - OPIUM_ARENA_MIN_SHIFT + 1

\* opium_arena_alloc refuses sizes up to 1 and takes all others.
ASSUME ArenaAssumption == Requests \subseteq Nat \ {0, 1}

\* 64 - __builtin_clzll(x), for x # 0.
SignificantBits(x) == CHOOSE k \in 1 .. 64 : 2 ^ (k - 1) <= x /\ x < 2 ^ k

\* Mutant: the bits of x itself.
RoundOfTwoUp(x) == 2 ^ SignificantBits(x)

opium_round_of_two(x) == 2 ^ SignificantBits(x - 1)
opium_log2(x)         == SignificantBits(x) - 1

\* The slab of a request, and the bytes it was initialised with.
RoundSize(size) ==
  IF opium_round_of_two(size) < min_size THEN min_size ELSE opium_round_of_two(size)

Index(size) == opium_log2(RoundSize(size)) - OPIUM_ARENA_MIN_SHIFT

SlabBytes(index) == 2 ^ (OPIUM_ARENA_MIN_SHIFT + index)

\* Whether the slab just initialised is that of some index of the arena.
IsSlab(index) == item_size = Slotted(SlabBytes(index))

-----------------------------------------------------------------------------
(* Properties.                                                               *)

\* A request is given a slot that holds it, of the smallest such slab: the slot
\* header and the size bytes that opium_arena_calloc clears lie in the slot.
RequestFitsSlot ==
  \A size \in Requests :
    /\ size <= SlabBytes(shift_count - 1) => Index(size) \in 0 .. shift_count - 1
    /\ IsSlab(Index(size)) =>
         /\ size + OPIUM_SLAB_SLOT_HEADER <= item_size
         /\ Index(size) > 0 => 2 * size > SlabBytes(Index(size))

=============================================================================
