--------------------------- MODULE OnionBlockPool ----------------------------
(***************************************************************************)
(* The block pool of src/onion/pool.c, from which workers, epolls, tags    *)
(* and peers are allocated.  A pool keeps two maps of its blocks: bitmap,  *)
(* which chooses the block that is given out, and bitmask, which the timer *)
(* of an epoll walks to find the blocks in use.  Each is searched and      *)
(* changed on its own.                                                     *)
(*                                                                         *)
(* onion_block_init asks for one byte per 64 blocks for bitmap where one   *)
(* per 8 is used: the bits beyond are whatever the allocated memory held.  *)
(***************************************************************************)
EXTENDS OnionBitmask, FiniteSets

CONSTANTS
  Byte,       \* the bits of a byte: 8
  Power,      \* the powers of two a size_t holds
  Request,    \* the numbers of blocks pools are made for
  BlockSize   \* the sizes of blocks

ASSUME PoolAssumption ==
  /\ Byte \in Nat \ {0}
  /\ Power \subseteq Nat
  /\ Request \subseteq Nat \ {0}
  /\ BlockSize \subseteq Nat \ {0}
  /\ \A n \in Request, s \in BlockSize : \E p \in Power : n * s <= p

VARIABLES
  up,            \* the pool exists
  asked,         \* the number of blocks it was made for
  block_max,     \* the number of blocks it has
  bitmap,        \* the blocks whose bit is 1 in bitmap
  mask,          \* the offsets whose bit is 1 in bitmask
  block_free, block_count,
  garbage,       \* the blocks whose bit was 1 before anything was allocated
  held,          \* the blocks the program holds
  fault          \* "none", or "unlinked" after a list_del of wild links

vars == <<up, asked, block_max, bitmap, mask, block_free, block_count, garbage, held, fault>>

round_size_pow2(size) == Lowest({p \in Power : size <= p})

\* Mutant: the size is rounded down.
RoundDown(n, size) ==
  (CHOOSE p \in Power : p <= n * size /\ \A q \in Power : q <= n * size => q <= p) \div size

\* The blocks of a pool made for n of them.
BlockMax(n, size) == round_size_pow2(n * size) \div size

\* The bits onion_block_init sets to 0.
Cleared(max) == 0 .. Byte * conv_size(max) - 1

BlocksOf(max) == 0 .. max - 1

\* The blocks ffb of utils.h chooses the first of.
Clear == BlocksOf(block_max) \ bitmap

-----------------------------------------------------------------------------
InitPool(n, size) ==
  /\ fault = "none" /\ ~up
  /\ up' = TRUE
  /\ asked' = n
  /\ block_max' = BlockMax(n, size)
  /\ garbage' \in SUBSET (BlocksOf(block_max') \ Cleared(block_max'))
  /\ bitmap' = garbage'
  /\ mask' = {}
  /\ block_free' = block_max'
  /\ block_count' = 0
  /\ UNCHANGED <<held, fault>>

Chosen == Lowest(Clear)

\* Mutant: the block is not counted.
AllocUncounted ==
  /\ fault = "none" /\ up /\ block_free > 0 /\ Clear # {}
  /\ mask' = onion_bitmask_add(mask, block_max, 1)
  /\ bitmap' = bitmap \cup {Chosen}
  /\ held' = held \cup {Chosen}
  /\ block_free' = block_free - 1
  /\ UNCHANGED <<up, asked, block_max, block_count, garbage, fault>>

\* The bit that is set in bitmask is not the one of the block: nothing is done
\* with the offset onion_bitmask_add returns.
AllocBlock ==
  /\ fault = "none" /\ up
  /\ block_free > 0
  /\ Clear # {}
  /\ mask' = onion_bitmask_add(mask, block_max, 1)
  /\ bitmap' = bitmap \cup {Chosen}
  /\ held' = held \cup {Chosen}
  /\ block_free' = block_free - 1
  /\ block_count' = block_count + 1
  /\ UNCHANGED <<up, asked, block_max, garbage, fault>>

\* ffb finds no block although the pool is not full: NULL, and a bit of bitmask.
AllocMisses ==
  /\ fault = "none" /\ up
  /\ block_free > 0
  /\ Clear = {}
  /\ mask' = onion_bitmask_add(mask, block_max, 1)
  /\ UNCHANGED <<up, asked, block_max, bitmap, block_free, block_count, garbage, held, fault>>

\* Mutants: one of the two maps is not changed.
FreeKeepsBitmap(b) ==
  /\ fault = "none" /\ up /\ b \in held
  /\ held' = held \ {b}
  /\ mask' = onion_bitmask_del(mask, b, 1)
  /\ block_free' = block_free + 1
  /\ block_count' = block_count - 1
  /\ UNCHANGED <<up, asked, block_max, bitmap, garbage, fault>>

FreeKeepsMask(b) ==
  /\ fault = "none" /\ up /\ b \in held
  /\ held' = held \ {b}
  /\ bitmap' = bitmap \ {b}
  /\ block_free' = block_free + 1
  /\ block_count' = block_count - 1
  /\ UNCHANGED <<up, asked, block_max, mask, garbage, fault>>

\* The index of a block the program holds is below block_max.
Free(b) ==
  /\ fault = "none" /\ up
  /\ b \in held
  /\ mask' = onion_bitmask_del(mask, b, 1)
  /\ bitmap' = bitmap \ {b}
  /\ held' = held \ {b}
  /\ block_free' = block_free + 1
  /\ block_count' = block_count - 1
  /\ UNCHANGED <<up, asked, block_max, garbage, fault>>

\* list_del follows links that nothing has set.  onion_blocks_release does the
\* same for the pools of a list no pool is ever put on.
Exit ==
  /\ fault = "none" /\ up
  /\ up' = FALSE
  /\ held' = {}
  /\ fault' \in {"none", "unlinked"}
  /\ UNCHANGED <<asked, block_max, bitmap, mask, block_free, block_count, garbage>>

Init ==
  /\ up = FALSE /\ asked = 0 /\ block_max = 0
  /\ bitmap = {} /\ mask = {} /\ garbage = {} /\ held = {}
  /\ block_free = 0 /\ block_count = 0
  /\ fault = "none"

Next ==
  \/ \E n \in Request, size \in BlockSize : InitPool(n, size)
  \/ AllocBlock \/ AllocMisses
  \/ \E b \in held : Free(b)
  \/ Exit

Spec == Init /\ [][Next]_vars

\* The blocks onion_handle_timer takes to be in use: those it finds by calling
\* onion_ffb again and again, each time one offset further.
Visited == {p \in 0 .. block_max : onion_ffb(mask, block_max, p, 1) = p}

-----------------------------------------------------------------------------
(* Properties.                                                               *)

\* The variables have their types.
TypeOK ==
  /\ up \in BOOLEAN
  /\ asked \in Nat /\ block_max \in Nat
  /\ bitmap \subseteq BlocksOf(block_max) /\ garbage \subseteq BlocksOf(block_max)
  /\ mask \subseteq Int
  /\ block_free \in Nat /\ block_count \in Nat
  /\ held \subseteq BlocksOf(block_max)
  /\ fault \in {"none", "unlinked"}

\* A block is given to one holder at a time and is given again once it is
\* returned; the bits onion_block_init did not clear stand for blocks that are
\* never given at all (pool.c:94-101, 113-124).
BitmapShowsHeld == up => bitmap = held \cup garbage /\ held \cap garbage = {}

\* The counters that onion_block_isFull, isFree, getBusySize and getFreeSize
\* report agree with the blocks the program holds.
CountsShowHeld ==
  up => /\ block_count = Cardinality(held)
        /\ block_free = block_max - Cardinality(held)

\* A pool has the blocks it was made for: as long as the program holds fewer (and
\* no bit was set from the start) onion_block_alloc finds one.  The callers keep
\* count against the number they asked for, not against block_max.
ServesAsAsked ==
  up /\ Cardinality(held \cup garbage) < asked => block_free > 0 /\ Clear # {}

\* In a pool whose bitmap had no uncleared bit (pool.c:39) the walk of
\* onion_handle_timer finds the blocks in use, among those that the search looks
\* at, although bitmask and bitmap are changed apart.  With uncleared bits it need
\* not: bitmap then skips blocks that bitmask does not, the bit set is not that of
\* the block given, and the walk visits other blocks.
WalkFindsHeld == up /\ garbage = {} => Visited = held \cap Scanned(block_max)

\* onion_ffgb returns the first run of bits of a type (sup.c:64-66), for every
\* bitmask that a pool goes through.
RunAt(p, grab, type) ==
  \A q \in p .. p + grab - 1 :
    q \in Scanned(block_max) /\ q <= block_max /\ (q \in mask <=> type = 1)
GrabFindsRun ==
  up => \A grab \in 1 .. block_max + 1, type \in {0, 1} :
          LET runs == {p \in 0 .. block_max : RunAt(p, grab, type)}
          IN onion_ffgb(mask, block_max, grab, type) =
               IF runs = {} THEN -1 ELSE Lowest(runs)

=============================================================================
