-------------------------- MODULE OpiumSlabGeometry --------------------------
(***************************************************************************)
(* The sizes opium_slab_init computes and the addresses opium_slab_alloc   *)
(* and opium_slab_free derive from them (project/core/opium_slab.c).       *)
(* OpiumSlab takes pages and slots for granted and speaks of <<page,       *)
(* slot>>; here is why a pointer determines both.                          *)
(*                                                                         *)
(* Sizes are in bytes.  A chunk starts at a multiple of its own size:      *)
(* posix_memalign aligns it to page_size, mmap to the 4096 of the system.  *)
(***************************************************************************)
EXTENDS Integers

CONSTANTS
  ItemSizes,    \* bound: the sizes opium_slab_init is called with
  PowersOfTwo   \* the values of 1ULL << k

OPIUM_SLAB_PAGE_SIZE   == 4096
OPIUM_SLAB_PAGE_MAX    == 64
OPIUM_SLAB_PAGE_MIN    == 8
OPIUM_SLAB_SLOT_HEADER == 1
data_offset            == 40   \* list head, boss, mask and reference count

\* Header and user bytes of a slot, and of a page of 64 such slots.
Slotted(size)  == size + OPIUM_SLAB_SLOT_HEADER
Wanted(size)   == data_offset + OPIUM_SLAB_PAGE_MAX * Slotted(size)

\* p is the power of two 1 << ceil(log2(x)).
RoundsTo(x, p) == x <= p /\ p < 2 * x

\* Of two powers of two the smaller divides the larger, and size_t is wide
\* enough for the pages.
ASSUME GeometryAssumption ==
  /\ ItemSizes \subseteq Nat \ {0}
  /\ PowersOfTwo \subseteq Nat \ {0}
  /\ {OPIUM_SLAB_PAGE_MAX, OPIUM_SLAB_PAGE_SIZE} \subseteq PowersOfTwo
  /\ \A p \in PowersOfTwo : p > 1 => p \div 2 \in PowersOfTwo /\ p % 2 = 0
  /\ \A p, q \in PowersOfTwo : p <= q => q % p = 0
  /\ \A size \in ItemSizes : \E p \in PowersOfTwo : RoundsTo(Wanted(size), p)

VARIABLES
  item_size,        \* a slot, header included
  item_count,       \* the slots of a page
  page_size,
  pages_per_alloc   \* the bytes of a chunk

vars == <<item_size, item_count, page_size, pages_per_alloc>>

-----------------------------------------------------------------------------

Rounded(size) == CHOOSE p \in PowersOfTwo : RoundsTo(Wanted(size), p)
Shrunk(size)  == Rounded(size) \div 2

\* Mutant: the size is not halved when it is not a power of two.
ShrinksExact(size) == Rounded(size) = Wanted(size)

\* Half the page is enough when it holds the least number of slots.
Shrinks(size) ==
  /\ Rounded(size) # Wanted(size)
  /\ data_offset < Shrunk(size)
  /\ Shrunk(size) - data_offset > Slotted(size) * OPIUM_SLAB_PAGE_MIN

\* Mutant: the page without its header.
CountOfWholePage(size) == Shrunk(size) \div Slotted(size)

Count(size) == (Shrunk(size) - data_offset) \div Slotted(size)

\* Mutant: chunks of one size.
SlabInitOneChunkSize(size) ==
  /\ item_size' = Slotted(size)
  /\ page_size' = IF Shrinks(size) THEN Shrunk(size) ELSE Rounded(size)
  /\ item_count' = IF Shrinks(size) THEN Count(size) ELSE OPIUM_SLAB_PAGE_MAX
  /\ pages_per_alloc' = OPIUM_SLAB_PAGE_SIZE

SlabInit(size) ==
  /\ item_size' = Slotted(size)
  /\ page_size' = IF Shrinks(size) THEN Shrunk(size) ELSE Rounded(size)
  /\ item_count' = IF Shrinks(size) THEN Count(size) ELSE OPIUM_SLAB_PAGE_MAX
  /\ pages_per_alloc' = IF page_size' > OPIUM_SLAB_PAGE_SIZE
                          THEN page_size' ELSE OPIUM_SLAB_PAGE_SIZE

SlabExit ==
  item_size' = 0 /\ item_count' = 0 /\ page_size' = 0 /\ pages_per_alloc' = 0

Init == item_size = 0 /\ item_count = 0 /\ page_size = 0 /\ pages_per_alloc = 0

Next == SlabExit \/ \E size \in ItemSizes : SlabInit(size)

Spec == Init /\ [][Next]_vars

-----------------------------------------------------------------------------
(* Addresses.                                                                *)

\* opium_slab_slot: the pointer the client gets.
opium_slab_slot(page, index) ==
  page + data_offset + index * item_size + OPIUM_SLAB_SLOT_HEADER

\* opium_slab_free: the page and the slot of the header before the pointer.
PageOf(slot_ptr) == slot_ptr - (slot_ptr % page_size)

\* Mutant: the distance is taken from the start of the page.
SlotOfPage(slot_ptr) == (slot_ptr - PageOf(slot_ptr)) \div item_size

SlotOf(slot_ptr) == (slot_ptr - (PageOf(slot_ptr) + data_offset)) \div item_size

-----------------------------------------------------------------------------
(* Properties.                                                               *)

\* The sizes are sizes, and a count fits the bits of a mask.
TypeOK ==
  /\ item_size \in Nat /\ page_size \in Nat /\ pages_per_alloc \in Nat
  /\ item_count \in 0 .. OPIUM_SLAB_PAGE_MAX

\* The slots of a page lie within it.
SlotsFitPage == data_offset + item_count * item_size <= page_size \/ page_size = 0

\* A page has several slots, and a bit of its mask stands for none of them:
\* without it 1ULL << item_count is undefined and a fresh page would be busy.
MaskHasSpareBit ==
  page_size # 0 => 2 <= item_count /\ item_count < OPIUM_SLAB_PAGE_MAX

\* A chunk consists of whole pages, of one when it is not from mmap, so that
\* each of its pages starts at a multiple of page_size.
ChunkIsWholePages ==
  page_size # 0 =>
    /\ pages_per_alloc % page_size = 0
    /\ page_size > OPIUM_SLAB_PAGE_SIZE => pages_per_alloc = page_size

\* opium_slab_free finds the page and the slot of every pointer that
\* opium_slab_alloc can return, for any page at a multiple of page_size.
FreeFindsSlot ==
  page_size # 0 =>
    \A number \in 0 .. pages_per_alloc \div page_size, index \in 0 .. item_count - 1 :
      LET page     == number * page_size
          slot_ptr == opium_slab_slot(page, index) - OPIUM_SLAB_SLOT_HEADER
      IN  PageOf(slot_ptr) = page /\ SlotOf(slot_ptr) = index

=============================================================================
