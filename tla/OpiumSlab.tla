------------------------------ MODULE OpiumSlab ------------------------------
(***************************************************************************)
(* The opium slab allocator (project/core/opium_slab.c, opium_slab.h): one *)
(* slab, the chunks it has obtained from the system, the pages of those    *)
(* chunks, its three page lists, and a client that holds the objects it    *)
(* was given.                                                              *)
(*                                                                         *)
(* A chunk is one block of pages_per_alloc bytes.  Page 0 of a chunk is    *)
(* its boss, the others are slaves.  An object is a slot of a page; the    *)
(* addresses of the code are abstracted to <<<<chunk, index>>, slot>>, and *)
(* the alignment arithmetic that goes from one to the other is checked in  *)
(* OpiumSlabGeometry.                                                      *)
(*                                                                         *)
(* The code runs in one thread and takes no lock: an operation is a step.  *)
(***************************************************************************)
EXTENDS Integers, Sequences, FiniteSets, SequencesExt

CONSTANTS
  Chunk,          \* the addresses at which the system can place a chunk
  PagesPerChunk,  \* pages_per_alloc / page_size
  ItemCount,      \* slab->item_count
  MaskBits,       \* the width of opium_slab_mask_t
  SlotFound(_),   \* the slots opium_slab_free may compute from the pointer it is
                  \* passed for the object of a slot
  FromMmap,       \* page_size <= OPIUM_SLAB_PAGE_SIZE: mmap, else posix_memalign
  MaxLive         \* bound: the objects the client holds at any time

\* What opium_slab_init computes: at least two slots, and at least one bit
\* of the mask that stands for no slot; a memalign chunk is a single page.
ASSUME SlabAssumption ==
  /\ PagesPerChunk \in Nat \ {0}
  /\ ItemCount \in Nat /\ ItemCount >= 2
  /\ MaskBits \in Nat /\ MaskBits > ItemCount
  /\ FromMmap \in BOOLEAN
  /\ ~FromMmap => PagesPerChunk = 1
  /\ \A slot \in 0 .. ItemCount - 1 : SlotFound(slot) # {}
  /\ MaxLive \in Nat
  /\ IsFiniteSet(Chunk)

VARIABLES
  open,      \* opium_slab_init has run and opium_slab_exit has not
  mapped,    \* the chunks the slab has obtained and not returned
  empty,     \* slab->empty, first entry first
  partial,   \* slab->partial
  full,      \* slab->full
  mask,      \* page->mask: the set of the bits that are 1
  refcount,  \* page->refcount
  used,      \* slab->stats.used
  live,      \* the objects the client holds
  zeroed,    \* those whose slot header no longer holds their index
  fault      \* "none", or what crashed the process or spoilt its memory

vars == <<open, mapped, empty, partial, full, mask, refcount, used, live,
          zeroed, fault>>

-----------------------------------------------------------------------------

Slot   == 0 .. ItemCount - 1
Bits   == 0 .. MaskBits - 1
Page   == Chunk \X (0 .. PagesPerChunk - 1)
Object == Page \X Slot

ChunkOf(page) == page[1]
ChunkOfObject(obj) == ChunkOf(obj[1])
Boss(page)    == <<ChunkOf(page), 0>>

\* Mutants of OneUsed: no test at all, a test for the first slot only.
OneUsedAlways(m)  == TRUE
OneUsedFirst(m)   == m \cap Slot = {0}

\* OPIUM_SLAB_PAGE_BUSY, and opium_slab_page_init: no slot of the page is used.
Busy      == Bits
FreshMask == Bits \ Slot

\* opium_slab_page_one_used: exactly one bit of the slots is 1.
OneUsed(m) == \E s \in Slot : m \cap Slot = {s}

\* The slaves of a chunk opium_slab_alloc writes the headers of, as it leaves
\* them on empty.  The loop resets its cursor to the first slave in each round
\* and then advances it by page_size headers, past the end of any chunk: it
\* runs once at most.
Slaves(c) == IF PagesPerChunk > 1 THEN << <<c, 1>> >> ELSE <<>>

\* Mutant: the page itself.
NextPageSame(page) == page

\* The page at the distance of one page after a given one.
NextPage(page) == <<ChunkOf(page), page[2] + 1>>

Linked(page) == page \in Range(empty) \cup Range(partial) \cup Range(full)

\* The page headers of a chunk that is returned read as 0 if it comes back.
Forget(f, c, blank) == [p \in Page |-> IF ChunkOf(p) = c THEN blank ELSE f[p]]

-----------------------------------------------------------------------------
(* opium_slab_new_slot, and the memzero of opium_slab_calloc when zero is   *)
(* TRUE: the slot with the lowest 0 bit is taken; a page with no 0 bit left *)
(* goes to the head of full; memzero clears item_size bytes from the user's *)
(* pointer, which lies one header into the slot, and so the header of the   *)
(* next slot too.                                                           *)

LowestFree(m, slot) ==
  /\ slot \in Bits \ m
  /\ \A b \in Bits \ m : slot <= b

NewSlot(page, onPartial, masks, zero) ==
  \E slot \in Bits :
    /\ LowestFree(masks[page], slot)
    /\ mask' = [masks EXCEPT ![page] = @ \cup {slot}]
    /\ IF mask'[page] = Busy
         THEN /\ partial' = RemoveFirst(onPartial, page)
              /\ full' = Cons(page, full)
         ELSE /\ partial' = onPartial
              /\ full' = full
    /\ used' = used + 1
    /\ live' = live \cup {<<page, slot>>}
    /\ zeroed' = (zeroed \ {<<page, slot>>})
                   \cup (IF zero THEN live \cap {<<page, slot + 1>>} ELSE {})
    /\ fault' = IF <<page, slot>> \in live THEN "aliased" ELSE fault

\* The client asks for an object only within its bound.
Request == open /\ fault = "none" /\ Cardinality(live) < MaxLive

AllocPartial(zero) ==
  /\ Request
  /\ partial # <<>>
  /\ NewSlot(Head(partial), partial, mask, zero)
  /\ UNCHANGED <<open, mapped, empty, refcount>>

\* Mutant: the page is always the one that counts.
AllocEmptyCountsSelf(zero) ==
  /\ Request
  /\ partial = <<>> /\ empty # <<>>
  /\ LET page == Head(empty)
     IN  /\ empty' = Tail(empty)
         /\ refcount' = [refcount EXCEPT ![page] = @ + 1]
         /\ NewSlot(page, <<page>>, [mask EXCEPT ![page] = FreshMask], zero)
  /\ UNCHANGED <<open, mapped>>

\* The first empty page becomes a partial one.  The page of which the
\* reference count grows is the page itself when it counts, else its boss.
AllocEmpty(zero) ==
  /\ Request
  /\ partial = <<>> /\ empty # <<>>
  /\ LET page    == Head(empty)
         counted == IF refcount[page] # 0 THEN page ELSE Boss(page)
     IN  /\ empty' = Tail(empty)
         /\ refcount' = [refcount EXCEPT ![counted] = @ + 1]
         /\ NewSlot(page, <<page>>, [mask EXCEPT ![page] = FreshMask], zero)
  /\ UNCHANGED <<open, mapped>>

\* A new chunk: its boss goes to partial and gives the slot, the slaves that
\* are initialised go to empty.
AllocChunk(c, zero) ==
  LET page   == <<c, 0>>
      slaves == Range(Slaves(c))
      masks  == [p \in Page |-> IF p \in {page} \cup slaves THEN FreshMask ELSE mask[p]]
  IN /\ Request
     /\ partial = <<>> /\ empty = <<>>
     /\ c \notin mapped
     /\ mapped' = mapped \cup {c}
     /\ refcount' = [p \in Page |-> IF p = page THEN 1
                                    ELSE IF p \in slaves THEN 0 ELSE refcount[p]]
     /\ empty' = Slaves(c)
     /\ NewSlot(page, <<page>>, masks, zero)
     /\ UNCHANGED open

\* The system refuses a chunk.  posix_memalign leaves a null pointer, which
\* the caller reports and returns; mmap returns MAP_FAILED, which is not null
\* and is written through.
AllocRefused ==
  /\ Request
  /\ partial = <<>> /\ empty = <<>>
  /\ fault' = IF FromMmap THEN "map_failed" ELSE fault
  /\ UNCHANGED <<open, mapped, empty, partial, full, mask, refcount, used, live, zeroed>>

Alloc ==
  \E zero \in BOOLEAN :
    \/ AllocPartial(zero)
    \/ AllocEmpty(zero)
    \/ \E c \in Chunk : AllocChunk(c, zero)

-----------------------------------------------------------------------------
(* opium_slab_free of an object the client holds.  Which branch runs depends *)
(* on the mask of its page, never on whether its bit is set.  The pointer    *)
(* determines the page and the slot; a client of the slab passes the one it  *)
(* was given, opium_arena_free passes one that lies a byte before it.        *)

Release(obj) == open /\ fault = "none" /\ obj \in live

\* What every branch that returns normally does.
Returned(obj) ==
  /\ used' = used - 1
  /\ live' = live \ {obj}
  /\ zeroed' = zeroed \ {obj}
  /\ UNCHANGED <<open, fault>>

\* The page of the object has gone with its chunk: reading its header faults.
FreeUnmapped(obj) ==
  /\ Release(obj)
  /\ ChunkOf(obj[1]) \notin mapped
  /\ fault' = "use_after_unmap"
  /\ UNCHANGED <<open, mapped, empty, partial, full, mask, refcount, used, live, zeroed>>

\* Mutant: the page keeps its place on full.
FreeBusyStaysFull(obj) ==
  LET page == obj[1] IN
  /\ Release(obj)
  /\ ChunkOf(page) \in mapped
  /\ mask[page] = Busy
  /\ \E slot \in SlotFound(obj[2]) : mask' = [mask EXCEPT ![page] = @ \ {slot}]
  /\ Returned(obj)
  /\ UNCHANGED <<mapped, refcount, empty, partial, full>>

\* The page was full: it moves to the head of partial.
FreeBusy(obj) ==
  LET page == obj[1] IN
  /\ Release(obj)
  /\ ChunkOf(page) \in mapped
  /\ mask[page] = Busy
  /\ \E slot \in SlotFound(obj[2]) : mask' = [mask EXCEPT ![page] = @ \ {slot}]
  /\ empty' = RemoveFirst(empty, page)
  /\ partial' = Cons(page, RemoveFirst(partial, page))
  /\ full' = RemoveFirst(full, page)
  /\ Returned(obj)
  /\ UNCHANGED <<mapped, refcount>>

\* The last used slot of the last page the chunk counts, which is the boss:
\* the boss and the page after it leave their lists, the chunk is returned.
FreeLast(obj) ==
  LET page   == obj[1]
      boss   == IF refcount[page] # 0 THEN page ELSE Boss(page)
      second == NextPage(page)
      c      == ChunkOf(boss)
  IN /\ Release(obj)
     /\ c \in mapped
     /\ mask[page] # Busy /\ OneUsed(mask[page])
     /\ refcount[boss] = 1
     /\ page = boss
     /\ empty' = RemoveFirst(RemoveFirst(empty, boss), second)
     /\ partial' = RemoveFirst(RemoveFirst(partial, boss), second)
     /\ full' = RemoveFirst(RemoveFirst(full, boss), second)
     /\ mapped' = mapped \ {c}
     /\ mask' = Forget(mask, c, {})
     /\ refcount' = Forget(refcount, c, 0)
     /\ Returned(obj)

\* The same when the last counted page is a slave: the loop starts one page
\* after the slave and not after the boss, at a header nobody initialised or
\* outside the chunk, and unlinks what it reads there.
FreeLastOfSlave(obj) ==
  LET page == obj[1]
      boss == IF refcount[page] # 0 THEN page ELSE Boss(page)
  IN /\ Release(obj)
     /\ ChunkOf(page) \in mapped
     /\ mask[page] # Busy /\ OneUsed(mask[page])
     /\ refcount[boss] = 1
     /\ page # boss
     /\ fault' = "wild_unlink"
     /\ UNCHANGED <<open, mapped, empty, partial, full, mask, refcount, used, live, zeroed>>

\* The last used slot of a page while another page of the chunk is counted:
\* one page less is counted; the bit stays 1.
FreeLastOfPage(obj) ==
  LET page == obj[1]
      boss == IF refcount[page] # 0 THEN page ELSE Boss(page)
  IN /\ Release(obj)
     /\ ChunkOf(page) \in mapped
     /\ mask[page] # Busy /\ OneUsed(mask[page])
     /\ refcount[boss] # 1
     /\ empty' = IF Linked(page) THEN empty ELSE Cons(page, empty)
     /\ refcount' = [refcount EXCEPT ![boss] = @ - 1]
     /\ Returned(obj)
     /\ UNCHANGED <<mapped, partial, full, mask>>

\* Mutant: the bit stays 1.
FreePlainKeepsBit(obj) ==
  LET page == obj[1] IN
  /\ Release(obj)
  /\ ChunkOf(page) \in mapped
  /\ mask[page] # Busy /\ ~OneUsed(mask[page])
  /\ Returned(obj)
  /\ UNCHANGED <<mapped, empty, partial, full, refcount, mask>>

FreePlain(obj) ==
  LET page == obj[1] IN
  /\ Release(obj)
  /\ ChunkOf(page) \in mapped
  /\ mask[page] # Busy /\ ~OneUsed(mask[page])
  /\ \E slot \in SlotFound(obj[2]) : mask' = [mask EXCEPT ![page] = @ \ {slot}]
  /\ Returned(obj)
  /\ UNCHANGED <<mapped, empty, partial, full, refcount>>

Free ==
  \E obj \in live :
    \/ FreeUnmapped(obj)
    \/ FreeBusy(obj)
    \/ FreeLast(obj)
    \/ FreeLastOfSlave(obj)
    \/ FreeLastOfPage(obj)
    \/ FreePlain(obj)

-----------------------------------------------------------------------------
(* opium_slab_init and opium_slab_exit.  Exit walks empty, partial and full *)
(* in this order; at a boss it returns the whole chunk, so a page of that   *)
(* chunk that comes later in the walk is read after it is gone.             *)

InitSlab ==
  /\ ~open /\ fault = "none"
  /\ open' = TRUE
  /\ empty' = <<>> /\ partial' = <<>> /\ full' = <<>>
  /\ used' = 0
  /\ UNCHANGED <<mapped, mask, refcount, live, zeroed, fault>>

\* Mutant: partial is walked first.
WalkPartialFirst == partial \o empty \o full

Walk == empty \o partial \o full

WalkReadsUnmapped ==
  \E i, j \in 1 .. Len(Walk) :
    /\ i < j
    /\ refcount[Walk[i]] # 0
    /\ ChunkOf(Walk[j]) = ChunkOf(Walk[i])

\* Mutant: the full list is not walked.
ExitSkipsFull == {ChunkOf(p) : p \in {q \in Range(empty \o partial) : refcount[q] # 0}}

ExitReturns == {ChunkOf(p) : p \in {q \in Range(Walk) : refcount[q] # 0}}

Exit ==
  /\ open /\ fault = "none"
  /\ ~WalkReadsUnmapped
  /\ open' = FALSE
  /\ mapped' = mapped \ ExitReturns
  /\ empty' = <<>> /\ partial' = <<>> /\ full' = <<>>
  /\ mask' = [p \in Page |-> IF ChunkOf(p) \in ExitReturns THEN {} ELSE mask[p]]
  /\ refcount' = [p \in Page |-> IF ChunkOf(p) \in ExitReturns THEN 0 ELSE refcount[p]]
  /\ used' = 0
  /\ live' = {} /\ zeroed' = {}
  /\ UNCHANGED fault

ExitFaults ==
  /\ open /\ fault = "none"
  /\ WalkReadsUnmapped
  /\ fault' = "exit_after_unmap"
  /\ UNCHANGED <<open, mapped, empty, partial, full, mask, refcount, used, live, zeroed>>

-----------------------------------------------------------------------------

Init ==
  /\ open = FALSE
  /\ mapped = {}
  /\ empty = <<>> /\ partial = <<>> /\ full = <<>>
  /\ mask = [p \in Page |-> {}]
  /\ refcount = [p \in Page |-> 0]
  /\ used = 0
  /\ live = {} /\ zeroed = {}
  /\ fault = "none"

Next == InitSlab \/ Alloc \/ AllocRefused \/ Free \/ Exit \/ ExitFaults

Spec == Init /\ [][Next]_vars
-----------------------------------------------------------------------------
(* opium_slab_traverse changes nothing: it calls the client's function on the *)
(* slots it takes to be occupied, those of the 1 bits of a partial page and   *)
(* all those of a full one.                                                   *)

\* Mutant: full pages are not traversed.
VisitedPartial == {o \in Range(partial) \X Bits : o[2] \in mask[o[1]]}

Visited ==
  {o \in Range(partial) \X Bits : o[2] \in mask[o[1]]} \cup Range(full) \X Slot

-----------------------------------------------------------------------------
(* Properties.                                                               *)

\* The variables have their types.
TypeOK ==
  /\ open \in BOOLEAN
  /\ mapped \subseteq Chunk
  /\ empty \in Seq(Page) /\ partial \in Seq(Page) /\ full \in Seq(Page)
  /\ mask \in [Page -> SUBSET Bits]
  /\ refcount \in [Page -> Nat]
  /\ used \in Int
  /\ live \subseteq Object
  /\ zeroed \subseteq live
  /\ fault \in {"none", "map_failed", "use_after_unmap", "exit_after_unmap", "wild_unlink",
                "aliased"}

Held(page) == {s \in Slot : <<page, s>> \in live}

\* The pages of some chunks whose header opium_slab_alloc writes.
PagesOf(chunks) == UNION {{<<c, 0>>} \cup Range(Slaves(c)) : c \in chunks}

Managed == PagesOf(mapped)

NoRepeats(list) == \A i, j \in DOMAIN list : list[i] = list[j] => i = j

\* A page's bit is 1 exactly when the client holds its slot, through every
\* reuse of a slot, a page and a chunk (opium_slab.c:54-55).
MaskShowsHeld == \A p \in Managed : mask[p] = FreshMask \cup Held(p)

\* The three lists sort the pages by what the client holds of them
\* (opium_slab.h:82-85), and no page is linked twice.
ListsSortByFill ==
  /\ Range(full) = {p \in Managed : Held(p) = Slot}
  /\ Range(empty) = {p \in Managed : Held(p) = {}}
  /\ Range(partial) = Managed \ (Range(full) \cup Range(empty))
  /\ NoRepeats(full) /\ NoRepeats(partial) /\ NoRepeats(empty)

\* The counter of opium_slab_stats is the number of objects the client holds.
UsedCountsHeld == used = Cardinality(live)

\* The boss counts the pages of its chunk the client holds something of
\* (opium_slab.c:293-297).
RefcountCountsPages ==
  \A c \in mapped :
    refcount[<<c, 0>>] = Cardinality({p \in Managed : ChunkOf(p) = c /\ Held(p) # {}})

\* The client never holds an object of a chunk that was returned: the boss
\* "manages the memory block's lifecycle" (opium_slab.h:50-51).
HeldIsMapped == \A obj \in live : ChunkOf(obj[1]) \in mapped

\* No operation reads or unlinks the header of a page that is gone, and no
\* object is given to a second holder.
NoMemoryFault == fault \in {"none", "map_failed"}

\* A traversal reaches every object the client holds.
TraverseReachesHeld == open => live \subseteq Visited

\* Exit finds every chunk: none is left when the slab is closed.  (It says nothing of
\* an exit that faults.)
ExitReturnsAll == ~open => mapped = {}

\* opium_slab_exit, which goes "through all the pages" (opium_slab.c:211), reads none
\* of a chunk it has returned unless a slave was allocated from: the slaves nothing
\* was taken of stand on empty, which no boss is ever on and which is walked first.
\* A slave that was used may stand behind its boss; then ExitFaults.
UnusedSlavesExitSafely ==
  (\A p \in Range(partial \o full) : p = Boss(p)) => ~WalkReadsUnmapped

\* Seen from its client the slab is an object allocator.
Allocator == INSTANCE ObjectAllocator
               WITH ChunkOf <- ChunkOfObject,
                    held <- live, backed <- mapped
Implements == Allocator!Spec

\* Every page header that was written is linked once, and it is on full when
\* its mask is busy and elsewhere when it is not: new_slot, free and exit find
\* each page where they expect it.
EachPageOnItsList ==
  /\ \A p \in Managed : (p \in Range(full)) <=> (mask[p] = Busy)
  /\ Managed = Range(empty) \cup Range(partial) \cup Range(full)
  /\ NoRepeats(Walk)

=============================================================================
