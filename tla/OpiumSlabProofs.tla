--------------------------- MODULE OpiumSlabProofs ---------------------------
(***************************************************************************)
(* The slab with one page per chunk (page_size >= OPIUM_SLAB_PAGE_SIZE)    *)
(* and a client that returns the pointers it was given is correct: its     *)
(* masks, lists and counters agree with what the client holds and it       *)
(* implements ObjectAllocator, for every number of chunks, slots and held  *)
(* objects.                                                                *)
(*                                                                         *)
(* With chunks of any number of pages every page stays on the list its     *)
(* mask tells, exit reads no page that is gone until a slave was used, and *)
(* all is exact until an object is freed whose bit stays 1, for clients of *)
(* every kind.                                                             *)
(***************************************************************************)
EXTENDS OpiumSlabHistory, SequenceTheorems, FiniteSetTheorems, TLAPS

-----------------------------------------------------------------------------
(* The lists.                                                                *)

\* opium_list_add at the head of a list.
LEMMA ConsList ==
  ASSUME NEW S, NEW list \in Seq(S), NEW e \in S
  PROVE  /\ Cons(e, list) \in Seq(S)
         /\ Range(Cons(e, list)) = Range(list) \cup {e}
         /\ NoRepeats(list) /\ e \notin Range(list) => NoRepeats(Cons(e, list))
<1> DEFINE new == Cons(e, list)
<1>1. /\ new \in Seq(S)
      /\ Len(new) = Len(list) + 1
      /\ new[1] = e
      /\ \A i \in 2 .. Len(new) : new[i] = list[i - 1]
  BY DEF Cons
<1>2. DOMAIN new = 1 .. Len(list) + 1 /\ DOMAIN list = 1 .. Len(list) /\ Len(list) \in Nat
  BY <1>1
<1>3. Range(new) = Range(list) \cup {e}
  <2>1. ASSUME NEW x \in Range(list)  PROVE x \in Range(new)
    <3>1. PICK i \in 1 .. Len(list) : x = list[i]
      BY <1>2 DEF Range
    <3>2. i + 1 \in 2 .. Len(new) /\ new[i + 1] = list[i]
      BY <1>1, <1>2
    <3> QED  BY <3>1, <3>2, <1>1, <1>2 DEF Range
  <2>2. e \in Range(new)
    BY <1>1, <1>2 DEF Range
  <2>3. ASSUME NEW x \in Range(new), x # e  PROVE x \in Range(list)
    <3>1. PICK i \in 1 .. Len(list) + 1 : x = new[i]
      BY <1>2 DEF Range
    <3>2. i # 1 /\ i - 1 \in 1 .. Len(list) /\ new[i] = list[i - 1]
      BY <3>1, <2>3, <1>1, <1>2
    <3> QED  BY <3>1, <3>2, <1>2 DEF Range
  <2> QED  BY <2>1, <2>2, <2>3
<1>4. ASSUME NoRepeats(list), e \notin Range(list)
      PROVE  NoRepeats(new)
  <2> SUFFICES ASSUME NEW i \in 1 .. Len(list) + 1, NEW j \in 1 .. Len(list) + 1,
                      new[i] = new[j], i < j
               PROVE  FALSE
    BY <1>2 DEF NoRepeats
  <2>1. new[j] = list[j - 1] /\ j - 1 \in 1 .. Len(list)
    BY <1>1, <1>2
  <2>2. CASE i = 1
    BY <2>1, <2>2, <1>1, <1>2, <1>4 DEF Range
  <2>3. CASE i # 1
    <3>1. new[i] = list[i - 1] /\ i - 1 \in 1 .. Len(list)
      BY <2>3, <1>1, <1>2
    <3>2. \A a, b \in 1 .. Len(list) : list[a] = list[b] => a = b
      BY <1>2, <1>4 DEF NoRepeats
    <3>3. i - 1 = j - 1
      BY <3>1, <3>2, <2>1
    <3> QED  BY <3>3, <1>2
  <2> QED  BY <2>2, <2>3
<1> QED  BY <1>1, <1>3, <1>4

\* The sequence without the entry at one position.
LEMMA RemoveAtList ==
  ASSUME NEW S, NEW list \in Seq(S), NEW k \in 1 .. Len(list)
  PROVE  /\ RemoveAt(list, k) \in Seq(S)
         /\ DOMAIN RemoveAt(list, k) = 1 .. Len(list) - 1
         /\ \A i \in 1 .. Len(list) - 1 :
              RemoveAt(list, k)[i] = list[IF i < k THEN i ELSE i + 1]
<1> DEFINE left  == SubSeq(list, 1, k - 1)
           right == SubSeq(list, k + 1, Len(list))
<1>1. left \in Seq(S) /\ Len(left) = k - 1 /\ \A i \in 1 .. k - 1 : left[i] = list[i]
  OBVIOUS
<1>2. /\ right \in Seq(S) /\ Len(right) = Len(list) - k
      /\ \A i \in 1 .. Len(list) - k : right[i] = list[k + i]
  OBVIOUS
<1> HIDE DEF left, right
<1> Len(list) \in Nat /\ k \in Nat
  OBVIOUS
<1>3. left \in Seq(S) /\ right \in Seq(S)
  BY <1>1, <1>2
<1>4. /\ left \o right \in Seq(S)
      /\ Len(left \o right) = Len(left) + Len(right)
      /\ \A i \in 1 .. Len(left) + Len(right) :
           (left \o right)[i] = IF i <= Len(left) THEN left[i] ELSE right[i - Len(left)]
  BY <1>3, ConcatProperties
<1>6. /\ Len(left \o right) = Len(list) - 1
      /\ DOMAIN (left \o right) = 1 .. Len(list) - 1
  BY <1>1, <1>2, <1>4
<1>7. ASSUME NEW i \in 1 .. Len(list) - 1
      PROVE  (left \o right)[i] = list[IF i < k THEN i ELSE i + 1]
  <2>1. (left \o right)[i] = IF i <= Len(left) THEN left[i] ELSE right[i - Len(left)]
    BY <1>1, <1>2, <1>4
  <2>2. CASE i < k
    BY <2>1, <2>2, <1>1
  <2>3. CASE ~ (i < k)
    <3>1. i - (k - 1) \in 1 .. Len(list) - k
      BY <2>3
    <3> QED  BY <2>1, <2>3, <3>1, <1>1, <1>2
  <2> QED  BY <2>2, <2>3
<1>5. RemoveAt(list, k) = left \o right
  BY DEF RemoveAt, left, right
<1> QED  BY <1>4, <1>5, <1>6, <1>7

\* opium_list_del of an entry of a list without repetitions, or of none.
LEMMA RemoveList ==
  ASSUME NEW S, NEW list \in Seq(S), NEW e, NoRepeats(list)
  PROVE  /\ RemoveFirst(list, e) \in Seq(S)
         /\ Range(RemoveFirst(list, e)) = Range(list) \ {e}
         /\ NoRepeats(RemoveFirst(list, e))
<1>0. DOMAIN list = 1 .. Len(list) /\ Len(list) \in Nat
  OBVIOUS
<1>1. CASE ~ \E i \in 1 .. Len(list) : list[i] = e
  <2>1. RemoveFirst(list, e) = list
    BY <1>1 DEF RemoveFirst
  <2>2. e \notin Range(list)
    BY <1>0, <1>1 DEF Range
  <2> QED  BY <2>1, <2>2
<1>2. CASE \E i \in 1 .. Len(list) : list[i] = e
  <2>1. PICK k \in 1 .. Len(list) : list[k] = e
    BY <1>2
  <2>2. {i \in 1 .. Len(list) : list[i] = e} = {k}
    BY <2>1, <1>0 DEF NoRepeats
  <2>3. SelectInSeq(list, LAMBDA v : v = e) = k
    BY <2>1, <2>2 DEF SelectInSeq, Min
  <2> DEFINE new == RemoveAt(list, k)
  <2>4. RemoveFirst(list, e) = new
    BY <1>2, <2>3 DEF RemoveFirst
  <2>5. /\ new \in Seq(S)
        /\ DOMAIN new = 1 .. Len(list) - 1
        /\ \A i \in 1 .. Len(list) - 1 : new[i] = list[IF i < k THEN i ELSE i + 1]
    BY <2>1, RemoveAtList
  <2> HIDE DEF new
  <2>6. NoRepeats(new)
    BY SMTT(30), <2>5, <1>0 DEF NoRepeats
  <2>7. Range(new) = Range(list) \ {e}
    <3>1. ASSUME NEW x \in Range(new)  PROVE x \in Range(list) /\ x # e
      <4>1. PICK i \in 1 .. Len(list) - 1 : x = list[IF i < k THEN i ELSE i + 1]
        BY <2>5 DEF Range
      <4> QED  BY <4>1, <2>1, <1>0 DEF Range, NoRepeats
    <3>2. ASSUME NEW x \in Range(list), x # e  PROVE x \in Range(new)
      <4>1. PICK i \in 1 .. Len(list) : x = list[i]
        BY <1>0 DEF Range
      <4> DEFINE j == IF i < k THEN i ELSE i - 1
      <4>2. j \in 1 .. Len(list) - 1 /\ new[j] = x
        BY <4>1, <3>2, <2>1, <2>5, <1>0
      <4> QED  BY <4>2, <2>5 DEF Range
    <3> QED  BY <3>1, <3>2
  <2> QED  BY <2>4, <2>5, <2>6, <2>7
<1> QED  BY <1>1, <1>2

\* opium_list_empty, and the first entry of a list that is not.
LEMMA HeadList ==
  ASSUME NEW S, NEW list \in Seq(S)
  PROVE  /\ list = <<>> <=> Range(list) = {}
         /\ list # <<>> => Head(list) \in Range(list)
<1>1. DOMAIN list = 1 .. Len(list) /\ Len(list) \in Nat
  OBVIOUS
<1>2. ASSUME list # <<>>  PROVE Head(list) \in Range(list)
  BY <1>1, <1>2 DEF Range
<1>3. ASSUME list = <<>>  PROVE Range(list) = {}
  BY <1>3 DEF Range
<1> QED  BY <1>2, <1>3

\* A list with one entry.
LEMMA SingleList ==
  ASSUME NEW S, NEW e \in S
  PROVE  /\ <<e>> \in Seq(S) /\ Range(<<e>>) = {e} /\ NoRepeats(<<e>>)
BY DEF Range, NoRepeats

-----------------------------------------------------------------------------
(* Pages and objects when a chunk is one page.                               *)

\* The client passes opium_slab_free the pointer opium_slab_alloc gave it, for
\* which the slot is found (GeometryFreeFindsSlot of OpiumSlabGeometryProofs).
Direct == \A slot \in Slot : SlotFound(slot) = {slot}

LEMMA SinglePage ==
  ASSUME PagesPerChunk = 1
  PROVE  /\ \A p \in Page : p = Boss(p) /\ ChunkOf(p) \in Chunk
         /\ \A c \in Chunk : <<c, 0>> \in Page /\ ChunkOf(<<c, 0>>) = c
         /\ \A p, q \in Page : ChunkOf(p) = ChunkOf(q) => p = q
         /\ \A o \in Object : o[1] \in Page /\ o[2] \in Slot /\ o = <<o[1], o[2]>>
         /\ \A p \in Page, s \in Slot : <<p, s>> \in Object
         /\ \A c \in Chunk : Slaves(c) = <<>> /\ Range(Slaves(c)) = {}
<1>1. \A p \in Page : p = <<p[1], p[2]>> /\ p[1] \in Chunk /\ p[2] = 0
  BY DEF Page
<1>2. \A c \in Chunk : Slaves(c) = <<>> /\ Range(Slaves(c)) = {}
  BY DEF Slaves, Range
<1>3. \A c \in Chunk : <<c, 0>> \in Page
  BY DEF Page
<1>4. \A o \in Object : o[1] \in Page /\ o[2] \in Slot /\ o = <<o[1], o[2]>>
  BY DEF Object
<1>5. \A p \in Page, s \in Slot : <<p, s>> \in Object
  BY DEF Object
<1> QED  BY <1>1, <1>2, <1>3, <1>4, <1>5 DEF Boss, ChunkOf

\* The pages in use are those of the mapped chunks.
LEMMA ManagedPages ==
  ASSUME PagesPerChunk = 1, NEW chunks \in SUBSET Chunk
  PROVE  /\ PagesOf(chunks) \subseteq Page
         /\ \A p \in Page : p \in PagesOf(chunks) <=> ChunkOf(p) \in chunks
<1>1. \A c \in chunks : {<<c, 0>>} \cup Range(Slaves(c)) = {<<c, 0>>}
  BY SinglePage
<1>2. PagesOf(chunks) = {<<c, 0>> : c \in chunks}
  BY <1>1 DEF PagesOf
<1> QED  BY <1>2, SinglePage DEF Boss

\* The high bits stand for no slot: there is always one.
LEMMA MaskBitsAndSlots ==
  /\ Slot \subseteq Bits
  /\ FreshMask \subseteq Bits /\ FreshMask \cap Slot = {}
  /\ FreshMask \cup Slot = Busy
BY SlabAssumption DEF Slot, Bits, FreshMask, Busy

-----------------------------------------------------------------------------
(* The inductive invariant.  The properties speak of what the client holds;  *)
(* the code decides by masks, lists and reference counts, and so the         *)
(* invariant has to say how each of these mirrors what is held.              *)

\* Every page in use is on exactly one of partial and full; empty is not used.
ListsInv ==
  /\ empty = <<>>
  /\ NoRepeats(partial) /\ NoRepeats(full)
  /\ Range(partial) \cap Range(full) = {}
  /\ Range(partial) \cup Range(full) = Managed

\* A page in use has an object, and is on full when it has no free slot.
FillInv ==
  \A p \in Managed : Held(p) # {} /\ (p \in Range(full) <=> Held(p) = Slot)

CountInv == \A p \in Managed : refcount[p] = 1

UsedInv == IsFiniteSet(live) /\ UsedCountsHeld

IInv ==
  /\ TypeOK
  /\ ListsInv /\ MaskShowsHeld /\ FillInv /\ CountInv /\ UsedInv
  /\ HeldIsMapped /\ ExitReturnsAll /\ NoMemoryFault

-----------------------------------------------------------------------------
(* Allocation.                                                               *)

\* What a new slot changes.
SlotTaken(page, onPartial, masks, slot) ==
  /\ slot \in Slot \ Held(page)
  /\ live' = live \cup {<<page, slot>>}
  /\ mask' = [masks EXCEPT ![page] = @ \cup {slot}]
  /\ partial' \in Seq(Page) /\ full' \in Seq(Page)
  /\ NoRepeats(partial') /\ NoRepeats(full')
  /\ IF Held(page) \cup {slot} = Slot
       THEN /\ Range(partial') = Range(onPartial) \ {page}
            /\ Range(full') = Range(full) \cup {page}
       ELSE partial' = onPartial /\ full' = full
  /\ UsedInv' /\ zeroed' \subseteq live' /\ fault' = fault

\* opium_slab_new_slot on a page whose mask mirrors what is held takes a slot
\* nobody holds, and the page moves to full with the last of its slots.
LEMMA NewSlotTakesFree ==
  ASSUME TypeOK, UsedInv, NEW page \in Page, NEW onPartial \in Seq(Page),
         NEW masks \in [Page -> SUBSET Bits], NEW zero \in BOOLEAN,
         NoRepeats(onPartial), NoRepeats(full),
         page \in Range(onPartial), page \notin Range(full),
         masks[page] = FreshMask \cup Held(page),
         NewSlot(page, onPartial, masks, zero)
  PROVE  \E slot : SlotTaken(page, onPartial, masks, slot)
<1>1. PICK slot \in Bits :
        /\ LowestFree(masks[page], slot)
        /\ mask' = [masks EXCEPT ![page] = @ \cup {slot}]
        /\ IF mask'[page] = Busy
             THEN partial' = RemoveFirst(onPartial, page) /\ full' = Cons(page, full)
             ELSE partial' = onPartial /\ full' = full
        /\ used' = used + 1
        /\ live' = live \cup {<<page, slot>>}
        /\ zeroed' = (zeroed \ {<<page, slot>>})
                       \cup (IF zero THEN live \cap {<<page, slot + 1>>} ELSE {})
        /\ fault' = IF <<page, slot>> \in live THEN "aliased" ELSE fault
  BY DEF NewSlot
<1>2. slot \in Slot \ Held(page)
  BY <1>1, MaskBitsAndSlots DEF LowestFree, Busy
<1>3. <<page, slot>> \notin live
  BY <1>2 DEF Held
<1>4. mask'[page] = Busy <=> Held(page) \cup {slot} = Slot
  <2>1. mask'[page] = FreshMask \cup Held(page) \cup {slot}
    BY <1>1
  <2>2. Held(page) \subseteq Slot
    BY DEF Held
  <2> QED  BY <2>1, <2>2, <1>2, MaskBitsAndSlots
<1>5. /\ partial' \in Seq(Page) /\ full' \in Seq(Page)
      /\ NoRepeats(partial') /\ NoRepeats(full')
      /\ IF Held(page) \cup {slot} = Slot
           THEN /\ Range(partial') = Range(onPartial) \ {page}
                /\ Range(full') = Range(full) \cup {page}
           ELSE partial' = onPartial /\ full' = full
  <2>1. CASE mask'[page] = Busy
    <3>1. partial' = RemoveFirst(onPartial, page) /\ full' = Cons(page, full)
      BY <1>1, <2>1
    <3>2. full \in Seq(Page)
      BY DEF TypeOK
    <3> QED  BY <3>1, <3>2, <1>4, <2>1, ConsList, RemoveList
  <2>2. CASE mask'[page] # Busy
    BY <1>1, <1>4, <2>2 DEF TypeOK
  <2> QED  BY <2>1, <2>2
<1>6. UsedInv'
  <2>1. IsFiniteSet(live \cup {<<page, slot>>})
        /\ Cardinality(live \cup {<<page, slot>>}) = Cardinality(live) + 1
    BY <1>3, FS_AddElement DEF UsedInv
  <2> QED  BY <2>1, <1>1 DEF UsedInv, UsedCountsHeld
<1>7. zeroed' \subseteq live'
  BY <1>1 DEF TypeOK
<1> QED  BY <1>1, <1>2, <1>3, <1>5, <1>6, <1>7 DEF SlotTaken

\* An object of a page goes to the client.
Given(page) == \E slot \in Slot \ Held(page) : live' = live \cup {<<page, slot>>}

\* The invariant survives a new slot on a page that was in use or is the boss
\* of a new chunk.
LEMMA NewSlotKeepsInv ==
  ASSUME PagesPerChunk = 1, IInv, open,
         NEW page \in Page, NEW onPartial \in Seq(Page),
         NEW masks \in [Page -> SUBSET Bits], NEW zero \in BOOLEAN,
         NoRepeats(onPartial), page \in Range(onPartial),
         Range(onPartial) \cap Range(full) = {},
         Range(onPartial) \cup Range(full) = Managed \cup {page},
         \A p \in Managed \cup {page} : masks[p] = FreshMask \cup Held(p),
         NewSlot(page, onPartial, masks, zero),
         open' = open, mapped' = mapped \cup {ChunkOf(page)}, empty' = empty,
         refcount' \in [Page -> Nat],
         \A p \in Managed \cup {page} : refcount'[p] = 1
  PROVE  IInv' /\ Given(page)
<1>1. /\ NoRepeats(full) /\ page \notin Range(full) /\ UsedInv /\ TypeOK
      /\ masks[page] = FreshMask \cup Held(page)
  BY DEF IInv, ListsInv
<1>2. PICK slot : SlotTaken(page, onPartial, masks, slot)
  BY <1>1, NewSlotTakesFree
<1>3. mapped \subseteq Chunk /\ mapped' \subseteq Chunk /\ ChunkOf(page) \in Chunk
  BY <1>1, SinglePage DEF TypeOK
<1>4. Managed' = Managed \cup {page} /\ Managed \subseteq Page
  <2>1. Managed' \subseteq Page /\ \A p \in Page : p \in Managed' <=> ChunkOf(p) \in mapped'
    BY <1>3, ManagedPages DEF Managed
  <2>2. Managed \subseteq Page /\ \A p \in Page : p \in Managed <=> ChunkOf(p) \in mapped
    BY <1>3, ManagedPages DEF Managed
  <2> QED  BY <2>1, <2>2, SinglePage
<1>5. /\ Held(page)' = Held(page) \cup {slot}
      /\ \A p \in Page : p # page => Held(p)' = Held(p)
  BY <1>2 DEF Held, SlotTaken
<1>6. <<page, slot>> \in Object
  BY <1>2, SinglePage DEF SlotTaken
<1>7. TypeOK'
  <2>1. mask' \in [Page -> SUBSET Bits]
    BY <1>2, MaskBitsAndSlots DEF SlotTaken
  <2>2. used' \in Int
    BY <1>2, FS_CardinalityType DEF UsedInv, UsedCountsHeld, SlotTaken
  <2>3. /\ open' \in BOOLEAN /\ empty' \in Seq(Page) /\ live' \subseteq Object
        /\ fault' \in {"none", "map_failed", "use_after_unmap", "exit_after_unmap", "wild_unlink", "aliased"}
    BY <1>1, <1>2, <1>6 DEF TypeOK, SlotTaken
  <2> QED  BY <1>2, <1>3, <2>1, <2>2, <2>3 DEF TypeOK, SlotTaken
<1>8. ListsInv'
  BY <1>1, <1>2, <1>4 DEF ListsInv, IInv, SlotTaken
<1>9. MaskShowsHeld'
  <2> SUFFICES ASSUME NEW p \in Managed'  PROVE mask'[p] = FreshMask \cup Held(p)'
    BY DEF MaskShowsHeld
  <2>1. p \in Page /\ masks[p] = FreshMask \cup Held(p)
    BY <1>4
  <2>2. CASE p = page
    BY <2>1, <2>2, <1>2, <1>5 DEF SlotTaken
  <2>3. CASE p # page
    BY <2>1, <2>3, <1>2, <1>5 DEF SlotTaken
  <2> QED  BY <2>2, <2>3
<1>10. FillInv'
  <2> SUFFICES ASSUME NEW p \in Managed'
               PROVE  Held(p)' # {} /\ (p \in Range(full') <=> Held(p)' = Slot)
    BY DEF FillInv
  <2>1. CASE p = page
    BY <2>1, <1>1, <1>2, <1>5 DEF SlotTaken
  <2>2. CASE p # page
    <3>1. p \in Managed /\ p \in Page
      BY <2>2, <1>4
    <3>2. Held(p)' = Held(p) /\ (p \in Range(full') <=> p \in Range(full))
      BY <2>2, <3>1, <1>2, <1>5 DEF SlotTaken
    <3> QED  BY <3>1, <3>2 DEF IInv, FillInv
  <2> QED  BY <2>1, <2>2
<1>11. CountInv'
  BY <1>4 DEF CountInv
<1>12. HeldIsMapped'
  <2> SUFFICES ASSUME NEW o \in live'  PROVE ChunkOf(o[1]) \in mapped'
    BY DEF HeldIsMapped
  <2>1. CASE o \in live
    BY <2>1 DEF IInv, HeldIsMapped
  <2>2. CASE o = <<page, slot>>
    BY <2>2
  <2> QED  BY <2>1, <2>2, <1>2 DEF SlotTaken
<1>13. ExitReturnsAll' /\ NoMemoryFault'
  BY <1>2 DEF IInv, ExitReturnsAll, NoMemoryFault, SlotTaken
<1>14. Given(page)
  BY <1>2 DEF SlotTaken, Given
<1> QED
  BY <1>2, <1>7, <1>8, <1>9, <1>10, <1>11, <1>12, <1>13, <1>14 DEF IInv, SlotTaken

LEMMA AllocPartialKeepsInv ==
  ASSUME PagesPerChunk = 1, IInv, NEW zero \in BOOLEAN, AllocPartial(zero)
  PROVE  IInv' /\ mapped' = mapped /\ \E page \in Managed : Given(page)
<1> DEFINE page == Head(partial)
<1>1. /\ TypeOK /\ partial \in Seq(Page) /\ mask \in [Page -> SUBSET Bits]
      /\ refcount \in [Page -> Nat] /\ mapped \subseteq Chunk
  BY DEF IInv, TypeOK
<1>2. page \in Range(partial)
  BY <1>1, HeadList DEF AllocPartial
<1>3. page \in Managed /\ page \in Page
  BY <1>1, <1>2, ManagedPages DEF IInv, ListsInv, Managed
<1>4. ChunkOf(page) \in mapped
  BY <1>1, <1>3, ManagedPages DEF Managed
<1> HIDE DEF page
<1>5. /\ open /\ open' = open /\ empty' = empty /\ refcount' = refcount
      /\ mapped' = mapped \cup {ChunkOf(page)}
      /\ NewSlot(page, partial, mask, zero)
  BY <1>4 DEF AllocPartial, Request, page
<1>6. /\ NoRepeats(partial) /\ Range(partial) \cap Range(full) = {}
      /\ Range(partial) \cup Range(full) = Managed \cup {page}
  BY <1>3 DEF IInv, ListsInv
<1>7. /\ \A p \in Managed \cup {page} : mask[p] = FreshMask \cup Held(p)
      /\ \A p \in Managed \cup {page} : refcount'[p] = 1
  BY <1>3, <1>5 DEF IInv, MaskShowsHeld, CountInv
<1>8. IInv' /\ Given(page)
  BY <1>1, <1>2, <1>3, <1>5, <1>6, <1>7, NewSlotKeepsInv
<1>9. mapped' = mapped
  BY <1>4, <1>5
<1> QED  BY <1>3, <1>8, <1>9

\* Nothing is held of a chunk before it is mapped.
LEMMA AllocChunkKeepsInv ==
  ASSUME PagesPerChunk = 1, IInv, NEW c \in Chunk, NEW zero \in BOOLEAN,
         AllocChunk(c, zero)
  PROVE  /\ IInv' /\ Given(<<c, 0>>)
         /\ c \notin mapped /\ mapped' = mapped \cup {c} /\ partial = <<>>
<1> DEFINE page  == <<c, 0>>
           list  == <<page>>
           masks == [p \in Page |-> IF p \in {page} THEN FreshMask ELSE mask[p]]
<1>1. /\ TypeOK /\ mask \in [Page -> SUBSET Bits] /\ full \in Seq(Page)
      /\ refcount \in [Page -> Nat] /\ mapped \subseteq Chunk
  BY DEF IInv, TypeOK
<1>2. page \in Page /\ ChunkOf(page) = c /\ Range(Slaves(c)) = {} /\ Slaves(c) = <<>>
  BY SinglePage
<1>3. /\ open /\ open' = open /\ empty' = empty /\ partial = <<>>
      /\ refcount' = [p \in Page |-> IF p = page THEN 1 ELSE refcount[p]]
      /\ mapped' = mapped \cup {ChunkOf(page)} /\ c \notin mapped
      /\ NewSlot(page, list, masks, zero)
  BY <1>2 DEF AllocChunk, Request
<1> HIDE DEF page
<1>4. masks \in [Page -> SUBSET Bits]
  BY <1>1, MaskBitsAndSlots
<1>5. Held(page) = {}
  BY <1>2, <1>3 DEF Held, IInv, HeldIsMapped
<1>6. page \notin Managed /\ Managed \subseteq Page
  BY <1>1, <1>2, <1>3, ManagedPages DEF Managed
<1>7. /\ \A p \in Managed \cup {page} : masks[p] = FreshMask \cup Held(p)
      /\ \A p \in Managed \cup {page} : refcount'[p] = 1
      /\ refcount' \in [Page -> Nat]
  BY <1>1, <1>2, <1>3, <1>5, <1>6 DEF IInv, MaskShowsHeld, CountInv
<1>8. /\ list \in Seq(Page) /\ NoRepeats(list) /\ page \in Range(list)
      /\ Range(list) \cap Range(full) = {}
      /\ Range(list) \cup Range(full) = Managed \cup {page}
  <2>1. Range(partial) = {}
    BY <1>3 DEF Range
  <2> QED  BY <2>1, <1>2, <1>6, SingleList DEF IInv, ListsInv
<1> HIDE DEF masks, list
<1>9. IInv' /\ Given(page)
  BY <1>2, <1>3, <1>4, <1>7, <1>8, NewSlotKeepsInv
<1> QED  BY <1>2, <1>3, <1>9 DEF page

-----------------------------------------------------------------------------
(* Release.                                                                  *)

\* What the invariant says of an object the client gives back.
LEMMA HeldObject ==
  ASSUME PagesPerChunk = 1, IInv, NEW obj \in live
  PROVE  /\ obj[1] \in Page /\ obj[2] \in Slot /\ obj = <<obj[1], obj[2]>>
         /\ ChunkOf(obj[1]) \in mapped /\ obj[1] \in Managed
         /\ Boss(obj[1]) = obj[1] /\ refcount[obj[1]] = 1
         /\ mask[obj[1]] = FreshMask \cup Held(obj[1])
         /\ obj[2] \in Held(obj[1])
<1>1. live \subseteq Object /\ mapped \subseteq Chunk
  BY DEF IInv, TypeOK
<1>2. /\ obj[1] \in Page /\ obj[2] \in Slot /\ obj = <<obj[1], obj[2]>>
      /\ Boss(obj[1]) = obj[1]
  BY <1>1, SinglePage
<1>3. ChunkOf(obj[1]) \in mapped
  BY DEF IInv, HeldIsMapped
<1>4. obj[1] \in Managed
  BY <1>1, <1>2, <1>3, ManagedPages DEF Managed
<1> QED  BY <1>2, <1>3, <1>4 DEF IInv, MaskShowsHeld, CountInv, Held

\* What every return of an object does to the counters and to what is held.
LEMMA ReturnedObject ==
  ASSUME PagesPerChunk = 1, IInv, NEW obj \in live, Returned(obj)
  PROVE  /\ UsedInv' /\ used' \in Int /\ live' = live \ {obj} /\ zeroed' \subseteq live'
         /\ open' = open /\ fault' = fault
         /\ Held(obj[1])' = Held(obj[1]) \ {obj[2]}
         /\ \A p \in Page : p # obj[1] => Held(p)' = Held(p)
<1>1. live' = live \ {obj} /\ used' = used - 1 /\ obj = <<obj[1], obj[2]>>
  BY HeldObject DEF Returned
<1>2. IsFiniteSet(live) /\ used = Cardinality(live)
  BY DEF IInv, UsedInv, UsedCountsHeld
<1>3. IsFiniteSet(live \ {obj}) /\ Cardinality(live \ {obj}) = Cardinality(live) - 1
  BY <1>2, FS_RemoveElement
<1>4. UsedInv' /\ used' \in Int
  BY <1>1, <1>2, <1>3, FS_CardinalityType DEF UsedInv, UsedCountsHeld
<1> QED  BY <1>1, <1>4 DEF Returned, Held, IInv, TypeOK

\* The invariant survives the return of an object when its page, which keeps
\* another one, ends up on partial.
LEMMA ReturnKeepsInv ==
  ASSUME PagesPerChunk = 1, IInv, NEW obj \in live, Returned(obj), open,
         Held(obj[1]) # {obj[2]},
         mapped' = mapped, empty' = empty, refcount' = refcount,
         mask' = [mask EXCEPT ![obj[1]] = @ \ {obj[2]}],
         partial' \in Seq(Page), full' \in Seq(Page),
         NoRepeats(partial'), NoRepeats(full'),
         Range(partial') = Range(partial) \cup {obj[1]},
         Range(full') = Range(full) \ {obj[1]}
  PROVE  IInv'
<1> DEFINE page == obj[1]
           slot == obj[2]
<1>1. /\ page \in Page /\ slot \in Slot /\ page \in Managed
      /\ mask[page] = FreshMask \cup Held(page) /\ slot \in Held(page)
  BY HeldObject
<1>2. /\ UsedInv' /\ used' \in Int /\ live' = live \ {obj} /\ zeroed' \subseteq live'
      /\ open' = open /\ fault' = fault
      /\ Held(page)' = Held(page) \ {slot}
      /\ \A p \in Page : p # page => Held(p)' = Held(p)
  BY ReturnedObject
<1>3. TypeOK /\ Managed' = Managed /\ Managed \subseteq Page
  BY ManagedPages DEF IInv, TypeOK, Managed
<1>4. Held(page) \subseteq Slot
  BY DEF Held
<1>5. TypeOK'
  <2>1. mask' \in [Page -> SUBSET Bits]
    BY <1>1, <1>3 DEF TypeOK
  <2>2. /\ open' \in BOOLEAN /\ mapped' \subseteq Chunk /\ empty' \in Seq(Page)
        /\ refcount' \in [Page -> Nat] /\ live' \subseteq Object
        /\ fault' \in {"none", "map_failed", "use_after_unmap", "exit_after_unmap", "wild_unlink", "aliased"}
    BY <1>2, <1>3 DEF TypeOK
  <2> QED  BY <1>2, <2>1, <2>2 DEF TypeOK
<1>6. ListsInv'
  BY <1>1, <1>3 DEF IInv, ListsInv
<1>7. MaskShowsHeld'
  <2> SUFFICES ASSUME NEW p \in Managed  PROVE mask'[p] = FreshMask \cup Held(p)'
    BY <1>3 DEF MaskShowsHeld
  <2>1. p \in Page /\ mask[p] = FreshMask \cup Held(p)
    BY <1>3 DEF IInv, MaskShowsHeld
  <2>2. CASE p = page
    BY <2>2, <1>1, <1>2, <1>3, MaskBitsAndSlots DEF TypeOK
  <2>3. CASE p # page
    BY <2>1, <2>3, <1>2, <1>3 DEF TypeOK
  <2> QED  BY <2>2, <2>3
<1>8. FillInv'
  <2> SUFFICES ASSUME NEW p \in Managed
               PROVE  Held(p)' # {} /\ (p \in Range(full') <=> Held(p)' = Slot)
    BY <1>3 DEF FillInv
  <2>1. CASE p = page
    BY <2>1, <1>1, <1>2, <1>4
  <2>2. CASE p # page
    BY <2>2, <1>2, <1>3 DEF IInv, FillInv
  <2> QED  BY <2>1, <2>2
<1>9. CountInv'
  BY <1>3 DEF IInv, CountInv
<1>10. HeldIsMapped' /\ ExitReturnsAll' /\ NoMemoryFault'
  BY <1>2 DEF IInv, HeldIsMapped, ExitReturnsAll, NoMemoryFault
<1> QED  BY <1>2, <1>5, <1>6, <1>7, <1>8, <1>9, <1>10 DEF IInv

LEMMA FreeBusyKeepsInv ==
  ASSUME PagesPerChunk = 1, Direct, IInv, NEW obj \in live, FreeBusy(obj)
  PROVE  /\ IInv'
         /\ mapped' = mapped /\ live' = live \ {obj} /\ Held(obj[1]) # {obj[2]}
<1> DEFINE page == obj[1]
<1>1. /\ page \in Page /\ page \in Managed /\ obj[2] \in Slot
      /\ mask[page] = FreshMask \cup Held(page)
  BY HeldObject
<1>2. /\ mask[page] = Busy /\ open /\ Returned(obj) /\ mapped' = mapped /\ refcount' = refcount
      /\ mask' = [mask EXCEPT ![page] = @ \ {obj[2]}]
      /\ empty' = RemoveFirst(empty, page)
      /\ partial' = Cons(page, RemoveFirst(partial, page))
      /\ full' = RemoveFirst(full, page)
  BY ZenonT(30), <1>1 DEF FreeBusy, Release, Direct
<1>3. Held(page) = Slot
  BY <1>1, <1>2, MaskBitsAndSlots DEF Held
<1>4. Held(page) # {obj[2]}
  <2>1. 0 \in Slot /\ 1 \in Slot
    BY SlabAssumption DEF Slot
  <2> QED  BY <2>1, <1>3
<1>5. /\ partial \in Seq(Page) /\ full \in Seq(Page) /\ empty = <<>>
      /\ NoRepeats(partial) /\ NoRepeats(full)
      /\ page \in Range(full) /\ page \notin Range(partial)
  BY <1>1, <1>3 DEF IInv, TypeOK, ListsInv, FillInv
<1> HIDE DEF page
<1>6. /\ RemoveFirst(partial, page) \in Seq(Page) /\ NoRepeats(RemoveFirst(partial, page))
      /\ Range(RemoveFirst(partial, page)) = Range(partial)
  <2>1. /\ RemoveFirst(partial, page) \in Seq(Page) /\ NoRepeats(RemoveFirst(partial, page))
        /\ Range(RemoveFirst(partial, page)) = Range(partial) \ {page}
    BY <1>5, RemoveList
  <2> QED  BY <2>1, <1>5
<1>9. full' \in Seq(Page) /\ NoRepeats(full') /\ Range(full') = Range(full) \ {page}
  BY <1>2, <1>5, RemoveList
<1>7. partial' \in Seq(Page) /\ NoRepeats(partial') /\ Range(partial') = Range(partial) \cup {page}
  BY <1>1, <1>2, <1>5, <1>6, ConsList
<1>8. empty' = empty
  BY <1>2, <1>5 DEF RemoveFirst
<1> QED  BY <1>2, <1>4, <1>7, <1>8, <1>9, ReturnKeepsInv DEF page, Returned

LEMMA FreePlainKeepsInv ==
  ASSUME PagesPerChunk = 1, Direct, IInv, NEW obj \in live, FreePlain(obj)
  PROVE  /\ IInv'
         /\ mapped' = mapped /\ live' = live \ {obj} /\ Held(obj[1]) # {obj[2]}
<1> DEFINE page == obj[1]
<1>1. /\ page \in Page /\ page \in Managed /\ obj[2] \in Held(page)
      /\ mask[page] = FreshMask \cup Held(page) /\ obj[2] \in Slot
  BY HeldObject
<1>2. /\ mask[page] # Busy /\ ~OneUsed(mask[page])
      /\ open /\ Returned(obj) /\ mapped' = mapped /\ refcount' = refcount
      /\ mask' = [mask EXCEPT ![page] = @ \ {obj[2]}]
      /\ empty' = empty /\ partial' = partial /\ full' = full
  BY ZenonT(30), <1>1 DEF FreePlain, Release, Direct
<1>3. Held(page) # Slot
  BY <1>1, <1>2, MaskBitsAndSlots
<1>4. Held(page) # {obj[2]}
  <2>1. mask[page] \cap Slot = Held(page)
    BY <1>1, MaskBitsAndSlots DEF Held
  <2> QED  BY <2>1, <1>1, <1>2 DEF OneUsed, Held
<1>5. /\ partial \in Seq(Page) /\ full \in Seq(Page)
      /\ NoRepeats(partial) /\ NoRepeats(full)
      /\ page \notin Range(full) /\ page \in Range(partial)
  BY <1>1, <1>3 DEF IInv, TypeOK, ListsInv, FillInv
<1>6. Range(partial') = Range(partial) \cup {page} /\ Range(full') = Range(full) \ {page}
  BY <1>2, <1>5
<1> QED  BY <1>2, <1>4, <1>5, <1>6, ReturnKeepsInv DEF Returned

\* A chunk returned with its last object: no other object lies in it.
LEMMA FreeLastKeepsInv ==
  ASSUME PagesPerChunk = 1, IInv, NEW obj \in live, FreeLast(obj)
  PROVE  /\ IInv'
         /\ mapped' = mapped \ {ChunkOf(obj[1])} /\ live' = live \ {obj}
         /\ \A o \in live' : ChunkOf(o[1]) # ChunkOf(obj[1])
<1> DEFINE page   == obj[1]
           c      == ChunkOf(page)
           second == NextPage(page)
<1>1. /\ page \in Page /\ page \in Managed /\ obj[2] \in Held(page)
      /\ mask[page] = FreshMask \cup Held(page)
      /\ refcount[page] = 1 /\ obj = <<page, obj[2]>>
  BY HeldObject
<1>2. /\ OneUsed(mask[page]) /\ open /\ Returned(obj)
      /\ mapped' = mapped \ {c}
      /\ empty' = RemoveFirst(RemoveFirst(empty, page), second)
      /\ partial' = RemoveFirst(RemoveFirst(partial, page), second)
      /\ full' = RemoveFirst(RemoveFirst(full, page), second)
      /\ mask' = [p \in Page |-> IF ChunkOf(p) = c THEN {} ELSE mask[p]]
      /\ refcount' = [p \in Page |-> IF ChunkOf(p) = c THEN 0 ELSE refcount[p]]
  BY <1>1 DEF FreeLast, Release, Forget
<1>3. Held(page) = {obj[2]}
  <2>1. mask[page] \cap Slot = Held(page)
    BY <1>1, MaskBitsAndSlots DEF Held
  <2> QED  BY <2>1, <1>1, <1>2 DEF OneUsed
<1>4. second \notin Page
  BY <1>1 DEF NextPage, Page
<1>5. /\ partial \in Seq(Page) /\ full \in Seq(Page) /\ empty = <<>>
      /\ NoRepeats(partial) /\ NoRepeats(full)
      /\ TypeOK /\ mapped \subseteq Chunk
  BY DEF IInv, TypeOK, ListsInv
<1>6. /\ UsedInv' /\ used' \in Int /\ live' = live \ {obj} /\ zeroed' \subseteq live'
      /\ open' = open /\ fault' = fault
      /\ \A p \in Page : p # page => Held(p)' = Held(p)
  BY ReturnedObject, <1>2
<1>7. /\ Managed \subseteq Page
      /\ Managed' = Managed \ {page}
      /\ \A p \in Page : ChunkOf(p) = c <=> p = page
  <2>1. /\ Managed' \subseteq Page
        /\ \A p \in Page : p \in Managed' <=> ChunkOf(p) \in mapped'
    BY <1>2, <1>5, ManagedPages DEF Managed
  <2>2. Managed \subseteq Page /\ \A p \in Page : p \in Managed <=> ChunkOf(p) \in mapped
    BY <1>5, ManagedPages DEF Managed
  <2>3. \A p \in Page : ChunkOf(p) = c <=> p = page
    BY <1>1, SinglePage
  <2> QED  BY <2>1, <2>2, <2>3, <1>2
<1> HIDE DEF page, second
<1>8. ASSUME NEW list \in Seq(Page), NoRepeats(list)
      PROVE  /\ RemoveFirst(RemoveFirst(list, page), second) \in Seq(Page)
             /\ NoRepeats(RemoveFirst(RemoveFirst(list, page), second))
             /\ Range(RemoveFirst(RemoveFirst(list, page), second)) = Range(list) \ {page}
  <2> DEFINE short == RemoveFirst(list, page)
  <2>1. short \in Seq(Page) /\ NoRepeats(short) /\ Range(short) = Range(list) \ {page}
    BY <1>8, RemoveList
  <2>2. second \notin Range(short)
    BY <2>1, <1>4, RangeOfSeq
  <2> HIDE DEF short
  <2>3. /\ RemoveFirst(short, second) \in Seq(Page) /\ NoRepeats(RemoveFirst(short, second))
        /\ Range(RemoveFirst(short, second)) = Range(short) \ {second}
    BY <2>1, RemoveList
  <2>4. Range(RemoveFirst(short, second)) = Range(list) \ {page}
    BY <2>1, <2>2, <2>3
  <2> QED  BY <2>3, <2>4 DEF short
<1>9. /\ partial' \in Seq(Page) /\ NoRepeats(partial') /\ Range(partial') = Range(partial) \ {page}
      /\ full' \in Seq(Page) /\ NoRepeats(full') /\ Range(full') = Range(full) \ {page}
  BY <1>2, <1>5, <1>8
<1>10. empty' = <<>>
  BY <1>2, <1>5 DEF RemoveFirst
<1>11. \A o \in live' : ChunkOf(o[1]) # c
  <2> SUFFICES ASSUME NEW o \in live', ChunkOf(o[1]) = c
               PROVE  FALSE
    OBVIOUS
  <2>1. o \in live /\ o # obj
    BY <1>6
  <2>2. o[1] \in Page /\ o = <<o[1], o[2]>> /\ o[2] \in Held(o[1])
    BY <2>1, HeldObject
  <2>3. o[1] = page
    BY <2>2, <1>7
  <2> QED  BY <2>1, <2>2, <2>3, <1>1, <1>3
<1>12. TypeOK'
  <2>1. /\ mask' \in [Page -> SUBSET Bits] /\ refcount' \in [Page -> Nat]
    BY <1>2, <1>5 DEF TypeOK
  <2>2. /\ open' \in BOOLEAN /\ mapped' \subseteq Chunk /\ live' \subseteq Object
        /\ fault' \in {"none", "map_failed", "use_after_unmap", "exit_after_unmap", "wild_unlink", "aliased"}
    BY <1>2, <1>5, <1>6 DEF TypeOK
  <2>3. empty' \in Seq(Page)
    BY <1>10
  <2> QED  BY <1>6, <1>9, <2>1, <2>2, <2>3 DEF TypeOK
<1>13. ListsInv'
  BY <1>7, <1>9, <1>10 DEF IInv, ListsInv
<1>14. MaskShowsHeld' /\ CountInv'
  BY <1>2, <1>6, <1>7 DEF IInv, MaskShowsHeld, CountInv
<1>15. FillInv'
  BY <1>6, <1>7, <1>9 DEF IInv, FillInv
<1>16. HeldIsMapped'
  BY <1>2, <1>6, <1>11 DEF IInv, HeldIsMapped
<1>17. ExitReturnsAll' /\ NoMemoryFault'
  BY <1>2, <1>6 DEF IInv, ExitReturnsAll, NoMemoryFault
<1> QED
  BY <1>2, <1>6, <1>11, <1>12, <1>13, <1>14, <1>15, <1>16, <1>17 DEF IInv, page

\* The other branches of opium_slab_free need a slave or a page that is gone.
LEMMA FreeCases ==
  ASSUME PagesPerChunk = 1, IInv, Free
  PROVE  \E obj \in live : FreeBusy(obj) \/ FreeLast(obj) \/ FreePlain(obj)
<1>1. PICK obj \in live :
         \/ FreeUnmapped(obj) \/ FreeBusy(obj) \/ FreeLast(obj)
         \/ FreeLastOfSlave(obj) \/ FreeLastOfPage(obj) \/ FreePlain(obj)
  BY DEF Free
<1>2. /\ ChunkOf(obj[1]) \in mapped /\ refcount[obj[1]] = 1 /\ Boss(obj[1]) = obj[1]
  BY HeldObject
<1>3. ~FreeUnmapped(obj) /\ ~FreeLastOfSlave(obj) /\ ~FreeLastOfPage(obj)
  BY <1>2 DEF FreeUnmapped, FreeLastOfSlave, FreeLastOfPage
<1> QED  BY <1>1, <1>3

-----------------------------------------------------------------------------
(* The walk of opium_slab_exit.                                              *)

LEMMA WalkPages ==
  ASSUME PagesPerChunk = 1, IInv
  PROVE  /\ Range(Walk) = Managed
         /\ ~WalkReadsUnmapped
         /\ ExitReturns = mapped
<1>1. /\ partial \in Seq(Page) /\ full \in Seq(Page) /\ empty = <<>>
      /\ NoRepeats(partial) /\ NoRepeats(full)
      /\ Range(partial) \cap Range(full) = {} /\ Range(partial) \cup Range(full) = Managed
      /\ mapped \subseteq Chunk
  BY DEF IInv, TypeOK, ListsInv
<1>2. Walk = partial \o full
  BY <1>1 DEF Walk
<1>3. /\ Walk \in Seq(Page) /\ Len(Walk) = Len(partial) + Len(full)
      /\ \A i \in 1 .. Len(Walk) :
           Walk[i] = IF i <= Len(partial) THEN partial[i] ELSE full[i - Len(partial)]
  BY <1>1, <1>2, ConcatProperties
<1>4. Range(Walk) = Managed
  <2>1. Range(partial \o full) = Range(partial) \cup Range(full)
    BY <1>1, RangeConcatenation
  <2> QED  BY <2>1, <1>1, <1>2
<1>5. NoRepeats(Walk)
  <2> SUFFICES ASSUME NEW i \in 1 .. Len(Walk), NEW j \in 1 .. Len(Walk),
                      Walk[i] = Walk[j], i < j
               PROVE  FALSE
    BY <1>3 DEF NoRepeats
  <2> Len(partial) \in Nat /\ Len(full) \in Nat
    BY <1>1
  <2>1. CASE j <= Len(partial)
    BY <2>1, <1>1, <1>3 DEF NoRepeats
  <2>2. CASE i > Len(partial)
    <3>1. full[i - Len(partial)] = full[j - Len(partial)]
      BY <2>2, <1>3
    <3>2. i - Len(partial) \in 1 .. Len(full) /\ j - Len(partial) \in 1 .. Len(full)
      BY <2>2, <1>3
    <3>3. DOMAIN full = 1 .. Len(full)
      BY <1>1
    <3>4. i - Len(partial) = j - Len(partial)
      BY <3>1, <3>2, <3>3, <1>1 DEF NoRepeats
    <3> QED  BY <3>4
  <2>3. CASE i <= Len(partial) /\ j > Len(partial)
    <3>1. partial[i] = full[j - Len(partial)] /\ i \in 1 .. Len(partial)
          /\ j - Len(partial) \in 1 .. Len(full)
      BY <2>3, <1>3
    <3>2. partial[i] \in Range(partial) /\ full[j - Len(partial)] \in Range(full)
      BY <3>1, <1>1 DEF Range
    <3> QED  BY <3>1, <3>2, <1>1
  <2> QED  BY <2>1, <2>2, <2>3
<1>6. \A i \in 1 .. Len(Walk) : Walk[i] \in Page
  BY <1>3
<1>7. ~WalkReadsUnmapped
  <2> SUFFICES ASSUME NEW i \in 1 .. Len(Walk), NEW j \in 1 .. Len(Walk), i < j,
                      ChunkOf(Walk[j]) = ChunkOf(Walk[i])
               PROVE  FALSE
    BY DEF WalkReadsUnmapped
  <2>1. Walk[i] = Walk[j]
    BY <1>6, SinglePage
  <2>2. DOMAIN Walk = 1 .. Len(Walk)
    BY <1>3
  <2> QED  BY <2>1, <2>2, <1>5 DEF NoRepeats
<1>8. ExitReturns = mapped
  <2>1. {q \in Range(Walk) : refcount[q] # 0} = Managed
    BY <1>4 DEF IInv, CountInv
  <2>2. {ChunkOf(p) : p \in Managed} = mapped
    <3>1. Managed \subseteq Page /\ \A p \in Page : p \in Managed <=> ChunkOf(p) \in mapped
      BY <1>1, ManagedPages DEF Managed
    <3>2. \A c \in mapped : <<c, 0>> \in Managed /\ ChunkOf(<<c, 0>>) = c
      BY <3>1, <1>1, SinglePage
    <3> QED  BY <3>1, <3>2
  <2> QED  BY <2>1, <2>2 DEF ExitReturns
<1> QED  BY <1>4, <1>7, <1>8

LEMMA ExitKeepsInv ==
  ASSUME PagesPerChunk = 1, IInv, Exit
  PROVE  IInv' /\ mapped' = {} /\ live' = {}
<1>1. /\ TypeOK /\ mapped \subseteq Chunk
  BY DEF IInv, TypeOK
<1>2. /\ open' = FALSE /\ mapped' = {} /\ live' = {} /\ zeroed' = {} /\ used' = 0
      /\ empty' = <<>> /\ partial' = <<>> /\ full' = <<>> /\ fault' = fault
      /\ mask' = [p \in Page |-> IF ChunkOf(p) \in ExitReturns THEN {} ELSE mask[p]]
      /\ refcount' = [p \in Page |-> IF ChunkOf(p) \in ExitReturns THEN 0 ELSE refcount[p]]
  BY WalkPages DEF Exit
<1>3. TypeOK'
  <2>1. mask' \in [Page -> SUBSET Bits]
    <3>1. mask \in [Page -> SUBSET Bits] /\ {} \in SUBSET Bits
      BY <1>1 DEF TypeOK
    <3> QED  BY <1>2, <3>1
  <2>2. refcount' \in [Page -> Nat]
    <3>1. refcount \in [Page -> Nat] /\ 0 \in Nat
      BY <1>1 DEF TypeOK
    <3> QED  BY <1>2, <3>1
  <2>3. empty' \in Seq(Page) /\ partial' \in Seq(Page) /\ full' \in Seq(Page)
    BY <1>2, EmptySeq
  <2>4. open' \in BOOLEAN
    BY <1>2, Zenon
  <2>5. used' \in Int
    BY <1>2
  <2>6. mapped' \subseteq Chunk /\ live' \subseteq Object /\ zeroed' \subseteq live'
    BY <1>2, Zenon
  <2>7. fault' \in {"none", "map_failed", "use_after_unmap", "exit_after_unmap", "wild_unlink", "aliased"}
    BY <1>1, <1>2 DEF TypeOK
  <2> QED  BY <2>1, <2>2, <2>3, <2>4, <2>5, <2>6, <2>7 DEF TypeOK
<1>4. Managed' = {}
  BY <1>2 DEF Managed, PagesOf
<1>5. ListsInv'
  BY <1>2, <1>4 DEF ListsInv, NoRepeats, Range
<1>6. MaskShowsHeld' /\ FillInv' /\ CountInv'
  BY <1>4 DEF MaskShowsHeld, FillInv, CountInv
<1>7. UsedInv'
  BY <1>2, FS_EmptySet DEF UsedInv, UsedCountsHeld
<1>8. HeldIsMapped' /\ ExitReturnsAll' /\ NoMemoryFault'
  BY <1>2 DEF HeldIsMapped, ExitReturnsAll, NoMemoryFault, IInv
<1> QED  BY <1>2, <1>3, <1>5, <1>6, <1>7, <1>8 DEF IInv

LEMMA InitSlabKeepsInv ==
  ASSUME PagesPerChunk = 1, IInv, InitSlab
  PROVE  IInv'
<1>1. /\ TypeOK /\ mapped = {} /\ live = {}
  BY DEF InitSlab, IInv, ExitReturnsAll, HeldIsMapped, TypeOK
<1>2. /\ open' = TRUE /\ empty' = <<>> /\ partial' = <<>> /\ full' = <<>> /\ used' = 0
      /\ mapped' = {} /\ live' = {} /\ mask' = mask /\ refcount' = refcount
      /\ zeroed' = zeroed /\ fault' = fault
  BY <1>1 DEF InitSlab
<1>3. TypeOK'
  BY <1>1, <1>2 DEF TypeOK
<1>4. Managed' = {}
  BY <1>2 DEF Managed, PagesOf
<1>5. ListsInv' /\ MaskShowsHeld' /\ FillInv' /\ CountInv'
  BY <1>2, <1>4 DEF ListsInv, NoRepeats, Range, MaskShowsHeld, FillInv, CountInv
<1>6. UsedInv'
  BY <1>2, FS_EmptySet DEF UsedInv, UsedCountsHeld
<1>7. HeldIsMapped' /\ ExitReturnsAll' /\ NoMemoryFault'
  BY <1>2 DEF HeldIsMapped, ExitReturnsAll, NoMemoryFault, IInv
<1> QED  BY <1>3, <1>5, <1>6, <1>7 DEF IInv

LEMMA RefusedKeepsInv ==
  ASSUME PagesPerChunk = 1, IInv, AllocRefused
  PROVE  IInv' /\ mapped' = mapped /\ live' = live
<1>1. /\ open' = open /\ mapped' = mapped /\ empty' = empty /\ partial' = partial
      /\ full' = full /\ mask' = mask /\ refcount' = refcount /\ used' = used
      /\ live' = live /\ zeroed' = zeroed /\ fault' \in {fault, "map_failed"}
  BY DEF AllocRefused
<1>2. TypeOK' /\ NoMemoryFault' /\ Managed' = Managed /\ \A p \in Managed : Held(p)' = Held(p)
  BY <1>1 DEF IInv, TypeOK, NoMemoryFault, Managed, Held
<1>3. ListsInv' /\ MaskShowsHeld' /\ FillInv' /\ CountInv' /\ UsedInv'
  BY <1>1, <1>2 DEF IInv, ListsInv, MaskShowsHeld, FillInv, CountInv, UsedInv, UsedCountsHeld
<1>4. HeldIsMapped' /\ ExitReturnsAll'
  BY <1>1 DEF IInv, HeldIsMapped, ExitReturnsAll
<1> QED  BY <1>1, <1>2, <1>3, <1>4 DEF IInv

-----------------------------------------------------------------------------
(* The theorems.                                                             *)

\* IInv holds initially and every step of the slab keeps it.
LEMMA InitHasInv ==
  Init => IInv
<1> SUFFICES ASSUME Init  PROVE IInv
  OBVIOUS
<1>1. Managed = {}
  BY DEF Init, Managed, PagesOf
<1>2. TypeOK
  <2>1. mask \in [Page -> SUBSET Bits] /\ refcount \in [Page -> Nat]
    BY DEF Init
  <2>2. empty \in Seq(Page) /\ partial \in Seq(Page) /\ full \in Seq(Page)
    BY EmptySeq DEF Init
  <2>3. open \in BOOLEAN
    BY Zenon DEF Init
  <2>4. used \in Int
    BY DEF Init
  <2>5. mapped \subseteq Chunk /\ live \subseteq Object /\ zeroed \subseteq live
    BY Zenon DEF Init
  <2>6. fault \in {"none", "map_failed", "use_after_unmap", "exit_after_unmap", "wild_unlink", "aliased"}
    BY Zenon DEF Init
  <2> QED  BY <2>1, <2>2, <2>3, <2>4, <2>5, <2>6 DEF TypeOK
<1>3. ListsInv /\ MaskShowsHeld /\ FillInv /\ CountInv
  BY <1>1 DEF Init, ListsInv, NoRepeats, Range, MaskShowsHeld, FillInv, CountInv
<1>4. UsedInv
  BY FS_EmptySet DEF Init, UsedInv, UsedCountsHeld
<1>5. HeldIsMapped /\ ExitReturnsAll /\ NoMemoryFault
  BY DEF Init, HeldIsMapped, ExitReturnsAll, NoMemoryFault
<1> QED  BY <1>2, <1>3, <1>4, <1>5 DEF IInv

LEMMA NoEmptyPage ==
  ASSUME IInv, NEW zero  PROVE ~AllocEmpty(zero)
BY DEF AllocEmpty, IInv, ListsInv

LEMMA NextKeepsInv ==
  ASSUME PagesPerChunk = 1, Direct, IInv, [Next]_vars
  PROVE  IInv'
<1>1. CASE InitSlab
  BY <1>1, InitSlabKeepsInv
<1>2. CASE Alloc
  <2>1. PICK zero \in BOOLEAN : AllocPartial(zero) \/ \E c \in Chunk : AllocChunk(c, zero)
    BY <1>2, NoEmptyPage DEF Alloc
  <2> QED  BY <2>1, AllocPartialKeepsInv, AllocChunkKeepsInv
<1>3. CASE AllocRefused
  BY <1>3, RefusedKeepsInv
<1>4. CASE Free
  BY <1>4, FreeCases, FreeBusyKeepsInv, FreeLastKeepsInv, FreePlainKeepsInv
<1>5. CASE Exit
  BY <1>5, ExitKeepsInv
<1>6. CASE ExitFaults
  BY <1>6, WalkPages DEF ExitFaults
<1>7. CASE UNCHANGED vars
  <2>1. Managed' = Managed /\ \A p \in Managed : Held(p)' = Held(p)
    BY <1>7 DEF vars, Managed, Held
  <2>2. TypeOK' /\ NoMemoryFault'
    BY <1>7 DEF IInv, TypeOK, NoMemoryFault, vars
  <2>3. ListsInv' /\ MaskShowsHeld' /\ FillInv' /\ CountInv' /\ UsedInv'
    BY <2>1, <1>7 DEF IInv, ListsInv, MaskShowsHeld, FillInv, CountInv, UsedInv, UsedCountsHeld, vars
  <2>4. HeldIsMapped' /\ ExitReturnsAll'
    BY <1>7 DEF IInv, HeldIsMapped, ExitReturnsAll, vars
  <2> QED  BY <2>2, <2>3, <2>4 DEF IInv
<1> QED  BY <1>1, <1>2, <1>3, <1>4, <1>5, <1>6, <1>7 DEF Next

\* The inductive invariant holds of every slab with one page per chunk and such
\* a client.
THEOREM SlabInvariant ==
  ASSUME PagesPerChunk = 1, Direct
  PROVE  Spec => []IInv
<1>1. Init => IInv
  BY InitHasInv
<1>2. IInv /\ [Next]_vars => IInv'
  BY NextKeepsInv
<1> QED  BY <1>1, <1>2, PTL DEF Spec

\* TypeOK: the variables have their types.
THEOREM SlabTypeOK ==
  ASSUME PagesPerChunk = 1, Direct
  PROVE  Spec => []TypeOK
<1>1. IInv => TypeOK
  BY DEF IInv
<1> QED  BY <1>1, SlabInvariant, PTL

\* MaskShowsHeld: opium_slab_new_slot never gives a slot that is held, and
\* opium_slab_free makes a slot that is given back free again.
THEOREM SlabMaskShowsHeld ==
  ASSUME PagesPerChunk = 1, Direct
  PROVE  Spec => []MaskShowsHeld
<1>1. IInv => MaskShowsHeld
  BY DEF IInv
<1> QED  BY <1>1, SlabInvariant, PTL

\* ListsSortByFill: a page is on full when all of it is held, on partial
\* when some of it is, and never on empty.
THEOREM SlabListsSortByFill ==
  ASSUME PagesPerChunk = 1, Direct
  PROVE  Spec => []ListsSortByFill
<1>1. IInv => ListsSortByFill
  <2> SUFFICES ASSUME IInv  PROVE ListsSortByFill
    OBVIOUS
  <2>1. /\ empty = <<>> /\ Range(empty) = {} /\ NoRepeats(empty)
        /\ NoRepeats(partial) /\ NoRepeats(full)
    BY DEF IInv, ListsInv, Range, NoRepeats
  <2>2. Range(full) = {p \in Managed : Held(p) = Slot}
    BY DEF IInv, ListsInv, FillInv
  <2>3. Range(empty) = {p \in Managed : Held(p) = {}}
    BY <2>1 DEF IInv, FillInv
  <2>4. Range(partial) = Managed \ (Range(full) \cup Range(empty))
    BY <2>1 DEF IInv, ListsInv
  <2> QED  BY <2>1, <2>2, <2>3, <2>4 DEF ListsSortByFill
<1> QED  BY <1>1, SlabInvariant, PTL

\* UsedCountsHeld: the counter of opium_slab_stats is exact.
THEOREM SlabUsedCountsHeld ==
  ASSUME PagesPerChunk = 1, Direct
  PROVE  Spec => []UsedCountsHeld
<1>1. IInv => UsedCountsHeld
  BY DEF IInv, UsedInv
<1> QED  BY <1>1, SlabInvariant, PTL

\* HeldIsMapped: opium_slab_free returns no chunk the client holds an object of.
THEOREM SlabHeldIsMapped ==
  ASSUME PagesPerChunk = 1, Direct
  PROVE  Spec => []HeldIsMapped
<1>1. IInv => HeldIsMapped
  BY DEF IInv
<1> QED  BY <1>1, SlabInvariant, PTL

\* NoMemoryFault: no operation touches a page that is gone.
THEOREM SlabNoMemoryFault ==
  ASSUME PagesPerChunk = 1, Direct
  PROVE  Spec => []NoMemoryFault
<1>1. IInv => NoMemoryFault
  BY DEF IInv
<1> QED  BY <1>1, SlabInvariant, PTL

\* ExitReturnsAll: opium_slab_exit leaves no chunk behind.
THEOREM SlabExitReturnsAll ==
  ASSUME PagesPerChunk = 1, Direct
  PROVE  Spec => []ExitReturnsAll
<1>1. IInv => ExitReturnsAll
  BY DEF IInv
<1> QED  BY <1>1, SlabInvariant, PTL

\* TraverseReachesHeld: opium_slab_traverse misses no object the client holds.
THEOREM SlabTraverseReachesHeld ==
  ASSUME PagesPerChunk = 1, Direct
  PROVE  Spec => []TraverseReachesHeld
<1>1. IInv => TraverseReachesHeld
  <2> SUFFICES ASSUME IInv, NEW o \in live  PROVE o \in Visited
    BY DEF TraverseReachesHeld
  <2>1. live \subseteq Object /\ mapped \subseteq Chunk /\ ChunkOf(o[1]) \in mapped
    BY DEF IInv, TypeOK, HeldIsMapped
  <2>2. o[1] \in Page /\ o[2] \in Slot /\ o = <<o[1], o[2]>>
    BY <2>1, SinglePage
  <2>3. o[1] \in Managed
    BY <2>1, <2>2, ManagedPages DEF Managed
  <2>4. o[2] \in mask[o[1]]
    BY <2>2, <2>3 DEF IInv, MaskShowsHeld, Held
  <2>5. CASE o[1] \in Range(partial)
    BY <2>2, <2>4, <2>5, MaskBitsAndSlots DEF Visited
  <2>6. CASE o[1] \in Range(full)
    BY <2>2, <2>6 DEF Visited
  <2> QED  BY <2>3, <2>5, <2>6 DEF IInv, ListsInv
<1> QED  BY <1>1, SlabInvariant, PTL

-----------------------------------------------------------------------------
(* The refinement.                                                           *)

\* When partial is empty all that is mapped is held: the slab asks the system
\* for memory only when it has none left.
LEMMA AllMappedHeld ==
  ASSUME PagesPerChunk = 1, IInv, partial = <<>>,
         NEW o \in Object, ChunkOf(o[1]) \in mapped
  PROVE  o \in live
<1>1. mapped \subseteq Chunk
  BY DEF IInv, TypeOK
<1>2. o[1] \in Page /\ o[2] \in Slot /\ o = <<o[1], o[2]>>
  BY SinglePage
<1>3. o[1] \in Managed
  BY <1>1, <1>2, ManagedPages DEF Managed
<1>4. Range(partial) = {}
  BY DEF Range
<1>5. Held(o[1]) = Slot
  BY <1>3, <1>4 DEF IInv, ListsInv, FillInv
<1> QED  BY <1>2, <1>5 DEF Held

\* An object of a page goes to the client: GiveBacked or GiveFresh.
LEMMA GivenIsGive ==
  ASSUME PagesPerChunk = 1, NEW page \in Page, Given(page),
         \/ ChunkOf(page) \in mapped /\ mapped' = mapped
         \/ /\ ChunkOf(page) \notin mapped /\ mapped' = mapped \cup {ChunkOf(page)}
            /\ \A o \in Object : ChunkOf(o[1]) \in mapped => o \in live
  PROVE  Allocator!Next
<1>1. PICK slot \in Slot \ Held(page) : live' = live \cup {<<page, slot>>}
  BY DEF Given
<1> DEFINE obj == <<page, slot>>
<1>2. obj \in Object \ live /\ ChunkOfObject(obj) = ChunkOf(page)
  BY <1>1, SinglePage DEF Held, ChunkOfObject
<1> HIDE DEF obj
<1>3. live' = live \cup {obj}
  BY <1>1 DEF obj
<1>4. CASE ChunkOf(page) \in mapped /\ mapped' = mapped
  <2>1. Allocator!GiveBacked(obj)
    BY <1>2, <1>3, <1>4 DEF Allocator!GiveBacked
  <2> QED  BY <1>2, <2>1 DEF Allocator!Next
<1>5. CASE /\ ChunkOf(page) \notin mapped /\ mapped' = mapped \cup {ChunkOf(page)}
           /\ \A o \in Object : ChunkOf(o[1]) \in mapped => o \in live
  <2>1. {p \in Object : ChunkOfObject(p) \in mapped} \subseteq live
    BY <1>5 DEF ChunkOfObject
  <2>2. Allocator!GiveFresh(obj)
    BY <1>2, <1>3, <1>5, <2>1 DEF Allocator!GiveFresh
  <2> QED  BY <1>2, <2>2 DEF Allocator!Next
<1> QED  BY <1>4, <1>5

\* An object comes back: Take.
LEMMA ReturnIsTake ==
  ASSUME NEW obj \in live, live \subseteq Object, live' = live \ {obj},
         \/ /\ mapped' = mapped
            /\ \E o \in live : o # obj /\ ChunkOf(o[1]) = ChunkOf(obj[1])
         \/ /\ mapped' = mapped \ {ChunkOf(obj[1])}
            /\ \A o \in live' : ChunkOf(o[1]) # ChunkOf(obj[1])
  PROVE  Allocator!Next
<1>1. Allocator!Take(obj)
  BY DEF Allocator!Take, Allocator!Chunks, ChunkOfObject
<1> QED  BY <1>1 DEF Allocator!Next

LEMMA StepImplements ==
  ASSUME PagesPerChunk = 1, Direct, IInv, [Next]_vars
  PROVE  Allocator!Next \/ UNCHANGED <<live, mapped>>
<1>0. live \subseteq Object /\ Managed \subseteq Page
      /\ \A p \in Page : p \in Managed <=> ChunkOf(p) \in mapped
  BY ManagedPages DEF IInv, TypeOK, Managed
<1>1. CASE InitSlab \/ AllocRefused \/ UNCHANGED vars
  BY <1>1 DEF InitSlab, AllocRefused, vars
<1>2. CASE Alloc
  <2>1. PICK zero \in BOOLEAN : AllocPartial(zero) \/ \E c \in Chunk : AllocChunk(c, zero)
    BY <1>2, NoEmptyPage DEF Alloc
  <2>2. CASE AllocPartial(zero)
    <3>1. PICK page \in Managed : Given(page)
      BY <2>2, AllocPartialKeepsInv
    <3>2. mapped' = mapped
      BY <2>2, AllocPartialKeepsInv
    <3> QED  BY <3>1, <3>2, <1>0, GivenIsGive
  <2>3. CASE \E c \in Chunk : AllocChunk(c, zero)
    <3>1. PICK c \in Chunk : AllocChunk(c, zero)
      BY <2>3
    <3>2. /\ Given(<<c, 0>>) /\ c \notin mapped
          /\ mapped' = mapped \cup {c} /\ partial = <<>>
      BY <3>1, AllocChunkKeepsInv
    <3>3. <<c, 0>> \in Page /\ ChunkOf(<<c, 0>>) = c
      BY SinglePage
    <3>4. \A o \in Object : ChunkOf(o[1]) \in mapped => o \in live
      BY <3>2, AllMappedHeld
    <3> QED  BY <3>2, <3>3, <3>4, GivenIsGive
  <2> QED  BY <2>1, <2>2, <2>3
<1>3. CASE Free
  <2>1. PICK obj \in live : FreeBusy(obj) \/ FreeLast(obj) \/ FreePlain(obj)
    BY <1>3, FreeCases
  <2>2. CASE FreeLast(obj)
    BY <2>2, <1>0, FreeLastKeepsInv, ReturnIsTake
  <2>3. CASE FreeBusy(obj) \/ FreePlain(obj)
    <3>1. mapped' = mapped /\ live' = live \ {obj} /\ Held(obj[1]) # {obj[2]}
      BY <2>3, FreeBusyKeepsInv, FreePlainKeepsInv
    <3>2. obj[2] \in Held(obj[1])
      BY HeldObject
    <3>3. PICK slot \in Held(obj[1]) : slot # obj[2]
      BY <3>1, <3>2
    <3>4. <<obj[1], slot>> \in live /\ <<obj[1], slot>> # obj
          /\ ChunkOf(<<obj[1], slot>>[1]) = ChunkOf(obj[1])
      BY <3>3 DEF Held
    <3> QED  BY <3>1, <3>4, <1>0, ReturnIsTake
  <2> QED  BY <2>1, <2>2, <2>3
<1>4. CASE Exit
  BY <1>4, ExitKeepsInv DEF Allocator!Next, Allocator!Close
<1>5. CASE ExitFaults
  BY <1>5, WalkPages DEF ExitFaults
<1> QED  BY <1>1, <1>2, <1>3, <1>4, <1>5 DEF Next

\* Implements: whatever its lists and masks do, the slab gives an object to one
\* holder at a time, in memory that stays mapped as long as it is held, asks the
\* system for a chunk only when all it has is held and returns a chunk with the
\* last object of it.
THEOREM SlabImplements ==
  ASSUME PagesPerChunk = 1, Direct
  PROVE  Spec => Implements
<1>1. Init => Allocator!Init
  BY DEF Init, Allocator!Init
<1>2. IInv /\ [Next]_vars => [Allocator!Next]_Allocator!vars
  BY StepImplements DEF Allocator!vars
<1> QED  BY <1>1, <1>2, SlabInvariant, PTL DEF Spec, Implements, Allocator!Spec

-----------------------------------------------------------------------------
(* Chunks of any number of pages.                                            *)

\* The pages of which opium_slab_alloc ever writes a header: of each chunk the
\* boss and, if there is one, the page after it.
Usable == PagesOf(Chunk)

\* The client passes opium_slab_free pointers for which some slot of the page is
\* found, if not always the one of the object.
WithinPage == \A slot \in Slot : SlotFound(slot) \subseteq Slot

LEMMA SlavesOf ==
  ASSUME NEW c \in Chunk
  PROVE  /\ Slaves(c) \in Seq(Page) /\ NoRepeats(Slaves(c))
         /\ Range(Slaves(c)) = {<<c, 1>>} \cap Page
<1>1. <<c, 1>> \in Page <=> PagesPerChunk > 1
  BY SlabAssumption DEF Page
<1>2. CASE PagesPerChunk > 1
  BY <1>1, <1>2, SingleList DEF Slaves
<1>3. CASE ~(PagesPerChunk > 1)
  BY <1>1, <1>3 DEF Slaves, Range, NoRepeats
<1> QED  BY <1>2, <1>3

LEMMA UsablePages ==
  /\ Usable \subseteq Page
  /\ \A p \in Usable : /\ ChunkOf(p) \in Chunk
                       /\ p = Boss(p) \/ p = NextPage(Boss(p))
                       /\ Boss(p) # NextPage(Boss(p))
                       /\ Boss(p) \in Usable /\ ChunkOf(Boss(p)) = ChunkOf(p)
  /\ \A c \in Chunk : /\ <<c, 0>> \in Usable /\ ChunkOf(<<c, 0>>) = c
                      /\ Boss(<<c, 0>>) = <<c, 0>> /\ NextPage(<<c, 0>>) = <<c, 1>>
                      /\ Range(Slaves(c)) = Usable \cap {<<c, 1>>}
  /\ \A chunks \in SUBSET Chunk : \A p :
       p \in PagesOf(chunks) <=> p \in Usable /\ ChunkOf(p) \in chunks
<1>1. ASSUME NEW chunks \in SUBSET Chunk, NEW p
      PROVE  p \in PagesOf(chunks) <=>
               \E c \in chunks : p = <<c, 0>> \/ (p = <<c, 1>> /\ p \in Page)
  <2>1. p \in PagesOf(chunks) <=> \E c \in chunks : p \in {<<c, 0>>} \cup Range(Slaves(c))
    BY DEF PagesOf
  <2>2. \A c \in chunks : Range(Slaves(c)) = {<<c, 1>>} \cap Page
    BY SlavesOf
  <2> QED  BY <2>1, <2>2
<1>2. \A c \in Chunk : <<c, 0>> \in Page
  BY SlabAssumption DEF Page
<1>3. \A c : /\ ChunkOf(<<c, 0>>) = c /\ ChunkOf(<<c, 1>>) = c
            /\ Boss(<<c, 0>>) = <<c, 0>> /\ Boss(<<c, 1>>) = <<c, 0>>
            /\ NextPage(<<c, 0>>) = <<c, 1>> /\ <<c, 0>> # <<c, 1>>
  BY DEF Boss, NextPage, ChunkOf
<1>4. \A p : p \in Usable <=> \E c \in Chunk : p = <<c, 0>> \/ (p = <<c, 1>> /\ p \in Page)
  BY <1>1 DEF Usable
<1>5. \A c \in Chunk : Range(Slaves(c)) = Usable \cap {<<c, 1>>}
  BY <1>4, SlavesOf
<1>6. \A chunks \in SUBSET Chunk : \A p :
        p \in PagesOf(chunks) <=> p \in Usable /\ ChunkOf(p) \in chunks
  BY <1>1, <1>3, <1>4
<1>7. ASSUME NEW p \in Usable
      PROVE  /\ ChunkOf(p) \in Chunk /\ p \in Page
             /\ p = Boss(p) \/ p = NextPage(Boss(p))
             /\ Boss(p) # NextPage(Boss(p))
             /\ Boss(p) \in Usable /\ ChunkOf(Boss(p)) = ChunkOf(p)
  <2>1. PICK c \in Chunk : p = <<c, 0>> \/ (p = <<c, 1>> /\ p \in Page)
    BY <1>4
  <2>2. Boss(p) = <<c, 0>> /\ ChunkOf(p) = c /\ p \in Page
    BY <2>1, <1>2, <1>3
  <2>3. <<c, 0>> \in Usable
    BY <1>4
  <2> QED  BY <2>1, <2>2, <2>3, <1>3
<1> QED  BY <1>2, <1>3, <1>4, <1>5, <1>6, <1>7

\* The pages of a chunk that is added or returned.
LEMMA ManagedIs ==
  ASSUME TypeOK
  PROVE  /\ Managed \subseteq Usable /\ Managed \subseteq Page
         /\ \A p \in Usable : p \in Managed <=> ChunkOf(p) \in mapped
<1>1. mapped \in SUBSET Chunk
  BY DEF TypeOK
<1> QED  BY <1>1, UsablePages DEF Managed

-----------------------------------------------------------------------------
(* The invariant of headers, lists and counts, which holds whatever the      *)
(* client holds.                                                             *)

ListedInv ==
  /\ NoRepeats(empty) /\ NoRepeats(partial) /\ NoRepeats(full)
  /\ Range(empty) \cap Range(partial) = {}
  /\ Range(empty) \cap Range(full) = {}
  /\ Range(partial) \cap Range(full) = {}
  /\ Range(empty) \cup Range(partial) \cup Range(full) = Managed

\* The bits that stand for no slot stay 1, and full has the pages without a 0 bit.
HeadersInv ==
  \A p \in Managed : FreshMask \subseteq mask[p] /\ (p \in Range(full) <=> mask[p] = Busy)

\* A boss counts at least one page, its slave none.
BossesInv ==
  \A p \in Managed : IF p = Boss(p) THEN refcount[p] >= 1 ELSE refcount[p] = 0

HeldUsable == \A o \in live : o[1] \in Usable

ChunkInv ==
  /\ TypeOK
  /\ ListedInv /\ HeadersInv /\ BossesInv /\ HeldUsable
  /\ ExitReturnsAll

\* What opium_slab_new_slot finds: every page in use on the list its mask tells,
\* and the page it takes a slot of at hand.
ListsBefore(page, onPartial, masks) ==
  /\ NoRepeats(onPartial) /\ NoRepeats(empty') /\ NoRepeats(full)
  /\ page \in Range(onPartial)
  /\ Range(empty') \cap Range(onPartial) = {} /\ Range(empty') \cap Range(full) = {}
  /\ Range(onPartial) \cap Range(full) = {}
  /\ Range(empty') \cup Range(onPartial) \cup Range(full) = Managed'
  /\ \A p \in Managed' : FreshMask \subseteq masks[p]
                         /\ (p \in Range(full) <=> masks[p] = Busy)

LEMMA NewSlotChunk ==
  ASSUME TypeOK, HeldUsable, ExitReturnsAll, open, NEW page \in Usable, NEW onPartial \in Seq(Page),
         NEW masks \in [Page -> SUBSET Bits], NEW zero \in BOOLEAN,
         NewSlot(page, onPartial, masks, zero),
         open' = open, mapped' \subseteq Chunk, empty' \in Seq(Page),
         refcount' \in [Page -> Nat], BossesInv',
         ListsBefore(page, onPartial, masks)
  PROVE  ChunkInv'
<1>0. /\ NoRepeats(onPartial) /\ NoRepeats(empty') /\ NoRepeats(full)
      /\ page \in Range(onPartial)
      /\ Range(empty') \cap Range(onPartial) = {} /\ Range(empty') \cap Range(full) = {}
      /\ Range(onPartial) \cap Range(full) = {}
      /\ Range(empty') \cup Range(onPartial) \cup Range(full) = Managed'
      /\ \A p \in Managed' : FreshMask \subseteq masks[p]
                             /\ (p \in Range(full) <=> masks[p] = Busy)
  BY DEF ListsBefore
<1>1. PICK slot \in Bits :
        /\ LowestFree(masks[page], slot)
        /\ mask' = [masks EXCEPT ![page] = @ \cup {slot}]
        /\ IF mask'[page] = Busy
             THEN partial' = RemoveFirst(onPartial, page) /\ full' = Cons(page, full)
             ELSE partial' = onPartial /\ full' = full
        /\ used' = used + 1
        /\ live' = live \cup {<<page, slot>>}
        /\ zeroed' = (zeroed \ {<<page, slot>>})
                       \cup (IF zero THEN live \cap {<<page, slot + 1>>} ELSE {})
        /\ fault' = IF <<page, slot>> \in live THEN "aliased" ELSE fault
  BY DEF NewSlot
<1>2. page \in Page /\ page \in Managed' /\ page \notin Range(full) /\ Managed' \subseteq Page
  <2>1. Managed' \subseteq Page
    BY UsablePages DEF Managed
  <2> QED  BY <2>1, <1>0
<1>3. slot \in Slot /\ slot \notin masks[page]
  BY <1>0, <1>1, <1>2, MaskBitsAndSlots DEF LowestFree, Busy
<1>4. /\ full \in Seq(Page)
      /\ mask'[page] = masks[page] \cup {slot}
      /\ \A p \in Page : p # page => mask'[p] = masks[p]
      /\ mask' \in [Page -> SUBSET Bits]
  BY <1>1, <1>2, <1>3 DEF TypeOK
<1>7. /\ partial' \in Seq(Page) /\ full' \in Seq(Page) /\ ListedInv' /\ HeadersInv'
  <2>1. CASE mask'[page] = Busy
    <3>1. /\ partial' \in Seq(Page) /\ NoRepeats(partial')
          /\ Range(partial') = Range(onPartial) \ {page}
      BY <1>0, <1>1, <2>1, RemoveList
    <3>2. full' \in Seq(Page) /\ NoRepeats(full') /\ Range(full') = Range(full) \cup {page}
      <4>1. full' = Cons(page, full)
        BY <1>1, <2>1
      <4> QED  BY <4>1, <1>0, <1>2, <1>4, ConsList
    <3>3. ListedInv'
      BY <3>1, <3>2, <1>0, <1>2 DEF ListedInv
    <3>4. HeadersInv'
      BY <3>2, <1>0, <1>2, <1>4, <2>1 DEF HeadersInv
    <3> QED  BY <3>1, <3>2, <3>3, <3>4
  <2>2. CASE mask'[page] # Busy
    <3>1. partial' = onPartial /\ full' = full
      BY <1>1, <2>2
    <3>2. ListedInv'
      BY <3>1, <1>0 DEF ListedInv
    <3>3. HeadersInv'
      BY <3>1, <1>0, <1>2, <1>4, <2>2 DEF HeadersInv
    <3> QED  BY <3>1, <3>2, <3>3, <1>4
  <2> QED  BY <2>1, <2>2
<1>8. live' \subseteq Object
  <2>1. <<page, slot>> \in Object
    BY <1>2, <1>3 DEF Object
  <2> QED  BY <2>1, <1>1 DEF TypeOK
<1>9. zeroed' \subseteq live'
  BY <1>1 DEF TypeOK
<1>10. /\ used' \in Int /\ open' \in BOOLEAN
       /\ fault' \in {"none", "map_failed", "use_after_unmap", "exit_after_unmap", "wild_unlink", "aliased"}
  BY <1>1 DEF TypeOK
<1>11. TypeOK'
  BY <1>4, <1>7, <1>8, <1>9, <1>10 DEF TypeOK
<1>12. HeldUsable'
  <2> SUFFICES ASSUME NEW o \in live'  PROVE o[1] \in Usable
    BY DEF HeldUsable, Usable
  <2>1. CASE o \in live
    BY <2>1 DEF HeldUsable
  <2>2. CASE o = <<page, slot>>
    BY <2>2
  <2> QED  BY <2>1, <2>2, <1>1
<1>13. ExitReturnsAll'
  BY DEF ExitReturnsAll
<1> QED  BY <1>7, <1>11, <1>12, <1>13 DEF ChunkInv

-----------------------------------------------------------------------------
(* Each step keeps the invariant.                                            *)

LEMMA AllocPartialChunk ==
  ASSUME ChunkInv, NEW zero \in BOOLEAN, AllocPartial(zero)
  PROVE  ChunkInv'
<1> DEFINE page == Head(partial)
<1>1. /\ TypeOK /\ ListedInv /\ HeadersInv /\ BossesInv /\ HeldUsable /\ ExitReturnsAll
      /\ partial \in Seq(Page) /\ full \in Seq(Page) /\ empty \in Seq(Page)
      /\ mask \in [Page -> SUBSET Bits] /\ refcount \in [Page -> Nat] /\ mapped \subseteq Chunk
  BY DEF ChunkInv, TypeOK
<1>2. page \in Range(partial)
  BY <1>1, HeadList DEF AllocPartial
<1>3. page \in Usable
  BY <1>1, <1>2, ManagedIs DEF ListedInv
<1> HIDE DEF page
<1>4. /\ open /\ open' = open /\ mapped' = mapped /\ empty' = empty /\ refcount' = refcount
      /\ NewSlot(page, partial, mask, zero)
  BY DEF AllocPartial, Request, page
<1>5. Managed' = Managed
  BY <1>4 DEF Managed
<1>6. BossesInv'
  BY <1>1, <1>4, <1>5 DEF BossesInv
<1>7. /\ NoRepeats(partial) /\ NoRepeats(empty') /\ NoRepeats(full)
      /\ Range(empty') \cap Range(partial) = {} /\ Range(empty') \cap Range(full) = {}
      /\ Range(partial) \cap Range(full) = {}
      /\ Range(empty') \cup Range(partial) \cup Range(full) = Managed'
  BY <1>1, <1>4, <1>5 DEF ListedInv
<1>8. \A p \in Managed' : FreshMask \subseteq mask[p] /\ (p \in Range(full) <=> mask[p] = Busy)
  BY <1>1, <1>5 DEF HeadersInv
<1>9. ListsBefore(page, partial, mask)
  BY <1>2, <1>7, <1>8 DEF ListsBefore
<1>10. mapped' \subseteq Chunk /\ empty' \in Seq(Page) /\ refcount' \in [Page -> Nat]
  BY <1>1, <1>4
<1> QED  BY <1>1, <1>3, <1>4, <1>6, <1>9, <1>10, NewSlotChunk

\* opium_list_del of the first entry of a list.
LEMMA TailList ==
  ASSUME NEW S, NEW list \in Seq(S), list # <<>>, NoRepeats(list)
  PROVE  /\ Tail(list) \in Seq(S) /\ NoRepeats(Tail(list))
         /\ Range(Tail(list)) = Range(list) \ {Head(list)}
<1>1. /\ Tail(list) \in Seq(S) /\ Len(list) \in Nat /\ Len(list) # 0
      /\ DOMAIN list = 1 .. Len(list)
      /\ DOMAIN Tail(list) = 1 .. Len(list) - 1
      /\ \A i \in 1 .. Len(list) - 1 : Tail(list)[i] = list[i + 1]
  BY HeadTailProperties
<1>2. NoRepeats(Tail(list))
  BY <1>1 DEF NoRepeats
<1>3. ASSUME NEW x \in Range(Tail(list))  PROVE x \in Range(list) \ {Head(list)}
  <2>1. PICK i \in 1 .. Len(list) - 1 : x = list[i + 1]
    BY <1>1 DEF Range
  <2>2. i + 1 \in 1 .. Len(list) /\ i + 1 # 1 /\ 1 \in 1 .. Len(list)
    BY <1>1
  <2>3. x # list[1]
    BY <2>1, <2>2, <1>1 DEF NoRepeats
  <2> QED  BY <2>1, <2>2, <2>3, <1>1 DEF Range
<1>4. ASSUME NEW x \in Range(list) \ {Head(list)}  PROVE x \in Range(Tail(list))
  <2>1. PICK i \in 1 .. Len(list) : x = list[i]
    BY <1>1 DEF Range
  <2>2. i # 1
    BY <2>1
  <2>3. i - 1 \in 1 .. Len(list) - 1 /\ Tail(list)[i - 1] = list[i]
    BY <2>2, <1>1
  <2> QED  BY <2>1, <2>3, <1>1 DEF Range
<1> QED  BY <1>1, <1>2, <1>3, <1>4

LEMMA AllocEmptyChunk ==
  ASSUME ChunkInv, NEW zero \in BOOLEAN, AllocEmpty(zero)
  PROVE  ChunkInv'
<1> DEFINE page  == Head(empty)
           list  == <<page>>
           masks == [mask EXCEPT ![page] = FreshMask]
<1>1. /\ TypeOK /\ ListedInv /\ HeadersInv /\ BossesInv /\ HeldUsable /\ ExitReturnsAll
      /\ partial \in Seq(Page) /\ full \in Seq(Page) /\ empty \in Seq(Page)
      /\ mask \in [Page -> SUBSET Bits] /\ refcount \in [Page -> Nat] /\ mapped \subseteq Chunk
  BY DEF ChunkInv, TypeOK
<1>2. page \in Range(empty) /\ empty # <<>> /\ partial = <<>>
  BY <1>1, HeadList DEF AllocEmpty
<1>3. page \in Managed /\ page \in Usable /\ page \in Page /\ Managed \subseteq Usable
  BY <1>1, <1>2, ManagedIs DEF ListedInv
<1>4. Boss(page) \in Managed /\ Boss(page) \in Page
  BY <1>1, <1>3, ManagedIs, UsablePages
<1>5. Boss(Boss(page)) = Boss(page)
  BY DEF Boss, ChunkOf
<1>6. (IF refcount[page] # 0 THEN page ELSE Boss(page)) = Boss(page)
  BY <1>1, <1>3 DEF BossesInv
<1>7. /\ open /\ open' = open /\ mapped' = mapped /\ empty' = Tail(empty)
      /\ refcount' = [refcount EXCEPT ![Boss(page)] = @ + 1]
      /\ NewSlot(page, list, masks, zero)
  BY <1>6 DEF AllocEmpty, Request
<1> HIDE DEF page
<1>8. Managed' = Managed
  BY <1>7 DEF Managed
<1>9. refcount' \in [Page -> Nat] /\ BossesInv'
  <2>1. refcount' \in [Page -> Nat]
    BY <1>1, <1>4, <1>7
  <2>2. ASSUME NEW p \in Managed
        PROVE  IF p = Boss(p) THEN refcount'[p] >= 1 ELSE refcount'[p] = 0
    <3>1. p \in Page /\ refcount[p] \in Nat
      BY <1>1, ManagedIs
    <3>2. IF p = Boss(p) THEN refcount[p] >= 1 ELSE refcount[p] = 0
      BY <1>1 DEF BossesInv
    <3> QED  BY <3>1, <3>2, <1>1, <1>4, <1>5, <1>7
  <2> QED  BY <2>1, <2>2, <1>8 DEF BossesInv
<1>10. Tail(empty) \in Seq(Page) /\ NoRepeats(Tail(empty)) /\ Range(Tail(empty)) = Range(empty) \ {page}
  BY <1>1, <1>2, TailList DEF ListedInv, page
<1>11. /\ list \in Seq(Page) /\ NoRepeats(list) /\ Range(list) = {page}
  BY <1>3, SingleList
<1>12. Range(partial) = {}
  BY <1>2 DEF Range
<1>13. masks \in [Page -> SUBSET Bits]
  BY <1>1, MaskBitsAndSlots
<1>14. masks[page] = FreshMask /\ \A p \in Page : p # page => masks[p] = mask[p]
  BY <1>1, <1>3
<1>15. FreshMask # Busy
  BY SlabAssumption DEF FreshMask, Busy, Slot, Bits
<1> HIDE DEF list, masks
<1>16. /\ Range(empty') \cap Range(list) = {} /\ Range(empty') \cap Range(full) = {}
       /\ Range(list) \cap Range(full) = {} /\ page \in Range(list)
       /\ Range(empty') \cup Range(list) \cup Range(full) = Managed'
  BY <1>1, <1>2, <1>7, <1>8, <1>10, <1>11, <1>12 DEF ListedInv
<1>17. \A p \in Managed' : FreshMask \subseteq masks[p] /\ (p \in Range(full) <=> masks[p] = Busy)
  BY <1>1, <1>3, <1>8, <1>11, <1>14, <1>15, <1>16, UsablePages DEF HeadersInv
<1>18. NoRepeats(full)
  BY <1>1 DEF ListedInv
<1>19. mapped' \subseteq Chunk /\ empty' \in Seq(Page) /\ NoRepeats(empty')
  BY <1>1, <1>7, <1>10
<1>20. ListsBefore(page, list, masks)
  BY <1>11, <1>16, <1>17, <1>18, <1>19 DEF ListsBefore
<1> QED  BY <1>1, <1>3, <1>7, <1>9, <1>11, <1>13, <1>19, <1>20, NewSlotChunk

LEMMA AllocChunkChunk ==
  ASSUME ChunkInv, NEW c \in Chunk, NEW zero \in BOOLEAN, AllocChunk(c, zero)
  PROVE  ChunkInv'
<1> DEFINE page   == <<c, 0>>
           slaves == Range(Slaves(c))
           list   == <<page>>
           masks  == [p \in Page |-> IF p \in {page} \cup slaves THEN FreshMask ELSE mask[p]]
<1>1. /\ TypeOK /\ ListedInv /\ HeadersInv /\ BossesInv /\ HeldUsable /\ ExitReturnsAll
      /\ partial \in Seq(Page) /\ full \in Seq(Page) /\ empty \in Seq(Page)
      /\ mask \in [Page -> SUBSET Bits] /\ refcount \in [Page -> Nat] /\ mapped \subseteq Chunk
  BY DEF ChunkInv, TypeOK
<1>2. /\ open /\ open' = open /\ mapped' = mapped \cup {c} /\ c \notin mapped
      /\ partial = <<>> /\ empty = <<>> /\ empty' = Slaves(c)
      /\ refcount' = [p \in Page |-> IF p = page THEN 1
                                     ELSE IF p \in slaves THEN 0 ELSE refcount[p]]
      /\ NewSlot(page, list, masks, zero)
  BY DEF AllocChunk, Request
<1>3. /\ page \in Usable /\ page \in Page /\ ChunkOf(page) = c /\ Boss(page) = page
      /\ slaves = Usable \cap {<<c, 1>>} /\ page # <<c, 1>> /\ page \notin slaves
  BY UsablePages
<1>4. Slaves(c) \in Seq(Page) /\ NoRepeats(Slaves(c))
  BY SlavesOf
<1>5. \A p \in Usable : ChunkOf(p) = c <=> p = page \/ p \in slaves
  <2>1. \A p \in Usable : p = Boss(p) \/ p = NextPage(Boss(p))
    BY UsablePages
  <2> QED  BY <1>3, <2>1 DEF ChunkOf, Boss, NextPage
<1>6. Managed \subseteq Usable /\ \A p \in Usable : p \in Managed <=> ChunkOf(p) \in mapped
  BY <1>1, ManagedIs
<1>7. Managed' = PagesOf(mapped \cup {c})
  BY <1>2 DEF Managed
<1>8. \A p : p \in Managed' <=> p \in Usable /\ ChunkOf(p) \in mapped \cup {c}
  <2>1. mapped \cup {c} \in SUBSET Chunk
    BY <1>1
  <2> QED  BY <1>7, <2>1, UsablePages
<1>9. Managed' = Managed \cup {page} \cup slaves /\ page \notin Managed /\ slaves \cap Managed = {}
  BY <1>2, <1>3, <1>5, <1>6, <1>8
<1>10. \A p \in slaves : p # Boss(p)
  BY <1>3 DEF Boss, ChunkOf
<1>11. Managed' \subseteq Page
  BY <1>8, UsablePages
<1>12. refcount' \in [Page -> Nat] /\ BossesInv'
  <2>1. refcount' \in [Page -> Nat]
    BY <1>1, <1>2
  <2>2. ASSUME NEW p \in Managed'
        PROVE  IF p = Boss(p) THEN refcount'[p] >= 1 ELSE refcount'[p] = 0
    <3>1. p \in Page
      BY <1>11
    <3>2. CASE p = page
      BY <3>2, <1>2, <1>3
    <3>3. CASE p \in slaves
      BY <3>1, <3>3, <1>2, <1>3, <1>10
    <3>4. CASE p \in Managed
      <4>1. refcount'[p] = refcount[p]
        BY <3>1, <3>4, <1>2, <1>9
      <4> QED  BY <4>1, <3>4, <1>1 DEF BossesInv
    <3> QED  BY <3>2, <3>3, <3>4, <1>9
  <2> QED  BY <2>1, <2>2 DEF BossesInv
<1>13. list \in Seq(Page) /\ NoRepeats(list) /\ Range(list) = {page}
  BY <1>3, SingleList
<1>14. Range(partial) = {} /\ Range(empty) = {}
  BY <1>2 DEF Range
<1>15. Range(full) = Managed
  BY <1>1, <1>14 DEF ListedInv
<1>16. masks \in [Page -> SUBSET Bits]
  BY <1>1, MaskBitsAndSlots
<1>17. \A p \in Page : masks[p] = IF p = page \/ p \in slaves THEN FreshMask ELSE mask[p]
  OBVIOUS
<1>18. FreshMask # Busy
  BY SlabAssumption DEF FreshMask, Busy, Slot, Bits
<1>19. Range(empty') = slaves
  BY <1>2
<1> HIDE DEF list, masks, page, slaves
<1>20. /\ Range(empty') \cap Range(list) = {} /\ Range(empty') \cap Range(full) = {}
       /\ Range(list) \cap Range(full) = {} /\ page \in Range(list)
       /\ Range(empty') \cup Range(list) \cup Range(full) = Managed'
  BY <1>3, <1>9, <1>13, <1>15, <1>19
<1>21. \A p \in Managed' : FreshMask \subseteq masks[p] /\ (p \in Range(full) <=> masks[p] = Busy)
  BY <1>1, <1>9, <1>11, <1>15, <1>17, <1>18 DEF HeadersInv
<1>22. NoRepeats(full)
  BY <1>1 DEF ListedInv
<1>23. mapped' \subseteq Chunk /\ empty' \in Seq(Page) /\ NoRepeats(empty')
  BY <1>1, <1>2, <1>4
<1>24. ListsBefore(page, list, masks)
  BY <1>13, <1>20, <1>21, <1>22, <1>23 DEF ListsBefore
<1> QED  BY <1>1, <1>2, <1>3, <1>12, <1>13, <1>16, <1>23, <1>24, NewSlotChunk

\* What the invariant says of an object the client gives back.
LEMMA HeldPage ==
  ASSUME ChunkInv, NEW obj \in live
  PROVE  /\ obj[1] \in Usable /\ obj[1] \in Page /\ obj[2] \in Slot /\ obj = <<obj[1], obj[2]>>
         /\ ChunkOf(obj[1]) \in mapped =>
              /\ obj[1] \in Managed /\ Boss(obj[1]) \in Managed /\ Boss(obj[1]) \in Page
              /\ Boss(Boss(obj[1])) = Boss(obj[1])
              /\ refcount[Boss(obj[1])] \in Nat /\ refcount[Boss(obj[1])] >= 1
              /\ (IF refcount[obj[1]] # 0 THEN obj[1] ELSE Boss(obj[1])) = Boss(obj[1])
              /\ FreshMask \subseteq mask[obj[1]] /\ mask[obj[1]] \subseteq Bits
              /\ obj[1] \in Range(full) <=> mask[obj[1]] = Busy
<1>1. /\ TypeOK /\ HeadersInv /\ BossesInv /\ live \subseteq Object /\ obj[1] \in Usable
      /\ mask \in [Page -> SUBSET Bits] /\ refcount \in [Page -> Nat]
  BY DEF ChunkInv, TypeOK, HeldUsable
<1>2. obj[1] \in Page /\ obj[2] \in Slot /\ obj = <<obj[1], obj[2]>>
  BY <1>1 DEF Object
<1>3. ASSUME ChunkOf(obj[1]) \in mapped
      PROVE  /\ obj[1] \in Managed /\ Boss(obj[1]) \in Managed /\ Boss(obj[1]) \in Page
             /\ Boss(Boss(obj[1])) = Boss(obj[1])
  BY <1>1, <1>3, ManagedIs, UsablePages DEF Boss, ChunkOf
<1>4. ASSUME ChunkOf(obj[1]) \in mapped
      PROVE  /\ refcount[Boss(obj[1])] \in Nat /\ refcount[Boss(obj[1])] >= 1
             /\ (IF refcount[obj[1]] # 0 THEN obj[1] ELSE Boss(obj[1])) = Boss(obj[1])
  BY <1>1, <1>3, <1>4 DEF BossesInv
<1>5. ASSUME ChunkOf(obj[1]) \in mapped
      PROVE  /\ FreshMask \subseteq mask[obj[1]] /\ mask[obj[1]] \subseteq Bits
             /\ obj[1] \in Range(full) <=> mask[obj[1]] = Busy
  BY <1>1, <1>2, <1>3, <1>5 DEF HeadersInv
<1> QED  BY <1>1, <1>2, <1>3, <1>4, <1>5

\* What every return of an object does.
LEMMA ReturnedChunk ==
  ASSUME ChunkInv, NEW obj \in live, Returned(obj)
  PROVE  /\ used' \in Int /\ live' = live \ {obj} /\ live' \subseteq Object
         /\ zeroed' \subseteq live' /\ open' = open /\ open' \in BOOLEAN
         /\ fault' = fault
         /\ fault' \in {"none", "map_failed", "use_after_unmap", "exit_after_unmap", "wild_unlink", "aliased"}
         /\ HeldUsable'
<1>1. /\ used \in Int /\ live \subseteq Object /\ zeroed \subseteq live /\ open \in BOOLEAN
      /\ fault \in {"none", "map_failed", "use_after_unmap", "exit_after_unmap", "wild_unlink", "aliased"}
      /\ HeldUsable
  BY DEF ChunkInv, TypeOK
<1>2. /\ used' = used - 1 /\ live' = live \ {obj} /\ zeroed' = zeroed \ {obj}
      /\ open' = open /\ fault' = fault
  BY DEF Returned
<1>3. HeldUsable'
  BY <1>1, <1>2 DEF HeldUsable, Usable, PagesOf, Slaves
<1>4. live' \subseteq Object /\ zeroed' \subseteq live'
  BY <1>1, <1>2
<1> QED  BY <1>1, <1>2, <1>3, <1>4

\* The bit of a slot that is freed was one of the slots', or, whatever the
\* client passed, the masks still show what is held.
LEMMA FoundBit ==
  ASSUME WithinPage \/ MaskShowsHeld', NEW obj \in Object, NEW page \in Page, page = obj[1],
         obj \notin live', page \in Managed', mask \in [Page -> SUBSET Bits], FreshMask \subseteq mask[page],
         \E slot \in SlotFound(obj[2]) : mask' = [mask EXCEPT ![page] = @ \ {slot}]
  PROVE  /\ mask' \in [Page -> SUBSET Bits]
         /\ FreshMask \subseteq mask'[page] /\ mask'[page] # Busy
         /\ \A p \in Page : p # page => mask'[p] = mask[p]
<1>1. PICK slot \in SlotFound(obj[2]) : mask' = [mask EXCEPT ![page] = @ \ {slot}]
  OBVIOUS
<1>2. mask' \in [Page -> SUBSET Bits] /\ \A p \in Page : p # page => mask'[p] = mask[p]
  BY <1>1
<1>3. CASE WithinPage
  <2>1. slot \in Slot
    BY <1>1, <1>3 DEF WithinPage, Object
  <2>2. mask'[page] = mask[page] \ {slot}
    BY <1>1
  <2>3. slot \notin FreshMask /\ slot \in Busy
    BY <2>1, MaskBitsAndSlots
  <2> QED  BY <1>2, <2>2, <2>3
<1>4. CASE MaskShowsHeld'
  <2>1. mask'[page] = FreshMask \cup Held(page)'
    BY <1>4 DEF MaskShowsHeld, FreshMask
  <2>2. obj[2] \in Slot /\ obj = <<page, obj[2]>>
    BY DEF Object
  <2>3. obj[2] \notin Held(page)'
    BY <2>2 DEF Held
  <2>4. obj[2] \notin FreshMask /\ obj[2] \in Busy
    BY <2>2, MaskBitsAndSlots
  <2> QED  BY <1>2, <2>1, <2>3, <2>4
<1> QED  BY <1>3, <1>4

LEMMA FreeBusyChunk ==
  ASSUME WithinPage \/ MaskShowsHeld', ChunkInv, NEW obj \in live, FreeBusy(obj)
  PROVE  ChunkInv'
<1> DEFINE page == obj[1]
<1>1. /\ TypeOK /\ ListedInv /\ HeadersInv /\ BossesInv /\ ExitReturnsAll
      /\ partial \in Seq(Page) /\ full \in Seq(Page) /\ empty \in Seq(Page)
      /\ mask \in [Page -> SUBSET Bits] /\ refcount \in [Page -> Nat] /\ mapped \subseteq Chunk
      /\ NoRepeats(empty) /\ NoRepeats(partial) /\ NoRepeats(full)
  BY DEF ChunkInv, TypeOK, ListedInv
<1>2. /\ ChunkOf(page) \in mapped /\ mask[page] = Busy /\ open /\ Returned(obj)
      /\ \E slot \in SlotFound(obj[2]) : mask' = [mask EXCEPT ![page] = @ \ {slot}]
      /\ empty' = RemoveFirst(empty, page)
      /\ partial' = Cons(page, RemoveFirst(partial, page))
      /\ full' = RemoveFirst(full, page)
      /\ mapped' = mapped /\ refcount' = refcount
  BY Zenon DEF FreeBusy, Release
<1>3. /\ page \in Page /\ obj[2] \in Slot /\ page \in Managed
      /\ FreshMask \subseteq mask[page] /\ page \in Range(full)
  BY <1>2, HeldPage
<1>4. /\ used' \in Int /\ live' \subseteq Object /\ zeroed' \subseteq live' /\ open' = open
      /\ open' \in BOOLEAN /\ HeldUsable'
      /\ fault' \in {"none", "map_failed", "use_after_unmap", "exit_after_unmap", "wild_unlink", "aliased"}
  BY <1>2, ReturnedChunk
<1>4a. obj \in Object /\ obj \notin live' /\ page = obj[1]
  BY <1>1, <1>2, ReturnedChunk DEF TypeOK
<1>4b. page \in Managed'
  BY <1>2, <1>3 DEF Managed
<1> HIDE DEF page
<1>5. /\ mask' \in [Page -> SUBSET Bits]
      /\ FreshMask \subseteq mask'[page] /\ mask'[page] # Busy
      /\ \A p \in Page : p # page => mask'[p] = mask[p]
  BY <1>4a, <1>4b, <1>1, <1>2, <1>3, FoundBit
<1>6. page \notin Range(empty) /\ page \notin Range(partial)
  BY <1>1, <1>3 DEF ListedInv
<1>7. empty' \in Seq(Page) /\ NoRepeats(empty') /\ Range(empty') = Range(empty) \ {page}
  BY <1>1, <1>2, RemoveList
<1>8. full' \in Seq(Page) /\ NoRepeats(full') /\ Range(full') = Range(full) \ {page}
  BY <1>1, <1>2, RemoveList
<1>9. partial' \in Seq(Page) /\ NoRepeats(partial') /\ Range(partial') = Range(partial) \cup {page}
  <2> DEFINE rest == RemoveFirst(partial, page)
  <2>1. rest \in Seq(Page) /\ NoRepeats(rest) /\ Range(rest) = Range(partial) \ {page}
    BY <1>1, RemoveList
  <2>2. Range(rest) = Range(partial) /\ page \notin Range(rest)
    BY <2>1, <1>6
  <2> HIDE DEF rest
  <2>3. partial' = Cons(page, rest)
    BY <1>2 DEF rest
  <2> QED  BY <2>1, <2>2, <2>3, <1>3, ConsList
<1>10. Managed' = Managed /\ Managed \subseteq Page
  BY <1>1, <1>2, ManagedIs DEF Managed
<1>11. ListedInv'
  BY <1>1, <1>3, <1>6, <1>7, <1>8, <1>9, <1>10 DEF ListedInv
<1>12. HeadersInv'
  <2> SUFFICES ASSUME NEW p \in Managed
               PROVE  FreshMask \subseteq mask'[p] /\ (p \in Range(full') <=> mask'[p] = Busy)
    BY <1>10 DEF HeadersInv, FreshMask, Busy
  <2>1. CASE p = page
    BY <2>1, <1>5, <1>8
  <2>2. CASE p # page
    BY <2>2, <1>1, <1>5, <1>8, <1>10 DEF HeadersInv
  <2> QED  BY <2>1, <2>2
<1>13. BossesInv'
  BY <1>1, <1>2, <1>10 DEF BossesInv
<1>14. ExitReturnsAll'
  BY <1>2, <1>4 DEF ExitReturnsAll
<1>15. TypeOK'
  BY <1>1, <1>2, <1>4, <1>5, <1>7, <1>8, <1>9 DEF TypeOK
<1> QED  BY <1>4, <1>11, <1>12, <1>13, <1>14, <1>15 DEF ChunkInv

LEMMA FreePlainChunk ==
  ASSUME WithinPage \/ MaskShowsHeld', ChunkInv, NEW obj \in live, FreePlain(obj)
  PROVE  ChunkInv'
<1> DEFINE page == obj[1]
<1>1. /\ TypeOK /\ ListedInv /\ HeadersInv /\ BossesInv /\ ExitReturnsAll
      /\ mask \in [Page -> SUBSET Bits]
  BY DEF ChunkInv, TypeOK
<1>2. /\ ChunkOf(page) \in mapped /\ mask[page] # Busy /\ open /\ Returned(obj)
      /\ \E slot \in SlotFound(obj[2]) : mask' = [mask EXCEPT ![page] = @ \ {slot}]
      /\ empty' = empty /\ partial' = partial /\ full' = full
      /\ mapped' = mapped /\ refcount' = refcount
  BY Zenon DEF FreePlain, Release
<1>3. /\ page \in Page /\ obj[2] \in Slot /\ page \in Managed
      /\ FreshMask \subseteq mask[page] /\ page \notin Range(full)
  BY <1>2, HeldPage
<1>4. /\ used' \in Int /\ live' \subseteq Object /\ zeroed' \subseteq live' /\ open' = open
      /\ open' \in BOOLEAN /\ HeldUsable'
      /\ fault' \in {"none", "map_failed", "use_after_unmap", "exit_after_unmap", "wild_unlink", "aliased"}
  BY <1>2, ReturnedChunk
<1>4a. obj \in Object /\ obj \notin live' /\ page = obj[1]
  BY <1>1, <1>2, ReturnedChunk DEF TypeOK
<1>4b. page \in Managed'
  BY <1>2, <1>3 DEF Managed
<1> HIDE DEF page
<1>5. /\ mask' \in [Page -> SUBSET Bits]
      /\ FreshMask \subseteq mask'[page] /\ mask'[page] # Busy
      /\ \A p \in Page : p # page => mask'[p] = mask[p]
  BY <1>4a, <1>4b, <1>1, <1>2, <1>3, FoundBit
<1>6. Managed' = Managed /\ Managed \subseteq Page
  BY <1>1, <1>2, ManagedIs DEF Managed
<1>7. ListedInv' /\ BossesInv' /\ ExitReturnsAll'
  BY <1>1, <1>2, <1>4, <1>6 DEF ListedInv, BossesInv, ExitReturnsAll
<1>8. HeadersInv'
  <2> SUFFICES ASSUME NEW p \in Managed
               PROVE  FreshMask \subseteq mask'[p] /\ (p \in Range(full) <=> mask'[p] = Busy)
    BY <1>2, <1>6 DEF HeadersInv, FreshMask, Busy
  <2>1. CASE p = page
    BY <2>1, <1>3, <1>5
  <2>2. CASE p # page
    BY <2>2, <1>1, <1>5, <1>6 DEF HeadersInv
  <2> QED  BY <2>1, <2>2
<1>9. TypeOK'
  BY <1>1, <1>2, <1>4, <1>5 DEF TypeOK
<1> QED  BY <1>4, <1>7, <1>8, <1>9 DEF ChunkInv

\* A page whose last slot is freed is linked, and so stays where it is.
LEMMA FreeLastOfPageChunk ==
  ASSUME ChunkInv, NEW obj \in live, FreeLastOfPage(obj)
  PROVE  ChunkInv'
<1> DEFINE page == obj[1]
<1>1. /\ TypeOK /\ ListedInv /\ HeadersInv /\ BossesInv /\ ExitReturnsAll
      /\ refcount \in [Page -> Nat]
  BY DEF ChunkInv, TypeOK
<1>2. /\ ChunkOf(page) \in mapped /\ open
      /\ refcount[IF refcount[page] # 0 THEN page ELSE Boss(page)] # 1
      /\ empty' = (IF Linked(page) THEN empty ELSE Cons(page, empty))
      /\ refcount' = [refcount EXCEPT
                        ![IF refcount[page] # 0 THEN page ELSE Boss(page)] = @ - 1]
      /\ Returned(obj)
      /\ mapped' = mapped /\ partial' = partial /\ full' = full /\ mask' = mask
  BY Zenon DEF FreeLastOfPage, Release
<1>3. /\ page \in Managed /\ Boss(page) \in Managed /\ Boss(page) \in Page
      /\ Boss(Boss(page)) = Boss(page)
      /\ refcount[Boss(page)] \in Nat /\ refcount[Boss(page)] >= 1
      /\ (IF refcount[page] # 0 THEN page ELSE Boss(page)) = Boss(page)
  BY <1>2, HeldPage
<1>4. /\ used' \in Int /\ live' \subseteq Object /\ zeroed' \subseteq live' /\ open' = open
      /\ open' \in BOOLEAN /\ HeldUsable'
      /\ fault' \in {"none", "map_failed", "use_after_unmap", "exit_after_unmap", "wild_unlink", "aliased"}
  BY <1>2, ReturnedChunk
<1> HIDE DEF page
<1>5. empty' = empty
  BY <1>1, <1>2, <1>3 DEF Linked, ListedInv
<1>6. Managed' = Managed /\ Managed \subseteq Page
  BY <1>1, <1>2, ManagedIs DEF Managed
<1>7. refcount[Boss(page)] # 1 /\ refcount' = [refcount EXCEPT ![Boss(page)] = @ - 1]
  BY <1>2, <1>3
<1>8. refcount' \in [Page -> Nat]
  BY <1>1, <1>3, <1>7
<1>9. BossesInv'
  <2> SUFFICES ASSUME NEW p \in Managed
               PROVE  IF p = Boss(p) THEN refcount'[p] >= 1 ELSE refcount'[p] = 0
    BY <1>6 DEF BossesInv, Boss
  <2>1. IF p = Boss(p) THEN refcount[p] >= 1 ELSE refcount[p] = 0
    BY <1>1 DEF BossesInv
  <2>2. CASE p = Boss(page)
    BY <2>2, <1>1, <1>3, <1>7
  <2>3. CASE p # Boss(page)
    BY <2>1, <2>3, <1>1, <1>6, <1>7
  <2> QED  BY <2>2, <2>3
<1>10. ListedInv' /\ HeadersInv' /\ ExitReturnsAll'
  BY <1>1, <1>2, <1>4, <1>5, <1>6 DEF ListedInv, HeadersInv, ExitReturnsAll
<1>11. TypeOK'
  BY <1>1, <1>2, <1>4, <1>5, <1>8 DEF TypeOK
<1> QED  BY <1>4, <1>9, <1>10, <1>11 DEF ChunkInv

\* The boss and the page after it are all the pages of a chunk on a list.
LEMMA FreeLastChunk ==
  ASSUME ChunkInv, NEW obj \in live, FreeLast(obj)
  PROVE  ChunkInv'
<1> DEFINE page   == obj[1]
           c      == ChunkOf(page)
           second == NextPage(page)
<1>1. /\ TypeOK /\ ListedInv /\ HeadersInv /\ BossesInv /\ ExitReturnsAll
      /\ partial \in Seq(Page) /\ full \in Seq(Page) /\ empty \in Seq(Page)
      /\ mask \in [Page -> SUBSET Bits] /\ refcount \in [Page -> Nat] /\ mapped \subseteq Chunk
      /\ NoRepeats(empty) /\ NoRepeats(partial) /\ NoRepeats(full)
  BY DEF ChunkInv, TypeOK, ListedInv
<1>2. page = (IF refcount[page] # 0 THEN page ELSE Boss(page))
  BY Zenon DEF FreeLast
<1>3. /\ c \in mapped /\ open /\ Returned(obj)
      /\ mapped' = mapped \ {c}
      /\ empty' = RemoveFirst(RemoveFirst(empty, page), second)
      /\ partial' = RemoveFirst(RemoveFirst(partial, page), second)
      /\ full' = RemoveFirst(RemoveFirst(full, page), second)
      /\ mask' = [p \in Page |-> IF ChunkOf(p) = c THEN {} ELSE mask[p]]
      /\ refcount' = [p \in Page |-> IF ChunkOf(p) = c THEN 0 ELSE refcount[p]]
  BY <1>2 DEF FreeLast, Release, Forget
<1>4. page \in Usable /\ page \in Managed /\ page = Boss(page)
  BY <1>2, <1>3, HeldPage
<1>5. /\ used' \in Int /\ live' \subseteq Object /\ zeroed' \subseteq live' /\ open' = open
      /\ open' \in BOOLEAN /\ HeldUsable'
      /\ fault' \in {"none", "map_failed", "use_after_unmap", "exit_after_unmap", "wild_unlink", "aliased"}
  BY <1>3, ReturnedChunk
<1>6. \A p \in Usable : ChunkOf(p) = c <=> p = page \/ p = second
  <2>1. \A p \in Usable : p = Boss(p) \/ p = NextPage(Boss(p))
    BY UsablePages
  <2>2. page = <<c, 0>> /\ second = <<c, 1>>
    BY <1>4 DEF Boss, NextPage, ChunkOf
  <2> HIDE DEF page, c, second
  <2> QED  BY <2>1, <2>2 DEF ChunkOf, Boss, NextPage
<1> HIDE DEF page, second, c
<1>7. /\ \A p : p \in Managed <=> p \in Usable /\ ChunkOf(p) \in mapped
      /\ \A p : p \in Managed' <=> p \in Usable /\ ChunkOf(p) \in mapped'
  BY <1>1, <1>3, UsablePages DEF Managed
<1>8. Managed' = Managed \ {page, second} /\ Managed \subseteq Page
  BY <1>3, <1>6, <1>7, UsablePages
<1>9. \A p \in Managed' : p \in Managed /\ mask'[p] = mask[p] /\ refcount'[p] = refcount[p]
  BY <1>3, <1>6, <1>7, <1>8
<1>10. ASSUME NEW list \in Seq(Page), NoRepeats(list)
       PROVE  /\ RemoveFirst(RemoveFirst(list, page), second) \in Seq(Page)
              /\ NoRepeats(RemoveFirst(RemoveFirst(list, page), second))
              /\ Range(RemoveFirst(RemoveFirst(list, page), second)) = Range(list) \ {page, second}
  <2> DEFINE short == RemoveFirst(list, page)
  <2>1. short \in Seq(Page) /\ NoRepeats(short) /\ Range(short) = Range(list) \ {page}
    BY <1>10, RemoveList
  <2> HIDE DEF short
  <2>2. /\ RemoveFirst(short, second) \in Seq(Page) /\ NoRepeats(RemoveFirst(short, second))
        /\ Range(RemoveFirst(short, second)) = Range(short) \ {second}
    BY <2>1, RemoveList
  <2>3. Range(RemoveFirst(short, second)) = Range(list) \ {page, second}
    BY <2>1, <2>2
  <2> QED  BY <2>2, <2>3 DEF short
<1>11. /\ empty' \in Seq(Page) /\ NoRepeats(empty') /\ Range(empty') = Range(empty) \ {page, second}
       /\ partial' \in Seq(Page) /\ NoRepeats(partial')
       /\ Range(partial') = Range(partial) \ {page, second}
       /\ full' \in Seq(Page) /\ NoRepeats(full') /\ Range(full') = Range(full) \ {page, second}
  BY <1>1, <1>3, <1>10
<1>12. ListedInv'
  BY <1>1, <1>8, <1>11 DEF ListedInv
<1>13. HeadersInv'
  BY <1>1, <1>8, <1>9, <1>11 DEF HeadersInv, FreshMask, Busy
<1>14. BossesInv'
  BY <1>1, <1>9 DEF BossesInv, Boss
<1>15. ExitReturnsAll'
  BY <1>3, <1>5 DEF ExitReturnsAll
<1>16. TypeOK'
  <2>1. mask' \in [Page -> SUBSET Bits] /\ refcount' \in [Page -> Nat]
    BY <1>1, <1>3
  <2>2. mapped' \subseteq Chunk
    BY <1>1, <1>3
  <2> QED  BY <2>1, <2>2, <1>5, <1>11 DEF TypeOK
<1> QED  BY <1>5, <1>12, <1>13, <1>14, <1>15, <1>16 DEF ChunkInv

\* What leaves all but the fault as it was.
LEMMA FaultKeepsChunk ==
  ASSUME ChunkInv,
         fault' \in {"none", "map_failed", "use_after_unmap", "exit_after_unmap", "wild_unlink", "aliased"},
         UNCHANGED <<open, mapped, empty, partial, full, mask, refcount, used, live, zeroed>>
  PROVE  ChunkInv'
<1>1. Managed' = Managed
  BY DEF Managed
<1>2. TypeOK'
  BY DEF ChunkInv, TypeOK
<1>3. ListedInv' /\ HeadersInv'
  BY <1>1 DEF ChunkInv, ListedInv, HeadersInv, FreshMask, Busy
<1>4. BossesInv' /\ HeldUsable' /\ ExitReturnsAll'
  BY <1>1 DEF ChunkInv, BossesInv, Boss, HeldUsable, Usable, PagesOf, Slaves, ExitReturnsAll
<1> QED  BY <1>2, <1>3, <1>4 DEF ChunkInv

\* A list without repetitions, and one with none of its entries behind it.
LEMMA JoinLists ==
  ASSUME NEW S, NEW left \in Seq(S), NEW right \in Seq(S),
         NoRepeats(left), NoRepeats(right), Range(left) \cap Range(right) = {}
  PROVE  /\ left \o right \in Seq(S) /\ NoRepeats(left \o right)
         /\ Range(left \o right) = Range(left) \cup Range(right)
<1> DEFINE both == left \o right
<1>1. /\ both \in Seq(S) /\ Len(both) = Len(left) + Len(right)
      /\ \A i \in 1 .. Len(both) :
           both[i] = IF i <= Len(left) THEN left[i] ELSE right[i - Len(left)]
  BY ConcatProperties
<1>2. /\ Len(left) \in Nat /\ Len(right) \in Nat
      /\ DOMAIN left = 1 .. Len(left) /\ DOMAIN right = 1 .. Len(right)
      /\ DOMAIN both = 1 .. Len(both)
  BY <1>1
<1>3. Range(both) = Range(left) \cup Range(right)
  BY RangeConcatenation
<1> HIDE DEF both
<1>4. NoRepeats(both)
  <2> SUFFICES ASSUME NEW i \in 1 .. Len(both), NEW j \in 1 .. Len(both),
                      both[i] = both[j], i < j
               PROVE  FALSE
    BY <1>1, <1>2 DEF NoRepeats
  <2>1. CASE j <= Len(left)
    <3>1. i \in DOMAIN left /\ j \in DOMAIN left /\ left[i] = left[j]
      BY <2>1, <1>1, <1>2
    <3> QED  BY <3>1, <1>2 DEF NoRepeats
  <2>2. CASE i > Len(left)
    <3>1. right[i - Len(left)] = right[j - Len(left)]
      BY <2>2, <1>1
    <3>2. i - Len(left) \in 1 .. Len(right) /\ j - Len(left) \in 1 .. Len(right)
      BY <2>2, <1>1, <1>2
    <3>3. i - Len(left) = j - Len(left)
      BY <3>1, <3>2, <1>2 DEF NoRepeats
    <3> QED  BY <3>3, <1>2
  <2>3. CASE i <= Len(left) /\ j > Len(left)
    <3>1. /\ left[i] = right[j - Len(left)] /\ i \in 1 .. Len(left)
          /\ j - Len(left) \in 1 .. Len(right)
      BY <2>3, <1>1, <1>2
    <3>2. left[i] \in Range(left) /\ right[j - Len(left)] \in Range(right)
      BY <3>1, <1>2 DEF Range
    <3> QED  BY <3>1, <3>2
  <2> QED  BY <2>1, <2>2, <2>3, <1>2
<1> QED  BY <1>1, <1>3, <1>4 DEF both

LEMMA WalkList ==
  ASSUME ListedInv, TypeOK
  PROVE  Walk \in Seq(Page) /\ NoRepeats(Walk) /\ Range(Walk) = Managed
<1> DEFINE behind == partial \o full
<1>1. /\ empty \in Seq(Page) /\ partial \in Seq(Page) /\ full \in Seq(Page)
      /\ NoRepeats(empty) /\ NoRepeats(partial) /\ NoRepeats(full)
      /\ Range(empty) \cap Range(partial) = {} /\ Range(empty) \cap Range(full) = {}
      /\ Range(partial) \cap Range(full) = {}
      /\ Range(empty) \cup Range(partial) \cup Range(full) = Managed
  BY DEF ListedInv, TypeOK
<1>2. /\ behind \in Seq(Page) /\ NoRepeats(behind)
      /\ Range(behind) = Range(partial) \cup Range(full)
  BY <1>1, JoinLists
<1>3. Walk = empty \o behind
  BY <1>1 DEF Walk
<1> HIDE DEF behind
<1>4. Range(empty) \cap Range(behind) = {}
  BY <1>1, <1>2
<1>5. /\ empty \o behind \in Seq(Page) /\ NoRepeats(empty \o behind)
      /\ Range(empty \o behind) = Range(empty) \cup Range(behind)
  BY <1>1, <1>2, <1>4, JoinLists
<1> QED  BY <1>1, <1>2, <1>3, <1>5

\* Exit meets the boss of every chunk.
LEMMA ExitChunk ==
  ASSUME ChunkInv, Exit
  PROVE  ChunkInv' /\ mapped' = {}
<1>1. /\ TypeOK /\ ListedInv /\ BossesInv /\ mapped \subseteq Chunk
      /\ mask \in [Page -> SUBSET Bits] /\ refcount \in [Page -> Nat]
      /\ fault \in {"none", "map_failed", "use_after_unmap", "exit_after_unmap", "wild_unlink", "aliased"}
  BY DEF ChunkInv, TypeOK
<1>2. mapped \subseteq ExitReturns
  <2> SUFFICES ASSUME NEW c \in mapped  PROVE c \in ExitReturns
    OBVIOUS
  <2>1. <<c, 0>> \in Usable /\ ChunkOf(<<c, 0>>) = c /\ Boss(<<c, 0>>) = <<c, 0>>
    BY <1>1, UsablePages
  <2>2. <<c, 0>> \in Managed
    BY <1>1, <2>1, ManagedIs
  <2>3. <<c, 0>> \in Page /\ refcount[<<c, 0>>] >= 1 /\ refcount[<<c, 0>>] \in Nat
    BY <1>1, <2>1, <2>2, ManagedIs DEF BossesInv
  <2>4. <<c, 0>> \in Range(Walk)
    BY <1>1, <2>2, WalkList
  <2>5. <<c, 0>> \in {q \in Range(Walk) : refcount[q] # 0}
    BY <2>3, <2>4
  <2>6. ChunkOf(<<c, 0>>) \in ExitReturns
    BY <2>5 DEF ExitReturns
  <2> QED  BY <2>1, <2>6
<1>3. /\ open' = FALSE /\ mapped' = {} /\ live' = {} /\ zeroed' = {} /\ used' = 0
      /\ empty' = <<>> /\ partial' = <<>> /\ full' = <<>> /\ fault' = fault
      /\ mask' = [p \in Page |-> IF ChunkOf(p) \in ExitReturns THEN {} ELSE mask[p]]
      /\ refcount' = [p \in Page |-> IF ChunkOf(p) \in ExitReturns THEN 0 ELSE refcount[p]]
  BY <1>2 DEF Exit
<1>4. TypeOK'
  <2>1. mask' \in [Page -> SUBSET Bits]
    <3>1. {} \in SUBSET Bits
      OBVIOUS
    <3> QED  BY <1>1, <1>3, <3>1
  <2>2. refcount' \in [Page -> Nat]
    BY <1>1, <1>3
  <2>3. empty' \in Seq(Page) /\ partial' \in Seq(Page) /\ full' \in Seq(Page)
    BY <1>3, EmptySeq
  <2>4. open' \in BOOLEAN
    BY <1>3, Zenon
  <2>5. used' \in Int
    BY <1>3
  <2>6. mapped' \subseteq Chunk /\ live' \subseteq Object /\ zeroed' \subseteq live'
    BY <1>3, Zenon
  <2> QED  BY <1>1, <1>3, <2>1, <2>2, <2>3, <2>4, <2>5, <2>6 DEF TypeOK
<1>5. Managed' = {}
  BY <1>3 DEF Managed, PagesOf
<1>6. ListedInv' /\ HeadersInv' /\ BossesInv'
  BY <1>3, <1>5 DEF ListedInv, NoRepeats, Range, HeadersInv, BossesInv
<1>7. HeldUsable' /\ ExitReturnsAll'
  BY <1>3 DEF HeldUsable, ExitReturnsAll
<1> QED  BY <1>3, <1>4, <1>6, <1>7 DEF ChunkInv

\* A slab that is closed has no chunk, and so init may forget the lists.
LEMMA InitSlabChunk ==
  ASSUME ChunkInv, InitSlab
  PROVE  ChunkInv'
<1>1. TypeOK /\ mapped = {} /\ HeldUsable
  BY DEF ChunkInv, InitSlab, ExitReturnsAll
<1>2. /\ open' = TRUE /\ empty' = <<>> /\ partial' = <<>> /\ full' = <<>> /\ used' = 0
      /\ mapped' = {} /\ live' = live /\ mask' = mask /\ refcount' = refcount
      /\ zeroed' = zeroed /\ fault' = fault
  BY <1>1 DEF InitSlab
<1>3. TypeOK'
  BY <1>1, <1>2, EmptySeq DEF TypeOK
<1>4. Managed' = {}
  BY <1>2 DEF Managed, PagesOf
<1>5. ListedInv' /\ HeadersInv' /\ BossesInv'
  BY <1>2, <1>4 DEF ListedInv, NoRepeats, Range, HeadersInv, BossesInv
<1>6. HeldUsable' /\ ExitReturnsAll'
  BY <1>1, <1>2 DEF HeldUsable, Usable, PagesOf, Slaves, ExitReturnsAll
<1> QED  BY <1>3, <1>5, <1>6 DEF ChunkInv

LEMMA InitHasChunkInv ==
  Init => ChunkInv
<1> SUFFICES ASSUME Init  PROVE ChunkInv
  OBVIOUS
<1>1. TypeOK
  BY InitHasInv DEF IInv
<1>2. Managed = {}
  BY DEF Init, Managed, PagesOf
<1>3. ListedInv /\ HeadersInv /\ BossesInv
  BY <1>2 DEF Init, ListedInv, NoRepeats, Range, HeadersInv, BossesInv
<1>4. HeldUsable /\ ExitReturnsAll
  BY DEF Init, HeldUsable, ExitReturnsAll
<1> QED  BY <1>1, <1>3, <1>4 DEF ChunkInv

LEMMA NextKeepsChunkInv ==
  ASSUME WithinPage \/ MaskShowsHeld', ChunkInv, [Next]_vars
  PROVE  ChunkInv'
<1>0. fault \in {"none", "map_failed", "use_after_unmap", "exit_after_unmap", "wild_unlink", "aliased"}
  BY DEF ChunkInv, TypeOK
<1>1. CASE InitSlab
  BY <1>1, InitSlabChunk
<1>2. CASE Alloc
  BY <1>2, AllocPartialChunk, AllocEmptyChunk, AllocChunkChunk DEF Alloc
<1>3. CASE AllocRefused
  BY <1>0, <1>3, FaultKeepsChunk DEF AllocRefused
<1>4. CASE Free
  <2>1. PICK obj \in live :
           \/ FreeUnmapped(obj) \/ FreeBusy(obj) \/ FreeLast(obj)
           \/ FreeLastOfSlave(obj) \/ FreeLastOfPage(obj) \/ FreePlain(obj)
    BY <1>4 DEF Free
  <2>2. CASE FreeUnmapped(obj)
    BY <2>2, FaultKeepsChunk DEF FreeUnmapped
  <2>3. CASE FreeLastOfSlave(obj)
    BY <2>3, FaultKeepsChunk DEF FreeLastOfSlave
  <2> QED
    BY <2>1, <2>2, <2>3, FreeBusyChunk, FreeLastChunk, FreeLastOfPageChunk, FreePlainChunk
<1>5. CASE Exit
  BY <1>5, ExitChunk
<1>6. CASE ExitFaults
  BY <1>6, FaultKeepsChunk DEF ExitFaults
<1>7. CASE UNCHANGED vars
  BY <1>0, <1>7, FaultKeepsChunk DEF vars
<1> QED  BY <1>1, <1>2, <1>3, <1>4, <1>5, <1>6, <1>7 DEF Next

\* The invariant of headers, lists and counts holds of chunks of any number of
\* pages, and of a client that does not even return the pointers it was given.
THEOREM ChunkInvariant ==
  ASSUME WithinPage
  PROVE  Spec => []ChunkInv
<1>1. Init => ChunkInv
  BY InitHasChunkInv
<1>2. ChunkInv /\ [Next]_vars => ChunkInv'
  BY NextKeepsChunkInv
<1> QED  BY <1>1, <1>2, PTL DEF Spec

\* TypeOK: the variables have their types, with chunks of any number of pages.
THEOREM SlabTypeOKOfChunks ==
  ASSUME WithinPage
  PROVE  Spec => []TypeOK
<1>1. ChunkInv => TypeOK
  BY DEF ChunkInv
<1> QED  BY <1>1, ChunkInvariant, PTL

\* EachPageOnItsList: opium_slab_new_slot, opium_slab_free and opium_slab_exit
\* find every page in use on exactly one list, and on full when its mask is busy,
\* with chunks of any number of pages.
THEOREM SlabEachPageOnItsList ==
  ASSUME WithinPage
  PROVE  Spec => []EachPageOnItsList
<1>1. ChunkInv => EachPageOnItsList
  BY WalkList DEF ChunkInv, EachPageOnItsList, HeadersInv, ListedInv
<1> QED  BY <1>1, ChunkInvariant, PTL

-----------------------------------------------------------------------------
(* What exit meets: no boss is ever on empty.                                *)

SlavesOnEmpty == \A p \in Range(empty) : p # Boss(p)

\* Nothing but a new chunk puts a page on empty, and that page is a slave.
LEMMA NextKeepsSlaves ==
  ASSUME ChunkInv, SlavesOnEmpty, [Next]_vars
  PROVE  SlavesOnEmpty'
<1>1. empty \in Seq(Page) /\ NoRepeats(empty)
  BY DEF ChunkInv, TypeOK, ListedInv
<1>2. CASE Range(empty') \subseteq Range(empty)
  BY <1>2 DEF SlavesOnEmpty, Boss
<1>3. CASE empty' = <<>>
  BY <1>3 DEF SlavesOnEmpty, Range
<1>4. ASSUME NEW c \in Chunk, empty' = Slaves(c)  PROVE SlavesOnEmpty'
  <2>1. Range(empty') \subseteq {<<c, 1>>}
    BY <1>4, SlavesOf
  <2>2. <<c, 1>> # Boss(<<c, 1>>)
    BY DEF Boss, ChunkOf
  <2> QED  BY <2>1, <2>2 DEF SlavesOnEmpty, Boss
<1>5. CASE InitSlab \/ Exit
  BY <1>3, <1>5 DEF InitSlab, Exit
<1>6. CASE AllocRefused \/ ExitFaults \/ UNCHANGED vars
  BY <1>2, <1>6 DEF AllocRefused, ExitFaults, vars
<1>7. ASSUME Alloc  PROVE SlavesOnEmpty'
  <2>1. PICK zero \in BOOLEAN : \/ AllocPartial(zero) \/ AllocEmpty(zero)
                                \/ \E c \in Chunk : AllocChunk(c, zero)
    BY <1>7 DEF Alloc
  <2>2. CASE AllocPartial(zero)
    BY <2>2, <1>2 DEF AllocPartial
  <2>3. CASE AllocEmpty(zero)
    <3>1. empty # <<>> /\ empty' = Tail(empty)
      BY <2>3 DEF AllocEmpty
    <3>2. Range(Tail(empty)) = Range(empty) \ {Head(empty)}
      BY <1>1, <3>1, TailList
    <3> QED  BY <3>1, <3>2, <1>2
  <2>4. CASE \E c \in Chunk : AllocChunk(c, zero)
    BY <2>4, <1>4 DEF AllocChunk
  <2> QED  BY <2>1, <2>2, <2>3, <2>4
<1>8. ASSUME Free  PROVE SlavesOnEmpty'
  <2>1. PICK obj \in live :
           \/ FreeUnmapped(obj) \/ FreeBusy(obj) \/ FreeLast(obj)
           \/ FreeLastOfSlave(obj) \/ FreeLastOfPage(obj) \/ FreePlain(obj)
    BY <1>8 DEF Free
  <2>2. CASE FreeUnmapped(obj) \/ FreeLastOfSlave(obj) \/ FreePlain(obj)
    BY <2>2, <1>2 DEF FreeUnmapped, FreeLastOfSlave, FreePlain
  <2>3. CASE FreeBusy(obj)
    <3>1. empty' = RemoveFirst(empty, obj[1])
      BY <2>3 DEF FreeBusy
    <3>2. Range(RemoveFirst(empty, obj[1])) = Range(empty) \ {obj[1]}
      BY <1>1, RemoveList
    <3> QED  BY <3>1, <3>2, <1>2
  <2>4. CASE FreeLast(obj)
    <3>1. PICK b, s : empty' = RemoveFirst(RemoveFirst(empty, b), s)
      BY <2>4 DEF FreeLast
    <3>2. /\ RemoveFirst(empty, b) \in Seq(Page) /\ NoRepeats(RemoveFirst(empty, b))
          /\ Range(RemoveFirst(empty, b)) = Range(empty) \ {b}
      BY <1>1, RemoveList
    <3>3. Range(RemoveFirst(RemoveFirst(empty, b), s))
            = Range(RemoveFirst(empty, b)) \ {s}
      BY <3>2, RemoveList
    <3> QED  BY <3>1, <3>2, <3>3, <1>2
  <2>5. CASE FreeLastOfPage(obj)
    <3>1. /\ ChunkOf(obj[1]) \in mapped
          /\ empty' = (IF Linked(obj[1]) THEN empty ELSE Cons(obj[1], empty))
      BY <2>5, Zenon DEF FreeLastOfPage
    <3>2. obj[1] \in Managed
      BY <3>1, HeldPage
    <3>3. Linked(obj[1])
      BY <3>2 DEF ChunkInv, ListedInv, Linked
    <3> QED  BY <3>1, <3>3, <1>2
  <2> QED  BY <2>1, <2>2, <2>3, <2>4, <2>5
<1> QED  BY <1>5, <1>6, <1>7, <1>8 DEF Next

LEMMA WalkIs ==
  ASSUME empty \in Seq(Page), partial \in Seq(Page), full \in Seq(Page)
  PROVE  Walk = empty \o (partial \o full)
BY ConcatAssociative DEF Walk

\* A page that stands behind a boss is on partial or full, and so is itself a boss.
LEMMA BossesBehindBosses ==
  ASSUME ChunkInv, SlavesOnEmpty
  PROVE  UnusedSlavesExitSafely
<1> SUFFICES ASSUME \A p \in Range(partial \o full) : p = Boss(p),
                    NEW i \in 1 .. Len(Walk), NEW j \in 1 .. Len(Walk), i < j,
                    refcount[Walk[i]] # 0, ChunkOf(Walk[j]) = ChunkOf(Walk[i])
             PROVE  FALSE
  BY DEF UnusedSlavesExitSafely, WalkReadsUnmapped
<1> DEFINE behind == partial \o full
<1>1. /\ Walk \in Seq(Page) /\ NoRepeats(Walk) /\ Range(Walk) = Managed
      /\ empty \in Seq(Page) /\ behind \in Seq(Page) /\ BossesInv
  BY WalkList DEF ChunkInv, TypeOK
<1>2. Walk = empty \o behind
  <2>1. empty \in Seq(Page) /\ partial \in Seq(Page) /\ full \in Seq(Page)
    BY DEF ChunkInv, TypeOK
  <2> QED  BY <2>1, WalkIs DEF behind
<1> HIDE DEF behind
<1>3. /\ Len(empty) \in Nat /\ Len(behind) \in Nat
      /\ Len(Walk) = Len(empty) + Len(behind)
      /\ \A k \in 1 .. Len(Walk) :
           Walk[k] = IF k <= Len(empty) THEN empty[k] ELSE behind[k - Len(empty)]
  BY <1>1, <1>2, ConcatProperties
<1>4. DOMAIN Walk = 1 .. Len(Walk) /\ DOMAIN empty = 1 .. Len(empty)
      /\ DOMAIN behind = 1 .. Len(behind)
  BY <1>1
<1>5. Walk[i] \in Managed
  BY <1>1, <1>4 DEF Range
<1>6. Walk[i] = Boss(Walk[i])
  BY <1>1, <1>5 DEF BossesInv
<1>7. ~(i <= Len(empty))
  <2> SUFFICES ASSUME i <= Len(empty)  PROVE FALSE
    OBVIOUS
  <2>1. i \in DOMAIN empty /\ Walk[i] = empty[i]
    BY <1>3, <1>4
  <2> QED  BY <2>1, <1>6 DEF SlavesOnEmpty, Range
<1>8. j - Len(empty) \in 1 .. Len(behind) /\ Walk[j] = behind[j - Len(empty)]
  BY <1>3, <1>7
<1>9. Walk[j] \in Range(behind)
  BY <1>4, <1>8 DEF Range
<1>10. Walk[j] = Boss(Walk[j])
  BY <1>9 DEF behind
<1>11. Walk[i] = Walk[j]
  BY <1>6, <1>10 DEF Boss
<1> QED  BY <1>1, <1>4, <1>11 DEF NoRepeats

\* UnusedSlavesExitSafely: opium_slab_exit reads no page of a chunk it has returned
\* unless a slave was allocated from, for chunks of any number of pages.
THEOREM SlabUnusedSlavesExitSafely ==
  ASSUME WithinPage
  PROVE  Spec => []UnusedSlavesExitSafely
<1>1. Init => SlavesOnEmpty
  BY DEF Init, SlavesOnEmpty, Range
<1>2. ChunkInv /\ SlavesOnEmpty /\ [Next]_vars => SlavesOnEmpty'
  BY NextKeepsSlaves
<1>3. ChunkInv /\ SlavesOnEmpty => UnusedSlavesExitSafely
  BY BossesBehindBosses
<1> QED  BY <1>1, <1>2, <1>3, ChunkInvariant, PTL DEF Spec

-----------------------------------------------------------------------------
(* Chunks of any number of pages and any client, until a bit of a mask is    *)
(* stale: everything is exact.                                               *)

\* A page is on empty when nothing of it is held.
EmptyInv == \A p \in Managed : p \in Range(empty) <=> Held(p) = {}

ExactInv ==
  /\ ChunkInv
  /\ MaskShowsHeld /\ HeldIsMapped
  /\ UsedInv /\ EmptyInv /\ RefcountCountsPages

\* The slot that is given was not held.
LEMMA SlotGiven ==
  ASSUME TypeOK, UsedInv, NEW page \in Page, NEW onPartial, NEW masks \in [Page -> SUBSET Bits],
         NEW zero, masks[page] = FreshMask \cup Held(page),
         NewSlot(page, onPartial, masks, zero)
  PROVE  /\ UsedInv' /\ Held(page)' # {}
         /\ \A p : p # page => Held(p)' = Held(p)
<1>1. PICK slot \in Bits :
        /\ LowestFree(masks[page], slot)
        /\ used' = used + 1
        /\ live' = live \cup {<<page, slot>>}
  BY DEF NewSlot
<1>2. slot \in Slot \ Held(page)
  BY <1>1, MaskBitsAndSlots DEF LowestFree, Busy
<1>3. <<page, slot>> \notin live
  BY <1>2 DEF Held
<1>4. UsedInv'
  <2>1. /\ IsFiniteSet(live \cup {<<page, slot>>})
        /\ Cardinality(live \cup {<<page, slot>>}) = Cardinality(live) + 1
    BY <1>3, FS_AddElement DEF UsedInv
  <2> QED  BY <1>1, <2>1 DEF UsedInv, UsedCountsHeld
<1>5. slot \in Held(page)'
  BY <1>1, <1>2 DEF Held, Slot
<1>6. ASSUME NEW p, p # page  PROVE Held(p)' = Held(p)
  BY <1>1, <1>6 DEF Held, Slot
<1> QED  BY <1>4, <1>5, <1>6

\* The pages of a chunk of which something is held.
HeldPages(c) == {p \in Managed : ChunkOf(p) = c /\ Held(p) # {}}

\* What a chunk counts is the number of at most two pages.
LEMMA HeldPagesFinite ==
  ASSUME TypeOK, NEW c \in Chunk
  PROVE  IsFiniteSet(HeldPages(c))
<1>1. HeldPages(c) \subseteq {<<c, 0>>, <<c, 1>>}
  <2> SUFFICES ASSUME NEW p \in Managed, ChunkOf(p) = c  PROVE p \in {<<c, 0>>, <<c, 1>>}
    BY DEF HeldPages
  <2>1. p \in Usable
    BY ManagedIs
  <2>2. p = Boss(p) \/ p = NextPage(Boss(p))
    BY <2>1, UsablePages
  <2> QED  BY <2>2 DEF Boss, NextPage, ChunkOf
<1>2. IsFiniteSet({<<c, 0>>, <<c, 1>>})
  <2>1. IsFiniteSet({<<c, 0>>})
    BY FS_Singleton
  <2>2. IsFiniteSet({<<c, 0>>} \cup {<<c, 1>>})
    BY <2>1, FS_AddElement
  <2>3. {<<c, 0>>} \cup {<<c, 1>>} = {<<c, 0>>, <<c, 1>>}
    OBVIOUS
  <2> QED  BY <2>2, <2>3
<1> QED  BY <1>1, <1>2, FS_Subset

LEMMA AllocPartialExact ==
  ASSUME ExactInv, ChunkInv', MaskShowsHeld', HeldIsMapped', NEW zero, AllocPartial(zero)
  PROVE  ExactInv'
<1>1. /\ TypeOK /\ ListedInv /\ UsedInv /\ partial \in Seq(Page) /\ mask \in [Page -> SUBSET Bits]
  BY DEF ExactInv, ChunkInv, TypeOK
<1>2. PICK page \in Range(partial) : page = Head(partial)
  BY <1>1, HeadList DEF AllocPartial
<1>3. page \in Managed /\ page \in Page /\ page \notin Range(empty)
  BY <1>1, <1>2, ManagedIs DEF ListedInv
<1>4. mapped' = mapped /\ empty' = empty /\ refcount' = refcount /\ NewSlot(page, partial, mask, zero)
  BY <1>2 DEF AllocPartial
<1>5. mask[page] = FreshMask \cup Held(page) /\ Held(page) # {}
  BY <1>3 DEF ExactInv, MaskShowsHeld, EmptyInv
<1>6. UsedInv' /\ Held(page)' # {} /\ \A p : p # page => Held(p)' = Held(p)
  BY <1>1, <1>3, <1>4, <1>5, SlotGiven
<1>7. Managed' = Managed
  BY <1>4 DEF Managed
<1>8. EmptyInv'
  BY <1>3, <1>4, <1>6, <1>7 DEF ExactInv, EmptyInv
<1>9. RefcountCountsPages'
  <2>1. \A p : Held(p)' # {} <=> Held(p) # {}
    BY <1>5, <1>6
  <2>2. \A c : HeldPages(c)' = HeldPages(c)
    BY <2>1, <1>7 DEF HeldPages, ChunkOf
  <2> QED  BY <2>2, <1>4 DEF ExactInv, RefcountCountsPages, HeldPages
<1> QED  BY <1>6, <1>8, <1>9 DEF ExactInv

LEMMA AllocEmptyExact ==
  ASSUME ExactInv, ChunkInv', MaskShowsHeld', HeldIsMapped', NEW zero, AllocEmpty(zero)
  PROVE  ExactInv'
<1>1. /\ TypeOK /\ ListedInv /\ UsedInv /\ BossesInv
      /\ empty \in Seq(Page) /\ mask \in [Page -> SUBSET Bits] /\ refcount \in [Page -> Nat]
      /\ mapped \subseteq Chunk /\ NoRepeats(empty) /\ Range(empty) \subseteq Managed
  BY DEF ExactInv, ChunkInv, TypeOK, ListedInv
<1>0. empty # <<>>
  BY DEF AllocEmpty
<1>2. PICK page \in Range(empty) : page = Head(empty)
  BY <1>0, <1>1, HeadList
<1> DEFINE masks == [mask EXCEPT ![page] = FreshMask]
<1>3. page \in Managed /\ page \in Page /\ page \in Usable
  BY <1>1, <1>2, ManagedIs DEF ListedInv
<1>4. /\ Boss(page) \in Managed /\ Boss(page) \in Page /\ Boss(page) = <<ChunkOf(page), 0>>
      /\ ChunkOf(page) \in mapped /\ \A c \in Chunk : <<c, 0>> \in Page
  BY <1>1, <1>3, ManagedIs, UsablePages DEF Boss
<1>5. (IF refcount[page] # 0 THEN page ELSE Boss(page)) = Boss(page)
  BY <1>1, <1>3 DEF BossesInv
<1>6. /\ mapped' = mapped /\ empty' = Tail(empty)
      /\ refcount' = [refcount EXCEPT ![Boss(page)] = @ + 1]
      /\ NewSlot(page, <<page>>, masks, zero)
  BY <1>2, <1>5 DEF AllocEmpty
<1>7. Held(page) = {}
  BY <1>2, <1>3 DEF ExactInv, EmptyInv
<1>8. masks \in [Page -> SUBSET Bits] /\ masks[page] = FreshMask \cup Held(page)
  BY <1>1, <1>3, <1>7, MaskBitsAndSlots
<1> HIDE DEF masks
<1>9. UsedInv' /\ Held(page)' # {} /\ \A p : p # page => Held(p)' = Held(p)
  BY <1>1, <1>3, <1>6, <1>8, SlotGiven
<1>10. Managed' = Managed
  BY <1>6 DEF Managed
<1>11. Range(empty') = Range(empty) \ {page}
  BY <1>0, <1>1, <1>2, <1>6, TailList
<1>12. EmptyInv'
  BY <1>9, <1>10, <1>11 DEF ExactInv, EmptyInv
<1>13. RefcountCountsPages'
  <2> SUFFICES ASSUME NEW c \in mapped
               PROVE  refcount'[<<c, 0>>] = Cardinality(HeldPages(c)')
    BY <1>6 DEF RefcountCountsPages, HeldPages
  <2>1. refcount[<<c, 0>>] = Cardinality(HeldPages(c)) /\ c \in Chunk
    BY <1>1 DEF ExactInv, RefcountCountsPages, HeldPages
  <2>2. CASE c = ChunkOf(page)
    <3>1. HeldPages(c)' = HeldPages(c) \cup {page}
      BY <2>2, <1>3, <1>9, <1>10 DEF HeldPages, ChunkOf
    <3>2. page \notin HeldPages(c)
      BY <1>7 DEF HeldPages
    <3>3. Cardinality(HeldPages(c) \cup {page}) = Cardinality(HeldPages(c)) + 1
      BY <2>1, <3>2, <1>1, HeldPagesFinite, FS_AddElement
    <3>4. refcount'[<<c, 0>>] = refcount[<<c, 0>>] + 1
      BY <2>2, <1>1, <1>4, <1>6
    <3> QED  BY <2>1, <3>1, <3>3, <3>4
  <2>3. CASE c # ChunkOf(page)
    <3>1. HeldPages(c)' = HeldPages(c)
      BY <2>3, <1>9, <1>10 DEF HeldPages, ChunkOf
    <3>2. refcount'[<<c, 0>>] = refcount[<<c, 0>>]
      BY <2>1, <2>3, <1>1, <1>4, <1>6
    <3> QED  BY <2>1, <3>1, <3>2
  <2> QED  BY <2>2, <2>3
<1> QED  BY <1>9, <1>12, <1>13 DEF ExactInv

LEMMA AllocChunkExact ==
  ASSUME ExactInv, ChunkInv', MaskShowsHeld', HeldIsMapped', NEW c \in Chunk, NEW zero,
         AllocChunk(c, zero)
  PROVE  ExactInv'
<1> DEFINE page   == <<c, 0>>
           slaves == Range(Slaves(c))
           masks  == [p \in Page |-> IF p \in {page} \cup slaves THEN FreshMask ELSE mask[p]]
<1>1. /\ TypeOK /\ UsedInv /\ mask \in [Page -> SUBSET Bits] /\ refcount \in [Page -> Nat]
      /\ mapped \subseteq Chunk /\ live \subseteq Object
  BY DEF ExactInv, ChunkInv, TypeOK
<1>2. /\ mapped' = mapped \cup {c} /\ c \notin mapped
      /\ empty = <<>> /\ empty' = Slaves(c)
      /\ refcount' = [p \in Page |-> IF p = page THEN 1
                                     ELSE IF p \in slaves THEN 0 ELSE refcount[p]]
      /\ NewSlot(page, <<page>>, masks, zero)
  BY DEF AllocChunk
<1>3. /\ page \in Usable /\ page \in Page /\ ChunkOf(page) = c
      /\ slaves = Usable \cap {<<c, 1>>} /\ page \notin slaves
      /\ \A p \in slaves : ChunkOf(p) = c
      /\ \A p \in Usable : ChunkOf(p) = c => p = page \/ p \in slaves
  <2>1. \A p \in Usable : p = Boss(p) \/ p = NextPage(Boss(p))
    BY UsablePages
  <2>2. /\ page \in Usable /\ page \in Page /\ ChunkOf(page) = c
        /\ slaves = Usable \cap {<<c, 1>>}
    BY UsablePages
  <2> QED  BY <2>1, <2>2 DEF ChunkOf, Boss, NextPage
<1>4. \A p : p \in Managed' <=> p \in Usable /\ ChunkOf(p) \in mapped \cup {c}
  <2>1. mapped \cup {c} \in SUBSET Chunk
    BY <1>1
  <2>2. Managed' = PagesOf(mapped \cup {c})
    BY <1>2 DEF Managed
  <2> QED  BY <2>1, <2>2, UsablePages
<1>5. \A p : p \in Managed <=> p \in Usable /\ ChunkOf(p) \in mapped
  BY <1>1, UsablePages DEF Managed
<1>6. \A p : ChunkOf(p) = c => Held(p) = {}
  BY <1>2 DEF ExactInv, HeldIsMapped, Held, ChunkOf
<1>7. masks \in [Page -> SUBSET Bits] /\ masks[page] = FreshMask \cup Held(page)
  BY <1>1, <1>3, <1>6, MaskBitsAndSlots
<1> HIDE DEF masks, page, slaves
<1>8. UsedInv' /\ Held(page)' # {} /\ \A p : p # page => Held(p)' = Held(p)
  BY <1>1, <1>2, <1>3, <1>7, SlotGiven
<1>9. EmptyInv'
  <2> SUFFICES ASSUME NEW p \in Managed'  PROVE p \in Range(empty') <=> Held(p)' = {}
    BY DEF EmptyInv
  <2>1. Range(empty') = slaves
    BY <1>2 DEF slaves
  <2>2. CASE ChunkOf(p) = c
    BY <2>1, <2>2, <1>3, <1>4, <1>6, <1>8
  <2>3. CASE ChunkOf(p) # c
    <3>1. p \in Managed /\ Held(p)' = Held(p)
      BY <2>3, <1>3, <1>4, <1>5, <1>8
    <3>2. p \notin Range(empty)
      BY <1>2 DEF Range
    <3>3. Held(p) # {}
      BY <3>1, <3>2 DEF ExactInv, EmptyInv
    <3> QED  BY <2>1, <2>3, <3>1, <3>3, <1>3
  <2> QED  BY <2>2, <2>3
<1>10. RefcountCountsPages'
  <2> SUFFICES ASSUME NEW d \in mapped \cup {c}
               PROVE  refcount'[<<d, 0>>] = Cardinality(HeldPages(d)')
    BY <1>2 DEF RefcountCountsPages, HeldPages
  <2>1. <<d, 0>> \in Page /\ d \in Chunk /\ ChunkOf(<<d, 0>>) = d
    BY <1>1, UsablePages
  <2>2. CASE d = c
    <3>1. HeldPages(d)' = {page}
      BY <2>2, <1>3, <1>4, <1>6, <1>8 DEF HeldPages, ChunkOf
    <3>2. refcount'[<<d, 0>>] = 1
      BY <2>1, <2>2, <1>2 DEF page
    <3> QED  BY <3>1, <3>2, FS_Singleton
  <2>3. CASE d # c
    <3>1. HeldPages(d)' = HeldPages(d)
      BY <2>3, <1>3, <1>4, <1>5, <1>8 DEF HeldPages, ChunkOf
    <3>2. refcount'[<<d, 0>>] = refcount[<<d, 0>>]
      BY <2>1, <2>3, <1>2, <1>3
    <3>3. refcount[<<d, 0>>] = Cardinality(HeldPages(d))
      BY <2>3 DEF ExactInv, RefcountCountsPages, HeldPages
    <3> QED  BY <3>1, <3>2, <3>3
  <2> QED  BY <2>2, <2>3
<1> QED  BY <1>8, <1>9, <1>10 DEF ExactInv

\* What a return leaves of what is held, and of the counter.
LEMMA ReturnedExact ==
  ASSUME ExactInv, NEW obj \in live, Returned(obj)
  PROVE  /\ UsedInv' /\ Held(obj[1])' = Held(obj[1]) \ {obj[2]}
         /\ \A p : p # obj[1] => Held(p)' = Held(p)
         /\ obj[2] \in Held(obj[1]) /\ obj[1] \in Managed /\ ChunkOf(obj[1]) \in mapped
         /\ mask[obj[1]] = FreshMask \cup Held(obj[1])
         /\ mask[obj[1]] \cap Slot = Held(obj[1])
<1>1. live' = live \ {obj} /\ used' = used - 1
  BY DEF Returned
<1>2. obj[2] \in Slot /\ obj = <<obj[1], obj[2]>>
  BY HeldPage DEF ExactInv
<1>3. ChunkOf(obj[1]) \in mapped
  BY DEF ExactInv, HeldIsMapped
<1>4. obj[1] \in Managed
  BY <1>3, HeldPage DEF ExactInv
<1>5. IsFiniteSet(live) /\ used = Cardinality(live)
  BY DEF ExactInv, UsedInv, UsedCountsHeld
<1>6. IsFiniteSet(live \ {obj}) /\ Cardinality(live \ {obj}) = Cardinality(live) - 1
  BY <1>5, FS_RemoveElement
<1>7. UsedInv'
  BY <1>1, <1>5, <1>6 DEF UsedInv, UsedCountsHeld
<1>8. Held(obj[1])' = Held(obj[1]) \ {obj[2]} /\ obj[2] \in Held(obj[1])
  BY <1>1, <1>2 DEF Held, Slot
<1>9. \A p : p # obj[1] => Held(p)' = Held(p)
  BY <1>1, <1>2 DEF Held, Slot
<1>10. mask[obj[1]] = FreshMask \cup Held(obj[1])
  BY <1>4 DEF ExactInv, MaskShowsHeld
<1>11. mask[obj[1]] \cap Slot = Held(obj[1])
  BY <1>10, MaskBitsAndSlots DEF Held
<1> QED  BY <1>3, <1>4, <1>7, <1>8, <1>9, <1>10, <1>11

\* A return that leaves an object on its page.
LEMMA ReturnKeepsExact ==
  ASSUME ExactInv, ChunkInv', MaskShowsHeld', HeldIsMapped',
         NEW obj \in live, Returned(obj), Held(obj[1]) # {obj[2]},
         mapped' = mapped, refcount' = refcount, Range(empty') = Range(empty)
  PROVE  ExactInv'
<1> DEFINE page == obj[1]
<1>1. /\ UsedInv' /\ Held(page)' = Held(page) \ {obj[2]}
      /\ \A p : p # page => Held(p)' = Held(p)
      /\ obj[2] \in Held(page)
  BY ReturnedExact
<1> HIDE DEF page
<1>2. Managed' = Managed
  BY DEF Managed
<1>3. \A p : Held(p)' # {} <=> Held(p) # {}
  BY <1>1 DEF page
<1>4. EmptyInv'
  BY <1>2, <1>3 DEF ExactInv, EmptyInv
<1>5. \A c : HeldPages(c)' = HeldPages(c)
  BY <1>2, <1>3 DEF HeldPages, ChunkOf
<1>6. RefcountCountsPages'
  BY <1>5 DEF ExactInv, RefcountCountsPages, HeldPages
<1> QED  BY <1>1, <1>4, <1>6 DEF ExactInv

LEMMA FreeBusyExact ==
  ASSUME ExactInv, ChunkInv', MaskShowsHeld', HeldIsMapped', NEW obj \in live, FreeBusy(obj)
  PROVE  ExactInv'
<1>1. /\ mask[obj[1]] = Busy /\ Returned(obj) /\ empty' = RemoveFirst(empty, obj[1])
      /\ mapped' = mapped /\ refcount' = refcount
  BY Zenon DEF FreeBusy
<1>2. obj[1] \in Managed /\ mask[obj[1]] \cap Slot = Held(obj[1])
  BY <1>1, ReturnedExact
<1>3. Held(obj[1]) = Slot
  BY <1>1, <1>2, MaskBitsAndSlots DEF Busy
<1>4. Held(obj[1]) # {obj[2]}
  <2>1. 0 \in Slot /\ 1 \in Slot
    BY SlabAssumption DEF Slot
  <2> QED  BY <2>1, <1>3
<1>5. obj[1] \notin Range(empty)
  <2>1. 0 \in Slot
    BY SlabAssumption DEF Slot
  <2>2. Held(obj[1]) # {}
    BY <2>1, <1>3
  <2> QED  BY <2>2, <1>2 DEF ExactInv, EmptyInv
<1>6. empty \in Seq(Page) /\ NoRepeats(empty)
  BY DEF ExactInv, ChunkInv, TypeOK, ListedInv
<1>7. Range(empty') = Range(empty)
  <2>1. Range(RemoveFirst(empty, obj[1])) = Range(empty) \ {obj[1]}
    BY <1>6, RemoveList
  <2> QED  BY <2>1, <1>1, <1>5
<1> QED  BY <1>1, <1>4, <1>7, ReturnKeepsExact

LEMMA FreePlainExact ==
  ASSUME ExactInv, ChunkInv', MaskShowsHeld', HeldIsMapped', NEW obj \in live, FreePlain(obj)
  PROVE  ExactInv'
<1>1. /\ ~OneUsed(mask[obj[1]]) /\ Returned(obj) /\ empty' = empty
      /\ mapped' = mapped /\ refcount' = refcount
  BY Zenon DEF FreePlain
<1>2. obj[2] \in Held(obj[1]) /\ mask[obj[1]] \cap Slot = Held(obj[1])
  BY <1>1, ReturnedExact
<1>3. Held(obj[1]) # {obj[2]}
  BY <1>1, <1>2 DEF OneUsed
<1> QED  BY <1>1, <1>3, ReturnKeepsExact

\* The bit of the last slot stays 1: the mask is stale.
LEMMA FreeLastOfPageStale ==
  ASSUME ExactInv, MaskShowsHeld', NEW obj \in live, FreeLastOfPage(obj)
  PROVE  FALSE
<1>1. Returned(obj) /\ mapped' = mapped /\ mask' = mask
  BY Zenon DEF FreeLastOfPage
<1>2. /\ Held(obj[1])' = Held(obj[1]) \ {obj[2]} /\ obj[2] \in Held(obj[1])
      /\ obj[1] \in Managed /\ mask[obj[1]] = FreshMask \cup Held(obj[1])
  BY <1>1, ReturnedExact
<1>3. obj[1] \in Managed'
  BY <1>1, <1>2 DEF Managed
<1>4. mask[obj[1]] = FreshMask \cup Held(obj[1])'
  BY <1>1, <1>3 DEF MaskShowsHeld, FreshMask
<1>5. Held(obj[1]) \subseteq Slot
  BY DEF Held
<1> QED  BY <1>2, <1>4, <1>5, MaskBitsAndSlots

\* A chunk that is returned leaves the others as they were.
LEMMA FreeLastExact ==
  ASSUME ExactInv, ChunkInv', MaskShowsHeld', HeldIsMapped', NEW obj \in live, FreeLast(obj)
  PROVE  ExactInv'
<1> DEFINE page == obj[1]
           c    == ChunkOf(page)
<1>1. /\ TypeOK /\ mapped \subseteq Chunk /\ empty \in Seq(Page) /\ NoRepeats(empty)
      /\ refcount \in [Page -> Nat]
  BY DEF ExactInv, ChunkInv, TypeOK, ListedInv
<1>2. page = (IF refcount[page] # 0 THEN page ELSE Boss(page))
  BY Zenon DEF FreeLast
<1>3. /\ Returned(obj) /\ mapped' = mapped \ {c}
      /\ empty' = RemoveFirst(RemoveFirst(empty, page), NextPage(page))
      /\ refcount' = [p \in Page |-> IF ChunkOf(p) = c THEN 0 ELSE refcount[p]]
  BY <1>2 DEF FreeLast, Forget
<1>4. /\ UsedInv' /\ \A p : p # page => Held(p)' = Held(p)
      /\ page \in Managed
  BY <1>3, ReturnedExact
<1>5. ChunkOf(NextPage(page)) = c
  BY DEF NextPage, ChunkOf
<1>6. /\ \A p : p \in Managed <=> p \in Usable /\ ChunkOf(p) \in mapped
      /\ \A p : p \in Managed' <=> p \in Usable /\ ChunkOf(p) \in mapped'
  BY <1>1, <1>3, UsablePages DEF Managed
<1>7. Range(empty') = Range(empty) \ {page, NextPage(page)}
  <2> DEFINE short == RemoveFirst(empty, page)
  <2>1. short \in Seq(Page) /\ NoRepeats(short) /\ Range(short) = Range(empty) \ {page}
    BY <1>1, RemoveList
  <2> HIDE DEF short
  <2>2. Range(RemoveFirst(short, NextPage(page))) = Range(short) \ {NextPage(page)}
    BY <2>1, RemoveList
  <2>3. empty' = RemoveFirst(short, NextPage(page))
    BY <1>3 DEF short
  <2> QED  BY <2>1, <2>2, <2>3
<1> HIDE DEF page, c
<1>8. EmptyInv'
  <2> SUFFICES ASSUME NEW p \in Managed'  PROVE p \in Range(empty') <=> Held(p)' = {}
    BY DEF EmptyInv
  <2>1. p \in Managed /\ ChunkOf(p) # c
    BY <1>3, <1>6
  <2>2. p # page /\ p # NextPage(page)
    BY <2>1, <1>5 DEF c
  <2> QED  BY <2>1, <2>2, <1>4, <1>7 DEF ExactInv, EmptyInv
<1>9. RefcountCountsPages'
  <2> SUFFICES ASSUME NEW d \in mapped, d # c
               PROVE  refcount'[<<d, 0>>] = Cardinality(HeldPages(d)')
    BY <1>3 DEF RefcountCountsPages, HeldPages
  <2>1. <<d, 0>> \in Page /\ ChunkOf(<<d, 0>>) = d
    BY <1>1, UsablePages
  <2>2. refcount'[<<d, 0>>] = refcount[<<d, 0>>]
    BY <2>1, <1>3
  <2>3. \A p : ChunkOf(p) = d => Held(p)' = Held(p) /\ (p \in Managed' <=> p \in Managed)
    BY <1>3, <1>4, <1>6 DEF c
  <2>4. HeldPages(d)' = HeldPages(d)
    BY <2>3 DEF HeldPages, ChunkOf
  <2>5. refcount[<<d, 0>>] = Cardinality(HeldPages(d))
    BY DEF ExactInv, RefcountCountsPages, HeldPages
  <2> QED  BY <2>2, <2>4, <2>5
<1> QED  BY <1>4, <1>8, <1>9 DEF ExactInv

\* Nothing is mapped and nothing is held.
LEMMA NothingExact ==
  ASSUME ChunkInv', MaskShowsHeld', HeldIsMapped', mapped' = {}, used' = 0
  PROVE  ExactInv'
<1>1. live' = {} /\ Managed' = {}
  BY DEF HeldIsMapped, Managed, PagesOf
<1>2. UsedInv'
  BY <1>1, FS_EmptySet DEF UsedInv, UsedCountsHeld
<1>3. EmptyInv' /\ RefcountCountsPages'
  BY <1>1 DEF EmptyInv, RefcountCountsPages
<1> QED  BY <1>2, <1>3 DEF ExactInv

LEMMA FaultKeepsExact ==
  ASSUME ExactInv, ChunkInv', MaskShowsHeld', HeldIsMapped',
         UNCHANGED <<open, mapped, empty, partial, full, mask, refcount, used, live, zeroed>>
  PROVE  ExactInv'
<1>1. Managed' = Managed /\ \A p : Held(p)' = Held(p)
  BY DEF Managed, Held, Slot
<1>2. \A c : HeldPages(c)' = HeldPages(c)
  BY <1>1 DEF HeldPages, ChunkOf
<1>3. UsedInv' /\ EmptyInv'
  BY <1>1 DEF ExactInv, UsedInv, UsedCountsHeld, EmptyInv
<1>4. RefcountCountsPages'
  BY <1>2 DEF ExactInv, RefcountCountsPages, HeldPages
<1> QED  BY <1>3, <1>4 DEF ExactInv

LEMMA NextKeepsExact ==
  ASSUME ExactInv, MaskShowsHeld', HeldIsMapped', [Next]_vars
  PROVE  ExactInv'
<1>0. ChunkInv'
  BY NextKeepsChunkInv DEF ExactInv
<1>1. CASE InitSlab
  <2>1. mapped' = {} /\ used' = 0
    BY <1>1 DEF InitSlab, ExactInv, ChunkInv, ExitReturnsAll
  <2> QED  BY <1>0, <2>1, NothingExact
<1>2. CASE Alloc
  BY <1>0, <1>2, AllocPartialExact, AllocEmptyExact, AllocChunkExact DEF Alloc
<1>3. CASE AllocRefused
  BY <1>0, <1>3, FaultKeepsExact DEF AllocRefused
<1>4. CASE Free
  <2>1. PICK obj \in live :
           \/ FreeUnmapped(obj) \/ FreeBusy(obj) \/ FreeLast(obj)
           \/ FreeLastOfSlave(obj) \/ FreeLastOfPage(obj) \/ FreePlain(obj)
    BY <1>4 DEF Free
  <2>2. CASE FreeUnmapped(obj)
    BY <2>2 DEF FreeUnmapped, ExactInv, HeldIsMapped
  <2>3. CASE FreeLastOfSlave(obj)
    BY <1>0, <2>3, FaultKeepsExact DEF FreeLastOfSlave
  <2> QED
    BY <1>0, <2>1, <2>2, <2>3, FreeBusyExact, FreeLastExact, FreeLastOfPageStale, FreePlainExact
<1>5. CASE Exit
  <2>1. mapped' = {} /\ used' = 0
    BY <1>5, ExitChunk DEF Exit, ExactInv
  <2> QED  BY <1>0, <2>1, NothingExact
<1>6. CASE ExitFaults
  BY <1>0, <1>6, FaultKeepsExact DEF ExitFaults
<1>7. CASE UNCHANGED vars
  BY <1>0, <1>7, FaultKeepsExact DEF vars
<1> QED  BY <1>1, <1>2, <1>3, <1>4, <1>5, <1>6, <1>7 DEF Next

LEMMA ExactIsExact ==
  ASSUME ExactInv
  PROVE  ListsSortByFill /\ RefcountCountsPages /\ UsedCountsHeld /\ TraverseReachesHeld
<1>1. /\ ListedInv /\ HeadersInv
      /\ NoRepeats(empty) /\ NoRepeats(partial) /\ NoRepeats(full)
      /\ Range(empty) \cap Range(partial) = {} /\ Range(empty) \cap Range(full) = {}
      /\ Range(partial) \cap Range(full) = {}
      /\ Range(empty) \cup Range(partial) \cup Range(full) = Managed
  BY DEF ExactInv, ChunkInv, ListedInv
<1>2. ASSUME NEW p \in Managed
      PROVE  /\ mask[p] = FreshMask \cup Held(p) /\ Held(p) \subseteq Slot
             /\ p \in Range(full) <=> Held(p) = Slot
             /\ p \in Range(empty) <=> Held(p) = {}
  <2>1. mask[p] = FreshMask \cup Held(p) /\ Held(p) \subseteq Slot
    BY DEF ExactInv, MaskShowsHeld, Held
  <2>2. p \in Range(full) <=> mask[p] = Busy
    BY <1>1 DEF HeadersInv
  <2>3. p \in Range(empty) <=> Held(p) = {}
    BY DEF ExactInv, EmptyInv
  <2> QED  BY <2>1, <2>2, <2>3, MaskBitsAndSlots
<1>3. ListsSortByFill
  <2>1. Range(full) = {p \in Managed : Held(p) = Slot}
    BY <1>1, <1>2
  <2>2. Range(empty) = {p \in Managed : Held(p) = {}}
    BY <1>1, <1>2
  <2>3. Range(partial) = Managed \ (Range(full) \cup Range(empty))
    BY <1>1
  <2> QED  BY <1>1, <2>1, <2>2, <2>3 DEF ListsSortByFill
<1>4. TraverseReachesHeld
  <2> SUFFICES ASSUME NEW o \in live  PROVE o \in Visited
    BY DEF TraverseReachesHeld
  <2>1. o[2] \in Slot /\ o = <<o[1], o[2]>> /\ o[1] \in Managed
    BY HeldPage DEF ExactInv, HeldIsMapped
  <2>2. o[2] \in Held(o[1]) /\ o[1] \notin Range(empty)
    BY <1>2, <2>1 DEF Held
  <2>3. o[2] \in mask[o[1]] /\ o[2] \in Bits
    BY <1>2, <2>1, <2>2, MaskBitsAndSlots
  <2> QED  BY <1>1, <2>1, <2>2, <2>3 DEF Visited
<1> QED  BY <1>3, <1>4 DEF ExactInv, UsedInv

\* ExactUntilStale: with chunks of any number of pages and whatever pointers the
\* client passes, the lists, the counts and the traversal are exact until an object
\* is freed whose bit stays 1.
THEOREM SlabExactUntilStale ==
  HistorySpec => []ExactUntilStale
<1> DEFINE Inv == pristine => ExactInv
<1>1. HistoryInit => Inv
  <2> SUFFICES ASSUME Init  PROVE ExactInv
    BY DEF HistoryInit
  <2>1. ChunkInv /\ MaskShowsHeld /\ HeldIsMapped /\ UsedInv
    BY InitHasChunkInv, InitHasInv DEF IInv
  <2>2. Managed = {}
    BY DEF Init, Managed, PagesOf
  <2>3. EmptyInv /\ RefcountCountsPages
    BY <2>2 DEF Init, EmptyInv, RefcountCountsPages
  <2> QED  BY <2>1, <2>3 DEF ExactInv
<1>2. Inv /\ [HistoryNext]_<<vars, pristine>> => Inv'
  <2> SUFFICES ASSUME Inv, [HistoryNext]_<<vars, pristine>>, pristine'
               PROVE  ExactInv'
    OBVIOUS
  <2>1. CASE HistoryNext
    <3>1. ExactInv /\ MaskShowsHeld' /\ HeldIsMapped' /\ Next
      BY <2>1 DEF HistoryNext
    <3> QED  BY <3>1, NextKeepsExact
  <2>2. CASE UNCHANGED <<vars, pristine>>
    <3>1. ExactInv /\ UNCHANGED vars
      BY <2>2
    <3>2. MaskShowsHeld' /\ HeldIsMapped'
      BY <3>1 DEF vars, ExactInv, MaskShowsHeld, Managed, Held, Slot, HeldIsMapped
    <3> QED  BY <3>1, <3>2, NextKeepsExact
  <2> QED  BY <2>1, <2>2
<1>3. Inv => ExactUntilStale
  BY ExactIsExact DEF ExactUntilStale
<1> QED  BY <1>1, <1>2, <1>3, PTL DEF HistorySpec

=============================================================================
