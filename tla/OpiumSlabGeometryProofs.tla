----------------------- MODULE OpiumSlabGeometryProofs -----------------------
(***************************************************************************)
(* The arithmetic of opium_slab_init and opium_slab_free is right for every *)
(* item size and every page address, as long as the sizes fit the width of *)
(* size_t (GeometryAssumption); and the arena gives a request of any size  *)
(* that opium_round_of_two can round a slot that holds it.                 *)
(***************************************************************************)
EXTENDS OpiumArena, FiniteSetTheorems, WellFoundedInduction, TLAPS

-----------------------------------------------------------------------------
(* Division.                                                                 *)

\* The quotient is the one number whose multiple is at most the dividend and
\* whose next multiple is above it.
LEMMA Quotient ==
  ASSUME NEW a \in Nat, NEW b \in Nat \ {0}
  PROVE  /\ a \div b \in Nat
         /\ (a \div b) * b <= a /\ a < (a \div b) * b + b
         /\ a % b = a - (a \div b) * b
OBVIOUS

LEMMA QuotientIs ==
  ASSUME NEW a \in Nat, NEW b \in Nat \ {0}, NEW q \in Nat, NEW r \in Nat,
         a = q * b + r, r < b
  PROVE  a \div b = q /\ a % b = r
OBVIOUS

-----------------------------------------------------------------------------
(* opium_slab_init.                                                          *)

\* The rounded size holds 64 slots and is less than twice what they need.
LEMMA RoundedSize ==
  ASSUME NEW size \in ItemSizes
  PROVE  /\ Slotted(size) \in Nat /\ Slotted(size) >= 2
         /\ Rounded(size) \in PowersOfTwo /\ Rounded(size) \in Nat
         /\ Wanted(size) = 40 + 64 * Slotted(size)
         /\ Wanted(size) <= Rounded(size) /\ Rounded(size) < 2 * Wanted(size)
         /\ Shrunk(size) \in PowersOfTwo /\ Shrunk(size) \in Nat
         /\ Rounded(size) = 2 * Shrunk(size)
<1>1. Slotted(size) \in Nat /\ Slotted(size) >= 2
  BY GeometryAssumption DEF Slotted, OPIUM_SLAB_SLOT_HEADER
<1>2. Rounded(size) \in PowersOfTwo /\ RoundsTo(Wanted(size), Rounded(size))
  BY GeometryAssumption DEF Rounded
<1>3. Wanted(size) = 40 + 64 * Slotted(size)
  BY DEF Wanted, data_offset, OPIUM_SLAB_PAGE_MAX
<1>7. Rounded(size) \in Nat
  BY <1>2, GeometryAssumption
<1>8. Wanted(size) <= Rounded(size) /\ Rounded(size) < 2 * Wanted(size)
  BY <1>2 DEF RoundsTo
<1>4. Rounded(size) \in Nat /\ Rounded(size) > 1
  BY <1>1, <1>3, <1>7, <1>8
<1>5. Shrunk(size) \in PowersOfTwo /\ Rounded(size) % 2 = 0
  BY <1>2, <1>4, GeometryAssumption DEF Shrunk
<1>6. Shrunk(size) \in Nat /\ Rounded(size) = 2 * Shrunk(size)
  <2> DEFINE r == Rounded(size)
  <2> HIDE DEF r
  <2>1. r \in Nat /\ r % 2 = 0
    BY <1>4, <1>5 DEF r
  <2>2. r \div 2 \in Nat /\ r = 2 * (r \div 2)
    BY <2>1
  <2> QED  BY <2>2 DEF r, Shrunk
<1> QED  BY <1>1, <1>2, <1>3, <1>4, <1>5, <1>6, <1>8

\* Half the page holds between 22 and 63 slots.
LEMMA ShrunkCount ==
  ASSUME NEW size \in ItemSizes
  PROVE  /\ Count(size) \in Nat /\ 2 <= Count(size) /\ Count(size) < 64
         /\ data_offset + Count(size) * Slotted(size) <= Shrunk(size)
         /\ data_offset < Shrunk(size)
         /\ Shrunk(size) - data_offset > Slotted(size) * OPIUM_SLAB_PAGE_MIN
<1> DEFINE n     == Slotted(size)
           half  == Shrunk(size)
           room  == half - 40
           count == Count(size)
<1>1. n \in Nat /\ n >= 2 /\ n # 0
  BY RoundedSize
<1>2. half \in Nat /\ half >= 20 + 32 * n /\ half < 40 + 64 * n
  BY <1>1, RoundedSize
<1>3. room \in Nat /\ room + 20 >= 32 * n /\ room < 64 * n
  BY <1>1, <1>2
<1>4. count = room \div n
  BY DEF Count, data_offset
<1> HIDE DEF n, room, count
<1>5. count \in Nat /\ count * n <= room /\ room < count * n + n
  BY <1>1, <1>3, <1>4, Quotient
<1>6. count < 64
  <2> SUFFICES ASSUME count >= 64  PROVE FALSE
    BY <1>5
  <2>1. count * n >= 64 * n
    BY <1>1, <1>5
  <2> QED  BY <2>1, <1>1, <1>3, <1>5
<1>7. count >= 2
  <2> SUFFICES ASSUME count <= 1  PROVE FALSE
    BY <1>5
  <2>1. count * n <= n
    BY <1>1, <1>5
  <2> QED  BY <2>1, <1>1, <1>3, <1>5
<1>8. 40 + count * n <= half /\ 40 < half /\ half - 40 > n * 8
  BY <1>1, <1>2, <1>5 DEF room
<1> QED
  BY <1>5, <1>6, <1>7, <1>8 DEF data_offset, OPIUM_SLAB_PAGE_MIN, n, count

\* The page is always halved: what 64 slots and the header of a page need,
\* 40 + 64 * n, is not a multiple of 64 and so no power of two.
LEMMA AlwaysShrinks ==
  ASSUME NEW size \in ItemSizes
  PROVE  Shrinks(size)
<1> DEFINE n == Slotted(size)
<1>1. n \in Nat /\ Rounded(size) \in Nat /\ 64 <= Rounded(size)
  BY RoundedSize
<1>2. Rounded(size) % 64 = 0
  BY <1>1, RoundedSize, GeometryAssumption DEF OPIUM_SLAB_PAGE_MAX
<1>3. (40 + 64 * n) % 64 = 40
  BY <1>1
<1>4. Rounded(size) # Wanted(size)
  BY <1>2, <1>3, RoundedSize
<1> QED  BY <1>4, ShrunkCount DEF Shrinks

-----------------------------------------------------------------------------
(* The invariant: the properties, and that the sizes of an initialised slab  *)
(* are what the division of addresses needs.                                 *)

GInv ==
  /\ TypeOK /\ SlotsFitPage /\ MaskHasSpareBit /\ ChunkIsWholePages
  /\ page_size # 0 => item_size >= 2

LEMMA SlabInitKeepsInv ==
  ASSUME NEW size \in ItemSizes, SlabInit(size)
  PROVE  GInv'
<1>1. /\ item_size' = Slotted(size) /\ page_size' = Shrunk(size)
      /\ item_count' = Count(size)
      /\ pages_per_alloc' = IF Shrunk(size) > 4096 THEN Shrunk(size) ELSE 4096
  BY AlwaysShrinks DEF SlabInit, OPIUM_SLAB_PAGE_SIZE
<1>2. /\ item_size' \in Nat /\ item_size' >= 2 /\ page_size' \in Nat /\ page_size' > 0
      /\ pages_per_alloc' \in Nat /\ page_size' \in PowersOfTwo
  BY <1>1, RoundedSize, ShrunkCount DEF data_offset
<1>3. TypeOK' /\ SlotsFitPage' /\ MaskHasSpareBit'
  BY <1>1, <1>2, ShrunkCount DEF TypeOK, SlotsFitPage, MaskHasSpareBit, OPIUM_SLAB_PAGE_MAX
<1>4. pages_per_alloc' % page_size' = 0
  <2> DEFINE half  == Shrunk(size)
             chunk == IF half > 4096 THEN half ELSE 4096
  <2>1. 4096 \in PowersOfTwo /\ half \in PowersOfTwo
    BY RoundedSize, GeometryAssumption DEF OPIUM_SLAB_PAGE_SIZE
  <2>2. half \in Nat /\ chunk \in PowersOfTwo /\ half <= chunk
    BY <2>1, RoundedSize
  <2> HIDE DEF half, chunk
  <2>3. chunk % half = 0
    BY <2>1, <2>2, GeometryAssumption
  <2>4. page_size' = half /\ pages_per_alloc' = chunk
    BY <1>1 DEF half, chunk
  <2> QED  BY <2>3, <2>4
<1>5. ChunkIsWholePages'
  BY <1>1, <1>2, <1>4 DEF ChunkIsWholePages, OPIUM_SLAB_PAGE_SIZE
<1> QED  BY <1>2, <1>3, <1>5 DEF GInv

LEMMA GeometryInvariant ==
  Spec => []GInv
<1>1. Init => GInv
  BY DEF Init, GInv, TypeOK, SlotsFitPage, MaskHasSpareBit, ChunkIsWholePages,
         OPIUM_SLAB_PAGE_MAX
<1>2. GInv /\ [Next]_vars => GInv'
  <2> SUFFICES ASSUME GInv, [Next]_vars  PROVE GInv'
    OBVIOUS
  <2>1. CASE \E size \in ItemSizes : SlabInit(size)
    BY <2>1, SlabInitKeepsInv
  <2>2. CASE SlabExit
    BY <2>2 DEF SlabExit, GInv, TypeOK, SlotsFitPage, MaskHasSpareBit, ChunkIsWholePages,
               OPIUM_SLAB_PAGE_MAX
  <2>3. CASE UNCHANGED vars
    BY <2>3 DEF vars, GInv, TypeOK, SlotsFitPage, MaskHasSpareBit, ChunkIsWholePages
  <2> QED  BY <2>1, <2>2, <2>3 DEF Next
<1> QED  BY <1>1, <1>2, PTL DEF Spec

-----------------------------------------------------------------------------
(* The theorems.                                                             *)

\* SlotsFitPage: the slots opium_slab_init plans lie within their page.
THEOREM GeometrySlotsFitPage ==
  Spec => []SlotsFitPage
<1>1. GInv => SlotsFitPage
  BY DEF GInv
<1> QED  BY <1>1, GeometryInvariant, PTL

\* MaskHasSpareBit: a page never has as many slots as a mask has bits, which is
\* what SlabAssumption of OpiumSlab rests on.
THEOREM GeometryMaskHasSpareBit ==
  Spec => []MaskHasSpareBit
<1>1. GInv => MaskHasSpareBit
  BY DEF GInv
<1> QED  BY <1>1, GeometryInvariant, PTL

\* ChunkIsWholePages: the pages of a chunk start at multiples of page_size.
THEOREM GeometryChunkIsWholePages ==
  Spec => []ChunkIsWholePages
<1>1. GInv => ChunkIsWholePages
  BY DEF GInv
<1> QED  BY <1>1, GeometryInvariant, PTL

\* The header of a slot of a page determines both.
LEMMA HeaderFindsSlot ==
  ASSUME GInv, page_size # 0, NEW number \in Nat, NEW index \in 0 .. item_count - 1
  PROVE  LET page     == number * page_size
             slot_ptr == opium_slab_slot(page, index) - OPIUM_SLAB_SLOT_HEADER
         IN  PageOf(slot_ptr) = page /\ SlotOf(slot_ptr) = index
<1> DEFINE page     == number * page_size
           slot_ptr == opium_slab_slot(page, index) - OPIUM_SLAB_SLOT_HEADER
           rest     == 40 + index * item_size
<1>1. /\ page_size \in Nat \ {0} /\ item_size \in Nat \ {0} /\ item_count \in Nat
      /\ 40 + item_count * item_size <= page_size
  BY DEF GInv, TypeOK, SlotsFitPage, data_offset
<1>2. index \in Nat /\ index + 1 <= item_count
  BY <1>1
<1>3. index * item_size + item_size <= item_count * item_size
  <2>1. (index + 1) * item_size <= item_count * item_size
    BY <1>1, <1>2
  <2> QED  BY <2>1, <1>1, <1>2
<1>4. rest \in Nat /\ rest < page_size /\ page \in Nat /\ index * item_size \in Nat
  BY <1>1, <1>2, <1>3
<1>5. slot_ptr = page + rest
  BY <1>4 DEF opium_slab_slot, data_offset, OPIUM_SLAB_SLOT_HEADER
<1> HIDE DEF slot_ptr, rest
<1>6. slot_ptr \in Nat /\ slot_ptr = number * page_size + rest
  BY <1>4, <1>5
<1>7. slot_ptr % page_size = rest
  BY <1>1, <1>4, <1>6, QuotientIs
<1>8. PageOf(slot_ptr) = page
  BY <1>4, <1>5, <1>7 DEF PageOf
<1>9. slot_ptr - (PageOf(slot_ptr) + data_offset) = index * item_size
  BY <1>4, <1>5, <1>8 DEF data_offset, rest
<1>10. (index * item_size) \div item_size = index
  <2>1. index * item_size = index * item_size + 0 /\ 0 < item_size
    BY <1>1, <1>4
  <2> QED  BY <2>1, <1>1, <1>2, <1>4, QuotientIs
<1> QED  BY <1>8, <1>9, <1>10 DEF SlotOf, slot_ptr

\* FreeFindsSlot: from the pointer alone opium_slab_free recovers the page and
\* the slot it was made from.
THEOREM GeometryFreeFindsSlot ==
  Spec => []FreeFindsSlot
<1>1. GInv => FreeFindsSlot
  BY HeaderFindsSlot DEF FreeFindsSlot
<1> QED  BY <1>1, GeometryInvariant, PTL

-----------------------------------------------------------------------------
(* Powers of two.                                                            *)

\* The subsets of 1 .. k + 1 are those of 1 .. k, without and with k + 1.
LEMMA TwoPower ==
  ASSUME NEW k \in Nat
  PROVE  2 ^ k \in Nat /\ 2 ^ k > 0 /\ 2 ^ (k + 1) = 2 * 2 ^ k
<1> DEFINE S == SUBSET (1 .. k)
           T == {A \cup {k + 1} : A \in S}
           f == [A \in S |-> A \cup {k + 1}]
<1>1. IsFiniteSet(1 .. k) /\ Cardinality(1 .. k) = k
  BY FS_Interval
<1>2. IsFiniteSet(1 .. k + 1) /\ Cardinality(1 .. k + 1) = k + 1
  BY FS_Interval
<1>3. IsFiniteSet(S) /\ Cardinality(S) = 2 ^ k
  BY <1>1, FS_SUBSET
<1>4. Cardinality(SUBSET (1 .. k + 1)) = 2 ^ (k + 1)
  BY <1>2, FS_SUBSET
<1>5. f \in Bijection(S, T)
  <2>1. \A A, B \in S : f[A] = f[B] => A = B
    <3> SUFFICES ASSUME NEW A \in S, NEW B \in S, A \cup {k + 1} = B \cup {k + 1}
                 PROVE  A = B
      OBVIOUS
    <3>1. k + 1 \notin 1 .. k
      OBVIOUS
    <3>2. k + 1 \notin A /\ k + 1 \notin B
      BY <3>1
    <3> QED  BY <3>2
  <2>2. f \in [S -> T] /\ \A t \in T : \E A \in S : f[A] = t
    OBVIOUS
  <2> QED  BY <2>1, <2>2 DEF Bijection, Injection, Surjection, IsInjective
<1>6. IsFiniteSet(T) /\ Cardinality(T) = Cardinality(S)
  <2>1. ExistsBijection(S, T)
    BY <1>5 DEF ExistsBijection
  <2> QED  BY <2>1, <1>3, FS_Bijection
<1>7. SUBSET (1 .. k + 1) = S \cup T
  <2>1. ASSUME NEW A \in SUBSET (1 .. k + 1)  PROVE A \in S \cup T
    <3>1. CASE k + 1 \notin A
      BY <3>1
    <3>2. CASE k + 1 \in A
      <4>1. A \ {k + 1} \in S /\ A = (A \ {k + 1}) \cup {k + 1}
        BY <3>2
      <4> QED  BY <4>1
    <3> QED  BY <3>1, <3>2
  <2>2. 1 .. k \subseteq 1 .. k + 1 /\ k + 1 \in 1 .. k + 1
    OBVIOUS
  <2>3. S \cup T \subseteq SUBSET (1 .. k + 1)
    BY <2>2
  <2> QED  BY <2>1, <2>3
<1>8. S \cap T = {}
  <2>1. k + 1 \notin 1 .. k
    OBVIOUS
  <2> QED  BY <2>1
<1> HIDE DEF S, T
<1>9. Cardinality(S \cup T) = Cardinality(S) + Cardinality(T) - Cardinality({})
  BY <1>3, <1>6, <1>8, FS_Union
<1>10. Cardinality({}) = 0 /\ Cardinality(S) \in Nat
  BY <1>3, FS_EmptySet, FS_CardinalityType
<1>11. Cardinality(S) # 0
  <2>1. {} \in S
    BY DEF S
  <2> QED  BY <2>1, <1>3, FS_EmptySet
<1>12. Cardinality(S \cup T) = 2 * Cardinality(S)
  BY <1>6, <1>9, <1>10
<1>13. 2 ^ (k + 1) = 2 * 2 ^ k
  BY <1>3, <1>4, <1>7, <1>12
<1>14. 2 ^ k \in Nat /\ 2 ^ k > 0
  BY <1>3, <1>10, <1>11
<1> QED  BY <1>13, <1>14

\* A set of naturals that is not empty has a lowest element.
LEMMA LowestOf ==
  ASSUME NEW S \in SUBSET Nat, S # {}
  PROVE  \E m \in S : \A q \in S : m <= q
<1> DEFINE R == {ss \in Nat \X Nat : ss[1] < ss[2]}
<1>1. IsWellFoundedOn(R, Nat)
  BY NatLessThanWellFounded DEF OpToRel
<1>2. PICK m \in S : \A q \in S : ~(<<q, m>> \in R)
  BY <1>1, WFMin
<1>3. ASSUME NEW q \in S  PROVE m <= q
  <2>1. ~(<<q, m>> \in {ss \in Nat \X Nat : ss[1] < ss[2]})
    BY <1>2
  <2>2. q \in Nat /\ m \in Nat
    OBVIOUS
  <2> QED  BY <2>1, <2>2
<1> QED  BY <1>3

LEMMA TwoPowerMonotone ==
  ASSUME NEW j \in Nat, NEW k \in Nat, j <= k
  PROVE  2 ^ j <= 2 ^ k
<1> DEFINE Below == {n \in Nat : j <= n /\ ~(2 ^ j <= 2 ^ n)}
<1> SUFFICES ASSUME Below # {}  PROVE FALSE
  OBVIOUS
<1>1. PICK m \in Below : \A q \in Below : m <= q
  BY LowestOf
<1>2. 2 ^ j \in Nat /\ m # j /\ m \in Nat /\ j <= m
  BY <1>1, TwoPower
<1>3. m - 1 \in Nat /\ j <= m - 1 /\ m - 1 \notin Below
  BY <1>1, <1>2
<1>4. 2 ^ j <= 2 ^ (m - 1)
  BY <1>3
<1>5. 2 ^ (m - 1) \in Nat /\ 2 ^ (m - 1 + 1) = 2 * 2 ^ (m - 1)
  BY <1>3, TwoPower
<1>6. m - 1 + 1 = m
  BY <1>2
<1>7. 2 ^ j <= 2 ^ m
  BY <1>2, <1>4, <1>5, <1>6
<1> QED  BY <1>1, <1>7

-----------------------------------------------------------------------------
(* opium_round_of_two and opium_log2.                                        *)

\* x has the bits up to its highest one, in the 64 of a size_t.
LEMMA BitsOf ==
  ASSUME NEW x \in Nat, x > 0, NEW n \in 1 .. 64, x < 2 ^ n
  PROVE  LET k == SignificantBits(x)
         IN  k \in 1 .. n /\ 2 ^ (k - 1) <= x /\ x < 2 ^ k
<1> DEFINE Above == {k \in Nat : x < 2 ^ k}
<1>1. n \in Above
  OBVIOUS
<1>2. PICK m \in Above : \A q \in Above : m <= q
  BY <1>1, LowestOf
<1>3. 2 ^ 0 = 1 /\ m \in Nat /\ x < 2 ^ m /\ m <= n
  BY <1>1, <1>2
<1>4. m # 0
  <2>1. SUFFICES ASSUME m = 0  PROVE FALSE
    OBVIOUS
  <2>2. x < 1
    BY <2>1, <1>3
  <2> QED  BY <2>2
<1>5. m - 1 \in Nat /\ m - 1 \notin Above /\ 2 ^ (m - 1) \in Nat
  BY <1>2, <1>3, <1>4, TwoPower
<1>6. m \in 1 .. 64 /\ 2 ^ (m - 1) <= x /\ x < 2 ^ m
  BY <1>3, <1>4, <1>5
<1> DEFINE k == SignificantBits(x)
<1>7. k \in 1 .. 64 /\ 2 ^ (k - 1) <= x /\ x < 2 ^ k
  BY <1>6 DEF SignificantBits
<1> HIDE DEF k
<1>8. k <= n
  <2>1. SUFFICES ASSUME n <= k - 1  PROVE FALSE
    BY <1>7
  <2>2. k - 1 \in Nat /\ n \in Nat
    BY <1>7
  <2>3. 2 ^ n <= 2 ^ (k - 1)
    BY <2>1, <2>2, TwoPowerMonotone
  <2>4. 2 ^ n \in Nat /\ 2 ^ (k - 1) \in Nat
    BY <2>2, TwoPower
  <2> QED  BY <2>3, <2>4, <1>7
<1> QED  BY <1>7, <1>8 DEF k

\* A power of two has one bit more than its exponent.
LEMMA BitsOfPower ==
  ASSUME NEW c \in 0 .. 63
  PROVE  SignificantBits(2 ^ c) = c + 1
<1> DEFINE k == SignificantBits(2 ^ c)
<1>1. /\ c \in Nat /\ c + 1 \in 1 .. 64
      /\ 2 ^ c \in Nat /\ 2 ^ c > 0 /\ 2 ^ (c + 1) = 2 * 2 ^ c
  BY TwoPower
<1>2. 2 ^ c < 2 ^ (c + 1)
  BY <1>1
<1>3. k \in 1 .. c + 1 /\ 2 ^ c < 2 ^ k
  BY <1>1, <1>2, BitsOf
<1> HIDE DEF k
<1>4. c < k
  <2>1. SUFFICES ASSUME k <= c  PROVE FALSE
    BY <1>1, <1>3
  <2>2. k \in Nat
    BY <1>3
  <2>3. 2 ^ k <= 2 ^ c /\ 2 ^ k \in Nat
    BY <2>1, <2>2, <1>1, TwoPowerMonotone, TwoPower
  <2> QED  BY <2>3, <1>1, <1>3
<1>5. k = c + 1
  BY <1>1, <1>3, <1>4
<1> QED  BY <1>5 DEF k

\* opium_round_of_two rounds what has at most this many bits: it would shift 1 by
\* 64 for more.
RoundedBits == 63

\* The size is rounded to a power of two, that of the slab of its index.
LEMMA RequestRounded ==
  ASSUME NEW size \in Nat, size > 1, size <= 2 ^ RoundedBits
  PROVE  \E b \in 1 .. 63, c \in 4 .. 63 :
           /\ 2 ^ (b - 1) < size /\ size <= 2 ^ b /\ 2 ^ b < 2 * size
           /\ c = IF b < 4 THEN 4 ELSE b
           /\ Index(size) = c - 4 /\ SlabBytes(Index(size)) = 2 ^ c
<1> DEFINE x == size - 1
           b == SignificantBits(x)
           s == OPIUM_ARENA_MIN_SHIFT
           c == IF b < s THEN s ELSE b
<1>1. /\ x \in Nat /\ x > 0 /\ x + 1 = size
      /\ RoundedBits \in 1 .. 64 /\ 2 ^ RoundedBits \in Nat
  <2>1. RoundedBits \in Nat /\ RoundedBits \in 1 .. 64
    BY DEF RoundedBits
  <2>2. 2 ^ RoundedBits \in Nat
    BY <2>1, TwoPower
  <2> QED  BY <2>1, <2>2
<1>2. x < 2 ^ RoundedBits
  BY <1>1
<1> HIDE DEF x
<1>3. b \in 1 .. 63 /\ 2 ^ (b - 1) <= x /\ x < 2 ^ b
  <2>1. b \in 1 .. RoundedBits /\ 2 ^ (b - 1) <= x /\ x < 2 ^ b
    BY <1>1, <1>2, BitsOf
  <2> QED  BY <2>1 DEF RoundedBits
<1>4. opium_round_of_two(size) = 2 ^ b
  BY DEF opium_round_of_two, x
<1> HIDE DEF b
<1>5. /\ b \in Nat /\ b - 1 \in Nat /\ b - 1 + 1 = b
      /\ c \in 4 .. 63 /\ c \in Nat /\ c \in 0 .. 63
      /\ c = IF b < 4 THEN 4 ELSE b
      /\ s \in Nat
  BY <1>3 DEF OPIUM_ARENA_MIN_SHIFT
<1> HIDE DEF s
<1>6. 2 ^ (b - 1) \in Nat /\ 2 ^ (b - 1 + 1) = 2 * 2 ^ (b - 1)
  BY <1>5, TwoPower
<1>7. 2 ^ b \in Nat /\ 2 ^ b = 2 * 2 ^ (b - 1)
  BY <1>5, <1>6
<1>8. 2 ^ (b - 1) < size /\ size <= 2 ^ b /\ 2 ^ b < 2 * size
  BY <1>1, <1>3, <1>6, <1>7
<1>9. RoundSize(size) = 2 ^ c
  <2>1. RoundSize(size) = IF 2 ^ b < 2 ^ s THEN 2 ^ s ELSE 2 ^ b
    BY <1>4 DEF RoundSize, min_size, s
  <2>2. 2 ^ s \in Nat
    BY <1>5, TwoPower
  <2>3. CASE b < s
    <3>1. b <= s /\ c = s
      BY <2>3, <1>5
    <3>2. 2 ^ b <= 2 ^ s
      BY <3>1, <1>5, TwoPowerMonotone
    <3>3. RoundSize(size) = 2 ^ s
      BY <3>2, <2>1, <2>2, <1>7
    <3> QED  BY <3>1, <3>3
  <2>4. CASE ~(b < s)
    <3>1. s <= b /\ c = b
      BY <2>4, <1>5
    <3>2. 2 ^ s <= 2 ^ b
      BY <3>1, <1>5, TwoPowerMonotone
    <3>3. RoundSize(size) = 2 ^ b
      BY <3>2, <2>1, <2>2, <1>7
    <3> QED  BY <3>1, <3>3
  <2> QED  BY <2>3, <2>4
<1>10. SignificantBits(2 ^ c) = c + 1
  BY <1>5, BitsOfPower
<1> HIDE DEF c
<1>11. Index(size) = c + 1 - 1 - 4
  <2>1. opium_log2(RoundSize(size)) = c + 1 - 1
    BY <1>5, <1>9, <1>10 DEF opium_log2
  <2> QED  BY <1>5, <2>1 DEF Index, OPIUM_ARENA_MIN_SHIFT
<1>12. Index(size) = c - 4 /\ 4 + (c - 4) = c
  BY <1>11, <1>5
<1>13. SlabBytes(Index(size)) = 2 ^ c
  BY <1>12 DEF SlabBytes, OPIUM_ARENA_MIN_SHIFT
<1> QED  BY <1>3, <1>5, <1>8, <1>12, <1>13 DEF c

CanBeRounded == \A size \in Requests : size <= 2 ^ RoundedBits

\* RequestFitsSlot: the slot of a request holds it, and no smaller slab of the arena
\* would do; a request of up to 64 KiB has an index of the arena.
THEOREM ArenaRequestFitsSlot ==
  ASSUME CanBeRounded
  PROVE  Spec => []RequestFitsSlot
<1>1. RequestFitsSlot
  <2> SUFFICES ASSUME NEW size \in Requests
               PROVE  /\ size <= SlabBytes(shift_count - 1) =>
                           Index(size) \in 0 .. shift_count - 1
                      /\ IsSlab(Index(size)) =>
                           /\ size + OPIUM_SLAB_SLOT_HEADER <= item_size
                           /\ Index(size) > 0 => 2 * size > SlabBytes(Index(size))
    BY DEF RequestFitsSlot
  <2>1. size \in Nat /\ size > 1 /\ size <= 2 ^ RoundedBits
    BY ArenaAssumption DEF CanBeRounded
  <2>2. PICK b \in 1 .. 63, c \in 4 .. 63 :
           /\ 2 ^ (b - 1) < size /\ size <= 2 ^ b /\ 2 ^ b < 2 * size
           /\ c = IF b < 4 THEN 4 ELSE b
           /\ Index(size) = c - 4 /\ SlabBytes(Index(size)) = 2 ^ c
    BY <2>1, RequestRounded
  <2>3. /\ b \in Nat /\ c \in Nat /\ b <= c /\ b - 1 \in Nat
        /\ 2 ^ b \in Nat /\ 2 ^ c \in Nat /\ 2 ^ (b - 1) \in Nat
    <3>1. b \in Nat /\ c \in Nat /\ b <= c /\ b - 1 \in Nat
      BY <2>2
    <3> QED  BY <3>1, TwoPower
  <2>4. size <= 2 ^ c
    <3>1. 2 ^ b <= 2 ^ c
      BY <2>3, TwoPowerMonotone
    <3> QED  BY <3>1, <2>1, <2>2, <2>3
  <2>5. ASSUME size <= SlabBytes(shift_count - 1)
        PROVE  Index(size) \in 0 .. shift_count - 1
    <3>1. shift_count - 1 = 12 /\ 4 + (shift_count - 1) = 16
      BY DEF shift_count, OPIUM_ARENA_MAX_SHIFT, OPIUM_ARENA_MIN_SHIFT
    <3>2. size <= 2 ^ 16
      BY <2>5, <3>1 DEF SlabBytes, OPIUM_ARENA_MIN_SHIFT
    <3>3. b <= 16
      <4>1. SUFFICES ASSUME 16 <= b - 1  PROVE FALSE
        BY <2>3
      <4>2. 2 ^ 16 <= 2 ^ (b - 1) /\ 2 ^ 16 \in Nat
        BY <4>1, <2>3, TwoPowerMonotone, TwoPower
      <4> QED  BY <4>2, <3>2, <2>1, <2>2, <2>3
    <3>4. c <= 16
      BY <2>2, <3>3
    <3> QED  BY <2>2, <3>1, <3>4
  <2>6. ASSUME IsSlab(Index(size))
        PROVE  /\ size + OPIUM_SLAB_SLOT_HEADER <= item_size
               /\ Index(size) > 0 => 2 * size > SlabBytes(Index(size))
    <3>1. item_size = 2 ^ c + 1
      BY <2>2, <2>6 DEF IsSlab, Slotted, OPIUM_SLAB_SLOT_HEADER
    <3>2. size + OPIUM_SLAB_SLOT_HEADER <= item_size
      BY <3>1, <2>1, <2>3, <2>4 DEF OPIUM_SLAB_SLOT_HEADER
    <3>3. ASSUME Index(size) > 0  PROVE 2 * size > SlabBytes(Index(size))
      <4>1. b = c
        BY <3>3, <2>2
      <4> QED  BY <4>1, <2>1, <2>2, <2>3
    <3> QED  BY <3>2, <3>3
  <2> QED  BY <2>5, <2>6
<1> QED  BY <1>1, PTL

=============================================================================
