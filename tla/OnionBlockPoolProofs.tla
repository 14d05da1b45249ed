------------------------ MODULE OnionBlockPoolProofs -------------------------
(***************************************************************************)
(* The block pool, for every width of a frame and a byte and pools of any  *)
(* size: a block has one holder at a time, the counters tell what is held, *)
(* a pool serves as many blocks as it was made for, the walk of the timer  *)
(* finds the blocks in use, and onion_ffgb finds the first run of bits.    *)
(***************************************************************************)
EXTENDS OnionBlockPool, FiniteSetTheorems, WellFoundedInduction, TLAPS

-----------------------------------------------------------------------------
(* The searches.                                                             *)

\* A set of naturals that is not empty has a lowest element.
LEMMA LowestIs ==
  ASSUME NEW S \in SUBSET Nat, S # {}
  PROVE  Lowest(S) \in S /\ \A q \in S : Lowest(S) <= q
<1> DEFINE R == {ss \in Nat \X Nat : ss[1] < ss[2]}
<1>1. IsWellFoundedOn(R, Nat)
  BY NatLessThanWellFounded DEF OpToRel
<1>2. PICK m \in S : \A q \in S : ~(<<q, m>> \in R)
  BY <1>1, WFMin
<1>3. ASSUME NEW q \in S  PROVE m <= q
  <2>1. ~(<<q, m>> \in {ss \in Nat \X Nat : ss[1] < ss[2]})
    BY <1>2
  <2>2. q \in Nat /\ m \in Nat
    OBVIOUS
  <2> QED  BY <2>1, <2>2
<1> QED  BY <1>3 DEF Lowest

\* onion_ffb looks at the offsets below some bound.
LEMMA ScannedIs ==
  ASSUME NEW size \in Nat
  PROVE  \E k \in Int : Scanned(size) = {p \in Int : 0 <= p /\ p < k}
<1> DEFINE frames == (conv_size(size) + Frame - 1) \div Frame
<1>1. frames \in Int
  BY FrameAssumption DEF conv_size
<1>2. Frame * frames \in Int
  BY <1>1, FrameAssumption
<1> HIDE DEF frames
<1>3. 0 .. Frame * frames - 1 = {p \in Int : 0 <= p /\ p < Frame * frames}
  BY <1>2
<1> QED  BY <1>2, <1>3 DEF Scanned, frames

\* onion_bitmask_add sets the lowest offset whose bit is 0 ...
LEMMA AddLowest ==
  ASSUME NEW bits, NEW size \in Nat, NEW c \in Scanned(size), c <= size, c \notin bits,
         \A q \in 0 .. c - 1 : q \in bits
  PROVE  onion_bitmask_add(bits, size, 1) = bits \cup {c}
<1> DEFINE zeros == {p \in Scanned(size) : p >= 0 /\ (p \in bits <=> 0 = 1)}
<1>0. PICK k \in Int : Scanned(size) = {p \in Int : 0 <= p /\ p < k}
  BY ScannedIs
<1>1. zeros \in SUBSET Nat /\ c \in zeros /\ \A p \in zeros : c <= p
  BY <1>0
<1>2. Lowest(zeros) = c
  <2>1. Lowest(zeros) \in zeros /\ Lowest(zeros) <= c
    BY <1>1, LowestIs
  <2>2. c <= Lowest(zeros) /\ Lowest(zeros) \in Nat /\ c \in Nat
    BY <2>1, <1>1
  <2> QED  BY <2>1, <2>2
<1>3. onion_ffb(bits, size, 0, 0) =
        IF zeros = {} \/ Lowest(zeros) > size THEN -1 ELSE Lowest(zeros)
  BY DEF onion_ffb
<1> HIDE DEF zeros
<1>4. c \in Nat /\ ~(zeros = {} \/ c > size)
  BY <1>0, <1>1
<1>5. onion_ffb(bits, size, 0, 0) = c
  BY <1>2, <1>3, <1>4
<1>6. c # -1 /\ c .. c + 1 - 1 = {c}
  BY <1>4
<1> QED  BY <1>5, <1>6 DEF onion_bitmask_add

\* ... and nothing when all those it looks at are 1.
LEMMA AddNone ==
  ASSUME NEW bits, NEW size \in Nat, \A p \in Scanned(size) : p \in bits
  PROVE  onion_bitmask_add(bits, size, 1) = bits
<1> DEFINE zeros == {p \in Scanned(size) : p >= 0 /\ (p \in bits <=> 0 = 1)}
<1>1. zeros = {}
  OBVIOUS
<1>2. onion_ffb(bits, size, 0, 0) =
        IF zeros = {} \/ Lowest(zeros) > size THEN -1 ELSE Lowest(zeros)
  BY DEF onion_ffb
<1> HIDE DEF zeros
<1> QED  BY <1>1, <1>2 DEF onion_bitmask_add

LEMMA AddIsOffsets ==
  ASSUME NEW bits \in SUBSET Int, NEW size \in Nat
  PROVE  onion_bitmask_add(bits, size, 1) \subseteq Int
<1> DEFINE zeros == {p \in Scanned(size) : p >= 0 /\ (p \in bits <=> 0 = 1)}
           start == onion_ffb(bits, size, 0, 0)
<1>1. zeros \in SUBSET Nat
  BY ScannedIs
<1>2. start = IF zeros = {} \/ Lowest(zeros) > size THEN -1 ELSE Lowest(zeros)
  BY DEF onion_ffb
<1>4. onion_bitmask_add(bits, size, 1) = IF start = -1 THEN bits ELSE bits \cup (start .. start + 1 - 1)
  BY DEF onion_bitmask_add
<1> HIDE DEF zeros, start
<1>3. start \in Int
  <2>1. CASE zeros = {}
    BY <1>2, <2>1
  <2>2. CASE zeros # {}
    <3>1. Lowest(zeros) \in Nat
      BY <1>1, <2>2, LowestIs
    <3> QED  BY <3>1, <1>2
  <2> QED  BY <2>1, <2>2
<1>5. start .. start + 1 - 1 \subseteq Int
  BY <1>3
<1> QED  BY <1>4, <1>5

\* A pool has at least the blocks it was asked for.
LEMMA BlockMaxServes ==
  ASSUME NEW n \in Request, NEW size \in BlockSize
  PROVE  BlockMax(n, size) \in Nat /\ n <= BlockMax(n, size)
<1> DEFINE bytes == round_size_pow2(n * size)
<1>1. n \in Nat /\ size \in Nat \ {0} /\ Power \subseteq Nat
  BY PoolAssumption
<1>2. bytes \in Nat /\ n * size <= bytes
  <2> DEFINE enough == {p \in Power : n * size <= p}
  <2>1. enough \in SUBSET Nat /\ enough # {}
    BY <1>1, PoolAssumption
  <2>2. Lowest(enough) \in enough
    BY <2>1, LowestIs
  <2> QED  BY <2>2, <1>1 DEF round_size_pow2
<1> HIDE DEF bytes
<1>3. bytes \div size \in Nat /\ bytes < (bytes \div size) * size + size
  BY <1>1, <1>2
<1> DEFINE q == bytes \div size
<1>4. q \in Nat /\ n * size < (q + 1) * size
  BY <1>1, <1>2, <1>3
<1> HIDE DEF q
<1>5. ~(q + 1 <= n)
  <2> SUFFICES ASSUME q + 1 <= n  PROVE FALSE
    OBVIOUS
  <2>1. (q + 1) * size <= n * size
    BY <1>1, <1>4
  <2> QED  BY <2>1, <1>4, <1>1
<1> QED  BY <1>1, <1>4, <1>5 DEF q, bytes, BlockMax

-----------------------------------------------------------------------------
(* The invariant.                                                            *)

\* bitmask and bitmap choose the same offset as long as they agree on the
\* offsets that onion_ffb looks at.
PInv ==
  /\ TypeOK
  /\ BitmapShowsHeld
  /\ CountsShowHeld
  /\ up => asked <= block_max
  /\ ~up => held = {}
  /\ up /\ garbage = {} => mask \cap Scanned(block_max) = held \cap Scanned(block_max)

LEMMA BlocksAreFinite ==
  ASSUME NEW max \in Nat, NEW S \in SUBSET BlocksOf(max)
  PROVE  /\ IsFiniteSet(S) /\ Cardinality(S) \in Nat /\ Cardinality(S) <= max
         /\ Cardinality(S) = max => S = BlocksOf(max)
<1>1. IsFiniteSet(0 .. max - 1) /\ Cardinality(0 .. max - 1) = max
  BY FS_Interval
<1> QED  BY <1>1, FS_Subset, FS_CardinalityType DEF BlocksOf

LEMMA PInit == Init => PInv
<1> SUFFICES ASSUME Init  PROVE PInv
  OBVIOUS
<1>1. TypeOK
  BY DEF Init, TypeOK
<1>2. up = FALSE /\ held = {}
  BY DEF Init
<1> QED  BY <1>1, <1>2 DEF PInv, BitmapShowsHeld, CountsShowHeld

LEMMA InitPoolKeeps ==
  ASSUME PInv, NEW n \in Request, NEW size \in BlockSize, InitPool(n, size)
  PROVE  PInv'
<1>1. block_max' \in Nat /\ asked' \in Nat /\ asked' <= block_max'
  BY BlockMaxServes, PoolAssumption DEF InitPool
<1>2. held' = {} /\ mask' = {} /\ bitmap' = garbage' /\ garbage' \subseteq BlocksOf(block_max')
  BY DEF InitPool, PInv
<1>3. TypeOK'
  BY <1>1, <1>2 DEF InitPool, PInv, TypeOK
<1>4. BitmapShowsHeld' /\ CountsShowHeld'
  BY <1>1, <1>2, FS_EmptySet DEF InitPool, BitmapShowsHeld, CountsShowHeld
<1>5. up'
  BY DEF InitPool
<1>6. mask' \cap Scanned(block_max') = held' \cap Scanned(block_max')
  BY <1>2
<1> QED  BY <1>1, <1>3, <1>4, <1>5, <1>6 DEF PInv

LEMMA AllocBlockKeeps ==
  ASSUME PInv, AllocBlock
  PROVE  PInv'
<1> DEFINE c == Chosen
<1>1. /\ up /\ block_max \in Nat /\ block_free \in Nat /\ block_count \in Nat
      /\ held \subseteq BlocksOf(block_max) /\ bitmap = held \cup garbage /\ held \cap garbage = {}
  BY DEF PInv, TypeOK, BitmapShowsHeld, AllocBlock
<1>2. c \in Clear /\ \A q \in Clear : c <= q
  <2>1. Clear \in SUBSET Nat /\ Clear # {}
    BY <1>1 DEF Clear, BlocksOf, AllocBlock
  <2> QED  BY <2>1, LowestIs DEF Chosen
<1> HIDE DEF c
<1>3. c \in Nat /\ c < block_max /\ c \in BlocksOf(block_max) /\ c \notin bitmap
  BY <1>1, <1>2 DEF Clear, BlocksOf
<1>4. /\ held' = held \cup {c} /\ bitmap' = bitmap \cup {c}
      /\ block_free' = block_free - 1 /\ block_count' = block_count + 1
      /\ mask' = onion_bitmask_add(mask, block_max, 1)
      /\ up' = up /\ asked' = asked /\ block_max' = block_max /\ garbage' = garbage /\ fault' = fault
  BY DEF AllocBlock, c
<1>5. /\ Cardinality(held') = Cardinality(held) + 1 /\ Cardinality(held') <= block_max
      /\ Cardinality(held) \in Nat
  <2>1. IsFiniteSet(held) /\ Cardinality(held) \in Nat
    BY <1>1, BlocksAreFinite
  <2>2. Cardinality(held \cup {c}) = Cardinality(held) + 1
    BY <2>1, <1>1, <1>3, FS_AddElement
  <2>3. held \cup {c} \in SUBSET BlocksOf(block_max)
    BY <1>1, <1>3
  <2> QED  BY <2>1, <2>2, <2>3, <1>1, <1>4, BlocksAreFinite
<1>6. CountsShowHeld' /\ block_free' \in Nat /\ block_count' \in Nat
  BY <1>1, <1>4, <1>5 DEF PInv, CountsShowHeld
<1>7. BitmapShowsHeld'
  BY <1>1, <1>3, <1>4 DEF BitmapShowsHeld
<1>8. mask' \subseteq Int
  BY <1>1, <1>4, AddIsOffsets DEF PInv, TypeOK
<1>9. TypeOK'
  BY <1>1, <1>3, <1>4, <1>6, <1>8 DEF PInv, TypeOK
<1>10. ASSUME garbage' = {}
       PROVE  mask' \cap Scanned(block_max') = held' \cap Scanned(block_max')
  <2>1. mask \cap Scanned(block_max) = held \cap Scanned(block_max) /\ bitmap = held
    BY <1>1, <1>4, <1>10 DEF PInv
  <2>0. PICK k \in Int : Scanned(block_max) = {p \in Int : 0 <= p /\ p < k}
    BY <1>1, ScannedIs
  <2>2. \A q \in 0 .. c - 1 : q \in held
    BY <1>1, <1>2, <1>3, <2>1 DEF Clear, BlocksOf
  <2>3. CASE c \in Scanned(block_max)
    <3>1. \A q \in 0 .. c - 1 : q \in Scanned(block_max)
      BY <2>0, <2>3
    <3>2. \A q \in 0 .. c - 1 : q \in mask
      BY <3>1, <2>1, <2>2
    <3>3. c \notin mask
      BY <2>1, <2>3, <1>3
    <3>4. mask' = mask \cup {c}
      BY <1>1, <1>3, <1>4, <2>3, <3>2, <3>3, AddLowest
    <3> QED  BY <3>4, <2>1, <1>4
  <2>4. CASE c \notin Scanned(block_max)
    <3>1. mask' = mask
      <4>1. ASSUME NEW p \in Scanned(block_max)  PROVE p \in mask
        <5>1. p \in 0 .. c - 1
          BY <2>0, <2>4, <1>3
        <5> QED  BY <5>1, <2>1, <2>2
      <4> QED  BY <4>1, <1>1, <1>4, AddNone
    <3> QED  BY <3>1, <2>1, <2>4, <1>4
  <2> QED  BY <2>3, <2>4
<1> QED  BY <1>1, <1>4, <1>6, <1>7, <1>9, <1>10 DEF PInv

LEMMA FreeKeeps ==
  ASSUME PInv, NEW b \in held, Free(b)
  PROVE  PInv'
<1>1. /\ up /\ block_max \in Nat /\ block_free \in Nat /\ block_count \in Nat
      /\ held \subseteq BlocksOf(block_max) /\ bitmap = held \cup garbage /\ held \cap garbage = {}
      /\ mask \subseteq Int /\ b \in Int
  BY DEF PInv, TypeOK, BitmapShowsHeld, Free, BlocksOf
<1>2. /\ held' = held \ {b} /\ bitmap' = bitmap \ {b}
      /\ mask' = onion_bitmask_del(mask, b, 1)
      /\ block_free' = block_free + 1 /\ block_count' = block_count - 1
      /\ up' = up /\ asked' = asked /\ block_max' = block_max /\ garbage' = garbage /\ fault' = fault
  BY DEF Free
<1>3. Cardinality(held') = Cardinality(held) - 1 /\ Cardinality(held) \in Nat /\ Cardinality(held') \in Nat
  <2>1. IsFiniteSet(held) /\ Cardinality(held) \in Nat
    BY <1>1, BlocksAreFinite
  <2>2. held \ {b} \in SUBSET BlocksOf(block_max)
    BY <1>1
  <2>3. Cardinality(held \ {b}) \in Nat
    BY <2>2, <1>1, BlocksAreFinite
  <2>4. Cardinality(held \ {b}) = Cardinality(held) - 1
    BY <2>1, FS_RemoveElement
  <2> QED  BY <2>1, <2>3, <2>4, <1>2
<1>4. CountsShowHeld' /\ block_free' \in Nat /\ block_count' \in Nat
  BY <1>1, <1>2, <1>3 DEF PInv, CountsShowHeld
<1>5. BitmapShowsHeld'
  BY <1>1, <1>2 DEF BitmapShowsHeld
<1>6. mask' = mask \ {b}
  <2>1. b .. b + 1 - 1 = {b}
    BY <1>1
  <2> QED  BY <2>1, <1>2 DEF onion_bitmask_del
<1>7. TypeOK'
  BY <1>1, <1>2, <1>4, <1>6 DEF PInv, TypeOK
<1>8. garbage' = {} => mask' \cap Scanned(block_max') = held' \cap Scanned(block_max')
  BY <1>1, <1>2, <1>6 DEF PInv
<1> QED  BY <1>1, <1>2, <1>4, <1>5, <1>7, <1>8 DEF PInv

LEMMA ExitKeeps ==
  ASSUME PInv, Exit
  PROVE  PInv'
<1>1. TypeOK'
  BY DEF PInv, TypeOK, Exit
<1>2. up' = FALSE /\ held' = {}
  BY DEF Exit
<1> QED  BY <1>1, <1>2 DEF PInv, BitmapShowsHeld, CountsShowHeld

\* A bitmap without a 0 stands for a pool all of whose blocks are held or were
\* marked from the start: then only bitmask changes.
LEMMA AllocMissesKeeps ==
  ASSUME PInv, AllocMisses
  PROVE  PInv'
<1>1. /\ up /\ block_max \in Nat /\ mask' = onion_bitmask_add(mask, block_max, 1)
      /\ mask \subseteq Int /\ block_free > 0 /\ Clear = {}
      /\ held \subseteq BlocksOf(block_max) /\ bitmap = held \cup garbage
      /\ bitmap \subseteq BlocksOf(block_max)
  BY DEF PInv, TypeOK, BitmapShowsHeld, AllocMisses
<1>2. mask' \subseteq Int
  BY <1>1, AddIsOffsets
<1>3. TypeOK' /\ BitmapShowsHeld' /\ CountsShowHeld'
  BY <1>2 DEF PInv, TypeOK, BitmapShowsHeld, CountsShowHeld, AllocMisses
<1>4. garbage # {}
  <2> SUFFICES ASSUME garbage = {}  PROVE FALSE
    OBVIOUS
  <2>1. held = BlocksOf(block_max)
    BY <1>1 DEF Clear
  <2>2. Cardinality(held) = block_max
    BY <2>1, <1>1, FS_Interval DEF BlocksOf
  <2> QED  BY <2>2, <1>1 DEF PInv, CountsShowHeld
<1> QED  BY <1>3, <1>4 DEF PInv, AllocMisses

LEMMA PNext == PInv /\ [Next]_vars => PInv'
<1> SUFFICES ASSUME PInv, [Next]_vars  PROVE PInv'
  OBVIOUS
<1>1. ASSUME NEW n \in Request, NEW size \in BlockSize, InitPool(n, size)  PROVE PInv'
  BY <1>1, InitPoolKeeps
<1>2. CASE AllocBlock
  BY <1>2, AllocBlockKeeps
<1>3. CASE AllocMisses
  BY <1>3, AllocMissesKeeps
<1>4. ASSUME NEW b \in held, Free(b)  PROVE PInv'
  BY <1>4, FreeKeeps
<1>5. CASE Exit
  BY <1>5, ExitKeeps
<1>6. CASE UNCHANGED vars
  BY <1>6 DEF vars, PInv, TypeOK, BitmapShowsHeld, CountsShowHeld
<1> QED  BY <1>1, <1>2, <1>3, <1>4, <1>5, <1>6 DEF Next

LEMMA PoolInvariant == Spec => []PInv
BY PInit, PNext, PTL DEF Spec

-----------------------------------------------------------------------------
(* What follows from it.                                                     *)

\* The variables have their types.
THEOREM PoolTypeOK == Spec => []TypeOK
<1>1. PInv => TypeOK
  BY DEF PInv
<1> QED  BY <1>1, PoolInvariant, PTL

\* A block is given to one holder at a time, and given again when it is returned.
THEOREM PoolBitmapShowsHeld == Spec => []BitmapShowsHeld
<1>1. PInv => BitmapShowsHeld
  BY DEF PInv
<1> QED  BY <1>1, PoolInvariant, PTL

\* The counters of a pool tell how many blocks are held and how many are left.
THEOREM PoolCountsShowHeld == Spec => []CountsShowHeld
<1>1. PInv => CountsShowHeld
  BY DEF PInv
<1> QED  BY <1>1, PoolInvariant, PTL

\* A pool hands out as many blocks as it was made for.
THEOREM PoolServesAsAsked == Spec => []ServesAsAsked
<1>1. PInv => ServesAsAsked
  <2> SUFFICES ASSUME PInv, up, Cardinality(held \cup garbage) < asked
               PROVE  block_free > 0 /\ Clear # {}
    BY DEF ServesAsAsked
  <2>1. /\ block_max \in Nat /\ asked \in Nat /\ asked <= block_max
        /\ held \cup garbage \in SUBSET BlocksOf(block_max)
        /\ held \in SUBSET BlocksOf(block_max)
        /\ bitmap = held \cup garbage
    BY DEF PInv, TypeOK, BitmapShowsHeld
  <2> DEFINE marked == held \cup garbage
  <2>2. IsFiniteSet(marked) /\ Cardinality(marked) \in Nat /\ Cardinality(held) \in Nat
    BY <2>1, BlocksAreFinite
  <2>3. Cardinality(held) <= Cardinality(marked)
    BY <2>2, FS_Subset
  <2>4. marked # BlocksOf(block_max)
    <3>1. Cardinality(BlocksOf(block_max)) = block_max
      BY <2>1, FS_Interval DEF BlocksOf
    <3>2. Cardinality(marked) < asked
      OBVIOUS
    <3> HIDE DEF marked
    <3> QED  BY <3>1, <3>2, <2>1, <2>2
  <2>5. Clear # {}
    BY <2>1, <2>4 DEF Clear
  <2>6. block_free = block_max - Cardinality(held)
    BY DEF PInv, CountsShowHeld
  <2> QED  BY <2>1, <2>2, <2>3, <2>5, <2>6
<1> QED  BY <1>1, PoolInvariant, PTL

\* In a pool whose bitmap has no bit left over from before, the walk of the timer
\* finds the blocks in use among the offsets onion_ffb looks at.  Nothing is said
\* of a pool with such bits: there the walk may visit other blocks.
THEOREM PoolWalkFindsHeld == Spec => []WalkFindsHeld
<1>1. PInv => WalkFindsHeld
  <2> SUFFICES ASSUME PInv, up, garbage = {}
               PROVE  Visited = held \cap Scanned(block_max)
    BY DEF WalkFindsHeld
  <2>1. /\ block_max \in Nat /\ held \subseteq BlocksOf(block_max)
        /\ mask \cap Scanned(block_max) = held \cap Scanned(block_max)
    BY DEF PInv, TypeOK
  <2>2. PICK k \in Int : Scanned(block_max) = {p \in Int : 0 <= p /\ p < k}
    BY <2>1, ScannedIs
  <2>3. ASSUME NEW p \in 0 .. block_max
        PROVE  onion_ffb(mask, block_max, p, 1) = p <=> p \in held \cap Scanned(block_max)
    <3> DEFINE found == {q \in Scanned(block_max) : q >= p /\ (q \in mask <=> 1 = 1)}
    <3>1. found \in SUBSET Nat /\ \A q \in found : p <= q /\ q \in mask \cap Scanned(block_max)
      BY <2>2
    <3>2. p \in held \cap Scanned(block_max) => p \in found
      BY <2>1, <2>2
    <3>3. onion_ffb(mask, block_max, p, 1) =
            IF found = {} \/ Lowest(found) > block_max THEN -1 ELSE Lowest(found)
      BY DEF onion_ffb
    <3> HIDE DEF found
    <3>4. CASE p \in found
      <4>1. Lowest(found) \in found /\ Lowest(found) <= p
        BY <3>1, <3>4, LowestIs
      <4>2. Lowest(found) = p
        <5>1. p <= Lowest(found) /\ Lowest(found) \in Nat /\ p \in Nat
          BY <4>1, <3>1, <3>4
        <5> QED  BY <5>1, <4>1
      <4>3. ~(found = {} \/ p > block_max)
        BY <3>4, <2>1
      <4> QED  BY <4>2, <4>3, <3>1, <3>3, <3>4, <2>1
    <3>5. CASE p \notin found
      <4>1. onion_ffb(mask, block_max, p, 1) # p
        BY <3>1, <3>3, <3>5, LowestIs
      <4> QED  BY <4>1, <3>2, <3>5
    <3> QED  BY <3>4, <3>5
  <2>4. held \cap Scanned(block_max) \subseteq 0 .. block_max
    <3>1. ASSUME NEW b \in BlocksOf(block_max)  PROVE b \in 0 .. block_max
      BY <2>1 DEF BlocksOf
    <3> QED  BY <3>1, <2>1
  <2> QED  BY <2>3, <2>4 DEF Visited
<1> QED  BY <1>1, PoolInvariant, PTL

-----------------------------------------------------------------------------
(* The search for a run of bits.                                             *)

\* An offset that a search for bits of a type may find.
Good(bits, size, type, q) == q \in Scanned(size) /\ q <= size /\ (q \in bits <=> type = 1)

\* onion_ffb finds the first good offset from a given one on.
LEMMA FfbIs ==
  ASSUME NEW bits, NEW size \in Nat, NEW offset \in Nat, NEW type
  PROVE  LET p == onion_ffb(bits, size, offset, type)
         IN  \/ p = -1 /\ \A q \in Int : q >= offset => ~Good(bits, size, type, q)
             \/ /\ p \in Nat /\ p >= offset /\ p <= size /\ Good(bits, size, type, p)
                /\ \A q \in offset .. p - 1 : ~Good(bits, size, type, q)
<1> DEFINE found == {p \in Scanned(size) : p >= offset /\ (p \in bits <=> type = 1)}
           p == onion_ffb(bits, size, offset, type)
<1>0. PICK k \in Int : Scanned(size) = {q \in Int : 0 <= q /\ q < k}
  BY ScannedIs
<1>1. found \in SUBSET Nat
  BY <1>0
<1>2. p = IF found = {} \/ Lowest(found) > size THEN -1 ELSE Lowest(found)
  BY DEF onion_ffb
<1>3. \A q \in Int : q >= offset /\ Good(bits, size, type, q) => q \in found /\ q <= size
  BY DEF Good
<1>4. \A q \in found : q >= offset /\ (q <= size => Good(bits, size, type, q))
  BY DEF Good
<1> HIDE DEF found, p
<1>5. CASE found = {}
  BY <1>2, <1>3, <1>5 DEF p
<1>6. CASE found # {}
  <2>1. Lowest(found) \in found /\ \A q \in found : Lowest(found) <= q
    BY <1>1, <1>6, LowestIs
  <2>2. Lowest(found) \in Nat
    BY <2>1, <1>1
  <2>3. CASE Lowest(found) > size
    <3>1. p = -1
      BY <2>3, <1>2
    <3>2. ASSUME NEW q \in Int, q >= offset, Good(bits, size, type, q)  PROVE FALSE
      <4>1. q \in found /\ q <= size
        BY <3>2, <1>3
      <4> QED  BY <4>1, <2>1, <2>2, <2>3
    <3> QED  BY <3>1, <3>2 DEF p
  <2>4. CASE ~(Lowest(found) > size)
    <3>1. p = Lowest(found)
      BY <2>4, <1>2, <1>6
    <3>2. p \in Nat /\ p >= offset /\ p <= size /\ Good(bits, size, type, p)
      BY <3>1, <2>1, <2>2, <2>4, <1>4
    <3>3. ASSUME NEW q \in offset .. p - 1, Good(bits, size, type, q)  PROVE FALSE
      <4>1. q \in found
        BY <3>2, <3>3, <1>3
      <4> QED  BY <4>1, <3>1, <3>2, <2>1
    <3> QED  BY <3>2, <3>3 DEF p
  <2> QED  BY <2>3, <2>4
<1> QED  BY <1>5, <1>6

\* What onion_ffgb has found when it has come to an offset right behind a run of
\* combo bits: the ends of the runs of grab bits.
Ends(bits, size, grab, type, offset, combo) ==
  {p \in offset .. size :
     \/ p - grab + 1 >= offset /\ \A q \in p - grab + 1 .. p : Good(bits, size, type, q)
     \/ p - offset + 1 + combo >= grab /\ \A q \in offset .. p : Good(bits, size, type, q)}

Grabbed(bits, size, grab, type, offset, combo) ==
  LET ends == Ends(bits, size, grab, type, offset, combo)
  IN IF ends = {} THEN -1 ELSE Lowest(ends) - grab + 1

\* A round of the loop.
GrabRound(bits, size, grab, type, offset, combo, last) ==
  LET p   == onion_ffb(bits, size, offset, type)
      run == IF p - last > 1 THEN 1 ELSE combo + 1
  IN IF p = -1 THEN -1
     ELSE IF run >= grab THEN p - grab + 1
     ELSE Grabbed(bits, size, grab, type, p + 1, run)

LEMMA GrabbedIsRound ==
  ASSUME NEW bits, NEW size \in Nat, NEW grab \in Nat \ {0}, NEW type,
         NEW offset \in Nat, NEW combo \in Nat
  PROVE  Grabbed(bits, size, grab, type, offset, combo) =
           GrabRound(bits, size, grab, type, offset, combo, offset - 1)
<1> DEFINE p    == onion_ffb(bits, size, offset, type)
           run  == IF p - (offset - 1) > 1 THEN 1 ELSE combo + 1
           ends == Ends(bits, size, grab, type, offset, combo)
           rest == Ends(bits, size, grab, type, p + 1, run)
           good(q) == Good(bits, size, type, q)
<1>1. \/ p = -1 /\ \A q \in Int : q >= offset => ~good(q)
      \/ p \in Nat /\ p >= offset /\ p <= size /\ good(p) /\ \A q \in offset .. p - 1 : ~good(q)
  BY FfbIs
<1>2. ends = {e \in offset .. size :
                \/ e - grab + 1 >= offset /\ \A q \in e - grab + 1 .. e : good(q)
                \/ e - offset + 1 + combo >= grab /\ \A q \in offset .. e : good(q)}
  BY DEF Ends
<1>3. rest = {e \in p + 1 .. size :
                \/ e - grab + 1 >= p + 1 /\ \A q \in e - grab + 1 .. e : good(q)
                \/ e - (p + 1) + 1 + run >= grab /\ \A q \in p + 1 .. e : good(q)}
  BY DEF Ends
<1>4. /\ Grabbed(bits, size, grab, type, offset, combo) =
           IF ends = {} THEN -1 ELSE Lowest(ends) - grab + 1
      /\ Grabbed(bits, size, grab, type, p + 1, run) =
           IF rest = {} THEN -1 ELSE Lowest(rest) - grab + 1
      /\ GrabRound(bits, size, grab, type, offset, combo, offset - 1) =
           IF p = -1 THEN -1
           ELSE IF run >= grab THEN p - grab + 1
           ELSE Grabbed(bits, size, grab, type, p + 1, run)
  BY DEF Grabbed, GrabRound
<1> HIDE DEF p, ends, rest, good
<1>5. CASE p = -1
  <2>1. \A q \in Int : q >= offset => ~good(q)
    BY <1>1, <1>5
  <2>2. ends = {}
    BY <2>1, <1>2
  <2> QED  BY <2>2, <1>4, <1>5
<1>6. CASE p # -1
  <2>1. p \in Nat /\ p >= offset /\ p <= size /\ good(p) /\ \A q \in offset .. p - 1 : ~good(q)
    BY <1>1, <1>6
  <2>2. run \in Nat /\ run >= 1 /\ run = IF p > offset THEN 1 ELSE combo + 1
    BY <2>1
  <2> HIDE DEF run
  <2>3. ASSUME NEW e \in ends  PROVE e >= p /\ e \in Nat
    <3>1. e \in offset .. size /\ good(e)
      BY <1>2
    <3> QED  BY <3>1, <2>1
  <2>4. p \in ends <=> run >= grab
    <3>1. CASE p = offset
      <4>1. \A q \in offset .. p : good(q)
        BY <3>1, <2>1
      <4>2. run >= grab => p \in ends
        BY <4>1, <3>1, <2>1, <2>2, <1>2
      <4>3. ASSUME p \in ends  PROVE run >= grab
        BY <4>3, <3>1, <2>1, <2>2, <1>2
      <4> QED  BY <4>2, <4>3
    <3>2. CASE p > offset
      <4>1. ~ good(p - 1) /\ ~good(offset)
        BY <3>2, <2>1
      <4>2. ASSUME p \in ends  PROVE grab = 1
        <5>1. \/ p - grab + 1 >= offset /\ \A q \in p - grab + 1 .. p : good(q)
              \/ \A q \in offset .. p : good(q)
          BY <4>2, <1>2
        <5> QED  BY <5>1, <4>1, <3>2, <2>1
      <4>3. ASSUME grab = 1  PROVE p \in ends
        BY <4>3, <1>2, <2>1
      <4> QED  BY <4>2, <4>3, <3>2, <2>2
    <3> QED  BY <3>1, <3>2, <2>1
  <2>5. CASE run >= grab
    <3>1. p \in ends /\ \A e \in ends : p <= e
      BY <2>3, <2>4, <2>5
    <3>2. ends \in SUBSET Nat /\ ends # {}
      BY <3>1, <2>3
    <3>3. Lowest(ends) = p
      <4>1. Lowest(ends) \in ends /\ Lowest(ends) <= p
        BY <3>1, <3>2, LowestIs
      <4>2. Lowest(ends) \in Nat /\ p <= Lowest(ends)
        BY <4>1, <3>1, <3>2
      <4> QED  BY <4>1, <4>2, <2>1
    <3> QED  BY <3>2, <3>3, <2>5, <1>4, <1>6
  <2>6. CASE run < grab
    <3>1. ends = rest
      <4>1. ASSUME NEW e \in ends  PROVE e \in rest
        <5>1. e \in p + 1 .. size
          <6>1. e # p
            BY <2>2, <2>4, <2>6
          <6>2. e >= p /\ e \in Nat
            BY <2>3
          <6>3. e \in offset .. size
            BY <1>2
          <6> QED  BY <6>1, <6>2, <6>3, <2>1
        <5>2. CASE e - grab + 1 >= offset /\ \A q \in e - grab + 1 .. e : good(q)
          <6>1. CASE e - grab + 1 >= p + 1
            BY <6>1, <5>1, <5>2, <1>3
          <6>2. CASE e - grab + 1 = p
            <7>1. \A q \in p + 1 .. e : good(q)
              BY <6>2, <5>2, <2>1
            <7>2. e - (p + 1) + 1 + run >= grab
              BY <6>2, <5>1, <2>1, <2>2
            <7> QED  BY <7>1, <7>2, <5>1, <1>3
          <6>3. CASE e - grab + 1 < p
            <7>1. e - grab + 1 \in offset .. p - 1
              BY <6>3, <5>1, <5>2, <2>1
            <7>2. e - grab + 1 \in e - grab + 1 .. e
              BY <5>1
            <7> QED  BY <7>1, <7>2, <5>2, <2>1
          <6> QED  BY <6>1, <6>2, <6>3, <5>1, <2>1
        <5>3. CASE e - offset + 1 + combo >= grab /\ \A q \in offset .. e : good(q)
          <6>1. offset = p
            <7>1. offset \in offset .. e
              BY <5>1, <2>1
            <7> QED  BY <7>1, <5>3, <2>1
          <6>2. \A q \in p + 1 .. e : good(q)
            BY <6>1, <5>3, <2>1
          <6> QED  BY <6>1, <6>2, <5>1, <5>3, <2>1, <2>2, <1>3
        <5> QED  BY <5>2, <5>3, <1>2
      <4>2. ASSUME NEW e \in rest  PROVE e \in ends
        <5>1. e \in offset .. size /\ e \in p + 1 .. size
          BY <1>3, <2>1
        <5>2. CASE e - grab + 1 >= p + 1 /\ \A q \in e - grab + 1 .. e : good(q)
          BY <5>1, <5>2, <1>2, <2>1
        <5>3. CASE e - (p + 1) + 1 + run >= grab /\ \A q \in p + 1 .. e : good(q)
          <6>1. \A q \in p .. e : good(q)
            BY <5>1, <5>3, <2>1
          <6>2. CASE p = offset
            BY <6>1, <6>2, <5>1, <5>3, <1>2, <2>1, <2>2
          <6>3. CASE p > offset
            <7>1. e - grab + 1 >= p
              BY <6>3, <5>1, <5>3, <2>1, <2>2
            <7>2. \A q \in e - grab + 1 .. e : good(q)
              BY <7>1, <6>1, <5>1, <2>1
            <7> QED  BY <7>1, <7>2, <5>1, <1>2, <2>1
          <6> QED  BY <6>2, <6>3, <2>1
        <5> QED  BY <5>2, <5>3, <1>3
      <4> QED  BY <4>1, <4>2
    <3> QED  BY <3>1, <2>6, <2>2, <1>4, <1>6
  <2> QED  BY <2>5, <2>6, <2>2
<1> QED  BY <1>5, <1>6

\* The search as a function of its three variables, in closed form.
LEMMA GrabIs ==
  ASSUME NEW bits, NEW size \in Nat, NEW grab \in Nat \ {0}, NEW type
  PROVE  onion_ffgb(bits, size, grab, type) = Grabbed(bits, size, grab, type, 0, 0)
<1> DEFINE Loop == [offset : Nat, combo : Nat, last_pos : Int]
           P(at) == onion_ffb(bits, size, at.offset, type)
           Run(at) == IF P(at) - at.last_pos > 1 THEN 1 ELSE at.combo + 1
           After(at) == [offset |-> P(at) + 1, combo |-> Run(at), last_pos |-> P(at)]
           Result(at, rest) ==
             IF P(at) = -1 THEN -1
             ELSE IF Run(at) >= grab THEN P(at) - grab + 1 ELSE rest
           Value(at) == GrabRound(bits, size, grab, type, at.offset, at.combo, at.last_pos)
           Closed == [at \in Loop |-> Value(at)]
           IsGrab(f) == f = [at \in Loop |-> Result(at, f[After(at)])]
           Grab == CHOOSE f : IsGrab(f)
           first == [offset |-> 0, combo |-> 0, last_pos |-> -2]
<1>1. onion_ffgb(bits, size, grab, type) = Grab[first]
  BY DEF onion_ffgb
<1>2. ASSUME NEW at \in Loop
      PROVE  /\ \/ P(at) = -1
                \/ P(at) \in Nat /\ P(at) >= at.offset /\ P(at) <= size
             /\ Run(at) \in Nat
             /\ P(at) # -1 => After(at) \in Loop
  <2>1. at.offset \in Nat /\ at.combo \in Nat /\ at.last_pos \in Int
    OBVIOUS
  <2>2. \/ P(at) = -1
        \/ P(at) \in Nat /\ P(at) >= at.offset /\ P(at) <= size
    BY <2>1, FfbIs
  <2>3. Run(at) \in Nat
    <3> HIDE DEF P
    <3> QED  BY <2>1
  <2>4. ASSUME P(at) # -1  PROVE After(at) \in Loop
    <3> HIDE DEF P, Run
    <3> QED  BY <2>2, <2>3, <2>4
  <2> QED  BY <2>2, <2>3, <2>4
<1>3. ASSUME NEW at \in Loop
      PROVE  Value(at) = Result(at, Value(After(at)))
  <2>1. Value(at) = Result(at, Grabbed(bits, size, grab, type, P(at) + 1, Run(at)))
    BY DEF GrabRound
  <2>2. CASE P(at) = -1
    BY <2>1, <2>2
  <2>3. CASE P(at) # -1
    <3> DEFINE o == P(at) + 1
               c == Run(at)
    <3>1. o \in Nat /\ c \in Nat /\ o - 1 = P(at)
      BY <2>3, <1>2
    <3>2. Value(After(at)) = GrabRound(bits, size, grab, type, o, c, P(at))
      OBVIOUS
    <3> HIDE DEF o, c, P, Run, Value, After
    <3>3. Grabbed(bits, size, grab, type, o, c) = GrabRound(bits, size, grab, type, o, c, o - 1)
      BY <3>1, GrabbedIsRound
    <3>4. Grabbed(bits, size, grab, type, o, c) = Value(After(at))
      BY <3>1, <3>2, <3>3
    <3> QED  BY <3>4, <2>1 DEF o, c
  <2> QED  BY <2>2, <2>3
<1> HIDE DEF Value
<1>4. IsGrab(Closed)
  <2>1. ASSUME NEW at \in Loop
        PROVE  Value(at) = Result(at, Closed[After(at)])
    <3>1. CASE P(at) = -1
      BY <3>1, <1>3
    <3>2. CASE P(at) # -1
      <4>1. After(at) \in Loop
        BY <3>2, <1>2
      <4> HIDE DEF After, Result
      <4>2. Closed[After(at)] = Value(After(at))
        BY <4>1
      <4> QED  BY <4>2, <1>3
    <3> QED  BY <3>1, <3>2
  <2> HIDE DEF Result, After, Loop
  <2> QED  BY <2>1
<1>5. IsGrab(Grab)
  <2> HIDE DEF IsGrab, Closed
  <2> QED  BY <1>4
<1>6. ASSUME NEW at \in Loop
      PROVE  Grab[at] = Result(at, Grab[After(at)])
  <2> HIDE DEF Grab, Result, After, Loop
  <2> QED  BY <1>5
<1> HIDE DEF Closed, Grab, IsGrab
<1>7. \A at \in Loop : Grab[at] = Value(at)
  <2> DEFINE Wrong(at) == Grab[at] # Value(at)
             left == {n \in Nat : \E at \in Loop : n = size - at.offset /\ Wrong(at)}
  <2>1. ASSUME NEW at \in Loop, Wrong(at)
        PROVE  /\ After(at) \in Loop /\ After(at).offset = P(at) + 1
               /\ at.offset \in Nat /\ P(at) \in Nat /\ P(at) >= at.offset /\ P(at) <= size
               /\ Wrong(After(at))
    <3>1. P(at) # -1 /\ Grab[After(at)] # Value(After(at))
      <4>1. Grab[at] # Value(at)
        BY <2>1
      <4> HIDE DEF P, Run, After
      <4> QED  BY <4>1, <1>3, <1>6
    <3>2. P(at) \in Nat /\ P(at) >= at.offset /\ P(at) <= size /\ After(at) \in Loop
      BY <3>1, <1>2
    <3>3. at.offset \in Nat /\ After(at).offset = P(at) + 1
      OBVIOUS
    <3> QED  BY <3>1, <3>2, <3>3
  <2> HIDE DEF Wrong, After, P, Loop
  <2>2. SUFFICES ASSUME NEW at \in Loop, Wrong(at)  PROVE FALSE
    BY DEF Wrong
  <2>3. size - at.offset \in left
    BY <2>1, <2>2
  <2>4. left \in SUBSET Nat /\ left # {}
    BY <2>3
  <2>5. Lowest(left) \in left /\ \A n \in left : Lowest(left) <= n
    BY <2>4, LowestIs
  <2>6. PICK o \in Loop : Lowest(left) = size - o.offset /\ Wrong(o)
    BY <2>5
  <2>7. /\ After(o) \in Loop /\ Wrong(After(o)) /\ After(o).offset = P(o) + 1
        /\ o.offset \in Nat /\ P(o) \in Nat /\ P(o) >= o.offset /\ P(o) <= size
    BY <2>1, <2>6
  <2>8. P(After(o)) >= P(o) + 1 /\ P(After(o)) <= size /\ P(After(o)) \in Nat
    BY <2>1, <2>7
  <2>9. size - After(o).offset \in left
    BY <2>7, <2>8
  <2> QED  BY <2>5, <2>6, <2>7, <2>9
<1>8. first \in Loop /\ Value(first) = GrabRound(bits, size, grab, type, 0, 0, -2)
  BY DEF Value
<1>9. GrabRound(bits, size, grab, type, 0, 0, -2) = GrabRound(bits, size, grab, type, 0, 0, -1)
  <2> DEFINE p == onion_ffb(bits, size, 0, type)
  <2>1. p = -1 \/ p \in Nat
    BY FfbIs
  <2> HIDE DEF p
  <2>2. p # -1 => (IF p - (-2) > 1 THEN 1 ELSE 0 + 1) = (IF p - (-1) > 1 THEN 1 ELSE 0 + 1)
    BY <2>1
  <2>3. CASE p = -1
    BY <2>3 DEF GrabRound, p
  <2>4. CASE p # -1
    BY <2>2, <2>4 DEF GrabRound, p
  <2> QED  BY <2>3, <2>4
<1>10. Grabbed(bits, size, grab, type, 0, 0) = GrabRound(bits, size, grab, type, 0, 0, -1)
  <2>1. 0 \in Nat /\ 0 - 1 = -1
    OBVIOUS
  <2>2. Grabbed(bits, size, grab, type, 0, 0) = GrabRound(bits, size, grab, type, 0, 0, 0 - 1)
    BY GrabbedIsRound
  <2> QED  BY <2>1, <2>2
<1> HIDE DEF first, Loop
<1> QED  BY <1>1, <1>7, <1>8, <1>9, <1>10

\* GrabFindsRun: onion_ffgb finds the first run of bits of a type in the part of
\* the mask that is searched, whatever the mask holds, and none when there is none.
THEOREM PoolGrabFindsRun == Spec => []GrabFindsRun
<1>1. TypeOK => GrabFindsRun
  <2> SUFFICES ASSUME TypeOK, NEW grab \in 1 .. block_max + 1, NEW type \in {0, 1}
               PROVE  LET runs == {p \in 0 .. block_max : RunAt(p, grab, type)}
                      IN onion_ffgb(mask, block_max, grab, type) =
                           IF runs = {} THEN -1 ELSE Lowest(runs)
    BY DEF GrabFindsRun
  <2> DEFINE runs == {p \in 0 .. block_max : RunAt(p, grab, type)}
             ends == Ends(mask, block_max, grab, type, 0, 0)
             good(q) == Good(mask, block_max, type, q)
  <2>1. block_max \in Nat /\ grab \in Nat \ {0}
    BY DEF TypeOK
  <2>2. onion_ffgb(mask, block_max, grab, type) = IF ends = {} THEN -1 ELSE Lowest(ends) - grab + 1
    BY <2>1, GrabIs DEF Grabbed
  <2>3. ends = {e \in 0 .. block_max :
                  \/ e - grab + 1 >= 0 /\ \A q \in e - grab + 1 .. e : good(q)
                  \/ e - 0 + 1 + 0 >= grab /\ \A q \in 0 .. e : good(q)}
    BY DEF Ends
  <2>4. runs = {p \in 0 .. block_max : \A q \in p .. p + grab - 1 : good(q)}
    BY DEF RunAt, Good
  <2>5. \A q : good(q) => q <= block_max
    BY DEF Good
  <2> HIDE DEF runs, ends, good
  <2>6. ASSUME NEW e \in ends  PROVE e - grab + 1 \in runs
    <3>1. e \in 0 .. block_max /\ e - grab + 1 >= 0 /\ \A q \in e - grab + 1 .. e : good(q)
      BY <2>1, <2>3
    <3>2. (e - grab + 1) + grab - 1 = e /\ e - grab + 1 \in 0 .. block_max
      BY <2>1, <3>1
    <3> QED  BY <2>4, <3>1, <3>2
  <2>7. ASSUME NEW p \in runs  PROVE p + grab - 1 \in ends
    <3>1. p \in 0 .. block_max /\ \A q \in p .. p + grab - 1 : good(q)
      BY <2>4
    <3>2. good(p + grab - 1)
      BY <2>1, <3>1
    <3>3. p + grab - 1 \in 0 .. block_max /\ (p + grab - 1) - grab + 1 = p
      BY <2>1, <2>5, <3>1, <3>2
    <3> QED  BY <2>3, <3>1, <3>3
  <2>8. runs \in SUBSET Nat /\ ends \in SUBSET Nat
    BY <2>3, <2>4
  <2>9. CASE runs = {}
    BY <2>2, <2>6, <2>9 DEF runs
  <2>10. CASE runs # {}
    <3>1. Lowest(runs) \in runs /\ \A p \in runs : Lowest(runs) <= p
      BY <2>8, <2>10, LowestIs
    <3>2. ends # {}
      BY <2>7, <3>1
    <3>3. Lowest(ends) \in ends /\ \A e \in ends : Lowest(ends) <= e
      BY <2>8, <3>2, LowestIs
    <3>4. Lowest(runs) <= Lowest(ends) - grab + 1
      BY <2>6, <3>1, <3>3
    <3>5. Lowest(ends) <= Lowest(runs) + grab - 1
      BY <2>7, <3>1, <3>3
    <3>6. Lowest(ends) \in Nat /\ Lowest(runs) \in Nat
      BY <2>8, <3>1, <3>3
    <3>7. Lowest(ends) - grab + 1 = Lowest(runs)
      BY <2>1, <3>4, <3>5, <3>6
    <3> QED  BY <2>2, <2>10, <3>2, <3>7 DEF runs
  <2> QED  BY <2>9, <2>10
<1> QED  BY <1>1, PoolTypeOK, PTL

=============================================================================
