---------------------------- MODULE OnionBitmask -----------------------------
(***************************************************************************)
(* The bitmask of src/onion/sup.c: what the functions compute from a mask, *)
(* given as the set of the offsets whose bit is 1.                         *)
(***************************************************************************)
EXTENDS Integers

CONSTANT Frame    \* the bits of a frame: 64, sizeof(uint64_t) * 8 for every caller

ASSUME FrameAssumption == Frame \in Nat \ {0}

Lowest(offsets) == CHOOSE p \in offsets : \A q \in offsets : p <= q

\* The frames allocated for a mask of this many bits.
conv_size(size) == (size + Frame - 1) \div Frame

\* The offsets onion_ffb looks at: it divides conv_size by the frame once more.
Scanned(size) == 0 .. Frame * ((conv_size(size) + Frame - 1) \div Frame) - 1

\* The first offset from this one on whose bit is of the type.  The offset that
\* equals size passes the test that should end the search.
onion_ffb(mask, size, offset, type) ==
  LET found == {p \in Scanned(size) : p >= offset /\ (p \in mask <=> type = 1)}
  IN IF found = {} \/ Lowest(found) > size THEN -1 ELSE Lowest(found)

\* Mutant: bits count towards a run across a gap.
GrabIgnoringGaps(mask, size, grab, type) ==
  LET Grab[offset \in Nat, combo \in Nat] ==
        LET p == onion_ffb(mask, size, offset, type)
        IN IF p = -1 THEN -1
           ELSE IF combo + 1 >= grab THEN p - grab + 1
           ELSE Grab[p + 1, combo + 1]
  IN Grab[0, 0]

\* The first offset of a run of bits of the type.
onion_ffgb(mask, size, grab, type) ==
  LET Grab[at \in [offset : Nat, combo : Nat, last_pos : Int]] ==
        LET p   == onion_ffb(mask, size, at.offset, type)
            run == IF p - at.last_pos > 1 THEN 1 ELSE at.combo + 1
        IN IF p = -1 THEN -1
           ELSE IF run >= grab THEN p - grab + 1
           ELSE Grab[[offset |-> p + 1, combo |-> run, last_pos |-> p]]
  IN Grab[[offset |-> 0, combo |-> 0, last_pos |-> -2]]

onion_bitmask_add(mask, size, count) ==
  LET start_pos == onion_ffb(mask, size, 0, 0)
  IN IF start_pos = -1 THEN mask ELSE mask \cup (start_pos .. start_pos + count - 1)

onion_bitmask_del(mask, start_pos, count) == mask \ (start_pos .. start_pos + count - 1)

=============================================================================
