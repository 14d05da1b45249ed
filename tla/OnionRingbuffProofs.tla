------------------------- MODULE OnionRingbuffProofs -------------------------
(***************************************************************************)
(* The ring buffer, for every size, header and set of records: until a     *)
(* record that reaches the end of the ring is extracted, or the ring is    *)
(* filled to the last byte, it holds the records written and not extracted *)
(* and extract copies the oldest of them.                                  *)
(***************************************************************************)
EXTENDS OnionRingbuff, TLAPS

\* Remainders of what is less than three times the divisor.
LEMMA Remainder ==
  ASSUME NEW a \in Nat, NEW n \in Nat \ {0}
  PROVE  /\ a < n => a % n = a
         /\ n <= a /\ a < 2 * n => a % n = a - n
         /\ 2 * n <= a /\ a < 3 * n => a % n = a - 2 * n
         /\ a % n \in 0 .. n - 1
<1>1. \A q \in Nat, r \in Nat : a = q * n + r /\ r < n => a % n = r
  OBVIOUS
<1>2. a < n => a % n = a
  OBVIOUS
<1>3. n <= a /\ a < 2 * n => a % n = a - n
  <2> SUFFICES ASSUME n <= a, a < 2 * n  PROVE a % n = a - n
    OBVIOUS
  <2>1. a - n \in Nat /\ a = 1 * n + (a - n) /\ a - n < n
    OBVIOUS
  <2> QED  BY <2>1, <1>1
<1>4. 2 * n <= a /\ a < 3 * n => a % n = a - 2 * n
  <2> SUFFICES ASSUME 2 * n <= a, a < 3 * n  PROVE a % n = a - 2 * n
    OBVIOUS
  <2>1. a - 2 * n \in Nat /\ a = 2 * n + (a - 2 * n) /\ a - 2 * n < n
    OBVIOUS
  <2> QED  BY <2>1, <1>1
<1> QED  BY <1>2, <1>3, <1>4

LEMMA RemainderIs ==
  ASSUME NEW a \in Nat, NEW n \in Nat \ {0}, NEW r \in Nat, r < n,
         a = r \/ a = r + n \/ a = r + 2 * n
  PROVE  a % n = r
<1>1. CASE a = r
  BY <1>1, Remainder
<1>2. CASE a = r + n
  <2>1. n <= a /\ a < 2 * n /\ a - n = r
    BY <1>2
  <2> QED  BY <2>1, Remainder
<1>3. CASE a = r + 2 * n
  <2>1. 2 * n <= a /\ a < 3 * n /\ a - 2 * n = r
    BY <1>3
  <2> QED  BY <2>1, Remainder
<1> QED  BY <1>1, <1>2, <1>3

LEMMA RemainderOf ==
  ASSUME NEW a \in Nat, NEW n \in Nat \ {0}, a < 3 * n
  PROVE  \E r \in 0 .. n - 1 : a % n = r /\ (a = r \/ a = r + n \/ a = r + 2 * n)
<1>1. a < n \/ (n <= a /\ a < 2 * n) \/ (2 * n <= a /\ a < 3 * n)
  OBVIOUS
<1>2. a % n = a \/ a % n = a - n \/ a % n = a - 2 * n
  BY <1>1, Remainder
<1>3. a % n \in 0 .. n - 1
  BY Remainder
<1> DEFINE r == a % n
<1>4. r \in 0 .. n - 1 /\ (r = a \/ r = a - n \/ r = a - 2 * n)
  BY <1>2, <1>3
<1> HIDE DEF r
<1>5. a = r \/ a = r + n \/ a = r + 2 * n
  BY <1>4
<1> QED  BY <1>4, <1>5 DEF r

-----------------------------------------------------------------------------
(* The invariant.                                                            *)

EndOf(q, i) == q[i].from + FrameLength(q[i].rec)

\* The frames of q lie in d one behind the other, from t on and up to u, and do
\* not overlap: that is what keeps a write from touching those before.
FramesAre(q, d, t, u) ==
  /\ IF q = <<>> THEN u = t ELSE q[1].from = t /\ EndOf(q, Len(q)) = u
  /\ \A i \in 1 .. Len(q) - 1 : q[i + 1].from = EndOf(q, i)
  /\ \A i \in 1 .. Len(q) : \A j \in 1 .. FrameLength(q[i].rec) :
       d[(q[i].from + j - 1) % Size] = <<q[i].rec, j>>
  /\ \A i \in 1 .. Len(q) : t <= q[i].from /\ EndOf(q, i) <= u
  /\ \A i, j \in 1 .. Len(q) : i < j => EndOf(q, i) <= q[j].from

FramesApart == exact => tail < Size /\ FramesAre(queue, data, tail, Unwrapped)

RInv == TypeOK /\ FramesApart

LEMMA FrameFits ==
  ASSUME NEW r \in Record
  PROVE  /\ Size \in Nat \ {0} /\ Header \in Nat \ {0} /\ Length[r] \in Nat
         /\ FrameLength(r) \in Nat /\ Header <= FrameLength(r) /\ FrameLength(r) <= Size
         /\ FrameLength(r) = Header + Length[r]
BY RingAssumption DEF FrameLength

LEMMA RInit == Init => RInv
<1> SUFFICES ASSUME Init  PROVE RInv
  OBVIOUS
<1>1. TypeOK
  <2>1. data \in [0 .. Size - 1 -> (Record \cup {0}) \X Nat]
    <3>1. <<0, 0>> \in (Record \cup {0}) \X Nat
      OBVIOUS
    <3> QED  BY <3>1 DEF Init, Unset
  <2>2. queue \in Seq([rec : Record, from : Nat])
    BY DEF Init
  <2>3. head \in 0 .. Size - 1 /\ tail \in Nat /\ exact \in BOOLEAN /\ fault \in BOOLEAN
    BY RingAssumption DEF Init
  <2> QED  BY <2>1, <2>2, <2>3 DEF TypeOK
<1>2. FramesApart
  BY RingAssumption DEF Init, FramesApart, FramesAre, Unwrapped
<1> QED  BY <1>1, <1>2 DEF RInv

\* How far head is from tail, and what bytes_busy makes of it.
LEMMA Busy ==
  ASSUME TypeOK, tail < Size
  PROVE  /\ Unwrapped \in Nat /\ tail <= Unwrapped /\ Unwrapped < tail + Size
         /\ bytes_busy = Unwrapped - tail
         /\ Unwrapped % Size = head
<1>1. Size \in Nat \ {0} /\ head \in 0 .. Size - 1 /\ tail \in Nat
  BY RingAssumption DEF TypeOK
<1>2. /\ Unwrapped \in Nat /\ tail <= Unwrapped /\ Unwrapped < tail + Size
      /\ Unwrapped = head \/ Unwrapped = head + Size
  BY <1>1 DEF Unwrapped
<1>3. (head + Size - tail) % Size = Unwrapped - tail
  <2>0. PICK a \in Nat : a = head + Size - tail
    BY <1>1
  <2>1. CASE head < tail
    <3>1. Unwrapped - tail = a /\ a < Size
      BY <2>0, <2>1, <1>1 DEF Unwrapped
    <3>2. a % Size = a
      BY <3>1, <1>1, Remainder
    <3> QED  BY <3>1, <3>2, <2>0
  <2>2. CASE ~(head < tail)
    <3>1. Unwrapped - tail = a - Size /\ Size <= a /\ a < 2 * Size
      BY <2>0, <2>2, <1>1 DEF Unwrapped
    <3>2. a % Size = a - Size
      BY <3>1, <1>1, Remainder
    <3> QED  BY <3>1, <3>2, <2>0
  <2> QED  BY <2>1, <2>2
<1>4. bytes_busy = Unwrapped - tail
  BY <1>1, <1>3 DEF bytes_busy
<1>5. Unwrapped % Size = head
  <2>1. CASE Unwrapped = head
    BY <2>1, <1>1, Remainder
  <2>2. CASE Unwrapped = head + Size
    <3>1. head + Size \in Nat /\ Size <= head + Size /\ head + Size < 2 * Size
      BY <1>1
    <3>2. (head + Size) % Size = head + Size - Size
      BY <3>1, <1>1, Remainder
    <3> QED  BY <3>2, <2>2, <1>1
  <2> QED  BY <2>1, <2>2, <1>2
<1> QED  BY <1>2, <1>4, <1>5

LEMMA BusyNext ==
  TypeOK' /\ tail' < Size =>
    /\ Unwrapped' \in Nat /\ tail' <= Unwrapped' /\ Unwrapped' < tail' + Size
    /\ bytes_busy' = Unwrapped' - tail'
    /\ Unwrapped' % Size = head'
<1> DEFINE P == TypeOK /\ tail < Size
           Q == /\ Unwrapped \in Nat /\ tail <= Unwrapped /\ Unwrapped < tail + Size
                /\ bytes_busy = Unwrapped - tail
                /\ Unwrapped % Size = head
<1>1. P => Q
  BY Busy
<1>2. P' => Q'
  BY <1>1, PTL
<1> QED  BY <1>2

LEMMA Ordered == RInv => FramesInOrder
<1> SUFFICES ASSUME RInv, exact  PROVE FramesInOrder
  BY DEF FramesInOrder
<1>1. TypeOK /\ tail < Size /\ FramesAre(queue, data, tail, Unwrapped)
  BY DEF RInv, FramesApart
<1>2. bytes_busy = Unwrapped - tail
  BY <1>1, Busy
<1>3. Unwrapped = tail => head = tail
  BY <1>1, RingAssumption DEF TypeOK, Unwrapped
<1> QED  BY <1>1, <1>2, <1>3 DEF FramesInOrder, FramesAre, EndOf

-----------------------------------------------------------------------------
(* A queue of frames that grows and shrinks.                                 *)

Entry == [rec : Record, from : Nat]

LEMMA EntryIs ==
  ASSUME NEW q \in Seq(Entry), NEW i \in 1 .. Len(q)
  PROVE  /\ q[i].rec \in Record /\ q[i].from \in Nat
         /\ FrameLength(q[i].rec) \in Nat /\ Header <= FrameLength(q[i].rec)
         /\ EndOf(q, i) \in Nat /\ EndOf(q, i) = q[i].from + FrameLength(q[i].rec)
<1>1. q[i] \in Entry
  OBVIOUS
<1>2. q[i].rec \in Record /\ q[i].from \in Nat
  BY <1>1 DEF Entry
<1>3. FrameLength(q[i].rec) \in Nat /\ Header <= FrameLength(q[i].rec)
  BY <1>2, FrameFits
<1> QED  BY <1>2, <1>3 DEF EndOf

LEMMA Within ==
  \A t, u, f, l, j, p \in Nat :
    t <= f /\ f + l <= u /\ p = f + j - 1 /\ 1 <= j /\ j <= l => t <= p /\ p < u
OBVIOUS

LEMMA FramesGrow ==
  ASSUME NEW q \in Seq(Entry), NEW d, NEW e, NEW t \in Nat, NEW u \in Nat, t <= u,
         FramesAre(q, d, t, u),
         NEW r \in Record,
         \A j \in 1 .. FrameLength(r) : e[(u + j - 1) % Size] = <<r, j>>,
         \A p \in Nat : t <= p /\ p < u => e[p % Size] = d[p % Size]
  PROVE  FramesAre(Append(q, [rec |-> r, from |-> u]), e, t, u + FrameLength(r))
<1> DEFINE new == [rec |-> r, from |-> u]
           q2 == Append(q, new)
           n == Len(q)
<1>0. FrameLength(r) \in Nat
  BY FrameFits
<1>1. /\ n \in Nat /\ Len(q2) = n + 1 /\ q2 # <<>>
      /\ q2[n + 1] = new
      /\ \A i \in 1 .. n : q2[i] = q[i]
      /\ new.rec = r /\ new.from = u
  BY DEF Entry
<1>2. EndOf(q2, n + 1) = u + FrameLength(r) /\ \A i \in 1 .. n : EndOf(q2, i) = EndOf(q, i)
  BY <1>1 DEF EndOf
<1>3. \A i \in 1 .. n : /\ q[i].from \in Nat /\ FrameLength(q[i].rec) \in Nat
                        /\ EndOf(q, i) = q[i].from + FrameLength(q[i].rec)
  BY EntryIs
<1>4. /\ IF q = <<>> THEN u = t ELSE q[1].from = t /\ EndOf(q, n) = u
      /\ \A i \in 1 .. n - 1 : q[i + 1].from = EndOf(q, i)
      /\ \A i \in 1 .. n : t <= q[i].from /\ EndOf(q, i) <= u
      /\ \A i \in 1 .. n : \A j \in 1 .. FrameLength(q[i].rec) :
           d[(q[i].from + j - 1) % Size] = <<q[i].rec, j>>
  BY DEF FramesAre
<1>5. q = <<>> <=> n = 0
  OBVIOUS
<1> HIDE DEF new, q2, n
<1>6. q2[1].from = t /\ EndOf(q2, Len(q2)) = u + FrameLength(r)
  BY <1>1, <1>2, <1>4, <1>5
<1>7. \A i \in 1 .. Len(q2) - 1 : q2[i + 1].from = EndOf(q2, i)
  <2>1. ASSUME NEW i \in 1 .. n  PROVE q2[i + 1].from = EndOf(q2, i)
    <3>1. CASE i = n
      <4>1. q # <<>>
        BY <1>1, <1>5, <3>1
      <4> QED  BY <3>1, <4>1, <1>1, <1>2, <1>4
    <3>2. CASE i # n
      <4>1. i \in 1 .. n - 1 /\ i + 1 \in 1 .. n
        BY <3>2, <1>1
      <4> QED  BY <4>1, <1>1, <1>2, <1>4
    <3> QED  BY <3>1, <3>2
  <2>2. Len(q2) - 1 = n
    BY <1>1
  <2> QED  BY <2>1, <2>2
<1>8. ASSUME NEW i \in 1 .. Len(q2), NEW j \in 1 .. FrameLength(q2[i].rec)
      PROVE  e[(q2[i].from + j - 1) % Size] = <<q2[i].rec, j>>
  <2>1. CASE i = n + 1
    BY <2>1, <1>1
  <2>2. CASE i \in 1 .. n
    <3>1. q2[i] = q[i] /\ j \in 1 .. FrameLength(q[i].rec)
      BY <2>2, <1>1
    <3>2. PICK p \in Nat : p = q[i].from + j - 1
      BY <2>2, <1>3, <3>1
    <3>3. t <= p /\ p < u
      <4>1. j \in Nat /\ j >= 1 /\ j <= FrameLength(q[i].rec)
        BY <3>1, <2>2, <1>3
      <4>2. PICK f \in Nat, l \in Nat, m \in Nat :
              f = q[i].from /\ l = FrameLength(q[i].rec) /\ m = EndOf(q, i) /\ m = f + l
        BY SMTT(30), <2>2, <1>3
      <4>3. t <= f /\ m <= u
        BY <2>2, <4>2, <1>4
      <4>4. p = f + j - 1 /\ j <= l
        BY <3>2, <4>1, <4>2
      <4>5. f + l <= u /\ 1 <= j
        BY <4>1, <4>2, <4>3
      <4> QED  BY <4>1, <4>3, <4>4, <4>5, Within
    <3>4. e[p % Size] = d[p % Size]
      BY <3>3
    <3>5. d[p % Size] = <<q[i].rec, j>>
      BY <2>2, <3>1, <3>2, <1>4
    <3> QED  BY <3>1, <3>2, <3>4, <3>5
  <2> QED  BY <2>1, <2>2, <1>1
<1>9. \A i \in 1 .. Len(q2) : t <= q2[i].from /\ EndOf(q2, i) <= u + FrameLength(r)
  <2>1. t <= q2[n + 1].from /\ EndOf(q2, n + 1) <= u + FrameLength(r)
    BY <1>1, <1>2, <1>0
  <2>2. ASSUME NEW i \in 1 .. n
        PROVE  t <= q2[i].from /\ EndOf(q2, i) <= u + FrameLength(r)
    <3>1. q2[i].from = q[i].from /\ EndOf(q2, i) = EndOf(q, i)
      BY <1>1, <1>2
    <3>2. EndOf(q, i) \in Nat /\ EndOf(q, i) <= u /\ t <= q[i].from
      BY <1>3, <1>4
    <3> QED  BY <3>1, <3>2, <1>0
  <2>3. \A i \in 1 .. n + 1 : i \in 1 .. n \/ i = n + 1
    BY <1>1
  <2> QED  BY <2>1, <2>2, <2>3, <1>1
<1>10. ASSUME NEW i \in 1 .. Len(q2), NEW j \in 1 .. Len(q2), i < j
       PROVE  EndOf(q2, i) <= q2[j].from
  <2>1. i \in 1 .. n /\ (j \in 1 .. n \/ j = n + 1)
    BY <1>1, <1>10
  <2>2. CASE j \in 1 .. n
    <3>1. EndOf(q, i) <= q[j].from
      BY <2>1, <2>2, <1>10 DEF FramesAre, n
    <3> QED  BY <3>1, <2>1, <2>2, <1>1, <1>2
  <2>3. CASE j = n + 1
    BY <2>1, <2>3, <1>1, <1>2, <1>4
  <2> QED  BY <2>1, <2>2, <2>3
<1>11. FramesAre(q2, e, t, u + FrameLength(r))
  BY <1>1, <1>6, <1>7, <1>8, <1>9, <1>10 DEF FramesAre
<1> QED  BY <1>11 DEF q2, new

LEMMA FramesShrink ==
  ASSUME NEW q \in Seq(Entry), NEW d, NEW t \in Nat, NEW u \in Nat,
         FramesAre(q, d, t, u), q # <<>>
  PROVE  Tail(q) \in Seq(Entry) /\ FramesAre(Tail(q), d, EndOf(q, 1), u)
<1> DEFINE q2 == Tail(q)
           n == Len(q)
<1>1. n \in Nat /\ n >= 1 /\ q2 \in Seq(Entry) /\ Len(q2) = n - 1
  OBVIOUS
<1>2. \A i \in 1 .. n - 1 : q2[i] = q[i + 1]
  OBVIOUS
<1>3. q2 = <<>> <=> n = 1
  BY <1>1
<1>4. /\ EndOf(q, n) = u
      /\ \A i \in 1 .. n - 1 : q[i + 1].from = EndOf(q, i)
      /\ \A i \in 1 .. n : EndOf(q, i) <= u
      /\ \A i \in 1 .. n : \A j \in 1 .. FrameLength(q[i].rec) :
           d[(q[i].from + j - 1) % Size] = <<q[i].rec, j>>
  BY DEF FramesAre
<1>5. \A i \in 1 .. n - 1 : EndOf(q2, i) = EndOf(q, i + 1)
  BY <1>2 DEF EndOf
<1>6. \A i \in 1 .. n : /\ q[i].from \in Nat /\ EndOf(q, i) \in Nat
                        /\ q[i].from <= EndOf(q, i)
  <2> TAKE i \in 1 .. n
  <2>1. q[i].from \in Nat /\ FrameLength(q[i].rec) \in Nat
        /\ EndOf(q, i) = q[i].from + FrameLength(q[i].rec)
    BY EntryIs
  <2> QED  BY <2>1
<1> HIDE DEF q2, n
<1>7. IF q2 = <<>> THEN u = EndOf(q, 1) ELSE q2[1].from = EndOf(q, 1) /\ EndOf(q2, Len(q2)) = u
  <2>1. CASE q2 = <<>>
    BY <2>1, <1>3, <1>4
  <2>2. CASE q2 # <<>>
    <3>1. n - 1 \in 1 .. n - 1 /\ 1 \in 1 .. n - 1 /\ n - 1 + 1 = n
      BY <2>2, <1>1, <1>3
    <3> QED  BY <2>2, <3>1, <1>1, <1>2, <1>4, <1>5
  <2> QED  BY <2>1, <2>2
<1>8. ASSUME NEW i \in 1 .. Len(q2) - 1  PROVE q2[i + 1].from = EndOf(q2, i)
  <2>1. i \in 1 .. n - 1 /\ i + 1 \in 1 .. n - 1
    BY <1>1
  <2> QED  BY <2>1, <1>2, <1>4, <1>5
<1>9. ASSUME NEW i \in 1 .. Len(q2), NEW j \in 1 .. FrameLength(q2[i].rec)
      PROVE  d[(q2[i].from + j - 1) % Size] = <<q2[i].rec, j>>
  <2>1. i \in 1 .. n - 1 /\ i + 1 \in 1 .. n /\ q2[i] = q[i + 1]
    BY <1>1, <1>2
  <2> QED  BY <2>1, <1>4
<1>10. \A i, j \in 1 .. n : i < j => EndOf(q, i) <= q[j].from
  BY DEF FramesAre, n
<1>11. ASSUME NEW i \in 1 .. Len(q2)  PROVE EndOf(q, 1) <= q2[i].from /\ EndOf(q2, i) <= u
  <2>1. i \in 1 .. n - 1 /\ i + 1 \in 1 .. n /\ 1 \in 1 .. n /\ 1 < i + 1 /\ q2[i] = q[i + 1]
    BY <1>1, <1>2
  <2> QED  BY <2>1, <1>4, <1>5, <1>10
<1>13. ASSUME NEW i \in 1 .. Len(q2), NEW j \in 1 .. Len(q2), i < j
       PROVE  EndOf(q2, i) <= q2[j].from
  <2>1. /\ i \in 1 .. n - 1 /\ j \in 1 .. n - 1 /\ i + 1 \in 1 .. n /\ j + 1 \in 1 .. n
        /\ i + 1 < j + 1 /\ q2[j] = q[j + 1]
    BY <1>1, <1>2, <1>13
  <2> QED  BY <2>1, <1>5, <1>10
<1>12. FramesAre(q2, d, EndOf(q, 1), u)
  BY <1>7, <1>8, <1>9, <1>11, <1>13 DEF FramesAre
<1> QED  BY <1>1, <1>12 DEF q2

-----------------------------------------------------------------------------
(* onion_ringbuff_dmemcpy.                                                   *)

\* While queue is what the ring holds, head goes on by the frame, and there is
\* room for it.
LEMMA HeadMoves ==
  ASSUME RInv, NEW r \in Record, Memcpy(r), exact'
  PROVE  /\ exact /\ tail < Size /\ tail' = tail
         /\ Unwrapped' = Unwrapped + FrameLength(r)
         /\ Unwrapped - tail + FrameLength(r) < Size
<1>1. exact /\ tail < Size /\ tail' = tail /\ head' = NextHead(r) /\ Fits(r)
      /\ (head >= tail => FrameLength(r) # Size - (head - tail))
  BY DEF Memcpy, RInv, FramesApart
<1> DEFINE L == FrameLength(r)
<1>2. /\ Size \in Nat \ {0} /\ L \in Nat /\ L <= Size
      /\ head \in Nat /\ head < Size /\ tail \in Nat
  BY FrameFits DEF RInv, TypeOK
<1>3. bytes_free >= L
  BY <1>1 DEF Fits
<1> HIDE DEF L
<1>4. Unwrapped - tail + L < Size
  <2>1. CASE head >= tail
    BY <2>1, <1>1, <1>2, <1>3 DEF bytes_free, Unwrapped, L
  <2>2. CASE ~(head >= tail)
    BY <2>2, <1>2, <1>3 DEF bytes_free, Unwrapped
  <2> QED  BY <2>1, <2>2
<1>5. head' = IF head + L < Size THEN head + L ELSE head + L - Size
  <2>1. head' = (head + L) % Size
    BY <1>1 DEF NextHead, L
  <2>2. PICK a \in Nat : a = head + L
    BY <1>2
  <2>3. a < 2 * Size /\ a < 3 * Size
    BY <2>2, <1>2
  <2>4. PICK i \in 0 .. Size - 1 : a % Size = i /\ (a = i \/ a = i + Size \/ a = i + 2 * Size)
    BY <2>3, <1>2, RemainderOf
  <2>5. i = IF head + L < Size THEN head + L ELSE head + L - Size
    BY <2>2, <2>3, <2>4, <1>2
  <2>6. head' = i
    BY <2>1, <2>2, <2>4
  <2> QED  BY <2>5, <2>6
<1>6. Unwrapped' = IF head' < tail THEN head' + Size ELSE head'
  BY <1>1 DEF Unwrapped
<1>7. Unwrapped' = Unwrapped + L
  <2> DEFINE h == head'
  <2>1. h = (IF head + L < Size THEN head + L ELSE head + L - Size)
        /\ Unwrapped' = IF h < tail THEN h + Size ELSE h
    BY <1>5, <1>6
  <2> HIDE DEF h
  <2>2. CASE head < tail
    BY <2>1, <2>2, <1>2, <1>4, <1>1 DEF Unwrapped
  <2>3. CASE ~(head < tail)
    BY <2>1, <2>3, <1>2, <1>4, <1>1 DEF Unwrapped
  <2> QED  BY <2>2, <2>3
<1> QED  BY <1>1, <1>4, <1>7 DEF L

\* The cells from head on get the frame and the cells before it, back to tail,
\* keep what they are.
LEMMA CellsWritten ==
  ASSUME RInv, NEW r \in Record, tail < Size,
         Unwrapped - tail + FrameLength(r) < Size
  PROVE  /\ \A j \in 1 .. FrameLength(r) : Written(r)[(Unwrapped + j - 1) % Size] = <<r, j>>
         /\ \A p \in Nat : tail <= p /\ p < Unwrapped => Written(r)[p % Size] = data[p % Size]
<1> DEFINE L == FrameLength(r)
           U == Unwrapped
<1>1. /\ Size \in Nat \ {0} /\ L \in Nat /\ L <= Size
      /\ head \in Nat /\ head < Size /\ tail \in Nat /\ tail < Size
      /\ U = head \/ U = head + Size
      /\ U \in Nat /\ tail <= U /\ U - tail + L < Size
  <2>1. TypeOK /\ Size \in Nat \ {0} /\ L \in Nat /\ L <= Size
    BY FrameFits DEF RInv
  <2>2. head \in Nat /\ head < Size /\ tail \in Nat
    BY <2>1 DEF TypeOK
  <2>3. U \in Nat /\ tail <= U
    BY <2>1, Busy
  <2>4. U = head \/ U = head + Size
    BY DEF Unwrapped
  <2> QED  BY <2>1, <2>2, <2>3, <2>4
<1>2. \A i \in 0 .. Size - 1 :
        Written(r)[i] = IF (i + Size - head) % Size < L
                        THEN <<r, ((i + Size - head) % Size) + 1>> ELSE data[i]
  BY DEF Written
<1> HIDE DEF L, U
<1>3. ASSUME NEW j \in 1 .. L  PROVE Written(r)[(U + j - 1) % Size] = <<r, j>>
  <2>1. PICK a \in Nat : a = U + j - 1
    BY <1>1
  <2>2. a < 3 * Size /\ U <= a
    BY <2>1, <1>1
  <2>3. PICK i \in 0 .. Size - 1 :
               a % Size = i /\ (a = i \/ a = i + Size \/ a = i + 2 * Size)
    BY <2>2, <1>1, RemainderOf
  <2>5. PICK b \in Nat : b = i + Size - head
    BY <1>1
  <2>6. b = j - 1 \/ b = j - 1 + Size
    BY <2>1, <2>3, <2>5, <1>1
  <2>7. j - 1 \in Nat /\ j - 1 < Size /\ j - 1 < L
    BY <1>1
  <2>8. b % Size = j - 1
    BY <2>6, <2>7, <1>1, RemainderIs
  <2>9. Written(r)[i] = <<r, j - 1 + 1>>
    BY <1>2, <2>5, <2>7, <2>8
  <2> QED  BY <2>1, <2>3, <2>9
<1>4. ASSUME NEW p \in Nat, tail <= p, p < U
      PROVE  Written(r)[p % Size] = data[p % Size]
  <2>1. p < 2 * Size
    BY <1>1, <1>4
  <2>2. p < 3 * Size
    BY <2>1, <1>1
  <2>3. PICK i \in 0 .. Size - 1 :
               p % Size = i /\ (p = i \/ p = i + Size \/ p = i + 2 * Size)
    BY <2>2, <1>1, RemainderOf
  <2>4. PICK b \in Nat : b = i + Size - head
    BY <1>1
  <2>5. b = p - U + Size \/ b = p - U + 2 * Size
    BY <2>1, <2>3, <2>4, <1>1, <1>4
  <2>6. b % Size = p - U + Size
    <3>1. p - U + Size \in Nat /\ p - U + Size < Size
      BY <1>1, <1>4
    <3>2. b = p - U + Size \/ b = p - U + Size + Size
      BY <2>5, <1>1
    <3> DEFINE m == p - U + Size
    <3>3. m \in Nat /\ m < Size /\ (b = m \/ b = m + Size)
      BY <3>1, <3>2
    <3> HIDE DEF m
    <3>4. b % Size = m
      BY <3>3, <1>1, RemainderIs
    <3> QED  BY <3>4 DEF m
  <2>7. ~(p - U + Size < L)
    BY <1>1, <1>4
  <2> QED  BY <1>2, <2>3, <2>4, <2>6, <2>7
<1> QED  BY <1>3, <1>4 DEF L, U

LEMMA MemcpyKeeps ==
  ASSUME RInv, NEW r \in Record, Memcpy(r)
  PROVE  RInv'
<1>1. /\ TypeOK /\ Size \in Nat \ {0}
      /\ data' = Written(r) /\ head' = NextHead(r) /\ tail' = tail /\ fault' = fault
      /\ exact' \in BOOLEAN
      /\ queue' = IF exact' THEN Append(queue, [rec |-> r, from |-> Unwrapped]) ELSE <<>>
  BY RingAssumption DEF RInv, TypeOK, Memcpy
<1>2. head' \in 0 .. Size - 1
  <2>1. PICK a \in Nat : a = head + FrameLength(r)
    BY <1>1, FrameFits DEF TypeOK
  <2>2. a % Size \in 0 .. Size - 1
    BY <1>1, Remainder
  <2> QED  BY <1>1, <2>1, <2>2 DEF NextHead
<1>3. data' \in [0 .. Size - 1 -> (Record \cup {0}) \X Nat]
  <2>1. ASSUME NEW i \in 0 .. Size - 1
        PROVE  /\ data[i] \in (Record \cup {0}) \X Nat
               /\ <<r, ((i + Size - head) % Size) + 1>> \in (Record \cup {0}) \X Nat
    <3>1. PICK b \in Nat : b = i + Size - head
      BY <1>1 DEF TypeOK
    <3>2. b % Size \in Nat
      BY <1>1, Remainder
    <3>3. (b % Size) + 1 \in Nat
      BY <3>2
    <3> QED  BY <1>1, <3>1, <3>3 DEF TypeOK
  <2> QED  BY <1>1, <2>1 DEF Written
<1>4. queue \in Seq(Entry)
  BY <1>1 DEF TypeOK, Entry
<1>5. CASE ~exact'
  <2>1. TypeOK'
    BY <1>1, <1>2, <1>3, <1>5 DEF TypeOK
  <2> QED  BY <2>1, <1>5 DEF RInv, FramesApart
<1>6. CASE exact'
  <2>1. /\ exact /\ tail < Size
        /\ Unwrapped' = Unwrapped + FrameLength(r)
        /\ Unwrapped - tail + FrameLength(r) < Size
    BY <1>6, HeadMoves
  <2>2. Unwrapped \in Nat /\ tail \in Nat /\ tail <= Unwrapped
        /\ FramesAre(queue, data, tail, Unwrapped)
    BY <1>1, <2>1, Busy DEF TypeOK, RInv, FramesApart
  <2>3. queue' = Append(queue, [rec |-> r, from |-> Unwrapped])
    BY <1>1, <1>6
  <2>4. FramesAre(queue', data', tail', Unwrapped')
    <3>1. PICK u \in Nat : u = Unwrapped
      BY <2>2
    <3>2. /\ \A j \in 1 .. FrameLength(r) : Written(r)[(u + j - 1) % Size] = <<r, j>>
          /\ \A p \in Nat : tail <= p /\ p < u => Written(r)[p % Size] = data[p % Size]
      BY <2>1, <3>1, CellsWritten
    <3>3. tail \in Nat /\ tail <= u /\ FramesAre(queue, data, tail, u)
      BY <2>2, <3>1
    <3>4. FramesAre(Append(queue, [rec |-> r, from |-> u]), Written(r), tail, u + FrameLength(r))
      BY <1>4, <3>2, <3>3, FramesGrow
    <3> QED  BY <1>1, <2>1, <2>3, <3>1, <3>4
  <2>5. queue' \in Seq([rec : Record, from : Nat])
    BY <1>4, <2>2, <2>3 DEF Entry
  <2>6. TypeOK'
    BY <1>1, <1>2, <1>3, <2>5 DEF TypeOK
  <2> QED  BY <1>1, <2>1, <2>4, <2>6 DEF RInv, FramesApart
<1> QED  BY <1>5, <1>6

-----------------------------------------------------------------------------
(* onion_ringbuff_extract.                                                   *)

\* What is read at tail is the header of the oldest record.
LEMMA OldestAtTail ==
  ASSUME RInv, exact, bytes_busy >= Header
  PROVE  /\ queue \in Seq(Entry) /\ queue # <<>> /\ 1 \in 1 .. Len(queue)
         /\ queue[1].from = tail /\ tail \in Nat /\ tail < Size
         /\ queue[1].rec \in Record
         /\ EndOf(queue, 1) <= Unwrapped
         /\ \A j \in 1 .. FrameLength(queue[1].rec) :
              data[(tail + j - 1) % Size] = <<queue[1].rec, j>>
         /\ Lengths = {Length[queue[1].rec]}
<1>1. /\ TypeOK /\ queue \in Seq(Entry) /\ tail \in Nat /\ tail < Size
      /\ FramesAre(queue, data, tail, Unwrapped)
      /\ Size \in Nat \ {0} /\ Header \in Nat \ {0}
  BY RingAssumption DEF RInv, FramesApart, TypeOK, Entry
<1>2. Unwrapped # tail
  BY <1>1, Busy
<1>3. queue # <<>> /\ 1 \in 1 .. Len(queue)
  BY <1>1, <1>2 DEF FramesAre
<1>4. queue[1].from = tail /\ EndOf(queue, 1) <= Unwrapped
      /\ \A j \in 1 .. FrameLength(queue[1].rec) :
           data[(tail + j - 1) % Size] = <<queue[1].rec, j>>
  BY <1>1, <1>3 DEF FramesAre
<1>5. PICK r \in Record : r = queue[1].rec
  BY <1>1, <1>3, EntryIs
<1>6. \A j \in 1 .. Header : j \in 1 .. FrameLength(r)
  BY <1>1, FrameFits
<1>7. HeaderAtTail(r)
  BY <1>4, <1>5, <1>6 DEF HeaderAtTail
<1>8. ASSUME NEW s \in Record, HeaderAtTail(s)  PROVE s = r
  <2>1. 1 \in 1 .. Header
    BY <1>1
  <2>2. data[(tail + 1 - 1) % Size] = <<s, 1>> /\ data[(tail + 1 - 1) % Size] = <<r, 1>>
    BY <1>7, <1>8, <2>1 DEF HeaderAtTail
  <2> QED  BY <2>2
<1>9. {s \in Record : HeaderAtTail(s)} = {r}
  BY <1>7, <1>8
<1>10. ~(tail > Size)
  BY <1>1
<1>11. Lengths = {Length[r]}
  BY <1>7, <1>9, <1>10 DEF Lengths
<1> QED  BY <1>1, <1>3, <1>4, <1>5, <1>11

LEMMA ExtractKeeps ==
  ASSUME RInv, Extract
  PROVE  RInv'
<1>1. PICK read \in Lengths :
        /\ read # 0
        /\ IF Overruns(read)
           THEN fault' = TRUE /\ UNCHANGED <<tail, out, queue, exact>>
           ELSE /\ out' = Copied(read)
                /\ tail' = NextTail(read)
                /\ exact' = (exact /\ DataOffset + read < Size)
                /\ queue' = IF exact' THEN Tail(queue) ELSE <<>>
                /\ UNCHANGED fault
  BY DEF Extract
<1>2. TypeOK /\ head' = head /\ data' = data /\ bytes_busy >= Header
      /\ Size \in Nat \ {0} /\ Header \in Nat \ {0} /\ tail \in Nat
  BY RingAssumption DEF Extract, RInv, TypeOK
<1>3. read \in Int
  BY <1>2, RingAssumption DEF Lengths
<1>4. CASE Overruns(read)
  <2>1. TypeOK' /\ Unwrapped' = Unwrapped
    BY <1>1, <1>2, <1>4 DEF TypeOK, Unwrapped
  <2> QED  BY <2>1, <1>1, <1>2, <1>4 DEF RInv, FramesApart
<1>5. CASE ~Overruns(read)
  <2>1. read \in Nat
    BY <1>3, <1>5 DEF Overruns
  <2>2. /\ tail' = NextTail(read) /\ exact' = (exact /\ DataOffset + read < Size)
        /\ queue' = IF exact' THEN Tail(queue) ELSE <<>>
        /\ fault' = fault
    BY <1>1, <1>5
  <2>3. tail' \in Nat /\ (DataOffset + read < Size => tail' = tail + read + Header)
    BY <1>2, <2>1, <2>2 DEF NextTail, DataOffset, Second
  <2>4. exact' \in BOOLEAN /\ fault' \in BOOLEAN /\ head' \in 0 .. Size - 1
        /\ data' \in [0 .. Size - 1 -> (Record \cup {0}) \X Nat]
    BY <1>2, <2>2 DEF TypeOK
  <2>5. CASE ~exact'
    <3>1. TypeOK'
      BY <2>2, <2>3, <2>4, <2>5 DEF TypeOK
    <3> QED  BY <3>1, <2>5 DEF RInv, FramesApart
  <2>6. CASE exact'
    <3>1. exact /\ DataOffset + read < Size /\ queue' = Tail(queue)
      BY <2>2, <2>6
    <3>2. /\ queue \in Seq(Entry) /\ queue # <<>> /\ 1 \in 1 .. Len(queue)
          /\ queue[1].from = tail /\ tail < Size /\ queue[1].rec \in Record
          /\ EndOf(queue, 1) <= Unwrapped
          /\ read = Length[queue[1].rec]
      BY <1>1, <1>2, <3>1, OldestAtTail
    <3>3. EndOf(queue, 1) = tail + (Header + read)
      BY <3>2, FrameFits DEF EndOf
    <3>4. tail' = EndOf(queue, 1) /\ tail' < Size
      BY <1>2, <2>1, <2>3, <3>1, <3>3 DEF DataOffset
    <3>5. Unwrapped' = Unwrapped
      <4> DEFINE t == tail'
      <4>1. t \in Nat /\ tail <= t /\ t <= Unwrapped /\ t < Size
        BY <1>2, <2>1, <3>2, <3>3, <3>4
      <4>2. Unwrapped' = IF head < t THEN head + Size ELSE head
        BY <1>2 DEF Unwrapped
      <4> HIDE DEF t
      <4> QED  BY <1>2, <4>1, <4>2 DEF Unwrapped, TypeOK
    <3>6. FramesAre(queue, data, tail, Unwrapped) /\ Unwrapped \in Nat
      BY <1>2, <3>1, <3>2, Busy DEF RInv, FramesApart
    <3>7. queue' \in Seq(Entry) /\ FramesAre(queue', data', tail', Unwrapped')
      BY <1>2, <3>1, <3>2, <3>4, <3>5, <3>6, FramesShrink
    <3>8. TypeOK'
      BY <2>3, <2>4, <3>7 DEF TypeOK, Entry
    <3> QED  BY <3>4, <3>7, <3>8 DEF RInv, FramesApart
  <2> QED  BY <2>5, <2>6
<1> QED  BY <1>4, <1>5

-----------------------------------------------------------------------------
(* The theorems.                                                             *)

LEMMA ResetKeeps == RInv /\ Reset => RInv'
<1> SUFFICES ASSUME RInv, Reset  PROVE RInv'
  OBVIOUS
<1>1. /\ Size \in Nat \ {0} /\ TypeOK
      /\ head' = 0 /\ tail' = 0 /\ queue' = <<>> /\ data' = data /\ fault' = fault /\ exact' = TRUE
  BY RingAssumption DEF RInv, Reset
<1>2. TypeOK'
  BY <1>1 DEF TypeOK
<1>3. Unwrapped' = 0
  BY <1>1 DEF Unwrapped
<1>4. FramesAre(queue', data', tail', Unwrapped')
  BY <1>1, <1>3 DEF FramesAre
<1> QED  BY <1>1, <1>2, <1>4 DEF RInv, FramesApart

LEMMA StutterKeeps == RInv /\ UNCHANGED vars => RInv'
<1> SUFFICES ASSUME RInv, UNCHANGED vars  PROVE RInv'
  OBVIOUS
<1>1. /\ TypeOK' /\ Unwrapped' = Unwrapped
      /\ exact' = exact /\ tail' = tail /\ queue' = queue /\ data' = data
  BY DEF RInv, TypeOK, Unwrapped, vars
<1> QED  BY <1>1 DEF RInv, FramesApart

LEMMA RNext == RInv /\ [Next]_vars => RInv'
<1> SUFFICES ASSUME RInv, [Next]_vars  PROVE RInv'
  OBVIOUS
<1>1. ASSUME NEW r \in Record, Memcpy(r)  PROVE RInv'
  BY <1>1, MemcpyKeeps
<1>2. CASE Extract
  BY <1>2, ExtractKeeps
<1>3. CASE Reset
  BY <1>3, ResetKeeps
<1>4. CASE UNCHANGED vars
  BY <1>4, StutterKeeps
<1> QED  BY <1>1, <1>2, <1>3, <1>4 DEF Next

LEMMA RingInvariant == Spec => []RInv
BY RInit, RNext, PTL DEF Spec

\* The variables of the ring buffer have their types.
THEOREM RingTypeOK == Spec => []TypeOK
<1>1. RInv => TypeOK
  BY DEF RInv
<1> QED  BY <1>1, RingInvariant, PTL

\* onion_ringbuff_dmemcpy and onion_ringbuff_extract keep the frames whole, in
\* order and disjoint, for any ring and records of any length.
THEOREM RingFramesInOrder == Spec => []FramesInOrder
BY Ordered, RingInvariant, PTL

\* onion_ringbuff_extract copies the oldest record, over the end of the ring
\* too, and nothing else.
LEMMA ExtractCopies ==
  ASSUME RInv, exact, Extract, tail + Header <= Size
  PROVE  ~fault' /\ out' = Payload(Head(queue).rec)
<1>1. bytes_busy >= Header
  BY DEF Extract
<1>2. PICK r \in Record : r = queue[1].rec
  BY <1>1, OldestAtTail
<1>3. /\ Head(queue).rec = r /\ Lengths = {Length[r]} /\ tail \in Nat /\ tail < Size
      /\ \A j \in 1 .. FrameLength(r) : data[(tail + j - 1) % Size] = <<r, j>>
  BY <1>1, <1>2, OldestAtTail
<1>4. /\ Size \in Nat \ {0} /\ Header \in Nat \ {0} /\ Length[r] \in Nat
      /\ FrameLength(r) = Header + Length[r] /\ Header + Length[r] <= Size
  BY FrameFits
<1>5. ~Overruns(Length[r])
  BY <1>3, <1>4 DEF Overruns, DataOffset, Second
<1>6. ~fault' /\ out' = Copied(Length[r])
  BY <1>3, <1>5 DEF Extract
<1>7. ASSUME NEW k \in 1 .. Length[r]
      PROVE  ByteAt(DataOffset + k - 1) = <<r, Header + k>>
  <2>1. PICK a \in Nat : a = DataOffset + k - 1 /\ a = tail + (Header + k) - 1
    BY <1>3, <1>4 DEF DataOffset
  <2>2. Header + k \in 1 .. FrameLength(r) /\ a < 2 * Size
    BY <1>3, <1>4, <2>1
  <2>3. data[a % Size] = <<r, Header + k>>
    BY <1>3, <2>1, <2>2
  <2>4. ByteAt(a) = <<r, Header + k>>
    <3>1. CASE a < Size
      <4>1. a % Size = a
        BY <1>4, <3>1, Remainder
      <4> QED  BY <2>3, <3>1, <4>1 DEF ByteAt
    <3>2. CASE ~(a < Size)
      <4>1. Size <= a /\ a - Size < Size
        BY <1>4, <2>1, <2>2, <3>2
      <4>2. a % Size = a - Size
        BY <1>4, <2>2, <4>1, Remainder
      <4>3. data[a - Size] = <<r, Header + k>>
        BY <2>3, <4>2
      <4> QED  BY <3>2, <4>1, <4>3 DEF ByteAt
    <3> QED  BY <3>1, <3>2
  <2> QED  BY <2>1, <2>4
<1>8. Copied(Length[r]) = Payload(r)
  BY <1>7 DEF Copied, Payload
<1> QED  BY <1>3, <1>6, <1>8

\* What extract hands out, at every step of every behaviour.
THEOREM RingExtractsOldest == Spec => ExtractsOldest
<1>1. RInv => [exact /\ Extract /\ tail + Header <= Size =>
                 ~fault' /\ out' = Payload(Head(queue).rec)]_vars
  BY ExtractCopies
<1> QED  BY <1>1, RingInvariant, PTL DEF ExtractsOldest

=============================================================================
