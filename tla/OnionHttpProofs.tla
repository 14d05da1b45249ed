--------------------------- MODULE OnionHttpProofs ---------------------------
(***************************************************************************)
(* What holds of buffer, request and parser for messages of every kind and *)
(* length, cut into pieces anywhere but so that no piece holds bytes of    *)
(* two messages: a request that is ready is the message that was sent, and *)
(* every acceptable message becomes one.  Once a message is begun before   *)
(* all of the one before is handed over, the requests made until then stay *)
(* what they are; nothing more is proved.                                  *)
(*                                                                         *)
(* The lemmas follow a message on its way: its tokens on the wire, the     *)
(* buffer that collects them, the start line, the header fields, the body  *)
(* by its length and in chunks.  ArrivedParsed joins them: whatever number *)
(* of tokens has arrived, parsing leaves the state that belongs to it.     *)
(***************************************************************************)
EXTENDS OnionHttp, SequenceTheorems, FiniteSetTheorems, WellFoundedInduction, TLAPS

-----------------------------------------------------------------------------
(* Numbers and sequences.                                                    *)

\* A set of naturals that is not empty has a lowest element.
LEMMA LowestOf ==
  ASSUME NEW S \in SUBSET Nat, S # {}
  PROVE  \E m \in S : \A q \in S : m <= q
<1> DEFINE R == {ss \in Nat \X Nat : ss[1] < ss[2]}
<1>1. IsWellFoundedOn(R, Nat)
  BY NatLessThanWellFounded DEF OpToRel
<1>2. PICK m \in S : \A q \in S : ~(<<q, m>> \in R)
  BY <1>1, WFMin
<1>3. ASSUME NEW q \in S  PROVE m <= q
  <2>1. ~(<<q, m>> \in {ss \in Nat \X Nat : ss[1] < ss[2]})
    BY <1>2
  <2>2. q \in Nat /\ m \in Nat
    OBVIOUS
  <2> QED  BY <2>1, <2>2
<1> QED  BY <1>3

LEMMA MinIs ==
  ASSUME NEW S \in SUBSET Nat, S # {}
  PROVE  Min(S) \in S /\ \A q \in S : Min(S) <= q
BY LowestOf DEF Min

\* The beginning and the end of a sequence.
LEMMA Beginning ==
  ASSUME NEW T, NEW s \in Seq(T), NEW n \in 0 .. Len(s)
  PROVE  /\ SubSeq(s, 1, n) \in Seq(T) /\ Len(SubSeq(s, 1, n)) = n
         /\ \A i \in 1 .. n : SubSeq(s, 1, n)[i] = s[i]
<1>1. \A i \in 1 .. n : s[i] \in T
  BY ElementOfSeq
<1>2. Len(s) \in Nat /\ n \in Int
  BY LenProperties
<1> QED  BY <1>1, <1>2, SubSeqProperties

LEMMA Ending ==
  ASSUME NEW T, NEW s \in Seq(T), NEW n \in 0 .. Len(s)
  PROVE  LET e == SubSeq(s, n + 1, Len(s))
         IN  /\ e \in Seq(T) /\ Len(e) = Len(s) - n
             /\ \A i \in 1 .. Len(s) - n : e[i] = s[n + i]
<1>1. Len(s) \in Nat /\ n \in Nat /\ n <= Len(s)
  BY LenProperties
<1>2. \A i \in n + 1 .. Len(s) : s[i] \in T
  <2>1. \A i \in 1 .. Len(s) : s[i] \in T
    BY ElementOfSeq
  <2> QED  BY <2>1, <1>1
<1>3. n + 1 \in Int /\ Len(s) \in Int /\ Len(s) - (n + 1) + 1 = Len(s) - n
  BY <1>1
<1> DEFINE e == SubSeq(s, n + 1, Len(s))
<1>4. /\ e \in Seq(T)
      /\ Len(e) = IF n + 1 <= Len(s) THEN Len(s) - (n + 1) + 1 ELSE 0
      /\ \A i \in 1 .. Len(s) - (n + 1) + 1 : e[i] = s[n + 1 + i - 1]
  BY <1>2, <1>3, SubSeqProperties
<1> HIDE DEF e
<1>5. Len(e) = Len(s) - n
  BY <1>1, <1>4
<1>6. ASSUME NEW i \in 1 .. Len(s) - n  PROVE e[i] = s[n + i]
  <2>1. i \in 1 .. Len(s) - (n + 1) + 1 /\ n + 1 + i - 1 = n + i
    BY <1>1
  <2> QED  BY <2>1, <1>4
<1> QED  BY <1>4, <1>5, <1>6 DEF e

\* A sequence is made of its beginning and what follows.
LEMMA Halves ==
  ASSUME NEW T, NEW s \in Seq(T), NEW n \in 0 .. Len(s)
  PROVE  SubSeq(s, 1, n) \o SubSeq(s, n + 1, Len(s)) = s
<1>1. Len(s) \in Nat
  BY LenProperties
<1>2. 1 \in 1 .. Len(s) + 1 /\ n \in 1 - 1 .. Len(s) /\ Len(s) \in n .. Len(s)
  BY <1>1
<1>3. SubSeq(s, 1, n) \o SubSeq(s, n + 1, Len(s)) = SubSeq(s, 1, Len(s))
  BY <1>2, ConcatAdjacentSubSeq
<1> QED  BY <1>3, SubSeqFull

\* What a piece taken from the rest of s adds to its beginning.
LEMMA PieceOf ==
  ASSUME NEW T, NEW s \in Seq(T), NEW n \in 0 .. Len(s), NEW k \in 0 .. Len(s) - n
  PROVE  LET rest == SubSeq(s, n + 1, Len(s)) IN
         /\ SubSeq(s, 1, n) \o SubSeq(rest, 1, k) = SubSeq(s, 1, n + k)
         /\ SubSeq(rest, k + 1, Len(rest)) = SubSeq(s, n + k + 1, Len(s))
<1> DEFINE rest == SubSeq(s, n + 1, Len(s))
           piece == SubSeq(rest, 1, k)
           end == SubSeq(rest, k + 1, Len(rest))
<1>1. Len(s) \in Nat /\ n \in Nat /\ k \in Nat /\ n + k \in 0 .. Len(s)
  BY LenProperties
<1>2. /\ rest \in Seq(T) /\ Len(rest) = Len(s) - n
      /\ \A i \in 1 .. Len(s) - n : rest[i] = s[n + i]
  BY Ending
<1> HIDE DEF rest
<1>3. k \in 0 .. Len(rest)
  BY <1>2
<1>4. piece \in Seq(T) /\ Len(piece) = k /\ \A i \in 1 .. k : piece[i] = rest[i]
  BY <1>2, <1>3, Beginning
<1>5. /\ end \in Seq(T) /\ Len(end) = Len(rest) - k
      /\ \A i \in 1 .. Len(rest) - k : end[i] = rest[k + i]
  BY <1>2, <1>3, Ending
<1> DEFINE head == SubSeq(s, 1, n)
           longer == SubSeq(s, 1, n + k)
           tail == SubSeq(s, n + k + 1, Len(s))
<1>6. head \in Seq(T) /\ Len(head) = n /\ \A i \in 1 .. n : head[i] = s[i]
  BY Beginning
<1>7. longer \in Seq(T) /\ Len(longer) = n + k /\ \A i \in 1 .. n + k : longer[i] = s[i]
  BY <1>1, Beginning
<1>8. /\ tail \in Seq(T) /\ Len(tail) = Len(s) - (n + k)
      /\ \A i \in 1 .. Len(s) - (n + k) : tail[i] = s[n + k + i]
  BY <1>1, Ending
<1> HIDE DEF piece, end, head, longer, tail
<1>9. /\ head \o piece \in Seq(T) /\ Len(head \o piece) = n + k
      /\ \A i \in 1 .. n + k : (head \o piece)[i] = IF i <= n THEN head[i] ELSE piece[i - n]
  <2>1. /\ head \o piece \in Seq(T) /\ Len(head \o piece) = Len(head) + Len(piece)
        /\ \A i \in 1 .. Len(head) + Len(piece) :
             (head \o piece)[i] = IF i <= Len(head) THEN head[i] ELSE piece[i - Len(head)]
    BY <1>4, <1>6, ConcatProperties
  <2> QED  BY <2>1, <1>4, <1>6
<1>10. head \o piece = longer
  <2>1. ASSUME NEW i \in 1 .. n + k  PROVE (head \o piece)[i] = longer[i]
    <3>1. CASE i <= n
      <4>1. i \in 1 .. n
        BY <3>1, <1>1
      <4> QED  BY <3>1, <4>1, <1>6, <1>7, <1>9
    <3>2. CASE ~(i <= n)
      <4>1. i - n \in 1 .. k /\ i - n \in 1 .. Len(s) - n /\ n + (i - n) = i
        BY <3>2, <1>1
      <4>2. piece[i - n] = rest[i - n] /\ rest[i - n] = s[n + (i - n)]
        BY <4>1, <1>2, <1>4
      <4> QED  BY <3>2, <4>1, <4>2, <1>7, <1>9
    <3> QED  BY <3>1, <3>2
  <2>2. Len(head \o piece) = Len(longer)
    BY <1>7, <1>9
  <2> QED  BY <2>1, <2>2, <1>7, <1>9, SeqEqual
<1>11. end = tail
  <2>1. Len(end) = Len(tail) /\ Len(end) = Len(s) - (n + k)
    BY <1>1, <1>2, <1>5, <1>8
  <2>2. ASSUME NEW i \in 1 .. Len(s) - (n + k)  PROVE end[i] = tail[i]
    <3>1. /\ i \in 1 .. Len(rest) - k /\ k + i \in 1 .. Len(s) - n
          /\ n + (k + i) = n + k + i
      BY <1>1, <1>2
    <3>2. end[i] = rest[k + i] /\ rest[k + i] = s[n + (k + i)]
      BY <3>1, <1>2, <1>5
    <3> QED  BY <3>1, <3>2, <1>8
  <2> QED  BY <2>1, <2>2, <1>5, <1>8, SeqEqual
<1> QED  BY <1>10, <1>11 DEF head, piece, longer, end, tail, rest

\* Concatenation, for one use of it.
LEMMA Joined ==
  ASSUME NEW T, NEW a \in Seq(T), NEW b \in Seq(T), NEW c, c = a \o b
  PROVE  /\ c \in Seq(T) /\ Len(c) \in Nat /\ Len(a) \in Nat /\ Len(b) \in Nat
         /\ Len(c) = Len(a) + Len(b)
         /\ \A i \in 1 .. Len(a) : c[i] = a[i]
         /\ \A i \in 1 .. Len(b) : c[Len(a) + i] = b[i]
<1>1. /\ c \in Seq(T) /\ Len(c) = Len(a) + Len(b)
      /\ \A i \in 1 .. Len(a) + Len(b) : c[i] = IF i <= Len(a) THEN a[i] ELSE b[i - Len(a)]
  BY ConcatProperties
<1>2. Len(a) \in Nat /\ Len(b) \in Nat
  BY LenProperties
<1>3. ASSUME NEW i \in 1 .. Len(a)  PROVE c[i] = a[i]
  <2>1. i \in 1 .. Len(a) + Len(b) /\ i <= Len(a)
    BY <1>2
  <2> QED  BY <2>1, <1>1
<1>4. ASSUME NEW i \in 1 .. Len(b)  PROVE c[Len(a) + i] = b[i]
  <2>1. /\ Len(a) + i \in 1 .. Len(a) + Len(b) /\ ~(Len(a) + i <= Len(a))
        /\ Len(a) + i - Len(a) = i
    BY <1>2
  <2> QED  BY <2>1, <1>1
<1> QED  BY <1>1, <1>2, <1>3, <1>4

-----------------------------------------------------------------------------
(* FlattenSeq.                                                               *)

\* f tells, up to n, what the first sequences of q make when joined.
Joins(f, q, n) == f = [i \in 1 .. n |-> IF i = 1 THEN q[i] ELSE f[i - 1] \o q[i]]

LEMMA JoinsSteps ==
  ASSUME NEW T, NEW q \in Seq(Seq(T)), NEW n \in 0 .. Len(q), NEW f, Joins(f, q, n)
  PROVE  \A i \in 1 .. n :
           f[i] \in Seq(T) /\ f[i] = IF i = 1 THEN q[i] ELSE f[i - 1] \o q[i]
<1> DEFINE Step(i) == IF i = 1 THEN q[i] ELSE f[i - 1] \o q[i]
           Bad == {i \in 1 .. n : f[i] \notin Seq(T)}
<1>1. Len(q) \in Nat /\ n \in Nat /\ \A i \in 1 .. n : q[i] \in Seq(T)
  <2>1. Len(q) \in Nat /\ \A i \in 1 .. Len(q) : q[i] \in Seq(T)
    BY LenProperties, ElementOfSeq
  <2> QED  BY <2>1
<1>2. \A i \in 1 .. n : f[i] = Step(i)
  <2>1. f = [i \in 1 .. n |-> Step(i)]
    BY DEF Joins
  <2> HIDE DEF Step
  <2> QED  BY <2>1
<1>3. Bad = {}
  <2> SUFFICES ASSUME Bad # {}  PROVE FALSE
    OBVIOUS
  <2>1. Bad \in SUBSET Nat
    OBVIOUS
  <2>2. PICK i \in Bad : \A j \in Bad : i <= j
    BY <2>1, LowestOf
  <2>3. i \in 1 .. n /\ f[i] = Step(i) /\ q[i] \in Seq(T)
    BY <1>1, <1>2, <2>2
  <2>4. CASE i = 1
    BY <2>2, <2>3, <2>4
  <2>5. CASE i # 1
    <3>1. i - 1 \in 1 .. n /\ ~(i <= i - 1)
      BY <2>3, <2>5, <1>1
    <3>2. f[i - 1] \in Seq(T)
      BY <3>1, <2>2
    <3>3. f[i - 1] \o q[i] \in Seq(T)
      BY <3>2, <2>3, ConcatProperties
    <3> QED  BY <3>3, <2>2, <2>3, <2>5
  <2> QED  BY <2>4, <2>5
<1> QED  BY <1>2, <1>3

LEMMA JoinsExists ==
  ASSUME NEW T, NEW q \in Seq(Seq(T)), NEW n \in 0 .. Len(q)
  PROVE  \E f : Joins(f, q, n)
<1> DEFINE Bad == {i \in Nat : i <= n /\ ~ \E f : Joins(f, q, i)}
<1>1. Len(q) \in Nat /\ n \in Nat
  BY LenProperties
<1> SUFFICES ASSUME Bad # {}  PROVE FALSE
  <2>1. ~(\E f : Joins(f, q, n)) => n \in Bad
    BY <1>1
  <2> QED  BY <2>1
<1>2. Bad \in SUBSET Nat
  OBVIOUS
<1>10. PICK m \in Bad : \A j \in Bad : m <= j
  BY <1>2, LowestOf
<1>3. m \in Nat /\ m <= n
  BY <1>10
<1>4. m # 0
  <2> SUFFICES ASSUME m = 0  PROVE \E f : Joins(f, q, m)
    BY <1>10
  <2> DEFINE f == [i \in 1 .. 0 |-> q[i]]
  <2>1. f = [i \in 1 .. 0 |-> IF i = 1 THEN q[i] ELSE f[i - 1] \o q[i]]
    OBVIOUS
  <2> QED  BY <2>1 DEF Joins
<1>5. m - 1 \in Nat /\ m - 1 <= n /\ m - 1 \notin Bad
  <2>1. m - 1 \in Nat /\ m - 1 <= n /\ ~(m <= m - 1)
    BY <1>1, <1>3, <1>4
  <2> HIDE DEF Bad
  <2> QED  BY <2>1, <1>10
<1>6. PICK f : Joins(f, q, m - 1)
  BY <1>5
<1> DEFINE Step(g, i) == IF i = 1 THEN q[i] ELSE g[i - 1] \o q[i]
           g == [i \in 1 .. m |-> Step(f, i)]
<1>7. \A i \in 1 .. m - 1 : f[i] = Step(f, i)
  <2>1. f = [i \in 1 .. m - 1 |-> Step(f, i)]
    BY <1>6 DEF Joins
  <2> HIDE DEF Step
  <2> QED  BY <2>1
<1>8. \A i \in 1 .. m : Step(g, i) = Step(f, i)
  <2> SUFFICES ASSUME NEW i \in 1 .. m  PROVE Step(g, i) = Step(f, i)
    OBVIOUS
  <2>1. CASE i = 1
    BY <2>1
  <2>2. CASE i # 1
    <3>1. i - 1 \in 1 .. m - 1 /\ i - 1 \in 1 .. m
      BY <1>3, <2>2
    <3>2. g[i - 1] = Step(f, i - 1)
      <4> HIDE DEF Step
      <4> QED  BY <3>1
    <3>3. g[i - 1] = f[i - 1]
      BY <3>1, <3>2, <1>7
    <3> HIDE DEF g
    <3> QED  BY <3>3, <2>2
  <2> QED  BY <2>1, <2>2
<1>9. Joins(g, q, m)
  <2>1. g = [i \in 1 .. m |-> Step(g, i)]
    <3> HIDE DEF Step
    <3> QED  BY <1>8
  <2> HIDE DEF g
  <2> QED  BY <2>1 DEF Joins
<1> QED  BY <1>10, <1>9

LEMMA JoinsUnique ==
  ASSUME NEW T, NEW q \in Seq(Seq(T)), NEW n \in 0 .. Len(q), NEW m \in 0 .. n,
         NEW f, NEW g, Joins(f, q, n), Joins(g, q, m)
  PROVE  \A i \in 1 .. m : f[i] = g[i]
<1> DEFINE Bad == {i \in 1 .. m : f[i] # g[i]}
<1>1. Len(q) \in Nat /\ n \in Nat /\ m \in Nat /\ m <= n /\ m \in 0 .. Len(q)
  BY LenProperties
<1>2. \A i \in 1 .. n : f[i] = IF i = 1 THEN q[i] ELSE f[i - 1] \o q[i]
  BY JoinsSteps
<1>3. \A i \in 1 .. m : g[i] = IF i = 1 THEN q[i] ELSE g[i - 1] \o q[i]
  BY <1>1, JoinsSteps
<1> SUFFICES ASSUME Bad # {}  PROVE FALSE
  OBVIOUS
<1>4. PICK i \in Bad : \A j \in Bad : i <= j
  <2>1. Bad \in SUBSET Nat
    OBVIOUS
  <2> QED  BY <2>1, LowestOf
<1>5. i \in 1 .. m /\ i \in 1 .. n
  BY <1>1, <1>4
<1>6. i # 1
  BY <1>2, <1>3, <1>4, <1>5
<1>7. i - 1 \in 1 .. m /\ ~(i <= i - 1)
  BY <1>1, <1>5, <1>6
<1>8. f[i - 1] = g[i - 1]
  BY <1>4, <1>7
<1>9. f[i] = f[i - 1] \o q[i] /\ g[i] = g[i - 1] \o q[i]
  BY <1>2, <1>3, <1>5, <1>6
<1> QED  BY <1>4, <1>8, <1>9

LEMMA FlattenIs ==
  ASSUME NEW T, NEW q \in Seq(Seq(T)), Len(q) # 0
  PROVE  \E f : Joins(f, q, Len(q)) /\ FlattenSeq(q) = f[Len(q)]
<1> DEFINE f == CHOOSE f : Joins(f, q, Len(q))
<1>1. Len(q) \in 0 .. Len(q)
  BY LenProperties
<1>2. Joins(f, q, Len(q))
  BY <1>1, JoinsExists
<1>3. FlattenSeq(q) = f[Len(q)]
  BY DEF FlattenSeq, Joins
<1> QED  BY <1>2, <1>3

\* Joining one more sequence appends it.
LEMMA FlattenSteps ==
  ASSUME NEW T, NEW q \in Seq(Seq(T))
  PROVE  /\ FlattenSeq(SubSeq(q, 1, 0)) = <<>>
         /\ \A j \in 0 .. Len(q) : FlattenSeq(SubSeq(q, 1, j)) \in Seq(T)
         /\ \A j \in 1 .. Len(q) :
              FlattenSeq(SubSeq(q, 1, j)) = FlattenSeq(SubSeq(q, 1, j - 1)) \o q[j]
<1>1. Len(q) \in Nat
  BY LenProperties
<1>2. FlattenSeq(SubSeq(q, 1, 0)) = <<>>
  <2>1. SubSeq(q, 1, 0) = <<>>
    BY SubSeqEmpty
  <2> QED  BY <2>1 DEF FlattenSeq
<1>3. PICK f : Joins(f, q, Len(q))
  BY <1>1, JoinsExists
<1>4. \A i \in 1 .. Len(q) :
        f[i] \in Seq(T) /\ f[i] = IF i = 1 THEN q[i] ELSE f[i - 1] \o q[i]
  <2>1. Len(q) \in 0 .. Len(q)
    BY <1>1
  <2> QED  BY <1>3, <2>1, JoinsSteps
<1>5. ASSUME NEW j \in 1 .. Len(q)  PROVE FlattenSeq(SubSeq(q, 1, j)) = f[j]
  <2> DEFINE p == SubSeq(q, 1, j)
  <2>1. j \in 0 .. Len(q)
    BY <1>1
  <2>2. p \in Seq(Seq(T)) /\ Len(p) = j /\ \A i \in 1 .. j : p[i] = q[i]
    BY <2>1, Beginning
  <2> HIDE DEF p
  <2>3. PICK g : Joins(g, p, j) /\ FlattenSeq(p) = g[j]
    <3>1. p \in Seq(Seq(T)) /\ Len(p) # 0 /\ Len(p) = j
      BY <1>1, <2>2
    <3>2. \E g : Joins(g, p, Len(p)) /\ FlattenSeq(p) = g[Len(p)]
      BY ONLY <3>1, FlattenIs
    <3> QED  BY <3>1, <3>2
  <2>4. Joins(g, q, j)
    <3>1. \A i \in 1 .. j : (IF i = 1 THEN p[i] ELSE g[i - 1] \o p[i])
                             = (IF i = 1 THEN q[i] ELSE g[i - 1] \o q[i])
      BY <2>2
    <3> QED  BY <3>1, <2>3 DEF Joins
  <2>5. f[j] = g[j]
    BY <1>1, <1>3, <2>1, <2>4, JoinsUnique
  <2> QED  BY <2>3, <2>5 DEF p
<1>6. ASSUME NEW j \in 0 .. Len(q)  PROVE FlattenSeq(SubSeq(q, 1, j)) \in Seq(T)
  <2>1. CASE j = 0
    BY <2>1, <1>2, EmptySeq
  <2>2. CASE j # 0
    <3>1. j \in 1 .. Len(q)
      BY <2>2, <1>1
    <3> QED  BY <3>1, <1>4, <1>5
  <2> QED  BY <2>1, <2>2
<1>7. ASSUME NEW j \in 1 .. Len(q)
      PROVE  FlattenSeq(SubSeq(q, 1, j)) = FlattenSeq(SubSeq(q, 1, j - 1)) \o q[j]
  <2>1. f[j] \in Seq(T) /\ FlattenSeq(SubSeq(q, 1, j)) = f[j]
    BY <1>4, <1>5
  <2>2. CASE j = 1
    <3>1. f[j] = q[j] /\ j - 1 = 0
      BY <2>2, <1>4
    <3>2. <<>> \o q[j] = q[j]
      BY <3>1, <2>1, ConcatEmptySeq
    <3> QED  BY <3>1, <3>2, <2>1, <1>2
  <2>3. CASE j # 1
    <3>1. j - 1 \in 1 .. Len(q)
      BY <2>3, <1>1
    <3>2. FlattenSeq(SubSeq(q, 1, j - 1)) = f[j - 1]
      BY <3>1, <1>5
    <3> QED  BY <3>2, <2>1, <2>3, <1>4
  <2> QED  BY <2>2, <2>3
<1> QED  BY <1>2, <1>6, <1>7

\* What the first sequences of q make is the beginning of what more of them make.
LEMMA FlattenBegins ==
  ASSUME NEW T, NEW q \in Seq(Seq(T)), NEW i \in 0 .. Len(q), NEW j \in i .. Len(q)
  PROVE  LET short == FlattenSeq(SubSeq(q, 1, i))
             long  == FlattenSeq(SubSeq(q, 1, j))
         IN  /\ Len(short) \in Nat /\ Len(long) \in Nat /\ Len(short) <= Len(long)
             /\ \A x \in 1 .. Len(short) : long[x] = short[x]
<1> DEFINE F(l) == FlattenSeq(SubSeq(q, 1, l))
           Begins(l) == /\ Len(F(i)) <= Len(F(l))
                        /\ \A x \in 1 .. Len(F(i)) : F(l)[x] = F(i)[x]
           Bad == {l \in i .. Len(q) : ~Begins(l)}
<1>1. Len(q) \in Nat /\ i \in Nat /\ \A l \in i .. Len(q) : l \in 0 .. Len(q)
  BY LenProperties
<1>2. \A l \in 0 .. Len(q) : F(l) \in Seq(T) /\ Len(F(l)) \in Nat
  BY FlattenSteps, LenProperties
<1>3. \A l \in 1 .. Len(q) : F(l) = F(l - 1) \o q[l]
  BY FlattenSteps
<1> HIDE DEF F
<1>4. Bad = {}
  <2> SUFFICES ASSUME Bad # {}  PROVE FALSE
    OBVIOUS
  <2>1. Bad \in SUBSET Nat
    BY <1>1
  <2>2. PICK l \in Bad : \A o \in Bad : l <= o
    BY <2>1, LowestOf
  <2>3. l \in i .. Len(q) /\ ~Begins(l) /\ l # i
    BY <1>1, <1>2, <2>2
  <2>4. l - 1 \in i .. Len(q) /\ l - 1 \in 0 .. Len(q) /\ l \in 1 .. Len(q) /\ ~(l <= l - 1)
    BY <1>1, <2>3
  <2>5. Begins(l - 1)
    <3> HIDE DEF Begins
    <3> QED  BY <2>2, <2>4
  <2>6. q[l] \in Seq(T) /\ Len(q[l]) \in Nat
    BY <2>4, ElementOfSeq, LenProperties
  <2>7. /\ Len(F(l)) = Len(F(l - 1)) + Len(q[l])
        /\ \A x \in 1 .. Len(F(l - 1)) : F(l)[x] = F(l - 1)[x]
    <3>1. F(l) = F(l - 1) \o q[l] /\ F(l - 1) \in Seq(T)
      BY <1>2, <1>3, <2>4
    <3> HIDE DEF Begins, Bad
    <3> QED  BY <3>1, <2>6, Joined
  <2>8. Begins(l)
    <3>1. Len(F(i)) \in Nat /\ Len(F(l - 1)) \in Nat /\ Len(F(i)) <= Len(F(l - 1))
      <4>1. i \in 0 .. Len(q)
        BY <1>1
      <4> QED  BY <4>1, <1>2, <2>4, <2>5
    <3>2. Len(F(i)) <= Len(F(l))
      <4>1. Len(F(l)) = Len(F(l - 1)) + Len(q[l]) /\ Len(q[l]) \in Nat
        BY <2>6, <2>7
      <4>2. \A x, y, z \in Nat : x <= y => x <= y + z
        OBVIOUS
      <4> HIDE DEF Bad, Begins
      <4> QED  BY <3>1, <4>1, <4>2, Zenon
    <3>3. ASSUME NEW x \in 1 .. Len(F(i))  PROVE F(l)[x] = F(i)[x]
      <4>1. x \in 1 .. Len(F(l - 1))
        BY <3>1
      <4>2. F(l)[x] = F(l - 1)[x]
        BY <4>1, <2>7
      <4> QED  BY <4>2, <2>5
    <3> QED  BY <3>2, <3>3
  <2> QED  BY <2>3, <2>8
<1>5. Begins(j)
  BY <1>4
<1>6. i \in 0 .. Len(q) /\ j \in 0 .. Len(q)
  BY <1>1
<1> QED  BY <1>2, <1>5, <1>6 DEF F

-----------------------------------------------------------------------------
(* A message on the wire.                                                    *)

\* Where the header fields of a message end.
HeadEnd(m) == 2 * Len(m.fields) + 3

Pairs(m) == [i \in DOMAIN m.fields |-> <<m.fields[i], Crlf>>]

LEMMA CrlfIsToken ==
  Crlf \in Tokens /\ \A n \in Nat : Token("size", n) \in Tokens
<1>1. Crlf \in Tokens
  BY DEF Crlf, Token, Tokens
<1>2. ASSUME NEW n \in Nat  PROVE Token("size", n) \in Tokens
  BY DEF Token, Tokens
<1> QED  BY <1>1, <1>2

LEMMA SizeIsNoLineEnd ==
  ASSUME NEW n
  PROVE  Token("size", n) # Crlf /\ Token("size", n).kind = "size" /\ Token("size", n).n = n
<1>1. Token("size", n).kind = "size" /\ Crlf.kind = "crlf" /\ Token("size", n).n = n
  BY DEF Token, Crlf
<1> QED  BY <1>1

\* Fields and line ends take turns.
LEMMA FieldsOnWire ==
  ASSUME NEW m, IsFramed(m)
  PROVE  /\ Len(m.fields) \in Nat
         /\ FlattenSeq(Pairs(m)) \in Seq(Tokens)
         /\ Len(FlattenSeq(Pairs(m))) = 2 * Len(m.fields)
         /\ \A i \in 1 .. Len(m.fields) :
              /\ FlattenSeq(Pairs(m))[2 * i - 1] = m.fields[i]
              /\ FlattenSeq(Pairs(m))[2 * i] = Crlf
<1> DEFINE k == Len(m.fields)
           q == Pairs(m)
           F(l) == FlattenSeq(SubSeq(q, 1, l))
           Turns(l) == /\ Len(F(l)) = 2 * l
                       /\ \A i \in 1 .. l : F(l)[2 * i - 1] = m.fields[i] /\ F(l)[2 * i] = Crlf
           Bad == {l \in 0 .. k : ~Turns(l)}
<1>1. /\ m.fields \in Seq(Tokens \ {Crlf}) /\ k \in Nat /\ DOMAIN m.fields = 1 .. k
      /\ \A i \in 1 .. k : m.fields[i] \in Tokens
  BY LenProperties, ElementOfSeq DEF IsFramed
<1>2. \A i \in 1 .. k : <<m.fields[i], Crlf>> \in Seq(Tokens)
  BY <1>1, CrlfIsToken
<1>3. q \in Seq(Seq(Tokens)) /\ Len(q) = k /\ \A i \in 1 .. k : q[i] = <<m.fields[i], Crlf>>
  <2>1. q = [i \in 1 .. k |-> <<m.fields[i], Crlf>>]
    BY <1>1 DEF Pairs
  <2> HIDE DEF q, k
  <2>2. q \in [1 .. k -> Seq(Tokens)]
    BY <1>2, <2>1
  <2> QED  BY <1>1, <2>1, <2>2
<1>4. \A l \in 0 .. k : F(l) \in Seq(Tokens)
  BY <1>3, FlattenSteps
<1>5. \A l \in 1 .. k : F(l) = F(l - 1) \o q[l]
  BY <1>3, FlattenSteps
<1>6. F(0) = <<>>
  BY <1>3, FlattenSteps
<1>7. F(k) = FlattenSeq(q)
  BY <1>3, SubSeqFull
<1> HIDE DEF F, q, k
<1>8. Bad = {}
  <2> SUFFICES ASSUME Bad # {}  PROVE FALSE
    OBVIOUS
  <2>1. Bad \in SUBSET Nat
    OBVIOUS
  <2>2. PICK l \in Bad : \A o \in Bad : l <= o
    BY <2>1, LowestOf
  <2>3. l \in 0 .. k /\ ~Turns(l) /\ l # 0
    <3>1. Turns(0)
      BY <1>6
    <3> QED  BY <3>1, <2>2
  <2>4. l - 1 \in 0 .. k /\ l \in 1 .. k /\ ~(l <= l - 1)
    BY <1>1, <2>3
  <2>5. Turns(l - 1)
    <3> HIDE DEF Turns
    <3> QED  BY <2>2, <2>4
  <2>6. q[l] = <<m.fields[l], Crlf>> /\ q[l] \in Seq(Tokens)
    BY <1>2, <1>3, <2>4
  <2>7. /\ Len(F(l)) = Len(F(l - 1)) + Len(q[l])
        /\ \A x \in 1 .. Len(F(l - 1)) : F(l)[x] = F(l - 1)[x]
        /\ \A x \in 1 .. Len(q[l]) : F(l)[Len(F(l - 1)) + x] = q[l][x]
    <3>1. F(l) = F(l - 1) \o q[l] /\ F(l - 1) \in Seq(Tokens)
      BY <1>4, <1>5, <2>4
    <3> HIDE DEF Turns, Bad
    <3> QED  BY <3>1, <2>6, Joined
  <2>8. Len(q[l]) = 2 /\ q[l][1] = m.fields[l] /\ q[l][2] = Crlf
    BY <2>6
  <2>9. /\ l \in Nat /\ Len(F(l)) = 2 * l /\ Len(F(l - 1)) = 2 * l - 2
    <3>1. l \in Nat /\ Len(F(l - 1)) = 2 * l - 2
      BY <2>4, <2>5
    <3> QED  BY <3>1, <2>7, <2>8
  <2>10. ASSUME NEW i \in 1 .. l
         PROVE  F(l)[2 * i - 1] = m.fields[i] /\ F(l)[2 * i] = Crlf
    <3>1. CASE i = l
      <4>1. 2 * i - 1 = 2 * l - 2 + 1 /\ 2 * i = 2 * l - 2 + 2
        BY <2>9, <3>1
      <4>2. 1 \in 1 .. 2 /\ 2 \in 1 .. 2
        OBVIOUS
      <4>3. F(l)[2 * l - 2 + 1] = q[l][1] /\ F(l)[2 * l - 2 + 2] = q[l][2]
        BY <4>2, <2>7, <2>8, <2>9
      <4> QED  BY <4>1, <4>3, <2>8, <3>1
    <3>2. CASE i # l
      <4>1. i \in Int /\ l \in Int /\ 1 <= i /\ i <= l /\ i # l
        BY <2>9, <3>2
      <4>2. 2 * i - 1 \in 1 .. 2 * l - 2 /\ 2 * i \in 1 .. 2 * l - 2 /\ i \in 1 .. l - 1
        BY ONLY <4>1
      <4> QED  BY <4>2, <2>5, <2>7, <2>9
    <3> QED  BY <3>1, <3>2
  <2> QED  BY <2>3, <2>9, <2>10
<1>9. Turns(k)
  BY <1>1, <1>8
<1>10. F(k) \in Seq(Tokens)
  BY <1>1, <1>4
<1> QED  BY <1>1, <1>7, <1>9, <1>10 DEF q, k

\* One chunk as it is sent.
OnWire(chunk) == <<Token("size", Len(chunk)), Crlf>> \o chunk \o <<Crlf>>

Chunks(m) == [i \in DOMAIN m.body |-> OnWire(m.body[i])]

LEMMA ChunkOnWire ==
  ASSUME NEW c \in Seq(Tokens)
  PROVE  /\ OnWire(c) \in Seq(Tokens) /\ Len(c) \in Nat /\ Len(OnWire(c)) = Len(c) + 3
         /\ OnWire(c)[1] = Token("size", Len(c)) /\ OnWire(c)[2] = Crlf
         /\ \A i \in 1 .. Len(c) : OnWire(c)[2 + i] = c[i]
         /\ OnWire(c)[Len(c) + 3] = Crlf
<1> DEFINE size == Token("size", Len(c))
           head == <<size, Crlf>>
           end == <<Crlf>>
           front == head \o c
           joint == front \o end
<1>1. Len(c) \in Nat /\ size \in Tokens /\ Crlf \in Tokens
  BY LenProperties, CrlfIsToken
<1> HIDE DEF size
<1>2. /\ head \in Seq(Tokens) /\ Len(head) = 2 /\ head[1] = size /\ head[2] = Crlf
      /\ end \in Seq(Tokens) /\ Len(end) = 1 /\ end[1] = Crlf
  BY <1>1
<1> HIDE DEF head, end, front, joint
<1>3. /\ front \in Seq(Tokens) /\ Len(front) = 2 + Len(c)
      /\ \A i \in 1 .. 2 : front[i] = head[i]
      /\ \A i \in 1 .. Len(c) : front[2 + i] = c[i]
  <2>1. front = head \o c
    BY DEF front
  <2>3. head \in Seq(Tokens) /\ c \in Seq(Tokens)
    BY <1>2
  <2>2. /\ front \in Seq(Tokens) /\ Len(front) = Len(head) + Len(c)
        /\ \A i \in 1 .. Len(head) : front[i] = head[i]
        /\ \A i \in 1 .. Len(c) : front[Len(head) + i] = c[i]
    BY <2>1, <2>3, Joined
  <2> QED  BY <1>2, <2>2
<1>4. /\ joint \in Seq(Tokens) /\ Len(joint) = 2 + Len(c) + 1
      /\ \A i \in 1 .. 2 + Len(c) : joint[i] = front[i]
      /\ \A i \in 1 .. 1 : joint[2 + Len(c) + i] = end[i]
  <2>1. joint = front \o end
    BY DEF joint
  <2>3. front \in Seq(Tokens) /\ end \in Seq(Tokens)
    BY <1>2, <1>3
  <2>2. /\ joint \in Seq(Tokens) /\ Len(joint) = Len(front) + Len(end)
        /\ \A i \in 1 .. Len(front) : joint[i] = front[i]
        /\ \A i \in 1 .. Len(end) : joint[Len(front) + i] = end[i]
    BY <2>1, <2>3, Joined
  <2> QED  BY <1>2, <1>3, <2>2
<1>5. joint[1] = size /\ joint[2] = Crlf
  <2>1. 1 \in 1 .. 2 /\ 2 \in 1 .. 2 /\ 1 \in 1 .. 2 + Len(c) /\ 2 \in 1 .. 2 + Len(c)
    BY <1>1
  <2> QED  BY <2>1, <1>2, <1>3, <1>4
<1>6. ASSUME NEW i \in 1 .. Len(c)  PROVE joint[2 + i] = c[i]
  <2>1. 2 + i \in 1 .. 2 + Len(c)
    BY <1>1
  <2> QED  BY <2>1, <1>3, <1>4
<1>7. joint[Len(c) + 3] = Crlf
  <2>1. 1 \in 1 .. 1 /\ 2 + Len(c) + 1 = Len(c) + 3
    BY <1>1
  <2> QED  BY <2>1, <1>2, <1>4
<1>8. joint = OnWire(c)
  BY DEF joint, front, head, end, size, OnWire
<1>9. Len(joint) = Len(c) + 3
  BY <1>1, <1>4
<1> QED  BY <1>1, <1>4, <1>5, <1>6, <1>7, <1>8, <1>9 DEF size

LEMMA ChunksAre ==
  ASSUME NEW m, IsFramed(m)
  PROVE  /\ m.body \in Seq(Seq(Tokens)) /\ Len(m.body) \in Nat
         /\ Chunks(m) \in Seq(Seq(Tokens)) /\ Len(Chunks(m)) = Len(m.body)
         /\ \A i \in 1 .. Len(m.body) :
              m.body[i] \in Seq(Tokens) /\ Chunks(m)[i] = OnWire(m.body[i])
<1> DEFINE k == Len(m.body)
           q == Chunks(m)
<1>1. /\ m.body \in Seq(Seq(Tokens)) /\ k \in Nat /\ DOMAIN m.body = 1 .. k
      /\ \A i \in 1 .. k : m.body[i] \in Seq(Tokens)
  BY LenProperties, ElementOfSeq DEF IsFramed
<1>2. q = [i \in 1 .. k |-> OnWire(m.body[i])]
  BY <1>1 DEF Chunks
<1> HIDE DEF q, k
<1>3. q \in [1 .. k -> Seq(Tokens)]
  BY <1>1, <1>2, ChunkOnWire
<1>4. q \in Seq(Seq(Tokens)) /\ Len(q) = k
  BY <1>1, <1>3
<1>5. \A i \in 1 .. k : q[i] = OnWire(m.body[i])
  BY <1>2
<1> QED  BY <1>1, <1>4, <1>5 DEF q, k

\* The payload of the first j chunks, and these chunks as they are sent.
PayloadTo(m, j) == FlattenSeq(SubSeq(m.body, 1, j))
ChunksTo(m, j) == FlattenSeq(SubSeq(Chunks(m), 1, j))

LastChunk == <<Token("size", 0), Crlf, Crlf>>

LEMMA BodyShape ==
  ASSUME NEW m, IsFramed(m)
  PROVE  /\ Payload(m) = PayloadTo(m, Len(m.body))
         /\ m.coding = "length" => BodyOnWire(m) = Payload(m)
         /\ m.coding = "none" => BodyOnWire(m) = <<>>
         /\ m.coding = "chunked" => BodyOnWire(m) = ChunksTo(m, Len(m.body)) \o LastChunk
         /\ BodyOnWire(m) \in Seq(Tokens)
<1>1. /\ m.body \in Seq(Seq(Tokens)) /\ Len(m.body) \in Nat
      /\ Chunks(m) \in Seq(Seq(Tokens)) /\ Len(Chunks(m)) = Len(m.body)
  BY ChunksAre
<1>2. Payload(m) = PayloadTo(m, Len(m.body)) /\ Payload(m) \in Seq(Tokens)
  <2>1. SubSeq(m.body, 1, Len(m.body)) = m.body
    BY <1>1, SubSeqFull
  <2>2. Len(m.body) \in 0 .. Len(m.body)
    BY <1>1
  <2>3. FlattenSeq(SubSeq(m.body, 1, Len(m.body))) \in Seq(Tokens)
    BY <1>1, <2>2, FlattenSteps
  <2> QED  BY <2>1, <2>3 DEF Payload, PayloadTo
<1>3. /\ ChunksTo(m, Len(m.body)) = FlattenSeq(Chunks(m))
      /\ ChunksTo(m, Len(m.body)) \in Seq(Tokens)
  <2>1. SubSeq(Chunks(m), 1, Len(Chunks(m))) = Chunks(m)
    BY <1>1, SubSeqFull
  <2>2. Len(Chunks(m)) \in 0 .. Len(Chunks(m))
    BY <1>1
  <2>3. FlattenSeq(SubSeq(Chunks(m), 1, Len(Chunks(m)))) \in Seq(Tokens)
    BY <1>1, <2>2, FlattenSteps
  <2> QED  BY <1>1, <2>1, <2>3 DEF ChunksTo
<1>4. m.coding = "length" => BodyOnWire(m) = Payload(m)
  BY DEF BodyOnWire
<1>5. m.coding = "none" => BodyOnWire(m) = <<>>
  BY DEF BodyOnWire
<1>6. m.coding = "chunked" => BodyOnWire(m) = ChunksTo(m, Len(m.body)) \o LastChunk
  <2>1. m.coding = "chunked" => BodyOnWire(m) = FlattenSeq(Chunks(m)) \o LastChunk
    BY DEF BodyOnWire, Chunks, OnWire, LastChunk
  <2> QED  BY <2>1, <1>3
<1>7. LastChunk \in Seq(Tokens)
  <2>1. 0 \in Nat
    OBVIOUS
  <2>2. Token("size", 0) \in Tokens /\ Crlf \in Tokens
    BY <2>1, CrlfIsToken
  <2> QED  BY <2>2 DEF LastChunk
<1>8. ChunksTo(m, Len(m.body)) \o LastChunk \in Seq(Tokens)
  BY <1>3, <1>7, ConcatProperties
<1>9. m.coding \in {"length", "chunked", "none"}
  BY DEF IsFramed
<1>10. BodyOnWire(m) \in Seq(Tokens)
  BY <1>2, <1>4, <1>5, <1>6, <1>8, <1>9, EmptySeq
<1> QED  BY <1>2, <1>4, <1>5, <1>6, <1>10

\* A message on the wire: the start line, its end, the header fields and their ends,
\* an empty line, the body.
LEMMA WireShape ==
  ASSUME NEW m, IsFramed(m)
  PROVE  /\ Wire(m) \in Seq(Tokens) /\ Len(m.fields) \in Nat
         /\ Len(BodyOnWire(m)) \in Nat
         /\ Len(Wire(m)) = HeadEnd(m) + Len(BodyOnWire(m))
         /\ Wire(m)[1] = m.line /\ Wire(m)[2] = Crlf
         /\ \A i \in 1 .. Len(m.fields) :
              Wire(m)[2 * i + 1] = m.fields[i] /\ Wire(m)[2 * i + 2] = Crlf
         /\ Wire(m)[HeadEnd(m)] = Crlf
         /\ \A i \in 1 .. Len(BodyOnWire(m)) : Wire(m)[HeadEnd(m) + i] = BodyOnWire(m)[i]
<1> DEFINE k == Len(m.fields)
           head == <<m.line, Crlf>>
           mid == FlattenSeq(Pairs(m))
           end == <<Crlf>>
           body == BodyOnWire(m)
           two == head \o mid
           three == two \o end
           joint == three \o body
<1>1. m.line \in Tokens /\ Crlf \in Tokens
  BY CrlfIsToken DEF IsFramed
<1>2. /\ k \in Nat /\ mid \in Seq(Tokens) /\ Len(mid) = 2 * k
      /\ \A i \in 1 .. k : mid[2 * i - 1] = m.fields[i] /\ mid[2 * i] = Crlf
  BY FieldsOnWire
<1>3. body \in Seq(Tokens) /\ Len(body) \in Nat
  BY BodyShape, LenProperties
<1> HIDE DEF mid, body
<1>4. /\ head \in Seq(Tokens) /\ Len(head) = 2 /\ head[1] = m.line /\ head[2] = Crlf
      /\ end \in Seq(Tokens) /\ Len(end) = 1 /\ end[1] = Crlf
  BY <1>1
<1>5. joint = Wire(m)
  <2>1. Wire(m) = <<m.line, Crlf>> \o FlattenSeq(Pairs(m)) \o <<Crlf>> \o BodyOnWire(m)
    BY DEF Wire, Pairs
  <2> QED  BY <2>1 DEF mid, body
<1> HIDE DEF head, end, two, three, joint, k
<1>6. /\ two \in Seq(Tokens) /\ Len(two) = 2 + 2 * k
      /\ \A i \in 1 .. 2 : two[i] = head[i]
      /\ \A i \in 1 .. 2 * k : two[2 + i] = mid[i]
  <2>1. two = head \o mid /\ head \in Seq(Tokens) /\ mid \in Seq(Tokens)
    BY <1>2, <1>4 DEF two
  <2>2. /\ two \in Seq(Tokens) /\ Len(two) = Len(head) + Len(mid)
        /\ \A i \in 1 .. Len(head) : two[i] = head[i]
        /\ \A i \in 1 .. Len(mid) : two[Len(head) + i] = mid[i]
    BY <2>1, Joined
  <2> QED  BY <1>2, <1>4, <2>2
<1>7. /\ three \in Seq(Tokens) /\ Len(three) = 2 + 2 * k + 1
      /\ \A i \in 1 .. 2 + 2 * k : three[i] = two[i]
      /\ \A i \in 1 .. 1 : three[2 + 2 * k + i] = end[i]
  <2>1. three = two \o end /\ two \in Seq(Tokens) /\ end \in Seq(Tokens)
    BY <1>6, <1>4 DEF three
  <2>2. /\ three \in Seq(Tokens) /\ Len(three) = Len(two) + Len(end)
        /\ \A i \in 1 .. Len(two) : three[i] = two[i]
        /\ \A i \in 1 .. Len(end) : three[Len(two) + i] = end[i]
    BY <2>1, Joined
  <2> QED  BY <1>6, <1>4, <2>2
<1>8. /\ joint \in Seq(Tokens) /\ Len(joint) = 2 + 2 * k + 1 + Len(body)
      /\ \A i \in 1 .. 2 + 2 * k + 1 : joint[i] = three[i]
      /\ \A i \in 1 .. Len(body) : joint[2 + 2 * k + 1 + i] = body[i]
  <2>1. joint = three \o body /\ three \in Seq(Tokens) /\ body \in Seq(Tokens)
    BY <1>7, <1>3 DEF joint
  <2>2. /\ joint \in Seq(Tokens) /\ Len(joint) = Len(three) + Len(body)
        /\ \A i \in 1 .. Len(three) : joint[i] = three[i]
        /\ \A i \in 1 .. Len(body) : joint[Len(three) + i] = body[i]
    BY <2>1, Joined
  <2> QED  BY <1>7, <2>2
<1>9. HeadEnd(m) = 2 + 2 * k + 1
  BY <1>2 DEF HeadEnd, k
<1>10. joint[1] = m.line /\ joint[2] = Crlf
  <2>1. /\ 1 \in 1 .. 2 /\ 1 \in 1 .. 2 + 2 * k /\ 1 \in 1 .. 2 + 2 * k + 1
        /\ 2 \in 1 .. 2 /\ 2 \in 1 .. 2 + 2 * k /\ 2 \in 1 .. 2 + 2 * k + 1
    BY <1>2
  <2>2. two[1] = m.line /\ two[2] = Crlf
    BY <2>1, <1>4, <1>6
  <2>3. three[1] = m.line /\ three[2] = Crlf
    BY <2>1, <2>2, <1>7
  <2> QED  BY <2>1, <2>3, <1>8
<1>11. ASSUME NEW i \in 1 .. k
       PROVE  joint[2 * i + 1] = m.fields[i] /\ joint[2 * i + 2] = Crlf
  <2>1. /\ 2 * i - 1 \in 1 .. 2 * k /\ 2 * i \in 1 .. 2 * k
        /\ 2 + (2 * i - 1) = 2 * i + 1 /\ 2 + 2 * i = 2 * i + 2
        /\ 2 * i + 1 \in 1 .. 2 + 2 * k /\ 2 * i + 1 \in 1 .. 2 + 2 * k + 1
        /\ 2 * i + 2 \in 1 .. 2 + 2 * k /\ 2 * i + 2 \in 1 .. 2 + 2 * k + 1
    BY <1>2
  <2>2. two[2 * i + 1] = mid[2 * i - 1] /\ two[2 * i + 2] = mid[2 * i]
    BY <2>1, <1>6
  <2>3. joint[2 * i + 1] = two[2 * i + 1] /\ joint[2 * i + 2] = two[2 * i + 2]
    BY <2>1, <1>7, <1>8
  <2> QED  BY <2>2, <2>3, <1>2
<1>12. joint[HeadEnd(m)] = Crlf
  <2>1. 1 \in 1 .. 1 /\ 2 + 2 * k + 1 \in 1 .. 2 + 2 * k + 1
    BY <1>2
  <2> QED  BY <2>1, <1>4, <1>7, <1>8, <1>9
<1>13. \A i \in 1 .. Len(body) : joint[HeadEnd(m) + i] = body[i]
  BY <1>8, <1>9
<1> QED  BY <1>2, <1>3, <1>5, <1>8, <1>9, <1>10, <1>11, <1>12, <1>13 DEF body, k

LEMMA ChunkSteps ==
  ASSUME NEW m, IsFramed(m)
  PROVE  /\ Len(m.body) \in Nat
         /\ PayloadTo(m, 0) = <<>> /\ ChunksTo(m, 0) = <<>>
         /\ \A j \in 0 .. Len(m.body) :
              /\ PayloadTo(m, j) \in Seq(Tokens) /\ Len(PayloadTo(m, j)) \in Nat
              /\ ChunksTo(m, j) \in Seq(Tokens) /\ Len(ChunksTo(m, j)) \in Nat
         /\ \A j \in 1 .. Len(m.body) :
              /\ m.body[j] \in Seq(Tokens) /\ Len(m.body[j]) \in Nat
              /\ PayloadTo(m, j) = PayloadTo(m, j - 1) \o m.body[j]
              /\ ChunksTo(m, j) = ChunksTo(m, j - 1) \o OnWire(m.body[j])
              /\ Len(PayloadTo(m, j)) = Len(PayloadTo(m, j - 1)) + Len(m.body[j])
              /\ Len(ChunksTo(m, j)) = Len(ChunksTo(m, j - 1)) + Len(m.body[j]) + 3
<1>1. /\ m.body \in Seq(Seq(Tokens)) /\ Len(m.body) \in Nat
      /\ Chunks(m) \in Seq(Seq(Tokens)) /\ Len(Chunks(m)) = Len(m.body)
      /\ \A i \in 1 .. Len(m.body) :
           m.body[i] \in Seq(Tokens) /\ Chunks(m)[i] = OnWire(m.body[i])
  BY ChunksAre
<1>2. /\ PayloadTo(m, 0) = <<>>
      /\ \A j \in 0 .. Len(m.body) : PayloadTo(m, j) \in Seq(Tokens)
      /\ \A j \in 1 .. Len(m.body) : PayloadTo(m, j) = PayloadTo(m, j - 1) \o m.body[j]
  BY <1>1, FlattenSteps DEF PayloadTo
<1>3. /\ ChunksTo(m, 0) = <<>>
      /\ \A j \in 0 .. Len(m.body) : ChunksTo(m, j) \in Seq(Tokens)
      /\ \A j \in 1 .. Len(m.body) : ChunksTo(m, j) = ChunksTo(m, j - 1) \o Chunks(m)[j]
  <2>1. /\ FlattenSeq(SubSeq(Chunks(m), 1, 0)) = <<>>
        /\ \A j \in 0 .. Len(Chunks(m)) : FlattenSeq(SubSeq(Chunks(m), 1, j)) \in Seq(Tokens)
        /\ \A j \in 1 .. Len(Chunks(m)) :
             FlattenSeq(SubSeq(Chunks(m), 1, j))
               = FlattenSeq(SubSeq(Chunks(m), 1, j - 1)) \o Chunks(m)[j]
    BY <1>1, FlattenSteps
  <2> QED  BY <1>1, <2>1 DEF ChunksTo
<1>4. \A j \in 0 .. Len(m.body) :
        Len(PayloadTo(m, j)) \in Nat /\ Len(ChunksTo(m, j)) \in Nat
  BY <1>2, <1>3, LenProperties
<1>5. ASSUME NEW j \in 1 .. Len(m.body)
      PROVE  /\ m.body[j] \in Seq(Tokens) /\ Len(m.body[j]) \in Nat
             /\ ChunksTo(m, j) = ChunksTo(m, j - 1) \o OnWire(m.body[j])
             /\ Len(PayloadTo(m, j)) = Len(PayloadTo(m, j - 1)) + Len(m.body[j])
             /\ Len(ChunksTo(m, j)) = Len(ChunksTo(m, j - 1)) + Len(m.body[j]) + 3
  <2>1. j - 1 \in 0 .. Len(m.body)
    BY <1>1
  <2>2. m.body[j] \in Seq(Tokens) /\ Chunks(m)[j] = OnWire(m.body[j])
    BY <1>1
  <2>3. /\ OnWire(m.body[j]) \in Seq(Tokens) /\ Len(m.body[j]) \in Nat
        /\ Len(OnWire(m.body[j])) = Len(m.body[j]) + 3
    BY <2>2, ChunkOnWire
  <2>4. ChunksTo(m, j) = ChunksTo(m, j - 1) \o OnWire(m.body[j])
    BY <1>3, <2>2
  <2>5. PayloadTo(m, j - 1) \in Seq(Tokens) /\ ChunksTo(m, j - 1) \in Seq(Tokens)
    BY <1>2, <1>3, <2>1
  <2>6. Len(PayloadTo(m, j)) = Len(PayloadTo(m, j - 1)) + Len(m.body[j])
    <3>1. PayloadTo(m, j) = PayloadTo(m, j - 1) \o m.body[j]
      BY <1>2
    <3> QED  BY <3>1, <2>2, <2>5, Joined
  <2>7. Len(ChunksTo(m, j)) = Len(ChunksTo(m, j - 1)) + Len(OnWire(m.body[j]))
    <3>1. ChunksTo(m, j - 1) \in Seq(Tokens) /\ OnWire(m.body[j]) \in Seq(Tokens)
      BY <2>3, <2>5
    <3> QED  BY <2>4, <3>1, Joined
  <2>8. Len(ChunksTo(m, j)) = Len(ChunksTo(m, j - 1)) + Len(m.body[j]) + 3
    <3>1. Len(ChunksTo(m, j - 1)) \in Nat
      BY <1>4, <2>1
    <3> DEFINE x == Len(ChunksTo(m, j - 1))
               y == Len(m.body[j])
               z == Len(OnWire(m.body[j]))
    <3>2. x \in Nat /\ y \in Nat /\ z = y + 3 /\ Len(ChunksTo(m, j)) = x + z
      BY <2>3, <2>7, <3>1
    <3> HIDE DEF x, y, z
    <3>3. x + z = x + y + 3
      BY <3>2
    <3> QED  BY <3>2, <3>3 DEF x, y
  <2>9. m.body[j] \in Seq(Tokens) /\ Len(m.body[j]) \in Nat
    BY <2>2, <2>3
  <2> QED  BY <2>4, <2>6, <2>8, <2>9
<1> QED  BY <1>1, <1>2, <1>3, <1>4, <1>5

\* A chunk takes three tokens more than its payload.
LEMMA ChunkLengths ==
  ASSUME NEW m, IsFramed(m)
  PROVE  \A j \in 0 .. Len(m.body) : Len(ChunksTo(m, j)) = Len(PayloadTo(m, j)) + 3 * j
<1> DEFINE C(j) == Len(ChunksTo(m, j))
           P(j) == Len(PayloadTo(m, j))
           Bad == {j \in 0 .. Len(m.body) : C(j) # P(j) + 3 * j}
<1>1. /\ Len(m.body) \in Nat
      /\ \A j \in 0 .. Len(m.body) : P(j) \in Nat /\ C(j) \in Nat
      /\ \A j \in 1 .. Len(m.body) :
           /\ Len(m.body[j]) \in Nat
           /\ P(j) = P(j - 1) + Len(m.body[j])
           /\ C(j) = C(j - 1) + Len(m.body[j]) + 3
  BY ChunkSteps
<1>2. C(0) = 0 /\ P(0) = 0
  <2>1. ChunksTo(m, 0) = <<>> /\ PayloadTo(m, 0) = <<>>
    BY ChunkSteps
  <2> QED  BY <2>1
<1> HIDE DEF C, P
<1>3. Bad = {}
  <2> SUFFICES ASSUME Bad # {}  PROVE FALSE
    OBVIOUS
  <2>1. Bad \in SUBSET Nat
    OBVIOUS
  <2>2. PICK j \in Bad : \A o \in Bad : j <= o
    BY <2>1, LowestOf
  <2>3. j \in 0 .. Len(m.body) /\ C(j) # P(j) + 3 * j /\ j # 0
    BY <1>2, <2>2
  <2>4. j - 1 \in 0 .. Len(m.body) /\ j \in 1 .. Len(m.body) /\ ~(j <= j - 1)
    BY <1>1, <2>3
  <2>5. C(j - 1) = P(j - 1) + 3 * (j - 1)
    BY <2>2, <2>4
  <2>6. /\ Len(m.body[j]) \in Nat /\ P(j - 1) \in Nat /\ j \in Nat
        /\ P(j) = P(j - 1) + Len(m.body[j])
        /\ C(j) = C(j - 1) + Len(m.body[j]) + 3
    <3>1. Len(m.body[j]) \in Nat /\ P(j) = P(j - 1) + Len(m.body[j])
      BY <1>1, <2>4
    <3>2. C(j) = C(j - 1) + Len(m.body[j]) + 3
      BY <1>1, <2>4
    <3>3. P(j - 1) \in Nat
      BY <1>1, <2>4
    <3>4. j \in Nat
      BY <1>1, <2>4
    <3> QED  BY <3>1, <3>2, <3>3, <3>4
  <2> HIDE DEF Bad
  <2>7. C(j) = P(j) + 3 * j
    BY <2>5, <2>6
  <2> QED  BY <2>3, <2>7
<1> QED  BY <1>3 DEF C, P

\* s has t behind its first k elements.
Holds(s, k, t) == \A i \in 1 .. Len(t) : s[k + i] = t[i]

\* Where the chunks of a message are in its body on the wire.
LEMMA ChunkPlaces ==
  ASSUME NEW m, IsFramed(m), m.coding = "chunked"
  PROVE  LET B == BodyOnWire(m)
             C(j) == Len(ChunksTo(m, j))
             end == C(Len(m.body))
         IN  /\ \A j \in 0 .. Len(m.body) : C(j) <= end
             /\ \A j \in 1 .. Len(m.body) :
                  /\ B[C(j - 1) + 1] = Token("size", Len(m.body[j]))
                  /\ B[C(j - 1) + 2] = Crlf
                  /\ Holds(B, C(j - 1) + 2, m.body[j])
             /\ Len(B) = end + 3
             /\ B[end + 1] = Token("size", 0) /\ B[end + 2] = Crlf
<1> DEFINE L == Len(m.body)
           B == BodyOnWire(m)
           Q(j) == ChunksTo(m, j)
           C(j) == Len(Q(j))
<1>1. /\ L \in Nat
      /\ \A j \in 0 .. L : Q(j) \in Seq(Tokens) /\ C(j) \in Nat
      /\ \A j \in 1 .. L :
           /\ m.body[j] \in Seq(Tokens) /\ Len(m.body[j]) \in Nat
           /\ Q(j) = Q(j - 1) \o OnWire(m.body[j])
           /\ C(j) = C(j - 1) + Len(m.body[j]) + 3
  BY ChunkSteps
<1>2. B = Q(L) \o LastChunk
  BY BodyShape
<1>3. \A j \in 0 .. L : C(j) <= C(L) /\ \A x \in 1 .. C(j) : Q(L)[x] = Q(j)[x]
  <2> SUFFICES ASSUME NEW j \in 0 .. L
               PROVE  C(j) <= C(L) /\ \A x \in 1 .. C(j) : Q(L)[x] = Q(j)[x]
    OBVIOUS
  <2>1. Chunks(m) \in Seq(Seq(Tokens)) /\ Len(Chunks(m)) = L
    BY ChunksAre
  <2>2. j \in 0 .. Len(Chunks(m)) /\ L \in j .. Len(Chunks(m))
    BY <1>1, <2>1
  <2> QED  BY <2>1, <2>2, FlattenBegins DEF ChunksTo
<1> HIDE DEF L, B, Q
<1>4. /\ LastChunk \in Seq(Tokens) /\ Len(LastChunk) = 3
      /\ LastChunk[1] = Token("size", 0) /\ LastChunk[2] = Crlf
  <2>1. 0 \in Nat
    OBVIOUS
  <2>2. Token("size", 0) \in Tokens /\ Crlf \in Tokens
    BY <2>1, CrlfIsToken
  <2> QED  BY <2>2 DEF LastChunk
<1>5. /\ Len(B) = C(L) + 3
      /\ \A x \in 1 .. C(L) : B[x] = Q(L)[x]
      /\ \A x \in 1 .. 3 : B[C(L) + x] = LastChunk[x]
  <2>1. Q(L) \in Seq(Tokens) /\ LastChunk \in Seq(Tokens)
    BY <1>1, <1>4
  <2>2. /\ Len(B) = C(L) + Len(LastChunk)
        /\ \A x \in 1 .. C(L) : B[x] = Q(L)[x]
        /\ \A x \in 1 .. Len(LastChunk) : B[C(L) + x] = LastChunk[x]
    BY <1>2, <2>1, Joined
  <2> QED  BY <1>4, <2>2
<1>6. B[C(L) + 1] = Token("size", 0) /\ B[C(L) + 2] = Crlf
  <2>1. 1 \in 1 .. 3 /\ 2 \in 1 .. 3
    OBVIOUS
  <2> QED  BY <2>1, <1>4, <1>5
<1>7. ASSUME NEW j \in 1 .. L
      PROVE  /\ B[C(j - 1) + 1] = Token("size", Len(m.body[j]))
             /\ B[C(j - 1) + 2] = Crlf
             /\ Holds(B, C(j - 1) + 2, m.body[j])
  <2> DEFINE c == m.body[j]
             w == OnWire(c)
  <2>1. j \in 0 .. L /\ j - 1 \in 0 .. L
    BY <1>1
  <2>2. /\ c \in Seq(Tokens) /\ Len(c) \in Nat /\ Q(j) = Q(j - 1) \o w
        /\ C(j) = C(j - 1) + Len(c) + 3
    BY <1>1
  <2>3. /\ w \in Seq(Tokens) /\ Len(w) = Len(c) + 3
        /\ w[1] = Token("size", Len(c)) /\ w[2] = Crlf
        /\ \A i \in 1 .. Len(c) : w[2 + i] = c[i]
    BY <2>2, ChunkOnWire
  <2> HIDE DEF c, w
  <2>4. \A x \in 1 .. Len(w) : Q(j)[C(j - 1) + x] = w[x]
    <3>1. Q(j - 1) \in Seq(Tokens) /\ Q(j) = Q(j - 1) \o w /\ w \in Seq(Tokens)
      BY <1>1, <2>1, <2>2, <2>3
    <3> QED  BY <3>1, Joined
  <2>5. C(j) \in Nat /\ C(j - 1) \in Nat /\ C(L) \in Nat /\ C(j) <= C(L)
    <3>1. L \in 0 .. L
      BY <1>1
    <3> QED  BY <3>1, <1>1, <1>3, <2>1
  <2>6. ASSUME NEW x \in 1 .. Len(c) + 3  PROVE B[C(j - 1) + x] = w[x]
    <3>1. C(j - 1) + x \in 1 .. C(j) /\ C(j - 1) + x \in 1 .. C(L) /\ x \in 1 .. Len(w)
      BY <2>2, <2>3, <2>5
    <3>2. B[C(j - 1) + x] = Q(L)[C(j - 1) + x] /\ Q(L)[C(j - 1) + x] = Q(j)[C(j - 1) + x]
      BY <3>1, <1>3, <1>5, <2>1
    <3> QED  BY <3>1, <3>2, <2>4
  <2>7. B[C(j - 1) + 1] = w[1] /\ B[C(j - 1) + 2] = w[2]
    <3>1. 1 \in 1 .. Len(c) + 3 /\ 2 \in 1 .. Len(c) + 3
      BY <2>2
    <3> QED  BY <3>1, <2>6
  <2>8. ASSUME NEW i \in 1 .. Len(c)  PROVE B[C(j - 1) + 2 + i] = c[i]
    <3>1. 2 + i \in 1 .. Len(c) + 3 /\ C(j - 1) + 2 + i = C(j - 1) + (2 + i)
      BY <2>2, <2>5
    <3> QED  BY <3>1, <2>3, <2>6
  <2>9. Holds(B, C(j - 1) + 2, c)
    BY <2>8 DEF Holds
  <2> QED  BY <2>3, <2>7, <2>9 DEF c
<1> QED  BY <1>3, <1>5, <1>6, <1>7 DEF L, B, Q

-----------------------------------------------------------------------------
(* The buffer.                                                               *)

IsBuffer(b) ==
    /\ b \in [data : Seq(Tokens), start : Nat, capacity : Nat, limit : {MessageMax}]
    /\ b.start <= Len(b.data)

LEMMA UnreadIs ==
  ASSUME NEW b, IsBuffer(b)
  PROVE  /\ b.data \in Seq(Tokens) /\ Len(b.data) \in Nat
         /\ b.start \in 0 .. Len(b.data)
         /\ Unread(b) \in Seq(Tokens) /\ Len(Unread(b)) = Len(b.data) - b.start
         /\ \A i \in 1 .. Len(b.data) - b.start : Unread(b)[i] = b.data[b.start + i]
<1>1. b.data \in Seq(Tokens) /\ b.start \in Nat /\ b.start <= Len(b.data)
  BY DEF IsBuffer
<1>2. Len(b.data) \in Nat
  BY <1>1, LenProperties
<1>3. b.start \in 0 .. Len(b.data)
  BY <1>1, <1>2
<1> QED  BY <1>1, <1>2, <1>3, Ending DEF Unread

\* Nothing is left of a sequence behind its end.
LEMMA NothingBehind ==
  ASSUME NEW T, NEW s \in Seq(T)
  PROVE  SubSeq(s, Len(s) + 1, Len(s)) = <<>>
<1>1. Len(s) \in Nat
  BY LenProperties
<1> QED  BY <1>1, SubSeqEmpty

\* The end of a longer sequence is the end of the shorter and what was added.
LEMMA EndOfJoined ==
  ASSUME NEW T, NEW s \in Seq(T), NEW p \in Seq(T), NEW n \in 0 .. Len(s)
  PROVE  SubSeq(s \o p, n + 1, Len(s \o p)) = SubSeq(s, n + 1, Len(s)) \o p
<1> DEFINE a == SubSeq(s, n + 1, Len(s))
           c == s \o p
           e == SubSeq(c, n + 1, Len(c))
           d == a \o p
<1>1. /\ c \in Seq(T) /\ Len(c) \in Nat /\ Len(s) \in Nat /\ Len(p) \in Nat
      /\ Len(c) = Len(s) + Len(p)
      /\ \A i \in 1 .. Len(s) : c[i] = s[i]
      /\ \A i \in 1 .. Len(p) : c[Len(s) + i] = p[i]
  BY Joined
<1>2. a \in Seq(T) /\ Len(a) = Len(s) - n /\ \A i \in 1 .. Len(s) - n : a[i] = s[n + i]
  BY Ending
<1> HIDE DEF a, c, e, d
<1>3. e \in Seq(T) /\ Len(e) = Len(c) - n /\ \A i \in 1 .. Len(c) - n : e[i] = c[n + i]
  <2>1. n \in 0 .. Len(c)
    BY <1>1
  <2>2. e = SubSeq(c, n + 1, Len(c))
    BY DEF e
  <2> QED  BY <1>1, <2>1, <2>2, Ending
<1>4. /\ d \in Seq(T) /\ Len(d) = Len(s) - n + Len(p)
      /\ \A i \in 1 .. Len(s) - n : d[i] = a[i]
      /\ \A i \in 1 .. Len(p) : d[Len(s) - n + i] = p[i]
  <2>1. d = a \o p /\ a \in Seq(T)
    BY <1>2 DEF d
  <2>2. /\ d \in Seq(T) /\ Len(d) = Len(a) + Len(p)
        /\ \A i \in 1 .. Len(a) : d[i] = a[i]
        /\ \A i \in 1 .. Len(p) : d[Len(a) + i] = p[i]
    BY <2>1, Joined
  <2> QED  BY <1>2, <2>2
<1>5. Len(e) = Len(d) /\ Len(e) = Len(s) - n + Len(p) /\ n \in Nat /\ n <= Len(s)
  BY <1>1, <1>3, <1>4
<1>6. ASSUME NEW i \in 1 .. Len(e)  PROVE e[i] = d[i]
  <2>1. e[i] = c[n + i]
    BY <1>3
  <2>2. CASE i <= Len(s) - n
    <3>1. i \in 1 .. Len(s) - n /\ n + i \in 1 .. Len(s)
      BY <1>1, <1>5, <2>2
    <3> QED  BY <3>1, <1>1, <1>2, <1>4, <2>1
  <2>3. CASE ~(i <= Len(s) - n)
    <3> DEFINE j == i - (Len(s) - n)
    <3>1. j \in 1 .. Len(p) /\ Len(s) - n + j = i /\ Len(s) + j = n + i
      BY <1>1, <1>5, <2>3
    <3> HIDE DEF j
    <3>2. c[Len(s) + j] = p[j] /\ d[Len(s) - n + j] = p[j]
      BY <3>1, <1>1, <1>4
    <3> QED  BY <3>1, <3>2, <2>1
  <2> QED  BY <2>2, <2>3
<1>7. e = d
  BY <1>3, <1>4, <1>5, <1>6, SeqEqual
<1> QED  BY <1>7 DEF e, d, c, a

LEMMA CompactIs ==
  ASSUME NEW b, IsBuffer(b), NEW len
  PROVE  LET c == Compact(b, len)
         IN  /\ IsBuffer(c) /\ Unread(c) = Unread(b) /\ c.capacity = b.capacity
             /\ \/ c.data = Unread(b)
                \/ c = b /\ ~(b.capacity - Len(b.data) < len)
<1>1. /\ b.data \in Seq(Tokens) /\ Len(b.data) \in Nat /\ b.start \in Nat
      /\ Unread(b) \in Seq(Tokens)
      /\ b \in [data : Seq(Tokens), start : Nat, capacity : Nat, limit : {MessageMax}]
  BY UnreadIs DEF IsBuffer
<1> DEFINE moved == [b EXCEPT !.data = Unread(b), !.start = 0]
<1>2. CASE b.capacity - Len(b.data) < len /\ b.start > 0
  <2>1. Compact(b, len) = moved
    BY <1>2 DEF Compact
  <2>2. moved.data = Unread(b) /\ moved.start = 0 /\ moved.capacity = b.capacity
    BY <1>1
  <2>3. moved \in [data : Seq(Tokens), start : Nat, capacity : Nat, limit : {MessageMax}]
    BY <1>1
  <2>4. 0 <= Len(Unread(b))
    BY <1>1, LenProperties
  <2>5. IsBuffer(moved)
    BY <2>2, <2>3, <2>4 DEF IsBuffer
  <2>6. SubSeq(Unread(b), 0 + 1, Len(Unread(b))) = Unread(b)
    BY <1>1, SubSeqFull
  <2>7. Unread(moved) = Unread(b)
    <3>1. Unread(moved) = SubSeq(moved.data, moved.start + 1, Len(moved.data))
      BY DEF Unread
    <3> HIDE DEF moved
    <3> QED  BY <3>1, <2>2, <2>6
  <2> HIDE DEF moved
  <2> QED  BY <2>1, <2>2, <2>5, <2>7
<1>3. CASE ~(b.capacity - Len(b.data) < len /\ b.start > 0)
  <2>1. Compact(b, len) = b
    BY <1>3 DEF Compact
  <2>2. CASE b.start > 0
    BY <1>3, <2>1, <2>2
  <2>3. CASE ~(b.start > 0)
    <3>1. b.start = 0
      BY <1>1, <2>3
    <3>2. b.data = Unread(b)
      <4>1. SubSeq(b.data, 0 + 1, Len(b.data)) = b.data
        BY <1>1, SubSeqFull
      <4> QED  BY <3>1, <4>1 DEF Unread
    <3> QED  BY <3>2, <2>1
  <2> QED  BY <2>2, <2>3
<1> QED  BY <1>2, <1>3

\* A piece that is appended follows what was unread.
LEMMA AppendedIs ==
  ASSUME NEW b, IsBuffer(b), NEW p \in Seq(Tokens), Len(p) # 0, Grows(b, Len(p))
  PROVE  LET a == BuffAppend(b, p)
         IN  /\ IsBuffer(a) /\ a.capacity > 0
             /\ Unread(a) = Unread(b) \o p
<1> DEFINE c == Compact(b, Len(p))
           a == BuffAppend(b, p)
           S == Capacities(c, Len(c.data) + Len(p))
<1>1. IsBuffer(c) /\ Unread(c) = Unread(b)
  BY CompactIs
<1>2. /\ c \in [data : Seq(Tokens), start : Nat, capacity : Nat, limit : {MessageMax}]
      /\ c.data \in Seq(Tokens) /\ c.start \in 0 .. Len(c.data) /\ c.limit = MessageMax
  <2>1. IsBuffer(c)
    BY <1>1
  <2> HIDE DEF c
  <2> QED  BY <2>1, UnreadIs DEF IsBuffer
<1>3. a = [c EXCEPT !.data = @ \o p, !.capacity = Min(S)]
  BY DEF BuffAppend
<1>4. S # {} /\ S \in SUBSET (Len(c.data) + Len(p) .. MessageMax)
  BY <1>2 DEF Grows, Capacities
<1> HIDE DEF c, a, S
<1>5. /\ c.data \o p \in Seq(Tokens) /\ Len(c.data) \in Nat /\ Len(p) \in Nat
      /\ Len(c.data \o p) = Len(c.data) + Len(p)
  BY <1>2, Joined
<1>6. Min(S) \in Nat /\ Min(S) > 0
  <2>1. Len(c.data) + Len(p) \in Nat /\ Len(c.data) + Len(p) > 0 /\ MessageMax \in Nat
    BY <1>5, SizesAssumption
  <2>2. S \in SUBSET Nat /\ \A x \in S : x > 0
    BY <1>4, <2>1
  <2> QED  BY <1>4, <2>2, MinIs
<1>7. /\ a.data = c.data \o p /\ a.start = c.start /\ a.capacity = Min(S)
      /\ a \in [data : Seq(Tokens), start : Nat, capacity : Nat, limit : {MessageMax}]
  BY <1>2, <1>3, <1>5, <1>6
<1>8. IsBuffer(a)
  <2>1. c.start <= Len(c.data) + Len(p)
    BY <1>2, <1>5
  <2> QED  BY <1>5, <1>7, <2>1 DEF IsBuffer
<1>9. Unread(a) = Unread(c) \o p
  <2>1. Unread(a) = SubSeq(c.data \o p, c.start + 1, Len(c.data \o p))
    BY <1>7 DEF Unread
  <2>2. SubSeq(c.data \o p, c.start + 1, Len(c.data \o p))
          = SubSeq(c.data, c.start + 1, Len(c.data)) \o p
    BY <1>2, EndOfJoined
  <2> QED  BY <2>1, <2>2 DEF Unread
<1> QED  BY <1>1, <1>6, <1>7, <1>8, <1>9 DEF a

LEMMA ConsumedIs ==
  ASSUME NEW b, IsBuffer(b), NEW n \in 0 .. Len(Unread(b))
  PROVE  LET a == Consume(b, n)
         IN  /\ IsBuffer(a) /\ a.capacity = b.capacity
             /\ Unread(a) = SubSeq(Unread(b), n + 1, Len(Unread(b)))
<1> DEFINE s == Unread(b)
           a == Consume(b, n)
           Buffers == [data : Seq(Tokens), start : Nat, capacity : Nat, limit : {MessageMax}]
<1>1. /\ b.data \in Seq(Tokens) /\ Len(b.data) \in Nat /\ b.start \in 0 .. Len(b.data)
      /\ s \in Seq(Tokens) /\ Len(s) = Len(b.data) - b.start
      /\ \A i \in 1 .. Len(b.data) - b.start : s[i] = b.data[b.start + i]
      /\ b \in Buffers
  BY UnreadIs DEF IsBuffer
<1>2. n \in 0 .. Len(s) /\ n \in Nat
  <2>1. Len(s) \in Nat
    BY <1>1
  <2> QED  BY <2>1
<1> HIDE DEF s, a
<1>3. CASE b.start + n >= Len(b.data)
  <2>1. a = [b EXCEPT !.data = <<>>, !.start = 0]
    BY <1>3 DEF a, Consume
  <2>2. a.data = <<>> /\ a.start = 0 /\ a.capacity = b.capacity /\ a \in Buffers
    <3>1. <<>> \in Seq(Tokens) /\ 0 \in Nat
      BY EmptySeq
    <3>2. b \in Buffers
      BY <1>1
    <3> QED  BY <2>1, <3>1, <3>2
  <2>3. IsBuffer(a)
    BY <2>2 DEF IsBuffer
  <2>4. Unread(a) = <<>>
    <3>1. SubSeq(<<>>, 0 + 1, Len(<<>>)) = <<>>
      <4>1. Len(<<>>) = 0 /\ 0 + 1 = 1
        OBVIOUS
      <4>2. SubSeq(<<>>, 1, 0) = <<>>
        BY SubSeqEmpty
      <4> QED  BY <4>1, <4>2
    <3> QED  BY <2>2, <3>1 DEF Unread
  <2>5. n = Len(s)
    BY <1>1, <1>2, <1>3
  <2>6. SubSeq(s, n + 1, Len(s)) = <<>>
    BY <1>1, <2>5, NothingBehind
  <2> QED  BY <2>2, <2>3, <2>4, <2>6 DEF s, a
<1>4. CASE ~(b.start + n >= Len(b.data))
  <2>1. a = [b EXCEPT !.start = @ + n]
    BY <1>4 DEF a, Consume
  <2>2. b.start + n \in Nat /\ b.start + n <= Len(b.data)
    BY <1>1, <1>2, <1>4
  <2>3. a.data = b.data /\ a.start = b.start + n /\ a.capacity = b.capacity /\ a \in Buffers
    BY <1>1, <2>1, <2>2
  <2>4. IsBuffer(a)
    BY <2>2, <2>3 DEF IsBuffer
  <2>5. n \in 0 .. Len(b.data) - b.start
    BY <1>1, <1>2
  <2>6. SubSeq(s, n + 1, Len(s)) = SubSeq(b.data, b.start + n + 1, Len(b.data))
    <3>1. b.data \in Seq(Tokens) /\ b.start \in 0 .. Len(b.data)
      BY <1>1
    <3>2. s = SubSeq(b.data, b.start + 1, Len(b.data))
      BY DEF s, Unread
    <3> QED  BY <2>5, <3>1, <3>2, PieceOf
  <2>7. Unread(a) = SubSeq(b.data, b.start + n + 1, Len(b.data))
    BY <2>3 DEF Unread
  <2> QED  BY <2>3, <2>4, <2>6, <2>7 DEF s, a
<1> QED  BY <1>3, <1>4

\* A power of two, named: what doubling k times multiplies by.
Doubled(k) == 2 ^ k

LEMMA DoubledIs ==
  /\ Doubled(0) = 1
  /\ \A k \in Nat : Doubled(k) \in Nat /\ Doubled(k) >= 1
<1>1. ASSUME NEW k \in Nat  PROVE Doubled(k) \in Nat /\ Doubled(k) >= 1
  <2>1. IsFiniteSet(1 .. k) /\ Cardinality(1 .. k) = k
    BY FS_Interval
  <2>2. IsFiniteSet(SUBSET (1 .. k)) /\ Cardinality(SUBSET (1 .. k)) = 2 ^ k
    BY <2>1, FS_SUBSET
  <2>3. SUBSET (1 .. k) # {}
    OBVIOUS
  <2>4. Cardinality(SUBSET (1 .. k)) \in Nat /\ Cardinality(SUBSET (1 .. k)) # 0
    BY <2>2, <2>3, FS_CardinalityType, FS_EmptySet
  <2> QED  BY <2>2, <2>4 DEF Doubled
<1>2. Doubled(0) = 1
  <2>1. IsFiniteSet({}) /\ Cardinality({}) = 0
    BY FS_EmptySet
  <2>2. Cardinality(SUBSET {}) = Doubled(Cardinality({}))
    <3>1. \A n : n = Cardinality({}) => Cardinality(SUBSET {}) = 2 ^ n
      BY <2>1, FS_SUBSET
    <3> QED  BY <3>1 DEF Doubled
  <2>3. SUBSET {} = {{}} /\ Cardinality({{}}) = 1
    BY FS_Singleton
  <2> QED  BY <2>1, <2>2, <2>3
<1> QED  BY <1>1, <1>2

\* A buffer of the first capacity does not grow for what fits in it.
LEMMA RoomEnough ==
  ASSUME NEW b, IsBuffer(b), b.capacity = LineMax, NEW p \in Seq(Tokens), Len(p) # 0,
         Len(Unread(b)) + Len(p) <= LineMax
  PROVE  Grows(b, Len(p)) /\ BuffAppend(b, p).capacity = LineMax
<1> DEFINE c == Compact(b, Len(p))
           size == Len(c.data) + Len(p)
           S == Capacities(c, size)
<1>1. IsBuffer(c) /\ c.capacity = LineMax
  BY CompactIs
<1>2. LineMax \in Nat /\ LineMax > 0 /\ MessageMax \in Nat /\ LineMax <= MessageMax
  BY SizesAssumption
<1>3. Len(b.data) \in Nat /\ Len(Unread(b)) \in Nat /\ Len(p) \in Nat
  BY UnreadIs, LenProperties
<1>4. size \in Nat /\ size <= LineMax
  <2>1. c.data = Unread(b) \/ (c = b /\ ~(b.capacity - Len(b.data) < Len(p)))
    BY CompactIs
  <2> HIDE DEF c
  <2>2. CASE c.data = Unread(b)
    <3>1. size = Len(Unread(b)) + Len(p)
      BY <2>2
    <3> HIDE DEF size
    <3> QED  BY <1>3, <3>1
  <2>3. CASE c = b /\ ~(b.capacity - Len(b.data) < Len(p))
    BY <1>2, <1>3, <2>3
  <2> QED  BY <2>1, <2>2, <2>3
<1>5. c.limit = MessageMax
  BY <1>1 DEF IsBuffer
<1> HIDE DEF c, size
<1>6. S = {x \in size .. MessageMax :
             \E k \in 0 .. MessageMax \div LineMax : x = LineMax * Doubled(k)}
  BY <1>1, <1>5 DEF Capacities, Doubled
<1>7. LineMax \in S
  <2>1. LineMax \in size .. MessageMax
    BY <1>2, <1>4
  <2>2. 0 \in 0 .. MessageMax \div LineMax
    BY <1>2
  <2>3. LineMax = LineMax * Doubled(0)
    BY <1>2, DoubledIs
  <2> QED  BY <1>6, <2>1, <2>2, <2>3
<1>8. ASSUME NEW x \in S  PROVE x \in Nat /\ LineMax <= x
  <2>1. PICK k \in 0 .. MessageMax \div LineMax : x = LineMax * Doubled(k)
    BY <1>6
  <2>2. x \in size .. MessageMax
    BY <1>6
  <2>3. k \in Nat
    BY <1>2, <2>1
  <2> DEFINE d == Doubled(k)
  <2>4. d \in Nat /\ d >= 1
    BY <2>3, DoubledIs
  <2> HIDE DEF d
  <2>5. LineMax <= LineMax * d
    BY <1>2, <2>4
  <2> QED  BY <1>4, <2>1, <2>2, <2>5 DEF d
<1> HIDE DEF S
<1>9. Min(S) = LineMax
  <2>1. S \in SUBSET Nat /\ S # {}
    BY <1>7, <1>8
  <2>2. Min(S) \in S /\ Min(S) <= LineMax
    BY <1>7, <2>1, MinIs
  <2>3. Min(S) \in Nat /\ LineMax <= Min(S)
    BY <1>8, <2>2
  <2> QED  BY <1>2, <2>2, <2>3
<1>10. Grows(b, Len(p))
  BY <1>7 DEF Grows, S, size, c
<1>11. BuffAppend(b, p).capacity = Min(S)
  <2> DEFINE x == [c EXCEPT !.data = @ \o p, !.capacity = Min(S)]
  <2>1. BuffAppend(b, p) = x
    BY DEF BuffAppend, S, size, c
  <2>2. c \in [data : Seq(Tokens), start : Nat, capacity : Nat, limit : {MessageMax}]
    BY <1>1 DEF IsBuffer
  <2>3. x.capacity = Min(S)
    BY <2>2
  <2> QED  BY <2>1, <2>3
<1> QED  BY <1>9, <1>10, <1>11

-----------------------------------------------------------------------------
(* The open request, as the tokens of a message m have made it.              *)

\* The first n tokens of m.
Sent(m, n) == SubSeq(Wire(m), 1, n)

\* What is behind the first i tokens of t.
From(t, i) == SubSeq(t, i + 1, Len(t))

\* A request has the fields of onion_http_request_t, and no other.
IsRequest(r) ==
    r = [state |-> r.state, ready |-> r.ready, active |-> r.active,
         received |-> r.received, lineEnd |-> r.lineEnd, headerEnd |-> r.headerEnd,
         host |-> r.host, chunked |-> r.chunked, hasLength |-> r.hasLength,
         capacity |-> r.capacity, bodyLen |-> r.bodyLen, chunkDirty |-> r.chunkDirty,
         method |-> r.method, url |-> r.url, headers |-> r.headers, body |-> r.body]

\* The request in the start line,
StartOf(n) ==
    [state |-> "start", ready |-> FALSE, active |-> TRUE,
     received |-> n, lineEnd |-> 0, headerEnd |-> 0,
     host |-> FALSE, chunked |-> FALSE, hasLength |-> FALSE,
     capacity |-> 0, bodyLen |-> 0, chunkDirty |-> 0,
     method |-> 0, url |-> 0, headers |-> <<>>, body |-> <<>>]

\* in the header fields,
HeadersOf(m, n) ==
    [state |-> "headers", ready |-> FALSE, active |-> TRUE,
     received |-> n, lineEnd |-> 2, headerEnd |-> 0,
     host |-> FALSE, chunked |-> FALSE, hasLength |-> FALSE,
     capacity |-> 0, bodyLen |-> 0, chunkDirty |-> 0,
     method |-> ValidMethod(Lines[m.line.n].method), url |-> m.line.n,
     headers |-> <<>>, body |-> <<>>]

\* The length that the header fields say.
Claimed(m) == IF LengthFields(m.fields) = {} THEN 0 ELSE LengthOf(m.fields)

\* and in the body.
BodyOf(m, n, len, dirty) ==
    [state |-> "body", ready |-> FALSE, active |-> TRUE,
     received |-> n, lineEnd |-> 2, headerEnd |-> HeadEnd(m),
     host |-> TRUE, chunked |-> HasChunked(m.fields),
     hasLength |-> (LengthFields(m.fields) # {}),
     capacity |-> Claimed(m), bodyLen |-> len, chunkDirty |-> dirty,
     method |-> ValidMethod(Lines[m.line.n].method), url |-> m.line.n,
     headers |-> m.fields, body |-> <<>>]

LEMMA AreRequests ==
  ASSUME NEW m, NEW n, NEW len, NEW dirty
  PROVE  /\ IsRequest(NewRequest) /\ IsRequest(StartOf(n)) /\ IsRequest(HeadersOf(m, n))
         /\ IsRequest(BodyOf(m, n, len, dirty))
<1>1. IsRequest(NewRequest)
  BY DEF IsRequest, NewRequest
<1>2. IsRequest(StartOf(n))
  BY DEF IsRequest, StartOf
<1>3. IsRequest(HeadersOf(m, n))
  BY DEF IsRequest, HeadersOf
<1>4. IsRequest(BodyOf(m, n, len, dirty))
  BY DEF IsRequest, BodyOf
<1> QED  BY <1>1, <1>2, <1>3, <1>4

\* Two requests with the same fields are the same.
LEMMA SameRequest ==
  ASSUME NEW r, IsRequest(r), NEW s, IsRequest(s),
         r.state = s.state, r.ready = s.ready, r.active = s.active,
         r.received = s.received, r.lineEnd = s.lineEnd, r.headerEnd = s.headerEnd,
         r.host = s.host, r.chunked = s.chunked, r.hasLength = s.hasLength,
         r.capacity = s.capacity, r.bodyLen = s.bodyLen, r.chunkDirty = s.chunkDirty,
         r.method = s.method, r.url = s.url, r.headers = s.headers, r.body = s.body
  PROVE  r = s
BY DEF IsRequest

\* What counting the bytes that are received leaves alone.
LEMMA CountedHas ==
  ASSUME NEW r, IsRequest(r), NEW k, NEW c, c = Counted(r, k)
  PROVE  /\ IsRequest(c) /\ c.received = r.received + k
         /\ c.state = r.state /\ c.ready = r.ready /\ c.active = r.active
         /\ c.lineEnd = r.lineEnd /\ c.headerEnd = r.headerEnd /\ c.host = r.host
         /\ c.chunked = r.chunked /\ c.hasLength = r.hasLength
         /\ c.capacity = r.capacity /\ c.bodyLen = r.bodyLen
         /\ c.chunkDirty = r.chunkDirty /\ c.method = r.method /\ c.url = r.url
         /\ c.headers = r.headers /\ c.body = r.body
BY DEF IsRequest, Counted

LEMMA StartedHas ==
  ASSUME NEW r, IsRequest(r), NEW c, c = [r EXCEPT !.state = "start"]
  PROVE  /\ IsRequest(c) /\ c.received = r.received
         /\ c.state = "start" /\ c.ready = r.ready /\ c.active = r.active
         /\ c.lineEnd = r.lineEnd /\ c.headerEnd = r.headerEnd /\ c.host = r.host
         /\ c.chunked = r.chunked /\ c.hasLength = r.hasLength
         /\ c.capacity = r.capacity /\ c.bodyLen = r.bodyLen
         /\ c.chunkDirty = r.chunkDirty /\ c.method = r.method /\ c.url = r.url
         /\ c.headers = r.headers /\ c.body = r.body
BY DEF IsRequest

LEMMA InitialisedHas ==
  ASSUME NEW c, c = Initialised(NewRequest)
  PROVE  /\ IsRequest(c) /\ c.received = 0
         /\ c.state = "done" /\ c.ready = FALSE /\ c.active = TRUE
         /\ c.lineEnd = 0 /\ c.headerEnd = 0 /\ c.host = FALSE
         /\ c.chunked = FALSE /\ c.hasLength = FALSE
         /\ c.capacity = 0 /\ c.bodyLen = 0 /\ c.chunkDirty = 0
         /\ c.method = 0 /\ c.url = 0 /\ c.headers = <<>> /\ c.body = <<>>
<1>1. Exited(NewRequest) = NewRequest
  BY DEF Exited, NewRequest
<1>2. Reset(NewRequest) = NewRequest
  BY <1>1 DEF Reset, NewRequest
<1>3. PICK r : r = NewRequest
  OBVIOUS
<1>4. c = [r EXCEPT !.active = TRUE]
  BY <1>2, <1>3 DEF Initialised
<1>5. /\ IsRequest(r) /\ r.received = 0
      /\ r.state = "done" /\ r.ready = FALSE
      /\ r.lineEnd = 0 /\ r.headerEnd = 0 /\ r.host = FALSE
      /\ r.chunked = FALSE /\ r.hasLength = FALSE
      /\ r.capacity = 0 /\ r.bodyLen = 0 /\ r.chunkDirty = 0
      /\ r.method = 0 /\ r.url = 0 /\ r.headers = <<>> /\ r.body = <<>>
  BY <1>3, AreRequests DEF NewRequest
<1>6. /\ IsRequest(c) /\ c.received = r.received
      /\ c.state = r.state /\ c.ready = r.ready /\ c.active = TRUE
      /\ c.lineEnd = r.lineEnd /\ c.headerEnd = r.headerEnd /\ c.host = r.host
      /\ c.chunked = r.chunked /\ c.hasLength = r.hasLength
      /\ c.capacity = r.capacity /\ c.bodyLen = r.bodyLen
      /\ c.chunkDirty = r.chunkDirty /\ c.method = r.method /\ c.url = r.url
      /\ c.headers = r.headers /\ c.body = r.body
  <2>1. IsRequest(r)
    BY <1>5
  <2> QED  BY <1>4, <2>1 DEF IsRequest
<1> QED  BY <1>5, <1>6

LEMMA StartHas ==
  ASSUME NEW n, NEW c, IsRequest(c), c.received = n,
         c.state = "start", c.ready = FALSE, c.active = TRUE,
         c.lineEnd = 0, c.headerEnd = 0, c.host = FALSE,
         c.chunked = FALSE, c.hasLength = FALSE,
         c.capacity = 0, c.bodyLen = 0, c.chunkDirty = 0,
         c.method = 0, c.url = 0, c.headers = <<>>, c.body = <<>>
  PROVE  c = StartOf(n)
BY DEF IsRequest, StartOf

LEMMA CountedNew ==
  ASSUME NEW k \in Nat
  PROVE  [Counted(Initialised(NewRequest), k) EXCEPT !.state = "start"] = StartOf(k)
<1>1. PICK r : r = Initialised(NewRequest)
  OBVIOUS
<1>2. PICK c : c = Counted(r, k)
  OBVIOUS
<1>3. PICK d : d = [c EXCEPT !.state = "start"]
  OBVIOUS
<1>10. /\ IsRequest(r) /\ r.received = 0 /\ r.ready = FALSE /\ r.active = TRUE
       /\ r.lineEnd = 0 /\ r.headerEnd = 0 /\ r.host = FALSE
       /\ r.chunked = FALSE /\ r.hasLength = FALSE
       /\ r.capacity = 0 /\ r.bodyLen = 0 /\ r.chunkDirty = 0
       /\ r.method = 0 /\ r.url = 0 /\ r.headers = <<>> /\ r.body = <<>>
  BY <1>1, InitialisedHas
<1>4. IsRequest(r) /\ r.received + k = k
  BY <1>10
<1>5. IsRequest(c)
  BY <1>2, <1>4, CountedHas
<1>6. IsRequest(d)
  BY <1>3, <1>5, StartedHas
<1>7. d.received = k
  BY <1>2, <1>3, <1>4, <1>5, CountedHas, StartedHas
<1>8. /\ d.state = "start" /\ d.ready = FALSE /\ d.active = TRUE
      /\ d.lineEnd = 0 /\ d.headerEnd = 0 /\ d.host = FALSE
      /\ d.chunked = FALSE /\ d.hasLength = FALSE
      /\ d.capacity = 0 /\ d.bodyLen = 0 /\ d.chunkDirty = 0
      /\ d.method = 0 /\ d.url = 0 /\ d.headers = <<>> /\ d.body = <<>>
  BY <1>2, <1>3, <1>5, <1>10, CountedHas, StartedHas
<1>9. d = StartOf(k)
  BY <1>6, <1>7, <1>8, StartHas
<1> QED  BY <1>1, <1>2, <1>3, <1>9

LEMMA CountedStart ==
  ASSUME NEW n \in Nat, NEW k \in Nat
  PROVE  [Counted(StartOf(n), k) EXCEPT !.state = "start"] = StartOf(n + k)
<1>1. PICK r : r = StartOf(n)
  OBVIOUS
<1>2. PICK c : c = Counted(r, k)
  OBVIOUS
<1>3. PICK d : d = [c EXCEPT !.state = "start"]
  OBVIOUS
<1>4. IsRequest(r) /\ IsRequest(c) /\ IsRequest(d)
  BY <1>1, <1>2, <1>3, AreRequests, CountedHas, StartedHas
<1>5. /\ r.received = n /\ r.ready = FALSE /\ r.active = TRUE
      /\ r.lineEnd = 0 /\ r.headerEnd = 0 /\ r.host = FALSE
      /\ r.chunked = FALSE /\ r.hasLength = FALSE
      /\ r.capacity = 0 /\ r.bodyLen = 0 /\ r.chunkDirty = 0
      /\ r.method = 0 /\ r.url = 0 /\ r.headers = <<>> /\ r.body = <<>>
  BY <1>1 DEF StartOf
<1>6. /\ d.state = "start" /\ d.ready = FALSE /\ d.active = TRUE
      /\ d.lineEnd = 0 /\ d.headerEnd = 0 /\ d.host = FALSE
      /\ d.chunked = FALSE /\ d.hasLength = FALSE
      /\ d.capacity = 0 /\ d.bodyLen = 0 /\ d.chunkDirty = 0
      /\ d.method = 0 /\ d.url = 0 /\ d.headers = <<>> /\ d.body = <<>>
  BY <1>2, <1>3, <1>4, <1>5, CountedHas, StartedHas
<1>7. d.received = n + k
  BY <1>2, <1>3, <1>4, <1>5, CountedHas, StartedHas
<1>8. d = StartOf(n + k)
  BY <1>4, <1>6, <1>7, StartHas
<1> QED  BY <1>1, <1>2, <1>3, <1>8

LEMMA CountedHeaders ==
  ASSUME NEW m, NEW n \in Nat, NEW k \in Nat
  PROVE  Counted(HeadersOf(m, n), k) = HeadersOf(m, n + k)
<1>1. PICK r : r = HeadersOf(m, n)
  OBVIOUS
<1>2. PICK c : c = Counted(r, k)
  OBVIOUS
<1>3. PICK d : d = HeadersOf(m, n + k)
  OBVIOUS
<1>4. IsRequest(r) /\ IsRequest(c) /\ IsRequest(d)
  BY <1>1, <1>2, <1>3, AreRequests, CountedHas
<1>5. /\ r.received + k = d.received /\ r.state = d.state
      /\ r.ready = d.ready /\ r.active = d.active
      /\ r.lineEnd = d.lineEnd /\ r.headerEnd = d.headerEnd /\ r.host = d.host
      /\ r.chunked = d.chunked /\ r.hasLength = d.hasLength
      /\ r.capacity = d.capacity /\ r.bodyLen = d.bodyLen
      /\ r.chunkDirty = d.chunkDirty /\ r.method = d.method /\ r.url = d.url
      /\ r.headers = d.headers /\ r.body = d.body
  BY <1>1, <1>3 DEF HeadersOf
<1>6. c = d
  BY <1>2, <1>4, <1>5, CountedHas, SameRequest
<1> QED  BY <1>1, <1>2, <1>3, <1>6

CountsBody(m, n, k, len, dirty) ==
    Counted(BodyOf(m, n, len, dirty), k) = BodyOf(m, n + k, len, dirty)

LEMMA CountedBody ==
  ASSUME NEW m, NEW n \in Nat, NEW k \in Nat, NEW len, NEW dirty
  PROVE  CountsBody(m, n, k, len, dirty)
<1>1. PICK r : r = BodyOf(m, n, len, dirty)
  OBVIOUS
<1>2. PICK c : c = Counted(r, k)
  OBVIOUS
<1>3. PICK d : d = BodyOf(m, n + k, len, dirty)
  OBVIOUS
<1>4. IsRequest(r) /\ IsRequest(c) /\ IsRequest(d)
  BY <1>1, <1>2, <1>3, AreRequests, CountedHas
<1>5. /\ r.received + k = d.received /\ r.state = d.state
      /\ r.ready = d.ready /\ r.active = d.active
      /\ r.lineEnd = d.lineEnd /\ r.headerEnd = d.headerEnd /\ r.host = d.host
      /\ r.chunked = d.chunked /\ r.hasLength = d.hasLength
      /\ r.capacity = d.capacity /\ r.bodyLen = d.bodyLen
      /\ r.chunkDirty = d.chunkDirty /\ r.method = d.method /\ r.url = d.url
      /\ r.headers = d.headers /\ r.body = d.body
  BY <1>1, <1>3 DEF BodyOf
<1>6. c = d
  BY <1>2, <1>4, <1>5, CountedHas, SameRequest
<1> QED  BY <1>1, <1>2, <1>3, <1>6 DEF CountsBody

LEMMA SentIs ==
  ASSUME NEW m, IsFramed(m), NEW n \in 0 .. Len(Wire(m))
  PROVE  /\ Sent(m, n) \in Seq(Tokens) /\ Len(Sent(m, n)) = n
         /\ \A x \in 1 .. n : Sent(m, n)[x] = Wire(m)[x]
         /\ \A i \in 0 .. n :
              /\ From(Sent(m, n), i) \in Seq(Tokens) /\ Len(From(Sent(m, n), i)) = n - i
              /\ \A x \in 1 .. n - i : From(Sent(m, n), i)[x] = Wire(m)[i + x]
<1>1. Wire(m) \in Seq(Tokens) /\ Len(Wire(m)) \in Nat
  BY WireShape, LenProperties
<1>2. /\ Sent(m, n) \in Seq(Tokens) /\ Len(Sent(m, n)) = n
      /\ \A x \in 1 .. n : Sent(m, n)[x] = Wire(m)[x]
  BY <1>1, Beginning DEF Sent
<1>3. ASSUME NEW i \in 0 .. n
      PROVE  /\ From(Sent(m, n), i) \in Seq(Tokens) /\ Len(From(Sent(m, n), i)) = n - i
             /\ \A x \in 1 .. n - i : From(Sent(m, n), i)[x] = Wire(m)[i + x]
  <2> DEFINE t == Sent(m, n)
             e == From(t, i)
  <2>1. t \in Seq(Tokens) /\ Len(t) = n /\ \A x \in 1 .. n : t[x] = Wire(m)[x]
    BY <1>2
  <2> HIDE DEF t
  <2>2. i \in 0 .. Len(t)
    BY <2>1
  <2>3. e \in Seq(Tokens) /\ Len(e) = Len(t) - i /\ \A x \in 1 .. Len(t) - i : e[x] = t[i + x]
    BY <2>1, <2>2, Ending DEF From
  <2> HIDE DEF e
  <2>4. ASSUME NEW x \in 1 .. n - i  PROVE e[x] = Wire(m)[i + x]
    <3>1. i + x \in 1 .. n /\ x \in 1 .. Len(t) - i
      BY <1>1, <2>1
    <3> QED  BY <3>1, <2>1, <2>3
  <2> QED  BY <2>1, <2>3, <2>4 DEF e, t
<1> QED  BY <1>2, <1>3

-----------------------------------------------------------------------------
(* The start line.                                                           *)

\* The memory of an outcome.
LEMMA OutcomeIs ==
  ASSUME NEW ret, NEW r, NEW b
  PROVE  Outcome(ret, r, b).ret = ret /\ Outcome(ret, r, b).r = r /\ Outcome(ret, r, b).b = b
BY DEF Outcome

\* A start line that is accepted leaves its method and its target in the request.
LEMMA LineTaken ==
  ASSUME NEW m, NEW n, IsStartLine(m.line), NEW l, l = m.line, NEW d,
         d = [StartLine(StartOf(n), l.n) EXCEPT !.lineEnd = 2, !.state = "headers"]
  PROVE  d = HeadersOf(m, n)
<1> DEFINE method == ValidMethod(Lines[m.line.n].method)
<1>1. PICK r : r = StartOf(n)
  OBVIOUS
<1>2. PICK c : c = [r EXCEPT !.method = method, !.url = m.line.n]
  OBVIOUS
<1>4. PICK h : h = HeadersOf(m, n)
  OBVIOUS
<1>5. IsUrl(Lines[m.line.n].url) /\ method # Len(MethodList)
  <2>1. Len(MethodList) = 7
    BY DEF MethodList
  <2>2. IsUrl(Lines[m.line.n].url) /\ method < Len(MethodList)
    BY DEF IsStartLine
  <2> HIDE DEF method
  <2> QED  BY <2>1, <2>2
<1>6. StartLine(r, m.line.n) = c
  <2>1. StartLine(r, m.line.n) = [r EXCEPT !.method = method, !.url = m.line.n]
    BY <1>5 DEF StartLine
  <2> QED  BY <1>2, <2>1
<1>3. d = [c EXCEPT !.lineEnd = 2, !.state = "headers"]
  <2>1. StartLine(StartOf(n), l.n) = c
    BY <1>1, <1>6
  <2>2. \A x : x = c => [x EXCEPT !.lineEnd = 2, !.state = "headers"]
                        = [c EXCEPT !.lineEnd = 2, !.state = "headers"]
    BY Zenon
  <2> QED  BY <2>1, <2>2
<1> HIDE DEF method
<1>7. IsRequest(r) /\ IsRequest(h)
  BY <1>1, <1>4, AreRequests
<1>8. /\ IsRequest(c) /\ c.received = r.received /\ c.state = r.state
      /\ c.ready = r.ready /\ c.active = r.active
      /\ c.lineEnd = r.lineEnd /\ c.headerEnd = r.headerEnd /\ c.host = r.host
      /\ c.chunked = r.chunked /\ c.hasLength = r.hasLength
      /\ c.capacity = r.capacity /\ c.bodyLen = r.bodyLen
      /\ c.chunkDirty = r.chunkDirty /\ c.method = method /\ c.url = m.line.n
      /\ c.headers = r.headers /\ c.body = r.body
  BY <1>2, <1>7 DEF IsRequest
<1>9. /\ IsRequest(d) /\ d.received = c.received /\ d.state = "headers"
      /\ d.ready = c.ready /\ d.active = c.active
      /\ d.lineEnd = 2 /\ d.headerEnd = c.headerEnd /\ d.host = c.host
      /\ d.chunked = c.chunked /\ d.hasLength = c.hasLength
      /\ d.capacity = c.capacity /\ d.bodyLen = c.bodyLen
      /\ d.chunkDirty = c.chunkDirty /\ d.method = c.method /\ d.url = c.url
      /\ d.headers = c.headers /\ d.body = c.body
  <2>1. IsRequest(c)
    BY <1>8
  <2> QED  BY <1>3, <2>1 DEF IsRequest
<1>10. /\ r.received = h.received /\ "headers" = h.state
       /\ r.ready = h.ready /\ r.active = h.active
       /\ 2 = h.lineEnd /\ r.headerEnd = h.headerEnd /\ r.host = h.host
       /\ r.chunked = h.chunked /\ r.hasLength = h.hasLength
       /\ r.capacity = h.capacity /\ r.bodyLen = h.bodyLen
       /\ r.chunkDirty = h.chunkDirty /\ method = h.method /\ m.line.n = h.url
       /\ r.headers = h.headers /\ r.body = h.body
  BY <1>1, <1>4 DEF StartOf, HeadersOf, method
<1>11. d = h
  <2>1. /\ d.received = h.received /\ d.state = h.state
        /\ d.ready = h.ready /\ d.active = h.active
        /\ d.lineEnd = h.lineEnd /\ d.headerEnd = h.headerEnd /\ d.host = h.host
        /\ d.chunked = h.chunked /\ d.hasLength = h.hasLength
        /\ d.capacity = h.capacity /\ d.bodyLen = h.bodyLen
        /\ d.chunkDirty = h.chunkDirty /\ d.method = h.method /\ d.url = h.url
        /\ d.headers = h.headers /\ d.body = h.body
    BY <1>8, <1>9, <1>10
  <2>2. IsRequest(d) /\ IsRequest(h)
    BY <1>7, <1>9
  <2> QED  BY <2>1, <2>2, SameRequest
<1> QED  BY <1>4, <1>11

LEMMA LineParsed ==
  ASSUME NEW m, IsFramed(m), NEW n \in 1 .. Len(Wire(m)),
         NEW b, IsBuffer(b), Unread(b) = Sent(m, n)
  PROVE  LET o == ParseStartLine(StartOf(n), b)
         IN  \/ o.ret = "error" /\ ~IsAcceptable(m)
             \/ o.ret = "more" /\ o.r = StartOf(n) /\ o.b = b /\ n = 1
             \/ /\ o.ret = "next" /\ o.r = HeadersOf(m, n) /\ n >= 2 /\ IsStartLine(m.line)
                /\ IsBuffer(o.b) /\ o.b.capacity = b.capacity
                /\ Unread(o.b) = From(Sent(m, n), 2)
<1> DEFINE s == Sent(m, n)
           o == ParseStartLine(StartOf(n), b)
<1>1. /\ Len(Wire(m)) \in Nat /\ n \in Nat /\ n >= 1 /\ n <= Len(Wire(m))
      /\ Wire(m)[1] = m.line /\ Wire(m)[2] = Crlf
  BY WireShape, LenProperties
<1>2. s \in Seq(Tokens) /\ Len(s) = n /\ s[1] = m.line /\ (n >= 2 => s[2] = Crlf)
  <2>1. n \in 0 .. Len(Wire(m)) /\ 1 \in 1 .. n /\ (n >= 2 => 2 \in 1 .. n)
    BY <1>1
  <2>2. s \in Seq(Tokens) /\ Len(s) = n /\ \A x \in 1 .. n : s[x] = Wire(m)[x]
    BY <2>1, SentIs
  <2> HIDE DEF s
  <2> QED  BY <2>1, <2>2, <1>1
<1>3. DOMAIN s = 1 .. n
  BY <1>2, LenProperties
<1> HIDE DEF s
<1>4. Unread(b) = s
  BY DEF s
<1>5. LineMax \in Nat
  BY SizesAssumption
<1>6. CASE Len(s) >= LineMax
  <2>3. ~(Len(s) < LineMax)
    BY <1>1, <1>2, <1>5, <1>6
  <2>1. o = Outcome("error", StartOf(n), b)
    BY <1>4, <1>6, <2>3 DEF ParseStartLine
  <2>2. ~IsAcceptable(m)
    <3>1. ~(Len(Wire(m)) < LineMax)
      BY <1>1, <1>2, <1>5, <1>6
    <3> QED  BY <3>1 DEF IsAcceptable
  <2> QED  BY <2>1, <2>2, OutcomeIs
<1>7. CASE Len(s) < LineMax /\ LineEnds(s) = {}
  <2>1. ~(Len(s) >= LineMax)
    BY <1>1, <1>2, <1>5, <1>7
  <2>2. o = Outcome("more", StartOf(n), b)
    BY <1>4, <1>7, <2>1 DEF ParseStartLine
  <2>3. n = 1
    <3>1. ~(n >= 2)
      <4> SUFFICES ASSUME n >= 2  PROVE FALSE
        OBVIOUS
      <4>1. 2 \in DOMAIN s /\ s[2] = Crlf
        BY <1>1, <1>2, <1>3
      <4> QED  BY <4>1, <1>7 DEF LineEnds
    <3> QED  BY <3>1, <1>1
  <2> QED  BY <2>2, <2>3, OutcomeIs
<1>8. CASE Len(s) < LineMax /\ LineEnds(s) # {}
  <2>1. ~(Len(s) >= LineMax)
    BY <1>1, <1>2, <1>5, <1>8
  <2>2. o = IF s[1].kind # "line" THEN Outcome("error", StartOf(n), b)
            ELSE IF ~IsStartLine(s[1]) THEN Outcome("error", StartLine(StartOf(n), s[1].n), b)
            ELSE Outcome("next",
                         [StartLine(StartOf(n), s[1].n)
                            EXCEPT !.lineEnd = 2, !.state = "headers"],
                         Consume(b, 2))
    BY <1>4, <1>8, <2>1 DEF ParseStartLine
  <2>3. CASE ~IsStartLine(m.line)
    <3>1. o = Outcome("error", StartOf(n), b)
          \/ o = Outcome("error", StartLine(StartOf(n), s[1].n), b)
      BY <1>2, <2>2, <2>3 DEF IsStartLine
    <3>2. ~IsAcceptable(m)
      BY <2>3 DEF IsAcceptable
    <3> QED  BY <3>1, <3>2, OutcomeIs
  <2>4. CASE IsStartLine(m.line)
    <3>1. m.line.kind = "line"
      BY <2>4 DEF IsStartLine
    <3>2. o = Outcome("next", HeadersOf(m, n), Consume(b, 2))
      <4>1. PICK d : d = [StartLine(StartOf(n), s[1].n)
                            EXCEPT !.lineEnd = 2, !.state = "headers"]
        OBVIOUS
      <4>2. d = HeadersOf(m, n)
        BY <1>2, <2>4, <4>1, LineTaken
      <4>3. s[1].kind = "line" /\ IsStartLine(s[1])
        BY <1>2, <2>4, <3>1
      <4>4. o = Outcome("next", d, Consume(b, 2))
        BY <2>2, <4>1, <4>3
      <4> QED  BY <4>2, <4>4
    <3>3. n >= 2
      <4>1. m.line # Crlf
        BY <3>1 DEF Crlf, Token
      <4>2. PICK i \in 1 .. n : s[i] = Crlf
        BY <1>3, <1>8 DEF LineEnds
      <4>3. i # 1
        BY <1>2, <4>1, <4>2
      <4> QED  BY <1>1, <4>2, <4>3
    <3>4. 2 \in 0 .. Len(Unread(b))
      BY <1>1, <1>2, <1>4, <3>3
    <3>5. /\ IsBuffer(Consume(b, 2)) /\ Consume(b, 2).capacity = b.capacity
          /\ Unread(Consume(b, 2)) = SubSeq(Unread(b), 2 + 1, Len(Unread(b)))
      BY <3>4, ConsumedIs
    <3>6. Unread(Consume(b, 2)) = From(Sent(m, n), 2)
      BY <3>5 DEF From
    <3>7. o.ret = "next" /\ o.r = HeadersOf(m, n) /\ o.b = Consume(b, 2)
      BY <3>2, OutcomeIs
    <3> HIDE DEF o
    <3> QED  BY <2>4, <3>3, <3>5, <3>6, <3>7 DEF o
  <2> QED  BY <2>3, <2>4
<1>9. Len(s) >= LineMax \/ Len(s) < LineMax
  BY <1>1, <1>2, <1>5
<1> QED  BY <1>6, <1>7, <1>8, <1>9

-----------------------------------------------------------------------------
(* The header fields.                                                        *)

LEMMA NoFields ==
  ASSUME NEW r, NEW b, IsBuffer(b), Len(Unread(b)) # 0, Unread(b)[1] = Crlf
  PROVE  LET o == ParseHeaders(r, b)
         IN  \/ o.ret = "error"
             \/ o.ret = "more" /\ o.r = r /\ o.b = b
<1> DEFINE s == Unread(b)
           o == ParseHeaders(r, b)
<1>1. CASE EmptyLines(s) = {}
  <2>1. o = Outcome("error", r, b) \/ o = Outcome("more", r, b)
    BY <1>1 DEF ParseHeaders
  <2> QED  BY <2>1, OutcomeIs
<1>2. CASE EmptyLines(s) # {}
  <2>1. FieldsOf(s) = <<>>
    BY DEF FieldsOf
  <2>2. o = TakeFields(r, b, <<>>, Min(EmptyLines(s)) + 1)
    BY <1>2, <2>1 DEF ParseHeaders
  <2>3. ~Overruns(<<>>) /\ ~HasHost(<<>>)
    <3>1. ~(Len(<<>>) > MaxHeaders)
      BY SizesAssumption
    <3> QED  BY <3>1 DEF Overruns, HasHost
  <2>4. o = Outcome("error", r, b)
    BY <2>2, <2>3 DEF TakeFields
  <2> QED  BY <2>4, OutcomeIs
<1> QED  BY <1>1, <1>2

\* The header fields of m are taken.
Accepted(m) == AreFields(m.fields) /\ HasHost(m.fields)

\* The request with the header fields of m.
LEMMA FieldsTaken ==
  ASSUME NEW m, NEW n, NEW b, NEW x, 2 + x = HeadEnd(m),
         ~Overruns(m.fields), Accepted(m)
  PROVE  TakeFields(HeadersOf(m, n), b, m.fields, x)
           = Outcome("next", BodyOf(m, n, 0, 0), Consume(b, x))
<1>10. PICK r : r = HeadersOf(m, n)
  OBVIOUS
<1>11. PICK d :
         d = [r EXCEPT !.headers = m.fields,
                       !.host = TRUE,
                       !.chunked = HasChunked(m.fields),
                       !.hasLength = LengthFields(m.fields) # {},
                       !.capacity = IF LengthFields(m.fields) = {} THEN @
                                    ELSE LengthOf(m.fields),
                       !.headerEnd = r.lineEnd + x,
                       !.state = "body"]
  OBVIOUS
<1>12. TakeFields(r, b, m.fields, x) = Outcome("next", d, Consume(b, x))
  BY <1>11 DEF TakeFields, Accepted
<1>1. PICK h : h = BodyOf(m, n, 0, 0)
  OBVIOUS
<1>2. IsRequest(r) /\ IsRequest(h)
  BY <1>1, <1>10, AreRequests
<1>3. PICK chunked, hasLength, claimed, headEnd :
        /\ chunked = HasChunked(m.fields) /\ hasLength = (LengthFields(m.fields) # {})
        /\ claimed = IF LengthFields(m.fields) = {} THEN r.capacity ELSE LengthOf(m.fields)
        /\ headEnd = r.lineEnd + x
  OBVIOUS
<1>4. d = [r EXCEPT !.headers = m.fields, !.host = TRUE, !.chunked = chunked,
                    !.hasLength = hasLength, !.capacity = claimed, !.headerEnd = headEnd,
                    !.state = "body"]
  BY <1>3, <1>11
<1>5. /\ IsRequest(d) /\ d.received = r.received /\ d.state = "body"
      /\ d.ready = r.ready /\ d.active = r.active
      /\ d.lineEnd = r.lineEnd /\ d.headerEnd = headEnd /\ d.host = TRUE
      /\ d.chunked = chunked /\ d.hasLength = hasLength
      /\ d.capacity = claimed /\ d.bodyLen = r.bodyLen
      /\ d.chunkDirty = r.chunkDirty /\ d.method = r.method /\ d.url = r.url
      /\ d.headers = m.fields /\ d.body = r.body
  <2>1. IsRequest(r)
    BY <1>2
  <2>2. PICK fields : fields = m.fields
    OBVIOUS
  <2>3. d = [r EXCEPT !.headers = fields, !.host = TRUE, !.chunked = chunked,
                      !.hasLength = hasLength, !.capacity = claimed, !.headerEnd = headEnd,
                      !.state = "body"]
    BY <1>4, <2>2
  <2>4. IsRequest(d)
    BY <2>1, <2>3 DEF IsRequest
  <2>5. /\ d.received = r.received /\ d.state = "body"
        /\ d.ready = r.ready /\ d.active = r.active
        /\ d.lineEnd = r.lineEnd /\ d.headerEnd = headEnd /\ d.host = TRUE
    BY <2>1, <2>3 DEF IsRequest
  <2>6. /\ d.chunked = chunked /\ d.hasLength = hasLength
        /\ d.capacity = claimed /\ d.bodyLen = r.bodyLen
    BY <2>1, <2>3 DEF IsRequest
  <2>7. /\ d.chunkDirty = r.chunkDirty /\ d.method = r.method /\ d.url = r.url
        /\ d.headers = fields /\ d.body = r.body
    BY <2>1, <2>3 DEF IsRequest
  <2> QED  BY <2>2, <2>4, <2>5, <2>6, <2>7
<1>6. /\ r.received = h.received /\ "body" = h.state
      /\ r.ready = h.ready /\ r.active = h.active
      /\ r.lineEnd = h.lineEnd /\ TRUE = h.host
      /\ r.bodyLen = h.bodyLen
      /\ r.chunkDirty = h.chunkDirty /\ r.method = h.method /\ r.url = h.url
      /\ m.fields = h.headers /\ r.body = h.body
      /\ HeadEnd(m) = h.headerEnd /\ Claimed(m) = h.capacity
      /\ r.lineEnd = 2 /\ r.capacity = 0
  BY <1>1, <1>10 DEF HeadersOf, BodyOf
<1>7. chunked = h.chunked /\ hasLength = h.hasLength
  BY <1>1, <1>3 DEF BodyOf
<1>8. headEnd = h.headerEnd /\ claimed = h.capacity
  BY <1>3, <1>6 DEF Claimed
<1>9. d = h
  <2>1. /\ d.received = h.received /\ d.state = h.state
        /\ d.ready = h.ready /\ d.active = h.active
        /\ d.lineEnd = h.lineEnd /\ d.headerEnd = h.headerEnd /\ d.host = h.host
    BY <1>5, <1>6, <1>8
  <2>2. /\ d.chunked = h.chunked /\ d.hasLength = h.hasLength
        /\ d.capacity = h.capacity /\ d.bodyLen = h.bodyLen
        /\ d.chunkDirty = h.chunkDirty /\ d.method = h.method /\ d.url = h.url
        /\ d.headers = h.headers /\ d.body = h.body
    BY <1>5, <1>6, <1>7, <1>8
  <2>3. IsRequest(d) /\ IsRequest(h)
    BY <1>2, <1>5
  <2> QED  BY <2>1, <2>2, <2>3, SameRequest
<1> QED  BY <1>1, <1>9, <1>10, <1>12

\* Where the first empty line is found.
LEMMA EmptyLineAt ==
  ASSUME NEW m, IsFramed(m), NEW n \in 2 .. Len(Wire(m)), NEW s, s = From(Sent(m, n), 2),
         Len(m.fields) # 0
  PROVE  /\ n < HeadEnd(m) => EmptyLines(s) = {}
         /\ n >= HeadEnd(m) =>
              /\ EmptyLines(s) # {} /\ Min(EmptyLines(s)) = 2 * Len(m.fields)
              /\ FieldsOf(s) = m.fields
<1> DEFINE k == Len(m.fields)
           w == Wire(m)
<1>1. /\ k \in Nat /\ k >= 1 /\ Len(w) \in Nat /\ n \in Nat /\ n >= 2 /\ n <= Len(w)
      /\ HeadEnd(m) = 2 * k + 3
      /\ w[2] = Crlf /\ w[2 * k + 3] = Crlf
      /\ \A i \in 1 .. k : w[2 * i + 1] = m.fields[i] /\ w[2 * i + 2] = Crlf
  <2>1. /\ w \in Seq(Tokens) /\ k \in Nat /\ w[2] = Crlf /\ w[HeadEnd(m)] = Crlf
        /\ \A i \in 1 .. k : w[2 * i + 1] = m.fields[i] /\ w[2 * i + 2] = Crlf
    BY WireShape
  <2>2. HeadEnd(m) = 2 * k + 3
    BY DEF HeadEnd
  <2>3. Len(w) \in Nat
    BY <2>1, LenProperties
  <2> HIDE DEF w, k
  <2>4. k >= 1 /\ n \in Nat /\ n >= 2 /\ n <= Len(w)
    <3>1. k # 0
      BY DEF k
    <3>2. n \in 2 .. Len(w)
      BY DEF w
    <3> QED  BY <2>1, <2>3, <3>1, <3>2
  <2> QED  BY <2>1, <2>2, <2>3, <2>4
<1>2. m.fields \in Seq(Tokens \ {Crlf}) /\ \A i \in 1 .. k : m.fields[i] # Crlf
  BY ElementOfSeq DEF IsFramed
<1>3. s \in Seq(Tokens) /\ Len(s) = n - 2 /\ \A x \in 1 .. n - 2 : s[x] = w[2 + x]
  <2>1. n \in 0 .. Len(Wire(m)) /\ 2 \in 0 .. n
    BY <1>1
  <2>2. \A i \in 0 .. n :
          /\ From(Sent(m, n), i) \in Seq(Tokens) /\ Len(From(Sent(m, n), i)) = n - i
          /\ \A x \in 1 .. n - i : From(Sent(m, n), i)[x] = Wire(m)[i + x]
    BY <2>1, SentIs
  <2> QED  BY <2>1, <2>2
<1>4. DOMAIN s = 1 .. n - 2
  BY <1>3, LenProperties
<1> HIDE DEF k, w
<1>5. \A i : i \in EmptyLines(s) <=>
               i \in 1 .. n - 2 /\ s[i] = Crlf /\ i + 1 \in 1 .. n - 2 /\ s[i + 1] = Crlf
  BY <1>4 DEF EmptyLines, LineEnds
<1>6. ASSUME NEW i \in EmptyLines(s)  PROVE i \in Nat /\ i >= 2 * k /\ i + 1 <= n - 2
  <2>1. i \in 1 .. n - 2 /\ s[i] = Crlf /\ i + 1 \in 1 .. n - 2 /\ s[i + 1] = Crlf
    BY <1>5
  <2>2. w[2 + i] = Crlf /\ w[2 + (i + 1)] = Crlf
    BY <1>3, <2>1
  <2>3. ASSUME NEW j \in 1 .. k  PROVE i # 2 * j - 1 /\ i + 1 # 2 * j - 1
    <3>1. w[2 * j + 1] # Crlf
      BY <1>1, <1>2
    <3>2. i = 2 * j - 1 => 2 + i = 2 * j + 1
      BY <2>1
    <3>3. i + 1 = 2 * j - 1 => 2 + (i + 1) = 2 * j + 1
      BY <2>1
    <3> QED  BY <2>2, <3>1, <3>2, <3>3
  <2>4. i \in Nat /\ i >= 1
    BY <1>1, <2>1
  <2>5. ~(i < 2 * k)
    <3> SUFFICES ASSUME i < 2 * k  PROVE FALSE
      OBVIOUS
    <3>1. PICK j \in Int : i = 2 * j - 1 \/ i = 2 * j
      <4>1. \E j \in Int : i = 2 * j - 1 \/ i = 2 * j
        <5>1. i = 2 * ((i + 1) \div 2) - 1 \/ i = 2 * ((i + 1) \div 2)
          BY <2>4
        <5>2. (i + 1) \div 2 \in Int
          BY <2>4
        <5> QED  BY <5>1, <5>2
      <4> QED  BY <4>1
    <3>2. CASE i = 2 * j - 1
      <4>1. j \in 1 .. k
        BY <1>1, <2>4, <3>1, <3>2
      <4> QED  BY <2>3, <3>2, <4>1
    <3>3. CASE i = 2 * j
      <4>1. j + 1 \in 1 .. k /\ i + 1 = 2 * (j + 1) - 1
        BY <1>1, <2>4, <3>1, <3>3
      <4> QED  BY <2>3, <4>1
    <3> QED  BY <3>1, <3>2, <3>3
  <2>6. i >= 2 * k /\ i + 1 <= n - 2
    BY <1>1, <2>1, <2>4, <2>5
  <2> QED  BY <2>4, <2>6
<1>7. ASSUME n < HeadEnd(m)  PROVE EmptyLines(s) = {}
  <2> SUFFICES ASSUME NEW i \in EmptyLines(s)  PROVE FALSE
    OBVIOUS
  <2>1. i \in Nat /\ i >= 2 * k /\ i + 1 <= n - 2
    BY <1>6
  <2> QED  BY <1>1, <1>7, <2>1
<1>8. ASSUME n >= HeadEnd(m)
      PROVE  /\ EmptyLines(s) # {} /\ Min(EmptyLines(s)) = 2 * k
             /\ FieldsOf(s) = m.fields
  <2>1. 2 * k \in EmptyLines(s)
    <3>1. 2 * k \in 1 .. n - 2 /\ 2 * k + 1 \in 1 .. n - 2
      BY <1>1, <1>8
    <3>2. 2 + 2 * k = 2 * k + 2 /\ 2 + (2 * k + 1) = 2 * k + 3 /\ k \in 1 .. k
      BY <1>1
    <3>3. s[2 * k] = Crlf /\ s[2 * k + 1] = Crlf
      BY <1>1, <1>3, <3>1, <3>2
    <3> QED  BY <1>5, <3>1, <3>3
  <2>2. Min(EmptyLines(s)) = 2 * k
    <3>1. EmptyLines(s) \in SUBSET Nat /\ EmptyLines(s) # {}
      BY <1>6, <2>1
    <3>2. Min(EmptyLines(s)) \in EmptyLines(s) /\ Min(EmptyLines(s)) <= 2 * k
      BY <2>1, <3>1, MinIs
    <3>3. Min(EmptyLines(s)) \in Nat /\ Min(EmptyLines(s)) >= 2 * k
      BY <1>6, <3>2
    <3> HIDE DEF k
    <3> QED  BY <1>1, <3>2, <3>3
  <2>3. \A i \in 1 .. k : s[2 * i - 1] = m.fields[i]
    <3> SUFFICES ASSUME NEW i \in 1 .. k  PROVE s[2 * i - 1] = m.fields[i]
      OBVIOUS
    <3>1. /\ i \in Int /\ k \in Int /\ n \in Int
          /\ 1 <= i /\ i <= k /\ 2 * k + 3 <= n
      BY <1>1, <1>8
    <3>2. 2 * i - 1 \in 1 .. n - 2 /\ 2 + (2 * i - 1) = 2 * i + 1
      <4> HIDE DEF k
      <4> QED  BY ONLY <3>1
    <3> QED  BY <1>1, <1>3, <3>2
  <2>4. s[1] # Crlf
    <3>1. 1 \in 1 .. k /\ 2 * 1 - 1 = 1
      BY <1>1
    <3>2. s[2 * 1 - 1] = m.fields[1] /\ m.fields[1] # Crlf
      BY <1>2, <2>3, <3>1
    <3> QED  BY <3>1, <3>2
  <2>5. FieldsOf(s) = [i \in 1 .. k |-> s[2 * i - 1]]
    <3>1. (2 * k) \div 2 = k
      BY <1>1
    <3> QED  BY <2>2, <2>4, <3>1 DEF FieldsOf
  <2>6. m.fields = [i \in 1 .. k |-> m.fields[i]]
    <3>1. DOMAIN m.fields = 1 .. k
      BY <1>2, LenProperties DEF k
    <3>2. m.fields = [i \in DOMAIN m.fields |-> m.fields[i]]
      BY <1>2
    <3> QED  BY <3>1, <3>2
  <2>7. FieldsOf(s) = m.fields
    BY <2>3, <2>5, <2>6
  <2> QED  BY <2>1, <2>2, <2>7
<1> QED  BY <1>7, <1>8 DEF k

LEMMA HeadersParsed ==
  ASSUME NEW m, IsFramed(m), NEW n \in 2 .. Len(Wire(m)),
         NEW b, IsBuffer(b), Unread(b) = From(Sent(m, n), 2)
  PROVE  LET o == ParseHeaders(HeadersOf(m, n), b)
         IN  \/ o.ret \in {"error", "overrun"} /\ ~IsAcceptable(m)
             \/ o.ret = "more" /\ o.r = HeadersOf(m, n) /\ o.b = b /\ n < HeadEnd(m)
             \/ /\ o.ret = "more" /\ o.r = HeadersOf(m, n) /\ o.b = b
                /\ n >= 3 /\ Sent(m, n)[3] = Crlf /\ ~IsAcceptable(m)
             \/ /\ o.ret = "next" /\ o.r = BodyOf(m, n, 0, 0) /\ n >= HeadEnd(m)
                /\ Accepted(m)
                /\ IsBuffer(o.b) /\ o.b.capacity = b.capacity
                /\ Unread(o.b) = From(Sent(m, n), HeadEnd(m))
<1> DEFINE s == Unread(b)
           r == HeadersOf(m, n)
           o == ParseHeaders(r, b)
           k == Len(m.fields)
<1>1. /\ k \in Nat /\ Len(Wire(m)) \in Nat /\ n \in Nat /\ n >= 2 /\ n <= Len(Wire(m))
      /\ HeadEnd(m) = 2 * k + 3 /\ HeadEnd(m) <= Len(Wire(m)) /\ Wire(m)[HeadEnd(m)] = Crlf
  <2>1. /\ k \in Nat /\ Wire(m) \in Seq(Tokens) /\ Wire(m)[HeadEnd(m)] = Crlf
        /\ Len(BodyOnWire(m)) \in Nat
        /\ Len(Wire(m)) = HeadEnd(m) + Len(BodyOnWire(m))
    BY WireShape
  <2>2. Len(Wire(m)) \in Nat /\ HeadEnd(m) = 2 * k + 3
    BY <2>1, LenProperties DEF HeadEnd
  <2>3. HeadEnd(m) <= Len(Wire(m))
    <3> HIDE DEF k
    <3> QED  BY <2>1, <2>2
  <2>4. n \in Nat /\ n >= 2 /\ n <= Len(Wire(m))
    BY <2>2
  <2> QED  BY <2>1, <2>2, <2>3, <2>4
<1>2. s \in Seq(Tokens) /\ Len(s) = n - 2
  <2>1. n \in 0 .. Len(Wire(m)) /\ 2 \in 0 .. n
    BY <1>1
  <2>2. \A i \in 0 .. n :
          From(Sent(m, n), i) \in Seq(Tokens) /\ Len(From(Sent(m, n), i)) = n - i
    BY <2>1, SentIs
  <2> QED  BY <2>1, <2>2
<1>3. IsAcceptable(m) => /\ Accepted(m) /\ k # 0 /\ k <= MaxHeaders /\ 2 * k < HeaderMax
  <2>1. k = 0 => ~HasHost(m.fields)
    <3>1. m.fields \in Seq(Tokens \ {Crlf})
      BY DEF IsFramed
    <3>2. k = 0 => DOMAIN m.fields = {}
      BY <3>1, LenProperties
    <3> QED  BY <3>2 DEF HasHost
  <2>2. IsAcceptable(m) =>
          AreFields(m.fields) /\ HasHost(m.fields) /\ k <= MaxHeaders /\ 2 * k < HeaderMax
    BY DEF IsAcceptable
  <2> HIDE DEF k
  <2> QED  BY <2>1, <2>2 DEF Accepted
<1>4. HeaderMax \in Nat /\ MaxHeaders \in Nat
  BY SizesAssumption
<1>5. CASE n < HeadEnd(m) /\ EmptyLines(s) = {}
  <2>1. o = Outcome(IF Len(s) >= HeaderMax THEN "error" ELSE "more", r, b)
    BY <1>5 DEF ParseHeaders
  <2>2. CASE Len(s) >= HeaderMax
    <3>1. ~(2 * k < HeaderMax)
      <4> HIDE DEF k, s
      <4> QED  BY <1>1, <1>2, <1>4, <1>5, <2>2
    <3>2. o = Outcome("error", r, b)
      BY <2>1, <2>2
    <3> QED  BY <1>3, <3>1, <3>2, OutcomeIs
  <2>3. CASE ~(Len(s) >= HeaderMax)
    <3>1. o = Outcome("more", r, b)
      BY <2>1, <2>3
    <3> QED  BY <1>5, <3>1, OutcomeIs
  <2> QED  BY <2>2, <2>3
<1>6. CASE n >= 3 /\ k = 0
  <2>1. Len(s) # 0 /\ s[1] = Crlf /\ Sent(m, n)[3] = Crlf
    <3>1. HeadEnd(m) = 3 /\ 3 \in 1 .. n /\ 1 \in 1 .. n - 2 /\ 2 + 1 = 3
      BY <1>1, <1>6
    <3>2. n \in 0 .. Len(Wire(m)) /\ 2 \in 0 .. n
      BY <1>1
    <3>3. /\ \A x \in 1 .. n : Sent(m, n)[x] = Wire(m)[x]
          /\ \A x \in 1 .. n - 2 : From(Sent(m, n), 2)[x] = Wire(m)[2 + x]
      BY <3>2, SentIs
    <3>4. s[1] = Wire(m)[3] /\ Sent(m, n)[3] = Wire(m)[3]
      BY <3>1, <3>3
    <3>5. Len(s) # 0
      BY <1>1, <1>2, <1>6
    <3> QED  BY <1>1, <3>1, <3>4, <3>5
  <2>2. o.ret = "error" \/ (o.ret = "more" /\ o.r = r /\ o.b = b)
    BY <2>1, NoFields
  <2>3. ~IsAcceptable(m) /\ n >= 3 /\ Sent(m, n)[3] = Crlf
    BY <1>3, <1>6, <2>1
  <2> HIDE DEF o
  <2>4. o.ret = "error" => o.ret \in {"error", "overrun"}
    OBVIOUS
  <2> QED  BY <2>2, <2>3, <2>4 DEF o
<1>7. CASE n >= HeadEnd(m) /\ k # 0
  <2>1. /\ EmptyLines(s) # {} /\ Min(EmptyLines(s)) = 2 * k
        /\ FieldsOf(s) = m.fields
    BY <1>1, <1>7, EmptyLineAt
  <2>2. o = TakeFields(r, b, m.fields, 2 * k + 1)
    BY <2>1 DEF ParseHeaders
  <2>3. CASE Overruns(m.fields)
    <3>1. o = Outcome("overrun", r, b)
      BY <2>2, <2>3 DEF TakeFields
    <3>2. ~(k <= MaxHeaders)
      <4>1. k > MaxHeaders
        BY <2>3 DEF Overruns
      <4> HIDE DEF k
      <4> QED  BY <1>1, <1>4, <4>1
    <3> QED  BY <1>3, <3>1, <3>2, OutcomeIs
  <2>4. CASE ~Overruns(m.fields) /\ ~Accepted(m)
    <3>1. o = Outcome("error", r, b)
      BY <2>2, <2>4 DEF TakeFields, Accepted
    <3> QED  BY <1>3, <2>4, <3>1, OutcomeIs
  <2>5. CASE ~Overruns(m.fields) /\ Accepted(m)
    <3>1. 2 + (2 * k + 1) = HeadEnd(m)
      BY <1>1
    <3>2. o = Outcome("next", BodyOf(m, n, 0, 0), Consume(b, 2 * k + 1))
      BY <2>2, <2>5, <3>1, FieldsTaken
    <3>5. 2 * k + 1 \in 0 .. Len(Unread(b))
      BY <1>1, <1>2, <1>7
    <3>6. /\ IsBuffer(Consume(b, 2 * k + 1)) /\ Consume(b, 2 * k + 1).capacity = b.capacity
          /\ Unread(Consume(b, 2 * k + 1))
               = SubSeq(Unread(b), 2 * k + 1 + 1, Len(Unread(b)))
      BY <3>5, ConsumedIs
    <3>7. Unread(Consume(b, 2 * k + 1)) = From(Sent(m, n), HeadEnd(m))
      <4>1. n \in 0 .. Len(Wire(m)) /\ 2 \in 0 .. n
        BY <1>1
      <4>2. Sent(m, n) \in Seq(Tokens) /\ Len(Sent(m, n)) = n
        BY <4>1, SentIs
      <4>3. 2 * k + 1 \in 0 .. Len(Sent(m, n)) - 2 /\ 2 \in 0 .. Len(Sent(m, n))
        BY <1>1, <1>7, <4>2
      <4>4. s = SubSeq(Sent(m, n), 2 + 1, Len(Sent(m, n)))
        BY DEF From
      <4>5. SubSeq(s, 2 * k + 1 + 1, Len(s))
              = SubSeq(Sent(m, n), 2 + (2 * k + 1) + 1, Len(Sent(m, n)))
        BY <4>2, <4>3, <4>4, PieceOf
      <4>6. 2 + (2 * k + 1) + 1 = HeadEnd(m) + 1
        BY <1>1
      <4> QED  BY <3>6, <4>5, <4>6 DEF From
    <3>9. o.ret = "next" /\ o.r = BodyOf(m, n, 0, 0) /\ o.b = Consume(b, 2 * k + 1)
      BY <3>2, OutcomeIs
    <3> HIDE DEF o
    <3> QED  BY <1>7, <2>5, <3>6, <3>7, <3>9 DEF o
  <2> QED  BY <2>3, <2>4, <2>5
<1>8. \/ n < HeadEnd(m) /\ EmptyLines(s) = {}
      \/ n >= 3 /\ k = 0
      \/ n >= HeadEnd(m) /\ k # 0
  <2>1. CASE k = 0 /\ n < 3
    <3>1. n < HeadEnd(m)
      BY <1>1, <2>1
    <3>2. DOMAIN s = {}
      BY <1>1, <1>2, <2>1, LenProperties
    <3>3. EmptyLines(s) = {}
      BY <3>2 DEF EmptyLines, LineEnds
    <3> QED  BY <3>1, <3>3
  <2>2. CASE k = 0 /\ n >= 3
    BY <2>2
  <2>3. CASE k # 0 /\ n < HeadEnd(m)
    BY <1>1, <2>3, EmptyLineAt
  <2>4. CASE k # 0 /\ n >= HeadEnd(m)
    BY <2>4
  <2>5. n < 3 \/ n >= 3
    BY <1>1
  <2>6. n < HeadEnd(m) \/ n >= HeadEnd(m)
    BY <1>1
  <2> QED  BY <2>1, <2>2, <2>3, <2>4, <2>5, <2>6
<1> QED  BY <1>5, <1>6, <1>7, <1>8

-----------------------------------------------------------------------------
(* The body.                                                                 *)

\* What is made of the memory for a body of which the length is told,
LEMMA LengthHandled ==
  ASSUME NEW m, NEW n, NEW len, NEW b, NEW q, q = BodyOf(m, n, len, 0)
  PROVE  HandleLength(q, b) =
           IF n - HeadEnd(m) >= Claimed(m)
           THEN SetReady(BodyOf(m, n, n - HeadEnd(m), 0), b,
                         SubSeq(Unread(b), 1, n - HeadEnd(m)))
           ELSE Outcome("more", BodyOf(m, n, n - HeadEnd(m), 0), b)
<1>1. PICK got : got = n - HeadEnd(m)
  OBVIOUS
<1>2. PICK c : c = [q EXCEPT !.bodyLen = got]
  OBVIOUS
<1>3. c = BodyOf(m, n, got, 0)
  <2>1. PICK h : h = BodyOf(m, n, got, 0)
    OBVIOUS
  <2>2. IsRequest(q)
    BY AreRequests
  <2>3. /\ IsRequest(c) /\ c.received = q.received /\ c.state = q.state
        /\ c.ready = q.ready /\ c.active = q.active
        /\ c.lineEnd = q.lineEnd /\ c.headerEnd = q.headerEnd /\ c.host = q.host
        /\ c.chunked = q.chunked /\ c.hasLength = q.hasLength
        /\ c.capacity = q.capacity /\ c.bodyLen = got
        /\ c.chunkDirty = q.chunkDirty /\ c.method = q.method /\ c.url = q.url
        /\ c.headers = q.headers /\ c.body = q.body
    BY <1>2, <2>2 DEF IsRequest
  <2>4. /\ q.received = h.received /\ q.state = h.state
        /\ q.ready = h.ready /\ q.active = h.active
        /\ q.lineEnd = h.lineEnd /\ q.headerEnd = h.headerEnd /\ q.host = h.host
        /\ q.chunked = h.chunked /\ q.hasLength = h.hasLength
        /\ q.capacity = h.capacity /\ got = h.bodyLen
        /\ q.chunkDirty = h.chunkDirty /\ q.method = h.method /\ q.url = h.url
        /\ q.headers = h.headers /\ q.body = h.body
    BY <2>1 DEF BodyOf
  <2>5. /\ c.received = h.received /\ c.state = h.state
        /\ c.ready = h.ready /\ c.active = h.active
        /\ c.lineEnd = h.lineEnd /\ c.headerEnd = h.headerEnd /\ c.host = h.host
        /\ c.chunked = h.chunked /\ c.hasLength = h.hasLength
        /\ c.capacity = h.capacity /\ c.bodyLen = h.bodyLen
        /\ c.chunkDirty = h.chunkDirty /\ c.method = h.method /\ c.url = h.url
        /\ c.headers = h.headers /\ c.body = h.body
    BY <2>3, <2>4
  <2>6. IsRequest(c) /\ IsRequest(h)
    BY <2>1, <2>3, AreRequests
  <2>7. c = h
    BY <2>5, <2>6, SameRequest
  <2> QED  BY <2>1, <2>7
<1>4. q.received = n /\ q.headerEnd = HeadEnd(m) /\ q.capacity = Claimed(m)
  BY DEF BodyOf
<1>5. HandleLength(q, b) = IF got >= Claimed(m) THEN SetReady(c, b, SubSeq(Unread(b), 1, got))
                           ELSE Outcome("more", c, b)
  BY <1>1, <1>2, <1>4 DEF HandleLength
<1> QED  BY <1>1, <1>3, <1>5

\* and for one that comes in chunks.
Refilled(b, s) == [b EXCEPT !.data = SubSeq(b.data, 1, b.start) \o s]

LEMMA ChunksHandled ==
  ASSUME NEW m, NEW n, NEW len, NEW dirty, NEW b, NEW q, q = BodyOf(m, n, len, dirty),
         NEW d, NEW x, x = d.len, NEW y, y = d.dirty
  PROVE  AfterChunks(q, b, d) =
           IF d.ret = "last"
           THEN SetReady(BodyOf(m, n, x, y), Refilled(b, d.s), SubSeq(d.s, 1, x))
           ELSE Outcome(d.ret, BodyOf(m, n, x, y), Refilled(b, d.s))
<1>2. PICK c : c = [q EXCEPT !.bodyLen = x, !.chunkDirty = y]
  OBVIOUS
<1>3. c = BodyOf(m, n, x, y)
  <2>1. PICK h : h = BodyOf(m, n, x, y)
    OBVIOUS
  <2>2. IsRequest(q)
    BY AreRequests
  <2>3. /\ IsRequest(c) /\ c.received = q.received /\ c.state = q.state
        /\ c.ready = q.ready /\ c.active = q.active
        /\ c.lineEnd = q.lineEnd /\ c.headerEnd = q.headerEnd /\ c.host = q.host
        /\ c.chunked = q.chunked /\ c.hasLength = q.hasLength
        /\ c.capacity = q.capacity /\ c.bodyLen = x
        /\ c.chunkDirty = y /\ c.method = q.method /\ c.url = q.url
        /\ c.headers = q.headers /\ c.body = q.body
    <3>1. PICK g : g = [q EXCEPT !.bodyLen = x]
      OBVIOUS
    <3>2. /\ IsRequest(g) /\ g.received = q.received /\ g.state = q.state
          /\ g.ready = q.ready /\ g.active = q.active
          /\ g.lineEnd = q.lineEnd /\ g.headerEnd = q.headerEnd /\ g.host = q.host
          /\ g.chunked = q.chunked /\ g.hasLength = q.hasLength
          /\ g.capacity = q.capacity /\ g.bodyLen = x
          /\ g.method = q.method /\ g.url = q.url
          /\ g.headers = q.headers /\ g.body = q.body
      BY <2>2, <3>1 DEF IsRequest
    <3>3. c = [g EXCEPT !.chunkDirty = y]
      BY <1>2, <3>1
    <3>4. /\ IsRequest(c) /\ c.received = g.received /\ c.state = g.state
          /\ c.ready = g.ready /\ c.active = g.active
          /\ c.lineEnd = g.lineEnd /\ c.headerEnd = g.headerEnd /\ c.host = g.host
          /\ c.chunked = g.chunked /\ c.hasLength = g.hasLength
          /\ c.capacity = g.capacity /\ c.bodyLen = g.bodyLen
          /\ c.chunkDirty = y /\ c.method = g.method /\ c.url = g.url
          /\ c.headers = g.headers /\ c.body = g.body
      BY <3>2, <3>3 DEF IsRequest
    <3> QED  BY <3>2, <3>4
  <2>4. /\ q.received = h.received /\ q.state = h.state
        /\ q.ready = h.ready /\ q.active = h.active
        /\ q.lineEnd = h.lineEnd /\ q.headerEnd = h.headerEnd /\ q.host = h.host
        /\ q.chunked = h.chunked /\ q.hasLength = h.hasLength
        /\ q.capacity = h.capacity /\ x = h.bodyLen
        /\ y = h.chunkDirty /\ q.method = h.method /\ q.url = h.url
        /\ q.headers = h.headers /\ q.body = h.body
    BY <2>1 DEF BodyOf
  <2>5. /\ c.received = h.received /\ c.state = h.state
        /\ c.ready = h.ready /\ c.active = h.active
        /\ c.lineEnd = h.lineEnd /\ c.headerEnd = h.headerEnd /\ c.host = h.host
        /\ c.chunked = h.chunked /\ c.hasLength = h.hasLength
        /\ c.capacity = h.capacity /\ c.bodyLen = h.bodyLen
        /\ c.chunkDirty = h.chunkDirty /\ c.method = h.method /\ c.url = h.url
        /\ c.headers = h.headers /\ c.body = h.body
    BY <2>3, <2>4
  <2>6. IsRequest(c) /\ IsRequest(h)
    BY <2>1, <2>3, AreRequests
  <2>7. c = h
    BY <2>5, <2>6, SameRequest
  <2> QED  BY <2>1, <2>7
<1>4. AfterChunks(q, b, d) =
        IF d.ret = "last" THEN SetReady(c, Refilled(b, d.s), SubSeq(d.s, 1, x))
        ELSE Outcome(d.ret, c, Refilled(b, d.s))
  BY <1>2 DEF AfterChunks, Refilled
<1> QED  BY <1>3, <1>4

\* A request is ready with what m says.
Delivers(r, m) ==
    /\ r.ready = TRUE
    /\ r.method = ValidMethod(Lines[m.line.n].method) /\ r.url = m.line.n
    /\ r.headers = m.fields /\ r.body = Payload(m)

\* What a request that is emptied keeps.
LEMMA ExitedHas ==
  ASSUME NEW r, NEW c, c = Exited(r)
  PROVE  IsRequest(c) /\ c.method = r.method /\ c.ready = FALSE
<1>1. PICK z : z = NewRequest
  OBVIOUS
<1>2. c = [z EXCEPT !.method = r.method]
  BY <1>1 DEF Exited
<1>3. IsRequest(z) /\ z.ready = FALSE
  BY <1>1, AreRequests DEF NewRequest
<1>4. IsRequest(c) /\ c.method = r.method /\ c.ready = z.ready
  <2>1. IsRequest(z)
    BY <1>3
  <2> QED  BY <1>2, <2>1 DEF IsRequest
<1> QED  BY <1>3, <1>4

LEMMA ReadyIs ==
  ASSUME NEW m, NEW n, NEW len, NEW dirty, NEW b, NEW body
  PROVE  LET o == SetReady(BodyOf(m, n, len, dirty), b, body)
         IN  /\ Len(body) >= BodyMax \/ body = <<>> => o.ret = "error"
             /\ ~(Len(body) >= BodyMax) /\ body # <<>> /\ body = Payload(m) =>
                  o.ret = "ready" /\ Delivers(o.r, m)
<1>1. PICK r : r = BodyOf(m, n, len, dirty)
  OBVIOUS
<1>2. PICK x : x = Exited(r)
  OBVIOUS
<1>3. PICK y : y = [x EXCEPT !.url = r.url, !.headers = r.headers, !.body = r.body]
  OBVIOUS
<1>4. PICK z : z = [y EXCEPT !.body = body, !.capacity = Len(body), !.ready = TRUE]
  OBVIOUS
<1>5. Reset(r) = y
  BY <1>2, <1>3 DEF Reset
<1>6. IsRequest(x) /\ x.method = r.method
  BY <1>2, ExitedHas
<1>7. /\ IsRequest(y) /\ y.method = r.method /\ y.url = r.url /\ y.headers = r.headers
  <2>1. IsRequest(x)
    BY <1>6
  <2>2. IsRequest(y) /\ y.method = x.method /\ y.url = r.url /\ y.headers = r.headers
    BY <1>3, <2>1 DEF IsRequest
  <2> QED  BY <1>6, <2>2
<1>8. /\ z.method = r.method /\ z.url = r.url /\ z.headers = r.headers
      /\ z.body = body /\ z.ready = TRUE
  <2>1. IsRequest(y)
    BY <1>7
  <2>2. /\ z.method = y.method /\ z.url = y.url /\ z.headers = y.headers
        /\ z.body = body /\ z.ready = TRUE
    BY <1>4, <2>1 DEF IsRequest
  <2> QED  BY <1>7, <2>2
<1>9. /\ r.method = ValidMethod(Lines[m.line.n].method)
      /\ r.url = m.line.n /\ r.headers = m.fields
  BY <1>1 DEF BodyOf
<1>10. SetReady(r, b, body) = IF Len(body) >= BodyMax \/ body = <<>>
                              THEN Outcome("error", r, b)
                              ELSE Outcome("ready", z, b)
  BY <1>4, <1>5 DEF SetReady
<1>11. CASE Len(body) >= BodyMax \/ body = <<>>
  BY <1>1, <1>10, <1>11, OutcomeIs
<1>12. CASE ~(Len(body) >= BodyMax) /\ body # <<>> /\ body = Payload(m)
  <2>1. SetReady(r, b, body) = Outcome("ready", z, b)
    BY <1>10, <1>12
  <2>2. Delivers(z, m)
    BY <1>8, <1>9, <1>12 DEF Delivers
  <2> QED  BY <1>1, <1>12, <2>1, <2>2, OutcomeIs
<1> QED  BY <1>11, <1>12

\* What makes a message acceptable bounds it.
LEMMA AcceptableIs ==
  ASSUME NEW m, IsFramed(m), IsAcceptable(m)
  PROVE  /\ Len(Wire(m)) \in Nat /\ Len(Wire(m)) < BodyMax /\ Len(Wire(m)) < LineMax
         /\ \A j \in 1 .. Len(m.body) : Len(Wire(m)) + Len(m.body[j]) < BodyMax
         /\ Accepted(m) /\ Payload(m) # <<>> /\ m.coding \in {"length", "chunked"}
         /\ m.coding = "length" =>
              LengthFields(m.fields) # {} /\ LengthOf(m.fields) = Len(Payload(m))
<1>1. /\ Payload(m) # <<>> /\ AreFields(m.fields) /\ HasHost(m.fields)
      /\ Len(Wire(m)) < LineMax
      /\ \A j \in DOMAIN m.body : Len(Wire(m)) + Len(m.body[j]) < BodyMax
      /\ m.coding # "chunked" =>
           LengthFields(m.fields) # {} /\ LengthOf(m.fields) = Len(Payload(m))
  <2>1. AreFields(m.fields) /\ HasHost(m.fields) /\ Len(Wire(m)) < LineMax
    BY DEF IsAcceptable
  <2>2. Payload(m) # <<>>
    BY DEF IsAcceptable
  <2>3. \A j \in DOMAIN m.body : Len(Wire(m)) + Len(m.body[j]) < BodyMax
    BY DEF IsAcceptable
  <2>4. ASSUME m.coding # "chunked"
        PROVE  LengthFields(m.fields) # {} /\ LengthOf(m.fields) = Len(Payload(m))
    BY <2>4 DEF IsAcceptable
  <2> QED  BY <2>1, <2>2, <2>3, <2>4
<1>2. /\ Len(m.body) \in Nat /\ m.body \in Seq(Seq(Tokens))
      /\ \A j \in 1 .. Len(m.body) : m.body[j] \in Seq(Tokens)
  BY ChunksAre
<1>3. DOMAIN m.body = 1 .. Len(m.body)
  BY <1>2, LenProperties
<1>4. Len(m.body) # 0
  <2> SUFFICES ASSUME Len(m.body) = 0  PROVE FALSE
    OBVIOUS
  <2>1. Payload(m) = PayloadTo(m, 0) /\ PayloadTo(m, 0) = <<>>
    BY BodyShape, ChunkSteps
  <2> QED  BY <1>1, <2>1
<1>5. Len(Wire(m)) \in Nat
  BY WireShape, LenProperties
<1>6. Len(Wire(m)) < BodyMax
  <2>1. 1 \in DOMAIN m.body /\ Len(m.body[1]) \in Nat
    <3>1. 1 \in 1 .. Len(m.body)
      BY <1>2, <1>4
    <3>2. m.body[1] \in Seq(Tokens)
      BY <1>2, <3>1
    <3> QED  BY <1>3, <3>1, <3>2, LenProperties
  <2>2. Len(Wire(m)) + Len(m.body[1]) < BodyMax
    BY <1>1, <2>1
  <2>3. BodyMax \in Nat
    BY SizesAssumption
  <2> QED  BY <1>5, <2>1, <2>2, <2>3
<1>7. m.coding # "none"
  <2> SUFFICES ASSUME m.coding = "none"  PROVE FALSE
    OBVIOUS
  <2>1. m.body = <<>>
    BY DEF IsFramed
  <2>2. Len(m.body) = 0
    BY <2>1
  <2> QED  BY <1>4, <2>2
<1>8. m.coding \in {"length", "chunked", "none"}
  BY DEF IsFramed
<1>9. m.coding = "length" => m.coding # "chunked"
  OBVIOUS
<1> QED  BY <1>1, <1>3, <1>5, <1>6, <1>7, <1>8, <1>9 DEF Accepted

\* What is behind the header fields of a message is its body.
LEMMA BodyRead ==
  ASSUME NEW m, IsFramed(m), NEW n \in HeadEnd(m) .. Len(Wire(m))
  PROVE  LET e == From(Sent(m, n), HeadEnd(m))
         IN  /\ HeadEnd(m) \in Nat /\ n \in Nat /\ Len(Wire(m)) \in Nat
             /\ e \in Seq(Tokens) /\ Len(e) = n - HeadEnd(m)
             /\ \A x \in 1 .. n - HeadEnd(m) : e[x] = BodyOnWire(m)[x]
             /\ n - HeadEnd(m) \in 0 .. Len(BodyOnWire(m))
             /\ n = Len(Wire(m)) <=> n - HeadEnd(m) = Len(BodyOnWire(m))
             /\ n = Len(Wire(m)) => e = BodyOnWire(m)
<1> DEFINE h == HeadEnd(m)
           e == From(Sent(m, n), h)
           body == BodyOnWire(m)
<1>1. /\ Len(m.fields) \in Nat /\ Wire(m) \in Seq(Tokens) /\ Len(body) \in Nat
      /\ Len(Wire(m)) = h + Len(body)
      /\ \A i \in 1 .. Len(body) : Wire(m)[h + i] = body[i]
  BY WireShape
<1>2. Len(Wire(m)) \in Nat /\ h = 2 * Len(m.fields) + 3
  BY <1>1, LenProperties DEF HeadEnd
<1>3. h \in Nat
  <2> HIDE DEF h
  <2> QED  BY <1>1, <1>2
<1>4. n \in Nat /\ n <= Len(Wire(m)) /\ h <= n
  <2>1. n \in h .. Len(Wire(m))
    OBVIOUS
  <2> HIDE DEF h
  <2> QED  BY <1>2, <1>3, <2>1
<1>5. /\ e \in Seq(Tokens) /\ Len(e) = n - h
      /\ \A x \in 1 .. n - h : e[x] = Wire(m)[h + x]
  <2>1. n \in 0 .. Len(Wire(m)) /\ h \in 0 .. n
    <3> HIDE DEF h
    <3> QED  BY <1>2, <1>3, <1>4
  <2>2. \A i \in 0 .. n :
          /\ From(Sent(m, n), i) \in Seq(Tokens) /\ Len(From(Sent(m, n), i)) = n - i
          /\ \A x \in 1 .. n - i : From(Sent(m, n), i)[x] = Wire(m)[i + x]
    BY <2>1, SentIs
  <2> QED  BY <2>1, <2>2
<1>6. body \in Seq(Tokens)
  BY BodyShape
<1> HIDE DEF h, e, body
<1>7. n - h \in 0 .. Len(body)
  BY <1>1, <1>2, <1>3, <1>4
<1>8. \A x \in 1 .. n - h : e[x] = body[x]
  <2> SUFFICES ASSUME NEW x \in 1 .. n - h  PROVE e[x] = body[x]
    OBVIOUS
  <2>1. x \in 1 .. Len(body)
    BY <1>1, <1>7
  <2> QED  BY <1>1, <1>5, <2>1
<1>9. n = Len(Wire(m)) <=> n - h = Len(body)
  <2>1. PICK w : w = Len(Wire(m))
    OBVIOUS
  <2>2. PICK c : c = Len(body)
    OBVIOUS
  <2>3. w = h + c /\ w \in Nat /\ h \in Nat /\ c \in Nat /\ n \in Nat
    BY <1>1, <1>2, <1>3, <1>4, <2>1, <2>2
  <2>4. (n = w) <=> (n - h = c)
    BY <2>3
  <2> QED  BY <2>1, <2>2, <2>4
<1>10. n = Len(Wire(m)) => e = body
  <2> SUFFICES ASSUME n = Len(Wire(m))  PROVE e = body
    OBVIOUS
  <2>1. Len(e) = Len(body) /\ Len(e) = n - h
    BY <1>5, <1>9
  <2> QED  BY <1>5, <1>6, <1>8, <2>1, SeqEqual
<1> QED  BY <1>2, <1>3, <1>4, <1>5, <1>7, <1>8, <1>9, <1>10 DEF h, e, body

\* A body of which the length is told.
LEMMA LengthParsed ==
  ASSUME NEW m, IsFramed(m), NEW n \in HeadEnd(m) .. Len(Wire(m)), NEW len,
         Accepted(m), ~HasChunked(m.fields),
         NEW b, IsBuffer(b), Unread(b) = From(Sent(m, n), HeadEnd(m))
  PROVE  LET o == ParseBody(BodyOf(m, n, len, 0), b)
         IN  \/ o.ret = "error" /\ ~IsAcceptable(m)
             \/ /\ o.ret = "more" /\ o.r = BodyOf(m, n, n - HeadEnd(m), 0) /\ o.b = b
                /\ LengthFields(m.fields) # {}
                /\ \/ n < Len(Wire(m))
                   \/ ~IsAcceptable(m) /\ Claimed(m) >= BodyMax
             \/ o.ret = "ready" /\ n = Len(Wire(m)) /\ Delivers(o.r, m)
<1> DEFINE s == Unread(b)
           r == BodyOf(m, n, len, 0)
           o == ParseBody(r, b)
           h == HeadEnd(m)
           got == n - h
           body == BodyOnWire(m)
<1>1. /\ h \in Nat /\ n \in Nat /\ Len(Wire(m)) \in Nat
      /\ s \in Seq(Tokens) /\ Len(s) = got /\ got \in Nat
      /\ got <= Len(body) /\ Len(body) \in Nat
      /\ n = Len(Wire(m)) <=> got = Len(body)
      /\ n = Len(Wire(m)) => s = body
      /\ n <= Len(Wire(m))
  <2>1. /\ h \in Nat /\ n \in Nat /\ Len(Wire(m)) \in Nat
        /\ s \in Seq(Tokens) /\ Len(s) = got /\ got \in 0 .. Len(body)
        /\ n = Len(Wire(m)) <=> got = Len(body)
        /\ n = Len(Wire(m)) => s = body
    BY BodyRead
  <2>2. Len(body) \in Nat
    BY WireShape
  <2>3. n <= Len(Wire(m))
    <3>1. n \in h .. Len(Wire(m))
      OBVIOUS
    <3> HIDE DEF h
    <3> QED  BY <2>1, <3>1
  <2> HIDE DEF s, h, got, body
  <2> QED  BY <2>1, <2>2, <2>3
<1>2. /\ r.chunked = HasChunked(m.fields) /\ r.hasLength = (LengthFields(m.fields) # {})
      /\ r.capacity = Claimed(m) /\ r.received = n /\ r.headerEnd = h
  BY DEF BodyOf
<1>3. BodyMax \in Nat
  BY SizesAssumption
<1>4. /\ m.coding \in {"length", "none"}
      /\ LengthFields(m.fields) # {} =>
           /\ LengthOf(m.fields) \in Nat /\ Claimed(m) = LengthOf(m.fields)
           /\ Claimed(m) = Len(body) \/ Claimed(m) >= BodyMax
  BY DEF IsFramed, Accepted, Claimed
<1>5. IsAcceptable(m) =>
        /\ LengthFields(m.fields) # {} /\ Claimed(m) = Len(body) /\ Len(body) > 0
        /\ Len(body) < BodyMax /\ got < BodyMax
  <2> SUFFICES ASSUME IsAcceptable(m)
               PROVE  /\ LengthFields(m.fields) # {} /\ Claimed(m) = Len(body) /\ Len(body) > 0
                      /\ Len(body) < BodyMax /\ got < BodyMax
    OBVIOUS
  <2>1. /\ Len(Wire(m)) < BodyMax /\ Payload(m) # <<>> /\ m.coding \in {"length", "chunked"}
        /\ m.coding = "length" =>
             LengthFields(m.fields) # {} /\ LengthOf(m.fields) = Len(Payload(m))
    BY AcceptableIs
  <2>2. m.coding = "length"
    BY <1>4, <2>1
  <2>3. body = Payload(m) /\ body \in Seq(Tokens)
    BY <2>2, BodyShape
  <2>4. LengthFields(m.fields) # {} /\ Claimed(m) = Len(body)
    BY <1>4, <2>1, <2>2, <2>3
  <2>5. Len(body) > 0
    <3>1. Len(body) # 0
      BY <2>1, <2>3, EmptySeq
    <3> HIDE DEF body
    <3> QED  BY <1>1, <3>1
  <2>6. Len(Wire(m)) = h + Len(body)
    BY WireShape
  <2> HIDE DEF h, body, got
  <2>7. Len(body) < BodyMax /\ got < BodyMax
    BY <1>1, <1>3, <2>1, <2>6
  <2> QED  BY <2>4, <2>5, <2>7
<1>6. PICK q : q = r
  OBVIOUS
<1>7. /\ q.chunked = FALSE /\ q.received = n /\ q.headerEnd = h /\ q.capacity = Claimed(m)
      /\ q.hasLength <=> LengthFields(m.fields) # {}
  BY <1>2, <1>6 DEF HasChunked
<1>8. o = IF Len(s) >= BodyMax THEN Outcome("error", q, b)
          ELSE IF LengthFields(m.fields) # {} /\ Claimed(m) > 0 THEN HandleLength(q, b)
          ELSE Outcome("error", q, b)
  BY <1>6, <1>7 DEF ParseBody
<1>9. CASE Len(s) >= BodyMax
  <2>1. o = Outcome("error", q, b)
    BY <1>8, <1>9
  <2>2. ~IsAcceptable(m)
    <3> HIDE DEF s, got, body
    <3> QED  BY <1>1, <1>3, <1>5, <1>9
  <2> QED  BY <2>1, <2>2, OutcomeIs
<1>10. CASE ~(LengthFields(m.fields) # {} /\ Claimed(m) > 0)
  <2>1. o = Outcome("error", q, b)
    BY <1>8, <1>10
  <2>2. ~IsAcceptable(m)
    <3> HIDE DEF s, got, body
    <3> QED  BY <1>1, <1>5, <1>10
  <2> QED  BY <2>1, <2>2, OutcomeIs
<1>11. CASE ~(Len(s) >= BodyMax) /\ LengthFields(m.fields) # {} /\ Claimed(m) > 0
  <2>1. o = HandleLength(q, b)
    BY <1>8, <1>11
  <2>2. HandleLength(q, b) =
          IF got >= Claimed(m) THEN SetReady(BodyOf(m, n, got, 0), b, SubSeq(s, 1, got))
          ELSE Outcome("more", BodyOf(m, n, got, 0), b)
    BY <1>6, <1>7, LengthHandled
  <2>4. /\ Claimed(m) \in Nat /\ got < BodyMax
        /\ Claimed(m) = Len(body) \/ Claimed(m) >= BodyMax
    <3>1. got < BodyMax
      <4> HIDE DEF s, got
      <4> QED  BY <1>1, <1>3, <1>11
    <3> QED  BY <1>4, <1>11, <3>1
  <2>5. CASE got >= Claimed(m)
    <3>1. Claimed(m) = Len(body) /\ got = Len(body) /\ Len(body) > 0
      <4> HIDE DEF body, got
      <4> QED  BY <1>1, <1>3, <1>11, <2>4, <2>5
    <3>2. n = Len(Wire(m)) /\ s = body
      BY <1>1, <3>1
    <3>3. m.coding = "length"
      <4>1. m.coding = "none" => Len(body) = 0
        BY BodyShape
      <4> QED  BY <1>4, <3>1, <4>1
    <3>4. body = Payload(m)
      BY <3>3, BodyShape
    <3>5. SubSeq(s, 1, got) = Payload(m)
      <4>1. SubSeq(s, 1, Len(s)) = s
        BY <1>1, SubSeqFull
      <4> QED  BY <1>1, <3>2, <3>4, <4>1
    <3>6. ~(Len(Payload(m)) >= BodyMax) /\ Payload(m) # <<>>
      <4>1. ~(Len(body) >= BodyMax)
        <5> HIDE DEF body, got
        <5> QED  BY <1>1, <1>3, <2>4, <3>1
      <4>2. body # <<>>
        BY <3>1
      <4> QED  BY <3>4, <4>1, <4>2
    <3>7. o = SetReady(BodyOf(m, n, got, 0), b, Payload(m))
      BY <2>1, <2>2, <2>5, <3>5
    <3>8. o.ret = "ready" /\ Delivers(o.r, m)
      <4>1. PICK z : z = BodyOf(m, n, got, 0)
        OBVIOUS
      <4>2. PICK u : u = Payload(m)
        OBVIOUS
      <4> HIDE DEF got, o
      <4>3. SetReady(z, b, u).ret = "ready" /\ Delivers(SetReady(z, b, u).r, m)
        BY <3>6, <4>1, <4>2, ReadyIs
      <4> QED  BY <3>7, <4>1, <4>2, <4>3
    <3> HIDE DEF o
    <3> QED  BY <3>2, <3>8 DEF o
  <2>6. CASE ~(got >= Claimed(m))
    <3>1. o = Outcome("more", BodyOf(m, n, got, 0), b)
      BY <2>1, <2>2, <2>6
    <3>2. n < Len(Wire(m)) \/ Claimed(m) >= BodyMax
      <4>1. CASE Claimed(m) = Len(body)
        <5>1. got # Len(body)
          <6> HIDE DEF got, body
          <6> QED  BY <1>1, <2>6, <4>1
        <5>2. n # Len(Wire(m))
          BY <1>1, <5>1
        <5> QED  BY <1>1, <5>2
      <4> QED  BY <2>4, <4>1
    <3>3. Claimed(m) >= BodyMax => ~IsAcceptable(m)
      <4> HIDE DEF got, body
      <4> QED  BY <1>1, <1>3, <1>5, <2>4
    <3>4. o.ret = "more" /\ o.r = BodyOf(m, n, got, 0) /\ o.b = b
      BY <3>1, OutcomeIs
    <3> HIDE DEF o
    <3> QED  BY <1>11, <3>2, <3>3, <3>4 DEF o
  <2> QED  BY <2>5, <2>6
<1> QED  BY <1>9, <1>10, <1>11

-----------------------------------------------------------------------------
(* Chunks.                                                                   *)

\* What the rounds of the loop have made so far.
Decoding(s, len, dirty, ret) == [s |-> s, len |-> len, dirty |-> dirty, ret |-> ret]

\* The payload of a chunk moved to the front.
Moved(s, rest, len, size) ==
    [i \in DOMAIN s |-> IF i \in len + 1 .. len + size THEN rest[i - len + 2] ELSE s[i]]

LEMMA DecodingIs ==
  ASSUME NEW s, NEW len, NEW dirty, NEW ret, NEW d, d = Decoding(s, len, dirty, ret)
  PROVE  d.s = s /\ d.len = len /\ d.dirty = dirty /\ d.ret = ret
BY DEF Decoding

\* Two of these with the same fields are the same.
LEMMA SameDecoding ==
  ASSUME NEW s, NEW len, NEW dirty, NEW ret, NEW d,
         d = [s |-> d.s, len |-> d.len, dirty |-> d.dirty, ret |-> d.ret],
         d.s = s, d.len = len, d.dirty = dirty, d.ret = ret
  PROVE  d = Decoding(s, len, dirty, ret)
BY DEF Decoding

LEMMA Answered ==
  ASSUME NEW s, NEW len, NEW dirty, NEW d, d = Decoding(s, len, dirty, "next"),
         NEW ret, NEW c, c = [d EXCEPT !.ret = ret]
  PROVE  c = Decoding(s, len, dirty, ret)
<1>1. /\ d.s = s /\ d.len = len /\ d.dirty = dirty
      /\ d = [s |-> d.s, len |-> d.len, dirty |-> d.dirty, ret |-> d.ret]
  BY DEF Decoding
<1>2. /\ c = [s |-> c.s, len |-> c.len, dirty |-> c.dirty, ret |-> c.ret]
      /\ c.s = d.s /\ c.len = d.len /\ c.dirty = d.dirty /\ c.ret = ret
  <2>1. d = [s |-> d.s, len |-> d.len, dirty |-> d.dirty, ret |-> d.ret]
    BY <1>1
  <2> QED  BY <2>1
<1> QED  BY <1>1, <1>2, SameDecoding

\* One round, on what the rounds before have made.
NextDecoding(s, len, dirty, received, rest, size) ==
    IF LineEnds(rest) = {} \/ rest[1] = Crlf
    THEN Decoding(s, len, dirty, "more")
    ELSE IF rest[1].kind # "size" \/ size >= BodyMax
    THEN Decoding(s, len, dirty, "error")
    ELSE IF size = 0 THEN Decoding(s, len, dirty, "last")
    ELSE IF Len(rest) < size + 3 THEN Decoding(s, len, dirty, "more")
    ELSE IF received + size >= BodyMax THEN Decoding(s, len, dirty, "error")
    ELSE Decoding(Moved(s, rest, len, size), len + size, dirty + size + 3, "next")

LEMMA DecodeChunkIs ==
  ASSUME NEW s, NEW len, NEW dirty, NEW received
  PROVE  DecodeChunk(Decoding(s, len, dirty, "next"), received)
           = NextDecoding(s, len, dirty, received, From(s, dirty), From(s, dirty)[1].n)
<1> SUFFICES ASSUME NEW rest, rest = SubSeq(s, dirty + 1, Len(s)),
                    NEW size, size = rest[1].n
             PROVE  DecodeChunk(Decoding(s, len, dirty, "next"), received)
                      = NextDecoding(s, len, dirty, received, rest, size)
  BY DEF From
<1>1. PICK d : d = Decoding(s, len, dirty, "next")
  OBVIOUS
<1>2. /\ d.s = s /\ d.len = len /\ d.dirty = dirty
      /\ d = [s |-> d.s, len |-> d.len, dirty |-> d.dirty, ret |-> d.ret]
      /\ d.ret = "next"
  BY <1>1 DEF Decoding
<1>3. PICK more : more = [d EXCEPT !.ret = "more"]
  OBVIOUS
<1>4. PICK error : error = [d EXCEPT !.ret = "error"]
  OBVIOUS
<1>5. PICK last : last = [d EXCEPT !.ret = "last"]
  OBVIOUS
<1>6. /\ more = Decoding(s, len, dirty, "more") /\ error = Decoding(s, len, dirty, "error")
      /\ last = Decoding(s, len, dirty, "last")
  BY <1>1, <1>3, <1>4, <1>5, Answered
<1>7. PICK t : t = Moved(s, rest, len, size)
  OBVIOUS
<1>8. PICK next : next = [d EXCEPT !.s = t, !.len = @ + size, !.dirty = @ + size + 3]
  OBVIOUS
<1>9. next = Decoding(t, len + size, dirty + size + 3, "next")
  <2>1. d = [s |-> d.s, len |-> d.len, dirty |-> d.dirty, ret |-> d.ret]
    BY <1>2
  <2>2. /\ next = [s |-> next.s, len |-> next.len, dirty |-> next.dirty, ret |-> next.ret]
        /\ next.s = t /\ next.len = d.len + size /\ next.dirty = d.dirty + size + 3
        /\ next.ret = d.ret
    BY <1>8, <2>1
  <2>3. PICK x : x = len + size
    OBVIOUS
  <2>4. PICK y : y = dirty + size + 3
    OBVIOUS
  <2>5. next.len = x /\ next.dirty = y /\ next.ret = "next"
    BY <1>2, <2>2, <2>3, <2>4
  <2>6. next = Decoding(t, x, y, "next")
    BY <2>2, <2>5, SameDecoding
  <2> QED  BY <2>3, <2>4, <2>6
<1>10. t = [i \in DOMAIN d.s |-> IF i \in d.len + 1 .. d.len + size
                                 THEN rest[i - d.len + 2] ELSE d.s[i]]
  BY <1>2, <1>7 DEF Moved
<1>11. SubSeq(d.s, d.dirty + 1, Len(d.s)) = rest
  BY <1>2
<1>12. DecodeChunk(d, received) =
         IF LineEnds(rest) = {} \/ rest[1] = Crlf THEN more
         ELSE IF rest[1].kind # "size" \/ size >= BodyMax THEN error
         ELSE IF size = 0 THEN last
         ELSE IF Len(rest) < size + 3 THEN more
         ELSE IF received + size >= BodyMax THEN error
         ELSE next
  <2>1. next = [d EXCEPT !.s = [i \in DOMAIN d.s |-> IF i \in d.len + 1 .. d.len + size
                                 THEN rest[i - d.len + 2] ELSE d.s[i]],
                         !.len = @ + size, !.dirty = @ + size + 3]
    BY <1>8, <1>10
  <2> QED  BY <1>3, <1>4, <1>5, <1>11, <2>1 DEF DecodeChunk
<1> QED  BY <1>1, <1>6, <1>7, <1>9, <1>12 DEF NextDecoding

\* Two sequences are the same from i to j.
Agree(s, t, i, j) == \A x \in i .. j : s[x] = t[x]

\* Of the first c tokens of the body, j chunks are decoded and the others untouched.
AtChunk(m, s, c, j) ==
    /\ s \in Seq(Tokens) /\ Len(s) = c
    /\ j \in 0 .. Len(m.body) /\ Len(ChunksTo(m, j)) <= c
    /\ Agree(s, BodyOnWire(m), Len(ChunksTo(m, j)) + 1, c)
    /\ Agree(s, PayloadTo(m, j), 1, Len(PayloadTo(m, j)))

\* The rounds so far, with j chunks decoded.
AfterRound(m, s, j, ret) ==
    Decoding(s, Len(PayloadTo(m, j)), Len(ChunksTo(m, j)), ret)

\* The size of the chunk after the first j: there is a last one of no bytes.
NextSize(m, j) == IF j < Len(m.body) THEN Len(m.body[j + 1]) ELSE 0

\* What is behind the chunks decoded begins with a size, or holds no line end yet.
RestIs(m, c, j, k, rest, size) ==
    /\ rest \in Seq(Tokens) /\ Len(rest) = c - k /\ size \in Nat
    /\ Holds(BodyOnWire(m), k, rest)
    /\ Len(rest) < 2 => LineEnds(rest) = {}
    /\ Len(rest) >= 1 => rest[1] = Token("size", size)
    /\ Len(rest) >= 2 => LineEnds(rest) # {}
    /\ j < Len(m.body) => size # 0
    /\ k + size + 3 <= Len(BodyOnWire(m))

LEMMA RestOfChunks ==
  ASSUME NEW m, IsFramed(m), m.coding = "chunked",
         NEW c \in 0 .. Len(BodyOnWire(m)), NEW s, NEW j, AtChunk(m, s, c, j)
  PROVE  RestIs(m, c, j, Len(ChunksTo(m, j)), From(s, Len(ChunksTo(m, j))), NextSize(m, j))
<1> SUFFICES ASSUME NEW rest, rest = SubSeq(s, Len(ChunksTo(m, j)) + 1, Len(s)),
                    NEW size, size = NextSize(m, j)
             PROVE  RestIs(m, c, j, Len(ChunksTo(m, j)), rest, size)
  BY DEF From
<1> DEFINE B == BodyOnWire(m)
           C(i) == Len(ChunksTo(m, i))
           l == Len(m.body)
           k == C(j)
<1>1. /\ l \in Nat /\ j \in 0 .. l /\ s \in Seq(Tokens) /\ Len(s) = c
      /\ k \in Nat /\ k <= c /\ \A x \in k + 1 .. c : s[x] = B[x]
      /\ \A i \in 0 .. l : C(i) \in Nat
      /\ \A i \in 1 .. l : m.body[i] \in Seq(Tokens) /\ Len(m.body[i]) \in Nat
                            /\ C(i) = C(i - 1) + Len(m.body[i]) + 3
  <2>1. l \in Nat
    BY ChunkSteps
  <2>2. \A i \in 0 .. l : C(i) \in Nat
    BY ChunkSteps
  <2>3. \A i \in 1 .. l : m.body[i] \in Seq(Tokens) /\ Len(m.body[i]) \in Nat
                            /\ C(i) = C(i - 1) + Len(m.body[i]) + 3
    BY ChunkSteps
  <2>4. /\ j \in 0 .. l /\ s \in Seq(Tokens) /\ Len(s) = c
        /\ k <= c /\ \A x \in k + 1 .. c : s[x] = B[x]
    BY DEF AtChunk, Agree
  <2>5. k \in Nat
    BY <2>2, <2>4
  <2> QED  BY <2>1, <2>2, <2>3, <2>4, <2>5
<1>2. Len(B) \in Nat /\ c \in Nat /\ c <= Len(B)
  <2>1. Len(B) \in Nat
    BY WireShape
  <2>2. c \in 0 .. Len(B)
    OBVIOUS
  <2> HIDE DEF B
  <2> QED  BY <2>1, <2>2
<1>3. /\ Len(B) = C(l) + 3 /\ B[C(l) + 1] = Token("size", 0) /\ B[C(l) + 2] = Crlf
      /\ \A i \in 0 .. l : C(i) <= C(l)
      /\ \A i \in 1 .. l : /\ B[C(i - 1) + 1] = Token("size", Len(m.body[i]))
                           /\ B[C(i - 1) + 2] = Crlf
  BY ChunkPlaces
<1>4. /\ size \in Nat /\ B[k + 1] = Token("size", size) /\ B[k + 2] = Crlf
      /\ j < l => size # 0
      /\ k + size + 3 <= Len(B)
  <2>1. CASE j < l
    <3>0. PICK i : i = j + 1
      OBVIOUS
    <3>1. i \in 1 .. l /\ i \in 0 .. l /\ i - 1 = j
      <4> HIDE DEF l, k, C
      <4> QED  BY <1>1, <2>1, <3>0
    <3>2. size = Len(m.body[i])
      BY <2>1, <3>0 DEF NextSize
    <3>3. size # 0
      <4>1. DOMAIN m.body = 1 .. l
        BY ChunksAre, LenProperties
      <4>2. m.body[i] # <<>>
        BY <3>1, <4>1 DEF IsFramed
      <4>3. m.body[i] \in Seq(Tokens)
        BY <1>1, <3>1
      <4> QED  BY <3>2, <4>2, <4>3, EmptySeq
    <3>4. B[k + 1] = Token("size", size) /\ B[k + 2] = Crlf
      <4>1. C(i - 1) = k
        BY <3>1
      <4>2. B[C(i - 1) + 1] = Token("size", Len(m.body[i])) /\ B[C(i - 1) + 2] = Crlf
        <5> HIDE DEF B, C, l
        <5> QED  BY <1>3, <3>1
      <4> HIDE DEF B, C, k
      <4> QED  BY <3>2, <4>1, <4>2
    <3>5. C(i) = k + size + 3 /\ C(i) <= C(l) /\ size \in Nat /\ C(i) \in Nat
      <4>1. C(i - 1) = k
        BY <3>1
      <4> HIDE DEF C, l, k
      <4>2. C(i) = C(i - 1) + Len(m.body[i]) + 3 /\ Len(m.body[i]) \in Nat
        BY <1>1, <3>1
      <4>3. C(i) <= C(l) /\ C(i) \in Nat
        BY <1>1, <1>3, <3>1
      <4> QED  BY <3>2, <4>1, <4>2, <4>3
    <3>6. C(l) \in Nat
      <4>1. l \in 0 .. l
        <5> HIDE DEF l
        <5> QED  BY <1>1
      <4> QED  BY <1>1, <4>1
    <3>7. k + size + 3 <= Len(B)
      <4> HIDE DEF C, B, k, l
      <4>1. PICK a : a = C(l)
        OBVIOUS
      <4>2. PICK e : e = Len(B)
        OBVIOUS
      <4>3. /\ k + size + 3 <= a /\ e = a + 3
            /\ a \in Nat /\ k \in Nat /\ size \in Nat
        <5>1. e = a + 3
          BY <1>3, <4>1, <4>2
        <5>2. k \in Nat
          BY <1>1
        <5> QED  BY <3>5, <3>6, <4>1, <5>1, <5>2
      <4>4. k + size + 3 <= e
        BY <4>3
      <4> QED  BY <4>2, <4>4
    <3> QED  BY <3>3, <3>4, <3>5, <3>7
  <2>2. CASE ~(j < l)
    <3>1. j = l /\ size = 0
      <4>1. size = 0
        BY <2>2 DEF NextSize
      <4>2. j = l
        <5> HIDE DEF l
        <5> QED  BY <1>1, <2>2
      <4> QED  BY <4>1, <4>2
    <3>2. k = C(l)
      BY <3>1
    <3>3. k + 0 + 3 = Len(B)
      <4> HIDE DEF C, B, k, l
      <4> QED  BY <1>1, <1>3, <3>2
    <3>4. ~(j < l) /\ 0 \in Nat
      BY <2>2
    <3>5. k + size + 3 <= Len(B)
      <4> HIDE DEF C, B, k, l
      <4> QED  BY <3>1, <3>3, <1>2
    <3>6. B[k + 1] = Token("size", size) /\ B[k + 2] = Crlf
      BY <1>3, <3>1, <3>2
    <3> HIDE DEF B, k
    <3> QED  BY <3>1, <3>4, <3>5, <3>6
  <2> QED  BY <2>1, <2>2
<1>5. /\ rest \in Seq(Tokens) /\ Len(rest) = c - k
      /\ \A x \in 1 .. c - k : rest[x] = B[k + x]
  <2>1. k \in 0 .. Len(s)
    <3> HIDE DEF k
    <3> QED  BY <1>1, <1>2
  <2>2. /\ rest \in Seq(Tokens) /\ Len(rest) = Len(s) - k
        /\ \A x \in 1 .. Len(s) - k : rest[x] = s[k + x]
    BY <1>1, <2>1, Ending
  <2> HIDE DEF k, B
  <2>3. ASSUME NEW x \in 1 .. c - k  PROVE rest[x] = B[k + x]
    <3>1. k + x \in k + 1 .. c
      BY <1>1, <1>2
    <3>2. rest[x] = s[k + x]
      BY <1>1, <2>2
    <3> QED  BY <1>1, <3>1, <3>2
  <2> QED  BY <1>1, <2>2, <2>3
<1> HIDE DEF B, C, k, l
<1>6. \A x \in 1 .. Len(rest) : rest[x] = B[k + x]
  BY <1>5
<1>11. Holds(B, k, rest)
  BY <1>6 DEF Holds
<1>7. Len(rest) \in Nat /\ DOMAIN rest = 1 .. Len(rest)
  BY <1>5, LenProperties
<1>8. Len(rest) >= 1 => rest[1] = Token("size", size)
  <2> SUFFICES ASSUME Len(rest) >= 1  PROVE rest[1] = Token("size", size)
    OBVIOUS
  <2>1. 1 \in 1 .. Len(rest)
    BY <1>7
  <2>2. rest[1] = B[k + 1]
    BY <1>6, <2>1
  <2> QED  BY <1>4, <2>2
<1>9. Len(rest) >= 2 => LineEnds(rest) # {}
  <2> SUFFICES ASSUME Len(rest) >= 2  PROVE LineEnds(rest) # {}
    OBVIOUS
  <2>1. 2 \in 1 .. Len(rest)
    BY <1>7
  <2>2. rest[2] = B[k + 2]
    BY <1>6, <2>1
  <2>3. 2 \in LineEnds(rest)
    BY <1>4, <1>7, <2>1, <2>2 DEF LineEnds
  <2> QED  BY <2>3
<1>10. Len(rest) < 2 => LineEnds(rest) = {}
  <2> SUFFICES ASSUME Len(rest) < 2, NEW x \in LineEnds(rest)  PROVE FALSE
    OBVIOUS
  <2>1. x \in 1 .. Len(rest) /\ rest[x] = Crlf
    BY <1>7 DEF LineEnds
  <2>2. x = 1 /\ Len(rest) >= 1
    BY <1>7, <2>1
  <2>3. rest[1] = Token("size", size) /\ rest[1] = Crlf
    BY <1>8, <2>1, <2>2
  <2> QED  BY <2>3, SizeIsNoLineEnd
<1> QED  BY <1>4, <1>5, <1>8, <1>9, <1>10, <1>11 DEF B, C, k, l, RestIs

\* What moving the payload u of a chunk to the front changes.
PassedOn(t, s, c, len, k, size, u) ==
    /\ t \in Seq(Tokens) /\ Len(t) = c
    /\ Agree(t, s, 1, len) /\ Holds(t, len, u) /\ Agree(t, s, k + size + 4, c)

LEMMA MovedIs ==
  ASSUME NEW len \in Nat, NEW k \in Nat, NEW size \in Nat, NEW c \in Nat,
         len <= k, size + 3 <= c - k, NEW s \in Seq(Tokens), Len(s) = c,
         NEW rest \in Seq(Tokens), Len(rest) = c - k, NEW u, Len(u) = size, Holds(rest, 2, u),
         NEW t, t = Moved(s, rest, len, size)
  PROVE  PassedOn(t, s, c, len, k, size, u)
<1>1. DOMAIN s = 1 .. c
  BY LenProperties
<1>2. t = [x \in 1 .. c |-> IF x \in len + 1 .. len + size
                            THEN rest[x - len + 2] ELSE s[x]]
  BY <1>1 DEF Moved
<1>3. ASSUME NEW x \in 1 .. c, ~(x \in len + 1 .. len + size)
      PROVE  t[x] = s[x] /\ t[x] \in Tokens
  <2>1. t[x] = s[x]
    BY <1>2, <1>3
  <2>2. s[x] \in Tokens
    BY ElementOfSeq
  <2> QED  BY <2>1, <2>2
<1>4. ASSUME NEW x \in 1 .. size
      PROVE  t[len + x] = rest[x + 2] /\ t[len + x] \in Tokens
  <2>1. /\ len + x \in 1 .. c /\ len + x \in len + 1 .. len + size
        /\ len + x - len + 2 = x + 2 /\ x + 2 \in 1 .. c - k
    OBVIOUS
  <2>2. t[len + x] = rest[len + x - len + 2]
    BY <1>2, <2>1
  <2>3. rest[x + 2] \in Tokens
    BY <2>1, ElementOfSeq
  <2> QED  BY <2>1, <2>2, <2>3
<1>5. \A x \in 1 .. c : t[x] \in Tokens
  <2> SUFFICES ASSUME NEW x \in 1 .. c  PROVE t[x] \in Tokens
    OBVIOUS
  <2>1. CASE x \in len + 1 .. len + size
    <3>1. x - len \in 1 .. size /\ len + (x - len) = x
      BY <2>1
    <3>2. t[len + (x - len)] \in Tokens
      BY <1>4, <3>1
    <3> QED  BY <3>1, <3>2
  <2>2. CASE ~(x \in len + 1 .. len + size)
    BY <1>3, <2>2
  <2> QED  BY <2>1, <2>2
<1>6. t \in Seq(Tokens) /\ Len(t) = c
  <2>1. t \in [1 .. c -> Tokens] /\ DOMAIN t = 1 .. c
    BY <1>2, <1>5
  <2>2. t \in Seq(Tokens)
    BY <2>1, SeqDef
  <2> QED  BY <2>1, <2>2, LenProperties
<1>7. ASSUME NEW x \in 1 .. len  PROVE t[x] = s[x]
  <2>1. x \in 1 .. c /\ ~(x \in len + 1 .. len + size)
    OBVIOUS
  <2> QED  BY <1>3, <2>1
<1>8. ASSUME NEW x \in k + size + 4 .. c  PROVE t[x] = s[x]
  <2>1. x \in 1 .. c /\ ~(x \in len + 1 .. len + size)
    OBVIOUS
  <2> QED  BY <1>3, <2>1
<1>9. ASSUME NEW x \in 1 .. size  PROVE t[len + x] = u[x]
  <2>1. rest[2 + x] = u[x] /\ 2 + x = x + 2
    BY DEF Holds
  <2> QED  BY <1>4, <2>1
<1> QED  BY <1>6, <1>7, <1>8, <1>9 DEF Agree, Holds, PassedOn

\* Of what s has behind k elements, u may be there from the third on.
LEMMA HoldsBehind ==
  ASSUME NEW s, NEW k \in Nat, NEW rest, NEW u, Len(rest) \in Nat, Len(u) \in Nat,
         Len(u) + 3 <= Len(rest), Holds(s, k, rest), Holds(s, k + 2, u)
  PROVE  Holds(rest, 2, u)
<1> SUFFICES ASSUME NEW x \in 1 .. Len(u)  PROVE rest[2 + x] = u[x]
  BY DEF Holds
<1>1. s[k + 2 + x] = u[x]
  BY DEF Holds
<1>2. 2 + x \in 1 .. Len(rest) /\ k + (2 + x) = k + 2 + x
  OBVIOUS
<1>3. s[k + (2 + x)] = rest[2 + x]
  BY <1>2 DEF Holds
<1> QED  BY <1>1, <1>2, <1>3

\* What begins with q and goes on with u is p, which is made of the two.
LEMMA AgreesWithJoined ==
  ASSUME NEW q \in Seq(Tokens), NEW u \in Seq(Tokens), NEW p, p = q \o u,
         NEW s, NEW t, Agree(s, q, 1, Len(q)), Agree(t, s, 1, Len(q)), Holds(t, Len(q), u)
  PROVE  Agree(t, p, 1, Len(p))
<1>1. /\ Len(q) \in Nat /\ Len(u) \in Nat /\ Len(p) = Len(q) + Len(u)
      /\ \A i \in 1 .. Len(q) : p[i] = q[i]
      /\ \A i \in 1 .. Len(u) : p[Len(q) + i] = u[i]
  BY Joined
<1> SUFFICES ASSUME NEW x \in 1 .. Len(p)  PROVE t[x] = p[x]
  BY DEF Agree
<1>2. CASE x \in 1 .. Len(q)
  <2>1. s[x] = q[x] /\ t[x] = s[x]
    BY <1>2 DEF Agree
  <2> QED  BY <1>1, <1>2, <2>1
<1>3. CASE ~(x \in 1 .. Len(q))
  <2>1. PICK z : z = x - Len(q)
    OBVIOUS
  <2>2. z \in 1 .. Len(u) /\ x = Len(q) + z
    BY <1>1, <1>3, <2>1
  <2>3. t[Len(q) + z] = u[z] /\ p[Len(q) + z] = u[z]
    BY <1>1, <2>2 DEF Holds
  <2> QED  BY <2>2, <2>3
<1> QED  BY <1>2, <1>3

\* A chunk that is decoded is payload, and the chunks behind it are untouched.
ChunkPassed(m, c, j, size, t) ==
    /\ AtChunk(m, t, c, j + 1)
    /\ Len(PayloadTo(m, j + 1)) = Len(PayloadTo(m, j)) + size
    /\ Len(ChunksTo(m, j + 1)) = Len(ChunksTo(m, j)) + size + 3

LEMMA ChunkMoved ==
  ASSUME NEW m, IsFramed(m), m.coding = "chunked",
         NEW c \in 0 .. Len(BodyOnWire(m)), NEW s, NEW j, AtChunk(m, s, c, j),
         j < Len(m.body), Len(From(s, Len(ChunksTo(m, j)))) >= NextSize(m, j) + 3
  PROVE  ChunkPassed(m, c, j, NextSize(m, j),
                     Moved(s, From(s, Len(ChunksTo(m, j))), Len(PayloadTo(m, j)),
                           NextSize(m, j)))
<1>1. PICK k : k = Len(ChunksTo(m, j))
  OBVIOUS
<1>2. PICK i : i = j + 1
  OBVIOUS
<1>3. PICK p : p = PayloadTo(m, i)
  OBVIOUS
<1>4. PICK q : q = PayloadTo(m, j)
  OBVIOUS
<1>5. PICK u : u = m.body[i]
  OBVIOUS
<1>6. PICK e : e = Len(ChunksTo(m, i))
  OBVIOUS
<1>7. PICK size : size = NextSize(m, j)
  OBVIOUS
<1>8. PICK rest : rest = From(s, k)
  OBVIOUS
<1>9. PICK len : len = Len(q)
  OBVIOUS
<1>10. PICK B : B = BodyOnWire(m)
  OBVIOUS
<1>11. PICK t : t = Moved(s, rest, len, size)
  OBVIOUS
<1>12. /\ j \in 0 .. Len(m.body) /\ s \in Seq(Tokens) /\ Len(s) = c /\ k <= c
       /\ Agree(s, B, k + 1, c) /\ Agree(s, q, 1, Len(q))
  BY <1>1, <1>4, <1>10 DEF AtChunk
<1>13. j \in Nat /\ i \in 1 .. Len(m.body) /\ i \in 0 .. Len(m.body) /\ i - 1 = j
  <2>1. Len(m.body) \in Nat
    BY ChunkSteps
  <2> QED  BY <1>2, <1>12, <2>1
<1>14. /\ u \in Seq(Tokens) /\ Len(u) \in Nat /\ p = q \o u
       /\ Len(p) = Len(q) + Len(u) /\ e = k + Len(u) + 3
  <2>1. /\ m.body[i] \in Seq(Tokens) /\ Len(m.body[i]) \in Nat
        /\ PayloadTo(m, i) = PayloadTo(m, i - 1) \o m.body[i]
        /\ Len(PayloadTo(m, i)) = Len(PayloadTo(m, i - 1)) + Len(m.body[i])
        /\ Len(ChunksTo(m, i)) = Len(ChunksTo(m, i - 1)) + Len(m.body[i]) + 3
    BY <1>13, ChunkSteps
  <2> QED  BY <1>1, <1>3, <1>4, <1>5, <1>6, <1>13, <2>1
<1>15. /\ p \in Seq(Tokens) /\ q \in Seq(Tokens) /\ Len(p) \in Nat /\ Len(q) \in Nat
       /\ k \in Nat
  BY <1>1, <1>3, <1>4, <1>12, <1>13, ChunkSteps
<1>16. size = Len(u)
  BY <1>2, <1>5, <1>7 DEF NextSize
<1>17. rest \in Seq(Tokens) /\ Len(rest) = c - k /\ Holds(B, k, rest) /\ size \in Nat
  <2>1. RestIs(m, c, j, k, rest, size)
    BY <1>1, <1>7, <1>8, RestOfChunks
  <2> QED  BY <1>10, <2>1 DEF RestIs
<1>18. Holds(B, k + 2, u)
  <2>1. \A a \in 1 .. Len(m.body) : Holds(B, Len(ChunksTo(m, a - 1)) + 2, m.body[a])
    BY <1>10, ChunkPlaces
  <2>2. Holds(B, Len(ChunksTo(m, i - 1)) + 2, m.body[i])
    BY <1>13, <2>1
  <2> QED  BY <1>1, <1>5, <1>13, <2>2
<1>19. len <= k /\ len \in Nat
  <2>1. PICK a : a = Len(PayloadTo(m, j))
    OBVIOUS
  <2>2. k = a + 3 * j
    BY <1>1, <1>12, <2>1, ChunkLengths
  <2>3. a \in Nat
    BY <1>4, <1>15, <2>1
  <2>4. a <= k
    BY <1>13, <2>2, <2>3
  <2> QED  BY <1>4, <1>9, <2>1, <2>3, <2>4
<1>20. c \in Nat /\ size + 3 <= c - k
  <2>1. Len(B) \in Nat /\ c \in 0 .. Len(B)
    BY <1>10, WireShape
  <2>2. c \in Nat
    BY <2>1
  <2>3. Len(rest) >= size + 3
    BY <1>1, <1>7, <1>8
  <2>4. c - k >= size + 3
    BY <1>17, <2>3
  <2> QED  BY <1>15, <1>17, <2>2, <2>4
<1>21. Holds(rest, 2, u)
  <2>1. Len(rest) \in Nat
    BY <1>17, LenProperties
  <2>2. Len(u) + 3 <= Len(rest)
    BY <1>16, <1>17, <1>20
  <2> QED  BY <1>14, <1>15, <1>17, <1>18, <2>1, <2>2, HoldsBehind
<1>22. /\ t \in Seq(Tokens) /\ Len(t) = c
       /\ Agree(t, s, 1, len) /\ Holds(t, len, u) /\ Agree(t, s, k + size + 4, c)
  <2>1. /\ len \in Nat /\ k \in Nat /\ size \in Nat /\ c \in Nat
        /\ len <= k /\ size + 3 <= c - k /\ s \in Seq(Tokens) /\ Len(s) = c
        /\ rest \in Seq(Tokens) /\ Len(rest) = c - k /\ Len(u) = size /\ Holds(rest, 2, u)
    BY <1>12, <1>15, <1>16, <1>17, <1>19, <1>20, <1>21
  <2>2. PassedOn(t, s, c, len, k, size, u)
    BY <1>11, <2>1, MovedIs
  <2> QED  BY <2>2 DEF PassedOn
<1>23. Agree(t, p, 1, Len(p))
  BY <1>9, <1>12, <1>14, <1>15, <1>22, AgreesWithJoined
<1>24. Agree(t, B, e + 1, c) /\ e <= c
  <2>1. e = k + size + 3
    BY <1>14, <1>16
  <2>2. ASSUME NEW x \in e + 1 .. c  PROVE t[x] = B[x]
    <3>1. x \in k + size + 4 .. c /\ x \in k + 1 .. c
      BY <1>15, <1>17, <1>20, <2>1
    <3>2. t[x] = s[x] /\ s[x] = B[x]
      BY <1>12, <1>22, <3>1 DEF Agree
    <3> QED  BY <3>2
  <2>3. e <= c
    BY <1>15, <1>17, <1>20, <2>1
  <2> QED  BY <2>2, <2>3 DEF Agree
<1>25. AtChunk(m, t, c, i)
  BY <1>3, <1>6, <1>10, <1>13, <1>22, <1>23, <1>24 DEF AtChunk
<1>26. ChunkPassed(m, c, j, size, t)
  BY <1>1, <1>2, <1>3, <1>4, <1>6, <1>14, <1>16, <1>25 DEF ChunkPassed
<1> QED  BY <1>1, <1>4, <1>7, <1>8, <1>9, <1>11, <1>26

\* What one round makes of what arrived of a message.
RoundMade(m, n, c, s, j, o) ==
    \/ o.ret = "error" /\ ~IsAcceptable(m)
    \/ o = AfterRound(m, s, j, "more") /\ n < Len(Wire(m))
    \/ o = AfterRound(m, s, j, "last") /\ j = Len(m.body) /\ n >= Len(Wire(m)) - 1
    \/ \E t : o = AfterRound(m, t, j + 1, "next") /\ AtChunk(m, t, c, j + 1)

LEMMA ChunkRound ==
  ASSUME NEW m, IsFramed(m), m.coding = "chunked", NEW n \in HeadEnd(m) .. Len(Wire(m)),
         NEW c, c = n - HeadEnd(m), NEW s, NEW j, AtChunk(m, s, c, j)
  PROVE  RoundMade(m, n, c, s, j, DecodeChunk(AfterRound(m, s, j, "next"), n))
<1> DEFINE o == DecodeChunk(AfterRound(m, s, j, "next"), n)
<1>1. PICK k : k = Len(ChunksTo(m, j))
  OBVIOUS
<1>2. PICK len : len = Len(PayloadTo(m, j))
  OBVIOUS
<1>3. PICK size : size = NextSize(m, j)
  OBVIOUS
<1>4. PICK rest : rest = From(s, k)
  OBVIOUS
<1>5. PICK w : w = Len(Wire(m))
  OBVIOUS
<1>6. PICK e : e = Len(BodyOnWire(m))
  OBVIOUS
<1>7. /\ n \in Nat /\ w \in Nat /\ e \in Nat /\ c \in Nat /\ n <= w
      /\ w - n = e - c /\ c <= e
  <2>1. PICK h : h = HeadEnd(m)
    OBVIOUS
  <2>2. w = h + e /\ e \in Nat
    BY <1>5, <1>6, <2>1, WireShape
  <2>3. h \in Nat /\ n \in Nat /\ w \in Nat
    BY <1>5, <2>1, BodyRead
  <2>4. n \in h .. w /\ c = n - h
    BY <1>5, <2>1
  <2> QED  BY <2>2, <2>3, <2>4
<1>8. c \in 0 .. Len(BodyOnWire(m))
  BY <1>6, <1>7
<1>9. /\ rest \in Seq(Tokens) /\ Len(rest) = c - k /\ size \in Nat
      /\ Len(rest) < 2 => LineEnds(rest) = {}
      /\ Len(rest) >= 1 => rest[1] = Token("size", size)
      /\ Len(rest) >= 2 => LineEnds(rest) # {}
      /\ j < Len(m.body) => size # 0
      /\ k + size + 3 <= e
  <2>1. RestIs(m, c, j, k, rest, size)
    BY <1>1, <1>3, <1>4, <1>8, RestOfChunks
  <2> QED  BY <1>6, <2>1 DEF RestIs
<1>10. /\ j \in 0 .. Len(m.body) /\ k \in Nat /\ Len(m.body) \in Nat /\ k <= c
  <2>1. /\ j \in 0 .. Len(m.body) /\ Len(ChunksTo(m, j)) <= c
    BY DEF AtChunk
  <2> QED  BY <1>1, <2>1, ChunkSteps
<1>11. AfterRound(m, s, j, "next") = Decoding(s, len, k, "next")
       /\ \A ret : AfterRound(m, s, j, ret) = Decoding(s, len, k, ret)
  BY <1>1, <1>2 DEF AfterRound
<1>12. PICK x : x = rest[1].n
  OBVIOUS
<1>13. o = NextDecoding(s, len, k, n, rest, x)
  BY <1>4, <1>11, <1>12, DecodeChunkIs
<1>14. Len(rest) \in Nat
  BY <1>7, <1>9, <1>10
<1> HIDE DEF o
<1>15. CASE Len(rest) < 2
  <2>1. o = AfterRound(m, s, j, "more")
    BY <1>9, <1>11, <1>13, <1>15 DEF NextDecoding
  <2>2. n < w
    BY <1>7, <1>9, <1>10, <1>15
  <2> QED  BY <1>5, <2>1, <2>2 DEF RoundMade, o
<1>16. CASE Len(rest) >= 2
  <2>1. rest[1] = Token("size", size) /\ LineEnds(rest) # {}
    BY <1>9, <1>14, <1>16
  <2>2. rest[1] # Crlf /\ rest[1].kind = "size" /\ x = size
    BY <1>12, <2>1, SizeIsNoLineEnd
  <2>3. o = IF size >= BodyMax THEN Decoding(s, len, k, "error")
            ELSE IF size = 0 THEN Decoding(s, len, k, "last")
            ELSE IF Len(rest) < size + 3 THEN Decoding(s, len, k, "more")
            ELSE IF n + size >= BodyMax THEN Decoding(s, len, k, "error")
            ELSE Decoding(Moved(s, rest, len, size), len + size, k + size + 3, "next")
    BY <1>13, <2>1, <2>2 DEF NextDecoding
  <2>4. BodyMax \in Nat
    BY SizesAssumption
  <2>5. IsAcceptable(m) => w < BodyMax /\ w + size < BodyMax
    <3> SUFFICES ASSUME IsAcceptable(m)  PROVE w < BodyMax /\ w + size < BodyMax
      OBVIOUS
    <3>1. w < BodyMax
      BY <1>5, AcceptableIs
    <3>2. CASE j < Len(m.body)
      <4>1. j + 1 \in 1 .. Len(m.body)
        BY <1>10, <3>2
      <4>2. size = Len(m.body[j + 1])
        BY <1>3, <3>2 DEF NextSize
      <4>3. \A i \in 1 .. Len(m.body) : Len(Wire(m)) + Len(m.body[i]) < BodyMax
        BY AcceptableIs
      <4> QED  BY <1>5, <3>1, <4>1, <4>2, <4>3
    <3>3. CASE ~(j < Len(m.body))
      <4>1. size = 0
        BY <1>3, <3>3 DEF NextSize
      <4> QED  BY <1>7, <2>4, <3>1, <4>1
    <3> QED  BY <3>2, <3>3
  <2>6. CASE size >= BodyMax
    <3>1. o = Decoding(s, len, k, "error")
      BY <2>3, <2>6
    <3>2. ~IsAcceptable(m)
      BY <1>7, <1>9, <2>4, <2>5, <2>6
    <3> QED  BY <3>1, <3>2, DecodingIs DEF RoundMade, o
  <2>7. CASE ~(size >= BodyMax) /\ size = 0
    <3>1. o = AfterRound(m, s, j, "last")
      BY <1>11, <2>3, <2>7
    <3>2. j = Len(m.body)
      BY <1>9, <1>10, <2>7
    <3>3. e = k + 3
      BY <1>1, <1>6, <3>2, ChunkPlaces
    <3>4. n >= w - 1
      BY <1>7, <1>9, <1>10, <1>16, <3>3
    <3> QED  BY <1>5, <3>1, <3>2, <3>4 DEF RoundMade, o
  <2>8. CASE ~(size >= BodyMax) /\ size # 0 /\ Len(rest) < size + 3
    <3>1. o = AfterRound(m, s, j, "more")
      BY <1>11, <2>3, <2>8
    <3>2. n < w
      BY <1>7, <1>9, <1>10, <2>8
    <3> QED  BY <1>5, <3>1, <3>2 DEF RoundMade, o
  <2>9. CASE /\ ~(size >= BodyMax) /\ size # 0 /\ ~(Len(rest) < size + 3)
             /\ n + size >= BodyMax
    <3>1. o = Decoding(s, len, k, "error")
      BY <2>3, <2>9
    <3>2. ~IsAcceptable(m)
      BY <1>7, <1>9, <2>4, <2>5, <2>9
    <3> QED  BY <3>1, <3>2, DecodingIs DEF RoundMade, o
  <2>10. CASE /\ ~(size >= BodyMax) /\ size # 0 /\ ~(Len(rest) < size + 3)
              /\ ~(n + size >= BodyMax)
    <3>1. PICK t : t = Moved(s, rest, len, size)
      OBVIOUS
    <3>2. o = Decoding(t, len + size, k + size + 3, "next")
      BY <2>3, <2>10, <3>1
    <3>3. j < Len(m.body) /\ size = Len(m.body[j + 1])
      BY <1>3, <2>10 DEF NextSize
    <3>4. Len(rest) >= size + 3
      BY <1>9, <1>14, <2>10
    <3>5. ChunkPassed(m, c, j, size, t)
      BY <1>1, <1>2, <1>3, <1>4, <1>8, <3>1, <3>3, <3>4, ChunkMoved
    <3>6. AfterRound(m, t, j + 1, "next") = Decoding(t, len + size, k + size + 3, "next")
      BY <1>1, <1>2, <3>5 DEF AfterRound, ChunkPassed
    <3> QED  BY <3>2, <3>5, <3>6 DEF RoundMade, ChunkPassed, o
  <2> QED  BY <2>6, <2>7, <2>8, <2>9, <2>10
<1> QED  BY <1>14, <1>15, <1>16 DEF o

\* The loop: a round after each that has asked for one.
Continued(d, received) == IF d.ret = "next" THEN DecodeChunk(d, received) ELSE d

Rounds(f, d, received, n) ==
    f = [k \in 0 .. n |-> IF k = 0 THEN d ELSE Continued(f[k - 1], received)]

LEMMA RoundsSteps ==
  ASSUME NEW f, NEW d, NEW received, NEW n \in Nat, Rounds(f, d, received, n)
  PROVE  /\ f[0] = d
         /\ \A k \in 1 .. n : f[k] = Continued(f[k - 1], received)
<1> DEFINE Step(k) == IF k = 0 THEN d ELSE Continued(f[k - 1], received)
<1>1. \A k \in 0 .. n : f[k] = Step(k)
  <2>1. f = [k \in 0 .. n |-> Step(k)]
    BY DEF Rounds
  <2> HIDE DEF Step
  <2> QED  BY <2>1
<1>2. f[0] = d
  <2>1. 0 \in 0 .. n
    OBVIOUS
  <2> QED  BY <1>1, <2>1
<1>3. ASSUME NEW k \in 1 .. n  PROVE f[k] = Continued(f[k - 1], received)
  <2>1. k \in 0 .. n /\ k # 0
    OBVIOUS
  <2> QED  BY <1>1, <2>1
<1> QED  BY <1>2, <1>3

LEMMA RoundsExist ==
  ASSUME NEW d, NEW received, NEW n \in Nat
  PROVE  \E f : Rounds(f, d, received, n)
<1> DEFINE Bad == {i \in Nat : i <= n /\ ~ \E f : Rounds(f, d, received, i)}
<1> SUFFICES ASSUME Bad # {}  PROVE FALSE
  <2>1. ~(\E f : Rounds(f, d, received, n)) => n \in Bad
    OBVIOUS
  <2> QED  BY <2>1
<1>2. Bad \in SUBSET Nat
  OBVIOUS
<1>3. PICK m \in Bad : \A j \in Bad : m <= j
  BY <1>2, LowestOf
<1>4. m \in Nat /\ m <= n
  BY <1>3
<1>5. m # 0
  <2> SUFFICES ASSUME m = 0  PROVE \E f : Rounds(f, d, received, m)
    BY <1>3
  <2> DEFINE f == [k \in 0 .. 0 |-> d]
  <2>1. f = [k \in 0 .. 0 |-> IF k = 0 THEN d ELSE Continued(f[k - 1], received)]
    <3>1. \A k \in 0 .. 0 : k = 0
      OBVIOUS
    <3> QED  BY <3>1
  <2> QED  BY <2>1 DEF Rounds
<1>6. m - 1 \in Nat /\ m - 1 <= n /\ m - 1 \notin Bad
  <2>1. m - 1 \in Nat /\ m - 1 <= n /\ ~(m <= m - 1)
    BY <1>4, <1>5
  <2> HIDE DEF Bad
  <2> QED  BY <2>1, <1>3
<1>7. PICK f : Rounds(f, d, received, m - 1)
  BY <1>6
<1> DEFINE Step(h, k) == IF k = 0 THEN d ELSE Continued(h[k - 1], received)
           g == [k \in 0 .. m |-> Step(f, k)]
<1>8. \A k \in 0 .. m - 1 : f[k] = Step(f, k)
  <2>1. f = [k \in 0 .. m - 1 |-> Step(f, k)]
    BY <1>7 DEF Rounds
  <2> HIDE DEF Step
  <2> QED  BY <2>1
<1>9. \A k \in 0 .. m : Step(g, k) = Step(f, k)
  <2> SUFFICES ASSUME NEW k \in 0 .. m  PROVE Step(g, k) = Step(f, k)
    OBVIOUS
  <2>1. CASE k = 0
    BY <2>1
  <2>2. CASE k # 0
    <3>1. k - 1 \in 0 .. m - 1 /\ k - 1 \in 0 .. m
      BY <1>4, <2>2
    <3>2. g[k - 1] = Step(f, k - 1)
      <4> HIDE DEF Step
      <4> QED  BY <3>1
    <3>3. g[k - 1] = f[k - 1]
      BY <3>1, <3>2, <1>8
    <3> HIDE DEF g
    <3> QED  BY <3>3, <2>2
  <2> QED  BY <2>1, <2>2
<1>10. Rounds(g, d, received, m)
  <2>1. g = [k \in 0 .. m |-> Step(g, k)]
    <3> HIDE DEF Step
    <3> QED  BY <1>9
  <2> HIDE DEF g
  <2> QED  BY <2>1 DEF Rounds
<1> QED  BY <1>3, <1>10

LEMMA DecodedIs ==
  ASSUME NEW r, NEW s, Len(s) \in Nat
  PROVE  \E f : /\ Rounds(f, Decoding(s, r.bodyLen, r.chunkDirty, "next"), r.received,
                          Len(s) + 1)
                /\ Decoded(r, s) = f[Len(s) + 1]
<1> DEFINE d == Decoding(s, r.bodyLen, r.chunkDirty, "next")
           f == CHOOSE f : Rounds(f, d, r.received, Len(s) + 1)
<1>1. Rounds(f, d, r.received, Len(s) + 1)
  <2>1. Len(s) + 1 \in Nat
    OBVIOUS
  <2> HIDE DEF d
  <2> QED  BY <2>1, RoundsExist
<1>2. Decoded(r, s) = f[Len(s) + 1]
  BY DEF Decoded, Rounds, Decoding, Continued
<1> QED  BY <1>1, <1>2

\* What the loop makes of what arrived of a message, of which c tokens are body.
Ended(m, n, c, d) ==
    \/ d.ret = "error" /\ ~IsAcceptable(m)
    \/ \E i, t : d = AfterRound(m, t, i, "more") /\ AtChunk(m, t, c, i) /\ n < Len(Wire(m))
    \/ \E t : /\ d = AfterRound(m, t, Len(m.body), "last")
              /\ AtChunk(m, t, c, Len(m.body)) /\ n >= Len(Wire(m)) - 1

GoesOn(m, c, d, k) ==
    \E i, t : d = AfterRound(m, t, i, "next") /\ AtChunk(m, t, c, i) /\ k <= i

LEMMA EndedStays ==
  ASSUME NEW m, NEW n, NEW c, NEW d, Ended(m, n, c, d)
  PROVE  Continued(d, n) = d
<1>1. d.ret # "next"
  <2>1. CASE d.ret = "error"
    BY <2>1
  <2>2. CASE \E i, t : d = AfterRound(m, t, i, "more")
    BY <2>2, DecodingIs DEF AfterRound
  <2>3. CASE \E t : d = AfterRound(m, t, Len(m.body), "last")
    BY <2>3, DecodingIs DEF AfterRound
  <2> QED  BY <2>1, <2>2, <2>3 DEF Ended
<1> QED  BY <1>1 DEF Continued

LEMMA RoundAdvances ==
  ASSUME NEW m, IsFramed(m), m.coding = "chunked", NEW n \in HeadEnd(m) .. Len(Wire(m)),
         NEW c, c = n - HeadEnd(m), NEW d, NEW k \in Nat, GoesOn(m, c, d, k)
  PROVE  \/ Ended(m, n, c, Continued(d, n))
         \/ GoesOn(m, c, Continued(d, n), k + 1)
<1>1. PICK i, s : d = AfterRound(m, s, i, "next") /\ AtChunk(m, s, c, i) /\ k <= i
  BY DEF GoesOn
<1>2. d.ret = "next"
  BY <1>1, DecodingIs DEF AfterRound
<1>3. PICK o : o = Continued(d, n)
  OBVIOUS
<1>4. RoundMade(m, n, c, s, i, o)
  <2>1. o = DecodeChunk(AfterRound(m, s, i, "next"), n)
    BY <1>1, <1>2, <1>3 DEF Continued
  <2>2. RoundMade(m, n, c, s, i, DecodeChunk(AfterRound(m, s, i, "next"), n))
    BY <1>1, ChunkRound
  <2> QED  BY <2>1, <2>2
<1>5. i \in Nat
  <2>1. i \in 0 .. Len(m.body) /\ Len(m.body) \in Nat
    BY <1>1, ChunkSteps DEF AtChunk
  <2> QED  BY <2>1
<1>6. k + 1 <= i + 1
  BY <1>1, <1>5
<1>7. CASE o.ret = "error" /\ ~IsAcceptable(m)
  BY <1>3, <1>7 DEF Ended
<1>8. CASE o = AfterRound(m, s, i, "more") /\ n < Len(Wire(m))
  BY <1>1, <1>3, <1>8 DEF Ended
<1>9. CASE o = AfterRound(m, s, i, "last") /\ i = Len(m.body) /\ n >= Len(Wire(m)) - 1
  BY <1>1, <1>3, <1>9 DEF Ended
<1>10. CASE \E t : o = AfterRound(m, t, i + 1, "next") /\ AtChunk(m, t, c, i + 1)
  BY <1>3, <1>6, <1>10 DEF GoesOn
<1> QED  BY <1>4, <1>7, <1>8, <1>9, <1>10 DEF RoundMade

LEMMA ChunksDecoded ==
  ASSUME NEW m, IsFramed(m), m.coding = "chunked", NEW n \in HeadEnd(m) .. Len(Wire(m)),
         NEW c \in Nat, c = n - HeadEnd(m), NEW s, NEW j, AtChunk(m, s, c, j),
         NEW f, Rounds(f, AfterRound(m, s, j, "next"), n, c + 1)
  PROVE  Ended(m, n, c, f[c + 1])
<1> DEFINE Fine(k) == Ended(m, n, c, f[k]) \/ GoesOn(m, c, f[k], k)
           Bad == {k \in Nat : k <= c + 1 /\ ~Fine(k)}
<1>1. /\ f[0] = AfterRound(m, s, j, "next")
      /\ \A k \in 1 .. c + 1 : f[k] = Continued(f[k - 1], n)
  <2>1. c + 1 \in Nat
    OBVIOUS
  <2> QED  BY <2>1, RoundsSteps
<1>2. Bad = {}
  <2> SUFFICES ASSUME Bad # {}  PROVE FALSE
    OBVIOUS
  <2>1. PICK k \in Bad : \A i \in Bad : k <= i
    <3>1. Bad \in SUBSET Nat
      OBVIOUS
    <3> HIDE DEF Bad
    <3> QED  BY <3>1, LowestOf
  <2>2. k \in Nat /\ k <= c + 1 /\ ~Fine(k)
    BY <2>1
  <2>3. Fine(0)
    <3>1. j \in 0 .. Len(m.body) /\ Len(m.body) \in Nat
      BY ChunkSteps DEF AtChunk
    <3>2. 0 <= j
      BY <3>1
    <3> QED  BY <1>1, <3>2 DEF GoesOn
  <2> HIDE DEF Fine
  <2>4. k # 0
    BY <2>2, <2>3
  <2>5. PICK i : i = k - 1
    OBVIOUS
  <2>6. i \in Nat /\ i <= c + 1 /\ ~(k <= i) /\ k \in 1 .. c + 1 /\ k = i + 1
    BY <2>2, <2>4, <2>5
  <2>7. Fine(i)
    BY <2>1, <2>6
  <2>8. f[k] = Continued(f[i], n)
    BY <1>1, <2>5, <2>6
  <2>9. CASE Ended(m, n, c, f[i])
    <3>1. f[k] = f[i]
      BY <2>8, <2>9, EndedStays
    <3> QED  BY <2>2, <2>9, <3>1 DEF Fine
  <2>10. CASE GoesOn(m, c, f[i], i)
    <3>1. PICK d : d = f[i]
      OBVIOUS
    <3>2. Ended(m, n, c, Continued(d, n)) \/ GoesOn(m, c, Continued(d, n), i + 1)
      BY <2>6, <2>10, <3>1, RoundAdvances
    <3> QED  BY <2>2, <2>6, <2>8, <3>1, <3>2 DEF Fine
  <2> QED  BY <2>7, <2>9, <2>10 DEF Fine
<1>3. Ended(m, n, c, f[c + 1]) \/ GoesOn(m, c, f[c + 1], c + 1)
  <2>1. c + 1 \in Nat /\ c + 1 <= c + 1 /\ c + 1 \notin Bad
    <3> HIDE DEF Bad
    <3> QED  BY <1>2
  <2> QED  BY <2>1
<1>4. ~GoesOn(m, c, f[c + 1], c + 1)
  <2> SUFFICES ASSUME NEW i, NEW t, AtChunk(m, t, c, i), c + 1 <= i  PROVE FALSE
    BY DEF GoesOn
  <2>1. /\ i \in 0 .. Len(m.body) /\ Len(ChunksTo(m, i)) <= c /\ Len(m.body) \in Nat
    BY ChunkSteps DEF AtChunk
  <2>2. /\ Len(ChunksTo(m, i)) = Len(PayloadTo(m, i)) + 3 * i
        /\ Len(PayloadTo(m, i)) \in Nat
    BY <2>1, ChunkLengths, ChunkSteps
  <2>3. i \in Nat
    BY <2>1
  <2>4. PICK a : a = Len(PayloadTo(m, i))
    OBVIOUS
  <2>5. a + 3 * i <= c /\ a \in Nat
    BY <2>1, <2>2, <2>4
  <2> QED  BY <2>3, <2>5
<1> QED  BY <1>3, <1>4

\* The buffer with the chunks as far as they are decoded.
LEMMA RefilledIs ==
  ASSUME NEW b, IsBuffer(b), NEW t \in Seq(Tokens), Len(t) = Len(Unread(b)),
         NEW x, x = Refilled(b, t)
  PROVE  IsBuffer(x) /\ x.capacity = b.capacity /\ Unread(x) = t
<1>1. PICK q : q = SubSeq(b.data, 1, b.start)
  OBVIOUS
<1>2. PICK p : p = q \o t
  OBVIOUS
<1>3. /\ b.data \in Seq(Tokens) /\ Len(b.data) \in Nat /\ b.start \in 0 .. Len(b.data)
      /\ Len(Unread(b)) = Len(b.data) - b.start
  BY UnreadIs
<1>4. q \in Seq(Tokens) /\ Len(q) = b.start
  BY <1>1, <1>3, Beginning
<1>5. /\ p \in Seq(Tokens) /\ Len(p) = Len(q) + Len(t)
      /\ \A i \in 1 .. Len(q) : p[i] = q[i]
      /\ \A i \in 1 .. Len(t) : p[Len(q) + i] = t[i]
  <2>1. q \in Seq(Tokens) /\ t \in Seq(Tokens) /\ p = q \o t
    BY <1>2, <1>4
  <2>2. /\ q \o t \in Seq(Tokens) /\ Len(q \o t) = Len(q) + Len(t)
        /\ \A i \in 1 .. Len(q) + Len(t) :
             (q \o t)[i] = IF i <= Len(q) THEN q[i] ELSE t[i - Len(q)]
    BY <2>1, ConcatProperties
  <2>3. Len(q) \in Nat /\ Len(t) \in Nat
    BY <2>1, LenProperties
  <2>4. ASSUME NEW i \in 1 .. Len(q)  PROVE p[i] = q[i]
    BY <2>1, <2>2, <2>3
  <2>5. ASSUME NEW i \in 1 .. Len(t)  PROVE p[Len(q) + i] = t[i]
    BY <2>1, <2>2, <2>3
  <2> QED  BY <2>1, <2>2, <2>4, <2>5
<1>6. Len(t) \in Nat /\ Len(q) \in Nat /\ Len(p) \in Nat /\ b.start \in Nat
  BY <1>3, <1>4, <1>5, LenProperties
<1>7. x = [b EXCEPT !.data = p]
  BY <1>1, <1>2 DEF Refilled
<1>8. x.data = p /\ x.start = b.start /\ x.capacity = b.capacity /\ x.limit = b.limit
      /\ x = [data |-> p, start |-> b.start, capacity |-> b.capacity, limit |-> b.limit]
  BY <1>7 DEF IsBuffer
<1>9. IsBuffer(x)
  <2>1. b.start <= Len(p)
    BY <1>4, <1>5, <1>6
  <2>2. b.start \in Nat /\ b.capacity \in Nat /\ b.limit \in {MessageMax}
    BY DEF IsBuffer
  <2> QED  BY <1>5, <1>8, <2>1, <2>2 DEF IsBuffer
<1>10. Unread(x) = t
  <2>1. /\ Unread(x) \in Seq(Tokens) /\ Len(Unread(x)) = Len(p) - b.start
        /\ \A i \in 1 .. Len(p) - b.start : Unread(x)[i] = p[b.start + i]
    BY <1>8, <1>9, UnreadIs
  <2>2. Len(p) - b.start = Len(t)
    BY <1>4, <1>5, <1>6
  <2>3. \A i \in 1 .. Len(t) : Unread(x)[i] = t[i]
    BY <1>4, <1>5, <2>1, <2>2
  <2> QED  BY <2>1, <2>2, <2>3, SeqEqual
<1> QED  BY <1>8, <1>9, <1>10

LEMMA BeginsWith ==
  ASSUME NEW t \in Seq(Tokens), NEW p \in Seq(Tokens), Len(p) <= Len(t),
         Agree(t, p, 1, Len(p))
  PROVE  SubSeq(t, 1, Len(p)) = p
<1>1. Len(p) \in 0 .. Len(t)
  <2>1. Len(p) \in Nat /\ Len(t) \in Nat
    BY LenProperties
  <2> QED  BY <2>1
<1>2. /\ SubSeq(t, 1, Len(p)) \in Seq(Tokens) /\ Len(SubSeq(t, 1, Len(p))) = Len(p)
      /\ \A i \in 1 .. Len(p) : SubSeq(t, 1, Len(p))[i] = t[i]
  BY <1>1, Beginning
<1>3. \A i \in 1 .. Len(p) : SubSeq(t, 1, Len(p))[i] = p[i]
  BY <1>2 DEF Agree
<1> QED  BY <1>2, <1>3, SeqEqual

\* A body that comes in chunks.
ChunksMade(m, n, c, b, o) ==
    \/ o.ret = "error" /\ ~IsAcceptable(m)
    \/ /\ o.ret = "more" /\ n < Len(Wire(m)) /\ IsBuffer(o.b) /\ o.b.capacity = b.capacity
       /\ \E i : /\ AtChunk(m, Unread(o.b), c, i)
                 /\ o.r = BodyOf(m, n, Len(PayloadTo(m, i)), Len(ChunksTo(m, i)))
    \/ o.ret = "ready" /\ n >= Len(Wire(m)) - 1 /\ Delivers(o.r, m)

LEMMA ChunksParsed ==
  ASSUME NEW m, IsFramed(m), NEW n \in HeadEnd(m) .. Len(Wire(m)),
         NEW c, c = n - HeadEnd(m), Accepted(m), HasChunked(m.fields),
         NEW b, IsBuffer(b), NEW j, AtChunk(m, Unread(b), c, j)
  PROVE  ChunksMade(m, n, c, b,
                    ParseBody(BodyOf(m, n, Len(PayloadTo(m, j)), Len(ChunksTo(m, j))), b))
<1>1. PICK len : len = Len(PayloadTo(m, j))
  OBVIOUS
<1>2. PICK dirty : dirty = Len(ChunksTo(m, j))
  OBVIOUS
<1>3. PICK r : r = BodyOf(m, n, len, dirty)
  OBVIOUS
<1>4. PICK s : s = Unread(b)
  OBVIOUS
<1>5. PICK o : o = ParseBody(r, b)
  OBVIOUS
<1>6. /\ r.chunked = TRUE /\ r.received = n /\ r.bodyLen = len /\ r.chunkDirty = dirty
  BY <1>3 DEF BodyOf, HasChunked
<1>7. m.coding = "chunked"
  BY DEF IsFramed, Accepted
<1>8. c \in Nat /\ Len(s) = c /\ s \in Seq(Tokens) /\ n \in Nat /\ Len(Wire(m)) \in Nat
      /\ n <= Len(Wire(m)) /\ c <= n
  <2>1. Len(s) = c /\ s \in Seq(Tokens)
    BY <1>4 DEF AtChunk
  <2>2. HeadEnd(m) \in Nat /\ n \in Nat /\ Len(Wire(m)) \in Nat
    BY BodyRead
  <2>3. n \in HeadEnd(m) .. Len(Wire(m))
    OBVIOUS
  <2>4. c \in Nat /\ c <= n /\ n <= Len(Wire(m))
    BY <2>2, <2>3
  <2> QED  BY <2>1, <2>2, <2>4
<1>9. BodyMax \in Nat
  BY SizesAssumption
<1>10. CASE Len(s) >= BodyMax
  <2>1. o = Outcome("error", r, b)
    BY <1>4, <1>5, <1>10 DEF ParseBody
  <2>2. ~IsAcceptable(m)
    <3>1. IsAcceptable(m) => Len(Wire(m)) < BodyMax
      BY AcceptableIs
    <3>2. Len(Wire(m)) >= BodyMax
      BY <1>8, <1>9, <1>10
    <3> QED  BY <1>8, <1>9, <3>1, <3>2
  <2>3. ChunksMade(m, n, c, b, o)
    BY <2>1, <2>2, OutcomeIs DEF ChunksMade
  <2> QED  BY <1>1, <1>2, <1>3, <1>5, <2>3
<1>11. CASE ~(Len(s) >= BodyMax)
  <2>1. PICK d : d = Decoded(r, s)
    OBVIOUS
  <2>2. o = AfterChunks(r, b, d)
    BY <1>4, <1>5, <1>6, <1>11, <2>1 DEF ParseBody, HandleChunks
  <2>3. Ended(m, n, c, d)
    <3>1. PICK f : /\ Rounds(f, Decoding(s, r.bodyLen, r.chunkDirty, "next"), r.received,
                             Len(s) + 1)
                   /\ Decoded(r, s) = f[Len(s) + 1]
      BY <1>8, DecodedIs
    <3>2. Rounds(f, AfterRound(m, s, j, "next"), n, c + 1)
      BY <1>1, <1>2, <1>6, <1>8, <3>1 DEF AfterRound
    <3>3. Ended(m, n, c, f[c + 1])
      BY <1>4, <1>7, <1>8, <3>2, ChunksDecoded
    <3> QED  BY <1>8, <2>1, <3>1, <3>3
  <2>4. PICK x : x = d.len
    OBVIOUS
  <2>5. PICK y : y = d.dirty
    OBVIOUS
  <2>6. PICK a : a = Refilled(b, d.s)
    OBVIOUS
  <2>7. o = IF d.ret = "last" THEN SetReady(BodyOf(m, n, x, y), a, SubSeq(d.s, 1, x))
            ELSE Outcome(d.ret, BodyOf(m, n, x, y), a)
    BY <1>3, <2>2, <2>4, <2>5, <2>6, ChunksHandled
  <2>8. ASSUME NEW t, NEW i, AtChunk(m, t, c, i), d.s = t
        PROVE  IsBuffer(a) /\ a.capacity = b.capacity /\ Unread(a) = t
    <3>1. t \in Seq(Tokens) /\ Len(t) = Len(Unread(b))
      BY <1>4, <1>8, <2>8 DEF AtChunk
    <3> QED  BY <2>6, <2>8, <3>1, RefilledIs
  <2>9. CASE d.ret = "error" /\ ~IsAcceptable(m)
    <3>1. o.ret = "error"
      BY <2>7, <2>9, OutcomeIs
    <3>2. ChunksMade(m, n, c, b, o)
      BY <2>9, <3>1 DEF ChunksMade
    <3> QED  BY <1>1, <1>2, <1>3, <1>5, <3>2
  <2>10. CASE \E i, t : /\ d = AfterRound(m, t, i, "more") /\ AtChunk(m, t, c, i)
                        /\ n < Len(Wire(m))
    <3>1. PICK i, t : /\ d = AfterRound(m, t, i, "more") /\ AtChunk(m, t, c, i)
                      /\ n < Len(Wire(m))
      BY <2>10
    <3>2. /\ d.s = t /\ d.ret = "more" /\ x = Len(PayloadTo(m, i))
          /\ y = Len(ChunksTo(m, i))
      BY <2>4, <2>5, <3>1, DecodingIs DEF AfterRound
    <3>3. o = Outcome("more", BodyOf(m, n, x, y), a)
      BY <2>7, <3>2
    <3>4. o.ret = "more" /\ o.r = BodyOf(m, n, x, y) /\ o.b = a
      BY <3>3, OutcomeIs
    <3>5. IsBuffer(a) /\ a.capacity = b.capacity /\ Unread(a) = t
      BY <2>8, <3>1, <3>2
    <3>6. ChunksMade(m, n, c, b, o)
      BY <3>1, <3>2, <3>4, <3>5 DEF ChunksMade
    <3> QED  BY <1>1, <1>2, <1>3, <1>5, <3>6
  <2>11. CASE \E t : /\ d = AfterRound(m, t, Len(m.body), "last")
                     /\ AtChunk(m, t, c, Len(m.body)) /\ n >= Len(Wire(m)) - 1
    <3>1. PICK t : /\ d = AfterRound(m, t, Len(m.body), "last")
                   /\ AtChunk(m, t, c, Len(m.body)) /\ n >= Len(Wire(m)) - 1
      BY <2>11
    <3>2. PICK p : p = Payload(m)
      OBVIOUS
    <3>3. p = PayloadTo(m, Len(m.body)) /\ p \in Seq(Tokens) /\ Len(p) \in Nat
      <4>1. Payload(m) = PayloadTo(m, Len(m.body))
        BY BodyShape
      <4>2. Len(m.body) \in 0 .. Len(m.body)
        BY <3>1 DEF AtChunk
      <4>3. PayloadTo(m, Len(m.body)) \in Seq(Tokens)
        BY <4>2, ChunkSteps
      <4>4. Len(PayloadTo(m, Len(m.body))) \in Nat
        BY <4>3, LenProperties
      <4> QED  BY <3>2, <4>1, <4>3, <4>4
    <3>4. d.s = t /\ d.ret = "last" /\ x = Len(p)
      BY <2>4, <3>1, <3>3, DecodingIs DEF AfterRound
    <3>5. Len(p) <= c
      <4>1. PICK e : e = Len(ChunksTo(m, Len(m.body)))
        OBVIOUS
      <4>2. e <= c /\ Len(m.body) \in 0 .. Len(m.body) /\ Len(m.body) \in Nat
        BY <3>1, <4>1, ChunkSteps DEF AtChunk
      <4>3. e = Len(p) + 3 * Len(m.body)
        BY <3>3, <4>1, <4>2, ChunkLengths
      <4>4. PICK u : u = Len(p)
        OBVIOUS
      <4>5. PICK l : l = Len(m.body)
        OBVIOUS
      <4>6. u \in Nat /\ l \in Nat /\ e = u + 3 * l /\ e <= c
        BY <3>3, <4>2, <4>3, <4>4, <4>5
      <4>7. u <= c
        BY <1>8, <4>6
      <4> QED  BY <4>4, <4>7
    <3>6. SubSeq(t, 1, Len(p)) = p
      <4>1. t \in Seq(Tokens) /\ Len(p) <= Len(t) /\ Agree(t, p, 1, Len(p))
        BY <3>1, <3>3, <3>5 DEF AtChunk
      <4> QED  BY <3>3, <4>1, BeginsWith
    <3>7. o = SetReady(BodyOf(m, n, x, y), a, p)
      BY <2>7, <3>4, <3>6
    <3>8. CASE Len(p) >= BodyMax \/ p = <<>>
      <4>1. o.ret = "error"
        BY <3>7, <3>8, ReadyIs
      <4>2. ~IsAcceptable(m)
        <5> SUFFICES ASSUME IsAcceptable(m)  PROVE FALSE
          OBVIOUS
        <5>1. Len(Wire(m)) < BodyMax /\ p # <<>>
          BY <3>2, AcceptableIs
        <5> QED  BY <1>8, <1>9, <3>3, <3>5, <3>8, <5>1
      <4>3. ChunksMade(m, n, c, b, o)
        BY <4>1, <4>2 DEF ChunksMade
      <4> QED  BY <1>1, <1>2, <1>3, <1>5, <4>3
    <3>9. CASE ~(Len(p) >= BodyMax) /\ p # <<>>
      <4>1. o.ret = "ready" /\ Delivers(o.r, m)
        BY <3>2, <3>7, <3>9, ReadyIs
      <4>2. ChunksMade(m, n, c, b, o)
        BY <3>1, <4>1 DEF ChunksMade
      <4> QED  BY <1>1, <1>2, <1>3, <1>5, <4>2
    <3> QED  BY <3>8, <3>9
  <2> QED  BY <2>3, <2>9, <2>10, <2>11 DEF Ended
<1> QED  BY <1>10, <1>11

(***************************************************************************)
(* A message of which n tokens have arrived: what the request and the      *)
(* buffer hold before they are parsed, and after.                          *)
(***************************************************************************)
AtStart(m, n, r, b) ==
    /\ n \in 1 .. Len(Wire(m))
    /\ r.state \notin {"headers", "body"} /\ [r EXCEPT !.state = "start"] = StartOf(n)
    /\ Unread(b) = Sent(m, n)

Started(m, n, r, b) ==
    n \in 1 .. Len(Wire(m)) /\ r = StartOf(n) /\ Unread(b) = Sent(m, n)

InHeaders(m, n, r, b) ==
    /\ n \in 2 .. Len(Wire(m)) /\ r = HeadersOf(m, n)
    /\ Unread(b) = From(Sent(m, n), 2)

InLength(m, n, r, b) ==
    /\ n \in HeadEnd(m) .. Len(Wire(m)) /\ Accepted(m) /\ ~HasChunked(m.fields)
    /\ \E len : r = BodyOf(m, n, len, 0)
    /\ Unread(b) = From(Sent(m, n), HeadEnd(m))

InChunks(m, n, r, b) ==
    /\ n \in HeadEnd(m) .. Len(Wire(m)) /\ Accepted(m) /\ HasChunked(m.fields)
    /\ \E j : /\ AtChunk(m, Unread(b), n - HeadEnd(m), j)
              /\ r = BodyOf(m, n, Len(PayloadTo(m, j)), Len(ChunksTo(m, j)))

Arrived(m, n, r, b) ==
    \/ AtStart(m, n, r, b) \/ InHeaders(m, n, r, b)
    \/ InLength(m, n, r, b) \/ InChunks(m, n, r, b)

\* More of the message is to come.
Waiting(m, n, r, b) ==
    /\ n < Len(Wire(m))
    /\ \/ Started(m, n, r, b) \/ InHeaders(m, n, r, b)
       \/ InLength(m, n, r, b) \/ InChunks(m, n, r, b)

\* A request that can only be given up: it waits for header fields behind an empty
\* line, or for more bytes of a body than the code takes.
Hopeless(s, r, b) ==
    /\ IsRequest(r) /\ r.active = TRUE /\ r.ready = FALSE /\ r.received = Len(s)
    /\ \/ /\ r.state = "headers" /\ r.lineEnd = 2 /\ Len(s) >= 3 /\ s[3] = Crlf
          /\ Unread(b) = From(s, 2)
       \/ /\ r.state = "body" /\ r.chunked = FALSE /\ r.hasLength = TRUE
          /\ r.capacity \in Nat /\ r.capacity >= BodyMax
          /\ r.headerEnd = 2 * Len(r.headers) + 3 /\ r.headerEnd \in 0 .. Len(s)
          /\ Unread(b) = From(s, r.headerEnd)

\* What comes of it: an error or an overrun only if the message is not acceptable.
ParsedTo(m, n, b, o) ==
    \/ o.ret \in {"error", "overrun"} /\ ~IsAcceptable(m)
    \/ /\ o.ret = "more" /\ IsBuffer(o.b) /\ o.b.capacity = b.capacity
       /\ Waiting(m, n, o.r, o.b)
    \/ o.ret = "more" /\ IsBuffer(o.b) /\ Hopeless(Sent(m, n), o.r, o.b) /\ ~IsAcceptable(m)
    \/ /\ o.ret = "ready" /\ n >= Len(Wire(m)) - 1 /\ Delivers(o.r, m)
       /\ m.coding # "chunked" => n = Len(Wire(m))

LEMMA LengthArrived ==
  ASSUME NEW m, IsFramed(m), NEW n, NEW r, NEW b, IsBuffer(b), InLength(m, n, r, b)
  PROVE  ParsedTo(m, n, b, ParseBody(r, b))
<1>1. PICK len : r = BodyOf(m, n, len, 0)
  BY DEF InLength
<1>2. PICK o : o = ParseBody(r, b)
  OBVIOUS
<1>3. PICK q : q = BodyOf(m, n, n - HeadEnd(m), 0)
  OBVIOUS
<1>4. /\ n \in HeadEnd(m) .. Len(Wire(m)) /\ Accepted(m) /\ ~HasChunked(m.fields)
      /\ Unread(b) = From(Sent(m, n), HeadEnd(m))
  BY DEF InLength
<1>5. \/ o.ret = "error" /\ ~IsAcceptable(m)
      \/ /\ o.ret = "more" /\ o.r = q /\ o.b = b
         /\ LengthFields(m.fields) # {}
         /\ n < Len(Wire(m)) \/ (~IsAcceptable(m) /\ Claimed(m) >= BodyMax)
      \/ o.ret = "ready" /\ n = Len(Wire(m)) /\ Delivers(o.r, m)
  BY <1>1, <1>2, <1>3, <1>4, LengthParsed
<1>6. CASE o.ret = "error" /\ ~IsAcceptable(m)
  BY <1>2, <1>6 DEF ParsedTo
<1>7. CASE o.ret = "more" /\ o.r = q /\ o.b = b /\ n < Len(Wire(m))
  <2>1. InLength(m, n, o.r, o.b)
    BY <1>3, <1>4, <1>7 DEF InLength
  <2>2. Waiting(m, n, o.r, o.b)
    BY <1>7, <2>1 DEF Waiting
  <2> QED  BY <1>2, <1>7, <2>2 DEF ParsedTo
<1>8. CASE /\ o.ret = "more" /\ o.r = q /\ o.b = b /\ LengthFields(m.fields) # {}
           /\ ~IsAcceptable(m) /\ Claimed(m) >= BodyMax
  <2>1. IsRequest(q)
    BY <1>3, AreRequests
  <2>2. /\ q.active = TRUE /\ q.ready = FALSE /\ q.received = n
        /\ q.state = "body" /\ q.chunked = HasChunked(m.fields)
        /\ q.hasLength = (LengthFields(m.fields) # {}) /\ q.capacity = Claimed(m)
        /\ q.headerEnd = HeadEnd(m) /\ q.headers = m.fields
    BY <1>3 DEF BodyOf
  <2>3. n \in Nat /\ HeadEnd(m) \in 0 .. n /\ Len(Sent(m, n)) = n
    <3>1. HeadEnd(m) \in Nat /\ n \in Nat /\ Len(Wire(m)) \in Nat
      BY <1>4, BodyRead
    <3>2. n \in 0 .. Len(Wire(m)) /\ HeadEnd(m) \in 0 .. n
      BY <1>4, <3>1
    <3> QED  BY <3>1, <3>2, SentIs
  <2>4. Claimed(m) \in Nat
    <3>1. LengthFields(m.fields) # {} => LengthOf(m.fields) \in Nat
      BY <1>4 DEF IsFramed, Accepted
    <3> QED  BY <3>1 DEF Claimed
  <2>5. q.chunked = FALSE /\ q.hasLength = TRUE
    BY <1>4, <1>8, <2>2 DEF HasChunked
  <2>6. Unread(o.b) = From(Sent(m, n), q.headerEnd)
    BY <1>4, <1>8, <2>2
  <2>7. q.headerEnd = 2 * Len(q.headers) + 3
    BY <2>2 DEF HeadEnd
  <2>8. Hopeless(Sent(m, n), q, o.b)
    BY <1>8, <2>1, <2>2, <2>3, <2>4, <2>5, <2>6, <2>7 DEF Hopeless
  <2> QED  BY <1>2, <1>8, <2>8 DEF ParsedTo
<1>9. CASE o.ret = "ready" /\ n = Len(Wire(m)) /\ Delivers(o.r, m)
  <2>1. Len(Wire(m)) \in Nat
    BY <1>4, BodyRead
  <2>2. n >= Len(Wire(m)) - 1
    BY <1>9, <2>1
  <2> QED  BY <1>2, <1>9, <2>2 DEF ParsedTo
<1> QED  BY <1>5, <1>6, <1>7, <1>8, <1>9

LEMMA ChunksArrived ==
  ASSUME NEW m, IsFramed(m), NEW n, NEW r, NEW b, IsBuffer(b), InChunks(m, n, r, b)
  PROVE  ParsedTo(m, n, b, ParseBody(r, b))
<1>1. PICK j : /\ AtChunk(m, Unread(b), n - HeadEnd(m), j)
               /\ r = BodyOf(m, n, Len(PayloadTo(m, j)), Len(ChunksTo(m, j)))
  BY DEF InChunks
<1>2. PICK o : o = ParseBody(r, b)
  OBVIOUS
<1>3. PICK c : c = n - HeadEnd(m)
  OBVIOUS
<1>4. n \in HeadEnd(m) .. Len(Wire(m)) /\ Accepted(m) /\ HasChunked(m.fields)
  BY DEF InChunks
<1>5. ChunksMade(m, n, c, b, o)
  BY <1>1, <1>2, <1>3, <1>4, ChunksParsed
<1>6. CASE o.ret = "error" /\ ~IsAcceptable(m)
  BY <1>2, <1>6 DEF ParsedTo
<1>7. CASE /\ o.ret = "more" /\ n < Len(Wire(m)) /\ IsBuffer(o.b)
           /\ o.b.capacity = b.capacity
           /\ \E i : /\ AtChunk(m, Unread(o.b), c, i)
                     /\ o.r = BodyOf(m, n, Len(PayloadTo(m, i)), Len(ChunksTo(m, i)))
  <2>1. InChunks(m, n, o.r, o.b)
    BY <1>3, <1>4, <1>7 DEF InChunks
  <2>2. Waiting(m, n, o.r, o.b)
    BY <1>7, <2>1 DEF Waiting
  <2> QED  BY <1>2, <1>7, <2>2 DEF ParsedTo
<1>8. CASE o.ret = "ready" /\ n >= Len(Wire(m)) - 1 /\ Delivers(o.r, m)
  <2>1. m.coding = "chunked"
    BY <1>4 DEF IsFramed, Accepted
  <2> QED  BY <1>2, <1>8, <2>1 DEF ParsedTo
<1> QED  BY <1>5, <1>6, <1>7, <1>8 DEF ChunksMade

LEMMA SameCapacity ==
  ASSUME NEW m, NEW n, NEW a, NEW b, a.capacity = b.capacity, NEW o, ParsedTo(m, n, a, o)
  PROVE  ParsedTo(m, n, b, o)
BY DEF ParsedTo

\* The header fields are taken, and nothing of the body is parsed.
LEMMA BodyBegins ==
  ASSUME NEW m, IsFramed(m), NEW n \in HeadEnd(m) .. Len(Wire(m)), Accepted(m),
         NEW r, r = BodyOf(m, n, 0, 0),
         NEW b, IsBuffer(b), Unread(b) = From(Sent(m, n), HeadEnd(m))
  PROVE  ParsedTo(m, n, b, ParseBody(r, b))
<1>1. CASE ~HasChunked(m.fields)
  <2>1. InLength(m, n, r, b)
    BY <1>1 DEF InLength
  <2> QED  BY <2>1, LengthArrived
<1>2. CASE HasChunked(m.fields)
  <2>1. PICK e : e = From(Sent(m, n), HeadEnd(m))
    OBVIOUS
  <2>2. PICK c : c = n - HeadEnd(m)
    OBVIOUS
  <2>3. /\ HeadEnd(m) \in Nat /\ n \in Nat /\ e \in Seq(Tokens) /\ Len(e) = c
        /\ \A x \in 1 .. c : e[x] = BodyOnWire(m)[x]
    BY <2>1, <2>2, BodyRead
  <2>4. c \in Nat
    BY <2>2, <2>3
  <2>5. Len(m.body) \in Nat /\ PayloadTo(m, 0) = <<>> /\ ChunksTo(m, 0) = <<>>
    BY ChunkSteps
  <2>6. Len(PayloadTo(m, 0)) = 0 /\ Len(ChunksTo(m, 0)) = 0
    BY <2>5
  <2>7. Agree(e, BodyOnWire(m), Len(ChunksTo(m, 0)) + 1, c)
    BY <2>3, <2>6 DEF Agree
  <2>8. Agree(e, PayloadTo(m, 0), 1, Len(PayloadTo(m, 0)))
    BY <2>6 DEF Agree
  <2>9. AtChunk(m, e, c, 0)
    BY <2>3, <2>4, <2>5, <2>6, <2>7, <2>8 DEF AtChunk
  <2>10. AtChunk(m, Unread(b), n - HeadEnd(m), 0)
    BY <2>1, <2>2, <2>9
  <2>11. r = BodyOf(m, n, Len(PayloadTo(m, 0)), Len(ChunksTo(m, 0)))
    BY <2>6
  <2>12. InChunks(m, n, r, b)
    BY <1>2, <2>10, <2>11 DEF InChunks
  <2> QED  BY <2>12, ChunksArrived
<1> QED  BY <1>1, <1>2

LEMMA HeadersArrived ==
  ASSUME NEW m, IsFramed(m), NEW n, NEW r, NEW b, IsBuffer(b), InHeaders(m, n, r, b)
  PROVE  ParsedTo(m, n, b, BodyAfter(ParseHeaders(r, b)))
<1>1. PICK o : o = ParseHeaders(r, b)
  OBVIOUS
<1>2. PICK h : h = HeadersOf(m, n)
  OBVIOUS
<1>3. n \in 2 .. Len(Wire(m)) /\ r = h /\ Unread(b) = From(Sent(m, n), 2)
  BY <1>2 DEF InHeaders
<1>4. Len(Wire(m)) \in Nat /\ n \in Nat /\ HeadEnd(m) \in Nat /\ HeadEnd(m) <= Len(Wire(m))
  <2>1. /\ Len(m.fields) \in Nat /\ Len(BodyOnWire(m)) \in Nat
        /\ Len(Wire(m)) = HeadEnd(m) + Len(BodyOnWire(m))
    BY WireShape
  <2>2. HeadEnd(m) \in Nat
    BY <2>1 DEF HeadEnd
  <2> QED  BY <1>3, <2>1, <2>2
<1>5. \/ o.ret \in {"error", "overrun"} /\ ~IsAcceptable(m)
      \/ o.ret = "more" /\ o.r = h /\ o.b = b /\ n < HeadEnd(m)
      \/ /\ o.ret = "more" /\ o.r = h /\ o.b = b
         /\ n >= 3 /\ Sent(m, n)[3] = Crlf /\ ~IsAcceptable(m)
      \/ /\ o.ret = "next" /\ o.r = BodyOf(m, n, 0, 0) /\ n >= HeadEnd(m)
         /\ Accepted(m)
         /\ IsBuffer(o.b) /\ o.b.capacity = b.capacity
         /\ Unread(o.b) = From(Sent(m, n), HeadEnd(m))
  BY <1>1, <1>2, <1>3, HeadersParsed
<1>6. CASE o.ret \in {"error", "overrun"} /\ ~IsAcceptable(m)
  <2>1. BodyAfter(o) = o
    BY <1>6 DEF BodyAfter
  <2> QED  BY <1>1, <1>6, <2>1 DEF ParsedTo
<1>7. CASE o.ret = "more" /\ o.r = h /\ o.b = b /\ n < HeadEnd(m)
  <2>1. BodyAfter(o) = o
    BY <1>7 DEF BodyAfter
  <2>2. InHeaders(m, n, o.r, o.b) /\ n < Len(Wire(m))
    BY <1>2, <1>3, <1>4, <1>7 DEF InHeaders
  <2>3. Waiting(m, n, o.r, o.b)
    BY <2>2 DEF Waiting
  <2>4. ParsedTo(m, n, b, o)
    BY <1>7, <2>3 DEF ParsedTo
  <2> QED  BY <1>1, <2>1, <2>4
<1>8. CASE /\ o.ret = "more" /\ o.r = h /\ o.b = b
           /\ n >= 3 /\ Sent(m, n)[3] = Crlf /\ ~IsAcceptable(m)
  <2>1. BodyAfter(o) = o
    BY <1>8 DEF BodyAfter
  <2>2. IsRequest(h)
    BY <1>2, AreRequests
  <2>3. /\ h.active = TRUE /\ h.ready = FALSE /\ h.received = n
        /\ h.state = "headers" /\ h.lineEnd = 2
    BY <1>2 DEF HeadersOf
  <2>4. Len(Sent(m, n)) = n
    <3>1. n \in 0 .. Len(Wire(m))
      BY <1>3, <1>4
    <3> QED  BY <3>1, SentIs
  <2>5. Hopeless(Sent(m, n), o.r, o.b)
    BY <1>3, <1>8, <2>2, <2>3, <2>4 DEF Hopeless
  <2>6. ParsedTo(m, n, b, o)
    BY <1>8, <2>5 DEF ParsedTo
  <2> QED  BY <1>1, <2>1, <2>6
<1>9. CASE /\ o.ret = "next" /\ o.r = BodyOf(m, n, 0, 0) /\ n >= HeadEnd(m)
           /\ Accepted(m)
           /\ IsBuffer(o.b) /\ o.b.capacity = b.capacity
           /\ Unread(o.b) = From(Sent(m, n), HeadEnd(m))
  <2>1. BodyAfter(o) = ParseBody(o.r, o.b)
    BY <1>9 DEF BodyAfter
  <2>2. n \in HeadEnd(m) .. Len(Wire(m))
    BY <1>3, <1>4, <1>9
  <2>3. ParsedTo(m, n, o.b, ParseBody(o.r, o.b))
    BY <1>9, <2>2, BodyBegins
  <2>4. ParsedTo(m, n, b, ParseBody(o.r, o.b))
    BY <1>9, <2>3, SameCapacity
  <2> QED  BY <1>1, <2>1, <2>4
<1> QED  BY <1>5, <1>6, <1>7, <1>8, <1>9

LEMMA StartArrived ==
  ASSUME NEW m, IsFramed(m), NEW n, NEW r, r = StartOf(n), NEW b, IsBuffer(b),
         n \in 1 .. Len(Wire(m)), Unread(b) = Sent(m, n)
  PROVE  ParsedTo(m, n, b, BodyAfter(HeadersAfter(ParseStartLine(r, b))))
<1>1. PICK o : o = ParseStartLine(r, b)
  OBVIOUS
<1>2. \/ o.ret = "error" /\ ~IsAcceptable(m)
      \/ o.ret = "more" /\ o.r = StartOf(n) /\ o.b = b /\ n = 1
      \/ /\ o.ret = "next" /\ o.r = HeadersOf(m, n) /\ n >= 2 /\ IsStartLine(m.line)
         /\ IsBuffer(o.b) /\ o.b.capacity = b.capacity
         /\ Unread(o.b) = From(Sent(m, n), 2)
  BY <1>1, LineParsed
<1>3. Len(Wire(m)) \in Nat /\ n \in Nat /\ 1 < Len(Wire(m))
  <2>1. /\ Len(m.fields) \in Nat /\ Len(BodyOnWire(m)) \in Nat
        /\ Len(Wire(m)) = HeadEnd(m) + Len(BodyOnWire(m))
    BY WireShape
  <2> QED  BY <2>1 DEF HeadEnd
<1>4. CASE o.ret = "error" /\ ~IsAcceptable(m)
  <2>1. HeadersAfter(o) = o /\ BodyAfter(o) = o
    BY <1>4 DEF HeadersAfter, BodyAfter
  <2> QED  BY <1>1, <1>4, <2>1 DEF ParsedTo
<1>5. CASE o.ret = "more" /\ o.r = StartOf(n) /\ o.b = b /\ n = 1
  <2>1. HeadersAfter(o) = o /\ BodyAfter(o) = o
    BY <1>5 DEF HeadersAfter, BodyAfter
  <2>5. Started(m, n, o.r, o.b) /\ n < Len(Wire(m))
    BY <1>3, <1>5 DEF Started
  <2>6. Waiting(m, n, o.r, o.b)
    BY <2>5 DEF Waiting
  <2>7. ParsedTo(m, n, b, o)
    BY <1>5, <2>6 DEF ParsedTo
  <2> QED  BY <1>1, <2>1, <2>7
<1>6. CASE /\ o.ret = "next" /\ o.r = HeadersOf(m, n) /\ n >= 2
           /\ IsBuffer(o.b) /\ o.b.capacity = b.capacity
           /\ Unread(o.b) = From(Sent(m, n), 2)
  <2>1. o.r.state = "headers"
    BY <1>6 DEF HeadersOf
  <2>2. HeadersAfter(o) = ParseHeaders(o.r, o.b)
    BY <1>6, <2>1 DEF HeadersAfter
  <2>3. InHeaders(m, n, o.r, o.b)
    BY <1>3, <1>6 DEF InHeaders
  <2>4. ParsedTo(m, n, o.b, BodyAfter(ParseHeaders(o.r, o.b)))
    BY <1>6, <2>3, HeadersArrived
  <2>5. ParsedTo(m, n, b, BodyAfter(ParseHeaders(o.r, o.b)))
    BY <1>6, <2>4, SameCapacity
  <2> QED  BY <1>1, <2>2, <2>5
<1> QED  BY <1>2, <1>4, <1>5, <1>6

\* From the state reached, the parser goes as far as the tokens allow.
LEMMA ArrivedParsed ==
  ASSUME NEW m, IsFramed(m), NEW n, NEW r, NEW b, IsBuffer(b), Arrived(m, n, r, b)
  PROVE  ParsedTo(m, n, b, Parse(r, b))
<1>1. CASE AtStart(m, n, r, b)
  <2>1. PICK q : q = StartOf(n)
    OBVIOUS
  <2>2. /\ r.state \notin {"headers", "body"} /\ [r EXCEPT !.state = "start"] = q
        /\ n \in 1 .. Len(Wire(m)) /\ Unread(b) = Sent(m, n)
    BY <1>1, <2>1 DEF AtStart
  <2>3. Parse(r, b) = BodyAfter(HeadersAfter(ParseStartLine(q, b)))
    BY <2>2 DEF Parse
  <2>4. ParsedTo(m, n, b, BodyAfter(HeadersAfter(ParseStartLine(q, b))))
    BY <2>1, <2>2, StartArrived
  <2> QED  BY <2>3, <2>4
<1>2. CASE InHeaders(m, n, r, b)
  <2>1. r.state = "headers"
    BY <1>2 DEF InHeaders, HeadersOf
  <2>2. PICK o : o = Outcome("next", r, b)
    OBVIOUS
  <2>3. o.ret = "next" /\ o.r = r /\ o.b = b
    BY <2>2, OutcomeIs
  <2>4. HeadersAfter(o) = ParseHeaders(r, b)
    BY <2>1, <2>3 DEF HeadersAfter
  <2>5. Parse(r, b) = BodyAfter(HeadersAfter(o))
    BY <2>1, <2>2 DEF Parse
  <2>6. ParsedTo(m, n, b, BodyAfter(ParseHeaders(r, b)))
    BY <1>2, HeadersArrived
  <2> QED  BY <2>4, <2>5, <2>6
<1>3. CASE InLength(m, n, r, b) \/ InChunks(m, n, r, b)
  <2>1. r.state = "body"
    BY <1>3 DEF InLength, InChunks, BodyOf
  <2>2. PICK o : o = Outcome("next", r, b)
    OBVIOUS
  <2>3. o.ret = "next" /\ o.r = r /\ o.b = b
    BY <2>2, OutcomeIs
  <2>4. BodyAfter(HeadersAfter(o)) = ParseBody(r, b)
    BY <2>1, <2>3 DEF HeadersAfter, BodyAfter
  <2>5. Parse(r, b) = BodyAfter(HeadersAfter(o))
    BY <2>1, <2>2 DEF Parse
  <2>6. ParsedTo(m, n, b, ParseBody(r, b))
    BY <1>3, LengthArrived, ChunksArrived
  <2> QED  BY <2>4, <2>5, <2>6
<1> QED  BY <1>1, <1>2, <1>3 DEF Arrived

\* The next k tokens of a message, behind the first n of it.
Following(m, n, k) == SubSeq(SubSeq(Wire(m), n + 1, Len(Wire(m))), 1, k)

FollowsOn(m, n, k, p) ==
    /\ p \in Seq(Tokens) /\ Len(p) = k
    /\ Sent(m, n) \o p = Sent(m, n + k)
    /\ \A i \in 0 .. n : From(Sent(m, n), i) \o p = From(Sent(m, n + k), i)
    /\ \A i \in 1 .. k : p[i] = Wire(m)[n + i]

LEMMA FollowingIs ==
  ASSUME NEW m, IsFramed(m), NEW n \in 0 .. Len(Wire(m)), NEW k \in 0 .. Len(Wire(m)) - n
  PROVE  FollowsOn(m, n, k, Following(m, n, k))
<1>1. PICK w : w = Wire(m)
  OBVIOUS
<1>2. PICK rest : rest = SubSeq(w, n + 1, Len(w))
  OBVIOUS
<1>3. PICK p : p = SubSeq(rest, 1, k)
  OBVIOUS
<1>4. w \in Seq(Tokens) /\ Len(w) \in Nat /\ n \in 0 .. Len(w) /\ k \in 0 .. Len(w) - n
  BY <1>1, WireShape, LenProperties
<1>5. /\ rest \in Seq(Tokens) /\ Len(rest) = Len(w) - n
      /\ \A i \in 1 .. Len(w) - n : rest[i] = w[n + i]
  BY <1>2, <1>4, Ending
<1>6. /\ p \in Seq(Tokens) /\ Len(p) = k /\ \A i \in 1 .. k : p[i] = rest[i]
  <2>1. k \in 0 .. Len(rest)
    BY <1>4, <1>5
  <2> QED  BY <1>3, <1>5, <2>1, Beginning
<1>7. \A i \in 1 .. k : p[i] = w[n + i]
  <2>1. \A i \in 1 .. k : i \in 1 .. Len(w) - n
    BY <1>4
  <2> QED  BY <1>5, <1>6, <2>1
<1>8. Sent(m, n) \o p = Sent(m, n + k)
  <2>1. SubSeq(w, 1, n) \o SubSeq(rest, 1, k) = SubSeq(w, 1, n + k)
    BY <1>2, <1>4, PieceOf
  <2> QED  BY <1>1, <1>3, <2>1 DEF Sent
<1>9. ASSUME NEW i \in 0 .. n  PROVE From(Sent(m, n), i) \o p = From(Sent(m, n + k), i)
  <2>1. PICK s : s = Sent(m, n)
    OBVIOUS
  <2>2. s \in Seq(Tokens) /\ Len(s) = n
    BY <2>1, SentIs
  <2>3. i \in 0 .. Len(s)
    BY <2>2
  <2>4. SubSeq(s \o p, i + 1, Len(s \o p)) = SubSeq(s, i + 1, Len(s)) \o p
    BY <1>6, <2>2, <2>3, EndOfJoined
  <2> QED  BY <1>8, <2>1, <2>4 DEF From
<1>10. p = Following(m, n, k)
  BY <1>1, <1>2, <1>3 DEF Following
<1>11. FollowsOn(m, n, k, p)
  BY <1>1, <1>6, <1>7, <1>8, <1>9 DEF FollowsOn
<1> QED  BY <1>10, <1>11

IsSum(n, h, c) == n \in Nat /\ h \in Nat /\ c \in Nat /\ n = h + c

\* What arrives of the chunks is put behind those that are decoded.
LEMMA ChunksFollow ==
  ASSUME NEW m, IsFramed(m), NEW n \in HeadEnd(m) .. Len(Wire(m)),
         NEW k \in 0 .. Len(Wire(m)) - n, NEW c, IsSum(n, HeadEnd(m), c),
         NEW s, NEW j, AtChunk(m, s, c, j), NEW p, FollowsOn(m, n, k, p)
  PROVE  AtChunk(m, s \o p, c + k, j)
<1>1. PICK t : t = s \o p
  OBVIOUS
<1>2. PICK B : B = BodyOnWire(m)
  OBVIOUS
<1>3. PICK d : d = Len(ChunksTo(m, j))
  OBVIOUS
<1>4. PICK q : q = PayloadTo(m, j)
  OBVIOUS
<1>5. /\ s \in Seq(Tokens) /\ Len(s) = c /\ j \in 0 .. Len(m.body) /\ d <= c
      /\ \A x \in d + 1 .. c : s[x] = B[x]
      /\ \A x \in 1 .. Len(q) : s[x] = q[x]
  BY <1>2, <1>3, <1>4 DEF AtChunk, Agree
<1>6. d \in Nat /\ Len(q) \in Nat /\ Len(q) <= d
  <2>1. Len(ChunksTo(m, j)) = Len(PayloadTo(m, j)) + 3 * j
    BY <1>5, ChunkLengths
  <2>2. Len(PayloadTo(m, j)) \in Nat /\ Len(ChunksTo(m, j)) \in Nat
    BY <1>5, ChunkSteps
  <2>3. PICK l : l = Len(q)
    OBVIOUS
  <2>4. j \in Nat
    BY <1>5
  <2>5. l \in Nat /\ d \in Nat /\ d = l + 3 * j
    BY <1>3, <1>4, <2>1, <2>2, <2>3
  <2>6. l <= d
    BY <2>4, <2>5
  <2> QED  BY <2>3, <2>5, <2>6
<1>7. p \in Seq(Tokens) /\ Len(p) = k /\ \A i \in 1 .. k : p[i] = Wire(m)[n + i]
  BY DEF FollowsOn
<1>8. /\ HeadEnd(m) \in Nat /\ n \in Nat /\ k \in Nat /\ c \in Nat
      /\ n = HeadEnd(m) + c /\ c + k <= Len(B)
      /\ Len(B) \in Nat
      /\ \A i \in 1 .. Len(B) : Wire(m)[HeadEnd(m) + i] = B[i]
  <2>1. HeadEnd(m) \in Nat /\ n \in Nat /\ c \in Nat /\ n = HeadEnd(m) + c
    BY DEF IsSum
  <2>2. /\ Len(B) \in Nat /\ Len(Wire(m)) = HeadEnd(m) + Len(B)
        /\ \A i \in 1 .. Len(B) : Wire(m)[HeadEnd(m) + i] = B[i]
    BY <1>2, WireShape
  <2>3. k \in Nat /\ c + k <= Len(B)
    <3>1. PICK h, l, w : h = HeadEnd(m) /\ l = Len(B) /\ w = Len(Wire(m))
      OBVIOUS
    <3>2. /\ h \in Nat /\ n \in Nat /\ c \in Nat /\ n = h + c
          /\ l \in Nat /\ w = h + l /\ k \in 0 .. w - n
      BY <2>1, <2>2, <3>1
    <3>3. k \in Nat /\ c + k <= l
      BY ONLY <3>2
    <3> QED  BY <3>1, <3>3
  <2> QED  BY <2>1, <2>2, <2>3
<1>9. /\ t \in Seq(Tokens) /\ Len(t) = c + k
      /\ \A i \in 1 .. c : t[i] = s[i]
      /\ \A i \in 1 .. k : t[c + i] = p[i]
  <2>1. /\ t \in Seq(Tokens) /\ Len(t) = Len(s) + Len(p)
        /\ \A i \in 1 .. Len(s) : t[i] = s[i]
        /\ \A i \in 1 .. Len(p) : t[Len(s) + i] = p[i]
    <3>1. s \in Seq(Tokens) /\ p \in Seq(Tokens) /\ t = s \o p
      BY <1>1, <1>5, <1>7
    <3> QED  BY <3>1, Joined
  <2> QED  BY <2>1, <1>5, <1>7
<1>10. ASSUME NEW i \in 1 .. k  PROVE t[c + i] = B[c + i]
  <2>1. t[c + i] = Wire(m)[n + i]
    BY <1>7, <1>9
  <2>2. n + i = HeadEnd(m) + (c + i) /\ c + i \in 1 .. Len(B)
    <3>1. PICK h : h = HeadEnd(m)
      OBVIOUS
    <3>2. PICK l : l = Len(B)
      OBVIOUS
    <3>3. h \in Nat /\ n \in Nat /\ k \in Nat /\ c \in Nat /\ n = h + c
          /\ l \in Nat /\ c + k <= l
      BY <1>8, <3>1, <3>2
    <3>4. n + i = h + (c + i) /\ c + i \in 1 .. l
      BY <3>3
    <3> QED  BY <3>1, <3>2, <3>4
  <2>3. Wire(m)[HeadEnd(m) + (c + i)] = B[c + i]
    BY <1>8, <2>2
  <2> QED  BY <2>1, <2>2, <2>3
<1>11. ASSUME NEW x \in d + 1 .. c + k  PROVE t[x] = B[x]
  <2>1. CASE x <= c
    <3>1. x \in d + 1 .. c /\ x \in 1 .. c
      BY <1>6, <1>8, <2>1
    <3> QED  BY <1>5, <1>9, <3>1
  <2>2. CASE x > c
    <3>1. PICK i : i = x - c
      OBVIOUS
    <3>2. i \in 1 .. k /\ x = c + i
      <4>1. x \in Nat /\ x <= c + k
        BY <1>6, <1>8
      <4>2. c \in Nat /\ k \in Nat
        BY <1>8
      <4> QED  BY <2>2, <3>1, <4>1, <4>2
    <3>3. t[c + i] = B[c + i]
      BY <1>10, <3>2
    <3> QED  BY <3>2, <3>3
  <2> QED  BY <1>6, <1>8, <2>1, <2>2
<1>12. ASSUME NEW x \in 1 .. Len(q)  PROVE t[x] = q[x]
  <2>1. x \in 1 .. c
    BY <1>5, <1>6, <1>8
  <2> QED  BY <1>5, <1>9, <2>1
<1>13. AtChunk(m, t, c + k, j)
  <2>1. d <= c + k
    <3>1. d \in Nat /\ c \in Nat /\ k \in Nat /\ d <= c
      BY <1>5, <1>6, <1>8
    <3> QED  BY ONLY <3>1
  <2>2. Agree(t, B, d + 1, c + k) /\ Agree(t, q, 1, Len(q))
    BY <1>11, <1>12 DEF Agree
  <2> QED  BY <1>2, <1>3, <1>4, <1>5, <1>9, <2>1, <2>2 DEF AtChunk
<1> QED  BY <1>1, <1>13

\* A request that waits is open, and what arrives is put behind what has arrived.
LEMMA Advanced ==
  ASSUME NEW m, IsFramed(m), NEW n \in 0 .. Len(Wire(m)), NEW r, NEW b, IsBuffer(b),
         Waiting(m, n, r, b), NEW k \in 0 .. Len(Wire(m)) - n, NEW p, FollowsOn(m, n, k, p),
         NEW a, Unread(a) = Unread(b) \o p
  PROVE  r.active = TRUE /\ Arrived(m, n + k, Counted(r, k), a)
<1>1. n \in Nat /\ k \in Nat /\ n + k \in 0 .. Len(Wire(m)) /\ Len(Wire(m)) \in Nat
  <2>1. Wire(m) \in Seq(Tokens)
    BY WireShape
  <2>2. Len(Wire(m)) \in Nat
    BY <2>1, LenProperties
  <2> QED  BY <2>2
<1>2. PICK c : c = Counted(r, k)
  OBVIOUS
<1>3. CASE Started(m, n, r, b)
  <2>1. n \in 1 .. Len(Wire(m)) /\ r = StartOf(n) /\ Unread(b) = Sent(m, n)
    BY <1>3 DEF Started
  <2>2. IsRequest(r) /\ r.state = "start" /\ r.active = TRUE
    <3>1. IsRequest(r)
      BY <2>1, AreRequests
    <3> QED  BY <2>1, <3>1 DEF StartOf
  <2>3. c.state = "start"
    BY <1>2, <2>2, CountedHas
  <2>4. [c EXCEPT !.state = "start"] = StartOf(n + k)
    BY <1>1, <1>2, <2>1, CountedStart
  <2>5. Unread(a) = Sent(m, n + k)
    BY <2>1 DEF FollowsOn
  <2>6. n + k \in 1 .. Len(Wire(m))
    BY <1>1, <2>1
  <2>7. AtStart(m, n + k, c, a)
    BY <2>3, <2>4, <2>5, <2>6 DEF AtStart
  <2> QED  BY <1>2, <2>2, <2>7 DEF Arrived
<1>4. CASE InHeaders(m, n, r, b)
  <2>1. n \in 2 .. Len(Wire(m)) /\ r = HeadersOf(m, n) /\ Unread(b) = From(Sent(m, n), 2)
    BY <1>4 DEF InHeaders
  <2>2. r.active = TRUE
    BY <2>1 DEF HeadersOf
  <2>3. c = HeadersOf(m, n + k)
    BY <1>1, <1>2, <2>1, CountedHeaders
  <2>4. Unread(a) = From(Sent(m, n + k), 2)
    <3>1. 2 \in 0 .. n
      BY <1>1, <2>1
    <3> QED  BY <2>1, <3>1 DEF FollowsOn
  <2>5. n + k \in 2 .. Len(Wire(m))
    BY <1>1, <2>1
  <2>6. InHeaders(m, n + k, c, a)
    BY <2>3, <2>4, <2>5 DEF InHeaders
  <2> QED  BY <1>2, <2>2, <2>6 DEF Arrived
<1>5. ASSUME n \in HeadEnd(m) .. Len(Wire(m))
      PROVE  /\ n + k \in HeadEnd(m) .. Len(Wire(m)) /\ HeadEnd(m) \in 0 .. n
             /\ HeadEnd(m) \in Nat
  <2>1. HeadEnd(m) \in Nat
    BY <1>5, BodyRead
  <2> QED  BY <1>1, <1>5, <2>1
<1>6. CASE InLength(m, n, r, b)
  <2>1. /\ n \in HeadEnd(m) .. Len(Wire(m)) /\ Accepted(m) /\ ~HasChunked(m.fields)
        /\ Unread(b) = From(Sent(m, n), HeadEnd(m))
    BY <1>6 DEF InLength
  <2>2. PICK len : r = BodyOf(m, n, len, 0)
    BY <1>6 DEF InLength
  <2>3. r.active = TRUE
    BY <2>2 DEF BodyOf
  <2>4. c = BodyOf(m, n + k, len, 0)
    <3>1. PICK zero : zero = 0
      OBVIOUS
    <3>2. n \in Nat /\ k \in Nat
      BY <1>1
    <3>3. CountsBody(m, n, k, len, zero)
      BY <3>2, CountedBody
    <3> QED  BY <1>2, <2>2, <3>1, <3>3 DEF CountsBody
  <2>5. Unread(a) = From(Sent(m, n + k), HeadEnd(m))
    BY <1>5, <2>1 DEF FollowsOn
  <2>6. InLength(m, n + k, c, a)
    BY <1>5, <2>1, <2>4, <2>5 DEF InLength
  <2> QED  BY <1>2, <2>3, <2>6 DEF Arrived
<1>7. CASE InChunks(m, n, r, b)
  <2>1. n \in HeadEnd(m) .. Len(Wire(m)) /\ Accepted(m) /\ HasChunked(m.fields)
    BY <1>7 DEF InChunks
  <2>2. PICK j : /\ AtChunk(m, Unread(b), n - HeadEnd(m), j)
                 /\ r = BodyOf(m, n, Len(PayloadTo(m, j)), Len(ChunksTo(m, j)))
    BY <1>7 DEF InChunks
  <2>3. r.active = TRUE
    BY <2>2 DEF BodyOf
  <2>4. c = BodyOf(m, n + k, Len(PayloadTo(m, j)), Len(ChunksTo(m, j)))
    <3>1. PICK x : x = Len(PayloadTo(m, j))
      OBVIOUS
    <3>2. PICK y : y = Len(ChunksTo(m, j))
      OBVIOUS
    <3>3. n \in Nat /\ k \in Nat
      BY <1>1
    <3>4. CountsBody(m, n, k, x, y)
      BY <3>3, CountedBody
    <3> QED  BY <1>2, <2>2, <3>1, <3>2, <3>4 DEF CountsBody
  <2>5. PICK g : g = n - HeadEnd(m)
    OBVIOUS
  <2>6. AtChunk(m, Unread(b) \o p, g + k, j)
    <3>1. IsSum(n, HeadEnd(m), g)
      BY <1>1, <1>5, <2>1, <2>5 DEF IsSum
    <3> QED  BY <2>1, <2>2, <2>5, <3>1, ChunksFollow
  <2>7. n + k - HeadEnd(m) = g + k
    BY <1>1, <1>5, <2>1, <2>5
  <2>8. InChunks(m, n + k, c, a)
    BY <1>5, <2>1, <2>4, <2>6, <2>7 DEF InChunks
  <2> QED  BY <1>2, <2>3, <2>8 DEF Arrived
<1> QED  BY <1>3, <1>4, <1>6, <1>7 DEF Waiting

\* What arrives for a request that can only be given up.
LEMMA HopelessAdvanced ==
  ASSUME NEW s \in Seq(Tokens), NEW r, NEW b, IsBuffer(b), Hopeless(s, r, b),
         NEW p \in Seq(Tokens), NEW a, Unread(a) = Unread(b) \o p
  PROVE  r.active = TRUE /\ Hopeless(s \o p, Counted(r, Len(p)), a)
<1>1. PICK t : t = s \o p
  OBVIOUS
<1>2. PICK c : c = Counted(r, Len(p))
  OBVIOUS
<1>3. /\ IsRequest(r) /\ r.active = TRUE /\ r.ready = FALSE /\ r.received = Len(s)
      /\ \/ /\ r.state = "headers" /\ r.lineEnd = 2 /\ Len(s) >= 3 /\ s[3] = Crlf
            /\ Unread(b) = From(s, 2)
         \/ /\ r.state = "body" /\ r.chunked = FALSE /\ r.hasLength = TRUE
            /\ r.capacity \in Nat /\ r.capacity >= BodyMax
            /\ r.headerEnd = 2 * Len(r.headers) + 3 /\ r.headerEnd \in 0 .. Len(s)
            /\ Unread(b) = From(s, r.headerEnd)
  BY DEF Hopeless
<1>4. /\ Len(s) \in Nat /\ Len(p) \in Nat /\ Len(t) = Len(s) + Len(p)
      /\ \A i \in 1 .. Len(s) : t[i] = s[i]
  <2>1. /\ t \in Seq(Tokens) /\ Len(t) \in Nat /\ Len(s) \in Nat /\ Len(p) \in Nat
        /\ Len(t) = Len(s) + Len(p)
        /\ \A i \in 1 .. Len(s) : t[i] = s[i]
        /\ \A i \in 1 .. Len(p) : t[Len(s) + i] = p[i]
    BY <1>1, Joined
  <2> QED  BY <2>1
<1>5. /\ IsRequest(c) /\ c.received = r.received + Len(p)
      /\ c.state = r.state /\ c.ready = r.ready /\ c.active = r.active
      /\ c.lineEnd = r.lineEnd /\ c.headerEnd = r.headerEnd /\ c.chunked = r.chunked
      /\ c.hasLength = r.hasLength /\ c.capacity = r.capacity /\ c.headers = r.headers
  BY <1>2, <1>3, CountedHas
<1>6. ASSUME NEW i \in 0 .. Len(s), Unread(b) = From(s, i)
      PROVE  Unread(a) = From(t, i)
  <2>1. SubSeq(s \o p, i + 1, Len(s \o p)) = SubSeq(s, i + 1, Len(s)) \o p
    BY <1>6, EndOfJoined
  <2> QED  BY <1>1, <1>6, <2>1 DEF From
<1>7. c.received = Len(t)
  BY <1>3, <1>4, <1>5
<1>8. CASE /\ r.state = "headers" /\ r.lineEnd = 2 /\ Len(s) >= 3 /\ s[3] = Crlf
           /\ Unread(b) = From(s, 2)
  <2>1. 2 \in 0 .. Len(s) /\ 3 \in 1 .. Len(s) /\ Len(t) >= 3
    BY <1>4, <1>8
  <2>2. t[3] = Crlf /\ Unread(a) = From(t, 2)
    BY <1>4, <1>6, <1>8, <2>1
  <2>3. Hopeless(t, c, a)
    BY <1>3, <1>5, <1>7, <1>8, <2>1, <2>2 DEF Hopeless
  <2> QED  BY <1>1, <1>2, <1>3, <2>3
<1>9. CASE /\ r.state = "body" /\ r.chunked = FALSE /\ r.hasLength = TRUE
           /\ r.capacity \in Nat /\ r.capacity >= BodyMax
           /\ r.headerEnd = 2 * Len(r.headers) + 3 /\ r.headerEnd \in 0 .. Len(s)
           /\ Unread(b) = From(s, r.headerEnd)
  <2>1. Unread(a) = From(t, c.headerEnd)
    BY <1>5, <1>6, <1>9
  <2>2. c.headerEnd \in 0 .. Len(t) /\ c.headerEnd = 2 * Len(c.headers) + 3
    BY <1>4, <1>5, <1>9
  <2>3. Hopeless(t, c, a)
    BY <1>3, <1>5, <1>7, <1>9, <2>1, <2>2 DEF Hopeless
  <2> QED  BY <1>1, <1>2, <1>3, <2>3
<1> QED  BY <1>3, <1>8, <1>9

GivenUp(s, o) ==
    \/ o.ret = "error"
    \/ /\ o.ret = "more" /\ IsBuffer(o.b)
       /\ s \in Seq(Tokens) /\ Hopeless(s, o.r, o.b)

LEMMA HopelessParsed ==
  ASSUME NEW s \in Seq(Tokens), NEW r, NEW b, IsBuffer(b), Hopeless(s, r, b)
  PROVE  GivenUp(s, Parse(r, b))
<1>1. PICK p : p = Outcome("next", r, b)
  OBVIOUS
<1>2. p.ret = "next" /\ p.r = r /\ p.b = b
  BY <1>1, OutcomeIs
<1>3. r.state \in {"headers", "body"} /\ Len(s) \in Nat
  BY LenProperties DEF Hopeless
<1>4. Parse(r, b) = BodyAfter(HeadersAfter(p))
  BY <1>1, <1>3 DEF Parse
<1>5. ASSUME NEW i \in 0 .. Len(s), Unread(b) = From(s, i)
      PROVE  /\ Len(Unread(b)) = Len(s) - i
             /\ \A x \in 1 .. Len(s) - i : Unread(b)[x] = s[i + x]
  <2>1. PICK e : e = SubSeq(s, i + 1, Len(s))
    OBVIOUS
  <2>2. /\ e \in Seq(Tokens) /\ Len(e) = Len(s) - i
        /\ \A x \in 1 .. Len(s) - i : e[x] = s[i + x]
    BY <1>5, <2>1, Ending
  <2> QED  BY <1>5, <2>1, <2>2 DEF From
<1>6. CASE /\ r.state = "headers" /\ r.lineEnd = 2 /\ Len(s) >= 3 /\ s[3] = Crlf
           /\ Unread(b) = From(s, 2)
  <2>1. 2 \in 0 .. Len(s) /\ 1 \in 1 .. Len(s) - 2
    BY <1>3, <1>6
  <2>2. Len(Unread(b)) = Len(s) - 2 /\ Unread(b)[1] = s[2 + 1]
    BY <1>5, <1>6, <2>1
  <2>3. Len(Unread(b)) # 0 /\ Unread(b)[1] = Crlf
    BY <1>3, <1>6, <2>2
  <2>4. PICK o : o = ParseHeaders(r, b)
    OBVIOUS
  <2>5. \/ o.ret = "error"
        \/ o.ret = "more" /\ o.r = r /\ o.b = b
    BY <2>3, <2>4, NoFields
  <2>6. HeadersAfter(p) = o /\ BodyAfter(o) = o
    BY <1>2, <1>6, <2>4, <2>5 DEF HeadersAfter, BodyAfter
  <2>7. GivenUp(s, o)
    BY <2>5 DEF GivenUp
  <2> QED  BY <1>4, <2>6, <2>7
<1>7. CASE /\ r.state = "body" /\ r.chunked = FALSE /\ r.hasLength = TRUE
           /\ r.capacity \in Nat /\ r.capacity >= BodyMax
           /\ r.headerEnd = 2 * Len(r.headers) + 3 /\ r.headerEnd \in 0 .. Len(s)
           /\ Unread(b) = From(s, r.headerEnd)
  <2>1. PICK o : o = ParseBody(r, b)
    OBVIOUS
  <2>2. BodyAfter(HeadersAfter(p)) = o
    BY <1>2, <1>7, <2>1 DEF HeadersAfter, BodyAfter
  <2>3. Len(Unread(b)) = Len(s) - r.headerEnd
    BY <1>5, <1>7
  <2>4. BodyMax \in Nat \ {0}
    BY SizesAssumption
  <2>5. CASE Len(Unread(b)) >= BodyMax
    <3>1. o.ret = "error"
      BY <2>1, <2>5, OutcomeIs DEF ParseBody
    <3> QED  BY <1>4, <2>2, <3>1 DEF GivenUp
  <2>6. CASE ~(Len(Unread(b)) >= BodyMax)
    <3>1. o = HandleLength(r, b)
      <4>1. r.capacity > 0
        BY <1>7, <2>4
      <4> QED  BY <1>7, <2>1, <2>6, <4>1 DEF ParseBody
    <3>2. PICK got : got = r.received - r.headerEnd
      OBVIOUS
    <3>3. IsRequest(r) /\ r.received = Len(s) /\ r.active = TRUE /\ r.ready = FALSE
      BY DEF Hopeless
    <3>4. ~(got >= r.capacity)
      <4>1. PICK l : l = Len(Unread(b))
        OBVIOUS
      <4>2. l = got
        BY <2>3, <3>2, <3>3, <4>1
      <4>3. got \in Int
        BY <1>3, <1>7, <3>2, <3>3
      <4>4. ~(got >= BodyMax)
        BY <2>6, <4>1, <4>2
      <4>5. r.capacity \in Nat /\ r.capacity >= BodyMax
        BY <1>7
      <4> QED  BY <2>4, <4>3, <4>4, <4>5
    <3>5. PICK c : c = [r EXCEPT !.bodyLen = got]
      OBVIOUS
    <3>6. o = Outcome("more", c, b)
      BY <3>1, <3>2, <3>4, <3>5 DEF HandleLength
    <3>7. o.ret = "more" /\ o.r = c /\ o.b = b
      BY <3>6, OutcomeIs
    <3>8. /\ IsRequest(c) /\ c.received = r.received
          /\ c.state = r.state /\ c.ready = r.ready /\ c.active = r.active
          /\ c.lineEnd = r.lineEnd /\ c.headerEnd = r.headerEnd /\ c.chunked = r.chunked
          /\ c.hasLength = r.hasLength /\ c.capacity = r.capacity /\ c.headers = r.headers
      BY <3>3, <3>5 DEF IsRequest
    <3>9. Hopeless(s, c, b)
      BY <1>7, <3>3, <3>8 DEF Hopeless
    <3>10. GivenUp(s, o)
      BY <3>7, <3>9 DEF GivenUp
    <3> QED  BY <1>4, <2>2, <3>10
  <2> QED  BY <2>5, <2>6
<1> QED  BY <1>6, <1>7 DEF Hopeless

\* The line end that a chunked message has left is not the beginning of a start line.
LEMMA LoneEnd ==
  ASSUME NEW r, r.state \notin {"headers", "body"}, NEW b, Unread(b) = <<Crlf>>
  PROVE  Parse(r, b).ret = "error"
<1>1. PICK q : q = [r EXCEPT !.state = "start"]
  OBVIOUS
<1>2. PICK o : o = ParseStartLine(q, b)
  OBVIOUS
<1>3. PICK s : s = Unread(b)
  OBVIOUS
<1>4. Len(s) = 1 /\ s[1] = Crlf /\ 1 \in DOMAIN s
  BY <1>3
<1>5. LineEnds(s) # {}
  BY <1>4 DEF LineEnds
<1>6. s[1].kind # "line"
  BY <1>4 DEF Crlf, Token
<1>7. o.ret = "error"
  <2>1. CASE Len(s) >= LineMax
    <3>1. o = Outcome("error", q, b)
      BY <1>2, <1>3, <2>1, SizesAssumption DEF ParseStartLine
    <3> QED  BY <3>1, OutcomeIs
  <2>2. CASE ~(Len(s) >= LineMax)
    <3>1. Len(s) < LineMax
      BY <1>4, <2>2, SizesAssumption
    <3>2. o = Outcome("error", q, b)
      BY <1>2, <1>3, <1>5, <1>6, <2>2, <3>1 DEF ParseStartLine
    <3> QED  BY <3>2, OutcomeIs
  <2> QED  BY <2>1, <2>2
<1>8. HeadersAfter(o) = o /\ BodyAfter(o) = o
  BY <1>7 DEF HeadersAfter, BodyAfter
<1>9. Parse(r, b) = BodyAfter(HeadersAfter(o))
  BY <1>1, <1>2 DEF Parse
<1> QED  BY <1>7, <1>8, <1>9

(***************************************************************************)
(* What the counters of a request say of the buffer.                       *)
(***************************************************************************)
HoldsRest(r, rest, s, m) ==
    /\ r.received = Len(s)
    /\ r.state \in {"done", "start"} => rest = s
    /\ r.state = "headers" => rest = From(s, r.lineEnd)
    /\ r.state = "body" =>
          /\ r.headerEnd = 2 * Len(r.headers) + 3
          /\ ~r.chunked => rest = From(s, r.headerEnd)
          /\ r.chunked =>
                /\ From(rest, r.chunkDirty) = From(s, r.headerEnd + r.chunkDirty)
                /\ SubSeq(rest, 1, r.bodyLen) = SubSeq(Payload(m), 1, r.bodyLen)

LEMMA BufferHoldsRestIs ==
  ASSUME place = "known"
  PROVE  BufferHoldsRest <=> (buff.capacity > 0 /\ Free # {} =>
                                HoldsRest(requests[Slot], Unread(buff), stream, message))
BY DEF BufferHoldsRest, HoldsRest, From

LEMMA NewHolds ==
  ASSUME NEW m
  PROVE  HoldsRest(NewRequest, <<>>, <<>>, m)
BY DEF HoldsRest, NewRequest

LEMMA HopelessHolds ==
  ASSUME NEW s, NEW r, NEW b, Hopeless(s, r, b), NEW m
  PROVE  HoldsRest(r, Unread(b), s, m)
BY DEF HoldsRest, Hopeless

\* Of a chunked body: the chunks not decoded yet are where they came, and the payload
\* of the others is the beginning of the body.
LEMMA ChunksHold ==
  ASSUME NEW m, IsFramed(m), NEW n \in HeadEnd(m) .. Len(Wire(m)), NEW c,
         IsSum(n, HeadEnd(m), c), NEW s, NEW j, AtChunk(m, s, c, j)
  PROVE  /\ From(s, Len(ChunksTo(m, j)))
              = From(Sent(m, n), HeadEnd(m) + Len(ChunksTo(m, j)))
         /\ SubSeq(s, 1, Len(PayloadTo(m, j))) = SubSeq(Payload(m), 1, Len(PayloadTo(m, j)))
<1>1. PICK B : B = BodyOnWire(m)
  OBVIOUS
<1>2. PICK d : d = Len(ChunksTo(m, j))
  OBVIOUS
<1>3. PICK q : q = PayloadTo(m, j)
  OBVIOUS
<1>4. PICK w : w = Sent(m, n)
  OBVIOUS
<1>5. PICK h : h = HeadEnd(m)
  OBVIOUS
<1>6. /\ s \in Seq(Tokens) /\ Len(s) = c /\ j \in 0 .. Len(m.body) /\ d <= c
      /\ \A x \in d + 1 .. c : s[x] = B[x]
      /\ \A x \in 1 .. Len(q) : s[x] = q[x]
  BY <1>1, <1>2, <1>3 DEF AtChunk, Agree
<1>7. h \in Nat /\ n \in Nat /\ c \in Nat /\ n = h + c
  BY <1>5 DEF IsSum
<1>8. d \in Nat /\ q \in Seq(Tokens) /\ Len(q) \in Nat /\ Len(q) <= d
  <2>1. Len(ChunksTo(m, j)) = Len(PayloadTo(m, j)) + 3 * j
    BY <1>6, ChunkLengths
  <2>2. /\ Len(PayloadTo(m, j)) \in Nat /\ Len(ChunksTo(m, j)) \in Nat
        /\ PayloadTo(m, j) \in Seq(Tokens)
    BY <1>6, ChunkSteps
  <2>3. PICK l : l = Len(q)
    OBVIOUS
  <2>4. j \in Nat
    BY <1>6
  <2>5. l \in Nat /\ d \in Nat /\ d = l + 3 * j
    BY <1>2, <1>3, <2>1, <2>2, <2>3
  <2>6. l <= d
    BY <2>4, <2>5
  <2> QED  BY <1>3, <2>2, <2>3, <2>5, <2>6
<1>9. /\ w \in Seq(Tokens) /\ Len(w) = n
      /\ \A x \in 1 .. c : w[h + x] = B[x]
  <2>1. n \in 0 .. Len(Wire(m))
    BY <1>5, <1>7
  <2>2. w \in Seq(Tokens) /\ Len(w) = n /\ \A x \in 1 .. n : w[x] = Wire(m)[x]
    BY <1>4, <2>1, SentIs
  <2>3. /\ Len(B) \in Nat /\ Len(Wire(m)) = h + Len(B)
        /\ \A i \in 1 .. Len(B) : Wire(m)[h + i] = B[i]
    BY <1>1, <1>5, WireShape
  <2>4. PICK l : l = Len(B)
    OBVIOUS
  <2>5. l \in Nat /\ n <= h + l
    BY <2>1, <2>3, <2>4
  <2>6. ASSUME NEW x \in 1 .. c  PROVE w[h + x] = B[x]
    <3>1. x \in 1 .. l /\ h + x \in 1 .. n
      BY <1>7, <2>5
    <3>2. w[h + x] = Wire(m)[h + x]
      BY <2>2, <3>1
    <3> QED  BY <2>3, <2>4, <3>1, <3>2
  <2> QED  BY <2>2, <2>6
<1>10. From(s, d) = From(w, h + d)
  <2>1. PICK x : x = From(s, d)
    OBVIOUS
  <2>2. PICK y : y = From(w, h + d)
    OBVIOUS
  <2>3. /\ x \in Seq(Tokens) /\ Len(x) = c - d
        /\ \A i \in 1 .. c - d : x[i] = s[d + i]
    <3>1. d \in 0 .. Len(s)
      BY <1>6, <1>7, <1>8
    <3>2. PICK e : e = SubSeq(s, d + 1, Len(s))
      OBVIOUS
    <3>3. /\ e \in Seq(Tokens) /\ Len(e) = Len(s) - d
          /\ \A i \in 1 .. Len(s) - d : e[i] = s[d + i]
      BY <1>6, <3>1, <3>2, Ending
    <3> QED  BY <1>6, <2>1, <3>2, <3>3 DEF From
  <2>4. PICK g : g = h + d
    OBVIOUS
  <2>5. g \in Nat /\ g \in 0 .. n /\ n - g = c - d
    BY <1>6, <1>7, <1>8, <2>4
  <2>6. /\ y \in Seq(Tokens) /\ Len(y) = c - d
        /\ \A i \in 1 .. c - d : y[i] = w[g + i]
    <3>1. g \in 0 .. Len(w)
      BY <1>9, <2>5
    <3>2. PICK e : e = SubSeq(w, g + 1, Len(w))
      OBVIOUS
    <3>3. /\ e \in Seq(Tokens) /\ Len(e) = Len(w) - g
          /\ \A i \in 1 .. Len(w) - g : e[i] = w[g + i]
      BY <1>9, <3>1, <3>2, Ending
    <3> QED  BY <1>9, <2>2, <2>4, <2>5, <3>2, <3>3 DEF From
  <2>7. ASSUME NEW i \in 1 .. c - d  PROVE x[i] = y[i]
    <3>1. PICK z : z = d + i
      OBVIOUS
    <3>2. z \in 1 .. c /\ z \in d + 1 .. c /\ g + i = h + z
      BY <1>6, <1>7, <1>8, <2>4, <3>1
    <3>3. x[i] = B[z]
      BY <1>6, <2>3, <3>1, <3>2
    <3>4. y[i] = B[z]
      BY <1>9, <2>6, <3>2
    <3> QED  BY <3>3, <3>4
  <2>8. x = y
    BY <2>3, <2>6, <2>7, SeqEqual
  <2> QED  BY <2>1, <2>2, <2>8
<1>11. SubSeq(s, 1, Len(q)) = SubSeq(Payload(m), 1, Len(q))
  <2>1. SubSeq(s, 1, Len(q)) = q
    <3>1. Len(q) <= Len(s) /\ Agree(s, q, 1, Len(q))
      BY <1>6, <1>7, <1>8 DEF Agree
    <3> QED  BY <1>6, <1>8, <3>1, BeginsWith
  <2>2. PICK p : p = Payload(m)
    OBVIOUS
  <2>3. p = FlattenSeq(SubSeq(m.body, 1, Len(m.body)))
    BY <2>2, BodyShape DEF PayloadTo
  <2>4. m.body \in Seq(Seq(Tokens)) /\ Len(m.body) \in Nat
    BY ChunksAre
  <2>5. PICK L : L = Len(m.body)
    OBVIOUS
  <2>6. j \in 0 .. L /\ L \in j .. L /\ L \in 0 .. L
    BY <1>6, <2>4, <2>5
  <2>7. /\ Len(q) <= Len(p)
        /\ \A x \in 1 .. Len(q) : p[x] = q[x]
    BY <1>3, <2>3, <2>4, <2>5, <2>6, FlattenBegins DEF PayloadTo
  <2>8. p \in Seq(Tokens)
    BY <2>3, <2>4, <2>5, <2>6, FlattenSteps
  <2>9. Agree(p, q, 1, Len(q))
    BY <2>7 DEF Agree
  <2>10. SubSeq(p, 1, Len(q)) = q
    BY <1>8, <2>7, <2>8, <2>9, BeginsWith
  <2> QED  BY <2>1, <2>2, <2>10
<1> QED  BY <1>2, <1>3, <1>4, <1>5, <1>10, <1>11

LEMMA WaitingHolds ==
  ASSUME NEW m, IsFramed(m), NEW n, NEW r, NEW b, Waiting(m, n, r, b)
  PROVE  HoldsRest(r, Unread(b), Sent(m, n), m) /\ r.ready = FALSE /\ r.active = TRUE
<1>1. ASSUME n \in 0 .. Len(Wire(m))  PROVE Len(Sent(m, n)) = n
  BY <1>1, SentIs
<1>2. Len(Wire(m)) \in Nat
  <2>1. Wire(m) \in Seq(Tokens)
    BY WireShape
  <2> QED  BY <2>1, LenProperties
<1>3. CASE Started(m, n, r, b)
  <2>1. n \in 1 .. Len(Wire(m)) /\ r = StartOf(n) /\ Unread(b) = Sent(m, n)
    BY <1>3 DEF Started
  <2>2. r.received = n /\ r.state = "start" /\ r.ready = FALSE /\ r.active = TRUE
    BY <2>1 DEF StartOf
  <2>3. Len(Sent(m, n)) = n
    BY <1>1, <1>2, <2>1
  <2> QED  BY <2>1, <2>2, <2>3 DEF HoldsRest
<1>4. CASE InHeaders(m, n, r, b)
  <2>1. n \in 2 .. Len(Wire(m)) /\ r = HeadersOf(m, n) /\ Unread(b) = From(Sent(m, n), 2)
    BY <1>4 DEF InHeaders
  <2>2. /\ r.received = n /\ r.state = "headers" /\ r.lineEnd = 2
        /\ r.ready = FALSE /\ r.active = TRUE
    BY <2>1 DEF HeadersOf
  <2>3. Len(Sent(m, n)) = n
    BY <1>1, <1>2, <2>1
  <2> QED  BY <2>1, <2>2, <2>3 DEF HoldsRest
<1>5. ASSUME n \in HeadEnd(m) .. Len(Wire(m))
      PROVE  HeadEnd(m) \in Nat /\ n \in Nat /\ Len(Sent(m, n)) = n
  <2>1. HeadEnd(m) \in Nat
    BY <1>5, BodyRead
  <2>2. n \in 0 .. Len(Wire(m))
    BY <1>2, <1>5, <2>1
  <2> QED  BY <1>1, <2>1, <2>2
<1>6. CASE InLength(m, n, r, b)
  <2>1. /\ n \in HeadEnd(m) .. Len(Wire(m)) /\ ~HasChunked(m.fields)
        /\ Unread(b) = From(Sent(m, n), HeadEnd(m))
    BY <1>6 DEF InLength
  <2>2. PICK len : r = BodyOf(m, n, len, 0)
    BY <1>6 DEF InLength
  <2>3. /\ r.received = n /\ r.state = "body" /\ r.headerEnd = HeadEnd(m)
        /\ r.headers = m.fields /\ r.chunked = HasChunked(m.fields)
        /\ r.ready = FALSE /\ r.active = TRUE
    BY <2>2 DEF BodyOf
  <2>4. r.headerEnd = 2 * Len(r.headers) + 3
    BY <2>3 DEF HeadEnd
  <2>5. Len(Sent(m, n)) = n
    BY <1>5, <2>1
  <2> QED  BY <2>1, <2>3, <2>4, <2>5 DEF HoldsRest
<1>7. CASE InChunks(m, n, r, b)
  <2>1. n \in HeadEnd(m) .. Len(Wire(m)) /\ HasChunked(m.fields)
    BY <1>7 DEF InChunks
  <2>2. PICK j : /\ AtChunk(m, Unread(b), n - HeadEnd(m), j)
                 /\ r = BodyOf(m, n, Len(PayloadTo(m, j)), Len(ChunksTo(m, j)))
    BY <1>7 DEF InChunks
  <2>3. /\ r.received = n /\ r.state = "body" /\ r.headerEnd = HeadEnd(m)
        /\ r.headers = m.fields /\ r.chunked = HasChunked(m.fields)
        /\ r.bodyLen = Len(PayloadTo(m, j)) /\ r.chunkDirty = Len(ChunksTo(m, j))
        /\ r.ready = FALSE /\ r.active = TRUE
    BY <2>2 DEF BodyOf
  <2>4. r.headerEnd = 2 * Len(r.headers) + 3
    BY <2>3 DEF HeadEnd
  <2>5. Len(Sent(m, n)) = n /\ HeadEnd(m) \in Nat /\ n \in Nat
    BY <1>5, <2>1
  <2>6. PICK c : c = n - HeadEnd(m)
    OBVIOUS
  <2>7. IsSum(n, HeadEnd(m), c)
    BY <2>1, <2>5, <2>6 DEF IsSum
  <2>8. /\ From(Unread(b), Len(ChunksTo(m, j)))
             = From(Sent(m, n), HeadEnd(m) + Len(ChunksTo(m, j)))
        /\ SubSeq(Unread(b), 1, Len(PayloadTo(m, j)))
             = SubSeq(Payload(m), 1, Len(PayloadTo(m, j)))
    BY <2>1, <2>2, <2>6, <2>7, ChunksHold
  <2>9. /\ From(Unread(b), r.chunkDirty) = From(Sent(m, n), r.headerEnd + r.chunkDirty)
        /\ SubSeq(Unread(b), 1, r.bodyLen) = SubSeq(Payload(m), 1, r.bodyLen)
    BY <2>3, <2>8
  <2> QED  BY <2>1, <2>3, <2>4, <2>5, <2>9 DEF HoldsRest
<1> QED  BY <1>3, <1>4, <1>6, <1>7 DEF Waiting

(***************************************************************************)
(* The invariant.  As long as the buffer has a capacity and an index is    *)
(* free, the request at that index is new, or it waits for the rest of the *)
(* message being sent, or it can only be given up.                         *)
(***************************************************************************)
Idle ==
    /\ requests[Slot] = NewRequest /\ stream = <<>> /\ buff = FreshBuffer
    /\ \/ pending \in {<<>>, <<Crlf>>}
       \/ message \in Messages /\ pending = Wire(message)

ToCome(m, n) == SubSeq(Wire(m), n + 1, Len(Wire(m)))

InStep ==
    /\ message \in Messages
    /\ \E n \in 1 .. Len(Wire(message)) :
          /\ stream = Sent(message, n) /\ pending = ToCome(message, n)
          /\ Waiting(message, n, requests[Slot], buff)

Lost == stream \in Seq(Tokens) /\ Hopeless(stream, requests[Slot], buff)

Alive ==
    /\ IsBuffer(buff)
    /\ \A i \in Free \ {Slot} : requests[i] = NewRequest
    /\ Idle \/ InStep \/ Lost

TypesOK ==
    /\ requests = [i \in 0 .. MaxRequests - 1 |-> requests[i]]
    /\ \A i \in whole : i \in 0 .. MaxRequests - 1 /\ requests[i].ready
    /\ origin = [i \in 0 .. MaxRequests - 1 |-> origin[i]]
    /\ pending \in Seq(Tokens)

HInv ==
    /\ TypesOK
    /\ DeliversMessage
    /\ place = "known" =>
          /\ fault = "none" /\ buff.capacity > 0 /\ Free # {} => Alive
          /\ BufferHoldsRest

LEMMA SlotIsFree ==
  ASSUME Free # {}
  PROVE  Slot \in Free /\ Slot \in 0 .. MaxRequests - 1 /\ ~requests[Slot].ready
<1>1. MaxRequests \in Nat
  BY SizesAssumption
<1>2. Free \in SUBSET Nat
  BY <1>1 DEF Free
<1>3. Slot \in Free
  BY <1>2, MinIs DEF Slot
<1> QED  BY <1>3 DEF Free

LEMMA FreshIs ==
  /\ IsBuffer(FreshBuffer) /\ Unread(FreshBuffer) = <<>>
  /\ FreshBuffer.capacity = LineMax /\ LineMax > 0
<1>1. LineMax \in Nat /\ LineMax > 0
  BY SizesAssumption
<1>2. PICK b : b = FreshBuffer
  OBVIOUS
<1>3. b.data = <<>> /\ b.start = 0 /\ b.capacity = LineMax /\ b.limit = MessageMax
  BY <1>2 DEF FreshBuffer
<1>4. IsBuffer(b)
  BY <1>1, <1>2 DEF IsBuffer, FreshBuffer
<1>5. Unread(b) = <<>>
  BY <1>3 DEF Unread
<1> QED  BY <1>1, <1>2, <1>3, <1>4, <1>5

LEMMA AliveHolds ==
  ASSUME Alive, Free # {}
  PROVE  HoldsRest(requests[Slot], Unread(buff), stream, message)
<1>1. CASE Idle
  BY <1>1, FreshIs, NewHolds DEF Idle
<1>2. CASE InStep
  <2>1. PICK n : stream = Sent(message, n) /\ Waiting(message, n, requests[Slot], buff)
    BY <1>2 DEF InStep
  <2>2. IsFramed(message)
    BY <1>2, MessagesAssumption DEF InStep
  <2> QED  BY <2>1, <2>2, WaitingHolds
<1>3. CASE Lost
  BY <1>3, HopelessHolds DEF Lost
<1> QED  BY <1>1, <1>2, <1>3 DEF Alive

\* What is to be parsed when k tokens are received: the message as far as it has
\* arrived, a request that can only be given up, or the line end left of a message.
ReceivedOf(k, n, s, r, a) ==
    /\ message \in Messages /\ s = Sent(message, n)
    /\ n \in 1 .. Len(Wire(message))
    /\ pending = ToCome(message, n - k) /\ k <= n
    /\ Arrived(message, n, r, a)

Received(k, s, r, a) ==
    \/ \E n : ReceivedOf(k, n, s, r, a)
    \/ s \in Seq(Tokens) /\ Hopeless(s, r, a)
    \/ r.state \notin {"headers", "body"} /\ Unread(a) = <<Crlf>>

LEMMA PieceIs ==
  ASSUME TypesOK, NEW k \in 1 .. Len(pending)
  PROVE  /\ Piece(k) \in Seq(Tokens) /\ Len(Piece(k)) = k /\ k \in Nat /\ k # 0
         /\ pending \in Seq(Tokens) /\ Len(pending) \in Nat /\ k <= Len(pending)
<1>1. pending \in Seq(Tokens) /\ Len(pending) \in Nat /\ k \in 0 .. Len(pending)
  BY LenProperties DEF TypesOK
<1>2. PICK p : p = Piece(k)
  OBVIOUS
<1>3. p \in Seq(Tokens) /\ Len(p) = k
  BY <1>1, <1>2, Beginning DEF Piece
<1> QED  BY <1>1, <1>2, <1>3

LEMMA NewOpened ==
  ASSUME requests[Slot] = NewRequest, NEW k \in Nat
  PROVE  /\ Opened(k) = Counted(Initialised(NewRequest), k)
         /\ Counted(Initialised(NewRequest), k).state = "done"
<1>1. PICK r : r = Initialised(NewRequest)
  OBVIOUS
<1>2. PICK c : c = Counted(r, k)
  OBVIOUS
<1>3. Opened(k) = c
  <2>1. NewRequest.active = FALSE
    BY DEF NewRequest
  <2> QED  BY <1>1, <1>2, <2>1 DEF Opened
<1>4. IsRequest(r) /\ r.state = "done"
  BY <1>1, InitialisedHas
<1>5. c.state = "done"
  BY <1>2, <1>4, CountedHas
<1> QED  BY <1>1, <1>2, <1>3, <1>5

LEMMA WireReceives ==
  ASSUME TypesOK, Idle, message \in Messages, pending = Wire(message),
         NEW k \in 1 .. Len(pending),
         NEW a, Unread(a) = Unread(buff) \o Piece(k), NEW s, s = stream \o Piece(k)
  PROVE  \E n : ReceivedOf(k, n, s, Opened(k), a)
<1>1. PICK c : c = Counted(Initialised(NewRequest), k)
  OBVIOUS
<1>2. PICK p : p = Piece(k)
  OBVIOUS
<1>3. /\ p \in Seq(Tokens) /\ k \in Nat /\ k # 0
      /\ pending \in Seq(Tokens) /\ Len(pending) \in Nat /\ k <= Len(pending)
  BY <1>2, PieceIs
<1>4. Opened(k) = c /\ c.state = "done"
  BY <1>1, <1>3, NewOpened DEF Idle
<1>5. Unread(a) = p /\ s = p
  <2>1. Unread(buff) = <<>> /\ stream = <<>>
    BY FreshIs DEF Idle
  <2> QED  BY <1>2, <1>3, <2>1, ConcatEmptySeq
<1>6. PICK m : m = message
  OBVIOUS
<1>7. PICK w : w = Wire(m)
  OBVIOUS
<1>8. w \in Seq(Tokens) /\ Len(w) \in Nat /\ k \in 1 .. Len(w)
  BY <1>3, <1>6, <1>7
<1>9. p = Sent(m, k)
  BY <1>2, <1>6 DEF Piece, Sent
<1>10. [c EXCEPT !.state = "start"] = StartOf(k)
  BY <1>1, <1>3, CountedNew
<1>11. AtStart(m, k, c, a)
  BY <1>4, <1>5, <1>7, <1>8, <1>9, <1>10 DEF AtStart
<1>12. pending = ToCome(m, k - k)
  <2>1. SubSeq(w, 1, Len(w)) = w
    BY <1>8, SubSeqFull
  <2>2. k - k = 0 /\ 0 + 1 = 1
    BY <1>3
  <2> QED  BY <1>6, <1>7, <2>1, <2>2 DEF ToCome
<1>13. ReceivedOf(k, k, s, c, a)
  BY <1>3, <1>5, <1>6, <1>7, <1>8, <1>9, <1>11, <1>12 DEF ReceivedOf, Arrived
<1> QED  BY <1>4, <1>13

LEMMA IdleReceives ==
  ASSUME TypesOK, Idle, NEW k \in 1 .. Len(pending),
         NEW a, Unread(a) = Unread(buff) \o Piece(k), NEW s, s = stream \o Piece(k)
  PROVE  Received(k, s, Opened(k), a)
<1>1. /\ Piece(k) \in Seq(Tokens) /\ k \in Nat /\ k # 0
      /\ pending \in Seq(Tokens) /\ Len(pending) \in Nat /\ k <= Len(pending)
  BY PieceIs
<1>2. CASE pending = <<>>
  <2>1. Len(pending) = 0
    BY <1>2
  <2> QED  BY <1>1, <2>1
<1>3. CASE pending = <<Crlf>>
  <2>1. PICK c : c = Counted(Initialised(NewRequest), k)
    OBVIOUS
  <2>2. Opened(k) = c /\ c.state = "done"
    BY <1>1, <2>1, NewOpened DEF Idle
  <2>3. Len(pending) = 1
    BY <1>3
  <2>4. Piece(k) = <<Crlf>>
    <3>1. SubSeq(pending, 1, Len(pending)) = pending
      BY <1>1, SubSeqFull
    <3>2. k = 1
      BY <1>1, <2>3
    <3> QED  BY <1>3, <2>3, <3>1, <3>2 DEF Piece
  <2>5. Unread(a) = <<Crlf>>
    <3>1. Unread(buff) = <<>>
      BY FreshIs DEF Idle
    <3> QED  BY <1>1, <2>4, <3>1, ConcatEmptySeq
  <2> QED  BY <2>2, <2>5 DEF Received
<1>4. CASE message \in Messages /\ pending = Wire(message)
  BY <1>4, WireReceives DEF Received
<1> QED  BY <1>2, <1>3, <1>4 DEF Idle

LEMMA InStepReceives ==
  ASSUME TypesOK, IsBuffer(buff), InStep, NEW k \in 1 .. Len(pending),
         NEW a, Unread(a) = Unread(buff) \o Piece(k), NEW s, s = stream \o Piece(k)
  PROVE  \E n : ReceivedOf(k, n, s, Opened(k), a)
<1>1. PICK m : m = message
  OBVIOUS
<1>2. m \in Messages /\ IsFramed(m)
  BY <1>1, MessagesAssumption DEF InStep
<1>3. PICK n \in 1 .. Len(Wire(m)) :
        /\ stream = Sent(m, n) /\ pending = ToCome(m, n)
        /\ Waiting(m, n, requests[Slot], buff)
  BY <1>1 DEF InStep
<1>4. PICK w : w = Wire(m)
  OBVIOUS
<1>5. w \in Seq(Tokens) /\ Len(w) \in Nat
  BY <1>2, <1>4, WireShape, LenProperties
<1>6. n \in 0 .. Len(w) /\ n \in 1 .. Len(w) /\ n \in Nat
  BY <1>3, <1>4, <1>5
<1>7. Len(pending) = Len(w) - n
  <2>1. PICK e : e = SubSeq(w, n + 1, Len(w))
    OBVIOUS
  <2>2. Len(e) = Len(w) - n
    BY <1>5, <1>6, <2>1, Ending
  <2> QED  BY <1>3, <1>4, <2>1, <2>2 DEF ToCome
<1>8. k \in 1 .. Len(w) - n
  BY <1>7
<1>9. k \in 0 .. Len(w) - n /\ k \in Nat /\ n + k \in 1 .. Len(w) /\ n + k - k = n /\ k <= n + k
  BY <1>5, <1>6, <1>8
<1>10. PICK p : p = Piece(k)
  OBVIOUS
<1>11. FollowsOn(m, n, k, p)
  <2>1. p = Following(m, n, k)
    BY <1>3, <1>10 DEF Piece, ToCome, Following
  <2>2. FollowsOn(m, n, k, Following(m, n, k))
    BY <1>2, <1>4, <1>6, <1>9, FollowingIs
  <2> QED  BY <2>1, <2>2
<1>12. PICK r : r = requests[Slot]
  OBVIOUS
<1>13. r.active = TRUE /\ Arrived(m, n + k, Counted(r, k), a)
  <2>1. Waiting(m, n, r, buff) /\ IsBuffer(buff) /\ Unread(a) = Unread(buff) \o p
    BY <1>3, <1>10, <1>12
  <2>2. n \in 0 .. Len(Wire(m)) /\ k \in 0 .. Len(Wire(m)) - n
    BY <1>4, <1>6, <1>9
  <2> QED  BY <1>2, <1>11, <2>1, <2>2, Advanced
<1>14. Opened(k) = Counted(r, k)
  BY <1>12, <1>13 DEF Opened
<1>15. s = Sent(m, n + k)
  BY <1>3, <1>10, <1>11 DEF FollowsOn
<1>16. ReceivedOf(k, n + k, s, Opened(k), a)
  BY <1>1, <1>2, <1>3, <1>4, <1>9, <1>13, <1>14, <1>15 DEF ReceivedOf
<1> QED  BY <1>16

LEMMA LostReceives ==
  ASSUME TypesOK, IsBuffer(buff), Lost, NEW k \in 1 .. Len(pending),
         NEW a, Unread(a) = Unread(buff) \o Piece(k), NEW s, s = stream \o Piece(k)
  PROVE  Received(k, s, Opened(k), a)
<1>1. PICK p : p = Piece(k)
  OBVIOUS
<1>2. pending \in Seq(Tokens) /\ Len(pending) \in Nat /\ k \in 0 .. Len(pending)
  BY LenProperties DEF TypesOK
<1>3. p \in Seq(Tokens) /\ Len(p) = k
  BY <1>1, <1>2, Beginning DEF Piece
<1>4. PICK r : r = requests[Slot]
  OBVIOUS
<1>5. stream \in Seq(Tokens) /\ Hopeless(stream, r, buff) /\ IsBuffer(buff)
  BY <1>4 DEF Lost
<1>6. r.active = TRUE /\ Hopeless(stream \o p, Counted(r, Len(p)), a)
  <2>1. Unread(a) = Unread(buff) \o p
    BY <1>1
  <2> QED  BY <1>3, <1>5, <2>1, HopelessAdvanced
<1>7. Opened(k) = Counted(r, k)
  BY <1>4, <1>6 DEF Opened
<1>8. stream \o p \in Seq(Tokens)
  BY <1>3, <1>5, ConcatProperties
<1> QED  BY <1>1, <1>3, <1>6, <1>7, <1>8 DEF Received

\* What comes of the tokens received: of the message, or of a request that can only be
\* given up.
CameOf(k, n, s, b, o) ==
    /\ message \in Messages /\ s = Sent(message, n)
    /\ n \in 1 .. Len(Wire(message))
    /\ pending = ToCome(message, n - k) /\ k <= n
    /\ ParsedTo(message, n, b, o)

Came(k, s, o) ==
    \/ \E n, b : CameOf(k, n, s, b, o)
    \/ GivenUp(s, o)

\* The message goes on.
GoesOnWith == InStep \/ (Idle /\ message \in Messages /\ pending = Wire(message))

LEMMA ComesOf ==
  ASSUME TypesOK, IsBuffer(buff), GoesOnWith, NEW k \in 1 .. Len(pending), Grows(buff, k)
  PROVE  \E n : CameOf(k, n, stream \o Piece(k), BuffAppend(buff, Piece(k)), Parsed(k))
<1>1. PICK p : p = Piece(k)
  OBVIOUS
<1>2. PICK a : a = BuffAppend(buff, p)
  OBVIOUS
<1>3. PICK s : s = stream \o p
  OBVIOUS
<1>4. PICK r : r = Opened(k)
  OBVIOUS
<1>5. PICK o : o = Parse(r, a)
  OBVIOUS
<1>6. p \in Seq(Tokens) /\ Len(p) = k /\ k # 0
  BY <1>1, PieceIs
<1>7. IsBuffer(a) /\ Unread(a) = Unread(buff) \o p
  BY <1>2, <1>6, AppendedIs
<1>8. \E n : ReceivedOf(k, n, s, r, a)
  <2>1. Unread(a) = Unread(buff) \o Piece(k) /\ s = stream \o Piece(k)
    BY <1>1, <1>3, <1>7
  <2>2. CASE InStep
    BY <1>4, <2>1, <2>2, InStepReceives
  <2>3. CASE Idle /\ message \in Messages /\ pending = Wire(message)
    BY <1>4, <2>1, <2>3, WireReceives
  <2> QED  BY <2>2, <2>3 DEF GoesOnWith
<1>9. PICK n : ReceivedOf(k, n, s, r, a)
  BY <1>8
<1>10. ParsedTo(message, n, a, o)
  BY <1>5, <1>7, <1>9, MessagesAssumption, ArrivedParsed DEF ReceivedOf
<1>11. CameOf(k, n, s, a, o)
  BY <1>9, <1>10 DEF CameOf, ReceivedOf
<1>12. o = Parsed(k)
  BY <1>1, <1>2, <1>4, <1>5 DEF Parsed
<1> QED  BY <1>1, <1>2, <1>3, <1>11, <1>12

LEMMA Comes ==
  ASSUME TypesOK, Alive, NEW k \in 1 .. Len(pending), Grows(buff, k)
  PROVE  Came(k, stream \o Piece(k), Parsed(k))
<1>1. PICK p : p = Piece(k)
  OBVIOUS
<1>2. PICK a : a = BuffAppend(buff, p)
  OBVIOUS
<1>3. PICK s : s = stream \o p
  OBVIOUS
<1>4. PICK r : r = Opened(k)
  OBVIOUS
<1>5. PICK o : o = Parse(r, a)
  OBVIOUS
<1>6. p \in Seq(Tokens) /\ Len(p) = k /\ k # 0
  BY <1>1, PieceIs
<1>7. IsBuffer(a) /\ Unread(a) = Unread(buff) \o p /\ IsBuffer(buff)
  <2>1. IsBuffer(buff)
    BY DEF Alive
  <2> QED  BY <1>2, <1>6, <2>1, AppendedIs
<1>8. o = Parsed(k)
  BY <1>1, <1>2, <1>4, <1>5 DEF Parsed
<1>9. Unread(a) = Unread(buff) \o Piece(k) /\ s = stream \o Piece(k)
  BY <1>1, <1>3, <1>7
<1>10. CASE GoesOnWith
  <2>1. \E n : CameOf(k, n, stream \o Piece(k), BuffAppend(buff, Piece(k)), Parsed(k))
    BY <1>7, <1>10, ComesOf
  <2> QED  BY <2>1 DEF Came
<1>11. CASE (Idle \/ Lost) /\ ~GoesOnWith
  <2>1. Received(k, s, r, a)
    BY <1>4, <1>7, <1>9, <1>11, IdleReceives, LostReceives
  <2>2. CASE \E n : ReceivedOf(k, n, s, r, a)
    <3>1. PICK n : ReceivedOf(k, n, s, r, a)
      BY <2>2
    <3>2. ParsedTo(message, n, a, o)
      BY <1>5, <1>7, <3>1, MessagesAssumption, ArrivedParsed DEF ReceivedOf
    <3>3. CameOf(k, n, s, a, o)
      BY <3>1, <3>2 DEF CameOf, ReceivedOf
    <3> QED  BY <1>1, <1>3, <1>8, <3>3 DEF Came
  <2>3. CASE s \in Seq(Tokens) /\ Hopeless(s, r, a)
    <3>1. GivenUp(s, o)
      BY <1>5, <1>7, <2>3, HopelessParsed
    <3> QED  BY <1>1, <1>3, <1>8, <3>1 DEF Came
  <2>4. CASE r.state \notin {"headers", "body"} /\ Unread(a) = <<Crlf>>
    <3>1. o.ret = "error"
      BY <1>5, <2>4, LoneEnd
    <3> QED  BY <1>1, <1>3, <1>8, <3>1 DEF Came, GivenUp
  <2> QED  BY <2>1, <2>2, <2>3, <2>4 DEF Received
<1> QED  BY <1>10, <1>11 DEF Alive, GoesOnWith

(***************************************************************************)
(* The steps.                                                              *)
(***************************************************************************)
LEMMA HInit == Init => HInv
<1> SUFFICES ASSUME Init  PROVE HInv
  OBVIOUS
<1>1. MaxRequests \in Nat \ {0}
  BY SizesAssumption
<1>2. \A i \in 0 .. MaxRequests - 1 : requests[i] = NewRequest
  BY DEF Init
<1>3. NewRequest.ready = FALSE
  BY DEF NewRequest
<1>4. TypesOK
  <2>1. <<>> \in Seq(Tokens)
    BY EmptySeq
  <2>2. whole = {}
    BY DEF Init
  <2> QED  BY <2>1, <2>2 DEF Init, TypesOK
<1>5. DeliversMessage
  <2>1. DOMAIN requests = 0 .. MaxRequests - 1
    BY DEF Init
  <2>2. \A i \in DOMAIN requests : ~requests[i].ready
    BY <1>2, <1>3, <2>1
  <2> QED  BY <2>2 DEF DeliversMessage
<1>6. Free # {} => Alive
  <2> SUFFICES ASSUME Free # {}  PROVE Alive
    OBVIOUS
  <2>1. requests[Slot] = NewRequest
    BY <1>2, SlotIsFree
  <2>2. Idle
    BY <2>1 DEF Idle, Init
  <2>3. \A i \in Free \ {Slot} : requests[i] = NewRequest
    BY <1>2 DEF Free
  <2>4. IsBuffer(buff)
    BY FreshIs DEF Init
  <2> QED  BY <2>2, <2>3, <2>4 DEF Alive
<1>7. BufferHoldsRest
  <2>1. place = "known"
    BY DEF Init
  <2> QED  BY <1>6, <2>1, AliveHolds, BufferHoldsRestIs
<1> QED  BY <1>4, <1>5, <1>6, <1>7 DEF HInv

\* As long as nothing of parser and stream changes, the buffer holds what it held.
LEMMA SameRest ==
  ASSUME BufferHoldsRest, UNCHANGED <<parser, stream, message, place>>
  PROVE  BufferHoldsRest'
<1>1. /\ buff' = buff /\ requests' = requests /\ stream' = stream /\ message' = message
      /\ place' = place
  BY DEF parser
<1> QED  BY <1>1 DEF BufferHoldsRest, Free, Slot, Unread

LEMMA SameDelivered ==
  ASSUME DeliversMessage, UNCHANGED <<requests, origin, whole>>
  PROVE  DeliversMessage'
BY DEF DeliversMessage

LEMMA SameTypes ==
  ASSUME TypesOK, UNCHANGED <<requests, origin, whole>>, pending' \in Seq(Tokens)
  PROVE  TypesOK'
BY DEF TypesOK

\* With no capacity, or no index free, nothing is parsed.
LEMMA NothingParsed ==
  ASSUME TypesOK', DeliversMessage', ~(buff'.capacity > 0)
  PROVE  HInv'
BY DEF HInv, BufferHoldsRest

LEMMA PendingShrinks ==
  ASSUME TypesOK, NEW k \in 1 .. Len(pending), Receive(k)
  PROVE  pending' \in Seq(Tokens)
<1>1. pending \in Seq(Tokens) /\ Len(pending) \in Nat /\ k \in 0 .. Len(pending)
  BY LenProperties DEF TypesOK
<1>2. PICK e : e = SubSeq(pending, k + 1, Len(pending))
  OBVIOUS
<1>3. e \in Seq(Tokens)
  BY <1>1, <1>2, Ending
<1> QED  BY <1>2, <1>3 DEF Receive

\* Whatever becomes of the open request, the requests made before stay.
LEMMA OthersDelivered ==
  ASSUME TypesOK, DeliversMessage, Free # {}, NEW r,
         requests' = [requests EXCEPT ![Slot] = r], whole' = whole,
         NEW m, origin' = origin \/ origin' = [origin EXCEPT ![Slot] = m],
         pending' \in Seq(Tokens)
  PROVE  TypesOK' /\ DeliversMessage'
<1>1. Slot \in 0 .. MaxRequests - 1 /\ ~requests[Slot].ready
  BY SlotIsFree
<1>2. /\ DOMAIN requests = 0 .. MaxRequests - 1 /\ DOMAIN requests' = 0 .. MaxRequests - 1
      /\ DOMAIN origin = 0 .. MaxRequests - 1 /\ DOMAIN origin' = 0 .. MaxRequests - 1
  BY DEF TypesOK
<1>3. ASSUME NEW i \in whole
      PROVE  /\ i \in 0 .. MaxRequests - 1 /\ requests[i].ready
             /\ requests'[i] = requests[i] /\ origin'[i] = origin[i]
  <2>1. i \in 0 .. MaxRequests - 1 /\ requests[i].ready /\ i # Slot
    BY <1>1, <1>3 DEF TypesOK
  <2> QED  BY <1>2, <2>1
<1>4. TypesOK'
  <2>1. requests' = [i \in 0 .. MaxRequests - 1 |-> requests'[i]]
    BY <1>2
  <2>2. origin' = [i \in 0 .. MaxRequests - 1 |-> origin'[i]]
    <3>1. CASE origin' = origin
      BY <3>1 DEF TypesOK
    <3>2. CASE origin' = [origin EXCEPT ![Slot] = m]
      BY <1>2, <3>2
    <3> QED  BY <3>1, <3>2
  <2> QED  BY <1>3, <2>1, <2>2 DEF TypesOK
<1>5. DeliversMessage'
  <2>1. \A i \in whole' : i \in DOMAIN requests /\ requests[i].ready
    BY <1>2, <1>3
  <2>2. \A i \in whole' : requests'[i] = requests[i] /\ origin'[i] = origin[i] /\ i \in whole
    BY <1>3
  <2> QED  BY <2>1, <2>2 DEF DeliversMessage
<1> QED  BY <1>4, <1>5

\* A request that becomes one that is not ready.
LEMMA StillDelivered ==
  ASSUME TypesOK, DeliversMessage, Free # {}, NEW r, r.ready = FALSE,
         requests' = [requests EXCEPT ![Slot] = r], origin' = origin, whole' = whole,
         pending' \in Seq(Tokens)
  PROVE  TypesOK' /\ DeliversMessage' /\ Free' = Free /\ Slot' = Slot
<1>1. Slot \in 0 .. MaxRequests - 1 /\ ~requests[Slot].ready
  BY SlotIsFree
<1>2. DOMAIN requests = 0 .. MaxRequests - 1
  BY DEF TypesOK
<1>3. \A i \in 0 .. MaxRequests - 1 :
        /\ i # Slot => requests'[i] = requests[i]
        /\ i = Slot => requests'[i] = r
  BY <1>1, <1>2
<1>4. TypesOK' /\ DeliversMessage'
  BY OthersDelivered
<1>5. Free' = Free
  BY <1>1, <1>3 DEF Free
<1>6. Slot' = Slot
  BY <1>5 DEF Slot
<1> QED  BY <1>4, <1>5, <1>6

LEMMA FailsKeeps ==
  ASSUME HInv, Free # {}, NEW r, Fails(r), pending' \in Seq(Tokens)
  PROVE  HInv'
<1>1. PICK c : c = Exited(r)
  OBVIOUS
<1>2. c.ready = FALSE
  BY <1>1, ExitedHas
<1>3. /\ requests' = [requests EXCEPT ![Slot] = c] /\ origin' = origin
      /\ buff' = NoBuffer /\ whole' = whole
  BY <1>1 DEF Fails, KeepsPlace
<1>4. TypesOK' /\ DeliversMessage'
  BY <1>2, <1>3, StillDelivered DEF HInv
<1>5. ~(buff'.capacity > 0)
  BY <1>3 DEF NoBuffer
<1> QED  BY <1>4, <1>5, NothingParsed

LEMMA AppendsHas ==
  ASSUME HInv, place = "known", NEW k \in 1 .. Len(pending), Appends(k)
  PROVE  /\ TypesOK /\ DeliversMessage /\ Alive /\ Free # {} /\ Grows(buff, k)
         /\ fault = "none" /\ buff.capacity > 0
         /\ pending' \in Seq(Tokens) /\ message' = message
         /\ Came(k, stream \o Piece(k), Parsed(k))
<1>1. /\ Free # {} /\ Grows(buff, k) /\ fault = "none" /\ buff.capacity > 0
      /\ message' = message /\ Receive(k)
  BY DEF Appends, Receive, DoublingEnds
<1>2. TypesOK /\ DeliversMessage /\ Alive
  BY <1>1 DEF HInv
<1>3. pending' \in Seq(Tokens)
  BY <1>1, <1>2, PendingShrinks
<1>4. Came(k, stream \o Piece(k), Parsed(k))
  BY <1>1, <1>2, Comes
<1> QED  BY <1>1, <1>2, <1>3, <1>4

LEMMA ToComeShrinks ==
  ASSUME NEW m, IsFramed(m), NEW n \in 1 .. Len(Wire(m)), NEW k \in Nat, k <= n,
         NEW p, p = ToCome(m, n - k)
  PROVE  SubSeq(p, k + 1, Len(p)) = ToCome(m, n)
<1>1. PICK w : w = Wire(m)
  OBVIOUS
<1>2. w \in Seq(Tokens) /\ Len(w) \in Nat
  BY <1>1, WireShape, LenProperties
<1>3. PICK h : h = n - k
  OBVIOUS
<1>4. h \in 0 .. Len(w) /\ k \in 0 .. Len(w) - h /\ h + k = n
  BY <1>1, <1>2, <1>3
<1>5. PICK rest : rest = SubSeq(w, h + 1, Len(w))
  OBVIOUS
<1>6. /\ SubSeq(w, 1, h) \o SubSeq(rest, 1, k) = SubSeq(w, 1, h + k)
      /\ SubSeq(rest, k + 1, Len(rest)) = SubSeq(w, h + k + 1, Len(w))
  BY <1>2, <1>4, <1>5, PieceOf
<1> QED  BY <1>1, <1>3, <1>4, <1>5, <1>6 DEF ToCome

LEMMA ToComeLasts ==
  ASSUME NEW m, IsFramed(m), NEW n \in 0 .. Len(Wire(m))
  PROVE  ToCome(m, n) \in Seq(Tokens) /\ Len(ToCome(m, n)) = Len(Wire(m)) - n
<1>1. PICK w : w = Wire(m)
  OBVIOUS
<1>2. w \in Seq(Tokens)
  BY <1>1, WireShape
<1>3. PICK e : e = SubSeq(w, n + 1, Len(w))
  OBVIOUS
<1>4. e \in Seq(Tokens) /\ Len(e) = Len(w) - n
  BY <1>1, <1>2, <1>3, Ending
<1> QED  BY <1>1, <1>3, <1>4 DEF ToCome

\* A chunked message ends with a line end.
LEMMA LastIsLineEnd ==
  ASSUME NEW m, IsFramed(m), m.coding = "chunked"
  PROVE  Wire(m)[Len(Wire(m))] = Crlf
<1>1. PICK B : B = BodyOnWire(m)
  OBVIOUS
<1>2. PICK q : q = ChunksTo(m, Len(m.body))
  OBVIOUS
<1>3. B = q \o LastChunk
  BY <1>1, <1>2, BodyShape
<1>4. q \in Seq(Tokens)
  <2>1. Len(m.body) \in Nat
    BY ChunkSteps
  <2>2. Len(m.body) \in 0 .. Len(m.body)
    BY <2>1
  <2> QED  BY <1>2, <2>2, ChunkSteps
<1>5. LastChunk \in Seq(Tokens) /\ Len(LastChunk) = 3 /\ LastChunk[3] = Crlf
  <2>1. Crlf \in Tokens /\ Token("size", 0) \in Tokens
    BY CrlfIsToken
  <2> QED  BY <2>1 DEF LastChunk
<1>6. PICK t : t = LastChunk
  OBVIOUS
<1>7. /\ Len(B) = Len(q) + Len(t) /\ Len(q) \in Nat
      /\ \A i \in 1 .. Len(q) : B[i] = q[i]
      /\ \A i \in 1 .. Len(t) : B[Len(q) + i] = t[i]
  <2>1. q \in Seq(Tokens) /\ t \in Seq(Tokens) /\ B = q \o t
    BY <1>3, <1>4, <1>5, <1>6
  <2> QED  BY <2>1, Joined
<1>8. B[Len(q) + 3] = Crlf /\ Len(B) = Len(q) + 3
  <2>1. Len(t) = 3 /\ t[3] = Crlf /\ 3 \in 1 .. 3
    BY <1>5, <1>6
  <2>2. B[Len(q) + 3] = t[3]
    BY <1>7, <2>1
  <2> QED  BY <1>7, <2>1, <2>2
<1>9. /\ Len(Wire(m)) = HeadEnd(m) + Len(B)
      /\ \A i \in 1 .. Len(B) : Wire(m)[HeadEnd(m) + i] = B[i]
  BY <1>1, WireShape
<1>10. Len(B) \in 1 .. Len(B)
  BY <1>7, <1>8
<1> QED  BY <1>8, <1>9, <1>10

\* When a request is ready, no more is to come than the last line end.
LEMMA LittleToCome ==
  ASSUME NEW m, IsFramed(m), NEW n \in 1 .. Len(Wire(m)), n >= Len(Wire(m)) - 1,
         m.coding # "chunked" => n = Len(Wire(m))
  PROVE  \/ n = Len(Wire(m)) /\ ToCome(m, n) = <<>>
         \/ n = Len(Wire(m)) - 1 /\ m.coding = "chunked" /\ ToCome(m, n) = <<Crlf>>
<1>1. PICK w : w = Wire(m)
  OBVIOUS
<1>2. w \in Seq(Tokens) /\ Len(w) \in Nat
  BY <1>1, WireShape, LenProperties
<1>3. CASE n = Len(w)
  <2>1. SubSeq(w, Len(w) + 1, Len(w)) = <<>>
    BY <1>2, NothingBehind
  <2> QED  BY <1>1, <1>3, <2>1 DEF ToCome
<1>4. CASE n # Len(w)
  <2>1. n = Len(w) - 1 /\ m.coding = "chunked" /\ n \in 0 .. Len(w)
    BY <1>1, <1>2, <1>4
  <2>2. PICK e : e = SubSeq(w, n + 1, Len(w))
    OBVIOUS
  <2>3. /\ e \in Seq(Tokens) /\ Len(e) = Len(w) - n
        /\ \A i \in 1 .. Len(w) - n : e[i] = w[n + i]
    BY <1>2, <2>1, <2>2, Ending
  <2>4. Len(e) = 1 /\ 1 \in 1 .. Len(w) - n /\ n + 1 = Len(w)
    BY <1>2, <2>1, <2>3
  <2>5. e[1] = Crlf
    BY <1>1, <2>1, <2>3, <2>4, LastIsLineEnd
  <2>6. e = <<Crlf>>
    <3>1. PICK c : c = <<Crlf>>
      OBVIOUS
    <3>2. c \in Seq(Tokens) /\ Len(c) = 1 /\ c[1] = Crlf
      BY <3>1, CrlfIsToken
    <3>3. \A i \in 1 .. Len(e) : e[i] = c[i]
      BY <2>4, <2>5, <3>2
    <3>4. e = c
      BY <2>3, <2>4, <3>2, <3>3, SeqEqual
    <3> QED  BY <3>1, <3>4
  <2> QED  BY <1>1, <2>1, <2>2, <2>6 DEF ToCome
<1> QED  BY <1>1, <1>3, <1>4

LEMMA RestKept ==
  ASSUME HoldsRest(requests'[Slot'], Unread(buff'), stream', message')
  PROVE  BufferHoldsRest'
BY DEF BufferHoldsRest, HoldsRest, From

\* What comes of a piece that does not complete the message.
Waits(k, s, o) ==
    \/ \E n : /\ message \in Messages /\ s = Sent(message, n)
              /\ n \in 1 .. Len(Wire(message)) /\ k <= n
              /\ pending = ToCome(message, n - k)
              /\ Waiting(message, n, o.r, o.b)
    \/ s \in Seq(Tokens) /\ Hopeless(s, o.r, o.b)

LEMMA MoreWaits ==
  ASSUME NEW k, NEW s, NEW o, o.ret = "more", Came(k, s, o)
  PROVE  IsBuffer(o.b) /\ Waits(k, s, o)
<1>1. CASE \E n, b : CameOf(k, n, s, b, o)
  <2>1. PICK n, b : /\ message \in Messages /\ s = Sent(message, n)
                    /\ n \in 1 .. Len(Wire(message))
                    /\ pending = ToCome(message, n - k) /\ k <= n
                    /\ ParsedTo(message, n, b, o)
    BY <1>1 DEF CameOf
  <2>2. IsFramed(message)
    BY <2>1, MessagesAssumption
  <2>3. s \in Seq(Tokens)
    <3>1. Wire(message) \in Seq(Tokens)
      BY <2>2, WireShape
    <3>2. Len(Wire(message)) \in Nat
      BY <3>1, LenProperties
    <3>3. n \in 0 .. Len(Wire(message))
      BY <2>1, <3>2
    <3> QED  BY <2>1, <2>2, <3>3, SentIs
  <2>4. \/ IsBuffer(o.b) /\ Waiting(message, n, o.r, o.b)
        \/ IsBuffer(o.b) /\ Hopeless(s, o.r, o.b)
    BY <2>1 DEF ParsedTo
  <2> QED  BY <2>1, <2>3, <2>4 DEF Waits
<1>2. CASE GivenUp(s, o)
  BY <1>2 DEF GivenUp, Waits
<1> QED  BY <1>1, <1>2 DEF Came

LEMMA NotReady ==
  ASSUME NEW k, NEW s, NEW o, Waits(k, s, o)
  PROVE  o.r.ready = FALSE /\ HoldsRest(o.r, Unread(o.b), s, message)
<1>1. CASE \E n : /\ message \in Messages /\ s = Sent(message, n)
                  /\ Waiting(message, n, o.r, o.b)
  BY <1>1, MessagesAssumption, WaitingHolds
<1>2. CASE s \in Seq(Tokens) /\ Hopeless(s, o.r, o.b)
  <2>1. HoldsRest(o.r, Unread(o.b), s, message)
    BY <1>2, HopelessHolds
  <2> QED  BY <1>2, <2>1 DEF Hopeless
<1> QED  BY <1>1, <1>2 DEF Waits

LEMMA MoreKeeps ==
  ASSUME HInv, place = "known", NEW k \in 1 .. Len(pending), ReceiveMore(k)
  PROVE  HInv'
<1>1. PICK s : s = stream \o Piece(k)
  OBVIOUS
<1>2. PICK o : o = Parsed(k)
  OBVIOUS
<1>3. /\ TypesOK /\ DeliversMessage /\ Alive /\ Free # {}
      /\ pending' \in Seq(Tokens) /\ message' = message /\ Came(k, s, o)
  BY <1>1, <1>2, AppendsHas DEF ReceiveMore
<1>4. /\ o.ret = "more" /\ buff' = o.b /\ requests' = [requests EXCEPT ![Slot] = o.r]
      /\ stream' = s /\ fault' = fault /\ origin' = origin /\ whole' = whole
      /\ pending' = SubSeq(pending, k + 1, Len(pending)) /\ place' = "known"
  BY <1>1, <1>2 DEF ReceiveMore, Appends, Receive, KeepsPlace
<1>5. IsBuffer(o.b) /\ Waits(k, s, o)
  BY <1>3, <1>4, MoreWaits
<1>6. o.r.ready = FALSE /\ HoldsRest(o.r, Unread(o.b), s, message)
  BY <1>5, NotReady
<1>7. TypesOK' /\ DeliversMessage' /\ Free' = Free /\ Slot' = Slot
  <2>1. PICK r : r = o.r
    OBVIOUS
  <2> QED  BY <1>3, <1>4, <1>6, <2>1, StillDelivered
<1>8. Slot \in Free /\ Slot \in 0 .. MaxRequests - 1
  BY <1>3, SlotIsFree
<1>9. /\ requests'[Slot] = o.r
      /\ \A i \in 0 .. MaxRequests - 1 : i # Slot => requests'[i] = requests[i]
  <2>1. DOMAIN requests = 0 .. MaxRequests - 1
    BY <1>3 DEF TypesOK
  <2> QED  BY <1>4, <1>8, <2>1
<1>10. \A i \in Free' \ {Slot'} : requests'[i] = NewRequest
  <2>1. \A i \in Free \ {Slot} : requests[i] = NewRequest /\ i \in 0 .. MaxRequests - 1
    BY <1>3 DEF Alive, Free
  <2> QED  BY <1>7, <1>9, <2>1
<1>11. (InStep \/ Lost)'
  <2>1. CASE s \in Seq(Tokens) /\ Hopeless(s, o.r, o.b)
    BY <1>4, <1>7, <1>9, <2>1 DEF Lost
  <2>2. CASE \E n : /\ message \in Messages /\ s = Sent(message, n)
                    /\ n \in 1 .. Len(Wire(message)) /\ k <= n
                    /\ pending = ToCome(message, n - k)
                    /\ Waiting(message, n, o.r, o.b)
    <3>1. PICK n : /\ message \in Messages /\ s = Sent(message, n)
                   /\ n \in 1 .. Len(Wire(message)) /\ k <= n
                   /\ pending = ToCome(message, n - k)
                   /\ Waiting(message, n, o.r, o.b)
      BY <2>2
    <3>2. IsFramed(message) /\ k \in Nat
      BY <3>1, MessagesAssumption
    <3>3. pending' = ToCome(message, n)
      BY <1>4, <3>1, <3>2, ToComeShrinks
    <3> QED  BY <1>3, <1>4, <1>7, <1>9, <3>1, <3>3 DEF InStep
  <2> QED  BY <1>5, <2>1, <2>2 DEF Waits
<1>12. Alive'
  BY <1>4, <1>5, <1>10, <1>11 DEF Alive
<1>13. BufferHoldsRest'
  <2>1. HoldsRest(requests'[Slot'], Unread(buff'), stream', message')
    BY <1>3, <1>4, <1>6, <1>7, <1>9
  <2> QED  BY <2>1, RestKept
<1> QED  BY <1>7, <1>12, <1>13 DEF HInv

\* A request that is ready delivers the message, and the next one is new.
ReadyAt(k, o, n) ==
    /\ message \in Messages /\ n \in 1 .. Len(Wire(message)) /\ k <= n
    /\ pending = ToCome(message, n - k)
    /\ n >= Len(Wire(message)) - 1 /\ Delivers(o.r, message)
    /\ message.coding # "chunked" => n = Len(Wire(message))

LEMMA ReadyCame ==
  ASSUME NEW k, NEW s, NEW o, o.ret = "ready", Came(k, s, o)
  PROVE  \E n : ReadyAt(k, o, n)
<1>1. ~GivenUp(s, o)
  BY DEF GivenUp
<1>2. PICK n, b : CameOf(k, n, s, b, o)
  BY <1>1 DEF Came
<1>3. ReadyAt(k, o, n)
  BY <1>2 DEF ReadyAt, ParsedTo, CameOf
<1> QED  BY <1>3

LEMMA ReadyKeeps ==
  ASSUME HInv, place = "known", NEW k \in 1 .. Len(pending), ReceiveReady(k)
  PROVE  HInv' /\ (Free' # {} => Idle')
<1>1. PICK s : s = stream \o Piece(k)
  OBVIOUS
<1>2. PICK o : o = Parsed(k)
  OBVIOUS
<1>3. /\ TypesOK /\ DeliversMessage /\ Alive /\ Free # {}
      /\ pending' \in Seq(Tokens) /\ message' = message /\ Came(k, s, o)
  BY <1>1, <1>2, AppendsHas DEF ReceiveReady
<1>4. /\ o.ret = "ready" /\ buff' = FreshBuffer
      /\ requests' = [requests EXCEPT ![Slot] = o.r]
      /\ origin' = [origin EXCEPT ![Slot] = message]
      /\ whole' = whole \cup {Slot} /\ place' = "known"
      /\ stream' = <<>>
      /\ pending' = SubSeq(pending, k + 1, Len(pending))
  BY <1>1, <1>2 DEF ReceiveReady, Appends, Receive
<1>5. PICK n : ReadyAt(k, o, n)
  BY <1>3, <1>4, ReadyCame
<1>6. pending' \in {<<>>, <<Crlf>>}
  <2>1. IsFramed(message) /\ k \in Nat
    BY <1>5, MessagesAssumption DEF ReadyAt
  <2>2. pending' = ToCome(message, n)
    BY <1>4, <1>5, <2>1, ToComeShrinks DEF ReadyAt
  <2>3. \/ n = Len(Wire(message)) /\ ToCome(message, n) = <<>>
        \/ /\ n = Len(Wire(message)) - 1 /\ message.coding = "chunked"
           /\ ToCome(message, n) = <<Crlf>>
    BY <1>5, <2>1, LittleToCome DEF ReadyAt
  <2> QED  BY <2>2, <2>3
<1>7. Slot \in Free /\ Slot \in 0 .. MaxRequests - 1
  BY <1>3, SlotIsFree
<1>8. DOMAIN requests = 0 .. MaxRequests - 1 /\ DOMAIN origin = 0 .. MaxRequests - 1
  BY <1>3 DEF TypesOK
<1>9. /\ requests'[Slot] = o.r /\ origin'[Slot] = message
      /\ \A i \in 0 .. MaxRequests - 1 :
           i # Slot => requests'[i] = requests[i] /\ origin'[i] = origin[i]
      /\ DOMAIN requests' = 0 .. MaxRequests - 1
  BY <1>4, <1>7, <1>8
<1>10. o.r.ready = TRUE
  BY <1>5 DEF ReadyAt, Delivers
<1>11. TypesOK'
  <2>1. requests' = [i \in 0 .. MaxRequests - 1 |-> requests'[i]]
    BY <1>4, <1>8
  <2>2. origin' = [i \in 0 .. MaxRequests - 1 |-> origin'[i]]
    BY <1>4, <1>8
  <2>3. \A i \in whole' : i \in 0 .. MaxRequests - 1 /\ requests'[i].ready
    <3>1. \A i \in whole : i \in 0 .. MaxRequests - 1 /\ requests[i].ready
      BY <1>3 DEF TypesOK
    <3> QED  BY <1>4, <1>7, <1>9, <1>10, <3>1
  <2> QED  BY <1>3, <2>1, <2>2, <2>3 DEF TypesOK
<1>12. DeliversMessage'
  <2>1. ASSUME NEW i \in 0 .. MaxRequests - 1, requests'[i].ready, i \in whole'
        PROVE  /\ requests'[i].method = ValidMethod(Lines[origin'[i].line.n].method)
               /\ requests'[i].url = origin'[i].line.n
               /\ requests'[i].headers = origin'[i].fields
               /\ requests'[i].body = Payload(origin'[i])
    <3>1. CASE i = Slot
      BY <1>5, <1>9, <3>1 DEF ReadyAt, Delivers
    <3>2. CASE i # Slot
      <4>1. requests'[i] = requests[i] /\ origin'[i] = origin[i]
        BY <1>9, <3>2
      <4>2. requests[i].ready /\ i \in DOMAIN requests /\ i \in whole
        BY <1>4, <1>8, <2>1, <3>2, <4>1
      <4> QED  BY <1>3, <4>1, <4>2 DEF DeliversMessage
    <3> QED  BY <3>1, <3>2
  <2> QED  BY <1>9, <2>1 DEF DeliversMessage
<1>13. Free' = Free \ {Slot}
  <2>1. \A i \in 0 .. MaxRequests - 1 : requests'[i].ready <=> (i = Slot \/ requests[i].ready)
    BY <1>9, <1>10
  <2> QED  BY <1>7, <2>1 DEF Free
<1>14. \A i \in Free' : requests'[i] = NewRequest
  <2>1. \A i \in Free \ {Slot} : requests[i] = NewRequest /\ i \in 0 .. MaxRequests - 1
    BY <1>3 DEF Alive, Free
  <2> QED  BY <1>9, <1>13, <2>1
<1>15. ASSUME Free' # {}
       PROVE  Alive' /\ Idle' /\ HoldsRest(requests'[Slot'], Unread(buff'), stream', message')
  <2>1. Slot' \in Free'
    <3>1. Free' \in SUBSET Nat
      BY SizesAssumption DEF Free
    <3>2. Min(Free') \in Free'
      BY <1>15, <3>1, MinIs
    <3> QED  BY <3>2 DEF Slot
  <2>2. requests'[Slot'] = NewRequest
    BY <1>14, <2>1
  <2>3. Idle'
    BY <1>4, <1>6, <2>2 DEF Idle
  <2>4. Alive'
    BY <1>4, <1>14, <2>3, FreshIs DEF Alive
  <2>5. HoldsRest(NewRequest, <<>>, <<>>, message')
    BY NewHolds
  <2>6. Unread(buff') = <<>>
    BY <1>4, FreshIs
  <2> QED  BY <1>4, <2>2, <2>3, <2>4, <2>5, <2>6
<1>16. BufferHoldsRest'
  <2>1. CASE Free' = {}
    BY <2>1 DEF BufferHoldsRest
  <2>2. CASE Free' # {}
    BY <1>15, <2>2, RestKept
  <2> QED  BY <2>1, <2>2
<1> QED  BY <1>11, <1>12, <1>15, <1>16 DEF HInv

\* A message that is begun when all before is handed over.
LEMMA BeginIs ==
  ASSUME place = "known", pending = <<>>, NEW m \in Messages, Begin(m)
  PROVE  /\ fault = "none" /\ message' = m /\ pending' = Wire(m) /\ place' = "known"
         /\ sent' = sent + 1
         /\ buff' = buff /\ requests' = requests /\ fault' = fault
         /\ origin' = origin /\ whole' = whole /\ stream' = stream
<1>1. Wire(m) \in Seq(Tokens)
  BY MessagesAssumption, WireShape
<1>2. <<>> \o Wire(m) = Wire(m)
  BY <1>1, ConcatEmptySeq
<1>3. place' = "known"
  BY DEF Begin
<1> QED  BY <1>2, <1>3 DEF Begin, parser, ghosts

LEMMA BeginKeeps ==
  ASSUME HInv, place = "known", pending = <<>>, NEW m \in Messages, Begin(m)
  PROVE  HInv'
<1>1. /\ fault = "none" /\ pending = <<>> /\ message' = m /\ pending' = Wire(m)
      /\ buff' = buff /\ requests' = requests /\ fault' = fault /\ place' = "known"
      /\ origin' = origin /\ whole' = whole /\ stream' = stream
  BY BeginIs
<1>2. IsFramed(m)
  BY MessagesAssumption
<1>3. TypesOK' /\ DeliversMessage'
  <2>1. pending' \in Seq(Tokens)
    BY <1>1, <1>2, WireShape
  <2> QED  BY <1>1, <2>1, SameTypes, SameDelivered DEF HInv
<1>4. Free' = Free /\ Slot' = Slot
  BY <1>1 DEF Free, Slot
<1>5. ASSUME buff.capacity > 0, Free # {}
      PROVE  Alive' /\ HoldsRest(requests'[Slot'], Unread(buff'), stream', message')
  <2>1. Alive
    BY <1>1, <1>5 DEF HInv
  <2>2. ~InStep
    <3> SUFFICES ASSUME InStep  PROVE FALSE
      OBVIOUS
    <3>1. PICK n : /\ n \in 1 .. Len(Wire(message)) /\ pending = ToCome(message, n)
                   /\ Waiting(message, n, requests[Slot], buff)
      BY DEF InStep
    <3>2. message \in Messages /\ IsFramed(message)
      BY MessagesAssumption DEF InStep
    <3>3. Wire(message) \in Seq(Tokens)
      BY <3>2, WireShape
    <3>4. PICK l : l = Len(Wire(message))
      OBVIOUS
    <3>5. l \in Nat /\ n \in 0 .. l /\ n < l
      BY <3>1, <3>3, <3>4, LenProperties DEF Waiting
    <3>6. Len(ToCome(message, n)) = l - n
      BY <3>2, <3>4, <3>5, ToComeLasts
    <3>7. Len(pending) = 0
      BY <1>1
    <3> QED  BY <3>1, <3>5, <3>6, <3>7
  <2>3. CASE Idle
    <3>1. Idle'
      BY <1>1, <1>4, <2>3 DEF Idle
    <3>2. Alive'
      BY <1>1, <1>4, <2>1, <3>1 DEF Alive
    <3>3. HoldsRest(NewRequest, <<>>, <<>>, m)
      BY NewHolds
    <3>4. requests'[Slot'] = NewRequest /\ Unread(buff') = <<>> /\ stream' = <<>>
      BY <1>1, <1>4, <2>3, FreshIs DEF Idle
    <3> QED  BY <1>1, <3>2, <3>3, <3>4
  <2>4. CASE Lost
    <3>1. Lost'
      BY <1>1, <1>4, <2>4 DEF Lost
    <3>2. Alive'
      BY <1>1, <1>4, <2>1, <3>1 DEF Alive
    <3>3. HoldsRest(requests[Slot], Unread(buff), stream, m)
      BY <2>4, HopelessHolds DEF Lost
    <3> QED  BY <1>1, <1>4, <3>2, <3>3
  <2> QED  BY <2>1, <2>2, <2>3, <2>4 DEF Alive
<1>6. BufferHoldsRest'
  <2>1. CASE buff.capacity > 0 /\ Free # {}
    BY <1>5, <2>1, RestKept
  <2>2. CASE ~(buff.capacity > 0 /\ Free # {})
    BY <1>1, <1>4, <2>2 DEF BufferHoldsRest
  <2> QED  BY <2>1, <2>2
<1> QED  BY <1>1, <1>3, <1>4, <1>5, <1>6 DEF HInv

\* A message that is begun before: from then on the place is not known.
LEMMA JoinKeeps ==
  ASSUME HInv, place # "known" \/ pending # <<>>, NEW m \in Messages, Begin(m)
  PROVE  HInv'
<1>1. /\ pending' = pending \o Wire(m) /\ requests' = requests /\ origin' = origin
      /\ whole' = whole
  BY DEF Begin, parser, ghosts
<1>2. pending' \in Seq(Tokens)
  <2>1. Wire(m) \in Seq(Tokens)
    BY MessagesAssumption, WireShape
  <2>2. pending \in Seq(Tokens)
    BY DEF HInv, TypesOK
  <2> QED  BY <1>1, <2>1, <2>2, ConcatProperties
<1>3. place' # "known"
  BY DEF Begin
<1> QED  BY <1>1, <1>2, <1>3, SameTypes, SameDelivered DEF HInv

\* A piece that is parsed at a place that is not known.
LEMMA AwayKeeps ==
  ASSUME HInv, place # "known", NEW k \in 1 .. Len(pending), ReceiveMore(k) \/ ReceiveReady(k)
  PROVE  HInv'
<1>1. PICK r : r = Parsed(k).r
  OBVIOUS
<1>2. /\ requests' = [requests EXCEPT ![Slot] = r] /\ whole' = whole /\ Free # {}
      /\ Receive(k) /\ place' # "known"
  BY <1>1 DEF ReceiveMore, ReceiveReady, Appends, KeepsPlace
<1>3. PICK m : origin' = origin \/ origin' = [origin EXCEPT ![Slot] = m]
  BY DEF ReceiveMore, ReceiveReady, KeepsPlace
<1>4. pending' \in Seq(Tokens)
  BY <1>2, PendingShrinks DEF HInv
<1>5. TypesOK' /\ DeliversMessage'
  BY <1>2, <1>3, <1>4, OthersDelivered DEF HInv
<1> QED  BY <1>2, <1>5 DEF HInv

\* The parser keeps what it has, and nothing more is parsed.
LEMMA StopKeeps ==
  ASSUME HInv, UNCHANGED <<parser, stream, message>>, KeepsPlace, pending' \in Seq(Tokens),
         fault' # "none" \/ Free = {}
  PROVE  HInv'
<1>1. /\ requests' = requests /\ buff' = buff /\ place' = place
      /\ origin' = origin /\ whole' = whole
  BY DEF parser, KeepsPlace
<1>2. TypesOK' /\ DeliversMessage'
  BY <1>1, SameTypes, SameDelivered DEF HInv
<1>3. place' = "known" => BufferHoldsRest'
  BY <1>1, SameRest DEF HInv
<1>4. Free' = Free
  BY <1>1 DEF Free
<1> QED  BY <1>2, <1>3, <1>4 DEF HInv

LEMMA ReceiveKeeps ==
  ASSUME HInv, NEW k \in 1 .. Len(pending),
         \/ ReceiveLimit(k) \/ ReceiveSpins(k) \/ ReceiveTooMuch(k)
         \/ ReceiveError(k) \/ ReceiveNoMemory(k) \/ ReceiveOverrun(k)
  PROVE  HInv'
<1>1. pending' \in Seq(Tokens) /\ message' = message
  <2>1. Receive(k)
    BY DEF ReceiveLimit, ReceiveSpins, ReceiveTooMuch, ReceiveError, ReceiveNoMemory,
           ReceiveOverrun, Appends
  <2> QED  BY <2>1, PendingShrinks DEF HInv, Receive
<1>2. CASE ReceiveLimit(k)
  BY <1>1, <1>2, StopKeeps DEF ReceiveLimit
<1>3. CASE ReceiveSpins(k)
  BY <1>1, <1>3, StopKeeps DEF ReceiveSpins
<1>4. CASE ReceiveTooMuch(k)
  BY <1>1, <1>4, FailsKeeps DEF ReceiveTooMuch
<1>5. CASE ReceiveError(k)
  BY <1>1, <1>5, FailsKeeps DEF ReceiveError, Appends
<1>6. CASE ReceiveNoMemory(k)
  BY <1>1, <1>6, FailsKeeps DEF ReceiveNoMemory, Appends
<1>7. CASE ReceiveOverrun(k)
  BY <1>1, <1>7, StopKeeps DEF ReceiveOverrun
<1> QED  BY <1>2, <1>3, <1>4, <1>5, <1>6, <1>7

LEMMA HNext == HInv /\ [Next]_vars => HInv'
<1> SUFFICES ASSUME HInv, [Next]_vars  PROVE HInv'
  OBVIOUS
<1>1. CASE \E m \in Messages : Begin(m)
  <2>1. PICK m \in Messages : Begin(m)
    BY <1>1
  <2>2. CASE place = "known" /\ pending = <<>>
    BY <2>1, <2>2, BeginKeeps
  <2>3. CASE place # "known" \/ pending # <<>>
    BY <2>1, <2>3, JoinKeeps
  <2> QED  BY <2>2, <2>3
<1>2. CASE \E k \in 1 .. Len(pending) :
              \/ ReceiveLimit(k) \/ ReceiveSpins(k) \/ ReceiveTooMuch(k)
              \/ ReceiveError(k) \/ ReceiveNoMemory(k) \/ ReceiveOverrun(k)
              \/ ReceiveMore(k) \/ ReceiveReady(k)
  <2>1. PICK k \in 1 .. Len(pending) :
              \/ ReceiveLimit(k) \/ ReceiveSpins(k) \/ ReceiveTooMuch(k)
              \/ ReceiveError(k) \/ ReceiveNoMemory(k) \/ ReceiveOverrun(k)
              \/ ReceiveMore(k) \/ ReceiveReady(k)
    BY <1>2
  <2>2. CASE ReceiveMore(k) \/ ReceiveReady(k)
    <3>1. CASE place = "known"
      BY <2>2, <3>1, MoreKeeps, ReadyKeeps
    <3>2. CASE place # "known"
      BY <2>2, <3>2, AwayKeeps
    <3> QED  BY <3>1, <3>2
  <2>3. CASE ~(ReceiveMore(k) \/ ReceiveReady(k))
    BY <2>1, <2>3, ReceiveKeeps
  <2> QED  BY <2>2, <2>3
<1>3. CASE Exit
  <2>1. ~(buff'.capacity > 0)
    BY <1>3 DEF Exit, NoBuffer
  <2>2. UNCHANGED <<requests, origin, whole>> /\ pending' \in Seq(Tokens)
    BY <1>3 DEF Exit, client, ghosts, HInv, TypesOK
  <2>3. TypesOK' /\ DeliversMessage'
    BY <2>2, SameTypes, SameDelivered DEF HInv
  <2> QED  BY <2>1, <2>3, NothingParsed
<1>4. CASE UNCHANGED vars
  <2>1. /\ buff' = buff /\ requests' = requests /\ fault' = fault /\ message' = message
        /\ pending' = pending /\ origin' = origin /\ stream' = stream
        /\ place' = place /\ whole' = whole
    BY <1>4 DEF vars, parser, client, ghosts
  <2>2. TypesOK' /\ DeliversMessage'
    BY <2>1, SameDelivered DEF HInv, TypesOK
  <2>3. place' = "known" => BufferHoldsRest'
    BY <2>1, SameRest DEF HInv, parser
  <2>4. Free' = Free /\ Slot' = Slot
    BY <2>1 DEF Free, Slot
  <2>5. Alive => Alive'
    BY <2>1, <2>4 DEF Alive, Idle, InStep, Lost
  <2> QED  BY <2>1, <2>2, <2>3, <2>4, <2>5 DEF HInv
<1> QED  BY <1>1, <1>2, <1>3, <1>4 DEF Next

\* As long as no message was begun before all of the one before was handed over,
\* every call of onion_http_parser_request leaves buffer, open request and what is
\* still to come in one of three relations: nothing of a message has arrived, n tokens
\* of it have, or the request can only be given up (parser.c:40).
THEOREM HttpInvariant == Spec => []HInv
BY HInit, HNext, PTL DEF Spec

\* As long as no message was begun before all of the one before was handed over, the
\* offsets of the open request name the bytes they should, although the buffer is
\* consumed, moved to the front, enlarged and decoded in place between two calls
\* (http.c:116, request.c:282).
THEOREM HttpBufferHoldsRest == Spec => [](place = "known" => BufferHoldsRest)
<1>1. HInv => (place = "known" => BufferHoldsRest)
  BY DEF HInv
<1> QED  BY <1>1, HttpInvariant, PTL

\* A request made of pieces of one message only is ready with the method, the target,
\* the header fields and the body of that message, wherever it was cut, and stays so
\* whatever is received afterwards (parser.c:40).
THEOREM HttpDeliversMessage == Spec => []DeliversMessage
<1>1. HInv => DeliversMessage
  BY DEF HInv
<1> QED  BY <1>1, HttpInvariant, PTL

(***************************************************************************)
(* Every message served: as long as nothing happened that the code does    *)
(* not cope with, the messages fill the indices one after the other.       *)
(***************************************************************************)

\* The first n indices are those whose requests are ready.
ReadyTo(n) == \A i \in 0 .. MaxRequests - 1 : requests[i].ready <=> i < n

\* A message is on its way to the index behind the requests that are ready.
UnderWay ==
    /\ sent \in 1 .. MaxRequests /\ ReadyTo(sent - 1)
    /\ message \in Messages /\ IsAcceptable(message)
    /\ IsBuffer(buff) /\ buff.capacity = LineMax
    /\ GoesOnWith

\* Between two messages.
AtRest ==
    /\ sent \in 0 .. MaxRequests /\ ReadyTo(sent)
    /\ sent < MaxRequests => Idle

Clean ==
    clean /\ fault = "none" =>
        /\ place = "known"
        /\ pending = <<>> => AtRest
        /\ pending # <<>> => UnderWay

\* What a message that is still waited for has left in the buffer.
LEMMA WaitingShort ==
  ASSUME NEW m, IsFramed(m), NEW n, NEW r, NEW b, Waiting(m, n, r, b)
  PROVE  Len(Unread(b)) \in Nat /\ Len(Unread(b)) <= n
<1>1. Len(Wire(m)) \in Nat
  <2>1. Wire(m) \in Seq(Tokens)
    BY WireShape
  <2> QED  BY <2>1, LenProperties
<1>2. ASSUME n \in 0 .. Len(Wire(m)), NEW i \in 0 .. n
      PROVE  Len(Sent(m, n)) = n /\ Len(From(Sent(m, n), i)) = n - i
  BY <1>2, SentIs
<1>3. CASE Started(m, n, r, b)
  <2>1. n \in 1 .. Len(Wire(m)) /\ Unread(b) = Sent(m, n)
    BY <1>3 DEF Started
  <2>2. n \in Nat /\ n \in 0 .. Len(Wire(m)) /\ n \in 0 .. n
    BY <1>1, <2>1
  <2> QED  BY <1>2, <2>1, <2>2
<1>4. CASE InHeaders(m, n, r, b)
  <2>1. n \in 2 .. Len(Wire(m)) /\ Unread(b) = From(Sent(m, n), 2)
    BY <1>4 DEF InHeaders
  <2>2. n \in Nat /\ n \in 0 .. Len(Wire(m)) /\ 2 \in 0 .. n /\ n - 2 \in Nat /\ n - 2 <= n
    BY <1>1, <2>1
  <2>3. Len(Unread(b)) = n - 2
    BY <1>2, <2>1, <2>2
  <2> QED  BY <2>2, <2>3
<1>5. PICK h : h = HeadEnd(m)
  OBVIOUS
<1>6. ASSUME n \in h .. Len(Wire(m))
      PROVE  /\ n \in 0 .. Len(Wire(m)) /\ h \in 0 .. n
             /\ n - h \in Nat /\ n - h <= n
  <2>1. h \in Nat
    BY <1>5, <1>6, BodyRead
  <2> QED  BY <1>1, <1>6, <2>1
<1>7. CASE InLength(m, n, r, b)
  <2>1. n \in h .. Len(Wire(m)) /\ Unread(b) = From(Sent(m, n), h)
    BY <1>5, <1>7 DEF InLength
  <2>2. Len(Unread(b)) = n - h
    BY <1>2, <1>6, <2>1
  <2> QED  BY <1>6, <2>1, <2>2
<1>8. CASE InChunks(m, n, r, b)
  <2>1. n \in h .. Len(Wire(m)) /\ Len(Unread(b)) = n - h
    BY <1>5, <1>8 DEF InChunks, AtChunk
  <2> QED  BY <1>6, <2>1
<1> QED  BY <1>3, <1>4, <1>7, <1>8 DEF Waiting

LEMMA UnderWayFits ==
  ASSUME TypesOK, UnderWay, NEW k \in 1 .. Len(pending)
  PROVE  /\ Grows(buff, k) /\ BuffAppend(buff, Piece(k)).capacity = LineMax
         /\ Free # {} /\ Slot = sent - 1 /\ buff.capacity > 0
<1>1. PICK p : p = Piece(k)
  OBVIOUS
<1>2. /\ p \in Seq(Tokens) /\ Len(p) = k /\ k \in Nat /\ k # 0
      /\ Len(pending) \in Nat /\ k <= Len(pending)
  BY <1>1, PieceIs
<1>3. PICK w : w = Len(Wire(message))
  OBVIOUS
<1>4. IsFramed(message) /\ w \in Nat /\ w < LineMax
  BY <1>3, MessagesAssumption, AcceptableIs DEF UnderWay
<1>5. LineMax \in Nat /\ LineMax > 0 /\ MaxRequests \in Nat
  BY SizesAssumption
<1>6. Len(Unread(buff)) + k <= LineMax
  <2>1. CASE InStep
    <3>1. PICK n : /\ n \in 1 .. w /\ pending = ToCome(message, n)
                   /\ Waiting(message, n, requests[Slot], buff)
      BY <1>3, <2>1 DEF InStep
    <3>2. PICK u : u = Len(Unread(buff))
      OBVIOUS
    <3>3. u \in Nat /\ u <= n
      BY <1>4, <3>1, <3>2, WaitingShort
    <3>4. n \in 0 .. w /\ n \in Nat
      BY <1>4, <3>1
    <3>5. Len(pending) = w - n
      BY <1>3, <1>4, <3>1, <3>4, ToComeLasts
    <3>6. u + k <= LineMax
      BY <1>2, <1>4, <1>5, <3>3, <3>4, <3>5
    <3> QED  BY <3>2, <3>6
  <2>2. CASE Idle /\ pending = Wire(message)
    <3>1. Unread(buff) = <<>>
      BY <2>2, FreshIs DEF Idle
    <3>2. Len(Unread(buff)) = 0
      BY <3>1
    <3>3. 0 + k <= LineMax
      BY <1>2, <1>3, <1>4, <1>5, <2>2
    <3> QED  BY <3>2, <3>3
  <2> QED  BY <2>1, <2>2 DEF UnderWay, GoesOnWith
<1>7. Grows(buff, Len(p)) /\ BuffAppend(buff, p).capacity = LineMax
  <2>1. IsBuffer(buff) /\ buff.capacity = LineMax /\ Len(Unread(buff)) + Len(p) <= LineMax
    BY <1>2, <1>6 DEF UnderWay
  <2> QED  BY <1>2, <2>1, RoomEnough
<1>8. Free = sent - 1 .. MaxRequests - 1
  <2>1. \A i \in 0 .. MaxRequests - 1 : requests[i].ready <=> i < sent - 1
    BY DEF UnderWay, ReadyTo
  <2>2. sent \in 1 .. MaxRequests
    BY DEF UnderWay
  <2> QED  BY <1>5, <2>1, <2>2 DEF Free
<1>9. Free # {} /\ Slot = sent - 1
  <2>1. sent \in 1 .. MaxRequests
    BY DEF UnderWay
  <2>2. /\ sent - 1 \in Free /\ Free \in SUBSET Nat
        /\ \A i \in Free : i >= sent - 1
    BY <1>5, <1>8, <2>1
  <2>3. Slot \in Free /\ \A i \in Free : Slot <= i
    BY <2>2, MinIs DEF Slot
  <2>4. Slot \in Nat /\ Slot <= sent - 1 /\ Slot >= sent - 1 /\ sent \in Nat
    BY <1>5, <2>1, <2>2, <2>3
  <2> QED  BY <2>2, <2>4
<1> QED  BY <1>1, <1>2, <1>5, <1>7, <1>9 DEF UnderWay

\* Which requests are ready, when the request at Slot becomes r.
LEMMA ReadyBecomes ==
  ASSUME TypesOK, UnderWay, Slot = sent - 1, NEW r,
         requests' = [requests EXCEPT ![Slot] = r], sent' = sent
  PROVE  /\ r.ready = FALSE => ReadyTo(sent - 1)'
         /\ r.ready = TRUE => ReadyTo(sent)'
<1>1. Slot = sent - 1
  OBVIOUS
<1>2. PICK l : l = sent - 1
  OBVIOUS
<1>3. sent \in 1 .. MaxRequests /\ MaxRequests \in Nat
  BY SizesAssumption DEF UnderWay
<1>4. l \in 0 .. MaxRequests - 1 /\ sent = l + 1
  BY <1>2, <1>3
<1>5. \A i \in 0 .. MaxRequests - 1 : requests[i].ready <=> i < l
  BY <1>2 DEF UnderWay, ReadyTo
<1>6. DOMAIN requests = 0 .. MaxRequests - 1
  BY DEF TypesOK
<1>7. /\ requests'[l] = r
      /\ \A i \in 0 .. MaxRequests - 1 : i # l => requests'[i] = requests[i]
  BY <1>1, <1>2, <1>4, <1>6
<1>8. ASSUME r.ready = FALSE, NEW i \in 0 .. MaxRequests - 1
      PROVE  requests'[i].ready <=> i < l
  <2>1. CASE i = l
    <3>1. ~(i < l)
      BY <1>4, <2>1
    <3> QED  BY <1>7, <1>8, <2>1, <3>1
  <2>2. CASE i # l
    BY <1>5, <1>7, <2>2
  <2> QED  BY <2>1, <2>2
<1>9. ASSUME r.ready = TRUE, NEW i \in 0 .. MaxRequests - 1
      PROVE  requests'[i].ready <=> i < sent
  <2>1. CASE i = l
    <3>1. i < sent
      BY <1>4, <2>1
    <3> QED  BY <1>7, <1>9, <2>1, <3>1
  <2>2. CASE i # l
    <3>1. i < l <=> i < sent
      BY <1>4, <2>2
    <3>2. requests'[i].ready <=> i < l
      BY <1>5, <1>7, <2>2
    <3> QED  BY <3>1, <3>2
  <2> QED  BY <2>1, <2>2
<1> QED  BY <1>2, <1>8, <1>9 DEF ReadyTo

\* What comes of a piece of an acceptable message.
LEMMA UnderWayComes ==
  ASSUME TypesOK, UnderWay, NEW k \in 1 .. Len(pending)
  PROVE  /\ Parsed(k).ret \notin {"error", "overrun"}
         /\ Parsed(k).ret = "more" =>
              /\ IsBuffer(Parsed(k).b) /\ Parsed(k).b.capacity = LineMax
              /\ \E n : /\ n \in 1 .. Len(Wire(message)) /\ k <= n
                        /\ stream \o Piece(k) = Sent(message, n)
                        /\ pending = ToCome(message, n - k)
                        /\ Waiting(message, n, Parsed(k).r, Parsed(k).b)
<1>1. PICK a : a = BuffAppend(buff, Piece(k))
  OBVIOUS
<1>2. PICK o : o = Parsed(k)
  OBVIOUS
<1>3. Grows(buff, k) /\ a.capacity = LineMax
  BY <1>1, UnderWayFits
<1>4. IsBuffer(buff) /\ GoesOnWith /\ IsAcceptable(message)
  BY DEF UnderWay
<1>5. PICK n : CameOf(k, n, stream \o Piece(k), a, o)
  <2>1. \E n : CameOf(k, n, stream \o Piece(k), BuffAppend(buff, Piece(k)), Parsed(k))
    BY <1>3, <1>4, ComesOf
  <2> QED  BY <1>1, <1>2, <2>1
<1>6. /\ stream \o Piece(k) = Sent(message, n) /\ n \in 1 .. Len(Wire(message))
      /\ pending = ToCome(message, n - k) /\ k <= n
      /\ ParsedTo(message, n, a, o)
  BY <1>5 DEF CameOf
<1>7. o.ret \notin {"error", "overrun"}
  BY <1>4, <1>6 DEF ParsedTo
<1>8. ASSUME o.ret = "more"
      PROVE  IsBuffer(o.b) /\ o.b.capacity = LineMax /\ Waiting(message, n, o.r, o.b)
  <2>1. IsBuffer(o.b) /\ o.b.capacity = a.capacity /\ Waiting(message, n, o.r, o.b)
    BY <1>4, <1>6, <1>8 DEF ParsedTo
  <2> QED  BY <1>3, <2>1
<1> QED  BY <1>2, <1>6, <1>7, <1>8

LEMMA MoreCleans ==
  ASSUME HInv, place = "known", UnderWay, NEW k \in 1 .. Len(pending), ReceiveMore(k)
  PROVE  pending' # <<>> /\ UnderWay'
<1>1. PICK s : s = stream \o Piece(k)
  OBVIOUS
<1>2. PICK o : o = Parsed(k)
  OBVIOUS
<1>3. /\ o.ret = "more" /\ buff' = o.b /\ requests' = [requests EXCEPT ![Slot] = o.r]
      /\ stream' = s /\ origin' = origin /\ sent' = sent /\ message' = message
      /\ pending' = SubSeq(pending, k + 1, Len(pending)) /\ whole' = whole
  BY <1>1, <1>2 DEF ReceiveMore, Appends, Receive, KeepsPlace
<1>4. TypesOK /\ DeliversMessage
  BY DEF HInv
<1>5. IsBuffer(o.b) /\ o.b.capacity = LineMax
  BY <1>2, <1>3, <1>4, UnderWayComes
<1>6. PICK n : /\ n \in 1 .. Len(Wire(message)) /\ k <= n /\ s = Sent(message, n)
               /\ pending = ToCome(message, n - k)
               /\ Waiting(message, n, o.r, o.b)
  BY <1>1, <1>2, <1>3, <1>4, UnderWayComes
<1>7. message \in Messages /\ IsFramed(message) /\ k \in Nat
  BY MessagesAssumption DEF UnderWay
<1>8. pending' = ToCome(message, n)
  BY <1>3, <1>6, <1>7, ToComeShrinks
<1>9. pending' # <<>> /\ pending' \in Seq(Tokens)
  <2>1. PICK w : w = Len(Wire(message))
    OBVIOUS
  <2>2. w \in Nat /\ n \in 0 .. w /\ n < w
    <3>1. Wire(message) \in Seq(Tokens)
      BY <1>7, WireShape
    <3>2. w \in Nat
      BY <2>1, <3>1, LenProperties
    <3> QED  BY <1>6, <2>1, <3>2 DEF Waiting
  <2>3. Len(pending') = w - n /\ pending' \in Seq(Tokens)
    BY <1>7, <1>8, <2>1, <2>2, ToComeLasts
  <2>4. Len(pending') # 0
    BY <2>2, <2>3
  <2> QED  BY <2>3, <2>4
<1>10. o.r.ready = FALSE
  BY <1>6, <1>7, WaitingHolds
<1>11. Free # {} /\ Slot \in 0 .. MaxRequests - 1
  BY <1>4, UnderWayFits, SlotIsFree
<1>12. Slot' = Slot
  <2>1. PICK r : r = o.r
    OBVIOUS
  <2> QED  BY <1>3, <1>4, <1>9, <1>10, <1>11, <2>1, StillDelivered
<1>13. requests'[Slot'] = o.r
  <2>1. DOMAIN requests = 0 .. MaxRequests - 1
    BY <1>4 DEF TypesOK
  <2> QED  BY <1>3, <1>11, <1>12, <2>1
<1>14. InStep'
  BY <1>3, <1>6, <1>7, <1>8, <1>13 DEF InStep
<1>15. ReadyTo(sent - 1)'
  <2>1. PICK r : r = o.r
    OBVIOUS
  <2>2. r.ready = FALSE
    BY <1>10, <2>1
  <2>3. /\ requests' = [requests EXCEPT ![Slot] = r] /\ sent' = sent /\ TypesOK
        /\ Slot = sent - 1
    BY <1>3, <1>4, <2>1, UnderWayFits
  <2>4. r.ready = FALSE => ReadyTo(sent - 1)'
    BY <2>2, <2>3, ReadyBecomes
  <2> QED  BY <2>2, <2>4
<1> QED  BY <1>3, <1>5, <1>9, <1>14, <1>15 DEF UnderWay, GoesOnWith

LEMMA ReadyCleans ==
  ASSUME HInv, place = "known", UnderWay, NEW k \in 1 .. Len(pending), ReceiveReady(k),
         ~LeavesLineEnd
  PROVE  pending' = <<>> /\ AtRest'
<1>1. PICK s : s = stream \o Piece(k)
  OBVIOUS
<1>2. PICK o : o = Parsed(k)
  OBVIOUS
<1>3. TypesOK /\ Came(k, s, o)
  BY <1>1, <1>2, AppendsHas DEF ReceiveReady
<1>4. /\ o.ret = "ready" /\ requests' = [requests EXCEPT ![Slot] = o.r] /\ sent' = sent
      /\ pending' = SubSeq(pending, k + 1, Len(pending))
  BY <1>2 DEF ReceiveReady, Appends, Receive
<1>5. PICK n : ReadyAt(k, o, n)
  BY <1>3, <1>4, ReadyCame
<1>6. pending' = <<>>
  <2>1. IsFramed(message) /\ k \in Nat
    BY <1>5, MessagesAssumption DEF ReadyAt
  <2>2. pending' = ToCome(message, n)
    BY <1>4, <1>5, <2>1, ToComeShrinks DEF ReadyAt
  <2>3. \/ ToCome(message, n) = <<>>
        \/ message.coding = "chunked" /\ ToCome(message, n) = <<Crlf>>
    BY <1>5, <2>1, LittleToCome DEF ReadyAt
  <2> QED  BY <2>2, <2>3 DEF LeavesLineEnd
<1>7. o.r.ready = TRUE
  BY <1>5 DEF ReadyAt, Delivers
<1>8. ReadyTo(sent)'
  <2>1. PICK r : r = o.r
    OBVIOUS
  <2>2. r.ready = TRUE
    BY <1>7, <2>1
  <2>3. /\ requests' = [requests EXCEPT ![Slot] = r] /\ sent' = sent /\ TypesOK
        /\ Slot = sent - 1
    BY <1>3, <1>4, <2>1, UnderWayFits
  <2>4. r.ready = TRUE => ReadyTo(sent)'
    BY <2>2, <2>3, ReadyBecomes
  <2> QED  BY <2>2, <2>4
<1>9. ASSUME sent' < MaxRequests  PROVE Idle'
  <2>1. sent' \in 1 .. MaxRequests /\ MaxRequests \in Nat
    BY <1>4, SizesAssumption DEF UnderWay
  <2>2. sent' \in 0 .. MaxRequests - 1 /\ ~(sent' < sent')
    BY <1>9, <2>1
  <2>3. sent' \in Free'
    BY <1>8, <2>2 DEF ReadyTo, Free
  <2> QED  BY <2>3, ReadyKeeps
<1>10. sent' \in 0 .. MaxRequests
  <2>1. sent \in 1 .. MaxRequests /\ MaxRequests \in Nat
    BY SizesAssumption DEF UnderWay
  <2> QED  BY <1>4, <2>1
<1> QED  BY <1>6, <1>8, <1>9, <1>10 DEF AtRest

LEMMA BeginCleans ==
  ASSUME HInv, place = "known", pending = <<>>, AtRest, NEW m \in Messages, Begin(m),
         IsAcceptable(m), sent < MaxRequests
  PROVE  pending' # <<>> /\ UnderWay'
<1>1. /\ message' = m /\ pending' = Wire(m) /\ sent' = sent + 1
      /\ buff' = buff /\ requests' = requests /\ stream' = stream
  BY BeginIs
<1>2. pending' # <<>>
  <2>1. IsFramed(m)
    BY MessagesAssumption
  <2>2. Wire(m) \in Seq(Tokens) /\ HeadEnd(m) > 0 /\ Len(Wire(m)) >= HeadEnd(m)
    <3>1. /\ Wire(m) \in Seq(Tokens) /\ Len(m.fields) \in Nat
          /\ Len(BodyOnWire(m)) \in Nat
          /\ Len(Wire(m)) = HeadEnd(m) + Len(BodyOnWire(m))
      BY <2>1, WireShape
    <3>2. HeadEnd(m) \in Nat /\ HeadEnd(m) > 0
      BY <3>1 DEF HeadEnd
    <3> QED  BY <3>1, <3>2
  <2>3. Len(Wire(m)) # 0
    BY <2>1, <2>2, WireShape DEF HeadEnd
  <2> QED  BY <1>1, <2>2, <2>3
<1>3. Idle /\ sent \in 0 .. MaxRequests /\ MaxRequests \in Nat /\ ReadyTo(sent)
  BY SizesAssumption DEF AtRest
<1>4. sent' \in 1 .. MaxRequests /\ sent' - 1 = sent
  BY <1>1, <1>3
<1>5. ReadyTo(sent - 1)'
  BY <1>1, <1>3, <1>4 DEF ReadyTo
<1>6. Slot' = Slot
  BY <1>1 DEF Slot, Free
<1>7. Idle'
  BY <1>1, <1>3, <1>6 DEF Idle
<1>8. IsBuffer(buff') /\ buff'.capacity = LineMax
  BY <1>1, <1>3, FreshIs DEF Idle
<1> QED  BY <1>1, <1>2, <1>4, <1>5, <1>7, <1>8 DEF UnderWay, GoesOnWith

LEMMA CleanInit == Init => Clean
<1> SUFFICES ASSUME Init  PROVE Clean
  OBVIOUS
<1>1. MaxRequests \in Nat \ {0} /\ sent = 0 /\ pending = <<>>
  BY SizesAssumption DEF Init
<1>2. \A i \in 0 .. MaxRequests - 1 : requests[i] = NewRequest
  BY DEF Init
<1>3. ReadyTo(sent)
  <2>1. \A i \in 0 .. MaxRequests - 1 : ~requests[i].ready
    BY <1>2 DEF NewRequest
  <2>2. \A i \in 0 .. MaxRequests - 1 : ~(i < sent)
    BY <1>1
  <2> QED  BY <2>1, <2>2 DEF ReadyTo
<1>4. Idle
  <2>1. 0 \in Free
    BY <1>1, <1>2 DEF Free, NewRequest
  <2>2. requests[Slot] = NewRequest
    BY <1>2, <2>1, SlotIsFree
  <2> QED  BY <2>2 DEF Idle, Init
<1> QED  BY <1>1, <1>3, <1>4 DEF Clean, AtRest, Init

LEMMA CleanNext == HInv /\ Clean /\ [Next]_vars => Clean'
<1> SUFFICES ASSUME HInv, Clean, [Next]_vars, clean', fault' = "none"
             PROVE  /\ place' = "known"
                    /\ (pending' = <<>> => AtRest') /\ (pending' # <<>> => UnderWay')
  BY DEF Clean
<1>1. ASSUME NEW m \in Messages, Begin(m)
      PROVE  place' = "known" /\ pending' # <<>> /\ UnderWay'
  <2>1. fault = "none" /\ pending = <<>> /\ clean /\ IsAcceptable(m) /\ sent < MaxRequests
    BY <1>1 DEF Begin
  <2>2. AtRest /\ place = "known"
    BY <2>1 DEF Clean
  <2>3. place' = "known"
    BY <1>1, <2>1, <2>2, BeginIs
  <2> QED  BY <1>1, <2>1, <2>2, <2>3, BeginCleans
<1>2. ASSUME NEW k \in 1 .. Len(pending), fault = "none", clean
      PROVE  TypesOK /\ UnderWay /\ place = "known"
  <2>1. TypesOK
    BY DEF HInv
  <2>2. pending # <<>>
    <3> SUFFICES ASSUME pending = <<>>  PROVE FALSE
      OBVIOUS
    <3>1. Len(pending) = 0
      OBVIOUS
    <3> QED  BY <1>2, <3>1
  <2> QED  BY <1>2, <2>1, <2>2 DEF Clean
<1>3. ASSUME NEW k \in 1 .. Len(pending), ReceiveMore(k) \/ ReceiveReady(k)
      PROVE  /\ place' = "known"
             /\ (pending' = <<>> => AtRest') /\ (pending' # <<>> => UnderWay')
  <2>1. fault = "none" /\ clean /\ ~LeavesLineEnd
    BY <1>3 DEF ReceiveMore, ReceiveReady, Appends, Receive
  <2>2. UnderWay /\ place = "known"
    BY <1>2, <2>1
  <2>3. place' = "known"
    BY <1>3, <2>2 DEF ReceiveMore, ReceiveReady, KeepsPlace
  <2> QED  BY <1>3, <2>1, <2>2, <2>3, MoreCleans, ReadyCleans
<1>4. ASSUME NEW k \in 1 .. Len(pending),
             \/ ReceiveLimit(k) \/ ReceiveSpins(k) \/ ReceiveTooMuch(k)
             \/ ReceiveError(k) \/ ReceiveNoMemory(k) \/ ReceiveOverrun(k)
      PROVE  FALSE
  <2>1. fault = "none" /\ clean
    BY <1>4 DEF ReceiveLimit, ReceiveSpins, ReceiveTooMuch, ReceiveError,
                ReceiveNoMemory, ReceiveOverrun, Appends, Receive
  <2>2. TypesOK /\ UnderWay
    BY <1>2, <2>1
  <2>3. Grows(buff, k) /\ Free # {} /\ Parsed(k).ret \notin {"error", "overrun"}
    BY <2>2, UnderWayFits, UnderWayComes
  <2> QED  BY <1>4, <2>3 DEF ReceiveLimit, ReceiveSpins, ReceiveTooMuch, ReceiveError,
                             ReceiveNoMemory, ReceiveOverrun
<1>5. ~Exit
  BY DEF Exit
<1>6. CASE UNCHANGED vars
  <2>1. /\ buff' = buff /\ requests' = requests /\ fault' = fault /\ message' = message
        /\ pending' = pending /\ sent' = sent /\ stream' = stream /\ clean' = clean
        /\ place' = place
    BY <1>6 DEF vars, parser, client, ghosts
  <2>2. Free' = Free /\ Slot' = Slot
    BY <2>1 DEF Free, Slot
  <2>3. Idle <=> Idle'
    BY <2>1, <2>2 DEF Idle
  <2>4. InStep <=> InStep'
    BY <2>1, <2>2 DEF InStep
  <2>5. ReadyTo(sent)' <=> ReadyTo(sent)
    BY <2>1 DEF ReadyTo
  <2>6. ReadyTo(sent - 1)' <=> ReadyTo(sent - 1)
    BY <2>1 DEF ReadyTo
  <2>7. AtRest => AtRest'
    BY <2>1, <2>3, <2>5 DEF AtRest
  <2>8. UnderWay => UnderWay'
    BY <2>1, <2>3, <2>4, <2>6 DEF UnderWay, GoesOnWith
  <2> QED  BY <2>1, <2>7, <2>8 DEF Clean
<1> QED  BY <1>1, <1>3, <1>4, <1>5, <1>6 DEF Next

\* As long as nothing happened that the code does not cope with (an error, a refusal
\* of memory, the line end the parser leaves behind a chunked message, more messages
\* than indices, a message begun before all of the one before was handed over), every
\* message that has arrived is a request that is ready, and no index was skipped,
\* wherever the messages were cut (parser.c:40).
THEOREM HttpServesAll == Spec => []ServesAll
<1>1. HInv /\ Clean => ServesAll
  <2> SUFFICES ASSUME HInv, Clean, clean, pending = <<>>, fault = "none"
               PROVE  {i \in DOMAIN requests : requests[i].ready} = 0 .. sent - 1
    BY DEF ServesAll
  <2>1. sent \in 0 .. MaxRequests /\ MaxRequests \in Nat /\ ReadyTo(sent)
    BY SizesAssumption DEF Clean, AtRest
  <2>2. DOMAIN requests = 0 .. MaxRequests - 1
    BY DEF HInv, TypesOK
  <2>3. \A i \in 0 .. MaxRequests - 1 : requests[i].ready <=> i < sent
    BY <2>1 DEF ReadyTo
  <2> QED  BY <2>1, <2>2, <2>3
<1>2. Spec => []Clean
  BY HttpInvariant, CleanInit, CleanNext, PTL DEF Spec
<1> QED  BY <1>1, <1>2, HttpInvariant, PTL

=============================================================================
