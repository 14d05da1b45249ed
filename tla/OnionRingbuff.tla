---------------------------- MODULE OnionRingbuff ----------------------------
(***************************************************************************)
(* The ring buffer of src/onion/ringbuff.c: records, each behind a header  *)
(* that holds its length, are written at head and extracted at tail.       *)
(* Pointers are offsets into data.  A byte is known by the record it was   *)
(* written for and its place in the frame, header first.                   *)
(*                                                                         *)
(* Extracting a record that ends at the end of the ring or beyond leaves    *)
(* tail in the wrong place, and a ring whose bytes do not wrap around can   *)
(* be filled to its last byte, when it looks empty.  queue follows the     *)
(* records as long as neither has happened.                                *)
(***************************************************************************)
EXTENDS Integers, Sequences

CONSTANTS
  Size,      \* onion_ringbuff_size: the capacity asked of onion_ringbuff_init
  Header,    \* the bytes of a header: 4
  Record,    \* the records the program writes
  Length     \* their lengths

\* Longer records are refused unless tail is already misplaced.
ASSUME RingAssumption ==
  /\ Size \in Nat \ {0} /\ Header \in Nat \ {0}
  /\ Length \in [Record -> Nat]
  /\ \A r \in Record : Header + Length[r] <= Size

VARIABLES
  head, tail, data,
  out,     \* the bytes the last onion_ringbuff_extract copied
  queue,   \* the records written and not extracted, with the offset each was
           \* written at, counted on beyond the end of the ring
  exact,   \* queue is what the ring holds
  fault    \* a memcpy went beyond data

vars == <<head, tail, data, out, queue, exact, fault>>

Unset == <<0, 0>>

FrameLength(r) == Header + Length[r]

Payload(r) == [j \in 1 .. Length[r] |-> <<r, Header + j>>]

\* The remainder of C keeps the sign.
bytes_busy ==
  LET distance == head + Size - tail
  IN IF distance >= 0 THEN distance % Size ELSE -((-distance) % Size)

\* Mutant: no byte is kept free when the used bytes wrap around.
FreeToTheLast == IF head >= tail THEN Size - (head - tail) ELSE tail - head

bytes_free == IF head >= tail THEN Size - (head - tail) ELSE tail - head - 1

-----------------------------------------------------------------------------
(* onion_ringbuff_dmemcpy.                                                   *)

\* onion_ringbuff_write of header and record, head going back to data at the end.
Written(r) ==
  [i \in 0 .. Size - 1 |->
    LET j == (i + Size - head) % Size
    IN IF j < FrameLength(r) THEN <<r, j + 1>> ELSE data[i]]

Fits(r) == bytes_free > 0 /\ bytes_free >= FrameLength(r)

\* The offset of head, counted on beyond the end when head is before tail.
Unwrapped == IF head < tail THEN head + Size ELSE head

NextHead(r) == (head + FrameLength(r)) % Size

\* A record that does not fit changes nothing; nor does any with overflow set,
\* as onion_ringbuff_omemcpy is empty.
Memcpy(r) ==
  /\ ~fault
  /\ Fits(r)
  /\ data' = Written(r)
  /\ head' = NextHead(r)
  /\ exact' = (exact /\ (head >= tail => FrameLength(r) # Size - (head - tail)))
  /\ queue' = IF exact' THEN Append(queue, [rec |-> r, from |-> Unwrapped]) ELSE <<>>
  /\ UNCHANGED <<tail, out, fault>>

-----------------------------------------------------------------------------
(* onion_ringbuff_extract.                                                   *)

HeaderAtTail(r) == \A j \in 1 .. Header : data[(tail + j - 1) % Size] = <<r, j>>

\* onion_ringbuff_read: the length in a header, or any number when the bytes at
\* tail are not one.  Those above twice the ring act like the negative ones, and
\* so does a tail beyond the ring.
Lengths ==
  IF tail > Size THEN {-1}
  ELSE IF \E r \in Record : HeaderAtTail(r)
  THEN {Length[r] : r \in {s \in Record : HeaderAtTail(s)}}
  ELSE -1 .. 2 * Size

\* The offsets of the bytes of a record of this length.
DataOffset == tail + Header

\* The two parts of extract: up to the end of the ring and from its start.
Second(read) == read - (Size - DataOffset)

\* Mutant: the header is left behind.
NextTailAtHeader(read) ==
  IF DataOffset + read <= Size THEN tail + read ELSE Second(read)

NextTail(read) ==
  IF DataOffset + read <= Size THEN tail + read + Header ELSE Second(read) + Header

\* A part of a negative length is one of almost 2^64 bytes.  The ring has one
\* byte more than its size.
Overruns(read) ==
  \/ read < 0
  \/ DataOffset + read > Size /\ (DataOffset > Size \/ Second(read) > Size + 1)

\* Mutant: the part at the start of the ring is taken from the end of the header.
CopiedOnePart(read) ==
  [k \in 1 .. read |-> IF DataOffset + k - 1 < Size THEN data[DataOffset + k - 1] ELSE Unset]

\* The byte at an offset, or at the same offset from the start behind the end.
ByteAt(at) ==
  IF at < Size THEN data[at] ELSE IF at - Size < Size THEN data[at - Size] ELSE Unset

Copied(read) == [k \in 1 .. read |-> ByteAt(DataOffset + k - 1)]

\* The client's buffer is large enough; otherwise, and when there is nothing to
\* read, extract changes nothing.
Extract ==
  /\ ~fault
  /\ bytes_busy >= Header
  /\ \E read \in Lengths :
       /\ read # 0
       /\ IF Overruns(read)
          THEN fault' = TRUE /\ UNCHANGED <<tail, out, queue, exact>>
          ELSE /\ out' = Copied(read)
               /\ tail' = NextTail(read)
               /\ exact' = (exact /\ DataOffset + read < Size)
               /\ queue' = IF exact' THEN Tail(queue) ELSE <<>>
               /\ UNCHANGED fault
  /\ UNCHANGED <<head, data>>

Reset ==
  /\ ~fault
  /\ head' = 0 /\ tail' = 0
  /\ queue' = <<>> /\ exact' = TRUE
  /\ UNCHANGED <<data, out, fault>>

Init ==
  /\ head = 0 /\ tail = 0
  /\ data = [i \in 0 .. Size - 1 |-> Unset]
  /\ out = <<>> /\ queue = <<>> /\ exact = TRUE
  /\ fault = FALSE

Next == (\E r \in Record : Memcpy(r)) \/ Extract \/ Reset

Spec == Init /\ [][Next]_vars

-----------------------------------------------------------------------------
(* Properties.                                                               *)

\* The variables have their types.
TypeOK ==
  /\ head \in 0 .. Size - 1
  /\ tail \in Nat
  /\ data \in [0 .. Size - 1 -> (Record \cup {0}) \X Nat]
  /\ queue \in Seq([rec : Record, from : Nat])
  /\ exact \in BOOLEAN /\ fault \in BOOLEAN

\* The ring holds, from tail on and up to head, the frames of the records
\* written and not extracted, whole and in order, whether they wrap around or
\* not, and bytes_busy tells how many bytes that is.
FramesInOrder ==
  exact =>
    LET end(i) == queue[i].from + FrameLength(queue[i].rec)
    IN /\ bytes_busy = Unwrapped - tail
       /\ IF queue = <<>> THEN head = tail ELSE queue[1].from = tail /\ end(Len(queue)) = Unwrapped
       /\ \A i \in 1 .. Len(queue) - 1 : queue[i + 1].from = end(i)
       /\ \A i \in 1 .. Len(queue) : \A j \in 1 .. FrameLength(queue[i].rec) :
            data[(queue[i].from + j - 1) % Size] = <<queue[i].rec, j>>

\* extract copies the oldest record, whole, and touches nothing beyond the ring,
\* as long as the header of the record does not cross the end of the ring.
ExtractsOldest ==
  [][exact /\ Extract /\ tail + Header <= Size =>
       ~fault' /\ out' = Payload(Head(queue).rec)]_vars

=============================================================================
