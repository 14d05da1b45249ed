# A verification project for opium and onion

The repository holds two C code bases. `project/` is the current one, *opium*: an
allocator (slab, arena), threads, a red-black tree and a log, of a server that is
not written yet. `src/` is the older one, *onion*: an epoll HTTP server on pools,
bitmasks and a ring buffer. `include/onion` and `include/opium/core` are stale
copies of headers, `tests/request/script.c` starts a device and sleeps; no test
reaches the logic of any component. Paths below are relative to the repository.

This directory holds TLA+ modules of the allocator, the threads, the red-black
tree, the block pool with its bitmask, the ring buffer, the epoll workers and the
HTTP side of a connection, the TLC runs over them, and proofs of their safety
properties that TLAPS checks.

- [1. The system](#1-the-system) – what there is, and what makes it correct
- [2. The modules](#2-the-modules) – which module models what, and how
- [3. The runs](#3-the-runs) – what TLC checks, with which bounds
- [4. The proofs](#4-the-proofs) – what holds for every value of the constants
- [5. What the code does not do](#5-what-the-code-does-not-do) – findings and caveats
- [6. What is not modelled](#6-what-is-not-modelled)
- [7. The plan](#7-the-plan)

## 1. The system

### opium (`project/core`)

**Slab** (`opium_slab.c`, `opium_slab.h`, `opium_list.h`). Serves objects of one
size. State: three lists of pages (`empty`, `partial`, `full`), and in the header
of each page a `mask` (one bit per slot), a reference count and, for a slave, its
boss; `stats.used`. A chunk from the system is split into pages: the first is the
*boss*, which counts the pages of the chunk in use, the others are *slaves*.
Operations: `init`, `alloc`, `calloc`, `free`, `traverse`, `exit`. Runs in one
thread, takes no lock. Hard: mask, list and counters are updated by different
branches, so the danger lies in long sequences of legal calls; sizes and addresses
are computed by rounding and masking. Correct when a bit is 1 exactly for a held
slot, each page is on the list of its fill, no chunk is returned while an object
of it is held, `exit` returns all, and `free` finds the slot of a pointer.

**Arena** (`opium_arena.c`). Thirteen slabs, of 2^4 to 2^16 bytes; routes a request
to one by `opium_round_of_two` and `opium_log2` (`opium.c`), and stores the index
of the slab in the slot header, where `free` finds it. Correct when a request goes
to the smallest slab whose slot holds it and a pointer goes back to its own slot.

**System memory** (`opium_alloc.c`). `mmap`, `munmap`, `posix_memalign`, with error
reports. Called by slab and arena only.

**Threads and mutexes** (`opium_thread.c`, `opium_mutex.c`). A struct with `func`,
`ctx`, a mutex of type ERRORCHECK and three one-bit fields `start`, `stop`, `done`.
`opium_thread_init` creates the thread, which runs `func` and then sets `done`;
`opium_thread_exit` sets `stop`, joins, destroys the mutex and clears the struct.
Hard: two threads store bits of one word; the lock's result is ignored; `func` is
the caller's and shares the mutex. Correct when no flag is lost, the mutex is free
when destroyed, the struct outlives its thread, and exit returns.

**Red-black tree** (`opium_rbt.c`). Ordered nodes with a shared sentinel; insert,
delete, search, rotations; nodes and sentinel are objects of one slab. Hard: the
descent of insert, the search of delete and the sentinel, which all leaves share,
must agree on where a key is. Correct when every inserted key is found, in order, and
a node belongs to the tree or to the slab.

**Log** (`opium_log.c`), **events, network, server, connection**
(`opium_event.c`, ...), **program** (`app/opium_main.c`): output, declarations and
an entry point that initialises log and arena.

### onion (`src/src/onion`, `src/src/utils`)

**Bitmask** (`sup.c`). A bit mask in frames of 64 bits: set, clear, first bit of a
type from an offset, first run of bits of a type. **Block pool** (`pool.c`). Blocks
of one size with *two* maps: `bitmap`, searched by `ffb` of `utils.h`, chooses the
block; `bitmask` is what other parts walk. Counters `block_free`, `block_count`.
Operations `init`, `alloc`, `free`, `exit`. Used by the epoll (slots, tags, workers),
by the devices and by the HTTP requests. Correct when a block has one holder, both
maps and both counters agree with what is held, and as many blocks are served as
were asked for.

**Ring buffer** (`ringbuff.c`). Records behind a length header of four bytes,
written at `head` and extracted at `tail`. Correct when it is a FIFO queue of whole
records, over the end of the ring too.

**Epoll workers** (`epoll.c`). A worker has an epoll, a wake-up eventfd, a timer
and pools of slots (connections) and tags. `onion_epoll1_init` creates the pools
and the worker thread, then marks it initialised; the thread dispatches events to
handlers; the timer walks the bitmask of the slots and removes idle ones; exit joins
the thread and releases the pools. Hard: init and the thread race on
`initialized`; exit waits for a thread that is told to stop only afterwards; a failing
init is taken down by the thread and by its caller; tags are freed while the kernel
still returns them. Correct when an initialised worker is whole and counted, no pool is
used after it is freed, a tag names one connection, and the timer is served.

**Devices, network, sockets** (`device.c`, `net.c`, `socket.c`): listening sockets,
a pool of peers per device, distribution of accepted connections over workers.
**HTTP buffer, request, parser** (`http.c`, `request.c`, `parser.c`,
`receive.c`, `send.c`, `response.c`): bytes appended piecewise to a buffer of bounded
capacity, a request that parses start line, header fields and body as far as the bytes
go, and an array of requests that become ready. Hard: pieces end anywhere, the buffer
is consumed, compacted and decoded in place while the request keeps offsets into
it, and each allocation may be refused. Correct when the request that is ready is the
message that was sent, however it was cut.
**Utilities** (`src/src/utils`): an older slab, a vector, and `lock.c`, a lock with
a counter, a condition variable and a shutdown flag.

How they interact: `device`/`net` → `epoll` (slots, tags) → `http` → `request` →
`parser`; all take memory from `pool`, which uses `sup`. The only shared state
between threads is an epoll struct and its pools, the global `big_smoke`, and the
opium thread struct.

## 2. The modules

| module | models | proofs |
|---|---|---|
| `ObjectAllocator` | what a slab promises its client (abstract) | – |
| `OpiumSlab` | `opium_slab.c`: one slab, its chunks and pages, a client | `OpiumSlabProofs` |
| `OpiumSlabHistory` | the slab with a history variable: what holds up to the first stale bit | `OpiumSlabProofs` |
| `MCOpiumSlab` | the clients for TLC | – |
| `OpiumSlabGeometry` | the sizes and addresses of `opium_slab.c` | `OpiumSlabGeometryProofs` |
| `OpiumArena` | `opium_arena.c`: the choice of a slab; extends the geometry | `OpiumSlabGeometryProofs` |
| `OpiumThread` | `opium_thread.c`, `opium_mutex.c` | `OpiumThreadProofs` |
| `OpiumRbt` | `opium_rbt.c` and a client | `OpiumRbtProofs` |
| `OnionBitmask` | `sup.c`: searches over a mask | – |
| `OnionBlockPool` | `pool.c`, extends the bitmask | `OnionBlockPoolProofs` |
| `OnionRingbuff` | `ringbuff.c` | `OnionRingbuffProofs` |
| `MCOnionRingbuff` | the sizes of a ring for TLC | – |
| `OnionEpoll` | `epoll.c`: workers, their threads, tags and slots; the kernel around them | `OnionEpollProofs` |
| `OnionHttp` | `http.c`, `request.c`, `parser.c` and a client | `OnionHttpProofs` |
| `MCOnionHttp` | the messages of the client, their start lines and fields | – |

Operators marked "Mutant" in a comment are plausible bugs in the definition that
follows them. Nothing uses them; put in its place, TLC finds a property violated.

**`OpiumSlab`.** Single-threaded, so an operation is one step. `alloc` is split by
its branches: `AllocPartial`, `AllocEmpty`, `AllocChunk`, `AllocRefused`;
`free` by its: `FreeBusy`, `FreeLast`, `FreeLastOfPage`, `FreePlain`, and the two in
which the process faults, `FreeUnmapped` and `FreeLastOfSlave`. A mask is the set of
its 1 bits. A pointer is `<<<<chunk, page index>>, slot>>`; that a real pointer
determines these is what `OpiumSlabGeometry` is about. The slaves of a chunk are
those whose headers the loop at 429 really writes: its cursor is reset in every
round and advances by `page_size` *headers*, so it initialises one slave at most.
The client holds objects (`live`) and frees only what it holds. `fault` is where a
behaviour ends when the process would crash or spoil memory. `SlotFound` says which
slot `free` computes from the pointer it is passed: the identity for a client of
the slab, `ArenaPointer` for `opium_arena_free`, which subtracts the header twice.
`zeroed` follows the slot headers that `opium_slab_calloc` clears beyond its slot.

**`ObjectAllocator`** knows objects, chunks, and nothing of lists or masks:
`GiveBacked`, `GiveFresh` (only when all that is obtained is held), `Take` (the
chunk goes with its last object), `Close`. `OpiumSlab` refines it with
`held <- live`, `backed <- mapped`.

**`OpiumSlabGeometry`, `OpiumArena`.** The arithmetic of `opium_slab_init`: page size
as a power of two, halved when that leaves eight slots, the slot count, the chunk
size; then `opium_slab_slot` and the way back in `opium_slab_free`.

**`OpiumThread`.** Each statement that touches shared state is a step; an assignment
to a one-bit field is a load and a store of the word. `pthread_mutex_lock` on an
ERRORCHECK mutex returns for its own holder, with an error nobody looks at. `func`
may lock and unlock the mutex at will and may return with it locked. The program
makes one call at a time, any number of times, on any struct.

**`OpiumRbt`.** A tree is one struct and runs in one thread; a step is one round of a
descent or what follows it. The client keeps every node it is returned (`handed`).
`Descend` is the loop at 214 as it is written, with its test of `parent`. An insertion ends
with `Rebalanced`, the loop at 297 with its rotations; `Delete` finds the node that
goes (`Removed`), unhangs it and repairs the black heights (`Recoloured`, the loop at 505,
with its four cases). The code writes left and right out twice, the module once: a side
is a parameter. `NothingToRebalance`, and the lemmas of its proof, say that none of it ever has
anything to do. The page of the sentinel comes from `mmap`, so the key nobody
writes is 0; a caller that inserts 0 is returned the sentinel. The slab is taken as
`ObjectAllocator` has it. A page of it holds 40 objects and a chunk two pages, so this
is so until a page is emptied again (finding 1).

**`OnionBitmask`, `OnionBlockPool`.** The functions of `sup.c` over the set of 1
bits, with the two quirks of `onion_ffb`: it divides the number of frames by the
frame once more, and lets the offset equal to `size` through. The pool sets bits of
`bitmask` by its own search and not for the block `bitmap` gave. `bitmap` is
allocated with one byte per 64 blocks although it has one bit per block: the bits
beyond hold what the memory held before (`garbage`).

**`OnionRingbuff`.** Pointers are offsets, a byte is `<<record, place in its frame>>`.
`Memcpy` and `Extract` are whole operations. `NextTail` is what the code computes,
also where it is wrong (section 5). `queue` (ghost) is what a FIFO would hold and
`exact` (ghost) says that neither of the two events after which the ring no longer
is one has happened; the states after them are explored as well.

**`OnionEpoll`.** The main thread makes one call at a time (`onion_epoll_static_init`,
`onion_epoll1_init`, `onion_epoll1_exit`, `onion_epoll_static_exit`); every worker has a
thread. `pc` says at which statement an agent is and `at` in which worker, a block of
the pool of epolls. What one agent does without meeting another is one step: all of
init before `pthread_create` (`Prepare`, or `PrepareFails` with what was made so far), an
event with its handler (`HandleTimer`, `HandleData`, `HandleNothing`). From the creation of
the thread on, each statement of init is a step, and so is each of exit, which
the main thread and a thread that has left its loop may be in for one worker
(`ExitStep`). Every system call may fail. The kernel is `interest` (which tag a descriptor is
registered with), `expired` and `input`: a registration outlives its tag. The
handler the program gives is external; it accepts a connection with
`onion_epoll_slot_add` (which no file of the repository calls yet) or returns. `fault` is
`raced` where a thread looks at `initialized` before init has set it, and
`wild` where fields are used that nobody wrote; behaviours end there.

**`OnionHttp`.** A byte string is a sequence of tokens, each of size 1: a start line, a
header field, a line end, a chunk size, a byte of a body. What a start line or a field
says stands in a table, `Lines` and `Fields`, in characters where the code looks at
them: the target and the names and values are checked character by character, methods and
versions looked up, `Content-Length` read as `atoi` does, names compared without case. A name
the code looks for is abbreviated to its first letter. One step is one call of
`onion_http_parser_request` with the next `k` tokens; a line end is not cut in two.
A client sends one message after another, and a piece may hold the end of one and the
beginning of the next. `Begin` bounds that: messages in `Streamed` are sent without a pause, the next
begun when at most `MaxAhead` tokens are not handed over yet; with others the client waits.
`BuffAppend` keeps the buffer's `data`, `start` and `capacity`, with the move to
the front and the doubling; `Parse` runs start line, header fields and body as far as
the data goes, and the body of a chunked message is decoded in place, payload before
payload (`DecodeChunk`). `Receive...` are the ways in which a call returns, one for
each; `ReceiveSpins` and `ReceiveOverrun` those in which it does not. `origin`, `whole`, `place`,
`stream` and `clean` are ghosts: the message a request became ready with; the requests made of
pieces that hold bytes of one message only; whether the parser is still in step with the
messages; what was appended for the open request; and whether all of it was within what
the code copes with (`IsAcceptable`, no piece of two messages, no refused memory, a request left). `data` keeps no bytes behind `end`, and
the older slab that memory comes from is a choice to serve or refuse.

## 3. The runs

| run | configuration | distinct states | shows |
|---|---|---|---|
| `slab_single` | 3 chunks of one page, 3 slots | 8 694 | the properties of the slab, and `Implements` |
| `slab_chunk` | 2 chunks of two pages, 2 slots | 49 563 | what remains true with several pages per chunk |
| `slab_slave` | as `slab_chunk` | – | finding: a chunk is returned while held |
| `arena_free` | 2 chunks of one page, `ArenaPointer` | – | finding: an object has two holders |
| `geometry` | item sizes 1–160 and 2^8–2^16 | 170 | sizes, addresses, routing |
| `thread` | 2 structs | 10 878 | safety of exit, and that it returns |
| `pool` | frame of 2 bits, byte of 1, 1–5 blocks of 1 or 3 bytes | 4 555 | bitmap, counters, searches; the other map while no bit is left uncleared |
| `ring` | 7 bytes, header of 2, records of 0, 1, 3 bytes | 289 978 | frames in order, oldest extracted |
| `rbt` | 3 nodes, keys 0–3 | 42 909 | what a tree that loses its nodes keeps |
| `rbt_lost` | as `rbt` | – | finding: an inserted key is not found |
| `http` | 3 of 22 messages, 2 requests, 3 header fields | 74 361 | message delivered, however it is cut; what is delivered of two in one piece |
| `epoll` | 2 workers, 2 threads, 2 connections, 3 tags | 386 607 | workers whole, tags and counts right, timers served |

*Bounds and why they are enough.* `MaxLive` bounds what a client holds. With three
chunks each list has several entries and a chunk that leaves in the middle; three
slots give a page with none, some and all of its slots used, and two frees between
full and empty. Two pages per chunk are what the loop over the slaves initialises at
most. The geometry covers each boundary of the halving (8 slots, 64 slots, 4096
bytes) and the sizes of all slabs of the arena. Two structs are enough for a thread
that still runs while another call is in progress; structs share nothing. In `pool`
the narrow frame and byte make masks of several frames and bitmaps with unclear
bits; 3 and 5 blocks are no powers of two, and a block size of 3 makes `block_max`
differ from the number asked for. In `ring` frames of 2, 3 and 5 bytes in 7 end
before, at and after the end of the ring, in header and record, and fill it to the
last byte. Three nodes are a root and two that hang elsewhere, one below the other;
four keys are below, between and above theirs, and 0 is the sentinel's. In `http` the
messages are, with a length or chunked, of one chunk, of two, too long, too short,
with a field too many, with 17 fields, junk in line or field, without Host, with a wrong
method, target or version, a name or value too long or with a character that is
refused, a negative length, another transfer encoding; `LineMax` = 17 is passed by some
messages that arrive at once and not in pieces, `HeaderMax`, `BodyMax` and `MessageMax` by
one each; three messages are one more than there are requests. Four of
them are sent without a pause: those that are served and one that ends with its header fields.
`MaxAhead` = 8 tokens are a good third of the longest of these and all of the shortest, so that a
piece may hold bytes of two or of three messages. In `epoll` two workers share the
counters and the pool, one of two blocks is used again after a failed init, and the
number of threads is that of the inits that get as far as `pthread_create`. Three tags are
those of eventfd and timer and one for two connections: the second is refused, or gets the
tag the first has lost. `ConnMax` = 3 refuses the third. All but `MaxLive` and the sets of inputs are arbitrary in the proofs.

*Deadlock* is checked in `geometry`, `thread` and `rbt`. The configurations of slab,
pool, ring, `http` and `epoll` say `CHECK_DEADLOCK FALSE`, because a process that faulted has
stopped; in `epoll` also because the main thread may wait for ever (section 5).

*Fairness*, in `thread` and `epoll`. In `thread` weak for each thread and for a call in progress: the
scheduler runs them. Strong for `ExitLock` and `DoneLock`: a mutex that is free again
and again is at last given to each waiter. Weak for `FuncUnlock`, and for
`FuncReturns` once `stop` is set: this is what the callback owes
`opium_thread_exit`, which joins it. Nothing makes `func` return before `stop`,
and nothing makes the program call exit. In `epoll` weak for the call the main thread is
in, and for the loop of each thread, in which the program's handler returns; nothing
makes a peer send, a timer expire or the program call.

What the properties say, beyond types:

- slab: `MaskShowsHeld`, `ListsSortByFill`, `HeldIsMapped`, `NoMemoryFault`,
  `TraverseReachesHeld`, `ExitReturnsAll`; with several pages `EachPageOnItsList`, and
  `ExactUntilStale`: lists, reference counts, `used` and traversal are exact up to the first
  bit that stays 1 after its object was freed. Exit may read a page that is gone when there
  are several per chunk (section 5); `UnusedSlavesExitSafely` says that it does not as long as no
  slave was allocated from: no boss is ever on `empty`, which is walked first.
- geometry and arena: `SlotsFitPage`, `MaskHasSpareBit`, `ChunkIsWholePages`,
  `FreeFindsSlot`, `RequestFitsSlot`.
- thread: `HolderAtWork` (mutual exclusion over the flags, with a callback that may
  hold the mutex), `NoLostFlag`, `FlagsMeanWhatTheySay`, `MutexFreeWhenDestroyed`,
  `StructOutlivesThread`, and the liveness property `ExitReturns`.
- pool: `BitmapShowsHeld`, `CountsShowHeld`, `ServesAsAsked`, `WalkFindsHeld` (the
  walk of the epoll timer over the *other* map, as long as no bit of `bitmap` is left
  uncleared: with such bits the two maps come apart, section 5), `GrabFindsRun` (`onion_ffgb` against its
  definition, over every mask a pool goes through).
- ring: `FramesInOrder`, and the action property `ExtractsOldest`.
- tree: `NothingToRebalance`: the parent of a new node is black, so there is nothing to
  rotate; `NodesAreHanded`: no node leaks before exit or has two
  holders, the lost ones included.
- epoll: `WorkersAreWhole`, `NoUseAfterFree`, `InitWaitsForLeaver` (init, exit and thread
  of a worker); `ConnectionsCounted`, `TagsNameDescriptors` (what a refused, an ended or a
  forgotten connection leaves behind); and the liveness property `TimerIsServed`.
- HTTP: `DeliversMessage` (method, target, fields and body are those sent, for a request made of
  pieces of one message only, however that was cut), `ServesAll` (nothing acceptable is refused
  when messages are handed over one after another), `HeadDelivered` (what is left of the first
  message when its last piece holds bytes of the next one too), `BufferHoldsRest` (the offsets of the open
  request name the bytes they should, across moves and decoding).

## 4. The proofs

The theorems hold for every value of the constants that the named assumptions of
the modules allow. TLC evaluates those assumptions in the runs.

**Slab** (`OpiumSlabProofs`). Under `PagesPerChunk = 1` and `Direct` (`SlotFound` is the
identity): all the invariants of `slab_single`, and `SlabImplements`, the refinement of `ObjectAllocator`. Both
conditions are needed: without either the theorems are false (the two findings). A
slab whose pages are 4096 bytes or more, one with items of 63 bytes or more, meets the
first: in the arena all but those of 16 and 32 bytes. None of the invariants is inductive alone. A page moves
between lists by its *mask*, and `ListsSortByFill` speaks of what is *held*, so the
mask must mirror the client (`MaskShowsHeld`), for mapped pages only; and a chunk is
returned when *its count* is 1, so the count must be 1 on every mapped page
(`CountInv`). `IInv` is their conjunction with the lists as sets without
repetitions (`ListsInv`), where each list stands for a fill (`FillInv`), and with
`used` and finiteness (`UsedInv`). Lemmas state what `RemoveFirst`, `Cons`, `Head` and
`Tail` do to the range of a list; `NewSlotTakesFree` is the heart of allocation.

For chunks of *any* number of pages, where most of that is false, the same module proves
what is left. `SlabEachPageOnItsList` needs only that the slot
`free` computes is one of the page (`WithinPage`); its invariant, `ChunkInv`, no longer
mentions who holds what, only which pages are listed, that listed pages are in mapped
chunks whose headers were written, and that the boss of a listed slave is its chunk's.
`SlabUnusedSlavesExitSafely` adds that only slaves are on `empty` (`SlavesOnEmpty`).
`SlabExactUntilStale` needs nothing at all, not even that the client's pointer leads to its
own slot: as long as `pristine` says that no bit was left 1 and no object was given twice,
masks, lists, counts and mapping are exact (`ExactInv`). Both invariants were checked by TLC
for two and three pages per chunk and all three ways of computing a slot first.

**Geometry** (`OpiumSlabGeometryProofs`). For every item size for which a power of two
is large enough: the slots fit the page, the mask has a spare bit, a chunk is whole
pages, and `free` recovers page and slot. `GInv` ties the four sizes to the item
size they were computed from; the argument for the halved page is that at least
eight slots were left, that for the way back a lemma on quotient and remainder.
`ArenaRequestFitsSlot` is about requests of any size up to 2^63, the largest
`opium_round_of_two` can round (`CanBeRounded`; beyond, it shifts by 64). The prover knows
nothing of powers, so `TwoPower` obtains 2^(k+1) = 2 * 2^k by counting subsets, and
`TwoPowerMonotone` and `BitsOf` follow with least elements; the rest is that the slab of
index c - 4 has 2^c bytes, c being the number of bits of `size - 1` or 4.

**Thread** (`OpiumThreadProofs`). For any set of structs: all five safety properties.
The strengthening adds that a word loaded under the mutex is still the word there
is (`FreshCopies`), which is why a store loses nothing, and which call may be at
which statement while a thread is at another (`Lifecycle`).

**Pool** (`OnionBlockPoolProofs`). For any width of frames and bytes and any set of
sizes, all five, `PoolWalkFindsHeld` for pools whose bitmap has no uncleared bit. The invariant
relates the two maps: within what the search looks at, `bitmask` is a mirror of
`held` although every bit of it is found by a search of its own, because the lowest
clear bit of both maps is the same as long as no bit was set from the start. That
needs least elements of sets of numbers (`LowestIs`), from the
well-foundedness of `<`. `GrabFindsRun` is about a recursive function. No induction
principle can be cited, so the function gets a closed form: `GrabbedIsRound` shows that the
closed form satisfies the recursion, `GrabIs` that any two solutions agree, since there is no
least argument at which they differ.

**Ring** (`OnionRingbuffProofs`). For any size, header and set of records: types,
`FramesInOrder`, `ExtractsOldest`. `FramesInOrder` is not inductive: a write leaves the
older frames alone only because all of them end at or before `head` and begin at or
after `tail`, and the frame fits between `head` and `tail` (`FramesAre`, `HeadMoves`,
`CellsWritten`). Offsets are counted on beyond the end (`Unwrapped`), so the wrap is
confined to three lemmas on remainders.

**Tree** (`OpiumRbtProofs`). For every set of nodes and keys, both properties, and
`RbtOnlyHeadIsFound`: how much finding 3 loses. A search reaches the root and nothing else. The
invariant says what the tree really looks like: the root has no child (`ShapeInv`), and
what is hung elsewhere hangs to the right of the sentinel, whose key is 0 and which
stays black. Hence a descent passes root and sentinel and no third node (`DescentInv`), and
a deletion finds the root or nothing. Therefore the definitions that repair the tree
reduce to nothing in every reachable state (`Rebalanced` stops at once, since the
parent is black; `Rest` has at most a child to move up), and the lemmas that say so
are what the three long steps `InsertExisting`, `InsertBelow` and `Delete` rest on.

**Epoll** (`OnionEpollProofs`). For any number of workers, threads, connections and
tags: `WorkersAreWhole`, `NoUseAfterFree`, `InitWaitsForLeaver`. None is inductive: that
a pool is there when a thread uses it depends on who else may be taking the same
worker down. `Life` says who: until the process comes to harm each block is unused,
marked as initialised, or the one that init or exit is at; a thread in its loop belongs to
a marked worker or to that one; a thread that takes its worker down has the main thread
waiting for it, so that the two pass through exit one behind the other. Each action
has a lemma (`...Life`), and `TypeOK` is proved along the way (`TypeStep`).
`ConnectionsCounted` and `TagsNameDescriptors` are proved on top. Both
need that a block in which init fails early is unused (`PreparesUnused`), as its old
slots and tags are kept then; and that what has a slot or a name has begun (`Counts`,
`Begun`), so that an accepted connection is a new one.

**HTTP** (`OnionHttpProofs`). For messages of any length, any sizes of buffer, lines, header
fields and body, any number of requests, and a client that may run ahead (any `Streamed` and `MaxAhead`):
`DeliversMessage`, `ServesAll`, and `BufferHoldsRest` while `place` is "known", that is up to the
first message begun before the one before was handed over. From there on nothing is proved but that
the requests made before keep what they have; a request made later is not in `whole`, and
`clean` is FALSE. What `HeadDelivered` says of them is model-checked. Two assumptions: `SizesAssumption` on the sizes, and `MessagesAssumption`,
that messages are framed (`IsFramed`): what a message says of its body, where the code would
believe it, is true, or a length the code refuses. Without it there is no body that could
be delivered. The messages are otherwise free: without Host, with fields that are not valid,
with too many, with junk in any place.

`DeliversMessage` is about a request that is ready, so the invariant has to say what a
request is that is *not*. `HInv` says that the parser is in one of three situations
(`Alive`). In `Idle` nothing of a message has arrived, and request and buffer are as new. In
`InStep` the first n tokens of the message have, and request and buffer are exactly
what these n tokens make of them (`Waiting`), one way for each place the parser stops at: in
the start line, among the header fields, in a body with a length, and in a body of
which j chunks are decoded. In `Lost` the request can only be given up (`Hopeless`). The message
is what fixes the state; the pieces in which it came do not. The lemmas have the same shape:
`Advanced` appends a piece and leads from n tokens to n + k, `ArrivedParsed` says what parsing
makes of any n of them (`ParsedTo`), and both are joined in `ComesOf`. The chunked body is the
hard part: `DecodeChunk` moves the payload within the buffer over the bytes it came from.
`AtChunk` says that after j chunks the beginning holds the payload of those and what lies
behind them is untouched, `ChunkMoved` that one more chunk keeps it so, and
`ChunksDecoded` that the rounds end there. `Decoded` and `FlattenSeq` are recursive
functions; as in the pool, their equations are obtained from a solution that is given
(`RoundsExist`, `JoinsExists`) and compared by least elements.

`ServesAll` needs, besides, what is left in the buffer (`WaitingShort`): never more than has
arrived, hence less than `LineMax`, hence the buffer never grows and nothing is
refused (`RoomEnough`, `UnderWayFits`); and that an acceptable message is never answered
with an error (`ParsedTo`). `UnderWay` and `AtRest` tie the number of messages sent to the
indices that are ready.

**Only model-checked**: liveness (`ExitReturns`, `TimerIsServed`), for which the prover has
no support of fairness; `HeadDelivered`, and `BufferHoldsRest` for pieces of two messages; and
the searches of `rbt_lost`, `slab_slave` and `arena_free` for the counterexamples of section 5.

## 5. What the code does not do

Findings, each shown by a run with a counterexample:

1. `slab_slave`: freeing the last object of one page of a chunk while another page is
   counted lowers the boss's reference count and leaves bit and list as they were
   (`opium_slab.c:567-574`). The page is then reused without being counted, and the
   chunk is unmapped while objects of it are held.
2. `arena_free`: `opium_arena_free` subtracts the slot header before it calls
   `opium_slab_free`, which subtracts it again (`opium_arena.c:168`). The slot freed
   is the one before.
3. `rbt_lost`: the loop of `opium_rbt_node_insert` runs until `parent` is the sentinel
   (`opium_rbt.c:214`), one node too far: every node but the root is attached to the
   sentinel, and the key is not found again.

What the modules state as limits, because no line of the source promises more:

- Exit with several pages per chunk: `opium_slab_exit` unmaps a chunk at its boss and walks on
  (`opium_slab.c:219-241`). A slave that was allocated from and stands behind its boss, on
  the same list or a later one, is read although its memory is gone (`ExitFaults`, `fault =
  "exit_after_unmap"`), where the comment at 211 speaks of all the pages. Such an exit returns
  nothing, so `ExitReturnsAll` and `NoMemoryFault` are claimed for single-page chunks only.
- `mmap` fails with `MAP_FAILED`, `opium_mmap` tests for NULL: `AllocRefused` ends in
  `fault = "map_failed"`, which `NoMemoryFault` lets pass.
- `opium_slab_calloc` clears the header of the next slot, or a byte behind the page;
  `zeroed` follows it. The traversal also visits the bits that stand for no slot.
- Ring: extracting a record that ends where the ring ends leaves `tail` behind the last
  byte (84), one that goes on at the start leaves it four bytes too far (92); a ring
  whose used bytes do not wrap can be filled to the last byte and then looks empty
  (26). `exact` turns FALSE in these steps. A record of length 0 is never extracted
  and blocks those behind it. When a header crosses the end of the ring `first_part` is
  negative (88) and the copy runs out of memory: `fault`, and the reason for the
  condition `tail + Header <= Size` of `ExtractsOldest`.
- Tree: for a key that exists `opium_rbt_insert` returns its node and overwrites the
  data (222, 421), where the comment at 210 has it return NULL; for key 0 it returns the
  sentinel. `opium_rbt_init` does not look at what `opium_slab_init` returns. The
  repair after a deletion takes the sentinel for a left child wherever a left child is
  the sentinel (507): with a descent that built a tree, black heights would go wrong.
- HTTP, pieces of two messages: a body by length is all the bytes there are once there are
  enough (`request.c:343-351`), so it takes those of the next message with it; and when a request is
  ready the buffer is made anew (`parser.c:70`), so what is left of the piece is gone and
  the next message is read from its middle. `HeadDelivered` says what is left; a client must wait until
  a message was handed over before it sends the next.
- HTTP: 512 bytes or more of a message that arrive at once are refused (`request.c:84`) and served
  in pieces. A chunked message is ready before its last line end; when that arrives
  separately it is parsed as a start line, fails, and closes the buffer. A buffer that was
  given back is not made anew, and the next piece doubles a capacity of 0 for ever
  (`http.c:126`, `fault = "spins"`). A request without body, or of `Content-Length` 0, is an
  error. One valid field more than there is room for is written behind the array
  (`request.c:177`, `fault = "overrun"`). A ready request never becomes free again, and
  `onion_http_parser_exit` frees none, `req_active` being 0. `memcpy` at 332 copies between
  ranges that overlap; it is taken as a move.
- Epoll, in init: the thread exists before the worker is marked, and one that looks at
  `initialized` before the mark (410, 425) takes the worker down while init goes on
  (`fault = "raced"`). The error of `pthread_create` is positive and tested for a negative number
  (411): a worker without a thread (`flow = Lost`). In a block that was never a worker
  the fields that a failing init takes down are what the memory held (`fault = "wild"`),
  as are those `onion_epoll_static_exit` looks at (547).
- Epoll, in exit: an initialised worker is never taken down, as the thread it waits for is
  told to stop only afterwards. A worker whose init failed is taken down twice, by its
  thread and by the caller. Eventfd, epoll and connections stay open, as what
  `onion_fd_is_valid` says of a valid descriptor is the wrong way round.
- Epoll, tags: for the same reason `onion_epoll_event_del` leaves the descriptor
  registered with a tag that is free. A connection is read once; from then on it is ready
  for ever and nobody reads it. The answer of a handler is unsigned, and never below 0
  (262). A tag is lost when `epoll_ctl` fails.
- Epoll, slots: `onion_block_alloc` is not told where to write the position of a block, so
  `start_pos` is -1, the timer removes no slot, and `conn_count` only rises: a worker
  serves `conn_max - 1` connections in its life.
- Pool: blocks that stand behind uncleared bits (`pool.c:39`) are never given, so a pool may
  serve fewer than it was made for (`ServesAsAsked` counts them as taken); `bitmask` knows nothing
  of such bits, so the bit set in it is not that of the block given and the timer walks
  other blocks (`WalkFindsHeld` excludes these pools). `onion_ffb` looks at the bit one beyond the
  mask (`sup.c:36`), and `GrabFindsRun` takes that bit for one of it. `onion_block_exit`
  unlinks a list entry that nothing initialised (`fault = "unlinked"`).

## 6. What is not modelled

- `opium_slab_stats` and the counters `reqs`, `fails`, `total`: printed only.
- Several slabs of an arena side by side, and an arena whose slab fails:
  `opium_arena_alloc` writes through the pointer without a test.
- Pools: the memory `onion_block_exit` leaks, and bitmaps longer than the memory that
  `malloc` returns at least (above 192 blocks), which run into a neighbour's bytes.
- Ring: lengths read from bytes that are no header are bounded by twice the ring;
  longer ones act like negative ones. With `overflow` set nothing is ever written.
- Devices, network, sockets: three files define `big_smoke` (`epoll.c:26`, `device.c:161`,
  `net.c:6`), `onion_get_static_by_net` is defined nowhere and
  `onion_get_static_by_epoll` twice. The library does not link, and what a device does to
  an epoll in a running system is not to be read from the code. `onion_epoll_slot_add`
  has no caller: `OnionEpoll` has a handler of the program call it.
- Epoll: a refused allocation inside a pool (`onion_block_init` writes through it), and
  the counters of the pools, which are `OnionBlockPool`'s. `FindsUnsetEarly` ends the
  behaviour: what two threads do to one worker at once is undefined from there on.
- Log, program, events, network, server and connection: no logic yet.
- HTTP: `receive.c`, `send.c` and `response.c` have no caller; the calls of the parser in
  `device.c` and `receive.c` are commented out. Bytes of a line end that arrive apart, and a chunk
  size of more than 16 characters, at which the parser waits for ever (298).
- Utilities: `lock.c` has no caller but a macro nobody uses; `src/utils/src/slab.c`
  is superseded by the opium slab, and `vector.c`, a growing array, has no caller.

## 7. The plan

Done, in this order: slab with its allocator specification, geometry and arena,
threads, pool and bitmask, ring, tree, the HTTP side of a connection with the texts of
lines and fields, the epoll workers, the tree with rotations and both repairs; and of each
the safety properties proved, the last ones those of slabs with several pages per
chunk, of the searches of the pool, of the routing of the arena and of HTTP.

What would come next:

1. Abstract specifications of pool, ring and parser (a set of blocks; a bounded queue; a set
   of messages delivered), and their refinements proved.
2. The arena as a composition of `OpiumSlab` instances, one per size; the tree on top of
   `OpiumSlab` instead of its specification.
3. Devices over epoll workers, once the library links.
