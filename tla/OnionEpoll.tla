----------------------------- MODULE OnionEpoll ------------------------------
(***************************************************************************)
(* The epoll workers of src/onion/epoll.c: the life of a worker from       *)
(* onion_epoll1_init to onion_epoll1_exit, its thread, and the tags and    *)
(* slots of its connections.                                               *)
(*                                                                         *)
(* The program's main thread makes one call at a time.  A worker is a      *)
(* block of the pool `epolls'; it is initialised and taken down again in   *)
(* steps that its thread and the main thread take at the same time.  A     *)
(* pool gives out its first free block (OnionBlockPool).                   *)
(*                                                                         *)
(* The type of a handler's answer, onion_handler_ret_t, has no negative    *)
(* value: an answer of -1 does not pass the test `tag_ret < 0' (262).      *)
(***************************************************************************)
EXTENDS Integers, FiniteSets

CONSTANTS
  Worker,    \* the blocks of the pool of epolls
  Capable,   \* the number of cores: core_count of onion_epoll_static_init
  Thread,    \* the threads; bound: as many calls of init get as far as one
  Conn,      \* the descriptors of the connections the program accepts
  ConnMax,   \* conn_max of onion_epoll1_init
  Tag,       \* the blocks of a pool of tags
  None,      \* no descriptor, no tag, no thread
  Lost       \* a thread that pthread_create did not create

ASSUME EpollAssumption ==
  /\ IsFiniteSet(Worker) /\ Worker \subseteq Nat
  /\ Capable \in Nat /\ ConnMax \in Nat \ {0}
  /\ Thread \subseteq Nat \ {0}
  /\ IsFiniteSet(Conn)
  /\ Tag \subseteq Nat
  /\ Conn \cap {"eventfd", "timerfd"} = {}
  /\ \A S \in {Worker, Thread \cup {0}, Conn, Tag} : None \notin S /\ Lost \notin S
  /\ None \notin {"eventfd", "timerfd"} /\ None # Lost

Main == 0
Agent == {Main} \cup Thread

\* What a pointer to a pool holds when it is NULL.
NoPool == {None}

\* The descriptors a worker waits for.
Fd == {"eventfd", "timerfd"} \cup Conn

VARIABLES
  up,            \* onion_epoll_static_init has made the pools
  epolls,        \* the blocks in use of ep_st->epolls
  count,         \* ep_st->count
  fresh,         \* the blocks whose fields are what the memory held before
  initialized, conn_count, core, timerfd, slots, tags,   \* fields of a worker
  flow,          \* its thread, Lost if pthread_create failed
  name,          \* the descriptor in a tag
  interest,      \* the kernel: the tag a descriptor is registered with
  expired,       \* the kernel: the timer can be read
  input,         \* the kernel: what can be read from a connection
  pc, at,        \* the statement of an agent and the worker it is about
  awaits,        \* the thread an agent joins
  batch,         \* the events a thread has yet to handle, each with its tag
  call,          \* the call the main thread is in
  mine,          \* the workers init returned and nobody has taken down
  fault          \* how the process came to harm, or "none"

pools == <<up, epolls, count, fresh>>
fields == <<initialized, conn_count, core, timerfd, slots, tags, flow, name>>
kernel == <<interest, expired, input>>
program == <<call, mine>>
vars == <<pools, fields, kernel, pc, at, awaits, batch, program, fault>>

IsFirst(p, free) == p \in free /\ \A q \in free : p <= q

Goto(a, label) == pc' = [pc EXCEPT ![a] = label]

-----------------------------------------------------------------------------
(* Tags and slots.                                                           *)

NoNames == [p \in Tag |-> None]

\* onion_epoll_event_add takes tag p of worker w for descriptor fd.
TakeTag(w, p, fd) ==
  /\ tags[w] # NoPool
  /\ IsFirst(p, Tag \ tags[w])
  /\ tags' = [tags EXCEPT ![w] = @ \cup {p}]
  /\ name' = [name EXCEPT ![w][p] = fd]

EventAdd(w, p, fd) ==
  /\ TakeTag(w, p, fd)
  /\ interest' = [interest EXCEPT ![w][fd] = p]

EventAddFindsNoTag(w) ==
  /\ Tag \subseteq tags[w]
  /\ UNCHANGED <<tags, name, interest>>

\* epoll_ctl fails: the tag is not given back.
EventAddLeaksTag(w, p) ==
  /\ TakeTag(w, p, None)
  /\ UNCHANGED interest

EventAddFails(w) == EventAddFindsNoTag(w) \/ \E p \in Tag : EventAddLeaksTag(w, p)

\* Mutant: the tag is given back with the descriptor in it.
EventDelKeepsName(w, p) ==
  /\ tags' = [tags EXCEPT ![w] = @ \ {p}]
  /\ UNCHANGED name

\* The descriptor stays registered, with a tag that is free: epoll_ctl is called
\* for descriptors that are invalid.
EventDel(w, p) ==
  /\ tags' = [tags EXCEPT ![w] = @ \ {p}]
  /\ name' = [name EXCEPT ![w][p] = None]

\* onion_block_alloc tells its caller the position of the block: it does not, and
\* start_pos of every slot is -1.
WritesPosition == FALSE

\* The slots onion_handle_timer removes of those that are idle.
Removed(idle) == {c \in idle : WritesPosition}

\* onion_epoll_slot_del, for each of these slots.
SlotsDel(w, gone) ==
  /\ slots' = [slots EXCEPT ![w] = @ \ gone]
  /\ conn_count' = [conn_count EXCEPT ![w] = @ - Cardinality(gone)]
  /\ interest' = [interest EXCEPT ![w] = [fd \in Fd |-> IF fd \in gone THEN None ELSE @[fd]]]

\* onion_epoll_slot_add registers the connection before it counts it.
SlotAdded(w, c) ==
  /\ conn_count[w] + 1 < ConnMax
  /\ \E p \in Tag : EventAdd(w, p, c)
  /\ slots' = [slots EXCEPT ![w] = @ \cup {c}]
  /\ conn_count' = [conn_count EXCEPT ![w] = @ + 1]
  /\ input' = [input EXCEPT ![c] = "quiet"]

\* Mutant: the slot is not given back.
SlotRefusedIsKept(w, c) ==
  /\ conn_count[w] + 1 < ConnMax
  /\ EventAddFails(w)
  /\ slots' = [slots EXCEPT ![w] = @ \cup {c}]
  /\ UNCHANGED <<conn_count, input>>

\* There is no tag for it, or epoll_ctl fails; the slot is given back.
SlotRefused(w, c) ==
  /\ conn_count[w] + 1 < ConnMax
  /\ EventAddFails(w)
  /\ UNCHANGED <<slots, conn_count, input>>

-----------------------------------------------------------------------------
(* The thread of a worker.                                                   *)

\* The loop ends for a thread that finds the worker not initialised: init has
\* failed and waits for it ...
FindsUnset(t) ==
  /\ pc[t] = "test" /\ ~initialized[at[t]] /\ awaits[Main] = t
  /\ Goto(t, "join")
  /\ UNCHANGED <<pools, fields, kernel, at, awaits, batch, program, fault>>

\* ... or has not come so far yet.  The thread then takes the worker down under
\* the hands of init, which goes on with it.  The model stops here.
FindsUnsetEarly(t) ==
  /\ pc[t] = "test" /\ ~initialized[at[t]] /\ awaits[Main] # t
  /\ fault' = "raced"
  /\ UNCHANGED <<pools, fields, kernel, pc, at, awaits, batch, program>>

Readable(fd) == fd \in Conn /\ input[fd] \in {"data", "end"}

Ready(w) ==
  {fd \in Fd : interest[w][fd] # None /\ (Readable(fd) \/ (fd = "timerfd" /\ expired[w]))}

\* The loop goes on.  epoll_wait returns what is ready, or nothing after a second.
EpollWait(t) ==
  /\ pc[t] = "test" /\ initialized[at[t]]
  /\ batch' = [batch EXCEPT ![t] = {<<fd, interest[at[t]][fd]>> : fd \in Ready(at[t])}]
  /\ Goto(t, IF Ready(at[t]) = {} THEN "test" ELSE "event")
  /\ UNCHANGED <<pools, fields, kernel, at, awaits, program, fault>>

Takes(t, e) ==
  /\ pc[t] = "event"
  /\ e \in batch[t]
  /\ tags[at[t]] # NoPool
  /\ batch' = [batch EXCEPT ![t] = @ \ {e}]
  /\ Goto(t, "handler")
  /\ UNCHANGED <<pools, initialized, core, timerfd, flow, at, awaits, program, fault>>

\* The descriptor onion_epoll_tag_handler reads from: the one in the tag the event
\* points to.
Named(t, e) == name[at[t]][e[2]]

\* A read of this descriptor returns bytes.
HasBytes(w, fd) ==
  \/ fd = "timerfd" /\ expired[w]
  \/ fd \in Conn /\ input[fd] = "data"

\* Mutant: whatever the handler answers, the tag goes.
HandleTimerOnce(t, e) ==
  /\ Takes(t, e)
  /\ Named(t, e) = "timerfd" /\ HasBytes(at[t], "timerfd")
  /\ expired' = [expired EXCEPT ![at[t]] = FALSE]
  /\ EventDel(at[t], e[2])
  /\ UNCHANGED <<slots, conn_count, interest, input>>

HandleTimer(t, e) ==
  /\ Takes(t, e)
  /\ Named(t, e) = "timerfd" /\ HasBytes(at[t], "timerfd")
  /\ slots[at[t]] # NoPool
  /\ expired' = [expired EXCEPT ![at[t]] = FALSE]
  /\ \E idle \in SUBSET slots[at[t]] : SlotsDel(at[t], Removed(idle))
  /\ UNCHANGED <<tags, name, input>>

\* Up to eight bytes of a connection are read and dropped; the tag goes.
HandleData(t, e) ==
  /\ Takes(t, e)
  /\ Named(t, e) \in Conn /\ HasBytes(at[t], Named(t, e))
  /\ \E rest \in {"quiet", "data"} : input' = [input EXCEPT ![Named(t, e)] = rest]
  /\ EventDel(at[t], e[2])
  /\ UNCHANGED <<slots, conn_count, interest, expired>>

\* There is nothing to read: the tag names no descriptor, or one whose bytes are
\* not those announced.  Or the connection has ended.  The tag stays.
HandleNothing(t, e) ==
  /\ Takes(t, e)
  /\ ~HasBytes(at[t], Named(t, e))
  /\ UNCHANGED <<slots, conn_count, tags, name, kernel>>

\* The program's handler returns, having accepted a connection or not.
Returns(t) ==
  /\ pc[t] = "handler"
  /\ Goto(t, IF batch[t] = {} THEN "test" ELSE "event")
  /\ UNCHANGED <<pools, initialized, core, timerfd, flow, expired, at, awaits, batch, program, fault>>

\* It accepts none, or one that is refused because of the limit or for want of a
\* slot.
HandlerReturns(t) ==
  /\ Returns(t)
  /\ UNCHANGED <<conn_count, slots, tags, name, interest, input>>

Unborn == {c \in Conn : input[c] = "unborn"}

\* Which descriptor the next connection gets is up to the kernel: they are alike.
HandlerAccepts(t) ==
  /\ Returns(t)
  /\ slots[at[t]] # NoPool
  /\ Unborn # {}
  /\ LET c == CHOOSE c \in Unborn : TRUE
     IN SlotAdded(at[t], c) \/ SlotRefused(at[t], c)

ThreadStep(t) ==
  \/ FindsUnset(t) \/ FindsUnsetEarly(t) \/ EpollWait(t)
  \/ \E e \in batch[t] : HandleTimer(t, e) \/ HandleData(t, e) \/ HandleNothing(t, e)
  \/ HandlerReturns(t)

-----------------------------------------------------------------------------
(* onion_epoll1_exit, of worker at[a]: the main thread in it, or a thread    *)
(* that has left its loop.                                                   *)

\* Mutant: exit does not wait.
JoinNobody(a) ==
  /\ pc[a] = "join"
  /\ flow' = [flow EXCEPT ![at[a]] = None]
  /\ Goto(a, "liquidate")
  /\ UNCHANGED <<pools, initialized, conn_count, core, timerfd, slots, tags, name,
                 kernel, at, awaits, batch, program, fault>>

\* What the code sees of ep->flow.  A thread that joins itself is told so.
Join(a) ==
  /\ pc[a] = "join"
  /\ \/ /\ flow[at[a]] \in {None, a}
        /\ flow' = [flow EXCEPT ![at[a]] = None]
        /\ Goto(a, "liquidate")
        /\ UNCHANGED awaits
     \/ /\ flow[at[a]] \in Thread \ {a}
        /\ awaits' = [awaits EXCEPT ![a] = flow[at[a]]]
        /\ Goto(a, "joining")
        /\ UNCHANGED flow
  /\ UNCHANGED <<pools, initialized, conn_count, core, timerfd, slots, tags, name,
                 kernel, at, batch, program, fault>>

Joined(a) ==
  /\ pc[a] = "joining" /\ pc[awaits[a]] = "ended"
  /\ awaits' = [awaits EXCEPT ![a] = None]
  /\ flow' = [flow EXCEPT ![at[a]] = None]
  /\ Goto(a, "liquidate")
  /\ UNCHANGED <<pools, initialized, conn_count, core, timerfd, slots, tags, name,
                 kernel, at, batch, program, fault>>

\* A thread was never created, and flow is what pthread_create left there.
JoinLost(a) ==
  /\ pc[a] = "join" /\ flow[at[a]] = Lost
  /\ fault' = "wild"
  /\ UNCHANGED <<pools, fields, kernel, pc, at, awaits, batch, program>>

LiquidateTimer(a) ==
  /\ pc[a] = "liquidate"
  /\ timerfd' = [timerfd EXCEPT ![at[a]] = FALSE]
  /\ interest' = [interest EXCEPT ![at[a]]["timerfd"] = None]
  /\ expired' = [expired EXCEPT ![at[a]] = FALSE]
  /\ Goto(a, "slots")
  /\ UNCHANGED <<pools, initialized, conn_count, core, slots, tags, flow, name,
                 input, at, awaits, batch, program, fault>>

\* A pool is there, or not: what the next statement relies on.
Tests(a, label, pool, yes, no) ==
  /\ pc[a] = label
  /\ Goto(a, IF pool[at[a]] # NoPool THEN yes ELSE no)
  /\ UNCHANGED <<pools, fields, kernel, at, awaits, batch, program, fault>>

TestSlots(a) == Tests(a, "slots", slots, "free slots", "tags")
TestTags(a) == Tests(a, "tags", tags, "free tags", "free block")

\* The connections of the slots are left open, as their descriptors are valid.
FreeSlots(a) ==
  /\ pc[a] = "free slots" /\ slots[at[a]] # NoPool
  /\ slots' = [slots EXCEPT ![at[a]] = NoPool]
  /\ Goto(a, "tags")
  /\ UNCHANGED <<pools, initialized, conn_count, core, timerfd, tags, flow, name,
                 kernel, at, awaits, batch, program, fault>>

FreeTags(a) ==
  /\ pc[a] = "free tags" /\ tags[at[a]] # NoPool
  /\ tags' = [tags EXCEPT ![at[a]] = NoPool]
  /\ name' = [name EXCEPT ![at[a]] = NoNames]
  /\ Goto(a, "free block")
  /\ UNCHANGED <<pools, initialized, conn_count, core, timerfd, slots, flow,
                 kernel, at, awaits, batch, program, fault>>

\* Eventfd and epoll stay open, as they are valid.  The block of the arguments
\* goes with the one of the worker: they are taken and returned together.
FreeBlock(a) ==
  /\ pc[a] = "free block"
  /\ epolls' = epolls \ {at[a]}
  /\ Goto(a, "uncount")
  /\ UNCHANGED <<up, count, fresh, fields, kernel, at, awaits, batch, program, fault>>

\* Mutant: a worker is counted out that was never counted in.
UncountAlways(a) ==
  /\ pc[a] = "uncount"
  /\ count' = count - 1
  /\ Goto(a, "clear")
  /\ UNCHANGED <<up, epolls, fresh, fields, kernel, at, awaits, batch, program, fault>>

Uncount(a) ==
  /\ pc[a] = "uncount"
  /\ count' = IF initialized[at[a]] THEN count - 1 ELSE count
  /\ Goto(a, "clear")
  /\ UNCHANGED <<up, epolls, fresh, fields, kernel, at, awaits, batch, program, fault>>

Clear(a) ==
  /\ pc[a] = "clear"
  /\ initialized' = [initialized EXCEPT ![at[a]] = FALSE]
  /\ IF a = Main
     THEN /\ Goto(a, IF call = "static" THEN "static" ELSE "idle")
          /\ call' = IF call = "static" THEN call ELSE "none"
          /\ mine' = mine \ {at[a]}
     ELSE /\ Goto(a, "ended")
          /\ UNCHANGED program
  /\ UNCHANGED <<pools, conn_count, core, timerfd, slots, tags, flow, name, kernel,
                 at, awaits, batch, fault>>

ExitStep(a) ==
  \/ Join(a) \/ Joined(a) \/ JoinLost(a) \/ LiquidateTimer(a)
  \/ TestSlots(a) \/ FreeSlots(a) \/ TestTags(a) \/ FreeTags(a)
  \/ FreeBlock(a) \/ Uncount(a) \/ Clear(a)

-----------------------------------------------------------------------------
(* onion_epoll1_init.                                                        *)

NoInterest == [fd \in Fd |-> None]

\* A worker is prepared in block w: with this much of it, in this place.
Prepares(w) ==
  /\ up /\ pc[Main] = "idle" /\ count + 1 <= Capable
  /\ \E t \in Thread : pc[t] = "unborn"
  /\ IsFirst(w, Worker \ epolls)
  /\ epolls' = epolls \cup {w}
  /\ initialized' = [initialized EXCEPT ![w] = FALSE]
  /\ conn_count' = [conn_count EXCEPT ![w] = 0]
  /\ core' = [core EXCEPT ![w] = count]
  /\ at' = [at EXCEPT ![Main] = w]
  /\ call' = "init"

\* All that comes before the thread, the registration of the eventfd included.
Prepare(w, p) ==
  /\ Prepares(w)
  /\ IsFirst(p, Tag)
  /\ slots' = [slots EXCEPT ![w] = {}]
  /\ tags' = [tags EXCEPT ![w] = {p}]
  /\ name' = [name EXCEPT ![w] = [NoNames EXCEPT ![p] = "eventfd"]]
  /\ interest' = [interest EXCEPT ![w] = [NoInterest EXCEPT !["eventfd"] = p]]
  /\ fresh' = fresh \ {w}
  /\ Goto(Main, "create")
  /\ UNCHANGED <<up, count, timerfd, flow, expired, input, awaits, batch, mine, fault>>

\* A descriptor or a pool is not to be had: what is made so far is taken down.
\* In a block that was never a worker before flow, timerfd and the pools are what
\* the memory held: a descriptor of others is closed, a thread nobody knows joined.
PrepareFails(w, made) ==
  /\ Prepares(w)
  /\ slots' = [slots EXCEPT ![w] = IF "slots" \in made THEN {} ELSE @]
  /\ tags' = [tags EXCEPT ![w] = IF "tags" \in made THEN {} ELSE @]
  /\ interest' = [interest EXCEPT ![w] = NoInterest]
  /\ fault' = IF w \in fresh THEN "wild" ELSE "none"
  /\ Goto(Main, "join")
  /\ UNCHANGED <<up, count, fresh, timerfd, flow, name, expired, input, awaits, batch, mine>>

\* Mutant: the worker is marked before the timer is added.
CreatesMarked(t) ==
  /\ pc[Main] = "create" /\ pc[t] = "unborn"
  /\ flow' = [flow EXCEPT ![at[Main]] = t]
  /\ at' = [at EXCEPT ![t] = at[Main]]
  /\ pc' = [pc EXCEPT ![Main] = "timer", ![t] = "test"]
  /\ initialized' = [initialized EXCEPT ![at[Main]] = TRUE]
  /\ UNCHANGED <<pools, conn_count, core, timerfd, slots, tags, name, kernel, awaits, batch,
                 program, fault>>

CreateThread(t) ==
  /\ pc[Main] = "create" /\ pc[t] = "unborn"
  /\ flow' = [flow EXCEPT ![at[Main]] = t]
  /\ at' = [at EXCEPT ![t] = at[Main]]
  /\ pc' = [pc EXCEPT ![Main] = "timer", ![t] = "test"]
  /\ UNCHANGED <<pools, initialized, conn_count, core, timerfd, slots, tags, name,
                 kernel, awaits, batch, program, fault>>

\* The error pthread_create returns is positive and passes for success.
CreateFails ==
  /\ pc[Main] = "create"
  /\ flow' = [flow EXCEPT ![at[Main]] = Lost]
  /\ Goto(Main, "timer")
  /\ UNCHANGED <<pools, initialized, conn_count, core, timerfd, slots, tags, name,
                 kernel, at, awaits, batch, program, fault>>

TimerCreated ==
  /\ pc[Main] = "timer"
  /\ timerfd' = [timerfd EXCEPT ![at[Main]] = TRUE]
  /\ Goto(Main, "add timer")
  /\ UNCHANGED <<pools, initialized, conn_count, core, slots, tags, flow, name,
                 kernel, at, awaits, batch, program, fault>>

TimerFails ==
  /\ pc[Main] = "timer"
  /\ \E made \in BOOLEAN : timerfd' = [timerfd EXCEPT ![at[Main]] = made]
  /\ Goto(Main, "join")
  /\ UNCHANGED <<pools, initialized, conn_count, core, slots, tags, flow, name,
                 kernel, at, awaits, batch, program, fault>>

TimerAdded(p) ==
  /\ pc[Main] = "add timer"
  /\ EventAdd(at[Main], p, "timerfd")
  /\ Goto(Main, "count")
  /\ UNCHANGED <<pools, initialized, conn_count, core, timerfd, slots, flow, expired,
                 input, at, awaits, batch, program, fault>>

TimerNotAdded ==
  /\ pc[Main] = "add timer"
  /\ EventAddFails(at[Main])
  /\ Goto(Main, "join")
  /\ UNCHANGED <<pools, initialized, conn_count, core, timerfd, slots, flow, expired,
                 input, at, awaits, batch, program, fault>>

CountWorker ==
  /\ pc[Main] = "count"
  /\ count' = count + 1
  /\ Goto(Main, "mark")
  /\ UNCHANGED <<up, epolls, fresh, fields, kernel, at, awaits, batch, program, fault>>

MarkInitialized ==
  /\ pc[Main] = "mark"
  /\ initialized' = [initialized EXCEPT ![at[Main]] = TRUE]
  /\ mine' = mine \cup {at[Main]}
  /\ call' = "none"
  /\ Goto(Main, "idle")
  /\ UNCHANGED <<pools, conn_count, core, timerfd, slots, tags, flow, name, kernel,
                 at, awaits, batch, fault>>

InitStep ==
  \/ \E t \in Thread : CreateThread(t)
  \/ CreateFails \/ TimerCreated \/ TimerFails
  \/ \E p \in Tag : TimerAdded(p)
  \/ TimerNotAdded \/ CountWorker \/ MarkInitialized

-----------------------------------------------------------------------------
(* The other calls of the program, and what happens around it.               *)

StaticInit ==
  /\ ~up /\ pc[Main] = "idle"
  /\ up' = TRUE
  /\ epolls' = {} /\ count' = 0 /\ fresh' = Worker
  /\ UNCHANGED <<fields, kernel, pc, at, awaits, batch, program, fault>>

\* onion_epoll1_exit of a worker that init returned.
CallExit(w) ==
  /\ up /\ pc[Main] = "idle" /\ w \in mine
  /\ at' = [at EXCEPT ![Main] = w]
  /\ call' = "exit"
  /\ Goto(Main, "join")
  /\ UNCHANGED <<pools, fields, kernel, awaits, batch, mine, fault>>

CallStaticExit ==
  /\ up /\ pc[Main] = "idle"
  /\ call' = "static"
  /\ Goto(Main, "static")
  /\ UNCHANGED <<pools, fields, kernel, at, awaits, batch, mine, fault>>

Marked == {w \in Worker \ fresh : initialized[w]}

\* onion_epoll_static_exit takes down the workers one by one ...
StaticExitWorker(w) ==
  /\ pc[Main] = "static"
  /\ IsFirst(w, Marked)
  /\ at' = [at EXCEPT ![Main] = w]
  /\ Goto(Main, "join")
  /\ UNCHANGED <<pools, fields, kernel, awaits, batch, program, fault>>

\* ... where a block that was never a worker may look like one,
StaticExitWild ==
  /\ pc[Main] = "static" /\ fresh # {}
  /\ fault' = "wild"
  /\ UNCHANGED <<pools, fields, kernel, pc, at, awaits, batch, program>>

\* ... and releases the pool they are in.
StaticExitEnds ==
  /\ pc[Main] = "static" /\ Marked = {}
  /\ up' = FALSE
  /\ call' = "none" /\ mine' = {}
  /\ Goto(Main, "idle")
  /\ UNCHANGED <<epolls, count, fresh, fields, kernel, at, awaits, batch, fault>>

ProgramStep ==
  \/ StaticInit \/ CallStaticExit
  \/ \E w \in Worker :
       \/ \E p \in Tag : Prepare(w, p)
       \/ \E made \in {{}, {"slots"}, {"slots", "tags"}} : PrepareFails(w, made)
       \/ CallExit(w)

StaticExitStep ==
  (\E w \in Worker : StaticExitWorker(w)) \/ StaticExitWild \/ StaticExitEnds

TimerExpires(w) ==
  /\ timerfd[w] /\ ~expired[w]
  /\ expired' = [expired EXCEPT ![w] = TRUE]
  /\ UNCHANGED <<pools, fields, interest, input, pc, at, awaits, batch, program, fault>>

\* The other end of a connection sends, or closes it: what was sent before is read
\* first.
PeerSends(c) ==
  /\ input[c] = "quiet"
  /\ input' = [input EXCEPT ![c] = "data"]
  /\ UNCHANGED <<pools, fields, interest, expired, pc, at, awaits, batch, program, fault>>

PeerCloses(c) ==
  /\ input[c] = "quiet"
  /\ input' = [input EXCEPT ![c] = "end"]
  /\ UNCHANGED <<pools, fields, interest, expired, pc, at, awaits, batch, program, fault>>

Init ==
  /\ up = FALSE /\ epolls = {} /\ count = 0 /\ fresh = Worker
  /\ initialized = [w \in Worker |-> FALSE]
  /\ conn_count = [w \in Worker |-> 0] /\ core = [w \in Worker |-> 0]
  /\ timerfd = [w \in Worker |-> FALSE]
  /\ slots = [w \in Worker |-> NoPool] /\ tags = [w \in Worker |-> NoPool]
  /\ flow = [w \in Worker |-> None]
  /\ name = [w \in Worker |-> NoNames]
  /\ interest = [w \in Worker |-> NoInterest]
  /\ expired = [w \in Worker |-> FALSE]
  /\ input = [c \in Conn |-> "unborn"]
  /\ pc = [a \in Agent |-> IF a = Main THEN "idle" ELSE "unborn"]
  /\ at = [a \in Agent |-> None]
  /\ awaits = [a \in Agent |-> None] /\ batch = [t \in Thread |-> {}]
  /\ call = "none" /\ mine = {}
  /\ fault = "none"

Next ==
  /\ fault = "none"
  /\ \/ ProgramStep \/ InitStep \/ StaticExitStep
     \/ \E a \in Agent : ExitStep(a)
     \/ \E t \in Thread : ThreadStep(t) \/ HandlerAccepts(t)
     \/ \E w \in Worker : TimerExpires(w)
     \/ \E c \in Conn : PeerSends(c) \/ PeerCloses(c)

\* The main thread goes on with a call it is in, and each thread with its loop;
\* the scheduler runs them.  Handlers return.  Nothing makes a peer send, a timer
\* expire or the program call.
Fairness ==
  /\ WF_vars(fault = "none" /\ (InitStep \/ StaticExitStep \/ ExitStep(Main)))
  /\ \A t \in Thread : WF_vars(fault = "none" /\ (ThreadStep(t) \/ ExitStep(t)))

Spec == Init /\ [][Next]_vars /\ Fairness

-----------------------------------------------------------------------------
(* Properties.  They hold until the process comes to harm: in particular up  *)
(* to the first thread that leaves its loop while init goes on (raced).      *)

\* Each initialised worker is whole: it has its block, its pools, a registered
\* timer, a core of its own, and a thread in its loop, unless none was created;
\* and ep_st->count counts them (epoll.c:339-434, 484).  Nothing takes such a
\* worker down again: exit waits for the thread, which waits for exit.
WorkersAreWhole ==
  fault = "none" /\ up =>
    /\ count = Cardinality(Marked) + (IF pc[Main] = "mark" THEN 1 ELSE 0)
    /\ \A w \in Marked :
         /\ w \in epolls /\ slots[w] # NoPool /\ tags[w] # NoPool
         /\ interest[w]["timerfd"] # None
         /\ core[w] < Capable /\ \A v \in Marked : core[v] = core[w] => v = w
         /\ \/ flow[w] = Lost
            \/ /\ flow[w] \in Thread /\ at[flow[w]] = w
               /\ pc[flow[w]] \in {"test", "event", "handler"}

\* conn_count is the number of slots in use, and never reaches conn_max
\* (epoll.c:279-318): it is not touched where a slot is refused.
ConnectionsCounted ==
  fault = "none" => \A w \in Worker : slots[w] # NoPool =>
    /\ conn_count[w] = Cardinality(slots[w])
    /\ conn_count[w] < ConnMax

\* No two tags name a descriptor, only tags in use name one, and the one it was
\* registered with; eventfd and timer keep theirs, whatever becomes of the tags of
\* connections, which are freed while the kernel still points to them
\* (epoll.c:87-93, 262-264).
TagsNameDescriptors ==
  fault = "none" => \A w \in Worker : tags[w] # NoPool =>
    /\ \A p \in Tag : name[w][p] # None =>
         /\ p \in tags[w]
         /\ interest[w][name[w][p]] = p \/ (name[w][p] = "timerfd" /\ ~timerfd[w])
    /\ \A fd \in {"eventfd", "timerfd"} :
         interest[w][fd] # None => name[w][interest[w][fd]] = fd

\* A worker that failed in init is taken down twice, by its thread and by the main
\* thread: no pool is used, or freed again, once it is freed (epoll.c:430-491).  And
\* no thread is left when the pool its worker is in goes (epoll.c:539-566).
NoUseAfterFree ==
  fault = "none" =>
    /\ \A a \in Agent :
         /\ pc[a] = "free slots" => slots[at[a]] # NoPool
         /\ pc[a] = "free tags" => tags[at[a]] # NoPool
         /\ pc[a] \in {"event", "handler"} => slots[at[a]] # NoPool /\ tags[at[a]] # NoPool
    /\ ~up => \A t \in Thread : pc[t] \in {"unborn", "ended"}

\* onion_epoll1_init does not wait for ever (epoll.c:338-440).  The thread it waits
\* for when it fails is on its way out, and will not be told to stay: it finds its
\* worker not initialised, or has found it so; and does not wait for another.
InitWaitsForLeaver ==
  fault = "none" /\ call = "init" /\ pc[Main] = "joining" =>
    LET t == awaits[Main]
    IN  /\ t \in Thread /\ at[t] = at[Main] /\ flow[at[t]] \in {t, None}
        /\ ~initialized[at[t]] /\ pc[t] \notin {"event", "handler", "joining"}

\* The timer of a worker never stays expired: it is served, whatever connections do
\* (epoll.c:243-275): those that have ended, or whose tag is gone, are ready for
\* ever and never read.
TimerIsServed ==
  \A w \in Worker :
    []<>(initialized[w] /\ flow[w] \in Thread => ~expired[w] \/ fault # "none")

=============================================================================
