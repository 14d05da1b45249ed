-------------------------- MODULE OnionEpollProofs ---------------------------
(***************************************************************************)
(* What holds of the epoll workers for every number of workers, threads,   *)
(* connections and tags.                                                   *)
(*                                                                         *)
(* Until the process comes to harm, every block of the pool of epolls is   *)
(* unused, marked, or the one onion_epoll1_init is at; a thread that is in *)
(* its loop belongs to a marked worker or to that one; and a thread that   *)
(* takes its worker down has the main thread wait for it.  From this the   *)
(* properties of OnionEpoll follow.                                        *)
(***************************************************************************)
EXTENDS OnionEpoll, FiniteSetTheorems, TLAPS

Loop == {"test", "event", "handler"}
Leaving == {"join", "liquidate", "slots", "free slots", "tags", "free tags",
            "free block", "uncount", "clear"}
Building == {"create", "timer", "add timer", "count", "mark"}
Label == Loop \cup Leaving \cup Building \cup {"joining", "idle", "static", "unborn", "ended"}

WorkerTypes ==
  /\ up \in BOOLEAN /\ epolls \subseteq Worker /\ count \in Int /\ fresh \subseteq Worker
  /\ initialized \in [Worker -> BOOLEAN]
  /\ conn_count \in [Worker -> Int] /\ core \in [Worker -> Int]
  /\ timerfd \in [Worker -> BOOLEAN]
  /\ expired \in [Worker -> BOOLEAN]
  /\ flow \in [Worker -> Thread \cup {None, Lost}]

PoolTypes ==
  /\ slots \in [Worker -> (SUBSET Conn) \cup {NoPool}]
  /\ tags \in [Worker -> (SUBSET Tag) \cup {NoPool}]
  /\ input \in [Conn -> {"unborn", "quiet", "data", "end"}]

TagTypes ==
  /\ name \in [Worker -> [Tag -> Fd \cup {None}]]
  /\ interest \in [Worker -> [Fd -> Tag \cup {None}]]
  /\ batch \in [Thread -> SUBSET (Fd \X Tag)]

AgentTypes ==
  /\ pc \in [Agent -> Label]
  /\ at \in [Agent -> Worker \cup {None}]
  /\ \A a \in Agent : pc[a] \notin {"idle", "static", "unborn", "ended"} => at[a] \in Worker
  /\ awaits \in [Agent -> Thread \cup {None}]
  /\ call \in {"none", "init", "exit", "static"}
  /\ fault \in {"none", "raced", "wild"}

TypeOK == WorkerTypes /\ PoolTypes /\ TagTypes /\ AgentTypes

\* The statements of the main thread belong to its calls, and to a block.
Calls ==
  /\ ~up => pc[Main] = "idle" /\ Marked = {}
  /\ pc[Main] = "idle" <=> call = "none"
  /\ pc[Main] \in Building => call = "init"
  /\ pc[Main] \notin Loop \cup {"unborn", "ended"}
  /\ call = "init" => pc[Main] # "static" /\ ~initialized[at[Main]]
  /\ call \in {"exit", "static"} =>
       \/ call = "static" /\ pc[Main] = "static"
       \/ pc[Main] \in {"join", "joining"} /\ initialized[at[Main]]
  /\ pc[Main] \notin {"idle", "static"} => at[Main] \in Worker \ fresh
  /\ mine \subseteq Marked

Unused(w) == slots[w] = NoPool /\ tags[w] = NoPool /\ flow[w] = None /\ ~timerfd[w]

\* A block that is neither marked nor the one init is at is unused.
Blocks ==
  \A w \in Worker \ fresh :
    ~initialized[w] /\ ~(call = "init" /\ at[Main] = w) => Unused(w)

\* The number of marked workers: a worker is counted before it is marked.
Counted == IF pc[Main] = "mark" THEN count - 1 ELSE count

Whole(w) ==
  /\ w \in epolls /\ slots[w] # NoPool /\ tags[w] # NoPool
  /\ interest[w]["timerfd"] # None
  /\ core[w] < Counted
  /\ \/ flow[w] = Lost
     \/ flow[w] \in Thread /\ at[flow[w]] = w /\ pc[flow[w]] \in Loop

Cores ==
  /\ Counted = Cardinality(Marked) /\ Counted <= Capable
  /\ \A v, w \in Marked : core[v] = core[w] => v = w
  /\ pc[Main] \in Building => core[at[Main]] = Counted /\ Counted < Capable

\* How far a worker is taken down.
Stage(a) ==
  /\ pc[a] \in Leaving \ {"join"} => flow[at[a]] = None
  /\ pc[a] \in Leaving \ {"join", "liquidate"} => ~timerfd[at[a]]
  /\ pc[a] = "free slots" => slots[at[a]] # NoPool
  /\ pc[a] = "free tags" => tags[at[a]] # NoPool
  /\ pc[a] \in {"tags", "free tags", "free block", "uncount", "clear"} => slots[at[a]] = NoPool
  /\ pc[a] \in {"free block", "uncount", "clear"} => tags[at[a]] = NoPool

\* A thread is in the loop of its worker, or takes it down while init waits.
ThreadFits(t) ==
  /\ pc[t] \in Loop \cup Leaving \cup {"unborn", "ended"}
  /\ pc[t] \in Loop =>
       /\ at[t] \in Worker \ fresh /\ flow[at[t]] = t
       /\ slots[at[t]] # NoPool /\ tags[at[t]] # NoPool
       /\ ~initialized[at[t]] =>
            /\ pc[t] = "test" /\ call = "init" /\ at[Main] = at[t]
            /\ pc[Main] \in (Building \ {"create"}) \cup {"join", "joining"}
  /\ pc[t] \in Leaving =>
       /\ pc[Main] = "joining" /\ awaits[Main] = t /\ call = "init" /\ at[t] = at[Main]
       /\ pc[t] = "join" => flow[at[t]] = t

\* The thread init has made is not beyond its first test.
Flows ==
  /\ call = "init" /\ pc[Main] \in (Building \ {"create"}) \cup {"join"} =>
       \/ flow[at[Main]] \in {None, Lost}
       \/ /\ flow[at[Main]] \in Thread /\ at[flow[at[Main]]] = at[Main]
          /\ pc[flow[at[Main]]] = "test"
  /\ pc[Main] \in Building =>
       /\ at[Main] \in epolls /\ slots[at[Main]] # NoPool /\ tags[at[Main]] # NoPool
       /\ pc[Main] # "create" => flow[at[Main]] # None
  /\ pc[Main] \in {"count", "mark"} => interest[at[Main]]["timerfd"] # None
  /\ pc[Main] \in {"create", "timer", "add timer"} =>
       interest[at[Main]]["timerfd"] = None

Waits ==
  /\ awaits[Main] # None => pc[Main] = "joining"
  /\ pc[Main] = "joining" =>
       /\ awaits[Main] \in Thread /\ at[awaits[Main]] = at[Main]
       /\ initialized[at[Main]] => pc[awaits[Main]] \in Loop
       /\ call = "init" => pc[awaits[Main]] \in Leaving \cup {"test", "ended"}
       /\ pc[awaits[Main]] = "ended" => Unused(at[Main])

Life ==
  /\ Calls /\ Blocks /\ (\A w \in Marked : Whole(w)) /\ Cores
  /\ (\A a \in Agent : Stage(a)) /\ (\A t \in Thread : ThreadFits(t))
  /\ Flows /\ Waits

LifeInv == TypeOK /\ (fault = "none" => Life)

-----------------------------------------------------------------------------

LEMMA Agents ==
  /\ Main \in Agent /\ Main \notin Thread /\ Thread \subseteq Agent
  /\ \A a \in Agent : a = Main \/ a \in Thread
  /\ None \notin Tag /\ None \notin Conn /\ None \notin Thread /\ Lost \notin Thread
  /\ None \notin Fd /\ None # Lost /\ None \notin Worker /\ Main \notin {None, Lost}
  /\ "timerfd" \in Fd /\ "eventfd" \in Fd /\ Conn \subseteq Fd
  BY EpollAssumption DEF Main, Agent, Fd

\* A step of the epoll workers is one of these.
LEMMA Steps ==
  ASSUME Next
  PROVE  \/ \E w \in Worker : \/ \E p \in Tag : Prepare(w, p)
                              \/ \E made \in {{}, {"slots"}, {"slots", "tags"}} : PrepareFails(w, made)
                              \/ CallExit(w) \/ StaticExitWorker(w) \/ TimerExpires(w)
         \/ StaticInit \/ CallStaticExit \/ StaticExitWild \/ StaticExitEnds
         \/ \E t \in Thread : \/ CreateThread(t) \/ FindsUnset(t) \/ FindsUnsetEarly(t)
                              \/ EpollWait(t) \/ HandlerReturns(t) \/ HandlerAccepts(t)
                              \/ \E e \in batch[t] : HandleTimer(t, e) \/ HandleData(t, e)
                                                      \/ HandleNothing(t, e)
         \/ CreateFails \/ TimerCreated \/ TimerFails \/ TimerNotAdded
         \/ \E p \in Tag : TimerAdded(p)
         \/ CountWorker \/ MarkInitialized
         \/ \E a \in Agent : \/ Join(a) \/ Joined(a) \/ JoinLost(a) \/ LiquidateTimer(a)
                             \/ TestSlots(a) \/ FreeSlots(a) \/ TestTags(a) \/ FreeTags(a)
                             \/ FreeBlock(a) \/ Uncount(a) \/ Clear(a)
         \/ \E c \in Conn : PeerSends(c) \/ PeerCloses(c)
  BY DEF Next, ProgramStep, InitStep, StaticExitStep, ExitStep, ThreadStep

LEMMA TypeInit == Init => TypeOK
  <1> SUFFICES ASSUME Init PROVE TypeOK
    OBVIOUS
  <1> USE Agents DEF Init
  <1>1. WorkerTypes
    <2>1. initialized \in [Worker -> BOOLEAN]
      OBVIOUS
    <2>2. timerfd \in [Worker -> BOOLEAN] /\ expired \in [Worker -> BOOLEAN]
      OBVIOUS
    <2>3. conn_count \in [Worker -> Int] /\ core \in [Worker -> Int]
      OBVIOUS
    <2>4. flow \in [Worker -> Thread \cup {None, Lost}]
      OBVIOUS
    <2>5. epolls \subseteq Worker /\ count \in Int /\ fresh \subseteq Worker
      OBVIOUS
    <2>6. up \in BOOLEAN
      OBVIOUS
    <2>7. QED
      BY <2>1, <2>2, <2>3, <2>4, <2>5, <2>6 DEF WorkerTypes
  <1>2. PoolTypes
    BY DEF PoolTypes
  <1>3. TagTypes
    BY DEF TagTypes, NoNames, NoInterest
  <1>4. AgentTypes
    BY DEF AgentTypes, Agent, Label, Loop, Leaving, Building
  <1>5. QED
    BY <1>1, <1>2, <1>3, <1>4 DEF TypeOK

LEMMA TakeTagTypes ==
  ASSUME TypeOK, NEW w, NEW p \in Tag, NEW fd \in Fd \cup {None}, TakeTag(w, p, fd)
  PROVE  /\ tags' \in [Worker -> (SUBSET Tag) \cup {NoPool}]
         /\ name' \in [Worker -> [Tag -> Fd \cup {None}]]
  <1>1. tags' = [tags EXCEPT ![w] = @ \cup {p}] /\ name' = [name EXCEPT ![w][p] = fd]
    BY DEF TakeTag
  <1>2. ASSUME w \in Worker PROVE tags[w] \cup {p} \subseteq Tag
    BY <1>2 DEF TakeTag, TypeOK, PoolTypes
  <1>3. tags' \in [Worker -> (SUBSET Tag) \cup {NoPool}]
    BY <1>1, <1>2 DEF TypeOK, PoolTypes
  <1>4. name' \in [Worker -> [Tag -> Fd \cup {None}]]
    BY <1>1 DEF TypeOK, TagTypes
  <1>5. QED
    BY <1>3, <1>4

LEMMA EventAddTypes ==
  ASSUME TypeOK, NEW w, NEW p \in Tag, NEW fd \in Fd, EventAdd(w, p, fd)
  PROVE  /\ tags' \in [Worker -> (SUBSET Tag) \cup {NoPool}]
         /\ name' \in [Worker -> [Tag -> Fd \cup {None}]]
         /\ interest' \in [Worker -> [Fd -> Tag \cup {None}]]
  <1>1. interest' \in [Worker -> [Fd -> Tag \cup {None}]]
    BY DEF EventAdd, TypeOK, TagTypes
  <1>2. QED
    BY <1>1, TakeTagTypes DEF EventAdd

LEMMA EventAddFailsTypes ==
  ASSUME TypeOK, NEW w, EventAddFails(w)
  PROVE  /\ tags' \in [Worker -> (SUBSET Tag) \cup {NoPool}]
         /\ name' \in [Worker -> [Tag -> Fd \cup {None}]]
         /\ interest' = interest
  <1>1. CASE EventAddFindsNoTag(w)
    BY <1>1 DEF EventAddFindsNoTag, TypeOK, PoolTypes, TagTypes
  <1>2. ASSUME NEW p \in Tag, EventAddLeaksTag(w, p)
        PROVE  /\ tags' \in [Worker -> (SUBSET Tag) \cup {NoPool}]
               /\ name' \in [Worker -> [Tag -> Fd \cup {None}]]
               /\ interest' = interest
    BY <1>2, TakeTagTypes DEF EventAddLeaksTag
  <1>3. QED
    BY <1>1, <1>2 DEF EventAddFails

LEMMA EventDelTypes ==
  ASSUME TypeOK, NEW w, NEW p \in Tag, tags[w] # NoPool, EventDel(w, p)
  PROVE  /\ tags' \in [Worker -> (SUBSET Tag) \cup {NoPool}]
         /\ name' \in [Worker -> [Tag -> Fd \cup {None}]]
  <1>1. ASSUME w \in Worker PROVE tags[w] \ {p} \subseteq Tag
    BY <1>1 DEF TypeOK, PoolTypes
  <1>2. tags' \in [Worker -> (SUBSET Tag) \cup {NoPool}]
    BY <1>1 DEF EventDel, TypeOK, PoolTypes
  <1>3. name' \in [Worker -> [Tag -> Fd \cup {None}]]
    BY DEF EventDel, TypeOK, TagTypes
  <1>4. QED
    BY <1>2, <1>3

\* onion_handle_timer removes no slot.
LEMMA TimerRemovesNothing ==
  ASSUME TypeOK, NEW w, NEW idle, SlotsDel(w, Removed(idle))
  PROVE  UNCHANGED <<slots, conn_count, interest>>
  <1>1. Removed(idle) = {}
    BY DEF Removed, WritesPosition
  <1>2. slots' = slots
    BY <1>1 DEF SlotsDel, TypeOK, PoolTypes
  <1>3. conn_count' = conn_count
    BY <1>1, FS_EmptySet DEF SlotsDel, TypeOK, WorkerTypes
  <1>4. interest' = interest
    <2>1. ASSUME w \in Worker PROVE [fd \in Fd |-> interest[w][fd]] = interest[w]
      BY <2>1 DEF TypeOK, TagTypes
    <2>2. interest' = [interest EXCEPT ![w] = [fd \in Fd |-> interest[w][fd]]]
      BY <1>1 DEF SlotsDel, TypeOK, TagTypes
    <2>3. QED
      BY <2>1, <2>2 DEF TypeOK, TagTypes
  <1>5. QED
    BY <1>2, <1>3, <1>4

\* What the statements of a thread do to slots, tags and their pools.
LEMMA HandleTypes ==
  ASSUME TypeOK, NEW t \in Thread, NEW e \in batch[t],
         HandleTimer(t, e) \/ HandleData(t, e) \/ HandleNothing(t, e)
  PROVE  /\ PoolTypes' /\ TagTypes'
         /\ UNCHANGED <<slots, conn_count, interest>>
  <1>1. e[2] \in Tag /\ batch' = [batch EXCEPT ![t] = @ \ {e}] /\ tags[at[t]] # NoPool
    BY DEF TypeOK, TagTypes, HandleTimer, HandleData, HandleNothing, Takes
  <1>2. batch' \in [Thread -> SUBSET (Fd \X Tag)]
    BY <1>1 DEF TypeOK, TagTypes
  <1>3. UNCHANGED <<slots, conn_count, interest>>
    BY TimerRemovesNothing DEF HandleTimer, HandleData, HandleNothing, kernel
  <1>4. input' \in [Conn -> {"unborn", "quiet", "data", "end"}]
    BY DEF TypeOK, PoolTypes, HandleTimer, HandleData, HandleNothing, kernel
  <1>5. /\ tags' \in [Worker -> (SUBSET Tag) \cup {NoPool}]
        /\ name' \in [Worker -> [Tag -> Fd \cup {None}]]
    BY <1>1, EventDelTypes DEF HandleTimer, HandleData, HandleNothing, TypeOK,
         PoolTypes, TagTypes
  <1>6. QED
    BY <1>2, <1>3, <1>4, <1>5 DEF TypeOK, PoolTypes, TagTypes

LEMMA AcceptTypes ==
  ASSUME TypeOK, NEW t \in Thread, HandlerAccepts(t)
  PROVE  PoolTypes' /\ TagTypes'
  <1> DEFINE c == CHOOSE c \in Unborn : TRUE
  <1>1. c \in Conn /\ c \in Fd
    BY Agents DEF HandlerAccepts, Unborn
  <1>2. batch' = batch
    BY DEF HandlerAccepts, Returns
  <1>3. CASE SlotAdded(at[t], c)
    <2>1. PICK p \in Tag : EventAdd(at[t], p, c)
      BY <1>3 DEF SlotAdded
    <2>2. slots' \in [Worker -> (SUBSET Conn) \cup {NoPool}]
      BY <1>1, <1>3 DEF SlotAdded, HandlerAccepts, TypeOK, PoolTypes
    <2>3. input' \in [Conn -> {"unborn", "quiet", "data", "end"}]
      BY <1>3 DEF SlotAdded, TypeOK, PoolTypes
    <2> HIDE DEF c
    <2>4. QED
      BY <1>1, <1>2, <2>1, <2>2, <2>3, EventAddTypes DEF TypeOK, PoolTypes, TagTypes
  <1>4. CASE SlotRefused(at[t], c)
    BY <1>2, <1>4, EventAddFailsTypes DEF SlotRefused, TypeOK, PoolTypes, TagTypes
  <1>5. QED
    BY <1>3, <1>4 DEF HandlerAccepts

\* A pool that is there stays there when a tag is taken or given back, and what a
\* descriptor is registered with stays.
LEMMA TagTaken ==
  ASSUME TypeOK, NEW w \in Worker, NEW p \in Tag, NEW fd, TakeTag(w, p, fd)
  PROVE  /\ tags[w] # NoPool /\ tags'[w] # NoPool
         /\ \A v \in Worker \ {w} : tags'[v] = tags[v]
  BY Agents DEF TakeTag, NoPool, TypeOK, PoolTypes

LEMMA EventAdded ==
  ASSUME TypeOK, NEW w \in Worker, NEW p \in Tag, NEW fd \in Fd, EventAdd(w, p, fd)
  PROVE  /\ tags[w] # NoPool /\ tags'[w] # NoPool
         /\ \A v \in Worker \ {w} : tags'[v] = tags[v] /\ interest'[v] = interest[v]
         /\ interest'[w][fd] = p /\ p # None
         /\ \A g \in Fd \ {fd} : interest'[w][g] = interest[w][g]
  BY TagTaken, Agents DEF EventAdd, TypeOK, TagTypes

LEMMA EventNotAdded ==
  ASSUME TypeOK, NEW w \in Worker, EventAddFails(w)
  PROVE  \A v \in Worker : tags'[v] = NoPool <=> tags[v] = NoPool
  <1>1. CASE EventAddFindsNoTag(w)
    BY <1>1 DEF EventAddFindsNoTag
  <1>2. ASSUME NEW p \in Tag, EventAddLeaksTag(w, p)
        PROVE  \A v \in Worker : tags'[v] = NoPool <=> tags[v] = NoPool
    BY <1>2, TagTaken DEF EventAddLeaksTag
  <1>3. QED
    BY <1>1, <1>2 DEF EventAddFails

LEMMA AgentTypesStep == TypeOK /\ [Next]_vars => AgentTypes'
  <1> SUFFICES ASSUME TypeOK, [Next]_vars PROVE AgentTypes'
    OBVIOUS
  <1> USE Agents DEF Label, Leaving, Building, Loop, AgentTypes, Goto, program
  <1>u. CASE UNCHANGED vars
    BY <1>u DEF TypeOK, vars
  <1>1. ASSUME NEW w \in Worker, NEW p \in Tag, Prepare(w, p) PROVE AgentTypes'
    BY <1>1 DEF TypeOK, Prepare, Prepares
  <1>2. ASSUME NEW w \in Worker, NEW made, PrepareFails(w, made) PROVE AgentTypes'
    BY <1>2 DEF TypeOK, PrepareFails, Prepares
  <1>3. ASSUME NEW w \in Worker, CallExit(w) \/ StaticExitWorker(w) \/ TimerExpires(w)
        PROVE AgentTypes'
    <2>1. CASE CallExit(w)
      BY <2>1 DEF TypeOK, CallExit
    <2>2. CASE StaticExitWorker(w)
      BY <2>2 DEF TypeOK, StaticExitWorker
    <2>3. CASE TimerExpires(w)
      BY <2>3 DEF TypeOK, TimerExpires
    <2>4. QED
      BY <1>3, <2>1, <2>2, <2>3
  <1>4. CASE StaticInit \/ CallStaticExit \/ StaticExitWild \/ StaticExitEnds
    BY <1>4 DEF TypeOK, StaticInit, CallStaticExit, StaticExitWild, StaticExitEnds
  <1>5. ASSUME NEW t \in Thread, CreateThread(t) \/ FindsUnset(t) \/ FindsUnsetEarly(t)
        PROVE AgentTypes'
    BY ZenonT(30), <1>5 DEF TypeOK, CreateThread, FindsUnset, FindsUnsetEarly
  <1>6. ASSUME NEW t \in Thread, EpollWait(t) PROVE AgentTypes'
    BY <1>6 DEF TypeOK, EpollWait
  <1>7. ASSUME NEW t \in Thread, HandlerReturns(t) \/ HandlerAccepts(t) PROVE AgentTypes'
    BY <1>7 DEF TypeOK, HandlerReturns, HandlerAccepts, Returns
  <1>8. ASSUME NEW t \in Thread, NEW e \in batch[t],
               HandleTimer(t, e) \/ HandleData(t, e) \/ HandleNothing(t, e)
        PROVE AgentTypes'
    BY ZenonT(30), <1>8 DEF TypeOK, HandleTimer, HandleData, HandleNothing, Takes
  <1>9. CASE CreateFails \/ TimerCreated \/ TimerFails \/ TimerNotAdded
    BY <1>9 DEF TypeOK, CreateFails, TimerCreated, TimerFails, TimerNotAdded
  <1>10. ASSUME NEW p \in Tag, TimerAdded(p) PROVE AgentTypes'
    BY <1>10 DEF TypeOK, TimerAdded
  <1>11. CASE CountWorker \/ MarkInitialized
    BY <1>11 DEF TypeOK, CountWorker, MarkInitialized
  <1>12. ASSUME NEW a \in Agent, Join(a) \/ Joined(a) \/ JoinLost(a) PROVE AgentTypes'
    <2>1. CASE Join(a)
      <3>1. awaits' \in [Agent -> Thread \cup {None}]
        BY <2>1 DEF TypeOK, Join
      <3>2. pc' = [pc EXCEPT ![a] = "liquidate"] \/ pc' = [pc EXCEPT ![a] = "joining"]
        BY <2>1 DEF Join
      <3>3. UNCHANGED <<at, call, mine, fault>>
        BY <2>1 DEF Join
      <3>4. at[a] \in Worker
        BY <2>1 DEF Join, TypeOK
      <3>5. QED
        BY ZenonT(30), <3>1, <3>2, <3>3, <3>4 DEF TypeOK
    <2>2. CASE Joined(a) \/ JoinLost(a)
      BY <2>2 DEF TypeOK, Joined, JoinLost
    <2>3. QED
      BY <1>12, <2>1, <2>2
  <1>13. ASSUME NEW a \in Agent, LiquidateTimer(a) \/ TestSlots(a) \/ FreeSlots(a)
        PROVE AgentTypes'
    BY ZenonT(30), <1>13 DEF TypeOK, LiquidateTimer, TestSlots, FreeSlots, Tests
  <1>14. ASSUME NEW a \in Agent, TestTags(a) \/ FreeTags(a) \/ FreeBlock(a) \/ Uncount(a)
        PROVE AgentTypes'
    BY ZenonT(30), <1>14 DEF TypeOK, TestTags, FreeTags, FreeBlock, Uncount, Tests
  <1>15. ASSUME NEW a \in Agent, Clear(a) PROVE AgentTypes'
    BY <1>15 DEF TypeOK, Clear
  <1>16. ASSUME NEW c \in Conn, PeerSends(c) \/ PeerCloses(c) PROVE AgentTypes'
    BY <1>16 DEF TypeOK, PeerSends, PeerCloses
  <1>17. QED
    BY <1>u, <1>1, <1>2, <1>3, <1>4, <1>5, <1>6, <1>7, <1>8, <1>9, <1>10, <1>11, <1>12,
         <1>13,
       <1>14, <1>15, <1>16, Steps

LEMMA WorkerTypesStep == TypeOK /\ [Next]_vars => WorkerTypes'
  <1> SUFFICES ASSUME TypeOK, [Next]_vars PROVE WorkerTypes'
    OBVIOUS
  <1> USE Agents DEF TypeOK, WorkerTypes, pools, fields, kernel, program
  <1>u. CASE UNCHANGED vars
    BY <1>u DEF vars
  <1>1. ASSUME NEW w \in Worker, NEW p \in Tag, Prepare(w, p) PROVE WorkerTypes'
    BY <1>1 DEF Prepare, Prepares
  <1>2. ASSUME NEW w \in Worker, NEW made, PrepareFails(w, made) PROVE WorkerTypes'
    BY <1>2 DEF PrepareFails, Prepares
  <1>3. ASSUME NEW w \in Worker, CallExit(w) \/ StaticExitWorker(w) \/ TimerExpires(w)
        PROVE WorkerTypes'
    BY <1>3 DEF CallExit, StaticExitWorker, TimerExpires
  <1>4. CASE StaticInit \/ CallStaticExit \/ StaticExitWild \/ StaticExitEnds
    <2>1. CASE StaticInit
      BY <2>1 DEF StaticInit
    <2>2. CASE CallStaticExit \/ StaticExitWild
      BY <2>2 DEF CallStaticExit, StaticExitWild
    <2>3. CASE StaticExitEnds
      BY <2>3 DEF StaticExitEnds
    <2>4. QED
      BY <1>4, <2>1, <2>2, <2>3
  <1>5. ASSUME NEW t \in Thread, CreateThread(t) \/ FindsUnset(t) \/ FindsUnsetEarly(t)
        PROVE WorkerTypes'
    BY <1>5 DEF CreateThread, FindsUnset, FindsUnsetEarly
  <1>6. ASSUME NEW t \in Thread, EpollWait(t) PROVE WorkerTypes'
    BY <1>6 DEF EpollWait
  <1>7. ASSUME NEW t \in Thread, HandlerReturns(t) \/ HandlerAccepts(t) PROVE WorkerTypes'
    BY <1>7 DEF HandlerReturns, HandlerAccepts, Returns, SlotAdded, SlotRefused
  <1>8. ASSUME NEW t \in Thread, NEW e \in batch[t],
               HandleTimer(t, e) \/ HandleData(t, e) \/ HandleNothing(t, e)
        PROVE WorkerTypes'
    BY <1>8, HandleTypes DEF HandleTimer, HandleData, HandleNothing, Takes
  <1>9. CASE CreateFails \/ TimerCreated \/ TimerFails \/ TimerNotAdded
    BY <1>9 DEF CreateFails, TimerCreated, TimerFails, TimerNotAdded
  <1>10. ASSUME NEW p \in Tag, TimerAdded(p) PROVE WorkerTypes'
    BY <1>10 DEF TimerAdded
  <1>11. CASE CountWorker \/ MarkInitialized
    <2>1. CASE CountWorker
      BY <2>1 DEF CountWorker
    <2>2. CASE MarkInitialized
      BY <2>2 DEF MarkInitialized
    <2>3. QED
      BY <1>11, <2>1, <2>2
  <1>12. ASSUME NEW a \in Agent, Join(a) \/ Joined(a) \/ JoinLost(a) PROVE WorkerTypes'
    BY <1>12 DEF Join, Joined, JoinLost
  <1>13. ASSUME NEW a \in Agent, LiquidateTimer(a) \/ TestSlots(a) \/ FreeSlots(a)
        PROVE WorkerTypes'
    BY <1>13 DEF LiquidateTimer, TestSlots, FreeSlots, Tests
  <1>14. ASSUME NEW a \in Agent, TestTags(a) \/ FreeTags(a) \/ FreeBlock(a) \/ Uncount(a)
        PROVE WorkerTypes'
    <2>1. CASE TestTags(a) \/ FreeTags(a)
      BY <2>1 DEF TestTags, FreeTags, Tests
    <2>2. CASE FreeBlock(a)
      BY <2>2 DEF FreeBlock
    <2>3. CASE Uncount(a)
      BY <2>3 DEF Uncount
    <2>4. QED
      BY <1>14, <2>1, <2>2, <2>3
  <1>15. ASSUME NEW a \in Agent, Clear(a) PROVE WorkerTypes'
    BY <1>15 DEF Clear
  <1>16. ASSUME NEW c \in Conn, PeerSends(c) \/ PeerCloses(c) PROVE WorkerTypes'
    BY <1>16 DEF PeerSends, PeerCloses
  <1>17. QED
    BY <1>u, <1>1, <1>2, <1>3, <1>4, <1>5, <1>6, <1>7, <1>8, <1>9, <1>10, <1>11, <1>12,
         <1>13,
       <1>14, <1>15, <1>16, Steps

LEMMA PoolTypesStep == TypeOK /\ [Next]_vars => PoolTypes'
  <1> SUFFICES ASSUME TypeOK, [Next]_vars PROVE PoolTypes'
    OBVIOUS
  <1> USE Agents DEF TypeOK, PoolTypes, fields, kernel, NoPool
  <1>u. CASE UNCHANGED vars
    BY <1>u DEF vars
  <1>1. ASSUME NEW w \in Worker, NEW p \in Tag, Prepare(w, p) PROVE PoolTypes'
    BY <1>1 DEF Prepare, Prepares
  <1>2. ASSUME NEW w \in Worker, NEW made, PrepareFails(w, made) PROVE PoolTypes'
    BY <1>2 DEF PrepareFails, Prepares
  <1>3. ASSUME NEW w \in Worker, CallExit(w) \/ StaticExitWorker(w) \/ TimerExpires(w)
        PROVE PoolTypes'
    BY <1>3 DEF CallExit, StaticExitWorker, TimerExpires
  <1>4. CASE StaticInit \/ CallStaticExit \/ StaticExitWild \/ StaticExitEnds
    BY <1>4 DEF StaticInit, CallStaticExit, StaticExitWild, StaticExitEnds
  <1>5. ASSUME NEW t \in Thread, CreateThread(t) \/ FindsUnset(t) \/ FindsUnsetEarly(t)
        PROVE PoolTypes'
    BY <1>5 DEF CreateThread, FindsUnset, FindsUnsetEarly
  <1>6. ASSUME NEW t \in Thread, EpollWait(t) PROVE PoolTypes'
    BY <1>6 DEF EpollWait
  <1>7. ASSUME NEW t \in Thread, HandlerReturns(t) \/ HandlerAccepts(t) PROVE PoolTypes'
    BY <1>7, AcceptTypes DEF HandlerReturns, Returns
  <1>8. ASSUME NEW t \in Thread, NEW e \in batch[t],
               HandleTimer(t, e) \/ HandleData(t, e) \/ HandleNothing(t, e)
        PROVE PoolTypes'
    BY <1>8, HandleTypes
  <1>9. CASE CreateFails \/ TimerCreated \/ TimerFails \/ TimerNotAdded
    BY <1>9, EventAddFailsTypes DEF CreateFails, TimerCreated, TimerFails, TimerNotAdded
  <1>10. ASSUME NEW p \in Tag, TimerAdded(p) PROVE PoolTypes'
    BY <1>10, EventAddTypes DEF TimerAdded
  <1>11. CASE CountWorker \/ MarkInitialized
    BY <1>11 DEF CountWorker, MarkInitialized
  <1>12. ASSUME NEW a \in Agent, Join(a) \/ Joined(a) \/ JoinLost(a) PROVE PoolTypes'
    BY <1>12 DEF Join, Joined, JoinLost
  <1>13. ASSUME NEW a \in Agent, LiquidateTimer(a) \/ TestSlots(a) \/ FreeSlots(a)
        PROVE PoolTypes'
    BY <1>13 DEF LiquidateTimer, TestSlots, FreeSlots, Tests
  <1>14. ASSUME NEW a \in Agent, TestTags(a) \/ FreeTags(a) \/ FreeBlock(a) \/ Uncount(a)
        PROVE PoolTypes'
    BY <1>14 DEF TestTags, FreeTags, FreeBlock, Uncount, Tests
  <1>15. ASSUME NEW a \in Agent, Clear(a) PROVE PoolTypes'
    BY <1>15 DEF Clear
  <1>16. ASSUME NEW c \in Conn, PeerSends(c) \/ PeerCloses(c) PROVE PoolTypes'
    BY <1>16 DEF PeerSends, PeerCloses
  <1>17. QED
    BY <1>u, <1>1, <1>2, <1>3, <1>4, <1>5, <1>6, <1>7, <1>8, <1>9, <1>10, <1>11, <1>12,
         <1>13,
       <1>14, <1>15, <1>16, Steps

LEMMA TagTypesStep == TypeOK /\ [Next]_vars => TagTypes'
  <1> SUFFICES ASSUME TypeOK, [Next]_vars PROVE TagTypes'
    OBVIOUS
  <1> USE Agents DEF TypeOK, TagTypes, fields, kernel, NoNames, NoInterest
  <1>u. CASE UNCHANGED vars
    BY <1>u DEF vars
  <1>1. ASSUME NEW w \in Worker, NEW p \in Tag, Prepare(w, p) PROVE TagTypes'
    BY <1>1 DEF Prepare, Prepares
  <1>2. ASSUME NEW w \in Worker, NEW made, PrepareFails(w, made) PROVE TagTypes'
    BY <1>2 DEF PrepareFails, Prepares
  <1>3. ASSUME NEW w \in Worker, CallExit(w) \/ StaticExitWorker(w) \/ TimerExpires(w)
        PROVE TagTypes'
    BY <1>3 DEF CallExit, StaticExitWorker, TimerExpires
  <1>4. CASE StaticInit \/ CallStaticExit \/ StaticExitWild \/ StaticExitEnds
    BY <1>4 DEF StaticInit, CallStaticExit, StaticExitWild, StaticExitEnds
  <1>5. ASSUME NEW t \in Thread, CreateThread(t) \/ FindsUnset(t) \/ FindsUnsetEarly(t)
        PROVE TagTypes'
    BY <1>5 DEF CreateThread, FindsUnset, FindsUnsetEarly
  <1>6. ASSUME NEW t \in Thread, EpollWait(t) PROVE TagTypes'
    <2>1. at[t] \in Worker
      BY <1>6 DEF EpollWait, AgentTypes
    <2>2. {<<fd, interest[at[t]][fd]>> : fd \in Ready(at[t])} \subseteq Fd \X Tag
      BY <2>1 DEF Ready
    <2>3. QED
      BY <1>6, <2>2 DEF EpollWait
  <1>7. ASSUME NEW t \in Thread, HandlerReturns(t) \/ HandlerAccepts(t) PROVE TagTypes'
    BY <1>7, AcceptTypes DEF HandlerReturns, Returns
  <1>8. ASSUME NEW t \in Thread, NEW e \in batch[t],
               HandleTimer(t, e) \/ HandleData(t, e) \/ HandleNothing(t, e)
        PROVE TagTypes'
    BY <1>8, HandleTypes
  <1>9. CASE CreateFails \/ TimerCreated \/ TimerFails \/ TimerNotAdded
    BY <1>9, EventAddFailsTypes DEF CreateFails, TimerCreated, TimerFails, TimerNotAdded
  <1>10. ASSUME NEW p \in Tag, TimerAdded(p) PROVE TagTypes'
    BY <1>10, EventAddTypes DEF TimerAdded
  <1>11. CASE CountWorker \/ MarkInitialized
    BY <1>11 DEF CountWorker, MarkInitialized
  <1>12. ASSUME NEW a \in Agent, Join(a) \/ Joined(a) \/ JoinLost(a) PROVE TagTypes'
    BY <1>12 DEF Join, Joined, JoinLost
  <1>13. ASSUME NEW a \in Agent, LiquidateTimer(a) \/ TestSlots(a) \/ FreeSlots(a)
        PROVE TagTypes'
    <2>1. CASE LiquidateTimer(a)
      <3>1. interest' \in [Worker -> [Fd -> Tag \cup {None}]]
        BY <2>1 DEF LiquidateTimer
      <3>2. QED
        BY <2>1, <3>1 DEF LiquidateTimer
    <2>2. CASE TestSlots(a) \/ FreeSlots(a)
      BY <2>2 DEF TestSlots, FreeSlots, Tests
    <2>3. QED
      BY <1>13, <2>1, <2>2
  <1>14. ASSUME NEW a \in Agent, TestTags(a) \/ FreeTags(a) \/ FreeBlock(a) \/ Uncount(a)
        PROVE TagTypes'
    <2>1. CASE FreeTags(a)
      <3>1. name' \in [Worker -> [Tag -> Fd \cup {None}]]
        BY <2>1 DEF FreeTags
      <3>2. QED
        BY <2>1, <3>1 DEF FreeTags
    <2>2. CASE TestTags(a) \/ FreeBlock(a) \/ Uncount(a)
      BY <2>2 DEF TestTags, FreeBlock, Uncount, Tests
    <2>3. QED
      BY <1>14, <2>1, <2>2
  <1>15. ASSUME NEW a \in Agent, Clear(a) PROVE TagTypes'
    BY <1>15 DEF Clear
  <1>16. ASSUME NEW c \in Conn, PeerSends(c) \/ PeerCloses(c) PROVE TagTypes'
    BY <1>16 DEF PeerSends, PeerCloses
  <1>17. QED
    BY <1>u, <1>1, <1>2, <1>3, <1>4, <1>5, <1>6, <1>7, <1>8, <1>9, <1>10, <1>11, <1>12,
         <1>13,
       <1>14, <1>15, <1>16, Steps

LEMMA TypeStep == TypeOK /\ [Next]_vars => TypeOK'
  BY WorkerTypesStep, PoolTypesStep, TagTypesStep, AgentTypesStep DEF TypeOK

-----------------------------------------------------------------------------
(* Each step keeps the state of workers, threads and the main thread's calls *)
(* in order.                                                                 *)

LEMMA CallExitLife ==
  ASSUME TypeOK, Life, NEW w \in Worker, CallExit(w)
  PROVE  Life'
  <1> USE Agents DEF Loop, Leaving, Building
  <1>1. /\ UNCHANGED <<up, epolls, count, fresh, initialized, core, timerfd, slots,
                       tags, flow, interest, awaits, mine>>
        /\ pc'[Main] = "join"
        /\ \A t \in Thread : pc'[t] = pc[t]
        /\ at'[Main] = w
        /\ \A t \in Thread : at'[t] = at[t]
        /\ pc[Main] = "idle"
        /\ call = "none"
        /\ w \in mine
        /\ call' = "exit"
    BY DEF CallExit, Life, Calls, TypeOK, WorkerTypes, PoolTypes, AgentTypes, Goto,
         pools, fields,
       kernel, program
  <1>2. Marked' = Marked
    BY <1>1 DEF Marked
  <1>3. Calls'
    BY <1>1, <1>2 DEF Life, Calls, Marked
  <1>4. Blocks'
    BY <1>1, <1>2 DEF Life, Blocks, Unused
  <1>5. (\A v \in Marked : Whole(v))'
    BY <1>1, <1>2 DEF Life, Whole, Counted, Marked
  <1>6. Cores'
    BY <1>1, <1>2 DEF Life, Cores, Counted
  <1>7. (\A a \in Agent : Stage(a))'
    <2> SUFFICES ASSUME NEW a \in Agent PROVE Stage(a)'
      OBVIOUS
    <2>1. CASE a = Main
      BY <1>1, <1>2, <2>1 DEF Life, Stage
    <2>2. CASE a \in Thread
      <3>1. ThreadFits(a) /\ Stage(a)
        BY <2>2 DEF Life
      <3>2. QED
        BY <1>1, <1>2, <2>2, <3>1 DEF Stage, ThreadFits
    <2>3. QED
      BY <2>1, <2>2
  <1>8. (\A u \in Thread : ThreadFits(u))'
    <2> SUFFICES ASSUME NEW u \in Thread PROVE ThreadFits(u)'
      OBVIOUS
    <2>1. ThreadFits(u) /\ Flows /\ Waits /\ Calls
      BY DEF Life
    <2>2. QED
      BY <1>1, <1>2, <2>1 DEF ThreadFits
  <1>9. Flows'
    BY <1>1, <1>2 DEF Life, Flows
  <1>10. Waits'
    BY <1>1, <1>2 DEF Life, Waits, Unused
  <1>11. QED
    BY <1>3, <1>4, <1>5, <1>6, <1>7, <1>8, <1>9, <1>10 DEF Life

LEMMA CallStaticExitLife ==
  ASSUME TypeOK, Life, CallStaticExit
  PROVE  Life'
  <1> USE Agents DEF Loop, Leaving, Building
  <1>1. /\ UNCHANGED <<up, epolls, count, fresh, initialized, core, timerfd, slots,
                       tags, flow, interest, at, awaits, mine>>
        /\ pc'[Main] = "static"
        /\ \A t \in Thread : pc'[t] = pc[t]
        /\ pc[Main] = "idle"
        /\ call = "none"
        /\ up
        /\ call' = "static"
    BY DEF CallStaticExit, Life, Calls, TypeOK, WorkerTypes, PoolTypes, AgentTypes,
         Goto, pools, fields,
       kernel, program
  <1>2. Marked' = Marked
    BY <1>1 DEF Marked
  <1>3. Calls'
    BY <1>1, <1>2 DEF Life, Calls, Marked
  <1>4. Blocks'
    BY <1>1, <1>2 DEF Life, Blocks, Unused
  <1>5. (\A v \in Marked : Whole(v))'
    BY <1>1, <1>2 DEF Life, Whole, Counted, Marked
  <1>6. Cores'
    BY <1>1, <1>2 DEF Life, Cores, Counted
  <1>7. (\A a \in Agent : Stage(a))'
    <2> SUFFICES ASSUME NEW a \in Agent PROVE Stage(a)'
      OBVIOUS
    <2>1. CASE a = Main
      BY <1>1, <1>2, <2>1 DEF Life, Stage
    <2>2. CASE a \in Thread
      <3>1. ThreadFits(a) /\ Stage(a)
        BY <2>2 DEF Life
      <3>2. QED
        BY <1>1, <1>2, <2>2, <3>1 DEF Stage, ThreadFits
    <2>3. QED
      BY <2>1, <2>2
  <1>8. (\A u \in Thread : ThreadFits(u))'
    <2> SUFFICES ASSUME NEW u \in Thread PROVE ThreadFits(u)'
      OBVIOUS
    <2>1. ThreadFits(u) /\ Flows /\ Waits /\ Calls
      BY DEF Life
    <2>2. QED
      BY <1>1, <1>2, <2>1 DEF ThreadFits
  <1>9. Flows'
    BY <1>1, <1>2 DEF Life, Flows
  <1>10. Waits'
    BY <1>1, <1>2 DEF Life, Waits, Unused
  <1>11. QED
    BY <1>3, <1>4, <1>5, <1>6, <1>7, <1>8, <1>9, <1>10 DEF Life

LEMMA StaticExitWorkerLife ==
  ASSUME TypeOK, Life, NEW w \in Worker, StaticExitWorker(w)
  PROVE  Life'
  <1> USE Agents DEF Loop, Leaving, Building
  <1>1. /\ UNCHANGED <<up, epolls, count, fresh, initialized, core, timerfd, slots,
                       tags, flow, interest, awaits, call, mine>>
        /\ pc'[Main] = "join"
        /\ \A t \in Thread : pc'[t] = pc[t]
        /\ at'[Main] = w
        /\ \A t \in Thread : at'[t] = at[t]
        /\ pc[Main] = "static"
        /\ call = "static"
        /\ w \in Marked
    BY DEF StaticExitWorker, IsFirst, Life, Calls, TypeOK, WorkerTypes, PoolTypes,
         AgentTypes, Goto, pools, fields,
       kernel, program
  <1>2. Marked' = Marked
    BY <1>1 DEF Marked
  <1>3. Calls'
    BY <1>1, <1>2 DEF Life, Calls, Marked
  <1>4. Blocks'
    BY <1>1, <1>2 DEF Life, Blocks, Unused
  <1>5. (\A v \in Marked : Whole(v))'
    BY <1>1, <1>2 DEF Life, Whole, Counted, Marked
  <1>6. Cores'
    BY <1>1, <1>2 DEF Life, Cores, Counted
  <1>7. (\A a \in Agent : Stage(a))'
    <2> SUFFICES ASSUME NEW a \in Agent PROVE Stage(a)'
      OBVIOUS
    <2>1. CASE a = Main
      BY <1>1, <1>2, <2>1 DEF Life, Stage
    <2>2. CASE a \in Thread
      <3>1. ThreadFits(a) /\ Stage(a)
        BY <2>2 DEF Life
      <3>2. QED
        BY <1>1, <1>2, <2>2, <3>1 DEF Stage, ThreadFits
    <2>3. QED
      BY <2>1, <2>2
  <1>8. (\A u \in Thread : ThreadFits(u))'
    <2> SUFFICES ASSUME NEW u \in Thread PROVE ThreadFits(u)'
      OBVIOUS
    <2>1. ThreadFits(u) /\ Flows /\ Waits /\ Calls
      BY DEF Life
    <2>2. QED
      BY <1>1, <1>2, <2>1 DEF ThreadFits
  <1>9. Flows'
    BY <1>1, <1>2 DEF Life, Flows
  <1>10. Waits'
    BY <1>1, <1>2 DEF Life, Waits, Unused
  <1>11. QED
    BY <1>3, <1>4, <1>5, <1>6, <1>7, <1>8, <1>9, <1>10 DEF Life

LEMMA StaticInitLife ==
  ASSUME TypeOK, Life, StaticInit
  PROVE  Life'
  <1> USE Agents DEF Loop, Leaving, Building
  <1>1. /\ UNCHANGED <<initialized, core, timerfd, slots, tags, flow, interest, at,
                       awaits, call, mine>>
        /\ UNCHANGED pc
        /\ pc[Main] = "idle"
        /\ call = "none"
        /\ up'
        /\ Marked = {}
        /\ fresh' = Worker
        /\ count' = 0
    BY DEF StaticInit, Marked, Life, Calls, TypeOK, WorkerTypes, PoolTypes, AgentTypes,
         Goto, pools, fields,
       kernel, program
  <1>2. Marked' = {}
    BY <1>1 DEF Marked
  <1>3. Calls'
    BY <1>1, <1>2 DEF Life, Calls, Marked
  <1>4. Blocks'
    BY <1>1, <1>2 DEF Life, Blocks, Unused
  <1>5. (\A v \in Marked : Whole(v))'
    BY <1>1, <1>2 DEF Life, Whole, Counted, Marked
  <1>6. Cores'
    BY <1>1, <1>2, FS_EmptySet, EpollAssumption DEF Life, Calls, Cores, Counted
  <1>7. (\A a \in Agent : Stage(a))'
    <2> SUFFICES ASSUME NEW a \in Agent PROVE Stage(a)'
      OBVIOUS
    <2>1. CASE a = Main
      BY <1>1, <1>2, <2>1 DEF Life, Stage
    <2>2. CASE a \in Thread
      <3>1. ThreadFits(a) /\ Stage(a)
        BY <2>2 DEF Life
      <3>2. QED
        BY <1>1, <1>2, <2>2, <3>1 DEF Stage, ThreadFits
    <2>3. QED
      BY <2>1, <2>2
  <1>8. (\A u \in Thread : ThreadFits(u))'
    <2> SUFFICES ASSUME NEW u \in Thread PROVE ThreadFits(u)'
      OBVIOUS
    <2>1. ThreadFits(u) /\ Flows /\ Waits /\ Calls
      BY DEF Life
    <2>2. QED
      BY <1>1, <1>2, <2>1 DEF ThreadFits, Marked
  <1>9. Flows'
    BY <1>1, <1>2 DEF Life, Flows
  <1>10. Waits'
    BY <1>1, <1>2 DEF Life, Waits, Unused
  <1>11. QED
    BY <1>3, <1>4, <1>5, <1>6, <1>7, <1>8, <1>9, <1>10 DEF Life

LEMMA StaticExitEndsLife ==
  ASSUME TypeOK, Life, StaticExitEnds
  PROVE  Life'
  <1> USE Agents DEF Loop, Leaving, Building
  <1>1. /\ UNCHANGED <<epolls, count, fresh, initialized, core, timerfd, slots, tags,
                       flow, interest, at, awaits>>
        /\ pc'[Main] = "idle"
        /\ \A t \in Thread : pc'[t] = pc[t]
        /\ pc[Main] = "static"
        /\ call = "static"
        /\ Marked = {}
        /\ ~up'
        /\ call' = "none"
        /\ mine' = {}
    BY DEF StaticExitEnds, Life, Calls, TypeOK, WorkerTypes, PoolTypes, AgentTypes,
         Goto, pools, fields,
       kernel, program
  <1>2. Marked' = Marked
    BY <1>1 DEF Marked
  <1>3. Calls'
    BY <1>1, <1>2 DEF Life, Calls, Marked
  <1>4. Blocks'
    BY <1>1, <1>2 DEF Life, Blocks, Unused
  <1>5. (\A v \in Marked : Whole(v))'
    BY <1>1, <1>2 DEF Life, Whole, Counted, Marked
  <1>6. Cores'
    BY <1>1, <1>2 DEF Life, Cores, Counted
  <1>7. (\A a \in Agent : Stage(a))'
    <2> SUFFICES ASSUME NEW a \in Agent PROVE Stage(a)'
      OBVIOUS
    <2>1. CASE a = Main
      BY <1>1, <1>2, <2>1 DEF Life, Stage
    <2>2. CASE a \in Thread
      <3>1. ThreadFits(a) /\ Stage(a)
        BY <2>2 DEF Life
      <3>2. QED
        BY <1>1, <1>2, <2>2, <3>1 DEF Stage, ThreadFits
    <2>3. QED
      BY <2>1, <2>2
  <1>8. (\A u \in Thread : ThreadFits(u))'
    <2> SUFFICES ASSUME NEW u \in Thread PROVE ThreadFits(u)'
      OBVIOUS
    <2>1. ThreadFits(u) /\ Flows /\ Waits /\ Calls
      BY DEF Life
    <2>2. QED
      BY <1>1, <1>2, <2>1 DEF ThreadFits
  <1>9. Flows'
    BY <1>1, <1>2 DEF Life, Flows
  <1>10. Waits'
    BY <1>1, <1>2 DEF Life, Waits, Unused
  <1>11. QED
    BY <1>3, <1>4, <1>5, <1>6, <1>7, <1>8, <1>9, <1>10 DEF Life

LEMMA CreateThreadLife ==
  ASSUME TypeOK, Life, NEW t \in Thread, CreateThread(t)
  PROVE  Life'
  <1> USE Agents DEF Loop, Leaving, Building
  <1>1. /\ UNCHANGED <<up, epolls, count, fresh, initialized, core, timerfd, slots,
                       tags, interest, awaits, call, mine>>
        /\ pc'[Main] = "timer"
        /\ pc'[t] = "test"
        /\ \A u \in Thread \ {t} : pc'[u] = pc[u] /\ at'[u] = at[u]
        /\ at'[t] = at[Main] /\ at'[Main] = at[Main]
        /\ pc[Main] = "create"
        /\ call = "init"
        /\ pc[t] = "unborn"
        /\ at[Main] \in Worker \ fresh
        /\ flow'[at[Main]] = t
        /\ \A w \in Worker \ {at[Main]} : flow'[w] = flow[w]
        /\ ~initialized[at[Main]]
    BY DEF CreateThread, Life, Calls, TypeOK, WorkerTypes, PoolTypes, AgentTypes, Goto,
         pools, fields,
       kernel, program
  <1>2. Marked' = Marked
    BY <1>1 DEF Marked
  <1>3. Calls'
    BY <1>1, <1>2 DEF Life, Calls, Marked
  <1>4. Blocks'
    BY <1>1, <1>2 DEF Life, Blocks, Unused
  <1>5. (\A v \in Marked : Whole(v))'
    BY <1>1, <1>2 DEF Life, Whole, Counted, Marked
  <1>6. Cores'
    BY <1>1, <1>2 DEF Life, Cores, Counted
  <1>7. (\A a \in Agent : Stage(a))'
    <2> SUFFICES ASSUME NEW a \in Agent PROVE Stage(a)'
      OBVIOUS
    <2>1. CASE a = Main
      BY <1>1, <1>2, <2>1 DEF Life, Stage
    <2>2. CASE a \in Thread
      <3>1. ThreadFits(a) /\ Stage(a)
        BY <2>2 DEF Life
      <3>2. QED
        BY <1>1, <1>2, <2>2, <3>1 DEF Stage, ThreadFits
    <2>3. QED
      BY <2>1, <2>2
  <1>8. (\A u \in Thread : ThreadFits(u))'
    <2>1. ThreadFits(t)'
      BY <1>1 DEF Life, Flows, ThreadFits
    <2>2. ASSUME NEW u \in Thread \ {t} PROVE ThreadFits(u)'
      <3>1. ThreadFits(u) /\ Flows
        BY DEF Life
      <3>3. pc[u] \in Loop => at[u] \in Worker /\ at[u] # at[Main]
        BY <1>1, <3>1 DEF ThreadFits
      <3>4. QED
        BY <1>1, <2>2, <3>1, <3>3 DEF ThreadFits
    <2>3. QED
      BY <2>1, <2>2
  <1>9. Flows'
    BY <1>1, <1>2 DEF Life, Flows
  <1>10. Waits'
    BY <1>1, <1>2 DEF Life, Waits, Unused
  <1>11. QED
    BY <1>3, <1>4, <1>5, <1>6, <1>7, <1>8, <1>9, <1>10 DEF Life

LEMMA CreateFailsLife ==
  ASSUME TypeOK, Life, CreateFails
  PROVE  Life'
  <1> USE Agents DEF Loop, Leaving, Building
  <1>1. /\ UNCHANGED <<up, epolls, count, fresh, initialized, core, timerfd, slots,
                       tags, interest, at, awaits, call, mine>>
        /\ pc'[Main] = "timer"
        /\ \A t \in Thread : pc'[t] = pc[t]
        /\ pc[Main] = "create"
        /\ call = "init"
        /\ at[Main] \in Worker \ fresh
        /\ ~initialized[at[Main]]
        /\ flow'[at[Main]] = Lost
        /\ \A w \in Worker \ {at[Main]} : flow'[w] = flow[w]
    BY DEF CreateFails, Life, Calls, TypeOK, WorkerTypes, PoolTypes, AgentTypes, Goto,
         pools, fields,
       kernel, program
  <1>2. Marked' = Marked
    BY <1>1 DEF Marked
  <1>3. Calls'
    BY <1>1, <1>2 DEF Life, Calls, Marked
  <1>4. Blocks'
    BY <1>1, <1>2 DEF Life, Blocks, Unused
  <1>5. (\A v \in Marked : Whole(v))'
    BY <1>1, <1>2 DEF Life, Whole, Counted, Marked
  <1>6. Cores'
    BY <1>1, <1>2 DEF Life, Cores, Counted
  <1>7. (\A a \in Agent : Stage(a))'
    <2> SUFFICES ASSUME NEW a \in Agent PROVE Stage(a)'
      OBVIOUS
    <2>1. CASE a = Main
      BY <1>1, <1>2, <2>1 DEF Life, Stage
    <2>2. CASE a \in Thread
      <3>1. ThreadFits(a) /\ Stage(a)
        BY <2>2 DEF Life
      <3>2. QED
        BY <1>1, <1>2, <2>2, <3>1 DEF Stage, ThreadFits
    <2>3. QED
      BY <2>1, <2>2
  <1>8. (\A u \in Thread : ThreadFits(u))'
    <2> SUFFICES ASSUME NEW u \in Thread PROVE ThreadFits(u)'
      OBVIOUS
    <2>1. ThreadFits(u) /\ Flows /\ Waits /\ Calls
      BY DEF Life
    <2>2. QED
      BY <1>1, <1>2, <2>1 DEF ThreadFits, Flows
  <1>9. Flows'
    BY <1>1, <1>2 DEF Life, Flows
  <1>10. Waits'
    BY <1>1, <1>2 DEF Life, Waits, Unused
  <1>11. QED
    BY <1>3, <1>4, <1>5, <1>6, <1>7, <1>8, <1>9, <1>10 DEF Life

LEMMA TimerCreatedLife ==
  ASSUME TypeOK, Life, TimerCreated
  PROVE  Life'
  <1> USE Agents DEF Loop, Leaving, Building
  <1>1. /\ UNCHANGED <<up, epolls, count, fresh, initialized, core, slots, tags, flow,
                       interest, at, awaits, call, mine>>
        /\ pc'[Main] = "add timer"
        /\ \A t \in Thread : pc'[t] = pc[t]
        /\ pc[Main] = "timer"
        /\ call = "init"
        /\ at[Main] \in Worker \ fresh
        /\ ~initialized[at[Main]]
        /\ \A w \in Worker \ {at[Main]} : timerfd'[w] = timerfd[w]
    BY DEF TimerCreated, Life, Calls, TypeOK, WorkerTypes, PoolTypes, AgentTypes, Goto,
         pools, fields,
       kernel, program
  <1>2. Marked' = Marked
    BY <1>1 DEF Marked
  <1>3. Calls'
    BY <1>1, <1>2 DEF Life, Calls, Marked
  <1>4. Blocks'
    BY <1>1, <1>2 DEF Life, Blocks, Unused
  <1>5. (\A v \in Marked : Whole(v))'
    BY ZenonT(30), <1>1, <1>2 DEF Life, Whole, Counted, Marked
  <1>6. Cores'
    BY <1>1, <1>2 DEF Life, Cores, Counted
  <1>7. (\A a \in Agent : Stage(a))'
    <2> SUFFICES ASSUME NEW a \in Agent PROVE Stage(a)'
      OBVIOUS
    <2>1. CASE a = Main
      BY <1>1, <1>2, <2>1 DEF Life, Stage
    <2>2. CASE a \in Thread
      <3>1. ThreadFits(a) /\ Stage(a)
        BY <2>2 DEF Life
      <3>2. QED
        BY <1>1, <1>2, <2>2, <3>1 DEF Stage, ThreadFits
    <2>3. QED
      BY <2>1, <2>2
  <1>8. (\A u \in Thread : ThreadFits(u))'
    <2> SUFFICES ASSUME NEW u \in Thread PROVE ThreadFits(u)'
      OBVIOUS
    <2>1. ThreadFits(u) /\ Flows /\ Waits /\ Calls
      BY DEF Life
    <2>2. QED
      BY <1>1, <1>2, <2>1 DEF ThreadFits
  <1>9. Flows'
    BY <1>1, <1>2 DEF Life, Flows
  <1>10. Waits'
    BY <1>1, <1>2 DEF Life, Waits, Unused
  <1>11. QED
    BY <1>3, <1>4, <1>5, <1>6, <1>7, <1>8, <1>9, <1>10 DEF Life

LEMMA TimerFailsLife ==
  ASSUME TypeOK, Life, TimerFails
  PROVE  Life'
  <1> USE Agents DEF Loop, Leaving, Building
  <1>1. /\ UNCHANGED <<up, epolls, count, fresh, initialized, core, slots, tags, flow,
                       interest, at, awaits, call, mine>>
        /\ pc'[Main] = "join"
        /\ \A t \in Thread : pc'[t] = pc[t]
        /\ pc[Main] = "timer"
        /\ call = "init"
        /\ at[Main] \in Worker \ fresh
        /\ ~initialized[at[Main]]
        /\ \A w \in Worker \ {at[Main]} : timerfd'[w] = timerfd[w]
    BY DEF TimerFails, Life, Calls, TypeOK, WorkerTypes, PoolTypes, AgentTypes, Goto,
         pools, fields,
       kernel, program
  <1>2. Marked' = Marked
    BY <1>1 DEF Marked
  <1>3. Calls'
    BY <1>1, <1>2 DEF Life, Calls, Marked
  <1>4. Blocks'
    BY <1>1, <1>2 DEF Life, Blocks, Unused
  <1>5. (\A v \in Marked : Whole(v))'
    BY <1>1, <1>2 DEF Life, Whole, Counted, Marked
  <1>6. Cores'
    BY <1>1, <1>2 DEF Life, Cores, Counted
  <1>7. (\A a \in Agent : Stage(a))'
    <2> SUFFICES ASSUME NEW a \in Agent PROVE Stage(a)'
      OBVIOUS
    <2>1. CASE a = Main
      BY <1>1, <1>2, <2>1 DEF Life, Stage
    <2>2. CASE a \in Thread
      <3>1. ThreadFits(a) /\ Stage(a)
        BY <2>2 DEF Life
      <3>2. QED
        BY <1>1, <1>2, <2>2, <3>1 DEF Stage, ThreadFits
    <2>3. QED
      BY <2>1, <2>2
  <1>8. (\A u \in Thread : ThreadFits(u))'
    <2> SUFFICES ASSUME NEW u \in Thread PROVE ThreadFits(u)'
      OBVIOUS
    <2>1. ThreadFits(u) /\ Flows /\ Waits /\ Calls
      BY DEF Life
    <2>2. QED
      BY <1>1, <1>2, <2>1 DEF ThreadFits
  <1>9. Flows'
    BY <1>1, <1>2 DEF Life, Flows
  <1>10. Waits'
    BY <1>1, <1>2 DEF Life, Waits, Unused
  <1>11. QED
    BY <1>3, <1>4, <1>5, <1>6, <1>7, <1>8, <1>9, <1>10 DEF Life

LEMMA TimerAddedLife ==
  ASSUME TypeOK, Life, NEW p \in Tag, TimerAdded(p)
  PROVE  Life'
  <1> USE Agents DEF Loop, Leaving, Building
  <1>0. EventAdd(at[Main], p, "timerfd") /\ at[Main] \in Worker
    BY DEF TimerAdded, Life, Calls
  <1>i. interest'[at[Main]]["timerfd"] # None
    BY <1>0, EventAdded, Agents
  <1>j. \A w \in Worker : interest[w]["timerfd"] # None => interest'[w]["timerfd"] # None
    BY <1>0, <1>i, EventAdded, Agents
  <1>k. \A w \in Worker : tags'[w] = NoPool <=> tags[w] = NoPool
    BY <1>0, EventAdded, Agents
  <1>1. /\ UNCHANGED <<up, epolls, count, fresh, initialized, core, timerfd, slots,
                       flow, at, awaits, call, mine>>
        /\ pc'[Main] = "count"
        /\ \A t \in Thread : pc'[t] = pc[t]
        /\ pc[Main] = "add timer"
        /\ call = "init"
        /\ at[Main] \in Worker \ fresh
        /\ ~initialized[at[Main]]
        /\ \A w \in Worker : interest[w]["timerfd"] # None => interest'[w]["timerfd"] # None
        /\ \A w \in Worker : tags'[w] = NoPool <=> tags[w] = NoPool
        /\ interest'[at[Main]]["timerfd"] # None
    BY <1>i, <1>j, <1>k DEF TimerAdded, Life, Calls, TypeOK, WorkerTypes, PoolTypes,
         AgentTypes, Goto, pools, fields,
       kernel, program
  <1>2. Marked' = Marked
    BY <1>1 DEF Marked
  <1>3. Calls'
    BY <1>1, <1>2 DEF Life, Calls, Marked
  <1>4. Blocks'
    BY <1>1, <1>2 DEF Life, Blocks, Unused
  <1>5. (\A v \in Marked : Whole(v))'
    BY ZenonT(30), <1>1, <1>2 DEF Life, Whole, Counted, Marked
  <1>6. Cores'
    BY <1>1, <1>2 DEF Life, Cores, Counted
  <1>7. (\A a \in Agent : Stage(a))'
    <2> SUFFICES ASSUME NEW a \in Agent PROVE Stage(a)'
      OBVIOUS
    <2>1. CASE a = Main
      BY <1>1, <1>2, <2>1 DEF Life, Stage
    <2>2. CASE a \in Thread
      <3>1. ThreadFits(a) /\ Stage(a)
        BY <2>2 DEF Life
      <3>2. QED
        BY <1>1, <1>2, <2>2, <3>1 DEF Stage, ThreadFits
    <2>3. QED
      BY <2>1, <2>2
  <1>8. (\A u \in Thread : ThreadFits(u))'
    <2> SUFFICES ASSUME NEW u \in Thread PROVE ThreadFits(u)'
      OBVIOUS
    <2>1. ThreadFits(u) /\ Flows /\ Waits /\ Calls
      BY DEF Life
    <2>2. QED
      BY <1>1, <1>2, <2>1 DEF ThreadFits
  <1>9. Flows'
    BY <1>1, <1>2 DEF Life, Flows
  <1>10. Waits'
    BY <1>1, <1>2 DEF Life, Waits, Unused
  <1>11. QED
    BY <1>3, <1>4, <1>5, <1>6, <1>7, <1>8, <1>9, <1>10 DEF Life

LEMMA TimerNotAddedLife ==
  ASSUME TypeOK, Life, TimerNotAdded
  PROVE  Life'
  <1> USE Agents DEF Loop, Leaving, Building
  <1>1. /\ UNCHANGED <<up, epolls, count, fresh, initialized, core, timerfd, slots,
                       flow, interest, at, awaits, call, mine>>
        /\ pc'[Main] = "join"
        /\ \A t \in Thread : pc'[t] = pc[t]
        /\ pc[Main] = "add timer"
        /\ call = "init"
        /\ at[Main] \in Worker \ fresh
        /\ ~initialized[at[Main]]
        /\ \A w \in Worker : tags'[w] = NoPool <=> tags[w] = NoPool
    BY EventNotAdded, EventAddFailsTypes DEF TimerNotAdded, Life, Calls, TypeOK,
         WorkerTypes, PoolTypes, AgentTypes, Goto, pools, fields,
       kernel, program
  <1>2. Marked' = Marked
    BY <1>1 DEF Marked
  <1>3. Calls'
    BY <1>1, <1>2 DEF Life, Calls, Marked
  <1>4. Blocks'
    BY <1>1, <1>2 DEF Life, Blocks, Unused
  <1>5. (\A v \in Marked : Whole(v))'
    BY ZenonT(30), <1>1, <1>2 DEF Life, Whole, Counted, Marked
  <1>6. Cores'
    BY <1>1, <1>2 DEF Life, Cores, Counted
  <1>7. (\A a \in Agent : Stage(a))'
    <2> SUFFICES ASSUME NEW a \in Agent PROVE Stage(a)'
      OBVIOUS
    <2>1. CASE a = Main
      BY <1>1, <1>2, <2>1 DEF Life, Stage
    <2>2. CASE a \in Thread
      <3>1. ThreadFits(a) /\ Stage(a)
        BY <2>2 DEF Life
      <3>2. QED
        BY <1>1, <1>2, <2>2, <3>1 DEF Stage, ThreadFits
    <2>3. QED
      BY <2>1, <2>2
  <1>8. (\A u \in Thread : ThreadFits(u))'
    <2> SUFFICES ASSUME NEW u \in Thread PROVE ThreadFits(u)'
      OBVIOUS
    <2>1. ThreadFits(u) /\ Flows /\ Waits /\ Calls
      BY DEF Life
    <2>2. QED
      BY <1>1, <1>2, <2>1 DEF ThreadFits
  <1>9. Flows'
    BY <1>1, <1>2 DEF Life, Flows
  <1>10. Waits'
    BY <1>1, <1>2 DEF Life, Waits, Unused
  <1>11. QED
    BY <1>3, <1>4, <1>5, <1>6, <1>7, <1>8, <1>9, <1>10 DEF Life

LEMMA CountWorkerLife ==
  ASSUME TypeOK, Life, CountWorker
  PROVE  Life'
  <1> USE Agents DEF Loop, Leaving, Building
  <1>1. /\ UNCHANGED <<up, epolls, fresh, initialized, core, timerfd, slots, tags,
                       flow, interest, at, awaits, call, mine>>
        /\ pc'[Main] = "mark"
        /\ \A t \in Thread : pc'[t] = pc[t]
        /\ count' = count + 1
        /\ count \in Int
        /\ pc[Main] = "count"
        /\ call = "init"
        /\ at[Main] \in Worker \ fresh
        /\ ~initialized[at[Main]]
    BY DEF CountWorker, Life, Calls, TypeOK, WorkerTypes, PoolTypes, AgentTypes, Goto,
         pools, fields,
       kernel, program
  <1>2. Marked' = Marked
    BY <1>1 DEF Marked
  <1>3. Calls'
    BY <1>1, <1>2 DEF Life, Calls, Marked
  <1>4. Blocks'
    BY <1>1, <1>2 DEF Life, Blocks, Unused
  <1>5. (\A v \in Marked : Whole(v))'
    BY <1>1, <1>2 DEF Life, Whole, Counted, Marked
  <1>6. Cores'
    BY <1>1, <1>2, EpollAssumption DEF Life, Cores, Counted
  <1>7. (\A a \in Agent : Stage(a))'
    <2> SUFFICES ASSUME NEW a \in Agent PROVE Stage(a)'
      OBVIOUS
    <2>1. CASE a = Main
      BY <1>1, <1>2, <2>1 DEF Life, Stage
    <2>2. CASE a \in Thread
      <3>1. ThreadFits(a) /\ Stage(a)
        BY <2>2 DEF Life
      <3>2. QED
        BY <1>1, <1>2, <2>2, <3>1 DEF Stage, ThreadFits
    <2>3. QED
      BY <2>1, <2>2
  <1>8. (\A u \in Thread : ThreadFits(u))'
    <2> SUFFICES ASSUME NEW u \in Thread PROVE ThreadFits(u)'
      OBVIOUS
    <2>1. ThreadFits(u) /\ Flows /\ Waits /\ Calls
      BY DEF Life
    <2>2. QED
      BY <1>1, <1>2, <2>1 DEF ThreadFits
  <1>9. Flows'
    BY <1>1, <1>2 DEF Life, Flows
  <1>10. Waits'
    BY <1>1, <1>2 DEF Life, Waits, Unused
  <1>11. QED
    BY <1>3, <1>4, <1>5, <1>6, <1>7, <1>8, <1>9, <1>10 DEF Life

LEMMA MarkInitializedLife ==
  ASSUME TypeOK, Life, MarkInitialized
  PROVE  Life'
  <1> USE Agents DEF Loop, Leaving, Building
  <1>1. /\ UNCHANGED <<up, epolls, count, fresh, core, timerfd, slots, tags, flow,
                       interest, at, awaits>>
        /\ pc'[Main] = "idle"
        /\ \A t \in Thread : pc'[t] = pc[t]
        /\ pc[Main] = "mark"
        /\ mine' = mine \cup {at[Main]}
        /\ call' = "none"
        /\ initialized'[at[Main]]
        /\ \A w \in Worker \ {at[Main]} : initialized'[w] = initialized[w]
        /\ call = "init"
        /\ at[Main] \in Worker \ fresh
        /\ ~initialized[at[Main]]
    BY DEF MarkInitialized, Life, Calls, TypeOK, WorkerTypes, PoolTypes, AgentTypes,
         Goto, pools, fields,
       kernel, program
  <1>2. Marked' = Marked \cup {at[Main]} /\ at[Main] \notin Marked
    BY <1>1 DEF Marked
  <1>3. Calls'
    BY <1>1, <1>2 DEF Life, Calls, Marked
  <1>4. Blocks'
    BY <1>1, <1>2 DEF Life, Blocks, Unused
  <1>5. (\A v \in Marked : Whole(v))'
    <2>1. \A w \in Marked : Whole(w)'
      BY <1>1 DEF Life, Whole, Counted, Marked, TypeOK, WorkerTypes
    <2>2. ASSUME NEW w, w = at[Main] PROVE Whole(w)'
      <3>1. Cores /\ Flows /\ core[w] = Counted /\ core[w] \in Int /\ count \in Int
        BY <1>1, <2>2 DEF Life, Cores, TypeOK, WorkerTypes
      <3>2. core[w] < Counted'
        BY <1>1, <3>1 DEF Counted
      <3>3. flow[w] \in Thread \cup {None, Lost} /\ flow[w] # None
        BY <1>1, <2>2, <3>1 DEF Flows
      <3>4. QED
        BY <1>1, <2>2, <3>1, <3>2, <3>3 DEF Flows, Whole
    <2>3. QED
      BY <1>2, <2>1, <2>2
  <1>6. Cores'
    <2>1. IsFiniteSet(Marked) /\ IsFiniteSet(Worker)
      BY EpollAssumption, FS_Subset DEF Marked
    <2>2. Cardinality(Marked') = Cardinality(Marked) + 1
      BY <1>2, <2>1, FS_AddElement
    <2>3. Counted = count - 1 /\ Counted' = count /\ count \in Int
      BY <1>1 DEF Counted, TypeOK, WorkerTypes
    <2>4. Counted' = Cardinality(Marked') /\ Counted' <= Capable
      BY <1>1, <2>2, <2>3, EpollAssumption DEF Life, Cores
    <2>5. \A v \in Marked : core[v] # core[at[Main]]
      BY <1>1 DEF Life, Cores, Whole, Marked, TypeOK, WorkerTypes
    <2>6. QED
      BY <1>1, <1>2, <2>4, <2>5 DEF Life, Cores
  <1>7. (\A a \in Agent : Stage(a))'
    <2> SUFFICES ASSUME NEW a \in Agent PROVE Stage(a)'
      OBVIOUS
    <2>1. CASE a = Main
      BY <1>1, <1>2, <2>1 DEF Life, Stage
    <2>2. CASE a \in Thread
      <3>1. ThreadFits(a) /\ Stage(a)
        BY <2>2 DEF Life
      <3>2. QED
        BY <1>1, <1>2, <2>2, <3>1 DEF Stage, ThreadFits
    <2>3. QED
      BY <2>1, <2>2
  <1>8. (\A u \in Thread : ThreadFits(u))'
    <2> SUFFICES ASSUME NEW u \in Thread PROVE ThreadFits(u)'
      OBVIOUS
    <2>1. ThreadFits(u) /\ Flows /\ Waits /\ Calls
      BY DEF Life
    <2>2. QED
      BY <1>1, <1>2, <2>1 DEF ThreadFits
  <1>9. Flows'
    BY <1>1, <1>2 DEF Life, Flows
  <1>10. Waits'
    BY <1>1, <1>2 DEF Life, Waits, Unused
  <1>11. QED
    BY <1>3, <1>4, <1>5, <1>6, <1>7, <1>8, <1>9, <1>10 DEF Life

LEMMA PrepareLife ==
  ASSUME TypeOK, Life, NEW w \in Worker, NEW p \in Tag, Prepare(w, p)
  PROVE  Life'
  <1> USE Agents DEF Loop, Leaving, Building
  <1>p. w \in Worker /\ w \notin epolls /\ up /\ pc[Main] = "idle" /\ call = "none"
    BY DEF Prepare, Prepares, IsFirst, Life, Calls
  <1>q. w \notin Marked /\ (w \notin fresh => Unused(w))
    BY <1>p DEF Life, Whole, Blocks, Marked
  <1>r. \A u \in Thread : pc[u] \in Loop => at[u] # w
    <2> SUFFICES ASSUME NEW u \in Thread, pc[u] \in Loop PROVE at[u] # w
      OBVIOUS
    <2>1. ThreadFits(u)
      BY DEF Life
    <2>2. at[u] \in Marked
      BY <1>p, <2>1 DEF ThreadFits, Marked
    <2>3. QED
      BY <1>q, <2>2
  <1>s. count < Capable /\ count \in Int
    BY EpollAssumption DEF Prepare, Prepares, TypeOK, WorkerTypes
  <1>t. /\ \A v \in Worker \ {w} : slots'[v] = slots[v] /\ tags'[v] = tags[v]
        /\ \A v \in Worker \ {w} : interest'[v] = interest[v]
        /\ slots'[w] # NoPool /\ tags'[w] # NoPool
        /\ interest'[w]["timerfd"] = None
    BY <1>p DEF Prepare, NoInterest, NoPool, TypeOK, PoolTypes, TagTypes
  <1>1. /\ UNCHANGED <<up, count, timerfd, flow, awaits, mine>>
        /\ pc'[Main] = "create"
        /\ \A t \in Thread : pc'[t] = pc[t]
        /\ at'[Main] = w
        /\ \A t \in Thread : at'[t] = at[t]
        /\ call' = "init"
        /\ ~initialized'[w]
        /\ \A v \in Worker \ {w} : initialized'[v] = initialized[v] /\ core'[v] = core[v]
        /\ core'[w] = count
        /\ epolls' = epolls \cup {w}
        /\ w \in Worker /\ w \notin epolls /\ up /\ pc[Main] = "idle" /\ call = "none"
        /\ w \notin Marked /\ (w \notin fresh => Unused(w))
        /\ \A u \in Thread : pc[u] \in Loop => at[u] # w
        /\ count < Capable /\ count \in Int
        /\ fresh' = fresh \ {w}
        /\ \A v \in Worker \ {w} : slots'[v] = slots[v] /\ tags'[v] = tags[v]
        /\ \A v \in Worker \ {w} : interest'[v] = interest[v]
        /\ slots'[w] # NoPool /\ tags'[w] # NoPool
        /\ interest'[w]["timerfd"] = None
    BY <1>p, <1>q, <1>r, <1>s, <1>t DEF Prepare, Prepares, Life, Calls, TypeOK,
         WorkerTypes, PoolTypes, AgentTypes, Goto, pools, fields,
       kernel, program
  <1>2. Marked' = Marked
    BY <1>1 DEF Marked
  <1>3. Calls'
    BY <1>1, <1>2 DEF Life, Calls, Marked
  <1>4. Blocks'
    BY <1>1, <1>2 DEF Life, Blocks, Unused
  <1>5. (\A v \in Marked : Whole(v))'
    BY <1>1, <1>2 DEF Life, Whole, Counted, Marked
  <1>6. Cores'
    <2>1. Counted = count /\ Counted' = count
      BY <1>1 DEF Counted
    <2>2. \A v \in Marked : core'[v] = core[v]
      BY <1>1 DEF Marked
    <2>3. QED
      BY <1>1, <1>2, <2>1, <2>2 DEF Life, Cores
  <1>7. (\A a \in Agent : Stage(a))'
    <2> SUFFICES ASSUME NEW a \in Agent PROVE Stage(a)'
      OBVIOUS
    <2>1. CASE a = Main
      BY <1>1, <1>2, <2>1 DEF Life, Stage
    <2>2. CASE a \in Thread
      <3>1. ThreadFits(a) /\ Stage(a)
        BY <2>2 DEF Life
      <3>2. QED
        BY <1>1, <1>2, <2>2, <3>1 DEF Stage, ThreadFits
    <2>3. QED
      BY <2>1, <2>2
  <1>8. (\A u \in Thread : ThreadFits(u))'
    <2> SUFFICES ASSUME NEW u \in Thread PROVE ThreadFits(u)'
      OBVIOUS
    <2>1. ThreadFits(u)
      BY DEF Life
    <2>2. pc'[u] = pc[u] /\ at'[u] = at[u] /\ pc[u] \notin Leaving
      BY <1>1, <2>1 DEF ThreadFits
    <2>3. CASE pc[u] \in Loop
      <3>1. at[u] \in Worker \ {w} /\ at[u] \notin fresh
        BY <1>1, <2>1, <2>3 DEF ThreadFits
      <3>2. /\ initialized'[at[u]] = initialized[at[u]] /\ at[u] \notin fresh'
            /\ slots'[at[u]] = slots[at[u]] /\ tags'[at[u]] = tags[at[u]]
            /\ flow'[at[u]] = flow[at[u]]
        BY <1>1, <3>1
      <3>3. initialized[at[u]]
        BY <1>1, <2>1, <2>3 DEF ThreadFits
      <3>4. QED
        BY ZenonT(30), <2>1, <2>2, <2>3, <3>1, <3>2, <3>3 DEF ThreadFits
    <2>4. QED
      BY <1>1, <2>1, <2>2, <2>3 DEF ThreadFits
  <1>9. Flows'
    BY <1>1, <1>2 DEF Life, Flows
  <1>10. Waits'
    BY <1>1, <1>2 DEF Life, Waits, Unused
  <1>11. QED
    BY <1>3, <1>4, <1>5, <1>6, <1>7, <1>8, <1>9, <1>10 DEF Life

LEMMA PrepareFailsLife ==
  ASSUME TypeOK, Life, NEW w \in Worker \ fresh, NEW made, PrepareFails(w, made)
  PROVE  Life'
  <1> USE Agents DEF Loop, Leaving, Building
  <1>p. w \in Worker /\ w \notin epolls /\ up /\ pc[Main] = "idle" /\ call = "none"
    BY DEF PrepareFails, Prepares, IsFirst, Life, Calls
  <1>q. w \notin Marked /\ (w \notin fresh => Unused(w))
    BY <1>p DEF Life, Whole, Blocks, Marked
  <1>r. \A u \in Thread : pc[u] \in Loop => at[u] # w
    <2> SUFFICES ASSUME NEW u \in Thread, pc[u] \in Loop PROVE at[u] # w
      OBVIOUS
    <2>1. ThreadFits(u)
      BY DEF Life
    <2>2. at[u] \in Marked
      BY <1>p, <2>1 DEF ThreadFits, Marked
    <2>3. QED
      BY <1>q, <2>2
  <1>s. count < Capable /\ count \in Int
    BY EpollAssumption DEF PrepareFails, Prepares, TypeOK, WorkerTypes
  <1>t. /\ \A v \in Worker \ {w} : slots'[v] = slots[v] /\ tags'[v] = tags[v]
        /\ \A v \in Worker \ {w} : interest'[v] = interest[v]
    BY <1>p DEF PrepareFails, TypeOK, PoolTypes, TagTypes
  <1>1. /\ UNCHANGED <<up, count, fresh, timerfd, flow, awaits, mine>>
        /\ pc'[Main] = "join"
        /\ \A t \in Thread : pc'[t] = pc[t]
        /\ at'[Main] = w
        /\ \A t \in Thread : at'[t] = at[t]
        /\ call' = "init"
        /\ ~initialized'[w]
        /\ \A v \in Worker \ {w} : initialized'[v] = initialized[v] /\ core'[v] = core[v]
        /\ core'[w] = count
        /\ epolls' = epolls \cup {w}
        /\ w \in Worker /\ w \notin epolls /\ up /\ pc[Main] = "idle" /\ call = "none"
        /\ w \notin Marked /\ (w \notin fresh => Unused(w))
        /\ \A u \in Thread : pc[u] \in Loop => at[u] # w
        /\ count < Capable /\ count \in Int
        /\ \A v \in Worker \ {w} : slots'[v] = slots[v] /\ tags'[v] = tags[v]
        /\ \A v \in Worker \ {w} : interest'[v] = interest[v]
    BY <1>p, <1>q, <1>r, <1>s, <1>t DEF PrepareFails, Prepares, Life, Calls, TypeOK,
         WorkerTypes, PoolTypes, AgentTypes, Goto, pools, fields,
       kernel, program
  <1>2. Marked' = Marked
    BY <1>1 DEF Marked
  <1>3. Calls'
    BY <1>1, <1>2 DEF Life, Calls, Marked
  <1>4. Blocks'
    BY <1>1, <1>2 DEF Life, Blocks, Unused
  <1>5. (\A v \in Marked : Whole(v))'
    BY <1>1, <1>2 DEF Life, Whole, Counted, Marked
  <1>6. Cores'
    <2>1. Counted = count /\ Counted' = count
      BY <1>1 DEF Counted
    <2>2. \A v \in Marked : core'[v] = core[v]
      BY <1>1 DEF Marked
    <2>3. QED
      BY <1>1, <1>2, <2>1, <2>2 DEF Life, Cores
  <1>7. (\A a \in Agent : Stage(a))'
    <2> SUFFICES ASSUME NEW a \in Agent PROVE Stage(a)'
      OBVIOUS
    <2>1. CASE a = Main
      BY <1>1, <1>2, <2>1 DEF Life, Stage
    <2>2. CASE a \in Thread
      <3>1. ThreadFits(a) /\ Stage(a)
        BY <2>2 DEF Life
      <3>2. QED
        BY <1>1, <1>2, <2>2, <3>1 DEF Stage, ThreadFits
    <2>3. QED
      BY <2>1, <2>2
  <1>8. (\A u \in Thread : ThreadFits(u))'
    <2> SUFFICES ASSUME NEW u \in Thread PROVE ThreadFits(u)'
      OBVIOUS
    <2>1. ThreadFits(u)
      BY DEF Life
    <2>2. pc'[u] = pc[u] /\ at'[u] = at[u] /\ pc[u] \notin Leaving
      BY <1>1, <2>1 DEF ThreadFits
    <2>3. CASE pc[u] \in Loop
      <3>1. at[u] \in Worker \ {w} /\ at[u] \notin fresh
        BY <1>1, <2>1, <2>3 DEF ThreadFits
      <3>2. /\ initialized'[at[u]] = initialized[at[u]] /\ at[u] \notin fresh'
            /\ slots'[at[u]] = slots[at[u]] /\ tags'[at[u]] = tags[at[u]]
            /\ flow'[at[u]] = flow[at[u]]
        BY <1>1, <3>1
      <3>3. initialized[at[u]]
        BY <1>1, <2>1, <2>3 DEF ThreadFits
      <3>4. QED
        BY ZenonT(30), <2>1, <2>2, <2>3, <3>1, <3>2, <3>3 DEF ThreadFits
    <2>4. QED
      BY <1>1, <2>1, <2>2, <2>3 DEF ThreadFits
  <1>9. Flows'
    BY <1>1, <1>2 DEF Life, Flows, Unused
  <1>10. Waits'
    BY <1>1, <1>2 DEF Life, Waits, Unused
  <1>11. QED
    BY <1>3, <1>4, <1>5, <1>6, <1>7, <1>8, <1>9, <1>10 DEF Life

LEMMA FindsUnsetLife ==
  ASSUME TypeOK, Life, NEW t \in Thread, FindsUnset(t)
  PROVE  Life'
  <1> USE Agents DEF Loop, Leaving, Building
  <1>p. pc[Main] = "joining" /\ call = "init" /\ at[Main] = at[t] /\ flow[at[t]] = t
    BY DEF FindsUnset, Life, Waits, ThreadFits
  <1>1. /\ UNCHANGED <<up, epolls, count, fresh, initialized, core, timerfd, slots,
                       tags, flow, interest, at, awaits, call, mine>>
        /\ pc'[t] = "join" /\ pc'[Main] = pc[Main]
        /\ \A u \in Thread \ {t} : pc'[u] = pc[u]
        /\ pc[t] = "test" /\ ~initialized[at[t]] /\ awaits[Main] = t
        /\ pc[Main] = "joining" /\ call = "init" /\ at[Main] = at[t] /\ flow[at[t]] = t
    BY <1>p DEF FindsUnset, Life, Calls, TypeOK, WorkerTypes, PoolTypes, AgentTypes,
         Goto, pools, fields,
       kernel, program
  <1>2. Marked' = Marked
    BY <1>1 DEF Marked
  <1>3. Calls'
    BY <1>1, <1>2 DEF Life, Calls, Marked
  <1>4. Blocks'
    BY <1>1, <1>2 DEF Life, Blocks, Unused
  <1>5. (\A v \in Marked : Whole(v))'
    BY <1>1, <1>2 DEF Life, Whole, Counted, Marked
  <1>6. Cores'
    BY <1>1, <1>2 DEF Life, Cores, Counted
  <1>7. (\A a \in Agent : Stage(a))'
    <2> SUFFICES ASSUME NEW a \in Agent PROVE Stage(a)'
      OBVIOUS
    <2>1. CASE a = Main
      BY <1>1, <1>2, <2>1 DEF Life, Stage
    <2>2. CASE a \in Thread
      <3>1. ThreadFits(a) /\ Stage(a)
        BY <2>2 DEF Life
      <3>2. QED
        BY <1>1, <1>2, <2>2, <3>1 DEF Stage, ThreadFits
    <2>3. QED
      BY <2>1, <2>2
  <1>8. (\A u \in Thread : ThreadFits(u))'
    <2> SUFFICES ASSUME NEW u \in Thread PROVE ThreadFits(u)'
      OBVIOUS
    <2>1. ThreadFits(u) /\ Flows /\ Waits /\ Calls
      BY DEF Life
    <2>2. QED
      BY <1>1, <1>2, <2>1 DEF ThreadFits
  <1>9. Flows'
    BY <1>1, <1>2 DEF Life, Flows
  <1>10. Waits'
    BY <1>1, <1>2 DEF Life, Waits, Unused
  <1>11. QED
    BY <1>3, <1>4, <1>5, <1>6, <1>7, <1>8, <1>9, <1>10 DEF Life

\* A step of a thread in the loop of a marked worker.
LEMMA LoopLife ==
  ASSUME TypeOK, Life, NEW t \in Thread, pc[t] \in Loop, initialized[at[t]],
         pc'[t] \in Loop, \A a \in Agent \ {t} : pc'[a] = pc[a],
         UNCHANGED <<up, epolls, count, fresh, initialized, core, timerfd, flow, at,
                     awaits,
                     call, mine>>,
         \A w \in Worker : slots'[w] = NoPool <=> slots[w] = NoPool,
         \A w \in Worker : tags'[w] = NoPool <=> tags[w] = NoPool,
         \A w \in Worker : interest[w]["timerfd"] # None => interest'[w]["timerfd"] # None,
         \A w \in Worker : ~initialized[w] => interest'[w]["timerfd"] = interest[w]["timerfd"]
  PROVE  Life'
  <1> USE Agents DEF Loop, Leaving, Building
  <1>1. /\ pc[t] \in Loop /\ initialized[at[t]] /\ at[t] \in Worker \ fresh /\ flow[at[t]] = t
        /\ pc'[t] \in Loop /\ pc'[Main] = pc[Main]
        /\ \A a \in Agent \ {t} : pc'[a] = pc[a]
        /\ UNCHANGED <<up, epolls, count, fresh, initialized, core, timerfd, flow, at,
                       awaits,
                         call, mine>>
        /\ \A w \in Worker : slots'[w] = NoPool <=> slots[w] = NoPool
        /\ \A w \in Worker : tags'[w] = NoPool <=> tags[w] = NoPool
        /\ \A w \in Worker : interest[w]["timerfd"] # None => interest'[w]["timerfd"] # None
        /\ \A w \in Worker : ~initialized[w] => interest'[w]["timerfd"] = interest[w]["timerfd"]
    BY ZenonT(30) DEF Life, ThreadFits
  <1>2. Marked' = Marked
    BY <1>1 DEF Marked
  <1>3. Calls'
    <2>1. pc'[Main] = pc[Main]
      BY <1>1
    <2>2. QED
      BY <2>1 DEF Life, Calls, Marked
  <1>4. Blocks'
    BY <1>1, <1>2 DEF Life, Blocks, Unused
  <1>5. (\A v \in Marked : Whole(v))'
    <2> SUFFICES ASSUME NEW w \in Marked PROVE Whole(w)'
      BY <1>2
    <2>1. Whole(w) /\ w \in Worker
      BY DEF Life, Marked
    <2>2. flow[w] \in Thread /\ pc[flow[w]] \in Loop => pc'[flow[w]] \in Loop
      BY <1>1
    <2>3. Counted' = Counted
      BY <1>1 DEF Counted
    <2>4. QED
      BY <1>1, <2>1, <2>2, <2>3 DEF Whole
  <1>6. Cores'
    <2>1. pc'[Main] = pc[Main]
      BY <1>1
    <2>2. Counted' = Counted
      BY <2>1 DEF Counted
    <2>3. QED
      BY <2>1, <2>2 DEF Life, Cores, Marked
  <1>7. (\A a \in Agent : Stage(a))'
    <2> SUFFICES ASSUME NEW b \in Agent PROVE Stage(b)'
      OBVIOUS
    <2>1. (Stage(b) /\ pc'[b] = pc[b]) \/ pc'[b] \in Loop
      BY <1>1 DEF Life
    <2>2. pc'[b] \in Leaving \ {"join"} => at[b] \in Worker
      BY <1>1, <2>1 DEF TypeOK, AgentTypes
    <2>3. QED
      BY ZenonT(30), <1>1, <2>1, <2>2 DEF Stage
  <1>8. (\A u \in Thread : ThreadFits(u))'
    <2> SUFFICES ASSUME NEW u \in Thread PROVE ThreadFits(u)'
      OBVIOUS
    <2>1. ThreadFits(u)
      BY DEF Life
    <2>2. CASE u = t
      <3>1. /\ pc[u] \in Loop /\ pc'[u] \in Loop /\ initialized'[at'[u]] /\ at'[u] = at[u]
            /\ at[u] \in Worker /\ flow'[at[u]] = flow[at[u]] /\ fresh' = fresh
        BY <1>1, <2>2
      <3>2. QED
        BY ZenonT(30), <1>1, <2>1, <2>2, <3>1 DEF ThreadFits
    <2>3. CASE u # t
      <3>1. pc'[u] = pc[u] /\ at'[u] = at[u] /\ pc'[Main] = pc[Main] /\ at'[Main] = at[Main]
        BY <1>1, <2>3
      <3>2. CASE pc[u] \in Loop
        <4>1. at[u] \in Worker
          BY <2>1, <3>2 DEF ThreadFits
        <4>2. /\ fresh' = fresh /\ flow'[at[u]] = flow[at[u]]
              /\ slots'[at[u]] = NoPool <=> slots[at[u]] = NoPool
              /\ tags'[at[u]] = NoPool <=> tags[at[u]] = NoPool
              /\ initialized'[at[u]] = initialized[at[u]] /\ call' = call
          BY <1>1, <4>1
        <4>3. QED
          BY <2>1, <3>1, <3>2, <4>1, <4>2 DEF ThreadFits
      <3>3. CASE pc[u] \notin Loop
        <4>1. awaits' = awaits /\ call' = call /\ flow' = flow
          BY <1>1
        <4>2. QED
          BY <2>1, <3>1, <3>3, <4>1 DEF ThreadFits
      <3>4. QED
        BY <3>2, <3>3
    <2>4. QED
      BY <2>2, <2>3
  <1>9. Flows'
    <2>1. call = "init" => at[Main] # at[t]
      BY <1>1 DEF Life, Calls
    <2>2. pc[Main] \in Building \/ call = "init" => at[Main] \in Worker /\ pc[Main] # "idle"
      BY DEF Life, Calls
    <2>3. call = "init" /\ flow[at[Main]] \in Thread /\ at[flow[at[Main]]] = at[Main] =>
            pc'[flow[at[Main]]] = pc[flow[at[Main]]]
      BY <1>1, <2>1
    <2>4. pc[Main] \in Building => ~initialized[at[Main]]
      BY DEF Life, Calls
    <2>5. QED
      BY ZenonT(30), <1>1, <2>1, <2>2, <2>3, <2>4 DEF Life, Flows
  <1>10. Waits'
    <2>1. pc[Main] = "joining" => awaits[Main] \in Thread /\ at[awaits[Main]] = at[Main] /\ at[Main] \in Worker
      BY <1>1 DEF Life, Waits, Calls
    <2>2. pc[Main] = "joining" /\ awaits[Main] = t => call # "init" /\ initialized[at[Main]]
      BY <1>1, <2>1 DEF Life, Calls
    <2>3. pc[Main] = "joining" /\ awaits[Main] # t => pc'[awaits[Main]] = pc[awaits[Main]]
      BY <1>1, <2>1
    <2>4. pc[Main] = "joining" /\ Unused(at[Main]) => Unused(at[Main])'
      BY <1>1, <2>1 DEF Unused
    <2>5. QED
      BY <1>1, <2>1, <2>2, <2>3, <2>4 DEF Life, Waits
  <1>11. QED
    BY <1>3, <1>4, <1>5, <1>6, <1>7, <1>8, <1>9, <1>10 DEF Life

LEMMA InLoop ==
  ASSUME TypeOK, Life, NEW t \in Thread, pc[t] \in {"event", "handler"}
  PROVE  initialized[at[t]] /\ at[t] \in Worker
  BY DEF Life, ThreadFits, Loop

LEMMA EpollWaitLife ==
  ASSUME TypeOK, Life, NEW t \in Thread, EpollWait(t)
  PROVE  Life'
  <1> USE Agents
  <1>1. /\ pc[t] = "test" /\ initialized[at[t]]
        /\ UNCHANGED <<up, epolls, count, fresh, initialized, core, timerfd, flow, at,
                       awaits,
                       call, mine, slots, tags, interest>>
    BY DEF EpollWait, pools, fields, kernel, program
  <1>2. pc'[t] \in Loop /\ \A a \in Agent \ {t} : pc'[a] = pc[a]
    BY DEF EpollWait, Goto, Loop, TypeOK, AgentTypes
  <1>3. pc[t] \in Loop
    BY <1>1 DEF Loop
  <1>4. /\ \A w \in Worker : slots'[w] = NoPool <=> slots[w] = NoPool
        /\ \A w \in Worker : tags'[w] = NoPool <=> tags[w] = NoPool
        /\ \A w \in Worker : interest[w]["timerfd"] # None => interest'[w]["timerfd"] # None
        /\ \A w \in Worker : ~initialized[w] => interest'[w]["timerfd"] = interest[w]["timerfd"]
    BY <1>1
  <1>5. QED
    BY <1>1, <1>2, <1>3, <1>4, LoopLife

LEMMA HandleLife ==
  ASSUME TypeOK, Life, NEW t \in Thread, NEW e \in batch[t],
         HandleTimer(t, e) \/ HandleData(t, e) \/ HandleNothing(t, e)
  PROVE  Life'
  <1> USE Agents
  <1>1. Takes(t, e)
    BY DEF HandleTimer, HandleData, HandleNothing
  <1>2. /\ pc[t] = "event" /\ tags[at[t]] # NoPool
        /\ UNCHANGED <<up, epolls, count, fresh, initialized, core, timerfd, flow, at,
                       awaits,
                       call, mine>>
    BY <1>1 DEF Takes, pools, program
  <1>3. pc'[t] \in Loop /\ pc[t] \in Loop /\ \A a \in Agent \ {t} : pc'[a] = pc[a]
    BY <1>1 DEF Takes, Goto, Loop, TypeOK, AgentTypes
  <1>4. initialized[at[t]]
    BY <1>2, InLoop
  <1>5. UNCHANGED <<slots, interest>>
    BY HandleTypes
  <1>6. \A w \in Worker : tags'[w] = NoPool <=> tags[w] = NoPool
    <2>1. e[2] \in Tag
      BY DEF TypeOK, TagTypes
    <2>2. CASE EventDel(at[t], e[2])
      BY <1>2, <2>1, <2>2 DEF EventDel, TypeOK, PoolTypes, NoPool
    <2>3. CASE UNCHANGED tags
      BY <2>3
    <2>4. QED
      BY <2>2, <2>3 DEF HandleTimer, HandleData, HandleNothing
  <1>7. /\ \A w \in Worker : slots'[w] = NoPool <=> slots[w] = NoPool
        /\ \A w \in Worker : interest[w]["timerfd"] # None => interest'[w]["timerfd"] # None
        /\ \A w \in Worker : ~initialized[w] => interest'[w]["timerfd"] = interest[w]["timerfd"]
    BY <1>5
  <1>8. QED
    BY <1>2, <1>3, <1>4, <1>6, <1>7, LoopLife

LEMMA ReturnsLife ==
  ASSUME TypeOK, Life, NEW t \in Thread, HandlerReturns(t) \/ HandlerAccepts(t)
  PROVE  Life'
  <1> USE Agents
  <1>1. Returns(t)
    BY DEF HandlerReturns, HandlerAccepts
  <1>2. /\ pc[t] = "handler"
        /\ UNCHANGED <<up, epolls, count, fresh, initialized, core, timerfd, flow, at,
                       awaits,
                       call, mine>>
    BY <1>1 DEF Returns, pools, program
  <1>3. pc'[t] \in Loop /\ pc[t] \in Loop /\ \A a \in Agent \ {t} : pc'[a] = pc[a]
    BY <1>1 DEF Returns, Goto, Loop, TypeOK, AgentTypes
  <1>4. initialized[at[t]] /\ at[t] \in Worker
    BY <1>2, InLoop
  <1>5. /\ \A w \in Worker : slots'[w] = NoPool <=> slots[w] = NoPool
        /\ \A w \in Worker : tags'[w] = NoPool <=> tags[w] = NoPool
        /\ \A w \in Worker : interest[w]["timerfd"] # None => interest'[w]["timerfd"] # None
        /\ \A w \in Worker : ~initialized[w] => interest'[w]["timerfd"] = interest[w]["timerfd"]
    <2>1. CASE HandlerReturns(t)
      BY <2>1 DEF HandlerReturns
    <2>2. CASE HandlerAccepts(t)
      <3> DEFINE c == CHOOSE x \in Unborn : TRUE
      <3>1. c \in Conn /\ slots[at[t]] # NoPool
        BY <2>2 DEF HandlerAccepts, Unborn
      <3> HIDE DEF c
      <3>2. SlotAdded(at[t], c) \/ SlotRefused(at[t], c)
        BY <2>2 DEF HandlerAccepts, c
      <3>3. CASE SlotRefused(at[t], c)
        <4>1. UNCHANGED <<slots, interest>>
          BY <3>3, <1>4, EventAddFailsTypes DEF SlotRefused
        <4>2. QED
          BY <4>1, <3>3, <1>4, EventNotAdded DEF SlotRefused
      <3>4. CASE SlotAdded(at[t], c)
        <4>1. PICK p \in Tag : EventAdd(at[t], p, c)
          BY <3>4 DEF SlotAdded
        <4>2. /\ tags[at[t]] # NoPool /\ tags'[at[t]] # NoPool
              /\ \A v \in Worker \ {at[t]} : tags'[v] = tags[v] /\ interest'[v] = interest[v]
              /\ c \in Fd /\ \A g \in Fd \ {c} : interest'[at[t]][g] = interest[at[t]][g]
          BY <1>4, <3>1, <4>1, EventAdded
        <4>3. c # "timerfd"
          BY <3>1, EpollAssumption
        <4>4. \A w \in Worker : interest'[w]["timerfd"] = interest[w]["timerfd"]
          BY <4>2, <4>3
        <4>5. \A w \in Worker : slots'[w] = NoPool <=> slots[w] = NoPool
          BY <1>4, <3>1, <3>4 DEF SlotAdded, TypeOK, PoolTypes, NoPool
        <4>6. \A w \in Worker : tags'[w] = NoPool <=> tags[w] = NoPool
          BY <4>2
        <4>7. QED
          BY <4>4, <4>5, <4>6
      <3>5. QED
        BY <3>2, <3>3, <3>4
    <2>3. QED
      BY <2>1, <2>2
  <1>6. QED
    BY <1>2, <1>3, <1>4, <1>5, LoopLife

\* The worker an agent takes down is the one init has failed with.
LEMMA TakenDown ==
  ASSUME TypeOK, Life, NEW a \in Agent, pc[a] \in Leaving, a = Main => call = "init"
  PROVE  /\ call = "init" /\ at[a] = at[Main] /\ at[a] \in Worker \ fresh
         /\ ~initialized[at[a]] /\ at[a] \notin Marked /\ pc[Main] \notin {"idle", "static"}
         /\ \A b \in Agent \ {a} : pc[b] \notin Leaving
         /\ a # Main => pc[Main] = "joining" /\ awaits[Main] = a
         /\ pc[a] # "join" => flow[at[a]] = None
  <1> USE Agents DEF Loop, Leaving, Building
  <1>1. a # Main => ThreadFits(a)
    BY DEF Life
  <1>2. a # Main => pc[Main] = "joining" /\ awaits[Main] = a /\ call = "init" /\ at[a] = at[Main]
    BY <1>1 DEF ThreadFits
  <1>3. call = "init" /\ at[a] = at[Main] /\ pc[Main] \notin {"idle", "static"}
    BY <1>2
  <1>4. at[a] \in Worker \ fresh /\ ~initialized[at[a]]
    BY <1>3 DEF Life, Calls
  <1>5. ASSUME NEW b \in Agent \ {a} PROVE pc[b] \notin Leaving
    <2>1. b # Main => ThreadFits(b)
      BY DEF Life
    <2>2. QED
      BY <1>2, <2>1 DEF ThreadFits
  <1>6. pc[a] # "join" => flow[at[a]] = None
    BY DEF Life, Stage
  <1>7. QED
    BY <1>2, <1>3, <1>4, <1>5, <1>6 DEF Marked

\* A step that takes a worker down, after it is known that no thread is in its loop.
LEMMA TakesDownLife ==
  ASSUME TypeOK, Life, NEW a \in Agent, pc[a] \in Leaving, a = Main => call = "init",
         flow[at[a]] \in {None, a},
         pc'[a] \in Leaving \ {"join"}, \A b \in Agent \ {a} : pc'[b] = pc[b],
         UNCHANGED <<up, count, fresh, initialized, core, at, awaits, call, mine>>,
         \A w \in Worker \ {at[a]} :
           /\ slots'[w] = slots[w] /\ tags'[w] = tags[w] /\ flow'[w] = flow[w]
           /\ timerfd'[w] = timerfd[w] /\ interest'[w] = interest[w]
           /\ w \in epolls => w \in epolls',
         flow'[at[a]] = None, Stage(a)'
  PROVE  Life'
  <1> USE Agents DEF Loop, Leaving, Building
  <1>1. /\ call = "init" /\ at[a] = at[Main] /\ at[a] \in Worker \ fresh
        /\ ~initialized[at[a]] /\ at[a] \notin Marked /\ pc[Main] \notin {"idle", "static"}
        /\ \A b \in Agent \ {a} : pc[b] \notin Leaving
        /\ a # Main => pc[Main] = "joining" /\ awaits[Main] = a
    BY TakenDown
  <1>2. Marked' = Marked
    BY DEF Marked
  <1>3. pc'[Main] \in (Leaving \ {"join"}) \cup {"joining"}
    BY <1>1
  <1>4. a # Main => pc'[Main] = "joining"
    BY <1>1
  <1>5. Counted' = Counted
    BY <1>1, <1>3 DEF Counted
  <1>6. Calls'
    BY <1>1, <1>3 DEF Life, Calls, Marked
  <1>7. Blocks'
    <2> SUFFICES ASSUME NEW w \in Worker \ fresh, ~initialized[w], w # at[Main]
                 PROVE  Unused(w)'
      BY <1>1 DEF Blocks
    <2>1. Unused(w) /\ w \in Worker \ {at[a]}
      BY <1>1 DEF Life, Blocks
    <2>2. QED
      BY <2>1 DEF Unused
  <1>8. (\A w \in Marked : Whole(w))'
    <2> SUFFICES ASSUME NEW w \in Marked PROVE Whole(w)'
      BY <1>2
    <2>1. Whole(w) /\ w \in Worker \ {at[a]}
      BY <1>1 DEF Life, Marked
    <2>2. flow[w] \in Thread /\ pc[flow[w]] \in Loop => pc'[flow[w]] \in Loop
      <3>1. ASSUME flow[w] \in Thread, pc[flow[w]] \in Loop PROVE flow[w] # a
        BY <3>1
      <3>2. QED
        BY <3>1
    <2>3. QED
      BY <1>5, <2>1, <2>2 DEF Whole
  <1>9. Cores'
    BY <1>2, <1>3, <1>5 DEF Life, Cores
  <1>10. (\A b \in Agent : Stage(b))'
    <2> SUFFICES ASSUME NEW b \in Agent \ {a} PROVE Stage(b)'
      OBVIOUS
    <2>1. pc'[b] \notin Leaving
      BY <1>1
    <2>2. QED
      BY <2>1 DEF Stage
  <1>11. (\A u \in Thread : ThreadFits(u))'
    <2> SUFFICES ASSUME NEW u \in Thread PROVE ThreadFits(u)'
      OBVIOUS
    <2>1. ThreadFits(u)
      BY DEF Life
    <2>2. CASE u = a
      <3>1. a # Main /\ pc'[u] \in Leaving \ {"join"}
        BY <2>2
      <3>2. pc'[Main] = "joining" /\ awaits'[Main] = u /\ call' = "init" /\ at'[u] = at'[Main]
        BY <1>1, <1>4, <2>2, <3>1
      <3>3. QED
        BY <3>1, <3>2 DEF ThreadFits
    <2>3. CASE u # a /\ pc[u] \in Loop
      <3>1. at[u] # at[a]
        <4>1. flow[at[u]] = u /\ u # None /\ u # a
          BY <2>1, <2>3 DEF ThreadFits
        <4>2. QED
          BY <4>1
      <3>2. pc'[u] = pc[u] /\ initialized[at[u]] /\ at[u] \in Worker \ {at[a]}
        BY <1>1, <2>1, <2>3, <3>1 DEF ThreadFits
      <3>3. QED
        BY <2>1, <2>3, <3>2 DEF ThreadFits
    <2>4. CASE u # a /\ pc[u] \notin Loop
      <3>1. pc'[u] = pc[u] /\ pc[u] \notin Leaving
        BY <1>1, <2>4
      <3>2. QED
        BY <2>1, <2>4, <3>1 DEF ThreadFits
    <2>5. QED
      BY <2>2, <2>3, <2>4
  <1>12. Flows'
    BY <1>3 DEF Flows
  <1>13. Waits'
    <2>1. CASE a = Main
      <3>1. awaits[Main] = None /\ pc'[Main] # "joining"
        BY <2>1 DEF Life, Waits
      <3>2. QED
        BY <3>1 DEF Waits
    <2>2. CASE a # Main
      <3>1. /\ pc'[Main] = "joining" /\ awaits'[Main] = a /\ at'[a] = at'[Main]
            /\ a \in Thread /\ ~initialized'[at'[Main]] /\ pc'[a] \in Leaving /\ call' = "init"
        BY <1>1, <1>4, <2>2
      <3>2. QED
        BY <3>1 DEF Waits
    <2>3. QED
      BY <2>1, <2>2
  <1>14. QED
    BY <1>6, <1>7, <1>8, <1>9, <1>10, <1>11, <1>12, <1>13 DEF Life

LEMMA PastJoin ==
  ASSUME TypeOK, Life, NEW a \in Agent, pc[a] \in Leaving,
         pc[a] = "join" => flow[at[a]] \in {None, a}
  PROVE  /\ a = Main => call = "init"
         /\ flow[at[a]] \in {None, a} /\ at[a] \in Worker
  <1> USE Agents DEF Loop, Leaving, Building
  <1>1. ASSUME a = Main, call # "init" PROVE FALSE
    <2>1. pc[Main] = "join" /\ at[Main] \in Worker \ fresh /\ initialized[at[Main]]
      BY <1>1 DEF Life, Calls, TypeOK, AgentTypes
    <2>2. Whole(at[Main])
      BY <2>1 DEF Life, Marked
    <2>3. QED
      BY <1>1, <2>1, <2>2 DEF Whole
  <1>2. QED
    BY <1>1, TakenDown

LEMMA JoinLife ==
  ASSUME TypeOK, Life, NEW a \in Agent, Join(a), flow[at[a]] \in {None, a}
  PROVE  Life'
  <1> USE Agents
  <1>1. pc[a] = "join" /\ pc[a] \in Leaving
    BY DEF Join, Leaving
  <1>2. /\ a = Main => call = "init"
        /\ flow[at[a]] \in {None, a} /\ at[a] \in Worker
    BY <1>1, PastJoin
  <1>3. /\ pc'[a] = "liquidate"
        /\ \A b \in Agent \ {a} : pc'[b] = pc[b]
    BY <1>1, <1>2, EpollAssumption DEF Join, Goto, TypeOK, AgentTypes, Leaving
  <1>4. pc'[a] \in Leaving \ {"join"}
    BY <1>3 DEF Leaving
  <1>5. UNCHANGED <<up, count, fresh, initialized, core, at, awaits, call, mine>>
    BY <1>2 DEF Join, pools, fields, kernel, program
  <1>6. \A w \in Worker \ {at[a]} :
           /\ slots'[w] = slots[w] /\ tags'[w] = tags[w] /\ flow'[w] = flow[w]
           /\ timerfd'[w] = timerfd[w] /\ interest'[w] = interest[w]
           /\ w \in epolls => w \in epolls'
    BY <1>2 DEF Join, pools, fields, kernel, program, TypeOK, WorkerTypes, PoolTypes,
         TagTypes
  <1>7. flow'[at[a]] = None
    BY <1>1, <1>2, TakenDown DEF Join, fields, TypeOK, WorkerTypes
  <1>8. Stage(a)'
    <2>1. Stage(a)
      BY DEF Life
    <2>2. QED
      BY <1>1, <1>2, <1>3, <1>7, <2>1
         DEF Stage, Join, Leaving, pools, fields, kernel, TypeOK, WorkerTypes, PoolTypes
  <1>9. QED
    BY <1>1, <1>2, <1>3, <1>4, <1>5, <1>6, <1>7, <1>8, TakesDownLife

LEMMA LiquidateTimerLife ==
  ASSUME TypeOK, Life, NEW a \in Agent, LiquidateTimer(a)
  PROVE  Life'
  <1> USE Agents
  <1>1. pc[a] = "liquidate" /\ pc[a] \in Leaving
    BY DEF LiquidateTimer, Leaving
  <1>2. /\ a = Main => call = "init"
        /\ flow[at[a]] \in {None, a} /\ at[a] \in Worker
    BY <1>1, PastJoin
  <1>3. /\ pc'[a] = "slots"
        /\ \A b \in Agent \ {a} : pc'[b] = pc[b]
    BY <1>1, <1>2, EpollAssumption DEF LiquidateTimer, Goto, TypeOK, AgentTypes, Leaving
  <1>4. pc'[a] \in Leaving \ {"join"}
    BY <1>3 DEF Leaving
  <1>5. UNCHANGED <<up, count, fresh, initialized, core, at, awaits, call, mine>>
    BY <1>2 DEF LiquidateTimer, pools, fields, kernel, program
  <1>6. \A w \in Worker \ {at[a]} :
           /\ slots'[w] = slots[w] /\ tags'[w] = tags[w] /\ flow'[w] = flow[w]
           /\ timerfd'[w] = timerfd[w] /\ interest'[w] = interest[w]
           /\ w \in epolls => w \in epolls'
    BY <1>2 DEF LiquidateTimer, pools, fields, kernel, program, TypeOK, WorkerTypes,
         PoolTypes, TagTypes
  <1>7. flow'[at[a]] = None
    BY <1>1, <1>2, TakenDown DEF LiquidateTimer, fields, TypeOK, WorkerTypes
  <1>8. Stage(a)'
    <2>1. Stage(a)
      BY DEF Life
    <2>2. QED
      BY <1>1, <1>2, <1>3, <1>7, <2>1
         DEF Stage, LiquidateTimer, Leaving, pools, fields, kernel, TypeOK,
              WorkerTypes, PoolTypes
  <1>9. QED
    BY <1>1, <1>2, <1>3, <1>4, <1>5, <1>6, <1>7, <1>8, TakesDownLife

LEMMA TestSlotsLife ==
  ASSUME TypeOK, Life, NEW a \in Agent, TestSlots(a)
  PROVE  Life'
  <1> USE Agents
  <1>1. pc[a] = "slots" /\ pc[a] \in Leaving
    BY DEF TestSlots, Leaving, Tests
  <1>2. /\ a = Main => call = "init"
        /\ flow[at[a]] \in {None, a} /\ at[a] \in Worker
    BY <1>1, PastJoin
  <1>3. /\ pc'[a] = IF slots[at[a]] # NoPool THEN "free slots" ELSE "tags"
        /\ \A b \in Agent \ {a} : pc'[b] = pc[b]
    BY <1>1, <1>2, EpollAssumption DEF TestSlots, Tests, Goto, TypeOK, AgentTypes,
         Leaving
  <1>4. pc'[a] \in Leaving \ {"join"}
    BY <1>3 DEF Leaving
  <1>5. UNCHANGED <<up, count, fresh, initialized, core, at, awaits, call, mine>>
    BY <1>2 DEF TestSlots, Tests, pools, fields, kernel, program
  <1>6. \A w \in Worker \ {at[a]} :
           /\ slots'[w] = slots[w] /\ tags'[w] = tags[w] /\ flow'[w] = flow[w]
           /\ timerfd'[w] = timerfd[w] /\ interest'[w] = interest[w]
           /\ w \in epolls => w \in epolls'
    BY <1>2 DEF TestSlots, Tests, pools, fields, kernel, program, TypeOK, WorkerTypes,
         PoolTypes, TagTypes
  <1>7. flow'[at[a]] = None
    BY <1>1, <1>2, TakenDown DEF TestSlots, Tests, fields, TypeOK, WorkerTypes
  <1>8. Stage(a)'
    <2>1. Stage(a)
      BY DEF Life
    <2>2. QED
      BY <1>1, <1>2, <1>3, <1>7, <2>1
         DEF Stage, TestSlots, Tests, Leaving, pools, fields, kernel, TypeOK,
              WorkerTypes, PoolTypes
  <1>9. QED
    BY <1>1, <1>2, <1>3, <1>4, <1>5, <1>6, <1>7, <1>8, TakesDownLife

LEMMA FreeSlotsLife ==
  ASSUME TypeOK, Life, NEW a \in Agent, FreeSlots(a)
  PROVE  Life'
  <1> USE Agents
  <1>1. pc[a] = "free slots" /\ pc[a] \in Leaving
    BY DEF FreeSlots, Leaving
  <1>2. /\ a = Main => call = "init"
        /\ flow[at[a]] \in {None, a} /\ at[a] \in Worker
    BY <1>1, PastJoin
  <1>3. /\ pc'[a] = "tags"
        /\ \A b \in Agent \ {a} : pc'[b] = pc[b]
    BY <1>1, <1>2, EpollAssumption DEF FreeSlots, Goto, TypeOK, AgentTypes, Leaving
  <1>4. pc'[a] \in Leaving \ {"join"}
    BY <1>3 DEF Leaving
  <1>5. UNCHANGED <<up, count, fresh, initialized, core, at, awaits, call, mine>>
    BY <1>2 DEF FreeSlots, pools, fields, kernel, program
  <1>6. \A w \in Worker \ {at[a]} :
           /\ slots'[w] = slots[w] /\ tags'[w] = tags[w] /\ flow'[w] = flow[w]
           /\ timerfd'[w] = timerfd[w] /\ interest'[w] = interest[w]
           /\ w \in epolls => w \in epolls'
    BY <1>2 DEF FreeSlots, pools, fields, kernel, program, TypeOK, WorkerTypes,
         PoolTypes, TagTypes
  <1>7. flow'[at[a]] = None
    BY <1>1, <1>2, TakenDown DEF FreeSlots, fields, TypeOK, WorkerTypes
  <1>8. Stage(a)'
    <2>1. Stage(a)
      BY DEF Life
    <2>2. QED
      BY <1>1, <1>2, <1>3, <1>7, <2>1
         DEF Stage, FreeSlots, Leaving, pools, fields, kernel, TypeOK, WorkerTypes,
              PoolTypes
  <1>9. QED
    BY <1>1, <1>2, <1>3, <1>4, <1>5, <1>6, <1>7, <1>8, TakesDownLife

LEMMA TestTagsLife ==
  ASSUME TypeOK, Life, NEW a \in Agent, TestTags(a)
  PROVE  Life'
  <1> USE Agents
  <1>1. pc[a] = "tags" /\ pc[a] \in Leaving
    BY DEF TestTags, Leaving, Tests
  <1>2. /\ a = Main => call = "init"
        /\ flow[at[a]] \in {None, a} /\ at[a] \in Worker
    BY <1>1, PastJoin
  <1>3. /\ pc'[a] = IF tags[at[a]] # NoPool THEN "free tags" ELSE "free block"
        /\ \A b \in Agent \ {a} : pc'[b] = pc[b]
    BY <1>1, <1>2, EpollAssumption DEF TestTags, Tests, Goto, TypeOK, AgentTypes,
         Leaving
  <1>4. pc'[a] \in Leaving \ {"join"}
    BY <1>3 DEF Leaving
  <1>5. UNCHANGED <<up, count, fresh, initialized, core, at, awaits, call, mine>>
    BY <1>2 DEF TestTags, Tests, pools, fields, kernel, program
  <1>6. \A w \in Worker \ {at[a]} :
           /\ slots'[w] = slots[w] /\ tags'[w] = tags[w] /\ flow'[w] = flow[w]
           /\ timerfd'[w] = timerfd[w] /\ interest'[w] = interest[w]
           /\ w \in epolls => w \in epolls'
    BY <1>2 DEF TestTags, Tests, pools, fields, kernel, program, TypeOK, WorkerTypes,
         PoolTypes, TagTypes
  <1>7. flow'[at[a]] = None
    BY <1>1, <1>2, TakenDown DEF TestTags, Tests, fields, TypeOK, WorkerTypes
  <1>8. Stage(a)'
    <2>1. Stage(a)
      BY DEF Life
    <2>2. QED
      BY <1>1, <1>2, <1>3, <1>7, <2>1
         DEF Stage, TestTags, Tests, Leaving, pools, fields, kernel, TypeOK,
              WorkerTypes, PoolTypes
  <1>9. QED
    BY <1>1, <1>2, <1>3, <1>4, <1>5, <1>6, <1>7, <1>8, TakesDownLife

LEMMA FreeTagsLife ==
  ASSUME TypeOK, Life, NEW a \in Agent, FreeTags(a)
  PROVE  Life'
  <1> USE Agents
  <1>1. pc[a] = "free tags" /\ pc[a] \in Leaving
    BY DEF FreeTags, Leaving
  <1>2. /\ a = Main => call = "init"
        /\ flow[at[a]] \in {None, a} /\ at[a] \in Worker
    BY <1>1, PastJoin
  <1>3. /\ pc'[a] = "free block"
        /\ \A b \in Agent \ {a} : pc'[b] = pc[b]
    BY <1>1, <1>2, EpollAssumption DEF FreeTags, Goto, TypeOK, AgentTypes, Leaving
  <1>4. pc'[a] \in Leaving \ {"join"}
    BY <1>3 DEF Leaving
  <1>5. UNCHANGED <<up, count, fresh, initialized, core, at, awaits, call, mine>>
    BY <1>2 DEF FreeTags, pools, fields, kernel, program
  <1>6. \A w \in Worker \ {at[a]} :
           /\ slots'[w] = slots[w] /\ tags'[w] = tags[w] /\ flow'[w] = flow[w]
           /\ timerfd'[w] = timerfd[w] /\ interest'[w] = interest[w]
           /\ w \in epolls => w \in epolls'
    BY <1>2 DEF FreeTags, pools, fields, kernel, program, TypeOK, WorkerTypes,
         PoolTypes, TagTypes
  <1>7. flow'[at[a]] = None
    BY <1>1, <1>2, TakenDown DEF FreeTags, fields, TypeOK, WorkerTypes
  <1>8. Stage(a)'
    <2>1. Stage(a)
      BY DEF Life
    <2>2. QED
      BY <1>1, <1>2, <1>3, <1>7, <2>1
         DEF Stage, FreeTags, Leaving, pools, fields, kernel, TypeOK, WorkerTypes,
              PoolTypes
  <1>9. QED
    BY <1>1, <1>2, <1>3, <1>4, <1>5, <1>6, <1>7, <1>8, TakesDownLife

LEMMA FreeBlockLife ==
  ASSUME TypeOK, Life, NEW a \in Agent, FreeBlock(a)
  PROVE  Life'
  <1> USE Agents
  <1>1. pc[a] = "free block" /\ pc[a] \in Leaving
    BY DEF FreeBlock, Leaving
  <1>2. /\ a = Main => call = "init"
        /\ flow[at[a]] \in {None, a} /\ at[a] \in Worker
    BY <1>1, PastJoin
  <1>3. /\ pc'[a] = "uncount"
        /\ \A b \in Agent \ {a} : pc'[b] = pc[b]
    BY <1>1, <1>2, EpollAssumption DEF FreeBlock, Goto, TypeOK, AgentTypes, Leaving
  <1>4. pc'[a] \in Leaving \ {"join"}
    BY <1>3 DEF Leaving
  <1>5. UNCHANGED <<up, count, fresh, initialized, core, at, awaits, call, mine>>
    BY <1>2 DEF FreeBlock, pools, fields, kernel, program
  <1>6. \A w \in Worker \ {at[a]} :
           /\ slots'[w] = slots[w] /\ tags'[w] = tags[w] /\ flow'[w] = flow[w]
           /\ timerfd'[w] = timerfd[w] /\ interest'[w] = interest[w]
           /\ w \in epolls => w \in epolls'
    BY <1>2 DEF FreeBlock, pools, fields, kernel, program, TypeOK, WorkerTypes,
         PoolTypes, TagTypes
  <1>7. flow'[at[a]] = None
    BY <1>1, <1>2, TakenDown DEF FreeBlock, fields, TypeOK, WorkerTypes
  <1>8. Stage(a)'
    <2>1. Stage(a)
      BY DEF Life
    <2>2. QED
      BY <1>1, <1>2, <1>3, <1>7, <2>1
         DEF Stage, FreeBlock, Leaving, pools, fields, kernel, TypeOK, WorkerTypes,
              PoolTypes
  <1>9. QED
    BY <1>1, <1>2, <1>3, <1>4, <1>5, <1>6, <1>7, <1>8, TakesDownLife

LEMMA UncountLife ==
  ASSUME TypeOK, Life, NEW a \in Agent, Uncount(a)
  PROVE  Life'
  <1> USE Agents
  <1>1. pc[a] = "uncount" /\ pc[a] \in Leaving
    BY DEF Uncount, Leaving
  <1>2. /\ a = Main => call = "init"
        /\ flow[at[a]] \in {None, a} /\ at[a] \in Worker
    BY <1>1, PastJoin
  <1>3. /\ pc'[a] = "clear"
        /\ \A b \in Agent \ {a} : pc'[b] = pc[b]
    BY <1>1, <1>2, EpollAssumption DEF Uncount, Goto, TypeOK, AgentTypes, Leaving
  <1>4. pc'[a] \in Leaving \ {"join"}
    BY <1>3 DEF Leaving
  <1>u. ~initialized[at[a]]
    BY <1>1, <1>2, TakenDown
  <1>5. UNCHANGED <<up, count, fresh, initialized, core, at, awaits, call, mine>>
    BY <1>2, <1>u DEF Uncount, pools, fields, kernel, program
  <1>6. \A w \in Worker \ {at[a]} :
           /\ slots'[w] = slots[w] /\ tags'[w] = tags[w] /\ flow'[w] = flow[w]
           /\ timerfd'[w] = timerfd[w] /\ interest'[w] = interest[w]
           /\ w \in epolls => w \in epolls'
    BY <1>2 DEF Uncount, pools, fields, kernel, program, TypeOK, WorkerTypes,
         PoolTypes, TagTypes
  <1>7. flow'[at[a]] = None
    BY <1>1, <1>2, TakenDown DEF Uncount, fields, TypeOK, WorkerTypes
  <1>8. Stage(a)'
    <2>1. Stage(a)
      BY DEF Life
    <2>2. QED
      BY <1>1, <1>2, <1>3, <1>7, <2>1
         DEF Stage, Uncount, Leaving, pools, fields, kernel, TypeOK, WorkerTypes,
              PoolTypes
  <1>9. QED
    BY <1>1, <1>2, <1>3, <1>4, <1>5, <1>6, <1>7, <1>8, TakesDownLife

LEMMA JoinWaitsLife ==
  ASSUME TypeOK, Life, NEW a \in Agent, Join(a), flow[at[a]] \notin {None, a}
  PROVE  Life'
  <1> USE Agents DEF Loop, Leaving, Building
  <1>1. pc[a] = "join" /\ flow[at[a]] \in Thread \ {a}
    BY DEF Join
  <1>2. a = Main
    <2>1. a \in Thread => ThreadFits(a)
      BY DEF Life
    <2>2. QED
      BY <1>1, <2>1 DEF ThreadFits
  <1> DEFINE t == flow[at[Main]]
  <1>3. /\ pc[Main] = "join" /\ t \in Thread
        /\ UNCHANGED <<up, epolls, count, fresh, initialized, core, timerfd, slots,
                       tags, flow,
                       interest, at, call, mine>>
        /\ pc'[Main] = "joining" /\ \A u \in Thread : pc'[u] = pc[u]
        /\ awaits'[Main] = t
    BY <1>1, <1>2, EpollAssumption DEF Join, Goto, TypeOK, AgentTypes, pools, kernel,
         program
  <1>4. at[Main] \in Worker \ fresh /\ at[t] = at[Main]
    <2>1. at[Main] \in Worker \ fresh
      BY <1>3 DEF Life, Calls
    <2>2. CASE call = "init"
      BY <1>3, <2>1, <2>2 DEF Life, Flows
    <2>3. CASE call # "init"
      <3>1. Whole(at[Main])
        BY <1>3, <2>1, <2>3 DEF Life, Calls, Marked, TypeOK, AgentTypes
      <3>2. QED
        BY <1>3, <2>1, <3>1 DEF Whole
    <2>4. QED
      BY <2>1, <2>2, <2>3
  <1>5. /\ initialized[at[Main]] => pc[t] \in Loop
        /\ call = "init" => pc[t] = "test"
        /\ pc[t] # "ended"
    <2>1. CASE call = "init"
      BY <1>3, <2>1 DEF Life, Calls, Flows
    <2>2. CASE call # "init"
      <3>1. Whole(at[Main])
        BY <1>3, <1>4, <2>2 DEF Life, Calls, Marked, TypeOK, AgentTypes
      <3>2. QED
        BY <1>3, <2>2, <3>1 DEF Whole
    <2>3. QED
      BY <2>1, <2>2
  <1> HIDE DEF t
  <1>6. Marked' = Marked
    BY <1>3 DEF Marked
  <1>7. Calls'
    BY <1>3 DEF Life, Calls, Marked
  <1>8. Blocks'
    BY <1>3 DEF Life, Blocks, Unused
  <1>9. (\A w \in Marked : Whole(w))'
    BY <1>3 DEF Life, Whole, Counted, Marked
  <1>10. Cores'
    BY <1>3 DEF Life, Cores, Counted, Marked
  <1>11. (\A b \in Agent : Stage(b))'
    <2> SUFFICES ASSUME NEW b \in Agent PROVE Stage(b)'
      OBVIOUS
    <2>1. CASE b = Main
      BY <1>3, <2>1 DEF Stage
    <2>2. CASE b \in Thread
      <3>1. Stage(b) /\ pc'[b] = pc[b]
        BY <1>3, <2>2 DEF Life
      <3>2. QED
        BY <1>3, <3>1 DEF Stage
    <2>3. QED
      BY <2>1, <2>2
  <1>12. (\A u \in Thread : ThreadFits(u))'
    <2> SUFFICES ASSUME NEW u \in Thread PROVE ThreadFits(u)'
      OBVIOUS
    <2>1. ThreadFits(u) /\ pc'[u] = pc[u]
      BY <1>3 DEF Life
    <2>2. QED
      BY <1>3, <2>1 DEF ThreadFits
  <1>13. Flows'
    BY <1>3 DEF Flows
  <1>14. Waits'
    BY <1>3, <1>4, <1>5 DEF Waits
  <1>15. QED
    BY <1>7, <1>8, <1>9, <1>10, <1>11, <1>12, <1>13, <1>14 DEF Life

LEMMA JoinedLife ==
  ASSUME TypeOK, Life, NEW a \in Agent, Joined(a)
  PROVE  Life'
  <1> USE Agents DEF Loop, Leaving, Building
  <1>1. pc[a] = "joining" /\ pc[awaits[a]] = "ended"
    BY DEF Joined
  <1>2. a = Main
    <2>1. a \in Thread => ThreadFits(a)
      BY DEF Life
    <2>2. QED
      BY <1>1, <2>1 DEF ThreadFits
  <1>3. /\ Unused(at[Main]) /\ call = "init" /\ at[Main] \in Worker \ fresh
        /\ ~initialized[at[Main]]
    <2>1. Unused(at[Main]) /\ ~initialized[at[Main]] /\ at[Main] \in Worker \ fresh
      BY <1>1, <1>2 DEF Life, Waits, Calls
    <2>2. QED
      BY <1>1, <1>2, <2>1 DEF Life, Calls, TypeOK, AgentTypes
  <1>4. /\ UNCHANGED <<up, epolls, count, fresh, initialized, core, timerfd, slots,
                       tags,
                       interest, at, call, mine>>
        /\ pc'[Main] = "liquidate" /\ \A u \in Thread : pc'[u] = pc[u]
        /\ awaits'[Main] = None /\ \A w \in Worker : flow'[w] = flow[w]
    BY <1>1, <1>2, <1>3
       DEF Joined, Goto, Unused, TypeOK, AgentTypes, WorkerTypes, pools, kernel, program
  <1>5. Calls'
    BY <1>1, <1>2, <1>3, <1>4 DEF Life, Calls, Marked
  <1>6. Blocks'
    BY <1>3, <1>4 DEF Life, Blocks, Unused
  <1>7. (\A w \in Marked : Whole(w))'
    BY <1>1, <1>2, <1>4 DEF Life, Whole, Counted, Marked
  <1>8. Cores'
    BY <1>1, <1>2, <1>4 DEF Life, Cores, Counted, Marked
  <1>9. \A u \in Thread : pc[u] \notin Leaving
    <2> SUFFICES ASSUME NEW u \in Thread PROVE pc[u] \notin Leaving
      OBVIOUS
    <2>1. ThreadFits(u)
      BY DEF Life
    <2>2. QED
      BY <1>1, <1>2, <2>1 DEF ThreadFits
  <1>10. (\A b \in Agent : Stage(b))'
    <2> SUFFICES ASSUME NEW b \in Agent PROVE Stage(b)'
      OBVIOUS
    <2>1. CASE b = Main
      BY <1>3, <1>4, <2>1 DEF Stage, Unused
    <2>2. CASE b \in Thread
      BY <1>4, <1>9, <2>2 DEF Stage
    <2>3. QED
      BY <2>1, <2>2
  <1>11. (\A u \in Thread : ThreadFits(u))'
    <2> SUFFICES ASSUME NEW u \in Thread PROVE ThreadFits(u)'
      OBVIOUS
    <2>1. ThreadFits(u) /\ pc'[u] = pc[u] /\ pc[u] \notin Leaving
      BY <1>4, <1>9 DEF Life
    <2>2. pc[u] \in Loop => at[u] # at[Main]
      BY <1>3, <2>1 DEF ThreadFits, Unused
    <2>3. QED
      BY <1>4, <2>1, <2>2 DEF ThreadFits
  <1>12. Flows'
    BY <1>4 DEF Flows
  <1>13. Waits'
    BY <1>4 DEF Waits
  <1>14. QED
    BY <1>5, <1>6, <1>7, <1>8, <1>10, <1>11, <1>12, <1>13 DEF Life

LEMMA ClearMainLife ==
  ASSUME TypeOK, Life, Clear(Main)
  PROVE  Life'
  <1> USE Agents DEF Loop, Leaving, Building
  <1>1. pc[Main] = "clear" /\ pc[Main] \in Leaving
    BY DEF Clear
  <1>2. call = "init"
    BY <1>1, PastJoin
  <1>3. at[Main] \in Worker \ fresh /\ ~initialized[at[Main]] /\ Unused(at[Main])
    BY <1>1, <1>2 DEF Life, Calls, Stage, Unused
  <1>4. /\ UNCHANGED <<up, epolls, count, fresh, core, timerfd, slots, tags, flow,
                       interest, at, awaits>>
        /\ pc'[Main] = "idle" /\ \A u \in Thread : pc'[u] = pc[u]
        /\ call' = "none" /\ mine' = mine \ {at[Main]}
        /\ \A w \in Worker : initialized'[w] = initialized[w]
    BY <1>1, <1>2, <1>3
       DEF Clear, Goto, TypeOK, AgentTypes, WorkerTypes, pools, kernel
  <1>5. Marked' = Marked
    BY <1>4 DEF Marked, TypeOK, WorkerTypes
  <1>6. Calls'
    BY <1>1, <1>3, <1>4, <1>5 DEF Life, Calls
  <1>7. Blocks'
    BY <1>2, <1>3, <1>4 DEF Life, Blocks, Unused
  <1>8. (\A w \in Marked : Whole(w))'
    BY <1>1, <1>4, <1>5 DEF Life, Whole, Counted
  <1>9. Cores'
    BY <1>1, <1>4, <1>5 DEF Life, Cores, Counted
  <1>10. \A u \in Thread : ThreadFits(u) /\ pc[u] \notin Leaving /\ (pc[u] \in Loop => initialized[at[u]])
    <2> SUFFICES ASSUME NEW u \in Thread PROVE pc[u] \notin Leaving /\ (pc[u] \in Loop => initialized[at[u]])
      BY DEF Life
    <2>1. ThreadFits(u)
      BY DEF Life
    <2>2. QED
      BY <1>1, <2>1 DEF ThreadFits
  <1>11. (\A b \in Agent : Stage(b))'
    BY <1>4, <1>10 DEF Stage
  <1>12. (\A u \in Thread : ThreadFits(u))'
    <2> SUFFICES ASSUME NEW u \in Thread PROVE ThreadFits(u)'
      OBVIOUS
    <2>1. ThreadFits(u) /\ pc'[u] = pc[u] /\ pc[u] \notin Leaving
      BY <1>4, <1>10
    <2>2. pc[u] \in Loop => initialized'[at[u]]
      BY <1>4, <1>10, <2>1 DEF ThreadFits
    <2>3. QED
      BY <1>4, <2>1, <2>2 DEF ThreadFits
  <1>13. Flows'
    BY <1>4 DEF Flows
  <1>14. Waits'
    BY <1>1, <1>4 DEF Life, Waits
  <1>15. QED
    BY <1>6, <1>7, <1>8, <1>9, <1>11, <1>12, <1>13, <1>14 DEF Life

LEMMA ClearThreadLife ==
  ASSUME TypeOK, Life, NEW t \in Thread, Clear(t)
  PROVE  Life'
  <1> USE Agents DEF Loop, Leaving, Building
  <1>1. pc[t] = "clear" /\ pc[t] \in Leaving /\ t # Main
    BY DEF Clear
  <1>2. /\ call = "init" /\ at[t] = at[Main] /\ at[t] \in Worker \ fresh
        /\ ~initialized[at[t]] /\ at[t] \notin Marked
        /\ \A b \in Agent \ {t} : pc[b] \notin Leaving
        /\ pc[Main] = "joining" /\ awaits[Main] = t
    BY <1>1, TakenDown
  <1>3. Unused(at[Main])
    <2>1. Stage(t)
      BY DEF Life
    <2>2. QED
      BY <1>1, <1>2, <2>1 DEF Stage, Unused
  <1>4. /\ UNCHANGED <<up, epolls, count, fresh, core, timerfd, slots, tags, flow,
                       interest, at, awaits, call, mine>>
        /\ pc'[t] = "ended" /\ pc'[Main] = pc[Main]
        /\ \A b \in Agent \ {t} : pc'[b] = pc[b]
        /\ \A w \in Worker : initialized'[w] = initialized[w]
    BY <1>1, <1>2
       DEF Clear, Goto, TypeOK, AgentTypes, WorkerTypes, pools, kernel, program
  <1>5. Marked' = Marked
    BY <1>4 DEF Marked, TypeOK, WorkerTypes
  <1>6. Calls'
    BY <1>2, <1>4, <1>5 DEF Life, Calls
  <1>7. Blocks'
    BY <1>4 DEF Life, Blocks, Unused
  <1>8. (\A w \in Marked : Whole(w))'
    <2> SUFFICES ASSUME NEW w \in Marked PROVE Whole(w)'
      BY <1>5
    <2>1. Whole(w)
      BY DEF Life
    <2>2. flow[w] \in Thread /\ pc[flow[w]] \in Loop => pc'[flow[w]] \in Loop
      BY <1>1, <1>4
    <2>3. QED
      BY <1>4, <2>1, <2>2 DEF Whole, Counted
  <1>9. Cores'
    BY <1>4, <1>5 DEF Life, Cores, Counted
  <1>11. (\A b \in Agent : Stage(b))'
    <2> SUFFICES ASSUME NEW b \in Agent PROVE Stage(b)'
      OBVIOUS
    <2>1. pc'[b] \notin Leaving
      BY <1>2, <1>4
    <2>2. QED
      BY <2>1 DEF Stage
  <1>12. (\A u \in Thread : ThreadFits(u))'
    <2> SUFFICES ASSUME NEW u \in Thread PROVE ThreadFits(u)'
      OBVIOUS
    <2>1. ThreadFits(u)
      BY DEF Life
    <2>2. CASE u = t
      BY <1>4, <2>2 DEF ThreadFits
    <2>3. CASE u # t
      <3>1. pc'[u] = pc[u] /\ pc[u] \notin Leaving
        BY <1>2, <1>4, <2>3
      <3>2. pc[u] \in Loop => initialized'[at[u]] = initialized[at[u]]
        BY <1>4, <2>1 DEF ThreadFits
      <3>3. QED
        BY <1>4, <2>1, <3>1, <3>2 DEF ThreadFits
    <2>4. QED
      BY <2>2, <2>3
  <1>13. Flows'
    BY <1>2, <1>4 DEF Flows
  <1>14. Waits'
    <2>1. Unused(at[Main])'
      BY <1>3, <1>4 DEF Unused
    <2>2. ~initialized'[at[Main]]
      BY <1>2, <1>4
    <2>3. QED
      BY <1>2, <1>4, <2>1, <2>2 DEF Waits
  <1>15. QED
    BY <1>6, <1>7, <1>8, <1>9, <1>11, <1>12, <1>13, <1>14 DEF Life

\* What is around the program does not touch it.
LEMMA FrameLife ==
  ASSUME Life, UNCHANGED <<up, epolls, count, fresh, initialized, core, timerfd, slots,
                           tags,
                           flow, interest, pc, at, awaits, call, mine>>
  PROVE  Life'
  <1>1. Calls' /\ Blocks' /\ Cores'
    BY DEF Life, Calls, Blocks, Unused, Cores, Counted, Marked
  <1>2. (\A w \in Marked : Whole(w))'
    BY DEF Life, Whole, Counted, Marked
  <1>3. (\A a \in Agent : Stage(a))'
    BY DEF Life, Stage
  <1>4. (\A t \in Thread : ThreadFits(t))'
    BY DEF Life, ThreadFits
  <1>5. Flows' /\ Waits'
    BY DEF Life, Flows, Waits, Unused
  <1>6. QED
    BY <1>1, <1>2, <1>3, <1>4, <1>5 DEF Life

LEMMA LifeInit == Init => Life
  <1> SUFFICES ASSUME Init PROVE Life
    OBVIOUS
  <1> USE Agents DEF Init, Loop, Leaving, Building
  <1>1. Marked = {}
    BY DEF Marked
  <1>2. Counted = 0 /\ Cardinality({}) = 0
    BY FS_EmptySet DEF Counted
  <1>3. pc[Main] = "idle" /\ awaits[Main] = None /\ \A t \in Thread : pc[t] = "unborn"
    OBVIOUS
  <1>4. Calls /\ Blocks
    BY <1>1, <1>3 DEF Calls, Blocks
  <1>5. Cores
    BY <1>1, <1>2, <1>3, EpollAssumption DEF Cores
  <1>6. (\A a \in Agent : Stage(a)) /\ (\A t \in Thread : ThreadFits(t))
    BY <1>3 DEF Stage, ThreadFits
  <1>7. Flows /\ Waits
    BY <1>3 DEF Flows, Waits
  <1>8. QED
    BY <1>1, <1>4, <1>5, <1>6, <1>7 DEF Life

LEMMA LifeStep == TypeOK /\ Life /\ [Next]_vars /\ fault' = "none" => Life'
  <1> SUFFICES ASSUME TypeOK, Life, [Next]_vars, fault' = "none"
               PROVE  Life'
    OBVIOUS
  <1>1. CASE UNCHANGED vars
    BY <1>1, FrameLife DEF vars, pools, fields, kernel, program
  <1>2. ASSUME NEW w \in Worker, NEW p \in Tag, Prepare(w, p) PROVE Life'
    BY <1>2, PrepareLife
  <1>3. ASSUME NEW w \in Worker, NEW made, PrepareFails(w, made) PROVE Life'
    <2>1. w \notin fresh
      BY <1>3 DEF PrepareFails
    <2>2. QED
      BY <1>3, <2>1, PrepareFailsLife
  <1>4. ASSUME NEW w \in Worker, CallExit(w) \/ StaticExitWorker(w) \/ TimerExpires(w)
        PROVE  Life'
    <2>1. CASE TimerExpires(w)
      BY <2>1, FrameLife DEF TimerExpires, pools, fields, program
    <2>2. QED
      BY <1>4, <2>1, CallExitLife, StaticExitWorkerLife
  <1>5. CASE StaticInit \/ CallStaticExit \/ StaticExitWild \/ StaticExitEnds
    BY <1>5, StaticInitLife, CallStaticExitLife, StaticExitEndsLife DEF StaticExitWild
  <1>6. ASSUME NEW t \in Thread,
               \/ CreateThread(t) \/ FindsUnset(t) \/ FindsUnsetEarly(t)
               \/ EpollWait(t) \/ HandlerReturns(t) \/ HandlerAccepts(t)
        PROVE  Life'
    BY <1>6, CreateThreadLife, FindsUnsetLife, EpollWaitLife,
         ReturnsLife DEF FindsUnsetEarly
  <1>7. ASSUME NEW t \in Thread, NEW e \in batch[t],
               HandleTimer(t, e) \/ HandleData(t, e) \/ HandleNothing(t, e)
        PROVE  Life'
    BY <1>7, HandleLife
  <1>8. CASE CreateFails \/ TimerCreated \/ TimerFails \/ TimerNotAdded
    BY <1>8, CreateFailsLife, TimerCreatedLife, TimerFailsLife, TimerNotAddedLife
  <1>9. ASSUME NEW p \in Tag, TimerAdded(p) PROVE Life'
    BY <1>9, TimerAddedLife
  <1>10. CASE CountWorker \/ MarkInitialized
    BY <1>10, CountWorkerLife, MarkInitializedLife
  <1>11. ASSUME NEW a \in Agent, Join(a) \/ Joined(a) \/ JoinLost(a) PROVE Life'
    BY <1>11, JoinLife, JoinWaitsLife, JoinedLife DEF JoinLost
  <1>12. ASSUME NEW a \in Agent,
                \/ LiquidateTimer(a) \/ TestSlots(a) \/ FreeSlots(a) \/ TestTags(a)
                \/ FreeTags(a) \/ FreeBlock(a) \/ Uncount(a)
         PROVE  Life'
    BY <1>12, LiquidateTimerLife, TestSlotsLife, FreeSlotsLife, TestTagsLife,
         FreeTagsLife,
       FreeBlockLife, UncountLife
  <1>13. ASSUME NEW a \in Agent, Clear(a) PROVE Life'
    BY <1>13, ClearMainLife, ClearThreadLife, Agents
  <1>14. ASSUME NEW c \in Conn, PeerSends(c) \/ PeerCloses(c) PROVE Life'
    BY <1>14, FrameLife DEF PeerSends, PeerCloses, pools, fields, program
  <1>15. CASE Next
    BY <1>15, <1>2, <1>3, <1>4, <1>5, <1>6, <1>7, <1>8, <1>9, <1>10, <1>11, <1>12,
         <1>13,
       <1>14, Steps
  <1>16. QED
    BY <1>1, <1>15

-----------------------------------------------------------------------------

\* Workers, threads and the calls of the main thread stay in order until the
\* process comes to harm: the inductive invariant behind what follows
\* (epoll.c:336-566).
THEOREM EpollLife == Spec => []LifeInv
  <1>1. Init => LifeInv
    BY TypeInit, LifeInit DEF LifeInv
  <1>2. LifeInv /\ [Next]_vars => LifeInv'
    <2> SUFFICES ASSUME LifeInv, [Next]_vars PROVE LifeInv'
      OBVIOUS
    <2>1. TypeOK'
      BY TypeStep DEF LifeInv
    <2>2. ASSUME fault' = "none" PROVE fault = "none"
      BY <2>2 DEF Next, vars
    <2>3. QED
      BY <2>1, <2>2, LifeStep DEF LifeInv
  <1>3. QED
    BY <1>1, <1>2, PTL DEF Spec

\* Every marked worker is whole, has a core of its own, and is counted; nothing
\* takes it down while it is marked (epoll.c:339-434, 484).
THEOREM EpollWorkersAreWhole == Spec => []WorkersAreWhole
  <1>1. LifeInv => WorkersAreWhole
    <2> SUFFICES ASSUME LifeInv, fault = "none" PROVE WorkersAreWhole
      BY DEF WorkersAreWhole
    <2>1. Life /\ Cores /\ \A w \in Marked : Whole(w)
      BY DEF LifeInv, Life
    <2>2. count \in Int /\ core \in [Worker -> Int] /\ Capable \in Int
      BY EpollAssumption DEF LifeInv, TypeOK, WorkerTypes
    <2>3. count = Cardinality(Marked) + (IF pc[Main] = "mark" THEN 1 ELSE 0)
      BY <2>1, <2>2 DEF Cores, Counted
    <2>4. \A w \in Marked : core[w] < Capable
      BY <2>1, <2>2 DEF Cores, Counted, Whole, Marked
    <2>5. \A v, w \in Marked : core[v] = core[w] => v = w
      BY <2>1 DEF Cores
    <2>6. \A w \in Marked :
            \/ flow[w] = Lost
            \/ flow[w] \in Thread /\ at[flow[w]] = w /\ pc[flow[w]] \in {"test", "event", "handler"}
      BY <2>1 DEF Whole, Loop
    <2>7. QED
      BY <2>1, <2>3, <2>4, <2>5, <2>6 DEF WorkersAreWhole, Whole
  <1>2. QED
    BY <1>1, EpollLife, PTL

\* No agent uses a pool of a worker that is freed, or frees it again, and no thread
\* is left when the pool of workers goes (epoll.c:430-491, 539-566).
THEOREM EpollNoUseAfterFree == Spec => []NoUseAfterFree
  <1>1. LifeInv => NoUseAfterFree
    <2> SUFFICES ASSUME LifeInv, fault = "none" PROVE NoUseAfterFree
      BY DEF NoUseAfterFree
    <2>1. Calls /\ (\A a \in Agent : Stage(a)) /\ \A t \in Thread : ThreadFits(t)
      BY DEF LifeInv, Life
    <2>2. ASSUME NEW a \in Agent
          PROVE  /\ pc[a] = "free slots" => slots[at[a]] # NoPool
                 /\ pc[a] = "free tags" => tags[at[a]] # NoPool
      BY <2>1 DEF Stage
    <2>3. ASSUME NEW a \in Agent, pc[a] \in {"event", "handler"}
          PROVE  slots[at[a]] # NoPool /\ tags[at[a]] # NoPool
      BY <2>1, <2>3, Agents DEF Calls, ThreadFits, Loop
    <2>4. ASSUME ~up, NEW t \in Thread PROVE pc[t] \in {"unborn", "ended"}
      <3>1. pc[Main] = "idle" /\ Marked = {} /\ call = "none" /\ ThreadFits(t)
        BY <2>1, <2>4 DEF Calls
      <3>2. QED
        BY <3>1 DEF ThreadFits, Marked
    <2>5. QED
      BY <2>2, <2>3, <2>4 DEF NoUseAfterFree
  <1>2. QED
    BY <1>1, EpollLife, PTL

\* The thread onion_epoll1_init waits for when it fails is on its way out: it will
\* not go back to its loop, nor wait for another (epoll.c:338-440).
THEOREM EpollInitWaitsForLeaver == Spec => []InitWaitsForLeaver
  <1>1. LifeInv => InitWaitsForLeaver
    <2> SUFFICES ASSUME LifeInv, fault = "none", call = "init", pc[Main] = "joining"
                 PROVE  LET t == awaits[Main]
                        IN  /\ t \in Thread /\ at[t] = at[Main] /\ flow[at[t]] \in {t, None}
                            /\ ~initialized[at[t]] /\ pc[t] \notin {"event", "handler", "joining"}
      BY DEF InitWaitsForLeaver
    <2> DEFINE t == awaits[Main]
    <2>1. Calls /\ Waits
      BY DEF LifeInv, Life
    <2>2. /\ t \in Thread /\ at[t] = at[Main] /\ pc[t] \in Leaving \cup {"test", "ended"}
          /\ pc[t] = "ended" => flow[at[t]] = None
      BY <2>1 DEF Waits, Unused
    <2> HIDE DEF t
    <2>3. ~initialized[at[t]]
      BY <2>1, <2>2 DEF Calls
    <2>4. Stage(t) /\ ThreadFits(t)
      BY <2>2, Agents DEF LifeInv, Life
    <2>5. flow[at[t]] \in {t, None}
      BY <2>2, <2>4 DEF Stage, ThreadFits, Loop
    <2>6. QED
      BY <2>2, <2>3, <2>5 DEF t, Leaving
  <1>2. QED
    BY <1>1, EpollLife, PTL

(***************************************************************************)
(* Connections and tags.                                                   *)
(*                                                                         *)
(* Both properties need what is said above of a block that is not in use:  *)
(* onion_epoll1_init clears neither its slots nor its tags when it fails   *)
(* early.                                                                  *)
(***************************************************************************)

\* A connection with a slot has begun, so a new one has none.
Counts ==
  \A w \in Worker : slots[w] # NoPool =>
    /\ conn_count[w] = Cardinality(slots[w])
    /\ conn_count[w] < ConnMax
    /\ \A c \in slots[w] : input[c] # "unborn"

CountsInv == fault = "none" => Counts

\* No descriptor is named twice, as it is registered with the tag that names it.
Registered(w) ==
  /\ \A p \in Tag : name[w][p] # None =>
       /\ p \in tags[w]
       /\ interest[w][name[w][p]] = p \/ (name[w][p] = "timerfd" /\ ~timerfd[w])
  /\ \A fd \in {"eventfd", "timerfd"} :
       interest[w][fd] # None => name[w][interest[w][fd]] = fd

\* A connection that is named has begun.
Begun(w) == \A p \in Tag : name[w][p] \in Conn => input[name[w][p]] # "unborn"

BeforeTimer == {"create", "timer", "add timer"}

\* The timer is named once it is added; nothing is named without a pool of tags.
Naming ==
  /\ \A w \in Worker : /\ tags[w] = NoPool => name[w] = NoNames
                       /\ tags[w] # NoPool => Registered(w)
                       /\ Begun(w)
  /\ pc[Main] \in BeforeTimer => \A p \in Tag : name[at[Main]][p] # "timerfd"

NamingInv == fault = "none" => Naming

-----------------------------------------------------------------------------
(* What both invariants need of a step.                                      *)

\* A block in which init prepares a worker is not in use.
LEMMA PreparesUnused ==
  ASSUME TypeOK, Life, NEW w \in Worker \ fresh, Prepares(w)
  PROVE  Unused(w)
  <1>1. pc[Main] = "idle" /\ call = "none" /\ w \notin epolls
    BY DEF Prepares, IsFirst, Life, Calls
  <1>2. ~initialized[w]
    BY <1>1 DEF Life, Whole, Marked
  <1>3. QED
    BY <1>1, <1>2 DEF Life, Blocks

\* A connection never becomes unborn.
LEMMA StaysBegun ==
  ASSUME TypeOK, [Next]_vars, NEW c \in Conn, input[c] # "unborn"
  PROVE  input'[c] # "unborn"
  <1> USE DEF TypeOK, PoolTypes
  <1>1. CASE UNCHANGED input
    BY <1>1
  <1>2. ASSUME NEW d \in Conn, PeerSends(d) \/ PeerCloses(d)
        PROVE  input'[c] # "unborn"
    BY <1>2 DEF PeerSends, PeerCloses
  <1>3. ASSUME NEW t \in Thread, HandlerAccepts(t)
        PROVE  input'[c] # "unborn"
    BY <1>3 DEF HandlerAccepts, SlotAdded, SlotRefused
  <1>4. ASSUME NEW t \in Thread, NEW e, HandleData(t, e)
        PROVE  input'[c] # "unborn"
    BY <1>4 DEF HandleData
  <1>5. CASE Next
    <2> USE DEF kernel, fields
    <2>1. ASSUME NEW w \in Worker, NEW p \in Tag, Prepare(w, p) PROVE UNCHANGED input
      BY <2>1 DEF Prepare
    <2>2. ASSUME NEW w \in Worker, NEW made, PrepareFails(w, made) PROVE UNCHANGED input
      BY <2>2 DEF PrepareFails
    <2>3. ASSUME NEW w \in Worker, CallExit(w) \/ StaticExitWorker(w) \/ TimerExpires(w)
          PROVE  UNCHANGED input
      BY <2>3 DEF CallExit, StaticExitWorker, TimerExpires
    <2>4. CASE StaticInit \/ CallStaticExit \/ StaticExitWild \/ StaticExitEnds
      BY <1>1, <2>4 DEF StaticInit, CallStaticExit, StaticExitWild, StaticExitEnds
    <2>5. ASSUME NEW t \in Thread,
                 \/ CreateThread(t) \/ FindsUnset(t) \/ FindsUnsetEarly(t)
                 \/ EpollWait(t) \/ HandlerReturns(t)
          PROVE  UNCHANGED input
      BY <2>5 DEF CreateThread, FindsUnset, FindsUnsetEarly, EpollWait, HandlerReturns
    <2>6. ASSUME NEW t \in Thread, NEW e, HandleTimer(t, e) \/ HandleNothing(t, e)
          PROVE  UNCHANGED input
      BY <2>6 DEF HandleTimer, HandleNothing
    <2>7. CASE CreateFails \/ TimerCreated \/ TimerFails \/ TimerNotAdded
      BY <1>1, <2>7 DEF CreateFails, TimerCreated, TimerFails, TimerNotAdded
    <2>8. ASSUME NEW p \in Tag, TimerAdded(p) PROVE UNCHANGED input
      BY <2>8 DEF TimerAdded
    <2>9. CASE CountWorker \/ MarkInitialized
      BY <1>1, <2>9 DEF CountWorker, MarkInitialized
    <2>10. ASSUME NEW a \in Agent,
                  \/ Join(a) \/ Joined(a) \/ JoinLost(a) \/ LiquidateTimer(a)
                  \/ TestSlots(a) \/ FreeSlots(a) \/ TestTags(a) \/ FreeTags(a)
                  \/ FreeBlock(a) \/ Uncount(a) \/ Clear(a)
           PROVE  UNCHANGED input
      BY <2>10 DEF Join, Joined, JoinLost, LiquidateTimer, TestSlots, FreeSlots, TestTags,
           FreeTags, FreeBlock, Uncount, Clear, Tests
    <2>11. QED
      BY <1>1, <1>2, <1>3, <1>4, <1>5, <2>1, <2>2, <2>3, <2>4, <2>5, <2>6, <2>7, <2>8,
         <2>9, <2>10, Steps
  <1>6. QED
    BY <1>1, <1>5 DEF vars, kernel

\* What is taken down is a worker: an agent in exit is at one.
LEMMA AtWorker ==
  ASSUME TypeOK, NEW a \in Agent, pc[a] \in Leaving \cup Building \cup Loop \cup {"joining"}
  PROVE  at[a] \in Worker
  BY DEF TypeOK, AgentTypes, Leaving, Building, Loop

-----------------------------------------------------------------------------
(* Connections are counted.                                                  *)

\* A step that counts nothing, and frees pools of slots at most.
LEMMA CountsFrame ==
  ASSUME TypeOK, Counts, [Next]_vars, conn_count' = conn_count,
         \A w \in Worker : slots'[w] \in {slots[w], NoPool}
  PROVE  Counts'
  <1> SUFFICES ASSUME NEW w \in Worker, slots'[w] # NoPool
               PROVE  /\ conn_count'[w] = Cardinality(slots'[w])
                      /\ conn_count'[w] < ConnMax
                      /\ \A c \in slots'[w] : input'[c] # "unborn"
    BY DEF Counts
  <1>1. slots'[w] = slots[w] /\ slots[w] \subseteq Conn
    BY DEF TypeOK, PoolTypes
  <1>2. QED
    BY <1>1, StaysBegun DEF Counts

LEMMA PrepareCounts ==
  ASSUME TypeOK, Life, Counts, NEW w \in Worker, NEW p \in Tag, Prepare(w, p)
  PROVE  Counts'
  <1>1. /\ slots' = [slots EXCEPT ![w] = {}]
        /\ conn_count' = [conn_count EXCEPT ![w] = 0] /\ input' = input
    BY DEF Prepare, Prepares
  <1>2. 0 < ConnMax /\ Cardinality({}) = 0
    BY EpollAssumption, FS_EmptySet
  <1>3. QED
    BY <1>1, <1>2 DEF Counts, TypeOK, PoolTypes, WorkerTypes

LEMMA PrepareFailsCounts ==
  ASSUME TypeOK, Life, Counts, NEW w \in Worker, NEW made, PrepareFails(w, made),
         fault' = "none"
  PROVE  Counts'
  <1>1. /\ slots' = [slots EXCEPT ![w] = IF "slots" \in made THEN {} ELSE @]
        /\ conn_count' = [conn_count EXCEPT ![w] = 0] /\ input' = input
        /\ w \in Worker \ fresh
    BY DEF PrepareFails, Prepares
  <1>2. slots[w] = NoPool
    BY <1>1, PreparesUnused DEF PrepareFails, Unused
  <1>3. slots'[w] \in {{}, NoPool} /\ conn_count'[w] = 0
    BY <1>1, <1>2 DEF TypeOK, PoolTypes, WorkerTypes
  <1>4. 0 < ConnMax /\ Cardinality({}) = 0
    BY EpollAssumption, FS_EmptySet
  <1>5. \A v \in Worker \ {w} : slots'[v] = slots[v] /\ conn_count'[v] = conn_count[v]
    BY <1>1 DEF TypeOK, PoolTypes, WorkerTypes
  <1>6. QED
    BY <1>1, <1>3, <1>4, <1>5 DEF Counts

\* The connection has no slot yet.
LEMMA SlotAddedCounts ==
  ASSUME TypeOK, Counts, [Next]_vars, NEW w \in Worker, NEW c \in Unborn,
         slots[w] # NoPool, SlotAdded(w, c)
  PROVE  Counts'
  <1>1. c \in Conn /\ input[c] = "unborn"
    BY DEF Unborn
  <1>2. /\ slots[w] \subseteq Conn /\ c \notin slots[w] /\ IsFiniteSet(slots[w])
        /\ conn_count[w] = Cardinality(slots[w])
    BY <1>1, EpollAssumption, FS_Subset DEF Counts, TypeOK, PoolTypes
  <1>3. Cardinality(slots[w] \cup {c}) = Cardinality(slots[w]) + 1
    BY <1>2, FS_AddElement
  <1>4. /\ slots'[w] = slots[w] \cup {c} /\ conn_count'[w] = conn_count[w] + 1
        /\ conn_count[w] + 1 < ConnMax /\ input'[c] # "unborn"
    BY <1>1 DEF SlotAdded, TypeOK, PoolTypes, WorkerTypes
  <1>5. \A v \in Worker \ {w} : slots'[v] = slots[v] /\ conn_count'[v] = conn_count[v]
    BY DEF SlotAdded, TypeOK, PoolTypes, WorkerTypes
  <1>6. \A v \in Worker : slots[v] # NoPool => \A d \in slots[v] : input'[d] # "unborn"
    BY StaysBegun DEF Counts, TypeOK, PoolTypes
  <1>7. QED
    BY <1>2, <1>3, <1>4, <1>5, <1>6 DEF Counts

LEMMA AcceptsCounts ==
  ASSUME TypeOK, Life, Counts, [Next]_vars, NEW t \in Thread, HandlerAccepts(t)
  PROVE  Counts'
  <1> DEFINE c == CHOOSE c \in Unborn : TRUE
  <1>1. /\ slots[at[t]] # NoPool /\ c \in Unborn /\ pc[t] = "handler"
        /\ SlotAdded(at[t], c) \/ SlotRefused(at[t], c)
    BY DEF HandlerAccepts, Returns
  <1>2. at[t] \in Worker
    BY <1>1, InLoop
  <1> HIDE DEF c
  <1>3. CASE SlotAdded(at[t], c)
    BY <1>1, <1>2, <1>3, SlotAddedCounts
  <1>4. CASE SlotRefused(at[t], c)
    BY <1>4, CountsFrame DEF SlotRefused
  <1>5. QED
    BY <1>1, <1>3, <1>4

LEMMA CountsStep ==
  ASSUME TypeOK, Life, Counts, [Next]_vars, fault' = "none"
  PROVE  Counts'
  <1> DEFINE Frame == conn_count' = conn_count
                      /\ \A w \in Worker : slots'[w] \in {slots[w], NoPool}
  <1> USE DEF fields, pools
  <1>1. CASE UNCHANGED vars
    BY <1>1, CountsFrame DEF vars
  <1>2. ASSUME NEW w \in Worker, NEW p \in Tag, Prepare(w, p) PROVE Counts'
    BY <1>2, PrepareCounts
  <1>3. ASSUME NEW w \in Worker, NEW made, PrepareFails(w, made) PROVE Counts'
    BY <1>3, PrepareFailsCounts
  <1>4. ASSUME NEW t \in Thread, HandlerAccepts(t) PROVE Counts'
    BY <1>4, AcceptsCounts
  <1>5. ASSUME NEW w \in Worker, CallExit(w) \/ StaticExitWorker(w) \/ TimerExpires(w)
        PROVE  Frame
    BY <1>5 DEF CallExit, StaticExitWorker, TimerExpires
  <1>6. CASE StaticInit \/ CallStaticExit \/ StaticExitWild \/ StaticExitEnds
    BY <1>6, CountsFrame DEF StaticInit, CallStaticExit, StaticExitWild, StaticExitEnds
  <1>7. ASSUME NEW t \in Thread,
               \/ CreateThread(t) \/ FindsUnset(t) \/ FindsUnsetEarly(t)
               \/ EpollWait(t) \/ HandlerReturns(t)
        PROVE  Frame
    BY <1>7 DEF CreateThread, FindsUnset, FindsUnsetEarly, EpollWait, HandlerReturns
  <1>8. ASSUME NEW t \in Thread, NEW e \in batch[t],
               HandleTimer(t, e) \/ HandleData(t, e) \/ HandleNothing(t, e)
        PROVE  Frame
    BY <1>8, HandleTypes
  <1>9. CASE CreateFails \/ TimerCreated \/ TimerFails \/ TimerNotAdded
    BY <1>9, CountsFrame DEF CreateFails, TimerCreated, TimerFails, TimerNotAdded
  <1>10. ASSUME NEW p \in Tag, TimerAdded(p) PROVE Frame
    BY <1>10 DEF TimerAdded
  <1>11. CASE CountWorker \/ MarkInitialized
    BY <1>11, CountsFrame DEF CountWorker, MarkInitialized
  <1>12. ASSUME NEW a \in Agent, FreeSlots(a) PROVE Frame
    BY <1>12 DEF FreeSlots, TypeOK, PoolTypes
  <1>13. ASSUME NEW a \in Agent,
                \/ Join(a) \/ Joined(a) \/ JoinLost(a) \/ LiquidateTimer(a)
                \/ TestSlots(a) \/ TestTags(a) \/ FreeTags(a)
                \/ FreeBlock(a) \/ Uncount(a) \/ Clear(a)
         PROVE  Frame
    BY <1>13 DEF Join, Joined, JoinLost, LiquidateTimer, TestSlots, TestTags,
         FreeTags, FreeBlock, Uncount, Clear, Tests
  <1>14. ASSUME NEW c \in Conn, PeerSends(c) \/ PeerCloses(c) PROVE Frame
    BY <1>14 DEF PeerSends, PeerCloses
  <1> HIDE DEF Frame
  <1>15. Frame => Counts'
    BY CountsFrame DEF Frame
  <1>16. CASE Next
    BY <1>2, <1>3, <1>4, <1>5, <1>6, <1>7, <1>8, <1>9, <1>10, <1>11, <1>12, <1>13, <1>14,
       <1>15, <1>16, Steps
  <1>17. QED
    BY <1>1, <1>16

\* conn_count is the number of slots in use, and below conn_max (epoll.c:279-318): it
\* is touched neither where a slot is refused nor where the timer is served.
THEOREM EpollConnectionsCounted == Spec => []ConnectionsCounted
  <1>1. Init => CountsInv
    BY DEF Init, CountsInv, Counts
  <1>2. LifeInv /\ CountsInv /\ [Next]_vars => CountsInv'
    <2> SUFFICES ASSUME LifeInv, CountsInv, [Next]_vars, fault' = "none" PROVE Counts'
      BY DEF CountsInv
    <2>1. fault = "none"
      BY DEF Next, vars
    <2>2. QED
      BY <2>1, CountsStep DEF CountsInv, LifeInv
  <1>3. CountsInv => ConnectionsCounted
    BY DEF CountsInv, Counts, ConnectionsCounted
  <1>4. QED
    BY <1>1, <1>2, <1>3, EpollLife, PTL DEF Spec

-----------------------------------------------------------------------------
(* Tags and the descriptors they name.                                       *)

\* A step of which tags and names know nothing.
LEMMA NamesFrame ==
  ASSUME TypeOK, Naming, [Next]_vars, UNCHANGED <<tags, name>>,
         \A w \in Worker : /\ \A fd \in Fd : \/ interest'[w][fd] = interest[w][fd]
                                             \/ fd = "timerfd" /\ interest'[w][fd] = None
                                                /\ ~timerfd'[w]
                           /\ timerfd'[w] => timerfd[w]
                                \/ \A p \in Tag : name[w][p] # "timerfd",
         pc'[Main] \in BeforeTimer => pc[Main] \in BeforeTimer /\ at'[Main] = at[Main]
  PROVE  Naming'
  <1> USE Agents
  <1>1. ASSUME NEW w \in Worker PROVE Begun(w)'
    <2> SUFFICES ASSUME NEW p \in Tag, name[w][p] \in Conn PROVE input'[name[w][p]] # "unborn"
      BY DEF Begun
    <2>1. input[name[w][p]] # "unborn"
      BY DEF Naming, Begun
    <2>2. QED
      BY <2>1, StaysBegun
  <1>2. ASSUME NEW w \in Worker, tags[w] # NoPool PROVE Registered(w)'
    <2>1. Registered(w)
      BY <1>2 DEF Naming
    <2>2. ASSUME NEW p \in Tag, name[w][p] # None
          PROVE  /\ p \in tags[w]
                 /\ interest'[w][name[w][p]] = p \/ (name[w][p] = "timerfd" /\ ~timerfd'[w])
      <3>1. name[w][p] \in Fd
        BY <2>2 DEF TypeOK, TagTypes
      <3>2. QED
        BY <2>1, <2>2, <3>1 DEF Registered
    <2>3. ASSUME NEW fd \in {"eventfd", "timerfd"}, interest'[w][fd] # None
          PROVE  name[w][interest'[w][fd]] = fd
      BY <2>1, <2>3 DEF Registered
    <2>4. QED
      BY <2>2, <2>3 DEF Registered
  <1>3. pc'[Main] \in BeforeTimer => \A p \in Tag : name[at'[Main]][p] # "timerfd"
    BY DEF Naming
  <1>4. QED
    BY <1>1, <1>2, <1>3 DEF Naming

\* A descriptor that no tag names gets one.
LEMMA AddedNames ==
  ASSUME TypeOK, Naming, NEW w \in Worker, NEW p \in Tag, NEW fd \in Fd, EventAdd(w, p, fd),
         \A q \in Tag : name[w][q] # fd
  PROVE  /\ tags'[w] # NoPool
         /\ timerfd' = timerfd => Registered(w)'
         /\ \A q \in Tag : name'[w][q] \in {fd, name[w][q]}
         /\ \A v \in Worker \ {w} : /\ tags'[v] = tags[v] /\ name'[v] = name[v]
                                    /\ interest'[v] = interest[v]
  <1> USE Agents
  <1>1. /\ tags[w] # NoPool /\ tags[w] \subseteq Tag /\ p \notin tags[w]
        /\ tags'[w] = tags[w] \cup {p}
        /\ name'[w] = [name[w] EXCEPT ![p] = fd]
        /\ interest'[w] = [interest[w] EXCEPT ![fd] = p]
    BY DEF EventAdd, TakeTag, IsFirst, TypeOK, PoolTypes, TagTypes
  <1>2. name[w] \in [Tag -> Fd \cup {None}] /\ interest[w] \in [Fd -> Tag \cup {None}]
    BY DEF TypeOK, TagTypes
  <1>3. Registered(w) /\ name[w][p] = None
    BY <1>1 DEF Naming, Registered
  <1>4. tags'[w] # NoPool
    BY <1>1 DEF NoPool
  <1>5. \A v \in Worker \ {w} : /\ tags'[v] = tags[v] /\ name'[v] = name[v]
                                /\ interest'[v] = interest[v]
    BY DEF EventAdd, TakeTag, TypeOK, PoolTypes, TagTypes
  <1>6. \A q \in Tag \ {p} : name'[w][q] = name[w][q]
    BY <1>1, <1>2
  <1>7. name'[w][p] = fd /\ interest'[w][fd] = p
    BY <1>1, <1>2
  <1>8. \A g \in Fd \ {fd} : interest'[w][g] = interest[w][g]
    BY <1>1, <1>2
  <1>9. ASSUME timerfd' = timerfd PROVE Registered(w)'
    <2>1. ASSUME NEW q \in Tag, name'[w][q] # None
          PROVE  /\ q \in tags'[w]
                 /\ interest'[w][name'[w][q]] = q \/ (name'[w][q] = "timerfd" /\ ~timerfd'[w])
      <3>1. CASE q = p
        BY <1>1, <1>7, <3>1
      <3>2. CASE q # p
        <4>1. name'[w][q] = name[w][q] /\ name[w][q] \in Fd \ {fd}
          BY <1>2, <1>6, <2>1, <3>2
        <4>2. QED
          BY <1>1, <1>3, <1>8, <1>9, <2>1, <4>1 DEF Registered
      <3>3. QED
        BY <3>1, <3>2
    <2>2. ASSUME NEW g \in {"eventfd", "timerfd"}, interest'[w][g] # None
          PROVE  name'[w][interest'[w][g]] = g
      <3>1. CASE g = fd
        BY <1>7, <3>1
      <3>2. CASE g # fd
        <4>1. interest'[w][g] = interest[w][g] /\ interest[w][g] \in Tag
          BY <1>2, <1>8, <2>2, <3>2
        <4>2. name[w][interest[w][g]] = g
          BY <1>3, <2>2, <4>1 DEF Registered
        <4>3. interest[w][g] # p
          BY <1>3, <4>2
        <4>4. QED
          BY <1>6, <4>1, <4>2, <4>3
      <3>3. QED
        BY <3>1, <3>2
    <2>3. QED
      BY <2>1, <2>2 DEF Registered
  <1>10. QED
    BY <1>4, <1>5, <1>6, <1>7, <1>9

\* A tag that is lost was free and names nothing.
LEMMA FailedNames ==
  ASSUME TypeOK, Naming, NEW w \in Worker, EventAddFails(w), timerfd' = timerfd
  PROVE  /\ \A v \in Worker : /\ name'[v] = name[v]
                              /\ tags'[v] = NoPool => tags[v] = NoPool
                              /\ tags'[v] # NoPool => Registered(v)'
  <1> USE Agents
  <1>1. CASE EventAddFindsNoTag(w)
    BY <1>1 DEF EventAddFindsNoTag, Naming, Registered
  <1>2. ASSUME NEW p \in Tag, EventAddLeaksTag(w, p)
        PROVE  \A v \in Worker : /\ name'[v] = name[v]
                                 /\ tags'[v] = NoPool => tags[v] = NoPool
                                 /\ tags'[v] # NoPool => Registered(v)'
    <2>1. /\ tags[w] # NoPool /\ tags[w] \subseteq Tag /\ p \notin tags[w]
          /\ tags' = [tags EXCEPT ![w] = @ \cup {p}]
          /\ name' = [name EXCEPT ![w][p] = None] /\ interest' = interest
      BY <1>2 DEF EventAddLeaksTag, TakeTag, IsFirst, TypeOK, PoolTypes
    <2>2. name \in [Worker -> [Tag -> Fd \cup {None}]] /\ name[w][p] = None
      BY <2>1 DEF TypeOK, TagTypes, Naming, Registered
    <2>3. name' = name
      BY <2>1, <2>2
    <2>4. \A v \in Worker : tags[v] \subseteq tags'[v] /\ (tags'[v] # tags[v] => v = w)
      BY <2>1 DEF TypeOK, PoolTypes
    <2>5. tags'[w] # NoPool
      BY <2>1 DEF NoPool, TypeOK, PoolTypes
    <2>6. \A v \in Worker : tags[v] # NoPool => Registered(v)
      BY DEF Naming
    <2>7. \A v \in Worker : Registered(v) => Registered(v)'
      BY <2>1, <2>3, <2>4 DEF Registered
    <2>8. QED
      BY <2>1, <2>3, <2>4, <2>5, <2>6, <2>7
  <1>3. QED
    BY <1>1, <1>2 DEF EventAddFails

\* Connections that are named stay begun.
LEMMA BegunStays ==
  ASSUME TypeOK, [Next]_vars, NEW w \in Worker, Begun(w), name'[w] = name[w]
  PROVE  Begun(w)'
  BY StaysBegun DEF Begun

\* So do the tags of a worker that no step is about.
LEMMA OthersStay ==
  ASSUME Naming, NEW v \in Worker, tags'[v] = tags[v], name'[v] = name[v],
         interest'[v] = interest[v], timerfd'[v] = timerfd[v]
  PROVE  /\ tags'[v] = NoPool => name'[v] = NoNames
         /\ tags'[v] # NoPool => Registered(v)'
  <1>1. /\ tags[v] = NoPool => name[v] = NoNames
        /\ tags[v] # NoPool => Registered(v)
    BY DEF Naming
  <1>2. Registered(v) => Registered(v)'
    BY DEF Registered
  <1>3. QED
    BY <1>1, <1>2

LEMMA PrepareNames ==
  ASSUME TypeOK, Naming, [Next]_vars, NEW w \in Worker, NEW p \in Tag, Prepare(w, p)
  PROVE  Naming'
  <1> USE Agents
  <1>1. /\ tags'[w] = {p} /\ name'[w] = [NoNames EXCEPT ![p] = "eventfd"]
        /\ interest'[w] = [NoInterest EXCEPT !["eventfd"] = p] /\ timerfd' = timerfd
        /\ at'[Main] = w
    BY DEF Prepare, Prepares, TypeOK, PoolTypes, TagTypes, AgentTypes
  <1>2. \A v \in Worker \ {w} : /\ tags'[v] = tags[v] /\ name'[v] = name[v]
                                /\ interest'[v] = interest[v]
    BY DEF Prepare, TypeOK, PoolTypes, TagTypes
  <1>3. /\ name'[w][p] = "eventfd" /\ \A q \in Tag \ {p} : name'[w][q] = None
        /\ interest'[w]["eventfd"] = p /\ interest'[w]["timerfd"] = None
    BY <1>1 DEF NoNames, NoInterest
  <1>4. tags'[w] # NoPool /\ Registered(w)'
    BY <1>1, <1>3 DEF Registered, NoPool
  <1>5. Begun(w)'
    BY <1>3, EpollAssumption DEF Begun
  <1>6. \A v \in Worker \ {w} : Begun(v)'
    BY <1>2, BegunStays DEF Naming
  <1>7. \A v \in Worker \ {w} : /\ tags'[v] = NoPool => name'[v] = NoNames
                                /\ tags'[v] # NoPool => Registered(v)'
    BY <1>1, <1>2, OthersStay
  <1>8. NoNames' = NoNames
    BY DEF NoNames
  <1>9. \A q \in Tag : name'[at'[Main]][q] # "timerfd"
    BY ZenonT(30), <1>1, <1>3
  <1>10. QED
    BY <1>4, <1>5, <1>6, <1>7, <1>8, <1>9 DEF Naming

LEMMA PrepareFailsNames ==
  ASSUME TypeOK, Life, Naming, [Next]_vars, NEW w \in Worker, NEW made, PrepareFails(w, made),
         fault' = "none"
  PROVE  Naming'
  <1> USE Agents
  <1>1. /\ tags' = [tags EXCEPT ![w] = IF "tags" \in made THEN {} ELSE @]
        /\ interest' = [interest EXCEPT ![w] = NoInterest] /\ UNCHANGED <<name, timerfd>>
        /\ w \in Worker \ fresh /\ pc'[Main] = "join"
    BY DEF PrepareFails, Goto, TypeOK, AgentTypes
  <1>2. tags[w] = NoPool /\ name[w] = NoNames
    BY <1>1, PreparesUnused DEF PrepareFails, Unused, Naming
  <1>3. \A p \in Tag : name'[w][p] = None
    BY <1>1, <1>2 DEF NoNames
  <1>4. interest'[w] = NoInterest
    BY <1>1 DEF TypeOK, TagTypes
  <1>5. Registered(w)' /\ name'[w] = NoNames
    BY <1>1, <1>2, <1>3, <1>4 DEF Registered, NoInterest
  <1>6. \A v \in Worker \ {w} : tags'[v] = tags[v] /\ interest'[v] = interest[v]
    BY <1>1 DEF TypeOK, TagTypes, PoolTypes
  <1>7. \A v \in Worker \ {w} : /\ tags'[v] = NoPool => name'[v] = NoNames
                                /\ tags'[v] # NoPool => Registered(v)'
    BY <1>1, <1>6, OthersStay
  <1>8. \A v \in Worker : Begun(v)'
    BY <1>1, BegunStays DEF Naming
  <1>9. pc'[Main] \notin BeforeTimer
    BY <1>1 DEF BeforeTimer
  <1>10. QED
    BY <1>5, <1>7, <1>8, <1>9 DEF Naming

LEMMA TimerAddedNames ==
  ASSUME TypeOK, Naming, [Next]_vars, NEW p \in Tag, TimerAdded(p)
  PROVE  Naming'
  <1> USE Agents
  <1>1. /\ pc[Main] = "add timer" /\ pc'[Main] = "count" /\ timerfd' = timerfd
        /\ EventAdd(at[Main], p, "timerfd")
    BY DEF TimerAdded, Goto, TypeOK, AgentTypes
  <1>0. PICK w : w = at[Main]
    OBVIOUS
  <1>2. w \in Worker /\ \A q \in Tag : name[w][q] # "timerfd"
    BY <1>0, <1>1 DEF Naming, BeforeTimer, TypeOK, AgentTypes
  <1>3. EventAdd(w, p, "timerfd")
    BY <1>0, <1>1
  <1>4. /\ tags'[w] # NoPool /\ Registered(w)'
        /\ \A q \in Tag : name'[w][q] \in {"timerfd", name[w][q]}
        /\ \A v \in Worker \ {w} : /\ tags'[v] = tags[v] /\ name'[v] = name[v]
                                   /\ interest'[v] = interest[v]
    BY <1>1, <1>2, <1>3, AddedNames
  <1>5. Begun(w)'
    BY <1>2, <1>4, StaysBegun, EpollAssumption DEF Naming, Begun
  <1>6. \A v \in Worker \ {w} : Begun(v)'
    BY <1>4, BegunStays DEF Naming
  <1>7. \A v \in Worker \ {w} : /\ tags'[v] = NoPool => name'[v] = NoNames
                                /\ tags'[v] # NoPool => Registered(v)'
    BY <1>1, <1>4, OthersStay
  <1>8. pc'[Main] \notin BeforeTimer
    BY <1>1 DEF BeforeTimer
  <1>9. QED
    BY <1>4, <1>5, <1>6, <1>7, <1>8 DEF Naming

LEMMA TimerNotAddedNames ==
  ASSUME TypeOK, Naming, [Next]_vars, TimerNotAdded
  PROVE  Naming'
  <1> DEFINE w == at[Main]
  <1>1. /\ w \in Worker /\ pc'[Main] = "join" /\ timerfd' = timerfd /\ EventAddFails(w)
    BY Agents DEF TimerNotAdded, Goto, TypeOK, AgentTypes
  <1> HIDE DEF w
  <1>2. \A v \in Worker : /\ name'[v] = name[v]
                          /\ tags'[v] = NoPool => tags[v] = NoPool
                          /\ tags'[v] # NoPool => Registered(v)'
    BY <1>1, FailedNames
  <1>3. \A v \in Worker : Begun(v)'
    BY <1>2, BegunStays DEF Naming
  <1>4. pc'[Main] \notin BeforeTimer
    BY <1>1 DEF BeforeTimer
  <1>5. QED
    BY <1>2, <1>3, <1>4 DEF Naming

LEMMA AcceptsNames ==
  ASSUME TypeOK, Life, Naming, [Next]_vars, NEW t \in Thread, HandlerAccepts(t)
  PROVE  Naming'
  <1> USE Agents
  <1>0. PICK c, w : c = (CHOOSE d \in Unborn : TRUE) /\ w = at[t]
    OBVIOUS
  <1>1. /\ c \in Conn /\ input[c] = "unborn" /\ pc[t] = "handler"
        /\ SlotAdded(w, c) \/ SlotRefused(w, c)
    BY <1>0 DEF HandlerAccepts, Returns, Unborn
  <1>2. w \in Worker
    BY <1>0, <1>1, InLoop
  <1>3. pc'[Main] = pc[Main] /\ at' = at /\ timerfd' = timerfd
    BY DEF HandlerAccepts, Returns, Goto, TypeOK, AgentTypes
  <1>4. pc'[Main] \in BeforeTimer =>
          at'[Main] \in Worker /\ \A p \in Tag : name[at'[Main]][p] # "timerfd"
    BY <1>3, AtWorker DEF Naming, BeforeTimer, Building
  <1>5. CASE SlotRefused(w, c)
    <2>1. \A v \in Worker : /\ name'[v] = name[v]
                            /\ tags'[v] = NoPool => tags[v] = NoPool
                            /\ tags'[v] # NoPool => Registered(v)'
      BY <1>2, <1>3, <1>5, FailedNames DEF SlotRefused
    <2>2. \A v \in Worker : Begun(v)'
      BY <2>1, BegunStays DEF Naming
    <2>3. QED
      BY <1>4, <2>1, <2>2 DEF Naming
  <1>6. CASE SlotAdded(w, c)
    <2>1. PICK p \in Tag : EventAdd(w, p, c)
      BY <1>6 DEF SlotAdded
    <2>2. \A q \in Tag : name[w][q] # c
      BY <1>1, <1>2 DEF Naming, Begun
    <2>3. /\ tags'[w] # NoPool /\ Registered(w)'
          /\ \A q \in Tag : name'[w][q] \in {c, name[w][q]}
          /\ \A v \in Worker \ {w} : /\ tags'[v] = tags[v] /\ name'[v] = name[v]
                                     /\ interest'[v] = interest[v]
      BY <1>1, <1>2, <1>3, <2>1, <2>2, AddedNames
    <2>4. input'[c] # "unborn"
      BY <1>1, <1>6 DEF SlotAdded, TypeOK, PoolTypes
    <2>5. Begun(w)'
      BY <1>2, <2>3, <2>4, StaysBegun DEF Naming, Begun
    <2>6. \A v \in Worker \ {w} : Begun(v)'
      BY <2>3, BegunStays DEF Naming
    <2>7. \A v \in Worker \ {w} : /\ tags'[v] = NoPool => name'[v] = NoNames
                                  /\ tags'[v] # NoPool => Registered(v)'
      BY <1>3, <2>3, OthersStay
    <2>8. c # "timerfd"
      BY <1>1, EpollAssumption
    <2>9. pc'[Main] \in BeforeTimer => \A q \in Tag : name'[at'[Main]][q] # "timerfd"
      BY <1>4, <2>3, <2>8
    <2>10. QED
      BY <2>3, <2>5, <2>6, <2>7, <2>9 DEF Naming
  <1>7. QED
    BY <1>1, <1>5, <1>6

\* The tag of a connection goes; eventfd and timer are named by others.
LEMMA HandleDataNames ==
  ASSUME TypeOK, Life, Naming, [Next]_vars, NEW t \in Thread, NEW e \in batch[t],
         HandleData(t, e)
  PROVE  Naming'
  <1> USE Agents
  <1>0. PICK w, p : w = at[t] /\ p = e[2]
    OBVIOUS
  <1>1. /\ pc[t] = "event" /\ tags[w] # NoPool /\ p \in Tag /\ name[w][p] \in Conn
        /\ tags' = [tags EXCEPT ![w] = @ \ {p}] /\ name' = [name EXCEPT ![w][p] = None]
        /\ UNCHANGED <<interest, timerfd, at>>
    BY <1>0 DEF HandleData, Takes, EventDel, Named, TypeOK, TagTypes
  <1>2. w \in Worker
    BY <1>0, <1>1, InLoop
  <1>3. pc'[Main] = pc[Main]
    BY DEF HandleData, Takes, Goto, TypeOK, AgentTypes
  <1>4. pc'[Main] \in BeforeTimer =>
          at'[Main] \in Worker /\ \A q \in Tag : name[at'[Main]][q] # "timerfd"
    BY <1>1, <1>3, AtWorker DEF Naming, BeforeTimer, Building
  <1>5. /\ tags[w] \subseteq Tag /\ tags'[w] = tags[w] \ {p}
        /\ name'[w][p] = None /\ \A q \in Tag \ {p} : name'[w][q] = name[w][q]
        /\ \A v \in Worker \ {w} : tags'[v] = tags[v] /\ name'[v] = name[v]
    BY <1>1, <1>2 DEF TypeOK, PoolTypes, TagTypes
  <1>6. Registered(w)
    BY <1>1, <1>2 DEF Naming
  <1>7. tags'[w] # NoPool
    BY <1>5 DEF NoPool
  <1>8. name[w][p] \notin {"eventfd", "timerfd"}
    BY <1>1, EpollAssumption
  <1>9. Registered(w)'
    <2>1. ASSUME NEW q \in Tag, name'[w][q] # None
          PROVE  /\ q \in tags'[w]
                 /\ interest'[w][name'[w][q]] = q \/ (name'[w][q] = "timerfd" /\ ~timerfd'[w])
      BY <1>1, <1>5, <1>6, <2>1 DEF Registered
    <2>2. ASSUME NEW fd \in {"eventfd", "timerfd"}, interest'[w][fd] # None
          PROVE  name'[w][interest'[w][fd]] = fd
      <3>1. interest[w][fd] \in Tag /\ name[w][interest[w][fd]] = fd
        BY <1>1, <1>2, <1>6, <2>2 DEF Registered, TypeOK, TagTypes, Fd
      <3>2. QED
        BY <1>1, <1>5, <1>8, <3>1
    <2>3. QED
      BY <2>1, <2>2 DEF Registered
  <1>10. Begun(w)'
    BY <1>2, <1>5, StaysBegun DEF Naming, Begun
  <1>11. \A v \in Worker \ {w} : Begun(v)'
    BY <1>5, BegunStays DEF Naming
  <1>12. \A v \in Worker \ {w} : /\ tags'[v] = NoPool => name'[v] = NoNames
                                 /\ tags'[v] # NoPool => Registered(v)'
    BY <1>1, <1>5, OthersStay
  <1>13. pc'[Main] \in BeforeTimer => \A q \in Tag : name'[at'[Main]][q] # "timerfd"
    BY <1>2, <1>4, <1>5
  <1>14. QED
    BY <1>7, <1>9, <1>10, <1>11, <1>12, <1>13 DEF Naming

LEMMA FreeTagsNames ==
  ASSUME TypeOK, Naming, [Next]_vars, NEW a \in Agent, FreeTags(a)
  PROVE  Naming'
  <1> USE Agents
  <1>0. PICK w : w = at[a]
    OBVIOUS
  <1>1. /\ pc[a] = "free tags" /\ tags' = [tags EXCEPT ![w] = NoPool]
        /\ name' = [name EXCEPT ![w] = NoNames] /\ UNCHANGED <<interest, timerfd, at>>
        /\ pc' = [pc EXCEPT ![a] = "free block"]
    BY <1>0 DEF FreeTags, kernel, Goto
  <1>2. w \in Worker
    BY <1>0, <1>1, AtWorker DEF Leaving
  <1>3. pc'[Main] \in BeforeTimer =>
          at'[Main] \in Worker /\ \A q \in Tag : name[at'[Main]][q] # "timerfd"
    <2>1. pc'[Main] \in BeforeTimer => pc[Main] \in BeforeTimer
      BY <1>1 DEF BeforeTimer, TypeOK, AgentTypes
    <2>2. QED
      BY <1>1, <2>1, AtWorker DEF Naming, BeforeTimer, Building
  <1>4. /\ tags'[w] = NoPool /\ name'[w] = NoNames
        /\ \A v \in Worker \ {w} : tags'[v] = tags[v] /\ name'[v] = name[v]
    BY <1>1, <1>2 DEF TypeOK, PoolTypes, TagTypes
  <1>5. \A q \in Tag : name'[w][q] = None
    BY <1>4 DEF NoNames
  <1>6. Begun(w)'
    BY <1>5 DEF Begun
  <1>7. \A v \in Worker \ {w} : Begun(v)'
    BY <1>4, BegunStays DEF Naming
  <1>8. \A v \in Worker \ {w} : /\ tags'[v] = NoPool => name'[v] = NoNames
                                /\ tags'[v] # NoPool => Registered(v)'
    BY <1>1, <1>4, OthersStay
  <1>9. pc'[Main] \in BeforeTimer => \A q \in Tag : name'[at'[Main]][q] # "timerfd"
    BY <1>3, <1>4, <1>5
  <1>10. QED
    BY <1>4, <1>6, <1>7, <1>8, <1>9 DEF Naming

\* A step that leaves tags, names and what is registered as they are.
LEMMA NamesStay ==
  ASSUME TypeOK, Naming, [Next]_vars, UNCHANGED <<tags, name, interest, timerfd>>,
         pc'[Main] \in BeforeTimer => pc[Main] \in BeforeTimer /\ at'[Main] = at[Main]
  PROVE  Naming'
  BY NamesFrame

LEMMA LiquidateTimerNames ==
  ASSUME TypeOK, Naming, [Next]_vars, NEW a \in Agent, LiquidateTimer(a)
  PROVE  Naming'
  <1> USE Agents
  <1> DEFINE w == at[a]
  <1>1. /\ pc[a] = "liquidate" /\ timerfd' = [timerfd EXCEPT ![w] = FALSE]
        /\ interest' = [interest EXCEPT ![w]["timerfd"] = None]
        /\ UNCHANGED <<tags, name, at>> /\ pc' = [pc EXCEPT ![a] = "slots"]
    BY DEF LiquidateTimer, Goto
  <1>2. w \in Worker
    BY <1>1, AtWorker DEF Leaving
  <1>3. pc'[Main] \in BeforeTimer => pc[Main] \in BeforeTimer /\ at'[Main] = at[Main]
    BY <1>1 DEF BeforeTimer, TypeOK, AgentTypes
  <1> HIDE DEF w
  <1>4. ASSUME NEW v \in Worker, NEW fd \in Fd
        PROVE  \/ interest'[v][fd] = interest[v][fd]
               \/ fd = "timerfd" /\ interest'[v][fd] = None /\ ~timerfd'[v]
    BY <1>1, <1>2 DEF TypeOK, TagTypes, WorkerTypes
  <1>5. \A v \in Worker : timerfd'[v] => timerfd[v]
    BY <1>1, <1>2 DEF TypeOK, WorkerTypes
  <1>6. QED
    BY <1>1, <1>3, <1>4, <1>5, NamesFrame

\* The descriptor of the timer is there before a tag names it.
LEMMA TimerNames ==
  ASSUME TypeOK, Naming, [Next]_vars, TimerCreated \/ TimerFails
  PROVE  Naming'
  <1> USE Agents
  <1> DEFINE w == at[Main]
  <1>1. /\ pc[Main] = "timer" /\ UNCHANGED <<tags, name, interest, at>>
        /\ \E made \in BOOLEAN : timerfd' = [timerfd EXCEPT ![w] = made]
    BY DEF TimerCreated, TimerFails, kernel
  <1>2. w \in Worker /\ \A p \in Tag : name[w][p] # "timerfd"
    BY <1>1, AtWorker DEF Naming, BeforeTimer, Building
  <1> HIDE DEF w
  <1>3. \A v \in Worker \ {w} : timerfd'[v] = timerfd[v]
    BY <1>1 DEF TypeOK, WorkerTypes
  <1>4. pc[Main] \in BeforeTimer
    BY <1>1 DEF BeforeTimer
  <1>5. QED
    BY <1>1, <1>2, <1>3, <1>4, NamesFrame

LEMMA NamesStep ==
  ASSUME TypeOK, Life, Naming, [Next]_vars, fault' = "none"
  PROVE  Naming'
  <1> USE DEF fields, kernel, pools
  <1> DEFINE Frame == /\ UNCHANGED <<tags, name, interest, timerfd>>
                      /\ pc'[Main] \in BeforeTimer =>
                           pc[Main] \in BeforeTimer /\ at'[Main] = at[Main]
  <1>1. CASE UNCHANGED vars
    BY <1>1, NamesStay DEF vars
  <1>2. ASSUME NEW w \in Worker, NEW p \in Tag, Prepare(w, p) PROVE Naming'
    BY <1>2, PrepareNames
  <1>3. ASSUME NEW w \in Worker, NEW made, PrepareFails(w, made) PROVE Naming'
    BY <1>3, PrepareFailsNames
  <1>4. ASSUME NEW t \in Thread, HandlerAccepts(t) PROVE Naming'
    BY <1>4, AcceptsNames
  <1>5. ASSUME NEW t \in Thread, NEW e \in batch[t], HandleData(t, e) PROVE Naming'
    BY <1>5, HandleDataNames
  <1>6. CASE TimerCreated \/ TimerFails \/ TimerNotAdded
    BY <1>6, TimerNames, TimerNotAddedNames
  <1>7. ASSUME NEW p \in Tag, TimerAdded(p) PROVE Naming'
    BY <1>7, TimerAddedNames
  <1>8. ASSUME NEW a \in Agent, LiquidateTimer(a) \/ FreeTags(a) PROVE Naming'
    BY <1>8, LiquidateTimerNames, FreeTagsNames
  <1>9. ASSUME NEW w \in Worker, CallExit(w) \/ StaticExitWorker(w) \/ TimerExpires(w)
        PROVE  Frame
    BY <1>9, Agents DEF CallExit, StaticExitWorker, TimerExpires, Goto, BeforeTimer,
       TypeOK, AgentTypes
  <1>10. ASSUME StaticInit \/ CallStaticExit \/ StaticExitWild \/ StaticExitEnds PROVE Frame
    BY <1>10, Agents DEF StaticInit, CallStaticExit, StaticExitWild, StaticExitEnds, Goto,
       BeforeTimer, TypeOK, AgentTypes
  <1>11. ASSUME NEW t \in Thread, CreateThread(t) PROVE Frame
    BY <1>11, Agents DEF CreateThread, BeforeTimer, TypeOK, AgentTypes
  <1>12. ASSUME NEW t \in Thread,
                FindsUnset(t) \/ FindsUnsetEarly(t) \/ EpollWait(t) \/ HandlerReturns(t)
         PROVE  Frame
    BY <1>12, Agents DEF FindsUnset, FindsUnsetEarly, EpollWait, HandlerReturns, Returns, Goto,
       TypeOK, AgentTypes
  <1>13. ASSUME NEW t \in Thread, NEW e \in batch[t], HandleTimer(t, e) \/ HandleNothing(t, e)
         PROVE  Frame
    <2>1. UNCHANGED interest
      BY <1>13, HandleTypes
    <2>2. QED
      BY <1>13, <2>1, Agents DEF HandleTimer, HandleNothing, Takes, Goto, TypeOK, AgentTypes
  <1>14. ASSUME CreateFails \/ CountWorker \/ MarkInitialized PROVE Frame
    BY <1>14, Agents DEF CreateFails, CountWorker, MarkInitialized, Goto, BeforeTimer,
       TypeOK, AgentTypes
  <1>15. ASSUME NEW a \in Agent,
                \/ Join(a) \/ Joined(a) \/ JoinLost(a)
                \/ TestSlots(a) \/ FreeSlots(a) \/ TestTags(a)
                \/ FreeBlock(a) \/ Uncount(a) \/ Clear(a)
         PROVE  Frame
    BY ZenonT(30), <1>15, Agents DEF Join, Joined, JoinLost, TestSlots, FreeSlots, TestTags, Tests,
       FreeBlock, Uncount, Clear, Goto, BeforeTimer, TypeOK, AgentTypes
  <1>16. ASSUME NEW c \in Conn, PeerSends(c) \/ PeerCloses(c) PROVE Frame
    BY <1>16 DEF PeerSends, PeerCloses
  <1>17. Frame => Naming'
    BY NamesStay
  <1> HIDE DEF Frame
  <1>18. CASE Next
    BY <1>2, <1>3, <1>4, <1>5, <1>6, <1>7, <1>8, <1>9, <1>10, <1>11, <1>12, <1>13, <1>14,
       <1>15, <1>16, <1>17, <1>18, Steps
  <1>19. QED
    BY <1>1, <1>18

\* No two tags name a descriptor, only tags in use name one, and eventfd and timer keep
\* theirs whatever becomes of the tags of connections (epoll.c:87-93, 262-264).
THEOREM EpollTagsNameDescriptors == Spec => []TagsNameDescriptors
  <1>1. Init => NamingInv
    BY Agents DEF Init, NamingInv, Naming, Begun, NoNames, BeforeTimer
  <1>2. LifeInv /\ NamingInv /\ [Next]_vars => NamingInv'
    <2> SUFFICES ASSUME LifeInv, NamingInv, [Next]_vars, fault' = "none" PROVE Naming'
      BY DEF NamingInv
    <2>1. fault = "none"
      BY DEF Next, vars
    <2>2. QED
      BY <2>1, NamesStep DEF NamingInv, LifeInv
  <1>3. NamingInv => TagsNameDescriptors
    BY DEF NamingInv, Naming, Registered, TagsNameDescriptors
  <1>4. QED
    BY <1>1, <1>2, <1>3, EpollLife, PTL DEF Spec

=============================================================================
