----------------------------- MODULE OpiumThread -----------------------------
(***************************************************************************)
(* The thread objects of project/core (opium_thread.c, opium_mutex.c): a   *)
(* program that creates threads with opium_thread_init and ends them with  *)
(* opium_thread_exit, one call at a time, and the threads themselves.      *)
(*                                                                         *)
(* start, stop and done are bits of one word of the struct, so an          *)
(* assignment to one of them is a load of the word and a store.            *)
(***************************************************************************)
EXTENDS FiniteSets

CONSTANTS Thread   \* the opium_thread_t structs of the program

VARIABLES
  at,        \* the statement the program is at: "idle" between two calls
  subject,   \* the struct the call is about
  loaded,    \* the word the program has loaded
  up,        \* the structs that were initialised, and not exited since
  filled,    \* those whose func, ctx and log are set
  func,      \* those whose func is not NULL
  mtx,       \* "none", "free", or who holds the mutex: "program", "thread"
  flags,     \* the bits that are 1
  run,       \* the statement each thread is at
  reg        \* the word each thread has loaded

vars == <<at, subject, loaded, up, filled, func, mtx, flags, run, reg>>

Flag == {"start", "stop", "done"}

-----------------------------------------------------------------------------
(* The mutex, of type PTHREAD_MUTEX_ERRORCHECK.                              *)

\* Mutants: a mutex that lets everybody in; one that is not of this type, which
\* a thread that has it waits for.
CanLockAlways(t, who) == TRUE
CanLockPlain(t, who)  == mtx[t] \in {"free", "none"}

\* pthread_mutex_lock returns: with the mutex, or with EDEADLK when the caller
\* has it, or with EINVAL when it was destroyed.  opium_thread.c ignores which.
CanLock(t, who) == mtx[t] \in {"free", who, "none"}

Lock(t, who) ==
  /\ CanLock(t, who)
  /\ mtx' = [mtx EXCEPT ![t] = IF @ = "free" THEN who ELSE @]

\* Mutant: the mutex is kept.
UnlockNot(t, who) == mtx' = mtx

\* EPERM and EINVAL change nothing.
Unlock(t, who) == mtx' = [mtx EXCEPT ![t] = IF @ = who THEN "free" ELSE @]

-----------------------------------------------------------------------------
(* opium_thread_init.                                                        *)

\* The fields are set and opium_thread_mutex_init is called, which can fail.
InitFields(t) ==
  /\ at = "idle" /\ t \notin up
  /\ filled' = filled \cup {t}
  /\ func' \in {func \cup {t}, func \ {t}}
  /\ flags' = [flags EXCEPT ![t] = {}]
  /\ \/ mtx' = [mtx EXCEPT ![t] = "free"] /\ at' = "create" /\ subject' = t
     \/ UNCHANGED <<mtx, at, subject>>
  /\ UNCHANGED <<loaded, up, run, reg>>

Create(t) ==
  /\ at = "create" /\ t = subject
  /\ run' = [run EXCEPT ![t] = "wrapper"]
  /\ up' = up \cup {t}
  /\ at' = "idle"
  /\ UNCHANGED <<subject, loaded, filled, func, mtx, flags, reg>>

CreateFails(t) ==
  /\ at = "create" /\ t = subject
  /\ mtx' = [mtx EXCEPT ![t] = "none"]
  /\ at' = "idle"
  /\ UNCHANGED <<subject, loaded, up, filled, func, flags, run, reg>>

-----------------------------------------------------------------------------
(* opium_thread_exit, of a struct that was initialised.                      *)

Exit(t) ==
  /\ at = "idle" /\ t \in up
  /\ at' = "lock" /\ subject' = t
  /\ UNCHANGED <<loaded, up, filled, func, mtx, flags, run, reg>>

ExitLock(t) ==
  /\ at = "lock" /\ t = subject
  /\ Lock(t, "program")
  /\ at' = "load"
  /\ UNCHANGED <<subject, loaded, up, filled, func, flags, run, reg>>

\* thread->stop = 1
ExitLoad(t) ==
  /\ at = "load" /\ t = subject
  /\ loaded' = flags[t]
  /\ at' = "store"
  /\ UNCHANGED <<subject, up, filled, func, mtx, flags, run, reg>>

ExitStore(t) ==
  /\ at = "store" /\ t = subject
  /\ flags' = [flags EXCEPT ![t] = loaded \cup {"stop"}]
  /\ at' = "unlock"
  /\ UNCHANGED <<subject, loaded, up, filled, func, mtx, run, reg>>

ExitUnlock(t) ==
  /\ at = "unlock" /\ t = subject
  /\ Unlock(t, "program")
  /\ at' = "join"
  /\ UNCHANGED <<subject, loaded, up, filled, func, flags, run, reg>>

\* Mutant: the thread is not waited for.
JoinNot(t) ==
  /\ at = "join" /\ t = subject
  /\ at' = "destroy"
  /\ UNCHANGED <<subject, loaded, up, filled, func, mtx, flags, run, reg>>

Join(t) ==
  /\ at = "join" /\ t = subject
  /\ run[t] = "returned"
  /\ at' = "destroy"
  /\ UNCHANGED <<subject, loaded, up, filled, func, mtx, flags, run, reg>>

\* opium_thread_mutex_exit: EBUSY when the mutex is held, and then the call
\* returns with the fields as they are; else they are cleared.
Destroy(t) ==
  /\ at = "destroy" /\ t = subject
  /\ at' = "idle"
  /\ up' = up \ {t}
  /\ run' = [run EXCEPT ![t] = IF @ = "returned" THEN "none" ELSE @]
  /\ IF mtx[t] = "free"
       THEN /\ mtx' = [mtx EXCEPT ![t] = "none"]
            /\ flags' = [flags EXCEPT ![t] = {}]
            /\ filled' = filled \ {t} /\ func' = func \ {t}
       ELSE UNCHANGED <<mtx, flags, filled, func>>
  /\ UNCHANGED <<subject, loaded, reg>>

-----------------------------------------------------------------------------
(* A thread: opium_thread_wrapper.  func is the caller's: it may use the      *)
(* mutex of its thread, and may return with the mutex still locked.          *)

Wrapper(t) ==
  /\ run[t] = "wrapper"
  /\ run' = [run EXCEPT ![t] = IF t \in func THEN "func" ELSE "lock"]
  /\ UNCHANGED <<at, subject, loaded, up, filled, func, mtx, flags, reg>>

FuncLock(t) ==
  /\ run[t] = "func"
  /\ Lock(t, "thread")
  /\ UNCHANGED <<at, subject, loaded, up, filled, func, flags, run, reg>>

FuncUnlock(t) ==
  /\ run[t] = "func" /\ mtx[t] = "thread"
  /\ Unlock(t, "thread")
  /\ UNCHANGED <<at, subject, loaded, up, filled, func, flags, run, reg>>

FuncReturns(t) ==
  /\ run[t] = "func"
  /\ run' = [run EXCEPT ![t] = "lock"]
  /\ UNCHANGED <<at, subject, loaded, up, filled, func, mtx, flags, reg>>

DoneLock(t) ==
  /\ run[t] = "lock"
  /\ Lock(t, "thread")
  /\ run' = [run EXCEPT ![t] = "load"]
  /\ UNCHANGED <<at, subject, loaded, up, filled, func, flags, reg>>

\* thread->done = 1
DoneLoad(t) ==
  /\ run[t] = "load"
  /\ reg' = [reg EXCEPT ![t] = flags[t]]
  /\ run' = [run EXCEPT ![t] = "store"]
  /\ UNCHANGED <<at, subject, loaded, up, filled, func, mtx, flags>>

DoneStore(t) ==
  /\ run[t] = "store"
  /\ flags' = [flags EXCEPT ![t] = reg[t] \cup {"done"}]
  /\ run' = [run EXCEPT ![t] = "unlock"]
  /\ UNCHANGED <<at, subject, loaded, up, filled, func, mtx, reg>>

DoneUnlock(t) ==
  /\ run[t] = "unlock"
  /\ Unlock(t, "thread")
  /\ run' = [run EXCEPT ![t] = "returned"]
  /\ UNCHANGED <<at, subject, loaded, up, filled, func, flags, reg>>

-----------------------------------------------------------------------------

\* The statements of a call that has begun, those of a thread, and what the
\* program and the function of the thread choose to do.
Call(t) ==
  \/ Create(t) \/ CreateFails(t)
  \/ ExitLock(t) \/ ExitLoad(t) \/ ExitStore(t) \/ ExitUnlock(t) \/ Join(t) \/ Destroy(t)

Runs(t) ==
  \/ Wrapper(t) \/ DoneLock(t) \/ DoneLoad(t) \/ DoneStore(t) \/ DoneUnlock(t)

Chosen(t) ==
  \/ InitFields(t) \/ Exit(t) \/ FuncLock(t) \/ FuncUnlock(t) \/ FuncReturns(t)

Init ==
  /\ at = "idle" /\ subject \in Thread /\ loaded = {}
  /\ up = {} /\ filled = {} /\ func = {}
  /\ mtx = [t \in Thread |-> "none"]
  /\ flags = [t \in Thread |-> {}]
  /\ run = [t \in Thread |-> "none"]
  /\ reg = [t \in Thread |-> {}]

Next == \E t \in Thread : Call(t) \/ Runs(t) \/ Chosen(t)

Spec == Init /\ [][Next]_vars

\* The scheduler runs every thread, a mutex that is free again and again is
\* given to each that waits for it, and a function returns once it is told to
\* stop and does not keep the mutex for ever before that.
Fairness ==
  \A t \in Thread :
    /\ WF_vars(Call(t)) /\ SF_vars(ExitLock(t))
    /\ WF_vars(Runs(t)) /\ SF_vars(DoneLock(t))
    /\ WF_vars(FuncUnlock(t))
    /\ WF_vars("stop" \in flags[t] /\ FuncReturns(t))

FairSpec == Spec /\ Fairness

-----------------------------------------------------------------------------
(* Properties.                                                               *)

\* The variables have their types.
TypeOK ==
  /\ at \in {"idle", "create", "lock", "load", "store", "unlock", "join", "destroy"}
  /\ subject \in Thread
  /\ loaded \subseteq Flag
  /\ up \subseteq Thread /\ filled \subseteq Thread /\ func \subseteq Thread
  /\ mtx \in [Thread -> {"none", "free", "program", "thread"}]
  /\ flags \in [Thread -> SUBSET Flag]
  /\ run \in [Thread -> {"none", "wrapper", "func", "lock", "load", "store",
                         "unlock", "returned"}]
  /\ reg \in [Thread -> SUBSET Flag]

\* The mutex is held by whoever is between its lock and its unlock of a flag,
\* and by nobody else but a function that took it and has yet to unlock it.
HolderAtWork ==
  \A t \in up :
    /\ mtx[t] = "program" <=> subject = t /\ at \in {"load", "store", "unlock"}
    /\ run[t] \in {"load", "store", "unlock"} => mtx[t] = "thread"
    /\ mtx[t] = "thread" => run[t] \in {"func", "lock", "load", "store", "unlock"}

\* No flag is lost: stop stays set from the store in exit, and done from the
\* store in the wrapper, until exit clears the struct, whatever the two sides
\* load and store in between.
NoLostFlag ==
  \A t \in up :
    /\ at \in {"unlock", "join", "destroy"} /\ subject = t => "stop" \in flags[t]
    /\ run[t] \in {"unlock", "returned"} => "done" \in flags[t]

\* done says that the function has returned, and stop that exit was called.
FlagsMeanWhatTheySay ==
  \A t \in up :
    /\ "done" \in flags[t] => run[t] \in {"unlock", "returned"}
    /\ "stop" \in flags[t] => subject = t /\ at \in {"unlock", "join", "destroy"}

\* "The mutex must not be locked by any thread when destroyed"
\* (opium_mutex.c:62): no EBUSY in exit, also when a function returns with
\* its mutex locked.
MutexFreeWhenDestroyed == at = "destroy" => mtx[subject] = "free"

\* The struct outlives its thread: no thread reads func, locks the mutex or
\* stores a flag after exit has destroyed and cleared them.
StructOutlivesThread ==
  \A t \in Thread :
    run[t] \notin {"none", "returned"} => t \in up /\ t \in filled /\ mtx[t] # "none"

\* A call of opium_thread_exit returns.
ExitReturns == at = "lock" ~> at = "idle"

=============================================================================
