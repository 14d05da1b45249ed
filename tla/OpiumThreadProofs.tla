-------------------------- MODULE OpiumThreadProofs --------------------------
(***************************************************************************)
(* The safety of OpiumThread for any set of threads: no flag is lost, the  *)
(* mutex is free when it is destroyed, and the struct outlives its thread. *)
(***************************************************************************)
EXTENDS OpiumThread, TLAPS

-----------------------------------------------------------------------------
(* The invariant, struct by struct: the properties, what a loaded word is    *)
(* worth until it is stored, and which structs a call can be about.          *)

\* The two sides' copies of the word are up to date when they are stored.
FreshCopies(t) ==
  /\ subject = t /\ at = "store" => loaded = flags[t]
  /\ run[t] = "store" => reg[t] = flags[t]

\* A struct that is not up has no thread, and a mutex only within init.
Lifecycle(t) ==
  IF t \in up
    THEN /\ run[t] # "none" /\ mtx[t] # "none" /\ t \in filled
         /\ subject = t => at # "create"
         /\ subject = t /\ at = "destroy" => run[t] = "returned"
    ELSE /\ run[t] = "none"
         /\ subject = t => at \in {"idle", "create"}
         /\ IF subject = t /\ at = "create"
              THEN mtx[t] = "free" /\ t \in filled /\ flags[t] = {}
              ELSE mtx[t] = "none"

IInv ==
  /\ TypeOK /\ HolderAtWork /\ NoLostFlag /\ FlagsMeanWhatTheySay
  /\ \A t \in Thread : FreshCopies(t) /\ Lifecycle(t)

LEMMA InitHasInv == Init => IInv
BY DEF Init, IInv, TypeOK, Flag, HolderAtWork, NoLostFlag, FlagsMeanWhatTheySay,
       FreshCopies, Lifecycle

LEMMA NextKeepsInv ==
  ASSUME IInv, NEW t \in Thread, Call(t) \/ Runs(t) \/ Chosen(t)
  PROVE  IInv'
<1> USE DEF IInv, TypeOK, Flag, HolderAtWork, NoLostFlag, FlagsMeanWhatTheySay,
            FreshCopies, Lifecycle
<1>1. CASE InitFields(t)
  BY <1>1 DEF InitFields
<1>2. CASE Create(t)
  BY <1>2 DEF Create
<1>3. CASE CreateFails(t)
  BY <1>3 DEF CreateFails
<1>4. CASE Exit(t)
  BY <1>4 DEF Exit
<1>5. CASE ExitLock(t)
  BY <1>5 DEF ExitLock, Lock, CanLock
<1>6. CASE ExitLoad(t)
  BY <1>6 DEF ExitLoad
<1>7. CASE ExitStore(t)
  BY <1>7 DEF ExitStore
<1>8. CASE ExitUnlock(t)
  BY <1>8 DEF ExitUnlock, Unlock
<1>9. CASE Join(t)
  BY <1>9 DEF Join
<1>10. CASE Destroy(t)
  BY <1>10 DEF Destroy
<1>11. CASE Wrapper(t)
  BY <1>11 DEF Wrapper
<1>12. CASE FuncLock(t)
  BY <1>12 DEF FuncLock, Lock, CanLock
<1>13. CASE FuncUnlock(t)
  BY <1>13 DEF FuncUnlock, Unlock
<1>14. CASE FuncReturns(t)
  BY <1>14 DEF FuncReturns
<1>15. CASE DoneLock(t)
  BY <1>15 DEF DoneLock, Lock, CanLock
<1>16. CASE DoneLoad(t)
  BY <1>16 DEF DoneLoad
<1>17. CASE DoneStore(t)
  BY <1>17 DEF DoneStore
<1>18. CASE DoneUnlock(t)
  BY <1>18 DEF DoneUnlock, Unlock
<1> QED
  BY <1>1, <1>2, <1>3, <1>4, <1>5, <1>6, <1>7, <1>8, <1>9, <1>10, <1>11, <1>12, <1>13,
     <1>14, <1>15, <1>16, <1>17, <1>18 DEF Call, Runs, Chosen

LEMMA ThreadInvariant == Spec => []IInv
<1>1. IInv /\ [Next]_vars => IInv'
  <2>1. ASSUME IInv, UNCHANGED vars  PROVE IInv'
    BY <2>1 DEF vars, IInv, TypeOK, HolderAtWork, NoLostFlag, FlagsMeanWhatTheySay,
                FreshCopies, Lifecycle
  <2> QED  BY <2>1, NextKeepsInv DEF Next
<1> QED  BY <1>1, InitHasInv, PTL DEF Spec

-----------------------------------------------------------------------------
(* The theorems.                                                             *)

\* TypeOK: the variables have their types.
THEOREM ThreadTypeOK == Spec => []TypeOK
<1>1. IInv => TypeOK
  BY DEF IInv
<1> QED  BY <1>1, ThreadInvariant, PTL

\* HolderAtWork: the program and a thread are never both between the lock and
\* the unlock of the same struct.
THEOREM ThreadHolderAtWork == Spec => []HolderAtWork
<1>1. IInv => HolderAtWork
  BY DEF IInv
<1> QED  BY <1>1, ThreadInvariant, PTL

\* NoLostFlag: neither of the stores of stop and done undoes the other.
THEOREM ThreadNoLostFlag == Spec => []NoLostFlag
<1>1. IInv => NoLostFlag
  BY DEF IInv
<1> QED  BY <1>1, ThreadInvariant, PTL

\* FlagsMeanWhatTheySay: a flag of an earlier use of the struct is never seen.
THEOREM ThreadFlagsMeanWhatTheySay == Spec => []FlagsMeanWhatTheySay
<1>1. IInv => FlagsMeanWhatTheySay
  BY DEF IInv
<1> QED  BY <1>1, ThreadInvariant, PTL

\* MutexFreeWhenDestroyed: opium_thread_exit never meets EBUSY.
THEOREM ThreadMutexFreeWhenDestroyed == Spec => []MutexFreeWhenDestroyed
<1>1. IInv => MutexFreeWhenDestroyed
  <2> SUFFICES ASSUME IInv, at = "destroy"  PROVE mtx[subject] = "free"
    BY DEF MutexFreeWhenDestroyed
  <2>1. subject \in Thread /\ mtx[subject] \in {"none", "free", "program", "thread"}
    BY DEF IInv, TypeOK
  <2>2. subject \in up /\ run[subject] = "returned" /\ mtx[subject] # "none"
    BY <2>1 DEF IInv, Lifecycle
  <2>3. mtx[subject] # "program" /\ mtx[subject] # "thread"
    BY <2>2 DEF IInv, HolderAtWork
  <2> QED  BY <2>1, <2>2, <2>3
<1> QED  BY <1>1, ThreadInvariant, PTL

\* StructOutlivesThread: opium_thread_exit clears the struct only when its
\* thread has made its last step.
THEOREM ThreadStructOutlivesThread == Spec => []StructOutlivesThread
<1>1. IInv => StructOutlivesThread
  BY DEF IInv, Lifecycle, StructOutlivesThread
<1> QED  BY <1>1, ThreadInvariant, PTL

=============================================================================
