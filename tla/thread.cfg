SPECIFICATION FairSpec
CONSTANTS
  Thread = {t1, t2}
INVARIANTS
  HolderAtWork
  NoLostFlag
  FlagsMeanWhatTheySay
  MutexFreeWhenDestroyed
  StructOutlivesThread
PROPERTY ExitReturns
