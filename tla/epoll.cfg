SPECIFICATION Spec
CONSTANTS
  Worker = {0, 1}
  Capable = 2
  Thread = {1, 2}
  Conn = {c1, c2}
  ConnMax = 3
  Tag = {0, 1, 2}
  None = None
  Lost = Lost
INVARIANTS
  WorkersAreWhole
  ConnectionsCounted
  TagsNameDescriptors
  NoUseAfterFree
  InitWaitsForLeaver
PROPERTIES
  TimerIsServed
\* A process that came to harm has stopped.
CHECK_DEADLOCK FALSE
