SPECIFICATION Spec
CONSTANTS
  Size = 7
  Header = 2
  r0 = r0
  r1 = r1
  r3 = r3
  Record = {r0, r1, r3}
  Length <- MCLength
INVARIANTS
  FramesInOrder
PROPERTY ExtractsOldest
\* A process whose memcpy left the ring has crashed.
CHECK_DEADLOCK FALSE
