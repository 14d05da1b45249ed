SPECIFICATION HistorySpec
CONSTANTS
  Chunk = {c1, c2, c3}
  PagesPerChunk = 1
  ItemCount = 3
  MaskBits = 5
  SlotFound <- SamePointer
  FromMmap = TRUE
  MaxLive = 8
INVARIANTS
  MaskShowsHeld
  ListsSortByFill
  HeldIsMapped
  NoMemoryFault
  TraverseReachesHeld
  ExitReturnsAll
PROPERTY Implements
\* A process that wrote through MAP_FAILED has crashed.
CHECK_DEADLOCK FALSE
