SPECIFICATION HistorySpec
CONSTANTS
  Chunk = {c1, c2}
  PagesPerChunk = 1
  ItemCount = 3
  MaskBits = 5
  SlotFound <- ArenaPointer
  FromMmap = TRUE
  MaxLive = 6
INVARIANT NoMemoryFault
CHECK_DEADLOCK FALSE
