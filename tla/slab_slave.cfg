SPECIFICATION HistorySpec
CONSTANTS
  Chunk = {c1, c2}
  PagesPerChunk = 2
  ItemCount = 2
  MaskBits = 3
  SlotFound <- SamePointer
  FromMmap = TRUE
  MaxLive = 6
INVARIANT HeldIsMapped
CHECK_DEADLOCK FALSE
