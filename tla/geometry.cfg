SPECIFICATION Spec
CONSTANTS
  ItemSizes <- MCItemSizes
  PowersOfTwo <- MCPowersOfTwo
  Requests <- MCRequests
INVARIANTS
  SlotsFitPage
  MaskHasSpareBit
  ChunkIsWholePages
  FreeFindsSlot
  RequestFitsSlot
