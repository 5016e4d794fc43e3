\* One group with two references of equal page size.
CONSTANTS
  Refs <- TwoRefs
  BlocksPerChunk = 2
  Align = 3
  Depth = 1
  NumChunks = 1
  NumPages = 2
  Tables <- TwoTables
  Junk = Junk
  None = None
SPECIFICATION Spec
INVARIANT ChunkHoldsBlocks
