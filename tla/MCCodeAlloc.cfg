SPECIFICATION Spec
CONSTANTS
  Client = {c1, c2}
  ChunkBase <- OneChunk
  BytesPerAlloc = 24
  BytesPerPage = 4
  SizeofMinBlock = 2
  MinAllocSize = 3
  PtrSize = 2
  ByteLimits <- ConstPoolLimits
  HoleShapes <- LeftAndMiddle
  NULL = NULL
INVARIANTS TypeOK WellFormed ChunksAccounted AvailRight HoldingsSound NoBlockLost RangesUsable
PROPERTIES RemainderKept
