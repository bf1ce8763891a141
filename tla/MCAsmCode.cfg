SPECIFICATION AsmSpec
CONSTANTS
  Client = {f1, f2}
  ChunkBase <- TwoChunks
  BytesPerAlloc = 12
  BytesPerPage = 4
  SizeofMinBlock = 1
  MinAllocSize = 2
  PtrSize = 1
  ByteLimits <- NoLimit
  HoleShapes <- LeftOnly
  NULL = NULL
  JumpSize = 1
  MaxReleases = 1
INVARIANTS ReservationFits EmitsToWritable FinishedExecutable NothingLeaked StreamsApart AvailRight HoldingsSound
PROPERTIES WritesOnlyWritable FinishedUntouched
CHECK_DEADLOCK FALSE
