SPECIFICATION Spec
CONSTANTS
  IntWidth = 4
  QuadWidth = 5
  Family = {"ints"}
  Pool <- MCPool
  Envs <- MCEnvs
  Requests <- MCRequests
  Offsets = {1, 5}
  SmallOffsets = {1}
  PointerBits = 3
  MaxRequests = 1
  MaxLim = 2
INVARIANT IntervalHolds
CHECK_DEADLOCK FALSE
