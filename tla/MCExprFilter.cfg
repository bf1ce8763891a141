SPECIFICATION Spec
CONSTANTS
  IntWidth = 4
  QuadWidth = 5
  Family = {"ints", "quads", "doubles"}
  Pool <- MCPool
  Envs <- MCEnvs
  Requests <- MCRequests
  Offsets = {1, 5}
  SmallOffsets = {1}
  PointerBits = 3
  MaxRequests = 2
  MaxLim = 2
INVARIANTS AnswerExact AnswerWellTyped IntervalSound
CHECK_DEADLOCK FALSE
