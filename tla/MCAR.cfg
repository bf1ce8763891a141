SPECIFICATION ARSpec
CONSTANTS
  NumIns = 3
  NJ_MAX_STACK_ENTRY = 12
  Kind <- Kinds
  BAD_ENTRY = BAD_ENTRY
  MaxFragments = 1
  NULL = NULL
INVARIANTS ARTypeOK EntriesMatch SlotsAligned EverythingFreed
PROPERTIES FrameSpec
CHECK_DEADLOCK FALSE
