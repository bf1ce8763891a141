SPECIFICATION Spec
CONSTANTS
  Places = {0, 10, 20}
  MinChunkWords = 3
  ChunkWords = 8
  Vocabulary <- MCVocabulary
  MaxLog = 5
  WordBits = 1
  InitialCap = 1
INVARIANTS NothingOverwritten ReaderOnInstruction ExitsSeeTheirStack
PROPERTIES LogSpec ReaderArrives
CHECK_DEADLOCK FALSE
