SPECIFICATION Spec
CONSTANTS
  MaxU32 <- MCMaxU32
  Limits <- MCLimits
  Chunks <- MCChunks
  MaxBytes = 7
ACTION_CONSTRAINT OneKindOfChunks
INVARIANTS
  TypeOK
  BufferHoldsMessage
  FragmentsTileMessage
  FragmentBytesAreItsText
  LinesSayWhatTheyAnnounce
  LiteralsAsAnnounced
PROPERTIES
  RefusalIsFinal
  NoneMeansMoreBytesNeeded
  TagIsStable
