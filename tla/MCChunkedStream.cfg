SPECIFICATION StreamSpec
CONSTANTS
  MaxU32 <- MCMaxU32
  Limits <- MCLimits
  Chunks = {}
  MaxBytes = 0
  Streams <- MCStreams
INVARIANTS
  StreamInv
PROPERTIES
  FragmentsDependOnBytesOnly
