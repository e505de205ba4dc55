SPECIFICATION Spec
CONSTANTS
  MaxU32 <- MCMaxU32
  Limits <- MCLimits
  Chunks <- MCChunks
  MaxBytes = 3
INVARIANTS
  PoisonGuarantee
