SPECIFICATION Spec
CONSTANTS
  MaxU32 <- MCMaxU32
  Octet <- MCOctet
  Scripts <- MCScripts
  decode <- Decode
CHECK_DEADLOCK FALSE
PROPERTIES
  UnvalidatedIsValid
  DecodedAgainAsDecoded
INVARIANTS
  CodecFits
  ExchangeInv
  DecodedAsMeant
  FragmentsAreLines
  NobodyWaitsForever
