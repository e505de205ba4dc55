SPECIFICATION Spec
CONSTANTS
  MaxU32 <- MCMaxU32
  Octet <- MCOctet
  Scripts <- MCScripts
  encode <- FragmentsOf
  decode <- Decode
CHECK_DEADLOCK FALSE
INVARIANTS
  CodecFits
  ResponseInv
  ReadAsMeant
  ClientIsNeverStuck
PROPERTIES
  DecoderNeverPanics
  ReadAgainAsRead
