SPECIFICATION Spec
CONSTANTS
  MaxU32 <- MCMaxU32
  Octet <- MCOctet
  Scripts <- MCForwarded
  encode <- FragmentsOf
  decode <- Decode
CHECK_DEADLOCK FALSE
PROPERTIES
  NestingIsLimited
