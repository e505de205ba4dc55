SPECIFICATION SessionSpec
CONSTANTS
  MaxU32 <- MCMaxU32
  Limits <- MCSessionLimits
  Chunks = {}
  MaxBytes = 0
  Commands <- MCCommands
  DataLine <- MCDataLine
  DoneLine <- MCDoneLine
  AcceptLimit = 5
  MaxMessages = 2
CHECK_DEADLOCK FALSE
INVARIANTS
  SessionInv
  AgreeOnMessages
  DecodedAsSent
PROPERTIES
  CommandsFinish
  MessagesAreServed
