SPECIFICATION NamesSpec
CONSTANTS
  Sent <- MCMechanisms
  Heard <- MCMechanismsHeard
CHECK_DEADLOCK FALSE
INVARIANTS
  OtherIsUnknown
