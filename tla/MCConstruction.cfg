SPECIFICATION Spec
CONSTANTS
  MaxU32 = 10
  Strings <- MCStrings
  TextInputs <- MCTextInputs
  Chars <- MCChars
  Lengths <- MCLengths
CHECK_DEADLOCK FALSE
INVARIANTS
  SimplestFormIsBuilt
