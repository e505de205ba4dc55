SPECIFICATION Spec
CONSTANTS
  MaxU32 = 5
  Values = {}
  Types = {"NonZero"}
  Largests = {}
  MaxSequences = 0
INVARIANTS
  ConversionKeepsRange
