SPECIFICATION Spec
CONSTANTS
  MaxU32 = 5
  Values = {1, 4}
  Types = {}
  Largests = {}
  MaxSequences = 1
PROPERTIES
  NormalizeKeepsMessages
