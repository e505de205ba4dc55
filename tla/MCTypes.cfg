SPECIFICATION TypesSpec
CONSTANTS
  MaxU32 = 10
  Values = {1, 2, 3, 5}
  Types = {"Int"}
  Largests = {3, 10}
  MaxSequences = 3
  Alphabet = {"0", "1", "2", "+", ":", ",", "*"}
  MaxLength = 5
  Sent <- MCSent
  Heard <- MCHeard
  Threads = {t1, t2}
  UsizeWidth = 3
  U64Width = 3
  MaxGenerators = 3
  MaxTags = 3
CHECK_DEADLOCK FALSE
INVARIANTS
  HashOrderDoesNotShow
  ComparisonIsAnOrder
  IteratorsYieldTheSet
  ConversionKeepsRange
  ReadersAgree
  OtherIsUnknown
  NamesAreKept
  TagsAreUnique
PROPERTIES
  NormalizeKeepsMessagesBelowMax
  NormalizeReachesNormalForm
