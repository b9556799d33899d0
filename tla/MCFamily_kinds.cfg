\* What passes between multidicts of both kinds.
SPECIFICATION ScopedSpec
CONSTANTS
  NULL = NULL
  Texts <- TwoSpellings
  Lower <- LowerOf
  Values = {1, 2}
  MaxDicts = 3
  MaxEntries = 2
  MaxVersion = 5
INVARIANTS FamilyTypeOK KeysFindTheirItems SameVersionSameItems EqExact MappingEqExact
CHECK_DEADLOCK FALSE
