\* A CIMultiDict made from a MultiDict made from a CIMultiDict.
SPECIFICATION Spec
CONSTANTS
  NULL = NULL
  Texts <- TwoSpellings
  Lower <- LowerOf
  Values = {1}
  MaxDicts = 3
  MaxEntries = 1
  MaxVersion = 6
INVARIANT CaseInsensitive
CHECK_DEADLOCK FALSE
