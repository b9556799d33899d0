\* extend() of a multidict with its own items.
SPECIFICATION BulkSpec
CONSTANTS
  a = a
  A = A
  b = b
  ida = ida
  idb = idb
  v1 = v1
  v2 = v2
  NULL = NULL
  Identities <- MCIdentities
  HashOf <- MCHashColliding
  Keys <- MCKeys2
  Values <- MCValues1
  IdentityOf <- MCIdentityOf2
  HASH_BITS = 10
  SIZE_T_BITS = 5
  Hints = {0}
  MaxVersion = 4
  MaxArgs = 3
  Added = {5}
INVARIANTS OwnItemsTaken
CHECK_DEADLOCK FALSE
