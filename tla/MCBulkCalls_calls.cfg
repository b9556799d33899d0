\* Calls between the items of a bulk call, and bulk calls of the multidict's
\* own items.
SPECIFICATION WithinSpec
CONSTANTS
  a = a
  A = A
  b = b
  ida = ida
  idb = idb
  v1 = v1
  v2 = v2
  NULL = NULL
  Identities <- MCIdentities
  HashOf <- MCHashColliding
  Keys <- MCKeys2
  Values <- MCValues1
  IdentityOf <- MCIdentityOf2
  HASH_BITS = 10
  SIZE_T_BITS = 6
  Hints = {0}
  MaxVersion = 2
  MaxArgs = 3
  Added = {3, 5, 10}
INVARIANTS SoundInBetween OwnItemsStay
PROPERTIES TakenArePresent
CHECK_DEADLOCK FALSE
