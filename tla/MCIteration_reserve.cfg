\* An iterator and a bulk call whose reservation compacts the entries.
SPECIFICATION IterSpec
CONSTANTS
  a = a
  A = A
  b = b
  ida = ida
  idb = idb
  v1 = v1
  v2 = v2
  it1 = it1
  Iters <- MCIters
  NULL = NULL
  Identities <- MCIdentities
  HashOf <- MCHashColliding
  Keys <- MCKeys2
  Values <- MCValues1
  IdentityOf <- MCIdentityOf2
  HASH_BITS = 10
  SIZE_T_BITS = 6
  Hints = {0, 6}
  MaxVersion = 4
  MaxArgs = 1
  Added = {10}
INVARIANTS StopsAtTheEnd
