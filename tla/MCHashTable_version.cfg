\* getversion() after update() and merge().
SPECIFICATION Spec
CONSTANTS
  a = a
  A = A
  b = b
  ida = ida
  idb = idb
  v1 = v1
  v2 = v2
  NULL = NULL
  Identities <- MCIdentities
  HashOf <- MCHashColliding
  Keys <- MCKeys2
  Values <- MCValues2
  IdentityOf <- MCIdentityOf2
  HASH_BITS = 10
  SIZE_T_BITS = 5
  Hints = {0}
  MaxVersion = 3
  MaxArgs = 1
PROPERTIES VersionChangesOnUpdate
