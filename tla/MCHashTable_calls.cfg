\* Calls with two values, and bulk calls of up to three items over two key
\* objects of one identity; two identities with one hash.
SPECIFICATION NarrowSpec
CONSTANTS
  a = a
  A = A
  b = b
  ida = ida
  idb = idb
  v1 = v1
  v2 = v2
  NULL = NULL
  Identities <- MCIdentities
  HashOf <- MCHashEqual
  Keys <- MCKeys
  Values <- MCValues2
  IdentityOf <- MCIdentityOf
  HASH_BITS = 10
  SIZE_T_BITS = 5
  Hints = {0}
  MaxVersion = 5
  MaxArgs = 3
SYMMETRY ValueSymmetry
INVARIANTS GetAllExact  ConsistencyAsserted
PROPERTIES VersionGuardsCalls 
