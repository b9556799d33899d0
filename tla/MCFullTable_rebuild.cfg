\* Long enough to compact a table of 8 slots and to grow it to 16; and full
\* tables of 16 slots with deleted entries, which an update compacts.
SPECIFICATION FullSpec
CONSTANTS
  a = a
  A = A
  b = b
  ida = ida
  idb = idb
  v1 = v1
  v2 = v2
  NULL = NULL
  Identities <- MCIdentities
  HashOf <- MCHashColliding
  Keys <- MCKeys2
  Values <- MCValues1
  IdentityOf <- MCIdentityOf2
  HASH_BITS = 10
  SIZE_T_BITS = 6
  Hints = {0, 2, 22}
  MaxVersion = 6
  MaxArgs = 2
  Added = {5, 10}
INVARIANTS TypeOK TableInvariant LookupComplete EqualKeysInOrder ReservationSuffices EstimateFits
PROPERTIES StepsImplementMultiDict GrowthDoubles
