\* Calls from callbacks, in the middle of an operation.
SPECIFICATION FairViewSpec
CONSTANTS
  a = a
  A = A
  b = b
  ida = ida
  idb = idb
  v1 = v1
  v2 = v2
  t1 = t1
  t2 = t2
  NULL = NULL
  NoPair = NoPair
  NoKey = NoKey
  Identities <- MCIdentities
  HashOf <- MCHashColliding
  Keys <- MCKeys2
  Values <- MCValues2
  IdentityOf <- MCIdentityOf2
  HASH_BITS = 10
  SIZE_T_BITS = 6
  Hints = {0}
  MaxVersion = 1
  MaxArgs = 0
  Added = {1}
  Tasks <- MCTasks2
  Ops = {"and1", "contains", "xor", "le"}
  Nested = {"plain", "finder"}
  Elements <- MCElementA
  Operands <- MCOperandsSized
  KeyOps = {}
  KeyOperands = {}
  MaxItems = 1
  MaxKeys = 2
  MaxElems = 1
INVARIANTS MarksRestored  
 
CHECK_DEADLOCK FALSE
