\* A full table, and a call that makes it grow while a finder is at work.
SPECIFICATION FilledViewSpec
CONSTANTS
  a = a
  A = A
  b = b
  ida = ida
  idb = idb
  v1 = v1
  v2 = v2
  t1 = t1
  t2 = t2
  NULL = NULL
  NoPair = NoPair
  NoKey = NoKey
  Identities <- MCIdentities
  HashOf <- MCHashColliding
  Keys <- MCKeys2
  Values <- MCValues1
  IdentityOf <- MCIdentityOf2
  HASH_BITS = 10
  SIZE_T_BITS = 6
  Hints = {0}
  MaxVersion = 1
  MaxArgs = 0
  Added = {1}
  Tasks <- MCTasks1
  Ops = {"and1"}
  Nested = {"plain"}
  Elements <- MCElementA
  Operands <- MCOperandsSized
  KeyOps = {}
  KeyOperands = {}
  MaxItems = 2
  MaxKeys = 0
  MaxElems = 1
INVARIANTS AllMarksRestored
CHECK_DEADLOCK FALSE
