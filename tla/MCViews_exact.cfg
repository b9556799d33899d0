\* Every operation on every small multidict and operand, with no call in
\* between.
SPECIFICATION ViewsSpec
CONSTANTS
  a = a
  A = A
  b = b
  ida = ida
  idb = idb
  v1 = v1
  v2 = v2
  t1 = t1
  t2 = t2
  NULL = NULL
  NoPair = NoPair
  NoKey = NoKey
  Identities <- MCIdentities
  HashOf <- MCHashColliding
  Keys <- MCKeys
  Values <- MCValues2
  IdentityOf <- MCIdentityOf
  HASH_BITS = 10
  SIZE_T_BITS = 6
  Hints = {0}
  MaxVersion = 0
  MaxArgs = 0
  Added = {1}
  Tasks <- MCTasks1
  Ops = {"and1", "and2", "or1", "or2", "sub1", "sub2", "xor", "contains",
         "isdisjoint", "lt", "le", "eq", "ne", "gt", "ge"}
  Nested = {}
  Elements <- MCElements
  Operands <- MCOperands
  KeyOps = {"and1", "and2", "or1", "or2", "sub1", "sub2", "xor", "contains",
            "isdisjoint"}
  KeyOperands <- MCKeyOperands
  MaxItems = 2
  MaxKeys = 3
  MaxElems = 2
INVARIANTS ViewTypeOK ResultExact EqualityExact
INVARIANTS KeysTypeOK KeysExact FirstSpellingOnly
CHECK_DEADLOCK FALSE
