----------------------------- MODULE ViewsProofs -----------------------------
(***************************************************************************)
(* The views of a C multidict, for any keys, operands and interleavings:   *)
(* what their operations return, and what they leave behind in the table.  *)
(*                                                                         *)
(* First the keys view, whose operations find the table without marks:     *)
(* KeysInvariant says of the set under construction what the elements      *)
(* taken so far have made of it.                                           *)
(*                                                                         *)
(* Then the items view, whose operations stop in the middle of a search    *)
(* while their finder holds marks in the table.  ViewInvariant says of     *)
(* each operation, at the version it knows, that the items its finder has  *)
(* not returned yet are all that stands between its result and what it     *)
(* should be (TaskOK), and of one that nothing has come in between, what   *)
(* it should be for the items it began with (QuietOK).  It is kept by the  *)
(* steps of an operation, by those of the others, and by the calls that    *)
(* come in between; only a table rebuilt or searched under a finder        *)
(* (damaged) is beyond it.                                                 *)
(***************************************************************************)
EXTENDS KeysView, ItemsView, HashTablePropertiesProofs

-----------------------------------------------------------------------------
(* Lists as sets.                                                          *)

\* The elements of a list are its head and those of its tail.
LEMMA ListElements ==
  ASSUME NEW S, NEW list \in Seq(S)
  PROVE  /\ ToSet(list) \in SUBSET S
         /\ list = <<>> => ToSet(list) = {}
         /\ list # <<>> => /\ Head(list) \in S /\ Tail(list) \in Seq(S)
                           /\ ToSet(list) = {Head(list)} \cup ToSet(Tail(list))
<1>1. ToSet(list) = {list[i] : i \in 1..Len(list)} /\ Len(list) \in Nat
  BY DEF ToSet
<1>2. \A i \in 1..Len(list) : list[i] \in S
  OBVIOUS
<1>3. ASSUME list # <<>>
      PROVE  /\ Head(list) \in S /\ Tail(list) \in Seq(S)
             /\ ToSet(list) = {Head(list)} \cup ToSet(Tail(list))
  <2>1. /\ Len(list) >= 1 /\ Head(list) = list[1] /\ Tail(list) \in Seq(S)
        /\ Len(Tail(list)) = Len(list) - 1
        /\ \A i \in 1..(Len(list) - 1) : Tail(list)[i] = list[i + 1]
    BY <1>3, HeadTailProperties
  <2>2. ToSet(Tail(list)) = {Tail(list)[i] : i \in 1..Len(Tail(list))}
    <3> DEFINE tail == Tail(list)
    <3>1. tail \in Seq(S)
      BY <2>1
    <3> HIDE DEF tail
    <3>2. DOMAIN tail = 1..Len(tail)
      BY <3>1
    <3> QED
      BY <3>2 DEF ToSet, tail
  <2>3. ASSUME NEW i \in 1..Len(list)
        PROVE  list[i] \in {Head(list)} \cup ToSet(Tail(list))
    <3>1. CASE i = 1
      BY <2>1, <3>1
    <3>2. CASE i # 1
      <4>1. i - 1 \in 1..(Len(list) - 1) /\ i - 1 \in 1..Len(Tail(list))
            /\ (i - 1) + 1 = i
        BY <1>1, <2>1, <3>2
      <4>2. list[i] = Tail(list)[i - 1]
        BY <2>1, <4>1
      <4> QED
        BY <2>2, <4>1, <4>2
    <3> QED
      BY <3>1, <3>2
  <2>4. ASSUME NEW i \in 1..Len(Tail(list))
        PROVE  Tail(list)[i] \in ToSet(list)
    <3>1. i \in 1..(Len(list) - 1) /\ i + 1 \in 1..Len(list)
      BY <1>1, <2>1
    <3> QED
      BY <1>1, <2>1, <3>1
  <2>5. Head(list) \in ToSet(list)
    <3>1. 1 \in 1..Len(list)
      BY <1>1, <2>1
    <3> QED
      BY <1>1, <2>1, <3>1
  <2>6. Head(list) \in S
    BY <1>1, <1>2, <2>1
  <2> HIDE DEF ToSet
  <2> QED
    BY <1>1, <2>1, <2>2, <2>3, <2>4, <2>5, <2>6, Zenon
<1>4. list = <<>> => ToSet(list) = {}
  BY <1>1
<1>5. ToSet(list) \in SUBSET S
  BY <1>1, <1>2
<1> QED
  BY <1>3, <1>4, <1>5

\* The numbers up to another.
LEMMA UpTo ==
  ASSUME NEW n \in Nat
  PROVE  IsFiniteSet(1..n) /\ Cardinality(1..n) = n
<1>1. IsFiniteSet(1..n) /\ Cardinality(1..n) = IF 1 > n THEN 0 ELSE n - 1 + 1
  BY FS_Interval
<1>2. (IF 1 > n THEN 0 ELSE n - 1 + 1) = n
  OBVIOUS
<1> QED
  BY <1>1, <1>2

\* A finite set made a list has its elements.
LEMMA SetAsList ==
  ASSUME NEW T, NEW S \in SUBSET T, IsFiniteSet(S)
  PROVE  SetToSeq(S) \in Seq(T) /\ ToSet(SetToSeq(S)) = S
<1> DEFINE n == Cardinality(S)
           f == SetToSeq(S)
<1>1. n \in Nat /\ ExistsBijection(1..n, S)
  BY FS_CardinalityType
<1>2. \E g \in [1..n -> S] : IsInjective(g)
  BY <1>1 DEF ExistsBijection, Bijection, Injection
<1>3. f \in [1..n -> S] /\ IsInjective(f)
  BY <1>2 DEF SetToSeq
<1>4. IsFiniteSet(1..n) /\ Cardinality(1..n) = n
  BY <1>1, UpTo
<1> HIDE DEF f
<1>5. f \in Surjection(1..n, S)
  <2>1. f \in Injection(1..n, S)
    BY <1>3 DEF Injection, IsInjective
  <2> QED
    BY <1>4, <2>1, FS_Injection
<1> HIDE DEF n
<1>6. ToSet(f) = S
  BY <1>3, <1>5 DEF ToSet, Surjection
<1>7. f \in Seq(T)
  BY <1>1, <1>3
<1> QED
  BY <1>6, <1>7 DEF f

\* The elements of a list are finitely many, at most its length.
LEMMA ListFinite ==
  ASSUME NEW S, NEW list \in Seq(S)
  PROVE  IsFiniteSet(ToSet(list)) /\ Cardinality(ToSet(list)) <= Len(list)
<1> DEFINE n == Len(list)
<1>1. n \in Nat /\ DOMAIN list = 1..n
  OBVIOUS
<1>2. IsFiniteSet(1..n) /\ Cardinality(1..n) = n
  BY <1>1, UpTo
<1>3. list \in Surjection(1..n, ToSet(list))
  BY <1>1 DEF Surjection, ToSet
<1> HIDE DEF n
<1>4. IsFiniteSet(ToSet(list)) /\ Cardinality(ToSet(list)) <= Cardinality(1..n)
  BY <1>2, <1>3, FS_Surjection
<1> QED
  BY <1>2, <1>4 DEF n
-----------------------------------------------------------------------------
(* The keys view: what an operation finds in a table without marks.        *)

\* A table that no operation is changing, its items in order and under their
\* own identities.
CalmTable ==
  /\ IsSound(keys) /\ IsSettled(keys) /\ IsOrdered(keys) /\ Identified(keys)

\* A search finds a key exactly when one of its identity is there, and then
\* the first of them.
LEMMA StoredKeys ==
  ASSUME CalmTable
  PROVE  /\ KeySet \in SUBSET Keys
         /\ \A key \in Keys :
              /\ md_contains(keys, key) <=> IdentityOf[key] \in IdentitiesOf(KeySet)
              /\ md_contains(keys, key) =>
                   /\ StoredKey(key) = FirstSpelling(key)
                   /\ FirstSpelling(key) \in KeySet
                   /\ IdentityOf[FirstSpelling(key)] = IdentityOf[key]
<1>1. /\ IsSound(keys) /\ IsSettled(keys) /\ IsOrdered(keys) /\ IsHtKeys(keys)
      /\ \A i \in Live(keys) : /\ keys.entries[i].key # NULL
                               /\ keys.entries[i].identity
                                    = IdentityOf[keys.entries[i].key]
                               /\ keys.entries[i].hash # MARK
  BY DEF CalmTable, IsSound, IsSettled, Identified
<1>2. KeySet \in SUBSET Keys
  <2>1. \A i \in Live(keys) : keys.entries[i] \in Entry
    BY <1>1, LiveEntry
  <2> QED
    BY <1>1, <2>1 DEF KeySet, Entry
<1>3. IdentitiesOf(KeySet) = {keys.entries[i].identity : i \in Live(keys)}
  BY <1>1, <1>2, KeysViewAssumption DEF IdentitiesOf, KeySet
<1>4. ASSUME NEW key \in Keys
      PROVE  /\ md_contains(keys, key) <=> IdentityOf[key] \in IdentitiesOf(KeySet)
             /\ md_contains(keys, key) =>
                  /\ StoredKey(key) = FirstSpelling(key)
                  /\ FirstSpelling(key) \in KeySet
                  /\ IdentityOf[FirstSpelling(key)] = IdentityOf[key]
  <2> DEFINE id == IdentityOf[key]
             hash == HashOf[id]
             own == OwnEntries(keys, id)
             found == Matches(keys, hash, id)
             i == IndexAt(keys, hash, Min(found))
  <2>1. id \in Identities
    BY HashTableAssumption
  <2>2. keys \in Finding(keys, id)
    <3>1. keys.entries \in [EntryIndices(keys.log2_size) -> Entry]
      BY <1>1 DEF IsHtKeys
    <3>2. keys = Rewritten(keys, keys.entries)
      BY <1>1 DEF Rewritten, IsHtKeys
    <3> QED
      BY <1>1, <3>1, <3>2 DEF Finding
  <2>3. own \in SUBSET Nat /\ FoundInOrder(keys, hash, own, found)
    <3> HIDE DEF id
    <3>1. /\ OwnEntries(keys, id) \in SUBSET Nat
          /\ FoundInOrder(keys, HashOf[id], OwnEntries(keys, id),
                          Matches(keys, HashOf[id], id))
      BY <1>1, <2>1, <2>2, OwnMatches, FirstIsLeast
    <3> QED
      BY <3>1 DEF id
  <2>4. \A j \in own : keys.entries[j].hash = hash
    <3>1. \A j \in own : j \in Live(keys) /\ keys.entries[j].identity = id
      BY DEF OwnEntries
    <3> QED
      BY <1>1, <3>1 DEF IsSound
  <2>5. md_contains(keys, key) <=> found # {}
    BY DEF md_contains, hash_of
  <2>6. found # {} <=> own # {}
    <3> HIDE DEF hash, found, own
    <3> QED
      BY <2>3, <2>4 DEF FoundInOrder
  <2>7. own # {} <=> id \in IdentitiesOf(KeySet)
    BY <1>3 DEF OwnEntries
  <2>8. ASSUME own # {} PROVE Min(own) = i /\ i \in own
    <3> HIDE DEF hash, found, own
    <3>1. i \in own /\ \A j \in own : ~ (j < i)
      BY <1>1, <2>3, <2>4, <2>6, <2>8 DEF FoundInOrder, OwnEntries, own
    <3>2. Min(own) \in own /\ \A j \in own : Min(own) <= j
      BY <2>3, <2>8, MinOfNaturals
    <3> HIDE DEF i
    <3>3. Min(own) \in Nat /\ i \in Nat
      BY <2>3, <3>1, <3>2
    <3> QED
      BY <3>1, <3>2, <3>3
  <2>9. StoredKey(key) = keys.entries[i].key
    BY DEF StoredKey, FirstMatch, hash_of, IndexAt
  <2>10. FirstSpelling(key) = keys.entries[Min(own)].key
    BY DEF FirstSpelling, OwnEntries
  <2>11. own # {} => i \in Live(keys) /\ keys.entries[i].identity = id
    <3> HIDE DEF i
    <3> QED
      BY <2>8 DEF OwnEntries
  <2>12. own # {} => keys.entries[i].key \in KeySet /\ IdentityOf[keys.entries[i].key] = id
    <3> HIDE DEF i, own
    <3> QED
      BY <1>1, <2>11 DEF KeySet
  <2> HIDE DEF i, own, found
  <2> QED
    BY <2>5, <2>6, <2>7, <2>8, <2>9, <2>10, <2>12
<1> QED
  BY <1>2, <1>4

Firsts(set) == {FirstSpelling(key) : key \in KeysWithin(set, KeySet)}

\* One element more.
LEMMA OneMoreKey ==
  ASSUME CalmTable, NEW T \in SUBSET (Keys \cup {NoKey}), NEW key \in Keys \cup {NoKey}
  PROVE  /\ IsContained(key) =>
              /\ KeysWithin(T \cup {key}, KeySet) = KeysWithin(T, KeySet) \cup {key}
              /\ Firsts(T \cup {key}) = Firsts(T) \cup {StoredKey(key)}
              /\ StoredKey(key) \in KeySet /\ key \in Keys
              /\ key \in T => key \in KeysWithin(T, KeySet)
         /\ ~ IsContained(key) =>
              /\ key \notin KeysWithin(T \cup {key}, KeySet)
              /\ KeysWithin(T \cup {key}, KeySet) = KeysWithin(T, KeySet)
              /\ Firsts(T \cup {key}) = Firsts(T)
<1>1. IsContained(key) <=> key \in {key} \ {NoKey}
                           /\ IdentityOf[key] \in IdentitiesOf(KeySet)
  BY StoredKeys, KeysViewAssumption DEF IsContained
<1>2. IsContained(key) => /\ StoredKey(key) = FirstSpelling(key) /\ key \in Keys
                          /\ StoredKey(key) \in KeySet
  BY StoredKeys, KeysViewAssumption DEF IsContained
<1>3. KeysWithin(T \cup {key}, KeySet)
        = KeysWithin(T, KeySet) \cup (IF IsContained(key) THEN {key} ELSE {})
  BY <1>1 DEF KeysWithin
<1>4. CASE IsContained(key)
  <2>1. KeysWithin(T \cup {key}, KeySet) = KeysWithin(T, KeySet) \cup {key}
    BY <1>3, <1>4
  <2>2. Firsts(T \cup {key}) = Firsts(T) \cup {FirstSpelling(key)}
    BY <2>1 DEF Firsts
  <2>3. key \in T => key \in KeysWithin(T, KeySet)
    BY <1>1, <1>4 DEF KeysWithin
  <2> QED
    BY <1>2, <1>4, <2>1, <2>2, <2>3
<1>5. CASE ~ IsContained(key)
  <2>1. key \notin KeysWithin(T \cup {key}, KeySet)
    BY <1>1, <1>5 DEF KeysWithin
  <2> QED
    BY <1>3, <1>5, <2>1 DEF Firsts
<1> QED
  BY <1>4, <1>5

\* What the result is once the elements of a set have been taken.
TakenAre(x, T) ==
  LET other == ToSet(x.other.elems)
  IN  /\ x.phase = "and1" => x.result = Firsts(T)
      /\ x.phase = "and2" => x.result = KeysWithin(T, KeySet)
      /\ x.phase = "or1" => x.result = KeySet \cup KeysOutside(T, KeySet)
      /\ x.phase = "or2" => x.result = other /\ x.identities = IdentitiesOf(T)
      /\ x.phase = "sub1" => x.result = KeySet \ Firsts(T)
      /\ x.phase = "sub2" => x.result = other \ KeysWithin(T, KeySet)
      /\ x.phase \in {"contains", "isdisjoint"} =>
           x.result = {} /\ KeysWithin(T, KeySet) = {}

UnderWay(x) ==
  LET other == ToSet(x.other.elems)
  IN  /\ x.phase = x.op \/ (x.op = "xor" /\ x.phase \in {"sub1", "sub2"})
      /\ x.op = "xor" /\ x.phase = "sub2" => x.kept = KeySet \ Firsts(other)
      /\ x.answer = NULL
      /\ \E T \in SUBSET (Keys \cup {NoKey}) :
           /\ TakenAre(x, T)
           /\ ~ (x.op = "sub2" /\ x.other.oneshot) => T \cup ToSet(x.rest) = other

\* What an operation returns, whatever the spellings.
ReturnsKeys(x) ==
  LET other == ToSet(x.other.elems)
  IN  /\ x.op = "and1" => x.result = Firsts(other)
      /\ x.op = "and2" => x.result = KeysWithin(other, KeySet)
      /\ x.op = "or1" => x.result = KeySet \cup KeysOutside(other, KeySet)
      /\ x.op = "or2" => x.result = other \cup KeysOutside(KeySet, other)
      /\ x.op = "sub1" => x.result = KeySet \ Firsts(other)
      /\ x.op = "sub2" /\ ~ x.other.oneshot => x.result = KeysOutside(other, KeySet)
      /\ x.op = "xor" => x.result = KeysOutside(other, KeySet) \cup (KeySet \ Firsts(other))
      /\ x.op = "contains" => /\ x.result = {}
                              /\ x.answer = (KeysWithin(other, KeySet) # {})
      /\ x.op = "isdisjoint" => /\ x.result = {}
                                /\ x.answer = (KeysWithin(other, KeySet) = {})

Loops == {"and1", "and2", "or1", "or2", "sub1", "sub2", "contains", "isdisjoint"}

ViewType ==
  [op : KeyOps, phase : Loops, pc : {"next", "done", "raised"}, other : KeyOperands,
   rest : Seq(Keys \cup {NoKey}), identities : SUBSET Identities,
   kept : SUBSET (Keys \cup {NoKey}), result : SUBSET (Keys \cup {NoKey}),
   answer : BOOLEAN \cup {NULL}]

\* The operation, of a table that stays as it is.
KeysOperation(x) ==
  LET all == KeySet \cup ToSet(x.other.elems)
  IN  /\ x \in ViewType
      /\ x.result \subseteq all /\ x.kept \subseteq all
      /\ ToSet(x.rest) \subseteq ToSet(x.other.elems)
      /\ x.pc = "next" => UnderWay(x)
      /\ x.pc = "done" => ReturnsKeys(x)

KeysInvariant ==
  /\ OrderInvariant /\ Identified(keys)
  /\ view = NoView \/ (Idle /\ KeysOperation(view))

\* Between two calls no finder is at work, and no entry carries a mark.
LEMMA CalmWhenIdle ==
  ASSUME OrderInvariant, Identified(keys), Idle
  PROVE  CalmTable
BY DEF OrderInvariant, TableInvariant, CalmTable, Idle

\* The operands are lists of keys and of objects that are none.
LEMMA OperandType ==
  ASSUME NEW other \in KeyOperands
  PROVE  /\ other.elems \in Seq(Keys \cup {NoKey}) /\ other.oneshot \in BOOLEAN
         /\ ToSet(other.elems) \in SUBSET (Keys \cup {NoKey})
         /\ SetToSeq(ToSet(other.elems)) \in Seq(Keys \cup {NoKey})
         /\ ToSet(SetToSeq(ToSet(other.elems))) = ToSet(other.elems)
<1>1. other.elems \in Seq(Keys \cup {NoKey}) /\ other.oneshot \in BOOLEAN
  BY KeysViewAssumption
<1> DEFINE elems == other.elems
           S == ToSet(elems)
<1>2. S \in SUBSET (Keys \cup {NoKey}) /\ IsFiniteSet(S)
  <2> HIDE DEF elems
  <2> QED
    BY <1>1, ListElements, ListFinite DEF elems
<1> HIDE DEF S
<1>3. SetToSeq(S) \in Seq(Keys \cup {NoKey}) /\ ToSet(SetToSeq(S)) = S
  BY <1>2, SetAsList
<1> QED
  BY <1>1, <1>2, <1>3 DEF S

\* Nothing is in the empty set up to case.
LEMMA NothingWithin ==
  /\ KeysWithin({}, KeySet) = {} /\ Firsts({}) = {}
  /\ KeysOutside({}, KeySet) = {} /\ IdentitiesOf({}) = {}
BY DEF KeysWithin, Firsts, KeysOutside, IdentitiesOf

\* The beginning.
LEMMA BeginKeysKept ==
  ASSUME CalmTable, view = NoView, NEW op \in KeyOps, NEW other \in KeyOperands,
         BeginKeys(op, other)
  PROVE  KeysOperation(view')
<1> DEFINE start == StartKeys(op, other)
           y == [op |-> op, phase |-> start.phase, pc |-> "next", other |-> other,
                 rest |-> start.rest, identities |-> {}, kept |-> {},
                 result |-> start.result, answer |-> NULL]
<1>1. view' = y
  BY DEF BeginKeys, NoView
<1>2. /\ other.elems \in Seq(Keys \cup {NoKey})
      /\ ToSet(other.elems) \in SUBSET (Keys \cup {NoKey})
      /\ SetToSeq(ToSet(other.elems)) \in Seq(Keys \cup {NoKey})
      /\ ToSet(SetToSeq(ToSet(other.elems))) = ToSet(other.elems)
      /\ <<>> \in Seq(Keys \cup {NoKey}) /\ ToSet(<<>>) = {}
      /\ KeySet \in SUBSET Keys
  BY OperandType, StoredKeys, EmptySeq, ListElements
<1> DEFINE list == SetToSeq(ToSet(other.elems))
           all == ToSet(other.elems)
<1>3. /\ op \in {"or1", "sub1"} =>
           start = [phase |-> op, rest |-> other.elems, result |-> KeySet]
      /\ op = "or2" => start = [phase |-> "or2", rest |-> list, result |-> all]
      /\ op = "sub2" => start = [phase |-> "sub2", result |-> all,
                                rest |-> IF other.oneshot THEN <<>> ELSE other.elems]
      /\ op = "xor" => start = [phase |-> "sub1", rest |-> list, result |-> KeySet]
      /\ op \notin {"or1", "sub1", "or2", "sub2", "xor"} =>
           start = [phase |-> op, rest |-> other.elems, result |-> {}]
  BY DEF StartKeys, BeginOr2, BeginSub2, BeginXor, Once
<1> HIDE DEF start
<1>4. op \in {"and1", "and2", "or1", "or2", "sub1", "sub2", "xor", "contains", "isdisjoint"}
  BY KeysViewAssumption
<1>5. /\ start.phase \in Loops
      /\ start.phase = op \/ (op = "xor" /\ start.phase = "sub1")
      /\ start.rest \in Seq(Keys \cup {NoKey})
      /\ ToSet(start.rest) \subseteq all
      /\ ~ (op = "sub2" /\ other.oneshot) => ToSet(start.rest) = all
      /\ start.result \in SUBSET (KeySet \cup all)
  <2> HIDE DEF list, all
  <2>1. /\ list \in Seq(Keys \cup {NoKey}) /\ ToSet(list) = all
        /\ other.elems \in Seq(Keys \cup {NoKey}) /\ ToSet(other.elems) = all
    BY <1>2 DEF list, all
  <2>2. /\ start.phase = IF op = "xor" THEN "sub1" ELSE op
        /\ start.rest \in {<<>>, list, other.elems}
        /\ ~ (op = "sub2" /\ other.oneshot) => start.rest \in {list, other.elems}
        /\ start.result \in {{}, KeySet, all}
    <3>1. CASE op \in {"or1", "sub1"}
      BY <1>3, <3>1
    <3>2. CASE op = "or2"
      BY <1>3, <3>2
    <3>3. CASE op = "sub2"
      BY <1>3, <3>3
    <3>4. CASE op = "xor"
      BY <1>3, <3>4
    <3>5. CASE op \notin {"or1", "sub1", "or2", "sub2", "xor"}
      BY <1>3, <3>5
    <3> QED
      BY <3>1, <3>2, <3>3, <3>4, <3>5
  <2>3. start.phase \in Loops /\ (start.phase = op \/ (op = "xor" /\ start.phase = "sub1"))
    BY <1>4, <2>2 DEF Loops
  <2>4. start.rest \in Seq(Keys \cup {NoKey})
    BY <1>2, <2>1, <2>2
  <2>5. ToSet(start.rest) \subseteq all
    BY <1>2, <2>1, <2>2
  <2>6. ~ (op = "sub2" /\ other.oneshot) => ToSet(start.rest) = all
    BY <2>1, <2>2
  <2> QED
    BY <2>2, <2>3, <2>4, <2>5, <2>6
<1>6. TakenAre(y, {})
  <2> DEFINE F == Firsts({})
             W == KeysWithin({}, KeySet)
             O == KeysOutside({}, KeySet)
             I == IdentitiesOf({})
  <2>1. F = {} /\ W = {} /\ O = {} /\ I = {}
    BY NothingWithin
  <2>2. /\ y.phase = start.phase /\ y.result = start.result /\ y.identities = {}
        /\ y.other = other
    OBVIOUS
  <2> HIDE DEF y, all
  <2>3. start.phase \in {"and1", "and2", "contains", "isdisjoint"} => start.result = {}
    BY <1>3, <1>4
  <2>4. start.phase \in {"or1", "sub1"} => start.result = KeySet
    BY <1>3, <1>4
  <2>5. start.phase \in {"or2", "sub2"} => start.result = all
    BY <1>3, <1>4
  <2> HIDE DEF F, W, O, I
  <2>6. /\ y.phase = "and1" => y.result = F
        /\ y.phase = "and2" => y.result = W
        /\ y.phase = "or1" => y.result = KeySet \cup O
        /\ y.phase = "or2" => y.result = all /\ y.identities = I
        /\ y.phase = "sub1" => y.result = KeySet \ F
        /\ y.phase = "sub2" => y.result = all \ W
        /\ y.phase \in {"contains", "isdisjoint"} => y.result = {} /\ W = {}
    BY <2>1, <2>2, <2>3, <2>4, <2>5
  <2> QED
    BY <2>2, <2>6, Zenon DEF TakenAre, all, F, W, O, I
<1>7. y \in ViewType
  <2> HIDE DEF all
  <2>1. all \in SUBSET (Keys \cup {NoKey})
    BY <1>2 DEF all
  <2>2. start.result \in SUBSET (Keys \cup {NoKey})
    BY <1>2, <1>5, <2>1
  <2> QED
    BY <1>5, <2>2 DEF ViewType
<1>8. UnderWay(y)
  <2>1. \E T \in SUBSET (Keys \cup {NoKey}) :
          /\ TakenAre(y, T)
          /\ ~ (y.op = "sub2" /\ y.other.oneshot) => T \cup ToSet(y.rest) = ToSet(y.other.elems)
    <3> WITNESS {} \in SUBSET (Keys \cup {NoKey})
    <3> QED
      BY <1>5, <1>6
  <2>2. y.op = op /\ y.phase = start.phase /\ y.answer = NULL
    OBVIOUS
  <2> HIDE DEF y
  <2>3. y.phase = y.op \/ (y.op = "xor" /\ y.phase \in {"sub1", "sub2"})
    BY <1>5, <2>2
  <2>4. ~ (y.op = "xor" /\ y.phase = "sub2")
    BY <1>5, <2>2
  <2> QED
    BY <2>1, <2>2, <2>3, <2>4, Zenon DEF UnderWay
<1> QED
  BY <1>1, <1>5, <1>7, <1>8 DEF KeysOperation

\* An element: the state of the operation after it.
LEMMA TakeKeyKept ==
  ASSUME CalmTable, KeysOperation(view), TakeKey
  PROVE  KeysOperation(view')
<1> DEFINE x == view
           key == Head(x.rest)
           all == ToSet(x.other.elems)
           result == Adding(x.phase, x.result, key)
           taken == [x EXCEPT !.rest = Tail(@), !.result = Adding(x.phase, @, key)]
<1>1. /\ x \in ViewType /\ x.pc = "next" /\ x.rest # <<>> /\ UnderWay(x)
      /\ x.result \subseteq KeySet \cup all /\ x.kept \subseteq KeySet \cup all
      /\ ToSet(x.rest) \subseteq all
  BY DEF KeysOperation, TakeKey
<1>2. /\ x.op \in KeyOps /\ x.phase \in Loops /\ x.other \in KeyOperands
      /\ x.rest \in Seq(Keys \cup {NoKey}) /\ x.identities \in SUBSET Identities
      /\ x.kept \in SUBSET (Keys \cup {NoKey}) /\ x.result \in SUBSET (Keys \cup {NoKey})
      /\ x.answer = NULL
  BY <1>1 DEF ViewType, UnderWay
<1>3. /\ key \in Keys \cup {NoKey} /\ Tail(x.rest) \in Seq(Keys \cup {NoKey})
      /\ ToSet(x.rest) = {key} \cup ToSet(Tail(x.rest))
      /\ all \in SUBSET (Keys \cup {NoKey}) /\ KeySet \in SUBSET Keys
  BY <1>1, <1>2, ListElements, OperandType, StoredKeys
<1>4. /\ taken = [op |-> x.op, phase |-> x.phase, pc |-> "next", other |-> x.other,
                  rest |-> Tail(x.rest), identities |-> x.identities, kept |-> x.kept,
                  result |-> result, answer |-> NULL]
  <2> DEFINE tail == Tail(x.rest)
  <2>1. taken = [x EXCEPT !.rest = tail, !.result = result]
    OBVIOUS
  <2> HIDE DEF tail, result
  <2>2. \A z \in ViewType : [z EXCEPT !.rest = tail, !.result = result]
          = [op |-> z.op, phase |-> z.phase, pc |-> z.pc, other |-> z.other,
             rest |-> tail, identities |-> z.identities, kept |-> z.kept,
             result |-> result, answer |-> z.answer]
    <3> SUFFICES ASSUME NEW z \in ViewType
                 PROVE  [z EXCEPT !.rest = tail, !.result = result]
                          = [op |-> z.op, phase |-> z.phase, pc |-> z.pc, other |-> z.other,
                             rest |-> tail, identities |-> z.identities, kept |-> z.kept,
                             result |-> result, answer |-> z.answer]
      OBVIOUS
    <3>1. z = [op |-> z.op, phase |-> z.phase, pc |-> z.pc, other |-> z.other,
               rest |-> z.rest, identities |-> z.identities, kept |-> z.kept,
               result |-> z.result, answer |-> z.answer]
      BY DEF ViewType
    <3>2. [z EXCEPT !.rest = tail]
            = [op |-> z.op, phase |-> z.phase, pc |-> z.pc, other |-> z.other,
               rest |-> tail, identities |-> z.identities, kept |-> z.kept,
               result |-> z.result, answer |-> z.answer]
      BY <3>1
    <3>3. [z EXCEPT !.rest = tail, !.result = result]
            = [[z EXCEPT !.rest = tail] EXCEPT !.result = result]
      OBVIOUS
    <3> DEFINE w == [op |-> z.op, phase |-> z.phase, pc |-> z.pc, other |-> z.other,
                     rest |-> tail, identities |-> z.identities, kept |-> z.kept,
                     result |-> z.result, answer |-> z.answer]
    <3>4. [w EXCEPT !.result = result]
            = [op |-> z.op, phase |-> z.phase, pc |-> z.pc, other |-> z.other,
               rest |-> tail, identities |-> z.identities, kept |-> z.kept,
               result |-> result, answer |-> z.answer]
      OBVIOUS
    <3> HIDE DEF w
    <3> QED
      BY <3>2, <3>3, <3>4, Zenon DEF w
  <2>3. [x EXCEPT !.rest = tail, !.result = result]
          = [op |-> x.op, phase |-> x.phase, pc |-> "next", other |-> x.other,
             rest |-> tail, identities |-> x.identities, kept |-> x.kept,
             result |-> result, answer |-> NULL]
    BY <1>1, <1>2, <2>2, Zenon
  <2> QED
    BY <2>1, <2>3, Zenon DEF tail
<1>5. PICK T \in SUBSET (Keys \cup {NoKey}) :
        /\ TakenAre(x, T)
        /\ ~ (x.op = "sub2" /\ x.other.oneshot) => T \cup ToSet(x.rest) = all
  BY <1>1 DEF UnderWay
<1> DEFINE more == T \cup {key}
           stops == x.phase \in {"contains", "isdisjoint"} /\ IsContained(key)
           collects == x.phase = "or2" /\ key # NoKey
           y == [op |-> x.op, phase |-> x.phase, pc |-> IF stops THEN "done" ELSE "next",
                 other |-> x.other, rest |-> Tail(x.rest),
                 identities |-> IF collects THEN x.identities \cup {IdentityOf[key]}
                                            ELSE x.identities,
                 kept |-> x.kept, result |-> result,
                 answer |-> IF stops THEN x.phase = "contains" ELSE NULL]
<1>6. view' = y
  <2>1. view' = CASE stops -> [taken EXCEPT !.pc = "done", !.answer = x.phase = "contains"]
                  [] collects -> [taken EXCEPT !.identities = @ \cup {IdentityOf[key]}]
                  [] OTHER -> taken
    BY DEF TakeKey
  <2>2. ~ (stops /\ collects)
    OBVIOUS
  <2> HIDE DEF taken, key, result
  <2>3. CASE stops
    <3>1. view' = [taken EXCEPT !.pc = "done", !.answer = x.phase = "contains"]
      BY <2>1, <2>2, <2>3, Zenon
    <3> QED
      BY <1>4, <2>2, <2>3, <3>1
  <2>4. CASE collects
    <3>1. view' = [taken EXCEPT !.identities = @ \cup {IdentityOf[key]}]
      BY <2>1, <2>2, <2>4, Zenon
    <3> QED
      BY <1>4, <2>2, <2>4, <3>1
  <2>5. CASE ~ stops /\ ~ collects
    <3>1. view' = taken
      BY <2>1, <2>5, Zenon
    <3> QED
      BY <1>4, <2>5, <3>1
  <2> QED
    BY <2>3, <2>4, <2>5
<1>7. /\ IsContained(key) =>
           /\ KeysWithin(more, KeySet) = KeysWithin(T, KeySet) \cup {key}
           /\ Firsts(more) = Firsts(T) \cup {StoredKey(key)}
           /\ StoredKey(key) \in KeySet /\ key \in Keys
           /\ key \in T => key \in KeysWithin(T, KeySet)
      /\ ~ IsContained(key) =>
           /\ key \notin KeysWithin(more, KeySet)
           /\ KeysWithin(more, KeySet) = KeysWithin(T, KeySet)
           /\ Firsts(more) = Firsts(T)
  BY <1>3, OneMoreKey
<1>8. key \in Keys => IdentityOf[key] \in Identities
  BY HashTableAssumption
<1>9. /\ x.phase = "and1" =>
           result = IF IsContained(key) THEN x.result \cup {StoredKey(key)} ELSE x.result
      /\ x.phase = "and2" =>
           result = IF IsContained(key) THEN x.result \cup {key} ELSE x.result
      /\ x.phase = "or1" =>
           result = IF IsContained(key) THEN x.result ELSE x.result \cup {key}
      /\ x.phase = "sub1" =>
           result = IF IsContained(key) THEN x.result \ {StoredKey(key)} ELSE x.result
      /\ x.phase = "sub2" =>
           result = IF IsContained(key) THEN x.result \ {key} ELSE x.result
      /\ x.phase \in {"or2", "contains", "isdisjoint"} => result = x.result
  BY DEF Adding, keysview_and1, keysview_and2, keysview_or1, keysview_sub1, keysview_sub2
<1> HIDE DEF result
<1>10. key \in all
  BY <1>1, <1>3
<1>11. result \subseteq KeySet \cup all /\ result \in SUBSET (Keys \cup {NoKey})
  <2> HIDE DEF key, all
  <2>1. result \subseteq KeySet \cup all
    BY <1>1, <1>2, <1>7, <1>9, <1>10 DEF Loops
  <2> QED
    BY <1>3, <2>1
<1>12. y \in ViewType
  <2> HIDE DEF key
  <2> DEFINE answer == IF stops THEN x.phase = "contains" ELSE NULL
             pc == IF stops THEN "done" ELSE "next"
             ids == IF collects THEN x.identities \cup {IdentityOf[key]} ELSE x.identities
             tail == Tail(x.rest)
             z == [op |-> x.op, phase |-> x.phase, pc |-> pc, other |-> x.other,
                   rest |-> tail, identities |-> ids, kept |-> x.kept,
                   result |-> result, answer |-> answer]
  <2>1. answer \in BOOLEAN \cup {NULL}
    BY Zenon
  <2>2. pc \in {"next", "done", "raised"} /\ ids \in SUBSET Identities
    BY <1>2, <1>3, <1>8
  <2>3. y = z
    OBVIOUS
  <2>4. tail \in Seq(Keys \cup {NoKey})
    BY <1>3
  <2> HIDE DEF answer, pc, ids, tail
  <2>5. z \in ViewType
    BY <1>2, <1>11, <2>1, <2>2, <2>4 DEF ViewType
  <2> HIDE DEF y, z
  <2> QED
    BY <2>3, <2>5
<1>13. /\ y.op = x.op /\ y.phase = x.phase /\ y.other = x.other /\ y.kept = x.kept
       /\ y.rest = Tail(x.rest) /\ y.result = result
       /\ y.pc = IF stops THEN "done" ELSE "next"
       /\ collects => y.identities = x.identities \cup {IdentityOf[key]}
       /\ ~ collects => y.identities = x.identities
       /\ ~ stops => y.answer = NULL
  OBVIOUS
<1>14. stops => y.answer = (x.phase = "contains")
  BY Zenon
<1>15. more \in SUBSET (Keys \cup {NoKey})
  BY <1>3
<1>16. IdentitiesOf(more)
         = IdentitiesOf(T) \cup (IF key # NoKey THEN {IdentityOf[key]} ELSE {})
  BY DEF IdentitiesOf
<1> HIDE DEF y, key, all
<1>17. ASSUME ~ stops PROVE UnderWay(y)
  <2>1. /\ x.phase = "and1" => x.result = Firsts(T)
        /\ x.phase = "and2" => x.result = KeysWithin(T, KeySet)
        /\ x.phase = "or1" => x.result = KeySet \cup (T \ KeysWithin(T, KeySet))
        /\ x.phase = "or2" => x.result = all /\ x.identities = IdentitiesOf(T)
        /\ x.phase = "sub1" => x.result = KeySet \ Firsts(T)
        /\ x.phase = "sub2" => x.result = all \ KeysWithin(T, KeySet)
        /\ x.phase \in {"contains", "isdisjoint"} =>
             x.result = {} /\ KeysWithin(T, KeySet) = {}
    BY <1>5, Zenon DEF TakenAre, all, KeysOutside
  <2>2. KeysWithin(T, KeySet) \subseteq T
    BY DEF KeysWithin
  <2> DEFINE F == Firsts(T)
             W == KeysWithin(T, KeySet)
             F2 == Firsts(more)
             W2 == KeysWithin(more, KeySet)
  <2>3. KeysOutside(more, KeySet) = more \ W2
    BY DEF KeysOutside
  <2>4. IsContained(key) => key # NoKey
    BY DEF IsContained
  <2> HIDE DEF F, W, F2, W2
  <2>5. /\ x.phase = "and1" => result = F2
        /\ x.phase = "and2" => result = W2
        /\ x.phase = "or1" => result = KeySet \cup (more \ W2)
        /\ x.phase = "or2" => result = all
        /\ x.phase = "sub1" => result = KeySet \ F2
        /\ x.phase = "sub2" => result = all \ W2
        /\ x.phase \in {"contains", "isdisjoint"} => result = {} /\ W2 = {}
    <3>1. CASE IsContained(key)
      <4> DEFINE stored == StoredKey(key)
      <4>1. W2 = W \cup {key} /\ F2 = F \cup {stored} /\ x.phase \notin {"contains", "isdisjoint"}
        BY <1>7, <1>17, <3>1, Zenon DEF F, W, F2, W2
      <4>2. /\ x.phase = "and1" => result = x.result \cup {stored}
            /\ x.phase = "and2" => result = x.result \cup {key}
            /\ x.phase = "or1" => result = x.result
            /\ x.phase = "or2" => result = x.result
            /\ x.phase = "sub1" => result = x.result \ {stored}
            /\ x.phase = "sub2" => result = x.result \ {key}
        BY <1>9, <3>1
      <4>3. /\ x.phase = "and1" => x.result = F
            /\ x.phase = "and2" => x.result = W
            /\ x.phase = "or1" => x.result = KeySet \cup (T \ W)
            /\ x.phase = "or2" => x.result = all
            /\ x.phase = "sub1" => x.result = KeySet \ F
            /\ x.phase = "sub2" => x.result = all \ W
        BY <2>1, Zenon DEF F, W
      <4> HIDE DEF stored
      <4>4. more \ W2 = T \ W
        <5>1. key \in T => key \in W
          BY <1>7, <3>1 DEF W
        <5> QED
          BY <4>1, <5>1
      <4> HIDE DEF more, stops, collects
      <4> QED
        BY <4>1, <4>2, <4>3, <4>4
    <3>2. CASE ~ IsContained(key)
      <4>1. W2 = W /\ F2 = F
        BY <1>7, <3>2, Zenon DEF F, W, F2, W2
      <4>2. /\ x.phase \in {"and1", "and2", "or2", "sub1", "sub2"} => result = x.result
            /\ x.phase \in {"contains", "isdisjoint"} => result = x.result
            /\ x.phase = "or1" => result = x.result \cup {key}
        BY <1>9, <3>2
      <4>3. /\ x.phase = "and1" => x.result = F
            /\ x.phase = "and2" => x.result = W
            /\ x.phase = "or1" => x.result = KeySet \cup (T \ W)
            /\ x.phase = "or2" => x.result = all
            /\ x.phase = "sub1" => x.result = KeySet \ F
            /\ x.phase = "sub2" => x.result = all \ W
            /\ x.phase \in {"contains", "isdisjoint"} => x.result = {} /\ W = {}
        BY <2>1, Zenon DEF F, W
      <4>4. more \ W2 = (T \ W) \cup {key}
        <5>1. key \notin W2
          BY <1>7, <3>2 DEF W2
        <5> QED
          BY <4>1, <5>1
      <4> HIDE DEF more, stops, collects
      <4> QED
        BY <4>1, <4>2, <4>3, <4>4
    <3> QED
      BY <3>1, <3>2
  <2>6. x.phase = "or2" => y.identities = IdentitiesOf(more)
    BY <1>13, <1>16, <2>1
  <2>7. TakenAre(y, more)
    BY <1>13, <2>3, <2>5, <2>6, Zenon DEF TakenAre, F2, W2, all
  <2>8. ~ (x.op = "sub2" /\ x.other.oneshot) => more \cup ToSet(Tail(x.rest)) = all
    BY <1>3, <1>5
  <2>9. \E U \in SUBSET (Keys \cup {NoKey}) :
          /\ TakenAre(y, U)
          /\ ~ (y.op = "sub2" /\ y.other.oneshot) => U \cup ToSet(y.rest) = all
    <3> HIDE DEF more
    <3> QED
      BY <1>13, <1>15, <2>7, <2>8
  <2>10. /\ x.phase = x.op \/ (x.op = "xor" /\ x.phase \in {"sub1", "sub2"})
         /\ x.op = "xor" /\ x.phase = "sub2" => x.kept = KeySet \ Firsts(all)
    BY <1>1, Zenon DEF UnderWay, all
  <2> HIDE DEF stops
  <2>11. /\ y.phase = y.op \/ (y.op = "xor" /\ y.phase \in {"sub1", "sub2"})
         /\ y.op = "xor" /\ y.phase = "sub2" => y.kept = KeySet \ Firsts(all)
         /\ y.answer = NULL /\ all = ToSet(y.other.elems)
    BY <1>13, <1>17, <2>10, Zenon DEF all
  <2> QED
    BY <2>9, <2>11, Zenon DEF UnderWay
<1>18. ASSUME stops PROVE ReturnsKeys(y)
  <2>1. x.op = x.phase
    BY <1>1, <1>18 DEF UnderWay
  <2>2. KeysWithin(all, KeySet) # {}
    <3>1. key \in KeysWithin(more, KeySet)
      BY <1>7, <1>18
    <3> QED
      BY <1>10, <3>1 DEF KeysWithin
  <2>3. x.result = {} /\ all = ToSet(y.other.elems)
    BY <1>5, <1>13, <1>18 DEF TakenAre, all
  <2>4. y.op \in {"contains", "isdisjoint"} /\ y.result = {}
    BY <1>9, <1>13, <1>18, <2>1, <2>3
  <2>5. y.answer = (y.op = "contains")
    BY <1>13, <1>14, <1>18, <2>1
  <2>6. y.op = "contains" => y.answer = (KeysWithin(all, KeySet) # {})
    BY <2>2, <2>5, Zenon
  <2>7. y.op = "isdisjoint" => y.answer = (KeysWithin(all, KeySet) = {})
    BY <2>2, <2>5
  <2> QED
    BY <2>3, <2>4, <2>6, <2>7 DEF ReturnsKeys
<1>19. KeysOperation(y)
  <2>1. ToSet(y.rest) \subseteq ToSet(y.other.elems) /\ all = ToSet(y.other.elems)
    BY <1>1, <1>3, <1>13 DEF all
  <2>2. y.result \subseteq KeySet \cup all /\ y.kept \subseteq KeySet \cup all
    BY <1>1, <1>11, <1>13
  <2> HIDE DEF stops
  <2>3. y.pc = "next" => UnderWay(y)
    BY <1>13, <1>17
  <2>4. y.pc = "done" => ReturnsKeys(y)
    BY <1>13, <1>18
  <2> QED
    BY <1>12, <2>1, <2>2, <2>3, <2>4 DEF KeysOperation
<1> QED
  BY <1>6, <1>19

\* The end of the elements.
LEMMA KeysEndKept ==
  ASSUME CalmTable, KeysOperation(view), KeysEnd
  PROVE  KeysOperation(view')
<1> DEFINE x == view
           y == view'
           all == ToSet(x.other.elems)
           list == SetToSeq(all)
           missing == {key \in KeySet : IdentityOf[key] \notin x.identities}
<1>1. /\ x \in ViewType /\ x.pc = "next" /\ x.rest = <<>> /\ UnderWay(x)
      /\ x.result \subseteq KeySet \cup all /\ x.kept \subseteq KeySet \cup all
  BY DEF KeysOperation, KeysEnd
<1>2. /\ x.op \in KeyOps /\ x.phase \in Loops /\ x.other \in KeyOperands
      /\ x.kept \in SUBSET (Keys \cup {NoKey}) /\ x.result \in SUBSET (Keys \cup {NoKey})
      /\ x.phase = x.op \/ (x.op = "xor" /\ x.phase \in {"sub1", "sub2"})
      /\ x.op = "xor" /\ x.phase = "sub2" => x.kept = KeySet \ Firsts(all)
      /\ x.op \in {"and1", "and2", "or1", "or2", "sub1", "sub2", "xor", "contains",
                   "isdisjoint"}
  BY <1>1, KeysViewAssumption DEF ViewType, UnderWay
<1>3. /\ all \in SUBSET (Keys \cup {NoKey}) /\ list \in Seq(Keys \cup {NoKey})
      /\ ToSet(list) = all /\ ToSet(<<>>) = {} /\ <<>> \in Seq(Keys \cup {NoKey})
      /\ KeySet \in SUBSET Keys
  BY <1>2, OperandType, StoredKeys, EmptySeq, ListElements
<1>4. PICK T \in SUBSET (Keys \cup {NoKey}) :
        /\ TakenAre(x, T)
        /\ ~ (x.op = "sub2" /\ x.other.oneshot) => T \cup ToSet(x.rest) = all
  BY <1>1 DEF UnderWay
<1>5. ~ (x.op = "sub2" /\ x.other.oneshot) => T = all
  BY <1>1, <1>3, <1>4
<1>6. ~ (x.op = "sub2" /\ x.other.oneshot) =>
        /\ x.phase = "and1" => x.result = Firsts(all)
        /\ x.phase = "and2" => x.result = KeysWithin(all, KeySet)
        /\ x.phase = "or1" => x.result = KeySet \cup KeysOutside(all, KeySet)
        /\ x.phase = "or2" => x.result = all /\ x.identities = IdentitiesOf(all)
        /\ x.phase = "sub1" => x.result = KeySet \ Firsts(all)
        /\ x.phase = "sub2" => x.result = KeysOutside(all, KeySet)
        /\ x.phase \in {"contains", "isdisjoint"} =>
             x.result = {} /\ KeysWithin(all, KeySet) = {}
  BY <1>4, <1>5, Zenon DEF TakenAre, KeysOutside
<1>7. y = CASE x.op = "xor" /\ x.phase = "sub1" ->
                 [x EXCEPT !.phase = "sub2", !.rest = list, !.kept = x.result,
                           !.result = all]
            [] x.op = "xor" /\ x.phase = "sub2" ->
                 [x EXCEPT !.pc = "done", !.result = @ \cup x.kept]
            [] x.phase = "or2" -> [x EXCEPT !.pc = "done", !.result = @ \cup missing]
            [] x.phase \in {"contains", "isdisjoint"} ->
                 [x EXCEPT !.pc = "done", !.answer = x.phase = "isdisjoint"]
            [] OTHER -> [x EXCEPT !.pc = "done"]
  BY DEF KeysEnd, Once
<1> SUFFICES KeysOperation(y)
  OBVIOUS
<1> HIDE DEF list, y
<1>8. CASE x.op = "xor" /\ x.phase = "sub1"
  <2>1. y = [x EXCEPT !.phase = "sub2", !.rest = list, !.kept = x.result, !.result = all]
    BY <1>7, <1>8
  <2> HIDE DEF all
  <2>2. /\ y \in ViewType /\ y.op = "xor" /\ y.phase = "sub2" /\ y.rest = list
        /\ y.kept = x.result /\ y.result = all /\ y.other = x.other /\ y.pc = "next"
        /\ y.answer = x.answer
    BY <1>1, <1>2, <1>3, <1>8, <2>1 DEF ViewType, Loops
  <2>3. y.kept = KeySet \ Firsts(all) /\ y.answer = NULL
    BY <1>1, <1>6, <1>8, <2>2 DEF UnderWay
  <2>4. TakenAre(y, {})
    BY <2>2, NothingWithin DEF TakenAre, all
  <2>5. \E U \in SUBSET (Keys \cup {NoKey}) :
          /\ TakenAre(y, U)
          /\ ~ (y.op = "sub2" /\ y.other.oneshot) => U \cup ToSet(y.rest) = all
    <3> WITNESS {} \in SUBSET (Keys \cup {NoKey})
    <3> QED
      BY <1>3, <2>2, <2>4
  <2>6. UnderWay(y)
    BY <2>2, <2>3, <2>5 DEF UnderWay, all
  <2>7. all = ToSet(y.other.elems)
    BY <2>2 DEF all
  <2> QED
    BY <1>1, <1>3, <2>2, <2>6, <2>7 DEF KeysOperation
<1>9. CASE ~ (x.op = "xor" /\ x.phase = "sub1")
  <2>1. /\ y \in ViewType /\ y.op = x.op /\ y.pc = "done" /\ y.other = x.other
        /\ y.kept = x.kept /\ y.rest = x.rest
        /\ y.result = x.result \cup (IF x.op = "xor" THEN x.kept
                                     ELSE IF x.op = "or2" THEN missing ELSE {})
        /\ x.phase \in {"contains", "isdisjoint"} => y.answer = (x.phase = "isdisjoint")
    <3> HIDE DEF all
    <3>1. CASE x.op = "xor" /\ x.phase = "sub2"
      <4>1. y = [x EXCEPT !.pc = "done", !.result = @ \cup x.kept]
        BY <1>7, <3>1
      <4> QED
        BY <1>1, <1>2, <3>1, <4>1 DEF ViewType
    <3>2. CASE x.phase = "or2"
      <4>1. y = [x EXCEPT !.pc = "done", !.result = @ \cup missing] /\ x.op = "or2"
        BY <1>2, <1>7, <3>2
      <4>2. missing \in SUBSET (Keys \cup {NoKey})
        BY <1>3
      <4> HIDE DEF missing
      <4> QED
        BY <1>1, <1>2, <3>2, <4>1, <4>2 DEF ViewType
    <3>3. CASE x.phase \in {"contains", "isdisjoint"}
      <4> DEFINE answer == x.phase = "isdisjoint"
      <4>1. y = [x EXCEPT !.pc = "done", !.answer = answer] /\ x.op = x.phase
        BY <1>2, <1>7, <3>3
      <4>2. answer \in BOOLEAN \cup {NULL}
        BY Zenon
      <4> HIDE DEF answer
      <4>3. /\ y \in ViewType /\ y.op = x.op /\ y.pc = "done" /\ y.other = x.other
            /\ y.kept = x.kept /\ y.rest = x.rest /\ y.result = x.result
            /\ y.answer = answer
        BY <1>1, <3>3, <4>1, <4>2 DEF ViewType
      <4> QED
        BY <3>3, <4>1, <4>3 DEF answer
    <3>4. CASE /\ ~ (x.op = "xor" /\ x.phase = "sub2")
               /\ x.phase \notin {"or2", "contains", "isdisjoint"}
      <4>1. y = [x EXCEPT !.pc = "done"] /\ x.op \notin {"xor", "or2"}
        BY <1>2, <1>7, <1>9, <3>4 DEF Loops
      <4>2. /\ y \in ViewType /\ y.op = x.op /\ y.pc = "done" /\ y.other = x.other
            /\ y.kept = x.kept /\ y.rest = x.rest /\ y.result = x.result
        BY <1>1, <4>1 DEF ViewType
      <4> QED
        BY <3>4, <4>1, <4>2
    <3> QED
      BY <3>1, <3>2, <3>3, <3>4
  <2> DEFINE F == Firsts(all)
             W == KeysWithin(all, KeySet)
             O == KeysOutside(all, KeySet)
  <2>2. x.phase = "or2" => missing = KeysOutside(KeySet, all)
    <3>1. NoKey \notin KeySet
      BY <1>3, KeysViewAssumption
    <3>2. KeysOutside(KeySet, all) = {key \in KeySet : IdentityOf[key] \notin IdentitiesOf(all)}
      BY <3>1 DEF KeysOutside, KeysWithin
    <3>3. x.phase = "or2" => x.identities = IdentitiesOf(all)
      BY <1>2, <1>6
    <3> QED
      BY <3>2, <3>3
  <2>3. all = ToSet(y.other.elems)
    BY <2>1
  <2> HIDE DEF missing
  <2> DEFINE K == KeysOutside(KeySet, all)
  <2> HIDE DEF all, F, W, O, K
  <2>4. ~ (x.op = "sub2" /\ x.other.oneshot) =>
          /\ x.phase = "and1" => x.result = F
          /\ x.phase = "and2" => x.result = W
          /\ x.phase = "or1" => x.result = KeySet \cup O
          /\ x.phase = "or2" => x.result = all /\ missing = K
          /\ x.phase = "sub1" => x.result = KeySet \ F
          /\ x.phase = "sub2" => x.result = O
          /\ x.phase \in {"contains", "isdisjoint"} => x.result = {} /\ W = {}
    BY <1>6, <2>2, Zenon DEF F, W, O, K
  <2>5. /\ y.op = "and1" => y.result = F
        /\ y.op = "and2" => y.result = W
        /\ y.op = "or1" => y.result = KeySet \cup O
        /\ y.op = "or2" => y.result = all \cup K
        /\ y.op = "sub1" => y.result = KeySet \ F
        /\ y.op = "sub2" /\ ~ y.other.oneshot => y.result = O
    BY <1>2, <2>1, <2>4
  <2>6. y.op = "xor" => y.result = O \cup (KeySet \ F)
    BY <1>2, <1>9, <2>1, <2>4 DEF F, Loops
  <2>7. y.op \in {"contains", "isdisjoint"} =>
          y.result = {} /\ W = {} /\ y.answer = (y.op = "isdisjoint")
    BY <1>2, <2>1, <2>4
  <2>8. /\ y.op = "contains" => y.result = {} /\ y.answer = (W # {})
        /\ y.op = "isdisjoint" => y.result = {} /\ y.answer = (W = {})
    <3>1. "contains" # "isdisjoint"
      OBVIOUS
    <3> QED
      BY <2>7, <3>1
  <2>9. ReturnsKeys(y)
    BY <2>3, <2>5, <2>6, <2>8, Zenon DEF ReturnsKeys, F, W, O, K
  <2>10. y.result \subseteq KeySet \cup all /\ y.kept \subseteq KeySet \cup all
    <3>1. missing \subseteq KeySet
      BY DEF missing
    <3> QED
      BY <1>1, <2>1, <3>1 DEF all
  <2>11. ToSet(y.rest) \subseteq all
    BY <1>1, <1>3, <2>1
  <2> QED
    BY <2>1, <2>3, <2>9, <2>10, <2>11 DEF KeysOperation
<1> QED
  BY <1>8, <1>9

\* An operation that has ended, or has not, changes in one of these ways.
LEMMA KeysNextKept ==
  ASSUME KeysInvariant, Idle /\ KeysNext
  PROVE  KeysOperation(view')
<1>1. CalmTable
  BY CalmWhenIdle DEF KeysInvariant
<1>2. ASSUME NEW op \in KeyOps, NEW other \in KeyOperands, BeginKeys(op, other)
      PROVE  KeysOperation(view')
  <2>1. view = NoView
    <3>1. view.op = "none"
      BY <1>2 DEF BeginKeys
    <3>2. view \in ViewType => view.op \in KeyOps
      BY DEF ViewType
    <3> QED
      BY <3>1, <3>2, KeysViewAssumption DEF KeysInvariant, KeysOperation
  <2> QED
    BY <1>1, <1>2, <2>1, BeginKeysKept
<1>3. ASSUME view.pc = "next" PROVE KeysOperation(view)
  BY <1>3 DEF KeysInvariant, NoView
<1>4. CASE TakeKey
  <2>1. view.pc = "next"
    BY <1>4 DEF TakeKey
  <2> QED
    BY <1>1, <1>3, <1>4, <2>1, TakeKeyKept
<1>5. CASE KeysEnd
  <2>1. view.pc = "next"
    BY <1>5 DEF KeysEnd
  <2> QED
    BY <1>1, <1>3, <1>5, <2>1, KeysEndKept
<1>6. CASE KeysFail
  <2>1. view.pc = "next" /\ view' = [view EXCEPT !.pc = "raised"]
    BY <1>6 DEF KeysFail
  <2>2. KeysOperation(view)
    BY <1>3, <2>1
  <2> DEFINE y == view'
  <2>3. /\ y \in ViewType /\ y.pc = "raised" /\ y.result = view.result
        /\ y.kept = view.kept /\ y.rest = view.rest /\ y.other = view.other
    BY <2>1, <2>2 DEF KeysOperation, ViewType
  <2> HIDE DEF y
  <2>4. KeysOperation(y)
    BY <2>2, <2>3 DEF KeysOperation
  <2> QED
    BY <2>4 DEF y
<1> QED
  BY <1>2, <1>4, <1>5, <1>6 DEF KeysNext

\* It is one for the table as it is, which has not changed.
LEMMA SameOperation ==
  ASSUME keys' = keys, KeysOperation(view')
  PROVE  KeysOperation(view)'
<1>1. KeySet' = KeySet
  BY DEF KeySet, Live
<1>2. \A S : Firsts(S)' = Firsts(S)
  BY DEF Firsts, FirstSpelling, Live, KeySet
<1>3. ReturnsKeys(view') => ReturnsKeys(view)'
  BY <1>1, <1>2 DEF ReturnsKeys
<1>4. UnderWay(view') => UnderWay(view)'
  BY <1>1, <1>2 DEF UnderWay, TakenAre
<1> QED
  BY <1>1, <1>3, <1>4 DEF KeysOperation

\* A call, and an operation of the keys view, keep the invariant.
LEMMA KeysStepKept ==
  ASSUME KeysInvariant, [\/ view.op = "none" /\ Next /\ UNCHANGED view
                         \/ Idle /\ KeysNext]_keysVars
  PROVE  KeysInvariant'
<1>1. CASE view.op = "none" /\ Next /\ UNCHANGED view
  <2>1. view = NoView
    <3>1. view \in ViewType => view.op \in KeyOps
      BY DEF ViewType
    <3> QED
      BY <1>1, <3>1, KeysViewAssumption DEF KeysInvariant, KeysOperation
  <2>2. OrderInvariant'
    BY <1>1, NextOrdered DEF KeysInvariant
  <2>3. Identified(keys')
    BY <1>1, NextIdentified DEF KeysInvariant, OrderInvariant
  <2> QED
    BY <1>1, <2>1, <2>2, <2>3 DEF KeysInvariant, Identified
<1>2. CASE Idle /\ KeysNext
  <2>1. KeysOperation(view')
    BY <1>2, KeysNextKept
  <2>2. UNCHANGED <<keys, used, version, ret, bulk>>
    BY <1>2 DEF KeysNext, vars
  <2>3. KeysOperation(view)'
    BY <2>1, <2>2, SameOperation
  <2>4. OrderInvariant' /\ Identified(keys)' /\ Idle'
    BY <1>2, <2>2 DEF KeysInvariant, OrderInvariant, TableInvariant, Idle
  <2> QED
    BY <2>3, <2>4 DEF KeysInvariant
<1>3. CASE UNCHANGED keysVars
  <2>1. keys' = keys /\ used' = used /\ bulk' = bulk /\ view' = view
    BY <1>3 DEF keysVars, vars
  <2>2. (OrderInvariant /\ Identified(keys) /\ Idle => OrderInvariant' /\ Identified(keys)' /\ Idle')
        /\ (OrderInvariant /\ Identified(keys) => OrderInvariant' /\ Identified(keys)')
    BY <2>1 DEF OrderInvariant, TableInvariant, Idle, Identified
  <2>3. KeysOperation(view) => KeysOperation(view')
    BY <2>1
  <2> QED
    BY <2>1, <2>2, <2>3, SameOperation DEF KeysInvariant
<1> QED
  BY <1>1, <1>2, <1>3

\* The invariant always holds.
LEMMA KeysAlways == KeysSpec => []KeysInvariant
<1>1. Init /\ KeysInit => KeysInvariant
  <2> SUFFICES ASSUME Init, KeysInit PROVE KeysInvariant
    OBVIOUS
  <2>1. TableInvariant /\ IsOrdered(keys)
    BY InitSound
  <2>2. Live(keys) = {}
    <3>1. used = 0
      BY DEF Init
    <3>2. IsSound(keys) /\ used = Cardinality(Live(keys))
      BY <2>1 DEF TableInvariant
    <3>3. IsFiniteSet(Live(keys))
      BY <3>2, LiveFinite DEF IsSound
    <3> DEFINE live == Live(keys)
    <3>4. IsFiniteSet(live) /\ Cardinality(live) = 0
      BY <3>1, <3>2, <3>3
    <3> HIDE DEF live
    <3>5. live = {}
      BY <3>4, FS_EmptySet
    <3> QED
      BY <3>5 DEF live
  <2> QED
    BY <2>1, <2>2 DEF KeysInvariant, KeysInit, OrderInvariant, Identified
<1> QED
  BY <1>1, KeysStepKept, PTL DEF KeysSpec

\* The type of the operation, and that what a set operation returns are keys
\* of the multidict or elements of the operand.
THEOREM KeysAlwaysTyped == KeysSpec => []KeysTypeOK
<1>1. KeysInvariant => KeysTypeOK
  BY DEF KeysInvariant, KeysTypeOK, KeysOperation, ViewType, NoView
<1> QED
  BY <1>1, KeysAlways, PTL

\* With one spelling of each key, the first spelling of the keys of the operand
\* that are there is the spelling they have in the multidict.
LEMMA OneSpelling ==
  ASSUME CalmTable, NEW other \in SUBSET (Keys \cup {NoKey}),
         \A k, l \in KeySet : IdentityOf[k] = IdentityOf[l] => k = l
  PROVE  /\ Firsts(other) = KeysWithin(KeySet, other)
         /\ KeySet \ Firsts(other) = KeysOutside(KeySet, other)
<1>1. KeySet \in SUBSET Keys /\ NoKey \notin Keys
  BY StoredKeys, KeysViewAssumption
<1>2. ASSUME NEW k \in KeysWithin(other, KeySet)
      PROVE  FirstSpelling(k) \in KeysWithin(KeySet, other)
  <2>1. k \in Keys /\ k \in other \ {NoKey} /\ IdentityOf[k] \in IdentitiesOf(KeySet)
    BY DEF KeysWithin
  <2>2. /\ FirstSpelling(k) \in KeySet
        /\ IdentityOf[FirstSpelling(k)] = IdentityOf[k]
    BY <2>1, StoredKeys
  <2> QED
    BY <1>1, <2>1, <2>2 DEF KeysWithin, IdentitiesOf
<1>3. ASSUME NEW k \in KeysWithin(KeySet, other)
      PROVE  k \in Firsts(other)
  <2>1. PICK l \in other \ {NoKey} : IdentityOf[l] = IdentityOf[k]
    BY DEF KeysWithin, IdentitiesOf
  <2>2. k \in KeySet /\ l \in Keys
    BY DEF KeysWithin
  <2>3. IdentityOf[l] \in IdentitiesOf(KeySet)
    BY <1>1, <2>1, <2>2 DEF IdentitiesOf
  <2>4. FirstSpelling(l) \in KeySet /\ IdentityOf[FirstSpelling(l)] = IdentityOf[l]
    BY <2>2, <2>3, StoredKeys
  <2>5. FirstSpelling(l) = k
    BY <2>1, <2>2, <2>4
  <2> QED
    BY <2>1, <2>3, <2>5 DEF Firsts, KeysWithin
<1>4. Firsts(other) = KeysWithin(KeySet, other)
  BY <1>2, <1>3 DEF Firsts
<1> QED
  BY <1>4 DEF KeysOutside

\* Each operation returns what the set operation of its name does, up to the
\* case of the keys.
THEOREM KeysAlwaysExact == KeysSpec => []KeysExact
<1>1. KeysInvariant => KeysExact
  <2> DEFINE own == KeySet
             other == ToSet(view.other.elems)
  <2> SUFFICES ASSUME KeysInvariant, view.op # "none", view.pc = "done",
                      \A k, l \in own : IdentityOf[k] = IdentityOf[l] => k = l,
                      ~ (view.op = "sub2" /\ view.other.oneshot)
               PROVE  IsExact
    BY DEF KeysExact
  <2>1. Idle /\ KeysOperation(view) /\ CalmTable
    BY CalmWhenIdle DEF KeysInvariant, NoView
  <2>2. view \in ViewType /\ ReturnsKeys(view)
    BY <2>1 DEF KeysOperation
  <2>3. other \in SUBSET (Keys \cup {NoKey})
    BY <2>2, OperandType DEF ViewType
  <2> DEFINE F == Firsts(other)
             W == KeysWithin(other, own)
             W2 == KeysWithin(own, other)
             O == KeysOutside(other, own)
             O2 == KeysOutside(own, other)
  <2>4. F = W2 /\ own \ F = O2
    BY <2>1, <2>3, OneSpelling
  <2>5. view.op \in {"and1", "and2", "or1", "or2", "sub1", "sub2", "xor", "contains",
                     "isdisjoint"}
    BY <2>2, KeysViewAssumption DEF ViewType
  <2> HIDE DEF own, other, F, W, W2, O, O2
  <2>6. /\ view.op = "and1" => view.result = F
        /\ view.op = "and2" => view.result = W
        /\ view.op = "or1" => view.result = own \cup O
        /\ view.op = "or2" => view.result = other \cup O2
        /\ view.op = "sub1" => view.result = own \ F
        /\ view.op = "sub2" => view.result = O
        /\ view.op = "xor" => view.result = O \cup (own \ F)
        /\ view.op = "contains" => view.result = {} /\ view.answer = (W # {})
        /\ view.op = "isdisjoint" => view.result = {} /\ view.answer = (W = {})
    BY <2>2, Zenon DEF ReturnsKeys, own, other, F, W, W2, O, O2
  <2>7. KeysResult(view.op, own, other)
          = CASE view.op = "and1" -> W2
              [] view.op = "and2" -> W
              [] view.op = "or1" -> own \cup O
              [] view.op = "or2" -> other \cup O2
              [] view.op = "sub1" -> O2
              [] view.op = "sub2" -> O
              [] view.op = "xor" -> O2 \cup O
              [] OTHER -> {}
    BY DEF KeysResult, W, W2, O, O2
  <2>8. view.result = KeysResult(view.op, own, other)
    BY <2>4, <2>5, <2>6, <2>7
  <2>9. /\ view.op = "contains" => view.answer = (W # {})
        /\ view.op = "isdisjoint" => view.answer = (W = {})
    BY <2>6, Zenon
  <2> QED
    BY <2>8, <2>9, Zenon DEF IsExact, own, other, W
<1> QED
  BY <1>1, KeysAlways, PTL

\* With several spellings, the operations that name a key of the multidict
\* name the one of its first item.
THEOREM FirstSpellingAlways == KeysSpec => []FirstSpellingOnly
<1>1. KeysInvariant => FirstSpellingOnly
  <2> SUFFICES ASSUME KeysInvariant, view.op # "none", view.pc = "done"
               PROVE  /\ view.op = "and1" => view.result = Firsts(ToSet(view.other.elems))
                      /\ view.op = "sub1" =>
                           view.result = KeySet \ Firsts(ToSet(view.other.elems))
    BY Zenon DEF FirstSpellingOnly, Firsts
  <2>1. KeysOperation(view)
    BY DEF KeysInvariant, NoView
  <2> QED
    BY <2>1, Zenon DEF KeysOperation, ReturnsKeys
<1> QED
  BY <1>1, KeysAlways, PTL

-----------------------------------------------------------------------------
(* The items view: what the code does to a table with marks in it.         *)

\* Building the indices of a table touches nothing but the indices, whatever
\* the entries carry.
LEMMA BuildTouchesIndices ==
  ASSUME NEW ks, IsHtKeys(ks), NEW n \in Nat, NEW update \in BOOLEAN
  PROVE  \E ix : htkeys_build_indices(ks, n, update) = [ks EXCEPT !.indices = ix]
<1> DEFINE k == ks.log2_size
           T == {[ks EXCEPT !.indices = ix] : ix \in [Slots(k) -> Int]}
           step == [p \in T \X (1..n) |-> IndexEntry(p[1], p[2] - 1, update)]
<1>1. NoIndices(ks) \in T
  <2>1. [s \in Slots(k) |-> DKIX_EMPTY] \in [Slots(k) -> Int]
    BY DEF DKIX_EMPTY
  <2> QED
    BY <2>1 DEF NoIndices
<1>2. ASSUME NEW t \in T, NEW i \in Int PROVE IndexEntry(t, i, update) \in T
  <2>1. PICK ix \in [Slots(k) -> Int] : t = [ks EXCEPT !.indices = ix]
    OBVIOUS
  <2> DEFINE slot == htkeys_find_empty_slot(t, BuildHash(t.entries[i], update))
             new == [ix EXCEPT ![slot] = i]
  <2> HIDE DEF slot
  <2>2. new \in [Slots(k) -> Int]
    BY <1>2
  <2>3. IndexEntry(t, i, update) = [ks EXCEPT !.indices = new]
    BY <2>1 DEF IndexEntry, slot, IsHtKeys
  <2> HIDE DEF new
  <2> QED
    BY <2>2, <2>3
<1>3. step \in [T \X (1..n) -> T]
  <2>1. \A p \in T \X (1..n) : IndexEntry(p[1], p[2] - 1, update) \in T
    <3> HIDE DEF T
    <3> QED
      BY <1>2
  <2> HIDE DEF T
  <2> QED
    BY <2>1
<1>4. PICK f : IsRun(f, n, T, NoIndices(ks), step)
  <2> HIDE DEF T, step
  <2> QED
    BY <1>1, <1>3, BoundedRecursion
<1>5. f = [i \in 0..n |-> IF i = 0 THEN NoIndices(ks)
                                  ELSE IndexEntry(f[i - 1], i - 1, update)]
  <2>1. ASSUME NEW i \in 1..n
        PROVE  f[i] = IndexEntry(f[i - 1], i - 1, update)
    <3> HIDE DEF T
    <3>1. f \in [0..n -> T] /\ f[i] = step[<<f[i - 1], i>>]
      BY <1>4 DEF IsRun
    <3>2. <<f[i - 1], i>> \in T \X (1..n)
      BY <3>1
    <3> QED
      BY <3>1, <3>2
  <2>2. f[0] = NoIndices(ks) /\ f = [i \in 0..n |-> f[i]]
    BY <1>4 DEF IsRun
  <2>3. \A i \in 0..n : f[i] = IF i = 0 THEN NoIndices(ks)
                                  ELSE IndexEntry(f[i - 1], i - 1, update)
    <3>1. \A i \in 0..n : i # 0 => i \in 1..n
      OBVIOUS
    <3> HIDE DEF T, step
    <3> QED
      BY <2>1, <2>2, <3>1, Zenon
  <2> HIDE DEF T, step
  <2> QED
    BY <2>2, <2>3
<1>6. PICK g : /\ g = [i \in 0..n |-> IF i = 0 THEN NoIndices(ks)
                                     ELSE IndexEntry(g[i - 1], i - 1, update)]
               /\ htkeys_build_indices(ks, n, update) = g[n]
  BY <1>5, Zenon DEF htkeys_build_indices
<1>7. g[n] \in T
  <2>1. CASE n = 0
    BY <1>1, <1>6, <2>1
  <2>2. CASE n # 0
    <3> HIDE DEF T
    <3>1. 0..n \subseteq {i \in 0..n : g[i] \in T}
      <4> DEFINE S == {i \in 0..n : g[i] \in T}
      <4>1. 0 \in S
        BY <1>1, <1>6
      <4>2. ASSUME NEW i \in 0..(n - 1), i \in S PROVE i + 1 \in S
        <5>1. i + 1 \in 0..n /\ i + 1 # 0 /\ (i + 1) - 1 = i /\ i \in Int
          OBVIOUS
        <5>2. g[i + 1] = IndexEntry(g[i], i, update)
          BY <1>6, <5>1
        <5> QED
          BY <1>2, <4>2, <5>1, <5>2
      <4> HIDE DEF S
      <4>3. 0..n \subseteq S
        BY <4>1, <4>2, BoundedInduction
      <4> QED
        BY <4>3 DEF S
    <3> QED
      BY <3>1
  <2> QED
    BY <2>1, <2>2
<1> QED
  BY <1>6, <1>7

\* An addition that makes room builds the indices anew: the table changes its
\* size, or the entries close up.
LEMMA AddRebuilds ==
  ASSUME SoundTable, NeedsRoom(keys), NEW key \in Keys, NEW value \in Values,
         AddItem(key, value)
  PROVE  Rebuilds
<1> DEFINE n == Cardinality(Live(keys))
           k == keys.log2_size
           room == MakeRoom(keys, used, FALSE)
           log2 == calculate_log2_keysize(GROWTH_RATE(n))
<1>1. /\ IsSound(keys) /\ IsHtKeys(keys) /\ used = n /\ n \in Nat
      /\ k \in Log2Sizes /\ Capacity(k) \in Nat
      /\ keys.nentries \in 0..Capacity(k) /\ n <= keys.nentries
      /\ keys.usable \in 0..Capacity(k) /\ keys.usable + keys.nentries = Capacity(k)
  BY LiveFinite, SizeTypes DEF SoundTable, IsSound, IsHtKeys
<1>2. \E slot, entry : keys' = StoreEntry(room, slot, entry)
  BY DEF AddItem, AddEntry
<1>3. used' = used + 1
  BY DEF AddItem
<1>4. CASE n < keys.nentries
  <2> DEFINE base == [keys EXCEPT !.entries = CompactEntries(keys, k),
                                  !.usable = @ + keys.nentries - n, !.nentries = n]
  <2>1. room = htkeys_build_indices(base, n, FALSE)
    BY <1>1, <1>4 DEF MakeRoom, _md_shrink
  <2>2. base.nentries = n /\ IsHtKeys(base)
    <3>1. CompactEntries(keys, k) \in [EntryIndices(k) -> Entry]
      BY <1>1, CompactEntriesType
    <3> DEFINE u == keys.usable + keys.nentries - n
    <3>2. u \in 0..Capacity(k) /\ n \in 0..Capacity(k)
      BY <1>1
    <3>3. base = [keys EXCEPT !.entries = CompactEntries(keys, k),
                              !.usable = u, !.nentries = n]
      OBVIOUS
    <3> HIDE DEF u, n, base
    <3> QED
      BY <1>1, <3>1, <3>2, <3>3 DEF IsHtKeys
  <2> HIDE DEF base
  <2>3. PICK ix : room = [base EXCEPT !.indices = ix]
    <3> HIDE DEF room, n
    <3>1. \E ix : htkeys_build_indices(base, n, FALSE) = [base EXCEPT !.indices = ix]
      <4>1. IsHtKeys(base) /\ n \in Nat
        BY <1>1, <2>2
      <4> QED
        BY <4>1, BuildTouchesIndices, Zenon
    <3> QED
      BY <2>1, <3>1, Zenon
  <2>4. room.nentries = n /\ "nentries" \in DOMAIN room
    BY <2>2, <2>3 DEF IsHtKeys
  <2> HIDE DEF room, n
  <2>5. keys'.nentries = n + 1
    BY <1>2, <2>4 DEF StoreEntry
  <2> QED
    BY <1>1, <1>3, <1>4, <2>5 DEF Rebuilds
<1>5. CASE ~ (n < keys.nentries)
  <2>1. keys.nentries = n /\ NeedsGrowth(keys, used)
    BY <1>1, <1>5 DEF NeedsGrowth
  <2>2. ~ (log2 >= SIZE_T_BITS)
    BY <1>1, <2>1 DEF AddItem, CanMakeRoom, TooLarge
  <2>3. n * 3 \in Nat /\ log2 = calculate_log2_keysize(n * 3)
    BY <1>1 DEF GROWTH_RATE
  <2>4. log2 \in Log2Sizes
    <3>1. log2 < SIZE_T_BITS
      BY <2>2, <2>3, KeysizeIsNumber, ConstantsAssumption
    <3> QED
      BY <1>1, <2>3, <3>1, KeysizeSuffices, GrowthSuffices
  <2>5. log2 # k
    <3>1. CASE k = 0
      <4>1. n = 0 /\ log2 = HT_LOG_MINSIZE
        BY <1>1, <2>1, <2>3, <3>1, EmptyGrows
      <4> QED
        BY <3>1, <4>1 DEF HT_LOG_MINSIZE
    <3>2. CASE k # 0
      <4>1. n = Capacity(k)
        BY <1>1, <2>1, <3>2 DEF NeedsRoom
      <4>2. log2 = k + 1
        BY <1>1, <2>3, <3>2, <4>1, GrowthIsOneSize
      <4> QED
        BY <1>1, <4>2, SizeTypes
    <3> QED
      BY <3>1, <3>2
  <2> DEFINE base == [htkeys_new(log2) EXCEPT !.entries = CompactEntries(keys, log2),
                                              !.usable = @ - n, !.nentries = n]
  <2>6. room = htkeys_build_indices(base, n, FALSE)
    BY <1>1, <1>5 DEF MakeRoom, _md_resize
  <2>7. base.log2_size = log2 /\ IsHtKeys(base)
    <3>1. n + 1 <= Capacity(log2) /\ Capacity(log2) \in Nat
      <4> HIDE DEF log2
      <4>1. log2 = calculate_log2_keysize(n * 3) /\ log2 < SIZE_T_BITS
        BY <2>2, <2>3, KeysizeIsNumber, ConstantsAssumption
      <4> QED
        BY <1>1, <2>4, <4>1, GrowthSuffices, KeysizeSuffices, SizeTypes
    <3>2. CompactEntries(keys, log2) \in [EntryIndices(log2) -> Entry]
      <4>1. n <= Capacity(log2)
        BY <1>1, <3>1
      <4> HIDE DEF log2
      <4> QED
        BY <1>1, <2>4, <3>1, <4>1, CompactEntriesType
    <3> DEFINE fresh == htkeys_new(log2)
               u == fresh.usable - n
    <3>3. IsHtKeys(fresh) /\ fresh.log2_size = log2 /\ fresh.usable = Capacity(log2)
      BY <2>4, NewTableType
    <3> HIDE DEF fresh, log2, n
    <3>4. u \in 0..Capacity(log2) /\ n \in 0..Capacity(log2)
      BY <1>1, <3>1, <3>3
    <3>5. base = [fresh EXCEPT !.entries = CompactEntries(keys, log2),
                               !.usable = u, !.nentries = n]
      BY DEF fresh
    <3> HIDE DEF u, base
    <3> QED
      BY <3>2, <3>3, <3>4, <3>5 DEF IsHtKeys
  <2> HIDE DEF base, log2
  <2>8. PICK ix : room = [base EXCEPT !.indices = ix]
    <3> HIDE DEF room, n
    <3>1. \E ix : htkeys_build_indices(base, n, FALSE) = [base EXCEPT !.indices = ix]
      <4>1. IsHtKeys(base) /\ n \in Nat
        BY <1>1, <2>7
      <4> QED
        BY <4>1, BuildTouchesIndices, Zenon
    <3> QED
      BY <2>6, <3>1, Zenon
  <2>9. room.log2_size = log2 /\ "log2_size" \in DOMAIN room
    BY <2>7, <2>8 DEF IsHtKeys
  <2> HIDE DEF room, n
  <2>10. keys'.log2_size = log2
    BY <1>2, <2>9 DEF StoreEntry
  <2> QED
    BY <1>3, <2>5, <2>10 DEF Rebuilds
<1> QED
  BY <1>4, <1>5

\* A search for an identity stops at its unmarked entries, and at all of them.
LEMMA SearchStops ==
  ASSUME NEW ks, IsSound(ks), NEW id \in Identities, NEW hash, hash = HashOf[id],
         NEW own, own = OwnEntries(ks, id), NEW found, found = Matches(ks, hash, id)
  PROVE  /\ hash \in Hashes /\ hash # MARK
         /\ own \in SUBSET Live(ks) /\ own \in SUBSET Nat /\ found \in SUBSET Nat
         /\ \A i \in own : ks.entries[i].hash \in {MARK, hash}
         /\ \A n \in found : /\ IndexAt(ks, hash, n) \in own
                             /\ ks.entries[IndexAt(ks, hash, n)].hash = hash
         /\ found = {} <=> \A i \in own : ks.entries[i].hash = MARK
<1>1. hash \in Hashes /\ hash # MARK
  BY ConstantsAssumption DEF Hashes, MARK
<1>2. own \in SUBSET Live(ks)
  BY DEF OwnEntries
<1>3. Live(ks) \in SUBSET Nat
  BY LiveFinite, SizeTypes DEF IsSound
<1>4. \A i \in own : /\ ks.entries[i].hash \in {MARK, hash} /\ i >= 0
                    /\ ks.entries[i].identity = id
  BY <1>2, <1>3 DEF IsSound, OwnEntries
<1> DEFINE length == PathLength(ks, hash)
<1>5. length \in 0..ProbeSteps(ks.log2_size) /\ ProbeSteps(ks.log2_size) \in Nat
  BY <1>1, NeverFull, EmptySlotFound, SizeTypes
<1> HIDE DEF length
<1>6. \A n : n \in found <=> /\ n \in 0..(length - 1)
                             /\ IndexAt(ks, hash, n) >= 0
                             /\ ks.entries[IndexAt(ks, hash, n)].hash = hash
                             /\ ks.entries[IndexAt(ks, hash, n)].identity = id
  BY Zenon DEF Matches, length
<1>7. found \in SUBSET Nat
  BY <1>5, <1>6
<1>8. ASSUME NEW n \in found
      PROVE  IndexAt(ks, hash, n) \in own /\ ks.entries[IndexAt(ks, hash, n)].hash = hash
  <2>1. IndexAt(ks, hash, n) \in Live(ks)
    BY <1>1, <1>6, PathIsLive DEF length
  <2> QED
    BY <1>6, <2>1 DEF OwnEntries
<1>9. ASSUME NEW j \in own, ks.entries[j].hash = hash
      PROVE  found # {}
  <2>1. j \in Live(ks) /\ hash = HashOf[ks.entries[j].identity]
    BY <1>2, <1>4
  <2>2. PICK n \in 0..(length - 1) : IndexAt(ks, hash, n) = j
    BY <2>1, LiveOnPath DEF length
  <2>3. n \in found
    BY <1>4, <1>6, <1>9, <2>2
  <2> QED
    BY <2>3
<1>10. found = {} <=> \A i \in own : ks.entries[i].hash = MARK
  BY <1>1, <1>4, <1>8, <1>9
<1> QED
  BY <1>1, <1>2, <1>3, <1>4, <1>7, <1>8, <1>10

-----------------------------------------------------------------------------
(* Marks come and go, and nothing else changes.                            *)

HashesOnly(new, ks) ==
  /\ IsSound(new) /\ Live(new) = Live(ks) /\ new.log2_size = ks.log2_size
  /\ \A i \in Live(ks) : /\ new.entries[i].identity = ks.entries[i].identity
                         /\ new.entries[i].key = ks.entries[i].key
                         /\ new.entries[i].value = ks.entries[i].value

\* The items of a table.
ItemSet(ks) == {ItemAt(ks, i) : i \in Live(ks)}

\* The entries of one identity are marked, or some of them, and no other.
MarkedFor(ks, id) ==
  \A i \in Live(ks) : ks.entries[i].hash = MARK => ks.entries[i].identity = id

\* The items stay.
LEMMA SameItems ==
  ASSUME NEW ks, NEW new, HashesOnly(new, ks)
  PROVE  /\ ItemSet(new) = ItemSet(ks)
         /\ \A i \in Live(ks) : ItemAt(new, i) = ItemAt(ks, i)
         /\ \A id : OwnEntries(new, id) = OwnEntries(ks, id)
         /\ Identified(ks) => Identified(new)
         /\ AllHaveKeys(ks) => AllHaveKeys(new)
<1>1. \A i \in Live(ks) : ItemAt(new, i) = ItemAt(ks, i)
  BY DEF HashesOnly, ItemAt
<1>2. ItemSet(new) = ItemSet(ks)
  BY <1>1 DEF HashesOnly, ItemSet
<1>3. \A id : OwnEntries(new, id) = OwnEntries(ks, id)
  BY DEF HashesOnly, OwnEntries
<1> QED
  BY <1>1, <1>2, <1>3 DEF HashesOnly, Identified, AllHaveKeys

\* The entry a search has found is marked.
OneMarked(new, ks, i) ==
  /\ HashesOnly(new, ks)
  /\ \A j \in Live(ks) :
       new.entries[j].hash = IF j = i THEN MARK ELSE ks.entries[j].hash
  /\ \A hash, n : IndexAt(new, hash, n) = IndexAt(ks, hash, n)

\* Marking an entry changes the hash of that entry, and nothing else.
LEMMA EntryMarked ==
  ASSUME NEW ks, IsSound(ks), NEW i \in Live(ks), ks.entries[i].key # NULL,
         NEW new, new = [ks EXCEPT !.entries[i].hash = MARK]
  PROVE  OneMarked(new, ks, i)
<1> DEFINE k == ks.log2_size
           es == [ks.entries EXCEPT ![i] = [@ EXCEPT !.hash = MARK]]
<1>1. IsHtKeys(ks) /\ ks.entries \in [EntryIndices(k) -> Entry]
  BY DEF IsSound, IsHtKeys
<1>2. \A j \in Live(ks) : j \in EntryIndices(k)
  BY <1>1, LiveFinite
<1>3. \A e \in Entry : /\ [e EXCEPT !.hash = MARK] \in Entry
                       /\ [e EXCEPT !.hash = MARK].hash = MARK
                       /\ [e EXCEPT !.hash = MARK].identity = e.identity
                       /\ [e EXCEPT !.hash = MARK].key = e.key
                       /\ [e EXCEPT !.hash = MARK].value = e.value
  BY DEF Entry
<1>4. /\ es \in [EntryIndices(k) -> Entry]
      /\ es[i] = [ks.entries[i] EXCEPT !.hash = MARK]
      /\ \A j \in EntryIndices(k) : j # i => es[j] = ks.entries[j]
  BY <1>1, <1>2, <1>3
<1>5. new = Rewritten(ks, es)
  BY <1>1 DEF Rewritten, IsHtKeys
<1> HIDE DEF es
<1>6. \A j \in EntryIndices(k) :
        /\ es[j].hash = IF j = i THEN MARK ELSE ks.entries[j].hash
        /\ es[j].identity = ks.entries[j].identity
        /\ es[j].key = ks.entries[j].key /\ es[j].value = ks.entries[j].value
  <2> SUFFICES ASSUME NEW j \in EntryIndices(k)
               PROVE  /\ es[j].hash = IF j = i THEN MARK ELSE ks.entries[j].hash
                      /\ es[j].identity = ks.entries[j].identity
                      /\ es[j].key = ks.entries[j].key
                      /\ es[j].value = ks.entries[j].value
    OBVIOUS
  <2>1. ks.entries[j] \in Entry
    BY <1>1
  <2>2. CASE j = i
    BY <1>3, <1>4, <2>1, <2>2
  <2>3. CASE j # i
    BY <1>4, <2>3
  <2> QED
    BY <2>2, <2>3
<1>7. \A j \in Live(ks) : /\ ks.entries[j].hash \in {HashOf[ks.entries[j].identity], MARK}
                          /\ ks.entries[j].key = NULL => ks.entries[j].hash # MARK
                          /\ ks.entries[j].key = NULL <=> ks.entries[j].value = NULL
  BY DEF IsSound
<1>8. \A j \in Live(ks) : /\ es[j].hash \in {HashOf[es[j].identity], MARK}
                          /\ es[j].key = NULL => es[j].hash # MARK
                          /\ es[j].key = NULL <=> es[j].value = NULL
  BY <1>2, <1>6, <1>7
<1>9. IsSound(new) /\ Live(new) = Live(ks) /\ new.log2_size = k
  BY <1>4, <1>5, <1>6, <1>8, RewriteSound
<1>10. new.entries = es /\ new.indices = ks.indices
  BY <1>1, <1>5 DEF Rewritten, IsHtKeys
<1>11. \A hash, n : IndexAt(new, hash, n) = IndexAt(ks, hash, n)
  BY <1>9, <1>10 DEF IndexAt, SlotAt
<1> QED
  BY <1>2, <1>6, <1>9, <1>10, <1>11 DEF HashesOnly, OneMarked

\* The finder restores the marks of its identity.
LEMMA MarksCleaned ==
  ASSUME NEW ks, IsSound(ks), AllHaveKeys(ks), NEW id \in Identities, MarkedFor(ks, id),
         NEW new, new = md_finder_cleanup(ks, HashOf[id])
  PROVE  HashesOnly(new, ks) /\ IsSettled(new)
<1> DEFINE hash == HashOf[id]
           k == ks.log2_size
           path == {IndexAt(ks, hash, n) : n \in 0..(PathLength(ks, hash) - 1)}
           restored(i) == IF i \in path /\ ks.entries[i].hash = MARK
                            THEN [ks.entries[i] EXCEPT !.hash = hash]
                            ELSE ks.entries[i]
           es == [i \in DOMAIN ks.entries |-> restored(i)]
<1>1. new = Rewritten(ks, es)
  BY DEF md_finder_cleanup, Rewritten
<1>2. hash \in Hashes /\ hash # MARK
  BY ConstantsAssumption DEF Hashes, MARK
<1>3. IsHtKeys(ks) /\ ks.entries \in [EntryIndices(k) -> Entry]
  BY DEF IsSound, IsHtKeys
<1>4. \A i \in Live(ks) : i \in EntryIndices(k)
  BY <1>3, LiveFinite
<1>5. \A i \in Live(ks) : ks.entries[i].hash = MARK =>
        i \in path /\ hash = HashOf[ks.entries[i].identity]
  <2> SUFFICES ASSUME NEW i \in Live(ks), ks.entries[i].hash = MARK
               PROVE  i \in path /\ hash = HashOf[ks.entries[i].identity]
    OBVIOUS
  <2>1. hash = HashOf[ks.entries[i].identity]
    BY DEF MarkedFor
  <2> HIDE DEF hash
  <2>2. \E n \in 0..(PathLength(ks, hash) - 1) : IndexAt(ks, hash, n) = i
    BY <2>1, LiveOnPath
  <2> QED
    BY <2>1, <2>2
<1> HIDE DEF hash
<1>6. \A e \in Entry : /\ [e EXCEPT !.hash = hash] \in Entry
                       /\ [e EXCEPT !.hash = hash].identity = e.identity
                       /\ [e EXCEPT !.hash = hash].key = e.key
                       /\ [e EXCEPT !.hash = hash].value = e.value
                       /\ [e EXCEPT !.hash = hash].hash = hash
  BY <1>2 DEF Entry
<1>7. ASSUME NEW i \in EntryIndices(k)
      PROVE  /\ restored(i) \in Entry
             /\ restored(i).identity = ks.entries[i].identity
             /\ restored(i).key = ks.entries[i].key
             /\ restored(i).value = ks.entries[i].value
             /\ restored(i).hash = IF i \in path /\ ks.entries[i].hash = MARK
                                     THEN hash ELSE ks.entries[i].hash
  <2>1. ks.entries[i] \in Entry
    BY <1>3
  <2>2. CASE i \in path /\ ks.entries[i].hash = MARK
    <3>1. restored(i) = [ks.entries[i] EXCEPT !.hash = hash]
      BY <2>2
    <3> HIDE DEF restored, path
    <3> QED
      BY <1>6, <2>1, <2>2, <3>1
  <2>3. CASE ~ (i \in path /\ ks.entries[i].hash = MARK)
    <3>1. restored(i) = ks.entries[i]
      BY <2>3
    <3> HIDE DEF restored, path
    <3> QED
      BY <2>1, <2>3, <3>1
  <2> QED
    BY <2>2, <2>3
<1> HIDE DEF restored, path
<1>8. /\ es \in [EntryIndices(k) -> Entry]
      /\ \A i \in EntryIndices(k) : es[i] = restored(i)
  BY <1>3, <1>7
<1> HIDE DEF es
<1>9. \A i \in Live(ks) : /\ ks.entries[i].hash \in {HashOf[ks.entries[i].identity], MARK}
                          /\ ks.entries[i].key # NULL /\ ks.entries[i].value # NULL
  BY DEF IsSound, AllHaveKeys
<1>10. \A i \in Live(ks) : /\ es[i].key # NULL /\ es[i].value # NULL
                           /\ es[i].hash = HashOf[es[i].identity]
                           /\ es[i].hash # MARK
  <2> SUFFICES ASSUME NEW i \in Live(ks)
               PROVE  /\ es[i].key # NULL /\ es[i].value # NULL
                      /\ es[i].hash = HashOf[es[i].identity] /\ es[i].hash # MARK
    OBVIOUS
  <2>1. i \in EntryIndices(k) /\ es[i] = restored(i)
    BY <1>4, <1>8
  <2>2. CASE ks.entries[i].hash = MARK
    BY <1>2, <1>5, <1>7, <1>9, <2>1, <2>2
  <2>3. CASE ks.entries[i].hash # MARK
    BY <1>7, <1>9, <2>1, <2>3
  <2> QED
    BY <2>2, <2>3
<1>11. IsSound(new) /\ Live(new) = Live(ks) /\ new.log2_size = k
  <2>1. \A i \in EntryIndices(k) : es[i].identity = ks.entries[i].identity
    BY <1>7, <1>8
  <2> QED
    BY <1>1, <1>8, <1>10, <2>1, RewriteSound
<1>12. new.entries = es
  BY <1>1, <1>3 DEF Rewritten, IsHtKeys
<1>13. IsSettled(new)
  BY <1>10, <1>11, <1>12 DEF IsSettled
<1>14. \A i \in Live(ks) : /\ es[i].identity = ks.entries[i].identity
                           /\ es[i].key = ks.entries[i].key
                           /\ es[i].value = ks.entries[i].value
  BY <1>4, <1>7, <1>8
<1> QED
  BY <1>11, <1>12, <1>13, <1>14 DEF HashesOnly

-----------------------------------------------------------------------------
(* The items of a table.                                                   *)

\* The list of the items has each of them.
LEMMA ItemsListed ==
  ASSUME NEW ks, IsSound(ks), AllHaveKeys(ks)
  PROVE  /\ ItemsOf(ks) \in Seq(Item)
         /\ Len(ItemsOf(ks)) = Cardinality(Live(ks))
         /\ ToSet(ItemsOf(ks)) = ItemSet(ks)
         /\ ItemSet(ks) \in SUBSET Item
         /\ \A i \in Live(ks) : ItemAt(ks, i) \in Item
<1> DEFINE c == Cardinality(Live(ks))
<1>1. IsHtKeys(ks) /\ c \in Nat /\ Live(ks) \in SUBSET (0..(ks.nentries - 1))
      /\ ks.nentries \in Nat
  BY LiveFinite, SizeTypes DEF IsSound
<1>2. \A i \in Live(ks) : ItemAt(ks, i) \in Item
  <2>1. ItemType = Item
    BY DEF ItemType, Item
  <2> QED
    BY <2>1, EntryIsItem DEF AllHaveKeys
<1>3. \A n \in 1..c : NthLive(ks, n - 1) \in Live(ks)
  BY <1>1, NthLiveIsLive
<1>4. \A i \in Live(ks) : \E n \in 1..c : NthLive(ks, n - 1) = i
  <2> SUFFICES ASSUME NEW i \in Live(ks) PROVE \E n \in 1..c : NthLive(ks, n - 1) = i
    OBVIOUS
  <2> DEFINE before == {j \in Live(ks) : j < i}
             m == Cardinality(before)
  <2>1. IsFiniteSet(Live(ks)) /\ before \in SUBSET Live(ks) /\ i \notin before
    BY <1>1, LiveFinite
  <2>2. m \in Nat /\ m < c
    <3>1. before # Live(ks)
      BY <2>1
    <3> HIDE DEF before
    <3> QED
      BY <2>1, <3>1, FS_Subset, FS_CardinalityType
  <2>3. \A j \in Live(ks) : Cardinality({l \in Live(ks) : l < j}) = m => j = i
    <3> SUFFICES ASSUME NEW j \in Live(ks), Cardinality({l \in Live(ks) : l < j}) = m, j # i
                 PROVE  FALSE
      OBVIOUS
    <3> DEFINE other == {l \in Live(ks) : l < j}
    <3>1. i \in Int /\ j \in Int /\ \A l \in Live(ks) : l \in Int
      BY <1>1
    <3>2. CASE j < i
      <4>1. other \in SUBSET before /\ other # before /\ IsFiniteSet(before)
        <5>1. j \in before /\ j \notin other
          BY <3>1, <3>2
        <5>2. other \in SUBSET before
          <6>1. \A l \in Live(ks) : l < j => l < i
            BY <3>1, <3>2
          <6> QED
            BY <6>1
        <5>3. IsFiniteSet(before)
          BY <2>1, FS_Subset
        <5> QED
          BY <5>1, <5>2, <5>3
      <4> HIDE DEF other, before
      <4>2. Cardinality(other) < Cardinality(before) /\ Cardinality(other) \in Nat
        BY <4>1, FS_Subset, FS_CardinalityType
      <4> QED
        BY <4>2, <2>2 DEF other
    <3>3. CASE i < j
      <4>1. before \in SUBSET other /\ other # before /\ IsFiniteSet(other)
        <5>1. i \in other /\ i \notin before
          BY <3>1, <3>3
        <5>2. before \in SUBSET other
          <6>1. \A l \in Live(ks) : l < i => l < j
            BY <3>1, <3>3
          <6> QED
            BY <6>1
        <5>3. IsFiniteSet(other)
          BY <2>1, FS_Subset
        <5> QED
          BY <5>1, <5>2, <5>3
      <4> HIDE DEF other, before
      <4>2. Cardinality(before) < Cardinality(other) /\ Cardinality(other) \in Nat
        BY <4>1, FS_Subset, FS_CardinalityType
      <4> QED
        BY <4>2, <2>2 DEF other
    <3> QED
      BY <3>1, <3>2, <3>3
  <2>4. NthLive(ks, m) = i
    <3> HIDE DEF m
    <3>1. NthLive(ks, m) = CHOOSE j \in Live(ks) : Cardinality({l \in Live(ks) : l < j}) = m
      BY DEF NthLive
    <3>2. Cardinality({l \in Live(ks) : l < i}) = m
      BY DEF m
    <3> QED
      BY <2>3, <3>1, <3>2
  <2> HIDE DEF m
  <2>5. m + 1 \in 1..c /\ (m + 1) - 1 = m
    BY <1>1, <2>2
  <2> QED
    BY <2>4, <2>5
<1>5. ItemsOf(ks) = [n \in 1..c |-> ItemAt(ks, NthLive(ks, n - 1))]
  BY DEF ItemsOf
<1>6. ItemsOf(ks) \in Seq(Item) /\ Len(ItemsOf(ks)) = c
  BY <1>1, <1>2, <1>3, <1>5
<1> DEFINE f == ItemsOf(ks)
<1>7. DOMAIN f = 1..c /\ \A n \in 1..c : f[n] = ItemAt(ks, NthLive(ks, n - 1))
  BY <1>5
<1> HIDE DEF f, c
<1>8. ToSet(f) = {f[n] : n \in 1..c}
  BY <1>7 DEF ToSet
<1>9. ToSet(f) = ItemSet(ks)
  BY <1>3, <1>4, <1>7, <1>8 DEF ItemSet
<1> QED
  BY <1>2, <1>6, <1>9 DEF ItemSet, f, c

-----------------------------------------------------------------------------
(* The invariant of an operation.                                          *)

Elem == Item \cup {NoPair}

\* The phases an operation goes through.
Sets == {"and1", "and2", "or1", "or2", "sub1", "sub2"}
Phases == Sets \cup {"contains", "isdisjoint", "le", "ge"}
InPhase(x) ==
  \/ x.op \in Sets \cup {"contains", "isdisjoint"} /\ x.phase = x.op
  \/ x.op = "xor" /\ x.phase \in {"sub1", "sub2"}
  \/ x.op \in {"lt", "le", "eq", "ne"} /\ x.phase = "le"
  \/ x.op \in {"gt", "ge"} /\ x.phase = "ge"

TaskType ==
  [op : Ops \cup {"none"}, phase : Phases \cup {"none"},
   pc : {"next", "eq", "own", "done", "raised"},
   other : Operands \cup {NoPair}, rest : Seq(Elem), arg : Elem, found : Elem,
   step : Nat, version : Nat, log2 : Nat, pos : Nat,
   pairs : SUBSET (Identities \X Values), result : SUBSET Elem,
   answer : BOOLEAN \cup {NULL}, base : Seq(Item), quiet : BOOLEAN,
   want : SUBSET Elem, visited : Seq(Nat)]

\* What is still to be added to the result, or to be seen, when S are the items
\* of the element's key not yet compared with it, of all items there are.
Wanting(x, S, all) ==
  /\ x.phase = "and1" => x.want = x.result \cup Within(S, {x.arg})
  /\ x.phase = "and2" => x.want = x.result \cup Within({x.arg}, S)
  /\ x.phase \in {"or1", "sub2"} => x.want = x.result \cup Outside({x.arg}, S)
  /\ x.phase \in {"contains", "isdisjoint"} => x.want = Within({x.arg}, S)
  /\ x.phase = "ge" => Within({x.arg}, S) \subseteq x.want
  /\ x.phase \notin {"and1", "and2"} => Within({x.arg}, S) = Within({x.arg}, all)

Remaining(x, ks) ==
  {ItemAt(ks, i) : i \in OwnEntries(ks, IdentityOf[x.arg.key]) \ ToSet(x.visited)}

\* The lengths did not rule the comparison out.
Admitted(x) ==
  LET n == Len(x.base)
      m == Len(x.other.elems)
  IN  /\ x.op = "lt" => n < m
      /\ x.op = "le" => n <= m
      /\ x.op \in {"eq", "ne"} => n = m
      /\ x.op = "gt" => n > m
      /\ x.op = "ge" => n >= m

\* An operation that has begun, and one that has not ended.
Begun(x, ver) ==
  /\ x \in TaskType /\ IsInjective(x.visited)
  /\ x.op # "none" /\ InPhase(x) /\ x.other \in Operands /\ x.version <= ver

Running(x, ver) == Begun(x, ver) /\ x.answer = NULL /\ Admitted(x)

\* Between two elements the result is what it should be.
NextOK(x) ==
  /\ x.phase \in Sets => x.result = x.want
  /\ x.phase = "contains" => x.want = {} /\ x.rest # <<>>
  /\ x.phase = "isdisjoint" => x.want = {}
  /\ x.phase = "ge" => ToSet(x.other.elems) \subseteq x.want \cup ToSet(x.rest)
  /\ x.phase # "le"

\* The element taken is all that stands between the rest and what was seen.
ArgumentOpen(x) ==
  x.phase = "ge" => ToSet(x.other.elems) \subseteq x.want \cup ToSet(x.rest) \cup {x.arg}

\* The search goes on where it was: the finder has marked what it has returned.
Continues(x, ks, S) ==
  LET id == IdentityOf[x.arg.key]
  IN  /\ x.log2 = ks.log2_size
      /\ \A n \in Matches(ks, HashOf[id], id) : n >= x.step
      /\ \A i \in OwnEntries(ks, id) :
           ks.entries[i].hash = MARK <=> i \in ToSet(x.visited)
      /\ Wanting(x, S, ItemSet(ks))

\* An equal value found settles what the element has to do with the result.
Settles(x) ==
  /\ x.phase \in {"or1", "sub2"} => x.want = x.result
  /\ x.phase \in {"contains", "isdisjoint"} => x.want # {}
  /\ x.phase = "ge" => x.arg \in x.want

EqOK(x, ks, ver) ==
  /\ x.phase \in Searching
  /\ x.arg \in Item /\ x.found \in Item
  /\ IdentityOf[x.arg.key] = IdentityOf[x.found.key]
  /\ MarkedFor(ks, IdentityOf[x.arg.key])
  /\ ver = x.version => Continues(x, ks, {x.found} \cup Remaining(x, ks))
  /\ ArgumentOpen(x)
  /\ x.arg.value = x.found.value => Settles(x)

\* The items ahead that or2 and sub1 have not collected are still to be added,
\* and those behind have all been met by <= and <.
OwnOK(x, ks, ver) ==
  /\ x.phase \in {"or2", "sub1", "le"}
  /\ x.phase = "le" => x.pairs = {}
  /\ ver = x.version =>
       /\ x.phase = "le" =>
            /\ ToSet(x.base) = ItemSet(ks)
            /\ \A i \in Live(ks) : i < x.pos => ItemAt(ks, i) \in ToSet(x.other.elems)
       /\ x.phase \in Collecting =>
            x.want = x.result \cup
              {ItemAt(ks, i) : i \in {i \in Live(ks) :
                 i >= x.pos /\ <<ks.entries[i].identity, ks.entries[i].value>> \notin x.pairs}}

DoneOK(x) ==
  /\ x.phase = "contains" => x.answer = (x.want # {})
  /\ x.phase = "isdisjoint" => x.answer = (x.want = {})
  /\ x.phase = "le" => x.answer = AnswerResult(x)
  /\ x.phase = "ge" => (x.answer => ToSet(x.other.elems) \subseteq x.want)
  /\ x.phase \in Sets => x.result = x.want

TaskOK(x, ks, ver) ==
  IF x.op = "none" THEN x \in TaskType /\ IsInjective(x.visited) /\ x.pc = "done"
  ELSE /\ Begun(x, ver)
       /\ x.pc \notin {"done", "raised"} => Running(x, ver)
       /\ x.pc = "next" => NextOK(x)
       /\ x.pc = "eq" => EqOK(x, ks, ver)
       /\ x.pc = "own" => OwnOK(x, ks, ver)
       /\ x.pc = "done" => DoneOK(x)

-----------------------------------------------------------------------------
(* Steps of an operation, as what they make of it.                         *)

\* What an element has to do with a set of items, and with one of them.
AloneWithin(e, S) ==
  /\ Within(S, {}) = {} /\ Within({}, S) = {} /\ Outside(S, {}) = S
  /\ Within({e}, S) \in {{}, {e}}
  /\ Outside({e}, S) = {e} \ Within({e}, S)
  /\ Within({NoPair}, S) = {} /\ Within(S, {NoPair}) = {}

WithOneMore(e, f, S) ==
  IF SameItem(e, f)
    THEN /\ Within({e}, {f} \cup S) = {e}
         /\ Within({f} \cup S, {e}) = {f} \cup Within(S, {e})
    ELSE /\ Within({e}, {f} \cup S) = Within({e}, S)
         /\ Within({f} \cup S, {e}) = Within(S, {e})

\* An element has to do with a set and one item more what it has to do with the
\* set and with that item.
LEMMA WithinOne ==
  ASSUME NEW e, NEW f, NEW S
  PROVE  AloneWithin(e, S) /\ WithOneMore(e, f, S)
<1>1. SameItem(f, e) <=> SameItem(e, f)
  BY DEF SameItem
<1>2. \A T, U, g : g \in Within(T, U) <=> g \in T /\ \E h \in U : SameItem(g, h)
  BY DEF Within
<1>3. \A h : ~ SameItem(h, NoPair) /\ ~ SameItem(NoPair, h)
  BY DEF SameItem
<1>4. Within({e}, S) \in {{}, {e}}
  BY <1>2
<1>5. /\ Within(S, {}) = {} /\ Within({}, S) = {} /\ Outside(S, {}) = S
      /\ Outside({e}, S) = {e} \ Within({e}, S)
      /\ Within({NoPair}, S) = {} /\ Within(S, {NoPair}) = {}
  BY <1>2, <1>3 DEF Outside
<1>6. ASSUME ~ SameItem(e, f)
      PROVE  /\ Within({e}, {f} \cup S) = Within({e}, S)
             /\ Within({f} \cup S, {e}) = Within(S, {e})
  <2>1. \A g : g \in Within({e}, {f} \cup S) <=> g \in Within({e}, S)
    BY <1>2, <1>6
  <2>2. \A g : g \in Within({f} \cup S, {e}) <=> g \in Within(S, {e})
    BY <1>1, <1>2, <1>6
  <2> QED
    BY <2>1, <2>2
<1>7. ASSUME SameItem(e, f)
      PROVE  /\ Within({e}, {f} \cup S) = {e}
             /\ Within({f} \cup S, {e}) = {f} \cup Within(S, {e})
  BY <1>1, <1>2, <1>7
<1> QED
  BY <1>4, <1>5, <1>6, <1>7 DEF AloneWithin, WithOneMore

\* What is left as it was, and the two ways to go on: with the next element,
\* or with an answer.
Goes(y, x, adds, ver) ==
  /\ Running(y, ver) /\ y.pc = "next"
  /\ y.op = x.op /\ y.phase = x.phase /\ y.other = x.other /\ y.rest = x.rest
  /\ y.arg = x.arg /\ y.want = x.want /\ y.result = x.result \cup adds
  /\ y.base = x.base /\ y.quiet = x.quiet /\ y.pairs = x.pairs

Answers(y, x, yes, ver) ==
  /\ Begun(y, ver) /\ y.pc = "done" /\ y.answer = yes
  /\ y.op = x.op /\ y.phase = x.phase /\ y.other = x.other
  /\ y.want = x.want /\ y.result = x.result /\ y.base = x.base /\ y.quiet = x.quiet

\* The function that goes on with the next element.
LEMMA GoesOn ==
  ASSUME NEW ver, NEW x, Running(x, ver), NEW adds \in SUBSET Elem
  PROVE  Goes(Follow(x, Then(adds, "next")), x, adds, ver)
<1> DEFINE result == x.result \cup adds
           y == Follow(x, Then(adds, "next"))
<1>1. x \in TaskType
  BY DEF Running, Begun
<1>2. result \in SUBSET Elem
  BY <1>1 DEF TaskType
<1>3. y = [x EXCEPT !.result = result, !.pc = "next"]
  BY DEF Follow, Then
<1> SUFFICES Goes(y, x, adds, ver)
  OBVIOUS
<1> HIDE DEF result, y
<1>4. /\ y \in TaskType /\ y.result = result /\ y.pc = "next"
      /\ y.op = x.op /\ y.phase = x.phase /\ y.other = x.other /\ y.rest = x.rest
      /\ y.arg = x.arg /\ y.want = x.want /\ y.answer = x.answer
      /\ y.version = x.version /\ y.visited = x.visited /\ y.base = x.base
      /\ y.quiet = x.quiet /\ y.pairs = x.pairs
  BY <1>1, <1>2, <1>3 DEF TaskType
<1> QED
  BY <1>4 DEF result, Running, Begun, InPhase, Admitted, Goes

\* A task that has an answer and is done is still a task.
LEMMA DoneTyped ==
  ASSUME NEW x \in TaskType, NEW answer \in BOOLEAN \cup {NULL},
         NEW y, y = [x EXCEPT !.pc = "done", !.answer = answer]
  PROVE  y \in TaskType
BY DEF TaskType

\* The one that has its answer.
LEMMA GivesAnswer ==
  ASSUME NEW ver, NEW x, Begun(x, ver), NEW yes \in BOOLEAN,
         NEW answer, answer = IF x.op = "ne" THEN ~ yes ELSE yes
  PROVE  Answers(Answer(x, yes), x, answer, ver)
<1> DEFINE y == Answer(x, yes)
<1>1. x \in TaskType
  BY DEF Begun
<1>2. answer \in BOOLEAN
  BY Zenon
<1>3. y = [x EXCEPT !.pc = "done", !.answer = answer]
  BY DEF Answer
<1> SUFFICES Answers(y, x, answer, ver)
  OBVIOUS
<1> HIDE DEF y
<1>4. /\ y \in TaskType /\ y.result = x.result /\ y.pc = "done" /\ y.answer = answer
      /\ y.op = x.op /\ y.phase = x.phase /\ y.other = x.other
      /\ y.want = x.want /\ y.base = x.base /\ y.quiet = x.quiet
      /\ y.version = x.version /\ y.visited = x.visited
  <2>1. y \in TaskType
    <3>1. answer \in BOOLEAN \cup {NULL}
      BY <1>2
    <3> QED
      BY <1>1, <1>3, <3>1, DoneTyped
  <2>2. /\ y.result = x.result /\ y.pc = "done" /\ y.answer = answer /\ y.op = x.op
        /\ y.phase = x.phase /\ y.other = x.other /\ y.want = x.want /\ y.base = x.base
        /\ y.quiet = x.quiet /\ y.version = x.version /\ y.visited = x.visited
    BY <1>1, <1>2, <1>3 DEF TaskType
  <2> QED
    BY <2>1, <2>2
<1> QED
  BY <1>4 DEF Begun, InPhase, Answers

\* An answer given in a search is the one that is returned.
LEMMA SearchAnswers ==
  ASSUME NEW ver, NEW x, Running(x, ver), x.phase \in Searching
  PROVE  /\ Answers(Follow(x, Then({}, "true")), x, TRUE, ver)
         /\ Answers(Follow(x, Then({}, "false")), x, FALSE, ver)
<1>1. x \in TaskType /\ x.op # "ne" /\ Begun(x, ver)
  BY DEF Running, Begun, InPhase, Searching, Sets
<1>2. [x EXCEPT !.result = @ \cup {}] = x
  BY <1>1 DEF TaskType
<1>3. /\ Follow(x, Then({}, "true")) = Answer(x, TRUE)
      /\ Follow(x, Then({}, "false")) = Answer(x, FALSE)
  BY <1>2 DEF Follow, Then
<1>4. \A yes \in BOOLEAN : Answers(Answer(x, yes), x, yes, ver)
  <2> SUFFICES ASSUME NEW yes \in BOOLEAN PROVE Answers(Answer(x, yes), x, yes, ver)
    OBVIOUS
  <2>1. yes = IF x.op = "ne" THEN ~ yes ELSE yes
    BY <1>1
  <2> QED
    BY <1>1, <2>1, GivesAnswer
<1> QED
  BY <1>3, <1>4

\* An element that nothing is left of to compare with, or that is no pair.
LEMMA MissedOK ==
  ASSUME NEW ver, NEW ks, NEW all, NEW x, Running(x, ver), x.phase \in Searching,
         Wanting(x, {}, all), ArgumentOpen(x), NEW event \in {"missed", "nopair"},
         NEW y, y = Follow(x, On(x, event))
  PROVE  TaskOK(y, ks, ver) /\ y.pc \in {"next", "done"}
<1>1. x \in TaskType /\ {} \in SUBSET Elem
  BY DEF Running, Begun
<1>2. Within({x.arg}, {}) = {} /\ Within({}, {x.arg}) = {} /\ Outside({x.arg}, {}) = {x.arg}
  <2>1. AloneWithin(x.arg, {x.arg})
    BY WithinOne
  <2> QED
    BY <2>1 DEF AloneWithin
<1>3. CASE x.phase \in {"and1", "and2"}
  <2>1. x.want = x.result
    BY <1>2, <1>3 DEF Wanting
  <2>2. On(x, event) = Then({}, "next")
    BY <1>3 DEF On, and1, and2
  <2>3. Goes(y, x, {}, ver)
    BY <1>1, <2>2, GoesOn
  <2> QED
    BY <1>3, <2>1, <2>3 DEF Goes, TaskOK, Running, Begun, NextOK
<1>4. CASE x.phase \in {"or1", "sub2"}
  <2>1. x.want = x.result \cup {x.arg} /\ {x.arg} \in SUBSET Elem
    BY <1>1, <1>2, <1>4 DEF Wanting, TaskType
  <2>2. On(x, event) = Then({x.arg}, "next")
    BY <1>4 DEF On, or1, sub2
  <2>3. Goes(y, x, {x.arg}, ver)
    BY <2>1, <2>2, GoesOn
  <2> QED
    BY <1>4, <2>1, <2>3 DEF Goes, TaskOK, Running, Begun, NextOK
<1>5. CASE x.phase = "isdisjoint"
  <2>1. x.want = {}
    BY <1>2, <1>5 DEF Wanting
  <2>2. On(x, event) = Then({}, "next")
    BY <1>5 DEF On, isdisjoint
  <2>3. Goes(y, x, {}, ver)
    BY <1>1, <2>2, GoesOn
  <2> QED
    BY <1>5, <2>1, <2>3 DEF Goes, TaskOK, Running, Begun, NextOK, Sets
<1>6. CASE x.phase \in {"contains", "ge"}
  <2>1. x.phase = "contains" => x.want = {}
    BY <1>2 DEF Wanting
  <2>2. On(x, event) = Then({}, "false")
    BY <1>6 DEF On, contains, ge
  <2>3. Answers(y, x, FALSE, ver)
    BY <2>2, SearchAnswers
  <2> QED
    BY <1>6, <2>1, <2>3 DEF Answers, TaskOK, Begun, DoneOK, Sets
<1> QED
  BY <1>3, <1>4, <1>5, <1>6 DEF Searching

\* A search that stops at an equal value.
LEMMA StoppedOK ==
  ASSUME NEW ver, NEW ks, NEW x, Running(x, ver), x.phase \in Searching,
         Settles(x), ArgumentOpen(x), On(x, "equal").next # "search",
         NEW y, y = Follow(x, On(x, "equal"))
  PROVE  TaskOK(y, ks, ver) /\ y.pc \in {"next", "done"}
<1>1. x \in TaskType /\ {} \in SUBSET Elem
  BY DEF Running, Begun
<1>2. x.phase \notin {"and1", "and2"}
  BY DEF On, and1, and2, Then
<1>3. CASE x.phase \in {"or1", "sub2", "ge"}
  <2>1. On(x, "equal") = Then({}, "next")
    BY <1>3 DEF On, or1, sub2, ge
  <2>2. Goes(y, x, {}, ver)
    BY <1>1, <2>1, GoesOn
  <2> QED
    BY <1>3, <2>2 DEF Goes, TaskOK, Running, Begun, NextOK, Settles, ArgumentOpen, Sets
<1>4. CASE x.phase = "contains"
  <2>1. On(x, "equal") = Then({}, "true")
    BY <1>4 DEF On, contains
  <2>2. Answers(y, x, TRUE, ver)
    BY <2>1, SearchAnswers
  <2> QED
    BY <1>4, <2>2 DEF Answers, TaskOK, Begun, DoneOK, Settles, Sets
<1>5. CASE x.phase = "isdisjoint"
  <2>1. On(x, "equal") = Then({}, "false")
    BY <1>5 DEF On, isdisjoint
  <2>2. Answers(y, x, FALSE, ver)
    BY <2>1, SearchAnswers
  <2> QED
    BY <1>5, <2>2 DEF Answers, TaskOK, Begun, DoneOK, Settles, Sets
<1> QED
  BY <1>2, <1>3, <1>4, <1>5 DEF Searching

-----------------------------------------------------------------------------
(* Operations with no call in between: what they should return, from the   *)
(* items they began with.                                                  *)

\* A reflected | of an iterator, which it reads twice.
Loose(x) == x.op = "or2" /\ x.other.oneshot

\* What they should have come to when T are the elements taken so far.
Seen(x, T) ==
  LET own == ToSet(x.base)
      other == ToSet(x.other.elems)
  IN  /\ x.phase = "and1" => x.want = Within(own, T)
      /\ x.phase = "and2" => x.want = Within(T, own)
      /\ x.phase = "or1" => x.want = own \cup Outside(T, own)
      /\ x.op = "sub2" => x.want = Outside(T, own)
      /\ x.op = "xor" /\ x.phase = "sub2" =>
           x.want = Outside(own, other) \cup Outside(T, own)
      /\ x.phase \in {"contains", "isdisjoint", "ge"} =>
           x.want = Within(T, own) /\ x.result = {}
      /\ x.phase = "contains" => Len(x.other.elems) = 1
      /\ x.phase \in Collecting =>
           /\ x.pairs = {<<IdentityOf[e.key], e.value>> : e \in T \ {NoPair}}
           /\ x.want = IF x.phase = "or2" THEN other ELSE {}

\* The same when the elements are exhausted, in the loop over the items.
OwnSeen(x) ==
  LET own == ToSet(x.base)
      other == ToSet(x.other.elems)
  IN  /\ x.phase = "or2" => x.want = other \cup Outside(own, other)
      /\ x.phase = "sub1" => x.want = Outside(own, other)
      /\ x.phase = "le" => x.result = {}

SeenSome(x, T) ==
  T \in SUBSET Elem /\ T \cup ToSet(x.rest) = ToSet(x.other.elems) /\ Seen(x, T)

\* In the middle of a search.
QuietReady(x, ks) ==
  x.quiet => /\ ToSet(x.base) = ItemSet(ks)
             /\ \E T : SeenSome(x, T) /\ x.arg \in T

QuietOK(x, ks) ==
  x.op # "none" /\ x.quiet =>
    /\ x.pc \in {"next", "eq", "own"} => ToSet(x.base) = ItemSet(ks)
    /\ x.pc = "next" /\ ~ Loose(x) => \E T : SeenSome(x, T)
    /\ x.pc = "eq" => \E T : SeenSome(x, T) /\ x.arg \in T
    /\ x.pc = "own" /\ ~ Loose(x) => OwnSeen(x)
    /\ x.pc = "done" /\ ~ Loose(x) => x.result = SetResult(x) /\ x.answer = AnswerResult(x)

\* One element more.
WithinUnion(S, T, e) ==
  /\ Within(S, T \cup {e}) = Within(S, T) \cup Within(S, {e})
  /\ Within(T \cup {e}, S) = Within(T, S) \cup Within({e}, S)
  /\ Outside(T \cup {e}, S) = Outside(T, S) \cup Outside({e}, S)

\* Set operations with one element more are those without it and with it alone.
LEMMA WithinMore ==
  ASSUME NEW S, NEW T, NEW e
  PROVE  WithinUnion(S, T, e)
<1>1. \A A, B, g : g \in Within(A, B) <=> g \in A /\ \E h \in B : SameItem(g, h)
  BY DEF Within
<1>2. \A A, B, g : g \in Outside(A, B) <=> g \in A /\ ~ \E h \in B : SameItem(g, h)
  BY DEF Within, Outside
<1>3. \A g : g \in Within(S, T \cup {e}) <=> g \in Within(S, T) \cup Within(S, {e})
  BY <1>1
<1>4. \A g : g \in Within(T \cup {e}, S) <=> g \in Within(T, S) \cup Within({e}, S)
  BY <1>1
<1>5. \A g : g \in Outside(T \cup {e}, S) <=> g \in Outside(T, S) \cup Outside({e}, S)
  BY <1>2
<1>6. Within(S, T \cup {e}) = Within(S, T) \cup Within(S, {e})
  BY <1>3
<1>7. Within(T \cup {e}, S) = Within(T, S) \cup Within({e}, S)
  BY <1>4
<1>8. Outside(T \cup {e}, S) = Outside(T, S) \cup Outside({e}, S)
  BY <1>5
<1> QED
  BY <1>6, <1>7, <1>8 DEF WithinUnion

\* What the answers of the searching operations are about.
AnswersAbout(x, some, all) ==
  /\ x.phase = "contains" => AnswerResult(x) = some
  /\ x.phase = "isdisjoint" => AnswerResult(x) = ~ some
  /\ x.phase = "ge" => AnswerResult(x) = all
  /\ x.phase \in {"contains", "isdisjoint", "ge", "le"} => SetResult(x) = {}
  /\ x.phase \in Sets => AnswerResult(x) = NULL

\* The answers of contains, isdisjoint, >= and > in these terms, when the
\* lengths were admitted.
LEMMA SearchedAnswer ==
  ASSUME NEW ver, NEW x, Running(x, ver), NEW T, SeenSome(x, T),
         NEW own, own = ToSet(x.base), NEW other, other = ToSet(x.other.elems),
         NEW some, some = (Within(other, own) # {}),
         NEW all, all = (other \subseteq Within(other, own))
  PROVE  AnswersAbout(x, some, all)
<1> DEFINE n == Len(x.base)
           m == Len(x.other.elems)
<1>1. x.base \in Seq(Item) /\ x.other \in Operands /\ InPhase(x) /\ Admitted(x)
  BY DEF Running, Begun, TaskType
<1>2. n \in Nat /\ m \in Nat
  BY <1>1, ItemsViewAssumption
<1>3. some \in BOOLEAN /\ all \in BOOLEAN
  OBVIOUS
<1>4. ASSUME x.phase = "contains" PROVE AnswerResult(x) = some
  <2>1. x.op = "contains"
    BY <1>1, <1>4 DEF InPhase, Sets
  <2> QED
    BY <2>1 DEF AnswerResult
<1>5. ASSUME x.phase = "isdisjoint" PROVE AnswerResult(x) = ~ some
  <2>1. x.op = "isdisjoint"
    BY <1>1, <1>5 DEF InPhase, Sets
  <2>2. AnswerResult(x) = (Within(other, own) = {})
    BY <2>1 DEF AnswerResult
  <2> QED
    BY <2>2
<1>6. ASSUME x.phase = "ge" PROVE AnswerResult(x) = all
  <2>1. x.op \in {"gt", "ge"}
    BY <1>1, <1>6 DEF InPhase, Sets
  <2>2. CASE x.op = "gt"
    <3>1. AnswerResult(x) = (other \subseteq Within(other, own) /\ n > m)
      BY <2>2 DEF AnswerResult
    <3>2. n > m
      BY <1>1, <2>2 DEF Admitted
    <3> QED
      BY <3>1, <3>2
  <2>3. CASE x.op = "ge"
    <3>1. AnswerResult(x) = (other \subseteq Within(other, own) /\ ~ (n < m))
      BY <2>3 DEF AnswerResult
    <3>2. ~ (n < m)
      BY <1>1, <1>2, <2>3 DEF Admitted
    <3> QED
      BY <3>1, <3>2
  <2> QED
    BY <2>1, <2>2, <2>3
<1>7. x.phase \in {"contains", "isdisjoint", "ge", "le"} => SetResult(x) = {}
  BY <1>1 DEF InPhase, Sets, SetResult
<1>8. x.phase \in Sets => AnswerResult(x) = NULL
  BY <1>1 DEF InPhase, Sets, AnswerResult
<1> QED
  BY <1>4, <1>5, <1>6, <1>7, <1>8 DEF AnswersAbout

\* The one element that contains looks for.
LEMMA OneElement ==
  ASSUME NEW x, x.other \in Operands, Len(x.other.elems) = 1, NEW T, SeenSome(x, T), T # {}
  PROVE  T = ToSet(x.other.elems)
<1> DEFINE list == x.other.elems
<1>1. list \in Seq(Item \cup {NoPair}) /\ Len(list) = 1
  BY ItemsViewAssumption
<1>2. ToSet(list) = {list[1]}
  BY <1>1 DEF ToSet
<1>3. T \in SUBSET ToSet(list)
  BY DEF SeenSome
<1> QED
  BY <1>2, <1>3

\* The next element, or the answer.
LEMMA QuietGoes ==
  ASSUME NEW ver, NEW ks, NEW x, NEW adds, NEW y, Goes(y, x, adds, ver),
         x.phase \in Searching, QuietReady(x, ks),
         adds = {} \/ x.phase \in Sets
  PROVE  QuietOK(y, ks)
<1> SUFFICES ASSUME y.quiet, NEW T, SeenSome(x, T), ToSet(x.base) = ItemSet(ks)
             PROVE  QuietOK(y, ks)
  BY DEF QuietOK, QuietReady, Goes
<1>1. y.phase \in {"contains", "isdisjoint", "ge"} => y.result = x.result
  BY DEF Goes, Sets, SeenSome, Seen
<1>2. SeenSome(y, T)
  BY <1>1 DEF SeenSome, Seen, Goes, Collecting, Searching
<1> QED
  BY <1>2 DEF QuietOK, Goes

\* An operation that has its answer has the right one.
LEMMA QuietAnswers ==
  ASSUME NEW ver, NEW ks, NEW x, NEW yes, NEW y, Answers(y, x, yes, ver),
         x.quiet => x.result = SetResult(x) /\ AnswerResult(x) = yes
  PROVE  QuietOK(y, ks)
<1>1. SetResult(y) = SetResult(x) /\ AnswerResult(y) = AnswerResult(x)
  BY DEF Answers, SetResult, AnswerResult
<1> QED
  BY <1>1 DEF Answers, QuietOK

\* After an element that nothing was found for.
LEMMA QuietMissed ==
  ASSUME NEW ver, NEW ks, NEW x, Running(x, ver), x.phase \in Searching,
         Wanting(x, {}, ItemSet(ks)), QuietReady(x, ks),
         NEW event \in {"missed", "nopair"}, NEW y, y = Follow(x, On(x, event))
  PROVE  QuietOK(y, ks)
<1>1. x \in TaskType /\ {} \in SUBSET Elem /\ x.other \in Operands
  BY DEF Running, Begun
<1>2. CASE x.phase \in {"and1", "and2", "isdisjoint"}
  <2>1. On(x, event) = Then({}, "next")
    BY <1>2 DEF On, and1, and2, isdisjoint
  <2>2. Goes(y, x, {}, ver)
    BY <1>1, <2>1, GoesOn
  <2> QED
    BY <2>2, QuietGoes
<1>3. CASE x.phase \in {"or1", "sub2"}
  <2>1. On(x, event) = Then({x.arg}, "next") /\ {x.arg} \in SUBSET Elem
    BY <1>1, <1>3 DEF On, or1, sub2, TaskType
  <2>2. Goes(y, x, {x.arg}, ver)
    BY <2>1, GoesOn
  <2>3. x.phase \in Sets
    BY <1>3 DEF Sets
  <2> QED
    BY <2>2, <2>3, QuietGoes
<1>4. CASE x.phase \in {"contains", "ge"}
  <2>1. On(x, event) = Then({}, "false")
    BY <1>4 DEF On, contains, ge
  <2>2. Answers(y, x, FALSE, ver)
    BY <2>1, SearchAnswers
  <2>3. x.quiet => x.result = SetResult(x) /\ AnswerResult(x) = FALSE
    <3> SUFFICES ASSUME x.quiet PROVE x.result = SetResult(x) /\ AnswerResult(x) = FALSE
      OBVIOUS
    <3> DEFINE own == ToSet(x.base)
               other == ToSet(x.other.elems)
               some == Within(other, own) # {}
               all == other \subseteq Within(other, own)
    <3>1. PICK T : SeenSome(x, T) /\ x.arg \in T
      BY DEF QuietReady
    <3>2. own = ItemSet(ks) /\ T \in SUBSET other /\ Seen(x, T)
      BY <3>1 DEF QuietReady, SeenSome
    <3>3. AnswersAbout(x, some, all)
      <4> HIDE DEF own, other
      <4>0. own = ToSet(x.base) /\ other = ToSet(x.other.elems)
        BY DEF own, other
      <4>1. some = (Within(other, own) # {}) /\ all = (other \subseteq Within(other, own))
        OBVIOUS
      <4> HIDE DEF some, all
      <4> QED
        BY <3>1, <4>0, <4>1, SearchedAnswer
    <3>4. Within({x.arg}, {}) = {}
      <4>1. AloneWithin(x.arg, {x.arg})
        BY WithinOne
      <4> QED
        BY <4>1 DEF AloneWithin
    <3>5. Within({x.arg}, own) = {}
      BY <1>4, <3>2, <3>4 DEF Wanting
    <3>6. x.result = SetResult(x)
      BY <1>4, <3>2, <3>3 DEF Seen, AnswersAbout
    <3>7. CASE x.phase = "contains"
      <4>1. x.want = {} /\ x.want = Within(T, own) /\ Len(x.other.elems) = 1
        BY <3>2, <3>4, <3>7 DEF Wanting, Seen
      <4>2. T = other
        BY <1>1, <3>1, <4>1, OneElement
      <4>3. some = FALSE
        BY <4>1, <4>2
      <4> HIDE DEF some, all
      <4> QED
        BY <3>3, <3>6, <3>7, <4>3 DEF AnswersAbout
    <3>8. CASE x.phase = "ge"
      <4>1. x.arg \in other
        BY <3>1, <3>2
      <4>2. all = FALSE
        <5> HIDE DEF own, other
        <5> QED
          BY <3>5, <4>1 DEF Within
      <4> HIDE DEF some, all
      <4> QED
        BY <3>3, <3>6, <3>8, <4>2 DEF AnswersAbout
    <3> QED
      BY <1>4, <3>7, <3>8
  <2> QED
    BY <2>2, <2>3, QuietAnswers
<1> QED
  BY <1>2, <1>3, <1>4 DEF Searching

\* After a search that stopped at an equal value.
LEMMA QuietStopped ==
  ASSUME NEW ver, NEW ks, NEW x, Running(x, ver), x.phase \in Searching,
         Settles(x), QuietReady(x, ks), On(x, "equal").next # "search",
         NEW y, y = Follow(x, On(x, "equal"))
  PROVE  QuietOK(y, ks)
<1>1. x \in TaskType /\ {} \in SUBSET Elem /\ x.other \in Operands
  BY DEF Running, Begun
<1>2. x.phase \notin {"and1", "and2"}
  BY DEF On, and1, and2, Then
<1>3. CASE x.phase \in {"or1", "sub2", "ge"}
  <2>1. On(x, "equal") = Then({}, "next")
    BY <1>3 DEF On, or1, sub2, ge
  <2>2. Goes(y, x, {}, ver)
    BY <1>1, <2>1, GoesOn
  <2> QED
    BY <2>2, QuietGoes
<1>4. CASE x.phase \in {"contains", "isdisjoint"}
  <2> DEFINE own == ToSet(x.base)
             other == ToSet(x.other.elems)
             some == Within(other, own) # {}
             all == other \subseteq Within(other, own)
  <2>1. x.quiet => x.result = SetResult(x) /\ AnswerResult(x) = (x.phase = "contains")
    <3> SUFFICES ASSUME x.quiet
                 PROVE  x.result = SetResult(x) /\ AnswerResult(x) = (x.phase = "contains")
      OBVIOUS
    <3>1. PICK T : SeenSome(x, T)
      BY DEF QuietReady
    <3>2. T \in SUBSET other /\ Seen(x, T)
      BY <3>1 DEF SeenSome
    <3>3. AnswersAbout(x, some, all)
      <4> HIDE DEF own, other
      <4>0. own = ToSet(x.base) /\ other = ToSet(x.other.elems)
        BY DEF own, other
      <4>1. some = (Within(other, own) # {}) /\ all = (other \subseteq Within(other, own))
        OBVIOUS
      <4> HIDE DEF some, all
      <4> QED
        BY <3>1, <4>0, <4>1, SearchedAnswer
    <3>4. some = TRUE
      <4>1. Within(T, own) # {}
        BY <1>4, <3>2 DEF Settles, Seen
      <4> HIDE DEF own, other
      <4> QED
        BY <3>2, <4>1 DEF Within
    <3>5. x.result = SetResult(x)
      BY <1>4, <3>2, <3>3 DEF Seen, AnswersAbout
    <3> HIDE DEF some, all
    <3> QED
      BY <1>4, <3>3, <3>4, <3>5 DEF AnswersAbout
  <2>2. CASE x.phase = "contains"
    <3>1. On(x, "equal") = Then({}, "true")
      BY <2>2 DEF On, contains
    <3>2. Answers(y, x, TRUE, ver)
      BY <3>1, SearchAnswers
    <3>3. x.quiet => x.result = SetResult(x) /\ AnswerResult(x) = TRUE
      BY <2>1, <2>2
    <3> QED
      BY <3>2, <3>3, QuietAnswers
  <2>3. CASE x.phase = "isdisjoint"
    <3>1. On(x, "equal") = Then({}, "false")
      BY <2>3 DEF On, isdisjoint
    <3>2. Answers(y, x, FALSE, ver)
      BY <3>1, SearchAnswers
    <3>3. x.quiet => x.result = SetResult(x) /\ AnswerResult(x) = FALSE
      BY <2>1, <2>3
    <3> QED
      BY <3>2, <3>3, QuietAnswers
  <2> QED
    BY <1>4, <2>2, <2>3
<1> QED
  BY <1>2, <1>3, <1>4 DEF Searching

-----------------------------------------------------------------------------
(* Searching.                                                              *)

\* Ready to search for the next item.
SearchReady(x, ks, ver) ==
  /\ Running(x, ver) /\ x.phase \in Searching /\ x.arg \in Item /\ ArgumentOpen(x)
  /\ ver = x.version => Continues(x, ks, Remaining(x, ks))

\* A search goes on after a value that was not equal, and intersections after
\* one that was.
LEMMA ReadyAgain ==
  ASSUME NEW ver, NEW ks, NEW x, Running(x, ver), EqOK(x, ks, ver),
         NEW adds, adds = On(x, "equal").adds,
         NEW y, \/ x.arg.value # x.found.value /\ y = x
                \/ /\ x.arg.value = x.found.value /\ On(x, "equal").next = "search"
                   /\ y = [x EXCEPT !.result = @ \cup adds]
  PROVE  /\ SearchReady(y, ks, ver) /\ y.arg = x.arg
         /\ QuietReady(x, ks) => QuietReady(y, ks)
<1> DEFINE all == ItemSet(ks)
           S == Remaining(x, ks)
           e == x.arg
           f == x.found
<1>1. x \in TaskType /\ e \in Item /\ f \in Item /\ IdentityOf[e.key] = IdentityOf[f.key]
  BY DEF Running, Begun, EqOK
<1>2. e # NoPair /\ f # NoPair
  BY <1>1, ItemsViewAssumption
<1>3. SameItem(e, f) <=> e.value = f.value
  BY <1>1, <1>2 DEF SameItem
<1>0. /\ ~ SameItem(e, f) => /\ Within({e}, {f} \cup S) = Within({e}, S)
                             /\ Within({f} \cup S, {e}) = Within(S, {e})
      /\ SameItem(e, f) => /\ Within({e}, {f} \cup S) = {e}
                           /\ Within({f} \cup S, {e}) = {f} \cup Within(S, {e})
      /\ Within({e}, S) \in {{}, {e}}
  <2>1. AloneWithin(e, S) /\ WithOneMore(e, f, S)
    <3> HIDE DEF e, f, S
    <3> QED
      BY WithinOne
  <2> QED
    BY <2>1 DEF AloneWithin, WithOneMore
<1>4. CASE e.value # f.value /\ y = x
  <2>1. /\ Within({e}, {f} \cup S) = Within({e}, S)
        /\ Within({f} \cup S, {e}) = Within(S, {e})
    BY <1>0, <1>3, <1>4
  <2>2. Outside({e}, {f} \cup S) = Outside({e}, S)
    BY <2>1 DEF Outside
  <2>3. Wanting(x, {f} \cup S, all) => Wanting(x, S, all)
    <3> HIDE DEF S, all
    <3> QED
      BY <2>1, <2>2 DEF Wanting
  <2>4. ver = x.version => Continues(x, ks, S)
    BY <2>3 DEF EqOK, Continues
  <2> QED
    BY <1>4, <2>4 DEF SearchReady, EqOK
<1>5. CASE /\ e.value = f.value /\ On(x, "equal").next = "search"
           /\ y = [x EXCEPT !.result = @ \cup adds]
  <2>1. /\ Within({e}, {f} \cup S) = {e}
        /\ Within({f} \cup S, {e}) = {f} \cup Within(S, {e})
    BY <1>0, <1>3, <1>5
  <2>2. x.phase \in {"and1", "and2"}
    <3>1. x.phase \in Searching
      BY DEF EqOK
    <3> QED
      BY <1>5, <3>1 DEF On, Searching, or1, sub2, contains, isdisjoint, ge, Then
  <2>3. /\ x.phase = "and1" => adds = {f}
        /\ x.phase = "and2" => adds = {e}
    <3>1. x.phase = "and1" => adds = {f}
      BY DEF On, and1, Then
    <3>2. x.phase = "and2" => adds = {[key |-> e.key, value |-> f.value]}
      BY DEF On, and2, Then
    <3>3. [key |-> e.key, value |-> f.value] = e
      BY <1>1, <1>5 DEF Item
    <3> QED
      BY <3>1, <3>2, <3>3
  <2> DEFINE result == x.result \cup adds
  <2>4. result \in SUBSET Elem
    BY <1>1, <2>2, <2>3 DEF TaskType, Elem
  <2>5. y = [x EXCEPT !.result = result]
    BY <1>5
  <2> HIDE DEF result
  <2>6. /\ y \in TaskType /\ y.result = result
        /\ y.op = x.op /\ y.phase = x.phase /\ y.other = x.other /\ y.rest = x.rest
        /\ y.arg = x.arg /\ y.want = x.want /\ y.answer = x.answer /\ y.log2 = x.log2
        /\ y.version = x.version /\ y.visited = x.visited /\ y.base = x.base
        /\ y.step = x.step /\ y.pairs = x.pairs /\ y.quiet = x.quiet
    BY <1>1, <2>4, <2>5 DEF TaskType
  <2>7. Running(y, ver)
    BY <2>6 DEF Running, Begun, InPhase, Admitted
  <2>8. Remaining(y, ks) = S
    BY <2>6 DEF Remaining
  <2>9. Wanting(x, {f} \cup S, all) => Wanting(y, S, all)
    <3> HIDE DEF S, all
    <3>1. Within({e}, S) \in SUBSET {e}
      BY <1>0
    <3>2. x.phase = "and1" => (Wanting(x, {f} \cup S, all) => Wanting(y, S, all))
      BY <2>1, <2>3, <2>6 DEF Wanting, result
    <3>3. x.phase = "and2" => (Wanting(x, {f} \cup S, all) => Wanting(y, S, all))
      BY <2>1, <2>3, <2>6, <3>1 DEF Wanting, result
    <3> QED
      BY <2>2, <3>2, <3>3
  <2>10. ver = x.version => Continues(y, ks, S)
    <3> HIDE DEF S
    <3>1. ver = x.version => Continues(x, ks, {f} \cup S)
      BY DEF EqOK, S
    <3> QED
      BY <2>6, <2>9, <3>1 DEF Continues
  <2>11. QuietReady(x, ks) => QuietReady(y, ks)
    <3>1. \A T : SeenSome(x, T) => SeenSome(y, T)
      BY <2>2, <2>6 DEF SeenSome, Seen, Collecting
    <3> QED
      BY <2>6, <3>1 DEF QuietReady
  <2> QED
    BY <2>2, <2>6, <2>7, <2>8, <2>10, <2>11 DEF SearchReady, EqOK, ArgumentOpen
<1> QED
  BY <1>4, <1>5

\* md_find_next, for one search: nothing ahead, or its first match marked.
FindsFirst(next, ks, ahead, i) ==
  IF ahead = {} THEN next.list = <<>>
  ELSE /\ next.list # <<>> /\ next.step = Min(ahead)
       /\ next.keys = [ks EXCEPT !.entries[i].hash = MARK]

\* md_find_next finds the first entry of the key that is ahead, and marks it;
\* or there is none.
LEMMA NextFound ==
  ASSUME NEW ks, NEW step, NEW hash, NEW id, NEW ahead,
         ahead = {n \in Matches(ks, hash, id) : n >= step},
         NEW i, i = IndexAt(ks, hash, Min(ahead)),
         NEW next, next = md_find_next([keys |-> ks, step |-> step, list |-> <<>>,
                                        hash |-> hash, identity |-> id])
  PROVE  FindsFirst(next, ks, ahead, i)
<1> DEFINE find == [keys |-> ks, step |-> step, list |-> <<>>, hash |-> hash, identity |-> id]
<1>1. /\ find.keys = ks /\ find.step = step /\ find.list = <<>>
      /\ find.hash = hash /\ find.identity = id
  OBVIOUS
<1>2. CASE ahead = {}
  <2>1. next = find
    BY <1>1, <1>2 DEF md_find_next
  <2> QED
    BY <1>2, <2>1 DEF FindsFirst
<1>3. CASE ahead # {}
  <2> DEFINE v == ks.entries[i].value
  <2>1. next = [find EXCEPT !.step = Min(ahead), !.list = Append(@, v),
                            !.keys.entries[i].hash = MARK]
    BY <1>1, <1>3 DEF md_find_next
  <2>2. Append(<<>>, v) # <<>>
    OBVIOUS
  <2> HIDE DEF v
  <2>3. /\ next.list = Append(<<>>, v) /\ next.step = Min(ahead)
        /\ next.keys = [ks EXCEPT !.entries[i].hash = MARK]
    BY <2>1
  <2> QED
    BY <1>3, <2>2, <2>3 DEF FindsFirst
<1> QED
  BY <1>2, <1>3

\* One more entry, that was not there before.
LEMMA OneMoreInjective ==
  ASSUME NEW list \in Seq(Nat), IsInjective(list), NEW i \in Nat, i \notin ToSet(list),
         NEW longer, longer = Append(list, i)
  PROVE  /\ longer \in Seq(Nat) /\ IsInjective(longer)
         /\ ToSet(longer) = ToSet(list) \cup {i}
<1> DEFINE n == Len(list)
<1>1. n \in Nat /\ DOMAIN list = 1..n /\ \A a \in 1..n : list[a] \in Nat
  OBVIOUS
<1>2. /\ longer \in Seq(Nat) /\ DOMAIN longer = 1..(n + 1)
      /\ \A a \in 1..n : longer[a] = list[a]
      /\ longer[n + 1] = i
  OBVIOUS
<1>3. ToSet(list) = {list[a] : a \in 1..n} /\ ToSet(longer) = {longer[a] : a \in 1..(n + 1)}
  BY <1>1, <1>2 DEF ToSet
<1>4. 1..(n + 1) = 1..n \cup {n + 1}
  BY <1>1
<1> HIDE DEF n
<1>5. ToSet(longer) = ToSet(list) \cup {i}
  <2>1. {longer[a] : a \in 1..(n + 1)} = {longer[a] : a \in 1..n} \cup {longer[n + 1]}
    BY <1>4
  <2>2. {longer[a] : a \in 1..n} = {list[a] : a \in 1..n}
    BY <1>2
  <2> QED
    BY <1>2, <1>3, <2>1, <2>2
<1>6. IsInjective(longer)
  <2> SUFFICES ASSUME NEW a \in 1..(n + 1), NEW b \in 1..(n + 1), longer[a] = longer[b]
               PROVE  a = b
    BY <1>2 DEF IsInjective
  <2>1. CASE a \in 1..n /\ b \in 1..n
    BY <1>1, <1>2, <2>1 DEF IsInjective
  <2>2. CASE a = n + 1 /\ b \in 1..n
    BY <1>2, <1>3, <2>2
  <2>3. CASE b = n + 1 /\ a \in 1..n
    BY <1>2, <1>3, <2>3
  <2>4. CASE a = n + 1 /\ b = n + 1
    BY <2>4
  <2> QED
    BY <1>4, <2>1, <2>2, <2>3, <2>4
<1> QED
  BY <1>2, <1>5, <1>6

\* What a search makes of the table and of its operation.
SearchResult(x, y) ==
  /\ HashesOnly(keys', keys)
  /\ TaskOK(y, keys', version)
  /\ y.pc = "eq" => keys' # keys
  /\ QuietReady(x, keys) => QuietOK(y, keys')
  /\ y.pc # "eq" => \/ IsSettled(keys')
                    \/ keys' = keys /\ ~ MarkedFor(keys, IdentityOf[x.arg.key])

\* It raises.
LEMMA SearchRaised ==
  ASSUME IsSound(keys), AllHaveKeys(keys), NEW t, NEW x,
         SearchReady(x, keys, version), SearchRaises(t, x),
         MarkedFor(keys, IdentityOf[x.arg.key]) \/ keys' = keys
  PROVE  \E y : Become(t, y) /\ SearchResult(x, y)
<1> DEFINE id == IdentityOf[x.arg.key]
           y == [x EXCEPT !.pc = "raised"]
<1>1. x \in TaskType /\ id \in Identities
  BY HashTableAssumption DEF SearchReady, Running, Begun, Item
<1>2. keys' = md_finder_cleanup(keys, HashOf[id]) /\ Become(t, y)
  BY DEF SearchRaises, Clean, hash_of
<1>3. IF MarkedFor(keys, id) THEN HashesOnly(keys', keys) /\ IsSettled(keys')
                              ELSE keys' = keys
  BY <1>1, <1>2, MarksCleaned
<1>4. HashesOnly(keys', keys)
  BY <1>3 DEF HashesOnly
<1>5. TaskOK(y, keys', version)
  <2> HIDE DEF id
  <2>1. /\ y \in TaskType /\ y.pc = "raised"
        /\ y.op = x.op /\ y.phase = x.phase /\ y.other = x.other
        /\ y.version = x.version /\ y.visited = x.visited
    BY <1>1 DEF TaskType
  <2> QED
    BY <2>1 DEF TaskOK, SearchReady, Running, Begun, InPhase
<1>6. y.pc = "raised"
  BY <1>1 DEF TaskType
<1>7. QuietOK(y, keys')
  BY <1>6 DEF QuietOK
<1> QED
  BY <1>2, <1>3, <1>4, <1>5, <1>6, <1>7 DEF SearchResult

\* It ends: all entries of the identity have been returned.
LEMMA SearchEnded ==
  ASSUME IsSound(keys), AllHaveKeys(keys), NEW t, NEW x,
         SearchReady(x, keys, version), NEW next, next = Found(x), SearchEnds(t, x, next),
         MarkedFor(keys, IdentityOf[x.arg.key]) \/ keys' = keys
  PROVE  \E y : Become(t, y) /\ SearchResult(x, y)
<1> DEFINE id == IdentityOf[x.arg.key]
           own == OwnEntries(keys, id)
           found == Matches(keys, HashOf[id], id)
           y == Follow(x, On(x, "missed"))
<1>1. x \in TaskType /\ id \in Identities /\ x.phase \in Searching /\ Running(x, version)
  BY HashTableAssumption DEF SearchReady, Running, Begun, Item
<1>2. keys' = md_finder_cleanup(keys, HashOf[id]) /\ Become(t, y) /\ next.list = <<>>
  BY DEF SearchEnds, Clean, hash_of
<1>3. IF MarkedFor(keys, id) THEN HashesOnly(keys', keys) /\ IsSettled(keys')
                              ELSE keys' = keys
  BY <1>1, <1>2, MarksCleaned
<1>4. HashesOnly(keys', keys)
  BY <1>3 DEF HashesOnly
<1>5. Continues(x, keys, Remaining(x, keys))
  BY DEF SearchReady, SearchEnds, IsStale
<1>6. {n \in found : n >= x.step} = {}
  <2>1. next = md_find_next([keys |-> keys, step |-> x.step, list |-> <<>>,
                             hash |-> HashOf[id], identity |-> id])
    BY DEF Found, hash_of
  <2> DEFINE ahead == {n \in found : n >= x.step}
             i == IndexAt(keys, HashOf[id], Min(ahead))
  <2>2. FindsFirst(next, keys, ahead, i)
    <3> HIDE DEF id
    <3> QED
      BY <2>1, NextFound
  <2> QED
    BY <1>2, <2>2 DEF FindsFirst
<1>7. \A i \in own : keys.entries[i].hash = MARK
  <2>1. found = {}
    BY <1>5, <1>6 DEF Continues
  <2> HIDE DEF id
  <2> QED
    BY <1>1, <2>1, SearchStops
<1>8. Remaining(x, keys) = {}
  BY <1>5, <1>7 DEF Continues, Remaining
<1>9. Wanting(x, {}, ItemSet(keys)) /\ ArgumentOpen(x)
  BY <1>5, <1>8 DEF Continues, SearchReady
<1>10. TaskOK(y, keys', version) /\ y.pc \in {"next", "done"}
  <2> HIDE DEF y
  <2> DEFINE all == ItemSet(keys)
  <2>1. Wanting(x, {}, all) /\ y = Follow(x, On(x, "missed"))
    BY <1>9 DEF y
  <2> HIDE DEF all
  <2>2. "missed" \in {"missed", "nopair"}
    OBVIOUS
  <2> QED
    BY <1>1, <1>9, <2>1, <2>2, MissedOK
<1>11. QuietReady(x, keys) => QuietOK(y, keys')
  <2> SUFFICES ASSUME QuietReady(x, keys) PROVE QuietOK(y, keys')
    OBVIOUS
  <2> DEFINE new == keys'
  <2>1. ItemSet(new) = ItemSet(keys)
    <3>1. HashesOnly(new, keys)
      BY <1>4
    <3> HIDE DEF new
    <3> QED
      BY <3>1, SameItems
  <2>2. QuietReady(x, new) /\ Wanting(x, {}, ItemSet(new))
    BY <1>9, <2>1 DEF QuietReady
  <2>3. "missed" \in {"missed", "nopair"} /\ y = Follow(x, On(x, "missed"))
    OBVIOUS
  <2> SUFFICES QuietOK(y, new)
    OBVIOUS
  <2> HIDE DEF new, y
  <2> QED
    BY <1>1, <2>2, <2>3, QuietMissed
<1> QED
  BY <1>2, <1>3, <1>4, <1>10, <1>11 DEF SearchResult

\* It finds one more entry, and marks it.
LEMMA SearchFound ==
  ASSUME IsSound(keys), AllHaveKeys(keys), Identified(keys), NEW t, NEW x,
         SearchReady(x, keys, version), NEW next, next = Found(x), SearchFinds(t, x, next),
         MarkedFor(keys, IdentityOf[x.arg.key]) \/ keys' = keys
  PROVE  \E y : Become(t, y) /\ SearchResult(x, y)
<1> DEFINE id == IdentityOf[x.arg.key]
           hash == HashOf[id]
           own == OwnEntries(keys, id)
           found == Matches(keys, hash, id)
           ahead == {n \in found : n >= x.step}
           m == Min(ahead)
           i == IndexAt(keys, hash, m)
           item == ItemAt(keys, i)
           visited == Append(x.visited, i)
           y == [x EXCEPT !.pc = "eq", !.step = m, !.found = item, !.visited = visited]
<1>1. x \in TaskType /\ id \in Identities /\ x.phase \in Searching /\ Running(x, version)
      /\ x.arg \in Item
  BY HashTableAssumption DEF SearchReady, Running, Begun, Item
<1>2. Continues(x, keys, Remaining(x, keys)) /\ x.version = version
  BY DEF SearchReady, SearchFinds, IsStale
<1>3. next = md_find_next([keys |-> keys, step |-> x.step, list |-> <<>>,
                           hash |-> hash, identity |-> id])
  BY DEF Found, hash_of
<1>4. ahead # {} /\ next.step = m /\ next.keys = [keys EXCEPT !.entries[i].hash = MARK]
  <2>1. next.list # <<>>
    BY DEF SearchFinds
  <2>2. FindsFirst(next, keys, ahead, i)
    <3> HIDE DEF id, hash
    <3> QED
      BY <1>3, NextFound
  <2> QED
    BY <2>1, <2>2 DEF FindsFirst
<1>5. keys' = [keys EXCEPT !.entries[i].hash = MARK] /\ Become(t, y)
  <2>1. hash_of(x.arg.key) = hash
    BY DEF hash_of
  <2>2. /\ keys' = next.keys
        /\ Become(t, [x EXCEPT !.pc = "eq", !.step = next.step,
                   !.found = ItemAt(keys, IndexAt(keys, hash, next.step)),
                   !.visited = Append(@, IndexAt(keys, hash, next.step))])
    BY <2>1 DEF SearchFinds
  <2> QED
    BY <1>4, <2>2
<1>6. /\ hash \in Hashes /\ hash # MARK
      /\ own \in SUBSET Live(keys) /\ own \in SUBSET Nat /\ found \in SUBSET Nat
      /\ \A j \in own : keys.entries[j].hash \in {MARK, hash}
      /\ \A n \in found : /\ IndexAt(keys, hash, n) \in own
                          /\ keys.entries[IndexAt(keys, hash, n)].hash = hash
  <2> HIDE DEF id
  <2> QED
    BY <1>1, SearchStops
<1>7. m \in ahead /\ m \in Nat /\ \A n \in ahead : m <= n
  <2>1. ahead \in SUBSET Nat
    BY <1>6
  <2> HIDE DEF ahead
  <2> QED
    BY <1>4, <2>1, MinOfNaturals
<1>8. i \in own /\ i \in Live(keys) /\ i \in Nat /\ keys.entries[i].hash = hash
  BY <1>6, <1>7
<1>9. /\ item \in Item /\ IdentityOf[item.key] = id
      /\ keys.entries[i].key # NULL
  <2>1. keys.entries[i].key # NULL /\ keys.entries[i].identity = id
    BY <1>8 DEF AllHaveKeys, OwnEntries
  <2>2. IdentityOf[keys.entries[i].key] = id
    BY <1>8, <2>1 DEF Identified
  <2> HIDE DEF i, id
  <2>3. item \in Item
    BY <1>8, ItemsListed
  <2> QED
    BY <2>1, <2>2, <2>3 DEF ItemAt
<1> HIDE DEF i, m, ahead
<1>10. /\ HashesOnly(keys', keys)
       /\ \A j \in Live(keys) :
            keys'.entries[j].hash = IF j = i THEN MARK ELSE keys.entries[j].hash
       /\ \A h, n : IndexAt(keys', h, n) = IndexAt(keys, h, n)
  <2> DEFINE new == keys'
  <2> HIDE DEF new
  <2>1. new = [keys EXCEPT !.entries[i].hash = MARK]
    BY <1>5 DEF new
  <2>2. OneMarked(new, keys, i)
    BY <1>8, <1>9, <2>1, EntryMarked
  <2> QED
    BY <2>2 DEF new, OneMarked
<1>11. keys' # keys /\ MarkedFor(keys, id)
  BY <1>6, <1>8, <1>10
<1>12. /\ \A j \in own : keys.entries[j].hash = MARK <=> j \in ToSet(x.visited)
       /\ x.log2 = keys.log2_size /\ \A n \in found : n >= x.step
  BY <1>2 DEF Continues
<1>13. /\ visited \in Seq(Nat) /\ IsInjective(visited)
       /\ ToSet(visited) = ToSet(x.visited) \cup {i}
  <2>1. x.visited \in Seq(Nat) /\ IsInjective(x.visited)
    BY <1>1 DEF Running, Begun, TaskType
  <2>2. i \notin ToSet(x.visited)
    BY <1>6, <1>8, <1>12
  <2> QED
    BY <1>8, <2>1, <2>2, OneMoreInjective
<1> HIDE DEF visited, item
<1>14. /\ y \in TaskType /\ y.pc = "eq" /\ y.step = m /\ y.found = item
       /\ y.visited = visited
       /\ y.op = x.op /\ y.phase = x.phase /\ y.other = x.other /\ y.rest = x.rest
       /\ y.arg = x.arg /\ y.want = x.want /\ y.result = x.result /\ y.answer = x.answer
       /\ y.version = x.version /\ y.base = x.base /\ y.log2 = x.log2
      /\ y.pairs = x.pairs /\ y.quiet = x.quiet
  BY <1>1, <1>7, <1>9, <1>13 DEF TaskType, Elem
<1> HIDE DEF y
<1>15. Running(y, version)
  BY <1>1, <1>13, <1>14 DEF Running, Begun, InPhase, Admitted
<1> DEFINE S == Remaining(y, keys')
<1>16. /\ OwnEntries(keys', id) = own /\ ItemSet(keys') = ItemSet(keys)
       /\ \A j \in Live(keys) : ItemAt(keys', j) = ItemAt(keys, j)
  <2> DEFINE new == keys'
  <2> HIDE DEF new, id
  <2>1. HashesOnly(new, keys)
    BY <1>10 DEF new
  <2>2. /\ OwnEntries(new, id) = own /\ ItemSet(new) = ItemSet(keys)
        /\ \A j \in Live(keys) : ItemAt(new, j) = ItemAt(keys, j)
    BY <2>1, SameItems
  <2> QED
    BY <2>2 DEF new
<1>17. Remaining(x, keys) = {item} \cup S
  <2>1. S = {ItemAt(keys', j) : j \in own \ ToSet(visited)}
    BY <1>14, <1>16 DEF Remaining
  <2>2. S = {ItemAt(keys, j) : j \in own \ ToSet(visited)}
    BY <1>6, <1>16, <2>1
  <2>3. Remaining(x, keys) = {ItemAt(keys, j) : j \in own \ ToSet(x.visited)}
    BY DEF Remaining
  <2>4. own \ ToSet(x.visited) = {i} \cup (own \ ToSet(visited))
    BY <1>6, <1>8, <1>12, <1>13
  <2>5. item = ItemAt(keys, i)
    BY DEF item
  <2> HIDE DEF S, own
  <2> QED
    BY <2>2, <2>3, <2>4, <2>5
<1>18. Wanting(x, {item} \cup S, ItemSet(keys))
  BY <1>2, <1>17 DEF Continues
<1> HIDE DEF S
<1>19. \A n \in Matches(keys', HashOf[id], id) : n >= m
  <2> SUFFICES ASSUME NEW n \in Matches(keys', hash, id) PROVE n >= m
    OBVIOUS
  <2>1. PathLength(keys', hash) = PathLength(keys, hash)
    <3> HIDE DEF hash
    <3> QED
      BY <1>10 DEF PathLength, HashesOnly
  <2> DEFINE pos == IndexAt(keys, hash, n)
  <2> HIDE DEF hash, id
  <2>2. /\ n \in 0..(PathLength(keys, hash) - 1) /\ pos >= 0
        /\ keys'.entries[pos].hash = hash /\ keys'.entries[pos].identity = id
    BY <1>10, <2>1 DEF Matches
  <2> HIDE DEF pos
  <2>3. pos \in Live(keys)
    BY <1>6, <2>2, PathIsLive DEF pos
  <2>4. keys.entries[pos].hash = hash /\ keys.entries[pos].identity = id
    BY <1>6, <1>10, <2>2, <2>3 DEF HashesOnly
  <2>5. n \in found
    BY <2>2, <2>4 DEF Matches, pos
  <2> QED
    BY <1>7, <1>12, <2>5 DEF ahead
<1>20. \A j \in own : keys'.entries[j].hash = MARK <=> j \in ToSet(visited)
  BY <1>6, <1>10, <1>12, <1>13
<1>21. Continues(y, keys', {item} \cup S)
  <2>1. Wanting(y, {item} \cup S, ItemSet(keys'))
    BY <1>14, <1>16, <1>18 DEF Wanting
  <2>2. keys'.log2_size = keys.log2_size
    BY <1>10 DEF HashesOnly
  <2> HIDE DEF own
  <2> QED
    BY <1>12, <1>14, <1>16, <1>19, <1>20, <2>1, <2>2 DEF Continues, own
<1>22. y.arg.value = item.value => Settles(y)
  <2> SUFFICES ASSUME x.arg.value = item.value PROVE Settles(y)
    BY <1>14
  <2> DEFINE e == x.arg
  <2>1. SameItem(e, item)
    <3>1. e # NoPair /\ item # NoPair
      BY <1>1, <1>9, ItemsViewAssumption
    <3> QED
      BY <1>9, <3>1 DEF SameItem
  <2>2. WithOneMore(e, item, S) /\ AloneWithin(e, {item} \cup S)
    <3> HIDE DEF e
    <3> QED
      BY WithinOne
  <2>3. Within({e}, {item} \cup S) = {e} /\ Outside({e}, {item} \cup S) = {}
    BY <2>1, <2>2 DEF WithOneMore, AloneWithin
  <2>4. Wanting(x, {item} \cup S, ItemSet(keys)) => Settles(x)
    <3> HIDE DEF e
    <3> QED
      BY <2>3 DEF Settles, Wanting, e
  <2> QED
    BY <1>14, <1>18, <2>4 DEF Settles
<1>23. TaskOK(y, keys', version)
  <2>1. MarkedFor(keys', id)
    BY <1>8, <1>10, <1>11 DEF MarkedFor, OwnEntries, HashesOnly
  <2>2. ArgumentOpen(y)
    BY <1>14 DEF SearchReady, ArgumentOpen
  <2>3. EqOK(y, keys', version)
    BY <1>1, <1>9, <1>14, <1>21, <1>22, <2>1, <2>2 DEF EqOK, S
  <2> QED
    BY <1>14, <1>15, <2>3 DEF TaskOK, Running, Begun
<1>24. QuietReady(x, keys) => QuietOK(y, keys')
  <2>1. \A T : SeenSome(x, T) => SeenSome(y, T)
    BY <1>1, <1>14 DEF SeenSome, Seen, Collecting, Searching
  <2> QED
    BY <1>14, <1>16, <2>1 DEF QuietReady, QuietOK
<1> QED
  BY <1>5, <1>10, <1>11, <1>14, <1>23, <1>24 DEF SearchResult, y

\* The three together.
LEMMA SearchKept ==
  ASSUME IsSound(keys), AllHaveKeys(keys), Identified(keys), NEW t, NEW x,
         SearchReady(x, keys, version), Search(t, x),
         MarkedFor(keys, IdentityOf[x.arg.key]) \/ keys' = keys
  PROVE  \E y : Become(t, y) /\ SearchResult(x, y)
<1> DEFINE next == Found(x)
<1>1. SearchRaises(t, x) \/ SearchFinds(t, x, next) \/ SearchEnds(t, x, next)
  BY DEF Search
<1> HIDE DEF next
<1>2. CASE SearchRaises(t, x)
  BY <1>2, SearchRaised
<1>3. CASE SearchFinds(t, x, next)
  BY <1>3, SearchFound DEF next
<1>4. CASE SearchEnds(t, x, next)
  BY <1>4, SearchEnded DEF next
<1> QED
  BY <1>1, <1>2, <1>3, <1>4

-----------------------------------------------------------------------------
(* The invariant.                                                          *)

\* The table, while finders hold marks in it.
TableOK ==
  /\ IsSound(keys) /\ used = Cardinality(Live(keys)) /\ Identified(keys)
  /\ version \in 0..MaxVersion
  /\ bulk.op \in BulkOps \cup {"none"}
  /\ Idle => AllHaveKeys(keys)
  /\ AtRest \/ Idle
  /\ ~ SomeMarked => TableInvariant

\* One finder at a time.
Alone == \A t, u \in Tasks : tasks[t].pc = "eq" /\ tasks[u].pc = "eq" => t = u

ViewInvariant ==
  /\ damaged \in BOOLEAN
  /\ damaged \/ /\ TableOK /\ Alone
                /\ tasks \in [Tasks -> TaskType]
                /\ \A t \in Tasks : TaskOK(tasks[t], keys, version)
                /\ \A t \in Tasks : QuietOK(tasks[t], keys)

-----------------------------------------------------------------------------
(* The steps of an operation keep it.                                      *)

\* What a step of an operation makes of the table and of the operation.
StepResult(t, y) ==
  /\ HashesOnly(keys', keys)
  /\ TaskOK(y, keys', version) /\ QuietOK(y, keys')
  /\ y.pc = "eq" => keys' # keys
  /\ y.pc # "eq" => \/ IsSettled(keys')
                    \/ keys' = keys /\ tasks[t].pc # "eq"

\* The marks of a finder do not concern the operations that are not in the
\* middle of a search.
LEMMA OtherKept ==
  ASSUME NEW ks, NEW new, HashesOnly(new, ks), NEW ver, NEW x, TaskOK(x, ks, ver),
         x.pc # "eq" \/ new = ks
  PROVE  TaskOK(x, new, ver)
<1>1. CASE new = ks
  BY <1>1
<1>2. CASE x.pc # "eq"
  <2>1. /\ ItemSet(new) = ItemSet(ks)
        /\ \A i \in Live(ks) : ItemAt(new, i) = ItemAt(ks, i)
    BY SameItems
  <2>2. /\ Live(new) = Live(ks)
        /\ \A i \in Live(ks) : /\ new.entries[i].identity = ks.entries[i].identity
                               /\ new.entries[i].value = ks.entries[i].value
    BY DEF HashesOnly
  <2> DEFINE ahead(t) == {i \in Live(t) : i >= x.pos /\ <<t.entries[i].identity, t.entries[i].value>> \notin x.pairs}
  <2>3. ahead(new) = ahead(ks)
    BY <2>2
  <2>4. {ItemAt(new, i) : i \in ahead(new)} = {ItemAt(ks, i) : i \in ahead(ks)}
    <3>1. \A i \in ahead(ks) : ItemAt(new, i) = ItemAt(ks, i)
      BY <2>1
    <3> HIDE DEF ahead
    <3> QED
      BY <2>3, <3>1
  <2>5. OwnOK(x, ks, ver) => OwnOK(x, new, ver)
    BY <2>1, <2>2, <2>4 DEF OwnOK
  <2> QED
    BY <1>2, <2>5 DEF TaskOK
<1> QED
  BY <1>1, <1>2

\* Nor do they concern what the operations began with.
LEMMA OtherQuiet ==
  ASSUME NEW ks, NEW new, HashesOnly(new, ks), NEW x, QuietOK(x, ks)
  PROVE  QuietOK(x, new)
<1>1. ItemSet(new) = ItemSet(ks)
  BY SameItems
<1> QED
  BY <1>1 DEF QuietOK

\* The invariant after a step of an operation.
LEMMA StepKept ==
  ASSUME ViewInvariant, ~ damaged, Idle, NEW t \in Tasks, NEW y, Become(t, y),
         StepResult(t, y) \/ damaged', Unaided(t)
  PROVE  ViewInvariant'
<1>1. damaged' \in BOOLEAN /\ (damaged' => ViewInvariant')
  BY DEF Unaided, ViewInvariant
<1> SUFFICES ASSUME ~ damaged', StepResult(t, y) PROVE ViewInvariant'
  BY <1>1
<1>2. /\ keys' = keys \/ \A u \in Tasks \ {t} : tasks[u].pc # "eq"
      /\ UNCHANGED <<used, version, bulk>>
  BY DEF Unaided
<1>3. /\ TableOK /\ Alone /\ tasks \in [Tasks -> TaskType]
      /\ \A u \in Tasks : TaskOK(tasks[u], keys, version) /\ QuietOK(tasks[u], keys)
  BY DEF ViewInvariant
<1>4. /\ tasks' = [tasks EXCEPT ![t] = y]
      /\ HashesOnly(keys', keys) /\ TaskOK(y, keys', version) /\ QuietOK(y, keys')
      /\ y.pc = "eq" => keys' # keys
      /\ y.pc # "eq" => IsSettled(keys') \/ (keys' = keys /\ tasks[t].pc # "eq")
  BY DEF Become, StepResult
<1>5. y \in TaskType
  BY <1>4 DEF TaskOK, Begun
<1>6. /\ tasks' \in [Tasks -> TaskType] /\ tasks'[t] = y
      /\ \A u \in Tasks \ {t} : tasks'[u] = tasks[u]
  BY <1>3, <1>4, <1>5
<1>7. \A u \in Tasks : TaskOK(tasks'[u], keys', version')
  <2> SUFFICES ASSUME NEW u \in Tasks, u # t PROVE TaskOK(tasks[u], keys', version)
    BY <1>2, <1>4, <1>6
  <2> DEFINE x == tasks[u]
             new == keys'
  <2>1. TaskOK(x, keys, version) /\ HashesOnly(new, keys) /\ (x.pc # "eq" \/ new = keys)
    BY <1>2, <1>3, <1>4
  <2> SUFFICES TaskOK(x, new, version)
    OBVIOUS
  <2> HIDE DEF x, new
  <2> QED
    BY <2>1, OtherKept
<1>10. \A u \in Tasks : QuietOK(tasks'[u], keys')
  <2> SUFFICES ASSUME NEW u \in Tasks, u # t PROVE QuietOK(tasks[u], keys')
    BY <1>4, <1>6
  <2> DEFINE x == tasks[u]
             new == keys'
  <2>1. QuietOK(x, keys) /\ HashesOnly(new, keys)
    BY <1>3, <1>4
  <2> SUFFICES QuietOK(x, new)
    OBVIOUS
  <2> HIDE DEF x, new
  <2> QED
    BY <2>1, OtherQuiet
<1>8. Alone'
  BY <1>2, <1>3, <1>4, <1>6 DEF Alone
<1>9. TableOK'
  <2>1. IsSound(keys') /\ Live(keys') = Live(keys)
    BY <1>4 DEF HashesOnly
  <2>2. Identified(keys') /\ AllHaveKeys(keys')
    <3>1. Identified(keys) /\ AllHaveKeys(keys)
      BY <1>3 DEF TableOK
    <3> DEFINE new == keys'
    <3>2. HashesOnly(new, keys)
      BY <1>4
    <3> SUFFICES Identified(new) /\ AllHaveKeys(new)
      OBVIOUS
    <3> HIDE DEF new
    <3> QED
      BY <3>1, <3>2, SameItems
  <2>3. ~ SomeMarked' => IsSettled(keys')
    <3> SUFFICES ASSUME ~ SomeMarked' PROVE IsSettled(keys')
      OBVIOUS
    <3>1. \A u \in Tasks : tasks'[u].pc # "eq"
      BY DEF SomeMarked
    <3>2. y.pc # "eq"
      BY <1>6, <3>1
    <3>3. CASE keys' = keys /\ tasks[t].pc # "eq"
      <4>1. ~ SomeMarked
        BY <1>6, <3>1, <3>3 DEF SomeMarked
      <4>2. IsSettled(keys)
        BY <1>3, <4>1 DEF TableOK, TableInvariant, Idle
      <4> QED
        BY <3>3, <4>2
    <3> QED
      BY <1>4, <3>2, <3>3
  <2>4. /\ used' = Cardinality(Live(keys')) /\ version' \in 0..MaxVersion
        /\ bulk'.op \in BulkOps \cup {"none"} /\ Idle'
    BY <1>2, <1>3, <2>1 DEF TableOK, Idle
  <2>5. ~ SomeMarked' => TableInvariant'
    BY <2>1, <2>3, <2>4 DEF TableInvariant
  <2> QED
    BY <2>1, <2>2, <2>4, <2>5 DEF TableOK
<1> QED
  BY <1>1, <1>6, <1>7, <1>8, <1>9, <1>10 DEF ViewInvariant

\* The operation that is to take a step.
Stepping(t) ==
  /\ ViewInvariant /\ ~ damaged /\ Idle /\ t \in Tasks /\ Unaided(t)

\* What the invariant says of the operation that is to take a step.
LEMMA SteppingFacts ==
  ASSUME NEW t, Stepping(t), NEW x, x = tasks[t]
  PROVE  /\ TableOK /\ Alone /\ IsSound(keys) /\ Identified(keys) /\ AllHaveKeys(keys)
         /\ TaskOK(x, keys, version) /\ QuietOK(x, keys) /\ version \in Nat
         /\ x.pc \in {"next", "eq", "own"} => Running(x, version)
         /\ version' = version
<1>1. TableOK /\ Alone /\ TaskOK(x, keys, version) /\ QuietOK(x, keys)
  BY DEF Stepping, ViewInvariant
<1>2. version \in Nat
  BY <1>1, HashTableAssumption DEF TableOK
<1> QED
  BY <1>1, <1>2 DEF TableOK, Stepping, Unaided, TaskOK

\* The finder of an operation that is over.
LEMMA CleanedUp ==
  ASSUME NEW t, Stepping(t), NEW x, x = tasks[t], x.pc = "eq", keys' = Clean(x)
  PROVE  HashesOnly(keys', keys) /\ IsSettled(keys')
<1> DEFINE id == IdentityOf[x.arg.key]
<1>1. EqOK(x, keys, version) /\ IsSound(keys) /\ AllHaveKeys(keys)
  BY SteppingFacts DEF TaskOK, Running, Begun, InPhase
<1>2. id \in Identities /\ MarkedFor(keys, id)
  BY <1>1, HashTableAssumption DEF EqOK, Item
<1>3. keys' = md_finder_cleanup(keys, HashOf[id])
  BY DEF Clean, hash_of
<1> HIDE DEF id
<1> QED
  BY <1>1, <1>2, <1>3, MarksCleaned

\* A comparison that returned: the search goes on, or stops.
LEMMA ComparedKept ==
  ASSUME NEW t, Stepping(t), Compared(t)
  PROVE  \E y : Become(t, y) /\ StepResult(t, y)
<1> DEFINE x == tasks[t]
           then == On(x, "equal")
           searching == [x EXCEPT !.result = @ \cup then.adds]
<1>1. /\ x.pc = "eq" /\ TaskOK(x, keys, version) /\ Running(x, version)
      /\ IsSound(keys) /\ Identified(keys) /\ AllHaveKeys(keys)
      /\ QuietReady(x, keys)
  BY SteppingFacts DEF Compared, QuietOK, QuietReady, Running, Begun
<1>2. EqOK(x, keys, version)
  BY <1>1 DEF TaskOK, Running, Begun
<1>3. \/ x.arg.value # x.found.value /\ Search(t, x)
      \/ x.arg.value = x.found.value /\ StopSearch(t)
      \/ /\ x.arg.value = x.found.value /\ then.next = "search"
         /\ Search(t, searching)
  BY Zenon DEF Compared
<1>4. CASE x.arg.value = x.found.value /\ StopSearch(t)
  <2> DEFINE y == Follow(x, then)
  <2>1. then.next # "search" /\ keys' = Clean(x) /\ Become(t, y)
    BY <1>4 DEF StopSearch
  <2>2. HashesOnly(keys', keys) /\ IsSettled(keys')
    BY <1>1, <2>1, CleanedUp
  <2>3. Settles(x) /\ ArgumentOpen(x) /\ x.phase \in Searching
    BY <1>2, <1>4 DEF EqOK
  <2>4. \A ks : TaskOK(y, ks, version) /\ y.pc \in {"next", "done"}
    <3> HIDE DEF x, y
    <3> QED
      BY <1>1, <2>1, <2>3, StoppedOK DEF y
  <2>6. QuietOK(y, keys)
    <3> HIDE DEF x, y
    <3> QED
      BY <1>1, <2>1, <2>3, QuietStopped DEF y
  <2> HIDE DEF y
  <2>7. QuietOK(y, keys')
    <3> DEFINE new == keys'
    <3>1. HashesOnly(new, keys)
      BY <2>2
    <3> SUFFICES QuietOK(y, new)
      OBVIOUS
    <3> HIDE DEF new
    <3> QED
      BY <2>6, <3>1, OtherQuiet
  <2>5. StepResult(t, y)
    BY <2>2, <2>4, <2>7 DEF StepResult
  <2> QED
    BY <2>1, <2>5
<1>5. ASSUME NEW z, SearchReady(z, keys, version), QuietReady(z, keys),
             z.arg = x.arg, Search(t, z)
      PROVE  \E y : Become(t, y) /\ StepResult(t, y)
  <2>1. MarkedFor(keys, IdentityOf[z.arg.key])
    BY <1>2, <1>5 DEF EqOK
  <2>2. PICK y : Become(t, y) /\ SearchResult(z, y)
    BY <1>1, <1>5, <2>1, SearchKept
  <2> QED
    BY <1>5, <2>1, <2>2 DEF SearchResult, StepResult
<1>6. CASE x.arg.value # x.found.value /\ Search(t, x)
  <2>1. SearchReady(x, keys, version)
    <3> HIDE DEF x
    <3> QED
      BY <1>1, <1>2, <1>6, ReadyAgain
  <2> QED
    BY <1>1, <1>5, <1>6, <2>1
<1>7. CASE /\ x.arg.value = x.found.value /\ then.next = "search"
           /\ Search(t, searching)
  <2>1. /\ SearchReady(searching, keys, version) /\ searching.arg = x.arg
        /\ QuietReady(searching, keys)
    <3> HIDE DEF x
    <3> QED
      BY <1>1, <1>2, <1>7, ReadyAgain
  <2> QED
    BY <1>5, <1>7, <2>1
<1> QED
  BY <1>3, <1>4, <1>6, <1>7

\* An operation that raises is over.
LEMMA RaisedOK ==
  ASSUME NEW ver, NEW ks, NEW x, Begun(x, ver), NEW y, y = [x EXCEPT !.pc = "raised"]
  PROVE  TaskOK(y, ks, ver) /\ QuietOK(y, ks) /\ y.pc = "raised"
<1>1. /\ y \in TaskType /\ y.pc = "raised"
      /\ y.op = x.op /\ y.phase = x.phase /\ y.other = x.other
      /\ y.version = x.version /\ y.visited = x.visited
  BY DEF Begun, TaskType
<1> QED
  BY <1>1 DEF TaskOK, QuietOK, Begun, InPhase

\* A comparison that raised leaves no marks.
LEMMA CompareRaisesKept ==
  ASSUME NEW t, Stepping(t), CompareRaises(t)
  PROVE  \E y : Become(t, y) /\ StepResult(t, y)
<1> DEFINE x == tasks[t]
           y == [x EXCEPT !.pc = "raised"]
<1>1. x.pc = "eq" /\ keys' = Clean(x) /\ Become(t, y)
  BY DEF CompareRaises
<1>2. HashesOnly(keys', keys) /\ IsSettled(keys') /\ Begun(x, version)
  BY <1>1, CleanedUp, SteppingFacts DEF Running
<1>3. \A ks : TaskOK(y, ks, version) /\ QuietOK(y, ks) /\ y.pc = "raised"
  <2> HIDE DEF x
  <2> QED
    BY <1>2, RaisedOK
<1> HIDE DEF y
<1>4. StepResult(t, y)
  BY <1>2, <1>3 DEF StepResult
<1> QED
  BY <1>1, <1>4

\* A step that leaves the table alone.
LEMMA QuietStep ==
  ASSUME NEW t, Stepping(t), keys' = keys, tasks[t].pc # "eq",
         NEW y, TaskOK(y, keys, version), QuietOK(y, keys), y.pc # "eq"
  PROVE  StepResult(t, y)
<1>1. IsSound(keys)
  BY SteppingFacts
<1>2. HashesOnly(keys, keys)
  BY <1>1 DEF HashesOnly
<1>3. HashesOnly(keys', keys) /\ TaskOK(y, keys', version) /\ QuietOK(y, keys')
  BY <1>2
<1> QED
  BY <1>3 DEF StepResult

\* An iterator that raised, or a multidict that changed in a loop over its items.
LEMMA ElementRaisesKept ==
  ASSUME NEW t, Stepping(t), ElementRaises(t) \/ OwnRaises(t)
  PROVE  \E y : Become(t, y) /\ StepResult(t, y)
<1> DEFINE x == tasks[t]
           y == [x EXCEPT !.pc = "raised"]
<1>1. x.pc \in {"next", "own"} /\ keys' = keys /\ Become(t, y)
  BY DEF ElementRaises, OwnRaises
<1>2. Begun(x, version)
  BY <1>1, SteppingFacts DEF Running
<1>3. TaskOK(y, keys, version) /\ QuietOK(y, keys) /\ y.pc = "raised"
  <2> HIDE DEF x
  <2> QED
    BY <1>2, RaisedOK
<1> HIDE DEF y
<1>4. StepResult(t, y)
  BY <1>1, <1>3, QuietStep
<1> QED
  BY <1>1, <1>4

-----------------------------------------------------------------------------
(* An element is taken.                                                    *)

\* The items that are the same as an element are among those of its identity.
OwnDecides(e, S, all) ==
  Within(S, {e}) = Within(all, {e}) /\ Within({e}, S) = Within({e}, all)

\* Whatever else the table holds, the entries of an element's identity decide
\* what it has to do with the items.
LEMMA OwnSuffices ==
  ASSUME NEW ks, Identified(ks), AllHaveKeys(ks), NEW e \in Item,
         NEW S, S = {ItemAt(ks, i) : i \in OwnEntries(ks, IdentityOf[e.key])}
  PROVE  OwnDecides(e, S, ItemSet(ks))
<1> DEFINE all == ItemSet(ks)
<1>1. S \in SUBSET all
  BY DEF OwnEntries, ItemSet
<1>2. \A f \in all : IdentityOf[f.key] = IdentityOf[e.key] => f \in S
  <2> SUFFICES ASSUME NEW i \in Live(ks), IdentityOf[ItemAt(ks, i).key] = IdentityOf[e.key]
               PROVE  ItemAt(ks, i) \in S
    BY DEF ItemSet
  <2>1. ks.entries[i].identity = IdentityOf[e.key]
    BY DEF ItemAt, Identified, AllHaveKeys
  <2> QED
    BY <2>1 DEF OwnEntries
<1>3. \A f : SameItem(e, f) \/ SameItem(f, e) => IdentityOf[f.key] = IdentityOf[e.key]
  BY DEF SameItem
<1> HIDE DEF all
<1>4. \A f \in all : (SameItem(e, f) \/ SameItem(f, e)) => f \in S
  BY <1>2, <1>3
<1>5. Within(S, {e}) = Within(all, {e})
  BY <1>1, <1>4 DEF Within
<1>6. Within({e}, S) = Within({e}, all)
  BY <1>1, <1>4 DEF Within
<1> QED
  BY <1>5, <1>6 DEF OwnDecides, all

\* A search that leaves the table alone has met no mark in its way.
LEMMA UnmarkedWhenSame ==
  ASSUME IsSound(keys), AllHaveKeys(keys), keys' = keys, NEW t, NEW x, x.arg \in Item,
         ~ IsStale(x), Search(t, x), NEW id, id = IdentityOf[x.arg.key]
  PROVE  \A i \in OwnEntries(keys, id) : keys.entries[i].hash # MARK
<1> DEFINE hash == HashOf[id]
           own == OwnEntries(keys, id)
           found == Matches(keys, hash, id)
           next == Found(x)
<1>1. id \in Identities /\ hash_of(x.arg.key) = hash
  BY HashTableAssumption DEF Item, hash_of
<1>2. /\ hash \in Hashes /\ hash # MARK
      /\ own \in SUBSET Live(keys) /\ own \in SUBSET Nat /\ found \in SUBSET Nat
      /\ \A n \in found : /\ IndexAt(keys, hash, n) \in own
                          /\ keys.entries[IndexAt(keys, hash, n)].hash = hash
  BY <1>1, SearchStops
<1>3. SearchFinds(t, x, next) \/ SearchEnds(t, x, next)
  BY DEF Search, SearchRaises
<1>4. ~ SearchFinds(t, x, next)
  <2> SUFFICES ASSUME SearchFinds(t, x, next) PROVE FALSE
    OBVIOUS
  <2> DEFINE ahead == {n \in found : n >= x.step}
             i == IndexAt(keys, hash, Min(ahead))
  <2>1. next = md_find_next([keys |-> keys, step |-> x.step, list |-> <<>>,
                             hash |-> hash, identity |-> id])
    BY <1>1 DEF Found
  <2>2. FindsFirst(next, keys, ahead, i)
    <3> HIDE DEF hash, next
    <3> QED
      BY <2>1, NextFound
  <2>3. ahead # {} /\ keys = [keys EXCEPT !.entries[i].hash = MARK]
    BY <2>2 DEF FindsFirst, SearchFinds
  <2>4. Min(ahead) \in ahead
    <3>1. ahead \in SUBSET Nat
      BY <1>2
    <3> HIDE DEF ahead
    <3> QED
      BY <2>3, <3>1, MinOfNaturals
  <2>5. i \in own /\ keys.entries[i].hash = hash
    BY <1>2, <2>4
  <2>6. i \in Live(keys) /\ keys.entries[i].key # NULL
    BY <1>2, <2>5 DEF AllHaveKeys
  <2> HIDE DEF i, hash, own
  <2>7. OneMarked(keys, keys, i)
    BY <2>3, <2>6, EntryMarked
  <2> QED
    BY <1>2, <2>5, <2>6, <2>7 DEF OneMarked
<1>5. keys = md_finder_cleanup(keys, hash)
  BY <1>1, <1>3, <1>4 DEF SearchEnds, Clean
<1> SUFFICES ASSUME NEW i \in own, keys.entries[i].hash = MARK PROVE FALSE
  OBVIOUS
<1>6. i \in Live(keys) /\ keys.entries[i].identity = id
  BY DEF OwnEntries
<1> DEFINE path == {IndexAt(keys, hash, n) : n \in 0..(PathLength(keys, hash) - 1)}
           es == [j \in DOMAIN keys.entries |->
                    IF j \in path /\ keys.entries[j].hash = MARK
                      THEN [keys.entries[j] EXCEPT !.hash = hash] ELSE keys.entries[j]]
<1>7. i \in path
  <2>1. \E n \in 0..(PathLength(keys, hash) - 1) : IndexAt(keys, hash, n) = i
    BY <1>6, LiveOnPath
  <2> QED
    BY <2>1
<1>8. keys = [keys EXCEPT !.entries = es]
  BY <1>5 DEF md_finder_cleanup
<1>9. IsHtKeys(keys) /\ i \in DOMAIN keys.entries /\ keys.entries[i] \in Entry
  BY <1>6, LiveFinite DEF IsSound, IsHtKeys
<1> HIDE DEF path, hash
<1>10. keys.entries = es
  <2> HIDE DEF es
  <2> QED
    BY <1>8, <1>9 DEF IsHtKeys
<1>11. es[i] = [keys.entries[i] EXCEPT !.hash = hash]
  BY <1>7, <1>9
<1> HIDE DEF es
<1>12. keys.entries[i].hash = hash
  BY <1>9, <1>10, <1>11 DEF Entry
<1> QED
  BY <1>2, <1>12

\* The element taken, and what it should add.
ElementTaken(x, was, e, wanted, log2) ==
  /\ Running(x, version) /\ x.pc = "next"
  /\ x.op = was.op /\ x.phase = was.phase /\ x.other = was.other /\ x.result = was.result
  /\ x.arg = e /\ ToSet(was.rest) = {e} \cup ToSet(x.rest)
  /\ x.step = 0 /\ x.version = version /\ x.log2 = log2 /\ x.visited = <<>>
  /\ x.want = was.want \cup wanted
  /\ x.pairs = was.pairs /\ x.base = was.base /\ x.quiet = was.quiet
  /\ x.rest = Tail(was.rest)

FinderReset(x, mid, log2, none, want) ==
  /\ x \in TaskType /\ x.log2 = log2 /\ x.visited = none /\ x.want = want
  /\ x.pc = mid.pc /\ x.arg = mid.arg /\ x.rest = mid.rest
  /\ x.step = mid.step /\ x.version = mid.version
  /\ x.op = mid.op /\ x.phase = mid.phase /\ x.other = mid.other
  /\ x.result = mid.result /\ x.answer = mid.answer /\ x.base = mid.base
  /\ x.pairs = mid.pairs /\ x.quiet = mid.quiet

\* A new finder has marked nothing, and is where the search begins.
LEMMA FinderIsReset ==
  ASSUME NEW mid \in TaskType, NEW log2 \in Nat, NEW none \in Seq(Nat),
         NEW want \in SUBSET Elem,
         NEW x, x = [mid EXCEPT !.log2 = log2, !.visited = none, !.want = want]
  PROVE  FinderReset(x, mid, log2, none, want)
BY DEF TaskType, FinderReset

\* Taking an element leaves the rest of the operation as it was.
LEMMA TakenIsRunning ==
  ASSUME NEW was, Running(was, version), was.pc = "next", was.rest # <<>>,
         version \in Nat, NEW log2 \in Nat,
         NEW wanted \in SUBSET Elem,
         NEW x, x = [was EXCEPT !.arg = Head(was.rest), !.rest = Tail(@),
                                !.step = 0, !.version = version,
                                !.log2 = log2, !.visited = <<>>,
                                !.want = @ \cup wanted]
  PROVE  ElementTaken(x, was, Head(was.rest), wanted, log2) /\ x.arg \in Elem
<1> DEFINE e == Head(was.rest)
           rest == Tail(was.rest)
           want == was.want \cup wanted
<1>1. was \in TaskType
  BY DEF Running, Begun
<1>2. e \in Elem /\ rest \in Seq(Elem) /\ ToSet(was.rest) = {e} \cup ToSet(rest)
  <2>1. was.rest \in Seq(Elem)
    BY <1>1 DEF TaskType
  <2> QED
    BY <2>1, ListElements
<1>3. want \in SUBSET Elem /\ <<>> \in Seq(Nat)
  BY <1>1 DEF TaskType
<1>4. x = [was EXCEPT !.arg = e, !.rest = rest, !.step = 0, !.version = version,
                      !.log2 = log2, !.visited = <<>>, !.want = want]
  OBVIOUS
<1> HIDE DEF e, rest, want
<1> DEFINE mid == [was EXCEPT !.arg = e, !.rest = rest, !.step = 0, !.version = version]
<1>5. /\ mid \in TaskType /\ mid.pc = "next" /\ mid.arg = e /\ mid.rest = rest
      /\ mid.step = 0 /\ mid.version = version
      /\ mid.op = was.op /\ mid.phase = was.phase /\ mid.other = was.other
      /\ mid.result = was.result /\ mid.answer = was.answer /\ mid.base = was.base
      /\ mid.pairs = was.pairs /\ mid.quiet = was.quiet
  BY <1>1, <1>2 DEF TaskType
<1> DEFINE none == <<>>
<1>8. x = [mid EXCEPT !.log2 = log2, !.visited = none, !.want = want]
  BY <1>4
<1>10. none \in Seq(Nat)
  OBVIOUS
<1> HIDE DEF mid, none
<1>9. /\ x \in TaskType /\ x.pc = "next" /\ x.arg = e /\ x.rest = rest /\ x.step = 0
      /\ x.version = version /\ x.log2 = log2 /\ x.visited = none /\ x.want = want
      /\ x.op = was.op /\ x.phase = was.phase /\ x.other = was.other
      /\ x.result = was.result /\ x.answer = was.answer /\ x.base = was.base
      /\ x.pairs = was.pairs /\ x.quiet = was.quiet
  <2>1. mid \in TaskType /\ want \in SUBSET Elem
    BY <1>3, <1>5
  <2>2. FinderReset(x, mid, log2, none, want)
    BY <1>8, <1>10, <2>1, FinderIsReset
  <2> QED
    BY <1>5, <2>2 DEF FinderReset
<1>6. IsInjective(<<>>)
  BY DEF IsInjective
<1>7. Running(x, version)
  BY <1>9, <1>6 DEF none, Running, Begun, InPhase, Admitted
<1> QED
  BY <1>2, <1>9, <1>7 DEF ElementTaken, e, want, rest, none

\* What it should add is what the items of its identity make of it.
TakenReady(x, ks, all) ==
  /\ ArgumentOpen(x)
  /\ x.phase \in Searching \cup Collecting
  /\ x.phase \in Collecting => x.want = x.result
  /\ x.arg = NoPair => Wanting(x, {}, all)
  /\ x.arg # NoPair => Wanting(x, Remaining(x, ks), all)

\* The element taken is still to be compared with all the items of its identity.
LEMMA TakenWanting ==
  ASSUME NEW ks, IsSound(ks), Identified(ks), AllHaveKeys(ks),
         NEW was, Running(was, version), was.pc = "next", NextOK(was),
         NEW e \in Elem, NEW all, all = ItemSet(ks),
         NEW wanted,
         wanted = CASE was.phase = "and1" -> Within(all, {e})
                    [] was.phase \in {"or1", "sub2"} -> Outside({e}, all)
                    [] was.phase \in Collecting -> {}
                    [] OTHER -> Within({e}, all),
         NEW x, NEW log2, ElementTaken(x, was, e, wanted, log2)
  PROVE  TakenReady(x, ks, all)
<1>1. was \in TaskType /\ x \in TaskType
  BY DEF Running, Begun, ElementTaken
<1>2. was.phase \in Searching \cup Collecting
  BY DEF NextOK, Running, Begun, InPhase, Searching, Collecting, Sets
<1>3. all \in SUBSET Elem
  BY ItemsListed DEF Elem
<1>4. wanted \in SUBSET Elem
  <2>1. Within(all, {e}) \in SUBSET Elem /\ Within({e}, all) \in SUBSET Elem
        /\ Outside({e}, all) \in SUBSET Elem
    BY <1>3 DEF Within, Outside
  <2> QED
    BY <1>2, <2>1, Zenon
<1>5. ArgumentOpen(x)
  BY DEF ArgumentOpen, NextOK, ElementTaken
<1>6. /\ was.phase = "and1" => wanted = Within(all, {e})
      /\ was.phase \in {"or1", "sub2"} => wanted = Outside({e}, all)
      /\ was.phase \in {"and2", "contains", "isdisjoint", "ge"} => wanted = Within({e}, all)
      /\ was.phase \in Collecting => wanted = {}
  BY DEF Collecting
<1>7. /\ x.phase = was.phase /\ x.result = was.result /\ x.arg = e
      /\ x.want = was.want \cup wanted
      /\ was.phase \in {"and1", "and2", "or1", "sub2"} \cup Collecting => was.result = was.want
      /\ was.phase \in {"contains", "isdisjoint"} => was.want = {}
  BY DEF ElementTaken, NextOK, Sets, Collecting
<1>8. ASSUME NEW S, OwnDecides(e, S, all)
      PROVE  Wanting(x, S, all)
  <2>1. Within(S, {e}) = Within(all, {e}) /\ Within({e}, S) = Within({e}, all)
        /\ Outside({e}, S) = Outside({e}, all)
    BY <1>8 DEF OwnDecides, Outside
  <2> QED
    BY <1>6, <1>7, <2>1 DEF Wanting
<1>9. ASSUME e = NoPair PROVE Wanting(x, {}, all)
  <2>1. AloneWithin(e, all) /\ AloneWithin(e, {e})
    BY WithinOne
  <2>2. OwnDecides(e, {}, all)
    BY <1>9, <2>1 DEF AloneWithin, OwnDecides
  <2> QED
    BY <1>8, <2>2
<1>10. ASSUME e # NoPair PROVE Wanting(x, Remaining(x, ks), all)
  <2> DEFINE S == {ItemAt(ks, i) : i \in OwnEntries(ks, IdentityOf[e.key])}
  <2>1. e \in Item
    BY <1>10 DEF Elem
  <2>2. Remaining(x, ks) = S
    <3>1. ToSet(x.visited) = {}
      BY DEF ElementTaken, ToSet
    <3>2. OwnEntries(ks, IdentityOf[e.key]) \ {} = OwnEntries(ks, IdentityOf[e.key])
      OBVIOUS
    <3> QED
      BY <1>7, <3>1, <3>2 DEF Remaining
  <2> HIDE DEF S
  <2>3. OwnDecides(e, S, all)
    BY <2>1, OwnSuffices DEF S
  <2> QED
    BY <1>8, <2>2, <2>3
<1> QED
  BY <1>2, <1>5, <1>6, <1>7, <1>9, <1>10 DEF TakenReady

\* With one element more, what was seen is about that one too.
LEMMA SeenMore ==
  ASSUME NEW was, InPhase(was), NEW T, SeenSome(was, T), NEW own, own = ToSet(was.base),
         NEW e \in Elem, NEW wanted,
         wanted = CASE was.phase = "and1" -> Within(own, {e})
                    [] was.phase \in {"or1", "sub2"} -> Outside({e}, own)
                    [] was.phase \in Collecting -> {}
                    [] OTHER -> Within({e}, own),
         NEW y, y.op = was.op, y.phase = was.phase, y.other = was.other,
         y.base = was.base, y.result = was.result, y.want = was.want \cup wanted,
         ToSet(was.rest) = {e} \cup ToSet(y.rest),
         y.phase \in Collecting =>
           y.pairs = was.pairs \cup {<<IdentityOf[f.key], f.value>> : f \in {e} \ {NoPair}}
  PROVE  SeenSome(y, T \cup {e})
<1> DEFINE new == T \cup {e}
           other == ToSet(was.other.elems)
           Pairs(set) == {<<IdentityOf[f.key], f.value>> : f \in set \ {NoPair}}
<1>1. /\ Within(own, new) = Within(own, T) \cup Within(own, {e})
      /\ Within(new, own) = Within(T, own) \cup Within({e}, own)
      /\ Outside(new, own) = Outside(T, own) \cup Outside({e}, own)
  <2>1. WithinUnion(own, T, e)
    BY WithinMore
  <2> HIDE DEF new
  <2> QED
    BY <2>1 DEF WithinUnion, new
<1>2. /\ was.phase = "and1" => wanted = Within(own, {e})
      /\ was.phase \in {"or1", "sub2"} => wanted = Outside({e}, own)
      /\ was.phase \in {"and2", "contains", "isdisjoint", "ge"} => wanted = Within({e}, own)
      /\ was.phase \in Collecting => wanted = {}
  BY DEF Collecting
<1>3. /\ T \in SUBSET Elem /\ T \cup ToSet(was.rest) = other /\ Seen(was, T)
  BY DEF SeenSome
<1>4. Pairs(new) = Pairs(T) \cup Pairs({e})
  OBVIOUS
<1> HIDE DEF new, Pairs
<1>5. y.phase \in Collecting => /\ y.pairs = Pairs(new) /\ y.want = was.want
                                /\ y.want = IF y.phase = "or2" THEN other ELSE {}
  BY <1>2, <1>3, <1>4 DEF Seen, Pairs
<1>6. Seen(y, new)
  <2> HIDE DEF other
  <2>1. ToSet(y.other.elems) = other /\ ToSet(y.base) = own
    BY DEF other
  <2>2. /\ y.phase = "and1" => y.want = Within(own, new)
        /\ y.phase = "and2" => y.want = Within(new, own)
        /\ y.phase = "or1" => y.want = own \cup Outside(new, own)
    BY <1>1, <1>2, <1>3 DEF Seen
  <2>5. y.op = "sub2" => y.phase = "sub2"
    BY DEF InPhase, Sets
  <2>3. /\ y.op = "sub2" => y.want = Outside(new, own)
        /\ y.op = "xor" /\ y.phase = "sub2" =>
             y.want = Outside(own, other) \cup Outside(new, own)
    BY <1>1, <1>2, <1>3, <2>1, <2>5 DEF Seen
  <2>4. /\ y.phase \in {"contains", "isdisjoint", "ge"} =>
             y.want = Within(new, own) /\ y.result = {}
        /\ y.phase = "contains" => Len(y.other.elems) = 1
    BY <1>1, <1>2, <1>3 DEF Seen
  <2> QED
    BY <1>5, <2>1, <2>2, <2>3, <2>4 DEF Seen, Pairs
<1>7. new \in SUBSET Elem /\ new \cup ToSet(y.rest) = ToSet(y.other.elems)
  BY <1>3 DEF new
<1> QED
  BY <1>6, <1>7 DEF SeenSome, new

\* The element taken is one of those seen.
TakenQuiet(x, ks) ==
  x.phase \in Searching => QuietReady(x, ks)

\* Once it is taken, what should be added for it is accounted for.
LEMMA TakenIsSeen ==
  ASSUME NEW ks, NEW was, Running(was, version), was.pc = "next", QuietOK(was, ks),
         NEW e \in Elem, NEW all, all = ItemSet(ks), NEW wanted,
         wanted = CASE was.phase = "and1" -> Within(all, {e})
                    [] was.phase \in {"or1", "sub2"} -> Outside({e}, all)
                    [] was.phase \in Collecting -> {}
                    [] OTHER -> Within({e}, all),
         NEW x, NEW log2, ElementTaken(x, was, e, wanted, log2)
  PROVE  TakenQuiet(x, ks)
<1> SUFFICES ASSUME x.phase \in Searching, x.quiet PROVE QuietReady(x, ks)
  BY DEF TakenQuiet, QuietReady
<1>1. was.op # "none" /\ was.quiet /\ InPhase(was) /\ was.phase \in Searching
  BY DEF Running, Begun, ElementTaken
<1>2. ~ Loose(was)
  BY <1>1 DEF Loose, InPhase, Sets, Searching
<1>3. ToSet(was.base) = all
  BY <1>1 DEF QuietOK
<1>4. PICK T : SeenSome(was, T)
  BY <1>1, <1>2 DEF QuietOK
<1>5. SeenSome(x, T \cup {e})
  <2>1. /\ x.op = was.op /\ x.phase = was.phase /\ x.other = was.other
        /\ x.base = was.base /\ x.result = was.result /\ x.want = was.want \cup wanted
        /\ ToSet(was.rest) = {e} \cup ToSet(x.rest) /\ x.phase \notin Collecting
    BY DEF ElementTaken, Searching, Collecting
  <2> QED
    BY <1>1, <1>3, <1>4, <2>1, SeenMore
<1>6. e \in T \cup {e} /\ x.arg = e /\ ToSet(x.base) = all
  BY <1>3 DEF ElementTaken
<1> QED
  BY <1>5, <1>6 DEF QuietReady

\* So is one that or2 and sub1 collect.
LEMMA CollectedQuiet ==
  ASSUME NEW ks, NEW was, Running(was, version), was.pc = "next", QuietOK(was, ks),
         was.phase \in Collecting, NEW e \in Elem,
         NEW y, y.op = was.op, y.phase = was.phase, y.other = was.other,
         y.base = was.base, y.result = was.result, y.want = was.want, y.pc = "next",
         y.quiet = was.quiet, ToSet(was.rest) = {e} \cup ToSet(y.rest),
         y.pairs = was.pairs \cup {<<IdentityOf[f.key], f.value>> : f \in {e} \ {NoPair}}
  PROVE  QuietOK(y, ks)
<1> SUFFICES ASSUME y.quiet PROVE QuietOK(y, ks)
  BY DEF QuietOK
<1>1. was.op # "none" /\ was.quiet /\ InPhase(was)
  BY DEF Running, Begun
<1>2. ToSet(y.base) = ItemSet(ks) /\ (Loose(y) <=> Loose(was))
  BY <1>1 DEF QuietOK, Loose
<1>3. ASSUME ~ Loose(was) PROVE \E T : SeenSome(y, T)
  <2>1. PICK T : SeenSome(was, T)
    BY <1>1, <1>3 DEF QuietOK
  <2> DEFINE own == ToSet(was.base)
             wanted == {}
  <2>2. wanted = CASE was.phase = "and1" -> Within(own, {e})
                   [] was.phase \in {"or1", "sub2"} -> Outside({e}, own)
                   [] was.phase \in Collecting -> {}
                   [] OTHER -> Within({e}, own)
    BY DEF Collecting
  <2>3. y.want = was.want \cup wanted
    OBVIOUS
  <2>4. own = ToSet(was.base)
    OBVIOUS
  <2> HIDE DEF own, wanted
  <2>5. SeenSome(y, T \cup {e})
    BY <1>1, <2>1, <2>2, <2>3, <2>4, SeenMore
  <2> QED
    BY <2>5
<1> QED
  BY <1>2, <1>3 DEF QuietOK

\* While no other operation is in the middle of a search there are no marks.
LEMMA OpenForSearch ==
  ASSUME NEW t, Stepping(t), tasks[t].pc = "next", NEW x, Search(t, x), ~ IsStale(x),
         x.arg \in Item, ~ damaged', NEW id, id = IdentityOf[x.arg.key]
  PROVE  /\ \A i \in OwnEntries(keys, id) : keys.entries[i].hash # MARK
         /\ MarkedFor(keys, id) \/ keys' = keys
<1>1. TableOK /\ IsSound(keys) /\ AllHaveKeys(keys)
  BY SteppingFacts
<1>2. CASE SomeMarked
  <2>1. \E u \in Tasks \ {t} : tasks[u].pc = "eq"
    BY <1>2 DEF SomeMarked
  <2>2. keys' = keys
    BY <2>1 DEF Stepping, Unaided
  <2> QED
    BY <1>1, <2>2, UnmarkedWhenSame
<1>3. CASE ~ SomeMarked
  <2>1. IsSettled(keys)
    BY <1>1, <1>3 DEF TableOK, TableInvariant, Stepping, Idle
  <2>2. \A i \in Live(keys) : keys.entries[i].hash # MARK
    BY <2>1 DEF IsSettled
  <2> QED
    BY <2>2 DEF MarkedFor, OwnEntries
<1> QED
  BY <1>2, <1>3

\* Taking an element keeps the invariant: one that is no pair, one that is
\* collected, and one that is searched for.
LEMMA TakeElementKept ==
  ASSUME NEW t, Stepping(t), TakeElement(t), ~ damaged'
  PROVE  \E y : Become(t, y) /\ StepResult(t, y)
<1> DEFINE was == tasks[t]
           e == Head(was.rest)
           all == ItemSet(keys)
           wanted == Wanted([was EXCEPT !.arg = e])
           log2 == keys.log2_size
           x == [was EXCEPT !.arg = Head(was.rest), !.rest = Tail(@),
                            !.step = 0, !.version = version,
                            !.log2 = log2, !.visited = <<>>,
                            !.want = @ \cup wanted]
<1>1. /\ was.pc = "next" /\ was.rest # <<>> /\ TaskOK(was, keys, version)
      /\ Running(was, version) /\ NextOK(was) /\ QuietOK(was, keys)
      /\ TableOK /\ IsSound(keys) /\ Identified(keys) /\ AllHaveKeys(keys)
      /\ version \in Nat /\ version' = version
  <2>1. was.pc = "next" /\ was.rest # <<>>
    BY DEF TakeElement
  <2>2. /\ TaskOK(was, keys, version) /\ Running(was, version) /\ QuietOK(was, keys)
        /\ TableOK /\ IsSound(keys) /\ Identified(keys) /\ AllHaveKeys(keys)
        /\ version \in Nat /\ version' = version
    BY <2>1, SteppingFacts
  <2>3. NextOK(was)
    BY <2>1, <2>2 DEF TaskOK, Running, Begun
  <2> QED
    BY <2>1, <2>2, <2>3
<1>2. \/ /\ x.arg = NoPair
         /\ Become(t, IF x.phase \in Collecting THEN x ELSE Follow(x, On(x, "nopair")))
         /\ UNCHANGED keys
      \/ /\ x.arg # NoPair /\ x.phase \in Collecting
         /\ Become(t, [x EXCEPT !.pairs =
                         @ \cup {<<IdentityOf[x.arg.key], x.arg.value>>}])
         /\ UNCHANGED keys
      \/ /\ x.arg # NoPair /\ x.phase \in Searching
         /\ Search(t, x)
  BY DEF TakeElement
<1>3. was \in TaskType /\ e \in Elem /\ log2 \in Nat
  <2>1. was \in TaskType /\ was.rest \in Seq(Elem)
    BY <1>1 DEF Running, Begun, TaskType
  <2>2. e \in Elem
    BY <1>1, <2>1, ListElements
  <2>3. log2 \in Nat
    BY <1>1, ConstantsAssumption DEF IsSound, IsHtKeys, Log2Sizes, HT_LOG_MINSIZE
  <2> QED
    BY <2>1, <2>2, <2>3
<1>4. wanted = CASE was.phase = "and1" -> Within(all, {e})
                 [] was.phase \in {"or1", "sub2"} -> Outside({e}, all)
                 [] was.phase \in Collecting -> {}
                 [] OTHER -> Within({e}, all)
  <2> DEFINE z == [was EXCEPT !.arg = e]
  <2> HIDE DEF e, was
  <2>1. z.phase = was.phase /\ z.arg = e
    BY <1>3 DEF TaskType
  <2>2. ToSet(Items) = all
    BY <1>1, ItemsListed DEF Items
  <2> HIDE DEF z, all
  <2> QED
    BY <2>1, <2>2 DEF Wanted, z
<1>5. wanted \in SUBSET Elem
  <2>1. all \in SUBSET Elem
    BY <1>1, ItemsListed DEF Elem
  <2> HIDE DEF all, e, was, wanted
  <2>2. Within(all, {e}) \in SUBSET Elem /\ Within({e}, all) \in SUBSET Elem
        /\ Outside({e}, all) \in SUBSET Elem
    BY <1>3, <2>1 DEF Within, Outside
  <2> QED
    BY <1>4, <2>2, Zenon
<1>6. ElementTaken(x, was, e, wanted, log2) /\ e = x.arg
  <2> HIDE DEF was, wanted, log2
  <2>1. ElementTaken(x, was, e, wanted, log2)
    BY <1>1, <1>3, <1>5, TakenIsRunning
  <2> QED
    BY <2>1 DEF ElementTaken
<1>7. /\ ArgumentOpen(x)
      /\ x.phase \in Searching \cup Collecting
      /\ x.phase \in Collecting => x.want = x.result
      /\ e = NoPair => Wanting(x, {}, all)
      /\ e # NoPair => Wanting(x, Remaining(x, keys), all)
  <2> HIDE DEF was, wanted, log2, e, x
  <2>1. TakenReady(x, keys, all)
    <3>1. all = ItemSet(keys)
      OBVIOUS
    <3> HIDE DEF all
    <3> QED
      BY <1>1, <1>3, <1>4, <1>6, <3>1, TakenWanting
  <2> QED
    BY <1>6, <2>1 DEF TakenReady
<1>16. TakenQuiet(x, keys)
  <2> HIDE DEF was, wanted, log2, e, x
  <2>1. all = ItemSet(keys)
    OBVIOUS
  <2> HIDE DEF all
  <2> QED
    BY <1>1, <1>3, <1>4, <1>6, <2>1, TakenIsSeen
<1>17. /\ x.phase = was.phase /\ x.op = was.op /\ x.other = was.other
       /\ x.base = was.base /\ x.result = was.result /\ x.quiet = was.quiet
       /\ x.pairs = was.pairs /\ ToSet(was.rest) = {e} \cup ToSet(x.rest)
       /\ x.want = was.want \cup wanted /\ (x.phase \in Collecting => wanted = {})
  <2>1. was.phase \in Collecting => wanted = {}
    BY <1>4 DEF Collecting
  <2> HIDE DEF was, wanted, log2, e, x
  <2> QED
    BY <1>6, <2>1 DEF ElementTaken
<1>8. Running(x, version) /\ x.pc = "next" /\ x.version = version /\ x.log2 = log2
      /\ x.visited = <<>> /\ x.step = 0 /\ x \in TaskType
  BY <1>6 DEF ElementTaken, Running, Begun
<1> HIDE DEF x, wanted, e, all
<1>9. ASSUME UNCHANGED keys, NEW y, Become(t, y), TaskOK(y, keys, version),
             QuietOK(y, keys), y.pc # "eq"
      PROVE  \E z : Become(t, z) /\ StepResult(t, z)
  <2>1. tasks[t].pc # "eq"
    BY <1>1
  <2>2. StepResult(t, y)
    BY <1>9, <2>1, QuietStep
  <2> QED
    BY <1>9, <2>2
<1>10. ASSUME NEW y, Running(y, version), y.pc = "next", y.phase \in Collecting,
              y.want = y.result
       PROVE  TaskOK(y, keys, version) /\ y.pc # "eq"
  <2>1. NextOK(y)
    BY <1>10 DEF NextOK, Collecting
  <2> QED
    BY <1>10, <2>1 DEF TaskOK, Running, Begun
<1>11. CASE x.arg = NoPair /\ x.phase \in Collecting /\ UNCHANGED keys /\ Become(t, x)
  <2>1. TaskOK(x, keys, version) /\ x.pc # "eq"
    BY <1>7, <1>8, <1>10, <1>11
  <2>2. x.pairs = was.pairs \cup {<<IdentityOf[f.key], f.value>> : f \in {e} \ {NoPair}}
    BY <1>6, <1>11, <1>17
  <2>3. x.want = was.want
    BY <1>11, <1>17
  <2> HIDE DEF was
  <2>4. QuietOK(x, keys)
    BY <1>1, <1>3, <1>8, <1>11, <1>17, <2>2, <2>3, CollectedQuiet
  <2> QED
    BY <1>9, <1>11, <2>1, <2>4
<1>12. CASE /\ x.arg = NoPair /\ x.phase \in Searching /\ UNCHANGED keys
            /\ Become(t, Follow(x, On(x, "nopair")))
  <2> DEFINE y == Follow(x, On(x, "nopair"))
  <2>0. "nopair" \in {"missed", "nopair"}
    OBVIOUS
  <2>1. \A ks : TaskOK(y, ks, version) /\ y.pc \in {"next", "done"}
    BY <1>6, <1>7, <1>8, <1>12, <2>0, MissedOK
  <2>3. Wanting(x, {}, ItemSet(keys)) /\ QuietReady(x, keys)
    BY <1>6, <1>7, <1>12, <1>16 DEF TakenQuiet, all
  <2>4. QuietOK(y, keys)
    BY <1>8, <1>12, <2>0, <2>3, QuietMissed
  <2> HIDE DEF y
  <2>2. TaskOK(y, keys, version) /\ y.pc # "eq" /\ Become(t, y)
    BY <1>12, <2>1 DEF y
  <2> QED
    BY <1>9, <1>12, <2>2, <2>4
<1>13. CASE /\ x.arg # NoPair /\ x.phase \in Collecting /\ UNCHANGED keys
            /\ Become(t, [x EXCEPT !.pairs =
                            @ \cup {<<IdentityOf[x.arg.key], x.arg.value>>}])
  <2> DEFINE pairs == x.pairs \cup {<<IdentityOf[x.arg.key], x.arg.value>>}
             y == [x EXCEPT !.pairs = pairs]
  <2>1. Become(t, y)
    BY <1>13
  <2>2. x.arg \in Item
    BY <1>3, <1>6, <1>13 DEF Elem
  <2>3. pairs \in SUBSET (Identities \X Values)
    <3>1. IdentityOf[x.arg.key] \in Identities /\ x.arg.value \in Values
      BY <2>2, HashTableAssumption DEF Item
    <3>2. x.pairs \in SUBSET (Identities \X Values)
      BY <1>8 DEF TaskType
    <3> QED
      BY <3>1, <3>2
  <2> HIDE DEF pairs
  <2>4. /\ y \in TaskType /\ y.pc = "next" /\ y.phase = x.phase
        /\ y.op = x.op /\ y.other = x.other /\ y.answer = x.answer
        /\ y.version = x.version /\ y.visited = x.visited /\ y.base = x.base
        /\ y.want = x.want /\ y.result = x.result
        /\ y.pairs = pairs /\ y.rest = x.rest /\ y.quiet = x.quiet
    BY <1>8, <2>3 DEF TaskType
  <2> HIDE DEF y
  <2>5. Running(y, version)
    BY <1>8, <2>4 DEF Running, Begun, InPhase, Admitted
  <2>6. TaskOK(y, keys, version) /\ y.pc # "eq"
    BY <1>7, <1>10, <1>13, <2>4, <2>5
  <2>7. y.pairs = was.pairs \cup {<<IdentityOf[f.key], f.value>> : f \in {e} \ {NoPair}}
    BY <1>6, <1>13, <1>17, <2>4 DEF pairs
  <2>8. y.want = was.want
    BY <1>13, <1>17, <2>4
  <2> HIDE DEF was
  <2>9. QuietOK(y, keys)
    BY <1>1, <1>3, <1>13, <1>17, <2>4, <2>7, <2>8, CollectedQuiet
  <2> QED
    BY <1>9, <1>13, <2>1, <2>6, <2>9
<1>14. CASE x.arg # NoPair /\ x.phase \in Searching /\ Search(t, x)
  <2> DEFINE id == IdentityOf[x.arg.key]
  <2>1. x.arg \in Item /\ id \in Identities
    <3>1. x.arg \in Item
      BY <1>3, <1>6, <1>14 DEF Elem
    <3> QED
      BY <3>1, HashTableAssumption DEF Item
  <2>2. ~ IsStale(x)
    BY <1>8 DEF IsStale
  <2>3. /\ \A i \in OwnEntries(keys, id) : keys.entries[i].hash # MARK
        /\ MarkedFor(keys, id) \/ keys' = keys
    <3>1. tasks[t].pc = "next"
      BY <1>1
    <3> QED
      BY <1>14, <2>1, <2>2, <3>1, OpenForSearch
  <2>4. \A n \in Matches(keys, HashOf[id], id) : n >= x.step
    <3>1. Matches(keys, HashOf[id], id) \in SUBSET Nat
      <4> HIDE DEF id
      <4> QED
        BY <1>1, <2>1, SearchStops
    <3> QED
      BY <1>8, <3>1
  <2>5. ToSet(x.visited) = {}
    BY <1>8 DEF ToSet
  <2>6. Continues(x, keys, Remaining(x, keys))
    <3>1. Wanting(x, Remaining(x, keys), ItemSet(keys))
      BY <1>6, <1>7, <1>14 DEF all
    <3> QED
      BY <1>8, <2>3, <2>4, <2>5, <3>1 DEF Continues
  <2>7. SearchReady(x, keys, version)
    BY <1>7, <1>8, <1>14, <2>1, <2>6 DEF SearchReady
  <2>8. PICK y : Become(t, y) /\ SearchResult(x, y)
    BY <1>1, <1>14, <2>3, <2>7, SearchKept
  <2>9. tasks[t].pc # "eq"
    BY <1>1
  <2>10. StepResult(t, y)
    BY <1>14, <1>16, <2>8, <2>9 DEF SearchResult, StepResult, TakenQuiet
  <2> QED
    BY <2>8, <2>10
<1>15. \/ /\ x.arg = NoPair /\ x.phase \in Collecting /\ UNCHANGED keys /\ Become(t, x)
       \/ /\ x.arg = NoPair /\ x.phase \in Searching /\ UNCHANGED keys
          /\ Become(t, Follow(x, On(x, "nopair")))
       \/ /\ x.arg # NoPair /\ x.phase \in Collecting /\ UNCHANGED keys
          /\ Become(t, [x EXCEPT !.pairs =
                          @ \cup {<<IdentityOf[x.arg.key], x.arg.value>>}])
       \/ x.arg # NoPair /\ x.phase \in Searching /\ Search(t, x)
  <2>1. Searching \cap Collecting = {}
    BY DEF Searching, Collecting
  <2>2. x.phase \in Collecting \/ (x.phase \in Searching /\ x.phase \notin Collecting)
    BY <1>7, <2>1
  <2> QED
    BY <1>2, <2>2, Zenon
<1> QED
  BY <1>11, <1>12, <1>13, <1>14, <1>15

-----------------------------------------------------------------------------
(* The loops over the items themselves, and the end of a loop.             *)

\* The answer of <=, <, == and != is about the items the operation began with,
\* and takes the lengths and one inclusion.
LEMMA LeAnswer ==
  ASSUME NEW x, x.base \in Seq(Item), x.other \in Operands,
         x.op \in {"lt", "le", "eq", "ne"}, NEW yes \in BOOLEAN,
         yes <=> (ToSet(x.base) \subseteq ToSet(x.other.elems) /\ Admitted(x)),
         NEW answer, answer = IF x.op = "ne" THEN ~ yes ELSE yes
  PROVE  AnswerResult(x) = answer
<1> DEFINE n == Len(x.base)
           m == Len(x.other.elems)
           own == ToSet(x.base)
           other == ToSet(x.other.elems)
<1>1. n \in Nat /\ m \in Nat
  BY ItemsViewAssumption
<1>2. /\ x.op = "lt" => (Admitted(x) <=> n < m)
      /\ x.op = "le" => (Admitted(x) <=> n <= m)
      /\ x.op \in {"eq", "ne"} => (Admitted(x) <=> n = m)
  BY DEF Admitted
<1>3. AnswerResult(x) = CASE x.op = "lt" -> own \subseteq other /\ n < m
                          [] x.op = "le" -> own \subseteq other /\ ~ (n > m)
                          [] x.op = "eq" -> own \subseteq other /\ ~ (n > m) /\ ~ (n < m)
                          [] x.op = "ne" -> ~ (own \subseteq other) \/ n > m \/ n < m
  BY DEF AnswerResult
<1> HIDE DEF n, m, own, other
<1>4. (n < m <=> m > n) /\ (n <= m <=> ~ (n > m)) /\ (n = m <=> (~ (n > m) /\ ~ (n < m)))
  BY <1>1
<1>5. yes <=> (own \subseteq other /\ Admitted(x))
  BY DEF own, other
<1> DEFINE some == own \subseteq other
<1> HIDE DEF some
<1>6. CASE x.op = "lt"
  <2>1. AnswerResult(x) = (own \subseteq other /\ n < m)
    BY <1>3, <1>6
  <2>2. yes <=> (own \subseteq other /\ n < m)
    BY <1>2, <1>5, <1>6
  <2>3. answer = yes
    BY <1>6
  <2> QED
    BY <2>1, <2>2, <2>3, Zenon
<1>7. CASE x.op = "le"
  <2>1. AnswerResult(x) = (own \subseteq other /\ ~ (n > m))
    BY <1>3, <1>7
  <2>2. yes <=> (own \subseteq other /\ ~ (n > m))
    BY <1>2, <1>4, <1>5, <1>7
  <2>3. answer = yes
    BY <1>7
  <2> QED
    BY <2>1, <2>2, <2>3, Zenon
<1>8. CASE x.op = "eq"
  <2>1. AnswerResult(x) = (own \subseteq other /\ ~ (n > m) /\ ~ (n < m))
    BY <1>3, <1>8
  <2>2. yes <=> (own \subseteq other /\ ~ (n > m) /\ ~ (n < m))
    BY <1>2, <1>4, <1>5, <1>8
  <2>3. answer = yes
    BY <1>8
  <2> QED
    BY <2>1, <2>2, <2>3, Zenon
<1>9. CASE x.op = "ne"
  <2>1. AnswerResult(x) = (~ (own \subseteq other) \/ n > m \/ n < m)
    BY <1>3, <1>9
  <2>2. ~ yes <=> (~ (own \subseteq other) \/ n > m \/ n < m)
    BY <1>2, <1>4, <1>5, <1>9
  <2>3. answer = ~ yes
    BY <1>9
  <2> DEFINE no == ~ (own \subseteq other) \/ n > m \/ n < m
  <2>4. no \in BOOLEAN /\ AnswerResult(x) = no /\ (no <=> ~ yes)
    BY <2>1, <2>2
  <2> HIDE DEF no
  <2>5. no = ~ yes
    BY <2>4, Zenon
  <2> QED
    BY <2>3, <2>4, <2>5, Zenon
<1> QED
  BY <1>6, <1>7, <1>8, <1>9

\* What answers of <= and the like depend on.
LEMMA SameAnswer ==
  ASSUME NEW x, NEW y, y.op = x.op, y.base = x.base, y.other = x.other
  PROVE  AnswerResult(y) = AnswerResult(x)
BY DEF AnswerResult

\* An answer of <=, <, == and != is right when it says whether the inclusion holds.
LEMMA LeAnswers ==
  ASSUME NEW ver, NEW ks, NEW x, Begun(x, ver), x.phase = "le", NEW yes \in BOOLEAN,
         yes <=> (ToSet(x.base) \subseteq ToSet(x.other.elems) /\ Admitted(x)),
         NEW y, y = Answer(x, yes)
  PROVE  /\ TaskOK(y, ks, ver) /\ y.pc = "done"
         /\ (x.quiet => x.result = {}) => QuietOK(y, ks)
<1>1. x.base \in Seq(Item) /\ x.other \in Operands /\ x.op \in {"lt", "le", "eq", "ne"}
  BY DEF Begun, TaskType, InPhase, Sets
<1> DEFINE answer == IF x.op = "ne" THEN ~ yes ELSE yes
<1>2. answer = IF x.op = "ne" THEN ~ yes ELSE yes
  OBVIOUS
<1> HIDE DEF answer
<1>3. Answers(y, x, answer, ver)
  BY <1>2, GivesAnswer
<1>4. AnswerResult(x) = answer
  BY <1>1, <1>2, LeAnswer
<1>5. AnswerResult(y) = answer
  BY <1>3, <1>4, SameAnswer DEF Answers
<1>6. TaskOK(y, ks, ver) /\ y.pc = "done"
  BY <1>3, <1>5 DEF Answers, TaskOK, Begun, DoneOK, Sets
<1>7. (x.quiet => x.result = {}) => QuietOK(y, ks)
  <2>1. SetResult(x) = {}
    BY <1>1 DEF SetResult
  <2> QED
    BY <1>3, <1>4, <2>1, QuietAnswers
<1> QED
  BY <1>6, <1>7

\* What a loop leaves at its end.
LoopOver(x) ==
  /\ x.phase \in Sets => x.result = x.want
  /\ x.phase # "contains"
  /\ x.phase = "isdisjoint" => x.want = {}
  /\ x.phase = "le" => ToSet(x.base) \subseteq ToSet(x.other.elems)
  /\ x.phase = "ge" => ToSet(x.other.elems) \subseteq x.want

\* A task that goes on to another phase and another list is still a task.
LEMMA PhaseTyped ==
  ASSUME NEW x \in TaskType, NEW phase \in Phases \cup {"none"}, NEW list \in Seq(Elem),
         NEW y, y = [x EXCEPT !.phase = phase, !.rest = list, !.pc = "next"]
  PROVE  y \in TaskType
BY DEF TaskType

\* At the end of a loop the result is what it should be, or the next loop begins.
LEMMA FinishOK ==
  ASSUME NEW ver, NEW ks, NEW x, Running(x, ver), LoopOver(x), NEW y, y = Finish(x)
  PROVE  TaskOK(y, ks, ver) /\ y.pc \in {"next", "done"}
<1>1. x \in TaskType /\ Begun(x, ver) /\ x.other \in Operands /\ InPhase(x) /\ Admitted(x)
  BY DEF Running, Begun
<1>2. CASE x.op = "xor" /\ x.phase = "sub1"
  <2> DEFINE list == SetOf(x.other.elems)
  <2>1. list \in Seq(Elem)
    <3>1. x.other.elems \in Seq(Elem)
      BY <1>1, ItemsViewAssumption DEF Elem
    <3>2. ToSet(x.other.elems) \in SUBSET Elem /\ IsFiniteSet(ToSet(x.other.elems))
      BY <3>1, ListElements, ListFinite
    <3> DEFINE set == ToSet(x.other.elems)
    <3> HIDE DEF set
    <3>3. SetToSeq(set) \in Seq(Elem)
      BY <3>2, SetAsList DEF set
    <3> QED
      BY <3>3 DEF SetOf, set
  <2> DEFINE phase == "sub2"
  <2>2. y = [x EXCEPT !.phase = phase, !.rest = list, !.pc = "next"]
    BY <1>2 DEF Finish
  <2>6. phase \in Phases \cup {"none"}
    BY DEF Phases, Sets
  <2> HIDE DEF list, phase
  <2>3. /\ y \in TaskType /\ y.pc = "next" /\ y.phase = phase /\ y.rest = list
        /\ y.op = x.op /\ y.other = x.other /\ y.answer = x.answer
        /\ y.version = x.version /\ y.visited = x.visited /\ y.base = x.base
        /\ y.want = x.want /\ y.result = x.result
    <3>1. y \in TaskType
      BY <1>1, <2>1, <2>2, <2>6, PhaseTyped
    <3>2. /\ y.pc = "next" /\ y.phase = phase /\ y.rest = list /\ y.op = x.op
          /\ y.other = x.other /\ y.answer = x.answer /\ y.version = x.version /\ y.visited = x.visited
          /\ y.base = x.base /\ y.want = x.want /\ y.result = x.result
      BY <1>1, <2>1, <2>2, <2>6 DEF TaskType
    <3> QED
      BY <3>1, <3>2
  <2>7. y.phase = "sub2"
    BY <2>3 DEF phase
  <2>4. Running(y, ver)
    BY <1>1, <1>2, <2>3, <2>7 DEF Running, Begun, InPhase, Admitted
  <2>5. NextOK(y)
    BY <1>2, <2>3, <2>7 DEF NextOK, LoopOver, Sets
  <2> QED
    BY <2>3, <2>4, <2>5 DEF TaskOK, Running, Begun
<1>3. CASE x.phase = "le"
  <2>1. y = Answer(x, TRUE)
    BY <1>3 DEF Finish
  <2>2. TRUE <=> (ToSet(x.base) \subseteq ToSet(x.other.elems) /\ Admitted(x))
    BY <1>1, <1>3 DEF LoopOver
  <2> QED
    BY <1>1, <1>3, <2>1, <2>2, LeAnswers
<1>4. CASE x.phase \in {"ge", "isdisjoint"}
  <2>1. y = Answer(x, TRUE)
    BY <1>4 DEF Finish
  <2>2. x.op # "ne"
    BY <1>1, <1>4 DEF InPhase, Sets
  <2>3. TRUE = IF x.op = "ne" THEN ~ TRUE ELSE TRUE
    BY <2>2
  <2>4. Answers(y, x, TRUE, ver)
    BY <1>1, <2>1, <2>3, GivesAnswer
  <2> QED
    BY <1>4, <2>4 DEF LoopOver, Answers, TaskOK, Begun, DoneOK, Sets
<1>5. CASE ~ (x.op = "xor" /\ x.phase = "sub1") /\ x.phase \in Sets
  <2>1. y = [x EXCEPT !.pc = "done"]
    BY <1>5 DEF Finish, Sets
  <2>2. /\ y \in TaskType /\ y.pc = "done" /\ y.phase = x.phase
        /\ y.op = x.op /\ y.other = x.other
        /\ y.version = x.version /\ y.visited = x.visited
        /\ y.want = x.want /\ y.result = x.result
    <3>1. y \in TaskType
      BY <1>1, <2>1 DEF TaskType
    <3>2. /\ y.pc = "done" /\ y.phase = x.phase /\ y.op = x.op /\ y.other = x.other
          /\ y.version = x.version /\ y.visited = x.visited /\ y.want = x.want /\ y.result = x.result
      BY <1>1, <2>1 DEF TaskType
    <3> QED
      BY <3>1, <3>2
  <2>3. Begun(y, ver)
    BY <1>1, <2>2 DEF Begun, InPhase
  <2>4. DoneOK(y)
    BY <1>5, <2>2 DEF DoneOK, LoopOver, Sets
  <2> QED
    BY <2>2, <2>3, <2>4 DEF TaskOK, Begun
<1> QED
  BY <1>1, <1>2, <1>3, <1>4, <1>5 DEF LoopOver, InPhase, Sets

\* What a loop with no call in between has seen at its end.
QuietOver(x, ks) ==
  x.quiet => /\ ToSet(x.base) = ItemSet(ks)
             /\ ~ Loose(x) => IF x.phase \in Collecting \cup {"le"}
                                THEN OwnSeen(x) ELSE SeenSome(x, ToSet(x.other.elems))

\* At the end the set and the answer are those of the whole operand.
LEMMA QuietResult ==
  ASSUME NEW ver, NEW ks, NEW x, Running(x, ver), LoopOver(x), QuietOver(x, ks),
         x.quiet, ~ Loose(x), ~ (x.op = "xor" /\ x.phase = "sub1")
  PROVE  /\ x.phase \in Sets => x.result = SetResult(x) /\ AnswerResult(x) = NULL
         /\ x.phase \in {"ge", "isdisjoint"} =>
              x.result = SetResult(x) /\ AnswerResult(x) = TRUE
<1> DEFINE own == ToSet(x.base)
           other == ToSet(x.other.elems)
           some == Within(other, own) # {}
           all == other \subseteq Within(other, own)
<1>1. InPhase(x)
  BY DEF Running, Begun
<1>2. CASE x.phase \in Collecting
  <2>1. OwnSeen(x) /\ x.result = x.want /\ (x.op = "or2" \/ x.op = "sub1")
    BY <1>1, <1>2 DEF QuietOver, LoopOver, InPhase, Collecting, Sets
  <2>2. x.phase = x.op
    BY <1>1, <1>2, <2>1 DEF InPhase, Sets
  <2>3. x.result = SetResult(x)
    BY <2>1, <2>2 DEF OwnSeen, SetResult
  <2>4. AnswerResult(x) = NULL
    BY <2>1 DEF AnswerResult
  <2> QED
    BY <1>2, <2>3, <2>4 DEF Collecting
<1>3. CASE x.phase \in Sets \ Collecting
  <2>1. SeenSome(x, other)
    BY <1>3 DEF QuietOver, Sets
  <2>2. Seen(x, other) /\ x.result = x.want
    BY <1>3, <2>1 DEF SeenSome, LoopOver
  <2>3. x.result = SetResult(x)
    BY <1>1, <1>3, <2>2 DEF Seen, SetResult, InPhase, Sets, Collecting
  <2>4. AnswerResult(x) = NULL
    BY <1>1, <1>3 DEF AnswerResult, InPhase, Sets, Collecting
  <2> QED
    BY <1>3, <2>3, <2>4 DEF Sets
<1>4. CASE x.phase \in {"ge", "isdisjoint"}
  <2>1. SeenSome(x, other)
    BY <1>4 DEF QuietOver, Collecting
  <2>2. Seen(x, other)
    BY <2>1 DEF SeenSome
  <2>3. AnswersAbout(x, some, all)
    <3> HIDE DEF own, other
    <3>1. own = ToSet(x.base) /\ other = ToSet(x.other.elems)
      BY DEF own, other
    <3>2. some = (Within(other, own) # {}) /\ all = (other \subseteq Within(other, own))
      OBVIOUS
    <3> HIDE DEF some, all
    <3> QED
      BY <2>1, <3>1, <3>2, SearchedAnswer
  <2>4. x.result = SetResult(x)
    BY <1>4, <2>2, <2>3 DEF Seen, AnswersAbout
  <2>5. x.want = Within(other, own)
    BY <1>4, <2>2 DEF Seen
  <2>6. x.phase = "isdisjoint" => some = FALSE
    BY <2>5 DEF LoopOver
  <2>7. x.phase = "ge" => all = TRUE
    BY <2>5 DEF LoopOver
  <2>8. x.phase = "isdisjoint" => AnswerResult(x) = ~ some
    BY <2>3 DEF AnswersAbout
  <2>9. x.phase = "ge" => AnswerResult(x) = all
    BY <2>3 DEF AnswersAbout
  <2> HIDE DEF some, all
  <2>10. AnswerResult(x) = TRUE
    BY <1>4, <2>6, <2>7, <2>8, <2>9
  <2> QED
    BY <1>4, <2>4, <2>10 DEF Sets
<1> QED
  BY <1>2, <1>3, <1>4

\* With no call in between, it is the result for the items of the beginning.
LEMMA FinishQuiet ==
  ASSUME NEW ver, NEW ks, NEW x, Running(x, ver), LoopOver(x), QuietOver(x, ks),
         NEW y, y = Finish(x)
  PROVE  QuietOK(y, ks)
<1>1. x \in TaskType /\ Begun(x, ver) /\ x.other \in Operands /\ InPhase(x) /\ x.answer = NULL
  BY DEF Running, Begun
<1>2. CASE x.op = "xor" /\ x.phase = "sub1"
  <2> DEFINE set == ToSet(x.other.elems)
             list == SetToSeq(set)
  <2>1. list \in Seq(Elem) /\ ToSet(list) = set
    <3>1. x.other.elems \in Seq(Elem)
      BY <1>1, ItemsViewAssumption DEF Elem
    <3>2. set \in SUBSET Elem /\ IsFiniteSet(set)
      BY <3>1, ListElements, ListFinite
    <3> HIDE DEF set
    <3> QED
      BY <3>2, SetAsList
  <2> DEFINE phase == "sub2"
  <2>2. y = [x EXCEPT !.phase = phase, !.rest = list, !.pc = "next"]
    BY <1>2 DEF Finish, SetOf
  <2> HIDE DEF list, phase
  <2>5. /\ y.pc = "next" /\ y.phase = phase /\ y.rest = list
        /\ y.op = x.op /\ y.other = x.other /\ y.base = x.base
        /\ y.want = x.want /\ y.quiet = x.quiet
    BY <1>1, <2>2 DEF TaskType
  <2>3. /\ y.pc = "next" /\ y.phase = "sub2" /\ y.rest = list
        /\ y.op = x.op /\ y.other = x.other /\ y.base = x.base
        /\ y.want = x.want /\ y.quiet = x.quiet
    BY <2>5 DEF phase
  <2>4. ASSUME y.quiet PROVE SeenSome(y, {}) /\ ToSet(y.base) = ItemSet(ks)
    <3> DEFINE own == ToSet(x.base)
    <3>1. x.want = Outside(own, set) /\ ToSet(y.base) = ItemSet(ks)
      BY <1>2, <2>3, <2>4 DEF QuietOver, OwnSeen, Loose, Collecting
    <3>2. Outside({}, own) = {}
      BY DEF Outside
    <3>3. Seen(y, {})
      BY <1>2, <2>3, <3>1, <3>2 DEF Seen, Collecting
    <3> QED
      BY <2>1, <2>3, <3>1, <3>3 DEF SeenSome
  <2> QED
    BY <2>3, <2>4 DEF QuietOK
<1>3. CASE x.phase = "le"
  <2>1. y = Answer(x, TRUE)
    BY <1>3 DEF Finish
  <2>2. TRUE <=> (ToSet(x.base) \subseteq ToSet(x.other.elems) /\ Admitted(x))
    BY <1>3 DEF LoopOver, Running
  <2>3. x.quiet => x.result = {}
    BY <1>1, <1>3 DEF QuietOver, OwnSeen, Loose, InPhase, Sets
  <2> QED
    BY <1>1, <1>3, <2>1, <2>2, <2>3, LeAnswers
<1>4. CASE x.phase \in {"ge", "isdisjoint"}
  <2>1. y = Answer(x, TRUE)
    BY <1>4 DEF Finish
  <2>2. x.op # "ne" /\ ~ Loose(x)
    BY <1>1, <1>4 DEF InPhase, Sets, Loose
  <2>3. TRUE = IF x.op = "ne" THEN ~ TRUE ELSE TRUE
    BY <2>2
  <2>4. Answers(y, x, TRUE, ver)
    BY <1>1, <2>1, <2>3, GivesAnswer
  <2>5. x.quiet => x.result = SetResult(x) /\ AnswerResult(x) = TRUE
    BY <1>4, <2>2, QuietResult
  <2> QED
    BY <2>4, <2>5, QuietAnswers
<1>5. CASE ~ (x.op = "xor" /\ x.phase = "sub1") /\ x.phase \in Sets
  <2>1. y = [x EXCEPT !.pc = "done"]
    BY <1>5 DEF Finish, Sets
  <2>2. /\ y.pc = "done" /\ y.op = x.op /\ y.other = x.other
        /\ y.base = x.base /\ y.quiet = x.quiet
        /\ y.result = x.result /\ y.answer = NULL
    BY <1>1, <2>1 DEF TaskType
  <2>3. x.quiet /\ ~ Loose(x) => x.result = SetResult(x) /\ AnswerResult(x) = NULL
    BY <1>5, QuietResult
  <2>4. SetResult(y) = SetResult(x) /\ AnswerResult(y) = AnswerResult(x)
        /\ (Loose(y) <=> Loose(x))
    BY <2>2 DEF SetResult, AnswerResult, Loose
  <2> QED
    BY <2>2, <2>3, <2>4 DEF QuietOK
<1> QED
  BY <1>1, <1>2, <1>3, <1>4, <1>5 DEF LoopOver, InPhase, Sets

\* The items that or2 and sub1 have not collected are those outside the other
\* operand.
LEMMA OwnCollected ==
  ASSUME NEW x, x.base \in Seq(Item), ToSet(Items) = ToSet(x.base), x.phase \in Collecting,
         NEW T, Seen(x, T)
  PROVE  WantedOwn(x) = Outside(ToSet(x.base), T)
<1> DEFINE own == ToSet(x.base)
<1>1. own \in SUBSET Item
  BY ListElements
<1>2. x.pairs = {<<IdentityOf[f.key], f.value>> : f \in T \ {NoPair}}
  BY DEF Seen
<1>3. WantedOwn(x) = {e \in own : <<IdentityOf[e.key], e.value>> \notin x.pairs}
  BY DEF WantedOwn
<1> HIDE DEF own
<1>4. \A e \in own : <<IdentityOf[e.key], e.value>> \in x.pairs
                      <=> \E f \in T : SameItem(e, f)
  BY <1>1, <1>2, ItemsViewAssumption DEF SameItem
<1>5. Outside(own, T) = {e \in own : ~ \E f \in T : SameItem(e, f)}
  BY DEF Outside, Within
<1> QED
  BY <1>3, <1>4, <1>5 DEF own

\* The items ahead of a position that were not collected.
ToAdd(ks, pos, pairs) ==
  {ItemAt(ks, i) : i \in {i \in Live(ks) :
     i >= pos /\ <<ks.entries[i].identity, ks.entries[i].value>> \notin pairs}}

\* What or2 and sub1 should add are the items ahead of position 0.
LEMMA OwnWanted ==
  ASSUME NEW x, IsSound(keys), Identified(keys), AllHaveKeys(keys)
  PROVE  WantedOwn(x) = ToAdd(keys, 0, x.pairs)
<1>1. ToSet(Items) = {ItemAt(keys, i) : i \in Live(keys)}
  BY ItemsListed DEF Items, ItemSet
<1>2. \A i \in Live(keys) : /\ IdentityOf[ItemAt(keys, i).key] = keys.entries[i].identity
                            /\ ItemAt(keys, i).value = keys.entries[i].value
                            /\ i >= 0
  BY DEF ItemAt, Identified, AllHaveKeys, Live
<1>3. WantedOwn(x) = {ItemAt(keys, i) : i \in {i \in Live(keys) :
                        <<keys.entries[i].identity, keys.entries[i].value>> \notin x.pairs}}
  BY <1>1, <1>2 DEF WantedOwn
<1>4. {i \in Live(keys) : <<keys.entries[i].identity, keys.entries[i].value>> \notin x.pairs}
      = {i \in Live(keys) :
           i >= 0 /\ <<keys.entries[i].identity, keys.entries[i].value>> \notin x.pairs}
  BY <1>2
<1> QED
  BY <1>3, <1>4 DEF ToAdd

\* The elements are exhausted.
LEMMA ElementsEndKept ==
  ASSUME NEW t, Stepping(t), ElementsEnd(t)
  PROVE  \E y : Become(t, y) /\ StepResult(t, y)
<1> DEFINE x == tasks[t]
           want == x.want \cup WantedOwn(x)
           own == [x EXCEPT !.pc = "own", !.pos = 0, !.version = version, !.want = want]
<1>1. /\ x.pc = "next" /\ x.rest = <<>> /\ UNCHANGED keys
      /\ Become(t, IF x.phase \in Collecting THEN own ELSE Finish(x))
  BY DEF ElementsEnd
<1>2. /\ TaskOK(x, keys, version) /\ Running(x, version) /\ version \in Nat
      /\ IsSound(keys) /\ Identified(keys) /\ AllHaveKeys(keys) /\ QuietOK(x, keys)
  BY <1>1, SteppingFacts
<1>3. NextOK(x) /\ x \in TaskType
  BY <1>1, <1>2 DEF TaskOK, Running, Begun
<1>7. ASSUME x.quiet
      PROVE  ToSet(x.base) = ItemSet(keys) /\ (~ Loose(x) => SeenSome(x, ToSet(x.other.elems)))
  <2>1. ToSet(x.rest) = {}
    BY <1>1 DEF ToSet
  <2>2. \A T : SeenSome(x, T) => T = ToSet(x.other.elems)
    BY <2>1 DEF SeenSome
  <2> QED
    BY <1>1, <1>2, <1>7, <2>2 DEF QuietOK, Running, Begun
<1>4. ASSUME NEW y, Become(t, y), TaskOK(y, keys, version), QuietOK(y, keys), y.pc # "eq"
      PROVE  \E z : Become(t, z) /\ StepResult(t, z)
  BY <1>1, <1>4, QuietStep
<1>5. CASE x.phase \in Collecting
  <2>1. Become(t, own)
    BY <1>1, <1>5
  <2>2. WantedOwn(x) = ToAdd(keys, 0, x.pairs)
    BY <1>2, OwnWanted
  <2>3. want \in SUBSET Elem
    <3>1. WantedOwn(x) \in SUBSET Item
      BY <1>2, ItemsListed DEF WantedOwn, Items
    <3> QED
      BY <1>3, <3>1 DEF TaskType, Elem
  <2>4. want = x.result \cup ToAdd(keys, 0, x.pairs)
    BY <1>3, <1>5, <2>2 DEF NextOK, Collecting, Sets
  <2>5. x.other \in Operands /\ InPhase(x) /\ x.op # "none" /\ x.answer = NULL /\ Admitted(x)
        /\ IsInjective(x.visited)
    BY <1>2 DEF Running, Begun
  <2>10. ASSUME x.quiet, ~ Loose(x)
         PROVE  /\ x.phase = "or2" => want = ToSet(x.other.elems)
                                      \cup Outside(ToSet(x.base), ToSet(x.other.elems))
                /\ x.phase = "sub1" => want = Outside(ToSet(x.base), ToSet(x.other.elems))
    <3> DEFINE set == ToSet(x.other.elems)
    <3>1. ToSet(Items) = ToSet(x.base) /\ x.base \in Seq(Item) /\ Seen(x, set)
      BY <1>2, <1>3, <1>7, <2>10, ItemsListed DEF Items, SeenSome, TaskType
    <3> HIDE DEF x, set
    <3>2. WantedOwn(x) = Outside(ToSet(x.base), set)
      BY <1>5, <3>1, OwnCollected
    <3>3. x.want = IF x.phase = "or2" THEN set ELSE {}
      BY <1>5, <3>1 DEF Seen, set
    <3> QED
      BY <3>2, <3>3 DEF set
  <2> HIDE DEF want, x
  <2>6. /\ own \in TaskType /\ own.pc = "own" /\ own.pos = 0 /\ own.version = version
        /\ own.want = want
        /\ own.op = x.op /\ own.phase = x.phase /\ own.other = x.other
        /\ own.answer = x.answer /\ own.visited = x.visited /\ own.base = x.base
        /\ own.result = x.result /\ own.pairs = x.pairs /\ own.quiet = x.quiet
    BY <1>2, <1>3, <2>3 DEF TaskType
  <2> HIDE DEF own
  <2>7. Running(own, version)
    BY <1>2, <2>5, <2>6 DEF Running, Begun, InPhase, Admitted
  <2>8. OwnOK(own, keys, version)
    BY <1>5, <2>4, <2>6 DEF OwnOK, ToAdd, Collecting
  <2>9. TaskOK(own, keys, version) /\ own.pc # "eq"
    BY <2>6, <2>7, <2>8 DEF TaskOK, Running, Begun
  <2>11. QuietOK(own, keys)
    BY <1>5, <1>7, <2>6, <2>10 DEF QuietOK, OwnSeen, Loose, Collecting
  <2> QED
    BY <1>4, <2>1, <2>9, <2>11
<1>6. CASE x.phase \notin Collecting
  <2> DEFINE y == Finish(x)
  <2>1. Become(t, y)
    BY <1>1, <1>6
  <2>2. LoopOver(x)
    <3>1. x.phase # "le" /\ x.phase # "contains"
      BY <1>1, <1>3 DEF NextOK
    <3>2. ToSet(x.rest) = {}
      BY <1>1 DEF ToSet
    <3> QED
      BY <1>3, <3>1, <3>2 DEF NextOK, LoopOver
  <2>3. TaskOK(y, keys, version) /\ y.pc \in {"next", "done"}
    <3> HIDE DEF x
    <3> QED
      BY <1>2, <2>2, FinishOK
  <2>4. QuietOver(x, keys)
    <3>1. x.phase # "le"
      BY <1>3 DEF NextOK
    <3> HIDE DEF x
    <3> QED
      BY <1>6, <1>7, <3>1 DEF QuietOver
  <2>5. QuietOK(y, keys)
    <3> HIDE DEF x
    <3> QED
      BY <1>2, <2>2, <2>4, FinishQuiet
  <2> HIDE DEF y
  <2> QED
    BY <1>4, <2>1, <2>3, <2>5
<1> QED
  BY <1>5, <1>6

\* Where md_next stops: at the next live entry, if there is one.
LEMMA OwnPosIs ==
  ASSUME NEW x, IsSound(keys), x.pos \in Nat, NEW pos, pos = OwnPos(x)
  PROVE  /\ pos < keys.nentries =>
              pos \in Live(keys) /\ pos >= x.pos /\ pos \in Nat
                /\ \A i \in Live(keys) : i >= x.pos => pos <= i
         /\ pos >= keys.nentries => \A i \in Live(keys) : ~ (i >= x.pos)
<1> DEFINE ahead == {i \in Live(keys) : i >= x.pos}
           n == keys.nentries
<1>1. n \in Nat /\ \A i \in Live(keys) : i \in Nat /\ i < n
  <2>1. n \in 0..Capacity(keys.log2_size) /\ keys.log2_size \in Log2Sizes
        /\ Live(keys) \subseteq 0..(n - 1)
    BY LiveFinite DEF IsSound
  <2>2. Capacity(keys.log2_size) \in Nat
    BY <2>1, SizeTypes
  <2> HIDE DEF n
  <2> QED
    BY <2>1, <2>2
<1>2. pos = IF ahead = {} THEN n ELSE Min(ahead)
  BY DEF OwnPos
<1>3. ahead \in SUBSET Nat
  BY <1>1
<1>4. CASE ahead = {}
  BY <1>1, <1>2, <1>4
<1>5. CASE ahead # {}
  <2>1. pos = Min(ahead)
    BY <1>2, <1>5
  <2>2. pos \in ahead /\ \A i \in ahead : pos <= i
    <3> HIDE DEF ahead
    <3> QED
      BY <1>3, <1>5, <2>1, MinOfNaturals
  <2> QED
    BY <1>1, <2>2
<1> QED
  BY <1>4, <1>5

\* One item further.
Further(y, x, pos, result) ==
  /\ Running(y, version) /\ y.pc = "own" /\ y.pos = pos + 1 /\ y.result = result
  /\ y.phase = x.phase /\ y.other = x.other /\ y.base = x.base /\ y.want = x.want
  /\ y.version = x.version /\ y.pairs = x.pairs
  /\ y.op = x.op /\ y.quiet = x.quiet

\* A task that moves to another entry with another result is still a task.
LEMMA MovedTyped ==
  ASSUME NEW x \in TaskType, NEW pos \in Nat, NEW result \in SUBSET Elem,
         NEW y, y = [x EXCEPT !.pos = pos, !.result = result]
  PROVE  y \in TaskType
BY DEF TaskType

\* Going one item further leaves the rest of the operation as it was.
LEMMA GoesFurther ==
  ASSUME NEW x, Running(x, version), x.pc = "own", NEW pos \in Nat,
         NEW result \in SUBSET Elem,
         NEW y, y = [x EXCEPT !.pos = pos + 1, !.result = result]
  PROVE  Further(y, x, pos, result)
<1>1. x \in TaskType /\ x.op # "none" /\ InPhase(x) /\ x.other \in Operands
      /\ x.version <= version /\ x.answer = NULL /\ Admitted(x) /\ IsInjective(x.visited)
  BY DEF Running, Begun
<1> DEFINE next == pos + 1
<1>2. next \in Nat
  OBVIOUS
<1>3. y = [x EXCEPT !.pos = next, !.result = result]
  OBVIOUS
<1> HIDE DEF next
<1>4. /\ y \in TaskType /\ y.pc = x.pc /\ y.pos = next /\ y.result = result
      /\ y.op = x.op /\ y.phase = x.phase /\ y.other = x.other /\ y.base = x.base
      /\ y.want = x.want /\ y.version = x.version /\ y.pairs = x.pairs
      /\ y.answer = x.answer /\ y.visited = x.visited /\ y.quiet = x.quiet
  <2>1. y \in TaskType
    BY <1>1, <1>2, <1>3, MovedTyped
  <2>2. /\ y.pc = x.pc /\ y.pos = next /\ y.result = result /\ y.op = x.op
        /\ y.phase = x.phase /\ y.other = x.other /\ y.base = x.base /\ y.want = x.want
        /\ y.version = x.version /\ y.pairs = x.pairs /\ y.answer = x.answer /\ y.visited = x.visited
        /\ y.quiet = x.quiet
    BY <1>1, <1>2, <1>3 DEF TaskType
  <2> QED
    BY <2>1, <2>2
<1>5. Running(y, version)
  BY <1>1, <1>4 DEF Running, Begun, InPhase, Admitted
<1> QED
  BY <1>4, <1>5 DEF Further, next

\* The next item of the multidict itself: met by <= and <, or added.
LEMMA OwnNextKept ==
  ASSUME NEW t, Stepping(t), OwnNext(t)
  PROVE  \E y : Become(t, y) /\ StepResult(t, y)
<1> DEFINE x == tasks[t]
           pos == OwnPos(x)
           item == ItemAt(keys, pos)
           y == [x EXCEPT !.pos = pos + 1]
           no == Answer(x, FALSE)
           pair == <<IdentityOf[item.key], item.value>>
           out(k) == {i \in Live(keys) :
             i >= k /\ <<keys.entries[i].identity, keys.entries[i].value>> \notin x.pairs}
<1>1. /\ x.pc = "own" /\ x.version = version /\ pos < keys.nentries /\ UNCHANGED keys
      /\ Become(t,
           CASE x.phase = "le" ->
                  IF item \in ToSet(x.other.elems) THEN y ELSE no
             [] pair \in x.pairs -> y
             [] OTHER -> [y EXCEPT !.result = @ \cup {item}])
  BY DEF OwnNext, OwnUnchanged
<1>2. /\ TaskOK(x, keys, version) /\ Running(x, version) /\ Begun(x, version)
      /\ IsSound(keys) /\ Identified(keys) /\ AllHaveKeys(keys)
      /\ x \in TaskType /\ x.pos \in Nat /\ QuietOK(x, keys)
  <2>1. TaskOK(x, keys, version) /\ Running(x, version) /\ QuietOK(x, keys)
        /\ IsSound(keys) /\ Identified(keys) /\ AllHaveKeys(keys)
    BY <1>1, SteppingFacts
  <2> QED
    BY <2>1 DEF Running, Begun, TaskType
<1>3. OwnOK(x, keys, version)
  BY <1>1, <1>2 DEF TaskOK, Running, Begun
<1>4. /\ pos \in Live(keys) /\ pos >= x.pos /\ pos \in Nat
      /\ \A i \in Live(keys) : i \in Nat /\ (i >= x.pos => pos <= i)
  <2>1. /\ pos \in Live(keys) /\ pos >= x.pos /\ pos \in Nat
        /\ \A i \in Live(keys) : i >= x.pos => pos <= i
    BY <1>1, <1>2, OwnPosIs
  <2>2. \A i \in Live(keys) : i \in Nat
    <3>1. IsHtKeys(keys)
      BY <1>2 DEF IsSound
    <3>2. Live(keys) \subseteq 0..(keys.nentries - 1)
      BY <3>1, LiveFinite
    <3> QED
      BY <3>2
  <2> QED
    BY <2>1, <2>2
<1>5. /\ item \in Item /\ item \in ItemSet(keys)
      /\ pair = <<keys.entries[pos].identity, keys.entries[pos].value>>
  <2> HIDE DEF pos
  <2>1. item \in Item /\ item \in ItemSet(keys)
    BY <1>2, <1>4, ItemsListed DEF ItemSet
  <2>2. IdentityOf[item.key] = keys.entries[pos].identity
        /\ item.value = keys.entries[pos].value
    BY <1>2, <1>4 DEF ItemAt, Identified, AllHaveKeys
  <2> QED
    BY <2>1, <2>2
<1>6. x.phase = "le" \/ (x.phase \in Collecting /\ x.phase # "le")
  BY <1>3 DEF OwnOK, Collecting
<1>14. x.quiet => ToSet(x.base) = ItemSet(keys) /\ (~ Loose(x) => OwnSeen(x))
  BY <1>1, <1>2 DEF QuietOK, Begun
<1>7. ASSUME NEW z, Become(t, z), TaskOK(z, keys, version), QuietOK(z, keys), z.pc # "eq"
      PROVE  \E w : Become(t, w) /\ StepResult(t, w)
  BY <1>1, <1>7, QuietStep
<1>8. ASSUME NEW z, NEW r, Become(t, z), Further(z, x, pos, r), OwnOK(z, keys, version),
             x.phase = "le" => r = x.result
      PROVE  \E w : Become(t, w) /\ StepResult(t, w)
  <2>1. TaskOK(z, keys, version) /\ z.pc # "eq"
    BY <1>8 DEF Further, TaskOK, Running, Begun
  <2>2. QuietOK(z, keys)
    <3> HIDE DEF x, pos
    <3> QED
      BY <1>8, <1>14 DEF Further, QuietOK, OwnSeen, Loose
  <2> QED
    BY <1>7, <1>8, <2>1, <2>2
<1>9. Further(y, x, pos, x.result) /\ y.result = x.result
  <2>1. x.result \in SUBSET Elem
    BY <1>2 DEF TaskType
  <2>2. y = [x EXCEPT !.pos = pos + 1, !.result = x.result]
    BY <1>2 DEF TaskType
  <2> HIDE DEF x, y, pos
  <2>3. Further(y, x, pos, x.result)
    BY <1>1, <1>2, <1>4, <2>1, <2>2, GoesFurther
  <2> QED
    BY <2>3 DEF Further
<1>10. /\ pair \in x.pairs => out(x.pos) = out(pos + 1)
       /\ pair \notin x.pairs => out(x.pos) = {pos} \cup out(pos + 1)
  <2> HIDE DEF pos, pair
  <2>1. x.pos \in Nat /\ pair = <<keys.entries[pos].identity, keys.entries[pos].value>>
    BY <1>2, <1>5
  <2>2. \A i \in Live(keys) : i >= x.pos <=> (i = pos \/ i >= pos + 1)
    BY <1>4, <2>1
  <2>3. out(x.pos) = {i \in Live(keys) : i = pos /\ <<keys.entries[i].identity, keys.entries[i].value>> \notin x.pairs}
                     \cup out(pos + 1)
    BY <2>2
  <2> QED
    BY <1>4, <2>1, <2>3
<1>11. CASE x.phase = "le" /\ item \in ToSet(x.other.elems)
  <2>1. Become(t, y)
    BY <1>1, <1>11
  <2>2. ToSet(x.base) = ItemSet(keys)
        /\ \A i \in Live(keys) : i < x.pos => ItemAt(keys, i) \in ToSet(x.other.elems)
    BY <1>1, <1>3, <1>11 DEF OwnOK
  <2> HIDE DEF pos, y, x
  <2>3. \A i \in Live(keys) : i < pos + 1 => ItemAt(keys, i) \in ToSet(x.other.elems)
    <3>1. \A i \in Live(keys) : i < pos + 1 => (i < x.pos \/ i = pos)
      BY <1>2, <1>4
    <3> QED
      BY <1>11, <2>2, <3>1
  <2>4. OwnOK(y, keys, version)
    BY <1>3, <1>9, <1>11, <2>2, <2>3 DEF OwnOK, Further, Collecting
  <2> QED
    BY <1>8, <1>9, <2>1, <2>4
<1>12. CASE x.phase = "le" /\ item \notin ToSet(x.other.elems)
  <2>1. Become(t, no)
    <3>1. pair \notin x.pairs
      BY <1>3, <1>12 DEF OwnOK
    <3> HIDE DEF y, item, pos, no, pair
    <3> QED
      BY <1>1, <1>12, <3>1
  <2>2. ToSet(x.base) = ItemSet(keys)
    BY <1>1, <1>3, <1>12 DEF OwnOK
  <2>3. FALSE <=> (ToSet(x.base) \subseteq ToSet(x.other.elems) /\ Admitted(x))
    BY <1>5, <1>12, <2>2
  <2>4. TaskOK(no, keys, version) /\ no.pc = "done"
    <3> HIDE DEF x
    <3> QED
      BY <1>2, <1>12, <2>3, LeAnswers
  <2>5. x.quiet => x.result = {}
    <3> HIDE DEF x
    <3> QED
      BY <1>2, <1>12, <1>14 DEF OwnSeen, Loose, Begun, InPhase, Sets
  <2>6. QuietOK(no, keys)
    <3> HIDE DEF x
    <3> QED
      BY <1>2, <1>12, <2>3, <2>5, LeAnswers
  <2> HIDE DEF no
  <2> QED
    BY <1>7, <2>1, <2>4, <2>6
<1>13. CASE x.phase \in Collecting
  <2>1. x.want = x.result \cup {ItemAt(keys, i) : i \in out(x.pos)}
    BY <1>1, <1>3, <1>13 DEF OwnOK
  <2>2. CASE pair \in x.pairs
    <3>1. Become(t, y)
      BY <1>1, <1>6, <1>13, <2>2 DEF Collecting
    <3>2. x.want = x.result \cup {ItemAt(keys, i) : i \in out(pos + 1)}
      BY <1>10, <2>1, <2>2
    <3> HIDE DEF pos, y, x
    <3>3. OwnOK(y, keys, version)
      BY <1>9, <1>13, <3>2 DEF OwnOK, Further, Collecting
    <3> QED
      BY <1>8, <1>9, <3>1, <3>3
  <2>3. CASE pair \notin x.pairs
    <3> DEFINE result == x.result \cup {item}
               z == [x EXCEPT !.pos = pos + 1, !.result = result]
    <3>1. Become(t, z)
      <4>1. Become(t, [y EXCEPT !.result = @ \cup {item}])
        BY <1>1, <1>13, <2>3 DEF Collecting
      <4>2. [y EXCEPT !.result = @ \cup {item}] = [y EXCEPT !.result = result]
        BY <1>9
      <4>3. [y EXCEPT !.result = result] = z
        <5> HIDE DEF result, pos
        <5> QED
          BY <1>2 DEF TaskType
      <4> QED
        BY <4>1, <4>2, <4>3
    <3>2. result \in SUBSET Elem
      BY <1>2, <1>5 DEF TaskType, Elem
    <3>3. x.want = result \cup {ItemAt(keys, i) : i \in out(pos + 1)}
      <4>1. {ItemAt(keys, i) : i \in out(x.pos)} = {item} \cup {ItemAt(keys, i) : i \in out(pos + 1)}
        <5> HIDE DEF out, pos
        <5> QED
          BY <1>10, <2>3
      <4> HIDE DEF out, pos, item
      <4> QED
        BY <2>1, <4>1
    <3> HIDE DEF pos, x, result, item
    <3>4. Further(z, x, pos, result)
      BY <1>1, <1>2, <1>4, <3>2, GoesFurther
    <3> HIDE DEF z
    <3>5. OwnOK(z, keys, version)
      BY <1>13, <3>3, <3>4 DEF OwnOK, Further, Collecting
    <3> QED
      BY <1>6, <1>8, <1>13, <3>1, <3>4, <3>5 DEF Collecting
  <2> QED
    BY <2>2, <2>3
<1> QED
  BY <1>6, <1>11, <1>12, <1>13

\* The items are exhausted.
LEMMA OwnEndKept ==
  ASSUME NEW t, Stepping(t), OwnEnd(t)
  PROVE  \E y : Become(t, y) /\ StepResult(t, y)
<1> DEFINE x == tasks[t]
           y == Finish(x)
<1>1. /\ x.pc = "own" /\ x.version = version /\ OwnPos(x) >= keys.nentries
      /\ Become(t, y) /\ UNCHANGED keys
  BY DEF OwnEnd, OwnUnchanged
<1>2. /\ TaskOK(x, keys, version) /\ Running(x, version) /\ IsSound(keys)
      /\ QuietOK(x, keys)
  BY <1>1, SteppingFacts
<1>3. OwnOK(x, keys, version) /\ x.pos \in Nat
  BY <1>1, <1>2 DEF TaskOK, Running, Begun, TaskType
<1>4. \A i \in Live(keys) : i \in Nat /\ ~ (i >= x.pos)
  <2>1. \A i \in Live(keys) : ~ (i >= x.pos)
    BY <1>1, <1>2, <1>3, OwnPosIs
  <2>2. Live(keys) \subseteq 0..(keys.nentries - 1)
    BY <1>2, LiveFinite DEF IsSound
  <2> QED
    BY <2>1, <2>2
<1>5. LoopOver(x)
  <2>1. CASE x.phase = "le"
    <3>1. \A i \in Live(keys) : i < x.pos
      BY <1>3, <1>4
    <3>2. ToSet(x.base) \subseteq ToSet(x.other.elems)
      BY <1>1, <1>3, <2>1, <3>1 DEF OwnOK, ItemSet
    <3> QED
      BY <2>1, <3>2 DEF LoopOver, Sets
  <2>2. CASE x.phase \in Collecting
    <3>1. {i \in Live(keys) :
             i >= x.pos /\ <<keys.entries[i].identity, keys.entries[i].value>> \notin x.pairs} = {}
      BY <1>4
    <3>2. x.want = x.result \cup {}
      BY <1>1, <1>3, <2>2, <3>1 DEF OwnOK
    <3> QED
      BY <2>2, <3>2 DEF LoopOver, Collecting
  <2> QED
    BY <1>3, <2>1, <2>2 DEF OwnOK, Collecting
<1>6. TaskOK(y, keys, version) /\ y.pc \in {"next", "done"}
  <2> HIDE DEF x
  <2> QED
    BY <1>2, <1>5, FinishOK
<1>8. QuietOver(x, keys)
  BY <1>1, <1>2, <1>3 DEF QuietOver, QuietOK, OwnOK, Collecting, Running, Begun
<1>9. QuietOK(y, keys)
  <2> HIDE DEF x
  <2> QED
    BY <1>2, <1>5, <1>8, FinishQuiet
<1> HIDE DEF y
<1>7. StepResult(t, y)
  BY <1>1, <1>6, <1>9, QuietStep
<1> QED
  BY <1>1, <1>7

\* All of them.
LEMMA RunKept ==
  ASSUME ViewInvariant, Idle, NEW t \in Tasks, Run(t) \/ Fail(t)
  PROVE  ViewInvariant'
<1>1. Unaided(t)
  BY DEF Run, Fail
<1>2. CASE damaged \/ damaged'
  <2>1. damaged' \in BOOLEAN
    BY <1>1 DEF Unaided, ViewInvariant
  <2>2. damaged'
    BY <1>1, <1>2 DEF Unaided
  <2> QED
    BY <2>1, <2>2 DEF ViewInvariant
<1>3. CASE ~ damaged /\ ~ damaged'
  <2>1. Stepping(t)
    BY <1>1, <1>3 DEF Stepping
  <2>2. \E y : Become(t, y) /\ StepResult(t, y)
    <3>1. CASE TakeElement(t)
      BY <1>3, <2>1, <3>1, TakeElementKept
    <3>2. CASE ElementsEnd(t)
      BY <2>1, <3>2, ElementsEndKept
    <3>3. CASE Compared(t)
      BY <2>1, <3>3, ComparedKept
    <3>4. CASE OwnNext(t)
      BY <2>1, <3>4, OwnNextKept
    <3>5. CASE OwnEnd(t)
      BY <2>1, <3>5, OwnEndKept
    <3>6. CASE OwnRaises(t) \/ ElementRaises(t)
      BY <2>1, <3>6, ElementRaisesKept
    <3>7. CASE CompareRaises(t)
      BY <2>1, <3>7, CompareRaisesKept
    <3> QED
      BY <3>1, <3>2, <3>3, <3>4, <3>5, <3>6, <3>7 DEF Run, Fail
  <2> QED
    BY <1>1, <1>3, <2>2, StepKept
<1> QED
  BY <1>2, <1>3

-----------------------------------------------------------------------------
(* Beginning.                                                              *)

Starts(op, other, start) ==
  /\ start.phase \in Phases
  /\ \/ op \in Sets \cup {"contains", "isdisjoint"} /\ start.phase = op
     \/ op = "xor" /\ start.phase = "sub1"
     \/ op \in {"lt", "le", "eq", "ne"} /\ start.phase = "le"
     \/ op \in {"gt", "ge"} /\ start.phase = "ge"
  /\ start.rest \in Seq(Elem) /\ start.result \in SUBSET Elem
  /\ start.phase \in {"contains", "isdisjoint", "ge"} =>
       start.rest = other.elems /\ start.result = {}

\* The dispatch on the operation gives each the loop it begins with.
LEMMA StartsOK ==
  ASSUME IsSound(keys), AllHaveKeys(keys), NEW op \in Ops, NEW other \in Operands,
         NEW start, start = Start(op, other)
  PROVE  Starts(op, other, start)
<1> DEFINE list == SetOf(other.elems)
           set == ToSet(other.elems)
           own == ToSet(Items)
<1>1. other.elems \in Seq(Elem) /\ <<>> \in Seq(Elem)
  BY ItemsViewAssumption DEF Elem
<1>2. set \in SUBSET Elem /\ list \in Seq(Elem)
  <2>1. ToSet(other.elems) \in SUBSET Elem /\ IsFiniteSet(ToSet(other.elems))
    BY <1>1, ListElements, ListFinite
  <2> HIDE DEF set
  <2>2. SetToSeq(set) \in Seq(Elem)
    BY <2>1, SetAsList DEF set
  <2> QED
    BY <2>1, <2>2 DEF SetOf, set
<1>3. own \in SUBSET Elem
  BY ItemsListed DEF Items, Elem
<1> HIDE DEF list, set, own
<1>4. CASE op = "or1"
  <2>1. start = [phase |-> "or1", rest |-> other.elems, result |-> own]
    BY <1>4 DEF Start, itemsview_or1, own
  <2> QED
    BY <1>1, <1>3, <1>4, <2>1 DEF Starts, Sets, Phases
<1>5. CASE op = "or2"
  <2> DEFINE rest == IF other.oneshot THEN <<>> ELSE other.elems
  <2>1. rest \in Seq(Elem)
    BY <1>1
  <2>2. start = [phase |-> "or2", rest |-> rest, result |-> set]
    BY <1>5 DEF Start, itemsview_or2, set
  <2> HIDE DEF rest
  <2> QED
    BY <1>2, <1>5, <2>1, <2>2 DEF Starts, Sets, Phases
<1>6. CASE op = "xor"
  <2>1. start = [phase |-> "sub1", rest |-> list, result |-> {}]
    BY <1>6 DEF Start, itemsview_xor, list
  <2> QED
    BY <1>2, <1>6, <2>1 DEF Starts, Sets, Phases
<1>7. CASE op \in {"lt", "le", "eq", "ne"}
  <2>1. start = [phase |-> "le", rest |-> <<>>, result |-> {}]
    BY <1>7 DEF Start
  <2> QED
    BY <1>1, <1>7, <2>1 DEF Starts, Sets, Phases
<1>8. CASE op \in {"gt", "ge"}
  <2>1. start = [phase |-> "ge", rest |-> other.elems, result |-> {}]
    BY <1>8 DEF Start
  <2> QED
    BY <1>1, <1>8, <2>1 DEF Starts, Sets, Phases
<1>9. CASE op \in {"and1", "and2", "sub1", "sub2", "contains", "isdisjoint"}
  <2>1. start = [phase |-> op, rest |-> other.elems, result |-> {}]
    BY <1>9 DEF Start
  <2> QED
    BY <1>1, <1>9, <2>1 DEF Starts, Sets, Phases
<1> QED
  BY <1>4, <1>5, <1>6, <1>7, <1>8, <1>9, ItemsViewAssumption DEF Comparisons

\* What it begins with: all the elements are ahead, and none has been seen.
Opens(op, other, start, own) ==
  /\ start.phase # "le" /\ ~ (op = "or2" /\ other.oneshot)
       => ToSet(start.rest) = ToSet(other.elems)
  /\ op = "or1" => start.result = own
  /\ op = "or2" => start.result = ToSet(other.elems)
  /\ op \notin {"or1", "or2"} => start.result = {}

\* The dispatch takes all elements of the operand.
LEMMA OpensOK ==
  ASSUME NEW op \in Ops, NEW other \in Operands,
         NEW own, own = ToSet(Items), NEW start, start = Start(op, other)
  PROVE  Opens(op, other, start, own)
<1> DEFINE set == ToSet(other.elems)
           list == SetToSeq(set)
<1>1. ToSet(list) = set
  <2>1. other.elems \in Seq(Elem)
    BY ItemsViewAssumption DEF Elem
  <2>2. set \in SUBSET Elem /\ IsFiniteSet(set)
    BY <2>1, ListElements, ListFinite
  <2> HIDE DEF set
  <2> QED
    BY <2>2, SetAsList
<1> HIDE DEF list
<1>2. CASE op = "or1"
  BY <1>2 DEF Start, itemsview_or1, Opens
<1>3. CASE op = "or2"
  <2>1. start = [phase |-> "or2", rest |-> IF other.oneshot THEN <<>> ELSE other.elems,
                 result |-> set]
    BY <1>3 DEF Start, itemsview_or2
  <2>2. ~ other.oneshot => start.rest = other.elems
    BY <2>1
  <2> QED
    BY <1>3, <2>1, <2>2 DEF Opens
<1>4. CASE op = "xor"
  <2>1. start = [phase |-> "sub1", rest |-> list, result |-> {}]
    BY <1>4 DEF Start, itemsview_xor, SetOf, list
  <2> QED
    BY <1>1, <1>4, <2>1 DEF Opens
<1>5. CASE op \in {"lt", "le", "eq", "ne"}
  <2>1. start = [phase |-> "le", rest |-> <<>>, result |-> {}]
    BY <1>5 DEF Start
  <2> QED
    BY <1>5, <2>1 DEF Opens
<1>6. CASE op \in {"gt", "ge"}
  <2>1. start = [phase |-> "ge", rest |-> other.elems, result |-> {}]
    BY <1>6 DEF Start
  <2> QED
    BY <1>6, <2>1 DEF Opens
<1>7. CASE op \in {"and1", "and2", "sub1", "sub2", "contains", "isdisjoint"}
  <2>1. start = [phase |-> op, rest |-> other.elems, result |-> {}]
    BY <1>7 DEF Start
  <2> QED
    BY <1>7, <2>1 DEF Opens
<1> QED
  BY <1>2, <1>3, <1>4, <1>5, <1>6, <1>7, ItemsViewAssumption DEF Comparisons

\* Nothing has been seen yet.
LEMMA NothingSeen ==
  ASSUME NEW op, NEW other, NEW start, NEW x, Starts(op, other, start),
         NEW own, own = ToSet(x.base), Opens(op, other, start, own),
         op = "contains" => Len(other.elems) = 1,
         x.op = op, x.phase = start.phase, x.rest = start.rest, x.other = other,
         x.result = start.result, x.want = start.result, x.pairs = {},
         x.phase # "le", ~ Loose(x)
  PROVE  SeenSome(x, {})
<1>1. Within(own, {}) = {} /\ Within({}, own) = {} /\ Outside({}, own) = {}
  BY DEF Within, Outside
<1>2. {} \cup ToSet(x.rest) = ToSet(x.other.elems)
  BY DEF Opens, Loose
<1>3. /\ op \in Sets \cup {"contains", "isdisjoint"} => x.phase = op
      /\ op = "xor" => x.phase = "sub1"
      /\ op \in {"lt", "le", "eq", "ne"} => x.phase = "le"
      /\ op \in {"gt", "ge"} => x.phase = "ge"
      /\ op \in Sets \cup {"contains", "isdisjoint", "xor", "gt", "ge"}
  BY DEF Starts, Sets
<1>4. /\ x.phase = "or1" => x.want = own
      /\ x.phase = "or2" => x.want = ToSet(x.other.elems)
      /\ x.phase \notin {"or1", "or2"} => x.want = {} /\ x.result = {}
  BY <1>3 DEF Opens, Sets
<1>5. {<<IdentityOf[e.key], e.value>> : e \in {} \ {NoPair}} = {}
  OBVIOUS
<1>6. Seen(x, {})
  BY <1>1, <1>3, <1>4, <1>5 DEF Seen, Sets, Collecting
<1> QED
  BY <1>2, <1>6 DEF SeenSome

\* The operation, with its lengths not yet compared.
Initial(x, op, phase, pc, rest, result, other, base) ==
  /\ x \in TaskType /\ x.answer = NULL /\ x.pairs = {} /\ x.pos = 0
  /\ x.pc = pc /\ x.op = op /\ x.phase = phase /\ x.rest = rest
  /\ x.result = result /\ x.want = result /\ x.other = other
  /\ x.base = base /\ x.version = version /\ x.visited = <<>>

\* The fields of an operation that begins have their types.
LEMMA InitialTask ==
  ASSUME NEW op \in Ops \cup {"none"}, NEW phase \in Phases \cup {"none"},
         NEW pc \in {"next", "own", "done"}, version \in Nat,
         NEW rest \in Seq(Elem), NEW result \in SUBSET Elem,
         NEW other \in Operands \cup {NoPair}, NEW base \in Seq(Item),
         NEW x,
         x = [op |-> op, phase |-> phase, pc |-> pc,
              other |-> other, rest |-> rest, arg |-> NoPair, found |-> NoPair,
              step |-> 0, version |-> version, log2 |-> 0, pos |-> 0,
              pairs |-> {}, result |-> result, answer |-> NULL,
              base |-> base, quiet |-> TRUE, want |-> result, visited |-> <<>>]
  PROVE  Initial(x, op, phase, pc, rest, result, other, base)
<1> DEFINE none == <<>>
<1>1. NoPair \in Elem /\ none \in Seq(Nat) /\ NULL \in BOOLEAN \cup {NULL} /\ TRUE \in BOOLEAN
  BY DEF Elem
<1>2. none = <<>>
  OBVIOUS
<1>3. x = [op |-> op, phase |-> phase, pc |-> pc,
           other |-> other, rest |-> rest, arg |-> NoPair, found |-> NoPair,
           step |-> 0, version |-> version, log2 |-> 0, pos |-> 0,
           pairs |-> {}, result |-> result, answer |-> NULL,
           base |-> base, quiet |-> TRUE, want |-> result, visited |-> none]
  BY <1>2
<1> HIDE DEF none
<1>4. x \in TaskType
  BY <1>1, <1>3 DEF TaskType
<1>5. /\ x.answer = NULL /\ x.pairs = {} /\ x.pos = 0
      /\ x.pc = pc /\ x.op = op /\ x.phase = phase /\ x.rest = rest
      /\ x.result = result /\ x.want = result /\ x.other = other
      /\ x.base = base /\ x.version = version /\ x.visited = none
  BY <1>3
<1> QED
  BY <1>2, <1>4, <1>5 DEF Initial

\* So it has begun, in the phase of its operation.
LEMMA BegunOK ==
  ASSUME NEW op \in Ops, NEW other \in Operands, version \in Nat,
         NEW start, Starts(op, other, start), NEW base \in Seq(Item),
         NEW pc, pc = IF start.phase = "le" THEN "own" ELSE "next",
         NEW x, x = [NoTask EXCEPT
                       !.op = op, !.phase = start.phase, !.rest = start.rest,
                       !.result = start.result, !.version = version,
                       !.pc = IF start.phase = "le" THEN "own" ELSE "next",
                       !.other = other, !.base = base, !.want = start.result]
  PROVE  /\ Begun(x, version)
         /\ Initial(x, op, start.phase, pc, start.rest, start.result, other, base)
<1> DEFINE phase == start.phase
           rest == start.rest
           result == start.result
<1>1. /\ phase \in Phases /\ rest \in Seq(Elem) /\ result \in SUBSET Elem
      /\ pc \in {"next", "own", "done"}
  BY DEF Starts
<1>2. x = [op |-> op, phase |-> phase, pc |-> pc,
           other |-> other, rest |-> rest, arg |-> NoPair, found |-> NoPair,
           step |-> 0, version |-> version, log2 |-> 0, pos |-> 0,
           pairs |-> {}, result |-> result, answer |-> NULL,
           base |-> base, quiet |-> TRUE, want |-> result, visited |-> <<>>]
  BY DEF NoTask
<1>3. op # "none" /\ op \in Ops \cup {"none"} /\ other \in Operands \cup {NoPair}
      /\ phase \in Phases \cup {"none"}
  BY <1>1, ItemsViewAssumption DEF Comparisons
<1> HIDE DEF phase, rest, result
<1>4. Initial(x, op, phase, pc, rest, result, other, base)
  BY <1>1, <1>2, <1>3, InitialTask
<1>5. InPhase(x)
  BY <1>4 DEF Initial, Starts, InPhase, phase
<1>6. IsInjective(<<>>)
  BY DEF IsInjective
<1>7. Begun(x, version)
  BY <1>3, <1>4, <1>5, <1>6 DEF Begun, Initial
<1> QED
  BY <1>4, <1>7 DEF phase, rest, result

\* An operation that begins.
LEMMA BeginOK ==
  ASSUME NEW t, Stepping(t), NEW op \in Ops, NEW other \in Operands, Begin(t, op, other)
  PROVE  \E y : Become(t, y) /\ StepResult(t, y)
<1> DEFINE start == Start(op, other)
           m == Len(other.elems)
           x == [NoTask EXCEPT
                   !.op = op, !.phase = start.phase, !.rest = start.rest,
                   !.result = start.result, !.version = version,
                   !.pc = IF start.phase = "le" THEN "own" ELSE "next",
                   !.other = other, !.base = Items, !.want = start.result]
           no == Answer(x, FALSE)
<1>1. /\ tasks[t].op = "none" /\ (op = "contains" => m = 1)
      /\ Become(t, IF RuledOut(op, m) THEN no ELSE x) /\ keys' = keys
  BY DEF Begin, vars
<1>2. /\ IsSound(keys) /\ Identified(keys) /\ AllHaveKeys(keys) /\ version \in Nat
      /\ used = Cardinality(Live(keys)) /\ tasks[t].pc = "done"
  BY <1>1, SteppingFacts DEF TableOK, TaskOK
<1>3. Items \in Seq(Item) /\ Len(Items) = used /\ ToSet(Items) = ItemSet(keys)
  BY <1>2, ItemsListed DEF Items
<1>4. Starts(op, other, start)
  <2> HIDE DEF start
  <2> QED
    BY <1>2, StartsOK DEF start
<1> DEFINE base == Items
<1> DEFINE pc == IF start.phase = "le" THEN "own" ELSE "next"
           items == ToSet(Items)
<1>11. Opens(op, other, start, items)
  <2> HIDE DEF start, items
  <2> QED
    BY OpensOK DEF start, items
<1>5. /\ Begun(x, version) /\ x.answer = NULL /\ x.pairs = {} /\ x.pos = 0
      /\ x.pc = IF start.phase = "le" THEN "own" ELSE "next"
      /\ x.op = op /\ x.phase = start.phase /\ x.rest = start.rest
      /\ x.result = start.result /\ x.want = start.result /\ x.other = other
      /\ x.base = base /\ x.version = version
  <2>1. x = [NoTask EXCEPT
               !.op = op, !.phase = start.phase, !.rest = start.rest,
               !.result = start.result, !.version = version,
               !.pc = IF start.phase = "le" THEN "own" ELSE "next",
               !.other = other, !.base = base, !.want = start.result]
    OBVIOUS
  <2>2. base \in Seq(Item) /\ pc = IF start.phase = "le" THEN "own" ELSE "next"
    BY <1>3
  <2> HIDE DEF start, base, x, pc
  <2>3. /\ Begun(x, version)
        /\ Initial(x, op, start.phase, pc, start.rest, start.result, other, base)
    BY <1>2, <1>4, <2>1, <2>2, BegunOK
  <2> QED
    BY <2>2, <2>3 DEF Initial
<1> HIDE DEF pc
<1>6. m \in Nat /\ used \in Nat /\ Len(x.base) = used /\ x.other.elems = other.elems
  <2>1. m \in Nat
    BY ItemsViewAssumption
  <2>2. used \in Nat
    <3>1. Len(Items) \in Nat
      BY <1>3
    <3> QED
      BY <1>3, <3>1
  <2> QED
    BY <1>3, <1>5, <2>1, <2>2
<1> HIDE DEF x, start, base, m
<1>7. Admitted(x) <=> ~ RuledOut(op, m)
  <2>1. Admitted(x) <=> /\ op = "lt" => used < m
                        /\ op = "le" => used <= m
                        /\ op \in {"eq", "ne"} => used = m
                        /\ op = "gt" => used > m
                        /\ op = "ge" => used >= m
    BY <1>5, <1>6 DEF Admitted, m
  <2>2. RuledOut(op, m) <=> \/ op = "lt" /\ used >= m
                            \/ op = "le" /\ used > m
                            \/ op \in {"eq", "ne"} /\ used # m
                            \/ op = "gt" /\ used <= m
                            \/ op = "ge" /\ used < m
    BY DEF RuledOut
  <2> QED
    BY <1>6, <2>1, <2>2
<1>12. items = ToSet(x.base) /\ ToSet(x.base) = ItemSet(keys)
  BY <1>3, <1>5 DEF base
<1>13. start.phase \in {"le", "ge"} => x.result = {}
  BY <1>4, <1>5, <1>11 DEF Starts, Opens, Sets
<1> HIDE DEF items
<1>8. ASSUME NEW y, Become(t, y), TaskOK(y, keys, version), QuietOK(y, keys), y.pc # "eq"
      PROVE  \E z : Become(t, z) /\ StepResult(t, z)
  <2>1. tasks[t].pc # "eq"
    BY <1>2
  <2> QED
    BY <1>1, <1>8, <2>1, QuietStep
<1>9. CASE ~ RuledOut(op, m)
  <2>1. Become(t, x)
    BY <1>1, <1>9
  <2>2. Running(x, version)
    BY <1>5, <1>7, <1>9 DEF Running
  <2>3. CASE start.phase = "le"
    <3>1. ToSet(x.base) = ItemSet(keys)
      BY <1>3, <1>5 DEF base
    <3>2. \A i \in Live(keys) : ~ (i < x.pos)
      <4>1. Live(keys) \subseteq 0..(keys.nentries - 1)
        BY <1>2, LiveFinite DEF IsSound
      <4> QED
        BY <1>5, <4>1
    <3>3. OwnOK(x, keys, version)
      BY <1>5, <2>3, <3>1, <3>2 DEF OwnOK, Collecting
    <3>4. TaskOK(x, keys, version) /\ x.pc # "eq"
      BY <1>5, <2>2, <2>3, <3>3 DEF TaskOK, Begun
    <3>5. QuietOK(x, keys)
      BY <1>5, <1>12, <1>13, <2>3 DEF QuietOK, OwnSeen
    <3> QED
      BY <1>8, <2>1, <3>4, <3>5
  <2>4. CASE start.phase # "le"
    <3>1. x.phase = "contains" => x.rest # <<>>
      <4> SUFFICES ASSUME x.phase = "contains" PROVE x.rest # <<>>
        OBVIOUS
      <4>1. op = "contains" /\ x.rest = other.elems
        BY <1>4, <1>5 DEF Starts, Sets
      <4>2. Len(other.elems) = 1 /\ Len(<<>>) = 0
        BY <1>1, <1>5, <4>1 DEF m
      <4> QED
        BY <4>1, <4>2
    <3>2. NextOK(x)
      BY <1>4, <1>5, <2>4, <3>1 DEF NextOK, Starts
    <3>3. TaskOK(x, keys, version) /\ x.pc # "eq"
      BY <1>5, <2>2, <2>4, <3>2 DEF TaskOK, Begun
    <3>4. ~ Loose(x) => SeenSome(x, {})
      BY <1>1, <1>4, <1>5, <1>11, <1>12, <2>4, NothingSeen DEF m
    <3>5. QuietOK(x, keys)
      BY <1>5, <1>12, <2>4, <3>4 DEF QuietOK
    <3> QED
      BY <1>8, <2>1, <3>3, <3>5
  <2> QED
    BY <2>3, <2>4
<1>10. CASE RuledOut(op, m)
  <2>1. Become(t, no)
    BY <1>1, <1>10
  <2>2. CASE start.phase = "le"
    <3>1. FALSE <=> (ToSet(x.base) \subseteq ToSet(x.other.elems) /\ Admitted(x))
      BY <1>7, <1>10
    <3>2. TaskOK(no, keys, version) /\ no.pc = "done"
      BY <1>5, <2>2, <3>1, LeAnswers
    <3>3. QuietOK(no, keys)
      BY <1>5, <1>13, <2>2, <3>1, LeAnswers
    <3> HIDE DEF no
    <3> QED
      BY <1>8, <2>1, <3>2, <3>3
  <2>3. CASE start.phase # "le"
    <3>1. op \in {"gt", "ge"} /\ x.phase = "ge"
      <4>1. op \in Comparisons
        BY <1>10 DEF RuledOut, Comparisons
      <4> QED
        BY <1>4, <1>5, <2>3, <4>1 DEF Starts, Comparisons, Sets
    <3>2. FALSE = IF x.op = "ne" THEN ~ FALSE ELSE FALSE
      BY <1>5, <3>1
    <3>3. Answers(no, x, FALSE, version)
      BY <1>5, <3>2, GivesAnswer
    <3> HIDE DEF no
    <3>4. TaskOK(no, keys, version) /\ no.pc = "done"
      BY <3>1, <3>3 DEF Answers, TaskOK, Begun, DoneOK, Sets
    <3>5. x.result = SetResult(x) /\ AnswerResult(x) = FALSE
      <4>1. x.result = {} /\ SetResult(x) = {}
        BY <1>4, <1>5, <1>13, <3>1 DEF SetResult
      <4> DEFINE n == Len(x.base)
                 k == Len(x.other.elems)
                 all == ToSet(x.other.elems) \subseteq Within(ToSet(x.other.elems), ToSet(x.base))
      <4>2. n = used /\ k = m /\ n \in Nat /\ k \in Nat
        BY <1>6 DEF m
      <4>3. CASE op = "gt"
        <5>1. ~ (n > k)
          BY <1>10, <4>2, <4>3 DEF RuledOut
        <5>2. AnswerResult(x) = (all /\ n > k)
          BY <1>5, <4>3 DEF AnswerResult
        <5> QED
          BY <4>1, <5>1, <5>2
      <4>4. CASE op = "ge"
        <5>1. n < k
          BY <1>10, <4>2, <4>4 DEF RuledOut
        <5>2. AnswerResult(x) = (all /\ ~ (n < k))
          BY <1>5, <4>4 DEF AnswerResult
        <5> QED
          BY <4>1, <5>1, <5>2
      <4> QED
        BY <3>1, <4>3, <4>4
    <3>6. QuietOK(no, keys)
      BY <3>3, <3>5, QuietAnswers
    <3> QED
      BY <1>8, <2>1, <3>4, <3>6
  <2> QED
    BY <2>2, <2>3
<1> QED
  BY <1>9, <1>10

\* The invariant after an operation has begun.
LEMMA BeginKept ==
  ASSUME ViewInvariant, Idle, NEW t \in Tasks, NEW op \in Ops, NEW other \in Operands,
         Begin(t, op, other)
  PROVE  ViewInvariant'
<1>1. UNCHANGED <<keys, used, version, ret, bulk, damaged>>
  BY DEF Begin, vars
<1>2. CASE damaged
  BY <1>1, <1>2 DEF ViewInvariant
<1>3. CASE ~ damaged
  <2>1. Unaided(t)
    <3>1. damaged = FALSE /\ damaged' = FALSE /\ keys' = keys
      BY <1>1, <1>3 DEF ViewInvariant
    <3>2. damaged' = (damaged \/ (keys' # keys /\ \E u \in Tasks \ {t} : tasks[u].pc = "eq"))
      BY <3>1, Zenon
    <3> QED
      BY <1>1, <3>2 DEF Unaided
  <2>2. Stepping(t)
    BY <1>3, <2>1 DEF Stepping
  <2>3. \E y : Become(t, y) /\ StepResult(t, y)
    BY <2>2, BeginOK
  <2> QED
    BY <1>3, <2>1, <2>3, StepKept
<1> QED
  BY <1>2, <1>3

-----------------------------------------------------------------------------
(* The calls that come between two steps.                                  *)

\* What a call leaves behind for the operations under way.
CallKept ==
  /\ KeptAfter /\ VersionTyped' /\ version <= version'
  /\ version' = version => keys' = keys

\* Calls without a finder of their own leave sound tables behind, and the marks
\* of the finders of others, unless they rebuild.
LEMMA PlainKept ==
  ASSUME SoundTable, VersionTyped, PlainCall, IsSettled(keys) \/ ~ Rebuilds
  PROVE  CallKept /\ MarksFrom(keys', keys)
<1>1. Call
  BY DEF PlainCall, Call
<1>2. VersionTyped' /\ version <= version' /\ (version' = version => keys' = keys)
  BY <1>1, CallGuarded
<1>3. UNCHANGED <<keys, used>> => KeptAfter /\ MarksFrom(keys', keys)
  <2> SUFFICES ASSUME UNCHANGED <<keys, used>> PROVE KeptAfter /\ MarksFrom(keys', keys)
    OBVIOUS
  <2>1. EntriesFrom(keys, keys) /\ MarksFrom(keys, keys)
    BY FromItself
  <2> QED
    BY <2>1 DEF KeptAfter, SoundTable
<1>4. ASSUME NEW key \in Keys, NEW value \in Values, AddItem(key, value)
      PROVE  KeptAfter /\ MarksFrom(keys', keys)
  <2>1. IsSettled(keys) \/ ~ NeedsRoom(keys)
    BY <1>4, AddRebuilds
  <2> QED
    BY <1>4, <2>1, AddItemKept
<1>5. ASSUME NEW key \in Keys, NEW value \in Values,
             MdAdd(key, value) \/ MdSetDefault(key, value)
      PROVE  KeptAfter /\ MarksFrom(keys', keys)
  <2>1. AddItem(key, value) \/ UNCHANGED <<keys, used>>
    BY <1>5 DEF MdAdd, MdSetDefault
  <2> QED
    BY <1>3, <1>4, <2>1
<1>6. ASSUME NEW key \in Keys, MdDel(key) \/ MdPopAll(key)
      PROVE  KeptAfter /\ MarksFrom(keys', keys)
  <2>1. DeleteKey(key) \/ UNCHANGED <<keys, used>>
    BY <1>6 DEF MdDel, MdPopAll, KeyError
  <2> QED
    BY <1>3, <2>1, DeleteKeyKept
<1>7. KeptAfter /\ MarksFrom(keys', keys)
  BY <1>5, <1>6, PopOneKept, PopItemKept, ClearKept DEF PlainCall
<1> QED
  BY <1>2, <1>7 DEF CallKept

\* So do calls with a finder of their own when no marks are in the table.
LEMMA FinderKept ==
  ASSUME TableInvariant, IsSettled(keys), VersionTyped, FinderCall
  PROVE  CallKept
<1>1. ASSUME NEW key \in Keys, GetAll(key) PROVE CallKept
  <2>1. KeptAfter
    BY <1>1, GetAllKept
  <2>2. keys' = keys /\ version' = version
    BY <1>1, GetAllTyped DEF GetAll, TableInvariant
  <2>3. version \in Nat
    BY HashTableAssumption DEF VersionTyped
  <2> QED
    BY <2>1, <2>2, <2>3 DEF CallKept, VersionTyped
<1>2. ASSUME NEW key \in Keys, NEW value \in Values, SetItem(key, value) PROVE CallKept
  <2>1. KeptAfter
    BY <1>2, SetItemKept
  <2>2. NEXT_VERSION(1)
    BY <1>2 DEF SetItem
  <2>3. VersionTyped' /\ version <= version' /\ version' # version
    BY <2>2, HashTableAssumption DEF NEXT_VERSION, VersionTyped
  <2> QED
    BY <2>1, <2>3 DEF CallKept
<1> QED
  BY <1>1, <1>2 DEF FinderCall

\* An operation finds the table as it left it, or with another version.
LEMMA TaskKept ==
  ASSUME NEW ver \in Nat, NEW later \in Nat, ver <= later, NEW ks, NEW new,
         later = ver => new = ks, NEW x, TaskOK(x, ks, ver),
         x.pc = "eq" /\ x.op # "none"
           => (MarkedFor(ks, IdentityOf[x.arg.key]) => MarkedFor(new, IdentityOf[x.arg.key])),
         NEW y, y = [x EXCEPT !.quiet = FALSE]
  PROVE  TaskOK(y, new, later)
<1>1. x \in TaskType
  BY DEF TaskOK, Begun
<1>2. FALSE \in BOOLEAN
  OBVIOUS
<1>3. /\ y \in TaskType
      /\ y.op = x.op /\ y.phase = x.phase /\ y.pc = x.pc /\ y.other = x.other
      /\ y.rest = x.rest /\ y.arg = x.arg /\ y.found = x.found /\ y.step = x.step
      /\ y.version = x.version /\ y.log2 = x.log2 /\ y.pos = x.pos
      /\ y.pairs = x.pairs /\ y.result = x.result /\ y.answer = x.answer
      /\ y.base = x.base /\ y.want = x.want /\ y.visited = x.visited
  BY <1>1, <1>2 DEF TaskType
<1>4. CASE x.op = "none"
  BY <1>3, <1>4 DEF TaskOK
<1>5. CASE x.op # "none"
  <2>1. Begun(x, ver) /\ x.version \in Nat /\ x.version <= ver
    BY <1>1, <1>5 DEF TaskOK, Begun, TaskType
  <2>2. later = x.version => ver = x.version /\ new = ks
    BY <2>1
  <2>3. Begun(y, later)
    BY <1>3, <2>1 DEF Begun, InPhase
  <2>4. Running(x, ver) => Running(y, later)
    BY <1>3, <2>3 DEF Running, Admitted
  <2>5. NextOK(x) => NextOK(y)
    BY <1>3 DEF NextOK
  <2>6. DoneOK(x) => DoneOK(y)
    <3>1. AnswerResult(y) = AnswerResult(x)
      BY <1>3, SameAnswer
    <3> QED
      BY <1>3, <3>1 DEF DoneOK
  <2>7. OwnOK(x, ks, ver) => OwnOK(y, new, later)
    <3> SUFFICES ASSUME OwnOK(x, ks, ver) PROVE OwnOK(y, new, later)
      OBVIOUS
    <3>1. CASE later = x.version
      <4>1. new = ks /\ ver = x.version
        BY <2>2, <3>1
      <4>2. OwnOK(y, ks, ver)
        BY <1>3 DEF OwnOK
      <4> QED
        BY <3>1, <4>1, <4>2
    <3>2. CASE later # x.version
      BY <1>3, <3>2 DEF OwnOK
    <3> QED
      BY <3>1, <3>2
  <2>8. ASSUME x.pc = "eq", EqOK(x, ks, ver) PROVE EqOK(y, new, later)
    <3>1. MarkedFor(new, IdentityOf[x.arg.key])
      BY <1>5, <2>8 DEF EqOK
    <3>2. later = x.version => Continues(y, new, {y.found} \cup Remaining(y, new))
      <4> SUFFICES ASSUME later = x.version
                   PROVE  Continues(y, ks, {y.found} \cup Remaining(y, ks))
        BY <2>2
      <4> DEFINE S == {x.found} \cup Remaining(x, ks)
      <4>1. {y.found} \cup Remaining(y, ks) = S
        BY <1>3 DEF Remaining
      <4>2. Continues(x, ks, S)
        BY <2>2, <2>8 DEF EqOK
      <4> HIDE DEF S
      <4>3. Continues(y, ks, S)
        BY <1>3, <4>2 DEF Continues, Wanting
      <4> QED
        BY <4>1, <4>3
    <3>3. ArgumentOpen(x) => ArgumentOpen(y)
      BY <1>3 DEF ArgumentOpen
    <3>4. Settles(x) => Settles(y)
      BY <1>3 DEF Settles
    <3> QED
      BY <1>3, <2>8, <3>1, <3>2, <3>3, <3>4 DEF EqOK
  <2> QED
    BY <1>3, <1>5, <2>3, <2>4, <2>5, <2>6, <2>7, <2>8 DEF TaskOK
<1> QED
  BY <1>4, <1>5

\* The invariant after a call that came in between.
LEMMA InterruptKept ==
  ASSUME ViewInvariant, Idle, Interrupt
  PROVE  ViewInvariant'
<1>1. /\ ~ damaged /\ damaged' \in BOOLEAN
      /\ tasks' = [t \in Tasks |-> [tasks[t] EXCEPT !.quiet = FALSE]]
      /\ bulk' = bulk
  BY DEF Interrupt, ViewInvariant
<1>2. CASE damaged'
  BY <1>1, <1>2 DEF ViewInvariant
<1>3. CASE ~ damaged'
  <2>1. /\ TableOK /\ Alone /\ tasks \in [Tasks -> TaskType]
        /\ \A t \in Tasks : TaskOK(tasks[t], keys, version)
    BY <1>1 DEF ViewInvariant
  <2>2. /\ SoundTable /\ VersionTyped /\ Identified(keys) /\ AllHaveKeys(keys)
        /\ bulk.op \in BulkOps \cup {"none"}
    BY <2>1 DEF TableOK, SoundTable, VersionTyped
  <2>3. ~ SomeMarked => TableInvariant /\ IsSettled(keys)
    BY <2>1 DEF TableOK, TableInvariant, Idle
  <2>4. CallKept /\ (SomeMarked => MarksFrom(keys', keys))
    <3>1. CASE PlainCall /\ damaged' = (damaged \/ (SomeMarked /\ Rebuilds))
      <4>1. IsSettled(keys) \/ ~ Rebuilds
        BY <1>3, <2>3, <3>1
      <4> QED
        BY <2>2, <3>1, <4>1, PlainKept
    <3>2. CASE FinderCall /\ damaged' = (damaged \/ SomeMarked)
      <4>1. ~ SomeMarked
        BY <1>3, <3>2
      <4> QED
        BY <2>2, <2>3, <3>2, <4>1, FinderKept
    <3> QED
      BY <3>1, <3>2 DEF Interrupt
  <2>5. /\ IsSound(keys') /\ used' = Cardinality(Live(keys')) /\ EntriesFrom(keys', keys)
        /\ IsSettled(keys) => IsSettled(keys')
        /\ VersionTyped' /\ version <= version' /\ (version' = version => keys' = keys)
    BY <2>4 DEF CallKept, KeptAfter
  <2>6. Identified(keys') /\ AllHaveKeys(keys')
    <3> DEFINE new == keys'
    <3>1. EntriesFrom(new, keys)
      BY <2>5
    <3> SUFFICES Identified(new) /\ AllHaveKeys(new)
      OBVIOUS
    <3> HIDE DEF new
    <3> QED
      BY <2>2, <3>1, FromIdentified
  <2>7. version \in Nat /\ version' \in Nat
    BY <2>2, <2>5, HashTableAssumption DEF VersionTyped
  <2>8. ASSUME NEW t \in Tasks
        PROVE  /\ TaskOK(tasks'[t], keys', version') /\ tasks'[t].pc = tasks[t].pc
               /\ QuietOK(tasks'[t], keys')
    <3> DEFINE x == tasks[t]
               y == [x EXCEPT !.quiet = FALSE]
               new == keys'
               later == version'
    <3>1. tasks'[t] = y
      BY <1>1
    <3>2. x \in TaskType /\ TaskOK(x, keys, version)
      BY <2>1
    <3>3. y.pc = x.pc /\ QuietOK(y, new)
      BY <3>2 DEF TaskType, QuietOK
    <3>4. x.pc = "eq" /\ x.op # "none"
            => (MarkedFor(keys, IdentityOf[x.arg.key]) => MarkedFor(new, IdentityOf[x.arg.key]))
      <4> SUFFICES ASSUME x.pc = "eq", MarkedFor(keys, IdentityOf[x.arg.key])
                   PROVE  MarkedFor(new, IdentityOf[x.arg.key])
        OBVIOUS
      <4>1. MarksFrom(new, keys)
        BY <2>4 DEF SomeMarked
      <4> QED
        BY <4>1 DEF MarksFrom, MarkedFor
    <3>5. later \in Nat /\ version <= later /\ (later = version => new = keys)
      BY <2>5, <2>7
    <3> SUFFICES TaskOK(y, new, later)
      BY <3>1, <3>3
    <3> HIDE DEF x, new, later
    <3> QED
      BY <2>7, <3>2, <3>4, <3>5, TaskKept
  <2>9. tasks' \in [Tasks -> TaskType]
    <3>1. \A t \in Tasks : tasks'[t] \in TaskType
      BY <2>8 DEF TaskOK, Begun
    <3> QED
      BY <1>1, <3>1
  <2>10. Alone' /\ SomeMarked' = SomeMarked
    BY <2>1, <2>8 DEF Alone, SomeMarked
  <2>11. TableOK'
    <3>1. ~ SomeMarked' => TableInvariant'
      BY <1>1, <2>2, <2>3, <2>5, <2>10 DEF TableInvariant
    <3>2. Idle' /\ bulk'.op \in BulkOps \cup {"none"} /\ version' \in 0..MaxVersion
      BY <1>1, <2>2, <2>5 DEF Idle, VersionTyped
    <3> QED
      BY <2>5, <2>6, <3>1, <3>2 DEF TableOK
  <2> QED
    BY <1>1, <2>8, <2>9, <2>10, <2>11 DEF ViewInvariant
<1> QED
  BY <1>2, <1>3

-----------------------------------------------------------------------------
(* The whole.                                                              *)

\* Calls at rest.
LEMMA RestKept ==
  ASSUME ViewInvariant, AtRest, Next, UNCHANGED <<tasks, damaged>>
  PROVE  ViewInvariant'
<1>1. CASE damaged
  BY <1>1 DEF ViewInvariant
<1>2. CASE ~ damaged
  <2>1. /\ TableOK /\ Alone /\ tasks \in [Tasks -> TaskType]
        /\ \A t \in Tasks : TaskOK(tasks[t], keys, version) /\ QuietOK(tasks[t], keys)
    BY <1>2 DEF ViewInvariant
  <2>2. ~ SomeMarked
    BY DEF AtRest, SomeMarked
  <2>3. TableInvariant /\ Identified(keys) /\ VersionTyped
    BY <2>1, <2>2 DEF TableOK, VersionTyped
  <2>4. TableInvariant' /\ Identified(keys') /\ VersionTyped' /\ version <= version'
        /\ version \in Nat /\ version' \in Nat
    BY <2>3, NextSound, NextIdentified, VersionGrows, HashTableAssumption DEF VersionTyped
  <2>5. Idle' => AllHaveKeys(keys')
    BY <2>4 DEF Idle, TableInvariant, IsSettled, AllHaveKeys
  <2>6. AtRest'
    BY DEF AtRest
  <2>7. TableOK'
    BY <2>4, <2>5, <2>6 DEF TableOK, TableInvariant, VersionTyped
  <2>8. \A t \in Tasks : TaskOK(tasks[t], keys', version')
    <3> SUFFICES ASSUME NEW t \in Tasks PROVE TaskOK(tasks[t], keys', version')
      OBVIOUS
    <3> DEFINE x == tasks[t]
               new == keys'
               later == version'
    <3>1. x.pc \in {"done", "raised"} /\ TaskOK(x, keys, version) /\ x.version \in Nat
      BY <2>1 DEF AtRest, TaskType
    <3>2. later \in Nat /\ version <= later /\ version \in Nat
      BY <2>4
    <3> SUFFICES TaskOK(x, new, later)
      OBVIOUS
    <3> HIDE DEF x, new, later
    <3>3. Begun(x, version) => Begun(x, later)
      BY <3>1, <3>2 DEF Begun
    <3> QED
      BY <3>1, <3>3 DEF TaskOK
  <2>9. Alone'
    BY <2>1 DEF Alone
  <2>10. \A t \in Tasks : QuietOK(tasks[t], keys')
    BY <2>1 DEF AtRest, QuietOK
  <2> QED
    BY <1>2, <2>1, <2>7, <2>8, <2>9, <2>10 DEF ViewInvariant
<1> QED
  BY <1>1, <1>2

\* It holds of an empty multidict.
LEMMA ViewInitKept ==
  ASSUME Init, ViewInit
  PROVE  ViewInvariant
<1>1. TableInvariant
  BY InitSound
<1>2. version = 0 /\ MaxVersion \in Nat
  BY HashTableAssumption DEF Init
<1>3. Live(keys) = {}
  <2>1. keys.nentries = 0
    BY DEF Init, empty_htkeys, htkeys_new
  <2> QED
    BY <2>1 DEF Live
<1>4. bulk.op = "extend"
  BY DEF Init, NoBulk
<1>5. tasks = [t \in Tasks |-> NoTask] /\ damaged = FALSE
  BY DEF ViewInit
<1>6. NoTask \in TaskType /\ NoTask.op = "none" /\ NoTask.pc = "done"
      /\ IsInjective(NoTask.visited)
  <2>1. <<>> \in Seq(Elem) /\ <<>> \in Seq(Item) /\ {} \in SUBSET Elem /\ 0 \in Nat
    OBVIOUS
  <2> DEFINE none == "none"
             list == <<>>
             set == {}
  <2>2. NoTask = [op |-> none, phase |-> none, pc |-> "done",
                  other |-> NoPair, rest |-> list, arg |-> NoPair, found |-> NoPair,
                  step |-> 0, version |-> 0, log2 |-> 0, pos |-> 0,
                  pairs |-> {}, result |-> set, answer |-> NULL,
                  base |-> list, quiet |-> TRUE, want |-> set, visited |-> list]
    BY DEF NoTask
  <2>3. list \in Seq(Elem) /\ list \in Seq(Item) /\ list \in Seq(Nat) /\ set \in SUBSET Elem
        /\ IsInjective(list)
    BY DEF IsInjective
  <2>4. NoPair \in Elem /\ NULL \in BOOLEAN \cup {NULL} /\ TRUE \in BOOLEAN
    BY DEF Elem
  <2> HIDE DEF list, set
  <2>5. NoTask \in TaskType
    BY <2>2, <2>3, <2>4 DEF TaskType
  <2> QED
    BY <2>2, <2>3, <2>5
<1>7. TaskOK(NoTask, keys, version) /\ QuietOK(NoTask, keys)
  BY <1>6 DEF TaskOK, QuietOK
<1>8. ~ SomeMarked /\ AtRest /\ Alone
  BY <1>5, <1>6 DEF SomeMarked, AtRest, Alone
<1>9. TableOK
  BY <1>1, <1>2, <1>3, <1>4, <1>8 DEF TableOK, TableInvariant, Identified, Idle
<1> QED
  BY <1>5, <1>6, <1>7, <1>8, <1>9 DEF ViewInvariant

\* The invariant always holds.
LEMMA ViewAlways == ViewSpec => []ViewInvariant
<1> DEFINE Step == \/ AtRest /\ Next /\ UNCHANGED <<tasks, damaged>>
                   \/ Idle /\ ViewNext
<1>1. Init /\ ViewInit => ViewInvariant
  BY ViewInitKept
<1>2. ViewInvariant /\ [Step]_viewVars => ViewInvariant'
  <2> SUFFICES ASSUME ViewInvariant, [Step]_viewVars PROVE ViewInvariant'
    OBVIOUS
  <2>1. CASE AtRest /\ Next /\ UNCHANGED <<tasks, damaged>>
    BY <2>1, RestKept
  <2>2. CASE Idle /\ ViewNext
    <3>1. ASSUME NEW t \in Tasks, Run(t) \/ Fail(t) PROVE ViewInvariant'
      BY <2>2, <3>1, RunKept
    <3>2. ASSUME NEW t \in Tasks, NEW op \in Ops, NEW other \in Operands,
                 Begin(t, op, other)
          PROVE  ViewInvariant'
      BY <2>2, <3>2, BeginKept
    <3>3. CASE Interrupt
      BY <2>2, <3>3, InterruptKept
    <3> QED
      BY <2>2, <3>1, <3>2, <3>3 DEF ViewNext
  <2>3. CASE UNCHANGED viewVars
    <3>1. UNCHANGED <<keys, used, version, ret, bulk, tasks, damaged>>
      BY <2>3 DEF viewVars, vars
    <3> QED
      BY <3>1 DEF ViewInvariant, TableOK, Alone, AtRest, SomeMarked, Idle, TableInvariant
  <2> QED
    BY <2>1, <2>2, <2>3
<1> QED
  BY <1>1, <1>2, PTL DEF ViewSpec

\* Every operation, at any point of it and whatever has come in between, has a
\* result and an answer of their types, and is in the middle of a search only
\* with an item: unless the table was rebuilt or searched under a finder.
THEOREM ViewAlwaysTyped == ViewSpec => [](damaged \/ ViewTypeOK)
<1>1. ViewInvariant => damaged \/ ViewTypeOK
  <2> SUFFICES ASSUME ViewInvariant, ~ damaged PROVE ViewTypeOK
    OBVIOUS
  <2>1. /\ tasks \in [Tasks -> TaskType]
        /\ \A t \in Tasks : TaskOK(tasks[t], keys, version)
    BY DEF ViewInvariant
  <2> SUFFICES ASSUME NEW t \in Tasks
               PROVE  /\ tasks[t].pc \in {"next", "eq", "own", "done", "raised"}
                      /\ tasks[t].result \subseteq Item \cup {NoPair}
                      /\ tasks[t].answer \in BOOLEAN \cup {NULL}
                      /\ tasks[t].pc = "eq" => tasks[t].arg \in Item /\ tasks[t].found \in Item
    BY DEF ViewTypeOK
  <2> DEFINE x == tasks[t]
  <2>2. x \in TaskType /\ TaskOK(x, keys, version)
    BY <2>1
  <2> SUFFICES /\ x.pc \in {"next", "eq", "own", "done", "raised"}
               /\ x.result \subseteq Item \cup {NoPair}
               /\ x.answer \in BOOLEAN \cup {NULL}
               /\ x.pc = "eq" => x.arg \in Item /\ x.found \in Item
    OBVIOUS
  <2> HIDE DEF x
  <2>3. /\ x.pc \in {"next", "eq", "own", "done", "raised"}
        /\ x.result \subseteq Item \cup {NoPair}
        /\ x.answer \in BOOLEAN \cup {NULL}
    BY <2>2 DEF TaskType, Elem
  <2>4. x.pc = "eq" => x.arg \in Item /\ x.found \in Item
    BY <2>2 DEF TaskOK, EqOK
  <2> QED
    BY <2>3, <2>4
<1> QED
  BY <1>1, ViewAlways, PTL

\* Whatever calls come in between, an operation that does not raise answers
\* for one state of the multidict per element of the other operand, and for
\* one state when it goes over the items themselves.
THEOREM AlwaysOneState == ViewSpec => []OneStatePerElement
<1>1. ViewInvariant => OneStatePerElement
  <2> SUFFICES ASSUME ViewInvariant, ~ damaged, NEW t \in Tasks, NEW x, x = tasks[t],
                      x.op # "none", x.pc = "done"
               PROVE  CASE x.phase = "contains" -> x.answer = (x.want # {})
                        [] x.phase = "isdisjoint" -> x.answer = (x.want = {})
                        [] x.phase = "le" -> x.answer = AnswerResult(x)
                        [] x.phase = "ge" -> x.answer => ToSet(x.other.elems) \subseteq x.want
                        [] OTHER -> x.result = x.want
    BY DEF OneStatePerElement
  <2>1. InPhase(x) /\ DoneOK(x)
    BY DEF ViewInvariant, TaskOK, Begun
  <2>2. x.phase \in Phases
    BY <2>1 DEF InPhase, Phases, Sets
  <2> QED
    BY <2>1, <2>2 DEF DoneOK, Phases, Sets
<1> QED
  BY <1>1, ViewAlways, PTL

\* When no finder is at work the marks of all are gone, and the table is as
\* sound as before.
THEOREM MarksAlwaysRestored == ViewSpec => []MarksRestored
<1>1. ViewInvariant => MarksRestored
  BY DEF ViewInvariant, TableOK, MarksRestored
<1> QED
  BY <1>1, ViewAlways, PTL

\* A finder returns no entry twice in one search.
THEOREM AlwaysFoundOnce == ViewSpec => []FoundOnce
<1>1. ViewInvariant => FoundOnce
  BY DEF ViewInvariant, FoundOnce, TaskOK, Begun
<1> QED
  BY <1>1, ViewAlways, PTL

\* With no call in between, every operation of the view returns what the set
\* operation of its name does on the items, up to the case of the keys:
\* deleted entries, colliding hashes and duplicates of an item make no
\* difference, unless marks of another finder hide items.
THEOREM ResultsAlwaysExact == ViewSpec => []ResultExact
<1>1. ViewInvariant => ResultExact
  <2> SUFFICES ASSUME ViewInvariant, ~ damaged, NEW t \in Tasks, NEW x, x = tasks[t],
                      x.op # "none", x.pc = "done", x.quiet,
                      ~ (x.op = "or2" /\ x.other.oneshot)
               PROVE  x.result = SetResult(x) /\ x.answer = AnswerResult(x)
    BY DEF ResultExact
  <2>1. QuietOK(x, keys)
    BY DEF ViewInvariant
  <2> QED
    BY <2>1 DEF QuietOK, Loose
<1> QED
  BY <1>1, ViewAlways, PTL

\* A list without repetitions is as long as its set is large.
LEMMA InjectiveLength ==
  ASSUME NEW S, NEW list \in Seq(S), IsInjective(list)
  PROVE  IsFiniteSet(ToSet(list)) /\ Cardinality(ToSet(list)) = Len(list)
<1> DEFINE n == Len(list)
           set == ToSet(list)
<1>1. n \in Nat /\ DOMAIN list = 1..n
  OBVIOUS
<1>2. IsFiniteSet(1..n) /\ Cardinality(1..n) = n
  BY <1>1, UpTo
<1>3. list \in Surjection(1..n, set) /\ list \in Injection(1..n, set)
  BY <1>1 DEF Surjection, Injection, IsInjective, ToSet
<1>4. IsFiniteSet(set)
  BY ListFinite
<1> HIDE DEF n, set
<1>5. Cardinality(1..n) = Cardinality(set)
  BY <1>3, <1>4, FS_Injection
<1> QED
  BY <1>2, <1>4, <1>5 DEF n, set

\* == on distinct items is the equality of sets, although the code compares
\* lengths and looks in one direction only.
THEOREM EqualityAlwaysExact == ViewSpec => []EqualityExact
<1>1. ViewInvariant => EqualityExact
  <2> SUFFICES ASSUME ViewInvariant, ~ damaged, NEW t \in Tasks, NEW x, x = tasks[t],
                      x.op = "eq", x.pc = "done", x.quiet,
                      IsInjective(x.base), IsInjective(x.other.elems)
               PROVE  x.answer = (ToSet(x.base) = ToSet(x.other.elems))
    BY DEF EqualityExact
  <2>1. QuietOK(x, keys) /\ Begun(x, version)
    BY DEF ViewInvariant, TaskOK
  <2> DEFINE own == ToSet(x.base)
             other == ToSet(x.other.elems)
             n == Len(x.base)
             m == Len(x.other.elems)
  <2>2. x.answer = (own \subseteq other /\ ~ (n > m) /\ ~ (n < m))
    BY <2>1 DEF QuietOK, Loose, AnswerResult
  <2>3. x.base \in Seq(Item) /\ x.other.elems \in Seq(Elem)
    BY <2>1, ItemsViewAssumption DEF Begun, TaskType, Elem
  <2>4. /\ IsFiniteSet(own) /\ Cardinality(own) = n /\ n \in Nat
        /\ IsFiniteSet(other) /\ Cardinality(other) = m /\ m \in Nat
    BY <2>3, InjectiveLength
  <2> HIDE DEF own, other, n, m
  <2>5. ASSUME own \subseteq other, ~ (n > m), ~ (n < m) PROVE own = other
    <3>1. n = m
      BY <2>4, <2>5
    <3> QED
      BY <2>4, <2>5, <3>1, FS_Subset
  <2>6. (own \subseteq other /\ ~ (n > m) /\ ~ (n < m)) <=> own = other
    BY <2>4, <2>5
  <2> DEFINE yes == own \subseteq other /\ ~ (n > m) /\ ~ (n < m)
             same == own = other
  <2>7. yes \in BOOLEAN /\ same \in BOOLEAN /\ x.answer = yes /\ (yes <=> same)
    BY <2>2, <2>6
  <2> HIDE DEF yes
  <2>8. x.answer = same
    <3> HIDE DEF same
    <3>1. yes = same
      BY <2>7, Zenon
    <3> QED
      BY <2>7, <3>1
  <2> QED
    BY <2>8 DEF own, other
<1> QED
  BY <1>1, ViewAlways, PTL
=============================================================================
