--------------------------- MODULE BulkCallsProofs ---------------------------
(***************************************************************************)
(* The table stays sound whatever an iterator calls between two items of a *)
(* bulk call, and whatever a bulk call takes from the multidict itself.    *)
(* The invariant is that of HashTable, as long as no call has disturbed    *)
(* the marks of an update() or merge() under way.                          *)
(***************************************************************************)
EXTENDS BulkCalls, RefinementProofs

\* An addition by a nested update or merge.
LEMMA AddMarked ==
  ASSUME NEW ks, IsSound(ks), NEW key \in Keys, NEW value \in Values,
         CanMakeRoom(ks, Cardinality(Live(ks))),
         NEW new, new = AddEntry(ks, Cardinality(Live(ks)), key, value, TRUE)
  PROVE  /\ IsSound(new) /\ Cardinality(Live(new)) = Cardinality(Live(ks)) + 1
         /\ EntriesFrom(new, ks)
<1>1. /\ IsSound(new) /\ Cardinality(Live(new)) = Cardinality(Live(ks)) + 1
      /\ Added(new, ks, NewEntry(key, value, TRUE))
  BY AddEntrySound
<1> QED
  BY <1>1, AddedFrom

\* The table a nested bulk call leaves before it settles it.
LEMMA NestedTableSound ==
  ASSUME NEW op \in BulkOps, NEW key \in Keys, NEW value \in Values,
         NEW ks, IsSound(ks), used = Cardinality(Live(ks)), CanMakeRoom(ks, used),
         op = "extend" => IsSettled(ks) \/ ~ NeedsRoom(ks),
         NEW new, new = NestedTable(ks, op, key, value)
  PROVE  /\ IsSound(new)
         /\ Cardinality(Live(new))
              = used + (IF NestedAdds(ks, op, key) THEN 1 ELSE 0)
         /\ op = "extend" /\ IsSettled(ks) => IsSettled(new)
         /\ IF op = "extend" THEN EntriesFrom(new, ks) ELSE KeysFrom(new, ks)
<1>0. used \in Nat
  BY LiveFinite DEF IsSound
<1>1. CASE op = "extend"
  <2>1. NestedAdds(ks, op, key)
    BY <1>1 DEF NestedAdds
  <2>2. new = AddEntry(ks, Cardinality(Live(ks)), key, value, FALSE)
    BY <1>1, <2>1 DEF NestedTable
  <2>3. IsSettled(ks) \/ ~ NeedsRoom(ks)
    BY <1>1
  <2>4. CanMakeRoom(ks, Cardinality(Live(ks)))
    OBVIOUS
  <2>5. /\ IsSound(new)
        /\ Cardinality(Live(new)) = Cardinality(Live(ks)) + 1
        /\ IsSettled(ks) => IsSettled(new)
        /\ Added(new, ks, NewEntry(key, value, FALSE))
    BY <2>2, <2>3, <2>4, AddWithMarks
  <2>6. Cardinality(Live(new)) = used + (IF NestedAdds(ks, op, key) THEN 1 ELSE 0)
    <3>1. (IF NestedAdds(ks, op, key) THEN 1 ELSE 0) = 1
      BY <2>1, Zenon
    <3>2. Cardinality(Live(new)) = used + 1
      BY <2>5, Zenon
    <3> QED
      BY <3>1, <3>2, Zenon
  <2>7. EntriesFrom(new, ks)
    BY <2>5, AddedFrom
  <2> QED
    BY <1>1, <2>5, <2>6, <2>7, Zenon
<1>2. CASE op # "extend" /\ NestedAdds(ks, op, key)
  <2>1. new = AddEntry(ks, Cardinality(Live(ks)), key, value, TRUE)
    BY <1>2 DEF NestedTable
  <2>2. CanMakeRoom(ks, Cardinality(Live(ks)))
    OBVIOUS
  <2>3. /\ IsSound(new) /\ Cardinality(Live(new)) = Cardinality(Live(ks)) + 1
        /\ EntriesFrom(new, ks)
    BY <2>1, <2>2, AddMarked
  <2>4. (IF NestedAdds(ks, op, key) THEN 1 ELSE 0) = 1
    BY <1>2, Zenon
  <2>5. Cardinality(Live(new)) = used + 1
    BY <2>3, Zenon
  <2>6. KeysFrom(new, ks)
    BY <2>3 DEF EntriesFrom, KeysFrom
  <2> QED
    BY <1>2, <2>3, <2>4, <2>5, <2>6, Zenon
<1>3. CASE op # "extend" /\ ~ NestedAdds(ks, op, key)
  <2>1. md_contains(ks, key)
    BY <1>3 DEF NestedAdds
  <2>2. new = ReplaceForUpdate(ks, key, value) \/ new = ks
    BY <1>3 DEF NestedTable
  <2>3. IsSound(new) /\ Cardinality(Live(new)) = used
    BY <2>1, <2>2, ReplaceForUpdateSound
  <2>4. KeysFrom(new, ks)
    BY <2>1, <2>2, ReplacedFrom, FromItself DEF EntriesFrom, KeysFrom
  <2> QED
    BY <1>0, <1>3, <2>3, <2>4
<1> QED
  BY <1>1, <1>2, <1>3

\* extend(), update() or merge() of one item.
LEMMA NestedBulkKept ==
  ASSUME TableInvariant, NEW op \in BulkOps, NEW key \in Keys, NEW value \in Values,
         NestedBulk(op, key, value), ~ NestedMisbuilds(op)
  PROVE  KeptAfter
<1> DEFINE reserved == _md_reserve(keys, used, 1)
           ks == NestedTable(reserved, op, key, value)
           added == IF NestedAdds(reserved, op, key) THEN 1 ELSE 0
<1>1. IsSound(keys) /\ used = Cardinality(Live(keys)) /\ used \in Nat
  BY LiveFinite DEF TableInvariant, IsSound
<1>2. /\ NeedsReserve(keys, used, 1) => ~ TooLarge(estimate_log2_keysize(1 + used))
      /\ CanMakeRoom(reserved, used)
      /\ keys' = IF op = "extend" THEN ks ELSE md_post_update(ks)
      /\ used' = used + added -
           (IF op = "extend" THEN 0 ELSE Cardinality(HalfDeletedSlots(ks)))
  BY DEF NestedBulk
<1> HIDE DEF reserved
<1>3. /\ IsSound(reserved) /\ used = Cardinality(Live(reserved))
      /\ IsSettled(keys) => IsSettled(reserved)
      /\ EntriesFrom(reserved, keys)
  <2>1. NeedsReserve(keys, used, 1) => IsSettled(keys)
    BY DEF NestedMisbuilds
  <2>2. /\ IsSound(reserved) /\ used = Cardinality(Live(reserved))
        /\ IsSettled(keys) => IsSettled(reserved)
        /\ reserved = keys \/ Compacted(reserved, keys)
    BY <1>1, <1>2, <2>1, ReserveSound DEF reserved
  <2> QED
    BY <2>2, FromItself, CompactedFrom
<1>4. op = "extend" => IsSettled(reserved) \/ ~ NeedsRoom(reserved)
  <2> SUFFICES ASSUME op = "extend", ~ IsSettled(keys)
               PROVE  ~ NeedsRoom(reserved)
    BY <1>3
  <2> QED
    BY DEF NestedMisbuilds, reserved, _md_reserve
<1>5. /\ IsSound(ks) /\ Cardinality(Live(ks)) = used + added
      /\ op = "extend" /\ IsSettled(reserved) => IsSettled(ks)
      /\ IF op = "extend" THEN EntriesFrom(ks, reserved) ELSE KeysFrom(ks, reserved)
  BY <1>2, <1>3, <1>4, NestedTableSound
<1> HIDE DEF ks, added
<1>6. CASE op = "extend"
  <2>1. added \in Nat
    BY DEF added
  <2>2. keys' = ks /\ used' = used + added
    BY <1>1, <1>2, <1>6, <2>1
  <2>3. IsSettled(keys) => IsSettled(ks)
    BY <1>3, <1>5, <1>6
  <2>4. Cardinality(Live(ks)) = used + added /\ IsSound(ks)
    BY <1>5, Zenon
  <2>5. IsSound(keys')
    BY <2>2, <2>4, Zenon
  <2>6. used' = Cardinality(Live(keys'))
    <3> HIDE DEF Live
    <3> QED
      BY <2>2, <2>4
  <2>7. IsSettled(keys) => IsSettled(keys')
    BY <2>2, <2>3, Zenon
  <2>8. EntriesFrom(keys', keys)
    <3>1. EntriesFrom(ks, reserved)
      BY <1>5, <1>6
    <3> QED
      BY <1>3, <2>2, <3>1, FromBefore
  <2> QED
    BY <2>5, <2>6, <2>7, <2>8, Zenon DEF KeptAfter
<1>7. CASE op # "extend"
  <2>1. keys' = md_post_update(ks)
    BY <1>2, <1>7
  <2>2. IsSound(ks) /\ Cardinality(Live(ks)) = used + added
    BY <1>5, Zenon
  <2>3. /\ IsSound(keys') /\ IsSettled(keys')
        /\ Cardinality(Live(keys'))
             = Cardinality(Live(ks)) - Cardinality(HalfDeletedSlots(ks))
        /\ Cardinality(HalfDeletedSlots(ks)) \in Nat
        /\ Settled(keys', ks)
    BY <2>1, <2>2, PostUpdateSound
  <2>4. used' = used + added - Cardinality(HalfDeletedSlots(ks))
    BY <1>2, <1>7
  <2>5. used' = Cardinality(Live(keys'))
    <3>1. added \in Nat
      BY DEF added
    <3>2. used + added - Cardinality(HalfDeletedSlots(ks)) = Cardinality(Live(keys'))
      BY <1>1, <2>2, <2>3, <3>1
    <3> QED
      BY <2>4, <3>2, Zenon
  <2>6. EntriesFrom(keys', keys)
    <3>1. KeysFrom(ks, reserved)
      BY <1>5, <1>7
    <3>2. EntriesFrom(keys', reserved)
      BY <2>3, <3>1, SettledFrom
    <3> QED
      BY <1>3, <3>2, FromBefore
  <2> QED
    BY <2>3, <2>5, <2>6, Zenon DEF KeptAfter
<1> QED
  BY <1>6, <1>7

-----------------------------------------------------------------------------
(* Entries that stay.                                                      *)

\* The begin of a bulk call keeps the list of entries.
LEMMA BeginKeeps ==
  ASSUME TableInvariant, Idle, NEW op \in BulkOps, NEW hint \in Nat, BulkBegin(op, hint)
  PROVE  /\ EntriesFrom(keys', keys) /\ EntryList(keys') = EntryList(keys)
         /\ IsSound(keys') /\ IsSettled(keys')
BY BeginFrom, CompactedList DEF TableInvariant

-----------------------------------------------------------------------------
(* What a multidict takes from itself.                                     *)

\* An entry without a mark is found by its identity.
LEMMA LiveFound ==
  ASSUME NEW ks, IsSound(ks), NEW i \in Live(ks), ks.entries[i].hash # MARK,
         NEW id, id = ks.entries[i].identity
  PROVE  Matches(ks, HashOf[id], id) # {}
<1>1. id \in Identities /\ ks.entries[i].hash = HashOf[id]
  BY LiveEntry DEF IsSound
<1>2. PICK n \in 0..(PathLength(ks, HashOf[id]) - 1) : IndexAt(ks, HashOf[id], n) = i
  BY LiveOnPath
<1>3. i >= 0
  BY LiveFinite, SizeTypes DEF IsSound
<1>4. n \in Matches(ks, HashOf[id], id)
  BY <1>1, <1>2, <1>3 DEF Matches
<1> QED
  BY <1>4

\* It is all that is found if no other entry has the identity.
LEMMA OneFound ==
  ASSUME NEW ks, IsSound(ks), NEW i \in Live(ks), ks.entries[i].hash # MARK,
         NEW id, id = ks.entries[i].identity,
         \A j \in Live(ks) : ks.entries[j].identity = id => j = i
  PROVE  /\ Matches(ks, HashOf[id], id) # {}
         /\ IndexedBy(ks, MatchingSlots(ks, HashOf[id], id)) = {i}
         /\ ks.indices[FirstMatch(ks, HashOf[id], id)] = i
<1>1. id \in Identities /\ Matches(ks, HashOf[id], id) # {}
  BY LiveFound, LiveEntry
<1> DEFINE slots == MatchingSlots(ks, HashOf[id], id)
<1>2. /\ FirstMatch(ks, HashOf[id], id) \in slots
      /\ \A s \in slots : ks.indices[s] \in Live(ks) /\ ks.entries[ks.indices[s]].identity = id
  BY <1>1, MatchesAreLive
<1> HIDE DEF slots
<1>3. \A s \in slots : ks.indices[s] = i
  BY <1>2
<1>4. IndexedBy(ks, slots) = {i}
  BY <1>2, <1>3 DEF IndexedBy
<1> QED
  BY <1>1, <1>2, <1>3, <1>4 DEF slots

\* Taken again by an update, it is marked, and that is all.
Remarked(new, ks, i) ==
  /\ IsSound(new) /\ Live(new) = Live(ks) /\ new.log2_size = ks.log2_size
  /\ \A j \in Live(ks) : /\ new.entries[j].identity = ks.entries[j].identity
                         /\ new.entries[j].key = ks.entries[j].key
                         /\ new.entries[j].value = ks.entries[j].value
                         /\ j # i => new.entries[j].hash = ks.entries[j].hash

LEMMA ReplacedByItself ==
  ASSUME NEW ks, IsSound(ks), NEW i \in Live(ks), ks.entries[i].hash # MARK,
         NEW key \in Keys, NEW value \in Values,
         ks.entries[i].key = key, ks.entries[i].value = value,
         ks.entries[i].identity = IdentityOf[key],
         \A j \in Live(ks) : ks.entries[j].identity = IdentityOf[key] => j = i,
         NEW new, new = ReplaceForUpdate(ks, key, value)
  PROVE  md_contains(ks, key) /\ Remarked(new, ks, i)
<1> DEFINE id == IdentityOf[key]
           first == ks.indices[FirstMatch(ks, HashOf[id], id)]
           found == IndexedBy(ks, MatchingSlots(ks, HashOf[id], id))
<1>1. Matches(ks, HashOf[id], id) # {} /\ found = {i} /\ first = i
  BY OneFound
<1>2. md_contains(ks, key)
  BY <1>1 DEF md_contains, hash_of
<1>3. /\ IsSound(new) /\ Live(new) = Live(ks) /\ new.log2_size = ks.log2_size
      /\ TakenForUpdate(new, ks, first, found, key, value)
  BY <1>2, ReplaceForUpdateSound
<1> HIDE DEF first, found
<1>4. ASSUME NEW j \in Live(ks)
      PROVE  /\ new.entries[j].identity = ks.entries[j].identity
             /\ new.entries[j].key = ks.entries[j].key
             /\ new.entries[j].value = ks.entries[j].value
             /\ j # i => new.entries[j].hash = ks.entries[j].hash
  <2>1. CASE j = i
    BY <1>1, <1>3, <2>1 DEF TakenForUpdate
  <2>2. CASE j # i
    BY <1>1, <1>3, <2>2 DEF TakenForUpdate
  <2> QED
    BY <2>1, <2>2
<1> QED
  BY <1>2, <1>3, <1>4 DEF Remarked

LEMMA RemarkedItems ==
  ASSUME NEW ks, IsSound(ks), NEW new, NEW i, Remarked(new, ks, i)
  PROVE  ItemsOf(new) = ItemsOf(ks)
<1>1. IsSound(new) /\ Live(new) = Live(ks)
  BY DEF Remarked
<1>2. \A n \in 1..Cardinality(Live(ks)) :
        ItemOf(EntryList(new)[n]) = ItemOf(EntryList(ks)[n])
  <2> SUFFICES ASSUME NEW n \in 1..Cardinality(Live(ks))
               PROVE  ItemOf(EntryList(new)[n]) = ItemOf(EntryList(ks)[n])
    OBVIOUS
  <2>1. /\ EntryList(ks)[n] = ks.entries[Nth(Live(ks), n)]
        /\ EntryList(new)[n] = new.entries[Nth(Live(ks), n)]
        /\ Nth(Live(ks), n) \in Live(ks)
    BY <1>1, ItemsOfEntries
  <2> QED
    BY <2>1 DEF Remarked, ItemOf
<1>3. /\ ItemsOf(ks) = [n \in 1..Cardinality(Live(ks)) |-> ItemOf(EntryList(ks)[n])]
      /\ ItemsOf(new) = [n \in 1..Cardinality(Live(ks)) |-> ItemOf(EntryList(new)[n])]
  BY <1>1, ItemsOfEntries
<1> QED
  BY <1>2, <1>3

\* The identities of a list of items, and of the entries the list stands for.
IdentitiesOf(list) == [n \in DOMAIN list |-> IdentityOf[list[n].key]]

LEMMA DistinctEntries ==
  ASSUME NEW ks, IsSound(ks), Identified(ks), AllHaveKeys(ks),
         IsInjective(IdentitiesOf(ItemsOf(ks))),
         NEW i \in Live(ks), NEW j \in Live(ks),
         ks.entries[i].identity = ks.entries[j].identity
  PROVE  i = j
<1>1. PICK n \in Nat : n = Cardinality(Live(ks))
  BY LiveInOrder
<1>2. PICK list : list = ItemsOf(ks)
  OBVIOUS
<1>3. PICK m \in Nat : Live(ks) \in SUBSET (0..m)
  BY LiveInOrder
<1>4. PICK S \in SUBSET (0..m) : S = Live(ks)
  BY <1>3
<1>5. \A k \in S : Rank(S, k) \in 1..n /\ Nth(S, Rank(S, k)) = k
  BY <1>1, <1>4, InOrder
<1>6. DOMAIN list = 1..n /\ \A k \in 1..n : list[k] = ItemOf(ks.entries[Nth(S, k)])
  BY <1>1, <1>2, <1>4, ItemsOfEntries
<1>7. \A k \in S : IdentityOf[list[Rank(S, k)].key] = ks.entries[k].identity
  BY <1>4, <1>5, <1>6 DEF Identified, AllHaveKeys, ItemOf
<1>8. \A k \in S : IdentitiesOf(list)[Rank(S, k)] = ks.entries[k].identity
  BY <1>5, <1>6, <1>7 DEF IdentitiesOf
<1>9. DOMAIN IdentitiesOf(list) = 1..n
  BY <1>6 DEF IdentitiesOf
<1>10. Rank(S, i) = Rank(S, j)
  BY <1>2, <1>4, <1>5, <1>8, <1>9 DEF IsInjective
<1> QED
  BY <1>4, <1>5, <1>10

\* The record of a bulk call.
Shaped(b) ==
  b \in [op : BulkOps \cup {"none"}, base : {b.base}, args : {b.args},
         hint : {b.hint}, log2 : {b.log2}, version : {b.version}]

\* Where the items of a bulk call come from, and what it has taken.
HistoryTyped ==
  /\ source \in [own : BOOLEAN, pos : Nat]
  /\ Shaped(bulk)
  /\ Idle \/ ~ source.own => bulk.args \in Seq(ItemType)

\* A merge of the multidict into itself, or an update of one with different
\* keys.
OwnCall ==
  /\ source.own
  /\ \/ bulk.op = "merge"
     \/ bulk.op = "update" /\ IsInjective(IdentitiesOf(bulk.base))

\* Only an update marks entries, those it has taken.
OwnKept ==
  OwnCall =>
    /\ ~ damaged
    /\ Items = bulk.base
    /\ AllHaveKeys(keys)
    /\ \A i \in Live(keys) :
         keys.entries[i].hash = MARK => bulk.op = "update" /\ i < source.pos

LEMMA OwnBeginKept ==
  ASSUME TableInvariant, ~ damaged, NEW op \in BulkOps, OwnBegin(op)
  PROVE  OwnKept'
<1>1. Idle /\ BulkBegin(op, used) /\ ~ damaged'
  BY DEF OwnBegin
<1>2. used \in Nat
  BY LiveFinite DEF TableInvariant, IsSound
<1>3. EntryList(keys') = EntryList(keys) /\ IsSound(keys') /\ IsSettled(keys')
  BY <1>1, <1>2, BeginKeeps
<1>4. ItemsOf(keys') = ItemsOf(keys)
  <2>1. IsSound(keys)
    BY DEF TableInvariant
  <2> QED
    BY <1>3, <2>1, ItemsOfList
<1>5. bulk'.base = Items
  BY <1>1 DEF BulkBegin
<1> QED
  BY <1>1, <1>3, <1>4, <1>5 DEF OwnKept, AllHaveKeys, IsSettled, Items

LEMMA OwnItemKept ==
  ASSUME TableInvariant, Identified(keys), HistoryTyped, OwnKept, OwnItem
  PROVE  OwnKept'
<1> DEFINE i == Min(Ahead)
           e == keys.entries[i]
<1>1. bulk'.op = bulk.op /\ bulk'.base = bulk.base /\ source'.own = source.own
  BY DEF OwnItem, BulkItem, HistoryTyped, Shaped
<1> SUFFICES ASSUME OwnCall
             PROVE  /\ ~ damaged' /\ Items' = bulk.base /\ AllHaveKeys(keys')
                    /\ \A j \in Live(keys') : keys'.entries[j].hash = MARK =>
                         bulk.op = "update" /\ j < source'.pos
  BY <1>1 DEF OwnKept, OwnCall
<1>2. /\ IsSound(keys) /\ Items = bulk.base /\ AllHaveKeys(keys)
      /\ \A j \in Live(keys) :
           keys.entries[j].hash = MARK => bulk.op = "update" /\ j < source.pos
  BY DEF OwnKept, TableInvariant
<1>3. i \in Live(keys) /\ i >= source.pos /\ Live(keys) \in SUBSET Nat /\ source.pos \in Nat
  <2>1. Live(keys) \in SUBSET Nat
    BY <1>2, LiveFinite, SizeTypes DEF IsSound
  <2>2. Ahead \in SUBSET Nat /\ Ahead # {}
    BY <2>1 DEF Ahead, OwnItem
  <2>3. i \in Ahead
    BY <2>2, MinOfNaturals
  <2> QED
    BY <2>1, <2>3 DEF Ahead, HistoryTyped
<1>4. /\ e.key # NULL /\ BulkItem(e.key, e.value)
      /\ damaged' = (keys'.log2_size # keys.log2_size)
      /\ source' = [source EXCEPT !.pos = i + 1]
  BY <1>2, <1>3 DEF OwnItem, AllHaveKeys
<1>5. e.key \in Keys /\ e.value \in Values
  BY <1>2, <1>3, <1>4, EntryIsItem
<1>6. e.identity = IdentityOf[e.key]
  BY <1>3, <1>4 DEF Identified
<1>7. source.pos < i + 1 /\ source'.pos = i + 1
  <2> DEFINE p == i
  <2>1. p \in Nat /\ source.pos \in Nat /\ p >= source.pos
    BY <1>3
  <2>2. source' = [source EXCEPT !.pos = p + 1]
    BY <1>4
  <2> HIDE DEF p, i
  <2>3. source'.pos = p + 1 /\ source.pos < p + 1
    BY <2>1, <2>2 DEF HistoryTyped
  <2> QED
    BY <2>3 DEF p
<1> HIDE DEF i, e
<1>8. CASE bulk.op = "merge"
  <2>1. e.hash # MARK
    BY <1>2, <1>3, <1>8 DEF e
  <2>2. Matches(keys, HashOf[e.identity], e.identity) # {}
    BY <1>2, <1>3, <2>1, LiveFound DEF e
  <2>3. md_contains(keys, e.key)
    BY <1>6, <2>2 DEF md_contains, hash_of
  <2>4. keys' = keys
    BY <1>4, <1>8, <2>3 DEF BulkItem, ApplyItem, MergeItem
  <2> QED
    BY <1>2, <1>4, <1>8, <2>4 DEF Items
<1>9. CASE bulk.op = "update"
  <2>1. e.hash # MARK
    <3>1. i \in Nat /\ source.pos \in Nat /\ i >= source.pos
      BY <1>3
    <3>2. ~ (i < source.pos)
      BY <3>1
    <3> QED
      BY <1>2, <1>3, <3>2 DEF e
  <2>2. \A j \in Live(keys) : keys.entries[j].identity = IdentityOf[e.key] => j = i
    <3>1. IsInjective(IdentitiesOf(ItemsOf(keys)))
      BY <1>2, <1>9 DEF OwnCall, Items
    <3> QED
      BY <1>2, <1>3, <1>6, <3>1, DistinctEntries DEF e
  <2>3. PICK new : new = ReplaceForUpdate(keys, e.key, e.value)
    OBVIOUS
  <2>4. md_contains(keys, e.key) /\ Remarked(new, keys, i)
    BY <1>2, <1>3, <1>5, <1>6, <2>1, <2>2, <2>3, ReplacedByItself DEF e
  <2>5. keys' = new
    BY <1>4, <1>9, <2>3, <2>4 DEF BulkItem, ApplyItem, UpdateItem
  <2>6. Items' = bulk.base
    BY <1>2, <2>4, <2>5, RemarkedItems DEF Items
  <2>7. AllHaveKeys(keys') /\ ~ damaged'
    BY <1>2, <1>4, <2>4, <2>5 DEF Remarked, AllHaveKeys
  <2>8. ASSUME NEW j \in Live(keys'), keys'.entries[j].hash = MARK
        PROVE  j < i + 1
    <3>1. j \in Live(keys) /\ j \in Nat /\ i \in Nat
      BY <1>3, <2>4, <2>5 DEF Remarked
    <3>2. CASE j # i
      <4>1. keys.entries[j].hash = MARK
        BY <2>4, <2>5, <2>8, <3>1, <3>2 DEF Remarked
      <4>2. j < source.pos
        BY <1>2, <3>1, <4>1
      <4>3. source.pos \in Nat
        BY <1>3
      <4> QED
        BY <1>7, <3>1, <4>2, <4>3
    <3> QED
      BY <3>1, <3>2
  <2> QED
    BY <1>7, <1>9, <2>6, <2>7, <2>8
<1> QED
  BY <1>8, <1>9 DEF OwnCall

-----------------------------------------------------------------------------
(* What a bulk call takes from elsewhere.                                  *)

\* How many elements of a list are of a kind.
CountOf(list, V) == Cardinality({n \in DOMAIN list : list[n] \in V})

LEMMA CountAppended ==
  ASSUME NEW T, NEW list \in Seq(T), NEW e \in T, NEW V
  PROVE  /\ CountOf(list, V) \in Nat
         /\ CountOf(Append(list, e), V) = CountOf(list, V) + (IF e \in V THEN 1 ELSE 0)
<1> DEFINE those == {n \in DOMAIN list : list[n] \in V}
<1>1. PICK k \in Nat : k = Len(list) /\ DOMAIN list = 1..k
  OBVIOUS
<1>2. PICK longer : longer = Append(list, e)
  OBVIOUS
<1>3. /\ DOMAIN longer = 1..(k + 1) /\ longer[k + 1] = e
      /\ \A n \in 1..k : longer[n] = list[n]
  BY <1>1, <1>2
<1>4. \A n : n \in 1..(k + 1) <=> n \in 1..k \/ n = k + 1
  BY <1>1
<1>5. {n \in DOMAIN longer : longer[n] \in V}
        = IF e \in V THEN those \cup {k + 1} ELSE those
  <2>1. \A n : n \in {m \in DOMAIN longer : longer[m] \in V}
                 <=> n \in those \/ (n = k + 1 /\ e \in V)
    BY <1>1, <1>3, <1>4
  <2> HIDE DEF those
  <2> QED
    BY <2>1
<1>6. IsFiniteSet(those) /\ Cardinality(those) \in Nat /\ k + 1 \notin those
  <2>1. IsFiniteSet(1..k)
    BY <1>1, FS_Interval
  <2>2. those \subseteq 1..k
    BY <1>1
  <2>3. k + 1 \notin 1..k
    BY <1>1
  <2> HIDE DEF those
  <2> QED
    BY <2>1, <2>2, <2>3, FS_Subset, FS_CardinalityType
<1>7. CountOf(list, V) = Cardinality(those)
  BY DEF CountOf
<1> HIDE DEF those
<1>8. Cardinality(those \cup {k + 1}) = Cardinality(those) + 1
  BY <1>6, FS_AddElement
<1>9. CountOf(longer, V) = CountOf(list, V) + (IF e \in V THEN 1 ELSE 0)
  <2>1. CASE e \in V
    <3>1. {n \in DOMAIN longer : longer[n] \in V} = those \cup {k + 1}
      BY <1>5, <2>1, Zenon
    <3>2. CountOf(longer, V) = Cardinality(those \cup {k + 1})
      BY <3>1, Zenon DEF CountOf
    <3> DEFINE one == IF e \in V THEN 1 ELSE 0
    <3>3. one = 1
      BY <2>1, Zenon
    <3> HIDE DEF one, those
    <3>4. CountOf(longer, V) = CountOf(list, V) + one
      BY <1>6, <1>7, <1>8, <3>2, <3>3
    <3> QED
      BY <3>4, Zenon DEF one
  <2>2. CASE e \notin V
    <3>1. {n \in DOMAIN longer : longer[n] \in V} = those
      BY <1>5, <2>2, Zenon
    <3>2. CountOf(longer, V) = Cardinality(those)
      BY <3>1, Zenon DEF CountOf
    <3> DEFINE one == IF e \in V THEN 1 ELSE 0
    <3>3. one = 0
      BY <2>2, Zenon
    <3> HIDE DEF one, those
    <3>4. CountOf(longer, V) = CountOf(list, V) + one
      BY <1>6, <1>7, <3>2, <3>3
    <3> QED
      BY <3>4, Zenon DEF one
  <2> QED
    BY <2>1, <2>2
<1> QED
  BY <1>2, <1>6, <1>7, <1>9

LEMMA OccursCount ==
  ASSUME NEW list, NEW x
  PROVE  Occurs(list, x) = CountOf(list, {x})
<1>1. {n \in DOMAIN list : list[n] = x} = {n \in DOMAIN list : list[n] \in {x}}
  OBVIOUS
<1> QED
  BY <1>1 DEF Occurs, CountOf

LEMMA OccursInNone ==
  ASSUME NEW x
  PROVE  Occurs(<<>>, x) = 0
<1>1. {n \in DOMAIN <<>> : <<>>[n] = x} = {}
  OBVIOUS
<1> QED
  BY <1>1, FS_EmptySet DEF Occurs

\* The live entries that hold an item, or those that are marked.
Holding(item, marked) == {e \in Entry : ItemOf(e) = item /\ (marked => e.hash = MARK)}
Holders(ks, item, marked) == {i \in Live(ks) : ks.entries[i] \in Holding(item, marked)}

LEMMA HoldersListed ==
  ASSUME NEW ks, IsSound(ks), NEW item, NEW marked
  PROVE  /\ IsFiniteSet(Holders(ks, item, marked))
         /\ Cardinality(Holders(ks, item, marked)) \in Nat
         /\ Cardinality(Holders(ks, item, marked))
              = CountOf(EntryList(ks), Holding(item, marked))
<1>1. PICK n \in Nat : n = Cardinality(Live(ks))
  BY LiveInOrder
<1>2. PICK m \in Nat : Live(ks) \in SUBSET (0..m)
  BY LiveInOrder
<1>3. PICK S \in SUBSET (0..m) : S = Live(ks)
  BY <1>2
<1>4. PICK T \in SUBSET S : T = Holders(ks, item, marked)
  BY <1>3 DEF Holders
<1>5. PICK list : list = EntryList(ks)
  OBVIOUS
<1>6. /\ DOMAIN list = 1..n
      /\ \A k \in 1..n : list[k] = ks.entries[Nth(S, k)] /\ Nth(S, k) \in S
  BY <1>1, <1>3, <1>5, ItemsOfEntries, ItemsOfList
<1>7. {k \in DOMAIN list : list[k] \in Holding(item, marked)} = PlacesOf(S, T)
  BY <1>1, <1>3, <1>4, <1>6 DEF PlacesOf, Holders
<1>8. Cardinality(PlacesOf(S, T)) = Cardinality(T) /\ Cardinality(T) \in Nat
  BY PartInOrder
<1>9. IsFiniteSet(T)
  BY InOrder, FS_Subset
<1> QED
  BY <1>4, <1>5, <1>7, <1>8, <1>9 DEF CountOf

\* As many items as entries that hold them.
LEMMA ItemsHeld ==
  ASSUME NEW ks, IsSound(ks), NEW item
  PROVE  Occurs(ItemsOf(ks), item) = Cardinality(Holders(ks, item, FALSE))
<1>1. PICK n \in Nat : n = Cardinality(Live(ks))
  BY LiveInOrder
<1>2. PICK list : list = EntryList(ks)
  OBVIOUS
<1>3. /\ DOMAIN list = 1..n /\ ItemsOf(ks) = ListItems(list)
      /\ \A k \in 1..n : list[k] \in Entry
  BY <1>1, <1>2, ItemsOfList, ItemsOfEntries
<1>4. {k \in DOMAIN ListItems(list) : ListItems(list)[k] = item}
        = {k \in DOMAIN list : list[k] \in Holding(item, FALSE)}
  BY <1>3 DEF ListItems, Holding
<1>5. Occurs(ItemsOf(ks), item) = CountOf(list, Holding(item, FALSE))
  BY <1>3, <1>4 DEF Occurs, CountOf
<1> QED
  BY <1>2, <1>5, HoldersListed

\* One more when it is added.
LEMMA HoldersAdded ==
  ASSUME NEW ks, IsSound(ks), NEW new, IsSound(new),
         NEW entry \in Entry, Added(new, ks, entry), NEW item, NEW marked
  PROVE  Cardinality(Holders(new, item, marked))
           = Cardinality(Holders(ks, item, marked))
             + (IF entry \in Holding(item, marked) THEN 1 ELSE 0)
<1>1. PICK list \in Seq(Entry) : list = EntryList(ks)
  BY ItemsOfList
<1>2. EntryList(new) = Append(list, entry)
  BY <1>1, AddedList
<1>3. PICK V : V = Holding(item, marked)
  OBVIOUS
<1>4. CountOf(Append(list, entry), V) = CountOf(list, V) + (IF entry \in V THEN 1 ELSE 0)
  BY CountAppended
<1> QED
  BY <1>1, <1>2, <1>3, <1>4, HoldersListed

\* One more that is marked when it replaces another in an update.
LEMMA HoldersReplaced ==
  ASSUME NEW ks, IsSound(ks), NEW key \in Keys, NEW value \in Values, md_contains(ks, key),
         NEW new, new = ReplaceForUpdate(ks, key, value), NEW item
  PROVE  Cardinality(Holders(new, item, TRUE))
           >= Cardinality(Holders(ks, item, TRUE))
              + (IF item = [key |-> key, value |-> value] THEN 1 ELSE 0)
<1> DEFINE id == IdentityOf[key]
           first == ks.indices[FirstMatch(ks, HashOf[id], id)]
           found == IndexedBy(ks, MatchingSlots(ks, HashOf[id], id))
<1>1. /\ IsSound(new) /\ Live(new) = Live(ks)
      /\ TakenForUpdate(new, ks, first, found, key, value)
  BY ReplaceForUpdateSound
<1>2. /\ first \in Live(ks) /\ first \in found
      /\ \A i \in found : ks.entries[i].hash # MARK
  <2>1. id \in Identities /\ Matches(ks, HashOf[id], id) # {}
    BY HashTableAssumption DEF md_contains, hash_of
  <2>2. HashOf[id] # MARK
    BY <2>1, ConstantsAssumption DEF MARK, Hashes
  <2> HIDE DEF id
  <2> QED
    BY <2>1, <2>2, MatchesAreLive DEF IndexedBy
<1> HIDE DEF first, found
<1>3. PICK old : old = Holders(ks, item, TRUE)
  OBVIOUS
<1>4. PICK now : now = Holders(new, item, TRUE)
  OBVIOUS
<1>5. \A i \in Live(ks) : ks.entries[i] \in Entry /\ new.entries[i] \in Entry
  BY <1>1, LiveEntry
<1>6. old \subseteq now
  <2> SUFFICES ASSUME NEW i \in old PROVE i \in now
    OBVIOUS
  <2>1. i \in Live(ks) /\ ks.entries[i] \in Holding(item, TRUE)
    BY <1>3 DEF Holders
  <2>2. i \notin found
    BY <1>2, <2>1 DEF Holding
  <2>3. new.entries[i] = ks.entries[i]
    BY <1>1, <2>1, <2>2 DEF TakenForUpdate
  <2> QED
    BY <1>1, <1>4, <2>1, <2>3 DEF Holders
<1>7. IsFiniteSet(now) /\ IsFiniteSet(old) /\ Cardinality(now) \in Nat /\ Cardinality(old) \in Nat
  BY <1>1, <1>3, <1>4, HoldersListed
<1>8. CASE item = [key |-> key, value |-> value]
  <2>1. first \in now
    <3>1. /\ new.entries[first].hash = MARK
          /\ new.entries[first].key = key /\ new.entries[first].value = value
      BY <1>1, <1>2 DEF TakenForUpdate
    <3> QED
      BY <1>1, <1>2, <1>4, <1>5, <1>8, <3>1 DEF Holders, Holding, ItemOf
  <2>2. first \notin old
    BY <1>2, <1>3 DEF Holders, Holding
  <2>3. Cardinality(old \cup {first}) = Cardinality(old) + 1
    BY <1>7, <2>2, FS_AddElement
  <2>4. Cardinality(old \cup {first}) <= Cardinality(now)
    BY <1>6, <1>7, <2>1, FS_Subset
  <2>5. Cardinality(now) >= Cardinality(old) + 1
    BY <1>7, <2>3, <2>4
  <2> DEFINE one == IF item = [key |-> key, value |-> value] THEN 1 ELSE 0
  <2>6. one = 1
    BY <1>8, Zenon
  <2> HIDE DEF one
  <2>7. Cardinality(now) >= Cardinality(old) + one
    BY <2>5, <2>6
  <2> QED
    BY <1>3, <1>4, <2>7, Zenon DEF one
<1>9. CASE item # [key |-> key, value |-> value]
  <2>1. Cardinality(old) <= Cardinality(now)
    BY <1>6, <1>7, FS_Subset
  <2> DEFINE one == IF item = [key |-> key, value |-> value] THEN 1 ELSE 0
  <2>2. one = 0
    BY <1>9, Zenon
  <2> HIDE DEF one
  <2>3. Cardinality(now) >= Cardinality(old) + one
    BY <1>7, <2>1, <2>2
  <2> QED
    BY <1>3, <1>4, <2>3, Zenon DEF one
<1> QED
  BY <1>8, <1>9

\* One more argument, and one more entry that holds it.
LEMMA OneMoreTaken ==
  ASSUME NEW args \in Seq(ItemType), NEW item \in ItemType, NEW x,
         NEW held \in Nat, NEW now \in Nat, Occurs(args, x) <= held,
         IF x = item THEN now >= held + 1 ELSE now >= held
  PROVE  Occurs(Append(args, item), x) <= now
<1>1. PICK V : V = {x}
  OBVIOUS
<1>2. /\ Occurs(args, x) = CountOf(args, V)
      /\ Occurs(Append(args, item), x) = CountOf(Append(args, item), V)
  BY <1>1, OccursCount
<1> DEFINE one == IF item \in V THEN 1 ELSE 0
<1>3. /\ CountOf(args, V) \in Nat
      /\ CountOf(Append(args, item), V) = CountOf(args, V) + one
  BY CountAppended
<1>4. IF x = item THEN one = 1 ELSE one = 0
  BY <1>1, Zenon
<1> HIDE DEF one
<1>5. CASE x = item
  <2>1. one = 1 /\ now >= held + 1
    BY <1>4, <1>5, Zenon
  <2> QED
    BY <1>2, <1>3, <2>1
<1>6. CASE x # item
  <2>1. one = 0 /\ now >= held
    BY <1>4, <1>6, Zenon
  <2> QED
    BY <1>2, <1>3, <2>1
<1> QED
  BY <1>5, <1>6

\* A new entry holds its item, whatever is asked of its mark.
LEMMA NewEntryTyped ==
  ASSUME NEW key \in Keys, NEW value \in Values, NEW update \in BOOLEAN
  PROVE  NewEntry(key, value, update) \in Entry
<1>1. hash_of(key) \in Hashes /\ IdentityOf[key] \in Identities
  BY HashTableAssumption, ConstantsAssumption DEF hash_of, Hashes
<1> QED
  BY <1>1 DEF NewEntry, Entry

LEMMA NewEntryHolds ==
  ASSUME NEW key \in Keys, NEW value \in Values, NEW update \in BOOLEAN,
         NEW x, NEW entry, entry = NewEntry(key, value, update),
         NEW item, item = [key |-> key, value |-> value]
  PROVE  /\ entry \in Entry
         /\ entry \in Holding(x, update) <=> x = item
<1>1. entry \in Entry
  BY NewEntryTyped
<1>2. update => entry.hash = MARK
  BY DEF NewEntry
<1>3. ItemOf(entry) = item
  BY DEF NewEntry, ItemOf
<1> QED
  BY <1>1, <1>2, <1>3 DEF Holding

\* So when it is added, one entry more holds the item.
LEMMA HoldersOfNew ==
  ASSUME NEW ks, IsSound(ks), NEW new, IsSound(new), NEW key \in Keys, NEW value \in Values,
         NEW update \in BOOLEAN, Added(new, ks, NewEntry(key, value, update)), NEW x,
         NEW item, item = [key |-> key, value |-> value]
  PROVE  IF x = item
           THEN Cardinality(Holders(new, x, update)) >= Cardinality(Holders(ks, x, update)) + 1
           ELSE Cardinality(Holders(new, x, update)) >= Cardinality(Holders(ks, x, update))
<1>1. PICK entry : entry = NewEntry(key, value, update)
  OBVIOUS
<1>2. entry \in Entry /\ (entry \in Holding(x, update) <=> x = item)
  BY <1>1, NewEntryHolds
<1> DEFINE one == IF entry \in Holding(x, update) THEN 1 ELSE 0
<1>3. PICK held \in Nat : held = Cardinality(Holders(ks, x, update))
  BY HoldersListed
<1>4. PICK now : now = Cardinality(Holders(new, x, update))
  OBVIOUS
<1>5. now = held + one
  <2>1. Added(new, ks, entry)
    BY <1>1
  <2>2. Cardinality(Holders(new, x, update)) = Cardinality(Holders(ks, x, update)) + one
    BY <1>2, <2>1, HoldersAdded
  <2> HIDE DEF one
  <2> QED
    BY <1>3, <1>4, <2>2, Zenon
<1>6. IF x = item THEN one = 1 ELSE one = 0
  BY <1>2, Zenon
<1> HIDE DEF one
<1>7. CASE x = item
  <2>1. one = 1
    BY <1>6, <1>7, Zenon
  <2>2. now >= held + 1
    BY <1>5, <2>1
  <2> QED
    BY <1>3, <1>4, <1>7, <2>2, Zenon
<1>8. CASE x # item
  <2>1. one = 0
    BY <1>6, <1>8, Zenon
  <2>2. now >= held
    BY <1>5, <2>1
  <2> QED
    BY <1>3, <1>4, <1>8, <2>2, Zenon
<1> QED
  BY <1>7, <1>8

\* The entries of the list and the live entries are the same.
LEMMA LiveListed ==
  ASSUME NEW ks, IsSound(ks)
  PROVE  /\ \A i \in Live(ks) : \E n \in DOMAIN EntryList(ks) : EntryList(ks)[n] = ks.entries[i]
         /\ \A n \in DOMAIN EntryList(ks) : \E i \in Live(ks) : EntryList(ks)[n] = ks.entries[i]
<1>1. PICK m \in Nat : Live(ks) \in SUBSET (0..m)
  BY LiveInOrder
<1>2. PICK S \in SUBSET (0..m) : S = Live(ks)
  BY <1>1
<1>3. \A i \in S : Rank(S, i) \in 1..Cardinality(S) /\ Nth(S, Rank(S, i)) = i
  BY InOrder
<1>4. /\ DOMAIN EntryList(ks) = 1..Cardinality(S)
      /\ \A n \in 1..Cardinality(S) : EntryList(ks)[n] = ks.entries[Nth(S, n)] /\ Nth(S, n) \in S
  BY <1>2, ItemsOfEntries, ItemsOfList
<1> QED
  BY <1>2, <1>3, <1>4

\* What an addition finds stays.
LEMMA StaysWhenAdded ==
  ASSUME NEW ks, IsSound(ks), NEW new, IsSound(new),
         NEW entry \in Entry, Added(new, ks, entry)
  PROVE  /\ \A i \in Live(ks) : \E j \in Live(new) : new.entries[j] = ks.entries[i]
         /\ \E j \in Live(new) : new.entries[j] = entry
<1>1. PICK list \in Seq(Entry) : list = EntryList(ks)
  BY ItemsOfList
<1>2. EntryList(new) = Append(list, entry)
  BY <1>1, AddedList
<1>3. PICK longer : longer = Append(list, entry)
  OBVIOUS
<1>4. PICK k \in Nat : k = Len(list) /\ DOMAIN list = 1..k
  BY <1>1
<1>5. /\ DOMAIN longer = 1..(k + 1) /\ longer[k + 1] = entry
      /\ \A n \in 1..k : longer[n] = list[n]
  BY <1>3, <1>4
<1>6. k + 1 \in 1..(k + 1) /\ \A n \in 1..k : n \in 1..(k + 1)
  BY <1>4
<1>7. \A n \in 1..(k + 1) : \E j \in Live(new) : longer[n] = new.entries[j]
  <2>1. EntryList(new) = longer
    BY <1>2, <1>3
  <2>2. \A n \in DOMAIN EntryList(new) : \E j \in Live(new) : EntryList(new)[n] = new.entries[j]
    BY LiveListed, Zenon
  <2> QED
    BY <1>5, <2>1, <2>2, Zenon
<1>8. ASSUME NEW i \in Live(ks)
      PROVE  \E j \in Live(new) : new.entries[j] = ks.entries[i]
  <2>1. PICK n \in 1..k : list[n] = ks.entries[i]
    BY <1>1, <1>4, LiveListed
  <2>2. n \in 1..(k + 1) /\ longer[n] = ks.entries[i]
    BY <1>5, <1>6, <2>1
  <2> QED
    BY <1>7, <2>2
<1>9. \E j \in Live(new) : new.entries[j] = entry
  BY <1>5, <1>6, <1>7
<1> QED
  BY <1>8, <1>9

-----------------------------------------------------------------------------
(* What has been taken is there.                                           *)

\* Of an update, the entries that hold it are marked, so that no later item
\* half deletes them.
TakenIsThere(op, args, ks) ==
  IF op = "merge"
    THEN /\ AllHaveKeys(ks)
         /\ \A n \in DOMAIN args :
              \E i \in Live(ks) : ks.entries[i].identity = IdentityOf[args[n].key]
    ELSE \A x \in ItemType : Occurs(args, x) <= Cardinality(Holders(ks, x, op = "update"))

TakenKept ==
  ~ damaged /\ ~ Idle /\ ~ source.own => TakenIsThere(bulk.op, bulk.args, keys)

LEMMA NothingTaken ==
  ASSUME NEW ks, IsSound(ks), NEW op, op = "merge" => AllHaveKeys(ks)
  PROVE  TakenIsThere(op, <<>>, ks)
<1>1. \A x, marked : Occurs(<<>>, x) <= Cardinality(Holders(ks, x, marked))
  <2> SUFFICES ASSUME NEW x, NEW marked
               PROVE  Occurs(<<>>, x) <= Cardinality(Holders(ks, x, marked))
    OBVIOUS
  <2>1. Cardinality(Holders(ks, x, marked)) \in Nat /\ Occurs(<<>>, x) = 0
    BY HoldersListed, OccursInNone
  <2> QED
    BY <2>1
<1>2. DOMAIN <<>> = {}
  OBVIOUS
<1> QED
  BY <1>1, <1>2 DEF TakenIsThere

\* One item more.
LEMMA ItemTaken ==
  ASSUME TableInvariant, TableInvariant', Identified(keys),
         NEW key \in Keys, NEW value \in Values,
         BulkItem(key, value), bulk'.op = bulk.op, bulk.args \in Seq(ItemType),
         NEW item, item = [key |-> key, value |-> value], bulk'.args = Append(bulk.args, item),
         TakenIsThere(bulk.op, bulk.args, keys)
  PROVE  TakenIsThere(bulk.op, bulk'.args, keys')
<1>1. IsSound(keys) /\ IsSound(keys') /\ item \in ItemType
  BY DEF TableInvariant, ItemType
<1>2. /\ bulk.op = "extend" => AddItem(key, value)
      /\ bulk.op = "update" => UpdateItem(key, value)
      /\ bulk.op = "merge" => MergeItem(key, value)
      /\ bulk.op \in BulkOps
  BY DEF BulkItem, ApplyItem, BulkOps
<1>3. ASSUME NEW marked \in BOOLEAN,
             \A x \in ItemType : Occurs(bulk.args, x) <= Cardinality(Holders(keys, x, marked)),
             \A x \in ItemType :
               IF x = item
                 THEN Cardinality(Holders(keys', x, marked))
                        >= Cardinality(Holders(keys, x, marked)) + 1
                 ELSE Cardinality(Holders(keys', x, marked))
                        >= Cardinality(Holders(keys, x, marked))
      PROVE  \A x \in ItemType : Occurs(bulk'.args, x) <= Cardinality(Holders(keys', x, marked))
  <2> SUFFICES ASSUME NEW x \in ItemType
               PROVE  Occurs(bulk'.args, x) <= Cardinality(Holders(keys', x, marked))
    OBVIOUS
  <2>1. PICK held \in Nat : held = Cardinality(Holders(keys, x, marked))
    BY <1>1, HoldersListed
  <2>2. PICK now \in Nat : now = Cardinality(Holders(keys', x, marked))
    BY <1>1, HoldersListed
  <2>3. Occurs(bulk.args, x) <= held /\ IF x = item THEN now >= held + 1 ELSE now >= held
    BY <1>3, <2>1, <2>2
  <2>4. Occurs(Append(bulk.args, item), x) <= now
    BY <1>1, <2>3, OneMoreTaken
  <2> QED
    BY <2>2, <2>4
<1>4. ASSUME NEW update \in BOOLEAN, Added(keys', keys, NewEntry(key, value, update)),
             NEW x \in ItemType
      PROVE  IF x = item
               THEN Cardinality(Holders(keys', x, update))
                      >= Cardinality(Holders(keys, x, update)) + 1
               ELSE Cardinality(Holders(keys', x, update))
                      >= Cardinality(Holders(keys, x, update))
  BY <1>1, <1>4, HoldersOfNew
<1>5. CASE bulk.op = "extend"
  <2>1. IsSettled(keys) /\ CanMakeRoom(keys, used)
    BY <1>2, <1>5 DEF TableInvariant, AddItem
  <2>2. Added(keys', keys, NewEntry(key, value, FALSE))
    BY <1>1, <1>2, <1>5, <2>1, AddWithMarks DEF TableInvariant, AddItem
  <2>3. \A x \in ItemType : Occurs(bulk.args, x) <= Cardinality(Holders(keys, x, FALSE))
    BY <1>5 DEF TakenIsThere
  <2>4. \A x \in ItemType : Occurs(bulk'.args, x) <= Cardinality(Holders(keys', x, FALSE))
    BY <1>3, <1>4, <2>2, <2>3
  <2> QED
    BY <1>5, <2>4 DEF TakenIsThere
<1>6. CASE bulk.op = "update"
  <2>1. \A x \in ItemType : Occurs(bulk.args, x) <= Cardinality(Holders(keys, x, TRUE))
    BY <1>6 DEF TakenIsThere
  <2>2. CASE md_contains(keys, key)
    <3>1. keys' = ReplaceForUpdate(keys, key, value)
      BY <1>2, <1>6, <2>2 DEF UpdateItem
    <3>2. ASSUME NEW x \in ItemType
          PROVE  IF x = item
                   THEN Cardinality(Holders(keys', x, TRUE))
                          >= Cardinality(Holders(keys, x, TRUE)) + 1
                   ELSE Cardinality(Holders(keys', x, TRUE))
                          >= Cardinality(Holders(keys, x, TRUE))
      <4> DEFINE one == IF x = [key |-> key, value |-> value] THEN 1 ELSE 0
      <4>1. PICK held \in Nat : held = Cardinality(Holders(keys, x, TRUE))
        BY <1>1, HoldersListed
      <4>2. PICK now \in Nat : now = Cardinality(Holders(keys', x, TRUE))
        BY <1>1, HoldersListed
      <4>3. now >= held + one
        <5>1. Cardinality(Holders(keys', x, TRUE))
                >= Cardinality(Holders(keys, x, TRUE)) + one
          BY <1>1, <2>2, <3>1, HoldersReplaced
        <5> HIDE DEF one
        <5> QED
          BY <4>1, <4>2, <5>1, Zenon
      <4>4. IF x = item THEN one = 1 ELSE one = 0
        BY Zenon
      <4> HIDE DEF one
      <4>5. IF x = item THEN now >= held + 1 ELSE now >= held
        <5>1. CASE x = item
          <6>1. one = 1
            BY <4>4, <5>1, Zenon
          <6>2. now >= held + 1
            BY <4>3, <6>1
          <6> QED
            BY <5>1, <6>2, Zenon
        <5>2. CASE x # item
          <6>1. one = 0
            BY <4>4, <5>2, Zenon
          <6>2. now >= held
            BY <4>3, <6>1
          <6> QED
            BY <5>2, <6>2, Zenon
        <5> QED
          BY <5>1, <5>2
      <4> QED
        BY <4>1, <4>2, <4>5, Zenon
    <3>3. \A x \in ItemType : Occurs(bulk'.args, x) <= Cardinality(Holders(keys', x, TRUE))
      BY <1>3, <2>1, <3>2
    <3> QED
      BY <1>6, <3>3 DEF TakenIsThere
  <2>3. CASE ~ md_contains(keys, key)
    <3>1. Added(keys', keys, NewEntry(key, value, TRUE))
      BY <1>2, <1>6, <2>3, AddForUpdateAdds DEF UpdateItem
    <3>2. \A x \in ItemType : Occurs(bulk'.args, x) <= Cardinality(Holders(keys', x, TRUE))
      BY <1>3, <1>4, <2>1, <3>1
    <3> QED
      BY <1>6, <3>2 DEF TakenIsThere
  <2> QED
    BY <2>2, <2>3
<1>7. CASE bulk.op = "merge"
  <2>1. /\ AllHaveKeys(keys)
        /\ \A n \in DOMAIN bulk.args :
             \E i \in Live(keys) : keys.entries[i].identity = IdentityOf[bulk.args[n].key]
    BY <1>7 DEF TakenIsThere
  <2>2. /\ AllHaveKeys(keys')
        /\ \A i \in Live(keys) : \E j \in Live(keys') :
             keys'.entries[j].identity = keys.entries[i].identity
        /\ \E j \in Live(keys') : keys'.entries[j].identity = IdentityOf[key]
    <3>1. CASE md_contains(keys, key)
      <4>1. keys' = keys
        BY <1>2, <1>7, <3>1 DEF MergeItem
      <4>2. PICK id \in Identities : id = IdentityOf[key]
        BY HashTableAssumption
      <4>3. Matches(keys, HashOf[id], id) # {}
        BY <3>1, <4>2 DEF md_contains, hash_of
      <4>4. \E j \in Live(keys) : keys.entries[j].identity = id
        <5>1. id \in Identities
          BY <4>2
        <5>2. FirstMatch(keys, HashOf[id], id) \in MatchingSlots(keys, HashOf[id], id)
          BY <1>1, <4>3, <5>1, MatchesAreLive
        <5>3. \A s \in MatchingSlots(keys, HashOf[id], id) :
                keys.indices[s] \in Live(keys) /\ keys.entries[keys.indices[s]].identity = id
          BY <1>1, <5>1, MatchesAreLive
        <5> QED
          BY <5>2, <5>3
      <4> QED
        BY <2>1, <4>1, <4>2, <4>4
    <3>2. CASE ~ md_contains(keys, key)
      <4>1. PICK entry : entry = NewEntry(key, value, TRUE)
        OBVIOUS
      <4>2. Added(keys', keys, NewEntry(key, value, TRUE))
        BY <1>2, <1>7, <3>2, AddForUpdateAdds DEF MergeItem
      <4>3. entry \in Entry /\ entry.identity = IdentityOf[key]
        <5>1. entry \in Entry
          BY <4>1, NewEntryTyped
        <5>2. entry.identity = IdentityOf[key]
          BY <4>1 DEF NewEntry
        <5> QED
          BY <5>1, <5>2
      <4>4. /\ \A i \in Live(keys) : \E j \in Live(keys') : keys'.entries[j] = keys.entries[i]
            /\ \E j \in Live(keys') : keys'.entries[j] = entry
        <5>1. Added(keys', keys, entry)
          BY <4>1, <4>2
        <5> QED
          BY <1>1, <4>3, <5>1, StaysWhenAdded
      <4>5. AllHaveKeys(keys')
        BY <2>1, <4>2, AddedFrom, FromIdentified
      <4> QED
        BY <4>3, <4>4, <4>5
    <3> QED
      BY <3>1, <3>2
  <2>3. \A n \in DOMAIN bulk'.args :
          \E j \in Live(keys') : keys'.entries[j].identity = IdentityOf[bulk'.args[n].key]
    <3>1. PICK args : args = bulk.args
      OBVIOUS
    <3>2. PICK more : more = bulk'.args
      OBVIOUS
    <3>3. PICK k \in Nat : k = Len(args) /\ DOMAIN args = 1..k
      BY <3>1
    <3>4. /\ DOMAIN more = 1..(k + 1) /\ more[k + 1] = item
          /\ \A n \in 1..k : more[n] = args[n]
      BY <3>1, <3>2, <3>3, <1>1
    <3>5. \A n \in 1..(k + 1) : n \in 1..k \/ n = k + 1
      BY <3>3
    <3>6. item.key = key
      OBVIOUS
    <3> SUFFICES ASSUME NEW n \in 1..(k + 1)
                 PROVE  \E j \in Live(keys') : keys'.entries[j].identity = IdentityOf[more[n].key]
      BY <3>2, <3>4
    <3>7. CASE n = k + 1
      BY <2>2, <3>4, <3>6, <3>7
    <3>8. CASE n \in 1..k
      BY <2>1, <2>2, <3>1, <3>3, <3>4, <3>8
    <3> QED
      BY <3>5, <3>7, <3>8
  <2> QED
    BY <1>7, <2>2, <2>3 DEF TakenIsThere
<1> QED
  BY <1>2, <1>5, <1>6, <1>7 DEF BulkOps

-----------------------------------------------------------------------------
(* The steps.                                                              *)

\* Any call in between keeps the table sound, unless it disturbs the marks.
LEMMA BetweenKept ==
  ASSUME TableInvariant, Between, ~ damaged'
  PROVE  KeptAfter
<1>1. ASSUME NEW key \in Keys, NEW value \in Values,
             Calling(MdAdd(key, value), Misbuilds)
      PROVE  KeptAfter
  BY <1>1, SoundWhenInvariant, AddItemKept DEF Calling, MdAdd, Misbuilds
<1>2. ASSUME NEW key \in Keys, NEW value \in Values,
             Calling(MdSetDefault(key, value),
                     IF md_contains(keys, key) THEN ReadsNothing(key)
                                               ELSE Misbuilds)
      PROVE  KeptAfter
  <2>1. CASE md_contains(keys, key)
    BY <1>2, <2>1, FromItself DEF Calling, MdSetDefault, TableInvariant, KeptAfter
  <2>2. CASE ~ md_contains(keys, key)
    BY <1>2, <2>2, SoundWhenInvariant, AddItemKept DEF Calling, MdSetDefault, Misbuilds
  <2> QED
    BY <2>1, <2>2
<1>3. ASSUME NEW key \in Keys, NEW value \in Values,
             Calling(SetItem(key, value), ~ IsSettled(keys))
      PROVE  KeptAfter
  BY <1>3, SetItemKept DEF Calling
<1>4. ASSUME NEW key \in Keys, NEW value \in Values, NEW op \in BulkOps,
             Calling(NestedBulk(op, key, value), NestedMisbuilds(op))
      PROVE  KeptAfter
  BY <1>4, NestedBulkKept DEF Calling
<1>5. ASSUME NEW key \in Keys, Calling(MdDel(key), FALSE)
      PROVE  KeptAfter
  BY <1>5, SoundWhenInvariant, DeleteKeyKept, FromItself DEF Calling, MdDel, KeyError, TableInvariant, KeptAfter
<1>6. ASSUME NEW key \in Keys, Calling(MdPopOne(key), ReadsNothing(key))
      PROVE  KeptAfter
  BY <1>6, SoundWhenInvariant, PopOneKept DEF Calling
<1>7. ASSUME NEW key \in Keys, Calling(MdPopAll(key), ReadsNothing(key))
      PROVE  KeptAfter
  BY <1>7, SoundWhenInvariant, DeleteKeyKept, FromItself DEF Calling, MdPopAll, KeyError, TableInvariant, KeptAfter
<1>8. ASSUME NEW key \in Keys, Calling(GetAll(key), ~ IsSettled(keys))
      PROVE  KeptAfter
  BY <1>8, GetAllKept DEF Calling
<1>9. CASE Calling(MdPopItem, LastIsHalfDeleted)
  BY <1>9, SoundWhenInvariant, PopItemKept DEF Calling
<1>10. CASE Calling(MdClear, FALSE)
  BY <1>10, SoundWhenInvariant, ClearKept DEF Calling
<1> QED
  BY <1>1, <1>2, <1>3, <1>4, <1>5, <1>6, <1>7, <1>8, <1>9, <1>10 DEF Between

\* An item that a bulk call takes from the multidict itself is an item.
LEMMA OwnItemSound ==
  ASSUME TableInvariant, OwnItem, ~ damaged'
  PROVE  TableInvariant'
<1> DEFINE i == Min(Ahead)
           e == keys.entries[i]
<1>1. IsSound(keys)
  BY DEF TableInvariant
<1>2. ~ Idle /\ Ahead # {} /\ e.key # NULL /\ BulkItem(e.key, e.value)
  BY DEF OwnItem
<1>3. i \in Live(keys)
  <2>1. Ahead \in SUBSET Nat /\ Ahead \in SUBSET Live(keys)
    BY <1>1, LiveFinite, SizeTypes DEF Ahead, IsSound
  <2> QED
    BY <1>2, <2>1, MinOfNaturals
<1> HIDE DEF i
<1>4. e.key \in Keys /\ e.value \in Values
  BY <1>1, <1>2, <1>3, EntryIsItem
<1> HIDE DEF e
<1> QED
  BY <1>2, <1>4, BulkItemSound

LEMMA ShapesKept ==
  /\ Shaped(NoBulk) /\ NoBulk.op = "none" /\ NoBulk.args = <<>>
  /\ \A op \in BulkOps : \A base, hint, log2, ver :
       LET b == [op |-> op, base |-> base, args |-> <<>>, hint |-> hint,
                 log2 |-> log2, version |-> ver]
       IN  Shaped(b) /\ b.op = op /\ b.args = <<>>
<1>1. Shaped(NoBulk) /\ NoBulk.op = "none" /\ NoBulk.args = <<>>
  BY DEF Shaped, NoBulk
<1>2. ASSUME NEW op \in BulkOps, NEW base, NEW hint, NEW log2, NEW ver,
             NEW b, b = [op |-> op, base |-> base, args |-> <<>>, hint |-> hint,
                         log2 |-> log2, version |-> ver]
      PROVE  Shaped(b) /\ b.op = op /\ b.args = <<>>
  BY <1>2 DEF Shaped
<1> QED
  BY <1>1, <1>2

\* What holds between the steps.
BulkInvariant ==
  /\ ~ damaged => TableInvariant /\ Identified(keys)
  /\ HistoryTyped /\ OwnKept /\ TakenKept

\* A step is taken from a state that is not damaged.
Undamaged ==
  /\ ~ damaged /\ TableInvariant /\ Identified(keys)
  /\ HistoryTyped /\ OwnKept /\ TakenKept

\* What a step does to the record of a bulk call.
LEMMA NoneBegun ==
  ASSUME bulk' = NoBulk, source' \in [own : BOOLEAN, pos : Nat]
  PROVE  HistoryTyped' /\ Idle'
<1>1. Shaped(bulk') /\ bulk'.op = "none" /\ bulk'.args = <<>>
  BY ShapesKept
<1>2. <<>> \in Seq(ItemType)
  OBVIOUS
<1> QED
  BY <1>1, <1>2 DEF HistoryTyped, Idle, Shaped

LEMMA OneBegun ==
  ASSUME NEW op \in BulkOps, NEW hint, BulkBegin(op, hint),
         source' \in [own : BOOLEAN, pos : Nat]
  PROVE  HistoryTyped' /\ bulk'.op = op /\ bulk'.args = <<>>
<1>1. Shaped(bulk') /\ bulk'.op = op /\ bulk'.args = <<>>
  BY ShapesKept DEF BulkBegin
<1>2. <<>> \in Seq(ItemType)
  OBVIOUS
<1> QED
  BY <1>1, <1>2 DEF HistoryTyped, Shaped

LEMMA MoreTaken ==
  ASSUME HistoryTyped, source' \in [own : BOOLEAN, pos : Nat],
         NEW args, bulk' = [bulk EXCEPT !.args = args],
         (source'.own /\ bulk.op # "none") \/ args \in Seq(ItemType)
  PROVE  HistoryTyped' /\ bulk'.op = bulk.op /\ bulk'.args = args
<1>1. Shaped(bulk') /\ bulk'.op = bulk.op /\ bulk'.args = args
  BY DEF HistoryTyped, Shaped
<1> QED
  BY <1>1 DEF HistoryTyped, Shaped, Idle

\* The steps of HashTable.
LEMMA PlainKept ==
  ASSUME Undamaged, Plain
  PROVE  BulkInvariant'
<1>1. /\ ~ damaged /\ TableInvariant /\ Identified(keys) /\ HistoryTyped /\ TakenKept
      /\ Next /\ source' = Elsewhere /\ damaged' = damaged /\ (Idle \/ ~ source.own)
  BY DEF Undamaged, Plain
<1>2. TableInvariant' /\ Identified(keys')
  BY <1>1, NextSound, NextIdentified
<1>3. source' \in [own : BOOLEAN, pos : Nat] /\ ~ source'.own
  BY <1>1 DEF Elsewhere
<1>4. OwnKept'
  BY <1>3 DEF OwnKept, OwnCall
<1>5. bulk.args \in Seq(ItemType)
  BY <1>1 DEF HistoryTyped
<1>6. CASE Idle /\ bulk' = bulk
  <2>1. HistoryTyped' /\ Idle'
    BY <1>1, <1>3, <1>5, <1>6 DEF HistoryTyped, Idle
  <2> QED
    BY <1>2, <1>4, <2>1 DEF BulkInvariant, TakenKept
<1>7. ASSUME Idle, NEW op \in BulkOps, NEW hint \in Hints, BulkBegin(op, hint)
      PROVE  BulkInvariant'
  <2>1. HistoryTyped' /\ bulk'.op = op /\ bulk'.args = <<>>
    BY <1>3, <1>7, OneBegun
  <2>2. hint \in Nat
    BY HashTableAssumption
  <2>3. IsSound(keys') /\ IsSettled(keys')
    BY <1>1, <1>7, <2>2, BeginKeeps
  <2>4. AllHaveKeys(keys')
    BY <2>3 DEF IsSettled, AllHaveKeys
  <2>5. TakenIsThere(op, <<>>, keys')
    BY <2>3, <2>4, NothingTaken
  <2> QED
    BY <1>2, <1>4, <2>1, <2>5 DEF BulkInvariant, TakenKept
<1>8. ASSUME ~ Idle, NEW key \in Keys, NEW value \in Values, BulkItem(key, value)
      PROVE  BulkInvariant'
  <2>1. PICK item : item = [key |-> key, value |-> value]
    OBVIOUS
  <2>2. item \in ItemType
    BY <2>1 DEF ItemType
  <2>3. PICK more : more = Append(bulk.args, item)
    OBVIOUS
  <2>4. more \in Seq(ItemType)
    BY <1>5, <2>2, <2>3
  <2>5. bulk' = [bulk EXCEPT !.args = more]
    BY <1>8, <2>1, <2>3 DEF BulkItem
  <2>6. HistoryTyped' /\ bulk'.op = bulk.op /\ bulk'.args = more
    BY <1>1, <1>3, <2>4, <2>5, MoreTaken
  <2>7. TakenIsThere(bulk.op, bulk.args, keys)
    BY <1>1, <1>8 DEF TakenKept
  <2>8. bulk'.args = Append(bulk.args, item)
    BY <2>3, <2>6
  <2>9. TakenIsThere(bulk.op, bulk'.args, keys')
    BY <1>1, <1>2, <1>5, <1>8, <2>1, <2>6, <2>7, <2>8, ItemTaken
  <2>10. TakenKept'
    BY <2>6, <2>9 DEF TakenKept
  <2> QED
    BY <1>2, <1>4, <2>6, <2>10 DEF BulkInvariant
<1>9. ASSUME ~ Idle, NEW status, BulkStop(status)
      PROVE  BulkInvariant'
  <2>1. HistoryTyped' /\ Idle'
    BY <1>3, <1>9, NoneBegun DEF BulkStop
  <2> QED
    BY <1>2, <1>4, <2>1 DEF BulkInvariant, TakenKept
<1> QED
  BY <1>1, <1>6, <1>7, <1>8, <1>9 DEF Next, BulkRefused, BulkEnd, BulkFail

\* A bulk call of the multidict itself.
LEMMA OwnBeginSteps ==
  ASSUME Undamaged, NEW op \in BulkOps, OwnBegin(op)
  PROVE  BulkInvariant'
<1>1. TableInvariant /\ ~ damaged /\ Identified(keys)
  BY DEF Undamaged
<1>2. /\ Idle /\ BulkBegin(op, used) /\ damaged' = damaged
      /\ source' \in [own : BOOLEAN, pos : Nat] /\ source'.own
  BY DEF OwnBegin
<1>3. used \in Nat
  BY <1>1, LiveFinite DEF TableInvariant, IsSound
<1>4. TableInvariant'
  BY <1>1, <1>2, <1>3, BulkBeginSound
<1>5. Identified(keys')
  BY <1>1, <1>2, <1>3, BeginKeeps, FromIdentified
<1>6. HistoryTyped'
  BY <1>2, OneBegun
<1>7. OwnKept'
  BY <1>1, OwnBeginKept
<1> QED
  BY <1>2, <1>4, <1>5, <1>6, <1>7 DEF BulkInvariant, TakenKept

LEMMA OwnItemSteps ==
  ASSUME Undamaged, OwnItem
  PROVE  BulkInvariant'
<1> DEFINE i == Min(Ahead)
           e == keys.entries[i]
<1>1. TableInvariant /\ Identified(keys) /\ HistoryTyped /\ OwnKept /\ IsSound(keys)
  BY DEF Undamaged, TableInvariant
<1>2. i \in Live(keys) /\ i \in Nat
  <2>1. Ahead \in SUBSET Nat /\ Ahead \in SUBSET Live(keys) /\ Ahead # {}
    BY <1>1, LiveFinite, SizeTypes DEF Ahead, IsSound, OwnItem
  <2> QED
    BY <2>1, MinOfNaturals
<1>3. ~ Idle /\ source.own /\ source' = [source EXCEPT !.pos = i + 1]
  BY DEF OwnItem
<1>4. \/ e.key # NULL /\ BulkItem(e.key, e.value)
      \/ /\ bulk' = [bulk EXCEPT !.args = Append(@, ItemAt(keys, i))]
         /\ damaged'
  BY DEF OwnItem
<1> HIDE DEF i
<1>5. source' \in [own : BOOLEAN, pos : Nat] /\ source'.own
  BY <1>1, <1>2, <1>3 DEF HistoryTyped
<1>6. HistoryTyped'
  <2>1. PICK args : bulk' = [bulk EXCEPT !.args = args]
    BY <1>4 DEF BulkItem
  <2> QED
    BY <1>1, <1>3, <1>5, <2>1, MoreTaken DEF Idle
<1>7. ~ damaged' => TableInvariant' /\ Identified(keys')
  <2> SUFFICES ASSUME ~ damaged' PROVE TableInvariant' /\ Identified(keys')
    OBVIOUS
  <2>1. TableInvariant'
    BY <1>1, OwnItemSound
  <2>2. e.key # NULL /\ BulkItem(e.key, e.value)
    BY <1>4
  <2>3. e.key \in Keys /\ e.value \in Values
    BY <1>1, <1>2, <2>2, EntryIsItem
  <2> HIDE DEF e
  <2>4. Identified(keys')
    BY <1>1, <2>2, <2>3, BulkItemFrom, KeysIdentified
  <2> QED
    BY <2>1, <2>4
<1>8. OwnKept'
  BY <1>1, OwnItemKept
<1> QED
  BY <1>5, <1>6, <1>7, <1>8 DEF BulkInvariant, TakenKept

LEMMA OwnEndSteps ==
  ASSUME Undamaged, OwnEnd
  PROVE  BulkInvariant'
<1>1. TableInvariant /\ Identified(keys) /\ HistoryTyped /\ ~ damaged
  BY DEF Undamaged
<1>2. PICK status : BulkStop(status)
  BY DEF OwnEnd, BulkEnd, BulkFail
<1>3. ~ Idle /\ source' = source /\ damaged' = damaged
  BY DEF OwnEnd
<1>4. TableInvariant'
  BY <1>1, <1>2, <1>3, BulkStopSound
<1>5. Identified(keys')
  <2>1. ~ Idle /\ (BulkEnd \/ BulkFail)
    BY <1>3 DEF OwnEnd
  <2>2. Next
    BY <2>1 DEF Next
  <2> QED
    BY <1>1, <2>2, NextIdentified
<1>6. HistoryTyped' /\ Idle'
  BY <1>1, <1>2, <1>3, NoneBegun DEF BulkStop, HistoryTyped
<1> QED
  BY <1>4, <1>5, <1>6 DEF BulkInvariant, TakenKept, OwnKept, OwnCall, Idle

\* A call in between.
LEMMA BetweenSteps ==
  ASSUME Undamaged, Between
  PROVE  BulkInvariant'
<1>1. /\ TableInvariant /\ Identified(keys) /\ HistoryTyped /\ ~ damaged /\ TakenKept
  BY DEF Undamaged
<1>2. /\ ~ Idle /\ ~ source.own /\ source' = source
      /\ bulk' = [bulk EXCEPT !.args = <<>>]
  BY DEF Between
<1>3. HistoryTyped' /\ bulk'.op = bulk.op /\ bulk'.args = <<>>
  <2>1. <<>> \in Seq(ItemType) /\ source' \in [own : BOOLEAN, pos : Nat]
    BY <1>1, <1>2 DEF HistoryTyped
  <2> QED
    BY <1>1, <1>2, <2>1, MoreTaken
<1>4. OwnKept'
  BY <1>2 DEF OwnKept, OwnCall
<1>5. CASE damaged'
  BY <1>3, <1>4, <1>5 DEF BulkInvariant, TakenKept
<1>6. CASE ~ damaged'
  <2>1. KeptAfter
    BY <1>1, <1>6, BetweenKept
  <2>2. TableInvariant'
    BY <1>1, <1>3, <2>1 DEF KeptAfter, TableInvariant
  <2>3. Identified(keys')
    BY <1>1, <2>1, FromIdentified DEF KeptAfter
  <2>4. bulk.op = "merge" => AllHaveKeys(keys')
    <3>1. bulk.op = "merge" => AllHaveKeys(keys)
      BY <1>1, <1>2 DEF TakenKept, TakenIsThere
    <3> QED
      BY <2>1, <3>1, FromIdentified DEF KeptAfter
  <2>5. TakenIsThere(bulk.op, <<>>, keys')
    BY <2>1, <2>4, NothingTaken DEF KeptAfter
  <2>6. TakenKept'
    BY <1>3, <2>5 DEF TakenKept
  <2> QED
    BY <1>3, <1>4, <2>2, <2>3, <2>6 DEF BulkInvariant
<1> QED
  BY <1>5, <1>6

\* Every step keeps it.
LEMMA BulkNextSound ==
  BulkInvariant /\ [BulkNext]_bulkVars => BulkInvariant'
<1> SUFFICES ASSUME BulkInvariant, [BulkNext]_bulkVars
             PROVE  BulkInvariant'
  OBVIOUS
<1>1. CASE UNCHANGED bulkVars
  BY <1>1 DEF bulkVars, vars, BulkInvariant, TableInvariant, HistoryTyped, OwnKept, OwnCall,
              TakenKept, Idle, Items
<1>2. CASE BulkNext
  <2>1. Undamaged
    BY <1>2 DEF BulkNext, BulkInvariant, Undamaged
  <2> QED
    BY <1>2, <2>1, PlainKept, OwnBeginSteps, OwnItemSteps, OwnEndSteps, BetweenSteps
       DEF BulkNext
<1> QED
  BY <1>1, <1>2

LEMMA BulkInitSound ==
  BulkInit => BulkInvariant
<1> SUFFICES ASSUME BulkInit PROVE BulkInvariant
  OBVIOUS
<1>1. Init /\ source = Elsewhere /\ ~ damaged
  BY DEF BulkInit
<1>2. TableInvariant /\ Identified(keys)
  BY <1>1, InitSound, InitListed DEF ListInvariant
<1>3. Shaped(bulk) /\ bulk.op = "extend" /\ bulk.args = <<>>
  BY <1>1 DEF Init, NoBulk, Shaped, BulkOps
<1>4. HistoryTyped
  <2>1. <<>> \in Seq(ItemType)
    OBVIOUS
  <2> QED
    BY <1>1, <1>3, <2>1 DEF HistoryTyped, Elsewhere
<1>5. TakenKept
  <2>1. TakenIsThere("extend", <<>>, keys)
    BY <1>2, NothingTaken DEF TableInvariant
  <2> QED
    BY <1>3, <2>1 DEF TakenKept
<1> QED
  BY <1>1, <1>2, <1>4, <1>5 DEF BulkInvariant, OwnKept, OwnCall, Elsewhere

-----------------------------------------------------------------------------

\* Whatever is called between two items of a bulk call, nested bulk calls
\* included, the table stays sound and its items counted, and no mark is left
\* in the end: unless a call disturbs the marks, as SoundInBetween says.
THEOREM AlwaysSoundInBetween == BulkSpec => []SoundInBetween
<1>1. BulkInvariant => SoundInBetween
  BY DEF BulkInvariant, TableInvariant, SoundInBetween, Idle
<1> QED
  BY <1>1, BulkInitSound, BulkNextSound, PTL DEF BulkSpec

\* merge() of a multidict into itself changes nothing, nor does update() when
\* its items have different keys.
THEOREM OwnItemsAlwaysStay == BulkSpec => []OwnItemsStay
<1>1. BulkInvariant => OwnItemsStay
  BY DEF BulkInvariant, OwnKept, OwnCall, OwnItemsStay, IdentitiesOf
<1> QED
  BY <1>1, BulkInitSound, BulkNextSound, PTL DEF BulkSpec

-----------------------------------------------------------------------------
(* The end of a bulk call.                                                 *)

\* What was taken is there when the marks are settled.
ArePresent(op, args, items) ==
  \A n \in DOMAIN args :
    IF op = "merge"
      THEN \E m \in DOMAIN items : IdentityOf[items[m].key] = IdentityOf[args[n].key]
      ELSE Occurs(args, args[n]) <= Occurs(items, args[n])

\* After an extend() the items are those the entries hold.
LEMMA PresentUnmarked ==
  ASSUME NEW ks, IsSound(ks), NEW args \in Seq(ItemType), TakenIsThere("extend", args, ks)
  PROVE  ArePresent("extend", args, ItemsOf(ks))
<1>1. \A x \in ItemType : Occurs(args, x) <= Cardinality(Holders(ks, x, FALSE))
  BY DEF TakenIsThere
<1>2. \A n \in DOMAIN args : args[n] \in ItemType
  OBVIOUS
<1> QED
  BY <1>1, <1>2, ItemsHeld DEF ArePresent

\* An update leaves an item wherever it has marked one.
LEMMA PresentMarked ==
  ASSUME NEW ks, IsSound(ks), NEW new, IsSound(new), Settled(new, ks),
         NEW args \in Seq(ItemType), TakenIsThere("update", args, ks)
  PROVE  ArePresent("update", args, ItemsOf(new))
<1>1. \A x \in ItemType : Occurs(args, x) <= Cardinality(Holders(ks, x, TRUE))
  BY DEF TakenIsThere
<1>2. ASSUME NEW x \in ItemType PROVE Occurs(args, x) <= Occurs(ItemsOf(new), x)
  <2>1. PICK old : old = Holders(ks, x, TRUE)
    OBVIOUS
  <2>2. PICK now : now = Holders(new, x, FALSE)
    OBVIOUS
  <2>3. old \subseteq now
    <3> SUFFICES ASSUME NEW i \in old PROVE i \in now
      OBVIOUS
    <3>1. i \in Live(ks) /\ ks.entries[i] \in Entry /\ ItemOf(ks.entries[i]) = x
      BY <2>1 DEF Holders, Holding
    <3>2. x.key # NULL
      BY ConstantsAssumption DEF ItemType
    <3>3. ks.entries[i].key = x.key
      BY <3>1 DEF ItemOf
    <3>4. i \in Live(new)
      BY <3>1, <3>2, <3>3 DEF Settled
    <3>5. new.entries[i] \in Entry
      BY <3>4, LiveEntry
    <3>6. ItemOf(new.entries[i]) = ItemOf(ks.entries[i])
      BY <3>4 DEF Settled, ItemOf
    <3> QED
      BY <2>2, <3>1, <3>4, <3>5, <3>6 DEF Holders, Holding
  <2>4. /\ IsFiniteSet(now) /\ Cardinality(now) \in Nat
        /\ Occurs(ItemsOf(new), x) = Cardinality(now)
    BY <2>2, HoldersListed, ItemsHeld
  <2>5. Cardinality(old) <= Cardinality(now) /\ Cardinality(old) \in Nat
    BY <2>3, <2>4, FS_Subset, FS_CardinalityType
  <2>6. Occurs(args, x) \in Nat
    <3>1. Occurs(args, x) = CountOf(args, {x}) /\ CountOf(args, {x}) \in Nat
      BY OccursCount, CountAppended
    <3> QED
      BY <3>1
  <2>7. Occurs(args, x) <= Cardinality(old)
    BY <1>1, <2>1
  <2> QED
    BY <2>4, <2>5, <2>6, <2>7
<1>3. \A n \in DOMAIN args : args[n] \in ItemType
  OBVIOUS
<1> QED
  BY <1>2, <1>3 DEF ArePresent

\* A merge leaves every entry.
LEMMA PresentMerged ==
  ASSUME NEW ks, IsSound(ks), NEW new, IsSound(new), IsSettled(new), Identified(new),
         Settled(new, ks), NEW args, TakenIsThere("merge", args, ks)
  PROVE  ArePresent("merge", args, ItemsOf(new))
<1> SUFFICES ASSUME NEW n \in DOMAIN args
             PROVE  \E m \in DOMAIN ItemsOf(new) :
                      IdentityOf[ItemsOf(new)[m].key] = IdentityOf[args[n].key]
  BY DEF ArePresent
<1>1. /\ AllHaveKeys(ks)
      /\ \E i \in Live(ks) : ks.entries[i].identity = IdentityOf[args[n].key]
  BY DEF TakenIsThere
<1>2. PICK i \in Live(ks) : ks.entries[i].identity = IdentityOf[args[n].key]
  BY <1>1
<1>3. i \in Live(new) /\ new.entries[i].identity = IdentityOf[args[n].key]
  BY <1>1, <1>2 DEF AllHaveKeys, Settled
<1>4. IdentityOf[new.entries[i].key] = IdentityOf[args[n].key]
  BY <1>3 DEF IsSettled, Identified
<1>5. PICK list : list = EntryList(new)
  OBVIOUS
<1>6. PICK m \in DOMAIN list : list[m] = new.entries[i]
  BY <1>3, <1>5, LiveListed
<1>7. ItemsOf(new) = ListItems(list)
  BY <1>5, ItemsOfList
<1>8. m \in DOMAIN ItemsOf(new) /\ ItemsOf(new)[m].key = new.entries[i].key
  BY <1>6, <1>7 DEF ListItems, ItemOf
<1> QED
  BY <1>4, <1>8

LEMMA StopPresent ==
  ASSUME TableInvariant, Identified(keys), ~ Idle, NEW status, BulkStop(status),
         bulk.args \in Seq(ItemType), TakenIsThere(bulk.op, bulk.args, keys)
  PROVE  ArePresent(bulk.op, bulk.args, Items')
<1>1. IsSound(keys) /\ bulk.op \in BulkOps
  BY DEF TableInvariant, Idle
<1>2. CASE bulk.op = "extend"
  <2>1. Items' = ItemsOf(keys)
    BY <1>2 DEF BulkStop, Items
  <2> QED
    BY <1>1, <1>2, <2>1, PresentUnmarked
<1>3. CASE bulk.op # "extend"
  <2>1. keys' = md_post_update(keys)
    BY <1>3 DEF BulkStop
  <2>2. IsSound(keys') /\ IsSettled(keys') /\ Settled(keys', keys)
    BY <1>1, <2>1, PostUpdateSound
  <2>3. Identified(keys')
    BY <2>2 DEF Settled, Identified
  <2>4. Items' = ItemsOf(keys')
    BY DEF Items
  <2>5. CASE bulk.op = "update"
    BY <1>1, <2>2, <2>4, <2>5, PresentMarked
  <2>6. CASE bulk.op = "merge"
    BY <1>1, <2>2, <2>3, <2>4, <2>6, PresentMerged
  <2> QED
    BY <1>1, <1>3, <2>5, <2>6 DEF BulkOps
<1> QED
  BY <1>2, <1>3

\* What a bulk call has taken since the last call in between is there in its
\* end, as often as it was taken, and of a merge() an item of its key.
THEOREM TakenAlwaysPresent == BulkSpec => TakenArePresent
<1> DEFINE Kept ==
      ~ Idle /\ Idle' /\ ~ source.own => ArePresent(bulk.op, bulk.args, Items')
<1>1. BulkInvariant /\ [BulkNext]_bulkVars => Kept
  <2> SUFFICES ASSUME BulkInvariant, [BulkNext]_bulkVars, ~ Idle, Idle', ~ source.own
               PROVE  ArePresent(bulk.op, bulk.args, Items')
    OBVIOUS
  <2>1. BulkNext
    BY DEF bulkVars, vars, Idle
  <2>2. /\ ~ damaged /\ TableInvariant /\ Identified(keys)
        /\ bulk.args \in Seq(ItemType) /\ Shaped(bulk)
        /\ TakenIsThere(bulk.op, bulk.args, keys)
    BY <2>1 DEF BulkNext, BulkInvariant, HistoryTyped, TakenKept
  <2>3. ASSUME NEW key, NEW value, BulkItem(key, value) PROVE FALSE
    <3>1. bulk'.op = bulk.op
      BY <2>2, <2>3 DEF BulkItem, Shaped
    <3> QED
      BY <3>1 DEF Idle
  <2>4. ~ Between
    <3>1. SUFFICES ASSUME Between PROVE FALSE
      OBVIOUS
    <3>2. bulk'.op = bulk.op
      BY <2>2, <3>1 DEF Between, Shaped
    <3> QED
      BY <3>2 DEF Idle
  <2>5. Next
    BY <2>1, <2>4 DEF BulkNext, Plain, OwnBegin, OwnItem, OwnEnd
  <2>6. PICK status : BulkStop(status)
    BY <2>3, <2>5 DEF Next, BulkEnd, BulkFail
  <2> QED
    BY <2>2, <2>6, StopPresent
<1>2. Kept => (~ Idle /\ Idle' /\ ~ source.own =>
       \A n \in DOMAIN bulk.args :
         IF bulk.op = "merge"
           THEN \E m \in DOMAIN Items' :
                  IdentityOf[Items'[m].key] = IdentityOf[bulk.args[n].key]
           ELSE Occurs(bulk.args, bulk.args[n]) <= Occurs(Items', bulk.args[n]))
  BY DEF ArePresent
<1> HIDE DEF Kept
<1> QED
  BY <1>1, <1>2, BulkInitSound, BulkNextSound, PTL DEF BulkSpec, TakenArePresent
=============================================================================
