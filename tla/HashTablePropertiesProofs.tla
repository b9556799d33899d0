----------------------- MODULE HashTablePropertiesProofs -----------------------
(***************************************************************************)
(* What follows from TableInvariant (HashTableProofs).                     *)
(*                                                                         *)
(* First the types: TableInvariant types the table and its counter, and    *)
(* what remains is the version, what a call returns and the history of a   *)
(* bulk call.                                                              *)
(*                                                                         *)
(* Then what needs the order of the table as part of the invariant: items  *)
(* of one identity are met in the order of their additions, the code's own *)
(* consistency checks hold at every step, and what getall() and getone()   *)
(* return is what the entries hold.                                        *)
(*                                                                         *)
(* Then the sizes: an estimate is large enough and not too large, a table  *)
(* that grows doubles, and one that was reserved is not rebuilt.           *)
(*                                                                         *)
(* Last what the calls leave behind in a table that may hold the marks of  *)
(* an update or a search under way: where its entries come from, and that  *)
(* no call adds a mark.  The proofs about bulk calls and about views rest  *)
(* on it.                                                                  *)
(***************************************************************************)
EXTENDS HashTableProofs, SequenceTheorems

ItemType == [key : Keys, value : Values]

-----------------------------------------------------------------------------
(* What is read from a table.                                              *)

\* A live entry that is not half deleted is an item.
LEMMA EntryIsItem ==
  ASSUME NEW ks, IsSound(ks), NEW i \in Live(ks), ks.entries[i].key # NULL
  PROVE  /\ ks.entries[i].key \in Keys
         /\ ks.entries[i].value \in Values
         /\ ItemAt(ks, i) \in ItemType
<1>1. /\ ks.entries[i] \in Entry
      /\ ks.entries[i].value # NULL
  BY LiveEntry
<1>2. ks.entries[i].key \in Keys /\ ks.entries[i].value \in Values
  BY <1>1 DEF Entry
<1> QED
  BY <1>2 DEF ItemAt, ItemType

\* The items of a settled table are a list of items.
LEMMA ItemsTyped ==
  ASSUME NEW ks, IsSound(ks), IsSettled(ks)
  PROVE  ItemsOf(ks) \in Seq(ItemType)
<1> DEFINE n == Cardinality(Live(ks))
<1>1. n \in Nat
  BY LiveFinite DEF IsSound
<1>2. ASSUME NEW m \in 1..n PROVE ItemAt(ks, NthLive(ks, m - 1)) \in ItemType
  <2>1. m - 1 \in 0..(n - 1)
    BY <1>1
  <2>2. NthLive(ks, m - 1) \in Live(ks)
    BY <2>1, NthLiveIsLive DEF IsSound
  <2> QED
    BY <2>2, EntryIsItem DEF IsSettled
<1>3. ItemsOf(ks) = [m \in 1..n |-> ItemAt(ks, NthLive(ks, m - 1))]
  BY DEF ItemsOf
<1> HIDE DEF n
<1>4. ItemsOf(ks) \in [1..n -> ItemType]
  BY <1>2, <1>3
<1> QED
  BY <1>1, <1>4

\* getone() of a key that is there returns a value.
LEMMA GetOneTyped ==
  ASSUME NEW ks, IsSound(ks), IsSettled(ks), NEW key \in Keys, md_contains(ks, key)
  PROVE  md_get_one(ks, key) \in Values
<1> DEFINE id == IdentityOf[key]
           i == ks.indices[FirstMatch(ks, HashOf[id], id)]
<1>1. id \in Identities
  BY HashTableAssumption
<1>2. md_get_one(ks, key) = ks.entries[i].value
  BY DEF md_get_one, hash_of
<1>3. Matches(ks, HashOf[id], id) # {}
  BY DEF md_contains, hash_of
<1> HIDE DEF id
<1>4. i \in Live(ks)
  BY <1>1, <1>3, MatchesAreLive
<1> HIDE DEF i
<1> QED
  BY <1>2, <1>4, EntryIsItem DEF IsSettled

-----------------------------------------------------------------------------
(* getall().                                                               *)

\* The tables a finder can have made of ks: entries of its identity have
\* been marked, and nothing else has changed.
Finding(ks, identity) ==
  {t \in {Rewritten(ks, es) : es \in [EntryIndices(ks.log2_size) -> Entry]} :
     /\ IsSound(t) /\ Live(t) = Live(ks)
     /\ \A i \in EntryIndices(ks.log2_size) : t.entries[i] # ks.entries[i] =>
          /\ t.entries[i] = [ks.entries[i] EXCEPT !.hash = MARK]
          /\ i \in Live(ks) /\ ks.entries[i].identity = identity}

Finders(ks, key) ==
  [keys : Finding(ks, IdentityOf[key]), step : Nat, list : Seq(Values),
   hash : {hash_of(key)}, identity : {IdentityOf[key]}]

\* A finder takes no key from an entry.
LEMMA FindingKeepsKeys ==
  ASSUME NEW ks, IsSound(ks), NEW id, NEW t \in Finding(ks, id), NEW i \in Live(t)
  PROVE  /\ t.entries[i].identity = ks.entries[i].identity
         /\ IsSettled(ks) => t.entries[i].key # NULL
<1>1. i \in Live(ks) /\ i \in EntryIndices(ks.log2_size) /\ ks.entries[i] \in Entry
  BY LiveFinite, LiveEntry DEF Finding, IsSound
<1>2. IsSettled(ks) => ks.entries[i].key # NULL
  BY <1>1 DEF IsSettled
<1>3. \A e \in Entry : /\ [e EXCEPT !.hash = MARK].key = e.key
                       /\ [e EXCEPT !.hash = MARK].identity = e.identity
  BY DEF Entry
<1> QED
  BY <1>1, <1>2, <1>3 DEF Finding

\* Marking an entry leaves such a table.
LEMMA MarkingKept ==
  ASSUME NEW ks, IsSound(ks), IsSettled(ks), NEW id, NEW t \in Finding(ks, id),
         NEW i \in Live(t), t.entries[i].identity = id
  PROVE  [t EXCEPT !.entries[i].hash = MARK] \in Finding(ks, id)
<1> DEFINE k == ks.log2_size
           es == [t.entries EXCEPT ![i] = [@ EXCEPT !.hash = MARK]]
           new == Rewritten(t, es)
<1>1. /\ IsHtKeys(ks) /\ IsSound(t) /\ Live(t) = Live(ks) /\ IsHtKeys(t)
      /\ \A j \in Live(t) : t.entries[j].key # NULL
      /\ ks.entries[i].identity = id
  <2>1. IsHtKeys(ks) /\ IsSound(t) /\ Live(t) = Live(ks) /\ IsHtKeys(t)
    BY DEF Finding, IsSound
  <2>2. \A j \in Live(t) : /\ t.entries[j].key # NULL
                          /\ t.entries[j].identity = ks.entries[j].identity
    BY FindingKeepsKeys
  <2> QED
    BY <2>1, <2>2
<1>2. PICK old \in [EntryIndices(k) -> Entry] : t = Rewritten(ks, old)
  BY DEF Finding
<1>3. /\ t.log2_size = k /\ t.entries = old
      /\ \A j \in Live(t) : j \in EntryIndices(k)
      /\ ks.entries \in [EntryIndices(k) -> Entry]
  <2>1. t.log2_size = k /\ t.entries = old
    BY <1>1, <1>2 DEF Rewritten, IsHtKeys
  <2> QED
    BY <1>1, <2>1, LiveFinite DEF IsHtKeys
<1>4. [t EXCEPT !.entries[i].hash = MARK] = new
  BY DEF Rewritten
<1>5. \A e \in Entry : /\ [e EXCEPT !.hash = MARK] \in Entry
                       /\ [e EXCEPT !.hash = MARK].identity = e.identity
                       /\ [e EXCEPT !.hash = MARK].key = e.key
                       /\ [e EXCEPT !.hash = MARK].value = e.value
                       /\ [e EXCEPT !.hash = MARK].hash = MARK
                       /\ [[e EXCEPT !.hash = MARK] EXCEPT !.hash = MARK]
                            = [e EXCEPT !.hash = MARK]
  BY DEF Entry
<1>6. /\ es \in [EntryIndices(k) -> Entry]
      /\ es[i] = [old[i] EXCEPT !.hash = MARK]
      /\ \A j \in EntryIndices(k) : j # i => es[j] = old[j]
  BY <1>3, <1>5
<1> HIDE DEF es
<1>7. ASSUME NEW j \in EntryIndices(k)
      PROVE  /\ es[j].identity = old[j].identity
             /\ es[j].key = old[j].key
             /\ es[j].value = old[j].value
             /\ es[j].hash \in {old[j].hash, MARK}
  <2>1. CASE j = i
    <3>1. old[i] \in Entry
      BY <1>3
    <3> QED
      BY <1>5, <1>6, <2>1, <3>1
  <2>2. CASE j # i
    BY <1>6, <2>2
  <2> QED
    BY <2>1, <2>2
<1>8. IsSound(new) /\ Live(new) = Live(t)
  <2>1. \A j \in Live(t) : /\ es[j].hash \in {HashOf[es[j].identity], MARK}
                           /\ es[j].key = NULL => es[j].hash # MARK
                           /\ es[j].key = NULL <=> es[j].value = NULL
    BY <1>1, <1>3, <1>7, LiveEntry
  <2> QED
    BY <1>1, <1>3, <1>6, <1>7, <2>1, RewriteSound
<1>9. new = Rewritten(ks, es) /\ new.entries = es
  BY <1>1, <1>2 DEF Rewritten, IsHtKeys
<1>10. ASSUME NEW j \in EntryIndices(k), es[j] # ks.entries[j]
       PROVE  /\ es[j] = [ks.entries[j] EXCEPT !.hash = MARK]
              /\ j \in Live(ks) /\ ks.entries[j].identity = id
  <2>1. old[j] # ks.entries[j] =>
          /\ old[j] = [ks.entries[j] EXCEPT !.hash = MARK]
          /\ j \in Live(ks) /\ ks.entries[j].identity = id
    BY <1>3 DEF Finding
  <2>2. CASE j = i
    <3>1. ks.entries[i] \in Entry
      BY <1>3
    <3>2. es[i] = [ks.entries[i] EXCEPT !.hash = MARK]
      BY <1>5, <1>6, <2>1, <2>2, <3>1
    <3> QED
      BY <1>1, <2>2, <3>2
  <2>3. CASE j # i
    BY <1>6, <1>10, <2>1, <2>3
  <2> QED
    BY <2>2, <2>3
<1> HIDE DEF new
<1>11. new \in Finding(ks, id)
  <2>1. Live(new) = Live(ks) /\ new.entries = es /\ k = ks.log2_size
    BY <1>1, <1>8, <1>9
  <2>2. new \in {Rewritten(ks, e) : e \in [EntryIndices(k) -> Entry]}
    BY <1>6, <1>9
  <2> QED
    BY <1>8, <1>10, <2>1, <2>2 DEF Finding
<1> QED
  BY <1>4, <1>11

\* What md_finder_cleanup leaves is the table before the search.
LEMMA CleanupRestores ==
  ASSUME NEW ks, IsSound(ks), IsSettled(ks), NEW id \in Identities,
         NEW t \in Finding(ks, id)
  PROVE  md_finder_cleanup(t, HashOf[id]) = ks
<1> DEFINE k == ks.log2_size
           hash == HashOf[id]
           path == {IndexAt(t, hash, n) : n \in 0..(PathLength(t, hash) - 1)}
           clean(i) == IF i \in path /\ t.entries[i].hash = MARK
                         THEN [t.entries[i] EXCEPT !.hash = hash] ELSE t.entries[i]
<1>1. /\ IsHtKeys(ks) /\ IsSound(t) /\ Live(t) = Live(ks)
      /\ ks.entries \in [EntryIndices(k) -> Entry]
      /\ \A i \in EntryIndices(k) : t.entries[i] # ks.entries[i] =>
           /\ t.entries[i] = [ks.entries[i] EXCEPT !.hash = MARK]
           /\ i \in Live(ks) /\ ks.entries[i].identity = id
  BY DEF Finding, IsSound, IsHtKeys
<1>2. PICK old \in [EntryIndices(k) -> Entry] : t = Rewritten(ks, old)
  BY DEF Finding
<1>3. t.entries = old /\ hash \in Hashes
  BY <1>1, <1>2 DEF Rewritten, IsHtKeys, Hashes
<1>4. \A e \in Entry : /\ [e EXCEPT !.hash = MARK].hash = MARK
                       /\ [e EXCEPT !.hash = MARK].identity = e.identity
                       /\ [[e EXCEPT !.hash = MARK] EXCEPT !.hash = e.hash] = e
  BY DEF Entry
<1>5. md_finder_cleanup(t, hash)
        = Rewritten(ks, [i \in EntryIndices(k) |-> clean(i)])
  <2>1. md_finder_cleanup(t, hash)
          = [t EXCEPT !.entries = [i \in DOMAIN t.entries |-> clean(i)]]
    BY DEF md_finder_cleanup
  <2> HIDE DEF clean
  <2>2. DOMAIN t.entries = EntryIndices(k)
    BY <1>3
  <2> QED
    BY <1>2, <2>1, <2>2 DEF Rewritten
<1> HIDE DEF hash
<1>6. ASSUME NEW i \in EntryIndices(k) PROVE clean(i) = ks.entries[i]
  <2>0. ks.entries[i] \in Entry
    BY <1>1
  <2>1. CASE t.entries[i] = ks.entries[i]
    <3>1. ~ (i \in path /\ t.entries[i].hash = MARK)
      <4> SUFFICES ASSUME NEW n \in 0..(PathLength(t, hash) - 1),
                          i = IndexAt(t, hash, n), ks.entries[i].hash = MARK
                   PROVE  FALSE
        BY <2>1
      <4>1. i >= 0
        BY <1>1, SizeTypes DEF EntryIndices, IsHtKeys
      <4>2. i \in Live(ks)
        BY <1>1, <1>3, <4>1, PathIsLive
      <4> QED
        BY <4>2 DEF IsSettled
    <3> QED
      BY <2>1, <3>1
  <2>2. CASE t.entries[i] # ks.entries[i]
    <3>1. /\ t.entries[i] = [ks.entries[i] EXCEPT !.hash = MARK]
          /\ i \in Live(ks) /\ ks.entries[i].identity = id
      BY <1>1, <2>2
    <3>2. ks.entries[i].hash = hash
      BY <3>1, LiveEntry DEF IsSettled, hash
    <3>3. t.entries[i].identity = id /\ t.entries[i].hash = MARK
      BY <1>4, <2>0, <3>1
    <3>4. i \in path
      <4>1. \E n \in 0..(PathLength(t, hash) - 1) : IndexAt(t, hash, n) = i
        BY <1>1, <3>1, <3>3, LiveOnPath DEF hash
      <4> QED
        BY <4>1
    <3>5. clean(i) = [t.entries[i] EXCEPT !.hash = hash]
      BY <3>3, <3>4
    <3> HIDE DEF clean
    <3> QED
      BY <1>4, <2>0, <3>1, <3>2, <3>5
  <2> QED
    BY <2>1, <2>2
<1> HIDE DEF clean
<1>7. [i \in EntryIndices(k) |-> clean(i)] = ks.entries
  BY <1>1, <1>6
<1>8. Rewritten(ks, ks.entries) = ks
  BY <1>1 DEF Rewritten, IsHtKeys
<1> QED
  BY <1>5, <1>7, <1>8 DEF hash

\* Each call of md_find_next leaves a finder that has collected values.
LEMMA FindNextTyped ==
  ASSUME NEW ks, IsSound(ks), IsSettled(ks), NEW key \in Keys, NEW find \in Finders(ks, key)
  PROVE  md_find_next(find) \in Finders(ks, key)
<1> DEFINE t == find.keys
           hash == find.hash
           id == find.identity
           ahead == {n \in Matches(t, hash, id) : n >= find.step}
           n == Min(ahead)
           i == IndexAt(t, hash, n)
           found == [find EXCEPT !.step = n,
                                 !.list = Append(@, t.entries[i].value),
                                 !.keys.entries[i].hash = MARK]
<1>1. md_find_next(find) = IF ahead = {} THEN find ELSE found
  BY DEF md_find_next
<1>2. /\ t \in Finding(ks, id) /\ IsSound(t)
      /\ \A j \in Live(t) : t.entries[j].key # NULL
      /\ find.step \in Nat /\ find.list \in Seq(Values)
      /\ hash = hash_of(key) /\ id = IdentityOf[key]
  <2>1. /\ t \in Finding(ks, id)
        /\ find.step \in Nat /\ find.list \in Seq(Values)
        /\ hash = hash_of(key) /\ id = IdentityOf[key]
    BY DEF Finders
  <2>2. IsSound(t)
    BY <2>1 DEF Finding
  <2>3. \A j \in Live(t) : t.entries[j].key # NULL
    BY <2>1, FindingKeepsKeys
  <2> QED
    BY <2>1, <2>2, <2>3
<1>3. id \in Identities /\ hash = HashOf[id]
  BY <1>2, HashTableAssumption DEF hash_of
<1>4. ASSUME ahead # {} PROVE n \in Nat /\ i \in Live(t) /\ t.entries[i].identity = id
  <2>1. ahead \in SUBSET Nat
    <3>1. Matches(t, hash, id) \in SUBSET Nat
      <4>1. PathLength(t, hash) \in 0..ProbeSteps(t.log2_size)
        BY <1>2, <1>3, NeverFull, EmptySlotFound DEF Hashes
      <4>2. ProbeSteps(t.log2_size) \in Nat
        BY <1>2, NeverFull, SizeTypes
      <4> QED
        BY <4>1, <4>2 DEF Matches
    <3> QED
      BY <3>1
  <2> HIDE DEF ahead
  <2>2. n \in ahead
    BY <1>4, <2>1, MinOfNaturals
  <2> HIDE DEF n
  <2>3. n \in Matches(t, hash, id)
    BY <2>2 DEF ahead
  <2>4. SlotAt(t, hash, n) \in MatchingSlots(t, hash, id)
    BY <2>3 DEF MatchingSlots
  <2>5. /\ t.indices[SlotAt(t, hash, n)] \in Live(t)
        /\ t.entries[t.indices[SlotAt(t, hash, n)]].identity = id
    BY <1>2, <1>3, <2>4, MatchesAreLive
  <2> QED
    BY <2>1, <2>2, <2>5 DEF IndexAt
<1> HIDE DEF ahead, n, i
<1>5. ASSUME ahead # {} PROVE found \in Finders(ks, key)
  <2> DEFINE marked == [t EXCEPT !.entries[i].hash = MARK]
             list == Append(find.list, t.entries[i].value)
  <2>1. marked \in Finding(ks, id)
    BY <1>2, <1>4, <1>5, MarkingKept
  <2>2. list \in Seq(Values)
    BY <1>2, <1>4, <1>5, EntryIsItem
  <2>3. found = [find EXCEPT !.step = n, !.list = list, !.keys = marked]
    BY DEF Finders
  <2>4. marked \in Finding(ks, IdentityOf[key])
    BY <1>2, <2>1
  <2> HIDE DEF marked, list, found, t, hash, id
  <2> QED
    BY <1>4, <1>5, <2>2, <2>3, <2>4 DEF Finders
<1> QED
  BY <1>1, <1>5

FirstFinder(ks, key) ==
  [keys |-> ks, step |-> 0, list |-> <<>>,
   hash |-> hash_of(key), identity |-> IdentityOf[key]]

\* getall() calls md_find_next as often as the table has entries, and once
\* more: each finder is the next one of the last, and the values and the table
\* are those of the last finder.
LEMMA GetAllRun ==
  ASSUME NEW ks, IsSound(ks), IsSettled(ks), NEW key \in Keys
  PROVE  \E g : /\ g[0] = FirstFinder(ks, key)
                /\ \A c \in 0..ks.nentries : g[c + 1] = md_find_next(g[c])
                /\ \A c \in 0..(ks.nentries + 1) : g[c] \in Finders(ks, key)
                /\ md_get_all(ks, key).list = g[ks.nentries + 1].list
                /\ md_get_all(ks, key).keys =
                     IF g[ks.nentries + 1].list = <<>> THEN ks
                     ELSE md_finder_cleanup(g[ks.nentries + 1].keys, hash_of(key))
<1> DEFINE n == ks.nentries + 1
           T == Finders(ks, key)
           t0 == FirstFinder(ks, key)
           step == [p \in T \X (1..n) |-> md_find_next(p[1])]
<1>1. n \in Nat
  BY LiveFinite, SizeTypes DEF IsSound
<1>2. t0 \in T
  <2>1. ks.entries \in [EntryIndices(ks.log2_size) -> Entry]
    BY DEF IsSound, IsHtKeys
  <2>2. ks = Rewritten(ks, ks.entries)
    BY DEF Rewritten, IsSound, IsHtKeys
  <2>3. ks \in Finding(ks, IdentityOf[key])
    BY <2>1, <2>2 DEF Finding
  <2>4. <<>> \in Seq(Values)
    OBVIOUS
  <2> QED
    BY <2>3, <2>4 DEF Finders, FirstFinder
<1> HIDE DEF n, t0
<1>3. \A find \in T : md_find_next(find) \in T
  BY FindNextTyped
<1> HIDE DEF T
<1>4. step \in [T \X (1..n) -> T]
  BY <1>3
<1>5. PICK f : IsRun(f, n, T, t0, step)
  <2> HIDE DEF step
  <2> QED
    BY <1>1, <1>2, <1>4, BoundedRecursion
<1>6. f = [c \in 0..n |-> IF c = 0 THEN t0 ELSE md_find_next(f[c - 1])]
  <2>1. ASSUME NEW c \in 1..n PROVE f[c] = md_find_next(f[c - 1])
    <3>1. f \in [0..n -> T] /\ f[c] = step[<<f[c - 1], c>>]
      BY <1>5 DEF IsRun
    <3>2. <<f[c - 1], c>> \in T \X (1..n)
      BY <1>1, <3>1
    <3> QED
      BY <3>1, <3>2
  <2>2. f[0] = t0 /\ f = [c \in 0..n |-> f[c]]
    BY <1>5 DEF IsRun
  <2>3. \A c \in 0..n : c # 0 => c \in 1..n
    BY <1>1
  <2> HIDE DEF step
  <2>4. \A c \in 0..n : f[c] = IF c = 0 THEN t0 ELSE md_find_next(f[c - 1])
    BY <2>1, <2>2, <2>3, Zenon
  <2> QED
    BY <2>2, <2>4
<1>7. PICK g : /\ g = [c \in 0..n |-> IF c = 0 THEN t0 ELSE md_find_next(g[c - 1])]
               /\ md_get_all(ks, key).list = g[n].list
               /\ md_get_all(ks, key).keys =
                    IF g[n].list = <<>> THEN ks
                    ELSE md_finder_cleanup(g[n].keys, hash_of(key))
  <2> DEFINE h == CHOOSE h : h = [c \in 0..n |-> IF c = 0 THEN t0
                                                ELSE md_find_next(h[c - 1])]
  <2>1. h = [c \in 0..n |-> IF c = 0 THEN t0 ELSE md_find_next(h[c - 1])]
    BY <1>6, Zenon
  <2>2. /\ md_get_all(ks, key).list = h[n].list
        /\ md_get_all(ks, key).keys =
             IF h[n].list = <<>> THEN ks
             ELSE md_finder_cleanup(h[n].keys, hash_of(key))
    BY DEF md_get_all, n, t0, FirstFinder
  <2> QED
    BY <2>1, <2>2, Zenon
<1> DEFINE S == {c \in 0..n : g[c] \in T}
<1>8. \A c \in 0..(n - 1) : g[c + 1] = md_find_next(g[c])
  <2> SUFFICES ASSUME NEW c \in 0..(n - 1) PROVE g[c + 1] = md_find_next(g[c])
    OBVIOUS
  <2>1. c + 1 \in 0..n /\ c + 1 # 0 /\ (c + 1) - 1 = c
    BY <1>1
  <2> QED
    BY <1>7, <2>1
<1>9. 0 \in S /\ g[0] = t0
  BY <1>1, <1>2, <1>7
<1>10. \A c \in 0..(n - 1) : c \in S => c + 1 \in S
  <2> SUFFICES ASSUME NEW c \in 0..(n - 1), c \in S PROVE c + 1 \in S
    OBVIOUS
  <2>1. c + 1 \in 0..n /\ g[c + 1] = md_find_next(g[c])
    BY <1>1, <1>8
  <2> QED
    BY <1>3, <2>1
<1>11. \A c \in 0..n : g[c] \in T
  <2> HIDE DEF S
  <2>1. 0..n \subseteq S
    BY <1>1, <1>9, <1>10, BoundedInduction
  <2> QED
    BY <2>1 DEF S
<1>12. 0..(n - 1) = 0..ks.nentries
  BY LiveFinite, SizeTypes DEF n, IsSound
<1> QED
  BY <1>7, <1>8, <1>9, <1>11, <1>12 DEF n, T, t0

\* What getall() returns is a list of values, and it leaves the table as it
\* found it.
LEMMA GetAllTyped ==
  ASSUME NEW ks, IsSound(ks), IsSettled(ks), NEW key \in Keys
  PROVE  /\ md_get_all(ks, key).list \in Seq(Values)
         /\ md_get_all(ks, key).keys = ks
<1> DEFINE n == ks.nentries + 1
<1>1. n \in 0..n
  BY LiveFinite, SizeTypes DEF IsSound
<1>2. PICK g : /\ \A c \in 0..n : g[c] \in Finders(ks, key)
               /\ md_get_all(ks, key).list = g[n].list
               /\ md_get_all(ks, key).keys =
                    IF g[n].list = <<>> THEN ks
                    ELSE md_finder_cleanup(g[n].keys, hash_of(key))
  BY GetAllRun
<1>3. g[n].keys \in Finding(ks, IdentityOf[key]) /\ g[n].list \in Seq(Values)
  BY <1>1, <1>2 DEF Finders
<1>4. md_finder_cleanup(g[n].keys, hash_of(key)) = ks
  BY <1>3, CleanupRestores, HashTableAssumption DEF hash_of
<1> QED
  BY <1>2, <1>3, <1>4

-----------------------------------------------------------------------------
(* The steps.                                                              *)

\* What popall() returns is a list of values.
LEMMA PoppedTyped ==
  ASSUME NEW ks, IsSound(ks), IsSettled(ks), NEW key \in Keys
  PROVE  PoppedValues(ks, key) \in Seq(Values)
<1> DEFINE id == IdentityOf[key]
           hash == HashOf[id]
           path == PathLength(ks, hash)
           steps == PopSteps(ks, hash, id)
           n == Cardinality(steps)
           nth(i) == CHOOSE m \in steps : Cardinality({j \in steps : j < m}) = i - 1
<1>1. id \in Identities /\ hash = hash_of(key) /\ hash \in Hashes
  BY HashTableAssumption DEF hash_of, Hashes
<1>2. path \in Nat
  <2>1. path \in 0..ProbeSteps(ks.log2_size) /\ ProbeSteps(ks.log2_size) \in Nat
    <3> HIDE DEF hash
    <3> QED
      BY <1>1, NeverFull, EmptySlotFound, SizeTypes
  <2> QED
    BY <2>1
<1>3. steps \in SUBSET (0..(path - 1)) /\ steps \in SUBSET Matches(ks, hash, id)
  BY DEF PopSteps, Matches
<1>4. PoppedValues(ks, key)
        = [i \in 1..n |-> ks.entries[IndexAt(ks, hash, nth(i))].value]
  BY <1>1 DEF PoppedValues
<1> HIDE DEF steps, path
<1>5. n \in Nat
  <2>1. IsFiniteSet(0..(path - 1))
    BY <1>2, FS_Interval
  <2> QED
    BY <1>3, <2>1, FS_Subset, FS_CardinalityType
<1>6. ASSUME NEW i \in 1..n
      PROVE  ks.entries[IndexAt(ks, hash, nth(i))].value \in Values
  <2>1. i - 1 \in Nat /\ i - 1 < n
    BY <1>5
  <2>2. \E m \in steps : Cardinality({j \in steps : j < m}) = i - 1
    BY <1>2, <1>3, <2>1, NthElement
  <2>3. nth(i) \in steps
    BY <2>2, Zenon
  <2> HIDE DEF nth
  <2>4. SlotAt(ks, hash, nth(i)) \in MatchingSlots(ks, hash, id)
    BY <1>3, <2>3 DEF MatchingSlots
  <2> HIDE DEF id
  <2>5. IndexAt(ks, hash, nth(i)) \in Live(ks)
    BY <1>1, <2>4, MatchesAreLive DEF IndexAt
  <2> QED
    BY <2>5, EntryIsItem DEF IsSettled
<1> HIDE DEF n, nth
<1>7. PoppedValues(ks, key) \in [1..n -> Values]
  BY <1>4, <1>6
<1> QED
  BY <1>5, <1>7

\* What TypeOK says beyond TableInvariant, a part for each variable.
VersionTyped == version \in 0..MaxVersion
RetTyped ==
  ret \in [status : {"ok", "error", "KeyError", "MemoryError"},
           list : Seq(Values \cup Keys \cup ItemType)]
BulkTyped ==
  bulk \in [op : BulkOps \cup {"none"}, base : Seq(ItemType),
            args : Seq(ItemType), hint : Nat, log2 : Log2Sizes, version : Nat]

\* Whatever a call returns, as long as it is one of these lists.
LEMMA Returned ==
  ASSUME NEW status \in {"ok", "error", "KeyError", "MemoryError"},
         NEW list \in Seq(Values \cup Keys \cup ItemType), Return(status, list)
  PROVE  RetTyped'
BY DEF Return, RetTyped

\* The lists calls return: none, one of anything, or several values.
LEMMA ReturnedLists ==
  /\ <<>> \in Seq(Values \cup Keys \cup ItemType)
  /\ \A x \in Values \cup Keys \cup ItemType :
       <<x>> \in Seq(Values \cup Keys \cup ItemType)
  /\ \A list \in Seq(Values) : list \in Seq(Values \cup Keys \cup ItemType)
<1> DEFINE U == Values \cup Keys \cup ItemType
<1>1. \A x \in U : <<x>> \in Seq(U)
  OBVIOUS
<1>2. \A list \in Seq(Values) : list \in Seq(U)
  <2> SUFFICES ASSUME NEW list \in Seq(Values) PROVE list \in Seq(U)
    OBVIOUS
  <2>1. Len(list) \in Nat /\ list \in [1..Len(list) -> Values]
    OBVIOUS
  <2>2. list \in [1..Len(list) -> U]
    BY <2>1
  <2> QED
    BY <2>1, <2>2
<1> QED
  BY <1>1, <1>2

\* The version only moves up to its bound.
LEMMA NextVersionTyped ==
  ASSUME VersionTyped, NEW n \in Nat, NEXT_VERSION(n)
  PROVE  VersionTyped'
BY HashTableAssumption DEF VersionTyped, NEXT_VERSION

\* The table is sound and its items are counted, whatever marks it carries.
SoundTable == IsSound(keys) /\ used = Cardinality(Live(keys))

LEMMA SoundWhenInvariant == TableInvariant => SoundTable
BY DEF TableInvariant, SoundTable

\* The slots of the items of a key are finite in number.
LEMMA MatchingSlotsCount ==
  ASSUME SoundTable, NEW key \in Keys
  PROVE  /\ IsFiniteSet(MatchingSlots(keys, hash_of(key), IdentityOf[key]))
         /\ Cardinality(MatchingSlots(keys, hash_of(key), IdentityOf[key])) \in Nat
<1> DEFINE id == IdentityOf[key]
           slots == MatchingSlots(keys, HashOf[id], id)
<1>1. id \in Identities /\ IsSound(keys)
  BY HashTableAssumption DEF SoundTable
<1>2. slots \in SUBSET Slots(keys.log2_size)
  <2> HIDE DEF id
  <2> QED
    BY <1>1, MatchesAreLive
<1>3. keys.log2_size \in Log2Sizes
  BY <1>1, NeverFull
<1> HIDE DEF slots
<1>4. IsFiniteSet(slots)
  BY <1>2, <1>3, SlotsFinite, FS_Subset
<1> QED
  BY <1>4, FS_CardinalityType DEF slots, hash_of

\* A call that is one step returns what it may, and moves the version no
\* further than its bound.
LEMMA CallTyped ==
  ASSUME TableInvariant, Idle, VersionTyped, RetTyped, Call
  PROVE  VersionTyped' /\ RetTyped'
<1> DEFINE Lists == Seq(Values \cup Keys \cup ItemType)
           Statuses == {"ok", "error", "KeyError", "MemoryError"}
           Typed == VersionTyped' /\ RetTyped'
<1> SUFFICES Typed
  OBVIOUS
<1>1. IsSound(keys) /\ IsSettled(keys) /\ used = Cardinality(Live(keys))
  BY DEF TableInvariant, Idle
<1>2. ASSUME NEW status \in Statuses, NEW list \in Lists, Return(status, list),
             (UNCHANGED version \/ \E n \in Nat : NEXT_VERSION(n))
      PROVE  Typed
  <2>1. RetTyped'
    BY <1>2, Returned
  <2>2. VersionTyped'
    BY <1>2, NextVersionTyped DEF VersionTyped
  <2> QED
    BY <2>1, <2>2
<1>3. /\ <<>> \in Lists
      /\ \A x \in Values \cup Keys \cup ItemType : <<x>> \in Lists
      /\ \A list \in Seq(Values) : list \in Lists
  BY ReturnedLists
<1> HIDE DEF Lists, Typed
<1>4. ASSUME NEW key \in Keys, KeyError(<<key>>) PROVE Typed
  BY <1>2, <1>3, <1>4 DEF KeyError
<1>5. ASSUME NEW key \in Keys, NEW value \in Values, AddItem(key, value)
      PROVE  \E n \in Nat : NEXT_VERSION(n)
  BY <1>5 DEF AddItem
<1>6. ASSUME NEW key \in Keys, NEW value \in Values, MdAdd(key, value)
      PROVE  Typed
  BY <1>2, <1>3, <1>5, <1>6 DEF MdAdd
<1>7. ASSUME NEW key \in Keys, NEW value \in Values, MdSetDefault(key, value)
      PROVE  Typed
  <2>1. CASE md_contains(keys, key)
    <3>1. md_get_one(keys, key) \in Values
      BY <1>1, <2>1, GetOneTyped
    <3> QED
      BY <1>2, <1>3, <1>7, <2>1, <3>1 DEF MdSetDefault
  <2>2. CASE ~ md_contains(keys, key)
    BY <1>2, <1>3, <1>5, <1>7, <2>2 DEF MdSetDefault
  <2> QED
    BY <2>1, <2>2
<1>8. ASSUME NEW key \in Keys, NEW value \in Values, MdReplace(key, value)
      PROVE  Typed
  <2>1. \E n \in Nat : NEXT_VERSION(n)
    BY <1>5, <1>8 DEF MdReplace, ReplaceItem
  <2>2. Return("ok", <<>>)
    BY <1>8 DEF MdReplace
  <2> QED
    BY <1>2, <1>3, <2>1, <2>2
<1>9. ASSUME NEW key \in Keys, MdDel(key) PROVE Typed
  <2>1. CASE md_contains(keys, key)
    BY <1>2, <1>3, <1>9, <2>1 DEF MdDel
  <2>2. CASE ~ md_contains(keys, key)
    BY <1>4, <1>9, <2>2 DEF MdDel
  <2> QED
    BY <2>1, <2>2
<1>10. ASSUME NEW key \in Keys, MdPopOne(key) PROVE Typed
  <2>1. CASE md_contains(keys, key)
    <3>1. md_get_one(keys, key) \in Values
      BY <1>1, <2>1, GetOneTyped
    <3> QED
      BY <1>2, <1>3, <1>10, <2>1, <3>1 DEF MdPopOne
  <2>2. CASE ~ md_contains(keys, key)
    BY <1>4, <1>10, <2>2 DEF MdPopOne
  <2> QED
    BY <2>1, <2>2
<1>11. ASSUME NEW key \in Keys, MdPopAll(key) PROVE Typed
  <2>1. CASE used # 0 /\ md_contains(keys, key)
    <3>1. PoppedValues(keys, key) \in Lists
      BY <1>1, <1>3, PoppedTyped
    <3>2. \E n \in Nat : NEXT_VERSION(n)
      BY <1>11, <2>1, SoundWhenInvariant, MatchingSlotsCount DEF MdPopAll
    <3> QED
      BY <1>2, <1>11, <2>1, <3>1, <3>2 DEF MdPopAll
  <2>2. CASE ~ (used # 0 /\ md_contains(keys, key))
    BY <1>4, <1>11, <2>2 DEF MdPopAll
  <2> QED
    BY <2>1, <2>2
<1>12. CASE MdPopItem
  <2>1. CASE used = 0
    <3>1. Return("KeyError", <<>>) /\ UNCHANGED version
      BY <1>12, <2>1 DEF MdPopItem, KeyError
    <3> QED
      BY <1>2, <1>3, <3>1
  <2>2. CASE used # 0
    <3> DEFINE pos == CHOOSE i \in Live(keys) : \A j \in Live(keys) : j <= i
    <3>1. pos \in Live(keys)
      BY <1>1, <2>2, LastLiveEntry
    <3>2. ItemAt(keys, pos) \in ItemType
      BY <1>1, <3>1, EntryIsItem DEF IsSettled
    <3>3. Return("ok", <<ItemAt(keys, pos)>>) /\ NEXT_VERSION(1)
      BY <1>12, <2>2 DEF MdPopItem
    <3> DEFINE item == ItemAt(keys, pos)
    <3> HIDE DEF pos, item
    <3>4. <<item>> \in Lists
      BY <1>3, <3>2 DEF item
    <3>5. Return("ok", <<item>>) /\ \E n \in Nat : NEXT_VERSION(n)
      BY <3>3 DEF item
    <3> QED
      BY <1>2, <3>4, <3>5
  <2> QED
    BY <2>1, <2>2
<1>13. CASE MdClear
  <2>1. UNCHANGED version \/ NEXT_VERSION(1)
    BY <1>13 DEF MdClear
  <2>2. Return("ok", <<>>)
    BY <1>13 DEF MdClear
  <2> QED
    BY <1>2, <1>3, <2>1, <2>2
<1>14. CASE OutOfMemory
  BY <1>2, <1>3, <1>14 DEF OutOfMemory
<1> QED
  BY <1>6, <1>7, <1>8, <1>9, <1>10, <1>11, <1>12, <1>13, <1>14 DEF Call

\* The history of a bulk call is typed from its first step to its last.
LEMMA BulkStepTyped ==
  ASSUME TableInvariant, TableInvariant', VersionTyped, RetTyped, BulkTyped,
         \/ Idle /\ \E op \in BulkOps, hint \in Hints : BulkBegin(op, hint)
         \/ Idle /\ \E hint \in Hints : BulkRefused(hint)
         \/ ~ Idle /\ \E key \in Keys, value \in Values : BulkItem(key, value)
         \/ ~ Idle /\ (BulkEnd \/ BulkFail)
  PROVE  VersionTyped' /\ RetTyped' /\ BulkTyped'
<1>1. /\ <<>> \in Seq(Values \cup Keys \cup ItemType)
      /\ <<>> \in Seq(ItemType)
  BY ReturnedLists
<1>2. ASSUME Idle, NEW op \in BulkOps, NEW hint \in Hints, BulkBegin(op, hint)
      PROVE  VersionTyped' /\ RetTyped' /\ BulkTyped'
  <2>1. VersionTyped' /\ RetTyped'
    BY <1>1, <1>2, Returned DEF BulkBegin, VersionTyped
  <2>2. Items \in Seq(ItemType)
    BY <1>2, ItemsTyped DEF TableInvariant, Idle, Items
  <2>3. keys'.log2_size \in Log2Sizes /\ hint \in Nat /\ version \in Nat
    BY HashTableAssumption DEF TableInvariant, IsSound, IsHtKeys, VersionTyped
  <2> QED
    BY <1>1, <1>2, <2>1, <2>2, <2>3 DEF BulkBegin, BulkTyped
<1>3. ASSUME NEW hint \in Hints, BulkRefused(hint)
      PROVE  VersionTyped' /\ RetTyped' /\ BulkTyped'
  BY <1>1, <1>3, Returned DEF BulkRefused, VersionTyped, BulkTyped
<1>4. ASSUME ~ Idle, NEW key \in Keys, NEW value \in Values, BulkItem(key, value)
      PROVE  VersionTyped' /\ RetTyped' /\ BulkTyped'
  <2>1. RetTyped'
    BY <1>4 DEF BulkItem, ApplyItem, RetTyped
  <2>2. UNCHANGED version \/ NEXT_VERSION(1)
    BY <1>4 DEF BulkItem, ApplyItem, AddItem, UpdateItem, MergeItem, AddForUpdate
  <2>3. VersionTyped'
    BY <2>2, NextVersionTyped DEF VersionTyped
  <2>4. [key |-> key, value |-> value] \in ItemType /\ bulk.args \in Seq(ItemType)
    BY DEF ItemType, BulkTyped
  <2>5. Append(bulk.args, [key |-> key, value |-> value]) \in Seq(ItemType)
    BY <2>4
  <2>6. BulkTyped'
    BY <1>4, <2>5 DEF BulkItem, ApplyItem, BulkTyped
  <2> QED
    BY <2>1, <2>3, <2>6
<1>5. ASSUME BulkEnd \/ BulkFail
      PROVE  VersionTyped' /\ RetTyped' /\ BulkTyped'
  <2>1. PICK status \in {"ok", "error"} : BulkStop(status)
    BY <1>5 DEF BulkEnd, BulkFail
  <2>2. VersionTyped' /\ RetTyped'
    BY <1>1, <2>1, Returned DEF BulkStop, VersionTyped
  <2>3. NoBulk \in [op : BulkOps \cup {"none"}, base : Seq(ItemType),
                    args : Seq(ItemType), hint : Nat, log2 : Log2Sizes, version : Nat]
    BY <1>1 DEF NoBulk, Log2Sizes
  <2> QED
    BY <2>1, <2>2, <2>3 DEF BulkStop, BulkTyped
<1> QED
  BY <1>2, <1>3, <1>4, <1>5

-----------------------------------------------------------------------------

\* The types, what a table is apart.
Typed == VersionTyped /\ RetTyped /\ BulkTyped

LEMMA TypedTable == TableInvariant => (TypeOK <=> Typed)
<1> SUFFICES ASSUME TableInvariant PROVE TypeOK <=> Typed
  OBVIOUS
<1>1. IsHtKeys(keys) /\ used \in Nat
  BY LiveFinite DEF TableInvariant, IsSound
<1> QED
  BY <1>1 DEF TypeOK, Typed, VersionTyped, RetTyped, BulkTyped, ItemType

\* Every step keeps them.
LEMMA NextTyped ==
  Typed /\ TableInvariant /\ TableInvariant' /\ [Next]_vars => Typed'
<1> SUFFICES ASSUME Typed, TableInvariant, TableInvariant', [Next]_vars
             PROVE  Typed'
  OBVIOUS
<1>1. CASE Idle /\ Call /\ UNCHANGED bulk
  BY <1>1, CallTyped DEF Typed, BulkTyped
<1>2. CASE UNCHANGED vars
  BY <1>2 DEF vars, Typed, VersionTyped, RetTyped, BulkTyped
<1>3. CASE ~ (Idle /\ Call /\ UNCHANGED bulk) /\ ~ UNCHANGED vars
  BY <1>3, BulkStepTyped DEF Next, Typed
<1> QED
  BY <1>1, <1>2, <1>3

\* Every variable keeps its type.
THEOREM TypeAlwaysOK == Spec => []TypeOK
<1>1. Init => Typed
  <2> SUFFICES ASSUME Init PROVE Typed
    OBVIOUS
  <2>1. TableInvariant
    BY InitSound
  <2>2. keys.log2_size \in Log2Sizes
    BY <2>1 DEF TableInvariant, IsSound, IsHtKeys
  <2>3. /\ <<>> \in Seq(Values \cup Keys \cup ItemType)
        /\ <<>> \in Seq(ItemType)
    BY ReturnedLists
  <2>4. VersionTyped /\ RetTyped
    BY <2>3, HashTableAssumption DEF Init, VersionTyped, RetTyped
  <2>5. PICK minused \in Hints :
          bulk = [NoBulk EXCEPT
            !.op = "extend", !.log2 = keys.log2_size,
            !.hint = IF minused > USABLE_FRACTION(max_presize)
                       THEN USABLE_FRACTION(max_presize) ELSE minused]
    BY DEF Init
  <2>6. minused \in Nat /\ USABLE_FRACTION(max_presize) \in Nat
    BY HashTableAssumption, PowerOfTwo
       DEF USABLE_FRACTION, max_presize, log2_max_presize
  <2> QED
    BY <2>2, <2>3, <2>4, <2>5, <2>6 DEF NoBulk, Typed, BulkTyped, BulkOps
<1> QED
  BY <1>1, NextTyped, TypedTable, TableAlwaysSound, PTL DEF Spec

-----------------------------------------------------------------------------
(* Versions.                                                               *)

\* A call that is one step either leaves the table as it is, or takes a new
\* version: popall() one for each item it finds, and it finds one.
LEMMA CallGuarded ==
  ASSUME SoundTable, VersionTyped, Call
  PROVE  /\ VersionTyped' /\ version' \in Nat /\ version <= version'
         /\ version' = version => keys' = keys
<1> DEFINE Guarded == /\ VersionTyped' /\ version' \in Nat /\ version <= version'
                      /\ version' = version => keys' = keys
<1> SUFFICES Guarded
  OBVIOUS
<1>1. UNCHANGED <<keys, version>> => Guarded
  BY DEF VersionTyped
<1>2. ASSUME NEW n \in Nat \ {0}, NEXT_VERSION(n) PROVE Guarded
  BY <1>2, HashTableAssumption DEF NEXT_VERSION, VersionTyped
<1> HIDE DEF Guarded
<1>3. NEXT_VERSION(1) => Guarded
  BY <1>2
<1>4. ASSUME NEW key \in Keys, NEW value \in Values,
             \/ MdAdd(key, value)
             \/ MdSetDefault(key, value)
             \/ MdReplace(key, value)
      PROVE  Guarded
  BY <1>1, <1>3, <1>4 DEF MdAdd, MdSetDefault, MdReplace, ReplaceItem, AddItem
<1>5. ASSUME NEW key \in Keys, MdDel(key) \/ MdPopOne(key)
      PROVE  Guarded
  BY <1>1, <1>3, <1>5 DEF MdDel, MdPopOne, KeyError
<1>6. ASSUME NEW key \in Keys, MdPopAll(key)
      PROVE  Guarded
  <2> DEFINE slots == MatchingSlots(keys, hash_of(key), IdentityOf[key])
  <2>1. CASE used # 0 /\ md_contains(keys, key)
    <3>1. slots # {}
      BY <2>1 DEF md_contains, MatchingSlots
    <3>2. Cardinality(slots) \in Nat \ {0}
      <4>1. Cardinality(slots) \in Nat /\ IsFiniteSet(slots)
        BY MatchingSlotsCount
      <4> HIDE DEF slots
      <4> QED
        BY <3>1, <4>1, FS_EmptySet
    <3>3. NEXT_VERSION(Cardinality(slots))
      BY <1>6, <2>1 DEF MdPopAll
    <3> HIDE DEF slots
    <3> QED
      BY <1>2, <3>2, <3>3
  <2>2. CASE ~ (used # 0 /\ md_contains(keys, key))
    BY <1>1, <1>6, <2>2 DEF MdPopAll, KeyError
  <2> QED
    BY <2>1, <2>2
<1>7. CASE MdPopItem
  BY <1>1, <1>3, <1>7 DEF MdPopItem, KeyError
<1>8. CASE MdClear \/ OutOfMemory
  BY <1>1, <1>3, <1>8 DEF MdClear, OutOfMemory
<1> QED
  BY <1>4, <1>5, <1>6, <1>7, <1>8 DEF Call

\* No step takes a version back.
LEMMA VersionGrows ==
  ASSUME TableInvariant, VersionTyped, [Next]_vars
  PROVE  VersionTyped' /\ version' \in Nat /\ version <= version'
<1>1. CASE Idle /\ Call /\ UNCHANGED bulk
  BY <1>1, SoundWhenInvariant, CallGuarded
<1>2. UNCHANGED version => VersionTyped' /\ version' \in Nat /\ version <= version'
  BY DEF VersionTyped
<1>3. ASSUME NEW key \in Keys, NEW value \in Values, BulkItem(key, value)
      PROVE  VersionTyped' /\ version' \in Nat /\ version <= version'
  <2>1. UNCHANGED version \/ NEXT_VERSION(1)
    BY <1>3 DEF BulkItem, ApplyItem, AddItem, UpdateItem, MergeItem, AddForUpdate
  <2> QED
    BY <1>2, <2>1, HashTableAssumption DEF NEXT_VERSION, VersionTyped
<1>4. ASSUME NEW op \in BulkOps, NEW hint \in Hints, BulkBegin(op, hint)
      PROVE  VersionTyped' /\ version' \in Nat /\ version <= version'
  BY <1>2, <1>4 DEF BulkBegin
<1>5. CASE BulkEnd \/ BulkFail \/ UNCHANGED vars
  BY <1>2, <1>5 DEF BulkEnd, BulkFail, BulkStop, vars
<1>6. ASSUME NEW hint \in Hints, BulkRefused(hint)
      PROVE  VersionTyped' /\ version' \in Nat /\ version <= version'
  BY <1>2, <1>6 DEF BulkRefused
<1> QED
  BY <1>1, <1>3, <1>4, <1>5, <1>6 DEF Next

\* No single call changes the items under an unchanged version.
THEOREM VersionAlwaysGuards == Spec => VersionGuardsCalls
<1> DEFINE Guard == Idle /\ bulk' = bulk /\ Items' # Items => version' # version
<1>1. TableInvariant /\ VersionTyped /\ [Next]_vars => Guard
  <2> SUFFICES ASSUME TableInvariant, VersionTyped, Idle, bulk' = bulk, [Next]_vars,
                      version' = version
               PROVE  Items' = Items
    OBVIOUS
  <2>1. CASE Call
    BY <2>1, SoundWhenInvariant, CallGuarded DEF Items
  <2>2. CASE ~ Call
    BY <2>2 DEF Next, vars, Items, Idle, BulkBegin, BulkRefused, BulkOps
  <2> QED
    BY <2>1, <2>2
<1>2. TypeOK => VersionTyped
  BY DEF TypeOK, VersionTyped
<1>3. TableInvariant /\ VersionTyped /\ [Next]_vars => [Guard]_vars
  BY <1>1
<1> QED
  BY <1>2, <1>3, TableAlwaysSound, TypeAlwaysOK, PTL DEF Spec, VersionGuardsCalls

-----------------------------------------------------------------------------
(* The order of the table.                                                 *)

OrderInvariant == TableInvariant /\ IsOrdered(keys)

\* Every step keeps the order.
LEMMA NextOrdered ==
  OrderInvariant /\ [Next]_vars => OrderInvariant'
<1> SUFFICES ASSUME OrderInvariant, [Next]_vars PROVE IsOrdered(keys')
  BY NextSound DEF OrderInvariant
<1>0. /\ TableInvariant /\ IsSound(keys) /\ IsOrdered(keys)
      /\ used = Cardinality(Live(keys))
  BY DEF OrderInvariant, TableInvariant
<1>1. CASE Idle /\ Call /\ UNCHANGED bulk
  BY <1>0, <1>1, CallSound DEF SettledAfter
<1>2. ASSUME Idle, NEW op \in BulkOps, NEW hint \in Hints, BulkBegin(op, hint)
      PROVE  IsOrdered(keys')
  <2>1. IsSettled(keys) /\ hint \in Nat
    BY <1>0, <1>2, HashTableAssumption DEF TableInvariant, Idle
  <2> QED
    BY <1>0, <1>2, <2>1, ReserveSound DEF BulkBegin
<1>3. ASSUME NEW hint \in Hints, BulkRefused(hint)
      PROVE  IsOrdered(keys')
  BY <1>0, <1>3 DEF BulkRefused
<1>4. ASSUME ~ Idle, NEW key \in Keys, NEW value \in Values, BulkItem(key, value)
      PROVE  IsOrdered(keys')
  <2>1. CASE bulk.op = "extend" /\ AddItem(key, value)
    <3>1. IsSettled(keys)
      BY <1>0, <2>1 DEF TableInvariant
    <3> QED
      BY <1>0, <2>1, <3>1, AddItemSound DEF SettledAfter
  <2>2. ASSUME AddForUpdate(key, value) PROVE IsOrdered(keys')
    BY <1>0, <2>2, AddEntrySound DEF AddForUpdate
  <2>3. CASE bulk.op = "update" /\ UpdateItem(key, value)
    <3>1. CASE md_contains(keys, key)
      BY <1>0, <2>3, <3>1, ReplaceForUpdateSound DEF UpdateItem
    <3> QED
      BY <2>2, <2>3, <3>1 DEF UpdateItem
  <2>4. CASE bulk.op = "merge" /\ MergeItem(key, value)
    BY <1>0, <2>2, <2>4 DEF MergeItem
  <2> QED
    BY <1>4, <2>1, <2>3, <2>4 DEF BulkItem, ApplyItem
<1>5. CASE ~ Idle /\ (BulkEnd \/ BulkFail)
  <2>1. ASSUME NEW status, BulkStop(status) PROVE IsOrdered(keys')
    BY <1>0, <2>1, PostUpdateSound DEF BulkStop
  <2> QED
    BY <1>5, <2>1 DEF BulkEnd, BulkFail
<1>6. CASE UNCHANGED vars
  BY <1>0, <1>6 DEF vars
<1> QED
  BY <1>1, <1>2, <1>3, <1>4, <1>5, <1>6 DEF Next

LEMMA AlwaysOrdered == Spec => []OrderInvariant
<1>1. Init => OrderInvariant
  BY InitSound DEF OrderInvariant
<1> QED
  BY <1>1, NextOrdered, PTL DEF Spec

\* Items of one identity are met in the order they were added.
THEOREM EqualKeysAlwaysInOrder == Spec => []EqualKeysInOrder
<1>1. OrderInvariant => EqualKeysInOrder
  <2> SUFFICES ASSUME OrderInvariant, NEW i \in Live(keys), NEW j \in Live(keys),
                      i < j, keys.entries[i].identity = keys.entries[j].identity,
                      NEW hash, hash = HashOf[keys.entries[i].identity]
               PROVE  Min({n \in 0..ProbeSteps(keys.log2_size) :
                             IndexAt(keys, hash, n) = i})
                        < Min({n \in 0..ProbeSteps(keys.log2_size) :
                                 IndexAt(keys, hash, n) = j})
    BY Zenon DEF EqualKeysInOrder
  <2> DEFINE steps(e) == {n \in 0..ProbeSteps(keys.log2_size) :
                            IndexAt(keys, hash, n) = e}
  <2>1. /\ IsSound(keys) /\ keys.log2_size \in Log2Sizes
        /\ ProbeSteps(keys.log2_size) \in Nat
    BY NeverFull, SizeTypes DEF OrderInvariant, TableInvariant
  <2>2. \A e : steps(e) \in SUBSET Nat
    BY <2>1
  <2>3. steps(j) # {}
    BY <2>1 DEF IsSound, Meets
  <2>4. Min(steps(j)) \in steps(j)
    <3> HIDE DEF steps
    <3> QED
      BY <2>2, <2>3, MinOfNaturals
  <2>5. PICK l \in 0..(Min(steps(j)) - 1) : IndexAt(keys, hash, l) = i
    <3>1. Precedes(keys, hash, i, j)
      BY DEF OrderInvariant, IsOrdered
    <3> QED
      BY <2>4, <3>1 DEF Precedes
  <2>6. l \in steps(i)
    BY <2>1, <2>4, <2>5
  <2> HIDE DEF steps
  <2>7. Min(steps(i)) <= l /\ Min(steps(i)) \in Nat
    BY <2>2, <2>6, MinOfNaturals
  <2>8. Min(steps(i)) < Min(steps(j))
    BY <2>2, <2>4, <2>5, <2>7
  <2> QED
    BY <2>8 DEF steps
<1> QED
  BY <1>1, AlwaysOrdered, PTL

\* The checks of the debug build hold at every step.
THEOREM AlwaysConsistent == Spec => []ConsistencyAsserted
<1>1. OrderInvariant => ConsistencyAsserted
  <2> SUFFICES ASSUME OrderInvariant PROVE ConsistencyAsserted
    OBVIOUS
  <2> DEFINE update == bulk.op \in {"update", "merge"}
             k == keys.log2_size
             n == Capacity(k)
  <2>1. /\ IsSound(keys) /\ IsHtKeys(keys) /\ used = Cardinality(Live(keys))
        /\ ~ update => IsSettled(keys)
    BY DEF OrderInvariant, TableInvariant, IsSound
  <2>2. /\ n \in Nat /\ keys.usable \in 0..n /\ keys.nentries \in 0..n
        /\ keys.usable + keys.nentries = n
        /\ keys.indices \in [Slots(k) -> DKIX_DUMMY..(n - 1)]
        /\ DOMAIN keys.entries = EntryIndices(k)
    BY <2>1, SizeTypes DEF IsHtKeys, IsSound
  <2>3. used \in 0..n
    BY <2>1, <2>2, LiveFinite
  <2>4. \A s \in DOMAIN keys.indices : keys.indices[s] \in DKIX_DUMMY..n
    BY <2>2 DEF DKIX_DUMMY
  <2>5. ASSUME NEW i \in DOMAIN keys.entries, keys.entries[i].identity # NULL
        PROVE  i \in Live(keys)
    <3>1. ~ (i >= keys.nentries) /\ i \in 0..(n - 1)
      BY <2>2, <2>5 DEF OrderInvariant, IsOrdered, EntryIndices
    <3> QED
      BY <2>2, <2>5, <3>1 DEF Live
  <2>6. ASSUME NEW i \in Live(keys)
        PROVE  /\ ~ update => keys.entries[i].hash # MARK /\ keys.entries[i].key # NULL
               /\ keys.entries[i].key = NULL <=> keys.entries[i].value = NULL
               /\ keys.entries[i].hash \in {MARK, HashOf[keys.entries[i].identity]}
               /\ keys.entries[i].key = NULL => keys.entries[i].hash # MARK
    BY <2>1 DEF IsSound, IsSettled
  <2>7. _md_check_consistency(keys, used, update)
    <3>1. {used, keys.usable, keys.nentries} \subseteq 0..n
      BY <2>2, <2>3
    <3>2. keys.usable + keys.nentries <= n
      BY <2>2
    <3> HIDE DEF update
    <3> QED
      BY <2>4, <2>5, <2>6, <3>1, <3>2 DEF _md_check_consistency
  <2> QED
    BY <2>6, <2>7 DEF ConsistencyAsserted
<1> QED
  BY <1>1, AlwaysOrdered, PTL

-----------------------------------------------------------------------------
(* getall() and getone().                                                  *)

\* The items of an identity, in entry order: the n-th is the one that n of
\* them, itself included, reach up to.
OwnEntries(ks, id) == {i \in Live(ks) : ks.entries[i].identity = id}
Rank(S, i) == Cardinality({j \in S : j <= i})
Nth(S, n) == CHOOSE i \in S : Rank(S, i) = n

\* Ranks are distinct.
LEMMA NthOfRank ==
  ASSUME NEW S, IsFiniteSet(S), S \in SUBSET Nat, NEW i \in S
  PROVE  Nth(S, Rank(S, i)) = i
<1>1. ASSUME NEW j \in S, NEW k \in S, j < k PROVE Rank(S, j) # Rank(S, k)
  <2> DEFINE low == {l \in S : l <= j}
             high == {l \in S : l <= k}
  <2>1. IsFiniteSet(low) /\ IsFiniteSet(high) /\ Cardinality(low) \in Nat
    BY FS_Subset, FS_CardinalityType
  <2>2. k \notin low /\ low \cup {k} \subseteq high
    <3>1. j \in Nat /\ k \in Nat /\ \A l \in S : l \in Nat
      OBVIOUS
    <3>2. ~ (k <= j) /\ k <= k /\ \A l \in S : l <= j => l <= k
      BY <1>1, <3>1
    <3> QED
      BY <3>2
  <2> HIDE DEF low, high
  <2>3. Cardinality(low \cup {k}) = Cardinality(low) + 1 /\ IsFiniteSet(low \cup {k})
    BY <2>1, <2>2, FS_AddElement
  <2>4. Cardinality(low \cup {k}) <= Cardinality(high) /\ Cardinality(high) \in Nat
    BY <2>1, <2>2, FS_Subset, FS_CardinalityType
  <2>5. Cardinality(low) # Cardinality(high)
    BY <2>1, <2>3, <2>4
  <2> QED
    BY <2>5 DEF Rank, low, high
<1>2. \A j \in S : Rank(S, j) = Rank(S, i) => j = i
  <2> SUFFICES ASSUME NEW j \in S, Rank(S, j) = Rank(S, i), j # i PROVE FALSE
    OBVIOUS
  <2>1. j < i \/ i < j
    OBVIOUS
  <2> QED
    BY <1>1, <2>1
<1> QED
  BY <1>2 DEF Nth

\* The entries of an identity that a finder has marked.
MarkedOf(ks, id, t) == {i \in OwnEntries(ks, id) : t.entries[i].hash = MARK}

\* What is known of a search for an identity in a table.
LEMMA OwnMatches ==
  ASSUME NEW ks, IsSound(ks), IsOrdered(ks), NEW id \in Identities,
         NEW t \in Finding(ks, id)
  PROVE  /\ IsFiniteSet(OwnEntries(ks, id)) /\ OwnEntries(ks, id) \in SUBSET Nat
         /\ Cardinality(OwnEntries(ks, id)) <= ks.nentries
         /\ IsSound(t) /\ t.log2_size = ks.log2_size /\ t.indices = ks.indices
         /\ t.entries \in [EntryIndices(ks.log2_size) -> Entry]
         /\ \A i \in OwnEntries(ks, id) :
              /\ i \in EntryIndices(ks.log2_size)
              /\ t.entries[i].value = ks.entries[i].value
              /\ t.entries[i].identity = id
              /\ t.entries[i].hash \in {MARK, HashOf[id]}
<1> DEFINE own == OwnEntries(ks, id)
<1>1. /\ IsHtKeys(ks) /\ IsSound(t) /\ Live(t) = Live(ks)
      /\ \A i \in EntryIndices(ks.log2_size) : t.entries[i] # ks.entries[i] =>
           t.entries[i] = [ks.entries[i] EXCEPT !.hash = MARK]
  BY DEF Finding, IsSound
<1>2. PICK es \in [EntryIndices(ks.log2_size) -> Entry] : t = Rewritten(ks, es)
  BY DEF Finding
<1>3. t.log2_size = ks.log2_size /\ t.indices = ks.indices /\ t.entries = es
  BY <1>1, <1>2 DEF Rewritten, IsHtKeys
<1>4. /\ IsFiniteSet(Live(ks)) /\ Cardinality(Live(ks)) <= ks.nentries
      /\ Live(ks) \subseteq 0..(ks.nentries - 1)
      /\ Live(ks) \subseteq EntryIndices(ks.log2_size)
      /\ Cardinality(Live(ks)) \in Nat
  BY <1>1, LiveFinite
<1>5. own \subseteq Live(ks)
  BY DEF OwnEntries
<1>6. IsFiniteSet(own) /\ Cardinality(own) <= Cardinality(Live(ks)) /\ Cardinality(own) \in Nat
  <2> HIDE DEF own
  <2> QED
    BY <1>4, <1>5, FS_Subset, FS_CardinalityType
<1>7. ks.nentries \in Nat
  BY <1>1, LiveFinite, SizeTypes
<1>8. \A e \in Entry : /\ [e EXCEPT !.hash = MARK].hash = MARK
                       /\ [e EXCEPT !.hash = MARK].identity = e.identity
                       /\ [e EXCEPT !.hash = MARK].value = e.value
  BY DEF Entry
<1>9. ASSUME NEW i \in own
      PROVE  /\ i \in EntryIndices(ks.log2_size)
             /\ t.entries[i].value = ks.entries[i].value
             /\ t.entries[i].identity = id
             /\ t.entries[i].hash \in {MARK, HashOf[id]}
  <2>1. i \in Live(ks) /\ i \in EntryIndices(ks.log2_size) /\ ks.entries[i].identity = id
    BY <1>4 DEF OwnEntries
  <2>2. ks.entries[i] \in Entry /\ ks.entries[i].hash \in {MARK, HashOf[id]}
    BY <1>1, <2>1 DEF IsHtKeys, IsSound
  <2>3. \/ t.entries[i] = ks.entries[i]
        \/ t.entries[i] = [ks.entries[i] EXCEPT !.hash = MARK]
    BY <1>1, <2>1
  <2> QED
    BY <1>8, <2>1, <2>2, <2>3
<1> HIDE DEF own
<1>10. own \in SUBSET Nat
  BY <1>4, <1>5, <1>7
<1>11. Cardinality(own) <= ks.nentries
  BY <1>4, <1>6, <1>7
<1> QED
  BY <1>1, <1>3, <1>6, <1>9, <1>10, <1>11 DEF own

\* A search stops at unmarked entries of its identity, at all of them, and at
\* the first of them first.
FoundInOrder(t, hash, own, found) ==
  /\ found \in SUBSET Nat
  /\ \A n \in found : /\ IndexAt(t, hash, n) \in own
                      /\ t.entries[IndexAt(t, hash, n)].hash = hash
  /\ \A j \in own : t.entries[j].hash = hash =>
       \E n \in found : IndexAt(t, hash, n) = j
  /\ found # {} =>
       /\ Min(found) \in found
       /\ \A j \in own : j < IndexAt(t, hash, Min(found)) => t.entries[j].hash = MARK

LEMMA FirstIsLeast ==
  ASSUME NEW ks, IsSound(ks), IsOrdered(ks), NEW id \in Identities,
         NEW t \in Finding(ks, id)
  PROVE  FoundInOrder(t, HashOf[id], OwnEntries(ks, id), Matches(t, HashOf[id], id))
<1> DEFINE hash == HashOf[id]
           own == OwnEntries(ks, id)
           found == Matches(t, hash, id)
           length == PathLength(t, hash)
<1>1. /\ IsSound(t) /\ t.log2_size = ks.log2_size /\ t.indices = ks.indices
      /\ own \in SUBSET Nat
      /\ \A i \in own : /\ t.entries[i].identity = id
                        /\ t.entries[i].hash \in {MARK, hash}
  BY OwnMatches
<1> HIDE DEF found
<1>2. hash \in Hashes /\ hash # MARK
  BY ConstantsAssumption DEF Hashes, MARK
<1> HIDE DEF hash
<1>3. length \in 0..ProbeSteps(t.log2_size) /\ ProbeSteps(t.log2_size) \in Nat
  BY <1>1, <1>2, NeverFull, EmptySlotFound, SizeTypes
<1> HIDE DEF length
<1>4. \A n : n \in found <=> /\ n \in 0..(length - 1)
                             /\ IndexAt(t, hash, n) >= 0
                             /\ t.entries[IndexAt(t, hash, n)].hash = hash
                             /\ t.entries[IndexAt(t, hash, n)].identity = id
  BY Zenon DEF Matches, length, found
<1>5. found \in SUBSET Nat
  BY <1>3, <1>4
<1>6. ASSUME NEW n \in found
      PROVE  IndexAt(t, hash, n) \in own /\ t.entries[IndexAt(t, hash, n)].hash = hash
  <2>1. IndexAt(t, hash, n) \in Live(t)
    BY <1>1, <1>2, <1>4, PathIsLive DEF length
  <2>2. t.entries[IndexAt(t, hash, n)].identity
          = ks.entries[IndexAt(t, hash, n)].identity
    BY <2>1, FindingKeepsKeys
  <2>3. Live(t) = Live(ks)
    BY DEF Finding
  <2> QED
    BY <1>4, <2>1, <2>2, <2>3 DEF OwnEntries
<1>7. ASSUME NEW j \in own, t.entries[j].hash = hash
      PROVE  \E n \in found : IndexAt(t, hash, n) = j
  <2>1. j \in Live(t)
    BY DEF Finding, OwnEntries
  <2>2. hash = HashOf[t.entries[j].identity]
    BY <1>1 DEF hash
  <2>3. PICK n \in 0..(length - 1) : IndexAt(t, hash, n) = j
    BY <1>1, <2>1, <2>2, LiveOnPath DEF length
  <2>4. j >= 0
    BY <1>1
  <2> QED
    BY <1>1, <1>4, <1>7, <2>3, <2>4
<1>8. ASSUME found # {}, NEW first, first = Min(found)
      PROVE  /\ first \in found
             /\ \A j \in own : j < IndexAt(t, hash, first) => t.entries[j].hash = MARK
  <2>1. first \in found /\ \A n \in found : first <= n
    BY <1>5, <1>8, MinOfNaturals
  <2> SUFFICES ASSUME NEW j \in own, j < IndexAt(t, hash, first),
                      t.entries[j].hash # MARK
               PROVE  FALSE
    BY <2>1
  <2>2. t.entries[j].hash = hash /\ t.entries[j].identity = id /\ j >= 0
    BY <1>1
  <2> DEFINE i == IndexAt(t, hash, first)
  <2>3. i \in own /\ j \in Live(ks) /\ i \in Live(ks)
        /\ ks.entries[i].identity = id /\ ks.entries[j].identity = id
    BY <1>6, <2>1 DEF OwnEntries
  <2>4. Precedes(ks, hash, j, i)
    BY <2>3 DEF IsOrdered, hash
  <2>5. first \in 0..(length - 1) /\ first \in 0..ProbeSteps(ks.log2_size)
    BY <1>1, <1>3, <1>4, <2>1
  <2>6. \A n : IndexAt(ks, hash, n) = IndexAt(t, hash, n)
    BY <1>1 DEF IndexAt, SlotAt
  <2>7. PICK l \in 0..(first - 1) : IndexAt(t, hash, l) = j
    BY <2>4, <2>5, <2>6 DEF Precedes
  <2>8. l \in 0..(length - 1)
    BY <1>3, <2>5
  <2>9. l \in found
    BY <1>4, <2>2, <2>7, <2>8
  <2> QED
    BY <2>1, <2>5, <2>7, <2>9
<1> QED
  <2> HIDE DEF own
  <2>1. FoundInOrder(t, hash, own, found)
    BY <1>5, <1>6, <1>7, <1>8 DEF FoundInOrder
  <2> QED
    BY <2>1 DEF hash, own, found

\* What every finder of getall() has: it has marked the first items of its key,
\* collected their values in order, and left none behind.
Collected(ks, key, find) ==
  LET id == IdentityOf[key]
      own == OwnEntries(ks, id)
      marked == MarkedOf(ks, id, find.keys)
  IN  /\ find \in Finders(ks, key)
      /\ \A i \in marked, j \in own : j < i => j \in marked
      /\ Len(find.list) = Cardinality(marked)
      /\ \A n \in 1..Len(find.list) : find.list[n] = ks.entries[Nth(own, n)].value
      /\ \A n \in Matches(find.keys, HashOf[id], id) : find.step <= n

\* The next finder has one more, or there was none left.
LEMMA FinderAdvances ==
  ASSUME NEW ks, IsSound(ks), IsSettled(ks), IsOrdered(ks), NEW key \in Keys,
         NEW find, Collected(ks, key, find),
         NEW next, next = md_find_next(find),
         NEW id, id = IdentityOf[key], NEW own, own = OwnEntries(ks, id),
         NEW marked, marked = MarkedOf(ks, id, find.keys)
  PROVE  /\ Collected(ks, key, next)
         /\ \/ marked = own /\ next = find
            \/ Cardinality(MarkedOf(ks, id, next.keys)) = Cardinality(marked) + 1
<1> DEFINE t == find.keys
           hash == HashOf[id]
           found == Matches(t, hash, id)
           first == Min(found)
           i == IndexAt(t, hash, first)
<1>1. /\ find \in Finders(ks, key)
      /\ \A j \in marked, l \in own : l < j => l \in marked
      /\ Len(find.list) = Cardinality(marked)
      /\ \A n \in 1..Len(find.list) : find.list[n] = ks.entries[Nth(own, n)].value
      /\ \A n \in found : find.step <= n
  BY DEF Collected
<1>2. /\ id \in Identities /\ t \in Finding(ks, id) /\ find.list \in Seq(Values)
      /\ find.hash = hash /\ find.identity = id /\ find.step \in Nat
  BY <1>1, HashTableAssumption DEF Finders, hash_of
<1>3. /\ IsFiniteSet(own) /\ own \in SUBSET Nat
      /\ \A j \in own : /\ j \in EntryIndices(ks.log2_size)
                        /\ t.entries[j].value = ks.entries[j].value
                        /\ t.entries[j].hash \in {MARK, hash}
      /\ t.entries \in [EntryIndices(ks.log2_size) -> Entry]
  BY <1>2, OwnMatches
<1>4. /\ found \in SUBSET Nat
      /\ \A n \in found : IndexAt(t, hash, n) \in own
                          /\ t.entries[IndexAt(t, hash, n)].hash = hash
      /\ \A j \in own : t.entries[j].hash = hash =>
           \E n \in found : IndexAt(t, hash, n) = j
      /\ found # {} => /\ first \in found
                       /\ \A j \in own : j < i => t.entries[j].hash = MARK
  <2>1. FoundInOrder(t, hash, own, found)
    BY <1>2, FirstIsLeast
  <2> HIDE DEF t, hash, found
  <2> QED
    BY <2>1 DEF FoundInOrder
<1>5. hash # MARK
  BY <1>2, ConstantsAssumption DEF MARK
<1>6. marked = {j \in own : t.entries[j].hash = MARK}
  BY DEF MarkedOf
<1>7. {n \in found : n >= find.step} = found
  BY <1>1, <1>2, <1>4
<1>8. next = IF found = {} THEN find
             ELSE [find EXCEPT !.step = first,
                               !.list = Append(@, t.entries[i].value),
                               !.keys.entries[i].hash = MARK]
  BY <1>2, <1>7 DEF md_find_next
<1>9. CASE found = {}
  <2>1. marked = own
    BY <1>3, <1>4, <1>6, <1>9
  <2> QED
    BY <1>8, <1>9, <2>1
<1>10. CASE found # {}
  <2>1. /\ i \in own /\ i \notin marked /\ t.entries[i].hash = hash
        /\ \A j \in own : j < i => j \in marked
    BY <1>4, <1>5, <1>6, <1>10
  <2> HIDE DEF found, first
  <2> DEFINE u == [t EXCEPT !.entries[i].hash = MARK]
             list == Append(find.list, t.entries[i].value)
  <2>2. next = [find EXCEPT !.step = first, !.list = list, !.keys = u]
    BY <1>1, <1>8, <1>10 DEF Finders
  <2>3. u.entries = [t.entries EXCEPT ![i] = [@ EXCEPT !.hash = MARK]]
    <3>1. t \in {Rewritten(ks, es) : es \in [EntryIndices(ks.log2_size) -> Entry]}
      BY <1>2 DEF Finding
    <3>2. "entries" \in DOMAIN t
      BY <3>1 DEF Rewritten, IsSound, IsHtKeys
    <3> HIDE DEF t, i
    <3> QED
      BY <3>2
  <2> HIDE DEF u, list, i
  <2>4. next.keys = u /\ next.list = list /\ next.step = first
    <3>1. find \in [keys : Finding(ks, IdentityOf[key]), step : Nat,
                    list : Seq(Values), hash : {hash_of(key)},
                    identity : {IdentityOf[key]}]
      BY <1>1 DEF Finders
    <3> HIDE DEF t
    <3> QED
      BY <2>2, <3>1
  <2>5. \A e \in Entry : /\ [e EXCEPT !.hash = MARK].hash = MARK
                         /\ [e EXCEPT !.hash = MARK].identity = e.identity
    BY DEF Entry
  <2>6. /\ u.entries[i].hash = MARK
        /\ u.entries[i].identity = t.entries[i].identity
        /\ \A j \in EntryIndices(ks.log2_size) : j # i => u.entries[j] = t.entries[j]
    <3>1. i \in EntryIndices(ks.log2_size) /\ t.entries[i] \in Entry
      BY <1>3, <2>1
    <3> HIDE DEF t
    <3> QED
      BY <1>3, <2>3, <2>5, <3>1
  <2>7. MarkedOf(ks, id, u) = marked \cup {i}
    <3>1. \A j \in own : u.entries[j].hash = MARK <=> j \in marked \/ j = i
      BY <1>3, <1>6, <2>1, <2>6
    <3>2. MarkedOf(ks, id, u) = {j \in own : u.entries[j].hash = MARK}
      BY DEF MarkedOf
    <3>3. marked \subseteq own
      BY <1>6
    <3> HIDE DEF t
    <3> QED
      BY <2>1, <3>1, <3>2, <3>3
  <2>8. /\ IsFiniteSet(marked) /\ Cardinality(marked) \in Nat
        /\ Cardinality(marked \cup {i}) = Cardinality(marked) + 1
    <3>1. IsFiniteSet(marked)
      BY <1>3, <1>6, FS_Subset
    <3> QED
      BY <2>1, <3>1, FS_AddElement, FS_CardinalityType
  <2>9. next \in Finders(ks, key)
    BY <1>1, FindNextTyped
  <2>10. ASSUME NEW j \in marked \cup {i}, NEW l \in own, l < j PROVE l \in marked \cup {i}
    BY <1>1, <2>1, <2>10
  <2>11. Len(list) = Len(find.list) + 1 /\ Len(find.list) \in Nat
         /\ list[Len(find.list) + 1] = t.entries[i].value
         /\ \A n \in 1..Len(find.list) : list[n] = find.list[n]
    BY <1>2 DEF list
  <2>12. Nth(own, Len(list)) = i
    <3>1. {j \in own : j <= i} = marked \cup {i}
      <4>1. \A j \in own : j <= i <=> j \in marked \cup {i}
        <5> SUFFICES ASSUME NEW j \in own PROVE j <= i <=> j \in marked \cup {i}
          OBVIOUS
        <5>1. j \in Nat /\ i \in Nat
          BY <1>3, <2>1
        <5>2. j <= i => j \in marked \cup {i}
          BY <2>1, <5>1
        <5>3. j \in marked => j <= i
          BY <1>1, <2>1, <5>1
        <5> QED
          BY <5>1, <5>2, <5>3
      <4>2. marked \cup {i} \subseteq own
        BY <1>6, <2>1
      <4> QED
        BY <4>1, <4>2
    <3>2. Rank(own, i) = Len(list)
      BY <1>1, <2>8, <2>11, <3>1 DEF Rank
    <3> QED
      BY <1>3, <2>1, <3>2, NthOfRank
  <2>13. ASSUME NEW n \in 1..Len(list)
         PROVE  list[n] = ks.entries[Nth(own, n)].value
    <3>1. CASE n = Len(list)
      BY <1>3, <2>1, <2>11, <2>12, <3>1
    <3>2. CASE n # Len(list)
      BY <1>1, <2>11, <3>2
    <3> QED
      BY <3>1, <3>2
  <2>14. ASSUME NEW n \in Matches(u, hash, id) PROVE first <= n
    <3>1. u \in Finding(ks, id)
      BY <2>4, <2>9 DEF Finders
    <3>2. IndexAt(u, hash, n) = IndexAt(t, hash, n)
      <4>1. u.log2_size = t.log2_size /\ u.indices = t.indices
        BY <1>2, <3>1, OwnMatches
      <4> HIDE DEF t
      <4> QED
        BY <4>1 DEF IndexAt, SlotAt
    <3>3. /\ IndexAt(t, hash, n) \in own
          /\ u.entries[IndexAt(t, hash, n)].hash = hash
      <4>1. FoundInOrder(u, hash, own, Matches(u, hash, id))
        BY <1>2, <3>1, FirstIsLeast
      <4> HIDE DEF t, hash
      <4> QED
        BY <3>2, <4>1 DEF FoundInOrder
    <3>4. IndexAt(t, hash, n) # i
      BY <1>5, <2>6, <3>3
    <3>5. t.entries[IndexAt(t, hash, n)] = u.entries[IndexAt(t, hash, n)]
      BY <1>3, <2>6, <3>3, <3>4
    <3>6. PathLength(u, hash) = PathLength(t, hash)
      <4>1. u.log2_size = t.log2_size /\ u.indices = t.indices
        BY <1>2, <3>1, OwnMatches
      <4> HIDE DEF t
      <4> QED
        BY <4>1 DEF PathLength, IndexAt, SlotAt
    <3>7. n \in found
      <4> HIDE DEF t
      <4> QED
        BY <3>2, <3>5, <3>6, Zenon DEF Matches, found
    <3> QED
      BY <1>4, <3>7, MinOfNaturals DEF first
  <2>15. Len(list) = Cardinality(marked \cup {i})
    BY <1>1, <2>8, <2>11
  <2>16. Collected(ks, key, next)
    <3> HIDE DEF t, hash
    <3> QED
      BY <2>4, <2>7, <2>9, <2>10, <2>13, <2>14, <2>15 DEF Collected, hash
  <2> QED
    BY <2>4, <2>7, <2>8, <2>16
<1> QED
  BY <1>9, <1>10

\* After one call of md_find_next for each entry, and one more, none is left.
LEMMA AllCollected ==
  ASSUME NEW ks, IsSound(ks), IsSettled(ks), IsOrdered(ks), NEW key \in Keys,
         NEW own, own = OwnEntries(ks, IdentityOf[key])
  PROVE  /\ md_get_all(ks, key).keys = ks
         /\ md_get_all(ks, key).list
              = [n \in 1..Cardinality(own) |-> ks.entries[Nth(own, n)].value]
<1> DEFINE id == IdentityOf[key]
           last == ks.nentries + 1
           t0 == FirstFinder(ks, key)
           marked(find) == MarkedOf(ks, id, find.keys)
<1>1. /\ id \in Identities /\ ks.nentries \in Nat /\ last \in Nat
      /\ IsHtKeys(ks)
  BY HashTableAssumption, LiveFinite, SizeTypes DEF IsSound
<1>2. PICK g : /\ g[0] = t0
               /\ \A c \in 0..ks.nentries : g[c + 1] = md_find_next(g[c])
               /\ \A c \in 0..last : g[c] \in Finders(ks, key)
               /\ md_get_all(ks, key).list = g[last].list
  BY GetAllRun
<1>3. /\ IsFiniteSet(own) /\ Cardinality(own) <= ks.nentries /\ own \in SUBSET Nat
      /\ Cardinality(own) \in Nat
  <2>1. ks \in Finding(ks, id)
    <3>1. ks.entries \in [EntryIndices(ks.log2_size) -> Entry]
      BY <1>1 DEF IsHtKeys
    <3>2. ks = Rewritten(ks, ks.entries)
      BY <1>1 DEF Rewritten, IsHtKeys
    <3> QED
      BY <3>1, <3>2 DEF Finding
  <2> HIDE DEF id
  <2>2. /\ IsFiniteSet(OwnEntries(ks, id)) /\ OwnEntries(ks, id) \in SUBSET Nat
        /\ Cardinality(OwnEntries(ks, id)) <= ks.nentries
    BY <1>1, <2>1, OwnMatches
  <2> QED
    BY <2>2, FS_CardinalityType DEF id
<1>4. \A i \in own : ks.entries[i].hash # MARK
  BY DEF OwnEntries, IsSettled
<1>5. Collected(ks, key, t0)
  <2>1. t0 \in Finders(ks, key)
    BY <1>1, <1>2
  <2>2. t0.keys = ks /\ t0.list = <<>> /\ t0.step = 0
    BY DEF FirstFinder
  <2> HIDE DEF t0
  <2>3. MarkedOf(ks, id, t0.keys) = {}
    BY <1>4, <2>2 DEF MarkedOf
  <2>4. Matches(ks, HashOf[id], id) \in SUBSET Nat
    <3>1. ks \in Finding(ks, id)
      BY <2>1, <2>2 DEF Finders
    <3>2. FoundInOrder(ks, HashOf[id], OwnEntries(ks, id), Matches(ks, HashOf[id], id))
      BY <1>1, <3>1, FirstIsLeast
    <3> QED
      BY <3>2 DEF FoundInOrder
  <2>5. Len(t0.list) = 0 /\ Cardinality({}) = 0
    BY <2>2, FS_EmptySet
  <2> QED
    BY <2>1, <2>2, <2>3, <2>4, <2>5 DEF Collected
<1> HIDE DEF t0, id
<1> DEFINE S == {c \in 0..last :
                   /\ Collected(ks, key, g[c])
                   /\ marked(g[c]) = own \/ c <= Cardinality(marked(g[c]))}
<1>6. \A find : IsFiniteSet(marked(find)) /\ Cardinality(marked(find)) \in Nat
                /\ Cardinality(marked(find)) <= Cardinality(own)
  <2> SUFFICES ASSUME NEW find
               PROVE  /\ IsFiniteSet(marked(find)) /\ Cardinality(marked(find)) \in Nat
                      /\ Cardinality(marked(find)) <= Cardinality(own)
    OBVIOUS
  <2>1. marked(find) \subseteq own
    BY DEF MarkedOf, id
  <2> HIDE DEF marked
  <2> QED
    BY <1>3, <2>1, FS_Subset, FS_CardinalityType
<1>7. 0 \in S
  BY <1>1, <1>2, <1>5, <1>6
<1>8. ASSUME NEW c \in 0..(last - 1), c \in S PROVE c + 1 \in S
  <2>1. c \in 0..ks.nentries /\ c + 1 \in 0..last
    BY <1>1
  <2>2. g[c + 1] = md_find_next(g[c]) /\ Collected(ks, key, g[c])
        /\ (marked(g[c]) = own \/ c <= Cardinality(marked(g[c])))
    BY <1>2, <1>8, <2>1
  <2>3. /\ Collected(ks, key, g[c + 1])
        /\ \/ marked(g[c]) = own /\ g[c + 1] = g[c]
           \/ Cardinality(marked(g[c + 1])) = Cardinality(marked(g[c])) + 1
    <3>1. own = OwnEntries(ks, id)
      BY DEF id
    <3>2. /\ Collected(ks, key, g[c + 1])
          /\ \/ MarkedOf(ks, id, g[c].keys) = own /\ g[c + 1] = g[c]
             \/ Cardinality(MarkedOf(ks, id, g[c + 1].keys))
                  = Cardinality(MarkedOf(ks, id, g[c].keys)) + 1
      BY <2>2, <3>1, FinderAdvances DEF id
    <3> QED
      BY <3>2
  <2>4. marked(g[c + 1]) = own \/ c + 1 <= Cardinality(marked(g[c + 1]))
    <3>1. CASE marked(g[c]) = own /\ g[c + 1] = g[c]
      BY <3>1
    <3>2. CASE Cardinality(marked(g[c + 1])) = Cardinality(marked(g[c])) + 1
      <4>1. marked(g[c]) # own
        <5>1. Cardinality(marked(g[c + 1])) <= Cardinality(own)
              /\ Cardinality(marked(g[c])) \in Nat
          BY <1>6
        <5> HIDE DEF marked
        <5> QED
          BY <1>3, <3>2, <5>1
      <4>2. c <= Cardinality(marked(g[c])) /\ Cardinality(marked(g[c])) \in Nat
        BY <1>6, <2>2, <4>1
      <4> HIDE DEF marked
      <4> QED
        BY <2>1, <3>2, <4>2
    <3> QED
      BY <2>3, <3>1, <3>2
  <2> HIDE DEF marked
  <2> QED
    BY <2>1, <2>3, <2>4
<1>9. last \in S
  <2> HIDE DEF S
  <2>1. 0..last \subseteq S
    BY <1>1, <1>7, <1>8, BoundedInduction
  <2> QED
    BY <1>1, <2>1
<1>10. Collected(ks, key, g[last]) /\ marked(g[last]) = own
  <2>1. ~ (last <= Cardinality(marked(g[last])))
    <3>1. Cardinality(marked(g[last])) <= Cardinality(own)
          /\ Cardinality(marked(g[last])) \in Nat
      BY <1>6
    <3> HIDE DEF marked
    <3> QED
      BY <1>1, <1>3, <3>1
  <2> QED
    BY <1>9, <2>1
<1>11. /\ g[last].list \in Seq(Values) /\ Len(g[last].list) = Cardinality(own)
       /\ \A n \in 1..Len(g[last].list) :
            g[last].list[n] = ks.entries[Nth(own, n)].value
  <2>1. OwnEntries(ks, IdentityOf[key]) = own
    OBVIOUS
  <2>2. MarkedOf(ks, IdentityOf[key], g[last].keys) = own
    BY <1>10 DEF id
  <2>3. g[last] \in Finders(ks, key)
    BY <1>10 DEF Collected
  <2> QED
    BY <1>10, <2>1, <2>2, <2>3 DEF Collected, Finders
<1>12. g[last].list = [n \in 1..Cardinality(own) |-> ks.entries[Nth(own, n)].value]
  <2> DEFINE list == g[last].list
             size == Cardinality(own)
             val(n) == ks.entries[Nth(own, n)].value
  <2>1. list = [n \in 1..Len(list) |-> list[n]] /\ Len(list) = size
        /\ \A n \in 1..Len(list) : list[n] = val(n)
    BY <1>11
  <2> HIDE DEF list, size, val
  <2>2. list = [n \in 1..size |-> val(n)]
    BY <2>1
  <2> QED
    BY <2>2 DEF list, size, val
<1> QED
  BY <1>2, <1>12, GetAllTyped

\* getall() returns every value of its key, once and in order, and getone() the
\* first of them.
THEOREM GetAllAlwaysExact == Spec => []GetAllExact
<1>1. OrderInvariant => GetAllExact
  <2> SUFFICES ASSUME OrderInvariant, Idle, NEW key \in Keys,
                      NEW own, own = OwnEntries(keys, IdentityOf[key])
               PROVE  /\ md_get_all(keys, key).keys = keys
                      /\ md_get_all(keys, key).list
                           = [n \in 1..Cardinality(own) |-> keys.entries[Nth(own, n)].value]
                      /\ md_contains(keys, key) = (own # {})
                      /\ own # {} => md_get_one(keys, key) = md_get_all(keys, key).list[1]
    BY Zenon DEF GetAllExact, OwnEntries, Nth, Rank
  <2> DEFINE id == IdentityOf[key]
             hash == HashOf[id]
             found == Matches(keys, hash, id)
             i == IndexAt(keys, hash, Min(found))
  <2>1. /\ IsSound(keys) /\ IsSettled(keys) /\ IsOrdered(keys) /\ IsHtKeys(keys)
        /\ id \in Identities
    BY HashTableAssumption DEF OrderInvariant, TableInvariant, Idle, IsSound
  <2>2. keys \in Finding(keys, id)
    <3>1. keys.entries \in [EntryIndices(keys.log2_size) -> Entry]
      BY <2>1 DEF IsHtKeys
    <3>2. keys = Rewritten(keys, keys.entries)
      BY <2>1 DEF Rewritten, IsHtKeys
    <3> QED
      BY <2>1, <3>1, <3>2 DEF Finding
  <2>3. /\ md_get_all(keys, key).keys = keys
        /\ md_get_all(keys, key).list
             = [n \in 1..Cardinality(own) |-> keys.entries[Nth(own, n)].value]
    BY <2>1, AllCollected
  <2>4. IsFiniteSet(own) /\ own \in SUBSET Nat
    <3> HIDE DEF id
    <3>1. IsFiniteSet(OwnEntries(keys, id)) /\ OwnEntries(keys, id) \in SUBSET Nat
      BY <2>1, <2>2, OwnMatches
    <3> QED
      BY <3>1 DEF id
  <2>5. FoundInOrder(keys, hash, own, found)
    <3> HIDE DEF id
    <3>1. FoundInOrder(keys, HashOf[id], OwnEntries(keys, id), Matches(keys, HashOf[id], id))
      BY <2>1, <2>2, FirstIsLeast
    <3> QED
      BY <3>1 DEF id
  <2>6. \A j \in own : keys.entries[j].hash = hash /\ keys.entries[j].hash # MARK
    <3>1. \A j \in own : j \in Live(keys) /\ keys.entries[j].identity = id
      BY DEF OwnEntries
    <3> QED
      BY <2>1, <3>1 DEF IsSound, IsSettled
  <2>7. md_contains(keys, key) = (found # {})
    BY DEF md_contains, hash_of
  <2>8. md_get_one(keys, key) = keys.entries[i].value
    BY DEF md_get_one, hash_of, FirstMatch, IndexAt
  <2> HIDE DEF hash, found
  <2>9. found # {} <=> own # {}
    BY <2>5, <2>6 DEF FoundInOrder
  <2>10. ASSUME own # {} PROVE Nth(own, 1) = i
    <3>1. i \in own /\ \A j \in own : ~ (j < i)
      BY <2>5, <2>6, <2>9, <2>10 DEF FoundInOrder
    <3> HIDE DEF i
    <3>2. \A j \in own : j <= i <=> j = i
      <4>1. \A j \in own : j \in Nat
        BY <2>4
      <4> QED
        BY <3>1, <4>1
    <3>3. {j \in own : j <= i} = {i}
      BY <3>1, <3>2
    <3>4. Rank(own, i) = 1
      BY <3>3, FS_Singleton DEF Rank
    <3> QED
      BY <2>4, <3>1, <3>4, NthOfRank
  <2>11. own # {} => Cardinality(own) >= 1 /\ Cardinality(own) \in Nat
    BY <2>4, FS_EmptySet, FS_CardinalityType
  <2>12. ASSUME own # {} PROVE md_get_one(keys, key) = md_get_all(keys, key).list[1]
    <3>1. 1 \in 1..Cardinality(own)
      BY <2>11, <2>12
    <3>2. md_get_all(keys, key).list[1] = keys.entries[Nth(own, 1)].value
      BY <2>3, <3>1
    <3> QED
      BY <2>8, <2>10, <2>12, <3>2
  <2> QED
    BY <2>3, <2>7, <2>9, <2>12
<1> QED
  BY <1>1, AlwaysOrdered, PTL

-----------------------------------------------------------------------------
(* Sizes.                                                                  *)

\* An estimated table takes the items announced, of any number a table can
\* hold, and is at most twice as large as it needs to be.
THEOREM EstimateAlwaysFits == Spec => []EstimateFits
<1>1. EstimateFits
  <2> SUFFICES ASSUME NEW minused \in 0..Capacity(SIZE_T_BITS - 1),
                      NEW log2, log2 = estimate_log2_keysize(minused)
               PROVE  /\ minused <= Capacity(log2)
                      /\ \A k \in HT_LOG_MINSIZE..(log2 - 2) : Capacity(k) < minused
    BY Zenon DEF EstimateFits
  <2>1. SIZE_T_BITS - 1 \in 0..SIZE_T_BITS /\ SIZE_T_BITS - 1 \in Nat /\ SIZE_T_BITS \in Nat
    BY ConstantsAssumption
  <2>2. /\ Capacity(SIZE_T_BITS - 1) \in Nat /\ Capacity(SIZE_T_BITS) \in Nat
        /\ Capacity(SIZE_T_BITS - 1) <= Capacity(SIZE_T_BITS)
    BY <2>1, CapacityBounds, CapacityGrows
  <2>3. minused \in Nat
    BY <2>2
  <2>4. log2 \in 0..SIZE_T_BITS
    BY <2>3, KeysizeIsNumber DEF estimate_log2_keysize
  <2>5. minused <= Capacity(log2)
    <3>1. CASE log2 < SIZE_T_BITS
      BY <2>3, <3>1, EstimateSuffices
    <3>2. CASE log2 = SIZE_T_BITS
      BY <2>2, <2>3, <3>2
    <3> QED
      BY <2>1, <2>4, <3>1, <3>2
  <2>6. \A k \in HT_LOG_MINSIZE..(log2 - 2) : Capacity(k) < minused
    BY <2>3, EstimateTight
  <2> QED
    BY <2>5, <2>6
<1> QED
  BY <1>1, PTL

\* A table that has to grow is full of live entries, so GROWTH_RATE asks for
\* the next size.
LEMMA GrowthTarget ==
  ASSUME NEW ks, IsSound(ks), NeedsGrowth(ks, Cardinality(Live(ks)))
  PROVE  /\ Cardinality(Live(ks)) = Capacity(ks.log2_size)
         /\ calculate_log2_keysize(GROWTH_RATE(Cardinality(Live(ks))))
              = IF ks.log2_size = 0 THEN HT_LOG_MINSIZE ELSE ks.log2_size + 1
<1> DEFINE n == Cardinality(Live(ks))
           k == ks.log2_size
<1>1. /\ k \in Log2Sizes /\ Capacity(k) \in Nat
      /\ ks.nentries \in 0..Capacity(k) /\ ks.usable \in 0..Capacity(k)
      /\ ks.usable + ks.nentries = Capacity(k) /\ n \in Nat /\ n <= ks.nentries
  BY LiveFinite, SizeTypes DEF IsSound, IsHtKeys
<1>2. ~ (n < ks.nentries) /\ (ks.usable <= 0 \/ k = 0)
  BY DEF NeedsGrowth, NeedsRoom
<1>3. k = 0 => Capacity(k) = 0
  BY EmptyGrows
<1>4. n = Capacity(k)
  <2> HIDE DEF n, k
  <2> QED
    BY <1>1, <1>2, <1>3
<1> HIDE DEF n, k
<1>5. GROWTH_RATE(n) = Capacity(k) * 3
  BY <1>4 DEF GROWTH_RATE
<1>6. CASE k = 0
  <2>1. GROWTH_RATE(n) = 0 * 3
    BY <1>5, <1>6, EmptyGrows
  <2> QED
    BY <1>4, <1>6, <2>1, EmptyGrows DEF n, k
<1>7. CASE k # 0
  BY <1>1, <1>4, <1>5, <1>7, GrowthIsOneSize DEF n, k
<1> QED
  BY <1>6, <1>7

GrownByOne == keys'.log2_size = IF keys.log2_size = 0 THEN HT_LOG_MINSIZE
                                                      ELSE keys.log2_size + 1

\* An addition that has to grow the table doubles it.
LEMMA AddEntryDoubles ==
  ASSUME TableInvariant, NeedsGrowth(keys, used), NEW key \in Keys,
         NEW value \in Values, NEW update \in BOOLEAN, update \/ IsSettled(keys),
         CanMakeRoom(keys, used), keys' = AddEntry(keys, used, key, value, update)
  PROVE  GrownByOne
<1>1. /\ IsSound(keys) /\ used = Cardinality(Live(keys))
      /\ NeedsGrowth(keys, Cardinality(Live(keys)))
  BY DEF TableInvariant
<1>2. keys'.log2_size = calculate_log2_keysize(GROWTH_RATE(Cardinality(Live(keys))))
  <2>1. keys'.log2_size = IF NeedsGrowth(keys, Cardinality(Live(keys)))
              THEN calculate_log2_keysize(GROWTH_RATE(Cardinality(Live(keys))))
              ELSE keys.log2_size
    BY <1>1, AddEntrySound
  <2> QED
    BY <1>1, <2>1
<1> QED
  BY <1>1, <1>2, GrowthTarget DEF GrownByOne

\* Only an addition makes used one larger.
LEMMA NotAnAddition ==
  ASSUME TableInvariant
  PROVE  /\ used \in Nat
         /\ \A m \in Nat : used' = used - m => used' # used + 1
         /\ UNCHANGED used => used' # used + 1
         /\ used' = 0 => used' # used + 1
<1>1. used \in Nat
  BY LiveFinite DEF TableInvariant, IsSound
<1> QED
  BY <1>1

LEMMA NextDoubles ==
  TableInvariant /\ [Next]_vars =>
    (NeedsGrowth(keys, used) /\ used' = used + 1 => GrownByOne)
<1> SUFFICES ASSUME TableInvariant, [Next]_vars, NeedsGrowth(keys, used),
                    used' = used + 1
             PROVE  GrownByOne
  OBVIOUS
<1>0. /\ IsSound(keys) /\ used = Cardinality(Live(keys))
      /\ used \in Nat /\ used' # used /\ used' # 0
      /\ \A m \in Nat : used' # used - m
  BY NotAnAddition DEF TableInvariant
<1>1. CASE Idle /\ Call
  <2>1. IsSettled(keys)
    BY <1>1 DEF TableInvariant, Idle
  <2>2. ASSUME NEW key \in Keys, NEW value \in Values, AddItem(key, value)
        PROVE  GrownByOne
    BY <2>1, <2>2, AddEntryDoubles DEF AddItem
  <2>3. ASSUME NEW key \in Keys, DeleteKey(key) PROVE FALSE
    <3>1. used' = used - Cardinality(MatchingSlots(keys, hash_of(key), IdentityOf[key]))
      BY <2>3 DEF DeleteKey
    <3> QED
      BY <1>0, <3>1, SoundWhenInvariant, MatchingSlotsCount
  <2>4. ASSUME NEW key \in Keys, NEW value \in Values, MdReplace(key, value)
        PROVE  GrownByOne
    <3>1. ASSUME md_contains(keys, key), ReplaceItem(key, value) PROVE FALSE
      <4> DEFINE found == MatchingSlots(keys, hash_of(key), IdentityOf[key])
                 others == found \ {FirstMatch(keys, HashOf[IdentityOf[key]], IdentityOf[key])}
      <4>1. used' = used - Cardinality(others)
        BY <3>1, Zenon DEF ReplaceItem, hash_of
      <4>2. IsFiniteSet(found)
        BY SoundWhenInvariant, MatchingSlotsCount
      <4> HIDE DEF found
      <4>3. IsFiniteSet(others)
        BY <4>2, FS_Subset
      <4> HIDE DEF others
      <4>4. Cardinality(others) \in Nat
        BY <4>3, FS_CardinalityType
      <4> QED
        BY <1>0, <4>1, <4>4
    <3> QED
      BY <2>2, <2>4, <3>1 DEF MdReplace
  <2>5. ASSUME NEW key \in Keys, NEW value \in Values, MdAdd(key, value)
        PROVE  GrownByOne
    BY <2>2, <2>5 DEF MdAdd
  <2>6. ASSUME NEW key \in Keys, NEW value \in Values, MdSetDefault(key, value)
        PROVE  GrownByOne
    BY <1>0, <2>2, <2>6 DEF MdSetDefault
  <2>7. ASSUME NEW key \in Keys, MdDel(key) PROVE FALSE
    BY <1>0, <2>3, <2>7 DEF MdDel, KeyError
  <2>8. ASSUME NEW key \in Keys, MdPopOne(key) PROVE FALSE
    BY <1>0, <2>8 DEF MdPopOne, KeyError
  <2>9. ASSUME NEW key \in Keys, MdPopAll(key) PROVE FALSE
    BY <1>0, <2>3, <2>9 DEF MdPopAll, KeyError
  <2>10. ASSUME MdPopItem PROVE FALSE
    BY <1>0, <2>10 DEF MdPopItem, KeyError
  <2>11. ASSUME MdClear \/ OutOfMemory PROVE FALSE
    BY <1>0, <2>11 DEF MdClear, OutOfMemory
  <2> QED
    BY <1>1, <2>4, <2>5, <2>6, <2>7, <2>8, <2>9, <2>10, <2>11 DEF Call
<1>2. ASSUME NEW op, NEW hint, BulkBegin(op, hint) \/ BulkRefused(hint)
      PROVE  FALSE
  BY <1>0, <1>2 DEF BulkBegin, BulkRefused
<1>3. ASSUME NEW key \in Keys, NEW value \in Values, BulkItem(key, value)
      PROVE  GrownByOne
  <2>1. ASSUME AddForUpdate(key, value) PROVE GrownByOne
    BY <2>1, AddEntryDoubles DEF AddForUpdate
  <2>2. CASE bulk.op = "extend" /\ AddItem(key, value)
    <3>1. IsSettled(keys)
      BY <2>2 DEF TableInvariant
    <3> QED
      BY <2>2, <3>1, AddEntryDoubles DEF AddItem
  <2>3. CASE UpdateItem(key, value) \/ MergeItem(key, value)
    BY <1>0, <2>1, <2>3 DEF UpdateItem, MergeItem
  <2> QED
    BY <1>3, <2>2, <2>3 DEF BulkItem, ApplyItem
<1>4. ASSUME BulkEnd \/ BulkFail PROVE FALSE
  <2>1. Cardinality(HalfDeletedSlots(keys)) \in Nat
    BY <1>0, PostUpdateSound
  <2> QED
    BY <1>0, <1>4, <2>1 DEF BulkEnd, BulkFail, BulkStop
<1>5. ~ UNCHANGED vars
  BY <1>0 DEF vars
<1> QED
  BY <1>1, <1>2, <1>3, <1>4, <1>5 DEF Next

\* A table that grows because an item did not fit doubles.
THEOREM GrowthAlwaysDoubles == Spec => GrowthDoubles
<1>1. TableInvariant /\ [Next]_vars =>
        [NeedsGrowth(keys, used) /\ used' = used + 1 =>
           keys'.log2_size = IF keys.log2_size = 0 THEN HT_LOG_MINSIZE
                                                   ELSE keys.log2_size + 1]_vars
  BY NextDoubles DEF GrownByOne
<1> QED
  BY <1>1, TableAlwaysSound, PTL DEF Spec, GrowthDoubles

-----------------------------------------------------------------------------
(* Reservations.                                                           *)

\* The size of the table that takes the first item after a reservation.
ReservedSize == IF bulk.log2 = 0 THEN HT_LOG_MINSIZE ELSE bulk.log2

\* While a bulk call runs, the items are at most those it began with and those
\* it has taken, half-deleted ones included; and the size reserved has room for
\* the former and those announced.
ReservedInvariant ==
  ~ Idle =>
    /\ used <= Len(bulk.base) + Len(bulk.args)
    /\ Len(bulk.base) + bulk.hint <= Capacity(ReservedSize)
    /\ Len(bulk.args) <= bulk.hint => \/ keys.log2_size = bulk.log2
                                      \/ bulk.log2 = 0 /\ keys.log2_size = HT_LOG_MINSIZE

\* A size that an estimate computes holds what was estimated, and so does any
\* larger one.
LEMMA ReservedRoom ==
  ASSUME NEW n \in Nat, NEW log2 \in Log2Sizes, estimate_log2_keysize(n) <= log2
  PROVE  log2 # 0 /\ n <= Capacity(log2)
<1> DEFINE e == estimate_log2_keysize(n)
           m == (n * 3 + 1) \div 2
<1>1. e = calculate_log2_keysize(m) /\ m \in Nat
  BY DEF estimate_log2_keysize
<1>2. log2 \in Nat /\ log2 < SIZE_T_BITS /\ SIZE_T_BITS \in Nat
  BY ConstantsAssumption DEF Log2Sizes, HT_LOG_MINSIZE
<1> HIDE DEF m
<1>3. e \in 0..SIZE_T_BITS
  <2> HIDE DEF e
  <2> QED
    BY <1>1, KeysizeIsNumber
<1>4. e < SIZE_T_BITS
  BY <1>2, <1>3
<1>5. e \in Log2Sizes \ {0} /\ n <= Capacity(e)
  <2>1. calculate_log2_keysize(m) \in Log2Sizes \ {0}
    BY <1>1, <1>4, KeysizeSuffices
  <2> QED
    BY <1>1, <1>4, <2>1, EstimateSuffices
<1> HIDE DEF e
<1>6. e \in 0..log2 /\ e # 0
  BY <1>2, <1>3, <1>5 DEF e
<1>7. Capacity(e) <= Capacity(log2) /\ Capacity(e) \in Nat /\ Capacity(log2) \in Nat
  BY <1>2, <1>3, <1>6, CapacityGrows, CapacityBounds
<1> QED
  BY <1>2, <1>5, <1>6, <1>7

\* A new multidict has room for what md_init was told, as far as it believes it.
LEMMA InitReserved == Init => ReservedInvariant
<1> SUFFICES ASSUME Init PROVE ReservedInvariant
  OBVIOUS
<1> DEFINE large(n) == n > USABLE_FRACTION(max_presize)
           log2(n) == IF large(n) THEN log2_max_presize ELSE estimate_log2_keysize(n)
           hint(n) == IF large(n) THEN USABLE_FRACTION(max_presize) ELSE n
           table(n) == IF n <= USABLE_FRACTION(HT_MINSIZE) THEN empty_htkeys
                                                           ELSE htkeys_new(log2(n))
<1>1. PICK n \in Hints :
        /\ table(n) = empty_htkeys \/ ~ TooLarge(log2(n))
        /\ keys = table(n)
        /\ used = 0
        /\ bulk = [NoBulk EXCEPT !.op = "extend", !.log2 = table(n).log2_size,
                                 !.hint = hint(n)]
  BY Zenon DEF Init
<1>2. n \in Nat
  BY HashTableAssumption
<1>3. /\ bulk.op = "extend" /\ bulk.base = <<>> /\ bulk.args = <<>>
      /\ bulk.log2 = keys.log2_size /\ bulk.hint = hint(n)
  <2> HIDE DEF hint, table
  <2> QED
    BY <1>1 DEF NoBulk
<1>4. TableInvariant
  BY InitSound
<1>5. keys.log2_size \in Log2Sizes
  BY <1>4 DEF TableInvariant, IsSound, IsHtKeys
<1>6. max_presize = Nslots(17) /\ USABLE_FRACTION(max_presize) = Capacity(17)
      /\ Capacity(17) \in Nat
  BY CapacityBounds DEF max_presize, log2_max_presize, Nslots, Capacity
<1>7. Capacity(HT_LOG_MINSIZE) = USABLE_FRACTION(HT_MINSIZE)
      /\ USABLE_FRACTION(HT_MINSIZE) = 5
  <2>1. 2 ^ 3 = 8
    <3>1. 2 ^ (2 + 1) = 2 * 2 ^ 2 /\ 2 ^ 2 = 4
      BY PowerDoubles, SmallPowers
    <3> QED
      BY <3>1
  <2> QED
    BY <2>1 DEF Capacity, Nslots, HT_LOG_MINSIZE, HT_MINSIZE, USABLE_FRACTION
<1>8. hint(n) \in Nat /\ hint(n) <= n
  BY <1>2, <1>6
<1>9. hint(n) <= Capacity(ReservedSize)
  <2>1. CASE n <= USABLE_FRACTION(HT_MINSIZE)
    <3>1. keys.log2_size = 0
      BY <1>1, <2>1 DEF empty_htkeys, htkeys_new
    <3> QED
      BY <1>2, <1>3, <1>7, <1>8, <2>1, <3>1 DEF ReservedSize
  <2>2. CASE ~ (n <= USABLE_FRACTION(HT_MINSIZE)) /\ large(n)
    <3>1. keys.log2_size = 17
      BY <1>1, <2>2 DEF htkeys_new, log2_max_presize
    <3> QED
      BY <1>3, <1>6, <2>2, <3>1 DEF ReservedSize
  <2>3. CASE ~ (n <= USABLE_FRACTION(HT_MINSIZE)) /\ ~ large(n)
    <3>1. keys.log2_size = estimate_log2_keysize(n) /\ hint(n) = n
      BY <1>1, <2>3 DEF htkeys_new
    <3>2. keys.log2_size <= keys.log2_size
      BY <1>5, SizeTypes
    <3>3. keys.log2_size # 0 /\ n <= Capacity(keys.log2_size)
      BY <1>2, <1>5, <3>1, <3>2, ReservedRoom
    <3> QED
      BY <1>3, <3>1, <3>3 DEF ReservedSize
  <2> QED
    BY <2>1, <2>2, <2>3
<1>10. Len(bulk.base) = 0 /\ Len(bulk.args) = 0 /\ used = 0
  BY <1>1, <1>3
<1> HIDE DEF hint
<1> QED
  BY <1>3, <1>8, <1>9, <1>10 DEF ReservedInvariant

\* md_reserve counts what is there and what is announced.
LEMMA BeginReserves ==
  ASSUME TableInvariant, Idle, NEW op \in BulkOps, NEW extra \in Nat, BulkBegin(op, extra)
  PROVE  ReservedInvariant'
<1>1. /\ IsSound(keys) /\ IsSettled(keys) /\ used = Cardinality(Live(keys)) /\ used \in Nat
  BY LiveFinite DEF TableInvariant, Idle, IsSound
<1>2. /\ keys' = _md_reserve(keys, used, extra) /\ used' = used
      /\ bulk' = [op |-> op, base |-> Items, args |-> <<>>, hint |-> extra,
                  log2 |-> keys'.log2_size, version |-> version]
      /\ NeedsReserve(keys, used, extra) => ~ TooLarge(estimate_log2_keysize(extra + used))
  BY DEF BulkBegin
<1>3. /\ IsSound(keys')
      /\ keys'.log2_size = IF NeedsReserve(keys, used, extra)
           THEN estimate_log2_keysize(extra + used) ELSE keys.log2_size
  BY <1>1, <1>2, ReserveSound
<1>4. keys'.log2_size \in Log2Sizes /\ keys'.log2_size \in Nat
  BY <1>3, SizeTypes DEF IsSound, IsHtKeys
<1>5. extra + used \in Nat
  BY <1>1
<1>6. estimate_log2_keysize(extra + used) \in Nat
  <2>1. ((extra + used) * 3 + 1) \div 2 \in Nat
    BY <1>5
  <2>2. calculate_log2_keysize(((extra + used) * 3 + 1) \div 2) \in 0..SIZE_T_BITS
    BY <2>1, KeysizeIsNumber
  <2> QED
    BY <2>2, ConstantsAssumption DEF estimate_log2_keysize
<1>7. keys.log2_size \in Nat
  BY <1>1, SizeTypes DEF IsSound, IsHtKeys
<1>8. estimate_log2_keysize(extra + used) <= keys'.log2_size
  BY <1>3, <1>4, <1>6, <1>7 DEF NeedsReserve
<1>9. keys'.log2_size # 0 /\ extra + used <= Capacity(keys'.log2_size)
  BY <1>4, <1>5, <1>8, ReservedRoom
<1>10. Len(Items) = used
  BY <1>1 DEF Items, ItemsOf
<1>11. ReservedSize' = keys'.log2_size
  BY <1>2, <1>9 DEF ReservedSize
<1>12. /\ Len(bulk'.base) = used /\ Len(bulk'.args) = 0 /\ bulk'.hint = extra
       /\ bulk'.log2 = keys'.log2_size
  BY <1>2, <1>10
<1>13. used' <= Len(bulk'.base) + Len(bulk'.args)
  BY <1>1, <1>2, <1>12
<1>14. Len(bulk'.base) + bulk'.hint <= Capacity(ReservedSize')
  BY <1>1, <1>9, <1>11, <1>12
<1> QED
  BY <1>12, <1>13, <1>14 DEF ReservedInvariant

\* An item within the reservation does not make the table grow, unless it is
\* the first one of a new multidict.
LEMMA AddEntryReserved ==
  ASSUME TableInvariant, TypeOK, ReservedInvariant, ~ Idle, NEW key \in Keys,
         NEW value \in Values, NEW update \in BOOLEAN, update \/ IsSettled(keys),
         CanMakeRoom(keys, used), keys' = AddEntry(keys, used, key, value, update),
         Len(bulk.args) < bulk.hint
  PROVE  \/ keys'.log2_size = bulk.log2
         \/ bulk.log2 = 0 /\ keys'.log2_size = HT_LOG_MINSIZE
<1>1. /\ IsSound(keys) /\ used = Cardinality(Live(keys)) /\ used \in Nat
  BY LiveFinite DEF TableInvariant, IsSound
<1>2. /\ used <= Len(bulk.base) + Len(bulk.args)
      /\ Len(bulk.base) + bulk.hint <= Capacity(ReservedSize)
      /\ Len(bulk.base) \in Nat /\ Len(bulk.args) \in Nat /\ bulk.hint \in Nat
      /\ bulk.log2 \in Log2Sizes
  BY DEF ReservedInvariant, TypeOK
<1>3. \/ keys.log2_size = bulk.log2
      \/ bulk.log2 = 0 /\ keys.log2_size = HT_LOG_MINSIZE
  BY <1>2 DEF ReservedInvariant
<1>4. CASE ~ NeedsGrowth(keys, used)
  <2>1. keys'.log2_size = IF NeedsGrowth(keys, Cardinality(Live(keys)))
              THEN calculate_log2_keysize(GROWTH_RATE(Cardinality(Live(keys))))
              ELSE keys.log2_size
    BY <1>1, AddEntrySound
  <2> QED
    BY <1>1, <1>3, <1>4, <2>1
<1>5. CASE NeedsGrowth(keys, used)
  <2>1. used = Capacity(keys.log2_size)
    BY <1>1, <1>5, GrowthTarget
  <2>2. Capacity(ReservedSize) \in Nat
    <3>1. ReservedSize \in Nat
      BY <1>2, SizeTypes DEF ReservedSize, HT_LOG_MINSIZE
    <3> QED
      BY <3>1, CapacityBounds
  <2>3. used < Capacity(ReservedSize)
    <3> DEFINE old == Len(bulk.base)
               taken == Len(bulk.args)
               extra == bulk.hint
               room == Capacity(ReservedSize)
    <3>1. /\ used <= old + taken /\ old + extra <= room /\ taken < extra
          /\ used \in Nat /\ old \in Nat /\ taken \in Nat /\ extra \in Nat
          /\ room \in Nat
      BY <1>1, <1>2, <2>2
    <3> HIDE DEF old, taken, extra, room
    <3>2. used < room
      BY <3>1
    <3> QED
      BY <3>2 DEF room
  <2>4. keys.log2_size = 0 /\ bulk.log2 = 0
    <3>1. Capacity(keys.log2_size) # Capacity(ReservedSize)
      BY <1>1, <2>1, <2>2, <2>3
    <3>2. ReservedSize # keys.log2_size
      BY <3>1
    <3> QED
      BY <1>3, <3>2 DEF ReservedSize, HT_LOG_MINSIZE
  <2>5. GrownByOne
    BY <1>1, <1>5, AddEntryDoubles
  <2> QED
    BY <2>4, <2>5 DEF GrownByOne
<1> QED
  BY <1>4, <1>5

LEMMA ItemReserved ==
  ASSUME TableInvariant, TypeOK, ReservedInvariant, ~ Idle, NEW key \in Keys,
         NEW value \in Values, BulkItem(key, value)
  PROVE  ReservedInvariant'
<1> DEFINE item == [key |-> key, value |-> value]
<1>1. bulk' = [bulk EXCEPT !.args = Append(@, item)] /\ ApplyItem(key, value)
  BY DEF BulkItem
<1>2. /\ bulk.base \in Seq([key : Keys, value : Values])
      /\ bulk.args \in Seq([key : Keys, value : Values])
      /\ bulk.hint \in Nat /\ bulk.log2 \in Log2Sizes
      /\ bulk \in [op : BulkOps \cup {"none"}, base : Seq([key : Keys, value : Values]),
               args : Seq([key : Keys, value : Values]), hint : Nat,
               log2 : Log2Sizes, version : Nat]
  BY DEF TypeOK
<1>3. /\ Len(bulk.base) \in Nat /\ Len(bulk.args) \in Nat
      /\ Len(Append(bulk.args, item)) = Len(bulk.args) + 1
  BY <1>2
<1>4. /\ bulk'.base = bulk.base /\ bulk'.hint = bulk.hint /\ bulk'.log2 = bulk.log2
      /\ bulk'.op = bulk.op /\ bulk'.args = Append(bulk.args, item)
  <2> HIDE DEF item
  <2> QED
    BY <1>1, <1>2
<1> HIDE DEF item
<1>5. Len(bulk'.args) = Len(bulk.args) + 1
  BY <1>3, <1>4
<1>6. used \in Nat /\ (used' = used + 1 \/ used' = used)
  <2>1. used \in Nat
    BY LiveFinite DEF TableInvariant, IsSound
  <2>2. used' = used + 1 \/ used' = used
    BY <1>1 DEF ApplyItem, AddItem, UpdateItem, MergeItem, AddForUpdate
  <2> QED
    BY <2>1, <2>2
<1>7. ASSUME Len(bulk'.args) <= bulk'.hint
      PROVE  \/ keys'.log2_size = bulk'.log2
             \/ bulk'.log2 = 0 /\ keys'.log2_size = HT_LOG_MINSIZE
  <2>1. Len(bulk.args) < bulk.hint
    BY <1>2, <1>3, <1>4, <1>5, <1>7
  <2>2. \/ keys.log2_size = bulk.log2
        \/ bulk.log2 = 0 /\ keys.log2_size = HT_LOG_MINSIZE
    BY <1>2, <1>3, <2>1 DEF ReservedInvariant
  <2>3. CASE bulk.op = "extend" /\ AddItem(key, value)
    <3>1. IsSettled(keys)
      BY <2>3 DEF TableInvariant
    <3> QED
      BY <1>4, <2>1, <2>3, <3>1, AddEntryReserved DEF AddItem
  <2>4. CASE AddForUpdate(key, value)
    BY <1>4, <2>1, <2>4, AddEntryReserved DEF AddForUpdate
  <2>5. CASE UpdateItem(key, value) /\ ~ AddForUpdate(key, value)
    <3>1. md_contains(keys, key) /\ keys' = ReplaceForUpdate(keys, key, value)
      BY <2>5 DEF UpdateItem
    <3>2. keys'.log2_size = keys.log2_size
      BY <3>1, ReplaceForUpdateSound DEF TableInvariant
    <3> QED
      BY <1>4, <2>2, <3>2
  <2>6. CASE MergeItem(key, value) /\ ~ AddForUpdate(key, value)
    BY <1>4, <2>2, <2>6 DEF MergeItem
  <2> QED
    BY <1>1, <2>3, <2>4, <2>5, <2>6 DEF ApplyItem
<1>8. used <= Len(bulk.base) + Len(bulk.args)
      /\ Len(bulk.base) + bulk.hint <= Capacity(ReservedSize)
  BY DEF ReservedInvariant
<1>9. used' <= Len(bulk'.base) + Len(bulk'.args)
  <2> DEFINE old == Len(bulk.base)
             taken == Len(bulk.args)
             took == Len(bulk'.args)
  <2>1. /\ used <= old + taken /\ took = taken + 1 /\ Len(bulk'.base) = old
        /\ old \in Nat /\ taken \in Nat
    BY <1>3, <1>4, <1>5, <1>8
  <2> HIDE DEF old, taken, took
  <2>2. used' <= old + took
    BY <1>6, <2>1
  <2> QED
    BY <2>1, <2>2 DEF took
<1>10. ReservedSize' = ReservedSize
  BY <1>4 DEF ReservedSize
<1>11. Len(bulk'.base) + bulk'.hint <= Capacity(ReservedSize')
  BY <1>4, <1>8, <1>10
<1> QED
  BY <1>7, <1>9, <1>11 DEF ReservedInvariant

\* A reservation is enough for what it was made for.
THEOREM ReservationAlwaysSuffices == Spec => []ReservationSuffices
<1>1. TableInvariant /\ TypeOK /\ ReservedInvariant /\ [Next]_vars => ReservedInvariant'
  <2> SUFFICES ASSUME TableInvariant, TypeOK, ReservedInvariant, [Next]_vars
               PROVE  ReservedInvariant'
    OBVIOUS
  <2>1. ASSUME Idle, UNCHANGED bulk PROVE ReservedInvariant'
    BY <2>1 DEF ReservedInvariant, Idle
  <2>2. ASSUME Idle, NEW op \in BulkOps, NEW hint \in Hints, BulkBegin(op, hint)
        PROVE  ReservedInvariant'
    BY <2>2, BeginReserves, HashTableAssumption
  <2>3. ASSUME ~ Idle, NEW key \in Keys, NEW value \in Values, BulkItem(key, value)
        PROVE  ReservedInvariant'
    BY <2>3, ItemReserved
  <2>4. ASSUME BulkEnd \/ BulkFail PROVE ReservedInvariant'
    <3>1. Idle'
      BY <2>4 DEF BulkEnd, BulkFail, BulkStop, NoBulk, Idle
    <3> QED
      BY <3>1 DEF ReservedInvariant
  <2>5. CASE UNCHANGED vars
    BY <2>5 DEF vars, ReservedInvariant, ReservedSize, Idle
  <2> QED
    BY <2>1, <2>2, <2>3, <2>4, <2>5 DEF Next, BulkRefused
<1>2. ReservedInvariant => ReservationSuffices
  BY DEF ReservedInvariant, ReservationSuffices
<1> QED
  BY <1>1, <1>2, InitReserved, TableAlwaysSound, TypeAlwaysOK, PTL DEF Spec

-----------------------------------------------------------------------------
(* What the calls leave behind, of a table in which a finder, an update or *)
(* a merge may have left marks.                                            *)

\* An entry that has a key has the identity of its key.
Identified(ks) ==
  \A i \in Live(ks) :
    ks.entries[i].key # NULL => ks.entries[i].identity = IdentityOf[ks.entries[i].key]

\* Where an entry comes from: it was in the table, or has the identity of its
\* key.
ComesFrom(e, ks) ==
  \/ \E j \in Live(ks) : e.identity = ks.entries[j].identity /\ e.key = ks.entries[j].key
  \/ e.key # NULL /\ e.identity = IdentityOf[e.key]

EntriesFrom(new, ks) == \A i \in Live(new) : ComesFrom(new.entries[i], ks)

\* A mark was there before.
MarksFrom(new, ks) ==
  \A i \in Live(new) : new.entries[i].hash = MARK =>
    \E j \in Live(ks) : /\ ks.entries[j].hash = MARK
                        /\ ks.entries[j].identity = new.entries[i].identity

\* What a call in between leaves behind: it may find marks, and leaves none
\* where there were none.
KeptAfter ==
  /\ IsSound(keys')
  /\ used' = Cardinality(Live(keys'))
  /\ IsSettled(keys) => IsSettled(keys')
  /\ EntriesFrom(keys', keys)

\* The entries there are have the keys they had.
SameKeys(new, ks) ==
  \A i \in Live(new) : /\ i \in Live(ks)
                       /\ new.entries[i].identity = ks.entries[i].identity
                       /\ new.entries[i].key = ks.entries[i].key

\* No entry is half deleted.
AllHaveKeys(ks) == \A i \in Live(ks) : ks.entries[i].key # NULL

LEMMA FromItself ==
  ASSUME NEW ks
  PROVE  EntriesFrom(ks, ks) /\ MarksFrom(ks, ks)
BY DEF EntriesFrom, ComesFrom, MarksFrom

\* Where there was no mark and there is none.
LEMMA NoMarks ==
  ASSUME NEW ks, IsSettled(ks)
  PROVE  \A other : MarksFrom(ks, other)
BY DEF IsSettled, MarksFrom

LEMMA FromBefore ==
  ASSUME NEW ks, NEW mid, NEW new, EntriesFrom(mid, ks), EntriesFrom(new, mid)
  PROVE  EntriesFrom(new, ks)
BY DEF EntriesFrom, ComesFrom

LEMMA FromIdentified ==
  ASSUME NEW ks, NEW new, EntriesFrom(new, ks)
  PROVE  /\ Identified(ks) => Identified(new)
         /\ AllHaveKeys(ks) => AllHaveKeys(new)
BY DEF EntriesFrom, ComesFrom, Identified, AllHaveKeys

\* A rebuild moves entries, and an addition adds one that has the identity of
\* its key.
LEMMA CompactedFrom ==
  ASSUME NEW ks, NEW new, Compacted(new, ks)
  PROVE  EntriesFrom(new, ks)
BY DEF Compacted, EntriesFrom, ComesFrom

LEMMA AddedFrom ==
  ASSUME NEW ks, NEW new, NEW key \in Keys, NEW value, NEW update,
         Added(new, ks, NewEntry(key, value, update))
  PROVE  EntriesFrom(new, ks)
<1> DEFINE entry == NewEntry(key, value, update)
<1>1. entry.identity = IdentityOf[entry.key] /\ entry.key # NULL
  BY HashTableAssumption, ConstantsAssumption DEF NewEntry
<1> HIDE DEF entry
<1>2. PICK room : /\ room = ks \/ Compacted(room, ks)
                  /\ Stored(new, room, entry)
  BY Zenon DEF Added, entry
<1>3. EntriesFrom(room, ks)
  BY <1>2, FromItself, CompactedFrom
<1>4. EntriesFrom(new, room)
  BY <1>1, <1>2 DEF Stored, EntriesFrom, ComesFrom
<1> QED
  BY <1>3, <1>4, FromBefore

\* An addition that does not rebuild the indices, or finds no mark.
LEMMA AddWithMarks ==
  ASSUME NEW ks, IsSound(ks), NEW key \in Keys, NEW value \in Values,
         IsSettled(ks) \/ ~ NeedsRoom(ks), CanMakeRoom(ks, Cardinality(Live(ks))),
         NEW new, new = AddEntry(ks, Cardinality(Live(ks)), key, value, FALSE)
  PROVE  /\ IsSound(new)
         /\ Cardinality(Live(new)) = Cardinality(Live(ks)) + 1
         /\ IsSettled(ks) => IsSettled(new)
         /\ Added(new, ks, NewEntry(key, value, FALSE))
         /\ MarksFrom(new, ks)
<1>1. CASE IsSettled(ks)
  BY <1>1, AddEntrySound, NoMarks
<1>2. CASE ~ NeedsRoom(ks)
  <2> DEFINE id == IdentityOf[key]
             entry == [hash |-> HashOf[id], identity |-> id,
                       key |-> key, value |-> value]
  <2>1. /\ id \in Identities /\ key # NULL /\ value # NULL
        /\ HashOf[id] \in Hashes
    BY HashTableAssumption, ConstantsAssumption DEF Hashes
  <2>2. ks.usable >= 1
    <3>1. ks.usable \in Nat
      BY SizeTypes DEF IsSound, IsHtKeys
    <3> QED
      BY <1>2, <3>1 DEF NeedsRoom
  <2>3. new = StoreEntry(ks, htkeys_find_empty_slot(ks, HashOf[id]), entry)
    BY <1>2 DEF AddEntry, MakeRoom, hash_of
  <2>4. /\ entry \in Entry /\ entry = NewEntry(key, value, FALSE)
        /\ entry.identity = id /\ entry.key = key /\ entry.value = value
        /\ entry.hash = HashOf[id] /\ entry.hash # MARK
    <3>1. HashOf[id] # MARK
      BY <2>1, ConstantsAssumption DEF MARK
    <3> QED
      BY <2>1, <3>1 DEF Entry, NewEntry, hash_of
  <2> HIDE DEF entry
  <2>5. /\ new = StoreEntry(ks, htkeys_find_empty_slot(ks, HashOf[entry.identity]), entry)
        /\ entry.identity \in Identities /\ entry.key # NULL /\ entry.value # NULL
        /\ entry.hash \in {HashOf[entry.identity], MARK} /\ entry.hash # MARK
    BY <2>1, <2>3, <2>4
  <2> HIDE DEF id
  <2>6. /\ IsSound(new)
        /\ Cardinality(Live(new)) = Cardinality(Live(ks)) + 1
        /\ IsSettled(ks) /\ entry.hash # MARK => IsSettled(new)
        /\ Stored(new, ks, entry)
    BY <2>2, <2>4, <2>5, StoreSound
  <2>7. MarksFrom(new, ks)
    BY <2>4, <2>6 DEF Stored, MarksFrom
  <2> QED
    BY <2>4, <2>6, <2>7 DEF Added
<1> QED
  BY <1>1, <1>2

\* The same as an action.
LEMMA AddItemKept ==
  ASSUME SoundTable, NEW key \in Keys, NEW value \in Values,
         AddItem(key, value), IsSettled(keys) \/ ~ NeedsRoom(keys)
  PROVE  KeptAfter /\ MarksFrom(keys', keys)
<1>1. /\ IsSound(keys') /\ used' = Cardinality(Live(keys'))
      /\ IsSettled(keys) => IsSettled(keys')
      /\ Added(keys', keys, NewEntry(key, value, FALSE))
      /\ MarksFrom(keys', keys)
  BY AddWithMarks DEF SoundTable, AddItem
<1> QED
  BY <1>1, AddedFrom DEF KeptAfter

\* Slots emptied, and counted off used.
LEMMA SlotsEmptied ==
  ASSUME SoundTable, NEW slots \in SUBSET Slots(keys.log2_size),
         \A s \in slots : keys.indices[s] >= 0,
         keys' = DeleteAt(keys, slots), used' = used - Cardinality(slots)
  PROVE  KeptAfter /\ MarksFrom(keys', keys)
<1>1. IsSound(keys) /\ used = Cardinality(Live(keys))
  BY DEF SoundTable
<1>2. /\ IsSound(keys')
      /\ Live(keys') = Live(keys) \ IndexedBy(keys, slots)
      /\ Cardinality(Live(keys')) = Cardinality(Live(keys)) - Cardinality(slots)
      /\ \A i \in Live(keys') : keys'.entries[i] = keys.entries[i]
  BY <1>1, DeleteSound
<1>3. IsSettled(keys) => IsSettled(keys')
  BY <1>2 DEF IsSettled
<1>4. EntriesFrom(keys', keys)
  BY <1>2 DEF EntriesFrom, ComesFrom
<1>5. MarksFrom(keys', keys)
  BY <1>2 DEF MarksFrom
<1> QED
  BY <1>1, <1>2, <1>3, <1>4, <1>5 DEF KeptAfter

\* The deletion of the items of a key that can be seen.
LEMMA DeleteKeyKept ==
  ASSUME SoundTable, NEW key \in Keys, DeleteKey(key)
  PROVE  KeptAfter /\ MarksFrom(keys', keys)
<1> DEFINE id == IdentityOf[key]
           slots == MatchingSlots(keys, HashOf[id], id)
<1>1. IsSound(keys) /\ id \in Identities
  BY HashTableAssumption DEF SoundTable
<1>2. keys' = DeleteAt(keys, slots) /\ used' = used - Cardinality(slots)
  BY DEF DeleteKey, hash_of
<1> HIDE DEF id
<1>3. slots \in SUBSET Slots(keys.log2_size) /\ \A s \in slots : keys.indices[s] >= 0
  BY <1>1, MatchesAreLive
<1> HIDE DEF slots
<1> QED
  BY <1>2, <1>3, SlotsEmptied

\* The deletion of the first of them.
LEMMA PopOneKept ==
  ASSUME SoundTable, NEW key \in Keys, MdPopOne(key)
  PROVE  KeptAfter /\ MarksFrom(keys', keys)
<1> DEFINE id == IdentityOf[key]
           slots == {FirstMatch(keys, HashOf[id], id)}
<1>1. IsSound(keys) /\ id \in Identities /\ used = Cardinality(Live(keys))
  BY HashTableAssumption DEF SoundTable
<1>2. CASE ~ md_contains(keys, key)
  BY <1>1, <1>2, FromItself DEF MdPopOne, KeyError, KeptAfter
<1>3. CASE md_contains(keys, key)
  <2>1. keys' = DeleteAt(keys, slots) /\ used' = used - 1
    BY <1>3 DEF MdPopOne, hash_of
  <2>2. Matches(keys, HashOf[id], id) # {}
    BY <1>3 DEF md_contains, hash_of
  <2> HIDE DEF id
  <2>3. slots \in SUBSET Slots(keys.log2_size) /\ \A s \in slots : keys.indices[s] >= 0
    BY <1>1, <2>2, MatchesAreLive
  <2>4. Cardinality(slots) = 1
    BY FS_Singleton
  <2> HIDE DEF slots
  <2> QED
    BY <2>1, <2>3, <2>4, SlotsEmptied
<1> QED
  BY <1>2, <1>3

\* popitem(), which takes the last live entry whatever its state.
LEMMA PopItemKept ==
  ASSUME SoundTable, MdPopItem
  PROVE  KeptAfter /\ MarksFrom(keys', keys)
<1>1. CASE used = 0
  BY <1>1, FromItself DEF MdPopItem, KeyError, SoundTable, KeptAfter
<1>2. CASE used # 0
  BY <1>2, PopItemSlot, SlotsEmptied DEF SoundTable
<1> QED
  BY <1>1, <1>2

\* clear(), of a table with marks too.
LEMMA ClearKept ==
  ASSUME SoundTable, MdClear
  PROVE  KeptAfter /\ MarksFrom(keys', keys)
<1>1. CASE keys = empty_htkeys
  BY <1>1, FromItself DEF MdClear, SoundTable, KeptAfter
<1>2. CASE keys # empty_htkeys
  <2>1. keys' = htkeys_new(0) /\ used' = 0 /\ 0 \in Log2Sizes
    BY <1>2 DEF MdClear, empty_htkeys, Log2Sizes
  <2>2. IsSound(keys') /\ IsSettled(keys') /\ Cardinality(Live(keys')) = 0
    BY <2>1, NewTableSound
  <2>3. Live(keys') = {}
    BY <2>2, LiveFinite, FS_EmptySet DEF IsSound
  <2> QED
    BY <2>1, <2>2, <2>3 DEF KeptAfter, EntriesFrom, MarksFrom
<1> QED
  BY <1>1, <1>2

\* getall(), when no mark but its own is there.
LEMMA GetAllKept ==
  ASSUME TableInvariant, IsSettled(keys), NEW key \in Keys, GetAll(key)
  PROVE  KeptAfter
BY GetAllTyped, FromItself DEF GetAll, TableInvariant, KeptAfter

\* A table without the entries of some slots, in which no mark is left.
Cleaned(clean, ks, others) ==
  /\ IsSound(clean) /\ IsSettled(clean)
  /\ Live(clean) = Live(ks) \ IndexedBy(ks, others)
  /\ Cardinality(Live(clean)) = Cardinality(Live(ks)) - Cardinality(others)
  /\ SameKeys(clean, ks)

\* The finder of __setitem__, after it has marked what it found and emptied
\* all slots but one: its cleanup restores the hash of that one.
LEMMA FinderCleaned ==
  ASSUME NEW ks, IsSound(ks), IsSettled(ks), NEW id \in Identities,
         NEW found, found = MatchingSlots(ks, HashOf[id], id),
         NEW others \in SUBSET found,
         NEW clean, clean = md_finder_cleanup(DeleteAt(Marked(ks, found), others),
                                              HashOf[id])
  PROVE  Cleaned(clean, ks, others)
<1> DEFINE hash == HashOf[id]
           marked == Marked(ks, found)
           rest == DeleteAt(marked, others)
           path == {IndexAt(rest, hash, n) : n \in 0..(PathLength(rest, hash) - 1)}
           restored(i) == IF i \in path /\ rest.entries[i].hash = MARK
                            THEN [rest.entries[i] EXCEPT !.hash = hash]
                            ELSE rest.entries[i]
           es == [i \in DOMAIN rest.entries |-> restored(i)]
<1>1. /\ found \in SUBSET Slots(ks.log2_size)
      /\ \A s \in found : /\ ks.indices[s] >= 0 /\ ks.indices[s] \in Live(ks)
                          /\ ks.entries[ks.indices[s]].identity = id
      /\ hash \in Hashes /\ hash # MARK
  BY MatchesAreLive, ConstantsAssumption DEF Hashes, MARK
<1>2. \A i \in IndexedBy(ks, found) : i \in Live(ks) /\ ks.entries[i].identity = id
  BY <1>1 DEF IndexedBy
<1>3. clean = Rewritten(rest, es)
  BY DEF md_finder_cleanup, Rewritten
<1> HIDE DEF marked
<1>4. /\ IsSound(marked) /\ Live(marked) = Live(ks)
      /\ marked.log2_size = ks.log2_size /\ marked.indices = ks.indices
      /\ \A i \in Live(ks) :
           /\ marked.entries[i].identity = ks.entries[i].identity
           /\ marked.entries[i].key = ks.entries[i].key
           /\ marked.entries[i].value = ks.entries[i].value
           /\ marked.entries[i].hash
                = IF i \in IndexedBy(ks, found) THEN MARK ELSE ks.entries[i].hash
  BY <1>1, MarkedSound DEF marked
<1>5. IndexedBy(marked, others) = IndexedBy(ks, others)
  <2>1. marked.indices = ks.indices
    BY <1>4
  <2> QED
    BY <2>1, Zenon DEF IndexedBy
<1>6. /\ IsSound(rest) /\ rest.log2_size = ks.log2_size
      /\ Live(rest) = Live(ks) \ IndexedBy(ks, others)
      /\ Cardinality(Live(rest)) = Cardinality(Live(ks)) - Cardinality(others)
      /\ \A i \in Live(rest) : rest.entries[i] = marked.entries[i]
  <2>1. /\ others \in SUBSET Slots(marked.log2_size)
        /\ \A s \in others : marked.indices[s] >= 0
    BY <1>1, <1>4
  <2> QED
    BY <1>4, <1>5, <2>1, DeleteSound
<1> HIDE DEF rest, hash
<1>7. \A i \in Live(rest) :
        /\ i \in EntryIndices(ks.log2_size)
        /\ rest.entries[i].identity = ks.entries[i].identity
        /\ rest.entries[i].key # NULL /\ rest.entries[i].value # NULL
        /\ rest.entries[i].hash = MARK => rest.entries[i].identity = id
  <2>1. \A i \in Live(ks) : /\ i \in EntryIndices(ks.log2_size)
                            /\ ks.entries[i].key # NULL /\ ks.entries[i].value # NULL
                            /\ ks.entries[i].hash # MARK
    BY LiveFinite, LiveEntry DEF IsSound, IsSettled
  <2> QED
    BY <1>2, <1>4, <1>6, <2>1
<1>8. rest.entries \in [EntryIndices(ks.log2_size) -> Entry]
  BY <1>6 DEF IsSound, IsHtKeys
<1>9. \A e \in Entry : /\ [e EXCEPT !.hash = hash] \in Entry
                       /\ [e EXCEPT !.hash = hash].identity = e.identity
                       /\ [e EXCEPT !.hash = hash].key = e.key
                       /\ [e EXCEPT !.hash = hash].value = e.value
                       /\ [e EXCEPT !.hash = hash].hash = hash
  BY <1>1 DEF Entry
<1>10. ASSUME NEW i \in EntryIndices(ks.log2_size)
       PROVE  /\ restored(i) \in Entry
              /\ restored(i).identity = rest.entries[i].identity
              /\ restored(i).key = rest.entries[i].key
              /\ restored(i).value = rest.entries[i].value
              /\ restored(i).hash = IF i \in path /\ rest.entries[i].hash = MARK
                                      THEN hash ELSE rest.entries[i].hash
  <2>1. rest.entries[i] \in Entry
    BY <1>8
  <2>2. CASE i \in path /\ rest.entries[i].hash = MARK
    <3>1. restored(i) = [rest.entries[i] EXCEPT !.hash = hash]
      BY <2>2
    <3> HIDE DEF restored, path
    <3> QED
      BY <1>9, <2>1, <2>2, <3>1
  <2>3. CASE ~ (i \in path /\ rest.entries[i].hash = MARK)
    <3>1. restored(i) = rest.entries[i]
      BY <2>3
    <3> HIDE DEF restored, path
    <3> QED
      BY <2>1, <2>3, <3>1
  <2> QED
    BY <2>2, <2>3
<1>11. \A i \in Live(rest) : rest.entries[i].hash = MARK => i \in path
  <2> SUFFICES ASSUME NEW i \in Live(rest), rest.entries[i].hash = MARK
               PROVE  i \in path
    OBVIOUS
  <2>1. hash = HashOf[rest.entries[i].identity]
    BY <1>7 DEF hash
  <2>2. \E n \in 0..(PathLength(rest, hash) - 1) : IndexAt(rest, hash, n) = i
    BY <1>6, <2>1, LiveOnPath
  <2> QED
    BY <2>2
<1> HIDE DEF restored, path
<1>12. /\ es \in [EntryIndices(ks.log2_size) -> Entry]
       /\ \A i \in EntryIndices(ks.log2_size) : es[i] = restored(i)
  BY <1>8, <1>10
<1> HIDE DEF es
<1>13. \A i \in Live(rest) : /\ es[i].key # NULL /\ es[i].value # NULL
                             /\ es[i].hash = HashOf[es[i].identity]
                             /\ es[i].hash # MARK
  <2> SUFFICES ASSUME NEW i \in Live(rest)
               PROVE  /\ es[i].key # NULL /\ es[i].value # NULL
                      /\ es[i].hash = HashOf[es[i].identity] /\ es[i].hash # MARK
    OBVIOUS
  <2>1. i \in EntryIndices(ks.log2_size) /\ es[i] = restored(i)
    BY <1>7, <1>12
  <2>2. CASE rest.entries[i].hash = MARK
    BY <1>1, <1>7, <1>10, <1>11, <2>1, <2>2 DEF hash
  <2>3. CASE rest.entries[i].hash # MARK
    BY <1>6, <1>7, <1>10, <2>1, <2>3, LiveEntry
  <2> QED
    BY <2>2, <2>3
<1>14. IsSound(clean) /\ Live(clean) = Live(rest)
  <2>1. \A i \in EntryIndices(ks.log2_size) :
          es[i].identity = rest.entries[i].identity
    BY <1>10, <1>12
  <2> QED
    BY <1>3, <1>6, <1>12, <1>13, <2>1, RewriteSound
<1>15. clean.entries = es
  BY <1>3, <1>6 DEF Rewritten, IsSound, IsHtKeys
<1>16. IsSettled(clean)
  BY <1>13, <1>14, <1>15 DEF IsSettled
<1>17. SameKeys(clean, ks)
  <2> SUFFICES ASSUME NEW i \in Live(rest)
               PROVE  /\ i \in Live(ks)
                      /\ es[i].identity = ks.entries[i].identity
                      /\ es[i].key = ks.entries[i].key
    BY <1>14, <1>15 DEF SameKeys
  <2>1. i \in Live(ks) /\ rest.entries[i] = marked.entries[i]
    BY <1>6
  <2>2. i \in EntryIndices(ks.log2_size)
    BY <1>7
  <2> QED
    BY <1>4, <1>10, <1>12, <2>1, <2>2
<1> QED
  BY <1>6, <1>14, <1>16, <1>17 DEF Cleaned

\* __setitem__ in full, when no mark but its own is there.
LEMMA SetItemKept ==
  ASSUME TableInvariant, IsSettled(keys), NEW key \in Keys, NEW value \in Values,
         SetItem(key, value)
  PROVE  KeptAfter
<1> DEFINE id == IdentityOf[key]
           found == MatchingSlots(keys, HashOf[id], id)
           kept == FirstMatch(keys, HashOf[id], id)
           others == {s \in found : s # kept}
           clean == md_finder_cleanup(DeleteAt(Marked(keys, found), others), HashOf[id])
           pos == keys.indices[kept]
<1>1. IsSound(keys) /\ used = Cardinality(Live(keys)) /\ id \in Identities
  BY HashTableAssumption DEF TableInvariant
<1>2. \/ /\ found # {}
         /\ keys' = WithItem(clean, pos, key, value)
         /\ used' = used - Cardinality(others)
      \/ /\ found = {} /\ CanMakeRoom(clean, used)
         /\ keys' = AddEntry(clean, used, key, value, FALSE)
         /\ used' = used + 1
  BY Zenon DEF SetItem, WithItem, Marked, IndexedBy, hash_of
<1>3. /\ found \in SUBSET Slots(keys.log2_size)
      /\ \A s \in found : keys.indices[s] >= 0 /\ keys.indices[s] \in Live(keys)
      /\ found # {} => kept \in found
  <2>1. found # {} => Matches(keys, HashOf[id], id) # {}
    BY DEF MatchingSlots
  <2> HIDE DEF id
  <2> QED
    BY <1>1, <2>1, MatchesAreLive
<1>4. /\ IsSound(clean) /\ IsSettled(clean)
      /\ Live(clean) = Live(keys) \ IndexedBy(keys, others)
      /\ Cardinality(Live(clean)) = Cardinality(Live(keys)) - Cardinality(others)
      /\ SameKeys(clean, keys)
  <2> DEFINE hidden == others
  <2>1. hidden \in SUBSET found
    OBVIOUS
  <2>2. clean = md_finder_cleanup(DeleteAt(Marked(keys, found), hidden), HashOf[id])
    OBVIOUS
  <2> HIDE DEF hidden, clean, id
  <2>3. Cleaned(clean, keys, hidden)
    BY <1>1, <2>1, <2>2, FinderCleaned
  <2> QED
    BY <2>3 DEF Cleaned, hidden
<1> HIDE DEF clean
<1>5. EntriesFrom(clean, keys)
  BY <1>4 DEF SameKeys, EntriesFrom, ComesFrom
<1>6. CASE found # {}
  <2>1. keys' = WithItem(clean, pos, key, value) /\ used' = used - Cardinality(others)
    BY <1>2, <1>6
  <2>2. pos \in Live(clean)
    <3>1. pos \in Live(keys)
      BY <1>3, <1>6
    <3>2. pos \notin IndexedBy(keys, others)
      <4> SUFFICES ASSUME NEW s \in others, keys.indices[s] = pos PROVE FALSE
        BY DEF IndexedBy
      <4> HIDE DEF found, kept
      <4> QED
        BY <1>1, <1>3, <1>6 DEF IsSound, IsHtKeys
    <3> QED
      BY <1>4, <3>1, <3>2
  <2> HIDE DEF pos, others
  <2>3. /\ IsSound(keys') /\ IsSettled(keys') /\ Live(keys') = Live(clean)
        /\ \A i \in Live(clean) :
             /\ keys'.entries[i].identity = clean.entries[i].identity
             /\ keys'.entries[i].key = IF i = pos THEN key ELSE clean.entries[i].key
    BY <1>4, <2>1, <2>2, WithItemSound
  <2>4. clean.entries[pos].identity = IdentityOf[key] /\ key # NULL
    <3>1. keys.entries[pos].identity = id
      BY <1>1, <1>3, <1>6, MatchesAreLive DEF pos, found
    <3> QED
      BY <1>4, <2>2, <3>1, HashTableAssumption, ConstantsAssumption DEF SameKeys
  <2>5. EntriesFrom(keys', clean)
    BY <2>3, <2>4 DEF EntriesFrom, ComesFrom
  <2> QED
    BY <1>1, <1>4, <1>5, <2>1, <2>3, <2>5, FromBefore DEF KeptAfter
<1>7. CASE found = {}
  <2>1. others = {}
    BY <1>7
  <2>2. Cardinality(others) = 0
    BY <2>1, FS_EmptySet
  <2>3. /\ CanMakeRoom(clean, used) /\ keys' = AddEntry(clean, used, key, value, FALSE)
        /\ used' = used + 1
    BY <1>2, <1>7
  <2>4. used = Cardinality(Live(clean)) /\ used \in Nat
    <3>1. Cardinality(Live(keys)) \in Nat
      BY <1>1, LiveFinite DEF IsSound
    <3> QED
      BY <1>1, <1>4, <2>2, <3>1
  <2> HIDE DEF others, found
  <2>5. /\ IsSound(keys') /\ IsSettled(keys') /\ used' = Cardinality(Live(keys'))
        /\ Added(keys', clean, NewEntry(key, value, FALSE))
    BY <1>4, <2>3, <2>4, AddEntrySound
  <2> QED
    BY <1>4, <1>5, <2>5, AddedFrom, FromBefore DEF KeptAfter
<1> QED
  BY <1>6, <1>7

\* The same but for entries half deleted.
KeysFrom(new, ks) ==
  \A i \in Live(new) : new.entries[i].key = NULL \/ ComesFrom(new.entries[i], ks)

\* The replacement in an update, and the end of an update.
LEMMA ReplacedFrom ==
  ASSUME NEW ks, IsSound(ks), NEW key \in Keys, NEW value \in Values, md_contains(ks, key),
         NEW new, new = ReplaceForUpdate(ks, key, value)
  PROVE  KeysFrom(new, ks)
<1> DEFINE id == IdentityOf[key]
           first == ks.indices[FirstMatch(ks, HashOf[id], id)]
           found == IndexedBy(ks, MatchingSlots(ks, HashOf[id], id))
<1>1. /\ Live(new) = Live(ks)
      /\ TakenForUpdate(new, ks, first, found, key, value)
  BY ReplaceForUpdateSound
<1>2. first \in Live(ks) /\ ks.entries[first].identity = id
  <2>1. id \in Identities /\ Matches(ks, HashOf[id], id) # {}
    BY HashTableAssumption DEF md_contains, hash_of
  <2> HIDE DEF id
  <2> QED
    BY <2>1, MatchesAreLive
<1>3. key # NULL
  BY HashTableAssumption, ConstantsAssumption
<1> HIDE DEF first, found
<1>4. ASSUME NEW i \in Live(ks)
      PROVE  new.entries[i].key = NULL \/ ComesFrom(new.entries[i], ks)
  <2>1. CASE i = first
    BY <1>1, <1>2, <1>3, <2>1 DEF TakenForUpdate, ComesFrom
  <2>2. CASE i \in found \ {first}
    BY <1>1, <2>2 DEF TakenForUpdate
  <2>3. CASE i \notin found
    BY <1>1, <2>3 DEF TakenForUpdate, ComesFrom
  <2> QED
    BY <2>1, <2>2, <2>3
<1> QED
  BY <1>1, <1>4 DEF KeysFrom

LEMMA SettledFrom ==
  ASSUME NEW ks, NEW mid, NEW new, KeysFrom(mid, ks), Settled(new, mid)
  PROVE  EntriesFrom(new, ks)
BY DEF KeysFrom, Settled, EntriesFrom, ComesFrom

LEMMA KeysIdentified ==
  ASSUME NEW ks, NEW new, KeysFrom(new, ks), Identified(ks)
  PROVE  Identified(new)
BY DEF KeysFrom, ComesFrom, Identified

LEMMA FromKeys ==
  ASSUME NEW ks, NEW new, EntriesFrom(new, ks)
  PROVE  KeysFrom(new, ks)
BY DEF EntriesFrom, KeysFrom

\* __setitem__ between other calls.
LEMMA ReplaceItemFrom ==
  ASSUME TableInvariant, IsSettled(keys), NEW key \in Keys, NEW value \in Values,
         md_contains(keys, key), ReplaceItem(key, value)
  PROVE  EntriesFrom(keys', keys)
<1> DEFINE id == IdentityOf[key]
           first == keys.indices[FirstMatch(keys, HashOf[id], id)]
           found == IndexedBy(keys, MatchingSlots(keys, HashOf[id], id))
<1>1. Replaced(keys', keys, first, found, key, value)
  BY ReplaceItemSound
<1>2. first \in Live(keys) /\ keys.entries[first].identity = id
  <2>1. id \in Identities /\ Matches(keys, HashOf[id], id) # {}
    BY HashTableAssumption DEF md_contains, hash_of
  <2> HIDE DEF id
  <2> QED
    BY <2>1, MatchesAreLive DEF TableInvariant
<1>3. key # NULL
  BY HashTableAssumption, ConstantsAssumption
<1> HIDE DEF first, found
<1> QED
  BY <1>1, <1>2, <1>3 DEF Replaced, EntriesFrom, ComesFrom

\* A call between bulk calls.
LEMMA CallFrom ==
  ASSUME TableInvariant, Idle, Call
  PROVE  EntriesFrom(keys', keys)
<1>1. /\ IsSettled(keys)
      /\ (keys' = keys => EntriesFrom(keys', keys))
      /\ (KeptAfter => EntriesFrom(keys', keys))
  BY FromItself DEF TableInvariant, Idle, KeptAfter
<1>2. ASSUME NEW key \in Keys, NEW value \in Values, MdAdd(key, value)
      PROVE  EntriesFrom(keys', keys)
  BY <1>1, <1>2, SoundWhenInvariant, AddItemKept DEF MdAdd
<1>3. ASSUME NEW key \in Keys, NEW value \in Values, MdSetDefault(key, value)
      PROVE  EntriesFrom(keys', keys)
  BY <1>1, <1>3, SoundWhenInvariant, AddItemKept DEF MdSetDefault
<1>4. ASSUME NEW key \in Keys, NEW value \in Values, MdReplace(key, value)
      PROVE  EntriesFrom(keys', keys)
  BY <1>1, <1>4, SoundWhenInvariant, AddItemKept, ReplaceItemFrom DEF MdReplace
<1>5. ASSUME NEW key \in Keys, MdDel(key)
      PROVE  EntriesFrom(keys', keys)
  BY <1>1, <1>5, SoundWhenInvariant, DeleteKeyKept DEF MdDel, KeyError
<1>6. ASSUME NEW key \in Keys, MdPopOne(key)
      PROVE  EntriesFrom(keys', keys)
  BY <1>1, <1>6, SoundWhenInvariant, PopOneKept
<1>7. ASSUME NEW key \in Keys, MdPopAll(key)
      PROVE  EntriesFrom(keys', keys)
  BY <1>1, <1>7, SoundWhenInvariant, DeleteKeyKept DEF MdPopAll, KeyError
<1>8. CASE MdPopItem
  BY <1>1, <1>8, SoundWhenInvariant, PopItemKept
<1>9. CASE MdClear
  BY <1>1, <1>9, SoundWhenInvariant, ClearKept
<1>10. CASE OutOfMemory
  BY <1>1, <1>10 DEF OutOfMemory
<1> QED
  BY <1>2, <1>3, <1>4, <1>5, <1>6, <1>7, <1>8, <1>9, <1>10 DEF Call

\* The begin of a bulk call moves entries at most.
LEMMA BeginFrom ==
  ASSUME TableInvariant, Idle, NEW op \in BulkOps, NEW hint \in Nat, BulkBegin(op, hint)
  PROVE  /\ IsSound(keys') /\ IsSettled(keys')
         /\ keys' = keys \/ Compacted(keys', keys)
         /\ EntriesFrom(keys', keys)
<1>1. IsSound(keys) /\ IsSettled(keys) /\ used = Cardinality(Live(keys))
  BY DEF TableInvariant, Idle
<1>2. /\ IsSound(keys') /\ (keys' = keys \/ Compacted(keys', keys))
      /\ IsSettled(keys')
  BY <1>1, ReserveSound DEF BulkBegin
<1> QED
  BY <1>2, FromItself, CompactedFrom

\* An item of a bulk call.
LEMMA AddForUpdateAdds ==
  ASSUME TableInvariant, NEW key \in Keys, NEW value \in Values, AddForUpdate(key, value)
  PROVE  Added(keys', keys, NewEntry(key, value, TRUE))
BY AddEntrySound DEF AddForUpdate, TableInvariant

LEMMA BulkItemFrom ==
  ASSUME TableInvariant, NEW key \in Keys, NEW value \in Values, BulkItem(key, value)
  PROVE  KeysFrom(keys', keys)
<1>1. CASE keys' = keys
  BY <1>1, FromItself, FromKeys
<1>2. CASE bulk.op = "extend" /\ AddItem(key, value)
  <2>1. IsSettled(keys)
    BY <1>2 DEF TableInvariant
  <2> QED
    BY <1>2, <2>1, SoundWhenInvariant, AddItemKept, FromKeys DEF KeptAfter
<1>3. CASE AddForUpdate(key, value)
  BY <1>3, AddForUpdateAdds, AddedFrom, FromKeys
<1>4. CASE md_contains(keys, key) /\ keys' = ReplaceForUpdate(keys, key, value)
  BY <1>4, ReplacedFrom DEF TableInvariant
<1> QED
  BY <1>1, <1>2, <1>3, <1>4 DEF BulkItem, ApplyItem, UpdateItem, MergeItem

\* A step of HashTable leaves no key without its identity.
LEMMA NextIdentified ==
  ASSUME TableInvariant, Identified(keys), Next
  PROVE  Identified(keys')
<1>1. CASE Idle /\ Call
  BY <1>1, CallFrom, FromIdentified
<1>2. ASSUME Idle, NEW op \in BulkOps, NEW hint \in Hints, BulkBegin(op, hint)
      PROVE  Identified(keys')
  <2>1. hint \in Nat
    BY HashTableAssumption
  <2> QED
    BY <1>2, <2>1, BeginFrom, FromIdentified
<1>3. ASSUME NEW hint \in Hints, BulkRefused(hint)
      PROVE  Identified(keys')
  BY <1>3 DEF BulkRefused
<1>4. ASSUME NEW key \in Keys, NEW value \in Values, BulkItem(key, value)
      PROVE  Identified(keys')
  BY <1>4, BulkItemFrom, KeysIdentified
<1>5. ASSUME NEW status, BulkStop(status)
      PROVE  Identified(keys')
  <2>1. keys' = keys \/ keys' = md_post_update(keys)
    BY <1>5 DEF BulkStop
  <2>2. CASE keys' = md_post_update(keys)
    <3>1. Settled(keys', keys)
      BY <2>2, PostUpdateSound DEF TableInvariant
    <3> QED
      BY <3>1 DEF Settled, Identified
  <2> QED
    BY <2>1, <2>2
<1> QED
  BY <1>1, <1>2, <1>3, <1>4, <1>5 DEF Next, BulkEnd, BulkFail
=============================================================================
