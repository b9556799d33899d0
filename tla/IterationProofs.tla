--------------------------- MODULE IterationProofs ---------------------------
(***************************************************************************)
(* What an iterator yields, for every multidict and every number of        *)
(* iterators: while no bulk call has come in between, its position counts  *)
(* the items it has yielded, under the version it was made with. Whatever  *)
(* comes in between, the entries it has yet to pass are, in order, items   *)
(* of the list it began with that come after all it has yielded.           *)
(***************************************************************************)
EXTENDS Iteration, HashTablePropertiesProofs

-----------------------------------------------------------------------------
(* Counting live entries.                                                  *)

\* The live entries in front of a position.
Before(ks, pos) == {i \in Live(ks) : i < pos}

\* Live entries are numbers, so those in front of a position are counted.
LEMMA BeforeCounted ==
  ASSUME NEW ks, IsHtKeys(ks), NEW pos
  PROVE  /\ IsFiniteSet(Before(ks, pos))
         /\ Cardinality(Before(ks, pos)) \in Nat
         /\ Cardinality(Before(ks, pos)) <= Cardinality(Live(ks))
<1>1. IsFiniteSet(Live(ks)) /\ Before(ks, pos) \in SUBSET Live(ks)
  BY LiveFinite DEF Before
<1> QED
  BY <1>1, FS_Subset, FS_CardinalityType

\* A live entry is one more than those in front of it.
LEMMA OneMoreBefore ==
  ASSUME NEW ks, IsHtKeys(ks), NEW p \in Live(ks), NEW q \in Nat, p < q
  PROVE  Cardinality(Before(ks, p)) + 1 <= Cardinality(Before(ks, q))
<1>1. \A i \in Live(ks) : i \in Nat
  BY LiveFinite, SizeTypes
<1>2. p \notin Before(ks, p) /\ Before(ks, p) \cup {p} \in SUBSET Before(ks, q)
  BY <1>1 DEF Before
<1>3. Cardinality(Before(ks, p) \cup {p}) = Cardinality(Before(ks, p)) + 1
  BY <1>2, BeforeCounted, FS_AddElement
<1>4. Cardinality(Before(ks, p) \cup {p}) <= Cardinality(Before(ks, q))
  BY <1>2, BeforeCounted, FS_Subset
<1> QED
  BY <1>3, <1>4

\* The live entry with n live entries in front of it is the n-th.
LEMMA NthLiveCounts ==
  ASSUME NEW ks, IsHtKeys(ks), NEW p \in Live(ks)
  PROVE  /\ NthLive(ks, Cardinality(Before(ks, p))) = p
         /\ Cardinality(Before(ks, p)) < Cardinality(Live(ks))
<1> DEFINE n == Cardinality(Before(ks, p))
<1>1. \A i \in Live(ks) : i \in Nat /\ i < ks.nentries
  BY LiveFinite, SizeTypes
<1>2. n \in Nat /\ \A i \in Live(ks) : Cardinality(Before(ks, i)) \in Nat
  BY BeforeCounted
<1>3. \A i \in Live(ks) : Cardinality(Before(ks, i)) = n => i = p
  BY <1>1, <1>2, OneMoreBefore
<1>4. NthLive(ks, n) = CHOOSE i \in Live(ks) : Cardinality(Before(ks, i)) = n
  BY DEF NthLive, Before
<1>5. NthLive(ks, n) = p
  <2> HIDE DEF n
  <2>1. Cardinality(Before(ks, p)) = n
    BY DEF n
  <2> QED
    BY <1>3, <1>4, <2>1
<1>6. n < Cardinality(Live(ks))
  <2>1. ks.nentries \in Nat /\ Before(ks, ks.nentries) \in SUBSET Live(ks)
    BY LiveFinite, SizeTypes DEF Before
  <2>2. n + 1 <= Cardinality(Before(ks, ks.nentries))
    BY <1>1, <2>1, OneMoreBefore
  <2> QED
    BY <1>2, <2>1, <2>2, BeforeCounted, LiveFinite
<1> QED
  BY <1>5, <1>6

\* Where md_next goes: to a live entry with as many live entries in front of
\* it as the position had, or behind all of them.
LEMMA NextPosCounts ==
  ASSUME NEW pos \in Nat, IsHtKeys(keys)
  PROVE  /\ NextPos(pos) \in Nat
         /\ NextPos(pos) < keys.nentries =>
              /\ NextPos(pos) \in Live(keys)
              /\ Before(keys, NextPos(pos)) = Before(keys, pos)
              /\ Before(keys, NextPos(pos) + 1)
                   = Before(keys, pos) \cup {NextPos(pos)}
         /\ NextPos(pos) >= keys.nentries =>
              /\ Before(keys, pos) = Live(keys)
              /\ Before(keys, NextPos(pos)) = Live(keys)
<1> DEFINE ahead == {i \in Live(keys) : i >= pos}
           p == NextPos(pos)
           n == keys.nentries
<1>1. n \in Nat /\ \A i \in Live(keys) : i \in Nat /\ i < n
  BY LiveFinite, SizeTypes
<1>2. p = IF ahead = {} THEN Max({pos, n}) ELSE Min(ahead)
  BY DEF NextPos
<1>3. Max({pos, n}) \in {pos, n} /\ Max({pos, n}) >= n
  <2>1. \E m \in {pos, n} : \A x \in {pos, n} : m >= x
    BY <1>1
  <2> QED
    BY <2>1 DEF Max
<1>4. ahead # {} => Min(ahead) \in ahead /\ \A i \in ahead : Min(ahead) <= i
  <2>1. ahead \in SUBSET Nat
    BY <1>1
  <2> HIDE DEF ahead
  <2> QED
    BY <2>1, MinOfNaturals
<1> HIDE DEF p, n
<1>5. CASE ahead = {}
  <2>1. p \in Nat /\ p >= n
    BY <1>1, <1>2, <1>3, <1>5
  <2>2. \A i \in Live(keys) : i < pos /\ i < p
    BY <1>1, <1>5, <2>1
  <2>3. Before(keys, pos) = Live(keys) /\ Before(keys, p) = Live(keys)
    BY <2>2 DEF Before
  <2> QED
    BY <1>1, <2>1, <2>3 DEF p, n
<1>6. CASE ahead # {}
  <2>1. p \in Live(keys) /\ p >= pos /\ \A i \in Live(keys) : i >= pos => p <= i
    BY <1>2, <1>4, <1>6
  <2> HIDE DEF ahead
  <2>2. p \in Nat /\ p < n
    BY <1>1, <2>1
  <2>3. \A i \in Live(keys) : /\ i < p <=> i < pos
                              /\ i < p + 1 <=> i < pos \/ i = p
    BY <1>1, <2>1, <2>2
  <2>4. Before(keys, p) = Before(keys, pos)
    BY <2>3, Zenon DEF Before
  <2>5. Before(keys, p + 1) = Before(keys, pos) \cup {p}
    BY <2>1, <2>3, Zenon DEF Before
  <2> QED
    BY <1>1, <2>1, <2>2, <2>4, <2>5 DEF p, n
<1> QED
  BY <1>5, <1>6

-----------------------------------------------------------------------------
(* The invariant of one iterator.                                          *)

\* What an iterator holds.
Iterator ==
  [status : {"none", "running", "stopped", "raised"}, pos : Nat, version : Nat,
   base : Seq(ItemType), seen : Seq(ItemType), crossed : BOOLEAN]

\* What it has yielded is the beginning of what it was to yield, and all of
\* it once it has stopped.
YieldedInOrder(r) ==
  /\ Len(r.seen) <= Len(r.base)
  /\ \A n \in 1..Len(r.seen) : r.seen[n] = r.base[n]
  /\ r.status = "stopped" => Len(r.seen) = Len(r.base)

\* Under a version that still matches, the items are those it began with,
\* and its position has passed as many as it has yielded.
PositionCounts(r) ==
  /\ r.base = Items
  /\ Len(r.seen) = Cardinality(Before(keys, r.pos))

\* While no bulk call has crossed it, an iterator has yielded in order, and its
\* position counts what it has yielded under a version that still matches.
IteratorSound(r) ==
  /\ r \in Iterator
  /\ r.version <= version
  /\ ~ r.crossed => YieldedInOrder(r)
  /\ (~ r.crossed /\ r.status # "none" /\ r.version = version) => PositionCounts(r)

\* Every iterator is sound.
IterInvariant ==
  /\ iters \in [Iters -> Iterator]
  /\ \A it \in Iters : IteratorSound(iters[it])

\* Every iterator but one keeps what it holds, in a step that leaves the
\* multidict alone.
LEMMA OneIteratorSteps ==
  ASSUME IterInvariant, UNCHANGED vars, NEW it \in Iters, NEW r,
         iters' = [iters EXCEPT ![it] = r], IteratorSound(r)
  PROVE  IterInvariant'
<1>1. r \in Iterator
  BY DEF IteratorSound
<1>2. iters' \in [Iters -> Iterator]
  BY <1>1 DEF IterInvariant
<1>3. \A other \in Iters : IteratorSound(iters'[other])
  BY DEF IterInvariant
<1>4. keys' = keys /\ version' = version
  BY DEF vars
<1>5. ASSUME NEW other \in Iters PROVE IteratorSound(iters[other])'
  <2>1. IteratorSound(iters'[other])
    BY <1>3
  <2> QED
    BY <1>4, <2>1 DEF IteratorSound, YieldedInOrder, PositionCounts, Items
<1> QED
  BY <1>2, <1>5 DEF IterInvariant

\* A new iterator has yielded nothing, and stands in front of everything.
LEMMA NewIterSound ==
  ASSUME TableInvariant, VersionTyped, IterInvariant, Idle,
         NEW it \in Iters, NewIter(it)
  PROVE  IterInvariant'
<1> DEFINE r == [NoIter EXCEPT !.status = "running", !.version = version,
                               !.base = Items]
<1>1. Items \in Seq(ItemType) /\ IsHtKeys(keys) /\ version \in Nat
  BY ItemsTyped DEF TableInvariant, Idle, Items, IsSound, VersionTyped
<1>2. /\ r.status = "running" /\ r.pos = 0 /\ r.version = version
      /\ r.base = Items /\ r.seen = <<>> /\ r.crossed = FALSE
  BY DEF NoIter
<1>3. r \in Iterator
  <2>1. NoIter \in Iterator
    <3>1. <<>> \in Seq(ItemType)
      OBVIOUS
    <3> QED
      BY <3>1 DEF NoIter, Iterator
  <2> QED
    BY <1>1, <2>1 DEF Iterator
<1>4. Cardinality(Before(keys, 0)) = 0
  <2>1. \A i \in Live(keys) : ~ (i < 0)
    BY <1>1, LiveFinite, SizeTypes
  <2>2. Before(keys, 0) = {}
    BY <2>1 DEF Before
  <2> QED
    BY <2>2, FS_EmptySet
<1>5. iters' = [iters EXCEPT ![it] = r] /\ UNCHANGED vars
  BY DEF NewIter
<1> HIDE DEF r
<1>6. IteratorSound(r)
  <2>1. YieldedInOrder(r)
    <3>1. Len(r.seen) = 0 /\ Len(r.base) \in Nat
      BY <1>1, <1>2
    <3> QED
      BY <1>2, <3>1 DEF YieldedInOrder
  <2>2. PositionCounts(r)
    BY <1>2, <1>4 DEF PositionCounts
  <2> QED
    BY <1>1, <1>2, <1>3, <2>1, <2>2 DEF IteratorSound
<1> QED
  BY <1>5, <1>6, OneIteratorSteps

\* An iterator that raises keeps what it has yielded.
LEMMA RaiseSound ==
  ASSUME IterInvariant, NEW it \in Iters, Raise(it)
  PROVE  IterInvariant'
<1> DEFINE r == [iters[it] EXCEPT !.status = "raised"]
<1>1. iters[it] \in Iterator /\ IteratorSound(iters[it])
  BY DEF IterInvariant
<1>2. iters' = [iters EXCEPT ![it] = r] /\ UNCHANGED vars
      /\ iters[it].version # version
  BY DEF Raise, IsCurrent
<1>3. r \in Iterator
  BY <1>1 DEF Iterator
<1>4. /\ r.status = "raised" /\ r.pos = iters[it].pos /\ r.version = iters[it].version
      /\ r.base = iters[it].base /\ r.seen = iters[it].seen
      /\ r.crossed = iters[it].crossed
  BY <1>1 DEF Iterator
<1> HIDE DEF r
<1>5. IteratorSound(r)
  BY <1>1, <1>2, <1>3, <1>4 DEF IteratorSound, YieldedInOrder
<1> QED
  BY <1>2, <1>5, OneIteratorSteps

\* An iterator yields the item that comes next in the list it began with.
LEMMA YieldSound ==
  ASSUME TableInvariant, VersionTyped, IterInvariant, Idle,
         NEW it \in Iters, Yield(it)
  PROVE  IterInvariant'
<1> DEFINE old == iters[it]
           p == NextPos(old.pos)
           count == Cardinality(Before(keys, old.pos))
           r == [old EXCEPT !.pos = p + 1, !.seen = Append(@, ItemAt(keys, p))]
<1>1. old \in Iterator /\ IteratorSound(old)
  BY DEF IterInvariant
<1>2. /\ UNCHANGED vars /\ p < keys.nentries
      /\ old.status # "none" /\ old.version = version
  BY DEF Yield, IsCurrent
<1>3. iters' = [iters EXCEPT ![it] = r]
  BY <1>1 DEF Yield, Iterator, IterInvariant
<1>4. IsSound(keys) /\ IsSettled(keys) /\ IsHtKeys(keys) /\ version \in Nat
  BY DEF TableInvariant, Idle, IsSound, VersionTyped
<1>5. /\ p \in Nat /\ p \in Live(keys)
      /\ Before(keys, p) = Before(keys, old.pos)
      /\ Before(keys, p + 1) = Before(keys, old.pos) \cup {p}
  BY <1>1, <1>2, <1>4, NextPosCounts DEF Iterator
<1>6. ItemAt(keys, p) \in ItemType
  BY <1>4, <1>5, EntryIsItem DEF IsSettled
<1>7. /\ count \in Nat /\ count < Cardinality(Live(keys))
      /\ NthLive(keys, count) = p
      /\ Cardinality(Before(keys, p + 1)) = count + 1
  <2>1. p \notin Before(keys, old.pos)
    BY <1>5 DEF Before
  <2>2. IsFiniteSet(Before(keys, old.pos)) /\ count \in Nat
    BY <1>4, BeforeCounted
  <2>3. Cardinality(Before(keys, p + 1)) = count + 1
    BY <1>5, <2>1, <2>2, FS_AddElement
  <2> QED
    BY <1>4, <1>5, <2>2, <2>3, NthLiveCounts
<1>8. /\ r.status = old.status /\ r.pos = p + 1 /\ r.version = old.version
      /\ r.base = old.base /\ r.seen = Append(old.seen, ItemAt(keys, p))
      /\ r.crossed = old.crossed
  BY <1>1 DEF Iterator
<1> DEFINE seen == Append(old.seen, ItemAt(keys, p))
<1>9. seen \in Seq(ItemType) /\ Len(seen) = Len(old.seen) + 1
      /\ Len(old.seen) \in Nat
      /\ seen[Len(old.seen) + 1] = ItemAt(keys, p)
      /\ \A n \in 1..Len(old.seen) : seen[n] = old.seen[n]
  BY <1>1, <1>6 DEF Iterator
<1>10. r \in Iterator
  <2> HIDE DEF seen, p
  <2> DEFINE q == p + 1
  <2>1. r = [old EXCEPT !.pos = q, !.seen = seen]
    BY DEF seen
  <2>2. q \in Nat
    BY <1>5
  <2> HIDE DEF r, old, q
  <2> QED
    BY <1>1, <1>9, <2>1, <2>2 DEF Iterator
<1>11. ASSUME ~ old.crossed PROVE YieldedInOrder(r) /\ PositionCounts(r)
  <2>1. old.base = Items /\ Len(old.seen) = count /\ YieldedInOrder(old)
    BY <1>1, <1>2, <1>11 DEF IteratorSound, PositionCounts
  <2>2. Len(Items) = Cardinality(Live(keys)) /\ Items[count + 1] = ItemAt(keys, p)
    <3>1. Cardinality(Live(keys)) \in Nat
      BY <1>4, LiveFinite
    <3>2. count + 1 \in 1..Cardinality(Live(keys)) /\ (count + 1) - 1 = count
      BY <1>7, <3>1
    <3> DEFINE c == Cardinality(Live(keys))
    <3>3. Items = [n \in 1..c |-> ItemAt(keys, NthLive(keys, n - 1))]
      BY DEF Items, ItemsOf
    <3> HIDE DEF c, count, p
    <3>4. Len(Items) = c
      BY <3>1, <3>3 DEF c
    <3>5. Items[count + 1] = ItemAt(keys, NthLive(keys, count))
      BY <3>2, <3>3 DEF c
    <3> QED
      BY <1>7, <3>4, <3>5 DEF c
  <2> HIDE DEF r, count, seen, p
  <2>3. Len(r.seen) = count + 1 /\ r.base = Items /\ r.pos = p + 1 /\ r.seen = seen
    BY <1>8, <1>9, <2>1 DEF seen
  <2>4. \A n \in 1..Len(r.seen) : r.seen[n] = r.base[n]
    <3> SUFFICES ASSUME NEW n \in 1..Len(r.seen) PROVE r.seen[n] = r.base[n]
      OBVIOUS
    <3>1. CASE n = count + 1
      BY <1>9, <2>1, <2>2, <2>3, <3>1
    <3>2. CASE n # count + 1
      <4>1. n \in 1..Len(old.seen)
        BY <1>7, <2>1, <2>3, <3>2
      <4> QED
        BY <1>9, <2>1, <2>3, <4>1 DEF YieldedInOrder
    <3> QED
      BY <3>1, <3>2
  <2>5. Len(r.seen) <= Len(r.base)
    BY <1>4, <1>7, <2>2, <2>3, LiveFinite
  <2>6. r.status # "stopped"
    BY <1>4, <1>7, <1>8, <2>1, <2>2, LiveFinite DEF YieldedInOrder
  <2> QED
    BY <1>7, <2>3, <2>4, <2>5, <2>6 DEF YieldedInOrder, PositionCounts
<1> HIDE DEF r
<1>12. IteratorSound(r)
  BY <1>1, <1>2, <1>8, <1>10, <1>11 DEF IteratorSound
<1> QED
  BY <1>2, <1>3, <1>12, OneIteratorSteps

\* An iterator that stops has yielded the whole list.
LEMMA StopSound ==
  ASSUME TableInvariant, IterInvariant, NEW it \in Iters, Stop(it)
  PROVE  IterInvariant'
<1> DEFINE old == iters[it]
           p == NextPos(old.pos)
           r == [old EXCEPT !.pos = p, !.status = "stopped"]
<1>1. old \in Iterator /\ IteratorSound(old)
  BY DEF IterInvariant
<1>2. /\ UNCHANGED vars /\ p >= keys.nentries
      /\ old.status # "none" /\ old.version = version
  BY DEF Stop, IsCurrent
<1>3. iters' = [iters EXCEPT ![it] = r]
  BY <1>1 DEF Stop, Iterator, IterInvariant
<1>4. IsHtKeys(keys)
  BY DEF TableInvariant, IsSound
<1>5. /\ p \in Nat
      /\ Before(keys, old.pos) = Live(keys) /\ Before(keys, p) = Live(keys)
  BY <1>1, <1>2, <1>4, NextPosCounts DEF Iterator
<1>6. /\ r.status = "stopped" /\ r.pos = p /\ r.version = old.version
      /\ r.base = old.base /\ r.seen = old.seen /\ r.crossed = old.crossed
  BY <1>1 DEF Iterator
<1>7. r \in Iterator
  <2> HIDE DEF p
  <2> QED
    BY <1>1, <1>5 DEF Iterator
<1> HIDE DEF p, r
<1>8. ASSUME ~ old.crossed PROVE YieldedInOrder(r) /\ PositionCounts(r)
  <2>1. PositionCounts(old) /\ YieldedInOrder(old)
    BY <1>1, <1>2, <1>8 DEF IteratorSound
  <2>2. Len(Items) = Cardinality(Live(keys))
    <3>1. Cardinality(Live(keys)) \in Nat
      BY <1>4, LiveFinite
    <3> DEFINE c == Cardinality(Live(keys))
    <3> HIDE DEF c
    <3>2. Items = [n \in 1..c |-> ItemAt(keys, NthLive(keys, n - 1))]
      BY DEF Items, ItemsOf, c
    <3> QED
      BY <3>1, <3>2 DEF c
  <2> QED
    BY <1>5, <1>6, <2>1, <2>2 DEF YieldedInOrder, PositionCounts
<1>9. IteratorSound(r)
  BY <1>1, <1>2, <1>6, <1>7, <1>8 DEF IteratorSound
<1> QED
  BY <1>2, <1>3, <1>9, OneIteratorSteps

\* A step of the multidict leaves the items and their places alone under the
\* version an iterator carries, or the iterator has been crossed.
LEMMA MutateSound ==
  ASSUME TableInvariant, VersionTyped, IterInvariant, Mutate
  PROVE  IterInvariant'
<1>1. version' \in Nat /\ version <= version' /\ version \in Nat
  BY VersionGrows DEF Mutate, VersionTyped
<1>2. iters \in [Iters -> Iterator] /\ \A it \in Iters : IteratorSound(iters[it])
  BY DEF IterInvariant
<1>3. CASE Idle /\ bulk' = bulk
  <2>1. version' = version => keys' = keys
    <3>1. CASE Call
      BY <1>3, <3>1, SoundWhenInvariant, CallGuarded
    <3>2. CASE ~ Call
      BY <1>3, <3>2 DEF Mutate, Next, Idle, BulkBegin, BulkRefused, BulkOps
    <3> QED
      BY <3>1, <3>2
  <2>2. iters' = iters
    BY <1>3 DEF Mutate
  <2>3. ASSUME NEW it \in Iters PROVE IteratorSound(iters[it])'
    <3>1. IteratorSound(iters[it]) /\ iters[it].version \in Nat
      BY <1>2 DEF Iterator
    <3>2. iters[it].version <= version'
      BY <1>1, <3>1 DEF IteratorSound
    <3>3. iters[it].version = version' => version' = version
      BY <1>1, <3>1 DEF IteratorSound
    <3> QED
      BY <2>1, <2>2, <3>1, <3>2, <3>3
         DEF IteratorSound, YieldedInOrder, PositionCounts, Items
  <2> QED
    BY <1>2, <2>2, <2>3 DEF IterInvariant
<1>4. CASE ~ (Idle /\ bulk' = bulk)
  <2>1. iters' = [it \in Iters |-> [iters[it] EXCEPT !.crossed = TRUE]]
    BY <1>4 DEF Mutate
  <2>2. ASSUME NEW r \in Iterator
        PROVE  /\ [r EXCEPT !.crossed = TRUE] \in Iterator
               /\ [r EXCEPT !.crossed = TRUE].version = r.version
               /\ [r EXCEPT !.crossed = TRUE].crossed
    BY DEF Iterator
  <2>3. iters' \in [Iters -> Iterator]
    BY <1>2, <2>1, <2>2
  <2>4. ASSUME NEW it \in Iters PROVE IteratorSound(iters[it])'
    <3>1. IteratorSound(iters[it]) /\ iters[it].version \in Nat
      BY <1>2 DEF Iterator
    <3>2. /\ iters'[it] \in Iterator /\ iters'[it].version = iters[it].version
          /\ iters'[it].crossed
      BY <1>2, <2>1, <2>2
    <3>3. iters'[it].version <= version'
      BY <1>1, <3>1, <3>2 DEF IteratorSound
    <3> QED
      BY <3>2, <3>3 DEF IteratorSound
  <2> QED
    BY <2>3, <2>4 DEF IterInvariant
<1> QED
  BY <1>3, <1>4

-----------------------------------------------------------------------------

\* An iterator takes no step that the multidict could not: what HashTable
\* guarantees holds in the presence of iterators too.
LEMMA IteratorsOnlyRead == IterSpec => Spec
<1>1. IterInit => Init
  BY DEF IterInit
<1>2. [IterNext]_iterVars => [Next]_vars
  BY DEF IterNext, iterVars, Mutate, NewIter, Raise, Yield, Stop
<1> QED
  BY <1>1, <1>2, PTL DEF IterSpec, Spec

\* Every iterator of a multidict keeps its invariant.
LEMMA IteratorsAlwaysSound == IterSpec => []IterInvariant
<1>1. IterInit /\ VersionTyped => IterInvariant
  <2> SUFFICES ASSUME IterInit, VersionTyped PROVE IterInvariant
    OBVIOUS
  <2>1. NoIter \in Iterator /\ NoIter.version = 0 /\ NoIter.status = "none"
        /\ NoIter.seen = <<>> /\ NoIter.base = <<>>
    <3>1. <<>> \in Seq(ItemType)
      OBVIOUS
    <3> QED
      BY <3>1 DEF NoIter, Iterator
  <2>2. IteratorSound(NoIter)
    BY <2>1 DEF IteratorSound, YieldedInOrder, VersionTyped
  <2> QED
    BY <2>1, <2>2 DEF IterInit, IterInvariant
<1>2. TableInvariant /\ VersionTyped /\ IterInvariant /\ [IterNext]_iterVars
        => IterInvariant'
  <2> SUFFICES ASSUME TableInvariant, VersionTyped, IterInvariant,
                      [IterNext]_iterVars
               PROVE  IterInvariant'
    OBVIOUS
  <2>1. CASE UNCHANGED iterVars
    BY <2>1 DEF iterVars, vars, IterInvariant, IteratorSound, YieldedInOrder,
                PositionCounts, Items
  <2>2. CASE IterNext
    BY <2>2, MutateSound, NewIterSound, RaiseSound, YieldSound, StopSound
       DEF IterNext
  <2> QED
    BY <2>1, <2>2
<1>3. TypeOK => VersionTyped
  BY DEF TypeOK, VersionTyped
<1> QED
  BY <1>1, <1>2, <1>3, IteratorsOnlyRead, TableAlwaysSound, TypeAlwaysOK,
     PTL DEF IterSpec

\* Every iterator keeps its type, and no version one carries is ahead.
THEOREM IteratorsAlwaysTyped == IterSpec => []IterTypeOK
<1>1. TypeOK /\ IterInvariant => IterTypeOK
  <2> SUFFICES ASSUME TypeOK, IterInvariant, NEW it \in Iters
               PROVE  /\ iters[it].status \in {"none", "running", "stopped", "raised"}
                      /\ iters[it].pos \in Nat
                      /\ iters[it].version \in 0..version
    BY DEF IterTypeOK
  <2>1. iters[it] \in Iterator /\ iters[it].version <= version
    BY DEF IterInvariant, IteratorSound
  <2> QED
    BY <2>1, HashTableAssumption DEF Iterator, TypeOK
<1> QED
  BY <1>1, IteratorsOnlyRead, TypeAlwaysOK, IteratorsAlwaysSound, PTL

\* Whatever single calls come in between, compactions included, an iterator
\* that does not raise yields the items it began with, in order, and all of
\* them before it stops.
THEOREM IterationAlwaysExact == IterSpec => []IterationExact
<1>1. IterInvariant => IterationExact
  <2> SUFFICES ASSUME IterInvariant, NEW it \in Iters, ~ iters[it].crossed
               PROVE  /\ IsPrefix(iters[it].seen, iters[it].base)
                      /\ iters[it].status = "stopped"
                           => iters[it].seen = iters[it].base
    BY DEF IterationExact
  <2> DEFINE seen == iters[it].seen
             base == iters[it].base
  <2>1. /\ seen \in Seq(ItemType) /\ base \in Seq(ItemType)
        /\ Len(seen) <= Len(base)
        /\ \A n \in 1..Len(seen) : seen[n] = base[n]
        /\ iters[it].status = "stopped" => Len(seen) = Len(base)
    BY DEF IterInvariant, IteratorSound, Iterator, YieldedInOrder
  <2> HIDE DEF seen, base
  <2>2. SubSeq(seen, 1, Len(seen)) = SubSeq(base, 1, Len(seen))
    BY <2>1
  <2>3. IsPrefix(seen, base)
    BY <2>1, <2>2 DEF IsPrefix
  <2>4. iters[it].status = "stopped" => seen = base
    BY <2>1
  <2> QED
    BY <2>3, <2>4 DEF seen, base
<1> QED
  BY <1>1, IteratorsAlwaysSound, PTL

-----------------------------------------------------------------------------
(* Lists with elements left out.                                           *)

\* at picks, for each element of s, an equal one of t, from left to right.
Picks(at, s, t) ==
  /\ at \in [1..Len(s) -> 1..Len(t)]
  /\ \A m, n \in 1..Len(s) : m < n => at[m] < at[n]
  /\ \A n \in 1..Len(s) : s[n] = t[at[n]]

\* The elements of s met when t is read from left to right, each taken where it
\* is met first.
Reads(met, s, t) ==
  /\ met[0] = 0
  /\ \A n \in 1..Len(t) :
       met[n] = IF met[n - 1] < Len(s) /\ s[met[n - 1] + 1] = t[n]
                  THEN met[n - 1] + 1
                  ELSE met[n - 1]

\* The recursion in IsSubsequence has a solution.
LEMMA ReadingEnds ==
  ASSUME NEW S, NEW s \in Seq(S), NEW t \in Seq(S)
  PROVE  \E met : /\ met \in [0..Len(t) -> 0..Len(s)] /\ Reads(met, s, t)
                  /\ IsSubsequence(s, t) <=> met[Len(t)] = Len(s)
<1> DEFINE m == Len(t)
           k == Len(s)
           T == 0..k
           Step(c, n) == IF c < k /\ s[c + 1] = t[n] THEN c + 1 ELSE c
           step == [p \in T \X (1..m) |-> Step(p[1], p[2])]
<1>1. m \in Nat /\ k \in Nat /\ 0 \in T
  OBVIOUS
<1>2. ASSUME NEW c \in T, NEW n PROVE Step(c, n) \in T
  BY <1>1
<1>3. step \in [T \X (1..m) -> T]
  <2>1. \A p \in T \X (1..m) : Step(p[1], p[2]) \in T
    <3> HIDE DEF T, Step
    <3> QED
      BY <1>2
  <2> HIDE DEF T, Step
  <2> QED
    BY <2>1
<1>4. PICK f : IsRun(f, m, T, 0, step)
  <2> HIDE DEF T, step, m
  <2> QED
    BY <1>1, <1>3, BoundedRecursion
<1>5. \A n \in 0..m : f[n] = IF n = 0 THEN 0 ELSE Step(f[n - 1], n)
  <2> SUFFICES ASSUME NEW n \in 0..m
               PROVE  f[n] = IF n = 0 THEN 0 ELSE Step(f[n - 1], n)
    OBVIOUS
  <2>1. f[0] = 0
    BY <1>4 DEF IsRun
  <2>2. CASE n # 0
    <3> HIDE DEF T, Step
    <3>1. n \in 1..m /\ n - 1 \in 0..m
      BY <1>1, <2>2
    <3>2. f \in [0..m -> T] /\ f[n] = step[<<f[n - 1], n>>]
      BY <1>4, <3>1 DEF IsRun
    <3>3. <<f[n - 1], n>> \in T \X (1..m)
      BY <3>1, <3>2
    <3> QED
      BY <2>2, <3>2, <3>3
  <2> QED
    BY <2>1, <2>2
<1>6. f = [n \in 0..m |-> IF n = 0 THEN 0
                          ELSE IF f[n - 1] < k /\ s[f[n - 1] + 1] = t[n]
                            THEN f[n - 1] + 1 ELSE f[n - 1]]
  <2>1. f = [n \in 0..m |-> f[n]]
    BY <1>4 DEF IsRun
  <2>2. \A n \in 0..m : f[n] = IF n = 0 THEN 0
                          ELSE IF f[n - 1] < k /\ s[f[n - 1] + 1] = t[n]
                            THEN f[n - 1] + 1 ELSE f[n - 1]
    BY <1>5
  <2> HIDE DEF m, k, step, T
  <2> QED
    BY <2>1, <2>2
<1> HIDE DEF T, step
<1>7. PICK g : /\ g = [n \in 0..m |-> IF n = 0 THEN 0
                          ELSE IF g[n - 1] < k /\ s[g[n - 1] + 1] = t[n]
                            THEN g[n - 1] + 1 ELSE g[n - 1]]
               /\ IsSubsequence(s, t) <=> g[m] = k
  BY <1>6, Zenon DEF IsSubsequence
<1>8. g[0] = 0
  BY <1>1, <1>7
<1>9. ASSUME NEW n \in 1..m
      PROVE  g[n] = Step(g[n - 1], n)
  <2>1. n \in 0..m /\ n # 0
    BY <1>1
  <2> QED
    BY <1>7, <2>1
<1>10. \A n \in 0..m : g[n] \in T
  <2> DEFINE R == {n \in 0..m : g[n] \in T}
  <2>1. 0 \in R
    BY <1>1, <1>8
  <2>2. ASSUME NEW n \in 0..(m - 1), n \in R PROVE n + 1 \in R
    <3>1. n + 1 \in 1..m /\ (n + 1) - 1 = n
      BY <1>1
    <3> HIDE DEF Step
    <3>2. g[n + 1] = Step(g[n], n + 1)
      BY <1>9, <3>1
    <3> QED
      BY <1>2, <2>2, <3>1, <3>2
  <2> HIDE DEF R, m
  <2>3. 0..m \subseteq R
    BY <1>1, <2>1, <2>2, BoundedInduction
  <2> QED
    BY <2>3 DEF R
<1>11. g \in [0..m -> T]
  <2> DEFINE h(n) == IF n = 0 THEN 0
                     ELSE IF g[n - 1] < k /\ s[g[n - 1] + 1] = t[n]
                       THEN g[n - 1] + 1 ELSE g[n - 1]
  <2>1. g = [n \in 0..m |-> h(n)]
    BY <1>7
  <2> HIDE DEF h, m
  <2>2. DOMAIN g = 0..m /\ g = [n \in 0..m |-> g[n]]
    BY <2>1
  <2> QED
    BY <1>10, <2>2
<1> QED
  BY <1>7, <1>8, <1>9, <1>11 DEF Reads, T

\* Elements that can be picked from left to right are met in that way: none is
\* met later than it could be picked.
LEMMA PickedIsSubsequence ==
  ASSUME NEW S, NEW s \in Seq(S), NEW t \in Seq(S), NEW at, Picks(at, s, t)
  PROVE  IsSubsequence(s, t)
<1> DEFINE m == Len(t)
           k == Len(s)
<1>1. m \in Nat /\ k \in Nat
  OBVIOUS
<1>2. PICK met : /\ met \in [0..m -> 0..k] /\ Reads(met, s, t)
                 /\ IsSubsequence(s, t) <=> met[m] = k
  BY ReadingEnds
<1>3. /\ at \in [1..k -> 1..m]
      /\ \A i, j \in 1..k : i < j => at[i] < at[j]
      /\ \A n \in 1..k : s[n] = t[at[n]]
  BY DEF Picks
<1> HIDE DEF m, k
<1> DEFINE R == {n \in 0..m : \A i \in 1..k : at[i] <= n => met[n] >= i}
<1>4. 0 \in R
  <2>1. \A i \in 1..k : at[i] \in 1..m
    BY <1>3
  <2> QED
    BY <1>1, <2>1
<1>5. ASSUME NEW n \in 0..(m - 1), n \in R PROVE n + 1 \in R
  <2>1. n \in Nat /\ n \in 0..m /\ n + 1 \in 1..m /\ n + 1 \in 0..m /\ (n + 1) - 1 = n
    BY <1>1
  <2>2. met[n] \in 0..k /\ met[n + 1] \in 0..k
    BY <1>2, <2>1
  <2>3. met[n + 1] = IF met[n] < k /\ s[met[n] + 1] = t[n + 1]
                       THEN met[n] + 1 ELSE met[n]
    BY <1>2, <2>1 DEF Reads, m, k
  <2> SUFFICES ASSUME NEW i \in 1..k, at[i] <= n + 1 PROVE met[n + 1] >= i
    BY <2>1
  <2>4. at[i] \in 1..m
    BY <1>3
  <2>5. CASE at[i] <= n
    <3>1. met[n] >= i
      BY <1>5, <2>5
    <3> QED
      BY <1>1, <2>2, <2>3, <3>1
  <2>6. CASE at[i] = n + 1
    <3>1. met[n] >= i - 1
      <4>1. CASE i = 1
        BY <1>1, <2>2, <4>1
      <4>2. CASE i # 1
        <5>1. i - 1 \in 1..k /\ i - 1 < i
          BY <1>1, <4>2
        <5>2. at[i - 1] \in 1..m /\ at[i - 1] < at[i]
          BY <1>3, <5>1
        <5>3. at[i - 1] <= n
          BY <2>1, <2>6, <5>2
        <5> QED
          BY <1>5, <5>1, <5>3
      <4> QED
        BY <4>1, <4>2
    <3>2. CASE met[n] = i - 1
      <4>1. met[n] < k /\ met[n] + 1 = i
        BY <1>1, <3>2
      <4>2. s[met[n] + 1] = t[n + 1]
        BY <1>3, <2>6, <4>1
      <4> QED
        BY <2>3, <4>1, <4>2
    <3>3. CASE met[n] >= i
      BY <1>1, <2>2, <2>3, <3>3
    <3> QED
      BY <1>1, <2>2, <3>1, <3>2, <3>3
  <2> QED
    BY <2>1, <2>4, <2>5, <2>6
<1>6. 0..m \subseteq R
  <2> HIDE DEF R
  <2> QED
    BY <1>1, <1>4, <1>5, BoundedInduction
<1>7. met[m] \in 0..k /\ m \in R
  BY <1>1, <1>2, <1>6
<1>8. met[m] = k
  <2>1. CASE k = 0
    BY <1>7, <2>1
  <2>2. CASE k # 0
    <3>1. k \in 1..k /\ at[k] <= m
      BY <1>1, <1>3, <2>2
    <3>2. met[m] >= k
      BY <1>7, <3>1
    <3> QED
      BY <1>1, <1>7, <3>2
  <2> QED
    BY <2>1, <2>2
<1> QED
  BY <1>2, <1>8

-----------------------------------------------------------------------------
(* What a step leaves in its place under an unchanged version.             *)

\* Entries that stay in order, none behind the place where it was, under the
\* identities they had.
Keeping(new, ks) ==
  \E old \in [Live(new) -> Live(ks)] :
    /\ \A i, j \in Live(new) : i < j => old[i] < old[j]
    /\ \A i \in Live(new) : /\ i <= old[i]
                            /\ new.entries[i].identity = ks.entries[old[i]].identity

\* Entries that stay where they are.
LEMMA KeptInPlace ==
  ASSUME NEW ks, IsHtKeys(ks), NEW new, Live(new) \subseteq Live(ks),
         \A i \in Live(new) : new.entries[i].identity = ks.entries[i].identity
  PROVE  Keeping(new, ks)
<1> DEFINE old == [i \in Live(new) |-> i]
<1>1. \A i \in Live(new) : i \in Nat
  BY LiveFinite, SizeTypes
<1>2. old \in [Live(new) -> Live(ks)] /\ \A i \in Live(new) : old[i] = i
  OBVIOUS
<1> HIDE DEF old
<1>3. /\ \A i, j \in Live(new) : i < j => old[i] < old[j]
      /\ \A i \in Live(new) : /\ i <= old[i]
                              /\ new.entries[i].identity = ks.entries[old[i]].identity
  BY <1>1, <1>2
<1> QED
  BY <1>2, <1>3 DEF Keeping

\* Live entries counted from the front come in their order, each at least as
\* far as it counts.
LEMMA NthLiveOrdered ==
  ASSUME NEW ks, IsHtKeys(ks)
  PROVE  /\ \A i \in 0..(Cardinality(Live(ks)) - 1) :
              NthLive(ks, i) \in Live(ks) /\ i <= NthLive(ks, i)
         /\ \A i, j \in 0..(Cardinality(Live(ks)) - 1) :
              i < j => NthLive(ks, i) < NthLive(ks, j)
<1> DEFINE c == Cardinality(Live(ks))
           nth(i) == NthLive(ks, i)
<1>1. /\ ks.nentries \in Nat /\ c \in Nat
      /\ Live(ks) \in SUBSET (0..(ks.nentries - 1))
  BY LiveFinite, SizeTypes
<1>2. ASSUME NEW i \in 0..(c - 1)
      PROVE  nth(i) \in Live(ks) /\ nth(i) \in Nat /\ Cardinality(Before(ks, nth(i))) = i
  <2>1. i \in Nat /\ i < c
    BY <1>1
  <2>2. \E l \in Live(ks) : Cardinality({j \in Live(ks) : j < l}) = i
    BY <1>1, <2>1, NthElement
  <2>3. nth(i) \in Live(ks) /\ Cardinality({j \in Live(ks) : j < nth(i)}) = i
    BY <2>2, Zenon DEF NthLive
  <2>4. nth(i) \in Nat
    BY <1>1, <2>3
  <2> QED
    BY <2>3, <2>4 DEF Before
<1>3. ASSUME NEW i \in 0..(c - 1) PROVE i <= nth(i)
  <2> DEFINE p == nth(i)
  <2>1. p \in Nat /\ Cardinality(Before(ks, p)) = i
    BY <1>2
  <2> HIDE DEF p
  <2>2. Before(ks, p) \subseteq 0..(p - 1)
    BY <1>1, <2>1 DEF Before
  <2>3. IsFiniteSet(0..(p - 1)) /\ Cardinality(0..(p - 1)) = p
    <3>1. IsFiniteSet(0..(p - 1))
          /\ Cardinality(0..(p - 1)) = IF 0 > p - 1 THEN 0 ELSE (p - 1) - 0 + 1
      BY <2>1, FS_Interval
    <3> QED
      BY <2>1, <3>1
  <2>4. i <= p
    BY <2>1, <2>2, <2>3, FS_Subset
  <2> QED
    BY <2>4 DEF p
<1>4. ASSUME NEW i \in 0..(c - 1), NEW j \in 0..(c - 1), i < j PROVE nth(i) < nth(j)
  <2> DEFINE p == nth(i)
             q == nth(j)
  <2>1. /\ p \in Nat /\ Cardinality(Before(ks, p)) = i
        /\ q \in Nat /\ Cardinality(Before(ks, q)) = j
    BY <1>2
  <2> HIDE DEF p, q
  <2>2. ASSUME q <= p PROVE FALSE
    <3>1. Before(ks, q) \subseteq Before(ks, p)
      BY <1>1, <2>1, <2>2 DEF Before
    <3>2. IsFiniteSet(Before(ks, p))
      BY BeforeCounted
    <3>3. j <= i
      BY <2>1, <3>1, <3>2, FS_Subset
    <3> QED
      BY <1>4, <1>1, <3>3
  <2>3. p < q
    BY <2>1, <2>2
  <2> QED
    BY <2>3 DEF p, q
<1> QED
  BY <1>2, <1>3, <1>4

\* A rebuild closes the gaps.
LEMMA KeptCompacted ==
  ASSUME NEW ks, IsHtKeys(ks), NEW new, Compacted(new, ks)
  PROVE  Keeping(new, ks)
<1> DEFINE old == [i \in Live(new) |-> NthLive(ks, i)]
<1>1. /\ Live(new) = 0..(Cardinality(Live(ks)) - 1)
      /\ \A i \in Live(new) : /\ NthLive(ks, i) \in Live(ks)
                              /\ new.entries[i] = ks.entries[NthLive(ks, i)]
  BY DEF Compacted
<1>2. old \in [Live(new) -> Live(ks)] /\ \A i \in Live(new) : old[i] = NthLive(ks, i)
  BY <1>1
<1> HIDE DEF old
<1>3. \A i, j \in Live(new) : i < j => old[i] < old[j]
  BY <1>1, <1>2, NthLiveOrdered
<1>4. \A i \in Live(new) : /\ i <= old[i]
                           /\ new.entries[i].identity = ks.entries[old[i]].identity
  BY <1>1, <1>2, NthLiveOrdered
<1> QED
  BY <1>2, <1>3, <1>4 DEF Keeping

\* A step that takes no version leaves the order of the entries that stay.
LEMMA NextKeeps ==
  ASSUME TableInvariant, VersionTyped, Next, version' = version
  PROVE  Keeping(keys', keys)
<1>1. IsSound(keys) /\ IsHtKeys(keys) /\ used = Cardinality(Live(keys)) /\ version \in Nat
  BY DEF TableInvariant, IsSound, VersionTyped
<1>2. keys' = keys => Keeping(keys', keys)
  <2>1. Keeping(keys, keys)
    BY <1>1, KeptInPlace
  <2> QED
    BY <2>1
<1>3. CASE Call
  BY <1>2, <1>3, SoundWhenInvariant, CallGuarded
<1>4. ASSUME Idle, NEW op \in BulkOps, NEW hint \in Hints, BulkBegin(op, hint)
      PROVE  Keeping(keys', keys)
  <2>1. hint \in Nat /\ IsSettled(keys)
    BY <1>4, HashTableAssumption DEF TableInvariant, Idle
  <2>2. keys' = keys \/ Compacted(keys', keys)
    BY <1>1, <1>4, <2>1, ReserveSound DEF BulkBegin
  <2> QED
    BY <1>1, <1>2, <2>2, KeptCompacted
<1>5. ASSUME NEW hint \in Hints, BulkRefused(hint)
      PROVE  Keeping(keys', keys)
  BY <1>2, <1>5 DEF BulkRefused
<1>6. ASSUME NEW key \in Keys, NEW value \in Values, BulkItem(key, value)
      PROVE  Keeping(keys', keys)
  <2>1. ~ NEXT_VERSION(1)
    BY <1>1 DEF NEXT_VERSION
  <2>2. \/ keys' = keys
        \/ md_contains(keys, key) /\ keys' = ReplaceForUpdate(keys, key, value)
    BY <1>6, <2>1 DEF BulkItem, ApplyItem, AddItem, UpdateItem, MergeItem, AddForUpdate
  <2>3. CASE md_contains(keys, key) /\ keys' = ReplaceForUpdate(keys, key, value)
    <3> DEFINE new == keys'
    <3>1. new = ReplaceForUpdate(keys, key, value)
      BY <2>3
    <3> HIDE DEF new
    <3>2. /\ Live(new) = Live(keys)
          /\ \A i \in Live(keys) : new.entries[i].identity = keys.entries[i].identity
      BY <1>1, <2>3, <3>1, ReplaceForUpdateSound DEF TakenForUpdate
    <3>3. Keeping(new, keys)
      BY <1>1, <3>2, KeptInPlace
    <3> QED
      BY <3>3 DEF new
  <2> QED
    BY <1>2, <2>2, <2>3
<1>7. ASSUME NEW status, BulkStop(status) PROVE Keeping(keys', keys)
  <2> DEFINE new == keys'
  <2>1. keys' = keys \/ new = md_post_update(keys)
    BY <1>7 DEF BulkStop
  <2> HIDE DEF new
  <2>2. CASE new = md_post_update(keys)
    <3>1. Settled(new, keys)
      BY <1>1, <2>2, PostUpdateSound
    <3>2. Keeping(new, keys)
      BY <1>1, <3>1, KeptInPlace DEF Settled
    <3> QED
      BY <3>2 DEF new
  <2> QED
    BY <1>2, <2>1, <2>2
<1> QED
  BY <1>3, <1>4, <1>5, <1>6, <1>7 DEF Next, BulkEnd, BulkFail

-----------------------------------------------------------------------------
(* What an iterator has yielded, with bulk calls in between.               *)

\* The entries a position has not passed.
Onward(ks, pos) == {i \in Live(ks) : i >= pos}

\* Each item yielded has the identity of one of those it began with, from left
\* to right.
Traced(r, at) == Picks(at, IdentitiesIn(r.seen), IdentitiesIn(r.base))

\* The entries it is still to pass have the identities of items further on, in
\* their order.
Leads(r, at, ks, to) ==
  /\ to \in [Onward(ks, r.pos) -> 1..Len(r.base)]
  /\ \A i, j \in Onward(ks, r.pos) : i < j => to[i] < to[j]
  /\ \A i \in Onward(ks, r.pos) :
       ks.entries[i].identity = IdentityOf[r.base[to[i]].key]
  /\ \A n \in 1..Len(r.seen), i \in Onward(ks, r.pos) : at[n] < to[i]

\* It has yielded some of the items it began with, in their order, and under a
\* version that still matches it can only go on with later ones.
OnTrack(r, ks, ver) ==
  \E at : /\ Traced(r, at)
          /\ r.status # "none" /\ r.version = ver => \E to : Leads(r, at, ks, to)

\* Entries carry the identities of their keys, and every iterator is on track.
TrackInvariant ==
  /\ Identified(keys)
  /\ \A it \in Iters : OnTrack(iters[it], keys, version)

\* The identities of a list, one by one.
LEMMA IdentitiesListed ==
  ASSUME NEW list \in Seq(ItemType)
  PROVE  /\ IdentitiesIn(list) \in Seq(Identities)
         /\ Len(IdentitiesIn(list)) = Len(list)
         /\ \A n \in 1..Len(list) : IdentitiesIn(list)[n] = IdentityOf[list[n].key]
<1> DEFINE n == Len(list)
<1>1. n \in Nat /\ DOMAIN list = 1..n
  OBVIOUS
<1>2. \A i \in 1..n : list[i].key \in Keys
  <2>1. \A i \in 1..n : list[i] \in ItemType
    OBVIOUS
  <2> HIDE DEF n
  <2> QED
    BY <2>1 DEF ItemType
<1>3. IdentitiesIn(list) = [i \in 1..n |-> IdentityOf[list[i].key]]
  BY <1>1 DEF IdentitiesIn
<1>4. \A i \in 1..n : IdentityOf[list[i].key] \in Identities
  BY <1>2, HashTableAssumption
<1> HIDE DEF n
<1> QED
  BY <1>1, <1>3, <1>4 DEF n

\* An iterator that has yielded nothing is on track, wherever it goes.
LEMMA NothingTraced ==
  ASSUME NEW r, r.seen = <<>>, r.base \in Seq(ItemType)
  PROVE  \E at : Traced(r, at)
<1> DEFINE s == IdentitiesIn(r.seen)
           t == IdentitiesIn(r.base)
           at == [n \in 1..0 |-> n]
<1>1. Len(s) = 0
  <2>1. r.seen \in Seq(ItemType) /\ Len(r.seen) = 0
    OBVIOUS
  <2> QED
    BY <2>1, IdentitiesListed
<1>2. Picks(at, s, t)
  BY <1>1 DEF Picks
<1> QED
  BY <1>2 DEF Traced

\* A step that keeps the order of the entries keeps an iterator on track: the
\* entries ahead of its position were ahead of it.
LEMMA KeepsTrack ==
  ASSUME NEW ks, NEW new, IsHtKeys(ks), IsHtKeys(new), Keeping(new, ks),
         NEW r \in Iterator, NEW at, NEW to, Leads(r, at, ks, to)
  PROVE  \E next : Leads(r, at, new, next)
<1> DEFINE pos == r.pos
           A == Onward(ks, pos)
           B == Onward(new, pos)
<1>1. PICK old : /\ old \in [Live(new) -> Live(ks)]
                 /\ \A i, j \in Live(new) : i < j => old[i] < old[j]
                 /\ \A i \in Live(new) :
                      /\ i <= old[i]
                      /\ new.entries[i].identity = ks.entries[old[i]].identity
  BY DEF Keeping
<1>2. /\ \A i \in Live(ks) : i \in Nat
      /\ \A i \in Live(new) : i \in Nat
      /\ pos \in Nat
  BY LiveFinite, SizeTypes DEF Iterator
<1>3. \A i \in B : i \in Live(new) /\ old[i] \in A
  BY <1>1, <1>2 DEF Onward
<1> DEFINE next == [i \in B |-> to[old[i]]]
<1>4. /\ to \in [A -> 1..Len(r.base)]
      /\ \A i, j \in A : i < j => to[i] < to[j]
      /\ \A i \in A : ks.entries[i].identity = IdentityOf[r.base[to[i]].key]
      /\ \A n \in 1..Len(r.seen), i \in A : at[n] < to[i]
  BY DEF Leads
<1> HIDE DEF A, B, pos
<1>5. next \in [B -> 1..Len(r.base)] /\ \A i \in B : next[i] = to[old[i]]
  BY <1>3, <1>4
<1> HIDE DEF next
<1>6. \A i, j \in B : i < j => next[i] < next[j]
  BY <1>1, <1>3, <1>4, <1>5
<1>7. \A i \in B : new.entries[i].identity = IdentityOf[r.base[next[i]].key]
  BY <1>1, <1>3, <1>4, <1>5
<1>8. \A n \in 1..Len(r.seen), i \in B : at[n] < next[i]
  BY <1>3, <1>4, <1>5
<1>9. Leads(r, at, new, next)
  BY <1>5, <1>6, <1>7, <1>8 DEF Leads, B, pos
<1> QED
  BY <1>9

\* An iterator that was not asked for an item keeps track.
LEMMA SameTrack ==
  ASSUME NEW ks, NEW ver, NEW r, NEW q, OnTrack(r, ks, ver),
         q.seen = r.seen, q.base = r.base, q.version = r.version,
         q.pos = r.pos, r.status = "none" => q.status = "none"
  PROVE  OnTrack(q, ks, ver)
BY DEF OnTrack, Traced, Leads

\* Further on there are no other entries than before.
LEMMA FurtherOnTrack ==
  ASSUME NEW ks, IsHtKeys(ks), NEW ver, NEW r \in Iterator, NEW q,
         OnTrack(r, ks, ver), r.status # "none",
         q.seen = r.seen, q.base = r.base, q.version = r.version,
         q.pos \in Nat, r.pos <= q.pos
  PROVE  OnTrack(q, ks, ver)
<1>1. PICK at : /\ Traced(r, at)
                /\ r.version = ver => \E to : Leads(r, at, ks, to)
  BY DEF OnTrack
<1>2. Traced(q, at)
  BY <1>1 DEF Traced
<1>3. Onward(ks, q.pos) \subseteq Onward(ks, r.pos)
  <2>1. r.pos \in Nat /\ \A i \in Live(ks) : i \in Nat
    BY LiveFinite, SizeTypes DEF Iterator
  <2> QED
    BY <2>1 DEF Onward
<1>4. ASSUME q.version = ver PROVE \E to : Leads(q, at, ks, to)
  <2>1. PICK to : Leads(r, at, ks, to)
    BY <1>1, <1>4
  <2> DEFINE A == Onward(ks, r.pos)
             B == Onward(ks, q.pos)
             next == [i \in B |-> to[i]]
  <2>2. /\ to \in [A -> 1..Len(r.base)]
        /\ \A i, j \in A : i < j => to[i] < to[j]
        /\ \A i \in A : ks.entries[i].identity = IdentityOf[r.base[to[i]].key]
        /\ \A n \in 1..Len(r.seen), i \in A : at[n] < to[i]
    BY <2>1 DEF Leads
  <2>3. B \subseteq A
    BY <1>3
  <2> HIDE DEF A, B
  <2>4. next \in [B -> 1..Len(q.base)] /\ \A i \in B : next[i] = to[i]
    BY <2>2, <2>3
  <2> HIDE DEF next
  <2>5. /\ \A i, j \in B : i < j => next[i] < next[j]
        /\ \A i \in B : ks.entries[i].identity = IdentityOf[q.base[next[i]].key]
        /\ \A n \in 1..Len(q.seen), i \in B : at[n] < next[i]
    BY <2>2, <2>3, <2>4
  <2>6. Leads(q, at, ks, next)
    BY <2>4, <2>5 DEF Leads, B
  <2> QED
    BY <2>6
<1> QED
  BY <1>2, <1>4 DEF OnTrack

\* The live entries of a new iterator's multidict have the identities of its
\* list.
LEMMA NewOnTrack ==
  ASSUME TableInvariant, Idle, Identified(keys), NEW r, r.seen = <<>>, r.base = Items,
         r.pos = 0
  PROVE  OnTrack(r, keys, version)
<1> DEFINE c == Cardinality(Live(keys))
           rank(i) == Cardinality(Before(keys, i)) + 1
           to == [i \in Onward(keys, 0) |-> rank(i)]
<1>1. IsSound(keys) /\ IsSettled(keys) /\ IsHtKeys(keys)
  BY DEF TableInvariant, Idle, IsSound
<1>2. Items \in Seq(ItemType) /\ c \in Nat
  BY <1>1, ItemsTyped, LiveFinite DEF Items
<1>3. Items = [n \in 1..c |-> ItemAt(keys, NthLive(keys, n - 1))]
  BY DEF Items, ItemsOf
<1>4. Len(Items) = c
  <2> HIDE DEF c
  <2> QED
    BY <1>2, <1>3
<1>5. Onward(keys, 0) = Live(keys) /\ \A i \in Live(keys) : i \in Nat
  BY <1>1, LiveFinite, SizeTypes DEF Onward
<1>6. ASSUME NEW i \in Live(keys)
      PROVE  /\ rank(i) \in 1..c
             /\ Items[rank(i)] = ItemAt(keys, i)
  <2> DEFINE n == Cardinality(Before(keys, i))
  <2>1. n \in Nat /\ n < c /\ NthLive(keys, n) = i
    BY <1>1, NthLiveCounts, BeforeCounted
  <2> HIDE DEF n, c
  <2>2. n + 1 \in 1..c /\ (n + 1) - 1 = n
    BY <1>2, <2>1
  <2>3. Items[n + 1] = ItemAt(keys, i)
    BY <1>3, <2>1, <2>2
  <2> QED
    BY <2>2, <2>3 DEF n
<1>7. ASSUME NEW i \in Live(keys), NEW j \in Live(keys), i < j PROVE rank(i) < rank(j)
  <2>1. /\ Cardinality(Before(keys, i)) + 1 <= Cardinality(Before(keys, j))
        /\ Cardinality(Before(keys, i)) \in Nat /\ Cardinality(Before(keys, j)) \in Nat
    BY <1>1, <1>5, <1>7, OneMoreBefore, BeforeCounted
  <2> QED
    BY <2>1
<1>8. ASSUME NEW i \in Live(keys)
      PROVE  keys.entries[i].identity = IdentityOf[Items[rank(i)].key]
  <2>1. keys.entries[i].key # NULL
    BY <1>1 DEF IsSettled
  <2>2. ItemAt(keys, i).key = keys.entries[i].key
    BY DEF ItemAt
  <2>3. Items[rank(i)] = ItemAt(keys, i)
    BY <1>6
  <2> HIDE DEF rank
  <2> QED
    BY <2>1, <2>2, <2>3 DEF Identified
<1>9. PICK at : Traced(r, at)
  BY <1>2, NothingTraced
<1> HIDE DEF rank, c
<1>10. to \in [Live(keys) -> 1..c] /\ \A i \in Live(keys) : to[i] = rank(i)
  BY <1>5, <1>6
<1> HIDE DEF to
<1>11. /\ \A i, j \in Live(keys) : i < j => to[i] < to[j]
       /\ \A i \in Live(keys) : keys.entries[i].identity = IdentityOf[Items[to[i]].key]
  BY <1>7, <1>8, <1>10
<1>12. 1..Len(r.seen) = {}
  OBVIOUS
<1>13. Leads(r, at, keys, to)
  BY <1>4, <1>5, <1>10, <1>11, <1>12 DEF Leads
<1> QED
  BY <1>9, <1>13 DEF OnTrack

\* The entry yielded has the identity of an item further on, and those ahead
\* of it have identities of items further on than that.
LEMMA YieldOnTrack ==
  ASSUME TableInvariant, Idle, Identified(keys), NEW r \in Iterator,
         OnTrack(r, keys, version), r.status # "none", r.version = version,
         NEW p \in Onward(keys, r.pos),
         NEW q, q.seen = Append(r.seen, ItemAt(keys, p)), q.base = r.base, q.pos = p + 1
  PROVE  OnTrack(q, keys, version)
<1>1. PICK at, to : Traced(r, at) /\ Leads(r, at, keys, to)
  BY DEF OnTrack
<1> DEFINE k == Len(r.seen)
           m == Len(r.base)
           A == Onward(keys, r.pos)
           B == Onward(keys, p + 1)
           item == ItemAt(keys, p)
           seen == Append(r.seen, item)
           onto == [n \in 1..(k + 1) |-> IF n = k + 1 THEN to[p] ELSE at[n]]
           next == [i \in B |-> to[i]]
<1>2. IsSound(keys) /\ IsSettled(keys) /\ IsHtKeys(keys)
  BY DEF TableInvariant, Idle, IsSound
<1>3. /\ p \in Live(keys) /\ r.pos \in Nat /\ \A i \in Live(keys) : i \in Nat
      /\ r.pos <= p
  BY <1>2, LiveFinite, SizeTypes DEF Onward, Iterator
<1>4. item \in ItemType /\ item.key = keys.entries[p].key /\ keys.entries[p].key # NULL
  BY <1>2, <1>3, EntryIsItem DEF IsSettled, ItemAt
<1>5. /\ r.seen \in Seq(ItemType) /\ r.base \in Seq(ItemType) /\ k \in Nat /\ m \in Nat
  BY DEF Iterator
<1>6. /\ seen \in Seq(ItemType) /\ Len(seen) = k + 1 /\ seen[k + 1] = item
      /\ \A n \in 1..k : seen[n] = r.seen[n]
  <2> HIDE DEF item
  <2> QED
    BY <1>4, <1>5
<1>7. /\ at \in [1..k -> 1..m]
      /\ \A i, j \in 1..k : i < j => at[i] < at[j]
      /\ \A n \in 1..k : IdentityOf[r.seen[n].key] = IdentityOf[r.base[at[n]].key]
  <2>1. /\ Len(IdentitiesIn(r.seen)) = k /\ Len(IdentitiesIn(r.base)) = m
        /\ \A n \in 1..k : IdentitiesIn(r.seen)[n] = IdentityOf[r.seen[n].key]
        /\ \A n \in 1..m : IdentitiesIn(r.base)[n] = IdentityOf[r.base[n].key]
    BY <1>5, IdentitiesListed
  <2>2. Picks(at, IdentitiesIn(r.seen), IdentitiesIn(r.base))
    BY <1>1 DEF Traced
  <2> HIDE DEF k, m
  <2> QED
    BY <2>1, <2>2 DEF Picks
<1>8. /\ to \in [A -> 1..m]
      /\ \A i, j \in A : i < j => to[i] < to[j]
      /\ \A i \in A : keys.entries[i].identity = IdentityOf[r.base[to[i]].key]
      /\ \A n \in 1..k, i \in A : at[n] < to[i]
  BY <1>1 DEF Leads
<1>9. p \in A /\ B \subseteq A /\ \A i \in B : p < i
  BY <1>3 DEF Onward
<1>10. IdentityOf[item.key] = IdentityOf[r.base[to[p]].key]
  BY <1>3, <1>4, <1>8, <1>9 DEF Identified
<1>11. q.seen = seen
  OBVIOUS
<1> HIDE DEF A, B, k, m, item, seen
<1>12. onto \in [1..(k + 1) -> 1..m]
       /\ \A n \in 1..(k + 1) : onto[n] = IF n = k + 1 THEN to[p] ELSE at[n]
  <2>1. \A n \in 1..(k + 1) : n # k + 1 => n \in 1..k
    BY <1>5
  <2>2. \A n \in 1..(k + 1) : (IF n = k + 1 THEN to[p] ELSE at[n]) \in 1..m
    BY <1>7, <1>8, <1>9, <2>1
  <2> QED
    BY <2>2
<1>13. next \in [B -> 1..m] /\ \A i \in B : next[i] = to[i]
  BY <1>8, <1>9
<1> HIDE DEF onto, next
<1>14. \A i, j \in 1..(k + 1) : i < j => onto[i] < onto[j]
  <2> SUFFICES ASSUME NEW i \in 1..(k + 1), NEW j \in 1..(k + 1), i < j
               PROVE  onto[i] < onto[j]
    OBVIOUS
  <2>1. i \in 1..k /\ i # k + 1 /\ (j = k + 1 \/ (j # k + 1 /\ j \in 1..k))
    BY <1>5
  <2>2. onto[i] = at[i]
    BY <1>12, <2>1
  <2> QED
    BY <1>7, <1>8, <1>9, <1>12, <2>1, <2>2
<1>15. \A n \in 1..(k + 1) : IdentityOf[seen[n].key] = IdentityOf[r.base[onto[n]].key]
  <2> SUFFICES ASSUME NEW n \in 1..(k + 1)
               PROVE  IdentityOf[seen[n].key] = IdentityOf[r.base[onto[n]].key]
    OBVIOUS
  <2>1. CASE n = k + 1
    BY <1>6, <1>10, <1>12, <2>1
  <2>2. CASE n # k + 1
    <3>1. n \in 1..k
      BY <1>5, <2>2
    <3> QED
      BY <1>6, <1>7, <1>12, <2>2, <3>1
  <2> QED
    BY <2>1, <2>2
<1>16. Traced(q, onto)
  <2> DEFINE s == IdentitiesIn(seen)
             t == IdentitiesIn(r.base)
  <2>1. /\ Len(s) = k + 1 /\ Len(t) = m
        /\ \A n \in 1..(k + 1) : s[n] = IdentityOf[seen[n].key]
        /\ \A n \in 1..m : t[n] = IdentityOf[r.base[n].key]
    BY <1>5, <1>6, IdentitiesListed DEF m
  <2> HIDE DEF s, t
  <2>2. \A n \in 1..(k + 1) : s[n] = t[onto[n]]
    BY <1>12, <1>15, <2>1
  <2>3. Picks(onto, s, t)
    BY <1>12, <1>14, <2>1, <2>2 DEF Picks
  <2> QED
    BY <1>11, <2>3 DEF Traced, s, t
<1>17. Leads(q, onto, keys, next)
  <2>1. Len(q.seen) = k + 1 /\ Len(q.base) = m /\ Onward(keys, q.pos) = B
    BY <1>6, <1>11 DEF m, B
  <2>2. \A i, j \in B : i < j => next[i] < next[j]
    BY <1>8, <1>9, <1>13
  <2>3. \A i \in B : keys.entries[i].identity = IdentityOf[q.base[next[i]].key]
    BY <1>8, <1>9, <1>13
  <2>4. \A n \in 1..(k + 1), i \in B : onto[n] < next[i]
    <3> SUFFICES ASSUME NEW n \in 1..(k + 1), NEW i \in B PROVE onto[n] < next[i]
      OBVIOUS
    <3>1. CASE n = k + 1
      BY <1>8, <1>9, <1>12, <1>13, <3>1
    <3>2. CASE n # k + 1
      <4>1. n \in 1..k
        BY <1>5, <3>2
      <4> QED
        BY <1>8, <1>9, <1>12, <1>13, <3>2, <4>1
    <3> QED
      BY <3>1, <3>2
  <2> QED
    BY <1>13, <2>1, <2>2, <2>3, <2>4 DEF Leads
<1> QED
  BY <1>16, <1>17 DEF OnTrack

\* A step of one iterator leaves the others on track.
LEMMA OneOnTrack ==
  ASSUME TrackInvariant, UNCHANGED vars, NEW it \in Iters, NEW r,
         iters \in [Iters -> Iterator], iters' = [iters EXCEPT ![it] = r],
         OnTrack(r, keys, version)
  PROVE  TrackInvariant'
<1>1. keys' = keys /\ version' = version
  BY DEF vars
<1>2. \A other \in Iters : OnTrack(iters'[other], keys, version)
  BY DEF TrackInvariant
<1> DEFINE new == iters'
<1> HIDE DEF new
<1>3. \A other \in Iters : OnTrack(new[other], keys, version)
  BY <1>2 DEF new
<1>4. \A other \in Iters : OnTrack(new[other], keys', version')
  BY <1>1, <1>3
<1>5. Identified(keys')
  BY <1>1 DEF TrackInvariant
<1> QED
  BY <1>4, <1>5 DEF TrackInvariant, new

\* A step of the multidict: an iterator whose version it leaves is still on
\* track, the others raise.
LEMMA MutateTracks ==
  ASSUME TableInvariant, TableInvariant', VersionTyped, IterInvariant, TrackInvariant, Mutate
  PROVE  TrackInvariant'
<1>1. Next /\ version' \in Nat /\ version <= version' /\ version \in Nat
  BY VersionGrows DEF Mutate, VersionTyped
<1> DEFINE ks == keys'
           ver == version'
           new == iters'
<1>2. Identified(ks)
  BY <1>1, NextIdentified DEF TrackInvariant
<1>3. ver = version => Keeping(ks, keys)
  BY <1>1, NextKeeps
<1>4. IsHtKeys(keys) /\ IsHtKeys(ks)
  <2>1. IsSound(ks)
    BY DEF TableInvariant
  <2> QED
    BY <2>1 DEF TableInvariant, IsSound
<1>5. ASSUME NEW it \in Iters
      PROVE  /\ new[it].seen = iters[it].seen /\ new[it].base = iters[it].base
             /\ new[it].version = iters[it].version /\ new[it].pos = iters[it].pos
             /\ new[it].status = iters[it].status
  <2>1. iters[it] \in Iterator
    BY DEF IterInvariant
  <2>2. new[it] = iters[it] \/ new[it] = [iters[it] EXCEPT !.crossed = TRUE]
    BY DEF Mutate
  <2> HIDE DEF new
  <2> QED
    BY <2>1, <2>2 DEF Iterator
<1>6. ASSUME NEW it \in Iters PROVE OnTrack(iters[it], ks, ver)
  <2> DEFINE r == iters[it]
  <2>1. r \in Iterator /\ r.version <= version /\ OnTrack(r, keys, version)
    BY DEF IterInvariant, IteratorSound, TrackInvariant
  <2> HIDE DEF r, ks, ver
  <2>2. PICK at : /\ Traced(r, at)
                  /\ (r.status # "none" /\ r.version = version)
                       => \E to : Leads(r, at, keys, to)
    BY <2>1 DEF OnTrack
  <2>3. ASSUME r.status # "none", r.version = ver PROVE \E to : Leads(r, at, ks, to)
    <3>1. ver = version
      BY <1>1, <2>1, <2>3 DEF Iterator, ver
    <3>2. PICK to : Leads(r, at, keys, to)
      BY <2>2, <2>3, <3>1
    <3> QED
      BY <1>3, <1>4, <2>1, <3>1, <3>2, KeepsTrack
  <2> QED
    BY <2>2, <2>3 DEF OnTrack, r
<1> HIDE DEF ks, ver, new
<1>7. ASSUME NEW it \in Iters PROVE OnTrack(new[it], ks, ver)
  BY <1>5, <1>6, SameTrack
<1> QED
  BY <1>2, <1>7 DEF TrackInvariant, ks, ver, new

\* Every step keeps every iterator on track.
LEMMA StepTracks ==
  ASSUME TableInvariant, TableInvariant', VersionTyped, IterInvariant, TrackInvariant,
         IterNext
  PROVE  TrackInvariant'
<1>1. /\ iters \in [Iters -> Iterator]
      /\ \A it \in Iters : iters[it] \in Iterator /\ OnTrack(iters[it], keys, version)
  BY DEF IterInvariant, TrackInvariant
<1>2. ASSUME Idle, NEW it \in Iters, NewIter(it) PROVE TrackInvariant'
  <2> DEFINE r == [NoIter EXCEPT !.status = "running", !.version = version, !.base = Items]
  <2>1. iters' = [iters EXCEPT ![it] = r] /\ UNCHANGED vars
    BY <1>2 DEF NewIter
  <2>2. r.seen = <<>> /\ r.base = Items /\ r.pos = 0
    BY DEF NoIter
  <2> HIDE DEF r
  <2>3. OnTrack(r, keys, version)
    BY <1>2, <2>2, NewOnTrack DEF TrackInvariant
  <2> QED
    BY <1>1, <2>1, <2>3, OneOnTrack
<1>3. ASSUME NEW it \in Iters, Raise(it) PROVE TrackInvariant'
  <2> DEFINE r == [iters[it] EXCEPT !.status = "raised"]
  <2>1. /\ iters' = [iters EXCEPT ![it] = r] /\ UNCHANGED vars
        /\ iters[it].status # "none"
    BY <1>3 DEF Raise
  <2>2. /\ r.seen = iters[it].seen /\ r.base = iters[it].base
        /\ r.version = iters[it].version /\ r.pos = iters[it].pos
    BY <1>1 DEF Iterator
  <2> HIDE DEF r
  <2>3. OnTrack(r, keys, version)
    BY <1>1, <2>1, <2>2, SameTrack
  <2> QED
    BY <1>1, <2>1, <2>3, OneOnTrack
<1>4. ASSUME Idle, NEW it \in Iters, Yield(it) PROVE TrackInvariant'
  <2> DEFINE old == iters[it]
             p == NextPos(old.pos)
             pos == p + 1
             seen == Append(old.seen, ItemAt(keys, p))
             r == [old EXCEPT !.pos = pos, !.seen = seen]
  <2>1. old \in Iterator /\ OnTrack(old, keys, version)
    BY <1>1
  <2>2. iters' = [iters EXCEPT ![it] = r] /\ UNCHANGED vars
    BY <1>1, <1>4 DEF Yield, Iterator
  <2>3. old.status # "none" /\ old.version = version /\ p < keys.nentries
    BY <1>4 DEF Yield, IsCurrent
  <2>4. IsHtKeys(keys)
    BY DEF TableInvariant, IsSound
  <2>5. p \in Onward(keys, old.pos)
    <3>1. /\ p \in Nat /\ p \in Live(keys)
          /\ Before(keys, p) = Before(keys, old.pos)
      BY <2>1, <2>3, <2>4, NextPosCounts DEF Iterator
    <3>2. p \notin Before(keys, p)
      BY <3>1 DEF Before
    <3>3. ~ (p < old.pos)
      BY <3>1, <3>2 DEF Before
    <3>4. old.pos \in Nat
      BY <2>1 DEF Iterator
    <3> HIDE DEF p, old
    <3> QED
      BY <3>1, <3>3, <3>4 DEF Onward
  <2>6. r.seen = seen /\ r.base = old.base /\ r.pos = pos
    <3> HIDE DEF seen, pos, old
    <3> QED
      BY <2>1 DEF Iterator
  <2> HIDE DEF r, old, p
  <2>7. OnTrack(r, keys, version)
    BY <1>4, <2>1, <2>3, <2>5, <2>6, YieldOnTrack DEF TrackInvariant
  <2> QED
    BY <1>1, <2>2, <2>7, OneOnTrack
<1>5. ASSUME Idle, NEW it \in Iters, Stop(it) PROVE TrackInvariant'
  <2> DEFINE old == iters[it]
             p == NextPos(old.pos)
             r == [old EXCEPT !.pos = p, !.status = "stopped"]
  <2>1. old \in Iterator /\ OnTrack(old, keys, version)
    BY <1>1
  <2>2. iters' = [iters EXCEPT ![it] = r] /\ UNCHANGED vars
    BY <1>1, <1>5 DEF Stop, Iterator
  <2>3. old.status # "none" /\ p >= keys.nentries
    BY <1>5 DEF Stop, IsCurrent
  <2>4. IsHtKeys(keys)
    BY DEF TableInvariant, IsSound
  <2>5. p \in Nat /\ old.pos <= p
    <3>1. old.pos \in Nat /\ keys.nentries \in Nat
      <4>1. keys.nentries \in Nat
        BY <2>4, LiveFinite, SizeTypes DEF IsHtKeys
      <4> HIDE DEF old
      <4> QED
        BY <2>1, <4>1 DEF Iterator
    <3>2. p \in Nat /\ Before(keys, old.pos) = Live(keys)
      BY <2>1, <2>3, <2>4, NextPosCounts DEF Iterator
    <3>3. Onward(keys, old.pos) = {}
      <4>1. \A i \in Live(keys) : i \in Nat /\ i < old.pos
        BY <2>4, <3>2, LiveFinite, SizeTypes DEF Before
      <4> QED
        BY <3>1, <4>1 DEF Onward
    <3>4. p = Max({old.pos, keys.nentries})
      BY <3>3 DEF NextPos, Onward
    <3>5. Max({old.pos, keys.nentries}) >= old.pos
      <4>1. \E m \in {old.pos, keys.nentries} : \A x \in {old.pos, keys.nentries} : m >= x
        BY <3>1
      <4> HIDE DEF old
      <4> QED
        BY <4>1 DEF Max
    <3> HIDE DEF p, old
    <3> QED
      BY <3>1, <3>2, <3>4, <3>5
  <2>6. r.seen = old.seen /\ r.base = old.base /\ r.version = old.version /\ r.pos = p
    <3> HIDE DEF p
    <3> QED
      BY <2>1 DEF Iterator
  <2> HIDE DEF r, old, p
  <2>7. OnTrack(r, keys, version)
    BY <2>1, <2>3, <2>4, <2>5, <2>6, FurtherOnTrack
  <2> QED
    BY <1>1, <2>2, <2>7, OneOnTrack
<1> QED
  BY <1>2, <1>3, <1>4, <1>5, MutateTracks DEF IterNext

\* The table a multidict starts with holds nothing.
LEMMA StartsEmpty == Init => Live(keys) = {}
<1> SUFFICES ASSUME Init PROVE Live(keys) = {}
  OBVIOUS
<1>1. TableInvariant
  BY InitSound
<1>2. IsSound(keys) /\ Cardinality(Live(keys)) = 0
  BY <1>1 DEF TableInvariant, Init
<1>3. IsFiniteSet(Live(keys))
  BY <1>2, LiveFinite DEF IsSound
<1> DEFINE live == Live(keys)
<1>4. IsFiniteSet(live) /\ Cardinality(live) = 0
  BY <1>2, <1>3
<1> HIDE DEF live
<1>5. live = {}
  BY <1>4, FS_EmptySet
<1> QED
  BY <1>5 DEF live

\* Bulk calls in between included, no iterator yields an item twice, nor out
\* of order, nor one that was not there when it began.
THEOREM NeverRepeatsAny == IterSpec => []NeverRepeats
<1>1. IterInit /\ IterInvariant => TrackInvariant
  <2> SUFFICES ASSUME IterInit, IterInvariant PROVE TrackInvariant
    OBVIOUS
  <2>1. Identified(keys)
    <3>1. Live(keys) = {}
      BY StartsEmpty DEF IterInit
    <3> QED
      BY <3>1 DEF Identified
  <2>2. ASSUME NEW it \in Iters PROVE OnTrack(iters[it], keys, version)
    <3> DEFINE r == iters[it]
    <3>1. r.status = "none" /\ r.seen = <<>> /\ r.base = <<>>
      BY DEF IterInit, NoIter
    <3>2. r.base \in Seq(ItemType)
      BY <3>1
    <3> HIDE DEF r
    <3>3. PICK at : Traced(r, at)
      BY <3>1, <3>2, NothingTraced
    <3>4. OnTrack(r, keys, version)
      BY <3>1, <3>3 DEF OnTrack
    <3> QED
      BY <3>4 DEF r
  <2> QED
    BY <2>1, <2>2 DEF TrackInvariant
<1>2. TableInvariant /\ TableInvariant' /\ VersionTyped /\ IterInvariant /\ TrackInvariant
        /\ [IterNext]_iterVars => TrackInvariant'
  <2> SUFFICES ASSUME TableInvariant, TableInvariant', VersionTyped, IterInvariant,
                      TrackInvariant, [IterNext]_iterVars
               PROVE  TrackInvariant'
    OBVIOUS
  <2>1. CASE UNCHANGED iterVars
    <3>1. iters' = iters /\ keys' = keys /\ version' = version
      BY <2>1 DEF iterVars, vars
    <3>2. Identified(keys) /\ \A it \in Iters : OnTrack(iters[it], keys, version)
      BY DEF TrackInvariant
    <3>3. Identified(keys') /\ \A it \in Iters : OnTrack(iters'[it], keys', version')
      BY <3>1, <3>2
    <3> QED
      BY <3>3 DEF TrackInvariant
  <2>2. CASE IterNext
    BY <2>2, StepTracks
  <2> QED
    BY <2>1, <2>2
<1>3. TypeOK => VersionTyped
  BY DEF TypeOK, VersionTyped
<1>4. IterInvariant /\ TrackInvariant => NeverRepeats
  <2> SUFFICES ASSUME IterInvariant, TrackInvariant, NEW it \in Iters
               PROVE  IsSubsequence(IdentitiesIn(iters[it].seen), IdentitiesIn(iters[it].base))
    BY DEF NeverRepeats
  <2> DEFINE r == iters[it]
  <2>1. r \in Iterator /\ OnTrack(r, keys, version)
    BY DEF IterInvariant, TrackInvariant
  <2>2. PICK at : Traced(r, at)
    BY <2>1 DEF OnTrack
  <2>3. /\ IdentitiesIn(r.seen) \in Seq(Identities)
        /\ IdentitiesIn(r.base) \in Seq(Identities)
    BY <2>1, IdentitiesListed DEF Iterator
  <2> HIDE DEF r
  <2>4. IsSubsequence(IdentitiesIn(r.seen), IdentitiesIn(r.base))
    BY <2>2, <2>3, PickedIsSubsequence DEF Traced
  <2> QED
    BY <2>4 DEF r
<1> QED
  BY <1>1, <1>2, <1>3, <1>4, IteratorsAlwaysSound, IteratorsOnlyRead, TableAlwaysSound,
     TypeAlwaysOK, PTL DEF IterSpec

=============================================================================
