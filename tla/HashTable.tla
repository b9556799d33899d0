------------------------------ MODULE HashTable ------------------------------
(***************************************************************************)
(* The C multidict (src/multidict/_multilib/hashtable.h and the methods of *)
(* src/multidict/_multidict.c): a key table, the number of items in it and *)
(* the version that iterators and getversion() compare.                    *)
(*                                                                         *)
(* A call that runs to its end without calling back into Python is one     *)
(* step.  extend(), update(), merge() and the constructor read their       *)
(* argument item by item, and a step of theirs is one item: BulkBegin,     *)
(* then one BulkItem per item, then BulkEnd, or BulkFail when an item      *)
(* cannot be taken.  Reads leave the table as it was, marks included;      *)
(* they are operators, and invariants say what they return.                *)
(***************************************************************************)
EXTENDS HtKeys, Sequences

CONSTANTS
  IdentityOf,     \* md_calc_identity: the identity of each key object
  Hints,          \* the sizes an argument may announce
  MaxVersion,     \* bound on the version counter
  MaxArgs         \* bound on the items of one bulk argument

ASSUME HashTableAssumption ==
  /\ IdentityOf \in [Keys -> Identities]
  /\ Hints \subseteq Nat
  /\ MaxVersion \in Nat
  /\ MaxArgs \in Nat

VARIABLES
  keys,           \* md->keys
  used,           \* md->used
  version,        \* md->version
  ret,            \* what the last call returned or raised
  bulk            \* the bulk operation under way, with its history

vars == <<keys, used, version, ret, bulk>>

BulkOps == {"extend", "update", "merge"}

\* No operation under way.  While there is one, base is the list of items
\* it began with and version its version, args what it has taken so far,
\* hint the number of items room was reserved for and log2 the size after the
\* reservation: history, which only the properties read.  op is md_update_from_*'s op argument.
NoBulk == [op |-> "none", base |-> <<>>, args |-> <<>>, hint |-> 0, log2 |-> 0,
           version |-> 0]

Idle == bulk.op = "none"

Return(status, list) == ret' = [status |-> status, list |-> list]

hash_of(key) == HashOf[IdentityOf[key]]

-----------------------------------------------------------------------------
(* The items, in the order an iteration yields them.                       *)

ItemAt(ks, i) == [key |-> ks.entries[i].key, value |-> ks.entries[i].value]

ItemsOf(ks) ==
  [n \in 1..Cardinality(Live(ks)) |-> ItemAt(ks, NthLive(ks, n - 1))]

Items == ItemsOf(keys)

-----------------------------------------------------------------------------
(* Resizing.  Each operator takes the table and md->used.                  *)

\* Variant: the rate of earlier versions.
GrowFourfold(n_used) == n_used * 4

GROWTH_RATE(n_used) == n_used * 3

\* Variant: the deleted entries are not left out.
CompactPrefix(ks, log2) ==
  [i \in EntryIndices(log2) |->
     IF i < Cardinality(Live(ks)) THEN ks.entries[i] ELSE ZeroEntry]

\* The live entries moved to the front of an array for 2^log2 slots.
CompactEntries(ks, log2) ==
  [i \in EntryIndices(log2) |->
     IF i < Cardinality(Live(ks)) THEN ks.entries[NthLive(ks, i)]
                                  ELSE ZeroEntry]

_md_resize(ks, n_used, log2, update) ==
  htkeys_build_indices(
    [htkeys_new(log2) EXCEPT !.entries = CompactEntries(ks, log2),
                             !.usable = @ - n_used,
                             !.nentries = n_used],
    n_used, update)

\* Variant: the entries squeezed out are not given back.
ShrinkKeepsUsable(ks, update) ==
  LET live == Cardinality(Live(ks))
  IN  htkeys_build_indices(
        [ks EXCEPT !.entries = CompactEntries(ks, ks.log2_size),
                   !.nentries = live],
        live, update)

_md_shrink(ks, update) ==
  LET live == Cardinality(Live(ks))
  IN  htkeys_build_indices(
        [ks EXCEPT !.entries = CompactEntries(ks, ks.log2_size),
                   !.usable = @ + ks.nentries - live,
                   !.nentries = live],
        live, update)

NeedsRoom(ks) == ks.usable <= 0 \/ ks.log2_size = 0

\* The table does not fit, and no deleted entry can be squeezed out.
NeedsGrowth(ks, n_used) == NeedsRoom(ks) /\ ~ (n_used < ks.nentries)

\* What _md_resize refuses; an allocation can also fail at any size.
TooLarge(log2) == log2 >= SIZE_T_BITS

CanMakeRoom(ks, n_used) ==
  NeedsGrowth(ks, n_used)
    => ~ TooLarge(calculate_log2_keysize(GROWTH_RATE(n_used)))

\* _md_resize_for_insert and _md_resize_for_update, when they are called.
MakeRoom(ks, n_used, update) ==
  IF ~ NeedsRoom(ks) THEN ks
  ELSE IF n_used < ks.nentries THEN _md_shrink(ks, update)
  ELSE _md_resize(ks, n_used, calculate_log2_keysize(GROWTH_RATE(n_used)),
                  update)

\* Variant: the items already there are not counted.
NeedsReserveExtra(ks, n_used, extra) ==
  estimate_log2_keysize(extra) > ks.log2_size

NeedsReserve(ks, n_used, extra) ==
  estimate_log2_keysize(extra + n_used) > ks.log2_size

_md_reserve(ks, n_used, extra) ==
  IF NeedsReserve(ks, n_used, extra)
    THEN _md_resize(ks, n_used, estimate_log2_keysize(extra + n_used), FALSE)
    ELSE ks

-----------------------------------------------------------------------------
(* Writing to a table.                                                     *)

\* The entry goes to the end of the entries, its index to the first EMPTY
\* slot of its path: a DUMMY slot is not reused.
StoreEntry(ks, slot, entry) ==
  [ks EXCEPT !.indices[slot] = ks.nentries,
             !.entries[ks.nentries] = entry,
             !.usable = @ - 1,
             !.nentries = @ + 1]

AddEntry(ks, n_used, key, value, update) ==
  LET room == MakeRoom(ks, n_used, update)
      hash == hash_of(key)
  IN  StoreEntry(room, htkeys_find_empty_slot(room, hash),
                 [hash |-> IF update THEN MARK ELSE hash,
                  identity |-> IdentityOf[key], key |-> key, value |-> value])

\* Variant: the slot of a deleted entry keeps its index.
DeleteKeepsIndex(ks, slots) ==
  LET gone == {ks.indices[s] : s \in slots}
  IN  [ks EXCEPT
         !.entries = [i \in DOMAIN @ |->
            IF i \in gone
              THEN [@[i] EXCEPT !.identity = NULL, !.key = NULL, !.value = NULL]
              ELSE @[i]]]

\* _md_del_at for each slot of a set: the entry keeps its hash.
DeleteAt(ks, slots) ==
  LET gone == {ks.indices[s] : s \in slots}
  IN  [ks EXCEPT
         !.indices = [s \in DOMAIN @ |-> IF s \in slots THEN DKIX_DUMMY ELSE @[s]],
         !.entries = [i \in DOMAIN @ |->
            IF i \in gone
              THEN [@[i] EXCEPT !.identity = NULL, !.key = NULL, !.value = NULL]
              ELSE @[i]]]

\* Variant: the entry taken is not marked.
ReplaceUnmarked(ks, key, value) ==
  LET id == IdentityOf[key]
      first == ks.indices[FirstMatch(ks, HashOf[id], id)]
      others == {ks.indices[s] : s \in MatchingSlots(ks, HashOf[id], id)} \ {first}
  IN  [ks EXCEPT !.entries = [i \in DOMAIN @ |->
         CASE i = first -> [@[i] EXCEPT !.key = key, !.value = value]
           [] i \in others -> [@[i] EXCEPT !.key = NULL, !.value = NULL]
           [] OTHER -> @[i]]]

\* _md_update on a table that holds the identity: the first visible entry
\* takes the item and is marked, the other visible ones are half deleted.
ReplaceForUpdate(ks, key, value) ==
  LET id == IdentityOf[key]
      first == ks.indices[FirstMatch(ks, HashOf[id], id)]
      others == {ks.indices[s] : s \in MatchingSlots(ks, HashOf[id], id)} \ {first}
  IN  [ks EXCEPT !.entries = [i \in DOMAIN @ |->
         CASE i = first -> [hash |-> MARK, identity |-> id,
                            key |-> key, value |-> value]
           [] i \in others -> [@[i] EXCEPT !.key = NULL, !.value = NULL]
           [] OTHER -> @[i]]]

\* The slots md_post_update empties: their entries were half deleted and no
\* later item took them.
HalfDeletedSlots(ks) ==
  {s \in DOMAIN ks.indices :
     ks.indices[s] >= 0 /\ ks.entries[ks.indices[s]].key = NULL}

md_post_update(ks) ==
  LET held == {ks.indices[s] : s \in {s \in DOMAIN ks.indices : ks.indices[s] >= 0}}
      dead == HalfDeletedSlots(ks)
      gone == {ks.indices[s] : s \in dead}
  IN  [ks EXCEPT
         !.indices = [s \in DOMAIN @ |-> IF s \in dead THEN DKIX_DUMMY ELSE @[s]],
         !.entries = [i \in DOMAIN @ |->
            LET e == IF i \in gone THEN [@[i] EXCEPT !.identity = NULL] ELSE @[i]
            IN  IF i \in held /\ e.hash = MARK
                  THEN [e EXCEPT !.hash = HashOf[e.identity]]
                  ELSE e]]

-----------------------------------------------------------------------------
(* What the debug build checks, over all entries allocated.                *)

_md_check_consistency(ks, n_used, update) ==
  LET calc_usable == Capacity(ks.log2_size)
  IN  /\ {n_used, ks.usable, ks.nentries} \subseteq 0..calc_usable
      /\ ks.usable + ks.nentries <= calc_usable
      /\ \A s \in DOMAIN ks.indices : ks.indices[s] \in DKIX_DUMMY..calc_usable
      /\ \A i \in DOMAIN ks.entries :
           LET e == ks.entries[i]
           IN  e.identity # NULL =>
                 /\ ~ update => e.hash # MARK /\ e.key # NULL
                 /\ e.key = NULL <=> e.value = NULL
                 /\ e.hash \in {MARK, HashOf[e.identity]}

-----------------------------------------------------------------------------
(* Reading a table.                                                        *)

md_contains(ks, key) ==
  Matches(ks, hash_of(key), IdentityOf[key]) # {}

\* The entry getone() reads, for a key the table contains.
md_get_one(ks, key) ==
  ks.entries[ks.indices[FirstMatch(ks, hash_of(key), IdentityOf[key])]].value

\* Variant: the entry found is not marked, the finder moves on instead.
FindNextUnmarked(find) ==
  LET ahead == {n \in Matches(find.keys, find.hash, find.identity) :
                  n >= find.step}
      n == Min(ahead)
      i == IndexAt(find.keys, find.hash, n)
  IN  IF ahead = {}
        THEN find
        ELSE [find EXCEPT !.step = n + 1,
                          !.list = Append(@, find.keys.entries[i].value)]

\* Variant: the entry found is not marked, and the finder stays on it.
FindNextInPlace(find) ==
  LET ahead == {n \in Matches(find.keys, find.hash, find.identity) :
                  n >= find.step}
      i == IndexAt(find.keys, find.hash, Min(ahead))
  IN  IF ahead = {}
        THEN find
        ELSE [find EXCEPT !.step = Min(ahead),
                          !.list = Append(@, find.keys.entries[i].value)]

\* md_find_next: the first match at or after the finder's step is marked.
\* The finder stays on it, and the mark makes the next call pass it by.
md_find_next(find) ==
  LET ahead == {n \in Matches(find.keys, find.hash, find.identity) :
                  n >= find.step}
      n == Min(ahead)
      i == IndexAt(find.keys, find.hash, n)
  IN  IF ahead = {}
        THEN find
        ELSE [find EXCEPT !.step = n,
                          !.list = Append(@, find.keys.entries[i].value),
                          !.keys.entries[i].hash = MARK]

\* md_finder_cleanup: every mark on the path becomes the finder's hash.
md_finder_cleanup(ks, hash) ==
  LET path == {IndexAt(ks, hash, n) : n \in 0..(PathLength(ks, hash) - 1)}
  IN  [ks EXCEPT !.entries = [i \in DOMAIN @ |->
         IF i \in path /\ @[i].hash = MARK THEN [@[i] EXCEPT !.hash = hash]
                                          ELSE @[i]]]

\* md_get_all: the values found and the table it leaves behind.  There is no
\* cleanup when nothing was found.
md_get_all(ks, key) ==
  LET hash == hash_of(key)
      find[calls \in 0..(ks.nentries + 1)] ==
        IF calls = 0
          THEN [keys |-> ks, step |-> 0, list |-> <<>>,
                hash |-> hash, identity |-> IdentityOf[key]]
          ELSE md_find_next(find[calls - 1])
      last == find[ks.nentries + 1]
  IN  [list |-> last.list,
       keys |-> IF last.list = <<>> THEN ks ELSE md_finder_cleanup(last.keys, hash)]

-----------------------------------------------------------------------------
(* The calls that are one step.                                            *)

\* NEXT_VERSION, n times.
NEXT_VERSION(n) == version + n <= MaxVersion /\ version' = version + n

\* The exception carries the key, if there is one.
KeyError(about) == Return("KeyError", about) /\ UNCHANGED <<keys, used, version>>

\* A constructor reserves no more than this, whatever its argument announces.
log2_max_presize == 17
max_presize == 2 ^ log2_max_presize

\* md_init and the constructor that calls it, about to read its argument.
Init ==
  \E minused \in Hints :
    LET large == minused > USABLE_FRACTION(max_presize)
        log2 == IF large THEN log2_max_presize ELSE estimate_log2_keysize(minused)
        table == IF minused <= USABLE_FRACTION(HT_MINSIZE)
                   THEN empty_htkeys ELSE htkeys_new(log2)
    IN  /\ table = empty_htkeys \/ ~ TooLarge(log2)
        /\ keys = table
        /\ used = 0
        /\ version = 0
        /\ ret = [status |-> "ok", list |-> <<>>]
        /\ bulk = [NoBulk EXCEPT
             !.op = "extend", !.log2 = table.log2_size,
             !.hint = IF large THEN USABLE_FRACTION(max_presize) ELSE minused]

\* Variant: the version stays.
AddItemQuietly(key, value) ==
  /\ CanMakeRoom(keys, used)
  /\ keys' = AddEntry(keys, used, key, value, FALSE)
  /\ used' = used + 1
  /\ NEXT_VERSION(0)

\* _md_add_with_hash_steal_refs with a table that can hold one more.
AddItem(key, value) ==
  /\ CanMakeRoom(keys, used)
  /\ keys' = AddEntry(keys, used, key, value, FALSE)
  /\ used' = used + 1
  /\ NEXT_VERSION(1)

MdAdd(key, value) ==
  /\ AddItem(key, value)
  /\ Return("ok", <<>>)

\* The same with one that cannot: nothing was written yet.
OutOfMemory ==
  /\ NeedsGrowth(keys, used)
  /\ Return("MemoryError", <<>>)
  /\ UNCHANGED <<keys, used, version>>

\* The slots of all items of a key are emptied.
DeleteKey(key) ==
  LET slots == MatchingSlots(keys, hash_of(key), IdentityOf[key])
  IN  /\ keys' = DeleteAt(keys, slots)
      /\ used' = used - Cardinality(slots)

MdDel(key) ==
  IF md_contains(keys, key)
    THEN DeleteKey(key) /\ NEXT_VERSION(1) /\ Return("ok", <<>>)
    ELSE KeyError(<<key>>)

MdSetDefault(key, value) ==
  IF md_contains(keys, key)
    THEN /\ Return("ok", <<md_get_one(keys, key)>>)
         /\ UNCHANGED <<keys, used, version>>
    ELSE AddItem(key, value) /\ Return("ok", <<value>>)

\* Variant: the last item of the key goes, as the docstring of popone() says.
PopOneLast(key) ==
  IF md_contains(keys, key)
    THEN LET id == IdentityOf[key]
             last == SlotAt(keys, HashOf[id], Max(Matches(keys, HashOf[id], id)))
         IN  /\ keys' = DeleteAt(keys, {last})
             /\ used' = used - 1
             /\ NEXT_VERSION(1)
             /\ Return("ok", <<keys.entries[keys.indices[last]].value>>)
    ELSE KeyError(<<key>>)

MdPopOne(key) ==
  IF md_contains(keys, key)
    THEN /\ keys' = DeleteAt(keys,
                      {FirstMatch(keys, hash_of(key), IdentityOf[key])})
         /\ used' = used - 1
         /\ NEXT_VERSION(1)
         /\ Return("ok", <<md_get_one(keys, key)>>)
    ELSE KeyError(<<key>>)

\* The steps at which md_pop_all finds an item: a slot met again is DUMMY by
\* then.
PopSteps(ks, hash, identity) ==
  {n \in Matches(ks, hash, identity) :
     \A m \in Matches(ks, hash, identity) :
       m < n => SlotAt(ks, hash, m) # SlotAt(ks, hash, n)}

PoppedValues(ks, key) ==
  LET hash == hash_of(key)
      steps == PopSteps(ks, hash, IdentityOf[key])
      nth(i) == CHOOSE n \in steps : Cardinality({m \in steps : m < n}) = i - 1
  IN  [i \in 1..Cardinality(steps) |->
         ks.entries[IndexAt(ks, hash, nth(i))].value]

\* The version moves once per item.
MdPopAll(key) ==
  IF used # 0 /\ md_contains(keys, key)
    THEN /\ DeleteKey(key)
         /\ NEXT_VERSION(Cardinality(
              MatchingSlots(keys, hash_of(key), IdentityOf[key])))
         /\ Return("ok", PoppedValues(keys, key))
    ELSE KeyError(<<key>>)

\* The last live entry, and the first slot of its path that holds it.
MdPopItem ==
  IF used = 0
    THEN KeyError(<<>>)
    ELSE LET pos == CHOOSE i \in Live(keys) : \A j \in Live(keys) : j <= i
             hash == keys.entries[pos].hash
             step == Min({n \in 0..ProbeSteps(keys.log2_size) :
                            IndexAt(keys, hash, n) = pos})
         IN  /\ keys' = DeleteAt(keys, {SlotAt(keys, hash, step)})
             /\ used' = used - 1
             /\ NEXT_VERSION(1)
             /\ Return("ok", <<ItemAt(keys, pos)>>)

\* __setitem__ of a key that is there: the first item takes the new key and
\* value in place, the finder's marks stay on the deleted ones.
ReplaceItem(key, value) ==
  LET id == IdentityOf[key]
      slots == MatchingSlots(keys, HashOf[id], id)
      kept == FirstMatch(keys, HashOf[id], id)
      marked == [keys EXCEPT !.entries = [i \in DOMAIN @ |->
                   IF i \in {keys.indices[s] : s \in slots \ {kept}}
                     THEN [@[i] EXCEPT !.hash = MARK] ELSE @[i]]]
  IN  /\ keys' = [DeleteAt(marked, slots \ {kept}) EXCEPT
                    !.entries[keys.indices[kept]].key = key,
                    !.entries[keys.indices[kept]].value = value]
      /\ used' = used - Cardinality(slots \ {kept})
      /\ NEXT_VERSION(1)

MdReplace(key, value) ==
  /\ IF md_contains(keys, key) THEN ReplaceItem(key, value)
                               ELSE AddItem(key, value)
  /\ Return("ok", <<>>)

\* Variant: clear() forgets the version.
ClearQuietly ==
  /\ IF keys = empty_htkeys
       THEN UNCHANGED <<keys, used, version>>
       ELSE keys' = empty_htkeys /\ used' = 0 /\ UNCHANGED version
  /\ Return("ok", <<>>)

\* clear() of the static empty table leaves even the version alone.
MdClear ==
  /\ IF keys = empty_htkeys
       THEN UNCHANGED <<keys, used, version>>
       ELSE keys' = empty_htkeys /\ used' = 0 /\ NEXT_VERSION(1)
  /\ Return("ok", <<>>)

-----------------------------------------------------------------------------
(* Calls with a finder of their own, in full: for a table in which another *)
(* finder, or an update or merge, may have left marks.                     *)

\* _md_replace in full: its finder neither sees what another one has marked
\* nor, in the end, keeps those marks apart from its own.
SetItem(key, value) ==
  LET hash == hash_of(key)
      slots == MatchingSlots(keys, hash, IdentityOf[key])
      kept == FirstMatch(keys, hash, IdentityOf[key])
      others == {s \in slots : s # kept}
      marked == [keys EXCEPT !.entries = [i \in DOMAIN @ |->
                   IF i \in {keys.indices[s] : s \in slots}
                     THEN [@[i] EXCEPT !.hash = MARK] ELSE @[i]]]
      clean == md_finder_cleanup(DeleteAt(marked, others), hash)
  IN  /\ NEXT_VERSION(1)
      /\ Return("ok", <<>>)
      /\ \/ /\ slots # {}
            /\ keys' = [clean EXCEPT !.entries[keys.indices[kept]].key = key,
                                      !.entries[keys.indices[kept]].value = value]
            /\ used' = used - Cardinality(others)
         \/ /\ slots = {} /\ CanMakeRoom(clean, used)
            /\ keys' = AddEntry(clean, used, key, value, FALSE)
            /\ used' = used + 1

\* getall() runs to its end; its finder restores every mark it meets.
GetAll(key) ==
  /\ keys' = md_get_all(keys, key).keys
  /\ UNCHANGED <<used, version, ret>>

-----------------------------------------------------------------------------
(* extend(), update(), merge() and the constructor.                        *)

BulkBegin(op, hint) ==
  /\ NeedsReserve(keys, used, hint)
       => ~ TooLarge(estimate_log2_keysize(hint + used))
  /\ keys' = _md_reserve(keys, used, hint)
  /\ bulk' = [op |-> op, base |-> Items, args |-> <<>>, hint |-> hint,
              log2 |-> keys'.log2_size, version |-> version]
  /\ Return("ok", <<>>)
  /\ UNCHANGED <<used, version>>

\* The reservation failed: the call ends before it reads an item.
BulkRefused(hint) ==
  /\ NeedsReserve(keys, used, hint)
  /\ Return("MemoryError", <<>>)
  /\ UNCHANGED <<keys, used, version, bulk>>

\* _md_add_for_upd: the new entry is marked until md_post_update.
AddForUpdate(key, value) ==
  /\ CanMakeRoom(keys, used)
  /\ keys' = AddEntry(keys, used, key, value, TRUE)
  /\ used' = used + 1
  /\ NEXT_VERSION(1)

UpdateItem(key, value) ==
  IF md_contains(keys, key)
    THEN keys' = ReplaceForUpdate(keys, key, value) /\ UNCHANGED <<used, version>>
    ELSE AddForUpdate(key, value)

\* Variant: the items already there are not looked at.
MergeUnchecked(key, value) == AddForUpdate(key, value)

MergeItem(key, value) ==
  IF md_contains(keys, key)
    THEN UNCHANGED <<keys, used, version>>
    ELSE AddForUpdate(key, value)

ApplyItem(key, value) ==
  \/ bulk.op = "extend" /\ AddItem(key, value)
  \/ bulk.op = "update" /\ UpdateItem(key, value)
  \/ bulk.op = "merge" /\ MergeItem(key, value)

\* One turn of the loop of md_update_from_seq, _from_dict or _from_ht.
BulkItem(key, value) ==
  /\ Len(bulk.args) < MaxArgs
  /\ ApplyItem(key, value)
  /\ bulk' = [bulk EXCEPT !.args = Append(@, [key |-> key, value |-> value])]
  /\ UNCHANGED ret

\* Variant: used still counts the half-deleted entries.
StopKeepsUsed(status) ==
  /\ IF bulk.op = "extend"
       THEN UNCHANGED <<keys, used>>
       ELSE keys' = md_post_update(keys) /\ UNCHANGED used
  /\ bulk' = NoBulk
  /\ Return(status, <<>>)
  /\ UNCHANGED version

\* Both ends of _multidict_extend settle the marks of update and merge.
BulkStop(status) ==
  /\ IF bulk.op = "extend"
       THEN UNCHANGED <<keys, used>>
       ELSE /\ keys' = md_post_update(keys)
            /\ used' = used - Cardinality(HalfDeletedSlots(keys))
  /\ bulk' = NoBulk
  /\ Return(status, <<>>)
  /\ UNCHANGED version

\* The items ran out.
BulkEnd == BulkStop("ok")

\* Variant: a failure leaves the marks.
FailUnsettled ==
  /\ bulk' = NoBulk
  /\ Return("error", <<>>)
  /\ UNCHANGED <<keys, used, version>>

\* An item that is no pair, a key that is no str, an iterator that raised or
\* a table that cannot grow: the items before it stay.
BulkFail == BulkStop("error")

-----------------------------------------------------------------------------

Call ==
  \/ \E key \in Keys :
       \/ \E value \in Values : \/ MdAdd(key, value)
                                \/ MdSetDefault(key, value)
                                \/ MdReplace(key, value)
       \/ MdDel(key)
       \/ MdPopOne(key)
       \/ MdPopAll(key)
  \/ MdPopItem
  \/ MdClear
  \/ OutOfMemory

Next ==
  \/ Idle /\ Call /\ UNCHANGED bulk
  \/ Idle /\ \E op \in BulkOps, hint \in Hints : BulkBegin(op, hint)
  \/ Idle /\ \E hint \in Hints : BulkRefused(hint)
  \/ ~ Idle /\ \E key \in Keys, value \in Values : BulkItem(key, value)
  \/ ~ Idle /\ (BulkEnd \/ BulkFail)

Spec == Init /\ [][Next]_vars

-----------------------------------------------------------------------------
(* Properties.                                                             *)

\* The type of every variable: the fields of the C structures and the bounds
\* of the index array that htkeys_set_index asserts.
TypeOK ==
  /\ IsHtKeys(keys)
  /\ used \in Nat
  /\ version \in 0..MaxVersion
  /\ ret \in [status : {"ok", "error", "KeyError", "MemoryError"},
              list : Seq(Values \cup Keys \cup [key : Keys, value : Values])]
  /\ bulk \in [op : BulkOps \cup {"none"}, base : Seq([key : Keys, value : Values]),
               args : Seq([key : Keys, value : Values]), hint : Nat,
               log2 : Log2Sizes, version : Nat]

\* The three counters of a table never drift from what they count, in any
\* mixture of additions, deletions, compactions and half-done updates: used
\* is the number of live entries (len() reads it), every entry ever stored
\* holds one slot until the next rebuild, and usable is the room that is left.
CountersAgree ==
  /\ used = Cardinality(Live(keys))
  /\ keys.usable + keys.nentries = Capacity(keys.log2_size)
  /\ Cardinality(Occupied(keys)) = keys.nentries

\* The probe loops of the code have no bound but an EMPTY slot: every one of
\* them meets one, and meets every live entry of its identity before.  A
\* lookup can neither run forever nor miss an item.
LookupComplete ==
  /\ \A hash \in Hashes : \E n \in 0..ProbeSteps(keys.log2_size) :
       IndexAt(keys, hash, n) = DKIX_EMPTY
  /\ \A i \in Live(keys) :
       Meets(keys, HashOf[keys.entries[i].identity], i)

\* The invariant that the others follow from, and that each step preserves:
\* a slot in use never refers to a deleted entry nor two slots to one, and
\* only an update or merge under way leaves marks and half-deleted entries.
TableInvariant ==
  /\ IsSound(keys)
  /\ used = Cardinality(Live(keys))
  /\ bulk.op \in BulkOps \cup {"none"}
  /\ bulk.op \notin {"update", "merge"} => IsSettled(keys)

\* Items of one identity are met in the order they were added, because an
\* addition never takes a DUMMY slot (the comment on DKIX_DUMMY at the head of
\* hashtable.h): first and last of a key are what the documentation calls so.
EqualKeysInOrder ==
  \A i, j \in Live(keys) :
    (i < j /\ keys.entries[i].identity = keys.entries[j].identity) =>
      LET hash == HashOf[keys.entries[i].identity]
          step(e) == Min({n \in 0..ProbeSteps(keys.log2_size) :
                            IndexAt(keys, hash, n) = e})
      IN  step(i) < step(j)

\* The code's own checks hold at every step, not only where a debug build
\* makes them: marks and half-deleted entries never outlive the update or merge
\* that made them, failed or not; nor has md_post_update to rehash an entry it
\* just emptied (hashtable.h:1311), since none that is half deleted is marked.
ConsistencyAsserted ==
  /\ _md_check_consistency(keys, used, bulk.op \in {"update", "merge"})
  /\ \A i \in Live(keys) :
       keys.entries[i].key = NULL => keys.entries[i].hash # MARK

\* getall() returns each value of a key once and in order, although a probe
\* may visit a slot twice, and leaves the table exactly as it found it; and
\* getone() agrees with its head.
GetAllExact ==
  Idle => \A key \in Keys :
    LET all == md_get_all(keys, key)
        own == {i \in Live(keys) : keys.entries[i].identity = IdentityOf[key]}
    IN  /\ all.keys = keys
        /\ all.list = [n \in 1..Cardinality(own) |->
             keys.entries[CHOOSE i \in own :
               Cardinality({j \in own : j <= i}) = n].value]
        /\ md_contains(keys, key) = (own # {})
        /\ own # {} => md_get_one(keys, key) = all.list[1]

\* The table implements the list of items of MultiDict: each call has the
\* effect and the result the list prescribes, and a bulk call has them at its
\* end, failed or not.
MultiDictSpec ==
  INSTANCE MultiDict WITH
    items <- IF Idle THEN Items ELSE bulk.base,
    bulk <- [op |-> bulk.op, args |-> bulk.args]

ImplementsMultiDict == MultiDictSpec!Spec

\* The same of a table whose history is not told: whatever it holds, every step
\* is one the list of items allows.  An item is not lost, doubled or moved by a
\* compaction in the middle of an update.
StepsImplementMultiDict == [][MultiDictSpec!Next]_MultiDictSpec!vars

\* No single call changes the items under an unchanged version, so that an
\* iterator or a view that compares versions notices it.
VersionGuardsCalls ==
  [][Idle /\ bulk' = bulk /\ Items' # Items => version' # version]_vars

\* getversion() as the documentation has it: the version changes on every
\* dict update, update() and merge() included.  (A property of the whole bulk
\* call: the items it leaves differ from those it began with.)
VersionChangesOnUpdate ==
  [][~ Idle /\ Idle' /\ Items' # bulk.base => version' # bulk.version]_vars

\* A reservation is enough: while a bulk call has taken no more items than it
\* reserved room for (those its argument announced, of which a constructor
\* believes USABLE_FRACTION(max_presize)), the table keeps the size the reservation gave it
\* (the static empty table of a new multidict has to be replaced once).
ReservationSuffices ==
  ~ Idle /\ Len(bulk.args) <= bulk.hint =>
    \/ keys.log2_size = bulk.log2
    \/ bulk.log2 = 0 /\ keys.log2_size = HT_LOG_MINSIZE

\* A table of the estimated size takes the items announced, and no table the
\* estimate skips over by more than one size would: what the constructor and
\* md_reserve promise a caller, at no more than twice the memory.  (Of a
\* multidict that is still new, for any number of items in reach.)
EstimateFits ==
  version = 0 =>
    \A minused \in 0..Capacity(SIZE_T_BITS - 1) :
      LET log2 == estimate_log2_keysize(minused)
      IN  /\ minused <= Capacity(log2)
          /\ \A k \in HT_LOG_MINSIZE..(log2 - 2) : Capacity(k) < minused

\* The comment on GROWTH_RATE: a table that grows because an item did not fit,
\* with no deleted entry to squeeze out, doubles (the static empty table is
\* replaced by one of HT_MINSIZE slots).  It must not grow slower, or the next
\* additions rebuild it again, nor faster.
GrowthDoubles ==
  [][NeedsGrowth(keys, used) /\ used' = used + 1 =>
       keys'.log2_size = IF keys.log2_size = 0 THEN HT_LOG_MINSIZE
                                               ELSE keys.log2_size + 1]_vars
=============================================================================
