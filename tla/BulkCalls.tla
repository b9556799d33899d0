------------------------------ MODULE BulkCalls ------------------------------
(***************************************************************************)
(* What extend(), update() and merge() of HashTable meet in the middle.    *)
(* Their argument can be an iterator, whose code calls the same multidict  *)
(* between two items, with marks and half-deleted entries in the table; or *)
(* the multidict itself, whose entries are read while they are written     *)
(* (md_update_from_ht with other = md).                                    *)
(***************************************************************************)
EXTENDS HashTable, SequencesExt

VARIABLES
  source,         \* where the bulk operation takes its items from
  damaged         \* history: the marks of an update or merge were disturbed,
                  \* an entry without a value was read, or a freed one

bulkVars == <<vars, source, damaged>>

\* own: from the multidict itself, the next one at pos or after.
Elsewhere == [own |-> FALSE, pos |-> 0]

-----------------------------------------------------------------------------
(* The argument is the multidict itself.                                   *)

OwnBegin(op) ==
  /\ Idle
  /\ BulkBegin(op, used)
  /\ source' = [own |-> TRUE, pos |-> 0]
  /\ UNCHANGED damaged

Ahead == {i \in Live(keys) : i >= source.pos}

\* The bound of the loop is the number of entries of now; the entries are
\* those of the table it began with.
OwnItem ==
  LET i == Min(Ahead)
      e == keys.entries[i]
  IN  /\ ~ Idle /\ source.own /\ Ahead # {}
      /\ source' = [source EXCEPT !.pos = i + 1]
      /\ \/ /\ e.key # NULL
            /\ BulkItem(e.key, e.value)
            /\ damaged' = (keys'.log2_size # keys.log2_size)
         \/ /\ e.key = NULL
            /\ bulk' = [bulk EXCEPT !.args = Append(@, ItemAt(keys, i))]
            /\ damaged' = TRUE
            /\ UNCHANGED <<keys, used, version, ret>>

OwnEnd ==
  /\ ~ Idle /\ source.own
  /\ \/ Ahead = {} /\ BulkEnd
     \/ Ahead # {} /\ NeedsGrowth(keys, used) /\ BulkFail
  /\ UNCHANGED <<source, damaged>>

-----------------------------------------------------------------------------
(* The argument is an iterator, and its code makes calls.                  *)

\* An update or merge has left marks, and the next addition outside it builds
\* the indices anew: the build takes the marks for hashes.
Misbuilds == ~ IsSettled(keys) /\ NeedsRoom(keys)

\* A search for the key stops at a half-deleted entry, whose value is read.
ReadsNothing(key) ==
  \E s \in MatchingSlots(keys, hash_of(key), IdentityOf[key]) :
    keys.entries[keys.indices[s]].key = NULL

\* popitem() takes a half-deleted entry.
LastIsHalfDeleted ==
  Live(keys) # {} /\ keys.entries[Max(Live(keys))].key = NULL

\* Whether a nested bulk call of one item adds it to the table it reserved.
NestedAdds(reserved, op, key) == op = "extend" \/ ~ md_contains(reserved, key)

\* The table it leaves, before it settles it.
NestedTable(reserved, op, key, value) ==
  IF NestedAdds(reserved, op, key)
    THEN AddEntry(reserved, used, key, value, op # "extend")
    ELSE IF op = "update" THEN ReplaceForUpdate(reserved, key, value)
                          ELSE reserved

\* Its reservation builds the indices as extend() does, its addition knows of
\* marks unless it is an extend().
NestedMisbuilds(op) ==
  /\ ~ IsSettled(keys)
  /\ NeedsReserve(keys, used, 1) \/ (op = "extend" /\ NeedsRoom(keys))

\* extend(), update() or merge() of one item, from its begin to its end: what
\* it settles are the marks of the outer one too.
NestedBulk(op, key, value) ==
  LET reserved == _md_reserve(keys, used, 1)
      ks == NestedTable(reserved, op, key, value)
      added == IF NestedAdds(reserved, op, key) THEN 1 ELSE 0
  IN  /\ NeedsReserve(keys, used, 1) => ~ TooLarge(estimate_log2_keysize(1 + used))
      /\ CanMakeRoom(reserved, used)
      /\ keys' = IF op = "extend" THEN ks ELSE md_post_update(ks)
      /\ used' = used + added -
           (IF op = "extend" THEN 0 ELSE Cardinality(HalfDeletedSlots(ks)))
      /\ NEXT_VERSION(added)
      /\ Return("ok", <<>>)

\* A call, and whether it reads what is not there or disturbs the marks.
Calling(call, damages) == call /\ damaged' = damages

\* Any call of the multidict, in full.
Between ==
  /\ ~ Idle /\ ~ source.own
  /\ \/ \E key \in Keys :
          \/ \E value \in Values :
               \/ Calling(MdAdd(key, value), Misbuilds)
               \/ Calling(MdSetDefault(key, value),
                          IF md_contains(keys, key) THEN ReadsNothing(key)
                                                    ELSE Misbuilds)
               \/ Calling(SetItem(key, value), ~ IsSettled(keys))
               \/ \E op \in BulkOps : 
                    Calling(NestedBulk(op, key, value), NestedMisbuilds(op))
          \/ Calling(MdDel(key), FALSE)
          \/ Calling(MdPopOne(key), ReadsNothing(key))
          \/ Calling(MdPopAll(key), ReadsNothing(key))
          \/ Calling(GetAll(key), ~ IsSettled(keys))
     \/ Calling(MdPopItem, LastIsHalfDeleted)
     \/ Calling(MdClear, FALSE)
  /\ bulk' = [bulk EXCEPT !.args = <<>>]
  /\ UNCHANGED source

-----------------------------------------------------------------------------

\* The calls of HashTable, and a bulk call of other items.
Plain ==
  /\ Idle \/ ~ source.own
  /\ Next
  /\ source' = Elsewhere
  /\ UNCHANGED damaged

BulkInit == Init /\ source = Elsewhere /\ damaged = FALSE

\* What the code does once it was damaged is undefined.
BulkNext ==
  /\ ~ damaged
  /\ \/ Plain
     \/ \E op \in BulkOps : OwnBegin(op)
     \/ OwnItem \/ OwnEnd
     \/ Between

BulkSpec == BulkInit /\ [][BulkNext]_bulkVars

-----------------------------------------------------------------------------
(* Properties.                                                             *)

Occurs(list, item) == Cardinality({n \in DOMAIN list : list[n] = item})

\* Whatever an iterator calls between two items of a bulk call, nested bulk
\* calls included, the table stays sound, the items counted, and no mark is
\* left behind in the end.  (Unless it damages the table: it makes it rebuild
\* the indices, searches it with a finder or reads a half-deleted entry while
\* marks are in it.)
SoundInBetween ==
  ~ damaged =>
    /\ IsSound(keys)
    /\ used = Cardinality(Live(keys))
    /\ Idle => IsSettled(keys)

\* What a bulk call has taken since the last call in between is there in its
\* end, as often as it was taken: no item of the argument is dropped with the
\* half-deleted entries, and none takes the place of another.
TakenArePresent ==
  [][~ Idle /\ Idle' /\ ~ source.own =>
       \A n \in DOMAIN bulk.args :
         IF bulk.op = "merge"
           THEN \E m \in DOMAIN Items' :
                  IdentityOf[Items'[m].key] = IdentityOf[bulk.args[n].key]
           ELSE Occurs(bulk.args, bulk.args[n]) <= Occurs(Items', bulk.args[n])]_bulkVars

\* merge() of a multidict into itself changes nothing, nor does update() when
\* its items have different keys: an entry is never read after it was half
\* deleted, nor after the table was replaced.
OwnItemsStay ==
  LET identities == [n \in DOMAIN bulk.base |-> IdentityOf[bulk.base[n].key]]
  IN  source.own /\ (bulk.op = "merge" \/ (bulk.op = "update" /\ IsInjective(identities)))
        => Items = bulk.base /\ ~ damaged

\* docs/multidict.rst on extend(): "Effectively the same as calling add() for
\* every (key, value) pair."  So what a bulk call takes from the multidict
\* itself are the items it had.
OwnItemsTaken == IsPrefix(bulk.args, bulk.base) \/ ~ source.own
=============================================================================
