------------------------------- MODULE Family -------------------------------
(***************************************************************************)
(* Several multidicts of both kinds: how a key becomes an identity         *)
(* (hashtable.h, istr.h), what passes from one multidict to another when   *)
(* it is copied, converted, extended or compared, and the version numbers, *)
(* which all multidicts take from one counter.                             *)
(*                                                                         *)
(* A multidict is the list of its entries, the deleted ones included, of a *)
(* table that needs no more room than MaxEntries: HashTable has the slots, *)
(* and the resizing that squeezes deleted entries out.  A proxy forwards   *)
(* to its multidict, and an argument that is one stands for the multidict. *)
(***************************************************************************)
EXTENDS Integers, SequencesExt

CONSTANTS
  Texts,          \* what keys spell
  Lower,          \* str.lower()
  Values,
  NULL,           \* the C null pointer
  MaxDicts,       \* bound on the multidicts made
  MaxEntries,     \* bound on the entries of one, deleted ones included
  MaxVersion      \* bound on the version counter

ASSUME FamilyAssumption ==
  /\ Lower \in [Texts -> Texts]
  /\ \A t \in Texts : Lower[Lower[t]] = Lower[t]
  /\ NULL \notin Texts
  /\ NULL \notin [istr : BOOLEAN, text : Texts, canonical : Texts]
  /\ MaxDicts \in Nat
  /\ MaxEntries \in 0..5

VARIABLES
  dicts,          \* the multidicts, in the order they were made
  global_version  \* state->global_version

vars == <<dicts, global_version>>

-----------------------------------------------------------------------------
(* Keys and identities.  A key is a str or an istr, which carries the      *)
(* identity it was made with; a str is its own.                            *)

Str(text) == [istr |-> FALSE, text |-> text, canonical |-> text]
IStr_New(key, identity) == [istr |-> TRUE, text |-> key.text, canonical |-> identity]
istr_new(key) == IF key.istr THEN key ELSE IStr_New(key, Lower[key.text])

md_calc_identity(ci, key) ==
  IF ci /\ ~ key.istr THEN Lower[key.text] ELSE key.canonical

\* A multidict of the case-insensitive kind shows its keys as istr objects.
md_calc_key(ci, key, identity) ==
  IF ci /\ ~ key.istr THEN IStr_New(key, identity) ELSE key

-----------------------------------------------------------------------------
(* Entries.  taken: marked by the update() or merge() under way.  The key  *)
(* is NULL in an entry half deleted, both key and identity in a deleted    *)
(* one.                                                                    *)

Entry(identity, key, value, taken) ==
  [identity |-> identity, key |-> key, value |-> value, taken |-> taken]

Hole == Entry(NULL, NULL, NULL, FALSE)

IsLive(e) == e.identity # NULL
LiveAt(entries) == {i \in DOMAIN entries : IsLive(entries[i])}

\* The live entries, in their order.
Live(entries) ==
  LET nth(n) == CHOOSE i \in LiveAt(entries) :
                  Cardinality({j \in LiveAt(entries) : j < i}) = n - 1
  IN  [n \in 1..Cardinality(LiveAt(entries)) |-> entries[nth(n)]]

Matching(entries, identity) ==
  {i \in DOMAIN entries : entries[i].identity = identity /\ ~ entries[i].taken}

-----------------------------------------------------------------------------
(* extend(), update() and merge() with the items of another multidict.     *)

_md_add_with_hash(entries, identity, key, value) ==
  Append(entries, Entry(identity, key, value, FALSE))

_md_update(entries, identity, key, value) ==
  LET found == Matching(entries, identity)
  IN  IF found = {}
        THEN Append(entries, Entry(identity, key, value, TRUE))
        ELSE [i \in DOMAIN entries |->
                CASE i = Min(found) -> Entry(identity, key, value, TRUE)
                  [] i \in found \ {Min(found)} ->
                       Entry(identity, NULL, NULL, FALSE)
                  [] OTHER -> entries[i]]

_md_merge(entries, identity, key, value) ==
  IF Matching(entries, identity) # {}
    THEN entries
    ELSE Append(entries, Entry(identity, key, value, TRUE))

\* Variant: the marks stay.
PostKeepsMarks(entries) ==
  [i \in DOMAIN entries |->
     IF entries[i].key = NULL THEN Hole ELSE entries[i]]

md_post_update(entries) ==
  [i \in DOMAIN entries |->
     IF entries[i].key = NULL THEN Hole ELSE [entries[i] EXCEPT !.taken = FALSE]]

\* Variant: the new istr keeps the identity of the other kind.
ConvertKeepsIdentity(ci, other, entry) ==
  LET identity == md_calc_identity(ci, entry.key)
  IN  IF ci = other.ci
        THEN entry
        ELSE Entry(identity,
                   md_calc_key(other.ci, entry.key, entry.identity),
                   entry.value, FALSE)

\* The identity is calculated anew for the other kind, and the key is the one
\* its owner would show, but made with the new identity.
Converted(ci, other, entry) ==
  LET identity == md_calc_identity(ci, entry.key)
  IN  IF ci = other.ci
        THEN entry
        ELSE Entry(identity, md_calc_key(other.ci, entry.key, identity),
                   entry.value, FALSE)

\* One entry of the other multidict.
TakeEntry(entries, ci, other, entry, op) ==
  LET e == Converted(ci, other, entry)
  IN  CASE ~ IsLive(entry) -> entries
        [] IsLive(entry) /\ op = "extend" ->
             _md_add_with_hash(entries, e.identity, e.key, e.value)
        [] IsLive(entry) /\ op = "update" ->
             _md_update(entries, e.identity, e.key, e.value)
        [] IsLive(entry) /\ op = "merge" ->
             _md_merge(entries, e.identity, e.key, e.value)

md_update_from_ht(entries, ci, other, op) ==
  LET taken[i \in 0..Len(other.entries)] ==
        IF i = 0 THEN entries
                 ELSE TakeEntry(taken[i - 1], ci, other, other.entries[i], op)
      all == taken[Len(other.entries)]
  IN  IF op = "extend" THEN all ELSE md_post_update(all)

-----------------------------------------------------------------------------
(* Comparisons.                                                            *)

md_len(d) == Cardinality(LiveAt(d.entries))

\* Variant: only the items both have are compared.
EqPrefix(left, right) ==
  LET l == Live(left.entries)
      r == Live(right.entries)
  IN  \A n \in DOMAIN l \cap DOMAIN r :
        l[n].identity = r[n].identity /\ l[n].value = r[n].value

\* One position in each entry array; a deleted entry is stepped over on its
\* own side only.
md_eq(left, right) ==
  LET l == left.entries
      r == right.entries
      equal[at \in (1..(Len(l) + 1)) \X (1..(Len(r) + 1))] ==
        LET p == at[1]
            q == at[2]
        IN  IF p > Len(l) \/ q > Len(r) THEN TRUE
            ELSE IF l[p].identity = NULL THEN equal[<<p + 1, q>>]
            ELSE IF r[q].identity = NULL THEN equal[<<p, q + 1>>]
            ELSE /\ l[p].identity = r[q].identity
                 /\ l[p].value = r[q].value
                 /\ equal[<<p + 1, q + 1>>]
  IN  left = right \/ (md_len(left) = md_len(right) /\ equal[<<1, 1>>])

\* Variant: a mapping with more keys passes.
EqToLarger(d, mapping) ==
  \A n \in DOMAIN Live(d.entries) :
    LET e == Live(d.entries)[n]
    IN  e.key.text \in DOMAIN mapping /\ mapping[e.key.text] = e.value

\* mapping is a dict: a function from some texts to values.
md_eq_to_mapping(d, mapping) ==
  /\ md_len(d) = Cardinality(DOMAIN mapping)
  /\ \A n \in DOMAIN Live(d.entries) :
       LET e == Live(d.entries)[n]
       IN  e.key.text \in DOMAIN mapping /\ mapping[e.key.text] = e.value

-----------------------------------------------------------------------------

\* The keys a caller can have: made by hand, or read from a multidict.
CallerKeys ==
  LET texts == {Str(t) : t \in Texts}
  IN  texts \cup {istr_new(key) : key \in texts}
        \cup {e.key : e \in {f \in UNION {ToSet(dicts[d].entries) : d \in DOMAIN dicts} :
                             IsLive(f)}}

\* Variant: each multidict counts for itself.
OwnVersion(d, n) ==
  [dicts EXCEPT ![d].version = @ + n,
                ![d].rewritten = IF n > 0 THEN FALSE ELSE @]

\* NEXT_VERSION, n times, for multidict d.  rewritten is history: an update()
\* has replaced items of it since its version last changed.
NEXT_VERSION(d, n) ==
  [dicts EXCEPT ![d].version = IF n > 0 THEN global_version + n ELSE @,
                ![d].rewritten = IF n > 0 THEN FALSE ELSE @]

\* Multidict d gets these entries and takes n new versions.
Put(d, entries, n, rewrites) ==
  /\ Len(entries) <= MaxEntries
  /\ global_version + n <= MaxVersion
  /\ dicts' = [NEXT_VERSION(d, n) EXCEPT ![d].entries = entries,
                                        ![d].rewritten = @ \/ rewrites]
  /\ global_version' = global_version + n

Fresh(ci, version, entries) ==
  [ci |-> ci, entries |-> entries, version |-> version, rewritten |-> FALSE]

Make(d, n) ==
  /\ Len(dicts) < MaxDicts
  /\ global_version + n <= MaxVersion
  /\ dicts' = Append(dicts, d)
  /\ global_version' = global_version + n

\* The constructors, without an argument and with a multidict.  One of the
\* same kind is read item by item all the same: _multidict_clone_fast looks
\* for a multidict in the argument tuple, which is none.
NewEmpty(ci) == Make(Fresh(ci, global_version + 1, <<>>), 1)

NewFrom(ci, other) ==
  LET n == 1 + md_len(dicts[other])
  IN  Make(Fresh(ci, global_version + n,
                 md_update_from_ht(<<>>, ci, dicts[other], "extend")), n)

\* copy(): the table as it is, with its version.
Copy(other) == Make(dicts[other], 0)

Add(d, key, value) ==
  LET identity == md_calc_identity(dicts[d].ci, key)
  IN  Put(d, _md_add_with_hash(dicts[d].entries, identity, key, value), 1, FALSE)

DelItem(d, key) ==
  LET found == Matching(dicts[d].entries, md_calc_identity(dicts[d].ci, key))
  IN  /\ found # {}
      /\ Put(d, [i \in DOMAIN dicts[d].entries |->
                   IF i \in found THEN Hole ELSE dicts[d].entries[i]], 1, FALSE)

Clear(d) == dicts[d].entries # <<>> /\ Put(d, <<>>, 1, FALSE)

\* Every read of the keys writes them as md_calc_key would have them.
ReadKeys(d) ==
  LET entries == dicts[d].entries
      shown(e) == IF e.key = NULL THEN e
                  ELSE [e EXCEPT !.key = md_calc_key(dicts[d].ci, e.key, e.identity)]
  IN  Put(d, [i \in DOMAIN entries |-> shown(entries[i])], 0, FALSE)

FromOther(d, other, op) ==
  LET entries == md_update_from_ht(dicts[d].entries, dicts[d].ci, dicts[other], op)
      added == Len(entries) - Len(dicts[d].entries)
  IN  /\ d # other
      /\ Put(d, entries, added, entries # dicts[d].entries /\ op = "update")

Init == dicts = <<>> /\ global_version = 0

Next ==
  \/ \E ci \in BOOLEAN : NewEmpty(ci)
  \/ \E ci \in BOOLEAN, other \in DOMAIN dicts : NewFrom(ci, other)
  \/ \E d \in DOMAIN dicts :
       \/ Copy(d)
       \/ Clear(d)
       \/ ReadKeys(d)
       \/ \E key \in CallerKeys :
            \/ \E value \in Values : Add(d, key, value)
            \/ DelItem(d, key)
       \/ \E other \in DOMAIN dicts, op \in {"extend", "update", "merge"} :
            FromOther(d, other, op)

Spec == Init /\ [][Next]_vars

-----------------------------------------------------------------------------
(* Properties.                                                             *)

\* Type invariant.  Between calls no entry is marked or half deleted, and no
\* version is ahead of the counter.
FamilyTypeOK ==
  LET key == [istr : BOOLEAN, text : Texts, canonical : Texts]
      entry == {Hole} \cup
               [identity : Texts, key : key, value : Values, taken : {FALSE}]
  IN  /\ \A d \in DOMAIN dicts :
           /\ dicts[d].ci \in BOOLEAN
           /\ dicts[d].version \in 1..global_version
           /\ \A i \in DOMAIN dicts[d].entries : dicts[d].entries[i] \in entry
      /\ Len(dicts) <= MaxDicts

\* Every item can be found by the very key object the multidict shows for it,
\* whatever multidicts of either kind the item went through and whenever
\* their keys were read (md_update_from_ht, _md_ensure_key).
KeysFindTheirItems ==
  \A d \in DOMAIN dicts : \A i \in DOMAIN dicts[d].entries :
    LET e == dicts[d].entries[i]
        shown == md_calc_key(dicts[d].ci, e.key, e.identity)
    IN  e.identity # NULL => md_calc_identity(dicts[d].ci, shown) = e.identity

\* The items, as == compares them.
Compared(entries) ==
  [n \in DOMAIN entries |-> <<entries[n].identity, entries[n].value>>]
ItemsOf(d) == Compared(Live(d.entries))

\* Two multidicts report one version only while they hold the same items:
\* copy() takes the version along, and whatever either goes through next
\* leaves them with different ones (NEXT_VERSION).  An update() that only
\* replaces items keeps the version, and is left out.
SameVersionSameItems ==
  \A c, d \in DOMAIN dicts :
    (/\ dicts[c].version = dicts[d].version
     /\ ~ dicts[c].rewritten /\ ~ dicts[d].rewritten)
      => ItemsOf(dicts[c]) = ItemsOf(dicts[d])

\* Multidicts compare equal exactly when they list the same identities with
\* the same values in the same order, wherever deleted entries lie in either
\* table (md_eq walks both at once).
EqExact ==
  \A c, d \in DOMAIN dicts :
    md_eq(dicts[c], dicts[d]) <=> ItemsOf(dicts[c]) = ItemsOf(dicts[d])

\* A multidict with one item for each spelling equals a dict exactly when
\* that dict has the same keys with the same values.  With two items of one
\* spelling md_eq_to_mapping counts a key twice, which is left out.
MappingEqExact ==
  \A d \in DOMAIN dicts :
    LET l == Live(dicts[d].entries)
        pairs == {<<l[n].key.text, l[n].value>> : n \in DOMAIN l}
        spelled == {p[1] : p \in pairs}
    IN  Cardinality(spelled) = Len(l) =>
          \A mapping \in UNION {[S -> Values] : S \in {T \in SUBSET Texts : IsFiniteSet(T)}} :
            md_eq_to_mapping(dicts[d], mapping)
              <=> pairs = {<<t, mapping[t]>> : t \in DOMAIN mapping}

\* "key comparisons are case insensitive" (docs/multidict.rst:243): in a
\* CIMultiDict every item is found by any spelling of its key.
CaseInsensitive ==
  \A d \in DOMAIN dicts : \A i \in DOMAIN dicts[d].entries :
    LET e == dicts[d].entries[i]
    IN  (dicts[d].ci /\ e.identity # NULL)
          => \A t \in Texts :
               Lower[t] = Lower[e.key.text]
                 => md_calc_identity(TRUE, Str(t)) = e.identity
=============================================================================
