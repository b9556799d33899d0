---------------------------- MODULE FamilyProofs ----------------------------
(***************************************************************************)
(* Several multidicts of both kinds, for any keys, any number of           *)
(* multidicts and any histories: what a multidict shows finds its item     *)
(* through all conversions, one version means the same items, and          *)
(* comparisons find out whether the items are the same.                    *)
(***************************************************************************)
EXTENDS Family, RecursionProofs

\* Keys: str and istr.
KeyType == [istr : BOOLEAN, text : Texts, canonical : Texts]

\* An entry is found by the key shown for it.
Fits(ci, e) == md_calc_identity(ci, md_calc_key(ci, e.key, e.identity)) = e.identity

-----------------------------------------------------------------------------
(* Entries.                                                                *)

\* Between calls: deleted ones, and items that are found by their keys.
Items(ci) ==
  {e \in [identity : Texts, key : KeyType, value : Values, taken : {FALSE}] : Fits(ci, e)}
Settled(ci) == {Hole} \cup Items(ci)

\* In an update() or merge() also marked and half-deleted ones.
Marked(ci) ==
  {e \in [identity : Texts, key : KeyType, value : Values, taken : {TRUE}] : Fits(ci, e)}
HalfDeleted == [identity : Texts, key : {NULL}, value : {NULL}, taken : {FALSE}]
Working(ci) == Settled(ci) \cup Marked(ci) \cup HalfDeleted

\* Identities and keys that fit each other make an entry.
LEMMA EntryMade ==
  ASSUME NEW ci \in BOOLEAN, NEW identity \in Texts, NEW key \in KeyType, NEW value \in Values,
         md_calc_identity(ci, md_calc_key(ci, key, identity)) = identity
  PROVE  /\ Entry(identity, key, value, FALSE) \in Items(ci)
         /\ Entry(identity, key, value, TRUE) \in Marked(ci)
         /\ Entry(identity, NULL, NULL, FALSE) \in HalfDeleted
         /\ Entry(identity, key, value, FALSE).identity = identity
  BY DEF Entry, Items, Marked, HalfDeleted, Fits

\* What is live in a settled list is an item.
LEMMA LiveIsItem ==
  ASSUME NEW ci \in BOOLEAN, NEW e \in Settled(ci)
  PROVE  /\ IsLive(e) <=> e \in Items(ci)
         /\ IsLive(e) => /\ e.identity \in Texts /\ e.key \in KeyType /\ e.value \in Values
                         /\ e.key # NULL /\ e.taken = FALSE /\ Fits(ci, e)
         /\ ~ IsLive(e) => e = Hole /\ e.key = NULL
<1>1. Hole.identity = NULL /\ Hole.key = NULL
  BY DEF Hole, Entry
<1>2. \A f \in Items(ci) : f.identity \in Texts /\ f.key \in KeyType /\ f.value \in Values
                           /\ f.taken = FALSE /\ Fits(ci, f)
  BY DEF Items
<1>3. NULL \notin Texts /\ NULL \notin KeyType
  BY FamilyAssumption DEF KeyType
<1> QED
  BY <1>1, <1>2, <1>3 DEF Settled, IsLive

\* The identity a key has, and the key a multidict shows.
LEMMA KeyTypes ==
  ASSUME NEW ci \in BOOLEAN, NEW key \in KeyType, NEW identity \in Texts
  PROVE  /\ md_calc_identity(ci, key) \in Texts
         /\ md_calc_key(ci, key, identity) \in KeyType
  BY FamilyAssumption DEF md_calc_identity, md_calc_key, IStr_New, KeyType

\* A key fits the identity calculated from it.
LEMMA OwnIdentityFits ==
  ASSUME NEW ci \in BOOLEAN, NEW key \in KeyType
  PROVE  LET identity == md_calc_identity(ci, key)
         IN  md_calc_identity(ci, md_calc_key(ci, key, identity)) = identity
  BY FamilyAssumption DEF md_calc_identity, md_calc_key, IStr_New, KeyType

\* What is calculated for a multidict of the other kind fits there.
LEMMA ConvertedFits ==
  ASSUME NEW ci \in BOOLEAN, NEW other, other.ci \in BOOLEAN, NEW e \in Items(other.ci),
         NEW new, new = Converted(ci, other, e)
  PROVE  /\ new.identity \in Texts /\ new.key \in KeyType /\ new.value \in Values
         /\ md_calc_identity(ci, md_calc_key(ci, new.key, new.identity)) = new.identity
<1>1. e.identity \in Texts /\ e.key \in KeyType /\ e.value \in Values /\ Fits(other.ci, e)
  BY DEF Items
<1>2. CASE ci = other.ci
  BY <1>1, <1>2 DEF Converted, Fits
<1>3. CASE ci # other.ci
  <2>1. PICK identity \in Texts : identity = md_calc_identity(ci, e.key)
    BY <1>1, KeyTypes
  <2>2. PICK key \in KeyType : key = md_calc_key(other.ci, e.key, identity)
    BY <1>1, <2>1, KeyTypes
  <2>3. new.identity = identity /\ new.key = key /\ new.value = e.value
    BY <1>3, <2>1, <2>2 DEF Converted, Entry
  <2>4. md_calc_identity(ci, md_calc_key(ci, key, identity)) = identity
    <3>1. CASE ci = TRUE /\ other.ci = FALSE
      <4>1. key = e.key
        BY <2>2, <3>1 DEF md_calc_key
      <4> QED
        BY <1>1, <2>1, <4>1, OwnIdentityFits
    <3>2. CASE ci = FALSE /\ other.ci = TRUE
      BY <1>1, <2>1, <2>2, <3>2 DEF md_calc_identity, md_calc_key, IStr_New, KeyType
    <3> QED
      BY <1>3, <3>1, <3>2
  <2> QED
    BY <1>1, <2>3, <2>4
<1> QED
  BY <1>2, <1>3

-----------------------------------------------------------------------------
(* extend(), update() and merge() with another multidict.                  *)

\* The bulk operations.
Ops == {"extend", "update", "merge"}

\* What an entry more, or none, does to the list: what was there stays, except
\* in an update(); extend() leaves no marks.
IsTaken(new, old, ci, op) ==
  /\ new \in Seq(Working(ci)) /\ Len(new) >= Len(old)
  /\ op # "update" => \A i \in 1..Len(old) : new[i] = old[i]
  /\ op = "extend" => \A i \in 1..Len(new) : new[i] \in Settled(ci)

\* An addition.
LEMMA AppendTaken ==
  ASSUME NEW ci, NEW op, NEW old, Len(old) \in Nat, NEW list, IsTaken(list, old, ci, op),
         NEW e \in Working(ci), op = "extend" => e \in Settled(ci)
  PROVE  IsTaken(Append(list, e), old, ci, op)
<1>1. PICK n \in Nat : n = Len(list) /\ DOMAIN list = 1..n
  BY DEF IsTaken
<1>2. PICK new \in Seq(Working(ci)) : new = Append(list, e)
  <2>1. list \in Seq(Working(ci))
    BY DEF IsTaken
  <2>2. Append(list, e) \in Seq(Working(ci))
    BY <2>1
  <2> QED
    BY <2>2
<1>3. Len(new) = n + 1 /\ new[n + 1] = e /\ \A i \in 1..n : new[i] = list[i]
  BY <1>1, <1>2 DEF IsTaken
<1>4. Len(new) >= Len(old) /\ n >= Len(old)
  BY <1>1, <1>3 DEF IsTaken
<1>5. op # "update" => \A i \in 1..Len(old) : new[i] = old[i]
  BY <1>3, <1>4 DEF IsTaken
<1>6. op = "extend" => \A i \in 1..Len(new) : new[i] \in Settled(ci)
  <2>1. \A i \in 1..(n + 1) : i \in 1..n \/ i = n + 1
    OBVIOUS
  <2> QED
    BY <1>1, <1>3, <2>1 DEF IsTaken
<1> QED
  BY <1>2, <1>4, <1>5, <1>6 DEF IsTaken

\* _md_update, whether it finds the identity or not.
LEMMA UpdateTaken ==
  ASSUME NEW ci \in BOOLEAN, NEW old, Len(old) \in Nat,
         NEW list, IsTaken(list, old, ci, "update"),
         NEW identity \in Texts, NEW key \in KeyType, NEW value \in Values,
         md_calc_identity(ci, md_calc_key(ci, key, identity)) = identity
  PROVE  IsTaken(_md_update(list, identity, key, value), old, ci, "update")
<1>1. PICK found : found = Matching(list, identity)
  OBVIOUS
<1>2. PICK e : e = Entry(identity, key, value, TRUE)
  OBVIOUS
<1>3. PICK half : half = Entry(identity, NULL, NULL, FALSE)
  OBVIOUS
<1>4. e \in Working(ci) /\ half \in Working(ci)
  BY <1>2, <1>3, EntryMade DEF Working
<1>5. CASE found = {}
  <2>1. _md_update(list, identity, key, value) = Append(list, e)
    BY <1>1, <1>2, <1>5 DEF _md_update
  <2> QED
    BY <1>4, <2>1, AppendTaken
<1>6. CASE found # {}
  <2>1. PICK n \in Nat : n = Len(list) /\ DOMAIN list = 1..n
    BY DEF IsTaken
  <2>2. PICK first : first = Min(found)
    OBVIOUS
  <2>3. _md_update(list, identity, key, value)
          = [i \in 1..n |-> CASE i = first -> e
                              [] i \in found \ {first} -> half
                              [] OTHER -> list[i]]
    BY <1>1, <1>2, <1>3, <1>6, <2>1, <2>2 DEF _md_update
  <2>4. \A i \in 1..n : list[i] \in Working(ci)
    BY <2>1 DEF IsTaken
  <2>5. _md_update(list, identity, key, value) \in [1..n -> Working(ci)]
    BY <1>4, <2>3, <2>4
  <2>6. /\ _md_update(list, identity, key, value) \in Seq(Working(ci))
        /\ Len(_md_update(list, identity, key, value)) = n
    BY <2>5
  <2> QED
    BY <2>1, <2>6 DEF IsTaken
<1> QED
  BY <1>5, <1>6

\* One entry of the other multidict.
LEMMA TakeEntryTaken ==
  ASSUME NEW ci \in BOOLEAN, NEW other, other.ci \in BOOLEAN, NEW op \in Ops,
         NEW old, Len(old) \in Nat, NEW list, IsTaken(list, old, ci, op),
         NEW entry \in Settled(other.ci)
  PROVE  IsTaken(TakeEntry(list, ci, other, entry, op), old, ci, op)
<1>1. CASE ~ IsLive(entry)
  BY <1>1 DEF TakeEntry
<1>2. CASE IsLive(entry)
  <2>1. PICK e : e = Converted(ci, other, entry)
    OBVIOUS
  <2>2. /\ e.identity \in Texts /\ e.key \in KeyType /\ e.value \in Values
        /\ md_calc_identity(ci, md_calc_key(ci, e.key, e.identity)) = e.identity
    <3>1. entry \in Items(other.ci)
      BY <1>2, LiveIsItem
    <3>2. /\ Converted(ci, other, entry).identity \in Texts
          /\ Converted(ci, other, entry).key \in KeyType
          /\ Converted(ci, other, entry).value \in Values
          /\ md_calc_identity(ci, md_calc_key(ci, Converted(ci, other, entry).key,
                                                 Converted(ci, other, entry).identity))
               = Converted(ci, other, entry).identity
      BY <3>1, ConvertedFits
    <3> QED
      BY <2>1, <3>2
  <2>3. PICK added : added = Entry(e.identity, e.key, e.value, FALSE)
    OBVIOUS
  <2>4. PICK marked : marked = Entry(e.identity, e.key, e.value, TRUE)
    OBVIOUS
  <2>5. /\ added \in Settled(ci) /\ added \in Working(ci) /\ marked \in Working(ci)
    BY <2>2, <2>3, <2>4, EntryMade DEF Working, Settled
  <2>6. CASE op = "extend"
    <3>1. TakeEntry(list, ci, other, entry, op) = Append(list, added)
      BY <1>2, <2>1, <2>3, <2>6 DEF TakeEntry, _md_add_with_hash
    <3> QED
      BY <2>5, <3>1, AppendTaken
  <2>7. CASE op = "update"
    <3>1. TakeEntry(list, ci, other, entry, op)
            = _md_update(list, e.identity, e.key, e.value)
      BY <1>2, <2>1, <2>7 DEF TakeEntry
    <3> QED
      BY <2>2, <2>7, <3>1, UpdateTaken
  <2>8. CASE op = "merge"
    <3>1. TakeEntry(list, ci, other, entry, op) \in {list, Append(list, marked)}
      BY <1>2, <2>1, <2>4, <2>8 DEF TakeEntry, _md_merge
    <3> QED
      BY <2>5, <2>8, <3>1, AppendTaken
  <2> QED
    BY <2>6, <2>7, <2>8 DEF Ops
<1> QED
  BY <1>1, <1>2

\* md_post_update unmarks what is marked, removes what is half deleted, and
\* leaves the rest.
LEMMA PostEntry ==
  ASSUME NEW ci \in BOOLEAN, NEW e \in Working(ci),
         NEW new, new = IF e.key = NULL THEN Hole ELSE [e EXCEPT !.taken = FALSE]
  PROVE  new \in Settled(ci) /\ (e \in Settled(ci) => new = e)
<1>1. CASE e \in Settled(ci)
  <2>1. CASE IsLive(e)
    <3>1. e \in Items(ci) /\ e.key # NULL
      BY <1>1, <2>1, LiveIsItem
    <3>2. [e EXCEPT !.taken = FALSE] = e
      BY <3>1 DEF Items
    <3> QED
      BY <1>1, <3>1, <3>2
  <2>2. CASE ~ IsLive(e)
    <3>1. e = Hole /\ e.key = NULL
      BY <1>1, <2>2, LiveIsItem
    <3> QED
      BY <1>1, <3>1
  <2> QED
    BY <2>1, <2>2
<1>2. CASE e \in Marked(ci)
  <2>1. e.key # NULL
    BY <1>2, FamilyAssumption DEF Marked, KeyType
  <2>2. PICK f : f = [e EXCEPT !.taken = FALSE]
    OBVIOUS
  <2>3. /\ f \in [identity : Texts, key : KeyType, value : Values, taken : {FALSE}]
        /\ f.key = e.key /\ f.identity = e.identity
    BY <1>2, <2>2 DEF Marked
  <2>4. Fits(ci, f)
    BY <1>2, <2>3 DEF Marked, Fits
  <2>5. f \in Items(ci) /\ new = f
    BY <2>1, <2>2, <2>3, <2>4 DEF Items
  <2>6. e \notin Settled(ci)
    <3>1. e.taken = TRUE /\ Hole.taken = FALSE
      BY <1>2 DEF Marked, Hole, Entry
    <3>2. \A g \in Settled(ci) : g.taken = FALSE
      BY <3>1 DEF Settled, Items
    <3> QED
      BY <3>1, <3>2
  <2> QED
    BY <2>5, <2>6 DEF Settled
<1>3. CASE e \in HalfDeleted /\ e \notin Settled(ci)
  <2>1. e.key = NULL
    BY <1>3 DEF HalfDeleted
  <2> QED
    BY <1>3, <2>1 DEF Settled
<1> QED
  BY <1>1, <1>2, <1>3 DEF Working

\* Once the marks are gone, entries are settled, and those that were have not
\* changed.
LEMMA PostSettles ==
  ASSUME NEW ci \in BOOLEAN, NEW list \in Seq(Working(ci))
  PROVE  /\ md_post_update(list) \in Seq(Settled(ci))
         /\ Len(md_post_update(list)) = Len(list)
         /\ \A i \in 1..Len(list) :
              list[i] \in Settled(ci) => md_post_update(list)[i] = list[i]
<1>1. PICK n \in Nat : n = Len(list) /\ DOMAIN list = 1..n
  OBVIOUS
<1> DEFINE post(e) == IF e.key = NULL THEN Hole ELSE [e EXCEPT !.taken = FALSE]
<1>2. md_post_update(list) = [i \in 1..n |-> post(list[i])]
  BY <1>1 DEF md_post_update
<1>3. \A e \in Working(ci) : post(e) \in Settled(ci) /\ (e \in Settled(ci) => post(e) = e)
  BY PostEntry
<1> HIDE DEF post
<1>4. \A i \in 1..n : list[i] \in Working(ci)
  BY <1>1
<1>5. md_post_update(list) \in [1..n -> Settled(ci)]
  BY <1>2, <1>3, <1>4
<1>6. md_post_update(list) \in Seq(Settled(ci)) /\ Len(md_post_update(list)) = n
  BY <1>5
<1> QED
  BY <1>1, <1>2, <1>3, <1>4, <1>6

\* What passes from one multidict to another: settled entries again, at least
\* as many, and without a change if an extend() or merge() adds none.
Received(new, old, ci, op) ==
  /\ new \in Seq(Settled(ci)) /\ Len(new) >= Len(old)
  /\ op # "update" /\ Len(new) = Len(old) => new = old

\* Whatever another multidict has, its items arrive as settled entries.
LEMMA UpdateFromOther ==
  ASSUME NEW ci \in BOOLEAN, NEW other, other.ci \in BOOLEAN, NEW op \in Ops,
         NEW old \in Seq(Settled(ci)), other.entries \in Seq(Settled(other.ci))
  PROVE  Received(md_update_from_ht(old, ci, other, op), old, ci, op)
<1> DEFINE take(t, i) == TakeEntry(t, ci, other, other.entries[i], op)
           T == {t \in Seq(Working(ci)) : IsTaken(t, old, ci, op)}
<1>1. PICK n \in Nat : n = Len(other.entries) /\ \A i \in 1..n : other.entries[i] \in Settled(other.ci)
  OBVIOUS
<1>2. PICK m \in Nat : m = Len(old) /\ DOMAIN old = 1..m /\ \A i \in 1..m : old[i] \in Settled(ci)
  OBVIOUS
<1>3. old \in T
  <2>1. \A i \in 1..m : old[i] \in Working(ci)
    BY <1>2 DEF Working
  <2>2. old \in Seq(Working(ci))
    BY <1>2, <2>1
  <2> QED
    BY <1>2, <2>2 DEF IsTaken
<1>4. \A t \in T, i \in 1..n : take(t, i) \in T
  <2> SUFFICES ASSUME NEW t \in T, NEW i \in 1..n PROVE take(t, i) \in T
    OBVIOUS
  <2>1. IsTaken(take(t, i), old, ci, op)
    BY <1>1, <1>2, TakeEntryTaken
  <2> HIDE DEF take
  <2> QED
    BY <2>1 DEF IsTaken
<1> DEFINE step == [p \in T \X (1..n) |-> take(p[1], p[2])]
<1> HIDE DEF T, take
<1>5. step \in [T \X (1..n) -> T]
  BY <1>4
<1>6. PICK f : IsRun(f, n, T, old, step)
  <2> HIDE DEF step
  <2> QED
    BY <1>3, <1>5, BoundedRecursion
<1>7. f = [i \in 0..n |-> IF i = 0 THEN old ELSE take(f[i - 1], i)]
  <2>1. ASSUME NEW i \in 1..n PROVE f[i] = take(f[i - 1], i)
    <3>1. f \in [0..n -> T] /\ f[i] = step[<<f[i - 1], i>>]
      BY <1>6 DEF IsRun
    <3>2. <<f[i - 1], i>> \in T \X (1..n)
      BY <3>1
    <3> QED
      BY <3>1, <3>2
  <2>2. f[0] = old /\ f = [i \in 0..n |-> f[i]]
    BY <1>6 DEF IsRun
  <2>3. \A i \in 0..n : i # 0 => i \in 1..n
    OBVIOUS
  <2> HIDE DEF step
  <2>4. \A i \in 0..n : f[i] = IF i = 0 THEN old ELSE take(f[i - 1], i)
    BY <2>1, <2>2, <2>3, Zenon
  <2> QED
    BY <2>2, <2>4
<1> HIDE DEF step
<1>8. PICK g : /\ g = [i \in 0..n |-> IF i = 0 THEN old ELSE take(g[i - 1], i)]
               /\ md_update_from_ht(old, ci, other, op)
                    = IF op = "extend" THEN g[n] ELSE md_post_update(g[n])
  <2> DEFINE h == CHOOSE h : h = [i \in 0..Len(other.entries) |->
                                    IF i = 0 THEN old
                                    ELSE TakeEntry(h[i - 1], ci, other, other.entries[i], op)]
  <2>1. \E h0 : h0 = [i \in 0..Len(other.entries) |->
                        IF i = 0 THEN old
                        ELSE TakeEntry(h0[i - 1], ci, other, other.entries[i], op)]
    BY <1>1, <1>7, Zenon DEF take
  <2>2. h = [i \in 0..Len(other.entries) |->
               IF i = 0 THEN old
               ELSE TakeEntry(h[i - 1], ci, other, other.entries[i], op)]
    BY <2>1, Zenon
  <2>3. md_update_from_ht(old, ci, other, op)
          = IF op = "extend" THEN h[Len(other.entries)]
            ELSE md_post_update(h[Len(other.entries)])
    BY Zenon DEF md_update_from_ht
  <2> HIDE DEF h
  <2> QED
    BY <1>1, <2>2, <2>3, Zenon DEF take
<1> DEFINE S == {i \in 0..n : g[i] \in T}
<1>9. 0 \in S
  BY <1>3, <1>8
<1>10. \A i \in 0..(n - 1) : i \in S => i + 1 \in S
  <2> SUFFICES ASSUME NEW i \in 0..(n - 1), i \in S PROVE i + 1 \in S
    OBVIOUS
  <2>1. i + 1 \in 0..n /\ i + 1 # 0 /\ (i + 1) - 1 = i /\ i + 1 \in 1..n
    OBVIOUS
  <2>2. g[i + 1] = take(g[i], i + 1)
    BY <1>8, <2>1
  <2> QED
    BY <1>4, <2>1, <2>2
<1>11. g[n] \in T
  <2> HIDE DEF S
  <2>1. 0..n \subseteq S
    BY <1>9, <1>10, BoundedInduction
  <2> QED
    BY <2>1 DEF S
<1>12. PICK list \in Seq(Working(ci)) : list = g[n] /\ IsTaken(list, old, ci, op)
  BY <1>11 DEF T
<1>13. PICK l \in Nat : l = Len(list) /\ DOMAIN list = 1..l
  OBVIOUS
<1>14. PICK new : new = md_update_from_ht(old, ci, other, op)
  OBVIOUS
<1>15. /\ new \in Seq(Settled(ci)) /\ Len(new) = l /\ l >= m
       /\ op # "update" => \A i \in 1..m : new[i] = old[i]
  <2>1. CASE op = "extend"
    <3>1. new = list /\ \A i \in 1..l : list[i] \in Settled(ci)
      BY <1>8, <1>12, <1>13, <1>14, <2>1 DEF IsTaken
    <3> QED
      BY <1>2, <1>12, <1>13, <2>1, <3>1 DEF IsTaken
  <2>2. CASE op # "extend"
    <3>1. new = md_post_update(list)
      BY <1>8, <1>12, <1>14, <2>2
    <3>2. /\ new \in Seq(Settled(ci)) /\ Len(new) = l
          /\ \A i \in 1..l : list[i] \in Settled(ci) => new[i] = list[i]
      BY <1>13, <3>1, PostSettles
    <3>3. l >= m /\ (op # "update" => \A i \in 1..m : list[i] = old[i])
      BY <1>2, <1>12, <1>13 DEF IsTaken
    <3> QED
      BY <1>2, <3>2, <3>3
  <2> QED
    BY <2>1, <2>2
<1>16. ASSUME op # "update", Len(new) = Len(old) PROVE new = old
  <2>1. l = m /\ \A i \in 1..m : new[i] = old[i]
    BY <1>2, <1>15, <1>16
  <2>2. DOMAIN new = 1..m /\ DOMAIN old = 1..m
    BY <1>2, <1>15, <2>1
  <2> QED
    BY <1>15, <2>1, <2>2
<1> QED
  BY <1>2, <1>14, <1>15, <1>16 DEF Received

-----------------------------------------------------------------------------
(* The live entries in their order.                                        *)

\* The live entries before a position.
Ahead(entries, p) == {j \in LiveAt(entries) : j < p}

\* Positions of live entries are counted.
LEMMA LiveCounted ==
  ASSUME NEW S, NEW entries \in Seq(S)
  PROVE  /\ LiveAt(entries) \in SUBSET (1..Len(entries)) /\ IsFiniteSet(LiveAt(entries))
         /\ Cardinality(LiveAt(entries)) \in Nat
         /\ \A p : IsFiniteSet(Ahead(entries, p)) /\ Cardinality(Ahead(entries, p)) \in Nat
<1>1. LiveAt(entries) \in SUBSET (1..Len(entries)) /\ Len(entries) \in Nat
  BY DEF LiveAt
<1>2. IsFiniteSet(LiveAt(entries))
  <2>1. IsFiniteSet(1..Len(entries))
    BY <1>1, FS_Interval
  <2> QED
    BY <1>1, <2>1, FS_Subset
<1>3. \A p : Ahead(entries, p) \in SUBSET LiveAt(entries)
  BY DEF Ahead
<1> QED
  BY <1>1, <1>2, <1>3, FS_Subset, FS_CardinalityType

\* The n-th live entry is at the position that n - 1 live ones precede.
LEMMA LiveNth ==
  ASSUME NEW S, NEW entries \in Seq(S), NEW n \in 1..Cardinality(LiveAt(entries))
  PROVE  \E i \in LiveAt(entries) :
           Live(entries)[n] = entries[i] /\ Cardinality(Ahead(entries, i)) = n - 1
<1> DEFINE live == LiveAt(entries)
           m == Len(entries) + 1
           nth == CHOOSE i \in live : Cardinality({j \in live : j < i}) = n - 1
<1>1. live \in SUBSET (0..(m - 1)) /\ m \in Nat /\ Cardinality(live) \in Nat
  BY LiveCounted
<1>2. n - 1 \in Nat /\ n - 1 < Cardinality(live)
  BY <1>1
<1>3. \E i \in live : Cardinality({j \in live : j < i}) = n - 1
  <2> HIDE DEF live, m
  <2> QED
    BY <1>1, <1>2, NthElement
<1>4. nth \in live /\ Cardinality({j \in live : j < nth}) = n - 1
  <2> HIDE DEF live
  <2> QED
    BY <1>3, Zenon
<1>5. Live(entries)[n] = entries[nth]
  <2> HIDE DEF nth
  <2> QED
    BY DEF Live, nth, live
<1> QED
  BY <1>4, <1>5 DEF Ahead, live

\* One more live entry is ahead of the position after a live one.
LEMMA OneMoreAhead ==
  ASSUME NEW S, NEW entries \in Seq(S), NEW p \in 1..Len(entries)
  PROVE  Cardinality(Ahead(entries, p + 1))
           = Cardinality(Ahead(entries, p)) + (IF IsLive(entries[p]) THEN 1 ELSE 0)
<1>1. LiveAt(entries) \in SUBSET (1..Len(entries)) /\ Len(entries) \in Nat
  BY LiveCounted
<1>2. \A j \in LiveAt(entries) : j < p + 1 <=> j < p \/ j = p
  BY <1>1
<1>3. CASE IsLive(entries[p])
  <2>1. p \in LiveAt(entries)
    BY <1>3 DEF LiveAt
  <2>2. Ahead(entries, p + 1) = Ahead(entries, p) \cup {p}
    BY <1>2, <2>1, Zenon DEF Ahead
  <2>3. p \notin Ahead(entries, p)
    BY <1>1 DEF Ahead
  <2>4. Cardinality(Ahead(entries, p) \cup {p}) = Cardinality(Ahead(entries, p)) + 1
    BY <2>3, LiveCounted, FS_AddElement
  <2> QED
    BY <1>3, <2>2, <2>4
<1>4. CASE ~ IsLive(entries[p])
  <2>1. p \notin LiveAt(entries)
    BY <1>4 DEF LiveAt
  <2>2. Ahead(entries, p + 1) = Ahead(entries, p)
    BY <1>2, <2>1, Zenon DEF Ahead
  <2> QED
    BY <1>4, <2>2, LiveCounted
<1> QED
  BY <1>3, <1>4

\* Of two positions of live entries the later has more live ones ahead.
LEMMA AheadTells ==
  ASSUME NEW S, NEW entries \in Seq(S), NEW i \in LiveAt(entries), NEW j \in LiveAt(entries),
         Cardinality(Ahead(entries, i)) = Cardinality(Ahead(entries, j))
  PROVE  i = j
<1>1. LiveAt(entries) \in SUBSET (1..Len(entries)) /\ Len(entries) \in Nat
  BY LiveCounted
<1>2. ASSUME NEW a \in LiveAt(entries), NEW b \in LiveAt(entries), a < b
      PROVE  Cardinality(Ahead(entries, a)) < Cardinality(Ahead(entries, b))
  <2>1. a \notin Ahead(entries, a) /\ Ahead(entries, a) \cup {a} \in SUBSET Ahead(entries, b)
    BY <1>1, <1>2 DEF Ahead
  <2>2. Cardinality(Ahead(entries, a) \cup {a}) = Cardinality(Ahead(entries, a)) + 1
    BY <2>1, LiveCounted, FS_AddElement
  <2>3. Cardinality(Ahead(entries, a) \cup {a}) <= Cardinality(Ahead(entries, b))
    BY <2>1, LiveCounted, FS_Subset
  <2> QED
    BY <2>2, <2>3, LiveCounted
<1>3. ~ (i < j) /\ ~ (j < i)
  BY <1>2, LiveCounted
<1> QED
  BY <1>1, <1>3

\* A live entry comes after those ahead of it.
LEMMA LiveInPlace ==
  ASSUME NEW S, NEW entries \in Seq(S), NEW i \in LiveAt(entries)
  PROVE  LET n == Cardinality(Ahead(entries, i)) + 1
         IN  n \in 1..Cardinality(LiveAt(entries)) /\ Live(entries)[n] = entries[i]
<1> DEFINE c == Cardinality(Ahead(entries, i))
           n == c + 1
<1>1. LiveAt(entries) \in SUBSET (1..Len(entries)) /\ Len(entries) \in Nat /\ c \in Nat
  BY LiveCounted
<1>2. i \notin Ahead(entries, i) /\ Ahead(entries, i) \cup {i} \in SUBSET LiveAt(entries)
  BY <1>1 DEF Ahead
<1>3. Cardinality(Ahead(entries, i) \cup {i}) = n
  BY <1>2, LiveCounted, FS_AddElement
<1>4. IsFiniteSet(LiveAt(entries))
  BY LiveCounted
<1>5. n <= Cardinality(LiveAt(entries))
  BY <1>2, <1>3, <1>4, FS_Subset
<1>6. n \in 1..Cardinality(LiveAt(entries))
  <2>1. Cardinality(LiveAt(entries)) \in Nat
    BY LiveCounted
  <2> QED
    BY <1>1, <1>5, <2>1
<1> HIDE DEF n
<1>7. PICK j \in LiveAt(entries) :
        Live(entries)[n] = entries[j] /\ Cardinality(Ahead(entries, j)) = n - 1
  BY <1>6, LiveNth
<1>8. n - 1 = c
  BY <1>1 DEF n
<1>9. i = j
  BY <1>7, <1>8, AheadTells
<1> QED
  BY <1>6, <1>7, <1>9 DEF n, c

-----------------------------------------------------------------------------
(* What == compares.                                                       *)

\* Two positions agree on what is left: the items that follow those ahead of
\* them are the same, as far as both lists go.
AgreeFrom(l, r, p, q) ==
  \A k \in Nat \ {0} :
    LET m == Cardinality(Ahead(l, p)) + k
        n == Cardinality(Ahead(r, q)) + k
    IN  (m <= Cardinality(LiveAt(l)) /\ n <= Cardinality(LiveAt(r)))
          => /\ Live(l)[m].identity = Live(r)[n].identity
             /\ Live(l)[m].value = Live(r)[n].value

\* The pairs of positions a comparison may come to.
Places(l, r) == (1..(Len(l) + 1)) \X (1..(Len(r) + 1))

\* One step from positions p and q, given what equal says of later ones.
EqStep(l, r, equal, p, q) ==
  IF p > Len(l) \/ q > Len(r) THEN TRUE
  ELSE IF l[p].identity = NULL THEN equal[<<p + 1, q>>]
  ELSE IF r[q].identity = NULL THEN equal[<<p, q + 1>>]
  ELSE /\ l[p].identity = r[q].identity
       /\ l[p].value = r[q].value
       /\ equal[<<p + 1, q + 1>>]

\* The recursion of md_eq, if it has a solution.
LEMMA EqUnfolds ==
  ASSUME NEW left, NEW right,
         NEW f, f = [at \in Places(left.entries, right.entries) |->
                       EqStep(left.entries, right.entries, f, at[1], at[2])]
  PROVE  \E equal :
           /\ equal = [at \in Places(left.entries, right.entries) |->
                         EqStep(left.entries, right.entries, equal, at[1], at[2])]
           /\ md_eq(left, right) <=>
                (left = right \/ (md_len(left) = md_len(right) /\ equal[<<1, 1>>]))
<1> DEFINE l == left.entries
           r == right.entries
           Unfold(g) == [at \in Places(l, r) |-> EqStep(l, r, g, at[1], at[2])]
           equal == CHOOSE g : g = Unfold(g)
<1>1. md_eq(left, right) <=> (left = right \/ (md_len(left) = md_len(right) /\ equal[<<1, 1>>]))
  BY DEF md_eq, EqStep, Places
<1>2. f = Unfold(f)
  OBVIOUS
<1>3. equal = Unfold(equal)
  <2> HIDE DEF Unfold
  <2> QED
    BY <1>2, Zenon
<1> HIDE DEF equal
<1> QED
  BY <1>1, <1>3

\* What two positions agree on is what one step of the comparison asks of them
\* and of the next.
LEMMA AgreeSteps ==
  ASSUME NEW S, NEW l \in Seq(S), NEW r \in Seq(S),
         NEW p \in 1..(Len(l) + 1), NEW q \in 1..(Len(r) + 1)
  PROVE  /\ p > Len(l) \/ q > Len(r) => AgreeFrom(l, r, p, q)
         /\ (p <= Len(l) /\ l[p].identity = NULL)
              => (AgreeFrom(l, r, p, q) <=> AgreeFrom(l, r, p + 1, q))
         /\ (q <= Len(r) /\ r[q].identity = NULL)
              => (AgreeFrom(l, r, p, q) <=> AgreeFrom(l, r, p, q + 1))
         /\ (p <= Len(l) /\ q <= Len(r) /\ l[p].identity # NULL /\ r[q].identity # NULL)
              => (AgreeFrom(l, r, p, q) <=>
                    /\ l[p].identity = r[q].identity
                    /\ l[p].value = r[q].value
                    /\ AgreeFrom(l, r, p + 1, q + 1))
<1>1. Len(l) \in Nat /\ Len(r) \in Nat
  OBVIOUS
<1>2. /\ \A i : Cardinality(Ahead(l, i)) \in Nat /\ Cardinality(Ahead(r, i)) \in Nat
      /\ Cardinality(LiveAt(l)) \in Nat /\ Cardinality(LiveAt(r)) \in Nat
  BY LiveCounted
<1>3. ASSUME p > Len(l) \/ q > Len(r) PROVE AgreeFrom(l, r, p, q)
  <2>1. ASSUME NEW s \in Seq(S), NEW i, i > Len(s), i \in Nat
        PROVE  Cardinality(Ahead(s, i)) = Cardinality(LiveAt(s))
    <3>1. LiveAt(s) \in SUBSET (1..Len(s)) /\ Len(s) \in Nat
      BY LiveCounted
    <3>2. \A j \in LiveAt(s) : j < i
      BY <2>1, <3>1
    <3>3. Ahead(s, i) = LiveAt(s)
      BY <3>2, Zenon DEF Ahead
    <3> QED
      BY <3>3
  <2>2. p \in Nat /\ q \in Nat
    BY <1>1
  <2>3. \/ Cardinality(Ahead(l, p)) = Cardinality(LiveAt(l))
        \/ Cardinality(Ahead(r, q)) = Cardinality(LiveAt(r))
    BY <1>3, <2>1, <2>2
  <2>4. \A c \in Nat, k \in Nat \ {0} : ~ (c + k <= c)
    OBVIOUS
  <2> QED
    BY <1>2, <2>3, <2>4 DEF AgreeFrom
<1>4. ASSUME p <= Len(l), l[p].identity = NULL
      PROVE  AgreeFrom(l, r, p, q) <=> AgreeFrom(l, r, p + 1, q)
  <2>1. Cardinality(Ahead(l, p + 1)) = Cardinality(Ahead(l, p))
    <3>1. p \in 1..Len(l) /\ ~ IsLive(l[p])
      BY <1>1, <1>4 DEF IsLive
    <3>2. Cardinality(Ahead(l, p + 1)) = Cardinality(Ahead(l, p)) + 0
      BY <3>1, OneMoreAhead
    <3> QED
      BY <1>2, <3>2
  <2> QED
    BY <2>1 DEF AgreeFrom
<1>5. ASSUME q <= Len(r), r[q].identity = NULL
      PROVE  AgreeFrom(l, r, p, q) <=> AgreeFrom(l, r, p, q + 1)
  <2>1. Cardinality(Ahead(r, q + 1)) = Cardinality(Ahead(r, q))
    <3>1. q \in 1..Len(r) /\ ~ IsLive(r[q])
      BY <1>1, <1>5 DEF IsLive
    <3>2. Cardinality(Ahead(r, q + 1)) = Cardinality(Ahead(r, q)) + 0
      BY <3>1, OneMoreAhead
    <3> QED
      BY <1>2, <3>2
  <2> QED
    BY <2>1 DEF AgreeFrom
<1>6. ASSUME p <= Len(l), q <= Len(r), l[p].identity # NULL, r[q].identity # NULL
      PROVE  AgreeFrom(l, r, p, q) <=>
                    /\ l[p].identity = r[q].identity
                    /\ l[p].value = r[q].value
                    /\ AgreeFrom(l, r, p + 1, q + 1)
  <2> DEFINE a == Cardinality(Ahead(l, p))
             b == Cardinality(Ahead(r, q))
             Same(k) == /\ Live(l)[a + k].identity = Live(r)[b + k].identity
                        /\ Live(l)[a + k].value = Live(r)[b + k].value
             Both(k) == a + k <= Cardinality(LiveAt(l)) /\ b + k <= Cardinality(LiveAt(r))
  <2>1. p \in LiveAt(l) /\ q \in LiveAt(r)
    BY <1>1, <1>6 DEF LiveAt, IsLive
  <2>2. /\ Cardinality(Ahead(l, p + 1)) = a + 1
        /\ Cardinality(Ahead(r, q + 1)) = b + 1
    BY <1>1, <1>6, OneMoreAhead DEF IsLive
  <2>3. /\ a + 1 \in 1..Cardinality(LiveAt(l)) /\ Live(l)[a + 1] = l[p]
        /\ b + 1 \in 1..Cardinality(LiveAt(r)) /\ Live(r)[b + 1] = r[q]
    BY <2>1, LiveInPlace
  <2>4. a \in Nat /\ b \in Nat
    BY <1>2
  <2>5. AgreeFrom(l, r, p, q) <=> \A k \in Nat \ {0} : Both(k) => Same(k)
    BY DEF AgreeFrom
  <2>6. AgreeFrom(l, r, p + 1, q + 1) <=> \A k \in Nat \ {0} : Both(k + 1) => Same(k + 1)
    <3> HIDE DEF a, b
    <3>1. \A k \in Nat \ {0} : (a + 1) + k = a + (k + 1) /\ (b + 1) + k = b + (k + 1)
      BY <2>4
    <3>2. AgreeFrom(l, r, p + 1, q + 1) <=>
            \A k \in Nat \ {0} :
              ((a + 1) + k <= Cardinality(LiveAt(l)) /\ (b + 1) + k <= Cardinality(LiveAt(r)))
                => /\ Live(l)[(a + 1) + k].identity = Live(r)[(b + 1) + k].identity
                   /\ Live(l)[(a + 1) + k].value = Live(r)[(b + 1) + k].value
      BY <2>2, Zenon DEF AgreeFrom
    <3> QED
      BY <3>1, <3>2
  <2>7. Both(1) /\ (Same(1) <=> l[p].identity = r[q].identity /\ l[p].value = r[q].value)
    <3> HIDE DEF a, b
    <3> QED
      BY <2>3
  <2> HIDE DEF Same, Both
  <2>8. (\A k \in Nat \ {0} : Both(k) => Same(k))
          <=> Same(1) /\ \A k \in Nat \ {0} : Both(k + 1) => Same(k + 1)
    <3>1. ASSUME Same(1), \A k \in Nat \ {0} : Both(k + 1) => Same(k + 1),
                 NEW k \in Nat \ {0}, Both(k)
          PROVE  Same(k)
      <4>1. k = 1 \/ (k - 1 \in Nat \ {0} /\ (k - 1) + 1 = k)
        OBVIOUS
      <4> QED
        BY <3>1, <4>1
    <3>2. 1 \in Nat \ {0} /\ \A k \in Nat \ {0} : k + 1 \in Nat \ {0}
      OBVIOUS
    <3> QED
      BY <2>7, <3>1, <3>2
  <2> QED
    BY <2>5, <2>6, <2>7, <2>8
<1> QED
  BY <1>3, <1>4, <1>5, <1>6

\* A solution of the comparison's recursion says of every two positions whether
\* they agree.
LEMMA EqSolved ==
  ASSUME NEW S, NEW l \in Seq(S), NEW r \in Seq(S),
         NEW equal, equal = [at \in Places(l, r) |-> EqStep(l, r, equal, at[1], at[2])]
  PROVE  equal[<<1, 1>>] <=> AgreeFrom(l, r, 1, 1)
<1>1. PICK m \in Nat, n \in Nat : m = Len(l) /\ n = Len(r)
  OBVIOUS
<1> DEFINE T == {k \in Nat : \A p \in 1..(m + 1), q \in 1..(n + 1) :
                   (m + 1 - p) + (n + 1 - q) <= k
                     => (equal[<<p, q>>] <=> AgreeFrom(l, r, p, q))}
<1>2. \A p \in 1..(m + 1), q \in 1..(n + 1) : equal[<<p, q>>] = EqStep(l, r, equal, p, q)
  <2> SUFFICES ASSUME NEW p \in 1..(m + 1), NEW q \in 1..(n + 1)
               PROVE  equal[<<p, q>>] = EqStep(l, r, equal, p, q)
    OBVIOUS
  <2> DEFINE at == <<p, q>>
  <2>1. at \in Places(l, r) /\ at[1] = p /\ at[2] = q
    BY <1>1 DEF Places
  <2> HIDE DEF at
  <2>2. equal[at] = EqStep(l, r, equal, at[1], at[2])
    BY <2>1
  <2> QED
    BY <2>1, <2>2 DEF at
<1>3. ASSUME NEW p \in 1..(m + 1), NEW q \in 1..(n + 1), p > m \/ q > n
      PROVE  equal[<<p, q>>] <=> AgreeFrom(l, r, p, q)
  <2>1. AgreeFrom(l, r, p, q)
    BY <1>1, <1>3, AgreeSteps
  <2>2. equal[<<p, q>>] = TRUE
    BY <1>1, <1>2, <1>3 DEF EqStep
  <2> QED
    BY <2>1, <2>2
<1>4. 0 \in T
  BY <1>3
<1>5. ASSUME NEW k \in 0..((m + n) - 1), k \in T PROVE k + 1 \in T
  <2> SUFFICES ASSUME NEW p \in 1..(m + 1), NEW q \in 1..(n + 1),
                      (m + 1 - p) + (n + 1 - q) <= k + 1
               PROVE  equal[<<p, q>>] <=> AgreeFrom(l, r, p, q)
    BY <1>1
  <2>1. CASE p > m \/ q > n
    BY <1>3, <2>1
  <2>2. CASE p <= m /\ q <= n
    <3>1. p + 1 \in 1..(m + 1) /\ q + 1 \in 1..(n + 1)
      BY <2>2
    <3>2. /\ (m + 1 - (p + 1)) + (n + 1 - q) <= k
          /\ (m + 1 - p) + (n + 1 - (q + 1)) <= k
          /\ (m + 1 - (p + 1)) + (n + 1 - (q + 1)) <= k
      BY <2>2
    <3>3. /\ equal[<<p + 1, q>>] <=> AgreeFrom(l, r, p + 1, q)
          /\ equal[<<p, q + 1>>] <=> AgreeFrom(l, r, p, q + 1)
          /\ equal[<<p + 1, q + 1>>] <=> AgreeFrom(l, r, p + 1, q + 1)
      BY <1>5, <3>1, <3>2
    <3>4. ~ (p > m \/ q > n)
      BY <2>2
    <3>5. CASE l[p].identity = NULL
      <4>1. equal[<<p, q>>] = equal[<<p + 1, q>>]
        BY <1>1, <1>2, <3>4, <3>5 DEF EqStep
      <4>2. AgreeFrom(l, r, p, q) <=> AgreeFrom(l, r, p + 1, q)
        BY <1>1, <2>2, <3>5, AgreeSteps
      <4> QED
        BY <3>3, <4>1, <4>2
    <3>6. CASE l[p].identity # NULL /\ r[q].identity = NULL
      <4>1. equal[<<p, q>>] = equal[<<p, q + 1>>]
        BY <1>1, <1>2, <3>4, <3>6 DEF EqStep
      <4>2. AgreeFrom(l, r, p, q) <=> AgreeFrom(l, r, p, q + 1)
        BY <1>1, <2>2, <3>6, AgreeSteps
      <4> QED
        BY <3>3, <4>1, <4>2
    <3>7. CASE l[p].identity # NULL /\ r[q].identity # NULL
      <4>1. equal[<<p, q>>] <=> /\ l[p].identity = r[q].identity
                                /\ l[p].value = r[q].value
                                /\ equal[<<p + 1, q + 1>>]
        BY <1>1, <1>2, <3>4, <3>7 DEF EqStep
      <4>2. AgreeFrom(l, r, p, q) <=> /\ l[p].identity = r[q].identity
                                      /\ l[p].value = r[q].value
                                      /\ AgreeFrom(l, r, p + 1, q + 1)
        BY <1>1, <2>2, <3>7, AgreeSteps
      <4> QED
        BY <3>3, <4>1, <4>2
    <3> QED
      BY <3>5, <3>6, <3>7
  <2> QED
    BY <2>1, <2>2
<1>6. m + n \in 0..(m + n) /\ m + n \in Nat
  OBVIOUS
<1>7. m + n \in T
  <2>1. PICK c \in Nat : c = m + n
    BY <1>6
  <2> HIDE DEF T
  <2>2. 0..c \subseteq T
    BY <1>4, <1>5, <2>1, BoundedInduction
  <2> QED
    BY <2>1, <2>2
<1> QED
  BY <1>7

\* md_eq compares the lengths and then what follows the first positions.
LEMMA EqAgrees ==
  ASSUME NEW S, NEW left, NEW right, left.entries \in Seq(S), right.entries \in Seq(S)
  PROVE  md_eq(left, right) <=>
           (left = right \/ (/\ md_len(left) = md_len(right)
                             /\ AgreeFrom(left.entries, right.entries, 1, 1)))
<1> DEFINE l == left.entries
           r == right.entries
           f == [at \in Places(l, r) |-> AgreeFrom(l, r, at[1], at[2])]
<1>1. PICK m \in Nat, n \in Nat : m = Len(l) /\ n = Len(r)
  OBVIOUS
<1>2. ASSUME NEW p \in 1..(m + 1), NEW q \in 1..(n + 1)
      PROVE  f[<<p, q>>] = AgreeFrom(l, r, p, q)
  <2> DEFINE at == <<p, q>>
  <2>1. at \in Places(l, r) /\ at[1] = p /\ at[2] = q
    BY <1>1 DEF Places
  <2> HIDE DEF at
  <2>2. f[at] = AgreeFrom(l, r, p, q)
    BY <2>1
  <2> QED
    BY <2>2 DEF at
<1>3. ASSUME NEW at \in Places(l, r) PROVE f[at] = EqStep(l, r, f, at[1], at[2])
  <2>1. PICK p \in 1..(m + 1), q \in 1..(n + 1) : at = <<p, q>>
    BY <1>1 DEF Places
  <2>2. at[1] = p /\ at[2] = q
    BY <2>1
  <2>3. f[at] = AgreeFrom(l, r, p, q)
    BY <2>2
  <2>4. p <= m => p + 1 \in 1..(m + 1)
    OBVIOUS
  <2>5. q <= n => q + 1 \in 1..(n + 1)
    OBVIOUS
  <2>6. ASSUME p <= m
        PROVE f[<<p + 1, q>>] = AgreeFrom(l, r, p + 1, q)
    BY <1>2, <2>4, <2>6
  <2>7. ASSUME q <= n
        PROVE f[<<p, q + 1>>] = AgreeFrom(l, r, p, q + 1)
    BY <1>2, <2>5, <2>7
  <2>8. ASSUME p <= m, q <= n
        PROVE f[<<p + 1, q + 1>>] = AgreeFrom(l, r, p + 1, q + 1)
    BY <1>2, <2>4, <2>5, <2>8
  <2> HIDE DEF f
  <2>9. CASE p > m \/ q > n
    <3>1. AgreeFrom(l, r, p, q) = TRUE
      <4>1. AgreeFrom(l, r, p, q)
        BY <1>1, <2>9, AgreeSteps
      <4> QED
        BY <4>1 DEF AgreeFrom
    <3>2. EqStep(l, r, f, p, q) = TRUE
      BY <1>1, <2>9 DEF EqStep
    <3> QED
      BY <2>2, <2>3, <3>1, <3>2
  <2>10. CASE p <= m /\ q <= n
    <3>1. ~ (p > m \/ q > n)
      BY <2>10
    <3>2. CASE l[p].identity = NULL
      <4>1. EqStep(l, r, f, p, q) = f[<<p + 1, q>>]
        BY <1>1, <3>1, <3>2 DEF EqStep
      <4>2. AgreeFrom(l, r, p, q) <=> AgreeFrom(l, r, p + 1, q)
        BY <1>1, <2>10, <3>2, AgreeSteps
      <4>3. AgreeFrom(l, r, p, q) = AgreeFrom(l, r, p + 1, q)
        BY <4>2 DEF AgreeFrom
      <4> QED
        BY <2>2, <2>3, <2>6, <2>10, <4>1, <4>3
    <3>3. CASE l[p].identity # NULL /\ r[q].identity = NULL
      <4>1. EqStep(l, r, f, p, q) = f[<<p, q + 1>>]
        BY <1>1, <3>1, <3>3 DEF EqStep
      <4>2. AgreeFrom(l, r, p, q) <=> AgreeFrom(l, r, p, q + 1)
        BY <1>1, <2>10, <3>3, AgreeSteps
      <4>3. AgreeFrom(l, r, p, q) = AgreeFrom(l, r, p, q + 1)
        BY <4>2 DEF AgreeFrom
      <4> QED
        BY <2>2, <2>3, <2>7, <2>10, <4>1, <4>3
    <3>4. CASE l[p].identity # NULL /\ r[q].identity # NULL
      <4>1. EqStep(l, r, f, p, q) = (/\ l[p].identity = r[q].identity
                                     /\ l[p].value = r[q].value
                                     /\ f[<<p + 1, q + 1>>])
        BY <1>1, <3>1, <3>4 DEF EqStep
      <4>2. AgreeFrom(l, r, p, q) <=> /\ l[p].identity = r[q].identity
                                      /\ l[p].value = r[q].value
                                      /\ AgreeFrom(l, r, p + 1, q + 1)
        BY <1>1, <2>10, <3>4, AgreeSteps
      <4>3. AgreeFrom(l, r, p, q) = (/\ l[p].identity = r[q].identity
                                     /\ l[p].value = r[q].value
                                     /\ AgreeFrom(l, r, p + 1, q + 1))
        BY <4>2 DEF AgreeFrom
      <4> QED
        BY <2>2, <2>3, <2>8, <2>10, <4>1, <4>3
    <3> QED
      BY <3>2, <3>3, <3>4
  <2> QED
    BY <2>9, <2>10
<1>4. f = [at \in Places(l, r) |-> EqStep(l, r, f, at[1], at[2])]
  <2>1. f = [at \in Places(l, r) |-> f[at]]
    OBVIOUS
  <2> HIDE DEF f
  <2> QED
    BY <1>3, <2>1
<1> HIDE DEF f
<1>5. PICK equal :
        /\ equal = [at \in Places(l, r) |-> EqStep(l, r, equal, at[1], at[2])]
        /\ md_eq(left, right) <=>
             (left = right \/ (md_len(left) = md_len(right) /\ equal[<<1, 1>>]))
  BY <1>4, EqUnfolds
<1>6. equal[<<1, 1>>] <=> AgreeFrom(l, r, 1, 1)
  BY <1>5, EqSolved
<1> QED
  BY <1>5, <1>6

\* Two lists of items are one when they are as long and agree from the start.
LEMMA AgreeingItems ==
  ASSUME NEW S, NEW c, NEW d, c.entries \in Seq(S), d.entries \in Seq(S)
  PROVE  ItemsOf(c) = ItemsOf(d) <=>
           (md_len(c) = md_len(d) /\ AgreeFrom(c.entries, d.entries, 1, 1))
<1> DEFINE l == c.entries
           r == d.entries
           m == Cardinality(LiveAt(l))
           n == Cardinality(LiveAt(r))
<1>1. m \in Nat /\ n \in Nat /\ md_len(c) = m /\ md_len(d) = n
  BY LiveCounted DEF md_len
<1>2. /\ ItemsOf(c) = [i \in 1..m |-> <<Live(l)[i].identity, Live(l)[i].value>>]
      /\ ItemsOf(d) = [i \in 1..n |-> <<Live(r)[i].identity, Live(r)[i].value>>]
  <2>1. DOMAIN Live(l) = 1..m /\ DOMAIN Live(r) = 1..n
    BY DEF Live
  <2> HIDE DEF m, n
  <2> QED
    BY <2>1 DEF ItemsOf, Compared
<1>3. Cardinality(Ahead(l, 1)) = 0 /\ Cardinality(Ahead(r, 1)) = 0
  <2>1. \A i \in LiveAt(l) \cup LiveAt(r) : ~ (i < 1)
    <3>1. LiveAt(l) \in SUBSET (1..Len(l)) /\ LiveAt(r) \in SUBSET (1..Len(r))
      BY LiveCounted
    <3>2. Len(l) \in Nat /\ Len(r) \in Nat
      OBVIOUS
    <3> QED
      BY <3>1, <3>2
  <2>2. Ahead(l, 1) = {} /\ Ahead(r, 1) = {}
    BY <2>1, Zenon DEF Ahead
  <2> QED
    BY <2>2, FS_EmptySet
<1>4. AgreeFrom(l, r, 1, 1) <=>
        \A i \in Nat \ {0} : (i <= m /\ i <= n) => /\ Live(l)[i].identity = Live(r)[i].identity
                                                   /\ Live(l)[i].value = Live(r)[i].value
  <2> HIDE DEF m, n
  <2>1. \A i \in Nat \ {0} : 0 + i = i
    OBVIOUS
  <2> QED
    BY <1>3, <2>1 DEF AgreeFrom, m, n
<1> HIDE DEF m, n
<1>5. ASSUME ItemsOf(c) = ItemsOf(d) PROVE md_len(c) = md_len(d) /\ AgreeFrom(l, r, 1, 1)
  <2>1. 1..m = 1..n
    BY <1>2, <1>5
  <2>2. m = n
    BY <1>1, <2>1
  <2>3. ASSUME NEW i \in 1..m
        PROVE  /\ Live(l)[i].identity = Live(r)[i].identity
               /\ Live(l)[i].value = Live(r)[i].value
    BY <1>2, <1>5, <2>2
  <2> QED
    BY <1>1, <1>4, <2>2, <2>3
<1>6. ASSUME m = n, AgreeFrom(l, r, 1, 1) PROVE ItemsOf(c) = ItemsOf(d)
  <2>1. \A i \in 1..m : /\ Live(l)[i].identity = Live(r)[i].identity
                        /\ Live(l)[i].value = Live(r)[i].value
    BY <1>1, <1>4, <1>6
  <2> QED
    BY <1>2, <1>6, <2>1
<1> QED
  BY <1>1, <1>5, <1>6

-----------------------------------------------------------------------------
(* The multidicts.                                                         *)

\* The multidicts of one kind, and of both.
DictsOf(ci) ==
  [ci : {ci}, entries : Seq(Settled(ci)), version : Nat, rewritten : BOOLEAN]
Dicts == DictsOf(TRUE) \cup DictsOf(FALSE)

\* No version is ahead of the counter, so that the next one is new.
FamilyInvariant ==
  /\ dicts \in Seq(Dicts) /\ Len(dicts) <= MaxDicts
  /\ global_version \in Nat
  /\ \A d \in DOMAIN dicts : dicts[d].version \in 1..global_version
  /\ SameVersionSameItems

\* What a multidict in the sequence is.
LEMMA DictFields ==
  ASSUME NEW d \in Dicts
  PROVE  /\ d.ci \in BOOLEAN /\ d.entries \in Seq(Settled(d.ci))
         /\ d.version \in Nat /\ d.rewritten \in BOOLEAN
         /\ d = [ci |-> d.ci, entries |-> d.entries, version |-> d.version,
                 rewritten |-> d.rewritten]
  BY DEF Dicts, DictsOf

\* A multidict made of typed parts is one.
LEMMA DictMade ==
  ASSUME NEW ci \in BOOLEAN, NEW entries \in Seq(Settled(ci)), NEW n \in Nat,
         NEW rewritten \in BOOLEAN
  PROVE  [ci |-> ci, entries |-> entries, version |-> n, rewritten |-> rewritten] \in Dicts
<1>1. [ci |-> ci, entries |-> entries, version |-> n, rewritten |-> rewritten] \in DictsOf(ci)
  BY DEF DictsOf
<1> QED
  BY <1>1 DEF Dicts

\* The multidict d after Put.
PutDict(old, entries, n, rewrites) ==
  [ci |-> old.ci, entries |-> entries,
   version |-> IF n > 0 THEN global_version + n ELSE old.version,
   rewritten |-> (n <= 0 /\ old.rewritten) \/ rewrites]

\* Putting entries changes one multidict.
LEMMA PutOne ==
  ASSUME dicts \in Seq(Dicts), NEW d \in DOMAIN dicts, NEW entries, NEW n \in Nat,
         NEW rewrites \in BOOLEAN, Put(d, entries, n, rewrites)
  PROVE  dicts' = [dicts EXCEPT ![d] = PutDict(dicts[d], entries, n, rewrites)]
<1>1. PICK old \in Dicts : old = dicts[d]
  OBVIOUS
<1>2. old = [ci |-> old.ci, entries |-> old.entries, version |-> old.version,
             rewritten |-> old.rewritten] /\ old.rewritten \in BOOLEAN
  BY DictFields
<1>3. PICK v : v = IF n > 0 THEN global_version + n ELSE old.version
  OBVIOUS
<1>4. PICK r \in BOOLEAN : r = IF n > 0 THEN FALSE ELSE old.rewritten
  BY <1>2
<1>5. NEXT_VERSION(d, n) = [dicts EXCEPT ![d] = [ci |-> old.ci, entries |-> old.entries,
                                                version |-> v, rewritten |-> r]]
  <2>1. NEXT_VERSION(d, n) = [dicts EXCEPT ![d].version = v, ![d].rewritten = r]
    BY <1>1, <1>3, <1>4 DEF NEXT_VERSION
  <2> QED
    BY <1>1, <1>2, <2>1
<1>6. dicts' = [dicts EXCEPT ![d] = [ci |-> old.ci, entries |-> entries,
                                     version |-> v, rewritten |-> r \/ rewrites]]
  <2>1. dicts' = [NEXT_VERSION(d, n) EXCEPT ![d].entries = entries,
                                           ![d].rewritten = @ \/ rewrites]
    BY DEF Put
  <2>2. PICK x : x = [ci |-> old.ci, entries |-> old.entries, version |-> v, rewritten |-> r]
    OBVIOUS
  <2>3. PICK y : y = [x EXCEPT !.entries = entries, !.rewritten = @ \/ rewrites]
    OBVIOUS
  <2>4. y = [ci |-> old.ci, entries |-> entries, version |-> v, rewritten |-> r \/ rewrites]
    BY <2>2, <2>3
  <2>5. PICK F : F = NEXT_VERSION(d, n)
    OBVIOUS
  <2>6. F = [dicts EXCEPT ![d] = x] /\ F[d] = x
    BY <1>5, <2>2, <2>5
  <2>7. dicts' = [F EXCEPT ![d] = y]
    BY <2>1, <2>3, <2>5, <2>6
  <2> QED
    BY <2>4, <2>6, <2>7
<1>7. (r \/ rewrites) = ((n <= 0 /\ old.rewritten) \/ rewrites)
  BY <1>2, <1>4
<1> QED
  BY <1>1, <1>3, <1>6, <1>7 DEF PutDict

\* Entry by entry the same items.
SameItems(new, old) ==
  /\ Len(new) = Len(old)
  /\ \A i \in 1..Len(old) : new[i].identity = old[i].identity /\ new[i].value = old[i].value

\* Such entries are one list of items.
LEMMA ItemsKept ==
  ASSUME NEW S, NEW T, NEW c, NEW d, c.entries \in Seq(S), d.entries \in Seq(T),
         SameItems(c.entries, d.entries)
  PROVE  ItemsOf(c) = ItemsOf(d)
<1> DEFINE l == c.entries
           r == d.entries
<1>1. PICK n \in Nat : n = Len(l) /\ DOMAIN l = 1..n /\ n = Len(r) /\ DOMAIN r = 1..n
  BY DEF SameItems
<1>2. \A i \in 1..n : l[i].identity = r[i].identity /\ l[i].value = r[i].value
  BY <1>1 DEF SameItems
<1>3. LiveAt(l) = LiveAt(r)
  BY <1>1, <1>2 DEF LiveAt, IsLive
<1>4. PICK m \in Nat : m = Cardinality(LiveAt(l)) /\ m = Cardinality(LiveAt(r))
  BY <1>3, LiveCounted
<1>5. ASSUME NEW k \in 1..m
      PROVE  /\ Live(l)[k].identity = Live(r)[k].identity
             /\ Live(l)[k].value = Live(r)[k].value
  <2>1. PICK i \in LiveAt(l) : Live(l)[k] = l[i] /\ Cardinality(Ahead(l, i)) = k - 1
    BY <1>4, LiveNth
  <2>2. PICK j \in LiveAt(r) : Live(r)[k] = r[j] /\ Cardinality(Ahead(r, j)) = k - 1
    BY <1>4, LiveNth
  <2>3. Ahead(r, j) = Ahead(l, j)
    BY <1>3 DEF Ahead
  <2>4. i = j
    BY <1>3, <2>1, <2>2, <2>3, AheadTells
  <2>5. i \in 1..n
    BY <1>1 DEF LiveAt
  <2> QED
    BY <1>2, <2>1, <2>2, <2>4, <2>5
<1>6. DOMAIN Live(l) = 1..m /\ DOMAIN Live(r) = 1..m
  BY <1>4 DEF Live
<1>7. Compared(Live(l)) = Compared(Live(r))
  BY <1>5, <1>6 DEF Compared
<1> QED
  BY <1>7 DEF ItemsOf

\* A change of one multidict is new to the others, or leaves the items, or is
\* an update() that replaces some.
LEMMA PutKept ==
  ASSUME FamilyInvariant, NEW d \in DOMAIN dicts, NEW entries \in Seq(Settled(dicts[d].ci)),
         NEW n \in Nat, NEW rewrites \in BOOLEAN, Put(d, entries, n, rewrites),
         n > 0 \/ rewrites \/ SameItems(entries, dicts[d].entries)
  PROVE  FamilyInvariant'
<1>1. PICK old \in Dicts : old = dicts[d]
  BY DEF FamilyInvariant
<1>2. /\ old.ci \in BOOLEAN /\ old.entries \in Seq(Settled(old.ci))
      /\ old.version \in 1..global_version /\ old.rewritten \in BOOLEAN
      /\ global_version \in Nat
  BY <1>1, DictFields DEF FamilyInvariant
<1>3. PICK v \in Nat : v = IF n > 0 THEN global_version + n ELSE old.version
  <2>1. global_version + n \in Nat /\ old.version \in Nat
    BY <1>2
  <2> QED
    BY <2>1
<1>4. PICK r \in BOOLEAN : r = ((n <= 0 /\ old.rewritten) \/ rewrites)
  BY <1>2
<1>5. PICK new \in Dicts : new = [ci |-> old.ci, entries |-> entries,
                                  version |-> v, rewritten |-> r]
  BY <1>1, <1>2, DictMade
<1>6. dicts' = [dicts EXCEPT ![d] = new]
  <2>1. dicts' = [dicts EXCEPT ![d] = PutDict(dicts[d], entries, n, rewrites)]
    BY PutOne DEF FamilyInvariant
  <2>2. PutDict(dicts[d], entries, n, rewrites) = new
    BY <1>1, <1>3, <1>4, <1>5 DEF PutDict
  <2> QED
    BY <2>1, <2>2
<1>7. global_version' = global_version + n
  BY DEF Put
<1>8. PICK m \in Nat : m = Len(dicts) /\ DOMAIN dicts = 1..m
  BY DEF FamilyInvariant
<1>9. /\ dicts' \in Seq(Dicts) /\ Len(dicts') = m /\ DOMAIN dicts' = 1..m
      /\ dicts'[d] = new /\ \A c \in 1..m : c # d => dicts'[c] = dicts[c]
  <2>1. dicts \in [1..m -> Dicts]
    BY <1>8 DEF FamilyInvariant
  <2>2. dicts' \in [1..m -> Dicts]
    BY <1>6, <2>1
  <2>3. dicts' \in Seq(Dicts) /\ Len(dicts') = m
    BY <2>2
  <2> QED
    BY <1>6, <1>8, <2>2, <2>3
<1>10. \A c \in 1..m : dicts[c].version \in 1..global_version
  BY <1>8 DEF FamilyInvariant
<1>11. new.version = v /\ v \in 1..(global_version + n)
  BY <1>2, <1>3, <1>5
<1>12. ASSUME NEW c \in 1..m PROVE dicts'[c].version \in 1..global_version'
  <2>1. CASE c = d
    BY <1>7, <1>9, <1>11, <2>1
  <2>2. CASE c # d
    <3>1. dicts'[c].version \in 1..global_version
      BY <1>9, <1>10, <2>2
    <3> QED
      BY <1>2, <1>7, <3>1
  <2> QED
    BY <2>1, <2>2
\* Others with the version that d has now had it before, and its items.
<1>13. ASSUME NEW c \in 1..m, c # d, dicts[c].version = v,
              ~ dicts[c].rewritten, ~ new.rewritten
       PROVE  ItemsOf(dicts[c]) = ItemsOf(new)
  <2>1. ~ (n > 0)
    BY <1>2, <1>3, <1>10, <1>13
  <2>2. v = old.version /\ ~ old.rewritten /\ ~ rewrites
    BY <1>2, <1>3, <1>4, <1>5, <1>13, <2>1
  <2>3. ItemsOf(dicts[c]) = ItemsOf(old)
    BY <1>1, <1>8, <1>13, <2>2 DEF FamilyInvariant, SameVersionSameItems
  <2>4. SameItems(new.entries, old.entries)
    BY <1>1, <1>5, <2>1, <2>2
  <2>5. new.entries \in Seq(Settled(new.ci))
    BY DictFields
  <2>6. ItemsOf(new) = ItemsOf(old)
    <3>1. PICK S : new.entries \in Seq(S)
      BY <2>5
    <3>2. PICK T : old.entries \in Seq(T)
      BY <1>2
    <3> QED
      BY <2>4, <3>1, <3>2, ItemsKept
  <2> QED
    BY <2>3, <2>6
<1>14. SameVersionSameItems'
  <2> SUFFICES ASSUME NEW b \in 1..m, NEW c \in 1..m,
                      dicts'[b].version = dicts'[c].version,
                      ~ dicts'[b].rewritten, ~ dicts'[c].rewritten
               PROVE  ItemsOf(dicts'[b]) = ItemsOf(dicts'[c])
    BY <1>9 DEF SameVersionSameItems
  <2>1. CASE b # d /\ c # d
    BY <1>8, <1>9, <2>1 DEF FamilyInvariant, SameVersionSameItems
  <2>2. CASE b = d /\ c # d
    BY <1>9, <1>11, <1>13, <2>2
  <2>3. CASE b # d /\ c = d
    BY <1>9, <1>11, <1>13, <2>3
  <2>4. CASE b = d /\ c = d
    BY <2>4
  <2> QED
    BY <2>1, <2>2, <2>3, <2>4
<1>15. Len(dicts') <= MaxDicts /\ global_version' \in Nat
  BY <1>2, <1>7, <1>8, <1>9 DEF FamilyInvariant
<1> QED
  BY <1>9, <1>12, <1>14, <1>15 DEF FamilyInvariant

\* A call that takes one version.
LEMMA PutAnew ==
  ASSUME FamilyInvariant, NEW d \in DOMAIN dicts, NEW entries,
         entries \in Seq(Settled(dicts[d].ci)), Put(d, entries, 1, FALSE)
  PROVE  FamilyInvariant'
<1>1. PICK n \in Nat : n = 1 /\ n > 0
  OBVIOUS
<1>2. PICK rewrites \in BOOLEAN : rewrites = FALSE
  OBVIOUS
<1>3. Put(d, entries, n, rewrites)
  BY <1>1, <1>2
<1> QED
  BY <1>1, <1>3, PutKept

\* One more multidict has a version of its own, or is another's copy.
LEMMA MakeKept ==
  ASSUME FamilyInvariant, NEW new \in Dicts, NEW n \in Nat, Make(new, n),
         new.version \in 1..(global_version + n),
         new.version > global_version \/ \E d \in DOMAIN dicts : new = dicts[d]
  PROVE  FamilyInvariant'
<1>1. global_version \in Nat /\ dicts' = Append(dicts, new) /\ global_version' = global_version + n
  BY DEF FamilyInvariant, Make
<1>2. PICK m \in Nat : m = Len(dicts) /\ DOMAIN dicts = 1..m /\ m < MaxDicts
  BY DEF FamilyInvariant, Make
<1>3. /\ dicts' \in Seq(Dicts) /\ Len(dicts') = m + 1 /\ DOMAIN dicts' = 1..(m + 1)
      /\ dicts'[m + 1] = new /\ \A c \in 1..m : dicts'[c] = dicts[c]
  BY <1>1, <1>2 DEF FamilyInvariant
<1>4. \A c \in 1..(m + 1) : c \in 1..m \/ c = m + 1
  OBVIOUS
<1>5. \A c \in 1..m : dicts[c].version \in 1..global_version
  BY <1>2 DEF FamilyInvariant
<1>6. ASSUME NEW c \in 1..(m + 1) PROVE dicts'[c].version \in 1..global_version'
  <2>1. CASE c = m + 1
    BY <1>1, <1>3, <2>1
  <2>2. CASE c \in 1..m
    <3>1. dicts'[c].version = dicts[c].version /\ dicts[c].version \in 1..global_version
      BY <1>3, <1>5, <2>2
    <3>2. global_version' = global_version + n /\ global_version \in Nat
      BY <1>1
    <3> QED
      BY <3>1, <3>2
  <2> QED
    BY <1>4, <2>1, <2>2
<1>7. ASSUME NEW c \in 1..m, dicts[c].version = new.version,
             ~ dicts[c].rewritten, ~ new.rewritten
      PROVE  ItemsOf(dicts[c]) = ItemsOf(new)
  <2>1. ~ (new.version > global_version)
    BY <1>1, <1>5, <1>7
  <2>2. PICK d \in DOMAIN dicts : new = dicts[d]
    BY <2>1
  <2> QED
    BY <1>2, <1>7, <2>2 DEF FamilyInvariant, SameVersionSameItems
<1>8. SameVersionSameItems'
  <2> SUFFICES ASSUME NEW b \in 1..(m + 1), NEW c \in 1..(m + 1),
                      dicts'[b].version = dicts'[c].version,
                      ~ dicts'[b].rewritten, ~ dicts'[c].rewritten
               PROVE  ItemsOf(dicts'[b]) = ItemsOf(dicts'[c])
    BY <1>3 DEF SameVersionSameItems
  <2>1. CASE b \in 1..m /\ c \in 1..m
    BY <1>2, <1>3, <2>1 DEF FamilyInvariant, SameVersionSameItems
  <2>2. CASE b = m + 1 /\ c \in 1..m
    BY <1>3, <1>7, <2>2
  <2>3. CASE b \in 1..m /\ c = m + 1
    BY <1>3, <1>7, <2>3
  <2>4. CASE b = m + 1 /\ c = m + 1
    BY <2>4
  <2> QED
    BY <1>4, <2>1, <2>2, <2>3, <2>4
<1>9. Len(dicts') <= MaxDicts /\ global_version' \in Nat
  BY <1>1, <1>2, <1>3, FamilyAssumption
<1> QED
  BY <1>3, <1>6, <1>8, <1>9 DEF FamilyInvariant

-----------------------------------------------------------------------------
(* Every step.                                                             *)

\* A caller's key is a key, made by hand or shown by a multidict.
LEMMA CallerKeysTyped ==
  ASSUME dicts \in Seq(Dicts)
  PROVE  CallerKeys \in SUBSET KeyType
<1>1. \A t \in Texts : Str(t) \in KeyType /\ istr_new(Str(t)) \in KeyType
  BY FamilyAssumption DEF Str, istr_new, IStr_New, KeyType
<1>2. ASSUME NEW d \in DOMAIN dicts, NEW i \in DOMAIN dicts[d].entries,
             IsLive(dicts[d].entries[i])
      PROVE  dicts[d].entries[i].key \in KeyType
  <2>1. dicts[d].ci \in BOOLEAN /\ dicts[d].entries \in Seq(Settled(dicts[d].ci))
    BY DictFields
  <2>2. dicts[d].entries[i] \in Settled(dicts[d].ci)
    BY <2>1
  <2> QED
    BY <1>2, <2>1, <2>2, LiveIsItem
<1>3. ASSUME NEW d \in DOMAIN dicts, NEW f \in ToSet(dicts[d].entries), IsLive(f)
      PROVE  f.key \in KeyType
  BY <1>2, <1>3 DEF ToSet
<1>4. ASSUME NEW key \in CallerKeys PROVE key \in KeyType
  <2>1. CASE key \in {Str(t) : t \in Texts}
    BY <1>1, <2>1
  <2>2. CASE key \in {istr_new(k) : k \in {Str(t) : t \in Texts}}
    BY <1>1, <2>2
  <2>3. CASE key \in {e.key : e \in {f \in UNION {ToSet(dicts[d].entries) : d \in DOMAIN dicts} :
                                        IsLive(f)}}
    BY <1>3, <2>3
  <2> QED
    BY <2>1, <2>2, <2>3 DEF CallerKeys
<1> QED
  BY <1>4

\* Each operation keeps the invariant: add(),
LEMMA AddKept ==
  ASSUME FamilyInvariant, NEW d \in DOMAIN dicts, NEW key \in CallerKeys, NEW value \in Values,
         Add(d, key, value)
  PROVE  FamilyInvariant'
<1>1. PICK old \in Dicts : old = dicts[d]
  BY DEF FamilyInvariant
<1>2. old.ci \in BOOLEAN /\ old.entries \in Seq(Settled(old.ci))
  BY DictFields
<1>3. key \in KeyType
  BY CallerKeysTyped DEF FamilyInvariant
<1>4. PICK identity \in Texts : identity = md_calc_identity(old.ci, key)
  <2>1. PICK text \in Texts : TRUE
    BY <1>3 DEF KeyType
  <2>2. md_calc_identity(old.ci, key) \in Texts
    BY <1>2, <1>3, <2>1, KeyTypes
  <2> QED
    BY <2>2
<1>5. md_calc_identity(old.ci, md_calc_key(old.ci, key, identity)) = identity
  BY <1>2, <1>3, <1>4, OwnIdentityFits
<1>6. PICK e : e = Entry(identity, key, value, FALSE)
  OBVIOUS
<1>7. e \in Settled(old.ci)
  BY <1>2, <1>3, <1>5, <1>6, EntryMade DEF Settled
<1>8. Append(old.entries, e) \in Seq(Settled(old.ci))
  BY <1>2, <1>7
<1>9. Put(d, Append(old.entries, e), 1, FALSE)
  BY <1>1, <1>4, <1>6 DEF Add, _md_add_with_hash
<1> QED
  BY <1>1, <1>8, <1>9, PutAnew

\* __delitem__(),
LEMMA DelItemKept ==
  ASSUME FamilyInvariant, NEW d \in DOMAIN dicts, NEW key, DelItem(d, key)
  PROVE  FamilyInvariant'
<1>1. PICK old \in Dicts : old = dicts[d]
  BY DEF FamilyInvariant
<1>2. old.ci \in BOOLEAN /\ old.entries \in Seq(Settled(old.ci))
  BY DictFields
<1>3. PICK n \in Nat : n = Len(old.entries) /\ DOMAIN old.entries = 1..n
  BY <1>2
<1>4. PICK found : found = Matching(old.entries, md_calc_identity(old.ci, key))
  OBVIOUS
<1> DEFINE new == [i \in 1..n |-> IF i \in found THEN Hole ELSE old.entries[i]]
<1>5. Put(d, new, 1, FALSE)
  BY <1>1, <1>3, <1>4 DEF DelItem
<1>6. \A i \in 1..n : old.entries[i] \in Settled(old.ci) /\ Hole \in Settled(old.ci)
  BY <1>2, <1>3 DEF Settled
<1>7. new \in [1..n -> Settled(old.ci)]
  BY <1>6
<1> HIDE DEF new
<1>8. new \in Seq(Settled(old.ci))
  BY <1>7
<1> QED
  BY <1>1, <1>5, <1>8, PutAnew

\* A read of the keys leaves identities and values.
LEMMA ReadKeysKept ==
  ASSUME FamilyInvariant, NEW d \in DOMAIN dicts, ReadKeys(d)
  PROVE  FamilyInvariant'
<1>1. PICK old \in Dicts : old = dicts[d]
  BY DEF FamilyInvariant
<1>2. old.ci \in BOOLEAN /\ old.entries \in Seq(Settled(old.ci))
  BY DictFields
<1>3. PICK n \in Nat : n = Len(old.entries) /\ DOMAIN old.entries = 1..n
  BY <1>2
<1> DEFINE shown(e) == IF e.key = NULL THEN e
                       ELSE [e EXCEPT !.key = md_calc_key(old.ci, e.key, e.identity)]
           new == [i \in 1..n |-> shown(old.entries[i])]
<1>4. Put(d, new, 0, FALSE)
  BY <1>1, <1>3 DEF ReadKeys
<1>5. ASSUME NEW e \in Settled(old.ci)
      PROVE  /\ shown(e) \in Settled(old.ci)
             /\ shown(e).identity = e.identity /\ shown(e).value = e.value
  <2>1. CASE ~ IsLive(e)
    BY <1>2, <2>1, LiveIsItem
  <2>2. CASE IsLive(e)
    <3>1. /\ e.identity \in Texts /\ e.key \in KeyType /\ e.value \in Values /\ e.key # NULL
          /\ e \in Items(old.ci) /\ Fits(old.ci, e)
      BY <1>2, <2>2, LiveIsItem
    <3>2. PICK key \in KeyType : key = md_calc_key(old.ci, e.key, e.identity)
      BY <1>2, <3>1, KeyTypes
    <3>3. PICK f : f = [e EXCEPT !.key = key]
      OBVIOUS
    <3>4. /\ f \in [identity : Texts, key : KeyType, value : Values, taken : {FALSE}]
          /\ f.key = key /\ f.identity = e.identity /\ f.value = e.value
      BY <3>1, <3>3 DEF Items
    <3>5. md_calc_key(old.ci, key, e.identity) = key
      BY <1>2, <3>1, <3>2 DEF md_calc_key, IStr_New
    <3>6. Fits(old.ci, f)
      BY <3>1, <3>2, <3>4, <3>5 DEF Fits
    <3>7. shown(e) = f
      BY <3>1, <3>2, <3>3
    <3> QED
      BY <3>4, <3>6, <3>7 DEF Items, Settled
  <2> QED
    BY <2>1, <2>2
<1>6. \A i \in 1..n : old.entries[i] \in Settled(old.ci)
  BY <1>2, <1>3
<1> HIDE DEF shown
<1>7. new \in [1..n -> Settled(old.ci)] /\ \A i \in 1..n : new[i] = shown(old.entries[i])
  BY <1>5, <1>6
<1> HIDE DEF new
<1>8. new \in Seq(Settled(old.ci)) /\ Len(new) = n
  BY <1>7
<1>9. SameItems(new, old.entries)
  BY <1>3, <1>5, <1>6, <1>7, <1>8 DEF SameItems
<1> QED
  BY <1>1, <1>4, <1>8, <1>9, PutKept

\* extend(), update() and merge() with another multidict,
LEMMA FromOtherKept ==
  ASSUME FamilyInvariant, NEW d \in DOMAIN dicts, NEW o \in DOMAIN dicts, NEW op \in Ops,
         FromOther(d, o, op)
  PROVE  FamilyInvariant'
<1>1. PICK old \in Dicts : old = dicts[d]
  BY DEF FamilyInvariant
<1>2. PICK other \in Dicts : other = dicts[o]
  BY DEF FamilyInvariant
<1>3. /\ old.ci \in BOOLEAN /\ old.entries \in Seq(Settled(old.ci))
      /\ other.ci \in BOOLEAN /\ other.entries \in Seq(Settled(other.ci))
  BY DictFields
<1>4. PICK new : new = md_update_from_ht(old.entries, old.ci, other, op)
  OBVIOUS
<1>5. Received(new, old.entries, old.ci, op)
  BY <1>3, <1>4, UpdateFromOther
<1>6. new \in Seq(Settled(old.ci)) /\ Len(new) - Len(old.entries) \in Nat
  BY <1>3, <1>5 DEF Received
<1>7. PICK n \in Nat : n = Len(new) - Len(old.entries)
  BY <1>6
<1>8. PICK rewrites \in BOOLEAN : rewrites = (new # old.entries /\ op = "update")
  OBVIOUS
<1>9. Put(d, new, n, rewrites)
  BY <1>1, <1>2, <1>4, <1>7, <1>8 DEF FromOther
<1>10. n > 0 \/ rewrites \/ SameItems(new, old.entries)
  <2>1. CASE op = "update"
    BY <1>8, <2>1 DEF SameItems
  <2>2. CASE op # "update" /\ n = 0
    <3>1. new = old.entries
      BY <1>3, <1>5, <1>6, <1>7, <2>2 DEF Received
    <3> QED
      BY <3>1 DEF SameItems
  <2> QED
    BY <1>7, <2>1, <2>2
<1> QED
  BY <1>1, <1>6, <1>9, <1>10, PutKept

\* the constructor with a multidict,
LEMMA NewFromKept ==
  ASSUME FamilyInvariant, NEW ci \in BOOLEAN, NEW o \in DOMAIN dicts, NewFrom(ci, o)
  PROVE  FamilyInvariant'
<1>1. PICK other \in Dicts : other = dicts[o]
  BY DEF FamilyInvariant
<1>2. other.ci \in BOOLEAN /\ other.entries \in Seq(Settled(other.ci))
  BY DictFields
<1>3. md_len(other) \in Nat
  BY <1>2, LiveCounted DEF md_len
<1>4. PICK n \in Nat : n = 1 + md_len(other) /\ n > 0
  BY <1>3
<1>5. PICK entries : entries = md_update_from_ht(<<>>, ci, other, "extend")
  OBVIOUS
<1>6. entries \in Seq(Settled(ci))
  <2>1. <<>> \in Seq(Settled(ci))
    OBVIOUS
  <2>2. PICK old \in Seq(Settled(ci)) : old = <<>>
    BY <2>1
  <2>3. PICK op \in Ops : op = "extend"
    BY DEF Ops
  <2>4. Received(md_update_from_ht(old, ci, other, op), old, ci, op)
    BY <1>2, UpdateFromOther
  <2> QED
    BY <1>5, <2>2, <2>3, <2>4 DEF Received
<1>7. global_version \in Nat
  BY DEF FamilyInvariant
<1>8. PICK new \in Dicts : new = Fresh(ci, global_version + n, entries)
  <2>1. PICK v \in Nat : v = global_version + n
    BY <1>7
  <2>2. [ci |-> ci, entries |-> entries, version |-> v, rewritten |-> FALSE] \in Dicts
    BY <1>6, DictMade
  <2> QED
    BY <2>1, <2>2 DEF Fresh
<1>9. Make(new, n)
  BY <1>1, <1>4, <1>5, <1>8 DEF NewFrom
<1>10. new.version = global_version + n
  BY <1>8 DEF Fresh
<1>11. new.version \in 1..(global_version + n) /\ new.version > global_version
  BY <1>4, <1>7, <1>10
<1> QED
  BY <1>9, <1>11, MakeKept

\* the constructor without one,
LEMMA NewEmptyKept ==
  ASSUME FamilyInvariant, NEW ci \in BOOLEAN, NewEmpty(ci)
  PROVE  FamilyInvariant'
<1>1. global_version \in Nat
  BY DEF FamilyInvariant
<1>2. PICK new \in Dicts : new = Fresh(ci, global_version + 1, <<>>)
  <2>1. PICK v \in Nat : v = global_version + 1
    BY <1>1
  <2>2. PICK entries \in Seq(Settled(ci)) : entries = <<>>
    <3>1. <<>> \in Seq(Settled(ci))
      OBVIOUS
    <3> QED
      BY <3>1
  <2>3. [ci |-> ci, entries |-> entries, version |-> v, rewritten |-> FALSE] \in Dicts
    BY DictMade
  <2> QED
    BY <2>1, <2>2, <2>3 DEF Fresh
<1>3. new.version = global_version + 1
  BY <1>2 DEF Fresh
<1>4. new.version \in 1..(global_version + 1) /\ new.version > global_version
  BY <1>1, <1>3
<1>5. Make(new, 1)
  BY <1>2 DEF NewEmpty
<1> QED
  BY <1>4, <1>5, MakeKept

\* and copy().
LEMMA CopyKept ==
  ASSUME FamilyInvariant, NEW o \in DOMAIN dicts, Copy(o)
  PROVE  FamilyInvariant'
<1>1. PICK new \in Dicts : new = dicts[o]
  BY DEF FamilyInvariant
<1>2. global_version \in Nat /\ new.version \in 1..global_version
  BY <1>1 DEF FamilyInvariant
<1>3. Make(new, 0) /\ new.version \in 1..(global_version + 0)
  BY <1>1, <1>2 DEF Copy
<1> QED
  BY <1>1, <1>3, MakeKept

\* Every step keeps it.
LEMMA FamilyNextKept == FamilyInvariant /\ [Next]_vars => FamilyInvariant'
<1> SUFFICES ASSUME FamilyInvariant, [Next]_vars PROVE FamilyInvariant'
  OBVIOUS
<1>1. ASSUME NEW ci \in BOOLEAN, NewEmpty(ci) PROVE FamilyInvariant'
  BY <1>1, NewEmptyKept
<1>2. ASSUME NEW ci \in BOOLEAN, NEW o \in DOMAIN dicts, NewFrom(ci, o) PROVE FamilyInvariant'
  BY <1>2, NewFromKept
<1>3. ASSUME NEW d \in DOMAIN dicts, Copy(d) PROVE FamilyInvariant'
  BY <1>3, CopyKept
<1>4. ASSUME NEW d \in DOMAIN dicts, Clear(d) PROVE FamilyInvariant'
  <2>1. PICK entries \in Seq(Settled(dicts[d].ci)) : entries = <<>>
    <3>1. <<>> \in Seq(Settled(dicts[d].ci))
      OBVIOUS
    <3> QED
      BY <3>1
  <2>2. Put(d, entries, 1, FALSE)
    BY <1>4, <2>1 DEF Clear
  <2> QED
    BY <2>2, PutAnew
<1>5. ASSUME NEW d \in DOMAIN dicts, ReadKeys(d) PROVE FamilyInvariant'
  BY <1>5, ReadKeysKept
<1>6. ASSUME NEW d \in DOMAIN dicts, NEW key \in CallerKeys, NEW value \in Values,
             Add(d, key, value)
      PROVE  FamilyInvariant'
  BY <1>6, AddKept
<1>7. ASSUME NEW d \in DOMAIN dicts, NEW key \in CallerKeys, DelItem(d, key)
      PROVE  FamilyInvariant'
  BY <1>7, DelItemKept
<1>8. ASSUME NEW d \in DOMAIN dicts, NEW o \in DOMAIN dicts, NEW op \in Ops, FromOther(d, o, op)
      PROVE  FamilyInvariant'
  BY <1>8, FromOtherKept
<1>9. CASE UNCHANGED vars
  BY <1>9 DEF vars, FamilyInvariant, SameVersionSameItems
<1> QED
  BY <1>1, <1>2, <1>3, <1>4, <1>5, <1>6, <1>7, <1>8, <1>9 DEF Next, Ops

\* So it holds in every state.
LEMMA AlwaysFamilyInvariant == Spec => []FamilyInvariant
<1>1. Init => FamilyInvariant
  BY FamilyAssumption DEF Init, FamilyInvariant, SameVersionSameItems
<1> QED
  BY <1>1, FamilyNextKept, PTL DEF Spec

\* The types, for any kinds and numbers of multidicts: between calls no entry
\* is marked or half deleted, whatever updates and merges came before.
THEOREM FamilyAlwaysTyped == Spec => []FamilyTypeOK
<1>1. FamilyInvariant => FamilyTypeOK
  <2> SUFFICES ASSUME FamilyInvariant PROVE FamilyTypeOK
    OBVIOUS
  <2>1. ASSUME NEW d \in DOMAIN dicts
        PROVE  /\ dicts[d].ci \in BOOLEAN
               /\ dicts[d].version \in 1..global_version
               /\ \A i \in DOMAIN dicts[d].entries :
                    dicts[d].entries[i] \in {Hole} \cup
                      [identity : Texts, key : [istr : BOOLEAN, text : Texts, canonical : Texts],
                       value : Values, taken : {FALSE}]
    <3>1. dicts[d] \in Dicts /\ dicts[d].version \in 1..global_version
      BY DEF FamilyInvariant
    <3>2. dicts[d].ci \in BOOLEAN /\ dicts[d].entries \in Seq(Settled(dicts[d].ci))
      BY <3>1, DictFields
    <3>3. \A i \in DOMAIN dicts[d].entries : dicts[d].entries[i] \in Settled(dicts[d].ci)
      BY <3>2
    <3> QED
      BY <3>1, <3>2, <3>3 DEF Settled, Items, KeyType
  <2>2. Len(dicts) <= MaxDicts
    BY DEF FamilyInvariant
  <2> QED
    BY <2>1, <2>2 DEF FamilyTypeOK
<1> QED
  BY <1>1, AlwaysFamilyInvariant, PTL

\* Whatever multidicts an item goes through, by copies, conversions between the
\* kinds, extend(), update() and merge(), and whenever their keys are read and
\* replaced by istr objects: the key a multidict shows finds the item.
THEOREM KeysAlwaysFindTheirItems == Spec => []KeysFindTheirItems
<1>1. FamilyInvariant => KeysFindTheirItems
  <2> SUFFICES ASSUME FamilyInvariant, NEW d \in DOMAIN dicts,
                      NEW i \in DOMAIN dicts[d].entries,
                      dicts[d].entries[i].identity # NULL
               PROVE  Fits(dicts[d].ci, dicts[d].entries[i])
    BY DEF KeysFindTheirItems, Fits
  <2>1. dicts[d].ci \in BOOLEAN /\ dicts[d].entries \in Seq(Settled(dicts[d].ci))
    BY DictFields DEF FamilyInvariant
  <2>2. dicts[d].entries[i] \in Settled(dicts[d].ci)
    BY <2>1
  <2> QED
    BY <2>1, <2>2, LiveIsItem DEF IsLive
<1> QED
  BY <1>1, AlwaysFamilyInvariant, PTL

\* Two multidicts of one version have the same items, unless an update() has
\* replaced some, which takes no version.
THEOREM SameVersionAlwaysSameItems == Spec => []SameVersionSameItems
<1>1. FamilyInvariant => SameVersionSameItems
  BY DEF FamilyInvariant
<1> QED
  BY <1>1, AlwaysFamilyInvariant, PTL

\* Multidicts compare equal exactly when they list the same items, wherever
\* deleted entries lie in either table.
THEOREM EqAlwaysExact == Spec => []EqExact
<1>1. FamilyInvariant => EqExact
  <2> SUFFICES ASSUME FamilyInvariant, NEW c \in DOMAIN dicts, NEW d \in DOMAIN dicts
               PROVE  md_eq(dicts[c], dicts[d]) <=> ItemsOf(dicts[c]) = ItemsOf(dicts[d])
    BY DEF EqExact
  <2>1. PICK left \in Dicts, right \in Dicts : left = dicts[c] /\ right = dicts[d]
    BY DEF FamilyInvariant
  <2> DEFINE S == Settled(TRUE) \cup Settled(FALSE)
  <2>2. left.entries \in Seq(S) /\ right.entries \in Seq(S)
    <3>1. /\ left.ci \in BOOLEAN /\ left.entries \in Seq(Settled(left.ci))
          /\ right.ci \in BOOLEAN /\ right.entries \in Seq(Settled(right.ci))
      BY DictFields
    <3>2. ASSUME NEW ci \in BOOLEAN, NEW s \in Seq(Settled(ci)) PROVE s \in Seq(S)
      <4>1. PICK n \in Nat : n = Len(s) /\ s \in [1..n -> Settled(ci)]
        OBVIOUS
      <4>2. Settled(ci) \subseteq S
        BY Zenon
      <4> HIDE DEF S
      <4>3. s \in [1..n -> S]
        BY <4>1, <4>2
      <4> QED
        BY <4>3
    <3> QED
      BY <3>1, <3>2
  <2> HIDE DEF S
  <2>3. ItemsOf(left) = ItemsOf(right) <=>
          (md_len(left) = md_len(right) /\ AgreeFrom(left.entries, right.entries, 1, 1))
    BY <2>2, AgreeingItems
  <2>4. md_eq(left, right) <=>
          (left = right \/ (/\ md_len(left) = md_len(right)
                            /\ AgreeFrom(left.entries, right.entries, 1, 1)))
    BY <2>2, EqAgrees
  <2> QED
    BY <2>1, <2>3, <2>4
<1> QED
  BY <1>1, AlwaysFamilyInvariant, PTL

\* A multidict with one item for each spelling equals a dict exactly when that
\* dict has the same keys with the same values.
THEOREM MappingAlwaysExact == Spec => []MappingEqExact
<1>1. FamilyInvariant => MappingEqExact
  <2> SUFFICES ASSUME FamilyInvariant, NEW d \in DOMAIN dicts PROVE
        LET l == Live(dicts[d].entries)
            pairs == {<<l[n].key.text, l[n].value>> : n \in DOMAIN l}
            spelled == {p[1] : p \in pairs}
        IN  Cardinality(spelled) = Len(l) =>
              \A mapping \in UNION {[T -> Values] : T \in {U \in SUBSET Texts : IsFiniteSet(U)}} :
                md_eq_to_mapping(dicts[d], mapping)
                  <=> pairs = {<<t, mapping[t]>> : t \in DOMAIN mapping}
    BY Zenon DEF MappingEqExact
  <2> DEFINE l == Live(dicts[d].entries)
             pairs == {<<l[n].key.text, l[n].value>> : n \in DOMAIN l}
             spelled == {p[1] : p \in pairs}
  <2>1. dicts[d].entries \in Seq(Settled(dicts[d].ci))
    BY DictFields DEF FamilyInvariant
  <2>2. PICK m \in Nat : m = md_len(dicts[d]) /\ DOMAIN l = 1..m /\ Len(l) = m
    <3>1. PICK k \in Nat : k = Cardinality(LiveAt(dicts[d].entries))
      BY <2>1, LiveCounted
    <3>2. DOMAIN l = 1..k
      BY <3>1 DEF Live
    <3>3. Len(l) = k
      BY <3>1, <3>2 DEF Live
    <3> QED
      BY <3>1, <3>2, <3>3 DEF md_len
  <2> HIDE DEF l
  <2>3. spelled = {l[n].key.text : n \in DOMAIN l}
    <3>1. \A n : <<l[n].key.text, l[n].value>>[1] = l[n].key.text
      OBVIOUS
    <3>2. ASSUME NEW n \in DOMAIN l PROVE l[n].key.text \in spelled
      <4>1. <<l[n].key.text, l[n].value>> \in pairs
        OBVIOUS
      <4> HIDE DEF pairs
      <4> QED
        BY <3>1, <4>1
    <3>3. ASSUME NEW t \in spelled PROVE t \in {l[n].key.text : n \in DOMAIN l}
      <4>1. PICK p \in pairs : t = p[1]
        BY <3>3
      <4>2. PICK n \in DOMAIN l : p = <<l[n].key.text, l[n].value>>
        BY <4>1
      <4> QED
        BY <3>1, <4>1, <4>2
    <3> HIDE DEF spelled
    <3> QED
      BY <3>2, <3>3
  <2> SUFFICES ASSUME Cardinality(spelled) = m, NEW U \in SUBSET Texts, IsFiniteSet(U),
                      NEW mapping \in [U -> Values]
               PROVE  md_eq_to_mapping(dicts[d], mapping)
                        <=> pairs = {<<t, mapping[t]>> : t \in DOMAIN mapping}
    BY <2>2 DEF l
  <2>4. md_eq_to_mapping(dicts[d], mapping) <=>
          /\ m = Cardinality(U)
          /\ \A n \in 1..m : l[n].key.text \in U /\ mapping[l[n].key.text] = l[n].value
    BY <2>2 DEF md_eq_to_mapping, l
  <2> DEFINE graph == {<<t, mapping[t]>> : t \in U}
  <2>5. ASSUME m = Cardinality(U),
               \A n \in 1..m : l[n].key.text \in U /\ mapping[l[n].key.text] = l[n].value
        PROVE  pairs = graph
    <3>1. spelled \in SUBSET U
      <4> HIDE DEF spelled
      <4> QED
        BY <2>2, <2>3, <2>5
    <3>2. spelled = U
      <4> HIDE DEF spelled
      <4> QED
        BY <2>5, <3>1, FS_Subset
    <3>3. ASSUME NEW t \in U PROVE \E n \in DOMAIN l : l[n].key.text = t
      <4>1. t \in {l[n].key.text : n \in DOMAIN l}
        BY <2>3, <3>2
      <4> QED
        BY <4>1
    <3>4. pairs \subseteq graph
      BY <2>2, <2>5
    <3>5. graph \subseteq pairs
      BY <2>2, <2>5, <3>3
    <3> QED
      BY <3>4, <3>5
  <2>6. ASSUME pairs = graph
        PROVE  /\ m = Cardinality(U)
               /\ \A n \in 1..m : l[n].key.text \in U /\ mapping[l[n].key.text] = l[n].value
    <3>1. ASSUME NEW n \in 1..m
          PROVE  l[n].key.text \in U /\ mapping[l[n].key.text] = l[n].value
      <4>1. <<l[n].key.text, l[n].value>> \in graph
        BY <2>2, <2>6
      <4> QED
        BY <4>1
    <3>2. ASSUME NEW t \in U PROVE t \in {l[n].key.text : n \in DOMAIN l}
      <4>1. <<t, mapping[t]>> \in pairs
        BY <2>6
      <4> QED
        BY <4>1
    <3>3. spelled = U
      BY <2>2, <2>3, <3>1, <3>2
    <3> QED
      BY <3>1, <3>3
  <2>7. DOMAIN mapping = U
    OBVIOUS
  <2> HIDE DEF pairs, spelled
  <2> QED
    BY <2>4, <2>5, <2>6, <2>7
<1> QED
  BY <1>1, AlwaysFamilyInvariant, PTL
=============================================================================
