------------------------------- MODULE MCViews -------------------------------
(***************************************************************************)
(* The views of small multidicts: the table is one that add() fills, with  *)
(* or without a deletion, and the operands are all lists of up to MaxElems *)
(* elements over a set of elements.                                        *)
(***************************************************************************)
EXTENDS MCFullTable, ItemsView, KeysView

CONSTANTS
  t1, t2,
  MaxItems,       \* bound on the items of the table
  MaxKeys,        \* the same when they differ in the key only
  MaxElems,       \* bound on the elements of an operand
  Elements        \* what the elements are taken from
ASSUME MCViewsAssumption == {MaxItems, MaxKeys, MaxElems} \subseteq Nat

MCTasks1 == {t1}
MCTasks2 == {t1, t2}

MCElements == Item \cup {NoPair}
MCElementA == [key : {a}, value : {v1}]

Lists(set, n) == UNION {[1..m -> set] : m \in 0..n}
\* Short ones may be iterators, which have no length.
OperandsOf(set) ==
  [elems : Lists(set, MaxElems), oneshot : {FALSE}]
    \cup [elems : Lists(set, 1), oneshot : {TRUE}]
MCKeyOperands == OperandsOf(Keys \cup {NoKey})
MCOperands == OperandsOf(Elements)
MCOperandsSized == [elems : Lists(Elements, MaxElems), oneshot : {FALSE}]

\* The table that holds a list of items.
TableOf(list) ==
  LET table[n \in 0..Len(list)] ==
        IF n = 0 THEN empty_htkeys
        ELSE AddEntry(table[n - 1], n - 1, list[n].key, list[n].value, FALSE)
  IN  table[Len(list)]

StartTable(ks, n_used) ==
  /\ keys = ks /\ used = n_used
  /\ version = 0 /\ bulk = NoBulk
  /\ ret = [status |-> "ok", list |-> <<>>]
  /\ ViewInit /\ KeysInit

\* A list of items, one key of it deleted or none.
SmallInit ==
  \E list \in Lists(Item, MaxItems) \cup Lists([key : Keys, value : {v1}], MaxKeys) :
    \/ StartTable(TableOf(list), Len(list))
    \/ \E key \in Keys :
         LET ks == TableOf(list)
             slots == MatchingSlots(ks, hash_of(key), IdentityOf[key])
         IN  StartTable(DeleteAt(ks, slots), Len(list) - Cardinality(slots))

\* An operation of either view, with no call in between.
ViewsNext ==
  \/ view.op = "none" /\ keys.nentries <= MaxItems /\ ViewNext /\ UNCHANGED view
  \/ tasks[t1].op = "none" /\ KeysNext /\ UNCHANGED <<tasks, damaged>>

ViewsSpec == SmallInit /\ [][ViewsNext]_<<viewVars, view>>

\* Either calls come in between, or the steps of a second operation; the first
\* is then the one with the longest search, over items that differ in the key,
\* and the second one as long or with a search that stops early.
Apart ==
  \/ tasks[t2].op = "none"
  \/ /\ tasks[t1].op = "and1" /\ tasks[t2].op \in {"and1", "contains"}
     /\ \A t \in Tasks : tasks[t].quiet
     /\ \A i \in Live(keys) : keys.entries[i].value = v1

\* Calls come while an operation is under way.
Under == AtRest => vars' = vars

FairViewSpec ==
  /\ SmallInit
  /\ [][ViewNext /\ Under /\ Apart' /\ UNCHANGED view]_<<viewVars, view>>
  /\ ViewFairness

\* A table of 8 slots with no room left.
FilledInit ==
  \E list \in [1..Capacity(HT_LOG_MINSIZE) -> Item] :
    StartTable(TableOf(list), Len(list))

FilledViewSpec == FilledInit /\ [][ViewNext /\ UNCHANGED view]_<<viewVars, view>>
=============================================================================
