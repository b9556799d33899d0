------------------------------ MODULE MultiDict ------------------------------
(***************************************************************************)
(* What a multidict promises, whatever it is built from: a list of items   *)
(* in insertion order, several of which may have the same identity.  Both  *)
(* implementations (src/multidict/_multidict.c over hashtable.h, and       *)
(* src/multidict/_multidict_py.py) are to behave like this list.  The      *)
(* operations are named for the methods of the Python class.               *)
(***************************************************************************)
EXTENDS Integers, Sequences, FiniteSetsExt

CONSTANTS Keys, Values, IdentityOf

VARIABLES
  items,          \* the list of [key, value] pairs
  ret,            \* what the last call returned or raised
  bulk            \* the argument an extend(), update() or merge() has read

vars == <<items, ret, bulk>>

NoBulk == [op |-> "none", args |-> <<>>]

Id(item) == IdentityOf[item.key]
Item(key, value) == [key |-> key, value |-> value]

Return(status, list) == ret' = [status |-> status, list |-> list]

-----------------------------------------------------------------------------
(* Lists of items.                                                         *)

Has(list, key) == \E n \in DOMAIN list : Id(list[n]) = IdentityOf[key]

PositionsOf(list, key) ==
  {n \in DOMAIN list : Id(list[n]) = IdentityOf[key]}
FirstOf(list, key) == Min(PositionsOf(list, key))

\* The part of a list at the positions of a set, and the rest of it.
AtPositions(list, positions) ==
  [n \in 1..Cardinality(positions) |->
     list[CHOOSE p \in positions :
            Cardinality({q \in positions : q <= p}) = n]]
Without(list, positions) == AtPositions(list, DOMAIN list \ positions)

ValuesOf(list, key) ==
  LET own == AtPositions(list, PositionsOf(list, key))
  IN  [n \in DOMAIN own |-> own[n].value]

\* list[n] is the Rank-th item of its identity.
Rank(list, n) ==
  Cardinality({m \in 1..n : Id(list[m]) = Id(list[n])})

\* The argument that takes the place of list[n], if there is one: the n-th of
\* an identity takes that of the n-th item of it.
TakerOf(list, args, n) ==
  {m \in DOMAIN args : /\ Id(args[m]) = Id(list[n])
                       /\ Rank(args, m) = Rank(list, n)}

\* The arguments left over.
Extra(list, args) ==
  {m \in DOMAIN args :
     Rank(args, m) > Cardinality(PositionsOf(list, args[m].key))}

\* update(): the arguments left over are appended in order, and the items left
\* over are dropped.
Updated(list, args) ==
  LET taken == [n \in DOMAIN list |->
                  IF TakerOf(list, args, n) = {} THEN list[n]
                  ELSE args[CHOOSE m \in TakerOf(list, args, n) : TRUE]]
      dropped == {n \in DOMAIN list : /\ Has(args, list[n].key)
                                      /\ TakerOf(list, args, n) = {}}
  IN  Without(taken, dropped) \o AtPositions(args, Extra(list, args))

\* merge(): only the identities the list lacks are taken.
Lacking(list, args) == {m \in DOMAIN args : ~ Has(list, args[m].key)}

Merged(list, args) == list \o AtPositions(args, Lacking(list, args))

Result(op, list, args) ==
  CASE op = "extend" -> list \o args
    [] op = "update" -> Updated(list, args)
    [] op = "merge" -> Merged(list, args)

-----------------------------------------------------------------------------

Init ==
  /\ items = <<>>
  /\ ret = [status |-> "ok", list |-> <<>>]
  /\ bulk = [NoBulk EXCEPT !.op = "extend"]

Idle == bulk.op = "none"

Add(key, value) ==
  /\ items' = Append(items, Item(key, value))
  /\ Return("ok", <<>>)

SetItem(key, value) ==
  /\ items' = IF Has(items, key)
                THEN LET first == FirstOf(items, key)
                     IN  Without([items EXCEPT ![first] = Item(key, value)],
                                 PositionsOf(items, key) \ {first})
                ELSE Append(items, Item(key, value))
  /\ Return("ok", <<>>)

DelItem(key) ==
  /\ Has(items, key)
  /\ items' = Without(items, PositionsOf(items, key))
  /\ Return("ok", <<>>)

SetDefault(key, value) ==
  IF Has(items, key)
    THEN /\ Return("ok", <<items[FirstOf(items, key)].value>>)
         /\ UNCHANGED items
    ELSE /\ items' = Append(items, Item(key, value))
         /\ Return("ok", <<value>>)

PopOne(key) ==
  /\ Has(items, key)
  /\ items' = Without(items, {FirstOf(items, key)})
  /\ Return("ok", <<items[FirstOf(items, key)].value>>)

PopAll(key) ==
  /\ Has(items, key)
  /\ items' = Without(items, PositionsOf(items, key))
  /\ Return("ok", ValuesOf(items, key))

PopItem ==
  /\ items # <<>>
  /\ items' = Without(items, {Len(items)})
  /\ Return("ok", <<items[Len(items)]>>)

Clear ==
  /\ items' = <<>>
  /\ Return("ok", <<>>)

\* The keyed calls raise KeyError only for a key that is missing.
Missing ==
  /\ UNCHANGED items
  /\ \/ items = <<>> /\ Return("KeyError", <<>>)
     \/ \E key \in Keys : ~ Has(items, key) /\ Return("KeyError", <<key>>)

OutOfMemory == Return("MemoryError", <<>>) /\ UNCHANGED items

Begin(op) ==
  /\ bulk' = [op |-> op, args |-> <<>>]
  /\ Return("ok", <<>>)
  /\ UNCHANGED items

Take(key, value) ==
  /\ bulk' = [bulk EXCEPT !.args = Append(@, Item(key, value))]
  /\ UNCHANGED <<items, ret>>

\* A bulk call that fails keeps the items it had taken.
End ==
  /\ items' = Result(bulk.op, items, bulk.args)
  /\ \E status \in {"ok", "error"} : Return(status, <<>>)
  /\ bulk' = NoBulk

Call ==
  \/ \E key \in Keys :
       \/ \E value \in Values : \/ Add(key, value)
                                \/ SetItem(key, value)
                                \/ SetDefault(key, value)
       \/ DelItem(key)
       \/ PopOne(key)
       \/ PopAll(key)
  \/ PopItem
  \/ Clear
  \/ Missing
  \/ OutOfMemory

Next ==
  \/ Idle /\ Call /\ UNCHANGED bulk
  \/ Idle /\ \E op \in {"extend", "update", "merge"} : Begin(op)
  \/ ~ Idle /\ \E key \in Keys, value \in Values : Take(key, value)
  \/ ~ Idle /\ End

Spec == Init /\ [][Next]_vars
=============================================================================
