----------------------------- MODULE MCHashTable -----------------------------
(***************************************************************************)
(* HashTable on small instances.  Two key objects share one identity       *)
(* ('a' and 'A' for a case insensitive multidict), a third has another.    *)
(***************************************************************************)
EXTENDS HashTable, TLC

CONSTANTS a, A, b, ida, idb, v1, v2

MCKeys == {a, A, b}
MCKeys2 == {a, b}
MCKeys1 == {a}
MCValues1 == {v1}
MCValues2 == {v1, v2}
MCIdentities == {ida, idb}
MCIdentities1 == {ida}
MCIdentityOf == (a :> ida) @@ (A :> ida) @@ (b :> idb)
MCIdentityOf1 == a :> ida
MCIdentityOf2 == (a :> ida) @@ (b :> idb)

\* In 8 slots both start at slot 0; the path of 224 visits slot 0 twice
\* running, then follows the path of 0.
MCHashColliding == (ida :> 224) @@ (idb :> 0)

MCHashOne == ida :> 224

\* Two identities with one hash.
MCHashEqual == (ida :> 224) @@ (idb :> 224)

ValueSymmetry == Permutations(Values)

\* The items a step leaves, in the table and in a bulk argument.
Held == {ItemAt(keys, i) : i \in Live(keys)} \cup {bulk.args[n] : n \in DOMAIN bulk.args}

\* Either spellings differ and bulk arguments are long, the longer the fewer the
\* items a call began with, or values do and bulk arguments are short.
Narrow ==
  \/ /\ Cardinality({item.value : item \in Held} \ {NULL}) <= 1
     /\ Len(bulk.base) + Len(bulk.args) < MaxVersion
  \/ Len(bulk.args) <= 1 /\ \A item \in Held : item.key # A

NarrowSpec == Init /\ [][Next /\ Narrow']_vars
=============================================================================
