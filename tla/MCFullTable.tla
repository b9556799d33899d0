----------------------------- MODULE MCFullTable -----------------------------
(***************************************************************************)
(* HashTable started from full tables of 8 or 16 slots.  A history from an *)
(* empty table to such a one is long, and the runs of MCHashTable that     *)
(* have two keys stop before it.  Only here can an update or merge meet a  *)
(* table without room while it holds both a deleted and a half-deleted     *)
(* entry, and so compact it.                                               *)
(*                                                                         *)
(* The tables are those that several calls of add() on a new multidict     *)
(* leave, for some choices of the keys, followed by the deletion of one.   *)
(***************************************************************************)
EXTENDS MCHashTable

CONSTANTS Added         \* the numbers of items added
ASSUME FullAssumption == Added \subseteq Nat \ {0}

\* The table after n calls, when those at the positions of a set add b.
AddedTable(n, ofB) ==
  LET table[m \in 0..n] ==
        IF m = 0 THEN empty_htkeys
        ELSE AddEntry(table[m - 1], m - 1, IF m \in ofB THEN b ELSE a, v1, FALSE)
  IN  table[n]

\* del d[b] on it.
DeletedTable(n, ofB) ==
  LET ks == AddedTable(n, ofB)
  IN  DeleteAt(ks, MatchingSlots(ks, hash_of(b), IdentityOf[b]))

\* One item of b at either end or inside, or one of a at the end.
Positions(n) == {{1}, {n \div 2}, {n}, 1..(n - 1)}

FullInit(at) ==
  \E n \in Added : \E ofB \in Positions(n) :
    /\ keys = DeletedTable(n, ofB)
    /\ used = n - Cardinality(ofB)
    /\ version = at
    /\ ret = [status |-> "ok", list |-> <<>>]
    /\ bulk = NoBulk

\* Bulk arguments that are long, or announce a size, come on large tables.
Scope ==
  \/ Len(bulk.args) <= 1 /\ bulk.hint = 0
  \/ keys.log2_size > HT_LOG_MINSIZE

\* From a new multidict, or from a full one a few versions from the end.
FullSpec ==
  /\ Init \/ FullInit(MaxVersion - 3)
  /\ [][Next /\ Scope']_vars
=============================================================================
