------------------------------ MODULE Iteration ------------------------------
(***************************************************************************)
(* Iterators over a C multidict (src/multidict/_multilib/iter.h and        *)
(* md_next in hashtable.h).  An iterator holds a position in the entries   *)
(* and the version of the multidict it was made from; between two of its   *)
(* steps come any calls of HashTable.                                      *)
(***************************************************************************)
EXTENDS HashTable, SequencesExt

CONSTANT Iters          \* the iterator objects

VARIABLE iters          \* what each holds

iterVars == <<vars, iters>>

\* pos and version are md_pos_t.  The rest is history: base is the list of
\* items it was to yield, seen what it has, and crossed says that a step of
\* an extend(), update() or merge() has come in between.
NoIter == [status |-> "none", pos |-> 0, version |-> 0,
           base |-> <<>>, seen |-> <<>>, crossed |-> FALSE]

-----------------------------------------------------------------------------

IterInit ==
  /\ Init
  /\ iters = [it \in Iters |-> NoIter]

\* Variant: the iterator takes a version of its own.
NewIterAhead(it) ==
  /\ iters' = [iters EXCEPT ![it] =
                 [NoIter EXCEPT !.status = "running", !.version = version + 1,
                                !.base = Items]]
  /\ UNCHANGED vars

NewIter(it) ==
  /\ iters' = [iters EXCEPT ![it] =
                 [NoIter EXCEPT !.status = "running", !.version = version,
                                !.base = Items]]
  /\ UNCHANGED vars

\* Where md_next stops: the first entry from pos on that is not deleted.
NextPos(pos) ==
  LET ahead == {i \in Live(keys) : i >= pos}
  IN  IF ahead = {} THEN Max({pos, keys.nentries}) ELSE Min(ahead)

IsCurrent(it) == iters[it].version = version

\* RuntimeError: MultiDict is changed during iteration.
Raise(it) ==
  /\ iters[it].status # "none" /\ ~ IsCurrent(it)
  /\ iters' = [iters EXCEPT ![it].status = "raised"]
  /\ UNCHANGED vars

\* Variant: the position stays.
YieldInPlace(it) ==
  LET pos == NextPos(iters[it].pos)
  IN  /\ iters[it].status # "none" /\ IsCurrent(it)
      /\ pos < keys.nentries
      /\ iters' = [iters EXCEPT ![it].pos = pos,
                                ![it].seen = Append(@, ItemAt(keys, pos))]
      /\ UNCHANGED vars

Yield(it) ==
  LET pos == NextPos(iters[it].pos)
  IN  /\ iters[it].status # "none" /\ IsCurrent(it)
      /\ pos < keys.nentries
      /\ iters' = [iters EXCEPT ![it].pos = pos + 1,
                                ![it].seen = Append(@, ItemAt(keys, pos))]
      /\ UNCHANGED vars

\* StopIteration; the iterator can be asked again.
Stop(it) ==
  LET pos == NextPos(iters[it].pos)
  IN  /\ iters[it].status # "none" /\ IsCurrent(it)
      /\ pos >= keys.nentries
      /\ iters' = [iters EXCEPT ![it].pos = pos, ![it].status = "stopped"]
      /\ UNCHANGED vars

\* A step of the multidict.
Mutate ==
  /\ Next
  /\ iters' = IF Idle /\ bulk' = bulk
                THEN iters
                ELSE [it \in Iters |-> [iters[it] EXCEPT !.crossed = TRUE]]

IterNext ==
  \/ Mutate
  \/ Idle /\ \E it \in Iters : NewIter(it)
  \/ Idle /\ \E it \in Iters : Raise(it)
  \/ Idle /\ \E it \in Iters : Yield(it)
  \/ Idle /\ \E it \in Iters : Stop(it)

IterSpec == IterInit /\ [][IterNext]_iterVars

-----------------------------------------------------------------------------
(* Properties.                                                             *)

IdentitiesIn(list) == [n \in DOMAIN list |-> IdentityOf[list[n].key]]

\* s is t with some elements left out: t, element by element, uses up s.
IsSubsequence(s, t) ==
  LET met[n \in 0..Len(t)] ==
        IF n = 0 THEN 0
        ELSE LET last == met[n - 1]
             IN  IF last < Len(s) /\ s[last + 1] = t[n] THEN last + 1 ELSE last
  IN  met[Len(t)] = Len(s)

\* The type of the iterators; the version one carries is never ahead.
IterTypeOK ==
  \A it \in Iters :
    /\ iters[it].status \in {"none", "running", "stopped", "raised"}
    /\ iters[it].pos \in Nat
    /\ iters[it].version \in 0..version

\* Whatever single calls come in between, compactions included, an iterator
\* that does not raise yields exactly the items it began with, in order: no
\* call moves or removes an entry under a version that still matches.
IterationExact ==
  \A it \in Iters : ~ iters[it].crossed =>
    /\ IsPrefix(iters[it].seen, iters[it].base)
    /\ iters[it].status = "stopped" => iters[it].seen = iters[it].base

\* Bulk calls in between included, no iterator yields an item twice, nor out
\* of order, nor one that was not there when it began: the identities it has
\* yielded are some of those it began with, in their order.
NeverRepeats ==
  \A it \in Iters :
    IsSubsequence(IdentitiesIn(iters[it].seen), IdentitiesIn(iters[it].base))

\* An iterator over a multidict that has the items it had, and that did not
\* raise "MultiDict is changed during iteration" (hashtable.h:615), has
\* yielded them all when it stops.
StopsAtTheEnd ==
  \A it \in Iters :
    iters[it].status = "stopped" /\ Idle /\ Items = iters[it].base
      => iters[it].seen = iters[it].base
=============================================================================
