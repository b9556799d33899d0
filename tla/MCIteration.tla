---------------------------- MODULE MCIteration ----------------------------
(***************************************************************************)
(* Iterators over small multidicts, and over the full tables of            *)
(* MCFullTable, which the next addition compacts or replaces.              *)
(***************************************************************************)
EXTENDS MCFullTable, Iteration

CONSTANTS it1

MCIters == {it1}

\* From a new multidict, or a full one and one version from the end.
ScopedSpec ==
  /\ Init \/ FullInit(MaxVersion - 1)
  /\ iters = [it \in Iters |-> NoIter]
  /\ [][IterNext]_iterVars
=============================================================================
