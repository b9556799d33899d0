----------------------------- MODULE MCBulkCalls -----------------------------
(***************************************************************************)
(* BulkCalls on small multidicts: the tables of MCFullTable with two items *)
(* of a key or more, and a deleted entry.                                  *)
(***************************************************************************)
EXTENDS MCFullTable, BulkCalls

\* Calls come in the middle of a bulk call only, and long histories on the
\* small tables.
Within ==
  /\ Idle => version = 0 /\ ~ Idle'
  /\ keys.log2_size > HT_LOG_MINSIZE => version' <= 1 /\ Len(bulk'.args) <= 2

WithinSpec ==
  /\ FullInit(0) /\ source = Elsewhere /\ damaged = FALSE
  /\ [][BulkNext /\ Within]_bulkVars
=============================================================================
