------------------------------ MODULE MCFamily ------------------------------
(* Instances of Family: one word in two spellings.                       *)
EXTENDS Family

TwoSpellings == {"A", "a"}

\* Three multidicts have few entries between them, two have all they can.
MaxTotal == 2
Scope ==
  LET entries == [d \in DOMAIN dicts |-> Len(dicts[d].entries)]
  IN  Len(dicts) > 2 => FoldSeq(+, 0, entries) <= MaxTotal

ScopedSpec == Init /\ [][Next /\ Scope']_vars

LowerOf == [t \in Texts |-> IF t = "A" THEN "a" ELSE t]
=============================================================================
