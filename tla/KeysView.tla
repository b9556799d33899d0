------------------------------ MODULE KeysView ------------------------------
(***************************************************************************)
(* The keys view of a C multidict (src/multidict/_multilib/views.h): its   *)
(* set operations, containment and disjointness.  A step takes one element *)
(* of the other operand.  No code but that of the other operand's iterator *)
(* runs in the middle of an operation: md_contains needs no finder and     *)
(* compares exact strings only.                                            *)
(***************************************************************************)
EXTENDS HashTable, SequencesExt

CONSTANTS
  KeyOps,         \* the operations
  KeyOperands,    \* the operands other than the view
  NoKey           \* an element that is no str

ASSUME KeysViewAssumption ==
  /\ KeyOps \subseteq {"and1", "and2", "or1", "or2", "sub1", "sub2", "xor",
                    "contains", "isdisjoint"}
  /\ \A other \in KeyOperands :
       other \in [elems : Seq(Keys \cup {NoKey}), oneshot : BOOLEAN]
  /\ NoKey \notin Keys

VARIABLE view       \* the operation under way, or the last one

keysVars == <<vars, view>>

\* phase is the loop the operation is in: that of the function of the same
\* name, "sub1" and then "sub2" for xor.  rest are the elements not taken yet,
\* identities is tmp_set, kept the first half of xor.
NoView == [op |-> "none", phase |-> "none", pc |-> "done", other |-> NoKey,
           rest |-> <<>>, identities |-> {}, kept |-> {}, result |-> {}, answer |-> NULL]

Once(list) == SetToSeq(ToSet(list))

\* set(d.keys())
KeySet == {keys.entries[i].key : i \in Live(keys)}

IsContained(key) == key # NoKey /\ md_contains(keys, key)

\* Variant: the last match.
LastStoredKey(key) ==
  keys.entries[Max({keys.indices[s] :
    s \in MatchingSlots(keys, hash_of(key), IdentityOf[key])})].key

\* What md_contains returns in pret: the key as the first item has it.
StoredKey(key) ==
  keys.entries[keys.indices[FirstMatch(keys, hash_of(key), IdentityOf[key])]].key

-----------------------------------------------------------------------------
(* What each function makes of its result set with an element.             *)

\* Variant: its identity.
keysview_and1Identity(result, key) ==
  IF IsContained(key) THEN result \cup {IdentityOf[key]} ELSE result

\* The key as the multidict has it.
keysview_and1(result, key) ==
  IF IsContained(key) THEN result \cup {StoredKey(key)} ELSE result

\* As the other operand has it.
keysview_and2(result, key) == IF IsContained(key) THEN result \cup {key} ELSE result

\* Variant: an element that is no str is skipped, as in &.
keysview_or1Skips(result, key) ==
  IF IsContained(key) \/ key = NoKey THEN result ELSE result \cup {key}

keysview_or1(result, key) == IF IsContained(key) THEN result ELSE result \cup {key}

\* Only the first spelling is discarded.
keysview_sub1(result, key) ==
  IF IsContained(key) THEN result \ {StoredKey(key)} ELSE result

keysview_sub2(result, key) == IF IsContained(key) THEN result \ {key} ELSE result

Adding(phase, result, key) ==
  CASE phase = "and1" -> keysview_and1(result, key)
    [] phase = "and2" -> keysview_and2(result, key)
    [] phase = "or1" -> keysview_or1(result, key)
    [] phase = "sub1" -> keysview_sub1(result, key)
    [] phase = "sub2" -> keysview_sub2(result, key)
    [] OTHER -> result

-----------------------------------------------------------------------------

\* or2 iterates the set it has made of the other operand.
BeginOr2(other) ==
  [phase |-> "or2", rest |-> Once(other.elems), result |-> ToSet(other.elems)]

\* sub2 has the iterator before it makes the set: the set takes all of an
\* operand that is an iterator itself.
BeginSub2(other) ==
  [phase |-> "sub2", rest |-> IF other.oneshot THEN <<>> ELSE other.elems,
   result |-> ToSet(other.elems)]

BeginXor(other) ==
  [phase |-> "sub1", rest |-> Once(other.elems), result |-> KeySet]

\* The dispatch on the operation, and the set it begins with.
StartKeys(op, other) ==
  CASE op \in {"or1", "sub1"} ->
         [phase |-> op, rest |-> other.elems, result |-> KeySet]
    [] op = "or2" -> BeginOr2(other)
    [] op = "sub2" -> BeginSub2(other)
    [] op = "xor" -> BeginXor(other)
    [] OTHER -> [phase |-> op, rest |-> other.elems, result |-> {}]

BeginKeys(op, other) ==
  LET start == StartKeys(op, other)
  IN  /\ view.op = "none"
      /\ op = "contains" => Len(other.elems) = 1
      /\ view' = [NoView EXCEPT !.op = op, !.phase = start.phase, !.pc = "next",
                                !.other = other, !.rest = start.rest,
                                !.result = start.result]

\* contains and isdisjoint stop at the first key that is there.
TakeKey ==
  LET key == Head(view.rest)
      taken == [view EXCEPT !.rest = Tail(@),
                            !.result = Adding(view.phase, @, key)]
  IN  /\ view.pc = "next" /\ view.rest # <<>>
      /\ view' =
           CASE view.phase \in {"contains", "isdisjoint"} /\ IsContained(key) ->
                  [taken EXCEPT !.pc = "done",
                                !.answer = view.phase = "contains"]
             [] view.phase = "or2" /\ key # NoKey ->
                  [taken EXCEPT !.identities = @ \cup {IdentityOf[key]}]
             [] OTHER -> taken

\* The other operand is exhausted.  or2 adds the keys it has not met.
KeysEnd ==
  /\ view.pc = "next" /\ view.rest = <<>>
  /\ view' =
       CASE view.op = "xor" /\ view.phase = "sub1" ->
              [view EXCEPT !.phase = "sub2", !.rest = Once(view.other.elems),
                           !.kept = view.result, !.result = ToSet(view.other.elems)]
         [] view.op = "xor" /\ view.phase = "sub2" ->
              [view EXCEPT !.pc = "done", !.result = @ \cup view.kept]
         [] view.phase = "or2" ->
              [view EXCEPT !.pc = "done", !.result = @ \cup
                 {key \in KeySet : IdentityOf[key] \notin view.identities}]
         [] view.phase \in {"contains", "isdisjoint"} ->
              [view EXCEPT !.pc = "done", !.answer = view.phase = "isdisjoint"]
         [] OTHER -> [view EXCEPT !.pc = "done"]

KeysFail ==
  /\ view.pc = "next"
  /\ view' = [view EXCEPT !.pc = "raised"]

KeysInit == view = NoView

KeysNext ==
  /\ \/ \E op \in KeyOps, other \in KeyOperands : BeginKeys(op, other)
     \/ TakeKey \/ KeysEnd
     \/ KeysFail
  /\ UNCHANGED vars

\* One operation, on a multidict that any calls have filled and that no update
\* under way has left marks in.
KeysSpec ==
  /\ Init /\ KeysInit
  /\ [][\/ view.op = "none" /\ Next /\ UNCHANGED view
        \/ Idle /\ KeysNext]_keysVars

-----------------------------------------------------------------------------
(* Properties.                                                             *)

IdentitiesOf(elems) == {IdentityOf[key] : key \in elems \ {NoKey}}

\* The elements whose identity is that of a key in another set.
KeysWithin(set, other) ==
  {key \in set \ {NoKey} : IdentityOf[key] \in IdentitiesOf(other)}
KeysOutside(set, other) == set \ KeysWithin(set, other)

\* The set each operation is to return.
KeysResult(op, own, other) ==
  CASE op = "and1" -> KeysWithin(own, other)
    [] op = "and2" -> KeysWithin(other, own)
    [] op = "or1" -> own \cup KeysOutside(other, own)
    [] op = "or2" -> other \cup KeysOutside(own, other)
    [] op = "sub1" -> KeysOutside(own, other)
    [] op = "sub2" -> KeysOutside(other, own)
    [] op = "xor" -> KeysOutside(own, other) \cup KeysOutside(other, own)
    [] OTHER -> {}

IsExact ==
  LET own == KeySet
      other == ToSet(view.other.elems)
  IN  /\ view.result = KeysResult(view.op, own, other)
      /\ view.op = "contains" => view.answer = (KeysWithin(other, own) # {})
      /\ view.op = "isdisjoint" => view.answer = (KeysWithin(other, own) = {})

\* The type of the operation, and that what a set operation returns are keys
\* of the multidict or elements of the operand.
KeysTypeOK ==
  /\ view.pc \in {"next", "done", "raised"}
  /\ view.op # "none" => view.result \subseteq KeySet \cup ToSet(view.other.elems)
  /\ view.answer \in BOOLEAN \cup {NULL}

\* Each operation returns what the set operation of its name does, up to the
\* case of the keys, however the keys of the other operand are spelled and
\* whatever has been deleted.  (With one spelling of each key in the multidict,
\* and no iterator on the left of -.)
KeysExact ==
  view.op # "none" /\ view.pc = "done"
    /\ (\A k, l \in KeySet : IdentityOf[k] = IdentityOf[l] => k = l)
    /\ ~ (view.op = "sub2" /\ view.other.oneshot)
    => IsExact

\* The key of the first item that has the identity of a key.
FirstSpelling(key) ==
  keys.entries[Min({i \in Live(keys) : keys.entries[i].identity = IdentityOf[key]})].key

\* With several spellings, the operations that name a key of the multidict
\* name the one of its first item, however the probe meets them.
FirstSpellingOnly ==
  view.op # "none" /\ view.pc = "done" =>
    LET first == {FirstSpelling(k) : k \in KeysWithin(ToSet(view.other.elems), KeySet)}
    IN  /\ view.op = "and1" => view.result = first
        /\ view.op = "sub1" => view.result = KeySet \ first
=============================================================================
