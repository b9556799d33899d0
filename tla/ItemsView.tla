------------------------------ MODULE ItemsView ------------------------------
(***************************************************************************)
(* The items view of a C multidict (src/multidict/_multilib/views.h): its  *)
(* set operations, comparisons, containment and disjointness.              *)
(*                                                                         *)
(* These are the functions that call back into Python in the middle of a   *)
(* search: the iterator of the other operand, the __eq__ of a value and    *)
(* the hash of an item may run any code, calls on the same multidict       *)
(* included.  A step is what C does from one such callback to the next, so *)
(* between two steps of an operation come other calls.                     *)
(*                                                                         *)
(* An element of an operand is an item or NoPair, an object that no key of *)
(* the multidict can be read from: not a pair, or its key is no str.       *)
(***************************************************************************)
EXTENDS HashTable, SequencesExt

CONSTANTS
  Tasks,          \* those who run operations: a thread, or a callback in one
  Ops,            \* the operations they run
  Operands,       \* the operands other than the view
  Nested,         \* the kinds of calls that come in between
  NoPair

Item == [key : Keys, value : Values]

Comparisons == {"lt", "le", "eq", "ne", "gt", "ge"}

ASSUME ItemsViewAssumption ==
  /\ Ops \subseteq {"and1", "and2", "or1", "or2", "sub1", "sub2", "xor",
                    "contains", "isdisjoint"} \cup Comparisons
  /\ \A other \in Operands :
       other \in [elems : Seq(Item \cup {NoPair}), oneshot : BOOLEAN]
  /\ Nested \subseteq {"plain", "finder"}
  /\ NoPair \notin Item

VARIABLES
  tasks,          \* the operation each task runs, or has run: it runs one
  damaged         \* history: the table was rebuilt, or searched by another
                  \* finder, while a finder had entries of it marked

viewVars == <<vars, tasks, damaged>>

\* phase is the loop the operation is in: that of the function of the same
\* name, "le" or "ge" for the comparisons, "sub1" and then "sub2" for xor.
\* rest are the elements not yet taken, arg the one taken, found the item
\* that md_find_next returned; step, version and log2 are the finder's (its
\* position, and what it compares with the multidict); pos is md_pos_t's;
\* pairs is tmp_set.  The rest is history: the items at the begin, whether
\* a call has come in between, what the result should be, and the entries the
\* finder has returned in this search.
NoTask == [op |-> "none", phase |-> "none", pc |-> "done",
           other |-> NoPair, rest |-> <<>>, arg |-> NoPair, found |-> NoPair,
           step |-> 0, version |-> 0, log2 |-> 0, pos |-> 0,
           pairs |-> {}, result |-> {}, answer |-> NULL,
           base |-> <<>>, quiet |-> TRUE, want |-> {}, visited |-> <<>>]

Become(t, x) == tasks' = [tasks EXCEPT ![t] = x]

-----------------------------------------------------------------------------
(* What each function does on an event of its search for an element: a     *)
(* value found is equal, no value was (missed), or the element is no pair. *)
(* Some elements are added to its result, and it goes on with the search   *)
(* or the next element, or has its answer.                                 *)

Then(adds, next) == [adds |-> adds, next |-> next]

\* The stored item is in the result.
and1(x, event) ==
  IF event = "equal" THEN Then({x.found}, "search") ELSE Then({}, "next")

\* Variant: under its identity.
and2Identity(x, event) ==
  IF event = "equal"
    THEN Then({[key |-> IdentityOf[x.arg.key], value |-> x.found.value]}, "search")
    ELSE Then({}, "next")

\* The stored value under the key of the other operand is.
and2(x, event) ==
  IF event = "equal"
    THEN Then({[key |-> x.arg.key, value |-> x.found.value]}, "search")
    ELSE Then({}, "next")

\* Variant: an element that is no pair is skipped.
or1Skips(x, event) ==
  IF event # "missed" THEN Then({}, "next") ELSE Then({x.arg}, "next")

or1(x, event) ==
  IF event = "equal" THEN Then({}, "next") ELSE Then({x.arg}, "next")

sub2(x, event) ==
  IF event = "equal" THEN Then({}, "next") ELSE Then({x.arg}, "next")

contains(event) == Then({}, IF event = "equal" THEN "true" ELSE "false")

isdisjoint(event) == Then({}, IF event = "equal" THEN "false" ELSE "next")

\* For >= and >, each element of the other operand has to be in the view.
ge(event) == Then({}, IF event = "equal" THEN "next" ELSE "false")

Searching == {"and1", "and2", "or1", "sub2", "contains", "isdisjoint", "ge"}
Collecting == {"or2", "sub1"}

On(x, event) == CASE x.phase = "and1" -> and1(x, event)
                  [] x.phase = "and2" -> and2(x, event)
                  [] x.phase = "or1" -> or1(x, event)
                  [] x.phase = "sub2" -> sub2(x, event)
                  [] x.phase = "contains" -> contains(event)
                  [] x.phase = "isdisjoint" -> isdisjoint(event)
                  [] x.phase = "ge" -> ge(event)

\* != is the negation of ==.
Answer(x, yes) ==
  [x EXCEPT !.pc = "done", !.answer = IF x.op = "ne" THEN ~ yes ELSE yes]

Follow(x, then) ==
  LET y == [x EXCEPT !.result = @ \cup then.adds]
  IN  CASE then.next = "next" -> [y EXCEPT !.pc = "next"]
        [] then.next = "true" -> Answer(y, TRUE)
        [] then.next = "false" -> Answer(y, FALSE)

SetOf(list) == SetToSeq(ToSet(list))

\* Variant: xor begins the second loop at the end of each.
FinishAgain(x) ==
  CASE x.op = "xor" ->
         [x EXCEPT !.phase = "sub2", !.rest = SetOf(x.other.elems), !.pc = "next"]
    [] x.phase \in {"le", "ge", "isdisjoint"} -> Answer(x, TRUE)
    [] OTHER -> [x EXCEPT !.pc = "done"]

\* The loop is over.  xor subtracts the other way round.
Finish(x) ==
  CASE x.op = "xor" /\ x.phase = "sub1" ->
         [x EXCEPT !.phase = "sub2", !.rest = SetOf(x.other.elems), !.pc = "next"]
    [] x.phase \in {"le", "ge", "isdisjoint"} -> Answer(x, TRUE)
    [] OTHER -> [x EXCEPT !.pc = "done"]

-----------------------------------------------------------------------------
(* Beginning.                                                              *)

\* or2 makes a set of the other operand and then iterates it once more: an
\* iterator has nothing left by then.
itemsview_or2(other) ==
  [phase |-> "or2", rest |-> IF other.oneshot THEN <<>> ELSE other.elems,
   result |-> ToSet(other.elems)]

itemsview_xor(other) ==
  [phase |-> "sub1", rest |-> SetOf(other.elems), result |-> {}]

itemsview_or1(other) ==
  [phase |-> "or1", rest |-> other.elems, result |-> ToSet(Items)]

\* The dispatch on the operation, and the sets it begins with.
Start(op, other) ==
  CASE op = "or1" -> itemsview_or1(other)
    [] op = "or2" -> itemsview_or2(other)
    [] op = "xor" -> itemsview_xor(other)
    [] op \in {"lt", "le", "eq", "ne"} ->
         [phase |-> "le", rest |-> <<>>, result |-> {}]
    [] op \in {"gt", "ge"} -> [phase |-> "ge", rest |-> other.elems, result |-> {}]
    [] OTHER -> [phase |-> op, rest |-> other.elems, result |-> {}]

\* Variant: those of an equality do not.
OrderRuledOut(op, n) == CASE op = "lt" -> used >= n
                          [] op = "le" -> used > n
                          [] op = "gt" -> used <= n
                          [] op = "ge" -> used < n
                          [] OTHER -> FALSE

\* The lengths decide a comparison.
RuledOut(op, n) == CASE op = "lt" -> used >= n
                     [] op = "le" -> used > n
                     [] op \in {"eq", "ne"} -> used # n
                     [] op = "gt" -> used <= n
                     [] op = "ge" -> used < n
                     [] OTHER -> FALSE

\* A comparison needs the length of the operand; x in d.items() has one
\* element to look for.
Begin(t, op, other) ==
  LET start == Start(op, other)
      x == [NoTask EXCEPT
              !.op = op, !.phase = start.phase, !.rest = start.rest,
              !.result = start.result, !.version = version,
              !.pc = IF start.phase = "le" THEN "own" ELSE "next",
              !.other = other, !.base = Items, !.want = start.result]
  IN  /\ tasks[t].op = "none"
      /\ op \in Comparisons => ~ other.oneshot
      /\ op = "contains" => Len(other.elems) = 1
      /\ Become(t, IF RuledOut(op, Len(other.elems)) THEN Answer(x, FALSE) ELSE x)
      /\ UNCHANGED <<vars, damaged>>

-----------------------------------------------------------------------------
(* Searching for the items of an element's key.                            *)

\* Variant: the version is not compared.
IsOtherTable(x) == x.log2 # keys.log2_size

\* What md_find_next compares: finder->iter.keys with md->keys, finder->version
\* with md->version.  A new key table has another size when the version stays.
IsStale(x) == x.version # version \/ x.log2 # keys.log2_size

\* The call of md_find_next.
Found(x) == md_find_next([keys |-> keys, step |-> x.step, list |-> <<>>,
                          hash |-> hash_of(x.arg.key),
                          identity |-> IdentityOf[x.arg.key]])

Clean(x) == md_finder_cleanup(keys, hash_of(x.arg.key))

\* RuntimeError: MultiDict is changed during iteration.
SearchRaises(t, x) ==
  /\ IsStale(x)
  /\ keys' = Clean(x)
  /\ Become(t, [x EXCEPT !.pc = "raised"])

SearchFinds(t, x, next) ==
  LET i == IndexAt(keys, hash_of(x.arg.key), next.step)
  IN  /\ ~ IsStale(x) /\ next.list # <<>>
      /\ keys' = next.keys
      /\ Become(t, [x EXCEPT !.pc = "eq", !.step = next.step,
                             !.found = ItemAt(keys, i),
                             !.visited = Append(@, i)])

SearchEnds(t, x, next) ==
  /\ ~ IsStale(x) /\ next.list = <<>>
  /\ keys' = Clean(x)
  /\ Become(t, Follow(x, On(x, "missed")))

\* The finder goes on from where it is.
Search(t, x) ==
  \E next \in {Found(x)} :
    SearchRaises(t, x) \/ SearchFinds(t, x, next) \/ SearchEnds(t, x, next)

-----------------------------------------------------------------------------
(* What the properties compare a result with.                              *)

\* Two items are the same for a set operation: one identity, equal values.
SameItem(e, f) ==
  /\ e # NoPair /\ f # NoPair
  /\ IdentityOf[e.key] = IdentityOf[f.key] /\ e.value = f.value

\* The elements of a set with a same one in another, and those without.
Within(set, other) == {e \in set : \E f \in other : SameItem(e, f)}
Outside(set, other) == set \ Within(set, other)

\* What the element just taken should add, for the items of this moment; the
\* functions that only answer are to have seen the elements that are items.
Wanted(x) ==
  CASE x.phase = "and1" -> Within(ToSet(Items), {x.arg})
    [] x.phase \in {"or1", "sub2"} -> Outside({x.arg}, ToSet(Items))
    [] x.phase \in Collecting -> {}
    [] OTHER -> Within({x.arg}, ToSet(Items))

\* What the items of this moment should add to what or2 and sub1 began with.
WantedOwn(x) ==
  {e \in ToSet(Items) : <<IdentityOf[e.key], e.value>> \notin x.pairs}

-----------------------------------------------------------------------------
(* The steps of an operation.                                              *)

\* The other operand's iterator returned an element.
TakeElement(t) ==
  /\ tasks[t].pc = "next" /\ tasks[t].rest # <<>>
  /\ \E x \in {[tasks[t] EXCEPT !.arg = Head(tasks[t].rest), !.rest = Tail(@),
                               !.step = 0, !.version = version,
                               !.log2 = keys.log2_size, !.visited = <<>>,
                               !.want = @ \cup Wanted([tasks[t] EXCEPT
                                          !.arg = Head(tasks[t].rest)])]} :
       \/ /\ x.arg = NoPair
          /\ Become(t, IF x.phase \in Collecting
                         THEN x ELSE Follow(x, On(x, "nopair")))
          /\ UNCHANGED keys
       \/ /\ x.arg # NoPair /\ x.phase \in Collecting
          /\ Become(t, [x EXCEPT !.pairs =
                          @ \cup {<<IdentityOf[x.arg.key], x.arg.value>>}])
          /\ UNCHANGED keys
       \/ /\ x.arg # NoPair /\ x.phase \in Searching
          /\ Search(t, x)

\* It is exhausted.
ElementsEnd(t) ==
  LET x == tasks[t]
  IN  /\ x.pc = "next" /\ x.rest = <<>>
      /\ Become(t, IF x.phase \in Collecting
                     THEN [x EXCEPT !.pc = "own", !.pos = 0, !.version = version,
                                    !.want = @ \cup WantedOwn(x)]
                     ELSE Finish(x))
      /\ UNCHANGED keys

\* It raised.
ElementRaises(t) ==
  /\ tasks[t].pc = "next"
  /\ Become(t, [tasks[t] EXCEPT !.pc = "raised"])
  /\ UNCHANGED keys

\* Variant: the finder is left as it is when the search stops early.
StopUnclean(t) ==
  LET x == tasks[t]
      then == On(x, "equal")
  IN  /\ then.next # "search"
      /\ UNCHANGED keys
      /\ Become(t, Follow(x, then))

\* The values were equal and the search stops.
StopSearch(t) ==
  LET x == tasks[t]
      then == On(x, "equal")
  IN  /\ then.next # "search"
      /\ keys' = Clean(x)
      /\ Become(t, Follow(x, then))

\* The comparison of the element's value with the one found has returned.
Compared(t) ==
  LET x == tasks[t]
      then == On(x, "equal")
  IN  /\ x.pc = "eq"
      /\ \/ x.arg.value # x.found.value /\ Search(t, x)
         \/ /\ x.arg.value = x.found.value
            /\ \/ StopSearch(t)
               \/ /\ then.next = "search"
                  /\ Search(t, [x EXCEPT !.result = @ \cup then.adds])

\* It raised.
CompareRaises(t) ==
  /\ tasks[t].pc = "eq"
  /\ keys' = Clean(tasks[t])
  /\ Become(t, [tasks[t] EXCEPT !.pc = "raised"])

OwnUnchanged(x) == x.version = version

\* Where md_next stops.
OwnPos(x) ==
  LET ahead == {i \in Live(keys) : i >= x.pos}
  IN  IF ahead = {} THEN keys.nentries ELSE Min(ahead)

\* The next item of the multidict itself: <= and < look for it in the other
\* operand, or2 and sub1 add it unless they collected it.
OwnNext(t) ==
  LET x == tasks[t]
      pos == OwnPos(x)
      item == ItemAt(keys, pos)
      y == [x EXCEPT !.pos = pos + 1]
  IN  /\ x.pc = "own" /\ OwnUnchanged(x) /\ pos < keys.nentries
      /\ Become(t,
           CASE x.phase = "le" ->
                  IF item \in ToSet(x.other.elems) THEN y ELSE Answer(x, FALSE)
             [] <<IdentityOf[item.key], item.value>> \in x.pairs -> y
             [] OTHER -> [y EXCEPT !.result = @ \cup {item}])
      /\ UNCHANGED keys

OwnEnd(t) ==
  LET x == tasks[t]
  IN  /\ x.pc = "own" /\ OwnUnchanged(x) /\ OwnPos(x) >= keys.nentries
      /\ Become(t, Finish(x))
      /\ UNCHANGED keys

\* RuntimeError: MultiDict is changed during iteration.
OwnRaises(t) ==
  /\ tasks[t].pc = "own" /\ ~ OwnUnchanged(tasks[t])
  /\ Become(t, [tasks[t] EXCEPT !.pc = "raised"])
  /\ UNCHANGED keys

\* A step of one operation, with the marks of another one in the table.
Unaided(t) ==
  /\ damaged' = (damaged \/ (keys' # keys /\ \E u \in Tasks \ {t} : tasks[u].pc = "eq"))
  /\ UNCHANGED <<used, version, ret, bulk>>

Run(t) ==
  /\ \/ TakeElement(t) \/ ElementsEnd(t) \/ Compared(t)
     \/ OwnNext(t) \/ OwnEnd(t) \/ OwnRaises(t)
  /\ Unaided(t)

Fail(t) == (ElementRaises(t) \/ CompareRaises(t)) /\ Unaided(t)

-----------------------------------------------------------------------------
(* The calls that come between two steps.                                  *)

\* A finder of some task holds marks.
SomeMarked == \E t \in Tasks : tasks[t].pc = "eq"

\* The step adds an item and builds the indices anew.
Rebuilds ==
  /\ used' = used + 1
  /\ keys'.log2_size # keys.log2_size \/ keys'.nentries # keys.nentries + 1

\* Those that have no finder of their own.
PlainCall ==
  \/ \E key \in Keys :
       \/ \E value \in Values : MdAdd(key, value) \/ MdSetDefault(key, value)
       \/ MdDel(key)
       \/ MdPopOne(key)
       \/ MdPopAll(key)
  \/ MdPopItem
  \/ MdClear

FinderCall == \E key \in Keys : GetAll(key) \/ \E value \in Values : SetItem(key, value)

\* Any of them, from a callback or another thread.  No more calls come once
\* one has damaged a finder's marks: this bounds the entries it can return.
Interrupt ==
  /\ ~ damaged
  /\ \/ "plain" \in Nested /\ PlainCall
        /\ damaged' = (damaged \/ (SomeMarked /\ Rebuilds))
     \/ "finder" \in Nested /\ FinderCall
        /\ damaged' = (damaged \/ SomeMarked)
  /\ tasks' = [t \in Tasks |-> [tasks[t] EXCEPT !.quiet = FALSE]]
  /\ UNCHANGED bulk

ViewInit ==
  /\ tasks = [t \in Tasks |-> NoTask]
  /\ damaged = FALSE

ViewNext ==
  \/ \E t \in Tasks : Run(t) \/ Fail(t)
  \/ \E t \in Tasks, op \in Ops, other \in Operands : Begin(t, op, other)
  \/ Interrupt

\* No operation is under way.
AtRest == \A t \in Tasks : tasks[t].pc \in {"done", "raised"}

\* A multidict from its creation on: between operations of its view it takes
\* any calls, during one of them those that Nested allows.
ViewSpec ==
  /\ Init /\ ViewInit
  /\ [][\/ AtRest /\ Next /\ UNCHANGED <<tasks, damaged>>
        \/ Idle /\ ViewNext]_viewVars

\* Callbacks return: an operation under way goes on.
ViewFairness == \A t \in Tasks : WF_tasks(Run(t))

-----------------------------------------------------------------------------
(* Properties.                                                             *)

\* The set each operation is to return for the items it began with.
SetResult(x) ==
  LET own == ToSet(x.base)
      other == ToSet(x.other.elems)
  IN  CASE x.op = "and1" -> Within(own, other)
        [] x.op = "and2" -> Within(other, own)
        [] x.op = "or1" -> own \cup Outside(other, own)
        [] x.op = "or2" -> other \cup Outside(own, other)
        [] x.op = "sub1" -> Outside(own, other)
        [] x.op = "sub2" -> Outside(other, own)
        [] x.op = "xor" -> Outside(own, other) \cup Outside(other, own)
        [] OTHER -> {}

\* The answer of the others.  < and <= compare the items as they are, > and
\* >= up to the case of their keys.
AnswerResult(x) ==
  LET own == ToSet(x.base)
      other == ToSet(x.other.elems)
      longer == Len(x.base) > Len(x.other.elems)
      shorter == Len(x.base) < Len(x.other.elems)
  IN  CASE x.op = "contains" -> Within(other, own) # {}
        [] x.op = "isdisjoint" -> Within(other, own) = {}
        [] x.op = "lt" -> own \subseteq other /\ shorter
        [] x.op = "le" -> own \subseteq other /\ ~ longer
        [] x.op = "eq" -> own \subseteq other /\ ~ longer /\ ~ shorter
        [] x.op = "ne" -> ~ (own \subseteq other) \/ longer \/ shorter
        [] x.op = "gt" -> other \subseteq Within(other, own) /\ longer
        [] x.op = "ge" -> other \subseteq Within(other, own) /\ ~ shorter
        [] OTHER -> NULL

\* The type of the tasks, and that one is in the middle of a search only with
\* an element that has a key.
ViewTypeOK ==
  \A t \in Tasks :
    /\ tasks[t].pc \in {"next", "eq", "own", "done", "raised"}
    /\ tasks[t].result \subseteq Item \cup {NoPair}
    /\ tasks[t].answer \in BOOLEAN \cup {NULL}
    /\ tasks[t].pc = "eq" => tasks[t].arg \in Item /\ tasks[t].found \in Item

\* With no call in between, every operation of the view returns what the set
\* operation of its name does on the items, up to the case of the keys:
\* deleted entries, colliding hashes and duplicates of an item make no
\* difference.  (A reflected | of an iterator is not among them, nor is an
\* operation on a table where the marks of another one hide items, or have
\* hidden them when its indices were built.)
ResultExact ==
  \A t \in Tasks : LET x == tasks[t] IN
    x.op # "none" /\ x.pc = "done" /\ x.quiet /\ ~ damaged
      /\ ~ (x.op = "or2" /\ x.other.oneshot)
      => x.result = SetResult(x) /\ x.answer = AnswerResult(x)

\* == on distinct items is the equality of sets, although the code compares
\* lengths and looks in one direction only.
EqualityExact ==
  \A t \in Tasks : LET x == tasks[t] IN
    x.op = "eq" /\ x.pc = "done" /\ x.quiet /\ ~ damaged
      /\ IsInjective(x.base) /\ IsInjective(x.other.elems)
      => x.answer = (ToSet(x.base) = ToSet(x.other.elems))

\* Whatever calls come in between, an operation that does not raise answers
\* for one state of the multidict per element of the other operand, and for
\* one state when it goes over the items themselves: a search or a loop that
\* was overtaken by a change never goes on with the old position.
OneStatePerElement ==
  \A t \in Tasks : LET x == tasks[t] IN
    x.op # "none" /\ x.pc = "done" /\ ~ damaged =>
      CASE x.phase = "contains" -> x.answer = (x.want # {})
        [] x.phase = "isdisjoint" -> x.answer = (x.want = {})
        [] x.phase = "le" -> x.answer = AnswerResult(x)
        [] x.phase = "ge" -> x.answer => ToSet(x.other.elems) \subseteq x.want
        [] OTHER -> x.result = x.want

\* When no finder is at work the marks of all are gone, and the table is as
\* sound as before: equal, unequal or raising comparisons, an element that
\* raises, a search that stops early and calls that change the multidict in
\* the middle of one have all been cleaned up.  (Unless the table was rebuilt
\* under a finder, or searched by another one.)
MarksRestored ==
  ~ SomeMarked /\ ~ damaged => TableInvariant

\* A finder returns no entry twice in one search, although a probe may visit
\* a slot twice (the comment on getall() at the head of hashtable.h).
FoundOnce == damaged \/ \A t \in Tasks : IsInjective(tasks[t].visited)

\* Every operation ends, with a result or an exception, as long as the
\* callbacks return and make finitely many calls: no loop over the other
\* operand, over the items or over the entries of a key goes on forever, nor
\* do two searches that see each other's marks.
EveryViewEnds ==
  \A t \in Tasks :
    tasks[t].pc \in {"next", "eq", "own"} ~> tasks[t].pc \in {"done", "raised"}

\* The comment at the head of hashtable.h: "After the iteration finishes, all
\* marked entries are restored."
AllMarksRestored == ~ SomeMarked => IsSettled(keys)
=============================================================================
