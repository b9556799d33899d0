------------------------------- MODULE HtKeys -------------------------------
(***************************************************************************)
(* The key table of a multidict (src/multidict/_multilib/htkeys.h): an     *)
(* array of entries in insertion order and a power-of-two array of         *)
(* indices into it, searched by open addressing.  The module holds the     *)
(* size arithmetic, the probe sequence and the functions that read a       *)
(* table or build one.  It has no state of its own: a table is a record    *)
(* and HashTable.tla keeps one in a variable.                              *)
(***************************************************************************)
EXTENDS Integers, FiniteSetsExt

CONSTANTS
  Identities,     \* the identities of keys: exact str objects
  HashOf,         \* the hash of each identity, as an unsigned word
  Keys,           \* the key objects callers pass, which the table keeps
  Values,         \* the values callers pass
  NULL,           \* the C null pointer
  HASH_BITS,      \* the width of a hash (64 on the usual platforms)
  SIZE_T_BITS     \* SIZEOF_SIZE_T * 8, the limit on log2_size

ASSUME ConstantsAssumption ==
  /\ HASH_BITS \in Nat \ {0}
  /\ SIZE_T_BITS \in Nat /\ SIZE_T_BITS > 3
  /\ NULL \notin Identities \cup Keys \cup Values
  /\ HashOf \in [Identities -> Nat]
  /\ \A id \in Identities : HashOf[id] < 2 ^ HASH_BITS

DKIX_EMPTY == -1
DKIX_DUMMY == -2

HT_LOG_MINSIZE == 3
HT_MINSIZE == 8
HT_PERTURB_SHIFT == 5

\* -1 is no hash: an entry that carries it has been visited.
MARK == -1

-----------------------------------------------------------------------------
(* Sizes.                                                                  *)

USABLE_FRACTION(n) == (2 * n) \div 3

\* The number of bits of x.  A size that needs more than SIZE_T_BITS does
\* not occur: SIZE_T_BITS stands for it, and _md_resize refuses it.
_ht_bit_length(x) ==
  LET fits == {k \in 0..SIZE_T_BITS : x < 2 ^ k}
  IN  IF fits = {} THEN SIZE_T_BITS ELSE Min(fits)

\* minsize | HT_MINSIZE and minsize | (HT_MINSIZE - 1) on naturals.
OrMinsize(n) == IF (n \div HT_MINSIZE) % 2 = 1 THEN n ELSE n + HT_MINSIZE
OrMinmask(n) == HT_MINSIZE * (n \div HT_MINSIZE) + HT_MINSIZE - 1

calculate_log2_keysize(minsize) ==
  _ht_bit_length(OrMinmask(OrMinsize(minsize) - 1))

\* Variant: the slots that must stay free are forgotten.
EstimateSlots(n) == calculate_log2_keysize(n)

estimate_log2_keysize(n) == calculate_log2_keysize((n * 3 + 1) \div 2)

\* The sizes a table can have: the static empty table has log2_size 0.
Log2Sizes == {0} \cup HT_LOG_MINSIZE..(SIZE_T_BITS - 1)

-----------------------------------------------------------------------------
(* Tables.                                                                 *)

Hashes == {HashOf[id] : id \in Identities}

Entry == [hash : Hashes \cup {0, MARK}, identity : Identities \cup {NULL},
          key : Keys \cup {NULL}, value : Values \cup {NULL}]

\* What memset(0) leaves in an entry that was never used.
ZeroEntry == [hash |-> 0, identity |-> NULL, key |-> NULL, value |-> NULL]

Nslots(log2) == 2 ^ log2
Slots(log2) == 0..(Nslots(log2) - 1)
Capacity(log2) == USABLE_FRACTION(Nslots(log2))
EntryIndices(log2) == 0..(Capacity(log2) - 1)

IsHtKeys(ks) ==
  LET k == ks.log2_size
  IN  /\ k \in Log2Sizes
      /\ ks \in [log2_size : {k}, usable : 0..Capacity(k), nentries : 0..Capacity(k),
                 indices : [Slots(k) -> DKIX_DUMMY..(Capacity(k) - 1)],
                 entries : [EntryIndices(k) -> Entry]]

htkeys_new(log2) ==
  [log2_size |-> log2, usable |-> Capacity(log2), nentries |-> 0,
   indices |-> [s \in Slots(log2) |-> DKIX_EMPTY],
   entries |-> [i \in EntryIndices(log2) |-> ZeroEntry]]

\* The static table every empty multidict shares; it is never written.
empty_htkeys == htkeys_new(0)

-----------------------------------------------------------------------------
(* The probe sequence of a hash in a table of 2^log2 slots.  The perturb   *)
(* word is consumed HT_PERTURB_SHIFT bits at a time; once it is zero the   *)
(* recurrence i*5+1 visits all slots, so ProbeSteps(log2) steps are as     *)
(* many as a search can need (HashTableProofs!ProbesVisitAll proves it).   *)
(* A slot can come up more than once.                                      *)

ProbeSteps(log2) == HASH_BITS \div HT_PERTURB_SHIFT + 1 + Nslots(log2)

\* One step of a probe: the next bits of the perturb word and the next slot.
ProbeStep(last, log2) ==
  LET perturb == last.perturb \div 2 ^ HT_PERTURB_SHIFT
  IN  [slot |-> (last.slot * 5 + perturb + 1) % Nslots(log2), perturb |-> perturb]

Probe(hash, log2) ==
  LET word == hash % (2 ^ HASH_BITS)              \* size_t perturb = hash
      step[n \in 0..ProbeSteps(log2)] ==
        IF n = 0 THEN [slot |-> word % Nslots(log2), perturb |-> word]
                 ELSE ProbeStep(step[n - 1], log2)
  IN  [n \in 0..ProbeSteps(log2) |-> step[n].slot]

\* The probe sequences of all hashes and sizes.  MARK has one too: it is
\* what a build of the indices uses when it takes a mark for a hash.
ProbeSlots ==
  [hash \in Hashes \cup {MARK} |-> [log2 \in Log2Sizes |-> Probe(hash, log2)]]

\* The slot of the n-th probe, and the index found there.
SlotAt(ks, hash, n) == ProbeSlots[hash][ks.log2_size][n]
IndexAt(ks, hash, n) == ks.indices[SlotAt(ks, hash, n)]

\* The length of the path of a hash: the steps before the first EMPTY slot.
PathLength(ks, hash) ==
  Min({n \in 0..ProbeSteps(ks.log2_size) : IndexAt(ks, hash, n) = DKIX_EMPTY})

\* The slots that are or were in use.
Occupied(ks) == {s \in DOMAIN ks.indices : ks.indices[s] # DKIX_EMPTY}

\* Variant: a DUMMY slot is taken too.
FindFreeSlot(ks, hash) ==
  SlotAt(ks, hash,
    Min({n \in 0..ProbeSteps(ks.log2_size) : IndexAt(ks, hash, n) < 0}))

htkeys_find_empty_slot(ks, hash) == SlotAt(ks, hash, PathLength(ks, hash))

\* Variant: a mark is taken for a hash during update and merge too.
BuildHashPlain(entry, update) == entry.hash

\* The hash a build takes for an entry.  Outside update and merge it takes
\* even a mark for a hash.
BuildHash(entry, update) ==
  IF update /\ entry.hash = MARK THEN HashOf[entry.identity] ELSE entry.hash

IndexEntry(ks, i, update) ==
  LET slot == htkeys_find_empty_slot(ks, BuildHash(ks.entries[i], update))
  IN  [ks EXCEPT !.indices[slot] = i]

NoIndices(ks) ==
  [ks EXCEPT !.indices = [s \in Slots(ks.log2_size) |-> DKIX_EMPTY]]

\* The indices of a table built anew for entries 0..n-1, in order.
htkeys_build_indices(ks, n, update) ==
  LET built[i \in 0..n] == IF i = 0 THEN NoIndices(ks)
                                    ELSE IndexEntry(built[i - 1], i - 1, update)
  IN  built[n]

-----------------------------------------------------------------------------
(* Searching.                                                              *)

\* The steps of the path of a hash at which a search for identity stops:
\* the slot holds an entry, unmarked, of that identity.
Matches(ks, hash, identity) ==
  {n \in 0..(PathLength(ks, hash) - 1) :
     LET ix == IndexAt(ks, hash, n)
     IN  ix >= 0 /\ ks.entries[ix].hash = hash
                 /\ ks.entries[ix].identity = identity}

MatchingSlots(ks, hash, identity) ==
  {SlotAt(ks, hash, n) : n \in Matches(ks, hash, identity)}

FirstMatch(ks, hash, identity) ==
  SlotAt(ks, hash, Min(Matches(ks, hash, identity)))

\* The live entries, and the one that n live entries precede.
Live(ks) == {i \in 0..(ks.nentries - 1) : ks.entries[i].identity # NULL}
NthLive(ks, n) ==
  CHOOSE i \in Live(ks) : Cardinality({j \in Live(ks) : j < i}) = n

-----------------------------------------------------------------------------
(* What a table keeps from each write to the next.                         *)

\* A search along the path of a hash meets index i.
Meets(ks, hash, i) ==
  \E n \in 0..ProbeSteps(ks.log2_size) :
    /\ IndexAt(ks, hash, n) = i
    /\ \A m \in 0..(n - 1) : IndexAt(ks, hash, m) # DKIX_EMPTY

\* The room is accounted for; a slot in use holds a live entry of its own,
\* and as many slots were taken as entries; each live entry carries its
\* hash or a mark, no mark when it is half deleted, and can be found.
IsSound(ks) ==
  /\ IsHtKeys(ks)
  /\ ks.usable + ks.nentries = Capacity(ks.log2_size)
  /\ \A s \in DOMAIN ks.indices : ks.indices[s] >= 0 => ks.indices[s] \in Live(ks)
  /\ \A s, t \in DOMAIN ks.indices :
       ks.indices[s] >= 0 /\ ks.indices[s] = ks.indices[t] => s = t
  /\ Cardinality(Occupied(ks)) = ks.nentries
  /\ \A i \in Live(ks) :
       LET e == ks.entries[i]
       IN  /\ e.hash \in {HashOf[e.identity], MARK}
           /\ e.key = NULL => e.hash # MARK
           /\ e.key = NULL <=> e.value = NULL
           /\ Meets(ks, HashOf[e.identity], i)

\* No update or merge has left a trace on a live entry.
IsSettled(ks) ==
  \A i \in Live(ks) : ks.entries[i].hash # MARK /\ ks.entries[i].key # NULL
=============================================================================
