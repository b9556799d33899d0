---------------------------- MODULE HashTableProofs ----------------------------
(***************************************************************************)
(* Every step of HashTable preserves TableInvariant, for every choice of   *)
(* the constants: the sizes of keys and values, the hashes and the lengths *)
(* of histories are not bounded here.                                      *)
(*                                                                         *)
(* First the key table (HtKeys): its sizes, its probes, which visit every  *)
(* slot, the searches of a sound table, which end and find, and the build  *)
(* of its indices.  Then what each writing operator of HashTable makes of  *)
(* a sound table, and one step per action.                                 *)
(***************************************************************************)
EXTENDS HashTable, RecursionProofs

-----------------------------------------------------------------------------
(* Numbers.                                                                *)

\* USABLE_FRACTION obeys what its comment asks: some room, never all of it.
LEMMA CapacityBounds ==
  ASSUME NEW k \in Nat
  PROVE  /\ Nslots(k) \in Nat \ {0}
         /\ Capacity(k) \in Nat
         /\ Capacity(k) < Nslots(k)
BY PowerOfTwo DEF Nslots, Capacity, USABLE_FRACTION

\* The bit length of x, when it is not cut off, is a power above x.
LEMMA BitLength ==
  ASSUME NEW x \in Nat, _ht_bit_length(x) < SIZE_T_BITS
  PROVE  _ht_bit_length(x) \in 0..SIZE_T_BITS /\ x < 2 ^ _ht_bit_length(x)
<1> DEFINE fits == {k \in 0..SIZE_T_BITS : x < 2 ^ k}
<1>1. SIZE_T_BITS \in Nat
  BY ConstantsAssumption
<1>2. _ht_bit_length(x) = IF fits = {} THEN SIZE_T_BITS ELSE Min(fits)
  BY DEF _ht_bit_length
<1>3. fits \in SUBSET Nat
  BY <1>1
<1> HIDE DEF fits
<1>4. fits # {}
  BY <1>1, <1>2
<1>5. Min(fits) \in fits
  BY <1>3, <1>4, MinOfNaturals
<1> QED
  BY <1>2, <1>4, <1>5 DEF fits

\* A computed size is a number, at most SIZE_T_BITS.
LEMMA KeysizeIsNumber ==
  ASSUME NEW n \in Nat
  PROVE  calculate_log2_keysize(n) \in 0..SIZE_T_BITS
<1> DEFINE x == OrMinmask(OrMinsize(n) - 1)
           fits == {k \in 0..SIZE_T_BITS : x < 2 ^ k}
<1>1. calculate_log2_keysize(n) = IF fits = {} THEN SIZE_T_BITS ELSE Min(fits)
  BY DEF calculate_log2_keysize, _ht_bit_length
<1>2. SIZE_T_BITS \in Nat /\ fits \in SUBSET Nat
  BY ConstantsAssumption
<1> HIDE DEF fits
<1>3. fits # {} => Min(fits) \in fits
  BY <1>2, MinOfNaturals
<1> QED
  BY <1>1, <1>2, <1>3 DEF fits

\* A computed size that _md_resize accepts is one a table can have, and it
\* is no smaller than was asked for.
LEMMA KeysizeSuffices ==
  ASSUME NEW n \in Nat, calculate_log2_keysize(n) < SIZE_T_BITS
  PROVE  /\ calculate_log2_keysize(n) \in Log2Sizes \ {0}
         /\ n <= 2 ^ calculate_log2_keysize(n)
         /\ 8 <= 2 ^ calculate_log2_keysize(n)
<1> DEFINE x == OrMinmask(OrMinsize(n) - 1)
           k == calculate_log2_keysize(n)
<1>1. x \in Nat /\ n - 1 <= x /\ 7 <= x
  <2>1. OrMinsize(n) \in Nat /\ n <= OrMinsize(n) /\ 1 <= OrMinsize(n)
    BY DEF OrMinsize, HT_MINSIZE
  <2>2. \A m \in Nat : OrMinmask(m) \in Nat /\ m <= OrMinmask(m)
                       /\ 7 <= OrMinmask(m)
    BY DEF OrMinmask, HT_MINSIZE
  <2> QED
    BY <2>1, <2>2
<1>2. k = _ht_bit_length(x)
  BY DEF calculate_log2_keysize
<1> HIDE DEF x, k
<1>3. k \in 0..SIZE_T_BITS /\ x < 2 ^ k /\ k < SIZE_T_BITS
  BY <1>1, <1>2, BitLength DEF k
<1>4. SIZE_T_BITS \in Nat
  BY ConstantsAssumption
<1>5. k \in Nat /\ 2 ^ k \in Nat
  BY <1>3, <1>4, PowerOfTwo
<1>6. k # 0 /\ k # 1 /\ k # 2
  <2>1. /\ k = 0 => 2 ^ k = 1
        /\ k = 1 => 2 ^ k = 2
        /\ k = 2 => 2 ^ k = 4
    BY SmallPowers, Zenon
  <2> QED
    BY <1>1, <1>3, <1>5, <2>1
<1>7. k \in Log2Sizes \ {0}
  BY <1>3, <1>4, <1>5, <1>6 DEF Log2Sizes, HT_LOG_MINSIZE
<1>8. n <= 2 ^ k /\ 8 <= 2 ^ k
  BY <1>1, <1>3, <1>5
<1> QED
  BY <1>7, <1>8 DEF k

\* The growth of a full table makes room for one more entry at least.
LEMMA GrowthSuffices ==
  ASSUME NEW n \in Nat, calculate_log2_keysize(n * 3) < SIZE_T_BITS
  PROVE  n + 1 <= Capacity(calculate_log2_keysize(n * 3))
<1> DEFINE k == calculate_log2_keysize(n * 3)
<1>1. n * 3 \in Nat
  OBVIOUS
<1>2. n * 3 <= 2 ^ k /\ 8 <= 2 ^ k /\ k \in Log2Sizes
  BY <1>1, KeysizeSuffices
<1> HIDE DEF k
<1>3. 2 ^ k \in Nat
  BY <1>2, PowerOfTwo, ConstantsAssumption DEF Log2Sizes, HT_LOG_MINSIZE
<1>4. n + 1 <= (2 * (2 ^ k)) \div 3
  BY <1>2, <1>3
<1> QED
  BY <1>4 DEF k, Capacity, Nslots, USABLE_FRACTION

\* estimate_log2_keysize does what its comment says it is for, to reserve
\* enough to insert n entries without resizing: a table of that size takes n.
THEOREM EstimateSuffices ==
  ASSUME NEW n \in Nat, estimate_log2_keysize(n) < SIZE_T_BITS
  PROVE  /\ estimate_log2_keysize(n) \in Log2Sizes
         /\ n <= Capacity(estimate_log2_keysize(n))
<1> DEFINE m == (n * 3 + 1) \div 2
           k == estimate_log2_keysize(n)
<1>1. m \in Nat /\ 3 * n <= 2 * m
  OBVIOUS
<1>2. k = calculate_log2_keysize(m)
  BY DEF estimate_log2_keysize
<1> HIDE DEF m, k
<1>3. m <= 2 ^ k /\ k \in Log2Sizes
  BY <1>1, <1>2, KeysizeSuffices DEF k
<1>4. 2 ^ k \in Nat
  BY <1>3, PowerOfTwo, ConstantsAssumption DEF Log2Sizes, HT_LOG_MINSIZE
<1>5. n <= (2 * (2 ^ k)) \div 3
  BY <1>1, <1>3, <1>4
<1> QED
  BY <1>3, <1>5 DEF k, Capacity, Nslots, USABLE_FRACTION

-----------------------------------------------------------------------------
(* The probe sequence visits every slot.                                   *)

\* The slots of a probe sequence, and what is left of the hash at each step.
IsProbe(slot, perturb, hash, k) ==
  /\ slot \in [0..ProbeSteps(k) -> Slots(k)]
  /\ perturb \in [0..ProbeSteps(k) -> Nat]
  /\ perturb[0] < 2 ^ HASH_BITS
  /\ \A n \in 1..ProbeSteps(k) :
       /\ perturb[n] = perturb[n - 1] \div 32
       /\ slot[n] = (slot[n - 1] * 5 + perturb[n] + 1) % Nslots(k)

\* Five bits are dropped at each step, so nothing is left once the width is
\* used up.
LEMMA PerturbEnds ==
  ASSUME NEW k \in Nat, NEW hash, NEW slot, NEW perturb, IsProbe(slot, perturb, hash, k)
  PROVE  \A n \in 0..ProbeSteps(k) : n > HASH_BITS \div 5 => perturb[n] = 0
<1> DEFINE W == HASH_BITS
           last == ProbeSteps(k)
           C(n) == /\ 5 * n <= W => perturb[n] < 2 ^ (W - 5 * n)
                   /\ 5 * n > W => perturb[n] = 0
           S == {n \in 0..last : C(n)}
<1>1. W \in Nat /\ last \in Nat
  BY CapacityBounds, ConstantsAssumption DEF ProbeSteps, HT_PERTURB_SHIFT
<1>2. /\ perturb \in [0..last -> Nat] /\ perturb[0] < 2 ^ W
      /\ \A n \in 1..last : perturb[n] = perturb[n - 1] \div 32
  BY DEF IsProbe
<1> HIDE DEF W, last
<1>3. 0 \in S
  <2>1. W - 5 * 0 = W /\ 0 \in 0..last
    BY <1>1
  <2> QED
    BY <1>1, <1>2, <2>1
<1>4. ASSUME NEW n \in 0..(last - 1), n \in S PROVE n + 1 \in S
  <2>1. n + 1 \in 0..last /\ n \in 0..last /\ n + 1 \in 1..last /\ (n + 1) - 1 = n
    BY <1>1
  <2>2. perturb[n + 1] = perturb[n] \div 32 /\ perturb[n] \in Nat /\ perturb[n + 1] \in Nat
    BY <1>2, <2>1
  <2>3. CASE 5 * (n + 1) <= W
    <3>1. PICK m \in Nat : m = W - 5 * (n + 1) /\ m + 5 = W - 5 * n /\ 5 * n <= W
      BY <1>1, <2>3
    <3>2. perturb[n] < 32 * 2 ^ m /\ 2 ^ m \in Nat
      BY <1>4, <3>1, PowersByFive, PowerOfTwo
    <3>3. perturb[n] \div 32 < 2 ^ m
      BY <2>2, <3>2
    <3> QED
      BY <1>1, <2>1, <2>2, <2>3, <3>1, <3>3
  <2>4. CASE 5 * n <= W /\ 5 * (n + 1) > W
    <3>1. PICK m \in 0..4 : m = W - 5 * n
      BY <1>1, <2>4
    <3>2. 2 ^ m <= 2 ^ 4 /\ 2 ^ 4 = 16 /\ 2 ^ m \in Nat
      <4>1. 2 ^ m <= 2 ^ 4 /\ 2 ^ m \in Nat
        <5>1. PICK top \in Nat : top = 4
          OBVIOUS
        <5>2. m \in 0..top /\ m \in Nat
          BY <5>1
        <5>3. 2 ^ m <= 2 ^ top
          BY <5>2, PowersGrow
        <5> QED
          BY <5>1, <5>2, <5>3, PowerOfTwo
      <4>2. 2 ^ 4 = 16
        OBVIOUS
      <4> QED
        BY <4>1, <4>2
    <3>3. perturb[n] < 32
      BY <1>4, <2>2, <2>4, <3>1, <3>2
    <3>4. perturb[n + 1] = 0
      BY <2>2, <3>3
    <3> QED
      BY <1>1, <2>1, <2>4, <3>4
  <2>5. CASE 5 * n > W
    <3>1. perturb[n + 1] = 0
      BY <1>4, <2>2, <2>5
    <3> QED
      BY <1>1, <2>1, <2>5, <3>1
  <2> QED
    BY <1>1, <2>3, <2>4, <2>5
<1>5. 0..last \subseteq S
  <2> HIDE DEF S
  <2> QED
    BY <1>1, <1>3, <1>4, BoundedInduction
<1>6. ASSUME NEW n \in 0..last, n > W \div 5 PROVE perturb[n] = 0
  <2>1. 5 * n > W
    BY <1>1, <1>6
  <2> QED
    BY <1>5, <2>1
<1> QED
  BY <1>6 DEF W, last

\* The rest of the sequence is the recurrence, remainders taken, and meets every
\* slot.
LEMMA ProbeCovers ==
  ASSUME NEW k \in Nat, NEW hash, NEW slot, NEW perturb, IsProbe(slot, perturb, hash, k),
         NEW s \in Slots(k)
  PROVE  \E n \in 0..ProbeSteps(k) : slot[n] = s
<1> DEFINE N == 2 ^ k
           W == HASH_BITS
           start == W \div 5 + 1
           last == ProbeSteps(k)
<1>1. N \in Nat \ {0} /\ W \in Nat
  BY PowerOfTwo, ConstantsAssumption
<1>2. start \in Nat /\ start > W \div 5 /\ last = start + N /\ last \in Nat
  BY <1>1 DEF ProbeSteps, HT_PERTURB_SHIFT, Nslots
<1>3. /\ slot \in [0..last -> 0..(N - 1)]
      /\ \A n \in 1..last : slot[n] = (slot[n - 1] * 5 + perturb[n] + 1) % N
  BY DEF IsProbe, Slots, Nslots
<1>4. \A n \in 0..last : n >= start => perturb[n] = 0
  <2>1. \A n \in 0..last : n >= start => n > W \div 5
    BY <1>1
  <2> QED
    BY <2>1, PerturbEnds
<1>5. s \in 0..(N - 1)
  BY DEF Slots, Nslots
<1> HIDE DEF start, last, W
<1>6. PICK y : IsRecurrence(y, N) /\ y[0] = slot[start]
  <2> HIDE DEF N
  <2> DEFINE step == [p \in Int \X (1..N) |-> 5 * p[1] + 1]
  <2>1. slot[start] \in Int
    BY <1>1, <1>2, <1>3
  <2>2. step \in [Int \X (1..N) -> Int]
    OBVIOUS
  <2>3. \A a \in Int, i \in 1..N : step[<<a, i>>] = 5 * a + 1
    OBVIOUS
  <2> HIDE DEF step
  <2>4. PICK f : IsRun(f, N, Int, slot[start], step)
    BY <1>1, <2>1, <2>2, BoundedRecursion
  <2>5. f \in [0..N -> Int] /\ f[0] = slot[start]
    BY <2>4 DEF IsRun
  <2>6. ASSUME NEW i \in 0..(N - 1) PROVE f[i + 1] = 5 * f[i] + 1
    <3>1. i + 1 \in 1..N /\ (i + 1) - 1 = i /\ i \in 0..N
      BY <1>1
    <3>2. f[i + 1] = step[<<f[i], i + 1>>]
      BY <2>4, <3>1 DEF IsRun
    <3>3. f[i] \in Int
      BY <2>5, <3>1
    <3> QED
      BY <2>3, <3>1, <3>2, <3>3
  <2> QED
    BY <2>5, <2>6 DEF IsRecurrence
<1>7. /\ y \in [0..N -> Int]
      /\ \A i \in 0..(N - 1) : y[i + 1] = 5 * y[i] + 1
  BY <1>6 DEF IsRecurrence
<1> DEFINE T == {i \in 0..N : \E c \in Int : slot[start + i] = y[i] + N * c}
<1>8. 0 \in T
  <2> HIDE DEF N
  <2>1. start + 0 = start /\ y[0] \in Int /\ N * 0 = 0 /\ 0 \in 0..N
    BY <1>1, <1>2, <1>7
  <2>2. slot[start + 0] = y[0] + N * 0
    BY <1>6, <2>1
  <2> QED
    BY <2>1, <2>2
<1>9. ASSUME NEW i \in 0..(N - 1), i \in T PROVE i + 1 \in T
  <2> HIDE DEF N
  <2>1. PICK c \in Int : slot[start + i] = y[i] + N * c
    BY <1>9
  <2>2. /\ start + (i + 1) \in 1..last /\ start + (i + 1) \in 0..last
        /\ start + (i + 1) >= start /\ (start + (i + 1)) - 1 = start + i
        /\ i + 1 \in 0..N /\ i \in 0..N
    BY <1>1, <1>2
  <2>3. slot[start + (i + 1)] = (slot[start + i] * 5 + 0 + 1) % N
    BY <1>3, <1>4, <2>2
  <2>4. y[i] \in Int /\ N * c \in Int /\ y[i + 1] = 5 * y[i] + 1
    BY <1>1, <1>7, <2>2
  <2>5. slot[start + i] * 5 + 0 + 1 = y[i + 1] + 5 * (N * c)
    BY <2>1, <2>4
  <2>6. PICK a \in Int : a = y[i + 1] + 5 * (N * c)
    BY <2>4
  <2>7. PICK d \in Int : a % N = a + N * d
    BY <1>1, RemainderIs
  <2>8. PICK e \in Int : e = 5 * c + d
    OBVIOUS
  <2>9. 5 * (N * c) + N * d = N * e
    BY <1>1, <2>8
  <2>10. slot[start + (i + 1)] = y[i + 1] + N * e
    BY <1>1, <2>3, <2>4, <2>5, <2>6, <2>7, <2>9
  <2> QED
    BY <2>2, <2>10
<1>10. 0..N \subseteq T
  <2> HIDE DEF T, N
  <2> QED
    BY <1>1, <1>8, <1>9, BoundedInduction
<1>11. PICK i \in 0..(N - 1), c \in Int : y[i] - s = N * c
  BY <1>5, <1>6, RecurrenceCovers
<1> HIDE DEF N
<1>12. i \in 0..N /\ start + i \in 0..last
  BY <1>1, <1>2
<1>13. PICK d \in Int : slot[start + i] = y[i] + N * d
  <2>1. i \in T
    BY <1>10, <1>12
  <2> QED
    BY <2>1
<1>14. PICK e \in Int : e = c + d
  OBVIOUS
<1>15. slot[start + i] - s = N * e
  <2>1. N * c + N * d = N * e
    BY <1>1, <1>14
  <2>2. y[i] \in Int /\ N * c \in Int /\ N * d \in Int /\ s \in Int
    BY <1>1, <1>5, <1>7, <1>12
  <2> QED
    BY <1>11, <1>13, <2>1, <2>2
<1>16. slot[start + i] \in 0..(N - 1)
  BY <1>3, <1>12
<1>17. slot[start + i] = s
  BY <1>1, <1>5, <1>15, <1>16, SameRemainder
<1> QED
  BY <1>12, <1>17 DEF last

\* The type of a step of a probe, and that five bits are dropped.
LEMMA ProbeStepTyped ==
  ASSUME NEW k \in Nat, NEW r \in [slot : Slots(k), perturb : Nat]
  PROVE  /\ ProbeStep(r, k) \in [slot : Slots(k), perturb : Nat]
         /\ ProbeStep(r, k).perturb = r.perturb \div 32
         /\ ProbeStep(r, k).slot = (r.slot * 5 + (r.perturb \div 32) + 1) % Nslots(k)
<1>1. 2 ^ HT_PERTURB_SHIFT = 32
  BY DEF HT_PERTURB_SHIFT
<1>2. PICK N \in Nat \ {0} : N = Nslots(k)
  BY CapacityBounds
<1>3. r.slot \in 0..(N - 1) /\ r.perturb \in Nat
  BY <1>2 DEF Slots
<1>4. PICK p \in Nat : p = r.perturb \div 32
  BY <1>3
<1>5. PICK s \in Int : s = r.slot * 5 + p + 1
  BY <1>3
<1>6. s % N \in 0..(N - 1)
  BY RemainderIs
<1>7. ProbeStep(r, k) = [slot |-> s % N, perturb |-> p]
  BY <1>1, <1>2, <1>4, <1>5 DEF ProbeStep
<1> QED
  BY <1>2, <1>4, <1>5, <1>6, <1>7 DEF Slots

\* The equation of the recursive function in Probe.
SolvesProbe(f, hash, k) ==
  f = [n \in 0..ProbeSteps(k) |->
         IF n = 0 THEN [slot |-> (hash % (2 ^ HASH_BITS)) % Nslots(k),
                        perturb |-> hash % (2 ^ HASH_BITS)]
                  ELSE ProbeStep(f[n - 1], k)]

\* If some function solves it, the one Probe takes does.
LEMMA ProbeSolves ==
  ASSUME NEW k, NEW hash, NEW f, SolvesProbe(f, hash, k)
  PROVE  \E step : /\ SolvesProbe(step, hash, k)
                   /\ Probe(hash, k) = [n \in 0..ProbeSteps(k) |-> step[n].slot]
<1> DEFINE step == CHOOSE g : SolvesProbe(g, hash, k)
<1>1. Probe(hash, k) = [n \in 0..ProbeSteps(k) |-> step[n].slot]
  BY DEF Probe, SolvesProbe
<1>2. SolvesProbe(step, hash, k)
  BY Zenon
<1> HIDE DEF step
<1> QED
  BY <1>1, <1>2

\* The recursion in Probe has a solution, and gives its slots.
LEMMA ProbeUnfolds ==
  ASSUME NEW k \in Nat, NEW hash \in Int
  PROVE  \E perturb : IsProbe(Probe(hash, k), perturb, hash, k)
<1> DEFINE last == ProbeSteps(k)
           N == Nslots(k)
           word == hash % (2 ^ HASH_BITS)
           T == [slot : Slots(k), perturb : Nat]
           t0 == [slot |-> word % N, perturb |-> word]
           step == [p \in T \X (1..last) |-> ProbeStep(p[1], k)]
<1>1. last \in Nat /\ N \in Nat \ {0}
  BY CapacityBounds, ConstantsAssumption DEF ProbeSteps, HT_PERTURB_SHIFT
<1>2. word \in Nat /\ word < 2 ^ HASH_BITS
  <2>1. 2 ^ HASH_BITS \in Nat \ {0}
    BY PowerOfTwo, ConstantsAssumption
  <2>2. word \in 0..(2 ^ HASH_BITS - 1)
    BY <2>1, RemainderIs
  <2> QED
    BY <2>1, <2>2
<1>3. t0 \in T
  <2>1. word % N \in 0..(N - 1)
    <3>1. PICK w \in Int : w = word
      BY <1>2
    <3>2. PICK m \in Nat \ {0} : m = N
      BY <1>1
    <3>3. w % m \in 0..(m - 1)
      BY RemainderIs
    <3> QED
      BY <3>1, <3>2, <3>3
  <2> QED
    BY <1>2, <2>1 DEF Slots
<1>4. step \in [T \X (1..last) -> T]
  <2>1. \A p \in T \X (1..last) : ProbeStep(p[1], k) \in T
    BY ProbeStepTyped
  <2> HIDE DEF T
  <2> QED
    BY <2>1
<1>5. PICK f : IsRun(f, last, T, t0, step)
  <2> HIDE DEF T, t0, step, last
  <2> QED
    BY <1>1, <1>3, <1>4, BoundedRecursion
<1>6. \A n \in 0..last : f[n] = IF n = 0 THEN t0 ELSE ProbeStep(f[n - 1], k)
  <2> SUFFICES ASSUME NEW n \in 0..last
               PROVE  f[n] = IF n = 0 THEN t0 ELSE ProbeStep(f[n - 1], k)
    OBVIOUS
  <2> HIDE DEF T, t0
  <2>1. f \in [0..last -> T] /\ f[0] = t0
    BY <1>5 DEF IsRun
  <2>2. ASSUME n # 0 PROVE f[n] = ProbeStep(f[n - 1], k)
    <3>1. n \in 1..last /\ n - 1 \in 0..last
      BY <1>1, <2>2
    <3>2. f[n] = step[<<f[n - 1], n>>]
      BY <1>5, <3>1 DEF IsRun
    <3>3. <<f[n - 1], n>> \in T \X (1..last)
      BY <2>1, <3>1
    <3> QED
      BY <3>2, <3>3
  <2> QED
    BY <2>1, <2>2
<1>7. f = [n \in 0..last |-> IF n = 0 THEN t0 ELSE ProbeStep(f[n - 1], k)]
  <2>1. f = [n \in 0..last |-> f[n]]
    BY <1>5 DEF IsRun
  <2> HIDE DEF t0, step
  <2> QED
    BY <1>6, <2>1
<1>8. PICK g : SolvesProbe(g, hash, k) /\ Probe(hash, k) = [n \in 0..last |-> g[n].slot]
  <2>1. SolvesProbe(f, hash, k)
    BY <1>7 DEF SolvesProbe
  <2> QED
    BY <2>1, ProbeSolves
<1>9. g = [n \in 0..last |-> IF n = 0 THEN t0 ELSE ProbeStep(g[n - 1], k)]
  BY <1>8 DEF SolvesProbe
<1> HIDE DEF step, t0, T, last
<1>10. g[0] = t0
  BY <1>1, <1>9
<1>11. ASSUME NEW n \in 1..last PROVE g[n] = ProbeStep(g[n - 1], k)
  <2>1. n \in 0..last /\ n # 0
    BY <1>1
  <2> QED
    BY <1>9, <2>1
<1> DEFINE S == {n \in 0..last : g[n] \in T}
<1>12. 0 \in S
  BY <1>1, <1>3, <1>10
<1>13. ASSUME NEW n \in 0..(last - 1), n \in S PROVE n + 1 \in S
  <2>1. n + 1 \in 0..last /\ n + 1 \in 1..last /\ (n + 1) - 1 = n
    BY <1>1
  <2>2. g[n + 1] = ProbeStep(g[n], k)
    BY <1>11, <2>1
  <2> QED
    BY <1>13, <2>1, <2>2, ProbeStepTyped DEF T
<1>14. \A n \in 0..last : g[n] \in T
  <2>1. 0..last \subseteq S
    <3> HIDE DEF S
    <3> QED
      BY <1>1, <1>12, <1>13, BoundedInduction
  <2> QED
    BY <2>1
<1> DEFINE perturb == [n \in 0..last |-> g[n].perturb]
           slot == [n \in 0..last |-> g[n].slot]
<1>15. slot \in [0..last -> Slots(k)] /\ perturb \in [0..last -> Nat]
  BY <1>14 DEF T
<1>16. perturb[0] = word
  BY <1>1, <1>10 DEF t0
<1>17. ASSUME NEW n \in 1..last
       PROVE  /\ perturb[n] = perturb[n - 1] \div 32
              /\ slot[n] = (slot[n - 1] * 5 + perturb[n] + 1) % N
  <2>1. n \in 0..last /\ n - 1 \in 0..last
    BY <1>1
  <2>2. g[n - 1] \in [slot : Slots(k), perturb : Nat] /\ g[n] = ProbeStep(g[n - 1], k)
    BY <1>11, <1>14, <2>1 DEF T
  <2>3. /\ g[n].perturb = g[n - 1].perturb \div 32
        /\ g[n].slot = (g[n - 1].slot * 5 + (g[n - 1].perturb \div 32) + 1) % N
    BY <2>2, ProbeStepTyped
  <2> HIDE DEF N
  <2> QED
    BY <2>1, <2>3
<1>18. Probe(hash, k) = slot
  BY <1>8
<1> HIDE DEF slot, perturb
<1>19. IsProbe(slot, perturb, hash, k)
  BY <1>2, <1>15, <1>16, <1>17 DEF IsProbe, last
<1> QED
  BY <1>18, <1>19

\* The probe sequence of every hash visits every slot of a table of any size:
\* the loops that end at an EMPTY slot, or at all there are, end.
THEOREM ProbesVisitAll ==
  \A hash \in Hashes \cup {MARK} : \A log2 \in Log2Sizes :
    /\ ProbeSlots[hash][log2] \in [0..ProbeSteps(log2) -> Slots(log2)]
    /\ \A s \in Slots(log2) :
         \E n \in 0..ProbeSteps(log2) : ProbeSlots[hash][log2][n] = s
<1> SUFFICES ASSUME NEW hash \in Hashes \cup {MARK}, NEW k \in Log2Sizes
             PROVE  /\ ProbeSlots[hash][k] \in [0..ProbeSteps(k) -> Slots(k)]
                    /\ \A s \in Slots(k) :
                         \E n \in 0..ProbeSteps(k) : ProbeSlots[hash][k][n] = s
  OBVIOUS
<1>1. hash \in Int /\ k \in Nat
  BY ConstantsAssumption DEF Hashes, MARK, Log2Sizes, HT_LOG_MINSIZE
<1>2. ProbeSlots[hash][k] = Probe(hash, k)
  BY DEF ProbeSlots
<1>3. PICK perturb : IsProbe(Probe(hash, k), perturb, hash, k)
  BY <1>1, ProbeUnfolds
<1>4. \A s \in Slots(k) : \E n \in 0..ProbeSteps(k) : Probe(hash, k)[n] = s
  BY <1>1, <1>3, ProbeCovers
<1> QED
  BY <1>2, <1>3, <1>4 DEF IsProbe

-----------------------------------------------------------------------------
(* Probing and building the indices.                                       *)

\* The sizes and the lengths of the probe sequences are numbers.
LEMMA SizeTypes ==
  ASSUME NEW k \in Log2Sizes
  PROVE  /\ k \in Nat
         /\ Nslots(k) \in Nat \ {0}
         /\ Capacity(k) \in Nat
         /\ Capacity(k) < Nslots(k)
         /\ ProbeSteps(k) \in Nat
<1>1. k \in Nat
  BY ConstantsAssumption DEF Log2Sizes, HT_LOG_MINSIZE
<1>2. Nslots(k) \in Nat \ {0} /\ Capacity(k) \in Nat /\ Capacity(k) < Nslots(k)
  BY <1>1, CapacityBounds
<1> QED
  BY <1>1, <1>2, ConstantsAssumption DEF ProbeSteps, HT_PERTURB_SHIFT

\* The slots of a table, counted.
LEMMA SlotsFinite ==
  ASSUME NEW k \in Log2Sizes
  PROVE  IsFiniteSet(Slots(k)) /\ Cardinality(Slots(k)) = Nslots(k)
<1> DEFINE n == Nslots(k)
<1>1. n \in Nat \ {0}
  BY SizeTypes
<1> HIDE DEF n
<1>2. IsFiniteSet(0..(n - 1))
      /\ Cardinality(0..(n - 1)) = IF 0 > n - 1 THEN 0 ELSE (n - 1) - 0 + 1
  BY <1>1, FS_Interval
<1>3. Cardinality(0..(n - 1)) = n
  BY <1>1, <1>2
<1> QED
  BY <1>2, <1>3 DEF Slots, n

\* A table with a slot to spare has an EMPTY slot on the path of every hash:
\* a search of an unknown key ends, and an insertion finds a place.
LEMMA EmptySlotFound ==
  ASSUME NEW ks, NEW hash \in Hashes, NEW k \in Log2Sizes, ks.log2_size = k,
         ks.indices \in [Slots(k) -> Int],
         Cardinality(Occupied(ks)) < Nslots(k)
  PROVE  /\ PathLength(ks, hash) \in 0..ProbeSteps(k)
         /\ IndexAt(ks, hash, PathLength(ks, hash)) = DKIX_EMPTY
         /\ \A n \in 0..(PathLength(ks, hash) - 1) :
              IndexAt(ks, hash, n) # DKIX_EMPTY
         /\ htkeys_find_empty_slot(ks, hash) \in Slots(k)
         /\ ks.indices[htkeys_find_empty_slot(ks, hash)] = DKIX_EMPTY
<1> DEFINE free == {n \in 0..ProbeSteps(k) : IndexAt(ks, hash, n) = DKIX_EMPTY}
           path == PathLength(ks, hash)
<1>1. k \in Nat /\ Nslots(k) \in Nat /\ ProbeSteps(k) \in Nat
  BY SizeTypes
<1>2. \E s \in Slots(k) : ks.indices[s] = DKIX_EMPTY
  <2> SUFFICES ASSUME \A s \in Slots(k) : ks.indices[s] # DKIX_EMPTY
               PROVE  FALSE
    OBVIOUS
  <2>1. Occupied(ks) = Slots(k)
    BY DEF Occupied
  <2>2. Cardinality(Slots(k)) = Nslots(k)
    BY <1>1, FS_Interval DEF Slots
  <2> QED
    BY <1>1, <2>1, <2>2
<1>3. PICK s \in Slots(k) : ks.indices[s] = DKIX_EMPTY
  BY <1>2
<1>4. /\ ProbeSlots[hash][k] \in [0..ProbeSteps(k) -> Slots(k)]
      /\ \E n \in 0..ProbeSteps(k) : ProbeSlots[hash][k][n] = s
  BY ProbesVisitAll
<1>5. free # {}
  BY <1>3, <1>4 DEF IndexAt, SlotAt
<1>6. free \in SUBSET Nat
  OBVIOUS
<1>7. path = Min(free)
  BY DEF PathLength
<1> HIDE DEF free, path
<1>8. path \in free /\ \A n \in free : path <= n
  BY <1>5, <1>6, <1>7, MinOfNaturals
<1>9. path \in 0..ProbeSteps(k) /\ IndexAt(ks, hash, path) = DKIX_EMPTY
  BY <1>8 DEF free
<1>10. ASSUME NEW n \in 0..(path - 1) PROVE IndexAt(ks, hash, n) # DKIX_EMPTY
  <2>1. n \notin free
    BY <1>8, <1>9
  <2>2. n \in 0..ProbeSteps(k)
    BY <1>1, <1>9
  <2> QED
    BY <2>1, <2>2 DEF free
<1>11. /\ SlotAt(ks, hash, path) \in Slots(k)
       /\ ks.indices[SlotAt(ks, hash, path)] = DKIX_EMPTY
  BY <1>4, <1>9 DEF IndexAt, SlotAt
<1> QED
  BY <1>9, <1>10, <1>11 DEF path, htkeys_find_empty_slot

\* Taking an EMPTY slot and emptying a slot to DUMMY both keep the paths: an
\* index that keeps its slot is still met.
LEMMA MeetsKept ==
  ASSUME NEW t, NEW u, NEW k \in Log2Sizes, t.log2_size = k, u.log2_size = k,
         NEW hash \in Hashes, NEW i, Meets(t, hash, i),
         \A s \in Slots(k) : t.indices[s] # DKIX_EMPTY => u.indices[s] # DKIX_EMPTY,
         \A s \in Slots(k) : t.indices[s] = i => u.indices[s] = i
  PROVE  Meets(u, hash, i)
<1>1. k \in Nat /\ ProbeSteps(k) \in Nat
  BY SizeTypes
<1>2. ProbeSlots[hash][k] \in [0..ProbeSteps(k) -> Slots(k)]
  BY ProbesVisitAll
<1>3. PICK n \in 0..ProbeSteps(k) :
        /\ IndexAt(t, hash, n) = i
        /\ \A m \in 0..(n - 1) : IndexAt(t, hash, m) # DKIX_EMPTY
  BY DEF Meets
<1>4. \A m \in 0..n : SlotAt(t, hash, m) = SlotAt(u, hash, m)
                      /\ SlotAt(t, hash, m) \in Slots(k)
  <2>1. \A m \in 0..n : m \in 0..ProbeSteps(k)
    BY <1>1
  <2> QED
    BY <1>2, <2>1 DEF SlotAt
<1>5. IndexAt(u, hash, n) = i
  BY <1>3, <1>4 DEF IndexAt
<1>6. ASSUME NEW m \in 0..(n - 1) PROVE IndexAt(u, hash, m) # DKIX_EMPTY
  <2>1. m \in 0..n
    OBVIOUS
  <2> QED
    BY <1>3, <1>4, <2>1 DEF IndexAt
<1> QED
  BY <1>3, <1>5, <1>6 DEF Meets

\* Wherever a search along the path of a hash comes upon index j, it has come
\* upon index i before.
Precedes(ks, hash, i, j) ==
  \A m \in 0..ProbeSteps(ks.log2_size) :
    IndexAt(ks, hash, m) = j => \E l \in 0..(m - 1) : IndexAt(ks, hash, l) = i

\* The order stays when no slot comes to hold j, and those that hold i do.
LEMMA PrecedesKept ==
  ASSUME NEW t, NEW u, NEW k \in Log2Sizes, t.log2_size = k, u.log2_size = k,
         NEW hash \in Hashes, NEW i, NEW j, Precedes(t, hash, i, j),
         \A s \in Slots(k) : u.indices[s] = j => t.indices[s] = j,
         \A s \in Slots(k) : t.indices[s] = i => u.indices[s] = i
  PROVE  Precedes(u, hash, i, j)
<1>1. k \in Nat /\ ProbeSteps(k) \in Nat
  BY SizeTypes
<1>2. ProbeSlots[hash][k] \in [0..ProbeSteps(k) -> Slots(k)]
  BY ProbesVisitAll
<1>3. \A m \in 0..ProbeSteps(k) : SlotAt(t, hash, m) = SlotAt(u, hash, m)
                                  /\ SlotAt(t, hash, m) \in Slots(k)
  BY <1>2 DEF SlotAt
<1> SUFFICES ASSUME NEW m \in 0..ProbeSteps(k), IndexAt(u, hash, m) = j
             PROVE  \E l \in 0..(m - 1) : IndexAt(u, hash, l) = i
  BY DEF Precedes
<1>4. IndexAt(t, hash, m) = j
  BY <1>3 DEF IndexAt
<1>5. PICK l \in 0..(m - 1) : IndexAt(t, hash, l) = i
  BY <1>4 DEF Precedes
<1>6. l \in 0..ProbeSteps(k)
  BY <1>1
<1>7. IndexAt(u, hash, l) = i
  BY <1>3, <1>5, <1>6 DEF IndexAt
<1> QED
  BY <1>7

\* An index put into an EMPTY slot comes after all that are met.
LEMMA StoredLast ==
  ASSUME NEW t, NEW u, NEW k \in Log2Sizes, t.log2_size = k, u.log2_size = k,
         NEW hash \in Hashes, NEW i, i # DKIX_EMPTY, Meets(t, hash, i), NEW n,
         NEW slot \in Slots(k), t.indices[slot] = DKIX_EMPTY,
         \A s \in Slots(k) : u.indices[s] = n => s = slot,
         \A s \in Slots(k) : t.indices[s] = i => u.indices[s] = i
  PROVE  Precedes(u, hash, i, n)
<1>1. k \in Nat /\ ProbeSteps(k) \in Nat
  BY SizeTypes
<1>2. ProbeSlots[hash][k] \in [0..ProbeSteps(k) -> Slots(k)]
  BY ProbesVisitAll
<1>3. \A m \in 0..ProbeSteps(k) : SlotAt(t, hash, m) = SlotAt(u, hash, m)
                                  /\ SlotAt(t, hash, m) \in Slots(k)
  BY <1>2 DEF SlotAt
<1>4. PICK l \in 0..ProbeSteps(k) :
        /\ IndexAt(t, hash, l) = i
        /\ \A m \in 0..(l - 1) : IndexAt(t, hash, m) # DKIX_EMPTY
  BY DEF Meets
<1> SUFFICES ASSUME NEW m \in 0..ProbeSteps(k), IndexAt(u, hash, m) = n
             PROVE  \E j \in 0..(m - 1) : IndexAt(u, hash, j) = i
  BY DEF Precedes
<1>5. IndexAt(t, hash, m) = DKIX_EMPTY
  BY <1>3 DEF IndexAt
<1>6. l \in 0..(m - 1)
  <2>1. m # l /\ ~ (m \in 0..(l - 1))
    BY <1>4, <1>5
  <2> QED
    BY <1>1, <2>1
<1>7. IndexAt(u, hash, l) = i
  BY <1>3, <1>4 DEF IndexAt
<1> QED
  BY <1>6, <1>7

\* The indices after entries 0..i-1 were indexed: as many slots are taken as
\* there are entries, each by an entry of its own.
IndexesUpTo(k, ix, i) ==
  /\ ix \in [Slots(k) -> -1..(i - 1)]
  /\ \A s, t \in Slots(k) : ix[s] >= 0 /\ ix[s] = ix[t] => s = t
  /\ Cardinality({s \in Slots(k) : ix[s] # DKIX_EMPTY}) = i

\* A table for which that holds, otherwise like ks, in which each of the
\* entries can be found, those of one hash in their order.
BuiltUpTo(ks, t, i, update) ==
  /\ \E ix : IndexesUpTo(ks.log2_size, ix, i) /\ t = [ks EXCEPT !.indices = ix]
  /\ \A j \in 0..(i - 1) : Meets(t, BuildHash(ks.entries[j], update), j)
  /\ \A a, b \in 0..(i - 1) :
       (a < b /\ BuildHash(ks.entries[a], update) = BuildHash(ks.entries[b], update))
         => Precedes(t, BuildHash(ks.entries[b], update), a, b)

\* A build starts with no entry indexed.
LEMMA NothingBuilt ==
  ASSUME NEW ks, IsHtKeys(ks), NEW update
  PROVE  BuiltUpTo(ks, NoIndices(ks), 0, update)
<1> DEFINE k == ks.log2_size
           ix == [s \in Slots(k) |-> DKIX_EMPTY]
<1>1. ix \in [Slots(k) -> -1..(0 - 1)]
  BY DEF DKIX_EMPTY
<1>2. \A s, t \in Slots(k) : ix[s] >= 0 /\ ix[s] = ix[t] => s = t
  BY DEF DKIX_EMPTY
<1>3. Cardinality({s \in Slots(k) : ix[s] # DKIX_EMPTY}) = 0
  <2>1. {s \in Slots(k) : ix[s] # DKIX_EMPTY} = {}
    OBVIOUS
  <2> QED
    BY <2>1, FS_EmptySet
<1>4. IndexesUpTo(k, ix, 0)
  BY <1>1, <1>2, <1>3 DEF IndexesUpTo
<1> QED
  BY <1>4 DEF BuiltUpTo, NoIndices

\* A step of a build indexes one more entry and keeps the others reachable.
LEMMA OneMoreBuilt ==
  ASSUME NEW ks, IsHtKeys(ks), NEW i \in Nat, i < Nslots(ks.log2_size),
         NEW t, NEW update \in BOOLEAN, BuiltUpTo(ks, t, i, update),
         \A j \in 0..i : BuildHash(ks.entries[j], update) \in Hashes
  PROVE  BuiltUpTo(ks, IndexEntry(t, i, update), i + 1, update)
<1> DEFINE k == ks.log2_size
           hash == BuildHash(ks.entries[i], update)
           slot == htkeys_find_empty_slot(t, hash)
           u == IndexEntry(t, i, update)
<1>1. PICK ix : IndexesUpTo(k, ix, i) /\ t = [ks EXCEPT !.indices = ix]
  BY DEF BuiltUpTo
<1> DEFINE new == [s \in Slots(k) |-> IF s = slot THEN i ELSE ix[s]]
<1>2. k \in Log2Sizes /\ Nslots(k) \in Nat /\ ProbeSteps(k) \in Nat
  BY SizeTypes DEF IsHtKeys
<1>3. t.log2_size = k /\ t.indices = ix /\ t.entries = ks.entries
  BY <1>1 DEF IsHtKeys
<1>4. /\ ix \in [Slots(k) -> -1..(i - 1)]
      /\ \A s, r \in Slots(k) : ix[s] >= 0 /\ ix[s] = ix[r] => s = r
      /\ Cardinality({s \in Slots(k) : ix[s] # DKIX_EMPTY}) = i
  BY <1>1 DEF IndexesUpTo
<1>5. Occupied(t) = {s \in Slots(k) : ix[s] # DKIX_EMPTY}
  BY <1>3, <1>4 DEF Occupied
<1>6. Cardinality(Occupied(t)) < Nslots(k)
  BY <1>2, <1>4, <1>5
<1>7. ix \in [Slots(k) -> Int]
  BY <1>4
<1>8. /\ slot \in Slots(k) /\ ix[slot] = DKIX_EMPTY
      /\ slot = SlotAt(t, hash, PathLength(t, hash))
      /\ PathLength(t, hash) \in 0..ProbeSteps(k)
      /\ \A m \in 0..(PathLength(t, hash) - 1) : IndexAt(t, hash, m) # DKIX_EMPTY
  <2>1. hash \in Hashes
    OBVIOUS
  <2> HIDE DEF hash
  <2> QED
    BY <1>2, <1>3, <1>6, <1>7, <2>1, EmptySlotFound DEF htkeys_find_empty_slot
<1> HIDE DEF slot
<1>9. new \in [Slots(k) -> -1..((i + 1) - 1)]
  BY <1>4
<1>10. \A s, r \in Slots(k) : new[s] >= 0 /\ new[s] = new[r] => s = r
  BY <1>4, <1>8
<1>11. Cardinality({s \in Slots(k) : new[s] # DKIX_EMPTY}) = i + 1
  <2>1. {s \in Slots(k) : new[s] # DKIX_EMPTY}
          = {s \in Slots(k) : ix[s] # DKIX_EMPTY} \cup {slot}
    BY <1>4, <1>8 DEF DKIX_EMPTY
  <2>2. IsFiniteSet({s \in Slots(k) : ix[s] # DKIX_EMPTY})
    <3>1. IsFiniteSet(Slots(k))
      BY <1>2, FS_Interval DEF Slots
    <3> QED
      BY <3>1, FS_Subset
  <2>3. slot \notin {s \in Slots(k) : ix[s] # DKIX_EMPTY}
    BY <1>8
  <2> QED
    BY <1>4, <2>1, <2>2, <2>3, FS_AddElement
<1>12. IndexesUpTo(k, new, i + 1)
  BY <1>9, <1>10, <1>11 DEF IndexesUpTo
<1>13. new = [ix EXCEPT ![slot] = i]
  BY <1>7
<1> HIDE DEF new
<1>14. u = [ks EXCEPT !.indices = new]
  BY <1>1, <1>3, <1>13 DEF IndexEntry, slot, IsHtKeys
<1>15. u.log2_size = k /\ u.indices = new
  BY <1>14 DEF IsHtKeys
<1> HIDE DEF u
<1>16. ASSUME NEW j \in 0..((i + 1) - 1)
       PROVE  Meets(u, BuildHash(ks.entries[j], update), j)
  <2>1. \A s \in Slots(k) : /\ t.indices[s] # DKIX_EMPTY => u.indices[s] # DKIX_EMPTY
                            /\ t.indices[s] # DKIX_EMPTY => u.indices[s] = t.indices[s]
    BY <1>3, <1>8, <1>15 DEF new
  <2>2. CASE j = i
    <3>1. SlotAt(u, hash, PathLength(t, hash)) = slot /\ u.indices[slot] = i
      BY <1>2, <1>3, <1>8, <1>15 DEF SlotAt, new
    <3>2. IndexAt(u, hash, PathLength(t, hash)) = i
      BY <3>1 DEF IndexAt
    <3>3. ASSUME NEW m \in 0..(PathLength(t, hash) - 1)
          PROVE  IndexAt(u, hash, m) # DKIX_EMPTY
      <4>1. m \in 0..ProbeSteps(k)
        BY <1>2, <1>8
      <4>2. hash \in Hashes
        OBVIOUS
      <4>3. SlotAt(t, hash, m) = SlotAt(u, hash, m) /\ SlotAt(t, hash, m) \in Slots(k)
        <5> HIDE DEF hash
        <5>1. ProbeSlots[hash][k] \in [0..ProbeSteps(k) -> Slots(k)]
          BY <1>2, <4>2, ProbesVisitAll
        <5> QED
          BY <1>3, <1>15, <4>1, <5>1 DEF SlotAt
      <4> QED
        BY <1>8, <2>1, <4>3 DEF IndexAt
    <3> QED
      BY <1>8, <1>15, <2>2, <3>2, <3>3 DEF Meets
  <2>3. CASE j # i
    <3>1. j \in 0..(i - 1) /\ j \in 0..i
      BY <2>3
    <3>2. Meets(t, BuildHash(ks.entries[j], update), j)
      BY <3>1 DEF BuiltUpTo
    <3>3. BuildHash(ks.entries[j], update) \in Hashes
      BY <3>1
    <3>4. \A s \in Slots(k) : t.indices[s] = j => u.indices[s] = j
      BY <2>1, <3>1 DEF DKIX_EMPTY
    <3> QED
      BY <1>2, <1>3, <1>15, <2>1, <3>2, <3>3, <3>4, MeetsKept
  <2> QED
    BY <2>2, <2>3
<1>17. ASSUME NEW a \in 0..((i + 1) - 1), NEW b \in 0..((i + 1) - 1), a < b,
              BuildHash(ks.entries[a], update) = BuildHash(ks.entries[b], update)
       PROVE  Precedes(u, BuildHash(ks.entries[b], update), a, b)
  <2>1. /\ a \in 0..(i - 1) /\ a # DKIX_EMPTY /\ b \in 0..i
        /\ BuildHash(ks.entries[b], update) \in Hashes
    <3>1. i \in Nat /\ a \in 0..((i + 1) - 1) /\ b \in 0..((i + 1) - 1) /\ a < b
      BY <1>17
    <3>2. a \in 0..(i - 1) /\ b \in 0..i
      BY <3>1
    <3>3. a # DKIX_EMPTY
      BY <3>2 DEF DKIX_EMPTY
    <3> QED
      BY <3>2, <3>3
  <2>2. \A s \in Slots(k) : t.indices[s] = a => u.indices[s] = a
    BY <1>3, <1>8, <1>15, <2>1 DEF new
  <2>3. CASE b = i
    <3>1. \A s \in Slots(k) : u.indices[s] = b => s = slot
      BY <1>4, <1>15, <2>3 DEF new
    <3>2. Meets(t, BuildHash(ks.entries[b], update), a)
      <4>1. Meets(t, BuildHash(ks.entries[a], update), a)
        BY <2>1, Zenon DEF BuiltUpTo
      <4> QED
        BY <1>17, <4>1, Zenon
    <3> QED
      BY <1>2, <1>3, <1>8, <1>15, <2>1, <2>2, <3>1, <3>2, StoredLast
  <2>4. CASE b # i
    <3>1. b \in 0..(i - 1)
      BY <2>4
    <3>2. Precedes(t, BuildHash(ks.entries[b], update), a, b)
      BY <1>17, <2>1, <3>1, Zenon DEF BuiltUpTo
    <3>3. \A s \in Slots(k) : u.indices[s] = b => t.indices[s] = b
      BY <1>3, <1>15, <2>4 DEF new
    <3> QED
      BY <1>2, <1>3, <1>15, <2>1, <2>2, <3>2, <3>3, PrecedesKept
  <2> QED
    BY <2>3, <2>4
<1> QED
  BY <1>12, <1>14, <1>16, <1>17 DEF BuiltUpTo, u

\* What htkeys_build_indices returns: the table with indices for n entries.
LEMMA IndicesBuilt ==
  ASSUME NEW ks, IsHtKeys(ks), NEW n \in Nat, n < Nslots(ks.log2_size),
         NEW update \in BOOLEAN,
         \A i \in 0..(n - 1) : BuildHash(ks.entries[i], update) \in Hashes
  PROVE  BuiltUpTo(ks, htkeys_build_indices(ks, n, update), n, update)
<1> DEFINE k == ks.log2_size
           T == {[ks EXCEPT !.indices = ix] : ix \in [Slots(k) -> Int]}
           step == [p \in T \X (1..n) |-> IndexEntry(p[1], p[2] - 1, update)]
<1>1. NoIndices(ks) \in T
  <2>1. [s \in Slots(k) |-> DKIX_EMPTY] \in [Slots(k) -> Int]
    BY DEF DKIX_EMPTY
  <2> QED
    BY <2>1 DEF NoIndices
<1>2. ASSUME NEW t \in T, NEW i \in Int PROVE IndexEntry(t, i, update) \in T
  <2>1. PICK ix \in [Slots(k) -> Int] : t = [ks EXCEPT !.indices = ix]
    OBVIOUS
  <2> DEFINE slot == htkeys_find_empty_slot(t, BuildHash(t.entries[i], update))
             new == [ix EXCEPT ![slot] = i]
  <2> HIDE DEF slot
  <2>2. new \in [Slots(k) -> Int]
    BY <1>2
  <2>3. IndexEntry(t, i, update) = [ks EXCEPT !.indices = new]
    BY <2>1 DEF IndexEntry, slot, IsHtKeys
  <2> HIDE DEF new
  <2> QED
    BY <2>2, <2>3
<1>3. step \in [T \X (1..n) -> T]
  <2>1. \A p \in T \X (1..n) : IndexEntry(p[1], p[2] - 1, update) \in T
    <3> HIDE DEF T
    <3> QED
      BY <1>2
  <2> HIDE DEF T
  <2> QED
    BY <2>1
<1>4. PICK f : IsRun(f, n, T, NoIndices(ks), step)
  <2> HIDE DEF T, step
  <2> QED
    BY <1>1, <1>3, BoundedRecursion
<1>5. f = [i \in 0..n |-> IF i = 0 THEN NoIndices(ks)
                                  ELSE IndexEntry(f[i - 1], i - 1, update)]
  <2>1. ASSUME NEW i \in 1..n
        PROVE  f[i] = IndexEntry(f[i - 1], i - 1, update)
    <3> HIDE DEF T
    <3>1. f \in [0..n -> T] /\ f[i] = step[<<f[i - 1], i>>]
      BY <1>4 DEF IsRun
    <3>2. <<f[i - 1], i>> \in T \X (1..n)
      BY <3>1
    <3> QED
      BY <3>1, <3>2
  <2>2. f[0] = NoIndices(ks) /\ f = [i \in 0..n |-> f[i]]
    BY <1>4 DEF IsRun
  <2>3. \A i \in 0..n : f[i] = IF i = 0 THEN NoIndices(ks)
                                  ELSE IndexEntry(f[i - 1], i - 1, update)
    <3>1. \A i \in 0..n : i # 0 => i \in 1..n
      OBVIOUS
    <3> HIDE DEF T, step
    <3> QED
      BY <2>1, <2>2, <3>1, Zenon
  <2> HIDE DEF T, step
  <2> QED
    BY <2>2, <2>3
<1>6. PICK g : /\ g = [i \in 0..n |-> IF i = 0 THEN NoIndices(ks)
                                     ELSE IndexEntry(g[i - 1], i - 1, update)]
               /\ htkeys_build_indices(ks, n, update) = g[n]
  BY <1>5, Zenon DEF htkeys_build_indices
<1> HIDE DEF T, step
<1> DEFINE S == {i \in 0..n : BuiltUpTo(ks, g[i], i, update)}
<1>7. 0 \in S
  <2>1. g[0] = NoIndices(ks)
    BY <1>6
  <2> QED
    BY <2>1, NothingBuilt
<1>8. \A i \in 0..(n - 1) : i \in S => i + 1 \in S
  <2> SUFFICES ASSUME NEW i \in 0..(n - 1), i \in S PROVE i + 1 \in S
    OBVIOUS
  <2>1. g[i + 1] = IndexEntry(g[i], i, update)
    <3>1. i + 1 \in 0..n /\ i + 1 # 0 /\ (i + 1) - 1 = i
      OBVIOUS
    <3> QED
      BY <1>6, <3>1
  <2>2. i \in Nat /\ i < Nslots(k)
    <3>1. Nslots(k) \in Nat
      BY SizeTypes DEF IsHtKeys
    <3> QED
      BY <3>1
  <2>3. BuiltUpTo(ks, IndexEntry(g[i], i, update), i + 1, update)
    BY <2>2, OneMoreBuilt
  <2> QED
    BY <2>1, <2>3
<1>9. n \in S
  <2> HIDE DEF S
  <2>1. 0..n \subseteq S
    BY <1>7, <1>8, BoundedInduction
  <2> QED
    BY <2>1
<1> QED
  BY <1>6, <1>9

-----------------------------------------------------------------------------
(* Sizes, exactly.                                                         *)

\* No power of two is a multiple of three.
LEMMA NoThirds ==
  ASSUME NEW k \in Nat
  PROVE  (2 ^ k) % 3 \in {1, 2}
<1> DEFINE S == {i \in 0..k : (2 ^ i) % 3 \in {1, 2}}
<1>1. 0 \in S
  BY SmallPowers
<1>2. ASSUME NEW i \in 0..(k - 1), i \in S PROVE i + 1 \in S
  <2>1. 2 ^ (i + 1) = 2 * 2 ^ i /\ 2 ^ i \in Nat
    BY PowerDoubles, PowerOfTwo
  <2>2. \A x \in Nat : x % 3 \in {1, 2} => (2 * x) % 3 \in {1, 2}
    OBVIOUS
  <2> QED
    BY <1>2, <2>1, <2>2
<1> HIDE DEF S
<1>3. 0..k \subseteq S
  BY <1>1, <1>2, BoundedInduction
<1>4. k \in S
  BY <1>3
<1> QED
  BY <1>4 DEF S

\* The bit length of x is k when x lies between two powers.
LEMMA BitLengthExact ==
  ASSUME NEW k \in Nat, k + 1 <= SIZE_T_BITS, NEW x \in Nat,
         2 ^ k <= x, x < 2 ^ (k + 1)
  PROVE  _ht_bit_length(x) = k + 1
<1> DEFINE fits == {j \in 0..SIZE_T_BITS : x < 2 ^ j}
<1>1. SIZE_T_BITS \in Nat
  BY ConstantsAssumption
<1>2. k + 1 \in fits /\ fits \in SUBSET Nat
  BY <1>1
<1>3. \A j \in fits : k + 1 <= j
  <2> SUFFICES ASSUME NEW j \in fits, j < k + 1 PROVE FALSE
    BY <1>1
  <2>1. j \in 0..k /\ x < 2 ^ j
    BY <1>1
  <2>2. 2 ^ j <= 2 ^ k /\ 2 ^ j \in Nat /\ 2 ^ k \in Nat
    BY <2>1, PowersGrow, PowerOfTwo
  <2> QED
    BY <2>1, <2>2
<1>4. _ht_bit_length(x) = Min(fits)
  BY <1>2 DEF _ht_bit_length
<1> HIDE DEF fits
<1>5. Min(fits) \in fits /\ Min(fits) <= k + 1 /\ Min(fits) \in Nat
  BY <1>2, MinOfNaturals
<1> QED
  BY <1>3, <1>4, <1>5

\* GROWTH_RATE of a full table asks for exactly the next size.
LEMMA GrowthIsOneSize ==
  ASSUME NEW k \in Log2Sizes, k # 0
  PROVE  calculate_log2_keysize(Capacity(k) * 3) = k + 1
<1> DEFINE p == 2 ^ k
           n == Capacity(k)
           q == 2 ^ (k - 3)
<1>1. k \in Nat /\ 3 <= k /\ k + 1 <= SIZE_T_BITS
  BY ConstantsAssumption DEF Log2Sizes, HT_LOG_MINSIZE
<1>2. p = 8 * q /\ q \in Nat \ {0} /\ 2 ^ (k + 1) = 2 * p
  <2>1. k - 3 \in Nat /\ k - 2 \in Nat /\ k - 1 \in Nat
    BY <1>1
  <2>2. /\ 2 ^ ((k - 3) + 1) = 2 * 2 ^ (k - 3)
        /\ 2 ^ ((k - 2) + 1) = 2 * 2 ^ (k - 2)
        /\ 2 ^ ((k - 1) + 1) = 2 * 2 ^ (k - 1)
        /\ 2 ^ (k + 1) = 2 * 2 ^ k
    BY <1>1, <2>1, PowerDoubles
  <2>3. (k - 3) + 1 = k - 2 /\ (k - 2) + 1 = k - 1 /\ (k - 1) + 1 = k
    BY <1>1
  <2>4. 2 ^ (k - 3) \in Nat \ {0} /\ 2 ^ (k - 2) \in Nat /\ 2 ^ (k - 1) \in Nat
        /\ 2 ^ k \in Nat
    BY <1>1, <2>1, PowerOfTwo
  <2> QED
    BY <2>2, <2>3, <2>4
<1>3. (2 * p) % 3 \in {1, 2}
  BY <1>1, <1>2, NoThirds
<1>4. n = (2 * p) \div 3
  BY DEF Capacity, USABLE_FRACTION, Nslots
<1> HIDE DEF p, n, q
<1>5. n \in Nat /\ (n * 3 = 16 * q - 1 \/ n * 3 = 16 * q - 2)
  BY <1>2, <1>3, <1>4
<1>6. OrMinsize(n * 3) = n * 3
  <2>1. ((n * 3) \div 8) % 2 = 1
    BY <1>2, <1>5
  <2> QED
    BY <2>1 DEF OrMinsize, HT_MINSIZE
<1>7. OrMinmask(n * 3 - 1) = 16 * q - 1
  <2>1. (n * 3 - 1) \div 8 = 2 * q - 1
    BY <1>2, <1>5
  <2> QED
    BY <1>2, <2>1 DEF OrMinmask, HT_MINSIZE
<1>8. _ht_bit_length(16 * q - 1) = k + 1
  <2>1. 16 * q - 1 \in Nat /\ 2 ^ k <= 16 * q - 1 /\ 16 * q - 1 < 2 ^ (k + 1)
    BY <1>2 DEF p
  <2> QED
    BY <1>1, <2>1, BitLengthExact
<1> QED
  BY <1>6, <1>7, <1>8 DEF calculate_log2_keysize, n

\* The static empty table has no capacity, and grows to the smallest size.
LEMMA EmptyGrows == Capacity(0) = 0 /\ calculate_log2_keysize(0 * 3) = HT_LOG_MINSIZE
<1>1. Capacity(0) = 0
  BY SmallPowers DEF Capacity, USABLE_FRACTION, Nslots
<1>2. OrMinmask(OrMinsize(0 * 3) - 1) = 7
  BY DEF OrMinmask, OrMinsize, HT_MINSIZE
<1>3. 2 ^ 2 <= 7 /\ 7 < 2 ^ (2 + 1)
  BY SmallPowers, PowerDoubles
<1>4. _ht_bit_length(7) = 2 + 1
  <2>1. 2 \in Nat /\ 7 \in Nat /\ 2 + 1 <= SIZE_T_BITS
    BY ConstantsAssumption
  <2> QED
    BY <1>3, <2>1, BitLengthExact
<1> QED
  BY <1>1, <1>2, <1>4 DEF calculate_log2_keysize, HT_LOG_MINSIZE

\* A larger table has no less room.
LEMMA CapacityGrows ==
  ASSUME NEW n \in Nat, NEW m \in 0..n
  PROVE  Capacity(m) <= Capacity(n)
<1>1. 2 ^ m <= 2 ^ n /\ 2 ^ m \in Nat /\ 2 ^ n \in Nat
  BY PowersGrow, PowerOfTwo
<1> QED
  BY <1>1 DEF Capacity, USABLE_FRACTION, Nslots

\* An estimate leaves no smaller table out but for the next smaller one: a
\* table of less than half the slots has no room for the items.
LEMMA EstimateTight ==
  ASSUME NEW n \in Nat, NEW k \in HT_LOG_MINSIZE..(estimate_log2_keysize(n) - 2)
  PROVE  Capacity(k) < n
<1> DEFINE m == (n * 3 + 1) \div 2
           y == OrMinsize(m) - 1
           x == OrMinmask(y)
           log2 == estimate_log2_keysize(n)
           q == 2 ^ (log2 - 5)
<1>1. m \in Nat /\ log2 = calculate_log2_keysize(m)
  BY DEF estimate_log2_keysize
<1>2. log2 \in 0..SIZE_T_BITS /\ SIZE_T_BITS \in Nat
  <2> HIDE DEF m, log2
  <2> QED
    BY <1>1, KeysizeIsNumber, ConstantsAssumption
<1>3. log2 - 5 \in Nat /\ log2 - 2 \in Nat /\ k \in 0..(log2 - 2)
  BY <1>2 DEF HT_LOG_MINSIZE
<1>4. log2 = _ht_bit_length(x)
  BY <1>1 DEF calculate_log2_keysize
<1>5. y \in Nat /\ x \in Nat
  <2> HIDE DEF m
  <2>1. OrMinsize(m) \in Nat /\ OrMinsize(m) >= 8
    BY <1>1 DEF OrMinsize, HT_MINSIZE
  <2> HIDE DEF y
  <2>2. y \in Nat
    BY <2>1 DEF y
  <2> QED
    BY <2>2 DEF OrMinmask, HT_MINSIZE
<1> HIDE DEF log2, x
<1>6. 2 ^ (log2 - 1) <= x
  <2> DEFINE fits == {j \in 0..SIZE_T_BITS : x < 2 ^ j}
  <2>1. log2 = IF fits = {} THEN SIZE_T_BITS ELSE Min(fits)
    BY <1>4 DEF _ht_bit_length
  <2>2. fits \in SUBSET Nat
    BY <1>2
  <2> HIDE DEF fits
  <2>3. \A j \in fits : Min(fits) <= j
    BY <2>2, MinOfNaturals
  <2>4. log2 - 1 \in 0..SIZE_T_BITS
    BY <1>2, <1>3
  <2>5. log2 - 1 \notin fits
    BY <1>2, <1>3, <2>1, <2>3
  <2>6. 2 ^ (log2 - 1) \in Nat
    BY <2>4, PowerOfTwo
  <2> QED
    BY <1>5, <2>4, <2>5, <2>6 DEF fits
<1>7. q \in Nat \ {0} /\ 2 ^ (log2 - 1) = 16 * q /\ 2 ^ (log2 - 2) = 8 * q
  <2>1. log2 - 4 \in Nat /\ log2 - 3 \in Nat /\ log2 - 2 \in Nat
    BY <1>2, <1>3
  <2>2. /\ 2 ^ ((log2 - 5) + 1) = 2 * 2 ^ (log2 - 5)
        /\ 2 ^ ((log2 - 4) + 1) = 2 * 2 ^ (log2 - 4)
        /\ 2 ^ ((log2 - 3) + 1) = 2 * 2 ^ (log2 - 3)
        /\ 2 ^ ((log2 - 2) + 1) = 2 * 2 ^ (log2 - 2)
    BY <1>3, <2>1, PowerDoubles
  <2>3. /\ (log2 - 5) + 1 = log2 - 4 /\ (log2 - 4) + 1 = log2 - 3
        /\ (log2 - 3) + 1 = log2 - 2 /\ (log2 - 2) + 1 = log2 - 1
    BY <1>2
  <2>4. /\ 2 ^ (log2 - 5) \in Nat \ {0} /\ 2 ^ (log2 - 4) \in Nat
        /\ 2 ^ (log2 - 3) \in Nat /\ 2 ^ (log2 - 2) \in Nat
    BY <1>3, <2>1, PowerOfTwo
  <2> QED
    BY <2>2, <2>3, <2>4
<1> HIDE DEF q
<1>8. 16 * q <= y
  <2>1. 16 * q <= 8 * (y \div 8) + 7
    BY <1>6, <1>7 DEF x, OrMinmask, HT_MINSIZE
  <2> HIDE DEF y
  <2> QED
    BY <1>5, <1>7, <2>1
<1>9. 16 * q <= m
  <2> HIDE DEF m
  <2>1. 16 * q + 1 <= IF (m \div 8) % 2 = 1 THEN m ELSE m + 8
    BY <1>1, <1>7, <1>8 DEF y, OrMinsize, HT_MINSIZE
  <2>2. CASE (m \div 8) % 2 = 1
    BY <1>1, <1>7, <2>1, <2>2
  <2>3. CASE (m \div 8) % 2 # 1
    <3>1. 16 * q + 1 <= m + 8
      BY <2>1, <2>3
    <3>2. m < 16 * q => m \div 8 = 2 * q - 1
      BY <1>1, <1>7, <3>1
    <3>3. (2 * q - 1) % 2 = 1
      BY <1>7
    <3> QED
      BY <1>1, <1>7, <2>3, <3>2, <3>3
  <2> QED
    BY <2>2, <2>3
<1>10. 32 * q <= 3 * n + 1
  BY <1>7, <1>9
<1>11. Capacity(k) <= Capacity(log2 - 2)
  BY <1>3, CapacityGrows
<1>12. Capacity(log2 - 2) = (16 * q) \div 3
  BY <1>7 DEF Capacity, USABLE_FRACTION, Nslots
<1>13. Capacity(k) \in Nat
  BY <1>3, CapacityBounds
<1> QED
  BY <1>7, <1>10, <1>11, <1>12, <1>13


-----------------------------------------------------------------------------
(* The live entries.                                                       *)

\* Live entries are finite in number, and all among the first nentries.
LEMMA LiveFinite ==
  ASSUME NEW ks, IsHtKeys(ks)
  PROVE  /\ ks.log2_size \in Log2Sizes
         /\ ks.nentries \in 0..Capacity(ks.log2_size)
         /\ Live(ks) \subseteq 0..(ks.nentries - 1)
         /\ Live(ks) \subseteq EntryIndices(ks.log2_size)
         /\ IsFiniteSet(Live(ks))
         /\ Cardinality(Live(ks)) \in Nat
         /\ Cardinality(Live(ks)) <= ks.nentries
<1>1. ks.log2_size \in Log2Sizes /\ ks.nentries \in 0..Capacity(ks.log2_size)
  BY DEF IsHtKeys
<1>2. Capacity(ks.log2_size) \in Nat
  BY <1>1, SizeTypes
<1>3. Live(ks) \in SUBSET (0..(ks.nentries - 1))
  BY DEF Live
<1>4. IsFiniteSet(0..(ks.nentries - 1)) /\ Cardinality(0..(ks.nentries - 1)) = ks.nentries
  <2> DEFINE n == ks.nentries
  <2>1. n \in Nat
    BY <1>1, <1>2
  <2> HIDE DEF n
  <2>2. IsFiniteSet(0..(n - 1))
        /\ Cardinality(0..(n - 1)) = IF 0 > n - 1 THEN 0 ELSE (n - 1) - 0 + 1
    BY <2>1, FS_Interval
  <2>3. Cardinality(0..(n - 1)) = n
    BY <2>1, <2>2
  <2> QED
    BY <2>2, <2>3 DEF n
<1>5. IsFiniteSet(Live(ks)) /\ Cardinality(Live(ks)) <= ks.nentries
  BY <1>3, <1>4, FS_Subset
<1>6. Live(ks) \subseteq EntryIndices(ks.log2_size)
  BY <1>1, <1>2, <1>3 DEF EntryIndices
<1> QED
  BY <1>1, <1>3, <1>5, <1>6, FS_CardinalityType

\* Counting the live entries from the front meets a live one each time.
LEMMA NthLiveIsLive ==
  ASSUME NEW ks, IsHtKeys(ks), NEW n \in 0..(Cardinality(Live(ks)) - 1)
  PROVE  NthLive(ks, n) \in Live(ks)
<1>1. /\ ks.nentries \in Nat /\ Cardinality(Live(ks)) \in Nat
      /\ Live(ks) \in SUBSET (0..(ks.nentries - 1))
  BY LiveFinite, SizeTypes
<1>2. n \in Nat /\ n < Cardinality(Live(ks))
  BY <1>1
<1>3. \E i \in Live(ks) : Cardinality({j \in Live(ks) : j < i}) = n
  BY <1>1, <1>2, NthElement
<1> QED
  BY <1>3, Zenon DEF NthLive

\* Live entries are typed, and a hash is no mark.
LEMMA LiveEntry ==
  ASSUME NEW ks, IsSound(ks), NEW i \in Live(ks)
  PROVE  /\ ks.entries[i] \in Entry
         /\ ks.entries[i].identity \in Identities
         /\ ks.entries[i].hash \in {HashOf[ks.entries[i].identity], MARK}
         /\ HashOf[ks.entries[i].identity] \in Hashes
         /\ HashOf[ks.entries[i].identity] # MARK
         /\ ks.entries[i].key = NULL <=> ks.entries[i].value = NULL
<1>1. i \in EntryIndices(ks.log2_size)
  BY LiveFinite DEF IsSound
<1>2. ks.entries[i] \in Entry
  BY <1>1 DEF IsSound, IsHtKeys
<1>3. ks.entries[i].identity \in Identities
  BY <1>2 DEF Live, Entry
<1> QED
  BY <1>2, <1>3, ConstantsAssumption DEF IsSound, Hashes, MARK

-----------------------------------------------------------------------------
(* Rebuilding: _md_resize and _md_shrink.                                  *)

\* A zeroed entry is an entry.
LEMMA ZeroEntryType == ZeroEntry \in Entry
  BY DEF ZeroEntry, Entry

\* Compaction yields typed entries, the live ones at the front.
LEMMA CompactEntriesType ==
  ASSUME NEW ks, IsSound(ks), NEW log2 \in Log2Sizes,
         Cardinality(Live(ks)) <= Capacity(log2)
  PROVE  /\ CompactEntries(ks, log2) \in [EntryIndices(log2) -> Entry]
         /\ \A i \in 0..(Cardinality(Live(ks)) - 1) :
              /\ CompactEntries(ks, log2)[i] = ks.entries[NthLive(ks, i)]
              /\ NthLive(ks, i) \in Live(ks)
         /\ \A i \in EntryIndices(log2) :
              i >= Cardinality(Live(ks)) => CompactEntries(ks, log2)[i] = ZeroEntry
<1> DEFINE n == Cardinality(Live(ks))
<1>1. IsHtKeys(ks) /\ n \in Nat /\ Capacity(log2) \in Nat
  BY LiveFinite, SizeTypes DEF IsSound
<1>2. \A i \in 0..(n - 1) : NthLive(ks, i) \in Live(ks) /\ i \in EntryIndices(log2)
  BY <1>1, NthLiveIsLive DEF EntryIndices
<1>3. ASSUME NEW i \in EntryIndices(log2), i < n
      PROVE  ks.entries[NthLive(ks, i)] \in Entry
  <2>1. i \in 0..(n - 1)
    BY <1>1, <1>3 DEF EntryIndices
  <2> QED
    BY <1>2, <2>1, LiveEntry
<1>4. CompactEntries(ks, log2) \in [EntryIndices(log2) -> Entry]
  <2> HIDE DEF n
  <2>1. \A i \in EntryIndices(log2) :
          (IF i < n THEN ks.entries[NthLive(ks, i)] ELSE ZeroEntry) \in Entry
    BY <1>3, ZeroEntryType
  <2> QED
    BY <2>1 DEF CompactEntries, n
<1>5. \A i \in 0..(n - 1) : CompactEntries(ks, log2)[i] = ks.entries[NthLive(ks, i)]
  BY <1>1, <1>2 DEF CompactEntries
<1>6. ASSUME NEW i \in EntryIndices(log2), i >= n
      PROVE  CompactEntries(ks, log2)[i] = ZeroEntry
  <2>1. ~ (i < n)
    BY <1>1, <1>6 DEF EntryIndices
  <2> HIDE DEF n
  <2> QED
    BY <2>1 DEF CompactEntries, n
<1> QED
  BY <1>2, <1>4, <1>5, <1>6

\* The table a rebuild starts from: the live entries at the front.
IsCompacted(base, ks, log2) ==
  /\ IsHtKeys(base)
  /\ base.log2_size = log2
  /\ base.nentries = Cardinality(Live(ks))
  /\ base.usable = Capacity(log2) - Cardinality(Live(ks))
  /\ base.entries = CompactEntries(ks, log2)

\* A rebuilt table: the live entries it was built from, closed up.
Compacted(new, ks) ==
  /\ Live(new) = 0..(Cardinality(Live(ks)) - 1)
  /\ \A i \in Live(new) : /\ NthLive(ks, i) \in Live(ks)
                          /\ new.entries[i] = ks.entries[NthLive(ks, i)]

\* The entries never used are empty, and those of one identity are met in the
\* order in which they were added.
IsOrdered(ks) ==
  /\ \A i \in EntryIndices(ks.log2_size) :
       i >= ks.nentries => ks.entries[i].identity = NULL
  /\ \A i, j \in Live(ks) :
       (i < j /\ ks.entries[i].identity = ks.entries[j].identity)
         => Precedes(ks, HashOf[ks.entries[j].identity], i, j)

\* Indices built anew for compacted entries make a sound table: every live
\* entry is reachable again, marked ones only when the build knows of marks.
\* Whatever the order of the old indices, the new ones are in order.
LEMMA RebuildSound ==
  ASSUME NEW ks, IsSound(ks), NEW log2 \in Log2Sizes, NEW base,
         IsCompacted(base, ks, log2), NEW update \in BOOLEAN,
         Cardinality(Live(ks)) <= Capacity(log2),
         update \/ IsSettled(ks),
         NEW new, new = htkeys_build_indices(base, Cardinality(Live(ks)), update)
  PROVE  /\ IsSound(new)
         /\ new.usable = Capacity(log2) - Cardinality(Live(ks))
         /\ Cardinality(Live(new)) = Cardinality(Live(ks))
         /\ IsSettled(ks) => IsSettled(new)
         /\ IsOrdered(new) /\ new.log2_size = log2 /\ Compacted(new, ks)
<1> DEFINE n == Cardinality(Live(ks))
<1>1. /\ n \in Nat /\ Capacity(log2) \in Nat /\ Nslots(log2) \in Nat
      /\ Capacity(log2) < Nslots(log2)
  BY LiveFinite, SizeTypes DEF IsSound
<1>2. /\ IsHtKeys(base) /\ base.log2_size = log2 /\ base.nentries = n
      /\ base.usable = Capacity(log2) - n /\ base.entries = CompactEntries(ks, log2)
  BY DEF IsCompacted
<1>3. ASSUME NEW i \in 0..(n - 1)
      PROVE  /\ base.entries[i] = ks.entries[NthLive(ks, i)]
             /\ NthLive(ks, i) \in Live(ks)
             /\ BuildHash(base.entries[i], update) = HashOf[base.entries[i].identity]
             /\ BuildHash(base.entries[i], update) \in Hashes
             /\ base.entries[i].identity # NULL
             /\ base.entries[i].hash \in {HashOf[base.entries[i].identity], MARK}
  <2>1. base.entries[i] = ks.entries[NthLive(ks, i)] /\ NthLive(ks, i) \in Live(ks)
    BY <1>2, CompactEntriesType
  <2>2. ks.entries[NthLive(ks, i)].hash = MARK => update
    BY <2>1 DEF IsSettled
  <2> QED
    BY <2>1, <2>2, LiveEntry, ConstantsAssumption DEF BuildHash
<1>4. BuiltUpTo(base, new, n, update)
  <2>1. n < Nslots(base.log2_size)
    BY <1>1, <1>2
  <2> QED
    BY <1>1, <1>2, <1>3, <2>1, IndicesBuilt
<1>5. PICK ix : IndexesUpTo(log2, ix, n) /\ new = [base EXCEPT !.indices = ix]
  BY <1>2, <1>4 DEF BuiltUpTo
<1>6. /\ ix \in [Slots(log2) -> -1..(n - 1)]
      /\ \A s, t \in Slots(log2) : ix[s] >= 0 /\ ix[s] = ix[t] => s = t
      /\ Cardinality({s \in Slots(log2) : ix[s] # DKIX_EMPTY}) = n
  BY <1>5 DEF IndexesUpTo
<1>7. /\ new.log2_size = log2 /\ new.indices = ix /\ new.entries = base.entries
      /\ new.nentries = n /\ new.usable = Capacity(log2) - n
  BY <1>2, <1>5 DEF IsHtKeys
<1>8. IsHtKeys(new)
  <2>1. ix \in [Slots(log2) -> DKIX_DUMMY..(Capacity(log2) - 1)]
    BY <1>1, <1>6 DEF DKIX_DUMMY
  <2> QED
    BY <1>2, <1>5, <1>7, <2>1 DEF IsHtKeys
<1>9. Live(new) = 0..(n - 1)
  BY <1>3, <1>7 DEF Live
<1>10. Cardinality(Live(new)) = n
  BY <1>1, <1>9, FS_Interval
<1>11. Cardinality(Occupied(new)) = n
  BY <1>6, <1>7 DEF Occupied
<1>12. ASSUME NEW i \in Live(new)
       PROVE  /\ new.entries[i].hash \in {HashOf[new.entries[i].identity], MARK}
              /\ new.entries[i].key = NULL => new.entries[i].hash # MARK
              /\ new.entries[i].key = NULL <=> new.entries[i].value = NULL
              /\ Meets(new, HashOf[new.entries[i].identity], i)
  <2>1. i \in 0..(n - 1)
    BY <1>9
  <2>2. Meets(new, HashOf[new.entries[i].identity], i)
    BY <1>3, <1>4, <1>7, <2>1 DEF BuiltUpTo
  <2>3. new.entries[i] = ks.entries[NthLive(ks, i)] /\ NthLive(ks, i) \in Live(ks)
    BY <1>3, <1>7, <2>1
  <2> QED
    BY <1>3, <1>7, <2>1, <2>2, <2>3 DEF IsSound
<1>13. IsSound(new)
  <2>1. \A s \in DOMAIN new.indices : new.indices[s] >= 0 => new.indices[s] \in Live(new)
    BY <1>1, <1>6, <1>7, <1>9
  <2> QED
    BY <1>1, <1>6, <1>7, <1>8, <1>11, <1>12, <2>1 DEF IsSound
<1>14. IsSettled(ks) => IsSettled(new)
  BY <1>3, <1>7, <1>9 DEF IsSettled
<1>15. IsOrdered(new)
  <2>1. ASSUME NEW i \in EntryIndices(log2), i >= n PROVE new.entries[i].identity = NULL
    BY <1>2, <1>7, <2>1, CompactEntriesType DEF ZeroEntry
  <2>2. ASSUME NEW i \in 0..(n - 1), NEW j \in 0..(n - 1), i < j,
               new.entries[i].identity = new.entries[j].identity
        PROVE  Precedes(new, HashOf[new.entries[j].identity], i, j)
    <3>1. /\ BuildHash(base.entries[i], update) = HashOf[new.entries[i].identity]
          /\ BuildHash(base.entries[j], update) = HashOf[new.entries[j].identity]
      BY <1>3, <1>7
    <3>2. Precedes(new, BuildHash(base.entries[j], update), i, j)
      BY <1>4, <2>2, <3>1, Zenon DEF BuiltUpTo
    <3> QED
      BY <3>1, <3>2
  <2> QED
    BY <1>7, <1>9, <2>1, <2>2 DEF IsOrdered
<1>16. Compacted(new, ks)
  BY <1>3, <1>7, <1>9 DEF Compacted
<1> QED
  BY <1>7, <1>10, <1>13, <1>14, <1>15, <1>16

\* A new table has its type, all its capacity and no entry.
LEMMA NewTableType ==
  ASSUME NEW log2 \in Log2Sizes
  PROVE  /\ IsHtKeys(htkeys_new(log2))
         /\ htkeys_new(log2).log2_size = log2
         /\ htkeys_new(log2).usable = Capacity(log2)
         /\ htkeys_new(log2).nentries = 0
         /\ htkeys_new(log2).indices = [s \in Slots(log2) |-> DKIX_EMPTY]
<1>1. Capacity(log2) \in Nat
  BY SizeTypes
<1>2. /\ [s \in Slots(log2) |-> DKIX_EMPTY]
           \in [Slots(log2) -> DKIX_DUMMY..(Capacity(log2) - 1)]
      /\ [i \in EntryIndices(log2) |-> ZeroEntry] \in [EntryIndices(log2) -> Entry]
  BY <1>1, ZeroEntryType DEF DKIX_EMPTY, DKIX_DUMMY
<1> QED
  BY <1>1, <1>2 DEF htkeys_new, IsHtKeys

\* _md_resize: the live entries move to a table that has room for them.
LEMMA ResizeSound ==
  ASSUME NEW ks, IsSound(ks), NEW log2 \in Log2Sizes, NEW update \in BOOLEAN,
         Cardinality(Live(ks)) <= Capacity(log2),
         update \/ IsSettled(ks),
         NEW new, new = _md_resize(ks, Cardinality(Live(ks)), log2, update)
  PROVE  /\ IsSound(new)
         /\ new.usable = Capacity(log2) - Cardinality(Live(ks))
         /\ Cardinality(Live(new)) = Cardinality(Live(ks))
         /\ IsSettled(ks) => IsSettled(new)
         /\ IsOrdered(new) /\ new.log2_size = log2 /\ Compacted(new, ks)
<1> DEFINE n == Cardinality(Live(ks))
           base == [htkeys_new(log2) EXCEPT !.entries = CompactEntries(ks, log2),
                                            !.usable = @ - n,
                                            !.nentries = n]
           u == htkeys_new(log2).usable - n
<1>1. n \in Nat /\ Capacity(log2) \in Nat
  BY LiveFinite, SizeTypes DEF IsSound
<1>2. CompactEntries(ks, log2) \in [EntryIndices(log2) -> Entry]
  BY CompactEntriesType
<1>3. /\ new = htkeys_build_indices(base, n, update)
      /\ base = [htkeys_new(log2) EXCEPT !.entries = CompactEntries(ks, log2),
                                         !.usable = u, !.nentries = n]
  BY DEF _md_resize
<1>4. u = Capacity(log2) - n /\ u \in 0..Capacity(log2) /\ n \in 0..Capacity(log2)
  <2>1. n <= Capacity(log2) /\ htkeys_new(log2).usable = Capacity(log2)
    BY NewTableType
  <2> HIDE DEF n
  <2> QED
    BY <1>1, <2>1
<1> HIDE DEF n, base, u
<1>5. IsCompacted(base, ks, log2)
  <2> DEFINE fresh == htkeys_new(log2)
  <2>1. IsHtKeys(fresh) /\ fresh.log2_size = log2
    BY NewTableType
  <2>2. base = [fresh EXCEPT !.entries = CompactEntries(ks, log2),
                             !.usable = u, !.nentries = n]
    BY <1>3
  <2> HIDE DEF fresh
  <2>3. /\ IsHtKeys(base) /\ base.log2_size = log2
        /\ base.entries = CompactEntries(ks, log2) /\ base.usable = u /\ base.nentries = n
    BY <1>2, <1>4, <2>1, <2>2 DEF IsHtKeys
  <2> QED
    BY <1>4, <2>3 DEF IsCompacted, n
<1> QED
  BY <1>3, <1>5, RebuildSound DEF n

\* _md_shrink: the table keeps its size, deleted entries become room.
LEMMA ShrinkSound ==
  ASSUME NEW ks, IsSound(ks), NEW update \in BOOLEAN, update \/ IsSettled(ks),
         NEW new, new = _md_shrink(ks, update)
  PROVE  /\ IsSound(new)
         /\ new.usable = Capacity(ks.log2_size) - Cardinality(Live(ks))
         /\ Cardinality(Live(new)) = Cardinality(Live(ks))
         /\ IsSettled(ks) => IsSettled(new)
         /\ IsOrdered(new) /\ new.log2_size = ks.log2_size /\ Compacted(new, ks)
<1> DEFINE n == Cardinality(Live(ks))
           log2 == ks.log2_size
           base == [ks EXCEPT !.entries = CompactEntries(ks, ks.log2_size),
                              !.usable = @ + ks.nentries - n,
                              !.nentries = n]
           u == ks.usable + ks.nentries - n
<1>1. /\ n \in Nat /\ log2 \in Log2Sizes /\ Capacity(log2) \in Nat
      /\ ks.nentries \in 0..Capacity(log2) /\ n <= ks.nentries
  BY LiveFinite, SizeTypes DEF IsSound
<1>2. CompactEntries(ks, log2) \in [EntryIndices(log2) -> Entry]
  BY <1>1, CompactEntriesType
<1>3. IsHtKeys(ks) /\ ks.usable + ks.nentries = Capacity(log2)
  BY DEF IsSound
<1>4. u = Capacity(log2) - n /\ u \in 0..Capacity(log2) /\ n \in 0..Capacity(log2)
  BY <1>1, <1>3 DEF IsHtKeys
<1>5. /\ new = htkeys_build_indices(base, n, update)
      /\ base = [ks EXCEPT !.entries = CompactEntries(ks, ks.log2_size),
                           !.usable = u, !.nentries = n]
  BY DEF _md_shrink
<1> HIDE DEF n, base, u
<1>6. /\ IsHtKeys(base) /\ base.log2_size = log2 /\ base.nentries = n /\ base.usable = u
      /\ base.entries = CompactEntries(ks, log2)
  BY <1>2, <1>3, <1>4, <1>5 DEF IsHtKeys
<1>7. IsCompacted(base, ks, log2)
  BY <1>4, <1>6 DEF IsCompacted, n
<1> QED
  BY <1>1, <1>5, <1>7, RebuildSound DEF n

\* Room for one more item, whatever had to be done for it.
LEMMA RoomMade ==
  ASSUME NEW ks, IsSound(ks), NEW update \in BOOLEAN, update \/ IsSettled(ks),
         CanMakeRoom(ks, Cardinality(Live(ks))),
         NEW new, new = MakeRoom(ks, Cardinality(Live(ks)), update)
  PROVE  /\ IsSound(new)
         /\ new.usable >= 1
         /\ Cardinality(Live(new)) = Cardinality(Live(ks))
         /\ IsSettled(ks) => IsSettled(new)
         /\ IsOrdered(ks) => IsOrdered(new)
         /\ new.log2_size = IF NeedsGrowth(ks, Cardinality(Live(ks)))
              THEN calculate_log2_keysize(GROWTH_RATE(Cardinality(Live(ks))))
              ELSE ks.log2_size
         /\ new = ks \/ Compacted(new, ks)
<1> DEFINE n == Cardinality(Live(ks))
           log2 == calculate_log2_keysize(GROWTH_RATE(n))
<1>1. /\ n \in Nat /\ ks.log2_size \in Log2Sizes /\ Capacity(ks.log2_size) \in Nat
      /\ ks.nentries \in 0..Capacity(ks.log2_size) /\ n <= ks.nentries
      /\ ks.usable \in 0..Capacity(ks.log2_size)
  BY LiveFinite, SizeTypes DEF IsSound, IsHtKeys
<1>2. CASE ~ NeedsRoom(ks)
  BY <1>1, <1>2 DEF MakeRoom, NeedsRoom, NeedsGrowth
<1>3. CASE NeedsRoom(ks) /\ n < ks.nentries
  <2>1. new = _md_shrink(ks, update)
    BY <1>3 DEF MakeRoom
  <2>2. Capacity(ks.log2_size) - n >= 1
    BY <1>1, <1>3
  <2>3. ~ NeedsGrowth(ks, n)
    BY <1>3 DEF NeedsGrowth
  <2> QED
    BY <2>1, <2>2, <2>3, ShrinkSound
<1>4. CASE NeedsRoom(ks) /\ ~ (n < ks.nentries)
  <2>1. new = _md_resize(ks, n, log2, update)
    BY <1>4 DEF MakeRoom
  <2>2. ~ (log2 >= SIZE_T_BITS) /\ log2 = calculate_log2_keysize(n * 3)
    BY <1>4 DEF CanMakeRoom, NeedsGrowth, TooLarge, GROWTH_RATE
  <2>3. log2 < SIZE_T_BITS
    <3>1. n * 3 \in Nat
      BY <1>1
    <3> QED
      BY <2>2, <3>1, KeysizeIsNumber, ConstantsAssumption
  <2>4. log2 \in Log2Sizes /\ n + 1 <= Capacity(log2) /\ Capacity(log2) \in Nat
    <3>1. n * 3 \in Nat
      BY <1>1
    <3> QED
      BY <1>1, <2>2, <2>3, <3>1, KeysizeSuffices, GrowthSuffices, SizeTypes
  <2> HIDE DEF log2
  <2>5. n <= Capacity(log2) /\ Capacity(log2) - n >= 1
    BY <1>1, <2>4
  <2>6. NeedsGrowth(ks, n) /\ log2 = calculate_log2_keysize(GROWTH_RATE(n))
    BY <1>4 DEF NeedsGrowth, log2
  <2> QED
    BY <2>1, <2>4, <2>5, <2>6, ResizeSound
<1> QED
  BY <1>2, <1>3, <1>4

-----------------------------------------------------------------------------
(* Writing.                                                                *)

\* A sound table is never full: the number of its occupied slots is bounded
\* by its capacity, and that is less than the number of slots.
LEMMA NeverFull ==
  ASSUME NEW ks, IsSound(ks)
  PROVE  /\ ks.log2_size \in Log2Sizes
         /\ ks.indices \in [Slots(ks.log2_size) -> Int]
         /\ Cardinality(Occupied(ks)) < Nslots(ks.log2_size)
<1>1. ks.log2_size \in Log2Sizes /\ ks.nentries \in 0..Capacity(ks.log2_size)
  BY DEF IsSound, IsHtKeys
<1>2. ks.indices \in [Slots(ks.log2_size) -> Int]
  <2>1. ks.indices \in [Slots(ks.log2_size)
                          -> DKIX_DUMMY..(Capacity(ks.log2_size) - 1)]
    BY DEF IsSound, IsHtKeys
  <2> QED
    BY <2>1
<1>3. Cardinality(Occupied(ks)) = ks.nentries
  BY DEF IsSound
<1> QED
  BY <1>1, <1>2, <1>3, SizeTypes

\* A write that deletes entries and empties their slots, or neither, keeps the
\* order of the others.
LEMMA OrderKept ==
  ASSUME NEW ks, IsSound(ks), IsOrdered(ks), NEW new, IsSound(new),
         new.log2_size = ks.log2_size, new.nentries = ks.nentries,
         \A i \in EntryIndices(ks.log2_size) :
           new.entries[i].identity \in {ks.entries[i].identity, NULL},
         \A s \in Slots(ks.log2_size), i \in Live(new) :
           new.indices[s] = i <=> ks.indices[s] = i
  PROVE  IsOrdered(new)
<1> DEFINE k == ks.log2_size
<1>1. /\ IsHtKeys(ks) /\ IsHtKeys(new) /\ k \in Log2Sizes
      /\ \A i \in Live(new) : i \in EntryIndices(k)
  BY LiveFinite DEF IsSound
<1>2. \A i \in Live(new) : /\ i \in Live(ks)
                           /\ new.entries[i].identity = ks.entries[i].identity
  BY <1>1 DEF Live
<1>3. \A i \in EntryIndices(k) : i >= new.nentries => new.entries[i].identity = NULL
  BY DEF IsOrdered
<1>4. ASSUME NEW i \in Live(new), NEW j \in Live(new), i < j,
             new.entries[i].identity = new.entries[j].identity
      PROVE  Precedes(new, HashOf[new.entries[j].identity], i, j)
  <2>1. Precedes(ks, HashOf[ks.entries[j].identity], i, j)
    BY <1>2, <1>4 DEF IsOrdered
  <2>2. HashOf[ks.entries[j].identity] \in Hashes
    BY <1>2, LiveEntry
  <2>3. Precedes(new, HashOf[ks.entries[j].identity], i, j)
    BY <1>1, <2>1, <2>2, PrecedesKept
  <2> QED
    BY <1>2, <2>3
<1> QED
  BY <1>3, <1>4 DEF IsOrdered

Rewritten(ks, entries) == [ks EXCEPT !.entries = entries]

\* Entries rewritten in place: the identities stay, hence the live entries
\* and all that refers to them.
LEMMA RewriteSound ==
  ASSUME NEW ks, IsSound(ks),
         NEW entries \in [EntryIndices(ks.log2_size) -> Entry],
         \A i \in EntryIndices(ks.log2_size) :
           entries[i].identity = ks.entries[i].identity,
         \A i \in Live(ks) :
           /\ entries[i].hash \in {HashOf[entries[i].identity], MARK}
           /\ entries[i].key = NULL => entries[i].hash # MARK
           /\ entries[i].key = NULL <=> entries[i].value = NULL,
         NEW new, new = Rewritten(ks, entries)
  PROVE  /\ IsSound(new) /\ Live(new) = Live(ks)
         /\ new.log2_size = ks.log2_size
         /\ IsOrdered(ks) => IsOrdered(new)
<1>1. IsHtKeys(ks)
  BY DEF IsSound
<1>2. /\ IsHtKeys(new) /\ new.log2_size = ks.log2_size /\ new.indices = ks.indices
      /\ new.nentries = ks.nentries /\ new.usable = ks.usable /\ new.entries = entries
  BY <1>1 DEF IsHtKeys, Rewritten
<1>3. Live(new) = Live(ks)
  <2>1. 0..(ks.nentries - 1) \subseteq EntryIndices(ks.log2_size)
    BY <1>1, LiveFinite, SizeTypes DEF EntryIndices
  <2>2. \A i \in 0..(ks.nentries - 1) :
          entries[i].identity # NULL <=> ks.entries[i].identity # NULL
    BY <2>1
  <2> QED
    BY <1>2, <2>2, Zenon DEF Live
<1>4. \A i \in Live(ks) : Meets(new, HashOf[new.entries[i].identity], i)
  <2> SUFFICES ASSUME NEW i \in Live(ks)
               PROVE  Meets(new, HashOf[new.entries[i].identity], i)
    OBVIOUS
  <2>1. Meets(ks, HashOf[ks.entries[i].identity], i)
    BY DEF IsSound
  <2>2. i \in EntryIndices(ks.log2_size)
    BY <1>1, LiveFinite
  <2>3. new.entries[i].identity = ks.entries[i].identity
    BY <1>2, <2>2
  <2>4. HashOf[ks.entries[i].identity] \in Hashes
    BY LiveEntry
  <2> QED
    <3>1. ks.log2_size \in Log2Sizes
      BY NeverFull
    <3>2. \A s \in Slots(ks.log2_size) :
            /\ ks.indices[s] # DKIX_EMPTY => new.indices[s] # DKIX_EMPTY
            /\ ks.indices[s] = i => new.indices[s] = i
      BY <1>2
    <3>3. Meets(new, HashOf[ks.entries[i].identity], i)
      BY <1>2, <2>1, <2>4, <3>1, <3>2, MeetsKept
    <3> QED
      BY <2>3, <3>3
<1>5. Occupied(new) = Occupied(ks)
  BY <1>2, Zenon DEF Occupied
<1>6. IsSound(new)
  BY <1>2, <1>3, <1>4, <1>5 DEF IsSound
<1>7. IsOrdered(ks) => IsOrdered(new)
  BY <1>2, <1>6, OrderKept
<1> QED
  BY <1>2, <1>3, <1>6, <1>7

\* A table with an entry more, after all others.
Stored(new, ks, entry) ==
  /\ \A i \in Live(ks) : i < ks.nentries /\ new.entries[i] = ks.entries[i]
  /\ Live(new) = Live(ks) \cup {ks.nentries}
  /\ new.entries[ks.nentries] = entry

\* A new entry at the end, found by way of the first EMPTY slot of its path.
LEMMA StoreSound ==
  ASSUME NEW ks, IsSound(ks), ks.usable >= 1,
         NEW entry \in Entry, entry.identity \in Identities,
         entry.key # NULL, entry.value # NULL,
         entry.hash \in {HashOf[entry.identity], MARK},
         NEW new,
         new = StoreEntry(ks, htkeys_find_empty_slot(ks, HashOf[entry.identity]), entry)
  PROVE  /\ IsSound(new)
         /\ Cardinality(Live(new)) = Cardinality(Live(ks)) + 1
         /\ IsSettled(ks) /\ entry.hash # MARK => IsSettled(new)
         /\ IsOrdered(ks) => IsOrdered(new)
         /\ new.log2_size = ks.log2_size
         /\ Stored(new, ks, entry)
<1> DEFINE k == ks.log2_size
           n == ks.nentries
           hash == HashOf[entry.identity]
           path == PathLength(ks, hash)
           slot == htkeys_find_empty_slot(ks, hash)
           ix == [ks.indices EXCEPT ![slot] = n]
           es == [ks.entries EXCEPT ![n] = entry]
<1>1. /\ IsHtKeys(ks) /\ k \in Log2Sizes /\ Capacity(k) \in Nat
      /\ n \in Nat /\ n \in EntryIndices(k)
      /\ ks.usable + n = Capacity(k) /\ ks.usable \in 0..Capacity(k)
      /\ ks.indices \in [Slots(k) -> DKIX_DUMMY..(Capacity(k) - 1)]
      /\ ks.entries \in [EntryIndices(k) -> Entry]
      /\ ProbeSteps(k) \in Nat
  <2>1. IsHtKeys(ks) /\ k \in Log2Sizes /\ Capacity(k) \in Nat /\ ProbeSteps(k) \in Nat
    BY SizeTypes DEF IsSound, IsHtKeys
  <2>2. ks.usable + n = Capacity(k)
    BY DEF IsSound
  <2>3. n \in 0..Capacity(k) /\ ks.usable \in 0..Capacity(k)
    BY <2>1 DEF IsHtKeys
  <2>4. n \in EntryIndices(k)
    BY <2>1, <2>2, <2>3 DEF EntryIndices
  <2> QED
    BY <2>1, <2>2, <2>3, <2>4 DEF IsHtKeys
<1>2. hash \in Hashes
  BY DEF Hashes
<1>3. /\ path \in 0..ProbeSteps(k)
      /\ \A m \in 0..(path - 1) : IndexAt(ks, hash, m) # DKIX_EMPTY
      /\ slot \in Slots(k) /\ ks.indices[slot] = DKIX_EMPTY
      /\ slot = SlotAt(ks, hash, path)
  <2> HIDE DEF hash
  <2> QED
    BY <1>2, NeverFull, EmptySlotFound DEF htkeys_find_empty_slot
<1> HIDE DEF slot, path
<1>4. ix \in [Slots(k) -> DKIX_DUMMY..(Capacity(k) - 1)]
  <2>1. n \in DKIX_DUMMY..(Capacity(k) - 1)
    BY <1>1 DEF EntryIndices, DKIX_DUMMY
  <2> QED
    BY <1>1, <2>1
<1>5. es \in [EntryIndices(k) -> Entry]
  BY <1>1
<1>6. new = [ks EXCEPT !.indices = ix, !.entries = es, !.usable = ks.usable - 1,
                       !.nentries = n + 1]
  BY DEF StoreEntry, slot
<1>7. /\ \A s \in Slots(k) : ix[s] = IF s = slot THEN n ELSE ks.indices[s]
      /\ \A i \in EntryIndices(k) : es[i] = IF i = n THEN entry ELSE ks.entries[i]
  BY <1>1
<1> HIDE DEF ix, es
<1>8. /\ new.log2_size = k /\ new.indices = ix /\ new.entries = es
      /\ new.usable = ks.usable - 1 /\ new.nentries = n + 1
  BY <1>1, <1>6 DEF IsHtKeys
<1>9. IsHtKeys(new)
  <2>1. ks.usable - 1 \in 0..Capacity(k) /\ n + 1 \in 0..Capacity(k)
    BY <1>1 DEF EntryIndices
  <2> QED
    BY <1>1, <1>4, <1>5, <1>6, <1>8, <2>1 DEF IsHtKeys
<1>10. Live(new) = Live(ks) \cup {n}
  <2>1. 0..((n + 1) - 1) = (0..(n - 1)) \cup {n} /\ n \notin 0..(n - 1)
    BY <1>1
  <2>2. es[n] = entry /\ entry.identity # NULL
    BY <1>1, <1>7, ConstantsAssumption
  <2>3. \A i \in 0..(n - 1) : es[i] = ks.entries[i]
    <3>1. \A i \in 0..(n - 1) : i \in EntryIndices(k) /\ i # n
      BY <1>1 DEF EntryIndices
    <3> QED
      BY <1>7, <3>1
  <2> QED
    BY <1>8, <2>1, <2>2, <2>3, Zenon DEF Live
<1>11. n \notin Live(ks) /\ Cardinality(Live(new)) = Cardinality(Live(ks)) + 1
  <2>1. n \notin Live(ks) /\ IsFiniteSet(Live(ks))
    BY <1>1, LiveFinite
  <2> QED
    BY <1>10, <2>1, FS_AddElement
<1>12. Cardinality(Occupied(new)) = n + 1
  <2>1. Occupied(new) = Occupied(ks) \cup {slot} /\ slot \notin Occupied(ks)
    BY <1>1, <1>3, <1>4, <1>7, <1>8 DEF Occupied, DKIX_EMPTY
  <2>2. IsFiniteSet(Occupied(ks))
    <3>1. IsFiniteSet(Slots(k))
      BY <1>1, SlotsFinite
    <3>2. Occupied(ks) \in SUBSET Slots(k)
      BY <1>1 DEF Occupied
    <3> QED
      BY <3>1, <3>2, FS_Subset
  <2>3. Cardinality(Occupied(ks)) = n
    BY DEF IsSound
  <2> QED
    BY <2>1, <2>2, <2>3, FS_AddElement
<1>13. \A s \in Slots(k) : ix[s] >= 0 => ix[s] \in Live(new)
  BY <1>1, <1>7, <1>10 DEF IsSound
<1>14. \A s, t \in Slots(k) : ix[s] >= 0 /\ ix[s] = ix[t] => s = t
  <2>1. \A s \in Slots(k) : ks.indices[s] # n
    BY <1>1, <1>11 DEF IsSound
  <2> QED
    BY <1>1, <1>7, <2>1 DEF IsSound
<1>15. ASSUME NEW i \in Live(ks)
       PROVE  /\ new.entries[i] = ks.entries[i]
              /\ Meets(new, HashOf[new.entries[i].identity], i)
  <2>1. i \in EntryIndices(k) /\ i # n /\ i \in Nat
    BY <1>1, <1>11, LiveFinite DEF EntryIndices
  <2>2. new.entries[i] = ks.entries[i]
    BY <1>7, <1>8, <2>1
  <2>3. Meets(ks, HashOf[ks.entries[i].identity], i)
    BY DEF IsSound
  <2>4. HashOf[ks.entries[i].identity] \in Hashes
    BY LiveEntry
  <2>5. \A s \in Slots(k) : /\ ks.indices[s] # DKIX_EMPTY => new.indices[s] # DKIX_EMPTY
                            /\ ks.indices[s] = i => new.indices[s] = i
    BY <1>3, <1>7, <1>8, <2>1 DEF DKIX_EMPTY
  <2> QED
    BY <1>1, <1>8, <2>2, <2>3, <2>4, <2>5, MeetsKept
<1>16. new.entries[n] = entry /\ Meets(new, hash, n)
  <2>1. new.entries[n] = entry
    BY <1>1, <1>7, <1>8
  <2>2. \A m \in 0..path : SlotAt(new, hash, m) = SlotAt(ks, hash, m)
                           /\ SlotAt(ks, hash, m) \in Slots(k)
    <3> HIDE DEF hash
    <3>1. ProbeSlots[hash][k] \in [0..ProbeSteps(k) -> Slots(k)]
      BY <1>1, <1>2, ProbesVisitAll
    <3>2. \A m \in 0..path : m \in 0..ProbeSteps(k)
      BY <1>1, <1>3
    <3> QED
      BY <1>8, <3>1, <3>2 DEF SlotAt
  <2>3. IndexAt(new, hash, path) = n
    <3>1. SlotAt(new, hash, path) = slot
      BY <1>1, <1>3, <2>2
    <3> QED
      BY <1>3, <1>7, <1>8, <3>1 DEF IndexAt
  <2>4. ASSUME NEW m \in 0..(path - 1) PROVE IndexAt(new, hash, m) # DKIX_EMPTY
    <3>1. m \in 0..path
      BY <1>1, <1>3
    <3>2. IndexAt(ks, hash, m) # DKIX_EMPTY
      BY <1>3
    <3> QED
      BY <1>1, <1>7, <1>8, <2>2, <3>1, <3>2 DEF IndexAt, DKIX_EMPTY
  <2> QED
    BY <1>3, <1>8, <2>1, <2>3, <2>4 DEF Meets
<1>17. \A i \in Live(new) :
         /\ new.entries[i].hash \in {HashOf[new.entries[i].identity], MARK}
         /\ new.entries[i].key = NULL => new.entries[i].hash # MARK
         /\ new.entries[i].key = NULL <=> new.entries[i].value = NULL
         /\ Meets(new, HashOf[new.entries[i].identity], i)
  BY <1>10, <1>15, <1>16 DEF IsSound
<1>18. IsSound(new)
  BY <1>1, <1>4, <1>8, <1>9, <1>12, <1>13, <1>14, <1>17 DEF IsSound
<1>19. IsSettled(ks) /\ entry.hash # MARK => IsSettled(new)
  BY <1>10, <1>15, <1>16 DEF IsSettled
<1>20. ASSUME IsOrdered(ks) PROVE IsOrdered(new)
  <2>1. ASSUME NEW i \in EntryIndices(k), i >= n + 1
        PROVE  new.entries[i].identity = NULL
    <3>1. i # n /\ i >= n
      BY <1>1, <2>1 DEF EntryIndices
    <3>2. ks.entries[i].identity = NULL
      BY <1>20, <2>1, <3>1 DEF IsOrdered
    <3> QED
      BY <1>7, <1>8, <2>1, <3>1, <3>2
  <2>2. ASSUME NEW i \in Live(new), NEW j \in Live(new), i < j,
               new.entries[i].identity = new.entries[j].identity
        PROVE  Precedes(new, HashOf[new.entries[j].identity], i, j)
    <3>1. i \in Live(ks) /\ i \in 0..(n - 1) /\ i # DKIX_EMPTY
      BY <1>1, <1>10, <2>2, LiveFinite DEF DKIX_EMPTY
    <3>2. \A s \in Slots(k) : ks.indices[s] = i => new.indices[s] = i
      BY <1>3, <1>7, <1>8, <3>1
    <3>3. CASE j = n
      <4>1. new.entries[j].identity = entry.identity
        BY <1>16, <3>3
      <4>2. ks.entries[i].identity = entry.identity
        BY <1>15, <2>2, <3>1, <4>1
      <4>3. Meets(ks, hash, i)
        BY <3>1, <4>2 DEF IsSound
      <4>4. \A s \in Slots(k) : new.indices[s] = n => s = slot
        BY <1>1, <1>7, <1>8, <1>11 DEF IsSound
      <4>5. Precedes(new, hash, i, n)
        <5> HIDE DEF hash
        <5> QED
          BY <1>1, <1>2, <1>3, <1>8, <3>1, <3>2, <4>3, <4>4, StoredLast
      <4> QED
        BY <3>3, <4>1, <4>5
    <3>4. CASE j # n
      <4>1. j \in Live(ks) /\ j # DKIX_EMPTY
        BY <1>1, <1>10, <3>4, LiveFinite DEF DKIX_EMPTY
      <4>2. ks.entries[i] = new.entries[i] /\ ks.entries[j] = new.entries[j]
        BY <1>15, <3>1, <4>1
      <4>3. Precedes(ks, HashOf[ks.entries[j].identity], i, j)
        BY <1>20, <2>2, <3>1, <4>1, <4>2 DEF IsOrdered
      <4>4. HashOf[ks.entries[j].identity] \in Hashes
        BY <4>1, LiveEntry
      <4>5. \A s \in Slots(k) : new.indices[s] = j => ks.indices[s] = j
        BY <1>7, <1>8, <3>4
      <4> QED
        BY <1>1, <1>8, <3>2, <4>2, <4>3, <4>4, <4>5, PrecedesKept
    <3> QED
      BY <3>3, <3>4
  <2> QED
    BY <1>8, <2>1, <2>2 DEF IsOrdered
<1>21. Stored(new, ks, entry)
  <2>1. \A i \in Live(ks) : i < n
    BY <1>1, LiveFinite
  <2> QED
    BY <1>10, <1>15, <1>16, <2>1 DEF Stored
<1> QED
  BY <1>8, <1>11, <1>18, <1>19, <1>20, <1>21

-----------------------------------------------------------------------------
(* Deleting.                                                               *)

IndexedBy(ks, slots) == {ks.indices[s] : s \in slots}

\* new is ks with a set of slots in use emptied, and their entries deleted.
Emptied(new, ks, slots) ==
  /\ slots \subseteq Slots(ks.log2_size)
  /\ \A s \in slots : ks.indices[s] >= 0
  /\ IsHtKeys(new)
  /\ new.log2_size = ks.log2_size /\ new.usable = ks.usable /\ new.nentries = ks.nentries
  /\ \A s \in Slots(ks.log2_size) :
       new.indices[s] = IF s \in slots THEN DKIX_DUMMY ELSE ks.indices[s]
  /\ \A i \in EntryIndices(ks.log2_size) :
       new.entries[i].identity = IF i \in IndexedBy(ks, slots)
                                   THEN NULL ELSE ks.entries[i].identity
  /\ \A i \in Live(ks) \ IndexedBy(ks, slots) :
       /\ new.entries[i].hash \in {HashOf[new.entries[i].identity], MARK}
       /\ new.entries[i].key = NULL => new.entries[i].hash # MARK
       /\ new.entries[i].key = NULL <=> new.entries[i].value = NULL

\* Emptying slots, whatever writes them: exactly their entries die, and the
\* others stay reachable, for a DUMMY slot does not end a path.
LEMMA EmptiedSound ==
  ASSUME NEW ks, IsSound(ks), NEW slots, NEW new, Emptied(new, ks, slots)
  PROVE  /\ IsSound(new)
         /\ Live(new) = Live(ks) \ IndexedBy(ks, slots)
         /\ Cardinality(slots) \in Nat
         /\ Cardinality(Live(new)) = Cardinality(Live(ks)) - Cardinality(slots)
         /\ IsOrdered(ks) => IsOrdered(new)
<1> DEFINE k == ks.log2_size
           gone == IndexedBy(ks, slots)
<1>1. /\ k \in Log2Sizes /\ IsHtKeys(ks) /\ IsHtKeys(new)
      /\ ks.indices \in [Slots(k) -> Int]
      /\ new.log2_size = k /\ new.usable = ks.usable /\ new.nentries = ks.nentries
      /\ slots \in SUBSET Slots(k)
      /\ \A s \in slots : ks.indices[s] >= 0
      /\ \A s \in Slots(k) :
           new.indices[s] = IF s \in slots THEN DKIX_DUMMY ELSE ks.indices[s]
  BY NeverFull DEF IsSound, Emptied
<1>2. new.indices \in [Slots(k) -> Int]
  BY <1>1 DEF IsHtKeys
<1>3. gone \subseteq Live(ks)
  BY <1>1 DEF IndexedBy, IsSound
<1>4. Live(new) = Live(ks) \ gone
  <2>1. \A i \in 0..(ks.nentries - 1) :
          new.entries[i].identity = IF i \in gone THEN NULL ELSE ks.entries[i].identity
    <3>1. 0..(ks.nentries - 1) \subseteq EntryIndices(k)
      BY <1>1, LiveFinite, SizeTypes DEF EntryIndices
    <3> QED
      BY <3>1 DEF Emptied
  <2> QED
    BY <1>1, <2>1, Zenon DEF Live
<1>5. IsFiniteSet(slots) /\ Cardinality(slots) \in Nat
  BY <1>1, SlotsFinite, FS_Subset, FS_CardinalityType
<1>6. Cardinality(gone) = Cardinality(slots) /\ IsFiniteSet(gone)
  <2> DEFINE f == [s \in slots |-> ks.indices[s]]
  <2>1. f \in Surjection(slots, gone)
    BY DEF Surjection, IndexedBy
  <2>2. f \in Injection(slots, gone)
    <3>1. \A s, t \in slots : f[s] = f[t] => s = t
      BY <1>1 DEF IsSound
    <3> QED
      BY <2>1, <3>1 DEF Injection, IsInjective, Surjection
  <2> HIDE DEF f
  <2> QED
    BY <1>5, <2>1, <2>2, FS_Surjection
<1>7. Cardinality(Live(new)) = Cardinality(Live(ks)) - Cardinality(slots)
  <2>1. IsFiniteSet(Live(ks)) /\ Live(ks) \cap gone = gone
    BY <1>1, <1>3, LiveFinite
  <2> QED
    BY <1>4, <1>6, <2>1, FS_Difference
<1>8. Occupied(new) = Occupied(ks)
  <2>1. Occupied(new) = {s \in Slots(k) : new.indices[s] # DKIX_EMPTY}
    BY <1>2 DEF Occupied
  <2>2. Occupied(ks) = {s \in Slots(k) : ks.indices[s] # DKIX_EMPTY}
    BY <1>1 DEF Occupied
  <2>3. \A s \in Slots(k) : new.indices[s] # DKIX_EMPTY <=> ks.indices[s] # DKIX_EMPTY
    BY <1>1 DEF DKIX_EMPTY, DKIX_DUMMY
  <2> QED
    BY <2>1, <2>2, <2>3
<1>9. \A s \in Slots(k) : new.indices[s] >= 0 =>
        /\ new.indices[s] = ks.indices[s]
        /\ new.indices[s] \in Live(new)
  <2> SUFFICES ASSUME NEW s \in Slots(k), new.indices[s] >= 0
               PROVE  new.indices[s] = ks.indices[s] /\ new.indices[s] \in Live(new)
    OBVIOUS
  <2>1. s \notin slots /\ new.indices[s] = ks.indices[s]
    BY <1>1 DEF DKIX_DUMMY
  <2>2. ks.indices[s] \in Live(ks)
    BY <1>1, <2>1 DEF IsSound
  <2>3. ks.indices[s] \notin gone
    <3> SUFFICES ASSUME NEW t \in slots, ks.indices[t] = ks.indices[s] PROVE FALSE
      BY DEF IndexedBy
    <3> QED
      BY <1>1, <2>1 DEF IsSound
  <2> QED
    BY <1>4, <2>1, <2>2, <2>3
<1>10. \A s, t \in Slots(k) :
         new.indices[s] >= 0 /\ new.indices[s] = new.indices[t] => s = t
  BY <1>1, <1>9 DEF IsSound
<1>11. ASSUME NEW i \in Live(new)
       PROVE  /\ new.entries[i].hash \in {HashOf[new.entries[i].identity], MARK}
              /\ new.entries[i].key = NULL => new.entries[i].hash # MARK
              /\ new.entries[i].key = NULL <=> new.entries[i].value = NULL
              /\ Meets(new, HashOf[new.entries[i].identity], i)
  <2>1. i \in Live(ks) /\ i \notin gone /\ i \in EntryIndices(k) /\ i \in Nat
    BY <1>1, <1>4, LiveFinite DEF EntryIndices
  <2>2. new.entries[i].identity = ks.entries[i].identity
    BY <2>1 DEF Emptied
  <2>3. \A s \in Slots(k) : /\ ks.indices[s] # DKIX_EMPTY => new.indices[s] # DKIX_EMPTY
                            /\ ks.indices[s] = i => new.indices[s] = i
    <3>1. \A s \in slots : ks.indices[s] \in gone
      BY DEF IndexedBy
    <3> QED
      BY <1>1, <2>1, <3>1 DEF DKIX_EMPTY, DKIX_DUMMY
  <2>4. /\ Meets(ks, HashOf[ks.entries[i].identity], i)
        /\ HashOf[ks.entries[i].identity] \in Hashes
    BY <2>1, LiveEntry DEF IsSound
  <2>5. Meets(new, HashOf[ks.entries[i].identity], i)
    BY <1>1, <2>3, <2>4, MeetsKept
  <2> QED
    BY <2>1, <2>2, <2>5 DEF Emptied
<1>12. IsSound(new)
  BY <1>1, <1>2, <1>8, <1>9, <1>10, <1>11 DEF IsSound
<1>13. IsOrdered(ks) => IsOrdered(new)
  <2>1. \A i \in EntryIndices(k) :
          new.entries[i].identity \in {ks.entries[i].identity, NULL}
    BY DEF Emptied
  <2>2. ASSUME NEW s \in Slots(k), NEW i \in Live(new)
        PROVE  new.indices[s] = i <=> ks.indices[s] = i
    <3>1. i >= 0 /\ i \notin gone
      BY <1>1, <1>4, LiveFinite
    <3>2. s \in slots => ks.indices[s] \in gone
      BY DEF IndexedBy
    <3> QED
      BY <1>1, <3>1, <3>2 DEF DKIX_DUMMY
  <2> QED
    BY <1>1, <1>12, <2>1, <2>2, OrderKept
<1> QED
  BY <1>4, <1>5, <1>7, <1>12, <1>13

\* _md_del_at on a set of slots in use.
LEMMA DeleteSound ==
  ASSUME NEW ks, IsSound(ks), NEW slots \in SUBSET Slots(ks.log2_size),
         \A s \in slots : ks.indices[s] >= 0,
         NEW new, new = DeleteAt(ks, slots)
  PROVE  /\ IsSound(new)
         /\ new.log2_size = ks.log2_size
         /\ Live(new) = Live(ks) \ IndexedBy(ks, slots)
         /\ Cardinality(slots) \in Nat
         /\ Cardinality(Live(new)) = Cardinality(Live(ks)) - Cardinality(slots)
         /\ \A i \in Live(new) : new.entries[i] = ks.entries[i]
         /\ IsSettled(ks) => IsSettled(new)
         /\ IsOrdered(ks) => IsOrdered(new)
<1> DEFINE k == ks.log2_size
           gone == IndexedBy(ks, slots)
           ix == [s \in DOMAIN ks.indices |->
                    IF s \in slots THEN DKIX_DUMMY ELSE ks.indices[s]]
           es == [i \in DOMAIN ks.entries |->
                    IF i \in gone
                      THEN [ks.entries[i] EXCEPT !.identity = NULL, !.key = NULL,
                                                 !.value = NULL]
                      ELSE ks.entries[i]]
<1>1. /\ IsHtKeys(ks) /\ k \in Log2Sizes /\ Capacity(k) \in Nat
      /\ ks.indices \in [Slots(k) -> DKIX_DUMMY..(Capacity(k) - 1)]
      /\ ks.entries \in [EntryIndices(k) -> Entry]
  BY SizeTypes DEF IsSound, IsHtKeys
<1>2. ix \in [Slots(k) -> DKIX_DUMMY..(Capacity(k) - 1)]
  <2>1. \A s \in Slots(k) : (IF s \in slots THEN DKIX_DUMMY ELSE ks.indices[s])
                              \in DKIX_DUMMY..(Capacity(k) - 1)
    BY <1>1 DEF DKIX_DUMMY
  <2> QED
    BY <1>1, <2>1
<1>3. \A e \in Entry :
        /\ [e EXCEPT !.identity = NULL, !.key = NULL, !.value = NULL] \in Entry
        /\ [e EXCEPT !.identity = NULL, !.key = NULL, !.value = NULL].identity = NULL
  BY DEF Entry
<1>4. es \in [EntryIndices(k) -> Entry]
  <2>1. \A i \in EntryIndices(k) :
          (IF i \in gone
             THEN [ks.entries[i] EXCEPT !.identity = NULL, !.key = NULL, !.value = NULL]
             ELSE ks.entries[i]) \in Entry
    BY <1>1, <1>3
  <2> HIDE DEF gone
  <2> QED
    BY <1>1, <2>1
<1>5. \A i \in EntryIndices(k) :
        /\ i \in gone => es[i].identity = NULL
        /\ i \notin gone => es[i] = ks.entries[i]
  <2> HIDE DEF gone
  <2> QED
    BY <1>1, <1>3
<1>6. new = [ks EXCEPT !.indices = ix, !.entries = es]
  BY Zenon DEF DeleteAt, IndexedBy
<1>7. \A s \in Slots(k) : ix[s] = IF s \in slots THEN DKIX_DUMMY ELSE ks.indices[s]
  BY <1>1
<1> HIDE DEF ix, es, gone
<1>8. /\ IsHtKeys(new)
      /\ new.log2_size = k /\ new.usable = ks.usable /\ new.nentries = ks.nentries
      /\ new.indices = ix /\ new.entries = es
  BY <1>1, <1>2, <1>4, <1>6 DEF IsHtKeys
<1>9. \A i \in Live(ks) \ gone :
        /\ i \in EntryIndices(k) /\ new.entries[i] = ks.entries[i]
        /\ new.entries[i].hash \in {HashOf[new.entries[i].identity], MARK}
        /\ new.entries[i].key = NULL => new.entries[i].hash # MARK
        /\ new.entries[i].key = NULL <=> new.entries[i].value = NULL
  <2>1. \A i \in Live(ks) : i \in EntryIndices(k)
    BY <1>1, LiveFinite
  <2> QED
    BY <1>5, <1>8, <2>1 DEF IsSound
<1>10. \A i \in EntryIndices(k) :
         new.entries[i].identity = IF i \in gone THEN NULL ELSE ks.entries[i].identity
  BY <1>5, <1>8
<1>11. Emptied(new, ks, slots)
  BY <1>7, <1>8, <1>9, <1>10 DEF Emptied, gone
<1>12. /\ IsSound(new) /\ Live(new) = Live(ks) \ gone /\ Cardinality(slots) \in Nat
       /\ Cardinality(Live(new)) = Cardinality(Live(ks)) - Cardinality(slots)
       /\ IsOrdered(ks) => IsOrdered(new)
  BY <1>11, EmptiedSound DEF gone
<1>13. \A i \in Live(new) : new.entries[i] = ks.entries[i]
  BY <1>9, <1>12
<1>14. IsSettled(ks) => IsSettled(new)
  BY <1>12, <1>13 DEF IsSettled
<1> QED
  BY <1>8, <1>12, <1>13, <1>14 DEF gone

-----------------------------------------------------------------------------
(* Searching.                                                              *)

\* What a search finds is a slot in use, with a live and unmarked entry of
\* the identity.
LEMMA MatchesAreLive ==
  ASSUME NEW ks, IsSound(ks), NEW identity \in Identities
  PROVE  /\ MatchingSlots(ks, HashOf[identity], identity)
              \in SUBSET Slots(ks.log2_size)
         /\ \A s \in MatchingSlots(ks, HashOf[identity], identity) :
              /\ ks.indices[s] >= 0
              /\ ks.indices[s] \in Live(ks)
              /\ ks.entries[ks.indices[s]].hash = HashOf[identity]
              /\ ks.entries[ks.indices[s]].identity = identity
         /\ Matches(ks, HashOf[identity], identity) # {} =>
              FirstMatch(ks, HashOf[identity], identity)
                \in MatchingSlots(ks, HashOf[identity], identity)
<1> DEFINE k == ks.log2_size
           hash == HashOf[identity]
           found == Matches(ks, hash, identity)
<1>1. hash \in Hashes
  BY DEF Hashes
<1>2. k \in Log2Sizes /\ ProbeSteps(k) \in Nat
  BY NeverFull, SizeTypes
<1>3. PathLength(ks, hash) \in 0..ProbeSteps(k)
  <2> HIDE DEF hash
  <2> QED
    BY <1>1, NeverFull, EmptySlotFound
<1>4. ProbeSlots[hash][k] \in [0..ProbeSteps(k) -> Slots(k)]
  <2> HIDE DEF hash
  <2> QED
    BY <1>1, <1>2, ProbesVisitAll
<1>5. found \in SUBSET Nat
  BY <1>2, <1>3 DEF Matches
<1>6. ASSUME NEW n \in found
      PROVE  /\ SlotAt(ks, hash, n) \in Slots(k)
             /\ ks.indices[SlotAt(ks, hash, n)] >= 0
             /\ ks.entries[ks.indices[SlotAt(ks, hash, n)]].hash = hash
             /\ ks.entries[ks.indices[SlotAt(ks, hash, n)]].identity = identity
  <2>1. n \in 0..ProbeSteps(k)
    BY <1>2, <1>3 DEF Matches
  <2>2. SlotAt(ks, hash, n) \in Slots(k)
    <3> HIDE DEF hash
    <3> QED
      BY <1>4, <2>1 DEF SlotAt
  <2> QED
    BY <2>2 DEF Matches, IndexAt
<1>7. \A s \in Slots(k) : ks.indices[s] >= 0 => ks.indices[s] \in Live(ks)
  BY NeverFull DEF IsSound
<1>8. found # {} => Min(found) \in found
  <2> HIDE DEF found
  <2> QED
    BY <1>5, MinOfNaturals
<1>9. MatchingSlots(ks, hash, identity) = {SlotAt(ks, hash, n) : n \in found}
  BY DEF MatchingSlots
<1>10. FirstMatch(ks, hash, identity) = SlotAt(ks, hash, Min(found))
  BY DEF FirstMatch
<1> HIDE DEF found, hash
<1> QED
  BY <1>6, <1>7, <1>8, <1>9, <1>10 DEF found, hash

-----------------------------------------------------------------------------
(* The writes of the calls.                                                *)

\* The entry of an addition.
NewEntry(key, value, update) ==
  [hash |-> IF update THEN MARK ELSE hash_of(key),
   identity |-> IdentityOf[key], key |-> key, value |-> value]

\* An addition, with the room it needs made first: one live entry more.
Added(new, ks, entry) ==
  \E room : /\ room = ks \/ Compacted(room, ks)
            /\ IsSound(room) /\ Stored(new, room, entry)

LEMMA AddEntrySound ==
  ASSUME NEW ks, IsSound(ks), NEW key \in Keys, NEW value \in Values,
         NEW update \in BOOLEAN, update \/ IsSettled(ks),
         CanMakeRoom(ks, Cardinality(Live(ks))),
         NEW new, new = AddEntry(ks, Cardinality(Live(ks)), key, value, update)
  PROVE  /\ IsSound(new)
         /\ Cardinality(Live(new)) = Cardinality(Live(ks)) + 1
         /\ ~ update => IsSettled(new)
         /\ IsOrdered(ks) => IsOrdered(new)
         /\ new.log2_size = IF NeedsGrowth(ks, Cardinality(Live(ks)))
              THEN calculate_log2_keysize(GROWTH_RATE(Cardinality(Live(ks))))
              ELSE ks.log2_size
         /\ Added(new, ks, NewEntry(key, value, update))
<1> DEFINE room == MakeRoom(ks, Cardinality(Live(ks)), update)
           hash == hash_of(key)
           entry == NewEntry(key, value, update)
<1>1. new = StoreEntry(room, htkeys_find_empty_slot(room, hash), entry)
  BY DEF AddEntry, NewEntry
<1>2. /\ IdentityOf[key] \in Identities /\ hash = HashOf[IdentityOf[key]]
      /\ hash \in Hashes /\ hash # MARK /\ key # NULL /\ value # NULL
      /\ hash = hash_of(key)
  BY HashTableAssumption, ConstantsAssumption DEF hash_of, Hashes, MARK
<1> HIDE DEF hash
<1>3. /\ entry \in Entry /\ entry.identity = IdentityOf[key]
      /\ entry.key # NULL /\ entry.value # NULL
      /\ entry.hash \in {hash, MARK} /\ (~ update => entry.hash # MARK)
  BY <1>2 DEF Entry, NewEntry
<1> HIDE DEF entry
<1>4. /\ IsSound(room) /\ room.usable >= 1
      /\ Cardinality(Live(room)) = Cardinality(Live(ks))
      /\ IsSettled(ks) => IsSettled(room)
      /\ IsOrdered(ks) => IsOrdered(room)
      /\ room.log2_size = IF NeedsGrowth(ks, Cardinality(Live(ks)))
           THEN calculate_log2_keysize(GROWTH_RATE(Cardinality(Live(ks))))
           ELSE ks.log2_size
      /\ room = ks \/ Compacted(room, ks)
  BY RoomMade
<1> HIDE DEF room
<1>5. /\ IsSound(new)
      /\ Cardinality(Live(new)) = Cardinality(Live(room)) + 1
      /\ IsSettled(room) /\ entry.hash # MARK => IsSettled(new)
      /\ IsOrdered(room) => IsOrdered(new)
      /\ new.log2_size = room.log2_size
      /\ Stored(new, room, entry)
  <2>1. new = StoreEntry(room, htkeys_find_empty_slot(room, HashOf[entry.identity]), entry)
    BY <1>1, <1>2, <1>3
  <2>2. /\ entry \in Entry /\ entry.identity \in Identities
        /\ entry.key # NULL /\ entry.value # NULL
        /\ entry.hash \in {HashOf[entry.identity], MARK}
    BY <1>2, <1>3
  <2>3. IsSound(room) /\ room.usable >= 1
    BY <1>4
  <2> QED
    BY <2>1, <2>2, <2>3, StoreSound
<1>6. Added(new, ks, entry)
  BY <1>4, <1>5 DEF Added
<1> QED
  BY <1>3, <1>4, <1>5, <1>6 DEF entry

\* What _md_update does to the entries its search finds: the first takes the
\* item, marked, and the others are half deleted.
TakenForUpdate(new, ks, first, found, key, value) ==
  \A i \in Live(ks) :
    /\ new.entries[i].identity = ks.entries[i].identity
    /\ i = first => /\ new.entries[i].hash = MARK
                    /\ new.entries[i].key = key /\ new.entries[i].value = value
    /\ i \in found \ {first} => /\ new.entries[i].hash = ks.entries[i].hash
                                /\ new.entries[i].key = NULL
    /\ i \notin found => new.entries[i] = ks.entries[i]

\* _md_update in place: the same entries stay live and reachable.
LEMMA ReplaceForUpdateSound ==
  ASSUME NEW ks, IsSound(ks), NEW key \in Keys, NEW value \in Values,
         md_contains(ks, key),
         NEW new, new = ReplaceForUpdate(ks, key, value),
         NEW id, id = IdentityOf[key]
  PROVE  /\ IsSound(new) /\ Live(new) = Live(ks)
         /\ new.log2_size = ks.log2_size
         /\ IsOrdered(ks) => IsOrdered(new)
         /\ TakenForUpdate(new, ks, ks.indices[FirstMatch(ks, HashOf[id], id)],
              IndexedBy(ks, MatchingSlots(ks, HashOf[id], id)), key, value)
<1> DEFINE slots == MatchingSlots(ks, HashOf[id], id)
           first == ks.indices[FirstMatch(ks, HashOf[id], id)]
           others == {ks.indices[s] : s \in slots} \ {first}
           taken == [hash |-> MARK, identity |-> id, key |-> key, value |-> value]
           entry(i) == CASE i = first -> taken
                         [] i \in others -> [ks.entries[i] EXCEPT !.key = NULL, !.value = NULL]
                         [] OTHER -> ks.entries[i]
           es == [i \in DOMAIN ks.entries |-> entry(i)]
<1>1. id \in Identities /\ key # NULL /\ value # NULL /\ id # NULL
  BY HashTableAssumption, ConstantsAssumption
<1>2. /\ slots \in SUBSET Slots(ks.log2_size)
      /\ \A s \in slots : /\ ks.indices[s] \in Live(ks)
                          /\ ks.entries[ks.indices[s]].hash = HashOf[id]
                          /\ ks.entries[ks.indices[s]].identity = id
      /\ FirstMatch(ks, HashOf[id], id) \in slots
  BY <1>1, MatchesAreLive DEF md_contains, hash_of
<1> HIDE DEF slots
<1>3. /\ first \notin others
      /\ first \in Live(ks) /\ ks.entries[first].identity = id
      /\ \A i \in others : ks.entries[i].hash = HashOf[id]
                           /\ ks.entries[i].identity = id
  BY <1>2
<1>4. new = Rewritten(ks, es)
  BY Zenon DEF ReplaceForUpdate, Rewritten, slots
<1>5. ks.entries \in [EntryIndices(ks.log2_size) -> Entry]
  BY DEF IsSound, IsHtKeys
<1> HIDE DEF first, others
<1>6. \A e \in Entry :
        /\ [e EXCEPT !.key = NULL, !.value = NULL] \in Entry
        /\ [e EXCEPT !.key = NULL, !.value = NULL].identity = e.identity
        /\ [e EXCEPT !.key = NULL, !.value = NULL].hash = e.hash
        /\ [e EXCEPT !.key = NULL, !.value = NULL].key = NULL
        /\ [e EXCEPT !.key = NULL, !.value = NULL].value = NULL
  BY DEF Entry
<1>7. taken \in Entry /\ taken.identity = id /\ taken.hash = MARK
      /\ taken.key = key /\ taken.value = value
  BY <1>1 DEF Entry
<1> HIDE DEF taken
<1>8. ASSUME NEW i \in EntryIndices(ks.log2_size)
      PROVE  /\ entry(i) \in Entry
             /\ entry(i).identity = ks.entries[i].identity
             /\ i = first => entry(i) = taken
             /\ i \in others => /\ entry(i).hash = ks.entries[i].hash
                                /\ entry(i).key = NULL /\ entry(i).value = NULL
             /\ i \notin others /\ i # first => entry(i) = ks.entries[i]
  <2>1. ks.entries[i] \in Entry
    BY <1>5
  <2>2. CASE i = first
    <3>1. entry(i) = taken
      BY <1>3, <2>2
    <3> QED
      BY <1>3, <1>7, <2>2, <3>1
  <2>3. CASE i # first /\ i \in others
    <3>1. entry(i) = [ks.entries[i] EXCEPT !.key = NULL, !.value = NULL]
      BY <2>3
    <3> HIDE DEF entry
    <3> QED
      BY <1>6, <2>1, <2>3, <3>1
  <2>4. CASE i # first /\ i \notin others
    <3>1. entry(i) = ks.entries[i]
      BY <2>4
    <3> QED
      BY <2>1, <2>4, <3>1
  <2> QED
    BY <2>2, <2>3, <2>4
<1> HIDE DEF entry
<1>9. /\ es \in [EntryIndices(ks.log2_size) -> Entry]
      /\ \A i \in EntryIndices(ks.log2_size) : es[i] = entry(i)
  BY <1>5, <1>8
<1> HIDE DEF es
<1>10. ASSUME NEW i \in Live(ks)
       PROVE  /\ es[i].hash \in {HashOf[es[i].identity], MARK}
              /\ es[i].key = NULL => es[i].hash # MARK
              /\ es[i].key = NULL <=> es[i].value = NULL
  <2>1. i \in EntryIndices(ks.log2_size)
    BY LiveFinite DEF IsSound
  <2>2. CASE i = first
    BY <1>1, <1>7, <1>8, <1>9, <2>1, <2>2
  <2>3. CASE i # first /\ i \in others
    BY <1>1, <1>3, <1>8, <1>9, <2>1, <2>3, LiveEntry
  <2>4. CASE i # first /\ i \notin others
    BY <1>8, <1>9, <2>1, <2>4 DEF IsSound
  <2> QED
    BY <2>2, <2>3, <2>4
<1>11. /\ IsSound(new) /\ Live(new) = Live(ks)
       /\ new.log2_size = ks.log2_size
       /\ IsOrdered(ks) => IsOrdered(new)
  BY <1>4, <1>8, <1>9, <1>10, RewriteSound
<1>12. new.entries = es
  BY <1>4 DEF Rewritten, IsSound, IsHtKeys
<1>13. \A i : i \in others <=> i \in IndexedBy(ks, slots) \ {first}
  BY Zenon DEF others, IndexedBy
<1>14. \A i \in Live(ks) : i \in EntryIndices(ks.log2_size)
  BY LiveFinite DEF IsSound
<1>15. first \in IndexedBy(ks, slots)
  BY <1>2, Zenon DEF first, IndexedBy
<1>16. TakenForUpdate(new, ks, first, IndexedBy(ks, slots), key, value)
  BY <1>7, <1>8, <1>9, <1>12, <1>13, <1>14, <1>15 DEF TakenForUpdate
<1> QED
  BY <1>11, <1>16 DEF first, slots

\* A live entry has a slot: its path meets it.
LEMMA LiveHasSlot ==
  ASSUME NEW ks, IsSound(ks), NEW i \in Live(ks)
  PROVE  \E s \in Slots(ks.log2_size) : ks.indices[s] = i
<1> DEFINE k == ks.log2_size
           hash == HashOf[ks.entries[i].identity]
<1>1. hash \in Hashes /\ Meets(ks, hash, i)
  BY LiveEntry DEF IsSound
<1> HIDE DEF hash
<1>2. PICK n \in 0..ProbeSteps(k) : IndexAt(ks, hash, n) = i
  BY <1>1 DEF Meets
<1>3. ProbeSlots[hash][k] \in [0..ProbeSteps(k) -> Slots(k)]
  BY <1>1, NeverFull, ProbesVisitAll
<1> QED
  BY <1>2, <1>3 DEF IndexAt, SlotAt

\* The path of a hash holds every live entry that carries it.
LEMMA LiveOnPath ==
  ASSUME NEW ks, IsSound(ks), NEW i \in Live(ks),
         NEW hash, hash = HashOf[ks.entries[i].identity]
  PROVE  \E n \in 0..(PathLength(ks, hash) - 1) : IndexAt(ks, hash, n) = i
<1>1. /\ hash \in Hashes /\ Meets(ks, hash, i) /\ i \in Nat
      /\ ks.log2_size \in Log2Sizes /\ ProbeSteps(ks.log2_size) \in Nat
  BY LiveEntry, LiveFinite, SizeTypes DEF IsSound
<1>2. PICK n \in 0..ProbeSteps(ks.log2_size) :
        /\ IndexAt(ks, hash, n) = i
        /\ \A m \in 0..(n - 1) : IndexAt(ks, hash, m) # DKIX_EMPTY
  BY <1>1 DEF Meets
<1>3. /\ PathLength(ks, hash) \in 0..ProbeSteps(ks.log2_size)
      /\ IndexAt(ks, hash, PathLength(ks, hash)) = DKIX_EMPTY
  BY <1>1, NeverFull, EmptySlotFound
<1>4. n < PathLength(ks, hash)
  <2> SUFFICES ASSUME PathLength(ks, hash) <= n PROVE FALSE
    BY <1>1, <1>2, <1>3
  <2>1. CASE PathLength(ks, hash) = n
    BY <1>1, <1>2, <1>3, <2>1 DEF DKIX_EMPTY
  <2>2. CASE PathLength(ks, hash) # n
    BY <1>1, <1>2, <1>3, <2>2
  <2> QED
    BY <2>1, <2>2
<1> QED
  BY <1>1, <1>2, <1>3, <1>4

\* And no other: what a path meets is live.
LEMMA PathIsLive ==
  ASSUME NEW ks, IsSound(ks), NEW hash \in Hashes,
         NEW n \in 0..(PathLength(ks, hash) - 1), IndexAt(ks, hash, n) >= 0
  PROVE  IndexAt(ks, hash, n) \in Live(ks)
<1>1. /\ ks.log2_size \in Log2Sizes /\ ProbeSteps(ks.log2_size) \in Nat
      /\ PathLength(ks, hash) \in 0..ProbeSteps(ks.log2_size)
      /\ ks.indices \in [Slots(ks.log2_size) -> Int]
  BY NeverFull, EmptySlotFound, SizeTypes
<1>2. n \in 0..ProbeSteps(ks.log2_size)
  BY <1>1
<1>3. SlotAt(ks, hash, n) \in Slots(ks.log2_size)
  <2>1. ProbeSlots[hash][ks.log2_size]
          \in [0..ProbeSteps(ks.log2_size) -> Slots(ks.log2_size)]
    BY <1>1, ProbesVisitAll
  <2> QED
    BY <1>2, <2>1 DEF SlotAt
<1> QED
  BY <1>1, <1>3 DEF IndexAt, IsSound

\* What md_post_update leaves: the entries that have a key, as they were but
\* for the hash.
Settled(new, ks) ==
  /\ Live(new) = {i \in Live(ks) : ks.entries[i].key # NULL}
  /\ \A i \in Live(new) : /\ new.entries[i].identity = ks.entries[i].identity
                          /\ new.entries[i].key = ks.entries[i].key
                          /\ new.entries[i].value = ks.entries[i].value

\* After md_post_update no mark and no half-deleted entry is left, and the
\* items that went are those it counts.
LEMMA PostUpdateSound ==
  ASSUME NEW ks, IsSound(ks), NEW new, new = md_post_update(ks)
  PROVE  /\ IsSound(new)
         /\ IsSettled(new)
         /\ Cardinality(HalfDeletedSlots(ks)) \in Nat
         /\ Cardinality(Live(new))
              = Cardinality(Live(ks)) - Cardinality(HalfDeletedSlots(ks))
         /\ IsOrdered(ks) => IsOrdered(new)
         /\ Settled(new, ks)
<1> DEFINE k == ks.log2_size
           dead == HalfDeletedSlots(ks)
           gone == IndexedBy(ks, dead)
           held == {ks.indices[s] : s \in {s \in DOMAIN ks.indices : ks.indices[s] >= 0}}
           cleared(i) == IF i \in gone THEN [ks.entries[i] EXCEPT !.identity = NULL]
                                       ELSE ks.entries[i]
           entry(i) == IF i \in held /\ cleared(i).hash = MARK
                         THEN [cleared(i) EXCEPT !.hash = HashOf[cleared(i).identity]]
                         ELSE cleared(i)
           es == [i \in DOMAIN ks.entries |-> entry(i)]
           ix == [s \in DOMAIN ks.indices |->
                    IF s \in dead THEN DKIX_DUMMY ELSE ks.indices[s]]
<1>1. /\ IsHtKeys(ks) /\ k \in Log2Sizes /\ Capacity(k) \in Nat
      /\ ks.indices \in [Slots(k) -> DKIX_DUMMY..(Capacity(k) - 1)]
      /\ ks.entries \in [EntryIndices(k) -> Entry]
      /\ \A i \in Live(ks) : i \in EntryIndices(k)
  BY LiveFinite, SizeTypes DEF IsSound, IsHtKeys
<1>2. new = [ks EXCEPT !.indices = ix, !.entries = es]
  BY Zenon DEF md_post_update, IndexedBy
<1>3. /\ dead \subseteq Slots(k)
      /\ \A s \in dead : ks.indices[s] >= 0 /\ ks.entries[ks.indices[s]].key = NULL
      /\ \A s \in Slots(k) : ks.indices[s] >= 0 /\ ks.entries[ks.indices[s]].key = NULL
                               => s \in dead
  BY <1>1 DEF HalfDeletedSlots
<1>4. \A i \in held : i \in Live(ks)
  BY <1>1 DEF IsSound
<1>5. \A i \in gone : ks.entries[i].key = NULL /\ i \in Live(ks) /\ ks.entries[i].hash # MARK
  BY <1>1, <1>3 DEF IndexedBy, IsSound
<1>6. \A i \in Live(ks) : i \in held /\ (ks.entries[i].key = NULL => i \in gone)
  <2> SUFFICES ASSUME NEW i \in Live(ks)
               PROVE  i \in held /\ (ks.entries[i].key = NULL => i \in gone)
    OBVIOUS
  <2>1. PICK s \in Slots(k) : ks.indices[s] = i
    BY LiveHasSlot
  <2>2. i >= 0
    BY LiveFinite, SizeTypes DEF IsSound
  <2> QED
    BY <1>1, <1>3, <2>1, <2>2 DEF IndexedBy
<1>7. /\ \A s \in Slots(k) : (IF s \in dead THEN DKIX_DUMMY ELSE ks.indices[s])
                               \in DKIX_DUMMY..(Capacity(k) - 1)
  BY <1>1 DEF DKIX_DUMMY
<1>8. /\ ix \in [Slots(k) -> DKIX_DUMMY..(Capacity(k) - 1)]
      /\ \A s \in Slots(k) : ix[s] = IF s \in dead THEN DKIX_DUMMY ELSE ks.indices[s]
  BY <1>1, <1>7
<1> HIDE DEF ix, dead, gone, held
<1>9. \A e \in Entry : /\ [e EXCEPT !.identity = NULL] \in Entry
                       /\ [e EXCEPT !.identity = NULL].identity = NULL
                       /\ [e EXCEPT !.identity = NULL].hash = e.hash
  BY DEF Entry
<1>10. \A e \in Entry : \A h \in Hashes :
         /\ [e EXCEPT !.hash = h] \in Entry
         /\ [e EXCEPT !.hash = h].hash = h
         /\ [e EXCEPT !.hash = h].identity = e.identity
         /\ [e EXCEPT !.hash = h].key = e.key
         /\ [e EXCEPT !.hash = h].value = e.value
  BY DEF Entry
<1>11. ASSUME NEW i \in EntryIndices(k)
       PROVE  /\ entry(i) \in Entry
              /\ entry(i).identity = IF i \in gone THEN NULL ELSE ks.entries[i].identity
              /\ i \in Live(ks) /\ i \notin gone =>
                   /\ entry(i).hash = HashOf[ks.entries[i].identity]
                   /\ entry(i).hash # MARK
                   /\ entry(i).key = ks.entries[i].key
                   /\ entry(i).value = ks.entries[i].value
  <2>1. ks.entries[i] \in Entry
    BY <1>1
  <2>2. CASE i \in gone
    <3>1. cleared(i) = [ks.entries[i] EXCEPT !.identity = NULL]
      BY <2>2
    <3>2. cleared(i).hash # MARK
      BY <1>5, <1>9, <2>1, <2>2, <3>1
    <3>3. entry(i) = cleared(i)
      BY <3>2
    <3> HIDE DEF entry, cleared
    <3> QED
      BY <1>9, <2>1, <2>2, <3>1, <3>3
  <2>3. CASE i \notin gone
    <3>1. cleared(i) = ks.entries[i]
      BY <2>3
    <3>2. CASE i \in held /\ ks.entries[i].hash = MARK
      <4>1. entry(i) = [ks.entries[i] EXCEPT !.hash = HashOf[ks.entries[i].identity]]
        BY <3>1, <3>2
      <4>2. /\ HashOf[ks.entries[i].identity] \in Hashes
            /\ HashOf[ks.entries[i].identity] # MARK
        BY <1>4, <3>2, LiveEntry
      <4> HIDE DEF entry, cleared
      <4> QED
        BY <1>10, <2>1, <2>3, <4>1, <4>2
    <3>3. CASE ~ (i \in held /\ ks.entries[i].hash = MARK)
      <4>1. entry(i) = ks.entries[i]
        BY <3>1, <3>3
      <4>2. i \in Live(ks) => /\ ks.entries[i].hash = HashOf[ks.entries[i].identity]
                              /\ ks.entries[i].hash # MARK
        BY <1>6, <3>3, LiveEntry
      <4> HIDE DEF entry, cleared
      <4> QED
        BY <2>1, <2>3, <4>1, <4>2
    <3> QED
      BY <3>2, <3>3
  <2> QED
    BY <2>2, <2>3
<1> HIDE DEF entry, cleared
<1>12. /\ es \in [EntryIndices(k) -> Entry]
       /\ \A i \in EntryIndices(k) : es[i] = entry(i)
  BY <1>1, <1>11
<1> HIDE DEF es
<1>13. /\ IsHtKeys(new)
       /\ new.log2_size = k /\ new.usable = ks.usable /\ new.nentries = ks.nentries
       /\ new.indices = ix /\ new.entries = es
  BY <1>1, <1>2, <1>8, <1>12 DEF IsHtKeys
<1>14. \A i \in Live(ks) \ gone :
         /\ new.entries[i].hash = HashOf[new.entries[i].identity]
         /\ new.entries[i].hash # MARK
         /\ new.entries[i].key = ks.entries[i].key
         /\ new.entries[i].value = ks.entries[i].value
  BY <1>1, <1>11, <1>12, <1>13
<1>15. \A i \in EntryIndices(k) :
         new.entries[i].identity = IF i \in gone THEN NULL ELSE ks.entries[i].identity
  BY <1>11, <1>12, <1>13
<1>16. Emptied(new, ks, dead)
  BY <1>3, <1>8, <1>13, <1>14, <1>15, LiveEntry DEF Emptied, gone
<1>17. /\ IsSound(new) /\ Live(new) = Live(ks) \ gone /\ Cardinality(dead) \in Nat
       /\ Cardinality(Live(new)) = Cardinality(Live(ks)) - Cardinality(dead)
       /\ IsOrdered(ks) => IsOrdered(new)
  BY <1>16, EmptiedSound DEF gone
<1>18. IsSettled(new)
  BY <1>6, <1>14, <1>17 DEF IsSettled
<1>19. Settled(new, ks)
  <2>1. \A i : i \in Live(new) <=> i \in Live(ks) /\ ks.entries[i].key # NULL
    BY <1>5, <1>6, <1>17
  <2>2. \A i \in Live(new) : i \in EntryIndices(k) /\ i \notin gone
    BY <1>1, <1>17
  <2> QED
    BY <1>14, <1>15, <1>17, <2>1, <2>2 DEF Settled
<1> QED
  BY <1>17, <1>18, <1>19 DEF dead

-----------------------------------------------------------------------------
(* The steps.  Between calls the table is settled.                         *)

\* What a call that is one step leaves behind.
SettledAfter ==
  /\ IsSound(keys') /\ IsSettled(keys')
  /\ used' = Cardinality(Live(keys'))
  /\ IsOrdered(keys) => IsOrdered(keys')

\* An addition outside update() and merge() keeps the invariant.
LEMMA AddItemSound ==
  ASSUME TableInvariant, IsSettled(keys), NEW key \in Keys, NEW value \in Values,
         AddItem(key, value)
  PROVE  SettledAfter
BY AddEntrySound DEF TableInvariant, AddItem, SettledAfter

\* Emptying slots and counting them off used keeps the invariant.
LEMMA DeleteSlotsSound ==
  ASSUME TableInvariant, IsSettled(keys), NEW slots \in SUBSET Slots(keys.log2_size),
         \A s \in slots : keys.indices[s] >= 0,
         keys' = DeleteAt(keys, slots), used' = used - Cardinality(slots)
  PROVE  SettledAfter
BY DeleteSound DEF TableInvariant, SettledAfter

\* The deletion of all items of a key keeps it.
LEMMA DeleteKeySound ==
  ASSUME TableInvariant, IsSettled(keys), NEW key \in Keys, DeleteKey(key)
  PROVE  SettledAfter
<1> DEFINE slots == MatchingSlots(keys, HashOf[IdentityOf[key]], IdentityOf[key])
<1>1. IdentityOf[key] \in Identities
  BY HashTableAssumption
<1>2. slots \in SUBSET Slots(keys.log2_size) /\ \A s \in slots : keys.indices[s] >= 0
  BY <1>1, MatchesAreLive DEF TableInvariant
<1>3. keys' = DeleteAt(keys, slots) /\ used' = used - Cardinality(slots)
  BY DEF DeleteKey, hash_of
<1> HIDE DEF slots
<1> QED
  BY <1>2, <1>3, DeleteSlotsSound

\* popone() keeps it.
LEMMA PopOneSound ==
  ASSUME TableInvariant, IsSettled(keys), NEW key \in Keys, md_contains(keys, key),
         MdPopOne(key)
  PROVE  SettledAfter
<1> DEFINE id == IdentityOf[key]
           slots == {FirstMatch(keys, HashOf[id], id)}
<1>1. id \in Identities
  BY HashTableAssumption
<1>2. slots \in SUBSET Slots(keys.log2_size) /\ \A s \in slots : keys.indices[s] >= 0
  BY <1>1, MatchesAreLive DEF TableInvariant, md_contains, hash_of
<1>3. Cardinality(slots) = 1
  BY FS_Singleton
<1>4. keys' = DeleteAt(keys, slots) /\ used' = used - 1
  BY DEF MdPopOne, hash_of
<1> HIDE DEF slots
<1> QED
  BY <1>2, <1>3, <1>4, DeleteSlotsSound

\* A non-empty finite set of naturals has a greatest element.
LEMMA MaxOfInterval ==
  ASSUME NEW n \in Nat, NEW S \in SUBSET (0..n), S # {}
  PROVE  \E i \in S : \A j \in S : j <= i
<1> DEFINE bounds == {u \in Nat : \A j \in S : j <= u}
           top == Min(bounds)
<1>1. n \in bounds
  OBVIOUS
<1>2. bounds \in SUBSET Nat /\ bounds # {}
  BY <1>1
<1> HIDE DEF bounds
<1>3. top \in bounds /\ \A u \in bounds : top <= u
  BY <1>2, MinOfNaturals
<1> HIDE DEF top
<1>4. top \in Nat /\ \A j \in S : j \in Nat /\ j <= top
  BY <1>3 DEF bounds
<1>5. top \in S
  <2> SUFFICES ASSUME top \notin S PROVE FALSE
    OBVIOUS
  <2>1. \A j \in S : j <= top - 1
    BY <1>4
  <2>2. top - 1 \in Nat
    <3>1. PICK j \in S : TRUE
      OBVIOUS
    <3> QED
      BY <1>4, <2>1, <3>1
  <2>3. top - 1 \in bounds
    BY <2>1, <2>2 DEF bounds
  <2> QED
    BY <1>3, <1>4, <2>3
<1> QED
  BY <1>4, <1>5

\* A table that is not empty has a last live entry.
LEMMA LastLiveEntry ==
  ASSUME NEW ks, IsSound(ks), Cardinality(Live(ks)) # 0
  PROVE  (CHOOSE i \in Live(ks) : \A j \in Live(ks) : j <= i) \in Live(ks)
<1>1. Live(ks) # {}
  BY FS_EmptySet
<1>2. ks.nentries \in Nat /\ Live(ks) \in SUBSET (0..ks.nentries)
  BY LiveFinite, SizeTypes DEF IsSound
<1> QED
  BY <1>1, <1>2, MaxOfInterval, Zenon

\* popitem() empties one slot: the last live entry has one, and the probe
\* sequence of its hash, even of a mark, comes to it.
LEMMA PopItemSlot ==
  ASSUME IsSound(keys), used = Cardinality(Live(keys)), used # 0, MdPopItem
  PROVE  \E slots \in SUBSET Slots(keys.log2_size) :
           /\ \A s \in slots : keys.indices[s] >= 0
           /\ IndexedBy(keys, slots)
                = {CHOOSE i \in Live(keys) : \A j \in Live(keys) : j <= i}
           /\ keys' = DeleteAt(keys, slots) /\ used' = used - Cardinality(slots)
<1> DEFINE pos == CHOOSE i \in Live(keys) : \A j \in Live(keys) : j <= i
           hash == keys.entries[pos].hash
           steps == {n \in 0..ProbeSteps(keys.log2_size) : IndexAt(keys, hash, n) = pos}
           slots == {SlotAt(keys, hash, Min(steps))}
<1>1. IsHtKeys(keys) /\ keys.log2_size \in Log2Sizes
  BY NeverFull DEF IsSound
<1>2. pos \in Live(keys)
  BY LastLiveEntry
<1>3. keys' = DeleteAt(keys, slots) /\ used' = used - 1
  BY DEF MdPopItem
<1> HIDE DEF pos
<1>4. hash \in Hashes \cup {MARK} /\ pos \in Nat
  <2>1. keys.entries[pos].hash \in Hashes \cup {MARK}
    BY <1>2, LiveEntry
  <2> QED
    BY <1>1, <1>2, <2>1, LiveFinite, SizeTypes
<1>5. PICK s \in Slots(keys.log2_size) : keys.indices[s] = pos
  BY <1>2, LiveHasSlot
<1> HIDE DEF hash
<1>6. /\ ProbeSlots[hash][keys.log2_size]
           \in [0..ProbeSteps(keys.log2_size) -> Slots(keys.log2_size)]
      /\ \E n \in 0..ProbeSteps(keys.log2_size) :
           ProbeSlots[hash][keys.log2_size][n] = s
  BY <1>1, <1>4, ProbesVisitAll
<1>7. Min(steps) \in steps
  <2>1. steps # {} /\ steps \in SUBSET Nat
    BY <1>5, <1>6 DEF IndexAt, SlotAt
  <2> HIDE DEF steps
  <2> QED
    BY <2>1, MinOfNaturals
<1>8. /\ SlotAt(keys, hash, Min(steps)) \in Slots(keys.log2_size)
      /\ keys.indices[SlotAt(keys, hash, Min(steps))] = pos
  BY <1>6, <1>7 DEF SlotAt, IndexAt
<1> HIDE DEF steps
<1>9. slots \in SUBSET Slots(keys.log2_size) /\ \A t \in slots : keys.indices[t] >= 0
  BY <1>4, <1>8
<1>10. Cardinality(slots) = 1
  BY FS_Singleton
<1>11. IndexedBy(keys, slots) = {pos}
  BY <1>8 DEF IndexedBy
<1> HIDE DEF slots
<1>12. IndexedBy(keys, slots) = {CHOOSE i \in Live(keys) : \A j \in Live(keys) : j <= i}
  BY <1>11 DEF pos
<1> QED
  BY <1>3, <1>9, <1>10, <1>12

\* popitem() keeps the invariant.
LEMMA PopItemSound ==
  ASSUME TableInvariant, IsSettled(keys), used # 0, MdPopItem
  PROVE  SettledAfter
BY PopItemSlot, DeleteSlotsSound DEF TableInvariant

\* What a finder does to the entries of the slots it finds.
Marked(ks, slots) ==
  [ks EXCEPT !.entries = [i \in DOMAIN @ |->
     IF i \in IndexedBy(ks, slots) THEN [@[i] EXCEPT !.hash = MARK] ELSE @[i]]]

\* Marks on entries that have a key leave the table sound.
LEMMA MarkedSound ==
  ASSUME NEW ks, IsSound(ks), IsSettled(ks), NEW slots \in SUBSET Slots(ks.log2_size),
         NEW new, new = Marked(ks, slots)
  PROVE  /\ IsSound(new) /\ Live(new) = Live(ks)
         /\ IsOrdered(ks) => IsOrdered(new)
         /\ new.log2_size = ks.log2_size /\ new.indices = ks.indices
         /\ IndexedBy(new, slots) = IndexedBy(ks, slots)
         /\ \A i \in Live(ks) :
              /\ new.entries[i].identity = ks.entries[i].identity
              /\ new.entries[i].key = ks.entries[i].key
              /\ new.entries[i].value = ks.entries[i].value
              /\ new.entries[i].hash
                   = IF i \in IndexedBy(ks, slots) THEN MARK ELSE ks.entries[i].hash
              /\ i \notin IndexedBy(ks, slots) => new.entries[i] = ks.entries[i]
<1> DEFINE mark(i) == IF i \in IndexedBy(ks, slots)
                        THEN [ks.entries[i] EXCEPT !.hash = MARK] ELSE ks.entries[i]
           es == [i \in DOMAIN ks.entries |-> mark(i)]
<1>1. /\ IsHtKeys(ks) /\ ks.entries \in [EntryIndices(ks.log2_size) -> Entry]
      /\ \A i \in Live(ks) : i \in EntryIndices(ks.log2_size)
  BY LiveFinite DEF IsSound, IsHtKeys
<1>2. new = Rewritten(ks, es)
  BY DEF Marked, Rewritten
<1>3. \A e \in Entry : /\ [e EXCEPT !.hash = MARK] \in Entry
                       /\ [e EXCEPT !.hash = MARK].identity = e.identity
                       /\ [e EXCEPT !.hash = MARK].key = e.key
                       /\ [e EXCEPT !.hash = MARK].value = e.value
                       /\ [e EXCEPT !.hash = MARK].hash = MARK
  BY DEF Entry
<1>4. ASSUME NEW i \in EntryIndices(ks.log2_size)
      PROVE  /\ mark(i) \in Entry
             /\ mark(i).identity = ks.entries[i].identity
             /\ mark(i).key = ks.entries[i].key
             /\ mark(i).value = ks.entries[i].value
             /\ mark(i).hash
                  = IF i \in IndexedBy(ks, slots) THEN MARK ELSE ks.entries[i].hash
             /\ i \notin IndexedBy(ks, slots) => mark(i) = ks.entries[i]
  <2>1. ks.entries[i] \in Entry
    BY <1>1
  <2>2. CASE i \in IndexedBy(ks, slots)
    <3>1. mark(i) = [ks.entries[i] EXCEPT !.hash = MARK]
      BY <2>2
    <3> HIDE DEF mark
    <3> QED
      BY <1>3, <2>1, <2>2, <3>1
  <2>3. CASE i \notin IndexedBy(ks, slots)
    <3>1. mark(i) = ks.entries[i]
      BY <2>3
    <3> HIDE DEF mark
    <3> QED
      BY <2>1, <2>3, <3>1
  <2> QED
    BY <2>2, <2>3
<1> HIDE DEF mark
<1>5. /\ es \in [EntryIndices(ks.log2_size) -> Entry]
      /\ \A i \in EntryIndices(ks.log2_size) : es[i] = mark(i)
  BY <1>1, <1>4
<1> HIDE DEF es
<1>6. /\ IsSound(new) /\ Live(new) = Live(ks)
      /\ IsOrdered(ks) => IsOrdered(new)
  <2>1. \A i \in EntryIndices(ks.log2_size) : es[i].identity = ks.entries[i].identity
    BY <1>4, <1>5
  <2>2. \A i \in Live(ks) : /\ es[i].hash \in {HashOf[es[i].identity], MARK}
                            /\ es[i].key = NULL => es[i].hash # MARK
                            /\ es[i].key = NULL <=> es[i].value = NULL
    BY <1>1, <1>4, <1>5, LiveEntry DEF IsSettled
  <2> QED
    BY <1>2, <1>5, <2>1, <2>2, RewriteSound
<1>7. new.log2_size = ks.log2_size /\ new.indices = ks.indices /\ new.entries = es
  BY <1>1, <1>2 DEF Rewritten, IsHtKeys
<1>8. IndexedBy(new, slots) = IndexedBy(ks, slots)
  BY <1>7, Zenon DEF IndexedBy
<1> QED
  BY <1>1, <1>4, <1>5, <1>6, <1>7, <1>8

\* An entry that takes another key and value in place.
WithItem(ks, pos, key, value) ==
  [ks EXCEPT !.entries[pos].key = key, !.entries[pos].value = value]

\* An item written over another leaves the table sound.
LEMMA WithItemSound ==
  ASSUME NEW ks, IsSound(ks), IsSettled(ks), NEW pos \in Live(ks),
         NEW key \in Keys, NEW value \in Values,
         NEW new, new = WithItem(ks, pos, key, value)
  PROVE  /\ IsSound(new) /\ IsSettled(new) /\ Live(new) = Live(ks)
         /\ IsOrdered(ks) => IsOrdered(new)
         /\ \A i \in Live(ks) :
              /\ new.entries[i].identity = ks.entries[i].identity
              /\ new.entries[i].key = IF i = pos THEN key ELSE ks.entries[i].key
              /\ new.entries[i].value = IF i = pos THEN value ELSE ks.entries[i].value
<1> DEFINE es == [[ks.entries EXCEPT ![pos].key = key] EXCEPT ![pos].value = value]
<1>1. /\ IsHtKeys(ks) /\ ks.entries \in [EntryIndices(ks.log2_size) -> Entry]
      /\ \A i \in Live(ks) : i \in EntryIndices(ks.log2_size)
      /\ key # NULL /\ value # NULL
  BY LiveFinite, ConstantsAssumption DEF IsSound, IsHtKeys
<1>2. new = Rewritten(ks, es)
  BY <1>1 DEF WithItem, Rewritten, IsHtKeys
<1>3. \A e \in Entry :
        /\ [[e EXCEPT !.key = key] EXCEPT !.value = value] \in Entry
        /\ [[e EXCEPT !.key = key] EXCEPT !.value = value].identity = e.identity
        /\ [[e EXCEPT !.key = key] EXCEPT !.value = value].hash = e.hash
        /\ [[e EXCEPT !.key = key] EXCEPT !.value = value].key = key
        /\ [[e EXCEPT !.key = key] EXCEPT !.value = value].value = value
  BY DEF Entry
<1>4. /\ es \in [EntryIndices(ks.log2_size) -> Entry]
      /\ es[pos] = [[ks.entries[pos] EXCEPT !.key = key] EXCEPT !.value = value]
      /\ \A i \in EntryIndices(ks.log2_size) : i # pos => es[i] = ks.entries[i]
  BY <1>1, <1>3
<1> HIDE DEF es
<1>5. \A i \in EntryIndices(ks.log2_size) :
        /\ es[i].identity = ks.entries[i].identity
        /\ es[i].hash = ks.entries[i].hash
        /\ es[i].key = IF i = pos THEN key ELSE ks.entries[i].key
        /\ es[i].value = IF i = pos THEN value ELSE ks.entries[i].value
  <2>1. /\ es[pos].identity = ks.entries[pos].identity
        /\ es[pos].hash = ks.entries[pos].hash
        /\ es[pos].key = key
        /\ es[pos].value = value
    <3>1. ks.entries[pos] \in Entry
      BY <1>1
    <3> QED
      BY <1>3, <1>4, <3>1
  <2> QED
    BY <1>4, <2>1
<1>6. /\ IsSound(new) /\ Live(new) = Live(ks)
      /\ IsOrdered(ks) => IsOrdered(new)
  <2>1. \A i \in Live(ks) : /\ es[i].hash \in {HashOf[es[i].identity], MARK}
                            /\ es[i].key = NULL => es[i].hash # MARK
                            /\ es[i].key = NULL <=> es[i].value = NULL
    BY <1>1, <1>5, LiveEntry DEF IsSettled
  <2> QED
    BY <1>2, <1>4, <1>5, <2>1, RewriteSound
<1>7. new.entries = es
  BY <1>1, <1>2 DEF Rewritten, IsHtKeys
<1>8. IsSettled(new)
  BY <1>1, <1>5, <1>6, <1>7 DEF IsSettled
<1> QED
  BY <1>1, <1>5, <1>6, <1>7, <1>8

\* What _md_replace does to the entries its search finds.
Replaced(new, ks, first, found, key, value) ==
  /\ Live(new) = Live(ks) \ (found \ {first})
  /\ \A i \in Live(new) :
       /\ new.entries[i].identity = ks.entries[i].identity
       /\ new.entries[i].key = IF i = first THEN key ELSE ks.entries[i].key
       /\ new.entries[i].value = IF i = first THEN value ELSE ks.entries[i].value

\* __setitem__ of a key that is there keeps it, although it leaves its marks
\* on the entries it deletes.
LEMMA ReplaceItemSound ==
  ASSUME TableInvariant, IsSettled(keys), NEW key \in Keys, NEW value \in Values,
         md_contains(keys, key), ReplaceItem(key, value),
         NEW id, id = IdentityOf[key]
  PROVE  /\ SettledAfter
         /\ Replaced(keys', keys, keys.indices[FirstMatch(keys, HashOf[id], id)],
              IndexedBy(keys, MatchingSlots(keys, HashOf[id], id)), key, value)
<1> DEFINE found == MatchingSlots(keys, HashOf[id], id)
           kept == FirstMatch(keys, HashOf[id], id)
           slots == found \ {kept}
           marked == Marked(keys, slots)
           rest == DeleteAt(marked, slots)
           pos == keys.indices[kept]
<1>1. IsSound(keys) /\ used = Cardinality(Live(keys))
  BY DEF TableInvariant
<1>2. id \in Identities
  BY HashTableAssumption
<1>3. /\ found \in SUBSET Slots(keys.log2_size) /\ kept \in found
      /\ \A s \in found : keys.indices[s] >= 0 /\ keys.indices[s] \in Live(keys)
  BY <1>1, <1>2, MatchesAreLive DEF md_contains, hash_of
<1>4. /\ keys' = WithItem(rest, pos, key, value)
      /\ used' = used - Cardinality(slots)
  BY Zenon DEF ReplaceItem, WithItem, Marked, IndexedBy
<1> HIDE DEF found, kept
<1>5. pos \in Live(keys) /\ pos \notin IndexedBy(keys, slots)
  <2>1. pos \notin IndexedBy(keys, slots)
    <3> SUFFICES ASSUME NEW s \in slots, keys.indices[s] = pos PROVE FALSE
      BY DEF IndexedBy
    <3> QED
      BY <1>1, <1>3 DEF IsSound, IsHtKeys
  <2> QED
    BY <1>3, <2>1
<1> HIDE DEF pos
<1>6. slots \in SUBSET Slots(keys.log2_size) /\ \A s \in slots : keys.indices[s] >= 0
  BY <1>3
<1> HIDE DEF slots, marked
<1>7. /\ IsSound(marked) /\ Live(marked) = Live(keys)
      /\ IsOrdered(keys) => IsOrdered(marked)
      /\ marked.log2_size = keys.log2_size /\ marked.indices = keys.indices
      /\ IndexedBy(marked, slots) = IndexedBy(keys, slots)
      /\ \A i \in Live(keys) :
           i \notin IndexedBy(keys, slots) => marked.entries[i] = keys.entries[i]
  BY <1>1, <1>6, MarkedSound DEF marked
<1>8. /\ IsSound(rest) /\ (IsOrdered(marked) => IsOrdered(rest))
      /\ Live(rest) = Live(keys) \ IndexedBy(keys, slots)
      /\ Cardinality(Live(rest)) = Cardinality(Live(keys)) - Cardinality(slots)
      /\ \A i \in Live(rest) : rest.entries[i] = marked.entries[i]
  BY <1>6, <1>7, DeleteSound
<1> HIDE DEF rest
<1>9. IsSettled(rest) /\ pos \in Live(rest)
  BY <1>5, <1>7, <1>8 DEF IsSettled
<1>10. /\ IsSound(keys') /\ IsSettled(keys') /\ Live(keys') = Live(rest)
       /\ IsOrdered(rest) => IsOrdered(keys')
       /\ \A i \in Live(rest) :
            /\ keys'.entries[i].identity = rest.entries[i].identity
            /\ keys'.entries[i].key = IF i = pos THEN key ELSE rest.entries[i].key
            /\ keys'.entries[i].value = IF i = pos THEN value ELSE rest.entries[i].value
  BY <1>4, <1>8, <1>9, WithItemSound
<1>11. SettledAfter
  BY <1>1, <1>4, <1>7, <1>8, <1>10 DEF SettledAfter
<1>12. IndexedBy(keys, slots) = IndexedBy(keys, found) \ {pos}
  <2>1. \A i \in IndexedBy(keys, found) : i # pos => i \in IndexedBy(keys, slots)
    BY Zenon DEF IndexedBy, slots, pos
  <2>2. \A i \in IndexedBy(keys, slots) : i \in IndexedBy(keys, found)
    BY Zenon DEF IndexedBy, slots
  <2> QED
    BY <1>5, <2>1, <2>2
<1>13. Replaced(keys', keys, pos, IndexedBy(keys, found), key, value)
  <2>1. \A i \in Live(rest) : rest.entries[i] = keys.entries[i]
    BY <1>7, <1>8
  <2> QED
    BY <1>8, <1>10, <1>12, <2>1 DEF Replaced
<1> QED
  BY <1>11, <1>13 DEF pos, kept, found

\* The constructor makes the static empty table, or a new one of a size that
\* md_init computes.
LEMMA NewTableSound ==
  ASSUME NEW log2 \in Log2Sizes
  PROVE  /\ IsSound(htkeys_new(log2)) /\ IsSettled(htkeys_new(log2))
         /\ Cardinality(Live(htkeys_new(log2))) = 0
         /\ IsOrdered(htkeys_new(log2)) /\ htkeys_new(log2).log2_size = log2
<1> DEFINE new == htkeys_new(log2)
<1>1. /\ IsHtKeys(new) /\ new.log2_size = log2 /\ new.usable = Capacity(log2)
      /\ new.nentries = 0 /\ new.indices = [s \in Slots(log2) |-> DKIX_EMPTY]
  BY NewTableType
<1> HIDE DEF new
<1>2. Live(new) = {} /\ Occupied(new) = {}
  BY <1>1 DEF Live, Occupied
<1>3. Capacity(log2) \in Nat
  BY SizeTypes
<1>4. IsSound(new)
  BY <1>1, <1>2, <1>3, FS_EmptySet DEF IsSound, DKIX_EMPTY
<1>5. IsOrdered(new)
  <2>1. \A i \in EntryIndices(log2) : new.entries[i].identity = NULL
    BY DEF htkeys_new, ZeroEntry, new
  <2> QED
    BY <1>1, <1>2, <2>1 DEF IsOrdered
<1> QED
  BY <1>1, <1>2, <1>4, <1>5, FS_EmptySet DEF IsSettled, new

\* A new multidict satisfies the invariant.
LEMMA InitSound ==
  Init => TableInvariant /\ IsOrdered(keys)
<1> SUFFICES ASSUME Init PROVE TableInvariant /\ IsOrdered(keys)
  OBVIOUS
<1>1. PICK minused \in Hints :
        LET large == minused > USABLE_FRACTION(max_presize)
            log2 == IF large THEN log2_max_presize ELSE estimate_log2_keysize(minused)
            table == IF minused <= USABLE_FRACTION(HT_MINSIZE)
                       THEN empty_htkeys ELSE htkeys_new(log2)
        IN  /\ table = empty_htkeys \/ ~ TooLarge(log2)
            /\ keys = table
            /\ used = 0
            /\ bulk.op = "extend"
  BY DEF Init, NoBulk
<1> DEFINE log2 == IF minused > USABLE_FRACTION(max_presize)
                     THEN log2_max_presize ELSE estimate_log2_keysize(minused)
<1>2. keys = empty_htkeys \/ (keys = htkeys_new(log2) /\ ~ TooLarge(log2))
  BY <1>1
<1>3. ~ TooLarge(log2) => log2 \in Log2Sizes
  <2>1. CASE minused > USABLE_FRACTION(max_presize)
    <3>1. log2 = 17
      BY <2>1 DEF log2_max_presize
    <3> HIDE DEF log2
    <3>2. ~ (17 >= SIZE_T_BITS) => 17 \in Log2Sizes
      BY ConstantsAssumption DEF Log2Sizes, HT_LOG_MINSIZE
    <3> QED
      BY <3>1, <3>2 DEF TooLarge
  <2>2. CASE ~ (minused > USABLE_FRACTION(max_presize))
    <3>1. log2 = estimate_log2_keysize(minused) /\ minused \in Nat
      BY <2>2, HashTableAssumption
    <3> HIDE DEF log2
    <3>2. log2 = calculate_log2_keysize((minused * 3 + 1) \div 2)
          /\ (minused * 3 + 1) \div 2 \in Nat
      BY <3>1 DEF estimate_log2_keysize
    <3>3. log2 \in 0..SIZE_T_BITS
      BY <3>2, KeysizeIsNumber
    <3>4. log2 < SIZE_T_BITS => log2 \in Log2Sizes
      BY <3>1, EstimateSuffices
    <3> QED
      BY <3>3, <3>4, ConstantsAssumption DEF TooLarge
  <2> QED
    BY <2>1, <2>2
<1>4. 0 \in Log2Sizes
  BY DEF Log2Sizes
<1>5. /\ IsSound(keys) /\ IsSettled(keys) /\ Cardinality(Live(keys)) = 0
      /\ IsOrdered(keys)
  <2> HIDE DEF log2
  <2> QED
    BY <1>2, <1>3, <1>4, NewTableSound DEF empty_htkeys
<1>6. used = 0 /\ bulk.op = "extend"
  BY <1>1
<1> QED
  BY <1>5, <1>6 DEF TableInvariant, BulkOps

\* Every call that is one step keeps it.
LEMMA CallSound ==
  ASSUME TableInvariant, Idle, Call
  PROVE  SettledAfter
<1>1. /\ IsSound(keys) /\ IsSettled(keys) /\ used = Cardinality(Live(keys))
      /\ (UNCHANGED <<keys, used>> => SettledAfter)
  BY DEF TableInvariant, Idle, SettledAfter
<1>2. ASSUME NEW key \in Keys, NEW value \in Values, MdAdd(key, value)
      PROVE  SettledAfter
  BY <1>1, <1>2, AddItemSound DEF MdAdd
<1>3. ASSUME NEW key \in Keys, NEW value \in Values, MdSetDefault(key, value)
      PROVE  SettledAfter
  BY <1>1, <1>3, AddItemSound DEF MdSetDefault
<1>4. ASSUME NEW key \in Keys, NEW value \in Values, MdReplace(key, value)
      PROVE  SettledAfter
  BY <1>1, <1>4, AddItemSound, ReplaceItemSound DEF MdReplace
<1>5. ASSUME NEW key \in Keys, MdDel(key)
      PROVE  SettledAfter
  BY <1>1, <1>5, DeleteKeySound DEF MdDel, KeyError
<1>6. ASSUME NEW key \in Keys, MdPopOne(key)
      PROVE  SettledAfter
  <2>1. CASE md_contains(keys, key)
    BY <1>1, <1>6, <2>1, PopOneSound
  <2>2. CASE ~ md_contains(keys, key)
    BY <1>1, <1>6, <2>2 DEF MdPopOne, KeyError
  <2> QED
    BY <2>1, <2>2
<1>7. ASSUME NEW key \in Keys, MdPopAll(key)
      PROVE  SettledAfter
  BY <1>1, <1>7, DeleteKeySound DEF MdPopAll, KeyError
<1>8. CASE MdPopItem
  <2>1. CASE used # 0
    BY <1>1, <1>8, <2>1, PopItemSound
  <2>2. CASE used = 0
    BY <1>1, <1>8, <2>2 DEF MdPopItem, KeyError
  <2> QED
    BY <2>1, <2>2
<1>9. CASE MdClear
  <2>1. CASE keys = empty_htkeys
    BY <1>1, <1>9, <2>1 DEF MdClear
  <2>2. CASE keys # empty_htkeys
    <3>1. keys' = empty_htkeys /\ used' = 0 /\ 0 \in Log2Sizes
      BY <1>9, <2>2 DEF MdClear, Log2Sizes
    <3> QED
      BY <3>1, NewTableSound DEF SettledAfter, empty_htkeys
  <2> QED
    BY <2>1, <2>2
<1>10. CASE OutOfMemory
  BY <1>1, <1>10 DEF OutOfMemory
<1> QED
  BY <1>2, <1>3, <1>4, <1>5, <1>6, <1>7, <1>8, <1>9, <1>10 DEF Call

\* A reservation leaves a sound table with the items it had.  It builds the
\* indices as extend() does, so that no mark may be in the table.
LEMMA ReserveSound ==
  ASSUME NEW ks, IsSound(ks), NEW extra \in Nat,
         NeedsReserve(ks, Cardinality(Live(ks)), extra) =>
           /\ IsSettled(ks)
           /\ ~ TooLarge(estimate_log2_keysize(extra + Cardinality(Live(ks)))),
         NEW new, new = _md_reserve(ks, Cardinality(Live(ks)), extra)
  PROVE  /\ IsSound(new)
         /\ Cardinality(Live(new)) = Cardinality(Live(ks))
         /\ IsSettled(ks) => IsSettled(new)
         /\ IsOrdered(ks) => IsOrdered(new)
         /\ new.log2_size = IF NeedsReserve(ks, Cardinality(Live(ks)), extra)
              THEN estimate_log2_keysize(extra + Cardinality(Live(ks)))
              ELSE ks.log2_size
         /\ new = ks \/ Compacted(new, ks)
<1> DEFINE n == Cardinality(Live(ks))
           log2 == estimate_log2_keysize(extra + n)
<1>1. n \in Nat /\ extra + n \in Nat /\ n <= extra + n
  <2>1. n \in Nat
    BY LiveFinite DEF IsSound
  <2> QED
    BY <2>1
<1>2. CASE NeedsReserve(ks, n, extra)
  <2>1. new = _md_resize(ks, n, log2, FALSE)
    BY <1>2 DEF _md_reserve
  <2>2. log2 < SIZE_T_BITS
    <3>1. log2 = calculate_log2_keysize(((extra + n) * 3 + 1) \div 2)
          /\ ((extra + n) * 3 + 1) \div 2 \in Nat
      BY <1>1 DEF estimate_log2_keysize
    <3>2. ~ (log2 >= SIZE_T_BITS)
      BY <1>2 DEF TooLarge
    <3> HIDE DEF log2
    <3>3. log2 \in 0..SIZE_T_BITS
      BY <3>1, KeysizeIsNumber
    <3> QED
      BY <3>2, <3>3, ConstantsAssumption
  <2>3. log2 \in Log2Sizes /\ extra + n <= Capacity(log2) /\ Capacity(log2) \in Nat
    BY <1>1, <2>2, EstimateSuffices, SizeTypes
  <2> HIDE DEF log2
  <2>4. n <= Capacity(log2)
    BY <1>1, <2>3
  <2>5. log2 = estimate_log2_keysize(extra + n)
    BY DEF log2
  <2>6. IsSettled(ks)
    BY <1>2
  <2>7. /\ IsSound(new) /\ Cardinality(Live(new)) = n
        /\ IsSettled(ks) => IsSettled(new)
        /\ IsOrdered(new) /\ new.log2_size = log2 /\ Compacted(new, ks)
    BY <2>1, <2>3, <2>4, <2>6, ResizeSound
  <2> QED
    BY <1>2, <2>5, <2>7
<1>3. CASE ~ NeedsReserve(ks, n, extra)
  BY <1>3 DEF _md_reserve
<1> QED
  BY <1>2, <1>3

\* The reservation of a bulk call keeps the invariant.
LEMMA BulkBeginSound ==
  ASSUME TableInvariant, Idle, NEW op \in BulkOps, NEW hint \in Nat,
         BulkBegin(op, hint)
  PROVE  TableInvariant'
<1>1. IsSound(keys) /\ IsSettled(keys) /\ used = Cardinality(Live(keys))
  BY DEF TableInvariant, Idle
<1>2. /\ keys' = _md_reserve(keys, used, hint) /\ used' = used
      /\ NeedsReserve(keys, used, hint)
           => ~ TooLarge(estimate_log2_keysize(hint + used))
      /\ bulk'.op = op
  BY DEF BulkBegin
<1>3. SettledAfter
  BY <1>1, <1>2, ReserveSound DEF SettledAfter
<1> QED
  BY <1>2, <1>3 DEF TableInvariant, SettledAfter

\* An addition by update() or merge(), marked, leaves a sound table.
LEMMA AddForUpdateSound ==
  ASSUME TableInvariant, NEW key \in Keys, NEW value \in Values,
         AddForUpdate(key, value)
  PROVE  IsSound(keys') /\ used' = Cardinality(Live(keys'))
BY AddEntrySound DEF TableInvariant, AddForUpdate

\* An item of a bulk call keeps the invariant.
LEMMA BulkItemSound ==
  ASSUME TableInvariant, ~ Idle, NEW key \in Keys, NEW value \in Values,
         BulkItem(key, value)
  PROVE  TableInvariant'
<1>1. /\ IsSound(keys) /\ used = Cardinality(Live(keys))
      /\ bulk.op \in BulkOps \cup {"none"}
      /\ bulk.op = "extend" => IsSettled(keys)
  BY DEF TableInvariant
<1>2. bulk'.op = bulk.op
  BY <1>1 DEF BulkItem, ApplyItem
<1>3. CASE bulk.op = "extend" /\ AddItem(key, value)
  BY <1>1, <1>2, <1>3, AddItemSound DEF TableInvariant, SettledAfter
<1>4. CASE bulk.op = "update" /\ UpdateItem(key, value)
  <2>1. CASE md_contains(keys, key)
    BY <1>1, <1>2, <1>4, <2>1, ReplaceForUpdateSound DEF UpdateItem, TableInvariant
  <2>2. CASE ~ md_contains(keys, key)
    BY <1>1, <1>2, <1>4, <2>2, AddForUpdateSound DEF UpdateItem, TableInvariant
  <2> QED
    BY <2>1, <2>2
<1>5. CASE bulk.op = "merge" /\ MergeItem(key, value)
  <2>1. CASE md_contains(keys, key)
    BY <1>1, <1>2, <1>5, <2>1 DEF MergeItem, TableInvariant
  <2>2. CASE ~ md_contains(keys, key)
    BY <1>1, <1>2, <1>5, <2>2, AddForUpdateSound DEF MergeItem, TableInvariant
  <2> QED
    BY <2>1, <2>2
<1> QED
  BY <1>3, <1>4, <1>5 DEF BulkItem, ApplyItem

\* The end of a bulk call, or its failure, keeps it: no mark is left.
LEMMA BulkStopSound ==
  ASSUME TableInvariant, ~ Idle, NEW status, BulkStop(status)
  PROVE  TableInvariant'
<1>1. /\ IsSound(keys) /\ used = Cardinality(Live(keys))
      /\ bulk.op = "extend" => IsSettled(keys)
  BY DEF TableInvariant
<1>2. bulk'.op = "none"
  BY DEF BulkStop, NoBulk
<1>3. CASE bulk.op = "extend"
  BY <1>1, <1>2, <1>3 DEF BulkStop, TableInvariant
<1>4. CASE bulk.op # "extend"
  BY <1>1, <1>2, <1>4, PostUpdateSound DEF BulkStop, TableInvariant
<1> QED
  BY <1>3, <1>4

\* Every step keeps it.
LEMMA NextSound ==
  TableInvariant /\ [Next]_vars => TableInvariant'
<1> SUFFICES ASSUME TableInvariant, [Next]_vars PROVE TableInvariant'
  OBVIOUS
<1>1. CASE Idle /\ Call /\ UNCHANGED bulk
  BY <1>1, CallSound DEF SettledAfter, TableInvariant
<1>2. ASSUME Idle, NEW op \in BulkOps, NEW hint \in Hints, BulkBegin(op, hint)
      PROVE  TableInvariant'
  BY <1>2, BulkBeginSound, HashTableAssumption
<1>3. ASSUME NEW hint \in Hints, BulkRefused(hint)
      PROVE  TableInvariant'
  BY <1>3 DEF BulkRefused, TableInvariant
<1>4. ASSUME ~ Idle, NEW key \in Keys, NEW value \in Values, BulkItem(key, value)
      PROVE  TableInvariant'
  BY <1>4, BulkItemSound
<1>5. CASE ~ Idle /\ (BulkEnd \/ BulkFail)
  BY <1>5, BulkStopSound DEF BulkEnd, BulkFail
<1>6. CASE UNCHANGED vars
  BY <1>6 DEF vars, TableInvariant
<1> QED
  BY <1>1, <1>2, <1>3, <1>4, <1>5, <1>6 DEF Next

-----------------------------------------------------------------------------
(* The theorems.                                                           *)

\* The table is sound in every reachable state.
THEOREM TableAlwaysSound == Spec => []TableInvariant
BY InitSound, NextSound, PTL DEF Spec

\* The counters agree with what they count, whatever the calls: used with the
\* live entries, nentries with the occupied slots, usable with what is left.
THEOREM CountersAlwaysAgree == Spec => []CountersAgree
<1>1. TableInvariant => CountersAgree
  BY DEF TableInvariant, CountersAgree, IsSound
<1> QED
  BY <1>1, TableAlwaysSound, PTL

\* Every probe loop ends at an EMPTY slot, for every hash and in every table
\* that can be reached, and a search meets each live entry before it does.
THEOREM LookupAlwaysComplete == Spec => []LookupComplete
<1>1. TableInvariant => LookupComplete
  <2> SUFFICES ASSUME TableInvariant PROVE LookupComplete
    OBVIOUS
  <2>1. IsSound(keys)
    BY DEF TableInvariant
  <2>2. ASSUME NEW hash \in Hashes
        PROVE  \E n \in 0..ProbeSteps(keys.log2_size) : IndexAt(keys, hash, n) = DKIX_EMPTY
    BY <2>1, NeverFull, EmptySlotFound
  <2>3. \A i \in Live(keys) : Meets(keys, HashOf[keys.entries[i].identity], i)
    BY <2>1 DEF IsSound
  <2> QED
    BY <2>2, <2>3 DEF LookupComplete
<1> QED
  BY <1>1, TableAlwaysSound, PTL
=============================================================================
