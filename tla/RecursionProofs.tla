---------------------------- MODULE RecursionProofs ----------------------------
(***************************************************************************)
(* Induction and recursion up to a bound, stated with sets and functions,  *)
(* for the loops that the specifications write as recursive functions;     *)
(* counting in sets of naturals; and the arithmetic of a table whose size  *)
(* is a power of two: its powers, remainders, and the recurrence 5 * i + 1 *)
(* of the probes, a full cycle modulo every power of two.                  *)
(***************************************************************************)
EXTENDS Integers, FiniteSetsExt, FiniteSetTheorems, WellFoundedInduction, TLAPS

\* A non-empty set of naturals has a least element, and Min picks it.
LEMMA MinOfNaturals ==
  ASSUME NEW S \in SUBSET Nat, S # {}
  PROVE  Min(S) \in S /\ \A n \in S : Min(S) <= n
<1> DEFINE Less == {p \in Nat \X Nat : p[1] < p[2]}
<1>1. OpToRel(<, Nat) = Less
  BY Zenon DEF OpToRel
<1>2. IsWellFoundedOn(Less, Nat)
  BY <1>1, NatLessThanWellFounded, Zenon
<1> HIDE DEF Less
<1>3. PICK m \in S : \A n \in S : <<n, m>> \notin Less
  BY <1>2, WFMin, Zenon
<1>4. \A n \in S : m <= n
  <2> SUFFICES ASSUME NEW n \in S, n < m PROVE FALSE
    OBVIOUS
  <2> DEFINE pair == <<n, m>>
  <2>1. pair \in Nat \X Nat /\ pair[1] = n /\ pair[2] = m
    OBVIOUS
  <2>2. pair[1] < pair[2]
    BY <2>1
  <2> QED
    BY <1>3, <2>1, <2>2, Zenon DEF Less
<1> QED
  BY <1>4 DEF Min

\* What holds of 0 and passes from each number below n to the next holds up
\* to n; the property is given by the set of numbers that have it.
LEMMA BoundedInduction ==
  ASSUME NEW n \in Nat, NEW S, 0 \in S, \A i \in 0..(n - 1) : i \in S => i + 1 \in S
  PROVE  0..n \subseteq S
<1> DEFINE out == (0..n) \ S
<1> SUFFICES ASSUME out # {} PROVE FALSE
  OBVIOUS
<1>1. out \in SUBSET Nat
  OBVIOUS
<1> HIDE DEF out
<1>2. Min(out) \in out /\ \A j \in out : Min(out) <= j
  BY <1>1, MinOfNaturals
<1>3. Min(out) \in 0..n /\ Min(out) \notin S
  BY <1>2 DEF out
<1>4. Min(out) - 1 \in 0..(n - 1)
  BY <1>3
<1>5. Min(out) - 1 \notin out
  BY <1>2, <1>3
<1>6. Min(out) - 1 \in S
  BY <1>4, <1>5 DEF out
<1> QED
  BY <1>3, <1>4, <1>6

\* f runs through n steps from t0.
IsRun(f, n, T, t0, step) ==
  /\ f \in [0..n -> T]
  /\ f[0] = t0
  /\ \A i \in 1..n : f[i] = step[<<f[i - 1], i>>]

\* A run can always take one more step.
LEMMA RunExtends ==
  ASSUME NEW n \in Nat, NEW T, NEW t0 \in T, NEW step \in [T \X (1..n) -> T],
         NEW i \in 0..(n - 1), NEW f, IsRun(f, i, T, t0, step)
  PROVE  \E g : IsRun(g, i + 1, T, t0, step)
<1> DEFINE next == step[<<f[i], i + 1>>]
           g == [j \in 0..(i + 1) |-> IF j = i + 1 THEN next ELSE f[j]]
<1>1. f \in [0..i -> T] /\ f[0] = t0 /\ \A j \in 1..i : f[j] = step[<<f[j - 1], j>>]
  BY DEF IsRun
<1>2. <<f[i], i + 1>> \in T \X (1..n)
  BY <1>1
<1>3. next \in T
  BY <1>2
<1>4. g[i + 1] = next /\ \A j \in 0..i : g[j] = f[j]
  OBVIOUS
<1>5. g \in [0..(i + 1) -> T]
  <2> HIDE DEF next
  <2> QED
    BY <1>1, <1>3
<1> HIDE DEF g
<1>6. ASSUME NEW j \in 1..(i + 1) PROVE g[j] = step[<<g[j - 1], j>>]
  <2>1. j - 1 \in 0..i
    OBVIOUS
  <2>2. g[j - 1] = f[j - 1]
    BY <1>4, <2>1
  <2>3. CASE j = i + 1
    <3>1. j - 1 = i
      BY <2>3
    <3> QED
      BY <1>4, <2>2, <2>3, <3>1
  <2>4. CASE j # i + 1
    <3>1. j \in 1..i /\ j \in 0..i
      BY <2>4
    <3> QED
      BY <1>1, <1>4, <2>2, <3>1
  <2> QED
    BY <2>3, <2>4
<1>7. g[0] = t0
  BY <1>1, <1>4
<1> QED
  BY <1>5, <1>6, <1>7 DEF IsRun

\* There are runs of any length: a recursion up to n has a solution.
LEMMA BoundedRecursion ==
  ASSUME NEW n \in Nat, NEW T, NEW t0 \in T, NEW step \in [T \X (1..n) -> T]
  PROVE  \E f : IsRun(f, n, T, t0, step)
<1> DEFINE S == {m \in 0..n : \E f : IsRun(f, m, T, t0, step)}
<1>1. 0 \in S
  <2>1. IsRun([i \in 0..0 |-> t0], 0, T, t0, step)
    BY DEF IsRun
  <2>2. \E f : IsRun(f, 0, T, t0, step)
    BY <2>1
  <2> QED
    BY <2>2
<1>2. \A i \in 0..(n - 1) : i \in S => i + 1 \in S
  <2> SUFFICES ASSUME NEW i \in 0..(n - 1), i \in S PROVE i + 1 \in S
    OBVIOUS
  <2>1. PICK f : IsRun(f, i, T, t0, step)
    OBVIOUS
  <2>2. \E g : IsRun(g, i + 1, T, t0, step)
    BY <2>1, RunExtends
  <2> QED
    BY <2>2
<1>3. n \in S
  <2> HIDE DEF S
  <2>1. 0..n \subseteq S
    BY <1>1, <1>2, BoundedInduction
  <2> QED
    BY <2>1
<1> QED
  BY <1>3

-----------------------------------------------------------------------------
(* Counting.                                                               *)

\* The elements of S below j.
Below(S, j) == {x \in S : x < j}

\* The n-th element of a set of naturals exists.
LEMMA NthElement ==
  ASSUME NEW m \in Nat, NEW S \in SUBSET (0..(m - 1)),
         NEW n \in Nat, n < Cardinality(S)
  PROVE  \E i \in S : Cardinality({j \in S : j < i}) = n
<1> DEFINE J == {j \in 0..m : n < Cardinality(Below(S, j))}
<1>0. \A x \in S : x \in 0..(m - 1)
  OBVIOUS
<1>1. IsFiniteSet(S)
  <2>1. IsFiniteSet(0..(m - 1))
    BY FS_Interval
  <2> QED
    BY <2>1, FS_Subset
<1>2. \A j : IsFiniteSet(Below(S, j)) /\ Cardinality(Below(S, j)) \in Nat
  BY <1>1, FS_Subset, FS_CardinalityType DEF Below
<1>3. m \in J
  <2>1. \A x \in S : x < m
    BY <1>0
  <2>2. Below(S, m) = S
    BY <2>1, Zenon DEF Below
  <2> QED
    BY <2>2
<1>4. Min(J) \in J /\ \A j \in J : Min(J) <= j
  <2>1. J # {} /\ J \in SUBSET Nat
    BY <1>3
  <2> HIDE DEF J
  <2> QED
    BY <2>1, MinOfNaturals
<1> DEFINE q == Min(J)
<1>5. q \in 0..m /\ n < Cardinality(Below(S, q)) /\ \A j \in J : q <= j
  BY <1>4
<1> HIDE DEF q
<1>6. q # 0
  <2>1. \A x \in S : ~ (x < 0)
    BY <1>0
  <2>2. Below(S, 0) = {}
    BY <2>1, Zenon DEF Below
  <2>3. ~ (n < Cardinality(Below(S, 0)))
    BY <2>2, FS_EmptySet
  <2> QED
    BY <1>5, <2>3, Zenon
<1>7. q - 1 \in 0..m /\ q - 1 \notin J
  <2> HIDE DEF J
  <2> QED
    BY <1>5, <1>6
<1>8. Cardinality(Below(S, q - 1)) <= n
  BY <1>2, <1>7
<1>9. q - 1 \in S /\ Below(S, q) = Below(S, q - 1) \cup {q - 1}
  <2>0. q \in Int
    BY <1>5
  <2>1. q - 1 \in S
    <3> SUFFICES ASSUME q - 1 \notin S PROVE FALSE
      OBVIOUS
    <3>1. \A x \in S : x < q <=> x < q - 1
      BY <1>0, <2>0
    <3>2. Below(S, q) = Below(S, q - 1)
      BY <3>1, Zenon DEF Below
    <3> QED
      BY <1>2, <1>5, <1>8, <3>2
  <2>2. \A x \in S : x < q <=> x < q - 1 \/ x = q - 1
    BY <1>0, <2>0
  <2>3. Below(S, q) = Below(S, q - 1) \cup {q - 1}
    BY <2>1, <2>2, Zenon DEF Below
  <2> QED
    BY <2>1, <2>3
<1>10. q - 1 \notin Below(S, q - 1)
  BY <1>7 DEF Below
<1>11. Cardinality(Below(S, q)) = Cardinality(Below(S, q - 1)) + 1
  BY <1>2, <1>9, <1>10, FS_AddElement
<1>12. Cardinality(Below(S, q - 1)) = n
  BY <1>2, <1>5, <1>8, <1>11
<1> QED
  BY <1>9, <1>12 DEF Below

-----------------------------------------------------------------------------
(* Powers of two and remainders.                                           *)

\* The powers of two are positive naturals: 2^k counts the subsets of 1..k.
LEMMA PowerOfTwo == \A k \in Nat : 2 ^ k \in Nat \ {0}
<1> SUFFICES ASSUME NEW k \in Nat PROVE 2 ^ k \in Nat \ {0}
  OBVIOUS
<1>1. IsFiniteSet(1..k) /\ Cardinality(1..k) = k
  BY FS_Interval
<1>2. IsFiniteSet(SUBSET (1..k)) /\ Cardinality(SUBSET (1..k)) = 2 ^ k
  BY <1>1, FS_SUBSET
<1>3. SUBSET (1..k) # {}
  OBVIOUS
<1>4. Cardinality(SUBSET (1..k)) \in Nat /\ Cardinality(SUBSET (1..k)) # 0
  BY <1>2, <1>3, FS_CardinalityType, FS_EmptySet
<1> QED
  BY <1>2, <1>4

\* The powers of two below 8.
LEMMA SmallPowers == 2 ^ 0 = 1 /\ 2 ^ 1 = 2 /\ 2 ^ 2 = 4
  OBVIOUS

\* A power of two is twice the one before: with one element more there are
\* twice as many subsets.
LEMMA PowerDoubles ==
  ASSUME NEW k \in Nat
  PROVE  2 ^ (k + 1) = 2 * 2 ^ k
<1> DEFINE old == SUBSET (1..k)
           fresh == {s \cup {k + 1} : s \in old}
           f == [s \in old |-> s \cup {k + 1}]
<1>1. /\ IsFiniteSet(old) /\ Cardinality(old) = 2 ^ k
      /\ Cardinality(SUBSET (1..(k + 1))) = 2 ^ (k + 1)
  <2>1. /\ IsFiniteSet(1..k) /\ Cardinality(1..k) = k
        /\ IsFiniteSet(1..(k + 1)) /\ Cardinality(1..(k + 1)) = k + 1
    BY FS_Interval
  <2> QED
    BY <2>1, FS_SUBSET
<1>2. 1..(k + 1) = (1..k) \cup {k + 1} /\ k + 1 \notin 1..k
  OBVIOUS
<1>3. SUBSET (1..(k + 1)) = old \cup fresh
  <2>1. ASSUME NEW s \in SUBSET (1..(k + 1)), s \notin old PROVE s \in fresh
    <3>1. k + 1 \in s /\ s \ {k + 1} \in old
      BY <1>2, <2>1
    <3>2. s = (s \ {k + 1}) \cup {k + 1}
      BY <3>1
    <3> QED
      BY <3>1, <3>2
  <2>2. old \cup fresh \subseteq SUBSET (1..(k + 1))
    BY <1>2
  <2> QED
    BY <2>1, <2>2
<1>4. old \cap fresh = {}
  BY <1>2
<1>5. IsFiniteSet(fresh) /\ Cardinality(fresh) = Cardinality(old)
  <2>1. f \in Surjection(old, fresh)
    BY DEF Surjection
  <2>2. f \in Injection(old, fresh)
    <3>1. ASSUME NEW s \in old, NEW t \in old, f[s] = f[t] PROVE s = t
      <4>1. s \cup {k + 1} = t \cup {k + 1} /\ k + 1 \notin s /\ k + 1 \notin t
        BY <1>2, <3>1
      <4> QED
        BY <4>1
    <3> HIDE DEF old
    <3>2. f \in [old -> fresh]
      OBVIOUS
    <3> QED
      BY <3>1, <3>2 DEF Injection, IsInjective
  <2> HIDE DEF f, old, fresh
  <2> QED
    BY <1>1, <2>1, <2>2, FS_Surjection
<1> HIDE DEF old, fresh
<1>6. Cardinality(old \cup fresh) = 2 ^ k + 2 ^ k - Cardinality(old \cap fresh)
  BY <1>1, <1>5, FS_Union
<1>7. Cardinality(old \cap fresh) = 0
  BY <1>4, FS_EmptySet
<1>8. Cardinality(old \cup fresh) = 2 ^ (k + 1)
  BY <1>1, <1>3
<1>9. 2 ^ k \in Nat
  BY PowerOfTwo
<1> QED
  BY <1>6, <1>7, <1>8, <1>9

\* The powers grow.
LEMMA PowersGrow ==
  ASSUME NEW n \in Nat, NEW m \in 0..n
  PROVE  2 ^ m <= 2 ^ n
<1> DEFINE S == {i \in 0..n : i < m \/ 2 ^ m <= 2 ^ i}
<1>1. 0 \in S
  <2>1. 2 ^ m \in Nat
    BY PowerOfTwo
  <2>2. 0 < m \/ m = 0
    OBVIOUS
  <2>3. m = 0 => 2 ^ m <= 2 ^ 0
    BY <2>1
  <2> QED
    BY <2>2, <2>3
<1>2. ASSUME NEW i \in 0..(n - 1), i \in S PROVE i + 1 \in S
  <2>1. i + 1 = m \/ i + 1 < m \/ 2 ^ m <= 2 ^ i
    BY <1>2
  <2>2. 2 ^ (i + 1) = 2 * 2 ^ i /\ 2 ^ i \in Nat /\ 2 ^ (i + 1) \in Nat /\ 2 ^ m \in Nat
    BY PowerDoubles, PowerOfTwo
  <2>3. 2 ^ m <= 2 ^ i => 2 ^ m <= 2 ^ (i + 1)
    BY <2>2
  <2>4. i + 1 = m => 2 ^ m <= 2 ^ (i + 1)
    BY <2>2
  <2> QED
    BY <2>1, <2>3, <2>4
<1> HIDE DEF S
<1>3. 0..n \subseteq S
  BY <1>1, <1>2, BoundedInduction
<1>4. n \in S
  BY <1>3
<1> QED
  BY <1>4 DEF S

\* Five doublings.
LEMMA PowersByFive == ASSUME NEW m \in Nat PROVE 2 ^ (m + 5) = 32 * 2 ^ m
<1>1. /\ 2 ^ (m + 1) = 2 * 2 ^ m
      /\ 2 ^ ((m + 1) + 1) = 2 * 2 ^ (m + 1)
      /\ 2 ^ ((m + 2) + 1) = 2 * 2 ^ (m + 2)
      /\ 2 ^ ((m + 3) + 1) = 2 * 2 ^ (m + 3)
      /\ 2 ^ ((m + 4) + 1) = 2 * 2 ^ (m + 4)
  BY PowerDoubles
<1>2. /\ (m + 1) + 1 = m + 2 /\ (m + 2) + 1 = m + 3 /\ (m + 3) + 1 = m + 4
      /\ (m + 4) + 1 = m + 5
  OBVIOUS
<1>3. 2 ^ m \in Nat
  BY PowerOfTwo
<1> QED
  BY <1>1, <1>2, <1>3

\* A remainder is what is left of the number without a multiple.
LEMMA RemainderIs ==
  ASSUME NEW a \in Int, NEW n \in Nat \ {0}
  PROVE  a % n \in 0..(n - 1) /\ \E d \in Int : a % n = a + n * d
<1>1. a % n \in 0..(n - 1)
  OBVIOUS
<1>2. PICK q \in Int : q = a \div n
  OBVIOUS
<1>3. a = n * q + (a % n)
  BY <1>2
<1>4. PICK d \in Int : d = -q
  OBVIOUS
<1>5. n * d = -(n * q)
  BY <1>4
<1>6. PICK x \in Int, y \in Int, z \in Int : x = n * q /\ y = a % n /\ z = n * d
  OBVIOUS
<1>7. a = x + y
  BY <1>3, <1>6, Zenon
<1>8. z = -x
  BY <1>5, <1>6, Zenon
<1>9. y = a + z
  BY <1>7, <1>8
<1>10. a % n = a + n * d
  BY <1>6, <1>9, Zenon
<1> QED
  BY <1>1, <1>10

\* Two remainders that differ by a multiple are one.
LEMMA SameRemainder ==
  ASSUME NEW n \in Nat \ {0}, NEW a \in 0..(n - 1), NEW b \in 0..(n - 1), NEW c \in Int,
         a - b = n * c
  PROVE  a = b
<1>1. ASSUME c >= 1 PROVE FALSE
  <2>1. n * c >= n
    BY <1>1
  <2> QED
    BY <2>1
<1>2. ASSUME c <= -1 PROVE FALSE
  <2>1. n * c <= -n
    BY <1>2
  <2> QED
    BY <2>1
<1>3. c = 0
  BY <1>1, <1>2
<1>4. n * c = 0
  BY <1>3
<1> QED
  BY <1>4

-----------------------------------------------------------------------------
(* The recurrence 5 * i + 1.                                               *)

\* n steps of it, before the remainder is taken.
IsRecurrence(y, n) ==
  /\ y \in [0..n -> Int]
  /\ \A i \in 0..(n - 1) : y[i + 1] = 5 * y[i] + 1

\* From step i on, t steps add r more than a multiple of 4, times t.
Stride(y, t, r, i) == \E c \in Int : y[i + t] - y[i] = t * (4 * c + r)

\* What t steps add is multiplied by 5 from one place to the next, which keeps
\* its remainder modulo 4 * t.
LEMMA StrideEverywhere ==
  ASSUME NEW n \in Nat, NEW y, IsRecurrence(y, n), NEW t \in 1..n, NEW r \in Int,
         Stride(y, t, r, 0)
  PROVE  \A i \in 0..(n - t) : Stride(y, t, r, i)
<1> DEFINE S == {i \in 0..(n - t) : Stride(y, t, r, i)}
<1>1. 0 \in S
  OBVIOUS
<1>2. ASSUME NEW i \in 0..((n - t) - 1), i \in S PROVE i + 1 \in S
  <2>1. PICK c \in Int : y[i + t] - y[i] = t * (4 * c + r)
    BY <1>2 DEF Stride
  <2>2. /\ i + t \in 0..(n - 1) /\ i \in 0..(n - 1) /\ i + 1 \in 0..(n - t)
        /\ (i + 1) + t = (i + t) + 1 /\ i + t \in 0..n /\ i \in 0..n
    OBVIOUS
  <2>3. /\ y[(i + 1) + t] = 5 * y[i + t] + 1
        /\ y[i + 1] = 5 * y[i] + 1
        /\ y[i + t] \in Int /\ y[i] \in Int
    BY <2>2 DEF IsRecurrence
  <2>4. y[(i + 1) + t] - y[i + 1] = 5 * (y[i + t] - y[i])
    BY <2>3
  <2>5. 5 * (t * (4 * c + r)) = t * (4 * (5 * c + r) + r)
    OBVIOUS
  <2>6. 5 * c + r \in Int
    OBVIOUS
  <2> QED
    BY <2>1, <2>2, <2>4, <2>5, <2>6 DEF Stride
<1>3. 0..(n - t) \subseteq S
  <2>1. PICK m \in Nat : m = n - t
    OBVIOUS
  <2> HIDE DEF S
  <2> QED
    BY <1>1, <1>2, <2>1, BoundedInduction
<1> QED
  BY <1>3

\* 2^j steps add an odd multiple of 2^j.
LEMMA StridesOdd ==
  ASSUME NEW k \in Nat, NEW y, IsRecurrence(y, 2 ^ k), NEW j \in 0..k
  PROVE  \A i \in 0..(2 ^ k - 2 ^ j) : \E c \in Int : y[i + 2 ^ j] - y[i] = 2 ^ j * (2 * c + 1)
<1> DEFINE n == 2 ^ k
           S == {m \in 0..k : \E c \in Int : y[2 ^ m] - y[0] = 2 ^ m * (2 * c + 1)}
<1>1. n \in Nat /\ n >= 1
  BY PowerOfTwo
<1>2. \A m \in 0..k : 2 ^ m \in 1..n
  BY PowerOfTwo, PowersGrow
<1> HIDE DEF n
<1>3. ASSUME NEW t \in 1..n, NEW c \in Int, y[t] - y[0] = t * (2 * c + 1)
      PROVE  \E q \in Int : \A i \in 0..(n - t) :
               Stride(y, t, 2 * q + 1, i)
  <2>1. PICK e \in Int, q \in Int : c = 2 * e + q
    BY c = 2 * 0 + c
  <2>2. t * (2 * c + 1) = t * (4 * e + (2 * q + 1))
    BY <2>1
  <2>3. PICK r \in Int : r = 2 * q + 1
    OBVIOUS
  <2>4. \A i \in 0..(n - t) : Stride(y, t, r, i)
    <3>1. IsRecurrence(y, n)
      BY DEF n
    <3>2. y[0 + t] - y[0] = t * (4 * e + r)
      BY <1>3, <2>2, <2>3
    <3>3. Stride(y, t, r, 0)
      BY <3>2 DEF Stride
    <3> QED
      BY <1>1, <3>1, <3>3, StrideEverywhere
  <2> QED
    BY <2>3, <2>4
<1>4. 0 \in S
  <2>1. 2 ^ 0 = 1
    BY SmallPowers
  <2>2. y[1] = 5 * y[0] + 1 /\ y[0] \in Int
    BY <1>1 DEF IsRecurrence, n
  <2>3. y[1] - y[0] = 1 * (2 * (2 * y[0]) + 1) /\ 2 * y[0] \in Int
    BY <2>2
  <2> QED
    BY <2>1, <2>3
<1>5. ASSUME NEW m \in 0..(k - 1), m \in S PROVE m + 1 \in S
  <2>1. m \in 0..k /\ m + 1 \in 0..k
    OBVIOUS
  <2>2. PICK t \in 1..n : t = 2 ^ m
    BY <1>2, <2>1
  <2>3. 2 ^ (m + 1) = 2 * t /\ 2 * t <= n
    BY <1>2, <2>1, <2>2, PowerDoubles
  <2>4. PICK q \in Int : \A i \in 0..(n - t) :
               Stride(y, t, 2 * q + 1, i)
    BY <1>3, <1>5, <2>2
  <2>5. 0 \in 0..(n - t) /\ t \in 0..(n - t)
    BY <1>1, <2>3
  <2>6. PICK d \in Int : y[0 + t] - y[0] = t * (4 * d + (2 * q + 1))
    BY <2>4, <2>5 DEF Stride
  <2>7. PICK e \in Int : y[t + t] - y[t] = t * (4 * e + (2 * q + 1))
    BY <2>4, <2>5 DEF Stride
  <2>8. 0 + t = t /\ t + t = 2 * t /\ t \in 0..n /\ 2 * t \in 0..n /\ 0 \in 0..n
    BY <1>1, <2>3
  <2>9. y[0] \in Int /\ y[t] \in Int /\ y[2 * t] \in Int
    BY <2>8 DEF IsRecurrence, n
  <2>10. y[2 * t] - y[0] = t * (4 * d + (2 * q + 1)) + t * (4 * e + (2 * q + 1))
    BY <2>6, <2>7, <2>8, <2>9
  <2>11. t * (4 * d + (2 * q + 1)) + t * (4 * e + (2 * q + 1))
           = (2 * t) * (2 * (d + e + q) + 1)
    OBVIOUS
  <2>12. PICK c \in Int : c = d + e + q
    OBVIOUS
  <2> QED
    BY <2>1, <2>3, <2>10, <2>11, <2>12
<1>6. j \in S
  <2> HIDE DEF S
  <2>1. 0..k \subseteq S
    BY <1>4, <1>5, BoundedInduction
  <2> QED
    BY <2>1
<1>7. PICK t \in 1..n, c \in Int : t = 2 ^ j /\ y[t] - y[0] = t * (2 * c + 1)
  BY <1>2, <1>6
<1>8. PICK q \in Int : \A i \in 0..(n - t) :
               Stride(y, t, 2 * q + 1, i)
  BY <1>3, <1>7
<1>9. ASSUME NEW i \in 0..(n - t) PROVE \E d \in Int : y[i + t] - y[i] = t * (2 * d + 1)
  <2>1. PICK e \in Int : y[i + t] - y[i] = t * (4 * e + (2 * q + 1))
    BY <1>8 DEF Stride
  <2>2. PICK d \in Int : d = 2 * e + q
    OBVIOUS
  <2>3. t * (4 * e + (2 * q + 1)) = t * (2 * d + 1)
    BY <2>2
  <2> QED
    BY <2>1, <2>3
<1> QED
  BY <1>7, <1>9 DEF n

\* So 2^k steps meet every remainder modulo 2^k: of those that meet it modulo
\* 2^j, one or the one 2^j steps later meets it modulo the next power.
LEMMA RecurrenceCovers ==
  ASSUME NEW k \in Nat, NEW y, IsRecurrence(y, 2 ^ k), NEW s \in 0..(2 ^ k - 1)
  PROVE  \E i \in 0..(2 ^ k - 1), c \in Int : y[i] - s = 2 ^ k * c
<1> DEFINE n == 2 ^ k
           Met(m, a) == \E i \in 0..(2 ^ m - 1), c \in Int : y[i] - a = 2 ^ m * c
           S == {m \in 0..k : \A a \in 0..(2 ^ m - 1) : Met(m, a)}
<1>1. n \in Nat /\ n >= 1
  BY PowerOfTwo
<1>2. \A m \in 0..k : 2 ^ m \in 1..n
  BY PowerOfTwo, PowersGrow
<1> HIDE DEF n
<1>3. 0 \in S
  <2>1. 2 ^ 0 = 1
    BY SmallPowers
  <2>2. y[0] \in Int
    BY <1>1 DEF IsRecurrence, n
  <2>3. y[0] - 0 = 1 * y[0]
    BY <2>2
  <2> QED
    BY <2>1, <2>2, <2>3
<1>4. ASSUME NEW m \in 0..(k - 1), m \in S PROVE m + 1 \in S
  <2>1. m \in 0..k /\ m + 1 \in 0..k
    OBVIOUS
  <2>2. PICK t \in 1..n : t = 2 ^ m
    BY <1>2, <2>1
  <2>3. 2 ^ (m + 1) = 2 * t /\ 2 * t <= n
    BY <1>2, <2>1, <2>2, PowerDoubles
  <2>4. ASSUME NEW a \in 0..(2 * t - 1)
        PROVE  \E i \in 0..(2 * t - 1), c \in Int : y[i] - a = (2 * t) * c
    <3>1. PICK b \in 0..(t - 1), u \in {0, 1} : a = b + t * u
      <4>1. CASE a < t
        <5>1. a \in 0..(t - 1) /\ a = a + t * 0
          BY <4>1
        <5> QED
          BY <5>1
      <4>2. CASE ~ (a < t)
        <5>1. a - t \in 0..(t - 1) /\ a = (a - t) + t * 1
          BY <4>2
        <5> QED
          BY <5>1
      <4> QED
        BY <4>1, <4>2
    <3>2. PICK i \in 0..(t - 1), d \in Int : y[i] - b = t * d
      BY <1>4, <2>2
    <3>3. i \in 0..n /\ i + t \in 0..n /\ i \in 0..(n - t)
      BY <1>1, <2>3
    <3>4. y[i] \in Int /\ y[i + t] \in Int
      BY <3>3 DEF IsRecurrence, n
    <3>5. PICK c \in Int : c = d - u
      OBVIOUS
    <3>6. y[i] - a = t * c
      <4>1. y[i] - a = t * d - t * u
        BY <3>1, <3>2, <3>4
      <4>2. t * d - t * u = t * (d - u)
        OBVIOUS
      <4> QED
        BY <3>5, <4>1, <4>2
    <3>7. PICK q \in Int : c = 2 * q \/ c = 2 * q + 1
      BY c = 2 * (c \div 2) \/ c = 2 * (c \div 2) + 1
    <3>8. CASE c = 2 * q
      <4>1. t * (2 * q) = (2 * t) * q
        OBVIOUS
      <4>2. i \in 0..(2 * t - 1)
        OBVIOUS
      <4> QED
        BY <3>6, <3>8, <4>1, <4>2
    <3>9. CASE c = 2 * q + 1
      <4>1. PICK e \in Int : y[i + t] - y[i] = t * (2 * e + 1)
        <5>1. \A l \in 0..(n - t) : \E e \in Int : y[l + t] - y[l] = t * (2 * e + 1)
          BY <2>1, <2>2, StridesOdd DEF n
        <5> QED
          BY <3>3, <5>1
      <4>2. y[i + t] - a = t * (2 * e + 1) + t * (2 * q + 1)
        BY <3>4, <3>6, <3>9, <4>1
      <4>3. t * (2 * e + 1) + t * (2 * q + 1) = (2 * t) * (e + q + 1)
        OBVIOUS
      <4>4. i + t \in 0..(2 * t - 1) /\ e + q + 1 \in Int
        OBVIOUS
      <4> QED
        BY <4>2, <4>3, <4>4
    <3> QED
      BY <3>7, <3>8, <3>9
  <2> QED
    BY <2>1, <2>3, <2>4
<1>5. k \in S
  <2> HIDE DEF S
  <2>1. 0..k \subseteq S
    BY <1>3, <1>4, BoundedInduction
  <2> QED
    BY <2>1
<1> QED
  BY <1>5
=============================================================================
