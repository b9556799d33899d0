--------------------------- MODULE RefinementProofs ---------------------------
(***************************************************************************)
(* The table implements the list of items of MultiDict: every step of      *)
(* HashTable is a step of the list, or leaves it alone.                    *)
(*                                                                         *)
(* The list of a table is that of its live entries, in the order of their  *)
(* positions.  A search finds the entries at the positions of a key in it, *)
(* and the writing operators append to it, replace a member or take out    *)
(* the members at some positions.  While a bulk call is under way the list *)
(* is the one it began with, and the entries stand for what it has taken:  *)
(* that is ListInvariant, which its last step turns into the result.       *)
(***************************************************************************)
EXTENDS HashTablePropertiesProofs

-----------------------------------------------------------------------------
(* Sets of numbers in order.                                               *)

\* A set that 1..c is mapped onto, no element twice, has c elements.
LEMMA Counted ==
  ASSUME NEW c \in Nat, NEW T, NEW g,
         \A k \in 1..c : g[k] \in T,
         \A i \in T : \E k \in 1..c : g[k] = i,
         \A j, k \in 1..c : j < k => g[j] # g[k]
  PROVE  IsFiniteSet(T) /\ Cardinality(T) = c
<1> DEFINE h == [k \in 1..c |-> g[k]]
<1>1. \A j, k \in 1..c : g[j] = g[k] => j = k
  <2> SUFFICES ASSUME NEW j \in 1..c, NEW k \in 1..c, g[j] = g[k], j # k PROVE FALSE
    OBVIOUS
  <2>1. j < k \/ k < j
    OBVIOUS
  <2> QED
    BY <2>1
<1>2. h \in Bijection(1..c, T)
  BY <1>1 DEF Bijection, Injection, Surjection, IsInjective
<1>3. ExistsBijection(1..c, T)
  BY <1>2 DEF ExistsBijection
<1>4. IsFiniteSet(1..c) /\ Cardinality(1..c) = c
  <2>1. IsFiniteSet(1..c) /\ Cardinality(1..c) = IF 1 > c THEN 0 ELSE c - 1 + 1
    BY FS_Interval
  <2> QED
    BY <2>1
<1> QED
  BY <1>3, <1>4, FS_Bijection

\* Nth and Rank are each other's inverse, and both grow.
LEMMA InOrder ==
  ASSUME NEW m \in Nat, NEW S \in SUBSET (0..m)
  PROVE  /\ IsFiniteSet(S) /\ S \in SUBSET Nat /\ Cardinality(S) \in Nat
         /\ \A n \in 1..Cardinality(S) : Nth(S, n) \in S /\ Rank(S, Nth(S, n)) = n
         /\ \A i \in S : Rank(S, i) \in 1..Cardinality(S) /\ Nth(S, Rank(S, i)) = i
         /\ \A j, k \in 1..Cardinality(S) : j < k => Nth(S, j) < Nth(S, k)
<1>1. IsFiniteSet(S) /\ S \in SUBSET Nat /\ Cardinality(S) \in Nat
  <2>1. IsFiniteSet(0..m)
    BY FS_Interval
  <2>2. IsFiniteSet(S)
    BY <2>1, FS_Subset
  <2> QED
    BY <2>2, FS_CardinalityType
<1>2. ASSUME NEW i \in S
      PROVE  Rank(S, i) = Cardinality({j \in S : j < i}) + 1
  <2> DEFINE low == {j \in S : j < i}
  <2>1. {j \in S : j <= i} = low \cup {i} /\ i \notin low
    <3>1. \A j \in S : j \in Nat
      BY <1>1
    <3>2. ~ (i < i) /\ \A j \in S : j <= i <=> j < i \/ j = i
      BY <3>1
    <3> QED
      BY <3>2
  <2>2. IsFiniteSet(low)
    BY <1>1, FS_Subset
  <2> HIDE DEF low
  <2>3. Cardinality(low \cup {i}) = Cardinality(low) + 1
    BY <2>1, <2>2, FS_AddElement
  <2> QED
    BY <2>1, <2>3 DEF Rank, low
<1>3. ASSUME NEW n \in 1..Cardinality(S)
      PROVE  Nth(S, n) \in S /\ Rank(S, Nth(S, n)) = n
  <2>1. PICK top \in Nat : top = m + 1
    OBVIOUS
  <2>2. PICK last \in Nat : last = n - 1
    BY <1>1
  <2>3. S \in SUBSET (0..(top - 1)) /\ last < Cardinality(S)
    BY <1>1, <2>1, <2>2
  <2>4. PICK i \in S : Cardinality({j \in S : j < i}) = last
    BY <2>3, NthElement
  <2>5. Rank(S, i) = n
    BY <1>2, <2>2, <2>4
  <2> QED
    BY <2>5 DEF Nth
<1>4. ASSUME NEW i \in S
      PROVE  Rank(S, i) \in 1..Cardinality(S) /\ Nth(S, Rank(S, i)) = i
  <2> DEFINE upTo == {j \in S : j <= i}
  <2>1. i \in upTo /\ upTo \subseteq S
    BY <1>1
  <2> HIDE DEF upTo
  <2>2. /\ IsFiniteSet(upTo) /\ Cardinality(upTo) \in Nat
        /\ Cardinality(upTo) <= Cardinality(S) /\ Cardinality(upTo) # 0
    BY <1>1, <2>1, FS_Subset, FS_CardinalityType, FS_EmptySet
  <2>3. Rank(S, i) = Cardinality(upTo)
    BY DEF Rank, upTo
  <2>4. Rank(S, i) \in 1..Cardinality(S)
    BY <1>1, <2>2, <2>3
  <2> QED
    BY <1>1, <2>4, NthOfRank
<1>5. ASSUME NEW j \in 1..Cardinality(S), NEW k \in 1..Cardinality(S), j < k
      PROVE  Nth(S, j) < Nth(S, k)
  <2> DEFINE a == Nth(S, j)
             b == Nth(S, k)
  <2>1. /\ a \in S /\ b \in S /\ a \in Nat /\ b \in Nat
        /\ Rank(S, a) = j /\ Rank(S, b) = k
    BY <1>1, <1>3
  <2> HIDE DEF a, b
  <2>2. ASSUME b <= a PROVE FALSE
    <3> DEFINE low == {i \in S : i <= b}
               high == {i \in S : i <= a}
    <3>1. \A i \in S : i \in Nat
      BY <1>1
    <3>2. low \subseteq high
      <4>1. \A i \in S : i <= b => i <= a
        BY <2>1, <2>2, <3>1
      <4> QED
        BY <4>1
    <3>3. IsFiniteSet(high)
      BY <1>1, FS_Subset
    <3> HIDE DEF low, high
    <3>4. Cardinality(low) <= Cardinality(high)
      BY <3>2, <3>3, FS_Subset
    <3>5. Cardinality(low) = k /\ Cardinality(high) = j
      BY <2>1 DEF Rank, low, high
    <3> QED
      BY <1>1, <1>5, <3>4, <3>5
  <2>3. a < b
    BY <2>1, <2>2
  <2> QED
    BY <2>3 DEF a, b
<1> QED
  BY <1>1, <1>3, <1>4, <1>5

\* A function numbers a set in order.
Numbers(g, c, S) ==
  /\ \A k \in 1..c : g[k] \in S
  /\ \A i \in S : \E k \in 1..c : g[k] = i
  /\ \A j, k \in 1..c : j < k => g[j] < g[k]

\* There is one numbering of a set, that of Nth.
LEMMA Enumerated ==
  ASSUME NEW m \in Nat, NEW S \in SUBSET (0..m), NEW c \in Nat, NEW g, Numbers(g, c, S)
  PROVE  Cardinality(S) = c /\ \A k \in 1..c : Nth(S, k) = g[k]
<1>0. /\ \A k \in 1..c : g[k] \in S
      /\ \A i \in S : \E k \in 1..c : g[k] = i
      /\ \A j, k \in 1..c : j < k => g[j] < g[k]
  BY DEF Numbers
<1>1. IsFiniteSet(S) /\ S \in SUBSET Nat
  BY InOrder
<1>2. \A k \in 1..c : g[k] \in Nat
  BY <1>0, <1>1
<1>3. \A j, k \in 1..c : j < k => g[j] # g[k]
  BY <1>0, <1>2
<1>4. Cardinality(S) = c
  BY <1>0, <1>3, Counted
<1>5. ASSUME NEW k \in 1..c PROVE Nth(S, k) = g[k]
  <2> DEFINE T == {i \in S : i <= g[k]}
  <2>1. k \in Nat /\ \A j \in 1..k : j \in 1..c
    OBVIOUS
  <2>2. ASSUME NEW j \in 1..k PROVE g[j] \in T
    <3>1. CASE j = k
      BY <1>0, <1>2, <2>1, <3>1
    <3>2. CASE j # k
      <4>1. j < k /\ j \in 1..c
        BY <2>1, <3>2
      <4>2. g[j] < g[k] /\ g[j] \in Nat /\ g[k] \in Nat /\ g[j] \in S
        BY <1>0, <1>2, <4>1
      <4> QED
        BY <4>2
    <3> QED
      BY <3>1, <3>2
  <2>3. ASSUME NEW i \in T PROVE \E j \in 1..k : g[j] = i
    <3>1. PICK j \in 1..c : g[j] = i
      BY <1>0
    <3>2. ~ (k < j)
      <4>1. k < j => g[k] < g[j]
        BY <1>0, <3>1
      <4>2. g[j] <= g[k] /\ g[j] \in Nat /\ g[k] \in Nat
        BY <1>2, <3>1
      <4> QED
        BY <4>1, <4>2
    <3> QED
      BY <3>1, <3>2
  <2>4. \A i, j \in 1..k : i < j => g[i] # g[j]
    BY <1>3, <2>1
  <2> HIDE DEF T
  <2>5. Cardinality(T) = k
    BY <2>1, <2>2, <2>3, <2>4, Counted
  <2>6. Rank(S, g[k]) = k
    BY <2>5 DEF Rank, T
  <2> QED
    BY <1>0, <1>1, <2>6, NthOfRank
<1> QED
  BY <1>4, <1>5

\* Where in the order of S the elements of T stand.
PlacesOf(S, T) == {k \in 1..Cardinality(S) : Nth(S, k) \in T}

\* To number a part of a set is to number the places of the part.
LEMMA PartInOrder ==
  ASSUME NEW m \in Nat, NEW S \in SUBSET (0..m), NEW T \in SUBSET S
  PROVE  /\ PlacesOf(S, T) \in SUBSET (0..Cardinality(S)) /\ Cardinality(S) \in Nat
         /\ Cardinality(T) \in Nat
         /\ Cardinality(PlacesOf(S, T)) = Cardinality(T)
         /\ \A k \in 1..Cardinality(T) :
              /\ Nth(PlacesOf(S, T), k) \in PlacesOf(S, T)
              /\ Nth(T, k) = Nth(S, Nth(PlacesOf(S, T), k))
<1> DEFINE P == PlacesOf(S, T)
           c == Cardinality(P)
           n == Cardinality(S)
           g == [k \in 1..c |-> Nth(S, Nth(P, k))]
<1>1. /\ S \in SUBSET Nat /\ n \in Nat
      /\ \A k \in 1..n : Nth(S, k) \in S
      /\ \A i \in S : Rank(S, i) \in 1..n /\ Nth(S, Rank(S, i)) = i
      /\ \A j, k \in 1..n : j < k => Nth(S, j) < Nth(S, k)
  BY InOrder
<1>2. P \in SUBSET (0..n) /\ \A k : k \in P <=> k \in 1..n /\ Nth(S, k) \in T
  BY <1>1 DEF PlacesOf
<1> HIDE DEF P, n
<1>3. /\ c \in Nat
      /\ \A k \in 1..c : Nth(P, k) \in P
      /\ \A i \in P : Rank(P, i) \in 1..c /\ Nth(P, Rank(P, i)) = i
      /\ \A j, k \in 1..c : j < k => Nth(P, j) < Nth(P, k)
  BY <1>1, <1>2, InOrder
<1> HIDE DEF c
<1>4. ASSUME NEW k \in 1..c PROVE g[k] \in T
  BY <1>2, <1>3
<1>5. ASSUME NEW i \in T PROVE \E k \in 1..c : g[k] = i
  <2> DEFINE p == Rank(S, i)
  <2>1. p \in P /\ Nth(S, p) = i
    BY <1>1, <1>2
  <2> HIDE DEF p
  <2>2. Rank(P, p) \in 1..c /\ Nth(P, Rank(P, p)) = p
    BY <1>3, <2>1
  <2>3. g[Rank(P, p)] = i
    BY <2>1, <2>2
  <2> QED
    BY <2>2, <2>3
<1>6. ASSUME NEW j \in 1..c, NEW k \in 1..c, j < k PROVE g[j] < g[k]
  <2>1. Nth(P, j) \in 1..n /\ Nth(P, k) \in 1..n /\ Nth(P, j) < Nth(P, k)
    BY <1>2, <1>3, <1>6
  <2>2. Nth(S, Nth(P, j)) < Nth(S, Nth(P, k))
    BY <1>1, <2>1
  <2> QED
    BY <2>2
<1> HIDE DEF g
<1>7. Cardinality(T) = c /\ \A k \in 1..c : Nth(T, k) = g[k]
  <2>1. T \in SUBSET (0..m)
    OBVIOUS
  <2>2. Numbers(g, c, T)
    BY <1>4, <1>5, <1>6 DEF Numbers
  <2> QED
    BY <1>3, <2>1, <2>2, Enumerated
<1>8. \A k \in 1..c : Nth(T, k) = Nth(S, Nth(P, k))
  BY <1>7 DEF g
<1> QED
  BY <1>1, <1>2, <1>3, <1>7, <1>8 DEF P, c, n

\* A number greater than all of a set is the last.
LEMMA OneMoreInOrder ==
  ASSUME NEW m \in Nat, NEW S \in SUBSET (0..m), NEW x \in Nat, \A i \in S : i < x
  PROVE  /\ Cardinality(S) \in Nat
         /\ Cardinality(S \cup {x}) = Cardinality(S) + 1
         /\ \A k \in 1..Cardinality(S) : Nth(S \cup {x}, k) = Nth(S, k)
         /\ Nth(S \cup {x}, Cardinality(S) + 1) = x
<1> DEFINE n == Cardinality(S)
           g == [k \in 1..(n + 1) |-> IF k = n + 1 THEN x ELSE Nth(S, k)]
<1>1. /\ S \in SUBSET Nat /\ n \in Nat
      /\ \A k \in 1..n : Nth(S, k) \in S
      /\ \A i \in S : Rank(S, i) \in 1..n /\ Nth(S, Rank(S, i)) = i
      /\ \A j, k \in 1..n : j < k => Nth(S, j) < Nth(S, k)
  BY InOrder
<1> HIDE DEF n
<1>2. \A k \in 1..(n + 1) : k = n + 1 \/ k \in 1..n
  BY <1>1
<1>3. /\ \A k \in 1..n : g[k] = Nth(S, k)
      /\ g[n + 1] = x
  BY <1>1
<1> HIDE DEF g
<1>4. PICK top \in Nat : S \cup {x} \in SUBSET (0..top)
  <2>1. CASE x <= m
    BY <2>1
  <2>2. CASE m < x
    BY <2>2
  <2> QED
    BY <2>1, <2>2
<1>5. \A k \in 1..(n + 1) : g[k] \in S \cup {x}
  BY <1>1, <1>2, <1>3
<1>6. ASSUME NEW i \in S \cup {x} PROVE \E k \in 1..(n + 1) : g[k] = i
  <2>1. CASE i = x
    BY <1>1, <1>3, <2>1
  <2>2. CASE i \in S
    <3>1. Rank(S, i) \in 1..n /\ g[Rank(S, i)] = i
      BY <1>1, <1>3, <2>2
    <3>2. Rank(S, i) \in 1..(n + 1)
      BY <1>1, <3>1
    <3> QED
      BY <3>1, <3>2
  <2> QED
    BY <2>1, <2>2
<1>7. ASSUME NEW j \in 1..(n + 1), NEW k \in 1..(n + 1), j < k PROVE g[j] < g[k]
  <2>1. j \in 1..n
    BY <1>1, <1>7
  <2>2. CASE k = n + 1
    BY <1>1, <1>3, <2>1, <2>2
  <2>3. CASE k \in 1..n
    BY <1>1, <1>3, <1>7, <2>1, <2>3
  <2> QED
    BY <1>2, <2>2, <2>3
<1>8. PICK size \in Nat : size = n + 1
  BY <1>1
<1>9. Cardinality(S \cup {x}) = size /\ \A k \in 1..size : Nth(S \cup {x}, k) = g[k]
  <2>1. Numbers(g, size, S \cup {x})
    BY <1>5, <1>6, <1>7, <1>8 DEF Numbers
  <2> QED
    BY <1>4, <2>1, Enumerated
<1>10. n + 1 \in 1..size /\ \A k \in 1..n : k \in 1..size
  BY <1>1, <1>8
<1> QED
  BY <1>1, <1>3, <1>8, <1>9, <1>10 DEF n

\* Numbers from zero on are in order.
LEMMA IntervalInOrder ==
  ASSUME NEW n \in Nat
  PROVE  /\ Cardinality(0..(n - 1)) = n
         /\ \A k \in 1..n : Nth(0..(n - 1), k) = k - 1
<1> DEFINE g == [k \in 1..n |-> k - 1]
<1>1. 0..(n - 1) \in SUBSET (0..n)
  OBVIOUS
<1>2. \A k \in 1..n : g[k] \in 0..(n - 1)
  OBVIOUS
<1>3. ASSUME NEW i \in 0..(n - 1) PROVE \E k \in 1..n : g[k] = i
  <2>1. i + 1 \in 1..n /\ g[i + 1] = i
    OBVIOUS
  <2> QED
    BY <2>1
<1>4. \A j, k \in 1..n : j < k => g[j] < g[k]
  OBVIOUS
<1>5. \A k \in 1..n : g[k] = k - 1
  OBVIOUS
<1> HIDE DEF g
<1>6. PICK U : U = 0..(n - 1)
  OBVIOUS
<1>7. Cardinality(U) = n /\ \A k \in 1..n : Nth(U, k) = g[k]
  <2>1. Numbers(g, n, U)
    BY <1>2, <1>3, <1>4, <1>6 DEF Numbers
  <2>2. U \in SUBSET (0..n)
    BY <1>1, <1>6
  <2> QED
    BY <2>1, <2>2, Enumerated, Zenon
<1> QED
  BY <1>5, <1>6, <1>7

\* Two sets of numbers, one after the other.
Joined(A, a, B) == A \cup {a + p : p \in B}

\* They are numbered one after the other.
AreInOrder(U, A, a, B) ==
  /\ Cardinality(A) \in Nat /\ Cardinality(B) \in Nat
  /\ Cardinality(U) = Cardinality(A) + Cardinality(B)
  /\ \A k \in 1..Cardinality(A) : Nth(A, k) \in A /\ Nth(U, k) = Nth(A, k)
  /\ \A k \in 1..Cardinality(B) :
       Nth(B, k) \in B /\ Nth(U, Cardinality(A) + k) = a + Nth(B, k)

LEMMA JoinedInOrder ==
  ASSUME NEW a \in Nat, NEW b \in Nat, NEW A \in SUBSET (1..a), NEW B \in SUBSET (1..b)
  PROVE  AreInOrder(Joined(A, a, B), A, a, B)
<1> DEFINE U == Joined(A, a, B)
           x == Cardinality(A)
           y == Cardinality(B)
           g == [k \in 1..(x + y) |-> IF k <= x THEN Nth(A, k) ELSE a + Nth(B, k - x)]
<1>1. A \in SUBSET (0..a) /\ B \in SUBSET (0..b)
  OBVIOUS
<1>2. /\ x \in Nat
      /\ \A k \in 1..x : Nth(A, k) \in A
      /\ \A i \in A : Rank(A, i) \in 1..x /\ Nth(A, Rank(A, i)) = i
      /\ \A j, k \in 1..x : j < k => Nth(A, j) < Nth(A, k)
  BY <1>1, InOrder
<1>3. /\ y \in Nat
      /\ \A k \in 1..y : Nth(B, k) \in B
      /\ \A i \in B : Rank(B, i) \in 1..y /\ Nth(B, Rank(B, i)) = i
      /\ \A j, k \in 1..y : j < k => Nth(B, j) < Nth(B, k)
  BY <1>1, InOrder
<1> HIDE DEF x, y
<1>4. /\ \A k \in 1..x : k \in 1..(x + y) /\ g[k] = Nth(A, k)
      /\ \A k \in 1..y : x + k \in 1..(x + y) /\ g[x + k] = a + Nth(B, k)
  <2>1. ASSUME NEW k \in 1..y PROVE x + k \in 1..(x + y) /\ g[x + k] = a + Nth(B, k)
    <3>1. x + k \in 1..(x + y) /\ ~ (x + k <= x) /\ (x + k) - x = k
      BY <1>2, <1>3
    <3> QED
      BY <3>1
  <2> QED
    BY <1>2, <1>3, <2>1
<1>5. \A k \in 1..(x + y) : k \in 1..x \/ \E l \in 1..y : k = x + l
  <2> SUFFICES ASSUME NEW k \in 1..(x + y), ~ (k \in 1..x)
               PROVE  \E l \in 1..y : k = x + l
    OBVIOUS
  <2>1. k - x \in 1..y /\ k = x + (k - x)
    BY <1>2, <1>3
  <2> QED
    BY <2>1
<1> HIDE DEF g
<1>6. /\ \A p \in A : p \in U /\ p \in 1..a
      /\ \A p \in B : a + p \in U /\ p \in 1..b
      /\ \A u \in U : u \in A \/ \E p \in B : u = a + p
  <2>1. \A p \in A : p \in U
    BY DEF Joined
  <2>2. \A p \in B : a + p \in U
    BY DEF Joined
  <2>3. \A u \in U : u \in A \/ \E p \in B : u = a + p
    BY DEF Joined
  <2> QED
    BY <2>1, <2>2, <2>3
<1> HIDE DEF U
<1>7. U \in SUBSET (0..(a + b))
  <2> SUFFICES ASSUME NEW u \in U PROVE u \in 0..(a + b)
    OBVIOUS
  <2>1. CASE u \in A
    BY <1>6, <2>1
  <2>2. ASSUME NEW p \in B, u = a + p PROVE u \in 0..(a + b)
    BY <1>6, <2>2
  <2> QED
    BY <1>6, <2>1, <2>2
<1>8. ASSUME NEW k \in 1..(x + y) PROVE g[k] \in U
  <2>1. CASE k \in 1..x
    BY <1>2, <1>4, <1>6, <2>1
  <2>2. ASSUME NEW l \in 1..y, k = x + l PROVE g[k] \in U
    <3>1. g[k] = a + Nth(B, l) /\ Nth(B, l) \in B
      BY <1>3, <1>4, <2>2
    <3> QED
      BY <1>6, <3>1
  <2> QED
    BY <1>5, <2>1, <2>2
<1>9. ASSUME NEW u \in U PROVE \E k \in 1..(x + y) : g[k] = u
  <2>1. CASE u \in A
    BY <1>2, <1>4, <2>1
  <2>2. ASSUME NEW p \in B, u = a + p PROVE \E k \in 1..(x + y) : g[k] = u
    <3>1. Rank(B, p) \in 1..y /\ Nth(B, Rank(B, p)) = p
      BY <1>3
    <3>2. x + Rank(B, p) \in 1..(x + y) /\ g[x + Rank(B, p)] = u
      BY <1>4, <2>2, <3>1
    <3> QED
      BY <3>2
  <2> QED
    BY <1>6, <2>1, <2>2
<1>10. ASSUME NEW j \in 1..(x + y), NEW k \in 1..(x + y), j < k PROVE g[j] < g[k]
  <2>1. CASE k \in 1..x
    <3>1. j \in 1..x
      BY <1>2, <1>10, <2>1
    <3> QED
      BY <1>2, <1>4, <1>10, <2>1, <3>1
  <2>2. ASSUME NEW l \in 1..y, k = x + l PROVE g[j] < g[k]
    <3>1. Nth(B, l) \in 1..b /\ g[k] = a + Nth(B, l)
      BY <1>3, <1>4, <1>6, <2>2
    <3>2. CASE j \in 1..x
      <4>1. g[j] \in 1..a
        BY <1>2, <1>4, <1>6, <3>2
      <4> QED
        BY <3>1, <4>1
    <3>3. ASSUME NEW i \in 1..y, j = x + i PROVE g[j] < g[k]
      <4>1. Nth(B, i) \in 1..b /\ g[j] = a + Nth(B, i)
        BY <1>3, <1>4, <1>6, <3>3
      <4>2. i < l
        BY <1>2, <1>10, <2>2, <3>3
      <4>3. Nth(B, i) < Nth(B, l)
        BY <1>3, <4>2
      <4> QED
        BY <3>1, <4>1, <4>3
    <3> QED
      BY <1>5, <3>2, <3>3
  <2> QED
    BY <1>5, <2>1, <2>2
<1>11. PICK c \in Nat : c = x + y
  BY <1>2, <1>3
<1>12. PICK top \in Nat : top = a + b
  OBVIOUS
<1>13. Cardinality(U) = c /\ \A k \in 1..c : Nth(U, k) = g[k]
  <2>1. Numbers(g, c, U)
    BY <1>8, <1>9, <1>10, <1>11 DEF Numbers
  <2>2. U \in SUBSET (0..top)
    BY <1>7, <1>12
  <2> QED
    BY <2>1, <2>2, Enumerated, Zenon
<1> QED
  BY <1>2, <1>3, <1>4, <1>11, <1>13 DEF x, y, U, AreInOrder

-----------------------------------------------------------------------------
(* The list of items.                                                      *)

\* The members of a list at the positions of a set.
Part(list, P) == [n \in 1..Cardinality(P) |-> list[Nth(P, n)]]

\* MultiDict counts as this module does.
LEMMA SameCount ==
  ASSUME NEW S
  PROVE  MultiDictSpec!Cardinality(S) = Cardinality(S) /\ MultiDictSpec!Min(S) = Min(S)
<1>1. MultiDictSpec!Cardinality(S) = Cardinality(S)
  BY DEF MultiDictSpec!Cardinality, Cardinality
<1>2. MultiDictSpec!Min(S) = Min(S)
  BY DEF MultiDictSpec!Min, Min
<1> QED
  BY <1>1, <1>2

\* And takes the same part of a list.
LEMMA SamePart ==
  ASSUME NEW m \in Nat, NEW P \in SUBSET (0..m), NEW list
  PROVE  MultiDictSpec!AtPositions(list, P) = Part(list, P)
<1> DEFINE pick(n) == CHOOSE p \in P : MultiDictSpec!Cardinality({q \in P : q <= p}) = n
<1>1. ASSUME NEW n \in 1..Cardinality(P) PROVE pick(n) = Nth(P, n)
  <2>1. \A p \in P : MultiDictSpec!Cardinality({q \in P : q <= p}) = Rank(P, p)
    BY SameCount DEF Rank
  <2>2. /\ Nth(P, n) \in P /\ Rank(P, Nth(P, n)) = n
        /\ \A p \in P : Nth(P, Rank(P, p)) = p
    BY InOrder
  <2>3. /\ pick(n) \in P
        /\ MultiDictSpec!Cardinality({q \in P : q <= pick(n)}) = n
    <3>1. MultiDictSpec!Cardinality({q \in P : q <= Nth(P, n)}) = n
      BY <2>1, <2>2
    <3>2. \E p \in P : MultiDictSpec!Cardinality({q \in P : q <= p}) = n
      BY <2>2, <3>1, Zenon
    <3> QED
      BY <3>2, Zenon
  <2> HIDE DEF pick
  <2>4. Rank(P, pick(n)) = n
    BY <2>1, <2>3
  <2> QED
    BY <2>2, <2>3, <2>4
<1>2. MultiDictSpec!Cardinality(P) = Cardinality(P)
  BY SameCount
<1>3. MultiDictSpec!AtPositions(list, P)
        = [n \in 1..MultiDictSpec!Cardinality(P) |-> list[pick(n)]]
  BY Zenon DEF MultiDictSpec!AtPositions
<1> HIDE DEF pick
<1> QED
  BY <1>1, <1>2, <1>3 DEF Part

\* The rest of a list is a part of it.
LEMMA SameRest ==
  ASSUME NEW n \in Nat, NEW list, DOMAIN list = 1..n, NEW P
  PROVE  MultiDictSpec!Without(list, P) = Part(list, (1..n) \ P)
<1>1. (1..n) \ P \in SUBSET (0..n)
  OBVIOUS
<1>2. MultiDictSpec!Without(list, P) = MultiDictSpec!AtPositions(list, (1..n) \ P)
  BY DEF MultiDictSpec!Without
<1> QED
  BY <1>1, <1>2, SamePart

-----------------------------------------------------------------------------
(* The entries of a table as a list.                                       *)

\* The live entries, in order, and the item of one.
EntryList(ks) == [n \in 1..Cardinality(Live(ks)) |-> ks.entries[Nth(Live(ks), n)]]
ItemOf(e) == [key |-> e.key, value |-> e.value]

\* Counting those before an element, or those up to it, is the same order.
LEMMA CountedBefore ==
  ASSUME NEW m \in Nat, NEW S \in SUBSET (0..m), NEW n \in 1..Cardinality(S)
  PROVE  (CHOOSE i \in S : Cardinality({j \in S : j < i}) = n - 1) = Nth(S, n)
<1> DEFINE i == CHOOSE i \in S : Cardinality({j \in S : j < i}) = n - 1
<1>1. /\ S \in SUBSET Nat /\ Cardinality(S) \in Nat /\ IsFiniteSet(S)
      /\ \A k \in S : Nth(S, Rank(S, k)) = k
  BY InOrder
<1>2. i \in S /\ Cardinality({j \in S : j < i}) = n - 1
  <2>1. PICK last \in Nat : last = n - 1
    BY <1>1
  <2>2. PICK top \in Nat : top = m + 1
    OBVIOUS
  <2>3. S \in SUBSET (0..(top - 1)) /\ last < Cardinality(S)
    BY <1>1, <2>1, <2>2
  <2>4. \E k \in S : Cardinality({l \in S : l < k}) = last
    BY <2>3, NthElement
  <2>5. i = CHOOSE k \in S : Cardinality({l \in S : l < k}) = last
    BY <2>1, Zenon
  <2> HIDE DEF i
  <2>6. i \in S /\ Cardinality({l \in S : l < i}) = last
    BY <2>4, <2>5, Zenon
  <2> QED
    BY <2>1, <2>6
<1> HIDE DEF i
<1> DEFINE low == {j \in S : j < i}
<1>3. {j \in S : j <= i} = low \cup {i} /\ i \notin low
  <2>1. i \in Nat /\ \A j \in S : j \in Nat
    BY <1>1, <1>2
  <2>2. ~ (i < i) /\ \A j \in S : j <= i <=> j < i \/ j = i
    BY <2>1
  <2> QED
    BY <1>2, <2>2
<1>4. IsFiniteSet(low) /\ Cardinality(low) = n - 1
  BY <1>1, <1>2, FS_Subset
<1> HIDE DEF low
<1>5. Cardinality(low \cup {i}) = Cardinality(low) + 1
  BY <1>3, <1>4, FS_AddElement
<1>6. Rank(S, i) = n
  BY <1>3, <1>4, <1>5 DEF Rank
<1>7. i = Nth(S, n)
  BY <1>1, <1>2, <1>6
<1> QED
  BY <1>7 DEF i

\* The n-th live entry, counted from zero or from one.
LEMMA LiveInOrder ==
  ASSUME NEW ks, IsSound(ks)
  PROVE  /\ ks.nentries \in Nat /\ Live(ks) \in SUBSET (0..ks.nentries)
         /\ Cardinality(Live(ks)) \in Nat
         /\ \A n \in 1..Cardinality(Live(ks)) :
              NthLive(ks, n - 1) = Nth(Live(ks), n) /\ Nth(Live(ks), n) \in Live(ks)
<1>1. ks.nentries \in Nat /\ Live(ks) \in SUBSET (0..ks.nentries)
  BY LiveFinite, SizeTypes DEF IsSound
<1>2. PICK S : S = Live(ks)
  OBVIOUS
<1>3. Cardinality(S) \in Nat /\ \A n \in 1..Cardinality(S) : Nth(S, n) \in S
  BY <1>1, <1>2, InOrder
<1>4. ASSUME NEW n \in 1..Cardinality(S)
      PROVE  NthLive(ks, n - 1) = Nth(S, n)
  <2>1. (CHOOSE i \in S : Cardinality({j \in S : j < i}) = n - 1) = Nth(S, n)
    BY <1>1, <1>2, CountedBefore
  <2> QED
    BY <1>2, <2>1, Zenon DEF NthLive
<1> QED
  BY <1>1, <1>2, <1>3, <1>4

\* The items are those of the entries.
LEMMA ItemsOfEntries ==
  ASSUME NEW ks, IsSound(ks)
  PROVE  /\ Cardinality(Live(ks)) \in Nat
         /\ EntryList(ks) = [n \in 1..Cardinality(Live(ks)) |-> EntryList(ks)[n]]
         /\ ItemsOf(ks) = [n \in 1..Cardinality(Live(ks)) |-> ItemOf(EntryList(ks)[n])]
         /\ \A n \in 1..Cardinality(Live(ks)) :
              /\ EntryList(ks)[n] = ks.entries[Nth(Live(ks), n)]
              /\ EntryList(ks)[n] \in Entry /\ EntryList(ks)[n].identity \in Identities
              /\ Nth(Live(ks), n) \in Live(ks)
<1>1. /\ Cardinality(Live(ks)) \in Nat
      /\ \A n \in 1..Cardinality(Live(ks)) :
           NthLive(ks, n - 1) = Nth(Live(ks), n) /\ Nth(Live(ks), n) \in Live(ks)
  BY LiveInOrder
<1>2. /\ EntryList(ks) = [n \in 1..Cardinality(Live(ks)) |-> EntryList(ks)[n]]
      /\ \A n \in 1..Cardinality(Live(ks)) :
           EntryList(ks)[n] = ks.entries[Nth(Live(ks), n)]
  BY DEF EntryList
<1>3. \A n \in 1..Cardinality(Live(ks)) :
        EntryList(ks)[n] \in Entry /\ EntryList(ks)[n].identity \in Identities
  BY <1>1, <1>2, LiveEntry
<1>4. \A n \in 1..Cardinality(Live(ks)) :
        ItemAt(ks, NthLive(ks, n - 1)) = ItemOf(EntryList(ks)[n])
  BY <1>1, <1>2 DEF ItemAt, ItemOf
<1>5. ItemsOf(ks) = [n \in 1..Cardinality(Live(ks)) |-> ItemOf(EntryList(ks)[n])]
  BY <1>4, Zenon DEF ItemsOf
<1> QED
  BY <1>1, <1>2, <1>3, <1>5

\* A rebuild keeps the list.
LEMMA CompactedList ==
  ASSUME NEW ks, IsSound(ks), NEW new, Compacted(new, ks)
  PROVE  EntryList(new) = EntryList(ks)
<1>1. PICK n \in Nat : n = Cardinality(Live(ks))
  BY LiveInOrder
<1>2. Live(new) = 0..(n - 1) /\ \A i \in Live(new) : new.entries[i] = ks.entries[NthLive(ks, i)]
  BY <1>1 DEF Compacted
<1>3. /\ Cardinality(Live(new)) = n
      /\ \A k \in 1..n : Nth(Live(new), k) = k - 1
  BY <1>2, IntervalInOrder
<1>4. ASSUME NEW k \in 1..n
      PROVE  new.entries[Nth(Live(new), k)] = ks.entries[Nth(Live(ks), k)]
  <2>1. NthLive(ks, k - 1) = Nth(Live(ks), k)
    BY <1>1, LiveInOrder
  <2>2. k - 1 \in Live(new)
    BY <1>2
  <2> QED
    BY <1>2, <1>3, <2>1, <2>2
<1> QED
  BY <1>1, <1>3, <1>4 DEF EntryList

\* A new entry is the last.
LEMMA StoredList ==
  ASSUME NEW ks, IsSound(ks), NEW entry, NEW new, Stored(new, ks, entry)
  PROVE  EntryList(new) = Append(EntryList(ks), entry)
<1>1. PICK n \in Nat : n = Cardinality(Live(ks))
  BY LiveInOrder
<1>2. PICK top \in Nat : top = ks.nentries
  BY LiveInOrder
<1>3. PICK S \in SUBSET (0..top) : S = Live(ks)
  BY <1>2, LiveInOrder
<1>4. /\ \A i \in S : i < top /\ new.entries[i] = ks.entries[i]
      /\ Live(new) = S \cup {top} /\ new.entries[top] = entry
  BY <1>2, <1>3 DEF Stored
<1>5. /\ Cardinality(S \cup {top}) = n + 1
      /\ \A k \in 1..n : Nth(S \cup {top}, k) = Nth(S, k)
      /\ Nth(S \cup {top}, n + 1) = top
  <2>1. /\ Cardinality(S \cup {top}) = Cardinality(S) + 1
        /\ \A k \in 1..Cardinality(S) : Nth(S \cup {top}, k) = Nth(S, k)
        /\ Nth(S \cup {top}, Cardinality(S) + 1) = top
    BY <1>4, OneMoreInOrder
  <2> QED
    BY <1>1, <1>3, <2>1
<1>6. /\ EntryList(ks) = [k \in 1..n |-> EntryList(ks)[k]]
      /\ \A k \in 1..n : EntryList(ks)[k] = ks.entries[Nth(S, k)] /\ Nth(S, k) \in S
  BY <1>1, <1>3, ItemsOfEntries
<1>7. /\ EntryList(new) = [k \in 1..(n + 1) |-> new.entries[Nth(S \cup {top}, k)]]
  BY <1>4, <1>5 DEF EntryList
<1>8. ASSUME NEW k \in 1..(n + 1)
      PROVE  new.entries[Nth(S \cup {top}, k)]
               = IF k = n + 1 THEN entry ELSE EntryList(ks)[k]
  <2>1. CASE k = n + 1
    BY <1>4, <1>5, <2>1
  <2>2. CASE k # n + 1
    <3>1. k \in 1..n
      BY <2>2
    <3>2. Nth(S \cup {top}, k) = Nth(S, k) /\ Nth(S, k) \in S
      BY <1>5, <1>6, <3>1
    <3> QED
      BY <1>4, <1>6, <2>2, <3>1, <3>2
  <2> QED
    BY <2>1, <2>2
<1> DEFINE list == EntryList(ks)
<1>9. EntryList(new) = [k \in 1..(n + 1) |-> IF k = n + 1 THEN entry ELSE list[k]]
  BY <1>7, <1>8
<1>10. list = [k \in 1..n |-> list[k]]
  BY <1>6
<1> HIDE DEF list
<1>11. list \in Seq({list[k] : k \in 1..n}) /\ Len(list) = n
  BY <1>10
<1>12. Append(list, entry) = [k \in 1..(n + 1) |-> IF k = n + 1 THEN entry ELSE list[k]]
  BY <1>10, <1>11
<1> QED
  BY <1>9, <1>12 DEF list

\* An addition is one at the end of the list.
LEMMA AddedList ==
  ASSUME NEW ks, IsSound(ks), NEW entry, NEW new, Added(new, ks, entry)
  PROVE  EntryList(new) = Append(EntryList(ks), entry)
<1>1. PICK room : /\ room = ks \/ Compacted(room, ks)
                  /\ IsSound(room) /\ Stored(new, room, entry)
  BY DEF Added
<1>2. EntryList(room) = EntryList(ks)
  BY <1>1, CompactedList
<1> QED
  BY <1>1, <1>2, StoredList

-----------------------------------------------------------------------------
(* A table that keeps a part of its entries.                               *)

\* list holds the items new has where ks had entries.
Lists(list, new, ks) ==
  \A k \in 1..Cardinality(Live(ks)) :
    Nth(Live(ks), k) \in Live(new) => ItemOf(new.entries[Nth(Live(ks), k)]) = list[k]

\* The items that stay are a part of the list.
LEMMA PartOfItems ==
  ASSUME NEW ks, IsSound(ks), NEW new, IsSound(new), Live(new) \subseteq Live(ks),
         NEW list, Lists(list, new, ks)
  PROVE  ItemsOf(new) = Part(list, PlacesOf(Live(ks), Live(new)))
<1>1. PICK m \in Nat : Live(ks) \in SUBSET (0..m)
  BY LiveInOrder
<1>2. PICK S \in SUBSET (0..m) : S = Live(ks)
  BY <1>1
<1>3. PICK T \in SUBSET S : T = Live(new)
  BY <1>2
<1>4. PICK P : P = PlacesOf(S, T)
  OBVIOUS
<1>5. /\ Cardinality(P) = Cardinality(T)
      /\ \A k \in 1..Cardinality(T) : Nth(P, k) \in P /\ Nth(T, k) = Nth(S, Nth(P, k))
  BY <1>4, PartInOrder
<1>6. ItemsOf(new) = [k \in 1..Cardinality(T) |-> ItemOf(new.entries[Nth(T, k)])]
  BY <1>3, ItemsOfEntries
<1>7. ASSUME NEW k \in 1..Cardinality(T)
      PROVE  ItemOf(new.entries[Nth(T, k)]) = list[Nth(P, k)]
  <2>1. Nth(P, k) \in 1..Cardinality(S) /\ Nth(S, Nth(P, k)) \in T
    BY <1>4, <1>5 DEF PlacesOf
  <2>2. ItemOf(new.entries[Nth(S, Nth(P, k))]) = list[Nth(P, k)]
    BY <1>2, <1>3, <2>1 DEF Lists
  <2> QED
    BY <1>5, <2>2
<1>8. ItemsOf(new) = Part(list, P)
  BY <1>5, <1>6, <1>7 DEF Part
<1> QED
  BY <1>2, <1>3, <1>4, <1>8

\* What stays when some places go.
LEMMA PlacesLeft ==
  ASSUME NEW ks, IsSound(ks), NEW gone
  PROVE  PlacesOf(Live(ks), Live(ks) \ gone)
           = (1..Cardinality(Live(ks))) \ PlacesOf(Live(ks), gone)
<1>1. \A k \in 1..Cardinality(Live(ks)) : Nth(Live(ks), k) \in Live(ks)
  BY LiveInOrder
<1> QED
  BY <1>1 DEF PlacesOf

\* Deleted entries leave the list, and nothing else happens to it.
LEMMA DeletedItems ==
  ASSUME NEW ks, IsSound(ks), NEW new, IsSound(new), NEW gone,
         Live(new) = Live(ks) \ gone, \A i \in Live(new) : new.entries[i] = ks.entries[i]
  PROVE  ItemsOf(new) = MultiDictSpec!Without(ItemsOf(ks), PlacesOf(Live(ks), gone))
<1>1. PICK n \in Nat : n = Cardinality(Live(ks))
  BY LiveInOrder
<1>2. PICK list : list = ItemsOf(ks)
  OBVIOUS
<1>3. DOMAIN list = 1..n /\ \A k \in 1..n : list[k] = ItemOf(ks.entries[Nth(Live(ks), k)])
  BY <1>1, <1>2, ItemsOfEntries
<1>4. Lists(list, new, ks)
  BY <1>1, <1>3 DEF Lists
<1>5. ItemsOf(new) = Part(list, PlacesOf(Live(ks), Live(new)))
  BY <1>4, PartOfItems
<1>6. PlacesOf(Live(ks), Live(new)) = (1..n) \ PlacesOf(Live(ks), gone)
  BY <1>1, PlacesLeft
<1>7. MultiDictSpec!Without(list, PlacesOf(Live(ks), gone))
        = Part(list, (1..n) \ PlacesOf(Live(ks), gone))
  BY <1>3, SameRest
<1> QED
  BY <1>2, <1>5, <1>6, <1>7

-----------------------------------------------------------------------------
(* Searching.                                                              *)

\* The entries of an identity that a search sees.
Visible(ks, id) == {i \in OwnEntries(ks, id) : ks.entries[i].hash # MARK}

\* A search finds them, the first of them first.
LEMMA SearchFinds ==
  ASSUME NEW ks, IsSound(ks), IsOrdered(ks), NEW id \in Identities
  PROVE  /\ IndexedBy(ks, MatchingSlots(ks, HashOf[id], id)) = Visible(ks, id)
         /\ Matches(ks, HashOf[id], id) # {} <=> Visible(ks, id) # {}
         /\ Visible(ks, id) # {} =>
              /\ ks.indices[FirstMatch(ks, HashOf[id], id)] \in Visible(ks, id)
              /\ \A j \in Visible(ks, id) :
                   ks.indices[FirstMatch(ks, HashOf[id], id)] <= j
<1> DEFINE hash == HashOf[id]
           own == OwnEntries(ks, id)
           found == Matches(ks, hash, id)
           first == ks.indices[FirstMatch(ks, hash, id)]
<1>1. IsHtKeys(ks)
  BY DEF IsSound
<1>2. ks \in Finding(ks, id)
  <2>1. ks.entries \in [EntryIndices(ks.log2_size) -> Entry]
    BY <1>1 DEF IsHtKeys
  <2>2. ks = Rewritten(ks, ks.entries)
    BY <1>1 DEF Rewritten, IsHtKeys
  <2> QED
    BY <2>1, <2>2 DEF Finding
<1>3. FoundInOrder(ks, hash, own, found)
  BY <1>2, FirstIsLeast
<1>4. own \in SUBSET Nat /\ \A i \in own : ks.entries[i].hash \in {MARK, hash}
  BY <1>2, OwnMatches
<1>5. hash # MARK
  BY ConstantsAssumption DEF MARK
<1>6. first = IndexAt(ks, hash, Min(found))
  BY DEF FirstMatch, IndexAt
<1>7. \A i : i \in IndexedBy(ks, MatchingSlots(ks, hash, id))
               <=> \E n \in found : IndexAt(ks, hash, n) = i
  BY DEF IndexedBy, MatchingSlots, IndexAt
<1>8. \A i : i \in Visible(ks, id) <=> i \in own /\ ks.entries[i].hash = hash
  BY <1>4, <1>5 DEF Visible
<1> HIDE DEF hash, own, found, first
<1>9. \A i : i \in IndexedBy(ks, MatchingSlots(ks, hash, id)) <=> i \in Visible(ks, id)
  BY <1>3, <1>7, <1>8 DEF FoundInOrder
<1>10. found # {} <=> Visible(ks, id) # {}
  BY <1>3, <1>8 DEF FoundInOrder
<1>11. ASSUME Visible(ks, id) # {}
       PROVE  first \in Visible(ks, id) /\ \A j \in Visible(ks, id) : first <= j
  <2>1. first \in Visible(ks, id)
    BY <1>3, <1>6, <1>8, <1>10, <1>11 DEF FoundInOrder
  <2>2. \A j \in Visible(ks, id) : ~ (j < first)
    BY <1>3, <1>5, <1>6, <1>8, <1>10, <1>11 DEF FoundInOrder
  <2>3. \A j \in Visible(ks, id) : j \in Nat
    BY <1>4, <1>8
  <2> QED
    BY <2>1, <2>2, <2>3
<1> QED
  BY <1>9, <1>10, <1>11 DEF hash, found, first

\* Between calls, a key table is one whose items the list can stand for.
IsReady(ks) == IsSound(ks) /\ IsSettled(ks) /\ IsOrdered(ks) /\ Identified(ks)

\* The places of the entries a search sees, in the list of entries.
VisiblePlaces(list, id) == {n \in DOMAIN list : list[n].identity = id /\ list[n].hash # MARK}

\* Where a search for an identity stops: at these places, the first of them first.
LEMMA SearchPlaces ==
  ASSUME NEW ks, IsSound(ks), IsOrdered(ks), NEW id \in Identities,
         NEW found, found = IndexedBy(ks, MatchingSlots(ks, HashOf[id], id)),
         NEW first, first = ks.indices[FirstMatch(ks, HashOf[id], id)],
         NEW places, places = VisiblePlaces(EntryList(ks), id)
  PROVE  /\ PlacesOf(Live(ks), found) = places
         /\ places \in SUBSET (1..Cardinality(Live(ks)))
         /\ Matches(ks, HashOf[id], id) # {} <=> places # {}
         /\ places # {} =>
              /\ Min(places) \in places /\ \A n \in places : Min(places) <= n
              /\ Nth(Live(ks), Min(places)) = first
              /\ PlacesOf(Live(ks), {first}) = {Min(places)}
              /\ first \in found
<1>1. PICK n \in Nat : n = Cardinality(Live(ks))
  BY LiveInOrder
<1>2. PICK m \in Nat : Live(ks) \in SUBSET (0..m)
  BY LiveInOrder
<1>3. PICK S \in SUBSET (0..m) : S = Live(ks)
  BY <1>2
<1>4. /\ S \in SUBSET Nat
      /\ \A k \in 1..n : Nth(S, k) \in S
      /\ \A i \in S : Rank(S, i) \in 1..n /\ Nth(S, Rank(S, i)) = i
      /\ \A j, k \in 1..n : j < k => Nth(S, j) < Nth(S, k)
  BY <1>1, <1>3, InOrder
<1>5. PICK list : list = EntryList(ks)
  OBVIOUS
<1>6. DOMAIN list = 1..n /\ \A k \in 1..n : list[k] = ks.entries[Nth(S, k)]
  <2>1. EntryList(ks) = [k \in 1..n |-> EntryList(ks)[k]]
    BY <1>1, ItemsOfEntries
  <2>2. \A k \in 1..n : EntryList(ks)[k] = ks.entries[Nth(S, k)]
    BY <1>1, <1>3, ItemsOfEntries
  <2> QED
    BY <1>5, <2>1, <2>2
<1>7. found = Visible(ks, id)
  BY SearchFinds
<1>8. \A i : i \in Visible(ks, id)
               <=> i \in S /\ ks.entries[i].identity = id /\ ks.entries[i].hash # MARK
  BY <1>3 DEF Visible, OwnEntries
<1>9. \A k : k \in places <=> k \in 1..n /\ Nth(S, k) \in Visible(ks, id)
  BY <1>4, <1>5, <1>6, <1>8 DEF VisiblePlaces
<1>10. PlacesOf(S, found) = places /\ places \in SUBSET (1..n)
  BY <1>1, <1>3, <1>7, <1>9 DEF PlacesOf
<1>11. places # {} <=> Visible(ks, id) # {}
  <2>1. ASSUME NEW k \in places PROVE Visible(ks, id) # {}
    BY <1>9
  <2>2. ASSUME NEW i \in Visible(ks, id) PROVE places # {}
    <3>1. Rank(S, i) \in 1..n /\ Nth(S, Rank(S, i)) = i
      BY <1>4, <1>8
    <3>2. Rank(S, i) \in places
      BY <1>9, <3>1
    <3> QED
      BY <3>2
  <2> QED
    BY <2>1, <2>2
<1>12. Matches(ks, HashOf[id], id) # {} <=> places # {}
  BY <1>11, SearchFinds
<1> DEFINE f == Min(places)
<1>13. ASSUME places # {}
       PROVE  /\ f \in places /\ \A k \in places : f <= k
              /\ Nth(S, f) = first /\ first \in found
              /\ PlacesOf(S, {first}) = {f}
  <2>1. first \in Visible(ks, id) /\ \A j \in Visible(ks, id) : first <= j
    BY <1>11, <1>13, SearchFinds
  <2>2. f \in places /\ \A k \in places : f <= k
    <3>1. places \in SUBSET Nat
      BY <1>10
    <3> QED
      BY <1>13, <3>1, MinOfNaturals
  <2> HIDE DEF f
  <2>3. f \in 1..n /\ Nth(S, f) \in Visible(ks, id)
    BY <1>9, <2>2
  <2>4. PICK r \in 1..n : Nth(S, r) = first /\ r = Rank(S, first)
    BY <1>4, <1>8, <2>1
  <2>5. r \in places
    BY <1>9, <2>1, <2>4
  <2>6. f <= r
    BY <2>2, <2>5
  <2>7. first <= Nth(S, f)
    BY <2>1, <2>3
  <2>8. ~ (f < r)
    <3>1. f < r => Nth(S, f) < first
      BY <1>4, <2>3, <2>4
    <3>2. Nth(S, f) \in Nat /\ first \in Nat
      BY <1>4, <1>8, <2>1, <2>3
    <3> QED
      BY <2>7, <3>1, <3>2
  <2>9. f = r
    BY <2>3, <2>4, <2>6, <2>8
  <2>10. \A k \in 1..n : Nth(S, k) = first => k = f
    <3>1. ASSUME NEW k \in 1..n, Nth(S, k) = first, k # f PROVE FALSE
      <4>1. k < f \/ f < k
        BY <2>3, <3>1
      <4>2. Nth(S, f) = first /\ first \in Nat
        BY <1>4, <1>8, <2>1, <2>4, <2>9
      <4> QED
        BY <1>4, <2>3, <3>1, <4>1, <4>2
    <3> QED
      BY <3>1
  <2>11. PlacesOf(S, {first}) = {f}
    BY <1>1, <1>3, <2>4, <2>9, <2>10 DEF PlacesOf
  <2> QED
    BY <1>7, <2>1, <2>2, <2>4, <2>9, <2>11
<1> HIDE DEF f
<1> QED
  BY <1>1, <1>3, <1>10, <1>12, <1>13 DEF f

\* Between calls these are the positions of a key in the list of items.
LEMMA SearchInList ==
  ASSUME NEW ks, IsReady(ks), NEW key \in Keys, NEW id, id = IdentityOf[key],
         NEW found, found = IndexedBy(ks, MatchingSlots(ks, HashOf[id], id)),
         NEW first, first = ks.indices[FirstMatch(ks, HashOf[id], id)]
  PROVE  /\ PlacesOf(Live(ks), found) = MultiDictSpec!PositionsOf(ItemsOf(ks), key)
         /\ md_contains(ks, key) <=> MultiDictSpec!Has(ItemsOf(ks), key)
         /\ MultiDictSpec!Has(ItemsOf(ks), key) =>
              /\ PlacesOf(Live(ks), {first}) = {MultiDictSpec!FirstOf(ItemsOf(ks), key)}
              /\ MultiDictSpec!FirstOf(ItemsOf(ks), key) \in 1..Cardinality(Live(ks))
              /\ Nth(Live(ks), MultiDictSpec!FirstOf(ItemsOf(ks), key)) = first
              /\ first \in found
<1>0. /\ IsSound(ks) /\ IsSettled(ks) /\ IsOrdered(ks) /\ Identified(ks)
      /\ id \in Identities
  BY HashTableAssumption DEF IsReady
<1>1. PICK n \in Nat : n = Cardinality(Live(ks))
  BY <1>0, LiveInOrder
<1>2. PICK list : list = ItemsOf(ks)
  OBVIOUS
<1>3. PICK places : places = VisiblePlaces(EntryList(ks), id)
  OBVIOUS
<1>4. /\ DOMAIN list = 1..n
      /\ \A k \in 1..n : list[k] = ItemOf(EntryList(ks)[k])
  BY <1>0, <1>1, <1>2, ItemsOfEntries
<1>5. \A k \in 1..n : /\ EntryList(ks)[k].identity = MultiDictSpec!Id(list[k])
                      /\ EntryList(ks)[k].hash # MARK
  <2> SUFFICES ASSUME NEW k \in 1..n
               PROVE  /\ EntryList(ks)[k].identity = MultiDictSpec!Id(list[k])
                      /\ EntryList(ks)[k].hash # MARK
    OBVIOUS
  <2>1. EntryList(ks)[k] = ks.entries[Nth(Live(ks), k)] /\ Nth(Live(ks), k) \in Live(ks)
    BY <1>0, <1>1, ItemsOfEntries
  <2>2. EntryList(ks)[k].key # NULL /\ EntryList(ks)[k].hash # MARK
    BY <1>0, <2>1 DEF IsSettled
  <2>3. EntryList(ks)[k].identity = IdentityOf[EntryList(ks)[k].key]
    BY <1>0, <2>1, <2>2 DEF Identified
  <2> QED
    BY <1>4, <2>2, <2>3 DEF ItemOf, MultiDictSpec!Id
<1>6. DOMAIN EntryList(ks) = 1..n
  <2>1. EntryList(ks) = [k \in 1..n |-> EntryList(ks)[k]]
    BY <1>0, <1>1, ItemsOfEntries
  <2> QED
    BY <2>1
<1>7. places = MultiDictSpec!PositionsOf(list, key)
  BY <1>3, <1>4, <1>5, <1>6 DEF VisiblePlaces, MultiDictSpec!PositionsOf
<1>8. MultiDictSpec!Has(list, key) <=> places # {}
  BY <1>7 DEF MultiDictSpec!Has, MultiDictSpec!PositionsOf
<1>9. MultiDictSpec!FirstOf(list, key) = Min(places)
  BY <1>7, SameCount DEF MultiDictSpec!FirstOf
<1>10. /\ PlacesOf(Live(ks), found) = places
       /\ places \in SUBSET (1..n)
       /\ Matches(ks, HashOf[id], id) # {} <=> places # {}
       /\ places # {} =>
            /\ Min(places) \in places
            /\ Nth(Live(ks), Min(places)) = first
            /\ PlacesOf(Live(ks), {first}) = {Min(places)}
            /\ first \in found
  <2>1. /\ PlacesOf(Live(ks), found) = VisiblePlaces(EntryList(ks), id)
        /\ VisiblePlaces(EntryList(ks), id) \in SUBSET (1..Cardinality(Live(ks)))
        /\ Matches(ks, HashOf[id], id) # {} <=> VisiblePlaces(EntryList(ks), id) # {}
        /\ VisiblePlaces(EntryList(ks), id) # {} =>
             /\ Min(VisiblePlaces(EntryList(ks), id)) \in VisiblePlaces(EntryList(ks), id)
             /\ Nth(Live(ks), Min(VisiblePlaces(EntryList(ks), id))) = first
             /\ PlacesOf(Live(ks), {first}) = {Min(VisiblePlaces(EntryList(ks), id))}
             /\ first \in found
    BY <1>0, SearchPlaces
  <2> QED
    BY <1>1, <1>3, <2>1
<1>11. md_contains(ks, key) <=> places # {}
  BY <1>10 DEF md_contains, hash_of
<1> QED
  BY <1>1, <1>2, <1>7, <1>8, <1>9, <1>10, <1>11

\* The items of a list of entries.
ListItems(list) == [n \in DOMAIN list |-> ItemOf(list[n])]

LEMMA ItemsOfList ==
  ASSUME NEW ks, IsSound(ks)
  PROVE  /\ Cardinality(Live(ks)) \in Nat
         /\ EntryList(ks) \in Seq(Entry) /\ Len(EntryList(ks)) = Cardinality(Live(ks))
         /\ DOMAIN EntryList(ks) = 1..Cardinality(Live(ks))
         /\ ItemsOf(ks) = ListItems(EntryList(ks))
         /\ Identified(ks) <=> \A n \in 1..Cardinality(Live(ks)) :
              EntryList(ks)[n].key # NULL =>
                EntryList(ks)[n].identity = IdentityOf[EntryList(ks)[n].key]
<1>1. PICK n \in Nat : n = Cardinality(Live(ks))
  BY LiveInOrder
<1>2. PICK list : list = EntryList(ks)
  OBVIOUS
<1>3. /\ list = [k \in 1..n |-> list[k]]
      /\ ItemsOf(ks) = [k \in 1..n |-> ItemOf(list[k])]
      /\ \A k \in 1..n : /\ list[k] = ks.entries[Nth(Live(ks), k)]
                         /\ list[k] \in Entry /\ Nth(Live(ks), k) \in Live(ks)
  BY <1>1, <1>2, ItemsOfEntries
<1>4. list \in [1..n -> Entry]
  BY <1>3
<1>5. list \in Seq(Entry) /\ Len(list) = n /\ DOMAIN list = 1..n
  BY <1>4
<1>6. ItemsOf(ks) = ListItems(list)
  BY <1>3, <1>5 DEF ListItems
<1>7. \A i \in Live(ks) : \E k \in 1..n : Nth(Live(ks), k) = i
  <2>1. PICK S : S = Live(ks)
    OBVIOUS
  <2>2. PICK m \in Nat : S \in SUBSET (0..m)
    BY <2>1, LiveInOrder
  <2>3. \A i \in S : Rank(S, i) \in 1..n /\ Nth(S, Rank(S, i)) = i
    BY <1>1, <2>1, <2>2, InOrder
  <2> QED
    BY <2>1, <2>3
<1>8. Identified(ks) <=> \A k \in 1..n : list[k].key # NULL =>
                                           list[k].identity = IdentityOf[list[k].key]
  BY <1>3, <1>7 DEF Identified
<1> QED
  BY <1>1, <1>2, <1>5, <1>6, <1>8

\* An addition puts an item at the end of the list.
LEMMA AppendedItems ==
  ASSUME NEW ks, IsSound(ks), Identified(ks), NEW new, IsSound(new),
         NEW entry, entry.identity = IdentityOf[entry.key], Added(new, ks, entry)
  PROVE  /\ ItemsOf(new) = Append(ItemsOf(ks), ItemOf(entry))
         /\ Identified(new)
<1>1. PICK n \in Nat : n = Cardinality(Live(ks))
  BY LiveInOrder
<1>2. PICK list : list = EntryList(ks)
  OBVIOUS
<1>3. PICK longer : longer = EntryList(new)
  OBVIOUS
<1>4. /\ list \in Seq(Entry) /\ Len(list) = n /\ DOMAIN list = 1..n
      /\ \A k \in 1..n : list[k].key # NULL =>
                           list[k].identity = IdentityOf[list[k].key]
  BY <1>1, <1>2, ItemsOfList
<1>5. longer = Append(list, entry)
  BY <1>2, <1>3, AddedList
<1>6. /\ DOMAIN longer = 1..(n + 1)
      /\ \A k \in 1..n : longer[k] = list[k]
      /\ longer[n + 1] = entry
  BY <1>4, <1>5
<1>7. \A k \in 1..(n + 1) : k \in 1..n \/ k = n + 1
  OBVIOUS
<1>8. Identified(new)
  <2>1. \A k \in 1..(n + 1) : longer[k].key # NULL =>
                                longer[k].identity = IdentityOf[longer[k].key]
    BY <1>4, <1>6, <1>7
  <2>2. DOMAIN longer = 1..Cardinality(Live(new))
    BY <1>3, ItemsOfList
  <2>3. \A k \in 1..Cardinality(Live(new)) : k \in 1..(n + 1)
    BY <1>6, <2>2
  <2> QED
    BY <1>3, <2>1, <2>3, ItemsOfList
<1> DEFINE items == ListItems(list)
           item == ItemOf(entry)
<1>9. /\ ListItems(longer) = [k \in 1..(n + 1) |-> ItemOf(longer[k])]
      /\ items = [k \in 1..n |-> ItemOf(list[k])]
  BY <1>4, <1>6 DEF ListItems
<1>10. /\ \A k \in 1..n : ItemOf(longer[k]) = items[k]
       /\ ItemOf(longer[n + 1]) = item
  BY <1>6, <1>9
<1> HIDE DEF items, item
<1>11. items \in Seq({items[k] : k \in 1..n}) /\ Len(items) = n
  BY <1>9
<1>12. Append(items, item) = [k \in 1..(n + 1) |-> IF k = n + 1 THEN item ELSE items[k]]
  BY <1>9, <1>11
<1>13. \A k \in 1..(n + 1) : ItemOf(longer[k]) = IF k = n + 1 THEN item ELSE items[k]
  BY <1>7, <1>10
<1>14. ListItems(longer) = Append(items, item)
  BY <1>9, <1>12, <1>13
<1> QED
  BY <1>2, <1>3, <1>8, <1>14, ItemsOfList DEF items, item

-----------------------------------------------------------------------------
(* The calls that are one step.                                            *)

\* A call begins and ends with a table that a list can stand for.
BetweenCalls ==
  /\ TableInvariant /\ IsReady(keys)
  /\ Idle /\ UNCHANGED bulk
  /\ IsSound(keys')

\* The list of MultiDict while such a call runs.
LEMMA CallList ==
  ASSUME BetweenCalls
  PROVE  /\ (IF Idle THEN Items ELSE bulk.base) = ItemsOf(keys)
         /\ (IF Idle THEN Items ELSE bulk.base)' = ItemsOf(keys')
BY DEF BetweenCalls, Idle, Items

\* AddItem adds to the list.
LEMMA AddItemListed ==
  ASSUME IsSound(keys), IsSettled(keys), Identified(keys), used = Cardinality(Live(keys)),
         NEW key \in Keys, NEW value \in Values, AddItem(key, value)
  PROVE  /\ ItemsOf(keys') = Append(ItemsOf(keys), MultiDictSpec!Item(key, value))
         /\ Identified(keys')
<1> DEFINE entry == NewEntry(key, value, FALSE)
<1>1. IsSound(keys') /\ Added(keys', keys, entry)
  BY AddEntrySound DEF AddItem
<1>2. entry.identity = IdentityOf[entry.key] /\ ItemOf(entry) = MultiDictSpec!Item(key, value)
  BY DEF NewEntry, ItemOf, MultiDictSpec!Item
<1> HIDE DEF entry
<1> QED
  BY <1>1, <1>2, AppendedItems

\* add().
LEMMA AddListed ==
  ASSUME BetweenCalls, NEW key \in Keys, NEW value \in Values, MdAdd(key, value)
  PROVE  MultiDictSpec!Add(key, value) /\ Identified(keys')
<1>1. /\ ItemsOf(keys') = Append(ItemsOf(keys), MultiDictSpec!Item(key, value))
      /\ Identified(keys')
  BY AddItemListed DEF BetweenCalls, IsReady, TableInvariant, MdAdd
<1>2. Return("ok", <<>>)
  BY DEF MdAdd
<1> QED
  BY <1>1, <1>2, CallList DEF MultiDictSpec!Add, MultiDictSpec!Return, Return

\* A KeyError changes nothing.
LEMMA MissingListed ==
  ASSUME BetweenCalls, NEW key \in Keys, ~ md_contains(keys, key), KeyError(<<key>>)
  PROVE  MultiDictSpec!Missing /\ Identified(keys')
<1>1. ~ MultiDictSpec!Has(ItemsOf(keys), key)
  BY SearchInList DEF BetweenCalls
<1>2. keys' = keys /\ Return("KeyError", <<key>>)
  BY DEF KeyError
<1>3. Identified(keys')
  BY <1>2 DEF BetweenCalls, IsReady
<1> HIDE DEF KeyError
<1> QED
  BY <1>1, <1>2, <1>3, CallList DEF MultiDictSpec!Missing, MultiDictSpec!Return, Return

\* Deleted slots take their entries from the list.
LEMMA DeleteAtListed ==
  ASSUME IsSound(keys), Identified(keys), NEW slots \in SUBSET Slots(keys.log2_size),
         \A s \in slots : keys.indices[s] >= 0, keys' = DeleteAt(keys, slots)
  PROVE  /\ ItemsOf(keys') = MultiDictSpec!Without(ItemsOf(keys),
                               PlacesOf(Live(keys), IndexedBy(keys, slots)))
         /\ Identified(keys')
<1>1. /\ IsSound(keys')
      /\ Live(keys') = Live(keys) \ IndexedBy(keys, slots)
      /\ \A i \in Live(keys') : keys'.entries[i] = keys.entries[i]
  BY DeleteSound
<1>2. ItemsOf(keys') = MultiDictSpec!Without(ItemsOf(keys),
                         PlacesOf(Live(keys), IndexedBy(keys, slots)))
  <2> DEFINE gone == IndexedBy(keys, slots)
  <2> HIDE DEF gone
  <2>1. Live(keys') = Live(keys) \ gone
    BY <1>1 DEF gone
  <2>2. ItemsOf(keys') = MultiDictSpec!Without(ItemsOf(keys), PlacesOf(Live(keys), gone))
    BY <1>1, <2>1, DeletedItems
  <2> QED
    BY <2>2 DEF gone
<1>3. Identified(keys')
  BY <1>1 DEF Identified
<1> QED
  BY <1>2, <1>3

\* The items of a key go.
LEMMA DeleteKeyListed ==
  ASSUME IsReady(keys), NEW key \in Keys, DeleteKey(key)
  PROVE  /\ ItemsOf(keys') = MultiDictSpec!Without(ItemsOf(keys),
                               MultiDictSpec!PositionsOf(ItemsOf(keys), key))
         /\ Identified(keys')
<1> DEFINE id == IdentityOf[key]
           slots == MatchingSlots(keys, HashOf[id], id)
<1>1. IsSound(keys) /\ Identified(keys) /\ id \in Identities
  BY HashTableAssumption DEF IsReady
<1>2. slots \in SUBSET Slots(keys.log2_size) /\ \A s \in slots : keys.indices[s] >= 0
  BY <1>1, MatchesAreLive
<1>3. keys' = DeleteAt(keys, slots)
  BY DEF DeleteKey, hash_of
<1>4. PlacesOf(Live(keys), IndexedBy(keys, slots))
        = MultiDictSpec!PositionsOf(ItemsOf(keys), key)
  BY SearchInList
<1> HIDE DEF slots
<1> QED
  BY <1>1, <1>2, <1>3, <1>4, DeleteAtListed

\* __delitem__().
LEMMA DelListed ==
  ASSUME BetweenCalls, NEW key \in Keys, MdDel(key)
  PROVE  (MultiDictSpec!DelItem(key) \/ MultiDictSpec!Missing) /\ Identified(keys')
<1>1. CASE ~ md_contains(keys, key)
  BY <1>1, MissingListed DEF MdDel
<1>2. CASE md_contains(keys, key)
  <2>1. DeleteKey(key) /\ Return("ok", <<>>)
    BY <1>2 DEF MdDel
  <2>2. /\ ItemsOf(keys') = MultiDictSpec!Without(ItemsOf(keys),
                              MultiDictSpec!PositionsOf(ItemsOf(keys), key))
        /\ Identified(keys')
    BY <2>1, DeleteKeyListed DEF BetweenCalls
  <2>3. MultiDictSpec!Has(ItemsOf(keys), key)
    BY <1>2, SearchInList DEF BetweenCalls
  <2>4. MultiDictSpec!DelItem(key)
    BY <2>1, <2>2, <2>3, CallList DEF MultiDictSpec!DelItem, MultiDictSpec!Return, Return
  <2> QED
    BY <2>2, <2>4
<1> QED
  BY <1>1, <1>2

\* What getone() reads is the first item of the key.
LEMMA GetOneListed ==
  ASSUME IsReady(keys), NEW key \in Keys, md_contains(keys, key)
  PROVE  md_get_one(keys, key)
           = ItemsOf(keys)[MultiDictSpec!FirstOf(ItemsOf(keys), key)].value
<1> DEFINE id == IdentityOf[key]
           first == keys.indices[FirstMatch(keys, HashOf[id], id)]
           f == MultiDictSpec!FirstOf(ItemsOf(keys), key)
<1>1. f \in 1..Cardinality(Live(keys)) /\ Nth(Live(keys), f) = first
  BY SearchInList
<1>2. md_get_one(keys, key) = keys.entries[first].value
  BY DEF md_get_one, hash_of
<1> HIDE DEF f, first
<1>3. ItemsOf(keys)[f] = ItemOf(keys.entries[Nth(Live(keys), f)])
  BY <1>1, ItemsOfEntries DEF IsReady
<1>4. ItemsOf(keys)[f].value = keys.entries[first].value
  BY <1>1, <1>3 DEF ItemOf
<1> QED
  BY <1>2, <1>4 DEF f

\* setdefault().
LEMMA SetDefaultListed ==
  ASSUME BetweenCalls, NEW key \in Keys, NEW value \in Values, MdSetDefault(key, value)
  PROVE  MultiDictSpec!SetDefault(key, value) /\ Identified(keys')
<1>0. md_contains(keys, key) <=> MultiDictSpec!Has(ItemsOf(keys), key)
  BY SearchInList DEF BetweenCalls
<1>1. CASE md_contains(keys, key)
  <2>1. keys' = keys /\ Return("ok", <<md_get_one(keys, key)>>)
    BY <1>1 DEF MdSetDefault
  <2>2. Identified(keys')
    BY <2>1 DEF BetweenCalls, IsReady
  <2>3. md_get_one(keys, key)
          = ItemsOf(keys)[MultiDictSpec!FirstOf(ItemsOf(keys), key)].value
    BY <1>1, GetOneListed DEF BetweenCalls
  <2> QED
    BY <1>0, <1>1, <2>1, <2>2, <2>3, CallList
    DEF MultiDictSpec!SetDefault, MultiDictSpec!Return, Return
<1>2. CASE ~ md_contains(keys, key)
  <2>1. AddItem(key, value) /\ Return("ok", <<value>>)
    BY <1>2 DEF MdSetDefault
  <2>2. /\ ItemsOf(keys') = Append(ItemsOf(keys), MultiDictSpec!Item(key, value))
        /\ Identified(keys')
    BY <2>1, AddItemListed DEF BetweenCalls, IsReady, TableInvariant
  <2> QED
    BY <1>0, <1>2, <2>1, <2>2, CallList
    DEF MultiDictSpec!SetDefault, MultiDictSpec!Return, Return
<1> QED
  BY <1>1, <1>2

\* popone().
LEMMA PopOneListed ==
  ASSUME BetweenCalls, NEW key \in Keys, MdPopOne(key)
  PROVE  (MultiDictSpec!PopOne(key) \/ MultiDictSpec!Missing) /\ Identified(keys')
<1>1. CASE ~ md_contains(keys, key)
  BY <1>1, MissingListed DEF MdPopOne
<1>2. CASE md_contains(keys, key)
  <2> DEFINE id == IdentityOf[key]
             slots == {FirstMatch(keys, HashOf[id], id)}
             first == keys.indices[FirstMatch(keys, HashOf[id], id)]
             f == MultiDictSpec!FirstOf(ItemsOf(keys), key)
  <2>1. keys' = DeleteAt(keys, slots) /\ Return("ok", <<md_get_one(keys, key)>>)
    BY <1>2 DEF MdPopOne, hash_of
  <2>2. slots \in SUBSET Slots(keys.log2_size) /\ \A s \in slots : keys.indices[s] >= 0
    BY <1>2, MatchesAreLive, HashTableAssumption DEF BetweenCalls, IsReady, md_contains, hash_of
  <2>3. IndexedBy(keys, slots) = {first}
    BY DEF IndexedBy
  <2>4. MultiDictSpec!Has(ItemsOf(keys), key) /\ PlacesOf(Live(keys), {first}) = {f}
    BY <1>2, SearchInList DEF BetweenCalls
  <2> HIDE DEF slots
  <2>5. /\ ItemsOf(keys') = MultiDictSpec!Without(ItemsOf(keys), {f})
        /\ Identified(keys')
    BY <2>1, <2>2, <2>3, <2>4, DeleteAtListed DEF BetweenCalls, IsReady
  <2>6. md_get_one(keys, key) = ItemsOf(keys)[f].value
    BY <1>2, GetOneListed DEF BetweenCalls
  <2>7. MultiDictSpec!PopOne(key)
    BY <2>1, <2>4, <2>5, <2>6, CallList DEF MultiDictSpec!PopOne, MultiDictSpec!Return, Return
  <2> QED
    BY <2>5, <2>7
<1> QED
  BY <1>1, <1>2

\* __setitem__().
LEMMA ReplaceListed ==
  ASSUME BetweenCalls, NEW key \in Keys, NEW value \in Values, MdReplace(key, value)
  PROVE  MultiDictSpec!SetItem(key, value) /\ Identified(keys')
<1> DEFINE item == MultiDictSpec!Item(key, value)
<1>0. /\ md_contains(keys, key) <=> MultiDictSpec!Has(ItemsOf(keys), key)
      /\ Return("ok", <<>>)
  BY SearchInList DEF BetweenCalls, MdReplace
<1>1. CASE ~ md_contains(keys, key)
  <2>1. /\ ItemsOf(keys') = Append(ItemsOf(keys), item)
        /\ Identified(keys')
    BY <1>1, AddItemListed DEF BetweenCalls, IsReady, TableInvariant, MdReplace
  <2> QED
    BY <1>0, <1>1, <2>1, CallList DEF MultiDictSpec!SetItem, MultiDictSpec!Return, Return
<1>2. CASE md_contains(keys, key)
  <2> DEFINE id == IdentityOf[key]
             found == IndexedBy(keys, MatchingSlots(keys, HashOf[id], id))
             first == keys.indices[FirstMatch(keys, HashOf[id], id)]
             items == ItemsOf(keys)
             positions == MultiDictSpec!PositionsOf(items, key)
             f == MultiDictSpec!FirstOf(items, key)
             S == Live(keys)
  <2>1. PICK n \in Nat : n = Cardinality(S)
    BY LiveInOrder DEF BetweenCalls, IsReady
  <2>2. Replaced(keys', keys, first, found, key, value)
    BY <1>2, ReplaceItemSound DEF BetweenCalls, IsReady, MdReplace
  <2>3. /\ PlacesOf(S, found) = positions
        /\ PlacesOf(S, {first}) = {f} /\ f \in 1..n /\ Nth(S, f) = first
    BY <1>2, <2>1, SearchInList DEF BetweenCalls
  <2>4. /\ DOMAIN items = 1..n
        /\ \A k \in 1..n : /\ Nth(S, k) \in S
                           /\ items[k] = ItemOf(keys.entries[Nth(S, k)])
    BY <2>1, ItemsOfEntries DEF BetweenCalls, IsReady
  <2> HIDE DEF found, first, positions, f, items, S
  <2> DEFINE list == [items EXCEPT ![f] = item]
             gone == found \ {first}
  <2>5. /\ Live(keys') = S \ gone
        /\ \A i \in Live(keys') :
             /\ keys'.entries[i].key = IF i = first THEN key ELSE keys.entries[i].key
             /\ keys'.entries[i].value = IF i = first THEN value ELSE keys.entries[i].value
             /\ keys'.entries[i].identity = keys.entries[i].identity
    BY <2>2 DEF Replaced, S
  <2>6. DOMAIN list = 1..n /\ \A k \in 1..n : list[k] = IF k = f THEN item ELSE items[k]
    BY <2>3, <2>4
  <2> HIDE DEF list, gone
  <2>7. \A k \in 1..n : Nth(S, k) = first <=> k = f
    BY <2>1, <2>3 DEF PlacesOf
  <2>8. Lists(list, keys', keys)
    <3>1. ASSUME NEW k \in 1..n, Nth(S, k) \in Live(keys')
          PROVE  ItemOf(keys'.entries[Nth(S, k)]) = list[k]
      <4>1. CASE k = f
        BY <2>5, <2>6, <2>7, <3>1, <4>1 DEF ItemOf, MultiDictSpec!Item
      <4>2. CASE k # f
        BY <2>4, <2>5, <2>6, <2>7, <3>1, <4>2 DEF ItemOf
      <4> QED
        BY <4>1, <4>2
    <3> QED
      BY <2>1, <3>1 DEF Lists, S
  <2>9. ItemsOf(keys') = Part(list, PlacesOf(S, Live(keys')))
    <3>1. Live(keys') \subseteq Live(keys) /\ IsSound(keys) /\ IsSound(keys')
      BY <2>5 DEF S, BetweenCalls, IsReady
    <3> QED
      BY <2>8, <3>1, PartOfItems DEF S
  <2>10. PlacesOf(S, Live(keys')) = (1..n) \ PlacesOf(S, gone)
    <3>1. PlacesOf(S, S \ gone) = (1..n) \ PlacesOf(S, gone)
      BY <2>1, PlacesLeft DEF S, BetweenCalls, IsReady
    <3> QED
      BY <2>5, <3>1
  <2>11. PlacesOf(S, gone) = positions \ {f}
    <3>1. PlacesOf(S, gone) = PlacesOf(S, found) \ PlacesOf(S, {first})
      BY DEF PlacesOf, gone
    <3> QED
      BY <2>3, <3>1
  <2>12. MultiDictSpec!Without(list, positions \ {f}) = Part(list, (1..n) \ (positions \ {f}))
    <3>1. PICK P : P = positions \ {f}
      OBVIOUS
    <3>2. MultiDictSpec!Without(list, P) = Part(list, (1..n) \ P)
      BY <2>6, SameRest
    <3> QED
      BY <3>1, <3>2
  <2>13. ItemsOf(keys') = MultiDictSpec!Without(list, positions \ {f})
    BY <2>9, <2>10, <2>11, <2>12
  <2>14. MultiDictSpec!SetItem(key, value)
    <3>1. (IF Idle THEN Items ELSE bulk.base) = items
      BY CallList DEF items
    <3>2. (IF Idle THEN Items ELSE bulk.base)' = ItemsOf(keys')
      BY CallList
    <3>3. MultiDictSpec!Has(items, key)
      BY <1>0, <1>2 DEF items
    <3> QED
      BY <1>0, <2>13, <3>1, <3>2, <3>3
      DEF MultiDictSpec!SetItem, MultiDictSpec!Return, Return, list, positions, f
  <2>15. Identified(keys')
    <3>1. ASSUME NEW i \in Live(keys'), keys'.entries[i].key # NULL
          PROVE  keys'.entries[i].identity = IdentityOf[keys'.entries[i].key]
      <4>1. CASE i = first
        <5>1. first \in found
          BY <1>2, SearchInList DEF BetweenCalls, first, found
        <5>2. keys.entries[first].identity = id
          <6>1. IsSound(keys) /\ IsOrdered(keys) /\ id \in Identities
            BY HashTableAssumption DEF BetweenCalls, IsReady
          <6>2. first \in Visible(keys, id)
            BY <5>1, <6>1, SearchFinds DEF found
          <6> QED
            BY <6>2 DEF Visible, OwnEntries
        <5> QED
          BY <2>5, <3>1, <4>1, <5>2
      <4>2. CASE i # first
        <5>1. /\ keys'.entries[i].key = keys.entries[i].key
              /\ keys'.entries[i].identity = keys.entries[i].identity /\ i \in Live(keys)
          BY <2>5, <4>2 DEF S
        <5> QED
          BY <3>1, <5>1 DEF BetweenCalls, IsReady, Identified
      <4> QED
        BY <4>1, <4>2
    <3> QED
      BY <3>1 DEF Identified
  <2> QED
    BY <2>14, <2>15
<1> QED
  BY <1>1, <1>2

\* popitem() takes the last item.
LEMMA PopItemListed ==
  ASSUME BetweenCalls, MdPopItem
  PROVE  (MultiDictSpec!PopItem \/ MultiDictSpec!Missing) /\ Identified(keys')
<1> DEFINE items == ItemsOf(keys)
           S == Live(keys)
           pos == CHOOSE i \in Live(keys) : \A j \in Live(keys) : j <= i
<1>1. PICK n \in Nat : n = Cardinality(S) /\ n = used
  BY LiveInOrder DEF BetweenCalls, IsReady, TableInvariant
<1>2. /\ DOMAIN items = 1..n
      /\ \A k \in 1..n : items[k] = ItemOf(keys.entries[Nth(S, k)])
      /\ items = [k \in 1..n |-> ItemOf(EntryList(keys)[k])]
  <2>1. /\ items = [k \in 1..n |-> ItemOf(EntryList(keys)[k])]
        /\ \A k \in 1..n : EntryList(keys)[k] = keys.entries[Nth(S, k)]
    BY <1>1, ItemsOfEntries DEF BetweenCalls, IsReady
  <2> HIDE DEF items
  <2> QED
    BY <2>1
<1>3. CASE used = 0
  <2>1. keys' = keys /\ Return("KeyError", <<>>)
    BY <1>3 DEF MdPopItem, KeyError
  <2>2. items = <<>>
    BY <1>1, <1>2, <1>3
  <2>3. Identified(keys')
    BY <2>1 DEF BetweenCalls, IsReady
  <2> QED
    BY <2>1, <2>2, <2>3, CallList DEF MultiDictSpec!Missing, MultiDictSpec!Return, Return
<1>4. CASE used # 0
  <2>1. PICK slots \in SUBSET Slots(keys.log2_size) :
          /\ \A s \in slots : keys.indices[s] >= 0
          /\ IndexedBy(keys, slots) = {pos}
          /\ keys' = DeleteAt(keys, slots)
    BY <1>4, PopItemSlot DEF BetweenCalls, IsReady, TableInvariant
  <2>2. Return("ok", <<ItemAt(keys, pos)>>)
    BY <1>4 DEF MdPopItem
  <2>3. pos \in S /\ \A j \in S : j <= pos
    <3>1. S # {}
      BY <1>1, <1>4, FS_EmptySet
    <3>2. PICK m \in Nat : S \in SUBSET (0..m)
      BY LiveInOrder DEF BetweenCalls, IsReady
    <3>3. \E i \in S : \A j \in S : j <= i
      <4> HIDE DEF S
      <4> QED
        BY <3>1, <3>2, MaxOfInterval
    <3> QED
      BY <3>3, Zenon
  <2> HIDE DEF pos
  <2>4. /\ n \in 1..n /\ Nth(S, n) = pos
        /\ \A k \in 1..n : Nth(S, k) = pos => k = n
    <3>1. PICK m \in Nat : Live(keys) \in SUBSET (0..m)
      BY LiveInOrder DEF BetweenCalls, IsReady
    <3> HIDE DEF S
    <3>2. /\ S \in SUBSET Nat
          /\ \A k \in 1..n : Nth(S, k) \in S
          /\ \A i \in S : Rank(S, i) \in 1..n /\ Nth(S, Rank(S, i)) = i
          /\ \A j, k \in 1..n : j < k => Nth(S, j) < Nth(S, k)
      BY <1>1, <3>1, InOrder DEF S
    <3>3. n \in 1..n
      BY <1>1, <1>4
    <3>4. ASSUME NEW k \in 1..n, Nth(S, k) = pos PROVE k = n
      <4>1. k < n => pos < Nth(S, n)
        BY <3>2, <3>3, <3>4
      <4>2. Nth(S, n) <= pos /\ pos \in Nat /\ Nth(S, n) \in Nat
        BY <2>3, <3>2, <3>3
      <4> QED
        BY <3>4, <4>1, <4>2
    <3>5. Nth(S, n) = pos
      <4>1. Rank(S, pos) \in 1..n /\ Nth(S, Rank(S, pos)) = pos
        BY <2>3, <3>2
      <4> QED
        BY <3>4, <4>1
    <3> QED
      BY <3>3, <3>4, <3>5
  <2>5. PlacesOf(S, {pos}) = {n}
    BY <1>1, <2>4 DEF PlacesOf
  <2>6. /\ ItemsOf(keys') = MultiDictSpec!Without(items, {n})
        /\ Identified(keys')
    BY <2>1, <2>5, DeleteAtListed DEF BetweenCalls, IsReady
  <2>7. items[n] = ItemAt(keys, pos)
    BY <1>2, <2>4 DEF ItemOf, ItemAt
  <2>8. Len(items) = n /\ items # <<>>
    <3>1. Len(items) = n
      BY <1>2
    <3> QED
      BY <1>1, <1>4, <3>1
  <2>9. MultiDictSpec!PopItem
    <3>1. /\ (IF Idle THEN Items ELSE bulk.base) = items
          /\ (IF Idle THEN Items ELSE bulk.base)' = ItemsOf(keys')
      BY CallList
    <3> HIDE DEF items
    <3> QED
      BY <2>2, <2>6, <2>7, <2>8, <3>1 DEF MultiDictSpec!PopItem, MultiDictSpec!Return, Return
  <2> QED
    BY <2>6, <2>9
<1> QED
  BY <1>3, <1>4

\* A table without live entries has no items.
LEMMA NoItems ==
  ASSUME NEW ks, IsSound(ks), Cardinality(Live(ks)) = 0
  PROVE  ItemsOf(ks) = <<>> /\ Identified(ks)
<1>1. ItemsOf(ks) = <<>>
  <2>1. ItemsOf(ks) = [n \in 1..0 |-> ItemOf(EntryList(ks)[n])]
    BY ItemsOfEntries
  <2> QED
    BY <2>1
<1>2. Live(ks) = {}
  BY LiveFinite, FS_EmptySet DEF IsSound
<1> QED
  BY <1>1, <1>2 DEF Identified

\* clear().
LEMMA ClearListed ==
  ASSUME BetweenCalls, MdClear
  PROVE  MultiDictSpec!Clear /\ Identified(keys')
<1>1. keys' = empty_htkeys /\ Return("ok", <<>>)
  BY DEF MdClear
<1>2. Cardinality(Live(keys')) = 0
  <2>1. 0 \in Log2Sizes
    BY DEF Log2Sizes
  <2> QED
    BY <1>1, <2>1, NewTableSound DEF empty_htkeys
<1>3. ItemsOf(keys') = <<>> /\ Identified(keys')
  BY <1>2, NoItems DEF BetweenCalls
<1> QED
  BY <1>1, <1>3, CallList DEF MultiDictSpec!Clear, MultiDictSpec!Return, Return

\* A call that runs out of memory changes nothing.
LEMMA OutOfMemoryListed ==
  ASSUME BetweenCalls, OutOfMemory
  PROVE  MultiDictSpec!OutOfMemory /\ Identified(keys')
<1>1. keys' = keys /\ Return("MemoryError", <<>>)
  BY DEF OutOfMemory
<1>2. Identified(keys')
  BY <1>1 DEF BetweenCalls, IsReady
<1> HIDE DEF OutOfMemory
<1> QED
  BY <1>1, <1>2, CallList DEF MultiDictSpec!OutOfMemory, MultiDictSpec!Return, Return

\* popall() meets the entries it takes in the order of their additions, each
\* of them once.
MeetsInOrder(ks, hash, steps, found) ==
  /\ \E m \in Nat : steps \in SUBSET (0..m)
  /\ Numbers([k \in 1..Cardinality(steps) |-> IndexAt(ks, hash, Nth(steps, k))],
             Cardinality(steps), found)

LEMMA PopStepsInOrder ==
  ASSUME NEW ks, IsReady(ks), NEW id \in Identities
  PROVE  MeetsInOrder(ks, HashOf[id], PopSteps(ks, HashOf[id], id), Visible(ks, id))
<1>a. PICK hash : hash = HashOf[id]
  OBVIOUS
<1>b. PICK steps : steps = PopSteps(ks, hash, id)
  OBVIOUS
<1> DEFINE found == Matches(ks, hash, id)
           length == PathLength(ks, hash)
           at(n) == IndexAt(ks, hash, n)
           g == [k \in 1..Cardinality(steps) |-> at(Nth(steps, k))]
<1>1. /\ IsSound(ks) /\ IsSettled(ks) /\ IsOrdered(ks) /\ IsHtKeys(ks)
      /\ ks.log2_size \in Log2Sizes /\ hash \in Hashes
  BY <1>a, NeverFull DEF IsReady, IsSound, Hashes
<1>2. length \in 0..ProbeSteps(ks.log2_size) /\ ProbeSteps(ks.log2_size) \in Nat
  BY <1>1, NeverFull, EmptySlotFound, SizeTypes
<1>3. \A n : n \in found <=> /\ n \in 0..(length - 1)
                             /\ at(n) >= 0
                             /\ ks.entries[at(n)].hash = hash
                             /\ ks.entries[at(n)].identity = id
  BY Zenon DEF Matches
<1>4. \A i : i \in Visible(ks, id) <=> \E n \in found : at(n) = i
  <2>1. \A i : i \in IndexedBy(ks, MatchingSlots(ks, hash, id))
                 <=> \E n \in found : at(n) = i
    BY DEF IndexedBy, MatchingSlots, IndexAt
  <2>2. IndexedBy(ks, MatchingSlots(ks, hash, id)) = Visible(ks, id)
    BY <1>1, <1>a, SearchFinds
  <2> QED
    BY <2>1, <2>2
<1>5. \A i \in Visible(ks, id) : i \in Live(ks) /\ ks.entries[i].identity = id /\ i \in Nat
  <2>1. Live(ks) \in SUBSET Nat
    BY <1>1, LiveInOrder, InOrder
  <2> QED
    BY <2>1 DEF Visible, OwnEntries
<1>6. \A n \in 0..ProbeSteps(ks.log2_size) :
        SlotAt(ks, hash, n) \in DOMAIN ks.indices
  <2>1. ProbeSlots[hash][ks.log2_size]
          \in [0..ProbeSteps(ks.log2_size) -> Slots(ks.log2_size)]
    BY <1>1, ProbesVisitAll
  <2>2. DOMAIN ks.indices = Slots(ks.log2_size)
    BY <1>1 DEF IsHtKeys
  <2> QED
    BY <2>1, <2>2 DEF SlotAt
<1>7. \A m, n \in found : SlotAt(ks, hash, m) = SlotAt(ks, hash, n) <=> at(m) = at(n)
  <2> SUFFICES ASSUME NEW m \in found, NEW n \in found, at(m) = at(n)
               PROVE  SlotAt(ks, hash, m) = SlotAt(ks, hash, n)
    BY DEF IndexAt
  <2>1. m \in 0..ProbeSteps(ks.log2_size) /\ n \in 0..ProbeSteps(ks.log2_size)
    BY <1>2, <1>3
  <2> QED
    BY <1>1, <1>3, <1>6, <2>1 DEF IndexAt, IsSound
<1>8. \A n : n \in steps <=> n \in found /\ \A m \in found : m < n => at(m) # at(n)
  <2>1. \A n : n \in steps <=> n \in found /\ \A m \in found : m < n =>
                                 SlotAt(ks, hash, m) # SlotAt(ks, hash, n)
    BY <1>b, Zenon DEF PopSteps
  <2> HIDE DEF found, at
  <2> QED
    BY <1>7, <2>1
<1> HIDE DEF found, length
<1>9. steps \in SUBSET (0..ProbeSteps(ks.log2_size))
  BY <1>2, <1>3, <1>8
<1> DEFINE top == ProbeSteps(ks.log2_size)
<1>10. top \in Nat /\ steps \in SUBSET (0..top)
  BY <1>2, <1>9
<1> HIDE DEF top
<1>11. /\ Cardinality(steps) \in Nat
       /\ \A k \in 1..Cardinality(steps) : Nth(steps, k) \in steps
       /\ \A n \in steps : Rank(steps, n) \in 1..Cardinality(steps)
                           /\ Nth(steps, Rank(steps, n)) = n
       /\ \A j, k \in 1..Cardinality(steps) : j < k => Nth(steps, j) < Nth(steps, k)
  <2>1. PICK U \in SUBSET (0..top) : steps = U
    BY <1>10
  <2>2. /\ Cardinality(U) \in Nat
        /\ \A k \in 1..Cardinality(U) : Nth(U, k) \in U
        /\ \A n \in U : Rank(U, n) \in 1..Cardinality(U) /\ Nth(U, Rank(U, n)) = n
        /\ \A j, k \in 1..Cardinality(U) : j < k => Nth(U, j) < Nth(U, k)
    BY <1>10, InOrder
  <2> QED
    BY <2>1, <2>2
<1>12. \A k \in 1..Cardinality(steps) : g[k] = at(Nth(steps, k))
  OBVIOUS
<1> HIDE DEF g
<1>13. ASSUME NEW k \in 1..Cardinality(steps) PROVE g[k] \in Visible(ks, id)
  <2>1. Nth(steps, k) \in found
    BY <1>8, <1>11
  <2> QED
    BY <1>4, <1>12, <2>1
<1>14. ASSUME NEW i \in Visible(ks, id) PROVE \E k \in 1..Cardinality(steps) : g[k] = i
  <2> DEFINE T == {n \in found : at(n) = i}
             least == Min(T)
  <2>1. T # {} /\ T \in SUBSET Nat
    BY <1>3, <1>4
  <2>2. least \in T /\ \A n \in T : least <= n
    <3> HIDE DEF T
    <3> QED
      BY <2>1, MinOfNaturals
  <2> HIDE DEF least
  <2>3. least \in found /\ at(least) = i /\ least \in Nat
    BY <2>1, <2>2
  <2>4. \A m \in found : m < least => at(m) # at(least)
    <3>1. \A m \in found : m \in Nat
      BY <1>3
    <3>2. \A m \in found : at(m) = i => least <= m
      BY <2>2
    <3> HIDE DEF at, T
    <3> QED
      BY <2>3, <3>1, <3>2
  <2>5. least \in steps
    BY <1>8, <2>3, <2>4
  <2> QED
    BY <1>11, <1>12, <2>3, <2>5
<1>15. ASSUME NEW j \in 1..Cardinality(steps), NEW k \in 1..Cardinality(steps), j < k
       PROVE  g[j] < g[k]
  <2>1. PICK a \in steps : a = Nth(steps, j)
    BY <1>11
  <2>2. PICK b \in steps : b = Nth(steps, k)
    BY <1>11
  <2>3. a < b /\ a \in found /\ b \in found /\ a \in 0..(length - 1) /\ b \in 0..(length - 1)
    BY <1>3, <1>8, <1>11, <1>15, <2>1, <2>2
  <2>4. at(a) \in Visible(ks, id) /\ at(b) \in Visible(ks, id) /\ at(a) # at(b)
    BY <1>4, <1>8, <2>3
  <2>5. ASSUME at(b) < at(a) PROVE FALSE
    <3>1. Precedes(ks, HashOf[id], at(b), at(a))
      <4>1. /\ at(b) \in Live(ks) /\ at(a) \in Live(ks)
            /\ ks.entries[at(a)].identity = id /\ ks.entries[at(b)].identity = id
        BY <1>5, <2>4
      <4> HIDE DEF at
      <4> QED
        BY <1>1, <2>5, <4>1 DEF IsOrdered
    <3>2. a \in 0..ProbeSteps(ks.log2_size)
      BY <1>2, <2>3
    <3>3. PICK l \in 0..(a - 1) : at(l) = at(b)
      BY <1>a, <3>1, <3>2 DEF Precedes
    <3>4. l \in 0..(length - 1) /\ l < b
      BY <1>2, <2>3, <3>3
    <3>5. l \in found
      BY <1>3, <2>3, <3>3, <3>4
    <3> QED
      BY <1>8, <3>3, <3>4, <3>5, <2>2
  <2>6. at(a) \in Nat /\ at(b) \in Nat
    BY <1>5, <2>4
  <2>7. at(a) < at(b)
    <3> HIDE DEF at
    <3> QED
      BY <2>4, <2>5, <2>6
  <2> QED
    BY <1>12, <2>1, <2>2, <2>7
<1>16. Numbers(g, Cardinality(steps), Visible(ks, id))
  BY <1>13, <1>14, <1>15 DEF Numbers
<1>17. MeetsInOrder(ks, hash, steps, Visible(ks, id))
  BY <1>10, <1>16 DEF g, MeetsInOrder
<1> QED
  BY <1>a, <1>b, <1>17

\* popall() returns the values of the list.
LEMMA PoppedListed ==
  ASSUME IsReady(keys), NEW key \in Keys
  PROVE  PoppedValues(keys, key) = MultiDictSpec!ValuesOf(ItemsOf(keys), key)
<1>1. PICK id \in Identities : id = IdentityOf[key]
  BY HashTableAssumption
<1>2. PICK hash : hash = HashOf[id]
  OBVIOUS
<1>3. PICK steps : steps = PopSteps(keys, hash, id)
  OBVIOUS
<1>4. PICK c : c = Cardinality(steps)
  OBVIOUS
<1>5. PICK m \in Nat : Live(keys) \in SUBSET (0..m)
  BY LiveInOrder DEF IsReady
<1>6. PICK S \in SUBSET (0..m) : S = Live(keys)
  BY <1>5
<1>7. PICK found \in SUBSET S : found = Visible(keys, id)
  BY <1>6 DEF Visible, OwnEntries
<1>8. PICK list : list = ItemsOf(keys)
  OBVIOUS
<1>9. PICK P : P = MultiDictSpec!PositionsOf(list, key)
  OBVIOUS
<1>10. /\ P = PlacesOf(S, found) /\ P \in SUBSET (0..Cardinality(S)) /\ Cardinality(S) \in Nat
       /\ Cardinality(P) = Cardinality(found) /\ Cardinality(found) \in Nat
       /\ \A k \in 1..Cardinality(found) :
            Nth(P, k) \in P /\ Nth(found, k) = Nth(S, Nth(P, k))
  <2>1. found = IndexedBy(keys, MatchingSlots(keys, HashOf[id], id))
    BY <1>7, SearchFinds DEF IsReady
  <2>2. PlacesOf(Live(keys), found) = MultiDictSpec!PositionsOf(ItemsOf(keys), key)
    <3>1. PICK first : first = keys.indices[FirstMatch(keys, HashOf[id], id)]
      OBVIOUS
    <3> QED
      BY <1>1, <2>1, SearchInList
  <2>3. P = PlacesOf(S, found)
    BY <1>6, <1>8, <1>9, <2>2
  <2> QED
    BY <2>3, PartInOrder
<1>a. MeetsInOrder(keys, hash, steps, found)
  <2>1. MeetsInOrder(keys, HashOf[id], PopSteps(keys, HashOf[id], id), Visible(keys, id))
    BY PopStepsInOrder
  <2> QED
    BY <1>2, <1>3, <1>7, <2>1
<1>b. PICK top \in Nat : steps \in SUBSET (0..top)
  BY <1>a DEF MeetsInOrder
<1> DEFINE g == [k \in 1..c |-> IndexAt(keys, hash, Nth(steps, k))]
<1>11. c = Cardinality(found) /\ \A k \in 1..c : Nth(found, k) = g[k]
  <2>2. Numbers(g, c, found)
    BY <1>4, <1>a DEF MeetsInOrder
  <2>3. c \in Nat
    BY <1>4, <1>b, InOrder
  <2>4. found \in SUBSET (0..m)
    OBVIOUS
  <2> HIDE DEF g
  <2> QED
    BY <2>2, <2>3, <2>4, Enumerated
<1>12. PoppedValues(keys, key) = [k \in 1..c |-> keys.entries[Nth(found, k)].value]
  <2> DEFINE nth(i) == CHOOSE n \in steps : Cardinality({j \in steps : j < n}) = i - 1
  <2>1. PoppedValues(keys, key)
          = [k \in 1..c |-> keys.entries[IndexAt(keys, hash, nth(k))].value]
    <3>1. hash = hash_of(key) /\ id = IdentityOf[key]
      BY <1>1, <1>2 DEF hash_of
    <3>2. steps = PopSteps(keys, hash_of(key), IdentityOf[key])
      BY <1>3, <3>1, Zenon
    <3> DEFINE its == PopSteps(keys, hash_of(key), IdentityOf[key])
               step(i) == CHOOSE n \in its : Cardinality({j \in its : j < n}) = i - 1
    <3>3. PoppedValues(keys, key)
            = [k \in 1..Cardinality(its) |->
                 keys.entries[IndexAt(keys, hash_of(key), step(k))].value]
      BY Zenon DEF PoppedValues
    <3>4. its = steps
      BY <3>2
    <3> HIDE DEF its
    <3> QED
      BY <1>4, <3>1, <3>3, <3>4, Zenon
  <2>3. \A k \in 1..c : nth(k) = Nth(steps, k)
    <3>1. ASSUME NEW k \in 1..c PROVE nth(k) = Nth(steps, k)
      <4>1. k \in 1..Cardinality(steps)
        BY <1>4
      <4> QED
        BY <1>b, <4>1, CountedBefore
    <3> QED
      BY <3>1
  <2> HIDE DEF nth
  <2>4. \A k \in 1..c : keys.entries[IndexAt(keys, hash, nth(k))].value
                          = keys.entries[Nth(found, k)].value
    BY <1>11, <2>3
  <2> QED
    BY <2>1, <2>4
<1>13. MultiDictSpec!ValuesOf(list, key) = [k \in 1..c |-> list[Nth(P, k)].value]
  <2>1. MultiDictSpec!AtPositions(list, P) = Part(list, P)
    BY <1>10, SamePart
  <2>2. Part(list, P) = [k \in 1..c |-> list[Nth(P, k)]]
    BY <1>10, <1>11 DEF Part
  <2>3. MultiDictSpec!AtPositions(list, MultiDictSpec!PositionsOf(list, key))
          = [k \in 1..c |-> list[Nth(P, k)]]
    BY <1>9, <2>1, <2>2
  <2> QED
    BY <2>3, Zenon DEF MultiDictSpec!ValuesOf
<1>14. ASSUME NEW k \in 1..c
       PROVE  list[Nth(P, k)].value = keys.entries[Nth(found, k)].value
  <2>1. Nth(P, k) \in 1..Cardinality(S)
    BY <1>10, <1>11 DEF PlacesOf
  <2>2. list[Nth(P, k)] = ItemOf(keys.entries[Nth(S, Nth(P, k))])
    BY <1>6, <1>8, <2>1, ItemsOfEntries DEF IsReady
  <2> QED
    BY <1>10, <1>11, <2>2 DEF ItemOf
<1> QED
  BY <1>8, <1>12, <1>13, <1>14

\* popall().
LEMMA PopAllListed ==
  ASSUME BetweenCalls, NEW key \in Keys, MdPopAll(key)
  PROVE  (MultiDictSpec!PopAll(key) \/ MultiDictSpec!Missing) /\ Identified(keys')
<1>1. ASSUME used = 0 PROVE ~ md_contains(keys, key)
  <2>1. ItemsOf(keys) = <<>>
    BY <1>1, NoItems DEF BetweenCalls, TableInvariant
  <2>2. ~ MultiDictSpec!Has(ItemsOf(keys), key)
    BY <2>1 DEF MultiDictSpec!Has
  <2> QED
    BY <2>2, SearchInList DEF BetweenCalls
<1>2. CASE ~ md_contains(keys, key)
  BY <1>2, MissingListed DEF MdPopAll
<1>3. CASE md_contains(keys, key)
  <2>1. DeleteKey(key) /\ Return("ok", PoppedValues(keys, key))
    BY <1>1, <1>3 DEF MdPopAll
  <2>2. /\ ItemsOf(keys') = MultiDictSpec!Without(ItemsOf(keys),
                              MultiDictSpec!PositionsOf(ItemsOf(keys), key))
        /\ Identified(keys')
    BY <2>1, DeleteKeyListed DEF BetweenCalls
  <2>3. PoppedValues(keys, key) = MultiDictSpec!ValuesOf(ItemsOf(keys), key)
    BY PoppedListed DEF BetweenCalls
  <2>4. MultiDictSpec!Has(ItemsOf(keys), key)
    BY <1>3, SearchInList DEF BetweenCalls
  <2>5. MultiDictSpec!PopAll(key)
    BY <2>1, <2>2, <2>3, <2>4, CallList DEF MultiDictSpec!PopAll, MultiDictSpec!Return, Return
  <2> QED
    BY <2>2, <2>5
<1> QED
  BY <1>2, <1>3

\* Every call that is one step.
LEMMA CallListed ==
  ASSUME BetweenCalls, Call
  PROVE  MultiDictSpec!Call /\ Identified(keys')
<1>1. ASSUME NEW key \in Keys, NEW value \in Values,
             MdAdd(key, value) \/ MdSetDefault(key, value) \/ MdReplace(key, value)
      PROVE  MultiDictSpec!Call /\ Identified(keys')
  BY <1>1, AddListed, SetDefaultListed, ReplaceListed DEF MultiDictSpec!Call
<1>2. ASSUME NEW key \in Keys, MdDel(key) \/ MdPopOne(key) \/ MdPopAll(key)
      PROVE  MultiDictSpec!Call /\ Identified(keys')
  BY <1>2, DelListed, PopOneListed, PopAllListed DEF MultiDictSpec!Call
<1>3. CASE MdPopItem \/ MdClear \/ OutOfMemory
  BY <1>3, PopItemListed, ClearListed, OutOfMemoryListed DEF MultiDictSpec!Call
<1> QED
  BY <1>1, <1>2, <1>3 DEF Call

-----------------------------------------------------------------------------
(* The lists of a bulk call.                                               *)

\* The positions of an identity in a list of items.
Own(list, id) == {n \in DOMAIN list : MultiDictSpec!Id(list[n]) = id}

\* The ranks of the items of an identity count them.
LEMMA OwnInOrder ==
  ASSUME NEW n \in Nat, NEW list, DOMAIN list = 1..n, NEW id, NEW own, own = Own(list, id)
  PROVE  /\ own \in SUBSET (1..n) /\ Cardinality(own) \in Nat
         /\ \A k \in own : MultiDictSpec!Rank(list, k) \in 1..Cardinality(own)
         /\ \A r \in 1..Cardinality(own) : \E k \in own : MultiDictSpec!Rank(list, k) = r
         /\ \A j, k \in own :
              /\ MultiDictSpec!Rank(list, j) < MultiDictSpec!Rank(list, k) => j < k
              /\ MultiDictSpec!Rank(list, j) = MultiDictSpec!Rank(list, k) => j = k
<1>1. \A k : k \in own <=> k \in 1..n /\ MultiDictSpec!Id(list[k]) = id
  BY DEF Own
<1>2. PICK S \in SUBSET (0..n) : S = own
  BY <1>1
<1>3. /\ Cardinality(S) \in Nat
      /\ \A r \in 1..Cardinality(S) : Nth(S, r) \in S /\ Rank(S, Nth(S, r)) = r
      /\ \A i \in S : Rank(S, i) \in 1..Cardinality(S) /\ Nth(S, Rank(S, i)) = i
      /\ \A j, k \in 1..Cardinality(S) : j < k => Nth(S, j) < Nth(S, k)
  BY InOrder
<1>4. ASSUME NEW k \in S PROVE MultiDictSpec!Rank(list, k) = Rank(S, k)
  <2>1. \A m : m \in 1..k /\ MultiDictSpec!Id(list[m]) = MultiDictSpec!Id(list[k])
                 <=> m \in S /\ m <= k
    BY <1>1, <1>2
  <2>2. {m \in 1..k : MultiDictSpec!Id(list[m]) = MultiDictSpec!Id(list[k])}
          = {m \in S : m <= k}
    BY <2>1
  <2>3. MultiDictSpec!Rank(list, k) = MultiDictSpec!Cardinality({m \in S : m <= k})
    BY <2>2 DEF MultiDictSpec!Rank
  <2> QED
    BY <2>3, SameCount DEF Rank
<1>5. \A k \in S : MultiDictSpec!Rank(list, k) \in 1..Cardinality(S)
  BY <1>3, <1>4
<1>6. \A r \in 1..Cardinality(S) : \E k \in S : MultiDictSpec!Rank(list, k) = r
  BY <1>3, <1>4
<1>7. ASSUME NEW j \in S, NEW k \in S
      PROVE  /\ MultiDictSpec!Rank(list, j) < MultiDictSpec!Rank(list, k) => j < k
             /\ MultiDictSpec!Rank(list, j) = MultiDictSpec!Rank(list, k) => j = k
  BY <1>3, <1>4
<1> QED
  BY <1>1, <1>2, <1>3, <1>5, <1>6, <1>7

\* One argument more ranks after those of its identity.
OneMore(more, args, n, item, c) ==
  /\ DOMAIN args = 1..n /\ DOMAIN more = 1..(n + 1) /\ more \in Seq(ItemType)
  /\ \A m \in 1..n : /\ more[m] = args[m]
                     /\ MultiDictSpec!Rank(more, m) = MultiDictSpec!Rank(args, m)
  /\ more[n + 1] = item
  /\ c \in Nat
  /\ MultiDictSpec!Rank(more, n + 1) = c + 1

LEMMA OneMoreArgument ==
  ASSUME NEW args \in Seq(ItemType), NEW item \in ItemType
  PROVE  OneMore(Append(args, item), args, Len(args), item,
                 Cardinality(Own(args, MultiDictSpec!Id(item))))
<1> DEFINE id == MultiDictSpec!Id(item)
           more == Append(args, item)
<1>0. PICK n \in Nat : n = Len(args)
  OBVIOUS
<1>1. /\ DOMAIN args = 1..n /\ DOMAIN more = 1..(n + 1) /\ more \in Seq(ItemType)
      /\ \A m \in 1..n : more[m] = args[m]
      /\ more[n + 1] = item
  BY <1>0
<1>2. ASSUME NEW m \in 1..n
      PROVE  MultiDictSpec!Rank(more, m) = MultiDictSpec!Rank(args, m)
  <2>1. \A k \in 1..m : more[k] = args[k]
    BY <1>1
  <2>2. {k \in 1..m : MultiDictSpec!Id(more[k]) = MultiDictSpec!Id(more[m])}
          = {k \in 1..m : MultiDictSpec!Id(args[k]) = MultiDictSpec!Id(args[m])}
    BY <1>1, <2>1
  <2> QED
    BY <2>2 DEF MultiDictSpec!Rank
<1>3. PICK S \in SUBSET (0..n) : S = Own(args, id)
  <2>1. \A k \in Own(args, id) : k \in 0..n
    BY <1>1 DEF Own
  <2> QED
    BY <2>1
<1>4. PICK x \in Nat : x = n + 1
  OBVIOUS
<1>5. Cardinality(S) \in Nat /\ Cardinality(S \cup {x}) = Cardinality(S) + 1
  <2>1. \A i \in S : i < x
    BY <1>4
  <2> QED
    BY <2>1, OneMoreInOrder
<1>6. \A k : k \in 1..x /\ MultiDictSpec!Id(more[k]) = MultiDictSpec!Id(more[x])
               <=> k \in S \cup {x}
  <2>1. \A k : k \in S <=> k \in 1..n /\ MultiDictSpec!Id(args[k]) = id
    BY <1>1, <1>3 DEF Own
  <2>2. MultiDictSpec!Id(more[x]) = id
    BY <1>1, <1>4 DEF id
  <2>3. \A k : k \in 1..x <=> k \in 1..n \/ k = x
    BY <1>4
  <2>4. \A k \in 1..n : MultiDictSpec!Id(more[k]) = MultiDictSpec!Id(args[k])
    BY <1>1
  <2> QED
    BY <2>1, <2>2, <2>3, <2>4
<1>7. {k \in 1..x : MultiDictSpec!Id(more[k]) = MultiDictSpec!Id(more[x])} = S \cup {x}
  BY <1>6
<1>8. MultiDictSpec!Rank(more, x) = Cardinality(S) + 1
  <2>1. MultiDictSpec!Rank(more, x) = MultiDictSpec!Cardinality(S \cup {x})
    BY <1>7 DEF MultiDictSpec!Rank
  <2> QED
    BY <1>5, <2>1, SameCount
<1>9. OneMore(more, args, n, item, Cardinality(Own(args, id)))
  BY <1>1, <1>2, <1>3, <1>4, <1>5, <1>8 DEF OneMore
<1> QED
  BY <1>0, <1>9 DEF more, id

\* The entries an update() or merge() has added: marked, and the items of a
\* part of the arguments.
AddedTail(list, b, args, X) ==
  /\ Len(list) = b + Cardinality(X)
  /\ \A k \in 1..Cardinality(X) : /\ list[b + k].hash = MARK
                                  /\ ItemOf(list[b + k]) = args[Nth(X, k)]

\* An argument more that is not added leaves them as they are.
LEMMA TailKept ==
  ASSUME NEW args \in Seq(ItemType), NEW item, NEW X \in SUBSET (DOMAIN args),
         NEW list, NEW b \in Nat, AddedTail(list, b, args, X)
  PROVE  AddedTail(list, b, Append(args, item), X)
<1>1. PICK n \in Nat : n = Len(args) /\ DOMAIN args = 1..n
  OBVIOUS
<1>2. X \in SUBSET (0..n)
  BY <1>1
<1>3. \A k \in 1..Cardinality(X) : Nth(X, k) \in X
  BY <1>2, InOrder
<1>4. \A m \in 1..n : Append(args, item)[m] = args[m]
  BY <1>1
<1>5. \A k \in 1..Cardinality(X) : Append(args, item)[Nth(X, k)] = args[Nth(X, k)]
  BY <1>1, <1>3, <1>4
<1> QED
  BY <1>5 DEF AddedTail

\* An addition is one more of them.
LEMMA TailGrows ==
  ASSUME NEW args \in Seq(ItemType), NEW item, NEW X \in SUBSET (DOMAIN args),
         NEW list \in Seq(Entry), NEW b \in Nat, AddedTail(list, b, args, X),
         NEW entry, entry.hash = MARK, ItemOf(entry) = item
  PROVE  AddedTail(Append(list, entry), b, Append(args, item), X \cup {Len(args) + 1})
<1>1. PICK n \in Nat : n = Len(args) /\ DOMAIN args = 1..n
  OBVIOUS
<1>2. X \in SUBSET (0..n)
  BY <1>1
<1>3. PICK x \in Nat : x = n + 1
  OBVIOUS
<1>4. PICK more : more = Append(args, item)
  OBVIOUS
<1>5. PICK longer : longer = Append(list, entry)
  OBVIOUS
<1>6. PICK c : c = Cardinality(X)
  OBVIOUS
<1>7. /\ c \in Nat /\ Cardinality(X \cup {x}) = c + 1
      /\ \A k \in 1..c : Nth(X \cup {x}, k) = Nth(X, k) /\ Nth(X, k) \in X
      /\ Nth(X \cup {x}, c + 1) = x
  <2>1. \A i \in X : i < x
    BY <1>2, <1>3
  <2>2. \A k \in 1..c : Nth(X, k) \in X
    BY <1>2, <1>6, InOrder
  <2>3. /\ Cardinality(X) \in Nat
        /\ Cardinality(X \cup {x}) = Cardinality(X) + 1
        /\ \A k \in 1..Cardinality(X) : Nth(X \cup {x}, k) = Nth(X, k)
        /\ Nth(X \cup {x}, Cardinality(X) + 1) = x
    BY <1>1, <1>2, <2>1, OneMoreInOrder
  <2> QED
    BY <1>6, <2>2, <2>3
<1>8. /\ Len(list) = b + c
      /\ \A k \in 1..c : list[b + k].hash = MARK /\ ItemOf(list[b + k]) = args[Nth(X, k)]
  BY <1>6 DEF AddedTail
<1>9. (\A m \in 1..n : more[m] = args[m]) /\ more[x] = item
  BY <1>1, <1>3, <1>4
<1>10. /\ Len(longer) = b + (c + 1)
       /\ \A m \in 1..(b + c) : longer[m] = list[m]
       /\ longer[b + (c + 1)] = entry
  BY <1>5, <1>7, <1>8
<1>11. \A k \in 1..c : longer[b + k] = list[b + k]
  <2>1. \A k \in 1..c : b + k \in 1..(b + c)
    BY <1>7
  <2> QED
    BY <1>10, <2>1
<1>12. ASSUME NEW k \in 1..(c + 1)
       PROVE  longer[b + k].hash = MARK /\ ItemOf(longer[b + k]) = more[Nth(X \cup {x}, k)]
  <2>1. CASE k = c + 1
    BY <1>7, <1>9, <1>10, <2>1
  <2>2. CASE k \in 1..c
    BY <1>1, <1>7, <1>8, <1>9, <1>11, <2>2
  <2> QED
    BY <1>7, <2>1, <2>2
<1> QED
  BY <1>1, <1>3, <1>4, <1>5, <1>7, <1>10, <1>12 DEF AddedTail

\* The entries a merge() found stay as they are.
MergeHead(list, base) ==
  \A n \in DOMAIN base : /\ list[n].hash # MARK
                         /\ list[n].identity = MultiDictSpec!Id(base[n])
                         /\ ItemOf(list[n]) = base[n]

\* Those an update() found are taken in order, each by an argument of its
\* identity; once an identity has been met, the others of it are half deleted.
UpdateHead(list, base, args) ==
  \A n \in DOMAIN base :
    /\ list[n].identity = MultiDictSpec!Id(base[n])
    /\ \A m \in MultiDictSpec!TakerOf(base, args, n) :
         list[n].hash = MARK /\ ItemOf(list[n]) = args[m]
    /\ MultiDictSpec!TakerOf(base, args, n) = {} =>
         /\ list[n].hash # MARK
         /\ MultiDictSpec!Has(args, base[n].key) => list[n].key = NULL
         /\ ~ MultiDictSpec!Has(args, base[n].key) => ItemOf(list[n]) = base[n]

\* How far a bulk call has come: which entries are there for the items it
\* began with and the arguments it has taken.
Progress(op, list, base, args) ==
  /\ op = "extend" => ListItems(list) = base \o args
  /\ op = "update" => /\ UpdateHead(list, base, args)
                      /\ AddedTail(list, Len(base), args, MultiDictSpec!Extra(base, args))
  /\ op = "merge" => /\ MergeHead(list, base)
                     /\ AddedTail(list, Len(base), args, MultiDictSpec!Lacking(base, args))

\* What md_update does to the list for an argument whose identity it finds, or
\* does not.
Updates(new, list, places, item, entry) ==
  \/ /\ places # {}
     /\ Len(new) = Len(list)
     /\ new[Min(places)].hash = MARK /\ ItemOf(new[Min(places)]) = item
     /\ \A n \in places : new[n].identity = list[n].identity
     /\ \A n \in places \ {Min(places)} : new[n].hash = list[n].hash /\ new[n].key = NULL
     /\ \A n \in DOMAIN list \ places : new[n] = list[n]
  \/ /\ places = {}
     /\ new = Append(list, entry) /\ entry.hash = MARK /\ ItemOf(entry) = item

\* How one argument more changes who takes what: it takes the next item of its
\* identity, or is left over.
MoreTakers(base, args, more, id, c, d, x) ==
  /\ c \in Nat /\ d \in Nat
  /\ \A n \in DOMAIN base :
       /\ MultiDictSpec!TakerOf(base, more, n)
            = MultiDictSpec!TakerOf(base, args, n)
              \cup {m \in {x} : /\ MultiDictSpec!Id(base[n]) = id
                                /\ MultiDictSpec!Rank(base, n) = c + 1}
       /\ MultiDictSpec!Has(more, base[n].key)
            <=> \/ MultiDictSpec!Has(args, base[n].key)
                \/ MultiDictSpec!Id(base[n]) = id
       /\ MultiDictSpec!Id(base[n]) = id =>
            (MultiDictSpec!TakerOf(base, args, n) = {}
               <=> MultiDictSpec!Rank(base, n) > c)
  /\ MultiDictSpec!Extra(base, args) \in SUBSET (DOMAIN args)
  /\ MultiDictSpec!Extra(base, more)
       = MultiDictSpec!Extra(base, args) \cup {m \in {x} : c + 1 > d}

LEMMA TakersOfMore ==
  ASSUME NEW base \in Seq(ItemType), NEW args \in Seq(ItemType), NEW item \in ItemType
  PROVE  MoreTakers(base, args, Append(args, item), MultiDictSpec!Id(item),
                    Cardinality(Own(args, MultiDictSpec!Id(item))),
                    Cardinality(Own(base, MultiDictSpec!Id(item))), Len(args) + 1)
<1>a. PICK more : more = Append(args, item)
  OBVIOUS
<1>b. PICK id : id = MultiDictSpec!Id(item)
  OBVIOUS
<1>c. PICK c : c = Cardinality(Own(args, id))
  OBVIOUS
<1>d. PICK d : d = Cardinality(Own(base, id))
  OBVIOUS
<1>e. PICK x : x = Len(args) + 1
  OBVIOUS
<1>1. PICK n \in Nat : n = Len(args)
  OBVIOUS
<1>2. /\ DOMAIN args = 1..n /\ DOMAIN more = 1..(n + 1) /\ x = n + 1
      /\ \A m \in 1..n : /\ more[m] = args[m]
                         /\ MultiDictSpec!Rank(more, m) = MultiDictSpec!Rank(args, m)
      /\ more[x] = item /\ c \in Nat /\ MultiDictSpec!Rank(more, x) = c + 1
  <2>1. OneMore(more, args, n, item, c)
    BY <1>a, <1>b, <1>c, <1>1, OneMoreArgument
  <2>2. x = n + 1
    BY <1>e, <1>1
  <2> QED
    BY <2>1, <2>2 DEF OneMore
<1>3. \A m : m \in 1..(n + 1) <=> m \in 1..n \/ m = x
  BY <1>2
<1>4. d \in Nat
  <2>1. PICK b \in Nat : b = Len(base) /\ DOMAIN base = 1..b
    OBVIOUS
  <2> QED
    BY <1>d, <2>1, OwnInOrder
<1>5. ASSUME NEW k \in DOMAIN base
      PROVE  MultiDictSpec!TakerOf(base, more, k)
               = MultiDictSpec!TakerOf(base, args, k)
                 \cup {m \in {x} : /\ MultiDictSpec!Id(base[k]) = id
                                   /\ MultiDictSpec!Rank(base, k) = c + 1}
  <2>1. \A m : m \in MultiDictSpec!TakerOf(base, more, k) <=>
          /\ m \in 1..(n + 1) /\ MultiDictSpec!Id(more[m]) = MultiDictSpec!Id(base[k])
          /\ MultiDictSpec!Rank(more, m) = MultiDictSpec!Rank(base, k)
    BY <1>2 DEF MultiDictSpec!TakerOf
  <2>2. \A m : m \in MultiDictSpec!TakerOf(base, args, k) <=>
          /\ m \in 1..n /\ MultiDictSpec!Id(args[m]) = MultiDictSpec!Id(base[k])
          /\ MultiDictSpec!Rank(args, m) = MultiDictSpec!Rank(base, k)
    BY <1>2 DEF MultiDictSpec!TakerOf
  <2>3. \A m \in 1..n : m \in MultiDictSpec!TakerOf(base, more, k)
                          <=> m \in MultiDictSpec!TakerOf(base, args, k)
    BY <1>2, <1>3, <1>b, <2>1, <2>2
  <2>4. x \in MultiDictSpec!TakerOf(base, more, k)
          <=> MultiDictSpec!Id(base[k]) = id /\ MultiDictSpec!Rank(base, k) = c + 1
    BY <1>2, <1>3, <1>b, <2>1
  <2>5. x \notin 1..n
    BY <1>2
  <2> QED
    BY <1>3, <2>1, <2>2, <2>3, <2>4, <2>5
<1>6. ASSUME NEW k \in DOMAIN base
      PROVE  MultiDictSpec!Has(more, base[k].key)
               <=> \/ MultiDictSpec!Has(args, base[k].key)
                   \/ MultiDictSpec!Id(base[k]) = id
  <2>1. MultiDictSpec!Has(more, base[k].key)
          <=> \E m \in 1..(n + 1) : MultiDictSpec!Id(more[m]) = MultiDictSpec!Id(base[k])
    BY <1>2 DEF MultiDictSpec!Has, MultiDictSpec!Id
  <2>2. MultiDictSpec!Has(args, base[k].key)
          <=> \E m \in 1..n : MultiDictSpec!Id(args[m]) = MultiDictSpec!Id(base[k])
    BY <1>2 DEF MultiDictSpec!Has, MultiDictSpec!Id
  <2> QED
    BY <1>2, <1>3, <1>b, <2>1, <2>2
<1>7. ASSUME NEW k \in DOMAIN base, MultiDictSpec!Id(base[k]) = id
      PROVE  MultiDictSpec!TakerOf(base, args, k) = {} <=> MultiDictSpec!Rank(base, k) > c
  <2>1. PICK b \in Nat : b = Len(base) /\ DOMAIN base = 1..b
    OBVIOUS
  <2>2. MultiDictSpec!Rank(base, k) \in 1..d
    <3>1. k \in Own(base, id)
      BY <1>7 DEF Own
    <3> QED
      BY <1>d, <2>1, <3>1, OwnInOrder
  <2>3. /\ \A m \in Own(args, id) : MultiDictSpec!Rank(args, m) \in 1..c
        /\ \A r \in 1..c : \E m \in Own(args, id) : MultiDictSpec!Rank(args, m) = r
    BY <1>2, <1>c, OwnInOrder
  <2>4. \A m : m \in MultiDictSpec!TakerOf(base, args, k)
                 <=> m \in Own(args, id) /\ MultiDictSpec!Rank(args, m) = MultiDictSpec!Rank(base, k)
    BY <1>7 DEF MultiDictSpec!TakerOf, Own
  <2>5. CASE MultiDictSpec!Rank(base, k) > c
    <3>1. ~ (MultiDictSpec!Rank(base, k) \in 1..c)
      BY <1>2, <1>4, <2>2, <2>5
    <3> QED
      BY <2>3, <2>4, <2>5, <3>1
  <2>6. CASE ~ (MultiDictSpec!Rank(base, k) > c)
    <3>1. MultiDictSpec!Rank(base, k) \in 1..c
      BY <1>2, <1>4, <2>2, <2>6
    <3> QED
      BY <2>3, <2>4, <2>6, <3>1
  <2> QED
    BY <2>5, <2>6
<1> DEFINE over(m, list) == MultiDictSpec!Rank(list, m)
                              > MultiDictSpec!Cardinality(MultiDictSpec!PositionsOf(base, list[m].key))
<1>8. /\ \A m : m \in MultiDictSpec!Extra(base, more) <=> m \in 1..(n + 1) /\ over(m, more)
      /\ \A m : m \in MultiDictSpec!Extra(base, args) <=> m \in 1..n /\ over(m, args)
  BY <1>2 DEF MultiDictSpec!Extra
<1>9. \A m \in 1..n : over(m, more) <=> over(m, args)
  BY <1>2
<1>10. over(x, more) <=> c + 1 > d
  <2>1. MultiDictSpec!PositionsOf(base, item.key) = Own(base, id)
    BY <1>b DEF MultiDictSpec!PositionsOf, MultiDictSpec!Id, Own
  <2> QED
    BY <1>2, <1>d, <2>1, SameCount
<1> HIDE DEF over
<1>11. MultiDictSpec!Extra(base, more)
         = MultiDictSpec!Extra(base, args) \cup {m \in {x} : c + 1 > d}
  <2>1. x \notin 1..n
    BY <1>2
  <2>2. \A m : m \in MultiDictSpec!Extra(base, more)
           <=> m \in MultiDictSpec!Extra(base, args) \/ (m = x /\ c + 1 > d)
    BY <1>3, <1>8, <1>9, <1>10, <2>1
  <2> QED
    BY <2>2
<1>12. MultiDictSpec!Extra(base, args) \in SUBSET (DOMAIN args)
  BY <1>2, <1>8
<1>13. MoreTakers(base, args, more, id, c, d, x)
  BY <1>2, <1>4, <1>5, <1>6, <1>7, <1>11, <1>12 DEF MoreTakers
<1> QED
  BY <1>a, <1>b, <1>c, <1>d, <1>e, <1>13

\* A search sees the items that no argument has taken.
LEMMA UpdatePlaces ==
  ASSUME NEW base \in Seq(ItemType), NEW args \in Seq(ItemType), NEW list \in Seq(Entry),
         Progress("update", list, base, args), NEW id, NEW n
  PROVE  /\ n \in VisiblePlaces(list, id)
              <=> /\ n \in DOMAIN base /\ MultiDictSpec!Id(base[n]) = id
                  /\ MultiDictSpec!TakerOf(base, args, n) = {}
         /\ DOMAIN base \subseteq DOMAIN list
<1>1. PICK b \in Nat : b = Len(base) /\ DOMAIN base = 1..b
  OBVIOUS
<1>2. PICK X : X = MultiDictSpec!Extra(base, args)
  OBVIOUS
<1>3. PICK c \in Nat : c = Cardinality(X)
  <2>1. DOMAIN args = 1..Len(args) /\ Len(args) \in Nat
    OBVIOUS
  <2>2. X \in SUBSET (0..Len(args))
    BY <1>2, <2>1 DEF MultiDictSpec!Extra
  <2> QED
    BY <2>1, <2>2, InOrder
<1>4. UpdateHead(list, base, args) /\ AddedTail(list, b, args, X)
  BY <1>1, <1>2 DEF Progress
<1>5. /\ DOMAIN list = 1..(b + c)
      /\ \A k \in 1..c : list[b + k].hash = MARK
  BY <1>3, <1>4 DEF AddedTail
<1>6. \A k \in 1..b : /\ list[k].identity = MultiDictSpec!Id(base[k])
                      /\ list[k].hash # MARK <=> MultiDictSpec!TakerOf(base, args, k) = {}
  <2> SUFFICES ASSUME NEW k \in 1..b
               PROVE  /\ list[k].identity = MultiDictSpec!Id(base[k])
                      /\ list[k].hash # MARK <=> MultiDictSpec!TakerOf(base, args, k) = {}
    OBVIOUS
  <2>1. CASE MultiDictSpec!TakerOf(base, args, k) = {}
    BY <1>1, <1>4, <2>1 DEF UpdateHead
  <2>2. ASSUME NEW m \in MultiDictSpec!TakerOf(base, args, k)
        PROVE  /\ list[k].identity = MultiDictSpec!Id(base[k])
               /\ list[k].hash = MARK
    BY <1>1, <1>4, <2>2 DEF UpdateHead
  <2> QED
    BY <2>1, <2>2
<1>7. ASSUME n \in 1..(b + c), ~ (n \in 1..b) PROVE list[n].hash = MARK
  <2>1. PICK k \in 1..c : n = b + k
    <3>1. n - b \in 1..c /\ n = b + (n - b)
      BY <1>7
    <3> QED
      BY <3>1
  <2> QED
    BY <1>5, <2>1
<1>8. n \in 1..b => n \in 1..(b + c)
  OBVIOUS
<1>9. \A k \in 1..b : k \in 1..(b + c)
  OBVIOUS
<1> QED
  BY <1>1, <1>5, <1>6, <1>7, <1>8, <1>9 DEF VisiblePlaces

\* update() advances as the list prescribes.
LEMMA UpdateAdvances ==
  ASSUME NEW base \in Seq(ItemType), NEW args \in Seq(ItemType), NEW list \in Seq(Entry),
         NEW item \in ItemType, Progress("update", list, base, args), NEW new, NEW entry,
         Updates(new, list, VisiblePlaces(list, MultiDictSpec!Id(item)), item, entry)
  PROVE  Progress("update", new, base, Append(args, item))
<1>1. PICK id : id = MultiDictSpec!Id(item)
  OBVIOUS
<1>2. PICK places : places = VisiblePlaces(list, id)
  OBVIOUS
<1>3. PICK more : more = Append(args, item)
  OBVIOUS
<1>4. PICK x : x = Len(args) + 1
  OBVIOUS
<1>5. PICK c : c = Cardinality(Own(args, id))
  OBVIOUS
<1>6. PICK d : d = Cardinality(Own(base, id))
  OBVIOUS
<1>7. PICK b \in Nat : b = Len(base) /\ DOMAIN base = 1..b
  OBVIOUS
<1> DEFINE taker(n) == MultiDictSpec!TakerOf(base, args, n)
           taker2(n) == MultiDictSpec!TakerOf(base, more, n)
           rank(n) == MultiDictSpec!Rank(base, n)
           same(n) == MultiDictSpec!Id(base[n]) = id
           X == MultiDictSpec!Extra(base, args)
           X2 == MultiDictSpec!Extra(base, more)
<1>8. /\ c \in Nat /\ d \in Nat
      /\ \A n \in 1..b :
           /\ taker2(n) = taker(n) \cup {m \in {x} : same(n) /\ rank(n) = c + 1}
           /\ MultiDictSpec!Has(more, base[n].key)
                <=> MultiDictSpec!Has(args, base[n].key) \/ same(n)
           /\ same(n) => (taker(n) = {} <=> rank(n) > c)
      /\ X \in SUBSET (DOMAIN args) /\ X2 = X \cup {m \in {x} : c + 1 > d}
  <2>1. MoreTakers(base, args, more, id, c, d, x)
    BY <1>1, <1>3, <1>4, <1>5, <1>6, TakersOfMore
  <2> QED
    BY <1>7, <2>1 DEF MoreTakers
<1>9. /\ \A n : n \in places <=> n \in 1..b /\ same(n) /\ taker(n) = {}
      /\ \A n \in 1..b : n \in DOMAIN list
  BY <1>1, <1>2, <1>7, UpdatePlaces
<1>10. UpdateHead(list, base, args) /\ AddedTail(list, b, args, X)
  BY <1>7 DEF Progress
<1>11. /\ \A n \in 1..b : same(n) => rank(n) \in 1..d
       /\ \A r \in 1..d : \E n \in 1..b : same(n) /\ rank(n) = r
       /\ \A j, k \in 1..b : same(j) /\ same(k) => /\ rank(j) < rank(k) => j < k
                                                   /\ rank(j) = rank(k) => j = k
  <2>1. PICK own : own = Own(base, id)
    OBVIOUS
  <2>2. /\ \A k \in own : rank(k) \in 1..d
        /\ \A r \in 1..d : \E k \in own : rank(k) = r
        /\ \A j, k \in own : /\ rank(j) < rank(k) => j < k
                             /\ rank(j) = rank(k) => j = k
    BY <1>6, <1>7, <2>1, OwnInOrder
  <2>3. \A k : k \in own <=> k \in 1..b /\ same(k)
    BY <1>7, <2>1 DEF Own
  <2> HIDE DEF rank, same
  <2> QED
    BY <2>2, <2>3
<1>12. \A m \in DOMAIN args : more[m] = args[m]
  BY <1>3
<1>13. more[x] = item /\ x \notin DOMAIN args /\ x = Len(args) + 1
  BY <1>3, <1>4
<1>14. \A n \in 1..b : taker(n) \subseteq DOMAIN args
  BY DEF MultiDictSpec!TakerOf
<1>15. \A n \in 1..b :
         /\ list[n].identity = MultiDictSpec!Id(base[n])
         /\ \A m \in taker(n) : list[n].hash = MARK /\ ItemOf(list[n]) = args[m]
         /\ taker(n) = {} =>
              /\ list[n].hash # MARK
              /\ MultiDictSpec!Has(args, base[n].key) => list[n].key = NULL
              /\ ~ MultiDictSpec!Has(args, base[n].key) => ItemOf(list[n]) = base[n]
  BY <1>7, <1>10 DEF UpdateHead
<1>16. Updates(new, list, places, item, entry)
  BY <1>1, <1>2
<1> DEFINE Taken(n) ==
      /\ new[n].identity = MultiDictSpec!Id(base[n])
      /\ \A m \in taker2(n) : new[n].hash = MARK /\ ItemOf(new[n]) = more[m]
      /\ taker2(n) = {} =>
           /\ new[n].hash # MARK
           /\ MultiDictSpec!Has(more, base[n].key) => new[n].key = NULL
           /\ ~ MultiDictSpec!Has(more, base[n].key) => ItemOf(new[n]) = base[n]
<1>17. ASSUME NEW n \in 1..b, new[n] = list[n], taker2(n) = taker(n),
              same(n) => taker(n) # {}
       PROVE  Taken(n)
  <2> HIDE DEF taker, taker2, same
  <2>1. \A m \in taker2(n) : new[n].hash = MARK /\ ItemOf(new[n]) = more[m]
    BY <1>12, <1>14, <1>15, <1>17
  <2>2. ASSUME taker2(n) = {}
        PROVE  MultiDictSpec!Has(more, base[n].key) <=> MultiDictSpec!Has(args, base[n].key)
    BY <1>8, <1>17, <2>2
  <2> QED
    BY <1>15, <1>17, <2>1, <2>2
<1> HIDE DEF taker, taker2, rank, same, X, X2
<1>18. CASE places # {}
  <2> DEFINE f == Min(places)
  <2>1. f \in places /\ \A n \in places : f <= n
    <3>1. places \in SUBSET Nat
      BY <1>9
    <3> QED
      BY <1>18, <3>1, MinOfNaturals
  <2>2. /\ Len(new) = Len(list)
        /\ new[f].hash = MARK /\ ItemOf(new[f]) = item
        /\ \A n \in places : new[n].identity = list[n].identity
        /\ \A n \in places \ {f} : new[n].hash = list[n].hash /\ new[n].key = NULL
        /\ \A n \in DOMAIN list \ places : new[n] = list[n]
    BY <1>16, <1>18 DEF Updates
  <2> HIDE DEF f
  <2>3. f \in 1..b /\ same(f) /\ taker(f) = {} /\ rank(f) > c /\ rank(f) \in 1..d
    BY <1>8, <1>9, <1>11, <2>1
  <2>4. d >= c + 1 /\ c + 1 \in 1..d
    BY <1>8, <2>3
  <2>5. PICK p \in 1..b : same(p) /\ rank(p) = c + 1
    BY <1>11, <2>4
  <2>6. p \in places
    <3>1. rank(p) > c
      BY <1>8, <2>5
    <3> QED
      BY <1>8, <1>9, <2>5, <3>1
  <2>7. rank(f) = c + 1 /\ p = f
    <3>1. f <= p
      BY <2>1, <2>6
    <3>2. ~ (rank(p) < rank(f))
      <4>1. rank(p) < rank(f) => p < f
        BY <1>11, <2>3, <2>5
      <4> QED
        BY <2>3, <2>5, <3>1, <4>1
    <3>3. rank(f) = c + 1
      BY <1>8, <2>3, <2>5, <3>2
    <3> QED
      BY <1>11, <2>3, <2>5, <3>3
  <2>8. X2 = X
    BY <1>8, <2>4
  <2>9. taker2(f) = {x}
    BY <1>8, <2>3, <2>7
  <2>10. \A n \in 1..b : n # f => taker2(n) = taker(n)
    <3>1. ASSUME NEW n \in 1..b, n # f PROVE taker2(n) = taker(n)
      <4>1. ~ (same(n) /\ rank(n) = c + 1)
        BY <1>11, <2>3, <2>7, <3>1
      <4> QED
        BY <1>8, <4>1
    <3> QED
      BY <3>1
  <2>11. ASSUME NEW n \in 1..b PROVE Taken(n)
    <3>1. CASE n = f
      <4>1. new[n].identity = MultiDictSpec!Id(base[n])
        BY <1>15, <2>1, <2>2, <3>1
      <4> QED
        BY <1>13, <2>2, <2>9, <3>1, <4>1
    <3>2. CASE n # f /\ n \in places
      <4>1. taker2(n) = {} /\ same(n)
        BY <1>9, <2>10, <3>2
      <4>2. new[n].hash # MARK /\ new[n].key = NULL
        BY <1>9, <1>15, <2>2, <3>2
      <4>3. MultiDictSpec!Has(more, base[n].key)
        BY <1>8, <4>1
      <4>4. new[n].identity = MultiDictSpec!Id(base[n])
        BY <1>15, <2>2, <3>2
      <4> QED
        BY <4>1, <4>2, <4>3, <4>4
    <3>3. CASE n \notin places
      <4>1. n # f /\ taker2(n) = taker(n) /\ new[n] = list[n]
        BY <1>9, <2>1, <2>2, <2>10, <3>3
      <4>2. same(n) => taker(n) # {}
        BY <1>9, <3>3
      <4> QED
        BY <1>17, <4>1, <4>2
    <3> QED
      BY <3>1, <3>2, <3>3
  <2>12. AddedTail(new, b, more, X)
    <3>1. AddedTail(list, b, more, X)
      BY <1>3, <1>8, <1>10, TailKept
    <3>2. PICK e \in Nat : e = Cardinality(X)
      <4>1. DOMAIN args = 1..Len(args) /\ Len(args) \in Nat
        OBVIOUS
      <4>2. X \in SUBSET (0..Len(args))
        BY <1>8, <4>1
      <4> QED
        BY <4>1, <4>2, InOrder
    <3>3. \A k \in 1..e : b + k \in DOMAIN list \ places
      <4>1. DOMAIN list = 1..(b + e)
        BY <1>10, <3>2 DEF AddedTail
      <4> QED
        BY <1>9, <4>1
    <3>4. \A k \in 1..e : new[b + k] = list[b + k]
      BY <2>2, <3>3
    <3> QED
      BY <2>2, <3>1, <3>2, <3>4 DEF AddedTail
  <2>13. UpdateHead(new, base, more)
    BY <1>7, <2>11 DEF UpdateHead, taker2
  <2> QED
    BY <1>3, <1>7, <2>8, <2>12, <2>13 DEF Progress, X2
<1>19. CASE places = {}
  <2>1. new = Append(list, entry) /\ entry.hash = MARK /\ ItemOf(entry) = item
    BY <1>16, <1>19 DEF Updates
  <2>2. \A n \in 1..b : same(n) => taker(n) # {} /\ ~ (rank(n) > c)
    BY <1>8, <1>9, <1>19
  <2>3. c + 1 > d
    <3> SUFFICES ASSUME ~ (c + 1 > d) PROVE FALSE
      OBVIOUS
    <3>1. c + 1 \in 1..d
      BY <1>8
    <3>2. PICK p \in 1..b : same(p) /\ rank(p) = c + 1
      BY <1>11, <3>1
    <3> QED
      BY <1>8, <2>2, <3>2
  <2>4. X2 = X \cup {x}
    BY <1>8, <2>3
  <2>5. \A n \in 1..b : taker2(n) = taker(n)
    <3>1. ASSUME NEW n \in 1..b PROVE taker2(n) = taker(n)
      <4>1. ~ (same(n) /\ rank(n) = c + 1)
        BY <1>8, <2>2
      <4> QED
        BY <1>8, <4>1
    <3> QED
      BY <3>1
  <2>6. \A n \in 1..b : new[n] = list[n]
    BY <1>9, <2>1
  <2>7. UpdateHead(new, base, more)
    <3>1. \A n \in 1..b : Taken(n)
      BY <1>17, <2>2, <2>5, <2>6
    <3> QED
      BY <1>7, <3>1 DEF UpdateHead, taker2
  <2>8. AddedTail(new, b, more, X2)
    <3>1. AddedTail(new, b, more, X \cup {Len(args) + 1})
      BY <1>3, <1>8, <1>10, <2>1, TailGrows
    <3> QED
      BY <1>4, <2>4, <3>1
  <2> QED
    BY <1>3, <1>7, <2>7, <2>8 DEF Progress, X2
<1> QED
  BY <1>18, <1>19

\* What md_update with its op Merge does to the list: an item of an identity
\* it finds is passed over.
Merges(new, list, places, item, entry) ==
  \/ places # {} /\ new = list
  \/ /\ places = {}
     /\ new = Append(list, entry) /\ entry.hash = MARK /\ ItemOf(entry) = item

\* A merge() sees the items it began with, and none that it has added.
LEMMA MergePlaces ==
  ASSUME NEW base \in Seq(ItemType), NEW args \in Seq(ItemType), NEW list \in Seq(Entry),
         Progress("merge", list, base, args), NEW id, NEW n
  PROVE  /\ n \in VisiblePlaces(list, id)
              <=> n \in DOMAIN base /\ MultiDictSpec!Id(base[n]) = id
         /\ DOMAIN base \subseteq DOMAIN list
<1>1. PICK b \in Nat : b = Len(base) /\ DOMAIN base = 1..b
  OBVIOUS
<1>2. PICK X : X = MultiDictSpec!Lacking(base, args)
  OBVIOUS
<1>3. PICK c \in Nat : c = Cardinality(X)
  <2>1. DOMAIN args = 1..Len(args) /\ Len(args) \in Nat
    OBVIOUS
  <2>2. X \in SUBSET (0..Len(args))
    BY <1>2, <2>1 DEF MultiDictSpec!Lacking
  <2> QED
    BY <2>1, <2>2, InOrder
<1>4. MergeHead(list, base) /\ AddedTail(list, b, args, X)
  BY <1>1, <1>2 DEF Progress
<1>5. /\ DOMAIN list = 1..(b + c)
      /\ \A k \in 1..c : list[b + k].hash = MARK
  BY <1>3, <1>4 DEF AddedTail
<1>6. \A k \in 1..b : /\ list[k].identity = MultiDictSpec!Id(base[k])
                      /\ list[k].hash # MARK
  BY <1>1, <1>4 DEF MergeHead
<1>7. ASSUME n \in 1..(b + c), ~ (n \in 1..b) PROVE list[n].hash = MARK
  <2>1. PICK k \in 1..c : n = b + k
    <3>1. n - b \in 1..c /\ n = b + (n - b)
      BY <1>7
    <3> QED
      BY <3>1
  <2> QED
    BY <1>5, <2>1
<1>8. \A k \in 1..b : k \in 1..(b + c)
  OBVIOUS
<1> QED
  BY <1>1, <1>5, <1>6, <1>7, <1>8 DEF VisiblePlaces

\* merge() advances as the list prescribes.
LEMMA MergeAdvances ==
  ASSUME NEW base \in Seq(ItemType), NEW args \in Seq(ItemType), NEW list \in Seq(Entry),
         NEW item \in ItemType, Progress("merge", list, base, args), NEW new, NEW entry,
         Merges(new, list, VisiblePlaces(list, MultiDictSpec!Id(item)), item, entry)
  PROVE  Progress("merge", new, base, Append(args, item))
<1>1. PICK id : id = MultiDictSpec!Id(item)
  OBVIOUS
<1>2. PICK places : places = VisiblePlaces(list, id)
  OBVIOUS
<1>3. PICK more : more = Append(args, item)
  OBVIOUS
<1>4. PICK n \in Nat : n = Len(args) /\ DOMAIN args = 1..n
  OBVIOUS
<1>5. PICK x \in Nat : x = n + 1
  OBVIOUS
<1>6. PICK b \in Nat : b = Len(base) /\ DOMAIN base = 1..b
  OBVIOUS
<1> DEFINE X == MultiDictSpec!Lacking(base, args)
           X2 == MultiDictSpec!Lacking(base, more)
<1>7. /\ \A m : m \in X <=> m \in 1..n /\ ~ MultiDictSpec!Has(base, args[m].key)
      /\ \A m : m \in X2 <=> m \in 1..x /\ ~ MultiDictSpec!Has(base, more[m].key)
  <2>1. DOMAIN more = 1..x
    BY <1>3, <1>4, <1>5
  <2> QED
    BY <1>4, <2>1 DEF MultiDictSpec!Lacking
<1>8. \A m : m \in 1..x <=> m \in 1..n \/ m = x
  BY <1>5
<1>9. (\A m \in 1..n : more[m] = args[m]) /\ more[x] = item /\ x \notin 1..n
  BY <1>3, <1>4, <1>5
<1>10. /\ \A k : k \in places <=> k \in 1..b /\ MultiDictSpec!Id(base[k]) = id
       /\ \A k \in 1..b : k \in DOMAIN list
  BY <1>1, <1>2, <1>6, MergePlaces
<1>11. MultiDictSpec!Has(base, item.key) <=> places # {}
  BY <1>1, <1>6, <1>10 DEF MultiDictSpec!Has, MultiDictSpec!Id
<1>12. MergeHead(list, base) /\ AddedTail(list, b, args, X)
  BY <1>6 DEF Progress
<1> HIDE DEF X, X2
<1>13. X \in SUBSET (DOMAIN args)
  BY <1>4, <1>7
<1>14. Merges(new, list, places, item, entry)
  BY <1>1, <1>2
<1>15. CASE places # {}
  <2>1. X2 = X
    BY <1>7, <1>8, <1>9, <1>11, <1>15
  <2>2. new = list
    BY <1>14, <1>15 DEF Merges
  <2>3. AddedTail(list, b, more, X)
    BY <1>3, <1>12, <1>13, TailKept
  <2> QED
    BY <1>3, <1>6, <1>12, <2>1, <2>2, <2>3 DEF Progress, X2
<1>16. CASE places = {}
  <2>1. new = Append(list, entry) /\ entry.hash = MARK /\ ItemOf(entry) = item
    BY <1>14, <1>16 DEF Merges
  <2>2. X2 = X \cup {x}
    BY <1>7, <1>8, <1>9, <1>11, <1>16
  <2>3. AddedTail(new, b, more, X2)
    <3>1. AddedTail(new, b, more, X \cup {Len(args) + 1})
      BY <1>3, <1>12, <1>13, <2>1, TailGrows
    <3> QED
      BY <1>4, <1>5, <2>2, <3>1
  <2>4. MergeHead(new, base)
    <3>1. \A k \in 1..b : new[k] = list[k]
      BY <1>10, <2>1
    <3> QED
      BY <1>6, <1>12, <3>1 DEF MergeHead
  <2> QED
    BY <1>3, <1>6, <2>3, <2>4 DEF Progress, X2
<1> QED
  BY <1>15, <1>16

-----------------------------------------------------------------------------
(* The steps of a bulk call.                                               *)

\* An update() takes the first entry it finds and half deletes the others.
LEMMA TakenList ==
  ASSUME NEW ks, IsSound(ks), IsOrdered(ks), Identified(ks), NEW key \in Keys,
         NEW value \in Values, md_contains(ks, key),
         NEW new, new = ReplaceForUpdate(ks, key, value), NEW entry
  PROVE  /\ Updates(EntryList(new), EntryList(ks),
                    VisiblePlaces(EntryList(ks), IdentityOf[key]),
                    MultiDictSpec!Item(key, value), entry)
         /\ Identified(new)
<1>1. PICK id \in Identities : id = IdentityOf[key]
  BY HashTableAssumption
<1>2. PICK found : found = IndexedBy(ks, MatchingSlots(ks, HashOf[id], id))
  OBVIOUS
<1>3. PICK first : first = ks.indices[FirstMatch(ks, HashOf[id], id)]
  OBVIOUS
<1>4. PICK places : places = VisiblePlaces(EntryList(ks), id)
  OBVIOUS
<1>5. PICK S : S = Live(ks)
  OBVIOUS
<1>6. PICK n \in Nat : n = Cardinality(S)
  BY <1>5, LiveInOrder
<1>7. PICK item : item = MultiDictSpec!Item(key, value)
  OBVIOUS
<1>8. IsSound(new) /\ Live(new) = S /\ TakenForUpdate(new, ks, first, found, key, value)
  BY <1>1, <1>2, <1>3, <1>5, ReplaceForUpdateSound
<1>9. /\ PlacesOf(S, found) = places
      /\ places \in SUBSET (1..n)
      /\ Matches(ks, HashOf[id], id) # {} <=> places # {}
      /\ places # {} =>
           /\ Min(places) \in places
           /\ Nth(S, Min(places)) = first
           /\ PlacesOf(S, {first}) = {Min(places)}
           /\ first \in found
  BY <1>2, <1>3, <1>4, <1>5, <1>6, SearchPlaces
<1>10. places # {}
  BY <1>1, <1>9 DEF md_contains, hash_of
<1>11. PICK f \in places : /\ f = Min(places) /\ Nth(S, f) = first
                           /\ PlacesOf(S, {first}) = {f} /\ first \in found
  BY <1>9, <1>10
<1>12. PICK list : list = EntryList(ks)
  OBVIOUS
<1>13. PICK after : after = EntryList(new)
  OBVIOUS
<1>14. /\ list \in Seq(Entry) /\ Len(list) = n /\ DOMAIN list = 1..n
       /\ after \in Seq(Entry) /\ Len(after) = n
       /\ \A k \in 1..n : list[k].key # NULL =>
                            list[k].identity = IdentityOf[list[k].key]
       /\ Identified(new) <=> \A k \in 1..n : after[k].key # NULL =>
                                after[k].identity = IdentityOf[after[k].key]
  BY <1>5, <1>6, <1>8, <1>12, <1>13, ItemsOfList
<1>15. \A k \in 1..n : /\ list[k] = ks.entries[Nth(S, k)]
                       /\ after[k] = new.entries[Nth(S, k)]
                       /\ Nth(S, k) \in S
  BY <1>5, <1>6, <1>8, <1>12, <1>13, ItemsOfEntries
<1>16. \A k \in 1..n : /\ k \in places <=> Nth(S, k) \in found
                       /\ Nth(S, k) = first <=> k = f
  BY <1>6, <1>9, <1>11 DEF PlacesOf
<1>17. ASSUME NEW k \in 1..n
       PROVE  /\ after[k].identity = list[k].identity
              /\ k = f => /\ after[k].hash = MARK
                          /\ after[k].key = key /\ after[k].value = value
              /\ k \in places \ {f} => /\ after[k].hash = list[k].hash
                                       /\ after[k].key = NULL
              /\ k \notin places => after[k] = list[k]
  BY <1>5, <1>8, <1>15, <1>16 DEF TakenForUpdate
<1>18. Updates(after, list, places, item, entry)
  <2>1. ItemOf(after[f]) = item /\ after[f].hash = MARK
    BY <1>7, <1>9, <1>11, <1>17 DEF ItemOf, MultiDictSpec!Item
  <2> QED
    BY <1>9, <1>10, <1>11, <1>14, <1>17, <2>1 DEF Updates
<1>19. ASSUME NEW k \in 1..n, after[k].key # NULL
       PROVE  after[k].identity = IdentityOf[after[k].key]
  <2>1. CASE k = f
    <3>1. list[k].identity = id
      BY <1>4, <1>11, <1>12, <2>1 DEF VisiblePlaces
    <3> QED
      BY <1>1, <1>17, <2>1, <3>1
  <2>2. CASE k # f
    BY <1>14, <1>17, <1>19, <2>2
  <2> QED
    BY <2>1, <2>2
<1> QED
  BY <1>1, <1>4, <1>7, <1>12, <1>13, <1>14, <1>18, <1>19

\* An update() or merge() adds a marked entry at the end.
LEMMA AddedForUpdate ==
  ASSUME IsSound(keys), Identified(keys), used = Cardinality(Live(keys)),
         NEW key \in Keys, NEW value \in Values, AddForUpdate(key, value)
  PROVE  /\ EntryList(keys') = Append(EntryList(keys), NewEntry(key, value, TRUE))
         /\ NewEntry(key, value, TRUE).hash = MARK
         /\ ItemOf(NewEntry(key, value, TRUE)) = MultiDictSpec!Item(key, value)
         /\ Identified(keys')
<1>1. IsSound(keys') /\ Added(keys', keys, NewEntry(key, value, TRUE))
  BY AddEntrySound DEF AddForUpdate
<1>2. PICK entry : entry = NewEntry(key, value, TRUE)
  OBVIOUS
<1>3. /\ entry.hash = MARK /\ entry.identity = IdentityOf[entry.key]
      /\ ItemOf(entry) = MultiDictSpec!Item(key, value)
  BY <1>2 DEF NewEntry, ItemOf, MultiDictSpec!Item
<1>4. Identified(keys')
  BY <1>1, <1>2, <1>3, AppendedItems
<1> QED
  BY <1>1, <1>2, <1>3, <1>4, AddedList

\* A search for a key succeeds if its identity is at some place.
LEMMA SearchAt ==
  ASSUME NEW ks, IsSound(ks), IsOrdered(ks), NEW key \in Keys
  PROVE  md_contains(ks, key) <=> VisiblePlaces(EntryList(ks), IdentityOf[key]) # {}
<1>1. PICK id \in Identities : id = IdentityOf[key]
  BY HashTableAssumption
<1>2. PICK found : found = IndexedBy(ks, MatchingSlots(ks, HashOf[id], id))
  OBVIOUS
<1>3. PICK first : first = ks.indices[FirstMatch(ks, HashOf[id], id)]
  OBVIOUS
<1>4. PICK places : places = VisiblePlaces(EntryList(ks), id)
  OBVIOUS
<1>5. /\ PlacesOf(Live(ks), found) = places
      /\ places \in SUBSET (1..Cardinality(Live(ks)))
      /\ Matches(ks, HashOf[id], id) # {} <=> places # {}
      /\ places # {} =>
           /\ Min(places) \in places
           /\ Nth(Live(ks), Min(places)) = first
           /\ PlacesOf(Live(ks), {first}) = {Min(places)}
           /\ first \in found
  BY <1>2, <1>3, <1>4, SearchPlaces
<1> QED
  BY <1>1, <1>4, <1>5 DEF md_contains, hash_of

\* What is kept all along: entries have the identities of their keys, and the
\* entries of a bulk call under way stand for what it has taken.
ListInvariant ==
  /\ Identified(keys)
  /\ ~ Idle => Progress(bulk.op, EntryList(keys), bulk.base, bulk.args)

\* Two lists, one after the other.
IsJoined(l, a, b, m, n) ==
  /\ Len(l) = m + n /\ \A k \in 1..m : l[k] = a[k]
  /\ \A k \in (m + 1)..(m + n) : l[k] = b[k - m]

LEMMA JoinedLists ==
  ASSUME NEW a \in Seq(ItemType), NEW b \in Seq(ItemType)
  PROVE  IsJoined(a \o b, a, b, Len(a), Len(b))
<1>1. PICK m \in Nat : m = Len(a) /\ DOMAIN a = 1..m
  OBVIOUS
<1>2. PICK n \in Nat : n = Len(b) /\ DOMAIN b = 1..n
  OBVIOUS
<1>3. IsJoined(a \o b, a, b, m, n)
  BY <1>1, <1>2 DEF IsJoined
<1> QED
  BY <1>1, <1>2, <1>3

\* To append to the second of two lists is to append to both.
LEMMA AppendJoined ==
  ASSUME NEW a \in Seq(ItemType), NEW b \in Seq(ItemType), NEW item \in ItemType
  PROVE  Append(a \o b, item) = a \o Append(b, item)
<1>1. PICK m \in Nat : m = Len(a) /\ DOMAIN a = 1..m
  OBVIOUS
<1>2. PICK n \in Nat : n = Len(b) /\ DOMAIN b = 1..n
  OBVIOUS
<1>3. PICK c : c \in Seq(ItemType) /\ c = Append(b, item)
  <2>1. Append(b, item) \in Seq(ItemType)
    OBVIOUS
  <2> QED
    BY <2>1
<1>4. PICK d : d \in Seq(ItemType) /\ d = a \o b
  <2>1. a \o b \in Seq(ItemType)
    OBVIOUS
  <2> QED
    BY <2>1
<1>5. Len(c) = n + 1 /\ c[n + 1] = item /\ \A k \in 1..n : c[k] = b[k]
  BY <1>2, <1>3
<1>6. /\ Len(d) = m + n /\ \A k \in 1..m : d[k] = a[k]
      /\ \A k \in (m + 1)..(m + n) : d[k] = b[k - m]
  BY <1>1, <1>2, <1>4
<1>7. PICK l : l \in Seq(ItemType) /\ l = Append(d, item)
  <2>1. Append(d, item) \in Seq(ItemType)
    BY <1>4
  <2> QED
    BY <2>1
<1>8. PICK r : r \in Seq(ItemType) /\ r = a \o c
  <2>1. a \o c \in Seq(ItemType)
    BY <1>3
  <2> QED
    BY <2>1
<1>9. /\ Len(l) = m + n + 1 /\ l[m + n + 1] = item
      /\ \A k \in 1..(m + n) : l[k] = d[k]
  BY <1>6, <1>7
<1>10. /\ Len(r) = m + n + 1 /\ \A k \in 1..m : r[k] = a[k]
       /\ \A k \in (m + 1)..(m + n + 1) : r[k] = c[k - m]
  <2>1. PICK x \in Nat : x = Len(c) /\ x = n + 1 /\ DOMAIN c = 1..x
    BY <1>3, <1>5
  <2>2. c \in Seq(ItemType) /\ r = a \o c
    BY <1>3, <1>8
  <2>3. IsJoined(r, a, c, m, x)
    BY <1>1, <2>1, <2>2, JoinedLists
  <2> QED
    BY <2>1, <2>3 DEF IsJoined
<1>11. ASSUME NEW k \in 1..(m + n + 1) PROVE l[k] = r[k]
  <2>1. CASE k \in 1..m
    BY <1>6, <1>9, <1>10, <2>1
  <2>2. CASE k \in (m + 1)..(m + n)
    <3>1. k - m \in 1..n /\ k \in 1..(m + n)
      BY <2>2
    <3> QED
      BY <1>5, <1>6, <1>9, <1>10, <2>2, <3>1
  <2>3. CASE k = m + n + 1
    <3>1. k - m = n + 1 /\ k \in (m + 1)..(m + n + 1)
      BY <2>3
    <3> QED
      BY <1>5, <1>9, <1>10, <2>3, <3>1
  <2>4. k \in 1..m \/ k \in (m + 1)..(m + n) \/ k = m + n + 1
    OBVIOUS
  <2> QED
    BY <2>1, <2>2, <2>3, <2>4
<1>12. l = r
  <2>1. PICK top \in Nat : top = m + n + 1
    OBVIOUS
  <2>2. l \in Seq(ItemType) /\ r \in Seq(ItemType) /\ Len(l) = top /\ Len(r) = top
    BY <1>7, <1>8, <1>9, <1>10, <2>1
  <2>3. l = [k \in 1..top |-> l[k]] /\ r = [k \in 1..top |-> r[k]]
    BY <2>2
  <2>4. \A k \in 1..top : l[k] = r[k]
    BY <1>11, <2>1
  <2> QED
    BY <2>3, <2>4
<1> QED
  BY <1>3, <1>4, <1>7, <1>8, <1>12

\* One item of a bulk call.
LEMMA ItemListed ==
  ASSUME OrderInvariant, TypeOK, ListInvariant, ~ Idle, NEW key \in Keys,
         NEW value \in Values, BulkItem(key, value)
  PROVE  ListInvariant' /\ MultiDictSpec!Take(key, value)
<1>1. PICK item \in ItemType : item = MultiDictSpec!Item(key, value)
  BY DEF ItemType, MultiDictSpec!Item
<1>2. PICK base \in Seq(ItemType) : base = bulk.base
  BY DEF TypeOK, ItemType
<1>3. PICK args \in Seq(ItemType) : args = bulk.args
  BY DEF TypeOK, ItemType
<1>4. /\ bulk'.op = bulk.op /\ bulk'.base = base
      /\ bulk'.args = Append(args, item) /\ ret' = ret
  <2>1. /\ bulk' = [bulk EXCEPT !.args = Append(@, [key |-> key, value |-> value])]
        /\ ret' = ret
    BY DEF BulkItem
  <2> QED
    BY <1>1, <1>2, <1>3, <2>1 DEF TypeOK, MultiDictSpec!Item
<1>5. PICK list \in Seq(Entry) : list = EntryList(keys)
  BY ItemsOfList DEF OrderInvariant, TableInvariant
<1>6. PICK after : after = EntryList(keys')
  OBVIOUS
<1>7. PICK entry : entry = NewEntry(key, value, TRUE)
  OBVIOUS
<1>8. /\ IsSound(keys) /\ IsOrdered(keys) /\ used = Cardinality(Live(keys))
      /\ bulk.op = "extend" => IsSettled(keys)
      /\ Identified(keys) /\ Progress(bulk.op, list, base, args)
  BY <1>2, <1>3, <1>5 DEF OrderInvariant, TableInvariant, ListInvariant
<1>9. PICK id \in Identities : id = MultiDictSpec!Id(item) /\ id = IdentityOf[key]
  BY <1>1, HashTableAssumption DEF MultiDictSpec!Item, MultiDictSpec!Id
<1>0. PICK places : places = VisiblePlaces(EntryList(keys), id)
  OBVIOUS
<1>10. places = VisiblePlaces(list, id)
  BY <1>0, <1>5
<1>11. md_contains(keys, key) <=> places # {}
  BY <1>0, <1>8, <1>9, SearchAt
<1>12. ASSUME AddForUpdate(key, value)
       PROVE  /\ after = Append(list, entry) /\ entry.hash = MARK
              /\ ItemOf(entry) = item /\ Identified(keys')
  BY <1>1, <1>5, <1>6, <1>7, <1>8, <1>12, AddedForUpdate
<1>13. ASSUME bulk.op = "extend"
       PROVE  Identified(keys') /\ Progress(bulk.op, after, base, Append(args, item))
  <2>1. AddItem(key, value)
    BY <1>13 DEF BulkItem, ApplyItem
  <2>2. ItemsOf(keys') = Append(ItemsOf(keys), item) /\ Identified(keys')
    BY <1>1, <1>8, <1>13, <2>1, AddItemListed
  <2>3. ItemsOf(keys) = base \o args
    BY <1>5, <1>8, <1>13, ItemsOfList DEF Progress
  <2>4. IsSound(keys')
    BY <1>8, <1>13, <2>1, AddItemSound DEF OrderInvariant, SettledAfter
  <2>5. ListItems(after) = Append(base \o args, item)
    BY <1>6, <2>2, <2>3, <2>4, ItemsOfList
  <2>6. Append(base \o args, item) = base \o Append(args, item)
    BY AppendJoined
  <2> QED
    BY <1>13, <2>2, <2>5, <2>6 DEF Progress
<1>14. ASSUME bulk.op = "update"
       PROVE  Identified(keys') /\ Progress(bulk.op, after, base, Append(args, item))
  <2>1. UpdateItem(key, value)
    BY <1>14 DEF BulkItem, ApplyItem
  <2>2. Updates(after, list, places, item, entry) /\ Identified(keys')
    <3>1. CASE md_contains(keys, key)
      <4>1. keys' = ReplaceForUpdate(keys, key, value)
        BY <2>1, <3>1 DEF UpdateItem
      <4> QED
        BY <1>1, <1>5, <1>6, <1>8, <1>9, <1>10, <3>1, <4>1, TakenList
    <3>2. CASE ~ md_contains(keys, key)
      <4>1. AddForUpdate(key, value)
        BY <2>1, <3>2 DEF UpdateItem
      <4> QED
        BY <1>11, <1>12, <3>2, <4>1 DEF Updates
    <3> QED
      BY <3>1, <3>2
  <2>3. Progress("update", after, base, Append(args, item))
    BY <1>8, <1>9, <1>10, <1>14, <2>2, UpdateAdvances
  <2> QED
    BY <1>14, <2>2, <2>3
<1>15. ASSUME bulk.op = "merge"
       PROVE  Identified(keys') /\ Progress(bulk.op, after, base, Append(args, item))
  <2>1. MergeItem(key, value)
    BY <1>15 DEF BulkItem, ApplyItem
  <2>2. Merges(after, list, places, item, entry) /\ Identified(keys')
    <3>1. CASE md_contains(keys, key)
      <4>1. keys' = keys
        BY <2>1, <3>1 DEF MergeItem
      <4> QED
        BY <1>5, <1>6, <1>8, <1>11, <3>1, <4>1 DEF Merges
    <3>2. CASE ~ md_contains(keys, key)
      <4>1. AddForUpdate(key, value)
        BY <2>1, <3>2 DEF MergeItem
      <4> QED
        BY <1>11, <1>12, <3>2, <4>1 DEF Merges
    <3> QED
      BY <3>1, <3>2
  <2>3. Progress("merge", after, base, Append(args, item))
    BY <1>8, <1>9, <1>10, <1>15, <2>2, MergeAdvances
  <2> QED
    BY <1>15, <2>2, <2>3
<1>16. bulk.op \in {"extend", "update", "merge"}
  BY DEF OrderInvariant, TableInvariant, BulkOps, Idle
<1>17. Identified(keys') /\ Progress(bulk.op, after, base, Append(args, item))
  BY <1>13, <1>14, <1>15, <1>16
<1>18. ListInvariant'
  BY <1>4, <1>6, <1>17 DEF ListInvariant
<1>19. MultiDictSpec!Take(key, value)
  <2>1. UNCHANGED <<IF Idle THEN Items ELSE bulk.base, ret>>
    BY <1>2, <1>4 DEF Idle
  <2>2. [op |-> bulk'.op, args |-> bulk'.args]
          = [[op |-> bulk.op, args |-> bulk.args] EXCEPT !.args = Append(@, item)]
    <3>1. PICK more : more = Append(args, item)
      OBVIOUS
    <3>2. bulk'.op = bulk.op /\ bulk'.args = more /\ Append(bulk.args, item) = more
      BY <1>3, <1>4, <3>1
    <3>3. PICK b : b = [op |-> bulk.op, args |-> bulk.args]
      OBVIOUS
    <3>4. Append(b.args, item) = more
      BY <3>2, <3>3
    <3>5. [b EXCEPT !.args = more] = [op |-> bulk'.op, args |-> bulk'.args]
      BY <3>2, <3>3
    <3> QED
      BY <3>3, <3>4, <3>5, Zenon
  <2> QED
    BY <1>1, <2>1, <2>2 DEF MultiDictSpec!Take
<1> QED
  BY <1>18, <1>19

\* Nothing is in an empty set, and nobody takes from an empty argument.
LEMMA NoArguments ==
  ASSUME NEW base
  PROVE  /\ \A n : MultiDictSpec!TakerOf(base, <<>>, n) = {}
         /\ \A key : ~ MultiDictSpec!Has(<<>>, key)
         /\ MultiDictSpec!Extra(base, <<>>) = {}
         /\ MultiDictSpec!Lacking(base, <<>>) = {}
<1>1. DOMAIN <<>> = {}
  OBVIOUS
<1> QED
  BY <1>1 DEF MultiDictSpec!TakerOf, MultiDictSpec!Has, MultiDictSpec!Extra,
              MultiDictSpec!Lacking

\* Before its first item a bulk call stands for the items there are.
LEMMA Started ==
  ASSUME NEW ks, IsSound(ks), IsSettled(ks), Identified(ks), NEW op
  PROVE  Progress(op, EntryList(ks), ItemsOf(ks), <<>>)
<1>1. PICK n \in Nat : n = Cardinality(Live(ks))
  BY LiveInOrder
<1>2. PICK list : list = EntryList(ks)
  OBVIOUS
<1>3. PICK base : base = ItemsOf(ks)
  OBVIOUS
<1>4. /\ list \in Seq(Entry) /\ Len(list) = n /\ DOMAIN list = 1..n
      /\ base = ListItems(list)
      /\ \A k \in 1..n : list[k].key # NULL =>
                           list[k].identity = IdentityOf[list[k].key]
  BY <1>1, <1>2, <1>3, ItemsOfList
<1>5. \A k \in 1..n : list[k].hash # MARK /\ list[k].key # NULL
  <2>1. \A k \in 1..n : list[k] = ks.entries[Nth(Live(ks), k)] /\ Nth(Live(ks), k) \in Live(ks)
    BY <1>1, <1>2, ItemsOfEntries
  <2> QED
    BY <2>1 DEF IsSettled
<1>6. base = [k \in 1..n |-> ItemOf(list[k])]
  BY <1>4 DEF ListItems
<1>7. DOMAIN base = 1..n /\ Len(base) = n /\ \A k \in 1..n : base[k] = ItemOf(list[k])
  BY <1>6
<1>8. \A k \in 1..n : list[k].identity = MultiDictSpec!Id(base[k])
  BY <1>4, <1>5, <1>7 DEF ItemOf, MultiDictSpec!Id
<1>9. PICK none : none = <<>>
  OBVIOUS
<1>10. AddedTail(list, n, none, {})
  <2>1. Cardinality({}) = 0
    BY FS_EmptySet
  <2> QED
    BY <1>4, <2>1 DEF AddedTail
<1>11. UpdateHead(list, base, none) /\ MergeHead(list, base)
  BY <1>5, <1>7, <1>8, <1>9, NoArguments DEF UpdateHead, MergeHead
<1>12. base \o none = base
  BY <1>6, <1>9
<1>13. /\ MultiDictSpec!Extra(base, none) = {}
       /\ MultiDictSpec!Lacking(base, none) = {}
  BY <1>9, NoArguments
<1>14. Progress(op, list, base, none)
  BY <1>4, <1>7, <1>10, <1>11, <1>12, <1>13 DEF Progress
<1> QED
  BY <1>2, <1>3, <1>9, <1>14

\* A bulk call begins with the items that are there.
LEMMA BeginListed ==
  ASSUME OrderInvariant, ListInvariant, Idle, NEW op \in BulkOps, NEW hint \in Nat,
         BulkBegin(op, hint)
  PROVE  ListInvariant' /\ MultiDictSpec!Begin(op)
<1>1. /\ IsSound(keys) /\ IsSettled(keys) /\ Identified(keys)
      /\ used = Cardinality(Live(keys))
  BY DEF OrderInvariant, TableInvariant, ListInvariant, Idle
<1>2. IsSound(keys') /\ (keys' = keys \/ Compacted(keys', keys))
  BY <1>1, ReserveSound DEF BulkBegin
<1>3. EntryList(keys') = EntryList(keys)
  BY <1>1, <1>2, CompactedList
<1>4. Identified(keys')
  <2>1. PICK list : list = EntryList(keys)
    OBVIOUS
  <2>2. PICK n \in Nat : n = Cardinality(Live(keys))
    BY <1>1, LiveInOrder
  <2>3. PICK m \in Nat : m = Cardinality(Live(keys'))
    BY <1>2, LiveInOrder
  <2>4. /\ DOMAIN list = 1..n
        /\ \A k \in 1..n : list[k].key # NULL =>
                             list[k].identity = IdentityOf[list[k].key]
    BY <1>1, <2>1, <2>2, ItemsOfList
  <2>5. /\ DOMAIN list = 1..m
        /\ Identified(keys') <=> \A k \in 1..m : list[k].key # NULL =>
                                   list[k].identity = IdentityOf[list[k].key]
    BY <1>2, <1>3, <2>1, <2>3, ItemsOfList
  <2> QED
    BY <2>4, <2>5
<1>5. /\ bulk'.op = op /\ bulk'.base = Items /\ bulk'.args = <<>>
      /\ Return("ok", <<>>)
  BY DEF BulkBegin
<1>6. Progress(op, EntryList(keys'), Items, <<>>)
  BY <1>1, <1>3, Started DEF Items
<1>7. ~ Idle'
  BY <1>5 DEF Idle, BulkOps
<1>8. ListInvariant'
  BY <1>4, <1>5, <1>6 DEF ListInvariant
<1>9. MultiDictSpec!Begin(op)
  BY <1>5, <1>7 DEF MultiDictSpec!Begin, MultiDictSpec!Return, Return
<1> QED
  BY <1>8, <1>9

\* One that is refused leaves them as they are.
LEMMA RefusedListed ==
  ASSUME ListInvariant, NEW hint, BulkRefused(hint)
  PROVE  ListInvariant' /\ MultiDictSpec!OutOfMemory
BY DEF BulkRefused, ListInvariant, Idle, Items, MultiDictSpec!OutOfMemory,
       MultiDictSpec!Return, Return

\* The constructor begins with none.
LEMMA InitListed == Init => ListInvariant /\ MultiDictSpec!Init
<1> SUFFICES ASSUME Init PROVE ListInvariant /\ MultiDictSpec!Init
  OBVIOUS
<1>1. /\ ret = [status |-> "ok", list |-> <<>>]
      /\ bulk.op = "extend" /\ bulk.base = <<>> /\ bulk.args = <<>>
  BY DEF Init, NoBulk
<1>2. used = 0
  BY DEF Init
<1>3. IsSound(keys) /\ IsSettled(keys) /\ Cardinality(Live(keys)) = 0
  <2>1. TableInvariant
    BY InitSound
  <2> QED
    BY <1>1, <1>2, <2>1 DEF TableInvariant
<1>4. ItemsOf(keys) = <<>> /\ Identified(keys)
  BY <1>3, NoItems
<1>5. Progress("extend", EntryList(keys), <<>>, <<>>)
  BY <1>3, <1>4, Started
<1>6. ListInvariant
  BY <1>1, <1>4, <1>5 DEF ListInvariant
<1>7. MultiDictSpec!Init
  BY <1>1 DEF MultiDictSpec!Init, MultiDictSpec!NoBulk, Idle
<1> QED
  BY <1>6, <1>7

\* A whole interval is numbered as it stands.
LEMMA WholeInOrder ==
  ASSUME NEW n \in Nat
  PROVE  Cardinality(1..n) = n /\ \A k \in 1..n : Nth(1..n, k) = k
<1>1. PICK g : g = [k \in 1..n |-> k]
  OBVIOUS
<1>2. PICK U \in SUBSET (0..n) : U = 1..n
  <2>1. 1..n \in SUBSET (0..n)
    OBVIOUS
  <2> QED
    BY <2>1
<1>3. Numbers(g, n, U)
  BY <1>1, <1>2 DEF Numbers
<1>4. Cardinality(U) = n /\ \A k \in 1..n : Nth(U, k) = g[k]
  BY <1>3, Enumerated, Zenon
<1> QED
  BY <1>1, <1>2, <1>4

\* A part of a list of items is one.
LEMMA PartType ==
  ASSUME NEW m \in Nat, NEW P \in SUBSET (0..m), NEW list,
         \A n \in P : list[n] \in ItemType
  PROVE  /\ Part(list, P) \in Seq(ItemType) /\ Len(Part(list, P)) = Cardinality(P)
         /\ Cardinality(P) \in Nat
         /\ \A k \in 1..Cardinality(P) : Part(list, P)[k] = list[Nth(P, k)]
<1>1. PICK c \in Nat : c = Cardinality(P)
  BY InOrder
<1>2. \A k \in 1..c : Nth(P, k) \in P
  BY <1>1, InOrder
<1>3. Part(list, P) = [k \in 1..c |-> list[Nth(P, k)]]
  BY <1>1 DEF Part
<1>4. Part(list, P) \in [1..c -> ItemType]
  BY <1>2, <1>3
<1> QED
  BY <1>1, <1>3, <1>4

\* A list whose first a members are, at the positions of A, those of taken, and
\* whose others are those of args at the positions of X.
IsSplit(list, a, A, taken, args, X) ==
  /\ \A n \in A : taken[n] \in ItemType /\ list[n] = taken[n]
  /\ \A k \in 1..Cardinality(X) : list[a + k] = args[Nth(X, k)]

\* The part of it at A and behind the first a members is that of taken and that
\* of args, one after the other.
IsSplitPart(list, a, A, taken, args, X) ==
  Part(list, Joined(A, a, 1..Cardinality(X))) = Part(taken, A) \o Part(args, X)

LEMMA PartsJoined ==
  ASSUME NEW a \in Nat, NEW A \in SUBSET (1..a), NEW taken,
         NEW args \in Seq(ItemType), NEW X \in SUBSET (DOMAIN args),
         NEW list, IsSplit(list, a, A, taken, args, X)
  PROVE  IsSplitPart(list, a, A, taken, args, X)
<1>c. PICK c \in Nat : c = Cardinality(X)
  <2>1. DOMAIN args = 1..Len(args) /\ Len(args) \in Nat
    OBVIOUS
  <2>2. X \in SUBSET (0..Len(args))
    BY <2>1
  <2> QED
    BY <2>1, <2>2, InOrder
<1>0. /\ \A n \in A : taken[n] \in ItemType /\ list[n] = taken[n]
      /\ \A k \in 1..c : list[a + k] = args[Nth(X, k)]
  BY <1>c DEF IsSplit
<1>1. PICK l : l = Part(taken, A)
  OBVIOUS
<1>2. PICK r : r = Part(args, X)
  OBVIOUS
<1>3. PICK e \in Nat : e = Cardinality(A)
  <2>1. A \in SUBSET (0..a)
    OBVIOUS
  <2> QED
    BY <2>1, InOrder
<1>4. l \in Seq(ItemType) /\ Len(l) = e /\ \A k \in 1..e : l[k] = taken[Nth(A, k)]
  <2>1. A \in SUBSET (0..a)
    OBVIOUS
  <2> QED
    BY <1>0, <1>1, <1>3, <2>1, PartType
<1>5. r \in Seq(ItemType) /\ Len(r) = c /\ \A k \in 1..c : r[k] = args[Nth(X, k)]
  <2>1. PICK m \in Nat : X \in SUBSET (0..m)
    <3>1. DOMAIN args = 1..Len(args) /\ Len(args) \in Nat
      OBVIOUS
    <3>2. X \in SUBSET (0..Len(args))
      BY <3>1
    <3> QED
      BY <3>1, <3>2
  <2>2. \A n \in X : args[n] \in ItemType
    OBVIOUS
  <2> QED
    BY <1>c, <1>2, <2>1, <2>2, PartType
<1>6. PICK U : U = Joined(A, a, 1..c)
  OBVIOUS
<1>7. /\ Cardinality(U) = e + c
      /\ \A k \in 1..e : Nth(A, k) \in A /\ Nth(U, k) = Nth(A, k)
      /\ \A k \in 1..c : Nth(U, e + k) = a + k
  <2>1. PICK B \in SUBSET (1..c) : B = 1..c
    OBVIOUS
  <2>2. Cardinality(B) = c /\ \A k \in 1..c : Nth(B, k) = k
    BY <2>1, WholeInOrder
  <2>3. U = Joined(A, a, B)
    BY <1>6, <2>1
  <2>4. AreInOrder(U, A, a, B)
    BY <2>3, JoinedInOrder
  <2> QED
    BY <1>3, <2>2, <2>4 DEF AreInOrder
<1>8. PICK all : all = Part(list, U)
  OBVIOUS
<1>9. all = [k \in 1..(e + c) |-> list[Nth(U, k)]]
  BY <1>7, <1>8 DEF Part
<1>10. PICK both : both \in Seq(ItemType) /\ both = l \o r
  <2>1. l \o r \in Seq(ItemType)
    BY <1>4, <1>5
  <2> QED
    BY <2>1
<1>11. IsJoined(both, l, r, e, c)
  <2>1. IsJoined(l \o r, l, r, Len(l), Len(r))
    BY <1>4, <1>5, JoinedLists
  <2> QED
    BY <1>4, <1>5, <1>10, <2>1
<1>12. ASSUME NEW k \in 1..(e + c) PROVE list[Nth(U, k)] = both[k]
  <2>1. ASSUME k \in 1..e PROVE list[Nth(U, k)] = both[k]
    <3>1. both[k] = l[k]
      BY <1>11, <2>1 DEF IsJoined
    <3>2. l[k] = taken[Nth(A, k)]
      BY <1>4, <2>1
    <3>3. Nth(A, k) \in A /\ Nth(U, k) = Nth(A, k)
      BY <1>7, <2>1
    <3> QED
      BY <1>0, <3>1, <3>2, <3>3
  <2>2. CASE k \in (e + 1)..(e + c)
    <3>1. PICK i \in 1..c : k = e + i /\ i = k - e
      <4>1. k - e \in 1..c /\ k = e + (k - e)
        BY <2>2
      <4> QED
        BY <4>1
    <3>2. list[Nth(U, k)] = args[Nth(X, i)]
      BY <1>0, <1>7, <3>1
    <3>3. both[k] = r[i]
      BY <1>11, <2>2, <3>1 DEF IsJoined
    <3> QED
      BY <1>5, <3>2, <3>3
  <2>3. k \in 1..e \/ k \in (e + 1)..(e + c)
    OBVIOUS
  <2> QED
    BY <2>1, <2>2, <2>3
<1>13. both = [k \in 1..(e + c) |-> both[k]]
  <2>1. both \in Seq(ItemType) /\ Len(both) = e + c
    BY <1>10, <1>11 DEF IsJoined
  <2>2. PICK n \in Nat : n = e + c
    OBVIOUS
  <2>3. both = [k \in 1..n |-> both[k]]
    BY <2>1, <2>2
  <2> QED
    BY <2>2, <2>3
<1>14. all = both
  BY <1>9, <1>12, <1>13
<1> QED
  BY <1>c, <1>1, <1>2, <1>6, <1>8, <1>10, <1>14 DEF IsSplitPart

\* Where a bulk call leaves its first b entries: those of A stay, as the items
\* of taken.
Heads(list, b, A, taken) ==
  \A n \in 1..b : /\ list[n].key # NULL <=> n \in A
                  /\ n \in A => ItemOf(list[n]) = taken[n] /\ taken[n] \in ItemType

\* At the end of a bulk call the half-deleted entries leave the list.
Leaves(new, taken, A, args, X) == ItemsOf(new) = Part(taken, A) \o Part(args, X)

LEMMA SettledItems ==
  ASSUME NEW ks, IsSound(ks), NEW new, IsSound(new), Settled(new, ks),
         NEW args \in Seq(ItemType), NEW X \in SUBSET (DOMAIN args), NEW b \in Nat,
         AddedTail(EntryList(ks), b, args, X), NEW A \in SUBSET (1..b), NEW taken,
         Heads(EntryList(ks), b, A, taken)
  PROVE  Leaves(new, taken, A, args, X)
<1>1. PICK list : list = EntryList(ks)
  OBVIOUS
<1>2. PICK S : S = Live(ks)
  OBVIOUS
<1>3. PICK n \in Nat : n = Cardinality(S)
  BY <1>2, LiveInOrder
<1>4. /\ list \in Seq(Entry) /\ Len(list) = n /\ DOMAIN list = 1..n
      /\ \A k \in 1..n : list[k] = ks.entries[Nth(S, k)] /\ Nth(S, k) \in S
  BY <1>1, <1>2, <1>3, ItemsOfList, ItemsOfEntries
<1>5. PICK c \in Nat : c = Cardinality(X)
  <2>1. DOMAIN args = 1..Len(args) /\ Len(args) \in Nat
    OBVIOUS
  <2>2. X \in SUBSET (0..Len(args))
    BY <2>1
  <2> QED
    BY <2>1, <2>2, InOrder
<1>6. /\ n = b + c
      /\ \A k \in 1..c : ItemOf(list[b + k]) = args[Nth(X, k)] /\ Nth(X, k) \in X
  <2>1. AddedTail(list, b, args, X)
    BY <1>1
  <2>2. PICK m \in Nat : X \in SUBSET (0..m)
    <3>1. DOMAIN args = 1..Len(args) /\ Len(args) \in Nat
      OBVIOUS
    <3>2. X \in SUBSET (0..Len(args))
      BY <3>1
    <3> QED
      BY <3>1, <3>2
  <2>3. \A k \in 1..c : Nth(X, k) \in X
    BY <1>5, <2>2, InOrder
  <2> QED
    BY <1>4, <1>5, <2>1, <2>3 DEF AddedTail
<1>7. Heads(list, b, A, taken)
  BY <1>1
<1>8. /\ Live(new) = {i \in S : ks.entries[i].key # NULL}
      /\ \A i \in Live(new) : /\ new.entries[i].key = ks.entries[i].key
                              /\ new.entries[i].value = ks.entries[i].value
  BY <1>2 DEF Settled
<1>9. \A k \in 1..c : list[b + k].key # NULL
  <2>1. ASSUME NEW k \in 1..c PROVE list[b + k].key # NULL
    <3>1. args[Nth(X, k)] \in ItemType
      BY <1>6
    <3>2. args[Nth(X, k)].key \in Keys
      BY <3>1 DEF ItemType
    <3>3. ItemOf(list[b + k]).key = list[b + k].key
      BY DEF ItemOf
    <3>4. list[b + k].key \in Keys
      BY <1>6, <3>2, <3>3
    <3> QED
      BY <3>4, ConstantsAssumption
  <2> QED
    BY <2>1
<1>10. PlacesOf(S, Live(new)) = Joined(A, b, 1..c)
  <2>1. \A k : k \in PlacesOf(S, Live(new)) <=> k \in 1..n /\ list[k].key # NULL
    BY <1>3, <1>4, <1>8 DEF PlacesOf
  <2>2. \A k : k \in Joined(A, b, 1..c) <=> k \in A \/ \E p \in 1..c : k = b + p
    BY DEF Joined
  <2>3. \A k \in 1..b : k \in 1..n /\ (list[k].key # NULL <=> k \in A)
    BY <1>6, <1>7 DEF Heads
  <2>4. \A p \in 1..c : b + p \in 1..n /\ ~ (b + p \in 1..b)
    BY <1>6
  <2>5. ASSUME NEW k \in 1..n, ~ (k \in 1..b) PROVE \E p \in 1..c : k = b + p
    <3>1. k - b \in 1..c /\ k = b + (k - b)
      BY <1>6, <2>5
    <3> QED
      BY <3>1
  <2>6. ASSUME NEW k
        PROVE  k \in PlacesOf(S, Live(new)) <=> k \in Joined(A, b, 1..c)
    <3>1. CASE k \in 1..b
      BY <2>1, <2>2, <2>3, <2>4, <3>1
    <3>2. CASE k \in 1..n /\ ~ (k \in 1..b)
      <4>1. PICK p \in 1..c : k = b + p
        BY <2>5, <3>2
      <4>2. list[k].key # NULL
        BY <1>9, <4>1
      <4> QED
        BY <2>1, <2>2, <3>2, <4>1, <4>2
    <3>3. CASE ~ (k \in 1..n)
      BY <2>1, <2>2, <2>3, <2>4, <3>3
    <3> QED
      BY <3>1, <3>2, <3>3
  <2> QED
    BY <2>6
<1>11. PICK items : items = ListItems(list)
  OBVIOUS
<1>12. \A k \in 1..n : items[k] = ItemOf(list[k])
  BY <1>4, <1>11 DEF ListItems
<1>13. ItemsOf(new) = Part(items, Joined(A, b, 1..c))
  <2>1. ASSUME NEW k \in 1..n, Nth(S, k) \in Live(new)
        PROVE  ItemOf(new.entries[Nth(S, k)]) = items[k]
    BY <1>4, <1>8, <1>12, <2>1 DEF ItemOf
  <2>2. Lists(items, new, ks)
    BY <1>2, <1>3, <2>1 DEF Lists
  <2>3. Live(new) \subseteq Live(ks)
    BY <1>2, <1>8
  <2>4. ItemsOf(new) = Part(items, PlacesOf(Live(ks), Live(new)))
    BY <2>2, <2>3, PartOfItems
  <2> QED
    BY <1>2, <1>10, <2>4
<1>14. \A k \in A : taken[k] \in ItemType /\ items[k] = taken[k]
  <2>1. \A k \in 1..b : k \in 1..n
    BY <1>6
  <2> QED
    BY <1>7, <1>12, <2>1 DEF Heads
<1>15. \A k \in 1..c : items[b + k] = args[Nth(X, k)]
  <2>1. \A k \in 1..c : b + k \in 1..n
    BY <1>6
  <2> QED
    BY <1>6, <1>12, <2>1
<1>16. Part(items, Joined(A, b, 1..c)) = Part(taken, A) \o Part(args, X)
  <2>1. IsSplit(items, b, A, taken, args, X)
    BY <1>5, <1>14, <1>15 DEF IsSplit
  <2>2. IsSplitPart(items, b, A, taken, args, X)
    BY <2>1, PartsJoined
  <2> QED
    BY <1>5, <2>2 DEF IsSplitPart
<1> QED
  BY <1>13, <1>16 DEF Leaves

\* At its end update() has made the list that it promises.
LEMMA UpdateEnds ==
  ASSUME NEW ks, IsSound(ks), NEW new, IsSound(new), Settled(new, ks),
         NEW base \in Seq(ItemType), NEW args \in Seq(ItemType),
         Progress("update", EntryList(ks), base, args)
  PROVE  ItemsOf(new) = MultiDictSpec!Updated(base, args)
<1>1. PICK b \in Nat : b = Len(base) /\ DOMAIN base = 1..b
  OBVIOUS
<1>2. PICK list : list = EntryList(ks)
  OBVIOUS
<1>3. PICK X \in SUBSET (DOMAIN args) : X = MultiDictSpec!Extra(base, args)
  <2>1. MultiDictSpec!Extra(base, args) \in SUBSET (DOMAIN args)
    BY DEF MultiDictSpec!Extra
  <2> QED
    BY <2>1
<1>4. UpdateHead(list, base, args) /\ AddedTail(EntryList(ks), b, args, X)
  BY <1>1, <1>2, <1>3 DEF Progress
<1> DEFINE taker(n) == MultiDictSpec!TakerOf(base, args, n)
           pick(n) == CHOOSE m \in taker(n) : TRUE
           taken == [n \in DOMAIN base |-> IF taker(n) = {} THEN base[n] ELSE args[pick(n)]]
           dropped == {n \in DOMAIN base : MultiDictSpec!Has(args, base[n].key) /\ taker(n) = {}}
           A == (1..b) \ dropped
<1>5. \A n \in 1..b : taker(n) # {} => pick(n) \in taker(n)
  OBVIOUS
<1>6. \A n \in 1..b : \A m \in taker(n) : m \in DOMAIN args
  BY DEF MultiDictSpec!TakerOf
<1>7. \A n \in 1..b :
        /\ \A m \in taker(n) : ItemOf(list[n]) = args[m]
        /\ taker(n) = {} =>
             /\ MultiDictSpec!Has(args, base[n].key) => list[n].key = NULL
             /\ ~ MultiDictSpec!Has(args, base[n].key) => ItemOf(list[n]) = base[n]
  BY <1>1, <1>4 DEF UpdateHead
<1>8. /\ DOMAIN taken = 1..b
      /\ \A n \in 1..b : taken[n] = IF taker(n) = {} THEN base[n] ELSE args[pick(n)]
  BY <1>1
<1>9. \A n : n \in A <=> n \in 1..b /\ ~ (MultiDictSpec!Has(args, base[n].key) /\ taker(n) = {})
  BY <1>1
<1>10. ItemsOf(new) = Part(taken, A) \o Part(args, X)
  <2>1. \A n \in 1..b : base[n] \in ItemType
    BY <1>1
  <2>2. \A m \in DOMAIN args : args[m] \in ItemType
    OBVIOUS
  <2>3. \A e : ItemOf(e) \in ItemType => e.key # NULL
    <3>1. ASSUME NEW e, ItemOf(e) \in ItemType PROVE e.key # NULL
      <4>1. ItemOf(e).key \in Keys
        BY <3>1 DEF ItemType
      <4>2. ItemOf(e).key = e.key
        BY DEF ItemOf
      <4> QED
        BY <4>1, <4>2, ConstantsAssumption
    <3> QED
      BY <3>1
  <2> HIDE DEF taker, pick, taken, dropped, A
  <2>4. ASSUME NEW n \in 1..b
        PROVE  /\ list[n].key # NULL <=> n \in A
               /\ n \in A => ItemOf(list[n]) = taken[n] /\ taken[n] \in ItemType
    <3>1. CASE taker(n) # {}
      <4>1. n \in A /\ ItemOf(list[n]) = taken[n] /\ taken[n] \in ItemType
        BY <1>5, <1>6, <1>7, <1>8, <1>9, <2>2, <3>1
      <4> QED
        BY <2>3, <4>1
    <3>2. CASE taker(n) = {} /\ MultiDictSpec!Has(args, base[n].key)
      BY <1>7, <1>9, <3>2
    <3>3. CASE taker(n) = {} /\ ~ MultiDictSpec!Has(args, base[n].key)
      <4>1. n \in A /\ ItemOf(list[n]) = taken[n] /\ taken[n] \in ItemType
        BY <1>7, <1>8, <1>9, <2>1, <3>3
      <4> QED
        BY <2>3, <4>1
    <3> QED
      BY <3>1, <3>2, <3>3
  <2>5. Heads(EntryList(ks), b, A, taken)
    BY <1>2, <2>4 DEF Heads
  <2>6. A \in SUBSET (1..b)
    BY <1>9
  <2>7. Leaves(new, taken, A, args, X)
    BY <1>4, <2>5, <2>6, SettledItems
  <2> QED
    BY <2>7 DEF Leaves
<1>11. MultiDictSpec!Without(taken, dropped) = Part(taken, A)
  <2> HIDE DEF taken, dropped
  <2> QED
    BY <1>8, SameRest
<1>12. MultiDictSpec!AtPositions(args, X) = Part(args, X)
  <2>1. DOMAIN args = 1..Len(args) /\ Len(args) \in Nat
    OBVIOUS
  <2>2. X \in SUBSET (0..Len(args))
    BY <2>1
  <2> QED
    BY <2>1, <2>2, SamePart
<1>13. MultiDictSpec!Updated(base, args)
         = MultiDictSpec!Without(taken, dropped) \o MultiDictSpec!AtPositions(args, X)
  BY <1>3, Zenon DEF MultiDictSpec!Updated
<1> QED
  BY <1>10, <1>11, <1>12, <1>13, Zenon

\* And so has merge().
LEMMA MergeEnds ==
  ASSUME NEW ks, IsSound(ks), NEW new, IsSound(new), Settled(new, ks),
         NEW base \in Seq(ItemType), NEW args \in Seq(ItemType),
         Progress("merge", EntryList(ks), base, args)
  PROVE  ItemsOf(new) = MultiDictSpec!Merged(base, args)
<1>1. PICK b \in Nat : b = Len(base) /\ DOMAIN base = 1..b
  OBVIOUS
<1>2. PICK list : list = EntryList(ks)
  OBVIOUS
<1>3. PICK X \in SUBSET (DOMAIN args) : X = MultiDictSpec!Lacking(base, args)
  <2>1. MultiDictSpec!Lacking(base, args) \in SUBSET (DOMAIN args)
    BY DEF MultiDictSpec!Lacking
  <2> QED
    BY <2>1
<1>4. MergeHead(list, base) /\ AddedTail(EntryList(ks), b, args, X)
  BY <1>1, <1>2, <1>3 DEF Progress
<1>5. PICK A \in SUBSET (1..b) : A = 1..b
  OBVIOUS
<1>6. ASSUME NEW n \in 1..b
      PROVE  /\ base[n] \in ItemType /\ ItemOf(list[n]) = base[n]
             /\ list[n].key # NULL
  <2>1. base[n] \in ItemType /\ ItemOf(list[n]) = base[n]
    BY <1>1, <1>4 DEF MergeHead
  <2>2. base[n].key \in Keys
    BY <2>1 DEF ItemType
  <2>3. ItemOf(list[n]).key = list[n].key
    BY DEF ItemOf
  <2> QED
    BY <2>1, <2>2, <2>3, ConstantsAssumption
<1>7. Heads(EntryList(ks), b, A, base)
  BY <1>2, <1>5, <1>6 DEF Heads
<1>8. ItemsOf(new) = Part(base, A) \o Part(args, X)
  <2>1. Leaves(new, base, A, args, X)
    BY <1>4, <1>7, SettledItems
  <2> QED
    BY <2>1 DEF Leaves
<1>9. Part(base, A) = base
  <2>1. Cardinality(A) = b /\ \A k \in 1..b : Nth(A, k) = k
    BY <1>5, WholeInOrder
  <2>2. Part(base, A) = [k \in 1..b |-> base[k]]
    BY <2>1 DEF Part
  <2> QED
    BY <1>1, <2>2
<1>10. MultiDictSpec!AtPositions(args, X) = Part(args, X)
  <2>1. DOMAIN args = 1..Len(args) /\ Len(args) \in Nat
    OBVIOUS
  <2>2. X \in SUBSET (0..Len(args))
    BY <2>1
  <2> QED
    BY <2>1, <2>2, SamePart
<1>11. MultiDictSpec!Merged(base, args) = base \o MultiDictSpec!AtPositions(args, X)
  BY <1>3, Zenon DEF MultiDictSpec!Merged
<1> QED
  BY <1>8, <1>9, <1>10, <1>11, Zenon

\* The end of a bulk call, whether the items ran out or it failed.
LEMMA StopListed ==
  ASSUME OrderInvariant, TypeOK, ListInvariant, ~ Idle, NEW status \in {"ok", "error"},
         BulkStop(status)
  PROVE  ListInvariant' /\ MultiDictSpec!End
<1>1. PICK base \in Seq(ItemType) : base = bulk.base
  BY DEF TypeOK, ItemType
<1>2. PICK args \in Seq(ItemType) : args = bulk.args
  BY DEF TypeOK, ItemType
<1>3. /\ IsSound(keys) /\ Identified(keys)
      /\ Progress(bulk.op, EntryList(keys), base, args)
  BY <1>1, <1>2 DEF OrderInvariant, TableInvariant, ListInvariant
<1>4. bulk' = NoBulk /\ Return(status, <<>>)
  BY DEF BulkStop
<1>5. ASSUME bulk.op = "extend"
      PROVE  ItemsOf(keys') = base \o args /\ Identified(keys')
  <2>1. keys' = keys
    BY <1>5 DEF BulkStop
  <2>2. ItemsOf(keys) = base \o args
    BY <1>3, <1>5, ItemsOfList DEF Progress
  <2> QED
    BY <1>3, <2>1, <2>2
<1>6. ASSUME bulk.op # "extend"
      PROVE  IsSound(keys') /\ Settled(keys', keys) /\ Identified(keys')
  <2>1. keys' = md_post_update(keys)
    BY <1>6 DEF BulkStop
  <2>2. IsSound(keys') /\ Settled(keys', keys)
    BY <1>3, <2>1, PostUpdateSound
  <2> QED
    BY <1>3, <2>2 DEF Settled, Identified
<1>7. ASSUME bulk.op = "update"
      PROVE  ItemsOf(keys') = MultiDictSpec!Updated(base, args)
  BY <1>3, <1>6, <1>7, UpdateEnds
<1>8. ASSUME bulk.op = "merge"
      PROVE  ItemsOf(keys') = MultiDictSpec!Merged(base, args)
  BY <1>3, <1>6, <1>8, MergeEnds
<1>9. bulk.op \in {"extend", "update", "merge"}
  BY DEF OrderInvariant, TableInvariant, BulkOps, Idle
<1>10. ItemsOf(keys') = MultiDictSpec!Result(bulk.op, base, args) /\ Identified(keys')
  <2>1. CASE bulk.op = "extend"
    BY <1>5, <2>1 DEF MultiDictSpec!Result
  <2>2. CASE bulk.op = "update"
    BY <1>6, <1>7, <2>2 DEF MultiDictSpec!Result
  <2>3. CASE bulk.op = "merge"
    BY <1>6, <1>8, <2>3 DEF MultiDictSpec!Result
  <2> QED
    BY <1>9, <2>1, <2>2, <2>3
<1>11. Idle' /\ bulk'.op = "none" /\ bulk'.args = <<>>
  BY <1>4 DEF Idle, NoBulk
<1>12. ListInvariant'
  BY <1>10, <1>11 DEF ListInvariant
<1>13. (IF Idle THEN Items ELSE bulk.base) = base
  BY <1>1
<1>14. (IF Idle THEN Items ELSE bulk.base)' = ItemsOf(keys')
  BY <1>11 DEF Items
<1>15. [op |-> bulk'.op, args |-> bulk'.args] = MultiDictSpec!NoBulk
  BY <1>11 DEF MultiDictSpec!NoBulk
<1>16. MultiDictSpec!Return(status, <<>>)
  BY <1>4 DEF MultiDictSpec!Return, Return
<1>17. MultiDictSpec!End
  BY <1>2, <1>10, <1>13, <1>14, <1>15, <1>16 DEF MultiDictSpec!End
<1> QED
  BY <1>12, <1>17

-----------------------------------------------------------------------------
(* The theorem.                                                            *)

\* Each step of the table is a step of the list, or leaves it as it is.
LEMMA NextListed ==
  OrderInvariant /\ OrderInvariant' /\ TypeOK /\ ListInvariant /\ [Next]_vars
    => ListInvariant' /\ [MultiDictSpec!Next]_(MultiDictSpec!vars)
<1> SUFFICES ASSUME OrderInvariant, OrderInvariant', TypeOK, ListInvariant, [Next]_vars
             PROVE  ListInvariant' /\ [MultiDictSpec!Next]_(MultiDictSpec!vars)
  OBVIOUS
<1>1. ASSUME Idle, Call, UNCHANGED bulk
      PROVE  ListInvariant' /\ MultiDictSpec!Next
  <2>1. BetweenCalls
    BY <1>1 DEF BetweenCalls, IsReady, OrderInvariant, TableInvariant, ListInvariant, Idle
  <2>2. MultiDictSpec!Call /\ Identified(keys')
    BY <1>1, <2>1, CallListed
  <2> QED
    BY <1>1, <2>2 DEF ListInvariant, Idle, MultiDictSpec!Next, MultiDictSpec!Idle
<1>2. ASSUME Idle, NEW op \in BulkOps, NEW hint \in Hints, BulkBegin(op, hint)
      PROVE  ListInvariant' /\ MultiDictSpec!Next
  <2>1. ListInvariant' /\ MultiDictSpec!Begin(op)
    BY <1>2, BeginListed, HashTableAssumption
  <2> QED
    BY <1>2, <2>1 DEF BulkOps, Idle, MultiDictSpec!Next, MultiDictSpec!Idle
<1>3. ASSUME Idle, NEW hint \in Hints, BulkRefused(hint)
      PROVE  ListInvariant' /\ MultiDictSpec!Next
  <2>1. ListInvariant' /\ MultiDictSpec!OutOfMemory
    BY <1>3, RefusedListed
  <2>2. UNCHANGED bulk
    BY <1>3 DEF BulkRefused
  <2> QED
    BY <1>3, <2>1, <2>2
    DEF Idle, MultiDictSpec!Next, MultiDictSpec!Call, MultiDictSpec!Idle
<1>4. ASSUME ~ Idle, NEW key \in Keys, NEW value \in Values, BulkItem(key, value)
      PROVE  ListInvariant' /\ MultiDictSpec!Next
  <2>1. ListInvariant' /\ MultiDictSpec!Take(key, value)
    BY <1>4, ItemListed
  <2> QED
    BY <1>4, <2>1 DEF Idle, MultiDictSpec!Next, MultiDictSpec!Idle
<1>5. ASSUME ~ Idle, BulkEnd \/ BulkFail
      PROVE  ListInvariant' /\ MultiDictSpec!Next
  <2>1. ListInvariant' /\ MultiDictSpec!End
    BY <1>5, StopListed DEF BulkEnd, BulkFail
  <2> QED
    BY <1>5, <2>1 DEF Idle, MultiDictSpec!Next, MultiDictSpec!Idle
<1>6. CASE UNCHANGED vars
  BY <1>6 DEF vars, ListInvariant, Idle, Items, MultiDictSpec!vars
<1> QED
  BY <1>1, <1>2, <1>3, <1>4, <1>5, <1>6 DEF Next

\* The hash table implements the list of items that MultiDict describes: every
\* call, whatever the collisions, rebuilds, deleted entries and marks, has the
\* effect and the result the list prescribes, and an extend(), update() or
\* merge() has them at its end, failed or not.
THEOREM TableImplementsList == Spec => ImplementsMultiDict
<1>1. Init => ListInvariant /\ MultiDictSpec!Init
  BY InitListed
<1>2. OrderInvariant /\ OrderInvariant' /\ TypeOK /\ ListInvariant /\ [Next]_vars
        => ListInvariant' /\ [MultiDictSpec!Next]_(MultiDictSpec!vars)
  BY NextListed
<1> QED
  BY <1>1, <1>2, AlwaysOrdered, TypeAlwaysOK, PTL
  DEF Spec, ImplementsMultiDict, MultiDictSpec!Spec

\* The same from any sound table, whatever history led to it: tables that are
\* full, or hold deleted entries, and bulk calls half done among them.
SoundStart == OrderInvariant /\ TypeOK /\ ListInvariant

THEOREM StepsImplementList == SoundStart /\ [][Next]_vars => StepsImplementMultiDict
<1>1. OrderInvariant /\ [Next]_vars => OrderInvariant'
  BY NextOrdered
<1>2. OrderInvariant => TableInvariant
  BY DEF OrderInvariant
<1>3. OrderInvariant /\ OrderInvariant' /\ TypeOK /\ ListInvariant /\ [Next]_vars
        => ListInvariant' /\ [MultiDictSpec!Next]_(MultiDictSpec!vars)
  BY NextListed
<1> QED
  BY <1>1, <1>2, <1>3, NextTyped, TypedTable, PTL DEF SoundStart, StepsImplementMultiDict
=============================================================================
