----------------------------- MODULE Induction ------------------------------
(***************************************************************************)
(* Induction over the natural numbers and the existence of the functions   *)
(* the models define by recursion.  What is to be shown of every number is *)
(* a set of numbers here, and what is computed step by step a function, so *)
(* that the facts have no operator for a parameter.  Then what sorting     *)
(* yields, and picking from a sequence.                                    *)
(***************************************************************************)
EXTENDS Sorting, WellFoundedInduction, FiniteSetTheorems, TLAPS

LEMMA LeastExists ==
    ASSUME NEW T, T \subseteq Nat, T # {}
    PROVE  \E x \in T : \A y \in T : x <= y
<1>1. PICK x \in T : \A y \in T : ~ (<<y, x>> \in OpToRel(<, Nat))
  BY NatLessThanWellFounded, WFMin
<1>2. ASSUME NEW y \in T PROVE x <= y
  <2>1. <<y, x>> \notin OpToRel(<, Nat)
    BY <1>1
  <2>2. ~(y < x)
    BY <2>1 DEF OpToRel
  <2> QED
    BY <2>2
<1> QED
  BY <1>2

(* A set of numbers that holds 0 and with a number its successor, up to a  *)
(* bound, holds every number up to the bound.                              *)
LEMMA UpTo ==
    ASSUME NEW n \in Nat, NEW S, 0 \in S,
           \A i \in 1..n : i - 1 \in S => i \in S
    PROVE  0..n \subseteq S
<1> DEFINE T == {i \in 0..n : i \notin S}
<1>1. SUFFICES ASSUME T # {} PROVE FALSE
  OBVIOUS
<1>2. T \subseteq Nat
  OBVIOUS
<1>3. PICK i \in T : \A j \in T : i <= j
  BY <1>1, <1>2, LeastExists
<1>4. i \in 1..n /\ i - 1 \in 0..n /\ ~(i <= i - 1)
  BY <1>3
<1>5. i - 1 \in S
  BY <1>3, <1>4
<1> QED
  BY <1>3, <1>4, <1>5

LEMMA Always ==
    ASSUME NEW S, 0 \in S, \A i \in Nat : i \in S => i + 1 \in S
    PROVE  Nat \subseteq S
<1>1. SUFFICES ASSUME NEW n \in Nat PROVE n \in S
  OBVIOUS
<1>2. \A i \in 1..n : i - 1 \in S => i \in S
  <2> TAKE i \in 1..n
  <2>1. i - 1 \in Nat /\ i = (i - 1) + 1
    OBVIOUS
  <2> QED
    BY <2>1
<1> QED
  BY <1>2, UpTo

(* The function that starts at a value and goes on by the step of each     *)
(* number exists.                                                          *)
Steps(n, X) == [1..n -> [X -> X]]

Stepped(n, X, start, step, g) ==
    /\ g \in [0..n -> X]
    /\ g[0] = start
    /\ \A i \in 1..n : g[i] = step[i][g[i - 1]]

LEMMA StepsExist ==
    ASSUME NEW n \in Nat, NEW X, NEW start \in X, NEW step \in Steps(n, X)
    PROVE  \E g : Stepped(n, X, start, step, g)
<1>0. step \in [1..n -> [X -> X]]
  BY DEF Steps
<1> DEFINE Runs(g, k) == /\ g[0] = start
                         /\ \A i \in 1..k : g[i] = step[i][g[i - 1]]
           S == {k \in 0..n : \E g \in [0..k -> X] : Runs(g, k)}
<1>1. 0 \in S
  <2> DEFINE g == [i \in 0..0 |-> start]
  <2>1. g \in [0..0 -> X] /\ Runs(g, 0)
    OBVIOUS
  <2>2. \E f \in [0..0 -> X] : Runs(f, 0)
    BY <2>1
  <2> HIDE DEF Runs
  <2> QED
    BY <2>2
<1>2. ASSUME NEW k \in 1..n, k - 1 \in S PROVE k \in S
  <2>1. PICK g \in [0..(k - 1) -> X] : Runs(g, k - 1)
    BY <1>2
  <2> DEFINE h == [i \in 0..k |-> IF i < k THEN g[i] ELSE step[k][g[k - 1]]]
  <2>2. h \in [0..k -> X]
    BY <1>0
  <2>3. h[0] = start
    BY <2>1
  <2>4. ASSUME NEW i \in 1..k PROVE h[i] = step[i][h[i - 1]]
    <3>1. CASE i < k
      <4>1. i \in 1..(k - 1) /\ i - 1 \in 0..k /\ i - 1 < k
        BY <3>1
      <4> QED
        BY <2>1, <3>1, <4>1
    <3>2. CASE i = k
      BY <3>2
    <3> QED
      BY <3>1, <3>2
  <2>5. \E f \in [0..k -> X] : Runs(f, k)
    BY <2>2, <2>3, <2>4
  <2> HIDE DEF Runs
  <2> QED
    BY <2>5
<1>3. 0..n \subseteq S
  <2> HIDE DEF S
  <2> QED
    BY <1>1, <1>2, UpTo
<1>4. n \in S
  <2> HIDE DEF S
  <2> QED
    BY <1>3
<1>5. \E g : Stepped(n, X, start, step, g)
  BY <1>4 DEF Stepped
<1> QED
  BY <1>5
----------------------------------------------------------------------------
(* Sorted sets. *)

(* When the elements below each of a finite set are a strict order, the    *)
(* number of them is its place.                                            *)
LEMMA Ranked ==
    ASSUME NEW S, IsFiniteSet(S), NEW below \in [S -> SUBSET S],
           \A x \in S : x \notin below[x],
           \A x, y \in S : x \in below[y] => below[x] \subseteq below[y],
           \A x, y \in S : x = y \/ x \in below[y] \/ y \in below[x]
    PROVE  /\ Cardinality(S) \in Nat
           /\ \A x \in S : Cardinality(below[x]) \in 0..(Cardinality(S) - 1)
           /\ \A x, y \in S : Cardinality(below[x]) < Cardinality(below[y]) <=> x \in below[y]
           /\ \A k \in 1..Cardinality(S) : \E x \in S : Cardinality(below[x]) = k - 1
<1> DEFINE n == Cardinality(S)
           rank == [x \in S |-> Cardinality(below[x])]
<1>1. n \in Nat
  BY FS_CardinalityType
<1>2. \A x \in S : IsFiniteSet(below[x]) /\ rank[x] \in Nat /\ rank[x] <= n
  BY FS_Subset, FS_CardinalityType
<1>3. ASSUME NEW x \in S PROVE rank[x] \in 0..(n - 1)
  <2>1. below[x] # S
    OBVIOUS
  <2>2. rank[x] # n
    BY <2>1, FS_Subset
  <2> QED
    BY <1>1, <1>2, <2>2
<1>4. ASSUME NEW x \in S, NEW y \in S, x \in below[y] PROVE rank[x] < rank[y]
  <2>1. below[x] \subseteq below[y] /\ below[x] # below[y]
    BY <1>4
  <2>2. Cardinality(below[x]) <= Cardinality(below[y]) /\ Cardinality(below[x]) # Cardinality(below[y])
    BY <1>2, <2>1, FS_Subset
  <2> QED
    BY <1>2, <2>2
<1>5. ASSUME NEW x \in S, NEW y \in S PROVE rank[x] < rank[y] <=> x \in below[y]
  <2>1. CASE x = y
    BY <1>2, <2>1
  <2>2. CASE x \in below[y]
    BY <1>4, <2>2
  <2>3. CASE y \in below[x]
    BY <1>2, <1>4, <2>3
  <2> QED
    BY <2>1, <2>2, <2>3
<1>6. rank \in Surjection(S, 0..(n - 1))
  <2>1. rank \in [S -> 0..(n - 1)]
    BY <1>3
  <2>2. \A x, y \in S : rank[x] = rank[y] => x = y
    <3> SUFFICES ASSUME NEW x \in S, NEW y \in S, rank[x] = rank[y] PROVE x = y
      OBVIOUS
    <3>1. ~(rank[x] < rank[y]) /\ ~(rank[y] < rank[x])
      BY <1>2
    <3> QED
      BY <1>5, <3>1
  <2>3. rank \in Injection(S, 0..(n - 1))
    BY <2>1, <2>2 DEF Injection, IsInjective
  <2>4. IsFiniteSet(0..(n - 1)) /\ Cardinality(0..(n - 1)) = n
    <3>1. n - 1 \in Int /\ (IF 0 <= n - 1 THEN (n - 1) - 0 + 1 ELSE 0) = n
      BY <1>1
    <3>2. /\ IsFiniteSet(0..(n - 1))
          /\ Cardinality(0..(n - 1)) = IF 0 <= n - 1 THEN (n - 1) - 0 + 1 ELSE 0
      BY <3>1, FS_Interval
    <3> QED
      BY <3>1, <3>2
  <2> HIDE DEF rank
  <2> QED
    BY <2>3, <2>4, FS_Injection
<1>7. ASSUME NEW k \in 1..n PROVE \E x \in S : rank[x] = k - 1
  <2>1. k - 1 \in 0..(n - 1)
    BY <1>1
  <2> HIDE DEF rank
  <2> QED
    BY <1>6, <2>1 DEF Surjection
<1> QED
  BY <1>1, <1>3, <1>5, <1>7

(* A sequence lists a set of numbers in their order. *)
Lists(q, n, S) ==
    /\ q \in [1..n -> S]
    /\ \A i, j \in 1..n : i < j => q[i] < q[j]
    /\ \A x \in S : \E i \in 1..n : q[i] = x

(* Sorted numbers are listed, *)
LEMMA SortedLists ==
    ASSUME NEW S, S \subseteq Int, IsFiniteSet(S)
    PROVE  Cardinality(S) \in Nat /\ Lists(Sorted(S, <), Cardinality(S), S)
<1> DEFINE below == [x \in S |-> {y \in S : y < x}]
           n == Cardinality(S)
           q == Sorted(S, <)
<1>1. /\ n \in Nat
      /\ \A x \in S : Cardinality(below[x]) \in 0..(n - 1)
      /\ \A x, y \in S : Cardinality(below[x]) < Cardinality(below[y]) <=> x \in below[y]
      /\ \A k \in 1..n : \E x \in S : Cardinality(below[x]) = k - 1
  <2>1. below \in [S -> SUBSET S]
    OBVIOUS
  <2>2. \A x \in S : x \notin below[x]
    OBVIOUS
  <2>3. ASSUME NEW x \in S, NEW y \in S, x \in below[y] PROVE below[x] \subseteq below[y]
    <3> SUFFICES ASSUME NEW z \in below[x] PROVE z \in below[y]
      OBVIOUS
    <3>1. z \in S /\ z < x /\ x < y
      BY <2>3
    <3>2. z \in Int /\ x \in Int /\ y \in Int
      BY <3>1
    <3> QED
      BY <3>1, <3>2
  <2>4. \A x, y \in S : x = y \/ x \in below[y] \/ y \in below[x]
    OBVIOUS
  <2> HIDE DEF below
  <2> QED
    BY <2>1, <2>2, <2>3, <2>4, Ranked
<1>2. ASSUME NEW k \in 1..n PROVE q[k] \in S /\ Cardinality(below[q[k]]) = k - 1
  <2>1. q[k] = CHOOSE x \in S : Cardinality({y \in S : y < x}) = k - 1
    BY DEF Sorted
  <2>2. \A x \in S : below[x] = {y \in S : y < x}
    OBVIOUS
  <2>3. PICK x \in S : Cardinality({y \in S : y < x}) = k - 1
    BY <1>1, <2>2
  <2> HIDE DEF below, q
  <2> QED
    BY <2>1, <2>2, <2>3
<1>7. q = [k \in 1..n |-> q[k]]
  <2> DEFINE f(k) == CHOOSE x \in S : Cardinality({y \in S : y < x}) = k - 1
  <2>1. q = [k \in 1..n |-> f(k)]
    BY DEF Sorted
  <2> HIDE DEF f, q
  <2> QED
    BY <2>1
<1>3. \A x, y \in S : x \in below[y] <=> x < y
  OBVIOUS
<1> HIDE DEF below, q
<1>5. ASSUME NEW i \in 1..n, NEW j \in 1..n, i < j PROVE q[i] < q[j]
  <2>1. Cardinality(below[q[i]]) = i - 1 /\ Cardinality(below[q[j]]) = j - 1
    BY <1>2
  <2>2. Cardinality(below[q[i]]) < Cardinality(below[q[j]])
    BY <1>1, <1>5, <2>1
  <2>3. q[i] \in below[q[j]]
    BY <1>1, <1>2, <2>2
  <2> QED
    BY <1>2, <1>3, <2>3
<1>6. ASSUME NEW x \in S PROVE \E i \in 1..n : q[i] = x
  <2> DEFINE i == Cardinality(below[x]) + 1
  <2>1. i \in 1..n
    BY <1>1
  <2>2. q[i] \in S /\ Cardinality(below[q[i]]) = Cardinality(below[x])
    BY <1>1, <1>2, <2>1
  <2>3. ~(q[i] < x) /\ ~(x < q[i])
    <3>1. Cardinality(below[x]) \in 0..(n - 1)
      BY <1>1
    <3>2. ~(Cardinality(below[q[i]]) < Cardinality(below[x]))
          /\ ~(Cardinality(below[x]) < Cardinality(below[q[i]]))
      BY <1>1, <2>2, <3>1
    <3>3. q[i] \notin below[x] /\ x \notin below[q[i]]
      BY <1>1, <2>2, <3>2
    <3> QED
      BY <1>3, <2>2, <3>3
  <2>4. q[i] \in Int /\ x \in Int
    BY <2>2
  <2> QED
    BY <2>1, <2>3, <2>4
<1>8. q \in [1..n -> S]
  BY <1>2, <1>7
<1> QED
  BY <1>1, <1>5, <1>6, <1>8 DEF Lists, q

(* a set has one listing, *)
LEMMA ListsOnce ==
    ASSUME NEW S, S \subseteq Int, NEW n \in Nat, NEW p, NEW q, Lists(p, n, S), Lists(q, n, S)
    PROVE  p = q
<1> DEFINE T == {k \in 1..n : p[k] # q[k]}
<1>1. SUFFICES ASSUME T # {} PROVE FALSE
  BY DEF Lists
<1>2. PICK k \in T : \A j \in T : k <= j
  <2>1. T \subseteq Nat
    OBVIOUS
  <2> QED
    BY <1>1, <2>1, LeastExists
<1>3. \A i \in 1..n : i < k => p[i] = q[i]
  BY <1>2
<1>4. PICK i, j \in 1..n : q[i] = p[k] /\ p[j] = q[k]
  BY <1>2 DEF Lists
<1>5. p[k] \in Int /\ q[k] \in Int /\ p[k] # q[k]
  BY <1>2 DEF Lists
<1>6. q[k] < p[k]
  <2>1. ~(i < k) /\ i # k
    BY <1>2, <1>3, <1>4, <1>5 DEF Lists
  <2> QED
    BY <1>2, <1>4, <2>1 DEF Lists
<1>7. p[k] < q[k]
  <2>1. ~(j < k) /\ j # k
    BY <1>2, <1>3, <1>4, <1>5 DEF Lists
  <2> QED
    BY <1>2, <1>4, <2>1 DEF Lists
<1> QED
  BY <1>5, <1>6, <1>7

(* and what lists a set is the sorted set. *)
LEMMA ListedIsSorted ==
    ASSUME NEW S, S \subseteq Int, NEW n \in Nat, NEW q, Lists(q, n, S)
    PROVE  IsFiniteSet(S) /\ Cardinality(S) = n /\ Sorted(S, <) = q
<1>1. q \in Bijection(1..n, S)
  <2>1. \A i, j \in 1..n : q[i] = q[j] => i = j
    <3> SUFFICES ASSUME NEW i \in 1..n, NEW j \in 1..n, q[i] = q[j], i # j PROVE FALSE
      OBVIOUS
    <3>1. q[i] \in Int /\ (i < j => q[i] < q[j]) /\ (j < i => q[j] < q[i])
      BY DEF Lists
    <3> QED
      BY <3>1
  <2> QED
    BY <2>1 DEF Lists, Bijection, Injection, Surjection, IsInjective
<1>2. IsFiniteSet(S) /\ Cardinality(S) = n
  <2>1. ExistsBijection(1..n, S)
    BY <1>1 DEF ExistsBijection
  <2> QED
    BY <2>1, FS_NatBijection, FS_CountingElements
<1>3. Lists(Sorted(S, <), n, S)
  BY <1>2, SortedLists
<1> DEFINE p == Sorted(S, <)
<1> HIDE DEF p
<1>4. p = q
  BY <1>3, ListsOnce DEF p
<1> QED
  BY <1>2, <1>4 DEF p

(* What is picked is the sequence along a listing of the positions. *)
Along(s, q, n) == [i \in 1..n |-> s[q[i]]]

LEMMA PicksListed ==
    ASSUME NEW s, NEW K, K \subseteq Int, NEW n \in Nat, NEW q, Lists(q, n, K)
    PROVE  Picked(s, K) = Along(s, q, n)
<1>1. Sorted(K, <) = q
  BY ListedIsSorted
<1>2. DOMAIN q = 1..n
  BY DEF Lists
<1> QED
  BY <1>1, <1>2 DEF Picked, Along
=============================================================================
