--------------------------- MODULE InductionFacts ---------------------------
(***************************************************************************)
(* Induction without an operator parameter.  The provers cannot match the  *)
(* predicate of an induction theorem, but they can match a set: a set of   *)
(* natural numbers has a least element, so a set that has 0 and the        *)
(* successor of each of its elements has every natural number.  What loops *)
(* add up and how sequences grow rests on it.                              *)
(***************************************************************************)
EXTENDS Integers, WellFoundedInduction, TLAPS

\* A set of natural numbers that is not empty has a least element.
LEMMA LeastNatural ==
  ASSUME NEW T \in SUBSET Nat, T # {}
  PROVE  \E x \in T : \A y \in T : x <= y
<1> DEFINE R == OpToRel(<, Nat)
<1>1. IsWellFoundedOn(R, Nat)
  BY NatLessThanWellFounded
<1>2. \A i, j \in Nat : i < j => <<i, j>> \in R
  BY DEF OpToRel
<1> HIDE DEF R
<1>3. PICK x \in T : \A y \in T : ~(<<y, x>> \in R)
  BY <1>1, WFMin
<1>4. \A y \in T : ~(y < x)
  BY <1>2, <1>3
<1>5. \A y \in T : x <= y
  BY <1>4
<1> QED
  BY <1>5

\* If it is bounded it has a greatest element.
LEMMA GreatestNatural ==
  ASSUME NEW T \in SUBSET Nat, T # {}, NEW n \in Nat, \A y \in T : y <= n
  PROVE  \E x \in T : \A y \in T : y <= x
<1> DEFINE U == {n - y : y \in T}
<1>1. U \in SUBSET Nat /\ U # {}
  <2>1. \A y \in T : n - y \in Nat
    OBVIOUS
  <2>2. \A u \in U : u \in Nat
    BY <2>1
  <2>3. PICK y \in T : TRUE
    OBVIOUS
  <2>4. n - y \in U
    OBVIOUS
  <2> QED
    BY <2>2, <2>4
<1>2. PICK u \in U : \A v \in U : u <= v
  BY <1>1, LeastNatural
<1>3. PICK x \in T : u = n - x
  OBVIOUS
<1>4. \A y \in T : n - x <= n - y
  BY <1>2, <1>3
<1> QED
  BY <1>4

\* Induction: a set with 0 and with every successor has all natural numbers.
LEMMA SetInduction ==
  ASSUME NEW S \in SUBSET Nat, 0 \in S, \A n \in S : n + 1 \in S
  PROVE  S = Nat
<1>1. SUFFICES ASSUME Nat \ S # {} PROVE FALSE
  OBVIOUS
<1>2. PICK x \in Nat \ S : \A y \in Nat \ S : x <= y
  BY <1>1, LeastNatural
<1>3. x - 1 \in Nat /\ x - 1 \notin Nat \ S
  BY <1>2
<1> QED
  BY <1>3


\* The same up to a bound.
LEMMA BoundedInduction ==
  ASSUME NEW n \in Nat, NEW S \in SUBSET (0..n), 0 \in S, \A k \in S : k < n => k + 1 \in S
  PROVE  S = 0..n
<1> DEFINE T == {k \in Nat : k <= n => k \in S}
<1>1. T = Nat
  <2>1. 0 \in T /\ T \in SUBSET Nat
    OBVIOUS
  <2>2. \A k \in T : k + 1 \in T
    OBVIOUS
  <2> HIDE DEF T
  <2> QED BY <2>1, <2>2, SetInduction
<1>2. \A k \in 0..n : k \in T
  BY <1>1
<1>3. \A k \in 0..n : k \in S
  BY <1>2
<1> HIDE DEF T
<1> QED BY <1>3

\* A sequence that never falls from one place to the next never does.
LEMMA NeverFalls ==
  ASSUME NEW n \in Nat, NEW f \in [0..n -> Int], \A k \in 1..n : f[k - 1] <= f[k]
  PROVE  \A k \in 0..n : \A j \in 0..k : f[j] <= f[k]
<1> DEFINE T == {k \in 0..n : \A j \in 0..k : f[j] <= f[k]}
<1>1. 0 \in T /\ T \in SUBSET (0..n)
  OBVIOUS
<1>2. ASSUME NEW k \in T, k < n PROVE k + 1 \in T
  <2>1. k + 1 \in 1..n /\ k \in 0..n /\ (k + 1) - 1 = k
    BY <1>2
  <2>2. f[k] <= f[k + 1] /\ f[k] \in Int /\ f[k + 1] \in Int
    BY <2>1
  <2>3. ASSUME NEW j \in 0..(k + 1) PROVE f[j] <= f[k + 1]
    <3>1. CASE j = k + 1
      BY <2>2, <3>1
    <3>2. CASE j # k + 1
      <4>1. j \in 0..k /\ f[j] \in Int
        BY <2>1, <3>2
      <4> QED BY <2>2, <4>1
    <3> QED BY <3>1, <3>2
  <2> QED BY <2>1, <2>3
<1> HIDE DEF T
<1>3. T = 0..n
  BY <1>1, <1>2, BoundedInduction
<1> QED BY <1>3 DEF T

\* A positive factor can be left out of a comparison.
LEMMA Cancels ==
  ASSUME NEW d \in Nat, d > 0, NEW p \in Int, NEW q \in Int, d * p <= d * q
  PROVE  p <= q
<1> SUFFICES ASSUME q + 1 <= p PROVE FALSE
  OBVIOUS
<1>1. d * (q + 1) <= d * p /\ d * (q + 1) = d * q + d /\ d * q \in Int /\ d * p \in Int
  OBVIOUS
<1> QED BY <1>1

\* A loop that adds up n numbers computes a sequence of sums.
LEMMA PartialSums ==
  ASSUME NEW n \in Nat, NEW a \in [1..n -> Int]
  PROVE  \E s \in [0..n -> Int] :
           s = [k \in 0..n |-> IF k = 0 THEN 0 ELSE s[k - 1] + a[k]]
<1> DEFINE Sums(s, m) == s[0] = 0 /\ \A k \in 1..m : s[k] = s[k - 1] + a[k]
           Summed(m) == \E s \in [0..m -> Int] : Sums(s, m)
           S == {m \in 0..n : Summed(m)}
<1>1. 0 \in S
  <2>1. [k \in 0..0 |-> 0] \in [0..0 -> Int] /\ Sums([k \in 0..0 |-> 0], 0)
    OBVIOUS
  <2> HIDE DEF Sums
  <2>2. Summed(0)
    BY <2>1
  <2> QED BY <2>2
<1>2. ASSUME NEW m \in S, m < n PROVE m + 1 \in S
  <2>1. PICK s \in [0..m -> Int] : Sums(s, m)
    BY <1>2
  <2> DEFINE r == [k \in 0..(m + 1) |-> IF k <= m THEN s[k] ELSE s[m] + a[m + 1]]
  <2>2. m \in Nat /\ m + 1 \in 1..n
    BY <1>2
  <2>3. s[m] \in Int /\ a[m + 1] \in Int
    BY <2>2
  <2>4. \A k \in 0..(m + 1) : r[k] \in Int
    BY <2>2, <2>3
  <2>5. r \in [0..(m + 1) -> Int]
    BY <2>4
  <2>6. Sums(r, m + 1)
    <3>1. r[0] = 0
      BY <2>1, <2>2
    <3>2. ASSUME NEW k \in 1..(m + 1) PROVE r[k] = r[k - 1] + a[k]
      <4>1. CASE k <= m
        <5>1. k \in 1..m /\ k - 1 \in 0..m
          BY <2>2, <4>1
        <5>2. r[k] = s[k] /\ r[k - 1] = s[k - 1]
          BY <2>2, <5>1
        <5> QED BY <2>1, <5>1, <5>2
      <4>2. CASE ~(k <= m)
        <5>1. k = m + 1 /\ k - 1 = m
          BY <2>2, <4>2
        <5> QED BY <2>2, <5>1
      <4> QED BY <4>1, <4>2
    <3> QED BY <3>1, <3>2
  <2> HIDE DEF Sums, r
  <2>7. Summed(m + 1)
    BY <2>5, <2>6
  <2> QED BY <2>2, <2>7
<1>3. S = 0..n
  <2>1. S \in SUBSET (0..n)
    OBVIOUS
  <2> HIDE DEF S
  <2> QED BY <1>1, <1>2, <2>1, BoundedInduction
<1>4. PICK s \in [0..n -> Int] : Sums(s, n)
  <2>1. n \in 0..n
    OBVIOUS
  <2>2. n \in S
    BY <1>3, <2>1, Zenon
  <2> QED BY <2>2
<1>5. s = [k \in 0..n |-> IF k = 0 THEN 0 ELSE s[k - 1] + a[k]]
  <2>1. \A k \in 0..n : s[k] = IF k = 0 THEN 0 ELSE s[k - 1] + a[k]
    BY <1>4
  <2> QED BY <2>1
<1> QED BY <1>5
=============================================================================
