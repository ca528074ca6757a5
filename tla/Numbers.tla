------------------------------- MODULE Numbers -------------------------------
(***************************************************************************)
(* Lemmas about natural numbers that several proofs need: the least number  *)
(* of a set, which stands for induction, and division with remainder.      *)
(***************************************************************************)
EXTENDS Integers, FiniteSetsExt, WellFoundedInduction, TLAPS

\* Every set of numbers has a least one, which Min finds.
LEMMA LeastNat ==
    ASSUME NEW T, T \subseteq Nat, T # {}
    PROVE  \E x \in T : \A y \in T : x <= y
<1>1. PICK x \in T : \A y \in T : ~ (<<y, x>> \in OpToRel(<, Nat))
  BY NatLessThanWellFounded, WFMin
<1>2. \A y \in T : y \in Nat /\ ~(y < x)
  BY <1>1 DEF OpToRel
<1>3. x \in Nat
  OBVIOUS
<1> QED
  BY <1>2, <1>3

LEMMA MinLemma ==
    ASSUME NEW T, T \subseteq Nat, T # {}
    PROVE  Min(T) \in T /\ \A y \in T : Min(T) <= y
  BY LeastNat DEF Min

LEMMA DivMod ==
    ASSUME NEW n \in Nat, NEW d \in Nat, d > 0
    PROVE  /\ n \div d \in Nat
           /\ n % d \in 0..d - 1
           /\ n = d * (n \div d) + (n % d)
  OBVIOUS

LEMMA DivBounds ==
    ASSUME NEW n \in Nat, NEW d \in Nat, d > 0, NEW a \in Nat
    PROVE  /\ n < a * d => n \div d < a
           /\ n >= a * d => n \div d >= a
<1> DEFINE q == n \div d
           r == n % d
<1>1. /\ q \in Nat /\ r \in 0..d - 1
      /\ n = d * q + r
  BY DivMod
<1> HIDE DEF q, r
<1>2. ASSUME q >= a PROVE n >= a * d
  <2>1. d * q >= a * d
    BY <1>1, <1>2
  <2> QED
    BY <1>1, <2>1
<1>3. ASSUME q < a PROVE n < a * d
  <2>1. q + 1 <= a
    BY <1>1, <1>3
  <2>2. d * (q + 1) <= a * d
    BY <1>1, <2>1
  <2>3. d * (q + 1) = d * q + d
    BY <1>1
  <2> QED
    BY <1>1, <2>2, <2>3
<1>4. (n < a * d => q < a) /\ (n >= a * d => q >= a)
  BY <1>1, <1>2, <1>3
<1> QED
  BY <1>4 DEF q

LEMMA DivMonotone ==
    ASSUME NEW d \in Nat, d > 0, NEW m \in Nat, NEW n \in Nat, m <= n
    PROVE  m \div d <= n \div d
<1> DEFINE q == m \div d
<1>1. q \in Nat /\ m = d * q + (m % d) /\ m % d \in Nat
  BY DivMod
<1> HIDE DEF q
<1>2. n >= q * d
  BY <1>1
<1>3. n \div d >= q
  BY <1>1, <1>2, DivBounds
<1> QED
  BY <1>3 DEF q

LEMMA DivUnique ==
    ASSUME NEW d \in Nat, d > 0, NEW q \in Nat, NEW r \in 0..d - 1
    PROVE  /\ q * d + r \in Nat
           /\ (q * d + r) \div d = q
           /\ (q * d + r) % d = r
<1> DEFINE n == q * d + r
           k == n \div d
           m == n % d
<1>1. n \in Nat
  OBVIOUS
<1>2. k \in Nat /\ m \in 0..d - 1 /\ n = d * k + m
  BY <1>1, DivMod
<1>3. n = d * q + r
  OBVIOUS
<1> HIDE DEF n, k, m
<1>4. ~(k < q)
  <2>1. SUFFICES ASSUME k + 1 <= q PROVE FALSE
    BY <1>2
  <2>2. d * (k + 1) <= d * q /\ d * (k + 1) = d * k + d
    BY <1>2, <2>1
  <2> QED
    BY <1>2, <1>3, <2>2
<1>5. ~(q < k)
  <2>1. SUFFICES ASSUME q + 1 <= k PROVE FALSE
    BY <1>2
  <2>2. d * (q + 1) <= d * k /\ d * (q + 1) = d * q + d
    BY <1>2, <2>1
  <2> QED
    BY <1>2, <1>3, <2>2
<1>6. k = q
  BY <1>2, <1>4, <1>5
<1> QED
  BY <1>1, <1>2, <1>3, <1>6 DEF n, k, m
=============================================================================
