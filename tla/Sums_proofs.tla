---------------------------- MODULE Sums_proofs ----------------------------
(***************************************************************************)
(* What SumOf computes, by infinite descent: the least index at which a    *)
(* fact fails cannot exist.                                                *)
(***************************************************************************)
EXTENDS Sums, WellFoundedInduction, TLAPS

(* Every non-empty set of natural numbers has a least element. *)
LEMMA LeastElement ==
  ASSUME NEW T \in SUBSET Nat, T # {}
  PROVE  \E x \in T : \A y \in T : x <= y
<1> DEFINE R == {p \in Nat \X Nat : p[1] < p[2]}
<1>1. OpToRel(<, Nat) = R
  BY DEF OpToRel
<1>2. IsWellFoundedOn(R, Nat)
  BY <1>1, NatLessThanWellFounded
<1>3. \E x \in T : \A y \in T : ~ (<<y, x>> \in R)
  <2> HIDE DEF R
  <2> QED BY <1>2, WFMin
<1>4. PICK x \in T : \A y \in T : ~ (<<y, x>> \in R)
  BY <1>3
<1>5. \A y \in T : x <= y
  <2>1. SUFFICES ASSUME NEW y \in T PROVE ~(y < x)
    BY <2>1
  <2>2. x \in Nat /\ y \in Nat
    OBVIOUS
  <2>3. <<y, x>> \in R <=> y < x
    BY <2>2
  <2> QED BY <2>3, <1>4
<1>6. QED BY <1>5

(* What a set of indices closed under the step from k-1 to k contains. *)
LEMMA NoLeastCounterexample ==
  ASSUME NEW n \in Nat, NEW Good,
         0 \in Good,
         \A k \in 1..n : k - 1 \in Good => k \in Good
  PROVE  \A k \in 0..n : k \in Good
<1> DEFINE Bad == {k \in 0..n : k \notin Good}
<1>1. SUFFICES ASSUME Bad # {} PROVE FALSE
  OBVIOUS
<1>2. Bad \in SUBSET Nat
  OBVIOUS
<1>3. PICK x \in Bad : \A y \in Bad : x <= y
  <2> HIDE DEF Bad
  <2> QED BY <1>1, <1>2, LeastElement
<1>4. x \in 1..n /\ x - 1 \in 0..n /\ x - 1 \notin Bad
  BY <1>3
<1> QED BY <1>4

(* The equation that defines PrefixSums has a solution. *)
LEMMA PrefixSumsDef ==
  ASSUME NEW n \in Nat, NEW w \in [1..n -> Int]
  PROVE  PrefixSums(w, n) =
           [k \in 0..n |-> IF k = 0 THEN 0 ELSE PrefixSums(w, n)[k - 1] + w[k]]
<1> DEFINE Solves(s, m) ==
             s = [k \in 0..m |-> IF k = 0 THEN 0 ELSE s[k - 1] + w[k]]
           Good == {m \in 0..n : \E s : Solves(s, m)}
<1>1. 0 \in Good
  <2> DEFINE s == [k \in 0..0 |-> 0]
  <2>1. Solves(s, 0)
    OBVIOUS
  <2> HIDE DEF s
  <2>2. \E q : Solves(q, 0)
    BY <2>1
  <2> QED BY <2>2
<1>2. ASSUME NEW k \in 1..n, k - 1 \in Good
      PROVE  k \in Good
  <2>1. PICK s : Solves(s, k - 1)
    BY <1>2
  <2> DEFINE t == [j \in 0..k |-> IF j = k THEN s[k - 1] + w[k] ELSE s[j]]
  <2>2. ASSUME NEW j \in 0..k
        PROVE  t[j] = IF j = 0 THEN 0 ELSE t[j - 1] + w[j]
    <3>1. CASE j = k
      <4>1. t[j] = s[k - 1] + w[k] /\ t[j - 1] = s[j - 1]
        BY <3>1
      <4> QED BY <4>1, <3>1
    <3>2. CASE j # k
      <4>1. j \in 0..(k - 1)
        BY <3>2
      <4>2. t[j] = s[j] /\ (j # 0 => t[j - 1] = s[j - 1])
        BY <4>1
      <4>3. s[j] = IF j = 0 THEN 0 ELSE s[j - 1] + w[j]
        BY <2>1, <4>1
      <4> QED BY <4>2, <4>3
    <3> QED BY <3>1, <3>2
  <2>3. Solves(t, k)
    BY <2>2
  <2> HIDE DEF t
  <2>4. \E q : Solves(q, k)
    BY <2>3
  <2> QED BY <2>4
<1>3. n \in Good
  <2> HIDE DEF Good
  <2>1. \A k \in 0..n : k \in Good
    BY <1>1, <1>2, NoLeastCounterexample
  <2> QED BY <2>1
<1>4. \E s : Solves(s, n)
  BY <1>3
<1>5. PrefixSums(w, n) = CHOOSE s : Solves(s, n)
  BY DEF PrefixSums
<1>6. Solves(PrefixSums(w, n), n)
  <2> HIDE DEF Solves
  <2> QED BY <1>4, <1>5
<1> QED BY <1>6

LEMMA PrefixSumsStep ==
  ASSUME NEW n \in Nat, NEW w \in [1..n -> Int]
  PROVE  /\ PrefixSums(w, n)[0] = 0
         /\ \A k \in 1..n : PrefixSums(w, n)[k] = PrefixSums(w, n)[k - 1] + w[k]
<1> DEFINE s == PrefixSums(w, n)
<1>1. s = [k \in 0..n |-> IF k = 0 THEN 0 ELSE s[k - 1] + w[k]]
  BY PrefixSumsDef
<1> HIDE DEF s
<1>2. s[0] = 0
  BY <1>1
<1>3. \A k \in 1..n : s[k] = s[k - 1] + w[k]
  BY <1>1
<1> QED BY <1>2, <1>3 DEF s

(* A sum of integers is an integer, a sum of naturals a natural, and a sum *)
(* of zeros is zero.                                                       *)
LEMMA SumOfType ==
  ASSUME NEW n \in Nat, NEW w \in [1..n -> Int]
  PROVE  /\ SumOf(w, n) \in Int
         /\ (\A k \in 1..n : w[k] >= 0) => SumOf(w, n) >= 0
         /\ (\A k \in 1..n : w[k] = 0) => SumOf(w, n) = 0
<1> DEFINE s == PrefixSums(w, n)
           Good == {k \in 0..n : /\ s[k] \in Int
                                 /\ (\A j \in 1..n : w[j] >= 0) => s[k] >= 0
                                 /\ (\A j \in 1..n : w[j] = 0) => s[k] = 0}
<1>1. s[0] = 0 /\ \A k \in 1..n : s[k] = s[k - 1] + w[k]
  BY PrefixSumsStep
<1> HIDE DEF s
<1>2. 0 \in Good
  BY <1>1
<1>3. \A k \in 1..n : k - 1 \in Good => k \in Good
  BY <1>1
<1>4. n \in Good
  <2> HIDE DEF Good
  <2>1. \A k \in 0..n : k \in Good
    BY <1>2, <1>3, NoLeastCounterexample
  <2> QED BY <2>1
<1> QED BY <1>4 DEF SumOf, s

(* Changing one row by d changes the sum by d. *)
LEMMA SumOfChange ==
  ASSUME NEW n \in Nat, NEW w \in [1..n -> Int], NEW v \in [1..n -> Int],
         NEW r \in 1..n, NEW d \in Int,
         v[r] = w[r] + d,
         \A k \in 1..n : k # r => v[k] = w[k]
  PROVE  SumOf(v, n) = SumOf(w, n) + d
<1> DEFINE s == PrefixSums(w, n)
           t == PrefixSums(v, n)
           Good == {k \in 0..n : /\ s[k] \in Int
                                 /\ t[k] = s[k] + (IF k >= r THEN d ELSE 0)}
<1>1. s[0] = 0 /\ \A k \in 1..n : s[k] = s[k - 1] + w[k]
  BY PrefixSumsStep
<1>2. t[0] = 0 /\ \A k \in 1..n : t[k] = t[k - 1] + v[k]
  BY PrefixSumsStep
<1> HIDE DEF s, t
<1>3. 0 \in Good
  BY <1>1, <1>2
<1>4. ASSUME NEW k \in 1..n, k - 1 \in Good
      PROVE  k \in Good
  <2>1. s[k] = s[k - 1] + w[k] /\ t[k] = t[k - 1] + v[k]
    BY <1>1, <1>2
  <2>2. s[k - 1] \in Int /\ t[k - 1] = s[k - 1] + (IF k - 1 >= r THEN d ELSE 0)
    BY <1>4
  <2>3. w[k] \in Int /\ v[k] = w[k] + (IF k = r THEN d ELSE 0)
    OBVIOUS
  <2>4. s[k] \in Int
    BY <2>1, <2>2, <2>3
  <2>5. CASE k < r
    <3>1. t[k - 1] = s[k - 1] /\ v[k] = w[k]
      BY <2>2, <2>3, <2>5
    <3> QED BY <3>1, <2>1, <2>4, <2>5
  <2>6. CASE k = r
    <3>1. t[k - 1] = s[k - 1] /\ v[k] = w[k] + d
      BY <2>2, <2>3, <2>6
    <3>2. t[k] = s[k] + d
      BY <3>1, <2>1, <2>2, <2>3
    <3> QED BY <3>2, <2>4, <2>6
  <2>7. CASE k > r
    <3>1. t[k - 1] = s[k - 1] + d /\ v[k] = w[k]
      BY <2>2, <2>3, <2>7
    <3>2. t[k] = s[k] + d
      BY <3>1, <2>1, <2>2, <2>3
    <3> QED BY <3>2, <2>4, <2>7
  <2> QED BY <2>5, <2>6, <2>7
<1>5. n \in Good
  <2> HIDE DEF Good
  <2>1. \A k \in 0..n : k \in Good
    BY <1>3, <1>4, NoLeastCounterexample
  <2> QED BY <2>1
<1> QED BY <1>5 DEF SumOf, s, t

(* The sum depends on the rows only. *)
LEMMA SumOfEqual ==
  ASSUME NEW n \in Nat, NEW w \in [1..n -> Int], NEW v \in [1..n -> Int],
         \A k \in 1..n : v[k] = w[k]
  PROVE  SumOf(v, n) = SumOf(w, n)
<1>1. v = w
  OBVIOUS
<1> QED BY <1>1
=============================================================================
