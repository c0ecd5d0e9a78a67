---------------------------- MODULE NatInduction ----------------------------
(***************************************************************************)
(* Induction over the naturals stated about sets, so that the provers can  *)
(* use it: a set of naturals that holds 0 and is closed under successor is *)
(* all of Nat.  From it, that a running sum is a well defined function.    *)
(***************************************************************************)
EXTENDS Integers, TLAPS, WellFoundedInduction

\* Every inhabited set of naturals has a least element.
LEMMA LeastNat ==
  ASSUME NEW T \in SUBSET Nat, T # {}
  PROVE  \E x \in T : \A y \in T : x <= y
<1> DEFINE R == {ss \in Nat \X Nat : ss[1] < ss[2]}
<1>1. IsWellFoundedOn(R, Nat)
  BY NatLessThanWellFounded DEF OpToRel
<1>2. \E x \in T : \A y \in T : ~(<<y, x>> \in R)
  <2> HIDE DEF R
  <2> QED BY <1>1, WFMin
<1>3. PICK x \in T : \A y \in T : ~(<<y, x>> \in R)
  BY <1>2
<1>4. ASSUME NEW y \in T PROVE x <= y
  <2>1. ~(<<y, x>> \in R)
    BY <1>3
  <2>2. <<y, x>> \in Nat \X Nat /\ <<y, x>>[1] = y /\ <<y, x>>[2] = x
    OBVIOUS
  <2>3. ~(y < x)
    BY <2>1, <2>2
  <2> QED BY <2>3
<1> QED BY <1>4

\* Induction: what holds of 0 and passes from n to n + 1 holds of every n.
LEMMA SetInduction ==
  ASSUME NEW S \in SUBSET Nat, 0 \in S, \A n \in S : n + 1 \in S
  PROVE  S = Nat
<1> SUFFICES ASSUME Nat \ S # {} PROVE FALSE
  OBVIOUS
<1>1. PICK x \in Nat \ S : \A y \in Nat \ S : x <= y
  BY LeastNat
<1>2. x # 0 /\ x - 1 \in Nat
  BY <1>1
<1>3. x - 1 \in S
  BY <1>1, <1>2
<1> QED BY <1>1, <1>2, <1>3

\* An inhabited set of naturals within a bound has a greatest element.
LEMMA GreatestNat ==
  ASSUME NEW n \in Nat, NEW T \in SUBSET (0..n), T # {}
  PROVE  \E x \in T : \A y \in T : y <= x
<1> DEFINE S == {n - x : x \in T}
<1>1. S \in SUBSET Nat /\ S # {}
  OBVIOUS
<1>2. PICK s \in S : \A t \in S : s <= t
  <2> HIDE DEF S
  <2> QED BY <1>1, LeastNat
<1>3. PICK x \in T : s = n - x
  OBVIOUS
<1>4. ASSUME NEW y \in T PROVE y <= x
  <2>1. s <= n - y
    BY <1>2
  <2> QED BY <1>3, <2>1
<1> QED BY <1>4

\* The product of two naturals is one (the solver has no rule for it).
LEMMA ProductNat ==
  ASSUME NEW a \in Nat, NEW b \in Nat
  PROVE  a * b \in Nat
<1> DEFINE S == {n \in Nat : n * b \in Nat}
<1>1. 0 \in S
  OBVIOUS
<1>2. \A n \in S : n + 1 \in S
  <2>1. ASSUME NEW n \in S PROVE (n + 1) * b = n * b + b
    OBVIOUS
  <2> QED BY <2>1
<1>3. S = Nat
  <2> HIDE DEF S
  <2>1. S \in SUBSET Nat
    BY DEF S
  <2> QED BY <1>1, <1>2, <2>1, SetInduction
<1> QED BY <1>3

\* A function that satisfies the recursion of a running sum exists.
LEMMA RunningSum ==
  ASSUME NEW n \in Nat, NEW v \in [1..n -> Int]
  PROVE  \E f \in [0..n -> Int] :
            f = [i \in 0..n |-> IF i = 0 THEN 0 ELSE f[i - 1] + v[i]]
<1> DEFINE Sums(f, k) == \A i \in 0..k : f[i] = IF i = 0 THEN 0 ELSE f[i - 1] + v[i]
           S == {k \in Nat : k <= n => \E f \in [0..k -> Int] : Sums(f, k)}
<1>1. 0 \in S
  <2>1. [i \in 0..0 |-> 0] \in [0..0 -> Int] /\ Sums([i \in 0..0 |-> 0], 0)
    OBVIOUS
  <2> QED BY <2>1
<1>2. ASSUME NEW k \in S PROVE k + 1 \in S
  <2>1. ASSUME k + 1 <= n
        PROVE  \E f \in [0..(k + 1) -> Int] : Sums(f, k + 1)
    <3>1. k \in Nat /\ k <= n
      BY <2>1
    <3>2. PICK g \in [0..k -> Int] : Sums(g, k)
      BY <3>1
    <3> DEFINE f == [i \in 0..(k + 1) |-> IF i <= k THEN g[i] ELSE g[k] + v[k + 1]]
    <3>3. f \in [0..(k + 1) -> Int]
      BY <2>1, <3>1
    <3>4. ASSUME NEW i \in 0..(k + 1)
          PROVE  f[i] = IF i = 0 THEN 0 ELSE f[i - 1] + v[i]
      <4>1. CASE i <= k
        <5>1. f[i] = g[i] /\ (i # 0 => f[i - 1] = g[i - 1])
          BY <3>1, <4>1
        <5>2. g[i] = IF i = 0 THEN 0 ELSE g[i - 1] + v[i]
          BY <3>1, <3>2, <4>1
        <5> QED BY <5>1, <5>2
      <4>2. CASE i = k + 1
        <5>1. f[i] = g[k] + v[k + 1] /\ f[i - 1] = g[k]
          BY <3>1, <4>2
        <5> QED BY <3>1, <4>2, <5>1
      <4> QED BY <3>1, <4>1, <4>2
    <3> HIDE DEF f
    <3> QED BY <3>3, <3>4
  <2>2. k \in Nat
    OBVIOUS
  <2> HIDE DEF Sums
  <2> QED BY <2>1, <2>2
<1>3. n \in S
  <2> HIDE DEF S
  <2>1. S \in SUBSET Nat
    BY DEF S
  <2> QED BY <1>1, <1>2, <2>1, SetInduction
<1>4. PICK f \in [0..n -> Int] : Sums(f, n)
  BY <1>3
<1>5. f = [i \in 0..n |-> IF i = 0 THEN 0 ELSE f[i - 1] + v[i]]
  BY <1>4
<1> QED BY <1>5
=============================================================================
