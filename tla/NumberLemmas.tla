------------------------------- MODULE NumberLemmas -------------------------------
(****************************************************************************)
(* Facts about natural numbers that the proofs share: least and largest     *)
(* elements, induction for sets of numbers, and functions on numbers that   *)
(* are defined by recursion.                                                *)
(****************************************************************************)
EXTENDS Integers, FiniteSetTheorems, WellFoundedInduction, TLAPS

\* A set of numbers that is not empty has a least element.
LEMMA LeastElement ==
  ASSUME NEW S, S \subseteq Nat, S # {}
  PROVE  \E b \in S : \A c \in S : b <= c
<1> DEFINE R == {ss \in Nat \X Nat : ss[1] < ss[2]}
<1>1. IsWellFoundedOn(R, Nat)
  BY NatLessThanWellFounded DEF OpToRel
<1>2. \A x, y \in Nat : x < y => <<x, y>> \in R
  OBVIOUS
<1> HIDE DEF R
<1>3. PICK b \in S : \A c \in S : ~ (<<c, b>> \in R)
  BY <1>1, WFMin
<1>4. ASSUME NEW c \in S PROVE b <= c
  <2>1. b \in Nat /\ c \in Nat /\ ~(c < b)
    BY <1>2, <1>3
  <2> QED
    BY <2>1
<1> QED
  BY <1>4

\* Induction for a set of naturals: there is no least number outside.
LEMMA Induction ==
  ASSUME NEW T, 0 \in T, \A n \in Nat : n \in T => n + 1 \in T
  PROVE  Nat \subseteq T
<1> SUFFICES ASSUME Nat \ T # {} PROVE FALSE
  OBVIOUS
<1>1. PICK b \in Nat \ T : \A c \in Nat \ T : b <= c
  BY LeastElement
<1>2. b - 1 \in Nat /\ ~(b <= b - 1)
  OBVIOUS
<1>3. b - 1 \in T
  BY <1>1, <1>2
<1>4. (b - 1) + 1 = b
  OBVIOUS
<1> QED
  BY <1>2, <1>3, <1>4

\* A function defined by its first value and a step from each to the next.
Follows(f, n, a, step) == f[0] = a /\ \A k \in 1..n : f[k] = step[<<k, f[k - 1]>>]

LEMMA Recursion ==
  ASSUME NEW n \in Nat, NEW V, NEW a \in V, NEW step \in [(1..n) \X V -> V]
  PROVE  \E f \in [0..n -> V] : Follows(f, n, a, step)
<1> DEFINE Upto(m) == \E f \in [0..m -> V] : f[0] = a /\ \A k \in 1..m : f[k] = step[<<k, f[k - 1]>>]
           T == {m \in Nat : m <= n => Upto(m)}
<1>1. 0 \in T
  <2>1. [k \in 0..0 |-> a] \in [0..0 -> V] /\ [k \in 0..0 |-> a][0] = a /\ 1..0 = {}
    OBVIOUS
  <2> QED
    BY <2>1
<1>2. ASSUME NEW m \in Nat, m \in T PROVE m + 1 \in T
  <2> SUFFICES ASSUME m + 1 <= n PROVE Upto(m + 1)
    OBVIOUS
  <2>1. PICK f \in [0..m -> V] : f[0] = a /\ \A k \in 1..m : f[k] = step[<<k, f[k - 1]>>]
    BY <1>2
  <2> DEFINE g == [k \in 0..(m + 1) |-> IF k = m + 1 THEN step[<<m + 1, f[m]>>] ELSE f[k]]
  <2>2. m \in 0..m /\ m + 1 \in 1..n
    OBVIOUS
  <2>3. step[<<m + 1, f[m]>>] \in V
    BY <2>1, <2>2
  <2>4. \A k \in 0..(m + 1) : k # m + 1 => k \in 0..m
    OBVIOUS
  <2>5. g \in [0..(m + 1) -> V]
    BY <2>1, <2>3, <2>4
  <2>6. g[0] = a /\ g[m + 1] = step[<<m + 1, f[m]>>] /\ \A k \in 0..m : g[k] = f[k]
    BY <2>1
  <2> HIDE DEF g
  <2>7. ASSUME NEW k \in 1..(m + 1) PROVE g[k] = step[<<k, g[k - 1]>>]
    <3>1. CASE k = m + 1
      <4>1. k - 1 = m
        BY <3>1
      <4> QED
        BY <2>2, <2>6, <3>1, <4>1
    <3>2. CASE k # m + 1
      <4>1. k \in 1..m /\ k \in 0..m /\ k - 1 \in 0..m
        BY <3>2
      <4> QED
        BY <2>1, <2>6, <4>1
    <3> QED
      BY <3>1, <3>2
  <2> QED
    BY <2>5, <2>6, <2>7
<1> HIDE DEF T, Upto
<1>3. n \in T
  BY <1>1, <1>2, Induction
<1> QED
  BY <1>3 DEF T, Upto, Follows

\* Finitely many numbers have a largest one.
LEMMA Largest ==
  ASSUME NEW n \in Nat, NEW f \in [0..n -> Nat]
  PROVE  \E m \in 0..n : \A k \in 0..n : f[k] <= f[m]
<1> DEFINE T == {j \in Nat : j <= n => \E m \in 0..j : \A k \in 0..j : f[k] <= f[m]}
<1>1. 0 \in T
  <2>1. 0 \in 0..0 /\ (\A k \in 0..0 : k = 0) /\ f[0] \in Nat
    OBVIOUS
  <2> QED
    BY <2>1
<1>2. ASSUME NEW j \in Nat, j \in T PROVE j + 1 \in T
  <2> SUFFICES ASSUME j + 1 <= n PROVE \E m \in 0..(j + 1) : \A k \in 0..(j + 1) : f[k] <= f[m]
    OBVIOUS
  <2>1. PICK m \in 0..j : \A k \in 0..j : f[k] <= f[m]
    BY <1>2
  <2>2. \A k \in 0..(j + 1) : f[k] \in Nat /\ (k \in 0..j \/ k = j + 1)
    OBVIOUS
  <2>3. m \in 0..(j + 1) /\ j + 1 \in 0..(j + 1)
    OBVIOUS
  <2>4. CASE f[j + 1] <= f[m]
    BY <2>1, <2>2, <2>3, <2>4
  <2>5. CASE f[m] < f[j + 1]
    <3>1. \A k \in 0..(j + 1) : f[k] <= f[j + 1]
      BY <2>1, <2>2, <2>3, <2>5
    <3> QED
      BY <2>3, <3>1
  <2> QED
    BY <2>2, <2>3, <2>4, <2>5
<1> HIDE DEF T
<1>3. n \in T
  BY <1>1, <1>2, Induction
<1> QED
  BY <1>3 DEF T
====================================================================================
