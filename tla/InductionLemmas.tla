--------------------------- MODULE InductionLemmas ---------------------------
(***************************************************************************)
(* Induction over the naturals for a set instead of a predicate, and what  *)
(* follows from it: functions defined by iteration, least and greatest     *)
(* elements.                                                               *)
(***************************************************************************)
EXTENDS Integers, FiniteSets, TLAPS

LOCAL INSTANCE WellFoundedInduction

\* Every non-empty set of naturals has a least element.
LEMMA LeastNat ==
  ASSUME NEW T, T \subseteq Nat, T # {}
  PROVE  \E n \in T : \A m \in T : n <= m
<1> DEFINE R == {pair \in Nat \X Nat : pair[1] < pair[2]}
<1>1. OpToRel(<, Nat) = R
  BY Zenon DEF OpToRel
<1>2. IsWellFoundedOn(R, Nat)
  BY <1>1, NatLessThanWellFounded, Zenon
<1>3. PICK n \in T : \A m \in T : ~(<<m, n>> \in R)
  <2> HIDE DEF R
  <2>1. QED
    BY <1>2, WFMin, Zenon
<1>4. ASSUME NEW m \in T, m < n  PROVE FALSE
  <2>1. <<m, n>> \in R
    BY <1>4
  <2>2. QED
    BY <1>3, <2>1
<1>5. QED
  BY <1>3, <1>4

\* Every non-empty set of naturals up to k has a greatest element.
LEMMA GreatestNat ==
  ASSUME NEW k \in Nat, NEW T, T \subseteq 0..k, T # {}
  PROVE  \E n \in T : \A m \in T : m <= n
<1> DEFINE gap == {d \in 0..k : k - d \in T}
<1>1. \A m \in T : k - m \in gap
  OBVIOUS
<1>2. gap \subseteq Nat /\ gap # {}
  <2>1. PICK m \in T : TRUE
    OBVIOUS
  <2>2. k - m \in gap
    BY <1>1, <2>1
  <2>3. QED
    BY <2>2
<1>3. PICK d \in gap : \A e \in gap : d <= e
  BY <1>2, LeastNat
<1>4. QED
  BY <1>1, <1>3

\* A set that has 0, and n + 1 whenever it has n, has every natural.
LEMMA SetInduction ==
  ASSUME NEW S, 0 \in S, \A n \in Nat : n \in S => n + 1 \in S
  PROVE  \A n \in Nat : n \in S
<1> SUFFICES ASSUME NEW k \in Nat, k \notin S  PROVE FALSE
  OBVIOUS
<1>1. PICK n \in Nat \ S : \A m \in Nat \ S : n <= m
  BY LeastNat
<1>2. n # 0 /\ n - 1 \in Nat
  BY <1>1
<1>3. n - 1 \in S
  BY <1>1, <1>2
<1>4. QED
  BY <1>1, <1>2, <1>3

\* f holds what N applications of F make of x, one after the other.
IsIteration(f, N, X, x, F) ==
    f \in [0..N -> X] /\ f[0] = x /\ \A k \in 1..N : f[k] = F[f[k - 1]]

\* The values that iterating F from x takes are those of a function.
LEMMA IterationExists ==
  ASSUME NEW N \in Nat, NEW X, NEW x \in X, NEW F \in [X -> X]
  PROVE  \E f : IsIteration(f, N, X, x, F)
<1> DEFINE Chain(f, n) == f[0] = x /\ \A k \in 1..n : f[k] = F[f[k - 1]]
           S == {n \in Nat : \E f \in [0..n -> X] : Chain(f, n)}
<1>1. 0 \in S
  <2>1. [k \in 0..0 |-> x] \in [0..0 -> X] /\ Chain([k \in 0..0 |-> x], 0)
    OBVIOUS
  <2>2. QED
    BY <2>1
<1>2. ASSUME NEW n \in Nat, n \in S  PROVE n + 1 \in S
  <2>1. PICK f \in [0..n -> X] : Chain(f, n)
    BY <1>2
  <2> DEFINE g == [k \in 0..(n + 1) |-> IF k = n + 1 THEN F[f[n]] ELSE f[k]]
  <2>2. g \in [0..(n + 1) -> X]
    <3>1. f[n] \in X
      BY <2>1
    <3>2. F[f[n]] \in X
      BY <3>1
    <3>3. QED
      BY <2>1, <3>2
  <2>3. g[0] = x
    BY <2>1
  <2>4. ASSUME NEW k \in 1..(n + 1)  PROVE g[k] = F[g[k - 1]]
    <3>1. CASE k = n + 1
      BY <2>1, <3>1
    <3>2. CASE k \in 1..n
      BY <2>1, <3>2
    <3>3. QED
      BY <3>1, <3>2
  <2>5. Chain(g, n + 1)
    BY <2>3, <2>4
  <2> HIDE DEF g, Chain
  <2>6. QED
    BY <2>2, <2>5
<1>3. N \in S
  <2> HIDE DEF S
  <2>1. QED
    BY <1>1, <1>2, SetInduction
<1>4. QED
  BY <1>3 DEF IsIteration

=============================================================================
