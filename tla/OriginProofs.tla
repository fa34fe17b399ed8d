---------------------------- MODULE OriginProofs ----------------------------
(***************************************************************************)
(* Proofs about what Origin is made of: the bay grid of GridEngine, for    *)
(* footprints of any size, and the graph of the shipped template.          *)
(***************************************************************************)
EXTENDS ShippedTemplates, GridEngine, InductionLemmas, TLAPS

LOCAL INSTANCE FiniteSetsExt
LOCAL INSTANCE FiniteSetTheorems
LOCAL INSTANCE Functions

-----------------------------------------------------------------------------
(* Induction over the subsets of a finite set.                             *)

\* A set of subsets of a finite set that has the empty one, and any other as soon as
\* it has what is left of it without some element, has them all.
LEMMA SubsetInduction ==
  ASSUME NEW S, IsFiniteSet(S), NEW Q, {} \in Q,
         \A T \in (SUBSET S) \ {{}} : (\A x \in T : T \ {x} \in Q) => T \in Q
  PROVE  \A T \in SUBSET S : T \in Q
<1> DEFINE P == {n \in Nat : \A T \in SUBSET S : Cardinality(T) = n => T \in Q}
<1>1. ASSUME NEW T \in SUBSET S
      PROVE  /\ Cardinality(T) \in Nat
             /\ Cardinality(T) = 0 <=> T = {}
             /\ \A x \in T : Cardinality(T \ {x}) = Cardinality(T) - 1
  BY FS_Subset, FS_CardinalityType, FS_EmptySet, FS_RemoveElement
<1>2. 0 \in P
  BY <1>1
<1>3. ASSUME NEW n \in Nat, n \in P  PROVE n + 1 \in P
  <2> SUFFICES ASSUME NEW T \in SUBSET S, Cardinality(T) = n + 1  PROVE T \in Q
    OBVIOUS
  <2>1. ASSUME NEW x \in T  PROVE T \ {x} \in Q
    <3>1. T \ {x} \in SUBSET S /\ Cardinality(T \ {x}) = n
      BY <1>1
    <3>2. QED
      BY <1>3, <3>1
  <2>2. T # {}
    BY <1>1
  <2>3. QED
    BY <2>1, <2>2
<1>4. \A n \in Nat : n \in P
  <2> HIDE DEF P
  <2>1. QED
    BY <1>2, <1>3, SetInduction
<1>5. QED
  BY <1>1, <1>4

\* Every non-empty finite set of integers has a greatest element.
LEMMA GreatestOfFinite ==
  ASSUME NEW S, IsFiniteSet(S), S \subseteq Int, S # {}
  PROVE  \E n \in S : \A m \in S : m <= n
<1> DEFINE Q == {T \in SUBSET S : T # {} => \E n \in T : \A m \in T : m <= n}
<1>1. {} \in Q
  OBVIOUS
<1>2. ASSUME NEW T \in (SUBSET S) \ {{}}, \A x \in T : T \ {x} \in Q
      PROVE  T \in Q
  <2>1. PICK x \in T : TRUE
    OBVIOUS
  <2>2. CASE T \ {x} = {}
    <3>1. \A m \in T : m = x
      BY <2>2
    <3>2. QED
      BY <2>1, <3>1
  <2>3. CASE T \ {x} # {}
    <3>1. PICK n \in T \ {x} : \A m \in T \ {x} : m <= n
      BY <1>2, <2>1, <2>3
    <3>2. n \in Int /\ x \in Int
      BY <2>1, <3>1
    <3>3. CASE x <= n
      <4>1. \A m \in T : m <= n
        BY <3>1, <3>3
      <4>2. QED
        BY <3>1, <4>1
    <3>4. CASE n <= x
      <4>1. \A m \in T : m <= x
        BY <3>1, <3>2, <3>4
      <4>2. QED
        BY <2>1, <4>1
    <3>5. QED
      BY <3>2, <3>3, <3>4
  <2>4. QED
    BY <2>2, <2>3
<1>3. \A T \in SUBSET S : T \in Q
  <2> HIDE DEF Q
  <2>1. QED
    BY <1>1, <1>2, SubsetInduction
<1>4. QED
  BY <1>3

-----------------------------------------------------------------------------
(* Sums over the subsets of a finite set.                                  *)

\* The sum of w over the subsets of S, the elements taken as c picks them.
SumsUp(f, S, w, c) ==
    f = [s \in SUBSET S |-> IF s = {} THEN 0 ELSE w[c[s]] + f[s \ {c[s]}]]

\* The recursion that adds up a finite set has a solution, and its values are
\* naturals.
LEMMA SumExists ==
  ASSUME NEW S, IsFiniteSet(S), NEW w \in [S -> Nat], NEW c,
         \A s \in (SUBSET S) \ {{}} : c[s] \in s
  PROVE  \E f \in [SUBSET S -> Nat] : SumsUp(f, S, w, c)
<1> DEFINE Small(n) == {s \in SUBSET S : Cardinality(s) <= n}
           Value(f, s) == IF s = {} THEN 0 ELSE w[c[s]] + f[s \ {c[s]}]
           P == {n \in Nat : \E f \in [Small(n) -> Nat] : \A s \in Small(n) : f[s] = Value(f, s)}
<1>1. ASSUME NEW s \in SUBSET S
      PROVE  /\ Cardinality(s) \in Nat
             /\ Cardinality(s) = 0 <=> s = {}
             /\ s # {} => Cardinality(s \ {c[s]}) = Cardinality(s) - 1
             /\ s # {} => w[c[s]] \in Nat
  BY FS_Subset, FS_CardinalityType, FS_EmptySet, FS_RemoveElement
<1>2. 0 \in P
  <2> DEFINE f == [s \in Small(0) |-> 0]
  <2>1. ASSUME NEW s \in Small(0)  PROVE s = {}
    <3>1. s \in SUBSET S /\ Cardinality(s) <= 0
      OBVIOUS
    <3>2. Cardinality(s) \in Nat /\ (Cardinality(s) = 0 <=> s = {})
      BY <1>1, <3>1
    <3>3. QED
      BY <3>1, <3>2
  <2>2. f \in [Small(0) -> Nat] /\ \A s \in Small(0) : f[s] = Value(f, s)
    BY <2>1
  <2> HIDE DEF f, Small, Value
  <2>3. QED
    BY <2>2
<1>3. ASSUME NEW n \in Nat, n \in P  PROVE n + 1 \in P
  <2>1. PICK f \in [Small(n) -> Nat] : \A s \in Small(n) : f[s] = Value(f, s)
    BY <1>3
  <2> DEFINE g == [s \in Small(n + 1) |-> Value(f, s)]
  <2>2. ASSUME NEW s \in Small(n + 1), s # {}
        PROVE  s \ {c[s]} \in Small(n) /\ w[c[s]] \in Nat
    <3>1. s \in SUBSET S /\ Cardinality(s) <= n + 1
      OBVIOUS
    <3>2. s \ {c[s]} \in SUBSET S /\ Cardinality(s \ {c[s]}) <= n
      BY <1>1, <2>2, <3>1
    <3>3. QED
      BY <1>1, <2>2, <3>1, <3>2
  <2>3. g \in [Small(n + 1) -> Nat]
    <3>1. ASSUME NEW s \in Small(n + 1)  PROVE Value(f, s) \in Nat
      BY <2>1, <2>2
    <3> HIDE DEF Small, Value
    <3>2. QED
      BY <3>1
  <2>4. ASSUME NEW s \in Small(n)  PROVE s \in Small(n + 1) /\ g[s] = f[s]
    <3>1. s \in Small(n + 1)
      <4>1. s \in SUBSET S /\ Cardinality(s) <= n
        OBVIOUS
      <4>2. Cardinality(s) \in Nat
        BY <1>1, <4>1
      <4>3. QED
        BY <4>1, <4>2
    <3>2. f[s] = Value(f, s)
      BY <2>1
    <3> HIDE DEF Small, Value
    <3>3. QED
      BY <3>1, <3>2
  <2>5. ASSUME NEW s \in Small(n + 1)  PROVE g[s] = Value(g, s)
    <3>1. CASE s = {}
      BY <3>1
    <3>2. CASE s # {}
      <4>1. g[s \ {c[s]}] = f[s \ {c[s]}]
        BY <2>2, <2>4, <3>2
      <4>2. g[s] = Value(f, s)
        OBVIOUS
      <4> HIDE DEF g
      <4>3. QED
        BY <3>2, <4>1, <4>2
    <3>3. QED
      BY <3>1, <3>2
  <2> HIDE DEF g, Small, Value
  <2>6. QED
    BY <2>3, <2>5
<1>4. Cardinality(S) \in P
  <2> HIDE DEF P
  <2>1. QED
    BY <1>1, <1>2, <1>3, SetInduction
<1>5. Small(Cardinality(S)) = SUBSET S
  <2>1. \A s \in SUBSET S : Cardinality(s) <= Cardinality(S)
    BY FS_Subset
  <2>2. QED
    BY <2>1
<1>6. PICK f \in [SUBSET S -> Nat] : \A s \in SUBSET S : f[s] = Value(f, s)
  <2> HIDE DEF Small, Value
  <2>1. QED
    BY <1>4, <1>5
<1>7. SumsUp(f, S, w, c)
  BY <1>6 DEF SumsUp
<1>8. QED
  BY <1>7

-----------------------------------------------------------------------------
(* Quotients.                                                              *)

\* A side divided by a narrower target rounds to no smaller number, ties to even
\* included.
LEMMA RoundingIsMonotone ==
  ASSUME NEW a \in Nat
  PROVE  /\ RoundHalfEven(a, 100) <= RoundHalfEven(a, 75)
         /\ RoundHalfEven(a, 75) <= RoundHalfEven(a, 55)
<1>1. RoundHalfEven(a, 100) <= RoundHalfEven(a, 75) 
  BY DEF RoundHalfEven
<1>2. RoundHalfEven(a, 75) <= RoundHalfEven(a, 55)
  BY DEF RoundHalfEven
<1>3. QED BY <1>1, <1>2

\* What is rounded is a natural number.
LEMMA RoundingIsNat ==
  ASSUME NEW a \in Nat, NEW b \in {100, 75, 55}
  PROVE  RoundHalfEven(a, b) \in Nat
  BY DEF RoundHalfEven

\* Division by a number that is not a constant.
LEMMA QuotientBounds ==
  ASSUME NEW a \in Nat, NEW c \in Nat \ {0}
  PROVE  /\ a \div c \in Nat
         /\ c * (a \div c) <= a
         /\ a < c * (a \div c) + c
  BY Z3

\* A quotient is at most k where k divisors make at least the dividend.
LEMMA QuotientAtMost ==
  ASSUME NEW a \in Nat, NEW c \in Nat \ {0}, NEW k \in Nat, a <= c * k
  PROVE  a \div c <= k
<1>1. DEFINE q == a \div c
<1>2. q \in Nat /\ c * q <= a
  BY QuotientBounds
<1> HIDE DEF q
<1>3. SUFFICES ASSUME q > k PROVE FALSE
  BY <1>2 DEF q
<1>4. c * q >= c * (k + 1)
  BY <1>2, <1>3
<1>5. QED BY <1>2, <1>4

\* And at least k where they make at most the dividend.
LEMMA QuotientAtLeast ==
  ASSUME NEW a \in Nat, NEW c \in Nat \ {0}, NEW k \in Nat, c * k <= a
  PROVE  a \div c >= k
<1>1. DEFINE q == a \div c
<1>2. q \in Nat /\ a < c * q + c
  BY QuotientBounds
<1> HIDE DEF q
<1>3. SUFFICES ASSUME q < k PROVE FALSE
  BY <1>2 DEF q
<1>4. c * (q + 1) <= c * k
  BY <1>2, <1>3
<1>5. QED BY <1>2, <1>4

\* A larger divisor has no larger quotient.
LEMMA QuotientShrinks ==
  ASSUME NEW a \in Nat, NEW c \in Nat \ {0}, NEW d \in Nat \ {0}, c <= d
  PROVE  a \div d <= a \div c
<1>1. DEFINE q == a \div c
<1>2. q \in Nat /\ a < c * q + c
  BY QuotientBounds
<1> HIDE DEF q
<1>3. c * (q + 1) <= d * (q + 1)
  BY <1>2
<1>4. a < d * (q + 1)
  BY <1>2, <1>3
<1> DEFINE p == a \div d
<1>5. p \in Nat /\ d * p <= a
  BY QuotientBounds
<1> HIDE DEF p
<1>6. SUFFICES ASSUME p > q PROVE FALSE
  BY <1>2, <1>5 DEF p, q
<1>7. d * p >= d * (q + 1)
  BY <1>2, <1>5, <1>6
<1>8. QED
  BY <1>2, <1>4, <1>5, <1>7

-----------------------------------------------------------------------------
(* Bays.                                                                   *)

\* The number of bays along a side: enough of them that none is wider than MaxBay,
\* and no more than leave each at least MinBay wide (grid.py:307).
LEMMA ColsBounds ==
  ASSUME NEW span \in Nat, NEW target \in {100, 75, 55}
  PROVE  /\ ColsForTarget(span, target) \in Nat \ {0}
         /\ span <= 120 * ColsForTarget(span, target)
         /\ ColsForTarget(span, target) > 1 => 35 * ColsForTarget(span, target) <= span
<1> DEFINE r == RoundHalfEven(span, target)  most == span \div 35  least == (span + 119) \div 120
<1>1. r \in Nat /\ most \in Nat /\ least \in Nat
  BY RoundingIsNat
<1>2. /\ 35 * most <= span /\ span < 35 * most + 35
      /\ span <= 120 * least
  OBVIOUS
<1>3. ColsForTarget(span, target) = LET narrowed == Larger(Larger(1, r), least) IN
                                    Larger(1, Smaller(narrowed, most))
  BY DEF ColsForTarget, MaxBay, MinBay
<1> HIDE DEF r, most, least
<1>4. QED
  BY <1>1, <1>2, <1>3 DEF Larger, Smaller

\* A narrower target has no fewer bays.
LEMMA ColsGrow ==
  ASSUME NEW span \in Nat
  PROVE  /\ ColsForTarget(span, 100) <= ColsForTarget(span, 75)
         /\ ColsForTarget(span, 75) <= ColsForTarget(span, 55)
<1> DEFINE r(t) == RoundHalfEven(span, t)  most == span \div 35  least == (span + 119) \div 120
<1>1. /\ r(100) \in Nat /\ r(75) \in Nat /\ r(55) \in Nat /\ most \in Nat /\ least \in Nat
      /\ r(100) <= r(75) /\ r(75) <= r(55)
  BY RoundingIsNat, RoundingIsMonotone
<1>2. \A t : ColsForTarget(span, t) = LET narrowed == Larger(Larger(1, r(t)), least) IN
                                         Larger(1, Smaller(narrowed, most))
  BY DEF ColsForTarget, MaxBay, MinBay
<1> HIDE DEF r, most, least
<1>3. QED
  BY <1>1, <1>2 DEF Larger, Smaller

\* The bay along a side, in centimetres.
BayOf(span, target) == (10 * span) \div ColsForTarget(span, target)

\* Whatever the side, no bay is wider than MaxBay, and where there are several
\* none is narrower than MinBay: the two loops of _cols_for_target do not undo
\* each other's work (grid.py:307).
THEOREM BayBounds ==
  ASSUME NEW span \in Nat, NEW target \in {100, 75, 55}
  PROVE  /\ BayOf(span, target) <= 10 * MaxBay
         /\ ColsForTarget(span, target) > 1 => BayOf(span, target) >= 10 * MinBay
<1> DEFINE c == ColsForTarget(span, target)
<1>1. c \in Nat \ {0} /\ span <= 120 * c /\ (c > 1 => 35 * c <= span)
  BY ColsBounds
<1> HIDE DEF c
<1>2. 10 * span \in Nat /\ 10 * span <= c * 1200 /\ (c > 1 => c * 350 <= 10 * span)
  BY <1>1
<1>3. (10 * span) \div c <= 1200
  BY <1>1, <1>2, QuotientAtMost
<1>4. c > 1 => (10 * span) \div c >= 350
  BY <1>1, <1>2, QuotientAtLeast
<1>5. QED
  BY <1>3, <1>4 DEF BayOf, c, MaxBay, MinBay

\* The bay of Balanced is no wider than that of Optimized, that of Conservative no
\* wider than that of Balanced, through rounding and both loops (grid.py:307).
THEOREM BaysShrink ==
  ASSUME NEW span \in Nat
  PROVE  /\ BayOf(span, 75) <= BayOf(span, 100)
         /\ BayOf(span, 55) <= BayOf(span, 75)
<1> DEFINE c(t) == ColsForTarget(span, t)
<1>1. /\ c(100) \in Nat \ {0} /\ c(75) \in Nat \ {0} /\ c(55) \in Nat \ {0}
      /\ c(100) <= c(75) /\ c(75) <= c(55)
  BY ColsBounds, ColsGrow
<1> HIDE DEF c
<1>2. 10 * span \in Nat
  OBVIOUS
<1>3. /\ (10 * span) \div c(75) <= (10 * span) \div c(100)
      /\ (10 * span) \div c(55) <= (10 * span) \div c(75)
  BY <1>1, <1>2, QuotientShrinks
<1>4. QED
  BY <1>3 DEF BayOf, c

\* The grid of an option is what these operators say of its variant.
LEMMA OptionGrid ==
  ASSUME NEW g, NEW l, NEW i \in 1..3, HasFloors(g)
  PROVE  LET o == GenerateOptions(g, l)[i] IN
         /\ o.cols = [x |-> ColsForTarget(g.width, Variants[i].target),
                      y |-> ColsForTarget(g.depth, Variants[i].target)]
         /\ o.bay = [x |-> BayOf(g.width, Variants[i].target),
                     y |-> BayOf(g.depth, Variants[i].target)]
<1>1. i \in DOMAIN Variants
  BY DEF Variants
<1>2. GenerateOptions(g, l)[i] = BuildOption(Variants[i], g, l)
  BY <1>1 DEF GenerateOptions
<1> DEFINE v == Variants[i]
<1> HIDE DEF v
<1>3. BuildOption(v, g, l).cols = [x |-> ColsForTarget(g.width, v.target),
                                   y |-> ColsForTarget(g.depth, v.target)]
  BY DEF BuildOption
<1>4. BuildOption(v, g, l).bay = [x |-> BayOf(g.width, v.target), y |-> BayOf(g.depth, v.target)]
  BY DEF BuildOption, BayOf
<1>5. QED
  BY <1>2, <1>3, <1>4 DEF v

-----------------------------------------------------------------------------
(* The number of members of groups, or of rows of a schedule.              *)

\* Finitely many groups, each with its count.
Counted(S) == IsFiniteSet(S) /\ \A g \in S : g.count \in Nat

\* The element of s that a fold takes first.
First(s) == CHOOSE x \in s : TRUE

\* f adds up every subset of S in the order the fold takes its elements.
Adds(f, S) ==
    \A s \in SUBSET S : f[s] = IF s = {} THEN 0 ELSE First(s).count + f[s \ {First(s)}]

\* Two functions that add up agree wherever both do.
LEMMA AddsUnique ==
  ASSUME NEW S, IsFiniteSet(S), NEW f, NEW g, Adds(f, S), Adds(g, S)
  PROVE  \A s \in SUBSET S : f[s] = g[s]
<1> DEFINE Q == {s \in SUBSET S : f[s] = g[s]}
<1>1. {} \in Q
  BY DEF Adds
<1>2. ASSUME NEW s \in (SUBSET S) \ {{}}, \A x \in s : s \ {x} \in Q
      PROVE  s \in Q
  <2>1. First(s) \in s
    BY DEF First
  <2>2. f[s \ {First(s)}] = g[s \ {First(s)}]
    BY <1>2, <2>1
  <2>3. QED
    BY <2>2 DEF Adds
<1>3. \A s \in SUBSET S : s \in Q
  <2> HIDE DEF Q
  <2>1. QED
    BY <1>1, <1>2, SubsetInduction
<1>4. QED
  BY <1>3

\* Number is the last value of a function that adds up.
LEMMA NumberAdds ==
  ASSUME NEW S, Counted(S)
  PROVE  \E f \in [SUBSET S -> Nat] : Adds(f, S) /\ Number(S) = f[S]
<1> DEFINE w == [g \in S |-> g.count]
           c == [s \in SUBSET S |-> First(s)]
           Recursion(f) == f = [s \in SUBSET S |->
                                  IF s = {} THEN 0
                                  ELSE LET x == CHOOSE y \in s : TRUE IN x.count + f[s \ {x}]]
           sum == CHOOSE f : Recursion(f)
<1>1. Number(S) = sum[S]
  BY Zenon DEF Number, MapThenSumSet, MapThenFoldSet
<1>2. w \in [S -> Nat]
  BY DEF Counted
<1>3. ASSUME NEW s \in (SUBSET S) \ {{}}  PROVE c[s] \in s /\ c[s] = First(s)
  BY DEF First
<1>4. PICK f \in [SUBSET S -> Nat] : SumsUp(f, S, w, c)
  <2> HIDE DEF w, c
  <2>1. QED
    BY <1>2, <1>3, SumExists DEF Counted
<1>5. ASSUME NEW s \in SUBSET S
      PROVE  f[s] = IF s = {} THEN 0 ELSE First(s).count + f[s \ {First(s)}]
  <2>1. f[s] = IF s = {} THEN 0 ELSE w[c[s]] + f[s \ {c[s]}]
    <3> HIDE DEF w, c
    <3>1. QED
      BY <1>4 DEF SumsUp
  <2>2. s # {} => c[s] = First(s) /\ First(s) \in S /\ w[First(s)] = First(s).count
    BY <1>3
  <2> HIDE DEF w, c
  <2>3. QED
    BY <2>1, <2>2
<1>6. Recursion(f)
  BY <1>5 DEF First
<1>7. Recursion(sum)
  <2> HIDE DEF Recursion
  <2>1. QED
    BY <1>6
<1>8. Adds(sum, S)
  <2>1. sum = [s \in SUBSET S |-> IF s = {} THEN 0 ELSE First(s).count + sum[s \ {First(s)}]]
    BY <1>7 DEF First
  <2> HIDE DEF sum
  <2>2. QED
    BY <2>1 DEF Adds
<1>9. Adds(f, S)
  BY <1>5 DEF Adds
<1> HIDE DEF sum
<1>10. sum[S] = f[S]
  BY <1>8, <1>9, AddsUnique DEF Counted
<1>11. QED
  BY <1>1, <1>9, <1>10

\* Nothing is nothing.
LEMMA NumberOfNone == Number({}) = 0
<1>1. Counted({})
  BY FS_EmptySet DEF Counted
<1>2. PICK f : Adds(f, {}) /\ Number({}) = f[{}]
  BY <1>1, NumberAdds
<1>3. QED
  BY <1>2 DEF Adds

\* A set counts one of its groups, whichever, and the rest.
LEMMA NumberWithout ==
  ASSUME NEW S, Counted(S), NEW x \in S
  PROVE  /\ Counted(S \ {x})
         /\ Number(S \ {x}) \in Nat /\ Number(S) \in Nat
         /\ Number(S) = x.count + Number(S \ {x})
<1>1. Counted(S \ {x})
  BY FS_RemoveElement DEF Counted
<1>2. PICK f \in [SUBSET S -> Nat] : Adds(f, S) /\ Number(S) = f[S]
  BY NumberAdds
<1>3. PICK g \in [SUBSET (S \ {x}) -> Nat] : Adds(g, S \ {x}) /\ Number(S \ {x}) = g[S \ {x}]
  BY <1>1, NumberAdds
<1>4. f[S \ {x}] = g[S \ {x}]
  <2>1. Adds(f, S \ {x})
    BY <1>2 DEF Adds
  <2>2. QED
    BY <1>1, <1>3, <2>1, AddsUnique DEF Counted
<1> DEFINE Q == {s \in SUBSET S : \A y \in s : f[s] = y.count + f[s \ {y}]}
<1>5. {} \in Q
  OBVIOUS
<1>6. ASSUME NEW s \in (SUBSET S) \ {{}}, \A y \in s : s \ {y} \in Q
      PROVE  s \in Q
  <2> SUFFICES ASSUME NEW y \in s  PROVE f[s] = y.count + f[s \ {y}]
    OBVIOUS
  <2> DEFINE z == First(s)
  <2>1. z \in s
    BY DEF First
  <2>2. f[s] = z.count + f[s \ {z}]
    BY <1>2 DEF Adds
  <2> HIDE DEF z
  <2>3. CASE y = z
    BY <2>2, <2>3
  <2>4. CASE y # z
    <3>1. /\ f[s \ {z}] = y.count + f[(s \ {z}) \ {y}]
          /\ f[s \ {y}] = z.count + f[(s \ {y}) \ {z}]
      BY <1>6, <2>1, <2>4
    <3>2. (s \ {z}) \ {y} = (s \ {y}) \ {z}
      OBVIOUS
    <3> DEFINE rest == f[(s \ {y}) \ {z}]
    <3>3. y.count \in Nat /\ z.count \in Nat /\ rest \in Nat
      BY <2>1 DEF Counted
    <3>4. f[s] = z.count + (y.count + rest) /\ f[s \ {y}] = z.count + rest
      BY <2>2, <3>1, <3>2
    <3> HIDE DEF rest
    <3>5. QED
      BY <3>3, <3>4
  <2>5. QED
    BY <2>3, <2>4
<1>7. S \in Q
  <2> HIDE DEF Q
  <2>1. QED
    BY <1>5, <1>6, SubsetInduction DEF Counted
<1>8. QED
  BY <1>1, <1>2, <1>3, <1>4, <1>7

\* Every count is a natural number.
LEMMA NumberIsNat ==
  ASSUME NEW S, Counted(S)
  PROVE  Number(S) \in Nat
<1>1. PICK f \in [SUBSET S -> Nat] : Number(S) = f[S]
  BY NumberAdds
<1>2. QED
  BY <1>1

\* Groups that are apart are counted apart.
LEMMA NumberOfUnion ==
  ASSUME NEW A, NEW B, Counted(A), Counted(B), A \cap B = {}
  PROVE  Counted(A \cup B) /\ Number(A \cup B) = Number(A) + Number(B)
<1>1. \A s \in SUBSET B : Counted(s) /\ Counted(A \cup s)
  BY FS_Subset, FS_Union DEF Counted
<1> DEFINE Q == {s \in SUBSET B : Number(A \cup s) = Number(A) + Number(s)}
<1>2. {} \in Q
  <2>1. A \cup {} = A
    OBVIOUS
  <2>2. QED
    BY <2>1, NumberOfNone, NumberIsNat
<1>3. ASSUME NEW s \in (SUBSET B) \ {{}}, \A x \in s : s \ {x} \in Q
      PROVE  s \in Q
  <2>1. PICK x \in s : TRUE
    OBVIOUS
  <2>2. Number(A \cup (s \ {x})) = Number(A) + Number(s \ {x})
    BY <1>3
  <2>3. (A \cup s) \ {x} = A \cup (s \ {x})
    BY <2>1
  <2>4. /\ Number(A \cup s) = x.count + Number(A \cup (s \ {x}))
        /\ Number(s) = x.count + Number(s \ {x})
        /\ Number(s \ {x}) \in Nat
    BY <1>1, <2>1, <2>3, NumberWithout
  <2>5. x.count \in Nat /\ Number(A) \in Nat
    BY <2>1, NumberIsNat DEF Counted
  <2>6. QED
    BY <2>2, <2>4, <2>5
<1>4. B \in Q
  <2>1. IsFiniteSet(B)
    BY DEF Counted
  <2> HIDE DEF Q
  <2>2. \A s \in SUBSET B : s \in Q
    BY <1>2, <1>3, <2>1, SubsetInduction
  <2>3. QED
    BY <2>2
<1>5. QED
  BY <1>1, <1>4

\* A function on a finite set has finitely many values.
LEMMA FiniteImage ==
  ASSUME NEW S, IsFiniteSet(S), NEW f, DOMAIN f = S, f = [x \in S |-> f[x]]
  PROVE  IsFiniteSet({f[x] : x \in S})
<1> DEFINE T == {f[x] : x \in S}
<1>1. f \in Surjection(S, T)
  BY DEF Surjection
<1>2. QED
  BY <1>1, FS_Surjection

\* The schedule counts every member once: the rows of a set of members stand for as
\* many members as there are.
LEMMA ScheduleCounts ==
  ASSUME NEW members, Counted(members)
  PROVE  Number(Schedule(members)) = Number(members)
<1> DEFINE key(m) == <<m.role, m.section>>
           keys == {key(m) : m \in members}
           Part(r) == {m \in members : m.role = r[1] /\ m.section = r[2]}
           Row(r) == [role |-> r[1], section |-> r[2], count |-> Number(Part(r))]
           Parts(R) == {m \in members : key(m) \in R}
           Rows(R) == {Row(r) : r \in R}
<1>1. IsFiniteSet(keys)
  <2> DEFINE f == [m \in members |-> key(m)]
  <2>1. DOMAIN f = members /\ f = [m \in members |-> f[m]] /\ keys = {f[m] : m \in members}
    OBVIOUS
  <2> HIDE DEF f
  <2>2. QED
    BY <2>1, FiniteImage DEF Counted
<1>2. ASSUME NEW s, s \subseteq members  PROVE Counted(s)
  BY <1>2, FS_Subset DEF Counted
<1>3. ASSUME NEW R \in SUBSET keys  PROVE Counted(Rows(R))
  <2>1. IsFiniteSet(Rows(R))
    <3>1. IsFiniteSet(R)
      BY <1>1, FS_Subset
    <3> DEFINE f == [r \in R |-> Row(r)]
    <3>2. DOMAIN f = R /\ f = [r \in R |-> f[r]] /\ Rows(R) = {f[r] : r \in R}
      OBVIOUS
    <3> HIDE DEF f, Rows
    <3>3. QED
      BY <3>1, <3>2, FiniteImage
  <2>2. ASSUME NEW r \in R  PROVE Row(r).count \in Nat
    BY <1>2, NumberIsNat
  <2>3. QED
    BY <2>1, <2>2 DEF Counted
<1> DEFINE Q == {R \in SUBSET keys : Number(Rows(R)) = Number(Parts(R))}
<1>4. {} \in Q
  <2>1. Rows({}) = {} /\ Parts({}) = {}
    OBVIOUS
  <2> HIDE DEF Rows, Parts
  <2>2. QED
    BY <2>1
<1>5. ASSUME NEW R \in (SUBSET keys) \ {{}}, \A r \in R : R \ {r} \in Q
      PROVE  R \in Q
  <2>1. PICK r \in R : TRUE
    OBVIOUS
  <2> DEFINE rest == R \ {r}
  <2>2. Number(Rows(rest)) = Number(Parts(rest))
    BY <1>5, <2>1
  <2>3. PICK m \in members : r = key(m)
    BY <2>1
  <2>4. Parts(R) = Parts(rest) \cup Part(r) /\ Parts(rest) \cap Part(r) = {}
    BY <2>3
  <2>5. Number(Parts(R)) = Number(Parts(rest)) + Number(Part(r))
    <3>1. Counted(Parts(rest)) /\ Counted(Part(r))
      BY <1>2
    <3> HIDE DEF Parts, Part
    <3>2. QED
      BY <2>4, <3>1, NumberOfUnion
  <2>6. Row(r) \in Rows(R) /\ Rows(R) \ {Row(r)} = Rows(rest)
    <3>1. ASSUME NEW q \in rest  PROVE Row(q) # Row(r)
      <4>1. PICK n \in members : q = key(n)
        BY <3>1
      <4>2. q[1] # r[1] \/ q[2] # r[2]
        BY <2>3, <4>1
      <4>3. Row(q).role = q[1] /\ Row(q).section = q[2] /\ Row(r).role = r[1] /\ Row(r).section = r[2]
        OBVIOUS
      <4> HIDE DEF Row
      <4>4. QED
        BY <4>2, <4>3
    <3> HIDE DEF Row
    <3>2. QED
      BY <2>1, <3>1
  <2>7. Number(Rows(R)) = Row(r).count + Number(Rows(rest))
    <3>1. Counted(Rows(R))
      BY <1>3
    <3> HIDE DEF Rows, Row
    <3>2. QED
      BY <2>6, <3>1, NumberWithout
  <2>8. Number(Part(r)) \in Nat /\ Number(Parts(rest)) \in Nat
    BY <1>2, NumberIsNat
  <2>9. QED
    BY <2>2, <2>5, <2>7, <2>8
<1>6. keys \in Q
  <2> HIDE DEF Q, keys
  <2>1. \A R \in SUBSET keys : R \in Q
    BY <1>1, <1>4, <1>5, SubsetInduction
  <2>2. QED
    BY <2>1
<1>7. Schedule(members) = Rows(keys)
  BY DEF Schedule
<1>8. Parts(keys) = members
  OBVIOUS
<1>9. QED
  BY <1>6, <1>7, <1>8
-----------------------------------------------------------------------------
(* Overloads.                                                              *)

\* Division by a number that is not a constant, and what it leaves.
LEMMA QuotientAndRest ==
  ASSUME NEW a \in Int, NEW c \in Nat \ {0}
  PROVE  /\ a \div c \in Int /\ a % c = a - c * (a \div c)
         /\ c * (a \div c) <= a /\ a < c * (a \div c) + c
  BY Z3

\* What is rounded is a whole number, and nothing rounds to 0 but up to a half.
LEMMA RoundedToZero ==
  ASSUME NEW a \in Int, NEW c \in Nat \ {0}
  PROVE  /\ RoundHalfEven(a, c) \in Int
         /\ a >= 0 /\ ~(RoundHalfEven(a, c) > 0) => 2 * a <= c
<1> DEFINE q == a \div c  r == a % c
<1>1. q \in Int /\ r = a - c * q /\ c * q <= a /\ a < c * q + c
  BY QuotientAndRest
<1>2. r \in Int /\ a = c * q + r /\ 0 <= r /\ r < c
  <2> HIDE DEF q, r
  <2>1. QED
    BY <1>1
<1>3. RoundHalfEven(a, c) = IF 2 * r < c \/ (2 * r = c /\ q % 2 = 0) THEN q ELSE q + 1
  BY DEF RoundHalfEven
<1> HIDE DEF q, r
<1>4. RoundHalfEven(a, c) \in Int
  BY <1>1, <1>3
<1>5. ASSUME a >= 0, ~(RoundHalfEven(a, c) > 0)  PROVE 2 * a <= c
  <2>1. q >= 0
    <3>1. SUFFICES ASSUME q <= -1  PROVE FALSE
      BY <1>1
    <3>2. c * q <= c * (-1)
      BY <1>1, <3>1
    <3>3. QED
      BY <1>1, <1>5, <3>2
  <2>2. q = 0 /\ 2 * r <= c
    BY <1>1, <1>2, <1>3, <1>5, <2>1
  <2>3. QED
    BY <1>2, <2>2
<1>6. QED
  BY <1>4, <1>5

\* The lightest section of a catalogue comes first, and every one carries something.
LEMMA Catalogues ==
  ASSUME NEW system \in SystemIds, NEW role \in {"beam", "column"}
  PROVE  LET catalogue == SectionsFor(system, role) IN
         /\ Len(catalogue) \in Nat \ {0} /\ DOMAIN catalogue = 1..Len(catalogue)
         /\ \A s \in DOMAIN catalogue : catalogue[s] \in Nat \ {0}
         /\ system # "steel_mrf" =>
               \A s \in DOMAIN catalogue : catalogue[s] <= catalogue[Len(catalogue)]
<1> DEFINE catalogue == SectionsFor(system, role)
           Ascending(a, b, c) == {a, b, c} \subseteq Nat \ {0} /\ a <= c /\ b <= c
<1>1. CASE system = "steel_mrf"
  <2>1. /\ Len(EuSteelMoments) = 90 /\ DOMAIN EuSteelMoments = 1..90
        /\ \A s \in 1..90 : EuSteelMoments[s] \in Nat \ {0}
    BY DEF EuSteelMoments
  <2>2. /\ Len(EuSteelAxials) = 90 /\ DOMAIN EuSteelAxials = 1..90
        /\ \A s \in 1..90 : EuSteelAxials[s] \in Nat \ {0}
    BY DEF EuSteelAxials
  <2>3. catalogue = EuSteelMoments \/ catalogue = EuSteelAxials
    BY <1>1 DEF SectionsFor
  <2> HIDE DEF catalogue
  <2>4. /\ Len(catalogue) = 90 /\ DOMAIN catalogue = 1..90
        /\ \A s \in 1..90 : catalogue[s] \in Nat \ {0}
    BY <2>1, <2>2, <2>3
  <2>5. /\ Len(catalogue) \in Nat \ {0} /\ DOMAIN catalogue = 1..Len(catalogue)
        /\ \A s \in DOMAIN catalogue : catalogue[s] \in Nat \ {0}
    BY <2>4
  <2>6. QED
    BY <1>1, <2>5, Zenon DEF catalogue
<1>2. CASE system \in {"rc_flat_slab", "clt_hybrid"}
  <2>1. \E a, b, c : catalogue = <<a, b, c>> /\ Ascending(a, b, c)
    <3>1. \/ catalogue = <<4200, 6800, 9500>> \/ catalogue = <<14500, 26000, 41000>>
          \/ catalogue = <<720, 1300, 2300>> \/ catalogue = <<9000, 17000, 27000>>
      BY <1>2 DEF SectionsFor, RcSections, CltSections
    <3>2. /\ Ascending(4200, 6800, 9500) /\ Ascending(14500, 26000, 41000)
          /\ Ascending(720, 1300, 2300) /\ Ascending(9000, 17000, 27000)
      OBVIOUS
    <3> HIDE DEF catalogue, Ascending
    <3>3. QED
      BY <3>1, <3>2
  <2>2. PICK a, b, c : catalogue = <<a, b, c>> /\ Ascending(a, b, c)
    BY <2>1
  <2> HIDE DEF catalogue
  <2>3. Len(catalogue) = 3 /\ DOMAIN catalogue = 1..3
    BY <2>2
  <2>4. ASSUME NEW s \in 1..3  PROVE catalogue[s] \in Nat \ {0} /\ catalogue[s] <= catalogue[3]
    BY <2>2
  <2>5. QED
    BY <2>3, <2>4 DEF catalogue
<1>3. QED
  BY <1>1, <1>2 DEF SystemIds

\* The smallest section that passes does pass, if any does.
LEMMA SmallestPasses ==
  ASSUME NEW catalogue, NEW demand,
         Len(catalogue) \in Nat \ {0}, DOMAIN catalogue = 1..Len(catalogue)
  PROVE  /\ SmallestOrHeaviest(catalogue, demand) \in 1..Len(catalogue)
         /\ Passing(catalogue, demand) # {} =>
               catalogue[SmallestOrHeaviest(catalogue, demand)] >= demand
<1> DEFINE passing == Passing(catalogue, demand)
<1>1. CASE passing = {}
  BY <1>1 DEF SmallestOrHeaviest
<1>2. CASE passing # {}
  <2>1. passing \subseteq Nat
    BY DEF Passing
  <2>2. \E s \in passing : \A t \in passing : s <= t
    <3> HIDE DEF passing
    <3>1. QED
      BY <1>2, <2>1, LeastNat
  <2>3. SmallestOrHeaviest(catalogue, demand) \in passing
    BY <1>2, <2>2 DEF SmallestOrHeaviest
  <2>4. QED
    BY <2>3 DEF Passing
<1>3. QED
  BY <1>1, <1>2

\* Whatever the strategy, what is picked is in the catalogue.
LEMMA PickInCatalogue ==
  ASSUME NEW catalogue, NEW demand, NEW strategy \in {"efficient", "middle", "robust"},
         Len(catalogue) \in Nat \ {0}, DOMAIN catalogue = 1..Len(catalogue)
  PROVE  Pick(catalogue, demand, strategy) \in DOMAIN catalogue
<1> DEFINE smallest == SmallestOrHeaviest(catalogue, demand)
           roomy == {s \in smallest..Len(catalogue) : 100 * demand <= 65 * catalogue[s]}
<1>1. smallest \in 1..Len(catalogue)
  BY SmallestPasses
<1>2. CASE strategy = "efficient"
  BY <1>1, <1>2 DEF Pick
<1>3. CASE strategy = "middle"
  <2> HIDE DEF smallest
  <2>1. Smaller(smallest + 1, Len(catalogue)) \in 1..Len(catalogue)
    BY <1>1 DEF Smaller
  <2>2. QED
    BY <1>3, <2>1 DEF Pick, smallest
<1>4. CASE strategy = "robust" /\ roomy = {}
  BY <1>4 DEF Pick
<1>5. CASE strategy = "robust" /\ roomy # {}
  <2>1. roomy \subseteq 1..Len(catalogue) /\ roomy \subseteq Nat
    <3> HIDE DEF smallest
    <3>1. QED
      BY <1>1
  <2>2. \E s \in roomy : \A t \in roomy : s <= t
    <3> HIDE DEF roomy
    <3>1. QED
      BY <1>5, <2>1, LeastNat
  <2>3. Pick(catalogue, demand, strategy) \in roomy
    BY <1>5, <2>2 DEF Pick
  <2>4. QED
    BY <2>1, <2>3
<1>6. QED
  BY <1>2, <1>3, <1>4, <1>5

\* Only the "middle" strategy picks a section that does not carry the demand where
\* one of the catalogue does; "robust" does not because the heaviest one of the
\* catalogue it is used with is the strongest (grid.py:513).
LEMMA PickCarries ==
  ASSUME NEW catalogue, NEW demand \in Int, NEW strategy \in {"efficient", "robust"},
         Len(catalogue) \in Nat \ {0}, DOMAIN catalogue = 1..Len(catalogue),
         \A s \in DOMAIN catalogue : catalogue[s] \in Nat \ {0},
         \A s \in DOMAIN catalogue : catalogue[s] <= catalogue[Len(catalogue)],
         Passing(catalogue, demand) # {}
  PROVE  demand <= catalogue[Pick(catalogue, demand, strategy)]
<1> DEFINE smallest == SmallestOrHeaviest(catalogue, demand)
           roomy == {s \in smallest..Len(catalogue) : 100 * demand <= 65 * catalogue[s]}
<1>1. smallest \in 1..Len(catalogue) /\ catalogue[smallest] >= demand
  BY SmallestPasses
<1>2. CASE strategy = "efficient"
  <2>1. Pick(catalogue, demand, strategy) = smallest
    BY <1>2 DEF Pick
  <2> HIDE DEF smallest
  <2>2. QED
    BY <1>1, <2>1
<1>3. CASE strategy = "robust" /\ roomy = {}
  <2>1. Pick(catalogue, demand, strategy) = Len(catalogue)
    BY <1>3 DEF Pick
  <2> HIDE DEF smallest
  <2>2. QED
    BY <1>1, <2>1
<1>4. CASE strategy = "robust" /\ roomy # {}
  <2>1. roomy \subseteq 1..Len(catalogue) /\ roomy \subseteq Nat
    <3> HIDE DEF smallest
    <3>1. QED
      BY <1>1
  <2>2. \E s \in roomy : \A t \in roomy : s <= t
    <3> HIDE DEF roomy
    <3>1. QED
      BY <1>4, <2>1, LeastNat
  <2> DEFINE picked == Pick(catalogue, demand, strategy)
  <2>3. picked \in roomy
    BY <1>4, <2>2 DEF Pick
  <2>4. picked \in 1..Len(catalogue) /\ 100 * demand <= 65 * catalogue[picked]
    BY <2>1, <2>3
  <2> HIDE DEF picked
  <2>5. demand <= catalogue[picked]
    <3>1. catalogue[picked] \in Nat \ {0}
      BY <2>4
    <3>2. QED
      BY <2>4, <3>1
  <2>6. QED
    BY <2>5 DEF picked
<1>5. QED
  BY <1>2, <1>3, <1>4

\* The groups of equal members are finitely many, each with a whole demand.
LEMMA DemandGroupsSound ==
  ASSUME NEW cols, cols.x \in Nat, cols.y \in Nat, NEW bay, bay.x \in Nat, bay.y \in Nat,
         NEW floors \in Nat, NEW load \in Int
  PROVE  /\ IsFiniteSet(DemandGroups(cols, bay, floors, load))
         /\ \A g \in DemandGroups(cols, bay, floors, load) :
               g.role \in {"beam", "column"} /\ g.demand \in Int /\ g.count \in Nat
<1> DEFINE Beams(axis, along, across, n, rows) ==
             {[role |-> "beam", place |-> <<axis, "edge">>, count |-> floors * n * 2,
               demand |-> BeamMoment(load, across \div 2, along)],
              [role |-> "beam", place |-> <<axis, "interior">>,
               count |-> floors * n * (rows - 1),
               demand |-> BeamMoment(load, across, along)]}
           Columns(place, share, n) ==
             {[role |-> "column", place |-> <<"grid", place>>, count |-> n,
               demand |-> ColumnForce(load, ((bay.x * bay.y) \div 100) \div share, floors)]}
           Sound(S) == /\ IsFiniteSet(S)
                       /\ \A g \in S : g.role \in {"beam", "column"} /\ g.demand \in Int
                                      /\ g.count \in Int
           ew == Beams("ew", bay.x, bay.y, cols.x, cols.y)
           ns == Beams("ns", bay.y, bay.x, cols.y, cols.x)
           corner == Columns("corner", 4, 4)
           edge == Columns("edge", 2, 2 * (cols.x - 1) + 2 * (cols.y - 1))
           interior == Columns("interior", 1, (cols.x - 1) * (cols.y - 1))
           all == ew \cup ns \cup corner \cup edge \cup interior
<1>1. DemandGroups(cols, bay, floors, load) = {g \in all : g.count > 0}
  BY DEF DemandGroups
<1>2. \A g, h : IsFiniteSet({g}) /\ IsFiniteSet({g, h})
  <2>1. ASSUME NEW g, NEW h  PROVE IsFiniteSet({g}) /\ IsFiniteSet({g, h})
    <3>1. IsFiniteSet({g}) /\ IsFiniteSet({g} \cup {h}) /\ {g, h} = {g} \cup {h}
      BY FS_Singleton, FS_AddElement
    <3>2. QED
      BY <3>1
  <2>2. QED
    BY <2>1
<1>3. ASSUME NEW axis, NEW along \in Nat, NEW across \in Nat, NEW n \in Nat, NEW rows \in Nat
      PROVE  Sound(Beams(axis, along, across, n, rows))
  <2>1. \A t \in Int : BeamMoment(load, t, along) \in Int
    BY DEF BeamMoment
  <2>2. across \div 2 \in Int /\ floors * n * 2 \in Int /\ floors * n * (rows - 1) \in Int
    OBVIOUS
  <2> DEFINE outer == floors * n * 2  inner == floors * n * (rows - 1)
             half == BeamMoment(load, across \div 2, along)  full == BeamMoment(load, across, along)
  <2>3. outer \in Int /\ inner \in Int /\ half \in Int /\ full \in Int
    BY <2>1, <2>2
  <2> HIDE DEF outer, inner, half, full
  <2>4. Sound({[role |-> "beam", place |-> <<axis, "edge">>, count |-> outer, demand |-> half],
               [role |-> "beam", place |-> <<axis, "interior">>, count |-> inner, demand |-> full]})
    <3> DEFINE g == [role |-> "beam", place |-> <<axis, "edge">>, count |-> outer, demand |-> half]
               h == [role |-> "beam", place |-> <<axis, "interior">>, count |-> inner, demand |-> full]
    <3>1. /\ g.role = "beam" /\ g.demand \in Int /\ g.count \in Int
          /\ h.role = "beam" /\ h.demand \in Int /\ h.count \in Int
      BY <2>3
    <3> HIDE DEF g, h
    <3>2. IsFiniteSet({g, h})
      BY <1>2
    <3>3. Sound({g, h})
      BY <3>1, <3>2
    <3>4. QED
      BY <3>3 DEF g, h
  <2>5. QED
    BY <2>4 DEF outer, inner, half, full
<1>4. ASSUME NEW place, NEW share \in {1, 2, 4}, NEW n \in Int
      PROVE  Sound(Columns(place, share, n))
  <2> DEFINE area == ((bay.x * bay.y) \div 100) \div share
  <2>1. area \in Int
    <3>1. bay.x * bay.y \in Int
      OBVIOUS
    <3>2. QED
      BY <3>1
  <2> HIDE DEF area
  <2>2. ColumnForce(load, area, floors) \in Int
    <3>1. load * area * floors \in Int
      BY <2>1
    <3>2. QED
      BY <3>1 DEF ColumnForce
  <2> DEFINE force == ColumnForce(load, area, floors)
  <2> HIDE DEF force
  <2>3. force \in Int
    BY <2>2 DEF force
  <2>4. Sound({[role |-> "column", place |-> <<"grid", place>>, count |-> n, demand |-> force]})
    <3> DEFINE g == [role |-> "column", place |-> <<"grid", place>>, count |-> n, demand |-> force]
    <3>1. g.role = "column" /\ g.demand \in Int /\ g.count \in Int
      BY <2>3
    <3> HIDE DEF g
    <3>2. IsFiniteSet({g})
      BY <1>2
    <3>3. Sound({g})
      BY <3>1, <3>2
    <3>4. QED
      BY <3>3 DEF g
  <2>5. QED
    BY <2>4 DEF area, force
<1>5. Sound(ew) /\ Sound(ns)
  <2> HIDE DEF Sound, Beams
  <2>1. QED
    BY <1>3
<1>6. Sound(corner) /\ Sound(edge) /\ Sound(interior)
  <2>1. 4 \in Int /\ 2 * (cols.x - 1) + 2 * (cols.y - 1) \in Int
        /\ (cols.x - 1) * (cols.y - 1) \in Int
    OBVIOUS
  <2> HIDE DEF Sound, Columns
  <2>2. QED
    BY <1>4, <2>1
<1> HIDE DEF ew, ns, corner, edge, interior
<1>7. Sound(all)
  BY <1>5, <1>6, FS_Union
<1> HIDE DEF all
<1>8. IsFiniteSet({g \in all : g.count > 0})
  BY <1>7, FS_Subset
<1>9. QED
  BY <1>1, <1>7, <1>8

\* Finitely many groups of members, each with the section picked for its demand.
Sized(v, members) ==
    /\ Counted(members)
    /\ \A m \in members :
          /\ m.role \in {"beam", "column"} /\ m.demand \in Int
          /\ m.section = Pick(SectionsFor(v.system, m.role), m.demand, v.strategy)

\* The members of an option are such groups.
LEMMA MembersSound ==
  ASSUME NEW v, NEW cols, cols.x \in Nat, cols.y \in Nat, NEW bay, bay.x \in Nat, bay.y \in Nat,
         NEW floors \in Nat, NEW load \in Int
  PROVE  Sized(v, DesignMembers(v, cols, bay, floors, load))
<1> DEFINE groups == DemandGroups(cols, bay, floors, load)
           Member(g) == [role |-> g.role, place |-> g.place, count |-> g.count,
                         demand |-> g.demand,
                         section |-> Pick(SectionsFor(v.system, g.role), g.demand, v.strategy)]
           members == {Member(g) : g \in groups}
<1>1. DesignMembers(v, cols, bay, floors, load) = members
  BY DEF DesignMembers
<1>2. /\ IsFiniteSet(groups)
      /\ \A g \in groups : g.role \in {"beam", "column"} /\ g.demand \in Int /\ g.count \in Nat
  BY DemandGroupsSound
<1> HIDE DEF groups
<1>3. IsFiniteSet(members)
  <2> DEFINE f == [g \in groups |-> Member(g)]
  <2>1. DOMAIN f = groups /\ f = [g \in groups |-> f[g]] /\ members = {f[g] : g \in groups}
    OBVIOUS
  <2> HIDE DEF f, members
  <2>2. QED
    BY <1>2, <2>1, FiniteImage
<1>4. ASSUME NEW m \in members
      PROVE  /\ m.count \in Nat /\ m.role \in {"beam", "column"} /\ m.demand \in Int
             /\ m.section = Pick(SectionsFor(v.system, m.role), m.demand, v.strategy)
  BY <1>2
<1> HIDE DEF members
<1>5. QED
  BY <1>1, <1>3, <1>4 DEF Counted, Sized

\* The worst ratio of finitely many members is at least that of each.
LEMMA WorstIsWorst ==
  ASSUME NEW system, NEW members, IsFiniteSet(members),
         \A m \in members : Dcr(system, m) \in Int
  PROVE  \A m \in members : WorstDcr(system, members) \in Int
                              /\ Dcr(system, m) <= WorstDcr(system, members)
<1> SUFFICES ASSUME NEW m \in members
             PROVE  WorstDcr(system, members) \in Int /\ Dcr(system, m) <= WorstDcr(system, members)
  OBVIOUS
<1> DEFINE ratios == {Dcr(system, n) : n \in members}
<1>1. IsFiniteSet(ratios)
  <2> DEFINE f == [n \in members |-> Dcr(system, n)]
  <2>1. DOMAIN f = members /\ f = [n \in members |-> f[n]] /\ ratios = {f[n] : n \in members}
    OBVIOUS
  <2> HIDE DEF f, ratios
  <2>2. QED
    BY <2>1, FiniteImage
<1>2. ratios \subseteq Int /\ Dcr(system, m) \in ratios
  OBVIOUS
<1>3. \E d \in ratios : \A e \in ratios : e <= d
  <2> HIDE DEF ratios
  <2>1. QED
    BY <1>1, <1>2, GreatestOfFinite
<1>4. WorstDcr(system, members) = CHOOSE d \in ratios : \A e \in ratios : e <= d
  BY DEF WorstDcr
<1> HIDE DEF ratios
<1>5. QED
  BY <1>2, <1>3, <1>4

\* What an option says of its overloaded members: see OverloadsExplained in
\* TemplateRun.
Explained(o) ==
    \A m \in o.members : m.demand > Capacity(o.system, m) =>
       /\ \/ Passing(SectionsFor(o.system, m.role), m.demand) = {}
          \/ o.variant = "balanced"
       /\ Dcr(o.system, m) > 1000 => "overload" \in o.caveats
       /\ o.dcr.over_100 > 0 \/ 2000 * m.count <= Number(o.schedule)

\* What an overloaded member of an option comes from, and how the option shows it:
\* no section of its catalogue would do, or the "middle" strategy stepped up to a
\* weaker one; the caveats say so unless the ratio rounds to 1.000, the distribution
\* unless the share rounds to 0.000 (grid.py:513, 589 and 748).
THEOREM OverloadsShown ==
  ASSUME NEW g, g.width \in Nat, g.depth \in Nat, g.storeys \in Nat,
         NEW l, l.dead \in Int, l.live \in Int, NEW i \in 1..3
  PROVE  Explained(BuildOption(Variants[i], g, l))
<1> DEFINE v == Variants[i]
           cols == [x |-> ColsForTarget(g.width, v.target), y |-> ColsForTarget(g.depth, v.target)]
           bay == [x |-> (10 * g.width) \div cols.x, y |-> (10 * g.depth) \div cols.y]
           load == FactoredLoad(v.system, l)
           members == DesignMembers(v, cols, bay, Occupied(g), load)
           o == BuildOption(v, g, l)
<1>1. /\ v.system \in SystemIds /\ v.target \in {100, 75, 55}
      /\ v.strategy \in {"efficient", "middle", "robust"}
      /\ \/ v.variant = "balanced"
         \/ v.strategy \in {"efficient", "robust"} /\ v.system # "steel_mrf"
  BY DEF Variants, SystemIds
<1>2. /\ o.variant = v.variant /\ o.system = v.system /\ o.members = members
      /\ o.schedule = Schedule(members) /\ o.dcr = DcrDistribution(v.system, members)
      /\ o.caveats = Caveats(v.system, bay, g, members)
  <2> HIDE DEF v
  <2>1. QED
    BY DEF BuildOption
<1> HIDE DEF v, o
<1>3. cols.x \in Nat \ {0} /\ cols.y \in Nat \ {0}
  <2>1. /\ ColsForTarget(g.width, v.target) \in Nat \ {0}
        /\ ColsForTarget(g.depth, v.target) \in Nat \ {0}
    BY <1>1, ColsBounds
  <2>2. QED
    BY <2>1
<1> HIDE DEF cols
<1>4. bay.x \in Nat /\ bay.y \in Nat
  <2>1. 10 * g.width \in Nat /\ 10 * g.depth \in Nat
    OBVIOUS
  <2>2. (10 * g.width) \div cols.x \in Nat /\ (10 * g.depth) \div cols.y \in Nat
    BY <1>3, <2>1, QuotientBounds
  <2>3. QED
    BY <2>2
<1> HIDE DEF bay
<1>5. Occupied(g) \in Nat /\ load \in Int
  <2>1. SlabSelfWeight[v.system] \in Int
    BY <1>1 DEF SlabSelfWeight, SystemIds
  <2>2. load \in Int
    <3>1. 135 * (l.dead + SlabSelfWeight[v.system]) \in Int /\ 15 * l.live \in Int
      BY <2>1
    <3>2. QED
      BY <3>1 DEF FactoredLoad
  <2>3. QED
    BY <2>2 DEF Occupied
<1>6. /\ Counted(members)
      /\ \A m \in members :
            /\ m.role \in {"beam", "column"} /\ m.demand \in Int
            /\ m.section = Pick(SectionsFor(v.system, m.role), m.demand, v.strategy)
  <2> HIDE DEF load
  <2>1. cols.x \in Nat /\ cols.y \in Nat
    BY <1>3
  <2>2. Sized(v, members)
    BY <1>4, <1>5, <2>1, MembersSound
  <2> HIDE DEF members
  <2>3. QED
    BY <2>2 DEF Sized
<1> HIDE DEF members, load
<1>7. ASSUME NEW m \in members
      PROVE  /\ Capacity(v.system, m) \in Nat \ {0}
             /\ Dcr(v.system, m) \in Int
  <2> DEFINE catalogue == SectionsFor(v.system, m.role)
  <2>1. /\ Len(catalogue) \in Nat \ {0} /\ DOMAIN catalogue = 1..Len(catalogue)
        /\ \A s \in DOMAIN catalogue : catalogue[s] \in Nat \ {0}
    BY <1>1, <1>6, Catalogues
  <2>2. m.section \in DOMAIN catalogue
    <3>1. m.section = Pick(catalogue, m.demand, v.strategy)
      BY <1>6
    <3> HIDE DEF catalogue
    <3>2. QED
      BY <1>1, <2>1, <3>1, PickInCatalogue
  <2>3. Capacity(v.system, m) \in Nat \ {0}
    BY <2>1, <2>2 DEF Capacity
  <2>4. 1000 * m.demand \in Int
    BY <1>6
  <2>5. QED
    BY <2>3, <2>4, RoundedToZero DEF Dcr
<1>8. ASSUME NEW m \in members, m.demand > Capacity(v.system, m), v.variant # "balanced"
      PROVE  Passing(SectionsFor(v.system, m.role), m.demand) = {}
  <2> DEFINE catalogue == SectionsFor(v.system, m.role)
  <2>1. /\ Len(catalogue) \in Nat \ {0} /\ DOMAIN catalogue = 1..Len(catalogue)
        /\ \A s \in DOMAIN catalogue : catalogue[s] \in Nat \ {0}
        /\ \A s \in DOMAIN catalogue : catalogue[s] <= catalogue[Len(catalogue)]
    BY <1>1, <1>6, <1>8, Catalogues
  <2>2. m.demand \in Int /\ Capacity(v.system, m) = catalogue[Pick(catalogue, m.demand, v.strategy)]
    BY <1>6 DEF Capacity
  <2> HIDE DEF catalogue
  <2>3. Pick(catalogue, m.demand, v.strategy) \in DOMAIN catalogue
    BY <1>1, <2>1, PickInCatalogue
  <2>4. ASSUME Passing(catalogue, m.demand) # {}
        PROVE  m.demand <= catalogue[Pick(catalogue, m.demand, v.strategy)]
    BY <1>1, <1>8, <2>1, <2>2, <2>4, PickCarries
  <2>5. Passing(catalogue, m.demand) = {}
    BY <1>7, <1>8, <2>2, <2>4
  <2>6. QED
    BY <2>5 DEF catalogue
<1>9. ASSUME NEW m \in members, Dcr(v.system, m) > 1000
      PROVE  "overload" \in Caveats(v.system, bay, g, members)
  <2>1. WorstDcr(v.system, members) > 1000
    <3>1. WorstDcr(v.system, members) \in Int /\ Dcr(v.system, m) <= WorstDcr(v.system, members)
      BY <1>6, <1>7, WorstIsWorst DEF Counted
    <3>2. QED
      BY <1>7, <1>9, <3>1
  <2> DEFINE worst == WorstDcr(v.system, members)
             slabs == (g.storeys + (IF g.roof THEN 1 ELSE 0)) * g.width * g.depth
             tags == {t \in {"long_span", "lateral", "punching", "acoustic", "moisture",
                             "overload", "headroom"} :
                        \/ t = "long_span" /\ Larger(bay.x, bay.y) > 850
                        \/ t = "lateral" /\ Occupied(g) >= 6
                        \/ t = "punching" /\ slabs > 150000 /\ v.system = "rc_flat_slab"
                        \/ t = "acoustic" /\ v.system = "steel_mrf"
                        \/ t = "moisture" /\ v.system = "clt_hybrid"
                        \/ t = "overload" /\ worst > 1000
                        \/ t = "headroom" /\ worst > 900 /\ worst <= 1000}
  <2>2. Caveats(v.system, bay, g, members) = IF tags = {} THEN {"no_red_flags"} ELSE tags
    BY DEF Caveats
  <2> HIDE DEF worst, slabs
  <2>3. "overload" \in tags
    BY <2>1 DEF worst
  <2> HIDE DEF tags
  <2>4. QED
    BY <2>2, <2>3
<1>10. ASSUME NEW m \in members, m.demand > Capacity(v.system, m)
       PROVE  \/ DcrDistribution(v.system, members).over_100 > 0
              \/ 2000 * m.count <= Number(Schedule(members))
  <2> SUFFICES ASSUME ~(DcrDistribution(v.system, members).over_100 > 0)
               PROVE  2000 * m.count <= Number(Schedule(members))
    OBVIOUS
  <2> DEFINE fits == {n \in members : n.demand <= Capacity(v.system, n)}
             over == members \ fits
  <2>1. DcrDistribution(v.system, members).over_100
           = RoundHalfEven(1000 * Number(over), Number(members))
    BY DEF DcrDistribution
  <2>2. m \in over
    BY <1>6, <1>7, <1>10
  <2>3. Counted(over)
    BY <1>6, FS_Subset DEF Counted
  <2>4. /\ m.count \in Nat /\ Number(over \ {m}) \in Nat
        /\ Number(over) = m.count + Number(over \ {m})
    <3> HIDE DEF over
    <3>1. QED
      BY <2>2, <2>3, NumberWithout DEF Counted
  <2>5. Number(Schedule(members)) = Number(members) /\ Number(members) \in Nat
    BY <1>6, ScheduleCounts, NumberIsNat
  <2> HIDE DEF over
  <2>6. CASE Number(members) = 0
    <3>1. Number(members \ {m}) \in Nat /\ Number(members) = m.count + Number(members \ {m})
      BY <1>6, NumberWithout
    <3>2. m.count = 0
      BY <2>4, <2>6, <3>1
    <3>3. QED
      BY <2>5, <2>6, <3>2
  <2>7. CASE Number(members) # 0
    <3>1. 1000 * Number(over) \in Nat
      BY <2>4
    <3>2. 2 * (1000 * Number(over)) <= Number(members)
      BY <1>10, <2>1, <2>5, <2>7, <3>1, RoundedToZero
    <3>3. QED
      BY <2>4, <2>5, <3>2
  <2>8. QED
    BY <2>6, <2>7
<1>11. Explained(o)
  <2> SUFFICES ASSUME NEW m \in members, m.demand > Capacity(v.system, m)
               PROVE  /\ \/ Passing(SectionsFor(v.system, m.role), m.demand) = {}
                         \/ v.variant = "balanced"
                      /\ Dcr(v.system, m) > 1000 => "overload" \in Caveats(v.system, bay, g, members)
                      /\ \/ DcrDistribution(v.system, members).over_100 > 0
                         \/ 2000 * m.count <= Number(Schedule(members))
    BY <1>2 DEF Explained
  <2>1. Passing(SectionsFor(v.system, m.role), m.demand) = {} \/ v.variant = "balanced"
    BY <1>8, Zenon
  <2>2. Dcr(v.system, m) > 1000 => "overload" \in Caveats(v.system, bay, g, members)
    BY <1>9, Zenon
  <2>3. \/ DcrDistribution(v.system, members).over_100 > 0
        \/ 2000 * m.count <= Number(Schedule(members))
    BY <1>10
  <2>4. QED
    BY <2>1, <2>2, <2>3
<1>12. QED
  BY <1>11 DEF o, v

-----------------------------------------------------------------------------
(* The shipped template.                                                   *)

\* The graph of Origin as far as the parser is concerned.
LEMMA OriginGraphFacts ==
  /\ "floor_parse" \in VerolasOrigin.nodes
  /\ VerolasOrigin.kind["floor_parse"] = "automated"
  /\ VerolasOrigin.tool["floor_parse"] = "registered"
  /\ <<"upload_cad", "floor_parse">> \notin VerolasOrigin.edges
  /\ <<"floor_parse", "architectural_review">> \in VerolasOrigin.edges
<1> DEFINE keys == OriginKeys
           kinds == [floor_parse |-> "automated", ai_options |-> "automated",
                     select_option |-> "gate.approve"]
           tools == [floor_parse |-> "verolas.origin.floor_parse",
                     ai_options |-> "verolas.origin.generator"]
<1>1. /\ keys[4] = "floor_parse" /\ keys[5] = "architectural_review"
      /\ DOMAIN keys = 1..10 /\ Len(keys) = 10
  BY DEF OriginKeys
<1>2. /\ VerolasOrigin.nodes = {keys[i] : i \in 1..10}
      /\ VerolasOrigin.edges = {<<keys[i], keys[i + 1]>> : i \in 1..9}
  <2>1. VerolasOrigin.nodes = {keys[i] : i \in 1..10}
    BY <1>1 DEF VerolasOrigin, OriginGraph, Template, KeysOf
  <2>2. VerolasOrigin.edges = {<<keys[i], keys[i + 1]>> : i \in 1..9}
    BY <1>1 DEF VerolasOrigin, OriginGraph, Template, Path
  <2>3. QED
    BY <2>1, <2>2
<1>3. /\ "floor_parse" \in VerolasOrigin.nodes
      /\ <<"floor_parse", "architectural_review">> \in VerolasOrigin.edges
  BY <1>1, <1>2
<1>4. <<"upload_cad", "floor_parse">> \notin VerolasOrigin.edges
  <2>1. (\A i \in 1..10 : keys[i] = "upload_cad" => i = 2) /\ keys[3] # "floor_parse"
    BY DEF OriginKeys
  <2> HIDE DEF keys
  <2>2. QED
    BY <1>2, <2>1
<1>5. /\ VerolasOrigin.kind = [n \in VerolasOrigin.nodes |->
                                  IF n \in DOMAIN kinds THEN kinds[n] ELSE "manual"]
      /\ VerolasOrigin.tool = [n \in VerolasOrigin.nodes |-> ToolStatus(tools, n)]
  BY DEF VerolasOrigin, OriginGraph, Template
<1> HIDE DEF keys
<1>6. QED
  BY <1>3, <1>4, <1>5 DEF ToolStatus, RegisteredTools
=============================================================================
