--------------------------- MODULE ArithmeticProof ---------------------------
(***************************************************************************)
(* What the proofs use of the arithmetic the modules share: portions and   *)
(* places (IntegerDivision), and sums over a finite set, as the community  *)
(* modules define them (SumFunctionOnSet of Functions): the tickets of all *)
(* users, of all positions, the first shares of a list.                    *)
(*                                                                         *)
(* A sum is a recursive function on the subsets of a set, so each fact is  *)
(* an induction. The induction theorems of the library take an operator as *)
(* a parameter; FiniteSubsetInduction is the same principle for a set of   *)
(* sets, from the fact that strict inclusion is well founded on a finite   *)
(* set: the sets for which a fact holds are collected in B, and a smallest *)
(* set outside of B is a contradiction.                                    *)
(***************************************************************************)
EXTENDS IntegerDivision, Sequences, FiniteSets, Functions, FiniteSetTheorems,
        WellFoundedInduction, TLAPS

(* A product of naturals is a natural: the fact SMT needs before a div. *)
LEMMA ProductNat ==
  ASSUME NEW a \in Nat, NEW r \in Nat
  PROVE  a * r \in Nat
OBVIOUS

(* A portion of an amount is a natural number: no rounding makes it        *)
(* negative or fractional (collect_fees, make_distribution).               *)
LEMMA PortionNat ==
  ASSUME NEW a \in Nat, NEW r \in Nat
  PROVE  Portion(a, r) \in Nat
<1> DEFINE p == a * r
<1>1. p \in Nat
  BY ProductNat
<1> HIDE DEF p
<1>2. p \div 10000 \in Nat
  BY <1>1, SMT
<1> QED
  BY <1>2 DEF Portion, BPS, p

(* A portion at a rate of at most 100% never exceeds the amount, so the    *)
(* subtraction that follows it (total_revenue - fee_amount) cannot abort.  *)
LEMMA PortionAtMost ==
  ASSUME NEW a \in Nat, NEW r \in 0..BPS
  PROVE  Portion(a, r) <= a
<1> DEFINE p == a * r
<1>1. p \in Nat
  BY ProductNat DEF BPS
<1>2. p <= a * 10000
  BY SMT DEF BPS
<1> HIDE DEF p
<1>3. p \div 10000 <= a
  BY <1>1, <1>2, SMT
<1> QED
  BY <1>3 DEF Portion, BPS, p

(* A portion of nothing is nothing: the first bid need not outbid anything.*)
LEMMA PortionOfNothing ==
  ASSUME NEW r \in Nat
  PROVE  Portion(0, r) = 0
BY DEF Portion, BPS

(* A larger amount has a portion at least as large: the smallest eligible  *)
(* raise never falls as the top bid rises (get_min_eligible_bid).          *)
LEMMA PortionMonotone ==
  ASSUME NEW a \in Nat, NEW b \in Nat, NEW r \in Nat, a <= b
  PROVE  Portion(a, r) <= Portion(b, r)
<1> DEFINE p == a * r
           q == b * r
<1>1. p \in Nat /\ q \in Nat
  BY ProductNat
<1>2. p <= q
  BY SMT
<1> HIDE DEF p, q
<1>3. p \div 10000 <= q \div 10000
  BY <1>1, <1>2, SMT
<1> QED
  BY <1>3 DEF Portion, BPS, p, q

(* A raise is positive exactly when the product reaches one whole unit: the*)
(* smallest top bid from which an outbid must really exceed the previous   *)
(* one (get_min_eligible_bid truncates below it).                          *)
LEMMA PortionPositive ==
  ASSUME NEW a \in Nat, NEW r \in Nat
  PROVE  Portion(a, r) > 0 <=> a * r >= BPS
<1> DEFINE p == a * r
<1>1. p \in Nat
  BY ProductNat
<1> HIDE DEF p
<1>2. p \div 10000 > 0 <=> p >= 10000
  BY <1>1, SMT
<1> QED
  BY <1>2 DEF Portion, BPS, p
-----------------------------------------------------------------------------
(* Quotient and remainder are the only ones there are. *)
LEMMA DivMod ==
  ASSUME NEW t \in Nat, NEW k \in Nat \ {0}
  PROVE  /\ t \div k \in Nat
         /\ t % k \in 0..(k - 1)
         /\ t = (k * (t \div k)) + (t % k)
         /\ t \div k <= t
OBVIOUS

(* An earlier number is in an earlier page, or earlier in the same page.    *)
LEMMA PlaceMonotone ==
  ASSUME NEW i \in Nat, NEW t \in Nat, NEW k \in Nat \ {0}, i < t
  PROVE  \/ i \div k < t \div k
         \/ i \div k = t \div k /\ i % k < t % k
<1> DEFINE q == i \div k  r == i % k  p == t \div k  s == t % k
<1>1. /\ q \in Nat /\ p \in Nat /\ r \in 0..(k - 1) /\ s \in 0..(k - 1)
      /\ (k * q) + r < (k * p) + s
  BY DivMod
<1> HIDE DEF q, r, p, s
<1>2. ASSUME p + 1 <= q PROVE FALSE
  <2>1. k * (p + 1) <= k * q
    BY <1>1, <1>2
  <2>2. k * (p + 1) = (k * p) + k
    BY <1>1
  <2> QED BY <1>1, <2>1, <2>2
<1>3. q = p => r < s
  BY <1>1
<1>4. q < p \/ (q = p /\ r < s)
  BY <1>1, <1>2, <1>3
<1> QED BY <1>4 DEF q, r, p, s

(* The next number is next in the page, or first in the next page.          *)
LEMMA PlaceOfNext ==
  ASSUME NEW t \in Nat, NEW k \in Nat \ {0}
  PROVE  IF (t % k) + 1 < k
         THEN /\ (t + 1) \div k = t \div k
              /\ (t + 1) % k = (t % k) + 1
         ELSE /\ (t % k) + 1 = k
              /\ (t + 1) \div k = (t \div k) + 1
              /\ (t + 1) % k = 0
<1> DEFINE q == (t + 1) \div k  r == (t + 1) % k  p == t \div k  s == t % k
<1>1. /\ q \in Nat /\ p \in Nat /\ r \in 0..(k - 1) /\ s \in 0..(k - 1)
      /\ (k * q) + r = (k * p) + s + 1
  BY DivMod
<1> HIDE DEF q, r, p, s
<1>2. k * (p + 1) = (k * p) + k /\ k * (p + 2) = (k * p) + k + k
  BY <1>1
<1>3. q >= p
  <2> SUFFICES ASSUME q + 1 <= p PROVE FALSE
    BY <1>1
  <2>1. k * (q + 1) <= k * p
    BY <1>1
  <2>2. k * (q + 1) = (k * q) + k
    BY <1>1
  <2> QED BY <1>1, <2>1, <2>2
<1>4. q <= p + 1
  <2> SUFFICES ASSUME p + 2 <= q PROVE FALSE
    BY <1>1
  <2>1. k * (p + 2) <= k * q
    BY <1>1
  <2> QED BY <1>1, <1>2, <2>1
<1>5. CASE q = p
  <2>1. r = s + 1
    BY <1>1, <1>5
  <2> QED BY <1>1, <1>5, <2>1 DEF q, r, p, s
<1>6. CASE q = p + 1
  <2>1. r + k = s + 1
    BY <1>1, <1>2, <1>6
  <2>2. r = 0 /\ s + 1 = k
    BY <1>1, <2>1
  <2> QED BY <1>6, <2>2 DEF q, r, p, s
<1> QED BY <1>1, <1>3, <1>4, <1>5, <1>6
-----------------------------------------------------------------------------
(* Induction on the subsets of a finite set.                                *)
LEMMA FiniteSubsetInduction ==
  ASSUME NEW S, IsFiniteSet(S), NEW B,
         \A T \in SUBSET S : (\A U \in SUBSET T : U # T => U \in B) => T \in B
  PROVE  \A T \in SUBSET S : T \in B
<1> DEFINE Bad == (SUBSET S) \ B
<1> SUFFICES ASSUME Bad # {} PROVE FALSE
  OBVIOUS
<1>1. IsWellFoundedOn(StrictSubsetOrdering(S), SUBSET S)
  <2>1. IsWellFoundedOn(StrictSubsetOrdering(S), FiniteSubsetsOf(S))
    BY FS_StrictSubsetOrderingWellFounded
  <2>2. FiniteSubsetsOf(S) = SUBSET S
    BY FS_FiniteSubsetsOfFinite
  <2> QED BY <2>1, <2>2
<1>2. PICK T \in Bad : \A U \in Bad : ~ (<<U, T>> \in StrictSubsetOrdering(S))
  <2> Bad \subseteq SUBSET S OBVIOUS
  <2> HIDE DEF Bad
  <2> QED BY <1>1, WFMin
<1>3. ASSUME NEW U \in SUBSET T, U # T PROVE U \in B
  BY <1>2, <1>3 DEF StrictSubsetOrdering
<1> QED BY <1>2, <1>3

(* The recursion of SumFunctionOnSet: the element that is added first, and  *)
(* the sums of all subsets of T in a table.                                 *)
ChosenOf(T) == CHOOSE x \in T : TRUE
RestOf(T) == T \ {ChosenOf(T)}
IsSumTable(h, f, T) ==
  h = [U \in SUBSET T |-> IF U = {} THEN 0 ELSE f[ChosenOf(U)] + h[RestOf(U)]]
SumTable(f, T) == CHOOSE h : IsSumTable(h, f, T)

LEMMA SumIsTable ==
  ASSUME NEW f, NEW S
  PROVE  SumFunctionOnSet(f, S) = SumTable(f, S)[S]
BY DEF SumFunctionOnSet, FoldFunctionOnSet, MapThenFoldSet, SumTable,
       IsSumTable, ChosenOf, RestOf

LEMMA ChosenIn ==
  ASSUME NEW T, T # {}
  PROVE  ChosenOf(T) \in T /\ RestOf(T) \in SUBSET T /\ RestOf(T) # T
BY DEF ChosenOf, RestOf

(* Two tables give a set they both hold the same sum.                       *)
LEMMA TablesAgree ==
  ASSUME NEW f, NEW S, NEW T, NEW g, NEW h,
         IsFiniteSet(S), IsSumTable(g, f, S), IsSumTable(h, f, T)
  PROVE  \A U \in SUBSET (S \cap T) : g[U] = h[U]
<1> DEFINE B == {U \in SUBSET (S \cap T) : g[U] = h[U]}
<1>1. ASSUME NEW U \in SUBSET (S \cap T),
             \A V \in SUBSET U : V # U => V \in B
      PROVE  U \in B
  <2>1. g[U] = IF U = {} THEN 0 ELSE f[ChosenOf(U)] + g[RestOf(U)]
    BY DEF IsSumTable
  <2>2. h[U] = IF U = {} THEN 0 ELSE f[ChosenOf(U)] + h[RestOf(U)]
    BY DEF IsSumTable
  <2>3. U # {} => g[RestOf(U)] = h[RestOf(U)]
    BY ChosenIn, <1>1
  <2> QED BY <2>1, <2>2, <2>3
<1>2. IsFiniteSet(S \cap T)
  BY FS_Intersection
<1> HIDE DEF B
<1>3. \A U \in SUBSET (S \cap T) : U \in B
  BY <1>1, <1>2, FiniteSubsetInduction
<1> QED BY <1>3 DEF B

(* There is a table of the sums of all subsets of a finite set.             *)
LEMMA TableExists ==
  ASSUME NEW f, NEW S, IsFiniteSet(S)
  PROVE  IsSumTable(SumTable(f, S), f, S)
<1> DEFINE B == {T \in SUBSET S : \E h : IsSumTable(h, f, T)}
<1>1. ASSUME NEW T \in SUBSET S,
             \A U \in SUBSET T : U # T => U \in B
      PROVE  T \in B
  <2> DEFINE e(U) == SumTable(f, U)[U]
             h == [U \in SUBSET T |-> IF U = {} THEN 0
                                      ELSE f[ChosenOf(U)] + e(RestOf(U))]
  <2>1. ASSUME NEW U \in SUBSET T, U # T
        PROVE  h[U] = e(U)
    <3>1. IsSumTable(SumTable(f, U), f, U)
      BY <1>1, <2>1 DEF SumTable
    <3>2. SumTable(f, U)[U] = IF U = {} THEN 0
                              ELSE f[ChosenOf(U)] + SumTable(f, U)[RestOf(U)]
      <4> DEFINE g == SumTable(f, U)
      <4> HIDE DEF g
      <4> SUFFICES g[U] = IF U = {} THEN 0 ELSE f[ChosenOf(U)] + g[RestOf(U)]
        BY DEF g
      <4>1. IsSumTable(g, f, U)
        BY <3>1 DEF g
      <4> QED BY <4>1 DEF IsSumTable
    <3>3. ASSUME U # {} PROVE SumTable(f, U)[RestOf(U)] = e(RestOf(U))
      <4> DEFINE V == RestOf(U)
      <4>1. V \in SUBSET T /\ V # T
        BY ChosenIn, <3>3
      <4>2. IsSumTable(SumTable(f, V), f, V)
        BY <1>1, <4>1 DEF SumTable
      <4>3. IsFiniteSet(U) /\ V \in SUBSET (U \cap V)
        BY FS_Subset
      <4> HIDE DEF V
      <4>4. SumTable(f, U)[V] = SumTable(f, V)[V]
        BY <3>1, <4>2, <4>3, TablesAgree
      <4> QED BY <4>4 DEF V
    <3> QED BY <3>2, <3>3
  <2>2. IsSumTable(h, f, T)
    <3>1. ASSUME NEW U \in SUBSET T, U # {}
          PROVE  h[RestOf(U)] = e(RestOf(U))
      <4>1. RestOf(U) \in SUBSET T /\ RestOf(U) # T
        BY ChosenIn, <3>1
      <4> HIDE DEF e, h
      <4> QED BY <2>1, <4>1
    <3>2. h = [U \in SUBSET T |-> IF U = {} THEN 0
                                  ELSE f[ChosenOf(U)] + h[RestOf(U)]]
      <4> DEFINE k == h
      <4> HIDE DEF k, e
      <4> SUFFICES k = [U \in SUBSET T |-> IF U = {} THEN 0
                                  ELSE f[ChosenOf(U)] + k[RestOf(U)]]
        BY DEF k
      <4>1. \A U \in SUBSET T : U # {} => k[RestOf(U)] = e(RestOf(U))
        BY <3>1 DEF k
      <4>2. k = [U \in SUBSET T |-> IF U = {} THEN 0
                                      ELSE f[ChosenOf(U)] + e(RestOf(U))]
        BY DEF k
      <4> QED BY <4>1, <4>2
    <3> HIDE DEF h
    <3> QED BY <3>2 DEF IsSumTable
  <2> HIDE DEF h
  <2> QED BY <2>2
<1> HIDE DEF B
<1>2. \A T \in SUBSET S : T \in B
  BY <1>1, FiniteSubsetInduction
<1>3. \E h : IsSumTable(h, f, S)
  BY <1>2 DEF B
<1> QED BY <1>3 DEF SumTable

(* A sum is its first summand and the sum of the rest.                      *)
LEMMA SumStep ==
  ASSUME NEW f, NEW S, IsFiniteSet(S)
  PROVE  SumFunctionOnSet(f, S) =
           IF S = {} THEN 0
           ELSE f[ChosenOf(S)] + SumFunctionOnSet(f, RestOf(S))
<1> DEFINE g == SumTable(f, S)  V == RestOf(S)  h == SumTable(f, V)
<1>1. IsSumTable(g, f, S)
  BY TableExists
<1>2. IsFiniteSet(V) /\ V \in SUBSET (S \cap V)
  BY FS_Subset DEF RestOf
<1>3. IsSumTable(h, f, V)
  BY <1>2, TableExists
<1>4. g[V] = h[V]
  <2> HIDE DEF g, V, h
  <2> QED BY <1>1, <1>2, <1>3, TablesAgree
<1>5. g[S] = IF S = {} THEN 0 ELSE f[ChosenOf(S)] + g[V]
  <2> HIDE DEF g
  <2> QED BY <1>1 DEF IsSumTable
<1> QED BY <1>4, <1>5, SumIsTable

(* Nothing sums to 0.                                                       *)
LEMMA SumEmpty ==
  ASSUME NEW f
  PROVE  SumFunctionOnSet(f, {}) = 0
BY SumStep, FS_EmptySet

(* A sum of integers is one, and any summand may be the first: the order in *)
(* which the recursion chooses the elements does not matter.                *)
LEMMA SumTheory ==
  ASSUME NEW f, NEW S, IsFiniteSet(S), \A x \in S : f[x] \in Int
  PROVE  \A T \in SUBSET S :
           /\ SumFunctionOnSet(f, T) \in Int
           /\ \A y \in T : SumFunctionOnSet(f, T) = f[y] + SumFunctionOnSet(f, T \ {y})
<1> DEFINE Sum(T) == SumFunctionOnSet(f, T)
           B == {T \in SUBSET S : /\ Sum(T) \in Int
                                  /\ \A y \in T : Sum(T) = f[y] + Sum(T \ {y})}
<1>1. ASSUME NEW T \in SUBSET S,
             \A U \in SUBSET T : U # T => U \in B
      PROVE  T \in B
  <2>1. CASE T = {}
    BY <2>1, SumEmpty
  <2>2. CASE T # {}
    <3> DEFINE p == ChosenOf(T)
    <3>1. p \in T /\ f[p] \in Int /\ T \ {p} \in B
      BY <1>1, <2>2, ChosenIn
    <3>2. IsFiniteSet(T)
      BY FS_Subset
    <3>3. Sum(T) = f[p] + Sum(T \ {p})
      BY <2>2, <3>2, SumStep DEF RestOf
    <3> HIDE DEF p
    <3>4. ASSUME NEW y \in T, y # p
          PROVE  Sum(T) = f[y] + Sum(T \ {y})
      <4>1. T \ {y} \in B
        BY <1>1
      <4> DEFINE r == Sum((T \ {p}) \ {y})
      <4>2. Sum(T \ {p}) = f[y] + r
        BY <3>1, <3>4
      <4>3. Sum(T \ {y}) = f[p] + r
        <5>1. (T \ {p}) \ {y} = (T \ {y}) \ {p}
          OBVIOUS
        <5> QED BY <3>1, <3>4, <4>1, <5>1
      <4>4. r \in Int /\ f[y] \in Int /\ f[p] \in Int
        BY <1>1, <3>1
      <4> HIDE DEF r, Sum, B
      <4> QED BY <3>3, <4>2, <4>3, <4>4
    <3>5. Sum(T) \in Int
      <4>1. Sum(T \ {p}) \in Int
        BY <3>1
      <4> HIDE DEF Sum
      <4> QED BY <3>1, <3>3, <4>1
    <3> QED BY <3>3, <3>4, <3>5
  <2> QED BY <2>1, <2>2
<1> HIDE DEF B
<1>2. \A T \in SUBSET S : T \in B
  BY <1>1, FiniteSubsetInduction
<1> QED BY <1>2 DEF B

(* What SumTheory says of the whole set.                                    *)
LEMMA SumInt ==
  ASSUME NEW f, NEW S, IsFiniteSet(S), \A x \in S : f[x] \in Int
  PROVE  SumFunctionOnSet(f, S) \in Int
BY SumTheory

LEMMA SumRemove ==
  ASSUME NEW f, NEW S, IsFiniteSet(S), \A x \in S : f[x] \in Int, NEW y \in S
  PROVE  SumFunctionOnSet(f, S) = f[y] + SumFunctionOnSet(f, S \ {y})
BY SumTheory

(* A new element adds its value.                                            *)
LEMMA SumAdd ==
  ASSUME NEW f, NEW S, IsFiniteSet(S), NEW y, y \notin S,
         \A x \in S \cup {y} : f[x] \in Int
  PROVE  SumFunctionOnSet(f, S \cup {y}) = SumFunctionOnSet(f, S) + f[y]
<1>1. IsFiniteSet(S \cup {y}) /\ (S \cup {y}) \ {y} = S
  BY FS_AddElement
<1> QED BY <1>1, SumRemove, SumInt

(* Functions that agree on a set have the same sum over it.                 *)
LEMMA SumSame ==
  ASSUME NEW f, NEW g, NEW S, IsFiniteSet(S),
         \A x \in S : f[x] \in Int /\ g[x] = f[x]
  PROVE  SumFunctionOnSet(g, S) = SumFunctionOnSet(f, S)
<1> DEFINE B == {T \in SUBSET S : SumFunctionOnSet(g, T) = SumFunctionOnSet(f, T)}
<1>1. ASSUME NEW T \in SUBSET S,
             \A U \in SUBSET T : U # T => U \in B
      PROVE  T \in B
  <2>1. CASE T = {}
    BY <2>1, SumEmpty
  <2>2. ASSUME NEW y \in T PROVE T \in B
    <3>1. IsFiniteSet(T) /\ T \ {y} \in B
      BY <1>1, FS_Subset
    <3>2. SumFunctionOnSet(f, T) = f[y] + SumFunctionOnSet(f, T \ {y})
      BY <3>1, SumRemove
    <3>3. SumFunctionOnSet(g, T) = g[y] + SumFunctionOnSet(g, T \ {y})
      BY <3>1, SumRemove
    <3> QED BY <3>1, <3>2, <3>3
  <2> QED BY <2>1, <2>2
<1> HIDE DEF B
<1>2. \A T \in SUBSET S : T \in B
  BY <1>1, FiniteSubsetInduction
<1> QED BY <1>2 DEF B

(* When one summand changes, the sum changes by as much.                    *)
LEMMA SumChange ==
  ASSUME NEW f, NEW g, NEW S, IsFiniteSet(S), NEW y \in S,
         \A x \in S : f[x] \in Int /\ g[x] \in Int,
         \A x \in S \ {y} : g[x] = f[x]
  PROVE  SumFunctionOnSet(g, S) = SumFunctionOnSet(f, S) + (g[y] - f[y])
<1> DEFINE R == S \ {y}
<1>1. IsFiniteSet(R)
  BY FS_Subset
<1>2. SumFunctionOnSet(g, R) = SumFunctionOnSet(f, R)
  BY <1>1, SumSame
<1>3. SumFunctionOnSet(f, R) \in Int
  BY <1>1, SumInt
<1>4. /\ SumFunctionOnSet(f, S) = f[y] + SumFunctionOnSet(f, R)
      /\ SumFunctionOnSet(g, S) = g[y] + SumFunctionOnSet(g, R)
  BY SumRemove
<1> HIDE DEF R
<1> QED BY <1>2, <1>3, <1>4

(* If k times every summand is between two bounds, k times the sum is that  *)
(* many times between them.                                                 *)
LEMMA SumBetween ==
  ASSUME NEW f, NEW S, IsFiniteSet(S), \A x \in S : f[x] \in Int,
         NEW k \in Nat, NEW low \in Int, NEW high \in Int,
         \A x \in S : low <= k * f[x] /\ k * f[x] <= high
  PROVE  /\ low * Cardinality(S) <= k * SumFunctionOnSet(f, S)
         /\ k * SumFunctionOnSet(f, S) <= high * Cardinality(S)
<1> DEFINE Sum(T) == SumFunctionOnSet(f, T)
           B == {T \in SUBSET S : /\ low * Cardinality(T) <= k * Sum(T)
                                  /\ k * Sum(T) <= high * Cardinality(T)}
<1>1. ASSUME NEW T \in SUBSET S,
             \A U \in SUBSET T : U # T => U \in B
      PROVE  T \in B
  <2>1. CASE T = {}
    BY <2>1, SumEmpty, FS_EmptySet
  <2>2. ASSUME NEW y \in T PROVE T \in B
    <3> DEFINE c == Cardinality(T \ {y})  s == Sum(T \ {y})
    <3>1. IsFiniteSet(T) /\ T \ {y} \in B
      BY <1>1, FS_Subset
    <3>2. Sum(T) = f[y] + s
      BY <3>1, SumRemove
    <3>3. Cardinality(T) = c + 1 /\ c \in Nat
      <4>1. IsFiniteSet(T \ {y}) /\ c = Cardinality(T) - 1 /\ Cardinality(T) \in Nat
        BY <3>1, FS_RemoveElement, FS_CardinalityType
      <4> QED BY <4>1, FS_CardinalityType
    <3>4. s \in Int /\ f[y] \in Int
      BY <3>1, SumInt, FS_RemoveElement
    <3>5. low * c <= k * s /\ k * s <= high * c
      BY <3>1
    <3>6. low <= k * f[y] /\ k * f[y] <= high
      OBVIOUS
    <3> HIDE DEF c, s
    <3>7. /\ k * (f[y] + s) = (k * f[y]) + (k * s)
          /\ low * (c + 1) = (low * c) + low
          /\ high * (c + 1) = (high * c) + high
      BY <3>3, <3>4
    <3>8. low * (c + 1) <= k * (f[y] + s) /\ k * (f[y] + s) <= high * (c + 1)
      <4> DEFINE a == low * c  b == high * c  d == k * f[y]  e == k * s
      <4>1. a \in Int /\ b \in Int /\ d \in Int /\ e \in Int
        BY <3>3, <3>4
      <4> HIDE DEF a, b, d, e
      <4>2. a + low <= d + e /\ d + e <= b + high
        BY <4>1, <3>5, <3>6 DEF a, b, d, e
      <4> QED BY <4>2, <3>7 DEF a, b, d, e
    <3> HIDE DEF Sum
    <3>9. /\ low * Cardinality(T) <= k * Sum(T)
          /\ k * Sum(T) <= high * Cardinality(T)
      BY <3>2, <3>3, <3>8
    <3> QED BY <3>9
  <2> QED BY <2>1, <2>2
<1> HIDE DEF B
<1>2. \A T \in SUBSET S : T \in B
  BY <1>1, FiniteSubsetInduction
<1> QED BY <1>2 DEF B

(* A sum of naturals is one, and no part of it and no summand exceeds it.   *)
LEMMA SumNat ==
  ASSUME NEW f, NEW S, IsFiniteSet(S), \A x \in S : f[x] \in Nat
  PROVE  /\ SumFunctionOnSet(f, S) \in Nat
         /\ \A T \in SUBSET S : SumFunctionOnSet(f, T) <= SumFunctionOnSet(f, S)
         /\ \A x \in S : f[x] <= SumFunctionOnSet(f, S)
<1> DEFINE Sum(T) == SumFunctionOnSet(f, T)
           B == {T \in SUBSET S : /\ Sum(T) \in Nat
                                  /\ \A U \in SUBSET T : Sum(U) <= Sum(T)}
<1>1. ASSUME NEW T \in SUBSET S,
             \A U \in SUBSET T : U # T => U \in B
      PROVE  T \in B
  <2>0. ASSUME NEW y \in T PROVE Sum(T) = f[y] + Sum(T \ {y}) /\ f[y] \in Nat /\ T \ {y} \in B
    BY <1>1, FS_Subset, SumRemove
  <2>1. Sum(T) \in Nat
    <3>1. CASE T = {}
      BY <3>1, SumEmpty
    <3>2. ASSUME NEW y \in T PROVE Sum(T) \in Nat
      <4>1. Sum(T \ {y}) \in Nat
        BY <2>0
      <4> HIDE DEF Sum, B
      <4> QED BY <2>0, <4>1
    <3> QED BY <3>1, <3>2
  <2>2. ASSUME NEW U \in SUBSET T PROVE Sum(U) <= Sum(T)
    <3>1. CASE U = T
      BY <2>1, <3>1
    <3>2. CASE U # T
      <4>1. PICK y \in T : y \notin U
        BY <3>2
      <4>2. Sum(U) <= Sum(T \ {y}) /\ Sum(U) \in Nat /\ Sum(T \ {y}) \in Nat
        BY <1>1, <2>0, <3>2, <4>1
      <4> HIDE DEF Sum, B
      <4> QED BY <2>0, <4>2
    <3> QED BY <3>1, <3>2
  <2> QED BY <2>1, <2>2
<1> HIDE DEF B
<1>2. \A T \in SUBSET S : T \in B
  BY <1>1, FiniteSubsetInduction
<1>3. ASSUME NEW x \in S PROVE f[x] <= Sum(S)
  <2>1. Sum({x}) = f[x] + Sum({})
    <3>1. IsFiniteSet({x}) /\ {x} \ {x} = {}
      BY FS_Singleton
    <3> QED BY <3>1, SumRemove
  <2>2. Sum({}) = 0
    BY SumEmpty
  <2>3. Sum({x}) <= Sum(S)
    BY <1>2 DEF B
  <2> HIDE DEF Sum
  <2> QED BY <2>1, <2>2, <2>3
<1> QED BY <1>2, <1>3 DEF B

(* m gives the elements of S other names, those of J, one to one, and g is f *)
(* under those names, scaled and shifted.                                   *)
Renamed(g, S, f, J, m, k, d) ==
  /\ k \in Int
  /\ d \in Int
  /\ \A x, y \in S : m[x] = m[y] => x = y
  /\ \A x \in S : m[x] \in J
  /\ \A z \in J : \E x \in S : z = m[x]
  /\ \A x \in S : f[m[x]] \in Int /\ g[x] = k * f[m[x]] + d

(* A sum over other names is the same sum, scaled and shifted.              *)
LEMMA SumRenamed ==
  ASSUME NEW S, IsFiniteSet(S), NEW J, NEW f, NEW g, NEW m, NEW k, NEW d,
         Renamed(g, S, f, J, m, k, d)
  PROVE  SumFunctionOnSet(g, S) = k * SumFunctionOnSet(f, J) + d * Cardinality(S)
<1>0. /\ k \in Int /\ d \in Int
      /\ \A x, y \in S : m[x] = m[y] => x = y
      /\ \A x \in S : m[x] \in J
      /\ \A z \in J : \E x \in S : z = m[x]
      /\ \A x \in S : f[m[x]] \in Int /\ g[x] = k * f[m[x]] + d
  BY DEF Renamed
<1> DEFINE I(T) == {m[x] : x \in T}
           B == {T \in SUBSET S :
                   /\ IsFiniteSet(I(T))
                   /\ SumFunctionOnSet(g, T)
                        = k * SumFunctionOnSet(f, I(T)) + d * Cardinality(T)}
<1>1. ASSUME NEW T \in SUBSET S,
             \A U \in SUBSET T : U # T => U \in B
      PROVE  T \in B
  <2>1. CASE T = {}
    <3>1. I(T) = {} /\ k * 0 + d * 0 = 0
      BY <1>0, <2>1
    <3> QED BY <2>1, <3>1, SumEmpty, FS_EmptySet
  <2>2. ASSUME NEW y \in T PROVE T \in B
    <3> DEFINE V == T \ {y}  c == Cardinality(V)
               s == SumFunctionOnSet(f, I(V))
    <3>1. V \in SUBSET S /\ V \in B /\ IsFiniteSet(T) /\ IsFiniteSet(V)
      BY <1>1, FS_Subset
    <3>2. IsFiniteSet(I(V))
          /\ SumFunctionOnSet(g, V) = k * s + d * c
      BY <3>1
    <3>3. I(T) = I(V) \cup {m[y]} /\ m[y] \notin I(V)
      BY <1>0
    <3>4. \A z \in I(V) \cup {m[y]} : f[z] \in Int
      BY <1>0
    <3>5. IsFiniteSet(I(T))
      <4> HIDE DEF I, V
      <4>1. IsFiniteSet(I(V) \cup {m[y]})
        BY <3>2, FS_AddElement
      <4> QED BY <3>3, <4>1
    <3>6. s \in Int /\ SumFunctionOnSet(f, I(T)) = s + f[m[y]]
      <4> HIDE DEF I, V
      <4> QED BY <3>2, <3>3, <3>4, SumAdd, SumInt
    <3>7. c \in Nat /\ Cardinality(T) = c + 1
      <4>1. T = V \cup {y} /\ y \notin V
        OBVIOUS
      <4> HIDE DEF V
      <4> QED BY <3>1, <4>1, FS_AddElement, FS_CardinalityType
    <3>8. \A x \in T : g[x] \in Int
      <4> SUFFICES ASSUME NEW x \in T PROVE g[x] \in Int
        OBVIOUS
      <4>1. f[m[x]] \in Int /\ g[x] = k * f[m[x]] + d
        BY <1>0
      <4> QED BY <1>0, <4>1
    <3>9. SumFunctionOnSet(g, T) = g[y] + SumFunctionOnSet(g, V)
      BY <3>1, <3>8, SumRemove
    <3>10. g[y] = k * f[m[y]] + d /\ f[m[y]] \in Int
      BY <1>0
    <3> HIDE DEF s, c, V, I
    <3>11. k * (s + f[m[y]]) + d * (c + 1) = (k * f[m[y]] + d) + (k * s + d * c)
      BY <1>0, <3>6, <3>7, <3>10
    <3>12. SumFunctionOnSet(g, T)
             = k * SumFunctionOnSet(f, I(T)) + d * Cardinality(T)
      BY <1>0, <3>2, <3>6, <3>7, <3>9, <3>10, <3>11
    <3> QED BY <3>5, <3>12
  <2> QED BY <2>1, <2>2
<1> HIDE DEF B
<1>2. \A T \in SUBSET S : T \in B
  BY <1>1, FiniteSubsetInduction
<1>3. I(S) = J
  BY <1>0
<1>4. SumFunctionOnSet(g, S) = k * SumFunctionOnSet(f, I(S)) + d * Cardinality(S)
  BY <1>2 DEF B
<1> QED BY <1>3, <1>4

(* Numbers of one sign that sum to 0 are all 0.                             *)
LEMMA SumIsZero ==
  ASSUME NEW f, NEW S, IsFiniteSet(S), SumFunctionOnSet(f, S) = 0,
         \A x \in S : f[x] \in Int,
         (\A x \in S : f[x] >= 0) \/ (\A x \in S : f[x] <= 0)
  PROVE  \A x \in S : f[x] = 0
<1>1. CASE \A x \in S : f[x] >= 0
  <2>1. \A x \in S : f[x] \in Nat
    BY <1>1
  <2> QED BY <1>1, <2>1, SumNat
<1>2. CASE \A x \in S : f[x] <= 0
  <2> DEFINE g == [x \in S |-> -f[x]]
             m == [x \in S |-> x]
  <2>1. \A x \in S : g[x] \in Nat
    BY <1>2
  <2>2. SumFunctionOnSet(g, S) = (-1) * SumFunctionOnSet(f, S) + 0 * Cardinality(S)
    <3> DEFINE k == -1  d == 0
    <3>1. Renamed(g, S, f, S, m, k, d)
      BY DEF Renamed
    <3>2. SumFunctionOnSet(g, S) = k * SumFunctionOnSet(f, S) + d * Cardinality(S)
      <4> HIDE DEF g, m, k, d
      <4> QED BY <3>1, SumRenamed
    <3> QED BY <3>2
  <2>3. SumFunctionOnSet(g, S) = 0
    <3> HIDE DEF g
    <3> QED BY <2>2, FS_CardinalityType
  <2>4. \A x \in S : g[x] <= 0
    <3> HIDE DEF g
    <3> QED BY <2>1, <2>3, SumNat
  <2> QED BY <1>2, <2>4
<1> QED BY <1>1, <1>2

(* What c is related to among P.                                            *)
Fibre(R, P, c) == {p \in P : <<c, p>> \in R}

(* A relation has as many pairs as the sum of what each element relates to. *)
LEMMA SumOfFibres ==
  ASSUME NEW S, IsFiniteSet(S), NEW P, IsFiniteSet(P), NEW R, R \subseteq S \X P, NEW k,
         \A c \in S : k[c] = Cardinality(Fibre(R, P, c))
  PROVE  Cardinality(R) = SumFunctionOnSet(k, S)
<1> USE DEF Fibre
<1> DEFINE F(c) == Fibre(R, P, c)
           W(T) == {o \in R : o[1] \in T}
           B == {T \in SUBSET S : /\ IsFiniteSet(W(T))
                                  /\ Cardinality(W(T)) = SumFunctionOnSet(k, T)}
<1>1. ASSUME NEW c \in S
      PROVE  /\ IsFiniteSet(W({c})) /\ Cardinality(W({c})) = k[c]
             /\ k[c] \in Nat
  <2> DEFINE h == [p \in F(c) |-> <<c, p>>]
  <2>1. IsFiniteSet(F(c))
    BY FS_Subset
  <2>2. \A o \in W({c}) : \E p \in F(c) : o = <<c, p>>
    OBVIOUS
  <2>3. h \in Bijection(F(c), W({c}))
    <3>1. h \in [F(c) -> W({c})]
      OBVIOUS
    <3>2. \A a, b \in F(c) : h[a] = h[b] => a = b
      OBVIOUS
    <3>3. \A o \in W({c}) : \E p \in F(c) : h[p] = o
      BY <2>2
    <3> HIDE DEF h, F, W
    <3> QED BY <3>1, <3>2, <3>3 DEF Bijection, Injection, Surjection, IsInjective
  <2>4. ExistsBijection(F(c), W({c}))
    BY <2>3 DEF ExistsBijection
  <2> HIDE DEF W
  <2>5. IsFiniteSet(W({c})) /\ Cardinality(W({c})) = Cardinality(F(c))
    BY <2>1, <2>4, FS_Bijection
  <2> QED BY <2>1, <2>5, FS_CardinalityType
<1>2. ASSUME NEW T \in SUBSET S,
             \A U \in SUBSET T : U # T => U \in B
      PROVE  T \in B
  <2>1. CASE T = {}
    <3>1. W(T) = {}
      BY <2>1
    <3> QED BY <2>1, <3>1, SumEmpty, FS_EmptySet
  <2>2. ASSUME NEW y \in T PROVE T \in B
    <3> DEFINE V == T \ {y}
    <3>1. V \in SUBSET S /\ V \in B /\ IsFiniteSet(T)
      BY <1>2, FS_Subset
    <3>2. IsFiniteSet(W(V)) /\ Cardinality(W(V)) = SumFunctionOnSet(k, V)
      BY <3>1
    <3>3. W(T) = W(V) \cup W({y}) /\ W(V) \cap W({y}) = {}
      OBVIOUS
    <3>3a. y \in S /\ \A c \in T : c \in S
      BY <1>2
    <3>4. IsFiniteSet(W({y})) /\ Cardinality(W({y})) = k[y] /\ k[y] \in Nat
      BY <1>1
    <3>5. SumFunctionOnSet(k, T) = k[y] + SumFunctionOnSet(k, V)
      <4>1. ASSUME NEW c \in T PROVE k[c] \in Int
        <5>1. c \in S
          BY <3>3a
        <5>2. k[c] \in Nat
          BY <1>1, <5>1
        <5> QED BY <5>2
      <4> HIDE DEF W, B
      <4> QED BY <3>1, <4>1, SumRemove
    <3> HIDE DEF W, V
    <3> DEFINE a == W(V)  b == W({y})
    <3>6. /\ IsFiniteSet(W(T))
          /\ Cardinality(W(T)) = Cardinality(W(V)) + Cardinality(W({y})) - Cardinality(W(V) \cap W({y}))
      <4>1. /\ IsFiniteSet(a \cup b)
            /\ Cardinality(a \cup b) = Cardinality(a) + Cardinality(b) - Cardinality(a \cap b)
        <5>1. IsFiniteSet(a) /\ IsFiniteSet(b)
          BY <3>2, <3>4
        <5> HIDE DEF a, b
        <5> QED BY <5>1, FS_Union
      <4> QED BY <3>3, <4>1
    <3>7. Cardinality(W(V) \cap W({y})) = 0
      BY <3>3, FS_EmptySet
    <3>8. Cardinality(W(V)) \in Nat
      BY <3>2, FS_CardinalityType
    <3>9. Cardinality(W(T)) = SumFunctionOnSet(k, T)
      BY <3>2, <3>4, <3>5, <3>6, <3>7, <3>8
    <3> QED BY <3>6, <3>9
  <2> QED BY <2>1, <2>2
<1> HIDE DEF B
<1>3. \A T \in SUBSET S : T \in B
  BY <1>2, FiniteSubsetInduction
<1>4. W(S) = R
  OBVIOUS
<1> QED BY <1>3, <1>4 DEF B

(* Zeros sum to 0.                                                          *)
LEMMA SumOfZeros ==
  ASSUME NEW f, NEW S, IsFiniteSet(S), \A x \in S : f[x] = 0
  PROVE  SumFunctionOnSet(f, S) = 0
<1>1. /\ 0 * Cardinality(S) <= 1 * SumFunctionOnSet(f, S)
      /\ 1 * SumFunctionOnSet(f, S) <= 0 * Cardinality(S)
  BY SumBetween
<1> QED BY <1>1, SumInt, FS_CardinalityType

(* What is appended to a list of integers is added to its sum.              *)
LEMMA SumAppend ==
  ASSUME NEW s \in Seq(Int), NEW v \in Int
  PROVE  SumFunctionOnSet(Append(s, v), 1..Len(Append(s, v)))
           = SumFunctionOnSet(s, 1..Len(s)) + v
<1> DEFINE t == Append(s, v)  S == 1..Len(s)
<1>1. /\ Len(s) \in Nat /\ Len(t) = Len(s) + 1 /\ t[Len(s) + 1] = v
      /\ \A i \in S : s[i] \in Int /\ t[i] = s[i]
  OBVIOUS
<1>2. IsFiniteSet(S) /\ Len(s) + 1 \notin S /\ 1..Len(t) = S \cup {Len(s) + 1}
  <2>1. IsFiniteSet(S)
    BY <1>1, FS_Interval
  <2> HIDE DEF t
  <2> QED BY <1>1, <2>1
<1>3. SumFunctionOnSet(t, S \cup {Len(s) + 1})
        = SumFunctionOnSet(t, S) + t[Len(s) + 1]
  <2>1. \A i \in S \cup {Len(s) + 1} : t[i] \in Int
    BY <1>1
  <2> HIDE DEF t, S
  <2> QED BY <1>2, <2>1, SumAdd
<1>4. SumFunctionOnSet(t, S) = SumFunctionOnSet(s, S)
  BY <1>1, <1>2, SumSame
<1> QED BY <1>1, <1>2, <1>3, <1>4

(* The sums of the first values of a list: from 0, one value more at a time,*)
(* never above the whole.                                                   *)
LEMMA SumOfFirst ==
  ASSUME NEW s \in Seq(Nat)
  PROVE  /\ SumFunctionOnSet(s, 1..0) = 0
         /\ \A k \in 1..Len(s) :
              /\ SumFunctionOnSet(s, 1..k)
                   = SumFunctionOnSet(s, 1..(k - 1)) + s[k]
              /\ SumFunctionOnSet(s, 1..k)
                   <= SumFunctionOnSet(s, 1..Len(s))
              /\ SumFunctionOnSet(s, 1..(k - 1)) \in Nat
              /\ SumFunctionOnSet(s, 1..k) \in Nat
<1>1. SumFunctionOnSet(s, 1..0) = 0
  BY SumEmpty
<1>2. ASSUME NEW k \in 1..Len(s)
      PROVE  /\ SumFunctionOnSet(s, 1..k)
                  = SumFunctionOnSet(s, 1..(k - 1)) + s[k]
             /\ SumFunctionOnSet(s, 1..k) <= SumFunctionOnSet(s, 1..Len(s))
             /\ SumFunctionOnSet(s, 1..(k - 1)) \in Nat
             /\ SumFunctionOnSet(s, 1..k) \in Nat
  <2> DEFINE K == 1..k  J == 1..(k - 1)  S == 1..Len(s)
  <2>1. /\ Len(s) \in Nat
        /\ IsFiniteSet(S) /\ IsFiniteSet(J) /\ IsFiniteSet(K)
        /\ K = J \cup {k} /\ k \notin J /\ K \in SUBSET S
        /\ \A i \in S : s[i] \in Nat
    <3>1. Len(s) \in Nat /\ k \in Nat /\ k - 1 \in Int
      OBVIOUS
    <3>2. IsFiniteSet(S) /\ IsFiniteSet(J) /\ IsFiniteSet(K)
      BY <3>1, FS_Interval
    <3> QED BY <3>1, <3>2
  <2> HIDE DEF K, J, S
  <2>2. /\ \A i \in K : s[i] \in Nat /\ s[i] \in Int
        /\ \A i \in J : s[i] \in Nat
    BY <2>1
  <2>3. SumFunctionOnSet(s, K) = SumFunctionOnSet(s, J) + s[k]
    BY <2>1, <2>2, SumAdd
  <2>4. SumFunctionOnSet(s, J) \in Nat /\ SumFunctionOnSet(s, K) \in Nat
    BY <2>1, <2>2, SumNat
  <2>5. SumFunctionOnSet(s, K) <= SumFunctionOnSet(s, S)
    BY <2>1, SumNat
  <2> QED BY <2>3, <2>4, <2>5 DEF K, J, S
<1> QED BY <1>1, <1>2
=============================================================================
