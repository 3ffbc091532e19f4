---------------------------- MODULE TotalsProofs ----------------------------
(***************************************************************************)
(* What the proofs about balances use of sums of natural numbers over a    *)
(* finite set.  To reason about the fold each summand is laid out as that  *)
(* many units: a sum is the number of its units.  The induction is on the  *)
(* subsets of the set, in the form of a smallest counterexample.           *)
(***************************************************************************)
EXTENDS Totals, FiniteSetTheorems, TLAPS

\* The units of S: one per natural number up to each summand.
Units(f, S) == {p \in S \X Nat : 0 < p[2] /\ p[2] <= f[p[1]]}

\* h folds f over the subsets of S, the way Total does.
IsFold(h, f, S) ==
    h = [s \in SUBSET S |->
           IF s = {} THEN 0 ELSE LET x == CHOOSE x \in s : TRUE IN f[x] + h[s \ {x}]]

\* Of some subsets of a finite set one is smallest.
LEMMA SmallestSubset ==
    ASSUME NEW S, IsFiniteSet(S), NEW T \in SUBSET (SUBSET S), T # {}
    PROVE  \E s \in T : \A t \in T : t \subseteq s => t = s
<1>1. IsWellFoundedOn(StrictSubsetOrdering(S), SUBSET S)
  BY FS_StrictSubsetOrderingWellFounded, FS_FiniteSubsetsOfFinite
<1>2. PICK s \in T : \A t \in T : <<t, s>> \notin StrictSubsetOrdering(S)
  BY <1>1, WFMin
<1>3. QED
  BY <1>2, Zenon DEF StrictSubsetOrdering

\* There are n numbers from 1 to n.
LEMMA UpTo ==
    ASSUME NEW n \in Nat
    PROVE  IsFiniteSet(1..n) /\ Cardinality(1..n) = n
<1>1. 1 \in Int /\ n \in Int
  OBVIOUS
<1>2. IsFiniteSet(1..n) /\ Cardinality(1..n) = IF 1 > n THEN 0 ELSE n - 1 + 1
  BY <1>1, FS_Interval, Zenon
<1>3. (IF 1 > n THEN 0 ELSE n - 1 + 1) = n
  OBVIOUS
<1>4. QED
  BY <1>2, <1>3

\* An element adds its units to those of the others.
LEMMA UnitsSplit ==
    ASSUME NEW s, NEW f, \A k \in s : f[k] \in Nat, NEW x \in s,
           IsFiniteSet(Units(f, s \ {x}))
    PROVE  /\ IsFiniteSet(Units(f, s))
           /\ Cardinality(Units(f, s)) = f[x] + Cardinality(Units(f, s \ {x}))
<1> DEFINE U == Units(f, s \ {x})
           V == {x} \X (1..f[x])
<1>1. f[x] \in Nat
  OBVIOUS
<1>2. IsFiniteSet(V) /\ Cardinality(V) = f[x]
  <2>1. IsFiniteSet({x}) /\ Cardinality({x}) = 1
    BY FS_Singleton, Zenon
  <2>2. IsFiniteSet(1..f[x]) /\ Cardinality(1..f[x]) = f[x]
    BY <1>1, UpTo
  <2>3. IsFiniteSet({x} \X (1..f[x]))
        /\ Cardinality({x} \X (1..f[x])) = Cardinality({x}) * Cardinality(1..f[x])
    BY <2>1, <2>2, FS_Product
  <2>4. QED
    BY <1>1, <2>1, <2>2, <2>3
<1>3. Units(f, s) = U \cup V
  BY <1>1 DEF Units
<1>4. U \cap V = {}
  BY DEF Units
<1>5. Cardinality(U) \in Nat
  BY FS_CardinalityType
<1> HIDE DEF U, V
<1>6. IsFiniteSet(U \cup V)
      /\ Cardinality(U \cup V) = Cardinality(U) + Cardinality(V) - Cardinality(U \cap V)
  BY <1>2, FS_Union, Zenon DEF U
<1>7. Cardinality(U \cap V) = 0
  BY <1>4, FS_EmptySet
<1>8. QED
  BY <1>1, <1>2, <1>3, <1>5, <1>6, <1>7 DEF U

\* There are finitely many units.
LEMMA UnitsFinite ==
    ASSUME NEW S, IsFiniteSet(S), NEW f, \A k \in S : f[k] \in Nat
    PROVE  \A s \in SUBSET S : IsFiniteSet(Units(f, s))
<1> DEFINE T == {s \in SUBSET S : ~IsFiniteSet(Units(f, s))}
<1> SUFFICES ASSUME T # {} PROVE FALSE
  OBVIOUS
<1>1. PICK s \in T : \A t \in T : t \subseteq s => t = s
  <2>1. T \in SUBSET (SUBSET S)
    OBVIOUS
  <2> HIDE DEF T
  <2>2. QED
    BY <2>1, SmallestSubset
<1>2. CASE s = {}
  <2>1. Units(f, s) = {}
    BY <1>2 DEF Units
  <2>2. QED
    BY <2>1, FS_EmptySet, Zenon
<1>3. CASE s # {}
  <2>1. PICK x \in s : TRUE
    BY <1>3
  <2>2. IsFiniteSet(Units(f, s \ {x}))
    BY <1>1, <2>1
  <2>3. QED
    BY <2>1, <2>2, UnitsSplit
<1>4. QED
  BY <1>2, <1>3

\* Counting the units is such a fold.
LEMMA UnitsFold ==
    ASSUME NEW S, IsFiniteSet(S), NEW f, \A k \in S : f[k] \in Nat
    PROVE  IsFold([s \in SUBSET S |-> Cardinality(Units(f, s))], f, S)
<1> DEFINE h == [s \in SUBSET S |-> Cardinality(Units(f, s))]
<1>1. ASSUME NEW s \in SUBSET S, s = {} PROVE h[s] = 0
  <2>1. Units(f, s) = {}
    BY <1>1 DEF Units
  <2>2. QED
    BY <2>1, FS_EmptySet
<1>2. ASSUME NEW s \in SUBSET S, s # {}
      PROVE  LET x == CHOOSE x \in s : TRUE IN h[s] = f[x] + h[s \ {x}]
  <2> DEFINE x == CHOOSE x \in s : TRUE
  <2>1. x \in s
    BY <1>2
  <2> HIDE DEF x
  <2>2. IsFiniteSet(Units(f, s \ {x})) /\ \A k \in s : f[k] \in Nat
    BY UnitsFinite
  <2>3. Cardinality(Units(f, s)) = f[x] + Cardinality(Units(f, s \ {x}))
    BY <2>1, <2>2, UnitsSplit
  <2>4. h[s] = f[x] + h[s \ {x}]
    BY <2>3
  <2>5. QED
    BY <2>4 DEF x
<1> HIDE DEF h
<1>3. h = [s \in SUBSET S |-> h[s]]
  BY DEF h
<1>4. QED
  BY <1>1, <1>2, <1>3, Zenon DEF IsFold, h

\* There is only one such fold.
LEMMA FoldUnique ==
    ASSUME NEW S, IsFiniteSet(S), NEW f, NEW g, NEW h, IsFold(g, f, S), IsFold(h, f, S)
    PROVE  g = h
<1> DEFINE T == {s \in SUBSET S : g[s] # h[s]}
<1>1. T \in SUBSET (SUBSET S)
  OBVIOUS
<1>2. ASSUME T # {} PROVE FALSE
  <2>1. PICK s \in T : \A t \in T : t \subseteq s => t = s
    <3> HIDE DEF T
    <3>1. QED
      BY <1>1, <1>2, SmallestSubset
  <2> DEFINE x == CHOOSE x \in s : TRUE
  <2>2. CASE s = {}
    BY <2>2 DEF IsFold
  <2>3. CASE s # {}
    <3>1. x \in s
      BY <2>3
    <3>2. g[s] = f[x] + g[s \ {x}] /\ h[s] = f[x] + h[s \ {x}]
      BY <2>3 DEF IsFold
    <3>3. g[s \ {x}] = h[s \ {x}]
      <4> HIDE DEF x
      <4>1. s \ {x} \subseteq s /\ s \ {x} # s /\ s \ {x} \in SUBSET S
        BY <3>1
      <4>2. QED
        BY <2>1, <4>1
    <3>4. QED
      BY <3>2, <3>3
  <2>4. QED
    BY <2>2, <2>3
<1>3. g = [s \in SUBSET S |-> g[s]] /\ h = [s \in SUBSET S |-> h[s]]
  BY DEF IsFold
<1>4. QED
  BY <1>2, <1>3

\* A sum is the number of its units.
LEMMA TotalCounts ==
    ASSUME NEW S, IsFiniteSet(S), NEW f, \A k \in S : f[k] \in Nat
    PROVE  Total(f, S) = Cardinality(Units(f, S))
<1>1. PICK g : IsFold(g, f, S)
  BY UnitsFold, Zenon
<1>2. PICK h : IsFold(h, f, S) /\ Total(f, S) = h[S]
  <2>1. \E h : h = [s \in SUBSET S |->
           IF s = {} THEN 0 ELSE LET x == CHOOSE x \in s : TRUE IN f[x] + h[s \ {x}]]
    BY <1>1, Zenon DEF IsFold
  <2>2. QED
    BY <2>1, Zenon DEF IsFold, Total, MapThenSumSet, MapThenFoldSet
<1>3. h = [s \in SUBSET S |-> Cardinality(Units(f, s))]
  BY <1>2, UnitsFold, FoldUnique, Zenon
<1>4. QED
  BY <1>2, <1>3

\* A sum of naturals is a natural.
LEMMA TotalType ==
    ASSUME NEW S, IsFiniteSet(S), NEW f, \A k \in S : f[k] \in Nat
    PROVE  Total(f, S) \in Nat
BY TotalCounts, UnitsFinite, FS_CardinalityType

\* A sum of zeros is zero.
LEMMA TotalZero ==
    ASSUME NEW S, IsFiniteSet(S), NEW f, \A k \in S : f[k] = 0
    PROVE  Total(f, S) = 0
<1>1. Units(f, S) = {}
  BY DEF Units
<1>2. QED
  BY <1>1, TotalCounts, FS_EmptySet

\* Changing one summand changes the sum by as much.
LEMMA TotalUpdate ==
    ASSUME NEW S, IsFiniteSet(S), NEW f, \A k \in S : f[k] \in Nat,
           NEW g, \A k \in S : g[k] \in Nat,
           NEW x \in S, \A k \in S \ {x} : g[k] = f[k]
    PROVE  Total(g, S) + f[x] = Total(f, S) + g[x]
<1>1. Units(g, S \ {x}) = Units(f, S \ {x})
  BY DEF Units
<1>2. IsFiniteSet(Units(f, S \ {x})) /\ Cardinality(Units(f, S \ {x})) \in Nat
  BY UnitsFinite, FS_CardinalityType
<1>3. Cardinality(Units(f, S)) = f[x] + Cardinality(Units(f, S \ {x}))
  BY <1>2, UnitsSplit
<1>4. Cardinality(Units(g, S)) = g[x] + Cardinality(Units(f, S \ {x}))
  BY <1>1, <1>2, UnitsSplit
<1>5. f[x] \in Nat /\ g[x] \in Nat
  OBVIOUS
<1>6. Total(f, S) = Cardinality(Units(f, S)) /\ Total(g, S) = Cardinality(Units(g, S))
  BY TotalCounts
<1>7. QED
  BY <1>2, <1>3, <1>4, <1>5, <1>6

\* Equal summands have equal sums.
LEMMA TotalSame ==
    ASSUME NEW S, IsFiniteSet(S), NEW f, \A k \in S : f[k] \in Nat,
           NEW g, \A k \in S : g[k] = f[k]
    PROVE  Total(g, S) = Total(f, S)
<1>1. Units(g, S) = Units(f, S)
  BY DEF Units
<1>2. QED
  BY <1>1, TotalCounts

\* g are the balances f with n more in account x.
Deposits(f, g, S, x, n) ==
    /\ f \in [S -> Nat] /\ g \in [S -> Nat]
    /\ g[x] = f[x] + n
    /\ \A k \in S \ {x} : g[k] = f[k]

\* A deposit adds to the total what it adds to the account.
LEMMA TotalDeposit ==
    ASSUME NEW S, IsFiniteSet(S), NEW f, NEW g, NEW x \in S, NEW n \in Nat, Deposits(f, g, S, x, n)
    PROVE  Total(f, S) \in Nat /\ Total(g, S) = Total(f, S) + n
<1>1. g[x] = f[x] + n /\ (\A k \in S \ {x} : g[k] = f[k]) /\ f[x] \in Nat
  BY DEF Deposits
<1>2. (\A k \in S : f[k] \in Nat) /\ (\A k \in S : g[k] \in Nat)
  BY DEF Deposits
<1>3. Total(g, S) + f[x] = Total(f, S) + g[x]
  BY <1>1, <1>2, TotalUpdate
<1>4. Total(f, S) \in Nat /\ Total(g, S) \in Nat
  BY <1>2, TotalType
<1>5. QED
  BY <1>1, <1>3, <1>4

\* Accounts of a subset that hold the same, while the others hold nothing.
LEMMA TotalEqual ==
    ASSUME NEW S, IsFiniteSet(S), NEW B \in SUBSET S, NEW n \in Nat,
           NEW f, \A k \in S : f[k] = IF k \in B THEN n ELSE 0
    PROVE  Total(f, S) = n * Cardinality(B)
<1>1. \A k \in S : f[k] \in Nat
  OBVIOUS
<1>2. Units(f, S) = B \X (1..n)
  BY <1>1 DEF Units
<1>3. IsFiniteSet(B) /\ Cardinality(B) \in Nat
  BY FS_Subset, FS_CardinalityType
<1>4. IsFiniteSet(1..n) /\ Cardinality(1..n) = n
  BY FS_Interval
<1>5. Cardinality(B \X (1..n)) = Cardinality(B) * Cardinality(1..n)
  BY <1>3, <1>4, FS_Product, Zenon
<1>6. Total(f, S) = Cardinality(Units(f, S))
  BY <1>1, TotalCounts
<1>7. QED
  BY <1>2, <1>3, <1>4, <1>5, <1>6
=============================================================================
