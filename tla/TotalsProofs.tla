----------------------------- MODULE TotalsProofs -----------------------------
(***************************************************************************)
(* The laws of Total, the sum over a finite set that both the capacity     *)
(* ledger's counters and the transaction store's accounting are stated in. *)
(* Total is a recursive function; induction over sets of naturals (a set   *)
(* that contains 0 and successors is Nat) shows that its definition has a  *)
(* solution and gives the laws.                                            *)
(***************************************************************************)
EXTENDS Totals, FiniteSetTheorems, TLAPS

\* Every set of naturals has a least element.
LEMMA LeastElement ==
  ASSUME NEW T, T \subseteq Nat, T # {}
  PROVE  \E m \in T : \A n \in T : m <= n
<1> DEFINE R == OpToRel(<, Nat)
<1>1. IsWellFoundedOn(R, Nat)
  BY NatLessThanWellFounded
<1>2. \A x, y \in Nat : x < y => <<x, y>> \in R
  BY DEF OpToRel
<1> HIDE DEF R
<1>3. PICK m \in T : \A n \in T : <<n, m>> \notin R
  BY <1>1, WFMin
<1>4. \A n \in T : m \in Nat /\ n \in Nat /\ ~(n < m)
  BY <1>2, <1>3
<1>5. \A n \in T : m <= n
  BY <1>4
<1> QED BY <1>5

\* Induction, for a set in place of a predicate.
LEMMA SetInduction ==
  ASSUME NEW T, T \subseteq Nat, 0 \in T, \A n \in T : n + 1 \in T
  PROVE  T = Nat
<1> SUFFICES ASSUME Nat \ T # {} PROVE FALSE
  OBVIOUS
<1>1. PICK m \in Nat \ T : \A n \in Nat \ T : m <= n
  BY LeastElement
<1>2. m # 0 /\ m - 1 \in Nat /\ m - 1 \in T
  BY <1>1
<1> QED BY <1>1, <1>2

\* The element a sum takes first, and the subsets with at most n elements.
Pick(s) == CHOOSE x \in s : TRUE
Part(S, n) == {U \in SUBSET S : Cardinality(U) <= n}
\* g sums f over the subsets of S in D, one element after the other.
IsSum(f, D, g) == g = [s \in D |-> IF s = {} THEN 0 ELSE f[Pick(s)] + g[s \ {Pick(s)}]]

\* f has integer values on S; f on S and e on its subset U agree there.
IntsOn(f, S) == \A x \in S : f[x] \in Int
Sums(f, S, g) == IsSum(f, SUBSET S, g)
ChangedAt(f, e, S, x) == x \in S /\ e[x] \in Int /\ \A y \in S \ {x} : e[y] = f[y]
AgreeOn(f, S, e, U) == U \subseteq S /\ \A x \in U : f[x] = e[x]

\* The element a sum starts with is one of its set.
LEMMA PickIn == ASSUME NEW s, s # {} PROVE Pick(s) \in s
BY DEF Pick

\* Cardinalities of the subsets of a finite set.
LEMMA SubsetFacts ==
  ASSUME NEW S, IsFiniteSet(S), NEW s \in SUBSET S
  PROVE  /\ IsFiniteSet(s) /\ Cardinality(s) \in Nat
         /\ Cardinality(s) = 0 <=> s = {}
         /\ \A x \in s : Cardinality(s \ {x}) = Cardinality(s) - 1
<1>1. IsFiniteSet(s)
  BY FS_Subset
<1> QED BY <1>1, FS_CardinalityType, FS_EmptySet, FS_RemoveElement

\* The recursive definition of a sum has a solution over the subsets of a finite set.
LEMMA SumExists ==
  ASSUME NEW S, IsFiniteSet(S), NEW f
  PROVE  \E g : IsSum(f, SUBSET S, g)
<1> DEFINE T == {n \in Nat : \E g : IsSum(f, Part(S, n), g)}
<1>1. 0 \in T
  <2>1. Part(S, 0) = {{}}
    BY SubsetFacts DEF Part
  <2>2. IsSum(f, Part(S, 0), [s \in Part(S, 0) |-> 0])
    BY <2>1 DEF IsSum
  <2> QED BY <2>2
<1>2. ASSUME NEW n \in T PROVE n + 1 \in T
  <2>1. PICK g : IsSum(f, Part(S, n), g)
    OBVIOUS
  <2> DEFINE h == [s \in Part(S, n + 1) |-> IF s = {} THEN 0 ELSE f[Pick(s)] + g[s \ {Pick(s)}]]
  <2>2. ASSUME NEW s \in Part(S, n + 1), s # {}
        PROVE  h[s \ {Pick(s)}] = g[s \ {Pick(s)}]
    <3> DEFINE u == s \ {Pick(s)}
    <3>1. u \in SUBSET S /\ Cardinality(u) <= n /\ Cardinality(u) <= n + 1
      BY <2>2, PickIn, SubsetFacts DEF Part
    <3>2. u \in Part(S, n) /\ u \in Part(S, n + 1)
      BY <3>1 DEF Part
    <3>3. g[u] = IF u = {} THEN 0 ELSE f[Pick(u)] + g[u \ {Pick(u)}]
      BY <2>1, <3>2 DEF IsSum
    <3>4. h[u] = IF u = {} THEN 0 ELSE f[Pick(u)] + g[u \ {Pick(u)}]
      BY <3>2
    <3> QED BY <3>3, <3>4
  <2>3. h = [s \in Part(S, n + 1) |-> IF s = {} THEN 0 ELSE f[Pick(s)] + h[s \ {Pick(s)}]]
    BY <2>2
  <2>4. IsSum(f, Part(S, n + 1), h)
    BY <2>3 DEF IsSum
  <2> HIDE DEF h
  <2> QED BY <2>4
<1>3. T = Nat
  <2> HIDE DEF T
  <2>1. T \subseteq Nat
    BY DEF T
  <2> QED BY <1>1, <1>2, <2>1, SetInduction
<1>4. PICK n \in Nat : n = Cardinality(S)
  BY FS_CardinalityType
<1>5. Part(S, n) = SUBSET S
  BY <1>4, FS_Subset DEF Part
<1> QED BY <1>3, <1>5

\* Total is that solution.
LEMMA TotalIsSum ==
  ASSUME NEW S, IsFiniteSet(S), NEW f
  PROVE  \E g : IsSum(f, SUBSET S, g) /\ Total(f, S) = g[S]
<1> DEFINE G == CHOOSE g : IsSum(f, SUBSET S, g)
<1>1. IsSum(f, SUBSET S, G)
  BY SumExists
<1>2. Total(f, S) = G[S]
  BY DEF Total, MapThenSumSet, MapThenFoldSet, IsSum, Pick
<1> QED BY <1>1, <1>2

\* Sums of integers: their type, and any element may be taken first.
LEMMA SumAnyOrder ==
  ASSUME NEW S, IsFiniteSet(S), NEW f, IntsOn(f, S),
         NEW g, IsSum(f, SUBSET S, g)
  PROVE  \A s \in SUBSET S : g[s] \in Int /\ \A x \in s : g[s] = f[x] + g[s \ {x}]
<1> DEFINE P(s) == g[s] \in Int /\ \A x \in s : g[s] = f[x] + g[s \ {x}]
           T == {n \in Nat : \A s \in Part(S, n) : P(s)}
<1>1. \A s \in SUBSET S : g[s] = IF s = {} THEN 0 ELSE f[Pick(s)] + g[s \ {Pick(s)}]
  BY DEF IsSum
<1>6. P({})
  <2>1. {} \in SUBSET S
    OBVIOUS
  <2>2. g[{}] = 0
    BY <1>1, <2>1
  <2> QED BY <2>2
<1>2. 0 \in T
  <2>1. Part(S, 0) = {{}}
    BY SubsetFacts DEF Part
  <2> HIDE DEF P
  <2> QED BY <1>6, <2>1
<1>3. ASSUME NEW n \in T PROVE n + 1 \in T
  <2> SUFFICES ASSUME NEW s \in Part(S, n + 1) PROVE P(s)
    OBVIOUS
  <2>2. CASE s = {}
    <3> HIDE DEF P
    <3> QED BY <1>6, <2>2
  <2>1. ASSUME s # {} PROVE P(s)
    <3> DEFINE y == Pick(s)
    <3>1. y \in s /\ s \in SUBSET S
      BY <2>1, PickIn DEF Part
    <3>2. \A x \in s : s \ {x} \in Part(S, n)
      BY <3>1, SubsetFacts DEF Part
    <3>3. \A x \in s : P(s \ {x})
      BY <3>2
    <3>4. g[s] = f[y] + g[s \ {y}]
      BY <1>1, <3>1
    <3> HIDE DEF y
    <3>5. ASSUME NEW x \in s, x # y PROVE g[s] = f[x] + g[s \ {x}]
      <4> DEFINE u == (s \ {y}) \ {x}
      <4>1. u = (s \ {x}) \ {y}
        OBVIOUS
      <4>6. x \in s \ {y} /\ y \in s \ {x}
        BY <3>1, <3>5
      <4>2. g[s \ {y}] = f[x] + g[u]
        BY <3>1, <3>3, <4>6
      <4>3. g[s \ {x}] = f[y] + g[u]
        <5>1. g[s \ {x}] = f[y] + g[(s \ {x}) \ {y}]
          BY <3>1, <3>3, <4>6
        <5> QED BY <4>1, <5>1
      <4>4. g[u] \in Int
        <5>1. s \ {y} \in SUBSET S /\ Cardinality(s \ {y}) <= n
          BY <3>1, <3>2 DEF Part
        <5>2. Cardinality(u) = Cardinality(s \ {y}) - 1 /\ Cardinality(s \ {y}) \in Nat
          BY <5>1, <4>6, SubsetFacts
        <5>3. n \in Nat /\ Cardinality(u) <= n
          BY <5>1, <5>2
        <5>4. u \in Part(S, n)
          BY <5>1, <5>3 DEF Part
        <5> QED BY <5>4
      <4>5. f[x] \in Int /\ f[y] \in Int
        BY <3>1 DEF IntsOn
      <4> HIDE DEF u
      <4> QED BY <3>4, <4>2, <4>3, <4>4, <4>5
    <3>6. g[s] \in Int
      BY <3>1, <3>3, <3>4 DEF IntsOn
    <3> QED BY <3>4, <3>5, <3>6
  <2> QED BY <2>2, <2>1
<1>4. T = Nat
  <2> HIDE DEF T
  <2>1. T \subseteq Nat
    BY DEF T
  <2> QED BY <1>2, <1>3, <2>1, SetInduction
<1>5. ASSUME NEW s \in SUBSET S PROVE P(s)
  <2>1. Cardinality(s) \in Nat
    BY SubsetFacts
  <2>2. s \in Part(S, Cardinality(s)) /\ Cardinality(s) \in T
    BY <1>4, <2>1 DEF Part
  <2> QED BY <2>2
<1> QED BY <1>5

\* Two sums over the same elements with the same values agree.
LEMMA SumsAgree ==
  ASSUME NEW S, IsFiniteSet(S), NEW U, NEW f, NEW e, AgreeOn(f, S, e, U),
         NEW g, Sums(f, S, g), NEW h, Sums(e, U, h)
  PROVE  g[U] = h[U]
<1> DEFINE T == {n \in Nat : \A s \in Part(U, n) : g[s] = h[s]}
<1>1. /\ \A s \in SUBSET S : g[s] = IF s = {} THEN 0 ELSE f[Pick(s)] + g[s \ {Pick(s)}]
      /\ \A s \in SUBSET U : h[s] = IF s = {} THEN 0 ELSE e[Pick(s)] + h[s \ {Pick(s)}]
  BY DEF IsSum, Sums
<1>2. U \subseteq S /\ IsFiniteSet(U)
  BY FS_Subset DEF AgreeOn
<1>3. 0 \in T
  <2>1. Part(U, 0) = {{}}
    BY <1>2, SubsetFacts DEF Part
  <2> QED BY <1>1, <2>1
<1>4. ASSUME NEW n \in T PROVE n + 1 \in T
  <2>3. ASSUME NEW s \in Part(U, n + 1), s = {} PROVE g[s] = h[s]
    BY <1>1, <1>2, <2>3
  <2> SUFFICES ASSUME NEW s \in Part(U, n + 1), s # {} PROVE g[s] = h[s]
    BY <2>3
  <2>1. Pick(s) \in s /\ s \in SUBSET U /\ s \in SUBSET S
    BY <1>2, PickIn DEF Part
  <2>2. s \ {Pick(s)} \in Part(U, n)
    BY <1>2, <2>1, SubsetFacts DEF Part
  <2> QED BY <1>1, <2>1, <2>2 DEF AgreeOn
<1>5. T = Nat
  <2> HIDE DEF T
  <2>1. T \subseteq Nat
    BY DEF T
  <2> QED BY <1>3, <1>4, <2>1, SetInduction
<1>6. Cardinality(U) \in Nat /\ U \in Part(U, Cardinality(U))
  BY <1>2, FS_CardinalityType DEF Part
<1> QED BY <1>5, <1>6

-------------------------------------------------------------------------------
(* What the models use. *)

\* The empty total.
LEMMA TotalEmpty ==
  ASSUME NEW f
  PROVE  Total(f, {}) = 0
<1>1. IsFiniteSet({})
  BY FS_EmptySet
<1>2. PICK g : IsSum(f, SUBSET {}, g) /\ Total(f, {}) = g[{}]
  BY <1>1, TotalIsSum
<1> QED BY <1>2 DEF IsSum

\* A total depends on the values over its set only.
LEMMA TotalSame ==
  ASSUME NEW S, IsFiniteSet(S), NEW f, NEW e, \A x \in S : f[x] = e[x]
  PROVE  Total(f, S) = Total(e, S)
<1>1. PICK g : IsSum(f, SUBSET S, g) /\ Total(f, S) = g[S]
  BY TotalIsSum
<1>2. PICK h : IsSum(e, SUBSET S, h) /\ Total(e, S) = h[S]
  BY TotalIsSum
<1>3. g[S] = h[S]
  <2>1. AgreeOn(f, S, e, S) /\ Sums(f, S, g) /\ Sums(e, S, h)
    BY <1>1, <1>2 DEF AgreeOn, Sums
  <2> QED BY <2>1, SumsAgree
<1> QED BY <1>1, <1>2, <1>3

\* One element may be taken out of a total.
LEMMA TotalRemove ==
  ASSUME NEW S, IsFiniteSet(S), NEW f, \A x \in S : f[x] \in Int, NEW x \in S
  PROVE  Total(f, S) = f[x] + Total(f, S \ {x}) /\ Total(f, S) \in Int
<1>1. PICK g : IsSum(f, SUBSET S, g) /\ Total(f, S) = g[S]
  BY TotalIsSum
<1>2. IsFiniteSet(S \ {x})
  BY FS_Subset
<1>3. PICK h : IsSum(f, SUBSET (S \ {x}), h) /\ Total(f, S \ {x}) = h[S \ {x}]
  BY <1>2, TotalIsSum
<1>4. \A s \in SUBSET S : g[s] \in Int /\ \A y \in s : g[s] = f[y] + g[s \ {y}]
  <2>1. IntsOn(f, S)
    BY DEF IntsOn
  <2> QED BY <1>1, <2>1, SumAnyOrder
<1>6. g[S] = f[x] + g[S \ {x}] /\ g[S] \in Int
  BY <1>4
<1>5. g[S \ {x}] = h[S \ {x}]
  <2>1. AgreeOn(f, S, f, S \ {x}) /\ Sums(f, S, g) /\ Sums(f, S \ {x}, h)
    BY <1>1, <1>3 DEF AgreeOn, Sums
  <2> QED BY <2>1, SumsAgree
<1> QED BY <1>1, <1>3, <1>5, <1>6

\* A total of integers is an integer.
LEMMA TotalInt ==
  ASSUME NEW S, IsFiniteSet(S), NEW f, \A x \in S : f[x] \in Int
  PROVE  Total(f, S) \in Int
<1>1. CASE S = {}
  BY <1>1, TotalEmpty
<1>2. CASE S # {}
  BY <1>2, TotalRemove
<1> QED BY <1>1, <1>2

\* One value changes.
LEMMA TotalChange ==
  ASSUME NEW S, IsFiniteSet(S), NEW f, IntsOn(f, S), NEW e, NEW x, ChangedAt(f, e, S, x)
  PROVE  Total(e, S) = Total(f, S) - f[x] + e[x]
<1>1. IsFiniteSet(S \ {x})
  BY FS_Subset
<1>2. x \in S /\ (\A y \in S : f[y] \in Int) /\ (\A y \in S : e[y] \in Int)
  BY DEF IntsOn, ChangedAt
<1>3. Total(f, S) = f[x] + Total(f, S \ {x}) /\ Total(e, S) = e[x] + Total(e, S \ {x})
  BY <1>2, TotalRemove
<1>4. \A y \in S \ {x} : f[y] = e[y]
  BY DEF ChangedAt
<1>5. Total(f, S \ {x}) = Total(e, S \ {x}) /\ Total(f, S \ {x}) \in Int
  BY <1>1, <1>2, <1>4, TotalSame, TotalInt
<1> QED BY <1>2, <1>3, <1>5

\* One element is added.
LEMMA TotalAdd ==
  ASSUME NEW S, IsFiniteSet(S), NEW f, NEW x, x \notin S, \A y \in S \cup {x} : f[y] \in Int
  PROVE  Total(f, S \cup {x}) = f[x] + Total(f, S)
<1>1. IsFiniteSet(S \cup {x}) /\ (S \cup {x}) \ {x} = S
  BY FS_AddElement
<1> QED BY <1>1, TotalRemove

\* Totals of natural numbers: a natural number, at least each of the parts, and
\* zero exactly if all of them are.
LEMMA TotalNat ==
  ASSUME NEW S, IsFiniteSet(S), NEW f, \A x \in S : f[x] \in Nat
  PROVE  Total(f, S) \in Nat
<1> DEFINE T == {n \in Nat : \A s \in Part(S, n) : Total(f, s) \in Nat}
<1>1. 0 \in T
  <2>1. Part(S, 0) = {{}}
    BY SubsetFacts DEF Part
  <2> QED BY <2>1, TotalEmpty
<1>2. ASSUME NEW n \in T PROVE n + 1 \in T
  <2>4. ASSUME NEW s \in Part(S, n + 1), s = {} PROVE Total(f, s) \in Nat
    BY <2>4, TotalEmpty
  <2> SUFFICES ASSUME NEW s \in Part(S, n + 1), s # {} PROVE Total(f, s) \in Nat
    BY <2>4
  <2>1. PICK x \in s : TRUE
    OBVIOUS
  <2>2. s \in SUBSET S /\ IsFiniteSet(s) /\ s \ {x} \in Part(S, n)
    BY SubsetFacts DEF Part
  <2>3. Total(f, s) = f[x] + Total(f, s \ {x})
    BY <2>2, TotalRemove
  <2> QED BY <2>2, <2>3
<1>3. T = Nat
  <2> HIDE DEF T
  <2>1. T \subseteq Nat
    BY DEF T
  <2> QED BY <1>1, <1>2, <2>1, SetInduction
<1>4. Cardinality(S) \in Nat /\ S \in Part(S, Cardinality(S))
  BY FS_CardinalityType DEF Part
<1> QED BY <1>3, <1>4

\* A total of naturals is at least each of them.
LEMMA TotalBounds ==
  ASSUME NEW S, IsFiniteSet(S), NEW f, \A x \in S : f[x] \in Nat, NEW x \in S
  PROVE  f[x] <= Total(f, S)
<1>1. IsFiniteSet(S \ {x})
  BY FS_Subset
<1>2. Total(f, S) = f[x] + Total(f, S \ {x}) /\ Total(f, S \ {x}) \in Nat
  BY <1>1, TotalRemove, TotalNat
<1> QED BY <1>2

\* A total is that of a part and that of the rest.
LEMMA TotalSplit ==
  ASSUME NEW S, IsFiniteSet(S), NEW f, \A x \in S : f[x] \in Int, NEW U \in SUBSET S
  PROVE  Total(f, S) = Total(f, U) + Total(f, S \ U)
<1> DEFINE T == {n \in Nat : \A s \in Part(S, n) : Total(f, S) = Total(f, s) + Total(f, S \ s)}
<1>1. Total(f, S) \in Int
  BY TotalInt
<1>2. Total(f, S) = Total(f, {}) + Total(f, S \ {})
  <2>1. S \ {} = S /\ Total(f, {}) = 0
    BY TotalEmpty
  <2> QED BY <1>1, <2>1
<1>3. 0 \in T
  <2>1. Part(S, 0) = {{}}
    BY SubsetFacts DEF Part
  <2> QED BY <1>2, <2>1
<1>4. ASSUME NEW n \in T PROVE n + 1 \in T
  <2>1. ASSUME NEW s \in Part(S, n + 1), s # {}
        PROVE  Total(f, S) = Total(f, s) + Total(f, S \ s)
    <3>1. PICK x \in s : TRUE
      BY <2>1
    <3> DEFINE u == s \ {x}
    <3>2. s \in SUBSET S /\ IsFiniteSet(s) /\ u \in Part(S, n) /\ x \in S
      BY SubsetFacts DEF Part
    <3>3. Total(f, S) = Total(f, u) + Total(f, S \ u)
      BY <3>2
    <3>4. IsFiniteSet(u) /\ IsFiniteSet(S \ u) /\ IsFiniteSet(S \ s)
      BY <3>2, FS_Subset
    <3>5. x \in S \ u /\ (S \ u) \ {x} = S \ s
      BY <3>2
    <3>6. \A y \in s : f[y] \in Int
      BY <3>2
    <3>7. Total(f, s) = f[x] + Total(f, u)
      BY <3>2, <3>6, TotalRemove
    <3>8. Total(f, S \ u) = f[x] + Total(f, S \ s)
      <4>1. \A y \in S \ u : f[y] \in Int
        OBVIOUS
      <4>2. Total(f, S \ u) = f[x] + Total(f, (S \ u) \ {x})
        <5> HIDE DEF u
        <5> QED BY <4>1, <3>4, <3>5, TotalRemove
      <4> QED BY <3>5, <4>2
    <3>9. Total(f, u) \in Int
      <4>1. \A y \in u : f[y] \in Int
        BY <3>6
      <4> HIDE DEF u
      <4> QED BY <3>4, <4>1, TotalInt
    <3>10. Total(f, S \ s) \in Int /\ f[x] \in Int
      <4>1. \A y \in S \ s : f[y] \in Int
        OBVIOUS
      <4> QED BY <3>4, <4>1, <3>2, TotalInt
    <3> HIDE DEF u
    <3> QED BY <3>3, <3>7, <3>8, <3>9, <3>10
  <2>2. ASSUME NEW s \in Part(S, n + 1), s = {}
        PROVE  Total(f, S) = Total(f, s) + Total(f, S \ s)
    BY <1>2, <2>2
  <2>3. \A s \in Part(S, n + 1) : Total(f, S) = Total(f, s) + Total(f, S \ s)
    BY <2>1, <2>2
  <2> QED BY <2>3
<1>5. T = Nat
  <2> HIDE DEF T
  <2>1. T \subseteq Nat
    BY DEF T
  <2> QED BY <1>3, <1>4, <2>1, SetInduction
<1>6. Cardinality(U) \in Nat /\ U \in Part(S, Cardinality(U))
  BY SubsetFacts DEF Part
<1> QED BY <1>5, <1>6

\* A total of zeros is zero.
LEMMA TotalZero ==
  ASSUME NEW S, IsFiniteSet(S), NEW f, \A x \in S : f[x] = 0
  PROVE  Total(f, S) = 0
<1> DEFINE T == {n \in Nat : \A s \in Part(S, n) : Total(f, s) = 0}
<1>1. 0 \in T
  <2>1. Part(S, 0) = {{}}
    BY SubsetFacts DEF Part
  <2> QED BY <2>1, TotalEmpty
<1>2. ASSUME NEW n \in T PROVE n + 1 \in T
  <2>4. ASSUME NEW s \in Part(S, n + 1), s = {} PROVE Total(f, s) = 0
    BY <2>4, TotalEmpty
  <2> SUFFICES ASSUME NEW s \in Part(S, n + 1), s # {} PROVE Total(f, s) = 0
    BY <2>4
  <2>1. PICK x \in s : TRUE
    OBVIOUS
  <2>2. s \in SUBSET S /\ IsFiniteSet(s) /\ s \ {x} \in Part(S, n)
    BY SubsetFacts DEF Part
  <2>3. Total(f, s) = f[x] + Total(f, s \ {x})
    BY <2>2, TotalRemove
  <2> QED BY <2>2, <2>3
<1>3. T = Nat
  <2> HIDE DEF T
  <2>1. T \subseteq Nat
    BY DEF T
  <2> QED BY <1>1, <1>2, <2>1, SetInduction
<1>4. Cardinality(S) \in Nat /\ S \in Part(S, Cardinality(S))
  BY FS_CardinalityType DEF Part
<1> QED BY <1>3, <1>4
===============================================================================
