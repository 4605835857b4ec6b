----------------------------- MODULE SumLemmas -----------------------------
(***************************************************************************)
(* What SumFunctionOnSet of the community modules computes, for every       *)
(* finite set.  The library's induction theorems take an operator as a      *)
(* parameter, so the arguments look at a least counterexample instead.      *)
(***************************************************************************)
EXTENDS Functions, FiniteSets, FiniteSetTheorems, TLAPS

\* A non-empty set of natural numbers has a least element.
LEMMA LeastNatural ==
    ASSUME NEW N \in SUBSET Nat, N # {}
    PROVE  \E n \in N : \A m \in N : n <= m
<1>1. PICK n \in N : \A m \in N : ~ (<<m, n>> \in OpToRel(<, Nat))
  BY NatLessThanWellFounded, WFMin, Zenon
<1>2. \A m \in N : m \in Nat /\ n \in Nat /\ ~ (m < n)
  BY <1>1 DEF OpToRel
<1>3. \A m \in N : n <= m
  BY <1>2
<1> QED
  BY <1>3

\* The numbers a sum may range over: the naturals or the integers.
Numbers(D) == D \in {Nat, Int}

\* The element a sum takes out of a set first, and the sum of a set in terms
\* of the sums of smaller sets.
Pick(s) == CHOOSE x \in s : TRUE
SumStep(g, f, s) == IF s = {} THEN 0 ELSE f[Pick(s)] + g[s \ {Pick(s)}]
IsSum(g, f, S) == g = [s \in SUBSET S |-> SumStep(g, f, s)]

\* The element taken out of a non-empty set is one of its elements.
LEMMA PickElement ==
    ASSUME NEW s, s # {} PROVE Pick(s) \in s
BY Zenon DEF Pick

\* The subsets of S with at most n elements.
Small(S, n) == {s \in SUBSET S : Cardinality(s) <= n}

\* Sums of sets of at most n elements exist, for every n.
PartialSum(g, f, S, n, D) ==
    /\ g \in [Small(S, n) -> D]
    /\ \A s \in Small(S, n) : g[s] = SumStep(g, f, s)

\* Sums of at most n elements extend to sums of at most n + 1.
LEMMA PartialSumStep ==
    ASSUME NEW S, IsFiniteSet(S), NEW f, NEW D, Numbers(D), \A x \in S : f[x] \in D, NEW n \in Nat,
           NEW g, PartialSum(g, f, S, n, D)
    PROVE  \E h : PartialSum(h, f, S, n + 1, D)
<1> DEFINE h == [s \in Small(S, n + 1) |->
                   IF s \in Small(S, n) THEN g[s]
                   ELSE f[Pick(s)] + g[s \ {Pick(s)}]]
<1>1. \A s \in SUBSET S : Cardinality(s) \in Nat /\ IsFiniteSet(s)
  BY FS_Subset, FS_CardinalityType
<1>2. Small(S, n) \subseteq Small(S, n + 1)
  BY <1>1 DEF Small
<1>3. ASSUME NEW s \in Small(S, n + 1), s # {}
      PROVE  /\ s \ {Pick(s)} \in Small(S, n)
             /\ f[Pick(s)] \in D
  <2>1. s \in SUBSET S /\ Pick(s) \in s /\ Cardinality(s) <= n + 1
    BY <1>3, PickElement DEF Small
  <2>2. Cardinality(s \ {Pick(s)}) = Cardinality(s) - 1
    BY <1>1, <2>1, FS_RemoveElement
  <2> QED
    BY <1>1, <2>1, <2>2 DEF Small
<1>4. {} \in Small(S, n)
  BY FS_EmptySet DEF Small
<1>5. g \in [Small(S, n) -> D]
  BY DEF PartialSum
<1>6. h \in [Small(S, n + 1) -> D]
  <2>1. ASSUME NEW s \in Small(S, n + 1) PROVE h[s] \in D
    <3>1. CASE s \in Small(S, n)
      BY <1>5, <3>1
    <3>2. CASE s \notin Small(S, n)
      <4>1. s # {}
        BY <1>4, <3>2
      <4>2. g[s \ {Pick(s)}] \in D /\ f[Pick(s)] \in D
        BY <1>3, <1>5, <4>1
      <4> QED
        BY <3>2, <4>2 DEF Numbers
    <3> QED
      BY <3>1, <3>2
  <2> QED
    BY <2>1
<1>7. ASSUME NEW s \in Small(S, n + 1) PROVE h[s] = SumStep(h, f, s)
  <2>1. CASE s = {}
    BY <1>2, <1>4, <2>1 DEF PartialSum, SumStep
  <2>2. CASE s # {}
    <3>1. h[s \ {Pick(s)}] = g[s \ {Pick(s)}]
      BY <1>2, <1>3, <2>2
    <3>2. CASE s \in Small(S, n)
      BY <1>2, <2>2, <3>1, <3>2 DEF PartialSum, SumStep
    <3>3. CASE s \notin Small(S, n)
      BY <2>2, <3>1, <3>3 DEF SumStep
    <3> QED
      BY <3>2, <3>3
  <2> QED
    BY <2>1, <2>2
<1> HIDE DEF h
<1> QED
  BY <1>6, <1>7 DEF PartialSum

\* Sums of at most n elements exist for every n: a least counterexample
\* would follow from its predecessor by the lemma before.
LEMMA PartialSumExists ==
    ASSUME NEW S, IsFiniteSet(S), NEW f, NEW D, Numbers(D), \A x \in S : f[x] \in D, NEW n \in Nat
    PROVE  \E g : PartialSum(g, f, S, n, D)
<1> DEFINE N == {m \in Nat : ~ \E g : PartialSum(g, f, S, m, D)}
<1> SUFFICES ASSUME N # {} PROVE FALSE
  OBVIOUS
<1>1. PICK m \in N : \A k \in N : m <= k
  BY LeastNatural
<1>2. CASE m = 0
  <2>1. Small(S, 0) = {{}}
    <3>1. \A s \in SUBSET S : Cardinality(s) \in Nat /\ (Cardinality(s) = 0 <=> s = {})
      BY FS_Subset, FS_CardinalityType, FS_EmptySet
    <3> QED
      BY <3>1 DEF Small
  <2>2. PartialSum([s \in {{}} |-> 0], f, S, 0, D)
    BY <2>1 DEF PartialSum, SumStep, Numbers
  <2> QED
    BY <1>1, <1>2, <2>2
<1>3. CASE m # 0
  <2>1. m - 1 \in Nat /\ m - 1 \notin N
    BY <1>1, <1>3
  <2>2. PICK g : PartialSum(g, f, S, m - 1, D)
    BY <2>1
  <2>3. \E h : PartialSum(h, f, S, (m - 1) + 1, D)
    BY <2>1, <2>2, PartialSumStep
  <2> QED
    BY <1>1, <2>1, <2>3
<1> QED
  BY <1>2, <1>3

\* A sum of the subsets of a finite set exists.
LEMMA SumExists ==
    ASSUME NEW S, IsFiniteSet(S), NEW f, NEW D, Numbers(D), \A x \in S : f[x] \in D
    PROVE  \E g \in [SUBSET S -> D] : IsSum(g, f, S)
<1>1. Cardinality(S) \in Nat
  BY FS_CardinalityType
<1>2. Small(S, Cardinality(S)) = SUBSET S
  BY FS_Subset DEF Small
<1>3. PICK g : PartialSum(g, f, S, Cardinality(S), D)
  BY <1>1, PartialSumExists
<1>4. g \in [SUBSET S -> D] /\ \A s \in SUBSET S : g[s] = SumStep(g, f, s)
  BY <1>2, <1>3 DEF PartialSum
<1>5. IsSum(g, f, S)
  BY <1>4 DEF IsSum
<1> QED
  BY <1>4, <1>5

\* Two sums agree on the sets both are defined for.
LEMMA SumUnique ==
    ASSUME NEW S, IsFiniteSet(S), NEW T \in SUBSET S, NEW f,
           NEW g, IsSum(g, f, S), NEW h, IsSum(h, f, T)
    PROVE  g[T] = h[T]
<1> DEFINE Bad == {Cardinality(s) : s \in {t \in SUBSET T : g[t] # h[t]}}
<1>1. \A s \in SUBSET T : /\ Cardinality(s) \in Nat /\ IsFiniteSet(s)
                           /\ g[s] = SumStep(g, f, s) /\ h[s] = SumStep(h, f, s)
  <2>1. \A s \in SUBSET T : Cardinality(s) \in Nat /\ IsFiniteSet(s)
    BY FS_Subset, FS_CardinalityType
  <2>2. \A s \in SUBSET T : g[s] = SumStep(g, f, s)
    BY DEF IsSum
  <2>3. \A s \in SUBSET T : h[s] = SumStep(h, f, s)
    BY DEF IsSum
  <2> QED
    BY <2>1, <2>2, <2>3
<1>2. SUFFICES ASSUME Bad # {} PROVE FALSE
  OBVIOUS
<1>3. PICK n \in Bad : \A m \in Bad : n <= m
  <2>1. Bad \in SUBSET Nat
    BY <1>1
  <2> QED
    BY <1>2, <2>1, LeastNatural
<1>4. PICK t \in SUBSET T : g[t] # h[t] /\ Cardinality(t) = n
  BY <1>3
<1>5. t # {} /\ g[t \ {Pick(t)}] # h[t \ {Pick(t)}]
  BY <1>1, <1>4 DEF SumStep
<1>6. t \ {Pick(t)} \in SUBSET T /\ Cardinality(t \ {Pick(t)}) = n - 1
  BY <1>1, <1>4, <1>5, PickElement, FS_RemoveElement
<1>7. n - 1 \in Bad
  BY <1>5, <1>6
<1>8. n \in Nat /\ n <= n - 1
  BY <1>1, <1>3, <1>4, <1>7
<1> QED
  BY <1>8

\* The value of SumFunctionOnSet is the one of any such sum.
LEMMA SumValue ==
    ASSUME NEW S, IsFiniteSet(S), NEW f, NEW g, IsSum(g, f, S)
    PROVE  SumFunctionOnSet(f, S) = g[S]
<1> DEFINE iter == CHOOSE h : IsSum(h, f, S)
<1>1. IsSum(iter, f, S)
  BY Zenon
<1>2. SumFunctionOnSet(f, S) = iter[S]
  BY Zenon DEF SumFunctionOnSet, FoldFunctionOnSet, MapThenFoldSet, IsSum, SumStep, Pick
<1> HIDE DEF iter
<1> QED
  BY <1>1, <1>2, SumUnique

\* The sums of the subsets of a finite set of numbers.
SumIn(g, f, S, D) ==
    /\ IsFiniteSet(S)
    /\ \A x \in S : f[x] \in D
    /\ g \in [SUBSET S -> D]
    /\ IsSum(g, f, S)

Without(t, y) == t \ {y}

\* Whichever element is taken out first, the sum is the same.
LEMMA SumAnyElement ==
    ASSUME NEW S, NEW f, NEW g, NEW D, Numbers(D), SumIn(g, f, S, D)
    PROVE  \A t \in SUBSET S : \A y \in t : g[t] = f[y] + g[Without(t, y)]
<1> USE DEF Without
<1>0. /\ IsFiniteSet(S) /\ IsSum(g, f, S)
      /\ g \in [SUBSET S -> D] /\ \A x \in S : f[x] \in D
  BY DEF SumIn
<1> DEFINE Fine(s) == \A x \in s : g[s] = f[x] + g[s \ {x}]
           Bad == {Cardinality(s) : s \in {u \in SUBSET S : ~ Fine(u)}}
<1>1. \A s \in SUBSET S : /\ Cardinality(s) \in Nat /\ IsFiniteSet(s)
                           /\ g[s] = SumStep(g, f, s)
  BY <1>0, FS_Subset, FS_CardinalityType DEF IsSum
<1>2. SUFFICES ASSUME Bad # {} PROVE FALSE
  OBVIOUS
<1>3. PICK n \in Bad : \A m \in Bad : n <= m
  <2>1. Bad \in SUBSET Nat
    BY <1>1
  <2> QED
    BY <1>2, <2>1, LeastNatural
<1>4. PICK u \in SUBSET S : ~ Fine(u) /\ Cardinality(u) = n
  BY <1>3
<1>5. PICK x \in u : g[u] # f[x] + g[u \ {x}]
  BY <1>4
<1> DEFINE p == Pick(u)
<1>6. p \in u /\ g[u] = f[p] + g[u \ {p}]
  BY <1>1, <1>5, PickElement DEF SumStep
<1>7. ASSUME NEW z \in u PROVE Fine(u \ {z})
  <2>1. u \ {z} \in SUBSET S /\ Cardinality(u \ {z}) = n - 1
    BY <1>1, <1>4, FS_RemoveElement
  <2>2. n \in Nat /\ ~ (n <= n - 1)
    BY <1>1, <1>4
  <2>3. n - 1 \notin Bad
    BY <1>3, <2>2
  <2>4. Fine(u \ {z}) \/ Cardinality(u \ {z}) \in Bad
    BY <2>1
  <2> QED
    BY <2>1, <2>3, <2>4
<1>8. p # x
  BY <1>5, <1>6
<1> DEFINE rest == g[(u \ {x}) \ {p}]
<1>9. g[u \ {p}] = f[x] + rest /\ g[u \ {x}] = f[p] + rest
  <2>1. x \in u \ {p} /\ p \in u \ {x}
    BY <1>5, <1>6, <1>8
  <2>2. Fine(u \ {p}) /\ Fine(u \ {x})
    BY <1>5, <1>6, <1>7
  <2>3. (u \ {p}) \ {x} = (u \ {x}) \ {p}
    OBVIOUS
  <2> QED
    BY <2>1, <2>2, <2>3
<1>10. f[x] \in Int /\ f[p] \in Int /\ rest \in Int
  BY <1>0, <1>5, <1>6 DEF Numbers
<1> HIDE DEF p, rest
<1> QED
  BY <1>5, <1>6, <1>9, <1>10

\* The sum over the empty set.
LEMMA SumEmpty == ASSUME NEW f PROVE SumFunctionOnSet(f, {}) = 0
<1>1. IsFiniteSet({})
  BY FS_EmptySet
<1>2. PICK g \in [SUBSET {} -> Nat] : IsSum(g, f, {})
  <2>1. Numbers(Nat)
    BY DEF Numbers
  <2> QED
    BY <1>1, <2>1, SumExists
<1>3. g[{}] = 0
  BY <1>2 DEF IsSum, SumStep
<1> QED
  BY <1>1, <1>2, <1>3, SumValue

\* A sum of numbers is one, and an element adds its own value to it.
LEMMA SumRemoveIn ==
    ASSUME NEW S, IsFiniteSet(S), NEW f, NEW D, Numbers(D), \A x \in S : f[x] \in D
    PROVE  /\ SumFunctionOnSet(f, S) \in D
           /\ \A x \in S :
                 SumFunctionOnSet(f, S) = f[x] + SumFunctionOnSet(f, S \ {x})
<1>1. PICK g \in [SUBSET S -> D] : IsSum(g, f, S)
  BY SumExists
<1>2. SumFunctionOnSet(f, S) = g[S]
  BY <1>1, SumValue
<1>3. ASSUME NEW x \in S
      PROVE  SumFunctionOnSet(f, S \ {x}) = g[S \ {x}]
  <2>1. IsFiniteSet(S \ {x}) /\ \A y \in S \ {x} : f[y] \in D
    BY FS_RemoveElement
  <2>2. PICK h : IsSum(h, f, S \ {x})
    BY <2>1, SumExists
  <2>3. SumFunctionOnSet(f, S \ {x}) = h[S \ {x}]
    BY <2>1, <2>2, SumValue
  <2>4. S \ {x} \in SUBSET S
    OBVIOUS
  <2>5. g[S \ {x}] = h[S \ {x}]
    BY <1>1, <2>2, <2>4, SumUnique
  <2> QED
    BY <2>3, <2>5
<1>4. \A t \in SUBSET S : \A y \in t : g[t] = f[y] + g[Without(t, y)]
  <2>1. SumIn(g, f, S, D)
    BY <1>1 DEF SumIn
  <2> QED
    BY <2>1, SumAnyElement
<1>5. \A x \in S : g[S] = f[x] + g[S \ {x}]
  <2>1. S \in SUBSET S
    OBVIOUS
  <2> QED
    BY <1>4, <2>1 DEF Without
<1> QED
  BY <1>1, <1>2, <1>3, <1>5

\* The two cases of the lemma before.
LEMMA SumRemove ==
    ASSUME NEW S, IsFiniteSet(S), NEW f, \A x \in S : f[x] \in Nat
    PROVE  /\ SumFunctionOnSet(f, S) \in Nat
           /\ \A x \in S :
                 SumFunctionOnSet(f, S) = f[x] + SumFunctionOnSet(f, S \ {x})
<1>1. Numbers(Nat)
  BY DEF Numbers
<1> QED
  BY <1>1, SumRemoveIn

LEMMA IntSumRemove ==
    ASSUME NEW S, IsFiniteSet(S), NEW f, \A x \in S : f[x] \in Int
    PROVE  /\ SumFunctionOnSet(f, S) \in Int
           /\ \A x \in S :
                 SumFunctionOnSet(f, S) = f[x] + SumFunctionOnSet(f, S \ {x})
<1>1. Numbers(Int)
  BY DEF Numbers
<1> QED
  BY <1>1, SumRemoveIn

\* Only the values on the set matter.
LEMMA SumSame ==
    ASSUME NEW S, IsFiniteSet(S), NEW f, NEW h,
           \A x \in S : f[x] \in Int /\ h[x] = f[x]
    PROVE  SumFunctionOnSet(h, S) = SumFunctionOnSet(f, S)
<1>1. PICK g \in [SUBSET S -> Int] : IsSum(g, f, S)
  <2>1. Numbers(Int)
    BY DEF Numbers
  <2> QED
    BY <2>1, SumExists
<1>2. \A s \in SUBSET S : g[s] = SumStep(g, f, s)
  BY <1>1 DEF IsSum
<1>3. \A s \in SUBSET S : g[s] = SumStep(g, h, s)
  BY <1>2, PickElement DEF SumStep
<1>4. IsSum(g, h, S)
  BY <1>1, <1>3 DEF IsSum
<1> QED
  BY <1>1, <1>4, SumValue

\* A part of a sum of natural numbers is at most the whole.
LEMMA SumElements ==
    ASSUME NEW S, IsFiniteSet(S), NEW f, \A x \in S : f[x] \in Nat,
           NEW x \in S, NEW y \in S, x # y
    PROVE  f[x] + f[y] <= SumFunctionOnSet(f, S)
<1>1. IsFiniteSet(S \ {x}) /\ y \in S \ {x} /\ \A z \in S \ {x} : f[z] \in Nat
  BY FS_RemoveElement
<1>2. IsFiniteSet((S \ {x}) \ {y}) /\ \A z \in (S \ {x}) \ {y} : f[z] \in Nat
  BY <1>1, FS_RemoveElement
<1>3. /\ SumFunctionOnSet(f, S) = f[x] + SumFunctionOnSet(f, S \ {x})
      /\ SumFunctionOnSet(f, S \ {x}) = f[y] + SumFunctionOnSet(f, (S \ {x}) \ {y})
      /\ SumFunctionOnSet(f, (S \ {x}) \ {y}) \in Nat
  BY <1>1, <1>2, SumRemove
<1> QED
  BY <1>3

\* Induction over the subsets of a finite set: G holds the good ones.
LEMMA SubsetInduction ==
    ASSUME NEW S, IsFiniteSet(S), NEW G, {} \in G,
           \A s \in SUBSET S : \A x \in s : s \ {x} \in G => s \in G
    PROVE  S \in G
<1> DEFINE N == {n \in Nat : \E s \in SUBSET S : Cardinality(s) = n /\ s \notin G}
<1> SUFFICES ASSUME S \notin G PROVE FALSE
  OBVIOUS
<1>1. Cardinality(S) \in N
  BY FS_CardinalityType
<1>2. PICK n \in N : \A m \in N : n <= m
  BY <1>1, LeastNatural
<1>3. PICK s \in SUBSET S : Cardinality(s) = n /\ s \notin G
  BY <1>2
<1>4. IsFiniteSet(s) /\ s # {}
  BY <1>3, FS_Subset
<1>5. PICK x \in s : TRUE
  BY <1>4
<1>6. s \ {x} \in SUBSET S /\ Cardinality(s \ {x}) = n - 1 /\ n \in Nat
  BY <1>3, <1>4, <1>5, FS_RemoveElement
<1>7. n - 1 \in Nat
  <2>1. IsFiniteSet(s \ {x})
    BY <1>4, FS_RemoveElement
  <2>2. Cardinality(s \ {x}) \in Nat
    BY <2>1, FS_CardinalityType
  <2> QED
    BY <1>6, <2>2
<1>8. s \ {x} \notin G
  BY <1>3, <1>5
<1>9. n - 1 \in N
  BY <1>6, <1>7, <1>8
<1> QED
  BY <1>2, <1>6, <1>9

\* The sum of the pointwise sums.
LEMMA SumPlus ==
    ASSUME NEW S, IsFiniteSet(S), NEW f, NEW g, NEW h,
           \A x \in S : f[x] \in Int /\ g[x] \in Int /\ h[x] = f[x] + g[x]
    PROVE  SumFunctionOnSet(h, S) = SumFunctionOnSet(f, S) + SumFunctionOnSet(g, S)
<1> DEFINE G == {s \in SUBSET S :
                   SumFunctionOnSet(h, s) = SumFunctionOnSet(f, s) + SumFunctionOnSet(g, s)}
<1>1. {} \in G
  BY SumEmpty
<1>2. ASSUME NEW s \in SUBSET S, NEW x \in s, s \ {x} \in G PROVE s \in G
  <2>1. IsFiniteSet(s) /\ IsFiniteSet(s \ {x})
    BY FS_Subset
  <2>2. /\ SumFunctionOnSet(f, s) = f[x] + SumFunctionOnSet(f, s \ {x})
        /\ SumFunctionOnSet(f, s \ {x}) \in Int
    BY <2>1, IntSumRemove
  <2>3. /\ SumFunctionOnSet(g, s) = g[x] + SumFunctionOnSet(g, s \ {x})
        /\ SumFunctionOnSet(g, s \ {x}) \in Int
    BY <2>1, IntSumRemove
  <2>4. SumFunctionOnSet(h, s) = h[x] + SumFunctionOnSet(h, s \ {x})
    BY <2>1, IntSumRemove
  <2> QED
    BY <1>2, <2>2, <2>3, <2>4
<1> HIDE DEF G
<1>3. S \in G
  BY <1>1, <1>2, SubsetInduction
<1> QED
  BY <1>3 DEF G

\* The sum of the multiples.
LEMMA SumScaled ==
    ASSUME NEW S, IsFiniteSet(S), NEW k \in Int, NEW f, NEW h,
           \A x \in S : f[x] \in Int /\ h[x] = k * f[x]
    PROVE  SumFunctionOnSet(h, S) = k * SumFunctionOnSet(f, S)
<1> DEFINE G == {s \in SUBSET S : SumFunctionOnSet(h, s) = k * SumFunctionOnSet(f, s)}
<1>1. {} \in G
  BY SumEmpty
<1>2. ASSUME NEW s \in SUBSET S, NEW x \in s, s \ {x} \in G PROVE s \in G
  <2>1. IsFiniteSet(s) /\ IsFiniteSet(s \ {x})
    BY FS_Subset
  <2>2. /\ SumFunctionOnSet(f, s) = f[x] + SumFunctionOnSet(f, s \ {x})
        /\ SumFunctionOnSet(f, s \ {x}) \in Int
    BY <2>1, IntSumRemove
  <2>3. \A y \in S : h[y] \in Int
    OBVIOUS
  <2>4. SumFunctionOnSet(h, s) = h[x] + SumFunctionOnSet(h, s \ {x})
    BY <2>1, <2>3, IntSumRemove
  <2>5. \A a, b \in Int : k * (a + b) = k * a + k * b
    OBVIOUS
  <2> QED
    BY <1>2, <2>2, <2>4, <2>5
<1> HIDE DEF G
<1>3. S \in G
  BY <1>1, <1>2, SubsetInduction
<1> QED
  BY <1>3 DEF G

\* A sum of values of at most b is at most b for every element.
LEMMA SumAtMost ==
    ASSUME NEW S, IsFiniteSet(S), NEW b \in Nat, NEW f,
           \A x \in S : f[x] \in Nat /\ f[x] <= b
    PROVE  SumFunctionOnSet(f, S) <= b * Cardinality(S)
<1> DEFINE G == {s \in SUBSET S : SumFunctionOnSet(f, s) <= b * Cardinality(s)}
<1>1. {} \in G
  BY SumEmpty, FS_EmptySet
<1>2. ASSUME NEW s \in SUBSET S, NEW x \in s, s \ {x} \in G PROVE s \in G
  <2>1. IsFiniteSet(s) /\ IsFiniteSet(s \ {x})
    BY FS_Subset
  <2>2. /\ SumFunctionOnSet(f, s) = f[x] + SumFunctionOnSet(f, s \ {x})
        /\ SumFunctionOnSet(f, s \ {x}) \in Nat
    BY <2>1, SumRemove
  <2>3. /\ Cardinality(s \ {x}) = Cardinality(s) - 1
        /\ Cardinality(s) \in Nat /\ Cardinality(s \ {x}) \in Nat
    BY <2>1, FS_RemoveElement, FS_CardinalityType
  <2>4. b * Cardinality(s) = b * (Cardinality(s \ {x}) + 1)
    BY <2>3
  <2>5. \A c \in Nat : b * (c + 1) = b * c + b /\ b * c \in Nat
    OBVIOUS
  <2> QED
    BY <1>2, <2>2, <2>3, <2>4, <2>5
<1> HIDE DEF G
<1>3. S \in G
  BY <1>1, <1>2, SubsetInduction
<1> QED
  BY <1>3 DEF G

\* One for the elements of A and nothing for the others counts A.
LEMMA SumCounts ==
    ASSUME NEW S, IsFiniteSet(S), NEW A \in SUBSET S, NEW f,
           \A x \in S : f[x] = IF x \in A THEN 1 ELSE 0
    PROVE  SumFunctionOnSet(f, S) = Cardinality(A)
<1> DEFINE G == {s \in SUBSET S : SumFunctionOnSet(f, s) = Cardinality(A \cap s)}
<1>1. {} \in G
  BY SumEmpty, FS_EmptySet
<1>2. ASSUME NEW s \in SUBSET S, NEW x \in s, s \ {x} \in G PROVE s \in G
  <2>1. IsFiniteSet(s) /\ IsFiniteSet(s \ {x}) /\ IsFiniteSet(A \cap s)
    BY FS_Subset
  <2>2. \A y \in S : f[y] \in Nat
    OBVIOUS
  <2>3. SumFunctionOnSet(f, s) = f[x] + SumFunctionOnSet(f, s \ {x})
    BY <2>1, <2>2, SumRemove
  <2>4. Cardinality(A \cap s) \in Nat
    BY <2>1, FS_CardinalityType
  <2>5. CASE x \in A
    <3>1. A \cap (s \ {x}) = (A \cap s) \ {x} /\ x \in A \cap s
      BY <2>5
    <3>2. Cardinality((A \cap s) \ {x}) = Cardinality(A \cap s) - 1
      BY <2>1, <3>1, FS_RemoveElement
    <3>3. f[x] = 1 /\ SumFunctionOnSet(f, s \ {x}) = Cardinality((A \cap s) \ {x})
      BY <1>2, <2>5, <3>1
    <3>4. SumFunctionOnSet(f, s) = Cardinality(A \cap s)
      BY <2>3, <2>4, <3>2, <3>3
    <3> QED
      BY <3>4
  <2>6. CASE x \notin A
    <3>1. A \cap (s \ {x}) = A \cap s
      BY <2>6
    <3> QED
      BY <1>2, <2>3, <2>4, <2>6, <3>1
  <2> QED
    BY <2>5, <2>6
<1> HIDE DEF G
<1>3. S \in G
  BY <1>1, <1>2, SubsetInduction
<1>4. A \cap S = A
  OBVIOUS
<1> QED
  BY <1>3, <1>4 DEF G

\* B gives the elements that come before each one in a strict total order.
StrictOrder(S, B) ==
  /\ B \in [S -> SUBSET S]
  /\ \A x \in S : x \notin B[x]
  /\ \A x \in S : \A y \in B[x] : B[y] \subseteq B[x]
  /\ \A x, y \in S : x # y => x \in B[y] \/ y \in B[x]

First(S, B, n) == {x \in S : Cardinality(B[x]) < n}

\* One element further: exactly one has n elements before it.
LEMMA NextInOrder ==
    ASSUME NEW S, IsFiniteSet(S), NEW B, StrictOrder(S, B), NEW n \in Nat,
           Cardinality(First(S, B, n)) = n, n < Cardinality(S)
    PROVE  Cardinality(First(S, B, n + 1)) = n + 1
<1> DEFINE A == First(S, B, n)
           R == S \ A
           N == {Cardinality(B[x]) : x \in R}
<1>0. \A x \in S : B[x] \in SUBSET S /\ IsFiniteSet(B[x]) /\ Cardinality(B[x]) \in Nat
  BY FS_Subset, FS_CardinalityType DEF StrictOrder
<1>1. A \in SUBSET S /\ IsFiniteSet(A)
  BY FS_Subset DEF First
<1>2. R # {}
  <2>1. A # S
    OBVIOUS
  <2> QED
    BY <1>1, <2>1
<1>3. N \in SUBSET Nat /\ N # {}
  BY <1>0, <1>2
<1>4. PICK k \in N : \A m \in N : k <= m
  BY <1>3, LeastNatural
<1>5. PICK x \in R : Cardinality(B[x]) = k
  BY <1>4
<1>6. ASSUME NEW y \in S, NEW z \in B[y] PROVE Cardinality(B[z]) < Cardinality(B[y])
  <2>1. z \in S /\ B[z] \subseteq B[y] /\ z \notin B[z]
    BY <1>0 DEF StrictOrder
  <2>2. B[z] # B[y]
    BY <2>1
  <2>3. IsFiniteSet(B[y]) /\ Cardinality(B[z]) \in Nat /\ Cardinality(B[y]) \in Nat
    BY <1>0, <2>1
  <2>4. Cardinality(B[z]) <= Cardinality(B[y])
    BY <2>1, <2>3, FS_Subset
  <2>5. Cardinality(B[z]) # Cardinality(B[y])
    BY <2>1, <2>2, <2>3, FS_Subset
  <2> QED
    BY <2>3, <2>4, <2>5
<1>7. B[x] \subseteq A
  <2>1. ASSUME NEW z \in B[x], z \notin A PROVE FALSE
    <3>1. z \in R
      BY <1>0, <2>1
    <3>2. Cardinality(B[z]) \in N
      BY <3>1
    <3>3. Cardinality(B[z]) < Cardinality(B[x])
      BY <1>6
    <3> QED
      BY <1>0, <1>4, <1>5, <3>1, <3>2, <3>3
  <2> QED
    BY <2>1
<1>8. A \subseteq B[x]
  <2>1. ASSUME NEW z \in A, z \notin B[x] PROVE FALSE
    <3>1. z \in S /\ z # x /\ Cardinality(B[z]) < n
      BY DEF First
    <3>2. x \in B[z]
      BY <2>1, <3>1 DEF StrictOrder
    <3>3. Cardinality(B[x]) < Cardinality(B[z])
      BY <1>6, <3>1, <3>2
    <3>4. ~(Cardinality(B[x]) < n)
      BY DEF First
    <3> QED
      BY <1>0, <3>1, <3>3, <3>4
  <2> QED
    BY <2>1
<1>9. B[x] = A /\ Cardinality(B[x]) = n
  BY <1>7, <1>8
<1>10. First(S, B, n + 1) = A \cup {x}
  <2>1. ASSUME NEW y \in S, Cardinality(B[y]) < n + 1, y \notin A PROVE y = x
    <3>1. Cardinality(B[y]) = n
      BY <1>0, <2>1 DEF First
    <3>2. ASSUME y # x PROVE FALSE
      <4>1. y \in B[x] \/ x \in B[y]
        BY <3>2 DEF StrictOrder
      <4>2. Cardinality(B[y]) < n \/ n < Cardinality(B[y])
        BY <1>6, <1>9, <4>1
      <4> QED
        BY <3>1, <4>2
    <3> QED
      BY <3>2
  <2>2. A \subseteq First(S, B, n + 1) /\ x \in First(S, B, n + 1)
    <3>1. \A y \in S : Cardinality(B[y]) < n => Cardinality(B[y]) < n + 1
      BY <1>0
    <3>2. A \subseteq First(S, B, n + 1)
      BY <3>1 DEF First
    <3>3. x \in S /\ Cardinality(B[x]) < n + 1
      BY <1>9
    <3> QED
      BY <3>2, <3>3 DEF First
  <2>3. First(S, B, n + 1) \subseteq A \cup {x}
    BY <2>1 DEF First
  <2> QED
    BY <2>2, <2>3
<1>11. x \notin A
  OBVIOUS
<1> QED
  BY <1>1, <1>10, <1>11, FS_AddElement

\* The first n of an order are n.
LEMMA FirstCounts ==
    ASSUME NEW S, IsFiniteSet(S), NEW B, StrictOrder(S, B), NEW n \in Nat, n <= Cardinality(S)
    PROVE  Cardinality(First(S, B, n)) = n
<1> DEFINE N == {m \in Nat : m <= Cardinality(S) /\ Cardinality(First(S, B, m)) # m}
<1> SUFFICES ASSUME n \in N PROVE FALSE
  OBVIOUS
<1>1. PICK m \in N : \A k \in N : m <= k
  BY LeastNatural
<1>2. Cardinality(S) \in Nat
  BY FS_CardinalityType
<1>3. m # 0
  <2>1. \A x \in S : Cardinality(B[x]) \in Nat
    BY FS_Subset, FS_CardinalityType DEF StrictOrder
  <2>2. First(S, B, 0) = {}
    BY <2>1 DEF First
  <2>3. Cardinality({}) = 0
    BY FS_EmptySet
  <2> QED
    BY <1>1, <2>2, <2>3
<1>4. m - 1 \in Nat /\ m - 1 < Cardinality(S) /\ m - 1 \notin N /\ (m - 1) + 1 = m
  BY <1>1, <1>2, <1>3
<1>5. Cardinality(First(S, B, m - 1)) = m - 1
  BY <1>2, <1>4
<1>6. Cardinality(First(S, B, (m - 1) + 1)) = (m - 1) + 1
  BY <1>4, <1>5, NextInOrder
<1> QED
  BY <1>1, <1>4, <1>6

\* A sum of natural numbers over a part is at most the sum over the whole.
LEMMA SumPart ==
    ASSUME NEW S, IsFiniteSet(S), NEW f, \A x \in S : f[x] \in Nat, NEW T \in SUBSET S
    PROVE  SumFunctionOnSet(f, T) <= SumFunctionOnSet(f, S)
<1> DEFINE G == {s \in SUBSET S : SumFunctionOnSet(f, s \cap T) <= SumFunctionOnSet(f, s)}
<1>1. {} \in G
  <2>1. {} \cap T = {}
    OBVIOUS
  <2> QED
    BY <2>1, SumEmpty
<1>2. ASSUME NEW s \in SUBSET S, NEW x \in s, s \ {x} \in G PROVE s \in G
  <2>1. IsFiniteSet(s) /\ IsFiniteSet(s \ {x}) /\ IsFiniteSet(s \cap T)
    BY FS_Subset
  <2>2. /\ SumFunctionOnSet(f, s) = f[x] + SumFunctionOnSet(f, s \ {x})
        /\ SumFunctionOnSet(f, s \ {x}) \in Nat /\ f[x] \in Nat
    BY <2>1, SumRemove
  <2>3. SumFunctionOnSet(f, (s \ {x}) \cap T) <= SumFunctionOnSet(f, s \ {x})
    BY <1>2
  <2>4. CASE x \in T
    <3>1. (s \ {x}) \cap T = (s \cap T) \ {x} /\ x \in s \cap T
      BY <2>4
    <3>2. SumFunctionOnSet(f, s \cap T) = f[x] + SumFunctionOnSet(f, (s \cap T) \ {x})
      BY <2>1, <3>1, SumRemove
    <3>3. IsFiniteSet((s \cap T) \ {x}) /\ \A y \in (s \cap T) \ {x} : f[y] \in Nat
      BY <2>1, FS_Subset
    <3>4. SumFunctionOnSet(f, (s \cap T) \ {x}) \in Nat
      BY <3>3, SumRemove
    <3>5. SumFunctionOnSet(f, (s \cap T) \ {x}) <= SumFunctionOnSet(f, s \ {x})
      BY <2>3, <3>1
    <3> HIDE DEF G
    <3>6. SumFunctionOnSet(f, s \cap T) <= SumFunctionOnSet(f, s)
      BY <2>2, <3>2, <3>4, <3>5
    <3> QED
      BY <3>6 DEF G
  <2>5. CASE x \notin T
    <3>1. (s \ {x}) \cap T = s \cap T
      BY <2>5
    <3>2. SumFunctionOnSet(f, s \cap T) \in Nat
      BY <2>1, SumRemove
    <3> QED
      BY <2>2, <2>3, <3>1, <3>2
  <2> QED
    BY <2>4, <2>5
<1> HIDE DEF G
<1>3. S \in G
  BY <1>1, <1>2, SubsetInduction
<1>4. S \cap T = T
  OBVIOUS
<1> QED
  BY <1>3, <1>4 DEF G

\* A finite set of natural numbers has a greatest element.
LEMMA GreatestNatural ==
    ASSUME NEW S \in SUBSET Nat, IsFiniteSet(S), S # {}
    PROVE  \E m \in S : \A x \in S : x <= m
<1> DEFINE G == {s \in SUBSET S : s = {} \/ \E m \in s : \A x \in s : x <= m}
<1>1. {} \in G
  OBVIOUS
<1>2. ASSUME NEW s \in SUBSET S, NEW x \in s, s \ {x} \in G PROVE s \in G
  <2>1. CASE s \ {x} = {}
    <3>1. \A y \in s : y <= x
      BY <2>1
    <3> QED
      BY <3>1
  <2>2. ASSUME NEW m \in s \ {x}, \A y \in s \ {x} : y <= m PROVE s \in G
    <3>1. CASE x <= m
      <4>1. \A y \in s : y <= m
        BY <2>2, <3>1
      <4> QED
        BY <4>1
    <3>2. CASE ~(x <= m)
      <4>1. \A y \in s : y <= x
        BY <2>2, <3>2
      <4> QED
        BY <4>1
    <3> QED
      BY <3>1, <3>2
  <2> QED
    BY <1>2, <2>1, <2>2
<1> HIDE DEF G
<1>3. S \in G
  BY <1>1, <1>2, SubsetInduction
<1> QED
  BY <1>3 DEF G

\* What is taken one after the other, in the order of the numbers, is there each
\* time exactly when there is enough for all.
LEMMA TakenInTurn ==
    ASSUME NEW S \in SUBSET Nat, IsFiniteSet(S), NEW f, \A x \in S : f[x] \in Nat, NEW b \in Nat
    PROVE  (\A x \in S : f[x] <= b - SumFunctionOnSet(f, {y \in S : y < x}))
             <=> SumFunctionOnSet(f, S) <= b
<1> DEFINE before(x) == {y \in S : y < x}
<1>1. ASSUME NEW x \in S
      PROVE  SumFunctionOnSet(f, before(x)) \in Nat /\ f[x] \in Nat
  <2>1. IsFiniteSet(before(x)) /\ \A y \in before(x) : f[y] \in Nat
    BY FS_Subset
  <2> QED
    BY <2>1, SumRemove
<1>2. SumFunctionOnSet(f, S) \in Nat
  BY SumRemove
<1>3. ASSUME \A x \in S : f[x] <= b - SumFunctionOnSet(f, before(x))
      PROVE  SumFunctionOnSet(f, S) <= b
  <2>1. CASE S = {}
    BY <2>1, SumEmpty
  <2>2. ASSUME NEW m \in S, \A x \in S : x <= m PROVE SumFunctionOnSet(f, S) <= b
    <3>1. before(m) = S \ {m}
      <4>1. \A y \in S : y < m <=> y # m
        BY <2>2
      <4> QED
        BY <4>1
    <3>2. SumFunctionOnSet(f, S) = f[m] + SumFunctionOnSet(f, S \ {m})
      BY SumRemove
    <3>3. SumFunctionOnSet(f, S \ {m}) = SumFunctionOnSet(f, before(m))
      BY <3>1, Zenon
    <3>4. /\ f[m] <= b - SumFunctionOnSet(f, before(m))
          /\ SumFunctionOnSet(f, before(m)) \in Nat /\ f[m] \in Nat
      BY <1>1, <1>3
    <3> HIDE DEF before
    <3> QED
      BY <3>2, <3>3, <3>4
  <2> QED
    BY <2>1, <2>2, GreatestNatural
<1>4. ASSUME SumFunctionOnSet(f, S) <= b, NEW x \in S
      PROVE  f[x] <= b - SumFunctionOnSet(f, before(x))
  <2> DEFINE T == before(x) \cup {x}
  <2>1. T \in SUBSET S /\ x \in T /\ T \ {x} = before(x)
    OBVIOUS
  <2>2. IsFiniteSet(T) /\ \A y \in T : f[y] \in Nat
    BY <2>1, FS_Subset
  <2>3. SumFunctionOnSet(f, T) <= SumFunctionOnSet(f, S)
    BY <2>1, SumPart
  <2>4. SumFunctionOnSet(f, T) = f[x] + SumFunctionOnSet(f, T \ {x})
    BY <2>1, <2>2, SumRemove
  <2>5. SumFunctionOnSet(f, T \ {x}) = SumFunctionOnSet(f, before(x))
    BY <2>1, Zenon
  <2>6. SumFunctionOnSet(f, before(x)) \in Nat /\ f[x] \in Nat
    BY <1>1
  <2> HIDE DEF T, before
  <2> QED
    BY <1>2, <1>4, <2>3, <2>4, <2>5, <2>6
<1> QED
  BY <1>3, <1>4
=============================================================================
