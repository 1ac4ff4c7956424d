----------------------------- MODULE SumProofs ------------------------------
(***************************************************************************)
(* Sums over finite sets.  The balances of the ledger are compared with    *)
(* sums over tables (SumFunction of the community modules, a recursive     *)
(* function over the subsets of the table).  What such a sum is cannot be  *)
(* had by an induction theorem, which would take the claim as an operator: *)
(* here a set of smallest counterexamples takes its place.                 *)
(***************************************************************************)
EXTENDS Functions, FiniteSetTheorems, TLAPS

\* Among sets of elements of a finite set there is a smallest one.
LEMMA SmallestSubset ==
    ASSUME NEW S, IsFiniteSet(S), NEW B \in SUBSET (SUBSET S), B # {}
    PROVE  \E s \in B : \A x \in s : s \ {x} \notin B
<1>1. B \subseteq FiniteSubsetsOf(S)
  BY FS_Subset DEF FiniteSubsetsOf
<1>2. PICK s \in B : \A u \in B : ~(<<u, s>> \in StrictSubsetOrdering(S))
  BY <1>1, FS_StrictSubsetOrderingWellFounded, WFMin
<1>3. ASSUME NEW x \in s, s \ {x} \in B PROVE FALSE
  BY <1>2, <1>3 DEF StrictSubsetOrdering
<1> QED
  BY <1>3

-----------------------------------------------------------------------------
(***************************************************************************)
(* The recursive function behind a sum.                                    *)
(***************************************************************************)
Chosen(s) == CHOOSE x \in s : TRUE

\* g sums f over every subset of S.
SumsSubsets(g, f, S) ==
    g = [s \in SUBSET S |-> IF s = {} THEN 0 ELSE f[Chosen(s)] + g[s \ {Chosen(s)}]]

SumsSmallSubsets(g, f, S, n) ==
    /\ g = [s \in SUBSET S |-> g[s]]
    /\ \A s \in SUBSET S :
          Cardinality(s) <= n =>
              g[s] = IF s = {} THEN 0 ELSE f[Chosen(s)] + g[s \ {Chosen(s)}]

LEMMA SubsetSumsExist ==
    ASSUME NEW S, IsFiniteSet(S), NEW f
    PROVE  \E g : SumsSubsets(g, f, S)
<1> DEFINE Bad == {n \in Nat : \A g : ~SumsSmallSubsets(g, f, S, n)}
<1>1. \A s \in SUBSET S : IsFiniteSet(s) /\ Cardinality(s) \in Nat /\ Cardinality(s) <= Cardinality(S)
  BY FS_Subset, FS_CardinalityType
<1>2. \A s \in SUBSET S : s # {} => /\ Chosen(s) \in s /\ s \ {Chosen(s)} \in SUBSET S
                                    /\ Cardinality(s \ {Chosen(s)}) = Cardinality(s) - 1
  BY <1>1, FS_RemoveElement DEF Chosen
<1>3. Bad = {}
  <2>1. SUFFICES ASSUME Bad # {} PROVE FALSE
    OBVIOUS
  <2>2. PICK n \in Bad : \A m \in Bad : ~(<<m, n>> \in OpToRel(<, Nat))
    <3> HIDE DEF Bad
    <3>1. Bad \subseteq Nat
      BY DEF Bad
    <3> QED
      BY <2>1, <3>1, NatLessThanWellFounded, WFMin
  <2>3. n \in Nat
    OBVIOUS
  <2>4. CASE n = 0
    <3> DEFINE g == [s \in SUBSET S |-> 0]
    <3>1. SumsSmallSubsets(g, f, S, n)
      <4>1. \A s \in SUBSET S : Cardinality(s) <= 0 => s = {}
        BY <1>1, FS_EmptySet
      <4> QED
        BY <2>4, <4>1 DEF SumsSmallSubsets
    <3> QED
      BY <3>1
  <2>5. CASE n # 0
    <3>1. n - 1 \in Nat /\ n - 1 < n
      BY <2>3, <2>5
    <3>2. n - 1 \notin Bad
      BY <2>2, <2>3, <3>1, Zenon DEF OpToRel
    <3>3. PICK g : SumsSmallSubsets(g, f, S, n - 1)
      BY <3>1, <3>2
    <3> DEFINE h == [s \in SUBSET S |->
                        IF Cardinality(s) <= n - 1 THEN g[s]
                        ELSE f[Chosen(s)] + g[s \ {Chosen(s)}]]
    <3>4. ASSUME NEW s \in SUBSET S, Cardinality(s) <= n
          PROVE  h[s] = IF s = {} THEN 0 ELSE f[Chosen(s)] + h[s \ {Chosen(s)}]
      <4>1. CASE s = {}
        <5>1. Cardinality(s) <= n - 1
          BY <4>1, <3>1, FS_EmptySet
        <5> QED
          BY <3>3, <4>1, <5>1 DEF SumsSmallSubsets
      <4>2. CASE s # {}
        <5>1. Cardinality(s \ {Chosen(s)}) <= n - 1 /\ s \ {Chosen(s)} \in SUBSET S
          BY <1>1, <1>2, <2>3, <3>4, <4>2
        <5>2. h[s \ {Chosen(s)}] = g[s \ {Chosen(s)}]
          BY <5>1
        <5>3. CASE Cardinality(s) <= n - 1
          BY <3>3, <4>2, <5>2, <5>3 DEF SumsSmallSubsets
        <5>4. CASE ~(Cardinality(s) <= n - 1)
          BY <4>2, <5>2, <5>4
        <5> QED
          BY <5>3, <5>4
      <4> QED
        BY <4>1, <4>2
    <3>5. SumsSmallSubsets(h, f, S, n)
      BY <3>4 DEF SumsSmallSubsets
    <3> QED
      BY <3>5
  <2> QED
    BY <2>4, <2>5
<1>4. Cardinality(S) \in Nat
  BY FS_CardinalityType
<1>5. PICK g : SumsSmallSubsets(g, f, S, Cardinality(S))
  BY <1>3, <1>4
<1>6. /\ g = [s \in SUBSET S |-> g[s]]
      /\ \A s \in SUBSET S : g[s] = IF s = {} THEN 0 ELSE f[Chosen(s)] + g[s \ {Chosen(s)}]
  BY <1>1, <1>5 DEF SumsSmallSubsets
<1>7. SumsSubsets(g, f, S)
  BY <1>6, Zenon DEF SumsSubsets
<1> QED
  BY <1>7

\* The sum of the community modules is such a function's value.
LEMMA SumIsOfSubsets ==
    ASSUME NEW S, IsFiniteSet(S), NEW f
    PROVE  \E g : SumsSubsets(g, f, S) /\ SumFunctionOnSet(f, S) = g[S]
<1> DEFINE iter == CHOOSE g : g = [s \in SUBSET S |-> IF s = {} THEN 0
                                                     ELSE f[CHOOSE x \in s : TRUE]
                                                             + g[s \ {CHOOSE x \in s : TRUE}]]
<1>1. SumFunctionOnSet(f, S) = iter[S]
  BY DEF SumFunctionOnSet, FoldFunctionOnSet, MapThenFoldSet
<1>2. \E g : g = [s \in SUBSET S |-> IF s = {} THEN 0 ELSE f[CHOOSE x \in s : TRUE]
                                                             + g[s \ {CHOOSE x \in s : TRUE}]]
  <2>1. PICK g : SumsSubsets(g, f, S)
    BY SubsetSumsExist
  <2> QED
    BY <2>1, Zenon DEF SumsSubsets, Chosen
<1>3. iter = [s \in SUBSET S |-> IF s = {} THEN 0 ELSE f[CHOOSE x \in s : TRUE]
                                                          + iter[s \ {CHOOSE x \in s : TRUE}]]
  BY <1>2
<1> HIDE DEF iter
<1>4. SumsSubsets(iter, f, S)
  BY <1>3 DEF SumsSubsets, Chosen
<1> QED
  BY <1>1, <1>4


\* It is a number.
LEMMA SubsetSumsInteger ==
    ASSUME NEW S, IsFiniteSet(S), NEW f, \A x \in S : f[x] \in Int, NEW g, SumsSubsets(g, f, S)
    PROVE  \A s \in SUBSET S : g[s] \in Int
<1> DEFINE Bad == {s \in SUBSET S : g[s] \notin Int}
<1>1. SUFFICES ASSUME Bad # {} PROVE FALSE
  OBVIOUS
<1>2. PICK s \in Bad : \A x \in s : s \ {x} \notin Bad
  <2> HIDE DEF Bad
  <2>1. Bad \in SUBSET (SUBSET S)
    BY DEF Bad
  <2> QED
    BY <1>1, <2>1, SmallestSubset
<1>3. s \in SUBSET S /\ g[s] = IF s = {} THEN 0 ELSE f[Chosen(s)] + g[s \ {Chosen(s)}]
  BY DEF SumsSubsets
<1>4. CASE s = {}
  BY <1>3, <1>4
<1>5. CASE s # {}
  <2>1. Chosen(s) \in s
    BY <1>5 DEF Chosen
  <2>2. g[s \ {Chosen(s)}] \in Int /\ f[Chosen(s)] \in Int
    BY <1>2, <1>3, <2>1
  <2> QED
    BY <1>3, <1>5, <2>2
<1> QED
  BY <1>4, <1>5

\* The elements may be taken in any order.
LEMMA SubsetSumsExtract ==
    ASSUME NEW S, IsFiniteSet(S), NEW f, \A x \in S : f[x] \in Int, NEW g, SumsSubsets(g, f, S),
           NEW s \in SUBSET S, NEW x \in s
    PROVE  g[s] = f[x] + g[s \ {x}]
<1> DEFINE Good(u) == \A z \in u : g[u] = f[z] + g[u \ {z}]
           Bad == {u \in SUBSET S : ~Good(u)}
<1>1. SUFFICES ASSUME Bad # {} PROVE FALSE
  OBVIOUS
<1>2. PICK u \in Bad : \A z \in u : u \ {z} \notin Bad
  <2> HIDE DEF Bad
  <2>1. Bad \in SUBSET (SUBSET S)
    BY DEF Bad
  <2> QED
    BY <1>1, <2>1, SmallestSubset
<1>3. PICK z \in u : g[u] # f[z] + g[u \ {z}]
  OBVIOUS
<1> DEFINE y == Chosen(u)
<1>4. /\ u \in SUBSET S /\ y \in u
      /\ g[u] = f[y] + g[u \ {y}]
  BY DEF SumsSubsets, Chosen
<1>5. Good(u \ {z}) /\ Good(u \ {y})
  BY <1>2, <1>4
<1> HIDE DEF Bad, y
<1>6. z # y /\ z \in u \ {y} /\ y \in u \ {z} /\ (u \ {y}) \ {z} = (u \ {z}) \ {y}
  BY <1>3, <1>4
<1>7. g[u \ {y}] = f[z] + g[(u \ {y}) \ {z}] /\ g[u \ {z}] = f[y] + g[(u \ {y}) \ {z}]
  BY <1>5, <1>6
<1>8. g[(u \ {y}) \ {z}] \in Int /\ f[z] \in Int /\ f[y] \in Int
  <2>1. (u \ {y}) \ {z} \in SUBSET S /\ z \in S /\ y \in S
    BY <1>4
  <2> QED
    BY <2>1, SubsetSumsInteger
<1> QED
  BY <1>3, <1>4, <1>7, <1>8

\* Functions that agree on a set have the same sum over its subsets.
LEMMA SubsetSumsAgree ==
    ASSUME NEW S, IsFiniteSet(S), NEW f, NEW g, SumsSubsets(g, f, S),
           NEW T \in SUBSET S, NEW e, NEW h, SumsSubsets(h, e, T), \A x \in T : e[x] = f[x]
    PROVE  \A s \in SUBSET T : h[s] = g[s]
<1> DEFINE Bad == {s \in SUBSET T : h[s] # g[s]}
<1>1. SUFFICES ASSUME Bad # {} PROVE FALSE
  OBVIOUS
<1>2. PICK s \in Bad : \A x \in s : s \ {x} \notin Bad
  <2> HIDE DEF Bad
  <2>1. Bad \in SUBSET (SUBSET T) /\ IsFiniteSet(T)
    BY FS_Subset DEF Bad
  <2> QED
    BY <1>1, <2>1, SmallestSubset
<1>3. /\ s \in SUBSET T /\ s \in SUBSET S
      /\ g[s] = IF s = {} THEN 0 ELSE f[Chosen(s)] + g[s \ {Chosen(s)}]
      /\ h[s] = IF s = {} THEN 0 ELSE e[Chosen(s)] + h[s \ {Chosen(s)}]
  BY DEF SumsSubsets
<1>4. s # {} /\ Chosen(s) \in s
  BY <1>3 DEF Chosen
<1>5. h[s \ {Chosen(s)}] = g[s \ {Chosen(s)}] /\ e[Chosen(s)] = f[Chosen(s)]
  BY <1>2, <1>3, <1>4
<1> QED
  BY <1>3, <1>4, <1>5

-----------------------------------------------------------------------------
(***************************************************************************)
(* What the proofs about tables cite.                                      *)
(***************************************************************************)
LEMMA SumEmpty ==
    ASSUME NEW f
    PROVE  SumFunctionOnSet(f, {}) = 0
<1>1. IsFiniteSet({})
  BY FS_EmptySet
<1>2. PICK g : SumsSubsets(g, f, {}) /\ SumFunctionOnSet(f, {}) = g[{}]
  BY <1>1, SumIsOfSubsets
<1> QED
  BY <1>2 DEF SumsSubsets

LEMMA SumSame ==
    ASSUME NEW S, IsFiniteSet(S), NEW f, NEW h, \A x \in S : h[x] = f[x]
    PROVE  SumFunctionOnSet(h, S) = SumFunctionOnSet(f, S)
<1>1. PICK p : SumsSubsets(p, f, S) /\ SumFunctionOnSet(f, S) = p[S]
  BY SumIsOfSubsets
<1>2. PICK q : SumsSubsets(q, h, S) /\ SumFunctionOnSet(h, S) = q[S]
  BY SumIsOfSubsets
<1>3. q[S] = p[S]
  BY <1>1, <1>2, SubsetSumsAgree
<1> QED
  BY <1>1, <1>2, <1>3

LEMMA SumRemove ==
    ASSUME NEW S, IsFiniteSet(S), NEW f, \A x \in S : f[x] \in Int
    PROVE  /\ SumFunctionOnSet(f, S) \in Int
           /\ \A x \in S : SumFunctionOnSet(f, S) = f[x] + SumFunctionOnSet(f, S \ {x})
<1>1. PICK g : SumsSubsets(g, f, S) /\ SumFunctionOnSet(f, S) = g[S]
  BY SumIsOfSubsets
<1>2. g[S] \in Int
  BY <1>1, SubsetSumsInteger
<1>3. ASSUME NEW x \in S PROVE SumFunctionOnSet(f, S \ {x}) = g[S \ {x}]
  <2>1. IsFiniteSet(S \ {x}) /\ S \ {x} \in SUBSET S
    BY FS_RemoveElement
  <2>2. PICK h : SumsSubsets(h, f, S \ {x}) /\ SumFunctionOnSet(f, S \ {x}) = h[S \ {x}]
    BY <2>1, SumIsOfSubsets
  <2>3. h[S \ {x}] = g[S \ {x}]
    BY <1>1, <2>1, <2>2, SubsetSumsAgree
  <2> QED
    BY <2>2, <2>3
<1>4. ASSUME NEW x \in S PROVE g[S] = f[x] + g[S \ {x}]
  <2>1. S \in SUBSET S
    OBVIOUS
  <2> QED
    BY <1>1, <2>1, SubsetSumsExtract
<1> QED
  BY <1>1, <1>2, <1>3, <1>4

\* One changed element changes the sum by its difference.
LEMMA SumUpdate ==
    ASSUME NEW S, IsFiniteSet(S), NEW f, \A y \in S : f[y] \in Int, NEW x \in S,
           NEW h, \A y \in S : y # x => h[y] = f[y], h[x] \in Int
    PROVE  /\ SumFunctionOnSet(f, S) \in Int
           /\ SumFunctionOnSet(h, S) = SumFunctionOnSet(f, S) - f[x] + h[x]
<1>1. \A y \in S : h[y] \in Int
  OBVIOUS
<1>2. /\ SumFunctionOnSet(f, S) \in Int
      /\ SumFunctionOnSet(f, S) = f[x] + SumFunctionOnSet(f, S \ {x})
  BY SumRemove
<1>3. SumFunctionOnSet(h, S) = h[x] + SumFunctionOnSet(h, S \ {x})
  BY <1>1, SumRemove
<1>4. IsFiniteSet(S \ {x})
  BY FS_RemoveElement
<1>5. SumFunctionOnSet(h, S \ {x}) = SumFunctionOnSet(f, S \ {x})
  BY <1>4, SumSame
<1>6. SumFunctionOnSet(f, S \ {x}) \in Int
  BY <1>4, SumRemove
<1> QED
  BY <1>2, <1>3, <1>5, <1>6

\* Elements that count nothing may be left out.
LEMMA SumOfPart ==
    ASSUME NEW S, IsFiniteSet(S), NEW f, \A x \in S : f[x] \in Int,
           NEW T \in SUBSET S, \A x \in S : x \notin T => f[x] = 0
    PROVE  SumFunctionOnSet(f, T) = SumFunctionOnSet(f, S)
<1> DEFINE Rest(s) == SumFunctionOnSet(f, T \cup s)
           Bad == {s \in SUBSET (S \ T) : Rest(s) # SumFunctionOnSet(f, T)}
<1>1. SUFFICES ASSUME Bad # {} PROVE FALSE
  <2>1. T \cup (S \ T) = S
    OBVIOUS
  <2>2. S \ T \in Bad <=> SumFunctionOnSet(f, S) # SumFunctionOnSet(f, T)
    BY <2>1, Zenon
  <2> HIDE DEF Bad
  <2> QED
    BY <2>2
<1>2. PICK s \in Bad : \A x \in s : s \ {x} \notin Bad
  <2>1. IsFiniteSet(S \ T)
    BY FS_Subset
  <2> HIDE DEF Bad
  <2>2. Bad \in SUBSET (SUBSET (S \ T))
    BY DEF Bad
  <2> QED
    BY <1>1, <2>1, <2>2, SmallestSubset
<1>3. s \in SUBSET (S \ T) /\ Rest(s) # SumFunctionOnSet(f, T)
  OBVIOUS
<1>4. PICK x : x \in s
  <2>1. s = {} => T \cup s = T
    OBVIOUS
  <2> QED
    BY <1>3, <2>1
<1>5. Rest(s \ {x}) = SumFunctionOnSet(f, T)
  BY <1>2, <1>3, <1>4
<1>6. /\ (T \cup s) \ {x} = T \cup (s \ {x}) /\ x \in T \cup s /\ f[x] = 0
      /\ T \cup s \in SUBSET S
  BY <1>3, <1>4
<1>7. IsFiniteSet(T \cup s) /\ IsFiniteSet(T \cup (s \ {x}))
  BY <1>6, FS_Subset, FS_RemoveElement
<1>8. Rest(s) = 0 + Rest(s \ {x}) /\ Rest(s \ {x}) \in Int
  <2>1. \A y \in T \cup s : f[y] \in Int
    BY <1>6
  <2> QED
    BY <1>6, <1>7, <2>1, SumRemove
<1> QED
  BY <1>3, <1>5, <1>8

LEMMA SumOfZeroes ==
    ASSUME NEW S, IsFiniteSet(S), NEW f, \A x \in S : f[x] = 0
    PROVE  SumFunctionOnSet(f, S) = 0
BY SumOfPart, SumEmpty

LEMMA SumOfOne ==
    ASSUME NEW x, NEW f, f[x] \in Int
    PROVE  SumFunctionOnSet(f, {x}) = f[x]
<1>1. IsFiniteSet({x}) /\ {x} \ {x} = {}
  BY FS_Singleton
<1> QED
  BY <1>1, SumRemove, SumEmpty

\* The sum of the opposites is the opposite of the sum.
LEMMA SumOpposite ==
    ASSUME NEW S, IsFiniteSet(S), NEW f, \A x \in S : f[x] \in Int,
           NEW h, \A x \in S : h[x] = 0 - f[x]
    PROVE  SumFunctionOnSet(h, S) = 0 - SumFunctionOnSet(f, S)
<1> DEFINE Opposite(s) == SumFunctionOnSet(h, s) = 0 - SumFunctionOnSet(f, s)
           Bad == {s \in SUBSET S : ~Opposite(s)}
<1>1. SUFFICES ASSUME Bad # {} PROVE FALSE
  <2>1. S \in Bad <=> ~Opposite(S)
    OBVIOUS
  <2> HIDE DEF Bad
  <2> QED
    BY <2>1
<1>2. PICK s \in Bad : \A x \in s : s \ {x} \notin Bad
  <2> HIDE DEF Bad
  <2>1. Bad \in SUBSET (SUBSET S)
    BY DEF Bad
  <2> QED
    BY <1>1, <2>1, SmallestSubset
<1>3. s \in SUBSET S /\ ~Opposite(s)
  OBVIOUS
<1>4. PICK x : x \in s
  <2>1. Opposite({})
    BY SumEmpty
  <2> QED
    BY <1>3, <2>1
<1>5. Opposite(s \ {x})
  BY <1>2, <1>3, <1>4
<1>6. IsFiniteSet(s) /\ IsFiniteSet(s \ {x})
  BY <1>3, FS_Subset, FS_RemoveElement
<1>7. \A y \in s : f[y] \in Int /\ h[y] \in Int
  BY <1>3
<1>8. /\ SumFunctionOnSet(f, s) = f[x] + SumFunctionOnSet(f, s \ {x})
      /\ SumFunctionOnSet(f, s \ {x}) \in Int
  BY <1>4, <1>6, <1>7, SumRemove
<1>9. SumFunctionOnSet(h, s) = h[x] + SumFunctionOnSet(h, s \ {x})
  BY <1>4, <1>6, <1>7, SumRemove
<1>10. h[x] = 0 - f[x] /\ f[x] \in Int
  BY <1>3, <1>4
<1> QED
  BY <1>3, <1>5, <1>8, <1>9, <1>10

=============================================================================
