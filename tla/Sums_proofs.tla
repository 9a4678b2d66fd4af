---------------------------- MODULE Sums_proofs ----------------------------
(***************************************************************************)
(* Sums of functions over finite sets, as Functions.tla folds them: the    *)
(* recursion has a solution, and what is added in which order makes no     *)
(* difference.  Induction is by a smallest counterexample among the        *)
(* subsets of a finite set.                                                *)
(***************************************************************************)
EXTENDS Functions, FiniteSetTheorems, TLAPS

\* The element that the fold takes next.
Pick(s) == CHOOSE x \in s : TRUE

\* g has the sum of f over every subset of S.
IsSumOf(g, f, S) ==
    g = [s \in SUBSET S |-> IF s = {} THEN 0 ELSE f[Pick(s)] + g[s \ {Pick(s)}]]

\* The function that the fold computes with.
SumsOf(f, S) == CHOOSE g : IsSumOf(g, f, S)

\* SumFunctionOnSet is the fold.
LEMMA Unfold ==
    ASSUME NEW f, NEW S
    PROVE  SumFunctionOnSet(f, S) = SumsOf(f, S)[S]
BY DEF SumFunctionOnSet, FoldFunctionOnSet, MapThenFoldSet, SumsOf, IsSumOf, Pick

\* A set of subsets of a finite set has a smallest member.
LEMMA MinimalSubset ==
    ASSUME NEW S, IsFiniteSet(S), NEW T \in SUBSET SUBSET S, T # {}
    PROVE  \E s \in T : \A t \in SUBSET s : t # s => t \notin T
<1>1. PICK s \in T : \A t \in T : ~ (<<t, s>> \in StrictSubsetOrdering(S))
  BY FS_StrictSubsetOrderingWellFounded, FS_FiniteSubsetsOfFinite, WFMin
<1>2. ASSUME NEW t \in SUBSET s, t # s, t \in T PROVE FALSE
  BY <1>1, <1>2 DEF StrictSubsetOrdering
<1> QED BY <1>1, <1>2

\* The fold takes an element.
LEMMA PickIn == ASSUME NEW s, s # {} PROVE Pick(s) \in s
BY DEF Pick

\* One step of the recursion.
LEMMA SumStep ==
    ASSUME NEW f, NEW S, NEW g, IsSumOf(g, f, S), NEW s \in SUBSET S
    PROVE  g[s] = IF s = {} THEN 0 ELSE f[Pick(s)] + g[s \ {Pick(s)}]
<1>1. \A h : g = h => g[s] = h[s]
  OBVIOUS
<1> DEFINE h == [t \in SUBSET S |-> IF t = {} THEN 0 ELSE f[Pick(t)] + g[t \ {Pick(t)}]]
<1>2. h[s] = IF s = {} THEN 0 ELSE f[Pick(s)] + g[s \ {Pick(s)}]
  OBVIOUS
<1> QED BY <1>1, <1>2 DEF IsSumOf

\* Solutions for two sets agree on what they share.
LEMMA SumsAgree ==
    ASSUME NEW f, NEW e, NEW A, NEW B, NEW g, NEW h, IsFiniteSet(A),
           IsSumOf(g, f, A), IsSumOf(h, e, B), 
           NEW s \in SUBSET (A \cap B), \A x \in s : f[x] = e[x]
    PROVE  g[s] = h[s]
<1> DEFINE T == {t \in SUBSET s : g[t] # h[t]}
<1> SUFFICES ASSUME T # {} PROVE FALSE
  OBVIOUS
<1>0. IsFiniteSet(s)
  BY FS_Subset
<1>1. PICK t \in T : \A r \in SUBSET t : r # t => r \notin T
  <2>1. T \in SUBSET SUBSET s
    OBVIOUS
  <2> HIDE DEF T
  <2> QED BY <1>0, <2>1, MinimalSubset
<1>2. t # {}
  BY SumStep
<1>3. /\ Pick(t) \in t
      /\ g[t] = f[Pick(t)] + g[t \ {Pick(t)}]
      /\ h[t] = e[Pick(t)] + h[t \ {Pick(t)}]
  BY <1>2, SumStep, PickIn
<1>4. g[t \ {Pick(t)}] = h[t \ {Pick(t)}]
  BY <1>1, <1>3
<1> QED BY <1>3, <1>4

\* The recursion has a solution for every finite set.
LEMMA SumsExist ==
    ASSUME NEW f, NEW S, IsFiniteSet(S)
    PROVE  IsSumOf(SumsOf(f, S), f, S)
<1> DEFINE Good(s) == \E g : IsSumOf(g, f, s)
<1> DEFINE T == {s \in SUBSET S : ~Good(s)}
<1> SUFFICES ASSUME T # {} PROVE FALSE
  BY DEF SumsOf
<1>1. PICK s \in T : \A t \in SUBSET s : t # s => t \notin T
  <2>1. T \in SUBSET SUBSET S
    OBVIOUS
  <2> HIDE DEF T
  <2> QED BY <2>1, MinimalSubset
<1>2. \A t \in SUBSET s : t # s => IsFiniteSet(t) /\ IsSumOf(SumsOf(f, t), f, t)
  BY <1>1, FS_Subset DEF SumsOf
<1> DEFINE g == [t \in SUBSET s |->
                   IF t = {} THEN 0
                   ELSE f[Pick(t)] + SumsOf(f, t \ {Pick(t)})[t \ {Pick(t)}]]
<1>3. ASSUME NEW t \in SUBSET s, t # s PROVE g[t] = SumsOf(f, t)[t]
  <2>1. CASE t = {}
    BY <1>2, <1>3, <2>1, SumStep
  <2>2. CASE t # {}
    <3>1. t \ {Pick(t)} \in SUBSET s /\ t \ {Pick(t)} # s
      BY <1>3, <2>2, PickIn
    <3>2. SumsOf(f, t)[t] = f[Pick(t)] + SumsOf(f, t)[t \ {Pick(t)}]
      BY <1>2, <1>3, <2>2, SumStep
    <3>3. SumsOf(f, t)[t \ {Pick(t)}] = SumsOf(f, t \ {Pick(t)})[t \ {Pick(t)}]
      BY <1>2, <1>3, <3>1, SumsAgree
    <3> QED BY <2>2, <3>2, <3>3
  <2> QED BY <2>1, <2>2
<1>4. ASSUME NEW t \in SUBSET s, t # {}
      PROVE  SumsOf(f, t \ {Pick(t)})[t \ {Pick(t)}] = g[t \ {Pick(t)}]
  BY <1>3, <1>4, PickIn
<1>5. IsSumOf(g, f, s)
  <2>1. \A t \in SUBSET s : g[t] = IF t = {} THEN 0 ELSE f[Pick(t)] + g[t \ {Pick(t)}]
    BY <1>4
  <2>2. g = [t \in SUBSET s |-> g[t]]
    OBVIOUS
  <2> HIDE DEF g
  <2> QED BY <2>1, <2>2 DEF IsSumOf
<1> QED BY <1>1, <1>5

-----------------------------------------------------------------------------
(* Laws of sums *)

\* Nothing sums to zero.
LEMMA SumOfEmpty == ASSUME NEW f PROVE SumFunctionOnSet(f, {}) = 0
BY Unfold, SumsExist, SumStep, FS_EmptySet

\* The solution for a set has the sums over its subsets.
LEMMA SumPart ==
    ASSUME NEW f, NEW S, IsFiniteSet(S), NEW s \in SUBSET S
    PROVE  SumsOf(f, S)[s] = SumFunctionOnSet(f, s)
BY SumsExist, SumsAgree, Unfold, FS_Subset

\* A sum depends on the values of its elements only.
LEMMA SumSame ==
    ASSUME NEW f, NEW g, NEW S, IsFiniteSet(S), \A x \in S : f[x] = g[x]
    PROVE  SumFunctionOnSet(f, S) = SumFunctionOnSet(g, S)
BY SumsExist, SumsAgree, Unfold

\* A sum is the value of the element taken, and the sum of the others.
LEMMA SumPicks ==
    ASSUME NEW f, NEW S, IsFiniteSet(S), S # {}
    PROVE  SumFunctionOnSet(f, S) = f[Pick(S)] + SumFunctionOnSet(f, S \ {Pick(S)})
<1>1. SumsOf(f, S)[S] = f[Pick(S)] + SumsOf(f, S)[S \ {Pick(S)}]
  BY SumsExist, SumStep
<1> QED BY <1>1, SumPart, Unfold

\* Integers sum to an integer.
LEMMA SumIsInt ==
    ASSUME NEW f, NEW S, IsFiniteSet(S), \A x \in S : f[x] \in Int
    PROVE  SumFunctionOnSet(f, S) \in Int
<1> DEFINE T == {s \in SUBSET S : SumFunctionOnSet(f, s) \notin Int}
<1> SUFFICES ASSUME T # {} PROVE FALSE
  OBVIOUS
<1>1. PICK s \in T : \A t \in SUBSET s : t # s => t \notin T
  <2>1. T \in SUBSET SUBSET S
    OBVIOUS
  <2> HIDE DEF T
  <2> QED BY <2>1, MinimalSubset
<1>2. s # {}
  BY SumOfEmpty
<1>3. /\ Pick(s) \in s
      /\ SumFunctionOnSet(f, s) = f[Pick(s)] + SumFunctionOnSet(f, s \ {Pick(s)})
  BY <1>2, PickIn, SumPicks, FS_Subset
<1> QED BY <1>1, <1>3

\* It does not matter which element is taken.
LEMMA SumRemove ==
    ASSUME NEW f, NEW S, IsFiniteSet(S), \A x \in S : f[x] \in Int, NEW y \in S
    PROVE  SumFunctionOnSet(f, S) = f[y] + SumFunctionOnSet(f, S \ {y})
<1> DEFINE Total(s) == SumFunctionOnSet(f, s)
           T == {s \in SUBSET S : \E x \in s : Total(s) # f[x] + Total(s \ {x})}
<1> SUFFICES ASSUME T # {} PROVE FALSE
  OBVIOUS
<1>1. PICK s \in T : \A t \in SUBSET s : t # s => t \notin T
  <2>1. T \in SUBSET SUBSET S
    OBVIOUS
  <2> HIDE DEF T
  <2> QED BY <2>1, MinimalSubset
<1>2. PICK x \in s : Total(s) # f[x] + Total(s \ {x})
  OBVIOUS
<1> DEFINE c == Pick(s)
<1>3. c \in s /\ Total(s) = f[c] + Total(s \ {c})
  BY PickIn, SumPicks, FS_Subset
<1>4. c # x
  BY <1>2, <1>3
<1>5. Total(s \ {c}) = f[x] + Total((s \ {c}) \ {x})
  BY <1>1, <1>3, <1>4
<1>6. Total(s \ {x}) = f[c] + Total((s \ {x}) \ {c})
  BY <1>1, <1>3, <1>4
<1>7. Total((s \ {x}) \ {c}) = Total((s \ {c}) \ {x})
  <2>1. (s \ {x}) \ {c} = (s \ {c}) \ {x}
    OBVIOUS
  <2> QED BY <2>1
<1>8. Total((s \ {c}) \ {x}) \in Int /\ f[x] \in Int /\ f[c] \in Int
  BY <1>3, SumIsInt, FS_Subset
<1>9. \A a, b, r \in Int : b + (a + r) = a + (b + r)
  OBVIOUS
<1>10. f[c] + (f[x] + Total((s \ {c}) \ {x})) = f[x] + (f[c] + Total((s \ {c}) \ {x}))
  BY <1>8, <1>9
<1> HIDE DEF Total, c
<1> QED BY <1>2, <1>3, <1>5, <1>6, <1>7, <1>10

\* An element that is added adds its value.
LEMMA SumAdd ==
    ASSUME NEW f, NEW S, IsFiniteSet(S), NEW y, y \notin S,
           \A x \in S \cup {y} : f[x] \in Int
    PROVE  SumFunctionOnSet(f, S \cup {y}) = f[y] + SumFunctionOnSet(f, S)
<1>1. IsFiniteSet(S \cup {y}) /\ (S \cup {y}) \ {y} = S
  BY FS_AddElement
<1> QED BY <1>1, SumRemove

\* The sum over two sets that share nothing is the sum of their sums.
LEMMA SumUnion ==
    ASSUME NEW f, NEW A, NEW B, IsFiniteSet(A), IsFiniteSet(B), A \cap B = {},
           \A x \in A \cup B : f[x] \in Int
    PROVE  SumFunctionOnSet(f, A \cup B) = SumFunctionOnSet(f, A) + SumFunctionOnSet(f, B)
<1> DEFINE Total(s) == SumFunctionOnSet(f, s)
           T == {s \in SUBSET B : Total(A \cup s) # Total(A) + Total(s)}
<1> SUFFICES ASSUME T # {} PROVE FALSE
  OBVIOUS
<1>1. PICK s \in T : \A t \in SUBSET s : t # s => t \notin T
  <2>1. T \in SUBSET SUBSET B
    OBVIOUS
  <2> HIDE DEF T
  <2> QED BY <2>1, MinimalSubset
<1>2. IsFiniteSet(s) /\ IsFiniteSet(A \cup s) /\ Total(A) \in Int
  BY FS_Subset, FS_Union, SumIsInt
<1>3. ASSUME s = {} PROVE FALSE
  <2>1. A \cup s = A /\ Total(s) = 0
    BY <1>3, SumOfEmpty
  <2> HIDE DEF Total
  <2> QED BY <1>2, <2>1
<1>4. ASSUME s # {} PROVE FALSE
  <2>1. PICK x \in s : TRUE
    BY <1>4
  <2> DEFINE r == s \ {x}
  <2>2. (A \cup s) \ {x} = A \cup r /\ r \in SUBSET s /\ r # s /\ x \in B
    BY <2>1
  <2>3. Total(A \cup s) = f[x] + Total(A \cup r)
    BY <1>2, <2>1, <2>2, SumRemove
  <2>4. Total(s) = f[x] + Total(r)
    BY <1>2, <2>1, SumRemove
  <2>5. Total(A \cup r) = Total(A) + Total(r)
    BY <1>1, <2>2
  <2>6. Total(r) \in Int /\ f[x] \in Int
    BY <1>2, <2>2, SumIsInt, FS_Subset
  <2> HIDE DEF Total, r
  <2>7. Total(A \cup s) = Total(A) + Total(s)
    BY <1>2, <2>3, <2>4, <2>5, <2>6
  <2> QED BY <2>7
<1> QED BY <1>3, <1>4

\* What has the key d, and what has one of K.
With(S, key, d) == {x \in S : key[x] = d}
Within(S, key, K) == {x \in S : key[x] \in K}

\* A sum may be taken part by part: over all the keys in K, of the sums of what
\* has the key.
LEMMA SumOfParts ==
    ASSUME NEW f, NEW S, IsFiniteSet(S), \A x \in S : f[x] \in Int,
           NEW K, IsFiniteSet(K), NEW key, NEW g,
           \A d \in K : g[d] = SumFunctionOnSet(f, With(S, key, d))
    PROVE  SumFunctionOnSet(g, K) = SumFunctionOnSet(f, Within(S, key, K))
<1> USE DEF With, Within
<1> DEFINE Of(k) == {x \in S : key[x] \in k}
           T == {k \in SUBSET K : SumFunctionOnSet(g, k) # SumFunctionOnSet(f, Of(k))}
<1> SUFFICES ASSUME T # {} PROVE FALSE
  OBVIOUS
<1>1. PICK k \in T : \A t \in SUBSET k : t # k => t \notin T
  <2>1. T \in SUBSET SUBSET K
    OBVIOUS
  <2> HIDE DEF T
  <2> QED BY <2>1, MinimalSubset
<1>2. ASSUME k = {} PROVE FALSE
  <2>1. Of(k) = {}
    BY <1>2
  <2> QED BY <1>2, <2>1, SumOfEmpty
<1>3. ASSUME k # {} PROVE FALSE
  <2> DEFINE d == Pick(k)  A == {x \in S : key[x] = d}  B == Of(k \ {d})
  <2>1. d \in k /\ SumFunctionOnSet(g, k) = g[d] + SumFunctionOnSet(g, k \ {d})
    BY <1>3, PickIn, SumPicks, FS_Subset
  <2>2. SumFunctionOnSet(g, k \ {d}) = SumFunctionOnSet(f, B)
    BY <1>1, <2>1
  <2>3. g[d] = SumFunctionOnSet(f, A)
    BY <2>1
  <2>4. Of(k) = A \cup B /\ A \cap B = {}
    BY <2>1
  <2>5. IsFiniteSet(A) /\ IsFiniteSet(B) /\ \A x \in A \cup B : f[x] \in Int
    BY FS_Subset
  <2>6. SumFunctionOnSet(f, A \cup B) = SumFunctionOnSet(f, A) + SumFunctionOnSet(f, B)
    <3> HIDE DEF A, B
    <3> QED BY <2>4, <2>5, SumUnion
  <2> QED BY <2>1, <2>2, <2>3, <2>4, <2>6
<1> QED BY <1>2, <1>3

\* One element sums to its value.
LEMMA SumOfOne ==
    ASSUME NEW f, NEW x, f[x] \in Int PROVE SumFunctionOnSet(f, {x}) = f[x]
<1>1. IsFiniteSet({x}) /\ {x} \ {x} = {}
  BY FS_Singleton
<1>2. SumFunctionOnSet(f, {x}) = f[x] + SumFunctionOnSet(f, {x} \ {x})
  BY <1>1, SumRemove
<1> QED BY <1>1, <1>2, SumOfEmpty

\* Elements may change places with others: a sum over S is the sum over what h
\* makes of S, when h keeps elements apart and values as they are.
LEMMA SumImage ==
    ASSUME NEW f, NEW g, NEW h, NEW S, IsFiniteSet(S),
           \A x \in S : g[x] \in Int /\ f[h[x]] = g[x],
           \A x, y \in S : h[x] = h[y] => x = y,
           NEW K, K = {h[x] : x \in S}
    PROVE  IsFiniteSet(K) /\ SumFunctionOnSet(f, K) = SumFunctionOnSet(g, S)
<1>1. IsFiniteSet(K)
  <2> DEFINE e == [x \in S |-> h[x]]
  <2>1. e \in Surjection(S, K)
    BY DEF Surjection
  <2> QED BY <2>1, FS_Surjection
<1>2. ASSUME NEW d \in K PROVE f[d] = SumFunctionOnSet(g, With(S, h, d))
  <2>1. PICK x \in S : d = h[x]
    OBVIOUS
  <2>2. With(S, h, d) = {x}
    BY <2>1 DEF With
  <2>3. SumFunctionOnSet(g, {x}) = g[x]
    BY SumOfOne
  <2> QED BY <2>1, <2>2, <2>3
<1>3. Within(S, h, K) = S
  BY DEF Within
<1>4. SumFunctionOnSet(f, K) = SumFunctionOnSet(g, Within(S, h, K))
  BY <1>1, <1>2, SumOfParts
<1> QED BY <1>1, <1>3, <1>4

\* Naturals sum to a natural.
LEMMA SumIsNat ==
    ASSUME NEW f, NEW S, IsFiniteSet(S), \A x \in S : f[x] \in Nat
    PROVE  SumFunctionOnSet(f, S) \in Nat
<1> DEFINE T == {s \in SUBSET S : SumFunctionOnSet(f, s) \notin Nat}
<1> SUFFICES ASSUME T # {} PROVE FALSE
  OBVIOUS
<1>1. PICK s \in T : \A t \in SUBSET s : t # s => t \notin T
  <2>1. T \in SUBSET SUBSET S
    OBVIOUS
  <2> HIDE DEF T
  <2> QED BY <2>1, MinimalSubset
<1>2. s # {}
  BY SumOfEmpty
<1>3. /\ Pick(s) \in s
      /\ SumFunctionOnSet(f, s) = f[Pick(s)] + SumFunctionOnSet(f, s \ {Pick(s)})
  BY <1>2, PickIn, SumPicks, FS_Subset
<1> QED BY <1>1, <1>3

\* A set of naturals has a smallest.
LEMMA SmallestNat ==
    ASSUME NEW T \in SUBSET Nat, T # {}
    PROVE  \E n \in T : \A m \in T : n <= m
<1>1. PICK b \in T : TRUE
  OBVIOUS
<1> DEFINE W == {1 .. m : m \in {k \in T : k <= b}}
<1>2. W \in SUBSET SUBSET (1 .. b) /\ 1 .. b \in W
  BY <1>1
<1>3. IsFiniteSet(1 .. b)
  BY <1>1, FS_Interval
<1>4. PICK s \in W : \A t \in SUBSET s : t # s => t \notin W
  <2>1. W \in SUBSET SUBSET (1 .. b) /\ W # {}
    BY <1>2
  <2> HIDE DEF W
  <2> QED BY <1>3, <2>1, MinimalSubset
<1>5. PICK n \in T : n <= b /\ s = 1 .. n
  OBVIOUS
<1>6. ASSUME NEW m \in T, m < n PROVE FALSE
  <2>1. 1 .. m \in W /\ 1 .. m \in SUBSET s
    BY <1>5, <1>6
  <2>2. n \in s /\ n \notin 1 .. m
    BY <1>5, <1>6
  <2> HIDE DEF W
  <2> QED BY <1>4, <2>1, <2>2
<1>7. ASSUME NEW m \in T PROVE n <= m
  BY <1>6
<1> QED BY <1>7

-----------------------------------------------------------------------------
(* Whole units *)

\* What is rounded down to whole units of L.
LEMMA DivBounds ==
    ASSUME NEW a \in Int, NEW L \in Nat \ {0}
    PROVE  a \div L \in Int /\ (a \div L) * L <= a /\ a < (a \div L) * L + L
OBVIOUS

LEMMA UnitsAreApart ==
    ASSUME NEW p \in Int, NEW q \in Int, NEW L \in Nat \ {0}, p < q
    PROVE  p * L + L <= q * L
OBVIOUS

\* What is between two multiples in a row has the first for its quotient.
LEMMA DivIs ==
    ASSUME NEW b \in Int, NEW q \in Int, NEW L \in Nat \ {0}, q * L <= b, b < q * L + L
    PROVE  b \div L = q
OBVIOUS
=============================================================================
