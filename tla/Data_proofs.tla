----------------------------- MODULE Data_proofs -----------------------------
(***************************************************************************)
(* Lemmas about the community modules' operators on data: sums over finite  *)
(* sets, as they fold them, positions removed from a sequence, sequences of *)
(* sequences made one, and the least elements with which facts about these  *)
(* are proved.                                                             *)
(*                                                                         *)
(* The library's induction theorems take a predicate as a parameter, which *)
(* no prover here can instantiate.  What follows takes the set of          *)
(* counterexamples instead and looks at a smallest one.                    *)
(***************************************************************************)
EXTENDS Integers, Sequences, FiniteSets, SequencesExt, FiniteSetTheorems, SequenceTheorems,
        WellFoundedInduction, TLAPS

\* A nonempty set of natural numbers has a least element.
LEMMA LeastNatural ==
    ASSUME NEW T, T \subseteq Nat, T # {}
    PROVE  \E x \in T : \A y \in T : x <= y
<1> DEFINE R == OpToRel(<, Nat)
<1>1. IsWellFoundedOn(R, Nat)
  BY NatLessThanWellFounded
<1>2. \A x, y \in Nat : x < y => <<x, y>> \in R
  BY DEF OpToRel
<1> HIDE DEF R
<1>3. PICK x \in T : \A y \in T : ~(<<y, x>> \in R)
  BY <1>1, WFMin
<1>4. ASSUME NEW y \in T  PROVE x <= y
  <2>1. x \in Nat /\ y \in Nat
    OBVIOUS
  <2>2. ~(y < x)
    BY <1>2, <1>3, <2>1, Zenon
  <2>3. QED  BY <2>1, <2>2
<1>5. QED  BY <1>4

\* Of some subsets of a finite set, one has none of the others within it.
LEMMA SmallestSubset ==
    ASSUME NEW S, IsFiniteSet(S), NEW Bad, Bad \subseteq SUBSET S, Bad # {}
    PROVE  \E T \in Bad : \A U \in Bad : U \subseteq T => U = T
<1> DEFINE R == StrictSubsetOrdering(S)
<1>1. IsWellFoundedOn(R, FiniteSubsetsOf(S))
  BY FS_StrictSubsetOrderingWellFounded
<1>2. Bad \subseteq FiniteSubsetsOf(S)
  BY FS_Subset DEF FiniteSubsetsOf
<1>3. \A T, U \in Bad : U \subseteq T /\ U # T => <<U, T>> \in R
  BY DEF StrictSubsetOrdering
<1> HIDE DEF R
<1>4. PICK T \in Bad : \A U \in Bad : ~(<<U, T>> \in R)
  BY <1>1, <1>2, WFMin
<1> QED  BY <1>3, <1>4

-----------------------------------------------------------------------------
\* The element a fold takes next.
Pick(s) == CHOOSE x \in s : TRUE

LEMMA PickIn == ASSUME NEW s, s # {}  PROVE Pick(s) \in s
  BY DEF Pick

\* F folds f over every subset of S.
Folds(F, f, S) ==
    \A s \in SUBSET S :
        F[s] = IF s = {} THEN 0 ELSE f[Pick(s)] + F[s \ {Pick(s)}]

Solves(F, f, S) ==
    F = [s \in SUBSET S |-> IF s = {} THEN 0 ELSE f[Pick(s)] + F[s \ {Pick(s)}]]

\* The recursion has a solution: one that is right for the subsets of at most n
\* elements is made right for those of n + 1.
LEMMA FoldExists ==
    ASSUME NEW S, IsFiniteSet(S), NEW f
    PROVE  \E F : Solves(F, f, S)
<1> DEFINE Right(H, n) ==
        \A s \in SUBSET S : Cardinality(s) <= n =>
            H[s] = IF s = {} THEN 0 ELSE f[Pick(s)] + H[s \ {Pick(s)}]
    Maps == {n \in Nat : \E H : DOMAIN H = SUBSET S /\ Right(H, n)}
    Bad == Nat \ Maps
<1>1. \A s \in SUBSET S : /\ IsFiniteSet(s) /\ Cardinality(s) \in Nat
                          /\ Cardinality(s) = 0 <=> s = {}
                          /\ Cardinality(s) <= Cardinality(S)
  BY FS_Subset, FS_CardinalityType, FS_EmptySet
<1>2. 0 \in Maps
  <2> DEFINE Zero == [s \in SUBSET S |-> 0]
  <2>1. DOMAIN Zero = SUBSET S /\ Right(Zero, 0)
    BY <1>1
  <2> QED  BY <2>1
<1>3. ASSUME NEW n \in Maps  PROVE n + 1 \in Maps
  <2>1. n \in Nat
    OBVIOUS
  <2>2. PICK F : DOMAIN F = SUBSET S /\ Right(F, n)
    OBVIOUS
  <2> DEFINE G == [s \in SUBSET S |-> IF Cardinality(s) <= n THEN F[s]
                                      ELSE f[Pick(s)] + F[s \ {Pick(s)}]]
  <2>3. ASSUME NEW s \in SUBSET S, s # {}
        PROVE  /\ s \ {Pick(s)} \in SUBSET S
               /\ Cardinality(s \ {Pick(s)}) = Cardinality(s) - 1
    BY <1>1, <2>3, PickIn, FS_RemoveElement
  <2>4. ASSUME NEW s \in SUBSET S, Cardinality(s) <= n + 1
        PROVE  G[s] = IF s = {} THEN 0 ELSE f[Pick(s)] + G[s \ {Pick(s)}]
    <3>1. CASE s = {}
      <4>1. Cardinality(s) <= n
        BY <1>1, <2>1, <3>1
      <4> QED  BY <2>2, <3>1, <4>1
    <3>2. CASE s # {}
      <4>1. /\ Cardinality(s) \in Nat /\ s \ {Pick(s)} \in SUBSET S
            /\ Cardinality(s \ {Pick(s)}) = Cardinality(s) - 1
        BY <1>1, <2>3, <3>2
      <4>2. G[s \ {Pick(s)}] = F[s \ {Pick(s)}]
        BY <2>1, <2>4, <4>1
      <4>3. G[s] = f[Pick(s)] + F[s \ {Pick(s)}]
        BY <2>2, <3>2
      <4> QED  BY <3>2, <4>2, <4>3
    <3> QED  BY <3>1, <3>2
  <2> HIDE DEF G
  <2>5. DOMAIN G = SUBSET S
    BY DEF G
  <2>6. \E H : DOMAIN H = SUBSET S /\ Right(H, n + 1)
    BY <2>4, <2>5
  <2> HIDE DEF Right
  <2> QED  BY <2>1, <2>6
<1>4. Cardinality(S) \in Maps
  <2>1. SUFFICES Bad = {}
    BY FS_CardinalityType
  <2> SUFFICES ASSUME Bad # {}  PROVE FALSE
    OBVIOUS
  <2> HIDE DEF Maps
  <2>2. PICK n \in Bad : \A k \in Bad : n <= k
    BY LeastNatural
  <2>3. n \in Nat /\ n # 0
    BY <1>2
  <2>4. n - 1 \in Nat /\ ~(n <= n - 1)
    BY <2>3
  <2>5. n - 1 \in Maps
    BY <2>2, <2>4
  <2>6. (n - 1) + 1 = n
    BY <2>3
  <2> QED  BY <1>3, <2>5, <2>6
<1>5. PICK F : DOMAIN F = SUBSET S /\ Right(F, Cardinality(S))
  BY <1>4
<1> DEFINE G == [s \in SUBSET S |-> F[s]]
<1>6. ASSUME NEW s \in SUBSET S
      PROVE  G[s] = IF s = {} THEN 0 ELSE f[Pick(s)] + G[s \ {Pick(s)}]
  BY <1>1, <1>5, PickIn
<1>7. G = [s \in SUBSET S |-> IF s = {} THEN 0 ELSE f[Pick(s)] + G[s \ {Pick(s)}]]
  BY <1>6
<1> QED  BY <1>7 DEF Solves


LEMMA SumIsFold ==
    ASSUME NEW S, IsFiniteSet(S), NEW f
    PROVE  \E F : SumFunctionOnSet(f, S) = F[S] /\ Folds(F, f, S)
<1>1. \E F : Solves(F, f, S)
  BY FoldExists
<1>2. PICK F : /\ F = [s \in SUBSET S |->
                          IF s = {} THEN 0 ELSE f[Pick(s)] + F[s \ {Pick(s)}]]
               /\ SumFunctionOnSet(f, S) = F[S]
  BY <1>1 DEF Solves, SumFunctionOnSet, FoldFunctionOnSet, MapThenFoldSet, Pick
<1> QED  BY <1>2 DEF Folds

\* Where two functions agree, so do their folds, whatever they fold elsewhere.
LEMMA FoldsAgree ==
    ASSUME NEW F, NEW f, NEW S, Folds(F, f, S),
           NEW G, NEW g, NEW T, Folds(G, g, T),
           NEW U, IsFiniteSet(U), U \subseteq S, U \subseteq T, \A x \in U : f[x] = g[x]
    PROVE  F[U] = G[U]
<1> DEFINE Bad == {s \in SUBSET U : F[s] # G[s]}
<1>1. SUFFICES ASSUME Bad # {}  PROVE FALSE
  OBVIOUS
<1>2. PICK s \in Bad : \A t \in Bad : t \subseteq s => t = s
  <2>1. Bad \subseteq SUBSET U
    OBVIOUS
  <2> HIDE DEF Bad
  <2> QED  BY <1>1, <2>1, SmallestSubset
<1>3. s \in SUBSET S /\ s \in SUBSET T
  OBVIOUS
<1>4. s # {}
  BY <1>3 DEF Folds
<1>5. Pick(s) \in s
  BY <1>4, PickIn
<1>6. F[s \ {Pick(s)}] = G[s \ {Pick(s)}]
  BY <1>2, <1>5
<1> QED  BY <1>3, <1>4, <1>5, <1>6 DEF Folds

\* Functions that agree on a set have one sum over it.
LEMMA SumSame ==
    ASSUME NEW S, IsFiniteSet(S), NEW f, NEW g, \A x \in S : f[x] = g[x]
    PROVE  SumFunctionOnSet(f, S) = SumFunctionOnSet(g, S)
<1>1. PICK F : SumFunctionOnSet(f, S) = F[S] /\ Folds(F, f, S)
  BY SumIsFold
<1>2. PICK G : SumFunctionOnSet(g, S) = G[S] /\ Folds(G, g, S)
  BY SumIsFold
<1> QED  BY <1>1, <1>2, FoldsAgree

LEMMA SumOfNothing == ASSUME NEW f  PROVE SumFunctionOnSet(f, {}) = 0
<1>1. PICK F : SumFunctionOnSet(f, {}) = F[{}] /\ Folds(F, f, {})
  BY SumIsFold, FS_EmptySet
<1> QED  BY <1>1 DEF Folds

LEMMA SumOfPick ==
    ASSUME NEW S, IsFiniteSet(S), S # {}, NEW f
    PROVE  SumFunctionOnSet(f, S) = f[Pick(S)] + SumFunctionOnSet(f, S \ {Pick(S)})
<1> DEFINE T == S \ {Pick(S)}
<1>1. PICK F : SumFunctionOnSet(f, S) = F[S] /\ Folds(F, f, S)
  BY SumIsFold
<1>2. IsFiniteSet(T)
  BY FS_RemoveElement
<1>3. PICK G : SumFunctionOnSet(f, T) = G[T] /\ Folds(G, f, T)
  BY <1>2, SumIsFold
<1>4. F[T] = G[T]
  BY <1>1, <1>2, <1>3, FoldsAgree
<1> QED  BY <1>1, <1>3, <1>4 DEF Folds

\* A sum of integers is one; of natural numbers, a natural number.
LEMMA SumType ==
    ASSUME NEW S, IsFiniteSet(S), NEW N, N \in {Nat, Int}, NEW f, \A x \in S : f[x] \in N
    PROVE  SumFunctionOnSet(f, S) \in N
<1> DEFINE Bad == {s \in SUBSET S : SumFunctionOnSet(f, s) \notin N}
<1>1. SUFFICES ASSUME Bad # {}  PROVE FALSE
  OBVIOUS
<1>2. PICK s \in Bad : \A t \in Bad : t \subseteq s => t = s
  <2>1. Bad \subseteq SUBSET S
    OBVIOUS
  <2> HIDE DEF Bad
  <2> QED  BY <1>1, <2>1, SmallestSubset
<1>3. s # {}
  BY SumOfNothing
<1>4. Pick(s) \in s /\ IsFiniteSet(s)
  BY <1>3, PickIn, FS_Subset
<1>5. SumFunctionOnSet(f, s \ {Pick(s)}) \in N
  BY <1>2, <1>4
<1>6. f[Pick(s)] \in N
  BY <1>4
<1>7. SumFunctionOnSet(f, s) = f[Pick(s)] + SumFunctionOnSet(f, s \ {Pick(s)})
  BY <1>3, <1>4, SumOfPick
<1>8. \A x, y \in N : x + y \in N
  OBVIOUS
<1> QED  BY <1>5, <1>6, <1>7, <1>8

\* Any element may be taken first.
LEMMA SumOfOne ==
    ASSUME NEW S, IsFiniteSet(S), NEW f, \A x \in S : f[x] \in Int, NEW b \in S
    PROVE  SumFunctionOnSet(f, S) = f[b] + SumFunctionOnSet(f, S \ {b})
<1> DEFINE Sum(s) == SumFunctionOnSet(f, s)
           Bad == {s \in SUBSET S : \E x \in s : Sum(s) # f[x] + Sum(s \ {x})}
<1>1. SUFFICES ASSUME Bad # {}  PROVE FALSE
  OBVIOUS
<1>2. PICK s \in Bad : \A t \in Bad : t \subseteq s => t = s
  <2>1. Bad \subseteq SUBSET S
    OBVIOUS
  <2> HIDE DEF Bad
  <2> QED  BY <1>1, <2>1, SmallestSubset
<1>3. PICK x \in s : Sum(s) # f[x] + Sum(s \ {x})
  BY <1>2
<1> DEFINE y == Pick(s)
<1>4. y \in s /\ IsFiniteSet(s) /\ s # {} /\ s \in SUBSET S
  BY <1>3, PickIn, FS_Subset
<1>5. Sum(s) = f[y] + Sum(s \ {y})
  BY <1>4, SumOfPick
<1> HIDE DEF y
<1>6. x # y
  BY <1>3, <1>5
<1>a. ASSUME NEW t, t \subseteq s, t # s, NEW z \in t
      PROVE  Sum(t) = f[z] + Sum(t \ {z})
  <2>1. t \in SUBSET S /\ t \notin Bad
    BY <1>2, <1>4, <1>a
  <2> QED  BY <2>1
<1>7. Sum(s \ {y}) = f[x] + Sum((s \ {y}) \ {x})
  BY <1>3, <1>4, <1>6, <1>a
<1>8. Sum(s \ {x}) = f[y] + Sum((s \ {x}) \ {y})
  BY <1>3, <1>4, <1>6, <1>a
<1>9. (s \ {x}) \ {y} = (s \ {y}) \ {x}
  OBVIOUS
<1>10. Sum((s \ {x}) \ {y}) \in Int
  <2>1. (s \ {x}) \ {y} \in SUBSET S
    BY <1>4
  <2>2. IsFiniteSet((s \ {x}) \ {y})
    BY <2>1, FS_Subset
  <2> QED  BY <2>1, <2>2, SumType
<1>11. f[x] \in Int /\ f[y] \in Int
  BY <1>3, <1>4
<1>12. PICK l \in Int : Sum((s \ {x}) \ {y}) = l
  BY <1>10
<1>13. Sum(s \ {y}) = f[x] + l
  BY <1>7, <1>9, <1>12
<1>14. Sum(s \ {x}) = f[y] + l
  BY <1>8, <1>12
<1>15. f[y] + (f[x] + l) = f[x] + (f[y] + l)
  BY <1>11
<1> QED  BY <1>3, <1>5, <1>13, <1>14, <1>15

\* Adding an element, or changing the value of one.
LEMMA SumExtends ==
    ASSUME NEW S, IsFiniteSet(S), NEW f, \A x \in S : f[x] \in Int, NEW b, b \notin S,
           NEW g, \A x \in S : g[x] = f[x], g[b] \in Int
    PROVE  SumFunctionOnSet(g, S \cup {b}) = SumFunctionOnSet(f, S) + g[b]
<1>1. IsFiniteSet(S \cup {b}) /\ (S \cup {b}) \ {b} = S
  BY FS_AddElement
<1>2. SumFunctionOnSet(g, S \cup {b}) = g[b] + SumFunctionOnSet(g, S)
  BY <1>1, SumOfOne
<1>3. SumFunctionOnSet(g, S) = SumFunctionOnSet(f, S)
  BY SumSame
<1>4. SumFunctionOnSet(f, S) \in Int
  BY SumType
<1> QED  BY <1>2, <1>3, <1>4

LEMMA SumChanges ==
    ASSUME NEW S, IsFiniteSet(S), NEW f, \A x \in S : f[x] \in Int, NEW b \in S,
           NEW g, \A x \in S \ {b} : g[x] = f[x], g[b] \in Int
    PROVE  SumFunctionOnSet(g, S) = SumFunctionOnSet(f, S) + g[b] - f[b]
<1>1. IsFiniteSet(S \ {b})
  BY FS_RemoveElement
<1>2. SumFunctionOnSet(f, S) = f[b] + SumFunctionOnSet(f, S \ {b})
  BY SumOfOne
<1>3. SumFunctionOnSet(g, S) = g[b] + SumFunctionOnSet(g, S \ {b})
  BY SumOfOne
<1>4. SumFunctionOnSet(g, S \ {b}) = SumFunctionOnSet(f, S \ {b})
  BY <1>1, SumSame
<1>5. SumFunctionOnSet(f, S \ {b}) \in Int /\ f[b] \in Int
  BY <1>1, SumType
<1> QED  BY <1>2, <1>3, <1>4, <1>5

-----------------------------------------------------------------------------
\* RemoveAt drops one position and keeps the order of the others.
LEMMA RemoveAtElements ==
    ASSUME NEW S, NEW s \in Seq(S), NEW i \in 1..Len(s)
    PROVE  /\ RemoveAt(s, i) \in Seq(S)
           /\ Len(RemoveAt(s, i)) = Len(s) - 1
           /\ \A j \in 1..(Len(s) - 1) :
                 RemoveAt(s, i)[j] = IF j < i THEN s[j] ELSE s[j + 1]
<1> DEFINE a == SubSeq(s, 1, i - 1)
           b == SubSeq(s, i + 1, Len(s))
<1>1. /\ a \in Seq(S)
      /\ Len(a) = i - 1
      /\ \A j \in 1..(i - 1) : a[j] = s[j]
  OBVIOUS
<1>2. /\ b \in Seq(S)
      /\ Len(b) = Len(s) - i
      /\ \A j \in 1..(Len(s) - i) : b[j] = s[i + j]
  OBVIOUS
<1>3. RemoveAt(s, i) = a \o b
  BY DEF RemoveAt
<1> HIDE DEF a, b
<1> DEFINE r == a \o b
<1>4. /\ r \in Seq(S) /\ Len(r) = Len(a) + Len(b)
      /\ \A j \in 1..Len(a) : r[j] = a[j]
      /\ \A j \in (Len(a) + 1)..(Len(a) + Len(b)) : r[j] = b[j - Len(a)]
  <2>1. a \in Seq(S) /\ b \in Seq(S)
    BY <1>1, <1>2
  <2>2. QED  BY <2>1
<1> HIDE DEF r
<1>5. ASSUME NEW j \in 1..(Len(s) - 1)
      PROVE  r[j] = IF j < i THEN s[j] ELSE s[j + 1]
  <2>1. CASE j < i
    BY <1>1, <1>4, <2>1
  <2>2. CASE j >= i
    <3>1. r[j] = b[j - (i - 1)]
      BY <1>1, <1>2, <1>4, <2>2
    <3>2. (j - (i - 1)) \in 1..(Len(s) - i) /\ i + (j - (i - 1)) = j + 1
      BY <2>2
    <3>3. QED  BY <1>2, <2>2, <3>1, <3>2
  <2>3. QED  BY <2>1, <2>2
<1>6. Len(r) = Len(s) - 1
  BY <1>1, <1>2, <1>4
<1>7. QED  BY <1>3, <1>4, <1>5, <1>6 DEF r

\* From a deck without repetition, removing a position removes exactly its card.
LEMMA RemoveAtSet ==
    ASSUME NEW S, NEW s \in Seq(S), IsInjective(s), NEW i \in 1..Len(s)
    PROVE  /\ IsInjective(RemoveAt(s, i))
           /\ ToSet(RemoveAt(s, i)) = ToSet(s) \ {s[i]}
<1> DEFINE r == RemoveAt(s, i)
<1>1. /\ r \in Seq(S) /\ Len(r) = Len(s) - 1
      /\ \A j \in 1..(Len(s) - 1) : r[j] = IF j < i THEN s[j] ELSE s[j + 1]
  BY RemoveAtElements
<1>2. DOMAIN s = 1..Len(s) /\ DOMAIN r = 1..(Len(s) - 1) /\ Len(s) \in Nat
  BY <1>1
<1>3. \A a, b \in 1..Len(s) : s[a] = s[b] => a = b
  BY <1>2 DEF IsInjective
<1> HIDE DEF r
<1>4. IsInjective(r)
  <2> SUFFICES ASSUME NEW a \in 1..(Len(s) - 1), NEW b \in 1..(Len(s) - 1), r[a] = r[b]
               PROVE a = b
    BY <1>2 DEF IsInjective
  <2> QED  BY <1>1, <1>2, <1>3
<1>5. ASSUME NEW x \in ToSet(r)  PROVE x \in ToSet(s) \ {s[i]}
  <2>1. PICK j \in 1..(Len(s) - 1) : x = r[j]
    BY <1>2, <1>5 DEF ToSet
  <2>2. x = s[IF j < i THEN j ELSE j + 1]
    BY <1>1, <2>1
  <2>3. /\ (IF j < i THEN j ELSE j + 1) \in 1..Len(s)
        /\ (IF j < i THEN j ELSE j + 1) # i
    BY <1>2
  <2>4. QED  BY <1>2, <1>3, <2>2, <2>3 DEF ToSet
<1>6. ASSUME NEW x \in ToSet(s) \ {s[i]}  PROVE x \in ToSet(r)
  <2>1. PICK j \in 1..Len(s) : x = s[j] /\ j # i
    BY <1>2, <1>6 DEF ToSet
  <2>2. CASE j < i
    <3>1. j \in 1..(Len(s) - 1) /\ r[j] = x
      BY <1>1, <1>2, <2>1, <2>2
    <3>2. QED  BY <1>2, <3>1 DEF ToSet
  <2>3. CASE j > i
    <3>1. (j - 1) \in 1..(Len(s) - 1) /\ r[j - 1] = x
      BY <1>1, <1>2, <2>1, <2>3
    <3>2. QED  BY <1>2, <3>1 DEF ToSet
  <2>4. QED  BY <1>2, <2>1, <2>2, <2>3
<1>7. QED  BY <1>4, <1>5, <1>6 DEF r

\* Appending a deck that shares no card keeps the deck free of repetition.
LEMMA ConcatSet ==
    ASSUME NEW S, NEW s \in Seq(S), NEW t \in Seq(S)
    PROVE  /\ ToSet(s \o t) = ToSet(s) \cup ToSet(t)
           /\ IsInjective(s) /\ IsInjective(t) /\ ToSet(s) \cap ToSet(t) = {}
                 => IsInjective(s \o t)
<1> DEFINE u == s \o t
<1>1. /\ u \in Seq(S) /\ Len(u) = Len(s) + Len(t)
      /\ \A j \in 1..Len(s) : u[j] = s[j]
      /\ \A j \in 1..Len(t) : u[Len(s) + j] = t[j]
  OBVIOUS
<1>2. /\ DOMAIN s = 1..Len(s) /\ DOMAIN t = 1..Len(t) /\ DOMAIN u = 1..(Len(s) + Len(t))
      /\ Len(s) \in Nat /\ Len(t) \in Nat
  BY <1>1
<1> HIDE DEF u
<1>3. \A j \in 1..(Len(s) + Len(t)) : j > Len(s) =>
         (j - Len(s)) \in 1..Len(t) /\ u[j] = t[j - Len(s)]
  BY <1>1, <1>2
<1>4. ToSet(s) \cup ToSet(t) \subseteq ToSet(u)
  <2>1. ASSUME NEW j \in 1..Len(s)  PROVE s[j] \in ToSet(u)
    BY <1>1, <1>2 DEF ToSet
  <2>2. ASSUME NEW j \in 1..Len(t)  PROVE t[j] \in ToSet(u)
    <3>1. (Len(s) + j) \in DOMAIN u /\ u[Len(s) + j] = t[j]
      BY <1>1, <1>2
    <3>2. QED  BY <3>1 DEF ToSet
  <2>3. QED  BY <1>2, <2>1, <2>2 DEF ToSet
<1>5. ASSUME NEW j \in 1..(Len(s) + Len(t)), j <= Len(s)
      PROVE  j \in DOMAIN s /\ u[j] = s[j] /\ u[j] \in ToSet(s)
  <2>1. j \in DOMAIN s /\ u[j] = s[j]
    BY <1>1, <1>2, <1>5
  <2>2. QED  BY <2>1 DEF ToSet
<1>6. ASSUME NEW j \in 1..(Len(s) + Len(t)), ~(j <= Len(s))
      PROVE  j - Len(s) \in DOMAIN t /\ u[j] = t[j - Len(s)] /\ u[j] \in ToSet(t)
  <2>1. j - Len(s) \in DOMAIN t /\ u[j] = t[j - Len(s)]
    BY <1>2, <1>3, <1>6
  <2>2. QED  BY <2>1 DEF ToSet
<1>7. ToSet(u) \subseteq ToSet(s) \cup ToSet(t)
  <2> SUFFICES ASSUME NEW j \in 1..(Len(s) + Len(t))
               PROVE u[j] \in ToSet(s) \cup ToSet(t)
    BY <1>2 DEF ToSet
  <2>1. CASE j <= Len(s)     BY <1>5, <2>1
  <2>2. CASE ~(j <= Len(s))  BY <1>6, <2>2
  <2>3. QED  BY <2>1, <2>2
<1>8. ASSUME IsInjective(s), IsInjective(t), ToSet(s) \cap ToSet(t) = {}
      PROVE IsInjective(u)
  <2> SUFFICES ASSUME NEW a \in 1..(Len(s) + Len(t)), NEW b \in 1..(Len(s) + Len(t)),
                      u[a] = u[b]
               PROVE a = b
    BY <1>2 DEF IsInjective
  <2>1. CASE a <= Len(s) /\ b <= Len(s)
    <3>1. a \in DOMAIN s /\ b \in DOMAIN s /\ s[a] = s[b]
      BY <1>5, <2>1
    <3>2. QED  BY <1>8, <3>1 DEF IsInjective
  <2>2. CASE ~(a <= Len(s)) /\ ~(b <= Len(s))
    <3>1. /\ a - Len(s) \in DOMAIN t /\ b - Len(s) \in DOMAIN t
          /\ t[a - Len(s)] = t[b - Len(s)]
      BY <1>6, <2>2
    <3>2. a - Len(s) = b - Len(s)
      BY <1>8, <3>1 DEF IsInjective
    <3>3. a \in Int /\ b \in Int /\ Len(s) \in Int
      BY <1>2
    <3>4. QED  BY <3>2, <3>3
  <2>3. CASE a <= Len(s) /\ ~(b <= Len(s))
    <3>1. u[a] \in ToSet(s)  BY <1>5, <2>3
    <3>2. u[b] \in ToSet(t)  BY <1>6, <2>3
    <3>3. QED  BY <1>8, <3>1, <3>2
  <2>4. CASE ~(a <= Len(s)) /\ b <= Len(s)
    <3>1. u[b] \in ToSet(s)  BY <1>5, <2>4
    <3>2. u[a] \in ToSet(t)  BY <1>6, <2>4
    <3>3. QED  BY <1>8, <3>1, <3>2
  <2>5. QED  BY <2>1, <2>2, <2>3, <2>4
<1>9. QED  BY <1>4, <1>7, <1>8 DEF u

-----------------------------------------------------------------------------
(***************************************************************************)
(* Least elements, as FiniteSetsExt and SequencesExt choose them.          *)
(***************************************************************************)
LEMMA MinIsLeast ==
    ASSUME NEW T, T \subseteq Nat, T # {}
    PROVE  Min(T) \in T /\ \A y \in T : Min(T) <= y
<1>1. \E x \in T : \A y \in T : x <= y
  BY LeastNatural
<1>2. QED  BY <1>1, Zenon DEF Min

\* A part of a finite set is finite and has no more elements.
LEMMA SmallerPart ==
    ASSUME NEW S, IsFiniteSet(S), NEW T, T \subseteq S
    PROVE  /\ IsFiniteSet(T) /\ Cardinality(T) \in Nat /\ Cardinality(S) \in Nat
           /\ Cardinality(T) <= Cardinality(S)
  BY FS_Subset, FS_CardinalityType

\* Sets with nothing in common.
LEMMA DisjointUnion ==
    ASSUME NEW S, NEW T, IsFiniteSet(S), IsFiniteSet(T), S \cap T = {}
    PROVE  /\ IsFiniteSet(S \cup T)
           /\ Cardinality(S \cup T) = Cardinality(S) + Cardinality(T)
<1>1. /\ IsFiniteSet(S \cup T)
      /\ Cardinality(S \cup T) = Cardinality(S) + Cardinality(T) - Cardinality(S \cap T)
  BY FS_Union
<1>2. Cardinality(S \cap T) = 0
  BY FS_EmptySet
<1>3. Cardinality(S) \in Nat /\ Cardinality(T) \in Nat
  BY FS_CardinalityType
<1>4. QED  BY <1>1, <1>2, <1>3

\* The least of two and of three numbers.
LEMMA MinOfTwo ==
    ASSUME NEW a \in Nat, NEW b \in Nat
    PROVE  /\ Min({a, b}) \in Nat /\ Min({a, b}) <= a /\ Min({a, b}) <= b
           /\ Min({a, b}) = a \/ Min({a, b}) = b
<1>1. {a, b} \subseteq Nat /\ {a, b} # {}
  OBVIOUS
<1>2. Min({a, b}) \in {a, b} /\ \A y \in {a, b} : Min({a, b}) <= y
  BY <1>1, MinIsLeast
<1>3. QED  BY <1>2

LEMMA MinOfThree ==
    ASSUME NEW a \in Nat, NEW b \in Nat, NEW c \in Nat
    PROVE  /\ Min({a, b, c}) \in Nat
           /\ Min({a, b, c}) <= a /\ Min({a, b, c}) <= b /\ Min({a, b, c}) <= c
           /\ Min({a, b, c}) = a \/ Min({a, b, c}) = b \/ Min({a, b, c}) = c
<1>1. {a, b, c} \subseteq Nat /\ {a, b, c} # {}
  OBVIOUS
<1>2. Min({a, b, c}) \in {a, b, c} /\ \A y \in {a, b, c} : Min({a, b, c}) <= y
  BY <1>1, MinIsLeast
<1>3. QED  BY <1>2

\* Adding one set to a sequence of sets adds its elements to their count.
LEMMA CountOfOneMore ==
    ASSUME NEW U, NEW s \in Seq(SUBSET U), NEW x \in SUBSET U, IsFiniteSet(x),
           \A i \in DOMAIN s : IsFiniteSet(s[i])
    PROVE  LET t == Append(s, x)
           IN  SumFunction([i \in DOMAIN t |-> Cardinality(t[i])]) =
                  SumFunction([i \in DOMAIN s |-> Cardinality(s[i])]) + Cardinality(x)
<1> DEFINE t == Append(s, x)
           n == Len(s)
           f == [i \in DOMAIN s |-> Cardinality(s[i])]
           g == [i \in DOMAIN t |-> Cardinality(t[i])]
<1>1. /\ n \in Nat /\ DOMAIN s = 1..n /\ DOMAIN t = (1..n) \cup {n + 1}
      /\ t[n + 1] = x /\ \A i \in 1..n : t[i] = s[i]
  OBVIOUS
<1>2. IsFiniteSet(1..n) /\ n + 1 \notin 1..n
  BY <1>1, FS_Interval
<1> HIDE DEF t, n
<1>3. \A i \in 1..n : Cardinality(s[i]) \in Int /\ g[i] = f[i] /\ f[i] \in Int
  BY <1>1, FS_CardinalityType
<1>4. g[n + 1] = Cardinality(x) /\ g[n + 1] \in Int
  BY <1>1, FS_CardinalityType
<1>5. DOMAIN f = 1..n /\ DOMAIN g = (1..n) \cup {n + 1}
  BY <1>1
<1> HIDE DEF f, g
<1>6. SumFunctionOnSet(g, (1..n) \cup {n + 1}) = SumFunctionOnSet(f, 1..n) + g[n + 1]
  <2>1. (\A i \in 1..n : f[i] \in Int) /\ (\A i \in 1..n : g[i] = f[i])
    BY <1>3
  <2> DEFINE D == 1..n
             b == n + 1
  <2>2. /\ IsFiniteSet(D) /\ b \notin D /\ g[b] \in Int
        /\ (\A i \in D : f[i] \in Int) /\ (\A i \in D : g[i] = f[i])
    BY <1>2, <1>4, <2>1
  <2> HIDE DEF D, b
  <2>3. SumFunctionOnSet(g, D \cup {b}) = SumFunctionOnSet(f, D) + g[b]
    BY <2>2, SumExtends, SMTT(30)
  <2>4. QED  BY <2>3 DEF D, b
<1>7. SumFunction(g) = SumFunction(f) + Cardinality(x)
  BY <1>4, <1>5, <1>6 DEF SumFunction
<1>8. QED  BY <1>7 DEF f, g, t

-----------------------------------------------------------------------------
\* F flattens every beginning of s.
Flat(F, s) ==
    F = [i \in 1..Len(s) |-> IF i = 1 THEN s[i] ELSE F[i-1] \o s[i]]

\* There is such a function: one for the first n elements is extended to n + 1.
LEMMA FlatExists ==
    ASSUME NEW S, NEW s \in Seq(Seq(S))
    PROVE  \E F : Flat(F, s)
<1> DEFINE Right(H, n) ==
        \A i \in 1..n : H[i] = IF i = 1 THEN s[i] ELSE H[i-1] \o s[i]
    Known == {n \in 0..Len(s) : \E H : DOMAIN H = 1..n /\ Right(H, n)}
    Bad == (0..Len(s)) \ Known
<1>1. Len(s) \in Nat
  OBVIOUS
<1>2. 0 \in Known
  <2> DEFINE Z == [i \in 1..0 |-> 0]
  <2>1. DOMAIN Z = 1..0 /\ Right(Z, 0)
    OBVIOUS
  <2> QED  BY <1>1, <2>1
<1>3. ASSUME NEW n \in Known, n < Len(s)  PROVE n + 1 \in Known
  <2>1. n \in Nat /\ n + 1 \in 0..Len(s)
    BY <1>1, <1>3
  <2>2. PICK H : DOMAIN H = 1..n /\ Right(H, n)
    OBVIOUS
  <2> DEFINE G == [i \in 1..n+1 |-> IF i <= n THEN H[i]
                                    ELSE IF i = 1 THEN s[i] ELSE H[i-1] \o s[i]]
  <2>3. ASSUME NEW i \in 1..n+1
        PROVE  G[i] = IF i = 1 THEN s[i] ELSE G[i-1] \o s[i]
    <3>1. G[i] = IF i <= n THEN H[i] ELSE IF i = 1 THEN s[i] ELSE H[i-1] \o s[i]
      BY Zenon
    <3>2. i \in Nat /\ (i <= n => i \in 1..n)
      BY <2>1
    <3>3. i <= n => H[i] = IF i = 1 THEN s[i] ELSE H[i-1] \o s[i]
      BY <2>2, <3>2, Zenon
    <3>4. G[i] = IF i = 1 THEN s[i] ELSE H[i-1] \o s[i]
      BY <3>1, <3>3, Zenon
    <3>5. i # 1 => i - 1 \in 1..n /\ i - 1 \in 1..n+1 /\ i - 1 <= n
      BY <2>1, <3>2
    <3>6. i # 1 => G[i-1] = H[i-1]
      BY <3>5, Zenon
    <3> QED  BY <3>4, <3>6, Zenon
  <2>4. DOMAIN G = 1..n+1
    OBVIOUS
  <2> HIDE DEF G
  <2>5. Right(G, n + 1)
    BY <2>3
  <2> HIDE DEF Right
  <2> QED  BY <2>1, <2>4, <2>5
<1> HIDE DEF Known
<1>4. Bad = {}
  <2> SUFFICES ASSUME Bad # {}  PROVE FALSE
    OBVIOUS
  <2>1. PICK n \in Bad : \A k \in Bad : n <= k
    <3>1. Bad \subseteq Nat
      BY <1>1
    <3> HIDE DEF Bad
    <3> QED  BY <3>1, LeastNatural
  <2>2. n \in Nat /\ n # 0 /\ n <= Len(s)
    BY <1>1, <1>2
  <2>3. n - 1 \in 0..Len(s) /\ n - 1 < Len(s) /\ ~(n <= n - 1)
    BY <1>1, <2>2
  <2>4. n - 1 \in Known
    BY <2>1, <2>3
  <2>5. (n - 1) + 1 = n
    BY <2>2
  <2> QED  BY <1>3, <2>3, <2>4, <2>5
<1>5. Len(s) \in Known
  BY <1>1, <1>4
<1>6. PICK H : DOMAIN H = 1..Len(s) /\ Right(H, Len(s))
  BY <1>5 DEF Known
<1> DEFINE F == [i \in 1..Len(s) |-> H[i]]
<1>7. ASSUME NEW i \in 1..Len(s)  PROVE F[i] = IF i = 1 THEN s[i] ELSE F[i-1] \o s[i]
  <2>1. H[i] = IF i = 1 THEN s[i] ELSE H[i-1] \o s[i]
    BY <1>6, Zenon
  <2>2. i # 1 => i - 1 \in 1..Len(s)
    BY <1>1
  <2>3. F[i] = H[i] /\ (i # 1 => F[i-1] = H[i-1])
    BY <2>2, Zenon
  <2> QED  BY <2>1, <2>3, Zenon
<1>8. F = [i \in 1..Len(s) |-> IF i = 1 THEN s[i] ELSE F[i-1] \o s[i]]
  BY <1>7
<1> QED  BY <1>8 DEF Flat

\* What is flattened of a beginning does not depend on the rest.
LEMMA FlatAgree ==
    ASSUME NEW S, NEW s \in Seq(Seq(S)), NEW t \in Seq(Seq(S)), Len(s) <= Len(t),
           \A i \in 1..Len(s) : s[i] = t[i],
           NEW F, Flat(F, s), NEW G, Flat(G, t)
    PROVE  \A i \in 1..Len(s) : F[i] = G[i] /\ F[i] \in Seq(S)
<1> DEFINE Bad == {i \in 1..Len(s) : ~(F[i] = G[i] /\ F[i] \in Seq(S))}
<1>1. SUFFICES ASSUME Bad # {}  PROVE FALSE
  OBVIOUS
<1>2. Bad \subseteq Nat /\ Len(s) \in Nat /\ Len(t) \in Nat
  OBVIOUS
<1>3. PICK i \in Bad : \A k \in Bad : i <= k
  BY <1>1, <1>2, LeastNatural
<1>4. i \in 1..Len(s) /\ i \in 1..Len(t) /\ i \in Nat
  BY <1>2
<1>5. s[i] = t[i] /\ s[i] \in Seq(S)
  BY <1>4
<1>6. /\ F[i] = IF i = 1 THEN s[i] ELSE F[i-1] \o s[i]
      /\ G[i] = IF i = 1 THEN t[i] ELSE G[i-1] \o t[i]
  BY <1>4 DEF Flat
<1>7. CASE i = 1
  BY <1>5, <1>6, <1>7
<1>8. CASE i # 1
  <2>1. i - 1 \in 1..Len(s) /\ ~(i <= i - 1)
    BY <1>4, <1>8
  <2>2. F[i-1] = G[i-1] /\ F[i-1] \in Seq(S)
    BY <1>3, <2>1
  <2>3. F[i-1] \o s[i] \in Seq(S)
    BY <1>5, <2>2
  <2> QED  BY <1>5, <1>6, <1>8, <2>2, <2>3
<1> QED  BY <1>7, <1>8

LEMMA FlattenIsFlat ==
    ASSUME NEW S, NEW s \in Seq(Seq(S)), Len(s) # 0
    PROVE  \E F : Flat(F, s) /\ FlattenSeq(s) = F[Len(s)]
<1>1. \E F : F = [i \in 1..Len(s) |-> IF i = 1 THEN s[i] ELSE F[i-1] \o s[i]]
  BY FlatExists DEF Flat
<1>2. PICK F : /\ F = [i \in 1..Len(s) |-> IF i = 1 THEN s[i] ELSE F[i-1] \o s[i]]
               /\ FlattenSeq(s) = F[Len(s)]
  BY <1>1, Zenon DEF FlattenSeq
<1> QED  BY <1>2 DEF Flat

\* A sequence of sequences is flattened to one sequence, and one that is added
\* comes last.
LEMMA FlattenOneMore ==
    ASSUME NEW S, NEW s \in Seq(Seq(S)), NEW x \in Seq(S)
    PROVE  /\ FlattenSeq(s) \in Seq(S)
           /\ FlattenSeq(Append(s, x)) = FlattenSeq(s) \o x
<1> DEFINE t == Append(s, x)
           n == Len(s)
<1>1. /\ n \in Nat /\ t \in Seq(Seq(S)) /\ Len(t) = n + 1 /\ t[n + 1] = x
      /\ \A i \in 1..n : s[i] = t[i]
  OBVIOUS
<1> HIDE DEF t
<1>2. PICK G : Flat(G, t) /\ FlattenSeq(t) = G[n + 1]
  <2>1. Len(t) # 0
    BY <1>1
  <2>2. \E G : Flat(G, t) /\ FlattenSeq(t) = G[Len(t)]
    BY <1>1, <2>1, FlattenIsFlat, Zenon
  <2> QED  BY <1>1, <2>2, Zenon
<1>3. G[n + 1] = IF n + 1 = 1 THEN x ELSE G[n] \o x
  <2>1. n + 1 \in 1..Len(t) /\ (n + 1) - 1 = n
    BY <1>1
  <2>2. G[n + 1] = IF n + 1 = 1 THEN t[n + 1] ELSE G[(n + 1) - 1] \o t[n + 1]
    BY <1>2, <2>1, Zenon DEF Flat
  <2> QED  BY <1>1, <2>1, <2>2, Zenon
<1>4. CASE n = 0
  <2>1. s = <<>>
    BY <1>4
  <2>2. FlattenSeq(s) = <<>>
    BY <2>1, <1>4, Zenon DEF FlattenSeq
  <2>3. FlattenSeq(t) = x
    BY <1>2, <1>3, <1>4
  <2>4. <<>> \o x = x /\ <<>> \in Seq(S)
    OBVIOUS
  <2> QED  BY <2>2, <2>3, <2>4 DEF t
<1>5. CASE n # 0
  <2>1. PICK F : Flat(F, s) /\ FlattenSeq(s) = F[n]
    BY <1>5, FlattenIsFlat
  <2>2. \A i \in 1..n : F[i] = G[i] /\ F[i] \in Seq(S)
    <3>1. Len(s) <= Len(t)
      BY <1>1
    <3> QED  BY <1>1, <1>2, <2>1, <3>1, FlatAgree
  <2>3. n \in 1..n /\ n + 1 # 1
    BY <1>1, <1>5
  <2>4. FlattenSeq(t) = F[n] \o x
    BY <1>2, <1>3, <2>2, <2>3
  <2> QED  BY <2>1, <2>2, <2>3, <2>4 DEF t
<1> QED  BY <1>4, <1>5

-----------------------------------------------------------------------------
\* One more number is added to a sum.
LEMMA SumOfOneMore ==
    ASSUME NEW n \in Nat, NEW f, NEW g, DOMAIN f = 1..n, DOMAIN g = 1..n+1,
           \A i \in 1..n : f[i] \in Int /\ g[i] = f[i], g[n + 1] \in Int
    PROVE  /\ SumFunction(f) \in Int
           /\ SumFunction(g) = SumFunction(f) + g[n + 1]
<1> DEFINE D == 1..n
           b == n + 1
<1>1. IsFiniteSet(D) /\ b \notin D /\ 1..n+1 = D \cup {b}
  <2>1. 1..n+1 = D \cup {b} /\ b \notin D
    OBVIOUS
  <2> QED  BY <2>1, FS_Interval
<1>2. /\ \A i \in D : f[i] \in Int
      /\ \A i \in D : g[i] = f[i]
      /\ g[b] \in Int /\ DOMAIN f = D /\ DOMAIN g = D \cup {b}
  BY <1>1
<1> HIDE DEF D, b
<1>3. SumFunctionOnSet(g, D \cup {b}) = SumFunctionOnSet(f, D) + g[b]
  BY <1>1, <1>2, SumExtends, SMTT(30)
<1>4. SumFunctionOnSet(f, D) \in Int
  BY <1>1, <1>2, SumType
<1> QED  BY <1>2, <1>3, <1>4 DEF SumFunction, b

\* Moving the first of the rest behind what comes before it changes nothing.
LEMMA MoveFirst ==
    ASSUME NEW S, NEW c \in Seq(S), NEW r \in Seq(S), r # <<>>
    PROVE  Append(c, Head(r)) \o Tail(r) = c \o r
<1>1. /\ Head(r) \in S /\ Tail(r) \in Seq(S) /\ <<Head(r)>> \in Seq(S)
      /\ <<Head(r)>> \o Tail(r) = r
  OBVIOUS
<1>2. Append(c, Head(r)) = c \o <<Head(r)>>
  BY <1>1, AppendIsConcat
<1>3. (c \o <<Head(r)>>) \o Tail(r) = c \o (<<Head(r)>> \o Tail(r))
  BY <1>1, ConcatAssociative
<1> QED  BY <1>1, <1>2, <1>3

\* The first of the rest gives way to two.
LEMMA SplitFirst ==
    ASSUME NEW S, NEW f \in Seq(S), NEW r \in Seq(S), r # <<>>, NEW a \in S, NEW b \in S
    PROVE  LET s == f \o r
               u == Append(f, a) \o (<<b>> \o Tail(r))
               p == Len(f) + 1
           IN  /\ s \in Seq(S) /\ u \in Seq(S) /\ p \in 1..Len(s)
               /\ Len(s) = Len(f) + Len(r) /\ Len(u) = Len(s) + 1
               /\ s[p] = Head(r) /\ u[p] = a /\ u[p + 1] = b
               /\ \A i \in 1..p - 1 : u[i] = s[i]
               /\ \A i \in p + 2..Len(s) + 1 : u[i] = s[i - 1]
               /\ \A i \in 2..Len(r) : s[p + i - 1] = r[i]
<1> DEFINE s == f \o r
           v == <<b>> \o Tail(r)
           e == Append(f, a)
           u == e \o v
           p == Len(f) + 1
<1>1. /\ Len(f) \in Nat /\ Len(r) \in Nat \ {0} /\ Tail(r) \in Seq(S)
      /\ Len(Tail(r)) = Len(r) - 1 /\ Head(r) = r[1]
      /\ \A i \in 1..Len(r) - 1 : Tail(r)[i] = r[i + 1]
  OBVIOUS
<1>2. /\ v \in Seq(S) /\ Len(v) = Len(r) /\ v[1] = b
      /\ \A i \in 2..Len(r) : v[i] = r[i]
  <2>1. /\ <<b>> \in Seq(S) /\ Len(<<b>>) = 1 /\ <<b>>[1] = b
    OBVIOUS
  <2>2. /\ v \in Seq(S) /\ Len(v) = 1 + Len(Tail(r))
        /\ \A i \in 1..1 + Len(Tail(r)) : v[i] = IF i <= 1 THEN <<b>>[i] ELSE Tail(r)[i - 1]
    BY <1>1, <2>1, ConcatProperties
  <2> HIDE DEF v
  <2>3. ASSUME NEW i \in 2..Len(r)  PROVE v[i] = r[i]
    <3>1. i - 1 \in 1..Len(r) - 1 /\ (i - 1) + 1 = i /\ i \in 1..1 + Len(Tail(r)) /\ ~(i <= 1)
      BY <1>1
    <3> QED  BY <1>1, <2>2, <3>1
  <2>4. 1 \in 1..1 + Len(Tail(r))
    BY <1>1
  <2> QED  BY <1>1, <2>1, <2>2, <2>3, <2>4
<1>3. /\ s \in Seq(S) /\ Len(s) = Len(f) + Len(r)
      /\ \A i \in 1..Len(f) + Len(r) : s[i] = IF i <= Len(f) THEN f[i] ELSE r[i - Len(f)]
  BY ConcatProperties
<1>4. /\ e \in Seq(S) /\ Len(e) = Len(f) + 1 /\ e[Len(f) + 1] = a
      /\ \A i \in 1..Len(f) : e[i] = f[i]
  OBVIOUS
<1> HIDE DEF e, v
<1>5. /\ u \in Seq(S) /\ Len(u) = Len(e) + Len(v)
      /\ \A i \in 1..Len(e) + Len(v) : u[i] = IF i <= Len(e) THEN e[i] ELSE v[i - Len(e)]
  <2>1. e \in Seq(S) /\ v \in Seq(S)
    BY <1>2, <1>4
  <2> QED  BY <2>1, ConcatProperties, Zenon
<1> HIDE DEF s, u
<1>6. p \in 1..Len(s) /\ Len(u) = Len(s) + 1
  BY <1>1, <1>2, <1>3, <1>4, <1>5
<1>7. s[p] = r[1] /\ u[p] = a /\ u[p + 1] = b
  BY <1>1, <1>2, <1>3, <1>4, <1>5
<1>8. ASSUME NEW i \in 1..p - 1  PROVE u[i] = s[i]
  <2>1. /\ i \in 1..Len(f) /\ i <= Len(f) /\ i <= Len(e)
        /\ i \in 1..Len(f) + Len(r) /\ i \in 1..Len(e) + Len(v)
    BY <1>1, <1>2, <1>4
  <2> QED  BY <1>3, <1>4, <1>5, <2>1
<1>9. ASSUME NEW i \in p + 2..Len(s) + 1  PROVE u[i] = s[i - 1]
  <2> DEFINE j == i - 1 - Len(f)
  <2>1. i \in Int /\ i >= Len(f) + 3 /\ i <= Len(f) + Len(r) + 1
    BY <1>1, <1>3
  <2>2. /\ j \in 2..Len(r) /\ i - Len(e) = j /\ ~(i <= Len(e)) /\ i \in 1..Len(e) + Len(v)
        /\ i - 1 \in 1..Len(f) + Len(r) /\ ~(i - 1 <= Len(f)) /\ (i - 1) - Len(f) = j
    BY <1>1, <1>2, <1>4, <2>1
  <2> HIDE DEF j
  <2>3. u[i] = v[j] /\ s[i - 1] = r[j] /\ v[j] = r[j]
    BY <1>2, <1>3, <1>5, <2>2
  <2> QED  BY <2>3
<1>10. ASSUME NEW i \in 2..Len(r)  PROVE s[p + i - 1] = r[i]
  <2>1. /\ p + i - 1 \in 1..Len(f) + Len(r) /\ ~(p + i - 1 <= Len(f))
        /\ (p + i - 1) - Len(f) = i
    BY <1>1
  <2> QED  BY <1>3, <2>1
<1>11. s \in Seq(S) /\ u \in Seq(S) /\ Len(s) = Len(f) + Len(r)
  BY <1>3, <1>5
<1>12. s[p] = Head(r)
  BY <1>1, <1>7
<1> QED  BY <1>6, <1>7, <1>8, <1>9, <1>10, <1>11, <1>12 DEF s, u, e, v
=============================================================================
