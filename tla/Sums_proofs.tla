----------------------------- MODULE Sums_proofs -----------------------------
(***************************************************************************)
(* Sums over finite sets.  MapThenSumSet is a recursive function over the   *)
(* subsets of its set, taking an element that CHOOSE gives: that there is   *)
(* such a function, and that its value does not depend on the elements it   *)
(* takes first, follow by induction over the size of the set, in which the  *)
(* sizes that are right are a set of naturals.  At the end, by the same     *)
(* induction: a finite set has a least element in any total order, and can  *)
(* be listed in that order.                                                 *)
(***************************************************************************)
EXTENDS Integers, FiniteSetsExt, FiniteSetTheorems, WellFoundedInduction, TLAPS

LEMMA LessOnNat == \A m, n \in Nat : m < n <=> <<m, n>> \in OpToRel(<, Nat)
  BY DEF OpToRel

\* Induction over the naturals, for a set instead of a predicate.
LEMMA NatStep ==
    ASSUME NEW T \in SUBSET Nat, 0 \in T, \A n \in T : n + 1 \in T
    PROVE  T = Nat
<1> SUFFICES ASSUME Nat \ T # {} PROVE FALSE
  OBVIOUS
<1>1. \E m \in Nat \ T : \A k \in Nat \ T : ~(<<k, m>> \in OpToRel(<, Nat))
  BY NatLessThanWellFounded, WFMin
<1>2. PICK m \in Nat \ T : \A k \in Nat \ T : ~(k < m)
  BY <1>1, LessOnNat
<1>3. m - 1 \in Nat /\ m - 1 < m
  BY <1>2
<1>4. m - 1 \in T
  BY <1>2, <1>3
<1> QED
  BY <1>2, <1>4

AnyOf(s) == CHOOSE x \in s : TRUE

\* The recursion MapThenSumSet folds with, for a function and the subsets of S with
\* at most n elements.
UpTo(S, n) == {s \in SUBSET S : Cardinality(s) <= n}
IsFold(it, g, D) ==
    it = [s \in D |-> IF s = {} THEN 0 ELSE g[AnyOf(s)] + it[s \ {AnyOf(s)}]]
Folds(it, g, S) == IsFold(it, g, SUBSET S)

\* The sum of a function's values over S.
Sum(g, S) == MapThenSumSet(LAMBDA x : g[x], S)

LEMMA SmallerSet ==
    ASSUME NEW S, IsFiniteSet(S), NEW s \in SUBSET S, s # {}
    PROVE  /\ AnyOf(s) \in s /\ s \ {AnyOf(s)} \in SUBSET S
           /\ Cardinality(s) \in Nat /\ Cardinality(s \ {AnyOf(s)}) = Cardinality(s) - 1
<1>1. AnyOf(s) \in s
  BY DEF AnyOf
<1>2. IsFiniteSet(s)
  BY FS_Subset
<1>3. Cardinality(s) \in Nat /\ Cardinality(s \ {AnyOf(s)}) = Cardinality(s) - 1
  BY <1>1, <1>2, FS_CardinalityType, FS_RemoveElement
<1> QED
  BY <1>1, <1>3

\* There is such a function on every finite set.
LEMMA FoldExists ==
    ASSUME NEW S, IsFiniteSet(S), NEW g
    PROVE  \E it : IsFold(it, g, SUBSET S)
<1> DEFINE T == {n \in Nat : \E it : IsFold(it, g, UpTo(S, n))}
<1>1. 0 \in T
  <2> DEFINE z == [s \in UpTo(S, 0) |-> 0]
  <2>1. \A s \in UpTo(S, 0) : s = {}
    <3> SUFFICES ASSUME NEW s \in SUBSET S, Cardinality(s) <= 0, s # {} PROVE FALSE
      BY DEF UpTo
    <3>1. Cardinality(s) \in Nat /\ Cardinality(s \ {AnyOf(s)}) = Cardinality(s) - 1
      BY SmallerSet
    <3>2. s \ {AnyOf(s)} \in SUBSET S /\ IsFiniteSet(s \ {AnyOf(s)})
      BY FS_Subset
    <3>3. Cardinality(s \ {AnyOf(s)}) \in Nat
      BY <3>2, FS_CardinalityType
    <3> QED
      BY <3>1, <3>3
  <2>2. IsFold(z, g, UpTo(S, 0))
    BY <2>1 DEF IsFold
  <2> QED
    BY <2>2
<1>2. ASSUME NEW n \in T PROVE n + 1 \in T
  <2>1. PICK it : IsFold(it, g, UpTo(S, n))
    BY <1>2
  <2> DEFINE nx == [s \in UpTo(S, n + 1) |->
                      IF s = {} THEN 0 ELSE g[AnyOf(s)] + it[s \ {AnyOf(s)}]]
  <2>2. ASSUME NEW s \in UpTo(S, n)
        PROVE  s \in UpTo(S, n + 1) /\ nx[s] = it[s]
    <3>1. s \in SUBSET S /\ Cardinality(s) <= n /\ Cardinality(s) \in Nat
      BY FS_Subset, FS_CardinalityType DEF UpTo
    <3>2. s \in UpTo(S, n + 1)
      BY <3>1 DEF UpTo
    <3>3. it[s] = IF s = {} THEN 0 ELSE g[AnyOf(s)] + it[s \ {AnyOf(s)}]
      BY <2>1 DEF IsFold
    <3> QED
      BY <3>2, <3>3
  <2>3. ASSUME NEW s \in UpTo(S, n + 1), s # {}
        PROVE  nx[s] = g[AnyOf(s)] + nx[s \ {AnyOf(s)}]
    <3>1. s \ {AnyOf(s)} \in UpTo(S, n)
      BY <2>3, SmallerSet DEF UpTo
    <3> QED
      BY <2>2, <2>3, <3>1
  <2>4. \A s \in UpTo(S, n + 1) : s = {} => nx[s] = 0
    OBVIOUS
  <2> HIDE DEF nx
  <2>5. nx = [s \in UpTo(S, n + 1) |-> nx[s]]
    BY DEF nx
  <2>6. IsFold(nx, g, UpTo(S, n + 1))
    BY <2>3, <2>4, <2>5 DEF IsFold
  <2> QED
    BY <2>6
<1>3. T = Nat
  <2> HIDE DEF T
  <2>1. T \in SUBSET Nat
    BY DEF T
  <2> QED
    BY <1>1, <1>2, <2>1, NatStep
<1>4. Cardinality(S) \in T
  BY <1>3, FS_CardinalityType
<1>5. UpTo(S, Cardinality(S)) = SUBSET S
  BY FS_Subset DEF UpTo
<1> QED
  BY <1>4, <1>5

LEMMA SumIsFold ==
    ASSUME NEW S, IsFiniteSet(S), NEW g
    PROVE  \E it : Folds(it, g, S) /\ Sum(g, S) = it[S]
<1> DEFINE D(i) == [s \in SUBSET S |-> IF s = {} THEN 0
                      ELSE g[CHOOSE x \in s : TRUE] + i[s \ {CHOOSE x \in s : TRUE}]]
           it == CHOOSE i : i = D(i)
<1>1. Sum(g, S) = it[S]
  BY DEF Sum, MapThenSumSet, MapThenFoldSet
<1>2. \A i : i = D(i) <=> Folds(i, g, S)
  BY DEF Folds, IsFold, AnyOf
<1>3. \E i : i = D(i)
  BY <1>2, FoldExists, ZenonT(60) DEF Folds
<1>4. it = D(it)
  BY <1>3
<1> HIDE DEF it
<1>5. Folds(it, g, S)
  BY <1>2, <1>4
<1> QED
  BY <1>1, <1>5

\* It is one function, whatever set it is a part of.
LEMMA FoldUnique ==
    ASSUME NEW S, NEW g, NEW it, IsFiniteSet(S), Folds(it, g, S)
    PROVE  \A s \in SUBSET S : it[s] = Sum(g, s)
<1> SUFFICES ASSUME NEW s \in SUBSET S PROVE it[s] = Sum(g, s)
  OBVIOUS
<1>1. PICK jt : Folds(jt, g, s) /\ Sum(g, s) = jt[s]
  BY SumIsFold, FS_Subset
<1> DEFINE T == {n \in Nat : \A t \in SUBSET s : Cardinality(t) = n => it[t] = jt[t]}
<1>2. /\ \A t \in SUBSET s : it[t] = IF t = {} THEN 0 ELSE g[AnyOf(t)] + it[t \ {AnyOf(t)}]
      /\ \A t \in SUBSET s : jt[t] = IF t = {} THEN 0 ELSE g[AnyOf(t)] + jt[t \ {AnyOf(t)}]
  <2>1. \A t \in SUBSET S : it[t] = IF t = {} THEN 0 ELSE g[AnyOf(t)] + it[t \ {AnyOf(t)}]
    BY DEF Folds, IsFold
  <2>2. \A t \in SUBSET s : jt[t] = IF t = {} THEN 0 ELSE g[AnyOf(t)] + jt[t \ {AnyOf(t)}]
    BY <1>1 DEF Folds, IsFold
  <2>3. SUBSET s \subseteq SUBSET S
    OBVIOUS
  <2> QED
    BY <2>1, <2>2, <2>3
<1>3. IsFiniteSet(s)
  BY FS_Subset
<1>4. 0 \in T
  <2> SUFFICES ASSUME NEW t \in SUBSET s, Cardinality(t) = 0 PROVE it[t] = jt[t]
    OBVIOUS
  <2>1. t = {}
    BY <1>3, FS_Subset, FS_EmptySet
  <2> QED
    BY <1>2, <2>1
<1>5. ASSUME NEW n \in T PROVE n + 1 \in T
  <2> SUFFICES ASSUME NEW t \in SUBSET s, Cardinality(t) = n + 1 PROVE it[t] = jt[t]
    BY <1>5
  <2>1. n \in Nat
    BY <1>5
  <2>2. t # {}
    <3> SUFFICES ASSUME t = {} PROVE FALSE
      OBVIOUS
    <3> QED
      BY <2>1, FS_EmptySet
  <2>3. t \ {AnyOf(t)} \in SUBSET s /\ Cardinality(t \ {AnyOf(t)}) = n
    <3> HIDE DEF T
    <3>1. /\ t \ {AnyOf(t)} \in SUBSET s
          /\ Cardinality(t \ {AnyOf(t)}) = Cardinality(t) - 1
      BY ONLY <1>3, t \in SUBSET s, <2>2, SmallerSet
    <3> QED
      BY <2>1, <3>1
  <2>4. it[t \ {AnyOf(t)}] = jt[t \ {AnyOf(t)}]
    BY <1>5, <2>3
  <2> QED
    BY <1>2, <2>2, <2>4
<1>6. T = Nat
  <2> HIDE DEF T
  <2>1. T \in SUBSET Nat
    BY DEF T
  <2> QED
    BY <1>4, <1>5, <2>1, NatStep
<1>7. Cardinality(s) \in T
  BY <1>3, <1>6, FS_CardinalityType
<1> QED
  BY <1>1, <1>7

LEMMA SumEmpty == \A g : Sum(g, {}) = 0
<1> SUFFICES ASSUME NEW g PROVE Sum(g, {}) = 0
  OBVIOUS
<1>1. PICK it : Folds(it, g, {}) /\ Sum(g, {}) = it[{}]
  BY SumIsFold, FS_EmptySet
<1>2. \A s \in SUBSET {} : it[s] = IF s = {} THEN 0 ELSE g[AnyOf(s)] + it[s \ {AnyOf(s)}]
  BY <1>1 DEF Folds, IsFold
<1> QED
  BY <1>1, <1>2

LEMMA SumFirst ==
    ASSUME NEW S, IsFiniteSet(S), S # {}, NEW g
    PROVE  Sum(g, S) = g[AnyOf(S)] + Sum(g, S \ {AnyOf(S)})
<1>1. PICK it : Folds(it, g, S) /\ Sum(g, S) = it[S]
  BY SumIsFold
<1>2. \A s \in SUBSET S : it[s] = IF s = {} THEN 0 ELSE g[AnyOf(s)] + it[s \ {AnyOf(s)}]
  BY <1>1 DEF Folds, IsFold
<1>3. it[S] = g[AnyOf(S)] + it[S \ {AnyOf(S)}]
  BY <1>2
<1>4. it[S \ {AnyOf(S)}] = Sum(g, S \ {AnyOf(S)})
  <2>1. S \ {AnyOf(S)} \in SUBSET S
    OBVIOUS
  <2>2. \A s \in SUBSET S : it[s] = Sum(g, s)
    BY <1>1, FoldUnique
  <2> QED
    BY <2>1, <2>2
<1> QED
  BY <1>1, <1>3, <1>4

\* A property of the sums over all subsets of a finite set, by induction: the sizes
\* for which it holds are all sizes.
LEMMA AllSizes ==
    ASSUME NEW S, IsFiniteSet(S), NEW Good \in SUBSET (SUBSET S), {} \in Good,
           \A s \in SUBSET S : s # {} /\ (\A x \in s : s \ {x} \in Good) => s \in Good
    PROVE  S \in Good
<1> DEFINE T == {n \in Nat : \A s \in SUBSET S : Cardinality(s) = n => s \in Good}
<1>1. 0 \in T
  <2> SUFFICES ASSUME NEW s \in SUBSET S, Cardinality(s) = 0 PROVE s \in Good
    OBVIOUS
  <2>1. s = {}
    BY FS_Subset, FS_EmptySet
  <2> QED
    BY <2>1
<1>2. ASSUME NEW n \in T PROVE n + 1 \in T
  <2> SUFFICES ASSUME NEW s \in SUBSET S, Cardinality(s) = n + 1 PROVE s \in Good
    BY <1>2
  <2>0. n \in Nat
    BY <1>2
  <2>1. s # {}
    BY <2>0, FS_EmptySet
  <2>2. ASSUME NEW x \in s PROVE s \ {x} \in Good
    <3>1. IsFiniteSet(s) /\ s \ {x} \in SUBSET S
      BY FS_Subset
    <3>2. Cardinality(s \ {x}) = Cardinality(s) - 1
      BY <3>1, FS_RemoveElement
    <3>3. Cardinality(s \ {x}) = n
      BY <2>0, <3>2
    <3> QED
      BY <1>2, <3>1, <3>3
  <2> QED
    BY <2>1, <2>2
<1>3. T = Nat
  <2> HIDE DEF T
  <2>1. T \in SUBSET Nat
    BY DEF T
  <2> QED
    BY <1>1, <1>2, <2>1, NatStep
<1> QED
  BY <1>3, FS_CardinalityType

LEMMA SumInt ==
    ASSUME NEW S, IsFiniteSet(S), NEW g, \A x \in S : g[x] \in Int
    PROVE  Sum(g, S) \in Int
<1> DEFINE Good == {s \in SUBSET S : Sum(g, s) \in Int}
<1>1. {} \in Good
  BY SumEmpty
<1>2. ASSUME NEW s \in SUBSET S, s # {}, \A x \in s : s \ {x} \in Good PROVE s \in Good
  <2>1. IsFiniteSet(s) /\ AnyOf(s) \in s
    BY <1>2, FS_Subset DEF AnyOf
  <2>2. Sum(g, s) = g[AnyOf(s)] + Sum(g, s \ {AnyOf(s)})
    BY <1>2, <2>1, SumFirst
  <2>3. Sum(g, s \ {AnyOf(s)}) \in Int /\ g[AnyOf(s)] \in Int
    BY <1>2, <2>1
  <2> QED
    BY <2>2, <2>3
<1> HIDE DEF Good
<1>3. S \in Good
  <2>1. Good \in SUBSET (SUBSET S)
    BY DEF Good
  <2> QED
    BY <1>1, <1>2, <2>1, AllSizes
<1> QED
  BY <1>3 DEF Good

\* Any element may be taken first.
LEMMA SumRemove ==
    ASSUME NEW S, IsFiniteSet(S), NEW g, \A x \in S : g[x] \in Int
    PROVE  \A x \in S : Sum(g, S) = g[x] + Sum(g, S \ {x})
<1> DEFINE Good == {s \in SUBSET S : \A x \in s : Sum(g, s) = g[x] + Sum(g, s \ {x})}
<1>1. {} \in Good
  OBVIOUS
<1>2. ASSUME NEW s \in SUBSET S, s # {}, \A x \in s : s \ {x} \in Good PROVE s \in Good
  <2> SUFFICES ASSUME NEW x \in s PROVE Sum(g, s) = g[x] + Sum(g, s \ {x})
    OBVIOUS
  <2>1. PICK y \in s : y = AnyOf(s)
    BY DEF AnyOf
  <2>2. IsFiniteSet(s)
    BY FS_Subset
  <2>3. Sum(g, s) = g[y] + Sum(g, s \ {y})
    BY <2>1, <2>2, SumFirst
  <2>4. CASE x = y
    BY <2>3, <2>4
  <2>5. CASE x # y
    <3>1. PICK r \in SUBSET s : r = (s \ {y}) \ {x} /\ r = (s \ {x}) \ {y}
      OBVIOUS
    <3>2. Sum(g, s \ {y}) = g[x] + Sum(g, r)
      BY <1>2, <2>5, <3>1
    <3>3. Sum(g, s \ {x}) = g[y] + Sum(g, r)
      BY <1>2, <2>5, <3>1
    <3>4. PICK rest \in Int : rest = Sum(g, r)
      BY <2>2, FS_Subset, SumInt
    <3>5. g[x] \in Int /\ g[y] \in Int
      OBVIOUS
    <3>6. g[y] + (g[x] + rest) = g[x] + (g[y] + rest)
      BY <3>5
    <3> QED
      BY <2>3, <3>2, <3>3, <3>4, <3>6
  <2> QED
    BY <2>4, <2>5
<1> HIDE DEF Good
<1>3. S \in Good
  <2>1. Good \in SUBSET (SUBSET S)
    BY DEF Good
  <2> QED
    BY <1>1, <1>2, <2>1, AllSizes
<1> QED
  BY <1>3 DEF Good

\* Only the values on S count.
LEMMA SumAlike ==
    ASSUME NEW S, NEW g, NEW h, \A x \in S : g[x] = h[x]
    PROVE  Sum(g, S) = Sum(h, S)
<1> DEFINE D(f, it) == [s \in SUBSET S |-> IF s = {} THEN 0
                          ELSE f[CHOOSE x \in s : TRUE] + it[s \ {CHOOSE x \in s : TRUE}]]
<1>1. \A it : D(g, it) = D(h, it)
  OBVIOUS
<1>2. /\ Sum(g, S) = (CHOOSE it : it = D(g, it))[S]
      /\ Sum(h, S) = (CHOOSE it : it = D(h, it))[S]
  BY DEF Sum, MapThenSumSet, MapThenFoldSet
<1> HIDE DEF D
<1>3. (CHOOSE it : it = D(g, it)) = (CHOOSE it : it = D(h, it))
  BY <1>1, Zenon
<1> QED
  BY <1>2, <1>3

\* One more element, or another value for one.
LEMMA SumAdd ==
    ASSUME NEW S, IsFiniteSet(S), NEW x, x \notin S, NEW g,
           \A y \in S \cup {x} : g[y] \in Int
    PROVE  Sum(g, S \cup {x}) = Sum(g, S) + g[x]
<1>1. IsFiniteSet(S \cup {x}) /\ (S \cup {x}) \ {x} = S
  BY FS_AddElement
<1>2. Sum(g, S \cup {x}) = g[x] + Sum(g, S)
  BY <1>1, SumRemove
<1>3. Sum(g, S) \in Int /\ g[x] \in Int
  BY SumInt
<1> QED
  BY <1>2, <1>3

LEMMA SumChange ==
    ASSUME NEW S, IsFiniteSet(S), NEW x \in S, NEW g, NEW h,
           \A y \in S : g[y] \in Int /\ h[y] \in Int,
           \A y \in S \ {x} : h[y] = g[y]
    PROVE  Sum(h, S) - h[x] = Sum(g, S) - g[x]
<1>1. Sum(g, S) = g[x] + Sum(g, S \ {x}) /\ Sum(h, S) = h[x] + Sum(h, S \ {x})
  BY SumRemove
<1>2. Sum(g, S \ {x}) = Sum(h, S \ {x})
  BY SumAlike
<1>3. Sum(g, S \ {x}) \in Int
  BY FS_RemoveElement, SumInt
<1> QED
  BY <1>1, <1>2, <1>3

\* Of naturals it is a natural, and nothing only if they all are.
LEMMA SumNat ==
    ASSUME NEW S, IsFiniteSet(S), NEW g, \A x \in S : g[x] \in Nat
    PROVE  /\ Sum(g, S) \in Nat
           /\ Sum(g, S) = 0 => \A x \in S : g[x] = 0
<1> DEFINE Good == {s \in SUBSET S : Sum(g, s) \in Nat}
<1>1. {} \in Good
  BY SumEmpty
<1>2. ASSUME NEW s \in SUBSET S, s # {}, \A x \in s : s \ {x} \in Good PROVE s \in Good
  <2>1. IsFiniteSet(s) /\ AnyOf(s) \in s
    BY <1>2, FS_Subset DEF AnyOf
  <2>2. Sum(g, s) = g[AnyOf(s)] + Sum(g, s \ {AnyOf(s)})
    BY <1>2, <2>1, SumFirst
  <2>3. Sum(g, s \ {AnyOf(s)}) \in Nat /\ g[AnyOf(s)] \in Nat
    BY <1>2, <2>1
  <2> QED
    BY <2>2, <2>3
<1> HIDE DEF Good
<1>3. \A s \in SUBSET S : Sum(g, s) \in Nat
  <2> SUFFICES ASSUME NEW t \in SUBSET S PROVE t \in Good
    BY DEF Good
  <2> DEFINE G == Good \cap SUBSET t
  <2>1. G \in SUBSET (SUBSET t) /\ {} \in G
    BY <1>1
  <2>2. \A s \in SUBSET t : s # {} /\ (\A x \in s : s \ {x} \in G) => s \in G
    BY <1>2
  <2>3. IsFiniteSet(t)
    BY FS_Subset
  <2> HIDE DEF G
  <2>4. t \in G
    BY <2>1, <2>2, <2>3, AllSizes
  <2> QED
    BY <2>4 DEF G
<1>4. ASSUME NEW x \in S, Sum(g, S) = 0 PROVE g[x] = 0
  <2>1. Sum(g, S) = g[x] + Sum(g, S \ {x})
    BY SumRemove
  <2>2. Sum(g, S \ {x}) \in Nat /\ g[x] \in Nat
    BY <1>3
  <2> QED
    BY <1>4, <2>1, <2>2
<1> QED
  BY <1>3, <1>4

\* Zeros do not count.
LEMMA SumZeros ==
    ASSUME NEW S, IsFiniteSet(S), NEW Z, IsFiniteSet(Z), S \cap Z = {}, NEW g,
           \A x \in S : g[x] \in Int, \A x \in Z : g[x] = 0
    PROVE  Sum(g, S \cup Z) = Sum(g, S)
<1> DEFINE Good == {z \in SUBSET Z : Sum(g, S \cup z) = Sum(g, S)}
<1>1. {} \in Good
  <2>1. S \cup {} = S
    OBVIOUS
  <2> QED
    BY <2>1
<1>2. ASSUME NEW z \in SUBSET Z, z # {}, \A x \in z : z \ {x} \in Good PROVE z \in Good
  <2>1. PICK x \in z : TRUE
    BY <1>2
  <2>2. PICK T : T = S \cup (z \ {x})
    OBVIOUS
  <2>3. IsFiniteSet(T) /\ x \notin T /\ S \cup z = T \cup {x}
    BY <2>1, <2>2, FS_Subset, FS_Union
  <2>4. \A y \in T \cup {x} : g[y] \in Int
    BY <2>2
  <2>5. Sum(g, T \cup {x}) = Sum(g, T) + g[x]
    BY <2>3, <2>4, SumAdd
  <2>6. Sum(g, T) = Sum(g, S) /\ g[x] = 0 /\ Sum(g, S) \in Int
    BY <1>2, <2>2, SumInt
  <2> QED
    BY <2>3, <2>5, <2>6
<1> HIDE DEF Good
<1>3. Z \in Good
  <2>1. Good \in SUBSET (SUBSET Z)
    BY DEF Good
  <2> QED
    BY <1>1, <1>2, <2>1, AllSizes
<1> QED
  BY <1>3 DEF Good

\* A finite set that a transitive relation orders completely has a least element.
LEMMA LeastIs ==
    ASSUME NEW S, IsFiniteSet(S), S # {}, NEW R,
           \A x \in S : \A y \in S : x # y => <<x, y>> \in R \/ <<y, x>> \in R,
           \A x \in S : \A y \in S : \A z \in S :
              <<x, y>> \in R /\ <<y, z>> \in R => <<x, z>> \in R
    PROVE  \E x \in S : \A y \in S \ {x} : <<x, y>> \in R
<1> DEFINE Least(x, s) == \A y \in s \ {x} : <<x, y>> \in R
           Good == {s \in SUBSET S : s = {} \/ \E x \in s : Least(x, s)}
<1>1. ASSUME NEW s \in SUBSET S, s # {}, \A x \in s : s \ {x} \in Good
      PROVE  s \in Good
  <2>1. PICK x \in s : s \ {x} \in Good
    BY <1>1
  <2>2. CASE s \ {x} = {}
    BY <2>1, <2>2
  <2>3. CASE s \ {x} # {}
    <3>1. PICK p \in s \ {x} : Least(p, s \ {x})
      BY <2>1, <2>3
    <3>2. x \in S /\ p \in S /\ s \subseteq S
      BY <2>1, <3>1
    <3>3. CASE <<p, x>> \in R
      <4>1. Least(p, s)
        BY <3>1, <3>3
      <4> QED
        BY <3>1, <4>1
    <3>4. CASE <<x, p>> \in R
      <4>1. Least(x, s)
        BY <3>1, <3>2, <3>4
      <4> QED
        BY <2>1, <4>1
    <3> QED
      BY <3>1, <3>2, <3>3, <3>4
  <2> QED
    BY <2>2, <2>3
<1>2. Good \in SUBSET (SUBSET S) /\ {} \in Good
  OBVIOUS
<1>3. \A s \in SUBSET S : s # {} /\ (\A x \in s : s \ {x} \in Good) => s \in Good
  BY <1>1
<1>4. S \in Good
  <2> HIDE DEF Good
  <2> QED
    BY <1>2, <1>3, AllSizes
<1> QED
  BY <1>4

\* So has every part of a finite set.
LEMMA LeastOfPart ==
    ASSUME NEW S, NEW R,
           \A x \in S : \A y \in S : x # y => <<x, y>> \in R \/ <<y, x>> \in R,
           \A x \in S : \A y \in S : \A z \in S :
              <<x, y>> \in R /\ <<y, z>> \in R => <<x, z>> \in R,
           NEW s \in SUBSET S, IsFiniteSet(s), s # {}
    PROVE  \E x \in s : \A y \in s \ {x} : <<x, y>> \in R
<1>1. \A x \in s : \A y \in s : x # y => <<x, y>> \in R \/ <<y, x>> \in R
  OBVIOUS
<1>2. \A x \in s : \A y \in s : \A z \in s :
         <<x, y>> \in R /\ <<y, z>> \in R => <<x, z>> \in R
  OBVIOUS
<1> QED
  BY <1>1, <1>2, LeastIs

\* A finite set can be listed in the order of a relation that orders it completely.
LEMMA OrderedList ==
    ASSUME NEW S, IsFiniteSet(S), NEW R,
           \A x \in S : \A y \in S : x # y => <<x, y>> \in R \/ <<y, x>> \in R,
           \A x \in S : \A y \in S : \A z \in S :
              <<x, y>> \in R /\ <<y, z>> \in R => <<x, z>> \in R
    PROVE  \E f \in [1..Cardinality(S) -> S] :
              /\ \A x \in S : \E i \in 1..Cardinality(S) : f[i] = x
              /\ \A i \in 1..Cardinality(S) : \A j \in 1..(i - 1) : <<f[j], f[i]>> \in R
<1> DEFINE Lists(f, s) ==
              /\ f \in [1..Cardinality(s) -> s]
              /\ \A x \in s : \E i \in 1..Cardinality(s) : f[i] = x
              /\ \A i \in 1..Cardinality(s) : \A j \in 1..(i - 1) : <<f[j], f[i]>> \in R
           Good == {s \in SUBSET S : \E f : Lists(f, s)}
<1>1. {} \in Good
  <2>1. Lists([i \in 1..0 |-> 0], {})
    BY FS_EmptySet
  <2> QED
    BY <2>1
<1>2. ASSUME NEW s \in SUBSET S, s # {}, \A x \in s : s \ {x} \in Good
      PROVE  s \in Good
  <2>1. IsFiniteSet(s)
    BY FS_Subset
  <2>2. PICK p \in s : \A y \in s \ {p} : <<p, y>> \in R
    <3> HIDE DEF Good, Lists
    <3>1. s # {}
      BY <1>2
    <3> QED
      BY <2>1, <3>1, LeastOfPart
  <2> DEFINE t == s \ {p}
             n == Cardinality(t)
  <2>3. n \in Nat /\ Cardinality(s) = n + 1
    <3>1. IsFiniteSet(t) /\ Cardinality(t) = Cardinality(s) - 1
      BY <2>1, FS_RemoveElement
    <3>2. Cardinality(s) \in Nat /\ Cardinality(t) \in Nat
      BY <2>1, <3>1, FS_CardinalityType
    <3> QED
      BY <3>1, <3>2
  <2>4. PICK f : Lists(f, t)
    BY <1>2
  <2> DEFINE g == [i \in 1..(n + 1) |-> IF i = 1 THEN p ELSE f[i - 1]]
  <2>5. /\ f \in [1..n -> t]
        /\ \A x \in t : \E i \in 1..n : f[i] = x
        /\ \A i \in 1..n : \A j \in 1..(i - 1) : <<f[j], f[i]>> \in R
    BY <2>4
  <2>6. t \subseteq s /\ p \in s /\ \A x \in s : x = p \/ x \in t
    OBVIOUS
  <2> HIDE DEF Lists, n, t
  <2>7. g \in [1..(n + 1) -> s]
    BY <2>3, <2>5, <2>6
  <2>8. ASSUME NEW x \in s PROVE \E i \in 1..(n + 1) : g[i] = x
    <3>1. CASE x = p
      <4>1. 1 \in 1..(n + 1) /\ g[1] = x
        BY <2>3, <3>1
      <4> QED
        BY <4>1
    <3>2. CASE x \in t
      <4>1. PICK i \in 1..n : f[i] = x
        BY <2>5, <3>2
      <4>2. i + 1 \in 1..(n + 1) /\ g[i + 1] = x
        BY <2>3, <4>1
      <4> QED
        BY <4>2
    <3> QED
      BY <2>6, <3>1, <3>2
  <2>9. ASSUME NEW i \in 1..(n + 1), NEW j \in 1..(i - 1)
        PROVE  <<g[j], g[i]>> \in R
    <3>1. i - 1 \in 1..n /\ g[i] = f[i - 1] /\ f[i - 1] \in t
      BY <2>3, <2>5
    <3>2. CASE j = 1
      BY <2>2, <2>3, <3>1, <3>2 DEF t
    <3>3. CASE j # 1
      <4>1. j - 1 \in 1..(i - 1 - 1) /\ g[j] = f[j - 1]
        BY <2>3, <3>3
      <4> QED
        BY <2>5, <3>1, <4>1
    <3> QED
      BY <3>2, <3>3
  <2> HIDE DEF g
  <2>10. Lists(g, s)
    BY <2>3, <2>7, <2>8, <2>9 DEF Lists
  <2> QED
    BY <2>10
<1>3. \A s \in SUBSET S : s # {} /\ (\A x \in s : s \ {x} \in Good) => s \in Good
  BY <1>2
<1>4. Good \in SUBSET (SUBSET S)
  OBVIOUS
<1>5. S \in Good
  <2> HIDE DEF Good
  <2> QED
    BY <1>1, <1>3, <1>4, AllSizes
<1> QED
  BY <1>5
=============================================================================
