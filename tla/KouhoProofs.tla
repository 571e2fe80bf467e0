----------------------------- MODULE KouhoProofs -----------------------------
(***************************************************************************)
(* Proofs about Bunsetu and Kouho for any grammar, dictionary and study    *)
(* table: the table of candidates is never empty nor longer than           *)
(* MAXKOUHONUMBER, getrank's ranks number the candidates of a block from 1 *)
(* on, and an analysis of a text that is not empty leads to clauses of the *)
(* text, the longest first, on stems the dictionaries have.  The code's    *)
(* loops are folds and recursive functions here, so the first sections say *)
(* what a fold does without the induction theorems that need an operator.  *)
(***************************************************************************)
EXTENDS Kouho, SequenceTheorems, NaturalsInduction, WellFoundedInduction,
        FiniteSetTheorems, TLAPS

----------------------------------------------------------------------------
(* Induction and recursion: a set or a function stands for the operator that *)
(* the library's theorems take.                                             *)

\* A set of naturals that is not empty has a least element.
LEMMA LeastNatural ==
    ASSUME NEW T, T \subseteq Nat, T # {}
    PROVE  \E x \in T : \A y \in T : x <= y
<1> DEFINE R == OpToRel(<, Nat)
<1>1. PICK x \in T : \A y \in T : <<y, x>> \notin R
  BY NatLessThanWellFounded, WFMin, Zenon
<1>2. \A y \in T : <<y, x>> \in R <=> y < x
  BY DEF OpToRel
<1> HIDE DEF R
<1>3. \A y \in T : ~(y < x)
  BY <1>1, <1>2
<1> QED
  BY <1>3

\* What holds of 0 and of a number's successor holds of all.
LEMMA SetInduction ==
    ASSUME NEW T, T \subseteq Nat, 0 \in T, \A n \in T : n + 1 \in T
    PROVE  T = Nat
<1> SUFFICES ASSUME Nat \ T # {} PROVE FALSE
  OBVIOUS
<1>1. PICK x \in Nat \ T : \A y \in Nat \ T : x <= y
  <2> DEFINE D == Nat \ T
  <2>1. D \subseteq Nat /\ D # {}
    OBVIOUS
  <2> HIDE DEF D
  <2>2. \E x \in D : \A y \in D : x <= y
    BY <2>1, LeastNatural
  <2> QED
    BY <2>2 DEF D
<1>2. x # 0 /\ x - 1 \in Nat /\ ~(x <= x - 1)
  BY <1>1
<1>3. x - 1 \in T
  BY <1>1, <1>2
<1>4. (x - 1) + 1 \in T
  BY <1>3
<1> QED
  BY <1>1, <1>4

\* A function that gives each value from the one before exists; what the step
\* makes of a count and a value is itself a function.
Iterates(g, S, a, m, step) ==
    g \in [0..m -> S] /\ g[0] = a /\ \A n \in 1..m : g[n] = step[<<n, g[n - 1]>>]

\* It exists, it is the only one, and its values are in S.
LEMMA Iterated ==
    ASSUME NEW S, NEW a \in S, NEW m \in Nat, NEW step \in [Nat \X S -> S]
    PROVE  \E g : Iterates(g, S, a, m, step)
<1> DEFINE Def(g, k) == /\ g \in [0..k -> S] /\ g[0] = a
                        /\ \A n \in 1..k : g[n] = step[<<n, g[n - 1]>>]
           T == {k \in Nat : \E g : Def(g, k)}
<1>1. 0 \in T
  <2>1. Def([n \in 0..0 |-> a], 0)
    OBVIOUS
  <2> HIDE DEF Def
  <2> QED
    BY <2>1
<1>2. ASSUME NEW k \in T PROVE k + 1 \in T
  <2>1. PICK g : Def(g, k)
    OBVIOUS
  <2>2. k \in Nat
    OBVIOUS
  <2> DEFINE v == step[<<k + 1, g[k]>>]
             h == [n \in 0..(k + 1) |-> IF n <= k THEN g[n] ELSE v]
  <2>3. v \in S
    BY <2>1, <2>2
  <2> HIDE DEF v
  <2>4. h \in [0..(k + 1) -> S] /\ h[0] = a
    BY <2>1, <2>2, <2>3
  <2>5. ASSUME NEW n \in 1..(k + 1) PROVE h[n] = step[<<n, h[n - 1]>>]
    <3>1. CASE n <= k
      <4>1. h[n] = g[n] /\ h[n - 1] = g[n - 1] /\ n \in 1..k
        BY <2>2, <3>1
      <4> HIDE DEF h
      <4> QED
        BY <2>1, <4>1
    <3>2. CASE n = k + 1
      <4>1. h[n] = v /\ h[n - 1] = g[k]
        BY <2>2, <3>2
      <4> HIDE DEF h
      <4> QED
        BY <3>2, <4>1 DEF v
    <3> QED
      BY <2>2, <3>1, <3>2
  <2> HIDE DEF h
  <2>6. Def(h, k + 1)
    BY <2>4, <2>5
  <2> HIDE DEF Def
  <2> QED
    BY <2>2, <2>6
<1>3. T \subseteq Nat
  OBVIOUS
<1> HIDE DEF T
<1>4. m \in T
  BY <1>1, <1>2, <1>3, SetInduction
<1> QED
  BY <1>4 DEF T, Iterates


\* A step that fills in a function at a place from places of a lower rank has
\* a fixed point: what a recursive definition defines exists.
Below(rank, x, f, g) == \A y \in DOMAIN rank : rank[y] < rank[x] => f[y] = g[y]
FillsIn(H, D, V, m, rank) ==
    /\ m \in Nat /\ V # {}
    /\ rank \in [D -> 0..m] /\ H \in [[D -> V] -> [D -> V]]
    /\ \A f, g \in [D -> V] : \A x \in D : Below(rank, x, f, g) => H[f][x] = H[g][x]

\* It has one: by induction over the ranks.
LEMMA FixedPoint ==
    ASSUME NEW D, NEW V, NEW m, NEW rank, NEW H, FillsIn(H, D, V, m, rank)
    PROVE  \E f \in [D -> V] : H[f] = f
<1>0. /\ m \in Nat /\ V # {}
      /\ rank \in [D -> 0..m] /\ H \in [[D -> V] -> [D -> V]]
      /\ \A f, g \in [D -> V] : \A x \in D : Below(rank, x, f, g) => H[f][x] = H[g][x]
  BY DEF FillsIn
<1> USE <1>0
<1>v. PICK v \in V : TRUE
  OBVIOUS
<1> DEFINE S == [D -> V]
           step == [p \in Nat \X S |-> H[p[2]]]
           a == [x \in D |-> v]
<1>1. a \in S /\ step \in [Nat \X S -> S] /\ \A n \in Nat, f \in S : step[<<n, f>>] = H[f]
  BY <1>0
<1>2. PICK F : Iterates(F, S, a, m + 2, step)
  <2> HIDE DEF S, a, step
  <2>1. m + 2 \in Nat
    OBVIOUS
  <2> QED
    BY <1>1, <2>1, Iterated
<1>3. F \in [0..(m + 2) -> S] /\ \A n \in 1..(m + 2) : F[n] = H[F[n - 1]]
  <2> HIDE DEF S, a, step
  <2>1. F \in [0..(m + 2) -> S] /\ \A n \in 1..(m + 2) : F[n] = step[<<n, F[n - 1]>>]
    BY <1>2 DEF Iterates
  <2>2. \A n \in 1..(m + 2) : n - 1 \in 0..(m + 2) /\ n \in Nat
    OBVIOUS
  <2>3. \A n \in 1..(m + 2) : F[n - 1] \in S
    BY <2>1, <2>2
  <2> QED
    BY <1>1, <2>1, <2>2, <2>3
<1> DEFINE T == {n \in Nat : n <= m + 1 => \A x \in D : rank[x] < n => F[n][x] = F[n + 1][x]}
<1>4. 0 \in T
  OBVIOUS
<1>5. ASSUME NEW n \in T PROVE n + 1 \in T
  <2> SUFFICES ASSUME n + 1 <= m + 1, NEW x \in D, rank[x] < n + 1
               PROVE  F[n + 1][x] = F[(n + 1) + 1][x]
    OBVIOUS
  <2>1. n \in Nat /\ \A y \in D : rank[y] < n => F[n][y] = F[n + 1][y]
    OBVIOUS
  <2>2. /\ F[n] \in [D -> V] /\ F[n + 1] \in [D -> V]
        /\ F[n + 1] = H[F[n]] /\ F[(n + 1) + 1] = H[F[n + 1]]
    <3>1. /\ n \in 0..(m + 2) /\ n + 1 \in 1..(m + 2) /\ (n + 1) + 1 \in 1..(m + 2)
          /\ (n + 1) - 1 = n /\ ((n + 1) + 1) - 1 = n + 1 /\ n + 1 \in 0..(m + 2)
      BY <2>1
    <3> HIDE DEF T
    <3>2. F[n + 1] = H[F[n]] /\ F[(n + 1) + 1] = H[F[n + 1]]
      BY <1>3, <3>1
    <3>3. F[n] \in S /\ F[n + 1] \in S
      BY ONLY <1>3, <3>1
    <3> QED
      BY <3>2, <3>3
  <2>3. Below(rank, x, F[n], F[n + 1])
    BY <1>0, <2>1 DEF Below
  <2> QED
    BY <1>0, <2>2, <2>3
<1>6. T \subseteq Nat
  OBVIOUS
<1> HIDE DEF T
<1>7. m + 1 \in T
  BY <1>4, <1>5, <1>6, SetInduction
<1>8. F[m + 1] \in [D -> V] /\ F[m + 2] \in [D -> V] /\ F[m + 2] = H[F[m + 1]]
  <2>1. /\ m + 1 \in 0..(m + 2) /\ m + 2 \in 0..(m + 2)
        /\ m + 2 \in 1..(m + 2) /\ (m + 2) - 1 = m + 1
    OBVIOUS
  <2>2. F[m + 2] = H[F[m + 1]]
    BY <1>3, <2>1
  <2>3. F[m + 1] \in S /\ F[m + 2] \in S
    BY ONLY <1>3, <2>1
  <2> QED
    BY <2>2, <2>3
<1>9. \A x \in D : F[m + 1][x] = F[m + 2][x]
  <2>1. \A x \in D : rank[x] < m + 1
    BY <1>0
  <2>2. (m + 1) + 1 = m + 2
    OBVIOUS
  <2> QED
    BY <1>7, <2>1, <2>2 DEF T
<1> QED
  BY <1>8, <1>9

----------------------------------------------------------------------------
(* Folds.  FoldLeft goes through the subsets of the indices, the last index *)
(* first: a function that does exists, and what it gives for the first k    *)
(* indices are the iterates of the step.                                    *)

\* A set of indices that is not empty has a last one.
LEMMA LastIndex ==
    ASSUME NEW m \in Nat, NEW s \in SUBSET (1..m), s # {}
    PROVE  /\ Max(s) \in s /\ \A y \in s : y <= Max(s)
           /\ s \ {Max(s)} \in SUBSET (1..m)
<1> DEFINE T == {n \in Nat : n <= m /\ (m - n) \in s}
<1>1. \E y \in s : y \in 1..m
  OBVIOUS
<1>2. T # {} /\ T \subseteq Nat
  <2>1. PICK y \in s : y \in 1..m
    BY <1>1
  <2>2. m - y \in Nat /\ m - (m - y) = y /\ m - y <= m
    BY <2>1
  <2>3. m - y \in T
    BY <2>1, <2>2
  <2> QED
    BY <2>3
<1> HIDE DEF T
<1>3. PICK n \in T : \A k \in T : n <= k
  BY <1>2, LeastNatural
<1>4. n \in Nat /\ n <= m /\ (m - n) \in s
  BY <1>3 DEF T
<1>5. ASSUME NEW y \in s PROVE y <= m - n
  <2>1. y \in 1..m
    OBVIOUS
  <2>2. m - y \in Nat /\ m - (m - y) = y /\ m - y <= m
    BY <2>1
  <2>3. m - y \in T
    BY <2>2 DEF T
  <2>4. n <= m - y
    BY <1>3, <2>3
  <2> QED
    BY <1>4, <2>1, <2>4
<1>6. \E x \in s : \A y \in s : x >= y
  <2>1. m - n \in s /\ \A y \in s : m - n >= y
    BY <1>4, <1>5
  <2> QED
    BY <2>1
<1> DEFINE x == Max(s)
<1>7. x \in s /\ \A y \in s : x >= y
  BY <1>6 DEF Max
<1> HIDE DEF x
<1>8. x \in Nat /\ \A y \in s : y \in Nat
  BY <1>7
<1> QED
  BY <1>7, <1>8 DEF x

\* The last of the first k is k, and the k - 1 before it are left.
LEMMA LastOfAll ==
    ASSUME NEW k \in Nat, k # 0
    PROVE  Max(1..k) = k /\ (1..k) \ {k} = 1..(k - 1) /\ 1..k # {}
<1>1. k \in 1..k /\ 1..k \in SUBSET (1..k)
  OBVIOUS
<1>2. Max(1..k) \in 1..k /\ k <= Max(1..k)
  BY <1>1, LastIndex
<1> QED
  BY <1>1, <1>2

Folds(g, S, a, m, step) ==
    /\ g \in [SUBSET (1..m) -> S]
    /\ \A s \in SUBSET (1..m) :
          g[s] = IF s = {} THEN a ELSE step[<<Max(s), g[s \ {Max(s)}]>>]

\* For any step there is a function that folds.
LEMMA FoldExists ==
    ASSUME NEW S, NEW a \in S, NEW m \in Nat, NEW step \in [(1..m) \X S -> S]
    PROVE  \E g : Folds(g, S, a, m, step)
<1> DEFINE D == SUBSET (1..m)
           rank == [s \in D |-> IF s = {} THEN 0 ELSE Max(s)]
           H == [g \in [D -> S] |->
                    [s \in D |-> IF s = {} THEN a ELSE step[<<Max(s), g[s \ {Max(s)}]>>]]]
<1>1. \A s \in D : s # {} => Max(s) \in 1..m /\ Max(s) \in s /\ s \ {Max(s)} \in D
                             /\ \A y \in s \ {Max(s)} : y < Max(s)
  <2> SUFFICES ASSUME NEW s \in D, s # {}
               PROVE Max(s) \in 1..m /\ Max(s) \in s /\ s \ {Max(s)} \in D
                             /\ \A y \in s \ {Max(s)} : y < Max(s)
    OBVIOUS
  <2>1. Max(s) \in s /\ (\A y \in s : y <= Max(s)) /\ s \ {Max(s)} \in D
    BY LastIndex
  <2>2. \A y \in s : y \in 1..m /\ y \in Nat
    OBVIOUS
  <2> HIDE DEF D
  <2>3. Max(s) \in 1..m /\ Max(s) \in Nat
    BY <2>1, <2>2
  <2>4. ASSUME NEW y \in s \ {Max(s)} PROVE y < Max(s)
    <3>1. y \in Nat /\ y <= Max(s) /\ y # Max(s)
      BY <2>1, <2>2
    <3> QED
      BY <2>3, <3>1
  <2> QED
    BY <2>1, <2>3, <2>4
<1> HIDE DEF D
<1>2. rank \in [D -> 0..m]
  <2>1. ASSUME NEW s \in D PROVE (IF s = {} THEN 0 ELSE Max(s)) \in 0..m
    <3>1. s # {} => Max(s) \in 1..m
      BY <1>1
    <3>2. Max(s) \in 1..m => Max(s) \in 0..m
      OBVIOUS
    <3> QED
      BY <3>1, <3>2
  <2> QED
    BY <2>1
<1>3. \A g \in [D -> S] : \A s \in D :
         H[g][s] = IF s = {} THEN a ELSE step[<<Max(s), g[s \ {Max(s)}]>>]
  OBVIOUS
<1>4. H \in [[D -> S] -> [D -> S]]
  BY <1>1
<1>5. \A s \in D : rank[s] = IF s = {} THEN 0 ELSE Max(s)
  OBVIOUS
<1>6. DOMAIN rank = D
  OBVIOUS
<1> HIDE DEF H, rank
<1>7. ASSUME NEW f \in [D -> S], NEW g \in [D -> S], NEW s \in D, Below(rank, s, f, g)
      PROVE  H[f][s] = H[g][s]
  <2>1. CASE s = {}
    BY <1>3, <2>1
  <2>2. CASE s # {}
    <3> DEFINE r == s \ {Max(s)}
    <3>1. r \in D /\ Max(s) \in 1..m /\ \A y \in r : y < Max(s)
      BY <1>1, <2>2
    <3>2. r # {} => Max(r) \in r
      BY <1>1, <3>1
    <3>3. rank[r] < rank[s]
      BY <1>5, <2>2, <3>1, <3>2
    <3>4. f[r] = g[r]
      BY <1>6, <1>7, <3>1, <3>3 DEF Below
    <3>5. H[f][s] = step[<<Max(s), f[r]>>] /\ H[g][s] = step[<<Max(s), g[r]>>]
      BY <1>3, <2>2
    <3> QED
      BY <3>4, <3>5
  <2> QED
    BY <2>1, <2>2
<1>8. PICK g \in [D -> S] : H[g] = g
  <2>1. FillsIn(H, D, S, m, rank)
    BY <1>2, <1>4, <1>7, S # {} DEF FillsIn
  <2> QED
    BY <2>1, FixedPoint
<1>9. \A s \in D : g[s] = IF s = {} THEN a ELSE step[<<Max(s), g[s \ {Max(s)}]>>]
  BY <1>3, <1>8
<1> QED
  BY <1>9 DEF Folds, D

\* Any c that folds agrees with it, whatever it is elsewhere.
FoldedBy(c, S, a, m, step) ==
    /\ a \in S /\ m \in Nat /\ step \in [(1..m) \X S -> S]
    /\ c[{}] = a
    /\ \A s \in SUBSET (1..m) : s # {} /\ c[s \ {Max(s)}] \in S =>
              c[s] = step[<<Max(s), c[s \ {Max(s)}]>>]

\* The iterates of the step and what c makes of the first k indices are the same.
LEMMA FoldChain ==
    ASSUME NEW S, NEW a, NEW m, NEW step, NEW c, FoldedBy(c, S, a, m, step)
    PROVE  \E h : Iterates(h, S, a, m, step) /\ c[1..m] = h[m]
<1>0. /\ a \in S /\ m \in Nat /\ step \in [(1..m) \X S -> S]
      /\ c[{}] = a
      /\ \A s \in SUBSET (1..m) : s # {} /\ c[s \ {Max(s)}] \in S =>
              c[s] = step[<<Max(s), c[s \ {Max(s)}]>>]
  BY DEF FoldedBy
<1> USE <1>0
<1> DEFINE h == [k \in 0..m |-> c[1..k]]
           T == {k \in Nat : k <= m => h[k] \in S}
<1>1. h[0] = a
  <2>1. 1..0 = {}
    OBVIOUS
  <2> QED
    BY <2>1
<1>2. ASSUME NEW k \in 1..m, h[k - 1] \in S PROVE h[k] = step[<<k, h[k - 1]>>] /\ h[k] \in S
  <2>1. k \in Nat /\ k # 0 /\ 1..k \in SUBSET (1..m) /\ k \in 0..m /\ k - 1 \in 0..m
    OBVIOUS
  <2>2. Max(1..k) = k /\ (1..k) \ {k} = 1..(k - 1) /\ 1..k # {}
    BY <2>1, LastOfAll
  <2>3. h[k] = c[1..k] /\ h[k - 1] = c[1..(k - 1)]
    BY <2>1
  <2> HIDE DEF h
  <2>4. c[1..k] = step[<<k, c[1..(k - 1)]>>]
    BY <1>2, <2>1, <2>2, <2>3
  <2> QED
    BY <1>2, <2>3, <2>4
<1>3. 0 \in T
  BY <1>1
<1>4. ASSUME NEW n \in T PROVE n + 1 \in T
  <2> SUFFICES ASSUME n + 1 <= m PROVE h[n + 1] \in S
    OBVIOUS
  <2>1. n \in Nat /\ (n <= m => h[n] \in S)
    OBVIOUS
  <2> HIDE DEF h, T
  <2>2. n + 1 \in 1..m /\ (n + 1) - 1 = n /\ n <= m
    BY <2>1
  <2> QED
    BY <1>2, <2>1, <2>2
<1>5. T \subseteq Nat
  OBVIOUS
<1> HIDE DEF T
<1>6. T = Nat
  BY <1>3, <1>4, <1>5, SetInduction
<1>7. \A k \in 0..m : h[k] \in S
  <2> HIDE DEF h
  <2>1. \A k \in 0..m : k \in T /\ k <= m
    BY <1>6
  <2> QED
    BY <2>1 DEF T
<1>8. h \in [0..m -> S]
  BY <1>7
<1>9. \A k \in 1..m : h[k] = step[<<k, h[k - 1]>>]
  <2>1. \A k \in 1..m : k - 1 \in 0..m
    OBVIOUS
  <2> HIDE DEF h
  <2> QED
    BY <1>2, <1>7, <2>1
<1>10. c[1..m] = h[m]
  OBVIOUS
<1> HIDE DEF h
<1> QED
  BY <1>1, <1>8, <1>9, <1>10 DEF Iterates

----------------------------------------------------------------------------
(* Counting *)

\* A part of 1..m is finite and no larger than m.
LEMMA PartOfRange ==
    ASSUME NEW m \in Nat, NEW S \in SUBSET (1..m)
    PROVE  IsFiniteSet(S) /\ Cardinality(S) \in Nat /\ Cardinality(S) <= m
<1>1. IsFiniteSet(1..m) /\ Cardinality(1..m) = m
  <2>1. IsFiniteSet(1..m) /\ Cardinality(1..m) = IF 1 > m THEN 0 ELSE m - 1 + 1
    BY FS_Interval
  <2> QED
    BY <2>1
<1> QED
  BY <1>1, FS_Subset, FS_CardinalityType

\* How many of S are before n.
Before(n, S) == Cardinality({i \in S : i < n})

\* Counting what is before each member numbers the members from 0 on.
LEMMA CountBelow ==
    ASSUME NEW m \in Nat
    PROVE  \A S \in SUBSET (1..m) : {Before(n, S) : n \in S} = 0..(Cardinality(S) - 1)
<1> DEFINE P(k) == \A S \in SUBSET (1..k) : {Before(n, S) : n \in S} = 0..(Cardinality(S) - 1)
           T == {k \in Nat : P(k)}
<1>1. 0 \in T
  <2> SUFFICES ASSUME NEW S \in SUBSET (1..0)
               PROVE  {Before(n, S) : n \in S} = 0..(Cardinality(S) - 1)
    OBVIOUS
  <2>1. S = {}
    OBVIOUS
  <2>2. Cardinality(S) = 0
    BY <2>1, FS_EmptySet
  <2>3. {Before(n, S) : n \in S} = {}
    BY <2>1
  <2> QED
    BY <2>2, <2>3
<1>2. ASSUME NEW k \in T PROVE k + 1 \in T
  <2>0. k \in Nat /\ P(k)
    OBVIOUS
  <2> SUFFICES ASSUME NEW S \in SUBSET (1..(k + 1))
               PROVE  {Before(n, S) : n \in S} = 0..(Cardinality(S) - 1)
    BY <2>0
  <2> HIDE DEF T
  <2>1. CASE k + 1 \notin S
    <3>1. S \in SUBSET (1..k)
      BY <2>0, <2>1
    <3> QED
      BY <2>0, <3>1
  <2>2. CASE k + 1 \in S
    <3> DEFINE R == S \ {k + 1}
    <3>1. R \in SUBSET (1..k) /\ S = R \cup {k + 1} /\ k + 1 \notin R
      BY <2>0, <2>2
    <3>2. IsFiniteSet(R) /\ Cardinality(R) \in Nat
      BY <2>0, <3>1, PartOfRange
    <3>3. Cardinality(S) = Cardinality(R) + 1
      BY <3>1, <3>2, FS_AddElement
    <3>4. {Before(n, R) : n \in R} = 0..(Cardinality(R) - 1)
      BY <2>0, <3>1
    <3>5. \A n \in R : Before(n, S) = Before(n, R)
      <4> SUFFICES ASSUME NEW n \in R PROVE Before(n, S) = Before(n, R)
        OBVIOUS
      <4>1. n \in Nat /\ n < k + 1
        BY <2>0, <3>1
      <4>2. ~(k + 1 < n)
        BY <2>0, <4>1
      <4>3. {i \in S : i < n} = {i \in R : i < n}
        BY <4>2
      <4> QED
        BY <4>3 DEF Before
    <3>6. Before(k + 1, S) = Cardinality(R)
      <4>1. \A i \in R : i \in Nat /\ i < k + 1
        BY <2>0, <3>1
      <4>2. ~(k + 1 < k + 1)
        BY <2>0
      <4>3. {i \in S : i < k + 1} = R
        BY <3>1, <4>1, <4>2
      <4> QED
        BY <4>3 DEF Before
    <3> HIDE DEF R
    <3>7. {Before(n, S) : n \in S} = {Before(n, R) : n \in R} \cup {Cardinality(R)}
      BY <3>1, <3>5, <3>6
    <3>8. 0..(Cardinality(S) - 1) = 0..(Cardinality(R) - 1) \cup {Cardinality(R)}
      BY <3>2, <3>3
    <3> QED
      BY <3>4, <3>7, <3>8
  <2> QED
    BY <2>1, <2>2
<1>3. T \subseteq Nat
  OBVIOUS
<1> HIDE DEF T
<1>4. m \in T
  BY <1>1, <1>2, <1>3, SetInduction
<1> QED
  BY <1>4 DEF T

----------------------------------------------------------------------------
(* Ranks *)

Cand == [cl : Nat, offs : Nat, mode : Nat, rank : Int, styno : Nat,
         ka_fg : Nat, ka_kj : Nat, sttfg : Nat, sttkj : Nat]
\* The states setstynum goes through with m candidates.
Rankings(m) == [kh : [1..m -> Cand], trank : Int, nrank : Int]

\* The candidates that are passed by the n-th, which an entry of the table at
\* styno was found for.
PassedBy(st, n, styno, s) ==
    {p \in 1..(n - 1) :
        \/ styno < st.kh[p].styno
        \/ styno = st.kh[p].styno /\ SameWriting(st.kh[n], s)}

Passes(st, n, styno, s, P, e) ==
    P = PassedBy(st, n, styno, s) /\ e = st.trank - Cardinality(P)

\* What that does to the candidates.
PassedOver(kh, m, n, styno, P, e) ==
    [p \in 1..m |-> IF p = n THEN [kh[p] EXCEPT !.styno = styno, !.rank = e]
                    ELSE IF p \in P THEN [kh[p] EXCEPT !.rank = @ + 1]
                    ELSE kh[p]]

\* A candidate with another rank is a candidate.
LEMMA CandChanged ==
    ASSUME NEW k \in Cand, NEW styno \in Nat, NEW rank \in Int
    PROVE  /\ [k EXCEPT !.styno = styno, !.rank = rank] \in Cand
           /\ [k EXCEPT !.rank = rank] \in Cand
BY DEF Cand

\* What is in a candidate.
LEMMA CandFields ==
    ASSUME NEW k \in Cand
    PROVE  k.rank \in Int /\ k.styno \in Nat /\ k.offs \in Nat /\ k.mode \in Nat
BY DEF Cand

\* setnspr gives the candidate its rank and moves those that it passes back by one.
LEMMA SetnsprParts ==
    ASSUME NEW m \in Nat, NEW st \in Rankings(m), NEW n \in 1..m, NEW styno \in Nat, NEW s,
           NEW P, NEW e, Passes(st, n, styno, s, P, e)
    PROVE  /\ Cardinality(P) \in Nat /\ e \in Int /\ P \in SUBSET (1..(n - 1))
           /\ setnspr(st, n, styno, s).trank = st.trank + 1
           /\ setnspr(st, n, styno, s).nrank
                \in {st.nrank, st.nrank + 1, e}
           /\ setnspr(st, n, styno, s).kh = PassedOver(st.kh, m, n, styno, P, e)
           /\ setnspr(st, n, styno, s) \in Rankings(m)
<1>0. P = PassedBy(st, n, styno, s) /\ e = st.trank - Cardinality(P)
  BY DEF Passes
<1>1. P \in SUBSET (1..(n - 1)) /\ P \in SUBSET (1..m)
  BY <1>0 DEF PassedBy
<1>2. Cardinality(P) \in Nat
  BY <1>1, PartOfRange
<1>3. st.kh \in [1..m -> Cand] /\ st.trank \in Int /\ st.nrank \in Int /\ DOMAIN st.kh = 1..m
  BY DEF Rankings
<1>4. e \in Int
  BY <1>0, <1>2, <1>3
<1> PICK nr \in Int : nr = IF e <= st.nrank THEN st.nrank + 1 ELSE st.nrank
  BY <1>3
<1> PICK nr2 \in Int : nr2 = IF s.nmflg = 1 /\ nr > e THEN e ELSE nr
  BY <1>4
<1> DEFINE kh2 == [p \in 1..m |->
                    IF p = n THEN [st.kh[p] EXCEPT !.styno = styno, !.rank = e]
                    ELSE IF p \in P THEN [st.kh[p] EXCEPT !.rank = @ + 1]
                    ELSE st.kh[p]]
<1>5. setnspr(st, n, styno, s) = [kh |-> kh2, trank |-> st.trank + 1, nrank |-> nr2]
  BY <1>0, <1>3 DEF setnspr, PassedBy
<1>6. kh2 \in [1..m -> Cand]
  <2>1. ASSUME NEW p \in 1..m
        PROVE  /\ [st.kh[p] EXCEPT !.styno = styno, !.rank = e] \in Cand
               /\ [st.kh[p] EXCEPT !.rank = @ + 1] \in Cand
               /\ st.kh[p] \in Cand
    <3>1. st.kh[p] \in Cand
      BY <1>3
    <3> PICK k \in Cand : k = st.kh[p]
      BY <3>1
    <3>2. k.rank + 1 \in Int
      BY CandFields
    <3> PICK r \in Int : r = k.rank + 1
      BY <3>2
    <3>3. [k EXCEPT !.styno = styno, !.rank = e] \in Cand
      BY <1>4, CandChanged
    <3>4. [k EXCEPT !.rank = r] \in Cand
      BY CandChanged
    <3> QED
      BY <3>3, <3>4
  <2> QED
    BY <2>1
<1> HIDE DEF kh2
<1>7. setnspr(st, n, styno, s) \in Rankings(m)
  BY <1>3, <1>5, <1>6 DEF Rankings
<1>8. nr2 \in {st.nrank, st.nrank + 1, e}
  BY <1>3, <1>4
<1>9. /\ setnspr(st, n, styno, s).trank = st.trank + 1
      /\ setnspr(st, n, styno, s).nrank = nr2
      /\ setnspr(st, n, styno, s).kh = kh2
  BY <1>5
<1> QED
  BY <1>1, <1>2, <1>4, <1>7, <1>8, <1>9 DEF kh2, PassedOver

\* t - 1 of the m candidates are ranked, by a number of the entry each.
Ordered(rk, sn, t, m) ==
    /\ \A p \in 1..m : rk[p] \in 0..(t - 1)
    /\ \A r \in 1..(t - 1) : \E p \in 1..m : rk[p] = r
    /\ \A p, q \in 1..m : rk[p] # 0 /\ rk[p] = rk[q] => p = q
    /\ \A p, q \in 1..m : rk[p] # 0 /\ rk[p] < rk[q] => sn[p] <= sn[q]

\* Whoever is ranked behind one that is passed is passed: those with the last
\* ranks are.
LEMMA LastRanks ==
    ASSUME NEW m \in Nat, NEW rk \in [1..m -> Nat], NEW sn, NEW t \in Nat \ {0},
           Ordered(rk, sn, t, m),
           NEW P \in SUBSET (1..m), \A p \in P : rk[p] # 0,
           \A p \in P, q \in 1..m : rk[p] < rk[q] => q \in P
    PROVE  /\ t - Cardinality(P) \in 1..t
           /\ \A p \in 1..m : p \in P <=> rk[p] >= t - Cardinality(P)
<1> DEFINE E == {r \in 1..t : \A p \in 1..m : rk[p] >= r => p \in P}
<1>1. t \in E
  BY DEF Ordered
<1>2. E \subseteq Nat /\ E # {}
  BY <1>1
<1>3. PICK e \in E : \A r \in E : e <= r
  <2> HIDE DEF E
  <2> QED
    BY <1>2, LeastNatural
<1>4. e \in 1..t /\ \A p \in 1..m : rk[p] >= e => p \in P
  OBVIOUS
<1>5. ASSUME NEW p \in P PROVE rk[p] >= e
  <2>1. p \in 1..m /\ rk[p] \in Nat /\ rk[p] # 0 /\ rk[p] \in 0..(t - 1)
    BY DEF Ordered
  <2>2. ASSUME NEW q \in 1..m, rk[q] >= rk[p] PROVE q \in P
    <3>1. CASE rk[q] = rk[p]
      BY <2>1, <3>1 DEF Ordered
    <3>2. CASE rk[p] < rk[q]
      BY <3>2
    <3> QED
      BY <2>1, <2>2, <3>1, <3>2
  <2>3. rk[p] \in E
    BY <2>1, <2>2
  <2> HIDE DEF E
  <2> QED
    BY <1>3, <1>4, <2>1, <2>3
<1> HIDE DEF E
<1>6. Cardinality(P) = t - e
  <2> DEFINE f == [p \in P |-> rk[p]]
  <2>1. \A p \in P : f[p] \in e..(t - 1)
    BY <1>4, <1>5 DEF Ordered
  <2>2. \A p, q \in P : f[p] = f[q] => p = q
    BY DEF Ordered
  <2>3. \A r \in e..(t - 1) : \E p \in P : f[p] = r
    <3> SUFFICES ASSUME NEW r \in e..(t - 1) PROVE \E p \in P : f[p] = r
      OBVIOUS
    <3>1. r \in 1..(t - 1) /\ r >= e
      BY <1>4
    <3>2. PICK p \in 1..m : rk[p] = r
      BY <3>1 DEF Ordered
    <3> QED
      BY <1>4, <3>1, <3>2
  <2>4. f \in Bijection(P, e..(t - 1))
    <3>1. f \in [P -> e..(t - 1)]
      BY <2>1
    <3> HIDE DEF f
    <3> QED
      BY <2>2, <2>3, <3>1 DEF Bijection, Injection, Surjection, IsInjective
  <2>5. IsFiniteSet(P)
    BY PartOfRange
  <2>6. Cardinality(P) = Cardinality(e..(t - 1))
    <3>1. ExistsBijection(P, e..(t - 1))
      BY <2>4 DEF ExistsBijection
    <3> QED
      BY <2>5, <3>1, FS_Bijection
  <2>7. Cardinality(e..(t - 1)) = IF e > t - 1 THEN 0 ELSE (t - 1) - e + 1
    BY <1>4, FS_Interval
  <2> QED
    BY <1>4, <2>6, <2>7
<1>7. t - Cardinality(P) = e
  BY <1>4, <1>6
<1>8. \A p \in 1..m : p \in P <=> rk[p] >= e
  BY <1>4, <1>5
<1> QED
  BY <1>4, <1>7, <1>8

----------------------------------------------------------------------------
(* Ranking a candidate that the table has                                   *)

\* The n-th candidate, found at `at' in the table, takes the rank e from the
\* ones in P, which are those from e on.
Inserting(m, rk, sn, t, n, at, e, P) ==
    /\ m \in Nat /\ rk \in [1..m -> Nat] /\ sn \in [1..m -> Nat] /\ t \in Nat \ {0}
    /\ Ordered(rk, sn, t, m)
    /\ n \in 1..m /\ rk[n] = 0 /\ at \in Nat
    /\ e \in 1..t /\ P \in SUBSET (1..m) /\ n \notin P
    /\ \A p \in 1..m : p \in P <=> rk[p] >= e
    /\ \A p \in P : at <= sn[p]
    /\ \A p \in 1..m : rk[p] # 0 /\ p \notin P => sn[p] <= at
InsertRank(m, rk, n, e, P) ==
    [p \in 1..m |-> IF p = n THEN e ELSE IF p \in P THEN rk[p] + 1 ELSE rk[p]]
InsertStyno(m, sn, n, at) == [p \in 1..m |-> IF p = n THEN at ELSE sn[p]]

\* One more candidate is ranked, in front of those that it passes.
LEMMA Inserted ==
    ASSUME NEW m, NEW rk, NEW sn, NEW t, NEW n, NEW at, NEW e, NEW P,
           Inserting(m, rk, sn, t, n, at, e, P)
    PROVE  /\ Ordered(InsertRank(m, rk, n, e, P), InsertStyno(m, sn, n, at), t + 1, m)
           /\ InsertRank(m, rk, n, e, P) \in [1..m -> Nat]
<1> PICK rk2 : rk2 = InsertRank(m, rk, n, e, P)
  OBVIOUS
<1> PICK sn2 : sn2 = InsertStyno(m, sn, n, at)
  OBVIOUS
<1>0. /\ m \in Nat /\ rk \in [1..m -> Nat] /\ sn \in [1..m -> Nat] /\ t \in Nat \ {0}
      /\ Ordered(rk, sn, t, m)
      /\ n \in 1..m /\ rk[n] = 0 /\ at \in Nat
      /\ e \in 1..t /\ P \in SUBSET (1..m) /\ n \notin P
      /\ \A p \in 1..m : p \in P <=> rk[p] >= e
      /\ \A p \in P : at <= sn[p]
      /\ \A p \in 1..m : rk[p] # 0 /\ p \notin P => sn[p] <= at
      /\ rk2 = [p \in 1..m |-> IF p = n THEN e ELSE IF p \in P THEN rk[p] + 1 ELSE rk[p]]
      /\ sn2 = [p \in 1..m |-> IF p = n THEN at ELSE sn[p]]
  BY DEF Inserting, InsertRank, InsertStyno
<1>1. \A p \in 1..m : rk[p] \in 0..(t - 1) /\ rk[p] \in Nat /\ sn[p] \in Nat
  BY <1>0 DEF Ordered
<1>2. rk2[n] = e /\ sn2[n] = at
  BY <1>0
<1>3. \A p \in 1..m : p # n /\ rk[p] >= e => rk2[p] = rk[p] + 1
  BY <1>0
<1>4. \A p \in 1..m : p # n /\ rk[p] < e => rk2[p] = rk[p]
  BY <1>0, <1>1
<1>5. \A p \in 1..m : p # n => sn2[p] = sn[p]
  BY <1>0
<1>6. \A r \in 1..(t - 1) : \E p \in 1..m : rk[p] = r
  BY <1>0 DEF Ordered
<1>7. \A p, q \in 1..m : rk[p] # 0 /\ rk[p] = rk[q] => p = q
  BY <1>0 DEF Ordered
<1>8. \A p, q \in 1..m : rk[p] # 0 /\ rk[p] < rk[q] => sn[p] <= sn[q]
  BY <1>0 DEF Ordered
<1>9. \A p \in 1..m : rk[p] >= e => at <= sn[p]
  BY <1>0
<1>10. \A p \in 1..m : rk[p] # 0 /\ rk[p] < e => sn[p] <= at
  BY <1>0, <1>1
<1>e. e \in Nat /\ e # 0 /\ e <= t /\ t \in Nat
  BY <1>0
<1>s. \A p \in 1..m :
         \/ p = n
         \/ rk[p] \in Nat /\ rk[p] < e /\ rk2[p] = rk[p]
         \/ rk[p] \in Nat /\ rk[p] >= e /\ rk[p] < t /\ rk2[p] = rk[p] + 1
  <2> SUFFICES ASSUME NEW p \in 1..m, p # n
               PROVE  \/ rk[p] \in Nat /\ rk[p] < e /\ rk2[p] = rk[p]
                      \/ rk[p] \in Nat /\ rk[p] >= e /\ rk[p] < t /\ rk2[p] = rk[p] + 1
    OBVIOUS
  <2>1. rk[p] \in Nat /\ rk[p] < t
    BY <1>1, <1>e
  <2>2. CASE rk[p] < e
    BY <1>4, <2>1, <2>2
  <2>3. CASE ~(rk[p] < e)
    <3>1. rk[p] >= e
      BY <1>e, <2>1, <2>3
    <3> QED
      BY <1>3, <2>1, <3>1
  <2> QED
    BY <2>2, <2>3
<1>11. \A p \in 1..m : rk2[p] \in 0..((t + 1) - 1) /\ rk2[p] \in Nat
  <2> SUFFICES ASSUME NEW p \in 1..m PROVE rk2[p] \in 0..((t + 1) - 1) /\ rk2[p] \in Nat
    OBVIOUS
  <2>1. CASE p = n
    BY ONLY <1>2, <1>e, <2>1
  <2>2. CASE p # n
    <3>1. \/ rk[p] \in Nat /\ rk[p] < e /\ rk2[p] = rk[p]
          \/ rk[p] \in Nat /\ rk[p] >= e /\ rk[p] < t /\ rk2[p] = rk[p] + 1
      BY <1>s, <2>2
    <3> QED
      BY ONLY <3>1, <1>e
  <2> QED
    BY <2>1, <2>2
<1>12. \A r \in 1..((t + 1) - 1) : \E p \in 1..m : rk2[p] = r
  <2>n. n \in 1..m /\ rk[n] = 0 /\ e \in Nat /\ t \in Nat /\ (t + 1) - 1 = t
    BY <1>0, <1>e
  <2> SUFFICES ASSUME NEW r \in 1..t PROVE \E p \in 1..m : rk2[p] = r
    BY <2>n
  <2>1. CASE r = e
    BY <1>2, <2>1, <2>n
  <2>2. CASE r < e
    <3>1. r \in 1..(t - 1) /\ r # 0
      BY <1>e, <2>2, <2>n
    <3>2. PICK p \in 1..m : rk[p] = r
      BY <1>6, <3>1
    <3>3. p # n
      BY <2>n, <3>1, <3>2
    <3> QED
      BY <1>4, <2>2, <3>2, <3>3
  <2>3. CASE r > e
    <3>1. r - 1 \in 1..(t - 1) /\ r - 1 >= e /\ (r - 1) + 1 = r
      BY <1>e, <2>3, <2>n
    <3>2. PICK p \in 1..m : rk[p] = r - 1
      BY <1>6, <3>1
    <3>3. p # n
      BY <2>n, <3>1, <3>2
    <3> QED
      BY <1>3, <3>1, <3>2, <3>3
  <2> QED
    BY <1>e, <2>1, <2>2, <2>3
<1>13. ASSUME NEW p \in 1..m, NEW q \in 1..m, rk2[p] # 0, rk2[p] = rk2[q] PROVE p = q
  <2>a. \/ p = n
        \/ rk[p] \in Nat /\ rk[p] < e /\ rk2[p] = rk[p]
        \/ rk[p] \in Nat /\ rk[p] >= e /\ rk[p] < t /\ rk2[p] = rk[p] + 1
    BY ONLY <1>s, p \in 1..m
  <2>b. \/ q = n
        \/ rk[q] \in Nat /\ rk[q] < e /\ rk2[q] = rk[q]
        \/ rk[q] \in Nat /\ rk[q] >= e /\ rk[q] < t /\ rk2[q] = rk[q] + 1
    BY ONLY <1>s, q \in 1..m
  <2>1. CASE p = n /\ q # n
    <3>1. rk2[p] = e
      BY ONLY <1>2, <2>1
    <3> QED
      BY ONLY <1>e, <1>13, <2>1, <2>b, <3>1
  <2>2. CASE q = n /\ p # n
    <3>1. rk2[q] = e
      BY ONLY <1>2, <2>2
    <3> QED
      BY ONLY <1>e, <1>13, <2>2, <2>a, <3>1
  <2>3. CASE p # n /\ q # n
    <3>1. rk[p] = rk[q] /\ rk[p] # 0
      BY ONLY <1>e, <1>13, <2>3, <2>a, <2>b
    <3> QED
      BY <1>7, <3>1
  <2> QED
    BY <2>1, <2>2, <2>3
<1>14. ASSUME NEW p \in 1..m, NEW q \in 1..m, rk2[p] # 0, rk2[p] < rk2[q]
       PROVE  sn2[p] <= sn2[q]
  <2>a. \/ p = n
        \/ rk[p] \in Nat /\ rk[p] < e /\ rk2[p] = rk[p]
        \/ rk[p] \in Nat /\ rk[p] >= e /\ rk[p] < t /\ rk2[p] = rk[p] + 1
    BY ONLY <1>s, p \in 1..m
  <2>b. \/ q = n
        \/ rk[q] \in Nat /\ rk[q] < e /\ rk2[q] = rk[q]
        \/ rk[q] \in Nat /\ rk[q] >= e /\ rk[q] < t /\ rk2[q] = rk[q] + 1
    BY ONLY <1>s, q \in 1..m
  <2>1. CASE p = n /\ q # n
    <3>0. rk2[p] = e
      BY ONLY <1>2, <2>1
    <3>1. rk[q] >= e
      BY ONLY <1>e, <1>14, <2>1, <2>b, <3>0
    <3> QED
      BY <1>2, <1>5, <1>9, <2>1, <3>1
  <2>2. CASE q = n /\ p # n
    <3>0. rk2[q] = e
      BY ONLY <1>2, <2>2
    <3>1. rk[p] < e /\ rk[p] # 0
      BY ONLY <1>e, <1>14, <2>2, <2>a, <3>0
    <3> QED
      BY <1>2, <1>5, <1>10, <2>2, <3>1
  <2>3. CASE p # n /\ q # n
    <3>1. rk[p] < rk[q] /\ rk[p] # 0
      BY ONLY <1>e, <1>14, <2>3, <2>a, <2>b
    <3> QED
      BY <1>5, <1>8, <2>3, <3>1
  <2>4. CASE p = n /\ q = n
    BY <1>11, <1>14, <2>4
  <2> QED
    BY <2>1, <2>2, <2>3, <2>4
<1>15. rk2 \in [1..m -> Nat]
  BY <1>0, <1>11
<1>16. Ordered(rk2, sn2, t + 1, m)
  BY <1>11, <1>12, <1>13, <1>14 DEF Ordered
<1> QED
  BY <1>15, <1>16

----------------------------------------------------------------------------
(* What setstynum keeps                                                     *)

Ranks(kh, m) == [p \in 1..m |-> kh[p].rank]
Stynos(kh, m) == [p \in 1..m |-> kh[p].styno]

\* What setstynum keeps while it goes through the candidates: those that the
\* table has, of those before the k-th, are ranked, and nothing else of them changes.
RankInv(st, kh, m, k) ==
    /\ st \in Rankings(m) /\ st.trank \in Nat \ {0} /\ st.nrank \in 1..st.trank
    /\ Ranks(st.kh, m) \in [1..m -> Nat] /\ Stynos(st.kh, m) \in [1..m -> Nat]
    /\ Ordered(Ranks(st.kh, m), Stynos(st.kh, m), st.trank, m)
    /\ \A p \in 1..m :
          /\ st.kh[p].offs = kh[p].offs /\ st.kh[p].mode = kh[p].mode
          /\ st.kh[p].rank = 0 <=> st.kh[p].styno = 0
          /\ st.kh[p].rank # 0 => p < k /\ kh[p].offs # 0

\* Those that the n-th candidate passes are the ones with the ranks from e on.
LEMMA PassedAreLast ==
    ASSUME NEW m \in Nat, NEW kh, NEW n \in 1..m, NEW st, RankInv(st, kh, m, n),
           NEW at \in Nat \ {0}, NEW s,
           NEW P, NEW e, Passes(st, n, at, s, P, e)
    PROVE  /\ e \in 1..st.trank /\ P \in SUBSET (1..m) /\ n \notin P
           /\ \A p \in 1..m : p \in P <=> Ranks(st.kh, m)[p] >= e
           /\ \A p \in P : at <= Stynos(st.kh, m)[p]
           /\ \A p \in 1..m : Ranks(st.kh, m)[p] # 0 /\ p \notin P => Stynos(st.kh, m)[p] <= at
<1> PICK rk : rk = Ranks(st.kh, m)
  OBVIOUS
<1> PICK sn : sn = Stynos(st.kh, m)
  OBVIOUS
<1> PICK t : t = st.trank
  OBVIOUS
<1>0. P = PassedBy(st, n, at, s) /\ e = t - Cardinality(P)
  BY DEF Passes
<1>1. /\ rk \in [1..m -> Nat] /\ sn \in [1..m -> Nat] /\ t \in Nat \ {0}
      /\ Ordered(rk, sn, t, m)
  BY DEF RankInv
<1>2. \A p \in 1..m : (rk[p] = 0 <=> sn[p] = 0) /\ (rk[p] # 0 => p < n)
  BY DEF RankInv, Ranks, Stynos
<1>3. P = {p \in 1..(n - 1) : at < sn[p] \/ (at = sn[p] /\ SameWriting(st.kh[n], s))}
  <2>1. \A p \in 1..(n - 1) : p \in 1..m
    OBVIOUS
  <2>2. \A p \in 1..m : sn[p] = st.kh[p].styno
    BY DEF Stynos
  <2> QED
    BY <1>0, <2>1, <2>2 DEF PassedBy
<1>4. P \in SUBSET (1..m) /\ n \notin P
  BY <1>3
<1>5. \A p \in P : at <= sn[p] /\ rk[p] # 0
  BY <1>1, <1>2, <1>3
<1>6. \A p \in 1..m : rk[p] # 0 /\ p \notin P => sn[p] <= at
  BY <1>1, <1>2, <1>3
<1>7. ASSUME NEW p \in P, NEW q \in 1..m, rk[p] < rk[q] PROVE q \in P
  <2>1. rk[p] \in Nat /\ rk[q] \in Nat /\ sn[p] \in Nat /\ sn[q] \in Nat /\ p \in 1..m
    BY <1>1, <1>4
  <2>2. sn[p] <= sn[q] /\ rk[p] # 0 /\ rk[q] # 0
    <3>1. rk[p] # 0 /\ rk[p] < rk[q]
      BY <1>5, <1>7
    <3>2. sn[p] <= sn[q]
      BY <1>1, <2>1, <3>1 DEF Ordered
    <3> QED
      BY <2>1, <3>1, <3>2
  <2>3. q \in 1..(n - 1)
    BY <1>2, <2>2
  <2>4. at < sn[p] \/ (at = sn[p] /\ SameWriting(st.kh[n], s))
    BY <1>3
  <2>5. at < sn[q] \/ (at = sn[q] /\ SameWriting(st.kh[n], s))
    BY <2>1, <2>2, <2>4
  <2> QED
    BY <1>3, <2>3, <2>5
<1>8. t - Cardinality(P) \in 1..t /\ \A p \in 1..m : p \in P <=> rk[p] >= t - Cardinality(P)
  <2>1. \A p \in P : rk[p] # 0
    BY <1>5
  <2>2. \A p \in P, q \in 1..m : rk[p] < rk[q] => q \in P
    BY <1>7
  <2> QED
    BY ONLY m \in Nat, <1>1, <1>4, <2>1, <2>2, LastRanks
<1> QED
  BY <1>0, <1>4, <1>5, <1>6, <1>8

\* One turn of setstynum's loop keeps it.
LEMMA RankInvStep ==
    ASSUME NEW m \in Nat, NEW kh, NEW n \in 1..m, NEW st, RankInv(st, kh, m, n),
           NEW at \in Nat \ {0}, NEW s, kh[n].offs # 0
    PROVE  RankInv(setnspr(st, n, at, s), kh, m, n + 1)
<1> PICK P, e : Passes(st, n, at, s, P, e)
  BY DEF Passes
<1> PICK rk : rk = Ranks(st.kh, m)
  OBVIOUS
<1> PICK sn : sn = Stynos(st.kh, m)
  OBVIOUS
<1> PICK t : t = st.trank
  OBVIOUS
<1> PICK x : x = setnspr(st, n, at, s)
  OBVIOUS
<1> PICK nr : nr = st.nrank
  OBVIOUS
<1>1. /\ rk \in [1..m -> Nat] /\ sn \in [1..m -> Nat] /\ t \in Nat \ {0}
      /\ Ordered(rk, sn, t, m) /\ st \in Rankings(m) /\ nr \in 1..t
  BY DEF RankInv
<1>2. \A p \in 1..m : (rk[p] = 0 <=> sn[p] = 0) /\ (rk[p] # 0 => p < n /\ kh[p].offs # 0)
  BY DEF RankInv, Ranks, Stynos
<1>3. /\ e \in 1..t /\ P \in SUBSET (1..m) /\ n \notin P
      /\ \A p \in 1..m : p \in P <=> rk[p] >= e
      /\ \A p \in P : at <= sn[p]
      /\ \A p \in 1..m : rk[p] # 0 /\ p \notin P => sn[p] <= at
  <2>1. \A PP, ee : Passes(st, n, at, s, PP, ee) =>
            /\ ee \in 1..st.trank /\ PP \in SUBSET (1..m) /\ n \notin PP
            /\ \A p \in 1..m : p \in PP <=> Ranks(st.kh, m)[p] >= ee
            /\ \A p \in PP : at <= Stynos(st.kh, m)[p]
            /\ \A p \in 1..m : Ranks(st.kh, m)[p] # 0 /\ p \notin PP => Stynos(st.kh, m)[p] <= at
    BY PassedAreLast
  <2> QED
    BY <2>1
<1>4. /\ x \in Rankings(m) /\ x.trank = t + 1 /\ x.nrank \in {nr, nr + 1, e}
      /\ x.kh = [p \in 1..m |->
                    IF p = n THEN [st.kh[p] EXCEPT !.styno = at, !.rank = e]
                    ELSE IF p \in P THEN [st.kh[p] EXCEPT !.rank = @ + 1]
                    ELSE st.kh[p]]
  <2>1. Passes(st, n, at, s, P, e) /\ at \in Nat /\ st \in Rankings(m)
    BY <1>1
  <2>2. /\ setnspr(st, n, at, s).trank = st.trank + 1
        /\ setnspr(st, n, at, s).nrank \in {st.nrank, st.nrank + 1, e}
        /\ setnspr(st, n, at, s).kh = PassedOver(st.kh, m, n, at, P, e)
        /\ setnspr(st, n, at, s) \in Rankings(m)
    BY ONLY m \in Nat, n \in 1..m, <2>1, SetnsprParts
  <2> QED
    BY <2>2 DEF PassedOver
<1> DEFINE rk2 == [p \in 1..m |-> IF p = n THEN e ELSE IF p \in P THEN rk[p] + 1 ELSE rk[p]]
           sn2 == [p \in 1..m |-> IF p = n THEN at ELSE sn[p]]
<1>5. st.kh \in [1..m -> Cand]
  BY <1>1 DEF Rankings
<1>6. \A p \in 1..m : st.kh[p] \in Cand /\ rk[p] = st.kh[p].rank /\ sn[p] = st.kh[p].styno
  BY <1>5 DEF Ranks, Stynos
<1>7. ASSUME NEW p \in 1..m
      PROVE  /\ x.kh[p].rank = rk2[p] /\ x.kh[p].styno = sn2[p]
             /\ x.kh[p].offs = st.kh[p].offs /\ x.kh[p].mode = st.kh[p].mode
  <2> PICK k \in Cand : k = st.kh[p]
    BY <1>6
  <2>1. k.rank = rk[p] /\ k.styno = sn[p]
    BY <1>6
  <2>2. x.kh[p] = IF p = n THEN [k EXCEPT !.styno = at, !.rank = e]
                  ELSE IF p \in P THEN [k EXCEPT !.rank = @ + 1] ELSE k
    BY <1>4
  <2>3. /\ [k EXCEPT !.styno = at, !.rank = e].rank = e
        /\ [k EXCEPT !.styno = at, !.rank = e].styno = at
        /\ [k EXCEPT !.styno = at, !.rank = e].offs = k.offs
        /\ [k EXCEPT !.styno = at, !.rank = e].mode = k.mode
        /\ [k EXCEPT !.rank = @ + 1].rank = k.rank + 1
        /\ [k EXCEPT !.rank = @ + 1].styno = k.styno
        /\ [k EXCEPT !.rank = @ + 1].offs = k.offs
        /\ [k EXCEPT !.rank = @ + 1].mode = k.mode
    BY DEF Cand
  <2> QED
    BY <1>3, <2>1, <2>2, <2>3
<1>8. rk2 = Ranks(x.kh, m) /\ sn2 = Stynos(x.kh, m)
  BY <1>7 DEF Ranks, Stynos
<1>9. rk2 \in [1..m -> Int]
  BY <1>1, <1>3
<1>10. rk[n] = 0
  BY <1>1, <1>2
<1>11. Ordered(rk2, sn2, t + 1, m) /\ rk2 \in [1..m -> Nat]
  <2>1. Inserting(m, rk, sn, t, n, at, e, P)
    <3>1. at \in Nat /\ n \in 1..m /\ m \in Nat
      OBVIOUS
    <3> QED
      BY ONLY <1>1, <1>3, <1>10, <3>1 DEF Inserting
  <2>2. rk2 = InsertRank(m, rk, n, e, P) /\ sn2 = InsertStyno(m, sn, n, at)
    BY DEF InsertRank, InsertStyno
  <2> HIDE DEF rk2, sn2
  <2> QED
    BY <2>1, <2>2, Inserted
<1>12. sn2 \in [1..m -> Nat]
  BY <1>1
<1>13. x.nrank \in 1..(t + 1)
  <2>1. nr \in Int /\ t \in Int /\ e \in Int /\ 1 <= nr /\ nr <= t /\ 1 <= e /\ e <= t
    BY ONLY <1>1, <1>3
  <2>2. x.nrank = nr \/ x.nrank = nr + 1 \/ x.nrank = e
    BY ONLY <1>4
  <2> QED
    BY ONLY <2>1, <2>2
<1>14. ASSUME NEW p \in 1..m
       PROVE  /\ rk2[p] = 0 <=> sn2[p] = 0
              /\ rk2[p] # 0 => p < n + 1 /\ kh[p].offs # 0
  BY <1>1, <1>2, <1>3
<1>15. \A p \in 1..m : st.kh[p].offs = kh[p].offs /\ st.kh[p].mode = kh[p].mode
  BY DEF RankInv
<1>16. \A p \in 1..m : rk2[p] = x.kh[p].rank /\ sn2[p] = x.kh[p].styno
  BY <1>7
<1>17. x.trank \in Nat \ {0}
  <2>1. t \in Nat /\ x.trank = t + 1
    BY ONLY <1>1, <1>4
  <2> QED
    BY ONLY <2>1
<1> HIDE DEF rk2, sn2
<1>18. \A p \in 1..m :
         /\ x.kh[p].offs = kh[p].offs /\ x.kh[p].mode = kh[p].mode
         /\ x.kh[p].rank = 0 <=> x.kh[p].styno = 0
         /\ x.kh[p].rank # 0 => p < n + 1 /\ kh[p].offs # 0
  <2> SUFFICES ASSUME NEW p \in 1..m
               PROVE  /\ x.kh[p].offs = kh[p].offs /\ x.kh[p].mode = kh[p].mode
                      /\ x.kh[p].rank = 0 <=> x.kh[p].styno = 0
                      /\ x.kh[p].rank # 0 => p < n + 1 /\ kh[p].offs # 0
    OBVIOUS
  <2>1. x.kh[p].offs = kh[p].offs /\ x.kh[p].mode = kh[p].mode
    BY <1>7, <1>15
  <2>2. /\ rk2[p] = 0 <=> sn2[p] = 0
        /\ rk2[p] # 0 => p < n + 1 /\ kh[p].offs # 0
    BY <1>14
  <2>3. rk2[p] = x.kh[p].rank /\ sn2[p] = x.kh[p].styno
    BY <1>16
  <2> QED
    BY <2>1, <2>2, <2>3
<1>19. /\ x \in Rankings(m) /\ x.nrank \in 1..x.trank
       /\ Ranks(x.kh, m) \in [1..m -> Nat] /\ Stynos(x.kh, m) \in [1..m -> Nat]
       /\ Ordered(Ranks(x.kh, m), Stynos(x.kh, m), x.trank, m)
  BY ONLY <1>4, <1>8, <1>11, <1>12, <1>13
<1>20. RankInv(x, kh, m, n + 1)
  BY ONLY <1>17, <1>18, <1>19 DEF RankInv
<1> QED
  BY <1>20

----------------------------------------------------------------------------
(* The study table                                                          *)

\* The places of the table are none or those of entries.
Table(stdy) == DOMAIN stdy \subseteq Nat \ {0}

\* A place that is found in the table is a place of an entry.
LEMMA Searched ==
    ASSUME NEW stdy, Table(stdy), NEW key
    PROVE  /\ srchstdy(stdy, key) \in {0} \cup DOMAIN stdy
           /\ srchstdy(stdy, key) \in Nat
           /\ srchstdy(stdy, key) # 0 => key[2] # 0 /\ stdy[srchstdy(stdy, key)].key = key
<1> DEFINE at == {k \in DOMAIN stdy : stdy[k].key = key}
<1>1. CASE key[2] = 0 \/ at = {}
  BY <1>1 DEF srchstdy
<1>2. CASE ~(key[2] = 0 \/ at = {})
  <2> PICK x : x = CHOOSE k \in at : TRUE
    OBVIOUS
  <2>1. x \in at
    BY <1>2
  <2>2. srchstdy(stdy, key) = x
    BY <1>2 DEF srchstdy
  <2> QED
    BY <1>2, <2>1, <2>2 DEF Table
<1> QED
  BY <1>1, <1>2

\* Candidates that were not ranked.
Unranked(kh, m) ==
    kh \in [1..m -> Cand] /\ \A p \in 1..m : kh[p].rank = 0 /\ kh[p].styno = 0

\* setstynum has looked at all candidates when it is done.
LEMMA Setstynum ==
    ASSUME NEW m \in Nat, NEW kh, Unranked(kh, m), NEW an, NEW stdy, Table(stdy)
    PROVE  RankInv(setstynum(an, kh, stdy), kh, m, m + 1)
<1> DEFINE S == Rankings(m)
           ranked(st, n) == LET at == srchstdy(stdy, Key(an, kh[n]))
                            IN  IF at = 0 THEN st ELSE setnspr(st, n, at, stdy[at])
           seq == [n \in DOMAIN kh |-> n]
           base == [kh |-> kh, trank |-> 1, nrank |-> 1]
           Def(g) == g = [s \in SUBSET (DOMAIN seq) |->
                            IF s = {} THEN base ELSE ranked(g[s \ {Max(s)}], seq[Max(s)])]
           step == [x \in (1..m) \X S |-> ranked(x[2], x[1])]
<1>1. setstynum(an, kh, stdy) = (CHOOSE g : Def(g))[DOMAIN seq]
  BY DEF setstynum, FoldLeft, MapThenFoldSet
<1>2. /\ kh \in [1..m -> Cand] /\ DOMAIN kh = 1..m /\ DOMAIN seq = 1..m
      /\ \A n \in 1..m : seq[n] = n
      /\ \A n \in 1..m : kh[n] \in Cand /\ kh[n].rank = 0 /\ kh[n].styno = 0
  BY DEF Unranked
<1>3. base \in S
  BY <1>2 DEF Rankings
<1>4. ASSUME NEW n \in 1..m, NEW st \in S PROVE ranked(st, n) \in S
  <2> PICK at : at = srchstdy(stdy, Key(an, kh[n]))
    OBVIOUS
  <2>1. at \in Nat
    BY Searched
  <2>2. PICK P, e : Passes(st, n, at, stdy[at], P, e)
    BY DEF Passes
  <2>3. setnspr(st, n, at, stdy[at]) \in Rankings(m)
    BY <2>1, <2>2, SetnsprParts
  <2> QED
    BY <2>3
<1> HIDE DEF S, ranked, base
<1>5. step \in [(1..m) \X S -> S] /\ \A n \in 1..m, st \in S : step[<<n, st>>] = ranked(st, n)
  BY <1>4
<1> HIDE DEF step
<1>6. PICK g : Folds(g, S, base, m, step)
  BY <1>3, <1>5, FoldExists
<1>7. Def(g)
  <2>1. /\ g \in [SUBSET (1..m) -> S]
        /\ \A s \in SUBSET (1..m) :
              g[s] = IF s = {} THEN base ELSE step[<<Max(s), g[s \ {Max(s)}]>>]
    BY <1>6 DEF Folds
  <2>2. \A s \in SUBSET (1..m) : s # {} => Max(s) \in 1..m /\ s \ {Max(s)} \in SUBSET (1..m)
    BY LastIndex
  <2>3. \A s \in SUBSET (1..m) :
           g[s] = IF s = {} THEN base ELSE ranked(g[s \ {Max(s)}], seq[Max(s)])
    <3> SUFFICES ASSUME NEW s \in SUBSET (1..m), s # {}
                 PROVE  g[s] = ranked(g[s \ {Max(s)}], seq[Max(s)])
      BY <2>1
    <3>1. Max(s) \in 1..m /\ g[s \ {Max(s)}] \in S /\ seq[Max(s)] = Max(s)
      BY <1>2, <2>1, <2>2
    <3>2. g[s] = step[<<Max(s), g[s \ {Max(s)}]>>]
      BY <2>1
    <3> HIDE DEF seq
    <3> QED
      BY <1>5, <3>1, <3>2
  <2> HIDE DEF seq
  <2> QED
    BY <1>2, <2>1, <2>3
<1> PICK c : c = CHOOSE x : Def(x)
  OBVIOUS
<1>8. Def(c)
  <2> HIDE DEF Def
  <2> QED
    BY <1>7
<1>9. PICK h : Iterates(h, S, base, m, step) /\ c[1..m] = h[m]
  <2> HIDE DEF seq
  <2>1. c[{}] = base
    <3>1. {} \in SUBSET (DOMAIN seq)
      OBVIOUS
    <3> QED
      BY <1>8, <3>1
  <2>2. ASSUME NEW s \in SUBSET (1..m), s # {}, c[s \ {Max(s)}] \in S
        PROVE  c[s] = step[<<Max(s), c[s \ {Max(s)}]>>]
    <3>1. Max(s) \in 1..m
      BY <2>2, LastIndex
    <3>0. s \in SUBSET (DOMAIN seq)
      BY <1>2
    <3>2. c[s] = ranked(c[s \ {Max(s)}], seq[Max(s)])
      BY ONLY <1>8, <2>2, <3>0
    <3>3. Max(s) \in 1..m /\ seq[Max(s)] = Max(s)
      BY <1>2, <3>1
    <3>4. step[<<Max(s), c[s \ {Max(s)}]>>] = ranked(c[s \ {Max(s)}], Max(s))
      BY ONLY <1>5, <2>2, <3>3
    <3> QED
      BY ONLY <3>2, <3>3, <3>4
  <2>3. base \in S /\ m \in Nat /\ step \in [(1..m) \X S -> S]
    BY <1>3, <1>5
  <2> HIDE DEF Def
  <2>4. FoldedBy(c, S, base, m, step)
    <3>1. \A s \in SUBSET (1..m) : s # {} /\ c[s \ {Max(s)}] \in S =>
              c[s] = step[<<Max(s), c[s \ {Max(s)}]>>]
      BY ONLY <2>2
    <3> QED
      BY ONLY <2>1, <2>3, <3>1, Zenon DEF FoldedBy
  <2> QED
    BY ONLY <2>4, FoldChain
<1> DEFINE T == {k \in Nat : k <= m => RankInv(h[k], kh, m, k + 1)}
<1>10. 0 \in T
  <2>1. h[0] = base
    BY <1>9 DEF Iterates
  <2>2. /\ base.kh = kh /\ base.trank = 1 /\ base.nrank = 1 /\ base \in Rankings(m)
    BY <1>3 DEF base, S
  <2>3. /\ Ranks(kh, m) = [p \in 1..m |-> 0] /\ Stynos(kh, m) = [p \in 1..m |-> 0]
    BY <1>2 DEF Ranks, Stynos
  <2>4. Ordered([p \in 1..m |-> 0], [p \in 1..m |-> 0], 1, m)
    BY DEF Ordered
  <2>5. RankInv(base, kh, m, 0 + 1)
    BY <1>2, <2>2, <2>3, <2>4 DEF RankInv
  <2> QED
    BY <2>1, <2>5
<1>11. ASSUME NEW k \in T PROVE k + 1 \in T
  <2>1. k \in Nat /\ (k <= m => RankInv(h[k], kh, m, k + 1))
    OBVIOUS
  <2> SUFFICES ASSUME k + 1 <= m PROVE RankInv(h[k + 1], kh, m, (k + 1) + 1)
    BY <2>1
  <2> HIDE DEF T
  <2> PICK n \in 1..m : n = k + 1
    BY <2>1
  <2> PICK st : st = h[k]
    OBVIOUS
  <2>2. RankInv(st, kh, m, n)
    BY <2>1
  <2>3. h[n] = step[<<n, st>>] /\ st \in S
    <3>1. n - 1 = k /\ k \in 0..m
      BY <2>1
    <3> QED
      BY <1>9, <3>1 DEF Iterates
  <2>4. h[n] = ranked(st, n)
    BY <1>5, <2>3
  <2> PICK at : at = srchstdy(stdy, Key(an, kh[n]))
    OBVIOUS
  <2>5. RankInv(ranked(st, n), kh, m, n + 1)
    <3>1. CASE at = 0
      <4>1. ranked(st, n) = st
        BY <3>1 DEF ranked
      <4>2. RankInv(st, kh, m, n + 1)
        BY <2>2 DEF RankInv
      <4> QED
        BY <4>1, <4>2
    <3>2. CASE at # 0
      <4>1. at \in Nat \ {0} /\ kh[n].offs # 0
        BY <3>2, Searched DEF Key
      <4>2. ranked(st, n) = setnspr(st, n, at, stdy[at])
        BY <3>2 DEF ranked
      <4> QED
        BY <2>2, <4>1, <4>2, RankInvStep
    <3> QED
      BY <3>1, <3>2
  <2> QED
    BY <2>4, <2>5
<1>12. T \subseteq Nat
  OBVIOUS
<1> HIDE DEF T
<1>13. RankInv(h[m], kh, m, m + 1)
  <2>1. m \in T
    BY <1>10, <1>11, <1>12, SetInduction
  <2> QED
    BY <2>1 DEF T
<1>14. setstynum(an, kh, stdy) = h[m]
  <2> HIDE DEF seq, Def
  <2> QED
    BY <1>1, <1>2, <1>9
<1> QED
  BY <1>13, <1>14

----------------------------------------------------------------------------
(* The numbers and the rest (regetrank)                                     *)

\* What regetrank makes of the ranks: the numbers are put in front of the word
\* at nrank, the rest behind all.
Unchosen(st, m) == {n \in 1..m : st.kh[n].rank = 0}
Numbers(st, m) == {n \in 1..m : IsNum(st.kh[n])}
NumbersAhead(st, m) == IF st.nrank < st.trank THEN Cardinality(Numbers(st, m)) ELSE 0
Moved1(st, m, n) ==
    IF n \notin Unchosen(st, m)
    THEN IF st.kh[n].rank >= st.nrank THEN st.kh[n].rank + NumbersAhead(st, m)
         ELSE st.kh[n].rank
    ELSE IF st.nrank < st.trank /\ n \in Numbers(st, m)
    THEN st.nrank + Before(n, Unchosen(st, m) \cap Numbers(st, m))
    ELSE st.trank + NumbersAhead(st, m)
         + Before(n, IF st.nrank < st.trank THEN Unchosen(st, m) \ Numbers(st, m)
                     ELSE Unchosen(st, m))

\* regetrank changes the ranks and nothing else.
LEMMA Regetrank ==
    ASSUME NEW m \in Nat, NEW st \in Rankings(m)
    PROVE  /\ DOMAIN regetrank(st) = 1..m
           /\ regetrank(st) = [n \in 1..m |-> [st.kh[n] EXCEPT !.rank = Moved1(st, m, n)]]
           /\ \A n \in 1..m : regetrank(st)[n].rank = Moved1(st, m, n)
<1>1. st.kh \in [1..m -> Cand] /\ DOMAIN st.kh = 1..m
  BY DEF Rankings
<1>2. regetrank(st) = [n \in 1..m |-> [st.kh[n] EXCEPT !.rank = Moved1(st, m, n)]]
  BY <1>1 DEF regetrank, Moved1, Unchosen, Numbers, NumbersAhead, Before
<1>3. ASSUME NEW n \in 1..m, NEW r PROVE [st.kh[n] EXCEPT !.rank = r].rank = r
  <2>1. st.kh[n] \in Cand
    BY <1>1
  <2> QED
    BY <2>1 DEF Cand
<1>4. ASSUME NEW n \in 1..m PROVE regetrank(st)[n].rank = Moved1(st, m, n)
  BY <1>2, <1>3
<1> QED
  BY <1>2, <1>4

\* Two sets that have nothing in common.
LEMMA TwoParts ==
    ASSUME NEW S, NEW R, IsFiniteSet(S), IsFiniteSet(R), S \cap R = {}
    PROVE  /\ Cardinality(S) \in Nat /\ Cardinality(R) \in Nat
           /\ Cardinality(S \cup R) = Cardinality(S) + Cardinality(R)
<1>1. Cardinality(S) \in Nat /\ Cardinality(R) \in Nat
  BY FS_CardinalityType
<1>2. Cardinality(S \cup R) = Cardinality(S) + Cardinality(R) - Cardinality(S \cap R)
  BY FS_Union
<1>3. Cardinality(S \cap R) = 0
  BY FS_EmptySet
<1> PICK a \in Nat : a = Cardinality(S)
  BY <1>1
<1> PICK b \in Nat : b = Cardinality(R)
  BY <1>1
<1>4. Cardinality(S \cup R) = a + b - 0
  BY <1>2, <1>3
<1>5. a + b - 0 = a + b
  OBVIOUS
<1> QED
  BY <1>1, <1>4, <1>5

\* The ranked ones are as many as there are ranks.
LEMMA HowMany ==
    ASSUME NEW m \in Nat, NEW rk \in [1..m -> Nat], NEW sn, NEW t \in Nat \ {0},
           Ordered(rk, sn, t, m)
    PROVE  /\ Cardinality({n \in 1..m : rk[n] = 0}) = m - (t - 1)
           /\ {rk[n] : n \in {i \in 1..m : rk[i] # 0}} = 1..(t - 1)
<1> DEFINE R == {n \in 1..m : rk[n] # 0}
           U == {n \in 1..m : rk[n] = 0}
           f == [p \in R |-> rk[p]]
<1>1. /\ \A p \in R : f[p] \in 1..(t - 1)
      /\ \A p, q \in R : f[p] = f[q] => p = q
      /\ \A r \in 1..(t - 1) : \E p \in R : f[p] = r
  <2>1. \A p \in R : rk[p] \in 0..(t - 1) /\ rk[p] # 0
    BY DEF Ordered
  <2>2. \A p, q \in R : f[p] = f[q] => p = q
    BY DEF Ordered
  <2>3. ASSUME NEW r \in 1..(t - 1) PROVE \E p \in R : f[p] = r
    <3>1. PICK p \in 1..m : rk[p] = r
      BY DEF Ordered
    <3> QED
      BY <3>1
  <2> QED
    BY <2>1, <2>2, <2>3
<1>2. f \in Bijection(R, 1..(t - 1))
  <2>1. f \in [R -> 1..(t - 1)]
    BY <1>1
  <2> HIDE DEF f, R
  <2> QED
    BY <1>1, <2>1 DEF Bijection, Injection, Surjection, IsInjective
<1>3. IsFiniteSet(R) /\ IsFiniteSet(U) /\ Cardinality(R) \in Nat /\ Cardinality(U) \in Nat
  BY PartOfRange
<1>4. Cardinality(R) = t - 1
  <2>1. ExistsBijection(R, 1..(t - 1))
    BY <1>2 DEF ExistsBijection
  <2>2. Cardinality(R) = Cardinality(1..(t - 1))
    BY <1>3, <2>1, FS_Bijection
  <2>3. Cardinality(1..(t - 1)) = IF 1 > t - 1 THEN 0 ELSE (t - 1) - 1 + 1
    BY FS_Interval
  <2> QED
    BY <2>2, <2>3
<1>5. Cardinality(R \cup U) = Cardinality(R) + Cardinality(U)
  <2>1. R \cap U = {}
    OBVIOUS
  <2> HIDE DEF R, U
  <2> QED
    BY <1>3, <2>1, TwoParts
<1>6. R \cup U = 1..m
  OBVIOUS
<1>7. Cardinality(1..m) = m
  <2>1. Cardinality(1..m) = IF 1 > m THEN 0 ELSE m - 1 + 1
    BY FS_Interval
  <2> QED
    BY <2>1
<1>8. Cardinality(U) = m - (t - 1)
  <2> HIDE DEF R, U
  <2> PICK u \in Nat : u = Cardinality(U)
    BY <1>3
  <2>1. m = (t - 1) + u
    BY <1>4, <1>5, <1>6, <1>7
  <2>2. u = m - (t - 1)
    BY ONLY t \in Nat \ {0}, m \in Nat, u \in Nat, <2>1
  <2> QED
    BY <2>2
<1>9. {rk[n] : n \in R} = 1..(t - 1)
  <2>1. \A n \in R : f[n] = rk[n]
    OBVIOUS
  <2> HIDE DEF R, f
  <2>2. \A n \in R : rk[n] \in 1..(t - 1)
    BY <1>1, <2>1
  <2>3. \A r \in 1..(t - 1) : \E n \in R : rk[n] = r
    BY <1>1, <2>1
  <2> QED
    BY <2>2, <2>3
<1> QED
  BY <1>8, <1>9

\* The ranks that getrank gives are the places of the candidates.
LEMMA RanksPermute ==
    ASSUME NEW m \in Nat, NEW kh, NEW st, RankInv(st, kh, m, m + 1)
    PROVE  {Moved1(st, m, n) : n \in 1..m} = 1..m
<1> PICK rk : rk = Ranks(st.kh, m)
  OBVIOUS
<1> PICK t : t = st.trank
  OBVIOUS
<1> PICK nr : nr = st.nrank
  OBVIOUS
<1> PICK U : U = Unchosen(st, m)
  OBVIOUS
<1> PICK N : N = Numbers(st, m)
  OBVIOUS
<1>1. /\ rk \in [1..m -> Nat] /\ t \in Nat \ {0} /\ nr \in 1..t
      /\ Ordered(rk, Stynos(st.kh, m), t, m)
  BY DEF RankInv
<1>2. \A n \in 1..m : rk[n] = st.kh[n].rank
  BY DEF Ranks
<1>3. U = {n \in 1..m : rk[n] = 0}
  BY <1>2 DEF Unchosen
<1>4. N \subseteq U
  <2>1. \A n \in 1..m : rk[n] # 0 => st.kh[n].offs # 0
    BY <1>2 DEF RankInv
  <2> QED
    BY <1>3, <2>1 DEF Numbers, IsNum
<1>5. Cardinality(U) = m - (t - 1) /\ {rk[n] : n \in {i \in 1..m : rk[i] # 0}} = 1..(t - 1)
  <2>1. /\ Cardinality({n \in 1..m : rk[n] = 0}) = m - (t - 1)
        /\ {rk[n] : n \in {i \in 1..m : rk[i] # 0}} = 1..(t - 1)
    BY ONLY m \in Nat, <1>1, HowMany
  <2> QED
    BY <1>3, <2>1
<1> DEFINE f == [n \in 1..m |-> Moved1(st, m, n)]
           R == {i \in 1..m : rk[i] # 0}
<1>6. U \in SUBSET (1..m) /\ N \in SUBSET (1..m) /\ U \ N \in SUBSET (1..m)
  BY <1>3, <1>4
<1>7. /\ Cardinality(U) \in Nat /\ Cardinality(N) \in Nat /\ Cardinality(U \ N) \in Nat
      /\ IsFiniteSet(U) /\ IsFiniteSet(N) /\ IsFiniteSet(U \ N)
  BY <1>6, PartOfRange
<1>8. /\ {Before(n, U) : n \in U} = 0..(Cardinality(U) - 1)
      /\ {Before(n, N) : n \in N} = 0..(Cardinality(N) - 1)
      /\ {Before(n, U \ N) : n \in U \ N} = 0..(Cardinality(U \ N) - 1)
  BY <1>6, CountBelow
<1>9. Cardinality(U) = Cardinality(N) + Cardinality(U \ N)
  <2>1. N \cup (U \ N) = U /\ N \cap (U \ N) = {}
    BY <1>4
  <2>2. Cardinality(N \cup (U \ N)) = Cardinality(N) + Cardinality(U \ N)
    BY <1>7, <2>1, TwoParts
  <2> QED
    BY <2>1, <2>2
<1>10. R \cup U = 1..m /\ R \cap U = {}
  BY <1>3
<1>11. R = {i \in 1..m : rk[i] # 0}
  OBVIOUS
<1> PICK u \in Nat : u = Cardinality(U)
  BY <1>7
<1> PICK nn \in Nat : nn = Cardinality(N)
  BY <1>7
<1>12. /\ u = m - (t - 1) /\ Cardinality(U \ N) = u - nn /\ nn <= u
       /\ t \in Nat /\ t # 0 /\ nr \in Nat /\ nr # 0 /\ nr <= t
  <2> PICK w \in Nat : w = Cardinality(U \ N)
    BY <1>7
  <2>1. u = nn + w
    BY <1>9
  <2>2. w = u - nn /\ nn <= u
    BY ONLY <2>1, u \in Nat, w \in Nat, nn \in Nat
  <2>3. u = m - (t - 1)
    BY <1>5
  <2> QED
    BY <1>1, <2>2, <2>3
<1>13. CASE ~(nr < t)
  <2>1. \A n \in R : Moved1(st, m, n) = rk[n]
    <3> SUFFICES ASSUME NEW n \in R PROVE Moved1(st, m, n) = rk[n]
      OBVIOUS
    <3>1. n \notin U /\ n \in 1..m /\ rk[n] \in Nat
      BY <1>1, <1>3
    <3>2. NumbersAhead(st, m) = 0
      BY <1>13 DEF NumbersAhead
    <3> QED
      BY <1>2, <3>1, <3>2 DEF Moved1
  <2>2. \A n \in U : Moved1(st, m, n) = t + Before(n, U)
    <3> SUFFICES ASSUME NEW n \in U PROVE Moved1(st, m, n) = t + Before(n, U)
      OBVIOUS
    <3>1. NumbersAhead(st, m) = 0
      BY <1>13 DEF NumbersAhead
    <3>2. Moved1(st, m, n) = t + 0 + Before(n, U)
      BY <1>13, <3>1 DEF Moved1
    <3> QED
      BY <1>12, <3>2
  <2>3. {Moved1(st, m, n) : n \in R} = 1..(t - 1)
    BY <1>5, <2>1
  <2>4. {Moved1(st, m, n) : n \in U} = t..m
    <3>1. \A n \in U : Before(n, U) \in 0..(u - 1)
      BY <1>8
    <3>2. \A k \in 0..(u - 1) : \E n \in U : Before(n, U) = k
      BY <1>8
    <3>3. \A n \in U : Moved1(st, m, n) \in t..m
      BY <1>12, <2>2, <3>1
    <3>4. ASSUME NEW k \in t..m PROVE \E n \in U : Moved1(st, m, n) = k
      <4>1. k - t \in 0..(u - 1) /\ t + (k - t) = k
        BY <1>12
      <4> QED
        BY <2>2, <3>2, <4>1
    <3> QED
      BY <3>3, <3>4
  <2>5. 1..(t - 1) \cup t..m = 1..m
    BY <1>12
  <2>6. {Moved1(st, m, n) : n \in 1..m}
          = {Moved1(st, m, n) : n \in R} \cup {Moved1(st, m, n) : n \in U}
    <3> HIDE DEF R
    <3> QED
      BY <1>10
  <2> QED
    BY <2>3, <2>4, <2>5, <2>6
<1>14. CASE nr < t
  <2>0. NumbersAhead(st, m) = nn
    BY <1>14 DEF NumbersAhead
  <2>1. \A n \in R : Moved1(st, m, n) = IF rk[n] >= nr THEN rk[n] + nn ELSE rk[n]
    <3> SUFFICES ASSUME NEW n \in R
                 PROVE  Moved1(st, m, n) = IF rk[n] >= nr THEN rk[n] + nn ELSE rk[n]
      OBVIOUS
    <3>1. n \notin U /\ n \in 1..m
      BY <1>3
    <3> QED
      BY <1>2, <2>0, <3>1 DEF Moved1
  <2>2. \A n \in N : Moved1(st, m, n) = nr + Before(n, N)
    <3> SUFFICES ASSUME NEW n \in N PROVE Moved1(st, m, n) = nr + Before(n, N)
      OBVIOUS
    <3>1. n \in U /\ U \cap N = N
      BY <1>4
    <3> QED
      BY <1>14, <3>1 DEF Moved1
  <2>3. \A n \in U \ N : Moved1(st, m, n) = t + nn + Before(n, U \ N)
    <3> SUFFICES ASSUME NEW n \in U \ N PROVE Moved1(st, m, n) = t + nn + Before(n, U \ N)
      OBVIOUS
    <3> QED
      BY <1>14, <2>0 DEF Moved1
  <2>4. /\ \A n \in R : rk[n] \in 1..(t - 1)
        /\ \A r \in 1..(t - 1) : \E n \in R : rk[n] = r
    BY <1>5
  <2>5. /\ \A n \in N : Before(n, N) \in 0..(nn - 1)
        /\ \A k \in 0..(nn - 1) : \E n \in N : Before(n, N) = k
        /\ \A n \in U \ N : Before(n, U \ N) \in 0..((u - nn) - 1)
        /\ \A k \in 0..((u - nn) - 1) : \E n \in U \ N : Before(n, U \ N) = k
    <3>1. /\ {Before(n, N) : n \in N} = 0..(nn - 1)
          /\ {Before(n, U \ N) : n \in U \ N} = 0..((u - nn) - 1)
      BY <1>8, <1>12
    <3> QED
      BY ONLY <3>1
  <2> HIDE DEF R
  <2>6. ASSUME NEW n \in 1..m PROVE Moved1(st, m, n) \in 1..m
    <3>1. CASE n \in R
      <4>1. rk[n] \in 1..(t - 1) /\ Moved1(st, m, n) = IF rk[n] >= nr THEN rk[n] + nn ELSE rk[n]
        BY <2>1, <2>4, <3>1
      <4> QED
        BY <1>12, <4>1
    <3>2. CASE n \in N
      <4>1. Before(n, N) \in 0..(nn - 1) /\ Moved1(st, m, n) = nr + Before(n, N)
        BY <2>2, <2>5, <3>2
      <4> QED
        BY <1>12, <4>1
    <3>3. CASE n \in U \ N
      <4>1. /\ Before(n, U \ N) \in 0..((u - nn) - 1)
            /\ Moved1(st, m, n) = t + nn + Before(n, U \ N)
        BY <2>3, <2>5, <3>3
      <4> QED
        BY <1>12, <4>1
    <3> QED
      BY <1>10, <3>1, <3>2, <3>3
  <2>7. ASSUME NEW k \in 1..m PROVE \E n \in 1..m : Moved1(st, m, n) = k
    <3>1. CASE k < nr
      <4>1. k \in 1..(t - 1)
        BY <1>12, <3>1
      <4>2. PICK n \in R : rk[n] = k
        BY <2>4, <4>1
      <4>3. Moved1(st, m, n) = IF rk[n] >= nr THEN rk[n] + nn ELSE rk[n]
        BY <2>1, <4>2
      <4> QED
        BY <1>10, <1>12, <3>1, <4>2, <4>3
    <3>2. CASE k >= nr /\ k < nr + nn
      <4>1. k - nr \in 0..(nn - 1) /\ nr + (k - nr) = k
        BY <1>12, <3>2
      <4>2. PICK n \in N : Before(n, N) = k - nr
        BY <2>5, <4>1
      <4>3. Moved1(st, m, n) = nr + Before(n, N)
        BY <2>2
      <4>4. n \in 1..m
        BY <1>6
      <4> QED
        BY <4>1, <4>2, <4>3, <4>4
    <3>3. CASE k >= nr + nn /\ k < t + nn
      <4>1. k - nn \in 1..(t - 1) /\ k - nn >= nr /\ (k - nn) + nn = k
        BY <1>12, <3>3
      <4>2. PICK n \in R : rk[n] = k - nn
        BY <2>4, <4>1
      <4>3. Moved1(st, m, n) = IF rk[n] >= nr THEN rk[n] + nn ELSE rk[n]
        BY <2>1, <4>2
      <4>4. n \in 1..m
        BY <1>10
      <4> QED
        BY <4>1, <4>2, <4>3, <4>4
    <3>4. CASE k >= t + nn
      <4>1. k - (t + nn) \in 0..((u - nn) - 1) /\ t + nn + (k - (t + nn)) = k
        BY <1>12, <3>4
      <4>2. PICK n \in U \ N : Before(n, U \ N) = k - (t + nn)
        BY <2>5, <4>1
      <4>3. Moved1(st, m, n) = t + nn + Before(n, U \ N)
        BY <2>3
      <4>4. n \in 1..m
        BY <1>6
      <4> QED
        BY <4>1, <4>2, <4>3, <4>4
    <3> QED
      BY <1>12, <3>1, <3>2, <3>3, <3>4
  <2> QED
    BY <2>6, <2>7
<1> QED
  BY <1>13, <1>14

----------------------------------------------------------------------------
(* The table of candidates *)

Cands == {kh \in Seq(Cand) : Len(kh) <= MAXKOUHONUMBER
                             /\ \A p \in 1..Len(kh) : kh[p].rank = 0 /\ kh[p].styno = 0}
Filled == Cands \ {<<>>}

\* There is room for a candidate.
LEMMA FewCandidates == MAXKOUHONUMBER \in Nat /\ MAXKOUHONUMBER # 0
BY KouhoAssumption

\* A new candidate is not ranked.
LEMMA FreshCandidate ==
    ASSUME NEW an, NEW c \in Nat, NEW offs \in Nat, NEW mode \in Nat
    PROVE  LET k == KHREC(an, c, offs, mode)
           IN  /\ k \in Cand /\ k.rank = 0 /\ k.styno = 0
               /\ [k EXCEPT !.sttkj = 1] \in Cand
               /\ [k EXCEPT !.sttkj = 1].rank = 0 /\ [k EXCEPT !.sttkj = 1].styno = 0
<1> DEFINE rec == Jnode(an, c)
<1>1. /\ Bit(rec.ka \/ an.cl[c].fzk_ka) \in Nat /\ Bit(rec.ka) \in Nat
      /\ Bit(rec.sttofs # 0 /\ Prefix[rec.sttofs].kanji) \in Nat
  <2> HIDE DEF rec
  <2>1. \A b : Bit(b) \in Nat
    BY DEF Bit
  <2> QED
    BY <2>1
<1> PICK x \in Nat : x = Bit(rec.ka \/ an.cl[c].fzk_ka)
  BY <1>1
<1> PICK y \in Nat : y = Bit(rec.ka)
  BY <1>1
<1> PICK z \in Nat : z = Bit(rec.sttofs # 0 /\ Prefix[rec.sttofs].kanji)
  BY <1>1
<1>2. KHREC(an, c, offs, mode) =
        [cl |-> c, offs |-> offs, mode |-> mode, rank |-> 0, styno |-> 0,
         ka_fg |-> x, ka_kj |-> y, sttfg |-> z, sttkj |-> 0]
  BY DEF KHREC
<1> HIDE DEF rec
<1>3. [cl |-> c, offs |-> offs, mode |-> mode, rank |-> 0, styno |-> 0,
         ka_fg |-> x, ka_kj |-> y, sttfg |-> z, sttkj |-> 0] \in Cand
  BY DEF Cand
<1>4. [[cl |-> c, offs |-> offs, mode |-> mode, rank |-> 0, styno |-> 0,
         ka_fg |-> x, ka_kj |-> y, sttfg |-> z, sttkj |-> 0] EXCEPT !.sttkj = 1] \in Cand
  BY DEF Cand
<1> QED
  BY <1>2, <1>3, <1>4

\* Candidates are added as long as there is room, and then no more.
LEMMA MoreCandidates ==
    ASSUME NEW kh \in Cands, NEW more \in Seq(Cand), more # <<>>,
           \A p \in 1..Len(more) : more[p].rank = 0 /\ more[p].styno = 0,
           NEW all, all = kh \o more
    PROVE  (IF Len(all) > MAXKOUHONUMBER THEN SubSeq(all, 1, MAXKOUHONUMBER) ELSE all) \in Filled
<1>1. /\ kh \in Seq(Cand) /\ Len(kh) \in Nat /\ Len(more) \in Nat /\ Len(more) # 0
      /\ \A p \in 1..Len(kh) : kh[p].rank = 0 /\ kh[p].styno = 0
  BY EmptySeq DEF Cands
<1>2. /\ all \in Seq(Cand) /\ Len(all) = Len(kh) + Len(more)
      /\ \A p \in 1..Len(all) : all[p] = IF p <= Len(kh) THEN kh[p] ELSE more[p - Len(kh)]
  BY <1>1, ConcatProperties
<1> PICK n \in Nat : n = Len(kh)
  BY <1>1
<1> PICK x \in Nat : x = Len(more) /\ x # 0
  BY <1>1
<1>3. ASSUME NEW p \in 1..Len(all) PROVE all[p].rank = 0 /\ all[p].styno = 0
  <2>1. CASE p <= n
    <3>1. p \in 1..Len(kh) /\ all[p] = kh[p]
      BY <1>2, <2>1
    <3> QED
      BY <1>1, <3>1
  <2>2. CASE ~(p <= n)
    <3>1. p - n \in 1..x /\ all[p] = more[p - n]
      BY <1>2, <2>2
    <3> QED
      BY <3>1
  <2> QED
    BY <2>1, <2>2
<1> PICK m \in Nat : m = MAXKOUHONUMBER /\ m # 0
  BY FewCandidates
<1>4. CASE Len(all) > m
  <2> PICK s : s = SubSeq(all, 1, m)
    OBVIOUS
  <2>1. m <= Len(all) /\ Len(all) \in Nat
    BY <1>2, <1>4
  <2>2. s \in Seq(Cand) /\ Len(s) = m /\ \A p \in 1..m : s[p] = all[p]
    <3>1. /\ SubSeq(all, 1, m) \in Seq(Cand)
          /\ Len(SubSeq(all, 1, m)) = IF 1 <= m THEN m - 1 + 1 ELSE 0
          /\ \A i \in 1..(m - 1 + 1) : SubSeq(all, 1, m)[i] = all[1 + i - 1]
      <4>1. \A i \in 1..m : all[i] \in Cand
        BY <1>2, <2>1
      <4> QED
        BY ONLY m \in Nat, <4>1, SubSeqProperties
    <3>2. m - 1 + 1 = m /\ 1 <= m /\ \A i \in 1..m : 1 + i - 1 = i
      OBVIOUS
    <3> QED
      BY <3>1, <3>2
  <2>3. \A p \in 1..m : s[p].rank = 0 /\ s[p].styno = 0
    BY <1>3, <2>1, <2>2
  <2>4. s # <<>>
    BY <2>2
  <2>5. /\ s \in Seq(Cand) /\ Len(s) <= MAXKOUHONUMBER
        /\ \A p \in 1..Len(s) : s[p].rank = 0 /\ s[p].styno = 0
    <3>1. Len(s) = m /\ m = MAXKOUHONUMBER /\ m <= m
      BY <2>2
    <3> QED
      BY ONLY <2>2, <2>3, <3>1
  <2>6. s \in Filled
    BY ONLY <2>4, <2>5 DEF Filled, Cands
  <2> QED
    BY <1>4, <2>6
<1>5. CASE ~(Len(all) > m)
  <2>1. Len(all) = n + x
    BY <1>2
  <2>2. all # <<>> /\ Len(all) <= m
    BY <1>5, <2>1, <1>2
  <2>3. all \in Filled
    BY <1>2, <1>3, <2>2 DEF Filled, Cands
  <2> QED
    BY <1>5, <2>3
<1> QED
  BY <1>4, <1>5

\* setkouho adds one.
LEMMA Setkouho ==
    ASSUME NEW an, NEW kh \in Cands, NEW c \in Nat, NEW offs \in Nat, NEW mode \in Nat
    PROVE  setkouho(an, kh, c, offs, mode) \in Filled
<1> PICK k : k = KHREC(an, c, offs, mode)
  OBVIOUS
<1> PICK k2 : k2 = [k EXCEPT !.sttkj = 1]
  OBVIOUS
<1>1. k \in Cand /\ k2 \in Cand /\ k.rank = 0 /\ k.styno = 0 /\ k2.rank = 0 /\ k2.styno = 0
  BY FreshCandidate
<1> DEFINE one == <<k>>
           two == <<k, k2>>
<1>2. /\ one \in Seq(Cand) /\ one # <<>> /\ Len(one) = 1 /\ one[1] = k
      /\ two \in Seq(Cand) /\ two # <<>> /\ Len(two) = 2 /\ two[1] = k /\ two[2] = k2
  BY <1>1
<1> PICK more : more = IF k.sttfg = 0 \/ (offs # 0 /\ Spelling(an, k).hira) THEN one ELSE two
  OBVIOUS
<1>3. more \in Seq(Cand) /\ more # <<>>
      /\ \A p \in 1..Len(more) : more[p].rank = 0 /\ more[p].styno = 0
  <2>1. more = one \/ more = two
    OBVIOUS
  <2> HIDE DEF one, two
  <2>2. CASE more = one
    <3>1. \A p \in 1..1 : p = 1
      OBVIOUS
    <3> QED
      BY ONLY <1>1, <1>2, <2>2, <3>1
  <2>3. CASE more = two
    <3>1. \A p \in 1..2 : p = 1 \/ p = 2
      OBVIOUS
    <3> QED
      BY ONLY <1>1, <1>2, <2>3, <3>1
  <2> QED
    BY <2>1, <2>2, <2>3
<1>4. setkouho(an, kh, c, offs, mode) =
        IF Len(kh \o more) > MAXKOUHONUMBER THEN SubSeq(kh \o more, 1, MAXKOUHONUMBER)
        ELSE kh \o more
  BY DEF setkouho
<1> QED
  BY <1>3, <1>4, MoreCandidates

----------------------------------------------------------------------------
(* What an analysis names                                                   *)

\* What the dictionaries and the numbers have, the analysis may name.
Named(rec) ==
    /\ rec.class = "dict" => rec.n \in DOMAIN Word
    /\ rec.class = "num" => rec.n \in DOMAIN Numeral

\* A word has a spelling, and one for each place.
LEMMA Spelled ==
    ASSUME NEW w \in DOMAIN Word
    PROVE  \E m \in Nat \ {0} : DOMAIN Word[w].kanji = 1..m
<1>1. Word[w].kanji \in Seq(Range(Word[w].kanji)) /\ Word[w].kanji # <<>>
  BY KouhoAssumption
<1> PICK s : s = Word[w].kanji
  OBVIOUS
<1>2. Len(s) \in Nat \ {0} /\ DOMAIN s = 1..Len(s)
  BY <1>1, EmptySeq
<1> QED
  BY <1>2

\* The spellings of a word.
LEMMA ClKanji ==
    ASSUME NEW an, NEW kh \in Cands, NEW c \in Nat,
           NEW w, w = WordOf(Jnode(an, c)), w \in DOMAIN Word
    PROVE  cl_kanji(an, kh, c) \in Filled
<1>m. PICK m \in Nat \ {0} : DOMAIN Word[w].kanji = 1..m
  BY Spelled
<1> DEFINE S == IF kh = <<>> THEN Cands ELSE Filled
<1> DEFINE op(l, x) == IF diffknj(an, l, c, x, Len(kh)) THEN setkouho(an, l, c, x, 0) ELSE l
           seq == [i \in DOMAIN Word[WordOf(Jnode(an, c))].kanji |-> i]
           Def(g) == g = [s \in SUBSET (DOMAIN seq) |->
                            IF s = {} THEN kh ELSE op(g[s \ {Max(s)}], seq[Max(s)])]
           step == [x \in (1..m) \X S |-> op(x[2], seq[x[1]])]
<1>1. cl_kanji(an, kh, c) = (CHOOSE g : Def(g))[DOMAIN seq]
  BY DEF cl_kanji, FoldLeft, MapThenFoldSet
<1>2. DOMAIN seq = 1..m
  BY <1>m
<1>3. kh \in S
  BY DEF Filled
<1>f. ASSUME NEW n \in 1..m, NEW l \in S PROVE op(l, seq[n]) \in Filled
  <2>1. seq[n] = n
    BY <1>m
  <2>2. l \in Cands
    BY DEF Filled
  <2>3. setkouho(an, l, c, n, 0) \in Filled
    BY <2>2, Setkouho
  <2>4. CASE kh = <<>>
    <3>1. ~(\E k \in 1..Len(kh) : TRUE)
      BY <2>4
    <3>2. diffknj(an, l, c, n, Len(kh))
      BY <3>1 DEF diffknj
    <3> QED
      BY <2>1, <2>3, <3>2
  <2>5. CASE kh # <<>>
    BY <2>1, <2>3, <2>5
  <2> QED
    BY <2>4, <2>5
<1>4. ASSUME NEW n \in 1..m, NEW l \in S PROVE op(l, seq[n]) \in S
  BY <1>f DEF Filled
<1> HIDE DEF op, seq, S
<1>5. /\ step \in [(1..m) \X S -> S]
      /\ \A n \in 1..m, l \in S : step[<<n, l>>] = op(l, seq[n])
  BY <1>4
<1> HIDE DEF step
<1>6. \E g : Def(g)
  <2>1. PICK g : Folds(g, S, kh, m, step)
    BY <1>3, <1>5, FoldExists
  <2>2. /\ g \in [SUBSET (1..m) -> S]
        /\ \A s \in SUBSET (1..m) :
              g[s] = IF s = {} THEN kh ELSE step[<<Max(s), g[s \ {Max(s)}]>>]
    BY <2>1 DEF Folds
  <2>3. ASSUME NEW s \in SUBSET (1..m), s # {} PROVE g[s] = op(g[s \ {Max(s)}], seq[Max(s)])
    <3>1. Max(s) \in 1..m /\ g[s \ {Max(s)}] \in S
      BY <2>2, <2>3, LastIndex
    <3>2. g[s] = step[<<Max(s), g[s \ {Max(s)}]>>]
      BY <2>2, <2>3
    <3> QED
      BY <1>5, <3>1, <3>2
  <2>4. g[{}] = kh
    BY <2>2
  <2> QED
    BY <1>2, <2>2, <2>3, <2>4
<1> PICK fld : fld = CHOOSE x : Def(x)
  OBVIOUS
<1>7. Def(fld)
  <2> HIDE DEF Def
  <2> QED
    BY <1>6
<1>8. FoldedBy(fld, S, kh, m, step)
  <2>1. fld[{}] = kh
    <3>1. {} \in SUBSET (DOMAIN seq)
      OBVIOUS
    <3> QED
      BY <1>7, <3>1
  <2>2. ASSUME NEW s \in SUBSET (1..m), s # {}, fld[s \ {Max(s)}] \in S
        PROVE  fld[s] = step[<<Max(s), fld[s \ {Max(s)}]>>]
    <3>1. Max(s) \in 1..m /\ s \in SUBSET (DOMAIN seq)
      BY <1>2, <2>2, LastIndex
    <3>2. fld[s] = op(fld[s \ {Max(s)}], seq[Max(s)])
      BY ONLY <1>7, <2>2, <3>1
    <3> PICK x : x = fld[s \ {Max(s)}]
      OBVIOUS
    <3>3. step[<<Max(s), x>>] = op(x, seq[Max(s)])
      BY <1>5, <2>2, <3>1
    <3> QED
      BY <3>2, <3>3
  <2> HIDE DEF Def
  <2>3. \A s \in SUBSET (1..m) : s # {} /\ fld[s \ {Max(s)}] \in S =>
            fld[s] = step[<<Max(s), fld[s \ {Max(s)}]>>]
    BY ONLY <2>2
  <2>4. kh \in S /\ m \in Nat /\ step \in [(1..m) \X S -> S]
    BY <1>3, <1>5
  <2> QED
    BY ONLY <2>1, <2>3, <2>4, Zenon DEF FoldedBy
<1>9. PICK h : Iterates(h, S, kh, m, step) /\ fld[1..m] = h[m]
  <2> HIDE DEF Def
  <2>1. \E h : Iterates(h, S, kh, m, step) /\ fld[1..m] = h[m]
    BY ONLY <1>8, FoldChain
  <2> QED
    BY <2>1
<1>10. cl_kanji(an, kh, c) = h[m]
  <2> HIDE DEF Def
  <2> QED
    BY <1>1, <1>2, <1>9
<1>12. CASE m # 0
  <2>1. m \in 1..m /\ m - 1 \in 0..m
    BY <1>12
  <2>2. h[m] = step[<<m, h[m - 1]>>] /\ h[m - 1] \in S
    BY <1>9, <2>1 DEF Iterates
  <2>3. h[m] = op(h[m - 1], seq[m])
    BY <1>5, <2>1, <2>2
  <2>4. h[m] \in Filled
    BY <1>f, <2>1, <2>2, <2>3
  <2> QED
    BY <1>10, <1>12, <2>4
<1> QED
  BY <1>m, <1>12

----------------------------------------------------------------------------
(* Selecting places, and the ways to write a number                         *)

\* What SelectIdx finds: places of s that are in Ok, and all of them.
Picks(r, n, Ok) ==
    /\ r \in Seq(Ok \cap (1..n))
    /\ \A k \in Ok \cap (1..n) : \E i \in 1..Len(r) : r[i] = k

\* SelectIdx picks the places that are in Ok, all of them and in order.
LEMMA Selects ==
    ASSUME NEW s, Len(s) \in Nat, NEW Ok
    PROVE  Picks(SelectIdx(s, Ok), Len(s), Ok)
<1> PICK m \in Nat : m = Len(s)
  OBVIOUS
<1> DEFINE D == Ok \cap (1..m)
           S == Seq(D)
           step == [x \in Nat \X S |-> IF x[1] \in D THEN Append(x[2], x[1]) ELSE x[2]]
           Def(F) == F = [k \in 0..m |-> IF k = 0 THEN <<>>
                                         ELSE IF k \in Ok THEN Append(F[k - 1], k) ELSE F[k - 1]]
<1>1. SelectIdx(s, Ok) = (CHOOSE F : Def(F))[m]
  BY DEF SelectIdx
<1>2. <<>> \in S
  OBVIOUS
<1>3. step \in [Nat \X S -> S]
  <2>1. \A n \in D, l \in S : Append(l, n) \in S
    OBVIOUS
  <2> HIDE DEF S, D
  <2> QED
    BY <2>1
<1>4. \A n \in 1..m, l \in S : step[<<n, l>>] = IF n \in Ok THEN Append(l, n) ELSE l
  OBVIOUS
<1> HIDE DEF step, S
<1>5. PICK g : Iterates(g, S, <<>>, m, step)
  BY ONLY <1>2, <1>3, m \in Nat, Iterated
<1>6. /\ g \in [0..m -> S] /\ g[0] = <<>>
      /\ \A n \in 1..m : g[n] = step[<<n, g[n - 1]>>]
  BY <1>5 DEF Iterates
<1>7. ASSUME NEW k \in 1..m
      PROVE  k - 1 \in 0..m /\ g[k - 1] \in S
             /\ g[k] = IF k \in Ok THEN Append(g[k - 1], k) ELSE g[k - 1]
  <2>1. k - 1 \in 0..m
    OBVIOUS
  <2>2. g[k - 1] \in S /\ g[k] = step[<<k, g[k - 1]>>]
    BY <1>6, <2>1
  <2> QED
    BY <1>4, <2>1, <2>2
<1>8. Def(g)
  <2>1. \A k \in 0..m : g[k] = IF k = 0 THEN <<>>
                               ELSE IF k \in Ok THEN Append(g[k - 1], k) ELSE g[k - 1]
    <3>1. \A k \in 0..m : k = 0 \/ k \in 1..m
      OBVIOUS
    <3> QED
      BY <1>6, <1>7, <3>1
  <2> QED
    BY ONLY <1>6, <2>1
<1> PICK f : f = CHOOSE F : Def(F)
  OBVIOUS
<1>9. Def(f)
  <2> HIDE DEF Def
  <2> QED
    BY <1>8
<1>10. /\ f[0] = <<>>
       /\ \A k \in 1..m : f[k] = IF k \in Ok THEN Append(f[k - 1], k) ELSE f[k - 1]
  <2>1. 0 \in 0..m /\ \A k \in 1..m : k \in 0..m /\ k # 0
    OBVIOUS
  <2> QED
    BY ONLY <1>9, <2>1
<1> DEFINE Holds(k) == /\ f[k] \in Seq(D)
                       /\ \A j \in D : j <= k => \E i \in 1..Len(f[k]) : f[k][i] = j
           T == {k \in Nat : k <= m => Holds(k)}
<1> HIDE DEF Def
<1>11. 0 \in T
  <2>1. \A j \in D : ~(j <= 0)
    OBVIOUS
  <2> HIDE DEF D
  <2>2. <<>> \in Seq(D)
    OBVIOUS
  <2>3. Holds(0)
    BY <1>10, <2>1, <2>2
  <2> QED
    BY <2>3
<1>12. ASSUME NEW k \in T PROVE k + 1 \in T
  <2>1. k \in Nat /\ (k <= m => Holds(k))
    OBVIOUS
  <2> SUFFICES ASSUME k + 1 <= m PROVE Holds(k + 1)
    BY <2>1
  <2> HIDE DEF T
  <2> PICK n \in 1..m : n = k + 1
    BY <2>1
  <2> PICK l : l = f[k]
    OBVIOUS
  <2>2. /\ l \in Seq(D) /\ Len(l) \in Nat
        /\ \A j \in D : j <= k => \E i \in 1..Len(l) : l[i] = j
    BY <2>1
  <2>3. f[n] = IF n \in Ok THEN Append(l, n) ELSE l
    <3>1. n - 1 = k
      BY <2>1
    <3> QED
      BY <1>10, <3>1
  <2>4. \A j \in D : j <= n => j <= k \/ j = n
    BY <2>1
  <2>5. CASE n \in Ok
    <3>1. n \in D /\ f[n] = Append(l, n)
      BY <2>3, <2>5
    <3> HIDE DEF D
    <3>2. /\ Append(l, n) \in Seq(D) /\ Len(Append(l, n)) = Len(l) + 1
          /\ Append(l, n)[Len(l) + 1] = n
          /\ \A i \in 1..Len(l) : Append(l, n)[i] = l[i]
      BY <2>2, <3>1
    <3>3. ASSUME NEW j \in D, j <= n PROVE \E i \in 1..Len(f[n]) : f[n][i] = j
      <4>1. CASE j = n
        <5>1. Len(l) + 1 \in 1..Len(f[n]) /\ f[n][Len(l) + 1] = j
          BY <2>2, <3>1, <3>2, <4>1
        <5> QED
          BY <5>1
      <4>2. CASE j <= k
        <5>1. PICK i \in 1..Len(l) : l[i] = j
          BY <2>2, <4>2
        <5>2. i \in 1..Len(f[n]) /\ f[n][i] = j
          BY <2>2, <3>1, <3>2, <5>1
        <5> QED
          BY <5>2
      <4> QED
        BY <2>4, <3>3, <4>1, <4>2
    <3>4. f[n] \in Seq(D)
      BY <3>1, <3>2
    <3> QED
      BY <3>3, <3>4
  <2>6. CASE n \notin Ok
    <3>1. f[n] = l /\ n \notin D
      BY <2>3, <2>6
    <3> HIDE DEF D
    <3> QED
      BY <2>2, <2>4, <3>1
  <2> QED
    BY <2>5, <2>6
<1>13. T \subseteq Nat
  OBVIOUS
<1> HIDE DEF T
<1>14. Holds(m)
  <2>1. m \in T
    BY <1>11, <1>12, <1>13, SetInduction
  <2> QED
    BY <2>1 DEF T
<1>15. \A j \in D : j <= m
  OBVIOUS
<1>16. SelectIdx(s, Ok) = f[m]
  BY <1>1
<1> QED
  BY <1>14, <1>15, <1>16 DEF Picks

\* A number is written in some way.
LEMMA Written ==
    ASSUME NEW rec, rec.n \in DOMAIN Numeral
    PROVE  /\ \E m \in Nat \ {0} : DOMAIN NumModes(rec) = 1..m
           /\ \A i \in DOMAIN NumModes(rec) : NumModes(rec)[i].func \in Nat
           /\ NumModes(rec) # <<>>
<1> PICK c : c = Numeral[rec.n].class
  OBVIOUS
<1> PICK fl : fl = Numeral[rec.n].flags
  OBVIOUS
<1>1. c \in DOMAIN Sel
  BY KouhoAssumption
<1> PICK tbl : tbl = Sel[c]
  OBVIOUS
<1>2. /\ tbl \in Seq(Range(tbl)) /\ \A k \in DOMAIN tbl : tbl[k].func \in Nat
      /\ \E k \in DOMAIN tbl : tbl[k].must = {} /\ tbl[k].any = {}
  BY <1>1, KouhoAssumption
<1>3. Len(tbl) \in Nat /\ DOMAIN tbl = 1..Len(tbl)
  BY <1>2
<1> DEFINE may == {k \in DOMAIN tbl : chrck_numtbl(fl, tbl[k])}
<1> PICK ks : ks = SelectIdx(tbl, may)
  OBVIOUS
<1>4. NumModes(rec) = [i \in DOMAIN ks |-> tbl[ks[i]]]
  BY DEF NumModes
<1>5. PICK k \in may : TRUE
  <2>1. PICK k \in DOMAIN tbl : tbl[k].must = {} /\ tbl[k].any = {}
    BY <1>2
  <2>2. chrck_numtbl(fl, tbl[k])
    BY <2>1 DEF chrck_numtbl
  <2> QED
    BY <2>2
<1>6. may \subseteq 1..Len(tbl)
  BY <1>3
<1> HIDE DEF may
<1>7. /\ ks \in Seq(may \cap (1..Len(tbl)))
      /\ \E i \in 1..Len(ks) : ks[i] = k
  <2>1. Picks(ks, Len(tbl), may)
    BY <1>3, Selects
  <2>2. k \in may \cap (1..Len(tbl))
    BY <1>5, <1>6
  <2> QED
    BY <2>1, <2>2 DEF Picks
<1>8. Len(ks) \in Nat /\ Len(ks) # 0 /\ DOMAIN ks = 1..Len(ks)
      /\ \A i \in 1..Len(ks) : ks[i] \in DOMAIN tbl
  BY <1>3, <1>7
<1>9. NumModes(rec)[1].func \in Nat /\ DOMAIN NumModes(rec) = 1..Len(ks) /\ 1 \in 1..Len(ks)
  BY <1>2, <1>4, <1>8
<1>10. NumModes(rec) # <<>>
  <2>1. DOMAIN <<>> = {}
    OBVIOUS
  <2> QED
    BY <1>9, <2>1
<1>11. \A i \in DOMAIN NumModes(rec) : NumModes(rec)[i].func \in Nat
  BY <1>2, <1>4, <1>8
<1> QED
  BY <1>8, <1>9, <1>10, <1>11

\* sel_sjmode gives a way to write.
LEMMA Sjmode ==
    ASSUME NEW rec, Named(rec)
    PROVE  sel_sjmode(rec) \in Nat
<1>1. CASE rec.class # "num"
  BY <1>1, KouhoAssumption DEF sel_sjmode
<1>2. CASE rec.class = "num"
  <2>1. /\ \E m \in Nat \ {0} : DOMAIN NumModes(rec) = 1..m
        /\ \A i \in DOMAIN NumModes(rec) : NumModes(rec)[i].func \in Nat
        /\ NumModes(rec) # <<>>
    BY <1>2, Written DEF Named
  <2>2. 1 \in DOMAIN NumModes(rec)
    BY <2>1
  <2>3. NumModes(rec)[1].func \in Nat
    BY <2>1, <2>2
  <2> QED
    BY <1>2, <2>1, <2>3 DEF sel_sjmode
<1> QED
  BY <1>1, <1>2

\* A number with a counter: a candidate for each spelling and way to write it.
LEMMA ClNumWord ==
    ASSUME NEW an, NEW kh \in Cands, NEW c \in Nat,
           Jnode(an, c).class = "num", Named(Jnode(an, c)), WordOf(Jnode(an, c)) # 0
    PROVE  cl_numcmn(an, kh, c) \in Filled
<1> PICK rec : rec = Jnode(an, c)
  OBVIOUS
<1> PICK w : w = WordOf(rec)
  OBVIOUS
<1>w. w \in DOMAIN Word /\ w # 0
  BY KouhoAssumption DEF WordOf, Named
<1>m. PICK m \in Nat \ {0} : DOMAIN Word[w].kanji = 1..m
  BY <1>w, Spelled
<1>j. sel_sjmode(rec) \in Nat
  BY Sjmode
<1> DEFINE op(l, x) == setkouho(an, l, c, x, sel_sjmode(rec))
           seq == [i \in DOMAIN Word[w].kanji |-> i]
           Def(g) == g = [s \in SUBSET (DOMAIN seq) |->
                            IF s = {} THEN kh ELSE op(g[s \ {Max(s)}], seq[Max(s)])]
           step == [x \in (1..m) \X Cands |-> op(x[2], seq[x[1]])]
<1>1. cl_numcmn(an, kh, c) = (CHOOSE g : Def(g))[DOMAIN seq]
  BY <1>w DEF cl_numcmn, FoldLeft, MapThenFoldSet
<1>2. DOMAIN seq = 1..m
  BY <1>m
<1>3. kh \in Cands
  OBVIOUS
<1>f. ASSUME NEW n \in 1..m, NEW l \in Cands PROVE op(l, seq[n]) \in Filled
  <2>1. seq[n] = n
    BY <1>m
  <2>2. setkouho(an, l, c, n, sel_sjmode(rec)) \in Filled
    BY <1>j, Setkouho
  <2> QED
    BY <2>1, <2>2
<1>4. ASSUME NEW n \in 1..m, NEW l \in Cands PROVE op(l, seq[n]) \in Cands
  BY <1>f DEF Filled
<1> HIDE DEF op, seq
<1>5. /\ step \in [(1..m) \X Cands -> Cands]
      /\ \A n \in 1..m, l \in Cands : step[<<n, l>>] = op(l, seq[n])
  BY <1>4
<1> HIDE DEF step
<1>6. \E g : Def(g)
  <2>1. PICK g : Folds(g, Cands, kh, m, step)
    BY <1>3, <1>5, FoldExists
  <2>2. /\ g \in [SUBSET (1..m) -> Cands]
        /\ \A s \in SUBSET (1..m) :
              g[s] = IF s = {} THEN kh ELSE step[<<Max(s), g[s \ {Max(s)}]>>]
    BY <2>1 DEF Folds
  <2>3. ASSUME NEW s \in SUBSET (1..m), s # {} PROVE g[s] = op(g[s \ {Max(s)}], seq[Max(s)])
    <3>1. Max(s) \in 1..m /\ g[s \ {Max(s)}] \in Cands
      BY <2>2, <2>3, LastIndex
    <3>2. g[s] = step[<<Max(s), g[s \ {Max(s)}]>>]
      BY <2>2, <2>3
    <3> QED
      BY <1>5, <3>1, <3>2
  <2>4. g[{}] = kh
    BY <2>2
  <2> QED
    BY <1>2, <2>2, <2>3, <2>4
<1> PICK fld : fld = CHOOSE x : Def(x)
  OBVIOUS
<1>7. Def(fld)
  <2> HIDE DEF Def
  <2> QED
    BY <1>6
<1>8. FoldedBy(fld, Cands, kh, m, step)
  <2>1. fld[{}] = kh
    <3>1. {} \in SUBSET (DOMAIN seq)
      OBVIOUS
    <3> QED
      BY <1>7, <3>1
  <2>2. ASSUME NEW s \in SUBSET (1..m), s # {}, fld[s \ {Max(s)}] \in Cands
        PROVE  fld[s] = step[<<Max(s), fld[s \ {Max(s)}]>>]
    <3>1. Max(s) \in 1..m /\ s \in SUBSET (DOMAIN seq)
      BY <1>2, <2>2, LastIndex
    <3>2. fld[s] = op(fld[s \ {Max(s)}], seq[Max(s)])
      BY ONLY <1>7, <2>2, <3>1
    <3> PICK x : x = fld[s \ {Max(s)}]
      OBVIOUS
    <3>3. step[<<Max(s), x>>] = op(x, seq[Max(s)])
      BY <1>5, <2>2, <3>1
    <3> QED
      BY <3>2, <3>3
  <2> HIDE DEF Def
  <2>3. \A s \in SUBSET (1..m) : s # {} /\ fld[s \ {Max(s)}] \in Cands =>
            fld[s] = step[<<Max(s), fld[s \ {Max(s)}]>>]
    BY ONLY <2>2
  <2>4. kh \in Cands /\ m \in Nat /\ step \in [(1..m) \X Cands -> Cands]
    BY <1>3, <1>5
  <2> QED
    BY ONLY <2>1, <2>3, <2>4, Zenon DEF FoldedBy
<1>9. PICK h : Iterates(h, Cands, kh, m, step) /\ fld[1..m] = h[m]
  <2> HIDE DEF Def
  <2>1. \E h : Iterates(h, Cands, kh, m, step) /\ fld[1..m] = h[m]
    BY ONLY <1>8, FoldChain
  <2> QED
    BY <2>1
<1>10. cl_numcmn(an, kh, c) = h[m]
  <2> HIDE DEF Def
  <2> QED
    BY <1>1, <1>2, <1>9
<1>12. CASE m # 0
  <2>1. m \in 1..m /\ m - 1 \in 0..m
    BY <1>12
  <2>2. h[m] = step[<<m, h[m - 1]>>] /\ h[m - 1] \in Cands
    BY <1>9, <2>1 DEF Iterates
  <2>3. h[m] = op(h[m - 1], seq[m])
    BY <1>5, <2>1, <2>2
  <2>4. h[m] \in Filled
    BY <1>f, <2>1, <2>2, <2>3
  <2> QED
    BY <1>10, <1>12, <2>4
<1> QED
  BY <1>m, <1>12

\* A number alone: a candidate for each way to write it.
LEMMA ClNumAlone ==
    ASSUME NEW an, NEW kh \in Cands, NEW c \in Nat,
           Jnode(an, c).class = "num", Named(Jnode(an, c)), WordOf(Jnode(an, c)) = 0
    PROVE  cl_numcmn(an, kh, c) \in Filled
<1> PICK rec : rec = Jnode(an, c)
  OBVIOUS
<1>n. /\ \E m \in Nat \ {0} : DOMAIN NumModes(rec) = 1..m
      /\ \A i \in DOMAIN NumModes(rec) : NumModes(rec)[i].func \in Nat
  BY Written DEF Named
<1> PICK modes : modes = NumModes(rec)
  OBVIOUS
<1>m. PICK m \in Nat \ {0} : DOMAIN modes = 1..m
  BY <1>n
<1> DEFINE op(l, x) == setkouho(an, l, c, 0, x.func)
           seq == modes
           Def(g) == g = [s \in SUBSET (DOMAIN seq) |->
                            IF s = {} THEN kh ELSE op(g[s \ {Max(s)}], seq[Max(s)])]
           step == [x \in (1..m) \X Cands |-> op(x[2], seq[x[1]])]
<1>1. cl_numcmn(an, kh, c) = (CHOOSE g : Def(g))[DOMAIN seq]
  BY DEF cl_numcmn, FoldLeft, MapThenFoldSet
<1>2. DOMAIN seq = 1..m
  BY <1>m
<1>3. kh \in Cands
  OBVIOUS
<1>f. ASSUME NEW n \in 1..m, NEW l \in Cands PROVE op(l, seq[n]) \in Filled
  <2>1. modes[n].func \in Nat
    BY <1>m, <1>n
  <2> QED
    BY <2>1, Setkouho
<1>4. ASSUME NEW n \in 1..m, NEW l \in Cands PROVE op(l, seq[n]) \in Cands
  BY <1>f DEF Filled
<1> HIDE DEF op, seq
<1>5. /\ step \in [(1..m) \X Cands -> Cands]
      /\ \A n \in 1..m, l \in Cands : step[<<n, l>>] = op(l, seq[n])
  BY <1>4
<1> HIDE DEF step
<1>6. \E g : Def(g)
  <2>1. PICK g : Folds(g, Cands, kh, m, step)
    BY <1>3, <1>5, FoldExists
  <2>2. /\ g \in [SUBSET (1..m) -> Cands]
        /\ \A s \in SUBSET (1..m) :
              g[s] = IF s = {} THEN kh ELSE step[<<Max(s), g[s \ {Max(s)}]>>]
    BY <2>1 DEF Folds
  <2>3. ASSUME NEW s \in SUBSET (1..m), s # {} PROVE g[s] = op(g[s \ {Max(s)}], seq[Max(s)])
    <3>1. Max(s) \in 1..m /\ g[s \ {Max(s)}] \in Cands
      BY <2>2, <2>3, LastIndex
    <3>2. g[s] = step[<<Max(s), g[s \ {Max(s)}]>>]
      BY <2>2, <2>3
    <3> QED
      BY <1>5, <3>1, <3>2
  <2>4. g[{}] = kh
    BY <2>2
  <2> QED
    BY <1>2, <2>2, <2>3, <2>4
<1> PICK fld : fld = CHOOSE x : Def(x)
  OBVIOUS
<1>7. Def(fld)
  <2> HIDE DEF Def
  <2> QED
    BY <1>6
<1>8. FoldedBy(fld, Cands, kh, m, step)
  <2>1. fld[{}] = kh
    <3>1. {} \in SUBSET (DOMAIN seq)
      OBVIOUS
    <3> QED
      BY <1>7, <3>1
  <2>2. ASSUME NEW s \in SUBSET (1..m), s # {}, fld[s \ {Max(s)}] \in Cands
        PROVE  fld[s] = step[<<Max(s), fld[s \ {Max(s)}]>>]
    <3>1. Max(s) \in 1..m /\ s \in SUBSET (DOMAIN seq)
      BY <1>2, <2>2, LastIndex
    <3>2. fld[s] = op(fld[s \ {Max(s)}], seq[Max(s)])
      BY ONLY <1>7, <2>2, <3>1
    <3> PICK x : x = fld[s \ {Max(s)}]
      OBVIOUS
    <3>3. step[<<Max(s), x>>] = op(x, seq[Max(s)])
      BY <1>5, <2>2, <3>1
    <3> QED
      BY <3>2, <3>3
  <2> HIDE DEF Def
  <2>3. \A s \in SUBSET (1..m) : s # {} /\ fld[s \ {Max(s)}] \in Cands =>
            fld[s] = step[<<Max(s), fld[s \ {Max(s)}]>>]
    BY ONLY <2>2
  <2>4. kh \in Cands /\ m \in Nat /\ step \in [(1..m) \X Cands -> Cands]
    BY <1>3, <1>5
  <2> QED
    BY ONLY <2>1, <2>3, <2>4, Zenon DEF FoldedBy
<1>9. PICK h : Iterates(h, Cands, kh, m, step) /\ fld[1..m] = h[m]
  <2> HIDE DEF Def
  <2>1. \E h : Iterates(h, Cands, kh, m, step) /\ fld[1..m] = h[m]
    BY ONLY <1>8, FoldChain
  <2> QED
    BY <2>1
<1>10. cl_numcmn(an, kh, c) = h[m]
  <2> HIDE DEF Def
  <2> QED
    BY <1>1, <1>2, <1>9
<1>12. CASE m # 0
  <2>1. m \in 1..m /\ m - 1 \in 0..m
    BY <1>12
  <2>2. h[m] = step[<<m, h[m - 1]>>] /\ h[m - 1] \in Cands
    BY <1>9, <2>1 DEF Iterates
  <2>3. h[m] = op(h[m - 1], seq[m])
    BY <1>5, <2>1, <2>2
  <2>4. h[m] \in Filled
    BY <1>f, <2>1, <2>2, <2>3
  <2> QED
    BY <1>10, <1>12, <2>4
<1> QED
  BY <1>m, <1>12

----------------------------------------------------------------------------
(* The candidates of a block (mkkouho)                                      *)

\* A clause adds at least one candidate.
LEMMA Getkhtbl ==
    ASSUME NEW an, NEW kh \in Cands, NEW c \in Nat,
           Named(Jnode(an, c)), Jnode(an, c).class # "bunsetu"
    PROVE  getkhtbl(an, kh, c) \in Filled
<1> PICK rec : rec = Jnode(an, c)
  OBVIOUS
<1>1. CASE rec.class = "dict"
  <2>1. WordOf(rec) = rec.n /\ rec.n \in DOMAIN Word
    BY <1>1 DEF WordOf, Named
  <2>2. cl_kanji(an, kh, c) \in Filled
    BY <2>1, ClKanji
  <2> QED
    BY <1>1, <2>2 DEF getkhtbl
<1>2. CASE rec.class = "num"
  <2>1. cl_numcmn(an, kh, c) \in Filled
    <3>1. CASE WordOf(rec) = 0
      BY <1>2, <3>1, ClNumAlone
    <3>2. CASE WordOf(rec) # 0
      BY <1>2, <3>2, ClNumWord
    <3> QED
      BY <3>1, <3>2
  <2> QED
    BY <1>2, <2>1 DEF getkhtbl
<1>3. CASE rec.class # "dict" /\ rec.class # "num"
  <2>1. setkouho(an, kh, c, 0, 0) \in Filled
    BY Setkouho
  <2> QED
    BY <1>3, <2>1 DEF getkhtbl
<1> QED
  BY <1>1, <1>2, <1>3

\* What the candidates of a clause are made of: clauses by falling length, whose
\* stems the dictionaries have, none of them a learned clause.
Listed(an) ==
    /\ Len(an.cl) \in Nat \ {0} /\ DOMAIN an.cl = 1..Len(an.cl)
    /\ \A c \in DOMAIN an.cl :
          /\ an.cl[c].cllen \in Nat
          /\ Named(Jnode(an, c)) /\ Jnode(an, c).class # "bunsetu"
          /\ \A d \in DOMAIN an.cl : c <= d => an.cl[d].cllen <= an.cl[c].cllen

\* A block reaches to the clause before the first that has another length.
LEMMA BlockEnds ==
    ASSUME NEW an, Listed(an), NEW c \in DOMAIN an.cl
    PROVE  /\ BlockFrom(an, c) \in c..Len(an.cl)
           /\ \A k \in c..BlockFrom(an, c) : an.cl[k].cllen = an.cl[c].cllen
           /\ BlockFrom(an, c) # Len(an.cl) =>
                 /\ BlockFrom(an, c) + 1 \in DOMAIN an.cl
                 /\ an.cl[BlockFrom(an, c) + 1].cllen < an.cl[c].cllen
<1> PICK n : n = Len(an.cl)
  OBVIOUS
<1>1. n \in Nat /\ c \in 1..n /\ DOMAIN an.cl = 1..n
  BY DEF Listed
<1> PICK ends : ends = {k \in c..Len(an.cl) : an.cl[k].cllen # an.cl[c].cllen}
  OBVIOUS
<1>2. CASE ends = {}
  <2>1. BlockFrom(an, c) = n
    BY <1>2 DEF BlockFrom
  <2> QED
    BY <1>1, <1>2, <2>1
<1>3. CASE ends # {}
  <2> PICK e : e = CHOOSE k \in ends : \A i \in ends : k <= i
    OBVIOUS
  <2>1. ends \subseteq Nat
    BY <1>1
  <2>2. e \in ends /\ \A i \in ends : e <= i
    BY <1>3, <2>1, LeastNatural
  <2>3. BlockFrom(an, c) = e - 1
    BY <1>3 DEF BlockFrom
  <2>0. e \in c..n /\ an.cl[e].cllen # an.cl[c].cllen
    BY ONLY <2>2, n = Len(an.cl),
            ends = {k \in c..Len(an.cl) : an.cl[k].cllen # an.cl[c].cllen}
  <2>4. /\ e \in c..n /\ e # c /\ e \in 1..n /\ c \in Nat /\ c <= e /\ c < e
        /\ an.cl[e].cllen # an.cl[c].cllen
    BY ONLY <1>1, <2>0
  <2>5. an.cl[e].cllen < an.cl[c].cllen
    <3>1. an.cl[e].cllen <= an.cl[c].cllen /\ an.cl[e].cllen # an.cl[c].cllen
          /\ an.cl[e].cllen \in Nat /\ an.cl[c].cllen \in Nat
      BY <1>1, <2>4 DEF Listed
    <3> QED
      BY <3>1
  <2>6. \A k \in c..(e - 1) : an.cl[k].cllen = an.cl[c].cllen
    <3> SUFFICES ASSUME NEW k \in c..(e - 1) PROVE an.cl[k].cllen = an.cl[c].cllen
      OBVIOUS
    <3>1. k \in c..n /\ ~(e <= k)
      BY ONLY <1>1, <2>4, k \in c..(e - 1)
    <3>2. k \notin ends
      BY ONLY <2>2, <3>1
    <3> QED
      BY ONLY <3>1, <3>2, n = Len(an.cl),
              ends = {i \in c..Len(an.cl) : an.cl[i].cllen # an.cl[c].cllen}
  <2>7. e - 1 \in c..n /\ (e - 1) + 1 = e
    BY ONLY <1>1, <2>4
  <2> QED
    BY <1>1, <2>3, <2>4, <2>5, <2>6, <2>7
<1> QED
  BY <1>2, <1>3

\* The candidates of a block are at least one and at most MAXKOUHONUMBER.
LEMMA Mkkouho ==
    ASSUME NEW an, Listed(an), NEW c \in DOMAIN an.cl
    PROVE  mkkouho(an, c) \in Filled
<1> PICK n : n = Len(an.cl)
  OBVIOUS
<1> PICK e : e = BlockFrom(an, c)
  OBVIOUS
<1>a. n \in Nat /\ c \in 1..n /\ DOMAIN an.cl = 1..n /\ e \in c..n
  BY BlockEnds DEF Listed
<1>m. PICK m \in Nat \ {0} : m = e - c + 1
  BY <1>a
<1>n. \A i \in 1..m : c + i - 1 \in 1..n
  BY <1>a, <1>m
<1> DEFINE op(l, x) == getkhtbl(an, l, x)
           seq == [i \in 1..(BlockFrom(an, c) - c + 1) |-> c + i - 1]
           Def(g) == g = [s \in SUBSET (DOMAIN seq) |->
                            IF s = {} THEN <<>> ELSE op(g[s \ {Max(s)}], seq[Max(s)])]
           step == [x \in (1..m) \X Cands |-> op(x[2], seq[x[1]])]
<1>1. mkkouho(an, c) = (CHOOSE g : Def(g))[DOMAIN seq]
  BY DEF mkkouho, FoldLeft, MapThenFoldSet
<1>2. DOMAIN seq = 1..m
  BY <1>m
<1>3. <<>> \in Cands
  <2>1. <<>> \in Seq(Cand) /\ Len(<<>>) = 0 /\ ~(\E p \in 1..0 : TRUE)
    BY EmptySeq
  <2> QED
    BY <2>1, FewCandidates DEF Cands
<1>f. ASSUME NEW n1 \in 1..m, NEW l \in Cands PROVE op(l, seq[n1]) \in Filled
  <2>1. seq[n1] = c + n1 - 1
    BY <1>m
  <2> PICK k \in 1..n : k = c + n1 - 1
    BY <1>n
  <2>2. Named(Jnode(an, k)) /\ Jnode(an, k).class # "bunsetu" /\ k \in Nat
    BY <1>a DEF Listed
  <2>3. getkhtbl(an, l, k) \in Filled
    BY <2>2, Getkhtbl
  <2> QED
    BY <2>1, <2>3
<1>4. ASSUME NEW nn \in 1..m, NEW l \in Cands PROVE op(l, seq[nn]) \in Cands
  BY <1>f DEF Filled
<1> HIDE DEF op, seq
<1>5. /\ step \in [(1..m) \X Cands -> Cands]
      /\ \A i \in 1..m, l \in Cands : step[<<i, l>>] = op(l, seq[i])
  BY <1>4
<1> HIDE DEF step
<1>6. \E g : Def(g)
  <2>1. PICK g : Folds(g, Cands, <<>>, m, step)
    BY <1>3, <1>5, FoldExists
  <2>2. /\ g \in [SUBSET (1..m) -> Cands]
        /\ \A s \in SUBSET (1..m) :
              g[s] = IF s = {} THEN <<>> ELSE step[<<Max(s), g[s \ {Max(s)}]>>]
    BY <2>1 DEF Folds
  <2>3. ASSUME NEW s \in SUBSET (1..m), s # {} PROVE g[s] = op(g[s \ {Max(s)}], seq[Max(s)])
    <3>1. Max(s) \in 1..m /\ g[s \ {Max(s)}] \in Cands
      BY <2>2, <2>3, LastIndex
    <3>2. g[s] = step[<<Max(s), g[s \ {Max(s)}]>>]
      BY <2>2, <2>3
    <3> QED
      BY <1>5, <3>1, <3>2
  <2>4. g[{}] = <<>>
    BY <2>2
  <2> QED
    BY <1>2, <2>2, <2>3, <2>4
<1> PICK fld : fld = CHOOSE x : Def(x)
  OBVIOUS
<1>7. Def(fld)
  <2> HIDE DEF Def
  <2> QED
    BY <1>6
<1>8. FoldedBy(fld, Cands, <<>>, m, step)
  <2>1. fld[{}] = <<>>
    <3>1. {} \in SUBSET (DOMAIN seq)
      OBVIOUS
    <3> QED
      BY <1>7, <3>1
  <2>2. ASSUME NEW s \in SUBSET (1..m), s # {}, fld[s \ {Max(s)}] \in Cands
        PROVE  fld[s] = step[<<Max(s), fld[s \ {Max(s)}]>>]
    <3>1. Max(s) \in 1..m /\ s \in SUBSET (DOMAIN seq)
      BY <1>2, <2>2, LastIndex
    <3>2. fld[s] = op(fld[s \ {Max(s)}], seq[Max(s)])
      BY ONLY <1>7, <2>2, <3>1
    <3> PICK x : x = fld[s \ {Max(s)}]
      OBVIOUS
    <3>3. step[<<Max(s), x>>] = op(x, seq[Max(s)])
      BY <1>5, <2>2, <3>1
    <3> QED
      BY <3>2, <3>3
  <2> HIDE DEF Def
  <2>3. \A s \in SUBSET (1..m) : s # {} /\ fld[s \ {Max(s)}] \in Cands =>
            fld[s] = step[<<Max(s), fld[s \ {Max(s)}]>>]
    BY ONLY <2>2
  <2>4. <<>> \in Cands /\ m \in Nat /\ step \in [(1..m) \X Cands -> Cands]
    BY <1>3, <1>5
  <2> QED
    BY ONLY <2>1, <2>3, <2>4, Zenon DEF FoldedBy
<1>9. PICK h : Iterates(h, Cands, <<>>, m, step) /\ fld[1..m] = h[m]
  <2> HIDE DEF Def
  <2>1. \E h : Iterates(h, Cands, <<>>, m, step) /\ fld[1..m] = h[m]
    BY ONLY <1>8, FoldChain
  <2> QED
    BY <2>1
<1>10. mkkouho(an, c) = h[m]
  <2> HIDE DEF Def
  <2> QED
    BY <1>1, <1>2, <1>9
<1>12. CASE m # 0
  <2>1. m \in 1..m /\ m - 1 \in 0..m
    BY <1>12
  <2>2. h[m] = step[<<m, h[m - 1]>>] /\ h[m - 1] \in Cands
    BY <1>9, <2>1 DEF Iterates
  <2>3. h[m] = op(h[m - 1], seq[m])
    BY <1>5, <2>1, <2>2
  <2>4. h[m] \in Filled
    BY <1>f, <2>1, <2>2, <2>3
  <2> QED
    BY <1>10, <1>12, <2>4
<1> QED
  BY <1>m, <1>12

\* The candidates of a block, in the order in which they are shown.
LEMMA RankedBlock ==
    ASSUME NEW an, Listed(an), NEW c \in DOMAIN an.cl, NEW stdy, Table(stdy),
           NEW kh, kh = getrank(an, mkkouho(an, c), stdy)
    PROVE  /\ Len(kh) \in 1..MAXKOUHONUMBER /\ DOMAIN kh = 1..Len(kh) /\ kh # <<>>
           /\ {kh[n].rank : n \in DOMAIN kh} = DOMAIN kh
<1> PICK mk : mk = mkkouho(an, c)
  OBVIOUS
<1>1. mk \in Filled
  BY Mkkouho
<1> PICK m : m = Len(mk)
  OBVIOUS
<1>2. /\ mk \in Seq(Cand) /\ m \in Nat /\ m # 0 /\ m <= MAXKOUHONUMBER
      /\ \A p \in 1..m : mk[p].rank = 0 /\ mk[p].styno = 0
  BY <1>1, EmptySeq DEF Filled, Cands
<1>3. Unranked(mk, m)
  <2>1. mk \in [1..m -> Cand]
    BY <1>2
  <2> QED
    BY <1>2, <2>1 DEF Unranked
<1> PICK st : st = setstynum(an, mk, stdy)
  OBVIOUS
<1>4. RankInv(st, mk, m, m + 1)
  BY <1>2, <1>3, Setstynum
<1>5. st \in Rankings(m)
  BY <1>4 DEF RankInv
<1>6. kh = regetrank(st)
  BY DEF getrank
<1>7. /\ DOMAIN kh = 1..m
      /\ kh = [n \in 1..m |-> [st.kh[n] EXCEPT !.rank = Moved1(st, m, n)]]
      /\ \A n \in 1..m : kh[n].rank = Moved1(st, m, n)
  BY <1>2, <1>5, <1>6, Regetrank
<1>8. {Moved1(st, m, n) : n \in 1..m} = 1..m
  BY <1>2, <1>4, RanksPermute
<1>9. {kh[n].rank : n \in 1..m} = 1..m
  BY <1>7, <1>8
<1>10. Len(kh) = m
  <2>1. kh \in Seq({kh[n] : n \in 1..m})
    <3>1. kh \in [1..m -> {kh[n] : n \in 1..m}]
      BY <1>7
    <3> QED
      BY <1>2, <3>1
  <2>2. Len(kh) \in Nat /\ DOMAIN kh = 1..Len(kh)
    BY <2>1
  <2> QED
    BY <1>2, <1>7, <2>2
<1>11. kh # <<>>
  BY <1>2, <1>10
<1> QED
  BY <1>2, <1>7, <1>9, <1>10, <1>11, FewCandidates

----------------------------------------------------------------------------
(* Parts of a text, and lists put together                                  *)

\* A run of marks ends within the text.
LEMMA Runs ==
    ASSUME NEW t \in Seq(Nat), NEW p \in Nat, NEW C, 0 \notin C
    PROVE  /\ Run(t, p, C) \in 0..Len(t)
           /\ p <= Len(t) => p + Run(t, p, C) <= Len(t)
<1> PICK L \in Nat : L = Len(t) /\ DOMAIN t = 1..L
  BY LenProperties
<1>1. \A k \in Nat : k > L => At(t, k) = 0
  BY DEF At
<1> DEFINE T == {n \in Nat : At(t, p + n + 1) \notin C}
<1>2. L \in T
  <2>1. p + L + 1 \in Nat /\ p + L + 1 > L
    OBVIOUS
  <2> QED
    BY <1>1, <2>1
<1>3. PICK n \in T : \A k \in T : n <= k
  <2>1. T # {} /\ T \subseteq Nat
    BY <1>2
  <2> HIDE DEF T
  <2> QED
    BY <2>1, LeastNatural
<1>4. n \in 0..L /\ At(t, p + n + 1) \notin C
  BY <1>2, <1>3
<1>5. \A k \in 1..n : At(t, p + k) \in C
  <2> SUFFICES ASSUME NEW k \in 1..n PROVE At(t, p + k) \in C
    OBVIOUS
  <2>1. k - 1 \in Nat /\ ~(n <= k - 1) /\ p + (k - 1) + 1 = p + k
    BY <1>4
  <2>2. k - 1 \notin T
    BY <1>3, <2>1
  <2> QED
    BY <2>1, <2>2
<1> HIDE DEF T
<1> DEFINE P(r) == /\ \A k \in 1..r : At(t, p + k) \in C
                   /\ At(t, p + r + 1) \notin C
<1>6. \E r \in 0..L : P(r)
  BY <1>4, <1>5
<1> PICK r : r = Run(t, p, C)
  OBVIOUS
<1>7. r = CHOOSE x \in 0..L : P(x)
  BY DEF Run
<1>8. r \in 0..L /\ P(r)
  <2> HIDE DEF P
  <2> QED
    BY <1>6, <1>7
<1>9. ASSUME p <= L PROVE p + r <= L
  <2>1. CASE r = 0
    BY <1>9, <2>1
  <2>2. CASE r # 0
    <3>1. r \in 1..r /\ p + r \in Nat
      BY <1>8, <2>2
    <3>2. At(t, p + r) \in C
      BY <1>8, <3>1
    <3>3. ~(p + r > L)
      BY <1>1, <3>1, <3>2
    <3> QED
      BY <3>1, <3>3
  <2> QED
    BY <2>1, <2>2
<1> QED
  BY <1>8, <1>9

\* One list behind another.
LEMMA Joined ==
    ASSUME NEW S, NEW x \in Seq(S), NEW y \in Seq(S), NEW z, z = x \o y
    PROVE  /\ z \in Seq(S)
           /\ \A k \in DOMAIN x : k \in DOMAIN z /\ z[k] = x[k]
           /\ \A k \in DOMAIN y : Len(x) + k \in DOMAIN z /\ z[Len(x) + k] = y[k]
<1> PICK a, b : a = Len(x) /\ b = Len(y)
  OBVIOUS
<1>1. /\ a \in Nat /\ b \in Nat /\ DOMAIN x = 1..a /\ DOMAIN y = 1..b
  BY LenProperties
<1>2. z \in Seq(S) /\ Len(z) = a + b
  BY ConcatProperties
<1>3. \A k \in 1..(a + b) : z[k] = IF k <= a THEN x[k] ELSE y[k - a]
  BY ConcatProperties
<1>4. DOMAIN z = 1..(a + b)
  BY <1>2, LenProperties
<1>5. ASSUME NEW k \in 1..a PROVE k \in 1..(a + b) /\ z[k] = x[k]
  BY <1>1, <1>3
<1>6. ASSUME NEW k \in 1..b PROVE a + k \in 1..(a + b) /\ z[a + k] = y[k]
  <2>1. a + k \in 1..(a + b) /\ ~(a + k <= a) /\ (a + k) - a = k
    BY <1>1
  <2> QED
    BY <1>3, <2>1
<1> QED
  BY <1>1, <1>2, <1>4, <1>5, <1>6

\* What is in lists is in the list they are put together to, and nothing else.
LEMMA Flattened ==
    ASSUME NEW S, NEW s \in Seq(Seq(S))
    PROVE  /\ Concat(s) \in Seq(S)
           /\ \A i \in DOMAIN s : \A k \in DOMAIN s[i] :
                 \E n \in DOMAIN Concat(s) : Concat(s)[n] = s[i][k]
<1> PICK m \in Nat : m = Len(s) /\ DOMAIN s = 1..m
  BY LenProperties
<1>1. CASE m = 0
  <2>1. Concat(s) = s /\ s = <<>> /\ DOMAIN s = {}
    BY <1>1, EmptySeq DEF Concat, FlattenSeq
  <2>2. <<>> \in Seq(S)
    BY EmptySeq
  <2> QED
    BY <2>1, <2>2
<1>2. CASE m # 0
  <2> DEFINE V == Seq(S)
             step == [x \in Nat \X V |-> IF x[1] \in 1..m THEN x[2] \o s[x[1]] ELSE x[2]]
             Def(F) == F = [i \in 1..m |-> IF i = 1 THEN s[i] ELSE F[i - 1] \o s[i]]
  <2>1. Concat(s) = (CHOOSE F : Def(F))[m]
    BY <1>2 DEF Concat, FlattenSeq
  <2>2. \A i \in 1..m : s[i] \in V
    OBVIOUS
  <2>3. <<>> \in V /\ \A x, y \in V : x \o y \in V
    BY EmptySeq, ConcatProperties DEF V
  <2>4. \A x \in V : <<>> \o x = x
    BY ConcatEmptySeq
  <2> HIDE DEF V
  <2>5. step \in [Nat \X V -> V]
        /\ \A n \in 1..m, x \in V : step[<<n, x>>] = x \o s[n]
    <3>1. ASSUME NEW x \in Nat \X V
          PROVE  (IF x[1] \in 1..m THEN x[2] \o s[x[1]] ELSE x[2]) \in V
      <4>1. x[2] \in V
        OBVIOUS
      <4> QED
        BY <2>2, <2>3, <4>1
    <3>2. step \in [Nat \X V -> V]
      BY <3>1
    <3>3. ASSUME NEW n \in 1..m, NEW x \in V PROVE step[<<n, x>>] = x \o s[n]
      <4>1. <<n, x>> \in Nat \X V
        OBVIOUS
      <4>2. step[<<n, x>>] = IF <<n, x>>[1] \in 1..m THEN <<n, x>>[2] \o s[<<n, x>>[1]]
                             ELSE <<n, x>>[2]
        BY <4>1
      <4> QED
        BY <4>2
    <3> QED
      BY <3>2, <3>3
  <2> HIDE DEF step
  <2>6. \E F : Def(F)
    <3>1. PICK h : Iterates(h, V, <<>>, m, step)
      BY <2>3, <2>5, Iterated
    <3>2. /\ h \in [0..m -> V] /\ h[0] = <<>>
          /\ \A n \in 1..m : h[n] = step[<<n, h[n - 1]>>]
      BY <3>1 DEF Iterates
    <3> DEFINE F == [i \in 1..m |-> h[i]]
    <3>3. ASSUME NEW i \in 1..m PROVE h[i] = IF i = 1 THEN s[i] ELSE F[i - 1] \o s[i]
      <4>0. i - 1 \in 0..m
        OBVIOUS
      <4>1. h[i - 1] \in V
        BY <3>2, <4>0
      <4>2. h[i] = h[i - 1] \o s[i]
        BY <2>5, <3>2, <4>1
      <4>3. CASE i = 1
        BY <2>2, <2>4, <3>2, <4>2, <4>3
      <4>4. CASE i # 1
        <5>1. i - 1 \in 1..m
          BY <4>4
        <5> QED
          BY <4>2, <4>4, <5>1
      <4> QED
        BY <4>3, <4>4
    <3>4. F = [i \in 1..m |-> IF i = 1 THEN s[i] ELSE F[i - 1] \o s[i]]
      BY <3>3
    <3> HIDE DEF F
    <3> QED
      BY <3>4
  <2> PICK flat : flat = CHOOSE F : Def(F)
    OBVIOUS
  <2>7. Def(flat)
    <3> HIDE DEF Def
    <3> QED
      BY <2>6
  <2>8. \A i \in 1..m : flat[i] = IF i = 1 THEN s[i] ELSE flat[i - 1] \o s[i]
    BY <2>7
  <2>9. Concat(s) = flat[m]
    <3> HIDE DEF Def
    <3> QED
      BY <2>1
  <2> HIDE DEF Def
  <2> DEFINE Has(i, k, r) == \E n \in DOMAIN r : r[n] = s[i][k]
             T == {n \in Nat : n \in 1..m =>
                      /\ flat[n] \in V
                      /\ \A i \in 1..n : \A k \in DOMAIN s[i] : Has(i, k, flat[n])}
  <2>10. 0 \in T
    OBVIOUS
  <2>11. ASSUME NEW n \in T PROVE n + 1 \in T
    <3>0. n \in Nat /\ n + 1 \in Nat
      OBVIOUS
    <3> SUFFICES ASSUME n + 1 \in 1..m
                 PROVE  /\ flat[n + 1] \in V
                        /\ \A i \in 1..(n + 1) : \A k \in DOMAIN s[i] : Has(i, k, flat[n + 1])
      BY <3>0
    <3>1. CASE n = 0
      <4>1. flat[1] = s[1] /\ n + 1 = 1
        BY <2>8, <3>1
      <4>2. \A i \in 1..(n + 1) : i = 1
        BY <3>1
      <4> QED
        BY <2>2, <4>1, <4>2
    <3>2. CASE n # 0
      <4>1. n \in 1..m /\ n + 1 # 1 /\ (n + 1) - 1 = n
        BY <3>0, <3>2
      <4> PICK x, y, z : x = flat[n] /\ y = s[n + 1] /\ z = flat[n + 1]
        OBVIOUS
      <4>2. z = x \o y
        BY <2>8, <4>1
      <4>3. x \in V /\ y \in V
        BY <2>2, <4>1
      <4>4. /\ z \in V
            /\ \A k \in DOMAIN x : k \in DOMAIN z /\ z[k] = x[k]
            /\ \A k \in DOMAIN y : Len(x) + k \in DOMAIN z /\ z[Len(x) + k] = y[k]
        <5>1. x \in Seq(S) /\ y \in Seq(S)
          BY <4>3 DEF V
        <5>2. /\ z \in Seq(S)
              /\ \A k \in DOMAIN x : k \in DOMAIN z /\ z[k] = x[k]
              /\ \A k \in DOMAIN y : Len(x) + k \in DOMAIN z /\ z[Len(x) + k] = y[k]
          BY ONLY <4>2, <5>1, Joined
        <5> QED
          BY <5>2 DEF V
      <4>5. ASSUME NEW i \in 1..(n + 1), NEW k \in DOMAIN s[i] PROVE Has(i, k, z)
        <5>1. CASE i = n + 1
          <6>1. k \in DOMAIN y /\ y[k] = s[i][k]
            BY <5>1
          <6> QED
            BY <4>4, <6>1
        <5>2. CASE i # n + 1
          <6>1. i \in 1..n
            BY <4>1, <5>2
          <6>2. PICK q \in DOMAIN x : x[q] = s[i][k]
            BY <4>1, <6>1
          <6>3. q \in DOMAIN z /\ z[q] = x[q]
            BY <4>4
          <6> QED
            BY <6>2, <6>3
        <5> QED
          BY <5>1, <5>2
      <4> HIDE DEF Has
      <4> QED
        BY <4>4, <4>5
    <3> QED
      BY <3>1, <3>2
  <2>12. T \subseteq Nat
    OBVIOUS
  <2> HIDE DEF T
  <2>13. m \in T
    BY <2>10, <2>11, <2>12, SetInduction
  <2>14. m \in 1..m
    BY <1>2
  <2>15. /\ flat[m] \in V
         /\ \A i \in 1..m : \A k \in DOMAIN s[i] : \E n \in DOMAIN flat[m] : flat[m][n] = s[i][k]
    BY <2>13, <2>14 DEF T
  <2>16. DOMAIN s = 1..m
    OBVIOUS
  <2>17. flat[m] \in Seq(S)
    BY <2>15 DEF V
  <2> PICK c : c = Concat(s)
    OBVIOUS
  <2>18. /\ c \in Seq(S)
         /\ \A i \in DOMAIN s : \A k \in DOMAIN s[i] : \E n \in DOMAIN c : c[n] = s[i][k]
    BY ONLY c = Concat(s), <2>9, <2>15, <2>16, <2>17
  <2> QED
    BY <2>18
<1> QED
  BY <1>1, <1>2

----------------------------------------------------------------------------
(* Stems                                                                    *)

\* The stems of a text of L characters: what they name is there, they do not
\* reach beyond the text, and a learned one ends behind its boundary.
Stems(L, learned) ==
    {r \in [class : {"dict", "bunsetu", "num", "wakachi"}, n : Nat, jlen : 0..L,
            hinsi : Hinsi, sttofs : {0} \cup DOMAIN Prefix, stbofs : Nat, ka : BOOLEAN] :
        /\ Named(r)
        /\ r.class = "bunsetu" =>
              /\ learned /\ r.n \in DOMAIN Block
              /\ Block[r.n].y1len \in 1..(r.jlen - 1)
        /\ r.stbofs # 0 => r.stbofs \in DOMAIN Suffix[r.hinsi]}

\* An insertion keeps to the kind of what is listed.
LEMMA Inserted1 ==
    ASSUME NEW S, NEW s \in Seq(S), NEW i \in 1..(Len(s) + 1), NEW e \in S
    PROVE  /\ InsertAt(s, i, e) \in Seq(S) /\ Len(InsertAt(s, i, e)) = Len(s) + 1
           /\ \A k \in 1..(Len(s) + 1) :
                 InsertAt(s, i, e)[k] = IF k < i THEN s[k] ELSE IF k = i THEN e ELSE s[k - 1]
<1> PICK m \in Nat : m = Len(s) /\ DOMAIN s = 1..m
  BY LenProperties
<1> PICK a, b, c : a = SubSeq(s, 1, i - 1) /\ b = SubSeq(s, i, m) /\ c = <<e>>
  OBVIOUS
<1>0. i \in 1..(m + 1) /\ i - 1 \in Nat
  OBVIOUS
<1>1. a \in Seq(S) /\ Len(a) = i - 1 /\ \A k \in 1..(i - 1) : a[k] = s[k]
  <2>1. 1 \in Int /\ i - 1 \in Int
    BY <1>0
  <2>2. \A k \in 1..(i - 1) : s[k] \in S
    BY <1>0
  <2>3. /\ SubSeq(s, 1, i - 1) \in Seq(S)
        /\ Len(SubSeq(s, 1, i - 1)) = (IF 1 <= i - 1 THEN (i - 1) - 1 + 1 ELSE 0)
        /\ \A k \in 1..((i - 1) - 1 + 1) : SubSeq(s, 1, i - 1)[k] = s[1 + k - 1]
    BY <2>1, <2>2, SubSeqProperties
  <2>4. (IF 1 <= i - 1 THEN (i - 1) - 1 + 1 ELSE 0) = i - 1 /\ (i - 1) - 1 + 1 = i - 1
        /\ \A k \in 1..(i - 1) : 1 + k - 1 = k
    BY <1>0
  <2> QED
    BY ONLY <2>3, <2>4, a = SubSeq(s, 1, i - 1)
<1>2. b \in Seq(S) /\ Len(b) = m - (i - 1) /\ \A k \in 1..(m - (i - 1)) : b[k] = s[i + k - 1]
  <2>1. i \in Int /\ m \in Int
    BY <1>0
  <2>2. \A k \in i..m : s[k] \in S
    BY <1>0
  <2>3. /\ SubSeq(s, i, m) \in Seq(S)
        /\ Len(SubSeq(s, i, m)) = (IF i <= m THEN m - i + 1 ELSE 0)
        /\ \A k \in 1..(m - i + 1) : SubSeq(s, i, m)[k] = s[i + k - 1]
    BY <2>1, <2>2, SubSeqProperties
  <2>4. (IF i <= m THEN m - i + 1 ELSE 0) = m - (i - 1) /\ m - i + 1 = m - (i - 1)
    BY <1>0
  <2> QED
    BY ONLY <2>3, <2>4, b = SubSeq(s, i, m)
<1>3. c \in Seq(S) /\ Len(c) = 1 /\ c[1] = e
  OBVIOUS
<1> PICK ac : ac = a \o c
  OBVIOUS
<1>4. ac \in Seq(S) /\ Len(ac) = i /\ \A k \in 1..i : ac[k] = IF k < i THEN s[k] ELSE e
  <2>1. /\ ac \in Seq(S) /\ Len(ac) = (i - 1) + 1
        /\ \A k \in 1..((i - 1) + 1) : ac[k] = IF k <= i - 1 THEN a[k] ELSE c[k - (i - 1)]
    BY <1>1, <1>3, ConcatProperties
  <2>2. (i - 1) + 1 = i
    BY <1>0
  <2>3. ASSUME NEW k \in 1..i PROVE ac[k] = IF k < i THEN s[k] ELSE e
    <3>1. CASE k < i
      <4>1. k <= i - 1 /\ k \in 1..(i - 1)
        BY <1>0, <3>1
      <4> QED
        BY <1>1, <2>1, <2>2, <3>1, <4>1
    <3>2. CASE k = i
      <4>1. ~(k <= i - 1) /\ k - (i - 1) = 1 /\ ~(k < i)
        BY <1>0, <3>2
      <4> QED
        BY <1>3, <2>1, <2>2, <4>1
    <3> QED
      BY <1>0, <3>1, <3>2
  <2> QED
    BY <2>1, <2>2, <2>3
<1> PICK r : r = InsertAt(s, i, e)
  OBVIOUS
<1>5. r = ac \o b
  BY DEF InsertAt
<1>6. /\ r \in Seq(S) /\ Len(r) = i + (m - (i - 1))
      /\ \A k \in 1..(i + (m - (i - 1))) : r[k] = IF k <= i THEN ac[k] ELSE b[k - i]
  <2>1. /\ ac \o b \in Seq(S) /\ Len(ac \o b) = Len(ac) + Len(b)
        /\ \A k \in 1..(Len(ac) + Len(b)) :
              (ac \o b)[k] = IF k <= Len(ac) THEN ac[k] ELSE b[k - Len(ac)]
    <3>1. ac \in Seq(S) /\ b \in Seq(S)
      BY <1>2, <1>4
    <3> QED
      BY ONLY <3>1, ConcatProperties
  <2> PICK x, y : x = Len(ac) /\ y = Len(b)
    OBVIOUS
  <2>2. x = i /\ y = m - (i - 1)
    BY <1>2, <1>4
  <2>3. /\ r \in Seq(S) /\ Len(r) = x + y
        /\ \A k \in 1..(x + y) : r[k] = IF k <= x THEN ac[k] ELSE b[k - x]
    BY ONLY <1>5, <2>1, x = Len(ac), y = Len(b)
  <2> QED
    BY ONLY <2>2, <2>3
<1>7. i + (m - (i - 1)) = m + 1
  BY <1>0
<1>8. ASSUME NEW k \in 1..(m + 1)
      PROVE  r[k] = IF k < i THEN s[k] ELSE IF k = i THEN e ELSE s[k - 1]
  <2>1. CASE k <= i
    <3>1. k \in 1..i
      BY <1>0, <2>1
    <3>2. r[k] = ac[k] /\ ac[k] = IF k < i THEN s[k] ELSE e
      BY <1>4, <1>6, <1>7, <2>1, <3>1
    <3>3. ~(k < i) => k = i
      BY <1>0, <2>1
    <3> QED
      BY <3>2, <3>3
  <2>2. CASE ~(k <= i)
    <3>1. k - i \in 1..(m - (i - 1)) /\ i + (k - i) - 1 = k - 1 /\ ~(k < i) /\ k # i
      BY <1>0, <2>2
    <3>2. r[k] = b[k - i] /\ b[k - i] = s[i + (k - i) - 1]
      BY <1>2, <1>6, <1>7, <2>2, <3>1
    <3> QED
      BY <3>1, <3>2
  <2> QED
    BY <2>1, <2>2
<1> QED
  BY <1>6, <1>7, <1>8

\* The place argjrec and argclrec insert at: that of the first that is to go behind.
FirstIn(m, behind) ==
    IF behind = {} THEN m + 1 ELSE CHOOSE k \in behind : \A j \in behind : k <= j

\* It is in the list or right behind it, and all before it stay in front.
LEMMA FirstBehind ==
    ASSUME NEW m \in Nat, NEW behind \in SUBSET (1..m), NEW i, i = FirstIn(m, behind)
    PROVE  /\ i \in 1..(m + 1)
           /\ behind # {} => i \in behind
           /\ \A k \in 1..m : k < i => k \notin behind
<1>1. CASE behind = {}
  BY <1>1 DEF FirstIn
<1>2. CASE behind # {}
  <2>1. behind \subseteq Nat
    OBVIOUS
  <2>2. i \in behind /\ \A j \in behind : i <= j
    BY <1>2, <2>1, LeastNatural DEF FirstIn
  <2>3. i \in 1..m
    BY <2>2
  <2>4. ASSUME NEW k \in 1..m, k < i PROVE k \notin behind
    <3>1. ~(i <= k)
      BY <2>3, <2>4
    <3> QED
      BY <2>2, <3>1
  <2> QED
    BY <1>2, <2>2, <2>3, <2>4
<1> QED
  BY <1>1, <1>2

\* A stem is put in its place.
LEMMA Argjrec ==
    ASSUME NEW S, NEW list \in Seq(S), NEW rec \in S
    PROVE  argjrec(list, rec) \in Seq(S)
<1> PICK m \in Nat : m = Len(list) /\ DOMAIN list = 1..m
  BY LenProperties
<1> PICK behind : behind = {k \in DOMAIN list : list[k].jlen < rec.jlen}
  OBVIOUS
<1> PICK i : i = FirstIn(m, behind)
  OBVIOUS
<1>1. i \in 1..(m + 1)
  BY FirstBehind
<1>2. argjrec(list, rec) = InsertAt(list, i, rec)
  BY DEF argjrec, FirstIn
<1> QED
  BY <1>1, <1>2, Inserted1

\* What is put into a list of stems one by one.
LEMMA ArgAll ==
    ASSUME NEW S, NEW list \in Seq(S), NEW found \in Seq(S)
    PROVE  FoldLeft(argjrec, list, found) \in Seq(S)
<1> PICK m \in Nat : m = Len(found) /\ DOMAIN found = 1..m
  BY LenProperties
<1> DEFINE V == Seq(S)
<1> DEFINE op(l, x) == argjrec(l, x)
           Def(g) == g = [s \in SUBSET (DOMAIN found) |->
                            IF s = {} THEN list ELSE op(g[s \ {Max(s)}], found[Max(s)])]
           step == [x \in (1..m) \X V |-> op(x[2], found[x[1]])]
<1>1. FoldLeft(argjrec, list, found) = (CHOOSE g : Def(g))[DOMAIN found]
  BY DEF FoldLeft, MapThenFoldSet
<1>2. DOMAIN found = 1..m
  BY LenProperties
<1>3. list \in V
  BY DEF V
<1>4. ASSUME NEW n \in 1..m, NEW l \in V PROVE op(l, found[n]) \in V
  <2>1. l \in Seq(S) /\ found[n] \in S
    BY DEF V
  <2> QED
    BY <2>1, Argjrec DEF V
<1> HIDE DEF op, V
<1>5. /\ step \in [(1..m) \X V -> V]
      /\ \A n \in 1..m, l \in V : step[<<n, l>>] = op(l, found[n])
  BY <1>4
<1> HIDE DEF step
<1>6. \E g : Def(g)
  <2>1. PICK g : Folds(g, V, list, m, step)
    BY <1>3, <1>5, FoldExists
  <2>2. /\ g \in [SUBSET (1..m) -> V]
        /\ \A s \in SUBSET (1..m) :
              g[s] = IF s = {} THEN list ELSE step[<<Max(s), g[s \ {Max(s)}]>>]
    BY <2>1 DEF Folds
  <2>3. ASSUME NEW s \in SUBSET (1..m), s # {} PROVE g[s] = op(g[s \ {Max(s)}], found[Max(s)])
    <3>1. Max(s) \in 1..m /\ g[s \ {Max(s)}] \in V
      BY <2>2, <2>3, LastIndex
    <3>2. g[s] = step[<<Max(s), g[s \ {Max(s)}]>>]
      BY <2>2, <2>3
    <3> QED
      BY <1>5, <3>1, <3>2
  <2>4. g[{}] = list
    BY <2>2
  <2> QED
    BY <1>2, <2>2, <2>3, <2>4
<1> PICK fld : fld = CHOOSE x : Def(x)
  OBVIOUS
<1>7. Def(fld)
  <2> HIDE DEF Def
  <2> QED
    BY <1>6
<1>8. FoldedBy(fld, V, list, m, step)
  <2>1. fld[{}] = list
    <3>1. {} \in SUBSET (DOMAIN found)
      OBVIOUS
    <3> QED
      BY <1>7, <3>1
  <2>2. ASSUME NEW s \in SUBSET (1..m), s # {}, fld[s \ {Max(s)}] \in V
        PROVE  fld[s] = step[<<Max(s), fld[s \ {Max(s)}]>>]
    <3>1. Max(s) \in 1..m /\ s \in SUBSET (DOMAIN found)
      BY <1>2, <2>2, LastIndex
    <3>2. fld[s] = op(fld[s \ {Max(s)}], found[Max(s)])
      BY ONLY <1>7, <2>2, <3>1
    <3> PICK x : x = fld[s \ {Max(s)}]
      OBVIOUS
    <3>3. step[<<Max(s), x>>] = op(x, found[Max(s)])
      BY <1>5, <2>2, <3>1
    <3> QED
      BY <3>2, <3>3
  <2> HIDE DEF Def
  <2>3. \A s \in SUBSET (1..m) : s # {} /\ fld[s \ {Max(s)}] \in V =>
            fld[s] = step[<<Max(s), fld[s \ {Max(s)}]>>]
    BY ONLY <2>2
  <2>4. list \in V /\ m \in Nat /\ step \in [(1..m) \X V -> V]
    BY <1>3, <1>5
  <2> QED
    BY ONLY <2>1, <2>3, <2>4, Zenon DEF FoldedBy
<1>9. PICK h : Iterates(h, V, list, m, step) /\ fld[1..m] = h[m]
  <2> HIDE DEF Def
  <2>1. \E h : Iterates(h, V, list, m, step) /\ fld[1..m] = h[m]
    BY ONLY <1>8, FoldChain
  <2> QED
    BY <2>1
<1>10. FoldLeft(argjrec, list, found) = h[m]
  <2> HIDE DEF Def
  <2> QED
    BY <1>1, <1>2, <1>9
<1>11. h[m] \in V
  BY <1>9 DEF Iterates
<1> QED
  BY <1>10, <1>11 DEF V

\* The stem of a word, a number, a learned clause or an unknown word.
LEMMA StemOf ==
    ASSUME NEW L \in Nat, NEW learned \in BOOLEAN,
           NEW class \in {"dict", "bunsetu", "num", "wakachi"}, NEW n \in Nat,
           NEW len \in 0..L, NEW hinsi \in Hinsi, NEW stt \in {0} \cup DOMAIN Prefix,
           class = "dict" => n \in DOMAIN Word,
           class = "num" => n \in DOMAIN Numeral,
           class = "bunsetu" => /\ learned /\ n \in DOMAIN Block
                                /\ Block[n].y1len \in 1..(len - 1)
    PROVE  JRec(class, n, len, hinsi, stt) \in Stems(L, learned)
<1> PICK r : r = JRec(class, n, len, hinsi, stt)
  OBVIOUS
<1>1. /\ r \in [class : {"dict", "bunsetu", "num", "wakachi"}, n : Nat, jlen : 0..L,
               hinsi : Hinsi, sttofs : {0} \cup DOMAIN Prefix, stbofs : Nat, ka : BOOLEAN]
      /\ r.class = class /\ r.n = n /\ r.jlen = len /\ r.stbofs = 0
  BY DEF JRec
<1> QED
  BY <1>1 DEF Stems, Named

\* What is read behind p characters ends within the text.
LEMMA ReadsWithin ==
    ASSUME NEW t \in Seq(Nat), NEW p \in Nat, NEW y \in Seq(Nat), Reads(t, p, y)
    PROVE  p + Len(y) \in p..Len(t) /\ Len(y) \in Nat
<1>1. Len(t) \in Nat /\ Len(y) \in Nat /\ p + Len(y) <= Len(t)
  BY LenProperties DEF Reads
<1> QED
  BY <1>1

\* Places that are selected, in order.
LEMMA SelectedPlaces ==
    ASSUME NEW S, NEW s \in Seq(S), NEW Ok, NEW ks, ks = SelectIdx(s, Ok)
    PROVE  /\ Len(ks) \in Nat /\ DOMAIN ks = 1..Len(ks)
           /\ \A i \in DOMAIN ks : ks[i] \in Ok /\ ks[i] \in DOMAIN s /\ ks[i] \in Nat
           /\ \A k \in Ok \cap DOMAIN s : \E i \in DOMAIN ks : ks[i] = k
<1> PICK m \in Nat : m = Len(s) /\ DOMAIN s = 1..m
  BY LenProperties
<1>1. Picks(ks, m, Ok)
  BY Selects
<1>2. ks \in Seq(Ok \cap (1..m)) /\ \A k \in Ok \cap (1..m) : \E i \in 1..Len(ks) : ks[i] = k
  BY <1>1 DEF Picks
<1>3. Len(ks) \in Nat /\ DOMAIN ks = 1..Len(ks) /\ \A i \in 1..Len(ks) : ks[i] \in Ok \cap (1..m)
  BY <1>2, LenProperties
<1> QED
  BY <1>2, <1>3

\* A list made place by place.
LEMMA MadeList ==
    ASSUME NEW S, NEW n \in Nat, NEW x \in [1..n -> S]
    PROVE  x \in Seq(S) /\ Len(x) = n /\ DOMAIN x = 1..n
OBVIOUS

\* The words of the dictionary the text starts with, behind a prefix too.
LEMMA WordStems ==
    ASSUME NEW t \in Seq(Nat), NEW stt \in {0} \cup DOMAIN Prefix, NEW ikkatu,
           NEW learned \in BOOLEAN
    PROVE  dic_mu(t, stt, ikkatu) \in Seq(Stems(Len(t), learned))
<1>g. /\ Word \in Seq(Range(Word))
      /\ \A k \in DOMAIN Word : Word[k].yomi \in Seq(Nat) /\ Word[k].hinsi \in Hinsi
      /\ \A k \in DOMAIN Prefix : Prefix[k].yomi \in Seq(Nat)
  BY GrammarAssumption DEF Entries
<1> PICK L \in Nat : L = Len(t)
  BY LenProperties
<1> PICK h : h = IF stt = 0 THEN 0 ELSE Len(Prefix[stt].yomi)
  OBVIOUS
<1>h. h \in Nat
  BY <1>g, LenProperties
<1> PICK ok : ok = {k \in DOMAIN Word :
                    /\ Reads(t, h, Word[k].yomi)
                    /\ Word[k].hinsi = IKKATU => ikkatu
                    /\ chkhead(stt, Word[k].hinsi)}
  OBVIOUS
<1> PICK ks : ks = SelectIdx(Word, ok)
  OBVIOUS
<1>1. /\ Len(ks) \in Nat /\ DOMAIN ks = 1..Len(ks)
      /\ \A i \in DOMAIN ks : ks[i] \in ok /\ ks[i] \in DOMAIN Word /\ ks[i] \in Nat
  BY <1>g, SelectedPlaces
<1> DEFINE st(i) == JRec("dict", ks[i], h + Len(Word[ks[i]].yomi), Word[ks[i]].hinsi, stt)
<1>2. dic_mu(t, stt, ikkatu) = [i \in DOMAIN ks |-> st(i)]
  BY DEF dic_mu
<1>3. ASSUME NEW i \in DOMAIN ks PROVE st(i) \in Stems(L, learned)
  <2> PICK k : k = ks[i]
    OBVIOUS
  <2>1. k \in DOMAIN Word /\ k \in Nat /\ Reads(t, h, Word[k].yomi)
    BY <1>1
  <2>2. h + Len(Word[k].yomi) \in 0..L
    <3>0. Word[k].yomi \in Seq(Nat)
      BY <1>g, <2>1
    <3>1. h + Len(Word[k].yomi) \in h..L
      BY <1>h, <2>1, <3>0, ReadsWithin
    <3> QED
      BY ONLY <1>h, <3>1, L \in Nat
  <2> QED
    BY <1>g, <2>1, <2>2, StemOf
<1> HIDE DEF st
<1> PICK x : x = [i \in DOMAIN ks |-> st(i)]
  OBVIOUS
<1>4. x \in Seq(Stems(L, learned))
  <2> PICK n, S : n = Len(ks) /\ S = Stems(L, learned)
    OBVIOUS
  <2>1. n \in Nat /\ x \in [1..n -> S]
    BY <1>1, <1>3
  <2>2. x \in Seq(S)
    BY ONLY <2>1, MadeList
  <2> QED
    BY <2>2
<1> QED
  BY <1>2, <1>4

\* srchnum finds numbers.
LEMMA NumberStems ==
    ASSUME NEW t \in Seq(Nat), NEW learned \in BOOLEAN
    PROVE  srchnum(t) \in Seq(Stems(Len(t), learned))
<1>g. /\ Numeral \in Seq(Range(Numeral))
      /\ \A k \in DOMAIN Numeral : Numeral[k].yomi \in Seq(Nat) /\ Numeral[k].hinsi \in Hinsi
  BY GrammarAssumption DEF Entries
<1> PICK L \in Nat : L = Len(t)
  BY LenProperties
<1> PICK ok : ok = {k \in DOMAIN Numeral : Reads(t, 0, Numeral[k].yomi)}
  OBVIOUS
<1> PICK ks : ks = SelectIdx(Numeral, ok)
  OBVIOUS
<1>1. /\ Len(ks) \in Nat /\ DOMAIN ks = 1..Len(ks)
      /\ \A i \in DOMAIN ks : ks[i] \in ok /\ ks[i] \in DOMAIN Numeral /\ ks[i] \in Nat
  BY <1>g, SelectedPlaces
<1> DEFINE st(i) == JRec("num", ks[i], Len(Numeral[ks[i]].yomi), Numeral[ks[i]].hinsi, 0)
<1>2. srchnum(t) = [i \in DOMAIN ks |-> st(i)]
  BY DEF srchnum
<1>3. ASSUME NEW i \in DOMAIN ks PROVE st(i) \in Stems(L, learned)
  <2> PICK k : k = ks[i]
    OBVIOUS
  <2>1. k \in DOMAIN Numeral /\ k \in Nat /\ Reads(t, 0, Numeral[k].yomi)
    BY <1>1
  <2>2. Len(Numeral[k].yomi) \in 0..L
    <3>1. 0 + Len(Numeral[k].yomi) \in 0..L /\ Len(Numeral[k].yomi) \in Nat
      BY <1>g, <2>1, ReadsWithin
    <3> QED
      BY <3>1
  <2> QED
    BY <1>g, <2>1, <2>2, StemOf
<1> HIDE DEF st
<1> PICK x : x = [i \in DOMAIN ks |-> st(i)]
  OBVIOUS
<1>4. x \in Seq(Stems(L, learned))
  <2> PICK n, S : n = Len(ks) /\ S = Stems(L, learned)
    OBVIOUS
  <2>1. n \in Nat /\ x \in [1..n -> S]
    BY <1>1, <1>3
  <2>2. x \in Seq(S)
    BY ONLY <2>1, MadeList
  <2> QED
    BY <2>2
<1> QED
  BY <1>2, <1>4

\* dic_cl finds learned clauses, if they are asked for.
LEMMA LearnedStems ==
    ASSUME NEW t \in Seq(Nat)
    PROVE  dic_cl(t) \in Seq(Stems(Len(t), TRUE))
<1>g. /\ Block \in Seq(Range(Block))
      /\ \A k \in DOMAIN Block : /\ Block[k].yomi \in Seq(Nat) /\ Block[k].hinsi \in Hinsi
                                 /\ Block[k].y1len \in 1..(Len(Block[k].yomi) - 1)
  BY GrammarAssumption DEF Entries
<1> PICK L \in Nat : L = Len(t)
  BY LenProperties
<1> PICK ok : ok = {k \in DOMAIN Block : Reads(t, 0, Block[k].yomi)}
  OBVIOUS
<1> PICK ks : ks = SelectIdx(Block, ok)
  OBVIOUS
<1>1. /\ Len(ks) \in Nat /\ DOMAIN ks = 1..Len(ks)
      /\ \A i \in DOMAIN ks : ks[i] \in ok /\ ks[i] \in DOMAIN Block /\ ks[i] \in Nat
  BY <1>g, SelectedPlaces
<1> DEFINE st(i) == JRec("bunsetu", ks[i], Len(Block[ks[i]].yomi), Block[ks[i]].hinsi, 0)
<1>2. dic_cl(t) = [i \in DOMAIN ks |-> st(i)]
  BY DEF dic_cl
<1>3. ASSUME NEW i \in DOMAIN ks PROVE st(i) \in Stems(L, TRUE)
  <2> PICK k : k = ks[i]
    OBVIOUS
  <2>1. k \in DOMAIN Block /\ k \in Nat /\ Reads(t, 0, Block[k].yomi)
    BY <1>1
  <2>2. Len(Block[k].yomi) \in 0..L
    <3>1. 0 + Len(Block[k].yomi) \in 0..L /\ Len(Block[k].yomi) \in Nat
      BY <1>g, <2>1, ReadsWithin
    <3> QED
      BY <3>1
  <2> QED
    BY <1>g, <2>1, <2>2, StemOf
<1> HIDE DEF st
<1> PICK x : x = [i \in DOMAIN ks |-> st(i)]
  OBVIOUS
<1>4. x \in Seq(Stems(L, TRUE))
  <2> PICK n, S : n = Len(ks) /\ S = Stems(L, TRUE)
    OBVIOUS
  <2>1. n \in Nat /\ x \in [1..n -> S]
    BY <1>1, <1>3
  <2>2. x \in Seq(S)
    BY ONLY <2>1, MadeList
  <2> QED
    BY <2>2
<1> QED
  BY <1>2, <1>4

\* setubi makes stems of a stem.
LEMMA SuffixStems ==
    ASSUME NEW t \in Seq(Nat), NEW learned \in BOOLEAN, NEW rec \in Stems(Len(t), learned)
    PROVE  setubi(t, rec) \in Seq(Stems(Len(t), learned))
<1> PICK L \in Nat : L = Len(t)
  BY LenProperties
<1>0. /\ rec \in [class : {"dict", "bunsetu", "num", "wakachi"}, n : Nat, jlen : 0..L,
                  hinsi : Hinsi, sttofs : {0} \cup DOMAIN Prefix, stbofs : Nat, ka : BOOLEAN]
      /\ Named(rec)
      /\ rec.class = "bunsetu" =>
            /\ learned /\ rec.n \in DOMAIN Block
            /\ Block[rec.n].y1len \in 1..(rec.jlen - 1)
  BY DEF Stems
<1> PICK stb : stb = Suffix[rec.hinsi]
  OBVIOUS
<1>g. /\ stb \in Seq([yomi : Seq(Nat), hinsi : Hinsi, ka : BOOLEAN])
      /\ \A k \in DOMAIN stb : stb[k].yomi \in Seq(Nat) /\ stb[k].ka \in BOOLEAN
  <2>1. rec.hinsi \in Hinsi
    BY <1>0
  <2>2. stb \in Seq([yomi : Seq(Nat), hinsi : Hinsi, ka : BOOLEAN])
    BY <2>1, GrammarAssumption
  <2>3. \A k \in DOMAIN stb : stb[k] \in [yomi : Seq(Nat), hinsi : Hinsi, ka : BOOLEAN]
    <3> PICK R : R = [yomi : Seq(Nat), hinsi : Hinsi, ka : BOOLEAN]
      OBVIOUS
    <3>1. stb \in Seq(R)
      BY <2>2
    <3>2. \A k \in DOMAIN stb : stb[k] \in R
      BY ONLY <3>1, LenProperties
    <3> QED
      BY <3>2
  <2> QED
    BY <2>2, <2>3
<1> PICK ok : ok = {k \in DOMAIN stb : Reads(t, rec.jlen, stb[k].yomi)}
  OBVIOUS
<1> PICK ks : ks = SelectIdx(stb, ok)
  OBVIOUS
<1>1. /\ Len(ks) \in Nat /\ DOMAIN ks = 1..Len(ks)
      /\ \A i \in DOMAIN ks : ks[i] \in ok /\ ks[i] \in DOMAIN stb /\ ks[i] \in Nat
  <2> PICK R : R = [yomi : Seq(Nat), hinsi : Hinsi, ka : BOOLEAN]
    OBVIOUS
  <2>1. stb \in Seq(R)
    BY <1>g
  <2> QED
    BY ONLY <2>1, SelectedPlaces, ks = SelectIdx(stb, ok)
<1> DEFINE st(i) == [rec EXCEPT !.jlen = @ + Len(stb[ks[i]].yomi), !.stbofs = ks[i],
                                !.ka = @ \/ stb[ks[i]].ka]
<1>2. setubi(t, rec) = [i \in DOMAIN ks |-> st(i)]
  BY DEF setubi
<1>3. ASSUME NEW i \in DOMAIN ks PROVE st(i) \in Stems(L, learned)
  <2> PICK k : k = ks[i]
    OBVIOUS
  <2> PICK len : len = rec.jlen + Len(stb[k].yomi)
    OBVIOUS
  <2>1. k \in DOMAIN stb /\ k \in Nat /\ Reads(t, rec.jlen, stb[k].yomi)
    BY <1>1
  <2>2. len \in rec.jlen..L /\ len \in 0..L /\ rec.jlen \in Nat
    <3>1. rec.jlen \in Nat
      BY <1>0
    <3>2. stb[k].yomi \in Seq(Nat)
      BY <1>g, <2>1
    <3>3. len \in rec.jlen..L
      BY <2>1, <3>1, <3>2, ReadsWithin
    <3> QED
      BY ONLY <3>1, <3>3, L \in Nat
  <2>3. \E ka \in BOOLEAN : st(i) = [rec EXCEPT !.jlen = len, !.stbofs = k, !.ka = ka]
    <3>1. rec.ka \in BOOLEAN /\ stb[k].ka \in BOOLEAN
      BY <1>0, <1>g, <2>1
    <3>2. (rec.ka \/ stb[k].ka) \in BOOLEAN
      BY <3>1
    <3>3. st(i) = [rec EXCEPT !.jlen = len, !.stbofs = k, !.ka = (rec.ka \/ stb[k].ka)]
      OBVIOUS
    <3> HIDE DEF st
    <3> QED
      BY <3>2, <3>3
  <2> HIDE DEF st
  <2>4. PICK ka \in BOOLEAN : st(i) = [rec EXCEPT !.jlen = len, !.stbofs = k, !.ka = ka]
    BY <2>3
  <2> PICK r : r = st(i)
    OBVIOUS
  <2>5. /\ r \in [class : {"dict", "bunsetu", "num", "wakachi"}, n : Nat, jlen : 0..L,
                  hinsi : Hinsi, sttofs : {0} \cup DOMAIN Prefix, stbofs : Nat, ka : BOOLEAN]
        /\ r.class = rec.class /\ r.n = rec.n /\ r.jlen = len /\ r.stbofs = k
        /\ r.hinsi = rec.hinsi
    BY ONLY <1>0, <2>1, <2>2, <2>4, r = st(i)
  <2>6. Named(r)
    BY <1>0, <2>5 DEF Named
  <2>7. r.class = "bunsetu" => /\ learned /\ r.n \in DOMAIN Block
                               /\ Block[r.n].y1len \in 1..(r.jlen - 1)
    <3> SUFFICES ASSUME r.class = "bunsetu"
                 PROVE  learned /\ r.n \in DOMAIN Block /\ Block[r.n].y1len \in 1..(r.jlen - 1)
      OBVIOUS
    <3> PICK y, jl : y = Block[rec.n].y1len /\ jl = rec.jlen
      OBVIOUS
    <3>1. learned /\ rec.n \in DOMAIN Block /\ y \in 1..(jl - 1)
      BY <1>0, <2>5
    <3>2. jl \in Nat /\ len \in jl..L
      BY <2>2
    <3>3. y \in 1..(len - 1)
      BY ONLY <3>1, <3>2, L \in Nat
    <3> QED
      BY <2>5, <3>1, <3>3
  <2> QED
    BY <2>1, <2>5, <2>6, <2>7 DEF Stems
<1> HIDE DEF st
<1> PICK x : x = [i \in DOMAIN ks |-> st(i)]
  OBVIOUS
<1>4. x \in Seq(Stems(L, learned))
  <2> PICK n, S : n = Len(ks) /\ S = Stems(L, learned)
    OBVIOUS
  <2>1. n \in Nat /\ x \in [1..n -> S]
    BY <1>1, <1>3
  <2>2. x \in Seq(S)
    BY ONLY <2>1, MadeList
  <2> QED
    BY <2>2
<1> QED
  BY <1>2, <1>4

\* The stems a text starts with.
LEMMA StemsFound ==
    ASSUME NEW t \in Seq(Nat), NEW mode, NEW learned, learned = ("clstudy" \in mode)
    PROVE  mkjiritu(t, mode) \in Seq(Stems(Len(t), learned))
<1>l. learned \in BOOLEAN
  OBVIOUS
<1> PICK S : S = Stems(Len(t), learned)
  OBVIOUS
<1>1. dic_mu(t, 0, "ikkatu" \in mode) \in Seq(S) /\ srchnum(t) \in Seq(S)
  BY <1>l, WordStems, NumberStems
<1>2. (IF "clstudy" \in mode THEN dic_cl(t) ELSE <<>>) \in Seq(S)
  <2>1. <<>> \in Seq(S)
    BY EmptySeq
  <2>2. learned => dic_cl(t) \in Seq(S)
    BY LearnedStems
  <2> QED
    BY <2>1, <2>2
<1>3. (IF srchhead(t) = 0 THEN <<>> ELSE dic_mu(t, srchhead(t), "ikkatu" \in mode)) \in Seq(S)
  <2>1. <<>> \in Seq(S)
    BY EmptySeq
  <2>2. srchhead(t) \in {0} \cup DOMAIN Prefix
    <3> DEFINE ok == {k \in DOMAIN Prefix :
                    /\ Len(Prefix[k].yomi) < Len(t)
                    /\ SubSeq(t, 1, Len(Prefix[k].yomi)) = Prefix[k].yomi}
    <3>1. srchhead(t) = IF ok = {} THEN 0 ELSE CHOOSE k \in ok : TRUE
      BY DEF srchhead
    <3>2. ok \subseteq DOMAIN Prefix
      OBVIOUS
    <3> HIDE DEF ok
    <3> QED
      BY <3>1, <3>2
  <2>3. dic_mu(t, srchhead(t), "ikkatu" \in mode) \in Seq(S)
    BY <1>l, <2>2, WordStems
  <2> QED
    BY <2>1, <2>3
<1> PICK a, b, c, d : /\ a = dic_mu(t, 0, "ikkatu" \in mode)
                      /\ b = (IF "clstudy" \in mode THEN dic_cl(t) ELSE <<>>)
                      /\ c = srchnum(t)
                      /\ d = (IF srchhead(t) = 0 THEN <<>>
                              ELSE dic_mu(t, srchhead(t), "ikkatu" \in mode))
  OBVIOUS
<1> PICK found : found = a \o b \o c \o d
  OBVIOUS
<1>4. found \in Seq(S)
  <2>1. a \in Seq(S) /\ b \in Seq(S) /\ c \in Seq(S) /\ d \in Seq(S)
    BY <1>1, <1>2, <1>3
  <2>2. a \o b \in Seq(S)
    BY ONLY <2>1, ConcatProperties
  <2>3. (a \o b) \o c \in Seq(S)
    BY ONLY <2>1, <2>2, ConcatProperties
  <2>4. ((a \o b) \o c) \o d \in Seq(S)
    BY ONLY <2>1, <2>3, ConcatProperties
  <2> QED
    BY <2>4
<1> PICK list : list = FoldLeft(argjrec, <<>>, found)
  OBVIOUS
<1>5. list \in Seq(S)
  <2>1. <<>> \in Seq(S)
    BY EmptySeq
  <2> QED
    BY <1>4, <2>1, ArgAll
<1> PICK more : more = [k \in DOMAIN list |-> setubi(t, list[k])]
  OBVIOUS
<1>6. more \in Seq(Seq(S))
  <2> PICK n \in Nat : n = Len(list) /\ DOMAIN list = 1..n
    BY <1>5, LenProperties
  <2>1. ASSUME NEW k \in 1..n PROVE setubi(t, list[k]) \in Seq(S)
    <3>1. list[k] \in S
      BY <1>5
    <3> QED
      BY <1>l, <3>1, SuffixStems
  <2>2. more \in [1..n -> Seq(S)]
    BY <2>1
  <2> QED
    BY ONLY <2>2, n \in Nat, MadeList
<1>7. FoldLeft(argjrec, list, Concat(more)) \in Seq(S)
  <2>1. Concat(more) \in Seq(S)
    BY ONLY <1>6, Flattened
  <2> QED
    BY <1>5, <2>1, ArgAll
<1>8. mkjiritu(t, mode) = FoldLeft(argjrec, list, Concat(more))
  BY DEF mkjiritu
<1> QED
  BY <1>7, <1>8

----------------------------------------------------------------------------
(* Endings and functional words                                             *)

\* Clauses that end between p and the end of the text.
Calls(p, L) == [len : p..L, right : Right, ka : BOOLEAN]

\* A clause that may end at q ends in the text.
LEMMA EndsCalls ==
    ASSUME NEW t, NEW L \in Nat, NEW p \in Nat, NEW q \in p..L, NEW right \in Right,
           NEW ka \in BOOLEAN
    PROVE  Ends(t, q, right, ka) \in Seq(Calls(p, L))
<1> PICK S : S = Calls(p, L)
  OBVIOUS
<1>1. Call(q, right, ka) \in S
  BY DEF Call, Calls
<1>2. <<Call(q, right, ka)>> \in Seq(S) /\ <<>> \in Seq(S)
  BY <1>1
<1> QED
  BY <1>2 DEF Ends

\* One round of srchfzk, behind p characters.
Round1(t, f, p, right, level, ka) ==
    LET ch == At(t, p + 1)
        ks == Follows(t, p, right)
    IN  IF level >= MAXFLVL /\ ch \notin FZK_KGU THEN <<>>
        ELSE IF terminate(t, p, right) # "no" /\ ch \in FZK_KGU
        THEN <<Call(p + Run(t, p, FZK_KGU), R_FZKKGU, level # 0 /\ ka)>>
        ELSE IF right = R_CUT \/ ch = 0 THEN <<>>
        ELSE Concat([i \in DOMAIN ks |->
                Ends(t, p + Len(Fzk[ks[i]].yomi), Fzk[ks[i]].right,
                     IF level = 0 THEN Fzk[ks[i]].ka ELSE ka)
                \o f[<<p + Len(Fzk[ks[i]].yomi), Fzk[ks[i]].right, level + 1,
                       IF level = 0 THEN Fzk[ks[i]].ka ELSE ka>>]])

\* The functional words that follow are further on in the text.
LEMMA FollowsOn ==
    ASSUME NEW t \in Seq(Nat), NEW p \in Nat, NEW right, NEW ks, ks = Follows(t, p, right)
    PROVE  /\ Len(ks) \in Nat /\ DOMAIN ks = 1..Len(ks)
           /\ \A i \in DOMAIN ks : /\ p + Len(Fzk[ks[i]].yomi) \in (p + 1)..Len(t)
                                   /\ Fzk[ks[i]].right \in Right /\ Fzk[ks[i]].ka \in BOOLEAN
<1>g. /\ Fzk \in Seq(Range(Fzk))
      /\ \A k \in DOMAIN Fzk : /\ Fzk[k].yomi \in Seq(Nat) /\ Fzk[k].yomi # <<>>
                               /\ Fzk[k].right \in Right /\ Fzk[k].ka \in BOOLEAN
  BY GrammarAssumption DEF Entries
<1> PICK ok : ok = {k \in DOMAIN Fzk : Reads(t, p, Fzk[k].yomi) /\ Fzk[k].left \in Cnct[right]}
  OBVIOUS
<1>1. ks = SelectIdx(Fzk, ok)
  BY DEF Follows
<1>2. /\ Len(ks) \in Nat /\ DOMAIN ks = 1..Len(ks)
      /\ \A i \in DOMAIN ks : ks[i] \in ok /\ ks[i] \in DOMAIN Fzk /\ ks[i] \in Nat
  BY ONLY <1>g, <1>1, SelectedPlaces
<1>3. ASSUME NEW i \in DOMAIN ks
      PROVE  /\ p + Len(Fzk[ks[i]].yomi) \in (p + 1)..Len(t)
             /\ Fzk[ks[i]].right \in Right /\ Fzk[ks[i]].ka \in BOOLEAN
  <2> PICK k : k = ks[i]
    OBVIOUS
  <2>1. k \in DOMAIN Fzk /\ Reads(t, p, Fzk[k].yomi)
    BY <1>2
  <2> PICK y : y = Fzk[k].yomi
    OBVIOUS
  <2>2. y \in Seq(Nat) /\ y # <<>> /\ Reads(t, p, y)
    BY <1>g, <2>1
  <2>3. p + Len(y) \in p..Len(t) /\ Len(y) \in Nat
    BY <2>2, ReadsWithin
  <2>4. Len(y) # 0 /\ Len(t) \in Nat
    BY <2>2, EmptySeq, LenProperties
  <2>5. p + Len(y) \in (p + 1)..Len(t)
    BY ONLY <2>3, <2>4, p \in Nat
  <2> QED
    BY <1>g, <2>1, <2>5
<1> QED
  BY <1>2, <1>3

\* If the rounds further on end behind b, this one does.
LEMMA RoundEnds ==
    ASSUME NEW t \in Seq(Nat), NEW f, NEW b \in Nat, NEW p \in Nat, b <= p, NEW right \in Right,
           NEW level \in Nat, NEW ka \in BOOLEAN,
           \A q \in (p + 1)..Len(t), r \in Right, k \in BOOLEAN :
               f[<<q, r, level + 1, k>>] \in Seq(Calls(b, Len(t)))
    PROVE  Round1(t, f, p, right, level, ka) \in Seq(Calls(b, Len(t)))
<1> PICK L \in Nat : L = Len(t) /\ DOMAIN t = 1..L
  BY LenProperties
<1> PICK S : S = Calls(b, L)
  OBVIOUS
<1> PICK ch : ch = At(t, p + 1)
  OBVIOUS
<1>1. <<>> \in Seq(S)
  BY EmptySeq
<1>2. ASSUME ch \in FZK_KGU
      PROVE  <<Call(p + Run(t, p, FZK_KGU), R_FZKKGU, level # 0 /\ ka)>> \in Seq(S)
  <2>1. 0 \notin FZK_KGU /\ R_FZKKGU \in Right
    BY GrammarAssumption
  <2>2. p <= L
    <3>1. p + 1 \in 1..L
      BY <1>2, <2>1 DEF At
    <3> QED
      BY <3>1
  <2> PICK n : n = Run(t, p, FZK_KGU)
    OBVIOUS
  <2>3. n \in 0..L /\ p + n <= L
    BY <2>1, <2>2, Runs
  <2>4. p + n \in b..L
    BY ONLY <2>3, b \in Nat, p \in Nat, b <= p, L \in Nat
  <2>5. (level # 0 /\ ka) \in BOOLEAN
    OBVIOUS
  <2>6. Call(p + n, R_FZKKGU, level # 0 /\ ka) \in S
    BY <2>1, <2>4, <2>5 DEF Call, Calls
  <2> QED
    BY <2>6
<1> PICK ks : ks = Follows(t, p, right)
  OBVIOUS
<1>3. /\ Len(ks) \in Nat /\ DOMAIN ks = 1..Len(ks)
      /\ \A i \in DOMAIN ks : /\ p + Len(Fzk[ks[i]].yomi) \in (p + 1)..L
                              /\ Fzk[ks[i]].right \in Right /\ Fzk[ks[i]].ka \in BOOLEAN
  BY FollowsOn
<1> DEFINE el(i) == Ends(t, p + Len(Fzk[ks[i]].yomi), Fzk[ks[i]].right,
                         IF level = 0 THEN Fzk[ks[i]].ka ELSE ka)
                    \o f[<<p + Len(Fzk[ks[i]].yomi), Fzk[ks[i]].right, level + 1,
                           IF level = 0 THEN Fzk[ks[i]].ka ELSE ka>>]
<1>4. ASSUME NEW i \in DOMAIN ks PROVE el(i) \in Seq(S)
  <2> PICK q, r, k : /\ q = p + Len(Fzk[ks[i]].yomi) /\ r = Fzk[ks[i]].right
                     /\ k = IF level = 0 THEN Fzk[ks[i]].ka ELSE ka
    OBVIOUS
  <2>1. q \in (p + 1)..L /\ r \in Right /\ k \in BOOLEAN
    BY <1>3
  <2>2. q \in b..L
    BY ONLY <2>1, b \in Nat, p \in Nat, b <= p, L \in Nat
  <2>3. Ends(t, q, r, k) \in Seq(S)
    BY <2>1, <2>2, EndsCalls
  <2>4. f[<<q, r, level + 1, k>>] \in Seq(S)
    BY <2>1
  <2>5. el(i) = Ends(t, q, r, k) \o f[<<q, r, level + 1, k>>]
    OBVIOUS
  <2> HIDE DEF el
  <2> QED
    BY ONLY <2>3, <2>4, <2>5, ConcatProperties
<1> PICK x : x = [i \in DOMAIN ks |-> el(i)]
  OBVIOUS
<1>5. x \in Seq(Seq(S))
  <2> HIDE DEF el
  <2> PICK n : n = Len(ks)
    OBVIOUS
  <2>1. n \in Nat /\ x \in [1..n -> Seq(S)]
    BY <1>3, <1>4
  <2> QED
    BY ONLY <2>1, MadeList
<1>6. Concat(x) \in Seq(S)
  BY ONLY <1>5, Flattened
<1>7. Round1(t, f, p, right, level, ka)
        = IF level >= MAXFLVL /\ ch \notin FZK_KGU THEN <<>>
          ELSE IF terminate(t, p, right) # "no" /\ ch \in FZK_KGU
          THEN <<Call(p + Run(t, p, FZK_KGU), R_FZKKGU, level # 0 /\ ka)>>
          ELSE IF right = R_CUT \/ ch = 0 THEN <<>>
          ELSE Concat(x)
  BY DEF Round1
<1> HIDE DEF el
<1> QED
  BY <1>1, <1>2, <1>6, <1>7

\* f and g are the same on the rounds further on.
Agree(t, f, g, p, level) ==
    \A q \in (p + 1)..Len(t), r \in Right, k \in BOOLEAN :
        f[<<q, r, level + 1, k>>] = g[<<q, r, level + 1, k>>]

\* A round depends only on them.
LEMMA RoundDepends ==
    ASSUME NEW t \in Seq(Nat), NEW f, NEW g, NEW p \in Nat, NEW right \in Right,
           NEW level \in Nat, NEW ka \in BOOLEAN, Agree(t, f, g, p, level)
    PROVE  Round1(t, f, p, right, level, ka) = Round1(t, g, p, right, level, ka)
<1> PICK ks : ks = Follows(t, p, right)
  OBVIOUS
<1>3. \A i \in DOMAIN ks : /\ p + Len(Fzk[ks[i]].yomi) \in (p + 1)..Len(t)
                           /\ Fzk[ks[i]].right \in Right /\ Fzk[ks[i]].ka \in BOOLEAN
  BY FollowsOn
<1> DEFINE el(h, i) == Ends(t, p + Len(Fzk[ks[i]].yomi), Fzk[ks[i]].right,
                         IF level = 0 THEN Fzk[ks[i]].ka ELSE ka)
                    \o h[<<p + Len(Fzk[ks[i]].yomi), Fzk[ks[i]].right, level + 1,
                           IF level = 0 THEN Fzk[ks[i]].ka ELSE ka>>]
<1>4. ASSUME NEW i \in DOMAIN ks PROVE el(f, i) = el(g, i)
  <2> PICK q, r, k : /\ q = p + Len(Fzk[ks[i]].yomi) /\ r = Fzk[ks[i]].right
                     /\ k = IF level = 0 THEN Fzk[ks[i]].ka ELSE ka
    OBVIOUS
  <2>1. q \in (p + 1)..Len(t) /\ r \in Right /\ k \in BOOLEAN
    BY <1>3
  <2>2. f[<<q, r, level + 1, k>>] = g[<<q, r, level + 1, k>>]
    BY <2>1 DEF Agree
  <2>3. /\ el(f, i) = Ends(t, q, r, k) \o f[<<q, r, level + 1, k>>]
        /\ el(g, i) = Ends(t, q, r, k) \o g[<<q, r, level + 1, k>>]
    OBVIOUS
  <2> HIDE DEF el
  <2> QED
    BY <2>2, <2>3
<1> DEFINE all(h) == [i \in DOMAIN ks |-> el(h, i)]
<1>5. all(f) = all(g)
  <2> HIDE DEF el
  <2> QED
    BY <1>4
<1>6. \A h \in {f, g} : Round1(t, h, p, right, level, ka)
        = IF level >= MAXFLVL /\ At(t, p + 1) \notin FZK_KGU THEN <<>>
          ELSE IF terminate(t, p, right) # "no" /\ At(t, p + 1) \in FZK_KGU
          THEN <<Call(p + Run(t, p, FZK_KGU), R_FZKKGU, level # 0 /\ ka)>>
          ELSE IF right = R_CUT \/ At(t, p + 1) = 0 THEN <<>>
          ELSE Concat(all(h))
  BY DEF Round1
<1> HIDE DEF all
<1> QED
  BY <1>5, <1>6

\* The functional words behind a stem, from any place on.
Places == Nat \X Right \X Nat \X BOOLEAN
RoundsOf(t, f) == [x \in Places |-> Round1(t, f, x[1], x[2], x[3], x[4])]

\* What the recursion defines exists.
LEMMA RoundsExist ==
    ASSUME NEW t \in Seq(Nat)
    PROVE  \E f : f = RoundsOf(t, f)
<1> PICK L \in Nat : L = Len(t) /\ DOMAIN t = 1..L
  BY LenProperties
<1> PICK V : V = Seq(Calls(0, L))
  OBVIOUS
<1> DEFINE D == Places
           rank == [x \in D |-> IF x[1] <= L THEN L - x[1] ELSE 0]
           H == [f \in [D -> V] |-> RoundsOf(t, f)]
<1>1. V # {}
  BY EmptySeq
<1>2. rank \in [D -> 0..L]
  <2>1. ASSUME NEW x \in D PROVE (IF x[1] <= L THEN L - x[1] ELSE 0) \in 0..L
    <3> PICK p : p = x[1]
      OBVIOUS
    <3>1. p \in Nat
      BY DEF Places
    <3> QED
      BY ONLY <3>1, L \in Nat, p = x[1]
  <2> HIDE DEF D
  <2> QED
    BY <2>1
<1>3. ASSUME NEW f \in [D -> V], NEW x \in D
      PROVE  Round1(t, f, x[1], x[2], x[3], x[4]) \in V
  <2> PICK p, r, n, k : p = x[1] /\ r = x[2] /\ n = x[3] /\ k = x[4]
    OBVIOUS
  <2>1. p \in Nat /\ r \in Right /\ n \in Nat /\ k \in BOOLEAN
    BY DEF Places
  <2>2. \A q \in (p + 1)..L, rr \in Right, kk \in BOOLEAN : f[<<q, rr, n + 1, kk>>] \in V
    <3>1. ASSUME NEW q \in (p + 1)..L, NEW rr \in Right, NEW kk \in BOOLEAN
          PROVE  <<q, rr, n + 1, kk>> \in D
      <4>1. q \in Nat /\ n + 1 \in Nat
        BY <2>1
      <4> QED
        BY ONLY <4>1, rr \in Right, kk \in BOOLEAN DEF Places
    <3> HIDE DEF D
    <3> QED
      BY <3>1
  <2>3. 0 <= p /\ 0 \in Nat
    BY <2>1
  <2>4. Round1(t, f, p, r, n, k) \in Seq(Calls(0, Len(t)))
    <3> HIDE DEF D
    <3> QED
      BY <2>1, <2>2, <2>3, RoundEnds
  <2> QED
    BY <2>4
<1>4. H \in [[D -> V] -> [D -> V]]
  <2>1. ASSUME NEW f \in [D -> V] PROVE RoundsOf(t, f) \in [D -> V]
    <3> PICK g : g = RoundsOf(t, f)
      OBVIOUS
    <3>1. g = [x \in D |-> Round1(t, f, x[1], x[2], x[3], x[4])]
      BY DEF RoundsOf
    <3> HIDE DEF D
    <3> QED
      BY <1>3, <3>1
  <2> HIDE DEF D
  <2> QED
    BY <2>1
<1>5. ASSUME NEW f \in [D -> V], NEW g \in [D -> V], NEW x \in D, Below(rank, x, f, g)
      PROVE  H[f][x] = H[g][x]
  <2> PICK p, r, n, k : p = x[1] /\ r = x[2] /\ n = x[3] /\ k = x[4]
    OBVIOUS
  <2>1. p \in Nat /\ r \in Right /\ n \in Nat /\ k \in BOOLEAN
    BY DEF Places
  <2>2. ASSUME NEW q \in (p + 1)..L, NEW rr \in Right, NEW kk \in BOOLEAN
        PROVE  f[<<q, rr, n + 1, kk>>] = g[<<q, rr, n + 1, kk>>]
    <3> PICK y : y = <<q, rr, n + 1, kk>>
      OBVIOUS
    <3>1. q \in Nat /\ n + 1 \in Nat /\ q <= L /\ p < q /\ p <= L
      <4>1. p \in Nat /\ n \in Nat
        BY <2>1
      <4> QED
        BY ONLY <4>1, L \in Nat, q \in (p + 1)..L
    <3>2. y \in D /\ y[1] = q
      BY ONLY <3>1, rr \in Right, kk \in BOOLEAN, y = <<q, rr, n + 1, kk>> DEF Places
    <3>3. rank[y] = L - q /\ rank[x] = L - p
      <4> HIDE DEF D
      <4> QED
        BY <3>1, <3>2
    <3>4. rank[y] < rank[x]
      <4>1. p \in Nat
        BY <2>1
      <4> QED
        BY ONLY <3>1, <3>3, <4>1, L \in Nat
    <3>5. y \in DOMAIN rank
      BY <3>2
    <3> HIDE DEF rank
    <3> QED
      BY <1>5, <3>4, <3>5 DEF Below
  <2> HIDE DEF D, rank
  <2>3. Round1(t, f, p, r, n, k) = Round1(t, g, p, r, n, k)
    <3>1. \A q \in (p + 1)..Len(t), rr \in Right, kk \in BOOLEAN :
              f[<<q, rr, n + 1, kk>>] = g[<<q, rr, n + 1, kk>>]
      BY <2>2
    <3>2. Agree(t, f, g, p, n)
      BY ONLY <3>1 DEF Agree
    <3> QED
      BY ONLY t \in Seq(Nat), <2>1, <3>2, RoundDepends
  <2>4. \A h \in [D -> V] : H[h][x] = Round1(t, h, p, r, n, k)
    BY DEF RoundsOf, D
  <2> HIDE DEF H
  <2> QED
    BY <2>3, <2>4
<1>6. FillsIn(H, D, V, L, rank)
  <2> HIDE DEF H, D, rank
  <2> QED
    BY <1>1, <1>2, <1>4, <1>5 DEF FillsIn
<1>7. \E f \in [D -> V] : H[f] = f
  <2> HIDE DEF H, D, rank
  <2> QED
    BY <1>6, FixedPoint
<1> HIDE DEF D, rank
<1> QED
  BY <1>7

\* What follows a stem of the text ends at or behind the end of the stem.
LEMMA FzkCalls ==
    ASSUME NEW t \in Seq(Nat), NEW p0 \in Nat, NEW right0 \in Right
    PROVE  srchfzk(t, p0, right0) \in Seq(Calls(p0, Len(t)))
<1> PICK L \in Nat : L = Len(t) /\ DOMAIN t = 1..L
  BY LenProperties
<1> PICK V : V = Seq(Calls(p0, L))
  OBVIOUS
<1>1. srchfzk(t, p0, right0) = (CHOOSE f : f = RoundsOf(t, f))[<<p0, right0, 0, FALSE>>]
  BY DEF srchfzk, RoundsOf, Places, Round1
<1> PICK f : f = CHOOSE g : g = RoundsOf(t, g)
  OBVIOUS
<1>2. f = RoundsOf(t, f)
  BY RoundsExist
<1>3. ASSUME NEW x \in Places PROVE f[x] = Round1(t, f, x[1], x[2], x[3], x[4])
  <2> PICK g : g = RoundsOf(t, f)
    OBVIOUS
  <2>1. g[x] = Round1(t, f, x[1], x[2], x[3], x[4])
    BY DEF RoundsOf
  <2> QED
    BY <1>2, <2>1
<1>4. ASSUME NEW p \in Nat, NEW r \in Right, NEW n \in Nat, NEW k \in BOOLEAN
      PROVE  f[<<p, r, n, k>>] = Round1(t, f, p, r, n, k)
  <2>1. <<p, r, n, k>> \in Places
    BY DEF Places
  <2> QED
    BY <1>3, <2>1
<1> DEFINE T == {d \in Nat : \A p \in Nat : p >= p0 /\ L - p < d =>
                    \A r \in Right, n \in Nat, k \in BOOLEAN : f[<<p, r, n, k>>] \in V}
<1>6. ASSUME NEW p \in Nat, p >= p0, NEW n \in Nat, NEW r \in Right, NEW k \in BOOLEAN,
             \A q \in (p + 1)..Len(t), rr \in Right, kk \in BOOLEAN :
                 f[<<q, rr, n + 1, kk>>] \in V
      PROVE  f[<<p, r, n, k>>] \in V
  <2>1. p0 <= p
    BY <1>6
  <2>2. \A q \in (p + 1)..Len(t), rr \in Right, kk \in BOOLEAN :
                 f[<<q, rr, n + 1, kk>>] \in Seq(Calls(p0, Len(t)))
    BY <1>6
  <2> HIDE DEF T
  <2>3. Round1(t, f, p, r, n, k) \in Seq(Calls(p0, Len(t)))
    BY ONLY t \in Seq(Nat), p0 \in Nat, p \in Nat, n \in Nat, r \in Right, k \in BOOLEAN,
            <2>1, <2>2, RoundEnds
  <2>4. f[<<p, r, n, k>>] = Round1(t, f, p, r, n, k)
    BY <1>4
  <2> QED
    BY ONLY <2>3, <2>4, V = Seq(Calls(p0, L)), L = Len(t)
<1>7. 0 \in T
  <2>1. ASSUME NEW p \in Nat, p >= p0, L - p < 0,
               NEW r \in Right, NEW n \in Nat, NEW k \in BOOLEAN
        PROVE  f[<<p, r, n, k>>] \in V
    <3>1. (p + 1)..L = {}
      BY ONLY p \in Nat, L \in Nat, <2>1
    <3> HIDE DEF T
    <3> QED
      BY <1>6, <2>1, <3>1
  <2> QED
    BY <2>1
<1>8. ASSUME NEW d \in T PROVE d + 1 \in T
  <2>1. d \in Nat /\ d + 1 \in Nat
    OBVIOUS
  <2>2. ASSUME NEW p \in Nat, p >= p0, L - p < d + 1,
               NEW r \in Right, NEW n \in Nat, NEW k \in BOOLEAN
        PROVE  f[<<p, r, n, k>>] \in V
    <3>1. ASSUME NEW q \in (p + 1)..L, NEW rr \in Right, NEW kk \in BOOLEAN
          PROVE  f[<<q, rr, n + 1, kk>>] \in V
      <4>1. q \in Nat /\ q >= p0 /\ n + 1 \in Nat /\ L - q < d
        BY ONLY q \in (p + 1)..L, p \in Nat, p0 \in Nat, L \in Nat, <2>1, n \in Nat, <2>2
      <4> QED
        BY <4>1
    <3> HIDE DEF T
    <3> QED
      BY <1>6, <2>2, <3>1
  <2> QED
    BY <2>1, <2>2
<1>9. L + 1 \in T
  <2>1. T \subseteq Nat
    OBVIOUS
  <2> HIDE DEF T
  <2> QED
    BY <1>7, <1>8, <2>1, SetInduction
<1>10. f[<<p0, right0, 0, FALSE>>] \in V
  <2>1. p0 >= p0 /\ L - p0 < L + 1 /\ 0 \in Nat /\ FALSE \in BOOLEAN
    OBVIOUS
  <2> QED
    BY <1>9, <2>1
<1> QED
  BY <1>1, <1>10

\* What is listed is of the kind of the list.
LEMMA ElementOf ==
    ASSUME NEW S, NEW s \in Seq(S), NEW i \in DOMAIN s
    PROVE  s[i] \in S
OBVIOUS

\* What ends behind q ends behind what is before q.
LEMMA CallsBefore ==
    ASSUME NEW L \in Nat, NEW p \in Nat, NEW q \in Nat, p <= q, NEW s \in Seq(Calls(q, L))
    PROVE  s \in Seq(Calls(p, L))
<1>1. q..L \subseteq p..L
  OBVIOUS
<1>2. Calls(q, L) \subseteq Calls(p, L)
  BY <1>1 DEF Calls
<1> PICK A, B : A = Calls(q, L) /\ B = Calls(p, L)
  OBVIOUS
<1>3. \A i \in 1..Len(s) : s[i] \in B
  BY <1>2
<1> QED
  BY <1>3

\* The endings of a stem: each is in the text behind it.
Conjs(jlen, L) == {c \in [len : Nat, right : Right] : jlen + c.len <= L}

\* The endings of an inflected stem.
LEMMA ConjEndings ==
    ASSUME NEW t \in Seq(Nat), NEW hinsi \in Hinsi, NEW jlen \in Nat,
           NEW stt \in {0} \cup DOMAIN Prefix
    PROVE  setconj(t, hinsi, jlen, stt) \in Seq(Conjs(jlen, Len(t)))
<1> PICK L \in Nat : L = Len(t) /\ DOMAIN t = 1..L
  BY LenProperties
<1> PICK S : S = Conjs(jlen, L)
  OBVIOUS
<1> PICK tbl : tbl = Conj[hinsi]
  OBVIOUS
<1>1. tbl \in Seq([yomi : Seq(Nat), right : Right])
  BY GrammarAssumption
<1> PICK ok : ok = {k \in DOMAIN tbl : Reads(t, jlen, tbl[k].yomi)
                                       /\ Row[stt][tbl[k].right] # 0}
  OBVIOUS
<1> PICK ss : ss = SelectIdx(tbl, ok)
  OBVIOUS
<1>2. /\ Len(ss) \in Nat /\ DOMAIN ss = 1..Len(ss)
      /\ \A i \in DOMAIN ss : ss[i] \in ok /\ ss[i] \in DOMAIN tbl /\ ss[i] \in Nat
  BY ONLY <1>1, ss = SelectIdx(tbl, ok), SelectedPlaces
<1> PICK n \in Nat : n = Len(ss)
  BY <1>2
<1> PICK ks : ks = Reverse(ss)
  OBVIOUS
<1>3. DOMAIN ks = 1..n /\ \A i \in 1..n : ks[i] \in ok
  <2>1. ks = [i \in 1..n |-> ss[(n - i) + 1]]
    BY ONLY ks = Reverse(ss), n = Len(ss) DEF Reverse
  <2>2. \A i \in 1..n : (n - i) + 1 \in 1..n
    BY ONLY n \in Nat
  <2> QED
    BY ONLY <1>2, n = Len(ss), <2>1, <2>2
<1> DEFINE e(i) == [len |-> Len(tbl[ks[i]].yomi), right |-> Row[stt][tbl[ks[i]].right]]
<1>4. ASSUME NEW i \in 1..n PROVE e(i) \in S
  <2> PICK k : k = ks[i]
    OBVIOUS
  <2>1. k \in DOMAIN tbl /\ Reads(t, jlen, tbl[k].yomi) /\ Row[stt][tbl[k].right] # 0
    BY <1>3
  <2>2. tbl[k].yomi \in Seq(Nat) /\ tbl[k].right \in Right
    <3> PICK W : W = [yomi : Seq(Nat), right : Right]
      OBVIOUS
    <3>1. tbl[k] \in W
      BY ONLY <1>1, <2>1, W = [yomi : Seq(Nat), right : Right], ElementOf
    <3> QED
      BY ONLY <3>1, W = [yomi : Seq(Nat), right : Right]
  <2> PICK y, r : y = tbl[k].yomi /\ r = tbl[k].right
    OBVIOUS
  <2>3. Len(y) \in Nat /\ jlen + Len(y) \in jlen..L
    BY <2>1, <2>2, ReadsWithin
  <2>4. Row[stt][r] \in Right
    <3>1. Row[stt][r] \in Right \cup {0}
      BY <2>2, GrammarAssumption
    <3> QED
      BY <2>1, <3>1
  <2>5. e(i) = [len |-> Len(y), right |-> Row[stt][r]]
    OBVIOUS
  <2> QED
    BY ONLY <2>3, <2>4, <2>5, S = Conjs(jlen, L), jlen \in Nat, L \in Nat DEF Conjs
<1> PICK x : x = [i \in 1..n |-> e(i)]
  OBVIOUS
<1>5. x \in Seq(S)
  <2> HIDE DEF e
  <2>1. x \in [1..n -> S]
    BY <1>4
  <2> QED
    BY ONLY <2>1, n \in Nat, MadeList
<1>6. setconj(t, hinsi, jlen, stt) = [i \in DOMAIN ks |-> e(i)]
  BY DEF setconj
<1> HIDE DEF e
<1> QED
  BY <1>3, <1>5, <1>6

\* What a stem, its ending and the words behind it make.
LEMMA StemCalls ==
    ASSUME NEW t \in Seq(Nat), NEW learned, NEW rec \in Stems(Len(t), learned)
    PROVE  CallsOf(t, rec) \in Seq(Calls(rec.jlen, Len(t)))
<1> PICK L \in Nat : L = Len(t) /\ DOMAIN t = 1..L
  BY LenProperties
<1> PICK jlen, stt, hinsi : /\ jlen = rec.jlen /\ stt = rec.sttofs
                            /\ hinsi = IF rec.stbofs = 0 THEN rec.hinsi
                                       ELSE Suffix[rec.hinsi][rec.stbofs].hinsi
  OBVIOUS
<1>1. /\ jlen \in Nat /\ jlen <= L /\ stt \in {0} \cup DOMAIN Prefix
      /\ rec.hinsi \in Hinsi
      /\ rec.stbofs # 0 => rec.stbofs \in DOMAIN Suffix[rec.hinsi]
  <2>1. /\ rec \in [class : {"dict", "bunsetu", "num", "wakachi"}, n : Nat, jlen : 0..L,
                    hinsi : Hinsi, sttofs : {0} \cup DOMAIN Prefix, stbofs : Nat, ka : BOOLEAN]
        /\ rec.stbofs # 0 => rec.stbofs \in DOMAIN Suffix[rec.hinsi]
    BY DEF Stems
  <2> QED
    BY <2>1
<1>2. hinsi \in Hinsi
  <2> PICK h : h = rec.hinsi
    OBVIOUS
  <2> PICK stb : stb = Suffix[h]
    OBVIOUS
  <2>1. stb \in Seq([yomi : Seq(Nat), hinsi : Hinsi, ka : BOOLEAN])
    BY <1>1, GrammarAssumption
  <2>2. ASSUME NEW k \in DOMAIN stb PROVE stb[k].hinsi \in Hinsi
    <3> PICK W : W = [yomi : Seq(Nat), hinsi : Hinsi, ka : BOOLEAN]
      OBVIOUS
    <3>1. stb[k] \in W
      BY ONLY <2>1, k \in DOMAIN stb, W = [yomi : Seq(Nat), hinsi : Hinsi, ka : BOOLEAN], ElementOf
    <3> QED
      BY ONLY <3>1, W = [yomi : Seq(Nat), hinsi : Hinsi, ka : BOOLEAN]
  <2> QED
    BY <1>1, <2>2
<1> PICK S : S = Calls(jlen, L)
  OBVIOUS
<1> PICK right : right = Connadr[hinsi]
  OBVIOUS
<1>3. right \in Right \cup {0}
  BY <1>2, GrammarAssumption
<1> DEFINE el(p, r) == Ends(t, p, r, FALSE) \o srchfzk(t, p, r)
<1>4. ASSUME NEW p \in Nat, p <= L, jlen <= p, NEW r \in Right
      PROVE  el(p, r) \in Seq(S)
  <2>1. p \in p..L /\ FALSE \in BOOLEAN
    BY <1>4
  <2>2. Ends(t, p, r, FALSE) \in Seq(Calls(p, L))
    BY <2>1, EndsCalls
  <2>3. srchfzk(t, p, r) \in Seq(Calls(p, L))
    BY FzkCalls
  <2> PICK V : V = Calls(p, L)
    OBVIOUS
  <2>4. el(p, r) \in Seq(Calls(p, L))
    <3>1. el(p, r) = Ends(t, p, r, FALSE) \o srchfzk(t, p, r)
      OBVIOUS
    <3> HIDE DEF el
    <3> QED
      BY ONLY <2>2, <2>3, <3>1, V = Calls(p, L), ConcatProperties
  <2> HIDE DEF el
  <2> QED
    BY <1>1, <1>4, <2>4, CallsBefore
<1> PICK cs : cs = setconj(t, hinsi, jlen, stt)
  OBVIOUS
<1>5. cs \in Seq(Conjs(jlen, L))
  BY <1>1, <1>2, ConjEndings
<1> PICK x : x = [i \in DOMAIN cs |-> el(jlen + cs[i].len, cs[i].right)]
  OBVIOUS
<1>6. x \in Seq(Seq(S))
  <2> PICK n \in Nat : n = Len(cs) /\ DOMAIN cs = 1..n
    BY <1>5, LenProperties
  <2>1. ASSUME NEW i \in 1..n PROVE el(jlen + cs[i].len, cs[i].right) \in Seq(S)
    <3> PICK c : c = cs[i]
      OBVIOUS
    <3>1. c \in Conjs(jlen, L)
      BY ONLY <1>5, c = cs[i], i \in 1..n, DOMAIN cs = 1..n, ElementOf
    <3>2. c.len \in Nat /\ c.right \in Right /\ jlen + c.len <= L
      BY ONLY <3>1 DEF Conjs
    <3> PICK d, r : d = c.len /\ r = c.right
      OBVIOUS
    <3>3. jlen + d \in Nat /\ jlen <= jlen + d
      BY ONLY <1>1, <3>2, d = c.len
    <3> HIDE DEF el
    <3> QED
      BY <1>4, <3>2, <3>3
  <2> HIDE DEF el
  <2> PICK V : V = Seq(S)
    OBVIOUS
  <2>2. x \in [1..n -> V]
    <3>1. \A i \in 1..n : el(jlen + cs[i].len, cs[i].right) \in V
      BY <2>1
    <3> QED
      BY ONLY <3>1, DOMAIN cs = 1..n, x = [i \in DOMAIN cs |-> el(jlen + cs[i].len, cs[i].right)]
  <2> QED
    BY ONLY <2>2, n \in Nat, V = Seq(S), MadeList
<1>7. Concat(x) \in Seq(S)
  BY ONLY <1>6, Flattened
<1>8. CallsOf(t, rec) = IF right # 0 THEN el(jlen, right) ELSE Concat(x)
  BY DEF CallsOf
<1>9. right # 0 => el(jlen, right) \in Seq(S)
  <2> HIDE DEF el
  <2>1. jlen <= jlen
    BY <1>1
  <2> QED
    BY <1>1, <1>3, <1>4, <2>1
<1> HIDE DEF el
<1> QED
  BY <1>7, <1>8, <1>9

----------------------------------------------------------------------------
(* Clauses                                                                  *)

\* The clauses of a text of L characters on the stems of j: none is empty, shorter
\* than its stem or too long.  Their lists are by falling length.
ClausesOf(j, L) ==
    {r \in [jnode : DOMAIN j, cllen : 1..L, right : Right, fzk_ka : BOOLEAN] :
        j[r.jnode].jlen <= r.cllen /\ r.cllen <= MAXCLINPUTLEN}
ByLength(list) == \A m, n \in DOMAIN list : m < n => list[n].cllen <= list[m].cllen
ClauseLists(j, L) == {l \in Seq(ClausesOf(j, L)) : ByLength(l)}

\* A clause is put where the list stays by length.
LEMMA Argclrec ==
    ASSUME NEW L \in Nat, NEW j, NEW list \in ClauseLists(j, L), NEW rec \in ClausesOf(j, L)
    PROVE  argclrec(list, rec, j) \in ClauseLists(j, L) /\ argclrec(list, rec, j) # <<>>
<1> PICK S : S = ClausesOf(j, L)
  OBVIOUS
<1>0. list \in Seq(S) /\ ByLength(list) /\ rec \in S
  BY DEF ClauseLists
<1> PICK m \in Nat : m = Len(list) /\ DOMAIN list = 1..m
  BY <1>0, LenProperties
<1> PICK behind : behind = {k \in DOMAIN list :
                    \/ list[k].cllen < rec.cllen
                    \/ /\ list[k].cllen = rec.cllen
                       /\ j[list[k].jnode].hinsi = TANKANJI}
  OBVIOUS
<1> PICK i : i = FirstIn(m, behind)
  OBVIOUS
<1>1. /\ i \in 1..(m + 1)
      /\ behind # {} => i \in behind
      /\ \A k \in 1..m : k < i => k \notin behind
  <2>1. behind \in SUBSET (1..m)
    OBVIOUS
  <2> QED
    BY ONLY <2>1, m \in Nat, i = FirstIn(m, behind), FirstBehind
<1> PICK z : z = InsertAt(list, i, rec)
  OBVIOUS
<1>2. argclrec(list, rec, j) = z
  BY DEF argclrec, FirstIn
<1>3. /\ z \in Seq(S) /\ Len(z) = m + 1
      /\ \A k \in 1..(m + 1) : z[k] = IF k < i THEN list[k] ELSE IF k = i THEN rec ELSE list[k - 1]
  <2>1. i \in 1..(Len(list) + 1)
    BY <1>1
  <2> QED
    BY ONLY <1>0, <2>1, z = InsertAt(list, i, rec), m = Len(list), Inserted1
<1>4. DOMAIN z = 1..(m + 1) /\ z # <<>>
  BY ONLY <1>3, m \in Nat, EmptySeq, LenProperties
<1>5. \A r \in S : r.cllen \in Nat
  BY DEF ClausesOf
<1>6. rec.cllen \in Nat /\ \A k \in 1..m : list[k].cllen \in Nat
  <2>1. ASSUME NEW k \in 1..m PROVE list[k] \in S
    BY ONLY <1>0, k \in 1..m, DOMAIN list = 1..m, ElementOf
  <2> QED
    BY ONLY <1>0, <1>5, <2>1
<1> PICK c \in Nat : c = rec.cllen
  BY <1>6
<1> PICK cl : cl = [k \in 1..m |-> list[k].cllen]
  OBVIOUS
<1>f. \A k \in 1..m : cl[k] \in Nat /\ cl[k] = list[k].cllen
  BY <1>6
<1>b. \A k \in 1..m : (k \in behind => cl[k] <= c) /\ (k \notin behind => c <= cl[k])
  <2>1. ASSUME NEW k \in 1..m
        PROVE  k \in behind <=> \/ cl[k] < c
                                \/ cl[k] = c /\ j[list[k].jnode].hinsi = TANKANJI
    BY <1>f
  <2> QED
    BY ONLY <1>f, <2>1, c \in Nat
<1>7. \A k \in 1..m : k < i => c <= cl[k]
  BY ONLY <1>1, <1>b
<1>8. \A k, n \in 1..m : k <= n => cl[n] <= cl[k]
  <2>1. ASSUME NEW k \in 1..m, NEW n \in 1..m, k < n PROVE cl[n] <= cl[k]
    BY <1>0, <1>f, <2>1 DEF ByLength
  <2> QED
    BY ONLY <1>f, <2>1, m \in Nat
<1>9. \A k \in 1..m : i <= k => cl[k] <= c
  <2>1. ASSUME NEW k \in 1..m, i <= k PROVE cl[k] <= c
    <3>1. behind # {}
      <4>1. ASSUME behind = {} PROVE FALSE
        <5>1. i = m + 1
          BY <4>1 DEF FirstIn
        <5> QED
          BY ONLY <2>1, <5>1, m \in Nat, k \in 1..m
      <4> QED
        BY <4>1
    <3>2. i \in behind /\ i \in 1..m
      BY ONLY <1>1, <2>1, <3>1, m \in Nat, k \in 1..m
    <3>3. cl[i] <= c
      BY ONLY <1>b, <3>2
    <3>4. cl[k] <= cl[i]
      BY ONLY <1>8, <2>1, <3>2, k \in 1..m
    <3> QED
      BY ONLY <1>f, <3>2, <3>3, <3>4, k \in 1..m, c \in Nat
  <2> QED
    BY <2>1
<1>10. ASSUME NEW k \in DOMAIN z, NEW n \in DOMAIN z, k < n PROVE z[n].cllen <= z[k].cllen
  <2> PICK lk : lk = IF k < i THEN k ELSE k - 1
    OBVIOUS
  <2> PICK ln : ln = IF n < i THEN n ELSE n - 1
    OBVIOUS
  <2>1. /\ k # i => lk \in 1..m /\ z[k] = list[lk]
        /\ n # i => ln \in 1..m /\ z[n] = list[ln]
        /\ k = i => z[k] = rec /\ i <= ln
        /\ n = i => z[n] = rec /\ lk < i
        /\ k # i /\ n # i => lk <= ln
    BY ONLY <1>1, <1>3, <1>4, <1>10, m \in Nat, lk = (IF k < i THEN k ELSE k - 1),
            ln = IF n < i THEN n ELSE n - 1
  <2>2. CASE k # i /\ n # i
    BY ONLY <1>8, <1>f, <2>1, <2>2
  <2>3. CASE k = i
    BY ONLY <1>9, <1>f, c = rec.cllen, <1>10, <2>1, <2>3, k \in DOMAIN z, n \in DOMAIN z, <1>4, m \in Nat
  <2>4. CASE n = i
    BY ONLY <1>7, <1>f, c = rec.cllen, <1>10, <2>1, <2>4, k \in DOMAIN z, n \in DOMAIN z, <1>4, m \in Nat
  <2> QED
    BY <2>2, <2>3, <2>4
<1>11. ByLength(z)
  BY <1>10 DEF ByLength
<1> QED
  BY <1>2, <1>3, <1>4, <1>11 DEF ClauseLists

\* One call of setclrec.
LEMMA Setclrec ==
    ASSUME NEW L \in Nat, NEW j, NEW list \in ClauseLists(j, L), NEW n \in DOMAIN j,
           j[n].jlen \in Nat, NEW call \in Calls(j[n].jlen, L)
    PROVE  /\ setclrec(list, n, call, j) \in ClauseLists(j, L)
           /\ list # <<>> \/ call.len \in 1..MAXCLINPUTLEN => setclrec(list, n, call, j) # <<>>
<1>1. CASE call.len \in 1..MAXCLINPUTLEN
  <2> PICK rec : rec = CLRec(n, call)
    OBVIOUS
  <2>1. rec \in ClausesOf(j, L)
    <3> PICK a, b, c : a = call.len /\ b = call.right /\ c = call.ka
      OBVIOUS
    <3>1. a \in j[n].jlen..L /\ b \in Right /\ c \in BOOLEAN /\ a \in 1..MAXCLINPUTLEN
      BY <1>1 DEF Calls
    <3>2. MAXCLINPUTLEN \in Nat
      BY GrammarAssumption
    <3>3. rec = [jnode |-> n, cllen |-> a, right |-> b, fzk_ka |-> c]
      BY DEF CLRec
    <3> PICK x : x = j[n].jlen
      OBVIOUS
    <3>4. a \in 1..L /\ x <= a /\ a <= MAXCLINPUTLEN
      BY ONLY <3>1, <3>2, x \in Nat, x = j[n].jlen, L \in Nat
    <3> QED
      BY <3>1, <3>3, <3>4 DEF ClausesOf
  <2>2. setclrec(list, n, call, j) = argclrec(list, rec, j)
    BY <1>1 DEF setclrec
  <2> QED
    BY <2>1, <2>2, Argclrec
<1>2. CASE call.len \notin 1..MAXCLINPUTLEN
  BY <1>2 DEF setclrec
<1> QED
  BY <1>1, <1>2

\* The calls for a stem one after the other.
LEMMA ClausesSet ==
    ASSUME NEW L \in Nat, NEW j, NEW list \in ClauseLists(j, L), NEW n \in DOMAIN j,
           j[n].jlen \in Nat, NEW calls \in Seq(Calls(j[n].jlen, L))
    PROVE  /\ SetAll(list, n, calls, j) \in ClauseLists(j, L)
           /\ list # <<>> \/ (\E i \in DOMAIN calls : calls[i].len \in 1..MAXCLINPUTLEN)
                => SetAll(list, n, calls, j) # <<>>
<1> PICK m \in Nat : m = Len(calls) /\ DOMAIN calls = 1..m
  BY LenProperties
<1> PICK V : V = ClauseLists(j, L)
  OBVIOUS
<1> DEFINE op(l, x) == setclrec(l, n, x, j)
           seq == calls
           Def(g) == g = [s \in SUBSET (DOMAIN seq) |->
                            IF s = {} THEN list ELSE op(g[s \ {Max(s)}], seq[Max(s)])]
           step == [x \in (1..m) \X V |-> op(x[2], seq[x[1]])]
<1>1. SetAll(list, n, calls, j) = (CHOOSE g : Def(g))[DOMAIN seq]
  BY DEF SetAll, FoldLeft, MapThenFoldSet
<1>2. DOMAIN seq = 1..m
  OBVIOUS
<1>3. list \in V
  OBVIOUS
<1>4. ASSUME NEW k \in 1..m, NEW l \in V PROVE op(l, seq[k]) \in V
  <2> PICK c : c = calls[k]
    OBVIOUS
  <2>1. c \in Calls(j[n].jlen, L)
    BY ONLY calls \in Seq(Calls(j[n].jlen, L)), k \in 1..m, DOMAIN calls = 1..m, c = calls[k], ElementOf
  <2> QED
    BY <2>1, Setclrec
<1> HIDE DEF op, seq
<1>5. /\ step \in [(1..m) \X V -> V]
      /\ \A k \in 1..m, l \in V : step[<<k, l>>] = op(l, seq[k])
  BY <1>4
<1> HIDE DEF step
<1>6. \E g : Def(g)
  <2>1. PICK g : Folds(g, V, list, m, step)
    BY <1>3, <1>5, FoldExists
  <2>2. /\ g \in [SUBSET (1..m) -> V]
        /\ \A s \in SUBSET (1..m) :
              g[s] = IF s = {} THEN list ELSE step[<<Max(s), g[s \ {Max(s)}]>>]
    BY <2>1 DEF Folds
  <2>3. ASSUME NEW s \in SUBSET (1..m), s # {} PROVE g[s] = op(g[s \ {Max(s)}], seq[Max(s)])
    <3>1. Max(s) \in 1..m /\ g[s \ {Max(s)}] \in V
      BY <2>2, <2>3, LastIndex
    <3>2. g[s] = step[<<Max(s), g[s \ {Max(s)}]>>]
      BY <2>2, <2>3
    <3> QED
      BY <1>5, <3>1, <3>2
  <2>4. g[{}] = list
    BY <2>2
  <2> QED
    BY <1>2, <2>2, <2>3, <2>4
<1> PICK fld : fld = CHOOSE x : Def(x)
  OBVIOUS
<1>7. Def(fld)
  <2> HIDE DEF Def
  <2> QED
    BY <1>6
<1>8. FoldedBy(fld, V, list, m, step)
  <2>1. fld[{}] = list
    <3>1. {} \in SUBSET (DOMAIN seq)
      OBVIOUS
    <3> QED
      BY <1>7, <3>1
  <2>2. ASSUME NEW s \in SUBSET (1..m), s # {}, fld[s \ {Max(s)}] \in V
        PROVE  fld[s] = step[<<Max(s), fld[s \ {Max(s)}]>>]
    <3>1. Max(s) \in 1..m /\ s \in SUBSET (DOMAIN seq)
      BY <1>2, <2>2, LastIndex
    <3>2. fld[s] = op(fld[s \ {Max(s)}], seq[Max(s)])
      BY ONLY <1>7, <2>2, <3>1
    <3> PICK x : x = fld[s \ {Max(s)}]
      OBVIOUS
    <3>3. step[<<Max(s), x>>] = op(x, seq[Max(s)])
      BY <1>5, <2>2, <3>1
    <3> QED
      BY <3>2, <3>3
  <2> HIDE DEF Def
  <2>3. \A s \in SUBSET (1..m) : s # {} /\ fld[s \ {Max(s)}] \in V =>
            fld[s] = step[<<Max(s), fld[s \ {Max(s)}]>>]
    BY ONLY <2>2
  <2>4. list \in V /\ m \in Nat /\ step \in [(1..m) \X V -> V]
    BY <1>3, <1>5
  <2> QED
    BY ONLY <2>1, <2>3, <2>4, Zenon DEF FoldedBy
<1>9. PICK h : Iterates(h, V, list, m, step) /\ fld[1..m] = h[m]
  <2> HIDE DEF Def
  <2>1. \E h : Iterates(h, V, list, m, step) /\ fld[1..m] = h[m]
    BY ONLY <1>8, FoldChain
  <2> QED
    BY <2>1
<1>10. SetAll(list, n, calls, j) = h[m]
  <2> HIDE DEF Def
  <2> QED
    BY <1>1, <1>2, <1>9
<1>11. h[m] \in V
  BY <1>9 DEF Iterates
<1> DEFINE good(k) == calls[k].len \in 1..MAXCLINPUTLEN
           T == {k \in Nat : k <= m /\ (list # <<>> \/ \E i \in 1..k : good(i)) => h[k] # <<>>}
<1>12. h[0] = list /\ \A k \in 1..m : h[k] = step[<<k, h[k - 1]>>] /\ h[k - 1] \in V
  <2>1. h \in [0..m -> V] /\ h[0] = list /\ \A k \in 1..m : h[k] = step[<<k, h[k - 1]>>]
    BY ONLY <1>9 DEF Iterates
  <2>2. \A k \in 1..m : k - 1 \in 0..m
    BY ONLY m \in Nat
  <2> QED
    BY ONLY <2>1, <2>2
<1>13. 0 \in T
  BY <1>12
<1>14. ASSUME NEW k \in T PROVE k + 1 \in T
  <2>1. k \in Nat /\ k + 1 \in Nat /\ (k + 1) - 1 = k
    OBVIOUS
  <2>2. ASSUME k + 1 <= m, list # <<>> \/ \E i \in 1..(k + 1) : good(i) PROVE h[k + 1] # <<>>
    <3>1. k + 1 \in 1..m /\ k <= m
      BY <2>1, <2>2
    <3> PICK x : x = h[k]
      OBVIOUS
    <3>2. h[k + 1] = step[<<k + 1, x>>] /\ x \in V
      BY <1>12, <2>1, <3>1
    <3>3. h[k + 1] = setclrec(x, n, calls[k + 1], j)
      BY <1>5, <3>1, <3>2 DEF op, seq
    <3>4. calls[k + 1] \in Calls(j[n].jlen, L)
      BY ONLY calls \in Seq(Calls(j[n].jlen, L)), <3>1, DOMAIN calls = 1..m, ElementOf
    <3>5. x # <<>> \/ good(k + 1) => h[k + 1] # <<>>
      BY <3>2, <3>3, <3>4, Setclrec
    <3>6. CASE good(k + 1)
      BY <3>5, <3>6
    <3>7. CASE ~good(k + 1)
      <4>1. list # <<>> \/ \E i \in 1..k : good(i)
        <5>1. \A i \in 1..(k + 1) : i \in 1..k \/ i = k + 1
          BY <2>1
        <5> HIDE DEF good, T
        <5> QED
          BY <2>2, <3>7, <5>1
      <4>2. x # <<>>
        BY <3>1, <4>1
      <4> QED
        BY <3>5, <4>2
    <3> QED
      BY <3>6, <3>7
  <2> HIDE DEF good
  <2> QED
    BY <2>1, <2>2
<1>15. m \in T
  <2>1. T \subseteq Nat
    OBVIOUS
  <2> HIDE DEF T
  <2> QED
    BY <1>13, <1>14, <2>1, SetInduction
<1>16. list # <<>> \/ (\E i \in DOMAIN calls : calls[i].len \in 1..MAXCLINPUTLEN) => h[m] # <<>>
  BY <1>15
<1> QED
  BY <1>10, <1>11, <1>16

\* The clauses on all the stems.
LEMMA MadeClauses ==
    ASSUME NEW t \in Seq(Nat), NEW learned, NEW j \in Seq(Stems(Len(t), learned))
    PROVE  mkbunsetu(t, j) \in ClauseLists(j, Len(t))
<1> PICK L \in Nat : L = Len(t)
  BY LenProperties
<1> PICK m \in Nat : m = Len(j) /\ DOMAIN j = 1..m
  BY LenProperties
<1> PICK V : V = ClauseLists(j, L)
  OBVIOUS
<1> DEFINE op(l, x) == SetAll(l, x, CallsOf(t, j[x]), j)
           seq == [n \in DOMAIN j |-> n]
           Def(g) == g = [s \in SUBSET (DOMAIN seq) |->
                            IF s = {} THEN <<>> ELSE op(g[s \ {Max(s)}], seq[Max(s)])]
           step == [x \in (1..m) \X V |-> op(x[2], seq[x[1]])]
<1>1. mkbunsetu(t, j) = (CHOOSE g : Def(g))[DOMAIN seq]
  BY DEF mkbunsetu, FoldLeft, MapThenFoldSet
<1>2. DOMAIN seq = 1..m
  OBVIOUS
<1>3. <<>> \in V
  <2>1. <<>> \in Seq(ClausesOf(j, L)) /\ DOMAIN <<>> = {}
    BY EmptySeq
  <2> QED
    BY <2>1 DEF ClauseLists, ByLength
<1>4. ASSUME NEW n \in 1..m, NEW l \in V PROVE op(l, seq[n]) \in V
  <2>1. seq[n] = n /\ n \in DOMAIN j
    OBVIOUS
  <2> PICK rec : rec = j[n]
    OBVIOUS
  <2>2. rec \in Stems(L, learned)
    BY ONLY j \in Seq(Stems(Len(t), learned)), <2>1, rec = j[n], L = Len(t), ElementOf
  <2>3. rec.jlen \in Nat
    BY <2>2 DEF Stems
  <2>4. CallsOf(t, rec) \in Seq(Calls(rec.jlen, L))
    BY <2>2, StemCalls
  <2>5. SetAll(l, n, CallsOf(t, rec), j) \in ClauseLists(j, L)
    BY <2>1, <2>3, <2>4, ClausesSet
  <2> QED
    BY <2>1, <2>5
<1> HIDE DEF op, seq
<1>5. /\ step \in [(1..m) \X V -> V]
      /\ \A n \in 1..m, l \in V : step[<<n, l>>] = op(l, seq[n])
  BY <1>4
<1> HIDE DEF step
<1>6. \E g : Def(g)
  <2>1. PICK g : Folds(g, V, <<>>, m, step)
    BY <1>3, <1>5, FoldExists
  <2>2. /\ g \in [SUBSET (1..m) -> V]
        /\ \A s \in SUBSET (1..m) :
              g[s] = IF s = {} THEN <<>> ELSE step[<<Max(s), g[s \ {Max(s)}]>>]
    BY <2>1 DEF Folds
  <2>3. ASSUME NEW s \in SUBSET (1..m), s # {} PROVE g[s] = op(g[s \ {Max(s)}], seq[Max(s)])
    <3>1. Max(s) \in 1..m /\ g[s \ {Max(s)}] \in V
      BY <2>2, <2>3, LastIndex
    <3>2. g[s] = step[<<Max(s), g[s \ {Max(s)}]>>]
      BY <2>2, <2>3
    <3> QED
      BY <1>5, <3>1, <3>2
  <2>4. g[{}] = <<>>
    BY <2>2
  <2> QED
    BY <1>2, <2>2, <2>3, <2>4
<1> PICK fld : fld = CHOOSE x : Def(x)
  OBVIOUS
<1>7. Def(fld)
  <2> HIDE DEF Def
  <2> QED
    BY <1>6
<1>8. FoldedBy(fld, V, <<>>, m, step)
  <2>1. fld[{}] = <<>>
    <3>1. {} \in SUBSET (DOMAIN seq)
      OBVIOUS
    <3> QED
      BY <1>7, <3>1
  <2>2. ASSUME NEW s \in SUBSET (1..m), s # {}, fld[s \ {Max(s)}] \in V
        PROVE  fld[s] = step[<<Max(s), fld[s \ {Max(s)}]>>]
    <3>1. Max(s) \in 1..m /\ s \in SUBSET (DOMAIN seq)
      BY <1>2, <2>2, LastIndex
    <3>2. fld[s] = op(fld[s \ {Max(s)}], seq[Max(s)])
      BY ONLY <1>7, <2>2, <3>1
    <3> PICK x : x = fld[s \ {Max(s)}]
      OBVIOUS
    <3>3. step[<<Max(s), x>>] = op(x, seq[Max(s)])
      BY <1>5, <2>2, <3>1
    <3> QED
      BY <3>2, <3>3
  <2> HIDE DEF Def
  <2>3. \A s \in SUBSET (1..m) : s # {} /\ fld[s \ {Max(s)}] \in V =>
            fld[s] = step[<<Max(s), fld[s \ {Max(s)}]>>]
    BY ONLY <2>2
  <2>4. <<>> \in V /\ m \in Nat /\ step \in [(1..m) \X V -> V]
    BY <1>3, <1>5
  <2> QED
    BY ONLY <2>1, <2>3, <2>4, Zenon DEF FoldedBy
<1>9. PICK h : Iterates(h, V, <<>>, m, step) /\ fld[1..m] = h[m]
  <2> HIDE DEF Def
  <2>1. \E h : Iterates(h, V, <<>>, m, step) /\ fld[1..m] = h[m]
    BY ONLY <1>8, FoldChain
  <2> QED
    BY <2>1
<1>10. mkbunsetu(t, j) = h[m]
  <2> HIDE DEF Def
  <2> QED
    BY <1>1, <1>2, <1>9
<1>11. h[m] \in V
  BY <1>9 DEF Iterates
<1> QED
  BY <1>10, <1>11

----------------------------------------------------------------------------
(* Unknown words                                                            *)

\* The stem of an unknown word.
LEMMA UnknownStem ==
    ASSUME NEW L \in Nat, NEW learned \in BOOLEAN, NEW n \in 0..L, NEW h \in Hinsi
    PROVE  /\ Stem(n, h) \in Seq(Stems(L, learned))
           /\ DOMAIN Stem(n, h) = {1} /\ Stem(n, h)[1].jlen = n
<1> PICK rec, S : rec = JRec("wakachi", 0, n, h, 0) /\ S = Stems(L, learned)
  OBVIOUS
<1>1. rec \in S
  BY StemOf
<1>2. rec.jlen = n
  BY DEF JRec
<1>3. <<rec>> \in Seq(S) /\ DOMAIN <<rec>> = {1} /\ <<rec>>[1] = rec
  BY <1>1
<1> QED
  BY <1>2, <1>3 DEF Stem

\* The calls for an unknown stem; one that a number follows has one as long as
\* the stem.
LEMMA EndingsCalls ==
    ASSUME NEW t \in Seq(Nat), NEW jlen \in Nat, jlen <= Len(t),
           NEW cs \in Seq(Conjs(jlen, Len(t))), NEW number \in 0..Len(cs),
           NEW e, e = Endings(t, jlen, cs, number)
    PROVE  /\ e.calls \in Seq(Calls(jlen, Len(t))) /\ e.number = (number # 0)
           /\ number # 0 => \E k \in DOMAIN e.calls : e.calls[k].len = jlen
<1> PICK L \in Nat : L = Len(t)
  BY LenProperties
<1> PICK S : S = Calls(jlen, L)
  OBVIOUS
<1> PICK n \in Nat : n = Len(cs) /\ DOMAIN cs = 1..n
  BY LenProperties
<1> DEFINE calls(c, p) == (IF c.len = 0 THEN <<>> ELSE Ends(t, p, c.right, FALSE))
                          \o srchfzk(t, p, c.right)
           el(i) == IF number = 0 \/ i < number THEN calls(cs[i], jlen + cs[i].len)
                    ELSE IF i = number THEN <<Call(jlen, cs[i].right, FALSE)>>
                    ELSE <<>>
<1>1. ASSUME NEW i \in 1..n
      PROVE  cs[i].len \in Nat /\ cs[i].right \in Right /\ jlen + cs[i].len <= L
  <2>1. cs[i] \in Conjs(jlen, L)
    BY ONLY cs \in Seq(Conjs(jlen, Len(t))), L = Len(t), i \in 1..n, DOMAIN cs = 1..n, ElementOf
  <2> QED
    BY <2>1 DEF Conjs
<1>2. ASSUME NEW i \in 1..n PROVE calls(cs[i], jlen + cs[i].len) \in Seq(S)
  <2> PICK d, r, p : d = cs[i].len /\ r = cs[i].right /\ p = jlen + d
    OBVIOUS
  <2>1. p \in Nat /\ p \in p..L /\ jlen <= p /\ r \in Right /\ FALSE \in BOOLEAN
    BY ONLY <1>1, jlen \in Nat, L \in Nat, i \in 1..n, d = cs[i].len /\ r = cs[i].right /\ p = jlen + d
  <2> PICK a : a = IF d = 0 THEN <<>> ELSE Ends(t, p, r, FALSE)
    OBVIOUS
  <2>2. a \in Seq(Calls(p, L))
    <3>1. <<>> \in Seq(Calls(p, L))
      BY EmptySeq
    <3>2. Ends(t, p, r, FALSE) \in Seq(Calls(p, L))
      BY <2>1, EndsCalls
    <3> QED
      BY <3>1, <3>2
  <2>3. srchfzk(t, p, r) \in Seq(Calls(p, L))
    BY <2>1, FzkCalls
  <2> PICK x : x = a \o srchfzk(t, p, r)
    OBVIOUS
  <2>4. x \in Seq(Calls(p, L))
    BY ONLY <2>2, <2>3, x = a \o srchfzk(t, p, r), ConcatProperties
  <2>5. x \in Seq(Calls(jlen, L))
    BY <2>1, <2>4, CallsBefore
  <2>6. calls(cs[i], jlen + cs[i].len) = x
    OBVIOUS
  <2> HIDE DEF calls
  <2> QED
    BY <2>5, <2>6
<1> HIDE DEF calls
<1>3. ASSUME NEW i \in 1..n PROVE Call(jlen, cs[i].right, FALSE) \in S
  <2> PICK r : r = cs[i].right
    OBVIOUS
  <2>1. r \in Right /\ jlen \in jlen..L /\ FALSE \in BOOLEAN
    BY <1>1
  <2> QED
    BY <2>1 DEF Call, Calls
<1>4. ASSUME NEW i \in 1..n PROVE el(i) \in Seq(S)
  <2>1. <<>> \in Seq(S)
    BY EmptySeq
  <2> PICK c : c = Call(jlen, cs[i].right, FALSE)
    OBVIOUS
  <2>2. <<c>> \in Seq(S)
    <3>1. c \in S
      BY <1>3
    <3> QED
      BY ONLY <3>1
  <2> QED
    BY <1>2, <2>1, <2>2
<1> PICK V : V = Seq(S)
  OBVIOUS
<1> PICK x : x = [i \in DOMAIN cs |-> el(i)]
  OBVIOUS
<1>5. x \in Seq(V) /\ DOMAIN x = 1..n /\ \A i \in 1..n : x[i] = el(i)
  <2> HIDE DEF el
  <2>1. x \in [1..n -> V] /\ \A i \in 1..n : x[i] = el(i)
    BY <1>4
  <2> QED
    BY ONLY <2>1, n \in Nat, MadeList
<1>6. e.calls = Concat(x) /\ e.number = (number # 0)
  <2>1. e = [calls |-> Concat(x), number |-> number # 0]
    BY DEF Endings, calls
  <2> QED
    BY <2>1
<1>7. x \in Seq(Seq(S))
  BY <1>5
<1>8. /\ Concat(x) \in Seq(S)
      /\ \A i \in DOMAIN x : \A k \in DOMAIN x[i] :
            \E m \in DOMAIN Concat(x) : Concat(x)[m] = x[i][k]
  BY ONLY <1>7, Flattened
<1>9. ASSUME number # 0 PROVE \E k \in DOMAIN e.calls : e.calls[k].len = jlen
  <2>1. number \in 1..n
    BY <1>9
  <2> PICK c : c = Call(jlen, cs[number].right, FALSE)
    OBVIOUS
  <2>2. x[number] = <<c>>
    <3>1. x[number] = el(number)
      BY <1>5, <2>1
    <3>2. number # 0 /\ ~(number < number)
      BY <1>9, <2>1
    <3> QED
      BY <3>1, <3>2
  <2>3. 1 \in DOMAIN x[number] /\ x[number][1] = c
    BY ONLY <2>2
  <2>4. \E m \in DOMAIN Concat(x) : Concat(x)[m] = c
    BY ONLY <1>5, <1>8, <2>1, <2>3
  <2>5. c.len = jlen
    BY DEF Call
  <2> QED
    BY ONLY <1>6, <2>4, <2>5
<1> QED
  BY <1>6, <1>8, <1>9

\* A number ends an unknown word only if the word is there.
LEMMA UnknownCalls ==
    ASSUME NEW t \in Seq(Nat), NEW jlen \in Nat, jlen <= Len(t),
           NEW e, e = WakachiCalls(t, jlen)
    PROVE  /\ e.calls \in Seq(Calls(jlen, Len(t))) /\ e.number \in BOOLEAN
           /\ e.number => jlen # 0 /\ \E k \in DOMAIN e.calls : e.calls[k].len = jlen
<1> PICK cs : cs = setconj(t, MEISI_6, jlen, 0)
  OBVIOUS
<1>1. cs \in Seq(Conjs(jlen, Len(t)))
  BY GrammarAssumption, ConjEndings
<1> PICK number : number = IF jlen > 0 /\ At(t, jlen + 1) \in NUMBER
                           THEN SelectInSeq(cs, LAMBDA c : c.len = 0) ELSE 0
  OBVIOUS
<1>2. number \in 0..Len(cs) /\ (number # 0 => jlen # 0)
  <2> DEFINE I == {i \in 1..Len(cs) : cs[i].len = 0}
  <2>1. SelectInSeq(cs, LAMBDA c : c.len = 0) = IF I # {} THEN Min(I) ELSE 0
    BY DEF SelectInSeq
  <2>2. Len(cs) \in Nat
    BY <1>1, LenProperties
  <2>3. I \subseteq 0..Len(cs) /\ 0 \in 0..Len(cs)
    BY <2>2
  <2> HIDE DEF I
  <2>4. I # {} => Min(I) \in I
    <3>1. ASSUME I # {} PROVE \E i \in I : \A k \in I : i <= k
      <4>1. I \subseteq Nat
        BY <2>2, <2>3
      <4> QED
        BY ONLY <3>1, <4>1, LeastNatural
    <3> QED
      BY <3>1 DEF Min
  <2> QED
    BY <2>1, <2>3, <2>4
<1>3. e = Endings(t, jlen, cs, number)
  BY DEF WakachiCalls
<1>4. /\ e.calls \in Seq(Calls(jlen, Len(t))) /\ e.number = (number # 0)
      /\ number # 0 => \E k \in DOMAIN e.calls : e.calls[k].len = jlen
  BY <1>1, <1>2, <1>3, EndingsCalls
<1> QED
  BY <1>2, <1>4

\* What wakachi_grow holds while it makes the word longer.
Growing(L, w) ==
    /\ w.cl \in ClauseLists(Stem(w.len, MEISI_6), L)
    /\ w.number => w.cl # <<>>
Grown(L, max) ==
    {w \in [len : 0..max, number : BOOLEAN,
            cl : UNION {ClauseLists(Stem(n, MEISI_6), L) : n \in 0..max}] : Growing(L, w)}
TryOf(t, n) ==
    LET c == WakachiCalls(t, n)
    IN  [len |-> n, number |-> c.number, cl |-> SetAll(<<>>, 1, c.calls, Stem(n, MEISI_6))]
NextOf(t, max, w) ==
    IF w.cl # <<>> \/ w.len = max THEN w
    ELSE IF w.len + 1 = max THEN [w EXCEPT !.len = max]
    ELSE TryOf(t, w.len + 1)

\* The list without a clause.
LEMMA NoClauses == \A j, L : <<>> \in ClauseLists(j, L)
<1>1. ASSUME NEW j, NEW L PROVE <<>> \in ClauseLists(j, L)
  <2>1. <<>> \in Seq(ClausesOf(j, L)) /\ DOMAIN <<>> = {}
    BY EmptySeq
  <2> QED
    BY <2>1 DEF ClauseLists, ByLength
<1> QED
  BY <1>1

\* What a stem of n characters leads to.
LEMMA Tried ==
    ASSUME NEW t \in Seq(Nat), NEW max \in Nat, max <= Len(t), max <= MAXCLINPUTLEN,
           NEW n \in 0..max
    PROVE  TryOf(t, n) \in Grown(Len(t), max) /\ TryOf(t, n).len = n
<1> PICK L \in Nat : L = Len(t)
  BY LenProperties
<1> PICK c : c = WakachiCalls(t, n)
  OBVIOUS
<1>0. n \in Nat /\ n <= L /\ n <= MAXCLINPUTLEN /\ MAXCLINPUTLEN \in Nat
  <2>1. MAXCLINPUTLEN \in Nat
    BY GrammarAssumption
  <2> QED
    BY <2>1
<1>1. /\ c.calls \in Seq(Calls(n, L)) /\ c.number \in BOOLEAN
      /\ c.number => n # 0 /\ \E k \in DOMAIN c.calls : c.calls[k].len = n
  BY <1>0, UnknownCalls
<1> PICK j : j = Stem(n, MEISI_6)
  OBVIOUS
<1>2. 1 \in DOMAIN j /\ j[1].jlen = n
  <2>1. n \in 0..L /\ MEISI_6 \in Hinsi /\ TRUE \in BOOLEAN
    BY <1>0, GrammarAssumption
  <2> QED
    BY <2>1, UnknownStem
<1> PICK cl : cl = SetAll(<<>>, 1, c.calls, j)
  OBVIOUS
<1>3. cl \in ClauseLists(j, L) /\ (c.number => cl # <<>>)
  <2>1. <<>> \in ClauseLists(j, L)
    BY NoClauses
  <2>2. c.number => \E k \in DOMAIN c.calls : c.calls[k].len \in 1..MAXCLINPUTLEN
    BY <1>0, <1>1
  <2>3. j[1].jlen \in Nat /\ c.calls \in Seq(Calls(j[1].jlen, L))
    BY <1>0, <1>1, <1>2
  <2>4. /\ cl \in ClauseLists(j, L)
        /\ (\E i \in DOMAIN c.calls : c.calls[i].len \in 1..MAXCLINPUTLEN) => cl # <<>>
    BY <1>2, <2>1, <2>3, ClausesSet
  <2> QED
    BY <2>2, <2>4
<1> PICK w : w = [len |-> n, number |-> c.number, cl |-> cl]
  OBVIOUS
<1>4. w = TryOf(t, n)
  BY DEF TryOf
<1>5. cl \in UNION {ClauseLists(Stem(m, MEISI_6), L) : m \in 0..max}
  BY <1>3
<1>6. Growing(L, w)
  BY <1>3 DEF Growing
<1> QED
  BY <1>1, <1>4, <1>5, <1>6 DEF Grown

\* One character more, unless something was found.
LEMMA GrownNext ==
    ASSUME NEW t \in Seq(Nat), NEW max \in Nat, max <= Len(t), max <= MAXCLINPUTLEN,
           NEW w \in Grown(Len(t), max)
    PROVE  /\ NextOf(t, max, w) \in Grown(Len(t), max)
           /\ \A n \in 0..max : (n < max /\ (w.cl # <<>> \/ n <= w.len)) =>
                 NextOf(t, max, w).cl # <<>> \/ n + 1 <= NextOf(t, max, w).len
<1> PICK L \in Nat : L = Len(t)
  BY LenProperties
<1> PICK U : U = UNION {ClauseLists(Stem(n, MEISI_6), L) : n \in 0..max}
  OBVIOUS
<1>1. w \in [len : 0..max, number : BOOLEAN, cl : U] /\ Growing(L, w)
  BY DEF Grown
<1>2. w.len \in 0..max /\ w.number \in BOOLEAN
  BY <1>1
<1>3. CASE w.cl # <<>> \/ w.len = max
  BY <1>2, <1>3 DEF NextOf
<1>4. CASE w.cl = <<>> /\ w.len # max /\ w.len + 1 = max
  <2> PICK x : x = [w EXCEPT !.len = max]
    OBVIOUS
  <2>1. x = NextOf(t, max, w)
    BY <1>4 DEF NextOf
  <2>2. x = [len |-> max, number |-> w.number, cl |-> <<>>] /\ ~w.number
    BY <1>1, <1>4 DEF Growing
  <2>3. <<>> \in ClauseLists(Stem(max, MEISI_6), L)
    BY NoClauses
  <2>4. <<>> \in U
    BY <2>3
  <2>5. Growing(L, x)
    BY <2>2, <2>3 DEF Growing
  <2>6. x \in [len : 0..max, number : BOOLEAN, cl : U]
    <3> PICK b, e : b = w.number /\ e = <<>>
      OBVIOUS
    <3>1. b \in BOOLEAN /\ e \in U /\ max \in 0..max
      BY <1>2, <2>4
    <3>2. x = [len |-> max, number |-> b, cl |-> e]
      BY <2>2
    <3> QED
      BY ONLY <3>1, <3>2
  <2>7. x \in Grown(L, max)
    BY <2>5, <2>6 DEF Grown
  <2>8. \A n \in 0..max : n < max => n + 1 <= x.len
    BY <2>2
  <2> QED
    BY <2>1, <2>7, <2>8
<1>5. CASE w.cl = <<>> /\ w.len # max /\ w.len + 1 # max
  <2> PICK m : m = w.len + 1
    OBVIOUS
  <2>1. m \in 0..max
    BY <1>2, <1>5
  <2>2. NextOf(t, max, w) = TryOf(t, m)
    BY <1>5 DEF NextOf
  <2>3. TryOf(t, m) \in Grown(L, max) /\ TryOf(t, m).len = m
    BY <2>1, Tried
  <2>4. \A n \in 0..max : n <= w.len => n + 1 <= m
    BY <1>2
  <2> QED
    BY <1>5, <2>2, <2>3, <2>4
<1> QED
  BY <1>3, <1>4, <1>5

\* When nothing was found the word has all the length it may have.
LEMMA GrownWord ==
    ASSUME NEW t \in Seq(Nat), NEW max \in Nat, max <= Len(t), max <= MAXCLINPUTLEN,
           NEW w, w = wakachi_grow(t, max)
    PROVE  w \in Grown(Len(t), max) /\ (w.cl # <<>> \/ w.len = max)
<1> PICK S : S = Grown(Len(t), max)
  OBVIOUS
<1> PICK a : a = TryOf(t, 0)
  OBVIOUS
<1> DEFINE step == [x \in Nat \X S |-> NextOf(t, max, x[2])]
           Def(g) == g = [n \in 0..max |-> IF n = 0 THEN a ELSE NextOf(t, max, g[n - 1])]
<1>1. w = (CHOOSE g : Def(g))[max]
  BY DEF wakachi_grow, TryOf, NextOf
<1>2. a \in S
  <2>1. 0 \in 0..max
    OBVIOUS
  <2> QED
    BY <2>1, Tried
<1>3. ASSUME NEW x \in S
      PROVE  /\ NextOf(t, max, x) \in S
             /\ \A n \in 0..max : (n < max /\ (x.cl # <<>> \/ n <= x.len)) =>
                   NextOf(t, max, x).cl # <<>> \/ n + 1 <= NextOf(t, max, x).len
  BY GrownNext
<1>4. step \in [Nat \X S -> S] /\ \A n \in Nat, x \in S : step[<<n, x>>] = NextOf(t, max, x)
  BY <1>3
<1> HIDE DEF step
<1>5. \E g : Def(g)
  <2>1. PICK g : Iterates(g, S, a, max, step)
    BY <1>2, <1>4, Iterated
  <2>2. g \in [0..max -> S] /\ g[0] = a /\ \A n \in 1..max : g[n] = step[<<n, g[n - 1]>>]
    BY <2>1 DEF Iterates
  <2>3. ASSUME NEW n \in 0..max, n # 0 PROVE g[n] = NextOf(t, max, g[n - 1])
    <3>1. n \in 1..max /\ n - 1 \in 0..max /\ n \in Nat
      BY <2>3
    <3>2. g[n - 1] \in S
      BY <2>2, <3>1
    <3> QED
      BY <1>4, <2>2, <3>1, <3>2
  <2>4. g = [n \in 0..max |-> IF n = 0 THEN a ELSE NextOf(t, max, g[n - 1])]
    BY <2>2, <2>3
  <2> QED
    BY <2>4
<1> PICK g : g = CHOOSE x : Def(x)
  OBVIOUS
<1>6. Def(g)
  <2> HIDE DEF Def
  <2> QED
    BY <1>5
<1>7. g[0] = a /\ \A n \in 1..max : g[n] = NextOf(t, max, g[n - 1])
  <2> PICK x : x = [n \in 0..max |-> IF n = 0 THEN a ELSE NextOf(t, max, g[n - 1])]
    OBVIOUS
  <2>1. g = x
    BY <1>6
  <2>2. 0 \in 0..max /\ \A n \in 1..max : n \in 0..max /\ n # 0
    OBVIOUS
  <2> HIDE DEF Def
  <2>3. x[0] = a /\ \A n \in 1..max : x[n] = NextOf(t, max, g[n - 1])
    BY ONLY <2>2, x = [n \in 0..max |-> IF n = 0 THEN a ELSE NextOf(t, max, g[n - 1])]
  <2> QED
    BY <2>1, <2>3
<1> HIDE DEF Def
<1> DEFINE T == {n \in Nat : n <= max => g[n] \in S /\ (g[n].cl # <<>> \/ n <= g[n].len)}
<1>8. 0 \in T
  <2>1. a.len = 0
    <3>1. 0 \in 0..max
      OBVIOUS
    <3> QED
      BY <3>1, Tried
  <2> QED
    BY <1>2, <1>7, <2>1
<1>9. ASSUME NEW n \in T PROVE n + 1 \in T
  <2>1. n \in Nat /\ n + 1 \in Nat /\ (n + 1) - 1 = n
    OBVIOUS
  <2>2. ASSUME n + 1 <= max
        PROVE  g[n + 1] \in S /\ (g[n + 1].cl # <<>> \/ n + 1 <= g[n + 1].len)
    <3>1. n + 1 \in 1..max /\ n \in 0..max /\ n < max /\ n <= max
      BY <2>1, <2>2
    <3> PICK x : x = g[n]
      OBVIOUS
    <3>2. x \in S /\ (x.cl # <<>> \/ n <= x.len)
      BY <3>1
    <3>3. g[n + 1] = NextOf(t, max, x)
      BY <1>7, <2>1, <3>1
    <3> HIDE DEF T
    <3> QED
      BY <1>3, <3>1, <3>2, <3>3
  <2> QED
    BY <2>1, <2>2
<1>10. max \in T
  <2>1. T \subseteq Nat
    OBVIOUS
  <2> HIDE DEF T
  <2> QED
    BY <1>8, <1>9, <2>1, SetInduction
<1>11. w \in S /\ (w.cl # <<>> \/ max <= w.len)
  BY <1>1, <1>10
<1>12. w.len \in 0..max
  <2>1. w \in Grown(Len(t), max)
    BY <1>11
  <2> QED
    BY <2>1 DEF Grown
<1> QED
  BY <1>11, <1>12

\* What an analysis of a text of L characters leads to.
Found(an, L, learned) ==
    an.j \in Seq(Stems(L, learned)) /\ an.cl \in ClauseLists(an.j, L) /\ an.cl # <<>>

\* The word alone, if nothing else was found.
LEMMA WordAlone ==
    ASSUME NEW t, NEW L \in Nat, NEW learned \in BOOLEAN, NEW n \in 0..L, n <= MAXCLINPUTLEN,
           NEW h \in Hinsi, NEW list \in ClauseLists(Stem(n, h), L), n = 0 => list # <<>>
    PROVE  Found(Alone(t, n, list, Stem(n, h)), L, learned)
<1> PICK j : j = Stem(n, h)
  OBVIOUS
<1>1. j \in Seq(Stems(L, learned)) /\ DOMAIN j = {1} /\ j[1].jlen = n
  BY UnknownStem
<1> PICK an : an = Alone(t, n, list, j)
  OBVIOUS
<1> PICK rec : rec = CLRec(1, Call(n, R_MEISI, FALSE))
  OBVIOUS
<1>2. an.j = j /\ an.cl = IF n = 0 \/ (list # <<>> /\ At(t, n + 1) \in FZKTOP) THEN list
                          ELSE argclrec(list, rec, j)
  BY DEF Alone
<1>3. n # 0 => rec \in ClausesOf(j, L)
  <2>1. rec = [jnode |-> 1, cllen |-> n, right |-> R_MEISI, fzk_ka |-> FALSE]
    BY DEF CLRec, Call
  <2>2. R_MEISI \in Right /\ FALSE \in BOOLEAN /\ 1 \in DOMAIN j
    BY <1>1, GrammarAssumption
  <2>3. n # 0 => n \in 1..L /\ n <= n
    OBVIOUS
  <2>4. j[1].jlen <= n
    BY <1>1
  <2>5. ASSUME n # 0
        PROVE  /\ rec \in [jnode : DOMAIN j, cllen : 1..L, right : Right, fzk_ka : BOOLEAN]
               /\ rec.jnode = 1 /\ rec.cllen = n
    BY ONLY <2>1, <2>2, <2>3, <2>5
  <2> QED
    BY <2>4, <2>5 DEF ClausesOf
<1>4. n # 0 => argclrec(list, rec, j) \in ClauseLists(j, L) /\ argclrec(list, rec, j) # <<>>
  BY <1>3, Argclrec
<1>5. an.cl \in ClauseLists(j, L) /\ an.cl # <<>>
  BY <1>2, <1>4
<1> QED
  BY <1>1, <1>2, <1>5 DEF Found

\* An unknown word is neither longer than the text nor too long.
LEMMA MaxStems ==
    ASSUME NEW t \in Seq(Nat), t # <<>>
    PROVE  MaxStem(t) \in 1..Len(t) /\ MaxStem(t) <= MAXCLINPUTLEN
<1>1. Len(t) \in Nat /\ Len(t) # 0 /\ MAXCLINPUTLEN \in Nat /\ MAXCLINPUTLEN # 0
  BY EmptySeq, LenProperties, GrammarAssumption
<1> QED
  BY <1>1 DEF MaxStem

\* Marks are a word of their own.
LEMMA MarksFound ==
    ASSUME NEW t \in Seq(Nat), NEW learned \in BOOLEAN, NEW n \in 1..Len(t), n <= MAXCLINPUTLEN
    PROVE  Found(wakachi_marks(t, n), Len(t), learned)
<1> PICK L \in Nat : L = Len(t)
  BY LenProperties
<1>0. n \in Nat /\ n \in 0..L /\ n # 0 /\ D_MEISI_1 \in Hinsi /\ R_DAIMEISI \in Right
  BY GrammarAssumption
<1> PICK j : j = Stem(n, D_MEISI_1)
  OBVIOUS
<1>1. 1 \in DOMAIN j /\ j[1].jlen = n
  <2>1. TRUE \in BOOLEAN
    OBVIOUS
  <2> QED
    BY <1>0, <2>1, UnknownStem
<1> PICK list : list = IF t[n] \in TAI_KGU THEN SetAll(<<>>, 1, srchfzk(t, n, R_DAIMEISI), j)
                       ELSE <<>>
  OBVIOUS
<1>2. list \in ClauseLists(j, L)
  <2>1. <<>> \in ClauseLists(j, L)
    BY NoClauses
  <2>2. srchfzk(t, n, R_DAIMEISI) \in Seq(Calls(j[1].jlen, L)) /\ j[1].jlen \in Nat
    BY <1>0, <1>1, FzkCalls
  <2>3. SetAll(<<>>, 1, srchfzk(t, n, R_DAIMEISI), j) \in ClauseLists(j, L)
    BY <1>1, <2>1, <2>2, ClausesSet
  <2> QED
    BY <2>1, <2>3
<1>3. wakachi_marks(t, n) = Alone(t, n, list, j)
  BY DEF wakachi_marks
<1>4. Found(Alone(t, n, list, j), L, learned)
  BY <1>0, <1>2, WordAlone
<1> QED
  BY <1>3, <1>4

\* An unknown word leads to a clause.
LEMMA UnknownFound ==
    ASSUME NEW t \in Seq(Nat), t # <<>>, NEW learned \in BOOLEAN
    PROVE  Found(wakachi(t), Len(t), learned)
<1> PICK L \in Nat : L = Len(t)
  BY LenProperties
<1> PICK max \in Nat : max = MaxStem(t)
  BY MaxStems
<1>1. max \in 1..L /\ max <= MAXCLINPUTLEN
  BY MaxStems
<1> PICK marks : marks = Run(t, 0, TAI_KGU \cup FZK_KGU)
  OBVIOUS
<1>2. marks \in 0..L
  <2>1. 0 \notin TAI_KGU \cup FZK_KGU /\ 0 \in Nat
    BY GrammarAssumption
  <2> QED
    BY <2>1, Runs
<1>3. CASE marks > 0
  <2> PICK n : n = IF marks < max THEN marks ELSE max
    OBVIOUS
  <2>1. n \in 1..L /\ n <= MAXCLINPUTLEN
    <3>1. MAXCLINPUTLEN \in Nat
      BY GrammarAssumption
    <3> QED
      BY <1>1, <1>2, <1>3, <3>1
  <2>2. wakachi(t) = wakachi_marks(t, n)
    BY <1>3 DEF wakachi
  <2> QED
    BY <2>1, <2>2, MarksFound
<1>4. CASE ~(marks > 0)
  <2> PICK w : w = wakachi_grow(t, max)
    OBVIOUS
  <2>1. w \in Grown(L, max) /\ (w.cl # <<>> \/ w.len = max)
    BY <1>1, GrownWord
  <2> PICK n, list : n = w.len /\ list = w.cl
    OBVIOUS
  <2>2. n \in 0..max /\ list \in ClauseLists(Stem(n, MEISI_6), L)
        /\ (w.number => list # <<>>) /\ (list # <<>> \/ n = max)
    BY <2>1 DEF Grown, Growing
  <2>3. n \in 0..L /\ n <= MAXCLINPUTLEN /\ (n = 0 => list # <<>>) /\ MEISI_6 \in Hinsi
    <3>1. MAXCLINPUTLEN \in Nat /\ MEISI_6 \in Hinsi
      BY GrammarAssumption
    <3> QED
      BY <1>1, <2>2, <3>1
  <2> PICK j : j = Stem(n, MEISI_6)
    OBVIOUS
  <2>4. wakachi(t) = IF w.number THEN [j |-> j, cl |-> list] ELSE Alone(t, n, list, j)
    BY <1>4 DEF wakachi
  <2>5. j \in Seq(Stems(L, learned))
    BY <2>3, UnknownStem
  <2>6. CASE w.number
    <3> PICK an : an = [j |-> j, cl |-> list]
      OBVIOUS
    <3>1. an.j = j /\ an.cl = list
      OBVIOUS
    <3>2. Found(an, L, learned)
      BY <2>2, <2>5, <2>6, <3>1 DEF Found
    <3> QED
      BY <2>4, <2>6, <3>2
  <2>7. CASE ~w.number
    <3>1. Found(Alone(t, n, list, j), L, learned)
      BY <2>2, <2>3, WordAlone
    <3> QED
      BY <2>4, <2>7, <3>1
  <2> QED
    BY <2>6, <2>7
<1> QED
  BY <1>3, <1>4

\* What every analysis of a text leads to: clauses by falling length on stems of
\* the text, at least one of them.
LEMMA AnalysisFound ==
    ASSUME NEW t \in Seq(Nat), t # <<>>, NEW mode, NEW learned, learned = ("clstudy" \in mode)
    PROVE  Found(Analyse(t, mode), Len(t), learned)
<1>1. learned \in BOOLEAN
  OBVIOUS
<1> PICK j, cl : j = mkjiritu(t, mode) /\ cl = mkbunsetu(t, j)
  OBVIOUS
<1>2. j \in Seq(Stems(Len(t), learned))
  BY StemsFound
<1>3. cl \in ClauseLists(j, Len(t))
  BY <1>2, MadeClauses
<1>4. Analyse(t, mode) = IF cl = <<>> THEN wakachi(t) ELSE [j |-> j, cl |-> cl]
  BY DEF Analyse
<1> PICK an : an = [j |-> j, cl |-> cl]
  OBVIOUS
<1>5. cl # <<>> => Found(an, Len(t), learned)
  BY <1>2, <1>3 DEF Found
<1> QED
  BY <1>1, <1>4, <1>5, UnknownFound

\* Each clause of it.
LEMMA FoundClauses ==
    ASSUME NEW an, NEW L \in Nat, NEW learned \in BOOLEAN, Found(an, L, learned)
    PROVE  /\ Len(an.cl) \in Nat \ {0} /\ DOMAIN an.cl = 1..Len(an.cl)
           /\ \A c \in DOMAIN an.cl :
                 /\ an.cl[c].cllen \in 1..L /\ an.cl[c].cllen <= MAXCLINPUTLEN
                 /\ Named(Jnode(an, c))
                 /\ Jnode(an, c).class = "bunsetu" =>
                       learned /\ Block[Jnode(an, c).n].y1len \in 1..(an.cl[c].cllen - 1)
                 /\ \A d \in DOMAIN an.cl : c <= d => an.cl[d].cllen <= an.cl[c].cllen
<1> PICK j, cl : j = an.j /\ cl = an.cl
  OBVIOUS
<1>1. j \in Seq(Stems(L, learned)) /\ cl \in Seq(ClausesOf(j, L)) /\ ByLength(cl) /\ cl # <<>>
  BY DEF Found, ClauseLists
<1> PICK m \in Nat \ {0} : m = Len(cl) /\ DOMAIN cl = 1..m
  BY <1>1, EmptySeq, LenProperties
<1>2. ASSUME NEW c \in 1..m
      PROVE  /\ cl[c].cllen \in 1..L /\ cl[c].cllen <= MAXCLINPUTLEN
             /\ Named(Jnode(an, c))
             /\ Jnode(an, c).class = "bunsetu" =>
                   learned /\ Block[Jnode(an, c).n].y1len \in 1..(cl[c].cllen - 1)
  <2> PICK r : r = cl[c]
    OBVIOUS
  <2>1. r \in ClausesOf(j, L)
    BY ONLY <1>1, c \in 1..m, DOMAIN cl = 1..m, r = cl[c], ElementOf
  <2>2. r.jnode \in DOMAIN j /\ r.cllen \in 1..L /\ j[r.jnode].jlen <= r.cllen
        /\ r.cllen <= MAXCLINPUTLEN
    BY <2>1 DEF ClausesOf
  <2> PICK s : s = j[r.jnode]
    OBVIOUS
  <2>3. s \in Stems(L, learned)
    BY ONLY <1>1, <2>2, s = j[r.jnode], ElementOf
  <2>4. Named(s) /\ s.jlen \in 0..L
        /\ (s.class = "bunsetu" => learned /\ Block[s.n].y1len \in 1..(s.jlen - 1))
    BY <2>3 DEF Stems
  <2>5. s = Jnode(an, c)
    BY DEF Jnode
  <2> PICK x, y, b : x = s.jlen /\ y = r.cllen /\ b = Block[s.n].y1len
    OBVIOUS
  <2>6. b \in 1..(x - 1) => b \in 1..(y - 1)
    BY ONLY <2>2, <2>4, s = j[r.jnode], x = s.jlen /\ y = r.cllen, L \in Nat
  <2> QED
    BY <2>2, <2>4, <2>5, <2>6
<1>3. ASSUME NEW c \in 1..m, NEW d \in 1..m, c <= d PROVE cl[d].cllen <= cl[c].cllen
  <2>1. CASE c = d
    BY <1>2, <2>1
  <2>2. CASE c < d
    BY <1>1, <2>2 DEF ByLength
  <2> QED
    BY <1>3, <2>1, <2>2
<1> QED
  BY <1>2, <1>3
=============================================================================
