--------------------------- MODULE ClStudyProofs ----------------------------
(***************************************************************************)
(* Proofs about ClStudy for any readings, any area and any number of       *)
(* blocks: the file follows the memory and the numbers of the blocks stay  *)
(* those from 1 to their count, what was learned is found through the      *)
(* table, and the oldest blocks make room.                                 *)
(***************************************************************************)
EXTENDS ClStudy, SequenceTheorems, NaturalsInduction, WellFoundedInduction, TLAPS

----------------------------------------------------------------------------
(* The inductive invariant *)

Yomi == Seq(Chars) \ {<<>>}
Block == [yomi : Yomi, y1len : Nat, gram : Gram, num : Nat]

\* The numbers are those from 1 on, each once.
Numbered(a) ==
    /\ a \in Seq(Block)
    /\ \A k \in DOMAIN a : a[k].num \in 1..Len(a)
    /\ \A n \in 1..Len(a) : \E k \in DOMAIN a : a[k].num = n
    /\ \A j, k \in DOMAIN a : a[j].num = a[k].num => j = k

\* The readings are in order, and none starts another.
Sorted(a) == \A j, k \in DOMAIN a : j < k => Over(a[j].yomi, a[k].yomi)
Sane(a) == Numbered(a) /\ Sorted(a)

\* The file lags behind by what is still to be written.
Written ==
    /\ DOMAIN file = {"area", "idx", "torn"}
    /\ writing \in {"none", "area", "both"}
    /\ writing = "none" => file.area = area
    /\ writing # "both" => file.idx = idx

\* Each image of the area leaves room for the end mark, and its table is right
\* unless it is from a file that was left between the two writes.
Fits(a) == Used(a) < AreaLen
Indexed(a, x) == a = <<>> \/ x = mkclidx(a)
Tables ==
    /\ Fits(area) /\ Fits(file.area)
    /\ ~torn => Indexed(area, idx)
    /\ ~file.torn => Indexed(file.area, file.idx)
    /\ writing # "none" => ~torn

\* What was reported as learned is there.
Reported ==
    ret = "NormEnd" =>
        /\ ~torn
        /\ learned # NoBlock => \E k \in DOMAIN area : area[k] = learned

Inv == Sane(area) /\ Sane(file.area) /\ Written /\ Tables /\ Reported

----------------------------------------------------------------------------
(* Induction over naturals, without operators *)

\* A set of naturals that is not empty has a least element.
LEMMA LeastNatural ==
    ASSUME NEW T, T \subseteq Nat, T # {}
    PROVE  \E x \in T : \A y \in T : x <= y
<1> DEFINE R == OpToRel(<, Nat)
<1>1. PICK x \in T : \A y \in T : <<y, x>> \notin R
  BY NatLessThanWellFounded, WFMin, Zenon
<1>2. \A y \in T : <<y, x>> \in R <=> y < x
  BY DEF OpToRel
<1> HIDE DEF R
<1>3. \A y \in T : ~(y < x)
  BY <1>1, <1>2
<1> QED
  BY <1>3

\* What holds of 0 and of a number's successor holds of all.
LEMMA SetInduction ==
    ASSUME NEW T, T \subseteq Nat, 0 \in T, \A n \in T : n + 1 \in T
    PROVE  T = Nat
<1> SUFFICES ASSUME Nat \ T # {} PROVE FALSE
  OBVIOUS
<1>1. PICK x \in Nat \ T : \A y \in Nat \ T : x <= y
  <2> DEFINE D == Nat \ T
  <2>1. D \subseteq Nat /\ D # {}
    OBVIOUS
  <2> HIDE DEF D
  <2>2. \E x \in D : \A y \in D : x <= y
    BY <2>1, LeastNatural
  <2> QED
    BY <2>2 DEF D
<1>2. x # 0 /\ x - 1 \in Nat /\ ~(x <= x - 1)
  BY <1>1
<1>3. x - 1 \in T
  BY <1>1, <1>2
<1>4. (x - 1) + 1 \in T
  BY <1>3
<1> QED
  BY <1>1, <1>4

----------------------------------------------------------------------------
(* Sequences *)

LEMMA Removed ==
    ASSUME NEW S, NEW s \in Seq(S), NEW k \in 1..Len(s)
    PROVE  /\ RemoveAt(s, k) \in Seq(S) /\ Len(RemoveAt(s, k)) = Len(s) - 1
           /\ \A i \in 1..(Len(s) - 1) : RemoveAt(s, k)[i] = IF i < k THEN s[i] ELSE s[i + 1]
<1> DEFINE u == SubSeq(s, 1, k - 1)
           v == SubSeq(s, k + 1, Len(s))
<1>1. u \in Seq(S) /\ Len(u) = k - 1 /\ \A i \in 1..(k - 1) : u[i] = s[i]
  OBVIOUS
<1>2. v \in Seq(S) /\ Len(v) = Len(s) - k /\ \A i \in 1..(Len(s) - k) : v[i] = s[k + i]
  OBVIOUS
<1>3. RemoveAt(s, k) = u \o v
  BY DEF RemoveAt
<1> HIDE DEF u, v
<1>4. u \o v \in Seq(S) /\ Len(u \o v) = Len(s) - 1
  BY <1>1, <1>2
<1>5. \A i \in 1..(Len(s) - 1) : (u \o v)[i] = IF i < k THEN u[i] ELSE v[i - (k - 1)]
  BY <1>1, <1>2
<1>6. \A i \in 1..(Len(s) - 1) : (u \o v)[i] = IF i < k THEN s[i] ELSE s[i + 1]
  BY <1>1, <1>2, <1>5
<1> QED
  BY <1>3, <1>4, <1>6

LEMMA Inserted ==
    ASSUME NEW S, NEW s \in Seq(S), NEW k \in 1..(Len(s) + 1), NEW e \in S
    PROVE  /\ InsertAt(s, k, e) \in Seq(S) /\ Len(InsertAt(s, k, e)) = Len(s) + 1
           /\ \A i \in 1..(Len(s) + 1) :
                 InsertAt(s, k, e)[i] = IF i < k THEN s[i] ELSE IF i = k THEN e ELSE s[i - 1]
<1> DEFINE u == SubSeq(s, 1, k - 1)
           v == SubSeq(s, k, Len(s))
           w == u \o <<e>>
<1>1. u \in Seq(S) /\ Len(u) = k - 1 /\ \A i \in 1..(k - 1) : u[i] = s[i]
  OBVIOUS
<1>2. v \in Seq(S) /\ Len(v) = Len(s) - k + 1 /\ \A i \in 1..(Len(s) - k + 1) : v[i] = s[k + i - 1]
  OBVIOUS
<1>3. InsertAt(s, k, e) = w \o v
  BY DEF InsertAt
<1> HIDE DEF u, v
<1>4. w \in Seq(S) /\ Len(w) = k /\ \A i \in 1..k : w[i] = IF i < k THEN s[i] ELSE e
  BY <1>1
<1> HIDE DEF w
<1>5. w \o v \in Seq(S) /\ Len(w \o v) = Len(s) + 1
  BY <1>2, <1>4
<1>6. \A i \in 1..(Len(s) + 1) : (w \o v)[i] = IF i <= k THEN w[i] ELSE v[i - k]
  BY <1>2, <1>4
<1>7. \A i \in 1..(Len(s) + 1) :
         (w \o v)[i] = IF i < k THEN s[i] ELSE IF i = k THEN e ELSE s[i - 1]
  <2>1. ASSUME NEW i \in 1..(Len(s) + 1), i <= k
        PROVE  (w \o v)[i] = IF i < k THEN s[i] ELSE IF i = k THEN e ELSE s[i - 1]
    BY <1>4, <1>6, <2>1
  <2>2. ASSUME NEW i \in 1..(Len(s) + 1), i > k
        PROVE  (w \o v)[i] = IF i < k THEN s[i] ELSE IF i = k THEN e ELSE s[i - 1]
    <3>1. i - k \in 1..(Len(s) - k + 1) /\ k + (i - k) - 1 = i - 1
      BY <2>2
    <3>2. v[i - k] = s[i - 1]
      BY <1>2, <3>1
    <3>3. ~(i <= k) /\ ~(i < k) /\ i # k
      BY <2>2
    <3>4. (w \o v)[i] = v[i - k]
      BY <1>6, <3>3
    <3> QED
      BY <3>2, <3>3, <3>4
  <2>3. \A i \in 1..(Len(s) + 1) : i <= k \/ i > k
    OBVIOUS
  <2> QED
    BY <2>1, <2>2, <2>3
<1> QED
  BY <1>3, <1>5, <1>7

----------------------------------------------------------------------------
(* The order of readings *)

\* x and y differ first at k.
Differ(x, y, k) ==
    /\ k \in Nat \ {0} /\ k <= Len(x) /\ k <= Len(y)
    /\ \A i \in 1..(k - 1) : x[i] = y[i]
    /\ x[k] # y[k]

LEMMA Codes ==
    ASSUME NEW x \in Yomi
    PROVE  /\ x \in Seq(Nat) /\ Len(x) \in Nat \ {0} /\ DOMAIN x = 1..Len(x)
           /\ \A i \in 1..Len(x) : x[i] \in Chars /\ x[i] \in Nat /\ x[i] <= MAXCODE
<1>1. x \in Seq(Chars) /\ x # <<>>
  BY DEF Yomi
<1>2. Len(x) \in Nat /\ DOMAIN x = 1..Len(x) /\ \A i \in 1..Len(x) : x[i] \in Chars
  BY <1>1
<1>3. Len(x) # 0
  BY <1>1
<1>4. \A c \in Chars : c \in Nat /\ c <= MAXCODE
  BY ConstantsAssumption DEF MAXCODE
<1>5. x \in Seq(Nat)
  <2>1. \A i \in 1..Len(x) : x[i] \in Nat
    BY <1>2, <1>4
  <2> QED
    BY <1>1, <1>2, <2>1, SeqDef
<1> QED
  BY <1>2, <1>3, <1>4, <1>5

\* The fronts of two readings, character by character.
LEMMA SameFront ==
    ASSUME NEW x \in Yomi, NEW y \in Yomi, NEW n \in Nat, n <= Len(x), n <= Len(y)
    PROVE  SubSeq(x, 1, n) = SubSeq(y, 1, n) <=> \A i \in 1..n : x[i] = y[i]
<1>1. x \in Seq(Nat) /\ y \in Seq(Nat) /\ Len(x) \in Nat /\ Len(y) \in Nat
  BY Codes
<1> DEFINE u == SubSeq(x, 1, n)
           v == SubSeq(y, 1, n)
<1>2. u \in Seq(Nat) /\ Len(u) = n /\ \A i \in 1..n : u[i] = x[i]
  BY <1>1
<1>3. v \in Seq(Nat) /\ Len(v) = n /\ \A i \in 1..n : v[i] = y[i]
  BY <1>1
<1> HIDE DEF u, v
<1>4. u = v <=> \A i \in 1..n : u[i] = v[i]
  BY <1>2, <1>3
<1>5. u = v <=> \A i \in 1..n : x[i] = y[i]
  BY <1>2, <1>3, <1>4
<1> QED
  BY <1>5 DEF u, v

LEMMA Prefix ==
    ASSUME NEW x \in Yomi, NEW y \in Yomi
    PROVE  IsPrefix(x, y) <=> Len(x) <= Len(y) /\ \A i \in 1..Len(x) : x[i] = y[i]
BY Codes, SameFront DEF IsPrefix

LEMMA OverAt ==
    ASSUME NEW x \in Yomi, NEW y \in Yomi
    PROVE  Over(x, y) <=> \E k : Differ(x, y, k) /\ x[k] < y[k]
<1>1. /\ Len(x) \in Nat /\ Len(y) \in Nat
      /\ \A i \in 1..Len(x) : x[i] \in Nat
      /\ \A i \in 1..Len(y) : y[i] \in Nat
  BY Codes
<1>2. ASSUME Over(x, y) PROVE \E k : Differ(x, y, k) /\ x[k] < y[k]
  <2>1. PICK k \in 1..Len(y) : k <= Len(x) /\ SubSeq(x, 1, k - 1) = SubSeq(y, 1, k - 1)
                               /\ x[k] < y[k]
    BY <1>2 DEF Over
  <2>2. k - 1 \in Nat /\ k - 1 <= Len(x) /\ k - 1 <= Len(y) /\ k \in Nat \ {0} /\ k <= Len(y)
        /\ k \in 1..Len(x)
    BY <1>1, <2>1
  <2>3. \A i \in 1..(k - 1) : x[i] = y[i]
    BY <2>1, <2>2, SameFront
  <2>4. x[k] # y[k]
    BY <1>1, <2>1, <2>2
  <2> QED
    BY <2>1, <2>2, <2>3, <2>4 DEF Differ
<1>3. ASSUME NEW k, Differ(x, y, k), x[k] < y[k] PROVE Over(x, y)
  <2>1. k \in 1..Len(y) /\ k <= Len(x) /\ k - 1 \in Nat /\ k - 1 <= Len(x) /\ k - 1 <= Len(y)
    BY <1>1, <1>3 DEF Differ
  <2>2. SubSeq(x, 1, k - 1) = SubSeq(y, 1, k - 1)
    BY <1>3, <2>1, SameFront DEF Differ
  <2> QED
    BY <1>3, <2>1, <2>2 DEF Over
<1> QED
  BY <1>2, <1>3

\* Readings that differ, and neither of which starts the other, are in order.
LEMMA Trichotomy ==
    ASSUME NEW x \in Yomi, NEW y \in Yomi
    PROVE  \/ Over(x, y) \/ Over(y, x)
           \/ IsPrefix(x, y) \/ IsPrefix(y, x)
<1>1. /\ Len(x) \in Nat /\ Len(y) \in Nat
      /\ \A i \in 1..Len(x) : x[i] \in Nat
      /\ \A i \in 1..Len(y) : y[i] \in Nat
  BY Codes
<1> SUFFICES ASSUME ~IsPrefix(x, y), ~IsPrefix(y, x) PROVE Over(x, y) \/ Over(y, x)
  OBVIOUS
<1> DEFINE D == {i \in Nat \ {0} : i <= Len(x) /\ i <= Len(y) /\ x[i] # y[i]}
<1>2. D # {}
  <2>1. CASE Len(x) <= Len(y)
    <3>1. PICK i \in 1..Len(x) : x[i] # y[i]
      BY <2>1, Prefix
    <3>2. i \in D
      BY <1>1, <2>1, <3>1
    <3> QED
      BY <3>2
  <2>2. CASE Len(y) <= Len(x)
    <3>1. PICK i \in 1..Len(y) : x[i] # y[i]
      BY <2>2, Prefix
    <3>2. i \in D
      BY <1>1, <2>2, <3>1
    <3> QED
      BY <3>2
  <2> QED
    BY <1>1, <2>1, <2>2
<1>3. PICK k \in D : \A i \in D : k <= i
  <2>1. D \subseteq Nat
    OBVIOUS
  <2> HIDE DEF D
  <2> QED
    BY <1>2, <2>1, LeastNatural
<1>4. \A i \in 1..(k - 1) : x[i] = y[i]
  <2> SUFFICES ASSUME NEW i \in 1..(k - 1), x[i] # y[i] PROVE FALSE
    OBVIOUS
  <2>1. i \in D
    BY <1>1, <1>3
  <2> QED
    BY <1>3, <2>1
<1>5. Differ(x, y, k) /\ Differ(y, x, k)
  BY <1>3, <1>4 DEF Differ
<1>6. k \in 1..Len(x) /\ k \in 1..Len(y)
  BY <1>1, <1>5 DEF Differ
<1>7. x[k] \in Nat /\ y[k] \in Nat /\ x[k] # y[k]
  BY <1>1, <1>5, <1>6 DEF Differ
<1>8. x[k] < y[k] \/ y[k] < x[k]
  BY <1>7
<1> QED
  BY <1>5, <1>8, OverAt

LEMMA OverIrreflexive ==
    ASSUME NEW x \in Yomi, NEW y \in Yomi, Over(x, y)
    PROVE  /\ ~Over(y, x) /\ ~IsPrefix(x, y) /\ ~IsPrefix(y, x) /\ x # y
           /\ x[1] <= y[1]
<1>1. PICK k : Differ(x, y, k) /\ x[k] < y[k]
  BY OverAt
<1>2. /\ Len(x) \in Nat \ {0} /\ Len(y) \in Nat \ {0} /\ k \in 1..Len(x) /\ k \in 1..Len(y)
      /\ \A i \in 1..Len(x) : x[i] \in Nat
      /\ \A i \in 1..Len(y) : y[i] \in Nat
  BY <1>1, Codes DEF Differ
<1>3. ~Over(y, x)
  <2> SUFFICES ASSUME NEW j, Differ(y, x, j), y[j] < x[j] PROVE FALSE
    BY OverAt
  <2>1. j \in Nat \ {0} /\ j \in 1..Len(x) /\ j \in 1..Len(y)
    BY <1>2 DEF Differ
  <2>2. ~(j < k) /\ ~(k < j)
    BY <1>1, <1>2, <2>1 DEF Differ
  <2>3. j = k
    BY <1>2, <2>1, <2>2
  <2> QED
    BY <1>1, <1>2, <2>3
<1>4. ~IsPrefix(x, y) /\ ~IsPrefix(y, x)
  BY <1>1, <1>2, Prefix DEF Differ
<1>5. x # y
  BY <1>1 DEF Differ
<1>6. x[1] <= y[1]
  <2>1. x[1] \in Nat /\ y[1] \in Nat
    BY <1>2
  <2>2. CASE k = 1
    BY <1>1, <2>1, <2>2
  <2>3. CASE k # 1
    <3>1. 1 \in 1..(k - 1)
      BY <1>2, <2>3
    <3>2. x[1] = y[1]
      BY <1>1, <3>1 DEF Differ
    <3> QED
      BY <2>1, <3>2
  <2> QED
    BY <2>2, <2>3
<1> QED
  BY <1>3, <1>4, <1>5, <1>6

LEMMA OverTransitive ==
    ASSUME NEW x \in Yomi, NEW y \in Yomi, NEW z \in Yomi, Over(x, y), Over(y, z)
    PROVE  Over(x, z)
<1>1. PICK k : Differ(x, y, k) /\ x[k] < y[k]
  BY OverAt
<1>2. PICK l : Differ(y, z, l) /\ y[l] < z[l]
  BY OverAt
<1>3. /\ Len(x) \in Nat /\ Len(y) \in Nat /\ Len(z) \in Nat
      /\ \A i \in 1..Len(x) : x[i] \in Nat
      /\ \A i \in 1..Len(y) : y[i] \in Nat
      /\ \A i \in 1..Len(z) : z[i] \in Nat
      /\ k \in 1..Len(x) /\ k \in 1..Len(y) /\ l \in 1..Len(y) /\ l \in 1..Len(z)
  <2>1. /\ Len(x) \in Nat /\ Len(y) \in Nat /\ Len(z) \in Nat
        /\ \A i \in 1..Len(x) : x[i] \in Nat
        /\ \A i \in 1..Len(y) : y[i] \in Nat
        /\ \A i \in 1..Len(z) : z[i] \in Nat
    BY Codes
  <2> QED
    BY <1>1, <1>2, <2>1 DEF Differ
<1>4. PICK m : m = IF k < l THEN k ELSE l
  OBVIOUS
<1>5. m \in Nat \ {0} /\ m <= k /\ m <= l /\ m \in 1..Len(x) /\ m \in 1..Len(y) /\ m \in 1..Len(z)
  BY <1>3, <1>4
<1>6. \A i \in 1..(m - 1) : x[i] = y[i] /\ y[i] = z[i]
  BY <1>1, <1>2, <1>3, <1>5 DEF Differ
<1>7. x[m] < z[m]
  <2>1. m < k => x[m] = y[m]
    BY <1>1, <1>3, <1>5 DEF Differ
  <2>2. m < l => y[m] = z[m]
    BY <1>2, <1>3, <1>5 DEF Differ
  <2>3. m = k \/ m = l
    BY <1>4
  <2> QED
    BY <1>1, <1>2, <1>3, <1>5, <2>1, <2>2, <2>3
<1>8. Differ(x, z, m)
  BY <1>3, <1>5, <1>6, <1>7 DEF Differ
<1> QED
  BY <1>7, <1>8, OverAt

\* A reading that starts a text is not passed before it is found.
LEMMA NotPassed ==
    ASSUME NEW t \in Yomi, NEW x \in Yomi, NEW y \in Yomi, IsPrefix(y, t),
           x = y \/ Over(x, y)
    PROVE  ~Over(t, x)
<1> SUFFICES ASSUME NEW l, Differ(t, x, l), t[l] < x[l] PROVE FALSE
  BY OverAt
<1>1. /\ Len(x) \in Nat /\ Len(y) \in Nat /\ Len(t) \in Nat
      /\ \A i \in 1..Len(x) : x[i] \in Nat
      /\ \A i \in 1..Len(y) : y[i] \in Nat
      /\ \A i \in 1..Len(t) : t[i] \in Nat
      /\ l \in 1..Len(x) /\ l \in 1..Len(t)
  <2>1. /\ Len(x) \in Nat /\ Len(y) \in Nat /\ Len(t) \in Nat
        /\ \A i \in 1..Len(x) : x[i] \in Nat
        /\ \A i \in 1..Len(y) : y[i] \in Nat
        /\ \A i \in 1..Len(t) : t[i] \in Nat
    BY Codes
  <2> QED
    BY <2>1 DEF Differ
<1>2. Len(y) <= Len(t) /\ \A i \in 1..Len(y) : y[i] = t[i]
  BY Prefix
<1>3. CASE x = y
  BY <1>1, <1>2, <1>3
<1>4. CASE Over(x, y)
  <2>1. PICK k : Differ(x, y, k) /\ x[k] < y[k]
    BY <1>4, OverAt
  <2>2. k \in 1..Len(x) /\ k \in 1..Len(y) /\ y[k] = t[k]
    BY <1>1, <1>2, <2>1 DEF Differ
  <2>3. CASE l < k
    <3>1. x[l] = y[l] /\ l \in 1..Len(y)
      BY <1>1, <2>1, <2>2, <2>3 DEF Differ
    <3> QED
      BY <1>1, <1>2, <3>1
  <2>4. CASE l = k
    BY <1>1, <2>1, <2>2, <2>4
  <2>5. CASE k < l
    <3>1. t[k] = x[k]
      BY <1>1, <2>2, <2>5 DEF Differ
    <3> QED
      BY <1>1, <2>1, <2>2, <3>1
  <2> QED
    BY <1>1, <2>2, <2>3, <2>4, <2>5
<1> QED
  BY <1>3, <1>4

----------------------------------------------------------------------------
(* Where the blocks begin *)

LEMMA TagDefined ==
    ASSUME NEW a, Len(a) \in Nat
    PROVE  \E g : /\ g = [n \in 0..Len(a) |-> IF n = 0 THEN 0 ELSE g[n - 1] + ClBlkLen(a[n])]
                  /\ \A k : ClNextTag(a, k) = g[k]
<1> DEFINE Def(g, m) == g = [n \in 0..m |-> IF n = 0 THEN 0 ELSE g[n - 1] + ClBlkLen(a[n])]
           T == {m \in Nat : \E g : Def(g, m)}
<1>1. 0 \in T
  <2>1. Def([n \in 0..0 |-> 0], 0)
    OBVIOUS
  <2> HIDE DEF Def
  <2> QED
    BY <2>1
<1>2. ASSUME NEW m \in T PROVE m + 1 \in T
  <2>1. PICK g : Def(g, m)
    OBVIOUS
  <2> DEFINE v == g[m] + ClBlkLen(a[m + 1])
             h == [n \in 0..(m + 1) |-> IF n <= m THEN g[n] ELSE v]
  <2>2. m \in Nat
    OBVIOUS
  <2>3. \A n \in 0..(m + 1) : h[n] = IF n = 0 THEN 0 ELSE h[n - 1] + ClBlkLen(a[n])
    <3> SUFFICES ASSUME NEW n \in 0..(m + 1)
                 PROVE  h[n] = IF n = 0 THEN 0 ELSE h[n - 1] + ClBlkLen(a[n])
      OBVIOUS
    <3>1. CASE n <= m
      <4>1. h[n] = g[n] /\ (n # 0 => h[n - 1] = g[n - 1])
        BY <2>2, <3>1
      <4>2. g[n] = IF n = 0 THEN 0 ELSE g[n - 1] + ClBlkLen(a[n])
        BY <2>1, <2>2, <3>1
      <4> HIDE DEF h
      <4> QED
        BY <4>1, <4>2
    <3>2. CASE n = m + 1
      <4>1. h[n] = v /\ h[n - 1] = g[m] /\ n # 0
        BY <2>2, <3>2
      <4> HIDE DEF h
      <4> QED
        BY <3>2, <4>1
    <3> QED
      BY <2>2, <3>1, <3>2
  <2>4. Def(h, m + 1)
    <3>1. h = [n \in 0..(m + 1) |-> h[n]]
      OBVIOUS
    <3> HIDE DEF h
    <3> QED
      BY <2>3, <3>1
  <2> HIDE DEF Def
  <2> QED
    BY <2>2, <2>4
<1>3. T \subseteq Nat
  OBVIOUS
<1> HIDE DEF T
<1>4. T = Nat
  BY <1>1, <1>2, <1>3, SetInduction
<1>5. \E g : Def(g, Len(a))
  BY <1>4 DEF T
<1> QED
  BY <1>5 DEF ClNextTag

LEMMA Tags ==
    ASSUME NEW a \in Seq(Block)
    PROVE  /\ ClNextTag(a, 0) = 0
           /\ \A n \in 1..Len(a) : /\ ClBlkLen(a[n]) \in Nat /\ ClBlkLen(a[n]) > CL_HDLEN
                                   /\ ClNextTag(a, n) = ClNextTag(a, n - 1) + ClBlkLen(a[n])
           /\ \A n \in 0..Len(a) : ClNextTag(a, n) \in Nat
<1>1. PICK g : /\ g = [n \in 0..Len(a) |-> IF n = 0 THEN 0 ELSE g[n - 1] + ClBlkLen(a[n])]
               /\ \A k : ClNextTag(a, k) = g[k]
  BY TagDefined
<1>2. Len(a) \in Nat
  OBVIOUS
<1>3. \A n \in 1..Len(a) : ClBlkLen(a[n]) \in Nat /\ ClBlkLen(a[n]) > CL_HDLEN
  <2> SUFFICES ASSUME NEW n \in 1..Len(a)
               PROVE  ClBlkLen(a[n]) \in Nat /\ ClBlkLen(a[n]) > CL_HDLEN
    OBVIOUS
  <2>1. a[n] \in Block
    OBVIOUS
  <2>2. Len(a[n].yomi) \in Nat \ {0}
    BY <2>1, Codes DEF Block
  <2> QED
    BY <2>2 DEF ClBlkLen, CL_HDLEN
<1>4. g[0] = 0 /\ \A n \in 1..Len(a) : g[n] = g[n - 1] + ClBlkLen(a[n])
  <2>1. \A n \in 0..Len(a) : g[n] = IF n = 0 THEN 0 ELSE g[n - 1] + ClBlkLen(a[n])
    BY <1>1
  <2> QED
    BY <1>2, <2>1
<1> DEFINE T == {n \in Nat : n <= Len(a) => g[n] \in Nat}
<1>5. T = Nat
  <2>1. 0 \in T
    BY <1>4
  <2>2. ASSUME NEW n \in T PROVE n + 1 \in T
    <3>1. n + 1 <= Len(a) => n <= Len(a) /\ n + 1 \in 1..Len(a) /\ (n + 1) - 1 = n
      BY <1>2
    <3>2. n + 1 <= Len(a) => g[n + 1] = g[n] + ClBlkLen(a[n + 1])
      BY <1>4, <3>1
    <3> QED
      BY <1>3, <3>1, <3>2
  <2>3. T \subseteq Nat
    OBVIOUS
  <2> HIDE DEF T
  <2> QED
    BY <2>1, <2>2, <2>3, SetInduction
<1>6. \A n \in 0..Len(a) : g[n] \in Nat
  BY <1>2, <1>5
<1> QED
  BY <1>1, <1>3, <1>4, <1>6

\* Blocks that come later begin later.
LEMMA TagsGrow ==
    ASSUME NEW a \in Seq(Block), NEW m \in 0..Len(a), NEW n \in 0..Len(a)
    PROVE  m <= n <=> ClNextTag(a, m) <= ClNextTag(a, n)
<1> DEFINE tag(i) == ClNextTag(a, i)
           T == {i \in Nat : i <= Len(a) => \A j \in 0..Len(a) : j < i => tag(j) < tag(i)}
<1>1. Len(a) \in Nat /\ \A i \in 0..Len(a) : tag(i) \in Nat
  BY Tags
<1>2. \A i \in 1..Len(a) : tag(i - 1) < tag(i)
  <2> SUFFICES ASSUME NEW i \in 1..Len(a) PROVE tag(i - 1) < tag(i)
    OBVIOUS
  <2>1. /\ ClBlkLen(a[i]) \in Nat /\ ClBlkLen(a[i]) > CL_HDLEN
        /\ tag(i) = tag(i - 1) + ClBlkLen(a[i])
    BY Tags
  <2>2. i - 1 \in 0..Len(a)
    BY <1>1
  <2>3. tag(i - 1) \in Nat
    BY <1>1, <2>2
  <2> HIDE DEF tag
  <2> QED
    BY <2>1, <2>3 DEF CL_HDLEN
<1> HIDE DEF tag
<1>3. T = Nat
  <2>1. 0 \in T
    OBVIOUS
  <2>2. ASSUME NEW i \in T PROVE i + 1 \in T
    <3> SUFFICES ASSUME i + 1 <= Len(a), NEW j \in 0..Len(a), j < i + 1
                 PROVE  tag(j) < tag(i + 1)
      OBVIOUS
    <3>1. i \in Nat /\ i <= Len(a) /\ i + 1 \in 1..Len(a) /\ (i + 1) - 1 = i /\ i \in 0..Len(a)
          /\ i + 1 \in 0..Len(a)
      BY <1>1
    <3>2. tag(i) < tag(i + 1)
      BY <1>2, <3>1
    <3>3. j = i \/ (j < i /\ tag(j) < tag(i))
      BY <3>1
    <3>4. tag(i) \in Nat /\ tag(j) \in Nat /\ tag(i + 1) \in Nat
      BY <1>1, <3>1
    <3> QED
      BY <3>2, <3>3, <3>4
  <2>3. T \subseteq Nat
    OBVIOUS
  <2> HIDE DEF T
  <2> QED
    BY <2>1, <2>2, <2>3, SetInduction
<1>4. \A i, j \in 0..Len(a) : j < i => tag(j) < tag(i)
  BY <1>1, <1>3
<1> HIDE DEF T
<1>5. tag(m) \in Nat /\ tag(n) \in Nat /\ m \in Nat /\ n \in Nat
  BY <1>1
<1>6. m <= n <=> tag(m) <= tag(n)
  <2>1. CASE m < n
    BY <1>4, <1>5, <2>1
  <2>2. CASE n < m
    BY <1>4, <1>5, <2>2
  <2>3. CASE m = n
    BY <1>5, <2>3
  <2> QED
    BY <1>5, <2>1, <2>2, <2>3
<1> QED
  BY <1>6 DEF tag

\* Where a block of the rest was when the one at k is gone.
Place(k, i) == IF i < k THEN i ELSE i + 1

\* One block more takes its length more.
LEMMA OneMore ==
    ASSUME NEW a \in Seq(Block), NEW b \in Seq(Block), NEW k \in 1..Len(a),
           Len(b) = Len(a) - 1,
           \A i \in 1..Len(b) : b[i].yomi = a[Place(k, i)].yomi
    PROVE  Used(a) = Used(b) + ClBlkLen(a[k])
<1> DEFINE A(i) == ClNextTag(a, i)
           B(i) == ClNextTag(b, i)
           l == ClBlkLen(a[k])
           T == {n \in Nat : n <= Len(b) => A(IF n < k THEN n ELSE n + 1)
                                             = B(n) + IF n < k THEN 0 ELSE l}
<1>1. Len(a) \in Nat /\ Len(b) \in Nat
  OBVIOUS
<1>2. /\ A(0) = 0 /\ B(0) = 0 /\ l \in Nat
      /\ \A i \in 1..Len(a) : A(i) = A(i - 1) + ClBlkLen(a[i]) /\ ClBlkLen(a[i]) \in Nat
      /\ \A i \in 1..Len(b) : B(i) = B(i - 1) + ClBlkLen(b[i])
      /\ \A i \in 0..Len(a) : A(i) \in Nat
      /\ \A i \in 0..Len(b) : B(i) \in Nat
  BY Tags
<1>3. \A i \in 1..Len(b) : ClBlkLen(b[i]) = ClBlkLen(a[Place(k, i)])
  BY DEF ClBlkLen
<1>4. A(k) = A(k - 1) + l
  BY <1>2
<1> HIDE DEF A, B, l
<1>5. T = Nat
  <2>1. 0 \in T
    BY <1>2
  <2>2. ASSUME NEW n \in T PROVE n + 1 \in T
    <3> SUFFICES ASSUME n + 1 <= Len(b)
                 PROVE  A(IF n + 1 < k THEN n + 1 ELSE (n + 1) + 1)
                        = B(n + 1) + IF n + 1 < k THEN 0 ELSE l
      OBVIOUS
    <3>1. /\ n \in Nat /\ n <= Len(b) /\ n + 1 \in 1..Len(b) /\ (n + 1) - 1 = n
          /\ A(IF n < k THEN n ELSE n + 1) = B(n) + IF n < k THEN 0 ELSE l
      BY <1>1
    <3> HIDE DEF T
    <3>2. B(n + 1) = B(n) + ClBlkLen(b[n + 1])
      BY <1>2, <3>1
    <3>3. CASE n + 1 < k
      <4>1. n < k /\ n + 1 \in 1..Len(a) /\ Place(k, n + 1) = n + 1
        BY <1>1, <3>1, <3>3 DEF Place
      <4>2. A(n + 1) = A(n) + ClBlkLen(a[n + 1])
        BY <1>2, <3>1, <4>1
      <4>3. ClBlkLen(b[n + 1]) = ClBlkLen(a[n + 1])
        BY <1>3, <3>1, <4>1
      <4>4. A(n) = B(n)
        BY <1>2, <3>1, <4>1
      <4>5. A(n + 1) = B(n + 1) /\ B(n + 1) \in Nat
        BY <1>2, <3>1, <3>2, <4>2, <4>3, <4>4
      <4> QED
        BY <3>3, <4>5
    <3>4. CASE ~(n + 1 < k)
      <4>1. /\ (n + 1) + 1 \in 1..Len(a) /\ ((n + 1) + 1) - 1 = n + 1
            /\ Place(k, n + 1) = (n + 1) + 1
        BY <1>1, <3>1, <3>4 DEF Place
      <4>2. A((n + 1) + 1) = A(n + 1) + ClBlkLen(a[(n + 1) + 1])
        BY <1>2, <4>1
      <4>3. ClBlkLen(b[n + 1]) = ClBlkLen(a[(n + 1) + 1])
        BY <1>3, <3>1, <4>1
      <4>4. A(n + 1) = B(n) + l
        <5>1. CASE n < k
          <6>1. n + 1 = k
            BY <1>1, <3>1, <3>4, <5>1
          <6>2. A(n) = B(n)
            BY <1>2, <3>1, <5>1
          <6> QED
            BY <1>4, <3>1, <6>1, <6>2
        <5>2. CASE ~(n < k)
          BY <3>1, <5>2
        <5> QED
          BY <5>1, <5>2
      <4>5. A((n + 1) + 1) = B(n + 1) + l
        <5>1. n \in 0..Len(b) /\ B(n) \in Nat /\ l \in Nat
          BY <1>1, <1>2, <3>1
        <5>2. ClBlkLen(a[(n + 1) + 1]) \in Nat
          BY <1>2, <4>1
        <5> QED
          BY <3>2, <4>2, <4>3, <4>4, <5>1, <5>2
      <4> QED
        BY <3>4, <4>5
    <3> QED
      BY <3>3, <3>4
  <2>3. T \subseteq Nat
    OBVIOUS
  <2> HIDE DEF T
  <2> QED
    BY <2>1, <2>2, <2>3, SetInduction
<1>6. A(IF Len(b) < k THEN Len(b) ELSE Len(b) + 1) = B(Len(b)) + IF Len(b) < k THEN 0 ELSE l
  <2>1. Len(b) \in T
    BY <1>1, <1>5
  <2> HIDE DEF T
  <2> QED
    BY <1>1, <2>1 DEF T
<1> HIDE DEF T
<1>7. A(Len(a)) = B(Len(b)) + l
  <2>1. CASE Len(b) < k
    <3>1. k = Len(a) /\ Len(b) = k - 1
      BY <1>1, <2>1
    <3>2. A(k - 1) = B(Len(b))
      BY <1>1, <1>2, <1>6, <2>1, <3>1
    <3> QED
      BY <1>4, <3>1, <3>2
  <2>2. CASE ~(Len(b) < k)
    <3>1. Len(b) + 1 = Len(a)
      BY <1>1
    <3> QED
      BY <1>6, <2>2, <3>1
  <2> QED
    BY <2>1, <2>2
<1> QED
  BY <1>7 DEF A, B, l, Used
----------------------------------------------------------------------------
(* Deletion *)

LEMMA SaneFacts ==
    ASSUME NEW a, Sane(a)
    PROVE  /\ a \in Seq(Block) /\ Len(a) \in Nat /\ DOMAIN a = 1..Len(a) /\ Used(a) \in Nat
           /\ \A k \in DOMAIN a : a[k] \in Block /\ a[k].yomi \in Yomi
           /\ \A j, k \in DOMAIN a : a[j].yomi = a[k].yomi => j = k
<1>1. a \in Seq(Block)
  BY DEF Sane, Numbered
<1>2. Len(a) \in Nat /\ DOMAIN a = 1..Len(a)
  BY <1>1
<1>3. \A k \in DOMAIN a : a[k] \in Block /\ a[k].yomi \in Yomi
  <2>1. \A k \in DOMAIN a : a[k] \in Block
    BY <1>1, <1>2
  <2> QED
    BY <2>1 DEF Block
<1>4. ASSUME NEW j \in DOMAIN a, NEW k \in DOMAIN a, a[j].yomi = a[k].yomi PROVE j = k
  <2>1. ~Over(a[j].yomi, a[k].yomi) /\ ~Over(a[k].yomi, a[j].yomi)
    BY <1>3, <1>4, OverIrreflexive
  <2>2. ~(j < k) /\ ~(k < j)
    BY <2>1 DEF Sane, Sorted
  <2> QED
    BY <1>2, <2>2
<1>5. Used(a) \in Nat
  <2>1. \A n \in 0..Len(a) : ClNextTag(a, n) \in Nat
    BY <1>1, Tags
  <2> QED
    BY <1>2, <2>1 DEF Used
<1> QED
  BY <1>1, <1>2, <1>3, <1>4, <1>5

\* Some block has the reading y.
Has(a, y) == \E k \in DOMAIN a : a[k].yomi = y

\* b is left of a: the readings of its blocks are among those of a, and in the
\* same order of age.
Left(a, b) ==
    /\ \A m \in DOMAIN b : Has(a, b[m].yomi)
    /\ \A l, m \in DOMAIN b, j, k \in DOMAIN a :
          b[l].yomi = a[j].yomi /\ b[m].yomi = a[k].yomi =>
              (b[l].num < b[m].num <=> a[j].num < a[k].num)

LEMMA LeftRefl == ASSUME NEW a, Sane(a) PROVE Left(a, a)
<1>1. \A j, k \in DOMAIN a : a[j].yomi = a[k].yomi => j = k
  BY SaneFacts
<1> QED
  BY <1>1 DEF Left, Has

LEMMA LeftTrans ==
    ASSUME NEW a, NEW b, NEW c, Left(a, b), Left(b, c)
    PROVE  Left(a, c)
<1>1. \A m \in DOMAIN c : \E l \in DOMAIN b, k \in DOMAIN a :
         c[m].yomi = b[l].yomi /\ b[l].yomi = a[k].yomi
  BY DEF Left, Has
<1>2. \A m \in DOMAIN c : Has(a, c[m].yomi)
  BY <1>1 DEF Has
<1>3. ASSUME NEW l \in DOMAIN c, NEW m \in DOMAIN c, NEW j \in DOMAIN a, NEW k \in DOMAIN a,
             c[l].yomi = a[j].yomi, c[m].yomi = a[k].yomi
      PROVE  c[l].num < c[m].num <=> a[j].num < a[k].num
  <2>1. PICK p \in DOMAIN b : c[l].yomi = b[p].yomi
    BY <1>1
  <2>2. PICK q \in DOMAIN b : c[m].yomi = b[q].yomi
    BY <1>1
  <2>3. c[l].num < c[m].num <=> b[p].num < b[q].num
    BY <2>1, <2>2 DEF Left
  <2>4. b[p].num < b[q].num <=> a[j].num < a[k].num
    BY <1>3, <2>1, <2>2 DEF Left
  <2> QED
    BY <2>3, <2>4
<1> QED
  BY <1>2, <1>3 DEF Left

LEMMA Deleted ==
    ASSUME NEW a, Sane(a), NEW k \in DOMAIN a
    PROVE  LET b == delclsub(a, k)
           IN  /\ b \in Seq(Block) /\ Len(b) = Len(a) - 1
               /\ \A i \in 1..(Len(a) - 1) :
                     /\ Place(k, i) \in DOMAIN a \ {k}
                     /\ b[i].yomi = a[Place(k, i)].yomi
                     /\ b[i].num = IF a[Place(k, i)].num > a[k].num
                                   THEN a[Place(k, i)].num - 1 ELSE a[Place(k, i)].num
               /\ \A j \in DOMAIN a \ {k} : \E i \in 1..(Len(a) - 1) : Place(k, i) = j
<1> DEFINE r == RemoveAt(a, k)
           b == delclsub(a, k)
<1>1. a \in Seq(Block) /\ Len(a) \in Nat /\ DOMAIN a = 1..Len(a) /\ k \in 1..Len(a)
  BY DEF Sane, Numbered
<1>2. /\ r \in Seq(Block) /\ Len(r) = Len(a) - 1
      /\ \A i \in 1..(Len(a) - 1) : r[i] = a[Place(k, i)]
  BY <1>1, Removed DEF Place
<1>3. /\ \A i \in 1..(Len(a) - 1) : Place(k, i) \in DOMAIN a \ {k}
      /\ \A j \in DOMAIN a \ {k} : \E i \in 1..(Len(a) - 1) : Place(k, i) = j
  <2>1. \A i \in 1..(Len(a) - 1) : Place(k, i) \in DOMAIN a \ {k}
    BY <1>1 DEF Place
  <2>2. ASSUME NEW j \in DOMAIN a \ {k}
        PROVE  \E i \in 1..(Len(a) - 1) : Place(k, i) = j
    <3>1. CASE j < k
      BY <1>1, <3>1 DEF Place
    <3>2. CASE j > k
      <4>1. j - 1 \in 1..(Len(a) - 1) /\ Place(k, j - 1) = j
        BY <1>1, <3>2 DEF Place
      <4> QED
        BY <4>1
    <3> QED
      BY <1>1, <3>1, <3>2
  <2> QED
    BY <2>1, <2>2
<1>4. b = [i \in 1..(Len(a) - 1) |->
              IF r[i].num > a[k].num THEN [r[i] EXCEPT !.num = @ - 1] ELSE r[i]]
  BY <1>1, <1>2 DEF delclsub
<1> HIDE DEF r, b
<1>5. ASSUME NEW i \in 1..(Len(a) - 1)
      PROVE  /\ b[i] \in Block
             /\ b[i].yomi = a[Place(k, i)].yomi
             /\ b[i].num = IF a[Place(k, i)].num > a[k].num
                           THEN a[Place(k, i)].num - 1 ELSE a[Place(k, i)].num
  <2> DEFINE j == Place(k, i)
  <2>1. j \in DOMAIN a /\ r[i] = a[j]
    BY <1>2, <1>3
  <2> HIDE DEF j
  <2>2. a[j] \in Block /\ a[j].num \in 1..Len(a) /\ a[k].num \in 1..Len(a)
    BY <1>1, <2>1 DEF Sane, Numbered
  <2>3. b[i] = IF a[j].num > a[k].num THEN [a[j] EXCEPT !.num = @ - 1] ELSE a[j]
    BY <1>4, <2>1
  <2>4. b[i] \in Block /\ b[i].yomi = a[j].yomi
        /\ b[i].num = IF a[j].num > a[k].num THEN a[j].num - 1 ELSE a[j].num
    <3>1. a[j].num > a[k].num => a[j].num - 1 \in Nat
      BY <1>1, <2>2
    <3>2. CASE a[j].num > a[k].num
      <4>1. b[i] = [a[j] EXCEPT !.num = a[j].num - 1]
        BY <2>3, <3>2
      <4> QED
        BY <2>2, <3>1, <3>2, <4>1 DEF Block
    <3>3. CASE ~(a[j].num > a[k].num)
      BY <2>2, <2>3, <3>3
    <3> QED
      BY <3>2, <3>3
  <2> QED
    BY <2>4 DEF j
<1>6. b \in Seq(Block) /\ Len(b) = Len(a) - 1
  <2>1. Len(a) - 1 \in Nat
    BY <1>1
  <2>2. b \in [1..(Len(a) - 1) -> Block]
    BY <1>4, <1>5
  <2> QED
    BY <2>1, <2>2, SeqDef, LenProperties
<1> QED
  BY <1>3, <1>5, <1>6 DEF b

\* What is left when a block goes: the numbers and readings of the others are
\* as good as before.
LEMMA DeletedSane ==
    ASSUME NEW a, Sane(a), NEW k \in DOMAIN a
    PROVE  LET b == delclsub(a, k)
           IN  /\ Sane(b) /\ Left(a, b) /\ Len(b) = Len(a) - 1
               /\ \A y : Has(b, y) <=> Has(a, y) /\ y # a[k].yomi
               /\ \A i \in 1..(k - 1) : b[i].yomi = a[i].yomi
               /\ Used(b) \in Nat /\ Used(b) + CL_HDLEN <= Used(a)
<1> DEFINE b == delclsub(a, k)
           was(i) == a[Place(k, i)]
<1>0. /\ b \in Seq(Block) /\ Len(b) = Len(a) - 1
      /\ \A i \in 1..(Len(a) - 1) :
            /\ Place(k, i) \in DOMAIN a \ {k}
            /\ b[i].yomi = a[Place(k, i)].yomi
            /\ b[i].num = IF a[Place(k, i)].num > a[k].num
                          THEN a[Place(k, i)].num - 1 ELSE a[Place(k, i)].num
      /\ \A j \in DOMAIN a \ {k} : \E i \in 1..(Len(a) - 1) : Place(k, i) = j
  BY Deleted
<1> HIDE DEF b
<1>1. /\ b \in Seq(Block) /\ Len(b) = Len(a) - 1 /\ Len(a) \in Nat
      /\ DOMAIN b = 1..(Len(a) - 1) /\ DOMAIN a = 1..Len(a)
  BY <1>0 DEF Sane, Numbered
<1>2. \A i \in DOMAIN b :
         /\ Place(k, i) \in DOMAIN a \ {k} /\ was(i).num \in 1..Len(a)
         /\ b[i].yomi = was(i).yomi
         /\ b[i].num = IF was(i).num > a[k].num THEN was(i).num - 1 ELSE was(i).num
  BY <1>0, <1>1 DEF Sane, Numbered
<1>3. \A j \in DOMAIN a \ {k} : \E i \in DOMAIN b : Place(k, i) = j
  BY <1>0, <1>1
<1>4. \A i, j \in DOMAIN b : Place(k, i) = Place(k, j) => i = j
  BY <1>1 DEF Place
<1>5. \A i, j \in DOMAIN a : (a[i].num = a[j].num => i = j) /\ (a[i].yomi = a[j].yomi => i = j)
  BY SaneFacts DEF Sane, Numbered
<1>6. a[k].num \in 1..Len(a)
  BY DEF Sane, Numbered
<1>7. \A i \in DOMAIN b : was(i).num # a[k].num
  BY <1>2, <1>5
<1>8. \A n \in 1..Len(a) : \E j \in DOMAIN a : a[j].num = n
  BY DEF Sane, Numbered
<1>9. \A i \in DOMAIN b : b[i].num \in 1..Len(b)
  BY <1>1, <1>2, <1>6, <1>7
<1>10. ASSUME NEW i \in DOMAIN b, NEW j \in DOMAIN b
       PROVE  b[i].num < b[j].num <=> was(i).num < was(j).num
  <2>1. PICK m, n, p : m = was(i).num /\ n = was(j).num /\ p = a[k].num
    OBVIOUS
  <2>2. m \in 1..Len(a) /\ n \in 1..Len(a) /\ p \in 1..Len(a) /\ m # p /\ n # p
    BY <1>2, <1>6, <1>7, <2>1
  <2>3. b[i].num = (IF m > p THEN m - 1 ELSE m) /\ b[j].num = (IF n > p THEN n - 1 ELSE n)
    BY <1>2, <2>1
  <2>4. b[i].num < b[j].num <=> m < n
    BY <1>1, <2>2, <2>3
  <2> QED
    BY <2>1, <2>4
<1>11. \A i, j \in DOMAIN b : b[i].num = b[j].num => i = j
  <2>1. \A i, j \in DOMAIN b : b[i].num = b[j].num => was(i).num = was(j).num
    BY <1>1, <1>2, <1>6, <1>7
  <2> QED
    BY <1>2, <1>4, <1>5, <2>1
<1>12. ASSUME NEW n \in 1..Len(b) PROVE \E i \in DOMAIN b : b[i].num = n
  <2>1. CASE n < a[k].num
    <3>1. PICK j \in DOMAIN a : a[j].num = n
      BY <1>1, <1>8
    <3>2. PICK i \in DOMAIN b : Place(k, i) = j
      BY <1>3, <2>1, <3>1
    <3> QED
      BY <1>1, <1>2, <1>6, <2>1, <3>1, <3>2
  <2>2. CASE n >= a[k].num
    <3>1. PICK j \in DOMAIN a : a[j].num = n + 1
      BY <1>1, <1>8
    <3>2. PICK i \in DOMAIN b : Place(k, i) = j
      BY <1>1, <1>3, <1>6, <2>2, <3>1
    <3>3. was(i).num = n + 1 /\ n + 1 > a[k].num
      BY <1>1, <1>6, <2>2, <3>1, <3>2
    <3>4. b[i].num = n
      BY <1>2, <3>3
    <3> QED
      BY <3>4
  <2> QED
    BY <1>1, <1>6, <2>1, <2>2
<1>13. \A i, j \in DOMAIN b : i < j => Over(b[i].yomi, b[j].yomi)
  <2>1. \A i, j \in DOMAIN b : i < j => Place(k, i) < Place(k, j)
    BY <1>1 DEF Place
  <2> QED
    BY <1>2, <2>1 DEF Sane, Sorted
<1>14. Sane(b)
  BY <1>1, <1>9, <1>11, <1>12, <1>13 DEF Sane, Numbered, Sorted
<1>15. Left(a, b)
  <2>1. \A m \in DOMAIN b : Has(a, b[m].yomi)
    BY <1>2 DEF Has
  <2>2. \A m \in DOMAIN b, j \in DOMAIN a : b[m].yomi = a[j].yomi => j = Place(k, m)
    BY <1>2, <1>5
  <2> QED
    BY <1>10, <2>1, <2>2 DEF Left
<1>16. \A y : Has(b, y) <=> Has(a, y) /\ y # a[k].yomi
  <2>1. ASSUME NEW y, Has(b, y) PROVE Has(a, y) /\ y # a[k].yomi
    BY <1>2, <1>5, <2>1 DEF Has
  <2>2. ASSUME NEW y, Has(a, y), y # a[k].yomi PROVE Has(b, y)
    <3>1. PICK j \in DOMAIN a \ {k} : a[j].yomi = y
      BY <2>2 DEF Has
    <3>2. PICK i \in DOMAIN b : Place(k, i) = j
      BY <1>3
    <3>3. b[i].yomi = y
      BY <1>2, <3>1, <3>2
    <3> QED
      BY <3>3 DEF Has
  <2> QED
    BY <2>1, <2>2
<1>17. \A i \in 1..(k - 1) : b[i].yomi = a[i].yomi
  <2>1. \A i \in 1..(k - 1) : i \in DOMAIN b /\ Place(k, i) = i
    BY <1>1 DEF Place
  <2> QED
    BY <1>2, <2>1
<1>18. Used(b) \in Nat /\ Used(b) + CL_HDLEN <= Used(a)
  <2>1. a \in Seq(Block) /\ k \in 1..Len(a) /\ Used(a) \in Nat /\ Used(b) \in Nat
    BY <1>1, <1>14, SaneFacts
  <2>2. Used(a) = Used(b) + ClBlkLen(a[k])
    BY <1>1, <1>2, <2>1, OneMore
  <2>3. ClBlkLen(a[k]) \in Nat /\ ClBlkLen(a[k]) > CL_HDLEN
    BY <2>1, Tags
  <2> QED
    BY <2>1, <2>2, <2>3 DEF CL_HDLEN
<1> QED
  BY <1>1, <1>14, <1>15, <1>16, <1>17, <1>18 DEF b

----------------------------------------------------------------------------
(* delcldata: the related blocks go, the others stay *)

LEMMA WithoutDefined ==
    ASSUME NEW a, NEW y, Len(a) \in Nat
    PROVE  \E g : /\ g = [n \in 0..Len(a) |->
                            IF n = 0 THEN a ELSE Without(y, a, g[n - 1], Len(a) - n + 1)]
                  /\ delcldata(a, y) = g[Len(a)]
<1> DEFINE Def(g, m) == g = [n \in 0..m |->
                IF n = 0 THEN a ELSE Without(y, a, g[n - 1], Len(a) - n + 1)]
           T == {m \in Nat : \E g : Def(g, m)}
<1>1. 0 \in T
  <2>1. Def([n \in 0..0 |-> a], 0)
    OBVIOUS
  <2> HIDE DEF Def
  <2> QED
    BY <2>1
<1>2. ASSUME NEW m \in T PROVE m + 1 \in T
  <2>1. PICK g : Def(g, m)
    OBVIOUS
  <2> DEFINE v == Without(y, a, g[m], Len(a) - (m + 1) + 1)
             h == [n \in 0..(m + 1) |-> IF n <= m THEN g[n] ELSE v]
  <2>2. m \in Nat
    OBVIOUS
  <2>3. \A n \in 0..(m + 1) :
           h[n] = IF n = 0 THEN a ELSE Without(y, a, h[n - 1], Len(a) - n + 1)
    <3> SUFFICES ASSUME NEW n \in 0..(m + 1)
                 PROVE  h[n] = IF n = 0 THEN a ELSE Without(y, a, h[n - 1], Len(a) - n + 1)
      OBVIOUS
    <3>1. CASE n <= m
      <4>1. h[n] = g[n] /\ (n # 0 => h[n - 1] = g[n - 1])
        BY <2>2, <3>1
      <4>2. g[n] = IF n = 0 THEN a ELSE Without(y, a, g[n - 1], Len(a) - n + 1)
        BY <2>1, <2>2, <3>1
      <4> HIDE DEF h
      <4> QED
        BY <4>1, <4>2
    <3>2. CASE n = m + 1
      <4>1. h[n] = v /\ h[n - 1] = g[m] /\ n # 0
        BY <2>2, <3>2
      <4> HIDE DEF h
      <4> QED
        BY <3>2, <4>1
    <3> QED
      BY <2>2, <3>1, <3>2
  <2>4. Def(h, m + 1)
    <3>1. h = [n \in 0..(m + 1) |-> h[n]]
      OBVIOUS
    <3> HIDE DEF h
    <3> QED
      BY <2>3, <3>1
  <2> HIDE DEF Def
  <2> QED
    BY <2>2, <2>4
<1>3. T \subseteq Nat
  OBVIOUS
<1> HIDE DEF T
<1>4. T = Nat
  BY <1>1, <1>2, <1>3, SetInduction
<1>5. \E g : Def(g, Len(a))
  BY <1>4 DEF T
<1> QED
  BY <1>5 DEF delcldata

LEMMA OthersStay ==
    ASSUME NEW a, Sane(a), NEW y
    PROVE  LET b == delcldata(a, y)
           IN  /\ Sane(b) /\ Left(a, b) /\ Used(b) <= Used(a)
               /\ \A j \in DOMAIN a : Has(b, a[j].yomi) <=> ~Related(y, a[j])
<1>1. Len(a) \in Nat /\ DOMAIN a = 1..Len(a)
  BY DEF Sane, Numbered
<1>2. PICK g : /\ g = [n \in 0..Len(a) |->
                         IF n = 0 THEN a ELSE Without(y, a, g[n - 1], Len(a) - n + 1)]
               /\ delcldata(a, y) = g[Len(a)]
  BY <1>1, WithoutDefined
<1> DEFINE Good(n) == /\ Sane(g[n]) /\ Left(a, g[n]) /\ Used(g[n]) <= Used(a)
                      /\ Len(g[n]) >= Len(a) - n
                      /\ \A i \in 1..(Len(a) - n) : g[n][i].yomi = a[i].yomi
                      /\ \A j \in DOMAIN a : Has(g[n], a[j].yomi) <=>
                                              j <= Len(a) - n \/ ~Related(y, a[j])
           T == {n \in Nat : n <= Len(a) => Good(n)}
<1>3. 0 \in T
  <2>1. g[0] = a
    BY <1>1, <1>2
  <2>2. \A j \in DOMAIN a : Has(a, a[j].yomi) /\ j <= Len(a) - 0
    BY <1>1 DEF Has
  <2>3. Good(0)
    BY <1>1, <2>1, <2>2, LeftRefl, SaneFacts
  <2> HIDE DEF Good
  <2> QED
    BY <2>3
<1>4. ASSUME NEW n \in T PROVE n + 1 \in T
  <2> SUFFICES ASSUME n + 1 <= Len(a) PROVE Good(n + 1)
    OBVIOUS
  <2> HIDE DEF Good
  <2>0. n \in Nat /\ (n <= Len(a) => Good(n))
    OBVIOUS
  <2> HIDE DEF T
  <2>1. n \in Nat /\ n <= Len(a) /\ Good(n)
    BY <1>1, <2>0
  <2> DEFINE k == Len(a) - n
  <2>2. k \in 1..Len(a) /\ k \in DOMAIN a /\ Len(a) - (n + 1) + 1 = k /\ Len(a) - (n + 1) = k - 1
    BY <1>1, <2>1
  <2>3. g[n + 1] = Without(y, a, g[n], k)
    <3>1. n + 1 \in 0..Len(a) /\ n + 1 # 0 /\ (n + 1) - 1 = n
      BY <1>1, <2>1
    <3>2. g[n + 1] = Without(y, a, g[(n + 1) - 1], Len(a) - (n + 1) + 1)
      BY <1>2, <3>1
    <3> QED
      BY <2>2, <3>1, <3>2
  <2> PICK b : b = g[n]
    OBVIOUS
  <2>4. /\ Sane(b) /\ Left(a, b) /\ Used(b) <= Used(a) /\ Len(b) >= k
        /\ \A i \in 1..k : b[i].yomi = a[i].yomi
        /\ \A j \in DOMAIN a : Has(b, a[j].yomi) <=> j <= k \/ ~Related(y, a[j])
    BY <2>1 DEF Good
  <2> HIDE DEF k
  <2>5. \A j \in DOMAIN a : j <= k <=> j <= k - 1 \/ j = k
    BY <1>1, <2>2
  <2>6. CASE ~Related(y, a[k])
    <3>1. g[n + 1] = b
      BY <2>3, <2>6 DEF Without
    <3>2. \A j \in DOMAIN a : Has(b, a[j].yomi) <=> j <= k - 1 \/ ~Related(y, a[j])
      BY <2>4, <2>5, <2>6
    <3>3. Len(b) >= k - 1 /\ \A i \in 1..(k - 1) : b[i].yomi = a[i].yomi
      BY <2>2, <2>4 DEF Sane, Numbered
    <3> QED
      BY <2>2, <2>4, <3>1, <3>2, <3>3 DEF Good
  <2>7. CASE Related(y, a[k])
    <3>1. PICK c : c = delclsub(b, k)
      OBVIOUS
    <3>2. g[n + 1] = c
      BY <2>3, <2>7, <3>1 DEF Without
    <3>3. k \in DOMAIN b /\ Len(b) \in Nat /\ b[k].yomi = a[k].yomi
      <4>1. b \in Seq(Block)
        BY <2>4 DEF Sane, Numbered
      <4>2. Len(b) \in Nat /\ DOMAIN b = 1..Len(b)
        BY <4>1
      <4>3. k \in 1..k /\ k \in 1..Len(b)
        BY <1>1, <2>2, <2>4, <4>2
      <4> QED
        BY <2>4, <4>2, <4>3
    <3>4. /\ Sane(c) /\ Left(b, c) /\ Len(c) = Len(b) - 1
          /\ \A z : Has(c, z) <=> Has(b, z) /\ z # b[k].yomi
          /\ \A i \in 1..(k - 1) : c[i].yomi = b[i].yomi
          /\ Used(c) \in Nat /\ Used(c) + CL_HDLEN <= Used(b)
      <4>1. Sane(b) /\ k \in DOMAIN b
        BY <2>4, <3>3
      <4> QED
        BY <3>1, <4>1, DeletedSane
    <3>5. Left(a, c)
      BY <2>4, <3>4, LeftTrans
    <3>6. \A j \in DOMAIN a : a[j].yomi = a[k].yomi <=> j = k
      BY <2>2, SaneFacts
    <3>7. \A j \in DOMAIN a : Has(c, a[j].yomi) <=> j <= k - 1 \/ ~Related(y, a[j])
      <4> SUFFICES ASSUME NEW j \in DOMAIN a
                   PROVE  Has(c, a[j].yomi) <=> j <= k - 1 \/ ~Related(y, a[j])
        OBVIOUS
      <4>1. Has(c, a[j].yomi) <=> (j <= k \/ ~Related(y, a[j])) /\ j # k
        BY <2>4, <3>3, <3>4, <3>6
      <4>2. j = k => ~(j <= k - 1) /\ Related(y, a[j])
        BY <2>2, <2>7
      <4> QED
        BY <2>5, <4>1, <4>2
    <3>8. Len(c) >= k - 1 /\ \A i \in 1..(k - 1) : c[i].yomi = a[i].yomi
      <4>1. k \in Nat /\ Len(b) \in Nat /\ Len(b) >= k /\ Len(c) = Len(b) - 1
        BY <1>1, <2>2, <2>4, <3>3, <3>4
      <4>2. \A i \in 1..(k - 1) : i \in 1..k
        BY <4>1
      <4>3. \A i \in 1..(k - 1) : c[i].yomi = a[i].yomi
        BY <2>4, <3>4, <4>2
      <4> QED
        BY <4>1, <4>3
    <3>9. Used(c) <= Used(a)
      <4>1. Used(a) \in Nat /\ Used(b) \in Nat
        BY <2>4, SaneFacts
      <4> QED
        BY <2>4, <3>4, <4>1 DEF CL_HDLEN
    <3> QED
      BY <2>2, <3>2, <3>4, <3>5, <3>7, <3>8, <3>9 DEF Good
  <2> QED
    BY <2>6, <2>7
<1>5. T \subseteq Nat
  OBVIOUS
<1> HIDE DEF T
<1>6. T = Nat
  BY <1>3, <1>4, <1>5, SetInduction
<1>7. Good(Len(a))
  <2> HIDE DEF Good
  <2> QED
    BY <1>1, <1>6 DEF T
<1>8. \A j \in DOMAIN a : ~(j <= Len(a) - Len(a))
  BY <1>1
<1> QED
  BY <1>2, <1>7, <1>8

----------------------------------------------------------------------------
(* delclold and the loop around it: the oldest go *)

LEMMA Oldest ==
    ASSUME NEW a, Sane(a), Len(a) # 0
    PROVE  \E k \in DOMAIN a : /\ delclold(a) = delclsub(a, k)
                               /\ \A j \in DOMAIN a : a[j].num <= a[k].num
<1>1. Len(a) \in Nat /\ DOMAIN a = 1..Len(a) /\ Len(a) \in 1..Len(a)
  BY DEF Sane, Numbered
<1>2. PICK k \in DOMAIN a : a[k].num = Len(a)
  BY <1>1 DEF Sane, Numbered
<1>3. \A j \in DOMAIN a : a[j].num \in 1..Len(a) /\ (a[j].num = Len(a) => j = k)
  BY <1>2 DEF Sane, Numbered
<1>4. \A j \in DOMAIN a : a[j].num <= a[k].num /\ (j > k => a[j].num < a[k].num)
  BY <1>1, <1>2, <1>3
<1> DEFINE c == CHOOSE i \in DOMAIN a :
                  \A j \in DOMAIN a : a[j].num <= a[i].num
                                        /\ (j > i => a[j].num < a[i].num)
<1>5. c \in DOMAIN a /\ \A j \in DOMAIN a : a[j].num <= a[c].num
  BY <1>4
<1>6. delclold(a) = delclsub(a, c)
  BY DEF delclold
<1> HIDE DEF c
<1> QED
  BY <1>5, <1>6

LEMMA RoomDefined ==
    ASSUME NEW a, NEW d, Len(a) \in Nat
    PROVE  \E g : /\ g = [n \in 0..Len(a) |-> IF n = 0 THEN a ELSE delclold(g[n - 1])]
                  /\ MakeRoom(a, d) = g[d]
<1> DEFINE Def(g, m) == g = [n \in 0..m |-> IF n = 0 THEN a ELSE delclold(g[n - 1])]
           T == {m \in Nat : \E g : Def(g, m)}
<1>1. 0 \in T
  <2>1. Def([n \in 0..0 |-> a], 0)
    OBVIOUS
  <2> HIDE DEF Def
  <2> QED
    BY <2>1
<1>2. ASSUME NEW m \in T PROVE m + 1 \in T
  <2>1. PICK g : Def(g, m)
    OBVIOUS
  <2> DEFINE v == delclold(g[m])
             h == [n \in 0..(m + 1) |-> IF n <= m THEN g[n] ELSE v]
  <2>2. m \in Nat
    OBVIOUS
  <2>3. \A n \in 0..(m + 1) : h[n] = IF n = 0 THEN a ELSE delclold(h[n - 1])
    <3> SUFFICES ASSUME NEW n \in 0..(m + 1)
                 PROVE  h[n] = IF n = 0 THEN a ELSE delclold(h[n - 1])
      OBVIOUS
    <3>1. CASE n <= m
      <4>1. h[n] = g[n] /\ (n # 0 => h[n - 1] = g[n - 1])
        BY <2>2, <3>1
      <4>2. g[n] = IF n = 0 THEN a ELSE delclold(g[n - 1])
        BY <2>1, <2>2, <3>1
      <4> HIDE DEF h
      <4> QED
        BY <4>1, <4>2
    <3>2. CASE n = m + 1
      <4>1. h[n] = v /\ h[n - 1] = g[m] /\ n # 0
        BY <2>2, <3>2
      <4> HIDE DEF h
      <4> QED
        BY <3>2, <4>1
    <3> QED
      BY <2>2, <3>1, <3>2
  <2>4. Def(h, m + 1)
    <3>1. h = [n \in 0..(m + 1) |-> h[n]]
      OBVIOUS
    <3> HIDE DEF h
    <3> QED
      BY <2>3, <3>1
  <2> HIDE DEF Def
  <2> QED
    BY <2>2, <2>4
<1>3. T \subseteq Nat
  OBVIOUS
<1> HIDE DEF T
<1>4. T = Nat
  BY <1>1, <1>2, <1>3, SetInduction
<1>5. \E g : Def(g, Len(a))
  BY <1>4 DEF T
<1> QED
  BY <1>5 DEF MakeRoom

\* What MakeRoom leaves is younger than what it deletes.
LEMMA RoomMade ==
    ASSUME NEW a, Sane(a), NEW d \in 0..Len(a)
    PROVE  LET b == MakeRoom(a, d)
           IN  /\ Sane(b) /\ Left(a, b) /\ Len(b) = Len(a) - d
               /\ Used(b) + d * CL_HDLEN <= Used(a)
               /\ \A i, j \in DOMAIN a :
                     Has(b, a[i].yomi) /\ ~Has(b, a[j].yomi) => a[i].num < a[j].num
<1>1. Len(a) \in Nat /\ DOMAIN a = 1..Len(a)
  BY DEF Sane, Numbered
<1>2. PICK g : /\ g = [n \in 0..Len(a) |-> IF n = 0 THEN a ELSE delclold(g[n - 1])]
               /\ MakeRoom(a, d) = g[d]
  BY <1>1, RoomDefined
<1> DEFINE Good(n) == /\ Sane(g[n]) /\ Left(a, g[n]) /\ Len(g[n]) = Len(a) - n
                      /\ Used(g[n]) + n * CL_HDLEN <= Used(a)
                      /\ \A i, j \in DOMAIN a :
                            Has(g[n], a[i].yomi) /\ ~Has(g[n], a[j].yomi)
                                => a[i].num < a[j].num
           T == {n \in Nat : n <= Len(a) => Good(n)}
<1>3. 0 \in T
  <2>1. g[0] = a
    BY <1>1, <1>2
  <2>2. \A j \in DOMAIN a : Has(a, a[j].yomi)
    BY DEF Has
  <2>3. Good(0)
    <3>1. Used(a) \in Nat /\ 0 * CL_HDLEN = 0
      BY SaneFacts DEF CL_HDLEN
    <3> QED
      BY <1>1, <2>1, <2>2, <3>1, LeftRefl
  <2> HIDE DEF Good
  <2> QED
    BY <2>3
<1>4. ASSUME NEW n \in T PROVE n + 1 \in T
  <2> SUFFICES ASSUME n + 1 <= Len(a) PROVE Good(n + 1)
    OBVIOUS
  <2> HIDE DEF Good
  <2>0. n \in Nat /\ (n <= Len(a) => Good(n))
    OBVIOUS
  <2> HIDE DEF T
  <2>1. n \in Nat /\ n <= Len(a) /\ n < Len(a) /\ Good(n)
    BY <1>1, <2>0
  <2>2. g[n + 1] = delclold(g[n])
    <3>1. n + 1 \in 0..Len(a) /\ n + 1 # 0 /\ (n + 1) - 1 = n
      BY <1>1, <2>1
    <3>2. g[n + 1] = delclold(g[(n + 1) - 1])
      BY <1>2, <3>1
    <3> QED
      BY <3>1, <3>2
  <2> PICK b, c : b = g[n] /\ c = g[n + 1]
    OBVIOUS
  <2>3. /\ Sane(b) /\ Left(a, b) /\ Len(b) = Len(a) - n /\ Len(b) # 0
        /\ Used(b) + n * CL_HDLEN <= Used(a)
        /\ \A i, j \in DOMAIN a :
              Has(b, a[i].yomi) /\ ~Has(b, a[j].yomi) => a[i].num < a[j].num
    <3>1. Len(g[n]) = Len(a) - n
      BY <2>1 DEF Good
    <3>2. PICK l \in Nat : l = Len(a)
      BY <1>1
    <3>3. l - n # 0
      BY <2>1, <3>2
    <3> QED
      BY <2>1, <3>1, <3>2, <3>3 DEF Good
  <2>4. PICK k \in DOMAIN b : c = delclsub(b, k) /\ \A j \in DOMAIN b : b[j].num <= b[k].num
    BY <2>2, <2>3, Oldest
  <2>5. /\ Sane(c) /\ Left(b, c) /\ Len(c) = Len(b) - 1
        /\ \A z : Has(c, z) <=> Has(b, z) /\ z # b[k].yomi
        /\ Used(c) \in Nat /\ Used(c) + CL_HDLEN <= Used(b)
    BY <2>3, <2>4, DeletedSane
  <2>6. Left(a, c) /\ Len(c) = Len(a) - (n + 1)
    <3>1. Left(a, c)
      BY <2>3, <2>5, LeftTrans
    <3>2. PICK l \in Nat : l = Len(a)
      BY <1>1
    <3>3. (l - n) - 1 = l - (n + 1)
      BY <2>1, <3>2
    <3>4. Len(c) = Len(a) - (n + 1)
      BY <2>3, <2>5, <3>2, <3>3
    <3> QED
      BY <3>1, <3>4
  <2>7. ASSUME NEW i \in DOMAIN a, NEW j \in DOMAIN a, Has(c, a[i].yomi), ~Has(c, a[j].yomi)
        PROVE  a[i].num < a[j].num
    <3>1. Has(b, a[i].yomi) /\ a[i].yomi # b[k].yomi
      BY <2>5, <2>7
    <3>2. CASE ~Has(b, a[j].yomi)
      BY <2>3, <3>1, <3>2
    <3>3. CASE Has(b, a[j].yomi)
      <4>1. a[j].yomi = b[k].yomi
        BY <2>5, <2>7, <3>3
      <4>2. PICK m \in DOMAIN b : b[m].yomi = a[i].yomi
        BY <3>1 DEF Has
      <4>3. b[m].num < b[k].num
        <5>1. m # k
          BY <3>1, <4>2
        <5>2. b[m].num # b[k].num /\ b[m].num \in 1..Len(b) /\ b[k].num \in 1..Len(b)
          BY <2>3, <5>1 DEF Sane, Numbered
        <5> QED
          BY <2>4, <5>2
      <4> QED
        BY <2>3, <4>1, <4>2, <4>3 DEF Left
    <3> QED
      BY <3>2, <3>3
  <2>8. Used(c) + (n + 1) * CL_HDLEN <= Used(a)
    <3>1. Used(a) \in Nat /\ Used(b) \in Nat
      BY <2>3, SaneFacts
    <3> QED
      BY <2>1, <2>3, <2>5, <3>1 DEF CL_HDLEN
  <2>9. g[n + 1] = c
    OBVIOUS
  <2> QED
    BY <2>5, <2>6, <2>7, <2>8, <2>9 DEF Good
<1>5. T \subseteq Nat
  OBVIOUS
<1> HIDE DEF T
<1>6. T = Nat
  BY <1>3, <1>4, <1>5, SetInduction
<1>7. Good(d)
  <2>1. d \in Nat /\ d <= Len(a)
    BY <1>1
  <2> HIDE DEF Good
  <2> QED
    BY <1>6, <2>1 DEF T
<1> QED
  BY <1>2, <1>7

LEMMA HowMany ==
    ASSUME NEW a, Len(a) \in Nat, NEW blen, NEW alen
    PROVE  Deletions(a, blen, alen) \in 0..Len(a)
<1> DEFINE enough == {n \in 0..Len(a) : blen + n * CL_HDLEN >= alen}
<1>1. enough \subseteq Nat /\ enough \subseteq 0..Len(a)
  OBVIOUS
<1>2. Deletions(a, blen, alen) = IF enough = {} THEN Len(a)
                                 ELSE CHOOSE n \in enough : \A m \in enough : n <= m
  BY DEF Deletions
<1> HIDE DEF enough
<1>3. CASE enough = {}
  BY <1>2, <1>3
<1>4. CASE enough # {}
  <2>1. \E n \in enough : \A m \in enough : n <= m
    BY <1>1, <1>4, LeastNatural
  <2> QED
    BY <1>1, <1>2, <1>4, <2>1
<1> QED
  BY <1>3, <1>4

----------------------------------------------------------------------------
(* Insertion *)

\* No block of a starts y or is started by it.
Unrelated(a, y) == \A k \in DOMAIN a : ~Related(y, a[k])

\* The order of srchclpos, of readings neither of which starts the other.
LEMMA BeforeIsOver ==
    ASSUME NEW x \in Yomi, NEW y \in Yomi, ~IsPrefix(x, y)
    PROVE  Before(x, y) <=> Over(x, y)
<1>1. Len(x) \in Nat /\ Len(y) \in Nat
  BY Codes
<1>2. ASSUME Over(x, y) PROVE Before(x, y)
  BY <1>1, <1>2 DEF Over, Before
<1>3. ASSUME NEW k \in 1..Len(y), k <= Len(x) + 1, SubSeq(x, 1, k - 1) = SubSeq(y, 1, k - 1),
             k <= Len(x) => x[k] < y[k]
      PROVE  Over(x, y)
  <2>1. CASE k <= Len(x)
    BY <1>3, <2>1 DEF Over
  <2>2. CASE ~(k <= Len(x))
    <3>1. k - 1 = Len(x) /\ Len(x) <= Len(y)
      BY <1>1, <1>3, <2>2
    <3>2. \A i \in 1..Len(x) : x[i] = y[i]
      BY <1>1, <1>3, <3>1, SameFront
    <3> QED
      BY <3>1, <3>2, Prefix
  <2> QED
    BY <2>1, <2>2
<1> QED
  BY <1>2, <1>3 DEF Before

\* srchclpos finds the place that keeps the readings in order.
LEMMA SearchedPlace ==
    ASSUME NEW a, Sane(a), NEW y \in Yomi, Unrelated(a, y)
    PROVE  /\ srchclpos(a, y) \in 1..(Len(a) + 1)
           /\ \A k \in DOMAIN a : IF k < srchclpos(a, y) THEN Over(a[k].yomi, y)
                                                       ELSE Over(y, a[k].yomi)
<1> DEFINE later == {k \in DOMAIN a : Before(y, a[k].yomi)}
           p == srchclpos(a, y)
<1>1. Len(a) \in Nat /\ DOMAIN a = 1..Len(a) /\ \A k \in DOMAIN a : a[k].yomi \in Yomi
  BY SaneFacts
<1>2. \A k \in DOMAIN a : ~IsPrefix(y, a[k].yomi) /\ ~IsPrefix(a[k].yomi, y)
  BY DEF Unrelated, Related
<1>3. \A k \in DOMAIN a : k \in later <=> Over(y, a[k].yomi)
  BY <1>1, <1>2, BeforeIsOver
<1>4. \A k \in DOMAIN a : k \notin later => Over(a[k].yomi, y)
  BY <1>1, <1>2, <1>3, Trichotomy
<1>5. later \subseteq Nat /\ later \subseteq 1..Len(a)
  BY <1>1
<1>6. p = IF later = {} THEN Len(a) + 1 ELSE CHOOSE k \in later : \A j \in later : k <= j
  BY DEF srchclpos
<1> HIDE DEF later, p
<1>7. CASE later = {}
  <2>1. p = Len(a) + 1
    BY <1>6, <1>7
  <2>2. p \in 1..(Len(a) + 1) /\ \A k \in DOMAIN a : k < p
    BY <1>1, <2>1
  <2> QED
    BY <1>4, <1>7, <2>2 DEF p
<1>8. CASE later # {}
  <2>1. \E k \in later : \A j \in later : k <= j
    BY <1>5, <1>8, LeastNatural
  <2>2. p \in later /\ \A j \in later : p <= j
    BY <1>6, <1>8, <2>1
  <2>3. p \in 1..Len(a) /\ p \in 1..(Len(a) + 1) /\ p \in DOMAIN a
    BY <1>1, <1>5, <2>2
  <2>4. ASSUME NEW k \in DOMAIN a, k < p PROVE Over(a[k].yomi, y)
    <3>1. k \notin later
      BY <1>1, <2>2, <2>3, <2>4
    <3> QED
      BY <1>4, <3>1
  <2>5. ASSUME NEW k \in DOMAIN a, ~(k < p) PROVE Over(y, a[k].yomi)
    <3>1. Over(y, a[p].yomi)
      BY <1>3, <2>2, <2>3
    <3>2. k = p \/ p < k
      BY <1>1, <2>3, <2>5
    <3>3. p < k => Over(a[p].yomi, a[k].yomi)
      BY <2>3 DEF Sane, Sorted
    <3> QED
      BY <1>1, <2>3, <3>1, <3>2, <3>3, OverTransitive
  <2> QED
    BY <2>3, <2>4, <2>5 DEF p
<1> QED
  BY <1>7, <1>8

\* The new block has number 1, the others are one older.
LEMMA InsertSane ==
    ASSUME NEW a, Sane(a), NEW e \in Block, e.num = 1, Unrelated(a, e.yomi)
    PROVE  LET b == Insert(a, e)
           IN  /\ Sane(b)
               /\ \A i \in DOMAIN b :
                     \/ b[i] = e
                     \/ \E k \in DOMAIN a : b[i].yomi = a[k].yomi /\ b[i].num = a[k].num + 1
               /\ \A k \in DOMAIN a : Has(b, a[k].yomi)
               /\ \E i \in DOMAIN b : b[i] = e
               /\ Used(b) = Used(a) + ClBlkLen(e)
<1> DEFINE o == [i \in DOMAIN a |-> [a[i] EXCEPT !.num = @ + 1]]
           p == srchclpos(a, e.yomi)
           b == Insert(a, e)
<1>0. /\ p \in 1..(Len(a) + 1) /\ e.yomi \in Yomi
      /\ \A k \in DOMAIN a : IF k < p THEN Over(a[k].yomi, e.yomi) ELSE Over(e.yomi, a[k].yomi)
  <2>1. e.yomi \in Yomi
    BY DEF Block
  <2> QED
    BY <2>1, SearchedPlace
<1>1. a \in Seq(Block) /\ Len(a) \in Nat /\ DOMAIN a = 1..Len(a) /\ p \in 1..(Len(a) + 1)
  BY <1>0, SaneFacts
<1>2. \A i \in 1..Len(a) : /\ o[i] \in Block /\ o[i].yomi = a[i].yomi
                          /\ o[i].num = a[i].num + 1
  <2> SUFFICES ASSUME NEW i \in 1..Len(a)
               PROVE  o[i] \in Block /\ o[i].yomi = a[i].yomi /\ o[i].num = a[i].num + 1
    OBVIOUS
  <2>1. a[i] \in Block /\ o[i] = [a[i] EXCEPT !.num = @ + 1]
    BY <1>1
  <2> QED
    BY <2>1 DEF Block
<1>3. o \in Seq(Block) /\ Len(o) = Len(a)
  <2>1. o \in [1..Len(a) -> Block]
    BY <1>1, <1>2
  <2> QED
    BY <1>1, <2>1, SeqDef, LenProperties
<1>4. b = InsertAt(o, p, e)
  BY DEF Insert
<1> HIDE DEF o, p, b
<1>5. /\ b \in Seq(Block) /\ Len(b) = Len(a) + 1 /\ DOMAIN b = 1..(Len(a) + 1)
      /\ \A i \in 1..(Len(a) + 1) :
            b[i] = IF i < p THEN o[i] ELSE IF i = p THEN e ELSE o[i - 1]
  <2>1. /\ InsertAt(o, p, e) \in Seq(Block) /\ Len(InsertAt(o, p, e)) = Len(o) + 1
        /\ \A i \in 1..(Len(o) + 1) :
              InsertAt(o, p, e)[i] = IF i < p THEN o[i] ELSE IF i = p THEN e ELSE o[i - 1]
    <3>1. p \in 1..(Len(o) + 1)
      BY <1>1, <1>3
    <3>2. o \in Seq(Block) /\ e \in Block
      BY <1>3
    <3>3. \A x : x = InsertAt(o, p, e) =>
             /\ x \in Seq(Block) /\ Len(x) = Len(o) + 1
             /\ \A i \in 1..(Len(o) + 1) :
                   x[i] = IF i < p THEN o[i] ELSE IF i = p THEN e ELSE o[i - 1]
      BY <3>1, <3>2, Inserted
    <3> QED
      BY <3>3
  <2> QED
    BY <1>1, <1>3, <1>4, <2>1
<1>6. b[p] = e /\ p \in DOMAIN b
  BY <1>1, <1>5
<1>7. \A k \in DOMAIN a : /\ Place(p, k) \in DOMAIN b \ {p}
                         /\ b[Place(p, k)].yomi = a[k].yomi
                         /\ b[Place(p, k)].num = a[k].num + 1
  <2> SUFFICES ASSUME NEW k \in 1..Len(a)
               PROVE  Place(p, k) \in DOMAIN b \ {p} /\ b[Place(p, k)] = o[k]
    BY <1>1, <1>2
  <2>1. CASE k < p
    BY <1>1, <1>5, <2>1 DEF Place
  <2>2. CASE k >= p
    <3>1. k + 1 \in 1..(Len(a) + 1) /\ ~(k + 1 < p) /\ k + 1 # p /\ (k + 1) - 1 = k
      BY <1>1, <2>2
    <3>2. b[k + 1] = o[(k + 1) - 1]
      BY <1>5, <3>1
    <3>3. Place(p, k) = k + 1
      BY <1>1, <2>2 DEF Place
    <3> QED
      BY <1>5, <3>1, <3>2, <3>3
  <2> QED
    BY <1>1, <2>1, <2>2
<1>8. \A i \in DOMAIN b : i = p \/ \E k \in DOMAIN a : i = Place(p, k)
  <2> SUFFICES ASSUME NEW i \in 1..(Len(a) + 1), i # p
               PROVE  \E k \in 1..Len(a) : i = Place(p, k)
    BY <1>1, <1>5
  <2>1. CASE i < p
    <3>1. i \in 1..Len(a) /\ i = Place(p, i)
      BY <1>1, <2>1 DEF Place
    <3> QED
      BY <3>1
  <2>2. CASE i > p
    <3>1. i - 1 \in 1..Len(a) /\ i = Place(p, i - 1)
      BY <1>1, <2>2 DEF Place
    <3> QED
      BY <3>1
  <2> QED
    BY <1>1, <2>1, <2>2
<1>9. \A k \in DOMAIN a : a[k].num \in 1..Len(a)
  BY DEF Sane, Numbered
<1>10. \A i \in DOMAIN b : b[i].num \in 1..Len(b)
  <2>1. \A k \in DOMAIN a : a[k].num + 1 \in 1..Len(b) /\ 1 \in 1..Len(b)
    BY <1>1, <1>5, <1>9
  <2>2. 1 \in 1..Len(b)
    BY <1>1, <1>5
  <2> QED
    BY <1>6, <1>7, <1>8, <2>1, <2>2
<1>11. ASSUME NEW n \in 1..Len(b) PROVE \E i \in DOMAIN b : b[i].num = n
  <2>1. CASE n = 1
    BY <1>6, <2>1
  <2>2. CASE n # 1
    <3>1. n - 1 \in 1..Len(a) /\ (n - 1) + 1 = n
      BY <1>1, <1>5, <2>2
    <3>2. PICK k \in DOMAIN a : a[k].num = n - 1
      BY <3>1 DEF Sane, Numbered
    <3>3. b[Place(p, k)].num = n
      BY <1>7, <3>1, <3>2
    <3> QED
      BY <1>7, <3>3
  <2> QED
    BY <2>1, <2>2
<1>12. ASSUME NEW i \in DOMAIN b, NEW j \in DOMAIN b, b[i].num = b[j].num
       PROVE  i = j
  <2>1. \A k \in DOMAIN a : b[Place(p, k)].num # 1
    BY <1>7, <1>9
  <2>2. CASE i = p \/ j = p
    BY <1>6, <1>8, <1>12, <2>1, <2>2
  <2>3. CASE i # p /\ j # p
    <3>1. PICK k \in DOMAIN a : i = Place(p, k)
      BY <1>8, <2>3
    <3>2. PICK l \in DOMAIN a : j = Place(p, l)
      BY <1>8, <2>3
    <3>3. a[k].num + 1 = a[l].num + 1
      BY <1>7, <1>12, <3>1, <3>2
    <3>4. a[k].num = a[l].num
      BY <1>9, <3>3
    <3>5. k = l
      BY <3>4 DEF Sane, Numbered
    <3> QED
      BY <3>1, <3>2, <3>5
  <2> QED
    BY <2>2, <2>3
<1>13. Sane(b)
  <2>1. ASSUME NEW i \in DOMAIN b, NEW j \in DOMAIN b, i < j
        PROVE  Over(b[i].yomi, b[j].yomi)
    <3>1. CASE i = p
      <4>1. PICK l \in DOMAIN a : j = Place(p, l)
        BY <1>1, <1>5, <1>8, <2>1, <3>1
      <4>2. ~(l < p)
        BY <1>1, <2>1, <3>1, <4>1 DEF Place
      <4> QED
        BY <1>0, <1>6, <1>7, <3>1, <4>1, <4>2
    <3>2. CASE j = p
      <4>1. PICK k \in DOMAIN a : i = Place(p, k)
        BY <1>1, <1>5, <1>8, <2>1, <3>2
      <4>2. k < p
        BY <1>1, <2>1, <3>2, <4>1 DEF Place
      <4> QED
        BY <1>0, <1>6, <1>7, <3>2, <4>1, <4>2
    <3>3. CASE i # p /\ j # p
      <4>1. PICK k \in DOMAIN a : i = Place(p, k)
        BY <1>8, <3>3
      <4>2. PICK l \in DOMAIN a : j = Place(p, l)
        BY <1>8, <3>3
      <4>3. k < l
        BY <1>1, <2>1, <4>1, <4>2 DEF Place
      <4>4. Over(a[k].yomi, a[l].yomi)
        BY <4>3 DEF Sane, Sorted
      <4> QED
        BY <1>7, <4>1, <4>2, <4>4
    <3> QED
      BY <3>1, <3>2, <3>3
  <2> QED
    BY <1>5, <1>10, <1>11, <1>12, <2>1 DEF Sane, Numbered, Sorted
<1>14. \A i \in DOMAIN b :
          \/ b[i] = e
          \/ \E k \in DOMAIN a : b[i].yomi = a[k].yomi /\ b[i].num = a[k].num + 1
  BY <1>6, <1>7, <1>8
<1>15. \A k \in DOMAIN a : Has(b, a[k].yomi)
  BY <1>7 DEF Has
<1>16. Used(b) = Used(a) + ClBlkLen(e)
  <2>1. /\ p \in 1..Len(b) /\ Len(a) = Len(b) - 1
        /\ \A i \in 1..Len(a) : a[i].yomi = b[Place(p, i)].yomi
    BY <1>1, <1>5, <1>7
  <2> QED
    BY <1>1, <1>5, <1>6, <2>1, OneMore
<1> QED
  BY <1>6, <1>13, <1>14, <1>15, <1>16 DEF b

----------------------------------------------------------------------------
(* The steps *)

LEMMA InitInv == Init => Inv
<1> SUFFICES ASSUME Init PROVE Inv
  OBVIOUS
<1>1. <<>> \in Seq(Block) /\ Len(<<>>) = 0 /\ DOMAIN <<>> = {} /\ 1..0 = {}
  OBVIOUS
<1>2. Sane(<<>>)
  BY <1>1 DEF Sane, Numbered, Sorted
<1>3. Fits(<<>>)
  <2>1. ClNextTag(<<>>, 0) = 0
    BY <1>1, Tags
  <2> QED
    BY <1>1, <2>1, ConstantsAssumption DEF Fits, Used
<1>4. /\ area = <<>> /\ file.area = area /\ file.idx = idx /\ writing = "none"
      /\ DOMAIN file = {"area", "idx", "torn"} /\ ret = "none"
  BY DEF Init
<1> QED
  BY <1>2, <1>3, <1>4 DEF Inv, Written, Tables, Indexed, Reported

LEMMA ChangedInv ==
    ASSUME Inv, NEW a, Sane(a), Fits(a), Changed(a),
           ret' = "NormEnd" /\ learned' # NoBlock => \E k \in DOMAIN a : a[k] = learned'
    PROVE  Inv'
<1>1. /\ area' = a /\ writing' = "both" /\ file' = file
      /\ idx' = mkclidx(a) /\ torn' = FALSE
  BY DEF Changed
<1>2. Sane(area') /\ Sane(file'.area)
  BY <1>1 DEF Inv
<1>3. Written'
  BY <1>1 DEF Inv, Written
<1>4. Tables'
  BY <1>1 DEF Inv, Tables, Indexed
<1>5. Reported'
  BY <1>1 DEF Reported
<1> QED
  BY <1>2, <1>3, <1>4, <1>5 DEF Inv

\* A clause that is learned: what was there and is not related is kept or makes
\* room, and the new block is beside what is left, unless nothing is.
LEMMA Learned ==
    ASSUME Inv, NEW y1, NEW y2, <<y1, y2>> \in Clauses, NEW g \in Gram, clstudy(y1, y2, g),
           writing' # "none"
    PROVE  \E kept, room, e :
              /\ Sane(kept) /\ Left(area, kept)
              /\ \A j \in DOMAIN area : Has(kept, area[j].yomi) <=> ~Related(e.yomi, area[j])
              /\ Sane(room) /\ Left(kept, room) /\ Unrelated(room, e.yomi) /\ Fits(room)
              /\ \A i, j \in DOMAIN kept :
                    Has(room, kept[i].yomi) /\ ~Has(room, kept[j].yomi)
                        => kept[i].num < kept[j].num
              /\ e \in Block /\ e.num = 1 /\ learned' = e
              /\ \/ Changed(Insert(room, e)) /\ Used(room) + ClBlkLen(e) < AreaLen
                 \/ Changed(room) /\ Len(room) = 0 /\ ret' = "NoArea"
<1> DEFINE y == y1 \o y2
           alen == Len(y) + CL_HDLEN
           kept == delcldata(area, y)
           blen == AreaLen - Used(kept) - 1
           d == Deletions(kept, blen, alen)
           room == MakeRoom(kept, d)
           fits == blen + d * CL_HDLEN >= alen
           e == [yomi |-> y, y1len |-> Len(y1), gram |-> g, num |-> 1]
<1>1. y1 \in Seq(Chars) /\ y2 \in Seq(Chars) /\ y1 # <<>>
  BY ConstantsAssumption
<1>2. y \in Yomi
  <2>1. Len(y1) \in Nat /\ Len(y1) # 0 /\ Len(y2) \in Nat
    BY <1>1
  <2>2. y \in Seq(Chars) /\ Len(y) = Len(y1) + Len(y2)
    BY <1>1
  <2> HIDE DEF y
  <2>3. Len(y) # 0
    BY <2>1, <2>2
  <2>4. y # <<>>
    BY <2>3
  <2> QED
    BY <2>2, <2>4 DEF Yomi
<1>3. e \in Block /\ e.num = 1 /\ e.yomi = y
  <2>1. Len(y1) \in Nat
    BY <1>1
  <2> HIDE DEF y
  <2> QED
    BY <1>2, <2>1 DEF Block
<1>4. Sane(area) /\ Fits(area)
  BY DEF Inv, Tables
<1>5. /\ Sane(kept) /\ Left(area, kept) /\ Used(kept) <= Used(area)
      /\ \A j \in DOMAIN area : Has(kept, area[j].yomi) <=> ~Related(y, area[j])
  <2> HIDE DEF y
  <2> QED
    BY <1>4, OthersStay
<1>6. learned' = e /\ Changed(IF fits THEN Insert(room, e) ELSE room)
      /\ ret' = IF fits THEN "NormEnd" ELSE "NoArea"
  BY DEF clstudy
<1>7. ~fits => d = Len(kept)
  BY DEF Deletions
<1>8. ClBlkLen(e) = alen
  BY DEF ClBlkLen
<1>9. Len(y) \in Nat
  BY <1>2, Codes
<1> HIDE DEF y
<1> PICK n : n = alen
  OBVIOUS
<1>10. n \in Nat /\ alen = n
  BY <1>9 DEF CL_HDLEN
<1>11. Len(kept) \in Nat /\ Used(kept) \in Nat /\ Used(area) \in Nat /\ AreaLen \in Nat
  BY <1>4, <1>5, SaneFacts, ConstantsAssumption
<1> HIDE DEF kept, alen
<1>12. d \in 0..Len(kept)
  BY <1>11, HowMany
<1> HIDE DEF d
<1>13. /\ Sane(room) /\ Left(kept, room) /\ Len(room) = Len(kept) - d
       /\ Used(room) + d * CL_HDLEN <= Used(kept)
       /\ \A i, j \in DOMAIN kept :
             Has(room, kept[i].yomi) /\ ~Has(room, kept[j].yomi)
                 => kept[i].num < kept[j].num
  BY <1>5, <1>12, RoomMade
<1> HIDE DEF room
<1>14. Unrelated(room, y)
  <2> SUFFICES ASSUME NEW m \in DOMAIN room, Related(y, room[m]) PROVE FALSE
    BY DEF Unrelated
  <2>1. Has(kept, room[m].yomi)
    BY <1>13 DEF Left
  <2>2. PICK j \in DOMAIN area : area[j].yomi = room[m].yomi
    BY <1>5, <2>1 DEF Left, Has
  <2>3. Related(y, area[j])
    BY <2>2 DEF Related
  <2> QED
    BY <1>5, <2>1, <2>2, <2>3
<1>15. Used(room) \in Nat
  BY <1>13, SaneFacts
<1>16. Fits(room)
  BY <1>4, <1>5, <1>11, <1>12, <1>13, <1>15 DEF Fits, CL_HDLEN
<1>17. fits => Used(room) + ClBlkLen(e) < AreaLen
  <2> SUFFICES ASSUME fits PROVE Used(room) + n < AreaLen
    BY <1>8, <1>10
  <2>1. AreaLen - Used(kept) - 1 + d * CL_HDLEN >= n
    BY <1>10
  <2> HIDE DEF fits
  <2> QED
    BY <1>10, <1>11, <1>12, <1>13, <1>15, <2>1 DEF CL_HDLEN
<1>18. ~fits => Len(room) = 0
  BY <1>7, <1>11, <1>12, <1>13
<1> HIDE DEF fits, e
<1>19. \/ Changed(Insert(room, e)) /\ Used(room) + ClBlkLen(e) < AreaLen
       \/ Changed(room) /\ Len(room) = 0 /\ ret' = "NoArea"
  BY <1>6, <1>17, <1>18
<1> WITNESS kept, room, e
<1> QED
  BY <1>3, <1>5, <1>6, <1>13, <1>14, <1>16, <1>19

LEMMA clstudyInv ==
    ASSUME Inv, NEW y1, NEW y2, <<y1, y2>> \in Clauses, NEW g \in Gram, clstudy(y1, y2, g)
    PROVE  Inv'
<1>1. CASE writing' = "none"
  <2>1. UNCHANGED <<area, idx, file, writing, torn>> /\ ret' = "NoArea"
    BY <1>1 DEF clstudy, Changed
  <2> QED
    BY <2>1 DEF Inv, Written, Tables, Reported
<1>2. CASE writing' # "none"
  <2>1. PICK room, e :
           /\ Sane(room) /\ Unrelated(room, e.yomi) /\ Fits(room)
           /\ e \in Block /\ e.num = 1 /\ learned' = e
           /\ \/ Changed(Insert(room, e)) /\ Used(room) + ClBlkLen(e) < AreaLen
              \/ Changed(room) /\ Len(room) = 0 /\ ret' = "NoArea"
    BY <1>2, Learned
  <2>2. CASE Changed(Insert(room, e)) /\ Used(room) + ClBlkLen(e) < AreaLen
    <3> PICK b : b = Insert(room, e)
      OBVIOUS
    <3>1. Sane(b) /\ (\E i \in DOMAIN b : b[i] = e) /\ Used(b) = Used(room) + ClBlkLen(e)
      BY <2>1, InsertSane
    <3>2. Fits(b)
      BY <2>2, <3>1 DEF Fits
    <3> QED
      BY <2>1, <2>2, <3>1, <3>2, ChangedInv
  <2>3. CASE Changed(room) /\ ret' = "NoArea"
    BY <2>1, <2>3, ChangedInv
  <2> QED
    BY <2>1, <2>2, <2>3
<1> QED
  BY <1>1, <1>2

LEMMA forgetInv ==
    ASSUME Inv, NEW y, clstudy_del(y) \/ adddic(y)
    PROVE  Inv'
<1>1. Sane(area) /\ Used(area) < AreaLen /\ Used(area) \in Nat /\ AreaLen \in Nat
  BY SaneFacts, ConstantsAssumption DEF Inv, Tables, Fits
<1>2. CASE clstudy_del(y)
  <2> PICK b : b = delcldata(area, y)
    OBVIOUS
  <2>1. Sane(b) /\ Used(b) <= Used(area)
    BY <1>1, OthersStay
  <2>2. Fits(b)
    <3>1. Used(b) \in Nat
      BY <2>1, SaneFacts
    <3> QED
      BY <1>1, <2>1, <3>1 DEF Fits
  <2> QED
    BY <1>2, <2>1, <2>2, ChangedInv DEF clstudy_del
<1>3. CASE adddic(y)
  <2> DEFINE hit == {k \in DOMAIN area : IsPrefix(area[k].yomi, y)}
             k == CHOOSE i \in hit : \A j \in hit : i <= j
  <2>1. hit # {} /\ Changed(delclsub(area, k)) /\ learned' = NoBlock
    BY <1>3 DEF adddic
  <2>2. hit \subseteq DOMAIN area /\ hit \subseteq Nat
    BY <1>1 DEF Sane, Numbered
  <2> HIDE DEF hit
  <2>3. k \in hit
    BY <2>1, <2>2, LeastNatural
  <2> HIDE DEF k
  <2> PICK b : b = delclsub(area, k)
    OBVIOUS
  <2>4. Sane(b) /\ Used(b) \in Nat /\ Used(b) + CL_HDLEN <= Used(area)
    BY <1>1, <2>2, <2>3, DeletedSane
  <2>5. Fits(b)
    BY <1>1, <2>4 DEF Fits, CL_HDLEN
  <2> QED
    BY <2>1, <2>4, <2>5, ChangedInv
<1> QED
  BY <1>2, <1>3

LEMMA NextInv ==
    ASSUME Inv, [Next]_vars
    PROVE  Inv'
<1>1. CASE \E c \in Clauses, g \in Gram : clstudy(c[1], c[2], g)
  <2>1. PICK c \in Clauses, g \in Gram : clstudy(c[1], c[2], g)
    BY <1>1
  <2>2. <<c[1], c[2]>> \in Clauses
    BY ConstantsAssumption
  <2> QED
    BY <2>1, <2>2, clstudyInv
<1>2. CASE \E y \in Words : clstudy_del(y) \/ adddic(y)
  BY <1>2, forgetInv
<1>3. CASE putcldic_idx
  <2>1. /\ UNCHANGED <<area, idx, ret, learned, torn>> /\ writing' = "area" /\ writing = "both"
        /\ file' = [file EXCEPT !.idx = idx, !.torn = TRUE]
    BY <1>3 DEF putcldic_idx
  <2>2. /\ file'.area = file.area /\ file'.idx = idx /\ file'.torn
        /\ DOMAIN file' = {"area", "idx", "torn"}
    BY <2>1 DEF Inv, Written
  <2> QED
    BY <2>1, <2>2 DEF Inv, Written, Tables, Reported
<1>4. CASE putcldic_area
  <2>1. /\ UNCHANGED <<area, idx, ret, learned, torn>> /\ writing' = "none" /\ writing = "area"
        /\ file' = [file EXCEPT !.area = area, !.torn = FALSE]
    BY <1>4 DEF putcldic_area
  <2>2. /\ file'.area = area /\ file'.idx = file.idx
        /\ DOMAIN file' = {"area", "idx", "torn"}
    BY <2>1 DEF Inv, Written
  <2> QED
    BY <2>1, <2>2 DEF Inv, Written, Tables, Reported
<1>5. CASE Restart
  <2>1. /\ area' = file.area /\ idx' = file.idx /\ torn' = file.torn /\ writing' = "none"
        /\ ret' = "none" /\ file' = file
    BY <1>5 DEF Restart
  <2> QED
    BY <2>1 DEF Inv, Written, Tables, Reported
<1>6. CASE UNCHANGED vars
  BY <1>6 DEF vars, Inv, Written, Tables, Reported
<1> QED
  BY <1>1, <1>2, <1>3, <1>4, <1>5, <1>6 DEF Next, exec_clstudy

----------------------------------------------------------------------------
(* The lookup *)

\* The entry of a character is that of the Step characters it is among.
LEMMA Entry ==
    ASSUME NEW c \in Nat, c <= MAXCODE
    PROVE  /\ c \div Step \in Buckets /\ c \div Step \in Nat
           /\ (c \div Step) * Step <= c /\ c < (c \div Step + 1) * Step
<1>1. PICK s \in Nat \ {0} : s = Step
  BY ConstantsAssumption
<1>2. c \div s \in Nat /\ (c \div s) * s <= c /\ c < (c \div s + 1) * s
  BY <1>1
<1>3. MAXCODE \div s \in Nat /\ MAXCODE < (MAXCODE \div s + 1) * s
  BY <1>1 DEF MAXCODE
<1>4. c \div s <= MAXCODE \div s
  BY <1>1 DEF MAXCODE
<1> QED
  BY <1>1, <1>2, <1>3, <1>4 DEF Buckets

\* The table sends the scan of a text to a block that is not behind any block
\* the text starts with, and the scan passes all before that one.
LEMMA Reached ==
    ASSUME NEW a, Sane(a), NEW t \in Yomi, NEW k \in DOMAIN a, IsPrefix(a[k].yomi, t)
    PROVE  /\ mkclidx(a)[t[1] \div Step] # NoEntry
           /\ ClNextTag(a, k - 1) >= mkclidx(a)[t[1] \div Step]
           /\ \A j \in DOMAIN a : j <= k => ~Over(t, a[j].yomi)
<1> DEFINE b == t[1] \div Step
           ks == {j \in DOMAIN a : a[j].yomi[1] >= b * Step}
           m == CHOOSE i \in ks : \A j \in ks : i <= j
<1>1. /\ a \in Seq(Block) /\ Len(a) \in Nat /\ DOMAIN a = 1..Len(a)
      /\ \A j \in DOMAIN a : a[j].yomi \in Yomi
  BY SaneFacts
<1>2. \A j \in DOMAIN a : j <= k => a[j].yomi = a[k].yomi \/ Over(a[j].yomi, a[k].yomi)
  BY <1>1 DEF Sane, Sorted
<1>3. t[1] \in Nat /\ t[1] <= MAXCODE /\ \A j \in DOMAIN a : a[j].yomi[1] \in Nat
  <2>1. \A x \in Yomi : 1 \in 1..Len(x)
    BY Codes
  <2> QED
    BY <1>1, <2>1, Codes
<1>4. a[k].yomi[1] = t[1]
  <2>1. 1 \in 1..Len(a[k].yomi)
    BY <1>1, Codes
  <2> QED
    BY <1>1, <2>1, Prefix
<1>5. b \in Buckets /\ b * Step <= t[1] /\ t[1] < (b + 1) * Step
  BY <1>3, Entry
<1>6. mkclidx(a)[b] = IF ks = {} THEN NoEntry
                      ELSE IF a[m].yomi[1] < (b + 1) * Step THEN ClNextTag(a, m - 1)
                      ELSE NoEntry
  BY <1>5 DEF mkclidx
<1>7. b * Step \in Int /\ (b + 1) * Step \in Int
  BY <1>5, ConstantsAssumption DEF Buckets
<1> HIDE DEF b
<1>8. k \in ks /\ ks \subseteq Nat /\ ks \subseteq DOMAIN a
  BY <1>1, <1>4, <1>5
<1> HIDE DEF ks
<1>9. m \in ks /\ \A j \in ks : m <= j
  <2>1. \E i \in ks : \A j \in ks : i <= j
    BY <1>8, LeastNatural
  <2> QED
    BY <2>1
<1> HIDE DEF m
<1>10. m \in DOMAIN a /\ m <= k
  BY <1>8, <1>9
<1>11. a[m].yomi[1] <= t[1]
  <2>1. a[m].yomi = a[k].yomi \/ Over(a[m].yomi, a[k].yomi)
    BY <1>2, <1>10
  <2>2. a[m].yomi[1] <= a[k].yomi[1]
    BY <1>1, <1>3, <1>10, <2>1, OverIrreflexive
  <2> QED
    BY <1>4, <2>2
<1>12. a[m].yomi[1] < (b + 1) * Step
  <2>1. PICK e \in Int : e = (b + 1) * Step
    BY <1>7
  <2> QED
    BY <1>3, <1>5, <1>10, <1>11, <2>1
<1>13. mkclidx(a)[b] = ClNextTag(a, m - 1)
  BY <1>6, <1>8, <1>12
<1>14. m - 1 \in 0..Len(a) /\ k - 1 \in 0..Len(a) /\ m - 1 <= k - 1
  BY <1>1, <1>10
<1>15. ClNextTag(a, m - 1) \in Nat /\ ClNextTag(a, k - 1) \in Nat
  BY <1>1, <1>14, Tags
<1>16. ClNextTag(a, m - 1) <= ClNextTag(a, k - 1)
  BY <1>1, <1>14, TagsGrow
<1>17. mkclidx(a)[b] # NoEntry /\ ClNextTag(a, k - 1) >= mkclidx(a)[b]
  BY <1>13, <1>15, <1>16 DEF NoEntry
<1>18. \A j \in DOMAIN a : j <= k => ~Over(t, a[j].yomi)
  BY <1>1, <1>2, NotPassed
<1> QED
  BY <1>17, <1>18 DEF b

\* What dic_cl takes of the blocks it scans.
Starts(y, t) == IsPrefix(y, t) /\ ~(Len(t) > Len(y) /\ t[Len(y) + 1] \in Depend)

LEMMA LookedUp ==
    ASSUME Inv, ~torn, NEW t \in Yomi
    PROVE  dic_cl(t) = {area[k] : k \in {k \in DOMAIN area : Starts(area[k].yomi, t)}}
<1> DEFINE pos == idx[t[1] \div Step]
           from == {k \in DOMAIN area : pos # NoEntry /\ ClNextTag(area, k - 1) >= pos}
           scanned == {k \in from : \A j \in from : j <= k => ~Over(t, area[j].yomi)}
<1>1. Sane(area) /\ Indexed(area, idx)
  BY DEF Inv, Tables
<1>2. dic_cl(t) = {area[k] : k \in {k \in scanned : Starts(area[k].yomi, t)}}
  BY DEF dic_cl, Starts
<1>3. ASSUME NEW k \in DOMAIN area, Starts(area[k].yomi, t) PROVE k \in scanned
  <2>1. idx = mkclidx(area)
    BY <1>1, <1>3 DEF Indexed
  <2>2. IsPrefix(area[k].yomi, t)
    BY <1>3 DEF Starts
  <2>3. /\ pos # NoEntry /\ ClNextTag(area, k - 1) >= pos
        /\ \A j \in DOMAIN area : j <= k => ~Over(t, area[j].yomi)
    BY <1>1, <2>1, <2>2, Reached
  <2> HIDE DEF pos
  <2> QED
    BY <2>3
<1>4. scanned \subseteq DOMAIN area
  OBVIOUS
<1> HIDE DEF scanned
<1>5. {k \in scanned : Starts(area[k].yomi, t)} = {k \in DOMAIN area : Starts(area[k].yomi, t)}
  BY <1>3, <1>4
<1> QED
  BY <1>2, <1>5

----------------------------------------------------------------------------
(* The theorems *)

\* Whatever is learned, forgotten and evicted (clstudy.c), registered (adddic.c)
\* or read back after a stop, also one between the two writes of putcldic
\* (sdepend.c): outside of these writes the file has what the memory has, and
\* the numbers of the blocks are those from 1 to their count, so that delclold
\* finds the oldest by them.
THEOREM FileIsCurrent == Spec => []FileFollows
<1>1. Inv => FileFollows
  <2> SUFFICES ASSUME Inv PROVE FileFollows
    OBVIOUS
  <2>1. writing = "none" => file.area = area /\ file.idx = idx
    BY DEF Inv, Written
  <2>2. {area[k].num : k \in DOMAIN area} = 1..Len(area)
    BY DEF Inv, Sane, Numbered
  <2> QED
    BY <2>1, <2>2 DEF FileFollows
<1> QED
  BY <1>1, InitInv, NextInv, PTL DEF Spec

\* A text finds in the table and the area, whatever was learned, forgotten,
\* evicted or read back, just the blocks it starts with (dic_cl of mkjiritu.c),
\* unless the table is from a file left between the two writes of putcldic; what
\* clstudy reported as learned is the one block its reading finds; and the end
\* mark has its place (clstudy.c:85).
THEOREM LearnedIsFound == Spec => []LookupExact
<1>1. Inv => LookupExact
  <2> SUFFICES ASSUME Inv PROVE LookupExact
    OBVIOUS
  <2>1. ASSUME ~torn, NEW t \in Texts
        PROVE  dic_cl(t) =
                 {area[k] : k \in {k \in DOMAIN area :
                     IsPrefix(area[k].yomi, t)
                     /\ ~(/\ Len(t) > Len(area[k].yomi)
                          /\ t[Len(area[k].yomi) + 1] \in Depend)}}
    <3>1. t \in Yomi
      <4>1. PICK k \in 1..MaxText : t \in [1..k -> Chars]
        BY DEF Texts
      <4>2. k \in Nat \ {0}
        BY ConstantsAssumption
      <4>3. t \in Seq(Chars) /\ Len(t) = k
        BY <4>1, <4>2, SeqDef, LenProperties
      <4> QED
        BY <4>2, <4>3 DEF Yomi
    <3> QED
      BY <2>1, <3>1, LookedUp DEF Starts
  <2>2. ASSUME ret = "NormEnd", learned # NoBlock
        PROVE  dic_cl(learned.yomi) = {learned}
    <3>1. ~torn /\ Sane(area)
      BY <2>2 DEF Inv, Reported
    <3>2. PICK k \in DOMAIN area : area[k] = learned
      BY <2>2 DEF Inv, Reported
    <3> PICK y : y = learned.yomi
      OBVIOUS
    <3>3. y \in Yomi /\ \A j \in DOMAIN area : area[j].yomi \in Yomi
      BY <3>1, <3>2, SaneFacts
    <3>4. dic_cl(y) = {area[j] : j \in {j \in DOMAIN area : Starts(area[j].yomi, y)}}
      BY <3>1, <3>3, LookedUp
    <3>5. \A j \in DOMAIN area : Starts(area[j].yomi, y) => j = k
      <4> SUFFICES ASSUME NEW j \in DOMAIN area, IsPrefix(area[j].yomi, y), j # k PROVE FALSE
        BY DEF Starts
      <4>1. j < k \/ k < j
        BY <3>1, SaneFacts
      <4>2. Over(area[j].yomi, y) \/ Over(y, area[j].yomi)
        BY <3>1, <3>2, <4>1 DEF Sane, Sorted
      <4> QED
        BY <3>3, <4>2, OverIrreflexive
    <3>6. Starts(area[k].yomi, y)
      <4>1. area[k].yomi = y /\ Len(y) \in Nat
        BY <3>2, <3>3, Codes
      <4>2. IsPrefix(y, y)
        BY <3>3, <4>1, Prefix
      <4> QED
        BY <4>1, <4>2 DEF Starts
    <3>7. {j \in DOMAIN area : Starts(area[j].yomi, y)} = {k}
      BY <3>5, <3>6
    <3> QED
      BY <3>2, <3>4, <3>7
  <2>3. Used(area) < AreaLen
    BY DEF Inv, Tables, Fits
  <2> QED
    BY <2>1, <2>2, <2>3 DEF LookupExact
<1> QED
  BY <1>1, InitInv, NextInv, PTL DEF Spec

\* A block with the reading y that is not the new one, and its number.
Stays(b, y) == \E m \in DOMAIN b : b[m].yomi = y /\ b[m].num # 1
Age(b, y) == b[CHOOSE m \in DOMAIN b : b[m].yomi = y].num

LEMMA StaysInOrder ==
    ASSUME NEW room, Sane(room), NEW e \in Block, e.num = 1, Unrelated(room, e.yomi),
           NEW b, b = Insert(room, e), NEW y
    PROVE  /\ Stays(b, y) <=> Has(room, y)
           /\ Stays(b, y) =>
                 \E r \in DOMAIN room : room[r].yomi = y /\ Age(b, y) = room[r].num + 1
<1>1. /\ Sane(b)
      /\ \A i \in DOMAIN b :
            \/ b[i] = e
            \/ \E k \in DOMAIN room : b[i].yomi = room[k].yomi /\ b[i].num = room[k].num + 1
      /\ \A k \in DOMAIN room : Has(b, room[k].yomi)
  BY InsertSane
<1>0. ~Has(room, e.yomi)
  <2>1. e.yomi \in Yomi
    BY DEF Block
  <2>2. IsPrefix(e.yomi, e.yomi)
    BY <2>1, Codes, Prefix
  <2> QED
    BY <2>2 DEF Unrelated, Related, Has
<1>2. \A k \in DOMAIN room : room[k].num \in Nat \ {0}
  BY DEF Sane, Numbered
<1>3. ASSUME Stays(b, y) PROVE Has(room, y)
  <2>1. PICK m \in DOMAIN b : b[m].yomi = y /\ b[m].num # 1
    BY <1>3 DEF Stays
  <2> QED
    BY <1>1, <2>1 DEF Has
<1>4. ASSUME Has(room, y) PROVE Stays(b, y)
  <2>1. PICK m \in DOMAIN b : b[m].yomi = y
    BY <1>1, <1>4 DEF Has
  <2>2. b[m] # e
    BY <1>0, <1>4, <2>1
  <2>3. PICK k \in DOMAIN room : b[m].num = room[k].num + 1
    BY <1>1, <2>2
  <2>4. b[m].num # 1
    BY <1>2, <2>3
  <2> QED
    BY <2>1, <2>4 DEF Stays
<1>5. ASSUME Stays(b, y)
      PROVE  \E r \in DOMAIN room : room[r].yomi = y /\ Age(b, y) = room[r].num + 1
  <2> DEFINE c == CHOOSE m \in DOMAIN b : b[m].yomi = y
  <2>1. c \in DOMAIN b /\ b[c].yomi = y
    BY <1>5 DEF Stays
  <2>2. Age(b, y) = b[c].num
    BY DEF Age
  <2> HIDE DEF c
  <2>3. b[c] # e
    BY <1>0, <1>3, <1>5, <2>1
  <2> QED
    BY <1>1, <2>1, <2>2, <2>3
<1> QED
  BY <1>3, <1>4, <1>5

LEMMA RoomForLearned ==
    ASSUME Inv, NEW y1, NEW y2, <<y1, y2>> \in Clauses, NEW g \in Gram, clstudy(y1, y2, g),
           writing' # "none",
           NEW i \in DOMAIN area, NEW j \in DOMAIN area
    PROVE  /\ (/\ Stays(area', area[i].yomi) /\ ~Stays(area', area[j].yomi)
               /\ ~Related(learned'.yomi, area[j]))
              => area[i].num < area[j].num
           /\ (/\ Stays(area', area[i].yomi) /\ Stays(area', area[j].yomi)
               /\ area[i].num < area[j].num)
              => Age(area', area[i].yomi) < Age(area', area[j].yomi)
<1>1. PICK kept, room, e :
         /\ Sane(kept) /\ Left(area, kept)
         /\ \A k \in DOMAIN area : Has(kept, area[k].yomi) <=> ~Related(e.yomi, area[k])
         /\ Sane(room) /\ Left(kept, room) /\ Unrelated(room, e.yomi)
         /\ \A k, l \in DOMAIN kept :
               Has(room, kept[k].yomi) /\ ~Has(room, kept[l].yomi)
                   => kept[k].num < kept[l].num
         /\ e \in Block /\ e.num = 1 /\ learned' = e
         /\ \/ Changed(Insert(room, e))
            \/ Changed(room) /\ Len(room) = 0
  BY Learned
<1>2. PICK b : b = area'
  OBVIOUS
<1>3. CASE Changed(room) /\ Len(room) = 0
  <2>1. b = room /\ DOMAIN room = {}
    BY <1>1, <1>2, <1>3 DEF Changed, Sane, Numbered
  <2>2. ~Stays(b, area[i].yomi)
    BY <2>1 DEF Stays
  <2> QED
    BY <1>2, <2>2
<1>4. CASE Changed(Insert(room, e))
  <2>1. b = Insert(room, e)
    BY <1>2, <1>4 DEF Changed
  <2>2. \A y : Stays(b, y) <=> Has(room, y)
    BY <1>1, <2>1, StaysInOrder
  <2>3. ASSUME Has(room, area[i].yomi), ~Has(room, area[j].yomi), ~Related(e.yomi, area[j])
        PROVE  area[i].num < area[j].num
    <3>1. PICK k \in DOMAIN kept : kept[k].yomi = area[i].yomi
      BY <1>1, <2>3 DEF Left, Has
    <3>2. PICK l \in DOMAIN kept : kept[l].yomi = area[j].yomi
      BY <1>1, <2>3 DEF Has
    <3>3. kept[k].num < kept[l].num
      BY <1>1, <2>3, <3>1, <3>2
    <3> QED
      BY <1>1, <3>1, <3>2, <3>3 DEF Left
  <2>4. ASSUME Has(room, area[i].yomi), Has(room, area[j].yomi), area[i].num < area[j].num
        PROVE  Age(b, area[i].yomi) < Age(b, area[j].yomi)
    <3>1. PICK r \in DOMAIN room : /\ room[r].yomi = area[i].yomi
                                  /\ Age(b, area[i].yomi) = room[r].num + 1
      BY <1>1, <2>1, <2>4, StaysInOrder
    <3>2. PICK s \in DOMAIN room : /\ room[s].yomi = area[j].yomi
                                  /\ Age(b, area[j].yomi) = room[s].num + 1
      BY <1>1, <2>1, <2>4, StaysInOrder
    <3>3. Left(area, room)
      BY <1>1, LeftTrans
    <3>4. room[r].num < room[s].num
      BY <2>4, <3>1, <3>2, <3>3 DEF Left
    <3>5. room[r].num \in Nat /\ room[s].num \in Nat
      BY <1>1 DEF Sane, Numbered
    <3> QED
      BY <3>1, <3>2, <3>4, <3>5
  <2> QED
    BY <1>1, <1>2, <2>2, <2>3, <2>4
<1> QED
  BY <1>1, <1>3, <1>4

\* When room is made for a clause that is learned (clstudy.c:91), it is made by
\* the oldest blocks: one that is not related to the new one goes only if it is
\* older than all that stay, and these keep their order of age, in any area and
\* however often delclold was called.
THEOREM OldestMakeRoom == Spec => OldestGo
<1>1. ASSUME Inv, Next, learned' # NoBlock, writing = "none", writing' = "both"
      PROVE  \A i, j \in DOMAIN area :
                LET stays(k) == \E m \in DOMAIN area' :
                                    /\ area'[m].yomi = area[k].yomi
                                    /\ area'[m].num # 1
                    age(k) == area'[CHOOSE m \in DOMAIN area' :
                                        area'[m].yomi = area[k].yomi].num
                IN  /\ (/\ stays(i) /\ ~stays(j)
                        /\ ~Related(learned'.yomi, area[j]))
                       => area[i].num < area[j].num
                    /\ (stays(i) /\ stays(j) /\ area[i].num < area[j].num)
                       => age(i) < age(j)
  <2>1. PICK c \in Clauses, g \in Gram : clstudy(c[1], c[2], g)
    BY <1>1 DEF Next, exec_clstudy, clstudy_del, adddic, putcldic_idx, putcldic_area, Restart
  <2>2. <<c[1], c[2]>> \in Clauses
    BY ConstantsAssumption
  <2> SUFFICES ASSUME NEW i \in DOMAIN area, NEW j \in DOMAIN area
               PROVE  /\ (/\ Stays(area', area[i].yomi) /\ ~Stays(area', area[j].yomi)
                          /\ ~Related(learned'.yomi, area[j]))
                         => area[i].num < area[j].num
                      /\ (/\ Stays(area', area[i].yomi) /\ Stays(area', area[j].yomi)
                          /\ area[i].num < area[j].num)
                         => Age(area', area[i].yomi) < Age(area', area[j].yomi)
    BY DEF Stays, Age
  <2> QED
    BY <1>1, <2>1, <2>2, RoomForLearned
<1>2. Inv /\ [Next]_vars =>
        [learned' # NoBlock /\ writing = "none" /\ writing' = "both" =>
            \A i, j \in DOMAIN area :
                LET stays(k) == \E m \in DOMAIN area' :
                                    /\ area'[m].yomi = area[k].yomi
                                    /\ area'[m].num # 1
                    age(k) == area'[CHOOSE m \in DOMAIN area' :
                                        area'[m].yomi = area[k].yomi].num
                IN  /\ (/\ stays(i) /\ ~stays(j)
                        /\ ~Related(learned'.yomi, area[j]))
                       => area[i].num < area[j].num
                    /\ (stays(i) /\ stays(j) /\ area[i].num < area[j].num)
                       => age(i) < age(j)]_vars
  BY <1>1
<1> QED
  BY <1>2, InitInv, NextInv, PTL DEF Spec, OldestGo
=============================================================================
