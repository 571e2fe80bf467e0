----------------------------- MODULE RkcvProofs -----------------------------
(***************************************************************************)
(* Proofs about Rkcv for any letters and any rule files.                   *)
(***************************************************************************)
EXTENDS Rkcv, SequenceTheorems, NaturalsInduction, WellFoundedInduction, TLAPS

----------------------------------------------------------------------------
(* Induction over naturals, without operators *)

\* A set of naturals that is not empty has a least element.
LEMMA LeastNatural ==
    ASSUME NEW T, T \subseteq Nat, T # {}
    PROVE  \E x \in T : \A y \in T : x <= y
<1> DEFINE R == OpToRel(<, Nat)
<1>1. PICK x \in T : \A y \in T : <<y, x>> \notin R
  BY NatLessThanWellFounded, WFMin, Zenon
<1>2. \A y \in T : <<y, x>> \in R <=> y < x
  BY DEF OpToRel
<1> HIDE DEF R
<1>3. \A y \in T : ~(y < x)
  BY <1>1, <1>2
<1> QED
  BY <1>3

\* What holds of 0 and of a number's successor holds of all.
LEMMA SetInduction ==
    ASSUME NEW T, T \subseteq Nat, 0 \in T, \A n \in T : n + 1 \in T
    PROVE  T = Nat
<1> SUFFICES ASSUME Nat \ T # {} PROVE FALSE
  OBVIOUS
<1>1. PICK x \in Nat \ T : \A y \in Nat \ T : x <= y
  <2> DEFINE D == Nat \ T
  <2>1. D \subseteq Nat /\ D # {}
    OBVIOUS
  <2> HIDE DEF D
  <2>2. \E x \in D : \A y \in D : x <= y
    BY <2>1, LeastNatural
  <2> QED
    BY <2>2 DEF D
<1>2. x # 0 /\ x - 1 \in Nat /\ ~(x <= x - 1)
  BY <1>1
<1>3. x - 1 \in T
  BY <1>1, <1>2
<1>4. (x - 1) + 1 \in T
  BY <1>3
<1> QED
  BY <1>1, <1>4

\* A function that gives each value from the one before exists; what the step
\* makes of a count and a value is itself a function.
Iterates(g, S, a, m, step) ==
    g \in [0..m -> S] /\ g[0] = a /\ \A n \in 1..m : g[n] = step[<<n, g[n - 1]>>]

LEMMA Iterated ==
    ASSUME NEW S, NEW a \in S, NEW m \in Nat, NEW step \in [Nat \X S -> S]
    PROVE  \E g : Iterates(g, S, a, m, step)
<1> DEFINE Def(g, k) == /\ g \in [0..k -> S] /\ g[0] = a
                        /\ \A n \in 1..k : g[n] = step[<<n, g[n - 1]>>]
           T == {k \in Nat : \E g : Def(g, k)}
<1>1. 0 \in T
  <2>1. Def([n \in 0..0 |-> a], 0)
    OBVIOUS
  <2> HIDE DEF Def
  <2> QED
    BY <2>1
<1>2. ASSUME NEW k \in T PROVE k + 1 \in T
  <2>1. PICK g : Def(g, k)
    OBVIOUS
  <2>2. k \in Nat
    OBVIOUS
  <2> DEFINE v == step[<<k + 1, g[k]>>]
             h == [n \in 0..(k + 1) |-> IF n <= k THEN g[n] ELSE v]
  <2>3. v \in S
    BY <2>1, <2>2
  <2> HIDE DEF v
  <2>4. h \in [0..(k + 1) -> S] /\ h[0] = a
    BY <2>1, <2>2, <2>3
  <2>5. ASSUME NEW n \in 1..(k + 1) PROVE h[n] = step[<<n, h[n - 1]>>]
    <3>1. CASE n <= k
      <4>1. h[n] = g[n] /\ h[n - 1] = g[n - 1] /\ n \in 1..k
        BY <2>2, <3>1
      <4> HIDE DEF h
      <4> QED
        BY <2>1, <4>1
    <3>2. CASE n = k + 1
      <4>1. h[n] = v /\ h[n - 1] = g[k]
        BY <2>2, <3>2
      <4> HIDE DEF h
      <4> QED
        BY <3>2, <4>1 DEF v
    <3> QED
      BY <2>2, <3>1, <3>2
  <2> HIDE DEF h
  <2>6. Def(h, k + 1)
    BY <2>4, <2>5
  <2> HIDE DEF Def
  <2> QED
    BY <2>2, <2>6
<1>3. T \subseteq Nat
  OBVIOUS
<1> HIDE DEF T
<1>4. m \in T
  BY <1>1, <1>2, <1>3, SetInduction
<1> QED
  BY <1>4 DEF T, Iterates

LEMMA Joined ==
    ASSUME NEW S, NEW x \in Seq(S), NEW y \in Seq(S)
    PROVE  /\ x \o y \in Seq(S) /\ Len(x \o y) = Len(x) + Len(y)
           /\ \A i \in 1..Len(x) : (x \o y)[i] = x[i]
           /\ \A i \in 1..Len(y) : (x \o y)[Len(x) + i] = y[i]
OBVIOUS

\* e comes before the k-th element of s.
InsertedIn(new, s, k, e) ==
    LET n == Len(s)
    IN  /\ n \in Nat /\ Len(new) = n + 1 /\ new[k] = e
        /\ \A i \in 1..(n + 1) : i < k => i \in 1..n /\ new[i] = s[i]
        /\ \A i \in 1..(n + 1) : k < i => i - 1 \in 1..n /\ new[i] = s[i - 1]
        /\ \A i \in 1..n : ~(i < k) => i + 1 \in 1..(n + 1) /\ new[i + 1] = s[i]

LEMMA Inserted ==
    ASSUME NEW S, NEW s \in Seq(S), NEW k \in 1..(Len(s) + 1), NEW e \in S
    PROVE  InsertAt(s, k, e) \in Seq(S) /\ InsertedIn(InsertAt(s, k, e), s, k, e)
<1> DEFINE u == SubSeq(s, 1, k - 1)
           v == SubSeq(s, k, Len(s))
           w == u \o <<e>>
<1>1. u \in Seq(S) /\ Len(u) = k - 1 /\ \A i \in 1..(k - 1) : u[i] = s[i]
  OBVIOUS
<1>2. v \in Seq(S) /\ Len(v) = Len(s) - k + 1 /\ \A i \in 1..(Len(s) - k + 1) : v[i] = s[k + i - 1]
  OBVIOUS
<1>3. InsertAt(s, k, e) = w \o v
  BY DEF InsertAt
<1> HIDE DEF u, v
<1>4. w \in Seq(S) /\ Len(w) = k /\ \A i \in 1..k : w[i] = IF i < k THEN s[i] ELSE e
  <2> PICK l \in Nat : l = k - 1
    OBVIOUS
  <2>1. <<e>> \in Seq(S) /\ Len(<<e>>) = 1 /\ <<e>>[1] = e
    OBVIOUS
  <2>2. w \in Seq(S) /\ Len(w) = l + 1
    BY <1>1, <2>1
  <2>3. \A i \in 1..l : w[i] = u[i]
    BY <1>1, <2>1
  <2>4. w[l + 1] = e
    BY <1>1, <2>1
  <2>5. \A i \in 1..k : w[i] = IF i < k THEN s[i] ELSE e
    <3> SUFFICES ASSUME NEW i \in 1..k PROVE w[i] = IF i < k THEN s[i] ELSE e
      OBVIOUS
    <3>1. CASE i < k
      <4>1. i \in 1..l
        BY <3>1
      <4> QED
        BY <1>1, <2>3, <3>1, <4>1
    <3>2. CASE ~(i < k)
      <4>1. i = l + 1
        BY <3>2
      <4> QED
        BY <2>4, <3>2, <4>1
    <3> QED
      BY <3>1, <3>2
  <2> QED
    BY <2>2, <2>5
<1> HIDE DEF w
<1>5. w \o v \in Seq(S) /\ Len(w \o v) = Len(s) + 1
  BY <1>2, <1>4
<1>6. \A i \in 1..(Len(s) + 1) : (w \o v)[i] = IF i <= k THEN w[i] ELSE v[i - k]
  BY <1>2, <1>4
<1>7. \A i \in 1..(Len(s) + 1) :
         (w \o v)[i] = IF i < k THEN s[i] ELSE IF i = k THEN e ELSE s[i - 1]
  <2>1. ASSUME NEW i \in 1..(Len(s) + 1), i <= k
        PROVE  (w \o v)[i] = IF i < k THEN s[i] ELSE IF i = k THEN e ELSE s[i - 1]
    BY <1>4, <1>6, <2>1
  <2>2. ASSUME NEW i \in 1..(Len(s) + 1), i > k
        PROVE  (w \o v)[i] = IF i < k THEN s[i] ELSE IF i = k THEN e ELSE s[i - 1]
    <3>1. i - k \in 1..(Len(s) - k + 1) /\ k + (i - k) - 1 = i - 1
      BY <2>2
    <3>2. v[i - k] = s[i - 1]
      BY <1>2, <3>1
    <3>3. ~(i <= k) /\ ~(i < k) /\ i # k
      BY <2>2
    <3>4. (w \o v)[i] = v[i - k]
      BY <1>6, <3>3
    <3> QED
      BY <3>2, <3>3, <3>4
  <2>3. \A i \in 1..(Len(s) + 1) : i <= k \/ i > k
    OBVIOUS
  <2> QED
    BY <2>1, <2>2, <2>3
<1> PICK n, new : n = Len(s) /\ new = w \o v
  OBVIOUS
<1>8. n \in Nat /\ k \in Nat /\ k \in 1..(n + 1)
  OBVIOUS
<1>9. /\ new \in Seq(S) /\ Len(new) = n + 1
      /\ \A i \in 1..(n + 1) : new[i] = IF i < k THEN s[i] ELSE IF i = k THEN e ELSE s[i - 1]
  BY <1>5, <1>7, Zenon
<1>10. new[k] = e
  BY <1>8, <1>9
<1>11. ASSUME NEW i \in 1..(n + 1), i < k PROVE i \in 1..n /\ new[i] = s[i]
  BY <1>8, <1>9, <1>11
<1>12. ASSUME NEW i \in 1..(n + 1), k < i PROVE i - 1 \in 1..n /\ new[i] = s[i - 1]
  <2>1. i - 1 \in 1..n /\ ~(i < k) /\ i # k
    BY <1>8, <1>12
  <2> QED
    BY <1>9, <2>1
<1>13. ASSUME NEW i \in 1..n, ~(i < k) PROVE i + 1 \in 1..(n + 1) /\ new[i + 1] = s[i]
  <2>1. i + 1 \in 1..(n + 1) /\ ~(i + 1 < k) /\ i + 1 # k /\ (i + 1) - 1 = i
    BY <1>8, <1>13
  <2> QED
    BY <1>9, <2>1
<1> QED
  BY <1>3, <1>8, <1>9, <1>10, <1>11, <1>12, <1>13 DEF InsertedIn

LEMMA FrontIs ==
    ASSUME NEW S, NEW w \in Seq(S), w # <<>>
    PROVE  /\ Front(w) \in Seq(S) /\ Len(Front(w)) = Len(w) - 1 /\ Len(w) \in Nat \ {0}
           /\ \A i \in 1..(Len(w) - 1) : Front(w)[i] = w[i]
<1> PICK n, x : n = Len(w) /\ x = SubSeq(w, 1, n - 1)
  OBVIOUS
<1>1. n \in Nat /\ n # 0
  OBVIOUS
<1>2. x \in Seq(S) /\ Len(x) = n - 1
  BY <1>1
<1>3. \A i \in 1..(n - 1) : x[i] = w[i]
  BY <1>1
<1>4. Front(w) = x
  BY DEF Front
<1> QED
  BY <1>1, <1>2, <1>3, <1>4

----------------------------------------------------------------------------
(* What the application makes of the commands *)

Code == [k : {"kana"}, c : Nat, n : Int]
Mark == [k : {"romaji"}, c : Char]
Cell == Code \cup Mark \cup {[k |-> "?"]}
Command == Code \cup Mark \cup {Back("back"), Back("back_romaji")}

LEMMA ShowType ==
    ASSUME NEW scr \in Seq(Cell), NEW cmd \in Command
    PROVE  Show(scr, cmd) \in Seq(Cell)
<1>1. CASE cmd \in Code \cup Mark
  <2>1. cmd.k \in {"kana", "romaji"} /\ cmd \in Cell
    BY <1>1 DEF Code, Mark, Cell
  <2>2. Show(scr, cmd) = Append(scr, cmd)
    BY <2>1 DEF Show
  <2> QED
    BY <2>1, <2>2
<1>2. CASE cmd \in {Back("back"), Back("back_romaji")}
  <2>1. [k |-> "?"] \in Cell
    BY DEF Cell
  <2>2. Append(scr, [k |-> "?"]) \in Seq(Cell)
    BY <2>1
  <2>3. scr # <<>> => Front(scr) \in Seq(Cell)
    BY DEF Front
  <2>4. cmd.k \in {"back", "back_romaji"}
    BY <1>2 DEF Back
  <2> QED
    BY <2>2, <2>3, <2>4 DEF Show
<1> QED
  BY <1>1, <1>2 DEF Command

LEMMA ShowAllDefined ==
    ASSUME NEW scr \in Seq(Cell), NEW cmds \in Seq(Command)
    PROVE  \E g \in [0..Len(cmds) -> Seq(Cell)] :
              /\ g[0] = scr
              /\ \A n \in 1..Len(cmds) : g[n] = Show(g[n - 1], cmds[n])
              /\ ShowAll(scr, cmds) = g[Len(cmds)]
<1> DEFINE S == Seq(Cell)
           step == [x \in Nat \X S |-> IF x[1] \in 1..Len(cmds) THEN Show(x[2], cmds[x[1]])
                                       ELSE x[2]]
           Def(g) == g = [n \in 0..Len(cmds) |-> IF n = 0 THEN scr ELSE Show(g[n - 1], cmds[n])]
<1>1. step \in [Nat \X S -> S]
  <2>1. ASSUME NEW n \in 1..Len(cmds), NEW x \in S PROVE Show(x, cmds[n]) \in S
    BY ShowType
  <2> HIDE DEF S
  <2> QED
    BY <2>1
<1>2. \A n \in 1..Len(cmds), x \in S : step[<<n, x>>] = Show(x, cmds[n])
  <2> HIDE DEF S
  <2> QED
    OBVIOUS
<1>3. scr \in S
  OBVIOUS
<1> HIDE DEF S, step
<1> PICK m \in Nat : m = Len(cmds)
  OBVIOUS
<1>4. PICK h \in [0..m -> S] : h[0] = scr /\ \A n \in 1..m : h[n] = step[<<n, h[n - 1]>>]
  <2>1. \E h : Iterates(h, S, scr, m, step)
    BY <1>1, <1>3, Iterated
  <2> QED
    BY <2>1 DEF Iterates
<1>5. Def(h)
  <2>1. \A n \in 0..m : h[n] = IF n = 0 THEN scr ELSE Show(h[n - 1], cmds[n])
    <3> SUFFICES ASSUME NEW n \in 1..m PROVE h[n] = Show(h[n - 1], cmds[n])
      BY <1>4
    <3>1. n - 1 \in 0..m
      OBVIOUS
    <3> QED
      BY <1>2, <1>4, <3>1
  <2> QED
    BY <1>4, <2>1
<1>6. PICK g : Def(g) /\ ShowAll(scr, cmds) = g[Len(cmds)]
  <2> DEFINE c == CHOOSE g : Def(g)
  <2>1. Def(c)
    <3> HIDE DEF Def
    <3> QED
      BY <1>5
  <2>2. ShowAll(scr, cmds) = c[Len(cmds)]
    BY DEF ShowAll
  <2> QED
    BY <2>1, <2>2
<1>7. g[0] = scr /\ \A n \in 1..m : g[n] = Show(g[n - 1], cmds[n])
  <2>1. \A n \in 0..m : g[n] = IF n = 0 THEN scr ELSE Show(g[n - 1], cmds[n])
    BY <1>6
  <2> QED
    BY <2>1
<1> DEFINE T == {n \in Nat : n <= m => g[n] \in S}
<1>8. 0 \in T
  BY <1>3, <1>7
<1>9. ASSUME NEW n \in T PROVE n + 1 \in T
  <2> SUFFICES ASSUME n + 1 <= m PROVE g[n + 1] \in S
    OBVIOUS
  <2>0. n \in Nat /\ (n <= m => g[n] \in S)
    OBVIOUS
  <2> HIDE DEF T
  <2>1. n + 1 \in 1..m /\ (n + 1) - 1 = n /\ n <= m
    BY <2>0
  <2>2. g[n] \in S /\ g[n + 1] = Show(g[n], cmds[n + 1]) /\ cmds[n + 1] \in Command
    BY <1>7, <2>0, <2>1
  <2> QED
    BY <2>2, ShowType DEF S
<1>10. T \subseteq Nat
  OBVIOUS
<1> HIDE DEF T
<1>11. T = Nat
  BY <1>8, <1>9, <1>10, SetInduction
<1>12. g \in [0..m -> S]
  <2>1. \A n \in 0..m : g[n] \in S
    BY <1>11 DEF T
  <2> QED
    BY <1>6, <2>1
<1> QED
  BY <1>6, <1>7, <1>12 DEF S

\* Commands are shown one after the other.
LEMMA ShowBoth ==
    ASSUME NEW scr \in Seq(Cell), NEW x \in Seq(Command), NEW y \in Seq(Command)
    PROVE  /\ ShowAll(scr, x) \in Seq(Cell)
           /\ ShowAll(scr, x \o y) = ShowAll(ShowAll(scr, x), y)
<1> PICK a, b, z : a = Len(x) /\ b = Len(y) /\ z = x \o y
  OBVIOUS
<1> PICK c : c = Len(z)
  OBVIOUS
<1>1. /\ a \in Nat /\ b \in Nat /\ z \in Seq(Command) /\ c = a + b
      /\ (\A n \in 1..a : z[n] = x[n]) /\ \A n \in 1..b : z[a + n] = y[n]
  OBVIOUS
<1>2. PICK f \in [0..a -> Seq(Cell)] :
         f[0] = scr /\ (\A n \in 1..a : f[n] = Show(f[n - 1], x[n])) /\ ShowAll(scr, x) = f[a]
  BY ShowAllDefined
<1>3. PICK h \in [0..c -> Seq(Cell)] :
         /\ h[0] = scr
         /\ \A n \in 1..c : h[n] = Show(h[n - 1], z[n])
         /\ ShowAll(scr, z) = h[c]
  <2>1. z \in Seq(Command)
    BY <1>1
  <2>2. \E h \in [0..Len(z) -> Seq(Cell)] :
           /\ h[0] = scr
           /\ \A n \in 1..Len(z) : h[n] = Show(h[n - 1], z[n])
           /\ ShowAll(scr, z) = h[Len(z)]
    BY <2>1, ShowAllDefined
  <2> QED
    BY <2>2
<1>4. f[a] \in Seq(Cell)
  <2>1. a \in 0..a
    BY <1>1
  <2> QED
    BY <1>2, <2>1
<1>5. PICK g \in [0..b -> Seq(Cell)] :
         /\ g[0] = f[a] /\ ShowAll(f[a], y) = g[b]
         /\ \A n \in 1..b : g[n] = Show(g[n - 1], y[n])
  BY <1>4, ShowAllDefined
<1> DEFINE T == {n \in Nat : n <= a => h[n] = f[n]}
<1>6. T = Nat
  <2>1. 0 \in T
    BY <1>2, <1>3
  <2>2. ASSUME NEW n \in T PROVE n + 1 \in T
    <3>0. n \in Nat /\ (n <= a => h[n] = f[n])
      OBVIOUS
    <3> SUFFICES ASSUME n + 1 <= a PROVE h[n + 1] = f[n + 1]
      BY <3>0
    <3> HIDE DEF T
    <3>1. n + 1 \in 1..a /\ n + 1 \in 1..c /\ (n + 1) - 1 = n /\ n <= a
      BY <1>1, <3>0
    <3> QED
      BY <1>1, <1>2, <1>3, <3>0, <3>1
  <2>3. T \subseteq Nat
    OBVIOUS
  <2> HIDE DEF T
  <2> QED
    BY <2>1, <2>2, <2>3, SetInduction
<1>7. h[a] = f[a]
  BY <1>1, <1>6
<1> HIDE DEF T
<1> DEFINE U == {n \in Nat : n <= b => h[a + n] = g[n]}
<1>8. U = Nat
  <2>1. 0 \in U
    BY <1>1, <1>5, <1>7
  <2>2. ASSUME NEW n \in U PROVE n + 1 \in U
    <3>0. n \in Nat /\ (n <= b => h[a + n] = g[n])
      OBVIOUS
    <3> SUFFICES ASSUME n + 1 <= b PROVE h[a + (n + 1)] = g[n + 1]
      BY <3>0
    <3> HIDE DEF U
    <3>1. n + 1 \in 1..b /\ a + (n + 1) \in 1..c /\ (n + 1) - 1 = n /\ n <= b
          /\ (a + (n + 1)) - 1 = a + n
      BY <1>1, <3>0
    <3> QED
      <4>1. h[a + n] = g[n] /\ z[a + (n + 1)] = y[n + 1]
        BY <1>1, <3>0, <3>1
      <4>2. h[a + (n + 1)] = Show(h[a + n], z[a + (n + 1)])
        BY <1>3, <3>1
      <4>3. g[n + 1] = Show(g[n], y[n + 1])
        BY <1>5, <3>1
      <4> QED
        BY <4>1, <4>2, <4>3
  <2>3. U \subseteq Nat
    OBVIOUS
  <2> HIDE DEF U
  <2> QED
    BY <2>1, <2>2, <2>3, SetInduction
<1>9. h[c] = g[b]
  <2>1. b \in U /\ c = a + b
    BY <1>1, <1>8
  <2>2. b <= b => h[a + b] = g[b]
    BY <2>1
  <2> HIDE DEF U
  <2> QED
    BY <1>1, <2>1, <2>2
<1> QED
  BY <1>2, <1>3, <1>4, <1>5, <1>9

\* Kana and romaji are added.
LEMMA ShowAdds ==
    ASSUME NEW scr \in Seq(Cell), NEW x \in Seq(Code \cup Mark)
    PROVE  ShowAll(scr, x) = scr \o x
<1> PICK a, l : a = Len(x) /\ l = Len(scr)
  OBVIOUS
<1>0. a \in Nat /\ l \in Nat /\ x \in Seq(Command) /\ x \in Seq(Cell)
  BY DEF Command, Cell
<1>1. PICK f \in [0..a -> Seq(Cell)] :
         f[0] = scr /\ (\A n \in 1..a : f[n] = Show(f[n - 1], x[n])) /\ ShowAll(scr, x) = f[a]
  BY <1>0, ShowAllDefined
<1>2. \A n \in 1..a : f[n] = Append(f[n - 1], x[n])
  <2> SUFFICES ASSUME NEW n \in 1..a PROVE f[n] = Append(f[n - 1], x[n])
    OBVIOUS
  <2>1. x[n] \in Code \cup Mark
    OBVIOUS
  <2>2. x[n].k \in {"kana", "romaji"}
    BY <2>1 DEF Code, Mark
  <2> QED
    BY <1>1, <2>2 DEF Show
<1> DEFINE T == {n \in Nat : n <= a => /\ Len(f[n]) = l + n
                                       /\ \A i \in 1..l : f[n][i] = scr[i]
                                       /\ \A i \in 1..n : f[n][l + i] = x[i]}
<1>3. T = Nat
  <2>1. 0 \in T
    BY <1>0, <1>1
  <2>2. ASSUME NEW n \in T PROVE n + 1 \in T
    <3>0. n \in Nat /\ (n <= a => /\ Len(f[n]) = l + n
                                  /\ \A i \in 1..l : f[n][i] = scr[i]
                                  /\ \A i \in 1..n : f[n][l + i] = x[i])
      OBVIOUS
    <3> SUFFICES ASSUME n + 1 <= a
                 PROVE  /\ Len(f[n + 1]) = l + (n + 1)
                        /\ \A i \in 1..l : f[n + 1][i] = scr[i]
                        /\ \A i \in 1..(n + 1) : f[n + 1][l + i] = x[i]
      BY <3>0
    <3> HIDE DEF T
    <3>1. n + 1 \in 1..a /\ (n + 1) - 1 = n /\ n <= a
      BY <1>0, <3>0
    <3> PICK p, q, e : p = f[n] /\ q = f[n + 1] /\ e = x[n + 1]
      OBVIOUS
    <3>2. p \in Seq(Cell) /\ q = Append(p, e) /\ Len(p) = l + n
      <4>1. n \in 0..a
        BY <3>0, <3>1
      <4>2. f[n] \in Seq(Cell)
        BY <1>1, <4>1
      <4>3. f[n + 1] = Append(f[n], x[n + 1])
        BY <1>2, <3>1
      <4> QED
        BY <3>0, <3>1, <4>2, <4>3
    <3>3. Len(q) = l + (n + 1) /\ (\A i \in 1..(l + n) : q[i] = p[i]) /\ q[l + (n + 1)] = e
      BY <1>0, <3>0, <3>2
    <3>4. \A i \in 1..l : q[i] = scr[i]
      BY <1>0, <3>0, <3>1, <3>3
    <3>5. \A i \in 1..(n + 1) : q[l + i] = x[i]
      <4> SUFFICES ASSUME NEW i \in 1..(n + 1) PROVE q[l + i] = x[i]
        OBVIOUS
      <4>1. CASE i = n + 1
        BY <3>3, <4>1
      <4>2. CASE i <= n
        <5>1. i \in 1..n /\ l + i \in 1..(l + n)
          BY <1>0, <3>0, <4>2
        <5> QED
          BY <3>0, <3>1, <3>3, <5>1
      <4> QED
        BY <3>0, <4>1, <4>2
    <3> QED
      BY <3>3, <3>4, <3>5
  <2>3. T \subseteq Nat
    OBVIOUS
  <2> HIDE DEF T
  <2> QED
    BY <2>1, <2>2, <2>3, SetInduction
<1>4. /\ f[a] \in Seq(Cell) /\ Len(f[a]) = l + a
      /\ \A i \in 1..l : f[a][i] = scr[i]
      /\ \A i \in 1..a : f[a][l + i] = x[i]
  <2>1. a \in 0..a /\ a \in T
    BY <1>0, <1>3
  <2>2. f[a] \in Seq(Cell)
    BY <1>1, <2>1
  <2> QED
    BY <1>0, <2>1, <2>2
<1> HIDE DEF T
<1> PICK p, q : p = f[a] /\ q = scr \o x
  OBVIOUS
<1>5. q \in Seq(Cell) /\ Len(q) = l + a
      /\ \A i \in 1..(l + a) : q[i] = IF i <= l THEN scr[i] ELSE x[i - l]
  BY <1>0
<1>6. \A i \in 1..(l + a) : p[i] = q[i]
  <2> SUFFICES ASSUME NEW i \in 1..(l + a) PROVE p[i] = q[i]
    OBVIOUS
  <2>1. CASE i <= l
    BY <1>0, <1>4, <1>5, <2>1
  <2>2. CASE i > l
    <3>1. i - l \in 1..a /\ l + (i - l) = i /\ ~(i <= l)
      BY <1>0, <2>2
    <3>2. p[l + (i - l)] = x[i - l]
      BY <1>4, <3>1
    <3> QED
      BY <1>5, <3>1, <3>2
  <2> QED
    BY <1>0, <2>1, <2>2
<1>7. p = q
  BY <1>4, <1>5, <1>6
<1> QED
  BY <1>1, <1>7

\* Erases take away what is last, as long as it is of the kind they are for.
LEMMA ShowErases ==
    ASSUME NEW z \in Seq(Cell), NEW m \in 0..Len(z), NEW b,
           \/ b = "back_romaji" /\ \A i \in (Len(z) - m + 1)..Len(z) : z[i].k = "romaji"
           \/ b = "back" /\ \A i \in (Len(z) - m + 1)..Len(z) : z[i].k = "kana"
    PROVE  ShowAll(z, Times(b, m)) = SubSeq(z, 1, Len(z) - m)
<1> PICK l, x : l = Len(z) /\ x = Times(b, m)
  OBVIOUS
<1>0. l \in Nat /\ m \in Nat /\ m <= l
  OBVIOUS
<1>1. /\ x \in Seq(Command) /\ Len(x) = m
      /\ \A n \in 1..m : x[n] = Back(b)
  <2>1. Back(b) \in Command
    BY DEF Command, Back
  <2>2. x = [n \in 1..m |-> Back(b)]
    BY DEF Times
  <2> HIDE DEF Command
  <2> QED
    BY <1>0, <2>1, <2>2
<1>2. PICK f \in [0..m -> Seq(Cell)] :
         f[0] = z /\ (\A n \in 1..m : f[n] = Show(f[n - 1], x[n])) /\ ShowAll(z, x) = f[m]
  <2>1. x \in Seq(Command)
    BY <1>1
  <2>2. \E f \in [0..Len(x) -> Seq(Cell)] :
           /\ f[0] = z
           /\ \A n \in 1..Len(x) : f[n] = Show(f[n - 1], x[n])
           /\ ShowAll(z, x) = f[Len(x)]
    BY <2>1, ShowAllDefined
  <2> QED
    BY <1>1, <2>2
<1>3. ASSUME NEW y \in Seq(Cell), y # <<>>, y[Len(y)].k = IF b = "back" THEN "kana" ELSE "romaji"
      PROVE  Show(y, Back(b)) = SubSeq(y, 1, Len(y) - 1)
  BY <1>3 DEF Show, Back, Last, Front
<1> DEFINE T == {n \in Nat : n <= m => f[n] = SubSeq(z, 1, l - n)}
<1>4. T = Nat
  <2>1. 0 \in T
    <3>1. SubSeq(z, 1, Len(z)) = z
      OBVIOUS
    <3> QED
      BY <1>0, <1>2, <3>1
  <2>2. ASSUME NEW n \in T PROVE n + 1 \in T
    <3>0. n \in Nat /\ (n <= m => f[n] = SubSeq(z, 1, l - n))
      OBVIOUS
    <3> SUFFICES ASSUME n + 1 <= m PROVE f[n + 1] = SubSeq(z, 1, l - (n + 1))
      BY <3>0
    <3> HIDE DEF T
    <3> PICK p, q, d : p = f[n] /\ q = f[n + 1] /\ d = l - n
      OBVIOUS
    <3>1. n + 1 \in 1..m /\ (n + 1) - 1 = n /\ n <= m /\ d \in 1..l /\ d - 1 = l - (n + 1)
      BY <1>0, <3>0
    <3>2. p = SubSeq(z, 1, d) /\ q = Show(p, Back(b))
      BY <1>1, <1>2, <3>0, <3>1
    <3>3. p \in Seq(Cell) /\ Len(p) = d /\ p # <<>> /\ p[d] = z[d]
          /\ SubSeq(p, 1, d - 1) = SubSeq(z, 1, d - 1)
      BY <3>1, <3>2
    <3>4. z[d].k = IF b = "back" THEN "kana" ELSE "romaji"
      <4>1. d \in (l - m + 1)..l
        BY <1>0, <3>0, <3>1
      <4> QED
        BY <4>1
    <3>5. q = SubSeq(p, 1, d - 1)
      BY <1>3, <3>2, <3>3, <3>4
    <3> QED
      BY <3>1, <3>3, <3>5
  <2>3. T \subseteq Nat
    OBVIOUS
  <2> HIDE DEF T
  <2> QED
    BY <2>1, <2>2, <2>3, SetInduction
<1>5. f[m] = SubSeq(z, 1, l - m)
  <2> HIDE DEF T
  <2>1. m \in T
    BY <1>0, <1>4
  <2> QED
    BY <1>0, <2>1 DEF T
<1> QED
  BY <1>2, <1>5

\* The romaji that are shown go, a number of kana goes, and what follows is shown.
LEMMA PendingType ==
    ASSUME NEW w \in Seq(Char)
    PROVE  /\ Pending(w) \in Seq(Mark) /\ Len(Pending(w)) = Len(w)
           /\ \A i \in 1..Len(w) : Pending(w)[i].k = "romaji"
<1>1. \A c \in Char : Romaji(c) \in Mark /\ Romaji(c).k = "romaji"
  BY DEF Romaji, Mark
<1>2. \A i \in 1..Len(w) : w[i] \in Char
  OBVIOUS
<1> QED
  BY <1>1, <1>2 DEF Pending

LEMMA Rebuilt ==
    ASSUME NEW base \in Seq(Code), NEW w \in Seq(Char), NEW m \in 0..Len(base),
           NEW out \in Seq(Code), NEW v \in Seq(Char)
    PROVE  /\ ShowAll(base \o Pending(w), Times("back_romaji", Len(w)) \o Times("back", m) \o Pending(v))
                 = SubSeq(base, 1, Len(base) - m) \o Pending(v)
           /\ ShowAll(base \o Pending(w), Times("back_romaji", Len(w)) \o out \o Pending(v))
                 = (base \o out) \o Pending(v)
<1> PICK p, q, l, n : p = Pending(w) /\ q = Pending(v) /\ l = Len(base) /\ n = Len(w)
  OBVIOUS
<1> PICK z, r, k : z = base \o p /\ r = Times("back_romaji", n) /\ k = Times("back", m)
  OBVIOUS
<1>1. /\ p \in Seq(Mark) /\ q \in Seq(Mark) /\ Len(p) = n /\ \A i \in 1..n : p[i].k = "romaji"
  BY PendingType
<1>2. /\ l \in Nat /\ n \in Nat /\ base \in Seq(Cell) /\ p \in Seq(Cell) /\ q \in Seq(Cell)
      /\ out \in Seq(Command) /\ q \in Seq(Command) /\ q \in Seq(Code \cup Mark)
      /\ out \in Seq(Code \cup Mark) /\ out \in Seq(Cell)
  BY <1>1 DEF Cell, Command
<1>3. r \in Seq(Command) /\ k \in Seq(Command)
  <2>1. Back("back") \in Command /\ Back("back_romaji") \in Command
    BY DEF Command
  <2> HIDE DEF Command
  <2> QED
    BY <1>2, <2>1 DEF Times
<1>4. /\ z \in Seq(Cell) /\ Len(z) = l + n /\ (\A i \in 1..l : z[i] = base[i])
      /\ \A i \in 1..n : z[l + i] = p[i]
  <2> PICK b, d : b = base /\ d = p
    OBVIOUS
  <2>1. b \in Seq(Cell) /\ d \in Seq(Cell) /\ Len(b) = l /\ Len(d) = n /\ z = b \o d
    BY <1>1, <1>2
  <2>2. /\ b \o d \in Seq(Cell) /\ Len(b \o d) = Len(b) + Len(d)
        /\ (\A i \in 1..Len(b) : (b \o d)[i] = b[i])
        /\ \A i \in 1..Len(d) : (b \o d)[Len(b) + i] = d[i]
    <3>1. b \in Seq(Cell) /\ d \in Seq(Cell)
      BY <2>1
    <3>2. b \o d \in Seq(Cell)
      BY ONLY <3>1, Joined
    <3>3. Len(b \o d) = Len(b) + Len(d)
      BY ONLY <3>1, Joined
    <3>4. (\A i \in 1..Len(b) : (b \o d)[i] = b[i])
      BY ONLY <3>1, Joined
    <3>5. \A i \in 1..Len(d) : (b \o d)[Len(b) + i] = d[i]
      BY ONLY <3>1, Joined
    <3> QED
      BY <3>2, <3>3, <3>4, <3>5
  <2>3. /\ z \in Seq(Cell) /\ Len(z) = l + n /\ (\A i \in 1..l : z[i] = b[i])
        /\ \A i \in 1..n : z[l + i] = d[i]
    BY <2>1, <2>2
  <2> QED
    BY <2>3
<1>5. ShowAll(z, r) = base
  <2>1. n \in 0..Len(z) /\ Len(z) - n = l
    BY <1>2, <1>4
  <2>2. \A i \in (l + 1)..(l + n) : z[i].k = "romaji"
    <3> SUFFICES ASSUME NEW i \in (l + 1)..(l + n) PROVE z[i].k = "romaji"
      OBVIOUS
    <3>1. i - l \in 1..n /\ l + (i - l) = i
      BY <1>2
    <3> QED
      BY <1>1, <1>4, <3>1
  <2>3. ShowAll(z, r) = SubSeq(z, 1, Len(z) - n)
    BY <1>4, <2>1, <2>2, ShowErases
  <2>4. SubSeq(z, 1, l) = base
    BY <1>2, <1>4
  <2> QED
    BY <2>1, <2>3, <2>4
<1>6. ShowAll(base, k) = SubSeq(base, 1, l - m) /\ SubSeq(base, 1, l - m) \in Seq(Cell)
  <2>1. \A i \in 1..l : base[i].k = "kana"
    <3>1. \A i \in 1..l : base[i] \in Code
      OBVIOUS
    <3>2. \A x \in Code : x.k = "kana"
      BY DEF Code
    <3> QED
      BY <3>1, <3>2
  <2>2. \A i \in (Len(base) - m + 1)..Len(base) : base[i].k = "kana"
    BY <1>2, <2>1
  <2>3. ShowAll(base, k) = SubSeq(base, 1, Len(base) - m)
    BY <1>2, <2>2, ShowErases
  <2> QED
    BY <1>2, <2>3
<1>7. ShowAll(z, r \o k \o q) = SubSeq(base, 1, l - m) \o q
  <2> PICK y : y = SubSeq(base, 1, l - m)
    OBVIOUS
  <2>1. ShowAll(z, r \o k) = y /\ r \o k \in Seq(Command) /\ y \in Seq(Cell)
    <3>1. ShowAll(z, r \o k) = ShowAll(base, k)
      <4>1. z \in Seq(Cell) /\ r \in Seq(Command) /\ k \in Seq(Command)
        BY <1>3, <1>4, <1>5
      <4>2. ShowAll(z, (r) \o k) = ShowAll(ShowAll(z, r), k)
        BY <4>1, ShowBoth, Zenon
      <4> QED
        BY <1>3, <1>4, <1>5, <4>2
    <3> QED
      BY <1>3, <1>6, <3>1
  <2>2. ShowAll(z, (r \o k) \o q) = ShowAll(y, q)
    <3>1. z \in Seq(Cell) /\ r \o k \in Seq(Command) /\ q \in Seq(Command)
      BY <1>2, <1>4, <2>1
    <3>2. ShowAll(z, (r \o k) \o q) = ShowAll(ShowAll(z, r \o k), q)
      BY <3>1, ShowBoth, Zenon
    <3> QED
      BY <1>2, <1>4, <2>1, <3>2
  <2>3. ShowAll(y, q) = y \o q
    BY <1>2, <2>1, ShowAdds
  <2> QED
    BY <2>2, <2>3
<1>8. ShowAll(z, r \o out \o q) = (base \o out) \o q
  <2> PICK y : y = base \o out
    OBVIOUS
  <2>1. ShowAll(z, r \o out) = y /\ r \o out \in Seq(Command) /\ y \in Seq(Cell)
    <3>1. ShowAll(z, r \o out) = ShowAll(base, out)
      <4>1. z \in Seq(Cell) /\ r \in Seq(Command) /\ out \in Seq(Command)
        BY <1>2, <1>3, <1>4, <1>5
      <4>2. ShowAll(z, (r) \o out) = ShowAll(ShowAll(z, r), out)
        BY <4>1, ShowBoth, Zenon
      <4> QED
        BY <1>2, <1>3, <1>4, <1>5, <4>2
    <3>2. ShowAll(base, out) = base \o out
      BY <1>2, ShowAdds
    <3> QED
      BY <1>2, <1>3, <3>1, <3>2
  <2>2. ShowAll(z, (r \o out) \o q) = ShowAll(y, q)
    <3>1. z \in Seq(Cell) /\ r \o out \in Seq(Command) /\ q \in Seq(Command)
      BY <1>2, <1>4, <2>1
    <3>2. ShowAll(z, (r \o out) \o q) = ShowAll(ShowAll(z, r \o out), q)
      BY <3>1, ShowBoth, Zenon
    <3> QED
      BY <1>2, <1>4, <2>1, <3>2
  <2>3. ShowAll(y, q) = y \o q
    BY <1>2, <2>1, ShowAdds
  <2> QED
    BY <2>2, <2>3
<1> QED
  BY <1>7, <1>8

----------------------------------------------------------------------------
(* The table, one search of it, and what a match leaves *)

\* A remainder is shorter than the key.
Entry == {e \in [r_key : Seq(Letter), k_yomi : Seq(Nat) \ {<<>>}, r_str : Seq(Letter)] :
            Len(e.r_str) <= Len(e.r_key)}
Table == [Letter -> Seq(Entry)]

\* Where an entry is put: before the first that stops the walk.
Stops(list, key, i) ==
    \/ list[i].r_key = <<>>
    \/ After(key, list[i].r_key) /\ Len(list[i].r_key) <= Len(key)

LEMMA PlaceIs ==
    ASSUME NEW list \in Seq(Entry), NEW key \in Seq(Letter)
    PROVE  /\ mktable_place(list, key) \in 1..(Len(list) + 1)
           /\ \A i \in 1..Len(list) : i < mktable_place(list, key) => ~Stops(list, key, i)
           /\ mktable_place(list, key) <= Len(list) => Stops(list, key, mktable_place(list, key))
<1> DEFINE stop(i) == \/ list[i].r_key = <<>>
                      \/ /\ After(key, list[i].r_key)
                         /\ Len(list[i].r_key) <= Len(key)
           here == {i \in 1..Len(list) : stop(i)}
           p == IF here = {} THEN Len(list) + 1
                ELSE CHOOSE i \in here : \A j \in here : i <= j
<1>0. Len(list) \in Nat
  OBVIOUS
<1>1. mktable_place(list, key) = p
  BY DEF mktable_place
<1>4. \A i : stop(i) <=> Stops(list, key, i)
  BY DEF Stops
<1> HIDE DEF stop
<1>2. CASE here = {}
  BY <1>0, <1>1, <1>2, <1>4
<1>3. CASE here # {}
  <2>1. here \subseteq Nat
    BY <1>0
  <2> HIDE DEF here
  <2>2. \E i \in here : \A j \in here : i <= j
    BY <1>3, <2>1, LeastNatural
  <2>3. p \in here /\ \A j \in here : p <= j
    BY <1>3, <2>2
  <2> HIDE DEF p
  <2>4. p \in 1..Len(list) /\ Stops(list, key, p)
    BY <1>4, <2>3 DEF here
  <2>5. \A j \in 1..Len(list) : j < p => ~Stops(list, key, j)
    <3>1. \A j \in 1..Len(list) : Stops(list, key, j) => p <= j
      BY <1>4, <2>3 DEF here
    <3> QED
      BY <1>0, <2>4, <3>1
  <2> QED
    BY <1>0, <1>1, <2>4, <2>5
<1> QED
  BY <1>2, <1>3

\* What a line adds.
Added(ln) ==
    [r_key |-> Tail(ln.key), k_yomi |-> ln.kana,
     r_str |-> IF chk_rstr(ln.rest, ln.key) THEN ln.rest ELSE <<>>]
Known(t, ln) == \E i \in 1..Len(t[Head(ln.key)]) : t[Head(ln.key)][i].r_key = Tail(ln.key)

LEMMA AddedType ==
    ASSUME NEW ln \in Line
    PROVE  /\ Added(ln) \in Entry /\ Head(ln.key) \in Letter /\ Tail(ln.key) \in Seq(Letter)
<1>1. /\ ln.key \in Seq(Letter) /\ ln.key # <<>> /\ ln.kana \in Seq(Nat) \ {<<>>}
      /\ ln.rest \in Seq(Letter)
  BY DEF Line
<1>2. /\ Head(ln.key) \in Letter /\ Tail(ln.key) \in Seq(Letter) /\ Len(Tail(ln.key)) = Len(ln.key) - 1
      /\ Len(ln.key) \in Nat
  BY <1>1
<1>3. PICK r : r = IF chk_rstr(ln.rest, ln.key) THEN ln.rest ELSE <<>>
  OBVIOUS
<1>4. r \in Seq(Letter) /\ Len(r) <= Len(Tail(ln.key))
  <2>1. CASE chk_rstr(ln.rest, ln.key)
    <3>1. Len(ln.rest) < Len(ln.key) /\ r = ln.rest
      BY <1>3, <2>1 DEF chk_rstr
    <3> QED
      BY <1>1, <1>2, <3>1
  <2>2. CASE ~chk_rstr(ln.rest, ln.key)
    BY <1>2, <1>3, <2>2
  <2> QED
    BY <2>1, <2>2
<1>5. Added(ln) = [r_key |-> Tail(ln.key), k_yomi |-> ln.kana, r_str |-> r]
  BY <1>3 DEF Added
<1> QED
  BY <1>1, <1>2, <1>4, <1>5 DEF Entry

LEMMA LineAdded ==
    ASSUME NEW t \in Table, NEW ln \in Line
    PROVE  LET c == Head(ln.key)
           IN  /\ AddLine(t, ln) \in Table
               /\ Known(t, ln) => AddLine(t, ln) = t
               /\ ~Known(t, ln) => AddLine(t, ln) =
                    [t EXCEPT ![c] = InsertAt(t[c], mktable_place(t[c], Tail(ln.key)), Added(ln))]
<1> PICK c, key, e : c = Head(ln.key) /\ key = Tail(ln.key) /\ e = Added(ln)
  OBVIOUS
<1>1. c \in Letter /\ key \in Seq(Letter) /\ e \in Entry
  BY AddedType
<1>2. PICK list, p : list = t[c] /\ p = mktable_place(list, key)
  OBVIOUS
<1>3. list \in Seq(Entry)
  BY <1>1, <1>2 DEF Table
<1>4. p \in 1..(Len(list) + 1)
  BY <1>1, <1>2, <1>3, PlaceIs
<1>5. InsertAt(list, p, e) \in Seq(Entry)
  BY <1>1, <1>3, <1>4, Inserted
<1>6. /\ Known(t, ln) => AddLine(t, ln) = t
      /\ ~Known(t, ln) => AddLine(t, ln) = [t EXCEPT ![c] = InsertAt(list, p, e)]
  BY <1>2 DEF AddLine, Known, Added
<1>7. [t EXCEPT ![c] = InsertAt(list, p, e)] \in Table
  BY <1>1, <1>5 DEF Table
<1> QED
  BY <1>2, <1>6, <1>7

LEMMA TableDefined ==
    ASSUME NEW lines \in Seq(Line)
    PROVE  \E g \in [0..Len(lines) -> Table] :
              /\ g[0] = cltable
              /\ \A n \in 1..Len(lines) : g[n] = AddLine(g[n - 1], lines[n])
              /\ sj3_rkinit_sub(lines) = g[Len(lines)]
<1> DEFINE step == [x \in Nat \X Table |-> IF x[1] \in 1..Len(lines) THEN AddLine(x[2], lines[x[1]])
                                           ELSE x[2]]
           Def(g) == g = [n \in 0..Len(lines) |->
                            IF n = 0 THEN cltable ELSE AddLine(g[n - 1], lines[n])]
<1>0. \A n \in 1..Len(lines), x \in Table : AddLine(x, lines[n]) \in Table
  BY LineAdded
<1>1. step \in [Nat \X Table -> Table]
  BY <1>0
<1>2. \A n \in 1..Len(lines), x \in Table : step[<<n, x>>] = AddLine(x, lines[n])
  OBVIOUS
<1>3. cltable \in Table
  BY DEF cltable, Table
<1> HIDE DEF step
<1> PICK m \in Nat : m = Len(lines)
  OBVIOUS
<1>4. PICK h : h \in [0..m -> Table] /\ h[0] = cltable /\ \A n \in 1..m : h[n] = step[<<n, h[n - 1]>>]
  <2>1. \E h : Iterates(h, Table, cltable, m, step)
    BY <1>1, <1>3, Iterated
  <2> QED
    BY <2>1 DEF Iterates
<1>5. Def(h)
  <2>1. \A n \in 0..m : h[n] = IF n = 0 THEN cltable ELSE AddLine(h[n - 1], lines[n])
    <3> SUFFICES ASSUME NEW n \in 1..m PROVE h[n] = AddLine(h[n - 1], lines[n])
      BY <1>4
    <3>1. n - 1 \in 0..m
      OBVIOUS
    <3> QED
      BY <1>2, <1>4, <3>1
  <2> QED
    BY <1>4, <2>1
<1>6. PICK g : Def(g) /\ sj3_rkinit_sub(lines) = g[Len(lines)]
  <2> DEFINE c == CHOOSE g : Def(g)
  <2>1. Def(c)
    <3> HIDE DEF Def
    <3> QED
      BY <1>5
  <2>2. sj3_rkinit_sub(lines) = c[Len(lines)]
    BY DEF sj3_rkinit_sub
  <2> QED
    BY <2>1, <2>2
<1>7. g[0] = cltable /\ \A n \in 1..m : g[n] = AddLine(g[n - 1], lines[n])
  <2>1. \A n \in 0..m : g[n] = IF n = 0 THEN cltable ELSE AddLine(g[n - 1], lines[n])
    BY <1>6
  <2> QED
    BY <2>1
<1> DEFINE T == {n \in Nat : n <= m => g[n] \in Table}
<1>8. 0 \in T
  BY <1>3, <1>7
<1>9. ASSUME NEW n \in T PROVE n + 1 \in T
  <2> SUFFICES ASSUME n + 1 <= m PROVE g[n + 1] \in Table
    OBVIOUS
  <2>0. n \in Nat /\ (n <= m => g[n] \in Table)
    OBVIOUS
  <2> HIDE DEF T
  <2>1. n + 1 \in 1..m /\ (n + 1) - 1 = n /\ n <= m
    BY <2>0
  <2>2. g[n] \in Table /\ g[n + 1] = AddLine(g[n], lines[n + 1]) /\ n + 1 \in 1..Len(lines)
    BY <1>7, <2>0, <2>1
  <2> QED
    BY <1>0, <2>2
<1>10. T \subseteq Nat
  OBVIOUS
<1> HIDE DEF T
<1>11. T = Nat
  BY <1>8, <1>9, <1>10, SetInduction
<1>12. g \in [0..m -> Table]
  <2>1. \A n \in 0..m : g[n] \in Table
    BY <1>11 DEF T
  <2> QED
    BY <1>6, <2>1
<1> QED
  BY <1>6, <1>7, <1>12

LEMMA FindIs ==
    ASSUME NEW list \in Seq(Entry), NEW p \in Nat \ {0}, NEW w
    PROVE  LET i == Find(list, p, w)
           IN  \/ /\ i = None
                  /\ \A j \in p..Len(list) : rkmatch(w, list[j]) = NOMACH
               \/ /\ i \in p..Len(list) /\ i # None /\ rkmatch(w, list[i]) # NOMACH
                  /\ \A j \in p..(i - 1) : rkmatch(w, list[j]) = NOMACH
<1> DEFINE ok == {i \in p..Len(list) : rkmatch(w, list[i]) # NOMACH}
           f == IF ok = {} THEN None ELSE CHOOSE i \in ok : \A j \in ok : i <= j
<1>0. Len(list) \in Nat
  OBVIOUS
<1>1. Find(list, p, w) = f
  BY DEF Find
<1>2. CASE ok = {}
  BY <1>0, <1>1, <1>2
<1>3. CASE ok # {}
  <2>1. ok \subseteq Nat
    BY <1>0
  <2> HIDE DEF ok
  <2>2. \E i \in ok : \A j \in ok : i <= j
    BY <1>3, <2>1, LeastNatural
  <2>3. f \in ok /\ \A j \in ok : f <= j
    BY <1>3, <2>2
  <2> HIDE DEF f
  <2>4. f \in p..Len(list) /\ rkmatch(w, list[f]) # NOMACH
    BY <2>3 DEF ok
  <2>5. \A j \in p..(f - 1) : rkmatch(w, list[j]) = NOMACH
    <3>1. \A j \in p..Len(list) : rkmatch(w, list[j]) # NOMACH => f <= j
      BY <2>3 DEF ok
    <3> QED
      BY <1>0, <2>4, <3>1
  <2> QED
    BY <1>0, <1>1, <2>4, <2>5 DEF None
<1> QED
  BY <1>2, <1>3

----------------------------------------------------------------------------
(* Matching *)

LEMMA Rest ==
    ASSUME NEW w \in Seq(Char), w # <<>>
    PROVE  /\ Head(w) \in Char /\ Head(w) = w[1] /\ Tail(w) \in Seq(Char)
           /\ Len(Tail(w)) = Len(w) - 1 /\ Len(w) \in Nat \ {0}
           /\ \A i \in 1..(Len(w) - 1) : Tail(w)[i] = w[i + 1]
OBVIOUS

LEMMA Letters1 ==
    ASSUME NEW c \in Char
    PROVE  c \in Nat /\ WTOUPPER(c) \in Letter /\ (c \in Letter => WTOUPPER(c) = c /\ ~Wide(c))
BY DEF Char, Letter, WTOUPPER, Upper, LowByte, Wide

LEMMA EntryFields ==
    ASSUME NEW e \in Entry
    PROVE  /\ e.r_key \in Seq(Letter) /\ e.k_yomi \in Seq(Nat) /\ e.k_yomi # <<>>
           /\ e.r_str \in Seq(Letter) /\ Len(e.r_str) <= Len(e.r_key)
           /\ Len(e.r_key) \in Nat /\ Len(e.r_str) \in Nat /\ Len(e.k_yomi) \in Nat \ {0}
BY DEF Entry

\* Position i of the keys after the first agrees with the entry.
Agrees(w, e, i) == ~Wide(Tail(w)[i]) /\ WTOUPPER(Tail(w)[i]) = e.r_key[i]

LEMMA MatchIs ==
    ASSUME NEW w \in Seq(Char), w # <<>>, NEW e \in Entry
    PROVE  LET m == Len(e.r_key)
               l == Len(w) - 1
               refuses == /\ m # 0
                          /\ \/ \E i \in 1..l : i <= m /\ ~Agrees(w, e, i)
                             \/ m + 1 <= l /\ Wide(Tail(w)[m + 1])
           IN  /\ rkmatch(w, e) = NOMACH <=> refuses
               /\ rkmatch(w, e) = CONTINUE <=> ~refuses /\ l < m
               /\ rkmatch(w, e) = m + 1 <=> ~refuses /\ m <= l
               /\ rkmatch(w, e) \in {NOMACH, CONTINUE, m + 1}
<1> PICK m, l, r : m = Len(e.r_key) /\ l = Len(w) - 1 /\ r = Tail(w)
  OBVIOUS
<1>1. m \in Nat /\ l \in Nat /\ Len(r) = l
  BY Rest, EntryFields
<1> DEFINE same(i) == ~Wide(r[i]) /\ WTOUPPER(r[i]) = e.r_key[i]
           over == \E i \in (m + 1)..l : i = m + 1 /\ Wide(r[i])
           bad == \E i \in 1..l : i <= m /\ ~same(i)
<1>2. rkmatch(w, e) = IF m = 0 THEN 1 ELSE IF bad THEN NOMACH
                      ELSE IF l < m THEN CONTINUE ELSE IF over THEN NOMACH ELSE m + 1
  BY <1>1 DEF rkmatch
<1>3. over <=> m + 1 <= l /\ Wide(r[m + 1])
  BY <1>1
<1>4. bad <=> \E i \in 1..l : i <= m /\ ~Agrees(w, e, i)
  BY DEF Agrees
<1>5. bad => \E i \in 1..l : i <= m
  OBVIOUS
<1> HIDE DEF bad, over
<1> QED
  BY <1>1, <1>2, <1>3, <1>4 DEF NOMACH, CONTINUE

\* A character more does not make an entry fit again.
LEMMA NoMatchStays ==
    ASSUME NEW w \in Seq(Char), w # <<>>, NEW e \in Entry, NEW c \in Char,
           rkmatch(w, e) = NOMACH
    PROVE  rkmatch(Append(w, c), e) = NOMACH
<1> PICK m, l, v : m = Len(e.r_key) /\ l = Len(w) - 1 /\ v = Append(w, c)
  OBVIOUS
<1>1. /\ m \in Nat /\ l \in Nat /\ v \in Seq(Char) /\ v # <<>> /\ Len(v) - 1 = l + 1
      /\ \A i \in 1..l : Tail(v)[i] = Tail(w)[i]
  BY Rest, EntryFields
<1>2. m # 0
  BY MatchIs
<1>3. CASE \E i \in 1..l : i <= m /\ ~Agrees(w, e, i)
  <2>1. PICK i \in 1..l : i <= m /\ ~Agrees(w, e, i)
    BY <1>3
  <2>2. i \in 1..(l + 1) /\ ~Agrees(v, e, i)
    BY <1>1, <2>1 DEF Agrees
  <2>3. \E j \in 1..(Len(v) - 1) : j <= Len(e.r_key) /\ ~Agrees(v, e, j)
    BY <1>1, <2>1, <2>2
  <2> QED
    BY <1>1, <1>2, <2>3, MatchIs
<1>4. CASE m + 1 <= l /\ Wide(Tail(w)[m + 1])
  <2>1. m + 1 <= l + 1 /\ Wide(Tail(v)[m + 1])
    BY <1>1, <1>4
  <2> QED
    BY <1>1, <1>2, <2>1, MatchIs
<1> QED
  BY <1>3, <1>4, MatchIs

LEMMA LeftoverIs ==
    ASSUME NEW w \in Seq(Char), NEW s \in Seq(Letter), NEW n \in Nat,
           Len(s) < n, n <= Len(w)
    PROVE  /\ Leftover(w, n, s) \in Seq(Char)
           /\ Len(Leftover(w, n, s)) = Len(s) + (Len(w) - n)
<1> DEFINE back == [i \in 1..Len(s) |->
                      LET q == w[n - Len(s) + i] IN IF s[i] = WTOUPPER(q) THEN q ELSE s[i]]
           after == SubSeq(w, n + 1, Len(w))
<1>0. Len(s) \in Nat /\ Len(w) \in Nat
  OBVIOUS
<1>1. back \in Seq(Char) /\ Len(back) = Len(s)
  <2>1. \A i \in 1..Len(s) : back[i] \in Char
    <3> SUFFICES ASSUME NEW i \in 1..Len(s) PROVE back[i] \in Char
      OBVIOUS
    <3>1. n - Len(s) + i \in 1..Len(w)
      BY <1>0
    <3>2. w[n - Len(s) + i] \in Char /\ s[i] \in Char
      <4>1. w[n - Len(s) + i] \in Char
        BY <3>1
      <4>2. s[i] \in Letter
        OBVIOUS
      <4> QED
        BY <4>1, <4>2 DEF Char
    <3> QED
      BY <3>2
  <2> QED
    BY <1>0, <2>1
<1>2. after \in Seq(Char) /\ Len(after) = Len(w) - n
  BY <1>0
<1>3. Leftover(w, n, s) = back \o after
  BY DEF Leftover
<1> HIDE DEF back, after
<1>4. back \o after \in Seq(Char) /\ Len(back \o after) = Len(back) + Len(after)
  <2>1. back \in Seq(Char) /\ after \in Seq(Char)
    BY <1>1, <1>2
  <2> QED
    BY ONLY <2>1, Joined
<1> QED
  BY <1>1, <1>2, <1>3, <1>4

LEMMA CodesType ==
    ASSUME NEW e \in Entry, NEW n \in Nat
    PROVE  /\ MatchCodes(e, n) \in Seq(Code) /\ Len(MatchCodes(e, n)) = Len(e.k_yomi)
           /\ \A i \in 1..Len(e.k_yomi) : MatchCodes(e, n)[i].c = e.k_yomi[i]
<1>1. \A c \in Nat, i \in Int : Kana(c, i) \in Code /\ Kana(c, i).c = c
  BY DEF Kana, Code
<1>2. \A i \in 1..Len(e.k_yomi) : e.k_yomi[i] \in Nat
  BY EntryFields
<1>3. \A i \in 1..Len(e.k_yomi) : (IF i = 1 THEN n - Len(e.r_str) ELSE 0) \in Int
  BY EntryFields
<1>4. Len(e.k_yomi) \in Nat
  BY EntryFields
<1> QED
  BY <1>1, <1>2, <1>3, <1>4 DEF MatchCodes

----------------------------------------------------------------------------
(* The converter *)

Place == {NULL} \cup (Letter \X (Nat \ {0}))
\* The state between two searches; something is left to search with.
State == [w : Seq(Char), p : Place, wide : BOOLEAN, out : Seq(Code), ok : BOOLEAN, done : BOOLEAN]
Searching == {s \in State : s.done \/ s.w # <<>>}

First(s) == IF s.p = NULL THEN WTOUPPER(Head(s.w)) ELSE s.p[1]
From(s) == IF s.p = NULL THEN 1 ELSE s.p[2]
ListOf(s) == IF Wide(Head(s.w)) /\ ~s.wide THEN <<>> ELSE rcode[First(s)]
Hit(s) == Find(ListOf(s), From(s), s.w)
HitEntry(s) == ListOf(s)[Hit(s)]

LEMMA Places ==
    /\ \A p \in Place : p # NULL => p[1] \in Letter /\ p[2] \in Nat \ {0}
    /\ \A c \in Letter, i \in Nat \ {0} : <<c, i>> \in Place /\ <<c, i>> # NULL
<1>1. ASSUME NEW c, NEW i PROVE <<c, i>> # NULL
  <2>1. Len(<<c, i>>) = 2 /\ Len(NULL) = 0
    BY DEF NULL
  <2> QED
    BY <2>1
<1> QED
  BY <1>1 DEF Place

LEMMA SearchStart ==
    ASSUME rcode \in Table, NEW s \in State, s.w # <<>>
    PROVE  /\ First(s) \in Letter /\ From(s) \in Nat \ {0}
           /\ ListOf(s) \in Seq(Entry)
<1>1. s.p \in Place /\ s.w \in Seq(Char)
  BY DEF State
<1>2. First(s) \in Letter /\ From(s) \in Nat \ {0}
  BY <1>1, Places, Rest, Letters1 DEF First, From
<1>3. rcode[First(s)] \in Seq(Entry)
  BY <1>2 DEF Table
<1> QED
  BY <1>2, <1>3 DEF ListOf

\* The five outcomes of a search.
Waits(s, t) ==
    /\ Hit(s) \in Nat \ {0} /\ rkmatch(s.w, HitEntry(s)) = CONTINUE
    /\ t = [s EXCEPT !.p = <<First(s), Hit(s)>>, !.done = TRUE]
Matches(s, t) ==
    LET e == HitEntry(s)
        m == Len(e.r_key) + 1
    IN  /\ Hit(s) \in Nat \ {0} /\ e \in Entry /\ rkmatch(s.w, e) = m /\ m <= Len(s.w)
        /\ t = [s EXCEPT !.w = Leftover(s.w, m, e.r_str), !.p = NULL,
                         !.out = @ \o MatchCodes(e, m), !.wide = TRUE,
                         !.done = (m = Len(s.w))]
Ends(s, t) ==
    /\ Hit(s) = None /\ Len(s.w) = 1
    /\ t = [s EXCEPT !.w = <<>>, !.p = NULL, !.done = TRUE,
                     !.out = Append(@, Kana(s.w[1], 1))]
Refuses(s, t, strict) ==
    /\ Hit(s) = None /\ Len(s.w) # 1 /\ strict
    /\ t = [s EXCEPT !.ok = FALSE, !.p = NULL, !.done = TRUE]
Drops(s, t, strict) ==
    /\ Hit(s) = None /\ Len(s.w) # 1 /\ ~strict
    /\ t = [s EXCEPT !.w = Tail(@), !.p = NULL, !.wide = FALSE,
                     !.out = Append(@, Kana(s.w[1], 1))]

LEMMA SearchIs ==
    ASSUME rcode \in Table, NEW s \in State, s.w # <<>>, NEW strict \in BOOLEAN, NEW t
    PROVE  t = Search(s, strict) <=>
             \/ Waits(s, t) \/ Matches(s, t) \/ Ends(s, t)
             \/ Refuses(s, t, strict) \/ Drops(s, t, strict)
<1> PICK i, e, m, w : i = Hit(s) /\ e = HitEntry(s) /\ m = rkmatch(s.w, e) /\ w = s.w
  OBVIOUS
<1>1. Search(s, strict) =
         IF i # None /\ m = CONTINUE
         THEN [s EXCEPT !.p = <<First(s), i>>, !.done = TRUE]
         ELSE IF i # None
         THEN [s EXCEPT !.w = Leftover(w, m, e.r_str), !.p = NULL, !.out = @ \o MatchCodes(e, m),
                        !.wide = TRUE, !.done = (m = Len(w))]
         ELSE IF Len(w) = 1
         THEN [s EXCEPT !.w = <<>>, !.p = NULL, !.done = TRUE, !.out = Append(@, Kana(w[1], 1))]
         ELSE IF strict
         THEN [s EXCEPT !.ok = FALSE, !.p = NULL, !.done = TRUE]
         ELSE [s EXCEPT !.w = Tail(@), !.p = NULL, !.wide = FALSE, !.out = Append(@, Kana(w[1], 1))]
  BY DEF Search, Hit, HitEntry, ListOf, First, From
<1>2. \/ i = None
      \/ /\ i \in Nat \ {0} /\ e \in Entry
         /\ m = CONTINUE \/ (m = Len(e.r_key) + 1 /\ m <= Len(w) /\ m # CONTINUE)
  <2>1. ListOf(s) \in Seq(Entry) /\ From(s) \in Nat \ {0} /\ w \in Seq(Char) /\ w # <<>>
    BY SearchStart DEF State
  <2> PICK list, p : list = ListOf(s) /\ p = From(s)
    OBVIOUS
  <2>2. i = None \/ (i \in p..Len(list) /\ rkmatch(w, list[i]) # NOMACH)
    <3>1. i = Find(list, p, w)
      BY DEF Hit
    <3>2. list \in Seq(Entry) /\ p \in Nat \ {0}
      BY <2>1
    <3> QED
      BY <3>1, <3>2, FindIs
  <2>3. CASE i # None
    <3>1. i \in Nat \ {0} /\ e \in Entry /\ m # NOMACH
      BY <2>1, <2>2, <2>3 DEF HitEntry
    <3> PICK k, l : k = Len(e.r_key) /\ l = Len(w)
      OBVIOUS
    <3>2. m \in {NOMACH, CONTINUE, k + 1} /\ (m = k + 1 => k <= l - 1)
      BY <2>1, <3>1, MatchIs
    <3>3. k \in Nat /\ l \in Nat
      BY <2>1, <3>1, EntryFields
    <3>4. m = CONTINUE \/ (m = k + 1 /\ m <= l /\ m # CONTINUE)
      BY <3>1, <3>2, <3>3 DEF CONTINUE
    <3> QED
      BY <3>1, <3>4
  <2> QED
    BY <2>3
<1>3. None \notin Nat \ {0}
  BY DEF None
<1>4. CASE i = None
  <2>1. t = Search(s, strict) <=>
           IF Len(w) = 1
           THEN t = [s EXCEPT !.w = <<>>, !.p = NULL, !.done = TRUE, !.out = Append(@, Kana(w[1], 1))]
           ELSE IF strict
           THEN t = [s EXCEPT !.ok = FALSE, !.p = NULL, !.done = TRUE]
           ELSE t = [s EXCEPT !.w = Tail(@), !.p = NULL, !.wide = FALSE, !.out = Append(@, Kana(w[1], 1))]
    BY <1>1, <1>4
  <2>2. ~Waits(s, t) /\ ~Matches(s, t)
    BY <1>3, <1>4 DEF Waits, Matches
  <2>3. Ends(s, t) <=> Len(w) = 1 /\
           t = [s EXCEPT !.w = <<>>, !.p = NULL, !.done = TRUE, !.out = Append(@, Kana(w[1], 1))]
    BY <1>4 DEF Ends
  <2>4. Refuses(s, t, strict) <=> Len(w) # 1 /\ strict /\
           t = [s EXCEPT !.ok = FALSE, !.p = NULL, !.done = TRUE]
    BY <1>4 DEF Refuses
  <2>5. Drops(s, t, strict) <=> Len(w) # 1 /\ ~strict /\
           t = [s EXCEPT !.w = Tail(@), !.p = NULL, !.wide = FALSE, !.out = Append(@, Kana(w[1], 1))]
    BY <1>4 DEF Drops
  <2> QED
    BY <2>1, <2>2, <2>3, <2>4, <2>5, Zenon
<1>5. CASE i # None
  <2>1. ~Ends(s, t) /\ ~Refuses(s, t, strict) /\ ~Drops(s, t, strict)
    BY <1>5 DEF Ends, Refuses, Drops
  <2>2. CASE m = CONTINUE
    <3>1. t = Search(s, strict) <=> t = [s EXCEPT !.p = <<First(s), i>>, !.done = TRUE]
      BY <1>1, <1>5, <2>2
    <3>2. Waits(s, t) <=> t = [s EXCEPT !.p = <<First(s), i>>, !.done = TRUE]
      BY <1>2, <1>5, <2>2 DEF Waits
    <3>3. ~Matches(s, t)
      <4>1. Len(e.r_key) + 1 # CONTINUE
        BY <1>2, <1>5, EntryFields DEF CONTINUE
      <4> QED
        BY <2>2, <4>1 DEF Matches
    <3> QED
      BY <2>1, <3>1, <3>2, <3>3
  <2>3. CASE m # CONTINUE
    <3>1. t = Search(s, strict) <=>
             t = [s EXCEPT !.w = Leftover(w, m, e.r_str), !.p = NULL, !.out = @ \o MatchCodes(e, m),
                           !.wide = TRUE, !.done = (m = Len(w))]
      BY <1>1, <1>5, <2>3
    <3>2. ~Waits(s, t)
      BY <2>3 DEF Waits
    <3>3. Matches(s, t) <=>
             t = [s EXCEPT !.w = Leftover(w, m, e.r_str), !.p = NULL, !.out = @ \o MatchCodes(e, m),
                           !.wide = TRUE, !.done = (m = Len(w))]
      <4>1. m = Len(e.r_key) + 1
        BY <1>2, <1>5, <2>3
      <4>2. Matches(s, t) <=>
               t = [s EXCEPT !.w = Leftover(s.w, Len(e.r_key) + 1, e.r_str), !.p = NULL,
                         !.out = @ \o MatchCodes(e, Len(e.r_key) + 1), !.wide = TRUE,
                         !.done = (Len(e.r_key) + 1 = Len(s.w))]
        BY <1>2, <1>5, <2>3 DEF Matches
      <4> QED
        BY <4>1, <4>2
    <3> QED
      BY <2>1, <3>1, <3>2, <3>3
  <2> QED
    BY <2>2, <2>3
<1> QED
  BY <1>4, <1>5

LEMMA SearchType ==
    ASSUME rcode \in Table, NEW s \in Searching, ~s.done, NEW strict \in BOOLEAN
    PROVE  Search(s, strict) \in Searching
<1> PICK t, w, o, l : t = Search(s, strict) /\ w = s.w /\ o = s.out /\ l = Len(w)
  OBVIOUS
<1>1. s \in State /\ w # <<>> /\ w \in Seq(Char) /\ o \in Seq(Code) /\ NULL \in Place
      /\ s.p \in Place /\ s.ok \in BOOLEAN /\ s.wide \in BOOLEAN
  BY DEF Searching, State, Place
<1>2. \/ Waits(s, t) \/ Matches(s, t) \/ Ends(s, t)
      \/ Refuses(s, t, strict) \/ Drops(s, t, strict)
  BY <1>1, SearchIs
<1>3. Append(o, Kana(w[1], 1)) \in Seq(Code) /\ l \in Nat \ {0}
  <2>1. w[1] \in Nat /\ l \in Nat \ {0}
    BY <1>1, Rest, Letters1
  <2>2. Kana(w[1], 1) \in Code
    BY <2>1 DEF Kana, Code
  <2> QED
    BY <1>1, <2>1, <2>2
<1>5. CASE Waits(s, t)
  <2> PICK q : q = <<First(s), Hit(s)>>
    OBVIOUS
  <2>1. q \in Place
    BY <1>1, <1>5, SearchStart, Places DEF Waits
  <2>2. t = [s EXCEPT !.p = q, !.done = TRUE]
    BY <1>5 DEF Waits
  <2>3. t = [w |-> w, p |-> q, wide |-> s.wide, out |-> o, ok |-> s.ok, done |-> TRUE]
    BY <1>1, <2>2 DEF State
  <2> QED
    BY <1>1, <2>1, <2>3 DEF Searching, State
<1>6. CASE Matches(s, t)
  <2> PICK e, m, v, x : /\ e = HitEntry(s) /\ m = Len(e.r_key) + 1
                        /\ v = Leftover(w, m, e.r_str) /\ x = o \o MatchCodes(e, m)
    OBVIOUS
  <2> PICK d \in BOOLEAN : d <=> m = l
    OBVIOUS
  <2>1. e \in Entry /\ m <= l
    BY <1>6 DEF Matches
  <2>7. t = [s EXCEPT !.w = v, !.p = NULL, !.out = x, !.wide = TRUE, !.done = d]
    BY <1>6 DEF Matches
  <2> PICK y, k : y = e.r_str /\ k = Len(y)
    OBVIOUS
  <2>2. m \in Nat /\ y \in Seq(Letter) /\ k < m /\ k \in Nat
    BY <2>1, EntryFields
  <2>3. v \in Seq(Char) /\ Len(v) = k + (l - m)
    BY <1>1, <2>1, <2>2, LeftoverIs
  <2>4. d \/ v # <<>>
    <3>0. l \in Nat /\ m \in Nat /\ k \in Nat /\ m <= l
      BY <1>3, <2>1, <2>2
    <3>1. m # l => k + (l - m) # 0
      BY ONLY <3>0
    <3> QED
      BY <2>3, <3>1
  <2>5. x \in Seq(Code)
    <3>1. MatchCodes(e, m) \in Seq(Code)
      BY <2>1, <2>2, CodesType
    <3> QED
      BY <1>1, <3>1
  <2>6. t = [w |-> v, p |-> NULL, wide |-> TRUE, out |-> x, ok |-> s.ok, done |-> d]
    BY <1>1, <2>7 DEF State
  <2> QED
    BY <1>1, <2>3, <2>4, <2>5, <2>6 DEF Searching, State
<1>7. CASE Ends(s, t)
  <2> PICK x, v : x = Append(o, Kana(w[1], 1)) /\ v = <<>>
    OBVIOUS
  <2>1. x \in Seq(Code) /\ v \in Seq(Char)
    BY <1>3
  <2>2. t = [s EXCEPT !.w = v, !.p = NULL, !.done = TRUE, !.out = x]
    BY <1>7 DEF Ends
  <2>3. t = [w |-> v, p |-> NULL, wide |-> s.wide, out |-> x, ok |-> s.ok, done |-> TRUE]
    BY <1>1, <2>2 DEF State
  <2> QED
    BY <1>1, <2>1, <2>3 DEF Searching, State
<1>8. CASE Refuses(s, t, strict)
  <2>1. t = [w |-> w, p |-> NULL, wide |-> s.wide, out |-> o, ok |-> FALSE, done |-> TRUE]
    BY <1>1, <1>8 DEF Refuses, State
  <2> QED
    BY <1>1, <2>1 DEF Searching, State
<1>9. CASE Drops(s, t, strict)
  <2> PICK x, v : x = Append(o, Kana(w[1], 1)) /\ v = Tail(w)
    OBVIOUS
  <2>1. l # 1
    BY <1>9 DEF Drops
  <2>2. v \in Seq(Char) /\ v # <<>>
    <3>1. Tail(w) \in Seq(Char) /\ Len(Tail(w)) = l - 1 /\ l - 1 # 0
      BY <1>1, <1>3, <2>1, Rest
    <3> QED
      BY <3>1
  <2>3. t = [s EXCEPT !.w = v, !.p = NULL, !.wide = FALSE, !.out = x]
    BY <1>9 DEF Drops
  <2>4. t = [w |-> v, p |-> NULL, wide |-> FALSE, out |-> x, ok |-> s.ok, done |-> FALSE]
    BY <1>1, <2>3 DEF State
  <2> QED
    BY <1>1, <1>3, <2>2, <2>4 DEF Searching, State
<1> QED
  BY <1>2, <1>5, <1>6, <1>7, <1>8, <1>9

\* What sj3_rkconv2 starts from.
Begun(w, p) == [w |-> w, p |-> p, wide |-> FALSE, out |-> <<>>, ok |-> TRUE, done |-> FALSE]

\* The states from which sj3_rkconv2 takes its result.
Searches(g, w, p, strict) ==
    /\ g \in [0..(Len(w) + 1) -> Searching]
    /\ g[0] = Begun(w, p)
    /\ \A n \in 1..(Len(w) + 1) :
          g[n] = IF g[n - 1].done THEN g[n - 1] ELSE Search(g[n - 1], strict)
    /\ sj3_rkconv2(w, p, strict) = g[Len(w) + 1]

LEMMA ConverterDefined ==
    ASSUME rcode \in Table, NEW w \in Seq(Char), w # <<>>, NEW p \in Place, NEW strict \in BOOLEAN
    PROVE  \E g : Searches(g, w, p, strict)
<1> DEFINE m == Len(w) + 1
           next(s) == IF s.done THEN s ELSE Search(s, strict)
           step == [x \in Nat \X Searching |-> next(x[2])]
           Def(g) == g = [n \in 0..(Len(w) + 1) |->
                            IF n = 0
                            THEN [w |-> w, p |-> p, wide |-> FALSE, out |-> <<>>,
                                  ok |-> TRUE, done |-> FALSE]
                            ELSE LET s == g[n - 1]
                                 IN  IF s.done THEN s ELSE Search(s, strict)]
<1>0. \A s \in Searching : next(s) \in Searching
  BY SearchType
<1>1. m \in Nat
  OBVIOUS
<1>2. Begun(w, p) \in Searching
  BY DEF Begun, Searching, State
<1> DEFINE Nexts(g) == g = [n \in 0..m |-> IF n = 0 THEN Begun(w, p) ELSE next(g[n - 1])]
<1>3. \A g : Def(g) <=> Nexts(g)
  BY DEF Begun
<1>4. sj3_rkconv2(w, p, strict) = (CHOOSE g : Def(g))[m]
  BY DEF sj3_rkconv2
<1>5. \A s : s.done => next(s) = s
  OBVIOUS
<1> HIDE DEF next, m
<1>6. step \in [Nat \X Searching -> Searching]
  BY <1>0
<1>7. \A n \in Nat, s \in Searching : step[<<n, s>>] = next(s)
  OBVIOUS
<1> HIDE DEF step
<1>8. PICK h : h \in [0..m -> Searching] /\ h[0] = Begun(w, p)
               /\ \A n \in 1..m : h[n] = step[<<n, h[n - 1]>>]
  <2>1. \E h : Iterates(h, Searching, Begun(w, p), m, step)
    BY <1>1, <1>2, <1>6, Iterated
  <2> QED
    BY <2>1 DEF Iterates
<1>9. Nexts(h)
  <2>1. \A n \in 0..m : h[n] = IF n = 0 THEN Begun(w, p) ELSE next(h[n - 1])
    <3> SUFFICES ASSUME NEW n \in 1..m PROVE h[n] = next(h[n - 1])
      BY <1>1, <1>8
    <3>1. n - 1 \in 0..m /\ n \in Nat
      BY <1>1
    <3> QED
      BY <1>7, <1>8, <3>1
  <2> QED
    BY <1>8, <2>1
<1>10. PICK g : Nexts(g) /\ sj3_rkconv2(w, p, strict) = g[m]
  <2> DEFINE c == CHOOSE g : Def(g)
  <2>1. Def(c)
    <3>1. Def(h)
      BY <1>3, <1>9
    <3> HIDE DEF Def
    <3> QED
      BY <3>1
  <2>2. sj3_rkconv2(w, p, strict) = c[m]
    BY <1>4
  <2> HIDE DEF c, Def, Nexts
  <2> QED
    BY <1>3, <2>1, <2>2
<1>11. g[0] = Begun(w, p) /\ \A n \in 1..m : g[n] = next(g[n - 1])
  <2>1. \A n \in 0..m : g[n] = IF n = 0 THEN Begun(w, p) ELSE next(g[n - 1])
    BY <1>10
  <2> QED
    BY <1>1, <2>1
<1> DEFINE T == {n \in Nat : n <= m => g[n] \in Searching}
<1>12. 0 \in T
  BY <1>2, <1>11
<1>13. ASSUME NEW n \in T PROVE n + 1 \in T
  <2> SUFFICES ASSUME n + 1 <= m PROVE g[n + 1] \in Searching
    OBVIOUS
  <2>0. n \in Nat /\ (n <= m => g[n] \in Searching)
    OBVIOUS
  <2> HIDE DEF T
  <2>1. n + 1 \in 1..m /\ (n + 1) - 1 = n /\ n <= m
    BY <1>1, <2>0
  <2>2. g[n] \in Searching /\ g[n + 1] = next(g[n])
    BY <1>11, <2>0, <2>1
  <2> QED
    BY <1>0, <2>2
<1>14. T \subseteq Nat
  OBVIOUS
<1> HIDE DEF T
<1>15. T = Nat
  BY <1>12, <1>13, <1>14, SetInduction
<1>16. g \in [0..m -> Searching]
  <2>1. \A n \in 0..m : g[n] \in Searching
    BY <1>1, <1>15 DEF T
  <2> QED
    BY <1>10, <2>1
<1>17. Searches(g, w, p, strict)
  BY <1>10, <1>11, <1>16 DEF Searches, next, m
<1> QED
  BY <1>17

LEMMA ConverterType ==
    ASSUME rcode \in Table, NEW w \in Seq(Char), w # <<>>, NEW p \in Place, NEW strict \in BOOLEAN
    PROVE  sj3_rkconv2(w, p, strict) \in Searching
<1> PICK g, m : Searches(g, w, p, strict) /\ m = Len(w) + 1
  BY ConverterDefined
<1>1. m \in 0..m
  OBVIOUS
<1>2. g \in [0..m -> Searching] /\ sj3_rkconv2(w, p, strict) = g[m]
  BY DEF Searches
<1> QED
  BY <1>1, <1>2

----------------------------------------------------------------------------
(* The screen and the conversion that can be taken back *)

TypeOK ==
    /\ rcode \in Table /\ file \in Seq(Line) /\ rk_errin \in BOOLEAN
    /\ rline \in Seq(Char) /\ lstr \in Seq(Char) /\ rktblp \in Place
    /\ rk_cflag \in Int /\ rk_klen \in Nat
    /\ typed \in Seq(Char) /\ erased \in BOOLEAN /\ stale \in BOOLEAN

\* The screen is kana and then the pending romaji.  While a conversion can
\* still be taken back, no more keys are counted than are pending, and the
\* last rk_klen kana stand where lstr stood.
Screens(base) ==
    /\ base \in Seq(Code)
    /\ screen = base \o Pending(rline)
    /\ rk_cflag >= 0 =>
          /\ rk_cflag <= Len(rline)
          /\ rk_klen <= Len(base)
          /\ before = SubSeq(base, 1, Len(base) - rk_klen) \o Pending(lstr)
Undoable == \E base : Screens(base)

LEMMA NothingPending == Pending(<<>>) = <<>> /\ <<>> \o Pending(<<>>) = <<>>
BY DEF Pending

LEMMA PendingGrows ==
    ASSUME NEW base \in Seq(Code), NEW w \in Seq(Char), NEW c \in Char
    PROVE  Show(base \o Pending(w), Romaji(c)) = base \o Pending(Append(w, c))
<1> PICK p, q, l, n, d : /\ p = Pending(w) /\ q = Pending(Append(w, c)) /\ l = Len(base)
                         /\ n = Len(w) /\ d = Romaji(c)
  OBVIOUS
<1>1. /\ p \in Seq(Mark) /\ q \in Seq(Mark) /\ Len(p) = n /\ Len(q) = n + 1 /\ l \in Nat /\ n \in Nat
  <2>1. Append(w, c) \in Seq(Char) /\ Len(Append(w, c)) = n + 1
    OBVIOUS
  <2>2. q \in Seq(Mark) /\ Len(q) = Len(Append(w, c))
    BY <2>1, PendingType
  <2>3. p \in Seq(Mark) /\ Len(p) = n
    BY PendingType
  <2> QED
    BY <2>1, <2>2, <2>3
<1>2. q[n + 1] = d /\ \A i \in 1..n : q[i] = p[i]
  BY DEF Pending
<1>3. base \in Seq(Cell) /\ p \in Seq(Cell) /\ q \in Seq(Cell) /\ d \in Cell
  <2>1. d \in Mark
    BY DEF Romaji, Mark
  <2> QED
    BY <1>1, <2>1 DEF Cell
<1>4. q = Append(p, d)
  <2> PICK x : x = Append(p, d)
    OBVIOUS
  <2>1. x \in Seq(Cell) /\ Len(x) = n + 1 /\ x[n + 1] = d /\ \A i \in 1..n : x[i] = p[i]
    BY <1>1, <1>3
  <2>2. \A i \in 1..(n + 1) : q[i] = x[i]
    <3> SUFFICES ASSUME NEW i \in 1..(n + 1) PROVE q[i] = x[i]
      OBVIOUS
    <3>1. i = n + 1 \/ i \in 1..n
      BY <1>1
    <3> QED
      BY <1>2, <2>1, <3>1
  <2> QED
    BY <1>1, <1>3, <2>1, <2>2
<1>5. base \o Append(p, d) = Append(base \o p, d)
  BY <1>3
<1>6. Show(base \o p, d) = Append(base \o p, d)
  <2>1. d.k = "romaji"
    BY DEF Romaji
  <2> QED
    BY <2>1 DEF Show
<1> QED
  BY <1>4, <1>5, <1>6

LEMMA PendingShrinks ==
    ASSUME NEW base \in Seq(Code), NEW w \in Seq(Char), w # <<>>
    PROVE  Show(base \o Pending(w), Back("back_romaji")) = base \o Pending(Front(w))
<1> PICK p, q, l, n, z : /\ p = Pending(w) /\ q = Pending(Front(w)) /\ l = Len(base)
                         /\ n = Len(w) /\ z = base \o p
  OBVIOUS
<1>0. Front(w) \in Seq(Char) /\ Len(Front(w)) = n - 1 /\ (\A i \in 1..(n - 1) : Front(w)[i] = w[i])
      /\ n \in Nat \ {0}
  BY FrontIs
<1>1. /\ p \in Seq(Mark) /\ q \in Seq(Mark) /\ Len(p) = n /\ Len(q) = n - 1 /\ l \in Nat
      /\ \A i \in 1..n : p[i].k = "romaji"
  BY <1>0, PendingType
<1>2. \A i \in 1..(n - 1) : q[i] = p[i]
  BY <1>0 DEF Pending
<1>3. base \in Seq(Cell) /\ p \in Seq(Cell) /\ q \in Seq(Cell)
  BY <1>1 DEF Cell
<1>4. /\ z \in Seq(Cell) /\ Len(z) = l + n /\ (\A i \in 1..l : z[i] = base[i])
      /\ \A i \in 1..n : z[l + i] = p[i]
  <2>1. base \o p \in Seq(Cell) /\ Len(base \o p) = Len(base) + Len(p)
    BY ONLY <1>3, Joined
  <2>2. \A i \in 1..Len(base) : (base \o p)[i] = base[i]
    BY ONLY <1>3, Joined
  <2>3. \A i \in 1..Len(p) : (base \o p)[Len(base) + i] = p[i]
    BY ONLY <1>3, Joined
  <2> QED
    BY <1>1, <2>1, <2>2, <2>3
<1>5. z # <<>> /\ Last(z).k = "romaji"
  <2>1. z[l + n].k = "romaji" /\ l + n # 0
    <3>1. n \in 1..n /\ l + n # 0
      BY <1>0, <1>1
    <3>2. z[l + n] = p[n]
      BY <1>4, <3>1
    <3>3. p[n].k = "romaji"
      BY <1>1, <3>1
    <3> QED
      BY <3>1, <3>2, <3>3
  <2> QED
    BY <1>4, <2>1 DEF Last
<1>6. Show(z, Back("back_romaji")) = Front(z)
  <2> PICK c : c = Back("back_romaji")
    OBVIOUS
  <2>1. c.k = "back_romaji"
    BY DEF Back
  <2>2. Show(z, c) = IF z # <<>> /\ Last(z).k = "romaji" THEN Front(z)
                     ELSE Append(z, [k |-> "?"])
    BY <2>1, Zenon DEF Show
  <2> QED
    BY <1>5, <2>2
<1>7. Front(z) = base \o q
  <2> PICK x, y : x = Front(z) /\ y = base \o q
    OBVIOUS
  <2>1. x \in Seq(Cell) /\ Len(x) = l + n - 1 /\ \A i \in 1..(l + n - 1) : x[i] = z[i]
    <3>1. z \in Seq(Cell) /\ z # <<>> /\ Len(z) - 1 = l + n - 1
      BY <1>0, <1>1, <1>4, <1>5
    <3>2. /\ Front(z) \in Seq(Cell) /\ Len(Front(z)) = Len(z) - 1
          /\ \A i \in 1..(Len(z) - 1) : Front(z)[i] = z[i]
      BY ONLY <3>1, FrontIs
    <3> QED
      BY <3>1, <3>2
  <2>2. y \in Seq(Cell) /\ Len(y) = l + (n - 1)
    <3>1. base \o q \in Seq(Cell) /\ Len(base \o q) = Len(base) + Len(q)
      BY ONLY <1>3, Joined
    <3> QED
      BY <1>1, <3>1
  <2>3. (\A i \in 1..l : y[i] = base[i]) /\ \A i \in 1..(n - 1) : y[l + i] = q[i]
    <3>1. \A i \in 1..Len(base) : (base \o q)[i] = base[i]
      BY ONLY <1>3, Joined
    <3>2. \A i \in 1..Len(q) : (base \o q)[Len(base) + i] = q[i]
      BY ONLY <1>3, Joined
    <3> QED
      BY <1>1, <3>1, <3>2
  <2>4. \A i \in 1..(l + n - 1) : x[i] = y[i]
    <3> SUFFICES ASSUME NEW i \in 1..(l + n - 1) PROVE x[i] = y[i]
      OBVIOUS
    <3>0. l \in Nat /\ n \in Nat \ {0} /\ i \in 1..(l + n - 1) /\ x[i] = z[i]
      BY <1>0, <1>1, <2>1
    <3>1. CASE i <= l
      <4>1. i \in 1..l
        BY ONLY <3>0, <3>1
      <4>2. z[i] = base[i] /\ y[i] = base[i]
        BY <1>4, <2>3, <4>1
      <4> QED
        BY <3>0, <4>2
    <3>2. CASE i > l
      <4> PICK j : j = i - l
        OBVIOUS
      <4>1. j \in 1..(n - 1) /\ l + j = i /\ j \in 1..n
        BY ONLY <3>0, <3>2, j = i - l
      <4>2. z[l + j] = p[j]
        BY <1>4, <4>1
      <4>3. y[l + j] = q[j]
        BY <2>3, <4>1
      <4>4. q[j] = p[j]
        BY <1>2, <4>1
      <4> QED
        BY <3>0, <4>1, <4>2, <4>3, <4>4
    <3>3. i <= l \/ i > l
      BY ONLY <3>0
    <3> QED
      BY <3>1, <3>2, <3>3
  <2> PICK k : k = l + n - 1
    OBVIOUS
  <2>5. Len(x) = k /\ Len(y) = k
    <3>1. l + (n - 1) = l + n - 1
      BY <1>0, <1>1
    <3> QED
      BY <2>1, <2>2, <3>1
  <2>6. x \in Seq(Cell) /\ y \in Seq(Cell) /\ Len(x) = Len(y) /\ \A i \in 1..Len(x) : x[i] = y[i]
    BY <2>1, <2>2, <2>4, <2>5
  <2>7. x = y
    BY ONLY <2>6, SeqEqual
  <2> QED
    BY <2>7
<1> QED
  BY <1>6, <1>7

LEMMA Follows ==
    ASSUME TypeOK, Undoable
    PROVE  ScreenFollows
<1> PICK base : Screens(base)
  BY DEF Undoable
<1> PICK p, l, n, z : p = Pending(rline) /\ l = Len(base) /\ n = Len(rline) /\ z = screen
  OBVIOUS
<1>1. p \in Seq(Mark) /\ Len(p) = n /\ rline \in Seq(Char) /\ n \in Nat
  BY PendingType DEF TypeOK
<1>2. base \in Seq(Code) /\ l \in Nat /\ z = base \o p
  BY DEF Screens
<1>3. base \in Seq(Cell) /\ p \in Seq(Cell)
  BY <1>1, <1>2 DEF Cell
<1>4. z \in Seq(Cell) /\ Len(z) = l + n
  <2>1. base \o p \in Seq(Cell) /\ Len(base \o p) = Len(base) + Len(p)
    BY ONLY <1>3, Joined
  <2> QED
    BY <1>1, <1>2, <2>1
<1>5. \A i \in 1..l : z[i] = base[i]
  <2>1. \A i \in 1..Len(base) : (base \o p)[i] = base[i]
    BY ONLY <1>3, Joined
  <2> QED
    BY <1>2, <2>1
<1>6. \A i \in 1..n : z[l + i] = p[i]
  <2>1. \A i \in 1..Len(p) : (base \o p)[Len(base) + i] = p[i]
    BY ONLY <1>3, Joined
  <2> QED
    BY <1>1, <1>2, <2>1
<1>7. Len(screen) - Len(rline) = l
  BY <1>1, <1>2, <1>4
<1>8. SubSeq(z, l + 1, Len(z)) = p
  <2> PICK x : x = SubSeq(z, l + 1, Len(z))
    OBVIOUS
  <2>1. x \in Seq(Cell) /\ Len(x) = n /\ \A i \in 1..n : x[i] = z[l + i]
    BY <1>1, <1>2, <1>4
  <2> QED
    BY <1>1, <1>3, <1>6, <2>1
<1>9. \A i \in 1..l : screen[i].k = "kana"
  <2>1. \A i \in 1..l : base[i] \in Code
    BY <1>2
  <2>2. \A x \in Code : x.k = "kana"
    BY DEF Code
  <2> QED
    BY <1>5, <2>1, <2>2
<1>10. ScreenFollows <=> /\ l >= 0
                         /\ SubSeq(screen, l + 1, Len(screen)) = Pending(rline)
                         /\ \A i \in 1..l : screen[i].k = "kana"
  <2> PICK x : x = Len(screen) - Len(rline)
    OBVIOUS
  <2>1. ScreenFollows <=> /\ x >= 0
                          /\ SubSeq(screen, x + 1, Len(screen)) = Pending(rline)
                          /\ \A i \in 1..x : screen[i].k = "kana"
    BY Zenon DEF ScreenFollows
  <2>2. x = l
    BY <1>7
  <2> QED
    BY <2>1, <2>2, Zenon
<1>11. l >= 0
  BY <1>2
<1>12. SubSeq(screen, l + 1, Len(screen)) = Pending(rline)
  BY <1>8, Zenon
<1> QED
  BY <1>9, <1>10, <1>11, <1>12, Zenon

\* Each action keeps the screen as the invariant says, and the erase key just
\* after a conversion gives the screen that was there before.
LEMMA ClearUndo ==
    ASSUME Clear
    PROVE  Undoable'
<1>1. <<>> \in Seq(Code)
  OBVIOUS
<1>2. Screens(<<>>)'
  BY <1>1, NothingPending DEF Clear, Screens
<1> QED
  BY <1>2 DEF Undoable

LEMMA EraseConversionUndo ==
    ASSUME TypeOK, Undoable, EraseConversion
    PROVE  Undoable' /\ screen' = before
<1> PICK base : Screens(base)
  BY DEF Undoable
<1> PICK k, cut : k = rk_klen /\ cut = SubSeq(base, 1, Len(base) - k)
  OBVIOUS
<1>1. base \in Seq(Code) /\ k \in Nat /\ k \in 0..Len(base) /\ before = cut \o Pending(lstr)
      /\ screen = base \o Pending(rline)
  <2>1. rk_cflag = 0 /\ k \in Nat
    BY DEF EraseConversion, TypeOK
  <2>2. base \in Seq(Code) /\ screen = base \o Pending(rline) /\ k <= Len(base)
        /\ before = cut \o Pending(lstr)
    BY <2>1 DEF Screens
  <2>3. Len(base) \in Nat
    BY <2>2
  <2> QED
    BY <2>1, <2>2, <2>3
<1>2. rline \in Seq(Char) /\ lstr \in Seq(Char) /\ <<>> \in Seq(Code)
  BY DEF TypeOK
<1>3. screen' = ShowAll(base \o Pending(rline),
                        Times("back_romaji", Len(rline)) \o Times("back", k) \o Pending(lstr))
  BY <1>1 DEF EraseConversion
<1>4. screen' = cut \o Pending(lstr)
  BY <1>1, <1>2, <1>3, Rebuilt
<1>5. cut \in Seq(Code)
  BY <1>1
<1>6. rline' = lstr /\ rk_cflag' = -1
  BY DEF EraseConversion
<1>7. Screens(cut)'
  BY <1>4, <1>5, <1>6 DEF Screens
<1> QED
  BY <1>1, <1>4, <1>7 DEF Undoable

LEMMA EraseKeyUndo ==
    ASSUME TypeOK, Undoable, EraseKey
    PROVE  Undoable'
<1> PICK base : Screens(base)
  BY DEF Undoable
<1>1. base \in Seq(Code) /\ screen = base \o Pending(rline) /\ rline \in Seq(Char) /\ rk_cflag \in Int
      /\ Len(rline) \in Nat
  BY DEF Screens, TypeOK
<1>2. CASE rline = <<>>
  <2>1. screen = base
    BY <1>1, <1>2 DEF Pending
  <2>2. screen' = Show(base, Back("back")) /\ rline' = <<>> /\ rk_cflag' = rk_cflag - 1
    BY <1>2, <2>1 DEF EraseKey
  <2>3. rk_cflag' < 0
    <3>1. rk_cflag # 0 /\ (rk_cflag >= 0 => rk_cflag <= 0)
      BY <1>2 DEF EraseKey, Screens
    <3> QED
      BY <1>1, <2>2, <3>1
  <2>4. PICK b \in Seq(Code) : screen' = b
    <3>1. CASE base = <<>>
      BY <1>1, <2>2, <3>1 DEF Show, Back
    <3>2. CASE base # <<>>
      <4>1. Last(base) \in Code /\ Front(base) \in Seq(Code)
        BY <1>1, <3>2 DEF Last, Front
      <4>2. Last(base).k = "kana"
        BY <4>1 DEF Code
      <4> QED
        BY <2>2, <3>2, <4>1, <4>2 DEF Show, Back
    <3> QED
      BY <3>1, <3>2
  <2>5. b = b \o Pending(<<>>)
    BY DEF Pending
  <2>6. ~(rk_cflag' >= 0)
    BY <1>1, <2>2, <2>3
  <2>7. Screens(b)'
    BY <2>2, <2>4, <2>5, <2>6 DEF Screens
  <2> QED
    BY <2>7 DEF Undoable
<1>3. CASE rline # <<>>
  <2>1. screen' = Show(base \o Pending(rline), Back("back_romaji")) /\ rline' = Front(rline)
        /\ rk_cflag' = rk_cflag - 1 /\ lstr' = lstr /\ rk_klen' = rk_klen /\ before' = before
        /\ rk_cflag # 0
    BY <1>1, <1>3 DEF EraseKey
  <2>2. screen' = base \o Pending(Front(rline))
    BY <1>1, <1>3, <2>1, PendingShrinks
  <2>3. Len(Front(rline)) = Len(rline) - 1
    <3>1. rline \in Seq(Char) /\ rline # <<>>
      BY <1>1, <1>3
    <3> QED
      BY ONLY <3>1, FrontIs
  <2>4. rk_cflag' >= 0 => rk_cflag >= 0 /\ rk_cflag' <= Len(rline')
    <3>1. rk_cflag >= 0 => rk_cflag <= Len(rline)
      BY DEF Screens
    <3> QED
      BY <1>1, <2>1, <2>3, <3>1
  <2>5. Screens(base)'
    BY <2>1, <2>2, <2>4 DEF Screens
  <2> QED
    BY <2>5 DEF Undoable
<1> QED
  BY <1>2, <1>3

LEMMA KeyUndo ==
    ASSUME TypeOK, Undoable, NEW c \in Char, sj3_rkconvc(c)
    PROVE  Undoable'
<1> PICK base : Screens(base)
  BY DEF Undoable
<1> PICK w, r : w = Append(rline, c) /\ r = sj3_rkconv2(w, rktblp, rk_errin)
  OBVIOUS
<1>1. base \in Seq(Code) /\ screen = base \o Pending(rline) /\ rline \in Seq(Char) /\ rk_cflag \in Int
      /\ Len(rline) \in Nat
  BY DEF Screens, TypeOK
<1>2. w \in Seq(Char) /\ w # <<>> /\ Len(w) = Len(rline) + 1
  BY <1>1
<1>3. r \in Searching
  BY <1>2, ConverterType DEF TypeOK
<1>4. r.out \in Seq(Code) /\ r.w \in Seq(Char)
  BY <1>3 DEF Searching, State
<1>5. CASE ~r.ok
  <2>1. UNCHANGED <<rkvars, screen, before>>
    BY <1>5 DEF sj3_rkconvc
  <2> QED
    BY <2>1 DEF Undoable, Screens, rkvars
<1>6. CASE r.ok /\ r.out = <<>>
  <2>1. /\ rline' = w /\ screen' = Show(screen, Romaji(c)) /\ lstr' = lstr /\ rk_klen' = rk_klen
        /\ before' = before /\ rk_cflag' = IF rk_cflag >= 0 THEN rk_cflag + 1 ELSE rk_cflag
    BY <1>6 DEF sj3_rkconvc
  <2>2. screen' = base \o Pending(w)
    BY <1>1, <2>1, PendingGrows
  <2>3. rk_cflag' >= 0 => rk_cflag >= 0 /\ rk_cflag' <= Len(rline')
    <3>1. rk_cflag >= 0 => rk_cflag <= Len(rline)
      BY DEF Screens
    <3> QED
      BY <1>1, <1>2, <2>1, <3>1
  <2>4. Screens(base)'
    BY <2>1, <2>2, <2>3 DEF Screens
  <2> QED
    BY <2>4 DEF Undoable
<1>7. CASE r.ok /\ r.out # <<>>
  <2> PICK o, v, b : o = r.out /\ v = r.w /\ b = base \o o
    OBVIOUS
  <2>1. /\ rline' = v /\ lstr' = rline /\ rk_klen' = Len(o) /\ before' = screen /\ rk_cflag' = 0
        /\ screen' = ShowAll(screen, Times("back_romaji", Len(rline)) \o o \o Pending(v))
    BY <1>7 DEF sj3_rkconvc
  <2>2. screen' = b \o Pending(v)
    <3>1. o \in Seq(Code) /\ v \in Seq(Char) /\ 0 \in 0..Len(base)
      BY <1>1, <1>4
    <3>2. ShowAll(base \o Pending(rline), Times("back_romaji", Len(rline)) \o o \o Pending(v))
             = (base \o o) \o Pending(v)
      BY ONLY <1>1, <3>1, Rebuilt
    <3> QED
      BY <1>1, <2>1, <3>2
  <2>3. b \in Seq(Code) /\ Len(b) = Len(base) + Len(o) /\ Len(b) - Len(o) = Len(base)
        /\ SubSeq(b, 1, Len(base)) = base /\ Len(o) <= Len(b)
    BY <1>1, <1>4
  <2>4. Screens(b)'
    <3>1. before' = SubSeq(b, 1, Len(b) - rk_klen') \o Pending(lstr')
      BY <1>1, <2>1, <2>3
    <3>2. rk_cflag' <= Len(rline')
      BY <1>4, <2>1
    <3> QED
      BY <2>1, <2>2, <2>3, <3>1, <3>2 DEF Screens
  <2> QED
    BY <2>4 DEF Undoable
<1> QED
  BY <1>5, <1>6, <1>7

LEMMA InitUndo == Init => Undoable
<1> SUFFICES ASSUME Init PROVE Undoable
  OBVIOUS
<1>1. <<>> \in Seq(Code)
  OBVIOUS
<1>2. Screens(<<>>)
  BY <1>1, NothingPending DEF Init, Screens
<1> QED
  BY <1>2 DEF Undoable

LEMMA NextUndo ==
    ASSUME TypeOK, Undoable, [Next]_vars
    PROVE  Undoable' /\ (EraseConversion => screen' = before)
<1>1. Letters \subseteq Char
  BY RkcvAssumption
<1>2. ASSUME NEW f \in Files, sj3_rkinit(f) PROVE Undoable'
  BY <1>2, ClearUndo DEF sj3_rkinit
<1>3. ASSUME sj3_rkclear PROVE Undoable'
  BY <1>3, ClearUndo DEF sj3_rkclear
<1>4. ASSUME sj3_rkreset PROVE Undoable'
  BY <1>4 DEF sj3_rkreset, Undoable, Screens
<1>5. ASSUME NEW err \in BOOLEAN, sj3_rkebell(err) PROVE Undoable'
  BY <1>5 DEF sj3_rkebell, rkvars, ghosts, Undoable, Screens
<1>6. CASE EraseConversion
  BY <1>6, EraseConversionUndo
<1>7. ASSUME EraseKey PROVE Undoable'
  BY <1>7, EraseKeyUndo
<1>8. ASSUME NEW c \in Letters, sj3_rkconvc(c) PROVE Undoable'
  BY <1>1, <1>8, KeyUndo
<1>9. ASSUME UNCHANGED vars PROVE Undoable'
  BY <1>9 DEF vars, rkvars, ghosts, Undoable, Screens
<1>10. EraseConversion => screen' = before
  BY EraseConversionUndo
<1> QED
  BY <1>2, <1>3, <1>4, <1>5, <1>6, <1>7, <1>8, <1>9, <1>10 DEF Next

----------------------------------------------------------------------------
(* Types *)

LEMMA CharAppend ==
    ASSUME NEW w \in Seq(Char), NEW c \in Char
    PROVE  Append(w, c) \in Seq(Char) /\ Append(w, c) # <<>>
<1>1. Append(w, c) \in Seq(Char) /\ Len(Append(w, c)) = Len(w) + 1 /\ Len(w) \in Nat
  OBVIOUS
<1>2. Len(Append(w, c)) # 0
  BY <1>1
<1>3. Len(<<>>) = 0
  OBVIOUS
<1> QED
  BY <1>1, <1>2, <1>3

LEMMA InitType == Init => TypeOK
<1> SUFFICES ASSUME Init PROVE TypeOK
  OBVIOUS
<1>1. cltable \in Table /\ NULL \in Place
  BY DEF cltable, Table, Place
<1>2. \A S : <<>> \in Seq(S)
  OBVIOUS
<1>3. /\ rcode = cltable /\ file = <<>> /\ rk_errin = FALSE /\ rline = <<>> /\ lstr = <<>>
      /\ rktblp = NULL /\ rk_cflag = -1 /\ rk_klen = 0 /\ typed = <<>>
      /\ erased = FALSE /\ stale = FALSE
  BY DEF Init
<1>4. file \in Seq(Line) /\ rline \in Seq(Char) /\ lstr \in Seq(Char) /\ typed \in Seq(Char)
  BY <1>2, <1>3
<1>5. rcode \in Table /\ rktblp \in Place /\ rk_errin \in BOOLEAN /\ erased \in BOOLEAN
      /\ stale \in BOOLEAN
  BY <1>1, <1>3
<1>6. rk_cflag \in Int /\ rk_klen \in Nat
  BY <1>3
<1> QED
  BY <1>4, <1>5, <1>6 DEF TypeOK

LEMMA TableType ==
    ASSUME NEW lines \in Seq(Line)
    PROVE  sj3_rkinit_sub(lines) \in Table
<1> PICK m \in Nat : m = Len(lines)
  OBVIOUS
<1>1. PICK g \in [0..m -> Table] : sj3_rkinit_sub(lines) = g[m]
  BY TableDefined
<1>2. m \in 0..m
  OBVIOUS
<1> QED
  BY <1>1, <1>2

LEMMA NextType ==
    ASSUME TypeOK, [Next]_vars
    PROVE  TypeOK'
<1> USE DEF TypeOK
<1>0. Letters \subseteq Char /\ Files \subseteq Seq(Line)
  BY RkcvAssumption
<1>9. NULL \in Place /\ <<>> \in Seq(Char) /\ -1 \in Int /\ 0 \in Nat
  BY DEF Place
<1>1. ASSUME NEW f \in Files, sj3_rkinit(f) PROVE TypeOK'
  <2>1. f \in Seq(Line) /\ sj3_rkinit_sub(f) \in Table
    BY <1>0, TableType
  <2> QED
    BY <1>1, <1>9, <2>1 DEF sj3_rkinit, Clear
<1>2. CASE sj3_rkclear
  BY <1>2, <1>9 DEF sj3_rkclear, Clear
<1>3. CASE sj3_rkreset
  BY <1>3, <1>9 DEF sj3_rkreset
<1>4. ASSUME NEW err \in BOOLEAN, sj3_rkebell(err) PROVE TypeOK'
  BY <1>4 DEF sj3_rkebell, rkvars, ghosts
<1>5. CASE EraseConversion
  BY <1>5, <1>9 DEF EraseConversion
<1>6. CASE EraseKey
  <2>1. rline' \in Seq(Char)
    <3>1. rline # <<>> => Front(rline) \in Seq(Char)
      BY FrontIs
    <3> QED
      BY <1>6, <3>1 DEF EraseKey
  <2>2. rktblp' \in Place
    BY <1>6, <1>9 DEF EraseKey
  <2>3. stale' \in BOOLEAN
    BY <1>6 DEF EraseKey
  <2>4. rk_cflag' \in Int
    BY <1>6 DEF EraseKey
  <2> QED
    BY <1>6, <1>9, <2>1, <2>2, <2>3, <2>4 DEF EraseKey
<1>7. ASSUME NEW c \in Letters, sj3_rkconvc(c) PROVE TypeOK'
  <2> PICK w, r : w = Append(rline, c) /\ r = sj3_rkconv2(w, rktblp, rk_errin)
    OBVIOUS
  <2>1. c \in Char /\ w \in Seq(Char) /\ w # <<>>
    BY <1>0, CharAppend
  <2>2. r \in Searching
    BY <2>1, ConverterType
  <2>3. r.w \in Seq(Char) /\ r.p \in Place /\ Len(r.out) \in Nat
    BY <2>2 DEF Searching, State
  <2>4. Append(typed, c) \in Seq(Char)
    BY <2>1, CharAppend
  <2>5. UNCHANGED <<rcode, rk_errin, erased, file>>
    BY <1>7 DEF sj3_rkconvc
  <2>6. CASE ~r.ok
    <3>1. UNCHANGED <<rline, lstr, rktblp, rk_cflag, rk_klen, typed, stale>>
      BY <1>7, <2>6 DEF sj3_rkconvc, rkvars
    <3> QED
      BY <2>5, <3>1
  <2>7. CASE r.ok /\ r.out = <<>>
    <3>1. /\ rline' = w /\ rktblp' = r.p /\ UNCHANGED <<lstr, rk_klen, stale>>
          /\ rk_cflag' = IF rk_cflag >= 0 THEN rk_cflag + 1 ELSE rk_cflag
          /\ typed' = IF erased THEN <<>> ELSE Append(typed, c)
      BY <1>7, <2>7 DEF sj3_rkconvc
    <3>2. rline' \in Seq(Char) /\ rktblp' \in Place /\ lstr' \in Seq(Char) /\ rk_klen' \in Nat
          /\ stale' \in BOOLEAN
      BY <2>1, <2>3, <3>1
    <3>3. rk_cflag' \in Int
      <4>1. rk_cflag' = rk_cflag + 1 \/ rk_cflag' = rk_cflag
        BY <3>1
      <4> QED
        BY <4>1
    <3>4. typed' \in Seq(Char)
      <4>1. typed' = <<>> \/ typed' = Append(typed, c)
        BY <3>1
      <4> QED
        BY <1>9, <2>4, <4>1
    <3> QED
      BY <2>5, <3>2, <3>3, <3>4
  <2>8. CASE r.ok /\ r.out # <<>>
    <3>1. /\ rline' = r.w /\ rktblp' = r.p /\ lstr' = rline /\ rk_klen' = Len(r.out)
          /\ rk_cflag' = 0 /\ stale' = FALSE
          /\ typed' = IF erased THEN <<>> ELSE Append(typed, c)
      BY <1>7, <2>8 DEF sj3_rkconvc
    <3>2. rline' \in Seq(Char) /\ rktblp' \in Place /\ lstr' \in Seq(Char) /\ rk_klen' \in Nat
      BY <2>1, <2>3, <3>1
    <3>4. stale' \in BOOLEAN /\ rk_cflag' \in Int
      <4>1. stale' = FALSE
        BY <3>1
      <4>2. rk_cflag' = 0
        BY <3>1
      <4>3. stale' \in BOOLEAN
        BY <4>1
      <4> QED
        BY <4>2, <4>3
    <3>3. typed' \in Seq(Char)
      <4>1. typed' = <<>> \/ typed' = Append(typed, c)
        BY <3>1
      <4> QED
        BY <1>9, <2>4, <4>1
    <3> QED
      BY <2>5, <3>2, <3>3, <3>4
  <2> QED
    BY <2>6, <2>7, <2>8
<1>8. CASE UNCHANGED vars
  BY <1>8 DEF vars, rkvars, ghosts
<1> QED
  BY <1>1, <1>2, <1>3, <1>4, <1>5, <1>6, <1>7, <1>8 DEF Next

\* After any mix of keys, erases and conversions taken back the codes of
\* sj3_rkconvc have built the pending romaji it believes in, and the erase key
\* that takes a conversion back restores the screen.
THEOREM ConversionUndone == Spec => UndoExact
<1>1. Init => TypeOK /\ Undoable
  BY InitType, InitUndo
<1>2. TypeOK /\ Undoable /\ [Next]_vars => TypeOK' /\ Undoable'
  BY NextType, NextUndo
<1>3. TypeOK /\ Undoable => ScreenFollows
  BY Follows
<1>4. TypeOK /\ Undoable /\ [Next]_vars => [EraseConversion => screen' = before]_vars
  BY NextUndo
<1> QED
  BY <1>1, <1>2, <1>3, <1>4, PTL DEF Spec, UndoExact

----------------------------------------------------------------------------
(* The cached position *)

\* No entry before the cached one fits the pending romaji, nor will any when
\* more are typed.
Cached(w, p) ==
    p # NULL =>
        /\ w # <<>>
        /\ ~Wide(Head(w)) =>
              /\ p[1] = WTOUPPER(Head(w))
              /\ \A j \in 1..Len(rcode[p[1]]) : j < p[2] => rkmatch(w, rcode[p[1]][j]) = NOMACH

LEMMA CachedGrows ==
    ASSUME rcode \in Table, NEW w \in Seq(Char), NEW p \in Place, NEW c \in Char, Cached(w, p)
    PROVE  Cached(Append(w, c), p)
<1> PICK v : v = Append(w, c)
  OBVIOUS
<1> SUFFICES ASSUME p # NULL PROVE Cached(v, p)
  BY DEF Cached
<1>1. /\ w # <<>> /\ v # <<>>
      /\ Head(v) = Head(w)
  BY DEF Cached
<1>2. p[1] \in Letter
  BY Places
<1> PICK list : list = rcode[p[1]]
  OBVIOUS
<1>3. list \in Seq(Entry)
  BY <1>2 DEF Table
<1>4. ASSUME NEW j \in 1..Len(list), rkmatch(w, list[j]) = NOMACH
      PROVE  rkmatch(v, list[j]) = NOMACH
  <2>1. list[j] \in Entry
    BY <1>3
  <2> QED
    BY <1>1, <1>4, <2>1, NoMatchStays
<1> QED
  BY <1>1, <1>4 DEF Cached

\* The cached position is in the list of the first character.
Headed(w, p) == p # NULL => w # <<>> /\ (~Wide(Head(w)) => p[1] = WTOUPPER(Head(w)))

LEMMA HeadStays ==
    ASSUME NEW w \in Seq(Char), NEW p, NEW c \in Char
    PROVE  /\ Headed(w, p) => Headed(Append(w, c), p)
           /\ Headed(w, p) /\ Len(w) > 1 => Headed(Front(w), p)
<1>1. Headed(w, p) => Headed(Append(w, c), p)
  <2> PICK v : v = Append(w, c)
    OBVIOUS
  <2>1. w # <<>> => v # <<>> /\ Head(v) = Head(w)
    OBVIOUS
  <2> QED
    BY <2>1 DEF Headed
<1>2. Headed(w, p) /\ Len(w) > 1 => Headed(Front(w), p)
  <2> SUFFICES ASSUME Headed(w, p), Len(w) > 1 PROVE Headed(Front(w), p)
    OBVIOUS
  <2> PICK v : v = Front(w)
    OBVIOUS
  <2> PICK n : n = Len(w) - 1
    OBVIOUS
  <2>1. v = SubSeq(w, 1, n) /\ n \in Nat /\ 1 <= n /\ n <= Len(w)
    BY DEF Front
  <2>2. v \in Seq(Char) /\ Len(v) = n /\ v[1] = w[1]
    <3>1. v \in Seq(Char) /\ Len(v) = n
      BY <2>1
    <3>2. \A j \in 1..n : v[j] = w[j]
      BY <2>1
    <3> QED
      BY <2>1, <3>1, <3>2
  <2>3. v # <<>> /\ w # <<>>
    <3>1. Len(v) # 0 /\ Len(w) # 0 /\ Len(<<>>) = 0
      BY <2>1, <2>2
    <3> QED
      BY <3>1
  <2>4. Head(v) = Head(w)
    BY <2>2, <2>3
  <2> QED
    BY <2>3, <2>4 DEF Headed
<1> QED
  BY <1>1, <1>2

\* What the search of the whole list and the one from the cached entry share.
SameStart(s, t) == t = [s EXCEPT !.p = NULL]

LEMMA OtherStart ==
    ASSUME NEW w, NEW p
    PROVE  SameStart(Begun(w, p), Begun(w, NULL))
<1> PICK s, t : s = Begun(w, p) /\ t = Begun(w, NULL)
  OBVIOUS
<1>1. /\ DOMAIN s = {"w", "p", "wide", "out", "ok", "done"}
      /\ DOMAIN t = {"w", "p", "wide", "out", "ok", "done"}
      /\ t.w = s.w /\ t.p = NULL /\ t.wide = s.wide /\ t.out = s.out /\ t.ok = s.ok
      /\ t.done = s.done
  BY DEF Begun
<1>2. t = [x \in DOMAIN t |-> t[x]] /\ s = [x \in DOMAIN s |-> s[x]]
  BY DEF Begun
<1> QED
  BY <1>1, <1>2 DEF SameStart

LEMMA SameOutcome ==
    ASSUME NEW s \in State, NEW t, SameStart(s, t), Hit(s) = Hit(t), HitEntry(s) = HitEntry(t),
           Hit(s) # None => First(s) = First(t), NEW r, NEW strict
    PROVE  /\ Waits(s, r) => Waits(t, r)
           /\ Matches(s, r) => Matches(t, r)
           /\ Ends(s, r) => Ends(t, r)
           /\ Refuses(s, r, strict) => Refuses(t, r, strict)
           /\ Drops(s, r, strict) => Drops(t, r, strict)
<1>0. t = [s EXCEPT !.p = NULL]
  BY DEF SameStart
<1>1. t.w = s.w /\ t.out = s.out
  BY DEF SameStart, State
<1>2. \A q, d : [s EXCEPT !.p = q, !.done = d] = [t EXCEPT !.p = q, !.done = d]
  BY ONLY <1>0
<1>3. \A v, q, o, b, d : [s EXCEPT !.w = v, !.p = q, !.out = o, !.wide = b, !.done = d]
                           = [t EXCEPT !.w = v, !.p = q, !.out = o, !.wide = b, !.done = d]
  BY ONLY <1>0
<1>4. \A v, q, d, o : [s EXCEPT !.w = v, !.p = q, !.done = d, !.out = o]
                        = [t EXCEPT !.w = v, !.p = q, !.done = d, !.out = o]
  BY ONLY <1>0
<1>5. \A k, q, d : [s EXCEPT !.ok = k, !.p = q, !.done = d] = [t EXCEPT !.ok = k, !.p = q, !.done = d]
  BY ONLY <1>0
<1>6. \A v, q, b, o : [s EXCEPT !.w = v, !.p = q, !.wide = b, !.out = o]
                        = [t EXCEPT !.w = v, !.p = q, !.wide = b, !.out = o]
  BY ONLY <1>0
<1>7. Waits(s, r) => Waits(t, r)
  BY <1>1, <1>2 DEF Waits, None
<1>8. Matches(s, r) => Matches(t, r)
  BY <1>1, <1>3 DEF Matches
<1>9. Ends(s, r) => Ends(t, r)
  BY <1>1, <1>4 DEF Ends
<1>10. Refuses(s, r, strict) => Refuses(t, r, strict)
  BY <1>1, <1>5 DEF Refuses
<1>11. Drops(s, r, strict) => Drops(t, r, strict)
  BY <1>1, <1>6 DEF Drops
<1> QED
  BY <1>7, <1>8, <1>9, <1>10, <1>11

LEMMA SameSearch ==
    ASSUME rcode \in Table, NEW s \in State, s.w # <<>>, s.wide = FALSE, Cached(s.w, s.p),
           NEW t, SameStart(s, t), NEW strict \in BOOLEAN
    PROVE  Search(s, strict) = Search(t, strict)
<1>1. /\ t = [w |-> s.w, p |-> NULL, wide |-> FALSE, out |-> s.out, ok |-> s.ok, done |-> s.done]
      /\ s = [w |-> s.w, p |-> s.p, wide |-> FALSE, out |-> s.out, ok |-> s.ok, done |-> s.done]
      /\ s.w \in Seq(Char) /\ s.p \in Place
  BY DEF SameStart, State
<1> PICK w, p : w = s.w /\ p = s.p
  OBVIOUS
<1>2. CASE p = NULL
  BY <1>1, <1>2
<1>3. CASE p # NULL
  <2>1. NULL \in Place
    BY DEF Place
  <2>2. t \in State /\ t.w = w /\ t.p = NULL /\ t.wide = FALSE
    BY <1>1, <2>1 DEF State
  <2>3. CASE Wide(Head(w))
    <3>1. ListOf(s) = <<>> /\ ListOf(t) = <<>>
      BY <2>2, <2>3 DEF ListOf
    <3>2. Hit(s) = None /\ Hit(t) = None
      <4>1. Len(<<>>) = 0 /\ \A a \in Nat \ {0} : \A x : Find(<<>>, a, x) = None
        BY DEF Find
      <4>2. From(s) \in Nat \ {0} /\ From(t) \in Nat \ {0}
        BY <2>2, SearchStart
      <4> QED
        BY <3>1, <4>1, <4>2 DEF Hit
    <3> PICK r : r = Search(s, strict)
      OBVIOUS
    <3>3. HitEntry(s) = HitEntry(t)
      BY <3>1, <3>2 DEF HitEntry
    <3>4. \/ Waits(t, r) \/ Matches(t, r) \/ Ends(t, r)
          \/ Refuses(t, r, strict) \/ Drops(t, r, strict)
      BY <3>2, <3>3, SearchIs, SameOutcome
    <3> QED
      BY <2>2, <3>4, SearchIs
  <2>4. CASE ~Wide(Head(w))
    <3>1. First(s) = First(t) /\ p[1] = First(t)
      BY <1>3, <2>2, <2>4 DEF First, Cached
    <3>2. ListOf(s) = rcode[p[1]] /\ ListOf(t) = rcode[p[1]]
      BY <2>2, <2>4, <3>1 DEF ListOf
    <3> PICK list, a, i, k : /\ list = rcode[p[1]] /\ a = p[2]
                             /\ i = Find(list, a, w) /\ k = Find(list, 1, w)
      OBVIOUS
    <3>3. list \in Seq(Entry) /\ a \in Nat \ {0} /\ 1 \in Nat \ {0} /\ Len(list) \in Nat
      BY <1>1, <1>3, Places DEF Table
    <3>4. \A j \in 1..Len(list) : j < a => rkmatch(w, list[j]) = NOMACH
      BY <1>3, <2>4 DEF Cached
    <3>5. i = k
      <4>1. \/ i = None /\ \A j \in a..Len(list) : rkmatch(w, list[j]) = NOMACH
            \/ /\ i \in a..Len(list) /\ i # None /\ rkmatch(w, list[i]) # NOMACH
               /\ \A j \in a..(i - 1) : rkmatch(w, list[j]) = NOMACH
        BY <3>3, FindIs
      <4>2. \/ k = None /\ \A j \in 1..Len(list) : rkmatch(w, list[j]) = NOMACH
            \/ /\ k \in 1..Len(list) /\ k # None /\ rkmatch(w, list[k]) # NOMACH
               /\ \A j \in 1..(k - 1) : rkmatch(w, list[j]) = NOMACH
        BY <3>3, FindIs
      <4>3. i = None => k = None
        BY <3>3, <3>4, <4>1, <4>2
      <4>4. k = None => i = None
        BY <3>3, <4>1, <4>2
      <4>5. i # None /\ k # None => i = k
        BY <3>3, <3>4, <4>1, <4>2
      <4> QED
        BY <4>3, <4>4, <4>5
    <3>6. Hit(s) = i /\ Hit(t) = i
      BY <1>3, <2>2, <3>2, <3>5 DEF Hit, From
    <3>7. HitEntry(s) = HitEntry(t)
      BY <3>2, <3>6 DEF HitEntry
    <3> PICK r : r = Search(s, strict)
      OBVIOUS
    <3>8. \/ Waits(s, r) \/ Matches(s, r) \/ Ends(s, r)
          \/ Refuses(s, r, strict) \/ Drops(s, r, strict)
      BY SearchIs
    <3>9. \/ Waits(t, r) \/ Matches(t, r) \/ Ends(t, r)
          \/ Refuses(t, r, strict) \/ Drops(t, r, strict)
      BY <3>1, <3>6, <3>7, <3>8, SameOutcome
    <3> QED
      BY <2>2, <3>9, SearchIs
  <2> QED
    BY <2>3, <2>4
<1> QED
  BY <1>2, <1>3

LEMMA SameConversion ==
    ASSUME rcode \in Table, NEW w \in Seq(Char), w # <<>>, NEW p \in Place, Cached(w, p),
           NEW strict \in BOOLEAN
    PROVE  sj3_rkconv2(w, p, strict) = sj3_rkconv2(w, NULL, strict)
<1> PICK m : m = Len(w) + 1
  OBVIOUS
<1>0. m \in Nat \ {0} /\ NULL \in Place
  BY DEF Place
<1> PICK g : Searches(g, w, p, strict)
  BY ConverterDefined
<1> PICK h : Searches(h, w, NULL, strict)
  BY <1>0, ConverterDefined
<1>1. /\ g \in [0..m -> Searching] /\ g[0] = Begun(w, p)
      /\ (\A n \in 1..m : g[n] = IF g[n - 1].done THEN g[n - 1] ELSE Search(g[n - 1], strict))
      /\ sj3_rkconv2(w, p, strict) = g[m]
  BY DEF Searches
<1>2. /\ h \in [0..m -> Searching] /\ h[0] = Begun(w, NULL)
      /\ (\A n \in 1..m : h[n] = IF h[n - 1].done THEN h[n - 1] ELSE Search(h[n - 1], strict))
      /\ sj3_rkconv2(w, NULL, strict) = h[m]
  BY DEF Searches
<1>3. g[1] = h[1]
  <2>1. g[1] = Search(g[0], strict) /\ h[1] = Search(h[0], strict)
    <3>1. 1 \in 1..m /\ 1 - 1 = 0 /\ ~g[0].done /\ ~h[0].done
      BY <1>0, <1>1, <1>2 DEF Begun
    <3> QED
      BY <1>1, <1>2, <3>1
  <2> PICK s, t : s = g[0] /\ t = h[0]
    OBVIOUS
  <2>2. s \in State /\ s.w = w /\ s.p = p /\ s.wide = FALSE
    <3>1. g[0] \in Searching
      BY <1>0, <1>1
    <3> QED
      BY <1>1, <3>1 DEF Searching, Begun
  <2>3. SameStart(s, t)
    <3>1. SameStart(Begun(w, p), Begun(w, NULL))
      BY OtherStart
    <3> QED
      BY <1>1, <1>2, <3>1
  <2> QED
    BY <2>1, <2>2, <2>3, SameSearch
<1> DEFINE T == {n \in Nat : n + 1 <= m => g[n + 1] = h[n + 1]}
<1>4. 0 \in T
  BY <1>3
<1>5. ASSUME NEW n \in T PROVE n + 1 \in T
  <2> SUFFICES ASSUME (n + 1) + 1 <= m PROVE g[(n + 1) + 1] = h[(n + 1) + 1]
    OBVIOUS
  <2>0. n \in Nat /\ (n + 1 <= m => g[n + 1] = h[n + 1])
    OBVIOUS
  <2> HIDE DEF T
  <2>1. (n + 1) + 1 \in 1..m /\ ((n + 1) + 1) - 1 = n + 1 /\ n + 1 <= m
    BY <1>0, <2>0
  <2> QED
    BY <1>1, <1>2, <2>0, <2>1
<1>6. T \subseteq Nat
  OBVIOUS
<1> HIDE DEF T
<1>7. T = Nat
  BY <1>4, <1>5, <1>6, SetInduction
<1>8. g[m] = h[m]
  <2>1. m - 1 \in T /\ (m - 1) + 1 = m
    BY <1>0, <1>7
  <2> QED
    BY <1>0, <2>1 DEF T
<1> QED
  BY <1>1, <1>2, <1>8

\* What a search leaves of the cached position: a first code drops it.
Keeps(s, w0, p0) ==
    /\ s.out = <<>> => s.w = w0
    /\ (s.out # <<>> \/ Cached(w0, p0)) /\ s.ok => Cached(s.w, s.p)
    /\ (s.out # <<>> \/ Headed(w0, p0)) /\ s.ok => Headed(s.w, s.p)

LEMMA NoPlace == \A w : Cached(w, NULL) /\ Headed(w, NULL)
BY DEF Cached, Headed

LEMMA SearchKeeps ==
    ASSUME rcode \in Table, NEW s \in Searching, ~s.done, NEW strict \in BOOLEAN,
           NEW w0, NEW p0, Keeps(s, w0, p0)
    PROVE  Keeps(Search(s, strict), w0, p0)
<1> PICK t, w, o, p : t = Search(s, strict) /\ w = s.w /\ o = s.out /\ p = s.p
  OBVIOUS
<1>1. /\ s \in State /\ w # <<>> /\ w \in Seq(Char) /\ o \in Seq(Code) /\ p \in Place
      /\ s.ok \in BOOLEAN /\ s.wide \in BOOLEAN
  BY DEF Searching, State
<1>2. \/ Waits(s, t) \/ Matches(s, t) \/ Ends(s, t)
      \/ Refuses(s, t, strict) \/ Drops(s, t, strict)
  BY <1>1, SearchIs
<1>3. Append(o, Kana(w[1], 1)) # <<>>
  <2> PICK x, y : x = Kana(w[1], 1) /\ y = Append(o, x)
    OBVIOUS
  <2>1. x \in Code
    <3>1. w[1] \in Nat
      BY <1>1, Rest, Letters1
    <3> QED
      BY <3>1 DEF Kana, Code
  <2>2. Len(y) = Len(o) + 1 /\ Len(o) \in Nat
    BY <1>1, <2>1
  <2>3. Len(y) # 0
    BY <2>2
  <2>4. Len(<<>>) = 0
    OBVIOUS
  <2>5. y # <<>>
    BY <2>3, <2>4
  <2> QED
    BY <2>5
<1>4. CASE Waits(s, t)
  <2> PICK c, i : c = First(s) /\ i = Hit(s)
    OBVIOUS
  <2>1. t = [s EXCEPT !.p = <<c, i>>, !.done = TRUE] /\ i \in Nat \ {0}
    BY <1>4 DEF Waits
  <2>2. t.w = w /\ t.out = o /\ t.ok = s.ok /\ t.p = <<c, i>>
    BY <1>1, <2>1 DEF State
  <2>3. ASSUME Cached(w, p) PROVE Cached(w, <<c, i>>)
    <3>1. CASE Wide(Head(w))
      BY <1>1, <3>1 DEF Cached
    <3>2. CASE ~Wide(Head(w))
      <4>1. c = WTOUPPER(Head(w))
        BY <2>3, <3>2 DEF First, Cached
      <4> PICK list, a : list = rcode[c] /\ a = From(s)
        OBVIOUS
      <4>2. i = Find(list, a, w)
        BY <3>2 DEF Hit, ListOf
      <4>3. list \in Seq(Entry) /\ a \in Nat \ {0} /\ Len(list) \in Nat
        <5>1. c \in Letter /\ a \in Nat \ {0}
          BY <1>1, SearchStart
        <5> QED
          BY <5>1 DEF Table
      <4>4. \A j \in a..(i - 1) : rkmatch(w, list[j]) = NOMACH
        BY <2>1, <4>2, <4>3, FindIs DEF None
      <4>5. \A j \in 1..Len(list) : j < a => rkmatch(w, list[j]) = NOMACH
        <5>1. CASE p = NULL
          <6>1. a = 1
            BY <5>1 DEF From
          <6> QED
            BY <4>3, <6>1
        <5>2. CASE p # NULL
          <6>1. a = p[2] /\ c = p[1]
            BY <5>2 DEF From, First
          <6> QED
            BY <2>3, <3>2, <5>2, <6>1 DEF Cached
        <5> QED
          BY <5>1, <5>2
      <4>6. \A j \in 1..Len(list) : j < i => rkmatch(w, list[j]) = NOMACH
        <5> SUFFICES ASSUME NEW j \in 1..Len(list), j < i PROVE rkmatch(w, list[j]) = NOMACH
          OBVIOUS
        <5>1. j < a \/ j \in a..(i - 1)
          BY <2>1, <4>3
        <5> QED
          BY <4>4, <4>5, <5>1
      <4>7. <<c, i>>[1] = c /\ <<c, i>>[2] = i
        OBVIOUS
      <4> QED
        BY <1>1, <4>1, <4>6, <4>7 DEF Cached
    <3> QED
      BY <3>1, <3>2
  <2>4. (o # <<>> \/ Cached(w0, p0)) /\ s.ok => Cached(w, p)
    BY DEF Keeps
  <2>5. o = <<>> => w = w0
    BY DEF Keeps
  <2>6. ASSUME Headed(w, p) PROVE Headed(w, <<c, i>>)
    <3>1. ~Wide(Head(w)) => c = WTOUPPER(Head(w))
      BY <2>6 DEF First, Headed
    <3>2. <<c, i>>[1] = c
      OBVIOUS
    <3> QED
      BY <1>1, <3>1, <3>2 DEF Headed
  <2>7. (o # <<>> \/ Headed(w0, p0)) /\ s.ok => Headed(w, p)
    BY DEF Keeps
  <2> QED
    BY <2>2, <2>3, <2>4, <2>5, <2>6, <2>7 DEF Keeps
<1>5. CASE Matches(s, t)
  <2> PICK e, m : e = HitEntry(s) /\ m = Len(e.r_key) + 1
    OBVIOUS
  <2>1. e \in Entry
    BY <1>5 DEF Matches
  <2> PICK x, v : x = o \o MatchCodes(e, m) /\ v = Leftover(w, m, e.r_str)
    OBVIOUS
  <2>2. t = [s EXCEPT !.w = v, !.p = NULL, !.out = x, !.wide = TRUE, !.done = (m = Len(w))]
    BY <1>5 DEF Matches
  <2>3. t.out = x /\ t.p = NULL
    BY <1>1, <2>2 DEF State
  <2>4. x # <<>>
    <3>1. m \in Nat /\ Len(e.k_yomi) \in Nat \ {0}
      BY <2>1, EntryFields
    <3> PICK y : y = MatchCodes(e, m)
      OBVIOUS
    <3>2. y \in Seq(Code) /\ Len(y) \in Nat \ {0}
      BY <2>1, <3>1, CodesType
    <3>3. x = o \o y
      OBVIOUS
    <3>4. Len(x) = Len(o) + Len(y) /\ Len(o) \in Nat
      BY <1>1, <3>2, <3>3
    <3> PICK a, b : a = Len(o) /\ b = Len(y)
      OBVIOUS
    <3>7. Len(x) = a + b /\ a \in Nat /\ b \in Nat \ {0}
      BY <3>2, <3>4
    <3>8. a + b # 0
      BY ONLY <3>7
    <3>5. Len(x) # 0
      BY <3>7, <3>8
    <3>6. Len(<<>>) = 0
      OBVIOUS
    <3> QED
      BY <3>5, <3>6
  <2> QED
    BY <2>3, <2>4, NoPlace DEF Keeps
<1>6. CASE Ends(s, t)
  <2> PICK x : x = Kana(w[1], 1)
    OBVIOUS
  <2>1. t = [s EXCEPT !.w = <<>>, !.p = NULL, !.done = TRUE, !.out = Append(o, x)]
    BY <1>6 DEF Ends
  <2>2. t.out = Append(o, x) /\ t.p = NULL
    BY <1>1, <2>1 DEF State
  <2> QED
    BY <1>3, <2>2, NoPlace DEF Keeps
<1>7. CASE Refuses(s, t, strict)
  <2>1. t = [s EXCEPT !.ok = FALSE, !.p = NULL, !.done = TRUE]
    BY <1>7 DEF Refuses
  <2>2. t.out = o /\ t.p = NULL /\ t.w = w
    BY <1>1, <2>1 DEF State
  <2> QED
    BY <2>2, NoPlace DEF Keeps
<1>8. CASE Drops(s, t, strict)
  <2> PICK x : x = Kana(w[1], 1)
    OBVIOUS
  <2>1. t = [s EXCEPT !.w = Tail(w), !.p = NULL, !.wide = FALSE, !.out = Append(o, x)]
    BY <1>8 DEF Drops
  <2>2. t.out = Append(o, x) /\ t.p = NULL
    BY <1>1, <2>1 DEF State
  <2> QED
    BY <1>3, <2>2, NoPlace DEF Keeps
<1> QED
  BY <1>2, <1>4, <1>5, <1>6, <1>7, <1>8

LEMMA ConverterKeeps ==
    ASSUME rcode \in Table, NEW w \in Seq(Char), w # <<>>, NEW p \in Place, NEW strict \in BOOLEAN
    PROVE  Keeps(sj3_rkconv2(w, p, strict), w, p)
<1> PICK m : m = Len(w) + 1
  OBVIOUS
<1>0. m \in Nat
  OBVIOUS
<1> PICK g : Searches(g, w, p, strict)
  BY ConverterDefined
<1>1. /\ g \in [0..m -> Searching] /\ g[0] = Begun(w, p)
      /\ (\A n \in 1..m : g[n] = IF g[n - 1].done THEN g[n - 1] ELSE Search(g[n - 1], strict))
      /\ sj3_rkconv2(w, p, strict) = g[m]
  BY DEF Searches
<1> DEFINE T == {n \in Nat : n <= m => Keeps(g[n], w, p)}
<1>2. 0 \in T
  <2>1. Begun(w, p).w = w /\ Begun(w, p).p = p /\ Begun(w, p).out = <<>>
    BY DEF Begun
  <2> QED
    BY <1>1, <2>1 DEF Keeps
<1>3. ASSUME NEW n \in T PROVE n + 1 \in T
  <2> SUFFICES ASSUME n + 1 <= m PROVE Keeps(g[n + 1], w, p)
    OBVIOUS
  <2>0. n \in Nat /\ (n <= m => Keeps(g[n], w, p))
    OBVIOUS
  <2> HIDE DEF T
  <2>1. n + 1 \in 1..m /\ (n + 1) - 1 = n /\ n <= m /\ n \in 0..m
    BY <1>0, <2>0
  <2>2. g[n + 1] = IF g[n].done THEN g[n] ELSE Search(g[n], strict)
    BY <1>1, <2>1
  <2>3. g[n] \in Searching /\ Keeps(g[n], w, p)
    BY <1>1, <2>0, <2>1
  <2> QED
    BY <2>2, <2>3, SearchKeeps
<1>4. T \subseteq Nat
  OBVIOUS
<1> HIDE DEF T
<1>5. T = Nat
  BY <1>2, <1>3, <1>4, SetInduction
<1> QED
  BY <1>0, <1>1, <1>5 DEF T

Hinted == Headed(rline, rktblp) /\ (~stale => Cached(rline, rktblp))

LEMMA NextHinted ==
    ASSUME TypeOK, Hinted, [Next]_vars
    PROVE  Hinted'
<1>0. Letters \subseteq Char
  BY RkcvAssumption
<1>1. ASSUME rktblp' = NULL PROVE Hinted'
  BY <1>1 DEF Hinted, Cached, Headed
<1>2. ASSUME UNCHANGED <<stale, rline, rktblp, rcode>> PROVE Hinted'
  BY <1>2 DEF Hinted, Cached, Headed
<1>3. ASSUME NEW f \in Files, sj3_rkinit(f) PROVE Hinted'
  BY <1>1, <1>3 DEF sj3_rkinit, Clear
<1>4. CASE sj3_rkclear
  BY <1>1, <1>4 DEF sj3_rkclear, Clear
<1>5. CASE sj3_rkreset
  BY <1>2, <1>5 DEF sj3_rkreset
<1>6. ASSUME NEW err \in BOOLEAN, sj3_rkebell(err) PROVE Hinted'
  BY <1>2, <1>6 DEF sj3_rkebell, rkvars, ghosts
<1>7. CASE EraseConversion
  BY <1>1, <1>7 DEF EraseConversion
<1>8. CASE EraseKey
  <2>1. stale' <=> rktblp' # NULL
    BY <1>8 DEF EraseKey
  <2>2. CASE Len(rline) <= 1
    <3>1. rktblp' = NULL
      BY <1>8, <2>2 DEF EraseKey
    <3> QED
      BY <1>1, <3>1
  <2>3. CASE Len(rline) > 1
    <3>1. rline \in Seq(Char) /\ rline # <<>> /\ Len(rline) \in Nat
      BY <2>3 DEF TypeOK
    <3>2. rline' = Front(rline) /\ rktblp' = rktblp
      BY <1>8, <2>3, <3>1 DEF EraseKey
    <3>3. Headed(Front(rline), rktblp)
      <4>1. 1 \in Char
        BY DEF Char, Letter
      <4> QED
        BY <2>3, <3>1, <4>1, HeadStays DEF Hinted
    <3>4. Headed(rline, rktblp)'
      BY <3>2, <3>3 DEF Headed
    <3>5. rktblp' = NULL => Hinted'
      BY <1>1
    <3> QED
      BY <2>1, <3>4, <3>5 DEF Hinted
  <2>4. Len(rline) \in Nat
    BY DEF TypeOK
  <2> QED
    BY <2>2, <2>3, <2>4
<1>9. ASSUME NEW c \in Letters, sj3_rkconvc(c) PROVE Hinted'
  <2> PICK w, r : w = Append(rline, c) /\ r = sj3_rkconv2(w, rktblp, rk_errin)
    OBVIOUS
  <2>1. c \in Char /\ w \in Seq(Char) /\ w # <<>> /\ rcode \in Table /\ rktblp \in Place
        /\ rk_errin \in BOOLEAN /\ rline \in Seq(Char)
    BY <1>0, CharAppend DEF TypeOK
  <2>2. Keeps(r, w, rktblp)
    BY <2>1, ConverterKeeps
  <2>3. rcode' = rcode
    BY <1>9 DEF sj3_rkconvc
  <2>4. CASE ~r.ok
    <3>1. UNCHANGED <<rline, rktblp, stale>>
      BY <1>9, <2>4 DEF sj3_rkconvc, rkvars
    <3> QED
      BY <1>2, <2>3, <3>1
  <2>5. CASE r.ok /\ r.out = <<>>
    <3>1. rline' = w /\ rktblp' = r.p /\ stale' = stale
      BY <1>9, <2>5 DEF sj3_rkconvc
    <3>2. r.w = w
      BY <2>2, <2>5 DEF Keeps
    <3>3. ASSUME ~stale PROVE Cached(w, r.p)
      <4>1. Cached(rline, rktblp)
        BY <3>3 DEF Hinted
      <4>2. Cached(w, rktblp)
        BY <2>1, <4>1, CachedGrows
      <4> QED
        BY <2>2, <2>5, <3>2, <4>2 DEF Keeps
    <3>4. Cached(w, r.p) => Cached(rline, rktblp)'
      BY <2>3, <3>1 DEF Cached
    <3>5. Headed(w, rktblp)
      BY <2>1, HeadStays DEF Hinted
    <3>6. Headed(w, r.p)
      BY <2>2, <2>5, <3>2, <3>5 DEF Keeps
    <3>7. Headed(rline, rktblp)'
      BY <3>1, <3>6 DEF Headed
    <3> QED
      BY <3>1, <3>3, <3>4, <3>7 DEF Hinted
  <2>6. CASE r.ok /\ r.out # <<>>
    <3>1. rline' = r.w /\ rktblp' = r.p
      BY <1>9, <2>6 DEF sj3_rkconvc
    <3>2. Cached(r.w, r.p) /\ Headed(r.w, r.p)
      BY <2>2, <2>6 DEF Keeps
    <3>3. Cached(rline, rktblp)' /\ Headed(rline, rktblp)'
      BY <2>3, <3>1, <3>2 DEF Cached, Headed
    <3> QED
      BY <3>3 DEF Hinted
  <2> QED
    BY <2>4, <2>5, <2>6
<1>10. CASE UNCHANGED vars
  BY <1>2, <1>10 DEF vars, rkvars, ghosts
<1> QED
  BY <1>3, <1>4, <1>5, <1>6, <1>7, <1>8, <1>9, <1>10 DEF Next

LEMMA HintFollows ==
    ASSUME TypeOK, Hinted
    PROVE  HintExact
<1>0. Letters \subseteq Char
  BY RkcvAssumption
<1>1. ASSUME NEW c \in Letters, NEW strict \in BOOLEAN, NEW w, w = Append(rline, c)
      PROVE  \/ sj3_rkconv2(w, rktblp, strict) = sj3_rkconv2(w, NULL, strict)
             \/ stale /\ Overlooked(w)
  <2>1. c \in Char /\ w \in Seq(Char) /\ w # <<>> /\ rcode \in Table /\ rktblp \in Place
        /\ rline \in Seq(Char) /\ stale \in BOOLEAN
    BY <1>0, <1>1, CharAppend DEF TypeOK
  <2>2. ASSUME ~stale PROVE Cached(w, rktblp)
    BY <1>1, <2>1, <2>2, CachedGrows DEF Hinted
  <2>3. ASSUME ~Overlooked(w) PROVE Cached(w, rktblp)
    <3>1. Headed(w, rktblp)
      BY <1>1, <2>1, HeadStays DEF Hinted
    <3>2. \A j \in 1..Len(rcode[rktblp[1]]) :
             j < rktblp[2] => rkmatch(w, rcode[rktblp[1]][j]) = NOMACH
      BY <2>3 DEF Overlooked
    <3> QED
      BY <3>1, <3>2 DEF Headed, Cached
  <2>4. ASSUME Cached(w, rktblp)
        PROVE  sj3_rkconv2(w, rktblp, strict) = sj3_rkconv2(w, NULL, strict)
    BY <2>1, <2>4, SameConversion
  <2> QED
    BY <2>2, <2>3, <2>4
<1> QED
  BY <1>1 DEF HintExact

\* The search that starts at the cached entry ends as the one of the whole
\* list, whatever was typed and erased, unless an erase kept the entry and one
\* in front of it would take the romaji: rk_conv.c:901-905 keeps rktblp when
\* romaji are left, and rk_conv.c:955 does not go back in the list.
THEOREM CachedPositionExact == Spec => []HintExact
<1>1. Init => TypeOK /\ Hinted
  BY InitType, NoPlace DEF Init, Hinted
<1>2. TypeOK /\ Hinted /\ [Next]_vars => TypeOK' /\ Hinted'
  BY NextType, NextHinted
<1>3. TypeOK /\ Hinted => HintExact
  BY HintFollows
<1> QED
  BY <1>1, <1>2, <1>3, PTL DEF Spec

----------------------------------------------------------------------------
(* The order of the keys *)

Starts(a, b) == Len(a) <= Len(b) /\ \A i \in 1..Len(a) : a[i] = b[i]
\* a and b first differ at i, and there b is shorter or lower.
Overtakes(a, b, i) ==
    /\ i \in 1..Len(a) /\ i <= Len(b) + 1
    /\ \A j \in 1..(i - 1) : a[j] = b[j]
    /\ i <= Len(b) => a[i] > b[i]

LEMMA Word ==
    ASSUME NEW a \in Seq(Letter)
    PROVE  Len(a) \in Nat /\ \A i \in 1..Len(a) : a[i] \in Nat
<1>1. \A i \in 1..Len(a) : a[i] \in Letter
  OBVIOUS
<1> QED
  BY <1>1 DEF Letter

LEMMA SameStarts ==
    ASSUME NEW a \in Seq(Letter), NEW b \in Seq(Letter), NEW k \in Nat, k <= Len(a), k <= Len(b)
    PROVE  SubSeq(a, 1, k) = SubSeq(b, 1, k) <=> \A j \in 1..k : a[j] = b[j]
<1> PICK x, y : x = SubSeq(a, 1, k) /\ y = SubSeq(b, 1, k)
  OBVIOUS
<1>1. /\ x \in Seq(Letter) /\ y \in Seq(Letter) /\ Len(x) = k /\ Len(y) = k
      /\ \A j \in 1..k : x[j] = a[j] /\ y[j] = b[j]
  OBVIOUS
<1>2. (\A j \in 1..k : x[j] = y[j]) => x = y
  <2> SUFFICES ASSUME \A j \in 1..k : x[j] = y[j] PROVE x = y
    OBVIOUS
  <2>1. x \in Seq(Letter) /\ y \in Seq(Letter) /\ Len(x) = Len(y) /\ \A j \in 1..Len(x) : x[j] = y[j]
    BY <1>1
  <2> QED
    BY ONLY <2>1, SeqEqual
<1> QED
  BY <1>1, <1>2

LEMMA PrefixIs ==
    ASSUME NEW a \in Seq(Letter), NEW b \in Seq(Letter)
    PROVE  /\ IsPrefix(a, b) <=> Starts(a, b)
           /\ IsStrictPrefix(a, b) <=> Starts(a, b) /\ Len(a) < Len(b)
           /\ Starts(a, b) /\ Len(a) = Len(b) => a = b
<1>0. Len(a) \in Nat /\ Len(b) \in Nat
  OBVIOUS
<1>1. SubSeq(a, 1, Len(a)) = a
  OBVIOUS
<1>2. IsPrefix(a, b) <=> Starts(a, b)
  BY <1>0, SameStarts DEF IsPrefix, Starts
<1>3. Starts(a, b) /\ Len(a) = Len(b) => a = b
  <2> SUFFICES ASSUME Starts(a, b), Len(a) = Len(b) PROVE a = b
    OBVIOUS
  <2>1. a \in Seq(Letter) /\ b \in Seq(Letter) /\ Len(a) = Len(b) /\ \A i \in 1..Len(a) : a[i] = b[i]
    BY DEF Starts
  <2> QED
    BY ONLY <2>1, SeqEqual
<1>4. Starts(a, b) => (a # b <=> Len(a) < Len(b))
  BY <1>0, <1>3 DEF Starts
<1> QED
  BY <1>2, <1>3, <1>4 DEF IsStrictPrefix

LEMMA AfterIs ==
    ASSUME NEW a \in Seq(Letter), NEW b \in Seq(Letter)
    PROVE  After(a, b) <=> \E i \in Nat : Overtakes(a, b, i)
<1>0. Len(a) \in Nat /\ Len(b) \in Nat
  OBVIOUS
<1>1. ASSUME IsStrictPrefix(b, a) PROVE \E i \in Nat : Overtakes(a, b, i)
  <2>1. Starts(b, a) /\ Len(b) < Len(a)
    BY <1>1, PrefixIs
  <2>2. Overtakes(a, b, Len(b) + 1)
    BY <1>0, <2>1 DEF Starts, Overtakes
  <2> QED
    BY <1>0, <2>2
<1>2. ASSUME NEW i \in 1..Len(a), i <= Len(b), a[i] > b[i],
             SubSeq(a, 1, i - 1) = SubSeq(b, 1, i - 1)
      PROVE  \E k \in Nat : Overtakes(a, b, k)
  <2>1. i - 1 \in Nat /\ i - 1 <= Len(a) /\ i - 1 <= Len(b) /\ i \in Nat
    BY <1>0, <1>2
  <2>2. \A j \in 1..(i - 1) : a[j] = b[j]
    BY <1>2, <2>1, SameStarts
  <2>3. Overtakes(a, b, i)
    BY <1>0, <1>2, <2>1, <2>2 DEF Overtakes
  <2> QED
    BY <2>1, <2>3
<1>3. ASSUME NEW i \in Nat, Overtakes(a, b, i) PROVE After(a, b)
  <2>0. /\ i \in 1..Len(a) /\ i <= Len(b) + 1 /\ (\A j \in 1..(i - 1) : a[j] = b[j])
        /\ i <= Len(b) => a[i] > b[i]
    BY <1>3 DEF Overtakes
  <2>1. CASE i = Len(b) + 1
    <3>1. Starts(b, a) /\ Len(b) < Len(a)
      BY <1>0, <2>0, <2>1 DEF Starts
    <3> QED
      BY <3>1, PrefixIs DEF After
  <2>2. CASE i <= Len(b)
    <3>1. i - 1 \in Nat /\ i - 1 <= Len(a) /\ i - 1 <= Len(b)
      BY <1>0, <2>0, <2>2
    <3>2. SubSeq(a, 1, i - 1) = SubSeq(b, 1, i - 1)
      BY <2>0, <3>1, SameStarts
    <3> QED
      BY <2>0, <2>2, <3>2 DEF After
  <2>3. i = Len(b) + 1 \/ i <= Len(b)
    BY <1>0, <2>0
  <2> QED
    BY <2>1, <2>2, <2>3
<1> QED
  BY <1>1, <1>2, <1>3 DEF After

LEMMA AfterOrders ==
    ASSUME NEW a \in Seq(Letter), NEW b \in Seq(Letter)
    PROVE  /\ After(a, b) => ~After(b, a)
           /\ ~After(<<>>, b)
           /\ Starts(a, b) /\ Len(a) < Len(b) => After(b, a)
<1>0. /\ Len(a) \in Nat /\ Len(b) \in Nat /\ (\A i \in 1..Len(a) : a[i] \in Nat)
      /\ \A i \in 1..Len(b) : b[i] \in Nat
  BY Word
<1>1. ASSUME NEW i \in Nat, NEW k \in Nat, Overtakes(a, b, i), Overtakes(b, a, k) PROVE FALSE
  <2>1. /\ i \in 1..Len(a) /\ i <= Len(b) + 1 /\ (\A j \in 1..(i - 1) : a[j] = b[j])
        /\ i <= Len(b) => a[i] > b[i]
    BY <1>1 DEF Overtakes
  <2>2. /\ k \in 1..Len(b) /\ k <= Len(a) + 1 /\ (\A j \in 1..(k - 1) : b[j] = a[j])
        /\ k <= Len(a) => b[k] > a[k]
    BY <1>1 DEF Overtakes
  <2>3. CASE i < k
    BY <1>0, <2>1, <2>2, <2>3
  <2>4. CASE k < i
    BY <1>0, <2>1, <2>2, <2>4
  <2>5. CASE i = k
    BY <1>0, <2>1, <2>2, <2>5
  <2> QED
    BY <2>3, <2>4, <2>5
<1>2. <<>> \in Seq(Letter) /\ Len(<<>>) = 0
  OBVIOUS
<1>3. ~After(<<>>, b)
  <2> SUFFICES ASSUME After(<<>>, b) PROVE FALSE
    OBVIOUS
  <2> PICK i \in Nat : Overtakes(<<>>, b, i)
    BY <1>2, AfterIs
  <2>1. i \in 1..0
    BY <1>2 DEF Overtakes
  <2> QED
    BY <2>1
<1>4. Starts(a, b) /\ Len(a) < Len(b) => After(b, a)
  BY PrefixIs DEF After
<1> QED
  BY <1>1, <1>3, <1>4, AfterIs

LEMMA AfterTransitive ==
    ASSUME NEW a \in Seq(Letter), NEW b \in Seq(Letter), NEW c \in Seq(Letter),
           After(a, b), After(b, c)
    PROVE  After(a, c)
<1>0. /\ Len(a) \in Nat /\ Len(b) \in Nat /\ Len(c) \in Nat /\ (\A i \in 1..Len(a) : a[i] \in Nat)
      /\ (\A i \in 1..Len(b) : b[i] \in Nat) /\ \A i \in 1..Len(c) : c[i] \in Nat
  BY Word
<1> PICK i \in Nat : Overtakes(a, b, i)
  BY AfterIs
<1> PICK k \in Nat : Overtakes(b, c, k)
  BY AfterIs
<1>1. /\ i \in 1..Len(a) /\ i <= Len(b) + 1 /\ (\A j \in 1..(i - 1) : a[j] = b[j])
      /\ i <= Len(b) => a[i] > b[i]
  BY DEF Overtakes
<1>2. /\ k \in 1..Len(b) /\ k <= Len(c) + 1 /\ (\A j \in 1..(k - 1) : b[j] = c[j])
      /\ k <= Len(c) => b[k] > c[k]
  BY DEF Overtakes
<1> PICK x : x = IF i < k THEN i ELSE k
  OBVIOUS
<1>3. /\ x \in Nat \ {0} /\ x <= i /\ x <= k /\ x <= Len(a) /\ x <= Len(b) /\ x <= Len(c) + 1
      /\ x = i \/ x = k
  BY <1>0, <1>1, <1>2
<1>4. \A j \in 1..(x - 1) : a[j] = c[j]
  <2> SUFFICES ASSUME NEW j \in 1..(x - 1) PROVE a[j] = c[j]
    OBVIOUS
  <2>1. j \in 1..(i - 1) /\ j \in 1..(k - 1)
    BY <1>3
  <2> QED
    BY <1>1, <1>2, <2>1
<1>5. ASSUME x <= Len(c) PROVE a[x] > c[x]
  <2>1. a[x] \in Nat /\ b[x] \in Nat /\ c[x] \in Nat
    BY <1>0, <1>3, <1>5
  <2>2. x < i => a[x] = b[x]
    BY <1>1, <1>3
  <2>3. x < k => b[x] = c[x]
    BY <1>2, <1>3
  <2>4. x = i => a[x] > b[x]
    BY <1>1, <1>3
  <2>5. x = k => b[x] > c[x]
    BY <1>2, <1>5
  <2>6. (x < i \/ x = i) /\ (x < k \/ x = k)
    BY <1>3
  <2> QED
    BY <1>3, <2>1, <2>2, <2>3, <2>4, <2>5, <2>6
<1>6. Overtakes(a, c, x)
  BY <1>0, <1>3, <1>4, <1>5 DEF Overtakes
<1> QED
  BY <1>3, <1>6, AfterIs

----------------------------------------------------------------------------
(* What the table holds after some lines *)

\* No key comes twice, and none is after one that it should precede.
Precedes(list, i, j) ==
    /\ list[i].r_key # list[j].r_key /\ list[i].r_key # <<>>
    /\ ~(After(list[j].r_key, list[i].r_key) /\ Len(list[i].r_key) <= Len(list[j].r_key))
Sorted(list) == \A i, j \in 1..Len(list) : i < j => Precedes(list, i, j)

LEMMA InsertSorted ==
    ASSUME NEW list \in Seq(Entry), Sorted(list), NEW e \in Entry,
           \A i \in 1..Len(list) : list[i].r_key # e.r_key
    PROVE  Sorted(InsertAt(list, mktable_place(list, e.r_key), e))
<1> PICK key, p, n : key = e.r_key /\ p = mktable_place(list, key) /\ n = Len(list)
  OBVIOUS
<1> PICK new : new = InsertAt(list, p, e)
  OBVIOUS
<1>0. key \in Seq(Letter) /\ n \in Nat /\ \A i \in 1..n : list[i] \in Entry /\ list[i].r_key \in Seq(Letter)
  <2>1. \A i \in 1..n : list[i] \in Entry
    OBVIOUS
  <2> QED
    BY <2>1, EntryFields
<1>1. /\ p \in 1..(n + 1) /\ (\A i \in 1..n : i < p => ~Stops(list, key, i))
      /\ p <= n => Stops(list, key, p)
  BY <1>0, PlaceIs
<1>2. /\ Len(new) = n + 1 /\ new[p] = e
      /\ \A i \in 1..(n + 1) : i < p => i \in 1..n /\ new[i] = list[i]
      /\ \A i \in 1..(n + 1) : p < i => i - 1 \in 1..n /\ new[i] = list[i - 1]
  <2>1. InsertedIn(new, list, p, e)
    BY <1>1, Inserted
  <2> QED
    BY <2>1 DEF InsertedIn
<1>3. \A i \in 1..n : i < p =>
         /\ list[i].r_key # key /\ list[i].r_key # <<>>
         /\ ~(After(key, list[i].r_key) /\ Len(list[i].r_key) <= Len(key))
  BY <1>1 DEF Stops
<1>4. ASSUME NEW j \in 1..n, p <= j
      PROVE  /\ key # list[j].r_key /\ key # <<>>
             /\ ~(After(list[j].r_key, key) /\ Len(key) <= Len(list[j].r_key))
  <2> PICK a, b : a = list[p].r_key /\ b = list[j].r_key
    OBVIOUS
  <2>0. p \in 1..n /\ p \in Nat /\ j \in Nat
    BY <1>0, <1>1, <1>4
  <2>1. a \in Seq(Letter) /\ b \in Seq(Letter) /\ key # a /\ key # b
    BY <1>0, <2>0
  <2>2. Len(a) \in Nat /\ Len(b) \in Nat /\ Len(key) \in Nat
    BY <1>0, <2>1
  <2>3. a = <<>> \/ (After(key, a) /\ Len(a) <= Len(key))
    BY <1>1, <2>0 DEF Stops
  <2>4. p < j => a # b /\ a # <<>> /\ ~(After(b, a) /\ Len(a) <= Len(b))
    BY <2>0 DEF Sorted, Precedes
  <2>5. key # <<>>
    <3>1. a = <<>> => key # <<>>
      BY <2>1
    <3>2. After(key, a) => key # <<>>
      BY <2>1, AfterOrders
    <3> QED
      BY <2>3, <3>1, <3>2
  <2>6. ASSUME After(b, key), Len(key) <= Len(b) PROVE FALSE
    <3>1. CASE p = j
      <4>1. a = b
        BY <3>1
      <4>2. a # <<>>
        BY <1>0, <2>6, <4>1, AfterOrders
      <4> QED
        BY <1>0, <2>1, <2>3, <2>6, <4>1, <4>2, AfterOrders
    <3>2. CASE p < j
      <4>1. After(key, a) /\ Len(a) <= Len(key)
        BY <2>3, <2>4, <3>2
      <4>2. After(b, a)
        BY <1>0, <2>1, <2>6, <4>1, AfterTransitive
      <4>3. Len(a) <= Len(b)
        BY <2>2, <2>6, <4>1
      <4> QED
        BY <2>4, <3>2, <4>2, <4>3
    <3> QED
      BY <1>4, <2>0, <3>1, <3>2
  <2> QED
    BY <2>1, <2>5, <2>6
<1>5. ASSUME NEW i \in 1..(n + 1), NEW j \in 1..(n + 1), i < j PROVE Precedes(new, i, j)
  <2>0. i \in Nat /\ j \in Nat /\ p \in Nat
    BY <1>0, <1>1
  <2>1. CASE j < p
    <3>1. new[i] = list[i] /\ new[j] = list[j] /\ i \in 1..n /\ j \in 1..n
      BY <1>2, <1>5, <2>0, <2>1
    <3>2. Precedes(list, i, j)
      BY <1>5, <3>1 DEF Sorted
    <3> QED
      BY <3>1, <3>2 DEF Precedes
  <2>2. CASE j = p
    <3>1. new[i] = list[i] /\ new[j] = e /\ i \in 1..n /\ i < p
      BY <1>2, <1>5, <2>0, <2>2
    <3> QED
      BY <1>3, <3>1 DEF Precedes
  <2>3. CASE i = p
    <3>1. new[i] = e /\ new[j] = list[j - 1] /\ j - 1 \in 1..n /\ p <= j - 1
      BY <1>2, <1>5, <2>0, <2>3
    <3> QED
      BY <1>4, <3>1 DEF Precedes
  <2>4. CASE p < i
    <3>1. new[i] = list[i - 1] /\ new[j] = list[j - 1] /\ i - 1 \in 1..n /\ j - 1 \in 1..n /\ i - 1 < j - 1
      BY <1>2, <1>5, <2>0, <2>4
    <3>2. Precedes(list, i - 1, j - 1)
      BY <3>1 DEF Sorted
    <3> QED
      BY <3>1, <3>2 DEF Precedes
  <2>5. CASE i < p /\ p < j
    <3>1. new[i] = list[i] /\ new[j] = list[j - 1] /\ i \in 1..n /\ j - 1 \in 1..n /\ i < j - 1
      BY <1>2, <1>5, <2>0, <2>5
    <3>2. Precedes(list, i, j - 1)
      BY <3>1 DEF Sorted
    <3> QED
      BY <3>1, <3>2 DEF Precedes
  <2> QED
    BY <1>5, <2>0, <2>1, <2>2, <2>3, <2>4, <2>5
<1> QED
  BY <1>2, <1>5 DEF Sorted

FirstLine(lines, l) == \A k \in 1..(l - 1) : lines[k].key # lines[l].key
\* The entry is that of the first line with its key.
Given(e, c, lines, n) ==
    \E l \in 1..n : /\ Head(lines[l].key) = c /\ Tail(lines[l].key) = e.r_key
                    /\ FirstLine(lines, l) /\ e.k_yomi = lines[l].kana
Listed(list, key) == \E i \in 1..Len(list) : list[i].r_key = key

BuiltList(list, c, lines, n) ==
    /\ Sorted(list)
    /\ \A i \in 1..Len(list) : Given(list[i], c, lines, n)
    /\ \A l \in 1..n : Head(lines[l].key) = c => Listed(list, Tail(lines[l].key))
Built(t, lines, n) == \A c \in Letter : BuiltList(t[c], c, lines, n)

LEMMA LineType ==
    ASSUME NEW lines \in Seq(Line), NEW l \in 1..Len(lines)
    PROVE  /\ lines[l] \in Line /\ lines[l].key \in Seq(Letter) /\ lines[l].key # <<>>
           /\ Head(lines[l].key) \in Letter /\ Tail(lines[l].key) \in Seq(Letter)
<1>1. lines[l] \in Line
  OBVIOUS
<1>2. lines[l].key \in Seq(Letter) /\ lines[l].key # <<>>
  BY <1>1 DEF Line
<1> QED
  BY <1>1, <1>2

LEMMA SameKey ==
    ASSUME NEW a \in Seq(Letter), NEW b \in Seq(Letter), a # <<>>, b # <<>>,
           Head(a) = Head(b), Tail(a) = Tail(b)
    PROVE  a = b
<1> PICK m, n : m = Len(a) /\ n = Len(b)
  OBVIOUS
<1>1. m \in Nat \ {0} /\ n \in Nat \ {0} /\ Len(Tail(a)) = m - 1 /\ Len(Tail(b)) = n - 1
  OBVIOUS
<1>2. m = n
  BY <1>1
<1>3. \A i \in 1..m : a[i] = b[i]
  <2> SUFFICES ASSUME NEW i \in 1..m PROVE a[i] = b[i]
    OBVIOUS
  <2>1. CASE i = 1
    BY <2>1
  <2>2. CASE i # 1
    <3>1. i - 1 \in 1..(m - 1) /\ i - 1 \in 1..(n - 1) /\ (i - 1) + 1 = i
      BY <1>1, <1>2, <2>2
    <3>2. Tail(a)[i - 1] = a[i]
      BY <1>1, <3>1
    <3>3. Tail(b)[i - 1] = b[i]
      BY <1>1, <3>1
    <3> QED
      BY <3>2, <3>3
  <2> QED
    BY <2>1, <2>2
<1>4. a \in Seq(Letter) /\ b \in Seq(Letter) /\ Len(a) = Len(b) /\ \A i \in 1..Len(a) : a[i] = b[i]
  BY <1>2, <1>3
<1> QED
  BY ONLY <1>4, SeqEqual

LEMMA GivenStays ==
    ASSUME NEW e, NEW c, NEW lines, NEW n \in Nat, Given(e, c, lines, n)
    PROVE  Given(e, c, lines, n + 1)
<1> PICK l \in 1..n : /\ Head(lines[l].key) = c /\ Tail(lines[l].key) = e.r_key
                      /\ FirstLine(lines, l) /\ e.k_yomi = lines[l].kana
  BY DEF Given
<1>1. l \in 1..(n + 1)
  OBVIOUS
<1> QED
  BY <1>1 DEF Given

LEMMA LineKept ==
    ASSUME NEW lines \in Seq(Line), NEW n \in Nat, n + 1 <= Len(lines),
           NEW t \in Table, Built(t, lines, n)
    PROVE  Built(AddLine(t, lines[n + 1]), lines, n + 1)
<1> PICK ln, d, key : ln = lines[n + 1] /\ d = Head(ln.key) /\ key = Tail(ln.key)
  OBVIOUS
<1>0. n + 1 \in 1..Len(lines) /\ Len(lines) \in Nat
  OBVIOUS
<1>1. ln \in Line /\ d \in Letter /\ key \in Seq(Letter) /\ Added(ln) \in Entry
      /\ Added(ln).r_key = key /\ Added(ln).k_yomi = ln.kana /\ t[d] \in Seq(Entry)
  <2>1. ln \in Line
    BY <1>0, LineType
  <2>2. d \in Letter /\ key \in Seq(Letter) /\ Added(ln) \in Entry
    BY <2>1, AddedType
  <2>3. Added(ln).r_key = key /\ Added(ln).k_yomi = ln.kana
    BY DEF Added
  <2>4. t[d] \in Seq(Entry)
    BY <2>2 DEF Table
  <2> QED
    BY <2>1, <2>2, <2>3, <2>4
<1>2. ASSUME NEW c \in Letter, NEW list, list = t[c],
             c = d => Listed(list, key)
      PROVE  BuiltList(list, c, lines, n + 1)
  <2>1. Sorted(list) /\ (\A i \in 1..Len(list) : Given(list[i], c, lines, n))
        /\ \A l \in 1..n : Head(lines[l].key) = c => Listed(list, Tail(lines[l].key))
    BY <1>2 DEF Built, BuiltList
  <2>2. \A i \in 1..Len(list) : Given(list[i], c, lines, n + 1)
    BY <2>1, GivenStays
  <2>3. \A l \in 1..(n + 1) : Head(lines[l].key) = c => Listed(list, Tail(lines[l].key))
    <3> SUFFICES ASSUME NEW l \in 1..(n + 1), Head(lines[l].key) = c
                 PROVE  Listed(list, Tail(lines[l].key))
      OBVIOUS
    <3>1. l \in 1..n \/ l = n + 1
      OBVIOUS
    <3> QED
      BY <1>2, <2>1, <3>1
  <2> QED
    BY <2>1, <2>2, <2>3 DEF BuiltList
<1>3. CASE Known(t, ln)
  <2>1. AddLine(t, ln) = t
    BY <1>1, <1>3, LineAdded
  <2>2. Listed(t[d], key)
    BY <1>3 DEF Known, Listed
  <2>3. \A c \in Letter : BuiltList(t[c], c, lines, n + 1)
    BY <1>2, <2>2
  <2> QED
    BY <2>1, <2>3 DEF Built
<1>4. CASE ~Known(t, ln)
  <2> PICK list, p, e, new, n1 : /\ list = t[d] /\ p = mktable_place(list, key) /\ e = Added(ln)
                                 /\ new = InsertAt(list, p, e) /\ n1 = Len(list)
    OBVIOUS
  <2>1. AddLine(t, ln) = [t EXCEPT ![d] = new]
    <3>1. AddLine(t, ln) = [t EXCEPT ![Head(ln.key)] = InsertAt(t[Head(ln.key)],
                               mktable_place(t[Head(ln.key)], Tail(ln.key)), Added(ln))]
      BY <1>1, <1>4, LineAdded
    <3> QED
      BY <3>1
  <2>2. AddLine(t, ln)[d] = new /\ \A c \in Letter : c # d => AddLine(t, ln)[c] = t[c]
    BY <1>1, <2>1 DEF Table
  <2>3. \A i \in 1..Len(list) : list[i].r_key # key
    BY <1>4 DEF Known
  <2>4. Sorted(list) /\ (\A i \in 1..Len(list) : Given(list[i], d, lines, n))
        /\ \A l \in 1..n : Head(lines[l].key) = d => Listed(list, Tail(lines[l].key))
    BY <1>1 DEF Built, BuiltList
  <2>5. list \in Seq(Entry) /\ e \in Entry /\ e.r_key = key /\ Len(list) \in Nat
    BY <1>1
  <2>6. p \in 1..(n1 + 1)
    BY <1>1, <2>5, PlaceIs
  <2>7. /\ n1 \in Nat /\ Len(new) = n1 + 1 /\ new[p] = e
        /\ \A i \in 1..(n1 + 1) : i < p => i \in 1..n1 /\ new[i] = list[i]
        /\ \A i \in 1..(n1 + 1) : p < i => i - 1 \in 1..n1 /\ new[i] = list[i - 1]
        /\ \A i \in 1..n1 : ~(i < p) => i + 1 \in 1..(n1 + 1) /\ new[i + 1] = list[i]
    <3>1. InsertedIn(new, list, p, e)
      BY <2>5, <2>6, Inserted
    <3> QED
      BY <3>1 DEF InsertedIn
  <2>15. n1 \in Nat /\ 1..Len(new) = 1..(n1 + 1)
    <3>1. n1 \in Nat /\ Len(new) = n1 + 1
      BY <2>7
    <3> QED
      BY <3>1
  <2>8. Sorted(new)
    <3>1. \A i \in 1..Len(list) : list[i].r_key # e.r_key
      BY <2>3, <2>5
    <3>2. Sorted(InsertAt(list, mktable_place(list, e.r_key), e))
      BY <2>4, <2>5, <3>1, InsertSorted
    <3> QED
      BY <2>5, <3>2
  <2>9. Given(e, d, lines, n + 1)
    <3>1. FirstLine(lines, n + 1)
      <4> SUFFICES ASSUME NEW k \in 1..n, lines[k].key = ln.key PROVE FALSE
        BY DEF FirstLine
      <4>1. Head(lines[k].key) = d /\ Tail(lines[k].key) = key
        OBVIOUS
      <4>2. Listed(list, key)
        BY <2>4, <4>1
      <4> QED
        BY <2>3, <4>2 DEF Listed
    <3>2. n + 1 \in 1..(n + 1) /\ Head(lines[n + 1].key) = d /\ Tail(lines[n + 1].key) = e.r_key
          /\ e.k_yomi = lines[n + 1].kana
      BY <1>1
    <3> QED
      BY <3>1, <3>2 DEF Given
  <2>10. \A i \in 1..Len(new) : Given(new[i], d, lines, n + 1)
    <3> SUFFICES ASSUME NEW i \in 1..(n1 + 1) PROVE Given(new[i], d, lines, n + 1)
      BY <2>15, Zenon
    <3>1. CASE i = p
      BY <2>7, <2>9, <3>1
    <3>2. CASE i < p
      <4>1. new[i] = list[i] /\ i \in 1..n1
        BY <2>7, <3>2
      <4> QED
        BY <2>4, <4>1, GivenStays
    <3>3. CASE i > p
      <4>1. new[i] = list[i - 1] /\ i - 1 \in 1..n1
        BY <2>7, <3>3
      <4> QED
        BY <2>4, <4>1, GivenStays
    <3> QED
      BY <2>6, <3>1, <3>2, <3>3
  <2>11. Listed(new, key) /\ \A k : Listed(list, k) => Listed(new, k)
    <3>1. Listed(new, key)
      <4>1. p \in 1..Len(new) /\ new[p].r_key = key
        BY <2>5, <2>6, <2>7, <2>15
      <4> QED
        BY <4>1 DEF Listed
    <3>2. ASSUME NEW k, Listed(list, k) PROVE Listed(new, k)
      <4> PICK i \in 1..n1 : list[i].r_key = k
        BY <3>2 DEF Listed
      <4>1. CASE i < p
        <5>1. i \in 1..(n1 + 1)
          BY ONLY <2>15, i \in 1..n1
        <5>2. i \in 1..Len(new) /\ new[i] = list[i]
          BY <2>7, <2>15, <4>1, <5>1
        <5> QED
          BY <5>2 DEF Listed
      <4>2. CASE ~(i < p)
        <5>1. i + 1 \in 1..Len(new) /\ new[i + 1] = list[i]
          BY <2>7, <2>15, <4>2
        <5> QED
          BY <5>1 DEF Listed
      <4> QED
        BY <4>1, <4>2
    <3> QED
      BY <3>1, <3>2
  <2>12. \A l \in 1..(n + 1) : Head(lines[l].key) = d => Listed(new, Tail(lines[l].key))
    <3> SUFFICES ASSUME NEW l \in 1..(n + 1), Head(lines[l].key) = d
                 PROVE  Listed(new, Tail(lines[l].key))
      OBVIOUS
    <3>1. l \in 1..n \/ l = n + 1
      OBVIOUS
    <3> QED
      BY <2>4, <2>11, <3>1
  <2>13. BuiltList(new, d, lines, n + 1)
    BY <2>8, <2>10, <2>12 DEF BuiltList
  <2>14. \A c \in Letter : c # d => BuiltList(t[c], c, lines, n + 1)
    BY <1>2
  <2> QED
    BY <2>2, <2>13, <2>14 DEF Built
<1> QED
  BY <1>3, <1>4

LEMMA TableBuilt ==
    ASSUME NEW lines \in Seq(Line)
    PROVE  sj3_rkinit_sub(lines) \in Table /\ Built(sj3_rkinit_sub(lines), lines, Len(lines))
<1> PICK m \in Nat : m = Len(lines)
  OBVIOUS
<1> PICK g \in [0..m -> Table] :
       /\ g[0] = cltable /\ (\A n \in 1..m : g[n] = AddLine(g[n - 1], lines[n]))
       /\ sj3_rkinit_sub(lines) = g[m]
  BY TableDefined
<1> DEFINE T == {n \in Nat : n <= m => Built(g[n], lines, n)}
<1>1. 0 \in T
  <2>1. \A c \in Letter : cltable[c] = <<>>
    BY DEF cltable
  <2>2. Len(<<>>) = 0
    OBVIOUS
  <2>3. \A c \in Letter : BuiltList(<<>>, c, lines, 0)
    BY <2>2 DEF BuiltList, Sorted
  <2>4. Built(cltable, lines, 0)
    BY <2>1, <2>3 DEF Built
  <2> QED
    BY <2>4
<1>2. ASSUME NEW n \in T PROVE n + 1 \in T
  <2> SUFFICES ASSUME n + 1 <= m PROVE Built(g[n + 1], lines, n + 1)
    OBVIOUS
  <2>0. n \in Nat /\ (n <= m => Built(g[n], lines, n))
    OBVIOUS
  <2> HIDE DEF T
  <2>1. n + 1 \in 1..m /\ (n + 1) - 1 = n /\ n <= m /\ n \in 0..m /\ n + 1 <= Len(lines)
    BY <2>0
  <2>2. g[n + 1] = AddLine(g[n], lines[n + 1]) /\ g[n] \in Table /\ Built(g[n], lines, n)
    BY <2>0, <2>1
  <2> QED
    BY <2>0, <2>1, <2>2, LineKept
<1>3. T \subseteq Nat
  OBVIOUS
<1> HIDE DEF T
<1>4. T = Nat
  BY <1>1, <1>2, <1>3, SetInduction
<1>5. m \in 0..m
  OBVIOUS
<1> QED
  BY <1>4, <1>5 DEF T

----------------------------------------------------------------------------
(* The entry a search ends at *)

\* Between upper-case letters only the order of prefixes counts.
LEMMA LetterMatch ==
    ASSUME NEW w \in Seq(Letter), w # <<>>, NEW e \in Entry
    PROVE  LET v == Tail(w)
               r == e.r_key
           IN  /\ rkmatch(w, e) = NOMACH <=> ~Starts(v, r) /\ ~Starts(r, v)
               /\ rkmatch(w, e) = CONTINUE <=> Starts(v, r) /\ Len(v) < Len(r)
               /\ rkmatch(w, e) = Len(r) + 1 <=> Starts(r, v)
<1> PICK v, r, m, l, x : /\ v = Tail(w) /\ r = e.r_key /\ m = Len(r) /\ l = Len(w) - 1
                         /\ x = rkmatch(w, e)
  OBVIOUS
<1>1. w \in Seq(Char)
  <2>1. Letter \subseteq Char
    BY DEF Char
  <2> QED
    BY <2>1
<1>2. m \in Nat /\ l \in Nat /\ Len(v) = l /\ r \in Seq(Letter) /\ v \in Seq(Letter)
  BY <1>1, Rest, EntryFields
<1>3. \A i \in 1..l : v[i] \in Letter
  BY <1>2
<1>4. \A i \in 1..l : ~Wide(v[i]) /\ (Agrees(w, e, i) <=> v[i] = r[i])
  <2> SUFFICES ASSUME NEW i \in 1..l PROVE ~Wide(v[i]) /\ (Agrees(w, e, i) <=> v[i] = r[i])
    OBVIOUS
  <2>1. ~Wide(v[i]) /\ WTOUPPER(v[i]) = v[i]
    BY <1>3, Letters1 DEF Char
  <2> QED
    BY <2>1 DEF Agrees
<1> DEFINE apart == \E i \in 1..l : i <= m /\ v[i] # r[i]
<1>5. /\ x = NOMACH <=> apart
      /\ x = CONTINUE <=> ~apart /\ l < m
      /\ x = m + 1 <=> ~apart /\ m <= l
  <2> DEFINE refuses == /\ m # 0
                        /\ \/ \E i \in 1..l : i <= m /\ ~Agrees(w, e, i)
                           \/ m + 1 <= l /\ Wide(Tail(w)[m + 1])
  <2>1. /\ x = NOMACH <=> refuses
        /\ x = CONTINUE <=> ~refuses /\ l < m
        /\ x = m + 1 <=> ~refuses /\ m <= l
    BY <1>1, MatchIs
  <2>2. (\E i \in 1..l : i <= m /\ ~Agrees(w, e, i)) <=> apart
    BY <1>4
  <2>3. ~(m + 1 <= l /\ Wide(Tail(w)[m + 1]))
    BY <1>2, <1>4
  <2>4. apart => m # 0
    BY <1>2
  <2>5. refuses <=> apart
    BY <2>2, <2>3, <2>4
  <2> HIDE DEF refuses, apart
  <2> QED
    BY <2>1, <2>5
<1>6. Starts(v, r) <=> ~apart /\ l <= m
  BY <1>2 DEF Starts
<1>7. Starts(r, v) <=> ~apart /\ m <= l
  <2>1. ASSUME m <= l, ~apart PROVE \A i \in 1..m : r[i] = v[i]
    <3> SUFFICES ASSUME NEW i \in 1..m PROVE r[i] = v[i]
      OBVIOUS
    <3>1. i \in 1..l /\ i <= m
      BY <1>2, <2>1
    <3> QED
      BY <2>1, <3>1
  <2>2. ASSUME m <= l, \A i \in 1..m : r[i] = v[i] PROVE ~apart
    BY <1>2, <2>2
  <2> HIDE DEF apart
  <2> QED
    BY <1>2, <2>1, <2>2 DEF Starts
<1> HIDE DEF apart
<1>8. x = NOMACH <=> ~Starts(v, r) /\ ~Starts(r, v)
  BY <1>2, <1>5, <1>6, <1>7
<1>9. x = CONTINUE <=> Starts(v, r) /\ Len(v) < Len(r)
  BY <1>2, <1>5, <1>6
<1>10. x = Len(r) + 1 <=> Starts(r, v)
  BY <1>5, <1>7
<1> QED
  BY <1>8, <1>9, <1>10

LEMMA StartsBetween ==
    ASSUME NEW a \in Seq(Letter), NEW b \in Seq(Letter), NEW c \in Seq(Letter), Starts(a, b)
    PROVE  /\ Starts(b, c) => Starts(a, c)
           /\ Starts(c, b) /\ Len(a) <= Len(c) => Starts(a, c)
<1>0. Len(a) \in Nat /\ Len(b) \in Nat /\ Len(c) \in Nat
  OBVIOUS
<1>1. Starts(b, c) => Starts(a, c)
  BY <1>0 DEF Starts
<1>2. Starts(c, b) /\ Len(a) <= Len(c) => Starts(a, c)
  BY <1>0 DEF Starts
<1> QED
  BY <1>1, <1>2

Longer(v, r) == Starts(v, r) /\ Len(v) < Len(r)

\* In a sorted list the first entry that fits is one that waits for more, if
\* there is one, and else the longest that is complete.
LEMMA FirstFit ==
    ASSUME NEW list \in Seq(Entry), Sorted(list), NEW w \in Seq(Letter), w # <<>>,
           NEW i, i = Find(list, 1, w), NEW j \in 1..Len(list)
    PROVE  LET v == Tail(w)
           IN  /\ i = None => ~Starts(v, list[j].r_key) /\ ~Starts(list[j].r_key, v)
               /\ i # None =>
                     /\ i \in 1..Len(list)
                     /\ Longer(v, list[i].r_key) \/ Starts(list[i].r_key, v)
                     /\ Longer(v, list[j].r_key) => Longer(v, list[i].r_key)
                     /\ Starts(list[i].r_key, v) /\ Starts(list[j].r_key, v) =>
                           Len(list[j].r_key) <= Len(list[i].r_key)
<1> PICK v, s, n : v = Tail(w) /\ s = list[j].r_key /\ n = Len(list)
  OBVIOUS
<1>0. v \in Seq(Letter) /\ s \in Seq(Letter) /\ n \in Nat /\ list[j] \in Entry
      /\ Len(v) \in Nat /\ Len(s) \in Nat
  <2>1. list[j] \in Entry
    OBVIOUS
  <2>2. v \in Seq(Letter)
    OBVIOUS
  <2> QED
    BY <2>1, <2>2, EntryFields
<1>1. \/ i = None /\ \A k \in 1..n : rkmatch(w, list[k]) = NOMACH
      \/ /\ i \in 1..n /\ i # None /\ rkmatch(w, list[i]) # NOMACH
         /\ \A k \in 1..(i - 1) : rkmatch(w, list[k]) = NOMACH
  <2>1. 1 \in Nat \ {0}
    OBVIOUS
  <2> QED
    BY <2>1, FindIs
<1>2. rkmatch(w, list[j]) = NOMACH => ~Starts(v, s) /\ ~Starts(s, v)
  BY <1>0, LetterMatch
<1>3. CASE i = None
  <2>1. rkmatch(w, list[j]) = NOMACH
    BY <1>1, <1>3
  <2> QED
    BY <1>2, <1>3, <2>1
<1>4. CASE i # None
  <2> PICK r : r = list[i].r_key
    OBVIOUS
  <2>1. i \in 1..n /\ list[i] \in Entry /\ rkmatch(w, list[i]) # NOMACH /\ r \in Seq(Letter)
        /\ Len(r) \in Nat
    <3>1. i \in 1..n /\ rkmatch(w, list[i]) # NOMACH
      BY <1>1, <1>4
    <3>2. list[i] \in Entry
      BY <3>1
    <3> QED
      BY <3>1, <3>2, EntryFields
  <2>2. Starts(v, r) \/ Starts(r, v)
    BY <2>1, LetterMatch
  <2>3. Longer(v, r) \/ Starts(r, v)
    <3>1. ASSUME Starts(v, r), ~(Len(v) < Len(r)) PROVE Starts(r, v)
      <4>1. Len(v) = Len(r)
        BY <1>0, <2>1, <3>1 DEF Starts
      <4>2. v = r
        BY <1>0, <2>1, <3>1, <4>1, PrefixIs
      <4> QED
        BY <3>1, <4>2
    <3> QED
      BY <2>2, <3>1 DEF Longer
  \* a longer entry that fits too would come first
  <2>4. ASSUME Starts(r, s), Len(r) < Len(s), Starts(v, s) \/ Starts(s, v) PROVE FALSE
    <3>1. After(s, r)
      BY <1>0, <2>1, <2>4, AfterOrders
    <3>2. ~(i < j)
      <4> SUFFICES ASSUME i < j PROVE FALSE
        OBVIOUS
      <4>1. Precedes(list, i, j)
        BY <2>1 DEF Sorted
      <4> QED
        BY <1>0, <2>1, <2>4, <3>1, <4>1 DEF Precedes
    <3>3. i # j
      BY <1>0, <2>4
    <3>4. j \in 1..(i - 1)
      BY <1>0, <2>1, <3>2, <3>3
    <3>5. rkmatch(w, list[j]) = NOMACH
      BY <1>1, <1>4, <3>4
    <3> QED
      BY <1>2, <2>4, <3>5
  <2>5. ASSUME Longer(v, s) PROVE Longer(v, r)
    <3> SUFFICES ASSUME Starts(r, v) PROVE FALSE
      BY <2>3
    <3>1. Starts(r, s)
      BY <1>0, <2>1, <2>5, StartsBetween DEF Longer
    <3>2. Len(r) < Len(s)
      BY <1>0, <2>1, <2>5 DEF Longer, Starts
    <3> QED
      BY <2>4, <2>5, <3>1, <3>2 DEF Longer
  <2>6. ASSUME Starts(r, v), Starts(s, v) PROVE Len(s) <= Len(r)
    <3> SUFFICES ASSUME Len(r) < Len(s) PROVE FALSE
      BY <1>0, <2>1
    <3>2. Len(r) <= Len(s)
      BY <1>0, <2>1
    <3>1. Starts(r, s)
      BY <1>0, <2>1, <2>6, <3>2, StartsBetween
    <3> QED
      BY <2>4, <2>6, <3>1
  <2> QED
    BY <1>4, <2>1, <2>3, <2>5, <2>6
<1> QED
  BY <1>3, <1>4

LEMMA KeyStarts ==
    ASSUME NEW a \in Seq(Letter), NEW b \in Seq(Letter), a # <<>>, b # <<>>
    PROVE  /\ Starts(a, b) <=> Head(a) = Head(b) /\ Starts(Tail(a), Tail(b))
           /\ Len(a) \in Nat \ {0} /\ Len(b) \in Nat \ {0}
           /\ Len(Tail(a)) = Len(a) - 1 /\ Len(Tail(b)) = Len(b) - 1
           /\ Tail(a) \in Seq(Letter) /\ Tail(b) \in Seq(Letter)
<1> PICK m, n, x, y : m = Len(a) /\ n = Len(b) /\ x = Tail(a) /\ y = Tail(b)
  OBVIOUS
<1>1. /\ m \in Nat \ {0} /\ n \in Nat \ {0} /\ Len(x) = m - 1 /\ Len(y) = n - 1
      /\ x \in Seq(Letter) /\ y \in Seq(Letter) /\ Head(a) = a[1] /\ Head(b) = b[1]
  OBVIOUS
<1>2. \A i \in 1..(m - 1) : x[i] = a[i + 1]
  OBVIOUS
<1>3. \A i \in 1..(n - 1) : y[i] = b[i + 1]
  OBVIOUS
<1>4. ASSUME Starts(a, b) PROVE a[1] = b[1] /\ Starts(x, y)
  <2>1. m <= n /\ \A i \in 1..m : a[i] = b[i]
    BY <1>4 DEF Starts
  <2>2. \A i \in 1..(m - 1) : x[i] = y[i]
    <3> SUFFICES ASSUME NEW i \in 1..(m - 1) PROVE x[i] = y[i]
      OBVIOUS
    <3>1. i \in 1..(n - 1) /\ i + 1 \in 1..m
      BY <1>1, <2>1
    <3> QED
      BY <1>2, <1>3, <2>1, <3>1
  <2> QED
    BY <1>1, <2>1, <2>2 DEF Starts
<1>5. ASSUME a[1] = b[1], Starts(x, y) PROVE Starts(a, b)
  <2>1. m <= n /\ \A i \in 1..(m - 1) : x[i] = y[i]
    BY <1>1, <1>5 DEF Starts
  <2>2. \A i \in 1..m : a[i] = b[i]
    <3> SUFFICES ASSUME NEW i \in 1..m PROVE a[i] = b[i]
      OBVIOUS
    <3>1. CASE i = 1
      BY <1>5, <3>1
    <3>2. CASE i # 1
      <4>1. i - 1 \in 1..(m - 1) /\ i - 1 \in 1..(n - 1) /\ (i - 1) + 1 = i
        BY <1>1, <2>1, <3>2
      <4> QED
        BY <1>2, <1>3, <2>1, <4>1
    <3> QED
      BY <3>1, <3>2
  <2> QED
    BY <2>1, <2>2 DEF Starts
<1> QED
  BY <1>1, <1>4, <1>5

\* The first line of a key is the only one that FirstLine names.
LEMMA LineChosen ==
    ASSUME NEW lines \in Seq(Line), NEW l \in 1..Len(lines), FirstLine(lines, l)
    PROVE  lines[CHOOSE i \in 1..Len(lines) :
                   /\ lines[i].key = lines[l].key
                   /\ \A j \in 1..(i - 1) : lines[j].key # lines[l].key] = lines[l]
<1> DEFINE First1(i) == /\ lines[i].key = lines[l].key
                        /\ \A j \in 1..(i - 1) : lines[j].key # lines[l].key
           k == CHOOSE i \in 1..Len(lines) : First1(i)
<1>0. Len(lines) \in Nat /\ l \in Nat
  OBVIOUS
<1>1. First1(l)
  BY DEF FirstLine
<1>2. k \in 1..Len(lines) /\ First1(k)
  <2> HIDE DEF First1
  <2> QED
    BY <1>1
<1> HIDE DEF k
<1>3. ~(k < l)
  <2>1. k < l => k \in 1..(l - 1)
    BY <1>0, <1>2
  <2> QED
    BY <1>2, <2>1 DEF FirstLine
<1>4. ~(l < k)
  <2>1. l < k => l \in 1..(k - 1)
    BY <1>0, <1>2
  <2> QED
    BY <1>2, <2>1
<1>5. k = l
  BY <1>0, <1>2, <1>3, <1>4
<1> QED
  BY <1>5 DEF k

\* A set of keys that start a word has a longest one.
LEMMA LongestChosen ==
    ASSUME NEW w \in Seq(Letter), NEW F, F # {},
           \A k \in F : k \in Seq(Letter) /\ Starts(k, w)
    PROVE  LET b == CHOOSE k \in F : \A j \in F : Len(j) <= Len(k)
           IN  b \in F /\ \A j \in F : Len(j) <= Len(b)
<1> DEFINE T == {Len(w) - Len(k) : k \in F}
<1>1. \A k \in F : Len(k) \in Nat /\ Len(w) \in Nat /\ Len(k) <= Len(w)
  BY DEF Starts
<1>2. T \subseteq Nat /\ T # {}
  BY <1>1
<1>3. PICK x \in T : \A y \in T : x <= y
  <2> HIDE DEF T
  <2> QED
    BY <1>2, LeastNatural
<1>4. PICK k \in F : x = Len(w) - Len(k)
  OBVIOUS
<1>5. \A j \in F : Len(j) <= Len(k)
  <2> SUFFICES ASSUME NEW j \in F PROVE Len(j) <= Len(k)
    OBVIOUS
  <2>1. x <= Len(w) - Len(j)
    BY <1>3
  <2> QED
    BY <1>1, <1>4, <2>1
<1>6. \E b \in F : \A j \in F : Len(j) <= Len(b)
  BY <1>5
<1> QED
  BY <1>6

\* What the table does with a word of upper-case letters.
Answers(lines, t, w, c) ==
    LET keys == {lines[i].key : i \in 1..Len(lines)}
        longer == {k \in keys : IsStrictPrefix(w, k)}
        fits == {k \in keys : IsPrefix(k, w)}
        best == CHOOSE k \in fits : \A j \in fits : Len(j) <= Len(k)
        ln == lines[CHOOSE i \in 1..Len(lines) :
                      /\ lines[i].key = best
                      /\ \A j \in 1..(i - 1) : lines[j].key # best]
        i == Find(t[c], 1, w)
    IN  IF longer # {} THEN i # None /\ rkmatch(w, t[c][i]) = CONTINUE
        ELSE IF fits = {} THEN i = None
        ELSE /\ i # None
             /\ rkmatch(w, t[c][i]) = Len(best)
             /\ t[c][i].k_yomi = ln.kana

LEMMA WordFound ==
    ASSUME NEW lines \in Seq(Line), NEW t \in Table, Built(t, lines, Len(lines)),
           NEW w \in Seq(Letter), w # <<>>, NEW c, c = Head(w)
    PROVE  Answers(lines, t, w, c)
<1> DEFINE keys == {lines[i].key : i \in 1..Len(lines)}
           longer == {k \in keys : IsStrictPrefix(w, k)}
           fits == {k \in keys : IsPrefix(k, w)}
           best == CHOOSE k \in fits : \A j \in fits : Len(j) <= Len(k)
           ln == lines[CHOOSE i \in 1..Len(lines) :
                         /\ lines[i].key = best
                         /\ \A j \in 1..(i - 1) : lines[j].key # best]
<1> PICK i, list, v, m : i = Find(t[c], 1, w) /\ list = t[c] /\ v = Tail(w) /\ m = Len(lines)
  OBVIOUS
<1>0. c \in Letter /\ list \in Seq(Entry) /\ m \in Nat /\ v \in Seq(Letter) /\ i = Find(list, 1, w)
  <2>1. c \in Letter /\ v \in Seq(Letter)
    OBVIOUS
  <2> QED
    BY <2>1 DEF Table
<1>1. /\ Sorted(list) /\ (\A j \in 1..Len(list) : Given(list[j], c, lines, m))
      /\ \A l \in 1..m : Head(lines[l].key) = c => Listed(list, Tail(lines[l].key))
  BY <1>0 DEF Built, BuiltList
<1>2. \A k \in keys : k \in Seq(Letter) /\ k # <<>>
  BY LineType
<1>3. \A k \in keys : Head(k) = c => Listed(list, Tail(k))
  BY <1>1
<1> HIDE DEF keys
<1>4. ASSUME NEW k \in longer PROVE Listed(list, Tail(k)) /\ Longer(v, Tail(k))
  <2>1. k \in keys /\ Starts(w, k) /\ Len(w) < Len(k)
    BY <1>2, PrefixIs
  <2>2. Head(w) = Head(k) /\ Starts(v, Tail(k)) /\ Len(v) < Len(Tail(k))
    BY <1>2, <2>1, KeyStarts
  <2> QED
    BY <1>3, <2>1, <2>2 DEF Longer
<1>5. ASSUME NEW k \in fits PROVE Listed(list, Tail(k)) /\ Starts(Tail(k), v) /\ Head(k) = c
                                  /\ Starts(k, w) /\ k \in Seq(Letter) /\ k # <<>>
  <2>1. k \in keys /\ Starts(k, w)
    BY <1>2, PrefixIs
  <2>2. Head(w) = Head(k) /\ Starts(Tail(k), v)
    BY <1>2, <2>1, KeyStarts
  <2> QED
    BY <1>2, <1>3, <2>1, <2>2
\* and back from an entry to a line
<1>6. ASSUME NEW j \in 1..Len(list)
      PROVE  \E l \in 1..m : /\ lines[l].key \in keys /\ Head(lines[l].key) = c
                             /\ Tail(lines[l].key) = list[j].r_key
                             /\ FirstLine(lines, l) /\ list[j].k_yomi = lines[l].kana
  <2>1. Given(list[j], c, lines, m)
    BY <1>1
  <2> QED
    BY <2>1 DEF Given, keys
<1>7. ASSUME NEW l \in 1..m, lines[l].key \in keys, Head(lines[l].key) = c
      PROVE  /\ Longer(v, Tail(lines[l].key)) => lines[l].key \in longer
             /\ Starts(Tail(lines[l].key), v) => lines[l].key \in fits
  <2> PICK k : k = lines[l].key
    OBVIOUS
  <2>1. k \in Seq(Letter) /\ k # <<>> /\ k \in keys /\ Head(k) = Head(w)
    BY <1>2, <1>7
  <2>2. Longer(v, Tail(k)) => Starts(w, k) /\ Len(w) < Len(k)
    BY <2>1, KeyStarts DEF Longer
  <2>3. Starts(Tail(k), v) => Starts(k, w)
    BY <2>1, KeyStarts
  <2> QED
    BY <2>1, <2>2, <2>3, PrefixIs
<1> HIDE DEF longer, fits
<1>8. ASSUME NEW j \in 1..Len(list)
      PROVE  /\ i = None => ~Starts(v, list[j].r_key) /\ ~Starts(list[j].r_key, v)
             /\ i # None =>
                   /\ i \in 1..Len(list)
                   /\ Longer(v, list[i].r_key) \/ Starts(list[i].r_key, v)
                   /\ Longer(v, list[j].r_key) => Longer(v, list[i].r_key)
                   /\ Starts(list[i].r_key, v) /\ Starts(list[j].r_key, v) =>
                         Len(list[j].r_key) <= Len(list[i].r_key)
  BY <1>0, <1>1, FirstFit
<1>9. i = None \/ i \in 1..Len(list)
  <2>1. 1 \in Nat \ {0} /\ Len(list) \in Nat
    BY <1>0
  <2>2. \/ i = None /\ \A k \in 1..Len(list) : rkmatch(w, list[k]) = NOMACH
        \/ /\ i \in 1..Len(list) /\ i # None /\ rkmatch(w, list[i]) # NOMACH
           /\ \A k \in 1..(i - 1) : rkmatch(w, list[k]) = NOMACH
    BY <1>0, <2>1, FindIs
  <2> QED
    BY <2>2
<1>10. ASSUME longer # {} PROVE i # None /\ rkmatch(w, list[i]) = CONTINUE
  <2> PICK k \in longer : TRUE
    BY <1>10
  <2> PICK j \in 1..Len(list) : list[j].r_key = Tail(k)
    BY <1>4 DEF Listed
  <2>1. Longer(v, list[j].r_key) /\ Starts(v, list[j].r_key)
    BY <1>4 DEF Longer
  <2>2. i # None /\ i \in 1..Len(list) /\ Longer(v, list[i].r_key)
    BY <1>8, <2>1
  <2>3. list[i] \in Entry
    BY <1>0, <2>2
  <2>4. Starts(v, list[i].r_key) /\ Len(v) < Len(list[i].r_key)
    BY <2>2 DEF Longer
  <2> QED
    BY <2>2, <2>3, <2>4, LetterMatch
<1>11. ASSUME longer = {}, fits = {} PROVE i = None
  <2> SUFFICES ASSUME i # None PROVE FALSE
    OBVIOUS
  <2>1. i \in 1..Len(list)
    BY <1>9
  <2>2. Longer(v, list[i].r_key) \/ Starts(list[i].r_key, v)
    BY <1>8, <2>1
  <2> PICK l \in 1..m : lines[l].key \in keys /\ Head(lines[l].key) = c
                        /\ Tail(lines[l].key) = list[i].r_key
    BY <1>6, <2>1
  <2> QED
    BY <1>7, <1>11, <2>2
<1>12. ASSUME longer = {}, fits # {}
       PROVE  i # None /\ rkmatch(w, list[i]) = Len(best) /\ list[i].k_yomi = ln.kana
  <2>1. best \in fits /\ \A j \in fits : Len(j) <= Len(best)
    BY <1>5, <1>12, LongestChosen
  <2> PICK b : b = best
    OBVIOUS
  <2> PICK j \in 1..Len(list) : list[j].r_key = Tail(b)
    BY <1>5, <2>1 DEF Listed
  <2>2. Starts(list[j].r_key, v) /\ b \in Seq(Letter) /\ b # <<>> /\ Head(b) = c /\ Starts(b, w)
    BY <1>5, <2>1
  <2>3. i # None /\ i \in 1..Len(list)
        /\ (Longer(v, list[i].r_key) \/ Starts(list[i].r_key, v))
        /\ (Starts(list[i].r_key, v) => Len(list[j].r_key) <= Len(list[i].r_key))
    BY <1>8, <2>2
  <2> PICK l \in 1..m : /\ lines[l].key \in keys /\ Head(lines[l].key) = c
                        /\ Tail(lines[l].key) = list[i].r_key
                        /\ FirstLine(lines, l) /\ list[i].k_yomi = lines[l].kana
    BY <1>6, <2>3
  <2> PICK k : k = lines[l].key
    OBVIOUS
  <2>4. Starts(list[i].r_key, v) /\ k \in fits
    BY <1>7, <1>12, <2>3
  <2>5. k \in Seq(Letter) /\ k # <<>> /\ Starts(k, w) /\ Len(k) <= Len(b)
    BY <1>5, <2>1, <2>4
  <2>6. /\ Len(Tail(b)) = Len(b) - 1 /\ Len(Tail(k)) = Len(k) - 1
        /\ Len(b) \in Nat /\ Len(k) \in Nat
    BY <2>2, <2>5, KeyStarts
  <2>7. Len(Tail(b)) <= Len(Tail(k))
    BY <2>3, <2>4
  <2>8. Len(k) = Len(b)
    BY <2>5, <2>6, <2>7
  <2>9. k = b
    <3>1. Starts(k, b)
      BY <2>2, <2>5, StartsBetween
    <3> QED
      BY <2>2, <2>5, <2>8, <3>1, PrefixIs
  <2>10. rkmatch(w, list[i]) = Len(b)
    <3>3. list \in Seq(Entry) /\ i \in 1..Len(list)
      BY <1>0, <2>3
    <3>4. list[i] \in Entry
      BY ONLY <3>3
    <3>1. list[i] \in Entry /\ list[i].r_key = Tail(b)
      BY <2>9, <3>4
    <3>2. rkmatch(w, list[i]) = Len(list[i].r_key) + 1
      BY <2>4, <3>1, LetterMatch
    <3> QED
      BY <2>6, <3>1, <3>2
  <2>11. ln = lines[l]
    <3>1. lines[l].key = best
      BY <2>9
    <3> HIDE DEF best
    <3> QED
      BY <3>1, LineChosen
  <2> QED
    BY <2>3, <2>10, <2>11
<1>13. IF longer # {} THEN i # None /\ rkmatch(w, list[i]) = CONTINUE
       ELSE IF fits = {} THEN i = None
       ELSE /\ i # None
            /\ rkmatch(w, list[i]) = Len(best)
            /\ list[i].k_yomi = ln.kana
  BY <1>10, <1>11, <1>12
<1> QED
  BY <1>13 DEF longer, fits, keys, Answers

Loaded == rcode = sj3_rkinit_sub(file)

LEMMA NextLoaded ==
    ASSUME Loaded, [Next]_vars
    PROVE  Loaded'
<1>1. ASSUME UNCHANGED <<rcode, file>> PROVE Loaded'
  BY <1>1 DEF Loaded
<1>2. ASSUME NEW f \in Files, sj3_rkinit(f) PROVE Loaded'
  BY <1>2 DEF sj3_rkinit, Loaded
<1>3. CASE sj3_rkclear
  BY <1>1, <1>3 DEF sj3_rkclear
<1>4. CASE sj3_rkreset
  BY <1>1, <1>4 DEF sj3_rkreset
<1>5. ASSUME NEW err \in BOOLEAN, sj3_rkebell(err) PROVE Loaded'
  BY <1>1, <1>5 DEF sj3_rkebell
<1>6. CASE EraseConversion
  BY <1>1, <1>6 DEF EraseConversion
<1>7. CASE EraseKey
  BY <1>1, <1>7 DEF EraseKey
<1>8. ASSUME NEW c \in Letters, sj3_rkconvc(c) PROVE Loaded'
  BY <1>1, <1>8 DEF sj3_rkconvc
<1>9. CASE UNCHANGED vars
  BY <1>1, <1>9 DEF vars
<1> QED
  BY <1>2, <1>3, <1>4, <1>5, <1>6, <1>7, <1>8, <1>9 DEF Next

LEMMA InitLoaded == Init => Loaded
<1> SUFFICES ASSUME Init PROVE Loaded
  OBVIOUS
<1>1. rcode = cltable /\ file = <<>>
  BY DEF Init
<1>2. <<>> \in Seq(Line) /\ Len(<<>>) = 0
  OBVIOUS
<1>3. \E g \in [0..Len(<<>>) -> Table] :
         /\ g[0] = cltable
         /\ \A n \in 1..Len(<<>>) : g[n] = AddLine(g[n - 1], <<>>[n])
         /\ sj3_rkinit_sub(<<>>) = g[Len(<<>>)]
  BY ONLY <1>2, TableDefined
<1> QED
  BY <1>1, <1>2, <1>3 DEF Loaded

LEMMA ThreeLetters ==
    ASSUME NEW c \in Letter, NEW d \in Letter, NEW e \in Letter, NEW n \in 1..3
    PROVE  LET w == SubSeq(<<c, d, e>>, 1, n)
           IN  w \in Seq(Letter) /\ w # <<>> /\ c = Head(w)
<1> PICK w : w = SubSeq(<<c, d, e>>, 1, n)
  OBVIOUS
<1>1. <<c, d, e>> \in Seq(Letter) /\ Len(<<c, d, e>>) = 3 /\ <<c, d, e>>[1] = c
  OBVIOUS
<1>2. w \in Seq(Letter) /\ Len(w) = n /\ w[1] = c
  BY <1>1
<1>3. w # <<>> /\ Head(w) = w[1]
  BY <1>2
<1> QED
  BY <1>2, <1>3

LEMMA TableFollows ==
    ASSUME TypeOK, Loaded
    PROVE  TableExact
<1>1. file \in Seq(Line) /\ rcode \in Table /\ Built(rcode, file, Len(file))
  BY TableBuilt DEF TypeOK, Loaded
<1>2. \A i \in 1..Len(file) : ToSet(file[i].key) \subseteq Letter
  <2> SUFFICES ASSUME NEW i \in 1..Len(file) PROVE ToSet(file[i].key) \subseteq Letter
    OBVIOUS
  <2>1. file[i].key \in Seq(Letter)
    BY <1>1, LineType
  <2> QED
    BY <2>1 DEF ToSet
<1> DEFINE Used == UNION {ToSet(file[i].key) : i \in 1..Len(file)}
<1>3. Used \subseteq Letter
  BY <1>2
<1> HIDE DEF Used
<1>4. ASSUME NEW w \in Seq(Letter), w # <<>>, NEW c, c = Head(w) PROVE Answers(file, rcode, w, c)
  BY <1>1, <1>4, WordFound
<1>5. \A c, d, e \in Used : \A n \in 1..3 : Answers(file, rcode, SubSeq(<<c, d, e>>, 1, n), c)
  <2> SUFFICES ASSUME NEW c \in Used, NEW d \in Used, NEW e \in Used, NEW n \in 1..3
               PROVE  Answers(file, rcode, SubSeq(<<c, d, e>>, 1, n), c)
    OBVIOUS
  <2> PICK w : w = SubSeq(<<c, d, e>>, 1, n)
    OBVIOUS
  <2>1. c \in Letter /\ d \in Letter /\ e \in Letter
    BY <1>3
  <2>2. w \in Seq(Letter) /\ w # <<>> /\ c = Head(w)
    BY <2>1, ThreeLetters
  <2>3. Answers(file, rcode, w, c)
    BY <1>4, <2>2
  <2> QED
    BY <2>3
<1> QED
  BY <1>5 DEF Used, Answers, TableExact

\* Whatever the order of the lines, the table waits while the romaji start a
\* longer key and else takes the longest key they start with, by its first
\* line; and the cached position changes that only as CachedPositionExact says.
THEOREM LookupIsExact == Spec => []LookupExact
<1>1. Init => TypeOK /\ Hinted /\ Loaded
  BY InitType, InitLoaded, NoPlace DEF Init, Hinted
<1>2. TypeOK /\ Hinted /\ Loaded /\ [Next]_vars => TypeOK' /\ Hinted' /\ Loaded'
  BY NextType, NextHinted, NextLoaded
<1>3. TypeOK /\ Hinted /\ Loaded => LookupExact
  BY HintFollows, TableFollows DEF LookupExact
<1> QED
  BY <1>1, <1>2, <1>3, PTL DEF Spec
----------------------------------------------------------------------------
(* The converter of a string, call by call *)

\* The state of rkconvs between two calls; there is something left to give.
Calling == {t \in [w : Seq(Char), kana : Seq(Nat), more : BOOLEAN, undef : BOOLEAN] :
              t.more => t.w # <<>>}

\* The three results of a search.
Paused(s) == Hit(s) \in Nat \ {0} /\ rkmatch(s.w, HitEntry(s)) = CONTINUE
Matched(s) ==
    /\ Hit(s) \in Nat \ {0} /\ HitEntry(s) \in Entry
    /\ rkmatch(s.w, HitEntry(s)) = Len(HitEntry(s).r_key) + 1
    /\ Len(HitEntry(s).r_key) + 1 <= Len(s.w)
Nothing(s) == Hit(s) = None

LEMMA Results ==
    ASSUME rcode \in Table, NEW s \in State, s.w # <<>>
    PROVE  Paused(s) \/ Matched(s) \/ Nothing(s)
<1> PICK t : t = Search(s, FALSE)
  OBVIOUS
<1>1. \/ Waits(s, t) \/ Matches(s, t) \/ Ends(s, t)
      \/ Refuses(s, t, FALSE) \/ Drops(s, t, FALSE)
  BY SearchIs
<1> QED
  BY <1>1 DEF Waits, Matches, Ends, Refuses, Drops, Paused, Matched, Nothing

\* A search from the start of a list, as a call does it.
Looks(s, t) == s \in State /\ s.w = t.w /\ s.p = NULL /\ (s.wide => ~Wide(Head(s.w)))

\* What a call makes of its string, by the result of the search.
CallResults(s, t, u, w, e) ==
    /\ Paused(s) => u = [t EXCEPT !.more = FALSE]
    /\ Matched(s) => u = [t EXCEPT !.w = Leftover(w, Len(e.r_key) + 1, e.r_str),
                                   !.kana = @ \o e.k_yomi, !.more = Len(e.r_key) + 1 < Len(w)]
    /\ Nothing(s) /\ Len(w) = 1 => u = [t EXCEPT !.w = <<>>, !.kana = @ \o w, !.more = FALSE]
    /\ Nothing(s) /\ Len(w) # 1 =>
          \/ u = [t EXCEPT !.undef = TRUE, !.more = FALSE]
          \/ u = [t EXCEPT !.w = Tail(@), !.kana = Append(@, w[1])]

LEMMA CallIs ==
    ASSUME rcode \in Table, NEW t \in Calling, t.more, NEW s, Looks(s, t)
    PROVE  CallResults(s, t, RkconvsCall(t), t.w, HitEntry(s))
<1> PICK u, w, list, i, e, m, x :
       /\ u = RkconvsCall(t) /\ w = t.w /\ list = ListOf(s) /\ i = Hit(s) /\ e = HitEntry(s)
       /\ m = rkmatch(w, e) /\ x = sj3_rkconv_w16(w)
  OBVIOUS
<1>0. w \in Seq(Char) /\ w # <<>> /\ s.w = w /\ e = list[i]
  BY DEF Calling, Looks, HitEntry
<1>1. list = (IF Wide(Head(w)) THEN <<>> ELSE rcode[WTOUPPER(Head(w))]) /\ i = Find(list, 1, w)
  BY <1>0 DEF Looks, ListOf, First, From, Hit
<1>2. x = IF i # None /\ m = CONTINUE
          THEN [n |-> CONTINUE, kana |-> <<>>, w |-> w, undef |-> FALSE]
          ELSE IF i # None
          THEN [n |-> m, kana |-> e.k_yomi, w |-> Leftover(w, m, e.r_str), undef |-> FALSE]
          ELSE IF Len(w) = 1
          THEN [n |-> 1, kana |-> w, w |-> <<>>, undef |-> FALSE]
          ELSE [n |-> NOMACH, kana |-> <<>>, w |-> w, undef |-> list = <<>>]
  BY <1>0, <1>1 DEF sj3_rkconv_w16
<1>3. u = IF x.undef THEN [t EXCEPT !.undef = TRUE, !.more = FALSE]
          ELSE IF x.n = CONTINUE THEN [t EXCEPT !.more = FALSE]
          ELSE IF x.n = NOMACH
          THEN [t EXCEPT !.w = Tail(@), !.kana = Append(@, w[1])]
          ELSE [t EXCEPT !.w = x.w, !.kana = @ \o x.kana, !.more = x.n < Len(w)]
  BY DEF RkconvsCall
<1>4. None \notin Nat \ {0} /\ CONTINUE # NOMACH
  BY DEF None, CONTINUE, NOMACH
<1>5. Paused(s) => u = [t EXCEPT !.more = FALSE]
  <2> SUFFICES ASSUME Paused(s) PROVE u = [t EXCEPT !.more = FALSE]
    OBVIOUS
  <2>1. i # None /\ m = CONTINUE
    BY <1>0, <1>4 DEF Paused
  <2>2. x = [n |-> CONTINUE, kana |-> <<>>, w |-> w, undef |-> FALSE]
    BY <1>2, <2>1
  <2>3. ~x.undef /\ x.n = CONTINUE
    BY <2>2
  <2> QED
    BY <1>3, <2>3
<1>6. Matched(s) => u = [t EXCEPT !.w = Leftover(w, Len(e.r_key) + 1, e.r_str),
                                  !.kana = @ \o e.k_yomi, !.more = Len(e.r_key) + 1 < Len(w)]
  <2> SUFFICES ASSUME Matched(s)
               PROVE  u = [t EXCEPT !.w = Leftover(w, Len(e.r_key) + 1, e.r_str),
                                    !.kana = @ \o e.k_yomi, !.more = Len(e.r_key) + 1 < Len(w)]
    OBVIOUS
  <2>1. i # None /\ m = Len(e.r_key) + 1 /\ e \in Entry
    BY <1>0, <1>4 DEF Matched
  <2>2. m # CONTINUE /\ m # NOMACH
    BY <2>1, EntryFields DEF CONTINUE, NOMACH
  <2>3. x = [n |-> m, kana |-> e.k_yomi, w |-> Leftover(w, m, e.r_str), undef |-> FALSE]
    BY <1>2, <2>1, <2>2
  <2>4. ~x.undef /\ x.n = m /\ x.kana = e.k_yomi /\ x.w = Leftover(w, m, e.r_str)
    BY <2>3
  <2>5. u = [t EXCEPT !.w = Leftover(w, m, e.r_str), !.kana = @ \o e.k_yomi, !.more = m < Len(w)]
    BY <1>3, <2>2, <2>4
  <2> QED
    BY <2>1, <2>5
<1>7. Nothing(s) /\ Len(w) = 1 => u = [t EXCEPT !.w = <<>>, !.kana = @ \o w, !.more = FALSE]
  <2> SUFFICES ASSUME Nothing(s), Len(w) = 1
               PROVE  u = [t EXCEPT !.w = <<>>, !.kana = @ \o w, !.more = FALSE]
    OBVIOUS
  <2>1. x = [n |-> 1, kana |-> w, w |-> <<>>, undef |-> FALSE]
    BY <1>2 DEF Nothing
  <2>2. ~x.undef /\ x.n = 1 /\ x.kana = w /\ x.w = <<>>
    BY <2>1
  <2>3. x.n # CONTINUE /\ x.n # NOMACH
    BY <2>2 DEF CONTINUE, NOMACH
  <2>4. u = [t EXCEPT !.w = x.w, !.kana = @ \o x.kana, !.more = x.n < Len(w)]
    BY <1>3, <2>2, <2>3
  <2>5. (x.n < Len(w)) = FALSE
    BY <2>2
  <2> QED
    BY <2>2, <2>4, <2>5
<1>8. Nothing(s) /\ Len(w) # 1 =>
         \/ u = [t EXCEPT !.undef = TRUE, !.more = FALSE]
         \/ u = [t EXCEPT !.w = Tail(@), !.kana = Append(@, w[1])]
  <2> SUFFICES ASSUME Nothing(s), Len(w) # 1
               PROVE  \/ u = [t EXCEPT !.undef = TRUE, !.more = FALSE]
                      \/ u = [t EXCEPT !.w = Tail(@), !.kana = Append(@, w[1])]
    OBVIOUS
  <2>1. x = [n |-> NOMACH, kana |-> <<>>, w |-> w, undef |-> list = <<>>]
    BY <1>2 DEF Nothing
  <2>2. x.n = NOMACH
    BY <2>1
  <2> QED
    BY <1>3, <1>4, <2>2
<1> QED
  BY <1>5, <1>6, <1>7, <1>8 DEF CallResults

LEMMA CallLooks ==
    ASSUME NEW t \in Calling, t.more
    PROVE  Looks(Begun(t.w, NULL), t) /\ Begun(t.w, NULL).w = t.w /\ t.w # <<>> /\ t.w \in Seq(Char)
<1>1. t.w \in Seq(Char) /\ t.w # <<>> /\ NULL \in Place
  BY DEF Calling, Place
<1>2. Begun(t.w, NULL) \in State
  BY <1>1 DEF Begun, State
<1> QED
  BY <1>1, <1>2 DEF Looks, Begun

LEMMA CallType ==
    ASSUME rcode \in Table, NEW t \in Calling, t.more
    PROVE  RkconvsCall(t) \in Calling /\ (t.undef => RkconvsCall(t).undef)
<1> PICK s, u, w, e, k, l :
       /\ s = Begun(t.w, NULL) /\ u = RkconvsCall(t) /\ w = t.w /\ e = HitEntry(s)
       /\ k = t.kana /\ l = Len(w)
  OBVIOUS
<1>1. /\ w \in Seq(Char) /\ w # <<>> /\ k \in Seq(Nat) /\ t.undef \in BOOLEAN /\ l \in Nat \ {0}
      /\ t = [w |-> w, kana |-> k, more |-> TRUE, undef |-> t.undef]
  BY DEF Calling
<1>2. Looks(s, t) /\ s \in State /\ s.w = w
  BY CallLooks DEF Looks
<1>3. Paused(s) \/ Matched(s) \/ Nothing(s)
  BY <1>1, <1>2, Results
<1>9. CallResults(s, t, u, w, e)
  BY <1>2, CallIs
<1>4. CASE Paused(s)
  <2>1. u = [t EXCEPT !.more = FALSE]
    BY <1>4, <1>9 DEF CallResults
  <2>2. u = [w |-> w, kana |-> k, more |-> FALSE, undef |-> t.undef]
    BY <1>1, <2>1
  <2> QED
    BY <1>1, <2>2 DEF Calling
<1>5. CASE Matched(s)
  <2> PICK m, r, v, x : /\ m = Len(e.r_key) + 1 /\ r = e.r_str /\ v = Leftover(w, m, r) /\ x = k \o e.k_yomi
    OBVIOUS
  <2> PICK d \in BOOLEAN : d <=> m < l
    OBVIOUS
  <2>1. u = [t EXCEPT !.w = v, !.kana = x, !.more = d]
    <3>1. u = [t EXCEPT !.w = Leftover(w, Len(e.r_key) + 1, e.r_str), !.kana = @ \o e.k_yomi,
                        !.more = Len(e.r_key) + 1 < Len(w)]
      BY <1>5, <1>9 DEF CallResults
    <3>2. d = (m < l)
      OBVIOUS
    <3> QED
      BY <3>1, <3>2
  <2>2. e \in Entry /\ m <= l
    BY <1>2, <1>5 DEF Matched
  <2>3. m \in Nat /\ r \in Seq(Letter) /\ Len(r) \in Nat /\ Len(r) < m /\ e.k_yomi \in Seq(Nat)
    BY <2>2, EntryFields
  <2>4. v \in Seq(Char) /\ Len(v) = Len(r) + (l - m)
    BY <1>1, <2>2, <2>3, LeftoverIs
  <2>5. d => v # <<>>
    <3>1. m < l => Len(r) + (l - m) # 0
      BY <1>1, <2>3
    <3> QED
      BY <2>4, <3>1
  <2>6. x \in Seq(Nat)
    BY <1>1, <2>3
  <2>7. u = [w |-> v, kana |-> x, more |-> d, undef |-> t.undef]
    BY <1>1, <2>1
  <2> QED
    BY <1>1, <2>4, <2>5, <2>6, <2>7 DEF Calling
<1>6. \A i \in 1..l : w[i] \in Nat
  <2>1. \A i \in 1..l : w[i] \in Char
    BY <1>1
  <2> QED
    BY <2>1, Letters1
<1>7. CASE Nothing(s) /\ l = 1
  <2> PICK v, x : v = <<>> /\ x = k \o w
    OBVIOUS
  <2>1. u = [t EXCEPT !.w = v, !.kana = x, !.more = FALSE]
    BY <1>7, <1>9 DEF CallResults
  <2>2. v \in Seq(Char) /\ w \in Seq(Nat)
    <3>1. \A i \in 1..Len(w) : w[i] \in Nat
      BY <1>6
    <3>2. w \in [1..Len(w) -> Nat] /\ Len(w) \in Nat
      BY <1>1, <3>1
    <3> QED
      BY <3>2
  <2>3. x \in Seq(Nat)
    BY <1>1, <2>2
  <2>4. u = [w |-> v, kana |-> x, more |-> FALSE, undef |-> t.undef]
    BY <1>1, <2>1
  <2> QED
    BY <1>1, <2>2, <2>3, <2>4 DEF Calling
<1>8. CASE Nothing(s) /\ l # 1
  <2> PICK v, x : v = Tail(w) /\ x = Append(k, w[1])
    OBVIOUS
  <2>1. \/ u = [t EXCEPT !.undef = TRUE, !.more = FALSE]
        \/ u = [t EXCEPT !.w = v, !.kana = x]
    <3>1. \/ u = [t EXCEPT !.undef = TRUE, !.more = FALSE]
          \/ u = [t EXCEPT !.w = Tail(@), !.kana = Append(@, w[1])]
      BY <1>8, <1>9 DEF CallResults
    <3>2. [t EXCEPT !.w = Tail(@), !.kana = Append(@, w[1])] = [t EXCEPT !.w = v, !.kana = x]
      OBVIOUS
    <3> QED
      BY <3>1, <3>2
  <2>2. v \in Seq(Char) /\ v # <<>>
    <3>1. Len(v) = l - 1 /\ l - 1 # 0 /\ v \in Seq(Char)
      BY <1>1, <1>8
    <3> QED
      BY <3>1
  <2>3. x \in Seq(Nat)
    BY <1>1, <1>6
  <2>4. \/ u = [w |-> w, kana |-> k, more |-> FALSE, undef |-> TRUE]
        \/ u = [w |-> v, kana |-> x, more |-> TRUE, undef |-> t.undef]
    BY <1>1, <2>1
  <2>5. CASE u = [w |-> w, kana |-> k, more |-> FALSE, undef |-> TRUE]
    BY <1>1, <2>5 DEF Calling
  <2>6. CASE u = [w |-> v, kana |-> x, more |-> TRUE, undef |-> t.undef]
    BY <1>1, <2>2, <2>3, <2>6 DEF Calling
  <2> QED
    BY <2>4, <2>5, <2>6
<1> QED
  BY <1>3, <1>4, <1>5, <1>7, <1>8

\* What rkconvs has before the calls for one more character.
Handed(s, c) == [s EXCEPT !.w = Append(@, c), !.more = TRUE]

LEMMA HandedIs ==
    ASSUME NEW s \in Calling, NEW c \in Char
    PROVE  /\ Handed(s, c) \in Calling
           /\ Handed(s, c).w = Append(s.w, c) /\ Handed(s, c).kana = s.kana
           /\ Handed(s, c).more /\ Handed(s, c).undef = s.undef
<1> PICK v : v = Append(s.w, c)
  OBVIOUS
<1>1. s.w \in Seq(Char) /\ s.kana \in Seq(Nat) /\ s.undef \in BOOLEAN
  BY DEF Calling
<1>2. v \in Seq(Char) /\ v # <<>>
  BY <1>1, CharAppend
<1>3. Handed(s, c) = [w |-> v, kana |-> s.kana, more |-> TRUE, undef |-> s.undef]
  <2>1. Handed(s, c) = [s EXCEPT !.w = v, !.more = TRUE]
    BY DEF Handed
  <2> QED
    BY <2>1 DEF Calling
<1> QED
  BY <1>1, <1>2, <1>3 DEF Calling

NextCall(t) == IF t.more THEN RkconvsCall(t) ELSE t

\* The states from which RkconvsKey takes its result.
Calls(g, s, c) ==
    /\ g \in [0..(Len(s.w) + 2) -> Calling]
    /\ g[0] = Handed(s, c)
    /\ \A n \in 1..(Len(s.w) + 2) : g[n] = NextCall(g[n - 1])
    /\ RkconvsKey(s, c) = g[Len(s.w) + 2]

LEMMA CallsDefined ==
    ASSUME rcode \in Table, NEW s \in Calling, NEW c \in Char
    PROVE  \E g : Calls(g, s, c)
<1> DEFINE m == Len(s.w) + 2
           a == Handed(s, c)
           step == [x \in Nat \X Calling |-> NextCall(x[2])]
           Def(g) == g = [n \in 0..(Len(s.w) + 2) |->
                            IF n = 0 THEN [s EXCEPT !.w = Append(@, c), !.more = TRUE]
                            ELSE LET t == g[n - 1] IN IF t.more THEN RkconvsCall(t) ELSE t]
<1>0. \A t \in Calling : NextCall(t) \in Calling
  BY CallType DEF NextCall
<1>1. m \in Nat
  <2>1. s.w \in Seq(Char)
    BY DEF Calling
  <2> QED
    BY <2>1
<1>2. a \in Calling
  BY HandedIs
<1> DEFINE Nexts(g) == g = [n \in 0..m |-> IF n = 0 THEN a ELSE NextCall(g[n - 1])]
<1>3. \A g : Def(g) <=> Nexts(g)
  BY DEF Handed, NextCall
<1>4. RkconvsKey(s, c) = (CHOOSE g : Def(g))[m]
  BY DEF RkconvsKey
<1> HIDE DEF m, a
<1>6. step \in [Nat \X Calling -> Calling]
  BY <1>0
<1>7. \A n \in Nat, t \in Calling : step[<<n, t>>] = NextCall(t)
  OBVIOUS
<1> HIDE DEF step
<1>8. PICK h : h \in [0..m -> Calling] /\ h[0] = a
               /\ \A n \in 1..m : h[n] = step[<<n, h[n - 1]>>]
  <2>1. \E h : Iterates(h, Calling, a, m, step)
    BY <1>1, <1>2, <1>6, Iterated
  <2> QED
    BY <2>1 DEF Iterates
<1>9. Nexts(h)
  <2>1. \A n \in 0..m : h[n] = IF n = 0 THEN a ELSE NextCall(h[n - 1])
    <3> SUFFICES ASSUME NEW n \in 1..m PROVE h[n] = NextCall(h[n - 1])
      BY <1>1, <1>8
    <3>1. n - 1 \in 0..m /\ n \in Nat
      BY <1>1
    <3> QED
      BY <1>7, <1>8, <3>1
  <2> QED
    BY <1>8, <2>1
<1>10. PICK g : Nexts(g) /\ RkconvsKey(s, c) = g[m]
  <2> DEFINE f == CHOOSE g : Def(g)
  <2>1. Def(f)
    <3>1. Def(h)
      BY <1>3, <1>9
    <3> HIDE DEF Def
    <3> QED
      BY <3>1
  <2>2. RkconvsKey(s, c) = f[m]
    BY <1>4
  <2> HIDE DEF f, Def, Nexts
  <2> QED
    BY <1>3, <2>1, <2>2
<1>11. g[0] = a /\ \A n \in 1..m : g[n] = NextCall(g[n - 1])
  <2>1. \A n \in 0..m : g[n] = IF n = 0 THEN a ELSE NextCall(g[n - 1])
    BY <1>10
  <2> QED
    BY <1>1, <2>1
<1> DEFINE T == {n \in Nat : n <= m => g[n] \in Calling}
<1>12. 0 \in T
  BY <1>2, <1>11
<1>13. ASSUME NEW n \in T PROVE n + 1 \in T
  <2> SUFFICES ASSUME n + 1 <= m PROVE g[n + 1] \in Calling
    OBVIOUS
  <2>0. n \in Nat /\ (n <= m => g[n] \in Calling)
    OBVIOUS
  <2> HIDE DEF T
  <2>1. n + 1 \in 1..m /\ (n + 1) - 1 = n /\ n <= m
    BY <1>1, <2>0
  <2>2. g[n] \in Calling /\ g[n + 1] = NextCall(g[n])
    BY <1>11, <2>0, <2>1
  <2> QED
    BY <1>0, <2>2
<1>14. T \subseteq Nat
  OBVIOUS
<1> HIDE DEF T
<1>15. T = Nat
  BY <1>12, <1>13, <1>14, SetInduction
<1>16. g \in [0..m -> Calling]
  <2>1. \A n \in 0..m : g[n] \in Calling
    BY <1>1, <1>15 DEF T
  <2> QED
    BY <1>10, <2>1
<1>17. Calls(g, s, c)
  BY <1>10, <1>11, <1>16 DEF Calls, m, a
<1> QED
  BY <1>17

\* An unset variable once returned is not forgotten.
LEMMA KeyType ==
    ASSUME rcode \in Table, NEW s \in Calling, NEW c \in Char
    PROVE  RkconvsKey(s, c) \in Calling /\ (s.undef => RkconvsKey(s, c).undef)
<1> PICK m : m = Len(s.w) + 2
  OBVIOUS
<1>0. m \in Nat
  <2>1. s.w \in Seq(Char)
    BY DEF Calling
  <2> QED
    BY <2>1
<1> PICK g : Calls(g, s, c)
  BY CallsDefined
<1>1. /\ g \in [0..m -> Calling] /\ g[0] = Handed(s, c)
      /\ (\A n \in 1..m : g[n] = NextCall(g[n - 1])) /\ RkconvsKey(s, c) = g[m]
  BY DEF Calls
<1> DEFINE T == {n \in Nat : n <= m => (s.undef => g[n].undef)}
<1>2. 0 \in T
  BY <1>1, HandedIs
<1>3. ASSUME NEW n \in T PROVE n + 1 \in T
  <2> SUFFICES ASSUME n + 1 <= m, s.undef PROVE g[n + 1].undef
    OBVIOUS
  <2>0. n \in Nat /\ (n <= m => g[n].undef)
    OBVIOUS
  <2> HIDE DEF T
  <2>1. n + 1 \in 1..m /\ (n + 1) - 1 = n /\ n <= m /\ n \in 0..m
    BY <1>0, <2>0
  <2>2. g[n] \in Calling /\ g[n].undef /\ g[n + 1] = NextCall(g[n])
    BY <1>1, <2>0, <2>1
  <2> QED
    BY <2>2, CallType DEF NextCall
<1>4. T \subseteq Nat
  OBVIOUS
<1> HIDE DEF T
<1>5. T = Nat
  BY <1>2, <1>3, <1>4, SetInduction
<1>6. m \in T /\ m \in 0..m
  BY <1>0, <1>5
<1> QED
  BY <1>0, <1>1, <1>6 DEF T

\* What rkconvs starts with, and what it has after each character.
NoneGiven == [w |-> <<>>, kana |-> <<>>, more |-> FALSE, undef |-> FALSE]
Gives(g, romaji) ==
    /\ g \in [0..Len(romaji) -> Calling]
    /\ g[0] = NoneGiven
    /\ \A n \in 1..Len(romaji) : g[n] = RkconvsKey(g[n - 1], romaji[n])
    /\ rkconvs(romaji) = g[Len(romaji)]

LEMMA GivesDefined ==
    ASSUME rcode \in Table, NEW romaji \in Seq(Char)
    PROVE  \E g : Gives(g, romaji)
<1> DEFINE m == Len(romaji)
           a == NoneGiven
           next(n, t) == RkconvsKey(t, romaji[n])
           step == [x \in Nat \X Calling |-> IF x[1] \in 1..m THEN next(x[1], x[2]) ELSE x[2]]
           Def(g) == g = [n \in 0..Len(romaji) |->
                            IF n = 0 THEN [w |-> <<>>, kana |-> <<>>, more |-> FALSE, undef |-> FALSE]
                            ELSE RkconvsKey(g[n - 1], romaji[n])]
<1>0. \A n \in 1..m, t \in Calling : next(n, t) \in Calling
  <2>1. \A n \in 1..m : romaji[n] \in Char
    OBVIOUS
  <2> QED
    BY <2>1, KeyType
<1>1. m \in Nat
  OBVIOUS
<1>2. a \in Calling
  BY DEF Calling, NoneGiven
<1> DEFINE Nexts(g) == g = [n \in 0..m |-> IF n = 0 THEN a ELSE next(n, g[n - 1])]
<1>3. \A g : Def(g) <=> Nexts(g)
  BY DEF NoneGiven
<1>4. rkconvs(romaji) = (CHOOSE g : Def(g))[m]
  BY DEF rkconvs
<1>5. \A n, t : next(n, t) = RkconvsKey(t, romaji[n])
  OBVIOUS
<1> HIDE DEF m, a, next
<1>6. step \in [Nat \X Calling -> Calling]
  BY <1>0
<1>7. \A n \in 1..m, t \in Calling : step[<<n, t>>] = next(n, t)
  <2> SUFFICES ASSUME NEW n \in 1..m, NEW t \in Calling PROVE step[<<n, t>>] = next(n, t)
    OBVIOUS
  <2>1. n \in Nat
    BY <1>1
  <2> QED
    BY <2>1
<1> HIDE DEF step
<1>8. PICK h : h \in [0..m -> Calling] /\ h[0] = a
               /\ \A n \in 1..m : h[n] = step[<<n, h[n - 1]>>]
  <2>1. \E h : Iterates(h, Calling, a, m, step)
    BY <1>1, <1>2, <1>6, Iterated
  <2> QED
    BY <2>1 DEF Iterates
<1>9. Nexts(h)
  <2>1. \A n \in 0..m : h[n] = IF n = 0 THEN a ELSE next(n, h[n - 1])
    <3> SUFFICES ASSUME NEW n \in 1..m PROVE h[n] = next(n, h[n - 1])
      BY <1>1, <1>8
    <3>1. n - 1 \in 0..m
      BY <1>1
    <3> QED
      BY <1>7, <1>8, <3>1
  <2> QED
    BY <1>8, <2>1
<1>10. PICK g : Nexts(g) /\ rkconvs(romaji) = g[m]
  <2> DEFINE f == CHOOSE g : Def(g)
  <2>1. Def(f)
    <3>1. Def(h)
      BY <1>3, <1>9
    <3> HIDE DEF Def
    <3> QED
      BY <3>1
  <2>2. rkconvs(romaji) = f[m]
    BY <1>4
  <2> HIDE DEF f, Def, Nexts
  <2> QED
    BY <1>3, <2>1, <2>2
<1>11. g[0] = a /\ \A n \in 1..m : g[n] = next(n, g[n - 1])
  <2>1. \A n \in 0..m : g[n] = IF n = 0 THEN a ELSE next(n, g[n - 1])
    BY <1>10
  <2> QED
    BY <1>1, <2>1
<1> DEFINE T == {n \in Nat : n <= m => g[n] \in Calling}
<1>12. 0 \in T
  BY <1>2, <1>11
<1>13. ASSUME NEW n \in T PROVE n + 1 \in T
  <2> SUFFICES ASSUME n + 1 <= m PROVE g[n + 1] \in Calling
    OBVIOUS
  <2>0. n \in Nat /\ (n <= m => g[n] \in Calling)
    OBVIOUS
  <2> HIDE DEF T
  <2>1. n + 1 \in 1..m /\ (n + 1) - 1 = n /\ n <= m
    BY <1>1, <2>0
  <2>2. g[n] \in Calling /\ g[n + 1] = next(n + 1, g[n])
    BY <1>11, <2>0, <2>1
  <2> QED
    BY <1>0, <2>1, <2>2
<1>14. T \subseteq Nat
  OBVIOUS
<1> HIDE DEF T
<1>15. T = Nat
  BY <1>12, <1>13, <1>14, SetInduction
<1>16. g \in [0..m -> Calling]
  <2>1. \A n \in 0..m : g[n] \in Calling
    BY <1>1, <1>15 DEF T
  <2> QED
    BY <1>10, <2>1
<1>17. \A n \in 1..m : g[n] = RkconvsKey(g[n - 1], romaji[n])
  BY <1>5, <1>11
<1>18. Gives(g, romaji)
  BY <1>10, <1>11, <1>16, <1>17 DEF Gives, m, a
<1> QED
  BY <1>18

LEMMA GivenMore ==
    ASSUME rcode \in Table, NEW romaji \in Seq(Char), NEW c \in Char
    PROVE  /\ rkconvs(romaji) \in Calling
           /\ rkconvs(Append(romaji, c)) = RkconvsKey(rkconvs(romaji), c)
<1> PICK m, v : m = Len(romaji) /\ v = Append(romaji, c)
  OBVIOUS
<1>0. /\ m \in Nat /\ v \in Seq(Char) /\ Len(v) = m + 1 /\ v[m + 1] = c
      /\ \A n \in 1..m : v[n] = romaji[n]
  OBVIOUS
<1> PICK g : Gives(g, romaji)
  BY GivesDefined
<1> PICK h : Gives(h, v)
  BY <1>0, GivesDefined
<1>1. /\ g \in [0..m -> Calling] /\ g[0] = NoneGiven /\ rkconvs(romaji) = g[m]
      /\ \A n \in 1..m : g[n] = RkconvsKey(g[n - 1], romaji[n])
  BY DEF Gives
<1>2. /\ h[0] = NoneGiven /\ rkconvs(v) = h[m + 1]
      /\ \A n \in 1..(m + 1) : h[n] = RkconvsKey(h[n - 1], v[n])
  BY <1>0 DEF Gives
<1> DEFINE T == {n \in Nat : n <= m => h[n] = g[n]}
<1>3. 0 \in T
  BY <1>1, <1>2
<1>4. ASSUME NEW n \in T PROVE n + 1 \in T
  <2> SUFFICES ASSUME n + 1 <= m PROVE h[n + 1] = g[n + 1]
    OBVIOUS
  <2>0. n \in Nat /\ (n <= m => h[n] = g[n])
    OBVIOUS
  <2> HIDE DEF T
  <2>1. n + 1 \in 1..m /\ n + 1 \in 1..(m + 1) /\ (n + 1) - 1 = n /\ n <= m
    BY <1>0, <2>0
  <2>2. g[n + 1] = RkconvsKey(g[n], romaji[n + 1])
    BY <1>1, <2>1
  <2>3. h[n + 1] = RkconvsKey(h[n], v[n + 1])
    BY <1>2, <2>1
  <2>4. v[n + 1] = romaji[n + 1] /\ h[n] = g[n]
    BY <1>0, <2>0, <2>1
  <2> QED
    BY <2>2, <2>3, <2>4
<1>5. T \subseteq Nat
  OBVIOUS
<1> HIDE DEF T
<1>6. T = Nat
  BY <1>3, <1>4, <1>5, SetInduction
<1>7. h[m] = g[m] /\ m \in 0..m
  BY <1>0, <1>6 DEF T
<1>8. m + 1 \in 1..(m + 1) /\ (m + 1) - 1 = m
  BY <1>0
<1>9. h[m + 1] = RkconvsKey(h[m], v[m + 1])
  BY <1>2, <1>8
<1> QED
  BY <1>0, <1>1, <1>2, <1>7, <1>9

----------------------------------------------------------------------------
(* Keys and a string go through the same searches *)

\* Characters that are not wide.
Narrow == Letter \cup 11..19

LEMMA NarrowIs ==
    /\ Narrow \subseteq Char /\ Letter \subseteq Narrow
    /\ \A c \in Char : c \in Narrow <=> ~Wide(c)
<1>1. \A c \in 21..29 : Wide(c)
  BY DEF Wide
<1>2. \A c \in Narrow : ~Wide(c)
  BY DEF Narrow, Letter, Wide
<1> QED
  BY <1>1, <1>2 DEF Narrow, Char

LEMMA NarrowWord ==
    ASSUME NEW w \in Seq(Narrow)
    PROVE  w \in Seq(Char) /\ (w # <<>> => ~Wide(Head(w)))
<1>1. Len(w) \in Nat /\ w \in [1..Len(w) -> Char]
  BY NarrowIs
<1>2. w # <<>> => Head(w) \in Narrow
  OBVIOUS
<1>3. w \in Seq(Char)
  BY <1>1
<1> QED
  BY <1>2, <1>3, NarrowIs

LEMMA LeftoverNarrow ==
    ASSUME NEW w \in Seq(Narrow), NEW s \in Seq(Letter), NEW n \in Nat,
           Len(s) < n, n <= Len(w)
    PROVE  Leftover(w, n, s) \in Seq(Narrow)
<1> DEFINE back == [i \in 1..Len(s) |->
                      LET q == w[n - Len(s) + i] IN IF s[i] = WTOUPPER(q) THEN q ELSE s[i]]
           after == SubSeq(w, n + 1, Len(w))
<1>0. Len(s) \in Nat /\ Len(w) \in Nat
  OBVIOUS
<1>1. back \in Seq(Narrow)
  <2>1. \A i \in 1..Len(s) : back[i] \in Narrow
    <3> SUFFICES ASSUME NEW i \in 1..Len(s) PROVE back[i] \in Narrow
      OBVIOUS
    <3>1. n - Len(s) + i \in 1..Len(w)
      BY <1>0
    <3>2. w[n - Len(s) + i] \in Narrow
      BY <3>1
    <3>3. s[i] \in Narrow
      <4>1. s[i] \in Letter
        OBVIOUS
      <4> QED
        BY <4>1, NarrowIs
    <3> QED
      BY <3>2, <3>3
  <2> QED
    BY <1>0, <2>1
<1>2. after \in Seq(Narrow)
  BY <1>0
<1>3. Leftover(w, n, s) = back \o after
  BY DEF Leftover
<1> HIDE DEF back, after
<1> QED
  BY ONLY <1>1, <1>2, <1>3, Joined

\* The kana of a sequence of codes.
Kanas(x) == [i \in 1..Len(x) |-> x[i].c]

LEMMA KanasType ==
    ASSUME NEW x \in Seq(Code)
    PROVE  Kanas(x) \in Seq(Nat) /\ Len(Kanas(x)) = Len(x) /\ \A i \in 1..Len(x) : Kanas(x)[i] = x[i].c
<1>1. \A i \in 1..Len(x) : x[i] \in Code
  OBVIOUS
<1>2. \A i \in 1..Len(x) : x[i].c \in Nat
  BY <1>1 DEF Code
<1> QED
  BY <1>2 DEF Kanas

LEMMA KanasJoined ==
    ASSUME NEW x \in Seq(Code), NEW y \in Seq(Code)
    PROVE  Kanas(x \o y) = Kanas(x) \o Kanas(y)
<1> PICK z, p, q, m, n : z = x \o y /\ p = Kanas(x) /\ q = Kanas(y) /\ m = Len(x) /\ n = Len(y)
  OBVIOUS
<1>1. m \in Nat /\ n \in Nat /\ z \in Seq(Code) /\ Len(z) = m + n
  OBVIOUS
<1>2. (\A i \in 1..m : z[i] = x[i]) /\ \A i \in 1..n : z[m + i] = y[i]
  OBVIOUS
<1>3. /\ p \in Seq(Nat) /\ q \in Seq(Nat) /\ Len(p) = m /\ Len(q) = n
      /\ (\A i \in 1..m : p[i] = x[i].c) /\ \A i \in 1..n : q[i] = y[i].c
  BY KanasType
<1> PICK r, k : r = p \o q /\ k = Kanas(z)
  OBVIOUS
<1>4. /\ r \in Seq(Nat) /\ Len(r) = m + n
      /\ (\A i \in 1..m : r[i] = p[i]) /\ \A i \in 1..n : r[m + i] = q[i]
  <2>1. p \in Seq(Nat) /\ q \in Seq(Nat) /\ Len(p) = m /\ Len(q) = n /\ r = p \o q
    BY <1>3
  <2>2. /\ p \o q \in Seq(Nat) /\ Len(p \o q) = Len(p) + Len(q)
        /\ \A i \in 1..Len(p) : (p \o q)[i] = p[i]
        /\ \A i \in 1..Len(q) : (p \o q)[Len(p) + i] = q[i]
    <3>1. p \in Seq(Nat) /\ q \in Seq(Nat)
      BY <2>1
    <3> QED
      BY ONLY <3>1
  <2> QED
    BY <2>1, <2>2
<1>5. k \in Seq(Nat) /\ Len(k) = m + n /\ \A i \in 1..(m + n) : k[i] = z[i].c
  BY <1>1, KanasType
<1>6. \A i \in 1..(m + n) : k[i] = r[i]
  <2> SUFFICES ASSUME NEW i \in 1..(m + n) PROVE k[i] = r[i]
    OBVIOUS
  <2>0. k[i] = z[i].c
    BY <1>5
  <2>1. CASE i <= m
    <3>1. i \in 1..m
      BY <1>1, <2>1
    <3>2. z[i] = x[i]
      BY <1>2, <3>1
    <3>3. r[i] = p[i] /\ p[i] = x[i].c
      BY <1>3, <1>4, <3>1
    <3> QED
      BY <2>0, <3>2, <3>3
  <2>2. CASE ~(i <= m)
    <3> PICK j : j = i - m
      OBVIOUS
    <3>1. j \in 1..n /\ i = m + j
      BY <1>1, <2>2
    <3>2. z[m + j] = y[j]
      BY <1>2, <3>1
    <3>3. r[m + j] = q[j] /\ q[j] = y[j].c
      BY <1>3, <1>4, <3>1
    <3> QED
      BY <2>0, <3>1, <3>2, <3>3
  <2> QED
    BY <2>1, <2>2
<1>7. k = r
  BY ONLY <1>4, <1>5, <1>6, SeqEqual
<1> QED
  BY <1>7

LEMMA KanasMore ==
    ASSUME NEW x \in Seq(Code), NEW k \in Nat, NEW n \in Int
    PROVE  Kanas(Append(x, Kana(k, n))) = Append(Kanas(x), k)
<1> PICK d, y : d = Kana(k, n) /\ y = <<d>>
  OBVIOUS
<1>1. d \in Code /\ d.c = k
  BY DEF Kana, Code
<1>2. y \in Seq(Code) /\ Len(y) = 1 /\ y[1] = d /\ Append(x, d) = x \o y
  BY <1>1
<1>3. Kanas(y) = <<k>>
  BY <1>1, <1>2 DEF Kanas
<1>4. Kanas(x) \in Seq(Nat)
  BY KanasType
<1>5. Append(Kanas(x), k) = Kanas(x) \o <<k>>
  BY <1>4
<1> QED
  BY <1>2, <1>3, <1>5, KanasJoined

LEMMA KanasMatch ==
    ASSUME NEW e \in Entry, NEW n \in Nat
    PROVE  Kanas(MatchCodes(e, n)) = e.k_yomi
<1> PICK x, k, y, l : x = MatchCodes(e, n) /\ k = Kanas(x) /\ y = e.k_yomi /\ l = Len(y)
  OBVIOUS
<1>1. y \in Seq(Nat) /\ x \in Seq(Code) /\ Len(x) = l /\ \A i \in 1..l : x[i].c = y[i]
  BY CodesType, EntryFields
<1>2. k \in Seq(Nat) /\ Len(k) = l /\ \A i \in 1..l : k[i] = x[i].c
  BY <1>1, KanasType
<1>3. \A i \in 1..l : k[i] = y[i]
  BY <1>1, <1>2
<1>4. k = y
  <2>1. k \in Seq(Nat) /\ y \in Seq(Nat) /\ Len(k) = Len(y) /\ \A i \in 1..Len(k) : k[i] = y[i]
    BY <1>1, <1>2, <1>3
  <2> QED
    BY ONLY <2>1, SeqEqual
<1> QED
  BY <1>4

LEMMA NumbersJoined ==
    ASSUME NEW x \in Seq(Nat), NEW y \in Seq(Nat), NEW z \in Seq(Nat)
    PROVE  (x \o y) \o z = x \o (y \o z)
BY ConcatAssociative

LEMMA NumberJoined ==
    ASSUME NEW x \in Seq(Nat), NEW y \in Seq(Nat), NEW n \in Nat
    PROVE  Append(x \o y, n) = x \o Append(y, n)
<1> PICK z : z = x \o y
  OBVIOUS
<1>1. <<n>> \in Seq(Nat) /\ z \in Seq(Nat)
  OBVIOUS
<1>2. Append(y, n) = y \o <<n>>
  OBVIOUS
<1>3. Append(z, n) = z \o <<n>>
  BY ONLY <1>1
<1>4. z \o <<n>> = x \o (y \o <<n>>)
  BY <1>1, NumbersJoined
<1> QED
  BY <1>2, <1>3, <1>4

NextSearch(s, strict) == IF s.done THEN s ELSE Search(s, strict)

\* Once the whole string returns an unset variable, or the key is refused,
\* nothing is claimed; else both have the same string and the same kana.
SameText(s, t, k0) ==
    /\ s.w = t.w /\ s.w \in Seq(Narrow)
    /\ t.kana = k0 \o Kanas(s.out)
    /\ s.done <=> ~t.more
    /\ ~s.done => s.p = NULL
Alike(s, t, k0) == t.undef \/ ~s.ok \/ SameText(s, t, k0)

LEMMA RefusedStays ==
    ASSUME rcode \in Table, NEW s \in Searching, NEW strict \in BOOLEAN, ~s.ok
    PROVE  ~NextSearch(s, strict).ok
<1>1. CASE s.done
  BY <1>1 DEF NextSearch
<1>2. CASE ~s.done
  <2> PICK t : t = Search(s, strict)
    OBVIOUS
  <2>1. s \in State /\ s.w # <<>>
    BY <1>2 DEF Searching
  <2>2. \/ Waits(s, t) \/ Matches(s, t) \/ Ends(s, t)
        \/ Refuses(s, t, strict) \/ Drops(s, t, strict)
    BY <2>1, SearchIs
  <2>3. ~t.ok
    BY <2>1, <2>2 DEF State, Waits, Matches, Ends, Refuses, Drops
  <2> QED
    BY <1>2, <2>3 DEF NextSearch
<1> QED
  BY <1>1, <1>2

LEMMA AlikeStep ==
    ASSUME rcode \in Table, NEW s \in Searching, NEW t \in Calling, NEW strict \in BOOLEAN,
           NEW k0 \in Seq(Nat), Alike(s, t, k0)
    PROVE  Alike(NextSearch(s, strict), NextCall(t), k0)
<1>1. CASE t.undef
  <2>1. NextCall(t).undef
    BY <1>1, CallType DEF NextCall
  <2> QED
    BY <2>1 DEF Alike
<1>2. CASE ~s.ok
  BY <1>2, RefusedStays DEF Alike
<1>3. CASE SameText(s, t, k0) /\ s.done
  BY <1>3 DEF SameText, NextSearch, NextCall, Alike
<1>4. CASE SameText(s, t, k0) /\ ~s.done
  <2> PICK w, o, k, e, n, u, l :
         /\ w = s.w /\ o = s.out /\ k = t.kana /\ e = HitEntry(s) /\ l = Len(w)
         /\ n = Search(s, strict) /\ u = RkconvsCall(t)
    OBVIOUS
  <2>1. /\ s \in State /\ w # <<>> /\ w \in Seq(Narrow) /\ w \in Seq(Char) /\ o \in Seq(Code)
        /\ s = [w |-> w, p |-> NULL, wide |-> s.wide, out |-> o, ok |-> s.ok, done |-> FALSE]
    <3>1. w \in Seq(Narrow) /\ s.p = NULL
      BY <1>4 DEF SameText
    <3>2. w \in Seq(Char)
      BY <3>1, NarrowWord
    <3> QED
      BY <1>4, <3>1, <3>2 DEF Searching, State
  <2>2. /\ t.more /\ t.w = w /\ k = k0 \o Kanas(o) /\ k \in Seq(Nat) /\ t.undef \in BOOLEAN
        /\ t = [w |-> w, kana |-> k, more |-> TRUE, undef |-> t.undef]
    <3>1. t.more /\ t.w = w /\ k = k0 \o Kanas(o)
      BY <1>4 DEF SameText, Calling
    <3> QED
      BY <3>1 DEF Calling
  <2>3. NextSearch(s, strict) = n /\ NextCall(t) = u
    BY <1>4, <2>2 DEF NextSearch, NextCall
  <2>4. ~Wide(Head(w))
    BY <2>1, NarrowWord
  <2>5. Looks(s, t)
    <3>1. s.p = NULL
      BY <1>4 DEF SameText
    <3> QED
      BY <2>1, <2>2, <2>4, <3>1 DEF Looks
  <2>6. CallResults(s, t, u, w, e)
    BY <2>2, <2>5, CallIs
  <2>7. \/ Waits(s, n) \/ Matches(s, n) \/ Ends(s, n)
        \/ Refuses(s, n, strict) \/ Drops(s, n, strict)
    BY <2>1, SearchIs
  <2>8. Kanas(o) \in Seq(Nat) /\ l \in Nat \ {0}
    BY <2>1, KanasType
  <2>9. CASE Waits(s, n)
    <3>1. Paused(s)
      BY <2>9 DEF Waits, Paused
    <3>2. u = [w |-> w, kana |-> k, more |-> FALSE, undef |-> t.undef]
      BY <2>2, <2>6, <3>1 DEF CallResults
    <3> PICK q : q = <<First(s), Hit(s)>>
      OBVIOUS
    <3>3. n = [w |-> w, p |-> q, wide |-> s.wide, out |-> o, ok |-> s.ok, done |-> TRUE]
      BY <2>1, <2>9 DEF Waits
    <3>4. SameText(n, u, k0)
      BY <2>1, <2>2, <3>2, <3>3 DEF SameText
    <3> QED
      BY <2>3, <3>4 DEF Alike
  <2>10. CASE Matches(s, n)
    <3> PICK m, v, y, x : /\ m = Len(e.r_key) + 1 /\ v = Leftover(w, m, e.r_str)
                          /\ y = o \o MatchCodes(e, m) /\ x = k \o e.k_yomi
      OBVIOUS
    <3>1. Matched(s) /\ e \in Entry /\ m <= l
      BY <2>10 DEF Matches, Matched
    <3>2. /\ m \in Nat /\ e.r_str \in Seq(Letter) /\ Len(e.r_str) < m /\ e.k_yomi \in Seq(Nat)
      BY <3>1, EntryFields
    <3>3. v \in Seq(Narrow)
      BY <2>1, <3>1, <3>2, LeftoverNarrow
    <3> PICK d \in BOOLEAN : d <=> m < l
      OBVIOUS
    <3> PICK f \in BOOLEAN : f <=> m = l
      OBVIOUS
    <3>0. d = (m < l) /\ f = (m = l)
      OBVIOUS
    <3>4. f <=> ~d
      <4>1. m \in Nat /\ l \in Nat /\ m <= l
        BY <2>8, <3>1, <3>2
      <4>2. m = l <=> ~(m < l)
        BY ONLY <4>1
      <4> QED
        BY <4>2
    <3>5. u = [w |-> v, kana |-> x, more |-> d, undef |-> t.undef]
      <4>1. u = [t EXCEPT !.w = v, !.kana = x, !.more = d]
        BY <2>6, <3>0, <3>1 DEF CallResults
      <4> QED
        BY <2>2, <4>1
    <3>6. n = [w |-> v, p |-> NULL, wide |-> TRUE, out |-> y, ok |-> s.ok, done |-> f]
      <4>1. n = [s EXCEPT !.w = v, !.p = NULL, !.out = y, !.wide = TRUE, !.done = f]
        BY <2>10, <3>0 DEF Matches
      <4> QED
        BY <2>1, <4>1
    <3>7. x = k0 \o Kanas(y)
      <4> PICK a, b : a = Kanas(o) /\ b = MatchCodes(e, m)
        OBVIOUS
      <4>1. b \in Seq(Code) /\ Kanas(b) = e.k_yomi
        BY <3>1, <3>2, CodesType, KanasMatch
      <4>2. Kanas(y) = a \o e.k_yomi
        BY <2>1, <4>1, KanasJoined
      <4>3. (k0 \o a) \o e.k_yomi = k0 \o (a \o e.k_yomi)
        <5>1. a \in Seq(Nat) /\ e.k_yomi \in Seq(Nat)
          BY <2>8, <3>2
        <5> QED
          BY <5>1, NumbersJoined
      <4> QED
        BY <2>2, <4>2, <4>3
    <3>8. SameText(n, u, k0)
      BY <3>3, <3>4, <3>5, <3>6, <3>7 DEF SameText
    <3> QED
      BY <2>3, <3>8 DEF Alike
  <2>11. \A i \in 1..l : w[i] \in Nat
    <3>1. \A i \in 1..l : w[i] \in Char
      BY <2>1
    <3> QED
      BY <3>1, Letters1
  <2> PICK z, y : z = w[1] /\ y = Append(o, Kana(z, 1))
    OBVIOUS
  <2>12. z \in Nat /\ 1 \in Int
    BY <2>8, <2>11
  <2>13. Kanas(y) = Append(Kanas(o), z)
    BY <2>1, <2>12, KanasMore
  <2>14. Append(k, z) = k0 \o Kanas(y)
    <3> PICK a : a = Kanas(o)
      OBVIOUS
    <3>1. a \in Seq(Nat)
      BY <2>8
    <3>2. Append(k0 \o a, z) = k0 \o Append(a, z)
      BY <2>12, <3>1, NumberJoined
    <3> QED
      BY <2>2, <2>13, <3>2
  <2>15. CASE Ends(s, n)
    <3>1. Nothing(s) /\ l = 1
      BY <2>15 DEF Ends, Nothing
    <3>2. u = [t EXCEPT !.w = <<>>, !.kana = k \o w, !.more = FALSE]
      BY <2>6, <3>1 DEF CallResults
    <3>3. u = [w |-> <<>>, kana |-> k \o w, more |-> FALSE, undef |-> t.undef]
      BY <2>2, <3>2
    <3>4. k \o w = Append(k, z)
      <4>1. w = <<z>>
        <5>1. w \in Seq(Char) /\ Len(w) = 1 /\ z = w[1]
          BY <2>1, <3>1
        <5> QED
          BY ONLY <5>1
      <4> QED
        BY <2>2, <2>12, <4>1
    <3>5. n = [w |-> <<>>, p |-> NULL, wide |-> s.wide, out |-> y, ok |-> s.ok, done |-> TRUE]
      <4>1. n = [s EXCEPT !.w = <<>>, !.p = NULL, !.done = TRUE, !.out = y]
        BY <2>15 DEF Ends
      <4> QED
        BY <2>1, <4>1
    <3>6. SameText(n, u, k0)
      BY <2>14, <3>3, <3>4, <3>5 DEF SameText
    <3> QED
      BY <2>3, <3>6 DEF Alike
  <2>16. CASE Refuses(s, n, strict)
    <3>1. ~n.ok
      BY <2>1, <2>16 DEF Refuses
    <3> QED
      BY <2>3, <3>1 DEF Alike
  <2>17. CASE Drops(s, n, strict)
    <3> PICK v : v = Tail(w)
      OBVIOUS
    <3>1. Nothing(s) /\ l # 1
      BY <2>17 DEF Drops, Nothing
    <3>2. \/ u = [t EXCEPT !.undef = TRUE, !.more = FALSE]
          \/ u = [t EXCEPT !.w = Tail(@), !.kana = Append(@, z)]
      BY <2>6, <3>1 DEF CallResults
    <3>3. \/ u = [w |-> w, kana |-> k, more |-> FALSE, undef |-> TRUE]
          \/ u = [w |-> v, kana |-> Append(k, z), more |-> TRUE, undef |-> t.undef]
      BY <2>2, <3>2
    <3>4. n = [w |-> v, p |-> NULL, wide |-> FALSE, out |-> y, ok |-> s.ok, done |-> FALSE]
      <4>1. n = [s EXCEPT !.w = v, !.p = NULL, !.wide = FALSE, !.out = y]
        BY <2>17 DEF Drops
      <4>2. s.done = FALSE
        BY <2>1
      <4> QED
        BY <2>1, <4>1, <4>2 DEF State
    <3>5. v \in Seq(Narrow)
      BY <2>1
    <3>6. CASE u = [w |-> w, kana |-> k, more |-> FALSE, undef |-> TRUE]
      BY <2>3, <3>6 DEF Alike
    <3>7. CASE u = [w |-> v, kana |-> Append(k, z), more |-> TRUE, undef |-> t.undef]
      <4>1. SameText(n, u, k0)
        BY <2>14, <3>4, <3>5, <3>7 DEF SameText
      <4> QED
        BY <2>3, <4>1 DEF Alike
    <3> QED
      BY <3>3, <3>6, <3>7
  <2> QED
    BY <2>7, <2>9, <2>10, <2>15, <2>16, <2>17
<1> QED
  BY <1>1, <1>2, <1>3, <1>4 DEF Alike

\* One key converted by sj3_rkconv2 and handed to rkconvs.
LEMMA KeyAlike ==
    ASSUME rcode \in Table, NEW s \in Calling, NEW c \in Narrow, s.w \in Seq(Narrow),
           NEW strict \in BOOLEAN
    PROVE  Alike(sj3_rkconv2(Append(s.w, c), NULL, strict), RkconvsKey(s, c), s.kana)
<1> PICK w, k, m : w = Append(s.w, c) /\ k = s.kana /\ m = Len(s.w) + 2
  OBVIOUS
<1>1. k \in Seq(Nat) /\ s.w \in Seq(Char) /\ c \in Char /\ NULL \in Place
  BY NarrowIs DEF Calling, Place
<1>2. /\ m \in Nat /\ w \in Seq(Narrow) /\ w \in Seq(Char) /\ w # <<>> /\ Len(w) + 1 = m
  <2>1. w \in Seq(Char) /\ w # <<>> /\ Len(w) = Len(s.w) + 1 /\ Len(s.w) \in Nat
    BY <1>1, CharAppend
  <2>2. w \in Seq(Narrow)
    OBVIOUS
  <2> QED
    BY <2>1, <2>2
<1> PICK g : Searches(g, w, NULL, strict)
  BY <1>1, <1>2, ConverterDefined
<1> PICK h : Calls(h, s, c)
  BY <1>1, CallsDefined
<1>3. /\ g \in [0..m -> Searching] /\ g[0] = Begun(w, NULL) /\ sj3_rkconv2(w, NULL, strict) = g[m]
      /\ \A n \in 1..m : g[n] = NextSearch(g[n - 1], strict)
  BY <1>2 DEF Searches, NextSearch
<1>4. /\ h \in [0..m -> Calling] /\ h[0] = Handed(s, c) /\ RkconvsKey(s, c) = h[m]
      /\ \A n \in 1..m : h[n] = NextCall(h[n - 1])
  BY DEF Calls
<1> DEFINE T == {n \in Nat : n <= m => Alike(g[n], h[n], k)}
<1>5. 0 \in T
  <2>1. Handed(s, c).w = w /\ Handed(s, c).kana = k /\ Handed(s, c).more
    BY <1>1, HandedIs
  <2>2. Begun(w, NULL).w = w /\ Begun(w, NULL).out = <<>> /\ ~Begun(w, NULL).done /\ Begun(w, NULL).p = NULL
    BY DEF Begun
  <2>3. k \o Kanas(<<>>) = k
    <3>1. Kanas(<<>>) = <<>>
      BY DEF Kanas
    <3> QED
      BY <1>1, <3>1
  <2>4. SameText(Begun(w, NULL), Handed(s, c), k)
    BY <1>2, <2>1, <2>2, <2>3 DEF SameText
  <2> QED
    BY <1>3, <1>4, <2>4 DEF Alike
<1>6. ASSUME NEW n \in T PROVE n + 1 \in T
  <2> SUFFICES ASSUME n + 1 <= m PROVE Alike(g[n + 1], h[n + 1], k)
    OBVIOUS
  <2>0. n \in Nat /\ (n <= m => Alike(g[n], h[n], k))
    OBVIOUS
  <2> HIDE DEF T
  <2>1. n + 1 \in 1..m /\ (n + 1) - 1 = n /\ n <= m /\ n \in 0..m
    BY <1>2, <2>0
  <2>2. g[n] \in Searching /\ h[n] \in Calling /\ Alike(g[n], h[n], k)
    BY <1>3, <1>4, <2>0, <2>1
  <2>3. g[n + 1] = NextSearch(g[n], strict) /\ h[n + 1] = NextCall(h[n])
    BY <1>3, <1>4, <2>1
  <2> QED
    BY <1>1, <2>2, <2>3, AlikeStep
<1>7. T \subseteq Nat
  OBVIOUS
<1> HIDE DEF T
<1>8. T = Nat
  BY <1>5, <1>6, <1>7, SetInduction
<1>9. Alike(g[m], h[m], k)
  BY <1>2, <1>8 DEF T
<1> QED
  BY <1>3, <1>4, <1>9

\* What a string converts to depends on the table alone.
LEMMA SameTable ==
    ASSUME rcode' = rcode
    PROVE  /\ \A t : RkconvsCall(t)' = RkconvsCall(t)
           /\ \A s, c : RkconvsKey(s, c)' = RkconvsKey(s, c)
           /\ \A x : rkconvs(x)' = rkconvs(x)
<1>1. \A w : sj3_rkconv_w16(w)' = sj3_rkconv_w16(w)
  BY DEF sj3_rkconv_w16
<1>2. ASSUME NEW t PROVE RkconvsCall(t)' = RkconvsCall(t)
  BY <1>1 DEF RkconvsCall
<1>3. ASSUME NEW s, NEW c PROVE RkconvsKey(s, c)' = RkconvsKey(s, c)
  <2> DEFINE Def(g) == g = [n \in 0..(Len(s.w) + 2) |->
                            IF n = 0 THEN [s EXCEPT !.w = Append(@, c), !.more = TRUE]
                            ELSE LET t == g[n - 1] IN IF t.more THEN RkconvsCall(t) ELSE t]
             Def2(g) == g = [n \in 0..(Len(s.w) + 2) |->
                            IF n = 0 THEN [s EXCEPT !.w = Append(@, c), !.more = TRUE]
                            ELSE LET t == g[n - 1] IN IF t.more THEN RkconvsCall(t)' ELSE t]
  <2>1. \A g : Def(g) <=> Def2(g)
    BY <1>2
  <2>2. RkconvsKey(s, c) = (CHOOSE g : Def(g))[Len(s.w) + 2]
    BY DEF RkconvsKey
  <2>3. RkconvsKey(s, c)' = (CHOOSE g : Def2(g))[Len(s.w) + 2]
    BY DEF RkconvsKey
  <2> HIDE DEF Def, Def2
  <2>4. (CHOOSE g : Def(g)) = (CHOOSE g : Def2(g))
    BY <2>1
  <2> QED
    BY <2>2, <2>3, <2>4
<1>4. ASSUME NEW x PROVE rkconvs(x)' = rkconvs(x)
  <2> DEFINE Def(g) == g = [n \in 0..Len(x) |->
                            IF n = 0 THEN [w |-> <<>>, kana |-> <<>>, more |-> FALSE, undef |-> FALSE]
                            ELSE RkconvsKey(g[n - 1], x[n])]
             Def2(g) == g = [n \in 0..Len(x) |->
                            IF n = 0 THEN [w |-> <<>>, kana |-> <<>>, more |-> FALSE, undef |-> FALSE]
                            ELSE RkconvsKey(g[n - 1], x[n])']
  <2>1. \A g : Def(g) <=> Def2(g)
    BY <1>3
  <2>2. rkconvs(x) = (CHOOSE g : Def(g))[Len(x)]
    BY DEF rkconvs
  <2>3. rkconvs(x)' = (CHOOSE g : Def2(g))[Len(x)]
    BY DEF rkconvs
  <2> HIDE DEF Def, Def2
  <2>4. (CHOOSE g : Def(g)) = (CHOOSE g : Def2(g))
    BY <2>1
  <2> QED
    BY <2>2, <2>3, <2>4
<1> QED
  BY <1>2, <1>3, <1>4

----------------------------------------------------------------------------
(* The keys typed so far *)

\* While no key was erased, the pending romaji and the kana shown are those
\* the string of the keys converts to.
Matching(base) ==
    /\ base \in Seq(Code) /\ screen = base \o Pending(rline)
    /\ rkconvs(typed).kana = Kanas(base)
Converted ==
    \/ rkconvs(typed).undef
    \/ /\ rline \in Seq(Narrow) /\ rline = rkconvs(typed).w
       /\ \E base : Matching(base)
Agreed == ~erased => ~stale /\ (typed \in Seq(Narrow) => Converted)

LEMMA NoneTyped == rcode \in Table => rkconvs(<<>>) = NoneGiven
<1> SUFFICES ASSUME rcode \in Table PROVE rkconvs(<<>>) = NoneGiven
  OBVIOUS
<1>1. <<>> \in Seq(Char) /\ Len(<<>>) = 0
  OBVIOUS
<1> PICK g : Gives(g, <<>>)
  BY <1>1, GivesDefined
<1> QED
  BY <1>1 DEF Gives

LEMMA NothingAgreed ==
    ASSUME rcode \in Table, rline = <<>>, screen = <<>>, typed = <<>>, ~stale
    PROVE  Agreed
<1>1. rkconvs(<<>>).kana = <<>> /\ rkconvs(<<>>).w = <<>>
  BY NoneTyped DEF NoneGiven
<1>2. <<>> \in Seq(Code) /\ <<>> \in Seq(Narrow) /\ Kanas(<<>>) = <<>>
  BY DEF Kanas
<1>3. Matching(<<>>)
  BY <1>1, <1>2, NothingPending DEF Matching
<1> QED
  BY <1>1, <1>2, <1>3 DEF Agreed, Converted

LEMMA KeyAgreed ==
    ASSUME TypeOK, Hinted, Agreed, NEW c \in Char, sj3_rkconvc(c)
    PROVE  Agreed'
<1> SUFFICES ASSUME ~erased' PROVE ~stale' /\ (typed' \in Seq(Narrow) => Converted')
  BY DEF Agreed
<1>1. ~erased /\ ~stale /\ rcode' = rcode /\ rcode \in Table /\ typed \in Seq(Char) /\ rline \in Seq(Char)
  BY DEF sj3_rkconvc, Agreed, TypeOK
<1> PICK w, r, s, k :
       /\ w = Append(rline, c) /\ r = sj3_rkconv2(w, rktblp, rk_errin)
       /\ s = rkconvs(typed) /\ k = RkconvsKey(s, c)
  OBVIOUS
<1>2. ~stale'
  BY <1>1 DEF sj3_rkconvc
<1>3. CASE ~r.ok
  <2>1. UNCHANGED <<rline, screen, typed, stale>>
    BY <1>3 DEF sj3_rkconvc, rkvars
  <2>2. rkconvs(typed)' = rkconvs(typed)
    <3> PICK x : x = typed
      OBVIOUS
    <3>1. rkconvs(x)' = rkconvs(x) /\ x = typed'
      BY <1>1, <2>1, SameTable
    <3> QED
      BY <3>1
  <2> QED
    BY <1>1, <1>2, <2>1, <2>2 DEF Agreed, Converted, Matching
<1>4. CASE r.ok
  <2>1. typed' = Append(typed, c)
    BY <1>1, <1>4 DEF sj3_rkconvc
  <2> SUFFICES ASSUME typed' \in Seq(Narrow) PROVE Converted'
    BY <1>2
  <2>2. typed \in Seq(Narrow) /\ c \in Narrow
    <3> PICK v, n : v = Append(typed, c) /\ n = Len(typed)
      OBVIOUS
    <3>1. n \in Nat /\ Len(v) = n + 1 /\ v[n + 1] = c /\ \A i \in 1..n : v[i] = typed[i]
      BY <1>1
    <3>2. \A i \in 1..(n + 1) : v[i] \in Narrow
      BY <2>1, <3>1
    <3>3. \A i \in 1..n : typed[i] \in Narrow
      BY <3>1, <3>2
    <3>4. typed \in [1..n -> Narrow] /\ n + 1 \in 1..(n + 1)
      BY <1>1, <3>1, <3>3
    <3>5. typed \in Seq(Narrow)
      <4>1. Len(typed) \in Nat /\ typed \in [1..Len(typed) -> Narrow]
        BY <3>1, <3>4
      <4> QED
        BY ONLY <4>1
    <3> QED
      BY <3>1, <3>2, <3>4, <3>5
  <2>3. s \in Calling /\ rkconvs(Append(typed, c)) = k
    BY <1>1, GivenMore
  <2>4. rkconvs(typed)' = k
    <3> PICK x : x = Append(typed, c)
      OBVIOUS
    <3>1. rkconvs(x)' = rkconvs(x) /\ x = typed'
      BY <1>1, <2>1, SameTable
    <3> QED
      BY <2>3, <3>1
  <2>5. CASE k.undef
    BY <2>4, <2>5 DEF Converted
  <2>6. CASE ~k.undef
    <3>1. ~s.undef
      BY <1>1, <2>3, <2>6, KeyType
    <3>2. Converted
      BY <1>1, <2>2 DEF Agreed
    <3> PICK base : Matching(base)
      BY <3>1, <3>2 DEF Converted
    <3>3. rline \in Seq(Narrow) /\ rline = s.w /\ s.kana = Kanas(base)
      BY <3>1, <3>2 DEF Converted, Matching
    <3>4. base \in Seq(Code) /\ screen = base \o Pending(rline)
      BY DEF Matching
    <3>5. w \in Seq(Char) /\ w # <<>> /\ rktblp \in Place /\ rk_errin \in BOOLEAN
      BY <1>1, CharAppend DEF TypeOK
    <3>6. r = sj3_rkconv2(w, NULL, rk_errin)
      <4>1. Cached(rline, rktblp)
        BY <1>1 DEF Hinted
      <4>2. Cached(w, rktblp)
        BY <1>1, <3>5, <4>1, CachedGrows
      <4> QED
        BY <1>1, <3>5, <4>2, SameConversion
    <3>7. SameText(r, k, s.kana)
      <4>1. Alike(sj3_rkconv2(Append(s.w, c), NULL, rk_errin), RkconvsKey(s, c), s.kana)
        BY <1>1, <2>2, <2>3, <3>3, <3>5, KeyAlike
      <4>2. Alike(r, k, s.kana)
        BY <3>3, <3>6, <4>1
      <4> QED
        BY <1>4, <2>6, <4>2 DEF Alike
    <3>8. r.w = k.w /\ r.w \in Seq(Narrow) /\ k.kana = Kanas(base) \o Kanas(r.out)
      BY <3>3, <3>7 DEF SameText
    <3>9. r \in Searching
      BY <1>1, <3>5, ConverterType
    <3>10. r.out \in Seq(Code) /\ r.w \in Seq(Char)
      BY <3>9 DEF Searching, State
    <3>11. CASE r.out = <<>>
      <4>1. rline' = w /\ screen' = Show(screen, Romaji(c))
        BY <1>4, <3>11 DEF sj3_rkconvc
      <4>2. r.w = w
        <5>1. Keeps(r, w, rktblp)
          BY <1>1, <3>5, ConverterKeeps
        <5> QED
          BY <3>11, <5>1 DEF Keeps
      <4>3. screen' = base \o Pending(w)
        BY <1>1, <3>4, <4>1, PendingGrows
      <4>4. k.kana = Kanas(base)
        <5>1. Kanas(<<>>) = <<>> /\ Kanas(base) \in Seq(Nat)
          BY <3>4, KanasType DEF Kanas
        <5> QED
          BY <3>8, <3>11, <5>1
      <4>5. Matching(base)'
        BY <2>4, <3>4, <4>1, <4>3, <4>4 DEF Matching
      <4> QED
        BY <2>4, <3>8, <4>1, <4>2, <4>5 DEF Converted
    <3>12. CASE r.out # <<>>
      <4> PICK o, v, b : o = r.out /\ v = r.w /\ b = base \o o
        OBVIOUS
      <4>1. /\ rline' = v
            /\ screen' = ShowAll(screen, Times("back_romaji", Len(rline)) \o o \o Pending(v))
        BY <1>4, <3>12 DEF sj3_rkconvc
      <4>2. screen' = b \o Pending(v)
        <5>1. o \in Seq(Code) /\ v \in Seq(Char) /\ 0 \in 0..Len(base)
          BY <3>4, <3>10
        <5>2. ShowAll(base \o Pending(rline), Times("back_romaji", Len(rline)) \o o \o Pending(v))
                 = (base \o o) \o Pending(v)
          BY ONLY <1>1, <3>4, <5>1, Rebuilt
        <5> QED
          BY <3>4, <4>1, <5>2
      <4>3. b \in Seq(Code)
        BY <3>4, <3>10
      <4>4. k.kana = Kanas(b)
        BY <3>4, <3>8, <3>10, KanasJoined
      <4>5. Matching(b)'
        BY <2>4, <4>1, <4>2, <4>3, <4>4 DEF Matching
      <4> QED
        BY <2>4, <3>8, <4>1, <4>5 DEF Converted
    <3> QED
      BY <3>11, <3>12
  <2> QED
    BY <2>5, <2>6
<1> QED
  BY <1>3, <1>4

LEMMA NextAgreed ==
    ASSUME TypeOK, Hinted, Agreed, [Next]_vars
    PROVE  Agreed'
<1>0. Letters \subseteq Char /\ (rcode \in Table)'
  <2>1. TypeOK'
    BY NextType
  <2> QED
    BY <2>1, RkcvAssumption DEF TypeOK
<1>1. ASSUME Clear PROVE Agreed'
  <2>1. (rline = <<>> /\ screen = <<>> /\ typed = <<>> /\ ~stale)'
    BY <1>1 DEF Clear
  <2>2. Agreed'
    <3>1. (rcode \in Table /\ rline = <<>> /\ screen = <<>> /\ typed = <<>> /\ ~stale => Agreed)'
      BY NothingAgreed, PTL
    <3> QED
      BY <1>0, <2>1, <3>1
  <2> QED
    BY <2>2
<1>2. ASSUME UNCHANGED <<rcode, rline, screen, typed, erased, stale>> PROVE Agreed'
  <2>1. rkconvs(typed)' = rkconvs(typed)
    <3> PICK x : x = typed
      OBVIOUS
    <3>1. rkconvs(x)' = rkconvs(x) /\ x = typed'
      BY <1>2, SameTable
    <3> QED
      BY <3>1
  <2> QED
    BY <1>2, <2>1 DEF Agreed, Converted, Matching
<1>3. ASSUME NEW f \in Files, sj3_rkinit(f) PROVE Agreed'
  BY <1>1, <1>3 DEF sj3_rkinit
<1>4. ASSUME sj3_rkclear PROVE Agreed'
  BY <1>1, <1>4 DEF sj3_rkclear
<1>5. ASSUME sj3_rkreset PROVE Agreed'
  BY <1>2, <1>5 DEF sj3_rkreset
<1>6. ASSUME NEW err \in BOOLEAN, sj3_rkebell(err) PROVE Agreed'
  BY <1>2, <1>6 DEF sj3_rkebell, rkvars, ghosts
<1>7. ASSUME EraseConversion PROVE Agreed'
  BY <1>7 DEF EraseConversion, Agreed
<1>8. ASSUME EraseKey PROVE Agreed'
  BY <1>8 DEF EraseKey, Agreed
<1>9. ASSUME NEW c \in Letters, sj3_rkconvc(c) PROVE Agreed'
  BY <1>0, <1>9, KeyAgreed
<1>10. ASSUME UNCHANGED vars PROVE Agreed'
  BY <1>2, <1>10 DEF vars, rkvars, ghosts
<1> QED
  BY <1>3, <1>4, <1>5, <1>6, <1>7, <1>8, <1>9, <1>10 DEF Next

LEMMA AgreedFollows ==
    ASSUME TypeOK, Agreed
    PROVE  KeysAgreeWithString
<1> PICK r, n : r = rkconvs(typed) /\ n = Len(screen) - Len(r.w)
  OBVIOUS
<1> SUFFICES ASSUME ~erased, \A i \in 1..Len(typed) : ~Wide(typed[i])
             PROVE  \/ r.undef
                    \/ /\ rline = r.w /\ Len(r.kana) = n
                       /\ \A i \in 1..n : screen[i].c = r.kana[i]
  BY DEF KeysAgreeWithString
<1>1. typed \in Seq(Narrow)
  <2>1. typed \in Seq(Char) /\ Len(typed) \in Nat
    BY DEF TypeOK
  <2>2. \A i \in 1..Len(typed) : typed[i] \in Char
    BY <2>1
  <2>3. \A i \in 1..Len(typed) : typed[i] \in Narrow
    BY <2>2, NarrowIs
  <2>4. typed \in [1..Len(typed) -> Narrow]
    BY <2>1, <2>3
  <2> QED
    BY <2>1, <2>4
<1>2. Converted
  BY <1>1 DEF Agreed
<1>3. CASE ~r.undef
  <2> PICK base : Matching(base)
    BY <1>2, <1>3 DEF Converted
  <2> PICK p, l : p = Pending(rline) /\ l = Len(base)
    OBVIOUS
  <2>1. rline = r.w /\ rline \in Seq(Char) /\ base \in Seq(Code) /\ screen = base \o p /\ r.kana = Kanas(base)
    BY <1>2, <1>3 DEF Converted, Matching, TypeOK
  <2>2. p \in Seq(Mark) /\ Len(p) = Len(rline) /\ l \in Nat /\ Len(rline) \in Nat
    BY <2>1, PendingType
  <2>3. Len(screen) = l + Len(p) /\ \A i \in 1..l : screen[i] = base[i]
    <3>1. base \in Seq(Cell) /\ p \in Seq(Cell)
      <4>1. Code \subseteq Cell /\ Mark \subseteq Cell
        BY DEF Cell
      <4> HIDE DEF Cell
      <4> QED
        BY <2>1, <2>2, <4>1
    <3>2. /\ Len(base \o p) = Len(base) + Len(p)
          /\ \A i \in 1..Len(base) : (base \o p)[i] = base[i]
      BY ONLY <3>1
    <3> QED
      BY <2>1, <3>2
  <2>4. n = l
    BY <2>1, <2>2, <2>3
  <2>5. Len(r.kana) = l /\ \A i \in 1..l : r.kana[i] = base[i].c
    BY <2>1, KanasType
  <2> QED
    BY <2>1, <2>3, <2>4, <2>5
<1> QED
  BY <1>3

\* Typing a word without the erase key and converting it with sj3_rkconv give
\* the same kana and leave the same romaji, as long as sj3_rkconv does not
\* return a variable it never set, and whatever the rule file.
THEOREM KeysAndStringAgree == Spec => []KeysAgreeWithString
<1>1. Init => TypeOK /\ Hinted /\ Agreed
  <2> SUFFICES ASSUME Init PROVE TypeOK /\ Hinted /\ Agreed
    OBVIOUS
  <2>1. TypeOK /\ Hinted
    BY InitType, NoPlace DEF Init, Hinted
  <2> QED
    BY <2>1, NothingAgreed DEF Init, TypeOK
<1>2. TypeOK /\ Hinted /\ Agreed /\ [Next]_vars => TypeOK' /\ Hinted' /\ Agreed'
  BY NextType, NextHinted, NextAgreed
<1>3. TypeOK /\ Agreed => KeysAgreeWithString
  BY AgreedFollows
<1> QED
  BY <1>1, <1>2, <1>3, PTL DEF Spec

=============================================================================
