---------------------------- MODULE HenkanProofs -----------------------------
(***************************************************************************)
(* Proofs about Henkan for any texts, buffers and words: the lists of an   *)
(* analysis are allocated while they are used and freed once, every step   *)
(* of a conversion leads on, what it puts out covers the reading, and the  *)
(* cursor over the candidates is exact.                                    *)
(***************************************************************************)
EXTENDS Henkan, KouhoProofs

----------------------------------------------------------------------------
(* The inductive invariant: who points to which list *)

\* Where ph2knj is at work on a clause.
Round == {"mk2claus", "try", "selclrec", "cvtphknj"}
Pointer == {0} \cup Batches

TypeOK ==
    /\ pc \in {"idle", "start", "conv", "job", "corrupt"} \cup Round
    /\ pos \in Nat /\ room \in Nat /\ live \subseteq Batches
    /\ first \in Pointer /\ second \in Pointer /\ max \in Pointer
    /\ DOMAIN batch = Batches
    /\ pc \in Round \cup {"start"} => text \in Texts

\* These pointers own all lists there are.
Owned(S) == live = S \ {0}

\* b points to the analysis of what is behind the first p characters.
ListAt(b, p) ==
    /\ b \in live
    /\ batch[b].start = p
    /\ p < Len(text)
    /\ Sound(batch[b].an, Len(text) - p)

\* Between two clauses the next list is there, or there is none.  When the text
\* is done it is maxclptr's, which the next request frees.
Between ==
    /\ Owned({first})
    /\ first # 0 => ListAt(first, pos)
    /\ pos < Len(text) \/ first = max

\* mk2claus' loop has up to two lists besides the clauses it goes through.
Trying ==
    /\ Owned({first, second, max}) /\ first # second /\ first # max
    /\ Cl[1].cllen < Len(text) - pos
    /\ selcl \in DOMAIN Cl
    /\ try.k \in Nat \ {0} /\ try.len \in Nat
    /\ max = 0 => try.len = 0
    /\ max # 0 => ListAt(max, pos + try.len)
    /\ second # 0 => ListAt(second, pos + Cl[selcl].cllen)

\* A clause is selected, and the list behind it, if there is one, is the next.
\* Otherwise no list is left, or maxclptr points to one that was freed and
\* there is more of the text, where it will be reset.
Selected ==
    /\ Owned({first, second}) /\ first # second
    /\ selcl \in DOMAIN Cl
    /\ second # 0 => ListAt(second, pos + Cl[selcl].cllen)
    /\ IF pc = "selclrec" THEN max \in {0, second}
       ELSE second = 0 => max = 0 \/ pos + Cl[selcl].cllen < Len(text)

\* Between requests one list is left; after a phrase that did not fit, none.
Resting == Owned({max}) \/ (full /\ live = {})

Inv ==
    /\ TypeOK
    /\ pc = "start" => Between
    /\ pc \in Round => first # 0 /\ ListAt(first, pos)
    /\ pc = "mk2claus" => Owned({first})
    /\ pc = "try" => Trying
    /\ pc \in {"selclrec", "cvtphknj"} => Selected
    /\ pc \in {"idle", "conv", "job"} => Resting
    /\ pc = "corrupt" => full

----------------------------------------------------------------------------
(* Lists and their numbers *)

\* Of four numbers at most three are taken.
LEMMA FreshBatch ==
    ASSUME NEW a, NEW b, NEW c, NEW L, L \subseteq {a, b, c}
    PROVE  Fresh(L) \in Batches \ L
<1>1. Batches \subseteq Nat
  BY DEF Batches
<1>2. 1 \in Batches /\ 2 \in Batches /\ 3 \in Batches /\ 4 \in Batches
  BY DEF Batches
<1>3. ~({1, 2, 3, 4} \subseteq {a, b, c})
  <2> SUFFICES ASSUME 1 \in {a, b, c}, 2 \in {a, b, c}, 3 \in {a, b, c}, 4 \in {a, b, c}
               PROVE  FALSE
    OBVIOUS
  <2> QED
    OBVIOUS
<1>4. Batches \ L # {}
  BY <1>2, <1>3
<1>5. \E x \in Batches \ L : \A y \in Batches \ L : x <= y
  <2> DEFINE T == Batches \ L
  <2>1. T \subseteq Nat /\ T # {}
    BY <1>1, <1>4
  <2> HIDE DEF T
  <2>2. \E x \in T : \A y \in T : x <= y
    BY <2>1, LeastNatural
  <2> QED
    BY <2>2 DEF T
<1> QED
  BY <1>5 DEF Fresh

\* What is left of a text from a place before its end is a piece of it, and so
\* is the front of that.
LEMMA Pieces ==
    ASSUME text \in Texts, NEW p \in Nat, p < Len(text)
    PROVE  /\ Rest(p) \in Piece /\ Len(Rest(p)) = Len(text) - p
           /\ \A n \in 1 .. Len(text) - p :
                 /\ SubSeq(Rest(p), 1, n) \in Piece
                 /\ Len(SubSeq(Rest(p), 1, n)) = n
<1>1. text \in Seq(Nat) /\ Len(text) \in Nat
  BY RequestAssumption
<1>2. Rest(p) \in Seq(Nat) /\ Len(Rest(p)) = Len(text) - p /\ Rest(p) # <<>>
  <2>1. p + 1 \in Int /\ Len(text) \in Int /\ \A i \in p + 1 .. Len(text) : text[i] \in Nat
    BY <1>1
  <2>2. Rest(p) \in Seq(Nat) /\ Len(Rest(p)) = Len(text) - p
    BY <1>1, <2>1, SubSeqProperties DEF Rest
  <2>3. Len(Rest(p)) # Len(<<>>)
    BY <1>1, <2>2
  <2> QED
    BY <2>2, <2>3
<1>3. \A i \in 1 .. Len(text), j \in 1 .. Len(text) :
         SubSeq(text, i, j) # <<>> => SubSeq(text, i, j) \in Piece
  <2> SUFFICES ASSUME NEW i \in 1 .. Len(text), NEW j \in 1 .. Len(text),
                      SubSeq(text, i, j) # <<>>
               PROVE  SubSeq(text, i, j) \in Piece
    OBVIOUS
  <2>1. SubSeq(text, i, j) \in PiecesOf(text)
    BY DEF PiecesOf
  <2> QED
    BY <2>1 DEF Piece
<1>4. Rest(p) \in Piece
  <2>1. p + 1 \in 1 .. Len(text) /\ Len(text) \in 1 .. Len(text)
    BY <1>1
  <2> QED
    BY <2>1, <1>2, <1>3 DEF Rest
<1>5. ASSUME NEW n \in 1 .. Len(text) - p
      PROVE  SubSeq(Rest(p), 1, n) \in Piece /\ Len(SubSeq(Rest(p), 1, n)) = n
  <2> DEFINE s == SubSeq(Rest(p), 1, n)
             t == SubSeq(text, p + 1, p + n)
  <2>1. s \in Seq(Nat) /\ Len(s) = n /\ s # <<>>
    <3>1. 1 \in Int /\ n \in Int /\ \A i \in 1 .. n : Rest(p)[i] \in Nat
      BY <1>1, <1>2
    <3>2. s \in Seq(Nat) /\ Len(s) = n
      BY <3>1, SubSeqProperties
    <3>3. Len(s) # Len(<<>>)
      BY <3>2
    <3> QED
      BY <3>2, <3>3
  <2>2. t \in Seq(Nat) /\ Len(t) = n
    BY <1>1
  <2>3. \A i \in 1 .. n : s[i] = t[i]
    <3>1. \A i \in 1 .. n : s[i] = Rest(p)[i]
      BY <1>1, <1>2
    <3>2. \A i \in 1 .. Len(text) - p : Rest(p)[i] = text[p + i]
      BY <1>1 DEF Rest
    <3>3. \A i \in 1 .. n : t[i] = text[p + i]
      BY <1>1
    <3> QED
      BY <1>1, <3>1, <3>2, <3>3
  <2>4. s = t
    BY <2>1, <2>2, <2>3
  <2>5. p + 1 \in 1 .. Len(text) /\ p + n \in 1 .. Len(text)
    BY <1>1
  <2> QED
    BY <2>1, <2>4, <2>5, <1>3
<1> QED
  BY <1>2, <1>4, <1>5

\* A piece of a text is a text that is not empty.
LEMMA PieceTexts ==
    ASSUME NEW t \in Piece
    PROVE  t \in Seq(Nat) /\ t # <<>>
<1>1. PICK x \in Texts : t \in PiecesOf(x)
  BY DEF Piece
<1>i. PICK i \in 1..Len(x), j \in 1..Len(x) : t = SubSeq(x, i, j) /\ t # <<>>
  BY <1>1 DEF PiecesOf
<1>2. x \in Seq(Nat)
  BY RequestAssumption
<1>3. i \in Int /\ j \in Int /\ \A k \in i..j : x[k] \in Nat
  <2> PICK n \in Nat : n = Len(x) /\ DOMAIN x = 1..n
    BY <1>2, LenProperties
  <2>1. ASSUME NEW k \in i..j PROVE x[k] \in Nat
    <3>1. k \in 1..n
      OBVIOUS
    <3> QED
      BY ONLY <1>2, <3>1, DOMAIN x = 1..n, ElementOf
  <2> QED
    BY <2>1
<1>4. SubSeq(x, i, j) \in Seq(Nat)
  BY ONLY <1>2, <1>3, SubSeqProperties
<1> QED
  BY <1>i, <1>4

\* What the analysis of a piece leads to is sound: it has a clause, the first is
\* the longest, and a learned one has a clause behind the boundary it tells.
LEMMA SoundFound ==
    ASSUME NEW an, NEW n \in Nat, NEW learned \in BOOLEAN, Found(an, n, learned)
    PROVE  Sound(an, n)
<1>1. /\ Len(an.cl) \in Nat \ {0} /\ DOMAIN an.cl = 1..Len(an.cl)
      /\ \A c \in DOMAIN an.cl :
            /\ an.cl[c].cllen \in 1..n /\ an.cl[c].cllen <= MAXCLINPUTLEN
            /\ Jnode(an, c).class = "bunsetu" =>
                  Block[Jnode(an, c).n].y1len \in 1..(an.cl[c].cllen - 1)
            /\ \A d \in DOMAIN an.cl : c <= d => an.cl[d].cllen <= an.cl[c].cllen
  BY FoundClauses
<1>2. an.cl # <<>> /\ 1 \in DOMAIN an.cl
  BY DEF Found
<1>3. \A c \in DOMAIN an.cl : an.cl[c].cllen <= an.cl[1].cllen
  BY <1>1, <1>2
<1> QED
  BY <1>1, <1>2, <1>3 DEF Sound

\* The analyses a conversion asks for are sound (mkjiritu.c, mkbunset.c,
\* wakachi.c).
LEMMA AnalysesAreSound == AnalysesSound
<1> SUFFICES ASSUME NEW t \in Piece
             PROVE  Sound(PhAnalysis[t], Len(t)) /\ Sound(CutAnalysis[t], Len(t))
  BY DEF AnalysesSound
<1>1. t \in Seq(Nat) /\ t # <<>> /\ Len(t) \in Nat
  BY PieceTexts, LenProperties
<1> PICK ph, ct : ph = {"ikkatu", "clstudy"} /\ ct = {"ikkatu"}
  OBVIOUS
<1>2. TRUE = ("clstudy" \in ph) /\ FALSE = ("clstudy" \in ct)
  OBVIOUS
<1>3. Found(Analyse(t, ph), Len(t), TRUE) /\ Found(Analyse(t, ct), Len(t), FALSE)
  BY <1>1, <1>2, AnalysisFound
<1>4. PhAnalysis[t] = Analyse(t, ph) /\ CutAnalysis[t] = Analyse(t, ct)
  BY DEF PhAnalysis, CutAnalysis
<1> QED
  BY <1>1, <1>3, <1>4, SoundFound

\* The analyses of pieces.
LEMMA SoundAnalyses ==
    ASSUME text \in Texts, NEW p \in Nat, p < Len(text)
    PROVE  /\ Sound(PhAnalysis[Rest(p)], Len(text) - p)
           /\ \A n \in 1 .. Len(text) - p :
                 Sound(CutAnalysis[SubSeq(Rest(p), 1, n)], n)
<1>1. \A t \in Piece : Sound(PhAnalysis[t], Len(t)) /\ Sound(CutAnalysis[t], Len(t))
  BY AnalysesAreSound DEF AnalysesSound
<1> QED
  BY <1>1, Pieces

\* Sound lists of a part are sound for the whole.
LEMMA SoundLonger ==
    ASSUME NEW an, NEW m \in Nat, NEW n \in Nat, m <= n, Sound(an, m)
    PROVE  Sound(an, n)
BY DEF Sound

\* The list a new one is put beside keeps its record.
LEMMA Records ==
    ASSUME DOMAIN batch = Batches, NEW b \in Batches, NEW L, NEW s, NEW an
    PROVE  /\ DOMAIN Only(L, batch) = Batches /\ DOMAIN Only(L, Made(b, s, an)) = Batches
           /\ \A c \in Batches \cap L :
                 /\ Only(L, batch)[c] = batch[c]
                 /\ c # b => Only(L, Made(b, s, an))[c] = batch[c]
           /\ b \in L => Only(L, Made(b, s, an))[b] = [start |-> s, an |-> an]
           /\ DOMAIN Made(b, s, an) = Batches
           /\ Made(b, s, an)[b] = [start |-> s, an |-> an]
           /\ \A c \in Batches \ {b} : Made(b, s, an)[c] = batch[c]
BY DEF Only, Made

\* Steps that leave the lists and the text as they are, in a request that has
\* nothing under way.
LEMMA RestingStays ==
    ASSUME Inv, pc \in {"idle", "conv", "job"}, pc' \in {"idle", "conv", "job"},
           UNCHANGED poolVars, pos' \in Nat, room' \in Nat
    PROVE  Inv'
BY DEF Inv, TypeOK, Round, Resting, Owned, poolVars, Pointer

LEMMA InitInv == Init => Inv
BY DEF Init, Inv, TypeOK, Round, Pointer, Batches, Resting, Owned

----------------------------------------------------------------------------
(* ph2knj *)

LEMMA CorruptInv ==
    ASSUME Inv, pc \in {"idle", "conv"}, Dangling(max), Corrupt
    PROVE  Inv'
<1>1. full
  BY DEF Inv, Resting, Owned, Dangling
<1> QED
  BY <1>1 DEF Inv, TypeOK, Corrupt, poolVars, Round, Pointer

LEMMA ph2knjInv ==
    ASSUME Inv, NEW t \in Texts, NEW r \in Rooms, ph2knj(t, r)
    PROVE  Inv'
<1>1. CASE Dangling(max)
  BY <1>1, CorruptInv DEF ph2knj
<1>2. CASE ~Dangling(max)
  <2>1. live' = {} /\ first' = 0 /\ max' = 0 /\ pos' = 0 /\ room' = r /\ text' = t
        /\ second' = second /\ DOMAIN batch' = Batches
    BY <1>2 DEF ph2knj, Inv, TypeOK, Resting, Owned, Freed, Dangling, Only
  <2>2. pc' = (IF t = <<>> THEN "conv" ELSE "start")
    BY <1>2 DEF ph2knj
  <2>3. t \in Seq(Nat) /\ r \in Nat
    BY RequestAssumption
  <2>4. TypeOK'
    BY <2>1, <2>2, <2>3 DEF Inv, TypeOK, Round, Pointer, Batches
  <2>5. t # <<>> => 0 < Len(t)
    BY <2>3
  <2>6. pc' = "start" => Between'
    BY <2>1, <2>2, <2>5 DEF Between, Owned
  <2>7. pc' = "conv" => Resting'
    BY <2>1 DEF Resting, Owned
  <2> QED
    BY <2>2, <2>4, <2>6, <2>7 DEF Inv, Round
<1> QED
  BY <1>1, <1>2

LEMMA mkbunsetuInv ==
    ASSUME Inv, ph_mkbunsetu
    PROVE  Inv'
<1>1. /\ pc = "start" /\ pos < Len(text) /\ pc' = "mk2claus" /\ text \in Texts /\ Between
      /\ UNCHANGED <<text, pos, room, second, max, full>>
  BY DEF ph_mkbunsetu, Inv, TypeOK
<1>2. TypeOK
  BY DEF Inv
<1>3. CASE first = 0
  <2>1. live = {}
    BY <1>1, <1>3 DEF Between, Owned
  <2> DEFINE b == Fresh(live)
  <2>2. b \in Batches
    BY <2>1, FreshBatch
  <2>3. /\ first' = b /\ live' = {b}
        /\ batch' = Made(b, pos, PhAnalysis[Rest(pos)])
    BY <1>3, <2>1 DEF ph_mkbunsetu
  <2> HIDE DEF b
  <2>4. batch'[b] = [start |-> pos, an |-> PhAnalysis[Rest(pos)]] /\ DOMAIN batch' = Batches
    BY <1>2, <2>2, <2>3, Records DEF TypeOK
  <2>5. Sound(PhAnalysis[Rest(pos)], Len(text) - pos)
    BY <1>1, <1>2, SoundAnalyses DEF TypeOK
  <2>6. ListAt(first, pos)'
    BY <1>1, <2>3, <2>4, <2>5 DEF ListAt
  <2>7. TypeOK' /\ first' # 0 /\ Owned({first})'
    BY <1>1, <1>2, <2>2, <2>3, <2>4 DEF TypeOK, Round, Pointer, Owned, Batches
  <2> QED
    BY <1>1, <2>6, <2>7 DEF Inv
<1>4. CASE first # 0
  <2>1. UNCHANGED <<first, batch, live>>
    BY <1>4 DEF ph_mkbunsetu
  <2>2. ListAt(first, pos)' /\ Owned({first})'
    BY <1>1, <1>4, <2>1 DEF Between, ListAt, Owned
  <2>3. TypeOK'
    BY <1>1, <1>2, <2>1 DEF TypeOK, Round
  <2> QED
    BY <1>1, <1>4, <2>1, <2>2, <2>3 DEF Inv
<1> QED
  BY <1>3, <1>4

LEMMA TinyInv ==
    ASSUME Inv, mk2claus_tiny
    PROVE  Inv'
<1>1. /\ pc = "mk2claus" /\ pc' = "selclrec" /\ selcl' \in DOMAIN Cl
      /\ second' = 0 /\ max' = 0
      /\ UNCHANGED <<text, pos, room, first, batch, live, full>>
  BY DEF mk2claus_tiny
<1>2. TypeOK /\ first # 0 /\ ListAt(first, pos) /\ Owned({first})
  BY <1>1 DEF Inv, Round
<1>3. TypeOK'
  BY <1>1, <1>2 DEF TypeOK, Round, Pointer
<1>4. ListAt(first, pos)'
  BY <1>1, <1>2 DEF ListAt
<1>5. Selected'
  BY <1>1, <1>2 DEF Selected, Owned, Cl
<1> QED
  BY <1>1, <1>2, <1>3, <1>4, <1>5 DEF Inv

LEMMA BeginInv ==
    ASSUME Inv, mk2claus_begin
    PROVE  Inv'
<1>1. /\ pc = "mk2claus" /\ pc' = "try" /\ selcl' = 1
      /\ second' = 0 /\ max' = 0
      /\ Cl[1].cllen # Len(text) - pos
      /\ UNCHANGED <<text, pos, room, first, batch, live, full>>
  BY DEF mk2claus_begin
<1>2. TypeOK /\ first # 0 /\ ListAt(first, pos) /\ Owned({first})
  BY <1>1 DEF Inv, Round
<1>3. TypeOK'
  BY <1>1, <1>2 DEF TypeOK, Round, Pointer
<1>4. ListAt(first, pos)'
  BY <1>1, <1>2 DEF ListAt
<1>5. try'.k = 1 /\ try'.len = 0
  BY DEF mk2claus_begin, NoTry
<1>6. 1 \in DOMAIN Cl /\ Cl[1].cllen \in 1..(Len(text) - pos)
  BY <1>2 DEF ListAt, Sound, Cl
<1>7. Trying'
  BY <1>1, <1>2, <1>5, <1>6 DEF Trying, Owned, Cl, TypeOK
<1> QED
  BY <1>1, <1>2, <1>3, <1>4, <1>7 DEF Inv

\* What the list behind a clause of the given length is: a live list for the
\* place behind it, besides the clauses and the list of the selected one; every
\* other list is gone.
LEMMA BehindList ==
    ASSUME Inv, pc = "try", NEW len \in 1 .. Cl[1].cllen
    PROVE  LET x == Behind(len)
           IN  /\ x.b \in Batches /\ x.b # first
               /\ x.live = {first, second, x.b} \ {0}
               /\ DOMAIN x.batch = Batches
               /\ x.batch[first] = batch[first]
               /\ second # 0 => x.batch[second] = batch[second]
               /\ x.batch[x.b].start = pos + len
               /\ Sound(x.batch[x.b].an, Len(text) - (pos + len))
<1>1. TypeOK /\ Trying /\ first # 0 /\ ListAt(first, pos)
  BY DEF Inv, Round
<1>2. pos + len \in Nat /\ pos + len < Len(text) /\ len \in Nat \ {0}
  <2>1. text \in Texts /\ Len(text) \in Nat
    BY <1>1, RequestAssumption DEF TypeOK, Round, Inv
  <2>2. Cl[1].cllen \in 1..(Len(text) - pos)
    BY <1>1 DEF ListAt, Sound, Cl
  <2> QED
    BY <1>1, <2>1, <2>2 DEF Trying, TypeOK
<1>3. CASE len = try.len
  <2>1. max # 0 /\ ListAt(max, pos + len)
    BY <1>1, <1>2, <1>3 DEF Trying
  <2>2. Behind(len).b = max /\ Behind(len).live = live /\ Behind(len).batch = batch
    BY <1>3 DEF Behind
  <2> QED
    BY <1>1, <1>2, <2>1, <2>2 DEF Trying, Owned, TypeOK, Pointer, ListAt
<1>4. CASE len # try.len
  <2> DEFINE L == IF Lost(max) THEN Freed(max) ELSE live
             b == Fresh(L)
             an == PhAnalysis[Rest(pos + len)]
  <2>1. L = {first, second} \ {0}
    BY <1>1 DEF Trying, Owned, Lost, Freed
  <2>2. b \in Batches \ L
    <3>1. L \subseteq {first, second, 0}
      BY <2>1
    <3> HIDE DEF L
    <3> QED
      BY <3>1, FreshBatch
  <2>3. Behind(len).b = b /\ Behind(len).live = L \cup {b}
        /\ Behind(len).batch = Made(b, pos + len, an)
    BY <1>4 DEF Behind
  <2> HIDE DEF b, L
  <2>4. Sound(an, Len(text) - (pos + len))
    BY <1>1, <1>2, SoundAnalyses DEF TypeOK, Round, Inv
  <2> HIDE DEF an
  <2>5. /\ DOMAIN Made(b, pos + len, an) = Batches
        /\ Made(b, pos + len, an)[b] = [start |-> pos + len, an |-> an]
        /\ \A c \in Batches \ {b} : Made(b, pos + len, an)[c] = batch[c]
    BY <1>1, <2>2, Records DEF TypeOK
  <2>6. b # first /\ b # second /\ b # 0 /\ first \in Batches /\ second \in Pointer
    BY <1>1, <2>1, <2>2 DEF TypeOK, Pointer, Batches
  <2>7. Behind(len).live = {first, second, b} \ {0}
    BY <2>1, <2>3, <2>6
  <2> QED
    BY <2>2, <2>3, <2>4, <2>5, <2>6, <2>7 DEF Pointer
<1> QED
  BY <1>3, <1>4

\* The clauses ph2knj is at work on.
LEMMA Clauses ==
    ASSUME ListAt(first, pos)
    PROVE  /\ Cl # <<>> /\ Len(Cl) \in Nat /\ DOMAIN Cl = 1..Len(Cl) /\ 1 \in DOMAIN Cl
           /\ \A c \in DOMAIN Cl :
                 Cl[c].cllen \in 1..(Len(text) - pos) /\ Cl[c].cllen <= Cl[1].cllen
<1>1. /\ Cl # <<>> /\ Len(Cl) \in Nat /\ DOMAIN Cl = 1..Len(Cl)
      /\ \A c \in DOMAIN Cl :
            Cl[c].cllen \in 1..(Len(text) - pos) /\ Cl[c].cllen <= Cl[1].cllen
  BY DEF ListAt, Sound, Cl
<1>2. 1 \in DOMAIN Cl
  BY DEF ListAt, Sound, Cl
<1> QED
  BY <1>1, <1>2

\* What mk2claus does with a clause that wins or loses, once the list behind it
\* is there.
TryStep(x, cls, win) ==
    /\ selcl' = IF win THEN try.k ELSE selcl
    /\ max' = x.b
    /\ second' = IF Promote(win, x.b) THEN x.b ELSE second
    /\ live' = IF Promote(win, x.b) THEN x.live \ {second} ELSE x.live
    /\ batch' = Only(live', x.batch)
    /\ try' = [k |-> try.k + 1, save2 |-> x.save2, len |-> Cl[try.k].cllen,
               count |-> x.count, cl2len |-> cls]

LEMMA TryInv ==
    ASSUME Inv, mk2claus_try
    PROVE  Inv'
<1>1. pc = "try" /\ try.k <= Len(Cl) /\ UNCHANGED <<pc, text, pos, room, first, full>>
  BY DEF mk2claus_try
<1>2. TypeOK /\ Trying /\ first # 0 /\ ListAt(first, pos)
  BY <1>1 DEF Inv, Round
<1>3. try.k \in DOMAIN Cl /\ Cl[try.k].cllen \in 1 .. Cl[1].cllen
  BY <1>1, <1>2, Clauses DEF Trying
<1>4. PICK n : n = Cl[try.k].cllen
  OBVIOUS
<1>5. PICK x : x = Behind(n) /\ \E cls, win : TryStep(x, cls, win)
  <2>1. PICK prefer \in priority, y \in {Behind(Cl[try.k].cllen)} :
        \E cls \in {[try.cl2len EXCEPT ![try.k] =
                        IF Cl[try.k].right \in T_SHUUJO THEN Cl[try.k].cllen
                        ELSE y.save2]} :
        \E win \in {Beats(cls, prefer)} : TryStep(y, cls, win)
    BY DEF mk2claus_try, TryStep
  <2>2. y = Behind(n)
    BY <1>4
  <2>3. \E cls, win : TryStep(y, cls, win)
    BY <2>1
  <2> QED
    BY <2>2, <2>3
<1>6. /\ x.b \in Batches /\ x.b # first
      /\ x.live = {first, second, x.b} \ {0}
      /\ DOMAIN x.batch = Batches
      /\ x.batch[first] = batch[first]
      /\ second # 0 => x.batch[second] = batch[second]
      /\ x.batch[x.b].start = pos + n
      /\ Sound(x.batch[x.b].an, Len(text) - (pos + n))
  BY <1>1, <1>3, <1>4, <1>5, BehindList
<1>7. pos + n < Len(text) /\ n \in Nat \ {0}
  <2>1. text \in Texts /\ Len(text) \in Nat
    BY <1>1, <1>2, RequestAssumption DEF TypeOK, Round, Inv
  <2> QED
    BY <1>2, <1>3, <1>4, <2>1, Clauses DEF Trying, TypeOK
<1>8. /\ max' = x.b /\ batch' = Only(live', x.batch)
      /\ try'.k = try.k + 1 /\ try'.len = n
      /\ \/ selcl' = try.k /\ second # x.b /\ second' = x.b /\ live' = x.live \ {second}
         \/ selcl' = try.k /\ second = x.b /\ second' = second /\ live' = x.live
         \/ selcl' = selcl /\ second' = second /\ live' = x.live
  <2>1. PICK cls, win : TryStep(x, cls, win)
    BY <1>5
  <2>2. try'.k = try.k + 1 /\ try'.len = n
    BY <1>4, <2>1 DEF TryStep
  <2>3. CASE win
    <3>1. selcl' = try.k
      BY <2>1, <2>3, Zenon DEF TryStep
    <3>2. Promote(win, x.b) <=> second # x.b
      BY <2>3, Zenon DEF Promote
    <3> QED
      BY <2>1, <2>2, <3>1, <3>2, Zenon DEF TryStep
  <2>4. CASE ~win
    <3>1. selcl' = selcl /\ ~Promote(win, x.b)
      BY <2>1, <2>4, Zenon DEF Promote, TryStep
    <3> QED
      BY <2>1, <2>2, <3>1, Zenon DEF TryStep
  <2> QED
    BY <2>3, <2>4, Zenon
<1>9. /\ \/ second' = x.b /\ selcl' = try.k
         \/ second' = second /\ selcl' = selcl
      /\ live' = {first, second', x.b} \ {0}
      /\ first # 0 /\ x.b # 0 /\ first # second
  BY <1>2, <1>6, <1>8 DEF Trying, Batches
<1>10. /\ DOMAIN batch' = Batches /\ batch'[first] = batch[first]
       /\ batch'[x.b] = x.batch[x.b]
       /\ second' # 0 => batch'[second'] = x.batch[second']
  BY <1>2, <1>6, <1>8, <1>9 DEF Only, TypeOK, Pointer
<1>11. TypeOK'
  BY <1>1, <1>2, <1>6, <1>8, <1>9, <1>10 DEF TypeOK, Pointer, Round
<1>12. ListAt(first, pos)'
  BY <1>1, <1>2, <1>9, <1>10 DEF ListAt
<1>13. Cl' = Cl
  BY <1>1, <1>10 DEF Cl
<1>14. ListAt(x.b, pos + n)'
  BY <1>1, <1>6, <1>7, <1>9, <1>10 DEF ListAt
<1>15. second' # 0 => ListAt(second, pos + Cl[selcl].cllen)'
  <2>1. CASE second' = x.b /\ selcl' = try.k
    BY <1>1, <1>4, <1>13, <1>14, <2>1
  <2>2. CASE second' = second /\ selcl' = selcl
    <3>1. second # 0 => ListAt(second, pos + Cl[selcl].cllen) /\ batch'[second] = batch[second]
                        /\ second \in live'
      BY <1>2, <1>6, <1>9, <1>10, <2>2 DEF Trying
    <3> QED
      BY <1>1, <1>13, <2>2, <3>1 DEF ListAt
  <2> QED
    BY <1>9, <2>1, <2>2
<1>16. Trying'
  <2>1. max' # 0 => ListAt(max, pos + try.len)'
    BY <1>1, <1>8, <1>14
  <2>2. Owned({first, second, max})' /\ (first # second /\ first # max)'
    BY <1>1, <1>6, <1>8, <1>9 DEF Owned
  <2>3. selcl' \in DOMAIN Cl' /\ try'.k \in Nat \ {0} /\ try'.len \in Nat /\ max' # 0
    BY <1>2, <1>3, <1>7, <1>8, <1>9, <1>13 DEF Trying
  <2>4. (Cl[1].cllen < Len(text) - pos)'
    BY <1>1, <1>2, <1>13 DEF Trying
  <2> QED
    BY <1>15, <2>1, <2>2, <2>3, <2>4 DEF Trying
<1> QED
  BY <1>1, <1>2, <1>11, <1>12, <1>16 DEF Inv

LEMMA EndInv ==
    ASSUME Inv, mk2claus_end
    PROVE  Inv'
<1>1. /\ pc = "try" /\ pc' = "selclrec"
      /\ IF Lost(max) THEN live' = Freed(max) /\ max' = 0 ELSE UNCHANGED <<live, max>>
      /\ batch' = Only(live', batch)
      /\ UNCHANGED <<text, pos, room, selcl, first, second, full>>
  BY DEF mk2claus_end
<1>2. TypeOK /\ Trying /\ first # 0 /\ ListAt(first, pos)
  BY <1>1 DEF Inv, Round
<1>3. live' = {first, second} \ {0} /\ max' \in {0, second}
  BY <1>1, <1>2 DEF Trying, Owned, Lost, Freed
<1>4. DOMAIN batch' = Batches /\ batch'[first] = batch[first]
      /\ (second # 0 => batch'[second] = batch[second])
  BY <1>1, <1>2, <1>3 DEF Only, TypeOK, Pointer
<1>5. TypeOK'
  BY <1>1, <1>2, <1>3, <1>4 DEF TypeOK, Round, Pointer
<1>6. ListAt(first, pos)' /\ Cl' = Cl
  BY <1>1, <1>2, <1>3, <1>4 DEF ListAt, Cl
<1>7. second # 0 => ListAt(second, pos + Cl[selcl].cllen)'
  BY <1>1, <1>2, <1>3, <1>4, <1>6 DEF Trying, ListAt
<1>8. Selected'
  BY <1>1, <1>2, <1>3, <1>6, <1>7 DEF Selected, Trying, Owned
<1> QED
  BY <1>1, <1>2, <1>5, <1>6, <1>8 DEF Inv

\* The first of a set of clauses.
LEMMA FirstOf ==
    ASSUME NEW n \in Nat, NEW S, S \subseteq 1 .. n, S # {}
    PROVE  (CHOOSE x \in S : \A y \in S : x <= y) \in S
<1>1. S \subseteq Nat
  OBVIOUS
<1> QED
  BY <1>1, LeastNatural

LEMMA selclrecInv ==
    ASSUME Inv, selclrec
    PROVE  Inv'
<1> DEFINE learned == {c \in DOMAIN Cl : /\ Cl[c].cllen = Cl[selcl].cllen
                                         /\ Jnode(batch[first].an, c).class = "bunsetu"}
           k == CHOOSE x \in learned : \A y \in learned : x <= y
           len == Block[Jnode(batch[first].an, k).n].y1len
           cut == {x \in k..Len(Cl) : Cl[x].cllen = len}
           sel == CHOOSE x \in cut : \A y \in cut : x <= y
           L == live \ {first}
           b == Fresh(L)
           an == CutAnalysis[SubSeq(Rest(pos), 1, len)]
<1>1. pc = "selclrec" /\ pc' = "cvtphknj" /\ UNCHANGED <<text, pos, room>>
  BY DEF selclrec
<1>2. TypeOK /\ Selected /\ first # 0 /\ ListAt(first, pos)
  BY <1>1 DEF Inv, Round
<1>3. /\ learned = {} => UNCHANGED <<selcl, poolVars>>
      /\ learned # {} =>
            /\ second' = 0 /\ UNCHANGED full
            /\ cut # {} => /\ selcl' = sel /\ live' = live \ {second}
                           /\ batch' = Only(live', batch) /\ UNCHANGED <<first, max>>
            /\ cut = {} => /\ selcl' = 1 /\ first' = b /\ max' = b
                           /\ live' = (L \cup {b}) \ {second}
                           /\ batch' = Only(live', Made(b, pos, an))
  BY DEF selclrec, Second_after
<1>4. text \in Texts /\ Len(text) \in Nat /\ pos \in Nat /\ pos < Len(text)
  BY <1>1, <1>2, RequestAssumption DEF TypeOK, Round, ListAt
<1>5. max \in {0, second} /\ live = {first, second} \ {0} /\ first # second
      /\ selcl \in DOMAIN Cl
  BY <1>1, <1>2 DEF Selected, Owned
<1>6. CASE learned = {}
  <2>1. UNCHANGED <<first, second, max, batch, live, full, selcl>>
    BY <1>3, <1>6 DEF poolVars
  <2>2. TypeOK'
    BY <1>1, <1>2, <2>1 DEF TypeOK, Round
  <2>3. ListAt(first, pos)' /\ Cl' = Cl
    BY <1>1, <1>2, <2>1 DEF ListAt, Cl
  <2>4. second # 0 => ListAt(second, pos + Cl[selcl].cllen)'
    BY <1>1, <1>2, <2>1, <2>3 DEF Selected, ListAt
  <2>5. Selected'
    BY <1>1, <1>5, <2>1, <2>3, <2>4 DEF Selected, Owned
  <2> QED
    BY <1>1, <1>2, <2>1, <2>2, <2>3, <2>5 DEF Inv
<1>7. CASE learned # {}
  <2>1. k \in DOMAIN Cl /\ k \in Nat /\ Jnode(batch[first].an, k).class = "bunsetu"
    <3>1. learned \subseteq 1 .. Len(Cl) /\ Len(Cl) \in Nat
      BY <1>2, Clauses
    <3>2. k \in learned
      <4> HIDE DEF learned
      <4> QED
        BY <3>1, <1>7, FirstOf
    <3> HIDE DEF k
    <3> QED
      BY <3>1, <3>2
  <2> HIDE DEF learned, k
  <2>2. len \in 1 .. (Cl[k].cllen - 1) /\ Cl[k].cllen \in 1 .. (Len(text) - pos)
    BY <1>2, <2>1 DEF ListAt, Sound, Cl
  <2>3. len \in Nat \ {0} /\ len \in 1 .. (Len(text) - pos) /\ pos + len < Len(text)
    BY <1>4, <2>2
  <2> HIDE DEF len
  <2>4. CASE cut # {}
    <3>1. sel \in DOMAIN Cl /\ Cl[sel].cllen = len
      <4>1. cut \subseteq 1 .. Len(Cl) /\ Len(Cl) \in Nat /\ DOMAIN Cl = 1 .. Len(Cl)
        BY <1>2, <2>1, Clauses
      <4>2. sel \in cut
        <5> HIDE DEF cut
        <5> QED
          BY <4>1, <2>4, FirstOf
      <4> HIDE DEF sel
      <4> QED
        BY <4>1, <4>2
    <3> HIDE DEF sel
    <3>2. /\ second' = 0 /\ selcl' = sel /\ live' = {first}
          /\ batch' = Only(live', batch) /\ UNCHANGED <<first, max, full>>
      BY <1>2, <1>3, <1>5, <1>7, <2>4 DEF TypeOK, Pointer
    <3>3. DOMAIN batch' = Batches /\ batch'[first] = batch[first]
      BY <1>2, <3>2 DEF Only, TypeOK, Pointer
    <3>4. TypeOK'
      BY <1>1, <1>2, <3>2, <3>3 DEF TypeOK, Pointer, Round
    <3>5. ListAt(first, pos)' /\ Cl' = Cl
      BY <1>1, <1>2, <3>2, <3>3 DEF ListAt, Cl
    <3>6. Selected'
      BY <1>1, <1>2, <2>3, <3>1, <3>2, <3>5 DEF Selected, Owned
    <3> QED
      BY <1>1, <1>2, <3>2, <3>4, <3>5, <3>6 DEF Inv
  <2>5. CASE cut = {}
    <3>1. L \subseteq {second}
      BY <1>5
    <3>2. b \in Batches \ L
      <4> HIDE DEF L
      <4>1. L \subseteq {second, second, second}
        BY <3>1
      <4> QED
        BY <4>1, FreshBatch
    <3>3. /\ second' = 0 /\ selcl' = 1 /\ first' = b /\ max' = b
          /\ live' = (L \cup {b}) \ {second}
          /\ batch' = Only(live', Made(b, pos, an)) /\ UNCHANGED full
      BY <1>3, <1>7, <2>5
    <3>4. b # 0 /\ b # second
      <4>1. second # 0 => second \in L
        BY <1>5
      <4> HIDE DEF b, L
      <4> QED
        BY <3>2, <4>1 DEF Batches
    <3> HIDE DEF b
    <3>5. live' = {b}
      BY <3>1, <3>3, <3>4
    <3>6. Sound(an, len)
      BY <1>2, <1>4, <2>3, SoundAnalyses
    <3> HIDE DEF an
    <3>7. DOMAIN batch' = Batches /\ batch'[b] = [start |-> pos, an |-> an]
      BY <1>2, <3>2, <3>3, <3>5, Records DEF TypeOK
    <3>8. TypeOK'
      BY <1>1, <1>2, <3>2, <3>3, <3>5, <3>7 DEF TypeOK, Pointer, Round
    <3>9. Sound(an, Len(text) - pos)
      BY <1>4, <2>3, <3>6, SoundLonger
    <3>10. ListAt(first, pos)'
      BY <1>1, <1>4, <3>3, <3>5, <3>7, <3>9 DEF ListAt
    <3>11. Cl'[1].cllen \in 1 .. len /\ 1 \in DOMAIN Cl'
      BY <3>3, <3>6, <3>7 DEF Sound, Cl
    <3>12. Selected'
      BY <1>1, <1>4, <2>3, <3>3, <3>4, <3>5, <3>11 DEF Selected, Owned
    <3> QED
      BY <1>1, <3>3, <3>4, <3>8, <3>10, <3>12 DEF Inv
  <2> QED
    BY <2>4, <2>5
<1> QED
  BY <1>6, <1>7

LEMMA cvtphknjInv ==
    ASSUME Inv, ph_cvtphknj
    PROVE  Inv' /\ pos' > pos
<1>1. pc = "cvtphknj" /\ pc' = "start" /\ UNCHANGED <<text, second, max, full>>
      /\ pos' = pos + Cl[selcl].cllen /\ live' = live \ {first}
      /\ batch' = Only(live', batch) /\ first' = second
  BY DEF ph_cvtphknj, Done, Freed
<1>2. TypeOK /\ Selected /\ first # 0 /\ ListAt(first, pos)
  BY <1>1 DEF Inv, Round
<1>3. room' \in Nat
  BY <1>2 DEF ph_cvtphknj, TypeOK, Fits
<1>4. text \in Texts /\ Len(text) \in Nat /\ pos \in Nat
  BY <1>1, <1>2, RequestAssumption DEF TypeOK, Round
<1>5. pos' \in Nat /\ pos' > pos
  BY <1>1, <1>2, <1>4, Clauses DEF Selected
<1>6. live' = {second} \ {0}
  BY <1>1, <1>2 DEF Selected, Owned
<1>7. DOMAIN batch' = Batches /\ (second # 0 => batch'[second] = batch[second])
  BY <1>1, <1>2, <1>6 DEF Only, TypeOK, Pointer
<1>8. TypeOK'
  BY <1>1, <1>2, <1>3, <1>5, <1>6, <1>7 DEF TypeOK, Pointer, Round
<1>9. second # 0 => ListAt(second, pos') /\ pos' < Len(text)
  BY <1>1, <1>2 DEF Selected, ListAt
<1>10. first' # 0 => ListAt(first, pos)'
  BY <1>1, <1>6, <1>7, <1>9 DEF ListAt
<1>11. second = 0 => max = 0 \/ pos' < Len(text)
  BY <1>1, <1>2 DEF Selected
<1>12. Between'
  BY <1>1, <1>6, <1>9, <1>10, <1>11 DEF Between, Owned
<1> QED
  BY <1>1, <1>5, <1>8, <1>12 DEF Inv, Round

LEMMA endInv ==
    ASSUME Inv, ph_end
    PROVE  Inv'
<1>1. pc = "start" /\ (pos >= Len(text) \/ room = 0) /\ pc' = "conv"
      /\ batch' = Only(live', batch)
      /\ UNCHANGED <<text, pos, room, first, second, max>>
  BY DEF ph_end
<1>2. TypeOK /\ Between
  BY <1>1 DEF Inv
<1>3. TypeOK'
  <2>1. live' \subseteq Batches /\ DOMAIN batch' = Batches
    BY <1>1, <1>2 DEF ph_end, TypeOK, Freed, Only
  <2> QED
    BY <1>1, <1>2, <2>1 DEF TypeOK, Round
<1>4. CASE room = 0
  <2>1. live' = {}
    BY <1>2, <1>4 DEF ph_end, Between, Owned, Freed
  <2>2. full'
    BY <1>4 DEF ph_end
  <2> QED
    BY <1>1, <1>3, <2>1, <2>2 DEF Inv, Round, Resting
<1>5. CASE room # 0
  <2>1. live' = live
    BY <1>5 DEF ph_end
  <2>2. Len(text) \in Nat /\ pos \in Nat
    BY <1>1, <1>2, RequestAssumption DEF TypeOK
  <2>3. first = max
    BY <1>1, <1>2, <1>5, <2>2 DEF Between
  <2>4. Owned({max})'
    BY <1>1, <1>2, <2>1, <2>3 DEF Between, Owned
  <2> QED
    BY <1>1, <1>3, <2>4 DEF Inv, Round, Resting
<1> QED
  BY <1>4, <1>5

----------------------------------------------------------------------------
(* The requests for candidates *)

\* A request for candidates frees the list that rests and keeps a new one.
LEMMA cl2knjInv ==
    ASSUME Inv, pc \in {"idle", "conv"}, ~Dangling(max), NEW t, cl2knj(t),
           pc' = "job", pos' \in Nat, room' \in Nat
    PROVE  Inv'
<1>1. TypeOK /\ Resting
  BY DEF Inv
<1>2. Freed(max) = {}
  BY <1>1 DEF Resting, Owned, Dangling, Freed
<1> DEFINE b == Fresh({})
<1>3. b \in Batches
  <2>1. {} \subseteq {0, 0, 0}
    OBVIOUS
  <2> QED
    BY <2>1, FreshBatch
<1>4. /\ live' = {b} /\ first' = b /\ max' = b /\ DOMAIN batch' = Batches
      /\ UNCHANGED <<second, full>>
  BY <1>2 DEF cl2knj, Only
<1> HIDE DEF b
<1>5. TypeOK'
  BY <1>1, <1>3, <1>4 DEF TypeOK, Round, Pointer
<1>6. Resting'
  BY <1>3, <1>4 DEF Resting, Owned, Batches
<1> QED
  BY <1>5, <1>6 DEF Inv, Round

\* Every step keeps the invariant.
LEMMA NextInv ==
    ASSUME Inv, [Next]_vars
    PROVE  Inv'
<1>1. CASE \E t \in Texts, r \in Rooms : ph2knj(t, r)
  BY <1>1, ph2knjInv
<1>2. CASE ph_mkbunsetu \/ mk2claus_tiny \/ mk2claus_begin
  BY <1>2, mkbunsetuInv, TinyInv, BeginInv
<1>3. CASE mk2claus_try \/ mk2claus_end \/ selclrec
  BY <1>3, TryInv, EndInv, selclrecInv
<1>4. CASE ph_cvtphknj \/ ph_end
  BY <1>4, cvtphknjInv, endInv
<1>5. CASE ph_redo
  <2>1. CASE Dangling(max) /\ Corrupt
    BY <1>5, <2>1, CorruptInv DEF ph_redo
  <2>2. CASE ~(Dangling(max) /\ Corrupt)
    <3>1. PICK t : /\ pc = "conv" /\ ~Dangling(max) /\ cl2knj(t) /\ pc' = "job"
                   /\ UNCHANGED <<pos, room>>
      BY <1>5, <2>2 DEF ph_redo
    <3>2. pos' \in Nat /\ room' \in Nat
      BY <3>1 DEF Inv, TypeOK
    <3> QED
      BY <3>1, <3>2, cl2knjInv
  <2> QED
    BY <2>1, <2>2
<1>6. CASE \E t \in Texts, what \in {"cl2knj", "all", "cnt"} : exec_cl2knj(what, t)
  <2>1. PICK t \in Texts, what \in {"cl2knj", "all", "cnt"} : exec_cl2knj(what, t)
    BY <1>6
  <2>2. CASE Dangling(max) /\ Corrupt
    BY <2>1, <2>2, CorruptInv DEF exec_cl2knj
  <2>3. CASE ~(Dangling(max) /\ Corrupt)
    <3>1. /\ pc = "idle" /\ ~Dangling(max) /\ cl2knj(t) /\ pc' = "job"
          /\ pos' \in Nat /\ room' \in Nat
      BY <2>1, <2>3 DEF exec_cl2knj
    <3> QED
      BY <3>1, cl2knjInv
  <2> QED
    BY <2>2, <2>3
<1>7. CASE ph_reply \/ job_step \/ job_reply
  <2>1. /\ pc \in {"conv", "job"} /\ pc' \in {"idle", "conv", "job"}
        /\ UNCHANGED <<poolVars, pos, room>>
    BY <1>7 DEF ph_reply, job_step, job_reply
  <2>2. pos' \in Nat /\ room' \in Nat
    BY <2>1 DEF Inv, TypeOK
  <2> QED
    BY <2>1, <2>2, RestingStays
<1>8. CASE \/ \E dir \in {"next", "prev"}, mode \in 0..2 : exec_nextcl(dir, mode)
           \/ \E s \in Known : exec_study(s)
  <2>1. /\ pc = "idle" /\ pc' \in {"idle", "job"}
        /\ UNCHANGED <<poolVars, pos, room>>
    BY <1>8 DEF exec_nextcl, exec_study, phVars
  <2>2. pos' \in Nat /\ room' \in Nat
    BY <2>1 DEF Inv, TypeOK
  <2> QED
    BY <2>1, <2>2, RestingStays
<1>10. CASE \E what \in {"cl2knj", "all", "cnt"} : exec_cl2knj_empty(what)
  <2>1. /\ pc = "idle" /\ pc' = "idle" /\ pos' = 0 /\ room' = 0 /\ UNCHANGED poolVars
    BY <1>10 DEF exec_cl2knj_empty
  <2> QED
    BY <2>1, RestingStays
<1>9. CASE UNCHANGED vars
  <2>1. /\ UNCHANGED <<pc, text, pos, room, first, second, max, batch, live, full, selcl, try>>
    BY <1>9 DEF vars, phVars, poolVars
  <2>2. TypeOK' <=> TypeOK
    BY <2>1 DEF TypeOK
  <2>3. (Between' <=> Between) /\ (Trying' <=> Trying) /\ (Selected' <=> Selected)
        /\ (Resting' <=> Resting)
    BY <2>1 DEF Between, Trying, Selected, Resting, Owned, ListAt, Cl
  <2>4. (ListAt(first, pos))' <=> ListAt(first, pos)
    BY <2>1 DEF ListAt
  <2>5. Owned({first})' <=> Owned({first})
    BY <2>1 DEF Owned
  <2> QED
    BY <2>1, <2>2, <2>3, <2>4, <2>5 DEF Inv
<1> QED
  BY <1>1, <1>2, <1>3, <1>4, <1>5, <1>6, <1>7, <1>8, <1>9, <1>10 DEF Next

----------------------------------------------------------------------------
(* The theorems *)

LEMMA InvIsExact == Inv => PoolExact
<1> SUFFICES ASSUME Inv PROVE PoolExact
  OBVIOUS
<1>1. pc \in Round =>
         /\ first \in live
         /\ batch[first].start = pos
         /\ Cl # <<>>
  BY Clauses DEF Inv, ListAt
<1>2. pc \in Round \ {"mk2claus"} /\ second # 0 =>
         /\ second \in live /\ second # first
         /\ batch[second].start = pos + Cl[selcl].cllen
  BY DEF Inv, Round, Trying, Selected, ListAt
<1>3. pc = "idle" /\ ~full => live = {max} \ {0}
  BY DEF Inv, Resting, Owned
<1>4. pc = "corrupt" => full
  BY DEF Inv
<1> QED
  BY <1>1, <1>2, <1>3, <1>4 DEF PoolExact, Round

\* The lists of stems and clauses that all sessions share are used and freed
\* as they were allocated, for any texts, any dictionary and any way mk2claus'
\* priorities may fall: the list ph2knj (ph2knj.c) converts from is allocated
\* and starts where the conversion stands, so is the second list that mk2claus
\* (mk2claus.c) may have made for the next clause, and a list is freed twice
\* (memory.c) only after a phrase that did not fit in the client's buffer.
THEOREM ListsFreedOnce == Spec => []PoolExact
<1>1. Inv /\ [Next]_vars => Inv'
  BY NextInv
<1> QED
  BY <1>1, InitInv, InvIsExact, PTL DEF Spec

\* A step of a conversion takes the next clause of the list, or leads to the
\* next stage, or over some of the reading.
LEMMA LeadsOn ==
    ASSUME Inv, Next, pc \notin {"idle", "conv", "job"}
    PROVE  \/ pos' > pos
           \/ pos' = pos /\ Stage(pc') > Stage(pc)
           \/ pos' = pos /\ pc = "try" /\ pc' = "try" /\ try'.k > try.k
<1>1. CASE ph_cvtphknj
  BY <1>1, cvtphknjInv
<1>2. CASE mk2claus_try
  <2>1. try'.k = try.k + 1
    <3>1. PICK prefer \in priority, y \in {Behind(Cl[try.k].cllen)} :
          \E cls \in {[try.cl2len EXCEPT ![try.k] =
                          IF Cl[try.k].right \in T_SHUUJO THEN Cl[try.k].cllen
                          ELSE y.save2]} :
          \E win \in {Beats(cls, prefer)} : TryStep(y, cls, win)
      BY <1>2 DEF mk2claus_try, TryStep
    <3>2. PICK cls, win : TryStep(y, cls, win)
      BY <3>1
    <3> QED
      BY <3>2 DEF TryStep
  <2>2. pc = "try" /\ pc' = "try" /\ pos' = pos
    BY <1>2 DEF mk2claus_try
  <2>3. try.k \in Nat
    BY <2>2 DEF Inv, Trying
  <2> QED
    BY <2>1, <2>2, <2>3
<1>3. CASE ph_mkbunsetu \/ mk2claus_tiny \/ mk2claus_begin
  <2>1. /\ pos' = pos
        /\ \/ pc = "start" /\ pc' = "mk2claus"
           \/ pc = "mk2claus" /\ pc' \in {"selclrec", "try"}
    BY <1>3 DEF ph_mkbunsetu, mk2claus_tiny, mk2claus_begin
  <2> QED
    BY <2>1 DEF Stage
<1>4. CASE mk2claus_end \/ selclrec \/ ph_end
  <2>1. /\ pos' = pos
        /\ \/ pc = "try" /\ pc' = "selclrec"
           \/ pc = "selclrec" /\ pc' = "cvtphknj"
           \/ pc = "start" /\ pc' = "conv"
    BY <1>4 DEF mk2claus_end, selclrec, ph_end
  <2> QED
    BY <2>1 DEF Stage
<1>5. pc \notin {"idle", "conv", "job"} =>
         /\ ~ \E t \in Texts, r \in Rooms : ph2knj(t, r)
         /\ ~ ph_redo /\ ~ ph_reply
         /\ ~ \E t \in Texts, what \in {"cl2knj", "all", "cnt"} : exec_cl2knj(what, t)
         /\ ~ \E what \in {"cl2knj", "all", "cnt"} : exec_cl2knj_empty(what)
         /\ ~ \E dir \in {"next", "prev"}, mode \in 0..2 : exec_nextcl(dir, mode)
         /\ ~ job_step /\ ~ job_reply
         /\ ~ \E s \in Known : exec_study(s)
  BY DEF ph2knj, ph_redo, ph_reply, exec_cl2knj, exec_cl2knj_empty, exec_nextcl, job_step,
         job_reply, exec_study
<1> QED
  BY <1>1, <1>2, <1>3, <1>4, <1>5 DEF Next

\* A phrase's conversion comes to an end whatever it is given: each step of
\* ph2knj's loop (ph2knj.c) and of mk2claus' (mk2claus.c) leads on through the
\* clauses, the stages or the reading, all of which are bounded; no clause that
\* cvtphknj puts out is empty.
THEOREM ConversionLeadsOn == Spec => StepsLeadOn
<1>1. Inv /\ [Next]_vars => Inv'
  BY NextInv
<1>2. Inv /\ [Next]_vars =>
        [pc \notin {"idle", "conv", "job"} =>
            \/ pos' > pos
            \/ pos' = pos /\ Stage(pc') > Stage(pc)
            \/ pos' = pos /\ pc = "try" /\ pc' = "try" /\ try'.k > try.k]_vars
  BY LeadsOn
<1> QED
  BY <1>1, <1>2, InitInv, PTL DEF Spec, StepsLeadOn

----------------------------------------------------------------------------
(* What a client that speaks Shift-JIS is shown *)

\* Every clause of the phrase that is put out as it was converted converts.
AllConvert ==
    \A i \in DOMAIN out :
        out[i].as # "kanji" \/ Converts(out[i].an, out[i].cand)

\* Nothing is shown while a request is under way; a clause that does not
\* convert is left only while ph2knj is, or its clause is converted again.
ShownInv ==
    proto = "SJIS" =>
        /\ reply.what = "shown" =>
              \/ pc = "idle" /\ Converts(cur.an, Current(cur))
              \/ pc = "corrupt"
        /\ pc = "idle" \/ (pc = "job" /\ job.what # "ph") => AllConvert

LEMMA InitShown == Init => ShownInv
BY DEF Init, ShownInv, Silent, Reply, AllConvert

\* Steps that show nothing and leave what is put out alone, or are under way
\* with a phrase.
LEMMA SilentShown ==
    ASSUME ShownInv, proto' = proto, reply'.what # "shown",
           \/ pc' \notin {"idle", "job"}
           \/ pc' = "job" /\ job'.what = "ph"
           \/ out' = <<>>
           \/ AllConvert /\ out' = out
    PROVE  ShownInv'
<1>1. out' = out /\ AllConvert => AllConvert'
  <2> SUFFICES ASSUME out' = out, AllConvert PROVE AllConvert'
    OBVIOUS
  <2> QED
    BY DEF AllConvert, Converts
<1>2. out' = <<>> => AllConvert'
  BY DEF AllConvert
<1>3. pc' = "idle" \/ (pc' = "job" /\ job'.what # "ph") => AllConvert'
  BY <1>1, <1>2
<1> HIDE DEF AllConvert
<1>4. (proto = "SJIS")' =>
        /\ (reply.what = "shown" =>
              \/ pc = "idle" /\ Converts(cur.an, Current(cur))
              \/ pc = "corrupt")'
        /\ (pc = "idle" \/ (pc = "job" /\ job.what # "ph") => AllConvert)'
  BY <1>3
<1> QED
  BY ONLY <1>4 DEF ShownInv

LEMMA CorruptShown ==
    ASSUME ShownInv, Corrupt
    PROVE  ShownInv'
BY DEF ShownInv, Corrupt

\* The stages of ph2knj.
LEMMA PhraseShown ==
    ASSUME ShownInv,
           \/ ph_mkbunsetu \/ mk2claus_tiny \/ mk2claus_begin \/ mk2claus_try
           \/ mk2claus_end \/ selclrec \/ ph_cvtphknj \/ ph_end
    PROVE  ShownInv'
<1>1. pc \notin {"idle", "corrupt", "job"} /\ pc' \notin {"idle", "job"} /\ UNCHANGED <<proto, reply>>
  BY DEF ph_mkbunsetu, mk2claus_tiny, mk2claus_begin, mk2claus_try, mk2claus_end, selclrec,
         ph_cvtphknj, ph_end
<1> QED
  BY <1>1 DEF ShownInv

\* The reply to a request for candidates: what is not shown as a candidate is
\* the reading, a list or a count.
LEMMA ReplyShown ==
    ASSUME ShownInv, job_reply
    PROVE  ShownInv'
<1> SUFFICES ASSUME proto = "SJIS" PROVE ShownInv'
  BY DEF job_reply, ShownInv
<1>1. /\ pc = "job" /\ ~More /\ UNCHANGED <<proto, cur>> /\ reply.what # "shown"
  BY DEF job_reply, ShownInv
<1>2. Converts(cur.an, Current(cur))' <=> Converts(cur.an, Current(cur))
  BY <1>1 DEF Converts, Current, Spelling, Key, WordOf, Jnode, ByRank
<1>3. CASE job.what = "ph"
  BY <1>1, <1>3 DEF job_reply, ShownInv
<1>4. CASE job.what # "ph"
  <2>1. out' = out /\ AllConvert /\ pc' = "idle"
    BY <1>1, <1>4 DEF job_reply, ShownInv
  <2>2. AllConvert'
    BY <2>1 DEF AllConvert, Converts, Spelling, Key, WordOf, Jnode
  <2>3. reply'.what = "shown" => Showable(cur)
    <3>1. CASE job.what = "cl2knj"
      BY <1>1, <3>1 DEF job_reply, Reply
    <3>2. CASE job.what = "seek"
      BY <1>1, <3>2 DEF job_reply, Reply, SeekReply, Silent, More
    <3>3. CASE job.what \notin {"cl2knj", "seek"}
      BY <1>1, <1>4, <3>3 DEF job_reply, Reply
    <3> QED
      BY <3>1, <3>2, <3>3
  <2>4. Showable(cur) => Converts(cur.an, Current(cur))
    BY DEF Showable
  <2> QED
    BY <1>2, <2>1, <2>2, <2>3, <2>4 DEF ShownInv
<1> QED
  BY <1>3, <1>4

LEMMA NextShown ==
    ASSUME ShownInv, [Next]_vars
    PROVE  ShownInv'
<1>1. CASE \E t \in Texts, r \in Rooms : ph2knj(t, r)
  <2> PICK t \in Texts, r \in Rooms : ph2knj(t, r)
    BY <1>1
  <2>1. CASE Dangling(max)
    BY <2>1, CorruptShown DEF ph2knj
  <2>2. CASE ~Dangling(max)
    <3>1. proto' = proto /\ out' = <<>> /\ reply' = Silent
      BY <2>2 DEF ph2knj
    <3> QED
      BY <3>1, SilentShown DEF Silent, Reply
  <2> QED
    BY <2>1, <2>2
<1>2. CASE \E t \in Texts, what \in {"cl2knj", "all", "cnt"} : exec_cl2knj(what, t)
  <2> PICK t \in Texts, what \in {"cl2knj", "all", "cnt"} : exec_cl2knj(what, t)
    BY <1>2
  <2>1. CASE Dangling(max)
    BY <2>1, CorruptShown DEF exec_cl2knj
  <2>2. CASE ~Dangling(max)
    <3>1. proto' = proto /\ out' = <<>> /\ reply' = Silent
      BY <2>2 DEF exec_cl2knj
    <3> QED
      BY <3>1, SilentShown DEF Silent, Reply
  <2> QED
    BY <2>1, <2>2
<1>9. CASE \E what \in {"cl2knj", "all", "cnt"} : exec_cl2knj_empty(what)
  <2>1. proto' = proto /\ out' = <<>> /\ reply'.what # "shown"
    BY <1>9 DEF exec_cl2knj_empty, Silent, Reply
  <2> QED
    BY <2>1, SilentShown
<1>3. CASE \E dir \in {"next", "prev"}, mode \in 0..2 : exec_nextcl(dir, mode)
  <2>1. pc = "idle" /\ pc' = "job" /\ proto' = proto /\ out' = out /\ reply' = Silent
    BY <1>3 DEF exec_nextcl
  <2>2. CASE proto = "SJIS"
    BY <2>1, <2>2, SilentShown DEF Silent, Reply, ShownInv
  <2>3. CASE proto # "SJIS"
    BY <2>1, <2>3 DEF ShownInv
  <2> QED
    BY <2>2, <2>3
<1>4. CASE job_step
  <2>1. pc = "job" /\ pc' = "job" /\ job'.what = job.what /\ UNCHANGED <<proto, out, reply>>
    BY <1>4 DEF job_step
  <2>2. AllConvert => AllConvert'
    BY <2>1 DEF AllConvert, Converts, Spelling, Key, WordOf, Jnode
  <2> QED
    BY <2>1, <2>2 DEF ShownInv
<1>5. CASE \E s \in Known : exec_study(s)
  <2>1. pc = "idle" /\ UNCHANGED <<phVars, poolVars, cur, job, reply>>
    BY <1>5 DEF exec_study
  <2>2. AllConvert => AllConvert'
    BY <2>1 DEF phVars, AllConvert, Converts, Spelling, Key, WordOf, Jnode
  <2>3. Converts(cur.an, Current(cur))' <=> Converts(cur.an, Current(cur))
    BY <2>1 DEF Converts, Current, Spelling, Key, WordOf, Jnode, ByRank
  <2> QED
    BY <2>1, <2>2, <2>3 DEF ShownInv, phVars
<1>6. CASE ph_redo
  <2>1. CASE Dangling(max)
    BY <1>6, <2>1, CorruptShown DEF ph_redo
  <2>2. CASE ~Dangling(max)
    <3>1. pc = "conv" /\ pc' = "job" /\ job'.what = "ph" /\ UNCHANGED <<proto, reply>>
      BY <1>6, <2>2 DEF ph_redo, Job, NoJob
    <3> QED
      BY <3>1 DEF ShownInv
  <2> QED
    BY <2>1, <2>2
<1>7. CASE ph_reply
  <2>1. pc = "conv" /\ pc' = "idle" /\ Bad = {} /\ UNCHANGED <<proto, out, reply>>
    BY <1>7 DEF ph_reply
  <2>2. proto = "SJIS" => AllConvert
    BY <2>1 DEF Bad, AllConvert
  <2>3. AllConvert => AllConvert'
    BY <2>1 DEF AllConvert, Converts, Spelling, Key, WordOf, Jnode
  <2> QED
    BY <2>1, <2>2, <2>3 DEF ShownInv
<1>8. CASE UNCHANGED vars
  <2>1. UNCHANGED <<pc, proto, out, reply, cur, job>>
    BY <1>8 DEF vars, phVars
  <2>2. AllConvert => AllConvert'
    BY <2>1 DEF AllConvert, Converts, Spelling, Key, WordOf, Jnode
  <2>3. Converts(cur.an, Current(cur))' <=> Converts(cur.an, Current(cur))
    BY <2>1 DEF Converts, Current, Spelling, Key, WordOf, Jnode, ByRank
  <2> QED
    BY <2>1, <2>2, <2>3 DEF ShownInv
<1> QED
  BY <1>1, <1>2, <1>3, <1>4, <1>5, <1>6, <1>7, <1>8, <1>9, PhraseShown, ReplyShown DEF Next

\* A client that speaks Shift-JIS (exec_cl2knj, exec_nextcl and exec_ph2knj in
\* execute.c) is shown no candidate that the conversion of the reply would
\* mangle, for any dictionary and whatever is asked in between.
THEOREM RepliesCanBeShown == Spec => []RepliesConvert
<1>1. ShownInv /\ [Next]_vars => ShownInv'
  BY NextShown
<1>2. ShownInv => RepliesConvert
  BY DEF ShownInv, RepliesConvert, AllConvert
<1> QED
  BY <1>1, <1>2, InitShown, PTL DEF Spec

----------------------------------------------------------------------------
(* The study table is a list *)

List(s) == s \in Seq(Range(s))

\* A sequence over any set is a list of what it holds, by its places.
LEMMA AnyList ==
    ASSUME NEW S, NEW s \in Seq(S)
    PROVE  List(s) /\ DOMAIN s = 1..Len(s) /\ Len(s) \in Nat
<1>1. s \in [1..Len(s) -> S] /\ Len(s) \in Nat /\ DOMAIN s = 1..Len(s)
  BY LenProperties
<1>2. \A i \in 1..Len(s) : s[i] \in Range(s)
  BY <1>1 DEF Range
<1>3. s \in [1..Len(s) -> Range(s)]
  BY <1>1, <1>2
<1> QED
  BY <1>1, <1>3 DEF List

\* So the ranking may look words up in it.
LEMMA ListTable ==
    ASSUME NEW s, List(s)
    PROVE  Table(s)
<1>1. DOMAIN s = 1..Len(s) /\ Len(s) \in Nat
  BY AnyList DEF List
<1> QED
  BY <1>1 DEF Table

\* What is chosen is put in front of the rest.
LEMMA StudiedList ==
    ASSUME NEW st, List(st), NEW s
    PROVE  List(study(st, s))
<1> PICK at : at = srchstdy(st, s.key)
  OBVIOUS
<1>1. at = 0 \/ at \in DOMAIN st
  <2> DEFINE T == {k \in DOMAIN st : st[k].key = s.key}
  <2>1. T # {} => (CHOOSE k \in T : TRUE) \in T
    OBVIOUS
  <2> QED
    BY <2>1 DEF srchstdy
<1>2. st \in Seq(Range(st)) /\ DOMAIN st = 1..Len(st) /\ Len(st) \in Nat
  BY AnyList DEF List
<1>3. ASSUME NEW e, NEW t \in Seq(Range(st))
      PROVE  <<e>> \o t \in Seq(Range(st) \cup {e})
  <2>1. <<e>> \in Seq(Range(st) \cup {e}) /\ t \in Seq(Range(st) \cup {e})
    BY <1>3
  <2> QED
    BY <2>1, ConcatProperties
<1>4. at # 0 => RemoveAt(st, at) \in Seq(Range(st))
  <2> SUFFICES ASSUME at # 0 PROVE RemoveAt(st, at) \in Seq(Range(st))
    OBVIOUS
  <2>1. at \in 1..Len(st)
    BY <1>1, <1>2
  <2>2. at - 1 \in Int /\ at + 1 \in Int /\ Len(st) \in Int
    BY <1>2, <2>1
  <2>3. \A i \in 1..(at - 1) : st[i] \in Range(st)
    BY <1>2, <2>1
  <2>4. \A i \in (at + 1)..Len(st) : st[i] \in Range(st)
    BY <1>2, <2>1
  <2>5. SubSeq(st, 1, at - 1) \in Seq(Range(st))
    BY <2>2, <2>3, SubSeqProperties
  <2>6. SubSeq(st, at + 1, Len(st)) \in Seq(Range(st))
    BY <2>2, <2>4, SubSeqProperties
  <2> QED
    BY <2>5, <2>6, ConcatProperties DEF RemoveAt
<1>5. CASE s.key[2] = 0
  BY <1>5 DEF study
<1>6. CASE s.key[2] # 0 /\ at # 0
  <2>1. \E e : study(st, s) = <<e>> \o RemoveAt(st, at)
    BY <1>6 DEF study
  <2>2. PICK e : study(st, s) = <<e>> \o RemoveAt(st, at)
    BY <2>1
  <2> QED
    BY <1>3, <1>4, <1>6, <2>2, AnyList
<1>7. CASE s.key[2] # 0 /\ at = 0
  <2>1. \E e : study(st, s) = IF Len(<<e>> \o st) > STUDYMAX
                              THEN SubSeq(<<e>> \o st, 1, STUDYMAX) ELSE <<e>> \o st
    BY <1>7 DEF study
  <2>2. PICK e : study(st, s) = IF Len(<<e>> \o st) > STUDYMAX
                                THEN SubSeq(<<e>> \o st, 1, STUDYMAX) ELSE <<e>> \o st
    BY <2>1
  <2> PICK new : new = <<e>> \o st
    OBVIOUS
  <2>3. new \in Seq(Range(st) \cup {e})
    BY <1>2, <1>3
  <2>4. CASE Len(new) > STUDYMAX
    <3>1. STUDYMAX \in Nat /\ Len(new) \in Nat
      BY <2>3, KouhoAssumption
    <3>2. \A i \in 1..STUDYMAX : new[i] \in Range(st) \cup {e}
      BY <2>3, <2>4, <3>1
    <3>3. 1 \in Int /\ STUDYMAX \in Int
      BY <3>1
    <3>4. SubSeq(new, 1, STUDYMAX) \in Seq(Range(st) \cup {e})
      BY ONLY <3>2, <3>3, SubSeqProperties
    <3>5. study(st, s) = SubSeq(new, 1, STUDYMAX)
      BY <2>2, <2>4
    <3> QED
      BY <3>4, <3>5, AnyList
  <2>5. CASE ~(Len(new) > STUDYMAX)
    BY <2>2, <2>3, <2>5, AnyList
  <2> QED
    BY <2>4, <2>5
<1> QED
  BY <1>5, <1>6, <1>7

----------------------------------------------------------------------------
(* The cursor *)

\* Each rank names a candidate.
Ranked(kh) ==
    /\ Len(kh) \in 1..MAXKOUHONUMBER /\ DOMAIN kh = 1..Len(kh) /\ kh # <<>>
    /\ IsPermutation(kh)

\* The first clause of its length.
Leads(an, c) ==
    c \in DOMAIN an.cl /\ \A k \in DOMAIN an.cl : k < c => an.cl[k].cllen > an.cl[c].cllen

\* The cursor is on a candidate of a block, as getrank ranked it.
CursorAt(c) ==
    /\ c \in [an : {c.an}, kh : {c.kh}, id : Nat, head : Nat, stale : BOOLEAN]
    /\ Listed(c.an) /\ Leads(c.an, c.head)
    /\ Ranked(c.kh) /\ c.id \in DOMAIN c.kh

\* There are candidates, or none.
CursorOK(c) == c.kh = <<>> \/ CursorAt(c)

\* The cursor cl2knj or a move puts on a block: its ranks number its candidates.
LEMMA BlockCursor ==
    ASSUME List(stdy), NEW an, Listed(an), NEW c, Leads(an, c), NEW last \in BOOLEAN
    PROVE  /\ CursorAt(BlockAt(an, c, last))
           /\ BlockAt(an, c, last).an = an /\ BlockAt(an, c, last).head = c
           /\ BlockAt(an, c, last).kh = BlockAt(an, c, TRUE).kh
           /\ BlockAt(an, c, last).id = IF last THEN Len(BlockAt(an, c, TRUE).kh) ELSE 1
<1> PICK kh : kh = getrank(an, mkkouho(an, c), stdy)
  OBVIOUS
<1>1. c \in DOMAIN an.cl /\ Table(stdy)
  BY ListTable DEF Leads
<1>2. Len(kh) \in 1..MAXKOUHONUMBER /\ DOMAIN kh = 1..Len(kh) /\ kh # <<>>
      /\ {kh[n].rank : n \in DOMAIN kh} = DOMAIN kh
  BY <1>1, RankedBlock
<1>3. Ranked(kh)
  BY <1>2 DEF Ranked, IsPermutation
<1> PICK b : b = BlockAt(an, c, last)
  OBVIOUS
<1>4. b = [an |-> an, kh |-> kh, id |-> IF last THEN Len(kh) ELSE 1, head |-> c,
           stale |-> FALSE]
  BY DEF BlockAt, Cursor
<1>5. BlockAt(an, c, TRUE).kh = kh
  BY DEF BlockAt, Cursor
<1>6. 1 \in DOMAIN kh /\ Len(kh) \in DOMAIN kh /\ Len(kh) \in Nat
  BY <1>2, FewCandidates
<1>7. c \in Nat
  BY <1>1 DEF Listed
<1>8. b.an = an /\ b.kh = kh /\ b.head = c /\ b.id = (IF last THEN Len(kh) ELSE 1)
  BY <1>4
<1>9. b.id \in DOMAIN kh /\ b.id \in Nat
  BY <1>6, <1>8
<1>10. b \in [an : {b.an}, kh : {b.kh}, id : Nat, head : Nat, stale : BOOLEAN]
  BY <1>4, <1>7, <1>8, <1>9
<1>11. CursorAt(b)
  BY <1>3, <1>8, <1>9, <1>10 DEF CursorAt
<1> QED
  BY <1>5, <1>8, <1>11

\* nextcl in the last candidate goes to the first one of the next length, if any.
LEMMA NextBlock ==
    ASSUME NEW c, CursorAt(c), nextrecblk(c) # 0
    PROVE  /\ Leads(c.an, nextrecblk(c))
           /\ \A d : d.an = c.an /\ d.head = nextrecblk(c) => prevrecblk(d) = c.head
<1> PICK cl : cl = c.an.cl
  OBVIOUS
<1> PICK h : h = c.head
  OBVIOUS
<1> PICK e : e = BlockFrom(c.an, c.head)
  OBVIOUS
<1> PICK n : n = Len(cl)
  OBVIOUS
<1>1. /\ n \in Nat /\ DOMAIN cl = 1..n /\ h \in 1..n
      /\ \A k \in 1..n : cl[k].cllen \in Nat
      /\ \A k, m \in 1..n : k <= m => cl[m].cllen <= cl[k].cllen
      /\ \A k \in 1..n : k < h => cl[k].cllen > cl[h].cllen
  BY DEF CursorAt, Listed, Leads
<1>2. /\ e \in h..n /\ \A k \in h..e : cl[k].cllen = cl[h].cllen
      /\ e # n => e + 1 \in DOMAIN cl /\ cl[e + 1].cllen < cl[h].cllen
  BY BlockEnds DEF CursorAt, Leads
<1>3. nextrecblk(c) = e + 1 /\ e # n
  BY DEF nextrecblk
<1>4. e + 1 \in 1..n /\ cl[e + 1].cllen < cl[h].cllen
  BY <1>1, <1>2, <1>3
<1>5. \A k \in 1..n : k < e + 1 => cl[k].cllen > cl[e + 1].cllen
  <2> SUFFICES ASSUME NEW k \in 1..n, k < e + 1 PROVE cl[k].cllen > cl[e + 1].cllen
    OBVIOUS
  <2>1. cl[k].cllen \in Nat /\ cl[h].cllen \in Nat /\ cl[e + 1].cllen \in Nat
    BY <1>1, <1>4
  <2>2. CASE k < h
    <3>1. cl[k].cllen > cl[h].cllen
      BY <1>1, <2>2
    <3> QED
      BY <1>4, <2>1, <3>1
  <2>3. CASE ~(k < h)
    <3>1. k \in h..e
      BY <1>1, <1>2, <2>3
    <3>2. cl[k].cllen = cl[h].cllen
      BY <1>2, <3>1
    <3> QED
      BY <1>4, <2>1, <3>2
  <2> QED
    BY <2>2, <2>3
<1>6. ASSUME NEW d, d.an = c.an, d.head = e + 1
      PROVE  prevrecblk(d) = h
  <2> DEFINE longer == {k \in 1..n : cl[k].cllen > cl[e + 1].cllen}
             near == {k \in longer : \A m \in longer : cl[k].cllen <= cl[m].cllen}
  <2>1. prevrecblk(d) = IF longer = {} THEN 0 ELSE CHOOSE k \in near : \A m \in near : k <= m
    <3>1. d.an.cl = cl /\ ClLen(d) = cl[e + 1].cllen /\ DOMAIN cl = 1..n
      BY <1>1, <1>6 DEF ClLen
    <3> QED
      BY <3>1 DEF prevrecblk
  <2>2. h \in longer
    BY <1>1, <1>4
  <2>3. \A k \in longer : k <= e
    <3> SUFFICES ASSUME NEW k \in longer, ~(k <= e) PROVE FALSE
      OBVIOUS
    <3>1. k \in 1..n /\ cl[k].cllen > cl[e + 1].cllen /\ e + 1 <= k
      BY <1>1, <1>2
    <3>2. cl[k].cllen <= cl[e + 1].cllen /\ cl[k].cllen \in Nat /\ cl[e + 1].cllen \in Nat
      BY <1>1, <1>4, <3>1
    <3> QED
      BY <3>1, <3>2
  <2>4. \A k \in longer : cl[h].cllen <= cl[k].cllen
    <3> SUFFICES ASSUME NEW k \in longer PROVE cl[h].cllen <= cl[k].cllen
      OBVIOUS
    <3>0. k \in 1..n /\ k <= e /\ cl[k].cllen \in Nat /\ cl[h].cllen \in Nat
      BY <1>1, <2>3
    <3>1. CASE k < h
      BY <1>1, <3>0, <3>1
    <3>2. CASE ~(k < h)
      <4>1. k \in h..e
        BY <1>1, <1>2, <3>0, <3>2
      <4> QED
        BY <1>2, <3>0, <4>1
    <3> QED
      BY <3>1, <3>2
  <2>5. h \in near
    BY <2>2, <2>4
  <2>6. \A k \in near : h <= k
    <3> SUFFICES ASSUME NEW k \in near, ~(h <= k) PROVE FALSE
      OBVIOUS
    <3>1. k \in 1..n /\ k < h /\ cl[k].cllen <= cl[h].cllen
      BY <1>1, <2>2
    <3>2. cl[k].cllen > cl[h].cllen /\ cl[k].cllen \in Nat /\ cl[h].cllen \in Nat
      BY <1>1, <3>1
    <3> QED
      BY <3>1, <3>2
  <2>7. near \subseteq 1..n
    OBVIOUS
  <2> HIDE DEF near, longer
  <2>8. (CHOOSE k \in near : \A m \in near : k <= m) = h
    <3> DEFINE x == CHOOSE k \in near : \A m \in near : k <= m
    <3>1. x \in near /\ \A m \in near : x <= m
      BY <2>5, <2>6
    <3> HIDE DEF x
    <3>2. x <= h /\ h <= x /\ x \in Nat /\ h \in Nat
      BY <1>1, <2>5, <2>6, <2>7, <3>1
    <3>3. x = h
      BY <3>2
    <3> QED
      BY <3>3 DEF x
  <2> QED
    BY <2>1, <2>2, <2>8
<1> QED
  BY <1>1, <1>3, <1>4, <1>5, <1>6 DEF Leads

\* prevcl in the first candidate goes to the last one of the length before, if any.
LEMMA PrevBlock ==
    ASSUME NEW c, CursorAt(c), prevrecblk(c) # 0
    PROVE  Leads(c.an, prevrecblk(c))
<1> PICK cl : cl = c.an.cl
  OBVIOUS
<1> PICK h : h = c.head
  OBVIOUS
<1> PICK n : n = Len(cl)
  OBVIOUS
<1>1. /\ n \in Nat /\ DOMAIN cl = 1..n /\ h \in 1..n
      /\ \A k \in 1..n : cl[k].cllen \in Nat
      /\ \A k, m \in 1..n : k <= m => cl[m].cllen <= cl[k].cllen
      /\ \A k \in 1..n : k < h => cl[k].cllen > cl[h].cllen
  BY DEF CursorAt, Listed, Leads
<1> DEFINE longer == {k \in 1..n : cl[k].cllen > cl[h].cllen}
           near == {k \in longer : \A m \in longer : cl[k].cllen <= cl[m].cllen}
           x == CHOOSE k \in near : \A m \in near : k <= m
<1>2. prevrecblk(c) = IF longer = {} THEN 0 ELSE x
  BY <1>1 DEF prevrecblk, ClLen
<1>3. longer # {} /\ prevrecblk(c) = x
  BY <1>2
<1> DEFINE L == {cl[k].cllen : k \in longer}
<1>4. L \subseteq Nat /\ L # {}
  BY <1>1, <1>3
<1> HIDE DEF L
<1>5. PICK l \in L : \A y \in L : l <= y
  BY <1>4, LeastNatural
<1>6. near # {} /\ near \subseteq Nat
  <2>1. PICK k \in longer : cl[k].cllen = l
    BY <1>5 DEF L
  <2>2. \A m \in longer : cl[m].cllen \in L
    BY DEF L
  <2>3. k \in near
    BY <1>5, <2>1, <2>2
  <2> QED
    BY <2>3
<1>7. x \in near /\ \A m \in near : x <= m
  <2> HIDE DEF near
  <2>1. \E k \in near : \A m \in near : k <= m
    BY <1>6, LeastNatural
  <2> QED
    BY <2>1
<1> HIDE DEF x
<1>8. x \in 1..n /\ cl[x].cllen > cl[h].cllen /\ \A m \in longer : cl[x].cllen <= cl[m].cllen
  BY <1>7
<1>9. \A k \in 1..n : k < x => cl[k].cllen > cl[x].cllen
  <2> SUFFICES ASSUME NEW k \in 1..n, k < x, ~(cl[k].cllen > cl[x].cllen) PROVE FALSE
    OBVIOUS
  <2>1. cl[k].cllen \in Nat /\ cl[x].cllen \in Nat /\ cl[x].cllen <= cl[k].cllen /\ cl[h].cllen \in Nat
    BY <1>1, <1>8
  <2>2. cl[k].cllen = cl[x].cllen
    BY <2>1
  <2>3. k \in near
    BY <1>8, <2>2
  <2>4. x <= k
    BY <1>7, <2>3
  <2> QED
    BY <1>8, <2>4
<1> QED
  BY <1>1, <1>3, <1>8, <1>9 DEF Leads

\* The cursor on another candidate of its block.
LEMMA OtherId ==
    ASSUME NEW c, CursorAt(c), NEW id \in DOMAIN c.kh
    PROVE  /\ CursorAt([c EXCEPT !.id = id])
           /\ [c EXCEPT !.id = id].an = c.an /\ [c EXCEPT !.id = id].head = c.head
           /\ [c EXCEPT !.id = id].kh = c.kh /\ [c EXCEPT !.id = id].id = id
           /\ [[c EXCEPT !.id = id] EXCEPT !.id = c.id] = c
<1>1. c \in [an : {c.an}, kh : {c.kh}, id : Nat, head : Nat, stale : BOOLEAN]
      /\ DOMAIN c.kh = 1..Len(c.kh) /\ Len(c.kh) \in Nat
  BY FewCandidates DEF CursorAt, Ranked
<1> PICK an, kh : an = c.an /\ kh = c.kh
  OBVIOUS
<1> PICK d : d = [c EXCEPT !.id = id]
  OBVIOUS
<1>2. id \in Nat
  BY <1>1
<1>3. d.an = an /\ d.kh = kh /\ d.head = c.head /\ d.id = id
  BY <1>1
<1>4. d \in [an : {an}, kh : {kh}, id : Nat, head : Nat, stale : BOOLEAN]
  BY <1>1, <1>2
<1>5. [d EXCEPT !.id = c.id] = c
  BY <1>1
<1>6. CursorAt(d)
  BY <1>3, <1>4 DEF CursorAt
<1> QED
  BY <1>3, <1>5, <1>6

\* A move puts the cursor on a block, or on another candidate of the same one.
LEMMA MovedOn ==
    ASSUME List(stdy), NEW c, CursorOK(c), NEW mode
    PROVE  CursorOK(nextcl(c, mode).cur) /\ CursorOK(prevcl(c, mode).cur)
<1>1. CASE c.kh = <<>>
  BY <1>1 DEF nextcl, prevcl, Moved, CursorOK
<1>2. CASE c.kh # <<>>
  <2>1. CursorAt(c)
    BY <1>2 DEF CursorOK
  <2>2. /\ c.id \in 1..Len(c.kh) /\ Len(c.kh) \in Nat /\ DOMAIN c.kh = 1..Len(c.kh)
        /\ Listed(c.an)
    BY <2>1, FewCandidates DEF CursorAt, Ranked
  <2>3. c.id < Len(c.kh) => CursorAt([c EXCEPT !.id = c.id + 1])
    <3>1. c.id < Len(c.kh) => c.id + 1 \in DOMAIN c.kh
      BY <2>2
    <3> QED
      BY <2>1, <3>1, OtherId
  <2>4. c.id > 1 => CursorAt([c EXCEPT !.id = c.id - 1])
    <3>1. c.id > 1 => c.id - 1 \in DOMAIN c.kh
      BY <2>2
    <3> QED
      BY <2>1, <3>1, OtherId
  <2>5. nextrecblk(c) # 0 => CursorAt(BlockAt(c.an, nextrecblk(c), FALSE))
    BY <2>1, <2>2, NextBlock, BlockCursor
  <2>6. prevrecblk(c) # 0 => CursorAt(BlockAt(c.an, prevrecblk(c), TRUE))
    BY <2>1, <2>2, PrevBlock, BlockCursor
  <2>7. nextcl(c, mode).cur \in {c, [c EXCEPT !.id = c.id + 1],
                                 BlockAt(c.an, nextrecblk(c), FALSE)}
        /\ (nextcl(c, mode).cur = c \/ CursorAt(nextcl(c, mode).cur))
    BY <1>2, <2>3, <2>5 DEF nextcl, Moved
  <2>8. prevcl(c, mode).cur = c \/ CursorAt(prevcl(c, mode).cur)
    BY <1>2, <2>4, <2>6 DEF prevcl, Moved
  <2> QED
    BY <2>1, <2>7, <2>8 DEF CursorOK
<1> QED
  BY <1>1, <1>2

\* A move is one, to where it says.
LEMMA MovedTo ==
    ASSUME NEW c, NEW d, NEW a, NEW b, Moved(c, a) = Moved(d, b)
    PROVE  c = d
<1>1. Moved(c, a).cur = Moved(d, b).cur
  OBVIOUS
<1> QED
  BY <1>1 DEF Moved

\* The cursor a move is to.
LEMMA MovedCur ==
    ASSUME NEW c, NEW a
    PROVE  Moved(c, a).cur = c
BY DEF Moved

\* And whether it is one.
LEMMA MovedOrNot ==
    ASSUME NEW c, NEW d, Moved(c, FALSE) = Moved(d, TRUE)
    PROVE  FALSE
<1>1. Moved(c, FALSE).ok = Moved(d, TRUE).ok
  OBVIOUS
<1>2. Moved(c, FALSE).ok = FALSE
  BY Zenon DEF Moved
<1>3. Moved(d, TRUE).ok = TRUE
  BY Zenon DEF Moved
<1> QED
  BY ONLY <1>1, <1>2, <1>3, Zenon

\* What nextcl gives when it moves.
LEMMA NextMoves ==
    ASSUME NEW c, c.kh # <<>>
    PROVE  \/ nextcl(c, 0) = Moved(c, FALSE)
           \/ c.id < Len(c.kh) /\ nextcl(c, 0) = Moved([c EXCEPT !.id = c.id + 1], TRUE)
           \/ /\ ~(c.id < Len(c.kh)) /\ nextrecblk(c) # 0
              /\ nextcl(c, 0) = Moved(BlockAt(c.an, nextrecblk(c), FALSE), TRUE)
BY DEF nextcl

\* And prevcl.
LEMMA PrevMoves ==
    ASSUME NEW c, c.kh # <<>>
    PROVE  /\ c.id > 1 => prevcl(c, 0) = Moved([c EXCEPT !.id = c.id - 1], TRUE)
           /\ ~(c.id > 1) /\ prevrecblk(c) # 0 =>
                  prevcl(c, 0) = Moved(BlockAt(c.an, prevrecblk(c), TRUE), TRUE)
<1>1. 0 < 2
  OBVIOUS
<1>2. ASSUME c.id > 1 PROVE prevcl(c, 0) = Moved([c EXCEPT !.id = c.id - 1], TRUE)
  BY <1>2, Zenon DEF prevcl
<1>3. ASSUME ~(c.id > 1), prevrecblk(c) # 0
      PROVE  prevcl(c, 0) = Moved(BlockAt(c.an, prevrecblk(c), TRUE), TRUE)
  BY <1>1, <1>3, Zenon DEF prevcl
<1> QED
  BY <1>2, <1>3

\* prevcl goes back where nextcl came from, or to the last candidate of the block
\* as it is ranked now.
LEMMA NextThenPrev ==
    ASSUME List(stdy), NEW c, CursorAt(c), NEW d, nextcl(c, 0) = Moved(d, TRUE)
    PROVE  \/ prevcl(d, 0).cur = c
           \/ c.id = Len(c.kh) /\ prevcl(d, 0).cur = BlockAt(c.an, c.head, TRUE)
<1>1. /\ c.id \in 1..Len(c.kh) /\ Len(c.kh) \in Nat /\ DOMAIN c.kh = 1..Len(c.kh)
      /\ c.kh # <<>> /\ Listed(c.an) /\ Leads(c.an, c.head)
  BY FewCandidates DEF CursorAt, Ranked
<1>2. CASE c.id < Len(c.kh)
  <2>1. d = [c EXCEPT !.id = c.id + 1]
    BY <1>1, <1>2, NextMoves, MovedTo, MovedOrNot
  <2>2. c.id + 1 \in DOMAIN c.kh
    BY <1>1, <1>2
  <2>3. d.kh = c.kh /\ d.id = c.id + 1 /\ [d EXCEPT !.id = c.id] = c
    BY <2>1, <2>2, OtherId
  <2>4. d.id > 1 /\ d.id - 1 = c.id /\ d.kh # <<>>
    BY <1>1, <2>3
  <2>5. prevcl(d, 0) = Moved([d EXCEPT !.id = d.id - 1], TRUE)
    BY <2>4, PrevMoves
  <2>6. prevcl(d, 0).cur = [d EXCEPT !.id = d.id - 1]
    BY <2>5 DEF Moved
  <2> QED
    BY <2>3, <2>4, <2>6
<1>3. CASE ~(c.id < Len(c.kh))
  <2>1. c.id = Len(c.kh)
    BY <1>1, <1>3
  <2> PICK b : b = nextrecblk(c)
    OBVIOUS
  <2>2. b # 0 /\ d = BlockAt(c.an, b, FALSE)
    BY <1>1, <1>3, NextMoves, MovedTo, MovedOrNot
  <2>3. Leads(c.an, b) /\ \A x : x.an = c.an /\ x.head = b => prevrecblk(x) = c.head
    BY <2>2, NextBlock
  <2>4. CursorAt(d) /\ d.an = c.an /\ d.head = b /\ d.id = 1
    <3>1. CursorAt(BlockAt(c.an, b, FALSE))
      BY <1>1, <2>3, BlockCursor
    <3>2. /\ BlockAt(c.an, b, FALSE).an = c.an /\ BlockAt(c.an, b, FALSE).head = b
          /\ BlockAt(c.an, b, FALSE).id = 1
      BY DEF BlockAt, Cursor
    <3> QED
      BY <2>2, <3>1, <3>2
  <2>5. prevrecblk(d) = c.head /\ d.kh # <<>> /\ c.head # 0
    <3>1. prevrecblk(d) = c.head
      BY <2>3, <2>4
    <3>2. d.kh # <<>>
      BY <2>4 DEF CursorAt, Ranked
    <3>3. c.head # 0
      BY <1>1 DEF Leads, Listed
    <3> QED
      BY <3>1, <3>2, <3>3
  <2>6. prevcl(d, 0).cur = BlockAt(c.an, c.head, TRUE)
    <3>1. ~(d.id > 1)
      BY <2>4
    <3>2. prevcl(d, 0) = Moved(BlockAt(d.an, prevrecblk(d), TRUE), TRUE)
      BY <2>5, <3>1, PrevMoves
    <3>3. prevcl(d, 0) = Moved(BlockAt(c.an, c.head, TRUE), TRUE)
      BY <2>4, <2>5, <3>2
    <3> QED
      BY <3>3, MovedCur
  <2> QED
    BY <2>1, <2>6
<1> QED
  BY <1>2, <1>3

\* prevcl takes back what nextcl did.
LEMMA ThereAndBack ==
    ASSUME List(stdy), NEW c, CursorAt(c), NEW d, nextcl(c, 0) = Moved(d, TRUE),
           c = BlockAt(c.an, c.head, c.id # 1)
    PROVE  prevcl(d, 0).cur = c
<1> PICK kh : kh = getrank(c.an, mkkouho(c.an, c.head), stdy)
  OBVIOUS
<1>1. c = Cursor(c.an, c.head, kh, IF c.id # 1 THEN Len(kh) ELSE 1)
  BY DEF BlockAt
<1>2. c.kh = kh
  BY ONLY <1>1 DEF Cursor
<1>3. BlockAt(c.an, c.head, TRUE) = Cursor(c.an, c.head, kh, Len(kh))
  BY DEF BlockAt
<1>4. ASSUME c.id = Len(c.kh) PROVE BlockAt(c.an, c.head, TRUE) = c
  <2>1. (IF c.id # 1 THEN Len(kh) ELSE 1) = Len(kh)
    BY ONLY <1>2, <1>4
  <2> QED
    BY ONLY <1>1, <1>3, <2>1
<1> QED
  BY <1>4, NextThenPrev

\* The candidates' requests are for texts that are not empty, and have listed
\* clauses.
AnalysesListed == \A t \in Piece : Listed(ClAnalysis[t])

\* The candidates are asked for without learned clauses: what is listed has a
\* spelling in the dictionaries (cl2knj.c).
LEMMA AnalysesAreListed == AnalysesListed
<1> SUFFICES ASSUME NEW t \in Piece PROVE Listed(ClAnalysis[t])
  BY DEF AnalysesListed
<1>1. t \in Seq(Nat) /\ t # <<>>
  BY PieceTexts
<1> PICK u : u = IF Len(t) > MAXCLINPUTLEN THEN SubSeq(t, 1, MAXCLINPUTLEN) ELSE t
  OBVIOUS
<1>2. u \in Seq(Nat) /\ u # <<>>
  <2> PICK n \in Nat : n = Len(t) /\ DOMAIN t = 1..n
    BY <1>1, LenProperties
  <2> PICK m : m = MAXCLINPUTLEN
    OBVIOUS
  <2>1. m \in Nat \ {0}
    BY GrammarAssumption
  <2>2. ASSUME n > m PROVE SubSeq(t, 1, m) \in Seq(Nat) /\ SubSeq(t, 1, m) # <<>>
    <3> PICK s : s = SubSeq(t, 1, m)
      OBVIOUS
    <3>1. 1 \in Int /\ m \in Int /\ 1 <= m /\ m - 1 + 1 # 0
      BY ONLY <2>1
    <3>2. ASSUME NEW k \in 1..m PROVE t[k] \in Nat
      <4>1. k \in 1..n
        BY ONLY <2>1, <2>2, k \in 1..m, n \in Nat
      <4> QED
        BY ONLY <1>1, <4>1, DOMAIN t = 1..n, ElementOf
    <3>3. s \in Seq(Nat) /\ Len(s) = IF 1 <= m THEN m - 1 + 1 ELSE 0
      BY ONLY <1>1, <3>1, <3>2, s = SubSeq(t, 1, m), SubSeqProperties
    <3>4. s # <<>>
      BY ONLY <3>1, <3>3, EmptySeq
    <3> QED
      BY <3>3, <3>4
  <2> QED
    BY <1>1, <2>2
<1>3. ClAnalysis[t] = Analyse(u, {})
  BY DEF ClAnalysis
<1> PICK an : an = Analyse(u, {})
  OBVIOUS
<1>4. FALSE = ("clstudy" \in {}) /\ FALSE \in BOOLEAN /\ Len(u) \in Nat
  BY <1>2, LenProperties
<1>5. Found(an, Len(u), FALSE)
  BY <1>2, <1>4, AnalysisFound
<1>6. /\ Len(an.cl) \in Nat \ {0} /\ DOMAIN an.cl = 1..Len(an.cl)
      /\ \A c \in DOMAIN an.cl :
            /\ an.cl[c].cllen \in 1..Len(u) /\ Named(Jnode(an, c))
            /\ Jnode(an, c).class = "bunsetu" => FALSE
            /\ \A d \in DOMAIN an.cl : c <= d => an.cl[d].cllen <= an.cl[c].cllen
  BY <1>4, <1>5, FoundClauses
<1>7. \A c \in DOMAIN an.cl : an.cl[c].cllen \in Nat
  BY <1>6
<1>8. Listed(an)
  BY ONLY <1>6, <1>7 DEF Listed
<1> QED
  BY <1>3, <1>8

\* Where what was put out ends.
EndOf(o) == IF o = <<>> THEN 0 ELSE o[Len(o)].start + o[Len(o)].len
Working == pc \in Round \cup {"start"}

\* What was put out, clause by clause, and how far the phrase is.
PutOut ==
    /\ List(out)
    /\ \A i \in DOMAIN out :
          /\ {"start", "len"} \subseteq DOMAIN out[i]
          /\ out[i].start \in Nat /\ out[i].len \in 1..MAXCLINPUTLEN
          /\ out[i].start = IF i = 1 THEN 0 ELSE out[i - 1].start + out[i - 1].len
          /\ out[i].start + out[i].len <= Len(text)
    /\ out # <<>> => text \in Texts
    /\ Working => pos <= Len(text) /\ (room # 0 => pos = EndOf(out))
    /\ ~Working /\ out # <<>> /\ room # 0 => EndOf(out) = Len(text)

\* Nothing is out: so it is when a request begins.
LEMMA NothingOut ==
    ASSUME out' = <<>>, Working' => pos' <= Len(text') /\ pos' = 0
    PROVE  PutOut'
<1>1. List(<<>>)
  <2>1. <<>> \in Seq({})
    BY EmptySeq
  <2> QED
    BY <2>1, AnyList
<1>2. List(out)'
  BY <1>1 DEF List
<1>3. DOMAIN out' = {}
  OBVIOUS
<1> QED
  BY <1>2, <1>3 DEF PutOut, EndOf

\* A step that keeps to the clauses that are out, and to the place.
LEMMA OutStays ==
    ASSUME PutOut, UNCHANGED <<out, text, pos, room>>, Working' <=> Working
    PROVE  PutOut'
<1> PICK w \in BOOLEAN : w <=> Working
  OBVIOUS
<1>1. w <=> Working'
  OBVIOUS
<1> HIDE DEF Working
<1>2. /\ List(out') /\ (out' # <<>> => text' \in Texts)
      /\ \A i \in DOMAIN out' :
          /\ {"start", "len"} \subseteq DOMAIN out'[i]
          /\ out'[i].start \in Nat /\ out'[i].len \in 1..MAXCLINPUTLEN
          /\ out'[i].start = IF i = 1 THEN 0 ELSE out'[i - 1].start + out'[i - 1].len
          /\ out'[i].start + out'[i].len <= Len(text')
      /\ w => pos' <= Len(text') /\ (room' # 0 => pos' = EndOf(out'))
      /\ ~w /\ out' # <<>> /\ room' # 0 => EndOf(out') = Len(text')
  BY DEF PutOut
<1> QED
  BY <1>1, <1>2 DEF PutOut

\* The phrase is done.
LEMMA EndOut ==
    ASSUME Inv, PutOut, ph_end
    PROVE  PutOut'
<1>1. pc = "start" /\ pc' = "conv" /\ (pos >= Len(text) \/ room = 0)
      /\ UNCHANGED <<out, text, pos, room>>
  BY DEF ph_end
<1>2. Working /\ ~Working'
  BY <1>1 DEF Working, Round
<1>3. text \in Texts /\ Len(text) \in Nat /\ pos \in Nat
  BY <1>1, RequestAssumption DEF Inv, TypeOK
<1>4. room # 0 => EndOf(out) = Len(text)
  BY <1>1, <1>2, <1>3 DEF PutOut
<1> HIDE DEF Working
<1>5. /\ List(out') /\ (out' # <<>> => text' \in Texts)
      /\ \A i \in DOMAIN out' :
          /\ {"start", "len"} \subseteq DOMAIN out'[i]
          /\ out'[i].start \in Nat /\ out'[i].len \in 1..MAXCLINPUTLEN
          /\ out'[i].start = IF i = 1 THEN 0 ELSE out'[i - 1].start + out'[i - 1].len
          /\ out'[i].start + out'[i].len <= Len(text')
      /\ room' # 0 => EndOf(out') = Len(text')
  BY <1>1, <1>4 DEF PutOut
<1> QED
  BY <1>2, <1>5 DEF PutOut

\* One more clause behind those that are out.
LEMMA OneMore ==
    ASSUME List(out), NEW r, NEW new, new = Append(out, r)
    PROVE  /\ List(new) /\ Len(new) = Len(out) + 1 /\ DOMAIN new = 1..(Len(out) + 1)
           /\ Len(out) \in Nat /\ DOMAIN out = 1..Len(out) /\ new # <<>>
           /\ new[Len(out) + 1] = r /\ \A i \in 1..Len(out) : new[i] = out[i]
<1>1. out \in Seq(Range(out) \cup {r}) /\ Len(out) \in Nat /\ DOMAIN out = 1..Len(out)
  BY AnyList DEF List
<1>2. new \in Seq(Range(out) \cup {r}) /\ Len(new) = Len(out) + 1
  BY <1>1
<1>3. new[Len(out) + 1] = r /\ \A i \in 1..Len(out) : new[i] = out[i]
  BY <1>1
<1>4. new # <<>>
  BY <1>1, <1>2
<1> QED
  BY <1>1, <1>2, <1>3, <1>4, AnyList

\* ph_cvtphknj puts out the clause that was selected, right behind the others.
LEMMA cvtphknjOut ==
    ASSUME Inv, PutOut, ph_cvtphknj
    PROVE  PutOut'
<1>1. pc = "cvtphknj" /\ pc' = "start" /\ text' = text
      /\ pos' = pos + Cl[selcl].cllen
  BY DEF ph_cvtphknj, Done
<1>2. TypeOK /\ Selected /\ ListAt(first, pos)
  BY <1>1 DEF Inv, Round
<1>3. text \in Texts /\ Len(text) \in Nat /\ pos \in Nat /\ room \in Nat
  BY <1>1, <1>2, RequestAssumption DEF TypeOK, Round
<1> PICK len : len = Cl[selcl].cllen
  OBVIOUS
<1>4. len \in 1..(Len(text) - pos) /\ len <= MAXCLINPUTLEN /\ len \in Nat
  BY <1>2, <1>3 DEF Selected, ListAt, Sound, Cl
<1>5. len \in 1..MAXCLINPUTLEN
  BY <1>4, GrammarAssumption
<1>6. Working /\ Working'
  BY <1>1 DEF Working, Round
<1>7. pos' \in Nat /\ pos' = pos + len /\ pos' <= Len(text')
  BY <1>1, <1>3, <1>4
<1>8. CASE ~Fits(room)
  <2>1. out' = out /\ room' = 0
    BY <1>8 DEF ph_cvtphknj
  <2> HIDE DEF Working
  <2> QED
    BY <1>1, <1>6, <1>7, <2>1 DEF PutOut
<1>9. CASE Fits(room)
  <2>1. \E k : out' = Append(out, [start |-> pos, len |-> Cl[selcl].cllen, cand |-> k,
                                   kh |-> <<k>>, an |-> batch[first].an, as |-> "kanji"])
    BY <1>9 DEF ph_cvtphknj
  <2>2. PICK k : out' = Append(out, [start |-> pos, len |-> Cl[selcl].cllen, cand |-> k,
                                   kh |-> <<k>>, an |-> batch[first].an, as |-> "kanji"])
    BY <2>1
  <2> PICK r : r = [start |-> pos, len |-> Cl[selcl].cllen, cand |-> k,
                                   kh |-> <<k>>, an |-> batch[first].an, as |-> "kanji"]
    OBVIOUS
  <2>3. {"start", "len"} \subseteq DOMAIN r /\ r.start = pos /\ r.len = len
    OBVIOUS
  <2>4. List(out)
    BY DEF PutOut
  <2>5. /\ List(out') /\ Len(out') = Len(out) + 1 /\ DOMAIN out' = 1..(Len(out) + 1)
        /\ Len(out) \in Nat /\ DOMAIN out = 1..Len(out) /\ out' # <<>>
        /\ out'[Len(out) + 1] = r /\ \A i \in 1..Len(out) : out'[i] = out[i]
    <3> PICK new : new = out'
      OBVIOUS
    <3>1. new = Append(out, r)
      BY <2>2
    <3>2. /\ List(new) /\ Len(new) = Len(out) + 1 /\ DOMAIN new = 1..(Len(out) + 1)
          /\ Len(out) \in Nat /\ DOMAIN out = 1..Len(out) /\ new # <<>>
          /\ new[Len(out) + 1] = r /\ \A i \in 1..Len(out) : new[i] = out[i]
      BY ONLY <2>4, <3>1, OneMore
    <3> QED
      BY <3>2
  <2> PICK n \in Nat : n = Len(out)
    BY <2>5
  <2>6. room # 0
    BY <1>9 DEF Fits
  <2>7. pos = EndOf(out)
    BY <1>6, <2>6 DEF PutOut
  <2>8. pos = IF n + 1 = 1 THEN 0 ELSE out[n].start + out[n].len
    <3>1. n = 0 => out = <<>>
      BY <2>5
    <3>2. n # 0 => out # <<>>
      BY <2>5
    <3> QED
      BY <2>7, <3>1, <3>2 DEF EndOf
  <2>9. \A i \in 1..n :
          /\ {"start", "len"} \subseteq DOMAIN out[i]
          /\ out[i].start \in Nat /\ out[i].len \in 1..MAXCLINPUTLEN
          /\ out[i].start = IF i = 1 THEN 0 ELSE out[i - 1].start + out[i - 1].len
          /\ out[i].start + out[i].len <= Len(text)
    BY <2>5 DEF PutOut
  <2>10. ASSUME NEW i \in 1..(n + 1)
         PROVE  /\ {"start", "len"} \subseteq DOMAIN out'[i]
                /\ out'[i].start \in Nat /\ out'[i].len \in 1..MAXCLINPUTLEN
                /\ out'[i].start = IF i = 1 THEN 0 ELSE out'[i - 1].start + out'[i - 1].len
                /\ out'[i].start + out'[i].len <= Len(text)
    <3>1. CASE i = n + 1
      <4>1. out'[i] = r
        BY <2>5, <3>1
      <4>2. i # 1 => out'[i - 1] = out[n]
        <5>1. i # 1 => n \in 1..n /\ i - 1 = n
          BY <3>1
        <5> QED
          BY <2>5, <5>1
      <4>3. pos = IF i = 1 THEN 0 ELSE out'[i - 1].start + out'[i - 1].len
        BY <2>8, <3>1, <4>2
      <4>4. pos + len <= Len(text)
        BY <1>3, <1>4
      <4> QED
        BY <1>3, <1>5, <2>3, <4>1, <4>3, <4>4
    <3>2. CASE i # n + 1
      <4>1. i \in 1..n /\ (i # 1 => i - 1 \in 1..n)
        BY <3>2
      <4>2. out'[i] = out[i] /\ (i # 1 => out'[i - 1] = out[i - 1])
        BY <2>5, <4>1
      <4> QED
        BY <2>9, <4>1, <4>2
    <3> QED
      BY <3>1, <3>2
  <2>11. EndOf(out') = pos'
    BY <1>7, <2>3, <2>5 DEF EndOf
  <2> HIDE DEF Working
  <2> QED
    BY <1>1, <1>3, <1>6, <1>7, <2>5, <2>10, <2>11 DEF PutOut
<1> QED
  BY <1>8, <1>9

\* The reply of a phrase, with what is left of the text.
LEMMA replyOut ==
    ASSUME PutOut, job_reply
    PROVE  PutOut'
<1>1. pc = "job" /\ pc' \in {"conv", "idle"} /\ UNCHANGED <<text, pos, room>>
  BY DEF job_reply
<1>2. \/ out' = out
      \/ \E i, v : out' = [out EXCEPT ![i].as = v]
  BY DEF job_reply
<1>3. ~Working /\ ~Working'
  BY <1>1 DEF Working, Round
<1>4. CASE out' = out
  BY <1>1, <1>3, <1>4, OutStays
<1>5. CASE \E x, v : out' = [out EXCEPT ![x].as = v]
  <2> PICK x, v : out' = [out EXCEPT ![x].as = v]
    BY <1>5
  <2>1. out \in Seq(Range(out)) /\ Len(out) \in Nat /\ DOMAIN out = 1..Len(out)
    BY AnyList DEF PutOut, List
  <2> PICK n \in Nat : n = Len(out)
    BY <2>1
  <2>2. out' = [i \in 1..n |-> IF i = x THEN [out[i] EXCEPT !.as = v] ELSE out[i]]
    BY <2>1
  <2>3. DOMAIN out' = 1..n /\ \A i \in 1..n :
           out'[i] = IF i = x THEN [out[i] EXCEPT !.as = v] ELSE out[i]
    BY <2>2
  <2>4. \A i \in 1..n : {"start", "len"} \subseteq DOMAIN out[i]
    BY <2>1 DEF PutOut
  <2>5. ASSUME NEW i \in 1..n
        PROVE  /\ {"start", "len"} \subseteq DOMAIN out'[i]
               /\ out'[i].start = out[i].start /\ out'[i].len = out[i].len
    <3>1. CASE i = x
      <4>1. out'[i] = [out[i] EXCEPT !.as = v]
        BY <2>3, <3>1
      <4> PICK o : o = out[i]
        OBVIOUS
      <4>2. {"start", "len"} \subseteq DOMAIN o
        BY <2>4
      <4>3. /\ {"start", "len"} \subseteq DOMAIN [o EXCEPT !.as = v]
            /\ [o EXCEPT !.as = v].start = o.start /\ [o EXCEPT !.as = v].len = o.len
        BY ONLY <4>2
      <4> QED
        BY <4>1, <4>3
    <3>2. CASE i # x
      BY <2>3, <2>4, <3>2
    <3> QED
      BY <3>1, <3>2
  <2>6. List(out') /\ Len(out') = n
    <3>1. out' \in [1..n -> Range(out')]
      BY <2>2, <2>3 DEF Range
    <3>2. out' \in Seq(Range(out'))
      <4> PICK new, S : new = out' /\ S = Range(out')
        OBVIOUS
      <4>1. new \in [1..n -> S]
        BY <3>1
      <4>2. new \in Seq(S)
        BY ONLY <4>1, n \in Nat
      <4> QED
        BY <4>2
    <3>3. Len(out') = n
      BY <2>3, <3>2
    <3> QED
      BY <3>2, <3>3 DEF List
  <2>7. \A i \in 1..n :
          /\ {"start", "len"} \subseteq DOMAIN out'[i]
          /\ out'[i].start \in Nat /\ out'[i].len \in 1..MAXCLINPUTLEN
          /\ out'[i].start = IF i = 1 THEN 0 ELSE out'[i - 1].start + out'[i - 1].len
          /\ out'[i].start + out'[i].len <= Len(text)
    <3> SUFFICES ASSUME NEW i \in 1..n
                 PROVE  /\ {"start", "len"} \subseteq DOMAIN out'[i]
                        /\ out'[i].start \in Nat /\ out'[i].len \in 1..MAXCLINPUTLEN
                        /\ out'[i].start = IF i = 1 THEN 0
                                           ELSE out'[i - 1].start + out'[i - 1].len
                        /\ out'[i].start + out'[i].len <= Len(text)
      OBVIOUS
    <3>1. /\ out[i].start \in Nat /\ out[i].len \in 1..MAXCLINPUTLEN
          /\ out[i].start = IF i = 1 THEN 0 ELSE out[i - 1].start + out[i - 1].len
          /\ out[i].start + out[i].len <= Len(text)
      BY <2>1 DEF PutOut
    <3>2. i # 1 => i - 1 \in 1..n
      OBVIOUS
    <3>3. i # 1 => out'[i - 1].start = out[i - 1].start /\ out'[i - 1].len = out[i - 1].len
      BY <2>5, <3>2
    <3> QED
      BY <2>5, <3>1, <3>3
  <2>8. (out = <<>> <=> n = 0) /\ (out' = <<>> <=> n = 0)
    BY <2>1, <2>3, <2>6
  <2>9. EndOf(out') = EndOf(out)
    <3>1. n # 0 => n \in 1..n
      OBVIOUS
    <3> QED
      BY <2>5, <2>6, <2>8, <3>1 DEF EndOf
  <2> HIDE DEF Working
  <2> QED
    BY <1>1, <1>3, <2>3, <2>6, <2>7, <2>8, <2>9 DEF PutOut
<1> QED
  BY <1>2, <1>4, <1>5

\* Every step keeps to it.
LEMMA NextOut ==
    ASSUME Inv, PutOut, [Next]_vars
    PROVE  PutOut'
<1>1. CASE \/ \E t \in Texts, r \in Rooms : ph2knj(t, r)
           \/ \E t \in Texts, what \in {"cl2knj", "all", "cnt"} : exec_cl2knj(what, t)
           \/ \E what \in {"cl2knj", "all", "cnt"} : exec_cl2knj_empty(what)
           \/ ph_redo
  <2>1. CASE Corrupt
    <3>1. pc \in {"idle", "conv"} /\ pc' = "corrupt" /\ UNCHANGED <<out, text, pos, room>>
      BY <1>1, <2>1 DEF ph2knj, exec_cl2knj, exec_cl2knj_empty, ph_redo, Corrupt
    <3> QED
      BY <3>1, OutStays DEF Working, Round
  <2>2. CASE ~Corrupt
    <3>1. CASE \E t \in Texts, r \in Rooms : ph2knj(t, r)
      <4> PICK t \in Texts, r \in Rooms : ph2knj(t, r)
        BY <3>1
      <4>1. out' = <<>> /\ text' = t /\ pos' = 0
        BY <2>2 DEF ph2knj
      <4>2. pos' <= Len(text')
        BY <4>1, RequestAssumption
      <4> QED
        BY <4>1, <4>2, NothingOut
    <3>2. CASE \/ \E t \in Texts, what \in {"cl2knj", "all", "cnt"} : exec_cl2knj(what, t)
               \/ \E what \in {"cl2knj", "all", "cnt"} : exec_cl2knj_empty(what)
      <4>1. out' = <<>> /\ pc' \in {"idle", "job"}
        BY <2>2, <3>2 DEF exec_cl2knj, exec_cl2knj_empty
      <4> QED
        BY <4>1, NothingOut DEF Working, Round
    <3>3. CASE ph_redo
      <4>1. pc = "conv" /\ pc' = "job" /\ UNCHANGED <<out, text, pos, room>>
        BY <2>2, <3>3 DEF ph_redo
      <4> QED
        BY <4>1, OutStays DEF Working, Round
    <3> QED
      BY <1>1, <3>1, <3>2, <3>3
  <2> QED
    BY <2>1, <2>2
<1>2. CASE \/ ph_mkbunsetu \/ mk2claus_tiny \/ mk2claus_begin \/ mk2claus_try
           \/ mk2claus_end \/ selclrec
  <2>1. /\ pc \in Round \cup {"start"} /\ pc' \in Round /\ UNCHANGED <<out, text, pos, room>>
    BY <1>2 DEF ph_mkbunsetu, mk2claus_tiny, mk2claus_begin, mk2claus_try, mk2claus_end,
                selclrec, Round
  <2>2. Working /\ Working'
    BY <2>1 DEF Working
  <2> QED
    BY <2>1, <2>2, OutStays
<1>3. CASE \/ \E dir \in {"next", "prev"}, mode \in 0..2 : exec_nextcl(dir, mode)
           \/ job_step \/ ph_reply \/ (\E s \in Known : exec_study(s))
  <2>1. pc \in {"idle", "job", "conv"} /\ pc' \in {"idle", "job"}
        /\ UNCHANGED <<out, text, pos, room>>
    BY <1>3 DEF exec_nextcl, job_step, ph_reply, exec_study, phVars
  <2> QED
    BY <2>1, OutStays DEF Working, Round
<1>4. CASE UNCHANGED vars
  <2>1. UNCHANGED <<pc, out, text, pos, room>>
    BY <1>4 DEF vars, phVars
  <2> QED
    BY <2>1, OutStays DEF Working
<1> QED
  BY <1>1, <1>2, <1>3, <1>4, EndOut, cvtphknjOut, replyOut DEF Next

----------------------------------------------------------------------------
(* The cursor of a session *)

\* What is asked for is a piece of some text: all of it,
LEMMA WholeText ==
    ASSUME NEW t \in Texts, t # <<>>
    PROVE  t \in Piece
<1>1. t \in Seq(Nat) /\ Len(t) \in Nat \ {0}
  BY RequestAssumption, EmptySeq
<1>2. SubSeq(t, 1, Len(t)) = t
  BY <1>1, SubSeqFull
<1>3. 1 \in 1..Len(t) /\ Len(t) \in 1..Len(t)
  BY <1>1
<1>4. SubSeq(t, 1, Len(t)) \in {SubSeq(t, i, j) : i \in 1..Len(t), j \in 1..Len(t)}
  BY <1>3
<1>5. t \in PiecesOf(t)
  BY <1>2, <1>4 DEF PiecesOf
<1> QED
  BY <1>5 DEF Piece

\* or a clause that was put out.
LEMMA ClauseOut ==
    ASSUME PutOut, NEW i \in DOMAIN out
    PROVE  SubSeq(text, out[i].start + 1, out[i].start + out[i].len) \in Piece
<1>1. out # <<>>
  OBVIOUS
<1>2. text \in Texts /\ text \in Seq(Nat) /\ Len(text) \in Nat
  BY <1>1, RequestAssumption DEF PutOut
<1> PICK s, l : s = out[i].start /\ l = out[i].len
  OBVIOUS
<1>3. s \in Nat /\ l \in 1..MAXCLINPUTLEN /\ s + l <= Len(text)
  BY DEF PutOut
<1>4. l \in Nat \ {0}
  BY <1>3, GrammarAssumption
<1>5. s + 1 \in 1..Len(text) /\ s + l \in 1..Len(text)
  BY <1>2, <1>3, <1>4
<1> PICK a, b : a = s + 1 /\ b = s + l
  OBVIOUS
<1>6. a \in 1..Len(text) /\ b \in 1..Len(text) /\ a <= b /\ a \in Int /\ b \in Int
  BY <1>2, <1>3, <1>4, <1>5
<1>7. SubSeq(text, a, b) # <<>>
  <2>1. \A k \in a..b : text[k] \in Nat
    BY <1>2, <1>6
  <2>2. Len(SubSeq(text, a, b)) = b - a + 1
    BY ONLY <1>6, <2>1, SubSeqProperties
  <2>3. Len(SubSeq(text, a, b)) # 0
    BY <1>6, <2>2
  <2> QED
    BY <2>3, EmptySeq
<1>8. SubSeq(text, a, b) \in PiecesOf(text)
  <2>1. SubSeq(text, a, b) \in {SubSeq(text, i1, j1) : i1 \in 1..Len(text), j1 \in 1..Len(text)}
    BY ONLY <1>6
  <2> DEFINE All == {SubSeq(text, i1, j1) : i1 \in 1..Len(text), j1 \in 1..Len(text)}
  <2>2. PiecesOf(text) = All \ {<<>>}
    BY DEF PiecesOf
  <2> HIDE DEF All
  <2>3. SubSeq(text, a, b) \in All
    BY <2>1 DEF All
  <2> QED
    BY ONLY <1>7, <2>2, <2>3, Zenon
<1> QED
  BY <1>2, <1>8 DEF Piece

\* cl2knj puts the cursor on the first candidate of the longest clauses.
LEMMA FirstCandidate ==
    ASSUME List(stdy), NEW t \in Piece, cl2knj(t)
    PROVE  CursorOK(cur')
<1>1. cur' = BlockAt(ClAnalysis[t], 1, FALSE)
  BY DEF cl2knj
<1>2. Listed(ClAnalysis[t])
  BY AnalysesAreListed DEF AnalysesListed
<1>3. Leads(ClAnalysis[t], 1)
  BY <1>2 DEF Leads, Listed
<1>4. CursorAt(BlockAt(ClAnalysis[t], 1, FALSE))
  BY <1>2, <1>3, BlockCursor
<1> QED
  BY <1>1, <1>4 DEF CursorOK

\* The inductive invariant of the cursor.
CursorInv == List(stdy) /\ CursorOK(cur)

\* No cursor is one.
LEMMA NoCandidates == CursorOK(NoCursor) /\ CursorOK([NoCursor EXCEPT !.stale = TRUE])
BY DEF CursorOK, NoCursor

\* Every step keeps the cursor on candidates in an order.
LEMMA NextCursor ==
    ASSUME PutOut, CursorInv, [Next]_vars
    PROVE  CursorInv'
<1>0. List(stdy) /\ CursorOK(cur)
  BY DEF CursorInv
<1>1. CASE UNCHANGED <<cur, stdy>>
  BY <1>0, <1>1 DEF CursorInv
<1>2. CASE stdy' = stdy /\ cur' \in {NoCursor, [NoCursor EXCEPT !.stale = TRUE]}
  BY <1>0, <1>2, NoCandidates DEF CursorInv
<1>3. CASE stdy' = stdy /\ \E t \in Piece : cl2knj(t)
  BY <1>0, <1>3, FirstCandidate DEF CursorInv
<1>4. CASE stdy' = stdy /\ \E dir, mode : cur' = Move(dir, mode).cur
  BY <1>0, <1>4, MovedOn DEF CursorInv, Move
<1>5. CASE UNCHANGED cur /\ \E s : stdy' = study(stdy, s)
  <2>1. PICK s : stdy' = study(stdy, s)
    BY <1>5
  <2>2. List(stdy')
    BY <1>0, <2>1, StudiedList
  <2> QED
    BY <1>0, <1>5, <2>2 DEF CursorInv
<1>6. \/ UNCHANGED <<cur, stdy>>
      \/ stdy' = stdy /\ cur' \in {NoCursor, [NoCursor EXCEPT !.stale = TRUE]}
      \/ stdy' = stdy /\ \E t \in Piece : cl2knj(t)
      \/ stdy' = stdy /\ \E dir, mode : cur' = Move(dir, mode).cur
      \/ UNCHANGED cur /\ \E s : stdy' = study(stdy, s)
  <2>1. CASE \E t \in Texts, r \in Rooms : ph2knj(t, r)
    <3> PICK t \in Texts, r \in Rooms : ph2knj(t, r)
      BY <2>1
    <3>1. CASE Corrupt
      BY <3>1 DEF Corrupt
    <3>2. CASE ~Corrupt
      BY <3>2 DEF ph2knj
    <3> QED
      BY <3>1, <3>2
  <2>2. CASE \E t \in Texts, what \in {"cl2knj", "all", "cnt"} : exec_cl2knj(what, t)
    <3> PICK t \in Texts, what \in {"cl2knj", "all", "cnt"} : exec_cl2knj(what, t)
      BY <2>2
    <3>1. CASE Corrupt
      BY <3>1 DEF Corrupt
    <3>2. CASE ~Corrupt
      <4>1. t # <<>> /\ cl2knj(t) /\ stdy' = stdy
        BY <3>2 DEF exec_cl2knj
      <4> QED
        BY <4>1, WholeText
    <3> QED
      BY <3>1, <3>2
  <2>3. CASE \E what \in {"cl2knj", "all", "cnt"} : exec_cl2knj_empty(what)
    BY <2>3 DEF exec_cl2knj_empty
  <2>4. CASE ph_redo
    <3>1. CASE Corrupt
      BY <3>1 DEF Corrupt
    <3>2. CASE ~Corrupt
      <4>1. FirstBad \in DOMAIN out
        <5>1. DOMAIN out = 1..Len(out) /\ Len(out) \in Nat
          BY AnyList DEF PutOut, List
        <5>2. Bad \subseteq 1..Len(out) /\ Bad # {}
          BY <2>4, <5>1 DEF ph_redo, Bad
        <5>3. FirstBad \in Bad
          BY <5>1, <5>2, FirstOf DEF FirstBad
        <5> QED
          BY <5>1, <5>2, <5>3
      <4>2. cl2knj(SubSeq(text, out[FirstBad].start + 1,
                          out[FirstBad].start + out[FirstBad].len)) /\ stdy' = stdy
        BY <2>4, <3>2 DEF ph_redo
      <4> QED
        BY <4>1, <4>2, ClauseOut
    <3> QED
      BY <3>1, <3>2
  <2>5. CASE \/ ph_mkbunsetu \/ mk2claus_tiny \/ mk2claus_begin \/ mk2claus_try
             \/ mk2claus_end \/ selclrec \/ ph_cvtphknj \/ ph_end \/ ph_reply \/ job_reply
    BY <2>5 DEF ph_mkbunsetu, mk2claus_tiny, mk2claus_begin, mk2claus_try, mk2claus_end,
                selclrec, ph_cvtphknj, ph_end, ph_reply, job_reply
  <2>6. CASE \E dir \in {"next", "prev"}, mode \in 0..2 : exec_nextcl(dir, mode)
    <3>1. stdy' = stdy /\ \E dir \in {"next", "prev"}, mode \in 0..2 :
             \E m \in {Move(dir, mode)} : cur' = m.cur
      BY <2>6 DEF exec_nextcl
    <3> QED
      BY <3>1
  <2>7. CASE job_step
    <3>1. stdy' = stdy /\ \E m \in {Move(job.dir, job.mode)} : cur' = m.cur
      BY <2>7 DEF job_step
    <3> QED
      BY <3>1
  <2>8. CASE \E s \in Known : exec_study(s)
    BY <2>8 DEF exec_study
  <2>9. CASE UNCHANGED vars
    BY <2>9 DEF vars
  <2> QED
    BY <2>1, <2>2, <2>3, <2>4, <2>5, <2>6, <2>7, <2>8, <2>9 DEF Next
<1> QED
  BY <1>1, <1>2, <1>3, <1>4, <1>5, <1>6

----------------------------------------------------------------------------
(* The theorems about candidates and what is put out *)

\* To begin with there is nothing.
LEMMA InitOut == Init => PutOut /\ CursorInv
<1> SUFFICES ASSUME Init PROVE PutOut /\ CursorInv
  OBVIOUS
<1>1. List(<<>>)
  <2>1. <<>> \in Seq({})
    BY EmptySeq
  <2> QED
    BY <2>1, AnyList
<1>2. out = <<>> /\ stdy = <<>> /\ cur = NoCursor /\ pc = "idle" /\ DOMAIN <<>> = {}
  BY DEF Init
<1> QED
  BY <1>1, <1>2, NoCandidates DEF PutOut, CursorInv, Working, Round

\* What is out between two requests covers the reading.
LEMMA OutCovers == PutOut => Covers
<1> SUFFICES ASSUME PutOut, pc \in {"conv", "idle"}, out # <<>>
             PROVE  /\ \A i \in DOMAIN out :
                          /\ out[i].len \in 1..MAXCLINPUTLEN
                          /\ out[i].start = IF i = 1 THEN 0 ELSE out[i - 1].start + out[i - 1].len
                    /\ room # 0 => out[Len(out)].start + out[Len(out)].len = Len(text)
  BY DEF Covers
<1>1. ~Working
  BY DEF Working, Round
<1> QED
  BY <1>1 DEF PutOut, EndOf

\* Where there is a cursor, nextcl and prevcl are exact.
LEMMA CursorIsExact ==
    ASSUME CursorInv
    PROVE  CursorExact
<1>0. List(stdy) /\ CursorOK(cur)
  BY DEF CursorInv
<1>1. cur.kh # <<>> => CursorAt(cur)
  BY <1>0 DEF CursorOK
<1>2. cur.kh # <<>> => /\ IsPermutation(cur.kh) /\ cur.id \in DOMAIN cur.kh
                       /\ Len(cur.kh) <= MAXKOUHONUMBER
  BY <1>1, FewCandidates DEF CursorAt, Ranked
<1>3. ASSUME NEW a \in Choosable, NEW b \in Choosable
      PROVE  IsPermutation(After(a, b))
  <2>1. cur.head = 1 /\ cur.kh # <<>>
    <3>1. Choosable # {}
      BY <1>3
    <3>2. cur.head = 1 /\ {k \in Range(cur.kh) : IsNum(k) \/ k.offs # 0} # {}
      BY <3>1 DEF Choosable
    <3>3. Range(<<>>) = {}
      BY DEF Range
    <3> QED
      BY <3>2, <3>3
  <2>2. Listed(cur.an) /\ 1 \in DOMAIN cur.an.cl
    BY <1>1, <2>1 DEF CursorAt, Leads
  <2> PICK st : st = Chosen(b, Chosen(a, stdy))
    OBVIOUS
  <2>3. List(st)
    BY <1>0, StudiedList DEF Chosen
  <2>4. Table(st)
    BY <2>3, ListTable
  <2> PICK kh : kh = getrank(cur.an, mkkouho(cur.an, 1), st)
    OBVIOUS
  <2>5. {kh[n].rank : n \in DOMAIN kh} = DOMAIN kh
    BY <2>2, <2>4, RankedBlock
  <2>6. After(a, b) = kh
    BY <2>1 DEF After, Reranked
  <2> QED
    BY <2>5, <2>6 DEF IsPermutation
<1>4. ASSUME cur.kh # <<>>, cur = BlockAt(cur.an, cur.head, cur.id # 1)
      PROVE  nextcl(cur, 0).ok => prevcl(nextcl(cur, 0).cur, 0).cur = cur
  <2> PICK c : c = cur
    OBVIOUS
  <2>1. CursorAt(c) /\ c.kh # <<>> /\ c = BlockAt(c.an, c.head, c.id # 1)
    BY <1>1, <1>4
  <2>2. nextcl(c, 0) = Moved(c, FALSE) \/ \E d : nextcl(c, 0) = Moved(d, TRUE)
    BY <2>1, NextMoves
  <2>3. CASE nextcl(c, 0) = Moved(c, FALSE)
    <3>1. ~Moved(c, FALSE).ok
      BY Zenon DEF Moved
    <3> QED
      BY <2>3, <3>1
  <2>4. CASE \E d : nextcl(c, 0) = Moved(d, TRUE)
    <3> PICK d : nextcl(c, 0) = Moved(d, TRUE)
      BY <2>4
    <3>1. prevcl(d, 0).cur = c
      BY <1>0, <2>1, ThereAndBack
    <3>2. nextcl(c, 0).cur = d
      BY MovedCur
    <3> QED
      BY <3>1, <3>2
  <2> QED
    BY <2>2, <2>3, <2>4
<1>5. (pc = "idle" /\ cur.kh # <<>> /\ cur = BlockAt(cur.an, cur.head, cur.id # 1)) =>
          (nextcl(cur, 0).ok => prevcl(nextcl(cur, 0).cur, 0).cur = cur)
  BY <1>4
<1>6. \A a, b \in Choosable : IsPermutation(After(a, b))
  BY <1>3
<1> QED
  BY ONLY <1>2, <1>5, <1>6, Zenon DEF CursorExact

\* The clauses of a converted phrase follow each other without a gap, are not
\* longer than the candidates' requests take and, unless the buffer was too small,
\* cover the reading: ph_cvtphknj moves cnvstart by what it put out (ph2knj.c:94).
THEOREM PhraseCovered == Spec => []Covers
<1>1. (Inv /\ PutOut) /\ [Next]_vars => (Inv /\ PutOut)'
  BY NextInv, NextOut
<1>2. Inv /\ PutOut => Covers
  BY OutCovers
<1>3. Init => Inv /\ PutOut
  BY InitInv, InitOut
<1> QED
  BY <1>1, <1>2, <1>3, PTL DEF Spec

\* The ranks of a block number its candidates, prevcl takes back what nextcl did,
\* and choosing any two candidates leaves a numbering (cl2knj.c, getrank.c).
THEOREM CursorStaysExact == Spec => []CursorExact
<1>1. (Inv /\ PutOut /\ CursorInv) /\ [Next]_vars => (Inv /\ PutOut /\ CursorInv)'
  BY NextInv, NextOut, NextCursor
<1>2. Inv /\ PutOut /\ CursorInv => CursorExact
  BY CursorIsExact
<1>3. Init => Inv /\ PutOut /\ CursorInv
  BY InitInv, InitOut
<1> QED
  BY <1>1, <1>2, <1>3, PTL DEF Spec
=============================================================================
