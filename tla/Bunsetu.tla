------------------------------ MODULE Bunsetu -------------------------------
(***************************************************************************)
(* The analysis of the front of a text into the clauses it may start with  *)
(* (mkjiritu.c, setjrec.c, setubi.c, mkbunset.c, setconj.c, fuzoku.c,      *)
(* terminat.c, wakachi.c).                                                 *)
(*                                                                         *)
(* A clause is a stem (JREC) with an ending and functional words behind    *)
(* it.  Stems are words of the dictionaries, with a prefix or a suffix,    *)
(* numbers, and learned clauses.  The tables of the grammar and the words  *)
(* are constants: a table in the order the code reads it is a sequence.    *)
(* A text is a sequence of character codes; what is behind its end reads   *)
(* as 0.                                                                   *)
(***************************************************************************)
EXTENDS Integers, Sequences, FiniteSets, SequencesExt

CONSTANTS
    FZKTOP, DEPEND, NUMBER, FZK_KGU, TAI_KGU,   \* the classes of Chrtbl
    Hinsi,      \* parts of speech
    TANKANJI,   \* the one of single characters
    IKKATU,     \* the one of entries for whole phrases
    MEISI_6, D_MEISI_1,     \* those of unknown words
    Right,      \* what a clause may end with
    R_CUT, R_FZKKGU, R_MEISI, R_DAIMEISI,
    Word,       \* dictionary: <<[yomi, hinsi, seg, kanji : its spellings]>>
    Numeral,    \* numbers srchnum reads: <<[yomi, hinsi, class, flags, word]>>
                \* word: the counter behind the number, or 0
    Block,      \* learned clauses: <<[yomi, y1len, hinsi]>>
    Prefix,     \* <<[yomi, hinsi : those it goes with, kanji : has a spelling]>>
    Suffix,     \* [Hinsi -> <<[yomi, hinsi, ka]>>]
    Connadr,    \* [Hinsi -> Right, or 0 for a word that is inflected]
    Conj,       \* [Hinsi -> <<[yomi, right]>>]
    Row,        \* [prefix -> [Right -> Right or 0]], cnvrow
    Fzk,        \* functional words: <<[yomi, left, right, ka]>>
    Cnct,       \* [Right -> the lefts that may follow]
    T_SHUUJO, T_KANOU,      \* the Rights with these flags in Termtbl
    MAXFLVL,    \* functional words in a row
    MAXCLINPUTLEN

\* The entries of a table have readings and, where they are stems, a part of
\* speech.  A learned clause has a clause behind the boundary it tells
\* (clstudy.c:63), a functional word has a reading, and 0, the end of a text, is
\* of no class of marks (chrtbl.c:49).
Entries(tbl) == tbl \in Seq(Range(tbl)) /\ \A k \in DOMAIN tbl : tbl[k].yomi \in Seq(Nat)
ASSUME GrammarAssumption ==
    /\ {MAXFLVL, MAXCLINPUTLEN} \subseteq Nat \ {0}
    /\ 0 \notin FZK_KGU \cup TAI_KGU
    /\ {R_FZKKGU, R_MEISI, R_DAIMEISI} \subseteq Right /\ {MEISI_6, D_MEISI_1} \subseteq Hinsi
    /\ Entries(Word) /\ \A k \in DOMAIN Word : Word[k].hinsi \in Hinsi
    /\ Entries(Numeral) /\ \A k \in DOMAIN Numeral : Numeral[k].hinsi \in Hinsi
    /\ Entries(Block)
    /\ \A k \in DOMAIN Block :
          Block[k].hinsi \in Hinsi /\ Block[k].y1len \in 1..(Len(Block[k].yomi) - 1)
    /\ Entries(Prefix)
    /\ Entries(Fzk)
    /\ \A k \in DOMAIN Fzk :
          Fzk[k].yomi # <<>> /\ Fzk[k].right \in Right /\ Fzk[k].ka \in BOOLEAN
    /\ Suffix \in [Hinsi -> Seq([yomi : Seq(Nat), hinsi : Hinsi, ka : BOOLEAN])]
    /\ Connadr \in [Hinsi -> Right \cup {0}]
    /\ Conj \in [Hinsi -> Seq([yomi : Seq(Nat), right : Right])]
    /\ \A stt \in {0} \cup DOMAIN Prefix : \A r \in Right : Row[stt][r] \in Right \cup {0}
    /\ \A h \in Hinsi : \A S \in SUBSET (DOMAIN Conj[h]) :    \* crec[4]
            (\A j, k \in S : \/ IsPrefix(Conj[h][j].yomi, Conj[h][k].yomi)
                              \/ IsPrefix(Conj[h][k].yomi, Conj[h][j].yomi))
            => Cardinality(S) <= 4

At(t, p) == IF p \in DOMAIN t THEN t[p] ELSE 0
isdpnd(c) == c \in DEPEND
\* The text reads y from behind its first p characters on, as a unit.
Reads(t, p, y) ==
    /\ p + Len(y) <= Len(t)
    /\ SubSeq(t, p + 1, p + Len(y)) = y
    /\ ~isdpnd(At(t, p + Len(y) + 1))
Run(t, p, C) ==
    CHOOSE n \in 0..Len(t) :
        /\ \A k \in 1..n : At(t, p + k) \in C
        /\ At(t, p + n + 1) \notin C
Concat(s) == FlattenSeq(s)

-----------------------------------------------------------------------------
(* Stems.  A list is kept by falling length; of two of a length the one    *)
(* that came first is in front.                                            *)

argjrec(list, rec) ==
    LET behind == {k \in DOMAIN list : list[k].jlen < rec.jlen}
    IN  InsertAt(list,
                 IF behind = {} THEN Len(list) + 1
                 ELSE CHOOSE k \in behind : \A j \in behind : k <= j,
                 rec)

JRec(class, n, len, hinsi, stt) ==
    [class |-> class, n |-> n, jlen |-> len, hinsi |-> hinsi,
     sttofs |-> stt, stbofs |-> 0, ka |-> FALSE]

\* The places of s that are in Ok, in order.
SelectIdx(s, Ok) ==
    LET F[k \in 0..Len(s)] ==
            IF k = 0 THEN <<>> ELSE IF k \in Ok THEN Append(F[k - 1], k) ELSE F[k - 1]
    IN  F[Len(s)]

\* chkhead: the prefix goes with the part of speech.
chkhead(stt, hinsi) == stt = 0 \/ hinsi \in Prefix[stt].hinsi

\* dic_mu with setjrec, behind the prefix stt.
dic_mu(t, stt, ikkatu) ==
    LET h == IF stt = 0 THEN 0 ELSE Len(Prefix[stt].yomi)
        ok == {k \in DOMAIN Word :
                    /\ Reads(t, h, Word[k].yomi)
                    /\ Word[k].hinsi = IKKATU => ikkatu
                    /\ chkhead(stt, Word[k].hinsi)}
        ks == SelectIdx(Word, ok)
    IN  [i \in DOMAIN ks |-> JRec("dict", ks[i], h + Len(Word[ks[i]].yomi),
                                  Word[ks[i]].hinsi, stt)]

\* dic_cl with setcrec: the learned clauses the text starts with.
dic_cl(t) ==
    LET ks == SelectIdx(Block, {k \in DOMAIN Block : Reads(t, 0, Block[k].yomi)})
    IN  [i \in DOMAIN ks |-> JRec("bunsetu", ks[i], Len(Block[ks[i]].yomi),
                                  Block[ks[i]].hinsi, 0)]

\* The numbers, by the longest reading.
srchnum(t) ==
    LET ks == SelectIdx(Numeral,
                {k \in DOMAIN Numeral : Reads(t, 0, Numeral[k].yomi)})
    IN  [i \in DOMAIN ks |-> JRec("num", ks[i], Len(Numeral[ks[i]].yomi),
                                  Numeral[ks[i]].hinsi, 0)]

\* The prefix the text starts with, if something follows it.
srchhead(t) ==
    LET ok == {k \in DOMAIN Prefix :
                    /\ Len(Prefix[k].yomi) < Len(t)
                    /\ SubSeq(t, 1, Len(Prefix[k].yomi)) = Prefix[k].yomi}
    IN  IF ok = {} THEN 0 ELSE CHOOSE k \in ok : TRUE

\* The stem again with each suffix that follows it.
setubi(t, rec) ==
    LET stb == Suffix[rec.hinsi]
        ks == SelectIdx(stb, {k \in DOMAIN stb : Reads(t, rec.jlen, stb[k].yomi)})
    IN  [i \in DOMAIN ks |->
            [rec EXCEPT !.jlen = @ + Len(stb[ks[i]].yomi), !.stbofs = ks[i],
                        !.ka = @ \/ stb[ks[i]].ka]]

mkjiritu(t, mode) ==
    LET found == dic_mu(t, 0, "ikkatu" \in mode)
                 \o (IF "clstudy" \in mode THEN dic_cl(t) ELSE <<>>)
                 \o srchnum(t)
                 \o (IF srchhead(t) = 0 THEN <<>>
                     ELSE dic_mu(t, srchhead(t), "ikkatu" \in mode))
        list == FoldLeft(argjrec, <<>>, found)
    IN  FoldLeft(argjrec, list,
                 Concat([k \in DOMAIN list |-> setubi(t, list[k])]))

-----------------------------------------------------------------------------
(* Whether a clause may end with `right' behind the first p characters:    *)
(* "SHU" when that would be before more text after a final particle.       *)

terminate(t, p, right) ==
    LET ch == At(t, p + 1)
    IN  IF p > 0 /\ t[p] \in NUMBER THEN "yes"
        ELSE IF right \in T_SHUUJO /\ ch = 0 THEN "yes"
        ELSE IF right \in T_SHUUJO /\ ch \in FZKTOP THEN "no"
        ELSE IF right \in T_SHUUJO /\ ~isdpnd(ch) THEN "SHU"
        ELSE IF right \in T_KANOU /\ ch \notin FZKTOP /\ ~isdpnd(ch) THEN "yes"
        ELSE "no"

Call(p, right, ka) == [len |-> p, right |-> right, ka |-> ka]
Ends(t, p, right, ka) ==
    IF terminate(t, p, right) # "no" THEN <<Call(p, right, ka)>> ELSE <<>>

\* The functional words that may come next (fzkstrcmp, fzkcnct).  The code
\* remembers those that match at a place (fzktbl).
Follows(t, p, right) ==
    SelectIdx(Fzk, {k \in DOMAIN Fzk :
                        Reads(t, p, Fzk[k].yomi) /\ Fzk[k].left \in Cnct[right]})

\* The calls of setclrec made by srchfzk, in order.
srchfzk(t, p0, right0) ==
    LET f[x \in Nat \X Right \X Nat \X BOOLEAN] ==
            LET p == x[1]
                right == x[2]
                level == x[3]
                ka == x[4]
                ch == At(t, p + 1)
                ks == Follows(t, p, right)
            IN  IF level >= MAXFLVL /\ ch \notin FZK_KGU THEN <<>>
                ELSE IF terminate(t, p, right) # "no" /\ ch \in FZK_KGU
                THEN <<Call(p + Run(t, p, FZK_KGU), R_FZKKGU, level # 0 /\ ka)>>
                ELSE IF right = R_CUT \/ ch = 0 THEN <<>>
                ELSE Concat([i \in DOMAIN ks |->
                        LET w == Fzk[ks[i]]
                            k1 == IF level = 0 THEN w.ka ELSE ka
                            q == p + Len(w.yomi)
                        IN  Ends(t, q, w.right, k1)
                            \o f[<<q, w.right, level + 1, k1>>]])
    IN  f[<<p0, right0, 0, FALSE>>]

\* The endings of an inflected stem, last one first.
setconj(t, hinsi, jlen, stt) ==
    LET tbl == Conj[hinsi]
        ok == {k \in DOMAIN tbl : Reads(t, jlen, tbl[k].yomi)
                                  /\ Row[stt][tbl[k].right] # 0}
        ks == Reverse(SelectIdx(tbl, ok))
    IN  [i \in DOMAIN ks |-> [len |-> Len(tbl[ks[i]].yomi),
                              right |-> Row[stt][tbl[ks[i]].right]]]

-----------------------------------------------------------------------------
(* Clauses, by falling length too; single characters are the last of their *)
(* length.  jnode is the place of the stem in its list.                    *)

argclrec(list, rec, j) ==
    LET behind == {k \in DOMAIN list :
                    \/ list[k].cllen < rec.cllen
                    \/ /\ list[k].cllen = rec.cllen
                       /\ j[list[k].jnode].hinsi = TANKANJI}
    IN  InsertAt(list,
                 IF behind = {} THEN Len(list) + 1
                 ELSE CHOOSE k \in behind : \A i \in behind : k <= i,
                 rec)

CLRec(n, call) ==
    [jnode |-> n, cllen |-> call.len, right |-> call.right, fzk_ka |-> call.ka]

\* setclrec refuses an empty clause and one that is too long.
setclrec(list, n, call, j) ==
    IF call.len \in 1..MAXCLINPUTLEN THEN argclrec(list, CLRec(n, call), j)
    ELSE list

SetAll(list, n, calls, j) ==
    FoldLeft(LAMBDA l, c : setclrec(l, n, c, j), list, calls)

CallsOf(t, rec) ==
    LET hinsi == IF rec.stbofs = 0 THEN rec.hinsi
                 ELSE Suffix[rec.hinsi][rec.stbofs].hinsi
        right == Connadr[hinsi]
        cs == setconj(t, hinsi, rec.jlen, rec.sttofs)
    IN  IF right # 0
        THEN Ends(t, rec.jlen, right, FALSE) \o srchfzk(t, rec.jlen, right)
        ELSE Concat([i \in DOMAIN cs |->
                LET p == rec.jlen + cs[i].len
                IN  Ends(t, p, cs[i].right, FALSE) \o srchfzk(t, p, cs[i].right)])

mkbunsetu(t, j) ==
    FoldLeft(LAMBDA l, n : SetAll(l, n, CallsOf(t, j[n]), j), <<>>,
             [n \in DOMAIN j |-> n])

-----------------------------------------------------------------------------
(* An unknown word, when no clause was found: marks as they are, or the    *)
(* shortest stem that something can follow, or else all of the text.       *)

\* The calls for a stem of the given length with the endings cs.  A number
\* behind it (the ending number, 0 if none) ends the word there and then.
Endings(t, jlen, cs, number) ==
    LET calls(c, p) == (IF c.len = 0 THEN <<>> ELSE Ends(t, p, c.right, FALSE))
                       \o srchfzk(t, p, c.right)
    IN  [calls |->
            Concat([i \in DOMAIN cs |->
                IF number = 0 \/ i < number THEN calls(cs[i], jlen + cs[i].len)
                ELSE IF i = number THEN <<Call(jlen, cs[i].right, FALSE)>>
                ELSE <<>>]),
         number |-> number # 0]
WakachiCalls(t, jlen) ==
    LET with(cs) == Endings(t, jlen, cs,
            IF jlen > 0 /\ At(t, jlen + 1) \in NUMBER
            THEN SelectInSeq(cs, LAMBDA c : c.len = 0) ELSE 0)
    IN  with(setconj(t, MEISI_6, jlen, 0))

\* Mutant: an unknown word may be as long as the text.
MaxStem_all(t) == Len(t)

MaxStem(t) == IF Len(t) > MAXCLINPUTLEN THEN MAXCLINPUTLEN ELSE Len(t)

Stem(len, h) == <<JRec("wakachi", 0, len, h, 0)>>

\* The end of wakachi: the word alone, unless what follows starts no clause.
Alone(t, len, list, j) ==
    [j |-> j,
     cl |-> IF len = 0 \/ (list # <<>> /\ At(t, len + 1) \in FZKTOP) THEN list
            ELSE argclrec(list, CLRec(1, Call(len, R_MEISI, FALSE)), j)]

\* A word of marks.
wakachi_marks(t, len) ==
    Alone(t, len,
          IF t[len] \in TAI_KGU
          THEN SetAll(<<>>, 1, srchfzk(t, len, R_DAIMEISI), Stem(len, D_MEISI_1))
          ELSE <<>>,
          Stem(len, D_MEISI_1))

\* Stems from the empty one on until something follows one: w holds the
\* length reached and what was found.
wakachi_grow(t, max) ==
    LET try(n, c) == [len |-> n, number |-> c.number,
                      cl |-> SetAll(<<>>, 1, c.calls, Stem(n, MEISI_6))]
        next(w) == IF w.cl # <<>> \/ w.len = max THEN w
                   ELSE IF w.len + 1 = max THEN [w EXCEPT !.len = max]
                   ELSE try(w.len + 1, WakachiCalls(t, w.len + 1))
        F[n \in 0..max] ==
            IF n = 0 THEN try(0, WakachiCalls(t, 0)) ELSE next(F[n - 1])
    IN  F[max]

wakachi(t) ==
    LET min(a, b) == IF a < b THEN a ELSE b
        marks == Run(t, 0, TAI_KGU \cup FZK_KGU)
        word(w) == IF w.number THEN [j |-> Stem(w.len, MEISI_6), cl |-> w.cl]
                   ELSE Alone(t, w.len, w.cl, Stem(w.len, MEISI_6))
    IN  IF marks > 0 THEN wakachi_marks(t, min(marks, MaxStem(t)))
        ELSE word(wakachi_grow(t, MaxStem(t)))

\* The clauses the text may start with.
Analyse(t, mode) ==
    LET result(j, cl) == IF cl = <<>> THEN wakachi(t) ELSE [j |-> j, cl |-> cl]
        clauses(j) == result(j, mkbunsetu(t, j))
    IN  clauses(mkjiritu(t, mode))
=============================================================================
