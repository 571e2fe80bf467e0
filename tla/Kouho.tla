-------------------------------- MODULE Kouho --------------------------------
(***************************************************************************)
(* The candidates of a clause and their order (mkkouho.c, setkouho.c,      *)
(* getrank.c, ph_khtbl.c), and the words the user chose (study.c).         *)
(*                                                                         *)
(* `an' is an analysis, [j |-> stems, cl |-> clauses].  A candidate names  *)
(* a clause by its place in an.cl and a spelling of the word by its place  *)
(* in Word[.].kanji, offs; offs is 0 for a number or an unknown word,      *)
(* which no dictionary spells.  A spelling is [kj, kana, hira, sjis]: what *)
(* is written, how many of the reading's last characters it ends with,     *)
(* whether hiraknj finds it written in kana, and whether Shift-JIS has it. *)
(*                                                                         *)
(* The study table is the sequence of the chosen words, the latest first:  *)
(* styno is the place in it.                                               *)
(***************************************************************************)
EXTENDS Bunsetu

CONSTANTS
    Sel,        \* [class of number -> <<[func, must, any]>>], Selsjadrs
    SELARB,     \* the func of what is no number
    MAXKOUHONUMBER,
    STUDYMAX

\* A word of the dictionaries is spelled somehow, and every class of numbers has
\* a way of writing that asks nothing of the number (selsuuji.c).
ASSUME KouhoAssumption ==
    /\ {MAXKOUHONUMBER, STUDYMAX} \subseteq Nat \ {0} /\ SELARB \in Nat
    /\ \A w \in DOMAIN Word : Word[w].kanji \in Seq(Range(Word[w].kanji)) \ {<<>>}
    /\ \A c \in DOMAIN Sel :
          /\ Sel[c] \in Seq(Range(Sel[c]))
          /\ \A k \in DOMAIN Sel[c] : Sel[c][k].func \in Nat
          /\ \E k \in DOMAIN Sel[c] : Sel[c][k].must = {} /\ Sel[c][k].any = {}
    /\ \A n \in DOMAIN Numeral :
          Numeral[n].class \in DOMAIN Sel /\ Numeral[n].word \in {0} \cup DOMAIN Word

-----------------------------------------------------------------------------
(* study.c, as a list (UserDict shows the table behave as one) *)

\* srchstdy: the place of a word's spelling in the table, 0 if it has none.
srchstdy(stdy, key) ==
    LET at == {k \in DOMAIN stdy : stdy[k].key = key}
    IN  IF key[2] = 0 \/ at = {} THEN 0 ELSE CHOOSE k \in at : TRUE

\* Mutant: a word that is chosen again keeps its place.
study_stays(stdy, s) ==
    IF s.key[2] = 0 \/ srchstdy(stdy, s.key) # 0 THEN stdy
    ELSE LET new == <<[key |-> s.key, sttkj |-> s.sttkj, ka_kj |-> s.ka_kj,
                       nmflg |-> s.nmflg]>> \o stdy
         IN  IF Len(new) > STUDYMAX THEN SubSeq(new, 1, STUDYMAX) ELSE new

study(stdy, s) ==
    LET at == srchstdy(stdy, s.key)
        entry(sttkj, ka_kj) == [key |-> s.key, sttkj |-> sttkj, ka_kj |-> ka_kj,
                                nmflg |-> s.nmflg]
        new == <<entry(s.sttfg * s.sttkj, s.ka_fg * s.ka_kj)>> \o stdy
    IN  IF s.key[2] = 0 THEN stdy
        ELSE IF at # 0
        THEN <<entry(IF s.sttfg = 1 THEN s.sttkj ELSE stdy[at].sttkj,
                     IF s.ka_fg = 1 THEN s.ka_kj ELSE stdy[at].ka_kj)>>
             \o RemoveAt(stdy, at)
        ELSE IF Len(new) > STUDYMAX THEN SubSeq(new, 1, STUDYMAX) ELSE new

-----------------------------------------------------------------------------
(* The table of candidates, kouhotbl *)

Jnode(an, c) == an.j[an.cl[c].jnode]
\* The word of the dictionaries in a stem: its own, or a number's counter.
WordOf(rec) == CASE rec.class = "dict" -> rec.n
                 [] rec.class = "num" -> Numeral[rec.n].word
                 [] OTHER -> 0
Key(an, k) == <<WordOf(Jnode(an, k.cl)), k.offs>>
Spelling(an, k) == Word[Key(an, k)[1]].kanji[k.offs]

Bit(b) == IF b THEN 1 ELSE 0
KHREC(an, c, offs, mode) ==
    LET rec == Jnode(an, c)
    IN  [cl |-> c, offs |-> offs, mode |-> mode, rank |-> 0, styno |-> 0,
         ka_fg |-> Bit(rec.ka \/ an.cl[c].fzk_ka), ka_kj |-> Bit(rec.ka),
         sttfg |-> Bit(rec.sttofs # 0 /\ Prefix[rec.sttofs].kanji), sttkj |-> 0]

\* setkouho: one candidate, or two when the prefix is written either way.
setkouho(an, kh, c, offs, mode) ==
    LET cut(all) == IF Len(all) > MAXKOUHONUMBER THEN SubSeq(all, 1, MAXKOUHONUMBER)
                    ELSE all
        either(k) == IF k.sttfg = 0 \/ (offs # 0 /\ Spelling(an, k).hira) THEN <<k>>
                     ELSE <<k, [k EXCEPT !.sttkj = 1]>>
    IN  cut(kh \o either(KHREC(an, c, offs, mode)))

\* sameknj: the same but for kana both copy from the reading.
sameknj(len1, s1, len2, s2) == s1.kj = s2.kj /\ len1 - s1.kana = len2 - s2.kana

\* The i-th spelling of the word of clause c is not yet among the first num.
diffknj(an, kh, c, i, num) ==
    LET rec == Jnode(an, c)
        w == WordOf(rec)
    IN  \/ rec.hinsi = TANKANJI
        \/ ~\E k \in 1..num :
              LET other == Jnode(an, kh[k].cl)
              IN  \/ an.cl[kh[k].cl].jnode = an.cl[c].jnode
                  \/ /\ other.hinsi # TANKANJI
                     /\ other.class = rec.class
                     /\ Word[WordOf(other)].seg = Word[w].seg
                     /\ other.sttofs = rec.sttofs
                     /\ other.stbofs = rec.stbofs
                     /\ sameknj(rec.jlen, Word[w].kanji[i],
                                other.jlen, Spelling(an, kh[k]))

cl_kanji(an, kh, c) ==
    LET w == Word[WordOf(Jnode(an, c))]
    IN  FoldLeft(LAMBDA l, i : IF diffknj(an, l, c, i, Len(kh))
                               THEN setkouho(an, l, c, i, 0) ELSE l,
                 kh, [i \in DOMAIN w.kanji |-> i])

\* The ways to write the number that its flags allow.
chrck_numtbl(flags, s) ==
    s.must \subseteq flags /\ (s.any = {} \/ s.any \cap flags # {})
NumModes(rec) ==
    LET tbl == Sel[Numeral[rec.n].class]
        ks == SelectIdx(tbl, {k \in DOMAIN tbl :
                                 chrck_numtbl(Numeral[rec.n].flags, tbl[k])})
    IN  [i \in DOMAIN ks |-> tbl[ks[i]]]
sel_sjmode(rec) ==
    IF rec.class # "num" THEN SELARB
    ELSE IF NumModes(rec) # <<>> THEN NumModes(rec)[1].func
    ELSE Sel[Numeral[rec.n].class][1].func

cl_numcmn(an, kh, c) ==
    LET rec == Jnode(an, c)
        w == WordOf(rec)
    IN  IF w # 0
        THEN FoldLeft(LAMBDA l, i : setkouho(an, l, c, i, sel_sjmode(rec)),
                      kh, [i \in DOMAIN Word[w].kanji |-> i])
        ELSE FoldLeft(LAMBDA l, s : setkouho(an, l, c, 0, s.func),
                      kh, NumModes(rec))

getkhtbl(an, kh, c) ==
    CASE Jnode(an, c).class = "dict" -> cl_kanji(an, kh, c)
      [] Jnode(an, c).class = "num" -> cl_numcmn(an, kh, c)
      [] Jnode(an, c).class = "bunsetu" -> kh
      [] OTHER -> setkouho(an, kh, c, 0, 0)

\* The block of clauses from c on that are as long as it.
BlockFrom(an, c) ==
    LET ends == {k \in c..Len(an.cl) : an.cl[k].cllen # an.cl[c].cllen}
    IN  IF ends = {} THEN Len(an.cl)
        ELSE (CHOOSE k \in ends : \A m \in ends : k <= m) - 1
mkkouho(an, c) ==
    FoldLeft(LAMBDA l, k : getkhtbl(an, l, k), <<>>,
             [i \in 1..(BlockFrom(an, c) - c + 1) |-> c + i - 1])

-----------------------------------------------------------------------------
(* Ranks.  Chosen words come first, the latest in front; numbers follow    *)
(* the word they were chosen behind (nmflg).                               *)

\* The entry is for a candidate written this way.
SameWriting(k, s) ==
    /\ k.sttfg = 1 \/ k.ka_fg = 1
    /\ k.sttfg = 1 => s.sttkj = k.sttkj
    /\ k.ka_fg = 1 => s.ka_kj = k.ka_kj

\* setnspr for the n-th candidate, st = [kh, trank, nrank].
setnspr(st, n, styno, s) ==
    LET Passed == {p \in 1..(n - 1) :
                    \/ styno < st.kh[p].styno
                    \/ styno = st.kh[p].styno /\ SameWriting(st.kh[n], s)}
        keepnm == st.trank - Cardinality(Passed)
        nrank == IF keepnm <= st.nrank THEN st.nrank + 1 ELSE st.nrank
    IN  [kh |-> [p \in DOMAIN st.kh |->
                    IF p = n THEN [st.kh[p] EXCEPT !.styno = styno, !.rank = keepnm]
                    ELSE IF p \in Passed THEN [st.kh[p] EXCEPT !.rank = @ + 1]
                    ELSE st.kh[p]],
         trank |-> st.trank + 1,
         nrank |-> IF s.nmflg = 1 /\ nrank > keepnm THEN keepnm ELSE nrank]

setstynum(an, kh, stdy) ==
    FoldLeft(LAMBDA st, n :
                LET at == srchstdy(stdy, Key(an, kh[n]))
                IN  IF at = 0 THEN st ELSE setnspr(st, n, at, stdy[at]),
             [kh |-> kh, trank |-> 1, nrank |-> 1],
             [n \in DOMAIN kh |-> n])

IsNum(k) == k.mode # 0 /\ k.offs = 0

regetrank(st) ==
    LET Unranked == {n \in DOMAIN st.kh : st.kh[n].rank = 0}
        Nums == {n \in DOMAIN st.kh : IsNum(st.kh[n])}
        front == st.nrank < st.trank
        nkh == IF front THEN Cardinality(Nums) ELSE 0
        before(n, S) == Cardinality({m \in S : m < n})
    IN  [n \in DOMAIN st.kh |->
            [st.kh[n] EXCEPT !.rank =
                IF n \notin Unranked THEN IF @ >= st.nrank THEN @ + nkh ELSE @
                ELSE IF front /\ n \in Nums
                THEN st.nrank + before(n, Unranked \cap Nums)
                ELSE st.trank + nkh
                     + before(n, IF front THEN Unranked \ Nums ELSE Unranked)]]

getrank(an, kh, stdy) == regetrank(setstynum(an, kh, stdy))

\* cvtclknj: the candidate with a rank.
ByRank(kh, id) == CHOOSE n \in DOMAIN kh : kh[n].rank = id

\* setstyrec: what the reply says of a candidate, for a later study request.
\* A number is chosen together with the candidate in front.
setstyrec(an, kh, k) ==
    LET named == IF IsNum(k) THEN kh[ByRank(kh, 1)] ELSE k
    IN  [key |-> Key(an, named), nmflg |-> Bit(IsNum(k)), sttkj |-> k.sttkj,
         ka_kj |-> k.ka_kj, sttfg |-> k.sttfg, ka_fg |-> k.ka_fg]

-----------------------------------------------------------------------------
(* The one candidate of a clause of a phrase: st = [k : <<>> or <<it>>,    *)
(* top : the study entry it was found by (stdytop), num : the last clause  *)
(* that is a bare number].                                                 *)

\* ph_setkouho.  A candidate that was not studied has styno -1.
ph_setkouho(an, st, c, offs, stdy, at) ==
    [st EXCEPT
        !.k = <<[KHREC(an, c, offs, sel_sjmode(Jnode(an, c))) EXCEPT
                    !.rank = 1,
                    !.styno = IF at # 0 THEN at ELSE -1,
                    !.sttkj = IF at # 0 THEN stdy[at].sttkj ELSE 0]>>,
        !.top = IF at # 0 THEN <<stdy[at]>> ELSE @]

\* What makes a later candidate better; styno is signed.
ph_better(k, at, s) ==
    /\ at # 0
    /\ \/ at < k.styno
       \/ at = k.styno /\ ~(k.ka_fg = 1 /\ s.ka_kj = k.ka_kj)

ph_setsty(an, st, c, stdy) ==
    LET w == WordOf(Jnode(an, c))
    IN  FoldLeft(LAMBDA x, i :
                    LET at == srchstdy(stdy, <<w, i>>)
                    IN  IF \/ x.k = <<>>
                           \/ at # 0 /\ ph_better(x.k[1], at, stdy[at])
                        THEN ph_setkouho(an, x, c, i, stdy, at) ELSE x,
                 st, [i \in DOMAIN Word[w].kanji |-> i])

ph_khtbl(an, st, c, stdy) ==
    LET rec == Jnode(an, c)
        bare == rec.class = "num" /\ WordOf(rec) = 0
        st1 == IF bare THEN [st EXCEPT !.num = c] ELSE st
    IN  IF WordOf(rec) # 0 THEN ph_setsty(an, st, c, stdy)
        ELSE IF st.k = <<>> THEN ph_setkouho(an, st1, c, 0, stdy, 0)
        ELSE st1

\* cvtphknj: the candidate for a list of clauses (places in an.cl).
cvtphknj(an, list, stdy) ==
    LET st == FoldLeft(LAMBDA x, c : ph_khtbl(an, x, c, stdy),
                       [k |-> <<>>, top |-> <<>>, num |-> 0], list)
        st2 == IF st.num # 0 /\ st.top # <<>> /\ st.top[1].nmflg = 1
               THEN ph_setkouho(an, st, st.num, 0, stdy, 0) ELSE st
    IN  st2.k[1]
=============================================================================
