------------------------------- MODULE MkDic --------------------------------
(***************************************************************************)
(* sj3mkdic, the compiler of the system dictionary, and the engine's       *)
(* search of what it wrote.                                                *)
(*                                                                         *)
(* The compiler reads lines of a reading, a spelling and parts of speech   *)
(* in ascending order of the readings, gathers the words of one reading    *)
(* (drectmp), adds them to the segment under construction (douon) as long  *)
(* as they are estimated to fit, and otherwise writes the segment and      *)
(* starts another.  A segment is compressed: a reading by what it shares   *)
(* with the one before, a spelling by references to earlier spellings and  *)
(* to the strings that are most worth sharing.                             *)
(***************************************************************************)
EXTENDS DictSearch

CONSTANTS
    Line,         \* input lines: [yomi, kanji, hinsi (a sequence), atr]
    MaxLines,     \* bound of the exploration: lines of the input
    SegLen,       \* MAINSEGMENTLENGTH
    IdxLen,       \* MAININDEXLENGTH
    MaxKnjAsk,    \* MAXKNJASKNUMBER
    MaxYomiAsk,   \* MAXYOMIASKNUMBER
    MaxAskBytes,  \* what the first byte of a segment can count, 0xff
    MaxYomi,      \* MAXYOMILENGTH
    MaxKanji,     \* MAXKANJILENGTH
    MaxHinsi,     \* MAXHINSINUMBER and MAXATRNUMBER
    Tankan        \* HINSITANKAN, the part of speech of a line without one

ASSUME MkDicAssumption == MaxKnjAsk >= 2 /\ MaxYomiAsk >= 1

VARIABLES
    status,       \* "run", "done", or why the compiler gave up
    drectmp,      \* the words of the last reading, or NoRec
    work,         \* the segment under construction
    input         \* the words of the lines read so far

vars == <<dict, q, status, drectmp, work, input>>

NoRec == [y |-> <<>>, hrec |-> <<>>]

\* douon_ptr with its counters, hindo, assyuku, ofsrec and askknj.
NoWork == [douon |-> <<>>, yomi |-> 0, hinsi |-> 0, kanji |-> 0,
           hindo |-> <<>>, assyuku |-> <<>>, ofsrec |-> <<>>, askknj |-> <<>>]

Put(f, x, v) == [z \in DOMAIN f \cup {x} |-> IF z = x THEN v ELSE f[z]]
Without(f, x) == [z \in DOMAIN f \ {x} |-> f[z]]

\* Fold over the spellings of a block, in the order they are written in.
Spellings(rec) == FlattenSeq([h \in DOMAIN rec.hrec |-> rec.hrec[h].krec])

----------------------------------------------------------------------------
(* The codes of one spelling *)

\* top_strcmp
top_strcmp(y, k) ==
    LET same == {n \in 0 .. Min({Len(y), Len(k)}) : \A i \in 1 .. n : y[i] = k[i]}
    IN  Min({Max(same), MaxYomiAsk})

\* last_strcmp.  A spelling longer than the reading is compared with what
\* lies in front of the reading in memory, which is none of it.
last_strcmp(y, k) == IF Len(k) <= MaxYomiAsk /\ IsSuffix(k, y) THEN Len(k) ELSE 0

\* makekanji: attributes, kana that the reading starts with, and then
\* characters up to the kana that the reading ends with.
makekanji(l) ==
    LET y == l.yomi
        kana == [i \in DOMAIN y |-> ToKata(y[i])]
        top(n, form) == IF n > 0 THEN <<<<form, n>>>> ELSE <<>>
        hira == top_strcmp(y, l.kanji)
        kata == IF hira > 0 THEN 0 ELSE top_strcmp(kana, l.kanji)
        rest[k \in 1 .. Len(l.kanji) + 1] ==
            LET tail == SubSeq(l.kanji, k, Len(l.kanji))
            IN  IF tail = <<>> THEN <<>>
                ELSE IF last_strcmp(y, tail) > 0 THEN <<<<"hira", Len(tail)>>>>
                ELSE IF last_strcmp(kana, tail) > 0 THEN <<<<"kata", Len(tail)>>>>
                ELSE <<<<"chr", Head(tail)>>>> \o rest[k + 1]
    IN  [i \in DOMAIN l.atr |-> <<"atr", l.atr[i]>>]
        \o top(hira, "hira") \o top(kata, "kata") \o rest[hira + kata + 1]

\* make_divlist: the shortest way to write spelling k
\* with the spellings of ofsrec and the common strings ask; of several the
\* first one tried, plain codes, then references, then common strings.
make_divlist(k, ofsrec, ask) ==
    LET n == Len(k)
        shortest(cands) ==
            FoldLeft(LAMBDA a, b : IF Bytes(b) < Bytes(a) THEN b ELSE a, Head(cands), Tail(cands))
        div[i \in 1 .. n + 1] ==
            LET upto(j) == SubSeq(k, i, j)
                ofs == SelectSeq([j \in 1 .. n |-> j], LAMBDA j :
                           j >= i /\ Bytes(upto(j)) > 2 /\ upto(j) \in DOMAIN ofsrec)
                cmn == SelectSeq([a \in DOMAIN ask |-> a], LAMBDA a : IsPrefix(ask[a], upto(n)))
            IN  IF i > n THEN <<>>
                ELSE IF Bytes(upto(n)) = 1 THEN upto(n)
                ELSE shortest(
                    <<<<k[i]>> \o div[i + 1]>>
                    \o [j \in DOMAIN ofs |-> <<<<"ofs", ofsrec[upto(ofs[j])]>>>> \o div[ofs[j] + 1]]
                    \o [a \in DOMAIN cmn |-> <<<<"ask", cmn[a]>>>> \o div[i + Len(ask[cmn[a]])]])
    IN  div[1]

\* knjofscvt, before the common strings are known, and knjcvt.
knjofscvt(k, ofsrec) == make_divlist(k, ofsrec, <<>>)
knjcvt(k, ofsrec, ask) == make_divlist(k, ofsrec, ask)

----------------------------------------------------------------------------
(* offset.c: the spellings of the segment so far *)

\* set_ofsrec and makeoffset: a spelling that is there keeps its offset;
\* without an offset it is numbered.
set_ofsrec(recs, k, o) ==
    IF k \in DOMAIN recs THEN recs
    ELSE Put(recs, k, IF o = 0 THEN Cardinality(DOMAIN recs) + 1 ELSE o)

\* real_ofsrec
real_ofsrec(recs, o) == CHOOSE k \in DOMAIN recs : recs[k] = o

\* make_knjstr and set_ofsask: references replaced by what they refer to.
make_knjstr(recs, k) ==
    FlattenSeq([i \in DOMAIN k |-> IF k[i][1] = "ofs" THEN real_ofsrec(recs, k[i][2]) ELSE <<k[i]>>])

----------------------------------------------------------------------------
(* hindo.c: how often the parts of the spellings occur *)

\* check_hindo
check_hindo(w, k) == IF k \in DOMAIN w.hindo THEN w.hindo[k].exist + w.hindo[k].hindo ELSE 0

\* assyuku_len: the bytes saved when k becomes a common string.
assyuku_len(w, k) ==
    LET n == check_hindo(w, k)
        p == real_ofsrec(w.ofsrec, k[1][2])
        org == check_hindo(w, p)
    IN  IF Len(k) = 1 /\ k[1][1] = "ofs"
        THEN Bytes(p) * org + 2 * n - (Bytes(p) + n + org)
        ELSE Bytes(k) * n - (Bytes(k) + n)

\* set_assyuku and makeassyuku: by descending savings, the latest first.
set_assyuku(w, k) ==
    LET len == assyuku_len(w, k)
        at == 1 + Cardinality({i \in DOMAIN w.assyuku : w.assyuku[i].len > len})
    IN  IF len <= 0 THEN w
        ELSE [w EXCEPT !.assyuku = InsertAt(@, at, [k |-> k, len |-> len])]

\* reset_assyuku
reset_assyuku(w, k) == [w EXCEPT !.assyuku = SelectSeq(@, LAMBDA a : a.k # k)]

\* set_hindo and makehindo: one more occurrence of k, a part of a spelling or
\* all of it.
set_hindo(w, k, whole) ==
    LET full == whole /\ Bytes(k) > 2
        old == w.hindo[k]
        new == IF k \notin DOMAIN w.hindo
               THEN IF full THEN [exist |-> 1, hindo |-> 0] ELSE [exist |-> 0, hindo |-> 1]
               ELSE IF old.exist > 0 \/ full THEN [old EXCEPT !.exist = @ + 1]
               ELSE [old EXCEPT !.hindo = @ + 1]
    IN  set_assyuku([reset_assyuku(w, k) EXCEPT !.hindo = Put(@, k, new)], k)

\* reset_hindo: one occurrence less.
reset_hindo(w, k) ==
    LET old == w.hindo[k]
        new == IF old.exist > 0 THEN [old EXCEPT !.exist = @ - 1] ELSE [old EXCEPT !.hindo = @ - 1]
        r == reset_assyuku(w, k)
    IN  IF k \notin DOMAIN w.hindo THEN w
        ELSE IF new.exist + new.hindo = 0 THEN [r EXCEPT !.hindo = Without(@, k)]
        ELSE set_assyuku([r EXCEPT !.hindo = [@ EXCEPT ![k] = new]], k)

\* Every part of a spelling, in the order knjhnd_set visits them.
Parts(p) ==
    FlattenSeq([i \in DOMAIN p |-> [j \in 1 .. Len(p) - i + 1 |-> SubSeq(p, i, i + j - 1)]])

knjhnd_set(w, p) == FoldLeft(LAMBDA v, k : set_hindo(v, k, Len(k) = Len(p)), w, Parts(p))
knjhnd_reset(w, p) == FoldLeft(reset_hindo, w, Parts(p))

\* bubun_str
bubun_str(a, b) == a \in SubSeqs(b) \/ b \in SubSeqs(a)

\* overlap_str: an end of one is a start of the other, and the two run into
\* each other in some spelling.
overlap_str(w, a, b) ==
    \E x \in {<<a, b>>, <<b, a>>} : \E i \in DOMAIN x[1] :
        LET end == SubSeq(x[1], i, Len(x[1]))
        IN  /\ Bytes(end) < Bytes(x[2]) /\ IsPrefix(end, x[2])
            /\ check_hindo(w, x[1] \o SubSeq(x[2], Len(end) + 1, Len(x[2]))) > 0

\* check_assyuku
check_assyuku(w, a, b) ==
    LET x == make_knjstr(w.ofsrec, a)
        y == make_knjstr(w.ofsrec, b)
    IN  bubun_str(x, y) \/ overlap_str(w, x, y)

\* decide_knjask: the common strings, most worth first, none that has to do
\* with one already taken.  [w, len]: the strings are left in askknj.
decide_knjask(w) ==
    LET usable(k) == Bytes(k) <= 2 \/ \A i \in DOMAIN k : k[i][1] # "ofs"
        take(r, a) ==
            IF \/ Len(r.ask) >= MaxKnjAsk
               \/ ~usable(a.k)
               \/ \E i \in DOMAIN r.ask : check_assyuku(w, r.ask[i], a.k)
            THEN r
            ELSE [ask |-> Append(r.ask, a.k), len |-> r.len + a.len]
        r == FoldLeft(take, [ask |-> <<>>, len |-> 0], w.assyuku)
    IN  [w |-> [w EXCEPT !.askknj = r.ask], len |-> r.len]

----------------------------------------------------------------------------
(* makeseg.c: writing a segment *)

\* makeseg: the segment of work, or why it cannot be written.
makeseg(w) ==
    LET ask == [i \in DOMAIN w.askknj |-> make_knjstr(w.ofsrec, w.askknj[i])]
        askbytes == FoldLeft(LAMBDA n, k : n + Bytes(k) + 1, 0, ask)
        spelling(s, k) ==
            LET c == knjcvt(k, s.ofsrec, ask)
            IN  [s EXCEPT !.knj = Put(@, s.dst, c), !.at = Append(@, s.dst),
                          !.ofsrec = set_ofsrec(@, k, s.dst), !.dst = @ + Bytes(c) + 1]
        endgroup(g, h) ==
            [g EXCEPT !.groups = Append(@, [hinsi |-> h.hinsi, at |-> g.at]), !.dst = @ + 1]
        group(s, h) ==
            endgroup(FoldLeft(spelling, [s EXCEPT !.dst = @ + 1, !.at = <<>>], h.krec), h)
        endblock(b, d, plen) ==
            [b EXCEPT !.blks = Append(@,
                [plen |-> plen, tail |-> SubSeq(d.rec.y, plen + 1, Len(d.rec.y)),
                 groups |-> b.groups])]
        block(s, d) ==
            endblock(FoldLeft(group, [s EXCEPT !.dst = @ + 3 + d.dlen, !.groups = <<>>],
                              d.rec.hrec),
                     d, Len(d.rec.y) - d.dlen)
        result(seg) ==
            [err |-> IF askbytes > MaxAskBytes THEN "ask"
                     ELSE IF seg.dst > SegLen THEN "overflow" ELSE "ok",
             seg |-> [ask |-> ask, knj |-> seg.knj, blks |-> seg.blks],
             size |-> seg.dst]
    IN  result(FoldLeft(block, [dst |-> 1 + askbytes, ofsrec |-> <<>>, knj |-> <<>>,
                                at |-> <<>>, groups |-> <<>>, blks |-> <<>>], w.douon))

\* The index after the first reading of a segment: idxpos.
IdxBytes(idx) == FoldLeft(LAMBDA n, y : n + Len(y) + 1, 0, idx)

\* makeseg, the end of it: the first reading goes to the index and the
\* segment to the file.
Written(c, m) ==
    LET idx == Append(c.dict.idx, c.work.douon[1].rec.y)
    IN  IF m.err # "ok" THEN [c EXCEPT !.status = m.err]
        ELSE IF IdxBytes(idx) >= IdxLen THEN [c EXCEPT !.status = "index"]
        ELSE [c EXCEPT !.dict = [idx |-> idx, segs |-> Append(@.segs, m.seg)],
                       !.work = NoWork]
WriteSeg(c) == Written(c, makeseg(decide_knjask(c.work).w))

----------------------------------------------------------------------------
(* makelist.c: words, blocks and segments *)

\* Mutant: the byte that ends a spelling is not counted.
douon_knj_noend(w, rec) ==
    LET count(r, k, p) ==
            [w |-> [knjhnd_set(r.w, p) EXCEPT !.ofsrec = set_ofsrec(@, k, 0)],
             aptr |-> Append(r.aptr, p), len |-> r.len + Bytes(p)]
    IN  FoldLeft(LAMBDA r, k : count(r, k, knjofscvt(k, r.w.ofsrec)),
        [w |-> w, aptr |-> <<>>, len |-> 0], Spellings(rec))

\* douon_knj: the bytes of the spellings of a block, which are counted and
\* can be referred to from now on.
douon_knj(w, rec) ==
    LET count(r, k, p) ==
            [w |-> [knjhnd_set(r.w, p) EXCEPT !.ofsrec = set_ofsrec(@, k, 0)],
             aptr |-> Append(r.aptr, p), len |-> r.len + Bytes(p) + 1]
    IN  FoldLeft(LAMBDA r, k : count(r, k, knjofscvt(k, r.w.ofsrec)),
        [w |-> w, aptr |-> <<>>, len |-> 0], Spellings(rec))

\* diff_ylen: the bytes of the reading that the block before does not have,
\* and whether the readings are in order.
diff_ylen(w, rec) ==
    LET prev == Last(w.douon).rec.y
        same == Max({n \in 0 .. Len(prev) : \A i \in 1 .. n : prev[i] = At(rec.y, i)})
    IN  IF w.douon = <<>> THEN [len |-> 0, err |-> "ok"]
        ELSE [len |-> Len(rec.y) - same,
              err |-> IF prev = rec.y THEN "same"
                      ELSE IF At(prev, same + 1) > At(rec.y, same + 1) THEN "order" ELSE "ok"]

\* make_d_list, once: the block joins the segment if it is estimated to fit;
\* <<FALSE, c>> when it has to start a segment of its own.
Placed(c, rec, k, d) ==
    LET w == c.work
        hnum == Len(rec.hrec)
        i == 1 + MaxKnjAsk + 3 * (Len(w.douon) + 1) + w.yomi + d.len
             + 2 * (w.hinsi + hnum) + w.kanji + k.len
        saved == IF i <= SegLen THEN 0 ELSE decide_knjask(k.w).len
    IN  IF d.err # "ok" THEN <<TRUE, [c EXCEPT !.status = d.err]>>
        ELSE IF i - saved <= SegLen
        THEN <<TRUE, [c EXCEPT !.work =
                 [k.w EXCEPT !.douon = Append(@, [rec |-> rec, dlen |-> d.len]),
                             !.yomi = @ + d.len, !.hinsi = @ + hnum, !.kanji = @ + k.len]]>>
        ELSE IF w.douon = <<>> THEN <<TRUE, [c EXCEPT !.status = "block"]>>
        ELSE <<FALSE, [c EXCEPT !.work = FoldLeft(knjhnd_reset, k.w, k.aptr)]>>
TryBlock(c, rec) == Placed(c, rec, douon_knj(c.work, rec), diff_ylen(c.work, rec))

\* make_d_list, and again with an empty segment.
make_d_again(s, rec) == IF s.status # "run" THEN s ELSE TryBlock(s, rec)[2]
make_d_list(c, rec) ==
    LET done(r) == IF r[1] THEN r[2] ELSE make_d_again(WriteSeg(r[2]), rec)
    IN  done(TryBlock(c, rec))

\* makelist: one word.  Words of the reading that is being gathered join it,
\* a word that is there already is dropped, and another reading first sends
\* the block that was gathered on its way.
AddWord(f, y, k, hinsi) ==
    LET hrec == f.drectmp.hrec
        at == SelectInSeq(hrec, LAMBDA h : h.hinsi = hinsi)
    IN  IF f.status # "run" THEN f
        ELSE IF at = 0
        THEN [f EXCEPT !.drectmp = [y |-> y, hrec |-> Append(hrec, [hinsi |-> hinsi, krec |-> <<k>>])]]
        ELSE IF Contains(hrec[at].krec, k) THEN f
        ELSE [f EXCEPT !.drectmp.hrec[at].krec = Append(@, k)]
makelist(c, y, k, hinsi) ==
    IF c.status # "run" THEN c
    ELSE AddWord(IF c.drectmp # NoRec /\ c.drectmp.y # y
                 THEN [make_d_list(c, c.drectmp) EXCEPT !.drectmp = NoRec] ELSE c,
                 y, k, hinsi)

\* flush_douon
flush_douon(c) ==
    LET flush(f) == IF f.status # "run" \/ f.work.douon = <<>> THEN f ELSE WriteSeg(f)
    IN  flush(IF c.drectmp = NoRec THEN c
              ELSE [make_d_list(c, c.drectmp) EXCEPT !.drectmp = NoRec])

----------------------------------------------------------------------------
(* makedict.c: the program *)

Compiler == [dict |-> dict, status |-> status, drectmp |-> drectmp, work |-> work]

Becomes(c) ==
    /\ dict' = c.dict
    /\ status' = c.status
    /\ drectmp' = c.drectmp
    /\ work' = c.work

Init ==
    /\ dict = [idx |-> <<>>, segs |-> <<>>]
    /\ q = Idle
    /\ status = "run" /\ drectmp = NoRec /\ work = NoWork /\ input = <<>>

\* readhinsi, cnvhinsi: a line that names no part of speech has one.
readhinsi(h) == IF h = <<>> THEN <<Tankan>> ELSE h

\* readline: the fields of a line have limits.
readline(l) ==
    [ok |-> /\ Len(l.yomi) \in 1 .. MaxYomi /\ Len(l.kanji) \in 1 .. MaxKanji
            /\ Len(l.hinsi) <= MaxHinsi /\ Len(l.atr) <= MaxHinsi,
     line |-> [l EXCEPT !.hinsi = readhinsi(@)]]

\* makeyomi and cnvyomi: only kana have a code in a reading.
makeyomi(y) == \A i \in DOMAIN y : y[i] < Kata

\* setline: the word of the line once per part of speech.
setline(c, l) == FoldLeft(LAMBDA d, h : makelist(d, l.yomi, makekanji(l), h), c, l.hinsi)

\* main: the next line of the text.
ReadLine(l) ==
    /\ status = "run" /\ Len(input) < MaxLines
    /\ LET r == readline(l)
       IN  /\ Becomes(IF ~r.ok \/ ~makeyomi(l.yomi) THEN [Compiler EXCEPT !.status = "format"]
                      ELSE setline(Compiler, r.line))
           /\ input' = Append(input, r.line)
    /\ UNCHANGED q

\* main at the end of the input: flush_douon and makehead.
EndOfInput ==
    /\ status = "run" /\ input # <<>>
    /\ LET f == flush_douon(Compiler)
       IN  Becomes([f EXCEPT !.status = IF @ = "run" THEN "done" ELSE @])
    /\ UNCHANGED <<q, input>>

compiler == <<status, drectmp, work, input>>

\* The engine opens what was written and looks an input up.
SearchStart(t) == status = "done" /\ dic_mu(t) /\ UNCHANGED compiler
SearchStep == (srchdict_index \/ srchdict_scan) /\ UNCHANGED compiler

Next ==
    \/ \E l \in Line : ReadLine(l)
    \/ EndOfInput
    \/ \E t \in Text : SearchStart(t)
    \/ SearchStep

\* The engine never waits in the middle of a search.
Spec == Init /\ [][Next]_vars /\ WF_vars(SearchStep)

----------------------------------------------------------------------------
(* Properties *)

\* The spelling that the engine reads: the one of the text, except that kana
\* which are only the start of their reading come back as the end of it.
AsRead(l) ==
    LET n == Len(l.kanji)
        end == SubSeq(l.yomi, Len(l.yomi) - n + 1, Len(l.yomi))
    IN  IF IsStrictPrefix(l.kanji, l.yomi) THEN end
        ELSE IF IsStrictPrefix(l.kanji, [i \in DOMAIN l.yomi |-> ToKata(l.yomi[i])])
        THEN [i \in 1 .. n |-> ToKata(end[i])]
        ELSE l.kanji

\* A search finds, of the words compiled, all of those whose readings start
\* the input and end where a clause can end, with the spellings and the parts
\* of speech they had in the text, and nothing else, whatever segments and
\* compression the compiler chose.
SearchExact ==
    q.pc = "end" =>
        LET hit(l) == /\ IsPrefix(l.yomi, q.text) /\ Len(l.yomi) <= MaxWdYomiLen
                      /\ At(q.text, Len(l.yomi) + 1) \notin Depend
        IN  FoundWords = UNION {{<<l.yomi, h, AsRead(l)>> : h \in ToSet(l.hinsi)} :
                                l \in {x \in ToSet(input) : hit(x)}}

\* A part of the spelling that runs into its own next occurrence.
Repeats(k) ==
    \E i \in DOMAIN k : \E j \in i + 1 .. Len(k) : \E n \in j - i + 1 .. Len(k) - j + 1 :
        SubSeq(k, i, i + n - 1) = SubSeq(k, j, j + n - 1)

\* What make_d_list estimates to fit into a segment fits when makeseg writes
\* it, with one exception: occurrences of a string that overlap are counted as
\* savings each, though only one of them can be replaced.
EstimateHolds == status = "overflow" => \E i \in DOMAIN input : Repeats(input[i].kanji)

\* Every search ends.
SearchEnds == q.pc # "idle" ~> q.pc = "end"

=============================================================================
