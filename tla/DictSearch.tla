----------------------------- MODULE DictSearch -----------------------------
(***************************************************************************)
(* The format of a dictionary and how the conversion engine reads it:      *)
(* srchidx.c, srchdict.c, setjrec.c, getkanji.c, charsize.c, skipkstr.c,   *)
(* skiphblk.c, istrcmp.c, dict.c and init.c of sj3core.                    *)
(*                                                                         *)
(* A character is a number: a hiragana is its reading code, a katakana the *)
(* same code plus Kata, a kanji a number above 2 * Kata.  A spelling is    *)
(* kept as a sequence of codes                                             *)
(*     <<"chr", c>>  a character           <<"atr", a>>  an attribute      *)
(*     <<"hira", n>> n characters of the reading                           *)
(*     <<"kata", n>> the same in katakana                                  *)
(*     <<"ofs", o>>  the spelling at offset o of the segment               *)
(*     <<"ask", i>>  the i-th common string of the segment                 *)
(* A segment has its common strings (ask), its spellings by their offset   *)
(* (knj) and its blocks (blks): how much of the reading is shared with the *)
(* block before (plen), the rest of it (tail), and the groups of           *)
(* spellings of one part of speech.                                        *)
(***************************************************************************)
EXTENDS Integers, Sequences, FiniteSets, SequencesExt, FiniteSetsExt

CONSTANTS
    Kata,         \* distance of a katakana from its hiragana
    Depend,       \* DEPEND of Chrtbl: characters that cannot start a clause
    Text,         \* inputs to look up
    MaxWdYomiLen  \* MAXWDYOMILEN

VARIABLES
    dict,         \* the file: [idx: first readings, segs: segments]
    q             \* the search: cnvstart, prevseg, tagp, dicinl, dicsaml

Idle == [pc |-> "idle", text |-> <<>>, seg |-> 0, blk |-> 0, inl |-> 0, saml |-> 0,
         hits |-> <<>>]

codesize(t) == IF t[1] \in {"hira", "kata", "ask"} THEN 1 ELSE 2

\* The bytes of a sequence of codes.
Bytes(k) == FoldLeft(LAMBDA n, t : n + codesize(t), 0, k)

----------------------------------------------------------------------------
(* Spellings *)

ToKata(c) == IF c < Kata THEN c + Kata ELSE c

\* Mutant: kana always come from the start of the reading.
CodeChars_start(t, y, flg) ==
    CASE t[1] = "hira" -> SubSeq(y, 1, t[2])
      [] t[1] = "kata" -> [i \in 1 .. t[2] |-> ToKata(y[i])]
      [] t[1] = "chr" -> <<t[2]>>
      [] OTHER -> <<>>

\* getkan_hira, getkan_kata, getkan_norm, getkan_none: the characters of one
\* code.  At the very end of a spelling (flg) kana are taken from the end of
\* the reading, everywhere else from its start.
CodeChars(t, y, flg) ==
    LET n == t[2]
        kana == IF flg THEN SubSeq(y, Len(y) - n + 1, Len(y)) ELSE SubSeq(y, 1, n)
    IN  CASE t[1] = "hira" -> kana
          [] t[1] = "kata" -> [i \in DOMAIN kana |-> ToKata(kana[i])]
          [] t[1] = "chr" -> <<n>>
          [] OTHER -> <<>>

\* getkanji, code2kanji, getkan_ofs and getkan_knj: the characters of the
\* spelling at offset o for reading y.
getkanji(seg, y, o) ==
    LET ask(a, flg) ==
            FlattenSeq([j \in DOMAIN a |-> CodeChars(a[j], y, flg /\ j = Len(a))])
        code2kanji[p \in (DOMAIN seg.knj) \X BOOLEAN] ==
            LET k == seg.knj[p[1]]
            IN  FlattenSeq([j \in DOMAIN k |->
                    LET flg == p[2] /\ j = Len(k)
                    IN  CASE k[j][1] = "ofs" -> code2kanji[<<k[j][2], flg>>]
                          [] k[j][1] = "ask" -> ask(seg.ask[k[j][2]], flg)
                          [] OTHER -> CodeChars(k[j], y, flg)])
    IN  code2kanji[<<o, TRUE>>]

----------------------------------------------------------------------------
(* Finding the blocks whose readings start the input *)

\* The n-th byte of a reading or an input; 0 ends it.
At(s, n) == IF n \in DOMAIN s THEN s[n] ELSE 0

\* istrcmp: the first len bytes of the input against a reading.
istrcmp(y, x) ==
    LET d == {i \in 1 .. Len(y) + 1 : At(y, i) # At(x, i)}
    IN  IF d = {} THEN "MATCH" ELSE IF At(y, Min(d)) < At(x, Min(d)) THEN "OVER" ELSE "UNDER"

\* srchidx: binary search of the index from segment low on.
srchidx(low, len) ==
    LET n == Len(dict.idx)
        cmp(i) == istrcmp(SubSeq(q.text, 1, len), dict.idx[i])
        search[b \in (1 .. n + 1) \X (0 .. n)] ==
            LET mid == (b[1] + b[2]) \div 2
                next == CASE cmp(mid) = "OVER" -> <<b[1], mid - 1>>
                          [] cmp(mid) = "UNDER" -> <<mid + 1, b[2]>>
                          [] OTHER -> <<1, 0>>
            IN  IF next[1] <= next[2] THEN search[next]
                ELSE IF cmp(mid) = "OVER" /\ mid # 1 THEN mid - 1 ELSE mid
    IN  IF n < 2 THEN 1 ELSE search[<<IF low = 0 THEN 1 ELSE low, n>>]

Blocks(s) == dict.segs[s].blks

\* yomicmp: the input against the block, saml bytes of it known to match the
\* block before.  <<verdict, saml>>.
yomicmp(b, saml) ==
    LET first == b.tail = <<>>
        x == IF first THEN dict.idx[q.seg] ELSE b.tail
        same == IF first \/ b.plen > saml THEN saml ELSE b.plen
        from == IF first THEN saml ELSE 0
        rest == {i \in 1 .. Len(x) - from : At(q.text, same + i) # x[from + i]}
    IN  IF first /\ \E i \in 1 .. saml : At(q.text, i) # At(x, i) THEN <<"OVER", saml>>
        ELSE IF ~first /\ b.plen > saml THEN <<"CONT", saml>>
        ELSE IF rest = {} THEN <<"MATCH", same + Len(x) - from>>
        ELSE IF At(q.text, same + Min(rest)) > x[from + Min(rest)]
        THEN <<"CONT", same + Min(rest) - 1>>
        ELSE <<"OVER", saml>>

Maxlen == Min({Len(q.text), MaxWdYomiLen})

\* dic_mu: a search of the dictionary starts.
dic_mu(t) ==
    /\ q.pc = "idle"
    /\ q' = [Idle EXCEPT !.pc = "index", !.text = t, !.inl = 1]
    /\ UNCHANGED dict

\* Mutant: at the end of a segment the search does not go on to the next.
srchdict_index_stay ==
    /\ q.pc = "index"
    /\ UNCHANGED dict
    /\ LET s == srchidx(q.seg, q.inl)
           blk == IF s = q.seg THEN Min({q.blk + 1, Len(Blocks(s)) + 1}) ELSE 1
       IN  q' = IF q.inl > Maxlen THEN [q EXCEPT !.pc = "end"]
                ELSE [q EXCEPT !.pc = "scan", !.seg = s, !.blk = blk]

\* srchdict, a turn of the outer loop: the segment by the index, and the
\* first or the next block of it, or the first of the segment after it.
srchdict_index ==
    /\ q.pc = "index"
    /\ UNCHANGED dict
    /\ LET s == srchidx(q.seg, q.inl)
           next == Min({q.blk + 1, Len(Blocks(s)) + 1})
           go(seg, blk) == q' = [q EXCEPT !.pc = "scan", !.seg = seg, !.blk = blk]
       IN  \/ q.inl > Maxlen /\ q' = [q EXCEPT !.pc = "end"]
           \/ q.inl <= Maxlen /\ s # q.seg /\ go(s, 1)
           \/ q.inl <= Maxlen /\ s = q.seg /\ next <= Len(Blocks(s)) /\ go(s, next)
           \/ /\ q.inl <= Maxlen /\ s = q.seg /\ next > Len(Blocks(s))
              /\ IF s + 1 > Len(dict.segs) THEN q' = [q EXCEPT !.pc = "end"] ELSE go(s + 1, 1)

\* srchdict, a turn of the inner loop.  A block that matches is handed to
\* setjrec unless the input goes on with a character that cannot start a
\* clause, and the search then goes on behind it.
srchdict_scan ==
    /\ q.pc = "scan"
    /\ UNCHANGED dict
    /\ IF q.blk > Len(Blocks(q.seg))
       THEN q' = [q EXCEPT !.pc = "index", !.inl = q.saml + 1]
       ELSE LET r == yomicmp(Blocks(q.seg)[q.blk], q.saml)
            IN  \/ /\ r[2] > Maxlen \/ r[1] = "OVER"
                   /\ q' = [q EXCEPT !.pc = "end"]
                \/ /\ r[2] <= Maxlen /\ r[1] = "CONT"
                   /\ q' = [q EXCEPT !.saml = r[2], !.blk = q.blk + 1]
                \/ /\ r[2] <= Maxlen /\ r[1] = "MATCH"
                   /\ q' = [q EXCEPT !.pc = "index", !.saml = r[2], !.inl = r[2] + 1,
                                     !.hits = IF At(q.text, r[2] + 1) \in Depend THEN @
                                              ELSE Append(@, <<q.seg, q.blk>>)]

\* setjrec: the words of a block that was found, with the reading that the
\* input gives them.
setjrec(h) ==
    LET seg == dict.segs[h[1]]
        b == seg.blks[h[2]]
        y == SubSeq(q.text, 1, b.plen + Len(b.tail))
    IN  {<<y, g.hinsi, getkanji(seg, y, o)>> : <<g, o>> \in
            UNION {{g} \X ToSet(g.at) : g \in ToSet(b.groups)}}

FoundWords == UNION {setjrec(q.hits[i]) : i \in DOMAIN q.hits}

=============================================================================
