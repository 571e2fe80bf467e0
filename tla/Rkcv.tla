-------------------------------- MODULE Rkcv --------------------------------
(***************************************************************************)
(* Romaji-to-kana conversion (lib/sj3rkcv/rk_conv.c): the table built from *)
(* the lines of a rule file, the keystroke converter sj3_rkconvc with its  *)
(* pending romaji (rline), its undo buffer (lstr) and its cached position  *)
(* in the table (rktblp), and the whole-string converter sj3_rkconv_w16.   *)
(*                                                                         *)
(* A character is a number: 1..9 are upper-case letters, 11..19 the        *)
(* lower-case ones, 21..29 wide characters (above 0xff) whose low byte is  *)
(* the letter 1..9.  A kana is any number.  The application is modelled by  *)
(* the text it shows: it applies the codes sj3_rkconvc returns to `screen'.*)
(***************************************************************************)
EXTENDS Integers, Sequences, SequencesExt

CONSTANTS
    Letters,    \* what the user can type, besides the erase key
    Files,      \* the rule files that exist: sequences of lines
    MaxScreen   \* bound on the text shown

\* A line has a key and a kana: getkey and rkgetyomi refuse empty ones.
Letter == 1..9
Char == Letter \cup 11..19 \cup 21..29
Line == [key : Seq(Letter) \ {<<>>}, kana : Seq(Nat) \ {<<>>}, rest : Seq(Letter)]
ASSUME RkcvAssumption ==
    /\ Letters \subseteq Char
    /\ Files \subseteq Seq(Line)
    /\ MaxScreen \in Nat

VARIABLES
    rcode,      \* sj3_rcode_w16: letter -> list of entries, in list order
    rk_errin,   \* refuse a key that matches nothing?
    rline,      \* pending romaji
    lstr,       \* romaji that were pending before the last conversion
    rktblp,     \* cached entry: its list and place in it, or NULL
    rk_cflag,   \* keys pending since the last conversion; negative: none
    rk_klen,    \* codes the last conversion put on the screen
    screen,     \* what the application shows (ghost)
    before,     \* what it showed before the last conversion (ghost)
    typed,      \* the keys accepted since the last clear, if none was erased
    erased,     \* has the erase key been used since then? (ghost)
    stale,      \* was rktblp kept over an erase? (ghost)
    file        \* the rule file in use (ghost)

rkvars == <<rline, lstr, rktblp, rk_cflag, rk_klen>>
ghosts == <<screen, before, typed, erased, stale>>
vars == <<rcode, rk_errin, rkvars, ghosts, file>>

NULL == <<>>
None == 0
Upper(c) == IF c \in 11..19 THEN c - 10 ELSE c
Wide(c) == c > 20
LowByte(c) == IF Wide(c) THEN c - 20 ELSE c
WTOUPPER(c) == Upper(LowByte(c))

-----------------------------------------------------------------------------
(* Building the table. *)

\* wscmp(a, b) > 0
After(a, b) ==
    \/ IsStrictPrefix(b, a)
    \/ \E i \in 1..Len(a) :
          /\ i <= Len(b)
          /\ a[i] > b[i]
          /\ SubSeq(a, 1, i - 1) = SubSeq(b, 1, i - 1)

\* A remainder is kept only if it is shorter than the key and occurs in it.
chk_rstr(rstr, rkey) ==
    /\ Len(rstr) < Len(rkey)
    /\ \E i \in 0..(Len(rkey) - Len(rstr)) :
          SubSeq(rkey, i + 1, i + Len(rstr)) = rstr

\* Where a key goes in its list: before the first entry that it follows in
\* wscmp order and that is no longer; an empty r_key (NULL) ends the list.
mktable_place(list, key) ==
    LET stop(i) == \/ list[i].r_key = <<>>
                   \/ /\ After(key, list[i].r_key)
                      /\ Len(list[i].r_key) <= Len(key)
        here == {i \in 1..Len(list) : stop(i)}
    IN  IF here = {} THEN Len(list) + 1
        ELSE CHOOSE i \in here : \A j \in here : i <= j

\* One line of the file: key, kana and optional remainder.  The first line
\* with a key wins.
AddLine(t, ln) ==
    LET c == Head(ln.key)
        key == Tail(ln.key)
        list == t[c]
        r == IF chk_rstr(ln.rest, ln.key) THEN ln.rest ELSE <<>>
        e == [r_key |-> key, k_yomi |-> ln.kana, r_str |-> r]
    IN  IF \E i \in 1..Len(list) : list[i].r_key = key THEN t
        ELSE [t EXCEPT ![c] = InsertAt(list, mktable_place(list, key), e)]

cltable == [c \in Letter |-> <<>>]

sj3_rkinit_sub(lines) ==
    LET table[n \in 0..Len(lines)] ==      \* after n lines
          IF n = 0 THEN cltable ELSE AddLine(table[n - 1], lines[n])
    IN  table[Len(lines)]

-----------------------------------------------------------------------------
(* Matching. *)

CONTINUE == 0
NOMACH == -1

\* rkmatch: how many characters of w the entry (its first letter included)
\* takes, CONTINUE when w is a proper start of it, NOMACH otherwise.
rkmatch(w, e) ==
    LET rest == Tail(w)
        m == Len(e.r_key)
        same(i) == ~Wide(rest[i]) /\ WTOUPPER(rest[i]) = e.r_key[i]
    IN  IF m = 0 THEN 1
        ELSE IF \E i \in 1..Len(rest) : i <= m /\ ~same(i) THEN NOMACH
        ELSE IF Len(rest) < m THEN CONTINUE
        ELSE IF \E i \in (m + 1)..Len(rest) : i = m + 1 /\ Wide(rest[i])
        THEN NOMACH
        ELSE m + 1

\* The first entry of the list from position p on that does not refuse w;
\* None when there is none.
Find(list, p, w) ==
    LET ok == {i \in p..Len(list) : rkmatch(w, list[i]) # NOMACH}
    IN  IF ok = {} THEN None ELSE CHOOSE i \in ok : \A j \in ok : i <= j

\* What is left of w when n characters match an entry with remainder s: s
\* as the user typed it where it can be, then the unmatched characters.
Leftover(w, n, s) ==
    LET back == [i \in 1..Len(s) |->
                   LET q == w[n - Len(s) + i]
                   IN  IF s[i] = WTOUPPER(q) THEN q ELSE s[i]]
    IN  back \o SubSeq(w, n + 1, Len(w))

Kana(k, n) == [k |-> "kana", c |-> k, n |-> n]
Romaji(c) == [k |-> "romaji", c |-> c]

\* Mutant: only the first kana of an entry is returned.
MatchCodes_first(e, n) == <<Kana(e.k_yomi[1], n - Len(e.r_str))>>

\* The codes of one match: the first carries the number of characters used.
MatchCodes(e, n) ==
    [i \in 1..Len(e.k_yomi) |->
       Kana(e.k_yomi[i], IF i = 1 THEN n - Len(e.r_str) ELSE 0)]

\* One search of a list, and what it makes of the string.  Only a search at
\* the start of the string, or one after a dropped character, tests for a wide
\* character.
Search(s, strict) ==
    LET fresh == s.p = NULL
        c == IF fresh THEN WTOUPPER(Head(s.w)) ELSE s.p[1]
        list == IF Wide(Head(s.w)) /\ ~s.wide THEN <<>> ELSE rcode[c]
        i == Find(list, IF fresh THEN 1 ELSE s.p[2], s.w)
        e == list[i]
        m == rkmatch(s.w, e)
        rest == Leftover(s.w, m, e.r_str)
    IN  IF i # None /\ m = CONTINUE
        THEN [s EXCEPT !.p = <<c, i>>, !.done = TRUE]
        ELSE IF i # None
        THEN [s EXCEPT !.w = rest, !.p = NULL, !.out = @ \o MatchCodes(e, m),
                       !.wide = TRUE, !.done = (m = Len(s.w))]
        ELSE IF Len(s.w) = 1
        THEN [s EXCEPT !.w = <<>>, !.p = NULL, !.done = TRUE,
                       !.out = Append(@, Kana(s.w[1], 1))]
        ELSE IF strict
        THEN [s EXCEPT !.ok = FALSE, !.p = NULL, !.done = TRUE]
        ELSE [s EXCEPT !.w = Tail(@), !.p = NULL, !.wide = FALSE,
                       !.out = Append(@, Kana(s.w[1], 1))]

\* Convert w0 as far as the table allows; the first search starts at p0.
\* Result: ok (FALSE is NOMACH), the codes, what is still pending and the
\* new cached position.
sj3_rkconv2(w0, p0, strict) ==
    LET after[n \in 0..(Len(w0) + 1)] ==       \* after n searches
          IF n = 0
          THEN [w |-> w0, p |-> p0, wide |-> FALSE, out |-> <<>>,
                ok |-> TRUE, done |-> FALSE]
          ELSE LET s == after[n - 1] IN IF s.done THEN s ELSE Search(s, strict)
    IN  after[Len(w0) + 1]

-----------------------------------------------------------------------------
(* The commands sj3_rkconvc returns, and what the application makes of them. *)

\* ERRCODE + erase removes a romaji, a plain erase what is last, the others
\* add a character.  A command the screen cannot follow leaves a "?".
Show(scr, cmd) ==
    IF cmd.k = "back_romaji"
    THEN IF scr # <<>> /\ Last(scr).k = "romaji" THEN Front(scr)
         ELSE Append(scr, [k |-> "?"])
    ELSE IF cmd.k = "back"
    THEN IF scr = <<>> THEN scr
         ELSE IF Last(scr).k = "romaji" THEN Append(scr, [k |-> "?"])
         ELSE Front(scr)
    ELSE Append(scr, cmd)

ShowAll(scr, cmds) ==
    LET shown[n \in 0..Len(cmds)] ==
          IF n = 0 THEN scr ELSE Show(shown[n - 1], cmds[n])
    IN  shown[Len(cmds)]
Back(k) == [k |-> k]
Times(k, n) == [i \in 1..n |-> Back(k)]
Pending(w) == [i \in 1..Len(w) |-> Romaji(w[i])]

-----------------------------------------------------------------------------
Init ==
    /\ rcode = cltable /\ file = <<>>
    /\ rk_errin = FALSE
    /\ rline = <<>> /\ lstr = <<>> /\ rktblp = NULL
    /\ rk_cflag = -1 /\ rk_klen = 0
    /\ screen = <<>> /\ before = <<>> /\ typed = <<>>
    /\ erased = FALSE /\ stale = FALSE

\* sj3_rkclear; the application starts a new line with it.
Clear ==
    /\ rline' = <<>> /\ lstr' = <<>> /\ rktblp' = NULL
    /\ rk_cflag' = -1 /\ rk_klen' = 0
    /\ screen' = <<>> /\ before' = <<>> /\ typed' = <<>>
    /\ erased' = FALSE /\ stale' = FALSE

\* Loading a rule file; applications do so between two lines.
sj3_rkinit(f) ==
    /\ typed = <<>> /\ ~erased
    /\ file' = f
    /\ rcode' = sj3_rkinit_sub(f)
    /\ Clear
    /\ UNCHANGED rk_errin

sj3_rkclear ==
    /\ typed # <<>> \/ erased
    /\ Clear
    /\ UNCHANGED <<rcode, rk_errin, file>>

\* sj3_rkreset: the last conversion can no longer be undone.
sj3_rkreset ==
    /\ rk_cflag' = -1
    /\ before' = <<>>
    /\ UNCHANGED <<rcode, rk_errin, rline, lstr, rktblp, rk_klen, screen,
                   typed, erased, stale, file>>

\* Likewise set between two lines.
sj3_rkebell(err) ==
    /\ typed = <<>> /\ ~erased
    /\ rk_errin' = err
    /\ UNCHANGED <<rcode, rkvars, ghosts, file>>

\* Mutant: rk_klen is taken to be one kana.
EraseConversion_one ==
    LET cmds == Times("back_romaji", Len(rline)) \o Times("back", 1)
                \o Pending(lstr)
    IN  /\ rk_cflag = 0
        /\ screen' = ShowAll(screen, cmds)
        /\ rline' = lstr
        /\ rktblp' = NULL
        /\ rk_cflag' = -1
        /\ erased' = TRUE /\ stale' = FALSE
        /\ typed' = <<>> /\ before' = <<>>
        /\ UNCHANGED <<rcode, rk_errin, lstr, rk_klen, file>>

\* The erase key just after a conversion takes the conversion back.
EraseConversion ==
    LET cmds == Times("back_romaji", Len(rline)) \o Times("back", rk_klen)
                \o Pending(lstr)
    IN  /\ rk_cflag = 0
        /\ screen' = ShowAll(screen, cmds)
        /\ rline' = lstr
        /\ rktblp' = NULL
        /\ rk_cflag' = -1
        /\ erased' = TRUE /\ stale' = FALSE
        /\ typed' = <<>> /\ before' = <<>>
        /\ UNCHANGED <<rcode, rk_errin, lstr, rk_klen, file>>

MinCflag == -2   \* bound on the count of erases

\* Mutant: the cached position is dropped one erase too late.
EraseKey_keep ==
    /\ rk_cflag # 0 /\ rk_cflag > MinCflag
    /\ screen' = Show(screen, Back(IF rline = <<>> THEN "back" ELSE "back_romaji"))
    /\ rk_cflag' = rk_cflag - 1
    /\ rline' = IF rline = <<>> THEN rline ELSE Front(rline)
    /\ rktblp' = IF Len(rline) < 1 THEN NULL ELSE rktblp
    /\ stale' = (rktblp' # NULL)
    /\ erased' = TRUE
    /\ typed' = <<>>
    /\ UNCHANGED <<rcode, rk_errin, lstr, rk_klen, before, file>>

\* Otherwise it removes one character.  The cached position is dropped when
\* none is left and stays, although found for longer romaji, when some are.
EraseKey ==
    /\ rk_cflag # 0 /\ rk_cflag > MinCflag
    /\ screen' = Show(screen, Back(IF rline = <<>> THEN "back" ELSE "back_romaji"))
    /\ rk_cflag' = rk_cflag - 1
    /\ rline' = IF rline = <<>> THEN rline ELSE Front(rline)
    /\ rktblp' = IF Len(rline) <= 1 THEN NULL ELSE rktblp
    /\ stale' = (rktblp' # NULL)
    /\ erased' = TRUE
    /\ typed' = <<>>
    /\ UNCHANGED <<rcode, rk_errin, lstr, rk_klen, before, file>>

\* sj3_rkconvc with a character: it waits for more, is refused, or converts.
sj3_rkconvc(c) ==
    LET key(r) ==
        /\ \/ /\ r.ok /\ r.out = <<>>
              /\ rline' = Append(rline, c)
              /\ rktblp' = r.p
              /\ rk_cflag' = IF rk_cflag >= 0 THEN rk_cflag + 1 ELSE rk_cflag
              /\ screen' = Show(screen, Romaji(c))
              /\ typed' = IF erased THEN <<>> ELSE Append(typed, c)
              /\ UNCHANGED <<lstr, rk_klen, before, stale>>
           \/ /\ ~r.ok
              /\ UNCHANGED <<rkvars, screen, before, typed, stale>>
           \/ /\ r.ok /\ r.out # <<>>
              /\ rk_cflag' = 0
              /\ rk_klen' = Len(r.out)
              /\ screen' = ShowAll(screen, Times("back_romaji", Len(rline))
                                          \o r.out \o Pending(r.w))
              /\ before' = screen
              /\ lstr' = rline
              /\ rline' = r.w
              /\ rktblp' = r.p
              /\ typed' = IF erased THEN <<>> ELSE Append(typed, c)
              /\ stale' = FALSE
        /\ UNCHANGED <<rcode, rk_errin, erased, file>>
    IN  /\ Len(screen) < MaxScreen
        /\ key(sj3_rkconv2(Append(rline, c), rktblp, rk_errin))

Next ==
    \/ \E f \in Files : sj3_rkinit(f)
    \/ sj3_rkclear
    \/ sj3_rkreset
    \/ \E err \in BOOLEAN : sj3_rkebell(err)
    \/ EraseConversion
    \/ EraseKey
    \/ \E c \in Letters : sj3_rkconvc(c)

Spec == Init /\ [][Next]_vars

-----------------------------------------------------------------------------
(* The whole-string converter, as sj3demo's rkconvs uses it. *)

\* One call: how much was used (n), the kana, what is left.  A string of two
\* or more characters whose first has no entry at all returns a variable that
\* was never set: undef.
sj3_rkconv_w16(w) ==
    LET list == IF Wide(Head(w)) THEN <<>> ELSE rcode[WTOUPPER(Head(w))]
        i == Find(list, 1, w)
        m == rkmatch(w, list[i])
    IN  IF i # None /\ m = CONTINUE
        THEN [n |-> CONTINUE, kana |-> <<>>, w |-> w, undef |-> FALSE]
        ELSE IF i # None
        THEN [n |-> m, kana |-> list[i].k_yomi,
              w |-> Leftover(w, m, list[i].r_str), undef |-> FALSE]
        ELSE IF Len(w) = 1
        THEN [n |-> 1, kana |-> w, w |-> <<>>, undef |-> FALSE]
        ELSE [n |-> NOMACH, kana |-> <<>>, w |-> w, undef |-> list = <<>>]

\* rkconvs gives the characters one by one and calls until all were used or
\* more are needed; a character that cannot start anything is copied.
RkconvsCall(t) ==
    LET r == sj3_rkconv_w16(t.w)
    IN  IF r.undef THEN [t EXCEPT !.undef = TRUE, !.more = FALSE]
        ELSE IF r.n = CONTINUE THEN [t EXCEPT !.more = FALSE]
        ELSE IF r.n = NOMACH
        THEN [t EXCEPT !.w = Tail(@), !.kana = Append(@, t.w[1])]
        ELSE [t EXCEPT !.w = r.w, !.kana = @ \o r.kana, !.more = r.n < Len(t.w)]

RkconvsKey(s, c) ==
    LET after[n \in 0..(Len(s.w) + 2)] ==      \* after n calls
          IF n = 0 THEN [s EXCEPT !.w = Append(@, c), !.more = TRUE]
          ELSE LET t == after[n - 1] IN IF t.more THEN RkconvsCall(t) ELSE t
    IN  after[Len(s.w) + 2]

rkconvs(romaji) ==
    LET given[n \in 0..Len(romaji)] ==
          IF n = 0 THEN [w |-> <<>>, kana |-> <<>>, more |-> FALSE, undef |-> FALSE]
          ELSE RkconvsKey(given[n - 1], romaji[n])
    IN  given[Len(romaji)]

-----------------------------------------------------------------------------
(* Properties. *)

\* The screen is converted text followed by exactly rline.
ScreenFollows ==
    LET n == Len(screen) - Len(rline)
    IN  /\ n >= 0
        /\ SubSeq(screen, n + 1, Len(screen)) = Pending(rline)
        /\ \A i \in 1..n : screen[i].k = "kana"

\* The codes sj3_rkconvc returns always rebuild what it believes to be
\* pending, after any mix of keys, erases and conversions taken back, and the
\* erase key gives back the screen as it was before the key that caused the
\* last conversion, however many keys were typed and erased since: rk_klen and
\* lstr still describe what is shown when rk_cflag has come back to 0.
UndoExact == [][ScreenFollows' /\ (EraseConversion => screen' = before)]_vars

\* Typing a word and converting it with sj3_rkconv give the same kana and the
\* same pending romaji, unless the latter returns an unset variable.
KeysAgreeWithString ==
    ~erased /\ (\A i \in 1..Len(typed) : ~Wide(typed[i])) =>
        LET same(r, n) == r.undef \/ /\ rline = r.w
                                     /\ Len(r.kana) = n
                                     /\ \A i \in 1..n : screen[i].c = r.kana[i]
            agree(r) == same(r, Len(screen) - Len(r.w))
        IN  agree(rkconvs(typed))

\* An entry in front of the cached one would take w, or wait for more of it.
Overlooked(w) ==
    LET list == rcode[rktblp[1]]
    IN  \E i \in 1..Len(list) : i < rktblp[2] /\ rkmatch(w, list[i]) # NOMACH

\* The cached position gives what a search of the whole list gives, unless it
\* was kept over an erase and hides an entry that would take the romaji.
HintExact ==
    \A c \in Letters, strict \in BOOLEAN :
        LET w == Append(rline, c)
        IN  \/ sj3_rkconv2(w, rktblp, strict) = sj3_rkconv2(w, NULL, strict)
            \/ stale /\ Overlooked(w)

\* The entry that the search of the table ends at.
TableExact ==
    typed = <<>> /\ ~erased =>
    \A c, d, e \in UNION {ToSet(file[i].key) : i \in 1..Len(file)} : \A n \in 1..3 :
        LET w == SubSeq(<<c, d, e>>, 1, n)
            keys == {file[i].key : i \in 1..Len(file)}
            longer == {k \in keys : IsStrictPrefix(w, k)}
            fits == {k \in keys : IsPrefix(k, w)}
            best == CHOOSE k \in fits : \A j \in fits : Len(j) <= Len(k)
            ln == file[CHOOSE i \in 1..Len(file) :
                         /\ file[i].key = best
                         /\ \A j \in 1..(i - 1) : file[j].key # best]
            i == Find(rcode[c], 1, w)
        IN  IF longer # {} THEN i # None /\ rkmatch(w, rcode[c][i]) = CONTINUE
            ELSE IF fits = {} THEN i = None
            ELSE /\ i # None
                 /\ rkmatch(w, rcode[c][i]) = Len(best)
                 /\ rcode[c][i].k_yomi = ln.kana

\* Whatever the order of the lines, the table waits while the romaji start a
\* longer key and otherwise takes the longest key they start with; of lines
\* with one key the first counts.  The conversion that starts at the cached
\* position rktblp is the one of the whole list, with one exception that the
\* code makes: erasing one of two or more romaji keeps the position found for
\* the longer ones, and the entries in front of it are then not looked at, so
\* that with keys TYA and TNA the keys T N erase Y A do not give what T Y A
\* give.  HintExact says that this is all a kept position can do.
LookupExact == HintExact /\ TableExact

=============================================================================
