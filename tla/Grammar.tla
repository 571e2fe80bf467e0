------------------------------ MODULE Grammar -------------------------------
(***************************************************************************)
(* The scans of the engine's grammar tables (setconj.c, fuzoku.c,          *)
(* setubi.c) and the chain of classes they lead through, over the tables   *)
(* as they are.                                                            *)
(*                                                                         *)
(* A scan goes through a table once and relies on the order of its         *)
(* readings: it skips what cannot match by the length that matched so far  *)
(* and stops at the first reading behind the text.  Bunsetu takes for      *)
(* granted that a scan finds every entry the text starts with; here a text *)
(* is typed behind a stem character by character, as long as something of  *)
(* a table may still match, and each scan is held against that.            *)
(***************************************************************************)
EXTENDS Codes, Endings, FuzokuWords, FiniteSets, SequencesExt

CONSTANTS
    Letter,     \* the characters typed
    MAXFLVL,    \* functional words in a row
    CREC        \* endings mkbunsetu has room for (crec[4])

ASSUME GrammarAssumption ==
    /\ Letter \subseteq DOMAIN YCode
    /\ {MAXFLVL, CREC} \subseteq Nat \ {0}

C == INSTANCE Connect

VARIABLES
    tbl,        \* the table the text is compared with, <<kind, name>>
    text,       \* what was typed behind the stem, or behind the first kana
    found,      \* the entries a scan finds in it, with their lengths
    right,      \* the class the words so far end with, or "" when scanning
    level       \* functional words so far

vars == <<tbl, text, found, right, level>>

Start == <<"start", "">>
Chain == <<"chain", "">>
Table == {<<"cnj", n>> : n \in DOMAIN Tables}
         \cup {<<"fzk", k>> : k \in DOMAIN fzkadr}
         \cup {<<"stb", n>> : n \in DOMAIN stbtables}

-----------------------------------------------------------------------------
(* Comparing.  What is behind the end of a text reads as 0.                *)

At(t, i) == IF i \in DOMAIN t THEN YCode[t[i]] ELSE 0
isdpnd(t, i) == i \in DOMAIN t /\ t[i] \in DEPEND

\* How many characters of y the text has from behind the first n on.
Same(t, n, y) ==
    CHOOSE k \in 0..Len(y) :
        /\ \A i \in 1..k : At(t, n + i) = YCode[y[i]]
        /\ k < Len(y) => At(t, n + k + 1) # YCode[y[k + 1]]

\* sstrncmp, behind the first n characters of the text.
sstrncmp(t, n, y) ==
    LET k == Same(t, n, y)
        ch == At(t, n + k + 1)
    IN  IF k = Len(y) THEN "MATCH"
        ELSE IF ch > YCode[y[k + 1]] THEN "CONT"
        ELSE IF ch = 0 THEN "PARTLY" ELSE "OVER"

\* Mutant: one character less is enough to go on with an entry.
strcmp_short(t, e, saml) ==
    IF saml < e.ask - 1 THEN [cmp |-> "CONT", saml |-> saml]
    ELSE IF saml > e.ask THEN [cmp |-> "OVER", saml |-> saml]
    ELSE [cmp |-> sstrncmp(t, e.ask, e.nkr),
          saml |-> saml + Same(t, e.ask, e.nkr)]

\* cnjstrcmp and fzkstrcmp: saml characters matched the readings so far.
strcmp(t, e, saml) ==
    IF saml < e.ask THEN [cmp |-> "CONT", saml |-> saml]
    ELSE IF saml > e.ask THEN [cmp |-> "OVER", saml |-> saml]
    ELSE [cmp |-> sstrncmp(t, e.ask, e.nkr),
          saml |-> saml + Same(t, e.ask, e.nkr)]

Stops(cmp) == cmp \in {"OVER", "PARTLY"}

\* One entry: s holds the entries found, with their lengths, the length that
\* matched so far, and whether the scan has stopped.
Look(t, s, e) ==
    LET r == strcmp(t, e, s.saml)
    IN  IF s.stop THEN s
        ELSE [n |-> s.n + 1, saml |-> r.saml, stop |-> Stops(r.cmp),
              hits |-> IF r.cmp = "MATCH" /\ ~isdpnd(t, r.saml + 1)
                        THEN Append(s.hits, <<s.n + 1, r.saml>>) ELSE s.hits]

\* The loops of setconj and srchfzk.
Scan(t, entries) ==
    FoldLeft(LAMBDA s, e : Look(t, s, e),
             [n |-> 0, saml |-> 0, stop |-> FALSE, hits |-> <<>>], entries).hits

\* The loop of setubi, whose entries have their whole reading.
setubi(t, entries) ==
    LET look(s, e) ==
            LET n == Len(e.yomi)
                cmp == sstrncmp(t, 0, e.yomi)
            IN  IF s.stop THEN s
                ELSE [n |-> s.n + 1, stop |-> Stops(cmp),
                      hits |-> IF cmp = "MATCH" /\ ~isdpnd(t, n + 1)
                                THEN Append(s.hits, <<s.n + 1, n>>) ELSE s.hits]
    IN  FoldLeft(look, [n |-> 0, stop |-> FALSE, hits |-> <<>>], entries).hits

-----------------------------------------------------------------------------
(* Endings.                                                                *)

\* The long vowels in front that setconj skips for this table.
Tyouon(n, t) ==
    IF n \notin TYOUONFLG THEN 0
    ELSE CHOOSE k \in 0..Len(t) :
            /\ \A i \in 1..k : t[i] = "TYOUON"
            /\ k < Len(t) => t[k + 1] # "TYOUON"
Behind(t, k) == SubSeq(t, k + 1, Len(t))

Between(r, a, b) == RCode[r] \in RCode[a]..RCode[b]
HBetween(h, a, b) == HCode[h] \in HCode[a]..HCode[b]
Shift(r, n) == Right[RCode[r] + n]

\* Mutant: the forms behind the prefix are one further.
cnvrow_next(h, stt, r) ==
    IF stt = "O" /\ Between(r, "RENYOU1", "SA5RENYOU1") THEN Shift(r, 7)
    ELSE IF stt = "O" /\ Between(r, "RENYOU3", "SA5RENYOU3") THEN Shift(r, 4)
    ELSE r

\* cnvrow: the class with the prefix stt before the stem, "" for none.
cnvrow(h, stt, r) ==
    CASE stt = "O" /\ Between(r, "RENYOU1", "SA5RENYOU1") -> Shift(r, 6)
      [] stt = "O" /\ Between(r, "RENYOU3", "SA5RENYOU3") -> Shift(r, 3)
      [] stt = "O" /\ ~Between(r, "RENYOU1", "SA5RENYOU3") ->
            IF HBetween(h, "KEIYOUSI_1", "KE_DOUSI_9") \/ h \in {"MEISI_5", "MEISI_9"}
            THEN r ELSE ""
      [] stt = "GO" /\ h = "MEISI_7" /\ r = "SMEISI1" -> Shift(r, 1)
      [] OTHER -> r

\* The entries setconj finds, before cnvrow.
Conj(n, t) ==
    LET k == Tyouon(n, t)
        hits == Scan(Behind(t, k), Tables[n])
    IN  [i \in DOMAIN hits |-> <<hits[i][1], hits[i][2] + k>>]

Found(tb, t) ==
    CASE tb[1] = "cnj" -> Conj(tb[2], t)
      [] tb[1] = "fzk" -> Scan(t, fzkadr[tb[2]])
      [] tb[1] = "stb" -> setubi(t, stbtables[tb[2]])
      [] OTHER -> <<>>

-----------------------------------------------------------------------------
(* The readings of a table's entries in full, and what the text starts     *)
(* with.                                                                   *)

Decode(entries) ==
    FoldLeft(LAMBDA rs, e : Append(rs,
                (IF rs = <<>> THEN <<>> ELSE SubSeq(Last(rs), 1, e.ask)) \o e.nkr),
             <<>>, entries)
CnjReading == [n \in DOMAIN Tables |-> Decode(Tables[n])]
FzkReading == [k \in DOMAIN fzkadr |-> Decode(fzkadr[k])]
StbReading == [n \in DOMAIN stbtables |->
                [i \in DOMAIN stbtables[n] |-> stbtables[n][i].yomi]]
Readings(tb) ==
    CASE tb[1] = "cnj" -> CnjReading[tb[2]]
      [] tb[1] = "fzk" -> FzkReading[tb[2]]
      [] tb[1] = "stb" -> StbReading[tb[2]]
      [] OTHER -> <<>>

StartsWith(t, y) == Len(y) <= Len(t) /\ SubSeq(t, 1, Len(y)) = y
MayMatch(tb, t) ==
    LET rs == Readings(tb)
    IN  \E i \in DOMAIN rs : IsPrefix(t, rs[i])

\* The entries the text starts with, as a unit.
Exact(tb, t) ==
    LET rs == Readings(tb)
        k == IF tb[1] = "cnj" THEN Tyouon(tb[2], t) ELSE 0
    IN  {<<i, k + Len(rs[i])>> : i \in {j \in DOMAIN rs :
            /\ StartsWith(Behind(t, k), rs[j])
            /\ ~isdpnd(t, k + Len(rs[j]) + 1)}}

-----------------------------------------------------------------------------
Init ==
    /\ tbl = Start
    /\ text = <<>>
    /\ found = <<>>
    /\ right = ""
    /\ level = 0

\* A table is scanned for a stem with nothing behind it.
Open ==
    /\ tbl = Start
    /\ tbl' \in Table
    /\ found' = Found(tbl', <<>>)
    /\ UNCHANGED <<text, right, level>>

\* One more character is typed and the table scanned again.
Type ==
    /\ tbl \in Table
    /\ LET k == IF tbl[1] = "cnj" THEN Tyouon(tbl[2], text) ELSE 0
       IN  k <= 1 /\ MayMatch(tbl, Behind(text, k))
    /\ \E c \in Letter : text' = Append(text, c)
    /\ found' = Found(tbl, text')
    /\ UNCHANGED <<tbl, right, level>>

\* The words so far end with r.
Reach(r, n) ==
    /\ tbl' = Chain
    /\ text' = <<>>
    /\ found' = <<>>
    /\ right' = r
    /\ level' = n

\* A word that is not inflected.
Stem ==
    /\ tbl = Start
    /\ \E r \in DOMAIN C!connadr : Reach(r, 0)

\* An inflected word, with a prefix or without, and an ending found.
Ending ==
    /\ tbl[1] = "cnj"
    /\ \E i \in DOMAIN found, h \in conjadr[tbl[2]], stt \in {"", "O", "GO"} :
        LET r == cnvrow(h, stt, Tables[tbl[2]][found[i][1]].right)
        IN  r # "" /\ Reach(r, 0)

\* fzkcnct: a word of class left may follow.
fzkcnct(r, left) == C!Columns[LCode[left]] \in C!rigtadr[RCode[r]]

\* What the functional words are between.
Link == UNION {{<<fzkadr[k][i].left, fzkadr[k][i].right>> : i \in DOMAIN fzkadr[k]}
               : k \in DOMAIN fzkadr}

\* srchfzk goes on with one more functional word.
Word ==
    /\ tbl = Chain
    /\ right # "CUT"
    /\ level < MAXFLVL
    /\ \E w \in Link : fzkcnct(right, w[1]) /\ Reach(w[2], level + 1)

\* Another text.
Again ==
    /\ tbl # Start
    /\ tbl' = Start
    /\ text' = <<>>
    /\ found' = <<>>
    /\ right' = ""
    /\ level' = 0

Next == Open \/ Type \/ Stem \/ Ending \/ Word \/ Again

Spec == Init /\ [][Next]_vars

-----------------------------------------------------------------------------
\* The one ending no scan finds: se-yo of the verbs in -suru stands behind
\* se-ra-re, where the scan of a text with yo has stopped (conjunc.c:60).
Lost == {<<<<"cnj", "sahencnj">>, 20>>}

\* Every scan of a table, which goes over it once and stops early, finds
\* exactly the entries the text starts with and their lengths, in the order
\* of the table, but for the one ending that is out of order (setconj.c:137,
\* fuzoku.c:239, setubi.c:66).
ScanExact ==
    /\ \A i \in 2..Len(found) : found[i - 1][1] < found[i][1]
    /\ {x \in Exact(tbl, text) : <<tbl, x[1]>> \notin Lost}
       = {found[i] : i \in DOMAIN found}

\* However a text goes on behind an inflected stem, mkbunsetu has room for
\* the endings setconj writes to its array of four (mkbunset.c:48), and
\* whatever the stem, prefix, ending and functional words, the class they end
\* with has a row: fzkcnct never reads through a null pointer (fuzoku.c:171).
TablesFit ==
    /\ tbl[1] = "cnj" => Len(found) <= CREC
    /\ tbl = Chain => C!rigtadr[RCode[right]] # C!NULL
=============================================================================
