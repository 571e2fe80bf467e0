------------------------------- MODULE Henkan -------------------------------
(***************************************************************************)
(* The conversion requests of a session: a phrase (ph2knj.c, mk2claus.c,   *)
(* selclrec.c, cvtkanji.c), the candidates of a clause and the cursor over *)
(* them (cl2knj.c), the choice of a candidate (exec_study), and the        *)
(* handlers around them (execute.c) with their detour for clients that     *)
(* speak Shift-JIS and cannot be shown every spelling.                     *)
(*                                                                         *)
(* The lists of stems and clauses of an analysis come from pools that all  *)
(* sessions share (alloc.c, memory.c) and are freed as a whole: a list is  *)
(* a batch, named by a number, and a pointer to its head is that number.   *)
(* jrt1st goes with clt1st, jrt2nd with clt2nd and maxjptr with maxclptr,  *)
(* so one variable stands for both.                                        *)
(***************************************************************************)
EXTENDS Kouho

CONSTANTS
    Texts,      \* the readings clients ask for
    Rooms,      \* sizes of the buffer for a phrase, in clauses
    Protos,     \* "EUC", "SJIS"
    CHOICES     \* bound: words in the study table

ASSUME RequestAssumption == Texts \subseteq Seq(Nat) /\ Rooms \subseteq Nat

VARIABLES
    pc, text, pos, room, out,   \* ph2knj: place, cnvstart, kanjilen, output
    proto,
    first, second, max,         \* clt1st, clt2nd, maxclptr
    batch, live,                \* what was allocated, and is not freed
    selcl,                      \* a place in batch[first].cl
    try,                        \* locals of mk2claus
    nextcllen,
    full,                       \* a phrase once did not fit
    cur,                        \* the candidates and the cursor over them
    job,                        \* a handler of candidates at work
    reply,                      \* what the client was last shown
    stdy

phVars == <<pc, text, pos, room, out, proto, selcl, try, nextcllen>>
poolVars == <<first, second, max, batch, live, full>>
vars == <<phVars, poolVars, cur, job, reply, stdy>>

\* One list for each of clt1st, clt2nd and maxclptr, and one for a list that
\* was forgotten.
Batches == 1..4
NoTry == [k |-> 0, count |-> 0, len |-> 0, save2 |-> 0, cl2len |-> <<>>]
NoAnalysis == [j |-> <<>>, cl |-> <<>>]
NoBatch == [start |-> 0, an |-> NoAnalysis]
\* an: the analysis, kh: kouhotbl, id: selectid, head: clt1st's place in it.
\* stale: a phrase was converted since, and clt1st no longer points to a list.
NoCursor == [an |-> NoAnalysis, kh |-> <<>>, id |-> 0, head |-> 0, stale |-> FALSE]
\* what: "shown" (cands[1] is the candidate), "reading", "none", or "list".
Reply(what, cands, len) == [what |-> what, cands |-> cands, len |-> len]
NoJob == [what |-> "none", dir |-> "next", mode |-> 0, len |-> 0, ok |-> TRUE,
          list |-> <<>>]
Silent == Reply("none", <<>>, 0)

Init ==
    /\ pc = "idle" /\ text = <<>> /\ pos = 0 /\ room = 0 /\ out = <<>>
    /\ proto \in Protos
    /\ first = 0 /\ second = 0 /\ max = 0
    /\ batch = [b \in Batches |-> NoBatch]
    /\ live = {} /\ full = FALSE
    /\ selcl = 0 /\ try = NoTry /\ nextcllen = 0
    /\ cur = NoCursor /\ job = NoJob
    /\ reply = Silent /\ stdy = <<>>

-----------------------------------------------------------------------------
(* mkjiritu, mkbunsetu and wakachi for any piece of a text: ph2knj and      *)
(* mk2claus ask for everything, cl2knj for neither entries for phrases nor  *)
(* learned clauses, selclrec for no learned clauses.                        *)

PiecesOf(t) == {SubSeq(t, i, j) : i \in 1..Len(t), j \in 1..Len(t)} \ {<<>>}
Piece == UNION {PiecesOf(t) : t \in Texts}
PhAnalysis == [t \in Piece |-> Analyse(t, {"ikkatu", "clstudy"})]
CutAnalysis == [t \in Piece |-> Analyse(t, {"ikkatu"})]
ClAnalysis ==       \* of at most MAXCLINPUTLEN characters
    [t \in Piece |->
        Analyse(IF Len(t) > MAXCLINPUTLEN THEN SubSeq(t, 1, MAXCLINPUTLEN) ELSE t, {})]

\* What the lists of n characters are like: there is a clause, none is empty,
\* longer than the text or than MAXCLINPUTLEN, the first is the longest, and a
\* learned one has a clause behind the boundary it tells.
Sound(an, n) ==
    /\ an.cl # <<>> /\ Len(an.cl) \in Nat /\ DOMAIN an.cl = 1..Len(an.cl)
    /\ \A c \in DOMAIN an.cl :
          /\ an.cl[c].cllen \in 1..n /\ an.cl[c].cllen <= an.cl[1].cllen
          /\ an.cl[c].cllen <= MAXCLINPUTLEN
          /\ Jnode(an, c).class = "bunsetu" =>
                Block[Jnode(an, c).n].y1len \in 1..(an.cl[c].cllen - 1)
AnalysesSound ==
    \A t \in Piece : Sound(PhAnalysis[t], Len(t)) /\ Sound(CutAnalysis[t], Len(t))

-----------------------------------------------------------------------------
(* The pools *)

Rest(p) == SubSeq(text, p + 1, Len(text))
\* free_clall and free_jall; the record of a freed list is free already.
Freed(b) == live \ {b}
Dangling(b) == b # 0 /\ b \notin live
Fresh(L) == CHOOSE b \in Batches \ L : \A c \in Batches \ L : b <= c
Made(b, start, an) == [batch EXCEPT ![b] = [start |-> start, an |-> an]]
\* What is freed is never read again.
Only(L, bt) == [b \in Batches |-> IF b \in L THEN bt[b] ELSE NoBatch]

\* A list is freed that was freed before: the free list of a pool that all
\* sessions use becomes a ring.  What follows is not modelled.
Corrupt == pc' = "corrupt" /\ UNCHANGED <<text, pos, room, out, proto, selcl, try,
                            nextcllen, poolVars, cur, job, reply, stdy>>

-----------------------------------------------------------------------------
(* ph2knj *)

ph2knj(t, r) ==
    /\ pc = "idle"
    /\ IF Dangling(max) THEN Corrupt
       ELSE /\ pc' = IF t = <<>> THEN "conv" ELSE "start"
            /\ text' = t /\ pos' = 0 /\ room' = r /\ out' = <<>>
            /\ live' = Freed(max) /\ first' = 0 /\ max' = 0     \* freework
            /\ batch' = Only(live', batch)
            /\ nextcllen' = 0 /\ selcl' = 0
            /\ cur' = [NoCursor EXCEPT !.stale = TRUE] /\ reply' = Silent
            /\ UNCHANGED <<proto, second, full, try, job, stdy>>

\* The clauses from pos on, unless the last round has found them already.
ph_mkbunsetu ==
    /\ pc = "start" /\ pos < Len(text) /\ room # 0
    /\ pc' = "mk2claus"
    /\ IF first = 0
       THEN LET b == Fresh(live)
            IN  /\ first' = b
                /\ batch' = Made(b, pos, PhAnalysis[Rest(pos)])
                /\ live' = live \cup {b}
       ELSE UNCHANGED <<first, batch, live>>
    /\ UNCHANGED <<text, pos, room, out, proto, selcl, try, nextcllen, second, max,
                   full, cur, job, reply, stdy>>

Cl == batch[first].an.cl

\* mk2claus, the clauses that need no second one: pritiny then takes any of
\* that length.
mk2claus_tiny ==
    /\ pc = "mk2claus"
    /\ \/ Cl[1].right = R_FZKKGU
       \/ Cl[1].cllen = Len(text) - pos
    /\ \E c \in DOMAIN Cl : Cl[c].cllen = Cl[1].cllen /\ selcl' = c
    /\ second' = 0 /\ max' = 0
    /\ pc' = "selclrec"
    /\ UNCHANGED <<text, pos, room, out, proto, try, nextcllen, first, batch, live,
                   full, cur, job, reply, stdy>>

mk2claus_begin ==
    /\ pc = "mk2claus"
    /\ Cl[1].right # R_FZKKGU
    /\ Cl[1].cllen # Len(text) - pos
    /\ second' = 0 /\ max' = 0 /\ selcl' = 1
    /\ try' = [NoTry EXCEPT !.k = 1, !.cl2len = [c \in DOMAIN Cl |-> 0]]
    /\ pc' = "try"
    /\ UNCHANGED <<text, pos, room, out, proto, nextcllen, first, batch, live,
                   full, cur, job, reply, stdy>>

\* set2nd: the length of a clause with the first that may stand behind it.
set2nd(len, an) ==
    LET rest == Rest(pos + len)
        ok == {k \in DOMAIN an.cl :
                  terminate(rest, an.cl[k].cllen, an.cl[k].right) # "SHU"}
    IN  IF ok = {} \/ an.j[1].class = "wakachi" THEN len
        ELSE len + an.cl[CHOOSE k \in ok : \A m \in ok : k <= m].cllen

\* priority: its tables are not modelled, each side may win.
priority == BOOLEAN

\* The list that was made last becomes the one behind the selected clause.
Promote(win, m) == win /\ second # m

\* Mutant: a list that lost is forgotten.
Lost_never(m) == FALSE

\* The list that was made last is not the one behind the selected clause.
Lost(m) == second # m

\* The list behind a clause, made anew unless the last one is for its length;
\* the last one is freed if it lost.
Behind(len) ==
    LET L == IF Lost(max) THEN Freed(max) ELSE live
        made(b, an) == [b |-> b, live |-> L \cup {b}, batch |-> Made(b, pos + len, an),
                        save2 |-> set2nd(len, an), count |-> try.count + 1]
    IN  IF len = try.len
        THEN [b |-> max, live |-> live, batch |-> batch, save2 |-> try.save2,
              count |-> try.count]
        ELSE made(Fresh(L), PhAnalysis[Rest(pos + len)])

\* The clause in try.k beats the selected one: the pair is longer, or the
\* clause is what a learned clause foretold, or priority says so.
Beats(cls, prefer) ==
    \/ cls[selcl] < cls[try.k]
    \/ /\ cls[selcl] = cls[try.k]
       /\ \/ Cl[try.k].cllen = nextcllen /\ Cl[selcl].cllen # nextcllen
          \/ prefer

\* One clause of mk2claus' loop.
mk2claus_try ==
    /\ pc = "try" /\ try.k <= Len(Cl) /\ try.count < 5
    /\ \E prefer \in priority, x \in {Behind(Cl[try.k].cllen)} :
       \E cls \in {[try.cl2len EXCEPT ![try.k] =
                        IF Cl[try.k].right \in T_SHUUJO THEN Cl[try.k].cllen
                        ELSE x.save2]} :
       \E win \in {Beats(cls, prefer)} :
          /\ selcl' = IF win THEN try.k ELSE selcl
          /\ max' = x.b
          /\ second' = IF Promote(win, x.b) THEN x.b ELSE second
          /\ live' = IF Promote(win, x.b) THEN x.live \ {second} ELSE x.live
          /\ batch' = Only(live', x.batch)
          /\ try' = [k |-> try.k + 1, save2 |-> x.save2, len |-> Cl[try.k].cllen,
                     count |-> x.count, cl2len |-> cls]
    /\ UNCHANGED <<pc, text, pos, room, out, proto, nextcllen, first, full,
                   cur, job, reply, stdy>>

mk2claus_end ==
    /\ pc = "try" /\ (try.k > Len(Cl) \/ try.count >= 5)
    /\ IF Lost(max) THEN live' = Freed(max) /\ max' = 0
       ELSE UNCHANGED <<live, max>>
    /\ batch' = Only(live', batch)
    /\ try' = NoTry
    /\ pc' = "selclrec"
    /\ UNCHANGED <<text, pos, room, out, proto, selcl, nextcllen, first, second,
                   full, cur, job, reply, stdy>>

\* clt2nd after a learned clause decided where the clause ends.
Second_after(b) == 0

\* selclrec: a learned clause of the selected length says where its first
\* clause ends.
selclrec ==
    /\ pc = "selclrec"
    /\ LET learned == {c \in DOMAIN Cl : /\ Cl[c].cllen = Cl[selcl].cllen
                                         /\ Jnode(batch[first].an, c).class = "bunsetu"}
           c == CHOOSE x \in learned : \A y \in learned : x <= y
           len == Block[Jnode(batch[first].an, c).n].y1len
           cut == {x \in c..Len(Cl) : Cl[x].cllen = len}
           L == live \ {first}
           b == Fresh(L)
       IN  IF learned = {}
           THEN nextcllen' = 0 /\ UNCHANGED <<selcl, poolVars>>
           ELSE /\ nextcllen' = Cl[c].cllen - len
                /\ second' = Second_after(second)
                /\ IF cut # {}
                   THEN /\ selcl' = CHOOSE x \in cut : \A y \in cut : x <= y
                        /\ live' = live \ {second}
                        /\ batch' = Only(live', batch)
                        /\ UNCHANGED <<first, max>>
                   ELSE /\ selcl' = 1
                        /\ first' = b /\ max' = b
                        /\ live' = (L \cup {b}) \ {second}
                        /\ batch' = Only(live', Made(b, pos,
                                        CutAnalysis[SubSeq(Rest(pos), 1, len)]))
                /\ UNCHANGED full
    /\ pc' = "cvtphknj"
    /\ UNCHANGED <<text, pos, room, out, proto, try, cur, job, reply, stdy>>

\* The clauses left by free_clst: those as long as the selected, it in front.
Kept == <<selcl>> \o SelectIdx(Cl, {c \in DOMAIN Cl : c # selcl
                                         /\ Cl[c].cllen = Cl[selcl].cllen})

\* A clause and the end mark fit.
Fits(r) == 1 < r

\* Mutant: the text goes on with the clause that was foretold.
Done_next == nextcllen

\* What a round has done of the text.
Done == Cl[selcl].cllen

\* The rest of a round: the clause goes out, its list is freed, and the list
\* behind it is the next round's.
ph_cvtphknj ==
    /\ pc = "cvtphknj"
    /\ \E k \in {cvtphknj(batch[first].an, Kept, stdy)} :
           /\ out' = IF Fits(room)
                     THEN Append(out, [start |-> pos, len |-> Cl[selcl].cllen,
                                       cand |-> k, kh |-> <<k>>, an |-> batch[first].an,
                                       as |-> "kanji"])
                     ELSE out
           /\ room' = IF Fits(room) THEN room - 1 ELSE 0
    /\ pos' = pos + Done
    /\ live' = Freed(first)
    /\ batch' = Only(live', batch)
    /\ first' = second
    /\ pc' = "start"
    /\ UNCHANGED <<text, proto, selcl, try, nextcllen, second, max, full,
                   cur, job, reply, stdy>>

\* Out of the loop.  A list left over when the buffer is full is freed, and
\* maxclptr may still point to it.
ph_end ==
    /\ pc = "start" /\ (pos >= Len(text) \/ room = 0)
    /\ live' = IF room = 0 THEN Freed(first) ELSE live
    /\ batch' = Only(live', batch)
    /\ full' = (full \/ room = 0)
    /\ pc' = "conv"
    /\ selcl' = 0 /\ nextcllen' = 0
    /\ UNCHANGED <<text, pos, room, out, try, proto, first, second, max,
                   cur, job, reply, stdy>>

-----------------------------------------------------------------------------
(* Candidates and the cursor (cl2knj.c) *)

Cursor(an, c, kh, id) ==
    [an |-> an, kh |-> kh, id |-> id, head |-> c, stale |-> FALSE]
\* mkkouho and getrank for the block from c on; the last candidate if asked.
BlockAt(an, c, last) ==
    LET kh == getrank(an, mkkouho(an, c), stdy)
    IN  Cursor(an, c, kh, IF last THEN Len(kh) ELSE 1)

ClLen(c) == c.an.cl[c.head].cllen
Current(c) == c.kh[ByRank(c.kh, c.id)]

nextrecblk(c) ==
    IF BlockFrom(c.an, c.head) = Len(c.an.cl) THEN 0
    ELSE BlockFrom(c.an, c.head) + 1

\* Mutant: the block before is the one that starts the list.
prevrecblk_first(c) == IF ClLen(c) = c.an.cl[1].cllen THEN 0 ELSE 1

\* The head of the shortest block that is longer than this one.
prevrecblk(c) ==
    LET longer == {k \in DOMAIN c.an.cl : c.an.cl[k].cllen > ClLen(c)}
        near == {k \in longer : \A m \in longer : c.an.cl[k].cllen <= c.an.cl[m].cllen}
    IN  IF longer = {} THEN 0 ELSE CHOOSE k \in near : \A m \in near : k <= m

\* A move of the cursor, and whether nextcl or prevcl reports one.
Moved(c, ok) == [cur |-> c, ok |-> ok]
nextcl(c, mode) ==
    IF c.kh = <<>> THEN Moved(c, FALSE)
    ELSE IF mode = 0 /\ c.id < Len(c.kh) THEN Moved([c EXCEPT !.id = @ + 1], TRUE)
    ELSE IF mode < 2 /\ nextrecblk(c) # 0
    THEN Moved(BlockAt(c.an, nextrecblk(c), FALSE), TRUE)
    ELSE Moved(c, FALSE)
prevcl(c, mode) ==
    IF c.kh = <<>> THEN Moved(c, FALSE)
    ELSE IF mode = 0 /\ c.id > 1 THEN Moved([c EXCEPT !.id = @ - 1], TRUE)
    ELSE IF mode < 2 /\ prevrecblk(c) # 0
    THEN Moved(BlockAt(c.an, prevrecblk(c), TRUE), TRUE)
    ELSE Moved(c, FALSE)

\* Shift-JIS has the candidate (sj3_str_euctosjis reports no defuse).
Converts(an, k) == k.offs = 0 \/ Spelling(an, k).sjis
Showable(c) == proto = "EUC" \/ Converts(c.an, Current(c))
\* The clauses of a phrase that still have to be replaced.
Bad == {i \in DOMAIN out : proto = "SJIS" /\ out[i].as = "kanji"
                            /\ ~Converts(out[i].an, out[i].cand)}
FirstBad == CHOOSE i \in Bad : \A j \in Bad : i <= j

-----------------------------------------------------------------------------
(* The handlers of candidates.  They call nextcl or prevcl until they have  *)
(* what they can show; job is where the handler is.                         *)

Job(what, len) == [NoJob EXCEPT !.what = what, !.len = len]

\* cl2knj: the list is made anew and stays until the next conversion.
cl2knj(t) ==
    \E an \in {ClAnalysis[t]} :
        LET b == Fresh(Freed(max))
        IN  /\ live' = Freed(max) \cup {b}
            /\ first' = b /\ max' = b
            /\ batch' = Only(live', Made(b, 0, an))
            /\ cur' = BlockAt(an, 1, FALSE)
            /\ UNCHANGED <<second, full>>

\* cl2knj of no text: there are no candidates, and nothing is freed or made.
exec_cl2knj_empty(what) ==
    /\ pc = "idle"
    /\ cur' = NoCursor
    /\ text' = <<>> /\ pos' = 0 /\ room' = 0 /\ out' = <<>>
    /\ reply' = CASE what = "all" -> Reply("list", <<>>, 0)
                  [] what = "cnt" -> Reply("count", <<>>, 0)
                  [] OTHER -> Silent
    /\ UNCHANGED <<pc, proto, selcl, try, nextcllen, poolVars, job, stdy>>

\* exec_cl2knj, exec_cl2knj_all and exec_cl2knj_cnt.
exec_cl2knj(what, t) ==
    /\ pc = "idle" /\ t # <<>>
    /\ \/ Dangling(max) /\ Corrupt
       \/ /\ ~Dangling(max)
          /\ cl2knj(t)
          /\ pc' = "job" /\ job' = Job(what, Len(t))
          /\ text' = <<>> /\ pos' = 0 /\ room' = 0 /\ out' = <<>> /\ reply' = Silent
          /\ UNCHANGED <<proto, selcl, try, nextcllen, stdy>>

Move(dir, mode) == IF dir = "next" THEN nextcl(cur, mode) ELSE prevcl(cur, mode)

\* exec_nextcl and exec_prevcl, of candidates that cl2knj made.
exec_nextcl(dir, mode) ==
    /\ pc = "idle" /\ ~cur.stale
    /\ \E m \in {Move(dir, mode)} :
          /\ cur' = m.cur
          /\ job' = [Job("seek", 0) EXCEPT !.dir = dir, !.mode = mode, !.ok = m.ok]
    /\ pc' = "job" /\ reply' = Silent
    /\ UNCHANGED <<text, pos, room, out, proto, selcl, try, nextcllen, poolVars, stdy>>

\* The handler calls nextcl or prevcl again.
SameLength == job.ok /\ ClLen(cur) = job.len
More == \/ job.what = "cl2knj" /\ SameLength /\ ~Showable(cur)
        \/ job.what \in {"all", "cnt"} /\ SameLength
        \/ job.what = "seek" /\ job.ok /\ cur.kh # <<>> /\ ~Showable(cur)

Candidate(c) == setstyrec(c.an, c.kh, Current(c))

\* For a clause of a phrase the handler looks at the candidate from its second
\* byte on (stdy_size counts a length byte that cl2knj does not write): whether
\* that converts says nothing of the candidate, so it may go on or stop.
job_step ==
    /\ pc = "job" /\ (More \/ (job.what = "ph" /\ SameLength))
    /\ \E m \in {Move(job.dir, job.mode)} :
          /\ cur' = m.cur
          /\ job' = [job EXCEPT !.ok = m.ok,
                        !.list = IF job.what \in {"all", "cnt"} /\ Showable(cur)
                                 THEN Append(@, Candidate(cur)) ELSE @]
    /\ UNCHANGED <<pc, text, pos, room, out, proto, selcl, try, nextcllen, poolVars,
                   reply, stdy>>

\* Mutant: exec_nextcl shows what it stopped at.
SeekReply_any(c) ==
    IF c.kh = <<>> THEN Silent
    ELSE Reply("shown", <<Candidate(c)>>, IF job.ok THEN ClLen(c) ELSE 0)

SeekReply(c) ==
    IF c.kh = <<>> \/ (~job.ok /\ proto = "SJIS") THEN Silent
    ELSE Reply("shown", <<Candidate(c)>>, IF job.ok THEN ClLen(c) ELSE 0)

\* The reply: a candidate, the reading where none can be shown, or nothing.
\* A clause of a phrase is replaced by a record one byte off, or by its reading.
job_reply ==
    /\ pc = "job" /\ ~More
    /\ pc' = IF job.what = "ph" THEN "conv" ELSE "idle"
    /\ reply' = CASE job.what = "cl2knj" ->
                        IF proto = "EUC" \/ (SameLength /\ Showable(cur))
                        THEN Reply("shown", <<Candidate(cur)>>, ClLen(cur))
                        ELSE Reply("reading", <<>>, job.len)
                  [] job.what = "all" -> Reply("list", job.list, job.len)
                  [] job.what = "cnt" -> Reply("count", <<>>, Len(job.list))
                  [] job.what = "seek" -> SeekReply(cur)
                  [] OTHER -> reply
    /\ out' = CASE job.what # "ph" -> out
                [] job.what = "ph" /\ SameLength -> [out EXCEPT ![FirstBad].as = "shifted"]
                [] OTHER -> [out EXCEPT ![FirstBad].as = "reading"]
    /\ job' = NoJob
    /\ UNCHANGED <<text, pos, room, proto, selcl, try, nextcllen, poolVars, cur, stdy>>

\* exec_study with a candidate the client was shown.
exec_study(s) ==
    /\ pc = "idle"
    /\ Len(study(stdy, s)) <= CHOICES
    /\ stdy' = study(stdy, s)
    /\ UNCHANGED <<phVars, poolVars, cur, job, reply>>

-----------------------------------------------------------------------------
(* exec_ph2knj's end: the clauses that cannot be shown are converted again, *)
(* one by one.                                                              *)

ph_redo ==
    /\ pc = "conv" /\ Bad # {}
    /\ \E t \in {SubSeq(text, out[FirstBad].start + 1,
                        out[FirstBad].start + out[FirstBad].len)} :
          \/ Dangling(max) /\ Corrupt
          \/ /\ ~Dangling(max)
             /\ cl2knj(t)
             /\ pc' = "job" /\ job' = Job("ph", Len(t))
             /\ UNCHANGED <<text, pos, room, out, proto, selcl, try, nextcllen,
                            reply, stdy>>

ph_reply ==
    /\ pc = "conv" /\ Bad = {}
    /\ pc' = "idle"
    /\ UNCHANGED <<text, pos, room, out, proto, selcl, try, nextcllen, poolVars,
                   cur, job, reply, stdy>>

\* The candidates whose study IDs the client holds.
Known == Range(reply.cands)
         \cup {setstyrec(out[i].an, out[i].kh, out[i].cand) :
                    i \in {k \in DOMAIN out : out[k].as = "kanji"}}

Next ==
    \/ \E t \in Texts, r \in Rooms : ph2knj(t, r)
    \/ ph_mkbunsetu \/ mk2claus_tiny \/ mk2claus_begin \/ mk2claus_try \/ mk2claus_end
    \/ selclrec \/ ph_cvtphknj \/ ph_end \/ ph_redo \/ ph_reply
    \/ \E t \in Texts, what \in {"cl2knj", "all", "cnt"} : exec_cl2knj(what, t)
    \/ \E what \in {"cl2knj", "all", "cnt"} : exec_cl2knj_empty(what)
    \/ \E dir \in {"next", "prev"}, mode \in 0..2 : exec_nextcl(dir, mode)
    \/ job_step \/ job_reply
    \/ \E s \in Known : exec_study(s)

Spec == Init /\ [][Next]_vars

-----------------------------------------------------------------------------
(* Properties *)

\* What the candidates of the list become when two of them are chosen.
Chosen(k, st) == study(st, setstyrec(cur.an, cur.kh, k))
Reranked(st) == getrank(cur.an, mkkouho(cur.an, cur.head), st)
IsPermutation(kh) == {kh[n].rank : n \in DOMAIN kh} = DOMAIN kh

\* A clause of the grammar: its stem, an ending if it takes one, at most
\* MAXFLVL functional words each of which may follow what is before it, and
\* marks; and what it ends with may stand at an end, also before a final
\* particle's sentence goes on (SHU).
Chain(ws, right) ==
    \A i \in DOMAIN ws :
        Fzk[ws[i]].left \in Cnct[IF i = 1 THEN right ELSE Fzk[ws[i - 1]].right]
Reading(rec) == SubSeq(Rest(pos), 1, rec.jlen)
Grammatical(rec, cl) ==
    LET h == IF rec.stbofs = 0 THEN rec.hinsi ELSE Suffix[rec.hinsi][rec.stbofs].hinsi
        endings == IF Connadr[h] # 0 THEN {[yomi |-> <<>>, right |-> Connadr[h]]}
                   ELSE Range(Conj[h])
        written(e, ws) == Reading(rec) \o e.yomi
                          \o Concat([i \in DOMAIN ws |-> Fzk[ws[i]].yomi])
        goes(e, ws, w) == /\ IsPrefix(w, SubSeq(Rest(pos), 1, cl.cllen))
                          /\ Range(SubSeq(Rest(pos), Len(w) + 1, cl.cllen)) \subseteq FZK_KGU
                          /\ Chain(ws, Row[rec.sttofs][e.right])
    IN  /\ \E e \in endings, n \in 0..MAXFLVL :
              \E ws \in [1..n -> DOMAIN Fzk] : goes(e, ws, written(e, ws))
        /\ cl.right # R_FZKKGU => terminate(Rest(pos), cl.cllen, cl.right) # "no"

\* The clauses of a converted phrase follow each other without a gap and, unless
\* the buffer was too small, cover the reading, and none is longer than the
\* candidates' requests take: what ph2knj returns (ph2knj.c:110) is the length of
\* what it converted.
Covers ==
    pc \in {"conv", "idle"} /\ out # <<>> =>
        /\ \A i \in DOMAIN out :
              /\ out[i].len \in 1..MAXCLINPUTLEN
              /\ out[i].start = IF i = 1 THEN 0 ELSE out[i - 1].start + out[i - 1].len
        /\ room # 0 => out[Len(out)].start + out[Len(out)].len = Len(text)

\* The clauses ph2knj starts from are clauses of the grammar; those it puts out
\* cover the reading.
Covered ==
    /\ pc = "mk2claus" =>
          \A c \in DOMAIN Cl :
              Jnode(batch[first].an, c).class # "wakachi" =>
                  Grammatical(Jnode(batch[first].an, c), Cl[c])
    /\ Covers

\* The list ph2knj works on is allocated and was made for the place where it
\* stands, also when mk2claus had made it while it tried the clause before.
\* Between requests the session owns the list of its candidates and nothing
\* else, so a list is freed once; only after a phrase that did not fit
\* (ph2knj.c:103) maxclptr may be left pointing to a freed list.
PoolExact ==
    /\ pc \in {"mk2claus", "try", "selclrec", "cvtphknj"} =>
          /\ first \in live
          /\ batch[first].start = pos
          /\ Cl # <<>>
          /\ pc # "mk2claus" /\ second # 0 =>
                /\ second \in live /\ second # first
                /\ batch[second].start = pos + Cl[selcl].cllen
    /\ pc = "idle" /\ ~full => live = {max} \ {0}
    /\ pc = "corrupt" => full

\* Two candidates of a first list that were chosen, one after the other.
Choosable ==
    IF pc = "idle" /\ reply.what = "shown" /\ cur.id = 1 /\ cur.head = 1
    THEN {k \in Range(cur.kh) : IsNum(k) \/ k.offs # 0} ELSE {}
After(a, b) == Reranked(Chosen(b, Chosen(a, stdy)))

\* Every rank the cursor can take names one candidate, whatever was chosen
\* before: the ranks getrank gives are a permutation, so each candidate is
\* reached and setstyrec and cvtclknj find the one they look for.  prevcl undoes
\* nextcl, over the ends of blocks too, if nothing was learned since the
\* candidates were ranked.
CursorExact ==
    /\ cur.kh # <<>> => /\ IsPermutation(cur.kh) /\ cur.id \in DOMAIN cur.kh
                        /\ Len(cur.kh) <= MAXKOUHONUMBER
    /\ \A a, b \in Choosable : IsPermutation(After(a, b))
    /\ pc = "idle" /\ cur.kh # <<>> /\ cur = BlockAt(cur.an, cur.head, cur.id # 1) =>
          (nextcl(cur, 0).ok => prevcl(nextcl(cur, 0).cur, 0).cur = cur)

\* A client that speaks Shift-JIS is shown what it can be shown, or the
\* reading: no candidate that the conversion of the reply would mangle, but for
\* the clauses of a phrase that execute.c:510 replaces one byte off.
RepliesConvert ==
    proto = "SJIS" /\ pc = "idle" =>
        /\ reply.what = "shown" => Converts(cur.an, Current(cur))
        /\ \A i \in DOMAIN out :
              out[i].as # "kanji" \/ Converts(out[i].an, out[i].cand)

SameCandidate(k, m) ==
    Key(cur.an, k) = Key(cur.an, m) /\ <<k.sttkj, k.ka_kj>> = <<m.sttkj, m.ka_kj>>
Ahead(kh, b, a) ==
    /\ SameCandidate(kh[ByRank(kh, 1)], b)
    /\ \A k, m \in Range(kh) :
          SameCandidate(k, a) /\ Key(cur.an, m) \notin {Key(cur.an, a), Key(cur.an, b)}
              => k.rank < m.rank

\* When the user chooses two candidates one after the other, the next cl2knj
\* shows the one chosen last first, written the same way, and the other one
\* before all that were not chosen; if the last was a number, a number.
ChosenFirst ==
    \A a, b \in Choosable :
    \A kh \in {After(a, b)} :
        /\ IsNum(b) /\ kh[ByRank(kh, 1)].offs # 0 =>
              setstyrec(cur.an, cur.kh, b).key[2] = 0
        /\ ~IsNum(a) /\ ~IsNum(b) => Ahead(kh, b, a)

\* How far a phrase is: the clauses done, then the stage of this one.
Stage(p) == CASE p = "start" -> 1 [] p = "mk2claus" -> 2 [] p = "try" -> 3
              [] p = "selclrec" -> 4 [] p = "cvtphknj" -> 5 [] OTHER -> 6

\* A conversion ends: every step of it leads on, through the clauses of the
\* list it tries, from stage to stage, and over at least one character with
\* each round of ph2knj's loop (it would turn for ever on an empty clause).
StepsLeadOn ==
    [][pc \notin {"idle", "conv", "job"} =>
        \/ pos' > pos
        \/ pos' = pos /\ Stage(pc') > Stage(pc)
        \/ pos' = pos /\ pc = "try" /\ pc' = "try" /\ try'.k > try.k]_vars
=============================================================================
