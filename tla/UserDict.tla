------------------------------ MODULE UserDict ------------------------------
(***************************************************************************)
(* A user dictionary and the study table that goes with it: adddic.c,      *)
(* deldic.c, addelcmn.c, srchidx.c and study.c of sj3core, and the listing *)
(* of the dictionary (peepdic.c).                                          *)
(*                                                                         *)
(* A word is a triple <<reading, part of speech, spelling>>, the reading   *)
(* and the spelling sequences of codes.  A segment is a sequence of blocks *)
(* (douon) by ascending reading.  A block keeps how many codes of its      *)
(* reading it shares with the block before (plen), the rest of the reading *)
(* (tail), and its spellings with their parts of speech (knj), those of    *)
(* one part of speech together (a group, hinsi).  The first block of a     *)
(* segment has its whole reading, which the index has too.                 *)
(*                                                                         *)
(* Bytes are abstracted to units: one for the head of a block, one for     *)
(* each code of its tail, one for a group, one for a spelling.  The clause *)
(* study table that adddic also prunes is not part of this module.         *)
(*                                                                         *)
(* A study entry names a word by segment and offset, so every edit of the  *)
(* dictionary must move the entries behind it.  The second dictionary is   *)
(* read-only and only there to be studied: its words never move, but those *)
(* of the user dictionary move past them in the table of both.             *)
(***************************************************************************)
EXTENDS Integers, Sequences, FiniteSets, SequencesExt, FiniteSetsExt

CONSTANTS
    Word,         \* words that may be registered: <<reading, gram, kanji>>
    SegLen,       \* DICT.seglen, in units
    MaxUnit,      \* DICT.maxunit: segments the dictionary may have
    IdxLen,       \* DICT.idxlen
    MaxKouho,     \* MAXKOUHONUMBER: words of one reading
    StudyMax,     \* STUDYMAX: entries of the study table
    MainOfs       \* where the read-only dictionary has words, in its first segment

ASSUME SizeAssumption == /\ SegLen >= 4 /\ MaxUnit >= 1 /\ IdxLen >= 2
                         /\ StudyMax >= 1 /\ MaxKouho >= 1 /\ MainOfs \subseteq Nat

VARIABLES
    segs,         \* the segments
    idx,          \* the index: the first reading of every segment
    stdy,         \* STUDYDICT: the entries up to STUDYCOUNT
    aword, aseg,  \* the word adddic is placing, and segnum
    reg,          \* the words registered and not deleted, by the replies
    broken        \* the file holds bytes that are no words or no index

dict == <<segs, idx, reg, broken>>
vars == <<segs, idx, stdy, aword, aseg, reg, broken>>

NoWord == <<<<>>, 0, <<>>>>

----------------------------------------------------------------------------
(* The layout of a segment *)

Reading(w) == w[1]
Grams(b) == {b.knj[k][1] : k \in DOMAIN b.knj}

\* getsize: the units of a block, and of the blocks of a segment.
getsize(b) == 1 + Len(b.tail) + Cardinality(Grams(b)) + Len(b.knj)
Extent(s) == FoldLeft(LAMBDA n, b : n + getsize(b), 0, s)

\* The units in front of the i-th block.
InFront(s, i) == Extent(SubSeq(s, 1, i - 1))

\* The offset of the k-th spelling of the i-th block.
Ofs(s, i, k) ==
    InFront(s, i) + getsize([s[i] EXCEPT !.knj = SubSeq(@, 1, k)])

\* The reading of a block behind one of reading y.
Decode(y, b) == SubSeq(y, 1, Min({b.plen, Len(y)})) \o b.tail
Yomi(s, i) == FoldLeft(Decode, <<>>, SubSeq(s, 1, i))
ReadingLen(b) == b.plen + Len(b.tail)

----------------------------------------------------------------------------
(* Searches *)

\* The n-th code of a reading; 0 ends it.
At(y, n) == IF n \in DOMAIN y THEN y[n] ELSE 0

\* istrcmp: whether y comes before x.
Less(y, x) == \E i \in DOMAIN x : At(y, i) < x[i] /\ \A j \in 1 .. i - 1 : At(y, j) = x[j]

\* yomicmp: reading y against a block, `same' codes of it known to match the
\* block before.  <<verdict, same>>.
yomicmp(y, b, same) ==
    LET diff == {i \in DOMAIN b.tail : At(y, b.plen + i) # b.tail[i]}
        n == Min(diff)
    IN  IF b.plen > same THEN <<"CONT", same>>
        ELSE IF diff = {} THEN <<"MATCH", ReadingLen(b)>>
        ELSE IF At(y, b.plen + n) > b.tail[n] THEN <<"CONT", b.plen + n - 1>>
        ELSE <<"OVER", same>>

\* srchkana: the block of the reading, or the place for it, and how much of
\* the reading the block before has.
srchkana(s, y) ==
    LET scan[p \in (1 .. Len(s) + 1) \X (0 .. Len(y))] ==
            LET r == yomicmp(y, s[p[1]], p[2])
            IN  IF p[1] > Len(s) \/ r[1] = "OVER"
                THEN [at |-> p[1], saml |-> p[2], found |-> FALSE]
                ELSE IF r = <<"MATCH", Len(y)>>
                THEN [at |-> p[1], saml |-> r[2], found |-> TRUE]
                ELSE scan[<<p[1] + 1, r[2]>>]
    IN  scan[<<1, 0>>]

\* srchgram: the spellings of a part of speech in a block.
srchgram(b, g) == {k \in DOMAIN b.knj : b.knj[k][1] = g}

\* srchkanji compares as many codes as the spelling looked for has, so a
\* longer spelling of the same part of speech that starts with it matches too.
srchkanji(b, w) == {k \in srchgram(b, w[2]) : IsPrefix(w[3], b.knj[k][2])}

\* srchidx: binary search of the index.
srchidx(y) ==
    LET n == Len(idx)
        search[b \in (0 .. n) \X (-1 .. n)] ==
            LET low == b[1]
                high == b[2]
                mid == (low + high) \div 2
            IN  IF Less(y, idx[mid + 1])
                THEN IF low <= mid - 1 THEN search[<<low, mid - 1>>]
                     ELSE IF mid # 0 THEN mid - 1 ELSE mid
                ELSE IF y # idx[mid + 1] /\ mid + 1 <= high
                THEN search[<<mid + 1, high>>]
                ELSE mid
    IN  1 + (IF n - 1 < 1 THEN 0 ELSE search[<<0, n - 1>>])

\* checksub: the homophones of a reading, found through the index.
Homophones(y) ==
    LET s == segs[srchidx(y)]
        r == srchkana(s, y)
    IN  IF r.found THEN s[r.at].knj ELSE <<>>

Lookup(w) == <<w[2], w[3]>> \in ToSet(Homophones(Reading(w)))

----------------------------------------------------------------------------
(* The study table *)

Key(e) == [seg |-> e.seg, ofs |-> e.ofs, dicid |-> e.dicid]

\* srchstdy: binary search for the segment, then back and forth from there
\* for the offset.  0 when there is no such entry.
srchstdy(tab, k) ==
    LET n == Len(tab)
        same(i) == i \in 1 .. n /\ tab[i].seg = k.seg
        match(i) == tab[i].dicid = k.dicid /\ tab[i].ofs = k.ofs
        back[i \in 0 .. n] ==
            IF ~same(i) THEN 0
            ELSE IF tab[i].ofs < k.ofs THEN 0
            ELSE IF match(i) THEN i ELSE back[i - 1]
        forth[i \in 1 .. n + 1] ==
            IF ~same(i) THEN 0
            ELSE IF tab[i].ofs > k.ofs THEN 0
            ELSE IF match(i) THEN i ELSE forth[i + 1]
        search[b \in (0 .. n) \X (-1 .. n)] ==
            LET mid == (b[1] + b[2]) \div 2
                low == IF tab[mid + 1].seg < k.seg THEN mid + 1 ELSE b[1]
                high == IF tab[mid + 1].seg > k.seg THEN mid - 1 ELSE b[2]
            IN  IF tab[mid + 1].seg = k.seg THEN mid + 1
                ELSE IF low > high THEN 0 ELSE search[<<low, high>>]
        mid == search[<<0, n - 1>>]
    IN  IF n = 0 THEN 0
        ELSE IF mid = 0 THEN 0
        ELSE IF back[mid] # 0 THEN back[mid] ELSE forth[mid + 1]

\* The entry that makes room in a full table: the first one of the highest
\* rank.
Oldest(tab) == CHOOSE i \in DOMAIN tab :
                  /\ \A j \in DOMAIN tab : tab[j].styno <= tab[i].styno
                  /\ \A j \in 1 .. i - 1 : tab[j].styno < tab[i].styno

\* The place of a new entry: after the entries of smaller segments and of the
\* same segment up to the first larger offset.
StudyPos(tab, k) ==
    LET first == Min({i \in DOMAIN tab : tab[i].seg >= k.seg} \cup {Len(tab) + 1})
    IN  Min({i \in first .. Len(tab) : tab[i].seg # k.seg \/ tab[i].ofs > k.ofs}
            \cup {Len(tab) + 1})

\* study(): the table afterwards.
study(tab, k, w) ==
    LET at == srchstdy(tab, k)
        aged == [i \in DOMAIN tab |-> [tab[i] EXCEPT !.styno = @ + 1]]
        room == IF Len(tab) >= StudyMax THEN RemoveAt(aged, Oldest(aged)) ELSE aged
        new == [seg |-> k.seg, ofs |-> k.ofs, dicid |-> k.dicid, styno |-> 1, word |-> w]
    IN  IF at # 0
        THEN [i \in DOMAIN tab |-> [tab[i] EXCEPT
                 !.styno = IF i = at THEN 1
                           ELSE IF @ < tab[at].styno THEN @ + 1 ELSE @]]
        ELSE InsertAt(room, StudyPos(room, k), new)

\* The entries of the dictionary at or behind an offset of a segment move by
\* size units.
ShiftStudy(tab, s, ofs, size) ==
    [i \in DOMAIN tab |->
        IF tab[i].dicid = "user" /\ tab[i].seg = s /\ tab[i].ofs >= ofs
        THEN [tab[i] EXCEPT !.ofs = @ + size] ELSE tab[i]]

\* Mutant: the entries that move to the new segment keep their offset.
SplitStudy_offset(tab, s, ofs, size) ==
    [i \in DOMAIN tab |->
        IF tab[i].dicid # "user" \/ tab[i].seg < s \/ (tab[i].seg = s /\ tab[i].ofs < ofs)
        THEN tab[i] ELSE [tab[i] EXCEPT !.seg = @ + 1]]

\* sprt_seg: the entries of the segments behind the split, and those of the
\* part that moves to the new segment.
SplitStudy(tab, s, ofs, size) ==
    [i \in DOMAIN tab |->
        IF tab[i].dicid # "user" \/ tab[i].seg < s THEN tab[i]
        ELSE IF tab[i].seg > s THEN [tab[i] EXCEPT !.seg = @ + 1]
        ELSE IF tab[i].ofs >= ofs THEN [tab[i] EXCEPT !.seg = @ + 1, !.ofs = @ - size]
        ELSE tab[i]]

\* The ranks above n close up.
CloseUp(tab, n) ==
    [i \in DOMAIN tab |-> [tab[i] EXCEPT !.styno = IF @ > n THEN @ - 1 ELSE @]]

----------------------------------------------------------------------------

Init ==
    /\ segs = << <<>> >> /\ idx = << <<>> >> /\ stdy = <<>>
    /\ aword = NoWord /\ aseg = 1
    /\ reg = {} /\ broken = FALSE

Idle == aword = NoWord /\ ~broken
UserKey(s, ofs) == [seg |-> s, ofs |-> ofs, dicid |-> "user"]

IdxUsed(ix) == FoldLeft(LAMBDA n, y : n + Len(y) + 1, 0, ix)

\* count_uidx
FreeIdx == IdxLen - IdxUsed(idx)

(***************************************************************************)
(* adddic.  The search for a segment with room is a loop; one pass of it   *)
(* is one step here.  Nothing interleaves with it: requests are served one *)
(* at a time.                                                              *)
(***************************************************************************)

\* checkdict: the word is new and its reading has room for another word.
BeginAdd(w) ==
    /\ Idle
    /\ ~Lookup(w)
    /\ Len(Homophones(Reading(w))) < MaxKouho
    /\ aword' = w /\ aseg' = srchidx(Reading(w))
    /\ UNCHANGED <<dict, stdy>>

cur == segs[aseg]
pos == srchkana(cur, Reading(aword))
AtEnd == pos.at > Len(cur)

\* cal_nextym: the codes at the start of the next block's tail that the new
\* block in front of it makes superfluous.
cal_nextym ==
    LET b == cur[pos.at]
    IN  IF AtEnd THEN 0
        ELSE Max({n \in 0 .. Len(b.tail) :
                    \A i \in 1 .. n : b.tail[i] = At(Reading(aword), b.plen + i)})

\* nxtask, newsiz - oldsiz, and newsiz.
Saved == IF pos.found THEN 0 ELSE cal_nextym
Growth ==
    IF pos.found THEN 1 + (IF srchgram(cur[pos.at], aword[2]) = {} THEN 1 ELSE 0)
    ELSE 3 + Len(Reading(aword)) - pos.saml
NewSize == Growth + (IF pos.found THEN getsize(cur[pos.at]) ELSE 0)

Fits == Growth - Saved <= SegLen - Extent(cur)
FitsInFront == InFront(cur, pos.at) + NewSize <= SegLen

Exists == pos.found /\ srchkanji(cur[pos.at], aword) # {}
Adding == aword # NoWord /\ ~Exists
Return == aword' = NoWord /\ aseg' = 1

\* The reading that a split or a new segment adds to the index.
SplitAt == IF FitsInFront /\ pos.found THEN pos.at + 1 ELSE pos.at
IdxNeed == 1 + (IF ~FitsInFront /\ AtEnd THEN Len(Reading(aword)) ELSE ReadingLen(cur[SplitAt]))

Full == Adding /\ ~Fits /\ ~(AtEnd /\ aseg < Len(segs))
MayGrow == Full /\ Len(segs) < MaxUnit /\ IdxNeed <= FreeIdx

\* AD_AREXIST, or AD_OVFLWUSRDIC, or AD_OVFLWINDEX: what earlier passes have
\* done stays done.
GiveUp ==
    /\ aword # NoWord
    /\ \/ Exists
       \/ Full /\ (Len(segs) >= MaxUnit \/ IdxNeed > FreeIdx)
    /\ Return
    /\ UNCHANGED <<dict, stdy>>

\* A new block, and what it saves in the block behind it.
NewBlock(s, saved) ==
    LET y == Reading(aword)
        shorter == IF saved = 0 THEN s
                   ELSE [s EXCEPT ![pos.at].plen = @ + saved,
                                  ![pos.at].tail = SubSeq(@, saved + 1, Len(@))]
    IN  InsertAt(shorter, pos.at,
                 [plen |-> pos.saml, tail |-> SubSeq(y, pos.saml + 1, Len(y)),
                  knj |-> <<<<aword[2], aword[3]>>>>])

\* The place of the spelling in its block: behind its group, or in a new one
\* at the end.
NewPos(b) ==
    IF srchgram(b, aword[2]) # {} THEN 1 + Max(srchgram(b, aword[2])) ELSE Len(b.knj) + 1

\* dstofs: the first unit that moves.
MoveFrom(s) ==
    IF ~pos.found THEN InFront(s, pos.at) + 1
    ELSE InFront(s, pos.at)
         + getsize([s[pos.at] EXCEPT !.knj = SubSeq(@, 1, NewPos(s[pos.at]) - 1)]) + 1

\* The room made in the segment, the index when the block becomes the first of
\* the segment (chg_uidx, which does not look whether the index has room), the
\* study entries behind it, and the word's own entry.
Store(sg, ix, tab, saved) ==
    LET s == sg[aseg]
        at == pos.at
        p == IF pos.found THEN NewPos(s[at]) ELSE 1
        new == IF pos.found
               THEN [s EXCEPT ![at].knj = InsertAt(@, p, <<aword[2], aword[3]>>)]
               ELSE NewBlock(s, saved)
        moved == ShiftStudy(tab, aseg, MoveFrom(s), Growth - saved)
    IN  /\ segs' = [sg EXCEPT ![aseg] = new]
        /\ idx' = IF ~pos.found /\ at = 1 THEN [ix EXCEPT ![aseg] = Reading(aword)] ELSE ix
        /\ stdy' = study(moved, UserKey(aseg, Ofs(new, at, p)), aword)
        /\ reg' = reg \cup {aword}
        /\ broken' = (IdxUsed(idx') > IdxLen)
        /\ Return

AddHere ==
    /\ Adding /\ Fits
    /\ Store(segs, idx, stdy, Saved)

\* The word comes after everything in this segment: try the next one.
TryNext ==
    /\ Adding /\ ~Fits
    /\ AtEnd /\ aseg < Len(segs)
    /\ aseg' = aseg + 1
    /\ UNCHANGED <<dict, stdy, aword>>

\* sprt_seg: what starts at the p-th block goes to a new segment behind this
\* one, where that block gets its whole reading.
SplitSegs(p) ==
    LET whole == [cur[p] EXCEPT !.plen = 0, !.tail = Yomi(cur, p)]
    IN  InsertAt([segs EXCEPT ![aseg] = SubSeq(cur, 1, p - 1)],
                 aseg + 1, <<whole>> \o SubSeq(cur, p + 1, Len(cur)))
SplitIdx(p) == InsertAt(idx, aseg + 1, Yomi(cur, p))
SplitTable(p) == SplitStudy(stdy, aseg, InFront(cur, p) + 1, InFront(cur, p) - cur[p].plen)

\* The blocks behind make room for the new word.
SplitAfter ==
    /\ MayGrow /\ FitsInFront
    /\ Store(SplitSegs(SplitAt), SplitIdx(SplitAt), SplitTable(SplitAt), 0)

\* The word comes last in a full last segment: a new segment, still empty.
NewSegment ==
    /\ MayGrow /\ ~FitsInFront /\ AtEnd
    /\ segs' = Append(segs, <<>>)
    /\ idx' = Append(idx, <<>>)
    /\ aseg' = aseg + 1
    /\ UNCHANGED <<stdy, aword, reg, broken>>

\* The block itself goes to a new segment, where the search goes on.
SplitBefore ==
    /\ MayGrow /\ ~FitsInFront /\ ~AtEnd
    /\ segs' = SplitSegs(SplitAt)
    /\ idx' = SplitIdx(SplitAt)
    /\ stdy' = SplitTable(SplitAt)
    /\ aseg' = aseg + 1
    /\ UNCHANGED <<aword, reg, broken>>

----------------------------------------------------------------------------
(* deldic *)

\* del_stdy: the entry of the word goes, those behind it move up, and the
\* ranks close up, from 0 when the word had no entry.
del_stdy(tab, s, ofs, size) ==
    LET at == {i \in DOMAIN tab : Key(tab[i]) = UserKey(s, ofs)}
        rest == SelectSeq(tab, LAMBDA e : Key(e) # UserKey(s, ofs))
    IN  CloseUp(ShiftStudy(rest, s, ofs + 1, 0 - size),
                IF at = {} THEN 0 ELSE tab[Max(at)].styno)

\* del_segment: the segment had only this word.  A variable that is not set
\* when the word had no study entry decides which ranks close up; of the
\* negative values one stands for all.
del_segment(s) ==
    LET at == {i \in DOMAIN stdy : stdy[i].dicid = "user" /\ stdy[i].seg = s}
        rest == SelectSeq(stdy, LAMBDA e : e.dicid # "user" \/ e.seg # s)
        moved == [i \in DOMAIN rest |->
                     IF rest[i].dicid = "user" /\ rest[i].seg > s
                     THEN [rest[i] EXCEPT !.seg = @ - 1] ELSE rest[i]]
    IN  /\ segs' = IF Len(segs) > 1 THEN RemoveAt(segs, s) ELSE << <<>> >>
        /\ idx' = IF Len(segs) > 1 THEN RemoveAt(idx, s) ELSE << <<>> >>
        /\ \E n \in IF at = {} THEN -1 .. StudyMax ELSE {stdy[Max(at)].styno} :
              stdy' = CloseUp(moved, n)
        /\ UNCHANGED broken

\* del_douon, the last block of a segment: it is wiped with as many terminators
\* as there are free bytes behind it.
del_last(s, i) ==
    LET sg == segs[s]
    IN  /\ segs' = IF Extent(sg) < SegLen THEN [segs EXCEPT ![s] = RemoveAt(sg, i)] ELSE segs
        /\ stdy' = del_stdy(stdy, s, Ofs(sg, i, 1), getsize(sg[i]))
        /\ UNCHANGED <<idx, broken>>

\* Mutant: the next block goes on sharing what it shared with the block that
\* is gone.
Regain_none(b, nxt) == [nxt EXCEPT !.plen = Min({b.plen, @})]

\* The block behind the one that goes gets back the codes it has shared with
\* it and does not share with the block before.
Regain(b, nxt) ==
    LET len == Max({0, nxt.plen - b.plen})
    IN  [nxt EXCEPT !.plen = @ - len, !.tail = SubSeq(b.tail, 1, len) \o @]

\* del_douon, a block with another one behind it.  The index follows the first
\* block.
del_douon(s, i) ==
    LET sg == segs[s]
        nxt == Regain(sg[i], sg[i + 1])
    IN  /\ segs' = [segs EXCEPT ![s] = RemoveAt([sg EXCEPT ![i + 1] = nxt], i)]
        /\ idx' = IF i = 1 THEN [idx EXCEPT ![s] = nxt.tail] ELSE idx
        /\ stdy' = del_stdy(stdy, s, Ofs(sg, i, 1),
                            getsize(sg[i]) + getsize(sg[i + 1]) - getsize(nxt))
        /\ UNCHANGED broken

\* A word of a block that has others.  The tail of the segment moves up and is
\* not terminated: in a full segment its last bytes stay behind it.
DelWord(s, i, k) ==
    LET sg == segs[s]
        b == sg[i]
        new == [b EXCEPT !.knj = RemoveAt(@, k)]
    IN  /\ segs' = [segs EXCEPT ![s][i] = new]
        /\ stdy' = del_stdy(stdy, s, Ofs(sg, i, k), getsize(b) - getsize(new))
        /\ broken' = (Extent(sg) = SegLen)
        /\ UNCHANGED idx

\* The index has no room for the reading that would become the first of the
\* segment: AD_OVFLWINDEX.
NoRoom(s, i) == i = 1 /\ ReadingLen(segs[s][2]) > FreeIdx + Len(idx[s])

\* Of several words that match the last one is deleted.  A reply is taken to
\* be about every spelling that starts with the one asked for.
deldic(w) ==
    /\ Idle
    /\ LET s == srchidx(Reading(w))
           sg == segs[s]
           r == srchkana(sg, Reading(w))
           i == r.at
           k == Max(srchkanji(sg[i], w))
           only == Len(sg[i].knj) = 1
       IN  /\ r.found
           /\ srchkanji(sg[i], w) # {}
           /\ \/ only /\ Len(sg) = 1 /\ del_segment(s)
              \/ only /\ Len(sg) > 1 /\ i = Len(sg) /\ del_last(s, i)
              \/ only /\ i < Len(sg) /\ ~NoRoom(s, i) /\ del_douon(s, i)
              \/ ~only /\ DelWord(s, i, k)
    /\ reg' = {v \in reg : v[1] # w[1] \/ v[2] # w[2] \/ ~IsPrefix(w[3], v[3])}
    /\ UNCHANGED <<aword, aseg>>

----------------------------------------------------------------------------
(* exec_study, with the study ID of a word of either dictionary.  The ID is *)
(* current: the client holds the lock from the conversion to here.          *)

WordAt(s, i, k) == <<Yomi(segs[s], i), segs[s][i].knj[k][1], segs[s][i].knj[k][2]>>

StudyUser(s, i, k) ==
    /\ Idle
    /\ stdy' = study(stdy, UserKey(s, Ofs(segs[s], i, k)), WordAt(s, i, k))
    /\ UNCHANGED <<dict, aword, aseg>>

StudyMain(o) ==
    /\ Idle
    /\ stdy' = study(stdy, [seg |-> 1, ofs |-> o, dicid |-> "main"], <<<<>>, 0, <<o>>>>)
    /\ UNCHANGED <<dict, aword, aseg>>

----------------------------------------------------------------------------
(* The listing: a cursor of segment (peepidx), block (peepdptr), the first  *)
(* spelling of its group (peephptr), spelling (peepkptr) and the reading so *)
(* far (peepyomi).  It is kept between requests; here nothing is edited     *)
(* between them.                                                            *)

None == [idx |-> 0]

\* skiphblk: where the groups of a block begin.
Heads(b) == {k \in DOMAIN b.knj : k = 1 \/ b.knj[k - 1][1] # b.knj[k][1]}

\* The first word of a block behind one of reading y.
FirstOf(s, d, y) == [idx |-> s, d |-> d, h |-> 1, k |-> 1, yomi |-> Decode(y, segs[s][d])]

\* The last word of a block: set_idxyomi, and add_yomi block by block.
LastOf(s, d) ==
    [idx |-> s, d |-> d, h |-> Max(Heads(segs[s][d])), k |-> Len(segs[s][d].knj),
     yomi |-> FoldLeft(Decode, idx[s], SubSeq(segs[s], 1, d))]

getusr == IF segs[1] = <<>> THEN None ELSE FirstOf(1, 1, <<>>)

\* Mutant: the last segment is not entered.
next_douon_last(c) ==
    IF c.d < Len(segs[c.idx]) THEN FirstOf(c.idx, c.d + 1, c.yomi)
    ELSE IF c.idx + 1 < Len(segs) THEN FirstOf(c.idx + 1, 1, idx[c.idx + 1])
    ELSE None

next_douon(c) ==
    IF c.d < Len(segs[c.idx]) THEN FirstOf(c.idx, c.d + 1, c.yomi)
    ELSE IF c.idx < Len(segs) THEN FirstOf(c.idx + 1, 1, idx[c.idx + 1])
    ELSE None

\* nextusr: next_kanji, next_hinsi, next_douon.
nextusr(c) ==
    LET b == segs[c.idx][c.d]
    IN  IF c.k = Len(b.knj) THEN next_douon(c)
        ELSE [c EXCEPT !.k = @ + 1, !.h = IF c.k + 1 \in Heads(b) THEN c.k + 1 ELSE @]

prev_douon(c) ==
    IF c.d > 1 THEN LastOf(c.idx, c.d - 1)
    ELSE IF c.idx > 1 THEN LastOf(c.idx - 1, Len(segs[c.idx - 1]))
    ELSE None

\* prevusr: prev_kanji, prev_hinsi, prev_douon.
prevusr(c) ==
    LET heads == {h \in Heads(segs[c.idx][c.d]) : h < c.k}
    IN  IF heads = {} THEN prev_douon(c) ELSE [c EXCEPT !.k = @ - 1, !.h = Max(heads)]

\* The cursors of a listing from the first word on.
Listing ==
    FoldLeft(LAMBDA l, n : IF Last(l) = None THEN l ELSE Append(l, nextusr(Last(l))),
             <<getusr>>, [n \in 1 .. Cardinality(Word) |-> n])

\* set_kanji and set_buf: what is listed.
Shown(c) == <<c.yomi, segs[c.idx][c.d].knj[c.h][1], segs[c.idx][c.d].knj[c.k][2]>>

----------------------------------------------------------------------------

\* What a dictionary with stray bytes in it does is not modelled.
Stop == broken /\ UNCHANGED vars

Next ==
    \/ \E w \in Word : BeginAdd(w) \/ deldic(w)
    \/ GiveUp \/ AddHere \/ TryNext \/ SplitAfter \/ NewSegment \/ SplitBefore
    \/ \E s \in DOMAIN segs : \E i \in DOMAIN segs[s] : \E k \in DOMAIN segs[s][i].knj :
          StudyUser(s, i, k)
    \/ \E o \in MainOfs : StudyMain(o)
    \/ Stop

Spec == Init /\ [][Next]_vars

----------------------------------------------------------------------------
(* Properties *)

\* The segments are well-formed: none is larger than seglen or empty (but for
\* an empty dictionary), the first block of each has its whole reading, which
\* the index names, and readings ascend, none in two segments.
Segments ==
    LET yomi(s) == [i \in DOMAIN segs[s] |-> Yomi(segs[s], i)]
        all == FlattenSeq([s \in DOMAIN segs |-> yomi(s)])
    IN  /\ Len(idx) = Len(segs) /\ Len(segs) <= MaxUnit
        /\ \A s \in DOMAIN segs :
              /\ Extent(segs[s]) <= SegLen
              /\ segs[s] # <<>> => segs[s][1].plen = 0 /\ idx[s] = segs[s][1].tail
              /\ segs[s] = <<>> => Len(segs) = 1
        /\ \A i \in 2 .. Len(all) : Less(all[i - 1], all[i])

\* A word whose registration was answered with success is found through the
\* index and the shared readings as long as its deletion was not, after any
\* sequence of edits, splits and failed registrations: no edit loses another
\* word, and the segments stay well-formed.
RegisteredFound == Idle => Segments /\ \A w \in reg : Lookup(w)

\* The entries are in the order that the binary search relies on, one to a word.
InOrder(tab) ==
    \A i, j \in DOMAIN tab : i < j =>
        \/ tab[i].seg < tab[j].seg
        \/ tab[i].seg = tab[j].seg /\ tab[i].ofs <= tab[j].ofs /\ Key(tab[i]) # Key(tab[j])

\* No rank exceeds the number of entries, nor do the highest ranks together.
Ranked(tab) ==
    \A n \in 1 .. Len(tab) + 1 :
        Cardinality({i \in DOMAIN tab : tab[i].styno >= n}) <= Len(tab) - n + 1

\* Every entry is found.
Searchable(tab) == InOrder(tab) /\ \A n \in DOMAIN tab : srchstdy(tab, Key(tab[n])) = n

\* An edit has moved entries of the user dictionary past one of another
\* dictionary, and done no other harm.
Crossed ==
    LET of(d) == SelectSeq(stdy', LAMBDA e : e.dicid = d)
    IN  segs' # segs /\ Ranked(stdy') /\ \A d \in {"user", "main"} : Searchable(of(d))

\* A user entry keeps naming the word it was made for, wherever the edits move
\* that word, and the table never outgrows its area.  The binary search finds
\* every entry, so no word has two, and no rank exceeds the number of entries,
\* with however many words studied, evicted and deleted, until an edit moves
\* user entries past one of another dictionary: the code moves them in place
\* (adddic.c:273-280, 483-497; deldic.c:217-290) and does not sort the table
\* again.  That is the only step that spoils it; from then on the search may
\* miss an entry and make a second one for its word.
StudyTable ==
    /\ [](Idle => \A n \in DOMAIN stdy :
             LET e == stdy[n]
             IN  e.dicid = "user" =>
                    /\ e.seg \in DOMAIN segs
                    /\ \E i \in DOMAIN segs[e.seg] : \E k \in DOMAIN segs[e.seg][i].knj :
                          Ofs(segs[e.seg], i, k) = e.ofs /\ WordAt(e.seg, i, k) = e.word)
    /\ [](Len(stdy) <= StudyMax)
    /\ [][Searchable(stdy) /\ Ranked(stdy) => (Searchable(stdy') /\ Ranked(stdy')) \/ Crossed]_stdy

\* A listing from the first word on shows every registered word once, with its
\* reading rebuilt from what the blocks share, and then ends; and going back
\* from any word of it leads to the word before.
ListingExact ==
    Idle =>
        \A l \in {Listing} :
            LET n == Len(l) - 1
                shown == [i \in 1 .. n |-> Shown(l[i])]
            IN  /\ l[n + 1] = None
                /\ reg \subseteq ToSet(shown) /\ IsInjective(shown)
                /\ \A i \in 1 .. n : prevusr(l[i]) = IF i = 1 THEN None ELSE l[i - 1]
=============================================================================
