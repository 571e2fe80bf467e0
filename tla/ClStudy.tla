------------------------------ MODULE ClStudy -------------------------------
(***************************************************************************)
(* Learned clause boundaries (clstudy.c), their use by the analysis        *)
(* (dic_cl in mkjiritu.c) and their image in the study file (sdepend.c).   *)
(*                                                                         *)
(* The area holds blocks, each the reading of a clause and of the stem of  *)
(* the one behind it, the length of the former, the part of speech and a   *)
(* number: 1 for the last one learned.  The block behind the last one has  *)
(* length 0.  A table gives, for every `Step' first characters, the byte   *)
(* where the blocks that start with one of them begin.  Every change is    *)
(* written to the file, table first; a crash may come between the writes,  *)
(* and opening the file takes both as they are.                            *)
(***************************************************************************)
EXTENDS Integers, Sequences, FiniteSets, SequencesExt

MAXCODE == 255

CONSTANTS
    Chars,      \* the codes of the characters of a reading, bytes but 0
    Depend,     \* those that cannot start a syllable (isdpnd)
    Gram,       \* parts of speech
    Clauses,    \* the pairs <<reading of a clause, reading of the next stem>>
    Words,      \* the readings that are registered or forgotten
    MaxText,    \* bound on the texts that are looked up
    AreaLen,    \* CLSTUDYLEN, the bytes of the area
    Step        \* CLSTUDYSTEP, the characters per entry of the table

ASSUME ConstantsAssumption ==
    /\ Chars \subseteq 1..MAXCODE
    /\ Depend \subseteq Chars
    /\ Clauses \subseteq (Seq(Chars) \ {<<>>}) \X (Seq(Chars) \ {<<>>})
    /\ Words \subseteq Seq(Chars) \ {<<>>}
    /\ {MaxText, AreaLen, Step} \subseteq Nat \ {0}

VARIABLES
    area,       \* the blocks of CLSTUDYDICT in order
    idx,        \* CLSTUDYIDX
    file,       \* both as the study file has them, and whether the last
                \* change has reached only its table
    writing,    \* what putcldic still has to write: "both", "area", "none"
    ret,        \* what the last clstudy returned
    learned,    \* the block it was to learn
    torn        \* the table in memory was read from such a file

vars == <<area, idx, file, writing, ret, learned, torn>>

CL_HDLEN == 5
NoEntry == -1           \* (u_short)-1

Texts == UNION {[1..k -> Chars] : k \in 1..MaxText}
Buckets == 0..(MAXCODE \div Step)

ClBlkLen(e) == Len(e.yomi) + CL_HDLEN
ClNextTag(a, k) ==
    LET tag[n \in 0..Len(a)] == IF n = 0 THEN 0 ELSE tag[n - 1] + ClBlkLen(a[n])
    IN  tag[k]
Used(a) == ClNextTag(a, Len(a))

-----------------------------------------------------------------------------
(* Deletion.  A block leaves its number to those above it. *)

delclsub(a, k) ==
    LET rest == RemoveAt(a, k)
    IN  [i \in DOMAIN rest |->
            IF rest[i].num > a[k].num
            THEN [rest[i] EXCEPT !.num = @ - 1] ELSE rest[i]]

Related(y, e) == IsPrefix(y, e.yomi) \/ IsPrefix(e.yomi, y)

\* One step of delcldata: a[k] is related to y or not, b is what is left of a.
Without(y, a, b, k) == IF Related(y, a[k]) THEN delclsub(b, k) ELSE b

\* Every block whose reading continues y, or which y continues.  The code
\* goes from the front; the numbers are distinct, so the order is no matter.
delcldata(a, y) ==
    LET left[n \in 0..Len(a)] ==
            IF n = 0 THEN a ELSE Without(y, a, left[n - 1], Len(a) - n + 1)
    IN  left[Len(a)]

\* Mutant: the block of the lowest number goes.
delclold_new(a) ==
    delclsub(a, CHOOSE k \in DOMAIN a :
                    \A j \in DOMAIN a : a[j].num >= a[k].num)

delclold(a) ==
    delclsub(a, CHOOSE k \in DOMAIN a :
                    \A j \in DOMAIN a : a[j].num <= a[k].num
                                        /\ (j > k => a[j].num < a[k].num))

\* The deletions until the room counted is enough.  What delclold returns is
\* the length of the end mark, CL_HDLEN, not that of the block it deleted, so
\* more blocks may go than need to.
Deletions(a, blen, alen) ==
    LET enough == {n \in 0..Len(a) : blen + n * CL_HDLEN >= alen}
    IN  IF enough = {} THEN Len(a)
        ELSE CHOOSE n \in enough : \A m \in enough : n <= m

MakeRoom(a, deletions) ==
    LET left[n \in 0..Len(a)] == IF n = 0 THEN a ELSE delclold(left[n - 1])
    IN  left[deletions]

-----------------------------------------------------------------------------
(* Insertion in the order of the readings. *)

Before(y, z) ==
    \E k \in 1..Len(z) :
        /\ k <= Len(y) + 1
        /\ SubSeq(y, 1, k - 1) = SubSeq(z, 1, k - 1)
        /\ k <= Len(y) => y[k] < z[k]

srchclpos(a, y) ==
    LET later == {k \in DOMAIN a : Before(y, a[k].yomi)}
    IN  IF later = {} THEN Len(a) + 1
        ELSE CHOOSE k \in later : \A j \in later : k <= j

Insert(a, e) ==
    InsertAt([i \in DOMAIN a |-> [a[i] EXCEPT !.num = @ + 1]],
             srchclpos(a, e.yomi), e)

\* Mutant: the table covers only blocks that start a bucket.
mkclidx_first(a) ==
    [b \in Buckets |->
        LET ks == {k \in DOMAIN a : a[k].yomi[1] = b * Step}
        IN  IF ks = {} THEN NoEntry
            ELSE ClNextTag(a, (CHOOSE k \in ks : \A j \in ks : k <= j) - 1)]

mkclidx(a) ==
    [b \in Buckets |->
        LET ks == {k \in DOMAIN a : a[k].yomi[1] >= b * Step}
            k == CHOOSE i \in ks : \A j \in ks : i <= j
        IN  IF ks = {} THEN NoEntry
            ELSE IF a[k].yomi[1] < (b + 1) * Step THEN ClNextTag(a, k - 1)
            ELSE NoEntry]

-----------------------------------------------------------------------------
(* The blocks dic_cl finds in front of a text: from where the table says, *)
(* up to the first one that is behind the text (OVER).                     *)

Over(t, y) == \E k \in 1..Len(y) :
    k <= Len(t) /\ SubSeq(t, 1, k - 1) = SubSeq(y, 1, k - 1) /\ t[k] < y[k]

dic_cl(t) ==
    LET pos == idx[t[1] \div Step]
        from == {k \in DOMAIN area : pos # NoEntry /\ ClNextTag(area, k - 1) >= pos}
        scanned == {k \in from : \A j \in from : j <= k => ~Over(t, area[j].yomi)}
    IN  {area[k] : k \in
            {k \in scanned :
                LET y == area[k].yomi
                IN  IsPrefix(y, t)
                    /\ ~(Len(t) > Len(y) /\ t[Len(y) + 1] \in Depend)}}

-----------------------------------------------------------------------------
NoBlock == [yomi |-> <<>>, y1len |-> 0, gram |-> 0, num |-> 0]

\* makestdy: an area and a table of zeros.
Init ==
    /\ area = <<>>
    /\ idx = [b \in Buckets |-> 0]
    /\ file = [area |-> area, idx |-> idx, torn |-> FALSE]
    /\ writing = "none"
    /\ ret = "none"
    /\ learned = NoBlock
    /\ torn = FALSE

Changed(a) ==
    /\ area' = a
    /\ idx' = mkclidx(a)
    /\ torn' = FALSE
    /\ writing' = "both"
    /\ UNCHANGED file

\* clstudy with a second clause whose stem has the reading y2.
clstudy(y1, y2, g) ==
    LET y == y1 \o y2
        alen == Len(y) + CL_HDLEN
        kept == delcldata(area, y)
        blen == AreaLen - Used(kept) - 1
        deletions == Deletions(kept, blen, alen)
        room == MakeRoom(kept, deletions)
        fits == blen + deletions * CL_HDLEN >= alen
        e == [yomi |-> y, y1len |-> Len(y1), gram |-> g, num |-> 1]
    IN  /\ writing = "none"
        /\ learned' = e
        /\ \/ /\ alen + 1 >= AreaLen
              /\ ret' = "NoArea"
              /\ UNCHANGED <<area, idx, file, writing, torn>>
           \/ /\ alen + 1 < AreaLen
              /\ ret' = (IF fits THEN "NormEnd" ELSE "NoArea")
              /\ Changed(IF fits THEN Insert(room, e) ELSE room)

\* clstudy without a second clause: the boundaries behind y are forgotten.
clstudy_del(y) ==
    /\ writing = "none"
    /\ Changed(delcldata(area, y))
    /\ ret' = "NormEnd"
    /\ learned' = NoBlock

\* Mutant: the change is not written.
adddic_nosave(y) ==
    LET hit == {k \in DOMAIN area : IsPrefix(area[k].yomi, y)}
        k == CHOOSE i \in hit : \A j \in hit : i <= j
    IN  /\ writing = "none"
        /\ hit # {}
        /\ area' = delclsub(area, k)
        /\ idx' = mkclidx(area')
        /\ learned' = NoBlock
        /\ UNCHANGED <<ret, file, writing, torn>>

\* adddic: a word is registered whose reading starts with a learned one.
adddic(y) ==
    LET hit == {k \in DOMAIN area : IsPrefix(area[k].yomi, y)}
        over == {k \in DOMAIN area : Over(y, area[k].yomi)}
        k == CHOOSE i \in hit : \A j \in hit : i <= j
    IN  /\ writing = "none"
        /\ hit # {}
        /\ \A j \in over : j > k
        /\ Changed(delclsub(area, k))
        /\ learned' = NoBlock
        /\ UNCHANGED ret

\* putcldic: first the table, then the area.
putcldic_idx ==
    /\ writing = "both"
    /\ file' = [file EXCEPT !.idx = idx, !.torn = TRUE]
    /\ writing' = "area"
    /\ UNCHANGED <<area, idx, ret, learned, torn>>

putcldic_area ==
    /\ writing = "area"
    /\ file' = [file EXCEPT !.area = area, !.torn = FALSE]
    /\ writing' = "none"
    /\ UNCHANGED <<area, idx, ret, learned, torn>>

\* The server stops, at a signal or in a crash, and openstdy reads the file.
Restart ==
    /\ area' = file.area
    /\ idx' = file.idx
    /\ torn' = file.torn
    /\ writing' = "none"
    /\ ret' = "none"
    /\ learned' = NoBlock
    /\ UNCHANGED file

\* The request, with or without a second clause.
exec_clstudy ==
    \/ \E c \in Clauses, g \in Gram : clstudy(c[1], c[2], g)
    \/ \E y \in Words : clstudy_del(y)

Next ==
    \/ exec_clstudy
    \/ \E y \in Words : adddic(y)
    \/ putcldic_idx
    \/ putcldic_area
    \/ Restart

Spec == Init /\ [][Next]_vars

-----------------------------------------------------------------------------
TypeOK ==
    /\ area \in Seq([yomi : {c[1] \o c[2] : c \in Clauses},
                     y1len : {Len(c[1]) : c \in Clauses},
                     gram : Gram, num : 1..AreaLen])
    /\ idx \in [Buckets -> {NoEntry} \cup 0..AreaLen]
    /\ writing \in {"both", "area", "none"}
    /\ ret \in {"none", "NormEnd", "NoArea"}
    /\ torn \in BOOLEAN

(***************************************************************************)
(* Through the table and the early end of its scan dic_cl finds for every  *)
(* text exactly the blocks it starts with; that needs the blocks in order  *)
(* and none of them the start of another, and the end mark in its place:   *)
(* the blocks leave at least one byte of the area (clstudy.c:85-101).  So  *)
(* a boundary reported as learned decides the next conversion of its text. *)
(* A table of a crash between the two writes of putcldic is the exception, *)
(* until the next change.                                                  *)
(***************************************************************************)
LookupExact ==
    /\ ~torn => \A t \in Texts :
          dic_cl(t) =
              {area[k] : k \in {k \in DOMAIN area :
                  IsPrefix(area[k].yomi, t)
                  /\ ~(/\ Len(t) > Len(area[k].yomi)
                       /\ t[Len(area[k].yomi) + 1] \in Depend)}}
    /\ ret = "NormEnd" /\ learned # NoBlock => dic_cl(learned.yomi) = {learned}
    /\ Used(area) < AreaLen

(***************************************************************************)
(* To make room the oldest blocks go: a block that went although the new   *)
(* one says nothing about it was older than every one that stayed, and     *)
(* those that stay keep their order of age.                                *)
(***************************************************************************)
OldestGo ==
    [][learned' # NoBlock /\ writing = "none" /\ writing' = "both" =>
        \A i, j \in DOMAIN area :
            LET stays(k) == \E m \in DOMAIN area' :
                                /\ area'[m].yomi = area[k].yomi
                                /\ area'[m].num # 1
                age(k) == area'[CHOOSE m \in DOMAIN area' :
                                    area'[m].yomi = area[k].yomi].num
            IN  /\ (/\ stays(i) /\ ~stays(j)
                    /\ ~Related(learned'.yomi, area[j]))
                   => area[i].num < area[j].num
                /\ (stays(i) /\ stays(j) /\ area[i].num < area[j].num)
                   => age(i) < age(j)]_vars

(***************************************************************************)
(* While nothing is being written, the file has what the memory has, so a  *)
(* stop then loses nothing, and the numbers by which delclold finds the    *)
(* oldest block are those from 1 to the number of blocks, whatever is      *)
(* learned, forgotten, evicted and read back.                              *)
(***************************************************************************)
FileFollows ==
    /\ writing = "none" => file.area = area /\ file.idx = idx
    /\ {area[k].num : k \in DOMAIN area} = 1..Len(area)
=============================================================================
