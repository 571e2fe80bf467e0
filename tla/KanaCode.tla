------------------------------ MODULE KanaCode ------------------------------
(***************************************************************************)
(* The character codes of sj3: Shift-JIS, EUC and JIS (sj_string.c, one    *)
(* copy in the client library and one in the server), the 16-bit wide      *)
(* characters of the romaji library (wc16_str.c), and the conversion of    *)
(* half-width to full-width text and back (sj3_rkcv.c).                    *)
(*                                                                         *)
(* A multibyte string is a sequence of bytes without its terminating 0, a  *)
(* wide string a sequence of 16-bit numbers.  The state is one wide string *)
(* `ws', built character by character; the functions are checked on it.    *)
(***************************************************************************)
EXTENDS Integers, Sequences, SequencesExt

CONSTANTS
    First,      \* the wide characters a text may start with
    Starts,     \* those of them that more may follow
    Others,     \* the wide characters that may follow
    MaxText     \* bound on the length of the text

VARIABLE ws

SS2 == \h8e
SS3 == \h8f
Hi(c) == c \div 256
Lo(c) == c % 256
Word(h, l) == h * 256 + l
Msb(b) == b >= 128
SetMsb(b) == (b % 128) + 128

issjis1(b) == b \in \h81..\h9f \/ b \in \he0..\hfc
iseuc(b) == b \in \ha1..\hfe
iskana2(b) == b \in \ha1..\hdf

-----------------------------------------------------------------------------
(* One character.  A double-byte code is <<first byte, second byte>>. *)

sj_jis2sjis(s) ==
    LET h == (s[1] - \h21) \div 2 + \h81
    IN  <<IF h > \h9f THEN h + \h40 ELSE h,
          IF s[1] % 2 = 0 THEN s[2] + \h7e
          ELSE IF s[2] > \h5f THEN s[2] + \h20 ELSE s[2] + \h1f>>

\* A code outside the table becomes the one of a space.
sj_sjis2jis(s) ==
    LET bad == \/ s[1] <= \h80 \/ s[1] >= \hf0 \/ s[1] \in \ha0..\hdf
               \/ s[2] <= \h3f \/ s[2] >= \hfe \/ s[2] = \h7f
        b1 == IF bad THEN \h81 ELSE s[1]
        b2 == IF bad THEN \h40 ELSE s[2]
        row == 2 * (b1 - (IF b1 >= \ha0 THEN \hc1 ELSE \h81))
    IN  IF b2 >= \h9f THEN <<row + \h22, b2 - \h7e>>
        ELSE <<row + \h21, b2 - (IF b2 <= \h7e THEN \h1f ELSE \h20)>>

jis2euc(s) == <<SetMsb(s[1]), SetMsb(s[2])>>
sjis2euc(s) == jis2euc(sj_sjis2jis(s))
euc2sjis(s) == sj_jis2sjis(<<s[1] % 128, s[2] % 128>>)

\* Mutant: the mark of a supplementary character is lost.
euc2wc16_msb(b) ==
    IF Len(b) = 3 THEN Word(b[2], b[3])
    ELSE IF Len(b) = 1 THEN b[1]
    ELSE IF b[1] = SS2 THEN b[2]
    ELSE Word(b[1], b[2])

\* The wide character of an EUC character of one, two or three bytes.
euc2wc16(b) ==
    IF Len(b) = 3 THEN Word(b[2], b[3] % 128)
    ELSE IF Len(b) = 1 THEN b[1]
    ELSE IF b[1] = SS2 THEN b[2]
    ELSE Word(b[1], b[2])

sjis2wc16(b) ==
    IF Len(b) = 2 THEN euc2wc16(sjis2euc(b))
    ELSE IF Msb(b[1]) THEN euc2wc16(<<SS2, b[1]>>)
    ELSE b[1]

wc2euc16(w) ==
    IF Hi(w) # 0
    THEN IF Msb(Lo(w)) THEN <<Hi(w), Lo(w)>> ELSE <<SS3, Hi(w), Lo(w) + 128>>
    ELSE IF Msb(w) THEN <<SS2, w>> ELSE <<w>>

\* No Shift-JIS code (<<>>) for a character of the supplementary set.
wc2sjis16(w) ==
    LET e == wc2euc16(w)
    IN  IF Len(e) = 3 THEN <<>>
        ELSE IF Len(e) = 1 THEN e
        ELSE IF e[1] = SS2 THEN <<e[2]>>
        ELSE euc2sjis(e)

-----------------------------------------------------------------------------
(* Strings.  Each loop runs over the characters of its input. *)

\* The bytes of the character at position i, as the decoders cut them.
SjisChar(s, i) == IF issjis1(s[i]) THEN SubSeq(s, i, i + 1) ELSE <<s[i]>>
EucChar(s, i) ==
    IF s[i] = SS3 THEN SubSeq(s, i, i + 2)
    ELSE IF Msb(s[i]) THEN SubSeq(s, i, i + 1)
    ELSE <<s[i]>>

SjisChars(s) ==
    LET F[i \in Nat] == IF i > Len(s) THEN <<>>
                        ELSE LET c == SjisChar(s, i)
                             IN  <<c>> \o F[i + Len(c)]
    IN  F[1]
EucChars(s) ==
    LET F[i \in Nat] == IF i > Len(s) THEN <<>>
                        ELSE LET c == EucChar(s, i)
                             IN  <<c>> \o F[i + Len(c)]
    IN  F[1]

sjiss2wcs16(s) == LET c == SjisChars(s) IN [i \in 1..Len(c) |-> sjis2wc16(c[i])]
eucs2wcs16(s) == LET c == EucChars(s) IN [i \in 1..Len(c) |-> euc2wc16(c[i])]

\* What a converter returns: the count of bytes, the text in the buffer, the
\* substitutes used, and in `end' how many bytes of the buffer it wrote to, a
\* terminating 0 included.
Fail == [ret |-> -1, out |-> <<>>, used |-> 0, end |-> 0]

\* Copy the encoded characters while there is room for n bytes; a character
\* may be cut in the middle.  An empty code is an error.  The 0 follows when
\* the loop has passed the last character: not when a character of several
\* bytes fills the buffer.
Encode(codes, n) ==
    LET all == FlattenSeq(codes)
        bad == {i \in 1..Len(codes) : codes[i] = <<>>}
        upto(i) == Len(FlattenSeq(SubSeq(codes, 1, i)))
        reached == {i \in bad : upto(i - 1) < n /\ \A j \in bad : i <= j}
        passed == \/ codes = <<>> \/ Len(all) < n
                  \/ Len(all) = n /\ Len(Last(codes)) = 1
    IN  IF reached # {} THEN [Fail EXCEPT !.end = upto((CHOOSE i \in reached : TRUE) - 1)]
        ELSE LET out == IF Len(all) <= n THEN all ELSE SubSeq(all, 1, n)
             IN  [ret |-> Len(out), out |-> out, used |-> 0,
                  end |-> IF passed THEN Len(out) + 1 ELSE Len(out)]

wcs2eucs16(w, n) == Encode([i \in 1..Len(w) |-> wc2euc16(w[i])], n)
wcs2sjiss16(w, n) == Encode([i \in 1..Len(w) |-> wc2sjis16(w[i])], n)

\* Mutant: a two-byte character is dropped where it does not fit.
Convert_drop(items, outlen) ==
    LET F[i \in Nat] ==
          IF i = 0 THEN [ret |-> 0, out |-> <<>>, used |-> 0, end |-> 1]
          ELSE LET r == F[i - 1]
               IN  IF r.ret + Len(items[i].b) > outlen THEN r
                   ELSE [ret |-> r.ret + Len(items[i].b),
                         out |-> r.out \o items[i].b,
                         used |-> r.used + items[i].def,
                         end |-> r.end + Len(items[i].b)]
    IN  F[Len(items)]

\* Both string converters: a character that needs two bytes and does not fit
\* is an error; when the buffer is exactly full the loop just ends.  A 0 is
\* written first of all and again behind the text, outside the buffer when
\* the text fills it.
Convert(items, outlen) ==
    LET F[i \in Nat] ==
          IF i = 0 THEN [ret |-> 0, out |-> <<>>, used |-> 0, end |-> 1]
          ELSE LET r == F[i - 1]
                   n == Len(items[i].b)
               IN  IF r.ret < 0 \/ r.ret >= outlen THEN r
                   ELSE IF n = 2 /\ r.ret + 2 > outlen
                   THEN [Fail EXCEPT !.end = IF r.ret = 0 THEN 1 ELSE r.ret]
                   ELSE [ret |-> r.ret + n, out |-> r.out \o items[i].b,
                         used |-> r.used + items[i].def, end |-> r.ret + n + 1]
    IN  F[Len(items)]

def_char == <<\h81, \h40>>

sj3_str_sjistoeuc(in, outlen) ==
    LET c == SjisChars(in)
        item(b) == IF Len(b) = 2 THEN sjis2euc(b)
                   ELSE IF iskana2(b[1]) THEN <<SS2, b[1]>> ELSE b
    IN  Convert([i \in 1..Len(c) |-> [b |-> item(c[i]), def |-> 0]], outlen)

sj3_str_euctosjis(in, outlen) ==
    LET c == EucChars(in)
        item(b) == IF Len(b) = 3 THEN def_char
                   ELSE IF Len(b) = 1 THEN b
                   ELSE IF b[1] = SS2 THEN <<b[2]>>
                   ELSE euc2sjis(b)
    IN  Convert([i \in 1..Len(c) |->
                   [b |-> item(c[i]), def |-> IF Len(c[i]) = 3 THEN 1 ELSE 0]],
                outlen)

\* The length the first max bytes of a Shift-JIS text have in EUC.
sj3_sjistoeuclen(str, max) ==
    LET c == SjisChars(str)
        start(i) == Len(FlattenSeq(SubSeq(c, 1, i - 1)))
        size(b) == IF Len(b) = 2 \/ Msb(b[1]) THEN 2 ELSE 1
    IN  FoldLeft(LAMBDA n, i : IF start(i) < max THEN n + size(c[i]) ELSE n,
                 0, [i \in 1..Len(c) |-> i])

-----------------------------------------------------------------------------
(* Half-width and full-width. *)

KA == \hb6
NA == \hc5
HA == \hca
MA == \hcf
WA == \hdc
DTEN == \hde
HDTEN == \hdf
ZEN_SPACE == \ha1a1
ZEN_DTEN == \ha1ab
ZEN_HDTEN == \ha1ac
ZEN_VU == \ha5f4

\* The half-width form of the 86 full-width kana in code order: one byte, or
\* two (kana and sound mark) in one number.
HKtable ==
    LET plain(k, n) == [i \in 1..n |-> k + i - 1]
        both(x, k, n) == FlattenSeq([i \in 1..n |-> <<x + i - 1, k + i - 1>>])
        voiced(k, n) ==
            FlattenSeq([i \in 1..n |-> <<k + i - 1, Word(k + i - 1, DTEN)>>])
        triple(k) ==
            FlattenSeq([i \in 1..5 |-> <<k + i - 1, Word(k + i - 1, DTEN),
                                         Word(k + i - 1, HDTEN)>>])
    IN  both(\ha7, \hb1, 5) \o voiced(KA, 5) \o voiced(\hbb, 5)
        \o voiced(\hc0, 2) \o <<\haf>> \o voiced(\hc2, 3)
        \o plain(NA, 5) \o triple(HA) \o plain(MA, 5)
        \o both(\hac, \hd4, 3) \o plain(\hd7, 5)
        \o <<WA, WA, \hb2, \hb4, \ha6, WA + 1, Word(\hb3, DTEN), KA, KA + 3>>

\* Punctuation: half-width and full-width.
HKKtbl ==
    <<<<\ha1, \ha1a3>>, <<\ha2, \ha1d6>>, <<\ha3, \ha1d7>>, <<\ha4, \ha1a2>>,
      <<\ha5, \ha1a6>>, <<\hb0, \ha1bc>>, <<DTEN, ZEN_DTEN>>,
      <<HDTEN, ZEN_HDTEN>>>>

\* The full-width forms of ASCII 0x20 to 0x7e.
HZtbl ==
    <<
      \ha1a1, \ha1aa, \ha1c9, \ha1f4, \ha1f0, \ha1f3, \ha1f5, \ha1c7,
      \ha1ca, \ha1cb, \ha1f6, \ha1dc, \ha1a4, \ha1dd, \ha1a5, \ha1bf,
      \ha3b0, \ha3b1, \ha3b2, \ha3b3, \ha3b4, \ha3b5, \ha3b6, \ha3b7,
      \ha3b8, \ha3b9, \ha1a7, \ha1a8, \ha1e3, \ha1e1, \ha1e4, \ha1a9,
      \ha1f7, \ha3c1, \ha3c2, \ha3c3, \ha3c4, \ha3c5, \ha3c6, \ha3c7,
      \ha3c8, \ha3c9, \ha3ca, \ha3cb, \ha3cc, \ha3cd, \ha3ce, \ha3cf,
      \ha3d0, \ha3d1, \ha3d2, \ha3d3, \ha3d4, \ha3d5, \ha3d6, \ha3d7,
      \ha3d8, \ha3d9, \ha3da, \ha1ce, \ha1ef, \ha1cf, \ha1b0, \ha1b2,
      \ha1c6, \ha3e1, \ha3e2, \ha3e3, \ha3e4, \ha3e5, \ha3e6, \ha3e7,
      \ha3e8, \ha3e9, \ha3ea, \ha3eb, \ha3ec, \ha3ed, \ha3ee, \ha3ef,
      \ha3f0, \ha3f1, \ha3f2, \ha3f3, \ha3f4, \ha3f5, \ha3f6, \ha3f7,
      \ha3f8, \ha3f9, \ha3fa, \ha1d0, \ha1c3, \ha1d1, \ha1b1
    >>

ishira(c) == c \in \ha4a1..\ha4f3
iskata(c) == c \in \ha5a1..\ha5f6
Zenkaku(c) == c >= \h8000

\* The first place of x in the table t, or 0.
Place(t, x) ==
    LET at == {i \in 1..Len(t) : t[i] = x}
    IN  IF at = {} THEN 0 ELSE CHOOSE i \in at : \A j \in at : i <= j

sj_han2zen(c) ==
    LET i == Place(HKtable, c)
        k == Place([j \in 1..8 |-> HKKtbl[j][1]], c)
    IN  IF ~Zenkaku(c) /\ iskana2(c)
        THEN IF i > 83 THEN \ha5a1 + i
             ELSE IF i # 0 THEN \ha4a1 + i - 1 + (IF c = WA THEN 1 ELSE 0)
             ELSE IF k # 0 THEN HKKtbl[k][2] ELSE ZEN_SPACE
        ELSE IF c \in \h20..\h7e THEN HZtbl[c - \h1f] ELSE c

sj_zen2han(c) ==
    LET k == Place([j \in 1..8 |-> HKKtbl[j][2]], c)
        h == Place(HZtbl, c)
    IN  IF ishira(c) THEN HKtable[c - \ha4a0]
        ELSE IF iskata(c) THEN HKtable[c - \ha5a0]
        ELSE IF k # 0 THEN HKKtbl[k][1]
        ELSE IF h # 0 THEN h + \h1f ELSE c

\* The kana that prefix becomes with a sound mark, or 0.
sj_addten(prefix, c) ==
    LET mark(c1) ==
        IF c \notin {ZEN_DTEN, ZEN_HDTEN} \/ ~(ishira(prefix) \/ iskata(prefix))
        THEN 0
        ELSE IF c1 \in KA..(NA - 1) \/ c1 \in HA..(MA - 1)
        THEN IF c = ZEN_DTEN THEN prefix + 1
             ELSE IF c1 >= HA THEN prefix + 2 ELSE 0
        ELSE IF c1 = \hb3 /\ iskata(prefix) /\ c = ZEN_DTEN THEN ZEN_VU ELSE 0
    IN  mark(sj_zen2han(prefix))

\* Mutant: a kana that took a mark may take another.
JoinMark_again(s, cc, c1) ==
    IF c1 # 0 THEN [out |-> Append(Front(s.out), c1), prefix |-> s.prefix]
    ELSE [out |-> Append(s.out, cc), prefix |-> IF Hi(cc) # 0 THEN cc ELSE 0]

\* A sound mark joins the kana before it, if the two are one character.
JoinMark(s, cc, c1) ==
    IF Hi(cc) = 0 THEN [out |-> Append(s.out, cc), prefix |-> 0]
    ELSE IF c1 # 0 THEN [out |-> Append(Front(s.out), c1), prefix |-> 0]
    ELSE [out |-> Append(s.out, cc), prefix |-> cc]
HantozenStep(s, c) ==
    LET step(cc) ==
            JoinMark(s, cc, IF s.prefix = 0 THEN 0 ELSE sj_addten(s.prefix, cc))
    IN  step(sj_han2zen(c))

sj_hantozen(w) == FoldLeft(HantozenStep, [out |-> <<>>, prefix |-> 0], w).out

\* A full-width character without a half-width form is kept, but its first
\* byte is written before it.
ZentohanChar(c) ==
    LET put(cc) == IF Hi(cc) # 0 /\ cc # c THEN <<Hi(cc), Lo(cc)>>
                   ELSE IF Hi(cc) # 0 THEN <<Hi(cc), cc>>
                   ELSE <<cc>>
    IN  put(IF Zenkaku(c) THEN sj_zen2han(c) ELSE c)

sj_zentohan(w) == FlattenSeq([i \in 1..Len(w) |-> ZentohanChar(w[i])])

\* The multibyte entry points; loc is the process's locale.
mbstowcs(loc, mb) == IF loc = "EUC" THEN eucs2wcs16(mb) ELSE sjiss2wcs16(mb)
wcstombs(loc, w, n) == IF loc = "EUC" THEN wcs2eucs16(w, n) ELSE wcs2sjiss16(w, n)

\* Widening a text in the code of the locale.
AsIs(in) == [ret |-> Len(in), out |-> in]   \* the text itself, not copied
Widen(loc, m) ==
    LET encode(w) == [e |-> wcstombs(loc, w, 3 * Len(w)), room |-> 3 * Len(w)]
    IN  IF m.ret < 0 THEN [e |-> Fail, room |-> 0]
        ELSE encode(sj_hantozen(mbstowcs(loc, m.out)))

\* The text is given and returned in Shift-JIS.  In an EUC locale it goes
\* through a buffer of the size it has in Shift-JIS.
sj3_hantozen(loc, in) ==
    LET back(w) == IF w.e.ret < 0 THEN Fail ELSE sj3_str_euctosjis(w.e.out, w.room)
    IN  IF loc = "EUC" THEN back(Widen(loc, sj3_str_sjistoeuc(in, Len(in) + 1)))
        ELSE Widen(loc, AsIs(in)).e

\* The text is given and returned in EUC.
sj3_hantozen_euc(loc, in) ==
    LET back(w) == IF w.e.ret < 0 THEN Fail ELSE sj3_str_sjistoeuc(w.e.out, w.room)
    IN  IF loc = "EUC" THEN Widen(loc, AsIs(in)).e
        ELSE back(Widen(loc, sj3_str_euctosjis(in, Len(in) + 1)))

\* Shift-JIS to Shift-JIS, in a Shift-JIS locale.
sj3_zentohan(in) ==
    LET encode(w) == wcs2sjiss16(w, 3 * Len(w))
    IN  encode(sj_zentohan(sjiss2wcs16(in)))

-----------------------------------------------------------------------------
Init == ws = <<>>

Type(c) ==
    /\ Len(ws) < MaxText
    /\ ws # <<>> => ws[1] \in Starts
    /\ ws' = Append(ws, c)

Next == \E c \in IF ws = <<>> THEN First ELSE Others : Type(c)

Spec == Init /\ [][Next]_ws

-----------------------------------------------------------------------------
(* Properties. *)

Supplementary(c) == Zenkaku(c) /\ ~Msb(Lo(c))
HasSjis == \A i \in 1..Len(ws) : ~Supplementary(ws[i])
Room == 3 * MaxText + 1
Euc == wcs2eucs16(ws, Room).out
Sjis == wcs2sjiss16(ws, Room).out

\* Every text survives the way through EUC and, without supplementary
\* characters, the way through Shift-JIS; both codes decode to one wide text,
\* the direct converters agree with the wide characters, and the length the
\* client library announces for the EUC form of a Shift-JIS text is right.
CodesAgree ==
    /\ eucs2wcs16(Euc) = ws
    /\ HasSjis => /\ sjiss2wcs16(Sjis) = ws
                  /\ sj3_sjistoeuclen(Sjis, Len(Sjis)) = Len(Euc)
                  /\ sj3_str_sjistoeuc(Sjis, Room).out = Euc
                  /\ sj3_str_euctosjis(Euc, Room).out = Sjis
    /\ ~HasSjis => wcs2sjiss16(ws, Room).ret = -1

\* Nothing but the terminating 0 goes behind a room of n bytes, and that only
\* one byte behind and only after a text that fills the room.
RoomAndOne(r, n) == r.end > n => r.end = n + 1 /\ r.ret = n

\* A converter given too little room refuses or stops with the buffer full: a
\* result shorter than the buffer is the whole text, with one substitute
\* counted for every supplementary character.  It needs one byte more than
\* the room it is told of: a text that fills the room exactly is ended behind
\* it (sj_string.c:100, 150; in wc16_str.c after a character of one byte).
RoomRespected ==
    \A n \in 0..Room :
        LET e == sj3_str_euctosjis(Euc, n)
            s == sj3_str_sjistoeuc(Sjis, n)
        IN  /\ \A r \in {e, s, wcs2eucs16(ws, n), wcs2sjiss16(ws, n)} : RoomAndOne(r, n)
            /\ e.ret <= n /\ s.ret <= n
            /\ 0 <= e.ret /\ e.ret < n =>
                  /\ e.used = Len(SelectSeq(ws, Supplementary))
                  /\ Len(sjiss2wcs16(e.out)) = Len(ws)
            /\ HasSjis /\ 0 <= s.ret /\ s.ret < n => s.out = Euc

\* Widening a text gives the same in either locale and in either code,
\* except that sj3_hantozen in an EUC locale refuses or cuts a text whose EUC
\* form is longer than its buffer, the Shift-JIS length and one; and half-width
\* text comes back unchanged from full width, sound marks that were joined to
\* their kana included.
WidthExact ==
    LET want == sj_hantozen(ws)
        fits == Len(Euc) <= Len(Sjis) + 1
    IN  HasSjis /\ ws # <<>> =>
          /\ sj3_hantozen("SJIS", Sjis).out = wcs2sjiss16(want, Room).out
          /\ fits => sj3_hantozen("EUC", Sjis).out = wcs2sjiss16(want, Room).out
          /\ \A loc \in {"EUC", "SJIS"} :
                sj3_hantozen_euc(loc, Euc).out = wcs2eucs16(want, Room).out
          /\ (\A i \in 1..Len(ws) : ~Zenkaku(ws[i])) =>
                sj3_zentohan(sj3_hantozen("SJIS", Sjis).out).out = Sjis
=============================================================================
