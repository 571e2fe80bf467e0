------------------------------ MODULE MCHenkan -------------------------------
(***************************************************************************)
(* A grammar small enough to see through: nouns (1), verbs (2), single     *)
(* characters (3), entries for phrases (4), unknown words (5, 6), numbers  *)
(* (7) and counters (8); kana 1 to 3, of which 3 starts no word, 4 that    *)
(* depends on what is before it, a comma 5, a bracket 6 and a digit 7.     *)
(***************************************************************************)
EXTENDS Henkan

K(kj, kana, hira, sjis) == [kj |-> kj, kana |-> kana, hira |-> hira, sjis |-> sjis]
W(y, h, k) == [yomi |-> y, hinsi |-> h, seg |-> 1, kanji |-> k]

MCWord == <<
    W(<<1>>, 1, <<K("ka", 0, FALSE, FALSE), K("kb", 0, FALSE, TRUE)>>),
    W(<<1>>, 3, <<K("ka", 0, FALSE, FALSE)>>),
    W(<<1, 2>>, 1, <<K("ka", 1, FALSE, TRUE), K("kc", 0, TRUE, TRUE)>>),
    W(<<2>>, 2, <<K("kd", 0, FALSE, TRUE)>>),
    W(<<1, 2, 1>>, 4, <<K("ke", 0, FALSE, TRUE)>>),
    W(<<1, 1>>, 8, <<K("kf", 0, FALSE, TRUE), K("kg", 0, FALSE, FALSE)>>)>>

MCNumeral == <<
    [yomi |-> <<7>>, hinsi |-> 7, class |-> "AR", flags |-> {}, word |-> 0],
    [yomi |-> <<7, 1>>, hinsi |-> 7, class |-> "AR", flags |-> {"NN0"}, word |-> 6],
    [yomi |-> <<7, 1>>, hinsi |-> 7, class |-> "AR", flags |-> {"NN0"}, word |-> 0]>>
MCSel == [c \in {"AR"} |-> <<[func |-> 2, must |-> {}, any |-> {}],
                             [func |-> 3, must |-> {"NN0"}, any |-> {}]>>]

MCBlock == <<[yomi |-> <<1, 2, 2>>, y1len |-> 1, hinsi |-> 1],
             [yomi |-> <<2, 1, 3>>, y1len |-> 2, hinsi |-> 1]>>
MCPrefix == <<[yomi |-> <<2>>, hinsi |-> {1}, kanji |-> TRUE]>>
MCSuffix == [h \in 1..8 |-> IF h = 1 THEN <<[yomi |-> <<3>>, hinsi |-> 1, ka |-> TRUE]>>
                            ELSE <<>>]

\* What follows: 1 a noun, 2 a verb's ending, 3 a final particle, 4 a cut,
\* 5 marks.
MCConnadr == [h \in 1..8 |-> IF h \in {2, 5} THEN 0 ELSE 1]
MCConj == [h \in 1..8 |->
    CASE h = 2 -> <<[yomi |-> <<1>>, right |-> 2], [yomi |-> <<>>, right |-> 2]>>
      [] h = 5 -> <<[yomi |-> <<>>, right |-> 1]>>
      [] OTHER -> <<>>]
MCRow == [s \in 0..1 |-> [r \in 1..5 |-> IF s = 1 /\ r = 2 THEN 0 ELSE r]]
MCFzk == <<[yomi |-> <<2>>, left |-> 1, right |-> 3, ka |-> FALSE],
           [yomi |-> <<3>>, left |-> 2, right |-> 1, ka |-> TRUE],
           [yomi |-> <<2, 3>>, left |-> 1, right |-> 4, ka |-> FALSE]>>
MCCnct == [r \in 1..5 |-> CASE r = 1 -> {1, 2} [] r = 2 -> {2} [] OTHER -> {}]

MCTexts == {<<1, 2, 2, 1>>, <<2, 1, 3>>, <<1, 2, 1>>, <<7, 1, 1>>, <<1, 5, 6, 2, 4>>,
            <<3, 4, 4, 4, 4>>, <<>>}
=============================================================================
