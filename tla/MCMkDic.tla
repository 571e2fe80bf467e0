------------------------------ MODULE MCMkDic -------------------------------
(* Words over three kana and three kanji. *)
EXTENDS MkDic

L(y, k, h, a) == [yomi |-> y, kanji |-> k, hinsi |-> h, atr |-> a]

MCLine == {
    L(<<1>>, <<21, 22>>, <<1, 2>>, <<>>),
    L(<<1>>, <<11>>, <<1>>, <<>>),
    L(<<1, 2>>, <<21, 22, 23>>, <<1>>, <<>>),
    L(<<1, 2>>, <<11>>, <<1>>, <<>>),
    L(<<1, 2>>, <<21, 22, 2>>, <<2>>, <<>>),
    L(<<1, 3>>, <<21, 22>>, <<1>>, <<7>>),
    L(<<1, 3, 2>>, <<1, 23, 12>>, <<1>>, <<>>),
    L(<<2>>, <<22, 23, 21, 22>>, <<1>>, <<>>),
    L(<<2>>, <<23, 23, 23, 23, 23, 23>>, <<1>>, <<>>),
    L(<<2, 3>>, <<22, 23>>, <<>>, <<>>),
    L(<<1, 11>>, <<21>>, <<1>>, <<>>),
    L(<<1, 2, 3, 2>>, <<21>>, <<1>>, <<>>)}

MCText == {<<1, 2, 3>>, <<1, 3, 2>>, <<2, 3>>, <<3>>}
=============================================================================
