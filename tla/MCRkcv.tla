------------------------------- MODULE MCRkcv -------------------------------
(***************************************************************************)
(* Every rule file made of up to MaxLines of the lines below, in any order,*)
(* every order of the three keys N, NA and NYA, and TYA with TNA.  They    *)
(* have a key inside another (N, NA, NYA), a key with a remainder (TT), a  *)
(* remainder that is not the end of its key (TYA) and a key given twice.   *)
(* TNA always stands behind TYA in the list of T, so that the position     *)
(* cached for TN is the second one, before and after an erase.             *)
(***************************************************************************)
EXTENDS Rkcv

CONSTANT MaxLines

\* A = 1, N = 2, T = 3, Y = 4
Ln(key, kana, rest) == [key |-> key, kana |-> kana, rest |-> rest]
TYA == Ln(<<3, 4, 1>>, <<151, 152>>, <<4>>)
TNA == Ln(<<3, 2, 1>>, <<161>>, <<>>)
Lines ==
    {Ln(<<2>>, <<102>>, <<>>), Ln(<<2, 1>>, <<121>>, <<>>),
     Ln(<<2, 4, 1>>, <<141, 142>>, <<>>), Ln(<<3, 3>>, <<103>>, <<3>>),
     Ln(<<3, 1>>, <<131>>, <<>>), TYA,
     Ln(<<2, 1>>, <<122>>, <<>>)}

Distinct(f) == \A i, j \in DOMAIN f : i # j => f[i] # f[j]
MCFiles ==
    {f \in UNION {[1..n -> Lines] : n \in 0..MaxLines} : Distinct(f)}
    \cup {f \in [1..3 -> {ln \in Lines : Head(ln.key) = 2}] :
           Distinct(f) /\ \A i \in 1..3 : f[i].kana # <<122>>}
    \cup {<<TYA, TNA>>, <<TNA, TYA>>}
MCLetters == {1, 2, 3, 14, 21}
=============================================================================
