----------------------------- MODULE MCGrammar ------------------------------
(* All kana, the long vowel and a digit are typed. *)
EXTENDS Grammar

MCLetter == {Yomi[i] : i \in {1, 17} \cup 78..163}
=============================================================================
