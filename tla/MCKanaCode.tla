----------------------------- MODULE MCKanaCode -----------------------------
(***************************************************************************)
(* Every character of JIS X 0208, of ASCII and of the half-width kana as a *)
(* text of its own, followed by the characters at the borders of the codes *)
(* and by the kana and marks that join.                                    *)
(***************************************************************************)
EXTENDS KanaCode

Half == \h20..\h7e \cup \ha1..\hdf
MCFirst == Half \cup {Word(h, l) : h \in \ha1..\hfe, l \in \ha1..\hfe}
           \cup {\hb021, \hb07e}
MCOthers == {\h41, \hb6, \hca, \hde, \hdf, \hb021, \ha1a1, \ha5a6, \hfefe}
MCStarts == Half \cup MCOthers
=============================================================================
