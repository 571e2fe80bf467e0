----------------------------- MODULE MCClStudy ------------------------------
(***************************************************************************)
(* Three characters in the two buckets of a table of 128 codes each, one   *)
(* of them dependent, clauses some of which start others, and an area that *)
(* holds three blocks of two characters.                                   *)
(***************************************************************************)
EXTENDS ClStudy

MCChars == {1, 128, 129}
MCDepend == {1}
MCClauses == {<<<<1>>, <<129>>>>, <<<<1>>, <<129, 128>>>>, <<<<128>>, <<128>>>>,
              <<<<128, 128>>, <<1>>>>, <<<<128>>, <<129>>>>, <<<<129>>, <<1>>>>,
              <<<<129>>, <<1, 128, 128>>>>}
MCWords == {<<128>>, <<1, 129>>, <<128, 129, 1>>, <<129, 1>>}
=============================================================================
