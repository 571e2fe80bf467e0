----------------------------- MODULE MCUserDict -----------------------------
(* The words of the model-checked instance of UserDict. *)
EXTENDS UserDict

\* Three homophones of two parts of speech, one spelling the start of another,
\* a reading that starts theirs, one that theirs starts, and one that shares
\* nothing with them.
MCWord == {<<<<1>>, 1, <<1>>>>, <<<<1, 2>>, 1, <<1>>>>, <<<<1, 2>>, 1, <<1, 1>>>>,
           <<<<1, 2>>, 2, <<1>>>>, <<<<1, 2, 1>>, 1, <<1>>>>, <<<<2>>, 1, <<1>>>>}

\* The user's words of a segment have offsets on both sides of this one.
MCMain == {6}
=============================================================================
