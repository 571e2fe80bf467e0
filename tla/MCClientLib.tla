----------------------------- MODULE MCClientLib -----------------------------
(* The dictionaries of the model-checked instances of ClientLib. *)
EXTENDS ClientLib

MCUser    == {1}
MCPrivate == <<21>>
MCLists   == {<<>>, <<10, 31>>}
MCAppFd   == 0 .. 2
=============================================================================
