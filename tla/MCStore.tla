------------------------------- MODULE MCStore -------------------------------
(***************************************************************************)
(* Instances of Store: 1 and 2 are leaves, 3 is made of both and 4 of 3:   *)
(* two calls return them, so that each shares objects with the other.      *)
(***************************************************************************)
EXTENDS Store

MCObj  == 1..4
MCKids == <<{}, {}, {1, 2}, {3}>>
=============================================================================
