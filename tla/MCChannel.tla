------------------------------ MODULE MCChannel ------------------------------
(***************************************************************************)
(* Instances of Channel.  The input, 1, is a leaf; 2, which the store may  *)
(* hold and the @pure_local call makes, is made of it; 3 is a leaf only    *)
(* the worker makes, and 4, what it returns, is made of 2 and 3.           *)
(***************************************************************************)
EXTENDS Channel

MCObj   == 1..4
MCKids  == <<{}, {1}, {}, {2, 3}>>
MCInput == [c \in Chan |-> 1]
=============================================================================
