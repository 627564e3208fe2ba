----------------------------- MODULE MCDiscussion -----------------------------
(* Two threads that compete for one response and, in places, for one child. *)
EXTENDS Discussion
CONSTANTS t1, t2
First == <<t1>>
Nothing == <<>>
===============================================================================
