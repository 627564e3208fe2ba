---------------------------- MODULE MCAssignments ----------------------------
(* Three assignments for one directory; the second is a retry of the first. *)
EXTENDS Assignments
CONSTANTS a1, a2, a3, h1, h2
AllClash == {p \in Ids \X Ids : p[1] # p[2]}
OneRestart == [h \in Hosts |-> IF h = h1 THEN 1 ELSE 0]
OneRetry == [a \in Ids |-> IF a = a2 THEN a1 ELSE None]
===============================================================================
