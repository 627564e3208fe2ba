------------------------------ MODULE MCOwnership ------------------------------
(* Two calls in flight for two coordinators of different epochs contend    *)
(* for every kind of claim.  One of them may reserve the small request of  *)
(* the two but not the large one, and a single reservation fills the host. *)
EXTENDS Ownership, TLC

CONSTANTS k1, k2, o1, o2

MCOwner == (k1 :> o1) @@ (k2 :> o2)
MCEpoch == (o1 :> 1) @@ (o2 :> 2)
MCReservations == {[tasks |-> 2], [tasks |-> 4]}
MCBudget == (k1 :> [tasks |-> 3]) @@ (k2 :> [tasks |-> 6])
===============================================================================
