------------------------------ MODULE MCPromotion ------------------------------
(* The promotion with a few processes, developer actions and faults.       *)
EXTENDS Promotion
===============================================================================
