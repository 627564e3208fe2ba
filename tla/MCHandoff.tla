------------------------------- MODULE MCHandoff -------------------------------
(* One member with a few runs, a crash and a fault.                        *)
EXTENDS Handoff
===============================================================================
