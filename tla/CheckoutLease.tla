----------------------------- MODULE CheckoutLease -----------------------------
(***************************************************************************)
(* What the phases of one wave member promise about the workspace they     *)
(* take turns in: it is leased by one token at a time, only the phase that *)
(* holds the lease writes, and the lease goes back after the last write.   *)
(* Handoff is shown to implement it.                                       *)
(***************************************************************************)
EXTENDS Naturals

CONSTANT Nobody   \* the lease when no phase holds the workspace

VARIABLES
  holder,   \* the token of the lease, or Nobody
  writer,   \* the token the running service writes under, or Nobody
  spent     \* every token up to this one was handed out

leaseVars == <<holder, writer, spent>>

LeaseInit == holder = 1 /\ writer = Nobody /\ spent >= holder

Lease ==
  /\ holder = Nobody /\ holder' # Nobody
  /\ holder' > spent /\ spent' >= holder'
  /\ UNCHANGED writer

Skip == spent' > spent /\ UNCHANGED <<holder, writer>>

Write == writer = Nobody /\ holder # Nobody /\ writer' = holder /\ UNCHANGED <<holder, spent>>

Stop == writer' = Nobody /\ UNCHANGED <<holder, spent>>

Return == writer = Nobody /\ holder' = Nobody /\ UNCHANGED <<writer, spent>>

LeaseNext == Lease \/ Skip \/ Write \/ Stop \/ Return

LeaseSpec == LeaseInit /\ [][LeaseNext]_leaseVars
===============================================================================
