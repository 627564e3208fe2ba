------------------------------ MODULE ClaimTable ------------------------------
(***************************************************************************)
(* What the ownership registry promises its callers, with no files, locks  *)
(* or processes: a table of claims in which conflicting claims never       *)
(* coexist.  Ownership is shown to implement it.                           *)
(***************************************************************************)
CONSTANTS
  Claim,         \* the claims that can be granted
  Coordinators,  \* the identities a claim can be bound to
  HasRoom(_)     \* whether one more capacity claim fits in a table

VARIABLES
  claims,        \* the claims held now
  released       \* the tokens of the claims that were given back

tableVars == <<claims, released>>

(***************************************************************************)
(* Two claims conflict when they bear the same token, claim the same       *)
(* package or the same checkout, or reserve capacity for the same attempt  *)
(* of the same package.                                                    *)
(***************************************************************************)
Conflict(a, b) ==
  \/ a.token = b.token
  \/ /\ a.kind = b.kind
     /\ \/ a.kind = "package"  /\ a.package = b.package
        \/ a.kind = "checkout" /\ a.checkout = b.checkout
        \/ a.kind = "capacity" /\ a.package = b.package /\ a.attempt = b.attempt

TableInit == claims = {} /\ released = {}

Grant(k) ==
  /\ k \in Claim
  /\ k.token \notin released
  /\ \A held \in claims : ~Conflict(k, held)
  /\ k.kind = "capacity" => HasRoom(claims)
  /\ claims' = claims \cup {k}
  /\ UNCHANGED released

Return(k) ==
  /\ claims' = claims \ {k}
  /\ released' = released \cup {k.token}

Rebind(k, owner) ==
  /\ claims' = (claims \ {k}) \cup {[k EXCEPT !.coordinator = owner]}
  /\ UNCHANGED released

TableNext ==
  \/ \E k \in claims' : Grant(k)
  \/ \E k \in claims : Return(k)
  \/ \E k \in claims, owner \in Coordinators : Rebind(k, owner)

Table == TableInit /\ [][TableNext]_tableVars
===============================================================================
