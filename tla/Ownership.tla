------------------------------- MODULE Ownership -------------------------------
(***************************************************************************)
(* The package, checkout and capacity claims of the spec runtime           *)
(* (pi/extensions/spec-runtime/ownership.mjs).  Every mutation is one      *)
(* child process: it takes the kernel lock on registry.lock, reads the     *)
(* whole registry file, runs one handler and, when the handler changed     *)
(* something, renames a whole new file into place; the lock goes when the  *)
(* child goes.  A child may die anywhere, so a caller can see an error     *)
(* although the change was made.                                           *)
(***************************************************************************)
EXTENDS Integers, FiniteSets, FiniteSetsExt

CONSTANTS
  Callers,       \* mutation calls that can be in flight at the same time
  Coordinators,  \* coordinator identities (session, pid, start time)
  Owner,         \* the coordinator a call is made for
  Epoch,         \* the epoch of a coordinator
  Packages, Attempts, Checkouts,
  Units,         \* the budgeted resources (memoryBytes, tasks)
  Reservations,  \* the amounts a capacity request can ask for
  Budget,        \* the budget a call was configured with
  Ceiling,       \* SOFTWARE_CEILING (16 in the code)
  MaxTokens,     \* bound: grants asked for in one behaviour
  None           \* no request, no lock holder, no attempt, no checkout

ASSUME CeilingAssumption == Ceiling \in Nat
ASSUME CallersAssumption ==
  /\ None \notin Callers
  /\ Owner \in [Callers -> Coordinators]
  /\ Epoch \in [Coordinators -> Nat]
  /\ MaxTokens \in Nat
ASSUME UnitsAssumption ==
  /\ Reservations \subseteq [Units -> Nat]
  /\ Budget \in [Callers -> [Units -> Nat]]

VARIABLES
  claims,     \* the registry file: the set of claims it holds
  lock,       \* the call whose child holds registry.lock
  child,      \* the mutation child of each call
  nextToken,  \* newToken() draws a value never drawn before
  released,   \* history: tokens of claims given back
  acked       \* history: tokens a caller was told are claimed

vars == <<claims, lock, child, nextToken, released, acked>>

Epochs == {Epoch[o] : o \in Coordinators}
NoUnits == [u \in Units |-> 0]

Claim ==
  [kind : {"package", "checkout", "capacity"}, token : Nat, epoch : Epochs,
   package : Packages, attempt : Attempts \cup {None},
   checkout : Checkouts \cup {None}, units : Reservations \cup {NoUnits},
   coordinator : Coordinators]

TokenOps == [op : {"release-claim"}, token : Nat, epoch : Epochs, drain : BOOLEAN]
       \cup [op : {"recover-claims"}, token : Nat, epoch : Epochs]

ClaimOps == [op : {"acquire-package"}, package : Packages]
       \cup [op : {"reserve-checkout"}, package : Packages, attempt : Attempts,
             checkout : Checkouts]
       \cup [op : {"reserve-capacity"}, package : Packages, attempt : Attempts,
             units : Reservations]

Request == TokenOps \cup ClaimOps

Tokens(table) == {k.token : k \in table}

-------------------------------------------------------------------------------
(* The handlers, as functions of the registry a child has read.            *)

Capacity(table) == {k \in table : k.kind = "capacity"}

Reserved(table, u) == MapThenSumSet(LAMBDA k : k.units[u], Capacity(table))

\* Fault seeded for WithinCeiling: the bound is checked off by one.
HasRoomInclusive(table) == Cardinality(Capacity(table)) <= Ceiling

HasRoom(table) == Cardinality(Capacity(table)) < Ceiling

\* Fault seeded for WithinBudget: what is asked for is not counted.
AdmitsOnHeld(table, budget, units) ==
  /\ HasRoom(table)
  /\ \A u \in Units : Reserved(table, u) <= budget[u]

\* capacityDecision: null (admitted) as against queued.
Admits(table, budget, units) ==
  /\ HasRoom(table)
  /\ \A u \in Units : Reserved(table, u) + units[u] <= budget[u]

\* Fault seeded for Exclusive: a checkout is looked up with the attempt.
ExistingForAttempt(table, r) ==
  {k \in table :
     \/ r.op = "acquire-package" /\ k.kind = "package" /\ k.package = r.package
     \/ /\ r.op = "reserve-checkout" /\ k.kind = "checkout"
        /\ k.checkout = r.checkout /\ k.attempt = r.attempt
     \/ /\ r.op = "reserve-capacity" /\ k.kind = "capacity"
        /\ k.package = r.package /\ k.attempt = r.attempt}

\* The claims that answer a claim request: at most one, see Exclusive.
Existing(table, r) ==
  {k \in table :
     \/ r.op = "acquire-package" /\ k.kind = "package" /\ k.package = r.package
     \/ r.op = "reserve-checkout" /\ k.kind = "checkout" /\ k.checkout = r.checkout
     \/ /\ r.op = "reserve-capacity" /\ k.kind = "capacity"
        /\ k.package = r.package /\ k.attempt = r.attempt}

Grants(table, c, r) ==
  /\ r \in ClaimOps
  /\ Existing(table, r) = {}
  /\ r.op = "reserve-capacity" => Admits(table, Budget[c], r.units)

\* Fault seeded for TypeOK: the budget is recorded in place of the reservation.
NewClaimOfBudget(c, r, token) ==
  [kind |-> CASE r.op = "acquire-package" -> "package"
              [] r.op = "reserve-checkout" -> "checkout"
              [] r.op = "reserve-capacity" -> "capacity",
   token |-> token, epoch |-> Epoch[Owner[c]], package |-> r.package,
   attempt |-> IF r.op = "acquire-package" THEN None ELSE r.attempt,
   checkout |-> IF r.op = "reserve-checkout" THEN r.checkout ELSE None,
   units |-> Budget[c], coordinator |-> Owner[c]]

NewClaim(c, r, token) ==
  [kind |-> CASE r.op = "acquire-package" -> "package"
              [] r.op = "reserve-checkout" -> "checkout"
              [] r.op = "reserve-capacity" -> "capacity",
   token |-> token,
   epoch |-> Epoch[Owner[c]],
   package |-> r.package,
   attempt |-> IF r.op = "acquire-package" THEN None ELSE r.attempt,
   checkout |-> IF r.op = "reserve-checkout" THEN r.checkout ELSE None,
   units |-> IF r.op = "reserve-capacity" THEN r.units ELSE NoUnits,
   coordinator |-> Owner[c]]

\* The claims a release or recovery request names: its token, at its epoch.
Named(table, r) == {k \in table : k.token = r.token /\ k.epoch = r.epoch}

\* Fault seeded for OnlyDrainedRelease: the confirmation is not asked for.
ReturnedUndrained(table, r) ==
  IF r.op = "release-claim" THEN Named(table, r) ELSE {}

Returned(table, r) ==
  IF r.op = "release-claim" /\ r.drain THEN Named(table, r) ELSE {}

\* Fault seeded for ImplementsTable: the rebound claim joins the old one.
ReboundBeside(table, c, r) ==
  table \cup {[k EXCEPT !.coordinator = Owner[c]] : k \in Named(table, r)}

Rebound(table, c, r) ==
  (table \ Named(table, r))
    \cup {[k EXCEPT !.coordinator = Owner[c]] : k \in Named(table, r)}

\* The registry after the handler of r, run for c on the registry it read.
Handled(table, c, r, token) ==
  CASE r \in ClaimOps ->
         IF Grants(table, c, r) THEN table \cup {NewClaim(c, r, token)} ELSE table
    [] r.op = "release-claim" -> table \ Returned(table, r)
    [] r.op = "recover-claims" -> Rebound(table, c, r)

\* The tokens the reply of a claim request vouches for.
Vouched(table, c, r, token) ==
  IF Grants(table, c, r) THEN {token}
  ELSE IF r \in ClaimOps THEN Tokens(Existing(table, r)) ELSE {}

-------------------------------------------------------------------------------
Idle == [pc |-> "idle", request |-> None, view |-> {}, token |-> 0]

Init ==
  /\ claims = {} /\ released = {} /\ acked = {}
  /\ lock = None
  /\ nextToken = 1
  /\ child = [c \in Callers |-> Idle]

\* Fault seeded for AckedDurable: the registry is changed without the lock.
StartUnlocked(c, r) ==
  /\ child[c].pc = "idle"
  /\ r \in ClaimOps => nextToken <= MaxTokens
  /\ lock' = c
  /\ child' = [child EXCEPT ![c] = [pc |-> "locked", request |-> r,
                                     view |-> {}, token |-> 0]]
  /\ UNCHANGED <<claims, nextToken, released, acked>>

\* runMutation: the parent spawns `flock -x registry.lock node ownership.mjs`,
\* whose child runs once the kernel gives it the lock.
Start(c, r) ==
  /\ child[c].pc = "idle"
  /\ lock = None
  /\ r \in ClaimOps => nextToken <= MaxTokens
  /\ lock' = c
  /\ child' = [child EXCEPT ![c] = [pc |-> "locked", request |-> r,
                                     view |-> {}, token |-> 0]]
  /\ UNCHANGED <<claims, nextToken, released, acked>>

\* readRegistry and the handler's decision; a grant draws its token here.
Read(c) ==
  /\ child[c].pc = "locked"
  /\ child' = [child EXCEPT ![c] = [pc |-> "decided", request |-> child[c].request,
                                     view |-> claims, token |-> nextToken]]
  /\ nextToken' = IF Grants(claims, c, child[c].request) THEN nextToken + 1
                                                         ELSE nextToken
  /\ UNCHANGED <<claims, lock, released, acked>>

\* writeRegistry: the whole registry the handler made of what the child read.
Write(c) ==
  LET r == child[c].request
      after == Handled(child[c].view, c, r, child[c].token)
  IN /\ child[c].pc = "decided"
     /\ claims' = IF after = child[c].view THEN claims ELSE after
     /\ released' = released \cup Tokens(Returned(child[c].view, r))
     /\ child' = [child EXCEPT ![c].pc = "written"]
     /\ UNCHANGED <<lock, nextToken, acked>>

\* The child prints its result and exits; the kernel drops the lock with it.
Reply(c) ==
  /\ child[c].pc = "written"
  /\ acked' = acked \cup Vouched(child[c].view, c, child[c].request, child[c].token)
  /\ child' = [child EXCEPT ![c] = Idle]
  /\ lock' = None
  /\ UNCHANGED <<claims, nextToken, released>>

\* Fault seeded for LockComesBack: a lock file outlives its holder.
DieLocked(c) ==
  /\ child[c].pc # "idle"
  /\ child' = [child EXCEPT ![c] = Idle]
  /\ UNCHANGED <<lock, claims, nextToken, released, acked>>

\* The child is killed, or its answer never arrives: the parent rejects.
Die(c) ==
  /\ child[c].pc # "idle"
  /\ child' = [child EXCEPT ![c] = Idle]
  /\ lock' = IF lock = c THEN None ELSE lock
  /\ UNCHANGED <<claims, nextToken, released, acked>>

\* A caller names a token it has seen, of a claim held now or once, or one (0)
\* that no claim ever had.
Seen == Tokens(claims) \cup released \cup {0}

Asked == ClaimOps
    \cup [op : {"release-claim"}, token : Seen, epoch : Epochs, drain : BOOLEAN]
    \cup [op : {"recover-claims"}, token : Seen, epoch : Epochs]

Step(c) == Read(c) \/ Write(c) \/ Reply(c)

Next == \E c \in Callers : (\E r \in Asked : Start(c, r)) \/ Step(c) \/ Die(c)

Spec == Init /\ [][Next]_vars

\* A child that runs keeps running; nothing is assumed of who gets the lock.
FairSpec == Spec /\ \A c \in Callers : WF_vars(Step(c))

-------------------------------------------------------------------------------
TypeOK ==
  /\ claims \subseteq Claim
  /\ lock \in Callers \cup {None}
  /\ child \in [Callers -> [pc : {"idle", "locked", "decided", "written"},
                            request : Request \cup {None}, view : SUBSET Claim,
                            token : Nat]]
  /\ \A c \in Callers : child[c].pc # "idle" => child[c].request \in Request
  /\ nextToken \in Nat
  /\ released \subseteq Nat
  /\ acked \subseteq Nat

Conflict(a, b) ==
  \/ a.token = b.token
  \/ /\ a.kind = b.kind
     /\ \/ a.kind = "package"  /\ a.package = b.package
        \/ a.kind = "checkout" /\ a.checkout = b.checkout
        \/ a.kind = "capacity" /\ a.package = b.package /\ a.attempt = b.attempt

\* However calls interleave and die, no two claims of the registry conflict:
\* one holder per package, one per checkout, one slot per attempt (the `held`
\* and `replayed` answers of the three claim handlers), and no token twice.
Exclusive == \A a, b \in claims : a # b => ~Conflict(a, b)

\* Capacity claims never outnumber the software ceiling (capacityDecision).
WithinCeiling == Cardinality(Capacity(claims)) <= Ceiling

\* No update is lost: a claim some caller was told about is in the registry
\* until a confirmed release takes it out, whatever other calls wrote since.
AckedDurable == acked \subseteq Tokens(claims) \cup released

\* A reservation that joins the registry fits, with everything reserved by
\* then, the budget of the call that asked for it (capacityDecision).
WithinBudget ==
  [][\A k \in Capacity(claims') \ Capacity(claims) :
       Tokens({k}) \subseteq Tokens(claims) \/
       \E c \in Callers :
         /\ child[c].pc = "decided"
         /\ k.coordinator = Owner[c]
         /\ \A u \in Units : Reserved(claims', u) <= Budget[c][u]]_vars

\* A claim leaves the registry only for a release that names its token and its
\* epoch with a confirmed drain, and a claim that stays keeps everything but
\* the coordinator it is bound to (releaseClaim, recoverClaims).
OnlyDrainedRelease ==
  [][\A k \in claims :
       \/ \E n \in claims' : n = [k EXCEPT !.coordinator = n.coordinator]
       \/ \E c \in Callers :
            child[c].request = [op |-> "release-claim", token |-> k.token,
                                epoch |-> k.epoch, drain |-> TRUE]]_vars

\* A child that dies with the lock cannot wedge the registry: the lock comes
\* free again and again.
LockComesBack == []<>(lock = None)

\* The registry implements the table of claims.
Abstract == INSTANCE ClaimTable
ImplementsTable == Abstract!Table
===============================================================================
