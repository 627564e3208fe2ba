---------------------------- MODULE OwnershipProofs ----------------------------
(***************************************************************************)
(* For every set of callers, coordinators, packages, attempts and          *)
(* checkouts: the registry keeps its claims exclusive and under the        *)
(* ceiling, loses no acknowledged claim, and implements the claim table.   *)
(***************************************************************************)
EXTENDS Ownership, FiniteSetTheorems, TLAPS

\* One child at a time holds the lock, from its start to its end.
LockInv == \A c \in Callers : child[c].pc # "idle" <=> lock = c

\* What a child decided on is still what the registry holds.
ViewInv == \A c \in Callers : child[c].pc = "decided" => child[c].view = claims

\* Tokens in use were drawn before, and a returned one is never in use.
TokenInv ==
  /\ \A t \in Tokens(claims) \cup released : t < nextToken
  /\ Tokens(claims) \cap released = {}

\* A granting child drew a token nobody has.
FreshInv ==
  \A c \in Callers :
    child[c].pc = "decided" /\ Grants(child[c].view, c, child[c].request) =>
      /\ child[c].token < nextToken
      /\ child[c].token \notin Tokens(claims) \cup released

\* What the reply will vouch for is durable already when it is sent.
ReplyInv ==
  \A c \in Callers :
    child[c].pc = "written" =>
      Vouched(child[c].view, c, child[c].request, child[c].token)
        \subseteq Tokens(claims) \cup released

IInv == /\ TypeOK /\ LockInv /\ ViewInv /\ TokenInv /\ FreshInv /\ ReplyInv
        /\ Exclusive /\ AckedDurable
        /\ IsFiniteSet(claims) /\ WithinCeiling

-------------------------------------------------------------------------------
(* The handlers. *)

\* A granted claim is a claim, bears the drawn token, and conflicts with
\* nothing the handler read.
LEMMA GrantedClaim ==
  ASSUME NEW table \in SUBSET Claim, NEW c \in Callers, NEW r \in ClaimOps,
         NEW token \in Nat, token \notin Tokens(table), Grants(table, c, r)
  PROVE  /\ NewClaim(c, r, token) \in Claim
         /\ NewClaim(c, r, token).token = token
         /\ \A k \in table : ~Conflict(NewClaim(c, r, token), k)
         /\ NewClaim(c, r, token).kind = "capacity" =>
              Cardinality(Capacity(table)) < Ceiling
<1> DEFINE n == NewClaim(c, r, token)
<1>1. Owner[c] \in Coordinators /\ Epoch[Owner[c]] \in Epochs
  BY CallersAssumption DEF Epochs
<1>2. CASE r.op = "acquire-package"
  <2>1. r \in [op : {"acquire-package"}, package : Packages]
    BY <1>2 DEF ClaimOps
  <2>2. n = [kind |-> "package", token |-> token, epoch |-> Epoch[Owner[c]],
             package |-> r.package, attempt |-> None, checkout |-> None,
             units |-> NoUnits, coordinator |-> Owner[c]]
    BY <1>2 DEF NewClaim
  <2>3. \A k \in table : ~(k.kind = "package" /\ k.package = r.package)
    BY <1>2 DEF Grants, Existing
  <2> QED BY <1>1, <2>1, <2>2, <2>3 DEF Claim, Conflict, Tokens
<1>3. CASE r.op = "reserve-checkout"
  <2>1. r \in [op : {"reserve-checkout"}, package : Packages, attempt : Attempts,
               checkout : Checkouts]
    BY <1>3 DEF ClaimOps
  <2>2. n = [kind |-> "checkout", token |-> token, epoch |-> Epoch[Owner[c]],
             package |-> r.package, attempt |-> r.attempt, checkout |-> r.checkout,
             units |-> NoUnits, coordinator |-> Owner[c]]
    BY <1>3 DEF NewClaim
  <2>3. \A k \in table : ~(k.kind = "checkout" /\ k.checkout = r.checkout)
    BY <1>3 DEF Grants, Existing
  <2> QED BY <1>1, <2>1, <2>2, <2>3 DEF Claim, Conflict, Tokens
<1>4. CASE r.op = "reserve-capacity"
  <2>1. r \in [op : {"reserve-capacity"}, package : Packages, attempt : Attempts,
               units : Reservations]
    BY <1>4 DEF ClaimOps
  <2>2. n = [kind |-> "capacity", token |-> token, epoch |-> Epoch[Owner[c]],
             package |-> r.package, attempt |-> r.attempt, checkout |-> None,
             units |-> r.units, coordinator |-> Owner[c]]
    BY <1>4 DEF NewClaim
  <2>3. \A k \in table : ~(/\ k.kind = "capacity" /\ k.package = r.package
                           /\ k.attempt = r.attempt)
    BY <1>4 DEF Grants, Existing
  <2>4. Cardinality(Capacity(table)) < Ceiling
    BY <1>4 DEF Grants, Admits, HasRoom
  <2> QED BY <1>1, <2>1, <2>2, <2>3, <2>4 DEF Claim, Conflict, Tokens
<1> QED BY <1>2, <1>3, <1>4 DEF ClaimOps

\* What each kind of request makes of the registry it read.
LEMMA HandledCases ==
  ASSUME NEW table, NEW c \in Callers, NEW r \in Request, NEW token
  PROVE  /\ r \in ClaimOps /\ Grants(table, c, r) =>
              Handled(table, c, r, token) = table \cup {NewClaim(c, r, token)}
         /\ r \in ClaimOps /\ ~Grants(table, c, r) =>
              Handled(table, c, r, token) = table
         /\ r.op = "release-claim" =>
              Handled(table, c, r, token) = table \ Returned(table, r)
         /\ r.op = "recover-claims" =>
              Handled(table, c, r, token) = Rebound(table, c, r)
         /\ r \in ClaimOps \/ r.op = "release-claim" \/ r.op = "recover-claims"
         /\ r \in ClaimOps => r.op \notin {"release-claim", "recover-claims"}
         /\ Grants(table, c, r) => r \in ClaimOps
<1>1. r \in ClaimOps \/ r.op = "release-claim" \/ r.op = "recover-claims"
  BY DEF Request, TokenOps
<1>2. r \in ClaimOps => r.op \notin {"release-claim", "recover-claims"}
  BY DEF ClaimOps
<1>3. Grants(table, c, r) => r \in ClaimOps
  BY DEF Grants
<1> QED BY <1>1, <1>2, <1>3 DEF Handled

\* A release or a recovery names at most one claim when no two claims of the
\* table conflict.
LEMMA NamedOne ==
  ASSUME NEW table, \A a, b \in table : a # b => ~Conflict(a, b), NEW r,
         NEW k \in Named(table, r)
  PROVE  Named(table, r) = {k} /\ k \in table /\ k.token = r.token
  BY DEF Named, Conflict

-------------------------------------------------------------------------------
(* What one write does to the registry. *)

\* A granted claim joins a registry in good order.
LEMMA GrantStep ==
  ASSUME IInv, NEW c \in Callers, Write(c),
         Grants(claims, c, child[c].request),
         child[c].view = claims, child[c].token \in Nat
  PROVE  LET n == NewClaim(c, child[c].request, child[c].token)
         IN /\ claims' = claims \cup {n} /\ released' = released
            /\ n \in Claim /\ n.token = child[c].token
            /\ n.token \notin Tokens(claims) \cup released /\ n.token < nextToken
            /\ \A k \in claims : ~Conflict(n, k)
            /\ n.kind = "capacity" => Cardinality(Capacity(claims)) < Ceiling
<1> DEFINE r == child[c].request
           n == NewClaim(c, r, child[c].token)
<1>1. r \in ClaimOps /\ r \in Request
  BY DEF Grants, Request
<1>2. child[c].pc = "decided"
  BY DEF Write
<1>3. child[c].token \notin Tokens(claims) \cup released /\ child[c].token < nextToken
  BY <1>2 DEF IInv, FreshInv
<1>4. claims \in SUBSET Claim
  BY DEF IInv, TypeOK
<1>5. /\ n \in Claim /\ n.token = child[c].token
      /\ \A k \in claims : ~Conflict(n, k)
      /\ n.kind = "capacity" => Cardinality(Capacity(claims)) < Ceiling
  BY <1>1, <1>3, <1>4, GrantedClaim
<1>6. Handled(claims, c, r, child[c].token) = claims \cup {n}
  BY <1>1, HandledCases
<1>7. claims' = claims \cup {n}
  BY <1>6 DEF Write
<1>8. released' = released
  <2>1. r.op # "release-claim"
    BY <1>1, HandledCases
  <2>2. Tokens(Returned(claims, r)) = {}
    BY <2>1 DEF Returned, Tokens
  <2> QED BY <2>2 DEF Write
<1> QED BY <1>3, <1>5, <1>7, <1>8

\* Any other write leaves the registry alone, takes one claim out and marks its
\* token returned, or rebinds one claim.
LEMMA OtherStep ==
  ASSUME IInv, NEW c \in Callers, Write(c),
         ~Grants(claims, c, child[c].request), child[c].view = claims
  PROVE  \/ claims' = claims /\ released' = released
         \/ \E k \in claims :
              /\ child[c].request = [op |-> "release-claim", token |-> k.token,
                                     epoch |-> k.epoch, drain |-> TRUE]
              /\ claims' = claims \ {k}
              /\ released' = released \cup {k.token}
         \/ \E k \in claims :
              /\ claims' = (claims \ {k}) \cup {[k EXCEPT !.coordinator = Owner[c]]}
              /\ released' = released
<1> DEFINE r == child[c].request
           after == Handled(claims, c, r, child[c].token)
<1>1. r \in Request /\ child[c].pc = "decided"
  BY DEF IInv, TypeOK, Write
<1>2. /\ claims' = IF after = claims THEN claims ELSE after
      /\ released' = released \cup Tokens(Returned(claims, r))
  BY DEF Write
<1>3. claims' = after
  BY <1>2
<1>4. CASE r \in ClaimOps
  <2>1. after = claims
    BY <1>1, <1>4, HandledCases
  <2>2. Returned(claims, r) = {}
    BY <1>1, <1>4, HandledCases DEF Returned
  <2> QED BY <1>2, <2>1, <2>2 DEF Tokens
<1>5. CASE r.op = "release-claim"
  <2>1. after = claims \ Returned(claims, r)
    BY <1>1, <1>5, HandledCases
  <2>2. CASE Returned(claims, r) = {}
    BY <1>2, <2>1, <2>2 DEF Tokens
  <2>3. CASE Returned(claims, r) # {}
    <3>1. r.drain /\ Returned(claims, r) = Named(claims, r)
      BY <2>3 DEF Returned
    <3>2. PICK k \in Named(claims, r) : TRUE
      BY <2>3, <3>1
    <3>3. Named(claims, r) = {k} /\ k \in claims /\ k.token = r.token
      BY NamedOne DEF IInv, Exclusive
    <3>4. k.epoch = r.epoch
      BY DEF Named
    <3>5. r = [op |-> "release-claim", token |-> k.token,
               epoch |-> k.epoch, drain |-> TRUE]
      <4>1. r \in [op : {"release-claim"}, token : Nat, epoch : Epochs, drain : BOOLEAN]
        BY <1>1, <1>5 DEF Request, TokenOps, ClaimOps
      <4> QED BY <3>1, <3>3, <3>4, <4>1
    <3>6. Tokens(Returned(claims, r)) = {k.token}
      BY <3>1, <3>3 DEF Tokens
    <3> QED BY <1>2, <1>3, <2>1, <3>1, <3>3, <3>5, <3>6
  <2> QED BY <2>2, <2>3
<1>6. CASE r.op = "recover-claims"
  <2>1. after = Rebound(claims, c, r)
    <3>1. r \notin ClaimOps
      BY <1>6 DEF ClaimOps
    <3> QED BY <1>6, <3>1 DEF Handled
  <2>2. released' = released
    BY <1>2, <1>6 DEF Returned, Tokens
  <2>3. CASE Named(claims, r) = {}
    BY <1>3, <2>1, <2>2, <2>3 DEF Rebound
  <2>4. CASE Named(claims, r) # {}
    <3>1. PICK k \in Named(claims, r) : TRUE
      BY <2>4
    <3>2. Named(claims, r) = {k} /\ k \in claims
      BY NamedOne DEF IInv, Exclusive
    <3>3. Rebound(claims, c, r)
            = (claims \ {k}) \cup {[k EXCEPT !.coordinator = Owner[c]]}
      BY <3>2 DEF Rebound
    <3> QED BY <1>3, <2>1, <2>2, <3>2, <3>3
  <2> QED BY <2>3, <2>4
<1> QED BY <1>1, <1>4, <1>5, <1>6, HandledCases

-------------------------------------------------------------------------------
(* The inductive invariant. *)

\* Only the child that holds the lock is past its start.
LEMMA OnlyHolder ==
  ASSUME LockInv, NEW c \in Callers, child[c].pc # "idle"
  PROVE  lock = c /\ \A d \in Callers : d # c => child[d].pc = "idle"
  BY DEF LockInv

\* Rebinding a claim changes neither its type nor what it conflicts with.
LEMMA ReboundClaim ==
  ASSUME NEW k \in Claim, NEW c \in Callers
  PROVE  LET n == [k EXCEPT !.coordinator = Owner[c]]
         IN /\ n \in Claim /\ n.token = k.token /\ n.kind = k.kind
            /\ \A a \in Claim : Conflict(n, a) <=> Conflict(k, a)
<1>1. Owner[c] \in Coordinators
  BY CallersAssumption
<1> QED BY <1>1 DEF Claim, Conflict

\* Tokens of the registry are numbers.
LEMMA TokensNat ==
  ASSUME TypeOK
  PROVE  Tokens(claims) \subseteq Nat
<1> SUFFICES ASSUME NEW k \in claims PROVE k.token \in Nat
  BY DEF Tokens
<1>1. k \in Claim
  BY DEF TypeOK
<1> QED BY <1>1 DEF Claim

\* An empty registry with no child running satisfies the invariant.
LEMMA InitIInv == Init => IInv
<1> SUFFICES ASSUME Init PROVE IInv
  OBVIOUS
<1>1. Cardinality(Capacity(claims)) <= Ceiling /\ IsFiniteSet(claims)
  BY FS_EmptySet, CeilingAssumption DEF Init, Capacity
<1>2. TypeOK
  BY DEF Init, TypeOK, Idle
<1>3. LockInv
  BY CallersAssumption DEF Init, LockInv, Idle
<1> QED BY <1>1, <1>2, <1>3 DEF Init, IInv, Idle, ViewInv, TokenInv, FreshInv,
           ReplyInv, Exclusive, AckedDurable, WithinCeiling, Tokens

\* A child that takes the lock has decided nothing yet (runMutation).
LEMMA StartIInv ==
  ASSUME IInv, NEW c \in Callers, NEW r \in Asked, Start(c, r)
  PROVE  IInv'
<1>1. r \in Request
  <2>1. Seen \subseteq Nat
    <3>1. Tokens(claims) \subseteq Nat /\ released \subseteq Nat
      BY TokensNat DEF IInv, TypeOK
    <3>2. 0 \in Nat
      OBVIOUS
    <3> QED BY <3>1, <3>2, Zenon DEF Seen
  <2> QED BY <2>1 DEF Asked, Request, TokenOps
<1>2. child' = [child EXCEPT ![c] = [pc |-> "locked", request |-> r, view |-> {},
                                     token |-> 0]]
  BY DEF Start, Idle
<1>3. TypeOK'
  BY <1>1, <1>2, CallersAssumption DEF Start, IInv, TypeOK
<1>4. LockInv'
  BY <1>2, CallersAssumption DEF Start, IInv, TypeOK, LockInv
<1>5. \A d \in Callers : child'[d].pc \notin {"decided", "written"}
  <2>1. \A d \in Callers : child[d].pc = "idle"
    BY CallersAssumption DEF Start, IInv, LockInv
  <2> QED BY <1>2, <2>1 DEF IInv, TypeOK
<1>6. ViewInv' /\ FreshInv' /\ ReplyInv'
  BY <1>5 DEF ViewInv, FreshInv, ReplyInv
<1> QED BY <1>3, <1>4, <1>6 DEF Start, IInv, TokenInv, Exclusive, AckedDurable,
           WithinCeiling, Capacity, Tokens, Conflict

\* A child that has read the registry holds the lock, its view is what the
\* registry is, and the token it drew is new (readRegistry).
LEMMA ReadIInv ==
  ASSUME IInv, NEW c \in Callers, Read(c)
  PROVE  IInv'
<1> DEFINE granted == Grants(claims, c, child[c].request)
<1>0. child \in [Callers -> [pc : {"idle", "locked", "decided", "written"},
                             request : Request \cup {None}, view : SUBSET Claim,
                             token : Nat]]
      /\ nextToken \in Nat /\ claims \subseteq Claim
  BY DEF IInv, TypeOK
<1>1. child' = [child EXCEPT ![c] = [pc |-> "decided", request |-> child[c].request,
                                     view |-> claims, token |-> nextToken]]
  BY DEF Read
<1>2. child[c].pc = "locked" /\ child[c].request \in Request
  BY DEF Read, IInv, TypeOK
<1>3. /\ nextToken' \in Nat /\ nextToken <= nextToken'
      /\ granted => nextToken < nextToken'
  <2>1. nextToken' = IF granted THEN nextToken + 1 ELSE nextToken
    BY DEF Read
  <2> HIDE DEF granted
  <2> QED BY <1>0, <2>1
<1>4. TypeOK'
  <2>1. child' \in [Callers -> [pc : {"idle", "locked", "decided", "written"},
                                request : Request \cup {None}, view : SUBSET Claim,
                                token : Nat]]
    BY <1>0, <1>1, <1>2
  <2>2. \A d \in Callers : child'[d].pc # "idle" => child'[d].request \in Request
    BY <1>0, <1>1, <1>2 DEF IInv, TypeOK
  <2> QED BY <1>3, <2>1, <2>2 DEF Read, IInv, TypeOK
<1>5. \A d \in Callers : d # c => child'[d].pc = "idle"
  BY <1>0, <1>1, <1>2, OnlyHolder DEF IInv
<1>6. LockInv'
  BY <1>0, <1>1, <1>2 DEF Read, IInv, LockInv
<1>7. ViewInv' /\ ReplyInv'
  BY <1>0, <1>1, <1>5 DEF Read, ViewInv, ReplyInv
<1>8. \A t \in Tokens(claims) \cup released : t \in Nat /\ t < nextToken
  <2>1. Tokens(claims) \subseteq Nat /\ released \subseteq Nat
    BY TokensNat DEF IInv, TypeOK
  <2> QED BY <2>1 DEF IInv, TokenInv
<1>9. TokenInv'
  <2>1. Tokens(claims)' = Tokens(claims) /\ released' = released
    BY DEF Read, Tokens
  <2>2. nextToken \in Int /\ nextToken' \in Int /\ nextToken <= nextToken'
    BY <1>0, <1>3
  <2>3. \A t \in Tokens(claims) \cup released : t < nextToken'
    <3> TAKE t \in Tokens(claims) \cup released
    <3>1. t \in Int /\ t < nextToken
      BY <1>8
    <3> QED BY <2>2, <3>1
  <2> QED BY <2>1, <2>3 DEF IInv, TokenInv
<1>10. FreshInv'
  <2>1. nextToken \notin Tokens(claims) \cup released
    BY <1>0, <1>8
  <2>2. \A d \in Callers : child'[d].pc = "decided" =>
          d = c /\ child'[d].view = claims /\ child'[d].token = nextToken
                /\ child'[d].request = child[c].request
    BY <1>0, <1>1, <1>5
  <2>3. claims' = claims /\ released' = released
    BY DEF Read
  <2> QED BY <1>3, <2>1, <2>2, <2>3 DEF FreshInv, Tokens
<1> QED BY <1>4, <1>6, <1>7, <1>9, <1>10 DEF Read, IInv, Exclusive, AckedDurable,
           WithinCeiling, Capacity, Tokens, Conflict

\* A reply vouches for what is durable already, and gives the lock back.
LEMMA ReplyIInv ==
  ASSUME IInv, NEW c \in Callers, Reply(c)
  PROVE  IInv'
<1>1. child' = [child EXCEPT ![c] = [pc |-> "idle", request |-> None, view |-> {},
                                     token |-> 0]]
  BY DEF Reply, Idle
<1>2. \A d \in Callers : child'[d].pc = "idle"
  BY <1>1, OnlyHolder DEF Reply, IInv, TypeOK
<1>3. acked' \subseteq Tokens(claims) \cup released
  BY DEF Reply, IInv, ReplyInv, AckedDurable
<1>4. TypeOK'
  <2>1. Tokens(claims) \subseteq Nat
    BY TokensNat DEF IInv
  <2>2. acked' \subseteq Nat
    BY <1>3, <2>1 DEF IInv, TypeOK
  <2> QED BY <1>1, <2>2 DEF Reply, IInv, TypeOK
<1>5. LockInv' /\ ViewInv' /\ FreshInv' /\ ReplyInv'
  BY <1>2, CallersAssumption DEF Reply, LockInv, ViewInv, FreshInv, ReplyInv
<1>6. AckedDurable'
  BY <1>3 DEF Reply, AckedDurable, Tokens
<1> QED BY <1>4, <1>5, <1>6 DEF Reply, IInv, TokenInv, Exclusive, WithinCeiling,
           Capacity, Tokens, Conflict

\* A child that dies leaves the registry as it is and the lock free.
LEMMA DieIInv ==
  ASSUME IInv, NEW c \in Callers, Die(c)
  PROVE  IInv'
<1>1. child' = [child EXCEPT ![c] = [pc |-> "idle", request |-> None, view |-> {},
                                     token |-> 0]]
  BY DEF Die, Idle
<1>2. \A d \in Callers : child'[d].pc = "idle"
  BY <1>1, OnlyHolder DEF Die, IInv, TypeOK
<1>3. lock' = None
  BY OnlyHolder DEF Die, IInv
<1>4. TypeOK'
  BY <1>1, <1>3 DEF Die, IInv, TypeOK
<1>5. LockInv' /\ ViewInv' /\ FreshInv' /\ ReplyInv'
  BY <1>2, <1>3, CallersAssumption DEF LockInv, ViewInv, FreshInv, ReplyInv
<1> QED BY <1>4, <1>5 DEF Die, IInv, TokenInv, Exclusive, AckedDurable, WithinCeiling,
           Capacity, Tokens, Conflict

\* What a write, whatever its request, leaves in good order when the registry
\* itself is left so.
LEMMA WriteRest ==
  ASSUME IInv, NEW c \in Callers, Write(c),
         claims' \subseteq Claim, released' \subseteq Nat,
         Tokens(claims) \cup released \subseteq Tokens(claims') \cup released',
         Vouched(claims, c, child[c].request, child[c].token)
           \subseteq Tokens(claims') \cup released'
  PROVE  TypeOK' /\ LockInv' /\ ViewInv' /\ FreshInv' /\ ReplyInv' /\ AckedDurable'
<1>1. child[c].pc = "decided" /\ child[c].view = claims
  BY DEF Write, IInv, ViewInv
<1>2. child' = [child EXCEPT ![c].pc = "written"]
  BY DEF Write
<1>3. TypeOK'
  BY <1>2 DEF Write, IInv, TypeOK
<1>4. LockInv'
  BY <1>1, <1>2 DEF Write, IInv, TypeOK, LockInv
<1>5. \A d \in Callers : child'[d].pc # "decided"
                      /\ (child'[d].pc = "written" => d = c)
  BY <1>1, <1>2, OnlyHolder DEF IInv, TypeOK
<1>6. /\ child'[c].view = claims /\ child'[c].request = child[c].request
      /\ child'[c].token = child[c].token
  BY <1>1, <1>2 DEF IInv, TypeOK
<1>7. ViewInv' /\ FreshInv'
  BY <1>5 DEF ViewInv, FreshInv
<1>8. ReplyInv'
  <2>1. Vouched(child'[c].view, c, child'[c].request, child'[c].token)
          \subseteq Tokens(claims') \cup released'
    BY <1>6
  <2> QED BY <1>5, <2>1 DEF ReplyInv
<1>9. AckedDurable'
  BY DEF Write, IInv, AckedDurable
<1> QED BY <1>3, <1>4, <1>7, <1>8, <1>9

\* The write of a child keeps the registry in order, whatever was asked.
LEMMA WriteIInv ==
  ASSUME IInv, NEW c \in Callers, Write(c)
  PROVE  IInv'
<1> DEFINE r == child[c].request
           token == child[c].token
<1>1. /\ child[c].view = claims /\ token \in Nat /\ r \in Request
      /\ claims \subseteq Claim /\ released \subseteq Nat /\ nextToken \in Nat
      /\ nextToken' = nextToken
  BY DEF Write, IInv, ViewInv, TypeOK
<1>2. Tokens(claims) \subseteq Nat
  BY TokensNat DEF IInv
<1>3. CASE Grants(claims, c, r)
  <2> DEFINE n == NewClaim(c, r, token)
  <2>1. /\ claims' = claims \cup {n} /\ released' = released
        /\ n \in Claim /\ n.token = token
        /\ n.token \notin Tokens(claims) \cup released /\ n.token < nextToken
        /\ \A k \in claims : ~Conflict(n, k)
        /\ n.kind = "capacity" => Cardinality(Capacity(claims)) < Ceiling
    BY <1>1, <1>3, GrantStep
  <2> HIDE DEF n
  <2>2. Tokens(claims') = Tokens(claims) \cup {token}
    BY <2>1 DEF Tokens
  <2>3. Vouched(claims, c, r, token) \subseteq Tokens(claims')
    BY <1>3, <2>2 DEF Vouched
  <2>4. TypeOK' /\ LockInv' /\ ViewInv' /\ FreshInv' /\ ReplyInv' /\ AckedDurable'
    BY <1>1, <2>1, <2>2, <2>3, WriteRest
  <2>5. TokenInv'
    BY <1>1, <2>1, <2>2 DEF IInv, TokenInv
  <2>6. Exclusive'
    BY <2>1 DEF IInv, Exclusive, Conflict
  <2>7. IsFiniteSet(claims')
    BY <2>1, FS_AddElement DEF IInv
  <2>8. WithinCeiling'
    <3>1. IsFiniteSet(Capacity(claims)) /\ Cardinality(Capacity(claims)) \in Nat
      BY FS_Subset, FS_CardinalityType DEF IInv, Capacity
    <3>2. CASE n.kind = "capacity"
      <4>1. Capacity(claims') = Capacity(claims) \cup {n}
        BY <2>1, <3>2 DEF Capacity
      <4>2. n \notin Capacity(claims)
        BY <2>1 DEF Capacity, Tokens
      <4>3. Cardinality(Capacity(claims')) = Cardinality(Capacity(claims)) + 1
        BY <3>1, <4>1, <4>2, FS_AddElement
      <4> QED BY <2>1, <3>1, <3>2, <4>3, CeilingAssumption DEF WithinCeiling
    <3>3. CASE n.kind # "capacity"
      <4>1. Capacity(claims') = Capacity(claims)
        BY <2>1, <3>3 DEF Capacity
      <4> QED BY <4>1 DEF IInv, WithinCeiling
    <3> QED BY <3>2, <3>3
  <2> QED BY <2>4, <2>5, <2>6, <2>7, <2>8 DEF IInv
<1>4. CASE ~Grants(claims, c, r)
  <2>1. Vouched(claims, c, r, token) \subseteq Tokens(claims)
    BY <1>4 DEF Vouched, Existing, Tokens
  <2>2. CASE claims' = claims /\ released' = released
    <3>1. TypeOK' /\ LockInv' /\ ViewInv' /\ FreshInv' /\ ReplyInv' /\ AckedDurable'
      BY <1>1, <2>1, <2>2, WriteRest
    <3> QED BY <1>1, <2>2, <3>1 DEF IInv, TokenInv, Exclusive, WithinCeiling, Conflict,
                                     Capacity
  <2>3. CASE \E k \in claims : claims' = claims \ {k}
                            /\ released' = released \cup {k.token}
    <3>1. PICK k \in claims : claims' = claims \ {k}
                           /\ released' = released \cup {k.token}
      BY <2>3
    <3>2. k.token \in Tokens(claims) /\ k.token \in Nat
      BY <1>2 DEF Tokens
    <3>3. Tokens(claims') = Tokens(claims) \ {k.token}
      <4>1. \A a \in claims : a # k => a.token # k.token
        BY DEF IInv, Exclusive, Conflict
      <4> QED BY <3>1, <4>1 DEF Tokens
    <3>4. TypeOK' /\ LockInv' /\ ViewInv' /\ FreshInv' /\ ReplyInv' /\ AckedDurable'
      BY <1>1, <2>1, <3>1, <3>2, <3>3, WriteRest
    <3>5. TokenInv'
      BY <1>1, <3>1, <3>2, <3>3 DEF IInv, TokenInv
    <3>6. Exclusive' /\ IsFiniteSet(claims')
      BY <3>1, FS_Subset DEF IInv, Exclusive, Conflict
    <3>7. WithinCeiling'
      <4>1. IsFiniteSet(Capacity(claims)) /\ Capacity(claims') \subseteq Capacity(claims)
        BY <3>1, FS_Subset DEF IInv, Capacity
      <4>2. Cardinality(Capacity(claims')) <= Cardinality(Capacity(claims))
        BY <4>1, FS_Subset
      <4>3. Cardinality(Capacity(claims')) \in Nat /\ Cardinality(Capacity(claims)) \in Nat
        BY <4>1, FS_Subset, FS_CardinalityType
      <4> QED BY <4>2, <4>3, CeilingAssumption DEF IInv, WithinCeiling
    <3> QED BY <3>4, <3>5, <3>6, <3>7 DEF IInv
  <2>4. CASE \E k \in claims :
               /\ claims' = (claims \ {k}) \cup {[k EXCEPT !.coordinator = Owner[c]]}
               /\ released' = released
    <3>1. PICK k \in claims :
               /\ claims' = (claims \ {k}) \cup {[k EXCEPT !.coordinator = Owner[c]]}
               /\ released' = released
      BY <2>4
    <3> DEFINE n == [k EXCEPT !.coordinator = Owner[c]]
    <3>2. /\ n \in Claim /\ n.token = k.token /\ n.kind = k.kind
          /\ \A a \in Claim : Conflict(n, a) <=> Conflict(k, a)
      BY <1>1, ReboundClaim
    <3> HIDE DEF n
    <3>3. claims' = (claims \ {k}) \cup {n} /\ released' = released
      BY <3>1 DEF n
    <3>4. Tokens(claims') = Tokens(claims)
      BY <3>2, <3>3 DEF Tokens
    <3>5. TypeOK' /\ LockInv' /\ ViewInv' /\ FreshInv' /\ ReplyInv' /\ AckedDurable'
      BY <1>1, <2>1, <3>2, <3>3, <3>4, WriteRest
    <3>6. TokenInv'
      BY <1>1, <3>3, <3>4 DEF IInv, TokenInv
    <3>7. Exclusive'
      <4>1. \A a \in claims \ {k} : ~Conflict(n, a) /\ ~Conflict(a, n)
        BY <1>1, <3>2 DEF IInv, Exclusive, Conflict
      <4> QED BY <3>3, <4>1 DEF IInv, Exclusive, Conflict
    <3>8. IsFiniteSet(claims \ {k}) /\ IsFiniteSet(claims')
      BY <3>3, FS_Subset, FS_AddElement DEF IInv
    <3>9. WithinCeiling'
      <4>1. n = k \/ n \notin claims
        BY <3>2 DEF IInv, Exclusive, Conflict
      <4>2. CASE n = k
        BY <3>3, <4>2 DEF IInv, WithinCeiling, Capacity
      <4>3. CASE n \notin claims /\ k.kind = "capacity"
        <5>1. Capacity(claims') = (Capacity(claims) \ {k}) \cup {n}
          BY <3>2, <3>3, <4>3 DEF Capacity
        <5>2. IsFiniteSet(Capacity(claims)) /\ k \in Capacity(claims)
              /\ n \notin Capacity(claims)
          BY <4>3, FS_Subset DEF IInv, Capacity
        <5>3. IsFiniteSet(Capacity(claims) \ {k})
              /\ Cardinality(Capacity(claims) \ {k}) = Cardinality(Capacity(claims)) - 1
          BY <5>2, FS_RemoveElement
        <5>4. Cardinality(Capacity(claims'))
                = Cardinality(Capacity(claims) \ {k}) + 1
          BY <5>1, <5>2, <5>3, FS_AddElement
        <5>5. Cardinality(Capacity(claims)) \in Nat
          BY <5>2, FS_CardinalityType
        <5> QED BY <5>3, <5>4, <5>5 DEF IInv, WithinCeiling
      <4>4. CASE n \notin claims /\ k.kind # "capacity"
        <5>1. Capacity(claims') = Capacity(claims)
          BY <3>2, <3>3, <4>4 DEF Capacity
        <5> QED BY <5>1 DEF IInv, WithinCeiling
      <4> QED BY <4>1, <4>2, <4>3, <4>4
    <3> QED BY <3>5, <3>6, <3>7, <3>8, <3>9 DEF IInv
  <2> QED BY <1>1, <1>4, <2>2, <2>3, <2>4, OtherStep
<1> QED BY <1>3, <1>4

\* Every step keeps the invariant.
LEMMA NextIInv == IInv /\ [Next]_vars => IInv'
<1> SUFFICES ASSUME IInv, [Next]_vars PROVE IInv'
  OBVIOUS
<1>1. ASSUME NEW c \in Callers, NEW r \in Asked, Start(c, r) PROVE IInv'
  BY <1>1, StartIInv
<1>2. ASSUME NEW c \in Callers, Step(c) PROVE IInv'
  BY <1>2, ReadIInv, WriteIInv, ReplyIInv DEF Step
<1>3. ASSUME NEW c \in Callers, Die(c) PROVE IInv'
  BY <1>3, DieIInv
<1>4. CASE UNCHANGED vars
  <2>1. /\ claims' = claims /\ lock' = lock /\ child' = child
        /\ nextToken' = nextToken /\ released' = released /\ acked' = acked
    BY <1>4 DEF vars
  <2>2. TypeOK' /\ LockInv' /\ ViewInv' /\ AckedDurable' /\ Exclusive'
    BY <2>1 DEF IInv, TypeOK, LockInv, ViewInv, AckedDurable, Exclusive, Conflict, Tokens
  <2>3. TokenInv' /\ WithinCeiling'
    BY <2>1 DEF IInv, TokenInv, WithinCeiling, Tokens, Capacity
  <2>4. FreshInv'
    BY <2>1 DEF IInv, FreshInv, Tokens
  <2>5. ReplyInv'
    BY <2>1 DEF IInv, ReplyInv, Tokens
  <2> QED BY <2>1, <2>2, <2>3, <2>4, <2>5 DEF IInv
<1> QED BY <1>1, <1>2, <1>3, <1>4 DEF Next

-------------------------------------------------------------------------------
(* The theorems. *)

\* The invariant holds in every reachable state.
LEMMA SpecIInv == Spec => []IInv
<1> QED BY InitIInv, NextIInv, PTL DEF Spec

\* Every variable of the registry model keeps its type, whatever the callers do.
THEOREM TypeCorrect == Spec => []TypeOK
<1>1. IInv => TypeOK
  BY DEF IInv
<1> QED BY <1>1, SpecIInv, PTL

\* No two claims of the registry ever conflict: one holder per package and per
\* checkout, one slot per attempt (the handlers of ownership.mjs under flock).
THEOREM ExclusiveAlways == Spec => []Exclusive
<1>1. IInv => Exclusive
  BY DEF IInv
<1> QED BY <1>1, SpecIInv, PTL

\* Capacity claims never outnumber SOFTWARE_CEILING (capacityDecision).
THEOREM WithinCeilingAlways == Spec => []WithinCeiling
<1>1. IInv => WithinCeiling
  BY DEF IInv
<1> QED BY <1>1, SpecIInv, PTL

\* A claim a caller was told about stays until a confirmed release: the
\* read-modify-write of one child never undoes that of another (runMutationChild).
THEOREM AckedDurableAlways == Spec => []AckedDurable
<1>1. IInv => AckedDurable
  BY DEF IInv
<1> QED BY <1>1, SpecIInv, PTL

\* Claims leave the registry, and change, only as releaseClaim and recoverClaims
\* allow.
THEOREM OnlyDrainedReleaseAlways == Spec => OnlyDrainedRelease
<1> DEFINE Kept == \A k \in claims :
       \/ \E n \in claims' : n = [k EXCEPT !.coordinator = n.coordinator]
       \/ \E c \in Callers :
            child[c].request = [op |-> "release-claim", token |-> k.token,
                                epoch |-> k.epoch, drain |-> TRUE]
<1>1. ASSUME NEW k \in Claim, NEW o
      PROVE  /\ k = [k EXCEPT !.coordinator = k.coordinator]
             /\ [k EXCEPT !.coordinator = o].coordinator = o
  BY DEF Claim
<1>2. IInv /\ [Next]_vars => [Kept]_vars
  <2> SUFFICES ASSUME IInv, [Next]_vars, ~UNCHANGED vars PROVE Kept
    OBVIOUS
  <2>1. claims \subseteq Claim
    BY DEF IInv, TypeOK
  <2>2. CASE claims' = claims
    BY <1>1, <2>1, <2>2
  <2>3. CASE claims' # claims
    <3>1. PICK c \in Callers : Write(c)
      BY <2>3 DEF Next, Step, Start, Read, Reply, Die
    <3>2. child[c].view = claims /\ child[c].token \in Nat
      BY <3>1 DEF Write, IInv, ViewInv, TypeOK
    <3>3. CASE Grants(claims, c, child[c].request)
      <4>1. claims \subseteq claims'
        BY <3>1, <3>2, <3>3, GrantStep
      <4> QED BY <1>1, <2>1, <4>1
    <3>4. CASE ~Grants(claims, c, child[c].request)
      <4>1. CASE \E k \in claims :
              /\ child[c].request = [op |-> "release-claim", token |-> k.token,
                                     epoch |-> k.epoch, drain |-> TRUE]
              /\ claims' = claims \ {k}
        BY <1>1, <2>1, <4>1
      <4>2. CASE \E k \in claims :
              claims' = (claims \ {k}) \cup {[k EXCEPT !.coordinator = Owner[c]]}
        <5>1. PICK x \in claims :
              claims' = (claims \ {x}) \cup {[x EXCEPT !.coordinator = Owner[c]]}
          BY <4>2
        <5>2. \A k \in claims \ {x} : k \in claims' /\ k = [k EXCEPT !.coordinator = k.coordinator]
          BY <1>1, <2>1, <5>1
        <5>3. LET n == [x EXCEPT !.coordinator = Owner[c]]
              IN n \in claims' /\ n = [x EXCEPT !.coordinator = n.coordinator]
          BY <1>1, <2>1, <5>1
        <5> QED BY <5>2, <5>3
      <4> QED BY <2>3, <3>1, <3>2, <3>4, <4>1, <4>2, OtherStep
    <3> QED BY <3>3, <3>4
  <2> QED BY <2>2, <2>3
<1> QED BY <1>2, SpecIInv, PTL DEF Spec, OnlyDrainedRelease

\* The registry implements the abstract table of claims: every write grants,
\* returns or rebinds one claim, and every other step is a stutter of it.
THEOREM Implements == Spec => ImplementsTable
<1>1. Init => Abstract!TableInit
  BY DEF Init, Abstract!TableInit
<1>2. IInv /\ [Next]_vars => [Abstract!TableNext]_(Abstract!tableVars)
  <2> SUFFICES ASSUME IInv, [Next]_vars,
                      ~(claims' = claims /\ released' = released)
               PROVE  Abstract!TableNext
    BY DEF Abstract!tableVars
  <2>1. PICK c \in Callers : Write(c)
    BY DEF Next, Step, Start, Read, Reply, Die, vars
  <2>2. child[c].view = claims /\ child[c].token \in Nat
    BY <2>1 DEF Write, IInv, ViewInv, TypeOK
  <2>3. CASE Grants(claims, c, child[c].request)
    <3> DEFINE n == NewClaim(c, child[c].request, child[c].token)
    <3>1. /\ claims' = claims \cup {n} /\ released' = released
          /\ n \in Claim /\ n.token \notin released
          /\ \A k \in claims : ~Conflict(n, k)
          /\ n.kind = "capacity" => Cardinality(Capacity(claims)) < Ceiling
      BY <2>1, <2>2, <2>3, GrantStep
    <3> HIDE DEF n
    <3>2. Abstract!Grant(n)
      <4>1. \A k \in claims : ~Abstract!Conflict(n, k)
        BY <3>1 DEF Abstract!Conflict, Conflict
      <4> QED BY <3>1, <4>1 DEF Abstract!Grant, HasRoom
    <3> QED BY <3>1, <3>2 DEF Abstract!TableNext
  <2>4. CASE ~Grants(claims, c, child[c].request)
    <3>1. CASE \E k \in claims : claims' = claims \ {k}
                              /\ released' = released \cup {k.token}
      BY <3>1 DEF Abstract!TableNext, Abstract!Return
    <3>2. CASE \E k \in claims :
            /\ claims' = (claims \ {k}) \cup {[k EXCEPT !.coordinator = Owner[c]]}
            /\ released' = released
      BY <3>2, CallersAssumption DEF Abstract!TableNext, Abstract!Rebind
    <3> QED BY <2>1, <2>2, <2>4, <3>1, <3>2, OtherStep
  <2> QED BY <2>3, <2>4
<1> QED BY <1>1, <1>2, SpecIInv, PTL DEF Spec, ImplementsTable, Abstract!Table
===============================================================================
