---------------------------- MODULE PromotionProofs ----------------------------
(***************************************************************************)
(* For any number of coordinator processes, developer actions and failing  *)
(* commands: the promotion moves branch and files under the claim, its     *)
(* journal explains the branch, a developer's content survives it, and a   *)
(* wave reads integrated only when all of it is settled.                   *)
(***************************************************************************)
EXTENDS Promotion, TLAPS

\* Where the coordinator acts on the intent it journaled.
Moving == {"guard", "observe", "guardCas", "cas", "journalRef", "guardTree",
           "readTree", "observeDone", "sync"}

\* The journal is written for the first time at the intent, is there whenever the
\* promotion moves or is recovered, and reads synced only at the end of a move.
JournalInv ==
  /\ pc \in {"reserve", "observeFirst", "intent"} => journal = None
  /\ pc \in Moving \cup {"recoverPromotion"} => journal # None
  /\ pc \in Moving => journal # "synced"
  /\ pc \in {"release", "promoted"} => journal = "synced"

\* The claim follows the session of the record, or the process about to be it.
ClaimInv ==
  /\ pc \notin {"down", "adopt"} => claim \in {None, Other, session}
  /\ pc = "adopt" => claim \in {None, Other, proc}
  /\ pc = "observeFirst" => claim = session
  /\ pc = "promoted" => claim \in {None, Other}
  /\ pc = "down" => proc < MaxSessions
  /\ wave = "integrated" => pc = "done"

\* Without a developer's action since the check, the check is still right.
CheckedInv == pc = "readTree" /\ ~raced => "ignored" \notin stray

IInv == /\ TypeOK /\ JournalInv /\ ClaimInv /\ CheckedInv
        /\ MovedUnderClaim /\ IntentBeforeSwap /\ IntegratedSettled

-------------------------------------------------------------------------------
(* Types. *)

\* The promotion starts with its types.
LEMMA InitType == Init => TypeOK
<1> SUFFICES ASSUME Init PROVE TypeOK
  OBVIOUS
<1>1. OldTree \in [Paths -> Contents]
  BY DEF OldTree, Contents
<1>2. 1 \in 1..MaxSessions /\ 0 \in 0..MaxEdits /\ 0 \in 0..MaxFaults
  BY BoundsAssumption
<1> QED BY <1>1, <1>2 DEF Init, TypeOK, Points

\* The trees of the old commit, of the candidate and of any branch are contents.
LEMMA Trees == /\ OldTree \in [Paths -> Contents] /\ CandTree \in [Paths -> Contents]
               /\ HeadTree \in [Paths -> Contents]
               /\ \A branch : TreeAt(branch) \in [Paths -> Contents]
<1>1. OldTree \in [Paths -> Contents]
  BY DEF OldTree, Contents
<1>2. CandTree \in [Paths -> Contents]
  BY DEF CandTree, OldTree, Contents
<1> QED BY <1>1, <1>2 DEF HeadTree, TreeAt

\* A fault is counted up to its bound.
LEMMA FaultType ==
  ASSUME TypeOK, Fault \/ NoFault
  PROVE  faults' \in 0..MaxFaults
  BY BoundsAssumption DEF TypeOK, Fault, NoFault

\* A step that leaves the checkout alone keeps the types if its outcome has them.
LEMMA QuietType ==
  ASSUME TypeOK, Fault \/ NoFault, pc' \in Points,
         journal' \in {journal, "intent", "ref-updated", "synced", "blocked"},
         raced' \in {raced, FALSE}, obs' \in {obs, head},
         UNCHANGED <<git, wave, claim, session, proc, acquired, edits>>
  PROVE  TypeOK'
<1>1. faults' \in 0..MaxFaults
  BY FaultType
<1>2. /\ journal' \in {None, "intent", "ref-updated", "synced", "blocked"}
      /\ raced' \in BOOLEAN /\ obs' \in {"branch", "other"}
  BY DEF TypeOK
<1> QED BY <1>1, <1>2 DEF TypeOK, git

\* A reservation leaves the claim to the session or as it was
\* (reservePromotionCheckout).
LEMMA ReserveType ==
  ASSUME TypeOK, NEW from, NEW to \in Points, Reserve(from, to)
  PROVE  /\ claim' \in {None, Other} \cup 1..MaxSessions /\ pc' \in Points
         /\ acquired' \in BOOLEAN /\ journal' = journal
<1>1. pc' \in Points
  BY DEF Reserve, Throw, Goto, Points
<1>2. claim' \in {claim, session} /\ acquired' \in BOOLEAN /\ journal' = journal
  BY DEF Reserve, Throw, TypeOK
<1> QED BY <1>1, <1>2 DEF TypeOK

\* The parts of the state a coordinator's step gives a new value.
LEMMA CoordinateType ==
  ASSUME TypeOK, Coordinate
  PROVE  TypeOK'
<1> USE DEF Goto, Points
<1>0. edits' = edits
  BY DEF Coordinate
<1>1. CASE PromoteWave
  BY <1>0, <1>1, FaultType DEF PromoteWave, TypeOK, Throw, git
<1>2. CASE FirstReserve
  BY <1>0, <1>2, FaultType, ReserveType DEF FirstReserve, TypeOK, git
<1>3. CASE ObserveFirst
  BY <1>0, <1>3, FaultType DEF ObserveFirst, TypeOK, git
<1>4. CASE JournalIntent
  BY <1>0, <1>4, FaultType DEF JournalIntent, TypeOK, git
<1>5. CASE RecoverPromotion
  BY <1>0, <1>5, FaultType, ReserveType DEF RecoverPromotion, TypeOK, git
<1>6. CASE Guard("guard", "observe")
  <2>1. /\ Fault \/ NoFault
        /\ pc' \in Points /\ journal' \in {journal, "blocked"}
        /\ raced' = FALSE /\ UNCHANGED <<claim, acquired>>
    BY <1>6 DEF Guard, BlockPromotion
  <2> QED BY <1>0, <1>6, <2>1, QuietType DEF Guard
<1>7. CASE Observe
  <2>1. /\ Fault \/ NoFault
        /\ pc' \in Points /\ journal' \in {journal, "blocked"}
        /\ UNCHANGED <<claim, acquired>>
    BY <1>7 DEF Observe, BlockPromotion
  <2> QED BY <1>0, <1>7, <2>1, QuietType DEF Observe
<1>8. CASE Guard("guardCas", "cas")
  <2>1. /\ Fault \/ NoFault
        /\ pc' \in Points /\ journal' \in {journal, "blocked"}
        /\ raced' = FALSE /\ UNCHANGED <<claim, acquired>>
    BY <1>8 DEF Guard, BlockPromotion
  <2> QED BY <1>0, <1>8, <2>1, QuietType DEF Guard
<1>9. CASE PromoteRef
  BY <1>0, <1>9, FaultType DEF PromoteRef, TypeOK, BlockPromotion
<1>10. CASE JournalRefUpdated
  BY <1>0, <1>10, FaultType DEF JournalRefUpdated, TypeOK, git
<1>11. CASE Guard("guardTree", "readTree")
  <2>1. /\ Fault \/ NoFault
        /\ pc' \in Points /\ journal' \in {journal, "blocked"}
        /\ raced' = FALSE /\ UNCHANGED <<claim, acquired>>
    BY <1>11 DEF Guard, BlockPromotion
  <2> QED BY <1>0, <1>11, <2>1, QuietType DEF Guard
<1>12. CASE ReadTree
  <2>1. \A content \in [Paths -> Contents] : Merged(content) \in [Paths -> Contents]
    BY Trees DEF Merged
  <2>2. index' \in [Paths -> Contents] /\ work' \in [Paths -> Contents]
    BY <1>12, <2>1 DEF ReadTree, TypeOK
  <2>3. stray' \subseteq {"untracked", "ignored"}
    BY <1>12 DEF ReadTree, TypeOK
  <2> QED BY <1>0, <1>12, <2>2, <2>3, FaultType DEF ReadTree, TypeOK, BlockPromotion
<1>13. CASE ObserveDone
  <2>1. /\ Fault \/ NoFault
        /\ pc' \in Points /\ journal' \in {journal, "blocked"}
        /\ UNCHANGED <<claim, acquired>>
    BY <1>13 DEF ObserveDone, BlockPromotion
  <2> QED BY <1>0, <1>13, <2>1, QuietType DEF ObserveDone
<1>14. CASE JournalSynced
  BY <1>0, <1>14, FaultType DEF JournalSynced, TypeOK, git
<1>15. CASE Release
  BY <1>0, <1>15, FaultType DEF Release, TypeOK, Throw, Mine, git
<1>16. CASE Settle
  BY <1>0, <1>16, FaultType DEF Settle, TypeOK, git
<1> QED BY <1>1, <1>2, <1>3, <1>4, <1>5, <1>6, <1>7, <1>8, <1>9, <1>10, <1>11, <1>12,
           <1>13, <1>14, <1>15, <1>16 DEF Coordinate

\* A developer's action has the types of the checkout.
LEMMA DeveloperType ==
  ASSUME TypeOK, Developer
  PROVE  TypeOK'
<1>1. edits' \in 0..MaxEdits
  BY BoundsAssumption DEF Developer, TypeOK
<1>2. index' \in [Paths -> Contents] /\ work' \in [Paths -> Contents]
  BY Trees DEF Developer, TypeOK, Edit, Stage, Drop, Commit, Switch, Discard, Contents
<1>3. /\ ref' \in {"old", "cand", "ext"} /\ head' \in {"branch", "other"}
      /\ stray' \subseteq {"untracked", "ignored"}
  BY DEF Developer, TypeOK, Edit, Stage, Drop, Commit, Switch, Discard
<1> QED BY <1>1, <1>2, <1>3 DEF Developer, TypeOK, record

\* Every step keeps the types.
LEMMA NextType ==
  ASSUME IInv, [Next]_vars
  PROVE  TypeOK'
<1> USE DEF IInv
<1>1. CASE Coordinate
  BY <1>1, CoordinateType
<1>2. CASE Crash
  BY <1>2 DEF Crash, TypeOK, git, record, Points
<1>3. CASE Rebind
  <2>1. proc' \in 1..MaxSessions
    BY <1>3, BoundsAssumption DEF Rebind, ClaimInv, TypeOK, Goto
  <2> QED BY <1>3, <2>1 DEF Rebind, TypeOK, Goto, git, record, Points
<1>4. CASE Adopt
  BY <1>4 DEF Adopt, TypeOK, Goto, git, Points
<1>5. CASE Developer
  BY <1>5, DeveloperType
<1>6. CASE OtherPackage
  BY <1>6 DEF OtherPackage, TypeOK, git, record
<1>7. CASE UNCHANGED vars
  BY <1>7 DEF vars, TypeOK
<1> QED BY <1>1, <1>2, <1>3, <1>4, <1>5, <1>6, <1>7 DEF Next

-------------------------------------------------------------------------------
(* The control of the promotion: journal, claim and record. *)

ControlInv == /\ JournalInv /\ ClaimInv /\ CheckedInv
              /\ MovedUnderClaim /\ IntentBeforeSwap /\ IntegratedSettled

\* None and Other are nobody's session, and None is no journal state.
LEMMA Nobodies ==
  /\ None # Other
  /\ \A s \in 1..MaxSessions : s # None /\ s # Other
  /\ None \notin {"intent", "ref-updated", "synced", "blocked"}
  BY BoundsAssumption

\* Before the promotion there is no journal, and no claim of this wave.
LEMMA InitControl == Init => ControlInv
  BY DEF Init, ControlInv, JournalInv, ClaimInv, CheckedInv, Moving, MovedUnderClaim,
         IntentBeforeSwap, IntegratedSettled

\* Each command of the coordinator keeps journal, claim and record in step.
LEMMA CoordinateControl ==
  ASSUME IInv, Coordinate
  PROVE  ControlInv'
<1> USE Nobodies DEF IInv, ControlInv, JournalInv, ClaimInv, CheckedInv, Moving,
        MovedUnderClaim, IntentBeforeSwap, IntegratedSettled, Mine, Goto
<1>1. CASE PromoteWave
  BY <1>1 DEF PromoteWave, Throw, git
<1>2. CASE FirstReserve
  BY <1>2 DEF FirstReserve, Reserve, Throw, git
<1>3. CASE ObserveFirst
  BY <1>3 DEF ObserveFirst, git
<1>4. CASE JournalIntent
  BY <1>4 DEF JournalIntent, git
<1>5. CASE RecoverPromotion
  BY <1>5 DEF RecoverPromotion, Reserve, Throw, git
<1>6. CASE Guard("guard", "observe")
  BY <1>6 DEF Guard, BlockPromotion, git
<1>7. CASE Observe
  BY <1>7 DEF Observe, BlockPromotion, git
<1>8. CASE Guard("guardCas", "cas")
  BY <1>8 DEF Guard, BlockPromotion, git
<1>9. CASE PromoteRef
  BY <1>9 DEF PromoteRef, BlockPromotion
<1>10. CASE JournalRefUpdated
  BY <1>10 DEF JournalRefUpdated, git
<1>11. CASE Guard("guardTree", "readTree")
  BY <1>11 DEF Guard, BlockPromotion, Collision, git
<1>12. CASE ReadTree
  BY <1>12 DEF ReadTree, BlockPromotion
<1>13. CASE ObserveDone
  BY <1>13 DEF ObserveDone, BlockPromotion, git
<1>14. CASE JournalSynced
  BY <1>14 DEF JournalSynced, git
<1>15. CASE Release
  BY <1>15 DEF Release, Throw, git
<1>16. CASE Settle
  BY <1>16 DEF Settle, git
<1> QED BY <1>1, <1>2, <1>3, <1>4, <1>5, <1>6, <1>7, <1>8, <1>9, <1>10, <1>11, <1>12,
           <1>13, <1>14, <1>15, <1>16 DEF Coordinate

\* So does every other step: the crash, the two writes of a recovery, the
\* developer and the other package.
LEMMA NextControl ==
  ASSUME IInv, [Next]_vars
  PROVE  ControlInv'
<1> USE Nobodies DEF IInv, ControlInv, JournalInv, ClaimInv, CheckedInv, Moving,
        MovedUnderClaim, IntentBeforeSwap, IntegratedSettled, Mine, Goto
<1>1. CASE Coordinate
  BY <1>1, CoordinateControl
<1>2. CASE Crash
  BY <1>2 DEF Crash, git, record
<1>3. CASE Rebind
  BY <1>3 DEF Rebind, git, record, TypeOK
<1>4. CASE Adopt
  BY <1>4 DEF Adopt, git
<1>5. CASE Developer
  <2>1. ref' = "cand" => ref = "cand"
    BY <1>5 DEF Developer, Edit, Stage, Drop, Commit, Switch, Discard
  <2> QED BY <1>5, <2>1 DEF Developer, record
<1>6. CASE OtherPackage
  BY <1>6 DEF OtherPackage, git, record, TypeOK
<1>7. CASE UNCHANGED vars
  BY <1>7 DEF vars
<1> QED BY <1>1, <1>2, <1>3, <1>4, <1>5, <1>6, <1>7 DEF Next

\* The invariant holds in every reachable state.
THEOREM Inductive == Spec => []IInv
<1>1. Init => IInv
  BY InitType, InitControl DEF IInv, ControlInv
<1>2. IInv /\ [Next]_vars => IInv'
  BY NextType, NextControl DEF IInv, ControlInv
<1> QED BY <1>1, <1>2, PTL DEF Spec

-------------------------------------------------------------------------------
(* Types hold, for any number of processes, edits and failing commands. *)
THEOREM TypeCorrect == Spec => []TypeOK
<1>1. IInv => TypeOK
  BY DEF IInv
<1> QED BY <1>1, Inductive, PTL

\* Between the journaled intent and the synced journal the checkout claim is the
\* record's session's, however often coordinators die and are replaced.
THEOREM MovedUnderClaimAlways == Spec => []MovedUnderClaim
<1>1. IInv => MovedUnderClaim
  BY DEF IInv
<1> QED BY <1>1, Inductive, PTL

\* The branch is never at the candidate without a journal that says so.
THEOREM IntentBeforeSwapAlways == Spec => []IntentBeforeSwap
<1>1. IInv => IntentBeforeSwap
  BY DEF IInv
<1> QED BY <1>1, Inductive, PTL

\* An integrated wave is journaled as synced and holds no checkout.
THEOREM IntegratedSettledAlways == Spec => []IntegratedSettled
<1>1. IInv => IntegratedSettled
  BY DEF IInv
<1> QED BY <1>1, Inductive, PTL

-------------------------------------------------------------------------------
(* What a step may never do. *)

\* A read-tree that git does not refuse leaves what is not at the old content.
LEMMA ReadTreeKeeps ==
  ASSUME TypeOK, ~ReadTreeRefuses, NEW p \in Paths
  PROVE  /\ index[p] = "mine" => Merged(index)[p] = "mine"
         /\ work[p] = "mine" => Merged(work)[p] = "mine"
<1>1. CASE OldTree[p] = CandTree[p]
  BY <1>1 DEF Merged
<1>2. CASE OldTree[p] # CandTree[p] /\ index[p] = CandTree[p]
  BY <1>2 DEF Merged
<1>3. CASE OldTree[p] # CandTree[p] /\ index[p] # CandTree[p]
  <2>1. index[p] = OldTree[p] /\ work[p] = index[p]
    BY <1>3 DEF ReadTreeRefuses
  <2>2. OldTree[p] # "mine"
    BY DEF OldTree
  <2> QED BY <2>1, <2>2
<1> QED BY <1>1, <1>2, <1>3

\* Every coordinator step but the swap and the read-tree leaves the checkout alone.
LEMMA CheckoutSteps ==
  ASSUME Coordinate
  PROVE  \/ UNCHANGED git
         \/ PromoteRef
         \/ ReadTree
  BY DEF Coordinate, PromoteWave, FirstReserve, ObserveFirst, JournalIntent,
         RecoverPromotion, Guard, Observe, JournalRefUpdated, ObserveDone,
         JournalSynced, Release, Settle

\* The coordinator destroys nothing the developer committed, staged or edited.
THEOREM NoForeignLossAlways == Spec => NoForeignLoss
<1> DEFINE Keeps ==
      Coordinate =>
       /\ ref = "ext" => ref' = "ext"
       /\ head' = head
       /\ \A p \in Paths : /\ index[p] = "mine" => index'[p] = "mine"
                           /\ work[p] = "mine" => work'[p] = "mine"
       /\ "untracked" \in stray => "untracked" \in stray'
<1>1. ASSUME IInv, [Next]_vars PROVE [Keeps]_vars
  <2> SUFFICES ASSUME Coordinate PROVE Keeps
    OBVIOUS
  <2>1. CASE UNCHANGED git
    BY <2>1 DEF git
  <2>2. CASE PromoteRef
    BY <2>2 DEF PromoteRef, Goto
  <2>3. CASE ReadTree
    <3>1. CASE ~ReadTreeRefuses /\ index' = Merged(index) /\ work' = Merged(work)
               /\ stray' = stray \ {"ignored"}
      BY <1>1, <2>3, <3>1, ReadTreeKeeps DEF IInv, ReadTree
    <3>2. CASE UNCHANGED <<index, work, stray>>
      BY <2>3, <3>2 DEF ReadTree
    <3> QED BY <2>3, <3>1, <3>2 DEF ReadTree
  <2> QED BY <2>1, <2>2, <2>3, CheckoutSteps
<1> QED BY <1>1, Inductive, PTL DEF Spec, NoForeignLoss

\* An ignored file is overwritten only if it appeared after the collision check.
THEOREM IgnoredOnlyRacedAlways == Spec => IgnoredOnlyRaced
<1> DEFINE Raced == Coordinate /\ "ignored" \in stray /\ "ignored" \notin stray' => raced
<1>1. ASSUME IInv, [Next]_vars PROVE [Raced]_vars
  <2> SUFFICES ASSUME Coordinate, "ignored" \in stray, "ignored" \notin stray'
               PROVE raced
    OBVIOUS
  <2>1. ReadTree
    BY CheckoutSteps DEF git, PromoteRef
  <2>2. pc = "readTree"
    BY <2>1 DEF ReadTree, Goto, BlockPromotion
  <2> QED BY <1>1, <2>2 DEF IInv, TypeOK, CheckedInv
<1> QED BY <1>1, Inductive, PTL DEF Spec, IgnoredOnlyRaced

\* What was journaled as synced stays synced, through crashes and recoveries.
THEOREM SyncedStaysAlways == Spec => SyncedStays
<1> DEFINE Stays == journal = "synced" => journal' = "synced"
<1>1. ASSUME IInv, [Next]_vars PROVE [Stays]_vars
  <2> SUFFICES ASSUME journal = "synced", Next PROVE journal' = "synced"
    BY <1>1 DEF vars
  <2>0. pc \notin Moving \cup {"intent"}
    BY <1>1, BoundsAssumption DEF IInv, JournalInv
  <2>1. CASE Coordinate
    <3> USE DEF Goto, Throw
    <3>1. CASE PromoteWave \/ FirstReserve \/ ObserveFirst
      BY <3>1 DEF PromoteWave, FirstReserve, Reserve, ObserveFirst
    <3>2. CASE RecoverPromotion \/ Release \/ Settle
      BY <3>2 DEF RecoverPromotion, Release, Settle
    <3>3. CASE JournalIntent \/ JournalRefUpdated \/ JournalSynced
      BY <2>0, <3>3 DEF Moving, JournalIntent, JournalRefUpdated, JournalSynced
    <3>4. CASE \/ Guard("guard", "observe") \/ Guard("guardCas", "cas")
               \/ Guard("guardTree", "readTree")
      BY <2>0, <3>4 DEF Moving, Guard, BlockPromotion
    <3>5. CASE Observe \/ PromoteRef \/ ReadTree \/ ObserveDone
      BY <2>0, <3>5 DEF Moving, Observe, PromoteRef, ReadTree, ObserveDone, BlockPromotion
    <3> QED BY <2>1, <3>1, <3>2, <3>3, <3>4, <3>5 DEF Coordinate
  <2>2. CASE Crash \/ Rebind \/ Adopt \/ Developer \/ OtherPackage
    BY <2>2 DEF Crash, Rebind, Adopt, Developer, OtherPackage, record
  <2> QED BY <2>1, <2>2 DEF Next
<1> QED BY <1>1, Inductive, PTL DEF Spec, SyncedStays
===============================================================================
