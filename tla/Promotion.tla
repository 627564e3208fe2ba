------------------------------- MODULE Promotion -------------------------------
(***************************************************************************)
(* The publication of a verified wave candidate on the canonical checkout  *)
(* (promoteWave, recoverPromotion and resumePromotion of                   *)
(* pi/extensions/spec-runtime/wave-integration.mjs).  The coordinator      *)
(* holds the checkout claim, journals what it is about to do in the wave   *)
(* record, moves the branch by compare-and-swap, then brings index and     *)
(* files along with a two-way read-tree.  It can crash between any two     *)
(* commands and a replacement starts over from the journal; a developer    *)
(* uses the same checkout all the while.                                   *)
(***************************************************************************)
EXTENDS Integers

CONSTANTS
  None,         \* nobody holds the checkout claim, no journal
  Other,        \* another package's coordinator
  MaxSessions,  \* bound: coordinator processes in one behaviour
  MaxEdits,     \* bound: developer actions
  MaxFaults     \* bound: git or registry commands that fail

ASSUME BoundsAssumption ==
  /\ MaxSessions \in Nat \ {0} /\ MaxEdits \in Nat /\ MaxFaults \in Nat
  /\ None # Other /\ None \notin Nat /\ Other \notin Nat
  /\ None \notin {"intent", "ref-updated", "synced", "blocked"}

VARIABLES
  ref,      \* the commit of the target branch: "old", "cand" or "ext"
  head,     \* what HEAD points at: the target "branch" or an "other" one
  index,    \* the staged content of each path
  work,     \* the file content of each path
  stray,    \* subset of {"untracked", "ignored"}: files outside the index
  journal,  \* target.promotion.state of the wave record, or None
  wave,     \* state of the wave record
  claim,    \* the session the canonical checkout claim is bound to
  session,  \* the coordinator session of the wave record
  proc,     \* the coordinator process that runs, or ran last
  pc,       \* where that process stands
  acquired, \* whether this process reserved the checkout claim itself
  obs,      \* history: HEAD as the last observation saw it
  raced,    \* history: the developer acted since the last collision check
  edits, faults

git == <<ref, head, index, work, stray>>
record == <<journal, wave, session>>
vars == <<ref, head, index, work, stray, journal, wave, claim, session, proc, pc,
          acquired, obs, raced, edits, faults>>

\* One path the candidate changes and one it leaves alone.
Paths == {"changed", "kept"}
OldTree == [p \in Paths |-> "old"]
CandTree == [OldTree EXCEPT !["changed"] = "new"]

-------------------------------------------------------------------------------
(* Observations of the checkout. *)

Clean == work = index /\ "untracked" \notin stray   \* trackedClean, untracked
CachedOld == index = OldTree
CachedCandidate == index = CandTree
Collision == "ignored" \in stray                    \* promotionCollision

\* Fault seeded for NoForeignLoss: files are forced like `reset --hard` does.
ReadTreeForces ==
  \E p \in Paths : OldTree[p] # CandTree[p] /\ index[p] \notin {OldTree[p], CandTree[p]}

\* git read-tree -m -u old cand refuses unless every changed path is at the old
\* content in index and file alike, or already staged at the candidate's.
ReadTreeRefuses ==
  \E p \in Paths : /\ OldTree[p] # CandTree[p] /\ index[p] # CandTree[p]
                   /\ (index[p] # OldTree[p] \/ work[p] # index[p])

Merged(content) ==
  [p \in Paths |-> IF OldTree[p] # CandTree[p] /\ index[p] = OldTree[p]
                   THEN CandTree[p] ELSE content[p]]

Mine == claim = session

-------------------------------------------------------------------------------
Init ==
  /\ ref = "old" /\ head = "branch" /\ index = OldTree /\ work = OldTree
  /\ stray = {}
  /\ journal = None /\ wave = "promoting" /\ session = 1
  /\ claim \in {None, Other}
  /\ proc = 1 /\ pc = "promoteWave" /\ acquired = FALSE
  /\ obs = head /\ raced = FALSE /\ edits = 0 /\ faults = 0

Goto(from, to) == pc = from /\ pc' = to

\* The wave is blocked by the barrier: promoteWave threw or said so.
Throw(from) == Goto(from, "blockWave") /\ UNCHANGED <<journal, claim, acquired>>

\* blockPromotion: the journal says blocked before the barrier hears of it.
BlockPromotion(from) ==
  /\ Goto(from, "blockWave") /\ journal' = "blocked"
  /\ UNCHANGED <<claim, acquired>>

Fault == faults < MaxFaults /\ faults' = faults + 1
NoFault == UNCHANGED faults

\* promoteWave: a journal sends it to recoverPromotion, a collision is refused.
PromoteWave ==
  /\ \/ journal # None /\ Goto("promoteWave", "recoverPromotion")
        /\ UNCHANGED <<journal, claim, acquired>>
     \/ journal = None /\ Collision /\ Throw("promoteWave")
     \/ journal = None /\ ~Collision /\ Goto("promoteWave", "reserve")
        /\ UNCHANGED <<journal, claim, acquired>>
  /\ NoFault /\ UNCHANGED <<git, wave, session, proc, obs, raced>>

\* Fault seeded for MovedUnderClaim: any held claim reads as a replay of ours.
ReserveAnyHeld(from, to) ==
  \/ claim = None /\ Goto(from, to) /\ claim' = session /\ acquired' = TRUE
     /\ UNCHANGED journal
  \/ claim # None /\ Goto(from, to) /\ acquired' = FALSE /\ UNCHANGED <<claim, journal>>

\* Fault seeded for PromotionEnds: a checkout held by another is waited for.
ReserveWaiting(from, to) ==
  \/ claim = None /\ Goto(from, to) /\ claim' = session /\ acquired' = TRUE
     /\ UNCHANGED journal
  \/ Mine /\ Goto(from, to) /\ acquired' = FALSE /\ UNCHANGED <<claim, journal>>

\* reservePromotionCheckout: free, already exactly ours, or held by another.
Reserve(from, to) ==
  \/ claim = None /\ Goto(from, to) /\ claim' = session /\ acquired' = TRUE
     /\ UNCHANGED journal
  \/ Mine /\ Goto(from, to) /\ acquired' = FALSE /\ UNCHANGED <<claim, journal>>
  \/ claim # None /\ ~Mine /\ Throw(from)

FirstReserve ==
  /\ Reserve("reserve", "observeFirst")
  /\ NoFault /\ UNCHANGED <<git, wave, session, proc, obs, raced>>

\* The observation before the intent: anything but the clean old checkout of the
\* branch gives a claim reserved just now back, and refuses.
ObserveFirst ==
  LET fit == head = "branch" /\ ref = "old" /\ CachedOld /\ Clean
  IN /\ obs' = head
     /\ \/ fit /\ Goto("observeFirst", "intent") /\ NoFault
           /\ UNCHANGED <<journal, claim, acquired>>
        \/ /\ (~fit /\ NoFault) \/ Fault
           /\ Goto("observeFirst", "blockWave")
           /\ claim' = IF acquired THEN None ELSE claim
           /\ UNCHANGED <<journal, acquired>>
     /\ UNCHANGED <<git, wave, session, proc, raced>>

JournalIntent ==
  /\ Goto("intent", "guard") /\ journal' = "intent"
  /\ NoFault /\ UNCHANGED <<git, wave, claim, session, proc, acquired, obs, raced>>

\* Fault seeded for SyncedStays: a synced journal is resumed like any other.
RecoverPromotionAgain ==
  /\ Reserve("recoverPromotion", "guard")
  /\ NoFault /\ UNCHANGED <<git, wave, session, proc, obs, raced>>

\* recoverPromotion with a journal: done but for the release, or to be resumed
\* under the claim.
RecoverPromotion ==
  /\ \/ journal = "synced" /\ Goto("recoverPromotion", "release")
        /\ UNCHANGED <<journal, claim, acquired>>
     \/ journal # "synced" /\ Reserve("recoverPromotion", "guard")
  /\ NoFault /\ UNCHANGED <<git, wave, session, proc, obs, raced>>

\* Fault seeded for IgnoredOnlyRaced: ignored files are not looked for again.
GuardUnchecked(from, to) ==
  /\ raced' = FALSE
  /\ \/ Goto(from, to) /\ NoFault /\ UNCHANGED <<journal, claim, acquired>>
     \/ Fault /\ BlockPromotion(from)
  /\ UNCHANGED <<git, wave, session, proc, obs>>

\* guardCollision, before the observation, the swap and the read-tree.
Guard(from, to) ==
  /\ raced' = FALSE
  /\ \/ ~Collision /\ Goto(from, to) /\ NoFault /\ UNCHANGED <<journal, claim, acquired>>
     \/ ((Collision /\ NoFault) \/ Fault) /\ BlockPromotion(from)
  /\ UNCHANGED <<git, wave, session, proc, obs>>

\* resumePromotion's observation and what each ref value leads to.
Observe ==
  LET onto(to) == Goto("observe", to) /\ UNCHANGED <<journal, claim, acquired>>
      fit == \/ ref = "old" /\ CachedOld /\ Clean
             \/ ref = "cand" /\ (CachedCandidate \/ CachedOld) /\ Clean
  IN /\ obs' = head
     /\ \/ /\ head = "branch" /\ fit /\ NoFault
           /\ onto(IF ref = "old" THEN "guardCas"
                   ELSE IF CachedCandidate THEN "sync" ELSE "guardTree")
        \/ ((~(head = "branch" /\ fit) /\ NoFault) \/ Fault) /\ BlockPromotion("observe")
     /\ UNCHANGED <<git, wave, session, proc, raced>>

\* update-ref branch candidate expected_old; a swap that fails goes on only if
\* the branch is at the candidate all the same.
PromoteRef ==
  /\ \/ /\ ref \in {"old", "cand"} /\ Goto("cas", "journalRef") /\ ref' = "cand"
        /\ NoFault /\ UNCHANGED <<journal, claim, acquired>>
     \/ /\ (ref = "ext" /\ NoFault) \/ Fault
        /\ BlockPromotion("cas") /\ UNCHANGED ref
  /\ UNCHANGED <<head, index, work, stray, wave, session, proc, obs, raced>>

JournalRefUpdated ==
  /\ Goto("journalRef", "guardTree") /\ journal' = "ref-updated"
  /\ NoFault /\ UNCHANGED <<git, wave, claim, session, proc, acquired, obs, raced>>

\* read-tree writes through ignored files and keeps every other one.
ReadTree ==
  /\ \/ /\ ~ReadTreeRefuses /\ NoFault
        /\ Goto("readTree", "observeDone")
        /\ index' = Merged(index) /\ work' = Merged(work)
        /\ stray' = stray \ {"ignored"}
        /\ UNCHANGED <<journal, claim, acquired>>
     \/ /\ (ReadTreeRefuses /\ NoFault) \/ Fault
        /\ BlockPromotion("readTree") /\ UNCHANGED <<index, work, stray>>
  /\ UNCHANGED <<ref, head, wave, session, proc, obs, raced>>

\* The observation a `synced` journal rests on.
ObserveDone ==
  LET fit == ref = "cand" /\ CachedCandidate /\ Clean
  IN /\ obs' = head
     /\ \/ fit /\ Goto("observeDone", "sync") /\ NoFault
           /\ UNCHANGED <<journal, claim, acquired>>
        \/ ((~fit /\ NoFault) \/ Fault) /\ BlockPromotion("observeDone")
     /\ UNCHANGED <<git, wave, session, proc, raced>>

JournalSynced ==
  /\ Goto("sync", "release") /\ journal' = "synced"
  /\ NoFault /\ UNCHANGED <<git, wave, claim, session, proc, acquired, obs, raced>>

\* Fault seeded for IntegratedSettled: only who acquired the claim returns it.
ReleaseAcquired ==
  /\ \/ /\ Goto("release", "promoted") /\ NoFault
        /\ claim' = IF Mine /\ acquired THEN None ELSE claim
        /\ UNCHANGED <<journal, acquired>>
     \/ Fault /\ Throw("release")
  /\ UNCHANGED <<git, wave, session, proc, obs, raced>>

\* releaseConfirmed: the claim goes back if it is exactly ours.
Release ==
  /\ \/ /\ Goto("release", "promoted") /\ NoFault
        /\ claim' = IF Mine THEN None ELSE claim
        /\ UNCHANGED <<journal, acquired>>
     \/ Fault /\ Throw("release")
  /\ UNCHANGED <<git, wave, session, proc, obs, raced>>

\* The barrier writes the outcome into the wave record.
Settle ==
  /\ \/ Goto("promoted", "done") /\ wave' = "integrated"
     \/ Goto("blockWave", "done") /\ wave' = "blocked"
  /\ NoFault /\ UNCHANGED <<git, journal, claim, session, proc, acquired, obs, raced>>

Coordinate ==
  /\ \/ PromoteWave \/ FirstReserve \/ ObserveFirst \/ JournalIntent
     \/ RecoverPromotion
     \/ Guard("guard", "observe") \/ Observe
     \/ Guard("guardCas", "cas") \/ PromoteRef \/ JournalRefUpdated
     \/ Guard("guardTree", "readTree") \/ ReadTree \/ ObserveDone
     \/ JournalSynced \/ Release \/ Settle
  /\ UNCHANGED edits

\* The process dies; the kernel and git keep what it did.
Crash ==
  /\ pc \notin {"down", "done"} /\ proc < MaxSessions
  /\ pc' = "down"
  /\ UNCHANGED <<git, record, claim, proc, acquired, obs, raced, edits, faults>>

\* Fault seeded for CrashesAreSurvived: the claims stay with the dead process.
RebindNothing ==
  /\ Goto("down", "adopt")
  /\ proc' = proc + 1 /\ acquired' = FALSE
  /\ UNCHANGED <<git, record, claim, obs, raced, edits, faults>>

\* recover: a new process rebinds the claims of the package, then writes itself
\* into the record and drives the wave to promoteWave again.
Rebind ==
  /\ Goto("down", "adopt")
  /\ proc' = proc + 1
  /\ claim' = IF claim \in 1..MaxSessions THEN proc' ELSE claim
  /\ acquired' = FALSE
  /\ UNCHANGED <<git, record, obs, raced, edits, faults>>

\* Fault seeded for TypeOK: the record names a session after the adopting one.
AdoptSuccessor ==
  /\ Goto("adopt", "promoteWave")
  /\ session' = proc + 1
  /\ UNCHANGED <<git, journal, wave, claim, proc, acquired, obs, raced, edits, faults>>

Adopt ==
  /\ Goto("adopt", "promoteWave")
  /\ session' = proc
  /\ UNCHANGED <<git, journal, wave, claim, proc, acquired, obs, raced, edits, faults>>

-------------------------------------------------------------------------------
(* The developer and the other packages. *)

TreeAt(branch) == IF branch = "branch" /\ ref = "cand" THEN CandTree ELSE OldTree
HeadTree == TreeAt(head)

\* Commits on the branch keep their index; the model does not switch after one.
Edit(p) == work' = [work EXCEPT ![p] = "mine"] /\ UNCHANGED <<ref, head, index, stray>>
Stage(p) == index' = [index EXCEPT ![p] = work[p]] /\ UNCHANGED <<ref, head, work, stray>>
Drop(f) == stray' = stray \cup {f} /\ UNCHANGED <<ref, head, index, work>>
Commit == /\ head = "branch" /\ index # HeadTree /\ ref' = "ext"
          /\ UNCHANGED <<head, index, work, stray>>
Switch == /\ ref # "ext" /\ index = HeadTree /\ work = HeadTree
          /\ head' = IF head = "branch" THEN "other" ELSE "branch"
          /\ index' = TreeAt(head') /\ work' = TreeAt(head')
          /\ UNCHANGED <<ref, stray>>
Discard == /\ ref # "ext" /\ index' = HeadTree /\ work' = HeadTree /\ stray' = {}
           /\ UNCHANGED <<ref, head>>

Developer ==
  /\ edits < MaxEdits /\ edits' = edits + 1
  /\ raced' = TRUE
  /\ \/ \E p \in Paths : Edit(p) \/ Stage(p)
     \/ \E f \in {"untracked", "ignored"} : Drop(f)
     \/ Commit \/ Switch \/ Discard
  /\ UNCHANGED <<record, claim, proc, pc, acquired, obs, faults>>

\* Another package reserves the checkout, or gives it back.
OtherPackage ==
  /\ \/ claim = None /\ claim' = Other
     \/ claim = Other /\ claim' = None
  /\ UNCHANGED <<git, record, proc, pc, acquired, obs, raced, edits, faults>>

Next == Coordinate \/ Crash \/ Rebind \/ Adopt \/ Developer \/ OtherPackage

Spec == Init /\ [][Next]_vars

\* A coordinator that is up goes on, and a dead one is replaced.
FairSpec == Spec /\ WF_vars(Coordinate) /\ WF_vars(Rebind) /\ WF_vars(Adopt)

-------------------------------------------------------------------------------
Contents == {"old", "new", "mine"}
Points == {"promoteWave", "reserve", "observeFirst", "intent", "recoverPromotion",
           "guard", "observe", "guardCas", "cas", "journalRef", "guardTree",
           "readTree", "observeDone", "sync", "release", "promoted", "blockWave",
           "done", "down", "adopt"}

TypeOK ==
  /\ ref \in {"old", "cand", "ext"} /\ head \in {"branch", "other"}
  /\ index \in [Paths -> Contents] /\ work \in [Paths -> Contents]
  /\ stray \subseteq {"untracked", "ignored"}
  /\ journal \in {None, "intent", "ref-updated", "synced", "blocked"}
  /\ wave \in {"promoting", "integrated", "blocked"}
  /\ claim \in {None, Other} \cup 1..MaxSessions
  /\ session \in 1..MaxSessions /\ proc \in 1..MaxSessions
  /\ pc \in Points /\ acquired \in BOOLEAN
  /\ obs \in {"branch", "other"} /\ raced \in BOOLEAN
  /\ edits \in 0..MaxEdits /\ faults \in 0..MaxFaults

\* While the branch and the files are being moved the checkout claim is bound to
\* the session of the wave record, across crashes and adoptions: no other
\* package promotes on the checkout at the same time.
MovedUnderClaim ==
  pc \in {"intent", "guard", "observe", "guardCas", "cas", "journalRef",
          "guardTree", "readTree", "observeDone", "sync"} => Mine

\* The branch stands at the candidate only when the journal can tell a
\* replacement so: the intent is durable before the swap.
IntentBeforeSwap == ref = "cand" => journal # None

\* A wave that reads integrated was journaled as synced, and gave the canonical
\* checkout back.
IntegratedSettled ==
  wave = "integrated" => journal = "synced" /\ claim \in {None, Other}

\* No step of the coordinator destroys what the developer staged, edited or
\* committed: a foreign branch value stays, and so does every foreign content.
NoForeignLoss ==
  [][Coordinate =>
       /\ ref = "ext" => ref' = "ext"
       /\ head' = head
       /\ \A p \in Paths : /\ index[p] = "mine" => index'[p] = "mine"
                           /\ work[p] = "mine" => work'[p] = "mine"
       /\ "untracked" \in stray => "untracked" \in stray']_vars

\* An ignored file is overwritten only when it appeared after the collision
\* check that precedes the read-tree; the check leaves no wider window.
IgnoredOnlyRaced ==
  [][Coordinate /\ "ignored" \in stray /\ "ignored" \notin stray' => raced]_vars

\* What was journaled as synced stays synced.
SyncedStays == [][journal = "synced" => journal' = "synced"]_vars

\* Whatever crashes, the promotion ends: published or blocked.
PromotionEnds == <>(wave # "promoting")

\* With nobody else on the checkout and no failing command, crashes at whatever
\* boundary leave nothing a replacement could not finish.
Undisturbed == edits = 0 /\ faults = 0 /\ claim # Other
CrashesAreSurvived == []Undisturbed => <>(wave = "integrated")

\* An external change blocks rather than being written over: the observation a
\* synced promotion rests on saw HEAD on the promoted branch.
SyncedOnBranch == pc = "sync" => obs = "branch"
===============================================================================
