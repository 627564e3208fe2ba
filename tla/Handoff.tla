-------------------------------- MODULE Handoff --------------------------------
(***************************************************************************)
(* How one wave member passes its workspace from run to run                *)
(* (pi/extensions/spec-runtime: waves-events, waves-recovery, runtime,     *)
(* wave-lifecycle).  Each phase is a run under a contained service.  When  *)
(* the service has drained, the run gives its capacity slot and checkout   *)
(* claim back, writing each return into the drain receipt, and the wave    *)
(* controller, one task at a time, remounts the workspace for the next     *)
(* phase.  The deadline timer cancels on its own, and the process can die  *)
(* anywhere: a replacement resumes the member from the durable records.    *)
(***************************************************************************)
EXTENDS Integers, Sequences, FiniteSetsExt

CONSTANTS
  None,        \* no run, no claim, no reason
  Backend,     \* "overlay" or "worktree", of the retained workspace
  MaxRuns,     \* bound: no new stage is chosen at this many runs
  MaxCrashes,  \* bound: coordinator deaths
  MaxFaults    \* bound: refused, failed or unanswered external calls

ASSUME HandoffAssumption ==
  /\ Backend \in {"overlay", "worktree"}
  /\ MaxRuns \in Nat /\ MaxCrashes \in Nat /\ MaxFaults \in Nat
  /\ None \notin Nat

VARIABLES
  member,    \* the member's entry of the wave record
  run,       \* the run records, with drain receipt and service, oldest first
  checkout,  \* the registry's claim on the member's workspace, or None
  capacity,  \* the registry's capacity claims of this member
  minted,    \* tokens drawn so far
  ctl,       \* the task of the controller's queue that is being executed
  drainer,   \* the drainContainedService calls in progress
  inbox,     \* run summaries queued behind the controller
  handles,   \* what this process holds of a run: its stream, its timer
  expired,   \* the wave deadline has passed
  crashes, faults

registry == <<checkout, capacity, minted>>
process == <<ctl, drainer, inbox, handles>>
bounds == <<expired, crashes, faults>>
vars == <<member, run, checkout, capacity, minted, ctl, drainer, inbox, handles,
          expired, crashes, faults>>

Stages == {"reviewing", "fixing", "confirming"}
Phases == {"implementing"} \cup Stages
Drainers == {"finish", "cancel", "recover"}
Over == {"completed", "failed", "cancelled"}

\* None is none of the values it stands beside.
ASSUME NoneAssumption ==
  /\ None \notin Phases \cup {"pass", "fix", "liveness", "other", "launch", "resume"}
  /\ None \notin [token : Nat, phase : Phases \cup {"provisioning"}]

NoTask == [pc |-> "idle", task |-> None, stage |-> None, from |-> 0, token |-> 0]
NoDrain == [pc |-> "idle", run |-> 0, released |-> {}]

Fault == faults < MaxFaults /\ faults' = faults + 1
NoFault == UNCHANGED faults

-------------------------------------------------------------------------------
\* Admission has prepared the workspace, reserved the implementing slot and
\* written the implementing intent.
Init ==
  /\ member = [phase |-> "implementing", reason |-> None, run |-> None,
               impl |-> None, claim |-> 1]
  /\ run = <<>>
  /\ checkout = [token |-> 1, phase |-> "provisioning"]
  /\ capacity = {[token |-> 2, phase |-> "implementing"]} /\ minted = 2
  /\ ctl = [NoTask EXCEPT !.pc = "saveRun", !.task = "launch"]
  /\ drainer = [d \in Drainers |-> NoDrain]
  /\ inbox = <<>> /\ handles = {}
  /\ expired = FALSE /\ crashes = 0 /\ faults = 0

\* writeEffect: the summary a finished task came from is not handled again.
Settled(rs) ==
  IF ctl.from = 0 THEN rs ELSE [rs EXCEPT ![ctl.from].settled = TRUE]
Handled(from) == IF from = 0 THEN run ELSE [run EXCEPT ![from].settled = TRUE]

Block(rs, reason) ==
  /\ member' = [member EXCEPT !.phase = "blocked", !.reason = reason]
  /\ run' = Settled(rs) /\ ctl' = NoTask

\* setQueued: the summary stays unsettled, the member waits for a release.
Queue == /\ member' = [member EXCEPT !.phase = "queued"]
         /\ ctl' = NoTask /\ UNCHANGED run

Goto(to) == ctl' = [ctl EXCEPT !.pc = to]

-------------------------------------------------------------------------------
(* The review progression: which stage the recorded rounds call for.       *)

Claimed(token) == checkout # None /\ checkout.token = token

\* The run the review state is read from: the latest stage, or before any stage
\* the recorded implementation.
Latest == LET stages == {r \in 1..Len(run) : run[r].phase \in Stages}
          IN IF stages = {} THEN member.impl ELSE Max(stages)

\* nextReviewAction: a stage without an accepted receipt is launched again, and
\* what an accepted one asks for is the next.
NextStage ==
  LET last == run[Latest]
  IN CASE last.result = None -> last.phase
       [] last.result = "fix" -> "fixing"
       [] last.result = "pass" /\ last.phase = "implementing" -> "reviewing"
       [] last.result = "pass" /\ last.phase = "fixing" -> "confirming"
       [] OTHER -> None

\* driveReview: launch the next stage, seal, wait for capacity to gate or to scan,
\* or block; a claim of the latest run that is still held stops it first.
DriveReview(from) ==
  LET drained == ~Claimed(run[Latest].checkout)
      scans == NextStage = None \/ run[Latest].phase = "fixing"
      ends(phase, reason) ==
        /\ member' = [member EXCEPT !.phase = phase, !.reason = reason]
        /\ run' = Handled(from) /\ NoFault /\ UNCHANGED ctl
  IN \/ /\ drained /\ NextStage \in Stages /\ Len(run) < MaxRuns
        /\ ctl' = [NoTask EXCEPT !.pc = "intent", !.task = "launch",
                                 !.stage = NextStage, !.from = from]
        /\ NoFault /\ UNCHANGED <<member, run>>
     \/ drained /\ NextStage = None /\ ends("sealed", None)
     \/ /\ drained /\ run[Latest].result # None /\ scans /\ Fault
        /\ member' = [member EXCEPT !.phase = "queued"] /\ UNCHANGED <<run, ctl>>
     \/ ends("blocked", "other")
     \/ ~drained /\ NoFault /\ UNCHANGED <<member, run, ctl>>

\* handle: only the summary of the run the member is bound to, in the phase that
\* run was bound to, moves the member; anything else is inert.
Handle ==
  LET r == Head(inbox).run
      state == Head(inbox).state
      mine == /\ member.run \in {None, r} /\ member.phase = run[r].phase
              /\ ~run[r].settled
      lost == \/ state \in {"blocked", "cancelled"}
              \/ state = "failed" /\ run[r].phase = "implementing"
  IN /\ ctl.pc = "idle" /\ inbox # <<>>
     /\ inbox' = Tail(inbox)
     /\ \/ ~mine /\ NoFault /\ UNCHANGED <<member, run, ctl>>
        \/ /\ mine /\ lost
           /\ member' = [member EXCEPT !.phase = "blocked", !.reason = "other"]
           /\ run' = [run EXCEPT ![r].settled = TRUE] /\ NoFault /\ UNCHANGED ctl
        \/ mine /\ ~lost /\ DriveReview(r)
     /\ UNCHANGED <<registry, drainer, handles>>

\* retryQueued: a member that waits past its implementation is driven again.
RetryQueued ==
  /\ ctl.pc = "idle" /\ member.phase = "queued" /\ member.impl # None
  /\ DriveReview(0)
  /\ UNCHANGED <<registry, drainer, inbox, handles>>

-------------------------------------------------------------------------------
(* Launching a run: intent, remount, capacity, record, binding, service.   *)

Intent ==
  /\ ctl.pc = "intent"
  /\ \/ Fault /\ Queue                       \* an inbox direction is pending
     \/ expired /\ NoFault /\ Block(run, "other")
     \/ /\ ~expired /\ NoFault /\ Goto("remount") /\ UNCHANGED run
        /\ member' = [member EXCEPT !.phase = ctl.stage, !.reason = None]
  /\ UNCHANGED <<registry, drainer, inbox, handles>>

\* A remount needs the confirmed drain of the bound run, and its receipt must
\* name the claim the member retained.
Remountable ==
  /\ member.run # None
  /\ run[member.run].drained /\ member.claim \in run[member.run].receipt
  /\ ~Claimed(member.claim)

\* replayMatches: the overlay backend takes its own earlier reservation back.
Replays == Backend = "overlay" /\ checkout.phase = member.phase

\* Fault seeded for ImplementsLease: a drained workspace is free to claim.
FreeDrained == Remountable

Free == Remountable /\ checkout = None

\* remountWaveMember up to the reservation.
Remount ==
  LET claimed(token) == ctl' = [ctl EXCEPT !.pc = "persist", !.token = token]
      replay == Remountable /\ checkout # None /\ Replays
      mounted == Claimed(member.claim) /\ member.run = None
  IN /\ ctl.pc = "remount"
     /\ \/ mounted /\ NoFault /\ Goto("reserve") /\ UNCHANGED <<member, run, registry>>
        \/ /\ Free /\ NoFault /\ claimed(minted + 1)
           /\ checkout' = [token |-> minted + 1, phase |-> member.phase]
           /\ minted' = minted + 1 /\ UNCHANGED <<member, run, capacity>>
        \/ replay /\ NoFault /\ claimed(checkout.token) /\ UNCHANGED <<member, run, registry>>
        \/ /\ (~(mounted \/ Free \/ replay) /\ NoFault) \/ Fault
           /\ Block(run, "other") /\ UNCHANGED registry
     /\ UNCHANGED <<drainer, inbox, handles>>

\* remount-wave-member: the new claim replaces the old one in one write.
Persist ==
  /\ ctl.pc = "persist" /\ Goto("reserve")
  /\ member' = [member EXCEPT !.claim = ctl.token, !.run = None]
  /\ NoFault /\ UNCHANGED <<run, registry, drainer, inbox, handles>>

Slot == {k \in capacity : k.phase = member.phase}

\* Fault seeded for TypeOK: the slot is asked for the stage that was chosen, which
\* a resumed phase did not choose.
ReserveForStage ==
  /\ ctl.pc = "reserve" /\ NoFault /\ Goto("saveRun")
  /\ capacity' = capacity \cup {[token |-> minted + 1, phase |-> ctl.stage]}
  /\ minted' = minted + 1
  /\ UNCHANGED <<member, run, checkout, drainer, inbox, handles>>

\* reserveCapacity by the controller: the slot is replayed, granted or refused.
Reserve ==
  /\ ctl.pc = "reserve"
  /\ \/ Slot # {} /\ NoFault /\ Goto("saveRun") /\ UNCHANGED <<member, run, registry>>
     \/ /\ Slot = {} /\ NoFault /\ Goto("saveRun")
        /\ capacity' = capacity \cup {[token |-> minted + 1, phase |-> member.phase]}
        /\ minted' = minted + 1 /\ UNCHANGED <<member, run, checkout>>
     \/ /\ Slot = {} /\ Fault /\ UNCHANGED registry
        /\ IF ctl.task = "launch" THEN Queue ELSE Block(run, "other")
  /\ UNCHANGED <<drainer, inbox, handles>>

\* start: the run record is on disk before anything is bound to it.
SaveRun ==
  /\ ctl.pc = "saveRun" /\ Goto("bind")
  /\ run' = Append(run, [phase |-> member.phase, state |-> "running",
                          checkout |-> member.claim, capacity |-> 0,
                          service |-> "none", result |-> None,
                          drained |-> FALSE, receipt |-> {}, settled |-> FALSE])
  /\ NoFault /\ UNCHANGED <<member, registry, drainer, inbox, handles>>

\* Fault seeded for NoMemberDropped: only the run is blocked.
RefuseRun(r) == /\ run' = [run EXCEPT ![r].state = "blocked"]
                /\ ctl' = NoTask /\ UNCHANGED member

\* The run of a launch that failed stays blocked with all its claims.
Refuse(r) == Block([run EXCEPT ![r].state = "blocked"], "other")

\* bind-wave-member: the run must find the member free, and as it left it.
Bind ==
  LET r == Len(run)
      fit == /\ member.run = None /\ member.phase = run[r].phase
             /\ member.claim = run[r].checkout
  IN /\ ctl.pc = "bind"
     /\ IF fit THEN \/ /\ member' = [member EXCEPT !.run = r]
                       /\ NoFault /\ Goto("serve") /\ UNCHANGED run
                    \/ Fault /\ Refuse(r)
               ELSE NoFault /\ Refuse(r)
     /\ UNCHANGED <<registry, drainer, inbox, handles>>

\* assertWaveLease, when the service registers.
Leased(r) ==
  /\ member.run = r /\ member.phase = run[r].phase
  /\ Claimed(run[r].checkout)
  /\ Slot # {}

\* containedRoot, containedStage: the service starts under the lease.
Serve ==
  LET r == Len(run)
      slot == CHOOSE k \in Slot : TRUE
  IN /\ ctl.pc = "serve"
     /\ \/ /\ Leased(r) /\ ~expired /\ NoFault
           /\ run' = [run EXCEPT ![r].service = "live", ![r].capacity = slot.token]
           /\ handles' = handles \cup {<<r, "stream">>, <<r, "timer">>}
           /\ Goto("outcome") /\ UNCHANGED member
        \/ /\ ((~Leased(r) \/ expired) /\ NoFault) \/ Fault
           /\ Refuse(r) /\ UNCHANGED handles
     /\ UNCHANGED <<registry, drainer, inbox>>

\* The outcome patch: an implementation run is recorded as such.
Outcome ==
  /\ ctl.pc = "outcome" /\ ctl' = NoTask
  /\ member' = IF member.phase = "implementing"
               THEN [member EXCEPT !.impl = Len(run)] ELSE member
  /\ run' = Settled(run)
  /\ NoFault /\ UNCHANGED <<registry, drainer, inbox, handles>>

-------------------------------------------------------------------------------
(* The drain of a run's service, and what it gives back.                   *)

\* What the worker delivered: an implementation its completion, a stage a receipt
\* that passes the work on or asks for a fix.
Results(phase) == {None, "pass"} \cup (IF phase = "implementing" THEN {} ELSE {"fix"})

WorkerEnds ==
  /\ \E r \in 1..Len(run) :
       \/ /\ run[r].service = "live"
          /\ \E after \in {"populated", "empty"}, result \in Results(run[r].phase) :
               run' = [run EXCEPT ![r].service = after, ![r].result = result]
       \/ /\ run[r].service = "populated"
          /\ run' = [run EXCEPT ![r].service = "empty"]
  /\ UNCHANGED <<member, registry, process, bounds>>

\* Fault seeded for RunningKeepsSlot: the claims go back before the drain.
DrainsLater(d, r) ==
  drainer' = [drainer EXCEPT ![d] = [pc |-> "capacity", run |-> r, released |-> {}]]

\* drainContainedService begins.
Drains(d, r) ==
  drainer' = [drainer EXCEPT ![d] = [pc |-> "drain", run |-> r, released |-> {}]]

\* finish, when the stream of the worker ends; a cancelling run is left alone.
Finish ==
  /\ \E r \in 1..Len(run) :
       /\ <<r, "stream">> \in handles /\ run[r].service # "live"
       /\ handles' = handles \ {<<r, "stream">>}
       /\ IF run[r].state \in Over \cup {"cancelling"} THEN UNCHANGED drainer
                                                      ELSE Drains("finish", r)
  /\ NoFault /\ UNCHANGED <<member, run, registry, ctl, inbox>>

\* Fault seeded for MemberSettles: the deadline is told, and nothing cancelled.
DeadlineTold ==
  /\ expired
  /\ \E r \in 1..Len(run) :
       <<r, "timer">> \in handles /\ handles' = handles \ {<<r, "timer">>}
  /\ NoFault /\ UNCHANGED <<member, run, registry, ctl, drainer, inbox>>

\* The deadline timer of start calls cancel.
Deadline ==
  /\ expired
  /\ \E r \in 1..Len(run) :
       /\ <<r, "timer">> \in handles /\ handles' = handles \ {<<r, "timer">>}
       /\ run' = [run EXCEPT ![r].state = "cancelling"]
       /\ Drains("cancel", r)
  /\ NoFault /\ UNCHANGED <<member, registry, ctl, inbox>>

\* Fault seeded for ReceiptTruthful: a release that throws is swallowed.
FailSwallowed(d, thrown) ==
  /\ drainer' = [drainer EXCEPT ![d].pc =
                   IF thrown THEN IF @ = "capacity" THEN "capacityBack" ELSE "checkoutBack"
                             ELSE @]
  /\ UNCHANGED <<member, run, ctl, inbox>>

\* finish and cancelRun block the run and tell; recovery blocks the member when
\* the drain is not confirmed, and is abandoned when a release throws.
Fail(d, thrown) ==
  LET r == drainer[d].run
  IN /\ drainer' = [drainer EXCEPT ![d] = NoDrain]
     /\ IF d = "recover"
        THEN /\ IF thrown THEN ctl' = NoTask /\ UNCHANGED <<member, run>>
                          ELSE Block(run, "other")
             /\ UNCHANGED inbox
        ELSE /\ run' = [run EXCEPT ![r].state = "blocked"]
             /\ inbox' = Append(inbox, [run |-> r, state |-> "blocked"])
             /\ UNCHANGED <<member, ctl>>

\* Fault seeded for WriterIsBound: any answer of the adapter confirms.
ConfirmsAnswered(d) == TRUE

\* finish only drains, which confirms an empty service; the others stop it first.
Confirms(d) == d = "finish" => run[drainer[d].run].service = "empty"

\* Fault seeded for SealedQuiet: the list starts with the capacity claim.
PriorOfRun(r) == run[r].receipt \cup {run[r].capacity}

\* What an earlier receipt of the run lists is not released again.
Prior(r) == run[r].receipt

\* A confirmed drain is durable before a claim can go back.
Drain(d) ==
  LET r == drainer[d].run
  IN /\ drainer[d].pc = "drain"
     /\ \/ /\ Confirms(d)
           /\ run' = [run EXCEPT ![r].drained = TRUE,
                                 ![r].service = IF d = "finish" THEN @ ELSE "empty"]
           /\ drainer' = [drainer EXCEPT ![d].pc = "capacity", ![d].released = Prior(r)]
           /\ NoFault /\ UNCHANGED <<member, ctl, inbox>>
        \/ /\ (~Confirms(d) /\ NoFault) \/ Fault
           /\ Fail(d, FALSE)
     /\ UNCHANGED <<registry, handles>>

\* release(kind, ...): releaseClaim denies a token the registry does not hold,
\* and its answer can get lost before or after the change.
Release(d) ==
  LET r == drainer[d].run
      kind == drainer[d].pc
      token == IF kind = "capacity" THEN run[r].capacity ELSE run[r].checkout
      held == token \in {k.token : k \in capacity} \/ Claimed(token)
      returned == /\ capacity' = {k \in capacity : k.token # token}
                  /\ checkout' = IF Claimed(token) THEN None ELSE checkout
  IN /\ kind \in {"capacity", "checkout"}
     /\ \/ /\ token \in drainer[d].released
           /\ drainer' = [drainer EXCEPT ![d].pc =
                            IF kind = "capacity" THEN "checkout" ELSE "done"]
           /\ NoFault /\ UNCHANGED <<member, run, checkout, capacity, ctl, inbox>>
        \/ /\ token \notin drainer[d].released /\ held /\ NoFault /\ returned
           /\ drainer' = [drainer EXCEPT ![d].pc =
                            IF kind = "capacity" THEN "capacityBack" ELSE "checkoutBack"]
           /\ UNCHANGED <<member, run, ctl, inbox>>
        \/ /\ token \notin drainer[d].released /\ ~held /\ NoFault
           /\ Fail(d, TRUE) /\ UNCHANGED <<checkout, capacity>>
        \/ /\ token \notin drainer[d].released /\ Fault /\ Fail(d, TRUE)
           /\ returned \/ UNCHANGED <<checkout, capacity>>
     /\ UNCHANGED <<minted, handles>>

\* The confirmed release joins this call's list, and the list is the receipt.
RecordRelease(d) ==
  LET r == drainer[d].run
      back == drainer[d].pc
      token == IF back = "capacityBack" THEN run[r].capacity ELSE run[r].checkout
      released == drainer[d].released \cup {token}
  IN /\ back \in {"capacityBack", "checkoutBack"}
     /\ drainer' = [drainer EXCEPT ![d].released = released,
                      ![d].pc = IF back = "capacityBack" THEN "checkout" ELSE "done"]
     /\ run' = [run EXCEPT ![r].receipt = released]
     /\ NoFault /\ UNCHANGED <<member, registry, ctl, inbox, handles>>

\* Restores the phase a resolved liveness block left, on the way to the remount.
Restore(p) == /\ Goto("remount")
              /\ member' = [member EXCEPT !.phase = p, !.reason = None]

\* What the caller does after a drain: end the run and tell, or go on resuming.
Drained(d) ==
  LET r == drainer[d].run
      ends(state) == /\ run' = [run EXCEPT ![r].state = state]
                     /\ inbox' = Append(inbox, [run |-> r, state |-> state])
                     /\ handles' = handles \ {<<r, "timer">>}
                     /\ UNCHANGED <<member, ctl>>
  IN /\ drainer[d].pc = "done"
     /\ drainer' = [drainer EXCEPT ![d] = NoDrain]
     /\ \/ d = "finish" /\ (ends("completed") \/ ends("failed"))
        \/ d = "cancel" /\ ends("cancelled")
        \/ d = "recover" /\ Restore(run[r].phase) /\ UNCHANGED <<run, inbox, handles>>
     /\ NoFault /\ UNCHANGED registry

-------------------------------------------------------------------------------
(* Death of the coordinator, and the resumption by its replacement.        *)

Crash ==
  /\ ctl.pc # "down" /\ crashes < MaxCrashes /\ crashes' = crashes + 1
  /\ ctl' = [NoTask EXCEPT !.pc = "down"]
  /\ drainer' = [d \in Drainers |-> NoDrain]
  /\ inbox' = <<>> /\ handles' = {}
  /\ UNCHANGED <<member, run, registry, expired, faults>>

\* recover: the claims are rebound, the record adopted, the member resumed.
Recover ==
  /\ ctl.pc = "down" /\ ~expired
  /\ ctl' = [NoTask EXCEPT !.pc = "resume", !.task = "resume"]
  /\ NoFault /\ UNCHANGED <<member, run, registry, drainer, inbox, handles>>

\* retryBlocked: members blocked on liveness are inspected again.
RetryBlocked ==
  /\ ctl.pc = "idle" /\ ~expired
  /\ member.phase = "blocked" /\ member.reason = "liveness"
  /\ ctl' = [NoTask EXCEPT !.pc = "resume", !.task = "resume"]
  /\ NoFault /\ UNCHANGED <<member, run, registry, drainer, inbox, handles>>

Retained == IF member.run # None THEN member.run ELSE member.impl

\* The phase resumeMember continues, None when it leaves the member alone.
Continued ==
  IF member.phase \in Phases THEN member.phase
  ELSE IF /\ member.phase = "blocked" /\ member.reason = "liveness"
          /\ Retained # None
          /\ run[Retained].phase = "implementing" \/ Retained = member.run
       THEN run[Retained].phase
  ELSE None

\* The run it continues: a stage the bound run, an implementation the recorded
\* implementation run if there is one.
ResumedRun ==
  IF Continued = "implementing" /\ member.impl # None THEN member.impl
  ELSE member.run

Resume ==
  LET p == Continued
      r == ResumedRun
      known == p # None /\ r # None
      valid == known /\ run[r].phase = p
  IN /\ ctl.pc = "resume"
     /\ \/ ~known /\ NoFault /\ ctl' = NoTask /\ UNCHANGED <<member, run, drainer>>
        \/ known /\ ~valid /\ NoFault /\ Block(run, "other") /\ UNCHANGED drainer
        \/ /\ valid /\ ((run[r].service = "none" /\ NoFault) \/ Fault)
           /\ Block(run, "liveness") /\ UNCHANGED drainer
        \/ /\ valid /\ run[r].service # "none" /\ ~run[r].drained /\ NoFault
           /\ Goto("draining") /\ UNCHANGED <<member, run>>
           /\ Drains("recover", r)
        \/ /\ valid /\ run[r].drained /\ NoFault
           /\ Restore(p) /\ UNCHANGED <<run, drainer>>
     /\ UNCHANGED <<registry, inbox, handles>>

-------------------------------------------------------------------------------
Expire == ~expired /\ expired' = TRUE
          /\ UNCHANGED <<member, run, registry, process, crashes, faults>>

\* The one task of the controller's queue.
Control == /\ \/ Handle \/ Intent \/ Remount \/ Persist \/ Reserve \/ SaveRun
              \/ Bind \/ Serve \/ Outcome \/ Resume
           /\ UNCHANGED <<expired, crashes>>

Wake == (RetryQueued \/ RetryBlocked \/ Recover) /\ UNCHANGED <<expired, crashes>>

Drainage(d) == (Drain(d) \/ Release(d) \/ RecordRelease(d) \/ Drained(d))
               /\ UNCHANGED <<expired, crashes>>

Callback == (Finish \/ Deadline) /\ UNCHANGED <<expired, crashes>>

Next == Control \/ Wake \/ (\E d \in Drainers : Drainage(d)) \/ Callback
        \/ WorkerEnds \/ Expire \/ Crash

Spec == Init /\ [][Next]_vars

\* The event loop runs what is ready, and time passes; workers may run forever.
FairSpec == /\ Spec /\ WF_vars(Control) /\ WF_vars(Callback) /\ WF_vars(Expire)
            /\ \A d \in Drainers : WF_vars(Drainage(d))

-------------------------------------------------------------------------------
Running(r) == run[r].service \in {"live", "populated"}

TypeOK ==
  /\ member.phase \in Phases \cup {"queued", "blocked", "sealed"}
  /\ member.reason \in {None, "liveness", "other"}
  /\ {member.run, member.impl} \subseteq {None} \cup 1..Len(run)
  /\ member.claim \in 1..minted
  /\ \A r \in 1..Len(run) :
       /\ run[r].phase \in Phases
       /\ run[r].state \in Over \cup {"running", "cancelling", "blocked"}
       /\ run[r].checkout \in 1..minted /\ run[r].capacity \in 0..minted
       /\ run[r].service \in {"none", "live", "populated", "empty"}
       /\ run[r].receipt \subseteq {run[r].checkout, run[r].capacity}
       /\ run[r].result \in Results(run[r].phase)
       /\ run[r].drained \in BOOLEAN /\ run[r].settled \in BOOLEAN
  /\ checkout # None => checkout.token \in 1..minted
  /\ \A k \in capacity : k.token \in 1..minted /\ k.phase \in Phases
  /\ \A k, l \in capacity : k.phase = l.phase => k = l

\* A service that runs in the workspace belongs to the run the member is bound
\* to: that is how a replacement coordinator finds it, and there is only one.
WriterIsBound == \A r \in 1..Len(run) : Running(r) => member.run = r

\* A running service keeps its capacity slot: no drain, cancellation or recovery
\* returns the slot of work that is still going on.
RunningKeepsSlot ==
  \A r \in 1..Len(run) : Running(r) =>
    \E k \in capacity : k.token = run[r].capacity

\* What a drain receipt lists did leave the registry, and only a run whose
\* service has drained has a receipt to list it in.
ReceiptTruthful ==
  \A r \in 1..Len(run) :
    /\ run[r].receipt # {} => run[r].drained /\ run[r].service = "empty"
    /\ \A k \in capacity : k.token \notin run[r].receipt
    /\ \A token \in run[r].receipt : ~Claimed(token)

\* A sealed member leaves nothing behind: no running service and no claim.
SealedQuiet ==
  member.phase = "sealed" =>
    /\ \A r \in 1..Len(run) : ~Running(r)
    /\ checkout = None /\ capacity = {}

\* Every workspace claim the member names was the workspace's lease: phases take
\* turns in it, and write only under it (see CheckoutLease).
Writer == LET w == {r \in 1..Len(run) : Running(r)}
          IN IF w = {} THEN None ELSE run[CHOOSE r \in w : TRUE].checkout
AbstractLease == INSTANCE CheckoutLease WITH
  Nobody <- None, writer <- Writer, spent <- minted,
  holder <- IF checkout = None THEN None ELSE checkout.token
ImplementsLease == AbstractLease!LeaseSpec

\* With nothing left to do for the controller, and no worker whose end it would
\* hear of, the member is sealed, or says why it is not.
Quiescent ==
  /\ ctl.pc = "idle" /\ inbox = <<>>
  /\ \A d \in Drainers : drainer[d].pc = "idle"
  /\ \A r \in 1..Len(run) : <<r, "stream">> \notin handles
NoMemberDropped == Quiescent => member.phase \in {"queued", "blocked", "sealed"}

\* However long a worker runs, the deadline ends its phase: the member comes to
\* rest, sealed, blocked or queued, as long as the coordinator lives.
MemberSettles == []<>(member.phase \in {"queued", "blocked", "sealed"})

\* No drain asks the registry for a claim that was already given back.
ReleasedOnce ==
  \A d \in Drainers :
    LET r == drainer[d].run
    IN /\ (drainer[d].pc = "capacity" /\ run[r].capacity \notin drainer[d].released)
            => \E k \in capacity : k.token = run[r].capacity
       /\ (drainer[d].pc = "checkout" /\ run[r].checkout \notin drainer[d].released)
            => Claimed(run[r].checkout)
===============================================================================
