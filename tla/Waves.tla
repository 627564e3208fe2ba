--------------------------------- MODULE Waves ---------------------------------
(***************************************************************************)
(* The wave controller (waves.mjs with waves-barrier.mjs, waves-next.mjs,  *)
(* waves-recovery.mjs, waves-repair.mjs and the retained candidate of      *)
(* waves-candidate-retained.mjs).  A package is implemented in waves, one  *)
(* after the other, under one package claim.  Each coordinator process     *)
(* runs its operations one at a time; between two of their steps another   *)
(* coordinator can act on the same records and the same claim, and the     *)
(* process can die.  A session file is open in one process at a time, so   *)
(* two live coordinators are of different sessions.                        *)
(***************************************************************************)
EXTENDS Naturals

CONSTANTS
  N,         \* the number of waves of the package
  Coords,    \* coordinator processes; each one starts at most once
  Session,   \* the session each one runs in
  MaxPauses, \* bound: refusals by the host, full capacity, repairs asked for
  None

ASSUME WavesAssumption == N \in Nat \ {0} /\ MaxPauses \in Nat
VARIABLES
  rec,    \* the record of each wave, or None
  head,   \* the last wave whose candidate is on the target branch
  claim,  \* the coordinator the package claim is bound to, or None
  live,   \* the processes that run
  used,   \* the processes that ran
  due,    \* the processes that have not served their first startup call
  at,     \* the operation each process is in, and its wave
  fresh,  \* the processes whose copy of that record is the current revision
  loaded, \* loadedWaves of each process
  pauses, \* how often something of MaxPauses happened
  stray,  \* history: the claim was rebound without the record it goes with
  borrowed, \* history: a wave was loaded by a process that does not own it
  refused   \* history: the waves whose live owner was refused their successor

processes == <<live, used, due>>
history == <<stray, borrowed, refused>>
vars == <<rec, head, claim, processes, at, fresh, loaded, pauses, history>>

Waves == 1..N
Stopped == {"integrated", "cancelled", "blocked"}
Record == [state : {"running", "integrating", "repairing"} \cup Stopped,
           members : {"working", "unsure", "stuck", "stopped", "sealed"},
           repair : {"none", "open", "accepted"},
           owner : Coords]
ASSUME NoneAssumption == None \notin Coords /\ None \notin Record

Points == {"write", "rebind", "adopt", "resume", "drive", "promote", "record",
           "reconcile", "release", "continue", "inherit", "drain"}
Idle == [pc |-> "idle", wave |-> None]

Init ==
  /\ rec = [w \in Waves |-> None] /\ head = 0 /\ claim = None
  /\ live = {} /\ used = {} /\ due = {}
  /\ at = [c \in Coords |-> Idle] /\ fresh = {}
  /\ loaded = [c \in Coords |-> {}]
  /\ pauses = 0 /\ stray = FALSE /\ borrowed = FALSE /\ refused = {}

--------------------------------------------------------------------------------
\* The parts of a step.

\* Between two operations; in the step p of one.
Free(c) == c \in live /\ at[c] = Idle
Stands(c, p) == c \in live /\ at[c].pc = p
Ends(c) == at' = [at EXCEPT ![c] = Idle]
Goes(c, p, w) == at' = [at EXCEPT ![c] = [pc |-> p, wave |-> w]]
Pauses == pauses < MaxPauses /\ pauses' = pauses + 1

Exists(w) == rec[w] # None
In(w, S) == Exists(w) /\ rec[w].state \in S
Dead(w) == rec[w].owner \notin live

\* updateWaveRecord: every write is a new revision.
Writes(w, r) ==
  /\ rec' = [rec EXCEPT ![w] = r]
  /\ fresh' = {d \in fresh : at[d].wave # w}

\* patchRecord compares the session of the record, not the process.
Mine(c, w) == Exists(w) /\ Session[rec[w].owner] = Session[c]

\* A guarded write and the step after it; a refused one throws, and so does
\* the attempt to block the wave for it.
Patches(c, w, r, p) ==
  IF Mine(c, w) THEN Writes(w, r) /\ Goes(c, p, w)
  ELSE UNCHANGED <<rec, fresh>> /\ Ends(c)
Blocks(c, w) ==
  /\ IF Mine(c, w) THEN Writes(w, [rec[w] EXCEPT !.state = "blocked"])
     ELSE UNCHANGED <<rec, fresh>>
  /\ Ends(c)

Loads(c, w) == loaded' = [loaded EXCEPT ![c] = @ \cup {w}]
NewRecord(c) == [state |-> "running", members |-> "working", repair |-> "none", owner |-> c]

--------------------------------------------------------------------------------
\* Processes.

Begin(c) ==
  /\ c \notin used /\ \A d \in live : Session[d] # Session[c]
  /\ live' = live \cup {c} /\ used' = used \cup {c} /\ due' = due \cup {c}
  /\ UNCHANGED <<rec, head, claim, at, fresh, loaded, pauses, history>>

Crash(c) ==
  /\ c \in live
  /\ live' = live \ {c} /\ due' = due \ {c} /\ Ends(c)
  /\ fresh' = fresh \ {c} /\ loaded' = [loaded EXCEPT ![c] = {}]
  /\ stray' = (stray \/ (at[c].pc = "adopt" /\ claim = c))
  /\ refused' = {w \in refused : rec[w].owner # c}
  /\ UNCHANGED <<rec, head, claim, used, pauses, borrowed>>

--------------------------------------------------------------------------------
\* Startup: which wave it takes up, and the first wave of a package.

Active == {w \in Waves : Exists(w) /\ rec[w].state \notin {"integrated", "cancelled"}}


\* resumeIntegratedPredecessor: integrated, with a successor, under a claim that
\* still names the record's session; ours, or of an owner that is dead.
Predecessors(c) ==
  {w \in Waves : /\ w < N /\ In(w, {"integrated"}) /\ claim # None
                 /\ Session[claim] = Session[rec[w].owner]
                 /\ Session[claim] = Session[c] \/ Dead(w)}

Found(c) ==
  IF Active # {} THEN Active
  ELSE {w \in Predecessors(c) : \A v \in Predecessors(c) : v <= w}

\* The startup call is served: the first one of a process, or a later one.
Serves(c) == due' = due \ {c} /\ UNCHANGED <<live, used>>

\* recover has located the record and seen its owner dead.
StartupRecovers(c) ==
  /\ Free(c)
  /\ \E w \in Waves : Found(c) = {w} /\ Dead(w) /\ Goes(c, "rebind", w)
  /\ fresh' = fresh \cup {c} /\ Serves(c)
  /\ UNCHANGED <<rec, head, claim, loaded, pauses, history>>

StartupContinues(c) ==
  /\ Free(c) /\ Active = {}
  /\ \E w \in Waves :
       /\ Found(c) = {w} /\ rec[w].owner = c
       /\ Loads(c, w) /\ Goes(c, "drive", w)
  /\ Serves(c)
  /\ UNCHANGED <<rec, head, claim, fresh, pauses, history>>

\* Steps that integrated have left their learnings: progress without a wave to
\* take up ends in needs_reconciliation.  acquirePackage refuses a held claim.
StartupOpens(c) ==
  /\ Free(c) /\ Found(c) = {} /\ head = 0 /\ claim = None
  /\ claim' = c /\ Goes(c, "write", 1) /\ Serves(c)
  /\ UNCHANGED <<rec, head, fresh, loaded, pauses, history>>

\* The wave it finds has a live owner, there is nothing that it may open, or the
\* host is not ready to.
StartupRefused(c) ==
  /\ Free(c) /\ c \in due
  /\ ~ \E w \in Waves : Found(c) = {w} /\ (Dead(w) \/ (Active = {} /\ rec[w].owner = c))
  /\ Serves(c)
  /\ UNCHANGED <<rec, head, claim, at, fresh, loaded, pauses, history>>

\* The record of a wave, written once; the claim was had before.
Open(c) ==
  /\ Stands(c, "write")
  /\ LET w == at[c].wave IN
       Writes(w, NewRecord(c)) /\ Loads(c, w) /\ refused' = refused \ {w - 1}
  /\ Ends(c)
  /\ UNCHANGED <<head, claim, processes, pauses, stray, borrowed>>

--------------------------------------------------------------------------------
\* Recovery of a wave whose owner is dead.

\* The control operation takes any wave by its id.
Recover(c) ==
  /\ Free(c) /\ Pauses
  /\ \E w \in Waves : Exists(w) /\ Dead(w) /\ Goes(c, "rebind", w)
  /\ fresh' = fresh \cup {c}
  /\ UNCHANGED <<rec, head, claim, processes, loaded, history>>

\* Every claim the package holds is rebound, whoever it is bound to and whichever
\* wave is the last.
Rebind(c) ==
  /\ Stands(c, "rebind")
  /\ claim' = IF claim = None THEN None ELSE c
  /\ stray' = (stray \/ claim \in live \ {c} \/ at[c].wave + 1 \in {w \in Waves : Exists(w)})
  /\ Goes(c, "adopt", at[c].wave)
  /\ UNCHANGED <<rec, head, processes, fresh, loaded, pauses, borrowed, refused>>

\* Fault seeded for NotStolen: the record is taken over at whatever revision it is.
AdoptAnyRevision(c) ==
  /\ Stands(c, "adopt")
  /\ LET w == at[c].wave IN
       /\ Writes(w, [rec[w] EXCEPT !.owner = c]) /\ Loads(c, w)
       /\ Goes(c, IF rec[w].state = "integrated" THEN "drive" ELSE "resume", w)
  /\ UNCHANGED <<head, claim, processes, pauses, history>>

\* The record is taken over only at the revision recover has read.
Adopt(c) ==
  /\ Stands(c, "adopt")
  /\ LET w == at[c].wave IN
       IF c \in fresh
       THEN /\ Writes(w, [rec[w] EXCEPT !.owner = c]) /\ Loads(c, w)
            /\ Goes(c, IF rec[w].state = "integrated" THEN "drive" ELSE "resume", w)
            /\ UNCHANGED stray
       ELSE /\ Ends(c) /\ fresh' = fresh \ {c}
            /\ stray' = (stray \/ claim = c)
            /\ UNCHANGED <<rec, loaded>>
  /\ UNCHANGED <<head, claim, processes, pauses, borrowed, refused>>

\* The retained runs are drained and replaced.  A member that cannot be is
\* blocked, for good or until its liveness is known; an open candidate repair
\* that can be puts the wave into "repairing", whatever its state was.
Resume(c) ==
  /\ Stands(c, "resume")
  /\ LET w == at[c].wave IN
       \E m \in {rec[w].members} \cup
                (IF rec[w].members = "working" THEN {"unsure", "stopped"} ELSE {}) :
       \E s \in {rec[w].state} \cup (IF rec[w].repair = "open" THEN {"repairing"} ELSE {}) :
         Patches(c, w, [rec[w] EXCEPT !.members = m, !.state = s], "drive")
  /\ UNCHANGED <<head, claim, processes, loaded, pauses, history>>

--------------------------------------------------------------------------------
\* What moves a wave: its members, a recheck, the coordinator.

\* memberEvents.handle and seal: a member that is blocked blocks its wave.
MemberMoves(c) ==
  /\ Free(c)
  /\ \E w \in loaded[c] :
       /\ Mine(c, w) /\ rec[w].members = "working"
       /\ \E m \in {"stuck", "stopped", "sealed"} :
            Writes(w, [rec[w] EXCEPT !.members = m,
                                     !.state = IF m = "sealed" THEN @ ELSE "blocked"])
       /\ Goes(c, "drive", w)
  /\ UNCHANGED <<head, claim, processes, loaded, pauses, history>>

\* retryBlocked: a member of unknown liveness is looked at again.
Recheck(c) ==
  /\ Free(c) /\ claim # None
  /\ \E w \in loaded[c] :
       /\ Mine(c, w) /\ rec[w].members = "unsure" /\ rec[w].state # "cancelled"
       /\ Writes(w, [rec[w] EXCEPT !.members = "working"])
       /\ Goes(c, "drive", w)
  /\ UNCHANGED <<head, claim, processes, loaded, pauses, history>>

\* advance with a repair of one member; the state of the wave is not asked for.
Advance(c) ==
  /\ Free(c) /\ Pauses
  /\ \E w \in Waves :
       /\ Mine(c, w) /\ (w \in loaded[c] \/ rec[w].owner = c)
       /\ rec[w].members = "stuck"
       /\ claim # None /\ Session[claim] = Session[c]
       /\ Writes(w, [rec[w] EXCEPT !.members = "working", !.state = "running"])
       /\ Loads(c, w) /\ Goes(c, "drive", w)
  /\ UNCHANGED <<head, claim, processes, history>>

\* A run is heard of, capacity is released or advance is called without a step:
\* every one drives the wave again, and an integrated wave on to its successor.
Notified(c) ==
  /\ Free(c)
  /\ \E w \in loaded[c] : Goes(c, "drive", w)
  /\ UNCHANGED <<rec, head, claim, processes, fresh, loaded, pauses, history>>

\* Fault seeded for InOrder: an integrated wave can still be cancelled.
CancelIntegrated(c) ==
  /\ Free(c) /\ Pauses
  /\ \E w \in Waves :
       /\ Mine(c, w) /\ rec[w].state # "cancelled"
       /\ Writes(w, [rec[w] EXCEPT !.state = "cancelled"])
       /\ Goes(c, "drain", w)
  /\ UNCHANGED <<head, claim, processes, loaded, history>>

\* cancel: the intent is written before the runs are told.  One step of the wave
\* may be meant, which blocks it.
Cancel(c) ==
  /\ Free(c) /\ Pauses
  /\ \E w \in Waves, whole \in BOOLEAN :
       /\ Mine(c, w) /\ rec[w].state \notin {"integrated", "cancelled"}
       /\ \E m \in (IF whole THEN {} ELSE {rec[w].members})
                   \cup (IF rec[w].members = "sealed" /\ whole THEN {"sealed"} ELSE {"stopped"}) :
            Writes(w, [rec[w] EXCEPT !.members = m,
                                     !.state = IF whole THEN "cancelled" ELSE "blocked"])
       /\ Goes(c, "drain", w)
  /\ UNCHANGED <<head, claim, processes, loaded, history>>

\* What was told to end is confirmed drained, or the wave is blocked.
Drained(c) ==
  /\ Stands(c, "drain")
  /\ \/ Ends(c) /\ UNCHANGED <<rec, fresh>>
     \/ Blocks(c, at[c].wave)
  /\ UNCHANGED <<head, claim, processes, loaded, pauses, history>>

--------------------------------------------------------------------------------
\* The barrier: members, candidate, promotion, settlement.

\* Its guards: an integrated wave goes on to its successor, a stopped one and
\* one without a claim end the drive.
DriveOn(c, p) ==
  LET w == at[c].wave IN
  /\ Stands(c, "drive")
  /\ \/ p = "continue" /\ In(w, {"integrated"})
     \/ p = "idle" /\ (In(w, {"cancelled", "blocked"}) \/ (~ In(w, Stopped) /\ (~ Mine(c, w) \/ claim = None)))
     \/ p = "work" /\ ~ In(w, Stopped) /\ Mine(c, w) /\ claim # None

DriveEnds(c) ==
  /\ DriveOn(c, "idle") /\ Ends(c)
  /\ UNCHANGED <<rec, head, claim, processes, fresh, loaded, pauses, history>>

DriveContinues(c) ==
  /\ DriveOn(c, "continue") /\ Goes(c, "continue", at[c].wave)
  /\ UNCHANGED <<rec, head, claim, processes, fresh, loaded, pauses, history>>

\* An open candidate repair owns the wave: accepted, blocked or still going.
DriveRepair(c) ==
  LET w == at[c].wave IN
  /\ DriveOn(c, "work") /\ rec[w].repair = "open"
  /\ \/ /\ Writes(w, [rec[w] EXCEPT !.repair = "accepted",
                       !.state = IF @ = "repairing" THEN "integrating" ELSE @])
        /\ Goes(c, "drive", w) /\ UNCHANGED pauses
     \/ Blocks(c, w) /\ UNCHANGED pauses
     \/ Ends(c) /\ Pauses /\ UNCHANGED <<rec, fresh>>
  /\ UNCHANGED <<head, claim, processes, loaded, history>>

\* A member that runs keeps the barrier shut, one that stopped blocks the wave.
DriveMembers(c) ==
  LET w == at[c].wave IN
  /\ DriveOn(c, "work") /\ rec[w].repair # "open"
  /\ \/ rec[w].members = "sealed"
        /\ Writes(w, [rec[w] EXCEPT !.state = "integrating"]) /\ Goes(c, "promote", w)
     \/ rec[w].members = "working" /\ Ends(c) /\ UNCHANGED <<rec, fresh>>
     \/ rec[w].members \in {"unsure", "stuck", "stopped"} /\ Blocks(c, w)
  /\ UNCHANGED <<head, claim, processes, loaded, pauses, history>>

\* The candidate is assembled, checked and promoted.  It may have to wait, be
\* refused, or need a repair; one repair is all a wave can begin.
Promote(c) ==
  LET w == at[c].wave IN
  /\ Stands(c, "promote")
  /\ \/ Mine(c, w) /\ head \in {w - 1, w} /\ head' = w /\ Goes(c, "record", w)
        /\ UNCHANGED <<rec, fresh, pauses>>
     \/ Ends(c) /\ Pauses /\ UNCHANGED <<rec, fresh, head>>
     \/ Blocks(c, w) /\ UNCHANGED <<head, pauses>>
     \/ /\ rec[w].repair = "none"
        /\ Patches(c, w, [rec[w] EXCEPT !.repair = "open", !.state = "repairing"], "drive")
        /\ UNCHANGED <<head, pauses>>
  /\ UNCHANGED <<claim, processes, loaded, history>>

RecordIntegrated(c) ==
  LET w == at[c].wave IN
  /\ Stands(c, "record")
  /\ Patches(c, w, [rec[w] EXCEPT !.state = "integrated"], "reconcile")
  /\ UNCHANGED <<head, claim, processes, loaded, pauses, history>>

\* reconcileCheckpoint may throw, which blocks the wave that is integrated.
Reconcile(c) ==
  LET w == at[c].wave IN
  /\ Stands(c, "reconcile")
  /\ \/ Goes(c, "release", w) /\ UNCHANGED <<rec, fresh>>
     \/ Blocks(c, w)
  /\ UNCHANGED <<head, claim, processes, loaded, pauses, history>>

\* Fault seeded for ClaimKept: the claim is given back after every wave.
ReleaseEach(c) ==
  LET w == at[c].wave IN
  /\ Stands(c, "release")
  /\ claim' = None /\ Goes(c, "continue", w) /\ UNCHANGED <<rec, fresh>>
  /\ UNCHANGED <<head, processes, loaded, pauses, history>>

\* The last wave gives the package claim back, and a failure to is ignored.
\* Then the result is announced, and a failure to announce blocks the wave.
Release(c) ==
  LET w == at[c].wave IN
  /\ Stands(c, "release")
  /\ claim' \in {claim} \cup (IF w = N THEN {None} ELSE {})
  /\ \/ Goes(c, "continue", w) /\ UNCHANGED <<rec, fresh>>
     \/ Blocks(c, w)
  /\ UNCHANGED <<head, processes, loaded, pauses, history>>

--------------------------------------------------------------------------------
\* The next wave.

\* What driveAndContinue asks for.  The record is read again.
MayContinue(c, w) == Mine(c, w) /\ In(w, {"integrated"}) /\ w < N /\ head = w

ContinueStops(c) ==
  LET w == at[c].wave IN
  /\ Stands(c, "continue")
  /\ ~ MayContinue(c, w)
  /\ Ends(c)
  /\ UNCHANGED <<rec, head, claim, processes, fresh, loaded, pauses, history>>

\* A full inbox, a host that is not ready or a shutdown that has begun.  Nothing
\* asks again by itself.
ContinueWaits(c) ==
  LET w == at[c].wave IN
  /\ Stands(c, "continue") /\ MayContinue(c, w) /\ ~ Exists(w + 1)
  /\ Ends(c) /\ Pauses
  /\ refused' = IF rec[w].owner = c THEN refused \cup {w} ELSE refused
  /\ UNCHANGED <<rec, head, claim, processes, fresh, loaded, stray, borrowed>>

\* A record that is there is loaded, not opened again.  Its session is compared,
\* not its process: a restart may load the wave of the process before it.
ContinueLoads(c) ==
  LET w == at[c].wave IN
  /\ Stands(c, "continue") /\ MayContinue(c, w) /\ Exists(w + 1)
  /\ IF Mine(c, w + 1)
     THEN Loads(c, w + 1) /\ borrowed' = (borrowed \/ rec[w + 1].owner # c)
     ELSE UNCHANGED <<loaded, borrowed>>
  /\ Ends(c)
  /\ UNCHANGED <<rec, head, claim, processes, fresh, pauses, stray, refused>>

\* Fault seeded for TypeOK: whether there is a next wave is not asked.
ContinueOpensPast(c) ==
  LET w == at[c].wave IN
  /\ Stands(c, "continue") /\ Mine(c, w) /\ In(w, {"integrated"}) /\ head = w
  /\ \A v \in Waves : v > w => ~ Exists(v)
  /\ Patches(c, w, rec[w], "inherit")
  /\ UNCHANGED <<head, claim, processes, loaded, pauses, history>>

ContinueOpens(c) ==
  LET w == at[c].wave IN
  /\ Stands(c, "continue") /\ MayContinue(c, w) /\ ~ Exists(w + 1)
  /\ Patches(c, w, rec[w], "inherit")
  /\ UNCHANGED <<head, claim, processes, loaded, pauses, history>>

\* reuseInheritedClaim: the claim must be bound to this very process.
Inherit(c) ==
  LET w == at[c].wave IN
  /\ Stands(c, "inherit")
  /\ IF claim = c /\ Mine(c, w) THEN Goes(c, "write", w + 1) ELSE Ends(c)
  /\ UNCHANGED <<rec, head, claim, processes, fresh, loaded, pauses, history>>

--------------------------------------------------------------------------------
\* What a coordinator does by itself, what it hears from its runs and what it is
\* asked for.
Works(c) ==
  \/ Open(c) \/ Rebind(c) \/ Adopt(c) \/ Resume(c)
  \/ DriveEnds(c) \/ DriveContinues(c) \/ DriveRepair(c) \/ DriveMembers(c)
  \/ Promote(c) \/ RecordIntegrated(c) \/ Reconcile(c) \/ Release(c)
  \/ ContinueStops(c) \/ ContinueWaits(c) \/ ContinueLoads(c) \/ ContinueOpens(c)
  \/ Inherit(c) \/ Drained(c)
Startup(c) ==
  StartupRecovers(c) \/ StartupContinues(c) \/ StartupOpens(c) \/ StartupRefused(c)
Asked(c) ==
  MemberMoves(c) \/ Recheck(c) \/ Notified(c) \/ Recover(c) \/ Advance(c) \/ Cancel(c)

Next == \E c \in Coords : Begin(c) \/ Crash(c) \/ Works(c) \/ Startup(c) \/ Asked(c)

Spec == Init /\ [][Next]_vars

\* What was begun is gone on with, and the session of a new process calls startup
\* once.  Nothing else is asked for in the end, and nobody has to come.
FairSpec ==
  /\ Spec
  /\ \A c \in Coords : WF_vars(Works(c)) /\ WF_vars(c \in due /\ Startup(c))

--------------------------------------------------------------------------------
\* The types of the variables.
TypeOK ==
  /\ rec \in [Waves -> Record \cup {None}]
  /\ head \in 0..N
  /\ claim \in Coords \cup {None}
  /\ live \subseteq used /\ used \subseteq Coords /\ due \subseteq live
  /\ at \in [Coords -> {Idle} \cup [pc : Points, wave : Waves]]
  /\ fresh \subseteq Coords
  /\ loaded \in [Coords -> SUBSET Waves]
  /\ pauses \in 0..MaxPauses /\ stray \in BOOLEAN /\ borrowed \in BOOLEAN /\ refused \subseteq Waves

\* A wave is opened only when every wave before it is integrated, so no two are
\* active, unless a process drives a wave that it does not own.
InOrder ==
  \A w \in Waves : Exists(w) =>
    \/ borrowed
    \/ \A v \in 1..(w - 1) : In(v, {"integrated"}) /\ head >= v

\* While waves are left to do, a package that was begun stays claimed: neither a
\* second coordinator nor a serial run can get in between two waves.
ClaimKept == (\E w \in Waves : Exists(w)) /\ head < N => claim # None

\* A wave is never taken from a coordinator that lives: of two that recover the
\* same dead owner at once, the second finds the record changed; of two that
\* continue the same wave, one has the claim.
NotStolen ==
  [][\A w \in Waves :
       Exists(w) /\ ~ Dead(w) => borrowed \/ (Exists(w)' /\ rec'[w].owner = rec[w].owner)]_vars

\* A wave that is integrated is followed by the next one, unless its owner dies or
\* is refused the continuation; and when the owner is dead, a process that comes
\* takes the wave over, unless it dies too.  The exception is a takeover of the
\* claim that was left half done.
Opened(w) == Exists(w + 1) \/ ~ In(w, {"integrated"}) \/ stray
================================================================================
