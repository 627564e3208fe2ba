------------------------------ MODULE Assignments ------------------------------
(***************************************************************************)
(* The assignment launcher (scripts/workspaces/assignments.mjs with        *)
(* reconcile.mjs, session-control.mjs and tmux.mjs).  One durable record   *)
(* per assignment reserves its execution directory and its spec package    *)
(* from before the agent is started until the agent is known to be gone.   *)
(* A root lease orders the launchers' reads and writes of the records, but *)
(* the tmux session is created outside it, by a client that can be killed, *)
(* outlive its launcher or be answered late, and the agent and its         *)
(* terminal go at moments nobody chooses.                                  *)
(***************************************************************************)
EXTENDS Naturals

CONSTANTS
  Ids,         \* assignment ids: each stands for one fixed contract
  Hosts,       \* processes that launch and end (a restart is a new process)
  Clash,       \* the pairs with the same directory or the same spec package
  Supersedes,  \* the assignment a launch-retry replaces, or None
  MaxCrashes,  \* bound: restarts of each host
  None

ASSUME ClashAssumption ==
  /\ Clash \subseteq Ids \X Ids
  /\ \A p \in Clash : <<p[2], p[1]>> \in Clash
ASSUME SupersedesAssumption ==
  /\ Supersedes \in [Ids -> Ids \cup {None}]
  /\ \A a \in Ids : Supersedes[a] # a
  /\ None \notin Ids
ASSUME BoundAssumption == MaxCrashes \in [Hosts -> Nat]
ASSUME NoneAssumption == None \notin Hosts \X Nat

VARIABLES
  state,     \* the record's state; "none" while it has no record
  launcher,  \* launcher_identity: the process that reserved it
  known,     \* the record holds the agent's pid and start time
  pane,      \* the record holds the terminal's pane id
  done,      \* the record holds launch_completed_at
  agent,     \* the agent process: none yet, alive or dead
  term,      \* the tmux session exists
  client,    \* a tmux client nobody waits for may still create the session
  call,      \* what each host is doing
  inc,       \* how often each host was restarted
  lease      \* the process that holds the root lease

vars == <<state, launcher, known, pane, done, agent, term, client, call, inc, lease>>
recorded == <<state, launcher, known, pane, done>>
running == <<agent, term, client>>

Exclusion == {"launching", "live", "launch_unknown"}
TerminalStates == {"ended", "launch_failed"}
Processes == Hosts \X Nat
Idle == [pc |-> "idle", id |-> None]
Calls == {Idle} \cup [pc : {"scanned", "starting", "spawned", "failed", "ending"}, id : Ids]

Init ==
  /\ state = [a \in Ids |-> "none"] /\ launcher = [a \in Ids |-> None]
  /\ known = [a \in Ids |-> FALSE] /\ pane = [a \in Ids |-> FALSE]
  /\ done = [a \in Ids |-> FALSE]
  /\ agent = [a \in Ids |-> "none"] /\ term = [a \in Ids |-> FALSE]
  /\ client = [a \in Ids |-> FALSE]
  /\ call = [h \in Hosts |-> Idle] /\ inc = [h \in Hosts |-> 0] /\ lease = None

Me(h) == <<h, inc[h]>>
Alive(p) == inc[p[1]] = p[2]

\* Fault seeded for OneAgent: a lease that is not had in time is taken for had.
FreeAnyway == TRUE

\* claimOwner takes the lease when nobody holds it or its holder is dead.
Free == lease # None => ~ Alive(lease)

\* What observeAssignment can see of an assignment.  A look that fails is
\* "unknown".  The default process listing is never complete, so it proves
\* nothing absent; one that names the assignment keeps it from being gone,
\* which is what an unknown process does too.  Without a saved identity only
\* a present terminal leads to a process.
Looks(a) ==
  {o \in [launcher : {"unknown", IF Alive(launcher[a]) THEN "alive" ELSE "dead"},
          terminal : {"unknown", IF term[a] THEN "present" ELSE "absent"},
          pi : {"unknown", agent[a]}] :
     o.pi # "unknown" => known[a] \/ o.terminal = "present"}

Evidence(o) == o.terminal = "present" /\ o.pi = "alive"

\* Fault seeded for Covered: a process that was never recorded counts as gone.
PiUnseen(a, o) == o.pi # "alive"

\* Only a recorded process can be known to be gone.
PiAbsent(a, o) == known[a] /\ o.pi = "dead"

\* Fault seeded for GivenBack: a launch is not over while the process that made it lives.
FinishedByLauncher(a) == state[a] \in TerminalStates

\* A launch that completed no longer depends on the process that made it.
Finished(a) == state[a] \in TerminalStates \cup {"live"} \/ done[a]

Gone(a, o) ==
  /\ o.launcher = "dead" \/ Finished(a)
  /\ o.terminal = "absent" /\ PiAbsent(a, o)

Classified(a, o) ==
  IF state[a] \in TerminalStates THEN state[a]
  ELSE IF Evidence(o) THEN "live"
  ELSE IF Gone(a, o) THEN IF state[a] = "live" THEN "ended" ELSE "launch_failed"
  ELSE IF state[a] = "launching" /\ o.launcher # "alive" THEN "launch_unknown"
  ELSE state[a]

(***************************************************************************)
(* Launch.  The first half scans the records and reserves, under the       *)
(* lease; the second starts the session without it.                        *)
(***************************************************************************)

\* The record this launch may replace: it has no successor yet, and it is
\* seen to be gone.
Replaceable(s, o) ==
  /\ Gone(s, o)
  /\ \A b \in Ids : Supersedes[b] = s => state[b] = "none"

Reserving(b) == state[b] \in Exclusion

Unreserved(a) ==
  \A b \in Ids \ {a, Supersedes[a]} : <<a, b>> \in Clash => ~ Reserving(b)

Replaced(a) ==
  /\ Supersedes[a] # None
  /\ state[Supersedes[a]] # "none"
  /\ \E o \in Looks(Supersedes[a]) :
       /\ Replaceable(Supersedes[a], o)
       /\ state' = [state EXCEPT ![Supersedes[a]] = Classified(Supersedes[a], o)]

\* The scan of a launch that goes on; what it saw of the replaced record is
\* saved at once.
Scan(h, a) ==
  /\ call[h] = Idle /\ Free /\ state[a] = "none" /\ Unreserved(a)
  /\ \/ Supersedes[a] = None /\ UNCHANGED state
     \/ Replaced(a)
  /\ lease' = Me(h)
  /\ call' = [call EXCEPT ![h] = [pc |-> "scanned", id |-> a]]
  /\ UNCHANGED <<launcher, known, pane, done, running, inc>>

\* A launch-retry that is refused after the replaced record was saved, by
\* another reservation, an active run or a worker.
ScanRefused(h, a) ==
  /\ call[h] = Idle /\ Free /\ state[a] = "none" /\ Replaced(a)
  /\ lease' = None
  /\ UNCHANGED <<launcher, known, pane, done, running, call, inc>>

\* Fault seeded for TypeOK: the reservation does not name its launcher.
PublishedAnonymous(h, a, s) == state' = [state EXCEPT ![a] = s] /\ UNCHANGED launcher

\* publishLaunchReservation creates the record; when the snapshot or the
\* session directory fails, the reservation stays and nothing is started.
Published(h, a, s) ==
  /\ state' = [state EXCEPT ![a] = s] /\ launcher' = [launcher EXCEPT ![a] = Me(h)]

Publish(h) ==
  /\ call[h].pc = "scanned"
  /\ \/ /\ Published(h, call[h].id, "launching")
        /\ call' = [call EXCEPT ![h] = [pc |-> "starting", id |-> call[h].id]]
     \/ /\ \E s \in {"launching", "launch_unknown"} : Published(h, call[h].id, s)
        /\ call' = [call EXCEPT ![h] = Idle]
     \/ call' = [call EXCEPT ![h] = Idle] /\ UNCHANGED <<state, launcher>>
  /\ lease' = None
  /\ UNCHANGED <<known, pane, done, running, inc>>

Created(a) == agent' = [agent EXCEPT ![a] = "alive"] /\ term' = [term EXCEPT ![a] = TRUE]

\* startSession created the session; the checks that follow may still fail.
Spawn(h) ==
  LET a == call[h].id IN
  /\ call[h].pc = "starting" /\ Created(a)
  /\ \E pc \in {"spawned", "failed"} : call' = [call EXCEPT ![h] = [pc |-> pc, id |-> a]]
  /\ UNCHANGED <<recorded, client, inc, lease>>

\* The client failed or was killed after its timeout; the server may still
\* carry its command out.
SpawnFails(h) ==
  LET a == call[h].id IN
  /\ call[h].pc = "starting"
  /\ call' = [call EXCEPT ![h] = [pc |-> "failed", id |-> a]]
  /\ client' \in {client, [client EXCEPT ![a] = TRUE]}
  /\ UNCHANGED <<recorded, agent, term, inc, lease>>

\* The late update: the record is read again under the lease, and must still
\* belong to this launch.
Own(h, a) == state[a] # "none" /\ launcher[a] = Me(h)

LateStarted(h) ==
  LET a == call[h].id IN
  /\ call[h].pc = "spawned" /\ Free /\ Own(h, a)
  /\ state' = [state EXCEPT ![a] = "live"]
  /\ known' = [known EXCEPT ![a] = TRUE] /\ pane' = [pane EXCEPT ![a] = TRUE]
  /\ done' = [done EXCEPT ![a] = TRUE]
  /\ call' = [call EXCEPT ![h] = Idle] /\ lease' = None
  /\ UNCHANGED <<launcher, running, inc>>

LateFailed(h) ==
  LET a == call[h].id IN
  /\ call[h].pc = "failed" /\ Free /\ Own(h, a)
  /\ \E o \in Looks(a) :
       /\ state' = [state EXCEPT ![a] = IF Classified(a, o) = "launching" THEN "launch_unknown"
                                        ELSE Classified(a, o)]
       /\ known' = [known EXCEPT ![a] = @ \/ Evidence(o)]
  /\ call' = [call EXCEPT ![h] = Idle] /\ lease' = None
  /\ UNCHANGED <<launcher, pane, done, running, inc>>

\* The lease is not had within its deadline, or the write fails.
LateLost(h) ==
  /\ call[h].pc \in {"spawned", "failed"}
  /\ call' = [call EXCEPT ![h] = Idle]
  /\ UNCHANGED <<recorded, running, inc, lease>>

(***************************************************************************)
(* Locate (also the first half of attach) and end.                         *)
(***************************************************************************)

\* A missing pane id is taken from a terminal that shows the agent's pid.
Locate(a, o) ==
  /\ Free
  /\ state' = [state EXCEPT ![a] = Classified(a, o)]
  /\ known' = [known EXCEPT ![a] = @ \/ Evidence(o)]
  /\ \/ pane' = [pane EXCEPT ![a] = @ \/ (term[a] /\ o.pi = "alive")]
     \/ UNCHANGED pane
  /\ lease' = None
  /\ UNCHANGED <<launcher, done, running, call, inc>>

\* The operator confirmed exactly this record; tmux checks the pane and the
\* process again as it closes the session.  Any other end is refused.
End(h, a) ==
  /\ call[h] = Idle /\ Free /\ state[a] \in Exclusion
  /\ term[a] /\ known[a] /\ pane[a] /\ agent[a] = "alive"
  /\ term' = [term EXCEPT ![a] = FALSE]
  /\ lease' = Me(h)
  /\ call' = [call EXCEPT ![h] = [pc |-> "ending", id |-> a]]
  /\ UNCHANGED <<recorded, agent, client, inc>>

\* A closed terminal is not yet a process that is gone.
EndDone(h) ==
  LET a == call[h].id IN
  /\ call[h].pc = "ending" /\ agent[a] = "dead"
  /\ state' = [state EXCEPT ![a] = "ended"]
  /\ call' = [call EXCEPT ![h] = Idle] /\ lease' = None
  /\ UNCHANGED <<launcher, known, pane, done, running, inc>>

EndGivesUp(h) ==
  /\ call[h].pc = "ending"
  /\ call' = [call EXCEPT ![h] = Idle] /\ lease' = None
  /\ UNCHANGED <<recorded, running, inc>>

(***************************************************************************)
(* What happens around the launcher.                                       *)
(***************************************************************************)

StartsLate(a) ==
  /\ client[a] /\ Created(a) /\ client' = [client EXCEPT ![a] = FALSE]
  /\ UNCHANGED <<recorded, call, inc, lease>>

NeverStarts(a) ==
  /\ client[a] /\ client' = [client EXCEPT ![a] = FALSE]
  /\ UNCHANGED <<recorded, agent, term, call, inc, lease>>

Dies(a) ==
  /\ agent[a] = "alive" /\ agent' = [agent EXCEPT ![a] = "dead"]
  /\ UNCHANGED <<recorded, term, client, call, inc, lease>>

\* tmux closes the session of a process that is gone; a person may close it
\* before.
Closes(a) ==
  /\ term[a] /\ term' = [term EXCEPT ![a] = FALSE]
  /\ UNCHANGED <<recorded, agent, client, call, inc, lease>>

\* The tmux client of a host that dies may outlive it.  A lease the host held
\* stays with the dead process.
Crash(h) ==
  /\ inc[h] < MaxCrashes[h]
  /\ inc' = [inc EXCEPT ![h] = @ + 1]
  /\ call' = [call EXCEPT ![h] = Idle]
  /\ \/ call[h].pc = "starting" /\ client' = [client EXCEPT ![call[h].id] = TRUE]
     \/ UNCHANGED client
  /\ UNCHANGED <<recorded, agent, term, lease>>

\* A call that was begun goes on.
Advance(h) ==
  \/ Publish(h) \/ Spawn(h) \/ SpawnFails(h)
  \/ LateStarted(h) \/ LateFailed(h) \/ LateLost(h)
  \/ EndDone(h) \/ EndGivesUp(h)

Next ==
  \/ \E h \in Hosts, a \in Ids : Scan(h, a) \/ ScanRefused(h, a) \/ End(h, a)
  \/ \E h \in Hosts : Advance(h) \/ Crash(h)
  \/ \E a \in Ids :
       \/ StartsLate(a) \/ NeverStarts(a) \/ Dies(a) \/ Closes(a)
       \/ state[a] # "none" /\ \E o \in Looks(a) : Locate(a, o)

Spec == Init /\ [][Next]_vars

\* A look at an assignment in which every probe answers.
Clear(a, o) ==
  /\ o.launcher # "unknown" /\ o.terminal # "unknown"
  /\ known[a] => o.pi # "unknown"

\* Every call of a host ends, tmux notices a process that is gone, and the
\* operator looks at an assignment again until a look is clear.
FairSpec ==
  /\ Spec
  /\ \A h \in Hosts : WF_vars(Advance(h))
  /\ \A a \in Ids : /\ WF_vars(agent[a] = "dead" /\ Closes(a))
                    /\ SF_vars(state[a] # "none" /\ \E o \in Looks(a) : Clear(a, o) /\ Locate(a, o))

(***************************************************************************)
(* Properties                                                              *)
(***************************************************************************)

\* Every variable has its type, and a record is there exactly when a process
\* reserved it (the exclusive create carries the launcher's identity).
TypeOK ==
  /\ state \in [Ids -> Exclusion \cup TerminalStates \cup {"none"}]
  /\ launcher \in [Ids -> Processes \cup {None}]
  /\ known \in [Ids -> BOOLEAN] /\ pane \in [Ids -> BOOLEAN] /\ done \in [Ids -> BOOLEAN]
  /\ agent \in [Ids -> {"none", "alive", "dead"}]
  /\ term \in [Ids -> BOOLEAN] /\ client \in [Ids -> BOOLEAN]
  /\ call \in [Hosts -> Calls] /\ inc \in [Hosts -> Nat] /\ lease \in Processes \cup {None}
  /\ \A a \in Ids : state[a] = "none" <=> launcher[a] = None

\* An agent runs, or a start that nobody can call back is still under way.
Possible(a) ==
  agent[a] = "alive" \/ client[a] \/ \E h \in Hosts : call[h] = [pc |-> "starting", id |-> a]

\* An agent that runs or may still start is covered by a record that reserves
\* its directory: no interrupted launch, late session or unconfirmed end gives
\* the reservation back too early.
Covered == \A a \in Ids : Possible(a) => state[a] \in Exclusion

\* One directory and one spec package have at most one agent, counting the
\* ones that may still start, whatever the launchers, retries and restarts do.
OneAgent ==
  \A a, b \in Ids : a # b /\ <<a, b>> \in Clash => ~ (Possible(a) /\ Possible(b))

\* An assignment is relaunched once: two records never supersede the same one.
OneSuccessor ==
  \A a, b \in Ids :
    a # b /\ Supersedes[a] = Supersedes[b] /\ Supersedes[a] # None =>
      state[a] = "none" \/ state[b] = "none"

\* The reservation of an agent that was recorded and is gone is given back,
\* though the process that launched it may live on.
GivenBack ==
  \A a \in Ids : (known[a] /\ agent[a] = "dead") ~> (state[a] \in TerminalStates)
===============================================================================
