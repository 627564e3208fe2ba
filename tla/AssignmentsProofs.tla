--------------------------- MODULE AssignmentsProofs ---------------------------
(***************************************************************************)
(* The launcher's safety properties for any number of assignments, hosts   *)
(* and restarts, any clash relation and any chain of retries.              *)
(***************************************************************************)
EXTENDS Assignments, TLAPS

Steps == {"starting", "spawned", "failed", "ending"}

\* Only an assignment with a record is worked on, has an agent, or may get one.
Fresh ==
  /\ \A a \in Ids : state[a] = "none" => agent[a] = "none" /\ client[a] = FALSE
  /\ \A h \in Hosts : call[h].pc \in Steps => state[call[h].id] # "none"

\* A start under way is the only one of its assignment.
Once ==
  /\ \A a \in Ids : client[a] = TRUE => agent[a] = "none"
  /\ \A h \in Hosts : call[h].pc = "starting" =>
       agent[call[h].id] = "none" /\ client[call[h].id] = FALSE
  /\ \A h, g \in Hosts :
       call[h].pc = "starting" /\ call[g].pc = "starting" /\ call[h].id = call[g].id => h = g

\* A call that keeps the root lease for its next step still has it.
Leased == \A h \in Hosts : call[h].pc \in {"scanned", "ending"} => lease = Me(h)

\* What the scan of a launch found holds until it publishes its record.
Cleared ==
  \A h \in Hosts : call[h].pc = "scanned" =>
    /\ state[call[h].id] = "none"
    /\ \A b \in Ids : b # call[h].id /\ <<call[h].id, b>> \in Clash => ~ Possible(b)
    /\ \A b \in Ids :
         Supersedes[call[h].id] # None /\ Supersedes[b] = Supersedes[call[h].id] => state[b] = "none"

IInv ==
  TypeOK /\ Fresh /\ Once /\ Covered /\ OneAgent /\ OneSuccessor /\ Leased /\ Cleared

\* What an observation can prove: an assignment seen to be gone has a dead
\* agent, and a record that becomes terminal was terminal or is seen to be gone.
LEMMA LooksTruthful ==
  ASSUME TypeOK, NEW a \in Ids, NEW o \in Looks(a)
  PROVE  Gone(a, o) => agent[a] = "dead"
  BY DEF Looks, Gone, PiAbsent, TypeOK

\* A classified record is a record, and says what its assignment came to.
LEMMA ClassifiedType ==
  ASSUME TypeOK, NEW a \in Ids, NEW o \in Looks(a), state[a] # "none"
  PROVE  /\ Classified(a, o) \in Exclusion \cup TerminalStates
         /\ Classified(a, o) \in TerminalStates => state[a] \in TerminalStates \/ Gone(a, o)
  <1>. DEFINE c == Classified(a, o)
  <1>1. CASE state[a] \in TerminalStates
    <2>1. c = state[a] BY <1>1 DEF Classified
    <2>. QED BY <1>1, <2>1
  <1>2. CASE state[a] \notin TerminalStates
    <2>0. state[a] \in Exclusion BY <1>2 DEF TypeOK
    <2>1. CASE Evidence(o)
      <3>1. c = "live" BY <1>2, <2>1 DEF Classified
      <3>. QED BY <3>1 DEF Exclusion, TerminalStates
    <2>2. CASE ~ Evidence(o) /\ Gone(a, o)
      <3>1. c \in TerminalStates BY <1>2, <2>2 DEF Classified, TerminalStates
      <3>. QED BY <3>1, <2>2
    <2>3. CASE ~ Evidence(o) /\ ~ Gone(a, o)
      <3>1. c = "launch_unknown" \/ c = state[a] BY <1>2, <2>3 DEF Classified
      <3>. QED BY <3>1, <2>0 DEF Exclusion, TerminalStates
    <2>. QED BY <2>1, <2>2, <2>3
  <1>. QED BY <1>1, <1>2

\* Possible, with the calls written out.
Under(a) ==
  \/ agent[a] = "alive" \/ client[a] = TRUE
  \/ \E h \in Hosts : call[h].pc = "starting" /\ call[h].id = a

\* The two forms agree in a typed state.
LEMMA PossibleMeans ==
  ASSUME TypeOK, NEW a \in Ids
  PROVE  Possible(a) <=> Under(a)
  <1>1. \A h \in Hosts : (call[h] = [pc |-> "starting", id |-> a])
                           <=> (call[h].pc = "starting" /\ call[h].id = a)
    BY DEF TypeOK, Calls, Idle
  <1>2. client[a] <=> client[a] = TRUE
    BY DEF TypeOK
  <1>. QED BY <1>1, <1>2 DEF Possible, Under

\* The same after a step.
LEMMA PossibleThen ==
  ASSUME TypeOK', NEW a \in Ids
  PROVE  Possible(a)' <=> Under(a)'
  <1>1. \A h \in Hosts : (call'[h] = [pc |-> "starting", id |-> a])
                           <=> (call'[h].pc = "starting" /\ call'[h].id = a)
    BY DEF TypeOK, Calls, Idle
  <1>2. client'[a] <=> client'[a] = TRUE
    BY DEF TypeOK
  <1>. QED BY <1>1, <1>2 DEF Possible, Under

\* Nobody takes the lease from a call that keeps it.
LEMMA FreeMeans ==
  ASSUME IInv, Free
  PROVE  \A h \in Hosts : call[h].pc \notin {"scanned", "ending"}
  <1>. SUFFICES ASSUME NEW h \in Hosts, call[h].pc \in {"scanned", "ending"} PROVE FALSE
    OBVIOUS
  <1>1. lease = Me(h)
    BY DEF IInv, Leased
  <1>2. lease # None /\ Alive(lease)
    BY <1>1, NoneAssumption DEF IInv, TypeOK, Me, Alive
  <1>. QED BY <1>2 DEF Free

\* A dead agent has no other start under way.
LEMMA DeadMeans ==
  ASSUME IInv, NEW a \in Ids, agent[a] = "dead"
  PROVE  ~ Possible(a)
  BY PossibleMeans DEF IInv, Once, Under

\* Saving what a look at an assignment showed: the record stays a record, and
\* one that becomes terminal covers no agent.
LEMMA LookSaved ==
  ASSUME IInv, NEW a \in Ids, state[a] # "none", NEW o \in Looks(a)
  PROVE  /\ Classified(a, o) \in Exclusion \cup TerminalStates
         /\ Classified(a, o) \in TerminalStates => ~ Possible(a)
  <1>1. TypeOK /\ Covered
    BY DEF IInv
  <1>2. state[a] \in TerminalStates => ~ Possible(a)
    BY <1>1 DEF Covered, Exclusion, TerminalStates
  <1>3. Gone(a, o) => ~ Possible(a)
    <2>1. Gone(a, o) => agent[a] = "dead"
      BY <1>1, LooksTruthful
    <2>. QED BY <2>1, DeadMeans
  <1>. QED BY <1>1, <1>2, <1>3, ClassifiedType

\* A step that adds no record, start or claim to a scan disturbs none of the
\* exclusions.
LEMMA Quiet ==
  ASSUME IInv, TypeOK',
         \A a \in Ids : Possible(a)' => Possible(a),
         \A a \in Ids : state[a] = "none" => state'[a] = "none",
         \A h \in Hosts : call'[h].pc = "scanned" => call[h].pc = "scanned" /\ call'[h].id = call[h].id
  PROVE  OneAgent' /\ OneSuccessor' /\ Cleared'
  <1>0. \A h \in Hosts : call[h].pc = "scanned" => call[h].id \in Ids
    BY DEF IInv, TypeOK, Calls, Idle
  <1>1. OneAgent'
    BY DEF IInv, OneAgent
  <1>2. OneSuccessor'
    BY DEF IInv, OneSuccessor
  <1>3. Cleared'
    BY <1>0 DEF IInv, Cleared
  <1>. QED BY <1>1, <1>2, <1>3

\* The client of the multiplexer is started: the invariant holds on.
LEMMA SpawnStep ==
  ASSUME IInv, NEW h \in Hosts, Spawn(h)
  PROVE  IInv'
  <1>. USE DEF Spawn, Created, recorded, running, Me
  <1>0. TypeOK /\ Fresh /\ Once /\ Covered /\ Leased
    BY DEF IInv
  <1>a. call[h].pc \in Steps => call[h].id \in Ids
    BY <1>0 DEF TypeOK, Calls, Idle, Steps
  <1>1. TypeOK'
    BY <1>0, <1>a DEF TypeOK, Calls, Idle, Processes, Fresh, Steps, Exclusion, TerminalStates
  <1>2. Fresh'
    BY <1>0, <1>a DEF TypeOK, Calls, Idle, Fresh, Steps
  <1>3. Once'
    BY <1>0, <1>a DEF TypeOK, Calls, Idle, Once, Fresh, Steps
  <1>4. \A b \in Ids : Possible(b)' => Possible(b)
    <2>1. \A b \in Ids : Under(b)' => Under(b)
      BY <1>0, <1>a DEF TypeOK, Calls, Idle, Once, Steps, Under
    <2>. QED BY <1>0, <1>1, <2>1, PossibleMeans, PossibleThen
  <1>5. Covered'
    BY <1>0, <1>1, <1>4, <1>a DEF Covered, TypeOK, Steps
  <1>6. Leased'
    BY <1>0 DEF TypeOK, Calls, Idle, Leased
  <1>7. OneAgent' /\ OneSuccessor' /\ Cleared'
    <2>1. \A b \in Ids : state[b] = "none" => state'[b] = "none"
      BY <1>0, <1>a DEF TypeOK, Fresh, Steps
    <2>2. \A g \in Hosts : call'[g].pc = "scanned" => call[g].pc = "scanned" /\ call'[g].id = call[g].id
      BY <1>0 DEF TypeOK, Calls, Idle
    <2>. QED BY <1>1, <1>4, <2>1, <2>2, Quiet
  <1>. QED BY <1>1, <1>2, <1>3, <1>5, <1>6, <1>7 DEF IInv

\* The client fails or is slow: its agent may still come, and stays covered.
LEMMA SpawnFailsStep ==
  ASSUME IInv, NEW h \in Hosts, SpawnFails(h)
  PROVE  IInv'
  <1>. USE DEF SpawnFails, recorded, running, Me
  <1>0. TypeOK /\ Fresh /\ Once /\ Covered /\ Leased
    BY DEF IInv
  <1>a. call[h].pc \in Steps => call[h].id \in Ids
    BY <1>0 DEF TypeOK, Calls, Idle, Steps
  <1>1. TypeOK'
    BY <1>0, <1>a DEF TypeOK, Calls, Idle, Processes, Fresh, Steps, Exclusion, TerminalStates
  <1>2. Fresh'
    BY <1>0, <1>a DEF TypeOK, Calls, Idle, Fresh, Steps
  <1>3. Once'
    BY <1>0, <1>a DEF TypeOK, Calls, Idle, Once, Fresh, Steps
  <1>4. \A b \in Ids : Possible(b)' => Possible(b)
    <2>1. \A b \in Ids : Under(b)' => Under(b)
      BY <1>0, <1>a DEF TypeOK, Calls, Idle, Once, Steps, Under
    <2>. QED BY <1>0, <1>1, <2>1, PossibleMeans, PossibleThen
  <1>5. Covered'
    BY <1>0, <1>1, <1>4, <1>a DEF Covered, TypeOK, Steps
  <1>6. Leased'
    BY <1>0 DEF TypeOK, Calls, Idle, Leased
  <1>7. OneAgent' /\ OneSuccessor' /\ Cleared'
    <2>1. \A b \in Ids : state[b] = "none" => state'[b] = "none"
      BY <1>0, <1>a DEF TypeOK, Fresh, Steps
    <2>2. \A g \in Hosts : call'[g].pc = "scanned" => call[g].pc = "scanned" /\ call'[g].id = call[g].id
      BY <1>0 DEF TypeOK, Calls, Idle
    <2>. QED BY <1>1, <1>4, <2>1, <2>2, Quiet
  <1>. QED BY <1>1, <1>2, <1>3, <1>5, <1>6, <1>7 DEF IInv

\* The late answer says that it started: the record names the agent.
LEMMA LateStartedStep ==
  ASSUME IInv, NEW h \in Hosts, LateStarted(h)
  PROVE  IInv'
  <1>. USE DEF LateStarted, Own, recorded, running, Me
  <1>0. TypeOK /\ Fresh /\ Once /\ Covered /\ Leased
    BY DEF IInv
  <1>a. call[h].pc \in Steps => call[h].id \in Ids
    BY <1>0 DEF TypeOK, Calls, Idle, Steps
  <1>1. TypeOK'
    BY <1>0, <1>a DEF TypeOK, Calls, Idle, Processes, Fresh, Steps, Exclusion, TerminalStates
  <1>2. Fresh'
    BY <1>0, <1>a DEF TypeOK, Calls, Idle, Fresh, Steps
  <1>3. Once'
    BY <1>0, <1>a DEF TypeOK, Calls, Idle, Once, Fresh, Steps
  <1>4. \A b \in Ids : Possible(b)' => Possible(b)
    <2>1. \A b \in Ids : Under(b)' => Under(b)
      BY <1>0, <1>a DEF TypeOK, Calls, Idle, Once, Steps, Under
    <2>. QED BY <1>0, <1>1, <2>1, PossibleMeans, PossibleThen
  <1>5. Covered'
    BY <1>0, <1>1, <1>4, <1>a DEF Covered, TypeOK, Steps, Exclusion, TerminalStates
  <1>6. Leased'
    BY <1>0, IInv, FreeMeans DEF TypeOK, Calls, Idle, Leased
  <1>7. OneAgent' /\ OneSuccessor' /\ Cleared'
    <2>1. \A b \in Ids : state[b] = "none" => state'[b] = "none"
      BY <1>0, <1>a DEF TypeOK, Fresh, Steps
    <2>2. \A g \in Hosts : call'[g].pc = "scanned" => call[g].pc = "scanned" /\ call'[g].id = call[g].id
      BY <1>0 DEF TypeOK, Calls, Idle
    <2>. QED BY <1>1, <1>4, <2>1, <2>2, Quiet
  <1>. QED BY <1>1, <1>2, <1>3, <1>5, <1>6, <1>7 DEF IInv

\* The late answer says that it failed: what is given back has no agent.
LEMMA LateFailedStep ==
  ASSUME IInv, NEW h \in Hosts, LateFailed(h)
  PROVE  IInv'
  <1>. USE DEF LateFailed, Own, recorded, running, Me
  <1>0. TypeOK /\ Fresh /\ Once /\ Covered /\ Leased
    BY DEF IInv
  <1>a. call[h].pc \in Steps => call[h].id \in Ids
    BY <1>0 DEF TypeOK, Calls, Idle, Steps
  <1>p. PICK o \in Looks(call[h].id) :
          state' = [state EXCEPT ![call[h].id] =
                      IF Classified(call[h].id, o) = "launching" THEN "launch_unknown"
                      ELSE Classified(call[h].id, o)]
    OBVIOUS
  <1>b. /\ state'[call[h].id] \in Exclusion \cup TerminalStates
        /\ state'[call[h].id] \in TerminalStates => ~ Possible(call[h].id)
    <2>1. call[h].id \in Ids /\ state[call[h].id] # "none"
      BY <1>a DEF Steps
    <2>2. /\ Classified(call[h].id, o) \in Exclusion \cup TerminalStates
          /\ Classified(call[h].id, o) \in TerminalStates => ~ Possible(call[h].id)
      BY <2>1, LookSaved
    <2>3. state'[call[h].id] = Classified(call[h].id, o) \/ state'[call[h].id] = "launch_unknown"
      BY <1>0, <1>p, <2>1 DEF TypeOK
    <2>. QED BY <2>2, <2>3 DEF Exclusion, TerminalStates
  <1>c. \A b \in Ids : b # call[h].id => state'[b] = state[b]
    BY <1>0, <1>p DEF TypeOK
  <1>d. state' \in [Ids -> Exclusion \cup TerminalStates \cup {"none"}]
    BY <1>0, <1>b, <1>c, <1>p DEF TypeOK
  <1>1. TypeOK'
    <2>1. known' \in [Ids -> BOOLEAN]
      BY <1>0, <1>a DEF TypeOK
    <2>2. call' \in [Hosts -> Calls] /\ lease' \in Processes \cup {None}
      BY <1>0 DEF TypeOK, Calls
    <2>3. \A b \in Ids : state'[b] = "none" <=> launcher'[b] = None
      BY <1>0, <1>a, <1>b, <1>c DEF TypeOK, Steps, Exclusion, TerminalStates
    <2>. QED BY <1>0, <1>d, <2>1, <2>2, <2>3 DEF TypeOK
  <1>2. Fresh'
    BY <1>0, <1>a, <1>b, <1>c DEF TypeOK, Calls, Idle, Fresh, Steps, Exclusion, TerminalStates
  <1>3. Once'
    BY <1>0, <1>a DEF TypeOK, Calls, Idle, Once, Fresh, Steps
  <1>4. \A b \in Ids : Possible(b)' => Possible(b)
    <2>1. \A b \in Ids : Under(b)' => Under(b)
      BY <1>0, <1>a DEF TypeOK, Calls, Idle, Once, Steps, Under
    <2>. QED BY <1>0, <1>1, <2>1, PossibleMeans, PossibleThen
  <1>5. Covered'
    BY <1>0, <1>1, <1>4, <1>b, <1>c, <1>a DEF Covered, TypeOK, Steps
  <1>6. Leased'
    BY <1>0, IInv, FreeMeans DEF TypeOK, Calls, Idle, Leased
  <1>7. OneAgent' /\ OneSuccessor' /\ Cleared'
    <2>1. \A b \in Ids : state[b] = "none" => state'[b] = "none"
      BY <1>0, <1>a DEF TypeOK, Fresh, Steps
    <2>2. \A g \in Hosts : call'[g].pc = "scanned" => call[g].pc = "scanned" /\ call'[g].id = call[g].id
      BY <1>0 DEF TypeOK, Calls, Idle
    <2>. QED BY <1>1, <1>4, <2>1, <2>2, Quiet
  <1>. QED BY <1>1, <1>2, <1>3, <1>5, <1>6, <1>7 DEF IInv

\* The late answer never comes: the reservation stays.
LEMMA LateLostStep ==
  ASSUME IInv, NEW h \in Hosts, LateLost(h)
  PROVE  IInv'
  <1>. USE DEF LateLost, recorded, running, Me
  <1>0. TypeOK /\ Fresh /\ Once /\ Covered /\ Leased
    BY DEF IInv
  <1>a. call[h].pc \in Steps => call[h].id \in Ids
    BY <1>0 DEF TypeOK, Calls, Idle, Steps
  <1>1. TypeOK'
    BY <1>0, <1>a DEF TypeOK, Calls, Idle, Processes, Fresh, Steps, Exclusion, TerminalStates
  <1>2. Fresh'
    BY <1>0, <1>a DEF TypeOK, Calls, Idle, Fresh, Steps
  <1>3. Once'
    BY <1>0, <1>a DEF TypeOK, Calls, Idle, Once, Fresh, Steps
  <1>4. \A b \in Ids : Possible(b)' => Possible(b)
    <2>1. \A b \in Ids : Under(b)' => Under(b)
      BY <1>0, <1>a DEF TypeOK, Calls, Idle, Once, Steps, Under
    <2>. QED BY <1>0, <1>1, <2>1, PossibleMeans, PossibleThen
  <1>5. Covered'
    BY <1>0, <1>1, <1>4, <1>a DEF Covered, TypeOK, Steps
  <1>6. Leased'
    BY <1>0 DEF TypeOK, Calls, Idle, Leased
  <1>7. OneAgent' /\ OneSuccessor' /\ Cleared'
    <2>1. \A b \in Ids : state[b] = "none" => state'[b] = "none"
      BY <1>0, <1>a DEF TypeOK, Fresh, Steps
    <2>2. \A g \in Hosts : call'[g].pc = "scanned" => call[g].pc = "scanned" /\ call'[g].id = call[g].id
      BY <1>0 DEF TypeOK, Calls, Idle
    <2>. QED BY <1>1, <1>4, <2>1, <2>2, Quiet
  <1>. QED BY <1>1, <1>2, <1>3, <1>5, <1>6, <1>7 DEF IInv

\* An end that is confirmed: the agent is gone before the record says so.
LEMMA EndDoneStep ==
  ASSUME IInv, NEW h \in Hosts, EndDone(h)
  PROVE  IInv'
  <1>. USE DEF EndDone, recorded, running, Me
  <1>0. TypeOK /\ Fresh /\ Once /\ Covered /\ Leased
    BY DEF IInv
  <1>a. call[h].pc \in Steps => call[h].id \in Ids
    BY <1>0 DEF TypeOK, Calls, Idle, Steps
  <1>1. TypeOK'
    BY <1>0, <1>a DEF TypeOK, Calls, Idle, Processes, Fresh, Steps, Exclusion, TerminalStates
  <1>2. Fresh'
    BY <1>0, <1>a DEF TypeOK, Calls, Idle, Fresh, Steps
  <1>3. Once'
    BY <1>0, <1>a DEF TypeOK, Calls, Idle, Once, Fresh, Steps
  <1>4. \A b \in Ids : Possible(b)' => Possible(b)
    <2>1. \A b \in Ids : Under(b)' => Under(b)
      BY <1>0, <1>a DEF TypeOK, Calls, Idle, Once, Steps, Under
    <2>. QED BY <1>0, <1>1, <2>1, PossibleMeans, PossibleThen
  <1>5. Covered'
    <2>1. call[h].id \in Ids /\ ~ Possible(call[h].id)
      BY <1>a, DeadMeans DEF Steps
    <2>. QED BY <1>0, <1>4, <2>1 DEF Covered, TypeOK
  <1>6. Leased'
    BY <1>0 DEF TypeOK, Calls, Idle, Leased
  <1>7. OneAgent' /\ OneSuccessor' /\ Cleared'
    <2>1. \A b \in Ids : state[b] = "none" => state'[b] = "none"
      BY <1>0, <1>a DEF TypeOK, Fresh, Steps
    <2>2. \A g \in Hosts : call'[g].pc = "scanned" => call[g].pc = "scanned" /\ call'[g].id = call[g].id
      BY <1>0 DEF TypeOK, Calls, Idle
    <2>. QED BY <1>1, <1>4, <2>1, <2>2, Quiet
  <1>. QED BY <1>1, <1>2, <1>3, <1>5, <1>6, <1>7 DEF IInv

\* An end that is not confirmed leaves the record open.
LEMMA EndGivesUpStep ==
  ASSUME IInv, NEW h \in Hosts, EndGivesUp(h)
  PROVE  IInv'
  <1>. USE DEF EndGivesUp, recorded, running, Me
  <1>0. TypeOK /\ Fresh /\ Once /\ Covered /\ Leased
    BY DEF IInv
  <1>a. call[h].pc \in Steps => call[h].id \in Ids
    BY <1>0 DEF TypeOK, Calls, Idle, Steps
  <1>1. TypeOK'
    BY <1>0, <1>a DEF TypeOK, Calls, Idle, Processes, Fresh, Steps, Exclusion, TerminalStates
  <1>2. Fresh'
    BY <1>0, <1>a DEF TypeOK, Calls, Idle, Fresh, Steps
  <1>3. Once'
    BY <1>0, <1>a DEF TypeOK, Calls, Idle, Once, Fresh, Steps
  <1>4. \A b \in Ids : Possible(b)' => Possible(b)
    <2>1. \A b \in Ids : Under(b)' => Under(b)
      BY <1>0, <1>a DEF TypeOK, Calls, Idle, Once, Steps, Under
    <2>. QED BY <1>0, <1>1, <2>1, PossibleMeans, PossibleThen
  <1>5. Covered'
    BY <1>0, <1>1, <1>4, <1>a DEF Covered, TypeOK, Steps
  <1>6. Leased'
    BY <1>0 DEF TypeOK, Calls, Idle, Leased
  <1>7. OneAgent' /\ OneSuccessor' /\ Cleared'
    <2>1. \A b \in Ids : state[b] = "none" => state'[b] = "none"
      BY <1>0, <1>a DEF TypeOK, Fresh, Steps
    <2>2. \A g \in Hosts : call'[g].pc = "scanned" => call[g].pc = "scanned" /\ call'[g].id = call[g].id
      BY <1>0 DEF TypeOK, Calls, Idle
    <2>. QED BY <1>1, <1>4, <2>1, <2>2, Quiet
  <1>. QED BY <1>1, <1>2, <1>3, <1>5, <1>6, <1>7 DEF IInv

\* A host that dies leaves its reservation behind.
LEMMA CrashStep ==
  ASSUME IInv, NEW h \in Hosts, Crash(h)
  PROVE  IInv'
  <1>. USE DEF Crash, recorded, running, Me
  <1>0. TypeOK /\ Fresh /\ Once /\ Covered /\ Leased
    BY DEF IInv
  <1>a. call[h].pc \in Steps => call[h].id \in Ids
    BY <1>0 DEF TypeOK, Calls, Idle, Steps
  <1>1. TypeOK'
    <2>1. inc' \in [Hosts -> Nat] /\ call' \in [Hosts -> Calls]
      BY <1>0 DEF TypeOK, Calls
    <2>2. client' \in [Ids -> BOOLEAN]
      BY <1>0, <1>a DEF TypeOK, Steps
    <2>. QED BY <1>0, <2>1, <2>2 DEF TypeOK
  <1>2. Fresh'
    BY <1>0, <1>a DEF TypeOK, Calls, Idle, Fresh, Steps
  <1>3. Once'
    BY <1>0, <1>a DEF TypeOK, Calls, Idle, Once, Fresh, Steps
  <1>4. \A b \in Ids : Possible(b)' => Possible(b)
    <2>1. \A b \in Ids : Under(b)' => Under(b)
      BY <1>0, <1>a DEF TypeOK, Calls, Idle, Once, Steps, Under
    <2>. QED BY <1>0, <1>1, <2>1, PossibleMeans, PossibleThen
  <1>5. Covered'
    BY <1>0, <1>1, <1>4, <1>a DEF Covered, TypeOK, Steps
  <1>6. Leased'
    BY <1>0 DEF TypeOK, Calls, Idle, Leased
  <1>7. OneAgent' /\ OneSuccessor' /\ Cleared'
    <2>1. \A b \in Ids : state[b] = "none" => state'[b] = "none"
      BY <1>0, <1>a DEF TypeOK, Fresh, Steps
    <2>2. \A g \in Hosts : call'[g].pc = "scanned" => call[g].pc = "scanned" /\ call'[g].id = call[g].id
      BY <1>0 DEF TypeOK, Calls, Idle
    <2>. QED BY <1>1, <1>4, <2>1, <2>2, Quiet
  <1>. QED BY <1>1, <1>2, <1>3, <1>5, <1>6, <1>7 DEF IInv

\* An end that is asked for changes no record yet.
LEMMA EndStep ==
  ASSUME IInv, NEW h \in Hosts, NEW a \in Ids, End(h, a)
  PROVE  IInv'
  <1>. USE DEF End, recorded, running, Me
  <1>0. TypeOK /\ Fresh /\ Once /\ Covered /\ Leased
    BY DEF IInv
  <1>1. TypeOK'
    <2>1. call' \in [Hosts -> Calls] /\ lease' \in Processes \cup {None}
      BY <1>0 DEF TypeOK, Calls, Processes
    <2>. QED BY <1>0, <2>1 DEF TypeOK
  <1>2. Fresh'
    BY <1>0 DEF TypeOK, Calls, Idle, Fresh, Steps
  <1>3. Once'
    BY <1>0 DEF TypeOK, Calls, Idle, Once, Fresh, Steps
  <1>4. \A b \in Ids : Possible(b)' => Possible(b)
    <2>1. \A b \in Ids : Under(b)' => Under(b)
      BY <1>0 DEF TypeOK, Calls, Idle, Once, Steps, Under
    <2>. QED BY <1>0, <1>1, <2>1, PossibleMeans, PossibleThen
  <1>5. Covered'
    BY <1>0, <1>1, <1>4 DEF Covered, TypeOK, Steps
  <1>6. Leased'
    BY <1>0, IInv, FreeMeans DEF TypeOK, Calls, Idle, Leased
  <1>7. OneAgent' /\ OneSuccessor' /\ Cleared'
    <2>1. \A b \in Ids : state[b] = "none" => state'[b] = "none"
      BY <1>0 DEF TypeOK, Fresh, Steps
    <2>2. \A g \in Hosts : call'[g].pc = "scanned" => call[g].pc = "scanned" /\ call'[g].id = call[g].id
      BY <1>0 DEF TypeOK, Calls, Idle
    <2>. QED BY <1>1, <1>4, <2>1, <2>2, Quiet
  <1>. QED BY <1>1, <1>2, <1>3, <1>5, <1>6, <1>7 DEF IInv

\* What the scan of a launch-retry saves of the record it replaces.
LEMMA ReplacedSaved ==
  ASSUME IInv, NEW a \in Ids, Replaced(a)
  PROVE  /\ Supersedes[a] \in Ids /\ state[Supersedes[a]] # "none"
         /\ ~ Possible(Supersedes[a])
         /\ state' \in [Ids -> Exclusion \cup TerminalStates \cup {"none"}]
         /\ state'[Supersedes[a]] # "none"
         /\ \A b \in Ids : b # Supersedes[a] => state'[b] = state[b]
         /\ \A b \in Ids : Supersedes[b] = Supersedes[a] => state[b] = "none"
  <1>. DEFINE s == Supersedes[a]
  <1>1. s \in Ids /\ state[s] # "none"
    BY SupersedesAssumption DEF Replaced
  <1>2. PICK o \in Looks(s) :
          Replaceable(s, o) /\ state' = [state EXCEPT ![s] = Classified(s, o)]
    BY DEF Replaced
  <1>3. ~ Possible(s)
    <2>1. agent[s] = "dead"
      BY <1>1, <1>2, LooksTruthful DEF Replaceable, IInv
    <2>. QED BY <1>1, <2>1, DeadMeans
  <1>4. Classified(s, o) \in Exclusion \cup TerminalStates
    BY <1>1, LookSaved
  <1>5. \A b \in Ids : Supersedes[b] = s => state[b] = "none"
    BY <1>2 DEF Replaceable
  <1>. HIDE DEF s
  <1>6. TypeOK
    BY DEF IInv
  <1>7. /\ state' \in [Ids -> Exclusion \cup TerminalStates \cup {"none"}]
        /\ state'[s] # "none"
        /\ \A b \in Ids : b # s => state'[b] = state[b]
    BY <1>1, <1>2, <1>4, <1>6 DEF TypeOK, Exclusion, TerminalStates
  <1>. QED BY <1>1, <1>3, <1>5, <1>7 DEF s

\* A refused launch saves what it has looked at and no more.
LEMMA ScanRefusedStep ==
  ASSUME IInv, NEW h \in Hosts, NEW a \in Ids, ScanRefused(h, a)
  PROVE  IInv'
  <1>. USE DEF ScanRefused, recorded, running, Me
  <1>0. TypeOK /\ Fresh /\ Once /\ Covered /\ Leased
    BY DEF IInv
  <1>r. /\ Supersedes[a] \in Ids /\ state[Supersedes[a]] # "none"
        /\ ~ Possible(Supersedes[a])
        /\ state' \in [Ids -> Exclusion \cup TerminalStates \cup {"none"}]
        /\ state'[Supersedes[a]] # "none"
        /\ \A b \in Ids : b # Supersedes[a] => state'[b] = state[b]
    BY ReplacedSaved
  <1>1. TypeOK'
    <2>1. \A b \in Ids : state'[b] = "none" <=> launcher'[b] = None
      BY <1>0, <1>r DEF TypeOK
    <2>. QED BY <1>0, <1>r, <2>1 DEF TypeOK
  <1>2. Fresh'
    BY <1>0, <1>r DEF TypeOK, Calls, Idle, Fresh, Steps
  <1>3. Once'
    BY <1>0 DEF TypeOK, Calls, Idle, Once, Fresh, Steps
  <1>4. \A b \in Ids : Possible(b)' => Possible(b)
    <2>1. \A b \in Ids : Under(b)' => Under(b)
      BY <1>0 DEF TypeOK, Calls, Idle, Once, Steps, Under
    <2>. QED BY <1>0, <1>1, <2>1, PossibleMeans, PossibleThen
  <1>5. Covered'
    BY <1>0, <1>4, <1>r DEF Covered, TypeOK
  <1>6. Leased'
    BY <1>0, IInv, FreeMeans DEF TypeOK, Calls, Idle, Leased
  <1>7. OneAgent' /\ OneSuccessor' /\ Cleared'
    <2>1. \A b \in Ids : state[b] = "none" => state'[b] = "none"
      BY <1>0, <1>r DEF TypeOK
    <2>2. \A g \in Hosts : call'[g].pc = "scanned" => call[g].pc = "scanned" /\ call'[g].id = call[g].id
      BY <1>0 DEF TypeOK, Calls, Idle
    <2>. QED BY <1>1, <1>4, <2>1, <2>2, Quiet
  <1>. QED BY <1>1, <1>2, <1>3, <1>5, <1>6, <1>7 DEF IInv

\* An agent that starts late was covered before it did.
LEMMA StartsLateStep ==
  ASSUME IInv, NEW a \in Ids, StartsLate(a)
  PROVE  IInv'
  <1>. USE DEF StartsLate, Created, recorded, running, Me
  <1>0. TypeOK /\ Fresh /\ Once /\ Covered /\ Leased
    BY DEF IInv
  <1>1. TypeOK'
    BY <1>0 DEF TypeOK, Calls, Idle, Processes, Fresh, Steps, Exclusion, TerminalStates
  <1>2. Fresh'
    BY <1>0 DEF TypeOK, Calls, Idle, Fresh, Steps
  <1>3. Once'
    BY <1>0 DEF TypeOK, Calls, Idle, Once, Fresh, Steps
  <1>4. \A b \in Ids : Possible(b)' => Possible(b)
    <2>1. \A b \in Ids : Under(b)' => Under(b)
      BY <1>0 DEF TypeOK, Calls, Idle, Once, Steps, Under
    <2>. QED BY <1>0, <1>1, <2>1, PossibleMeans, PossibleThen
  <1>5. Covered'
    BY <1>0, <1>1, <1>4 DEF Covered, TypeOK, Steps
  <1>6. Leased'
    BY <1>0 DEF TypeOK, Calls, Idle, Leased
  <1>7. OneAgent' /\ OneSuccessor' /\ Cleared'
    <2>1. \A b \in Ids : state[b] = "none" => state'[b] = "none"
      BY <1>0 DEF TypeOK, Fresh, Steps
    <2>2. \A g \in Hosts : call'[g].pc = "scanned" => call[g].pc = "scanned" /\ call'[g].id = call[g].id
      BY <1>0 DEF TypeOK, Calls, Idle
    <2>. QED BY <1>1, <1>4, <2>1, <2>2, Quiet
  <1>. QED BY <1>1, <1>2, <1>3, <1>5, <1>6, <1>7 DEF IInv

\* A start that never comes uncovers nothing.
LEMMA NeverStartsStep ==
  ASSUME IInv, NEW a \in Ids, NeverStarts(a)
  PROVE  IInv'
  <1>. USE DEF NeverStarts, recorded, running, Me
  <1>0. TypeOK /\ Fresh /\ Once /\ Covered /\ Leased
    BY DEF IInv
  <1>1. TypeOK'
    BY <1>0 DEF TypeOK, Calls, Idle, Processes, Fresh, Steps, Exclusion, TerminalStates
  <1>2. Fresh'
    BY <1>0 DEF TypeOK, Calls, Idle, Fresh, Steps
  <1>3. Once'
    BY <1>0 DEF TypeOK, Calls, Idle, Once, Fresh, Steps
  <1>4. \A b \in Ids : Possible(b)' => Possible(b)
    <2>1. \A b \in Ids : Under(b)' => Under(b)
      BY <1>0 DEF TypeOK, Calls, Idle, Once, Steps, Under
    <2>. QED BY <1>0, <1>1, <2>1, PossibleMeans, PossibleThen
  <1>5. Covered'
    BY <1>0, <1>1, <1>4 DEF Covered, TypeOK, Steps
  <1>6. Leased'
    BY <1>0 DEF TypeOK, Calls, Idle, Leased
  <1>7. OneAgent' /\ OneSuccessor' /\ Cleared'
    <2>1. \A b \in Ids : state[b] = "none" => state'[b] = "none"
      BY <1>0 DEF TypeOK, Fresh, Steps
    <2>2. \A g \in Hosts : call'[g].pc = "scanned" => call[g].pc = "scanned" /\ call'[g].id = call[g].id
      BY <1>0 DEF TypeOK, Calls, Idle
    <2>. QED BY <1>1, <1>4, <2>1, <2>2, Quiet
  <1>. QED BY <1>1, <1>2, <1>3, <1>5, <1>6, <1>7 DEF IInv

\* An agent that dies leaves its cover behind.
LEMMA DiesStep ==
  ASSUME IInv, NEW a \in Ids, Dies(a)
  PROVE  IInv'
  <1>. USE DEF Dies, recorded, running, Me
  <1>0. TypeOK /\ Fresh /\ Once /\ Covered /\ Leased
    BY DEF IInv
  <1>1. TypeOK'
    BY <1>0 DEF TypeOK, Calls, Idle, Processes, Fresh, Steps, Exclusion, TerminalStates
  <1>2. Fresh'
    BY <1>0 DEF TypeOK, Calls, Idle, Fresh, Steps
  <1>3. Once'
    BY <1>0 DEF TypeOK, Calls, Idle, Once, Fresh, Steps
  <1>4. \A b \in Ids : Possible(b)' => Possible(b)
    <2>1. \A b \in Ids : Under(b)' => Under(b)
      BY <1>0 DEF TypeOK, Calls, Idle, Once, Steps, Under
    <2>. QED BY <1>0, <1>1, <2>1, PossibleMeans, PossibleThen
  <1>5. Covered'
    BY <1>0, <1>1, <1>4 DEF Covered, TypeOK, Steps
  <1>6. Leased'
    BY <1>0 DEF TypeOK, Calls, Idle, Leased
  <1>7. OneAgent' /\ OneSuccessor' /\ Cleared'
    <2>1. \A b \in Ids : state[b] = "none" => state'[b] = "none"
      BY <1>0 DEF TypeOK, Fresh, Steps
    <2>2. \A g \in Hosts : call'[g].pc = "scanned" => call[g].pc = "scanned" /\ call'[g].id = call[g].id
      BY <1>0 DEF TypeOK, Calls, Idle
    <2>. QED BY <1>1, <1>4, <2>1, <2>2, Quiet
  <1>. QED BY <1>1, <1>2, <1>3, <1>5, <1>6, <1>7 DEF IInv

\* An agent whose session is closed leaves its cover behind.
LEMMA ClosesStep ==
  ASSUME IInv, NEW a \in Ids, Closes(a)
  PROVE  IInv'
  <1>. USE DEF Closes, recorded, running, Me
  <1>0. TypeOK /\ Fresh /\ Once /\ Covered /\ Leased
    BY DEF IInv
  <1>1. TypeOK'
    BY <1>0 DEF TypeOK, Calls, Idle, Processes, Fresh, Steps, Exclusion, TerminalStates
  <1>2. Fresh'
    BY <1>0 DEF TypeOK, Calls, Idle, Fresh, Steps
  <1>3. Once'
    BY <1>0 DEF TypeOK, Calls, Idle, Once, Fresh, Steps
  <1>4. \A b \in Ids : Possible(b)' => Possible(b)
    <2>1. \A b \in Ids : Under(b)' => Under(b)
      BY <1>0 DEF TypeOK, Calls, Idle, Once, Steps, Under
    <2>. QED BY <1>0, <1>1, <2>1, PossibleMeans, PossibleThen
  <1>5. Covered'
    BY <1>0, <1>1, <1>4 DEF Covered, TypeOK, Steps
  <1>6. Leased'
    BY <1>0 DEF TypeOK, Calls, Idle, Leased
  <1>7. OneAgent' /\ OneSuccessor' /\ Cleared'
    <2>1. \A b \in Ids : state[b] = "none" => state'[b] = "none"
      BY <1>0 DEF TypeOK, Fresh, Steps
    <2>2. \A g \in Hosts : call'[g].pc = "scanned" => call[g].pc = "scanned" /\ call'[g].id = call[g].id
      BY <1>0 DEF TypeOK, Calls, Idle
    <2>. QED BY <1>1, <1>4, <2>1, <2>2, Quiet
  <1>. QED BY <1>1, <1>2, <1>3, <1>5, <1>6, <1>7 DEF IInv

\* A scan that goes on found every clashing reservation gone and no other
\* retry of the record it replaces.
LEMMA ScanStep ==
  ASSUME IInv, NEW h \in Hosts, NEW a \in Ids, Scan(h, a)
  PROVE  IInv'
  <1>. USE DEF Scan, recorded, running, Me
  <1>0. TypeOK /\ Fresh /\ Once /\ Covered /\ OneAgent /\ OneSuccessor /\ Leased
    BY DEF IInv
  <1>1. \A g \in Hosts : call[g].pc \notin {"scanned", "ending"}
    BY FreeMeans
  <1>2. /\ state' \in [Ids -> Exclusion \cup TerminalStates \cup {"none"}]
        /\ \A b \in Ids : state'[b] = "none" <=> state[b] = "none"
        /\ \A b \in Ids : Possible(b) => state'[b] = state[b]
        /\ Supersedes[a] # None =>
             /\ Supersedes[a] \in Ids /\ ~ Possible(Supersedes[a])
             /\ \A b \in Ids : Supersedes[b] = Supersedes[a] => state[b] = "none"
    <2>1. CASE Supersedes[a] = None /\ UNCHANGED state
      BY <1>0, <2>1 DEF TypeOK
    <2>2. CASE Supersedes[a] # None /\ Replaced(a)
      <3>1. /\ Supersedes[a] \in Ids /\ state[Supersedes[a]] # "none"
            /\ ~ Possible(Supersedes[a])
            /\ state' \in [Ids -> Exclusion \cup TerminalStates \cup {"none"}]
            /\ state'[Supersedes[a]] # "none"
            /\ \A b \in Ids : b # Supersedes[a] => state'[b] = state[b]
            /\ \A b \in Ids : Supersedes[b] = Supersedes[a] => state[b] = "none"
        BY <2>2, ReplacedSaved
      <3>. QED BY <3>1
    <2>. QED BY <2>1, <2>2 DEF Replaced
  <1>3. /\ call' \in [Hosts -> Calls] /\ lease' \in Processes \cup {None}
        /\ call'[h].pc = "scanned" /\ call'[h].id = a
        /\ \A g \in Hosts : g # h => call'[g] = call[g]
    BY <1>0 DEF TypeOK, Calls, Processes
  <1>4. TypeOK'
    BY <1>0, <1>2, <1>3 DEF TypeOK
  <1>5. \A b \in Ids : Possible(b)' <=> Possible(b)
    <2>1. \A b \in Ids : Under(b)' <=> Under(b)
      BY <1>0, <1>3 DEF TypeOK, Calls, Idle, Under
    <2>. QED BY <1>0, <1>4, <2>1, PossibleMeans, PossibleThen
  <1>6. Fresh'
    BY <1>0, <1>2, <1>3 DEF Fresh, Steps, TypeOK, Calls, Idle
  <1>7. Once'
    BY <1>0, <1>3 DEF Once
  <1>8. Covered'
    BY <1>0, <1>2, <1>5 DEF Covered
  <1>9. OneAgent' /\ OneSuccessor'
    BY <1>0, <1>2, <1>5 DEF OneAgent, OneSuccessor
  <1>10. Leased'
    BY <1>1, <1>3 DEF Leased
  <1>11. Cleared'
    <2>1. \A b \in Ids : b # a /\ <<a, b>> \in Clash => ~ Possible(b)
      <3>. SUFFICES ASSUME NEW b \in Ids, b # a, <<a, b>> \in Clash, Possible(b) PROVE FALSE
        OBVIOUS
      <3>1. state[b] \in Exclusion
        BY <1>0 DEF Covered
      <3>2. b = Supersedes[a]
        BY <3>1 DEF Unreserved, Reserving
      <3>. QED BY <3>2, <1>2, SupersedesAssumption
    <2>2. \A g \in Hosts : call'[g].pc = "scanned" => g = h
      BY <1>1, <1>3
    <2>. QED BY <1>2, <1>3, <1>5, <2>1, <2>2 DEF Cleared
  <1>. QED BY <1>4, <1>6, <1>7, <1>8, <1>9, <1>10, <1>11 DEF IInv

\* The record is there before the start it covers, and the lease kept every
\* rival out since the scan.
LEMMA PublishStep ==
  ASSUME IInv, NEW h \in Hosts, Publish(h)
  PROVE  IInv'
  <1>. USE DEF Publish, Published, recorded, running, Me
  <1>0. TypeOK /\ Fresh /\ Once /\ Covered /\ OneAgent /\ OneSuccessor /\ Leased
    BY DEF IInv
  <1>a. call[h].id \in Ids
    BY <1>0 DEF TypeOK, Calls, Idle
  <1>1. PICK a \in Ids :
          /\ a = call[h].id /\ state[a] = "none" /\ lease = Me(h)
          /\ \A b \in Ids : b # a /\ <<a, b>> \in Clash => ~ Possible(b)
          /\ \A b \in Ids : Supersedes[a] # None /\ Supersedes[b] = Supersedes[a] => state[b] = "none"
    <2>1. Cleared
      BY DEF IInv
    <2>. QED BY <1>0, <1>a, <2>1 DEF Cleared, Leased
  <1>2. \A g \in Hosts : g # h => call[g].pc \notin {"scanned", "ending"}
    BY <1>0, <1>1 DEF Leased
  <1>3. agent[a] = "none" /\ client[a] = FALSE
        /\ \A g \in Hosts : call[g].pc \in Steps => call[g].id # a
    BY <1>0, <1>1 DEF Fresh
  <1>4. Me(h) \in Processes /\ Me(h) # None
    BY <1>0, NoneAssumption DEF TypeOK, Processes
  <1>5. /\ \A g \in Hosts : g # h => call'[g] = call[g]
        /\ call'[h] = Idle \/ call'[h] = [pc |-> "starting", id |-> a]
        /\ call'[h] # Idle => state'[a] = "launching"
        /\ call' \in [Hosts -> Calls]
    BY <1>0, <1>1 DEF TypeOK, Calls
  <1>6. /\ \A b \in Ids : b # a => state'[b] = state[b] /\ launcher'[b] = launcher[b]
        /\ \/ state'[a] \in Exclusion /\ launcher'[a] = Me(h)
           \/ state'[a] = state[a] /\ launcher'[a] = launcher[a]
        /\ state' \in [Ids -> Exclusion \cup TerminalStates \cup {"none"}]
        /\ launcher' \in [Ids -> Processes \cup {None}]
    BY <1>0, <1>1, <1>4 DEF TypeOK, Exclusion
  <1>. UNCHANGED <<agent, term, client, known, pane, done, inc>> /\ lease' = None
    OBVIOUS
  <1>. HIDE DEF Publish, Published
  <1>7. TypeOK'
    BY <1>0, <1>1, <1>4, <1>5, <1>6 DEF TypeOK, Exclusion
  <1>8. \A b \in Ids : b # a /\ Possible(b)' => Possible(b)
    <2>1. \A b \in Ids : b # a /\ Under(b)' => Under(b)
      BY <1>0, <1>5 DEF Under, Idle
    <2>. QED BY <1>0, <1>7, <2>1, PossibleMeans, PossibleThen
  <1>9. Possible(a)' => state'[a] = "launching"
    <2>1. Under(a)' => call'[h] # Idle
      BY <1>1, <1>3, <1>5 DEF Under, Idle, Steps
    <2>. QED BY <1>1, <1>5, <1>7, <2>1, PossibleThen
  <1>10. Fresh'
    BY <1>0, <1>1, <1>3, <1>5, <1>6 DEF Fresh, Steps, Idle, TypeOK, Calls, Exclusion
  <1>11. Once'
    BY <1>0, <1>1, <1>3, <1>5 DEF Once, Idle, Steps
  <1>12. Covered'
    BY <1>0, <1>6, <1>8, <1>9 DEF Covered, Exclusion
  <1>13. OneAgent'
    <2>. SUFFICES ASSUME NEW b \in Ids, NEW c \in Ids, b # c, <<b, c>> \in Clash,
                         Possible(b)', Possible(c)'
                  PROVE  FALSE
      BY DEF OneAgent
    <2>1. <<c, b>> \in Clash
      BY ClashAssumption
    <2>2. CASE b = a
      BY <1>1, <1>8, <2>2
    <2>3. CASE c = a
      BY <1>1, <1>8, <2>1, <2>3
    <2>4. CASE b # a /\ c # a
      BY <1>0, <1>8, <2>4 DEF OneAgent
    <2>. QED BY <2>2, <2>3, <2>4
  <1>14. OneSuccessor'
    BY <1>0, <1>1, <1>6 DEF OneSuccessor
  <1>15. Leased' /\ Cleared'
    BY <1>2, <1>5 DEF Leased, Cleared, Idle
  <1>. QED BY <1>7, <1>10, <1>11, <1>12, <1>13, <1>14, <1>15 DEF IInv

\* Looking at an assignment again gives a reservation back only when its
\* agent is gone.
LEMMA LocateStep ==
  ASSUME IInv, NEW a \in Ids, state[a] # "none", NEW o \in Looks(a), Locate(a, o)
  PROVE  IInv'
  <1>. USE DEF Locate, recorded, running, Me
  <1>0. TypeOK /\ Fresh /\ Once /\ Covered
    BY DEF IInv
  <1>1. /\ Classified(a, o) \in Exclusion \cup TerminalStates
        /\ Classified(a, o) \in TerminalStates => ~ Possible(a)
    BY LookSaved
  <1>2. /\ state' \in [Ids -> Exclusion \cup TerminalStates \cup {"none"}]
        /\ state'[a] = Classified(a, o)
        /\ \A b \in Ids : b # a => state'[b] = state[b]
    BY <1>0, <1>1 DEF TypeOK
  <1>3. \A b \in Ids : state'[b] = "none" <=> state[b] = "none"
    BY <1>1, <1>2 DEF Exclusion, TerminalStates
  <1>4. known' \in [Ids -> BOOLEAN] /\ pane' \in [Ids -> BOOLEAN]
    BY <1>0 DEF TypeOK
  <1>5. TypeOK'
    BY <1>0, <1>2, <1>3, <1>4 DEF TypeOK
  <1>6. \A b \in Ids : Possible(b)' <=> Possible(b)
    <2>1. \A b \in Ids : Under(b)' <=> Under(b)
      BY DEF Under
    <2>. QED BY <1>0, <1>5, <2>1, PossibleMeans, PossibleThen
  <1>7. Fresh' /\ Once'
    BY <1>0, <1>3 DEF Fresh, Once, TypeOK, Calls, Idle, Steps
  <1>8. Covered'
    BY <1>0, <1>1, <1>2, <1>6 DEF Covered
  <1>9. Leased'
    BY FreeMeans DEF Leased
  <1>10. OneAgent' /\ OneSuccessor' /\ Cleared'
    BY <1>3, <1>5, <1>6, Quiet
  <1>. QED BY <1>5, <1>7, <1>8, <1>9, <1>10 DEF IInv

\* The invariant holds in the first state.
LEMMA InitHolds == Init => IInv
  <1>. SUFFICES ASSUME Init PROVE IInv
    OBVIOUS
  <1>1. TypeOK
    BY DEF Init, TypeOK, Calls
  <1>2. \A a \in Ids : ~ Possible(a)
    BY <1>1, PossibleMeans DEF Init, Under, Idle
  <1>3. Fresh /\ Once /\ Leased /\ Cleared /\ OneSuccessor
    BY DEF Init, Fresh, Once, Leased, Cleared, OneSuccessor, Idle, Steps
  <1>. QED BY <1>1, <1>2, <1>3 DEF IInv, Covered, OneAgent

\* Every step keeps the invariant.
LEMMA Inductive == IInv /\ [Next]_vars => IInv'
  <1>. SUFFICES ASSUME IInv, [Next]_vars PROVE IInv'
    OBVIOUS
  <1>1. ASSUME NEW h \in Hosts, NEW a \in Ids, Scan(h, a) \/ ScanRefused(h, a) \/ End(h, a)
        PROVE  IInv'
    BY <1>1, ScanStep, ScanRefusedStep, EndStep
  <1>2. ASSUME NEW h \in Hosts, Advance(h)
        PROVE  IInv'
    BY <1>2, PublishStep, SpawnStep, SpawnFailsStep, LateStartedStep, LateFailedStep,
       LateLostStep, EndDoneStep, EndGivesUpStep DEF Advance
  <1>3. ASSUME NEW h \in Hosts, Crash(h)
        PROVE  IInv'
    BY <1>3, CrashStep
  <1>4. ASSUME NEW a \in Ids, StartsLate(a) \/ NeverStarts(a) \/ Dies(a) \/ Closes(a)
        PROVE  IInv'
    BY <1>4, StartsLateStep, NeverStartsStep, DiesStep, ClosesStep
  <1>5. ASSUME NEW a \in Ids, state[a] # "none", NEW o \in Looks(a), Locate(a, o)
        PROVE  IInv'
    BY <1>5, LocateStep
  <1>6. CASE UNCHANGED vars
    <2>1. TypeOK' /\ Fresh' /\ Once' /\ Leased'
      BY <1>6 DEF IInv, vars, TypeOK, Fresh, Once, Leased, Me
    <2>2. \A a \in Ids : Possible(a)' <=> Possible(a)
      BY <1>6 DEF vars, Possible
    <2>3. Covered'
      BY <1>6, <2>2 DEF IInv, vars, Covered
    <2>. QED BY <1>6, <2>1, <2>2, <2>3, Quiet DEF vars, IInv
  <1>. QED BY <1>1, <1>2, <1>3, <1>4, <1>5, <1>6 DEF Next

\* The invariant holds in every state of every run.
LEMMA Invariance == Spec => []IInv
  BY InitHolds, Inductive, PTL DEF Spec

\* The records and what the hosts do are what their types say, and a record
\* names the process that reserved it.
THEOREM TypeCorrect == Spec => []TypeOK
  <1>1. IInv => TypeOK
    BY DEF IInv
  <1>. QED BY <1>1, Invariance, PTL

\* No interrupted launch, late session or unconfirmed end gives a reservation
\* back while the agent runs or may still start.
THEOREM AlwaysCovered == Spec => []Covered
  <1>1. IInv => Covered
    BY DEF IInv
  <1>. QED BY <1>1, Invariance, PTL

\* One directory and one spec package never have two agents.
THEOREM OneAgentEver == Spec => []OneAgent
  <1>1. IInv => OneAgent
    BY DEF IInv
  <1>. QED BY <1>1, Invariance, PTL

\* A launch-retry replaces a record that no other retry replaced: the chain
\* of retries never forks.
THEOREM OneSuccessorEver == Spec => []OneSuccessor
  <1>1. IInv => OneSuccessor
    BY DEF IInv
  <1>. QED BY <1>1, Invariance, PTL
===============================================================================
