----------------------------- MODULE HandoffProofs -----------------------------
(***************************************************************************)
(* What Handoff promises for every number of runs, crashes and faults.     *)
(***************************************************************************)
EXTENDS Handoff, SequenceTheorems, TLAPS

\* The values the variables range over.
Index == 1..Len(run)
Pcs == {"idle", "intent", "remount", "persist", "reserve", "saveRun", "bind", "serve",
        "outcome", "down", "resume", "draining"}
DrainPcs == {"idle", "drain", "capacity", "capacityBack", "checkout", "checkoutBack", "done"}
States == Over \cup {"running", "cancelling", "blocked"}
MemberType == [phase : Phases \cup {"queued", "blocked", "sealed"},
               reason : {None, "liveness", "other"},
               run : {None} \cup Nat, impl : {None} \cup Nat, claim : Nat]
RunType == [phase : Phases, state : States, checkout : Nat, capacity : Nat,
            service : {"none", "live", "populated", "empty"},
            result : {None, "pass", "fix"}, drained : BOOLEAN, receipt : SUBSET Nat,
            settled : BOOLEAN]
SlotType == [token : Nat, phase : Phases]
CheckoutType == [token : Nat, phase : Phases \cup {"provisioning"}]
CtlType == [pc : Pcs, task : {None, "launch", "resume"}, stage : {None} \cup Stages,
            from : Nat, token : Nat]
DrainType == [pc : DrainPcs, run : Nat, released : SUBSET Nat]

\* The shape of every variable.
Shapes ==
  /\ member \in MemberType /\ run \in Seq(RunType)
  /\ checkout \in CheckoutType \cup {None} /\ capacity \subseteq SlotType
  /\ minted \in Nat
  /\ ctl \in CtlType /\ drainer \in [Drainers -> DrainType]
  /\ inbox \in Seq([run : Nat, state : Over \cup {"blocked"}])
  /\ handles \subseteq Nat \X {"stream", "timer"}

Mounting == {"remount", "persist", "reserve", "saveRun", "bind", "serve", "outcome"}
\* A drain is under way.
Active(d) == drainer[d].pc # "idle"

\* What the member names: a run there is, and a token that was drawn.
MemberOK ==
  /\ {member.run, member.impl} \subseteq {None} \cup Index
  /\ member.claim \in 1..minted

\* The runs: before its service a run has no slot and nothing to give back.
RunOK(q) ==
  /\ q.checkout \in 1..minted /\ q.capacity \in 0..minted
  /\ q.receipt \subseteq {q.checkout, q.capacity}
  /\ q.result \in Results(q.phase)
  /\ q.service = "none" => q.capacity = 0 /\ q.receipt = {} /\ ~q.drained
RunsOK == \A r \in Index : RunOK(run[r])

\* The registry: tokens that were drawn, and one slot for a phase.
RegistryOK ==
  /\ checkout # None => checkout.token \in 1..minted
  /\ \A k \in capacity : k.token \in 1..minted
  /\ \A k, l \in capacity : k.phase = l.phase => k = l

\* Whatever the process holds of a run, the run has had a service.
Served(r) == r \in Index /\ run[r].service # "none"
DrainOK(x) ==
  x.pc # "idle" => /\ Served(x.run)
                   /\ x.released \subseteq {run[x.run].checkout, run[x.run].capacity}
ProcessOK ==
  /\ \A n \in 1..Len(inbox) : Served(inbox[n].run)
  /\ \A h \in handles : Served(h[1])
  /\ \A d \in Drainers : DrainOK(drainer[d])

\* Where the controller stands.
StandOK ==
  /\ ctl.from \in 0..Len(run) /\ ctl.token \in 0..minted
  /\ ctl.pc = "intent" => ctl.stage \in Stages
  /\ ctl.pc = "persist" => ctl.token \in 1..minted
  /\ ctl.pc \in Mounting => member.phase \in Phases
  /\ ctl.pc \in {"bind", "serve", "outcome"} => run # <<>>
  /\ ctl.pc \in {"bind", "serve"} => run[Len(run)].service = "none"

\* Every variable is well formed, and names only what there is.
Formed == Shapes /\ MemberOK /\ RunsOK /\ RegistryOK /\ ProcessOK /\ StandOK

-------------------------------------------------------------------------------
(* The claims: who holds one, and who may still ask it back.               *)

\* The tokens that were drawn for a workspace claim, and those for a slot.
IsCheckout(t) ==
  \/ (\E r \in Index : run[r].checkout = t) \/ member.claim = t
  \/ Claimed(t) \/ (ctl.pc = "persist" /\ ctl.token = t)
IsSlot(t) == (\E k \in capacity : k.token = t) \/ (\E r \in Index : run[r].capacity = t)

\* No token is drawn for two kinds of claim.
Kinds == \A t \in 0..minted : ~(IsCheckout(t) /\ IsSlot(t))

\* The registry holds no claim of that token.
Gone(token) == ~Claimed(token) /\ \A k \in capacity : k.token # token

\* A drain is recorded only of a service that has ended.
DrainedEmpty == \A r \in Index : run[r].drained => run[r].service = "empty"

\* A bound member retains the claim its run was given.
Bound == member.run # None => member.claim = run[member.run].checkout

\* A served run the member has left is drained, and has given both claims back.
Past ==
  \A r \in Index : run[r].service # "none" /\ member.run # r =>
    run[r].drained /\ Gone(run[r].checkout) /\ Gone(run[r].capacity)

\* A receipt lists claims that are gone, the slot before the checkout.
Receipts ==
  \A r \in Index :
    /\ run[r].receipt # {} => run[r].drained
    /\ \A token \in run[r].receipt : Gone(token)
    /\ run[r].checkout \in run[r].receipt => run[r].capacity \in run[r].receipt

\* A drain past its confirmation knows no more than the receipt, and what it is
\* about to write down did leave the registry.
Draining(d) ==
  LET pc == drainer[d].pc
      q == run[drainer[d].run]
  IN /\ pc \notin {"idle", "drain"} =>
          q.drained /\ drainer[d].released \subseteq q.receipt
     /\ pc = "capacityBack" => q.receipt = {} /\ Gone(q.capacity)
     /\ pc \in {"checkout", "checkoutBack", "done"} => q.capacity \in drainer[d].released
     /\ pc = "checkoutBack" => q.checkout \notin q.receipt /\ Gone(q.checkout)
     /\ pc = "done" => q.checkout \in drainer[d].released

\* Two drains of one run do not both have the same release to write down.
Alone ==
  \A d, e \in Drainers : d # e /\ Active(d) /\ drainer[d].run = drainer[e].run =>
    ~(drainer[d].pc \in {"capacityBack", "checkoutBack"} /\ drainer[e].pc = drainer[d].pc)

\* The new claim of a remount replaces the one that came back from the drain.
Persisting ==
  ctl.pc = "persist" => /\ member.run # None /\ run[member.run].drained
                        /\ member.claim \in run[member.run].receipt
                        /\ (checkout # None => checkout.token = ctl.token)

\* The inductive invariant of the claims.
Leasing ==
  /\ Kinds /\ DrainedEmpty /\ WriterIsBound /\ RunningKeepsSlot /\ Bound /\ Past
  /\ Receipts /\ (\A d \in Drainers : Draining(d)) /\ Alone /\ Persisting

-------------------------------------------------------------------------------
\* Two run records that differ at most in their state, or in being settled.
Alike(a, b) ==
  /\ a.phase = b.phase /\ a.checkout = b.checkout /\ a.capacity = b.capacity
  /\ a.service = b.service /\ a.result = b.result
  /\ a.drained = b.drained /\ a.receipt = b.receipt

\* rs is the run records with other states, or settled.
Alikes(rs) ==
  rs \in Seq(RunType) /\ Len(rs) = Len(run) /\ \A q \in Index : Alike(rs[q], run[q])

LEMMA AlikeSame == ASSUME Shapes PROVE Alikes(run)
  BY DEF Shapes, Alikes, Alike, Index

LEMMA AlikeState ==
  ASSUME NEW rs, Alikes(rs), NEW r \in Index, NEW s \in States
  PROVE LET t == [rs EXCEPT ![r].state = s]
        IN /\ Alikes(t) /\ t[r].state = s /\ t[r].settled = rs[r].settled
           /\ \A q \in Index : q # r => t[q] = rs[q]
<1> DEFINE e == [rs[r] EXCEPT !.state = s]
           t == [rs EXCEPT ![r] = e]
<1>1. rs \in Seq(RunType) /\ Len(rs) = Len(run) /\ r \in 1..Len(rs)
  BY DEF Alikes, Index
<1>2. rs[r] \in RunType
  BY <1>1, ElementOfSeq
<1>3. /\ e \in RunType /\ Alike(e, rs[r]) /\ e.state = s /\ e.settled = rs[r].settled
  BY <1>2 DEF RunType, Alike
<1>4. t \in Seq(RunType) /\ Len(t) = Len(rs) /\ \A q \in Index : t[q] = IF q = r THEN e ELSE rs[q]
  BY <1>1, <1>3, ExceptSeq DEF Index
<1>5. Alikes(t)
  BY <1>1, <1>3, <1>4 DEF Alikes, Alike
<1> QED
  BY <1>3, <1>4, <1>5

LEMMA AlikeSettled ==
  ASSUME NEW rs, Alikes(rs), NEW r \in Index
  PROVE LET t == [rs EXCEPT ![r].settled = TRUE]
        IN /\ Alikes(t)
           /\ \A q \in Index : t[q].state = rs[q].state /\ (q # r => t[q] = rs[q])
<1> DEFINE e == [rs[r] EXCEPT !.settled = TRUE]
           t == [rs EXCEPT ![r] = e]
<1>1. rs \in Seq(RunType) /\ Len(rs) = Len(run) /\ r \in 1..Len(rs)
  BY DEF Alikes, Index
<1>2. rs[r] \in RunType
  BY <1>1, ElementOfSeq
<1>3. e \in RunType /\ Alike(e, rs[r]) /\ e.state = rs[r].state
  BY <1>2 DEF RunType, Alike
<1>4. t \in Seq(RunType) /\ Len(t) = Len(rs) /\ \A q \in Index : t[q] = IF q = r THEN e ELSE rs[q]
  BY <1>1, <1>3, ExceptSeq DEF Index
<1>5. Alikes(t)
  BY <1>1, <1>3, <1>4 DEF Alikes, Alike
<1> QED
  BY <1>3, <1>4, <1>5

LEMMA SettledAlike ==
  ASSUME NEW rs, Alikes(rs), ctl.from \in 0..Len(run)
  PROVE /\ Alikes(Settled(rs))
        /\ \A q \in Index : /\ Settled(rs)[q].state = rs[q].state
                            /\ q # ctl.from => Settled(rs)[q] = rs[q]
<1>1. CASE ctl.from = 0
  BY <1>1 DEF Settled
<1>2. CASE ctl.from \in Index
  <2>1. ctl.from # 0
    BY <1>2 DEF Index
  <2>2. Settled(rs) = [rs EXCEPT ![ctl.from].settled = TRUE]
    BY <2>1 DEF Settled
  <2>3. PICK f \in Index : f = ctl.from
    BY <1>2
  <2>4. Settled(rs) = [rs EXCEPT ![f].settled = TRUE]
    BY <2>2, <2>3
  <2> HIDE DEF Settled
  <2>5. LET t == [rs EXCEPT ![f].settled = TRUE]
        IN /\ Alikes(t)
           /\ \A q \in Index : t[q].state = rs[q].state /\ (q # f => t[q] = rs[q])
    BY AlikeSettled
  <2> QED
    BY <2>3, <2>4, <2>5
<1> QED
  BY <1>1, <1>2 DEF Index

LEMMA HandledAlike ==
  ASSUME Shapes, NEW r \in 0..Len(run)
  PROVE /\ Alikes(Handled(r))
        /\ \A q \in Index : /\ Handled(r)[q].state = run[q].state
                            /\ q # r => Handled(r)[q] = run[q]
<1>1. CASE r = 0
  BY <1>1, AlikeSame DEF Handled
<1>2. CASE r \in Index
  <2>1. r # 0
    BY <1>2 DEF Index
  <2> QED
    BY <1>2, <2>1, AlikeSame, AlikeSettled DEF Handled
<1> QED
  BY <1>1, <1>2 DEF Index

-------------------------------------------------------------------------------
\* A drain that is over, or has only begun.
Fresh(x) == x.pc = "idle" \/ (x.pc = "drain" /\ x.released = {} /\ Served(x.run))

\* What most steps have in common: no claim moves, no run changes but its state,
\* and drains only begin or end.
Tame ==
  /\ Alikes(run') /\ UNCHANGED registry
  /\ member'.run = member.run /\ member'.claim = member.claim
  /\ ctl'.pc = "persist" => ctl.pc = "persist" /\ ctl'.token = ctl.token
  /\ \A d \in Drainers : drainer'[d] = drainer[d] \/ Fresh(drainer'[d])

LEMMA AlikeRuns ==
  ASSUME Formed, Alikes(run'), minted' \in Nat, minted <= minted' PROVE RunsOK'
<1>1. \A r \in Index : RunOK(run[r]) /\ Alike(run'[r], run[r])
  BY DEF Formed, RunsOK, Alikes
<1>2. Index' = Index /\ minted \in Nat
  BY DEF Alikes, Index, Formed, Shapes
<1>3. SUFFICES ASSUME NEW r \in Index PROVE RunOK(run[r])'
  BY <1>2 DEF RunsOK
<1> QED
  BY <1>1, <1>2 DEF RunOK, Alike

LEMMA AlikeServed == ASSUME Alikes(run') PROVE \A r : Served(r)' = Served(r)
  BY DEF Alikes, Served, Index, Alike

LEMMA AlikeDrain == ASSUME Alikes(run'), NEW x PROVE DrainOK(x)' = DrainOK(x)
  BY AlikeServed DEF Alikes, DrainOK, Index, Alike, Served

LEMMA TameDrains ==
  ASSUME Formed, Tame PROVE \A d \in Drainers : DrainOK(drainer[d])'
<1>1. SUFFICES ASSUME NEW d \in Drainers PROVE DrainOK(drainer[d])'
  OBVIOUS
<1>2. DrainOK(drainer[d])
  BY DEF Formed, ProcessOK
<1>3. Alikes(run') /\ (drainer'[d] = drainer[d] \/ Fresh(drainer'[d]))
  BY DEF Tame
<1>4. DrainOK(drainer'[d])
  BY <1>2, <1>3 DEF Fresh, DrainOK
<1> QED
  BY <1>3, <1>4, AlikeDrain DEF DrainOK

\* What is told after a step is told of a run that was served.
Tells == \A n \in 1..Len(inbox') : Served(inbox'[n].run)

LEMMA TameFormed ==
  ASSUME Formed, Tame, Shapes', member'.impl \in {None} \cup Index,
         handles' \subseteq handles, Tells, StandOK'
  PROVE  Formed'
<1>1. Alikes(run') /\ minted' = minted /\ minted \in Nat /\ Index' = Index
  BY DEF Tame, registry, Formed, Shapes, Alikes, Index
<1>2. RunsOK'
  BY <1>1, AlikeRuns
<1>3. MemberOK'
  BY <1>1 DEF Tame, Formed, MemberOK
<1>4. RegistryOK'
  BY DEF Tame, registry, Formed, RegistryOK
<1>5. ProcessOK'
  <2>1. \A d \in Drainers : DrainOK(drainer[d])'
    BY TameDrains
  <2>2. (\A h \in handles : Served(h[1]))'
    BY <1>1 DEF Formed, ProcessOK, Served, Alikes, Alike
  <2>3. (\A n \in 1..Len(inbox) : Served(inbox[n].run))'
    BY <1>1 DEF Tells, Served, Alikes, Alike
  <2> QED
    BY <2>1, <2>2, <2>3 DEF ProcessOK
<1> QED
  BY <1>2, <1>3, <1>4, <1>5 DEF Formed

LEMMA TellsSame == ASSUME Formed, inbox' = inbox PROVE Tells
  BY DEF Formed, ProcessOK, Tells

LEMMA TellsTail ==
  ASSUME Formed, inbox # <<>>, inbox' = Tail(inbox)
  PROVE  Tells /\ inbox' \in Seq([run : Nat, state : Over \cup {"blocked"}])
<1> DEFINE E == [run : Nat, state : Over \cup {"blocked"}]
<1>1. inbox \in Seq(E)
  BY DEF Formed, Shapes
<1> HIDE DEF E
<1>2. /\ Tail(inbox) \in Seq(E) /\ Len(Tail(inbox)) = Len(inbox) - 1
      /\ \A n \in 1..Len(Tail(inbox)) : Tail(inbox)[n] = inbox[n + 1]
  BY <1>1, HeadTailProperties
<1>3. Len(inbox) \in Nat
  BY <1>1
<1> QED
  BY <1>2, <1>3 DEF Formed, ProcessOK, Tells, E

LEMMA TellsMore ==
  ASSUME Formed, NEW r, Served(r), NEW st \in Over \cup {"blocked"},
         inbox' = Append(inbox, [run |-> r, state |-> st])
  PROVE  Tells /\ inbox' \in Seq([run : Nat, state : Over \cup {"blocked"}])
<1> DEFINE E == [run : Nat, state : Over \cup {"blocked"}]
           e == [run |-> r, state |-> st]
<1>1. inbox \in Seq(E)
  BY DEF Formed, Shapes
<1>2. e \in E
  BY DEF Served, Index
<1>3. e.run = r
  OBVIOUS
<1> HIDE DEF E, e
<1>4. /\ inbox' \in Seq(E) /\ Len(inbox') = Len(inbox) + 1
      /\ \A n \in 1..Len(inbox) : inbox'[n] = inbox[n]
      /\ inbox'[Len(inbox) + 1] = e
  BY <1>1, <1>2, AppendProperties DEF e
<1>5. Len(inbox) \in Nat
  BY <1>1
<1> QED
  BY <1>3, <1>4, <1>5 DEF Formed, ProcessOK, Tells, E

LEMMA Types ==
  ASSUME Formed
  PROVE  /\ member.phase \in Phases \cup {"queued", "blocked", "sealed"}
         /\ ctl.from \in 0..Len(run) /\ Len(run) \in Nat
         /\ \A r \in Index : run[r] \in RunType /\ run[r].phase \in Phases
<1>1. run \in Seq(RunType) /\ member \in MemberType
  BY DEF Formed, Shapes
<1>2. \A r \in Index : run[r] \in RunType
  BY <1>1, ElementOfSeq DEF Index
<1> QED
  BY <1>1, <1>2 DEF Formed, StandOK, MemberType, RunType

-------------------------------------------------------------------------------
(* The steps of the controller.                                            *)

\* The parts of a step of the controller that touches neither claims nor drains.
Drives ==
  /\ Alikes(run') /\ member' \in MemberType
  /\ member'.run = member.run /\ member'.claim = member.claim /\ member'.impl = member.impl
  /\ ctl' \in CtlType /\ ctl'.pc \in {"idle", "intent"}
  /\ ctl'.from \in 0..Len(run) /\ ctl'.token \in 0..minted
  /\ ctl'.pc = "intent" => ctl'.stage \in Stages

LEMMA DriveStep ==
  ASSUME Formed, NEW r \in 0..Len(run), ctl.pc = "idle", DriveReview(r) PROVE Drives
<1>1. member \in MemberType /\ ctl \in CtlType /\ Alikes(run) /\ minted \in Nat
      /\ ctl.from \in 0..Len(run) /\ ctl.token \in 0..minted
  BY AlikeSame DEF Formed, Shapes, StandOK
<1>2. Alikes(Handled(r))
  BY HandledAlike DEF Formed
<1> HIDE DEF Handled
<1>3. CASE /\ NextStage \in Stages
           /\ ctl' = [NoTask EXCEPT !.pc = "intent", !.task = "launch",
                                    !.stage = NextStage, !.from = r]
           /\ UNCHANGED <<member, run>>
  <2>1. ctl' = [pc |-> "intent", task |-> "launch", stage |-> NextStage,
                from |-> r, token |-> 0]
    BY <1>3 DEF NoTask
  <2>2. r \in Nat /\ NextStage \in Stages
    BY <1>3, Types
  <2>3. ctl' \in CtlType
    BY <2>1, <2>2 DEF CtlType, Pcs
  <2>4. member' = member /\ run' = run
    BY <1>3
  <2>5. /\ ctl'.pc = "intent" /\ ctl'.stage = NextStage /\ ctl'.from = r
        /\ ctl'.token = 0
    BY <2>1
  <2> QED
    BY <1>1, <2>2, <2>3, <2>4, <2>5 DEF Drives
<1>4. CASE /\ \E p \in {"sealed", "blocked"}, why \in {None, "other"} :
                member' = [member EXCEPT !.phase = p, !.reason = why]
           /\ run' = Handled(r) /\ UNCHANGED ctl
  BY <1>1, <1>2, <1>4 DEF Drives, MemberType
<1>5. CASE member' = [member EXCEPT !.phase = "queued"] /\ UNCHANGED <<run, ctl>>
  BY <1>1, <1>5 DEF Drives, MemberType
<1>6. CASE UNCHANGED <<member, run, ctl>>
  BY <1>1, <1>6 DEF Drives
<1> QED
  BY <1>3, <1>4, <1>5, <1>6 DEF DriveReview

LEMMA DrivesFormed ==
  ASSUME Formed, Drives, Tells, inbox' \in Seq([run : Nat, state : Over \cup {"blocked"}]),
         UNCHANGED <<registry, drainer, handles>>
  PROVE  Formed' /\ Tame
<1>1. Tame
  BY DEF Drives, Tame
<1>2. Shapes'
  BY DEF Formed, Shapes, Drives, Alikes, registry
<1>3. StandOK'
  BY DEF Drives, StandOK, Mounting, registry, Alikes
<1>4. member'.impl \in {None} \cup Index
  BY DEF Drives, Formed, MemberOK
<1> QED
  BY <1>1, <1>2, <1>3, <1>4, TameFormed

LEMMA HandleStep == ASSUME Formed, Handle PROVE Formed' /\ Tame
<1> DEFINE r == Head(inbox).run
<1>1. ctl.pc = "idle" /\ inbox # <<>> /\ inbox' = Tail(inbox)
      /\ UNCHANGED <<registry, drainer, handles>>
  BY DEF Handle
<1>2. Tells /\ inbox' \in Seq([run : Nat, state : Over \cup {"blocked"}])
  BY <1>1, TellsTail
<1>3. r \in Index
  <2>1. inbox \in Seq([run : Nat, state : Over \cup {"blocked"}])
    BY DEF Formed, Shapes
  <2>2. 1 \in 1..Len(inbox) /\ Head(inbox) = inbox[1]
    BY <1>1, <2>1, HeadTailProperties
  <2> QED
    BY <2>2 DEF Formed, ProcessOK, Served
<1>4. r \in 0..Len(run)
  BY <1>3, Types DEF Index
<1> HIDE DEF r
<1>5. member \in MemberType /\ ctl \in CtlType /\ Alikes(run) /\ minted \in Nat
      /\ ctl.from \in 0..Len(run) /\ ctl.token \in 0..minted
  BY AlikeSame DEF Formed, Shapes, StandOK
<1>6. Drives
  <2>1. CASE UNCHANGED <<member, run, ctl>>
    BY <1>1, <1>5, <2>1 DEF Drives
  <2>2. CASE /\ member' = [member EXCEPT !.phase = "blocked", !.reason = "other"]
             /\ run' = [run EXCEPT ![r].settled = TRUE] /\ UNCHANGED ctl
    <3>1. Alikes(run')
      BY <1>3, <1>5, <2>2, AlikeSettled
    <3> QED
      BY <1>1, <1>5, <2>2, <3>1 DEF Drives, MemberType
  <2>3. CASE DriveReview(r)
    BY <1>1, <1>4, <2>3, DriveStep
  <2> QED
    BY <2>1, <2>2, <2>3 DEF Handle, r
<1> QED
  BY <1>1, <1>2, <1>6, DrivesFormed

LEMMA RetryQueuedStep == ASSUME Formed, RetryQueued PROVE Formed' /\ Tame
<1>1. ctl.pc = "idle" /\ DriveReview(0) /\ UNCHANGED <<registry, drainer, inbox, handles>>
  BY DEF RetryQueued
<1>2. Drives
  BY <1>1, DriveStep, Types
<1>3. Tells /\ inbox' \in Seq([run : Nat, state : Over \cup {"blocked"}])
  BY <1>1, TellsSame DEF Formed, Shapes
<1> QED
  BY <1>1, <1>2, <1>3, DrivesFormed

LEMMA Blocks ==
  ASSUME Formed, NEW rs, Alikes(rs), NEW why \in {"liveness", "other"}, Block(rs, why)
  PROVE  Drives /\ ctl' = NoTask
<1>1. member \in MemberType /\ minted \in Nat /\ ctl.from \in 0..Len(run)
  BY DEF Formed, Shapes, StandOK
<1>2. Alikes(run')
  BY <1>1, SettledAlike DEF Block
<1>3. NoTask \in CtlType /\ NoTask.pc = "idle" /\ NoTask.from = 0 /\ NoTask.token = 0
  BY DEF NoTask, CtlType, Pcs
<1>4. 0 \in 0..Len(run) /\ 0 \in 0..minted
  BY <1>1, Types
<1> HIDE DEF NoTask
<1>5. ctl' = NoTask /\ member' = [member EXCEPT !.phase = "blocked", !.reason = why]
  BY DEF Block
<1>6. /\ member' \in MemberType /\ member'.run = member.run
      /\ member'.claim = member.claim /\ member'.impl = member.impl
  BY <1>1, <1>5 DEF MemberType
<1> QED
  BY <1>2, <1>3, <1>4, <1>5, <1>6 DEF Drives

LEMMA Queues == ASSUME Formed, Queue PROVE Drives /\ ctl' = NoTask
<1>1. member \in MemberType /\ minted \in Nat /\ Alikes(run)
  BY AlikeSame DEF Formed, Shapes
<1>2. NoTask \in CtlType /\ NoTask.pc = "idle" /\ NoTask.from = 0 /\ NoTask.token = 0
  BY DEF NoTask, CtlType, Pcs
<1>3. 0 \in 0..Len(run) /\ 0 \in 0..minted
  BY <1>1, Types
<1> HIDE DEF NoTask
<1>4. ctl' = NoTask /\ member' = [member EXCEPT !.phase = "queued"] /\ run' = run
  BY DEF Queue
<1>5. /\ member' \in MemberType /\ member'.run = member.run
      /\ member'.claim = member.claim /\ member'.impl = member.impl
  BY <1>1, <1>4 DEF MemberType
<1> QED
  BY <1>1, <1>2, <1>3, <1>4, <1>5 DEF Drives

LEMMA ControlDrives ==
  ASSUME Formed, Drives, UNCHANGED <<registry, drainer, inbox, handles>>
  PROVE  Formed' /\ Tame
<1>1. Tells /\ inbox' \in Seq([run : Nat, state : Over \cup {"blocked"}])
  BY TellsSame DEF Formed, Shapes
<1> QED
  BY <1>1, DrivesFormed

\* A step of the controller that goes on with its task.
LEMMA ControlGoes ==
  ASSUME Formed, Alikes(run'), UNCHANGED <<registry, drainer, inbox, handles>>,
         member' \in MemberType, member'.run = member.run,
         member'.claim = member.claim, member'.impl \in {None} \cup Index,
         ctl' \in CtlType, ctl'.pc # "persist", StandOK'
  PROVE  Formed' /\ Tame
<1>1. Tame
  BY DEF Tame
<1>2. Shapes'
  BY DEF Formed, Shapes, Alikes, registry
<1> QED
  BY <1>1, <1>2, TellsSame, TameFormed

LEMMA Going ==
  ASSUME Formed, NEW to \in Pcs, Goto(to)
  PROVE  /\ ctl' \in CtlType /\ ctl'.pc = to /\ ctl'.task = ctl.task
         /\ ctl'.stage = ctl.stage /\ ctl'.from = ctl.from /\ ctl'.token = ctl.token
  BY DEF Formed, Shapes, CtlType, Goto

LEMMA IntentStep == ASSUME Formed, Intent PROVE Formed' /\ Tame
<1>1. UNCHANGED <<registry, drainer, inbox, handles>> /\ ctl.pc = "intent" /\ Alikes(run)
  BY AlikeSame DEF Intent, Formed
<1>2. CASE Queue
  BY <1>1, <1>2, Queues, ControlDrives
<1>3. CASE Block(run, "other")
  BY <1>1, <1>3, Blocks, ControlDrives
<1>4. CASE /\ Goto("remount") /\ UNCHANGED run
           /\ member' = [member EXCEPT !.phase = ctl.stage, !.reason = None]
  <2>1. ctl.stage \in Phases /\ member \in MemberType
    BY <1>1 DEF Formed, StandOK, Shapes, Phases
  <2>2. /\ ctl' \in CtlType /\ ctl'.pc = "remount"
        /\ ctl'.from = ctl.from /\ ctl'.token = ctl.token
    BY <1>4, Going DEF Pcs
  <2>3. /\ member' \in MemberType /\ member'.run = member.run /\ member'.phase \in Phases
        /\ member'.claim = member.claim /\ member'.impl = member.impl
    BY <1>4, <2>1 DEF MemberType
  <2>4. StandOK'
    BY <1>1, <1>4, <2>2, <2>3 DEF Formed, StandOK, Mounting, registry
  <2>5. Alikes(run') /\ member.impl \in {None} \cup Index
    BY <1>1, <1>4 DEF Formed, MemberOK
  <2> QED
    BY <1>1, <2>2, <2>3, <2>4, <2>5, ControlGoes
<1> QED
  BY <1>2, <1>3, <1>4 DEF Intent

\* The two ways a remount takes the workspace: a new claim, or its earlier one.
Claims ==
  /\ ctl.pc = "remount" /\ Remountable
  /\ ctl' \in CtlType /\ ctl'.pc = "persist" /\ checkout' # None
  /\ ctl'.token = checkout'.token /\ ctl'.task = ctl.task /\ ctl'.from = ctl.from
  /\ \/ checkout # None /\ checkout' = checkout /\ minted' = minted
     \/ /\ checkout = None /\ checkout' = [token |-> minted + 1, phase |-> member.phase]
        /\ minted' = minted + 1
  /\ UNCHANGED <<member, run, capacity, drainer, inbox, handles>>

LEMMA ClaimsFormed == ASSUME Formed, Claims PROVE Formed'
<1>1. /\ minted \in Nat /\ member \in MemberType /\ member.phase \in Phases
      /\ checkout \in CheckoutType \cup {None}
      /\ ctl.from \in 0..Len(run)
      /\ UNCHANGED <<member, run, capacity, drainer, inbox, handles>>
  BY DEF Formed, Shapes, StandOK, Claims, Mounting
<1>2. /\ minted' \in Nat /\ minted <= minted' /\ checkout' \in CheckoutType
      /\ checkout'.token \in 1..minted'
  <2>1. CASE checkout # None /\ checkout' = checkout /\ minted' = minted
    BY <1>1, <2>1 DEF Formed, RegistryOK
  <2>2. CASE /\ checkout' = [token |-> minted + 1, phase |-> member.phase]
             /\ minted' = minted + 1
    BY <1>1, <2>2 DEF CheckoutType
  <2> QED
    BY <2>1, <2>2 DEF Claims
<1>3. ctl' \in CtlType /\ ctl'.pc = "persist" /\ ctl'.token = checkout'.token
      /\ ctl'.from = ctl.from
  BY DEF Claims
<1>4. Shapes'
  BY <1>1, <1>2, <1>3 DEF Formed, Shapes
<1>5. MemberOK'
  BY <1>1, <1>2 DEF Formed, MemberOK, Index
<1>6. RunsOK'
  BY <1>1, <1>2, AlikeSame, AlikeRuns DEF Formed
<1>7. RegistryOK'
  BY <1>1, <1>2 DEF Formed, RegistryOK
<1>8. ProcessOK'
  BY <1>1 DEF Formed, ProcessOK, DrainOK, Served, Index
<1>9. StandOK'
  BY <1>1, <1>2, <1>3 DEF Formed, StandOK, Mounting
<1> QED
  BY <1>4, <1>5, <1>6, <1>7, <1>8, <1>9 DEF Formed

LEMMA RemountCases ==
  ASSUME Formed, Remount
  PROVE  \/ Block(run, "other") /\ UNCHANGED registry
         \/ /\ Claimed(member.claim) /\ member.run = None
            /\ Goto("reserve") /\ UNCHANGED <<member, run, registry>>
         \/ Claims
<1>1. UNCHANGED <<drainer, inbox, handles>> /\ ctl.pc = "remount"
      /\ minted \in Nat /\ ctl \in CtlType
  BY DEF Remount, Formed, Shapes
<1>2. ASSUME Free, ctl' = [ctl EXCEPT !.pc = "persist", !.token = minted + 1],
             checkout' = [token |-> minted + 1, phase |-> member.phase],
             minted' = minted + 1, UNCHANGED <<member, run, capacity>>
      PROVE  Claims
  <2>1. member.phase \in Phases /\ checkout' \in CheckoutType
    BY <1>1, <1>2 DEF Formed, StandOK, Mounting, CheckoutType
  <2>2. checkout' # None /\ checkout'.token = minted + 1
    BY <1>2, <2>1, NoneAssumption DEF CheckoutType
  <2>3. /\ ctl' \in CtlType /\ ctl'.pc = "persist" /\ ctl'.token = minted + 1
        /\ ctl'.task = ctl.task /\ ctl'.from = ctl.from
    <3>1. ctl' = [ctl EXCEPT !.pc = "persist", !.token = minted + 1] /\ minted + 1 \in Nat
      BY <1>1, <1>2
    <3> QED
      BY <1>1, <3>1 DEF CtlType, Pcs
  <2>4. Remountable /\ checkout = None
    BY <1>2 DEF Free
  <2> QED
    BY <1>1, <1>2, <2>2, <2>3, <2>4 DEF Claims
<1>3. ASSUME Remountable, checkout # None, UNCHANGED <<member, run, registry>>,
             ctl' = [ctl EXCEPT !.pc = "persist", !.token = checkout.token]
      PROVE  Claims
  <2>1. checkout.token \in Nat
    BY <1>1, <1>3 DEF Formed, RegistryOK
  <2>2. /\ ctl' \in CtlType /\ ctl'.pc = "persist" /\ ctl'.token = checkout.token
        /\ ctl'.task = ctl.task /\ ctl'.from = ctl.from
    <3>1. ctl' = [ctl EXCEPT !.pc = "persist", !.token = checkout.token]
      BY <1>3
    <3> QED
      BY <1>1, <2>1, <3>1 DEF CtlType, Pcs
  <2> QED
    BY <1>1, <1>3, <2>2 DEF Claims, registry
<1> QED
  BY <1>2, <1>3 DEF Remount

LEMMA RemountStep == ASSUME Formed, Remount PROVE Formed' /\ (Tame \/ Claims)
<1>1. UNCHANGED <<drainer, inbox, handles>> /\ ctl.pc = "remount" /\ Alikes(run)
      /\ minted \in Nat /\ member \in MemberType /\ member.impl \in {None} \cup Index
      /\ ctl \in CtlType
  BY AlikeSame DEF Remount, Formed, MemberOK, Shapes
<1>2. CASE Block(run, "other") /\ UNCHANGED registry
  BY <1>1, <1>2, Blocks, ControlDrives
<1>3. CASE Goto("reserve") /\ UNCHANGED <<member, run, registry>>
  <2>1. /\ ctl' \in CtlType /\ ctl'.pc = "reserve"
        /\ ctl'.from = ctl.from /\ ctl'.token = ctl.token
    BY <1>3, Going DEF Pcs
  <2>2. StandOK'
    BY <1>1, <1>3, <2>1 DEF Formed, StandOK, Mounting, registry
  <2> QED
    BY <1>1, <1>3, <2>1, <2>2, ControlGoes
<1> QED
  BY <1>2, <1>3, ClaimsFormed, RemountCases

LEMMA PersistStep == ASSUME Formed, Persist PROVE Formed'
<1>1. /\ ctl.pc = "persist" /\ Goto("reserve")
      /\ member' = [member EXCEPT !.claim = ctl.token, !.run = None]
      /\ UNCHANGED <<run, registry, drainer, inbox, handles>>
  BY DEF Persist
<1>2. /\ minted \in Nat /\ member \in MemberType /\ ctl.token \in 1..minted
      /\ member.impl \in {None} \cup Index
  BY <1>1 DEF Formed, Shapes, StandOK, MemberOK
<1>3. /\ ctl' \in CtlType /\ ctl'.pc = "reserve"
      /\ ctl'.from = ctl.from /\ ctl'.token = ctl.token
  BY <1>1, Going DEF Pcs
<1>4. /\ member' \in MemberType /\ member'.phase = member.phase
      /\ member'.run = None /\ member'.claim = ctl.token /\ member'.impl = member.impl
  <2>1. ctl.token \in Nat
    BY <1>2
  <2>2. member' = [member EXCEPT !.claim = ctl.token, !.run = None]
    BY <1>1
  <2> QED
    BY <1>2, <2>1, <2>2 DEF MemberType
<1>5. Shapes' /\ MemberOK'
  BY <1>1, <1>2, <1>3, <1>4 DEF Formed, Shapes, registry, MemberOK, Index
<1>6. RunsOK' /\ RegistryOK' /\ ProcessOK'
  BY <1>1 DEF Formed, RunsOK, RunOK, RegistryOK, ProcessOK, DrainOK, Served, Index, registry
<1>7. StandOK'
  BY <1>1, <1>3, <1>4 DEF Formed, StandOK, Mounting, registry
<1> QED
  BY <1>5, <1>6, <1>7 DEF Formed

\* A slot is granted.
Grants ==
  /\ ctl.pc = "reserve" /\ Slot = {} /\ Goto("saveRun")
  /\ capacity' = capacity \cup {[token |-> minted + 1, phase |-> member.phase]}
  /\ minted' = minted + 1
  /\ UNCHANGED <<member, run, checkout, drainer, inbox, handles>>

LEMMA GrantsStep == ASSUME Formed, Grants PROVE Formed'
<1>1. /\ minted \in Nat /\ minted' = minted + 1 /\ member.phase \in Phases
      /\ UNCHANGED <<member, run, checkout, drainer, inbox, handles>>
  BY DEF Formed, Shapes, StandOK, Mounting, Grants
<1>2. /\ ctl' \in CtlType /\ ctl'.pc = "saveRun"
      /\ ctl'.from = ctl.from /\ ctl'.token = ctl.token
  BY Going DEF Pcs, Grants
<1> DEFINE n == [token |-> minted + 1, phase |-> member.phase]
<1>3. /\ n \in SlotType /\ n.token \in 1..minted' /\ n.phase = member.phase
      /\ capacity' = capacity \cup {n}
  BY <1>1 DEF SlotType, Grants
<1>4. \A k \in capacity : k.phase # member.phase
  BY DEF Grants, Slot
<1> HIDE DEF n
<1>5. Shapes' /\ MemberOK'
  BY <1>1, <1>2, <1>3 DEF Formed, Shapes, MemberOK, Index
<1>6. RunsOK'
  BY <1>1, AlikeSame, AlikeRuns DEF Formed
<1>7. RegistryOK'
  BY <1>1, <1>3, <1>4 DEF Formed, RegistryOK
<1>8. ProcessOK'
  BY <1>1 DEF Formed, ProcessOK, DrainOK, Served, Index
<1>9. StandOK'
  BY <1>1, <1>2 DEF Formed, StandOK, Mounting
<1> QED
  BY <1>5, <1>6, <1>7, <1>8, <1>9 DEF Formed

LEMMA ReserveStep == ASSUME Formed, Reserve PROVE Formed' /\ (Tame \/ Grants)
<1>1. UNCHANGED <<drainer, inbox, handles>> /\ ctl.pc = "reserve" /\ Alikes(run)
      /\ member \in MemberType /\ member.impl \in {None} \cup Index
  BY AlikeSame DEF Reserve, Formed, MemberOK, Shapes
<1>2. CASE (Queue \/ Block(run, "other")) /\ UNCHANGED registry
  BY <1>1, <1>2, Queues, Blocks, ControlDrives
<1>3. CASE Goto("saveRun") /\ UNCHANGED <<member, run, registry>>
  <2>1. /\ ctl' \in CtlType /\ ctl'.pc = "saveRun"
        /\ ctl'.from = ctl.from /\ ctl'.token = ctl.token
    BY <1>3, Going DEF Pcs
  <2>2. StandOK'
    BY <1>1, <1>3, <2>1 DEF Formed, StandOK, Mounting, registry
  <2> QED
    BY <1>1, <1>3, <2>1, <2>2, ControlGoes
<1>4. CASE Grants
  BY <1>4, GrantsStep
<1> QED
  BY <1>1, <1>2, <1>3, <1>4 DEF Reserve, Grants

\* The new run of a launch.
NewRun == [phase |-> member.phase, state |-> "running", checkout |-> member.claim,
           capacity |-> 0, service |-> "none", result |-> None,
           drained |-> FALSE, receipt |-> {}, settled |-> FALSE]
\* The new run is on disk.
Saves ==
  /\ ctl.pc = "saveRun" /\ ctl'.pc = "bind" /\ ctl'.task = ctl.task
  /\ ctl'.from = ctl.from /\ ctl'.token = ctl.token
  /\ run' \in Seq(RunType) /\ Len(run') = Len(run) + 1
  /\ \A q \in Index : run'[q] = run[q]
  /\ run'[Len(run) + 1] = NewRun
  /\ UNCHANGED <<member, registry, drainer, inbox, handles>>

LEMMA SaveRunStep == ASSUME Formed, SaveRun PROVE Formed' /\ Saves
<1>1. /\ ctl.pc = "saveRun" /\ Goto("bind") /\ run' = Append(run, NewRun)
      /\ UNCHANGED <<member, registry, drainer, inbox, handles>>
  BY DEF SaveRun, NewRun
<1>2. /\ minted \in Nat /\ member \in MemberType /\ member.phase \in Phases
      /\ run \in Seq(RunType) /\ Len(run) \in Nat /\ member.claim \in 1..minted
      /\ member.impl \in {None} \cup Index
  BY <1>1, Types DEF Formed, Shapes, StandOK, MemberOK, Mounting
<1>3. member.claim \in Nat
  BY <1>2
<1>4. NewRun \in RunType
  BY <1>2, <1>3 DEF NewRun, RunType, States
<1>5. /\ NewRun.checkout = member.claim /\ NewRun.capacity = 0 /\ NewRun.receipt = {}
      /\ NewRun.result = None /\ NewRun.service = "none" /\ NewRun.drained = FALSE
      /\ NewRun.phase = member.phase
  BY DEF NewRun
<1> HIDE DEF NewRun
<1>6. /\ run' \in Seq(RunType) /\ Len(run') = Len(run) + 1
      /\ \A q \in Index : run'[q] = run[q]
      /\ run'[Len(run) + 1] = NewRun
  BY <1>1, <1>2, <1>4, AppendProperties DEF Index
<1>7. /\ ctl' \in CtlType /\ ctl'.pc = "bind" /\ ctl'.task = ctl.task
      /\ ctl'.from = ctl.from /\ ctl'.token = ctl.token
  BY <1>1, Going DEF Pcs
<1>8. Saves
  BY <1>1, <1>6, <1>7 DEF Saves
<1>9. Shapes'
  BY <1>1, <1>6, <1>7 DEF Formed, Shapes, registry
<1>10. Index' = Index \cup {Len(run) + 1} /\ minted' = minted
  BY <1>1, <1>2, <1>6 DEF Index, registry
<1>11. MemberOK' /\ RegistryOK'
  BY <1>1, <1>10 DEF Formed, MemberOK, RegistryOK, registry
<1>12. RunsOK'
  <2>1. RunOK(NewRun)
    BY <1>2, <1>5 DEF RunOK, Results
  <2>2. \A q \in Index : RunOK(run[q])
    BY DEF Formed, RunsOK
  <2>3. SUFFICES ASSUME NEW q \in Index' PROVE RunOK(run[q])'
    BY DEF RunsOK
  <2> QED
    BY <1>6, <1>10, <2>1, <2>2 DEF RunOK
<1>13. ProcessOK'
  <2>1. \A r : Served(r) => Served(r)' /\ run'[r] = run[r]
    BY <1>6, <1>10 DEF Served
  <2>2. \A d \in Drainers : DrainOK(drainer[d])'
    BY <1>1, <2>1 DEF Formed, ProcessOK, DrainOK, Served
  <2>3. (\A n \in 1..Len(inbox) : Served(inbox[n].run))'
    BY <1>1, <1>6, <1>10 DEF Formed, ProcessOK, Served
  <2>4. (\A h \in handles : Served(h[1]))'
    BY <1>1, <1>6, <1>10 DEF Formed, ProcessOK, Served
  <2> QED
    BY <2>2, <2>3, <2>4 DEF ProcessOK
<1>14. StandOK'
  <2>1. run' # <<>>
    BY <1>2, <1>6
  <2> QED
    BY <1>1, <1>2, <1>5, <1>6, <1>7, <1>10, <2>1 DEF Formed, StandOK, Mounting
<1> QED
  BY <1>8, <1>9, <1>11, <1>12, <1>13, <1>14 DEF Formed

\* The run finds the member free, and as it left it.
Fit(r) == /\ member.run = None /\ member.phase = run[r].phase
          /\ member.claim = run[r].checkout
Binds ==
  /\ ctl.pc = "bind" /\ Fit(Len(run)) /\ ctl'.pc = "serve" /\ ctl'.task = ctl.task
  /\ ctl'.from = ctl.from /\ ctl'.token = ctl.token
  /\ member' = [member EXCEPT !.run = Len(run)]
  /\ UNCHANGED <<run, registry, drainer, inbox, handles>>

LEMMA Last == ASSUME Formed, run # <<>> PROVE Len(run) \in Index
  BY Types DEF Formed, Shapes, Index

LEMMA RefuseStep ==
  ASSUME Formed, NEW r \in Index, Refuse(r), UNCHANGED <<registry, drainer, inbox, handles>>
  PROVE  Formed' /\ Tame
<1> DEFINE rs == [run EXCEPT ![r].state = "blocked"]
<1>1. Alikes(rs)
  BY AlikeSame, AlikeState DEF States, Formed
<1> HIDE DEF rs
<1>2. Block(rs, "other")
  BY DEF Refuse, rs
<1> QED
  BY <1>1, <1>2, Blocks, ControlDrives

LEMMA BindStep == ASSUME Formed, Bind PROVE Formed' /\ (Tame \/ Binds)
<1>1. /\ UNCHANGED <<registry, drainer, inbox, handles>> /\ ctl.pc = "bind"
      /\ Len(run) \in Index /\ member \in MemberType
      /\ member.claim \in 1..minted /\ member.impl \in {None} \cup Index
  BY Last DEF Bind, Formed, StandOK, Shapes, MemberOK
<1>2. CASE Refuse(Len(run))
  BY <1>1, <1>2, RefuseStep
<1>3. CASE /\ Fit(Len(run)) /\ member' = [member EXCEPT !.run = Len(run)]
           /\ Goto("serve") /\ UNCHANGED run
  <2>1. /\ ctl' \in CtlType /\ ctl'.pc = "serve" /\ ctl'.task = ctl.task
        /\ ctl'.from = ctl.from /\ ctl'.token = ctl.token
    BY <1>3, Going DEF Pcs
  <2>2. member' = [member EXCEPT !.run = Len(run)] /\ UNCHANGED run
    BY <1>3
  <2>3. /\ member' \in MemberType /\ member'.phase = member.phase /\ member'.run = Len(run)
        /\ member'.claim = member.claim /\ member'.impl = member.impl
    BY <1>1, <2>2, Types DEF MemberType
  <2>4. Binds
    BY <1>1, <1>3, <2>1 DEF Binds
  <2>5. Shapes'
    BY <1>1, <2>1, <2>2, <2>3 DEF Formed, Shapes, registry
  <2>6. MemberOK' /\ StandOK'
    BY <1>1, <2>1, <2>2, <2>3 DEF Formed, MemberOK, StandOK, registry, Index, Mounting
  <2>7. RunsOK' /\ RegistryOK' /\ ProcessOK'
    BY <1>1, <2>2
      DEF Formed, RunsOK, RunOK, RegistryOK, ProcessOK, DrainOK, Served, Index, registry
  <2> QED
    BY <2>4, <2>5, <2>6, <2>7 DEF Formed
<1> QED
  BY <1>2, <1>3 DEF Bind, Fit

\* One run, and only it, becomes e.
Becomes(r, e) ==
  /\ e \in RunType /\ run' \in Seq(RunType) /\ Len(run') = Len(run)
  /\ \A q \in Index : run'[q] = IF q = r THEN e ELSE run[q]

LEMMA ExceptRun ==
  ASSUME Formed, NEW r \in Index, NEW e \in RunType, run' = [run EXCEPT ![r] = e]
  PROVE  Becomes(r, e)
  BY ExceptSeq DEF Formed, Shapes, Becomes, Index

\* A run that was served, or is being served, changes: who points at it still may.
LEMMA BecomesFormed ==
  ASSUME Formed, NEW r \in Index, NEW e, Becomes(r, e), RunOK(e), minted' = minted,
         e.service # "none", e.checkout = run[r].checkout,
         Served(r) => e.capacity = run[r].capacity
  PROVE  RunsOK' /\ Index' = Index /\ (\A q : Served(q) => Served(q)')
         /\ (\A x : DrainOK(x) => DrainOK(x)')
<1>1. Index' = Index
  BY DEF Becomes, Index
<1>2. RunsOK'
  BY <1>1 DEF Formed, RunsOK, RunOK, Becomes
<1>3. \A q : Served(q) => Served(q)'
  BY <1>1 DEF Served, Becomes
<1>4. SUFFICES ASSUME NEW x, DrainOK(x) PROVE DrainOK(x)'
  BY <1>1, <1>2, <1>3
<1>5. CASE x.pc = "idle"
  BY <1>5 DEF DrainOK
<1>6. CASE Served(x.run) /\ x.released \subseteq {run[x.run].checkout, run[x.run].capacity}
  <2>1. Served(x.run)'
    BY <1>3, <1>6
  <2>2. run'[x.run].checkout = run[x.run].checkout /\ run'[x.run].capacity = run[x.run].capacity
    BY <1>6 DEF Becomes, Served
  <2> QED
    BY <1>6, <2>1, <2>2 DEF DrainOK
<1> QED
  BY <1>4, <1>5, <1>6 DEF DrainOK

\* The service of the new run starts under the lease.
Serves ==
  LET r == Len(run)
      e == run'[r]
  IN /\ ctl.pc = "serve" /\ Leased(r) /\ ctl'.pc = "outcome" /\ ~expired
     /\ ctl'.task = ctl.task /\ ctl'.from = ctl.from /\ ctl'.token = ctl.token
     /\ Becomes(r, e)
     /\ e.phase = run[r].phase /\ e.state = run[r].state /\ e.checkout = run[r].checkout
     /\ (\E k \in Slot : e.capacity = k.token) /\ e.service = "live" /\ e.result = run[r].result
     /\ e.drained = run[r].drained /\ e.receipt = run[r].receipt /\ e.settled = run[r].settled
     /\ handles' = handles \cup {<<r, "stream">>, <<r, "timer">>}
     /\ UNCHANGED <<member, registry, drainer, inbox>>

LEMMA ServeStep ==
  ASSUME Formed, Serve
  PROVE  Formed' /\ ((Tame /\ Refuse(Len(run)) /\ UNCHANGED handles) \/ Serves)
<1> DEFINE r == Len(run)
           slot == CHOOSE k \in Slot : TRUE
           e == [run[r] EXCEPT !.service = "live", !.capacity = slot.token]
<1>1. /\ UNCHANGED <<registry, drainer, inbox>> /\ ctl.pc = "serve"
      /\ r \in Index /\ run[r] \in RunType /\ run[r].service = "none"
  BY Last, Types DEF Serve, Formed, StandOK
<1>2. CASE Refuse(r) /\ UNCHANGED handles
  BY <1>1, <1>2, RefuseStep
<1>3. CASE /\ Leased(r) /\ ~expired /\ Goto("outcome") /\ UNCHANGED member
           /\ run' = [run EXCEPT ![r].service = "live", ![r].capacity = slot.token]
           /\ handles' = handles \cup {<<r, "stream">>, <<r, "timer">>}
  <2>1. slot \in Slot
    BY <1>3 DEF Leased
  <2>2. slot.token \in Nat /\ slot.token \in 0..minted
    BY <2>1 DEF Slot, Formed, Shapes, SlotType, RegistryOK
  <2> HIDE DEF slot
  <2>3. /\ e \in RunType /\ e.service = "live" /\ e.capacity = slot.token
        /\ e.phase = run[r].phase /\ e.state = run[r].state /\ e.checkout = run[r].checkout
        /\ e.result = run[r].result /\ e.drained = run[r].drained
        /\ e.receipt = run[r].receipt /\ e.settled = run[r].settled
    BY <1>1, <2>2 DEF RunType
  <2>4. run' = [run EXCEPT ![r] = e]
    BY <1>1, <1>3
  <2> HIDE DEF e
  <2>5. Becomes(r, e)
    BY <1>1, <2>3, <2>4, ExceptRun
  <2>6. run'[r] = e
    BY <1>1, <2>5 DEF Becomes
  <2>7. RunOK(run[r])
    BY <1>1 DEF Formed, RunsOK
  <2>8. RunOK(e)
    BY <1>1, <2>2, <2>3, <2>7 DEF RunOK
  <2>9. ~Served(r) /\ minted' = minted
    BY <1>1 DEF Served, registry
  <2>10. /\ RunsOK' /\ Index' = Index /\ (\A q : Served(q) => Served(q)')
         /\ \A x : DrainOK(x) => DrainOK(x)'
    BY <1>1, <2>3, <2>5, <2>8, <2>9, BecomesFormed
  <2>11. /\ ctl' \in CtlType /\ ctl'.pc = "outcome" /\ ctl'.task = ctl.task
         /\ ctl'.from = ctl.from /\ ctl'.token = ctl.token
    BY <1>3, Going DEF Pcs
  <2>12. Serves
    BY <1>1, <1>3, <2>1, <2>3, <2>5, <2>6, <2>11 DEF Serves
  <2>. handles' = handles \cup {<<r, "stream">>, <<r, "timer">>} /\ member' = member
    BY <1>3
  <2>13. handles' \subseteq Nat \X {"stream", "timer"}
    BY Types DEF Formed, Shapes
  <2>14. Shapes'
    BY <1>1, <1>3, <2>5, <2>11, <2>13 DEF Formed, Shapes, registry, Becomes
  <2>15. MemberOK' /\ RegistryOK'
    BY <1>1, <1>3, <2>10 DEF Formed, MemberOK, RegistryOK, registry
  <2>16. Served(r)' /\ Len(run') = Len(run)
    BY <1>1, <2>3, <2>5, <2>6, <2>10 DEF Served, Becomes
  <2>17. ProcessOK'
    <3>1. \A d \in Drainers : DrainOK(drainer[d])'
      BY <1>1, <2>10 DEF Formed, ProcessOK, DrainOK
    <3>2. (\A h \in handles : Served(h[1]))'
      <4>1. \A h \in handles' : h \in handles \/ h[1] = r
        OBVIOUS
      <4> QED
        BY <1>1, <2>10, <2>16, <4>1 DEF Formed, ProcessOK, Served
    <3>3. (\A n \in 1..Len(inbox) : Served(inbox[n].run))'
      BY <1>1, <2>6, <2>3, <2>5, <2>10 DEF Formed, ProcessOK, Served, Becomes
    <3> QED
      BY <3>1, <3>2, <3>3 DEF ProcessOK
  <2>18. StandOK'
    BY <1>1, <1>3, <2>5, <2>11 DEF Formed, StandOK, Mounting, registry, Becomes, Index
  <2> QED
    BY <2>10, <2>12, <2>14, <2>15, <2>17, <2>18 DEF Formed
<1> QED
  BY <1>2, <1>3 DEF Serve

LEMMA OutcomeStep == ASSUME Formed, Outcome PROVE Formed' /\ Tame
<1>1. /\ UNCHANGED <<registry, drainer, inbox, handles>> /\ ctl.pc = "outcome"
      /\ ctl' = NoTask /\ run' = Settled(run)
      /\ Len(run) \in Index /\ member \in MemberType /\ member.impl \in {None} \cup Index
  BY Last DEF Outcome, Formed, StandOK, Shapes, MemberOK
<1>2. Alikes(run')
  BY <1>1, AlikeSame, SettledAlike DEF Formed, StandOK
<1>3. /\ member' \in MemberType /\ member'.run = member.run
      /\ member'.claim = member.claim /\ member'.impl \in {None} \cup Index
  <2>1. CASE member' = member
    BY <1>1, <2>1
  <2>2. CASE member' = [member EXCEPT !.impl = Len(run)]
    BY <1>1, <2>2, Types DEF MemberType
  <2> QED
    BY <2>1, <2>2 DEF Outcome
<1>4. ctl' \in CtlType /\ ctl'.pc = "idle" /\ ctl'.from = 0 /\ ctl'.token = 0
  BY <1>1 DEF NoTask, CtlType, Pcs
<1>5. StandOK'
  BY <1>1, <1>2, <1>4, Types DEF StandOK, Mounting, registry, Alikes, Formed, Shapes
<1> QED
  BY <1>1, <1>2, <1>3, <1>4, <1>5, ControlGoes

-------------------------------------------------------------------------------
(* The steps of the workers and of the drains.                             *)

\* A run that had its service changes, and nothing else but a drain does.
LEMMA BecomesStep ==
  ASSUME Formed, NEW r \in Index, Served(r), NEW e, Becomes(r, e), RunOK(e),
         e.service # "none", e.checkout = run[r].checkout, e.capacity = run[r].capacity,
         drainer' \in [Drainers -> DrainType],
         \A d \in Drainers : DrainOK(drainer[d])',
         UNCHANGED <<member, registry, ctl, inbox, handles>>
  PROVE  Formed'
<1>1. minted' = minted
  BY DEF registry
<1>2. RunsOK' /\ Index' = Index /\ (\A q : Served(q) => Served(q)')
  BY <1>1, BecomesFormed
<1>3. Shapes'
  BY DEF Formed, Shapes, registry, Becomes
<1>4. MemberOK' /\ RegistryOK'
  BY <1>2 DEF Formed, MemberOK, RegistryOK, registry
<1>5. ProcessOK'
  <2>1. (\A h \in handles : Served(h[1]))' /\ (\A n \in 1..Len(inbox) : Served(inbox[n].run))'
    BY <1>2 DEF Formed, ProcessOK, Served, Becomes
  <2> QED
    BY <2>1 DEF ProcessOK
<1>6. StandOK'
  <2>1. ctl.pc \in {"bind", "serve"} => run[Len(run)].service = "none" /\ Len(run) # r
    BY DEF Formed, StandOK, Served
  <2>2. run # <<>> => run' # <<>> /\ Len(run) \in Index
    BY Last DEF Becomes, Formed, Shapes
  <2>3. /\ ctl.from \in 0..Len(run) /\ ctl.token \in 0..minted
        /\ ctl.pc = "intent" => ctl.stage \in Stages
        /\ ctl.pc = "persist" => ctl.token \in 1..minted
        /\ ctl.pc \in Mounting => member.phase \in Phases
        /\ ctl.pc \in {"bind", "serve", "outcome"} => run # <<>>
    BY DEF Formed, StandOK
  <2> QED
    BY <1>1, <2>1, <2>2, <2>3 DEF StandOK, Becomes
<1> QED
  BY <1>2, <1>3, <1>4, <1>5, <1>6 DEF Formed

\* A worker ended, or its service became empty.
Worked(r) ==
  LET e == run'[r]
  IN /\ Becomes(r, e) /\ Running(r)
     /\ e.service \in {"populated", "empty"}
     /\ run[r].service = "populated" => e.service = "empty" /\ e.result = run[r].result
     /\ e.phase = run[r].phase /\ e.state = run[r].state /\ e.checkout = run[r].checkout
     /\ e.capacity = run[r].capacity /\ e.drained = run[r].drained
     /\ e.receipt = run[r].receipt /\ e.settled = run[r].settled
     /\ UNCHANGED <<member, registry, process, bounds>>

LEMMA WorkerEndsStep == ASSUME Formed, WorkerEnds PROVE Formed' /\ \E r \in Index : Worked(r)
<1>1. UNCHANGED <<member, registry, process, bounds>>
  BY DEF WorkerEnds
<1>2. PICK r \in Index :
        \/ /\ run[r].service = "live"
           /\ \E after \in {"populated", "empty"}, result \in Results(run[r].phase) :
                run' = [run EXCEPT ![r].service = after, ![r].result = result]
        \/ /\ run[r].service = "populated"
           /\ run' = [run EXCEPT ![r].service = "empty"]
  BY DEF WorkerEnds, Index
<1>3. run[r] \in RunType /\ RunOK(run[r]) /\ run[r].phase \in Phases
  BY Types DEF Formed, RunsOK
<1> DEFINE After(e) ==
      /\ e \in RunType /\ run' = [run EXCEPT ![r] = e]
      /\ e.service \in {"populated", "empty"} /\ e.result \in Results(run[r].phase)
      /\ run[r].service = "populated" => e.service = "empty" /\ e.result = run[r].result
      /\ e.phase = run[r].phase /\ e.state = run[r].state
      /\ e.checkout = run[r].checkout /\ e.capacity = run[r].capacity
      /\ e.drained = run[r].drained /\ e.receipt = run[r].receipt
      /\ e.settled = run[r].settled
<1>4. \E e : After(e)
  <2>1. ASSUME NEW after \in {"populated", "empty"}, NEW result \in Results(run[r].phase),
               run[r].service = "live",
               run' = [run EXCEPT ![r].service = after, ![r].result = result]
        PROVE  \E e : After(e)
    <3> DEFINE e == [run[r] EXCEPT !.service = after, !.result = result]
    <3>1. result \in {None, "pass", "fix"}
      BY DEF Results
    <3>2. /\ e \in RunType /\ e.service = after /\ e.result = result
          /\ e.phase = run[r].phase /\ e.state = run[r].state
          /\ e.checkout = run[r].checkout /\ e.capacity = run[r].capacity
          /\ e.drained = run[r].drained /\ e.receipt = run[r].receipt
          /\ e.settled = run[r].settled
      BY <1>3, <3>1 DEF RunType
    <3>3. run' = [run EXCEPT ![r] = e]
      BY <2>1
    <3> HIDE DEF e
    <3> QED
      BY <2>1, <3>2, <3>3
  <2>2. ASSUME run[r].service = "populated", run' = [run EXCEPT ![r].service = "empty"]
        PROVE  \E e : After(e)
    <3> DEFINE e == [run[r] EXCEPT !.service = "empty"]
    <3>1. /\ e \in RunType /\ e.service = "empty" /\ e.result = run[r].result
          /\ e.phase = run[r].phase /\ e.state = run[r].state
          /\ e.checkout = run[r].checkout /\ e.capacity = run[r].capacity
          /\ e.drained = run[r].drained /\ e.receipt = run[r].receipt
          /\ e.settled = run[r].settled
      BY <1>3 DEF RunType
    <3>2. run' = [run EXCEPT ![r] = e] /\ e.result \in Results(run[r].phase)
      BY <1>3, <2>2, <3>1 DEF RunOK
    <3> HIDE DEF e
    <3> QED
      BY <2>2, <3>1, <3>2
  <2> QED
    BY <1>2, <2>1, <2>2
<1>5. PICK e : After(e)
  BY <1>4
<1>6. Becomes(r, e) /\ run'[r] = e
  BY <1>5, ExceptRun DEF Becomes
<1>7. RunOK(e)
  BY <1>3, <1>5 DEF RunOK
<1>8. Served(r)
  BY <1>2 DEF Served
<1>9. \A d \in Drainers : DrainOK(drainer[d])'
  BY <1>1, <1>3, <1>5, <1>6, <1>7, <1>8, BecomesFormed
    DEF Formed, ProcessOK, DrainOK, process, registry
<1>10. Formed'
  BY <1>1, <1>5, <1>6, <1>7, <1>8, <1>9, BecomesStep DEF process, Formed, Shapes
<1>11. Worked(r)
  BY <1>1, <1>2, <1>5, <1>6 DEF Worked, Running
<1> QED
  BY <1>10, <1>11

\* The end of drain d: what was under way is given up or told.
Ends(d) ==
  /\ Alikes(run') /\ Tells /\ inbox' \in Seq([run : Nat, state : Over \cup {"blocked"}])
  /\ member' \in MemberType /\ member'.run = member.run
  /\ member'.claim = member.claim /\ member'.impl = member.impl
  /\ ctl' \in CtlType /\ ctl'.from \in 0..Len(run) /\ ctl'.token \in 0..minted
  /\ \/ ctl' = ctl /\ member' = member
     \/ ctl'.pc = "idle"
     \/ ctl'.pc = "remount" /\ member'.phase \in Phases
  /\ drainer' = [drainer EXCEPT ![d] = NoDrain]

LEMMA IdleDrain ==
  ASSUME Formed, NEW d \in Drainers, drainer' = [drainer EXCEPT ![d] = NoDrain]
  PROVE  /\ drainer' \in [Drainers -> DrainType] /\ drainer'[d].pc = "idle"
         /\ \A e \in Drainers : e # d => drainer'[e] = drainer[e]
<1>1. NoDrain \in DrainType /\ NoDrain.pc = "idle"
  BY DEF NoDrain, DrainType, DrainPcs
<1> QED
  BY <1>1 DEF Formed, Shapes

LEMMA EndsStand == ASSUME Formed, NEW d \in Drainers, Ends(d), minted' = minted PROVE StandOK'
<1>1. /\ Len(run') = Len(run) /\ ctl'.from \in 0..Len(run) /\ ctl'.token \in 0..minted
      /\ \A q \in Index : run'[q].service = run[q].service
  BY DEF Ends, Alikes, Alike
<1>2. CASE ctl' = ctl /\ member' = member
  <2>1. run # <<>> => run' # <<>> /\ Len(run) \in Index
    BY <1>1, Last DEF Formed, Shapes
  <2> QED
    BY <1>1, <1>2, <2>1 DEF Formed, StandOK
<1>3. CASE ctl'.pc = "idle" \/ (ctl'.pc = "remount" /\ member'.phase \in Phases)
  BY <1>1, <1>3 DEF StandOK, Mounting
<1> QED
  BY <1>2, <1>3 DEF Ends

LEMMA FailEnds ==
  ASSUME Formed, NEW d \in Drainers, Active(d), NEW thrown \in BOOLEAN, Fail(d, thrown)
  PROVE  Ends(d)
<1> DEFINE r == drainer[d].run
<1>1. Served(r) /\ r \in Index
  BY DEF Formed, ProcessOK, DrainOK, Active, Served
<1>2. /\ Alikes(run) /\ member \in MemberType /\ ctl \in CtlType /\ minted \in Nat
      /\ ctl.from \in 0..Len(run) /\ ctl.token \in 0..minted
      /\ inbox \in Seq([run : Nat, state : Over \cup {"blocked"}])
      /\ drainer' = [drainer EXCEPT ![d] = NoDrain]
  BY AlikeSame DEF Formed, Shapes, StandOK, Fail
<1> HIDE DEF r
<1>3. CASE d = "recover"
  <2>1. Tells /\ inbox' = inbox
    BY <1>3, TellsSame DEF Fail
  <2>2. CASE ctl' = NoTask /\ UNCHANGED <<member, run>>
    <3>1. ctl' \in CtlType /\ ctl'.pc = "idle" /\ ctl'.from = 0 /\ ctl'.token = 0
      BY <2>2 DEF NoTask, CtlType, Pcs
    <3> QED
      BY <1>2, <2>1, <2>2, <3>1, Types DEF Ends
  <2>3. CASE Block(run, "other")
    <3>1. Drives /\ ctl'.pc = "idle"
      BY <1>2, <2>3, Blocks DEF NoTask
    <3> QED
      BY <1>2, <2>1, <3>1 DEF Ends, Drives
  <2> QED
    BY <1>3, <2>2, <2>3 DEF Fail
<1>4. CASE d # "recover"
  <2>1. /\ run' = [run EXCEPT ![r].state = "blocked"] /\ UNCHANGED <<member, ctl>>
        /\ inbox' = Append(inbox, [run |-> r, state |-> "blocked"])
    BY <1>4 DEF Fail, r
  <2>2. Alikes(run')
    BY <1>1, <1>2, <2>1, AlikeState DEF States
  <2>3. Tells /\ inbox' \in Seq([run : Nat, state : Over \cup {"blocked"}])
    BY <1>1, <2>1, TellsMore
  <2>4. UNCHANGED <<member, ctl>>
    BY <2>1
  <2> QED
    BY <1>2, <2>2, <2>3, <2>4 DEF Ends
<1> QED
  BY <1>3, <1>4

LEMMA EndsStep ==
  ASSUME Formed, NEW d \in Drainers, Ends(d), UNCHANGED registry, handles' \subseteq handles
  PROVE  Formed' /\ Tame
<1>1. /\ drainer' \in [Drainers -> DrainType] /\ drainer'[d].pc = "idle"
      /\ \A e \in Drainers : e # d => drainer'[e] = drainer[e]
  BY IdleDrain DEF Ends
<1>2. Tame
  <2>1. \A e \in Drainers : drainer'[e] = drainer[e] \/ Fresh(drainer'[e])
    BY <1>1 DEF Fresh
  <2> QED
    BY <2>1 DEF Tame, Ends
<1>3. Shapes'
  BY <1>1 DEF Formed, Shapes, registry, Ends, Alikes
<1>4. StandOK'
  BY EndsStand DEF registry
<1>5. member'.impl \in {None} \cup Index /\ Tells
  BY DEF Formed, MemberOK, Ends
<1> QED
  BY <1>2, <1>3, <1>4, <1>5, TameFormed

LEMMA DrainedStep == ASSUME Formed, NEW d \in Drainers, Drained(d) PROVE Formed' /\ Tame /\ Ends(d)
<1> DEFINE r == drainer[d].run
<1>1. /\ drainer[d].pc = "done" /\ UNCHANGED registry
      /\ drainer' = [drainer EXCEPT ![d] = NoDrain]
  BY DEF Drained
<1>2. Served(r) /\ r \in Index /\ run[r].phase \in Phases
  BY <1>1, Types DEF Formed, ProcessOK, DrainOK, Served
<1>3. /\ Alikes(run) /\ member \in MemberType /\ ctl \in CtlType /\ minted \in Nat
      /\ ctl.from \in 0..Len(run) /\ ctl.token \in 0..minted
      /\ inbox \in Seq([run : Nat, state : Over \cup {"blocked"}])
  BY AlikeSame DEF Formed, Shapes, StandOK
<1> HIDE DEF r
<1>4. ASSUME NEW state \in Over,
             run' = [run EXCEPT ![r].state = state],
             inbox' = Append(inbox, [run |-> r, state |-> state]),
             UNCHANGED <<member, ctl>>
      PROVE  Ends(d)
  <2>1. Alikes(run')
    BY <1>2, <1>3, <1>4, AlikeState DEF States
  <2>2. Tells /\ inbox' \in Seq([run : Nat, state : Over \cup {"blocked"}])
    BY <1>2, <1>4, TellsMore
  <2>3. UNCHANGED <<member, ctl>>
    BY <1>4
  <2> QED
    BY <1>1, <1>3, <2>1, <2>2, <2>3 DEF Ends
<1>5. ASSUME Restore(run[r].phase), UNCHANGED <<run, inbox>> PROVE Ends(d)
  <2>1. /\ ctl' \in CtlType /\ ctl'.pc = "remount"
        /\ ctl'.from = ctl.from /\ ctl'.token = ctl.token
    BY <1>5, Going DEF Pcs, Restore
  <2>2. member' = [member EXCEPT !.phase = run[r].phase, !.reason = None]
    BY <1>5 DEF Restore
  <2>3. /\ member' \in MemberType /\ member'.phase \in Phases /\ member'.run = member.run
        /\ member'.claim = member.claim /\ member'.impl = member.impl
    BY <1>2, <1>3, <2>2 DEF MemberType
  <2>4. Tells
    BY <1>5, TellsSame
  <2>5. run' = run /\ inbox' = inbox
    BY <1>5
  <2>6. Alikes(run') /\ inbox' \in Seq([run : Nat, state : Over \cup {"blocked"}])
    BY <1>3, <2>5
  <2>7. ctl'.from \in 0..Len(run) /\ ctl'.token \in 0..minted
    BY <1>3, <2>1
  <2> QED
    BY <1>1, <2>1, <2>3, <2>4, <2>6, <2>7 DEF Ends
<1>6. Ends(d) /\ handles' \subseteq handles
  BY <1>4, <1>5 DEF Drained, r, Over
<1> QED
  BY <1>1, <1>6, EndsStep

\* What leaves the registry with a claim of that token.
Gives(token) ==
  /\ capacity' = {k \in capacity : k.token # token}
  /\ checkout' = IF Claimed(token) THEN None ELSE checkout
  /\ minted' = minted

\* The release a drain is at, the token it is about, and whether it is still held.
Kind(d) == drainer[d].pc
TokenOf(d) == IF Kind(d) \in {"capacity", "capacityBack"} THEN run[drainer[d].run].capacity
              ELSE run[drainer[d].run].checkout
Held(token) == Claimed(token) \/ \E k \in capacity : k.token = token
\* A release does not ask again, or gives back and hears of it.
Skips(d) ==
  /\ TokenOf(d) \in drainer[d].released /\ UNCHANGED <<member, run, registry, ctl, inbox>>
  /\ drainer' = [drainer EXCEPT ![d].pc = IF Kind(d) = "capacity" THEN "checkout" ELSE "done"]
Returned(d) ==
  /\ TokenOf(d) \notin drainer[d].released /\ Held(TokenOf(d))
  /\ Gives(TokenOf(d)) /\ UNCHANGED <<member, run, ctl, inbox>>
  /\ drainer' = [drainer EXCEPT ![d].pc =
                   IF Kind(d) = "capacity" THEN "capacityBack" ELSE "checkoutBack"]
\* The claim went back, and nobody heard.
Loses(d) ==
  TokenOf(d) \notin drainer[d].released /\ Gives(TokenOf(d)) /\ Ends(d)
Releases(d) ==
  /\ Kind(d) \in {"capacity", "checkout"} /\ UNCHANGED handles
  /\ Skips(d) \/ Returned(d) \/ Loses(d)

LEMMA MovesDrain ==
  ASSUME Formed, NEW d \in Drainers, NEW to \in DrainPcs,
         drainer' = [drainer EXCEPT ![d].pc = to]
  PROVE  /\ drainer' \in [Drainers -> DrainType]
         /\ drainer'[d].pc = to /\ drainer'[d].run = drainer[d].run
         /\ drainer'[d].released = drainer[d].released
         /\ \A e \in Drainers : e # d => drainer'[e] = drainer[e]
  BY DEF Formed, Shapes, DrainType

LEMMA MovesDrainOK ==
  ASSUME Formed, NEW d \in Drainers, Active(d), Alikes(run'),
         drainer'[d].run = drainer[d].run, drainer'[d].released = drainer[d].released,
         \A e \in Drainers : e # d => drainer'[e] = drainer[e]
  PROVE  \A e \in Drainers : DrainOK(drainer[e])'
<1>1. SUFFICES ASSUME NEW e \in Drainers PROVE DrainOK(drainer[e])'
  OBVIOUS
<1>2. DrainOK(drainer'[e])
  BY DEF Formed, ProcessOK, DrainOK, Active
<1> QED
  BY <1>2, AlikeDrain DEF DrainOK

LEMMA GivesRegistry ==
  ASSUME Formed, NEW token, Gives(token)
  PROVE  /\ RegistryOK' /\ minted' = minted /\ capacity' \subseteq SlotType
         /\ checkout' \in CheckoutType \cup {None}
  BY DEF Formed, RegistryOK, Shapes, Gives

LEMMA ReleasesFormed == ASSUME Formed, NEW d \in Drainers, Releases(d) PROVE Formed'
<1>1. Active(d) /\ UNCHANGED handles /\ Alikes(run)
  BY AlikeSame DEF Releases, Kind, Active, Formed
<1>2. /\ RegistryOK' /\ minted' = minted /\ capacity' \subseteq SlotType
      /\ checkout' \in CheckoutType \cup {None}
  BY GivesRegistry DEF Releases, Skips, Returned, Loses, registry, Formed, RegistryOK, Shapes
<1>3. CASE Skips(d) \/ Returned(d)
  <2>1. UNCHANGED <<member, run, ctl, inbox>>
    BY <1>3 DEF Skips, Returned
  <2>2. PICK to \in DrainPcs : drainer' = [drainer EXCEPT ![d].pc = to]
    BY <1>3 DEF Skips, Returned, DrainPcs
  <2>3. /\ drainer' \in [Drainers -> DrainType]
        /\ \A e \in Drainers : DrainOK(drainer[e])'
    BY <1>1, <2>1, <2>2, MovesDrain, MovesDrainOK
  <2>4. Shapes' /\ MemberOK'
    BY <1>1, <1>2, <2>1, <2>3 DEF Formed, Shapes, MemberOK, Index
  <2>5. RunsOK' /\ StandOK'
    BY <1>2, <2>1 DEF Formed, RunsOK, RunOK, Index, StandOK
  <2>6. ProcessOK'
    BY <1>1, <2>1, <2>3 DEF Formed, ProcessOK, Served, Index
  <2> QED
    BY <1>2, <2>4, <2>5, <2>6 DEF Formed
<1>4. CASE Loses(d)
  <2>1. Ends(d) /\ Index' = Index /\ Alikes(run')
    BY <1>4 DEF Loses, Ends, Alikes, Index
  <2>2. /\ drainer' \in [Drainers -> DrainType] /\ drainer'[d].pc = "idle"
        /\ \A e \in Drainers : e # d => drainer'[e] = drainer[e]
    BY <2>1, IdleDrain DEF Ends
  <2>3. Shapes'
    BY <1>1, <1>2, <2>1, <2>2 DEF Formed, Shapes, Ends, Alikes
  <2>4. MemberOK'
    BY <1>2, <2>1 DEF Formed, MemberOK, Ends
  <2>5. RunsOK' /\ StandOK'
    BY <1>2, <2>1, AlikeRuns, EndsStand DEF Formed, Shapes
  <2>6. ProcessOK'
    <3>1. \A e \in Drainers : DrainOK(drainer[e])'
      <4>1. SUFFICES ASSUME NEW e \in Drainers PROVE DrainOK(drainer[e])'
        OBVIOUS
      <4>2. DrainOK(drainer'[e])
        BY <2>2 DEF Formed, ProcessOK, DrainOK
      <4> QED
        BY <2>1, <4>2, AlikeDrain DEF DrainOK
    <3>2. (\A h \in handles : Served(h[1]))'
      BY <1>1, <2>1 DEF Formed, ProcessOK, Served, Alikes, Alike
    <3>3. (\A n \in 1..Len(inbox) : Served(inbox[n].run))'
      BY <2>1 DEF Tells, Served, Alikes, Alike, Ends
    <3> QED
      BY <3>1, <3>2, <3>3 DEF ProcessOK
  <2> QED
    BY <1>2, <2>3, <2>4, <2>5, <2>6 DEF Formed
<1> QED
  BY <1>3, <1>4 DEF Releases

LEMMA ReleaseStep ==
  ASSUME Formed, NEW d \in Drainers, Release(d)
  PROVE  Formed' /\ (Releases(d) \/ (Tame /\ Ends(d)))
<1> DEFINE t == TokenOf(d)
<1>1. Kind(d) \in {"capacity", "checkout"} /\ Active(d) /\ UNCHANGED <<minted, handles>>
  BY DEF Release, Kind, Active
<1>2. t = IF Kind(d) = "capacity" THEN run[drainer[d].run].capacity
          ELSE run[drainer[d].run].checkout
  BY <1>1 DEF TokenOf
<1>3. Held(t) <=> (t \in {k.token : k \in capacity} \/ Claimed(t))
  BY DEF Held
<1> HIDE DEF t
<1>4. CASE /\ t \in drainer[d].released
           /\ drainer' = [drainer EXCEPT ![d].pc =
                            IF Kind(d) = "capacity" THEN "checkout" ELSE "done"]
           /\ UNCHANGED <<member, run, checkout, capacity, ctl, inbox>>
  <2>1. Releases(d)
    BY <1>1, <1>4 DEF Releases, Skips, registry, t
  <2> QED
    BY <2>1, ReleasesFormed
<1>5. CASE /\ t \notin drainer[d].released /\ Held(t)
           /\ capacity' = {k \in capacity : k.token # t}
           /\ checkout' = IF Claimed(t) THEN None ELSE checkout
           /\ drainer' = [drainer EXCEPT ![d].pc =
                            IF Kind(d) = "capacity" THEN "capacityBack" ELSE "checkoutBack"]
           /\ UNCHANGED <<member, run, ctl, inbox>>
  <2>1. Releases(d)
    BY <1>1, <1>5 DEF Releases, Returned, Gives, t
  <2> QED
    BY <2>1, ReleasesFormed
<1>6. CASE Fail(d, TRUE) /\ UNCHANGED <<checkout, capacity>>
  <2>1. Ends(d) /\ UNCHANGED registry
    BY <1>1, <1>6, FailEnds DEF registry
  <2> QED
    BY <1>1, <2>1, EndsStep
<1>7. CASE /\ t \notin drainer[d].released /\ Fail(d, TRUE)
           /\ capacity' = {k \in capacity : k.token # t}
           /\ checkout' = IF Claimed(t) THEN None ELSE checkout
  <2>1. Ends(d)
    BY <1>1, <1>7, FailEnds
  <2>2. Releases(d)
    BY <1>1, <1>7, <2>1 DEF Releases, Loses, Gives, t
  <2> QED
    BY <2>2, ReleasesFormed
<1> QED
  BY <1>1, <1>2, <1>3, <1>4, <1>5, <1>6, <1>7 DEF Release, Kind

\* A drain is confirmed, and recorded.
Confirmed(d) ==
  LET r == drainer[d].run
      e == run'[r]
  IN /\ drainer[d].pc = "drain" /\ Becomes(r, e) /\ Served(r)
     /\ e.service = "empty" /\ e.drained
     /\ e.phase = run[r].phase /\ e.state = run[r].state /\ e.checkout = run[r].checkout
     /\ e.capacity = run[r].capacity /\ e.result = run[r].result
     /\ e.receipt = run[r].receipt /\ e.settled = run[r].settled
     /\ drainer' = [drainer EXCEPT ![d].pc = "capacity", ![d].released = run[r].receipt]
     /\ UNCHANGED <<member, registry, ctl, inbox, handles>>

LEMMA DrainStep ==
  ASSUME Formed, NEW d \in Drainers, Drain(d)
  PROVE  Formed' /\ (Confirmed(d) \/ (Tame /\ Ends(d) /\ Fail(d, FALSE)))
<1> DEFINE r == drainer[d].run
           e == [run[r] EXCEPT !.drained = TRUE,
                               !.service = IF d = "finish" THEN @ ELSE "empty"]
<1>1. /\ drainer[d].pc = "drain" /\ Active(d) /\ Served(r) /\ r \in Index
      /\ run[r] \in RunType /\ RunOK(run[r]) /\ UNCHANGED <<registry, handles>>
  BY Types DEF Drain, Active, Formed, ProcessOK, DrainOK, Served, RunsOK
<1>2. CASE Fail(d, FALSE)
  <2>1. Ends(d)
    BY <1>1, <1>2, FailEnds
  <2> QED
    BY <1>1, <1>2, <2>1, EndsStep
<1>3. CASE /\ Confirms(d) /\ UNCHANGED <<member, ctl, inbox>>
           /\ run' = [run EXCEPT ![r].drained = TRUE,
                                 ![r].service = IF d = "finish" THEN @ ELSE "empty"]
           /\ drainer' = [drainer EXCEPT ![d].pc = "capacity", ![d].released = Prior(r)]
  <2>1. d = "finish" => run[r].service = "empty"
    BY <1>3 DEF Confirms
  <2>2. /\ e \in RunType /\ e.service = "empty" /\ e.drained
        /\ e.phase = run[r].phase /\ e.state = run[r].state /\ e.checkout = run[r].checkout
        /\ e.capacity = run[r].capacity /\ e.result = run[r].result
        /\ e.receipt = run[r].receipt /\ e.settled = run[r].settled
    BY <1>1, <2>1 DEF RunType
  <2>3. run' = [run EXCEPT ![r] = e]
    BY <1>1, <1>3
  <2> HIDE DEF e
  <2> HIDE DEF r
  <2>4. Becomes(r, e) /\ run'[r] = e
    <3>1. Becomes(r, e)
      BY <1>1, <2>2, <2>3, ExceptRun
    <3> QED
      BY <1>1, <3>1 DEF Becomes
  <2> USE DEF r
  <2>5. RunOK(e)
    BY <1>1, <2>2 DEF RunOK
  <2>6. run[r].receipt \subseteq Nat /\ run[r].receipt \subseteq {run[r].checkout, run[r].capacity}
    BY <1>1 DEF RunOK, RunType
  <2>7. drainer' = [drainer EXCEPT ![d].pc = "capacity", ![d].released = run[r].receipt]
    BY <1>3 DEF Prior
  <2>8. /\ drainer' \in [Drainers -> DrainType]
        /\ drainer'[d].run = r /\ drainer'[d].released = run[r].receipt
        /\ \A f \in Drainers : f # d => drainer'[f] = drainer[f]
    BY <2>6, <2>7 DEF Formed, Shapes, DrainType, DrainPcs
  <2>9. minted' = minted
    BY <1>1 DEF registry
  <2>10. \A f \in Drainers : DrainOK(drainer[f])'
    <3>1. SUFFICES ASSUME NEW f \in Drainers PROVE DrainOK(drainer[f])'
      OBVIOUS
    <3>2. DrainOK(drainer'[f])
      BY <1>1, <2>6, <2>8 DEF Formed, ProcessOK, DrainOK
    <3>3. DrainOK(drainer'[f]) => DrainOK(drainer[f])'
      BY <1>1, <2>2, <2>4, <2>5, <2>9, BecomesFormed DEF DrainOK
    <3> QED
      BY <3>2, <3>3
  <2>11. Formed'
    BY <1>1, <1>3, <2>2, <2>4, <2>5, <2>8, <2>10, BecomesStep
  <2>12. Confirmed(d)
    BY <1>1, <1>3, <2>2, <2>4, <2>7 DEF Confirmed
  <2> QED
    BY <2>11, <2>12
<1> QED
  BY <1>1, <1>2, <1>3 DEF Drain

\* A release is written into the receipt.
Recorded(d) ==
  LET r == drainer[d].run
      e == run'[r]
  IN /\ Kind(d) \in {"capacityBack", "checkoutBack"} /\ Becomes(r, e) /\ Served(r)
     /\ e.receipt = drainer[d].released \cup {TokenOf(d)}
     /\ e.phase = run[r].phase /\ e.state = run[r].state /\ e.checkout = run[r].checkout
     /\ e.capacity = run[r].capacity /\ e.result = run[r].result
     /\ e.service = run[r].service /\ e.drained = run[r].drained /\ e.settled = run[r].settled
     /\ drainer' = [drainer EXCEPT
          ![d].released = e.receipt,
          ![d].pc = IF Kind(d) = "capacityBack" THEN "checkout" ELSE "done"]
     /\ UNCHANGED <<member, registry, ctl, inbox, handles>>

LEMMA RecordReleaseStep ==
  ASSUME Formed, NEW d \in Drainers, RecordRelease(d) PROVE Formed' /\ Recorded(d)
<1> DEFINE r == drainer[d].run
           new == drainer[d].released \cup {TokenOf(d)}
           e == [run[r] EXCEPT !.receipt = new]
           to == IF Kind(d) = "capacityBack" THEN "checkout" ELSE "done"
<1>1. /\ Kind(d) \in {"capacityBack", "checkoutBack"} /\ Active(d)
      /\ Served(r) /\ r \in Index /\ run[r] \in RunType /\ RunOK(run[r])
      /\ drainer[d].released \subseteq {run[r].checkout, run[r].capacity}
      /\ UNCHANGED <<member, registry, ctl, inbox, handles>>
  BY Types DEF RecordRelease, Active, Kind, Formed, ProcessOK, DrainOK, Served, RunsOK
<1>2. TokenOf(d) = IF Kind(d) = "capacityBack" THEN run[r].capacity ELSE run[r].checkout
  BY <1>1 DEF TokenOf
<1>3. run' = [run EXCEPT ![r].receipt = new]
  BY <1>2 DEF RecordRelease, Kind
<1>4. drainer' = [drainer EXCEPT ![d].released = new, ![d].pc = to]
  BY <1>2 DEF RecordRelease, Kind
<1>5. new \subseteq {run[r].checkout, run[r].capacity}
  BY <1>1, <1>2
<1>6. new \in SUBSET Nat
  BY <1>1, <1>5 DEF RunType
<1> HIDE DEF new
<1>7. /\ e \in RunType /\ e.receipt = new
      /\ e.phase = run[r].phase /\ e.state = run[r].state /\ e.checkout = run[r].checkout
      /\ e.capacity = run[r].capacity /\ e.result = run[r].result
      /\ e.service = run[r].service /\ e.drained = run[r].drained
      /\ e.settled = run[r].settled
  BY <1>1, <1>6 DEF RunType
<1>8. run' = [run EXCEPT ![r] = e]
  BY <1>1, <1>3
<1> HIDE DEF e
<1> HIDE DEF r
<1>9. Becomes(r, e) /\ run'[r] = e
  <2>1. Becomes(r, e)
    BY <1>1, <1>7, <1>8, ExceptRun
  <2> QED
    BY <1>1, <2>1 DEF Becomes
<1> USE DEF r
<1>10. RunOK(e) /\ e.service # "none"
  BY <1>1, <1>5, <1>7 DEF RunOK, Served
<1>11. /\ drainer' \in [Drainers -> DrainType]
       /\ drainer'[d].run = r /\ drainer'[d].released = new
       /\ \A f \in Drainers : f # d => drainer'[f] = drainer[f]
  BY <1>4, <1>6 DEF Formed, Shapes, DrainType, DrainPcs
<1>12. minted' = minted
  BY <1>1 DEF registry
<1>13. \A f \in Drainers : DrainOK(drainer[f])'
  <2>1. SUFFICES ASSUME NEW f \in Drainers PROVE DrainOK(drainer[f])'
    OBVIOUS
  <2>2. DrainOK(drainer'[f])
    BY <1>1, <1>5, <1>11 DEF Formed, ProcessOK, DrainOK
  <2>3. DrainOK(drainer'[f]) => DrainOK(drainer[f])'
    BY <1>1, <1>7, <1>9, <1>10, <1>12, BecomesFormed DEF DrainOK
  <2> QED
    BY <2>2, <2>3
<1>14. Formed'
  BY <1>1, <1>7, <1>9, <1>10, <1>11, <1>13, BecomesStep
<1>15. Recorded(d)
  BY <1>1, <1>4, <1>7, <1>9 DEF Recorded, new
<1> QED
  BY <1>14, <1>15

\* Drains begin, or end with the process: nothing else the claims depend on moves.
LEMMA BeginsStep ==
  ASSUME Formed, Alikes(run'), UNCHANGED <<member, registry>>,
         ctl' \in CtlType, ctl' = ctl \/ (ctl'.pc # "persist" /\ StandOK'),
         drainer' \in [Drainers -> DrainType],
         \A d \in Drainers : drainer'[d] = drainer[d] \/ Fresh(drainer'[d]),
         inbox' = inbox \/ inbox' = <<>>, handles' \subseteq handles
  PROVE  Formed' /\ Tame
<1>1. Tame
  BY DEF Tame
<1>2. Tells
  BY TellsSame DEF Tells
<1>3. Shapes'
  <2>1. inbox' \in Seq([run : Nat, state : Over \cup {"blocked"}])
    BY EmptySeq DEF Formed, Shapes
  <2> QED
    BY <2>1 DEF Formed, Shapes, Alikes, registry
<1>4. StandOK'
  <2>1. CASE ctl' = ctl
    <3>1. run # <<>> => run' # <<>> /\ Len(run) \in Index
      BY Last DEF Alikes, Formed, Shapes
    <3> QED
      BY <2>1, <3>1 DEF Formed, StandOK, Alikes, Alike, registry
  <2> QED
    BY <2>1
<1> QED
  BY <1>1, <1>2, <1>3, <1>4, TameFormed DEF Formed, MemberOK

LEMMA BeginsDrain ==
  ASSUME Formed, NEW d \in Drainers, NEW r, Served(r), Drains(d, r)
  PROVE  /\ drainer' \in [Drainers -> DrainType]
         /\ \A e \in Drainers : drainer'[e] = drainer[e] \/ Fresh(drainer'[e])
<1> DEFINE x == [pc |-> "drain", run |-> r, released |-> {}]
<1>1. x \in DrainType /\ x.pc = "drain" /\ x.run = r /\ x.released = {}
  BY DEF DrainType, DrainPcs, Served, Index
<1>2. drainer' = [drainer EXCEPT ![d] = x]
  BY DEF Drains
<1> HIDE DEF x
<1> QED
  BY <1>1, <1>2 DEF Formed, Shapes, Fresh

LEMMA FinishStep == ASSUME Formed, Finish PROVE Formed' /\ Tame
<1>1. PICK r \in 1..Len(run) :
        /\ <<r, "stream">> \in handles /\ handles' = handles \ {<<r, "stream">>}
        /\ UNCHANGED drainer \/ Drains("finish", r)
  BY DEF Finish
<1>2. Served(r)
  BY <1>1 DEF Formed, ProcessOK
<1>3. UNCHANGED <<member, run, registry, ctl, inbox>> /\ Alikes(run')
  BY AlikeSame DEF Finish, Formed
<1>4. /\ drainer' \in [Drainers -> DrainType]
      /\ \A e \in Drainers : drainer'[e] = drainer[e] \/ Fresh(drainer'[e])
  BY <1>1, <1>2, BeginsDrain DEF Drainers, Formed, Shapes
<1> QED
  BY <1>1, <1>3, <1>4, BeginsStep DEF Formed, Shapes

LEMMA DeadlineStep == ASSUME Formed, Deadline PROVE Formed' /\ Tame
<1>1. PICK r \in 1..Len(run) :
        /\ <<r, "timer">> \in handles /\ handles' = handles \ {<<r, "timer">>}
        /\ run' = [run EXCEPT ![r].state = "cancelling"] /\ Drains("cancel", r)
  BY DEF Deadline
<1>2. Served(r)
  BY <1>1 DEF Formed, ProcessOK
<1>3. UNCHANGED <<member, registry, ctl, inbox>>
  BY DEF Deadline
<1>4. Alikes(run')
  BY <1>1, AlikeSame, AlikeState DEF Formed, States, Index
<1>5. /\ drainer' \in [Drainers -> DrainType]
      /\ \A e \in Drainers : drainer'[e] = drainer[e] \/ Fresh(drainer'[e])
  BY <1>1, <1>2, BeginsDrain DEF Drainers
<1>6. handles' \subseteq handles
  BY <1>1
<1> QED
  BY <1>3, <1>4, <1>5, <1>6, BeginsStep DEF Formed, Shapes

LEMMA CrashStep == ASSUME Formed, Crash PROVE Formed' /\ Tame
<1>1. /\ ctl' = [NoTask EXCEPT !.pc = "down"] /\ drainer' = [d \in Drainers |-> NoDrain]
      /\ inbox' = <<>> /\ handles' = {} /\ UNCHANGED <<member, run, registry>>
  BY DEF Crash
<1>2. ctl' \in CtlType /\ ctl'.pc = "down" /\ ctl'.from = 0 /\ ctl'.token = 0
  BY <1>1 DEF NoTask, CtlType, Pcs
<1>3. NoDrain \in DrainType /\ NoDrain.pc = "idle"
  BY DEF NoDrain, DrainType, DrainPcs
<1> HIDE DEF NoDrain
<1>4. /\ drainer' \in [Drainers -> DrainType]
      /\ \A e \in Drainers : drainer'[e] = drainer[e] \/ Fresh(drainer'[e])
  BY <1>1, <1>3 DEF Fresh
<1>5. StandOK'
  BY <1>1, <1>2, Types DEF StandOK, Mounting, registry, Formed, Shapes
<1> QED
  BY <1>1, <1>2, <1>4, <1>5, AlikeSame, BeginsStep DEF Formed

LEMMA WakeStep ==
  ASSUME Formed, ctl' = [NoTask EXCEPT !.pc = "resume", !.task = "resume"],
         UNCHANGED <<member, run, registry, drainer, inbox, handles>>
  PROVE  Formed' /\ Tame
<1>1. ctl' \in CtlType /\ ctl'.pc = "resume" /\ ctl'.from = 0 /\ ctl'.token = 0
  BY DEF NoTask, CtlType, Pcs
<1>2. StandOK'
  BY <1>1, Types DEF StandOK, Mounting, registry, Formed, Shapes
<1> QED
  BY <1>1, <1>2, AlikeSame, BeginsStep DEF Formed, Shapes

LEMMA ResumeStep == ASSUME Formed, Resume PROVE Formed' /\ Tame
<1> DEFINE p == Continued
           r == ResumedRun
<1>1. UNCHANGED <<registry, inbox, handles>> /\ Alikes(run) /\ ctl.pc = "resume"
      /\ member.impl \in {None} \cup Index /\ member \in MemberType
  BY AlikeSame DEF Resume, Formed, MemberOK, Shapes
<1>2. r # None => r \in Index
  BY DEF ResumedRun, Formed, MemberOK
<1> HIDE DEF p, r
<1>3. CASE ctl' = NoTask /\ UNCHANGED <<member, run, drainer>>
  <2>1. ctl' \in CtlType /\ ctl'.pc = "idle" /\ ctl'.from = 0 /\ ctl'.token = 0
    BY <1>3 DEF NoTask, CtlType, Pcs
  <2>2. StandOK'
    BY <1>1, <1>3, <2>1, Types DEF StandOK, Mounting, registry, Formed, Shapes
  <2> QED
    BY <1>1, <1>3, <2>1, <2>2, ControlGoes
<1>4. CASE (Block(run, "other") \/ Block(run, "liveness")) /\ UNCHANGED drainer
  BY <1>1, <1>4, Blocks, ControlDrives
<1>5. CASE /\ r # None /\ run[r].service # "none" /\ Goto("draining")
           /\ UNCHANGED <<member, run>> /\ Drains("recover", r)
  <2>1. Served(r)
    BY <1>2, <1>5 DEF Served
  <2>2. /\ drainer' \in [Drainers -> DrainType]
        /\ \A e \in Drainers : drainer'[e] = drainer[e] \/ Fresh(drainer'[e])
    BY <1>5, <2>1, BeginsDrain DEF Drainers
  <2>3. /\ ctl' \in CtlType /\ ctl'.pc = "draining"
        /\ ctl'.from = ctl.from /\ ctl'.token = ctl.token
    BY <1>5, Going DEF Pcs
  <2>4. UNCHANGED <<member, run>>
    BY <1>5
  <2>5. StandOK'
    BY <1>1, <2>3, <2>4 DEF Formed, StandOK, Mounting, registry
  <2> QED
    BY <1>1, <2>2, <2>3, <2>4, <2>5, BeginsStep
<1>6. CASE /\ p # None /\ r # None /\ run[r].phase = p /\ Restore(p) /\ UNCHANGED <<run, drainer>>
  <2>1. /\ ctl' \in CtlType /\ ctl'.pc = "remount"
        /\ ctl'.from = ctl.from /\ ctl'.token = ctl.token
    BY <1>6, Going DEF Pcs, Restore
  <2>2. p \in Phases
    BY <1>2, <1>6, Types
  <2>3. member' = [member EXCEPT !.phase = p, !.reason = None]
    BY <1>6 DEF Restore
  <2>4. /\ member' \in MemberType /\ member'.phase \in Phases /\ member'.run = member.run
        /\ member'.claim = member.claim /\ member'.impl = member.impl
    BY <1>1, <2>2, <2>3 DEF MemberType
  <2>5. UNCHANGED <<run, drainer>>
    BY <1>6
  <2>6. StandOK'
    BY <1>1, <2>1, <2>4, <2>5 DEF Formed, StandOK, Mounting, registry
  <2> QED
    BY <1>1, <2>1, <2>4, <2>5, <2>6, ControlGoes
<1> QED
  BY <1>3, <1>4, <1>5, <1>6 DEF Resume, p, r

-------------------------------------------------------------------------------
LEMMA FormedInit == Init => Formed
<1> SUFFICES ASSUME Init PROVE Formed
  OBVIOUS
<1>1. /\ member.phase = "implementing" /\ member.run = None /\ member.impl = None
      /\ member.claim = 1 /\ member \in MemberType
  BY DEF Init, MemberType, Phases
<1>2. ctl \in CtlType /\ ctl.pc = "saveRun" /\ ctl.from = 0 /\ ctl.token = 0
  BY DEF Init, NoTask, CtlType, Pcs
<1>3. NoDrain \in DrainType /\ NoDrain.pc = "idle"
  BY DEF NoDrain, DrainType, DrainPcs
<1>4. checkout \in CheckoutType /\ checkout.token = 1
  BY DEF Init, CheckoutType
<1>5. capacity \subseteq SlotType /\ \A k \in capacity : k = [token |-> 2, phase |-> "implementing"]
  BY DEF Init, SlotType, Phases
<1>6. \A k \in capacity : k.token = 2
  BY <1>5
<1> HIDE DEF NoDrain
<1>7. /\ run = <<>> /\ minted = 2 /\ inbox = <<>> /\ handles = {}
      /\ drainer = [d \in Drainers |-> NoDrain] /\ Len(run) = 0 /\ Len(inbox) = 0
  BY DEF Init
<1>8. drainer \in [Drainers -> DrainType] /\ \A d \in Drainers : drainer[d].pc = "idle"
  BY <1>3, <1>7
<1>9. Shapes
  BY <1>1, <1>2, <1>4, <1>5, <1>7, <1>8, EmptySeq DEF Shapes
<1>10. MemberOK /\ RunsOK /\ RegistryOK
  BY <1>1, <1>4, <1>5, <1>6, <1>7 DEF MemberOK, RunsOK, RegistryOK, Index
<1>11. ProcessOK /\ StandOK
  BY <1>1, <1>2, <1>7, <1>8 DEF ProcessOK, StandOK, DrainOK, Mounting, Phases
<1> QED
  BY <1>9, <1>10, <1>11 DEF Formed

\* Every step is one of these.
Moves ==
  \/ Tame \/ Claims \/ Persist \/ Grants \/ Saves \/ Binds \/ Serves
  \/ \E r \in Index : Worked(r)
  \/ \E d \in Drainers : Releases(d) \/ Confirmed(d) \/ Recorded(d)

LEMMA FormedNext == ASSUME Formed, [Next]_vars PROVE Formed' /\ Moves
<1>1. CASE Control
  BY <1>1, HandleStep, IntentStep, RemountStep, PersistStep, ReserveStep, SaveRunStep,
     BindStep, ServeStep, OutcomeStep, ResumeStep DEF Control, Moves
<1>2. CASE Wake
  BY <1>2, RetryQueuedStep, WakeStep DEF Wake, RetryBlocked, Recover, Moves
<1>3. CASE \E d \in Drainers : Drainage(d)
  BY <1>3, DrainStep, ReleaseStep, RecordReleaseStep, DrainedStep DEF Drainage, Moves
<1>4. CASE Callback
  BY <1>4, FinishStep, DeadlineStep DEF Callback, Moves
<1>5. CASE WorkerEnds
  BY <1>5, WorkerEndsStep DEF Moves
<1>6. CASE Crash
  BY <1>6, CrashStep DEF Moves
<1>7. CASE Expire \/ UNCHANGED vars
  <2>1. UNCHANGED <<member, run, registry, ctl, drainer, inbox, handles>>
    BY <1>7 DEF Expire, vars, registry, process
  <2> QED
    BY <2>1, AlikeSame, BeginsStep DEF Moves, Formed, Shapes
<1> QED
  BY <1>1, <1>2, <1>3, <1>4, <1>5, <1>6, <1>7 DEF Next

LEMMA FormedTypeOK == Formed => TypeOK
<1> SUFFICES ASSUME Formed PROVE TypeOK
  OBVIOUS
<1>1. /\ member.phase \in Phases \cup {"queued", "blocked", "sealed"}
      /\ member.reason \in {None, "liveness", "other"}
  BY DEF Formed, Shapes, MemberType
<1>2. {member.run, member.impl} \subseteq {None} \cup 1..Len(run) /\ member.claim \in 1..minted
  BY DEF Formed, MemberOK, Index
<1>3. ASSUME NEW r \in 1..Len(run)
      PROVE  /\ run[r].phase \in Phases
             /\ run[r].state \in Over \cup {"running", "cancelling", "blocked"}
             /\ run[r].checkout \in 1..minted /\ run[r].capacity \in 0..minted
             /\ run[r].service \in {"none", "live", "populated", "empty"}
             /\ run[r].receipt \subseteq {run[r].checkout, run[r].capacity}
             /\ run[r].result \in Results(run[r].phase)
             /\ run[r].drained \in BOOLEAN /\ run[r].settled \in BOOLEAN
  <2>1. run[r] \in RunType /\ RunOK(run[r])
    BY <1>3, Types DEF Index, Formed, RunsOK
  <2> QED
    BY <2>1 DEF RunType, RunOK, States
<1>4. checkout # None => checkout.token \in 1..minted
  BY DEF Formed, RegistryOK
<1>5. \A k \in capacity : k.token \in 1..minted /\ k.phase \in Phases
  BY DEF Formed, RegistryOK, Shapes, SlotType
<1>6. \A k, l \in capacity : k.phase = l.phase => k = l
  BY DEF Formed, RegistryOK
<1> QED
  BY <1>1, <1>2, <1>3, <1>4, <1>5, <1>6 DEF TypeOK

\* The member names a run and a claim there are, each run what it was granted, and
\* the registry at most one slot for a phase, in every state of the hand-off.
THEOREM TypeCorrect == Spec => []TypeOK
<1>1. Init => Formed
  BY FormedInit
<1>2. Formed /\ [Next]_vars => Formed'
  BY FormedNext
<1> QED
  BY <1>1, <1>2, FormedTypeOK, PTL DEF Spec

-------------------------------------------------------------------------------
LEMMA TameGone ==
  ASSUME UNCHANGED registry
  PROVE  \A t : (Gone(t)' <=> Gone(t)) /\ (Claimed(t)' <=> Claimed(t))
  BY DEF registry, Gone, Claimed

LEMMA TameLeasing == ASSUME Formed, Leasing, Tame PROVE Leasing'
<1>1. /\ Alikes(run') /\ UNCHANGED registry /\ member'.run = member.run
      /\ member'.claim = member.claim /\ Index' = Index /\ minted' = minted
      /\ ctl'.pc = "persist" => ctl.pc = "persist" /\ ctl'.token = ctl.token
      /\ \A d \in Drainers : drainer'[d] = drainer[d] \/ Fresh(drainer'[d])
      /\ checkout' = checkout /\ capacity' = capacity
  BY DEF Tame, Alikes, Index, registry
<1>2. \A r \in Index : Alike(run'[r], run[r]) /\ (Running(r)' <=> Running(r))
  BY <1>1 DEF Alikes, Alike, Running
<1>3. \A t : (Gone(t)' <=> Gone(t)) /\ (Claimed(t)' <=> Claimed(t))
  BY <1>1, TameGone
<1>4. \A r : member.run = r /\ r # None => r \in Index
  BY DEF Formed, MemberOK
<1>5. Kinds'
  BY <1>1, <1>2, <1>3 DEF Leasing, Kinds, IsCheckout, IsSlot, Alike
<1>6. DrainedEmpty' /\ WriterIsBound' /\ RunningKeepsSlot' /\ Bound'
  BY <1>1, <1>2, <1>4
    DEF Leasing, DrainedEmpty, WriterIsBound, RunningKeepsSlot, Bound, Alike, Index
<1>7. Past' /\ Receipts'
  BY <1>1, <1>2, <1>3 DEF Leasing, Past, Receipts, Alike
<1>8. \A d \in Drainers : Draining(d)'
  <2>1. SUFFICES ASSUME NEW d \in Drainers PROVE Draining(d)'
    OBVIOUS
  <2>2. CASE Fresh(drainer'[d])
    BY <2>2 DEF Draining, Fresh
  <2>3. CASE drainer'[d] = drainer[d] /\ drainer[d].pc \notin {"idle", "drain"}
    <3>1. drainer[d].run \in Index /\ Draining(d)
      BY <2>3 DEF Formed, ProcessOK, DrainOK, Served, Leasing
    <3> QED
      BY <1>2, <1>3, <2>3, <3>1 DEF Draining, Alike
  <2>4. CASE drainer'[d] = drainer[d] /\ drainer[d].pc \in {"idle", "drain"}
    BY <2>4 DEF Draining
  <2> QED
    BY <1>1, <2>2, <2>3, <2>4
<1>9. Alone'
  BY <1>1 DEF Leasing, Alone, Fresh, Active
<1>10. Persisting'
  BY <1>1, <1>2, <1>4 DEF Leasing, Persisting, Alike
<1> QED
  BY <1>5, <1>6, <1>7, <1>8, <1>9, <1>10 DEF Leasing

\* Every token of the state was drawn.
LEMMA Drawn ==
  ASSUME Formed
  PROVE  /\ minted \in Nat /\ member.claim \in 1..minted
         /\ \A r \in Index : /\ run[r].checkout \in 1..minted /\ run[r].capacity \in 0..minted
                             /\ \A t \in run[r].receipt : t \in 0..minted
         /\ \A k \in capacity : k.token \in 1..minted
         /\ checkout # None => checkout.token \in 1..minted
         /\ ctl.pc = "persist" => ctl.token \in 1..minted
  BY DEF Formed, Shapes, MemberOK, RunsOK, RunOK, RegistryOK, StandOK

LEMMA ClaimsLeasing == ASSUME Formed, Leasing, Claims PROVE Leasing'
<1>1. UNCHANGED <<member, run, capacity, drainer>> /\ ctl'.pc = "persist" /\ Index' = Index
  BY DEF Claims, Index
<1>2. \/ checkout # None /\ checkout' = checkout /\ minted' = minted /\ ctl'.token = checkout.token
      \/ /\ checkout = None /\ minted' = minted + 1 /\ checkout' # None
         /\ checkout'.token = minted + 1 /\ ctl'.token = minted + 1
  BY DEF Claims
<1>3. \A t \in 0..minted : Claimed(t)' => Claimed(t)
  BY <1>2, Drawn DEF Claimed
<1>4. \A t \in 0..minted : Gone(t) => Gone(t)'
  BY <1>1, <1>3 DEF Gone
<1>5. Kinds'
  <2>1. CASE /\ minted' = minted /\ checkout # None /\ checkout' = checkout
             /\ ctl'.token = checkout.token
    BY <1>1, <2>1 DEF Leasing, Kinds, IsCheckout, IsSlot, Claimed
  <2>2. CASE checkout = None /\ minted' = minted + 1 /\ checkout' # None
             /\ checkout'.token = minted + 1 /\ ctl'.token = minted + 1
    <3>1. SUFFICES ASSUME NEW t \in 0..minted', IsCheckout(t)', IsSlot(t)' PROVE FALSE
      BY DEF Kinds
    <3>2. CASE t = minted + 1
      BY <1>1, <3>1, <3>2, Drawn DEF IsSlot
    <3>3. CASE t \in 0..minted
      <4>1. IsCheckout(t)
        BY <1>1, <2>2, <3>1, <3>3, <1>3, Drawn DEF IsCheckout
      <4>2. IsSlot(t)
        BY <1>1, <3>1 DEF IsSlot
      <4> QED
        BY <3>3, <4>1, <4>2 DEF Leasing, Kinds
    <3> QED
      BY <2>2, <3>2, <3>3, Drawn
  <2> QED
    BY <1>2, <2>1, <2>2
<1>6. DrainedEmpty' /\ WriterIsBound' /\ RunningKeepsSlot' /\ Bound' /\ Alone'
  BY <1>1
    DEF Leasing, DrainedEmpty, WriterIsBound, RunningKeepsSlot, Bound, Running, Index, Alone, Active
<1>7. Past' /\ Receipts'
  BY <1>1, <1>4, Drawn DEF Leasing, Past, Receipts
<1>8. \A d \in Drainers : Draining(d)'
  <2>1. SUFFICES ASSUME NEW d \in Drainers PROVE Draining(d)'
    OBVIOUS
  <2>2. Draining(d) /\ (drainer[d].pc # "idle" => drainer[d].run \in Index)
    BY DEF Formed, ProcessOK, DrainOK, Served, Leasing
  <2> QED
    BY <1>1, <1>4, <2>2, Drawn DEF Draining
<1>9. Persisting'
  BY <1>1, <1>2 DEF Persisting, Claims, Remountable
<1> QED
  BY <1>5, <1>6, <1>7, <1>8, <1>9 DEF Leasing

LEMMA PersistLeasing == ASSUME Formed, Leasing, Persist PROVE Leasing'
<1>1. /\ UNCHANGED <<run, registry, drainer>> /\ ctl.pc = "persist" /\ Index' = Index
      /\ member'.run = None /\ member'.claim = ctl.token
  <2>1. member' = [member EXCEPT !.claim = ctl.token, !.run = None]
    BY DEF Persist
  <2>2. member'.run = None /\ member'.claim = ctl.token
    BY <2>1 DEF Formed, Shapes, MemberType
  <2> QED
    BY <2>2 DEF Persist, Index
<1>2. ctl'.pc = "reserve"
  BY Going DEF Persist, Pcs
<1>3. \A t : (Gone(t)' <=> Gone(t)) /\ (Claimed(t)' <=> Claimed(t))
  BY <1>1, TameGone
<1>4. /\ member.run # None /\ member.run \in Index /\ run[member.run].drained
      /\ member.claim \in run[member.run].receipt
  BY <1>1 DEF Formed, MemberOK, Leasing, Persisting
<1>5. Gone(run[member.run].checkout) /\ Gone(run[member.run].capacity)
  BY <1>4 DEF Leasing, Receipts, Bound
<1>6. Kinds'
  BY <1>1, <1>2, <1>3 DEF Leasing, Kinds, IsCheckout, IsSlot, registry
<1>7. \A r \in Index : ~Running(r)
  BY <1>4 DEF Leasing, WriterIsBound, DrainedEmpty, Running, Index
<1>8. DrainedEmpty' /\ WriterIsBound' /\ RunningKeepsSlot' /\ Bound' /\ Alone'
  BY <1>1, <1>7
    DEF Leasing, DrainedEmpty, WriterIsBound, RunningKeepsSlot, Bound, Running, Index, Alone, Active
<1>9. Past'
  BY <1>1, <1>3, <1>4, <1>5 DEF Leasing, Past
<1>10. Receipts' /\ Persisting'
  BY <1>1, <1>2, <1>3 DEF Leasing, Receipts, Persisting
<1>11. \A d \in Drainers : Draining(d)'
  BY <1>1, <1>3 DEF Leasing, Draining
<1> QED
  BY <1>6, <1>8, <1>9, <1>10, <1>11 DEF Leasing

LEMMA GrantsLeasing == ASSUME Formed, Leasing, Grants PROVE Leasing'
<1>1. /\ UNCHANGED <<member, run, checkout, drainer>> /\ Index' = Index
      /\ minted' = minted + 1 /\ ctl'.pc = "saveRun"
  BY Going DEF Grants, Pcs, Index
<1>2. \A k : k \in capacity' <=>
              k \in capacity \/ k = [token |-> minted + 1, phase |-> member.phase]
  BY DEF Grants
<1>3. /\ \A k \in capacity' : k \in capacity \/ k.token = minted + 1
      /\ capacity \subseteq capacity'
  BY <1>2
<1>4. \A t \in 0..minted : Gone(t) => Gone(t)'
  BY <1>1, <1>3, Drawn DEF Gone, Claimed
<1>5. Kinds'
  <2>1. SUFFICES ASSUME NEW t \in 0..minted', IsCheckout(t)', IsSlot(t)' PROVE FALSE
    BY DEF Kinds
  <2>2. t \in 0..minted /\ IsCheckout(t)
    BY <1>1, <2>1, Drawn DEF IsCheckout, Claimed
  <2>3. IsSlot(t)
    BY <1>1, <1>3, <2>1, <2>2, Drawn DEF IsSlot
  <2> QED
    BY <2>2, <2>3 DEF Leasing, Kinds
<1>6. DrainedEmpty' /\ WriterIsBound' /\ RunningKeepsSlot' /\ Bound' /\ Alone' /\ Persisting'
  BY <1>1, <1>3
    DEF Leasing, DrainedEmpty, WriterIsBound, RunningKeepsSlot, Bound, Running, Index, Alone,
        Active, Persisting
<1>7. Past' /\ Receipts'
  BY <1>1, <1>4, Drawn DEF Leasing, Past, Receipts, Claimed
<1>8. \A d \in Drainers : Draining(d)'
  <2>1. SUFFICES ASSUME NEW d \in Drainers PROVE Draining(d)'
    OBVIOUS
  <2>2. Draining(d) /\ (drainer[d].pc # "idle" => drainer[d].run \in Index)
    BY DEF Formed, ProcessOK, DrainOK, Served, Leasing
  <2> QED
    BY <1>1, <1>4, <2>2, Drawn DEF Draining
<1> QED
  BY <1>5, <1>6, <1>7, <1>8 DEF Leasing

LEMMA SavesLeasing == ASSUME Formed, Leasing, Saves PROVE Leasing'
<1>1. /\ UNCHANGED <<member, registry, drainer>> /\ ctl'.pc = "bind" /\ Len(run) \in Nat
      /\ Len(run') = Len(run) + 1 /\ \A q \in Index : run'[q] = run[q]
  BY Types DEF Saves
<1> DEFINE n == Len(run) + 1
<1>3. /\ run'[n].checkout = member.claim /\ run'[n].capacity = 0 /\ run'[n].receipt = {}
      /\ run'[n].service = "none" /\ run'[n].drained = FALSE
  BY DEF Saves, NewRun
<1>4. Index' = Index \cup {n} /\ n \notin Index
  BY <1>1 DEF Index
<1>5. \A t : (Gone(t)' <=> Gone(t)) /\ (Claimed(t)' <=> Claimed(t))
  BY <1>1, TameGone
<1> HIDE DEF n
<1>6. Kinds'
  <2>1. SUFFICES ASSUME NEW t \in 0..minted, IsCheckout(t)', IsSlot(t)' PROVE FALSE
    BY <1>1 DEF Kinds, registry
  <2>2. IsCheckout(t)
    BY <1>1, <1>3, <1>4, <1>5, <2>1 DEF IsCheckout
  <2>3. t # 0
    BY <2>2, Drawn DEF IsCheckout, Claimed
  <2>4. IsSlot(t)
    BY <1>1, <1>3, <1>4, <2>1, <2>3 DEF IsSlot, registry
  <2> QED
    BY <2>2, <2>4 DEF Leasing, Kinds
<1>7. \A r \in Index' : Running(r)' => r \in Index /\ Running(r)
  BY <1>1, <1>3, <1>4 DEF Running
<1>8. DrainedEmpty' /\ WriterIsBound' /\ RunningKeepsSlot' /\ Alone' /\ Persisting'
  BY <1>1, <1>3, <1>4, <1>7
    DEF Leasing, DrainedEmpty, WriterIsBound, RunningKeepsSlot, Index, Alone, Active,
        Persisting, registry
<1>9. Bound' /\ Past' /\ Receipts'
  BY <1>1, <1>3, <1>4, <1>5 DEF Leasing, Bound, Past, Receipts, Formed, MemberOK
<1>10. \A d \in Drainers : Draining(d)'
  <2>1. SUFFICES ASSUME NEW d \in Drainers PROVE Draining(d)'
    OBVIOUS
  <2>2. Draining(d) /\ (drainer[d].pc # "idle" => drainer[d].run \in Index)
    BY DEF Formed, ProcessOK, DrainOK, Served, Leasing
  <2> QED
    BY <1>1, <1>5, <2>2 DEF Draining
<1> QED
  BY <1>6, <1>8, <1>9, <1>10 DEF Leasing

LEMMA BindsLeasing == ASSUME Formed, Leasing, Binds PROVE Leasing'
<1>1. /\ UNCHANGED <<run, registry, drainer>> /\ ctl'.pc = "serve" /\ ctl.pc = "bind"
      /\ Index' = Index /\ Fit(Len(run))
  BY DEF Binds, Index
<1>2. member'.run = Len(run) /\ member'.claim = member.claim
  BY Types DEF Binds, Formed, Shapes, MemberType
<1>3. member.run = None /\ member.claim = run[Len(run)].checkout
  BY <1>1 DEF Fit
<1>4. \A t : (Gone(t)' <=> Gone(t)) /\ (Claimed(t)' <=> Claimed(t))
  BY <1>1, TameGone
<1>5. \A r \in Index : ~Running(r)
  BY <1>3, HandoffAssumption, Types DEF Leasing, WriterIsBound, Index
<1>6. Kinds'
  BY <1>1, <1>2, <1>4 DEF Leasing, Kinds, IsCheckout, IsSlot, registry
<1>7. DrainedEmpty' /\ WriterIsBound' /\ RunningKeepsSlot' /\ Bound' /\ Alone' /\ Persisting'
  BY <1>1, <1>2, <1>3, <1>5
    DEF Leasing, DrainedEmpty, WriterIsBound, RunningKeepsSlot, Bound, Running, Index, Alone,
        Active, Persisting
<1>8. Past'
  BY <1>1, <1>3, <1>4, HandoffAssumption, Types DEF Leasing, Past, Index
<1>9. Receipts' /\ \A d \in Drainers : Draining(d)'
  BY <1>1, <1>4 DEF Leasing, Receipts, Draining
<1> QED
  BY <1>6, <1>7, <1>8, <1>9 DEF Leasing

LEMMA ServesLeasing == ASSUME Formed, Leasing, Serves PROVE Leasing'
<1>1. PICK r \in Index : r = Len(run)
  BY Last DEF Serves, Formed, StandOK
<1>2. /\ UNCHANGED <<member, registry, drainer>> /\ ctl'.pc = "outcome" /\ ctl.pc = "serve"
      /\ Len(run') = Len(run) /\ Index' = Index /\ minted' = minted
      /\ \A q \in Index : q # r => run'[q] = run[q]
  BY <1>1 DEF Serves, Becomes, Index, registry
<1>3. run[r].service = "none" /\ run[r].receipt = {} /\ run[r].drained = FALSE
  BY <1>1, <1>2, Types DEF Formed, StandOK, RunsOK, RunOK, RunType
<1>4. member.run = r /\ Claimed(run[r].checkout)
  BY <1>1 DEF Serves, Leased
<1>5. /\ run'[r].checkout = run[r].checkout /\ run'[r].service = "live"
      /\ run'[r].drained = FALSE /\ run'[r].receipt = {}
      /\ \E k \in capacity : run'[r].capacity = k.token
  BY <1>1, <1>3 DEF Serves, Slot
<1>6. \A t : (Gone(t)' <=> Gone(t)) /\ (Claimed(t)' <=> Claimed(t))
  BY <1>2, TameGone
<1>7. Kinds'
  <2>1. SUFFICES ASSUME NEW t \in 0..minted, IsCheckout(t)', IsSlot(t)' PROVE FALSE
    BY <1>2 DEF Kinds
  <2>2. IsCheckout(t)
    BY <1>2, <1>5, <1>6, <2>1 DEF IsCheckout
  <2>3. IsSlot(t)
    BY <1>2, <1>5, <2>1 DEF IsSlot, registry
  <2> QED
    BY <2>2, <2>3 DEF Leasing, Kinds
<1>8. \A q \in Index : Running(q)' => q = r
  BY <1>2, <1>4 DEF Running, Leasing, WriterIsBound, Index
<1>9. DrainedEmpty' /\ WriterIsBound' /\ RunningKeepsSlot' /\ Alone' /\ Persisting'
  BY <1>2, <1>4, <1>5, <1>8
    DEF Leasing, DrainedEmpty, WriterIsBound, RunningKeepsSlot, Index, Alone, Active,
        Persisting, registry
<1>10. Bound' /\ Past' /\ Receipts'
  BY <1>2, <1>4, <1>5, <1>6 DEF Leasing, Bound, Past, Receipts, Formed, MemberOK
<1>11. \A d \in Drainers : Draining(d)'
  <2>1. SUFFICES ASSUME NEW d \in Drainers PROVE Draining(d)'
    OBVIOUS
  <2>2. Draining(d) /\ (drainer[d].pc # "idle" => drainer[d].run \in Index /\ drainer[d].run # r)
    BY <1>3 DEF Formed, ProcessOK, DrainOK, Served, Leasing
  <2> QED
    BY <1>2, <1>6, <2>2 DEF Draining
<1> QED
  BY <1>7, <1>9, <1>10, <1>11 DEF Leasing

LEMMA WorkedLeasing == ASSUME Formed, Leasing, NEW r \in Index, Worked(r) PROVE Leasing'
<1>1. /\ UNCHANGED <<member, registry, drainer, ctl>>
      /\ Len(run') = Len(run) /\ Index' = Index /\ minted' = minted
      /\ \A q \in Index : q # r => run'[q] = run[q]
  BY DEF Worked, Becomes, Index, registry, process
<1>2. /\ Running(r) /\ run[r].service # "none" /\ run'[r].service # "none"
      /\ run'[r].checkout = run[r].checkout /\ run'[r].capacity = run[r].capacity
      /\ run'[r].drained = run[r].drained /\ run'[r].receipt = run[r].receipt
  BY DEF Worked, Running
<1>3. member.run = r /\ ~run[r].drained
  BY <1>2 DEF Leasing, WriterIsBound, DrainedEmpty, Running, Index
<1>4. \A t : (Gone(t)' <=> Gone(t)) /\ (Claimed(t)' <=> Claimed(t))
  BY <1>1, TameGone
<1>5. Kinds'
  BY <1>1, <1>2, <1>4 DEF Leasing, Kinds, IsCheckout, IsSlot, registry
<1>6. \A q \in Index : Running(q)' => Running(q)
  BY <1>1, <1>2 DEF Running
<1>7. DrainedEmpty' /\ WriterIsBound' /\ RunningKeepsSlot' /\ Bound' /\ Alone' /\ Persisting'
  BY <1>1, <1>2, <1>3, <1>6
    DEF Leasing, DrainedEmpty, WriterIsBound, RunningKeepsSlot, Bound, Index, Alone, Active,
        Persisting, registry
<1>8. Past' /\ Receipts'
  BY <1>1, <1>2, <1>3, <1>4 DEF Leasing, Past, Receipts
<1>9. \A d \in Drainers : Draining(d)'
  <2>1. SUFFICES ASSUME NEW d \in Drainers PROVE Draining(d)'
    OBVIOUS
  <2>2. Draining(d) /\ (drainer[d].pc # "idle" => drainer[d].run \in Index)
    BY DEF Formed, ProcessOK, DrainOK, Served, Leasing
  <2> QED
    BY <1>1, <1>2, <1>4, <2>2 DEF Draining
<1> QED
  BY <1>5, <1>7, <1>8, <1>9 DEF Leasing

LEMMA ConfirmedLeasing == ASSUME Formed, Leasing, NEW d \in Drainers, Confirmed(d) PROVE Leasing'
<1>1. PICK r \in Index : r = drainer[d].run
  BY DEF Confirmed, Served
<1>2. /\ UNCHANGED <<member, registry, ctl>> /\ drainer[d].pc = "drain"
      /\ Len(run') = Len(run) /\ Index' = Index /\ minted' = minted
      /\ \A q \in Index : q # r => run'[q] = run[q]
  BY <1>1 DEF Confirmed, Becomes, Index, registry
<1>3. /\ run[r].service # "none" /\ run'[r].service = "empty" /\ run'[r].drained
      /\ run'[r].checkout = run[r].checkout /\ run'[r].capacity = run[r].capacity
      /\ run'[r].receipt = run[r].receipt
  BY <1>1 DEF Confirmed, Served
<1>4. /\ drainer'[d].pc = "capacity" /\ drainer'[d].run = r
      /\ drainer'[d].released = run[r].receipt
      /\ \A f \in Drainers : f # d => drainer'[f] = drainer[f]
  BY <1>1 DEF Confirmed, Formed, Shapes, DrainType
<1>5. \A t : (Gone(t)' <=> Gone(t)) /\ (Claimed(t)' <=> Claimed(t))
  BY <1>2, TameGone
<1>6. Kinds'
  BY <1>2, <1>3, <1>5 DEF Leasing, Kinds, IsCheckout, IsSlot, registry
<1>7. \A q \in Index : Running(q)' => Running(q) /\ q # r
  BY <1>2, <1>3 DEF Running
<1>8. DrainedEmpty' /\ WriterIsBound' /\ RunningKeepsSlot' /\ Bound' /\ Persisting'
  BY <1>2, <1>3, <1>7
    DEF Leasing, DrainedEmpty, WriterIsBound, RunningKeepsSlot, Bound, Index, Persisting,
        registry, Formed, MemberOK
<1>9. Past' /\ Receipts' /\ Alone'
  BY <1>2, <1>3, <1>4, <1>5 DEF Leasing, Past, Receipts, Alone, Active
<1>10. \A f \in Drainers : Draining(f)'
  <2>1. SUFFICES ASSUME NEW f \in Drainers PROVE Draining(f)'
    OBVIOUS
  <2>2. CASE f = d
    BY <1>3, <1>4, <2>2 DEF Draining
  <2>3. CASE f # d
    <3>1. Draining(f) /\ (drainer[f].pc # "idle" => drainer[f].run \in Index)
      BY DEF Formed, ProcessOK, DrainOK, Served, Leasing
    <3> QED
      BY <1>2, <1>3, <1>4, <1>5, <2>3, <3>1 DEF Draining
  <2> QED
    BY <2>2, <2>3
<1> QED
  BY <1>6, <1>8, <1>9, <1>10 DEF Leasing

\* A receipt only grows: whoever writes it was told of what it lists.
LEMMA RecordedGrows ==
  ASSUME Formed, Leasing, NEW d \in Drainers, Recorded(d)
  PROVE  LET r == drainer[d].run
         IN /\ r \in Index /\ run[r].receipt \subseteq run'[r].receipt /\ run[r].drained
            /\ run[r].capacity \in run'[r].receipt
            /\ \A t \in run'[r].receipt : Gone(t)
<1>1. PICK r \in Index : r = drainer[d].run
  BY DEF Recorded, Served
<1> DEFINE old == run[r].receipt
           new == run'[r].receipt
           cap == run[r].capacity
           out == run[r].checkout
<1>2. /\ UNCHANGED <<member, registry, ctl>> /\ drainer[d].pc \in {"capacityBack", "checkoutBack"}
      /\ Len(run') = Len(run) /\ Index' = Index /\ minted' = minted
      /\ \A q \in Index : q # r => run'[q] = run[q]
  BY <1>1 DEF Recorded, Becomes, Index, registry, Kind
<1>3. new = drainer[d].released \cup {IF drainer[d].pc = "capacityBack" THEN cap ELSE out}
  BY <1>1, <1>2 DEF Recorded, TokenOf, Kind
<1>4. Draining(d) /\ run[r].drained /\ old \subseteq {out, cap} /\ drainer[d].released \subseteq old
  BY <1>1, <1>2 DEF Leasing, Draining, Formed, RunsOK, RunOK
<1>5. /\ drainer[d].pc = "capacityBack" => old = {} /\ Gone(cap)
      /\ drainer[d].pc = "checkoutBack" =>
           cap \in drainer[d].released /\ out \notin old /\ Gone(out)
  BY <1>1, <1>4 DEF Draining
<1> HIDE DEF old, new, cap, out
<1>6. old \subseteq new /\ cap \in new /\ \A t \in new : Gone(t)
  <2>1. \A t \in old : Gone(t)
    BY DEF Leasing, Receipts, old
  <2> QED
    BY <1>2, <1>3, <1>4, <1>5, <2>1
<1> QED
  BY <1>1, <1>4, <1>6 DEF old, new, cap

LEMMA RecordedLeasing == ASSUME Formed, Leasing, NEW d \in Drainers, Recorded(d) PROVE Leasing'
<1>1. PICK r \in Index : r = drainer[d].run
  BY DEF Recorded, Served
<1> DEFINE old == run[r].receipt
           new == run'[r].receipt
           cap == run[r].capacity
           out == run[r].checkout
<1>2. /\ UNCHANGED <<member, registry, ctl>> /\ drainer[d].pc \in {"capacityBack", "checkoutBack"}
      /\ Len(run') = Len(run) /\ Index' = Index /\ minted' = minted
      /\ \A q \in Index : q # r => run'[q] = run[q]
  BY <1>1 DEF Recorded, Becomes, Index, registry, Kind
<1>3. /\ run'[r].service = run[r].service /\ run'[r].drained = run[r].drained
      /\ run'[r].checkout = out /\ run'[r].capacity = cap
  BY <1>1 DEF Recorded
<1>4. new = drainer[d].released \cup {IF drainer[d].pc = "capacityBack" THEN cap ELSE out}
  BY <1>1, <1>2 DEF Recorded, TokenOf, Kind
<1>5. /\ drainer'[d].pc = (IF drainer[d].pc = "capacityBack" THEN "checkout" ELSE "done")
      /\ drainer'[d].run = r /\ drainer'[d].released = new
      /\ \A f \in Drainers : f # d => drainer'[f] = drainer[f]
  BY <1>1 DEF Recorded, Formed, Shapes, DrainType, Kind
<1>6. Draining(d) /\ run[r].drained /\ old \subseteq {out, cap} /\ drainer[d].released \subseteq old
  BY <1>1, <1>2 DEF Leasing, Draining, Formed, RunsOK, RunOK
<1>7. /\ drainer[d].pc = "capacityBack" => old = {} /\ Gone(cap)
      /\ drainer[d].pc = "checkoutBack" =>
           cap \in drainer[d].released /\ out \notin old /\ Gone(out)
  BY <1>1, <1>6 DEF Draining
<1> HIDE DEF old, new, cap, out
<1>8. old \subseteq new /\ cap \in new /\ \A t \in new : Gone(t)
  BY <1>1, RecordedGrows DEF old, new, cap
<1>9. \A t : (Gone(t)' <=> Gone(t)) /\ (Claimed(t)' <=> Claimed(t))
  BY <1>2, TameGone
<1>10. Kinds'
  BY <1>2, <1>3, <1>9 DEF Leasing, Kinds, IsCheckout, IsSlot, registry, cap, out
<1>11. \A q \in Index : Running(q)' <=> Running(q)
  BY <1>2, <1>3 DEF Running
<1>12. DrainedEmpty' /\ WriterIsBound' /\ RunningKeepsSlot' /\ Bound'
  BY <1>2, <1>3, <1>11
    DEF Leasing, DrainedEmpty, WriterIsBound, RunningKeepsSlot, Bound, Index, registry,
        Formed, MemberOK, cap, out
<1>13. Persisting'
  <2>1. ctl.pc = "persist" => member.run \in Index
    BY DEF Leasing, Persisting, Formed, MemberOK
  <2> QED
    BY <1>2, <1>3, <1>8, <2>1 DEF Leasing, Persisting, registry, old, new
<1>14. Past' /\ Alone'
  BY <1>2, <1>3, <1>5, <1>9 DEF Leasing, Past, Alone, Active, cap, out
<1>15. Receipts'
  BY <1>2, <1>3, <1>6, <1>8, <1>9 DEF Leasing, Receipts, cap, out, new
<1>16. \A f \in Drainers : Draining(f)'
  <2>1. SUFFICES ASSUME NEW f \in Drainers PROVE Draining(f)'
    OBVIOUS
  <2>2. CASE f = d
    <3>1. run'[r].drained /\ drainer'[d].released = new /\ new = run'[r].receipt
      BY <1>3, <1>5, <1>6 DEF new
    <3>2. drainer[d].pc = "checkoutBack" => out \in new
      BY <1>4
    <3> QED
      BY <1>2, <1>3, <1>5, <1>8, <2>2, <3>1, <3>2 DEF Draining
  <2>3. CASE f # d /\ Active(f) /\ drainer[f].run # r
    <3>1. Draining(f) /\ drainer[f].run \in Index
      BY <2>3 DEF Formed, ProcessOK, DrainOK, Served, Leasing, Active
    <3> QED
      BY <1>2, <1>5, <1>9, <2>3, <3>1 DEF Draining
  <2>4. CASE f # d /\ Active(f) /\ drainer[f].run = r
    <3>1. Draining(f)
      BY DEF Leasing
    <3>2. drainer[f].pc \notin {"idle", "drain"} =>
            run[r].drained /\ drainer[f].released \subseteq old
      BY <2>4, <3>1 DEF Draining, old
    <3>3. drainer[f].pc \in {"checkout", "checkoutBack", "done"} => cap \in drainer[f].released
      BY <2>4, <3>1 DEF Draining, cap
    <3>4. drainer[f].pc = "done" => out \in drainer[f].released
      BY <2>4, <3>1 DEF Draining, out
    <3>5. drainer[f].pc = "capacityBack" => old = {}
      BY <2>4, <3>1 DEF Draining, old
    <3>6. ~(drainer[f].pc \in {"capacityBack", "checkoutBack"} /\ drainer[d].pc = drainer[f].pc)
      BY <1>1, <2>4 DEF Leasing, Alone
    <3>7. drainer[f].pc \notin {"capacityBack", "checkoutBack"}
      BY <1>2, <1>6, <1>7, <3>2, <3>3, <3>5, <3>6
    <3>8. drainer'[f] = drainer[f] /\ run'[r].receipt = new
      BY <1>5, <2>4 DEF new
    <3> QED
      BY <1>3, <1>8, <2>4, <3>2, <3>3, <3>4, <3>7, <3>8 DEF Draining
  <2>5. CASE f # d /\ ~Active(f)
    BY <1>5, <2>5 DEF Draining, Active
  <2> QED
    BY <2>2, <2>3, <2>4, <2>5
<1> QED
  BY <1>10, <1>12, <1>13, <1>14, <1>15, <1>16 DEF Leasing

\* Only the claims of the bound run are still there to give back, and not while
\* its service runs.
LEMMA GivesBack ==
  ASSUME Formed, Leasing, NEW d \in Drainers, Active(d), drainer[d].pc # "drain", Held(TokenOf(d))
  PROVE  \A q \in Index : ~Running(q)
<1>1. PICK r \in Index : r = drainer[d].run /\ run[r].service # "none"
  BY DEF Formed, ProcessOK, DrainOK, Served, Active
<1>2. run[r].drained
  BY <1>1 DEF Leasing, Draining, Active
<1>3. ~Gone(TokenOf(d))
  BY DEF Held, Gone
<1>4. TokenOf(d) \in {run[r].capacity, run[r].checkout}
  BY <1>1 DEF TokenOf
<1>5. member.run = r
  BY <1>1, <1>3, <1>4 DEF Leasing, Past
<1> QED
  BY <1>2, <1>5 DEF Leasing, WriterIsBound, DrainedEmpty, Running, Index

LEMMA GivesGone ==
  ASSUME NEW token, Gives(token)
  PROVE  /\ Gone(token)' /\ \A t : Gone(t) => Gone(t)'
         /\ \A t : Claimed(t)' => Claimed(t)
         /\ ~Held(token) => UNCHANGED <<capacity, checkout>>
  BY DEF Gives, Gone, Claimed, Held

LEMMA ReleasesLeasing == ASSUME Formed, Leasing, NEW d \in Drainers, Releases(d) PROVE Leasing'
<1>1. PICK r \in Index : r = drainer[d].run /\ run[r].service # "none"
  BY DEF Releases, Kind, Formed, ProcessOK, DrainOK, Served
<1> DEFINE cap == run[r].capacity
           out == run[r].checkout
           token == TokenOf(d)
<1>2. /\ drainer[d].pc \in {"capacity", "checkout"} /\ Active(d)
      /\ token = IF drainer[d].pc = "capacity" THEN cap ELSE out
  BY <1>1 DEF Releases, Kind, Active, TokenOf
<1>3. /\ Alikes(run') /\ Index' = Index /\ minted' = minted
      /\ member'.run = member.run /\ member'.claim = member.claim
      /\ ctl'.pc = "persist" => ctl.pc = "persist" /\ ctl'.token = ctl.token
  BY AlikeSame
    DEF Releases, Skips, Returned, Loses, Ends, Gives, registry, Alikes, Index, Formed
<1>4. \A q \in Index : Alike(run'[q], run[q]) /\ (Running(q)' <=> Running(q))
  BY <1>3 DEF Alikes, Alike, Running
<1>5. /\ \A t : Gone(t) => Gone(t)'
      /\ \A t : Claimed(t)' => Claimed(t)
      /\ capacity' \subseteq capacity
      /\ (\E q \in Index : Running(q)) => capacity' = capacity
  <2>1. CASE UNCHANGED registry
    BY <2>1, TameGone DEF registry
  <2>2. CASE Gives(token)
    <3>1. (\E q \in Index : Running(q)) => ~Held(token)
      BY <1>2, GivesBack
    <3> QED
      BY <2>2, <3>1, GivesGone DEF Gives
  <2> QED
    BY <2>1, <2>2 DEF Releases, Skips, Returned, Loses
<1>6. checkout' = checkout \/ checkout' = None
  BY DEF Releases, Skips, Returned, Loses, Gives, registry
<1> HIDE DEF cap, out, token
<1>7. Kinds'
  BY <1>3, <1>4, <1>5 DEF Leasing, Kinds, IsCheckout, IsSlot, Alike
<1>8. DrainedEmpty' /\ WriterIsBound' /\ RunningKeepsSlot' /\ Bound'
  BY <1>3, <1>4, <1>5
    DEF Leasing, DrainedEmpty, WriterIsBound, RunningKeepsSlot, Bound, Alike, Index, Formed,
        MemberOK
<1>9. Past' /\ Receipts'
  BY <1>3, <1>4, <1>5 DEF Leasing, Past, Receipts, Alike
<1>10. Persisting'
  BY <1>3, <1>4, <1>6 DEF Leasing, Persisting, Alike, Formed, MemberOK
<1>11. \A f \in Drainers : f # d => drainer'[f] = drainer[f]
  BY DEF Releases, Skips, Returned, Loses, Ends, Formed, Shapes
<1>12. ASSUME NEW f \in Drainers, f # d PROVE Draining(f)'
  <2>1. Draining(f) /\ (drainer[f].pc # "idle" => drainer[f].run \in Index)
    BY DEF Formed, ProcessOK, DrainOK, Served, Leasing
  <2> QED
    BY <1>4, <1>5, <1>11, <1>12, <2>1 DEF Draining, Alike
<1>13. Draining(d) /\ run[r].drained /\ drainer[d].released \subseteq run[r].receipt
       /\ (drainer[d].pc = "checkout" => cap \in drainer[d].released)
  BY <1>1, <1>2 DEF Leasing, Draining, cap
<1>14. CASE Skips(d)
  <2>1. token \in drainer[d].released /\ run' = run
    BY <1>14 DEF Skips, token
  <2>2. PICK to \in DrainPcs : drainer' = [drainer EXCEPT ![d].pc = to] /\
          to = IF drainer[d].pc = "capacity" THEN "checkout" ELSE "done"
    BY <1>2, <1>14 DEF Skips, DrainPcs, Kind
  <2>3. /\ drainer'[d].pc = to /\ drainer'[d].run = r
        /\ drainer'[d].released = drainer[d].released
    BY <1>1, <2>2, MovesDrain
  <2>4. Draining(d)'
    BY <1>1, <1>2, <1>13, <2>1, <2>2, <2>3 DEF Draining, cap, out
  <2>5. Alone'
    BY <1>11, <2>2, <2>3 DEF Leasing, Alone, Active
  <2> QED
    BY <1>7, <1>8, <1>9, <1>10, <1>12, <2>4, <2>5 DEF Leasing
<1>15. CASE Returned(d)
  <2>1. PICK t : t = token
    OBVIOUS
  <2>2. ~Gone(t) /\ Gone(t)'
    BY <1>15, <2>1, GivesGone DEF Returned, Held, Gone, token
  <2>3. run' = run
    BY <1>15 DEF Returned
  <2>4. PICK to \in DrainPcs : drainer' = [drainer EXCEPT ![d].pc = to] /\
          to = IF drainer[d].pc = "capacity" THEN "capacityBack" ELSE "checkoutBack"
    BY <1>2, <1>15 DEF Returned, DrainPcs, Kind
  <2>5. /\ drainer'[d].pc = to /\ drainer'[d].run = r
        /\ drainer'[d].released = drainer[d].released
    BY <1>1, <2>4, MovesDrain
  <2>6. t \notin run[r].receipt
    BY <2>2 DEF Leasing, Receipts
  <2>7. drainer[d].pc = "capacity" => run[r].receipt = {}
    <3>1. run[r].receipt \subseteq {out, cap} /\ (out \in run[r].receipt => cap \in run[r].receipt)
      BY DEF Formed, RunsOK, RunOK, Leasing, Receipts, out, cap
    <3> QED
      BY <1>2, <2>1, <2>6, <3>1
  <2>8. to = "capacityBack" => t = cap /\ run[r].receipt = {}
    BY <1>2, <2>1, <2>4, <2>7
  <2>9. to = "checkoutBack" => t = out /\ cap \in drainer[d].released
    BY <1>2, <1>13, <2>1, <2>4
  <2>10. Draining(d)'
    <3>1. to \in {"capacityBack", "checkoutBack"}
      BY <2>4
    <3>2. t = cap => Gone(run[r].capacity)'
      BY <2>2, <2>3 DEF cap, Gone, Claimed
    <3>3. t = out => Gone(run[r].checkout)'
      BY <2>2, <2>3 DEF out, Gone, Claimed
    <3> QED
      BY <1>13, <2>3, <2>5, <2>6, <2>8, <2>9, <3>1, <3>2, <3>3 DEF Draining, cap, out
  <2>11. Alone'
    <3>1. ASSUME NEW f \in Drainers, f # d, Active(f), drainer[f].run = r,
                 drainer[f].pc = to
          PROVE  FALSE
      <4>1. Draining(f)
        BY DEF Leasing
      <4>2. to = "capacityBack" => Gone(cap)
        BY <3>1, <4>1 DEF Draining, cap
      <4>3. to = "checkoutBack" => Gone(out)
        BY <3>1, <4>1 DEF Draining, out
      <4> QED
        BY <2>2, <2>4, <2>8, <2>9, <4>2, <4>3
    <3> QED
      BY <1>11, <2>4, <2>5, <3>1 DEF Leasing, Alone, Active
  <2> QED
    BY <1>7, <1>8, <1>9, <1>10, <1>12, <2>10, <2>11 DEF Leasing
<1>16. CASE Loses(d)
  <2>1. drainer'[d].pc = "idle"
    BY <1>16, IdleDrain DEF Loses, Ends
  <2>2. Draining(d)'
    BY <2>1 DEF Draining
  <2>3. Alone'
    BY <1>11, <2>1 DEF Leasing, Alone, Active
  <2> QED
    BY <1>7, <1>8, <1>9, <1>10, <1>12, <2>2, <2>3 DEF Leasing
<1> QED
  BY <1>14, <1>15, <1>16 DEF Releases

-------------------------------------------------------------------------------
LEMMA LeasingInit == Init => Leasing
<1> SUFFICES ASSUME Init PROVE Leasing
  OBVIOUS
<1>1. /\ run = <<>> /\ Index = {} /\ minted = 2
      /\ member.run = None /\ member.claim = 1 /\ ctl.pc = "saveRun"
      /\ checkout.token = 1 /\ drainer = [d \in Drainers |-> NoDrain]
      /\ \A k \in capacity : k = [token |-> 2, phase |-> "implementing"]
  BY DEF Init, NoTask, Index
<1>2. (\A k \in capacity : k.token = 2) /\ \A d \in Drainers : drainer[d].pc = "idle"
  BY <1>1 DEF NoDrain
<1>3. Kinds
  BY <1>1, <1>2 DEF Kinds, IsCheckout, IsSlot, Claimed
<1>4. DrainedEmpty /\ WriterIsBound /\ RunningKeepsSlot /\ Bound /\ Past /\ Receipts
  BY <1>1 DEF DrainedEmpty, WriterIsBound, RunningKeepsSlot, Bound, Past, Receipts, Index
<1>5. (\A d \in Drainers : Draining(d)) /\ Alone /\ Persisting
  BY <1>1, <1>2 DEF Draining, Alone, Active, Persisting
<1> QED
  BY <1>3, <1>4, <1>5 DEF Leasing

LEMMA LeasingNext == ASSUME Formed, Leasing, [Next]_vars PROVE Leasing'
<1>1. Moves
  BY FormedNext
<1> QED
  BY <1>1, TameLeasing, ClaimsLeasing, PersistLeasing, GrantsLeasing, SavesLeasing,
     BindsLeasing, ServesLeasing, WorkedLeasing,
     ConfirmedLeasing, RecordedLeasing, ReleasesLeasing DEF Moves

LEMMA LeasingAlways == Spec => [](Formed /\ Leasing)
<1>1. Init => Formed /\ Leasing
  BY FormedInit, LeasingInit
<1>2. Formed /\ Leasing /\ [Next]_vars => Formed' /\ Leasing'
  BY FormedNext, LeasingNext
<1> QED
  BY <1>1, <1>2, PTL DEF Spec

\* A service that runs in the workspace belongs to the run the member is bound to,
\* whatever drains, recovery and the deadline do to the run meanwhile.
THEOREM WriterBound == Spec => []WriterIsBound
<1>1. Leasing => WriterIsBound
  BY DEF Leasing
<1> QED
  BY <1>1, LeasingAlways, PTL

\* No drain, cancellation or recovery returns the slot of a service that runs.
THEOREM SlotKept == Spec => []RunningKeepsSlot
<1>1. Leasing => RunningKeepsSlot
  BY DEF Leasing
<1> QED
  BY <1>1, LeasingAlways, PTL

\* What a drain receipt lists has left the registry, whichever of the drains of the
\* run wrote it, and after a release whose answer was lost as well.
THEOREM ReceiptsTruthful == Spec => []ReceiptTruthful
<1>1. Leasing => ReceiptTruthful
  BY DEF Leasing, Receipts, DrainedEmpty, ReceiptTruthful, Gone, Index
<1> QED
  BY <1>1, LeasingAlways, PTL

-------------------------------------------------------------------------------
(* The workspace is leased as CheckoutLease says.                          *)

\* The refinement: who holds the lease, and who writes.
Holder == IF checkout = None THEN None ELSE checkout.token

Writes(r) == r \in Index /\ Running(r)
WriterFits ==
  /\ (\A r \in Index : ~Writes(r)) => Writer = None
  /\ \A r \in Index : Writes(r) => Writer = run[r].checkout /\ Writer # None

LEMMA WriterOne == Formed /\ Leasing => WriterFits
<1> SUFFICES ASSUME Formed, Leasing PROVE WriterFits
  OBVIOUS
<1> DEFINE w == {q \in Index : Running(q)}
<1>1. Writer = IF w = {} THEN None ELSE run[CHOOSE q \in w : TRUE].checkout
  BY DEF Writer, Index
<1>2. ASSUME NEW r \in Index, Running(r) PROVE Writer = run[r].checkout /\ Writer # None
  <2>1. w = {r}
    BY <1>2 DEF Leasing, WriterIsBound, Index
  <2>2. (CHOOSE q \in w : TRUE) = r
    BY <2>1
  <2>3. run[r].checkout \in Nat
    BY <1>2, Types DEF RunType
  <2> QED
    BY <1>1, <2>1, <2>2, <2>3, HandoffAssumption
<1> QED
  BY <1>1, <1>2 DEF WriterFits, Writes

LEMMA SameWriter ==
  ASSUME WriterFits, WriterFits', \A q : Writes(q)' <=> Writes(q),
         \A q : Writes(q) => run'[q].checkout = run[q].checkout
  PROVE  Writer' = Writer
<1>1. CASE \E q : Writes(q)
  BY <1>1 DEF WriterFits, Writes
<1>2. CASE \A q : ~Writes(q)
  BY <1>2 DEF WriterFits, Writes
<1> QED
  BY <1>1, <1>2

\* No step but these moves the service that writes.
LEMMA StillWriter ==
  ASSUME Formed, WriterFits, WriterFits',
         \/ Tame \/ Claims \/ Persist \/ Grants \/ Saves \/ Binds
         \/ \E d \in Drainers : Releases(d) \/ Recorded(d)
  PROVE  Writer' = Writer
<1>1. CASE Alikes(run')
  BY <1>1, SameWriter DEF Alikes, Alike, Writes, Running, Index
<1>2. CASE Saves
  <2>1. \A q : q \in Index' <=> q \in Index \/ q = Len(run) + 1
    BY <1>2, Types DEF Saves, Index
  <2>2. run'[Len(run) + 1].service = "none"
    BY <1>2 DEF Saves, NewRun
  <2>3. \A q \in Index : run'[q] = run[q] /\ q # Len(run) + 1
    BY <1>2, Types DEF Saves, Index
  <2> QED
    BY <2>1, <2>2, <2>3, SameWriter DEF Writes, Running
<1>3. ASSUME NEW d \in Drainers, Recorded(d) PROVE Writer' = Writer
  <2>1. /\ Index' = Index
        /\ \A q \in Index : /\ run'[q].service = run[q].service
                            /\ run'[q].checkout = run[q].checkout
    BY <1>3 DEF Recorded, Becomes, Index, Served
  <2> QED
    BY <2>1, SameWriter DEF Writes, Running
<1>4. ASSUME NEW d \in Drainers, Releases(d) PROVE Alikes(run')
  BY <1>4, AlikeSame DEF Releases, Skips, Returned, Loses, Ends, Alikes, Formed
<1>5. CASE Tame \/ Claims \/ Persist \/ Grants \/ Binds
  <2>1. Alikes(run)
    BY AlikeSame DEF Formed
  <2>2. run' = run \/ Tame
    BY <1>5 DEF Claims, Persist, Grants, Binds
  <2>3. Alikes(run')
    BY <2>1, <2>2 DEF Tame, Alikes
  <2> QED
    BY <1>1, <2>3
<1> QED
  BY <1>1, <1>2, <1>3, <1>4, <1>5

LEMMA LeaseStep ==
  ASSUME Formed, Leasing, WriterFits, WriterFits', [Next]_vars
  PROVE  [AbstractLease!LeaseNext]_(AbstractLease!leaseVars)
<1> DEFINE Same == Writer' = Writer /\ Holder' = Holder /\ minted' = minted
<1>1. Same => [AbstractLease!LeaseNext]_(AbstractLease!leaseVars)
  BY DEF AbstractLease!leaseVars, Holder
<1>2. minted \in Nat
  BY DEF Formed, Shapes
<1>3. CASE Tame \/ Persist \/ Saves \/ Binds \/ \E d \in Drainers : Recorded(d)
  <2>1. UNCHANGED registry
    BY <1>3 DEF Tame, Persist, Saves, Binds, Recorded
  <2>2. Writer' = Writer
    BY <1>3, StillWriter
  <2> QED
    BY <1>1, <2>1, <2>2 DEF registry, Holder
<1>4. CASE Claims
  <2>1. Writer' = Writer
    BY <1>4, StillWriter
  <2>2. CASE checkout' = checkout /\ minted' = minted
    BY <1>1, <2>1, <2>2 DEF Holder
  <2>3. CASE /\ checkout = None /\ checkout' = [token |-> minted + 1, phase |-> member.phase]
             /\ minted' = minted + 1
    <3>1. Holder = None /\ Holder' = minted + 1
      BY <1>4, <2>3 DEF Holder, Claims
    <3>2. minted + 1 # None
      BY <1>2, HandoffAssumption
    <3> QED
      BY <1>2, <2>1, <2>3, <3>1, <3>2 DEF AbstractLease!LeaseNext, AbstractLease!Lease, Holder
  <2> QED
    BY <1>4, <2>2, <2>3 DEF Claims
<1>5. CASE Grants
  <2>1. Writer' = Writer /\ Holder' = Holder /\ minted' = minted + 1
    BY <1>5, StillWriter DEF Grants, Holder
  <2> QED
    BY <1>2, <2>1 DEF AbstractLease!LeaseNext, AbstractLease!Skip, Holder
<1>6. CASE Serves
  <2>1. PICK r \in Index : r = Len(run)
    BY <1>6, Last DEF Serves, Formed, StandOK
  <2>2. run[r].service = "none" /\ member.run = r /\ Claimed(run[r].checkout)
    BY <1>6, <2>1 DEF Serves, Leased, Formed, StandOK
  <2>3. \A q \in Index : ~Writes(q)
    BY <2>2 DEF Leasing, WriterIsBound, Writes, Running, Index
  <2>4. Writer = None
    BY <2>3 DEF WriterFits
  <2>5. Holder = run[r].checkout /\ Holder # None
    <3>1. run[r].checkout \in Nat
      BY Types DEF RunType
    <3> QED
      BY <2>2, <3>1, HandoffAssumption DEF Claimed, Holder
  <2>6. Writes(r)' /\ run'[r].checkout = run[r].checkout /\ Index' = Index
    BY <1>6, <2>1 DEF Serves, Becomes, Writes, Running, Index
  <2>7. Writer' = run[r].checkout
    BY <2>6 DEF WriterFits
  <2>8. Holder' = Holder /\ minted' = minted
    BY <1>6 DEF Serves, registry, Holder
  <2> QED
    BY <2>4, <2>5, <2>7, <2>8 DEF AbstractLease!LeaseNext, AbstractLease!Write, Holder
<1>7. ASSUME NEW r \in Index, UNCHANGED registry, Index' = Index, NEW e, Becomes(r, e),
             e.service = "empty" \/ Writes(r),
             e.service \in {"populated", "empty"}, e.checkout = run[r].checkout
      PROVE  [AbstractLease!LeaseNext]_(AbstractLease!leaseVars)
  <2>1. Holder' = Holder /\ minted' = minted
    BY <1>7 DEF registry, Holder
  <2>2. \A q \in Index : run'[q] = IF q = r THEN e ELSE run[q]
    BY <1>7 DEF Becomes
  <2>3. \A q : Writes(q)' => Writes(q)
    BY <1>7, <2>2 DEF Writes, Running
  <2>4. CASE \A q : Writes(q)' <=> Writes(q)
    <3>1. Writer' = Writer
      BY <1>7, <2>2, <2>4, SameWriter DEF Writes
    <3> QED
      BY <1>1, <2>1, <3>1
  <2>5. CASE \E q : Writes(q) /\ ~Writes(q)'
    <3>1. \A q : ~Writes(q)'
      BY <2>3, <2>5 DEF Leasing, WriterIsBound, Writes, Index
    <3>2. Writer' = None
      BY <3>1 DEF WriterFits
    <3> QED
      BY <2>1, <3>2 DEF AbstractLease!LeaseNext, AbstractLease!Stop, Holder
  <2> QED
    BY <2>3, <2>4, <2>5
<1>8. ASSUME NEW r \in Index, Worked(r)
      PROVE  [AbstractLease!LeaseNext]_(AbstractLease!leaseVars)
  <2>1. PICK e : e = run'[r]
    OBVIOUS
  <2> QED
    BY <1>7, <1>8, <2>1 DEF Worked, Becomes, Index, Writes
<1>9. ASSUME NEW d \in Drainers, Confirmed(d)
      PROVE  [AbstractLease!LeaseNext]_(AbstractLease!leaseVars)
  <2>1. PICK r \in Index : r = drainer[d].run
    BY <1>9 DEF Confirmed, Served
  <2>2. PICK e : e = run'[r]
    OBVIOUS
  <2>3. Becomes(r, e) /\ e.service = "empty" /\ e.checkout = run[r].checkout /\ UNCHANGED registry
    BY <1>9, <2>1, <2>2 DEF Confirmed
  <2> QED
    BY <1>7, <2>3 DEF Becomes, Index
<1>10. ASSUME NEW d \in Drainers, Releases(d)
       PROVE  [AbstractLease!LeaseNext]_(AbstractLease!leaseVars)
  <2>1. Writer' = Writer
    BY <1>10, StillWriter
  <2>2. PICK t : t = TokenOf(d)
    OBVIOUS
  <2>3. CASE UNCHANGED registry
    BY <1>1, <2>1, <2>3 DEF registry, Holder
  <2>4. CASE Gives(t) /\ ~Held(t)
    <3>1. checkout' = checkout /\ minted' = minted
      BY <2>4, GivesGone DEF Gives
    <3> QED
      BY <1>1, <2>1, <3>1 DEF Holder
  <2>5. CASE Gives(t) /\ Held(t)
    <3>1. Active(d) /\ drainer[d].pc # "drain"
      BY <1>10 DEF Releases, Kind, Active
    <3>2. \A q \in Index : ~Writes(q)
      BY <2>2, <2>5, <3>1, GivesBack DEF Writes
    <3>3. Writer = None /\ minted' = minted
      BY <2>5, <3>2 DEF WriterFits, Gives
    <3>4. Holder' = Holder \/ Holder' = None
      BY <2>5 DEF Gives, Holder
    <3> QED
      BY <1>1, <2>1, <3>3, <3>4 DEF AbstractLease!LeaseNext, AbstractLease!Return, Holder
  <2> QED
    BY <1>10, <2>2, <2>3, <2>4, <2>5 DEF Releases, Skips, Returned, Loses
<1>11. Moves
  BY FormedNext
<1> QED
  BY <1>3, <1>4, <1>5, <1>6, <1>8, <1>9, <1>10, <1>11 DEF Moves

\* The phases take turns in the workspace: it is leased to one token at a time,
\* written only under the lease, and given back after the last write.
THEOREM Refinement == Spec => ImplementsLease
<1>1. Init => AbstractLease!LeaseInit
  <2> SUFFICES ASSUME Init PROVE AbstractLease!LeaseInit
    OBVIOUS
  <2>1. checkout # None /\ checkout.token = 1
    BY NoneAssumption DEF Init, Phases, Stages
  <2>2. Writer = None
    BY DEF Init, Writer
  <2>3. minted = 2
    BY DEF Init
  <2> QED
    BY <2>1, <2>2, <2>3 DEF AbstractLease!LeaseInit
<1>2. Formed /\ Leasing => WriterFits
  BY WriterOne
<1>3. Formed /\ Leasing /\ WriterFits /\ WriterFits' /\ [Next]_vars
        => [AbstractLease!LeaseNext]_(AbstractLease!leaseVars)
  BY LeaseStep
<1> QED
  BY <1>1, <1>2, <1>3, LeasingAlways, PTL DEF Spec, ImplementsLease, AbstractLease!LeaseSpec
===============================================================================
