-------------------------- MODULE HandoffTurnsProofs --------------------------
(***************************************************************************)
(* The phases of a member take turns: at each one the last has given back  *)
(* what it held, so that nothing is left behind when the member is sealed. *)
(***************************************************************************)
EXTENDS HandoffProofs, NaturalsInduction, WellFoundedInduction

\* Nothing runs, and nothing is claimed.
Quiet == (\A r \in Index : ~Running(r)) /\ checkout = None /\ capacity = {}
\* A review state is there to read, and it calls for a stage.
Chosen == Latest \in Index /\ NextStage \in Stages
\* The process holds nothing of any run.
Silent == inbox = <<>> /\ handles = {} /\ \A d \in Drainers : ~Active(d)

\* What the controller may still be told of a run: its summary, or the end of its
\* stream, its timer or the drain these began.
HeardOf(r) ==
  \/ \E n \in 1..Len(inbox) : inbox[n].run = r
  \/ \E h \in handles : h[1] = r
  \/ \E d \in {"finish", "cancel"} : Active(d) /\ drainer[d].run = r

\* Between a remount and the binding of the new run, the member has none; from
\* the binding to the outcome, the newest.
Bindings ==
  /\ ctl.pc \in {"reserve", "saveRun", "bind"} => member.run = None
  /\ ctl.pc \in {"serve", "outcome"} =>
       member.run = Len(run) /\ run[Len(run)].phase = member.phase

\* The phases the controller can meet on its way, and what it is draining.
Idles ==
  /\ member.phase = "sealed" => ctl.pc \in {"idle", "down", "resume"}
  /\ member.phase = "queued" => ctl.pc \in {"idle", "down", "resume", "intent"}
  /\ ctl.pc = "draining" <=> Active("recover")
  /\ ctl.pc = "draining" => /\ drainer["recover"].run = member.run
                            /\ member.phase \in Phases \cup {"blocked"}
  /\ ctl.pc \in {"resume", "draining"} => ctl.task = "resume"

\* The bound run, once served, holds the only slot.
OwnSlot ==
  member.run # None /\ run[member.run].service # "none" =>
    \A k \in capacity : k.token = run[member.run].capacity

\* A slot with no run to return it is the one the member's phase will replay.
Slots ==
  /\ ctl.pc = "persist" => capacity = {}
  /\ ctl.pc \in {"reserve", "saveRun", "bind", "serve"} =>
       \A k \in capacity : k.phase = member.phase
  /\ member.run = None =>
       /\ (member.phase = "queued" \/ ctl.pc = "intent") => capacity = {}
       /\ member.phase \in Phases => \A k \in capacity : k.phase = member.phase
       /\ member.phase = "blocked" /\ member.reason = "liveness" =>
            \A k \in capacity : k.phase = "implementing"

\* A claim the member does not know of yet is left by a controller that died, and
\* nothing is heard of the bound run any more.
Orphan ==
  /\ checkout # None /\ checkout.token # member.claim
  /\ ctl.pc # "persist" /\ member.run # None
  => ~HeardOf(member.run)

\* A run that is told to be over has given everything back.
Told ==
  \A n \in 1..Len(inbox) : inbox[n].state \in Over =>
    LET q == run[inbox[n].run] IN {q.checkout, q.capacity} \subseteq q.receipt

\* A replacement hears nothing of runs until it bound one.
Hush == \/ ctl.pc = "down"
        \/ ctl.pc = "resume" /\ member.phase \in Phases
        \/ ctl.pc = "idle" /\ member.run = None /\ member.phase \in Phases
        => Silent

\* When an implementation is heard of, the member has recorded it.
Voice == \A r \in Index : HeardOf(r) =>
           \/ run[r].phase # "implementing" \/ member.impl # None
           \/ ctl.pc = "outcome" /\ r = Len(run)

\* The stage that was chosen stays the next one until its run is there, and a
\* member that waits left nothing behind, or waits for the chosen stage's slot.
Choice ==
  /\ ctl.task = "launch" /\ ctl.pc \in {"intent", "remount", "persist", "reserve"} => Chosen
  /\ ctl.task = "launch" /\ ctl.pc = "remount" => \A r \in Index : ~Running(r)
  /\ ctl.pc = "intent" => ctl.task = "launch" /\ (Quiet \/ member.run = None)
  /\ member.phase = "queued" => Quiet \/ (member.run = None /\ Chosen)

\* The inductive invariant of the phases taking turns.
Turns == /\ Bindings /\ Idles /\ OwnSlot /\ Slots /\ Orphan /\ Told /\ Hush
      /\ Voice /\ Choice /\ SealedQuiet

-------------------------------------------------------------------------------
\* What most steps have in common here: claims only leave, no service starts, and
\* nothing is heard of a run that was not to be heard before.
Steady ==
  /\ Len(run') = Len(run)
  /\ \A q \in Index :
       /\ run'[q].phase = run[q].phase /\ run'[q].checkout = run[q].checkout
       /\ run'[q].capacity = run[q].capacity
       /\ run'[q].service = "none" <=> run[q].service = "none"
       /\ Running(q)' => Running(q)
       /\ run[q].receipt \subseteq run'[q].receipt
  /\ member'.run = member.run /\ member'.claim = member.claim
  /\ capacity' \subseteq capacity /\ (checkout' = checkout \/ checkout' = None)
  /\ \A q : HeardOf(q)' => HeardOf(q)

\* No result is delivered.
Read == \A q \in Index : run'[q].result = run[q].result

LEMMA BoundIndex == ASSUME Formed, member.run # None PROVE member.run \in Index
  BY DEF Formed, MemberOK

LEMMA SteadyIndex == ASSUME Steady PROVE Index' = Index
  BY DEF Steady, Index

LEMMA AlikesSteady ==
  ASSUME Formed, Alikes(run'), member'.run = member.run, member'.claim = member.claim,
         capacity' \subseteq capacity, checkout' = checkout \/ checkout' = None,
         \A q : HeardOf(q)' => HeardOf(q)
  PROVE  Steady /\ Read
  BY DEF Alikes, Alike, Steady, Read, Running

LEMMA SteadyOwn == ASSUME Formed, Turns, Steady PROVE OwnSlot'
<1>1. member'.run = member.run /\ capacity' \subseteq capacity
  BY DEF Steady
<1>2. CASE member.run # None
  <2>1. PICK m \in Index : m = member.run
    BY <1>2, BoundIndex
  <2>2. run'[m].capacity = run[m].capacity /\ (run'[m].service = "none" <=> run[m].service = "none")
    BY DEF Steady
  <2> QED
    BY <1>1, <2>1, <2>2 DEF Turns, OwnSlot
<1> QED
  BY <1>1, <1>2 DEF OwnSlot

LEMMA SteadyOrphan ==
  ASSUME Formed, Turns, Steady,
         ctl.pc = "persist" => ctl'.pc = "persist" \/ \A q : ~HeardOf(q)'
  PROVE  Orphan'
  BY DEF Turns, Orphan, Steady

LEMMA SteadyQuiet == ASSUME Steady, Quiet PROVE Quiet'
  BY SteadyIndex DEF Steady, Quiet

LEMMA ToldKept ==
  ASSUME Formed, Turns, Steady,
         \A n \in 1..Len(inbox') : \E m \in 1..Len(inbox) : inbox'[n] = inbox[m]
  PROVE  Told'
<1>1. SUFFICES ASSUME NEW n \in 1..Len(inbox'), inbox'[n].state \in Over
               PROVE  {run'[inbox'[n].run].checkout, run'[inbox'[n].run].capacity}
                         \subseteq run'[inbox'[n].run].receipt
  BY DEF Told
<1>2. PICK m \in 1..Len(inbox) : inbox'[n] = inbox[m]
  OBVIOUS
<1>3. PICK q \in Index : q = inbox[m].run
  BY DEF Formed, ProcessOK, Served
<1>4. {run[q].checkout, run[q].capacity} \subseteq run[q].receipt
  BY <1>1, <1>2, <1>3 DEF Turns, Told
<1>5. /\ run'[q].checkout = run[q].checkout /\ run'[q].capacity = run[q].capacity
      /\ run[q].receipt \subseteq run'[q].receipt
  BY DEF Steady
<1> QED
  BY <1>2, <1>3, <1>4, <1>5

\* The next stage is read from phases, results and the recorded implementation.
LEMMA ChosenSame ==
  ASSUME Formed, Steady, Read, member'.impl = member.impl
  PROVE  /\ Latest' = Latest /\ (Chosen' <=> Chosen)
<1>1. {q \in 1..Len(run') : run'[q].phase \in Stages}
        = {q \in 1..Len(run) : run[q].phase \in Stages}
  BY DEF Steady, Index
<1>2. Latest' = Latest
  BY <1>1 DEF Latest
<1>3. ASSUME Latest \in Index PROVE NextStage' = NextStage
  <2>1. PICK q \in Index : q = Latest
    BY <1>3
  <2>2. run'[q].phase = run[q].phase /\ run'[q].result = run[q].result
    BY DEF Steady, Read
  <2> QED
    BY <1>2, <2>1, <2>2 DEF NextStage
<1> QED
  BY <1>2, <1>3, SteadyIndex DEF Chosen

\* While a stage is chosen, or awaited, nothing runs.
LEMMA NothingRuns ==
  ASSUME Formed, Leasing, Turns,
         \/ ctl.task = "launch" /\ ctl.pc \in {"intent", "remount", "persist", "reserve"}
         \/ member.phase = "queued"
  PROVE  \A q \in Index : ~Running(q)
<1>1. CASE Quiet
  BY <1>1 DEF Quiet
<1>2. CASE member.run = None
  <2>1. ASSUME NEW q \in Index, Running(q) PROVE FALSE
    <3>1. member.run = q
      BY <2>1 DEF Leasing, WriterIsBound, Index
    <3>2. None \notin Index
      BY HandoffAssumption, Types DEF Index
    <3> QED
      BY <1>2, <3>1, <3>2
  <2> QED
    BY <2>1
<1>3. CASE ctl.pc = "persist"
  <2>1. PICK m \in Index : m = member.run
    BY <1>3, BoundIndex DEF Leasing, Persisting
  <2>2. run[m].service = "empty"
    BY <1>3, <2>1 DEF Leasing, Persisting, DrainedEmpty
  <2> QED
    BY <2>1, <2>2 DEF Leasing, WriterIsBound, Running, Index
<1> QED
  BY <1>1, <1>2, <1>3 DEF Turns, Choice, Bindings

\* A step that leaves the member and the controller alone.
LEMMA AsideTurns ==
  ASSUME Formed, Leasing, Turns, Steady, UNCHANGED <<member, ctl>>, Told', Silent => Silent',
         Active("recover")' <=> Active("recover"),
         Active("recover") => drainer'["recover"].run = drainer["recover"].run,
         Read \/ \E q \in Index : Running(q)
  PROVE  Turns'
<1>1. member' = member /\ ctl' = ctl /\ Index' = Index /\ Len(run') = Len(run)
      /\ capacity' \subseteq capacity
  BY SteadyIndex DEF Steady
<1>2. \A q \in Index : run'[q].phase = run[q].phase /\ (Running(q)' => Running(q))
  BY DEF Steady
<1>3. Bindings'
  <2>1. ctl.pc \in {"serve", "outcome"} => Len(run) \in Index
    BY Last DEF Formed, StandOK
  <2> QED
    BY <1>1, <1>2, <2>1 DEF Turns, Bindings
<1>4. Idles'
  BY <1>1 DEF Turns, Idles
<1>5. OwnSlot' /\ Orphan'
  BY <1>1, SteadyOwn, SteadyOrphan
<1>6. Slots'
  BY <1>1 DEF Turns, Slots
<1>7. Hush'
  BY <1>1 DEF Turns, Hush
<1>8. Voice'
  BY <1>1, <1>2 DEF Turns, Voice, Steady
<1>9. Choice'
  <2>1. Quiet => Quiet'
    BY SteadyQuiet
  <2>2. \/ ctl.task = "launch" /\ ctl.pc \in {"intent", "remount", "persist", "reserve"}
        \/ member.phase = "queued"
        => (Chosen' <=> Chosen)
    BY <1>1, ChosenSame, NothingRuns
  <2> QED
    BY <1>1, <1>2, <2>1, <2>2 DEF Turns, Choice
<1>10. SealedQuiet'
  <2>1. member.phase = "sealed" => Quiet
    BY DEF Turns, SealedQuiet, Quiet, Index
  <2>2. member'.phase = "sealed" => Quiet'
    BY <1>1, <2>1, SteadyQuiet
  <2> QED
    BY <2>2 DEF SealedQuiet, Quiet, Index
<1> QED
  BY <1>3, <1>4, <1>5, <1>6, <1>7, <1>8, <1>9, <1>10 DEF Turns

-------------------------------------------------------------------------------
\* What is heard when a callback turns into a drain.
LEMMA Hands ==
  ASSUME NEW r, UNCHANGED inbox, NEW h \in handles, h[1] = r, handles' = handles \ {h},
         NEW c \in {"finish", "cancel"},
         \A d \in Drainers : d # c => drainer'[d] = drainer[d],
         drainer'[c] = drainer[c] \/ drainer'[c].run = r
  PROVE  \A q : HeardOf(q)' => HeardOf(q)
  BY DEF HeardOf, Active, Drainers

LEMMA FinishTurns == ASSUME Formed, Leasing, Turns, Finish PROVE Turns'
<1>1. PICK r \in 1..Len(run) :
        /\ <<r, "stream">> \in handles /\ handles' = handles \ {<<r, "stream">>}
        /\ UNCHANGED drainer \/ Drains("finish", r)
  BY DEF Finish
<1>2. UNCHANGED <<member, run, registry, ctl, inbox>> /\ Alikes(run)
  BY AlikeSame DEF Finish, Formed
<1>3. /\ \A d \in Drainers : d # "finish" => drainer'[d] = drainer[d]
      /\ drainer'["finish"] = drainer["finish"] \/ drainer'["finish"].run = r
  BY <1>1 DEF Drains, Formed, Shapes, Drainers
<1>4. \A q : HeardOf(q)' => HeardOf(q)
  BY <1>1, <1>2, <1>3, Hands
<1>5. Steady /\ Read
  BY <1>2, <1>4, AlikesSteady DEF registry
<1>6. Told'
  BY <1>2, <1>5, ToldKept
<1>7. ~Silent
  BY <1>1 DEF Silent
<1> QED
  BY <1>2, <1>3, <1>5, <1>6, <1>7, AsideTurns DEF Active, Drainers

LEMMA DeadlineTurns == ASSUME Formed, Leasing, Turns, Deadline PROVE Turns'
<1>1. PICK r \in 1..Len(run) :
        /\ <<r, "timer">> \in handles /\ handles' = handles \ {<<r, "timer">>}
        /\ run' = [run EXCEPT ![r].state = "cancelling"] /\ Drains("cancel", r)
  BY DEF Deadline
<1>2. UNCHANGED <<member, registry, ctl, inbox>> /\ Alikes(run')
  <2>1. Alikes(run')
    BY <1>1, AlikeSame, AlikeState DEF Formed, States, Index
  <2> QED
    BY <2>1 DEF Deadline
<1>3. /\ \A d \in Drainers : d # "cancel" => drainer'[d] = drainer[d]
      /\ drainer'["cancel"] = drainer["cancel"] \/ drainer'["cancel"].run = r
  BY <1>1 DEF Drains, Formed, Shapes, Drainers
<1>4. \A q : HeardOf(q)' => HeardOf(q)
  BY <1>1, <1>2, <1>3, Hands
<1>5. Steady /\ Read
  BY <1>2, <1>4, AlikesSteady DEF registry
<1>6. Told'
  BY <1>2, <1>5, ToldKept
<1>7. ~Silent
  BY <1>1 DEF Silent
<1> QED
  BY <1>2, <1>3, <1>5, <1>6, <1>7, AsideTurns DEF Active, Drainers

LEMMA WorkerEndsTurns == ASSUME Formed, Leasing, Turns, WorkerEnds PROVE Turns'
<1>1. PICK r \in Index : Worked(r)
  BY WorkerEndsStep
<1>2. UNCHANGED <<member, registry, process>>
  BY <1>1 DEF Worked
<1>3. Steady
  BY <1>1, <1>2 DEF Worked, Becomes, Steady, Running, registry, process, HeardOf, Active
<1>4. Told'
  BY <1>2, <1>3, ToldKept DEF process
<1> QED
  BY <1>1, <1>2, <1>3, <1>4, AsideTurns DEF Worked, process, Silent, Active

LEMMA StillTurns ==
  ASSUME Formed, Leasing, Turns, UNCHANGED <<member, run, registry, process>> PROVE Turns'
<1>1. Steady /\ Read
  BY AlikeSame, AlikesSteady DEF registry, process, HeardOf, Active, Formed
<1>2. Told'
  BY <1>1, ToldKept DEF process
<1> QED
  BY <1>1, <1>2, AsideTurns DEF process, Silent, Active

\* A drain that goes on.
LEMMA GoesOn ==
  ASSUME Formed, Leasing, Turns, NEW d \in Drainers, Active(d), UNCHANGED <<member, ctl,
         inbox, handles>>,
         drainer'[d].run = drainer[d].run, Active(d)',
         \A e \in Drainers : e # d => drainer'[e] = drainer[e],
         Len(run') = Len(run), capacity' \subseteq capacity,
         checkout' = checkout \/ checkout' = None, Read,
         \A q \in Index :
           /\ run'[q].phase = run[q].phase /\ run'[q].checkout = run[q].checkout
           /\ run'[q].capacity = run[q].capacity
           /\ run'[q].service = "none" <=> run[q].service = "none"
           /\ Running(q)' => Running(q)
           /\ run[q].receipt \subseteq run'[q].receipt
  PROVE  Turns'
<1>1. \A q : HeardOf(q)' => HeardOf(q)
  BY DEF HeardOf, Active, Drainers
<1>2. Steady
  BY <1>1 DEF Steady
<1>3. Told'
  BY <1>2, ToldKept
<1>4. ~Silent /\ (Active("recover")' <=> Active("recover"))
      /\ drainer'["recover"].run = drainer["recover"].run
  BY DEF Silent, Active, Drainers
<1> QED
  BY <1>2, <1>3, <1>4, AsideTurns

LEMMA ConfirmedTurns == ASSUME Formed, Leasing, Turns, NEW d \in Drainers, Confirmed(d) PROVE Turns'
<1>1. PICK r \in Index : r = drainer[d].run
  BY DEF Confirmed, Served
<1>2. /\ UNCHANGED <<member, registry, ctl, inbox, handles>> /\ drainer[d].pc = "drain"
      /\ Len(run') = Len(run)
      /\ \A q \in Index : q # r => run'[q] = run[q]
  BY <1>1 DEF Confirmed, Becomes
<1>3. /\ run[r].service # "none" /\ run'[r].service = "empty"
      /\ run'[r].phase = run[r].phase /\ run'[r].checkout = run[r].checkout
      /\ run'[r].capacity = run[r].capacity /\ run'[r].receipt = run[r].receipt
      /\ run'[r].result = run[r].result
  BY <1>1 DEF Confirmed, Served
<1>4. /\ drainer'[d].pc = "capacity" /\ drainer'[d].run = drainer[d].run
      /\ \A f \in Drainers : f # d => drainer'[f] = drainer[f]
  BY DEF Confirmed, Formed, Shapes, DrainType
<1>5. \A q \in Index : Running(q)' => Running(q)
  BY <1>2, <1>3 DEF Running
<1> QED
  BY <1>2, <1>3, <1>4, <1>5, GoesOn DEF registry, Read, Active

LEMMA RecordedTurns == ASSUME Formed, Leasing, Turns, NEW d \in Drainers, Recorded(d) PROVE Turns'
<1>1. PICK r \in Index : r = drainer[d].run
  BY DEF Recorded, Served
<1>2. /\ UNCHANGED <<member, registry, ctl, inbox, handles>> /\ Active(d)
      /\ drainer[d].pc \in {"capacityBack", "checkoutBack"}
      /\ Len(run') = Len(run)
      /\ \A q \in Index : q # r => run'[q] = run[q]
  BY <1>1 DEF Recorded, Becomes, Kind, Active
<1>3. /\ run'[r].service = run[r].service
      /\ run'[r].phase = run[r].phase /\ run'[r].checkout = run[r].checkout
      /\ run'[r].capacity = run[r].capacity /\ run'[r].result = run[r].result
  BY <1>1 DEF Recorded
<1>4. /\ drainer'[d].pc \in {"checkout", "done"} /\ drainer'[d].run = drainer[d].run
      /\ \A f \in Drainers : f # d => drainer'[f] = drainer[f]
  BY DEF Recorded, Formed, Shapes, DrainType
<1>5. \A q \in Index : Running(q)' => Running(q)
  BY <1>2, <1>3 DEF Running
<1>6. run[r].receipt \subseteq run'[r].receipt
  BY <1>1, RecordedGrows
<1> QED
  BY <1>2, <1>3, <1>4, <1>5, <1>6, GoesOn DEF registry, Read, Active

\* A run gets another state, and nothing else changes in the records.
LEMMA StateChanged ==
  ASSUME Formed, NEW r \in Index, NEW s \in States, run' = [run EXCEPT ![r].state = s]
  PROVE  /\ Alikes(run') /\ run'[r].state = s /\ run'[r].settled = run[r].settled
         /\ \A q \in Index : q # r => run'[q] = run[q]
<1> DEFINE e == [run[r] EXCEPT !.state = s]
<1>1. run[r] \in RunType
  BY Types
<1>2. e \in RunType /\ Alike(e, run[r]) /\ e.state = s /\ e.settled = run[r].settled
  BY <1>1 DEF RunType, Alike
<1>3. run' = [run EXCEPT ![r] = e]
  OBVIOUS
<1> HIDE DEF e
<1>4. Becomes(r, e)
  BY <1>2, <1>3, ExceptRun
<1> QED
  BY <1>2, <1>4 DEF Becomes, Alikes, Alike

\* A drain that finish or cancelRun began ends, and the end is told.
LEMMA Telling ==
  ASSUME Formed, NEW d \in {"finish", "cancel"}, Active(d),
         NEW r, r = drainer[d].run, NEW s \in Over \cup {"blocked"},
         run' = [run EXCEPT ![r].state = s],
         inbox' = Append(inbox, [run |-> r, state |-> s]),
         drainer' = [drainer EXCEPT ![d] = NoDrain], handles' \subseteq handles
  PROVE  /\ r \in Index /\ Served(r) /\ Alikes(run')
         /\ run'[r].state = s /\ run'[r].settled = run[r].settled
         /\ \A q \in Index : q # r => run'[q] = run[q]
         /\ Len(inbox) \in Nat /\ Len(inbox') = Len(inbox) + 1
         /\ \A n \in 1..Len(inbox) : inbox'[n] = inbox[n]
         /\ inbox'[Len(inbox) + 1].run = r /\ inbox'[Len(inbox) + 1].state = s
         /\ ~Active(d)' /\ \A e \in Drainers : e # d => drainer'[e] = drainer[e]
         /\ \A q : HeardOf(q)' => HeardOf(q)
<1> DEFINE x == [run |-> r, state |-> s]
<1>1. r \in Index /\ Served(r)
  BY DEF Formed, ProcessOK, DrainOK, Served, Active, Drainers
<1>2. /\ Alikes(run') /\ run'[r].state = s /\ run'[r].settled = run[r].settled
      /\ \A q \in Index : q # r => run'[q] = run[q]
  <2>1. s \in States
    BY DEF States
  <2> QED
    BY <1>1, <2>1, StateChanged
<1>3. x.run = r /\ x.state = s /\ x \in [run : Nat, state : Over \cup {"blocked"}]
  BY <1>1 DEF Index
<1> HIDE DEF x
<1>4. inbox \in Seq([run : Nat, state : Over \cup {"blocked"}])
  BY DEF Formed, Shapes
<1>5. /\ Len(inbox') = Len(inbox) + 1 /\ inbox'[Len(inbox) + 1] = x /\ Len(inbox) \in Nat
      /\ \A n \in 1..Len(inbox) : inbox'[n] = inbox[n]
  BY <1>3, <1>4, AppendProperties DEF x
<1>6. /\ ~Active(d)' /\ \A e \in Drainers : e # d => drainer'[e] = drainer[e]
  BY IdleDrain DEF Active, Drainers
<1>7. \A q : HeardOf(q)' => HeardOf(q)
  <2>1. SUFFICES ASSUME NEW q, HeardOf(q)' PROVE HeardOf(q)
    OBVIOUS
  <2>2. CASE \E n \in 1..Len(inbox') : inbox'[n].run = q
    <3>1. PICK n \in 1..Len(inbox') : inbox'[n].run = q
      BY <2>2
    <3>2. CASE n \in 1..Len(inbox)
      BY <1>5, <3>1, <3>2 DEF HeardOf
    <3>3. CASE n = Len(inbox) + 1
      BY <1>3, <1>5, <3>1, <3>3 DEF HeardOf
    <3> QED
      BY <1>5, <3>2, <3>3
  <2>3. CASE \E h \in handles' : h[1] = q
    BY <2>3 DEF HeardOf
  <2>4. CASE \E e \in {"finish", "cancel"} : drainer'[e].pc # "idle" /\ drainer'[e].run = q
    BY <1>6, <2>4 DEF HeardOf, Active, Drainers
  <2> QED
    BY <2>1, <2>2, <2>3, <2>4 DEF HeardOf, Active
<1> QED
  BY <1>1, <1>2, <1>3, <1>5, <1>6, <1>7

LEMMA ToldEnd ==
  ASSUME Formed, Leasing, Turns, NEW d \in {"finish", "cancel"}, Active(d),
         NEW r, r = drainer[d].run, NEW s \in Over \cup {"blocked"},
         UNCHANGED <<member, ctl>>, run' = [run EXCEPT ![r].state = s],
         inbox' = Append(inbox, [run |-> r, state |-> s]),
         drainer' = [drainer EXCEPT ![d] = NoDrain], handles' \subseteq handles,
         capacity' \subseteq capacity, checkout' = checkout \/ checkout' = None,
         s \in Over => {run[r].checkout, run[r].capacity} \subseteq run[r].receipt
  PROVE  Turns'
<1>1. /\ r \in Index /\ Alikes(run')
      /\ Len(inbox) \in Nat /\ Len(inbox') = Len(inbox) + 1
      /\ \A n \in 1..Len(inbox) : inbox'[n] = inbox[n]
      /\ inbox'[Len(inbox) + 1].run = r /\ inbox'[Len(inbox) + 1].state = s
      /\ ~Active(d)' /\ \A e \in Drainers : e # d => drainer'[e] = drainer[e]
      /\ \A q : HeardOf(q)' => HeardOf(q)
  BY Telling
<1>2. Steady /\ Read
  BY <1>1, AlikesSteady
<1>3. Told'
  <2>1. SUFFICES ASSUME NEW n \in 1..Len(inbox'), inbox'[n].state \in Over
                 PROVE  {run'[inbox'[n].run].checkout, run'[inbox'[n].run].capacity}
                           \subseteq run'[inbox'[n].run].receipt
    BY DEF Told
  <2>2. PICK q \in Index : /\ q = inbox'[n].run
                         /\ {run[q].checkout, run[q].capacity} \subseteq run[q].receipt
    <3>1. CASE n \in 1..Len(inbox)
      BY <1>1, <2>1, <3>1 DEF Formed, ProcessOK, Served, Turns, Told
    <3>2. CASE n = Len(inbox) + 1
      BY <1>1, <2>1, <3>2
    <3> QED
      BY <1>1, <3>1, <3>2
  <2> QED
    BY <1>2, <2>2 DEF Steady
<1>4. ~Silent /\ drainer'["recover"] = drainer["recover"]
  BY <1>1 DEF Silent, Drainers
<1> QED
  BY <1>2, <1>3, <1>4, AsideTurns DEF Active

LEMMA SteadyTurns ==
  ASSUME Formed, Leasing, Turns, Steady, Told', ctl.pc # "persist", Bindings', Idles',
         Slots', Hush',
         Choice', member'.impl = member.impl, ctl.pc # "outcome",
         member'.phase = "sealed" => Quiet'
  PROVE  Turns'
<1>1. OwnSlot' /\ Orphan'
  BY SteadyOwn, SteadyOrphan
<1>2. Voice'
  BY SteadyIndex DEF Turns, Voice, Steady
<1>3. SealedQuiet'
  BY DEF SealedQuiet, Quiet, Index
<1> QED
  BY <1>1, <1>2, <1>3 DEF Turns

\* The member is blocked: the task is over, and its claims stay.
LEMMA BlockedTurns ==
  ASSUME Formed, Leasing, Turns, Steady, Told', ctl.pc \notin {"persist", "outcome"},
         ctl'.pc = "idle",
         member'.phase = "blocked", member'.impl = member.impl, ~Active("recover")',
         \/ member'.reason = "other"
         \/ member.run = None => \A k \in capacity : k.phase = "implementing"
  PROVE  Turns'
<1>1. Bindings' /\ Idles' /\ Hush' /\ Choice'
  BY DEF Bindings, Idles, Hush, Choice, Phases, Stages
<1>2. Slots'
  BY DEF Slots, Steady, Phases, Stages
<1> QED
  BY <1>1, <1>2, SteadyTurns

\* The member waits for capacity.
LEMMA QueuedTurns ==
  ASSUME Formed, Leasing, Turns, Steady, Read, Told', ctl.pc \notin {"persist", "outcome"},
         ctl'.pc = "idle", member'.phase = "queued", member'.impl = member.impl,
         ~Active("recover")', Quiet \/ (member.run = None /\ Chosen /\ capacity = {})
  PROVE  Turns'
<1>1. Bindings' /\ Idles' /\ Hush'
  BY DEF Bindings, Idles, Hush, Phases, Stages
<1>2. Slots'
  BY DEF Slots, Steady, Phases, Stages, Quiet
<1>3. Choice'
  BY ChosenSame, SteadyQuiet DEF Choice, Steady
<1> QED
  BY <1>1, <1>2, <1>3, SteadyTurns

-------------------------------------------------------------------------------
\* The inbox holds nothing new.
Fewer == \A n \in 1..Len(inbox') : \E m \in 1..Len(inbox) : inbox'[n] = inbox[m]

LEMMA FewerHeard ==
  ASSUME Fewer, UNCHANGED drainer, handles' \subseteq handles
  PROVE  \A q : HeardOf(q)' => HeardOf(q)
  BY DEF Fewer, HeardOf, Active

\* A step of the controller that leaves claims, drains and handles alone.
LEMMA ControlSteady ==
  ASSUME Formed, Turns, Alikes(run'), UNCHANGED <<registry, drainer, handles>>, Fewer,
         member'.run = member.run, member'.claim = member.claim
  PROVE  Steady /\ Read /\ Told'
<1>1. Steady /\ Read
  BY FewerHeard, AlikesSteady DEF registry
<1> QED
  BY <1>1, ToldKept DEF Fewer

LEMMA Greatest ==
  ASSUME NEW n \in Nat, NEW S \in SUBSET (1..n), S # {}
  PROVE  \E x \in S : \A y \in S : x >= y
<1> DEFINE R == {p \in Nat \X Nat : p[1] < p[2]}
           T == {k \in Nat : \A y \in S : y <= k}
<1>1. IsWellFoundedOn(R, Nat)
  BY NatLessThanWellFounded DEF OpToRel
<1>2. \A a, b \in Nat : a < b => <<a, b>> \in R
  OBVIOUS
<1> HIDE DEF R
<1>3. n \in T /\ T \subseteq Nat /\ \A y \in S : y \in Nat /\ y >= 1
  OBVIOUS
<1>4. \A k \in Nat : k \in T <=> \A y \in S : y <= k
  OBVIOUS
<1> HIDE DEF T
<1>5. PICK x \in T : \A y \in T : <<y, x>> \notin R
  BY <1>1, <1>3, WFMin
<1>6. x \in Nat /\ \A y \in S : y <= x
  BY <1>3, <1>4, <1>5
<1>7. x \in S
  <2> SUFFICES ASSUME x \notin S PROVE FALSE
    OBVIOUS
  <2>1. x - 1 \in Nat /\ \A y \in S : y <= x - 1
    <3>1. PICK z \in S : z \in Nat /\ z >= 1 /\ z <= x
      BY <1>3, <1>6
    <3>2. x - 1 \in Nat
      BY <1>6, <3>1
    <3>3. ASSUME NEW y \in S PROVE y <= x - 1
      <4>1. y \in Nat /\ y <= x /\ y # x
        BY <1>3, <1>6
      <4> QED
        BY <1>6, <4>1
    <3> QED
      BY <3>2, <3>3
  <2>2. <<x - 1, x>> \notin R
    BY <1>4, <1>5, <2>1
  <2>3. x - 1 < x
    BY <1>6
  <2> QED
    BY <1>2, <1>6, <2>1, <2>2, <2>3
<1> QED
  BY <1>3, <1>6, <1>7

LEMMA LatestIndex ==
  ASSUME Formed, NEW q \in Index, run[q].phase # "implementing" \/ member.impl # None
  PROVE  Latest \in Index
<1> DEFINE stages == {n \in 1..Len(run) : run[n].phase \in Stages}
<1>1. CASE stages = {}
  <2>1. run[q].phase \in Phases
    BY Types
  <2>2. member.impl # None
    BY <1>1, <2>1 DEF Index, Phases
  <2> QED
    BY <1>1, <2>2 DEF Latest, Formed, MemberOK
<1>2. CASE stages # {}
  <2>1. \E x \in stages : \A y \in stages : x >= y
    BY <1>2, Greatest, Types
  <2>2. Max(stages) \in stages
    BY <2>1 DEF Max
  <2> QED
    BY <1>2, <2>2 DEF Latest, Index
<1> QED
  BY <1>1, <1>2

\* The review of the run that came to its end goes on from a workspace that is
\* empty, or from the slot the chosen stage waits for.
LEMMA DriveTurns ==
  ASSUME Formed, Leasing, Turns, ctl.pc = "idle", NEW r \in 0..Len(run), DriveReview(r),
         UNCHANGED <<registry, drainer, handles>>, Fewer, Silent => Silent',
         member.phase \in Phases \cup {"queued"}, Latest \in Index,
         Quiet \/ (member.run = None /\ Chosen /\ capacity = {})
  PROVE  Turns'
<1>1. /\ Alikes(run) /\ Alikes(Handled(r)) /\ member \in MemberType
      /\ ~Active("recover")' /\ capacity' = capacity
  BY AlikeSame, HandledAlike DEF Formed, Shapes, Turns, Idles, Active, registry
<1> HIDE DEF Handled
<1>2. CASE /\ NextStage \in Stages /\ UNCHANGED <<member, run>>
           /\ ctl' = [NoTask EXCEPT !.pc = "intent", !.task = "launch",
                                    !.stage = NextStage, !.from = r]
  <2>1. ctl'.pc = "intent" /\ ctl'.task = "launch"
    BY <1>2 DEF NoTask
  <2>2. member' = member /\ run' = run /\ NextStage \in Stages
    BY <1>2
  <2>3. Steady /\ Read /\ Told'
    BY <1>1, <2>2, ControlSteady
  <2>4. Chosen'
    BY <2>2, <2>3, ChosenSame DEF Chosen
  <2>5. Bindings' /\ Idles' /\ Hush'
    BY <1>1, <2>1, <2>2 DEF Bindings, Idles, Hush, Phases, Stages
  <2>6. Slots'
    BY <1>1, <2>1, <2>2 DEF Turns, Slots, Quiet
  <2>7. Choice'
    BY <2>1, <2>2, <2>3, <2>4, SteadyQuiet DEF Choice
  <2>8. member'.phase # "sealed"
    BY <2>2 DEF Phases, Stages
  <2> QED
    BY <2>2, <2>3, <2>5, <2>6, <2>7, <2>8, SteadyTurns
<1>3. CASE /\ NextStage = None /\ run' = Handled(r) /\ UNCHANGED ctl
           /\ member' = [member EXCEPT !.phase = "sealed", !.reason = None]
  <2>1. /\ member'.phase = "sealed" /\ member'.run = member.run
        /\ member'.claim = member.claim /\ member'.impl = member.impl
    BY <1>1, <1>3 DEF MemberType
  <2>2. ctl'.pc = "idle" /\ Alikes(run')
    BY <1>1, <1>3
  <2>3. Steady /\ Read /\ Told'
    BY <2>1, <2>2, ControlSteady
  <2>4. ~Chosen
    BY <1>3, NoneAssumption DEF Chosen, Phases
  <2>5. Quiet'
    BY <2>3, <2>4, SteadyQuiet
  <2>6. Bindings' /\ Idles' /\ Hush' /\ Choice'
    BY <1>1, <2>1, <2>2 DEF Bindings, Idles, Hush, Choice, Phases, Stages
  <2>7. Slots'
    BY <2>1, <2>2 DEF Slots, Phases, Stages
  <2> QED
    BY <2>1, <2>3, <2>5, <2>6, <2>7, SteadyTurns
<1>4. CASE member' = [member EXCEPT !.phase = "queued"] /\ UNCHANGED <<run, ctl>>
  <2>1. /\ member'.phase = "queued" /\ member'.run = member.run
        /\ member'.claim = member.claim /\ member'.impl = member.impl
    BY <1>1, <1>4 DEF MemberType
  <2>2. ctl'.pc = "idle" /\ Alikes(run')
    BY <1>1, <1>4
  <2>3. Steady /\ Read /\ Told'
    BY <2>1, <2>2, ControlSteady
  <2> QED
    BY <1>1, <2>1, <2>2, <2>3, QueuedTurns
<1>5. CASE /\ member' = [member EXCEPT !.phase = "blocked", !.reason = "other"]
           /\ run' = Handled(r) /\ UNCHANGED ctl
  <2>1. /\ member'.phase = "blocked" /\ member'.run = member.run /\ member'.reason = "other"
        /\ member'.claim = member.claim /\ member'.impl = member.impl
    BY <1>1, <1>5 DEF MemberType
  <2>2. ctl'.pc = "idle" /\ Alikes(run')
    BY <1>1, <1>5
  <2>3. Steady /\ Read /\ Told'
    BY <2>1, <2>2, ControlSteady
  <2> QED
    BY <1>1, <2>1, <2>2, <2>3, BlockedTurns
<1>6. CASE UNCHANGED <<member, run, ctl>>
  <2>1. Steady /\ Read /\ Told'
    BY <1>1, <1>6, ControlSteady
  <2> QED
    BY <1>6, <2>1, AsideTurns DEF Active
<1> QED
  BY <1>2, <1>3, <1>4, <1>5, <1>6 DEF DriveReview

\* A summary that moves the member on is of the bound run, which is over and has
\* given everything back.
LEMMA OverIsQuiet ==
  ASSUME Formed, Leasing, Turns, ctl.pc = "idle", inbox # <<>>,
         Head(inbox).state \in Over, member.run \in {None, Head(inbox).run},
         member.phase = run[Head(inbox).run].phase
  PROVE  Quiet /\ member.run = Head(inbox).run /\ member.run \in Index
<1>1. 1 \in 1..Len(inbox) /\ Head(inbox) = inbox[1]
  BY HeadTailProperties DEF Formed, Shapes
<1>2. PICK r \in Index : r = Head(inbox).run
  BY <1>1 DEF Formed, ProcessOK, Served
<1>3. run[r].service # "none" /\ run[r].phase \in Phases
  BY <1>1, <1>2, Types DEF Formed, ProcessOK, Served
<1>4. member.run = r
  BY <1>2, <1>3 DEF Turns, Hush, Silent
<1>5. {run[r].checkout, run[r].capacity} \subseteq run[r].receipt
  BY <1>1, <1>2 DEF Turns, Told
<1>6. run[r].drained /\ Gone(run[r].checkout) /\ Gone(run[r].capacity)
  BY <1>5 DEF Leasing, Receipts
<1>7. \A q \in Index : ~Running(q)
  BY <1>4, <1>6 DEF Leasing, DrainedEmpty, WriterIsBound, Running, Index
<1>8. r # None
  BY <1>2, HandoffAssumption, Types DEF Index
<1>9. capacity = {}
  BY <1>3, <1>4, <1>6, <1>8 DEF Turns, OwnSlot, Gone
<1>10. checkout = None
  <2>1. HeardOf(r)
    BY <1>1, <1>2 DEF HeardOf
  <2>2. ~Claimed(member.claim)
    BY <1>4, <1>6, <1>8 DEF Leasing, Bound, Gone
  <2> QED
    BY <1>4, <1>8, <2>1, <2>2 DEF Turns, Orphan, Claimed
<1> QED
  BY <1>2, <1>4, <1>7, <1>9, <1>10 DEF Quiet

LEMMA HandleTurns == ASSUME Formed, Leasing, Turns, Handle PROVE Turns'
<1> DEFINE r == Head(inbox).run
           state == Head(inbox).state
<1>1. ctl.pc = "idle" /\ inbox # <<>> /\ inbox' = Tail(inbox)
      /\ UNCHANGED <<registry, drainer, handles>>
  BY DEF Handle
<1>2. 1 \in 1..Len(inbox) /\ Head(inbox) = inbox[1] /\ state \in Over \cup {"blocked"}
  <2>1. inbox \in Seq([run : Nat, state : Over \cup {"blocked"}])
    BY DEF Formed, Shapes
  <2>2. 1 \in 1..Len(inbox) /\ Head(inbox) = inbox[1]
    BY <1>1, <2>1, HeadTailProperties
  <2>3. inbox[1] \in [run : Nat, state : Over \cup {"blocked"}]
    BY <2>1, <2>2, ElementOfSeq
  <2> QED
    BY <2>2, <2>3
<1>3. r \in Index /\ HeardOf(r)
  BY <1>2 DEF Formed, ProcessOK, Served, HeardOf
<1>4. r \in 0..Len(run)
  BY <1>3, Types DEF Index
<1>5. Fewer
  <2>1. inbox \in Seq([run : Nat, state : Over \cup {"blocked"}]) /\ Len(inbox) \in Nat
    BY DEF Formed, Shapes
  <2>2. /\ Len(inbox') = Len(inbox) - 1
        /\ \A n \in 1..Len(inbox') : inbox'[n] = inbox[n + 1]
    BY <1>1, <2>1, HeadTailProperties
  <2> QED
    BY <2>1, <2>2 DEF Fewer
<1>6. ~Silent /\ Alikes(run) /\ member \in MemberType /\ ~Active("recover")'
  BY <1>1, AlikeSame DEF Silent, Formed, Shapes, Turns, Idles, Active
<1> HIDE DEF r, state
<1>7. CASE UNCHANGED <<member, run, ctl>>
  <2>1. Steady /\ Read /\ Told'
    BY <1>1, <1>5, <1>6, <1>7, ControlSteady
  <2> QED
    BY <1>1, <1>6, <1>7, <2>1, AsideTurns DEF Active
<1>8. CASE /\ member' = [member EXCEPT !.phase = "blocked", !.reason = "other"]
           /\ run' = [run EXCEPT ![r].settled = TRUE] /\ UNCHANGED ctl
  <2>1. /\ member'.phase = "blocked" /\ member'.run = member.run /\ member'.reason = "other"
        /\ member'.claim = member.claim /\ member'.impl = member.impl
    BY <1>6, <1>8 DEF MemberType
  <2>2. ctl'.pc = "idle" /\ Alikes(run')
    BY <1>1, <1>3, <1>6, <1>8, AlikeSettled
  <2>3. Steady /\ Read /\ Told'
    BY <1>1, <1>5, <2>1, <2>2, ControlSteady
  <2> QED
    BY <1>1, <1>6, <2>1, <2>2, <2>3, BlockedTurns
<1>9. CASE /\ DriveReview(r) /\ member.run \in {None, r} /\ member.phase = run[r].phase
           /\ state \in Over
  <2>1. Quiet
    BY <1>1, <1>9, OverIsQuiet DEF r, state
  <2>2. run[r].phase # "implementing" \/ member.impl # None
    BY <1>1, <1>3 DEF Turns, Voice
  <2>3. Latest \in Index /\ member.phase \in Phases
    BY <1>3, <1>9, <2>2, LatestIndex, Types
  <2> QED
    BY <1>1, <1>4, <1>5, <1>6, <1>9, <2>1, <2>3, DriveTurns
<1> QED
  BY <1>2, <1>7, <1>8, <1>9 DEF Handle, r, state, Over

LEMMA RetryQueuedTurns == ASSUME Formed, Leasing, Turns, RetryQueued PROVE Turns'
<1>1. /\ ctl.pc = "idle" /\ DriveReview(0) /\ UNCHANGED <<registry, drainer, inbox, handles>>
      /\ member.phase = "queued" /\ member.impl # None
  BY DEF RetryQueued
<1>2. member.impl \in Index
  BY <1>1 DEF Formed, MemberOK
<1>3. Latest \in Index
  BY <1>1, <1>2, LatestIndex
<1>4. Quiet \/ (member.run = None /\ Chosen /\ capacity = {})
  BY <1>1 DEF Turns, Choice, Slots
<1> QED
  BY <1>1, <1>3, <1>4, Types, DriveTurns DEF Fewer, Silent, Active

-------------------------------------------------------------------------------
LEMMA BlockFields ==
  ASSUME Formed, NEW rs, Alikes(rs), NEW why \in {"liveness", "other"}, Block(rs, why)
  PROVE  /\ Alikes(run') /\ ctl'.pc = "idle" /\ member'.phase = "blocked"
         /\ member'.reason = why /\ member'.run = member.run
         /\ member'.claim = member.claim /\ member'.impl = member.impl
<1>1. Alikes(run')
  BY SettledAlike DEF Block, Formed, StandOK
<1>2. ctl'.pc = "idle"
  BY DEF Block, NoTask
<1>3. member \in MemberType /\ member' = [member EXCEPT !.phase = "blocked", !.reason = why]
  BY DEF Block, Formed, Shapes
<1> QED
  BY <1>1, <1>2, <1>3 DEF MemberType

LEMMA BlocksTurns ==
  ASSUME Formed, Leasing, Turns, NEW rs, Alikes(rs), NEW why \in {"liveness", "other"},
         Block(rs, why),
         ctl.pc \notin {"persist", "outcome"}, UNCHANGED <<registry, inbox, handles>>,
         drainer' = drainer \/ drainer' = [drainer EXCEPT !["recover"] = NoDrain],
         ~Active("recover")',
         \/ why = "other"
         \/ member.run = None => \A k \in capacity : k.phase = "implementing"
  PROVE  Turns'
<1>1. /\ Alikes(run') /\ ctl'.pc = "idle" /\ member'.phase = "blocked"
      /\ member'.reason = why /\ member'.run = member.run
      /\ member'.claim = member.claim /\ member'.impl = member.impl
  BY BlockFields
<1>2. \A q : HeardOf(q)' => HeardOf(q)
  BY DEF HeardOf, Active, Formed, Shapes, Drainers
<1>3. Steady /\ Read
  BY <1>1, <1>2, AlikesSteady DEF registry
<1>4. Told'
  BY <1>3, ToldKept
<1> QED
  BY <1>1, <1>3, <1>4, BlockedTurns

LEMMA QueueFields ==
  ASSUME Formed, Queue
  PROVE  /\ ctl'.pc = "idle" /\ member'.phase = "queued" /\ run' = run
         /\ member'.run = member.run
         /\ member'.claim = member.claim /\ member'.impl = member.impl
<1>1. ctl'.pc = "idle" /\ run' = run
  BY DEF Queue, NoTask
<1>2. member \in MemberType /\ member' = [member EXCEPT !.phase = "queued"]
  BY DEF Queue, Formed, Shapes
<1> QED
  BY <1>1, <1>2 DEF MemberType

\* The controller waits for no drain, and no drain of its own is under way.
LEMMA NoRecovery == ASSUME Turns, ctl.pc # "draining" PROVE ~Active("recover")
  BY DEF Turns, Idles

LEMMA IntentTurns == ASSUME Formed, Leasing, Turns, Intent PROVE Turns'
<1>1. /\ UNCHANGED <<registry, drainer, inbox, handles>> /\ ctl.pc = "intent" /\ Alikes(run)
      /\ Fewer /\ ~Active("recover")'
  BY AlikeSame, NoRecovery DEF Intent, Formed, Fewer, Active
<1>2. /\ Chosen /\ ctl.task = "launch" /\ (Quiet \/ member.run = None)
      /\ (member.run = None => capacity = {})
  BY <1>1 DEF Turns, Choice, Slots
<1>3. CASE Queue
  <2>1. /\ ctl'.pc = "idle" /\ member'.phase = "queued" /\ run' = run
        /\ member'.run = member.run
        /\ member'.claim = member.claim /\ member'.impl = member.impl
    BY <1>3, QueueFields
  <2>2. Steady /\ Read /\ Told'
    BY <1>1, <2>1, ControlSteady
  <2> QED
    BY <1>1, <1>2, <2>1, <2>2, QueuedTurns
<1>4. CASE Block(run, "other")
  BY <1>1, <1>4, BlocksTurns
<1>5. CASE /\ Goto("remount") /\ UNCHANGED run
           /\ member' = [member EXCEPT !.phase = ctl.stage, !.reason = None]
  <2>1. /\ member'.phase \in Stages /\ member'.run = member.run
        /\ member'.claim = member.claim /\ member'.impl = member.impl
    BY <1>1, <1>5 DEF Formed, Shapes, MemberType, StandOK
  <2>2. ctl'.pc = "remount" /\ ctl'.task = ctl.task
    BY <1>5, Going DEF Pcs
  <2>3. run' = run /\ capacity' = capacity
    BY <1>1, <1>5 DEF registry
  <2>4. Steady /\ Read /\ Told'
    BY <1>1, <2>1, <2>3, ControlSteady
  <2>5. Bindings' /\ Idles' /\ Hush'
    BY <1>1, <2>1, <2>2 DEF Bindings, Idles, Hush, Phases, Stages
  <2>6. Slots'
    BY <1>2, <2>1, <2>2, <2>3 DEF Slots, Stages, Phases, Quiet
  <2>7. \A q \in Index : ~Running(q)
    BY <1>1, <1>2, NothingRuns
  <2>8. Choice'
    BY <1>2, <2>1, <2>2, <2>4, <2>7, ChosenSame, SteadyIndex DEF Choice, Steady, Stages
  <2>9. member'.phase # "sealed"
    BY <2>1 DEF Stages
  <2> QED
    BY <1>1, <2>1, <2>4, <2>5, <2>6, <2>8, <2>9, SteadyTurns
<1> QED
  BY <1>3, <1>4, <1>5 DEF Intent

\* The claims of the bound run are gone when its receipt lists its checkout.
LEMMA RemountableEmpty ==
  ASSUME Formed, Leasing, Turns, Remountable
  PROVE  capacity = {} /\ (\A q \in Index : ~Running(q)) /\ ~Claimed(member.claim)
<1>1. PICK m \in Index : m = member.run
  BY BoundIndex DEF Remountable
<1>2. /\ run[m].drained /\ run[m].service = "empty" /\ member.claim = run[m].checkout
      /\ run[m].checkout \in run[m].receipt
  BY <1>1 DEF Remountable, Leasing, DrainedEmpty, Bound
<1>3. Gone(run[m].capacity) /\ Gone(run[m].checkout)
  BY <1>2 DEF Leasing, Receipts
<1>4. m # None
  BY <1>1 DEF Remountable
<1>5. capacity = {}
  BY <1>1, <1>2, <1>3, <1>4 DEF Turns, OwnSlot, Gone
<1>6. \A q \in Index : ~Running(q)
  BY <1>1, <1>2 DEF Leasing, WriterIsBound, Running, Index
<1> QED
  BY <1>2, <1>3, <1>5, <1>6 DEF Gone

LEMMA ClaimsTurns == ASSUME Formed, Leasing, Turns, Claims PROVE Turns'
<1>1. /\ UNCHANGED <<member, run, capacity, drainer, inbox, handles>> /\ Index' = Index
      /\ ctl.pc = "remount" /\ ctl'.pc = "persist" /\ ctl'.task = ctl.task /\ Remountable
  BY DEF Claims, Index
<1>2. capacity = {}
  BY <1>1, RemountableEmpty
<1>3. ~Active("recover")
  BY <1>1, NoRecovery
<1>4. member.phase \notin {"sealed", "queued"}
  BY <1>1 DEF Turns, Idles
<1>5. Bindings' /\ Idles' /\ Slots' /\ Hush'
  BY <1>1, <1>2, <1>3, <1>4 DEF Turns, Bindings, Idles, Slots, Hush, Active
<1>6. OwnSlot' /\ Orphan' /\ Told' /\ Voice' /\ SealedQuiet'
  BY <1>1, <1>4 DEF Turns, OwnSlot, Orphan, Told, Voice, SealedQuiet, HeardOf, Active
<1>7. Chosen' <=> Chosen
  BY <1>1 DEF Chosen, NextStage, Latest, Index
<1>8. Choice'
  BY <1>1, <1>4, <1>7 DEF Turns, Choice
<1> QED
  BY <1>5, <1>6, <1>8 DEF Turns

LEMMA RemountTurns == ASSUME Formed, Leasing, Turns, Remount PROVE Turns'
<1>1. /\ UNCHANGED <<drainer, inbox, handles>> /\ ctl.pc = "remount" /\ Alikes(run)
      /\ Fewer /\ ~Active("recover")'
  BY AlikeSame, NoRecovery DEF Remount, Formed, Fewer, Active
<1>2. CASE Block(run, "other") /\ UNCHANGED registry
  BY <1>1, <1>2, BlocksTurns
<1>3. CASE /\ Claimed(member.claim) /\ member.run = None
           /\ Goto("reserve") /\ UNCHANGED <<member, run, registry>>
  <2>1. ctl'.pc = "reserve" /\ ctl'.task = ctl.task
    BY <1>3, Going DEF Pcs
  <2>2. Steady /\ Read /\ Told'
    BY <1>1, <1>3, ControlSteady
  <2>3. member.phase \in Phases
    BY <1>1 DEF Formed, StandOK, Mounting
  <2>4. member' = member /\ run' = run /\ capacity' = capacity /\ member.run = None
    BY <1>3 DEF registry
  <2>5. Bindings' /\ Idles' /\ Hush'
    BY <1>1, <2>1, <2>3, <2>4 DEF Bindings, Idles, Hush, Phases, Stages
  <2>6. Slots'
    BY <2>1, <2>3, <2>4 DEF Turns, Slots, Phases, Stages
  <2>7. Choice'
    BY <1>1, <2>1, <2>2, <2>3, <2>4, ChosenSame DEF Turns, Choice, Phases, Stages
  <2>8. member'.phase # "sealed"
    BY <2>3, <2>4 DEF Phases, Stages
  <2> QED
    BY <1>1, <2>2, <2>4, <2>5, <2>6, <2>7, <2>8, SteadyTurns
<1>4. CASE Claims
  BY <1>4, ClaimsTurns
<1> QED
  BY <1>2, <1>3, <1>4, RemountCases

LEMMA PersistTurns == ASSUME Formed, Leasing, Turns, Persist PROVE Turns'
<1>1. /\ UNCHANGED <<run, registry, drainer, inbox, handles>> /\ ctl.pc = "persist"
      /\ Goto("reserve") /\ member' = [member EXCEPT !.claim = ctl.token, !.run = None]
      /\ member \in MemberType /\ ctl.token \in Nat /\ member.phase \in Phases
  BY DEF Persist, Formed, Shapes, StandOK, Mounting, CtlType
<1>2. ctl'.pc = "reserve" /\ ctl'.task = ctl.task
  BY <1>1, Going DEF Pcs
<1>3. member'.phase = member.phase /\ member'.run = None /\ member'.impl = member.impl
  BY <1>1 DEF MemberType
<1>4. run' = run /\ capacity' = capacity /\ capacity = {} /\ ~Active("recover")
  BY <1>1, NoRecovery DEF registry, Turns, Slots
<1>5. Bindings' /\ Idles' /\ Slots' /\ Hush'
  BY <1>1, <1>2, <1>3, <1>4 DEF Bindings, Idles, Slots, Hush, Phases, Stages, Active
<1>6. OwnSlot' /\ Orphan'
  BY <1>3 DEF OwnSlot, Orphan
<1>7. Told' /\ Voice'
  BY <1>1, <1>3 DEF Turns, Told, Voice, HeardOf, Active, Index
<1>8. Chosen' <=> Chosen
  BY <1>3, <1>4 DEF Chosen, NextStage, Latest, Index
<1>9. Choice' /\ SealedQuiet'
  BY <1>1, <1>2, <1>3, <1>8 DEF Turns, Choice, SealedQuiet, Phases, Stages
<1> QED
  BY <1>5, <1>6, <1>7, <1>9 DEF Turns

LEMMA GrantsTurns == ASSUME Formed, Leasing, Turns, Grants PROVE Turns'
<1>1. /\ UNCHANGED <<member, run, checkout, drainer, inbox, handles>> /\ ctl.pc = "reserve"
      /\ capacity' = capacity \cup {[token |-> minted + 1, phase |-> member.phase]}
      /\ member.phase \in Phases
  BY DEF Grants, Formed, StandOK, Mounting
<1>2. ctl'.pc = "saveRun" /\ ctl'.task = ctl.task
  BY Going DEF Grants, Pcs
<1>3. member.run = None /\ ~Active("recover")
  BY <1>1, NoRecovery DEF Turns, Bindings
<1>4. \A k \in capacity' : k.phase = member.phase
  BY <1>1 DEF Turns, Slots
<1>5. Bindings' /\ Idles' /\ Slots' /\ Hush'
  BY <1>1, <1>2, <1>3, <1>4 DEF Bindings, Idles, Slots, Hush, Phases, Stages, Active
<1>6. OwnSlot' /\ Orphan'
  BY <1>1, <1>3 DEF OwnSlot, Orphan
<1>7. Told' /\ Voice'
  BY <1>1 DEF Turns, Told, Voice, HeardOf, Active, Index
<1>8. Choice' /\ SealedQuiet'
  BY <1>1, <1>2 DEF Choice, SealedQuiet, Phases, Stages
<1> QED
  BY <1>5, <1>6, <1>7, <1>8 DEF Turns

LEMMA ReserveTurns == ASSUME Formed, Leasing, Turns, Reserve PROVE Turns'
<1>1. /\ UNCHANGED <<drainer, inbox, handles>> /\ ctl.pc = "reserve" /\ Alikes(run)
      /\ Fewer /\ ~Active("recover")' /\ member.phase \in Phases /\ member.run = None
  BY AlikeSame, NoRecovery DEF Reserve, Formed, Fewer, Active, StandOK, Mounting, Turns, Bindings
<1>2. CASE Goto("saveRun") /\ UNCHANGED <<member, run, registry>>
  <2>1. ctl'.pc = "saveRun" /\ ctl'.task = ctl.task
    BY <1>2, Going DEF Pcs
  <2>2. member' = member /\ run' = run /\ capacity' = capacity
    BY <1>2 DEF registry
  <2>3. Steady /\ Read /\ Told'
    BY <1>1, <1>2, ControlSteady
  <2>4. Bindings' /\ Idles' /\ Hush' /\ Choice'
    BY <1>1, <2>1, <2>2 DEF Bindings, Idles, Hush, Choice, Phases, Stages
  <2>5. Slots'
    BY <1>1, <2>1, <2>2 DEF Turns, Slots, Phases, Stages
  <2>6. member'.phase # "sealed"
    BY <1>1, <2>2 DEF Phases, Stages
  <2> QED
    BY <1>1, <2>2, <2>3, <2>4, <2>5, <2>6, SteadyTurns
<1>3. CASE Slot = {} /\ UNCHANGED registry /\ ctl.task = "launch" /\ Queue
  <2>1. capacity = {} /\ Chosen
    BY <1>1, <1>3 DEF Turns, Slots, Slot, Choice
  <2>2. /\ ctl'.pc = "idle" /\ member'.phase = "queued" /\ run' = run
        /\ member'.run = member.run
        /\ member'.claim = member.claim /\ member'.impl = member.impl
    BY <1>3, QueueFields
  <2>3. Steady /\ Read /\ Told'
    BY <1>1, <1>3, <2>2, ControlSteady
  <2> QED
    BY <1>1, <2>1, <2>2, <2>3, QueuedTurns
<1>4. CASE Block(run, "other") /\ UNCHANGED registry
  BY <1>1, <1>4, BlocksTurns
<1>5. CASE Grants
  BY <1>5, GrantsTurns
<1> QED
  BY <1>1, <1>2, <1>3, <1>4, <1>5 DEF Reserve, Grants

\* A new run is heard of only once it is served.
LEMMA SavesTurns == ASSUME Formed, Leasing, Turns, Saves PROVE Turns'
<1>1. /\ UNCHANGED <<member, registry, drainer, inbox, handles>> /\ ctl.pc = "saveRun"
      /\ ctl'.pc = "bind" /\ member.phase \in Phases
  BY DEF Saves, Formed, StandOK, Mounting
<1>2. member.run = None /\ ~Active("recover") /\ capacity' = capacity
  BY <1>1, NoRecovery DEF Turns, Bindings, registry
<1>3. \A q \in Index : q \in Index' /\ run'[q] = run[q]
  BY Types DEF Saves, Index
<1>4. Bindings' /\ Idles' /\ Hush'
  BY <1>1, <1>2 DEF Bindings, Idles, Hush, Phases, Stages, Active
<1>5. Slots'
  BY <1>1, <1>2 DEF Turns, Slots, Phases, Stages
<1>6. OwnSlot' /\ Orphan'
  BY <1>1, <1>2 DEF OwnSlot, Orphan
<1>7. Told'
  <2>1. \A n \in 1..Len(inbox) : inbox[n].run \in Index
    BY DEF Formed, ProcessOK, Served
  <2> QED
    BY <1>1, <1>3, <2>1 DEF Turns, Told
<1>8. Voice'
  <2>1. \A q : HeardOf(q)' => HeardOf(q) /\ q \in Index
    BY <1>1 DEF HeardOf, Active, Formed, ProcessOK, Served, DrainOK, Drainers
  <2> QED
    BY <1>1, <1>3, <2>1 DEF Turns, Voice
<1>9. Choice' /\ SealedQuiet'
  BY <1>1 DEF Choice, SealedQuiet, Phases, Stages
<1> QED
  BY <1>4, <1>5, <1>6, <1>7, <1>8, <1>9 DEF Turns

LEMMA RefuseTurns ==
  ASSUME Formed, Leasing, Turns, ctl.pc \in {"bind", "serve"}, Refuse(Len(run)),
         UNCHANGED <<registry, drainer, inbox, handles>>
  PROVE  Turns'
<1> DEFINE rs == [run EXCEPT ![Len(run)].state = "blocked"]
<1>1. Len(run) \in Index
  BY Last DEF Formed, StandOK
<1>2. Alikes(rs)
  BY <1>1, AlikeSame, AlikeState DEF States, Formed
<1>3. Block(rs, "other")
  BY DEF Refuse
<1> HIDE DEF rs
<1>4. ~Active("recover")'
  BY NoRecovery DEF Active
<1> QED
  BY <1>2, <1>3, <1>4, BlocksTurns

LEMMA BindsTurns == ASSUME Formed, Leasing, Turns, Binds PROVE Turns'
<1> DEFINE m == Len(run)
<1>1. /\ UNCHANGED <<run, registry, drainer, inbox, handles>> /\ ctl.pc = "bind"
      /\ ctl'.pc = "serve" /\ member' = [member EXCEPT !.run = m]
      /\ member \in MemberType /\ m \in Nat /\ m \in Index /\ member.phase \in Phases
      /\ member.phase = run[m].phase /\ run[m].service = "none"
  BY Last, Types DEF Binds, Fit, Formed, Shapes, StandOK, Mounting
<1>2. /\ member'.phase = member.phase /\ member'.run = m /\ member'.impl = member.impl
      /\ m # None
  BY <1>1, HandoffAssumption DEF MemberType
<1>3. run' = run /\ capacity' = capacity /\ ~Active("recover")
  BY <1>1, NoRecovery DEF registry
<1>4. ~HeardOf(m)
  BY <1>1 DEF HeardOf, Active, Formed, ProcessOK, Served, DrainOK, Drainers
<1> HIDE DEF m
<1>5. Bindings' /\ Idles' /\ Hush'
  BY <1>1, <1>2, <1>3 DEF Bindings, Idles, Hush, Phases, Stages, Active, m
<1>6. Slots'
  BY <1>1, <1>2, <1>3 DEF Turns, Slots
<1>7. OwnSlot' /\ Orphan'
  BY <1>1, <1>2, <1>3, <1>4 DEF OwnSlot, Orphan, HeardOf, Active
<1>8. Told' /\ Voice'
  BY <1>1, <1>2, <1>3 DEF Turns, Told, Voice, HeardOf, Active, Index
<1>9. Choice' /\ SealedQuiet'
  BY <1>1, <1>2 DEF Choice, SealedQuiet, Phases, Stages
<1> QED
  BY <1>5, <1>6, <1>7, <1>8, <1>9 DEF Turns

LEMMA BindTurns == ASSUME Formed, Leasing, Turns, Bind PROVE Turns'
<1>1. UNCHANGED <<registry, drainer, inbox, handles>> /\ ctl.pc = "bind"
  BY DEF Bind
<1>2. Refuse(Len(run)) \/ Binds
  <2>1. CASE Goto("serve") /\ member' = [member EXCEPT !.run = Len(run)] /\ UNCHANGED run
    BY <1>1, <2>1, Going DEF Bind, Binds, Fit, Pcs
  <2> QED
    BY <2>1 DEF Bind
<1> QED
  BY <1>1, <1>2, RefuseTurns, BindsTurns

LEMMA ServesTurns == ASSUME Formed, Leasing, Turns, Serves PROVE Turns'
<1> DEFINE m == Len(run)
<1>1. /\ UNCHANGED <<member, registry, drainer, inbox>> /\ ctl.pc = "serve"
      /\ ctl'.pc = "outcome" /\ Leased(m) /\ m \in Index /\ member.phase \in Phases
      /\ run[m].service = "none" /\ m # None
  BY Last, Types, HandoffAssumption DEF Serves, Formed, StandOK, Mounting
<1>2. PICK slot \in Slot : run'[m].capacity = slot.token
  BY DEF Serves
<1>3. /\ Index' = Index /\ Len(run') = m /\ \A q \in Index : q # m => run'[q] = run[q]
      /\ run'[m].phase = run[m].phase /\ run'[m].checkout = run[m].checkout
  BY DEF Serves, Becomes, Index
<1>4. \A q : HeardOf(q)' => HeardOf(q) \/ q = m
  BY <1>1 DEF Serves, HeardOf, Active
<1>5. ~HeardOf(m)
  BY <1>1 DEF HeardOf, Active, Formed, ProcessOK, Served, DrainOK, Drainers
<1>6. member.run = m /\ member.phase = run[m].phase /\ Claimed(run[m].checkout)
  BY <1>1 DEF Leased
<1> HIDE DEF m
<1>7. ~Active("recover") /\ capacity' = capacity /\ checkout' = checkout
  BY <1>1, NoRecovery DEF registry
<1>8. Bindings' /\ Idles' /\ Slots' /\ Hush'
  BY <1>1, <1>3, <1>6, <1>7 DEF Bindings, Idles, Slots, Hush, Phases, Stages, Active
<1>9. OwnSlot'
  <2>1. \A k \in capacity : k = slot
    BY <1>1 DEF Turns, Slots, Slot, Formed, RegistryOK
  <2> QED
    BY <1>1, <1>2, <1>6, <1>7, <2>1 DEF OwnSlot
<1>10. Orphan'
  <2>1. member.claim = run[m].checkout
    BY <1>1, <1>6 DEF Leasing, Bound
  <2> QED
    BY <1>1, <1>6, <1>7, <2>1 DEF Orphan, Claimed
<1>11. Told'
  <2>1. \A n \in 1..Len(inbox) : inbox[n].run \in Index /\ inbox[n].run # m
    BY <1>1 DEF Formed, ProcessOK, Served
  <2> QED
    BY <1>1, <1>3, <2>1 DEF Turns, Told
<1>12. Voice'
  BY <1>1, <1>3, <1>4 DEF Turns, Voice
<1>13. Choice' /\ SealedQuiet'
  BY <1>1 DEF Choice, SealedQuiet, Phases, Stages
<1> QED
  BY <1>8, <1>9, <1>10, <1>11, <1>12, <1>13 DEF Turns

LEMMA OutcomeTurns == ASSUME Formed, Leasing, Turns, Outcome PROVE Turns'
<1>1. /\ UNCHANGED <<registry, drainer, inbox, handles>> /\ ctl.pc = "outcome"
      /\ ctl'.pc = "idle" /\ Len(run) \in Index /\ member \in MemberType
      /\ member.phase \in Phases /\ run' = Settled(run)
  BY Last DEF Outcome, NoTask, Formed, StandOK, Mounting, Shapes
<1>2. Alikes(run')
  BY <1>1, AlikeSame, SettledAlike DEF Formed, StandOK
<1>3. /\ member'.phase = member.phase /\ member'.run = member.run /\ member'.claim = member.claim
      /\ member'.impl = IF member.phase = "implementing" THEN Len(run) ELSE member.impl
  BY <1>1, Types DEF Outcome, MemberType
<1>4. member.run = Len(run) /\ run[Len(run)].phase = member.phase /\ Len(run) # None
  BY <1>1, Types, HandoffAssumption DEF Turns, Bindings
<1>5. Steady /\ Told'
  BY <1>1, <1>2, <1>3, ControlSteady DEF Fewer
<1>6. ~Active("recover")
  BY <1>1, NoRecovery
<1>7. Bindings' /\ Idles' /\ Slots' /\ Hush'
  BY <1>1, <1>3, <1>4, <1>6 DEF Bindings, Idles, Slots, Hush, Phases, Stages, Active
<1>8. OwnSlot' /\ Orphan'
  BY <1>1, <1>5, SteadyOwn, SteadyOrphan
<1>9. Voice'
  <2>1. \A q \in Index : run'[q].phase = run[q].phase /\ (HeardOf(q)' => HeardOf(q))
    BY <1>5 DEF Steady
  <2> QED
    BY <1>1, <1>3, <1>4, <1>5, <2>1, SteadyIndex DEF Turns, Voice
<1>10. Choice' /\ SealedQuiet'
  BY <1>1, <1>3 DEF Choice, SealedQuiet, Phases, Stages
<1> QED
  BY <1>5, <1>7, <1>8, <1>9, <1>10 DEF Turns

LEMMA ServeTurns == ASSUME Formed, Leasing, Turns, Serve PROVE Turns'
<1>1. UNCHANGED <<registry, drainer, inbox>> /\ ctl.pc = "serve"
  BY DEF Serve
<1> QED
  BY <1>1, ServeStep, RefuseTurns, ServesTurns

-------------------------------------------------------------------------------
LEMMA FailTurns ==
  ASSUME Formed, Leasing, Turns, NEW d \in Drainers, Active(d), NEW thrown \in BOOLEAN,
         Fail(d, thrown),
         UNCHANGED handles, capacity' \subseteq capacity,
         checkout' = checkout \/ checkout' = None, thrown \/ UNCHANGED registry
  PROVE  Turns'
<1> DEFINE r == drainer[d].run
<1>1. /\ drainer' = [drainer EXCEPT ![d] = NoDrain] /\ ~Active(d)'
      /\ \A e \in Drainers : e # d => drainer'[e] = drainer[e]
  BY IdleDrain DEF Fail, Active
<1>2. CASE d \in {"finish", "cancel"}
  <2>1. /\ run' = [run EXCEPT ![r].state = "blocked"] /\ UNCHANGED <<member, ctl>>
        /\ inbox' = Append(inbox, [run |-> r, state |-> "blocked"])
    BY <1>2 DEF Fail
  <2>2. "blocked" \notin Over
    BY DEF Over
  <2> QED
    BY <1>1, <1>2, <2>1, <2>2, ToldEnd
<1>3. CASE d = "recover" /\ thrown
  <2>1. ctl'.pc = "idle" /\ UNCHANGED <<member, run, inbox>>
    BY <1>3 DEF Fail, NoTask
  <2>2. ctl.pc = "draining" /\ member.run = r /\ member.phase \in Phases \cup {"blocked"}
    BY <1>3 DEF Turns, Idles
  <2>3. r \in Index /\ r # None
    BY Types, HandoffAssumption DEF Formed, ProcessOK, DrainOK, Served, Active, Index
  <2>4. \A q : HeardOf(q)' => HeardOf(q)
    BY <1>1, <1>3, <2>1 DEF HeardOf, Active, Drainers
  <2>5. Steady /\ Read /\ Told'
    <3>1. Steady /\ Read
      BY <2>1, <2>4, AlikeSame, AlikesSteady DEF Formed
    <3> QED
      BY <2>1, <3>1, ToldKept
  <2>6. Bindings' /\ Idles' /\ Slots' /\ Hush' /\ Choice'
    BY <1>1, <1>3, <2>1, <2>2, <2>3 DEF Bindings, Idles, Slots, Hush, Choice, Phases, Stages
  <2>7. member'.phase # "sealed"
    BY <2>1, <2>2 DEF Phases, Stages
  <2> QED
    BY <2>1, <2>2, <2>5, <2>6, <2>7, SteadyTurns
<1>4. CASE d = "recover" /\ ~thrown
  <2>1. Block(run, "other") /\ UNCHANGED <<registry, inbox>> /\ ctl.pc = "draining"
    BY <1>4 DEF Fail, Turns, Idles
  <2> QED
    BY <1>1, <1>4, <2>1, AlikeSame, BlocksTurns DEF Formed
<1> QED
  BY <1>2, <1>3, <1>4 DEF Drainers

LEMMA DrainTurns == ASSUME Formed, Leasing, Turns, NEW d \in Drainers, Drain(d) PROVE Turns'
<1>1. UNCHANGED <<registry, handles>> /\ Active(d)
  BY DEF Drain, Active
<1> QED
  BY <1>1, DrainStep, ConfirmedTurns, FailTurns DEF registry

LEMMA ReleaseTurns == ASSUME Formed, Leasing, Turns, NEW d \in Drainers, Release(d) PROVE Turns'
<1> DEFINE t == TokenOf(d)
<1>1. /\ Kind(d) \in {"capacity", "checkout"} /\ Active(d) /\ UNCHANGED <<minted, handles>>
      /\ Alikes(run)
  BY AlikeSame DEF Release, Kind, Active, Formed
<1>2. t = IF Kind(d) = "capacity" THEN run[drainer[d].run].capacity
          ELSE run[drainer[d].run].checkout
  BY <1>1 DEF TokenOf
<1> HIDE DEF t
<1>3. ASSUME NEW to \in DrainPcs, to # "idle", drainer' = [drainer EXCEPT ![d].pc = to],
             UNCHANGED <<member, run, ctl, inbox>>, capacity' \subseteq capacity,
             checkout' = checkout \/ checkout' = None
      PROVE  Turns'
  <2>1. /\ drainer'[d].pc = to /\ drainer'[d].run = drainer[d].run
        /\ \A e \in Drainers : e # d => drainer'[e] = drainer[e]
    BY <1>3, MovesDrain
  <2>2. run' = run /\ UNCHANGED <<member, ctl, inbox, handles>>
    BY <1>1, <1>3
  <2>3. Read /\ Len(run') = Len(run) /\ Active(d)'
    BY <1>3, <2>1, <2>2 DEF Read, Active
  <2>4. \A q \in Index :
           /\ run'[q].phase = run[q].phase /\ run'[q].checkout = run[q].checkout
           /\ run'[q].capacity = run[q].capacity
           /\ run'[q].service = "none" <=> run[q].service = "none"
           /\ Running(q)' => Running(q)
           /\ run[q].receipt \subseteq run'[q].receipt
    BY <2>2 DEF Running
  <2> QED
    BY <1>1, <1>3, <2>1, <2>2, <2>3, <2>4, GoesOn
<1>4. CASE /\ drainer' = [drainer EXCEPT ![d].pc =
                            IF Kind(d) = "capacity" THEN "checkout" ELSE "done"]
           /\ UNCHANGED <<member, run, checkout, capacity, ctl, inbox>>
  BY <1>3, <1>4 DEF DrainPcs
<1>5. CASE /\ capacity' = {k \in capacity : k.token # t}
           /\ checkout' = IF Claimed(t) THEN None ELSE checkout
           /\ drainer' = [drainer EXCEPT ![d].pc =
                            IF Kind(d) = "capacity" THEN "capacityBack" ELSE "checkoutBack"]
           /\ UNCHANGED <<member, run, ctl, inbox>>
  BY <1>3, <1>5 DEF DrainPcs
<1>6. CASE /\ Fail(d, TRUE)
           /\ \/ UNCHANGED <<checkout, capacity>>
              \/ /\ capacity' = {k \in capacity : k.token # t}
                 /\ checkout' = IF Claimed(t) THEN None ELSE checkout
  BY <1>1, <1>6, FailTurns
<1> QED
  BY <1>1, <1>2, <1>4, <1>5, <1>6 DEF Release, Kind

LEMMA RecordReleaseTurns ==
  ASSUME Formed, Leasing, Turns, NEW d \in Drainers, RecordRelease(d) PROVE Turns'
  BY RecordReleaseStep, RecordedTurns

LEMMA DrainedTurns == ASSUME Formed, Leasing, Turns, NEW d \in Drainers, Drained(d) PROVE Turns'
<1> DEFINE r == drainer[d].run
<1>1. /\ drainer[d].pc = "done" /\ Active(d) /\ UNCHANGED registry
      /\ drainer' = [drainer EXCEPT ![d] = NoDrain] /\ ~Active(d)'
      /\ \A e \in Drainers : e # d => drainer'[e] = drainer[e]
  BY IdleDrain DEF Drained, Active
<1>2. r \in Index /\ r # None /\ run[r].phase \in Phases
  BY <1>1, Types, HandoffAssumption DEF Formed, ProcessOK, DrainOK, Served, Active, Index
<1>3. {run[r].checkout, run[r].capacity} \subseteq run[r].receipt
  BY <1>1 DEF Leasing, Draining
<1>4. ASSUME d \in {"finish", "cancel"}, NEW s \in Over,
             run' = [run EXCEPT ![r].state = s],
             inbox' = Append(inbox, [run |-> r, state |-> s]),
             handles' = handles \ {<<r, "timer">>}, UNCHANGED <<member, ctl>>
      PROVE  Turns'
  BY <1>1, <1>3, <1>4, ToldEnd DEF registry
<1>5. CASE d = "recover" /\ Restore(run[r].phase) /\ UNCHANGED <<run, inbox, handles>>
  <2>1. ctl.pc = "draining" /\ member.run = r /\ ctl.task = "resume"
    BY <1>1, <1>5 DEF Turns, Idles
  <2>2. ctl'.pc = "remount" /\ ctl'.task = "resume"
    BY <1>5, <2>1, Going DEF Pcs, Restore
  <2>3. member \in MemberType /\ member' = [member EXCEPT !.phase = run[r].phase, !.reason = None]
    BY <1>5 DEF Restore, Formed, Shapes
  <2>4. /\ member'.phase \in Phases /\ member'.run = member.run
        /\ member'.claim = member.claim /\ member'.impl = member.impl
    BY <1>2, <2>3 DEF MemberType
  <2>5. \A q : HeardOf(q)' => HeardOf(q)
    BY <1>1, <1>5 DEF HeardOf, Active, Drainers
  <2>6. run' = run /\ inbox' = inbox
    BY <1>5
  <2>7. Steady /\ Read /\ Told'
    <3>1. Steady /\ Read
      BY <1>1, <2>4, <2>5, <2>6, AlikeSame, AlikesSteady DEF Formed, registry
    <3> QED
      BY <2>6, <3>1, ToldKept
  <2>8. Bindings' /\ Idles' /\ Slots' /\ Hush' /\ Choice'
    BY <1>1, <1>2, <1>5, <2>1, <2>2, <2>4
      DEF Bindings, Idles, Slots, Hush, Choice, Phases, Stages
  <2>9. member'.phase # "sealed"
    BY <2>4 DEF Phases, Stages
  <2> QED
    BY <2>1, <2>4, <2>7, <2>8, <2>9, SteadyTurns
<1> QED
  BY <1>4, <1>5 DEF Drained, Over

-------------------------------------------------------------------------------
LEMMA CrashTurns == ASSUME Formed, Leasing, Turns, Crash PROVE Turns'
<1>1. /\ ctl'.pc = "down" /\ drainer' = [d \in Drainers |-> NoDrain] /\ NoDrain.pc = "idle"
      /\ inbox' = <<>> /\ handles' = {} /\ UNCHANGED <<member, run, registry>>
  BY DEF Crash, NoTask, NoDrain
<1>2. \A d \in Drainers : ~Active(d)'
  BY <1>1 DEF Active
<1>3. \A q : ~HeardOf(q)'
  BY <1>1, <1>2 DEF HeardOf, Drainers
<1>4. Steady /\ Read
  BY <1>1, <1>3, AlikeSame, AlikesSteady DEF Formed, registry
<1>5. Bindings' /\ Idles' /\ Hush'
  BY <1>1, <1>2 DEF Bindings, Idles, Hush, Silent, Active, Drainers
<1>6. Told' /\ Voice'
  BY <1>1, <1>3 DEF Told, Voice
<1>7. Slots'
  BY <1>1 DEF Turns, Slots, registry
<1>8. OwnSlot' /\ Orphan'
  BY <1>3, <1>4, SteadyOwn, SteadyOrphan
<1>9. Choice'
  BY <1>1, <1>4, ChosenSame, SteadyQuiet DEF Turns, Choice
<1>10. SealedQuiet'
  BY <1>1, <1>4, SteadyQuiet DEF Turns, SealedQuiet, Quiet, Index
<1> QED
  BY <1>5, <1>6, <1>7, <1>8, <1>9, <1>10 DEF Turns

\* The controller leaves the member as it is, and takes up or drops its resumption.
LEMMA ResumptionTurns ==
  ASSUME Formed, Leasing, Turns, UNCHANGED <<member, run, registry, drainer, inbox, handles>>,
         ctl.pc \in {"down", "idle", "resume"}, ~Active("recover"),
         \/ ctl'.pc = "resume" /\ ctl'.task = "resume"
            /\ (ctl.pc = "down" \/ member.phase = "blocked")
         \/ ctl'.pc = "idle" /\ ctl.pc = "resume"
  PROVE  Turns'
<1>1. Steady /\ Read /\ Told'
  BY AlikeSame, ControlSteady DEF Formed, Fewer
<1>2. Bindings' /\ Idles'
  BY DEF Turns, Bindings, Idles, Phases, Stages, Active
<1>3. Hush'
  BY DEF Turns, Hush, Silent, Active, Phases, Stages
<1>4. Slots'
  BY DEF Turns, Slots, registry
<1>5. Choice'
  BY <1>1, ChosenSame, SteadyQuiet DEF Turns, Choice
<1>6. member'.phase = "sealed" => Quiet'
  BY <1>1, SteadyQuiet DEF Turns, SealedQuiet, Quiet, Index
<1> QED
  BY <1>1, <1>2, <1>3, <1>4, <1>5, <1>6, SteadyTurns

LEMMA WakeTurns == ASSUME Formed, Leasing, Turns, Recover \/ RetryBlocked PROVE Turns'
<1>1. /\ UNCHANGED <<member, run, registry, drainer, inbox, handles>>
      /\ ctl.pc = "down" \/ (ctl.pc = "idle" /\ member.phase = "blocked")
      /\ ctl'.pc = "resume" /\ ctl'.task = "resume"
  BY DEF Recover, RetryBlocked, NoTask
<1> QED
  BY <1>1, NoRecovery, ResumptionTurns

\* A resumed member with no run has nothing but the slot of its implementation.
LEMMA ResumedSlot ==
  ASSUME Formed, Turns, ResumedRun # None, Continued # None, member.run = None
  PROVE  Continued = "implementing" /\ \A k \in capacity : k.phase = "implementing"
<1>1. Continued = "implementing"
  BY DEF ResumedRun
<1>2. CASE member.phase \in Phases
  BY <1>1, <1>2 DEF Continued, Turns, Slots
<1>3. CASE member.phase = "blocked" /\ member.reason = "liveness"
  BY <1>1, <1>3 DEF Turns, Slots
<1> QED
  BY <1>1, <1>2, <1>3 DEF Continued

LEMMA ResumeTurns == ASSUME Formed, Leasing, Turns, Resume PROVE Turns'
<1> DEFINE p == Continued
           r == ResumedRun
<1>1. /\ UNCHANGED <<registry, inbox, handles>> /\ ctl.pc = "resume" /\ ctl.task = "resume"
      /\ ~Active("recover") /\ Alikes(run) /\ member \in MemberType
  BY AlikeSame, NoRecovery DEF Resume, Formed, Shapes, Turns, Idles
<1>2. r # None => r \in Index
  BY DEF Formed, MemberOK, ResumedRun
<1>3. p # None => p \in Phases /\ member.phase \in Phases \cup {"blocked"}
  <2>1. Retained # None => Retained \in Index
    BY DEF Formed, MemberOK, Retained
  <2> QED
    BY <2>1, Types DEF Continued
<1>4. p # None /\ r # None /\ member.run = None =>
        p = "implementing" /\ \A k \in capacity : k.phase = "implementing"
  BY ResumedSlot
<1> HIDE DEF p, r
<1>5. CASE ctl' = NoTask /\ UNCHANGED <<member, run, drainer>>
  BY <1>1, <1>5, ResumptionTurns DEF NoTask
<1>6. CASE Block(run, "other") /\ UNCHANGED drainer
  BY <1>1, <1>6, BlocksTurns DEF Active
<1>7. CASE p # None /\ r # None /\ Block(run, "liveness") /\ UNCHANGED drainer
  BY <1>1, <1>4, <1>7, BlocksTurns DEF Active
<1>8. CASE /\ p # None /\ r # None /\ run[r].service # "none" /\ ~run[r].drained
           /\ Goto("draining") /\ UNCHANGED <<member, run>> /\ Drains("recover", r)
  <2>1. ctl'.pc = "draining" /\ ctl'.task = "resume"
    BY <1>1, <1>8, Going DEF Pcs
  <2>2. /\ drainer'["recover"].pc = "drain" /\ drainer'["recover"].run = r
        /\ \A d \in Drainers : d # "recover" => drainer'[d] = drainer[d]
    BY <1>8 DEF Drains, Formed, Shapes, Drainers
  <2>3. member.run = r
    BY <1>2, <1>8 DEF Leasing, Past
  <2>4. UNCHANGED <<member, run>>
    BY <1>8
  <2>5. \A q : HeardOf(q)' => HeardOf(q)
    BY <1>1, <2>2 DEF HeardOf, Active, Drainers
  <2>6. Steady /\ Read /\ Told'
    <3>1. Steady /\ Read
      BY <1>1, <2>4, <2>5, AlikesSteady DEF registry
    <3> QED
      BY <1>1, <3>1, ToldKept
  <2>7. Bindings' /\ Idles' /\ Hush' /\ Choice'
    BY <1>3, <1>8, <2>1, <2>2, <2>3, <2>4
      DEF Bindings, Idles, Hush, Choice, Phases, Stages, Active
  <2>8. Slots'
    BY <1>1, <1>8, <2>1, <2>3, <2>4 DEF Turns, Slots, registry
  <2>9. member'.phase # "sealed"
    BY <1>3, <1>8, <2>4 DEF Phases, Stages
  <2> QED
    BY <1>1, <2>4, <2>6, <2>7, <2>8, <2>9, SteadyTurns
<1>9. CASE p # None /\ r # None /\ Restore(p) /\ UNCHANGED <<run, drainer>>
  <2>1. ctl'.pc = "remount" /\ ctl'.task = "resume"
    BY <1>1, <1>9, Going DEF Pcs, Restore
  <2>2. member' = [member EXCEPT !.phase = p, !.reason = None]
    BY <1>9 DEF Restore
  <2>3. /\ member'.phase = p /\ p \in Phases /\ member'.run = member.run
        /\ member'.claim = member.claim /\ member'.impl = member.impl
    BY <1>1, <1>3, <1>9, <2>2 DEF MemberType
  <2>4. run' = run /\ UNCHANGED drainer
    BY <1>9
  <2>5. Steady /\ Read /\ Told'
    BY <1>1, <2>3, <2>4, ControlSteady DEF Fewer
  <2>6. Bindings' /\ Idles' /\ Hush' /\ Choice'
    BY <1>1, <2>1, <2>3, <2>4 DEF Bindings, Idles, Hush, Choice, Phases, Stages, Active
  <2>7. Slots'
    BY <1>1, <1>4, <1>9, <2>1, <2>3 DEF Slots, Phases, Stages, registry
  <2>8. member'.phase # "sealed"
    BY <2>3 DEF Phases, Stages
  <2> QED
    BY <1>1, <2>3, <2>5, <2>6, <2>7, <2>8, SteadyTurns
<1> QED
  BY <1>5, <1>6, <1>7, <1>8, <1>9 DEF Resume, p, r

-------------------------------------------------------------------------------
LEMMA TurnsInit == Init => Turns
<1> SUFFICES ASSUME Init PROVE Turns
  OBVIOUS
<1>1. /\ member.phase = "implementing" /\ member.run = None /\ run = <<>> /\ Len(run) = 0
      /\ inbox = <<>> /\ Len(inbox) = 0 /\ handles = {}
  BY DEF Init
<1>2. ctl.pc = "saveRun" /\ NoDrain.pc = "idle"
  BY DEF Init, NoTask, NoDrain
<1>3. \A d \in Drainers : ~Active(d)
  BY <1>2 DEF Init, Active
<1>4. \A k \in capacity : k.phase = "implementing"
  BY DEF Init
<1>5. Bindings /\ Idles /\ Hush
  BY <1>1, <1>2, <1>3 DEF Bindings, Idles, Hush, Drainers
<1>6. OwnSlot /\ Slots /\ Orphan
  BY <1>1, <1>2, <1>4 DEF OwnSlot, Slots, Orphan
<1>7. Told /\ Voice /\ Choice /\ SealedQuiet
  BY <1>1, <1>2 DEF Told, Voice, Choice, SealedQuiet, Index
<1> QED
  BY <1>5, <1>6, <1>7 DEF Turns

LEMMA TurnsNext == ASSUME Formed, Leasing, Turns, [Next]_vars PROVE Turns'
<1>1. CASE Control
  BY <1>1, HandleTurns, IntentTurns, RemountTurns, PersistTurns, ReserveTurns, SaveRunStep,
     SavesTurns, BindTurns, ServeTurns, OutcomeTurns, ResumeTurns DEF Control
<1>2. CASE Wake
  BY <1>2, RetryQueuedTurns, WakeTurns DEF Wake
<1>3. CASE \E d \in Drainers : Drainage(d)
  BY <1>3, DrainTurns, ReleaseTurns, RecordReleaseTurns, DrainedTurns DEF Drainage
<1>4. CASE Callback
  BY <1>4, FinishTurns, DeadlineTurns DEF Callback
<1>5. CASE WorkerEnds \/ Crash
  BY <1>5, WorkerEndsTurns, CrashTurns
<1>6. CASE Expire \/ UNCHANGED vars
  BY <1>6, StillTurns DEF Expire, vars, registry, process
<1> QED
  BY <1>1, <1>2, <1>3, <1>4, <1>5, <1>6 DEF Next

LEMMA TurnsAlways == Spec => [](Formed /\ Leasing /\ Turns)
<1>1. Init => Turns
  BY TurnsInit
<1>2. Formed /\ Leasing /\ Turns /\ [Next]_vars => Turns'
  BY TurnsNext
<1> QED
  BY <1>1, <1>2, LeasingAlways, PTL DEF Spec

\* A sealed member leaves nothing behind: however often the coordinator died and
\* whatever the registry refused or did not answer, when the member is sealed no
\* service of any of its runs works on and none of its claims is held.
THEOREM SealingIsQuiet == Spec => []SealedQuiet
<1>1. Turns => SealedQuiet
  BY DEF Turns
<1> QED
  BY <1>1, TurnsAlways, PTL
===============================================================================
