--------------------------- MODULE HandoffCalmProofs ---------------------------
(***************************************************************************)
(* While its coordinator lives, the controller does not forget the member: *)
(* in a running phase it is about to hear of the run it is bound to.       *)
(***************************************************************************)
EXTENDS HandoffTurnsProofs

\* The coordinator has not died, and nothing is left for a resumption to do.
Calm == /\ ctl.pc \notin {"down", "resume", "draining"}
        /\ member.reason # "liveness" /\ crashes = 0

\* A run is being launched, or the member waits for one.
Launching == {"intent", "remount", "persist", "reserve", "saveRun", "bind", "serve"}
Waiting == ctl.pc \in Launching \/ member.phase = "queued"

\* A run works, or has ended and its summary is on its way.
Underway == ctl.pc \in {"idle", "outcome"} /\ member.phase \in Phases

\* Before the deadline nothing but the run being launched is in the process.
Hushed == ~expired => /\ Waiting => Silent
                      /\ ~Active("cancel")

\* A new run is no older than the summary that led to it, and untouched.
Ahead ==
  /\ ctl.pc \in {"bind", "serve", "outcome"} => ctl.from < Len(run)
  /\ ctl.pc \in {"bind", "serve"} =>
       run[Len(run)].state = "running" /\ ~run[Len(run)].settled

\* The end of a run is on its way: it is being drained, or told.
Entry(m) == \E n \in 1..Len(inbox) : inbox[n].run = m
Pending(m) == Active("finish") \/ Active("cancel") \/ Entry(m)

\* Before the deadline the end of the stream, the drain and the summary follow each
\* other, and the summary that moves the member on is the last thing heard.
Timely(m) ==
  /\ <<m, "stream">> \in handles => ~Active("finish") /\ inbox = <<>>
  /\ Active("finish") => inbox = <<>>
  /\ Len(inbox) <= 1
  /\ \A n \in 1..Len(inbox) : inbox[n].state \in {"completed", "failed"} => handles = {}

\* The member is bound to the only run anything is heard of, and will hear of it.
Minded(m) ==
  /\ m \in Index /\ run[m].phase = member.phase /\ ~run[m].settled
  /\ \A q \in Index : HeardOf(q) => q = m
  /\ ~expired => Timely(m)
  /\ <<m, "stream">> \in handles \/ Pending(m)
  /\ run[m].state \in Over \cup {"cancelling"} => Pending(m)

\* The inductive invariant.
Attended == Calm /\ Hushed /\ Ahead /\ (Underway => Minded(member.run))

-------------------------------------------------------------------------------
LEMMA AheadKept ==
  ASSUME Formed, Ahead, UNCHANGED ctl, Len(run') = Len(run),
         \A q \in Index : run[q].service = "none" => run'[q] = run[q]
  PROVE  Ahead'
<1>1. ctl.pc \in {"bind", "serve"} => Len(run) \in Index /\ run[Len(run)].service = "none"
  BY Last DEF Formed, StandOK
<1> QED
  BY <1>1 DEF Ahead

\* A step that leaves the member and the controller alone.
LEMMA AsideAttended ==
  ASSUME Formed, Attended, UNCHANGED <<member, ctl, crashes>>, Ahead',
         expired' = expired \/ expired', Silent => Silent',
         ~expired' => ~Active("cancel")',
         \A m \in Index : Underway /\ Minded(m) => Minded(m)'
  PROVE  Attended'
<1>1. Calm'
  BY DEF Attended, Calm
<1>2. Hushed'
  BY DEF Attended, Hushed, Waiting
<1>3. Underway' => Minded(member.run)'
  <2>1. SUFFICES ASSUME Underway PROVE Minded(member.run)'
    BY DEF Underway
  <2>2. PICK m \in Index : m = member.run /\ Minded(m)
    BY <2>1 DEF Attended, Minded
  <2>3. Minded(m)'
    BY <2>1, <2>2
  <2>4. m = member'.run
    BY <2>2
  <2> QED
    BY <2>3, <2>4 DEF Minded, Timely, Pending, Entry
<1> QED
  BY <1>1, <1>2, <1>3 DEF Attended

\* A step of the controller that does not end in a running phase.
LEMMA ControlAttended ==
  ASSUME Formed, Attended, UNCHANGED <<drainer, inbox, handles, expired, crashes>>,
         ctl'.pc \notin {"down", "resume", "draining"}, member'.reason # "liveness",
         Waiting' => Waiting, Ahead', ~Underway'
  PROVE  Attended'
  BY DEF Attended, Calm, Hushed, Silent, Active

LEMMA FinishAttended == ASSUME Formed, Leasing, Turns, Attended, Finish,
                               UNCHANGED <<expired, crashes>> PROVE Attended'
<1>1. PICK r \in Index :
        /\ <<r, "stream">> \in handles /\ handles' = handles \ {<<r, "stream">>}
        /\ IF run[r].state \in Over \cup {"cancelling"} THEN UNCHANGED drainer
                                                        ELSE Drains("finish", r)
  BY DEF Finish, Index
<1>2. UNCHANGED <<member, run, ctl, inbox>> /\ Index' = Index
  BY DEF Finish, Index
<1>3. /\ \A d \in Drainers : d # "finish" => drainer'[d] = drainer[d]
      /\ \/ drainer' = drainer /\ run[r].state \in Over \cup {"cancelling"}
         \/ drainer'["finish"].run = r /\ Active("finish")'
  BY <1>1 DEF Drains, Formed, Shapes, Drainers, Active
<1>4. \A q : HeardOf(q)' => HeardOf(q)
  <2>1. drainer'["finish"] = drainer["finish"] \/ drainer'["finish"].run = r
    BY <1>3
  <2> QED
    BY <1>1, <1>2, <1>3, <2>1, Hands
<1>5. ~Silent /\ HeardOf(r)
  BY <1>1 DEF Silent, HeardOf
<1>6. ASSUME NEW m \in Index, Minded(m) PROVE Minded(m)'
  <2>1. r = m
    BY <1>5, <1>6 DEF Minded
  <2>2. Pending(m)'
    BY <1>2, <1>3, <1>6, <2>1 DEF Minded, Pending, Entry, Active, Drainers
  <2>3. ~expired => Timely(m)'
    BY <1>1, <1>2, <1>6, <2>1 DEF Minded, Timely
  <2> QED
    BY <1>2, <1>4, <1>6, <2>2, <2>3 DEF Minded
<1>7. Ahead'
  BY <1>2, AheadKept DEF Attended
<1>8. ~expired' => ~Active("cancel")'
  BY <1>3 DEF Attended, Hushed, Active, Drainers
<1> QED
  BY <1>2, <1>5, <1>6, <1>7, <1>8, AsideAttended

LEMMA DeadlineAttended == ASSUME Formed, Leasing, Turns, Attended, Deadline,
                                 UNCHANGED <<expired, crashes>> PROVE Attended'
<1>1. PICK r \in Index :
        /\ <<r, "timer">> \in handles /\ handles' = handles \ {<<r, "timer">>}
        /\ run' = [run EXCEPT ![r].state = "cancelling"] /\ Drains("cancel", r)
  BY DEF Deadline, Index
<1>2. UNCHANGED <<member, ctl, inbox>> /\ expired
  BY DEF Deadline
<1>3. /\ Alikes(run') /\ run'[r].settled = run[r].settled
      /\ \A q \in Index : q # r => run'[q] = run[q]
  <2>1. Alikes(run) /\ "cancelling" \in States
    BY AlikeSame DEF Formed, States
  <2>2. LET t == [run EXCEPT ![r].state = "cancelling"]
        IN /\ Alikes(t) /\ t[r].state = "cancelling" /\ t[r].settled = run[r].settled
           /\ \A q \in Index : q # r => t[q] = run[q]
    BY <2>1, AlikeState
  <2> QED
    BY <1>1, <2>2
<1>4. /\ \A d \in Drainers : d # "cancel" => drainer'[d] = drainer[d]
      /\ drainer'["cancel"].run = r /\ Active("cancel")'
  BY <1>1 DEF Drains, Formed, Shapes, Drainers, Active
<1>5. \A q : HeardOf(q)' => HeardOf(q)
  BY <1>1, <1>2, <1>4, Hands
<1>6. ~Silent /\ HeardOf(r) /\ run[r].service # "none"
  BY <1>1 DEF Silent, HeardOf, Formed, ProcessOK, Served
<1>7. Index' = Index /\ Len(run') = Len(run)
  BY <1>3 DEF Index, Alikes
<1>8. ASSUME NEW m \in Index, Minded(m) PROVE Minded(m)'
  <2>1. r = m
    BY <1>6, <1>8 DEF Minded
  <2>2. Pending(m)'
    BY <1>4 DEF Pending
  <2>3. run'[m].phase = run[m].phase /\ ~run'[m].settled
    BY <1>3, <1>8, <2>1 DEF Alikes, Alike, Minded
  <2> QED
    BY <1>2, <1>5, <1>7, <1>8, <2>2, <2>3 DEF Minded
<1>9. Ahead'
  BY <1>2, <1>3, <1>6, <1>7, AheadKept DEF Attended
<1> QED
  BY <1>2, <1>6, <1>8, <1>9, AsideAttended

LEMMA WorkerAttended == ASSUME Formed, Attended, WorkerEnds PROVE Attended'
<1>1. PICK r \in Index : Worked(r)
  BY WorkerEndsStep
<1>2. UNCHANGED <<member, ctl, drainer, inbox, handles, expired, crashes>>
  BY <1>1 DEF Worked, process, bounds
<1>3. /\ Len(run') = Len(run) /\ Index' = Index /\ run[r].service # "none"
      /\ run'[r].phase = run[r].phase /\ run'[r].state = run[r].state
      /\ run'[r].settled = run[r].settled
      /\ \A q \in Index : q # r => run'[q] = run[q]
  BY <1>1 DEF Worked, Becomes, Index, Running
<1>4. ASSUME NEW m \in Index, Minded(m) PROVE Minded(m)'
  <2>1. /\ run'[m].phase = run[m].phase /\ run'[m].state = run[m].state
        /\ run'[m].settled = run[m].settled
    BY <1>3
  <2> QED
    BY <1>2, <1>3, <1>4, <2>1 DEF Minded, HeardOf, Active, Timely, Pending, Entry
<1>5. Ahead'
  BY <1>2, <1>3, AheadKept DEF Attended
<1> QED
  BY <1>2, <1>4, <1>5, AsideAttended DEF Silent, Active, Attended, Hushed

LEMMA ExpireAttended ==
  ASSUME Formed, Attended, UNCHANGED <<member, run, registry, process, crashes>>,
         expired' = expired \/ expired'
  PROVE  Attended'
<1>1. UNCHANGED <<member, run, ctl, drainer, inbox, handles>> /\ Index' = Index
  BY DEF process, Index
<1>2. \A m \in Index : Minded(m) => Minded(m)'
  BY <1>1 DEF Minded, HeardOf, Active, Timely, Pending, Entry
<1>3. Ahead'
  BY <1>1, AheadKept DEF Attended
<1> QED
  BY <1>1, <1>2, <1>3, AsideAttended DEF Silent, Active, Attended, Hushed

\* A drain that goes on.
LEMMA GoesOnAttended ==
  ASSUME Formed, Attended, NEW d \in Drainers, Active(d), Active(d)',
         UNCHANGED <<member, ctl, inbox, handles, expired, crashes>>,
         drainer'[d].run = drainer[d].run,
         \A e \in Drainers : e # d => drainer'[e] = drainer[e],
         Len(run') = Len(run),
         \A q \in Index :
           /\ run'[q].phase = run[q].phase /\ run'[q].state = run[q].state
           /\ run'[q].settled = run[q].settled
           /\ run[q].service = "none" => run'[q] = run[q]
  PROVE  Attended'
<1>1. Index' = Index /\ ~Silent /\ Ahead'
  BY AheadKept DEF Index, Silent, Attended
<1>2. \A e \in Drainers : Active(e)' <=> Active(e)
  BY DEF Active
<1>3. \A q : HeardOf(q)' => HeardOf(q)
  BY <1>2 DEF HeardOf, Drainers
<1>4. ASSUME NEW m \in Index, Minded(m) PROVE Minded(m)'
  <2>1. Pending(m) => Pending(m)'
    BY <1>2 DEF Pending, Entry, Drainers
  <2>2. Timely(m) => Timely(m)'
    BY <1>2 DEF Timely, Drainers
  <2> QED
    BY <1>1, <1>3, <1>4, <2>1, <2>2 DEF Minded
<1> QED
  BY <1>1, <1>2, <1>4, AsideAttended DEF Attended, Hushed, Drainers

LEMMA ConfirmedAttended ==
  ASSUME Formed, Attended, NEW d \in Drainers, Confirmed(d), UNCHANGED <<expired, crashes>>
  PROVE  Attended'
<1>1. PICK r \in Index : r = drainer[d].run
  BY DEF Confirmed, Served
<1>2. /\ UNCHANGED <<member, ctl, inbox, handles>> /\ drainer[d].pc = "drain"
      /\ Len(run') = Len(run) /\ run[r].service # "none"
      /\ run'[r].phase = run[r].phase /\ run'[r].state = run[r].state
      /\ run'[r].settled = run[r].settled
      /\ \A q \in Index : q # r => run'[q] = run[q]
  BY <1>1 DEF Confirmed, Becomes, Served
<1>3. /\ drainer'[d].pc = "capacity" /\ drainer'[d].run = drainer[d].run
      /\ \A f \in Drainers : f # d => drainer'[f] = drainer[f]
  BY DEF Confirmed, Formed, Shapes, DrainType
<1> QED
  BY <1>2, <1>3, GoesOnAttended DEF Active

LEMMA RecordedAttended ==
  ASSUME Formed, Attended, NEW d \in Drainers, Recorded(d), UNCHANGED <<expired, crashes>>
  PROVE  Attended'
<1>1. PICK r \in Index : r = drainer[d].run
  BY DEF Recorded, Served
<1>2. /\ UNCHANGED <<member, ctl, inbox, handles>> /\ Active(d)
      /\ Len(run') = Len(run) /\ run[r].service # "none"
      /\ run'[r].phase = run[r].phase /\ run'[r].state = run[r].state
      /\ run'[r].settled = run[r].settled
      /\ \A q \in Index : q # r => run'[q] = run[q]
  BY <1>1 DEF Recorded, Becomes, Kind, Active, Served
<1>3. /\ drainer'[d].pc \in {"checkout", "done"} /\ drainer'[d].run = drainer[d].run
      /\ \A f \in Drainers : f # d => drainer'[f] = drainer[f]
  BY DEF Recorded, Formed, Shapes, DrainType
<1> QED
  BY <1>2, <1>3, GoesOnAttended DEF Active

LEMMA ToldAttended ==
  ASSUME Formed, Attended, NEW d \in {"finish", "cancel"}, Active(d),
         NEW r, r = drainer[d].run, NEW s \in Over \cup {"blocked"},
         UNCHANGED <<member, ctl, expired, crashes>>, run' = [run EXCEPT ![r].state = s],
         inbox' = Append(inbox, [run |-> r, state |-> s]),
         drainer' = [drainer EXCEPT ![d] = NoDrain], handles' \subseteq handles,
         s \in {"completed", "failed"} => handles' = handles \ {<<r, "timer">>}
  PROVE  Attended'
<1>1. /\ r \in Index /\ Served(r) /\ Alikes(run')
      /\ run'[r].state = s /\ run'[r].settled = run[r].settled
      /\ \A q \in Index : q # r => run'[q] = run[q]
      /\ Len(inbox) \in Nat /\ Len(inbox') = Len(inbox) + 1
      /\ inbox'[Len(inbox) + 1].run = r /\ inbox'[Len(inbox) + 1].state = s
      /\ ~Active(d)' /\ \A e \in Drainers : e # d => drainer'[e] = drainer[e]
      /\ \A q : HeardOf(q)' => HeardOf(q)
  BY Telling
<1>2. /\ Index' = Index /\ Len(run') = Len(run) /\ run[r].service # "none"
      /\ \A q \in Index : run'[q].phase = run[q].phase
  BY <1>1 DEF Alikes, Alike, Index, Served
<1>3. ~Silent /\ HeardOf(r) /\ Ahead'
  BY <1>1, <1>2, AheadKept DEF Silent, HeardOf, Attended, Drainers
<1>4. Len(inbox) + 1 \in 1..Len(inbox')
  BY <1>1
<1>5. ASSUME NEW m \in Index, Minded(m) PROVE Minded(m)'
  <2>1. r = m
    BY <1>1, <1>3, <1>5 DEF Minded
  <2>2. Pending(m)'
    BY <1>1, <1>4, <2>1 DEF Pending, Entry
  <2>3. ASSUME ~expired PROVE Timely(m)'
    <3>1. d = "finish" /\ Timely(m)
      BY <1>5, <2>3 DEF Attended, Hushed, Minded
    <3>2. Len(inbox) = 0 /\ <<m, "stream">> \notin handles
      BY <3>1 DEF Timely
    <3>3. s \in {"completed", "failed"} => handles' = {}
      <4>1. \A h \in handles : h = <<m, "stream">> \/ h = <<m, "timer">>
        <5>1. SUFFICES ASSUME NEW h \in handles PROVE h = <<m, "stream">> \/ h = <<m, "timer">>
          OBVIOUS
        <5>2. HeardOf(h[1]) /\ h[1] \in Index /\ h \in Nat \X {"stream", "timer"}
          BY DEF HeardOf, Formed, Shapes, ProcessOK, Served
        <5> QED
          BY <1>5, <5>2 DEF Minded
      <4> QED
        BY <2>1, <3>2, <4>1
    <3> QED
      BY <1>1, <1>4, <3>1, <3>2, <3>3 DEF Timely
  <2> QED
    BY <1>1, <1>2, <1>5, <2>1, <2>2, <2>3 DEF Minded
<1>6. ~expired' => ~Active("cancel")'
  BY <1>1 DEF Attended, Hushed, Active, Drainers
<1> QED
  BY <1>3, <1>5, <1>6, AsideAttended

LEMMA FailAttended ==
  ASSUME Formed, Turns, Attended, NEW d \in Drainers, Active(d), NEW thrown \in BOOLEAN,
         Fail(d, thrown), UNCHANGED <<handles, expired, crashes>>
  PROVE  Attended'
<1>1. d # "recover"
  BY DEF Turns, Idles, Attended, Calm
<1>2. /\ run' = [run EXCEPT ![drainer[d].run].state = "blocked"] /\ UNCHANGED <<member, ctl>>
      /\ inbox' = Append(inbox, [run |-> drainer[d].run, state |-> "blocked"])
      /\ drainer' = [drainer EXCEPT ![d] = NoDrain]
  BY <1>1 DEF Fail
<1> QED
  BY <1>1, <1>2, ToldAttended DEF Drainers

LEMMA DrainAttended ==
  ASSUME Formed, Turns, Attended, NEW d \in Drainers, Drain(d), UNCHANGED <<expired, crashes>>
  PROVE  Attended'
<1>1. UNCHANGED handles /\ Active(d)
  BY DEF Drain, Active
<1> QED
  BY <1>1, DrainStep, ConfirmedAttended, FailAttended

LEMMA ReleaseAttended ==
  ASSUME Formed, Turns, Attended, NEW d \in Drainers, Release(d),
         UNCHANGED <<expired, crashes>>
  PROVE  Attended'
<1>1. Kind(d) \in {"capacity", "checkout"} /\ Active(d) /\ UNCHANGED handles
  BY DEF Release, Kind, Active
<1>2. ASSUME NEW to \in DrainPcs, to # "idle", drainer' = [drainer EXCEPT ![d].pc = to],
             UNCHANGED <<member, run, ctl, inbox>>
      PROVE  Attended'
  <2>1. /\ drainer'[d].pc = to /\ drainer'[d].run = drainer[d].run
        /\ \A e \in Drainers : e # d => drainer'[e] = drainer[e]
    BY <1>2, MovesDrain
  <2>2. run' = run /\ UNCHANGED <<member, ctl, inbox, handles>> /\ Active(d)'
    BY <1>1, <1>2, <2>1 DEF Active
  <2> QED
    BY <1>1, <2>1, <2>2, GoesOnAttended
<1>3. CASE /\ drainer' = [drainer EXCEPT ![d].pc =
                            IF Kind(d) = "capacity" THEN "checkout" ELSE "done"]
           /\ UNCHANGED <<member, run, ctl, inbox>>
  BY <1>2, <1>3 DEF DrainPcs
<1>4. CASE /\ drainer' = [drainer EXCEPT ![d].pc =
                            IF Kind(d) = "capacity" THEN "capacityBack" ELSE "checkoutBack"]
           /\ UNCHANGED <<member, run, ctl, inbox>>
  BY <1>2, <1>4 DEF DrainPcs
<1>5. CASE Fail(d, TRUE)
  BY <1>1, <1>5, FailAttended
<1> QED
  BY <1>1, <1>3, <1>4, <1>5 DEF Release, Kind

LEMMA DrainedAttended ==
  ASSUME Formed, Turns, Attended, NEW d \in Drainers, Drained(d), UNCHANGED <<expired, crashes>>
  PROVE  Attended'
<1> DEFINE r == drainer[d].run
<1>1. Active(d) /\ drainer' = [drainer EXCEPT ![d] = NoDrain]
  BY DEF Drained, Active
<1>2. d \in {"finish", "cancel"}
  BY <1>1 DEF Turns, Idles, Attended, Calm, Drainers
<1>3. ASSUME NEW s \in Over, run' = [run EXCEPT ![r].state = s],
             inbox' = Append(inbox, [run |-> r, state |-> s]),
             handles' = handles \ {<<r, "timer">>}, UNCHANGED <<member, ctl>>
      PROVE  Attended'
  BY <1>1, <1>2, <1>3, ToldAttended
<1> QED
  BY <1>2, <1>3 DEF Drained, Over

-------------------------------------------------------------------------------
\* The launching of a run.

\* A step that blocks the member.
LEMMA BlocksAttended ==
  ASSUME Formed, Attended, NEW rs, Alikes(rs), Block(rs, "other"),
         UNCHANGED <<drainer, inbox, handles, expired, crashes>>
  PROVE  Attended'
<1>1. ctl'.pc = "idle" /\ member'.phase = "blocked" /\ member'.reason = "other"
  BY BlockFields
<1> QED
  BY <1>1, ControlAttended DEF Waiting, Launching, Underway, Ahead, Phases, Stages

LEMMA QueuesAttended ==
  ASSUME Formed, Attended, ctl.pc \in Launching, Queue,
         UNCHANGED <<drainer, inbox, handles, expired, crashes>>
  PROVE  Attended'
<1>1. ctl'.pc = "idle" /\ member'.phase = "queued" /\ member'.reason = member.reason
  BY QueueFields DEF Queue, Formed, Shapes, MemberType
<1> QED
  BY <1>1, ControlAttended
     DEF Attended, Calm, Waiting, Launching, Underway, Ahead, Phases, Stages

\* A step on the way to the reservation.
LEMMA GoesAttended ==
  ASSUME Formed, Attended, ctl.pc \in Launching,
         ctl'.pc \in {"remount", "persist", "reserve", "saveRun"}, member'.reason # "liveness",
         UNCHANGED <<drainer, inbox, handles, expired, crashes>>
  PROVE  Attended'
  BY ControlAttended DEF Waiting, Launching, Underway, Ahead

LEMMA IntentAttended == ASSUME Formed, Attended, Intent, UNCHANGED <<expired, crashes>>
                        PROVE Attended'
<1>1. UNCHANGED <<drainer, inbox, handles>> /\ ctl.pc \in Launching /\ Alikes(run)
  BY AlikeSame DEF Intent, Formed, Launching
<1>2. CASE Queue
  BY <1>1, <1>2, QueuesAttended
<1>3. CASE Block(run, "other")
  BY <1>1, <1>3, BlocksAttended
<1>4. CASE /\ Goto("remount")
           /\ member' = [member EXCEPT !.phase = ctl.stage, !.reason = None]
  <2>1. ctl'.pc = "remount"
    BY <1>4, Going DEF Pcs
  <2>2. member'.reason = None /\ None # "liveness"
    BY <1>4, NoneAssumption DEF Formed, Shapes, MemberType
  <2> QED
    BY <1>1, <2>1, <2>2, GoesAttended
<1> QED
  BY <1>2, <1>3, <1>4 DEF Intent

LEMMA RemountAttended == ASSUME Formed, Attended, Remount, UNCHANGED <<expired, crashes>>
                         PROVE Attended'
<1>1. /\ UNCHANGED <<drainer, inbox, handles>> /\ ctl.pc \in Launching /\ Alikes(run)
      /\ member.reason # "liveness"
  BY AlikeSame DEF Remount, Formed, Launching, Attended, Calm
<1>2. CASE Block(run, "other")
  BY <1>1, <1>2, BlocksAttended
<1>3. CASE Goto("reserve") /\ UNCHANGED member
  <2>1. ctl'.pc = "reserve"
    BY <1>3, Going DEF Pcs
  <2> QED
    BY <1>1, <1>3, <2>1, GoesAttended
<1>4. CASE Claims
  <2>1. ctl'.pc = "persist" /\ UNCHANGED member
    BY <1>4 DEF Claims
  <2> QED
    BY <1>1, <2>1, GoesAttended
<1> QED
  BY <1>2, <1>3, <1>4, RemountCases

LEMMA PersistAttended == ASSUME Formed, Attended, Persist, UNCHANGED <<expired, crashes>>
                         PROVE Attended'
<1>1. UNCHANGED <<drainer, inbox, handles>> /\ ctl.pc \in Launching
  BY DEF Persist, Launching
<1>2. ctl'.pc = "reserve"
  BY Going DEF Pcs, Persist
<1>3. member'.reason = member.reason
  BY DEF Persist, Formed, Shapes, MemberType
<1> QED
  BY <1>1, <1>2, <1>3, GoesAttended DEF Attended, Calm

LEMMA ReserveAttended == ASSUME Formed, Attended, Reserve, UNCHANGED <<expired, crashes>>
                         PROVE Attended'
<1>1. UNCHANGED <<drainer, inbox, handles>> /\ ctl.pc \in Launching /\ Alikes(run)
  BY AlikeSame DEF Reserve, Formed, Launching
<1>2. CASE Goto("saveRun") /\ UNCHANGED member
  <2>1. ctl'.pc = "saveRun"
    BY <1>2, Going DEF Pcs
  <2> QED
    BY <1>1, <1>2, <2>1, GoesAttended DEF Attended, Calm
<1>3. CASE Queue
  BY <1>1, <1>3, QueuesAttended
<1>4. CASE Block(run, "other")
  BY <1>1, <1>4, BlocksAttended
<1> QED
  BY <1>2, <1>3, <1>4 DEF Reserve

\* What the review progression makes of a member that is idle.
LEMMA DriveAttended ==
  ASSUME Formed, Attended, ctl.pc = "idle", NEW r \in 0..Len(run), DriveReview(r),
         Silent' \/ expired, ~Active("cancel") \/ expired,
         UNCHANGED <<drainer, expired, crashes>>
  PROVE  Attended' \/ (~(checkout = None) /\ UNCHANGED <<member, run, ctl>>)
<1>1. member \in MemberType /\ member.reason # "liveness" /\ None # "liveness"
      /\ crashes = 0
  BY NoneAssumption DEF Formed, Shapes, Attended, Calm
<1>2. ~expired => Silent' /\ ~Active("cancel")'
  BY DEF Active
<1>3. CASE ctl' = [NoTask EXCEPT !.pc = "intent", !.task = "launch",
                                 !.stage = NextStage, !.from = r]
           /\ UNCHANGED member
  <2>1. ctl'.pc = "intent" /\ member'.reason = member.reason
    BY <1>3 DEF NoTask
  <2> QED
    BY <1>1, <1>2, <2>1 DEF Attended, Calm, Hushed, Ahead, Underway
<1>4. ASSUME NEW p \in {"queued", "sealed", "blocked"}, NEW why, why # "liveness",
             member'.phase = p, member'.reason = why, UNCHANGED ctl
      PROVE  Attended'
  BY <1>1, <1>2, <1>4 DEF Attended, Calm, Hushed, Ahead, Underway, Phases, Stages
<1>5. CASE member' = [member EXCEPT !.phase = "sealed", !.reason = None] /\ UNCHANGED ctl
  BY <1>1, <1>4, <1>5 DEF MemberType
<1>6. CASE member' = [member EXCEPT !.phase = "queued"] /\ UNCHANGED ctl
  <2>1. member'.phase = "queued" /\ member'.reason = member.reason
    BY <1>1, <1>6 DEF MemberType
  <2> QED
    BY <1>1, <1>4, <1>6, <2>1
<1>7. CASE member' = [member EXCEPT !.phase = "blocked", !.reason = "other"]
           /\ UNCHANGED ctl
  BY <1>1, <1>4, <1>7 DEF MemberType
<1>8. CASE Claimed(run[Latest].checkout) /\ UNCHANGED <<member, run, ctl>>
  BY <1>8 DEF Claimed
<1> QED
  BY <1>3, <1>5, <1>6, <1>7, <1>8 DEF DriveReview

LEMMA RetryQueuedAttended ==
  ASSUME Formed, Attended, RetryQueued, UNCHANGED <<expired, crashes>> PROVE Attended'
<1>1. /\ ctl.pc = "idle" /\ DriveReview(0) /\ UNCHANGED <<drainer, inbox, handles>>
      /\ member.phase = "queued" /\ 0 \in 0..Len(run)
  BY Types DEF RetryQueued
<1>2. ~expired => Silent /\ ~Active("cancel")
  BY <1>1 DEF Attended, Hushed, Waiting
<1>3. ~expired => Silent'
  BY <1>1, <1>2 DEF Silent, Active
<1>4. CASE UNCHANGED <<member, run, ctl>>
  BY <1>1, <1>4, ControlAttended
     DEF Attended, Calm, Ahead, Waiting, Launching, Underway, Phases, Stages
<1> QED
  BY <1>1, <1>2, <1>3, <1>4, DriveAttended

LEMMA SavesAttended ==
  ASSUME Formed, Attended, Saves, UNCHANGED <<expired, crashes>> PROVE Attended'
<1>1. /\ ctl.pc = "saveRun" /\ ctl'.pc = "bind" /\ ctl'.from = ctl.from
      /\ Len(run') = Len(run) + 1 /\ run'[Len(run) + 1] = NewRun
      /\ UNCHANGED <<member, drainer, inbox, handles>>
  BY DEF Saves
<1>2. NewRun.state = "running" /\ NewRun.settled = FALSE
  BY DEF NewRun
<1>3. Ahead'
  BY <1>1, <1>2, Types DEF Ahead
<1> QED
  BY <1>1, <1>3, ControlAttended DEF Attended, Calm, Waiting, Launching, Underway

\* A launch that is refused.
LEMMA RefuseAttended ==
  ASSUME Formed, Attended, run # <<>>, Refuse(Len(run)),
         UNCHANGED <<drainer, inbox, handles, expired, crashes>>
  PROVE  Attended'
<1>1. PICK r \in Index : r = Len(run)
  BY Last
<1>2. Alikes(run) /\ "blocked" \in States
  BY AlikeSame DEF Formed, States
<1>3. LET t == [run EXCEPT ![r].state = "blocked"]
      IN /\ Alikes(t) /\ t[r].state = "blocked" /\ t[r].settled = run[r].settled
         /\ \A q \in Index : q # r => t[q] = run[q]
  BY <1>2, AlikeState
<1> DEFINE rs == [run EXCEPT ![r].state = "blocked"]
<1>4. Alikes(rs) /\ Block(rs, "other")
  BY <1>1, <1>3 DEF Refuse
<1> HIDE DEF rs
<1> QED
  BY <1>4, BlocksAttended

LEMMA BindsAttended ==
  ASSUME Formed, Attended, Binds, UNCHANGED <<expired, crashes>> PROVE Attended'
<1>1. /\ ctl.pc = "bind" /\ ctl'.pc = "serve" /\ ctl'.from = ctl.from
      /\ UNCHANGED <<run, drainer, inbox, handles>> /\ member'.reason = member.reason
  BY DEF Binds, Formed, Shapes, MemberType
<1> QED
  BY <1>1, ControlAttended DEF Attended, Calm, Ahead, Waiting, Launching, Underway

LEMMA BindAttended ==
  ASSUME Formed, Attended, Bind, UNCHANGED <<expired, crashes>> PROVE Attended'
<1>1. UNCHANGED <<drainer, inbox, handles>> /\ ctl.pc = "bind" /\ run # <<>>
  BY DEF Bind, Formed, StandOK
<1>2. CASE Refuse(Len(run))
  BY <1>1, <1>2, RefuseAttended
<1>3. CASE ~Refuse(Len(run))
  <2>1. Fit(Len(run)) /\ member' = [member EXCEPT !.run = Len(run)] /\ Goto("serve")
        /\ UNCHANGED <<run, registry, drainer, inbox, handles>>
    BY <1>3 DEF Bind, Fit
  <2>2. Binds
    BY <1>1, <2>1, Going DEF Binds, Pcs
  <2> QED
    BY <2>2, BindsAttended
<1> QED
  BY <1>2, <1>3

\* The controller meets the run it has bound and served, and nothing else.
LEMMA ServesAttended ==
  ASSUME Formed, Attended, Serves, UNCHANGED <<expired, crashes>> PROVE Attended'
<1>0. PICK r \in Index : r = Len(run)
  BY Last DEF Serves, Formed, StandOK
<1>1. /\ ctl.pc = "serve" /\ ctl'.pc = "outcome" /\ ctl'.from = ctl.from /\ ~expired
      /\ member.run = r /\ member.phase = run[r].phase
      /\ Len(run') = Len(run) /\ Index' = Index
      /\ run'[r].phase = run[r].phase /\ run'[r].state = run[r].state
      /\ run'[r].settled = run[r].settled
      /\ handles' = handles \cup {<<r, "stream">>, <<r, "timer">>}
      /\ UNCHANGED <<member, drainer, inbox>>
  BY <1>0 DEF Serves, Leased, Becomes, Index
<1>2. Silent /\ ctl.from < r /\ run[r].state = "running" /\ ~run[r].settled
  BY <1>0, <1>1 DEF Attended, Hushed, Waiting, Launching, Ahead
<1>3. member.phase \in Phases
  BY <1>1 DEF Formed, StandOK, Mounting
<1>4. \A h \in handles' : h[1] = r
  BY <1>1, <1>2 DEF Silent
<1>5. \A q : HeardOf(q)' => q = r
  BY <1>1, <1>2, <1>4 DEF HeardOf, Silent, Active, Drainers
<1>6. Timely(r)'
  BY <1>1, <1>2 DEF Timely, Silent, Active, Drainers
<1>7. Minded(r)'
  BY <1>1, <1>2, <1>5, <1>6 DEF Minded, Over
<1>8. Minded(member.run)'
  <2>1. member'.run = r
    BY <1>1
  <2> QED
    BY <1>7, <2>1 DEF Minded, Timely, Pending, Entry
<1>9. Calm' /\ Hushed' /\ Ahead'
  BY <1>0, <1>1, <1>2, <1>3
     DEF Attended, Calm, Hushed, Ahead, Waiting, Launching, Silent, Active, Drainers, Phases,
         Stages
<1> QED
  BY <1>8, <1>9 DEF Attended

LEMMA ServeAttended ==
  ASSUME Formed, Attended, Serve, UNCHANGED <<expired, crashes>> PROVE Attended'
<1>1. UNCHANGED <<drainer, inbox>> /\ run # <<>>
  BY DEF Serve, Formed, StandOK
<1> QED
  BY <1>1, ServeStep, RefuseAttended, ServesAttended

LEMMA OutcomeAttended ==
  ASSUME Formed, Turns, Attended, Outcome, UNCHANGED <<expired, crashes>> PROVE Attended'
<1>1. /\ UNCHANGED <<drainer, inbox, handles>> /\ ctl.pc = "outcome"
      /\ ctl'.pc = "idle" /\ member \in MemberType
      /\ member.phase \in Phases /\ run' = Settled(run)
  BY DEF Outcome, NoTask, Formed, StandOK, Mounting, Shapes
<1>2. PICK m \in Index : m = Len(run) /\ m = member.run
  BY <1>1, Last DEF Formed, StandOK, Turns, Bindings
<1>3. /\ member'.phase = member.phase /\ member'.run = member.run
      /\ member'.reason = member.reason
  BY <1>1 DEF Outcome, MemberType
<1>4. /\ Alikes(run') /\ run'[m] = run[m] /\ Index' = Index
  <2>1. ctl.from # m
    BY <1>1, <1>2, Types DEF Attended, Ahead
  <2>2. Alikes(run) /\ ctl.from \in 0..Len(run)
    BY AlikeSame, Types DEF Formed
  <2> HIDE DEF Settled
  <2> QED
    BY <1>1, <2>1, <2>2, SettledAlike DEF Alikes, Index
<1>5. Minded(m)
  BY <1>1, <1>2 DEF Attended, Underway
<1>6. Minded(m)'
  BY <1>1, <1>3, <1>4, <1>5 DEF Minded, HeardOf, Active, Timely, Pending, Entry
<1>7. Minded(member.run)'
  <2>1. member'.run = m
    BY <1>2, <1>3
  <2> QED
    BY <1>6, <2>1 DEF Minded, Timely, Pending, Entry
<1>8. Calm' /\ Hushed' /\ Ahead'
  BY <1>1, <1>3
     DEF Attended, Calm, Hushed, Ahead, Waiting, Launching, Active, Phases, Stages
<1> QED
  BY <1>7, <1>8 DEF Attended

\* The summary the member waited for moves it on, and no other is heard.
LEMMA HandleAttended ==
  ASSUME Formed, Leasing, Turns, Attended, Handle, UNCHANGED <<expired, crashes>>
  PROVE  Attended'
<1> DEFINE r == Head(inbox).run
           state == Head(inbox).state
<1>1. /\ ctl.pc = "idle" /\ inbox # <<>> /\ inbox' = Tail(inbox)
      /\ UNCHANGED <<registry, drainer, handles>>
  BY DEF Handle
<1>2. /\ 1 \in 1..Len(inbox) /\ Head(inbox) = inbox[1] /\ Len(inbox) \in Nat
      /\ Len(inbox') = Len(inbox) - 1
      /\ inbox' \in Seq([run : Nat, state : Over \cup {"blocked"}])
  BY <1>1, HeadTailProperties DEF Formed, Shapes
<1>3. inbox[1] \in [run : Nat, state : Over \cup {"blocked"}]
  BY <1>2, ElementOfSeq DEF Formed, Shapes
<1>4. r \in Index /\ HeardOf(r) /\ r \in 0..Len(run) /\ run[r].phase \in Phases
  <2>1. r \in Index /\ HeardOf(r)
    BY <1>2 DEF Formed, ProcessOK, Served, HeardOf
  <2> HIDE DEF r
  <2> QED
    BY <2>1, Types DEF Index
<1>5. ~Silent /\ member \in MemberType /\ None # "liveness"
  BY <1>1, NoneAssumption DEF Silent, Formed, Shapes
<1>6. state \in Over \cup {"blocked"}
  BY <1>2, <1>3
<1> HIDE DEF r, state
<1>7. CASE ~Underway
  <2>1. UNCHANGED <<member, run, ctl>>
    BY <1>1, <1>4, <1>7 DEF Handle, Underway, r
  <2>2. Ahead'
    BY <1>1, <2>1 DEF Ahead
  <2>3. ~expired' => ~Active("cancel")'
    BY <1>1 DEF Attended, Hushed, Active
  <2> QED
    BY <1>1, <1>5, <1>7, <2>1, <2>2, <2>3, AsideAttended
<1>8. CASE Underway
  <2>1. Minded(r) /\ member.run = r
    BY <1>4, <1>8 DEF Attended, Minded
  <2>2. /\ member.run \in {None, r} /\ member.phase = run[r].phase /\ ~run[r].settled
    BY <2>1 DEF Minded
  <2>3. CASE /\ member' = [member EXCEPT !.phase = "blocked", !.reason = "other"]
             /\ UNCHANGED ctl
    <3>1. member'.phase = "blocked" /\ member'.reason = "other"
      BY <1>5, <2>3 DEF MemberType
    <3> QED
      BY <1>1, <2>3, <3>1
         DEF Attended, Calm, Hushed, Ahead, Waiting, Launching, Underway, Active, Phases, Stages
  <2>4. CASE DriveReview(r) /\ state \in {"completed", "failed"}
    <3>1. checkout = None
      BY <1>1, <2>2, <2>4, OverIsQuiet DEF Quiet, Over, r, state
    <3>2. ASSUME ~expired PROVE Silent' /\ ~Active("cancel")
      <4>1. Timely(r)
        BY <2>1, <3>2 DEF Minded
      <4>2. Len(inbox') = 0 /\ handles = {} /\ ~Active("finish")
        BY <1>1, <1>2, <2>4, <4>1 DEF Timely, state
      <4>3. ~Active("cancel") /\ ~Active("recover")
        BY <1>1, <3>2, NoRecovery DEF Attended, Hushed
      <4>4. inbox' = <<>>
        BY <1>2, <4>2, EmptySeq
      <4> QED
        BY <1>1, <4>2, <4>3, <4>4 DEF Silent, Active, Drainers
    <3> QED
      BY <1>1, <1>4, <2>4, <3>1, <3>2, DriveAttended
  <2> QED
    BY <1>1, <1>6, <2>2, <2>3, <2>4 DEF Handle, r, state, Over
<1> QED
  BY <1>7, <1>8

-------------------------------------------------------------------------------
LEMMA AttendedInit == Init => Attended
<1> SUFFICES ASSUME Init PROVE Attended
  OBVIOUS
<1>1. /\ member.phase = "implementing" /\ member.reason = None /\ run = <<>>
      /\ inbox = <<>> /\ handles = {} /\ crashes = 0 /\ None # "liveness"
  BY NoneAssumption DEF Init
<1>2. ctl.pc = "saveRun" /\ NoDrain.pc = "idle"
  BY DEF Init, NoTask, NoDrain
<1>3. Silent
  BY <1>1, <1>2 DEF Init, Silent, Active
<1> QED
  BY <1>1, <1>2, <1>3
     DEF Attended, Calm, Hushed, Ahead, Waiting, Underway, Silent, Drainers

LEMMA AttendedNext ==
  ASSUME MaxCrashes = 0, Formed, Leasing, Turns, Attended, [Next]_vars PROVE Attended'
<1>1. /\ ctl.pc \notin {"down", "resume"} /\ member.reason # "liveness" /\ crashes = 0
  BY DEF Attended, Calm
<1>2. CASE Control
  BY <1>1, <1>2, HandleAttended, IntentAttended, RemountAttended, PersistAttended,
     ReserveAttended, SaveRunStep, SavesAttended, BindAttended, ServeAttended, OutcomeAttended
     DEF Control, Resume
<1>3. CASE Wake
  BY <1>1, <1>3, RetryQueuedAttended DEF Wake, Recover, RetryBlocked
<1>4. CASE \E d \in Drainers : Drainage(d)
  BY <1>4, DrainAttended, ReleaseAttended, RecordReleaseStep, RecordedAttended,
     DrainedAttended DEF Drainage
<1>5. CASE Callback
  BY <1>5, FinishAttended, DeadlineAttended DEF Callback
<1>6. CASE WorkerEnds
  BY <1>6, WorkerAttended
<1>7. CASE Expire \/ UNCHANGED vars
  BY <1>7, ExpireAttended DEF Expire, vars, registry, process
<1>8. CASE Crash
  BY <1>1, <1>8 DEF Crash
<1> QED
  BY <1>2, <1>3, <1>4, <1>5, <1>6, <1>7, <1>8 DEF Next

\* A coordinator that lives drops no member: when no summary is queued, no drain is
\* under way and no stream can still end, the member waits for a release, is blocked
\* or is sealed, whatever calls failed before and whenever the deadline fell.  (With
\* a death of the coordinator this is not so: see the run handoff_dropped.)
THEOREM NobodyDropped == ASSUME MaxCrashes = 0 PROVE Spec => []NoMemberDropped
<1>1. Init => Attended
  BY AttendedInit
<1>2. Formed /\ Leasing /\ Turns /\ Attended /\ [Next]_vars => Attended'
  BY AttendedNext
<1>3. Formed /\ Attended => NoMemberDropped
  <2> SUFFICES ASSUME Formed, Attended, Quiescent PROVE NoMemberDropped
    BY DEF NoMemberDropped
  <2>1. ~Underway
    <3>1. SUFFICES ASSUME Underway PROVE FALSE
      OBVIOUS
    <3>2. PICK m \in Index : Minded(m)
      BY <3>1 DEF Attended, Minded
    <3>3. Pending(m)
      BY <3>2 DEF Minded, Quiescent, Index
    <3>4. Len(inbox) = 0
      BY DEF Quiescent
    <3> QED
      BY <3>3, <3>4 DEF Pending, Entry, Active, Quiescent, Drainers
  <2> QED
    BY <2>1, Types DEF Underway, Quiescent, NoMemberDropped
<1> QED
  BY <1>1, <1>2, <1>3, TurnsAlways, PTL DEF Spec
===============================================================================
