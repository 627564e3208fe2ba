------------------------------ MODULE Discussion ------------------------------
(***************************************************************************)
(* The discussion service (scripts/workspaces/discussion.mjs).  Messages   *)
(* wait in a durable queue per thread; one pump hands the heads of the     *)
(* queues to pi children, one child per thread, and one response lease     *)
(* makes sure that a single model response is in flight over all threads.  *)
(* A child is started when it is needed, closed when it has been idle or   *)
(* when another thread needs its place, and can die at any time; so can    *)
(* the service, which then finds its records and the children it left.     *)
(*                                                                         *)
(* A record changes only under its thread's lock.  An operation that waits *)
(* for a child under the lock is a job with one step per wait; any other   *)
(* is one step.  queued_at is abstracted: the pump may take any eligible   *)
(* head.  A child's answers and events are one ordered stream: when it is  *)
(* seen idle, agent_settled has been seen.                                 *)
(***************************************************************************)
EXTENDS Integers, SequencesExt

CONSTANTS
  None,        \* no lease, nothing read yet
  Threads,
  MaxOwned,    \* MAX_OWNED_CHILDREN
  MaxAccepted, \* MAX_ACCEPTED_MESSAGE_IDS
  MaxActs,     \* bound: sends, resumes, stops and discards
  MaxChildren, \* bound: children started
  MaxCrashes,  \* bound: deaths of the service
  MaxFaults,   \* bound: failing calls, dying children, lost directories
  IdleExpiry,  \* the idle timers fire
  Backlog      \* the threads of the messages that a starting service finds queued

ASSUME DiscussionAssumption ==
  /\ {MaxOwned, MaxAccepted} \subseteq Nat \ {0}
  /\ {MaxActs, MaxChildren, MaxCrashes, MaxFaults} \subseteq Nat
  /\ IdleExpiry \in BOOLEAN /\ Backlog \in Seq(Threads)
  /\ None \notin Threads
  /\ None \notin [thread : Threads, msg : Nat, gen : Nat, settled : BOOLEAN, acked : BOOLEAN,
                  orphan : BOOLEAN]

VARIABLES
  record,     \* the thread records
  present,    \* threads whose target directory resolves
  child,      \* the pi processes, in the order they were started
  home,       \* the thread of each message id, in the order they were drawn
  given,      \* history: ids a child may have received, and not forgotten since
  lease,      \* responseLease
  owned,      \* ownedAdapters: the thread's child, or 0
  evicting,   \* children whose adapter is marked evicting
  tracked,    \* ownedChildren
  flight,     \* ownedDelivering: the id being delivered, or 0
  recovered,  \* recoveredThreads
  pump,       \* the pump pass
  job,        \* what holds the thread's lock across a wait
  retire,     \* idle children being closed, by a timer or for a job
  exits,      \* onOwnedExit calls waiting for the lock
  stopper,    \* the stop call in progress
  overtaken,  \* history: a stop settled the lease of a response that was not over
  acts, crashes, faults

durable == <<record, present, child, home, given>>
slot == <<lease, pump, stopper>>
adapters == <<owned, evicting, tracked>>
vars == <<record, present, child, home, given, lease, owned, evicting, tracked,
          flight, recovered, pump, job, retire, exits, stopper, overtaken,
          acts, crashes, faults>>

Free == [pc |-> "free", for |-> "none", msg |-> 0, child |-> 0]
Asked(for, id) == [pc |-> "check", for |-> for, msg |-> id, child |-> 0]
Pass(pc, again, left) ==
  [pc |-> pc, thread |-> None, msg |-> 0, child |-> 0, reply |-> "none",
   excluded |-> left, again |-> again]
Resting == Pass("idle", FALSE, {})
NoStop == [pc |-> "idle", thread |-> None, child |-> 0, process |-> 0, mine |-> FALSE]

Fault == faults < MaxFaults /\ faults' = faults + 1
NoFault == UNCHANGED faults
Act == acts < MaxActs /\ acts' = acts + 1

\* The queues that the messages left for a thread can form.
Orders(t) == SetToSeqs({i \in 1..Len(Backlog) : Backlog[i] = t})

\* A service starts with what its predecessor left queued, and no child.
Init ==
  /\ \E left \in [Threads -> UNION {Orders(t) : t \in Threads}] :
       /\ \A t \in Threads : left[t] \in Orders(t)
       /\ record = [t \in Threads |->
            [queue |-> [i \in DOMAIN left[t] |-> [id |-> left[t][i], state |-> "queued"]],
             paused |-> FALSE, accepted |-> <<>>, attention |-> "none", process |-> 0]]
  /\ present = Threads /\ child = <<>> /\ home = Backlog /\ given = {}
  /\ lease = None /\ owned = [t \in Threads |-> 0] /\ evicting = {} /\ tracked = {}
  /\ flight = [t \in Threads |-> 0] /\ recovered = {}
  /\ pump = Resting /\ job = [t \in Threads |-> Free]
  /\ retire = {} /\ exits = {} /\ stopper = NoStop /\ overtaken = FALSE
  /\ acts = 0 /\ crashes = 0 /\ faults = 0

-------------------------------------------------------------------------------
Alive(c) == c # 0 /\ child[c].state # "dead"
LiveOf(t) == {c \in 1..Len(child) : child[c].thread = t /\ Alive(c)}
Locked(t) == job[t].pc # "free"
Leased(c) == lease # None /\ lease.gen = c
Reserved == {t \in Threads : job[t].pc = "spawn"}

Items(r) == {r.queue[i] : i \in 1..Len(r.queue)}
Eligible(r) == /\ r.queue # <<>> /\ Head(r.queue).state = "queued"
               /\ ~r.paused /\ r.attention # "missing"
Known(r, id) == \/ \E item \in Items(r) : item.id = id
                \/ \E i \in 1..Len(r.accepted) : r.accepted[i] = id
Moved(r, id, state) ==
  [r EXCEPT !.queue = [i \in 1..Len(@) |->
                         IF @[i].id = id THEN [@[i] EXCEPT !.state = state] ELSE @[i]]]
\* The ids of a queue are distinct: at most one item goes.
Without(r, id) ==
  IF \E item \in Items(r) : item.id = id
  THEN LET i == CHOOSE i \in 1..Len(r.queue) : r.queue[i].id = id
       IN [r EXCEPT !.queue = RemoveAt(@, i)]
  ELSE r
Enqueued(r, id) == [r EXCEPT !.queue = Append(@, [id |-> id, state |-> "queued"])]
Resent(r, id, fresh) ==
  [r EXCEPT !.queue = [i \in 1..Len(@) |->
                         IF @[i].id = id THEN [id |-> fresh, state |-> "queued"] ELSE @[i]]]
Paused(r) == [r EXCEPT !.paused = TRUE]
Unpaused(r) == [r EXCEPT !.paused = FALSE]
Noted(r, attention) == [r EXCEPT !.attention = attention]
Owner(r, c) == [r EXCEPT !.process = c]
Held(r, c) == Noted(Owner(r, c), "owner")
Eased(r) == IF r.attention = "owner" THEN Noted(r, "none") ELSE r
Cleared(r) == Eased(Owner(r, 0))

\* Fault seeded for NeverTwice: what was being delivered is queued again.
LoadedQueued(t) ==
  IF t \in recovered THEN record[t]
  ELSE [record[t] EXCEPT !.queue =
          [i \in 1..Len(@) |-> [@[i] EXCEPT !.state = IF @ = "delivering" THEN "queued" ELSE @]]]

\* The first access after a start makes what was being delivered uncertain.
Loaded(t) ==
  LET lost == {item.id : item \in {i \in Items(record[t]) :
                                     i.state = "delivering" /\ i.id # flight[t]}}
  IN IF t \in recovered \/ lost = {} THEN record[t]
     ELSE [record[t] EXCEPT
             !.attention = "uncertain",
             !.queue = [i \in 1..Len(@) |-> IF @[i].id \in lost
                                             THEN [@[i] EXCEPT !.state = "uncertain"] ELSE @[i]]]

Write(t, r) == record' = [record EXCEPT ![t] = r]
Load(t) == recovered' = recovered \cup {t}

\* requestPump: a request that finds a pass running makes it run once more.
Requested(p) == IF p.pc = "idle" THEN Pass("read", FALSE, {}) ELSE [p EXCEPT !.again = TRUE]

\* Fault seeded for OneUnlessOvertaken: the acknowledgement alone frees the slot.
FreedAcked(l) == l.acked

\* What becomes of a lease: it is bound to a child, acknowledged, settled.
Bound(l, c) == [l EXCEPT !.gen = c]
Acked(l) == [l EXCEPT !.acked = TRUE]
Over(l) == [l EXCEPT !.settled = TRUE]

\* A lease goes back when its message is answered for and the response is over.
Freed(l) == l.settled /\ l.acked

Keep(l, p, s) == lease' = l /\ pump' = p /\ stopper' = s

\* Fault seeded for QueueMoves: the pump is not asked to run.
ReleaseSilent(p, s) == Keep(None, p, [s EXCEPT !.mine = FALSE])

\* releaseLease.  A stop call that captured the lease holds nothing any more.
Release(p, s) == Keep(None, Requested(p), [s EXCEPT !.mine = FALSE])

Settle(l, p, s) == IF Freed(l) THEN Release(p, s) ELSE Keep(l, p, s)

-------------------------------------------------------------------------------
\* send: a known id is a duplicate; a new one on a paused queue resumes first.
Send(t) ==
  /\ Act /\ ~Locked(t)
  /\ \E id \in 1..Len(home) + 1 :
       /\ home' = IF id > Len(home) THEN Append(home, t) ELSE home
       /\ home'[id] = t
       /\ LET r == Loaded(t)
          IN \/ /\ Known(r, id)
                /\ Write(t, r) /\ UNCHANGED <<pump, job>>
             \/ /\ ~Known(r, id) /\ r.paused
                /\ Write(t, r) /\ job' = [job EXCEPT ![t] = Asked("send", id)] /\ UNCHANGED pump
             \/ /\ ~Known(r, id) /\ ~r.paused
                /\ Write(t, Enqueued(r, id)) /\ pump' = Requested(pump)
                /\ UNCHANGED job
  /\ Load(t) /\ NoFault
  /\ UNCHANGED <<present, child, given, lease, adapters, flight, retire, exits, stopper, crashes, overtaken>>

Resume(t) ==
  /\ Act /\ ~Locked(t)
  /\ job' = [job EXCEPT ![t] = Asked("resume", 0)]
  /\ NoFault
  /\ UNCHANGED <<durable, slot, adapters, flight, recovered, retire, exits, crashes, overtaken>>

\* discard: an uncertain message is dropped, or put back under a fresh id.
Discard(t) ==
  /\ Act /\ ~Locked(t)
  /\ LET r == Loaded(t)
     IN \E item \in Items(r) :
          /\ item.state = "uncertain"
          /\ \/ Write(t, Without(r, item.id)) /\ UNCHANGED home
             \/ /\ home' = Append(home, t)
                /\ Write(t, Resent(r, item.id, Len(home) + 1))
          /\ given' = given \ {item.id}
  /\ flight' = [flight EXCEPT ![t] = 0]
  /\ pump' = Requested(pump) /\ Load(t) /\ NoFault
  /\ UNCHANGED <<present, child, lease, stopper, adapters, job, retire, exits, crashes, overtaken>>

-------------------------------------------------------------------------------
\* resumeLocked, under the lock of t, for resume, for send or for the pump.  It
\* returns with record r, or throws with an attention that is written first.
Goto(t, pc, c) == job' = [job EXCEPT ![t].pc = pc, ![t].child = c]
Stand == UNCHANGED <<lease, pump, stopper>>

Again(p) == Pass("read", p.again, p.excluded \cup {p.thread})

\* The head is durably delivering before its prompt is written; when that write
\* fails, the lease goes back if the child is idle.
Delivers(t, r, c) ==
  \/ /\ Write(t, Moved(r, lease.msg, "delivering"))
     /\ flight' = [flight EXCEPT ![t] = lease.msg]
     /\ Keep(Bound(lease, c), [pump EXCEPT !.pc = "prompt", !.child = c], stopper)
     /\ NoFault
  \/ /\ Write(t, r) /\ UNCHANGED flight /\ Fault
     /\ IF child[c].state \in {"starting", "idle"} /\ c \notin evicting
        THEN Release(Again(pump), stopper)
        ELSE Keep(Bound(lease, c), Again(pump), stopper)

Return(t, r, mine) ==
  \/ /\ job[t].for # "stage"
     /\ Write(t, IF job[t].for = "send" THEN Enqueued(r, job[t].msg) ELSE r)
     /\ Keep(lease, Requested(pump), stopper)
     /\ job' = [job EXCEPT ![t] = Free] /\ UNCHANGED flight /\ NoFault
  \/ /\ job[t].for = "stage" /\ mine # 0 /\ ~r.paused /\ r.process # 0
     /\ r.attention # "missing"
     /\ job' = [job EXCEPT ![t] = Free]
     /\ Delivers(t, r, mine)
  \/ /\ job[t].for = "stage"
     /\ mine = 0 \/ r.paused \/ r.process = 0 \/ r.attention = "missing"
     /\ Write(t, r) /\ UNCHANGED flight /\ NoFault
     /\ IF mine = 0 /\ r.process = 0 THEN Release(Again(pump), stopper)
                                     ELSE Keep(lease, Again(pump), stopper)
     /\ job' = [job EXCEPT ![t] = Free]

\* An owner that may be alive keeps the lease; else the queue pauses.
Throw(t, r, gone) ==
  LET owners == {r.process} \cup {k \in tracked : child[k].thread = t}
  IN /\ job' = [job EXCEPT ![t] = Free] /\ UNCHANGED flight
     /\ \/ job[t].for # "stage" /\ Write(t, r) /\ Stand
        \/ /\ job[t].for = "stage" /\ \E c \in owners : Alive(c) /\ c # gone
           /\ Write(t, r) /\ Keep(lease, Again(pump), stopper)
        \/ /\ job[t].for = "stage" /\ \A c \in owners : ~Alive(c) \/ c = gone
           /\ Write(t, Paused(r)) /\ Release(Again(pump), stopper)

\* The end of a child.  The adapter of an installed one hears of it: its lease
\* is settled, and onOwnedExit forgets it, the record as soon as the lock is free.
Installed(c) == child[c].state \in {"idle", "busy"} /\ ~child[c].orphan
Dies(c) ==
  /\ child' = [child EXCEPT ![c].state = "dead"]
  /\ exits' = IF Installed(c) THEN exits \cup {[child |-> c, mine |-> Leased(c)]} ELSE exits
  /\ tracked' = IF Installed(c) THEN tracked \ {c} ELSE tracked
SettledBy(c) == IF Leased(c) THEN Over(lease) ELSE lease

\* Fault seeded for OneOwner: only the record is asked, not the process listing.
StrangerRecorded(t) == Alive(record[t].process)

\* A live process of the thread, recorded or listed.
Stranger(t) == Alive(record[t].process) \/ LiveOf(t) # {}

\* The target must resolve, and an owned child be the recorded one and answer
\* get_state; one that does not answer is closed.  Without an owned child there
\* must be no process of the thread; the listing can be unusable.
Check(t) ==
  LET r == Loaded(t)
      c == owned[t]
      fit == t \in present /\ c # 0 /\ c \notin evicting /\ Alive(c) /\ r.process = c
      closed == UNCHANGED <<child, adapters, exits>>
  IN /\ job[t].pc = "check" /\ Load(t)
     /\ \/ t \notin present /\ Return(t, Noted(r, "missing"), c) /\ closed
        \/ t \in present /\ c \in evicting /\ Throw(t, Noted(r, "none"), 0) /\ NoFault /\ closed
        \/ /\ t \in present /\ c # 0 /\ c \notin evicting /\ ~fit
           /\ Throw(t, Noted(r, "owner"), 0) /\ NoFault /\ closed
        \/ /\ fit /\ Write(t, r) /\ Goto(t, "pin", c)
           /\ Stand /\ NoFault /\ UNCHANGED flight /\ closed
        \/ /\ fit /\ Fault /\ Dies(c)
           /\ owned' = [owned EXCEPT ![t] = 0]
           /\ Write(t, r) /\ Goto(t, "capacity", 0) /\ lease' = SettledBy(c)
           /\ UNCHANGED <<evicting, pump, stopper, flight>>
        \/ /\ fit /\ Fault
           /\ evicting' = evicting \cup {c} /\ Throw(t, Held(r, c), 0)
           /\ UNCHANGED <<child, owned, tracked, exits>>
        \/ /\ t \in present /\ c = 0 /\ ~Stranger(t)
           /\ Write(t, r) /\ Goto(t, "capacity", 0)
           /\ Stand /\ NoFault /\ UNCHANGED flight /\ closed
        \/ /\ t \in present /\ c = 0
           /\ (Stranger(t) /\ NoFault) \/ Fault
           /\ Throw(t, Noted(r, "owner"), 0) /\ closed
     /\ UNCHANGED <<present, home, given, retire, acts, crashes, overtaken>>

\* The queue is unpaused; the pump binds its lease to the child it then finds.
Pin(t) ==
  /\ job[t].pc = "pin"
  /\ Return(t, Unpaused(Eased(Owner(record[t], job[t].child))), owned[t])
  /\ UNCHANGED <<present, child, home, given, adapters, recovered, retire, exits, acts, crashes, overtaken>>

\* What makes an owned child fit to be closed: nothing in flight, nothing unsure.
Unsure(r) == \/ r.attention \in {"uncertain", "owner"}
             \/ \E item \in Items(r) : item.state # "queued"
Unclaimed(u, c) == owned[u] = c /\ c \notin evicting /\ flight[u] = 0 /\ ~Leased(c)
Retirable(u) ==
  LET c == owned[u] IN c # 0 /\ Unclaimed(u, c) /\ child[c].state = "idle" /\ ~Unsure(record[u])

\* Fault seeded for WithinLimit: places promised to other jobs are not counted.
RoomUnreserved == Cardinality(tracked) < MaxOwned

Room == Cardinality(tracked) + Cardinality(Reserved) < MaxOwned

\* acquireCapacity, one caller at a time: a free place, or that of an idle child.
Capacity(t) ==
  /\ job[t].pc = "capacity" /\ \A k \in retire : k.for = None
  /\ \/ /\ Room /\ NoFault
        /\ Goto(t, "spawn", 0) /\ Stand /\ UNCHANGED <<record, flight, retire>>
     \/ /\ ~Room /\ NoFault
        /\ \E u \in Threads :
             /\ Retirable(u)
             /\ retire' = retire \cup {[thread |-> u, child |-> owned[u], for |-> t, pc |-> "judged"]}
        /\ Goto(t, "evicting", 0) /\ Stand /\ UNCHANGED <<record, flight>>
     \/ /\ ~Room
        /\ ((\A u \in Threads : ~Retirable(u)) /\ NoFault) \/ Fault
        /\ Throw(t, Noted(record[t], "none"), 0) /\ UNCHANGED retire
  /\ UNCHANGED <<present, child, home, given, adapters, recovered, exits, acts, crashes, overtaken>>

\* The child is counted before its reservation is returned.
Spawn(t) ==
  /\ job[t].pc = "spawn"
  /\ \/ /\ Len(child) < MaxChildren /\ NoFault
        /\ child' = Append(child, [thread |-> t, state |-> "starting", orphan |-> FALSE])
        /\ tracked' = tracked \cup {Len(child) + 1}
        /\ Goto(t, "record", Len(child) + 1) /\ Stand /\ UNCHANGED <<record, flight>>
     \/ /\ (Len(child) = MaxChildren /\ NoFault) \/ Fault
        /\ Throw(t, Noted(record[t], "none"), 0) /\ UNCHANGED <<child, tracked>>
  /\ UNCHANGED <<present, home, given, owned, evicting, recovered, retire, exits,
                 acts, crashes, overtaken>>

\* The captured process is published while the child starts.  When that fails,
\* the child is closed; its death may not be confirmed.
RecordChild(t) ==
  LET c == job[t].child
  IN /\ job[t].pc = "record"
     /\ \/ /\ Write(t, Held(record[t], c)) /\ Goto(t, "handshake", c)
           /\ Stand /\ NoFault /\ UNCHANGED <<child, tracked, flight>>
        \/ /\ Fault /\ Throw(t, record[t], c)
           /\ child' = [child EXCEPT ![c].state = "dead"] /\ tracked' = tracked \ {c}
        \/ /\ Fault /\ Throw(t, record[t], 0) /\ UNCHANGED <<child, tracked>>
     /\ UNCHANGED <<present, home, given, owned, evicting, recovered, retire, exits,
                    acts, crashes, overtaken>>

\* A child that answers is installed; one that fails or dies is closed, and
\* stays recorded and counted when its death is not confirmed.
Handshake(t) ==
  LET c == job[t].child
      r == record[t]
  IN /\ job[t].pc = "handshake"
     /\ \/ /\ Alive(c)
           /\ child' = [child EXCEPT ![c].state = "idle"]
           /\ owned' = [owned EXCEPT ![t] = c] /\ UNCHANGED tracked
           /\ Return(t, Unpaused(Noted(Owner(r, c), "none")), c)
        \/ /\ (~Alive(c) /\ NoFault) \/ Fault
           /\ child' = [child EXCEPT ![c].state = "dead"]
           /\ tracked' = tracked \ {c} /\ UNCHANGED owned
           /\ Throw(t, Noted(Owner(r, 0), "none"), c)
        \/ /\ Alive(c) /\ Fault
           /\ Throw(t, Noted(r, "none"), 0) /\ UNCHANGED <<child, tracked, owned>>
     /\ UNCHANGED <<present, home, given, evicting, recovered, retire, exits,
                    acts, crashes, overtaken>>

-------------------------------------------------------------------------------
\* Idle children are closed: expireIdleChild, and the victims of acquireCapacity.
Expire(u) ==
  /\ IdleExpiry /\ Retirable(u) /\ \A k \in retire : k.for # None
  /\ retire' = retire \cup {[thread |-> u, child |-> owned[u], for |-> None, pc |-> "judged"]}
  /\ NoFault
  /\ UNCHANGED <<durable, slot, adapters, flight, recovered, job, exits, acts, crashes, overtaken>>

\* What was seen before get_state and the record were read is checked again.
Retire(k) ==
  LET u == k.thread
      c == k.child
      next(pc) == IF k.for = None THEN UNCHANGED job ELSE job' = [job EXCEPT ![k.for].pc = pc]
  IN /\ k \in retire
     /\ \/ /\ k.pc = "judged" /\ Unclaimed(u, c)
           /\ evicting' = evicting \cup {c}
           /\ retire' = (retire \ {k}) \cup {[k EXCEPT !.pc = "closing"]}
           /\ NoFault /\ UNCHANGED <<record, child, lease, owned, tracked, exits, job>>
        \/ /\ k.pc = "judged" /\ ~Unclaimed(u, c)
           /\ retire' = retire \ {k} /\ next("capacity")
           /\ NoFault /\ UNCHANGED <<record, child, lease, adapters, exits>>
        \/ /\ k.pc = "closing" /\ NoFault
           /\ IF Alive(c) THEN Dies(c) ELSE UNCHANGED <<child, exits, tracked>>
           /\ lease' = SettledBy(c)
           /\ owned' = [owned EXCEPT ![u] = IF @ = c THEN 0 ELSE @]
           /\ retire' = retire \ {k} /\ next("spawn")
           /\ UNCHANGED <<record, evicting>>
        \/ /\ k.pc = "closing" /\ Alive(c) /\ ~Locked(u) /\ Fault
           /\ Write(u, Held(Loaded(u), c))
           /\ retire' = retire \ {k} /\ next("capacity")
           /\ UNCHANGED <<child, lease, adapters, exits>>
     /\ UNCHANGED <<present, home, given, pump, stopper, flight, recovered, acts, crashes, overtaken>>

-------------------------------------------------------------------------------
\* The pump.  A pass ends at once when the lease is taken.
Ended(p, free) == IF p.again /\ free THEN Pass("read", FALSE, {}) ELSE Resting

Busy == /\ pump.pc = "read" /\ lease # None
        /\ pump' = Ended(pump, FALSE) /\ NoFault
        /\ UNCHANGED <<durable, lease, stopper, adapters, flight, recovered, job, retire, exits,
                       acts, crashes, overtaken>>

\* Threads whose recorded process runs and is not the adapter's.
Strangers == {t \in Threads : LET p == record[t].process
                              IN Alive(p) /\ (owned[t] # p \/ p \in evicting)}

Chosen(p, t, id) == [p EXCEPT !.pc = "stage", !.thread = t, !.msg = id]

\* findEligibleHead waits for every lock.  A process that the service does not
\* own may be responding, and takes the lease; else a head is chosen.
Judge ==
  /\ pump.pc = "read" /\ lease = None /\ \A t \in Threads : ~Locked(t)
  /\ recovered' = Threads
  /\ LET heads == {t \in Threads : Eligible(Loaded(t))} \ pump.excluded
     IN \/ \E t \in Strangers :
             /\ Keep([thread |-> t, msg |-> 0, gen |-> 0, settled |-> FALSE, acked |-> TRUE,
                      orphan |-> TRUE], Ended(pump, FALSE), stopper)
             /\ record' = [u \in Threads |-> IF u = t THEN Noted(Loaded(u), "owner") ELSE Loaded(u)]
        \/ /\ Strangers = {} /\ heads = {}
           /\ Keep(lease, Ended(pump, TRUE), stopper)
           /\ record' = [u \in Threads |-> Loaded(u)]
        \/ /\ Strangers = {}
           /\ \E t \in heads : Keep(lease, Chosen(pump, t, Head(Loaded(t).queue).id), stopper)
           /\ record' = [u \in Threads |-> Loaded(u)]
  /\ NoFault
  /\ UNCHANGED <<present, child, home, given, adapters, flight, job, retire, exits, acts, crashes, overtaken>>

\* stageQueuedHead: the head is checked again, and takes the lease.
Stage(t) ==
  LET r == Loaded(t)
  IN /\ pump.pc = "stage" /\ pump.thread = t /\ ~Locked(t)
     /\ Write(t, r) /\ Load(t)
     /\ IF Eligible(r) /\ Head(r.queue).id = pump.msg /\ lease = None
        THEN /\ Keep([thread |-> t, msg |-> pump.msg, gen |-> 0, settled |-> FALSE,
                      acked |-> FALSE, orphan |-> FALSE], [pump EXCEPT !.pc = "staging"], stopper)
             /\ job' = [job EXCEPT ![t] = Asked("stage", pump.msg)]
        ELSE Keep(lease, Again(pump), stopper) /\ UNCHANGED job
     /\ NoFault
     /\ UNCHANGED <<present, child, home, given, adapters, flight, retire, exits, acts, crashes, overtaken>>

\* The prompt: started, handled without a response, refused, or no answer.
Prompt ==
  LET c == pump.child
      open == Alive(c) /\ c \notin evicting
  IN /\ pump.pc = "prompt"
     /\ \E reply \in {"started", "handled", "refused", "lost"} :
          /\ pump' = [pump EXCEPT !.pc = "ack", !.reply = reply]
          /\ reply # "lost" => open /\ NoFault
          /\ reply = "lost" => (~open /\ NoFault) \/ (open /\ Fault)
          /\ \E heard \in BOOLEAN :
               /\ heard => open /\ reply # "refused"
               /\ reply \in {"started", "handled"} => heard
               /\ given' = IF heard THEN given \cup {pump.msg} ELSE given
               /\ child' = IF heard /\ reply # "handled"
                           THEN [child EXCEPT ![c].state = "busy"] ELSE child
     /\ UNCHANGED <<record, present, home, lease, stopper, adapters, flight, recovered, job,
                    retire, exits, acts, crashes, overtaken>>

\* Fault seeded for TypeOK: the list is not cut.
LatestAll(accepted) == accepted

Latest(accepted) == IF Len(accepted) > MaxAccepted THEN Tail(accepted) ELSE accepted
Answered(r, id) == [r EXCEPT !.accepted = Latest(Append(@, id))]

\* finalizeDeliveryFailure: only a refused prompt was certainly not delivered.
FailedState(refused) == IF refused THEN "queued" ELSE "uncertain"

\* completeDispatch and finalizeDeliveryFailure.  An acceptance that cannot be
\* written is uncertain; when that cannot be written either, the message stays
\* delivering and is never answered for.
Ack ==
  LET t == pump.thread
      id == pump.msg
      r == record[t]
      on == Pass("read", pump.again, pump.excluded)
      reply == IF pump.reply # "lost" /\ ~Alive(pump.child) THEN {pump.reply, "lost"}
                                                              ELSE {pump.reply}
  IN /\ pump.pc = "ack" /\ ~Locked(t) /\ flight[t] = id
     /\ \/ /\ \/ "started" \in reply /\ NoFault /\ Settle(Acked(lease), on, stopper)
              \/ "handled" \in reply /\ NoFault /\ Settle(Over(Acked(lease)), on, stopper)
              \/ "handled" \in reply /\ Fault /\ Settle(Acked(lease), on, stopper)
           /\ Write(t, Answered(Without(r, id), id))
           /\ given' = IF Len(r.accepted) = MaxAccepted THEN given \ {Head(r.accepted)} ELSE given
           /\ flight' = [flight EXCEPT ![t] = 0]
        \/ /\ "refused" \in reply
           /\ \/ NoFault /\ Settle(Over(Acked(lease)), Again(pump), stopper)
              \/ Fault /\ Settle(Acked(lease), Again(pump), stopper)
           /\ Write(t, Paused(Noted(Moved(r, id, FailedState(TRUE)), "none")))
           /\ UNCHANGED given /\ flight' = [flight EXCEPT ![t] = 0]
        \/ /\ \/ "lost" \in reply /\ NoFault /\ Settle(Acked(lease), Again(pump), stopper)
              \/ "started" \in reply /\ Fault /\ Settle(Acked(lease), Again(pump), stopper)
              \/ "handled" \in reply /\ Fault /\ Settle(Over(Acked(lease)), Again(pump), stopper)
           /\ Write(t, Noted(Moved(r, id, FailedState(FALSE)), "uncertain"))
           /\ UNCHANGED given /\ flight' = [flight EXCEPT ![t] = 0]
        \/ /\ Fault
           /\ \/ Keep(lease, Again(pump), stopper)
              \/ reply \cap {"handled", "refused"} # {} /\ Keep(Over(lease), Again(pump), stopper)
           /\ UNCHANGED <<record, given, flight>>
     /\ UNCHANGED <<present, child, home, adapters, recovered, job, retire, exits, acts, crashes,
                    overtaken>>

-------------------------------------------------------------------------------
\* Fault seeded for SlotComesBack: the end of a response that comes before its
\* acknowledgement is not remembered.
SettledOnce(c) == IF Leased(c) /\ lease.acked THEN Over(lease) ELSE lease

\* agent_settled, heard while the adapter is the thread's.
EndOf(c) == IF owned[child[c].thread] = c THEN SettledBy(c) ELSE lease

Settled(c) ==
  /\ c <= Len(child) /\ child[c].state = "busy"
  /\ child' = [child EXCEPT ![c].state = "idle"]
  /\ IF Leased(c) THEN Settle(EndOf(c), pump, stopper) ELSE Stand
  /\ NoFault
  /\ UNCHANGED <<record, present, home, given, adapters, flight, recovered, job, retire, exits,
                 acts, crashes, overtaken>>

\* Children die: this service's by a fault, those of an earlier one when they like.
ChildDies(c) ==
  /\ c <= Len(child) /\ Alive(c) /\ Dies(c)
  /\ IF child[c].orphan THEN NoFault ELSE Fault
  /\ lease' = SettledBy(c)
  /\ UNCHANGED <<record, present, home, given, pump, stopper, owned, evicting, flight, recovered,
                 job, retire, acts, crashes, overtaken>>

\* onOwnedExit, when it gets the lock, and then the exit event's own release.
Exit(x) ==
  LET c == x.child
      t == child[c].thread
  IN /\ x \in exits /\ ~Locked(t)
     /\ exits' = exits \ {x}
     /\ IF owned[t] \in {0, c}
        THEN /\ owned' = [owned EXCEPT ![t] = 0]
             /\ Write(t, IF record[t].process = c THEN Cleared(record[t]) ELSE record[t])
        ELSE UNCHANGED <<owned, record>>
     /\ IF x.mine /\ Leased(c) /\ (lease.acked \/ flight[t] # lease.msg)
        THEN Release(pump, stopper) ELSE Stand
     /\ NoFault
     /\ UNCHANGED <<present, child, home, given, evicting, tracked, flight, recovered, job,
                    retire, acts, crashes, overtaken>>

\* A response that is silent for long is noted as stalled.
Stalled(t) ==
  /\ ~Locked(t) /\ lease # None /\ lease.thread = t /\ lease.gen # 0
  /\ child[lease.gen].state = "busy"
  /\ Write(t, Noted(Loaded(t), "uncertain")) /\ Load(t) /\ NoFault
  /\ UNCHANGED <<present, child, home, given, slot, adapters, flight, job, retire, exits,
                 acts, crashes, overtaken>>

-------------------------------------------------------------------------------
\* stop pauses the queue, and captures the owned child and the lease.
Stop(t) ==
  /\ Act /\ stopper.pc = "idle" /\ ~Locked(t)
  /\ Write(t, Paused(Loaded(t))) /\ Load(t)
  /\ stopper' = [pc |-> "inspect", thread |-> t, child |-> owned[t], process |-> record[t].process,
                 mine |-> lease # None /\ lease.thread = t /\ owned[t] \in {0, lease.gen}]
  /\ NoFault
  /\ UNCHANGED <<present, child, home, given, lease, pump, adapters, flight, job, retire, exits,
                 crashes, overtaken>>

\* Without a live owned child, stop only looks: it never signals a process id.
StopUnowned ==
  LET t == stopper.thread
      c == stopper.child
      p == stopper.process
      r == Loaded(t)
      still == \E k \in tracked : child[k].thread = t /\ Alive(k)
      over == \/ c # 0 /\ owned[t] = c
              \/ c = 0 /\ p = 0 /\ lease.orphan /\ ~still
              \/ c = 0 /\ p # 0 /\ ~Alive(p) /\ lease.orphan
  IN /\ stopper.pc = "inspect" /\ ~Alive(c) /\ ~Locked(t) /\ Load(t)
     /\ Write(t, IF c # 0 THEN Noted(r, "none")
                 ELSE IF Alive(p) THEN Noted(r, "owner")
                 ELSE IF p # 0 /\ r.process = p THEN Cleared(r) ELSE r)
     /\ IF stopper.mine /\ (c # 0 \/ ~Alive(p))
        THEN Settle(IF over THEN Over(lease) ELSE lease, pump, NoStop)
        ELSE Keep(lease, pump, NoStop)
     /\ NoFault
     /\ UNCHANGED <<present, child, home, given, adapters, flight, job, retire, exits, acts, crashes, overtaken>>

\* clear_queue and abort end what the child is doing.  A prompt on its way,
\* which pi-rpc writes only after it has asked for the child's state, comes after.
StopAborts ==
  LET c == stopper.child
  IN /\ stopper.pc = "inspect" /\ Alive(c) /\ c \notin evicting /\ NoFault
     /\ child' = [child EXCEPT ![c].state = "idle"]
     /\ IF child[c].state = "busy" /\ Leased(c)
        THEN Settle(EndOf(c), pump, [stopper EXCEPT !.pc = "look"])
        ELSE Keep(lease, pump, [stopper EXCEPT !.pc = "look"])
     /\ UNCHANGED <<record, present, home, given, adapters, flight, recovered, job, retire, exits,
                    acts, crashes, overtaken>>

\* The child is asked again, and is idle and still the thread's.
Ceased(c) == Alive(c) /\ c \notin evicting /\ child[c].state # "busy" /\ owned[child[c].thread] = c
StopLooks ==
  /\ stopper.pc = "look" /\ Ceased(stopper.child)
  /\ Keep(lease, pump, [stopper EXCEPT !.pc = "confirm"]) /\ NoFault
  /\ UNCHANGED <<durable, adapters, flight, recovered, job, retire, exits, acts, crashes, overtaken>>

\* A child that does not answer, or not so, leaves the lease; and so does a note
\* that cannot be written.
StopUncertain ==
  LET t == stopper.thread
      c == stopper.child
  IN /\ stopper.pc # "idle" /\ ~Locked(t)
     /\ \/ stopper.pc = "inspect" /\ Alive(c) /\ (Fault \/ (c \in evicting /\ NoFault))
        \/ stopper.pc = "look" /\ (Fault \/ (~Ceased(c) /\ NoFault))
        \/ stopper.pc = "confirm" /\ Fault
     /\ Write(t, Noted(Loaded(t), "uncertain")) /\ Load(t) /\ Keep(lease, pump, NoStop)
     /\ UNCHANGED <<present, child, home, given, adapters, flight, job, retire, exits, acts, crashes,
                    overtaken>>

\* The note waits for the lock, and the captured lease is then settled unseen.
StopConfirms ==
  LET t == stopper.thread
      c == stopper.child
      responds == child[c].state = "busy" \/ (pump.pc = "prompt" /\ pump.child = c)
  IN /\ stopper.pc = "confirm" /\ ~Locked(t)
     /\ Write(t, Noted(Loaded(t), "none")) /\ Load(t)
     /\ IF stopper.mine THEN Settle(Over(lease), pump, NoStop) ELSE Keep(lease, pump, NoStop)
     /\ overtaken' = (overtaken \/ (stopper.mine /\ responds))
     /\ NoFault
     /\ UNCHANGED <<present, child, home, given, adapters, flight, job, retire, exits, acts, crashes>>

-------------------------------------------------------------------------------
\* The service dies, and its replacement knows the records only.
Crash ==
  /\ crashes < MaxCrashes /\ crashes' = crashes + 1
  /\ child' = [c \in 1..Len(child) |-> [child[c] EXCEPT !.orphan = TRUE]]
  /\ lease' = None /\ owned' = [t \in Threads |-> 0] /\ evicting' = {} /\ tracked' = {}
  /\ flight' = [t \in Threads |-> 0] /\ recovered' = {}
  /\ pump' = Resting /\ job' = [t \in Threads |-> Free]
  /\ retire' = {} /\ exits' = {} /\ stopper' = NoStop
  /\ UNCHANGED <<record, present, home, given, acts, faults, overtaken>>

\* The target of a thread disappears and comes back.
Directory(t) ==
  /\ \/ t \in present /\ Fault /\ present' = present \ {t}
     \/ t \notin present /\ NoFault /\ present' = present \cup {t}
  /\ UNCHANGED <<record, child, home, given, slot, adapters, flight, recovered, job, retire, exits,
                 acts, crashes, overtaken>>

JobStep(t) ==
  Check(t) \/ Pin(t) \/ Capacity(t) \/ Spawn(t) \/ RecordChild(t) \/ Handshake(t)
PumpStep == \/ Busy \/ Judge \/ Prompt \/ Ack
            \/ \E t \in Threads : Stage(t)
StopStep == StopUnowned \/ StopAborts \/ StopLooks \/ StopUncertain \/ StopConfirms

Next ==
  \/ \E t \in Threads : Send(t) \/ Resume(t) \/ Discard(t) \/ Stop(t) \/ JobStep(t)
                        \/ Expire(t) \/ Stalled(t) \/ Directory(t)
  \/ PumpStep \/ StopStep
  \/ \E k \in retire : Retire(k)
  \/ \E x \in exits : Exit(x)
  \/ \E c \in 1..MaxChildren : Settled(c) \/ ChildDies(c)
  \/ Crash

Spec == Init /\ [][Next]_vars

\* What the event loop has ready runs, a child answers and ends its responses.
FairSpec ==
  /\ Spec /\ WF_vars(PumpStep) /\ WF_vars(StopStep)
  /\ \A t \in Threads : WF_vars(JobStep(t))
  /\ \A c \in 1..MaxChildren : WF_vars(Settled(c))
  /\ WF_vars(\E k \in retire : Retire(k))
  /\ WF_vars(\E x \in exits : Exit(x))

-------------------------------------------------------------------------------
States == {"starting", "idle", "busy", "dead"}

TypeOK ==
  /\ \A t \in Threads :
       /\ \A item \in Items(record[t]) :
            item.id \in 1..Len(home) /\ item.state \in {"queued", "delivering", "uncertain"}
       /\ record[t].paused \in BOOLEAN /\ record[t].process \in 0..Len(child)
       /\ Len(record[t].accepted) <= MaxAccepted
       /\ record[t].attention \in {"none", "missing", "uncertain", "owner"}
       /\ owned[t] \in 0..Len(child) /\ flight[t] \in 0..Len(home)
  /\ \A c \in 1..Len(child) : child[c].thread \in Threads /\ child[c].state \in States
  /\ tracked \subseteq 1..Len(child) /\ evicting \subseteq 1..Len(child)
  /\ given \subseteq 1..Len(home) /\ recovered \subseteq Threads /\ present \subseteq Threads
  /\ lease # None => lease.thread \in Threads /\ lease.gen \in 0..Len(child)
  /\ overtaken \in BOOLEAN

\* One response at a time over all threads, the children of earlier services
\* included.  A stop that overtakes a prompt breaks it.
OneResponse == Cardinality({c \in 1..Len(child) : child[c].state = "busy"}) <= 1

\* Nothing else does: until a stop settles the lease of a response that is still
\* to come or under way, there is one at most.
OneUnlessOvertaken == ~overtaken => OneResponse

\* A message that a child may have received is not sent again.
NeverTwice == [][pump.pc = "prompt" /\ pump'.pc = "ack" => pump.msg \notin given]_vars

\* One pi process per thread, whatever died before.
OneOwner == \A t \in Threads : Cardinality(LiveOf(t)) <= 1

\* The limit on children holds, and no live child escapes it.
WithinLimit ==
  /\ Cardinality(tracked) + Cardinality(Reserved) <= MaxOwned
  /\ \A c \in 1..Len(child) : Alive(c) /\ ~child[c].orphan => c \in tracked

\* As long as nothing fails, the slot of a response that began comes back.
SlotComesBack == [](faults + crashes = 0) => []<>(lease = None \/ lease.gen = 0)

\* The slot is lost when it is taken for a thread whose child is being closed: by
\* findEligibleHead, which does not know that process for its own, or by a head
\* whose child is closed before the lease is bound to it.
SlotLost ==
  /\ lease # None /\ lease.gen = 0 /\ pump.pc # "staging"
  /\ \E c \in evicting : child[c].thread = lease.thread

\* And a waiting head is delivered, or its queue says why not, or the slot is lost.
QueueMoves ==
  [](faults + crashes = 0) =>
    \A t \in Threads : Eligible(record[t]) ~> (~Eligible(record[t]) \/ SlotLost)
===============================================================================
