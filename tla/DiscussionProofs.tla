---------------------------- MODULE DiscussionProofs ----------------------------
(***************************************************************************)
(* The discussion service for any number of threads, messages, children,   *)
(* failures and restarts: one response at a time unless a stop overtakes   *)
(* one, one process per thread, the limit on children, and no message      *)
(* handed over twice.                                                      *)
(***************************************************************************)
EXTENDS Discussion, SequenceTheorems, FiniteSetTheorems, TLAPS

-------------------------------------------------------------------------------
(* The shapes of the state, with n message ids drawn and m children started. *)

Message(n) == [id : 1..n, state : {"queued", "delivering", "uncertain"}]
Recent == {ids \in Seq(Nat) : Len(ids) <= MaxAccepted}
Thread(n, m) ==
  [queue : Seq(Message(n)), paused : BOOLEAN, accepted : Recent,
   attention : {"none", "missing", "uncertain", "owner"}, process : 0..m]
Process == [thread : Threads, state : States, orphan : BOOLEAN]
Lease(n, m) == [thread : Threads, msg : 0..n, gen : 0..m, settled : BOOLEAN,
                acked : BOOLEAN, orphan : BOOLEAN]
Passes(n, m) ==
  {p \in [pc : {"idle", "read", "stage", "staging", "prompt", "ack"},
          thread : Threads \cup {None}, msg : 0..n, child : 0..m,
          reply : {"none", "started", "handled", "refused", "lost"},
          excluded : SUBSET (Threads \cup {None}), again : BOOLEAN] :
     p.pc \notin {"idle", "read"} => p.thread \in Threads}
Jobs(n, m) ==
  [pc : {"free", "check", "pin", "capacity", "evicting", "spawn", "record", "handshake"},
   for : {"none", "send", "resume", "stage"}, msg : 0..n, child : 0..m]
Retiring(m) == [thread : Threads, child : 0..m, for : Threads \cup {None},
                pc : {"judged", "closing"}]
Exiting(m) == [child : 1..m, mine : BOOLEAN]
Stopping(m) ==
  {s \in [pc : {"idle", "inspect", "look", "confirm"}, thread : Threads \cup {None},
          child : 0..m, process : 0..m, mine : BOOLEAN] :
     s.pc # "idle" => s.thread \in Threads}

Slot(l, p, s, n, m) == l \in Lease(n, m) \cup {None} /\ p \in Passes(n, m) /\ s \in Stopping(m)

Shaped(n, m) ==
  /\ record \in [Threads -> Thread(n, m)] /\ given \subseteq 1..n
  /\ present \subseteq Threads /\ recovered \subseteq Threads
  /\ Slot(lease, pump, stopper, n, m)
  /\ owned \in [Threads -> 0..m] /\ flight \in [Threads -> 0..n]
  /\ tracked \subseteq 1..m /\ evicting \subseteq 1..m
  /\ job \in [Threads -> Jobs(n, m)]
  /\ retire \subseteq Retiring(m) /\ exits \subseteq Exiting(m)

Formed == /\ home \in Seq(Threads) /\ child \in Seq(Process)
          /\ Shaped(Len(home), Len(child))

-------------------------------------------------------------------------------
(* Children and their places. *)

\* A child that was installed for its thread, and is counted while it lives.
Homed(c, t) ==
  /\ c \in 1..Len(child) /\ child[c].thread = t /\ ~child[c].orphan
  /\ child[c].state # "starting"
  /\ child[c].state = "dead" => c \notin tracked

\* A thread whose job looks for a place has no process, and one whose child
\* starts has no other.
Seeking == {"capacity", "evicting", "spawn"}
Starting == {"record", "handshake"}
Single ==
  /\ \A c, d \in 1..Len(child) : child[c].thread = child[d].thread /\ Alive(c) /\ Alive(d) => c = d
  /\ \A t \in Threads : job[t].pc \in Seeking => LiveOf(t) = {}
  /\ \A t \in Threads : job[t].pc \in Starting =>
       LET c == job[t].child
       IN c # 0 /\ child[c].thread = t /\ ~child[c].orphan /\ LiveOf(t) \subseteq {c}

\* A place is free for every child that a job may start: the victim's, too.
Counted ==
  /\ IsFiniteSet(tracked) /\ IsFiniteSet(Reserved)
  /\ Cardinality(tracked) + Cardinality(Reserved) <= MaxOwned
  /\ \A c \in 1..Len(child) : Alive(c) /\ ~child[c].orphan => c \in tracked
  /\ \A k \in retire : k.for # None =>
       /\ job[k.for].pc = "evicting"
       /\ Cardinality(tracked \ {k.child}) + Cardinality(Reserved) < MaxOwned
  /\ \A k, l \in retire : k.for # None /\ l.for # None => k = l

Housed == /\ \A t \in Threads : owned[t] # 0 => Homed(owned[t], t)
          /\ \A k \in retire : Homed(k.child, k.thread)

-------------------------------------------------------------------------------
(* The lease, the pump, and the head of the queue they are about. *)

Serving(t) == Locked(t) /\ job[t].for = "stage"
AtHead(state) ==
  LET r == record[pump.thread]
  IN /\ pump.thread \in recovered /\ r.queue # <<>>
     /\ r.queue[1] = [id |-> pump.msg, state |-> state]
Engaged == /\ lease # None /\ lease.thread = pump.thread /\ lease.msg = pump.msg
           /\ ~lease.acked /\ ~lease.orphan

Staged ==
  /\ \A t \in Threads : Serving(t) => pump.pc = "staging" /\ pump.thread = t
  /\ pump.pc = "staging" =>
       /\ Serving(pump.thread) /\ Engaged /\ lease.gen = 0 /\ ~lease.settled
       /\ ~stopper.mine /\ AtHead("queued")
  /\ pump.pc \in {"prompt", "ack"} =>
       /\ Engaged /\ pump.child # 0 /\ lease.gen = pump.child
       /\ flight[pump.thread] = pump.msg /\ AtHead("delivering")
  /\ stopper.mine => /\ lease # None /\ lease.thread = stopper.thread /\ stopper.pc # "idle"
                     /\ stopper.child \in {0, lease.gen}
  /\ pump.pc = "stage" => lease = None
  /\ lease # None /\ lease.orphan => lease.gen = 0

\* The messages of a queue are its thread's, no two the same, and no more than
\* the first is under way or uncertain.
Ordered(t) ==
  LET q == record[t].queue
  IN /\ \A i \in 1..Len(q) : home[q[i].id] = t
     /\ \A i, j \in 1..Len(q) : q[i].id = q[j].id => i = j
     /\ \A i \in 2..Len(q) : q[i].state = "queued"
Lined ==
  /\ \A t \in Threads : Ordered(t)
  /\ \A t \in Threads : Locked(t) /\ job[t].for = "send" =>
       job[t].msg # 0 /\ home[job[t].msg] = t /\ ~Known(record[t], job[t].msg)

\* What was given stays known to its thread, and does not wait to be sent.
Once ==
  /\ \A id \in given : Known(record[home[id]], id)
  /\ \A t \in Threads : \A i \in 1..Len(record[t].queue) :
       record[t].queue[i].id \in given => record[t].queue[i].state # "queued"
  /\ pump.pc = "prompt" => pump.msg \notin given
  /\ pump.pc = "ack" /\ pump.reply = "refused" => pump.msg \notin given

-------------------------------------------------------------------------------
(* Responses. *)

\* The pump holds a message that no child has begun to answer.
Before == \/ pump.pc \in {"stage", "staging", "prompt"}
          \/ pump.pc = "ack" /\ pump.reply \in {"handled", "refused"}

\* A response, as long as no stop has overtaken one.
Responding(c) == ~overtaken /\ child[c].state = "busy"

Quiet ==
  /\ Before => \A c \in 1..Len(child) : ~Responding(c)
  /\ \A c, d \in 1..Len(child) : Responding(c) /\ Responding(d) => c = d
  /\ \A c \in 1..Len(child) : Responding(c) /\ ~child[c].orphan =>
       lease # None /\ lease.gen = c /\ ~lease.settled
  /\ \A c \in 1..Len(child) : child[c].state \in {"idle", "busy"} =>
       record[child[c].thread].process = c

Answering ==
  ~overtaken /\ pump.pc = "prompt" /\ Alive(pump.child) /\ pump.child \notin evicting =>
    ~lease.settled
Confirming == stopper.pc = "confirm" => stopper.child # 0
Answerable ==
  /\ lease # None /\ lease.gen # 0 =>
       /\ child[lease.gen].thread = lease.thread
       /\ ~child[lease.gen].orphan /\ child[lease.gen].state # "starting"
  /\ Answering /\ Confirming
  /\ \A x \in exits : ~Alive(x.child)
  /\ stopper.child # 0 => child[stopper.child].state # "starting"
  /\ \A t \in Threads : job[t].pc = "pin" => record[t].process = job[t].child

-------------------------------------------------------------------------------
(* The records keep their shape. *)

\* A shape is one of any larger state as well.
LEMMA Grown ==
  ASSUME NEW n \in Nat, NEW m \in Nat, NEW v \in Nat, NEW w \in Nat, n <= v, m <= w, Shaped(n, m)
  PROVE  Shaped(v, w)
<1>1. Message(n) \subseteq Message(v)
  BY DEF Message
<1>2. Seq(Message(n)) \subseteq Seq(Message(v))
  BY <1>1, SeqDef
<1>3. 0..m \subseteq 0..w /\ 1..m \subseteq 1..w /\ 0..n \subseteq 0..v /\ 1..n \subseteq 1..v
  OBVIOUS
<1>4. Thread(n, m) \subseteq Thread(v, w)
  BY <1>2, <1>3 DEF Thread
<1>5. Slot(lease, pump, stopper, v, w)
  BY <1>3 DEF Shaped, Slot, Lease, Passes, Stopping
<1>6. Jobs(n, m) \subseteq Jobs(v, w)
  BY <1>3 DEF Jobs
<1>7. Retiring(m) \subseteq Retiring(w) /\ Exiting(m) \subseteq Exiting(w)
  BY <1>3 DEF Retiring, Exiting
<1> QED
  BY <1>3, <1>4, <1>5, <1>6, <1>7 DEF Shaped

LEMMA RemoveSeq ==
  ASSUME NEW S, NEW q \in Seq(S), NEW i \in 1..Len(q)
  PROVE  /\ RemoveAt(q, i) \in Seq(S) /\ Len(RemoveAt(q, i)) = Len(q) - 1
         /\ \A j \in 1..Len(q) - 1 : RemoveAt(q, i)[j] = q[IF j < i THEN j ELSE j + 1]
<1>1. /\ SubSeq(q, 1, i - 1) \in Seq(S) /\ Len(SubSeq(q, 1, i - 1)) = i - 1
      /\ \A j \in 1..i - 1 : SubSeq(q, 1, i - 1)[j] = q[j]
  BY SubSeqProperties
<1>2. /\ SubSeq(q, i + 1, Len(q)) \in Seq(S) /\ Len(SubSeq(q, i + 1, Len(q))) = Len(q) - i
      /\ \A j \in 1..Len(q) - i : SubSeq(q, i + 1, Len(q))[j] = q[i + j]
  BY SubSeqProperties
<1>3. PICK a \in Seq(S) : a = SubSeq(q, 1, i - 1)
  BY <1>1
<1>4. PICK b \in Seq(S) : b = SubSeq(q, i + 1, Len(q))
  BY <1>2
<1>5. /\ a \o b \in Seq(S) /\ Len(a \o b) = Len(a) + Len(b)
      /\ \A j \in 1..Len(a) + Len(b) : (a \o b)[j] = IF j <= Len(a) THEN a[j] ELSE b[j - Len(a)]
  BY ConcatProperties
<1>6. RemoveAt(q, i) = a \o b /\ Len(a) = i - 1 /\ Len(b) = Len(q) - i
  BY <1>1, <1>2, <1>3, <1>4 DEF RemoveAt
<1>7. \A j \in 1..Len(q) - 1 : (a \o b)[j] = q[IF j < i THEN j ELSE j + 1]
  <2>1. TAKE j \in 1..Len(q) - 1
  <2>0. Len(q) \in Nat /\ j \in Int /\ j \in 1..Len(a) + Len(b)
    BY <1>6
  <2>2. j < i => j <= Len(a) /\ a[j] = q[j]
    BY <1>1, <1>3, <1>6
  <2>3. ~(j < i) => ~(j <= Len(a)) /\ b[j - Len(a)] = q[j + 1]
    BY <1>2, <1>4, <1>6
  <2> QED
    BY <1>5, <2>0, <2>2, <2>3
<1>8. Len(a) + Len(b) = Len(q) - 1
  BY <1>6
<1> QED
  BY <1>5, <1>6, <1>7, <1>8

\* A record whose queue is replaced.
LEMMA Requeued ==
  ASSUME NEW n \in Nat, NEW m \in Nat, NEW r \in Thread(n, m), NEW q \in Seq(Message(n))
  PROVE  /\ [r EXCEPT !.queue = q] \in Thread(n, m)
         /\ [r EXCEPT !.queue = q].queue = q
         /\ [r EXCEPT !.queue = q].accepted = r.accepted
         /\ [r EXCEPT !.queue = q].paused = r.paused
         /\ [r EXCEPT !.queue = q].attention = r.attention
         /\ [r EXCEPT !.queue = q].process = r.process
  BY DEF Thread

LEMMA QueueOf ==
  ASSUME NEW n \in Nat, NEW m \in Nat, NEW r \in Thread(n, m)
  PROVE  /\ r.queue \in Seq(Message(n)) /\ Len(r.queue) \in Nat
         /\ \A i \in 1..Len(r.queue) : r.queue[i] \in Message(n)
  BY DEF Thread

LEMMA MovedThread ==
  ASSUME NEW n \in Nat, NEW m \in Nat, NEW r \in Thread(n, m), NEW id,
         NEW state \in {"queued", "delivering", "uncertain"}
  PROVE  /\ Moved(r, id, state) \in Thread(n, m)
         /\ Moved(r, id, state).accepted = r.accepted
         /\ Len(Moved(r, id, state).queue) = Len(r.queue)
         /\ \A i \in 1..Len(r.queue) : Moved(r, id, state).queue[i] =
              [id |-> r.queue[i].id, state |-> IF r.queue[i].id = id THEN state ELSE r.queue[i].state]
<1>1. PICK q : q = [i \in 1..Len(r.queue) |->
                     IF r.queue[i].id = id THEN [r.queue[i] EXCEPT !.state = state] ELSE r.queue[i]]
  OBVIOUS
<1>2. \A i \in 1..Len(r.queue) :
        /\ q[i] \in Message(n)
        /\ q[i] = [id |-> r.queue[i].id, state |-> IF r.queue[i].id = id THEN state ELSE r.queue[i].state]
  <2>1. TAKE i \in 1..Len(r.queue)
  <2>2. PICK e \in Message(n) : e = r.queue[i]
    BY QueueOf
  <2>3. q[i] = IF e.id = id THEN [e EXCEPT !.state = state] ELSE e
    BY <1>1, <2>2
  <2> QED
    BY <2>2, <2>3 DEF Message
<1>3. q \in Seq(Message(n)) /\ Len(q) = Len(r.queue)
  <2>1. Len(r.queue) \in Nat /\ q \in [1..Len(r.queue) -> Message(n)]
    BY <1>1, <1>2, QueueOf
  <2> QED
    BY <2>1, LenProperties, SeqDef
<1>4. Moved(r, id, state) = [r EXCEPT !.queue = q]
  BY <1>1 DEF Moved
<1> QED
  BY <1>2, <1>3, <1>4, Requeued

LEMMA WithoutThread ==
  ASSUME NEW n \in Nat, NEW m \in Nat, NEW r \in Thread(n, m), NEW id
  PROVE  Without(r, id) \in Thread(n, m)
<1>1. CASE \E item \in Items(r) : item.id = id
  <2>1. PICK i \in 1..Len(r.queue) : i = CHOOSE j \in 1..Len(r.queue) : r.queue[j].id = id
    BY <1>1 DEF Items
  <2>2. RemoveAt(r.queue, i) \in Seq(Message(n))
    BY RemoveSeq DEF Thread
  <2> QED
    BY <1>1, <2>1, <2>2 DEF Without, Thread
<1> QED
  BY <1>1 DEF Without

LEMMA EnqueuedThread ==
  ASSUME NEW n \in Nat, NEW m \in Nat, NEW r \in Thread(n, m), NEW id \in 1..n
  PROVE  /\ Enqueued(r, id) \in Thread(n, m)
         /\ Enqueued(r, id).queue = Append(r.queue, [id |-> id, state |-> "queued"])
         /\ Enqueued(r, id).accepted = r.accepted /\ Enqueued(r, id).process = r.process
<1>1. PICK q : q = Append(r.queue, [id |-> id, state |-> "queued"])
  OBVIOUS
<1>2. [id |-> id, state |-> "queued"] \in Message(n)
  BY DEF Message
<1>3. q \in Seq(Message(n))
  BY <1>1, <1>2, QueueOf
<1>4. Enqueued(r, id) = [r EXCEPT !.queue = q]
  BY <1>1 DEF Enqueued
<1>5. /\ [r EXCEPT !.queue = q] \in Thread(n, m) /\ [r EXCEPT !.queue = q].queue = q
      /\ [r EXCEPT !.queue = q].accepted = r.accepted /\ [r EXCEPT !.queue = q].process = r.process
  BY <1>3, Requeued
<1> QED
  BY <1>1, <1>4, <1>5

LEMMA ResentThread ==
  ASSUME NEW n \in Nat, NEW m \in Nat, NEW r \in Thread(n, m), NEW id, NEW fresh \in 1..n
  PROVE  /\ Resent(r, id, fresh) \in Thread(n, m)
         /\ Resent(r, id, fresh).accepted = r.accepted
         /\ Resent(r, id, fresh).process = r.process
         /\ Len(Resent(r, id, fresh).queue) = Len(r.queue)
         /\ \A i \in 1..Len(r.queue) : Resent(r, id, fresh).queue[i] =
              IF r.queue[i].id = id THEN [id |-> fresh, state |-> "queued"] ELSE r.queue[i]
<1>1. PICK q : q = [i \in 1..Len(r.queue) |->
                     IF r.queue[i].id = id THEN [id |-> fresh, state |-> "queued"] ELSE r.queue[i]]
  OBVIOUS
<1>2. [id |-> fresh, state |-> "queued"] \in Message(n)
  BY DEF Message
<1>3. Len(r.queue) \in Nat /\ q \in [1..Len(r.queue) -> Message(n)]
  BY <1>1, <1>2, QueueOf
<1>4. q \in Seq(Message(n)) /\ Len(q) = Len(r.queue)
  BY <1>3, LenProperties, SeqDef
<1>5. Resent(r, id, fresh) = [r EXCEPT !.queue = q]
  BY <1>1 DEF Resent
<1>6. /\ [r EXCEPT !.queue = q] \in Thread(n, m) /\ [r EXCEPT !.queue = q].queue = q
      /\ [r EXCEPT !.queue = q].accepted = r.accepted /\ [r EXCEPT !.queue = q].process = r.process
  BY <1>4, Requeued
<1> QED
  BY <1>1, <1>3, <1>4, <1>5, <1>6

\* The messages of a record are those of another.
Alike(r, s) == r.queue = s.queue /\ r.accepted = s.accepted

LEMMA NotedThread ==
  ASSUME NEW n \in Nat, NEW m \in Nat, NEW r \in Thread(n, m),
         NEW a \in {"none", "missing", "uncertain", "owner"}
  PROVE  Noted(r, a) \in Thread(n, m) /\ Alike(Noted(r, a), r) /\ Noted(r, a).process = r.process
  BY DEF Noted, Thread, Alike

LEMMA OwnerThread ==
  ASSUME NEW n \in Nat, NEW m \in Nat, NEW r \in Thread(n, m), NEW c \in 0..m
  PROVE  Owner(r, c) \in Thread(n, m) /\ Alike(Owner(r, c), r) /\ Owner(r, c).process = c
  BY DEF Owner, Thread, Alike

LEMMA PausedThread ==
  ASSUME NEW n \in Nat, NEW m \in Nat, NEW r \in Thread(n, m)
  PROVE  /\ Paused(r) \in Thread(n, m) /\ Alike(Paused(r), r) /\ Paused(r).process = r.process
         /\ Unpaused(r) \in Thread(n, m) /\ Alike(Unpaused(r), r) /\ Unpaused(r).process = r.process
<1>1. Paused(r) \in Thread(n, m) /\ Alike(Paused(r), r) /\ Paused(r).process = r.process
  BY DEF Paused, Thread, Alike
<1>2. Unpaused(r) \in Thread(n, m) /\ Alike(Unpaused(r), r) /\ Unpaused(r).process = r.process
  BY DEF Unpaused, Thread, Alike
<1> QED
  BY <1>1, <1>2

LEMMA EasedThread ==
  ASSUME NEW n \in Nat, NEW m \in Nat, NEW r \in Thread(n, m)
  PROVE  Eased(r) \in Thread(n, m) /\ Alike(Eased(r), r) /\ Eased(r).process = r.process
  BY NotedThread DEF Eased, Alike

LEMMA HeldThread ==
  ASSUME NEW n \in Nat, NEW m \in Nat, NEW r \in Thread(n, m), NEW c \in 0..m
  PROVE  /\ Held(r, c) \in Thread(n, m) /\ Alike(Held(r, c), r) /\ Held(r, c).process = c
         /\ Cleared(r) \in Thread(n, m) /\ Alike(Cleared(r), r) /\ Cleared(r).process = 0
<1>1. Owner(r, c) \in Thread(n, m) /\ Alike(Owner(r, c), r) /\ Owner(r, c).process = c
  BY OwnerThread
<1>2. Owner(r, 0) \in Thread(n, m) /\ Alike(Owner(r, 0), r) /\ Owner(r, 0).process = 0
  <2>1. 0 \in 0..m
    OBVIOUS
  <2> QED
    BY <2>1, OwnerThread
<1> QED
  BY <1>1, <1>2, NotedThread, EasedThread DEF Held, Cleared, Alike

LEMMA AnsweredThread ==
  ASSUME NEW n \in Nat, NEW m \in Nat, NEW r \in Thread(n, m), NEW id \in Nat
  PROVE  /\ Answered(r, id) \in Thread(n, m) /\ Answered(r, id).queue = r.queue
         /\ Answered(r, id).process = r.process
         /\ Answered(r, id).accepted = Latest(Append(r.accepted, id))
<1>1. r.accepted \in Seq(Nat) /\ Len(r.accepted) <= MaxAccepted
  BY DEF Thread, Recent
<1>2. PICK ids : ids = Append(r.accepted, id)
  OBVIOUS
<1>3. ids \in Seq(Nat) /\ Len(ids) = Len(r.accepted) + 1 /\ ids # <<>>
  BY <1>1, <1>2
<1>4. Latest(ids) \in Seq(Nat) /\ Len(Latest(ids)) <= MaxAccepted
  <2>1. Tail(ids) \in Seq(Nat) /\ Len(Tail(ids)) = Len(ids) - 1
    BY <1>3
  <2>2. MaxAccepted \in Nat
    BY DiscussionAssumption
  <2> QED
    <3>1. CASE Len(ids) > MaxAccepted
      <4>1. PICK w \in Seq(Nat) : w = Tail(ids) /\ Len(w) = Len(ids) - 1
        BY <2>1, Zenon
      <4>2. Len(w) <= MaxAccepted
        <5>1. Len(w) = Len(r.accepted)
          BY <1>1, <1>3, <4>1, LenProperties
        <5> QED
          BY <1>1, <5>1
      <4>3. Latest(ids) = w
        BY <3>1, <4>1 DEF Latest
      <4> QED
        BY <4>1, <4>2, <4>3
    <3>2. CASE ~(Len(ids) > MaxAccepted)
      BY <1>3, <2>2, <3>2 DEF Latest
    <3> QED
      BY <3>1, <3>2
<1>5. Answered(r, id) = [r EXCEPT !.accepted = Latest(ids)]
  BY <1>2 DEF Answered
<1> QED
  BY <1>2, <1>4, <1>5 DEF Thread, Recent

\* What a first access leaves as it is.
LEMMA LoadedThread ==
  ASSUME NEW n \in Nat, NEW m \in Nat, NEW t \in Threads, record \in [Threads -> Thread(n, m)]
  PROVE  /\ Loaded(t) \in Thread(n, m)
         /\ t \in recovered => Loaded(t) = record[t]
         /\ Loaded(t).accepted = record[t].accepted /\ Loaded(t).process = record[t].process
         /\ Len(Loaded(t).queue) = Len(record[t].queue)
         /\ \A i \in 1..Len(record[t].queue) :
              \/ Loaded(t).queue[i] = record[t].queue[i]
              \/ /\ \E j \in 1..Len(record[t].queue) :
                      /\ record[t].queue[j].id = record[t].queue[i].id
                      /\ record[t].queue[j].state = "delivering"
                 /\ Loaded(t).queue[i] = [id |-> record[t].queue[i].id, state |-> "uncertain"]
<1>1. PICK r \in Thread(n, m) : r = record[t]
  OBVIOUS
<1>2. PICK lost : lost = {item.id : item \in {i \in Items(r) :
                                     i.state = "delivering" /\ i.id # flight[t]}}
  OBVIOUS
<1>3. CASE t \in recovered \/ lost = {}
  BY <1>1, <1>2, <1>3 DEF Loaded
<1>4. CASE ~(t \in recovered \/ lost = {})
  <2>1. PICK q : q = [i \in 1..Len(r.queue) |->
                     IF r.queue[i].id \in lost THEN [r.queue[i] EXCEPT !.state = "uncertain"]
                                               ELSE r.queue[i]]
    OBVIOUS
  <2>2. \A i \in 1..Len(r.queue) :
          /\ q[i] \in Message(n)
          /\ \/ q[i] = r.queue[i]
             \/ /\ \E j \in 1..Len(r.queue) :
                     /\ r.queue[j].id = r.queue[i].id /\ r.queue[j].state = "delivering"
                /\ q[i] = [id |-> r.queue[i].id, state |-> "uncertain"]
    <3>1. TAKE i \in 1..Len(r.queue)
    <3>2. PICK e \in Message(n) : e = r.queue[i]
      BY QueueOf
    <3>3. q[i] = IF e.id \in lost THEN [e EXCEPT !.state = "uncertain"] ELSE e
      BY <2>1, <3>2
    <3>4. e.id \in lost => \E j \in 1..Len(r.queue) :
                             r.queue[j].id = e.id /\ r.queue[j].state = "delivering"
      BY <1>2 DEF Items
    <3> QED
      BY <3>2, <3>3, <3>4 DEF Message
  <2>3. q \in Seq(Message(n)) /\ Len(q) = Len(r.queue)
    <3>1. Len(r.queue) \in Nat /\ q \in [1..Len(r.queue) -> Message(n)]
      BY <2>1, <2>2, QueueOf
    <3> QED
      BY <3>1, LenProperties, SeqDef
  <2>4. PICK s \in Thread(n, m) : s = [r EXCEPT !.attention = "uncertain"]
    BY DEF Thread
  <2>5. Loaded(t) = [s EXCEPT !.queue = q]
    BY <1>1, <1>2, <1>4, <2>1, <2>4 DEF Loaded, Thread
  <2>6. s.accepted = r.accepted /\ s.process = r.process
    BY <2>4 DEF Thread
  <2> QED
    BY <1>1, <1>4, <2>2, <2>3, <2>5, <2>6, Requeued
<1> QED
  BY <1>3, <1>4

-------------------------------------------------------------------------------
(* The slot keeps its shape: Keep, Release, Settle and the ends of a job. *)

LEMMA PassShapes ==
  ASSUME NEW n \in Nat, NEW m \in Nat, NEW p \in Passes(n, m)
  PROVE  /\ Requested(p) \in Passes(n, m)
         /\ Again(p) \in Passes(n, m)
         /\ \A free \in BOOLEAN : Ended(p, free) \in Passes(n, m)
         /\ Pass("read", p.again, p.excluded) \in Passes(n, m)
         /\ Resting \in Passes(n, m)
<1>1. \A again \in BOOLEAN, left \in SUBSET (Threads \cup {None}) :
        Pass("read", again, left) \in Passes(n, m) /\ Pass("idle", again, left) \in Passes(n, m)
  BY DEF Pass, Passes
<1>2. p.again \in BOOLEAN /\ p.excluded \in SUBSET (Threads \cup {None}) /\ p.thread \in Threads \cup {None}
  BY DEF Passes
<1>3. Requested(p) \in Passes(n, m)
  <2>1. [p EXCEPT !.again = TRUE] \in Passes(n, m)
    BY DEF Passes
  <2> QED
    BY <1>1, <2>1 DEF Requested
<1> QED
  BY <1>1, <1>2, <1>3 DEF Again, Ended, Resting

LEMMA SettleShape ==
  ASSUME NEW n \in Nat, NEW m \in Nat, NEW l \in Lease(n, m), NEW p \in Passes(n, m),
         NEW s \in Stopping(m)
  PROVE  /\ Keep(l, p, s) => Slot(lease', pump', stopper', n, m)
         /\ Release(p, s) => Slot(lease', pump', stopper', n, m)
         /\ Settle(l, p, s) => Slot(lease', pump', stopper', n, m)
<1>1. [s EXCEPT !.mine = FALSE] \in Stopping(m)
  BY DEF Stopping
<1>2. Requested(p) \in Passes(n, m)
  BY PassShapes
<1>3. Keep(l, p, s) => Slot(lease', pump', stopper', n, m)
  BY DEF Keep, Slot
<1>4. Release(p, s) => Slot(lease', pump', stopper', n, m)
  BY <1>1, <1>2 DEF Release, Keep, Slot
<1> QED
  BY <1>3, <1>4 DEF Settle

LEMMA KeepShape ==
  ASSUME NEW n \in Nat, NEW m \in Nat, NEW l \in Lease(n, m) \cup {None}, NEW p \in Passes(n, m),
         NEW s \in Stopping(m), Keep(l, p, s)
  PROVE  Slot(lease', pump', stopper', n, m)
  BY DEF Keep, Slot

LEMMA LeaseShapes ==
  ASSUME NEW n \in Nat, NEW m \in Nat, NEW l \in Lease(n, m)
  PROVE  /\ \A c \in 0..m : Bound(l, c) \in Lease(n, m)
         /\ Acked(l) \in Lease(n, m) /\ Over(l) \in Lease(n, m) /\ Over(Acked(l)) \in Lease(n, m)
<1>1. \A c \in 0..m : Bound(l, c) \in Lease(n, m)
  BY DEF Lease, Bound
<1>2. \A k \in Lease(n, m) : Acked(k) \in Lease(n, m) /\ Over(k) \in Lease(n, m)
  BY DEF Lease, Acked, Over
<1> QED
  BY <1>1, <1>2

\* A record is written.
LEMMA WriteShape ==
  ASSUME NEW n \in Nat, NEW m \in Nat, record \in [Threads -> Thread(n, m)], NEW t \in Threads,
         NEW r \in Thread(n, m), Write(t, r)
  PROVE  /\ record' \in [Threads -> Thread(n, m)] /\ record'[t] = r
         /\ \A u \in Threads : u # t => record'[u] = record[u]
  BY DEF Write

LEMMA FreeShape == \A n, m \in Nat : Free \in Jobs(n, m)
  BY DEF Free, Jobs

LEMMA DeliversShape ==
  ASSUME NEW n \in Nat, NEW m \in Nat, Shaped(n, m), NEW t \in Threads, NEW r \in Thread(n, m),
         NEW c \in 0..m, lease # None, pump.pc = "staging", Delivers(t, r, c)
  PROVE  /\ record' \in [Threads -> Thread(n, m)] /\ flight' \in [Threads -> 0..n]
         /\ Slot(lease', pump', stopper', n, m)
<1>1. lease \in Lease(n, m) /\ pump \in Passes(n, m) /\ stopper \in Stopping(m)
  BY DEF Shaped, Slot
<1>2. Bound(lease, c) \in Lease(n, m) /\ lease.msg \in 0..n /\ Again(pump) \in Passes(n, m)
  <2>1. PICK l \in Lease(n, m) : l = lease
    BY <1>1
  <2>2. l.msg \in 0..n
    BY DEF Lease
  <2> QED
    BY <1>1, <2>1, <2>2, LeaseShapes, PassShapes
<1>3. [pump EXCEPT !.pc = "prompt", !.child = c] \in Passes(n, m)
  BY <1>1 DEF Passes
<1>4. CASE /\ Write(t, Moved(r, lease.msg, "delivering"))
           /\ flight' = [flight EXCEPT ![t] = lease.msg]
           /\ Keep(Bound(lease, c), [pump EXCEPT !.pc = "prompt", !.child = c], stopper)
  <2>1. record' \in [Threads -> Thread(n, m)]
    BY <1>4, MovedThread, WriteShape DEF Shaped
  <2> QED
    BY <1>1, <1>2, <1>3, <1>4, <2>1, SettleShape DEF Shaped
<1>5. CASE /\ Write(t, r) /\ UNCHANGED flight
           /\ \/ Release(Again(pump), stopper)
              \/ Keep(Bound(lease, c), Again(pump), stopper)
  BY <1>1, <1>2, <1>5, SettleShape, WriteShape DEF Shaped
<1> QED
  BY <1>4, <1>5 DEF Delivers

LEMMA ReturnShape ==
  ASSUME NEW n \in Nat, NEW m \in Nat, Shaped(n, m), NEW t \in Threads, NEW r \in Thread(n, m),
         NEW c \in 0..m, Return(t, r, c),
         job[t].for = "stage" => lease # None /\ pump.pc = "staging",
         job[t].for = "send" => job[t].msg # 0
  PROVE  /\ record' \in [Threads -> Thread(n, m)] /\ flight' \in [Threads -> 0..n]
         /\ Slot(lease', pump', stopper', n, m)
         /\ job' \in [Threads -> Jobs(n, m)] /\ job' = [job EXCEPT ![t] = Free]
<1>1. lease \in Lease(n, m) \cup {None} /\ pump \in Passes(n, m) /\ stopper \in Stopping(m)
  BY DEF Shaped, Slot
<1>2. job' = [job EXCEPT ![t] = Free] /\ job' \in [Threads -> Jobs(n, m)]
  BY FreeShape DEF Return, Shaped
<1>3. CASE /\ job[t].for # "stage"
           /\ Write(t, IF job[t].for = "send" THEN Enqueued(r, job[t].msg) ELSE r)
           /\ Keep(lease, Requested(pump), stopper) /\ UNCHANGED flight
  <2>1. job[t].for = "send" => job[t].msg \in 1..n
    BY DEF Shaped, Jobs
  <2>2. PICK s \in Thread(n, m) : s = IF job[t].for = "send" THEN Enqueued(r, job[t].msg) ELSE r
    BY <2>1, EnqueuedThread
  <2>3. Requested(pump) \in Passes(n, m)
    BY <1>1, PassShapes
  <2>4. record' \in [Threads -> Thread(n, m)]
    BY <1>3, <2>2, WriteShape DEF Shaped
  <2> QED
    BY <1>1, <1>2, <1>3, <2>3, <2>4, KeepShape DEF Shaped
<1>4. CASE job[t].for = "stage" /\ Delivers(t, r, c)
  BY <1>2, <1>4, DeliversShape
<1>5. CASE /\ job[t].for = "stage" /\ Write(t, r) /\ UNCHANGED flight
           /\ Release(Again(pump), stopper) \/ Keep(lease, Again(pump), stopper)
  BY <1>1, <1>2, <1>5, SettleShape, WriteShape, PassShapes DEF Shaped
<1> QED
  BY <1>3, <1>4, <1>5 DEF Return

LEMMA ThrowShape ==
  ASSUME NEW n \in Nat, NEW m \in Nat, Shaped(n, m), NEW t \in Threads, NEW r \in Thread(n, m),
         NEW gone, Throw(t, r, gone), job[t].for = "stage" => lease # None
  PROVE  /\ record' \in [Threads -> Thread(n, m)] /\ UNCHANGED flight
         /\ Slot(lease', pump', stopper', n, m)
         /\ job' \in [Threads -> Jobs(n, m)] /\ job' = [job EXCEPT ![t] = Free]
<1>1. lease \in Lease(n, m) \cup {None} /\ pump \in Passes(n, m) /\ stopper \in Stopping(m)
  BY DEF Shaped, Slot
<1>2. job' = [job EXCEPT ![t] = Free] /\ job' \in [Threads -> Jobs(n, m)] /\ UNCHANGED flight
  BY FreeShape DEF Throw, Shaped
<1>3. Paused(r) \in Thread(n, m) /\ Again(pump) \in Passes(n, m)
  BY <1>1, PausedThread, PassShapes
<1>4. CASE Write(t, r) /\ Stand
  BY <1>1, <1>2, <1>4, WriteShape DEF Shaped, Stand
<1>5. CASE Write(t, r) /\ Keep(lease, Again(pump), stopper)
  BY <1>1, <1>2, <1>3, <1>5, WriteShape, KeepShape DEF Shaped
<1>6. CASE /\ job[t].for = "stage" /\ Write(t, Paused(r))
           /\ Release(Again(pump), stopper)
  BY <1>1, <1>2, <1>3, <1>6, WriteShape, SettleShape DEF Shaped
<1> QED
  BY <1>4, <1>5, <1>6 DEF Throw

\* A child moves to another state.
LEMMA ChildState ==
  ASSUME child \in Seq(Process), NEW c, NEW s \in States, child' = [child EXCEPT ![c].state = s]
  PROVE  /\ child' \in Seq(Process) /\ Len(child') = Len(child)
         /\ \A d \in 1..Len(child) :
              /\ child'[d].thread = child[d].thread /\ child'[d].orphan = child[d].orphan
              /\ child'[d].state = IF d = c THEN s ELSE child[d].state
<1>1. PICK k \in Nat : k = Len(child) /\ child \in [1..k -> Process]
  BY LenProperties
<1>2. \A d \in 1..k : child[d] \in Process /\ child'[d] = IF d = c THEN [child[d] EXCEPT !.state = s] ELSE child[d]
  BY <1>1
<1>3. child' \in [1..k -> Process]
  <2>1. ASSUME NEW d \in 1..k PROVE child'[d] \in Process
    <3>1. PICK e \in Process : e = child[d]
      BY <1>2
    <3>2. [e EXCEPT !.state = s] \in Process
      BY DEF Process
    <3> QED
      BY <1>2, <3>1, <3>2
  <2> QED
    BY <1>1, <2>1
<1>4. child' \in Seq(Process) /\ Len(child') = k
  BY <1>3, SeqDef, LenProperties
<1> QED
  BY <1>1, <1>2, <1>4 DEF Process

-------------------------------------------------------------------------------
(* Every step keeps the shape of the state. *)

LEMMA Sizes ==
  ASSUME Formed PROVE \E n, m \in Nat : n = Len(home) /\ m = Len(child) /\ Shaped(n, m)
  BY DEF Formed

LEMMA Resized ==
  ASSUME NEW n \in Nat, NEW m \in Nat, home' \in Seq(Threads), child' \in Seq(Process),
         n = Len(home'), m = Len(child'), Shaped(n, m)'
  PROVE  Formed'
  BY DEF Formed, Shaped

\* No message is drawn and no child is started: the sizes stay.
LEMMA FormedKept ==
  ASSUME NEW n \in Nat, NEW m \in Nat, Formed, n = Len(home), m = Len(child), UNCHANGED home,
         child' \in Seq(Process), Len(child') = m, Shaped(n, m)'
  PROVE  Formed'
  BY Resized DEF Formed

LEMMA TypedSlot ==
  ASSUME NEW n \in Nat, NEW m \in Nat, Shaped(n, m)
  PROVE  /\ lease \in Lease(n, m) \cup {None} /\ pump \in Passes(n, m) /\ stopper \in Stopping(m)
         /\ Requested(pump) \in Passes(n, m) /\ Again(pump) \in Passes(n, m)
         /\ (stopper.pc # "idle" => stopper.thread \in Threads) /\ stopper.mine \in BOOLEAN
         /\ (pump.pc \notin {"idle", "read"} => pump.thread \in Threads)
         /\ NoStop \in Stopping(m)
<1>1. lease \in Lease(n, m) \cup {None} /\ pump \in Passes(n, m) /\ stopper \in Stopping(m)
  BY DEF Shaped, Slot
<1>2. /\ stopper.pc # "idle" => stopper.thread \in Threads
      /\ stopper.mine \in BOOLEAN
  BY <1>1 DEF Stopping
<1>3. pump.pc \notin {"idle", "read"} => pump.thread \in Threads
  BY <1>1 DEF Passes
<1>4. NoStop \in Stopping(m)
  BY DEF Stopping, NoStop
<1> QED
  BY <1>1, <1>2, <1>3, <1>4, PassShapes

LEMMA JobShapes ==
  ASSUME NEW n \in Nat, NEW m \in Nat, Shaped(n, m), NEW t \in Threads
  PROVE  /\ job[t].pc \in {"free", "check", "pin", "capacity", "evicting", "spawn", "record", "handshake"}
         /\ job[t].msg \in 0..n /\ job[t].child \in 0..m
         /\ record[t] \in Thread(n, m) /\ owned[t] \in 0..m
  BY DEF Shaped, Jobs

LEMMA Targets ==
  ASSUME Formed, Staged, Lined, NEW t \in Threads, Locked(t)
  PROVE  /\ job[t].for = "stage" => lease # None /\ pump.pc = "staging"
         /\ job[t].for = "send" => job[t].msg # 0
  BY DEF Staged, Lined, Serving, Engaged

LEMMA GotoShape ==
  ASSUME NEW n \in Nat, NEW m \in Nat, Shaped(n, m), NEW t \in Threads, NEW c \in 0..m,
         NEW pc \in {"check", "pin", "capacity", "evicting", "spawn", "record", "handshake"},
         Goto(t, pc, c)
  PROVE  job' \in [Threads -> Jobs(n, m)]
<1>1. job[t] \in Jobs(n, m)
  BY DEF Shaped
<1>2. [[job[t] EXCEPT !.pc = pc] EXCEPT !.child = c] \in Jobs(n, m)
  BY <1>1 DEF Jobs
<1> QED
  BY <1>2 DEF Goto, Shaped

LEMMA DiesShape ==
  ASSUME NEW n \in Nat, NEW m \in Nat, Formed, Shaped(n, m), m = Len(child), NEW c \in 1..m, Dies(c)
  PROVE  /\ child' \in Seq(Process) /\ Len(child') = m
         /\ exits' \subseteq Exiting(m) /\ tracked' \subseteq 1..m
<1>1. child' \in Seq(Process) /\ Len(child') = m
  BY ChildState DEF Dies, Formed, States
<1>2. [child |-> c, mine |-> Leased(c)] \in Exiting(m)
  BY DEF Exiting, Leased
<1> QED
  BY <1>1, <1>2 DEF Dies, Shaped

LEMMA SettledByShape ==
  ASSUME NEW n \in Nat, NEW m \in Nat, Shaped(n, m), NEW c
  PROVE  /\ SettledBy(c) \in Lease(n, m) \cup {None}
         /\ Leased(c) => SettledBy(c) \in Lease(n, m) /\ EndOf(c) \in Lease(n, m)
         /\ EndOf(c) \in Lease(n, m) \cup {None}
<1>1. lease \in Lease(n, m) \cup {None}
  BY DEF Shaped, Slot
<1>2. lease \in Lease(n, m) => Over(lease) \in Lease(n, m)
  BY LeaseShapes
<1> QED
  BY <1>1, <1>2 DEF SettledBy, EndOf, Leased

LEMMA AskedShape ==
  ASSUME NEW n \in Nat, NEW m \in Nat, NEW id \in 0..n, NEW for \in {"send", "resume", "stage"}
  PROVE  Asked(for, id) \in Jobs(n, m)
  BY DEF Asked, Jobs

LEMMA AppendHome ==
  ASSUME Formed, NEW t \in Threads
  PROVE  /\ Append(home, t) \in Seq(Threads) /\ Len(Append(home, t)) = Len(home) + 1
         /\ Len(home) \in Nat
         /\ Append(home, t)[Len(home) + 1] = t
         /\ \A i \in 1..Len(home) : Append(home, t)[i] = home[i]
  BY DEF Formed

\* A known id, one that waits for the queue to resume, or a new message.
LEMMA SendFormed == ASSUME Formed, Staged, Lined, NEW t \in Threads, Send(t) PROVE Formed'
<1>1. PICK n \in Nat, m \in Nat : n = Len(home) /\ m = Len(child) /\ Shaped(n, m)
  BY Sizes
<1>2. PICK id \in 1..n + 1 :
        /\ home' = IF id > n THEN Append(home, t) ELSE home
        /\ \/ Write(t, Loaded(t)) /\ UNCHANGED <<pump, job>>
           \/ /\ Write(t, Loaded(t)) /\ UNCHANGED pump
              /\ job' = [job EXCEPT ![t] = Asked("send", id)]
           \/ Write(t, Enqueued(Loaded(t), id)) /\ pump' = Requested(pump) /\ UNCHANGED job
  BY <1>1 DEF Send
<1>3. PICK v \in Nat : v = Len(home') /\ n <= v /\ id \in 1..v /\ home' \in Seq(Threads)
  BY <1>1, <1>2, AppendHome DEF Formed
<1>4. Shaped(v, m)
  BY <1>1, <1>3, Grown
<1>5. Loaded(t) \in Thread(v, m)
  BY <1>4, LoadedThread DEF Shaped
<1>6. Enqueued(Loaded(t), id) \in Thread(v, m)
  BY <1>3, <1>5, EnqueuedThread
<1>7. record' \in [Threads -> Thread(v, m)]
  BY <1>2, <1>4, <1>5, <1>6, WriteShape DEF Shaped
<1>8. Asked("send", id) \in Jobs(v, m)
  BY <1>3, AskedShape
<1>9. job' \in [Threads -> Jobs(v, m)]
  BY <1>2, <1>4, <1>8 DEF Shaped
<1>10. pump' \in Passes(v, m)
  BY <1>2, <1>4, TypedSlot
<1>11. Shaped(v, m)'
  BY <1>4, <1>7, <1>9, <1>10 DEF Send, Load, adapters, Shaped, Slot
<1> QED
  BY <1>1, <1>3, <1>11, Resized DEF Send, Formed

LEMMA ResumeFormed == ASSUME Formed, NEW t \in Threads, Resume(t) PROVE Formed'
<1>1. PICK n \in Nat, m \in Nat : n = Len(home) /\ m = Len(child) /\ Shaped(n, m)
  BY Sizes
<1>2. Asked("resume", 0) \in Jobs(n, m)
  BY AskedShape
<1>3. Shaped(n, m)'
  BY <1>1, <1>2 DEF Resume, durable, slot, adapters, Shaped, Slot
<1> QED
  BY <1>1, <1>3, FormedKept DEF Resume, durable, Formed

LEMMA DiscardFormed == ASSUME Formed, NEW t \in Threads, Discard(t) PROVE Formed'
<1>1. PICK n \in Nat, m \in Nat : n = Len(home) /\ m = Len(child) /\ Shaped(n, m)
  BY Sizes
<1>2. PICK r \in Thread(n, m) : r = Loaded(t)
  BY <1>1, LoadedThread DEF Shaped
<1>3. PICK item \in Items(r) :
        /\ \/ Write(t, Without(r, item.id)) /\ UNCHANGED home
           \/ home' = Append(home, t) /\ Write(t, Resent(r, item.id, n + 1))
        /\ given' = given \ {item.id}
  BY <1>1, <1>2 DEF Discard
<1>4. PICK v \in Nat : v = Len(home') /\ n <= v /\ home' \in Seq(Threads)
                       /\ (home' = Append(home, t) => v = n + 1)
  <2>1. home' = home \/ home' = Append(home, t)
    BY <1>3
  <2>2. home \in Seq(Threads)
    BY DEF Formed
  <2>3. Append(home, t) \in Seq(Threads) /\ Len(Append(home, t)) = n + 1
    BY <1>1, AppendHome
  <2>4. CASE home' = Append(home, t)
    <3>1. Len(home') = n + 1 /\ home' \in Seq(Threads)
      BY <2>3, <2>4
    <3> QED
      BY <3>1
  <2>5. CASE home' = home
    <3>1. Len(home') = n /\ home' \in Seq(Threads)
      BY <1>1, <2>2, <2>5
    <3>2. home' # Append(home, t)
      BY <2>3, <3>1
    <3> QED
      BY <3>1, <3>2
  <2> QED
    BY <2>1, <2>4, <2>5
<1>5. Shaped(v, m)
  BY <1>1, <1>4, Grown
<1>6. r \in Thread(v, m)
  BY <1>2, <1>5, LoadedThread DEF Shaped
<1>7. record' \in [Threads -> Thread(v, m)]
  <2>1. CASE Write(t, Without(r, item.id))
    BY <1>5, <1>6, <2>1, WithoutThread, WriteShape DEF Shaped
  <2>2. CASE home' = Append(home, t) /\ Write(t, Resent(r, item.id, n + 1))
    <3>1. n + 1 \in 1..v
      BY <1>4, <2>2
    <3>2. Resent(r, item.id, n + 1) \in Thread(v, m)
      BY <1>6, <3>1, ResentThread
    <3> QED
      BY <1>5, <2>2, <3>2, WriteShape DEF Shaped
  <2> QED
    BY <1>3, <2>1, <2>2
<1>8. pump' \in Passes(v, m)
  BY <1>5, TypedSlot DEF Discard
<1>9. flight' \in [Threads -> 0..v]
  BY <1>5 DEF Discard, Shaped
<1>10. Shaped(v, m)'
  BY <1>3, <1>5, <1>7, <1>8, <1>9 DEF Discard, Load, adapters, Shaped, Slot
<1> QED
  BY <1>1, <1>4, <1>10, Resized DEF Discard, Formed

LEMMA CheckFormed == ASSUME Formed, Staged, Lined, NEW t \in Threads, Check(t) PROVE Formed'
<1>1. PICK n \in Nat, m \in Nat : n = Len(home) /\ m = Len(child) /\ Shaped(n, m)
  BY Sizes
<1>2. PICK r \in Thread(n, m) : r = Loaded(t)
  BY <1>1, LoadedThread DEF Shaped
<1>3. PICK c \in 0..m : c = owned[t]
  BY <1>1 DEF Shaped
<1>4. /\ \A a \in {"none", "missing", "owner"} : Noted(r, a) \in Thread(n, m)
      /\ Held(r, c) \in Thread(n, m)
  BY NotedThread, HeldThread
<1>5. /\ job[t].for = "stage" => lease # None /\ pump.pc = "staging"
      /\ job[t].for = "send" => job[t].msg # 0
  BY Targets DEF Check, Locked
<1>6. UNCHANGED <<present, home, given, retire>> /\ recovered' \subseteq Threads /\ 0 \in 0..m
  BY <1>1 DEF Check, Load, Shaped
<1>7. record' \in [Threads -> Thread(n, m)] /\ flight' \in [Threads -> 0..n]
      /\ Slot(lease', pump', stopper', n, m) /\ job' \in [Threads -> Jobs(n, m)]
  <2>1. CASE Return(t, Noted(r, "missing"), c)
    BY <1>1, <1>4, <1>5, <2>1, ReturnShape
  <2>2. CASE \/ Throw(t, Noted(r, "none"), 0) \/ Throw(t, Noted(r, "owner"), 0)
             \/ Throw(t, Held(r, c), 0)
    BY <1>1, <1>4, <1>5, <2>2, ThrowShape DEF Shaped
  <2>3. CASE Write(t, r) /\ Goto(t, "pin", c) /\ Stand /\ UNCHANGED flight
    BY <1>1, <2>3, WriteShape, GotoShape DEF Stand, Shaped
  <2>4. CASE Write(t, r) /\ Goto(t, "capacity", 0) /\ Stand /\ UNCHANGED flight
    BY <1>1, <1>6, <2>4, WriteShape, GotoShape DEF Stand, Shaped
  <2>5. CASE Write(t, r) /\ Goto(t, "capacity", 0) /\ lease' = SettledBy(c)
             /\ UNCHANGED <<pump, stopper, flight>>
    BY <1>1, <1>6, <2>5, WriteShape, GotoShape, SettledByShape DEF Shaped, Slot
  <2> QED
    BY <1>2, <1>3, <2>1, <2>2, <2>3, <2>4, <2>5 DEF Check
<1>8. /\ child' \in Seq(Process) /\ Len(child') = m
      /\ exits' \subseteq Exiting(m) /\ tracked' \subseteq 1..m /\ evicting' \subseteq 1..m
      /\ owned' \in [Threads -> 0..m]
  <2>1. CASE UNCHANGED <<child, adapters, exits>>
    BY <1>1, <2>1 DEF adapters, Formed, Shaped
  <2>2. CASE c # 0 /\ Dies(c) /\ owned' = [owned EXCEPT ![t] = 0] /\ UNCHANGED evicting
    <3>1. c \in 1..m
      BY <2>2
    <3>2. owned' \in [Threads -> 0..m] /\ evicting' \subseteq 1..m
      BY <1>1, <1>6, <2>2 DEF Shaped
    <3> QED
      BY <1>1, <2>2, <3>1, <3>2, DiesShape
  <2>3. CASE c # 0 /\ evicting' = evicting \cup {c} /\ UNCHANGED <<child, owned, tracked, exits>>
    BY <1>1, <2>3 DEF Formed, Shaped
  <2> QED
    BY <1>2, <1>3, <2>1, <2>2, <2>3 DEF Check
<1>9. Shaped(n, m)'
  BY <1>1, <1>6, <1>7, <1>8 DEF Shaped
<1> QED
  BY <1>1, <1>6, <1>8, <1>9, FormedKept

LEMMA PinFormed == ASSUME Formed, Staged, Lined, NEW t \in Threads, Pin(t) PROVE Formed'
<1>1. PICK n \in Nat, m \in Nat : n = Len(home) /\ m = Len(child) /\ Shaped(n, m)
  BY Sizes
<1>2. PICK r \in Thread(n, m) : r = Unpaused(Eased(Owner(record[t], job[t].child)))
  BY <1>1, JobShapes, OwnerThread, EasedThread, PausedThread
<1>3. Return(t, r, owned[t]) /\ owned[t] \in 0..m
  BY <1>1, <1>2, JobShapes DEF Pin
<1>4. /\ job[t].for = "stage" => lease # None /\ pump.pc = "staging"
      /\ job[t].for = "send" => job[t].msg # 0
  BY Targets DEF Pin, Locked
<1>5. /\ record' \in [Threads -> Thread(n, m)] /\ flight' \in [Threads -> 0..n]
      /\ Slot(lease', pump', stopper', n, m) /\ job' \in [Threads -> Jobs(n, m)]
  BY <1>1, <1>3, <1>4, ReturnShape
<1>6. Shaped(n, m)'
  BY <1>1, <1>5 DEF Pin, adapters, Shaped
<1> QED
  BY <1>1, <1>6, FormedKept DEF Pin, Formed

\* A step of a job that neither returns nor throws leaves the slot alone.
LEMMA CapacityFormed == ASSUME Formed, Staged, Lined, NEW t \in Threads, Capacity(t) PROVE Formed'
<1>1. PICK n \in Nat, m \in Nat : n = Len(home) /\ m = Len(child) /\ Shaped(n, m)
  BY Sizes
<1>2. Noted(record[t], "none") \in Thread(n, m) /\ 0 \in 0..m
  BY <1>1, JobShapes, NotedThread
<1>3. job[t].for = "stage" => lease # None
  BY Targets DEF Capacity, Locked
<1>4. /\ record' \in [Threads -> Thread(n, m)] /\ flight' \in [Threads -> 0..n]
      /\ Slot(lease', pump', stopper', n, m) /\ job' \in [Threads -> Jobs(n, m)]
      /\ retire' \subseteq Retiring(m)
  <2>1. CASE Goto(t, "spawn", 0) /\ Stand /\ UNCHANGED <<record, flight, retire>>
    BY <1>1, <1>2, <2>1, GotoShape DEF Stand, Shaped
  <2>2. CASE /\ Goto(t, "evicting", 0) /\ Stand /\ UNCHANGED <<record, flight>>
             /\ \E u \in Threads : retire' = retire \cup
                  {[thread |-> u, child |-> owned[u], for |-> t, pc |-> "judged"]}
    <3>1. \A u \in Threads : [thread |-> u, child |-> owned[u], for |-> t, pc |-> "judged"] \in Retiring(m)
      BY <1>1 DEF Shaped, Retiring
    <3> QED
      BY <1>1, <1>2, <2>2, <3>1, GotoShape DEF Stand, Shaped
  <2>3. CASE Throw(t, Noted(record[t], "none"), 0) /\ UNCHANGED retire
    BY <1>1, <1>2, <1>3, <2>3, ThrowShape DEF Shaped
  <2> QED
    BY <2>1, <2>2, <2>3 DEF Capacity
<1>5. Shaped(n, m)'
  BY <1>1, <1>4 DEF Capacity, adapters, Shaped
<1> QED
  BY <1>1, <1>5, FormedKept DEF Capacity, Formed

LEMMA SpawnFormed == ASSUME Formed, Staged, Lined, NEW t \in Threads, Spawn(t) PROVE Formed'
<1>1. PICK n \in Nat, m \in Nat : n = Len(home) /\ m = Len(child) /\ Shaped(n, m)
  BY Sizes
<1>2. job[t].for = "stage" => lease # None
  BY Targets DEF Spawn, Locked
<1>3. CASE /\ child' = Append(child, [thread |-> t, state |-> "starting", orphan |-> FALSE])
           /\ tracked' = tracked \cup {m + 1}
           /\ Goto(t, "record", m + 1) /\ Stand /\ UNCHANGED <<record, flight>>
  <2>1. [thread |-> t, state |-> "starting", orphan |-> FALSE] \in Process
    BY DEF Process, States
  <2>2. child' \in Seq(Process) /\ Len(child') = m + 1
    BY <1>1, <1>3, <2>1 DEF Formed
  <2>3. Shaped(n, m + 1)
    BY <1>1, Grown
  <2>4. job' \in [Threads -> Jobs(n, m + 1)]
    BY <1>3, <2>3, GotoShape
  <2>5. tracked' \subseteq 1..m + 1
    BY <1>3, <2>3 DEF Shaped
  <2>6. Slot(lease', pump', stopper', n, m + 1)
    BY <1>3, <2>3 DEF Stand, Shaped
  <2>7. Shaped(n, m + 1)'
    BY <1>3, <2>3, <2>4, <2>5, <2>6 DEF Spawn, Shaped
  <2> QED
    BY <1>1, <2>2, <2>7, Resized DEF Spawn, Formed
<1>4. CASE Throw(t, Noted(record[t], "none"), 0) /\ UNCHANGED <<child, tracked>>
  <2>1. Noted(record[t], "none") \in Thread(n, m)
    BY <1>1, JobShapes, NotedThread
  <2>2. /\ record' \in [Threads -> Thread(n, m)] /\ UNCHANGED flight
        /\ Slot(lease', pump', stopper', n, m) /\ job' \in [Threads -> Jobs(n, m)]
    BY <1>1, <1>2, <1>4, <2>1, ThrowShape
  <2>3. Shaped(n, m)'
    BY <1>1, <1>4, <2>2 DEF Spawn, Shaped
  <2> QED
    BY <1>1, <1>4, <2>3, FormedKept DEF Spawn, Formed
<1> QED
  BY <1>1, <1>3, <1>4 DEF Spawn

LEMMA RecordChildFormed ==
  ASSUME Formed, Staged, Lined, NEW t \in Threads, RecordChild(t) PROVE Formed'
<1>1. PICK n \in Nat, m \in Nat : n = Len(home) /\ m = Len(child) /\ Shaped(n, m)
  BY Sizes
<1>2. PICK c \in 0..m, r \in Thread(n, m) : c = job[t].child /\ r = record[t]
  BY <1>1, JobShapes
<1>3. job[t].for = "stage" => lease # None
  BY Targets DEF RecordChild, Locked
<1>4. CASE Write(t, Held(r, c)) /\ Goto(t, "handshake", c) /\ Stand /\ UNCHANGED <<child, tracked, flight>>
  <2>1. record' \in [Threads -> Thread(n, m)]
    BY <1>1, <1>4, HeldThread, WriteShape DEF Shaped
  <2>2. job' \in [Threads -> Jobs(n, m)]
    BY <1>1, <1>4, GotoShape
  <2>3. Shaped(n, m)'
    BY <1>1, <1>4, <2>1, <2>2 DEF RecordChild, Stand, Shaped
  <2> QED
    BY <1>1, <1>4, <2>3, FormedKept DEF RecordChild, Formed
<1>5. CASE /\ Throw(t, r, c) /\ child' = [child EXCEPT ![c].state = "dead"]
           /\ tracked' = tracked \ {c}
  <2>1. child' \in Seq(Process) /\ Len(child') = m /\ tracked' \subseteq 1..m
    BY <1>1, <1>5, ChildState DEF Formed, States, Shaped
  <2>2. /\ record' \in [Threads -> Thread(n, m)] /\ UNCHANGED flight
        /\ Slot(lease', pump', stopper', n, m) /\ job' \in [Threads -> Jobs(n, m)]
    BY <1>1, <1>3, <1>5, ThrowShape
  <2>3. Shaped(n, m)'
    BY <1>1, <1>5, <2>1, <2>2 DEF RecordChild, Shaped
  <2> QED
    BY <1>1, <2>1, <2>3, FormedKept DEF RecordChild
<1>6. CASE Throw(t, r, 0) /\ UNCHANGED <<child, tracked>>
  <2>1. /\ record' \in [Threads -> Thread(n, m)] /\ UNCHANGED flight
        /\ Slot(lease', pump', stopper', n, m) /\ job' \in [Threads -> Jobs(n, m)]
    BY <1>1, <1>3, <1>6, ThrowShape
  <2>2. Shaped(n, m)'
    BY <1>1, <1>6, <2>1 DEF RecordChild, Shaped
  <2> QED
    BY <1>1, <1>6, <2>2, FormedKept DEF RecordChild, Formed
<1> QED
  BY <1>2, <1>4, <1>5, <1>6 DEF RecordChild

LEMMA HandshakeFormed == ASSUME Formed, Staged, Lined, NEW t \in Threads, Handshake(t) PROVE Formed'
<1>1. PICK n \in Nat, m \in Nat : n = Len(home) /\ m = Len(child) /\ Shaped(n, m)
  BY Sizes
<1>2. PICK c \in 0..m, r \in Thread(n, m) : c = job[t].child /\ r = record[t]
  BY <1>1, JobShapes
<1>3. /\ job[t].for = "stage" => lease # None /\ pump.pc = "staging"
      /\ job[t].for = "send" => job[t].msg # 0
  BY Targets DEF Handshake, Locked
<1>4. CASE /\ child' = [child EXCEPT ![c].state = "idle"]
           /\ owned' = [owned EXCEPT ![t] = c] /\ UNCHANGED tracked
           /\ Return(t, Unpaused(Noted(Owner(r, c), "none")), c)
  <2>1. child' \in Seq(Process) /\ Len(child') = m /\ owned' \in [Threads -> 0..m]
    BY <1>1, <1>4, ChildState DEF Formed, States, Shaped
  <2>2. PICK s \in Thread(n, m) : s = Unpaused(Noted(Owner(r, c), "none"))
    BY OwnerThread, NotedThread, PausedThread
  <2>3. Return(t, s, c)
    BY <1>4, <2>2
  <2>4. /\ record' \in [Threads -> Thread(n, m)] /\ flight' \in [Threads -> 0..n]
        /\ Slot(lease', pump', stopper', n, m) /\ job' \in [Threads -> Jobs(n, m)]
    BY <1>1, <1>3, <2>3, ReturnShape
  <2>5. Shaped(n, m)'
    BY <1>1, <1>4, <2>1, <2>4 DEF Handshake, Shaped
  <2> QED
    BY <1>1, <2>1, <2>5, FormedKept DEF Handshake
<1>5. CASE /\ child' = [child EXCEPT ![c].state = "dead"]
           /\ tracked' = tracked \ {c} /\ UNCHANGED owned
           /\ Throw(t, Noted(Owner(r, 0), "none"), c)
  <2>1. child' \in Seq(Process) /\ Len(child') = m /\ tracked' \subseteq 1..m
    BY <1>1, <1>5, ChildState DEF Formed, States, Shaped
  <2>2. PICK s \in Thread(n, m) : s = Noted(Owner(r, 0), "none")
    <3>1. 0 \in 0..m
      OBVIOUS
    <3> QED
      BY <3>1, OwnerThread, NotedThread
  <2>3. Throw(t, s, c)
    BY <1>5, <2>2
  <2>4. /\ record' \in [Threads -> Thread(n, m)] /\ UNCHANGED flight
        /\ Slot(lease', pump', stopper', n, m) /\ job' \in [Threads -> Jobs(n, m)]
    BY <1>1, <1>3, <2>3, ThrowShape
  <2>5. Shaped(n, m)'
    BY <1>1, <1>5, <2>1, <2>4 DEF Handshake, Shaped
  <2> QED
    BY <1>1, <2>1, <2>5, FormedKept DEF Handshake
<1>6. CASE Throw(t, Noted(r, "none"), 0) /\ UNCHANGED <<child, tracked, owned>>
  <2>1. /\ record' \in [Threads -> Thread(n, m)] /\ UNCHANGED flight
        /\ Slot(lease', pump', stopper', n, m) /\ job' \in [Threads -> Jobs(n, m)]
    BY <1>1, <1>3, <1>6, NotedThread, ThrowShape
  <2>2. Shaped(n, m)'
    BY <1>1, <1>6, <2>1 DEF Handshake, Shaped
  <2> QED
    BY <1>1, <1>6, <2>2, FormedKept DEF Handshake, Formed
<1> QED
  BY <1>2, <1>4, <1>5, <1>6 DEF Handshake

LEMMA ExpireFormed == ASSUME Formed, NEW u \in Threads, Expire(u) PROVE Formed'
<1>1. PICK n \in Nat, m \in Nat : n = Len(home) /\ m = Len(child) /\ Shaped(n, m)
  BY Sizes
<1>2. [thread |-> u, child |-> owned[u], for |-> None, pc |-> "judged"] \in Retiring(m)
  BY <1>1 DEF Shaped, Retiring
<1>3. Shaped(n, m)'
  BY <1>1, <1>2 DEF Expire, durable, slot, adapters, Shaped
<1> QED
  BY <1>1, <1>3, FormedKept DEF Expire, durable, Formed

LEMMA RetireFormed == ASSUME Formed, Housed, NEW k \in retire, Retire(k) PROVE Formed'
<1>1. PICK n \in Nat, m \in Nat : n = Len(home) /\ m = Len(child) /\ Shaped(n, m)
  BY Sizes
<1>2. k \in Retiring(m)
  BY <1>1 DEF Shaped
<1>3. PICK u \in Threads, c \in 0..m : u = k.thread /\ c = k.child
  BY <1>2 DEF Retiring
<1>4. job' \in [Threads -> Jobs(n, m)]
  <2>1. ASSUME NEW pc \in {"capacity", "spawn"}, job' = [job EXCEPT ![k.for].pc = pc]
        PROVE  job' \in [Threads -> Jobs(n, m)]
    <3>1. \A e \in Jobs(n, m) : [e EXCEPT !.pc = pc] \in Jobs(n, m)
      BY DEF Jobs
    <3> QED
      BY <1>1, <2>1, <3>1 DEF Shaped
  <2>2. UNCHANGED job \/ \E pc \in {"capacity", "spawn"} : job' = [job EXCEPT ![k.for].pc = pc]
    BY DEF Retire
  <2> QED
    BY <1>1, <2>1, <2>2 DEF Shaped
<1>5. retire' \subseteq Retiring(m)
  <2>1. [k EXCEPT !.pc = "closing"] \in Retiring(m)
    BY <1>2 DEF Retiring
  <2> QED
    BY <1>1, <2>1 DEF Retire, Shaped
<1>6. record' \in [Threads -> Thread(n, m)]
  <2>1. CASE Write(u, Held(Loaded(u), c))
    BY <1>1, <2>1, LoadedThread, HeldThread, WriteShape DEF Shaped
  <2> QED
    BY <1>1, <1>3, <2>1 DEF Retire, Shaped
<1>7. lease' \in Lease(n, m) \cup {None}
  <2>1. lease' = lease \/ lease' = SettledBy(c)
    BY <1>3 DEF Retire
  <2>2. SettledBy(c) \in Lease(n, m) \cup {None} /\ lease \in Lease(n, m) \cup {None}
    BY <1>1, SettledByShape, TypedSlot
  <2> QED
    BY <2>1, <2>2
<1>8. /\ child' \in Seq(Process) /\ Len(child') = m
      /\ exits' \subseteq Exiting(m) /\ tracked' \subseteq 1..m
  <2>1. CASE Alive(c) /\ Dies(c)
    <3>1. c \in 1..m
      BY <2>1 DEF Alive
    <3> QED
      BY <1>1, <2>1, <3>1, DiesShape
  <2>2. CASE UNCHANGED <<child, exits, tracked>>
    BY <1>1, <2>2 DEF Formed, Shaped
  <2> QED
    BY <1>3, <2>1, <2>2 DEF Retire, adapters
<1>9. owned' \in [Threads -> 0..m] /\ evicting' \subseteq 1..m
  <2>1. owned \in [Threads -> 0..m] /\ evicting \subseteq 1..m /\ 0 \in 0..m
    BY <1>1 DEF Shaped
  <2>2. owned' = owned \/ owned' = [owned EXCEPT ![u] = IF @ = c THEN 0 ELSE @]
    BY <1>3 DEF Retire, adapters
  <2>3. (evicting' = evicting \/ evicting' = evicting \cup {c}) /\ c # 0
    BY <1>3 DEF Retire, adapters, Housed, Homed
  <2>4. evicting' \subseteq 1..m
    <3>1. c \in 1..m
      BY <2>3
    <3> QED
      BY <2>1, <2>3, <3>1
  <2>5. owned' \in [Threads -> 0..m]
    BY <2>1, <2>2
  <2> QED
    BY <2>4, <2>5
<1>10. Shaped(n, m)'
  BY <1>1, <1>4, <1>5, <1>6, <1>7, <1>8, <1>9 DEF Retire, Shaped, Slot
<1> QED
  BY <1>1, <1>8, <1>10, FormedKept DEF Retire

LEMMA BusyFormed == ASSUME Formed, Busy PROVE Formed'
<1>1. PICK n \in Nat, m \in Nat : n = Len(home) /\ m = Len(child) /\ Shaped(n, m)
  BY Sizes
<1>2. pump' \in Passes(n, m)
  BY <1>1, TypedSlot, PassShapes DEF Busy
<1>3. Shaped(n, m)'
  BY <1>1, <1>2 DEF Busy, durable, adapters, Shaped, Slot
<1> QED
  BY <1>1, <1>3, FormedKept DEF Busy, durable, Formed

\* The outcomes of a pass: a stranger, nothing to do, or a head.
LEMMA JudgeStep ==
  ASSUME Judge
  PROVE  \/ \E t \in Strangers :
              /\ Keep([thread |-> t, msg |-> 0, gen |-> 0, settled |-> FALSE, acked |-> TRUE,
                       orphan |-> TRUE], Ended(pump, FALSE), stopper)
              /\ record' = [u \in Threads |-> IF u = t THEN Noted(Loaded(u), "owner") ELSE Loaded(u)]
         \/ /\ Keep(lease, Ended(pump, TRUE), stopper)
            /\ record' = [u \in Threads |-> Loaded(u)]
         \/ /\ Strangers = {} /\ record' = [u \in Threads |-> Loaded(u)]
            /\ \E t \in Threads :
                 Eligible(Loaded(t)) /\ Keep(lease, Chosen(pump, t, Head(Loaded(t).queue).id), stopper)
  BY DEF Judge

LEMMA JudgeFormed == ASSUME Formed, Judge PROVE Formed'
<1>1. PICK n \in Nat, m \in Nat : n = Len(home) /\ m = Len(child) /\ Shaped(n, m)
  BY Sizes
<1>2. \A t \in Threads : Loaded(t) \in Thread(n, m) /\ Noted(Loaded(t), "owner") \in Thread(n, m)
  BY <1>1, LoadedThread, NotedThread DEF Shaped
<1>3. record' \in [Threads -> Thread(n, m)]
  BY <1>2, JudgeStep
<1>4. lease \in Lease(n, m) \cup {None} /\ pump \in Passes(n, m) /\ stopper \in Stopping(m)
      /\ \A free \in BOOLEAN : Ended(pump, free) \in Passes(n, m)
  BY <1>1, TypedSlot, PassShapes
<1>5. Slot(lease', pump', stopper', n, m)
  <2>1. ASSUME NEW t \in Threads,
               Keep([thread |-> t, msg |-> 0, gen |-> 0, settled |-> FALSE, acked |-> TRUE,
                     orphan |-> TRUE], Ended(pump, FALSE), stopper)
        PROVE  Slot(lease', pump', stopper', n, m)
    <3>1. [thread |-> t, msg |-> 0, gen |-> 0, settled |-> FALSE, acked |-> TRUE, orphan |-> TRUE]
            \in Lease(n, m)
      BY DEF Lease
    <3> QED
      BY <1>4, <2>1, <3>1, KeepShape
  <2>2. CASE Keep(lease, Ended(pump, TRUE), stopper)
    BY <1>4, <2>2, KeepShape
  <2>3. ASSUME NEW t \in Threads, Eligible(Loaded(t)),
               Keep(lease, Chosen(pump, t, Head(Loaded(t).queue).id), stopper)
        PROVE  Slot(lease', pump', stopper', n, m)
    <3>1. Head(Loaded(t).queue) \in Message(n)
      BY <1>2, <2>3, QueueOf DEF Eligible
    <3>2. PICK id \in 0..n : id = Head(Loaded(t).queue).id
      BY <3>1 DEF Message
    <3>3. Chosen(pump, t, id) \in Passes(n, m)
      BY <1>4 DEF Passes, Chosen
    <3> QED
      BY <1>4, <2>3, <3>2, <3>3, KeepShape
  <2> QED
    BY <2>1, <2>2, <2>3, JudgeStep DEF Strangers
<1>6. recovered' \subseteq Threads /\ UNCHANGED <<present, child, home, given, adapters, flight, job, retire, exits>>
  BY DEF Judge
<1>7. Shaped(n, m)'
  BY <1>1, <1>3, <1>5, <1>6 DEF adapters, Shaped
<1> QED
  BY <1>1, <1>6, <1>7, FormedKept DEF Formed

LEMMA StageFormed == ASSUME Formed, NEW t \in Threads, Stage(t) PROVE Formed'
<1>1. PICK n \in Nat, m \in Nat : n = Len(home) /\ m = Len(child) /\ Shaped(n, m)
  BY Sizes
<1>2. lease \in Lease(n, m) \cup {None} /\ pump \in Passes(n, m) /\ stopper \in Stopping(m)
      /\ Again(pump) \in Passes(n, m) /\ pump.msg \in 0..n /\ 0 \in 0..m
  BY <1>1, TypedSlot DEF Passes
<1>3. record' \in [Threads -> Thread(n, m)]
  BY <1>1, LoadedThread, WriteShape DEF Stage, Shaped
<1>4. Slot(lease', pump', stopper', n, m) /\ job' \in [Threads -> Jobs(n, m)]
  <2>1. CASE /\ Keep([thread |-> t, msg |-> pump.msg, gen |-> 0, settled |-> FALSE,
                      acked |-> FALSE, orphan |-> FALSE], [pump EXCEPT !.pc = "staging"], stopper)
             /\ job' = [job EXCEPT ![t] = Asked("stage", pump.msg)]
    <3>1. [thread |-> t, msg |-> pump.msg, gen |-> 0, settled |-> FALSE,
           acked |-> FALSE, orphan |-> FALSE] \in Lease(n, m)
      BY <1>2 DEF Lease
    <3>2. [pump EXCEPT !.pc = "staging"] \in Passes(n, m)
      BY <1>2, t = pump.thread DEF Passes, Stage
    <3>3. Asked("stage", pump.msg) \in Jobs(n, m)
      BY <1>2, AskedShape
    <3>4. job' \in [Threads -> Jobs(n, m)]
      BY <1>1, <2>1, <3>3 DEF Shaped
    <3> QED
      BY <1>2, <2>1, <3>1, <3>2, <3>4, KeepShape
  <2>2. CASE Keep(lease, Again(pump), stopper) /\ UNCHANGED job
    BY <1>1, <1>2, <2>2, KeepShape DEF Shaped
  <2> QED
    BY <2>1, <2>2 DEF Stage
<1>5. Shaped(n, m)'
  BY <1>1, <1>3, <1>4 DEF Stage, Load, adapters, Shaped
<1> QED
  BY <1>1, <1>5, FormedKept DEF Stage, Formed

\* What a prompt does: the pump waits for nothing, and a child may be busy.
LEMMA PromptStep ==
  ASSUME Prompt
  PROVE  \E reply \in {"started", "handled", "refused", "lost"}, heard \in BOOLEAN :
           /\ pump.pc = "prompt" /\ pump' = [pump EXCEPT !.pc = "ack", !.reply = reply]
           /\ heard => Alive(pump.child) /\ pump.child \notin evicting /\ reply # "refused"
           /\ reply \in {"started", "handled"} => heard
           /\ given' = IF heard THEN given \cup {pump.msg} ELSE given
           /\ child' = IF heard /\ reply # "handled"
                       THEN [child EXCEPT ![pump.child].state = "busy"] ELSE child
  BY DEF Prompt

LEMMA PromptFormed == ASSUME Formed, Staged, Prompt PROVE Formed'
<1>1. PICK n \in Nat, m \in Nat : n = Len(home) /\ m = Len(child) /\ Shaped(n, m)
  BY Sizes
<1>2. PICK reply \in {"started", "handled", "refused", "lost"}, heard \in BOOLEAN :
        /\ pump.pc = "prompt" /\ pump' = [pump EXCEPT !.pc = "ack", !.reply = reply]
        /\ given' = IF heard THEN given \cup {pump.msg} ELSE given
        /\ child' = IF heard /\ reply # "handled"
                    THEN [child EXCEPT ![pump.child].state = "busy"] ELSE child
  BY PromptStep
<1>3. pump \in Passes(n, m)
  BY <1>1, TypedSlot
<1>4. pump' \in Passes(n, m)
  BY <1>2, <1>3 DEF Passes
<1>5. child' \in Seq(Process) /\ Len(child') = m
  BY <1>1, <1>2, ChildState DEF Formed, States
<1>6. given' \subseteq 1..n
  <2>1. pump.msg \in 1..n
    <3>1. record[pump.thread] \in Thread(n, m)
      BY <1>1, <1>2, <1>3 DEF Shaped, Passes
    <3>2. record[pump.thread].queue[1] \in Message(n)
      BY <1>2, <3>1, QueueOf DEF Staged, AtHead
    <3> QED
      BY <1>2, <3>2 DEF Staged, AtHead, Message
  <2> QED
    BY <1>1, <1>2, <2>1 DEF Shaped
<1>7. Shaped(n, m)'
  BY <1>1, <1>4, <1>6 DEF Prompt, adapters, Shaped, Slot
<1> QED
  BY <1>1, <1>5, <1>7, FormedKept DEF Prompt

\* How an acknowledgement ends.
LEMMA AckStep ==
  ASSUME Ack
  PROVE  LET t == pump.thread
             id == pump.msg
         IN \/ /\ pump.reply \in {"started", "handled"}
               /\ \/ /\ Settle(Acked(lease), Pass("read", pump.again, pump.excluded), stopper)
                  \/ /\ pump.reply = "handled"
                     /\ Settle(Over(Acked(lease)),
                               Pass("read", pump.again, pump.excluded), stopper)
               /\ Write(t, Answered(Without(record[t], id), id))
               /\ given' = IF Len(record[t].accepted) = MaxAccepted
                           THEN given \ {Head(record[t].accepted)} ELSE given
               /\ flight' = [flight EXCEPT ![t] = 0]
            \/ /\ pump.reply = "refused"
               /\ \/ Settle(Acked(lease), Again(pump), stopper)
                  \/ Settle(Over(Acked(lease)), Again(pump), stopper)
               /\ Write(t, Paused(Noted(Moved(record[t], id, "queued"), "none")))
               /\ UNCHANGED given /\ flight' = [flight EXCEPT ![t] = 0]
            \/ /\ \/ Settle(Acked(lease), Again(pump), stopper)
                  \/ /\ pump.reply = "handled"
                     /\ Settle(Over(Acked(lease)), Again(pump), stopper)
               /\ Write(t, Noted(Moved(record[t], id, "uncertain"), "uncertain"))
               /\ UNCHANGED given /\ flight' = [flight EXCEPT ![t] = 0]
            \/ /\ \/ Keep(lease, Again(pump), stopper)
                  \/ /\ pump.reply \in {"handled", "refused"}
                     /\ Keep(Over(lease), Again(pump), stopper)
               /\ UNCHANGED <<record, given, flight>>
<1>1. PICK reply : /\ reply \subseteq {pump.reply, "lost"} /\ pump.reply \in reply
                   /\ reply = IF pump.reply # "lost" /\ ~Alive(pump.child) THEN {pump.reply, "lost"}
                                                                           ELSE {pump.reply}
  OBVIOUS
<1> QED
  BY <1>1 DEF Ack, FailedState

LEMMA AckFormed == ASSUME Formed, Staged, Ack PROVE Formed'
<1>1. PICK n \in Nat, m \in Nat : n = Len(home) /\ m = Len(child) /\ Shaped(n, m)
  BY Sizes
<1>2. pump \in Passes(n, m) /\ stopper \in Stopping(m) /\ Again(pump) \in Passes(n, m)
      /\ Pass("read", pump.again, pump.excluded) \in Passes(n, m)
  BY <1>1, TypedSlot, PassShapes
<1>3. PICK t \in Threads : t = pump.thread
  BY <1>1, TypedSlot DEF Ack
<1>4. PICK id \in Nat : id = pump.msg
  BY <1>2 DEF Passes
<1>5. PICK r \in Thread(n, m) : r = record[t]
  BY <1>1, JobShapes
<1>6. lease \in Lease(n, m)
  BY <1>1, TypedSlot DEF Staged, Engaged, Ack
<1>7. /\ Acked(lease) \in Lease(n, m) /\ Over(Acked(lease)) \in Lease(n, m)
      /\ Over(lease) \in Lease(n, m)
  BY <1>6, LeaseShapes
<1>8. Slot(lease', pump', stopper', n, m)
  BY <1>2, <1>6, <1>7, AckStep, SettleShape
<1>9. /\ Answered(Without(r, id), id) \in Thread(n, m)
      /\ Paused(Noted(Moved(r, id, "queued"), "none")) \in Thread(n, m)
      /\ Noted(Moved(r, id, "uncertain"), "uncertain") \in Thread(n, m)
  <2>1. Without(r, id) \in Thread(n, m) /\ Moved(r, id, "queued") \in Thread(n, m)
        /\ Moved(r, id, "uncertain") \in Thread(n, m)
    BY WithoutThread, MovedThread
  <2> QED
    BY <2>1, AnsweredThread, NotedThread, PausedThread
<1>10. record' \in [Threads -> Thread(n, m)]
  <2>1. UNCHANGED record \/ \E s \in Thread(n, m) : Write(t, s)
    BY <1>3, <1>4, <1>5, <1>9, AckStep
  <2>2. ASSUME NEW s \in Thread(n, m), Write(t, s) PROVE record' \in [Threads -> Thread(n, m)]
    BY <1>1, <2>2, WriteShape DEF Shaped
  <2> QED
    BY <1>1, <2>1, <2>2 DEF Shaped
<1>11. given' \subseteq 1..n /\ flight' \in [Threads -> 0..n]
  <2>1. given' \subseteq given
    BY AckStep
  <2>2. (UNCHANGED flight \/ flight' = [flight EXCEPT ![t] = 0]) /\ 0 \in 0..n
    BY <1>3, AckStep
  <2> QED
    BY <1>1, <2>1, <2>2 DEF Shaped
<1>12. Shaped(n, m)'
  BY <1>1, <1>8, <1>10, <1>11 DEF Ack, adapters, Shaped
<1> QED
  BY <1>1, <1>12, FormedKept DEF Ack, Formed

LEMMA SettledFormed == ASSUME Formed, NEW c \in Nat, Settled(c) PROVE Formed'
<1>1. PICK n \in Nat, m \in Nat : n = Len(home) /\ m = Len(child) /\ Shaped(n, m)
  BY Sizes
<1>2. child' \in Seq(Process) /\ Len(child') = m
  BY <1>1, ChildState DEF Settled, Formed, States
<1>3. Slot(lease', pump', stopper', n, m)
  <2>1. CASE Leased(c) /\ Settle(EndOf(c), pump, stopper)
    BY <1>1, <2>1, SettledByShape, TypedSlot, SettleShape
  <2>2. CASE Stand
    BY <1>1, <2>2 DEF Stand, Shaped
  <2> QED
    BY <2>1, <2>2 DEF Settled
<1>4. Shaped(n, m)'
  BY <1>1, <1>3 DEF Settled, adapters, Shaped
<1> QED
  BY <1>1, <1>2, <1>4, FormedKept DEF Settled

LEMMA ChildDiesFormed == ASSUME Formed, NEW c \in Nat, ChildDies(c) PROVE Formed'
<1>1. PICK n \in Nat, m \in Nat : n = Len(home) /\ m = Len(child) /\ Shaped(n, m)
  BY Sizes
<1>2. c \in 1..m
  BY <1>1 DEF ChildDies, Alive
<1>3. /\ child' \in Seq(Process) /\ Len(child') = m
      /\ exits' \subseteq Exiting(m) /\ tracked' \subseteq 1..m
  BY <1>1, <1>2, DiesShape DEF ChildDies
<1>4. lease' \in Lease(n, m) \cup {None}
  BY <1>1, SettledByShape DEF ChildDies
<1>5. Shaped(n, m)'
  BY <1>1, <1>3, <1>4 DEF ChildDies, Shaped, Slot
<1> QED
  BY <1>1, <1>3, <1>5, FormedKept DEF ChildDies

LEMMA ExitFormed == ASSUME Formed, NEW x \in exits, Exit(x) PROVE Formed'
<1>1. PICK n \in Nat, m \in Nat : n = Len(home) /\ m = Len(child) /\ Shaped(n, m)
  BY Sizes
<1>2. x \in Exiting(m)
  BY <1>1 DEF Shaped
<1>3. PICK c \in 1..m : c = x.child
  BY <1>2 DEF Exiting
<1>4. PICK t \in Threads : t = child[c].thread
  <2>1. child[c] \in Process
    BY <1>1 DEF Formed
  <2> QED
    BY <2>1 DEF Process
<1>5. record' \in [Threads -> Thread(n, m)] /\ owned' \in [Threads -> 0..m]
  <2>1. record[t] \in Thread(n, m) /\ Cleared(record[t]) \in Thread(n, m) /\ 0 \in 0..m
    BY <1>1, JobShapes, HeldThread
  <2>2. CASE /\ owned' = [owned EXCEPT ![t] = 0]
             /\ Write(t, IF record[t].process = c THEN Cleared(record[t]) ELSE record[t])
    BY <1>1, <2>1, <2>2, WriteShape DEF Shaped
  <2>3. CASE UNCHANGED <<owned, record>>
    BY <1>1, <2>3 DEF Shaped
  <2> QED
    BY <1>3, <1>4, <2>2, <2>3 DEF Exit
<1>6. Slot(lease', pump', stopper', n, m)
  <2>1. CASE Release(pump, stopper)
    <3>1. [stopper EXCEPT !.mine = FALSE] \in Stopping(m) /\ Requested(pump) \in Passes(n, m)
      BY <1>1, TypedSlot DEF Stopping
    <3> QED
      BY <2>1, <3>1, KeepShape DEF Release
  <2>2. CASE Stand
    BY <1>1, <2>2 DEF Stand, Shaped
  <2> QED
    BY <2>1, <2>2 DEF Exit
<1>7. Shaped(n, m)'
  BY <1>1, <1>5, <1>6 DEF Exit, Shaped
<1> QED
  BY <1>1, <1>7, FormedKept DEF Exit, Formed

LEMMA StalledFormed == ASSUME Formed, NEW t \in Threads, Stalled(t) PROVE Formed'
<1>1. PICK n \in Nat, m \in Nat : n = Len(home) /\ m = Len(child) /\ Shaped(n, m)
  BY Sizes
<1>2. record' \in [Threads -> Thread(n, m)]
  BY <1>1, LoadedThread, NotedThread, WriteShape DEF Stalled, Shaped
<1>3. Shaped(n, m)'
  BY <1>1, <1>2 DEF Stalled, Load, slot, adapters, Shaped
<1> QED
  BY <1>1, <1>3, FormedKept DEF Stalled, Formed

LEMMA StopFormed == ASSUME Formed, NEW t \in Threads, Stop(t) PROVE Formed'
<1>1. PICK n \in Nat, m \in Nat : n = Len(home) /\ m = Len(child) /\ Shaped(n, m)
  BY Sizes
<1>2. record' \in [Threads -> Thread(n, m)]
  BY <1>1, LoadedThread, PausedThread, WriteShape DEF Stop, Shaped
<1>3. record[t].process \in 0..m /\ owned[t] \in 0..m
  BY <1>1 DEF Shaped, Thread
<1>4. stopper' \in Stopping(m)
  BY <1>3 DEF Stop, Stopping
<1>5. Shaped(n, m)'
  BY <1>1, <1>2, <1>4 DEF Stop, Load, adapters, Shaped, Slot
<1> QED
  BY <1>1, <1>5, FormedKept DEF Stop, Formed

LEMMA StopUnownedFormed == ASSUME Formed, Staged, StopUnowned PROVE Formed'
<1>1. PICK n \in Nat, m \in Nat : n = Len(home) /\ m = Len(child) /\ Shaped(n, m)
  BY Sizes
<1>2. PICK t \in Threads : t = stopper.thread
  BY <1>1, TypedSlot DEF StopUnowned
<1>3. lease \in Lease(n, m) \cup {None} /\ pump \in Passes(n, m) /\ NoStop \in Stopping(m)
      /\ (stopper.mine => lease \in Lease(n, m))
  BY <1>1, TypedSlot DEF Staged
<1>4. record' \in [Threads -> Thread(n, m)]
  <2>1. PICK r \in Thread(n, m) : r = Loaded(t)
    BY <1>1, LoadedThread DEF Shaped
  <2>2. Noted(r, "none") \in Thread(n, m) /\ Noted(r, "owner") \in Thread(n, m)
        /\ Cleared(r) \in Thread(n, m)
    <3>1. 0 \in 0..m
      OBVIOUS
    <3> QED
      BY <3>1, NotedThread, HeldThread
  <2>3. PICK s \in Thread(n, m) : Write(t, s)
    BY <1>2, <2>1, <2>2 DEF StopUnowned
  <2> QED
    BY <1>1, <2>3, WriteShape DEF Shaped
<1>5. Slot(lease', pump', stopper', n, m)
  <2>1. CASE stopper.mine /\ (Settle(Over(lease), pump, NoStop) \/ Settle(lease, pump, NoStop))
    BY <1>3, <2>1, LeaseShapes, SettleShape
  <2>2. CASE Keep(lease, pump, NoStop)
    BY <1>3, <2>2, KeepShape
  <2> QED
    BY <2>1, <2>2 DEF StopUnowned
<1>6. Shaped(n, m)'
  BY <1>1, <1>2, <1>4, <1>5 DEF StopUnowned, Load, adapters, Shaped
<1> QED
  BY <1>1, <1>6, FormedKept DEF StopUnowned, Formed

LEMMA StopAbortsFormed == ASSUME Formed, StopAborts PROVE Formed'
<1>1. PICK n \in Nat, m \in Nat : n = Len(home) /\ m = Len(child) /\ Shaped(n, m)
  BY Sizes
<1>2. PICK c \in 0..m : c = stopper.child
  BY <1>1, TypedSlot DEF Stopping
<1>3. lease \in Lease(n, m) \cup {None} /\ pump \in Passes(n, m)
      /\ [stopper EXCEPT !.pc = "look"] \in Stopping(m)
  BY <1>1, TypedSlot DEF StopAborts, Stopping
<1>4. \/ Leased(c) /\ Settle(EndOf(c), pump, [stopper EXCEPT !.pc = "look"])
      \/ Keep(lease, pump, [stopper EXCEPT !.pc = "look"])
  BY <1>2 DEF StopAborts
<1>5. child' \in Seq(Process) /\ Len(child') = m
  BY <1>1, <1>2, ChildState DEF StopAborts, Formed, States
<1>6. Slot(lease', pump', stopper', n, m)
  BY <1>1, <1>3, <1>4, SettledByShape, SettleShape, KeepShape
<1>7. Shaped(n, m)'
  BY <1>1, <1>6 DEF StopAborts, adapters, Shaped
<1> QED
  BY <1>1, <1>5, <1>7, FormedKept DEF StopAborts

LEMMA StopLooksFormed == ASSUME Formed, StopLooks PROVE Formed'
<1>1. PICK n \in Nat, m \in Nat : n = Len(home) /\ m = Len(child) /\ Shaped(n, m)
  BY Sizes
<1>2. lease \in Lease(n, m) \cup {None} /\ pump \in Passes(n, m)
      /\ [stopper EXCEPT !.pc = "confirm"] \in Stopping(m)
  BY <1>1, TypedSlot DEF StopLooks, Stopping
<1>3. Slot(lease', pump', stopper', n, m)
  BY <1>2, KeepShape DEF StopLooks
<1>4. Shaped(n, m)'
  BY <1>1, <1>3 DEF StopLooks, durable, adapters, Shaped
<1> QED
  BY <1>1, <1>4, FormedKept DEF StopLooks, durable, Formed

LEMMA StopUncertainFormed == ASSUME Formed, StopUncertain PROVE Formed'
<1>1. PICK n \in Nat, m \in Nat : n = Len(home) /\ m = Len(child) /\ Shaped(n, m)
  BY Sizes
<1>2. PICK t \in Threads : t = stopper.thread
  BY <1>1, TypedSlot DEF StopUncertain
<1>3. lease \in Lease(n, m) \cup {None} /\ pump \in Passes(n, m) /\ NoStop \in Stopping(m)
  BY <1>1, TypedSlot
<1>4. record' \in [Threads -> Thread(n, m)]
  BY <1>1, <1>2, LoadedThread, NotedThread, WriteShape DEF StopUncertain, Shaped
<1>5. Slot(lease', pump', stopper', n, m)
  BY <1>3, KeepShape DEF StopUncertain
<1>6. Shaped(n, m)'
  BY <1>1, <1>2, <1>4, <1>5 DEF StopUncertain, Load, adapters, Shaped
<1> QED
  BY <1>1, <1>6, FormedKept DEF StopUncertain, Formed

LEMMA StopConfirmsFormed == ASSUME Formed, Staged, StopConfirms PROVE Formed'
<1>1. PICK n \in Nat, m \in Nat : n = Len(home) /\ m = Len(child) /\ Shaped(n, m)
  BY Sizes
<1>2. PICK t \in Threads : t = stopper.thread
  BY <1>1, TypedSlot DEF StopConfirms
<1>3. lease \in Lease(n, m) \cup {None} /\ pump \in Passes(n, m) /\ NoStop \in Stopping(m)
      /\ (stopper.mine => lease \in Lease(n, m))
  BY <1>1, TypedSlot DEF Staged
<1>4. record' \in [Threads -> Thread(n, m)]
  BY <1>1, <1>2, LoadedThread, NotedThread, WriteShape DEF StopConfirms, Shaped
<1>5. Slot(lease', pump', stopper', n, m)
  <2>1. CASE stopper.mine /\ Settle(Over(lease), pump, NoStop)
    BY <1>3, <2>1, LeaseShapes, SettleShape
  <2>2. CASE Keep(lease, pump, NoStop)
    BY <1>3, <2>2, KeepShape
  <2> QED
    BY <2>1, <2>2 DEF StopConfirms
<1>6. Shaped(n, m)'
  BY <1>1, <1>2, <1>4, <1>5 DEF StopConfirms, Load, adapters, Shaped
<1> QED
  BY <1>1, <1>6, FormedKept DEF StopConfirms, Formed

LEMMA CrashFormed == ASSUME Formed, Crash PROVE Formed'
<1>1. PICK n \in Nat, m \in Nat : n = Len(home) /\ m = Len(child) /\ Shaped(n, m)
  BY Sizes
<1>2. child' \in Seq(Process) /\ Len(child') = m
  <2>1. child \in [1..m -> Process]
    BY <1>1, LenProperties DEF Formed
  <2>2. ASSUME NEW c \in 1..m PROVE [child[c] EXCEPT !.orphan = TRUE] \in Process
    BY <2>1 DEF Process
  <2>3. child' \in [1..m -> Process]
    BY <1>1, <2>2 DEF Crash
  <2> QED
    BY <1>1, <2>3, SeqDef, LenProperties
<1>3. Resting \in Passes(n, m) /\ NoStop \in Stopping(m) /\ Free \in Jobs(n, m)
      /\ 0 \in 0..m /\ 0 \in 0..n
  BY <1>1, TypedSlot, PassShapes, FreeShape
<1>4. Shaped(n, m)'
  BY <1>1, <1>3 DEF Crash, Shaped, Slot
<1> QED
  BY <1>1, <1>2, <1>4, FormedKept DEF Crash

LEMMA DirectoryFormed == ASSUME Formed, NEW t \in Threads, Directory(t) PROVE Formed'
<1>1. PICK n \in Nat, m \in Nat : n = Len(home) /\ m = Len(child) /\ Shaped(n, m)
  BY Sizes
<1>2. Shaped(n, m)'
  BY <1>1 DEF Directory, slot, adapters, Shaped
<1> QED
  BY <1>1, <1>2, FormedKept DEF Directory, Formed

-------------------------------------------------------------------------------
(* One process per thread, and a place for each. *)

Placed == Single /\ Counted /\ Housed

\* Children change state or die; one that was installed is counted no more then.
Aging ==
  /\ Len(child') = Len(child)
  /\ \A c \in 1..Len(child) :
       /\ child'[c].thread = child[c].thread /\ child'[c].orphan = child[c].orphan
       /\ child[c].state = "dead" => child'[c].state = "dead"
       /\ child'[c].state = "starting" => child[c].state = "starting"
       /\ c \in tracked /\ c \notin tracked' => child'[c].state = "dead"
       /\ child'[c].state = "dead" /\ child[c].state \in {"idle", "busy"} /\ ~child[c].orphan =>
            c \notin tracked'
  /\ tracked' \subseteq tracked

\* Jobs go on without a new child, and without a new place.
Going ==
  \A t \in Threads :
    /\ job'[t].pc \in Seeking => job[t].pc \in Seeking
    /\ job'[t].pc \in Starting => job[t].pc \in Starting /\ job'[t].child = job[t].child
Advancing == Going /\ \A t \in Threads : job'[t].pc = "spawn" => job[t].pc = "spawn"

LEMMA AgingAlive ==
  ASSUME Formed, Aging
  PROVE  /\ \A c \in 1..Len(child) : Alive(c)' => Alive(c)
         /\ \A t : LiveOf(t)' \subseteq LiveOf(t)
<1>1. Len(child) \in Nat
  BY DEF Formed
<1>2. \A c \in 1..Len(child) : Alive(c)' => Alive(c)
  BY DEF Aging, Alive
<1> QED
  BY <1>1, <1>2 DEF LiveOf, Aging

LEMMA AgingSingle == ASSUME Formed, Formed', Single, Aging, Going PROVE Single'
<1>1. Len(child') = Len(child) /\ \A c \in 1..Len(child) :
        child'[c].thread = child[c].thread /\ child'[c].orphan = child[c].orphan
  BY DEF Aging
<1>2. \A c, d \in 1..Len(child') :
        child'[c].thread = child'[d].thread /\ Alive(c)' /\ Alive(d)' => c = d
  BY <1>1, AgingAlive DEF Single
<1>3. \A t \in Threads : job'[t].pc \in Seeking => LiveOf(t)' = {}
  BY AgingAlive DEF Single, Going
<1>4. ASSUME NEW t \in Threads, job'[t].pc \in Starting
      PROVE  LET c == job'[t].child
             IN c # 0 /\ child'[c].thread = t /\ ~child'[c].orphan /\ LiveOf(t)' \subseteq {c}
  <2>1. PICK c : c = job[t].child /\ c = job'[t].child
    BY <1>4 DEF Going
  <2>2. c # 0 /\ child[c].thread = t /\ ~child[c].orphan /\ LiveOf(t) \subseteq {c}
    BY <1>4, <2>1 DEF Single, Going
  <2>3. c \in 1..Len(child)
    <3>1. PICK n \in Nat, m \in Nat : n = Len(home) /\ m = Len(child) /\ Shaped(n, m)
      BY Sizes
    <3>2. job[t].child \in 0..m
      BY <3>1, JobShapes
    <3> QED
      BY <2>1, <2>2, <3>1, <3>2
  <2> QED
    BY <1>1, <2>1, <2>2, <2>3, AgingAlive
<1> QED
  BY <1>2, <1>3, <1>4 DEF Single

LEMMA AgingHomed ==
  ASSUME Formed, Aging, NEW c, NEW t, Homed(c, t)
  PROVE  Homed(c, t)'
<1>1. c \in 1..Len(child) /\ child[c].thread = t /\ ~child[c].orphan
      /\ child[c].state # "starting" /\ (child[c].state = "dead" => c \notin tracked)
  BY DEF Homed
<1>2. child[c] \in Process
  BY <1>1 DEF Formed
<1>3. child[c].state \in {"idle", "busy", "dead"}
  BY <1>1, <1>2 DEF Process, States
<1> QED
  BY <1>1, <1>3 DEF Homed, Aging

LEMMA AgingHoused ==
  ASSUME Formed, Housed, Aging,
         \A t \in Threads : owned'[t] \in {0, owned[t]} \/ Homed(owned[t], t)',
         \A k \in retire' : \/ \E l \in retire : l.child = k.child /\ l.thread = k.thread
                           \/ Homed(k.child, k.thread)'
  PROVE  Housed'
<1>1. ASSUME NEW t \in Threads, owned'[t] # 0 PROVE Homed(owned[t], t)'
  <2>1. CASE owned'[t] = owned[t]
    <3>1. PICK c : c = owned[t] /\ c = owned'[t]
      BY <2>1
    <3>2. Homed(c, t)'
      BY <1>1, <3>1, AgingHomed DEF Housed
    <3> QED
      BY <3>1, <3>2 DEF Homed
  <2> QED
    BY <1>1, <2>1
<1>2. ASSUME NEW k \in retire' PROVE Homed(k.child, k.thread)'
  <2>1. CASE \E l \in retire : l.child = k.child /\ l.thread = k.thread
    <3>1. Homed(k.child, k.thread)
      BY <2>1 DEF Housed
    <3> QED
      BY <3>1, AgingHomed
  <2> QED
    BY <2>1
<1> QED
  BY <1>1, <1>2 DEF Housed

\* The counts of children and of reserved places.
LEMMA Fewer ==
  ASSUME NEW S, NEW T, IsFiniteSet(T), S \subseteq T
  PROVE  /\ IsFiniteSet(S) /\ Cardinality(S) \in Nat /\ Cardinality(T) \in Nat
         /\ Cardinality(S) <= Cardinality(T)
  BY FS_Subset, FS_CardinalityType

LEMMA ReservedCounted ==
  ASSUME Formed, Formed', Counted, Aging, Reserved' \subseteq Reserved, retire' \subseteq retire,
         \A k \in retire' : k.for # None => job'[k.for].pc = job[k.for].pc
  PROVE  Counted'
<1>1. tracked' \subseteq tracked /\ Reserved' \subseteq Reserved
  BY DEF Aging
<1>2. /\ IsFiniteSet(tracked') /\ Cardinality(tracked') \in Nat /\ Cardinality(tracked) \in Nat
      /\ Cardinality(tracked') <= Cardinality(tracked)
  BY <1>1, Fewer DEF Counted
<1>3. /\ IsFiniteSet(Reserved') /\ Cardinality(Reserved') \in Nat /\ Cardinality(Reserved) \in Nat
      /\ Cardinality(Reserved') <= Cardinality(Reserved)
  BY <1>1, Fewer DEF Counted
<1>4. MaxOwned \in Nat
  BY DiscussionAssumption
<1>5. Cardinality(tracked') + Cardinality(Reserved') <= MaxOwned
  BY <1>2, <1>3, <1>4 DEF Counted
<1>6. \A c \in 1..Len(child') : Alive(c)' /\ ~child'[c].orphan => c \in tracked'
  BY AgingAlive DEF Counted, Aging, Alive
<1>7. ASSUME NEW k \in retire', k.for # None
      PROVE  /\ job'[k.for].pc = "evicting"
             /\ Cardinality(tracked' \ {k.child}) + Cardinality(Reserved') < MaxOwned
  <2>1. /\ job[k.for].pc = "evicting"
        /\ Cardinality(tracked \ {k.child}) + Cardinality(Reserved) < MaxOwned
    BY <1>7 DEF Counted
  <2>2. IsFiniteSet(tracked \ {k.child}) /\ tracked' \ {k.child} \subseteq tracked \ {k.child}
    BY <1>1, FS_Subset DEF Counted
  <2>3. /\ Cardinality(tracked' \ {k.child}) \in Nat /\ Cardinality(tracked \ {k.child}) \in Nat
        /\ Cardinality(tracked' \ {k.child}) <= Cardinality(tracked \ {k.child})
    BY <2>2, Fewer
  <2> QED
    BY <1>3, <1>4, <1>7, <2>1, <2>3
<1>8. \A k, l \in retire' : k.for # None /\ l.for # None => k = l
  BY DEF Counted
<1> QED
  BY <1>2, <1>3, <1>5, <1>6, <1>7, <1>8 DEF Counted

\* Most steps: no child is started or installed, no place is given away.
LEMMA PlacedKept ==
  ASSUME Formed, Formed', Placed, Aging, Advancing, retire' \subseteq retire,
         \A t \in Threads : owned'[t] \in {0, owned[t]} \/ Homed(owned[t], t)',
         \A k \in retire' : k.for # None => job'[k.for].pc = job[k.for].pc
  PROVE  Placed'
<1>1. Reserved' \subseteq Reserved
  BY DEF Advancing, Reserved
<1>2. Single'
  BY AgingSingle DEF Placed, Advancing
<1>3. Counted'
  BY <1>1, ReservedCounted DEF Placed
<1>4. Housed'
  BY AgingHoused DEF Placed
<1> QED
  BY <1>2, <1>3, <1>4 DEF Placed

LEMMA AgingSame == ASSUME UNCHANGED <<child, tracked>>, Placed PROVE Aging
  BY DEF Aging, Formed, Counted, Process, States

\* Two ways in which children age: one changes state among the living, one dies.
LEMMA AgingLives ==
  ASSUME Formed, Placed, NEW c \in 1..Len(child), NEW s \in {"idle", "busy"},
         Alive(c), child' = [child EXCEPT ![c].state = s],
         UNCHANGED tracked
  PROVE  Aging
<1>1. /\ Len(child') = Len(child)
      /\ \A d \in 1..Len(child) :
           /\ child'[d].thread = child[d].thread /\ child'[d].orphan = child[d].orphan
           /\ child'[d].state = IF d = c THEN s ELSE child[d].state
  BY ChildState DEF Formed, States
<1>2. \A d \in 1..Len(child) : child[d].state = "dead" => d # c
  BY DEF Alive
<1> QED
  BY <1>1, <1>2 DEF Aging

LEMMA AgingDies ==
  ASSUME Formed, Placed, NEW c \in 1..Len(child), Alive(c), Dies(c)
  PROVE  Aging
<1>1. /\ Len(child') = Len(child)
      /\ \A d \in 1..Len(child) :
           /\ child'[d].thread = child[d].thread /\ child'[d].orphan = child[d].orphan
           /\ child'[d].state = IF d = c THEN "dead" ELSE child[d].state
  BY ChildState DEF Formed, States, Dies
<1>2. tracked' = IF Installed(c) THEN tracked \ {c} ELSE tracked
  BY DEF Dies
<1> QED
  BY <1>1, <1>2 DEF Aging, Installed

\* The jobs of most steps: all as they were, or one that asks, goes on or is over.
LEMMA JobsSame ==
  ASSUME UNCHANGED job, retire' \subseteq retire
  PROVE  Advancing /\ \A k \in retire' : k.for # None => job'[k.for].pc = job[k.for].pc
  BY DEF Advancing, Going

LEMMA JobsMoved ==
  ASSUME Formed, Placed, NEW t \in Threads, NEW e, job' = [job EXCEPT ![t] = e],
         job[t].pc # "evicting", retire' \subseteq retire,
         e.pc \in Seeking => job[t].pc \in Seeking,
         e.pc = "spawn" => job[t].pc = "spawn",
         e.pc \in Starting => job[t].pc \in Starting /\ e.child = job[t].child
  PROVE  Advancing /\ \A k \in retire' : k.for # None => job'[k.for].pc = job[k.for].pc
<1>1. \A u \in Threads : job'[u] = IF u = t THEN e ELSE job[u]
  BY DEF Formed, Shaped
<1>2. \A k \in retire : k.for # None => k.for \in Threads /\ k.for # t
  BY DEF Formed, Shaped, Retiring, Placed, Counted
<1> QED
  BY <1>1, <1>2 DEF Advancing, Going

LEMMA JobOver ==
  ASSUME Formed, Placed, NEW t \in Threads, job' = [job EXCEPT ![t] = Free],
         job[t].pc # "evicting", retire' \subseteq retire
  PROVE  Advancing /\ \A k \in retire' : k.for # None => job'[k.for].pc = job[k.for].pc
  BY JobsMoved DEF Free, Seeking, Starting

LEMMA GotoMoves ==
  ASSUME Formed, NEW t \in Threads, NEW pc, NEW c, Goto(t, pc, c)
  PROVE  \E e : job' = [job EXCEPT ![t] = e] /\ e.pc = pc /\ e.child = c
<1>1. job[t] \in Jobs(Len(home), Len(child))
  BY DEF Formed, Shaped
<1>2. PICK e : e = [[job[t] EXCEPT !.pc = pc] EXCEPT !.child = c]
  OBVIOUS
<1>3. e.pc = pc /\ e.child = c
  BY <1>1, <1>2 DEF Jobs
<1>4. job' = [job EXCEPT ![t] = e]
  BY <1>2 DEF Goto, Formed, Shaped
<1> QED
  BY <1>3, <1>4

\* A step that leaves children, places and jobs alone.
LEMMA AsidePlaced ==
  ASSUME Formed, Formed', Placed, UNCHANGED <<child, tracked, retire, owned, job>>
  PROVE  Placed'
<1>1. Aging
  BY AgingSame
<1>2. Advancing /\ \A k \in retire' : k.for # None => job'[k.for].pc = job[k.for].pc
  BY JobsSame
<1> QED
  BY <1>1, <1>2, PlacedKept

LEMMA OverPlaced ==
  ASSUME Formed, Formed', Placed, UNCHANGED <<child, tracked, retire, owned>>,
         NEW t \in Threads, job' = [job EXCEPT ![t] = Free], job[t].pc # "evicting"
  PROVE  Placed'
<1>1. Aging
  BY AgingSame
<1>2. Advancing /\ \A k \in retire' : k.for # None => job'[k.for].pc = job[k.for].pc
  BY JobOver
<1> QED
  BY <1>1, <1>2, PlacedKept

LEMMA AskedPlaced ==
  ASSUME Formed, Formed', Placed, UNCHANGED <<child, tracked, retire, owned>>, NEW t \in Threads,
         NEW for, NEW id, UNCHANGED job \/ job' = [job EXCEPT ![t] = Asked(for, id)], ~Locked(t)
  PROVE  Placed'
<1>1. Aging
  BY AgingSame
<1>2. Advancing /\ \A k \in retire' : k.for # None => job'[k.for].pc = job[k.for].pc
  BY JobsSame, JobsMoved DEF Asked, Locked, Seeking, Starting
<1> QED
  BY <1>1, <1>2, PlacedKept

\* A thread that finds no process of its own begins to look for a place.
LEMMA SeekPlaced ==
  ASSUME Formed, Formed', Placed, Aging, NEW t \in Threads, job[t].pc = "check",
         Goto(t, "capacity", 0), LiveOf(t)' = {}, UNCHANGED retire,
         \A u \in Threads : owned'[u] \in {0, owned[u]}
  PROVE  Placed'
<1>1. PICK e : job' = [job EXCEPT ![t] = e] /\ e.pc = "capacity" /\ e.child = 0
  BY GotoMoves
<1>2. \A u \in Threads : job'[u] = IF u = t THEN e ELSE job[u]
  BY <1>1 DEF Formed, Shaped
<1>3. Len(child') = Len(child) /\ \A c \in 1..Len(child) :
        child'[c].thread = child[c].thread /\ child'[c].orphan = child[c].orphan
  BY DEF Aging
<1>4. Single'
  <2>1. \A c, d \in 1..Len(child') :
          child'[c].thread = child'[d].thread /\ Alive(c)' /\ Alive(d)' => c = d
    BY <1>3, AgingAlive DEF Placed, Single
  <2>2. \A u \in Threads : job'[u].pc \in Seeking => LiveOf(u)' = {}
    BY <1>2, AgingAlive DEF Placed, Single
  <2>3. ASSUME NEW u \in Threads, job'[u].pc \in Starting
        PROVE  LET c == job'[u].child
               IN c # 0 /\ child'[c].thread = u /\ ~child'[c].orphan /\ LiveOf(u)' \subseteq {c}
    <3>1. u # t /\ job'[u] = job[u]
      BY <1>1, <1>2, <2>3 DEF Starting
    <3>2. PICK c : c = job[u].child
      OBVIOUS
    <3>3. c # 0 /\ child[c].thread = u /\ ~child[c].orphan /\ LiveOf(u) \subseteq {c}
      BY <2>3, <3>1, <3>2 DEF Placed, Single
    <3>4. c \in 1..Len(child)
      <4>1. PICK n \in Nat, m \in Nat : n = Len(home) /\ m = Len(child) /\ Shaped(n, m)
        BY Sizes
      <4>2. job[u].child \in 0..m
        BY <4>1, JobShapes
      <4> QED
        BY <3>2, <3>3, <4>1, <4>2
    <3> QED
      BY <1>3, <3>1, <3>2, <3>3, <3>4, AgingAlive
  <2> QED
    BY <2>1, <2>2, <2>3 DEF Single
<1>5. Counted'
  <2>1. /\ \A k \in retire' : k.for # None => job'[k.for].pc = job[k.for].pc
        /\ Reserved' \subseteq Reserved
    BY <1>1, <1>2 DEF Placed, Counted, Formed, Shaped, Retiring, Reserved
  <2> QED
    BY <2>1, ReservedCounted DEF Placed
<1>6. Housed'
  BY AgingHoused DEF Placed
<1> QED
  BY <1>4, <1>5, <1>6 DEF Placed

\* What ends a job frees its lock.
LEMMA JobEnds ==
  ASSUME NEW t \in Threads, NEW r, NEW c, Return(t, r, c) \/ Throw(t, r, c)
  PROVE  job' = [job EXCEPT ![t] = Free]
  BY DEF Return, Throw

LEMMA SendPlaced == ASSUME Formed, Formed', Placed, NEW t \in Threads, Send(t) PROVE Placed'
<1>1. /\ UNCHANGED <<child, tracked, retire, owned>> /\ ~Locked(t)
      /\ \E for, id : UNCHANGED job \/ job' = [job EXCEPT ![t] = Asked(for, id)]
  BY DEF Send, adapters
<1> QED
  BY <1>1, AskedPlaced

LEMMA ResumePlaced == ASSUME Formed, Formed', Placed, NEW t \in Threads, Resume(t) PROVE Placed'
<1>1. /\ UNCHANGED <<child, tracked, retire, owned>> /\ ~Locked(t)
      /\ job' = [job EXCEPT ![t] = Asked("resume", 0)]
  BY DEF Resume, adapters, durable
<1> QED
  BY <1>1, AskedPlaced

LEMMA StagePlaced == ASSUME Formed, Formed', Placed, NEW t \in Threads, Stage(t) PROVE Placed'
<1>1. /\ UNCHANGED <<child, tracked, retire, owned>> /\ ~Locked(t)
      /\ \E for, id : UNCHANGED job \/ job' = [job EXCEPT ![t] = Asked(for, id)]
  BY DEF Stage, adapters
<1> QED
  BY <1>1, AskedPlaced

\* The steps that leave the children, their places and the jobs alone.
LEMMA QuietPlaced ==
  ASSUME Formed, Formed', Placed,
         \/ \E t \in Threads : Discard(t) \/ Stalled(t) \/ Stop(t) \/ Directory(t)
         \/ Busy \/ Judge \/ Ack \/ StopUnowned \/ StopLooks \/ StopUncertain \/ StopConfirms
  PROVE  Placed'
<1>1. CASE \E t \in Threads : Discard(t)
  BY <1>1, AsidePlaced DEF Discard, adapters
<1>2. CASE \E t \in Threads : Stalled(t)
  BY <1>2, AsidePlaced DEF Stalled, adapters
<1>3. CASE \E t \in Threads : Stop(t)
  BY <1>3, AsidePlaced DEF Stop, adapters
<1>4. CASE \E t \in Threads : Directory(t)
  BY <1>4, AsidePlaced DEF Directory, adapters
<1>5. CASE Busy
  BY <1>5, AsidePlaced DEF Busy, adapters, durable
<1>6. CASE Judge
  BY <1>6, AsidePlaced DEF Judge, adapters
<1>7. CASE Ack
  BY <1>7, AsidePlaced DEF Ack, adapters
<1>8. CASE StopUnowned
  BY <1>8, AsidePlaced DEF StopUnowned, adapters
<1>9. CASE StopConfirms
  BY <1>9, AsidePlaced DEF StopConfirms, adapters
<1>10. CASE StopLooks
  BY <1>10, AsidePlaced DEF StopLooks, adapters, durable
<1>11. CASE StopUncertain
  BY <1>11, AsidePlaced DEF StopUncertain, adapters
<1> QED
  BY <1>1, <1>2, <1>3, <1>4, <1>5, <1>6, <1>7, <1>8, <1>9, <1>10, <1>11

\* A step that moves a child among the living, or in which one dies.
LEMMA LivesPlaced ==
  ASSUME Formed, Formed', Placed, Aging, UNCHANGED <<retire, job>>,
         \A t \in Threads : owned'[t] \in {0, owned[t]}
  PROVE  Placed'
<1>1. Advancing /\ \A k \in retire' : k.for # None => job'[k.for].pc = job[k.for].pc
  BY JobsSame
<1> QED
  BY <1>1, PlacedKept

LEMMA SettledPlaced == ASSUME Formed, Formed', Placed, NEW c \in 1..Len(child), Settled(c) PROVE Placed'
<1>1. /\ child[c].state = "busy" /\ child' = [child EXCEPT ![c].state = "idle"]
      /\ UNCHANGED <<tracked, retire, owned, job>>
  BY DEF Settled, adapters
<1>2. Len(child) \in Nat /\ Alive(c)
  BY <1>1 DEF Formed, Alive
<1>3. Aging
  BY <1>1, <1>2, AgingLives
<1> QED
  BY <1>1, <1>3, LivesPlaced

LEMMA ChildDiesPlaced ==
  ASSUME Formed, Formed', Placed, NEW c \in 1..Len(child), ChildDies(c) PROVE Placed'
<1>1. Alive(c) /\ Dies(c) /\ UNCHANGED <<retire, owned, job>>
  BY DEF ChildDies
<1>2. Aging
  BY <1>1, AgingDies
<1> QED
  BY <1>1, <1>2, LivesPlaced

LEMMA ExitPlaced == ASSUME Formed, Formed', Placed, NEW x \in exits, Exit(x) PROVE Placed'
<1>1. UNCHANGED <<child, tracked, retire, job>>
  BY DEF Exit
<1>2. \A t \in Threads : owned'[t] \in {0, owned[t]}
  BY DEF Exit, Formed, Shaped
<1>3. Aging
  BY <1>1, AgingSame
<1> QED
  BY <1>1, <1>2, <1>3, LivesPlaced

LEMMA PromptPlaced == ASSUME Formed, Formed', Placed, Prompt PROVE Placed'
<1>1. UNCHANGED <<tracked, retire, owned, job>>
  BY DEF Prompt, adapters
<1>2. \/ UNCHANGED child
      \/ Alive(pump.child) /\ child' = [child EXCEPT ![pump.child].state = "busy"]
  BY DEF Prompt
<1>3. CASE UNCHANGED child
  BY <1>1, <1>3, AsidePlaced
<1>4. CASE Alive(pump.child) /\ child' = [child EXCEPT ![pump.child].state = "busy"]
  <2>1. pump.child \in 1..Len(child)
    BY <1>4 DEF Alive, Formed, Shaped, Slot, Passes
  <2>2. Aging
    BY <1>1, <1>4, <2>1, AgingLives
  <2> QED
    BY <1>1, <2>2, LivesPlaced
<1> QED
  BY <1>2, <1>3, <1>4

LEMMA StopAbortsPlaced == ASSUME Formed, Formed', Placed, StopAborts PROVE Placed'
<1>1. UNCHANGED <<tracked, retire, owned, job>>
  BY DEF StopAborts, adapters
<1>2. Alive(stopper.child) /\ child' = [child EXCEPT ![stopper.child].state = "idle"]
  BY DEF StopAborts
<1>3. stopper.child \in 1..Len(child)
  BY <1>2 DEF Alive, Formed, Shaped, Slot, Stopping
<1>4. Aging
  BY <1>1, <1>2, <1>3, AgingLives
<1> QED
  BY <1>1, <1>4, LivesPlaced

LEMMA PinPlaced == ASSUME Formed, Formed', Placed, NEW t \in Threads, Pin(t) PROVE Placed'
<1>1. job' = [job EXCEPT ![t] = Free] /\ UNCHANGED <<child, tracked, retire, owned>> /\ job[t].pc = "pin"
  BY JobEnds DEF Pin, adapters
<1> QED
  BY <1>1, OverPlaced

\* A child that was started for a job is closed, and the job is over.
LEMMA ClosedPlaced ==
  ASSUME Formed, Formed', Placed, NEW c \in 1..Len(child), child' = [child EXCEPT ![c].state = "dead"],
         tracked' = tracked \ {c}, UNCHANGED <<owned, retire>>,
         NEW t \in Threads, job' = [job EXCEPT ![t] = Free], job[t].pc # "evicting"
  PROVE  Placed'
<1>1. /\ Len(child') = Len(child)
      /\ \A d \in 1..Len(child) :
           /\ child'[d].thread = child[d].thread /\ child'[d].orphan = child[d].orphan
           /\ child'[d].state = IF d = c THEN "dead" ELSE child[d].state
  BY ChildState DEF Formed, States
<1>2. Aging
  <2>1. ASSUME NEW d \in 1..Len(child), child'[d].state = "dead", child[d].state \in {"idle", "busy"}
        PROVE d \notin tracked'
    BY <1>1, <2>1
  <2> QED
    BY <1>1, <2>1 DEF Aging
<1>3. Advancing /\ \A k \in retire' : k.for # None => job'[k.for].pc = job[k.for].pc
  BY JobOver
<1> QED
  BY <1>2, <1>3, PlacedKept

LEMMA RecordChildPlaced == ASSUME Formed, Formed', Placed, NEW t \in Threads, RecordChild(t) PROVE Placed'
<1>1. PICK n \in Nat, m \in Nat : n = Len(home) /\ m = Len(child) /\ Shaped(n, m)
  BY Sizes
<1>2. PICK c \in 1..m : c = job[t].child
  <2>1. job[t].child \in 0..m
    BY <1>1, JobShapes
  <2>2. job[t].child # 0
    BY DEF RecordChild, Placed, Single, Starting
  <2> QED
    BY <2>1, <2>2
<1>3. job[t].pc = "record" /\ UNCHANGED <<retire, owned>>
  BY DEF RecordChild
<1>4. CASE Goto(t, "handshake", c) /\ UNCHANGED <<child, tracked>>
  <2>1. PICK e : job' = [job EXCEPT ![t] = e] /\ e.pc = "handshake" /\ e.child = job[t].child
    BY <1>2, <1>4, GotoMoves
  <2>2. Advancing /\ \A k \in retire' : k.for # None => job'[k.for].pc = job[k.for].pc
    BY <1>3, <1>4, <2>1, JobsMoved DEF Starting, Seeking
  <2>3. Aging
    BY <1>4, AgingSame
  <2> QED
    BY <1>3, <2>2, <2>3, PlacedKept
<1>5. CASE /\ job' = [job EXCEPT ![t] = Free] /\ child' = [child EXCEPT ![c].state = "dead"]
           /\ tracked' = tracked \ {c}
  BY <1>1, <1>3, <1>5, ClosedPlaced
<1>6. CASE job' = [job EXCEPT ![t] = Free] /\ UNCHANGED <<child, tracked>>
  BY <1>3, <1>6, OverPlaced
<1> QED
  BY <1>2, <1>4, <1>5, <1>6 DEF RecordChild, Throw

LEMMA CheckPlaced == ASSUME Formed, Formed', Placed, NEW t \in Threads, Check(t) PROVE Placed'
<1>1. PICK n \in Nat, m \in Nat : n = Len(home) /\ m = Len(child) /\ Shaped(n, m)
  BY Sizes
<1>2. PICK c \in 0..m : c = owned[t]
  BY <1>1 DEF Shaped
<1>3. job[t].pc = "check" /\ UNCHANGED retire
  BY DEF Check
<1>4. CASE /\ UNCHANGED <<child, tracked, owned>>
           /\ job' = [job EXCEPT ![t] = Free]
  BY <1>3, <1>4, OverPlaced
<1>5. CASE UNCHANGED <<child, tracked, owned>> /\ Goto(t, "pin", c)
  <2>1. PICK e : job' = [job EXCEPT ![t] = e] /\ e.pc = "pin"
    BY <1>5, GotoMoves
  <2>2. Advancing /\ \A k \in retire' : k.for # None => job'[k.for].pc = job[k.for].pc
    BY <1>3, <2>1, JobsMoved DEF Starting, Seeking
  <2>3. Aging
    BY <1>5, AgingSame
  <2> QED
    BY <1>3, <1>5, <2>2, <2>3, PlacedKept
<1>6. CASE /\ c # 0 /\ Alive(c) /\ Dies(c) /\ Goto(t, "capacity", 0)
           /\ owned' = [owned EXCEPT ![t] = 0]
  <2>1. c \in 1..Len(child)
    BY <1>1, <1>6
  <2>2. Aging
    BY <1>6, <2>1, AgingDies
  <2>3. child[c].thread = t
    BY <1>2, <1>6 DEF Placed, Housed, Homed
  <2>4. LiveOf(t)' = {}
    <3>1. ASSUME NEW d \in LiveOf(t)' PROVE FALSE
      <4>1. d \in LiveOf(t)
        BY <2>2, AgingAlive
      <4>2. d = c
        BY <1>6, <2>1, <2>3, <4>1 DEF LiveOf, Placed, Single
      <4>3. child'[c].state = "dead"
        BY <1>6, <2>1, ChildState DEF Dies, Formed, States
      <4> QED
        BY <4>2, <4>3 DEF LiveOf, Alive
    <3> QED
      BY <3>1
  <2>5. \A u \in Threads : owned'[u] \in {0, owned[u]}
    BY <1>1, <1>6 DEF Shaped
  <2> QED
    BY <1>3, <1>6, <2>2, <2>4, <2>5, SeekPlaced
<1>7. CASE UNCHANGED <<child, tracked, owned>> /\ ~Stranger(t) /\ Goto(t, "capacity", 0)
  <2>1. Aging
    BY <1>7, AgingSame
  <2>2. LiveOf(t)' = {}
    BY <1>7, <2>1, AgingAlive DEF Stranger
  <2> QED
    BY <1>3, <1>7, <2>1, <2>2, SeekPlaced
<1> QED
  BY <1>2, <1>4, <1>5, <1>6, <1>7, JobEnds DEF Check, adapters

\* A place that is promised.
LEMMA OneMore ==
  ASSUME NEW t, NEW S, NEW T, IsFiniteSet(S), T = S \cup {t}
  PROVE  /\ IsFiniteSet(T) /\ Cardinality(S) \in Nat /\ Cardinality(T) \in Nat
         /\ Cardinality(T) <= Cardinality(S) + 1
  BY FS_AddElement, FS_CardinalityType, SMTT(30)

LEMMA CapacityPlaced == ASSUME Formed, Formed', Placed, NEW t \in Threads, Capacity(t) PROVE Placed'
<1>1. UNCHANGED <<child, tracked, owned>> /\ job[t].pc = "capacity" /\ \A k \in retire : k.for = None
  BY DEF Capacity, adapters
<1>2. Aging
  BY <1>1, AgingSame
<1>3. MaxOwned \in Nat /\ t # None
  BY DiscussionAssumption
<1>4. CASE job' = [job EXCEPT ![t] = Free] /\ UNCHANGED retire
  BY <1>1, <1>4, OverPlaced
<1>5. CASE Room /\ Goto(t, "spawn", 0) /\ UNCHANGED retire
  <2>1. PICK e : job' = [job EXCEPT ![t] = e] /\ e.pc = "spawn"
    BY <1>5, GotoMoves
  <2>2. \A u \in Threads : job'[u] = IF u = t THEN e ELSE job[u]
    BY <2>1 DEF Formed, Shaped
  <2>3. Going
    BY <1>1, <2>1, <2>2 DEF Going, Seeking, Starting
  <2>4. Single' /\ Housed'
    BY <1>1, <1>2, <1>5, <2>3, AgingSingle, AgingHoused DEF Placed
  <2>5. Reserved' = Reserved \cup {t}
    BY <2>1, <2>2 DEF Reserved
  <2>6. IsFiniteSet(Reserved)
    BY DEF Placed, Counted
  <2>7. /\ IsFiniteSet(Reserved') /\ Cardinality(Reserved) \in Nat /\ Cardinality(Reserved') \in Nat
        /\ Cardinality(Reserved') <= Cardinality(Reserved) + 1
    BY <2>5, <2>6, OneMore
  <2>8. IsFiniteSet(tracked) /\ Cardinality(tracked) \in Nat
    BY FS_CardinalityType DEF Placed, Counted
  <2>9. Cardinality(tracked') + Cardinality(Reserved') <= MaxOwned
    BY <1>1, <1>3, <1>5, <2>7, <2>8 DEF Room
  <2>10. Counted'
    BY <1>1, <1>5, <2>7, <2>8, <2>9 DEF Counted, Placed, Alive
  <2> QED
    BY <2>4, <2>10 DEF Placed
<1>6. CASE /\ ~Room /\ Goto(t, "evicting", 0)
           /\ \E u \in Threads :
                /\ Retirable(u)
                /\ retire' = retire \cup {[thread |-> u, child |-> owned[u], for |-> t, pc |-> "judged"]}
  <2>1. PICK e : job' = [job EXCEPT ![t] = e] /\ e.pc = "evicting"
    BY <1>6, GotoMoves
  <2>2. \A u \in Threads : job'[u] = IF u = t THEN e ELSE job[u]
    BY <2>1 DEF Formed, Shaped
  <2>3. Going
    BY <1>1, <2>1, <2>2 DEF Going, Seeking, Starting
  <2>4. PICK u \in Threads : /\ Retirable(u)
                             /\ retire' = retire \cup {[thread |-> u, child |-> owned[u],
                                                        for |-> t, pc |-> "judged"]}
    BY <1>6
  <2>5. PICK c : c = owned[u]
    OBVIOUS
  <2>6. Homed(c, u) /\ child[c].state = "idle"
    BY <2>4, <2>5 DEF Retirable, Placed, Housed
  <2>7. \A k \in retire' : k \in retire \/ (k.child = c /\ k.thread = u /\ k.for = t)
    BY <2>4, <2>5
  <2>8. Single'
    BY <1>2, <2>3, AgingSingle DEF Placed
  <2>9. Housed'
    <3>1. Homed(c, u)'
      BY <1>2, <2>6, AgingHomed
    <3> QED
      BY <1>1, <1>2, <2>7, <3>1, AgingHoused DEF Placed
  <2>10. c \in tracked
    BY <2>6 DEF Homed, Placed, Counted, Alive
  <2>11. Reserved' = Reserved
    BY <1>1, <2>1, <2>2 DEF Reserved
  <2>12. /\ IsFiniteSet(tracked) /\ Cardinality(tracked) \in Nat
         /\ IsFiniteSet(Reserved) /\ Cardinality(Reserved) \in Nat
         /\ Cardinality(tracked) + Cardinality(Reserved) <= MaxOwned
    BY FS_CardinalityType DEF Placed, Counted
  <2>13. Cardinality(tracked \ {c}) = Cardinality(tracked) - 1
    BY <2>10, <2>12, FS_RemoveElement
  <2>14. Cardinality(tracked \ {c}) + Cardinality(Reserved) < MaxOwned
    BY <1>3, <2>12, <2>13
  <2>15. \A k \in retire' : k.for # None =>
           /\ k.for = t /\ k.child = c /\ k.thread = u /\ k.pc = "judged"
           /\ k = [thread |-> u, child |-> c, for |-> t, pc |-> "judged"]
    BY <1>1, <2>4, <2>5
  <2>16. \A k \in retire' : k.for # None =>
           /\ job'[k.for].pc = "evicting"
           /\ Cardinality(tracked' \ {k.child}) + Cardinality(Reserved') < MaxOwned
    BY <1>1, <2>1, <2>2, <2>11, <2>14, <2>15
  <2>17. \A k, l \in retire' : k.for # None /\ l.for # None => k = l
    BY <2>15
  <2>18. \A d \in 1..Len(child') : Alive(d)' /\ ~child'[d].orphan => d \in tracked'
    BY <1>1 DEF Alive, Placed, Counted
  <2>19. Counted'
    BY <1>1, <2>11, <2>12, <2>16, <2>17, <2>18 DEF Counted
  <2> QED
    BY <2>8, <2>9, <2>19 DEF Placed
<1> QED
  BY <1>4, <1>5, <1>6, JobEnds DEF Capacity

\* A child is started: it takes the place its job was promised.
LEMMA Started ==
  ASSUME Formed, NEW t \in Threads, NEW p \in Process, p.thread = t, p.state = "starting", ~p.orphan,
         child' = Append(child, p)
  PROVE  /\ Len(child) \in Nat /\ Len(child') = Len(child) + 1
         /\ \A c \in 1..Len(child) : c \in 1..Len(child') /\ child'[c] = child[c] /\ (Alive(c)' <=> Alive(c))
         /\ child'[Len(child) + 1] = p
         /\ \A c \in 1..Len(child') : c \in 1..Len(child) \/ c = Len(child) + 1
         /\ \A u : LiveOf(u)' \subseteq LiveOf(u) \cup (IF u = t THEN {Len(child) + 1} ELSE {})
<1>1. PICK m \in Nat : m = Len(child)
  BY DEF Formed
<1>2. /\ Len(child') = m + 1 /\ child'[m + 1] = p
      /\ \A c \in 1..m : child'[c] = child[c]
  BY <1>1 DEF Formed
<1>3. \A c \in 1..m : c \in 1..Len(child') /\ (Alive(c)' <=> Alive(c))
  BY <1>2 DEF Alive
<1>4. \A c \in 1..Len(child') : c \in 1..m \/ c = m + 1
  BY <1>2
<1>5. \A u : LiveOf(u)' \subseteq LiveOf(u) \cup (IF u = t THEN {m + 1} ELSE {})
  <2>1. TAKE u
  <2>2. ASSUME NEW c \in LiveOf(u)' PROVE c \in LiveOf(u) \/ (u = t /\ c = m + 1)
    <3>1. c \in 1..Len(child') /\ child'[c].thread = u /\ Alive(c)'
      BY DEF LiveOf
    <3>2. CASE c \in 1..m
      BY <1>1, <1>2, <1>3, <3>1, <3>2 DEF LiveOf
    <3> QED
      BY <1>2, <1>4, <3>1, <3>2
  <2> QED
    BY <2>2
<1> QED
  BY <1>1, <1>2, <1>3, <1>4, <1>5

LEMMA SpawnPlaced == ASSUME Formed, Formed', Placed, NEW t \in Threads, Spawn(t) PROVE Placed'
<1>1. UNCHANGED <<retire, owned>> /\ job[t].pc = "spawn"
  BY DEF Spawn
<1>2. CASE job' = [job EXCEPT ![t] = Free] /\ UNCHANGED <<child, tracked>>
  BY <1>1, <1>2, OverPlaced
<1>3. CASE /\ child' = Append(child, [thread |-> t, state |-> "starting", orphan |-> FALSE])
           /\ tracked' = tracked \cup {Len(child) + 1}
           /\ Goto(t, "record", Len(child) + 1)
  <2>1. PICK n \in Nat, m \in Nat : n = Len(home) /\ m = Len(child) /\ Shaped(n, m)
    BY Sizes
  <2>2. PICK e : job' = [job EXCEPT ![t] = e] /\ e.pc = "record" /\ e.child = m + 1
    BY <1>3, <2>1, GotoMoves
  <2>3. \A u \in Threads : job'[u] = IF u = t THEN e ELSE job[u]
    BY <2>1, <2>2 DEF Shaped
  <2>4. PICK p \in Process : /\ p.thread = t /\ p.state = "starting" /\ ~p.orphan
                             /\ child' = Append(child, p)
    BY <1>3 DEF Process, States
  <2>5. /\ Len(child') = m + 1 /\ child'[m + 1] = p
        /\ \A c \in 1..m : c \in 1..Len(child') /\ child'[c] = child[c] /\ (Alive(c)' <=> Alive(c))
        /\ \A c \in 1..Len(child') : c \in 1..m \/ c = m + 1
        /\ \A u : LiveOf(u)' \subseteq LiveOf(u) \cup (IF u = t THEN {m + 1} ELSE {})
    BY <2>1, <2>4, Started
  <2>6. LiveOf(t) = {}
    BY <1>1 DEF Placed, Single, Seeking
  <2>7. Single'
    <3>1. ASSUME NEW c \in 1..Len(child'), NEW d \in 1..Len(child'),
                 child'[c].thread = child'[d].thread, Alive(c)', Alive(d)'
          PROVE  c = d
      <4>1. ASSUME NEW b \in 1..m, Alive(b)' PROVE child'[b].thread # t
        BY <2>1, <2>5, <2>6, <4>1 DEF LiveOf
      <4>2. CASE c \in 1..m /\ d \in 1..m
        BY <2>1, <2>5, <3>1, <4>2 DEF Placed, Single
      <4> QED
        BY <2>4, <2>5, <3>1, <4>1, <4>2
    <3>2. ASSUME NEW u \in Threads, job'[u].pc \in Seeking PROVE LiveOf(u)' = {}
      <4>1. u # t /\ job'[u] = job[u]
        BY <2>2, <2>3, <3>2 DEF Seeking
      <4> QED
        BY <2>5, <3>2, <4>1 DEF Placed, Single
    <3>3. ASSUME NEW u \in Threads, job'[u].pc \in Starting
          PROVE  LET c == job'[u].child
                 IN c # 0 /\ child'[c].thread = u /\ ~child'[c].orphan /\ LiveOf(u)' \subseteq {c}
      <4>1. CASE u = t
        BY <2>2, <2>3, <2>4, <2>5, <2>6, <4>1
      <4>2. CASE u # t
        <5>1. PICK c : c = job[u].child /\ job'[u].child = c
          BY <2>3, <4>2
        <5>2. c # 0 /\ child[c].thread = u /\ ~child[c].orphan /\ LiveOf(u) \subseteq {c}
          BY <2>3, <3>3, <4>2, <5>1 DEF Placed, Single
        <5>3. job[u].child \in 0..m
          BY <2>1, JobShapes
        <5>4. c \in 1..m
          BY <5>1, <5>2, <5>3
        <5> QED
          BY <2>5, <4>2, <5>1, <5>2, <5>4
      <4> QED
        BY <4>1, <4>2
    <3> QED
      BY <3>1, <3>2, <3>3 DEF Single
  <2>8. Housed'
    <3>1. ASSUME NEW c, NEW u, Homed(c, u) PROVE Homed(c, u)'
      <4>1. c \in 1..m /\ c # m + 1
        BY <2>1, <3>1 DEF Homed
      <4>2. c \in 1..Len(child') /\ child'[c] = child[c] /\ (c \in tracked' <=> c \in tracked)
        BY <1>3, <2>1, <2>5, <4>1
      <4> QED
        BY <3>1, <4>2 DEF Homed
    <3>2. ASSUME NEW u \in Threads, owned'[u] # 0 PROVE Homed(owned[u], u)'
      BY <1>1, <3>1, <3>2 DEF Placed, Housed
    <3> QED
      BY <1>1, <3>1, <3>2 DEF Placed, Housed
  <2>9. Counted'
    <3>1. Reserved' = Reserved \ {t} /\ t \in Reserved
      BY <1>1, <2>2, <2>3 DEF Reserved
    <3>2. /\ IsFiniteSet(Reserved) /\ IsFiniteSet(tracked)
          /\ Cardinality(tracked) + Cardinality(Reserved) <= MaxOwned
      BY DEF Placed, Counted
    <3>3. /\ IsFiniteSet(Reserved') /\ Cardinality(Reserved') = Cardinality(Reserved) - 1
          /\ Cardinality(Reserved) \in Nat
      BY <3>1, <3>2, FS_RemoveElement, FS_CardinalityType
    <3>4. /\ IsFiniteSet(tracked') /\ Cardinality(tracked) \in Nat /\ Cardinality(tracked') \in Nat
          /\ Cardinality(tracked') <= Cardinality(tracked) + 1
      BY <1>3, <3>2, OneMore
    <3>5. MaxOwned \in Nat
      BY DiscussionAssumption
    <3>6. Cardinality(tracked') + Cardinality(Reserved') <= MaxOwned
      BY <3>2, <3>3, <3>4, <3>5
    <3>7. \A c \in 1..Len(child') : Alive(c)' /\ ~child'[c].orphan => c \in tracked'
      BY <1>3, <2>1, <2>5 DEF Placed, Counted
    <3>8. ASSUME NEW k \in retire', k.for # None
          PROVE  /\ job'[k.for].pc = "evicting"
                 /\ Cardinality(tracked' \ {k.child}) + Cardinality(Reserved') < MaxOwned
      <4>1. /\ job[k.for].pc = "evicting" /\ k.for \in Threads /\ k.child \in 0..m
            /\ Cardinality(tracked \ {k.child}) + Cardinality(Reserved) < MaxOwned
        BY <1>1, <2>1, <3>8 DEF Placed, Counted, Shaped, Retiring
      <4>2. k.for # t /\ job'[k.for] = job[k.for]
        BY <1>1, <2>3, <4>1
      <4>3. tracked' \ {k.child} = (tracked \ {k.child}) \cup {m + 1}
        BY <1>3, <2>1, <4>1
      <4>4. IsFiniteSet(tracked \ {k.child})
        BY <3>2, FS_Subset
      <4>5. /\ Cardinality(tracked \ {k.child}) \in Nat /\ Cardinality(tracked' \ {k.child}) \in Nat
            /\ Cardinality(tracked' \ {k.child}) <= Cardinality(tracked \ {k.child}) + 1
        <5>1. PICK A, B : A = tracked \ {k.child} /\ B = tracked' \ {k.child}
          OBVIOUS
        <5>2. IsFiniteSet(A) /\ B = A \cup {m + 1}
          BY <4>3, <4>4, <5>1
        <5>3. Cardinality(A) \in Nat /\ Cardinality(B) \in Nat /\ Cardinality(B) <= Cardinality(A) + 1
          BY <5>2, OneMore
        <5> QED
          BY <5>1, <5>3
      <4> QED
        BY <3>3, <3>5, <4>1, <4>2, <4>5
    <3>9. \A k, l \in retire' : k.for # None /\ l.for # None => k = l
      BY <1>1 DEF Placed, Counted
    <3> QED
      BY <3>3, <3>4, <3>6, <3>7, <3>8, <3>9 DEF Counted
  <2> QED
    BY <2>7, <2>8, <2>9 DEF Placed
<1> QED
  BY <1>1, <1>2, <1>3, JobEnds DEF Spawn

LEMMA HandshakePlaced == ASSUME Formed, Formed', Placed, NEW t \in Threads, Handshake(t) PROVE Placed'
<1>1. PICK n \in Nat, m \in Nat : n = Len(home) /\ m = Len(child) /\ Shaped(n, m)
  BY Sizes
<1>2. PICK c \in 0..m : c = job[t].child
  BY <1>1, JobShapes
<1>3. job[t].pc = "handshake" /\ UNCHANGED retire /\ job' = [job EXCEPT ![t] = Free]
  BY JobEnds DEF Handshake
<1>4. c # 0 /\ child[c].thread = t /\ ~child[c].orphan
  BY <1>2, <1>3 DEF Placed, Single, Starting
<1>5. Advancing /\ \A k \in retire' : k.for # None => job'[k.for].pc = job[k.for].pc
  BY <1>3, JobOver
<1>6. c \in 1..Len(child)
  BY <1>1, <1>4
<1>7. CASE /\ Alive(c) /\ child' = [child EXCEPT ![c].state = "idle"]
           /\ owned' = [owned EXCEPT ![t] = c] /\ UNCHANGED tracked
  <2>1. Aging
    BY <1>6, <1>7, AgingLives
  <2>2. Len(child') = Len(child) /\ child'[c].thread = t /\ ~child'[c].orphan /\ child'[c].state = "idle"
    BY <1>4, <1>6, <1>7, ChildState DEF Formed, States
  <2>3. \A u \in Threads : owned'[u] = IF u = t THEN c ELSE owned[u]
    BY <1>1, <1>7 DEF Shaped
  <2>4. Homed(c, t)'
    BY <1>6, <2>2 DEF Homed
  <2>5. Single'
    BY <1>5, <2>1, AgingSingle DEF Placed, Advancing
  <2>6. Counted'
    BY <1>3, <1>5, <2>1, ReservedCounted DEF Placed, Advancing, Reserved
  <2>7. Housed'
    <3>1. ASSUME NEW u \in Threads, owned'[u] # 0 PROVE Homed(owned[u], u)'
      <4>1. CASE u = t
        BY <2>3, <2>4, <4>1 DEF Homed
      <4>2. CASE u # t
        <5>1. PICK d : d = owned[u] /\ d = owned'[u]
          BY <2>3, <4>2
        <5>2. Homed(d, u)'
          BY <2>1, <3>1, <5>1, AgingHomed DEF Placed, Housed
        <5> QED
          BY <5>1, <5>2 DEF Homed
      <4> QED
        BY <4>1, <4>2
    <3> QED
      BY <1>3, <2>1, <3>1, AgingHoused DEF Placed
  <2> QED
    BY <2>5, <2>6, <2>7 DEF Placed
<1>8. CASE /\ child' = [child EXCEPT ![c].state = "dead"] /\ tracked' = tracked \ {c}
           /\ UNCHANGED owned
  BY <1>3, <1>6, <1>8, ClosedPlaced
<1>9. CASE UNCHANGED <<child, tracked, owned>>
  BY <1>3, <1>9, OverPlaced
<1> QED
  BY <1>2, <1>7, <1>8, <1>9 DEF Handshake

LEMMA ExpirePlaced == ASSUME Formed, Formed', Placed, NEW u \in Threads, Expire(u) PROVE Placed'
<1>1. PICK c : c = owned[u] /\ retire' = retire \cup {[thread |-> u, child |-> c, for |-> None, pc |-> "judged"]}
  BY DEF Expire
<1>2. UNCHANGED <<child, tracked, owned, job>> /\ Retirable(u)
  BY DEF Expire, durable, adapters
<1>3. Homed(c, u)
  BY <1>1, <1>2 DEF Retirable, Placed, Housed
<1>4. \A k \in retire' : k \in retire \/ (k.child = c /\ k.thread = u /\ k.for = None)
  BY <1>1
<1>5. Aging
  BY <1>2, AgingSame
<1>6. Single'
  BY <1>2, <1>5, AgingSingle DEF Placed, Going
<1>7. Housed'
  <2>1. Homed(c, u)'
    BY <1>3, <1>5, AgingHomed
  <2> QED
    BY <1>2, <1>4, <1>5, <2>1, AgingHoused DEF Placed
<1>8. Counted'
  <2>1. Reserved' = Reserved
    BY <1>2 DEF Reserved
  <2>2. \A d \in 1..Len(child') : Alive(d)' /\ ~child'[d].orphan => d \in tracked'
    BY <1>2 DEF Alive, Placed, Counted
  <2>3. \A k \in retire' : k.for # None => k \in retire
    BY <1>4
  <2> QED
    BY <1>2, <2>1, <2>2, <2>3 DEF Placed, Counted
<1> QED
  BY <1>6, <1>7, <1>8 DEF Placed

\* A child is closed for a job, which gets its place, or looks for another.
LEMMA RetirePlaced == ASSUME Formed, Formed', Placed, NEW k \in retire, Retire(k) PROVE Placed'
<1>1. PICK n \in Nat, m \in Nat : n = Len(home) /\ m = Len(child) /\ Shaped(n, m)
  BY Sizes
<1>2. PICK c \in 0..m, u \in Threads, f \in Threads \cup {None} : c = k.child /\ u = k.thread /\ f = k.for
  BY <1>1 DEF Shaped, Retiring
<1>3. Homed(c, u) /\ c \in 1..m
  BY <1>1, <1>2 DEF Placed, Housed, Homed
<1>4. MaxOwned \in Nat /\ None \notin Threads
  BY DiscussionAssumption
<1>5. f # None => /\ f \in Threads /\ job[f].pc = "evicting"
                  /\ Cardinality(tracked \ {c}) + Cardinality(Reserved) < MaxOwned
  BY <1>2 DEF Placed, Counted
<1>6. \A t \in Threads : owned'[t] \in {0, owned[t]}
  BY <1>1, <1>2 DEF Retire, adapters, Shaped
<1>7. CASE /\ retire' = (retire \ {k}) \cup {[k EXCEPT !.pc = "closing"]}
           /\ UNCHANGED <<child, owned, tracked, job>>
  <2>1. PICK l : l = [k EXCEPT !.pc = "closing"]
    OBVIOUS
  <2>2. l.child = c /\ l.thread = u /\ l.for = f
    BY <1>1, <1>2, <2>1 DEF Shaped, Retiring
  <2>3. Aging
    BY <1>7, AgingSame
  <2>4. Single'
    BY <1>7, <2>3, AgingSingle DEF Placed, Going
  <2>5. \A j \in retire' : j \in retire \ {k} \/ j = l
    BY <1>7, <2>1
  <2>6. Housed'
    <3>1. \A j \in retire' : \E i \in retire : i.child = j.child /\ i.thread = j.thread
      BY <1>2, <2>2, <2>5
    <3> QED
      BY <1>6, <2>3, <3>1, AgingHoused DEF Placed
  <2>7. Counted'
    <3>1. Reserved' = Reserved
      BY <1>7 DEF Reserved
    <3>2. \A d \in 1..Len(child') : Alive(d)' /\ ~child'[d].orphan => d \in tracked'
      BY <1>7 DEF Alive, Placed, Counted
    <3>3. ASSUME NEW j \in retire', j.for # None
          PROVE  /\ job'[j.for].pc = "evicting"
                 /\ Cardinality(tracked' \ {j.child}) + Cardinality(Reserved') < MaxOwned
      <4>1. PICK i \in retire : i.for = j.for /\ i.child = j.child
        BY <1>2, <2>2, <2>5
      <4>2. /\ job[i.for].pc = "evicting"
            /\ Cardinality(tracked \ {i.child}) + Cardinality(Reserved) < MaxOwned
        BY <3>3, <4>1 DEF Placed, Counted
      <4> QED
        BY <1>7, <3>1, <4>1, <4>2
    <3>4. ASSUME NEW i \in retire', NEW j \in retire', i.for # None, j.for # None PROVE i = j
      <4>1. i \in retire \ {k} /\ j \in retire \ {k} => i = j
        BY <3>4 DEF Placed, Counted
      <4>2. \A h \in retire \ {k} : h.for # None => f = None
        BY <1>2 DEF Placed, Counted
      <4> QED
        BY <2>2, <2>5, <3>4, <4>1, <4>2
    <3> QED
      BY <1>7, <3>1, <3>2, <3>3, <3>4 DEF Placed, Counted
  <2> QED
    BY <2>4, <2>6, <2>7 DEF Placed
<1>8. ASSUME retire' = retire \ {k}, Aging,
             NEW pc \in {"capacity", "spawn"},
             IF f = None THEN UNCHANGED job ELSE job' = [job EXCEPT ![f].pc = pc],
             pc = "spawn" => c \notin tracked'
      PROVE  Placed'
  <2>1. CASE f = None
    BY <1>6, <1>8, <2>1, JobsSame, PlacedKept
  <2>2. CASE f # None
    <3>1. /\ \A t \in Threads : t # f => job'[t] = job[t]
          /\ job'[f].pc = pc
      BY <1>1, <1>5, <1>8, <2>2 DEF Shaped, Jobs
    <3>2. Going
      BY <1>5, <1>8, <2>2, <3>1 DEF Going, Seeking, Starting
    <3>3. Single' /\ Housed'
      BY <1>6, <1>8, <3>2, AgingSingle, AgingHoused DEF Placed
    <3>4. \A j \in retire' : j.for = None
      BY <1>2, <1>8, <2>2 DEF Placed, Counted
    <3>5. IsFiniteSet(tracked) /\ IsFiniteSet(Reserved) /\ Cardinality(tracked) + Cardinality(Reserved) <= MaxOwned
      BY DEF Placed, Counted
    <3>6. /\ IsFiniteSet(tracked') /\ Cardinality(tracked') \in Nat /\ Cardinality(tracked) \in Nat
          /\ Cardinality(tracked') <= Cardinality(tracked)
      BY <1>8, <3>5, Fewer DEF Aging
    <3>7. \A d \in 1..Len(child') : Alive(d)' /\ ~child'[d].orphan => d \in tracked'
      BY <1>8, AgingAlive DEF Placed, Counted, Aging, Alive
    <3>8. IsFiniteSet(Reserved') /\ Cardinality(tracked') + Cardinality(Reserved') <= MaxOwned
      <4>1. CASE pc = "capacity"
        <5>1. Reserved' = Reserved
          BY <1>5, <2>2, <3>1, <4>1 DEF Reserved
        <5>2. Cardinality(Reserved) \in Nat
          BY <3>5, FS_CardinalityType
        <5> QED
          BY <1>4, <3>5, <3>6, <5>1, <5>2
      <4>2. CASE pc = "spawn"
        <5>1. Reserved' = Reserved \cup {f}
          BY <1>5, <2>2, <3>1, <4>2 DEF Reserved
        <5>2. /\ IsFiniteSet(Reserved') /\ Cardinality(Reserved) \in Nat /\ Cardinality(Reserved') \in Nat
              /\ Cardinality(Reserved') <= Cardinality(Reserved) + 1
          BY <3>5, <5>1, OneMore
        <5>3. IsFiniteSet(tracked \ {c}) /\ tracked' \subseteq tracked \ {c}
          BY <1>8, <3>5, <4>2, FS_Subset DEF Aging
        <5>4. /\ Cardinality(tracked \ {c}) \in Nat
              /\ Cardinality(tracked') <= Cardinality(tracked \ {c})
          BY <5>3, Fewer
        <5> QED
          BY <1>4, <1>5, <2>2, <3>6, <5>2, <5>4
      <4> QED
        BY <1>8, <4>1, <4>2
    <3> QED
      BY <3>3, <3>4, <3>6, <3>7, <3>8 DEF Placed, Counted
  <2> QED
    BY <2>1, <2>2
<1>9. CASE k.pc = "judged" /\ ~Unclaimed(u, c)
  BY <1>2, <1>8, <1>9, AgingSame DEF Retire, adapters
<1>10. CASE /\ IF Alive(c) THEN Dies(c) ELSE UNCHANGED <<child, exits, tracked>>
            /\ retire' = retire \ {k}
            /\ IF f = None THEN UNCHANGED job ELSE job' = [job EXCEPT ![f].pc = "spawn"]
  <2>1. Aging
    BY <1>1, <1>3, <1>10, AgingDies, AgingSame
  <2>2. c \notin tracked'
    <3>1. CASE Alive(c)
      <4>1. child[c] \in Process
        BY <1>3 DEF Formed, Homed
      <4>2. Installed(c)
        BY <1>3, <3>1, <4>1 DEF Homed, Installed, Alive, Process, States
      <4> QED
        BY <1>10, <3>1, <4>2 DEF Dies
    <3>2. CASE ~Alive(c)
      BY <1>3, <1>10, <3>2 DEF Homed, Alive
    <3> QED
      BY <3>1, <3>2
  <2> QED
    BY <1>8, <1>10, <2>1, <2>2
<1>11. CASE UNCHANGED <<child, tracked>> /\ retire' = retire \ {k}
            /\ IF f = None THEN UNCHANGED job ELSE job' = [job EXCEPT ![f].pc = "capacity"]
  BY <1>8, <1>11, AgingSame
<1> QED
  BY <1>2, <1>7, <1>10, <1>11 DEF Retire, adapters

LEMMA CrashPlaced == ASSUME Formed, Formed', Placed, Crash PROVE Placed'
<1>1. /\ owned' = [t \in Threads |-> 0] /\ tracked' = {} /\ retire' = {}
      /\ job' = [t \in Threads |-> Free]
      /\ child' = [c \in 1..Len(child) |-> [child[c] EXCEPT !.orphan = TRUE]]
  BY DEF Crash
<1>2. PICK m \in Nat : m = Len(child)
  BY DEF Formed
<1>3. /\ Len(child') = m
      /\ \A c \in 1..m : /\ child'[c].thread = child[c].thread /\ child'[c].state = child[c].state
                        /\ child'[c].orphan
  <2>1. \A c \in 1..m : child[c] \in Process
    BY <1>2 DEF Formed
  <2>2. ASSUME NEW c \in 1..m
        PROVE  /\ child'[c].thread = child[c].thread /\ child'[c].state = child[c].state
               /\ child'[c].orphan /\ child'[c] \in Process
    <3>1. PICK p \in Process : p = child[c]
      BY <2>1
    <3>2. child'[c] = [p EXCEPT !.orphan = TRUE]
      BY <1>1, <1>2, <3>1
    <3> QED
      BY <3>1, <3>2 DEF Process
  <2>3. child' \in [1..m -> Process]
    BY <1>1, <1>2, <2>2
  <2> QED
    BY <2>2, <2>3, LenProperties, SeqDef
<1>4. Single'
  <2>1. \A c, d \in 1..Len(child') :
          child'[c].thread = child'[d].thread /\ Alive(c)' /\ Alive(d)' => c = d
    BY <1>2, <1>3 DEF Placed, Single, Alive
  <2> QED
    BY <1>1, <2>1 DEF Single, Seeking, Starting, Free
<1>5. Counted'
  <2>1. Reserved' = {}
    BY <1>1 DEF Reserved, Free
  <2>2. MaxOwned \in Nat /\ IsFiniteSet({}) /\ Cardinality({}) = 0
    BY DiscussionAssumption, FS_EmptySet
  <2>3. \A c \in 1..Len(child') : Alive(c)' /\ ~child'[c].orphan => c \in tracked'
    BY <1>3
  <2> QED
    BY <1>1, <2>1, <2>2, <2>3 DEF Counted
<1>6. Housed'
  BY <1>1 DEF Housed
<1> QED
  BY <1>4, <1>5, <1>6 DEF Placed

-------------------------------------------------------------------------------
(* The queues: they are extended at the end, and only the head moves. *)

\* A step that drops and draws no message of a thread, or appends one.
Kept(t) ==
  LET q == record[t].queue
      r == record'[t].queue
  IN /\ record'[t].accepted = record[t].accepted
     /\ Len(r) \in {Len(q), Len(q) + 1}
     /\ \A i \in 1..Len(q) :
          r[i].id = q[i].id /\ (r[i].state = q[i].state \/ (i = 1 /\ r[i].state # "queued"))
Joined(t) ==
  LET q == record[t].queue
      r == record'[t].queue
  IN Len(r) = Len(q) + 1 =>
       /\ r[Len(q) + 1].state = "queued"
       /\ home'[r[Len(q) + 1].id] = t /\ ~Known(record[t], r[Len(q) + 1].id)
Waits(t) == Kept(t) /\ Joined(t)
Still(t) == Kept(t) /\ Len(record'[t].queue) = Len(record[t].queue)
Extended == /\ Len(home) <= Len(home')
            /\ \A i \in 1..Len(home) : home'[i] = home[i]

\* A known id is one of the queue's or of the accepted ones.
LEMMA KnownIn ==
  ASSUME NEW r, NEW id
  PROVE  Known(r, id) <=> \/ \E i \in 1..Len(r.queue) : r.queue[i].id = id
                          \/ \E i \in 1..Len(r.accepted) : r.accepted[i] = id
  BY DEF Known, Items

LEMMA QueueShape ==
  ASSUME Formed, NEW t \in Threads
  PROVE  /\ record[t].queue \in Seq(Message(Len(home))) /\ Len(record[t].queue) \in Nat
         /\ \A i \in 1..Len(record[t].queue) :
              /\ record[t].queue[i].id \in 1..Len(home)
              /\ record[t].queue[i].state \in {"queued", "delivering", "uncertain"}
              /\ record[t].queue[i] = [id |-> record[t].queue[i].id, state |-> record[t].queue[i].state]
<1>1. PICK n \in Nat, m \in Nat : n = Len(home) /\ m = Len(child) /\ Shaped(n, m)
  BY Sizes
<1>2. record[t] \in Thread(n, m)
  BY <1>1 DEF Shaped
<1>3. /\ record[t].queue \in Seq(Message(n)) /\ Len(record[t].queue) \in Nat
      /\ \A i \in 1..Len(record[t].queue) : record[t].queue[i] \in Message(n)
  BY <1>2, QueueOf
<1> QED
  BY <1>1, <1>3 DEF Message

\* What is known stays known.
LEMMA KnownKept ==
  ASSUME Formed, NEW t \in Threads, Kept(t), NEW id, Known(record[t], id)
  PROVE  Known(record[t], id)'
<1>1. Len(record[t].queue) \in Nat
  BY QueueShape
<1>2. /\ record'[t].accepted = record[t].accepted
      /\ Len(record'[t].queue) \in {Len(record[t].queue), Len(record[t].queue) + 1}
      /\ \A i \in 1..Len(record[t].queue) : record'[t].queue[i].id = record[t].queue[i].id
  BY DEF Kept
<1>3. \/ \E i \in 1..Len(record[t].queue) : record[t].queue[i].id = id
      \/ \E i \in 1..Len(record[t].accepted) : record[t].accepted[i] = id
  BY KnownIn
<1>4. \/ \E i \in 1..Len(record'[t].queue) : record'[t].queue[i].id = id
      \/ \E i \in 1..Len(record'[t].accepted) : record'[t].accepted[i] = id
  <2>1. PICK q, r : q = record[t].queue /\ r = record'[t].queue
    OBVIOUS
  <2>2. Len(q) \in Nat /\ Len(r) \in {Len(q), Len(q) + 1} /\ \A i \in 1..Len(q) : r[i].id = q[i].id
    BY <1>1, <1>2, <2>1
  <2>3. (\E i \in 1..Len(q) : q[i].id = id) => \E i \in 1..Len(r) : r[i].id = id
    BY <2>2
  <2> QED
    BY <1>2, <1>3, <2>1, <2>3
<1> QED
  BY <1>4 DEF Known, Items

\* The order of the queues is kept.
LEMMA LinesKept ==
  ASSUME Formed, Lined, Extended, NEW t \in Threads, Waits(t)
  PROVE  Ordered(t)'
<1>1. PICK q, r : q = record[t].queue /\ r = record'[t].queue
  OBVIOUS
<1>2. /\ Len(q) \in Nat /\ Len(home) \in Nat /\ \A i \in 1..Len(q) : q[i].id \in 1..Len(home)
  <2>1. Len(home) \in Nat
    BY DEF Formed
  <2> QED
    BY <1>1, <2>1, QueueShape
<1>3. /\ \A i \in 1..Len(q) : home[q[i].id] = t
      /\ \A i, j \in 1..Len(q) : q[i].id = q[j].id => i = j
      /\ \A i \in 2..Len(q) : q[i].state = "queued"
  BY <1>1 DEF Lined, Ordered
<1>4. /\ Len(r) \in {Len(q), Len(q) + 1}
      /\ \A i \in 1..Len(q) : r[i].id = q[i].id /\ (i # 1 => r[i].state = q[i].state)
  BY <1>1 DEF Waits, Kept
<1>5. Len(r) = Len(q) + 1 =>
        /\ r[Len(q) + 1].state = "queued" /\ home'[r[Len(q) + 1].id] = t
        /\ \A i \in 1..Len(q) : q[i].id # r[Len(q) + 1].id
  BY <1>1, KnownIn DEF Waits, Joined
<1>6. \A i \in 1..Len(r) : i \in 1..Len(q) \/ (i = Len(q) + 1 /\ Len(r) = Len(q) + 1)
  BY <1>2, <1>4
<1>7. \A i \in 1..Len(r) : home'[r[i].id] = t
  BY <1>2, <1>3, <1>4, <1>5, <1>6, SMTT(30) DEF Extended
<1>8. \A i, j \in 1..Len(r) : r[i].id = r[j].id => i = j
  BY <1>2, <1>3, <1>4, <1>5, <1>6
<1>9. \A i \in 2..Len(r) : r[i].state = "queued"
  BY <1>2, <1>3, <1>4, <1>5, <1>6
<1> QED
  BY <1>1, <1>7, <1>8, <1>9 DEF Ordered

\* What was given stays known, and is not queued again.
LEMMA GivenKept ==
  ASSUME Formed, Formed', Once, Extended, UNCHANGED given, \A t \in Threads : Waits(t)
  PROVE  /\ \A id \in given' : Known(record[home[id]], id)'
         /\ \A t \in Threads : \A i \in 1..Len(record'[t].queue) :
              record'[t].queue[i].id \in given' => record'[t].queue[i].state # "queued"
<1>1. given \subseteq 1..Len(home) /\ \A id \in 1..Len(home) : home[id] \in Threads
  BY DEF Formed, Shaped
<1>2. ASSUME NEW id \in given PROVE Known(record[home[id]], id)'
  <2>1. PICK t \in Threads : t = home[id] /\ t = home'[id]
    BY <1>1 DEF Extended
  <2>2. Known(record[t], id)
    BY <2>1 DEF Once
  <2>3. Known(record[t], id)'
    BY <2>2, KnownKept DEF Waits
  <2> QED
    BY <2>1, <2>3 DEF Known, Items
<1>3. ASSUME NEW t \in Threads, NEW i \in 1..Len(record'[t].queue), record'[t].queue[i].id \in given
      PROVE  record'[t].queue[i].state # "queued"
  <2>1. PICK q, r : q = record[t].queue /\ r = record'[t].queue
    OBVIOUS
  <2>2. Len(q) \in Nat /\ r[i].id \in 1..Len(home)
    BY <1>1, <1>3, <2>1, QueueShape
  <2>3. CASE i \in 1..Len(q)
    <3>1. r[i].id = q[i].id /\ (r[i].state = q[i].state \/ r[i].state # "queued")
      BY <2>1, <2>3 DEF Waits, Kept
    <3>2. q[i].state # "queued"
      BY <1>3, <2>1, <2>3, <3>1 DEF Once
    <3> QED
      BY <2>1, <3>1, <3>2
  <2>4. CASE i \notin 1..Len(q)
    <3>1. i = Len(q) + 1 /\ Len(r) = Len(q) + 1
      BY <1>3, <2>1, <2>2, <2>4 DEF Waits, Kept
    <3>2. home'[r[i].id] = t /\ ~Known(record[t], r[i].id)
      BY <2>1, <3>1 DEF Waits, Joined
    <3>3. home[r[i].id] = t
      BY <2>2, <3>2 DEF Extended
    <3> QED
      BY <1>3, <2>1, <3>2, <3>3 DEF Once
  <2> QED
    BY <2>3, <2>4
<1> QED
  BY <1>2, <1>3

\* A record that is written with the queue as it was, or as it is loaded.
Stood(t, s) == /\ s.accepted = record[t].accepted
               /\ s.queue = record[t].queue \/ s.queue = Loaded(t).queue
HeadKept(t) == t \in recovered /\ record[t].queue # <<>> =>
  record'[t].queue # <<>> /\ record'[t].queue[1] = record[t].queue[1]

LEMMA Wrote ==
  ASSUME Formed, NEW t \in Threads, NEW s, Write(t, s)
  PROVE  record'[t] = s /\ \A u \in Threads : u # t => record'[u] = record[u]
  BY DEF Write, Formed, Shaped

LEMMA LoadedKept ==
  ASSUME Formed, Lined, NEW t \in Threads
  PROVE  /\ Stood(t, record[t]) /\ Stood(t, Loaded(t))
         /\ t \in recovered => Loaded(t) = record[t]
         /\ Len(Loaded(t).queue) = Len(record[t].queue)
         /\ \A i \in 1..Len(record[t].queue) :
              /\ Loaded(t).queue[i].id = record[t].queue[i].id
              /\ \/ Loaded(t).queue[i].state = record[t].queue[i].state
                 \/ i = 1 /\ Loaded(t).queue[i].state # "queued"
<1>1. PICK n \in Nat, m \in Nat : n = Len(home) /\ m = Len(child) /\ Shaped(n, m)
  BY Sizes
<1>2. record \in [Threads -> Thread(n, m)]
  BY <1>1 DEF Shaped
<1>3. PICK q, r : q = record[t].queue /\ r = Loaded(t).queue
  OBVIOUS
<1>4. /\ t \in recovered => Loaded(t) = record[t]
      /\ Loaded(t).accepted = record[t].accepted
      /\ Len(r) = Len(q)
      /\ \A i \in 1..Len(q) :
           \/ r[i] = q[i]
           \/ /\ \E j \in 1..Len(q) : q[j].id = q[i].id /\ q[j].state = "delivering"
              /\ r[i] = [id |-> q[i].id, state |-> "uncertain"]
  BY <1>2, <1>3, LoadedThread
<1>5. /\ \A i, j \in 1..Len(q) : q[i].id = q[j].id => i = j
      /\ \A i \in 2..Len(q) : q[i].state = "queued"
      /\ Len(q) \in Nat
  BY <1>3, QueueShape DEF Lined, Ordered
<1>6. ASSUME NEW i \in 1..Len(q), r[i] # q[i]
      PROVE  i = 1 /\ r[i].id = q[i].id /\ r[i].state # "queued"
  <2>1. PICK j \in 1..Len(q) : q[j].id = q[i].id /\ q[j].state = "delivering"
    BY <1>4, <1>6
  <2>2. r[i] = [id |-> q[i].id, state |-> "uncertain"]
    BY <1>4, <1>6
  <2>3. r[i].id = q[i].id /\ r[i].state = "uncertain"
    BY <2>2
  <2> QED
    BY <1>5, <2>1, <2>3
<1>7. \A i \in 1..Len(q) : r[i].id = q[i].id /\ (r[i].state = q[i].state \/ (i = 1 /\ r[i].state # "queued"))
  BY <1>6
<1> QED
  BY <1>3, <1>4, <1>7 DEF Stood

LEMMA StoodKept ==
  ASSUME Formed, Lined, NEW t \in Threads, NEW s, Stood(t, s)
  PROVE  /\ s.accepted = record[t].accepted /\ Len(s.queue) = Len(record[t].queue)
         /\ \A i \in 1..Len(record[t].queue) :
              /\ s.queue[i].id = record[t].queue[i].id
              /\ \/ s.queue[i].state = record[t].queue[i].state
                 \/ i = 1 /\ s.queue[i].state # "queued"
         /\ t \in recovered => s.queue = record[t].queue
         /\ \A id : Known(s, id) <=> Known(record[t], id)
<1>1. /\ s.accepted = record[t].accepted /\ Len(s.queue) = Len(record[t].queue)
      /\ \A i \in 1..Len(record[t].queue) :
           /\ s.queue[i].id = record[t].queue[i].id
           /\ \/ s.queue[i].state = record[t].queue[i].state
              \/ i = 1 /\ s.queue[i].state # "queued"
  BY LoadedKept DEF Stood
<1>2. t \in recovered => s.queue = record[t].queue
  BY LoadedKept DEF Stood
<1>3. \A id : Known(s, id) <=> Known(record[t], id)
  BY <1>1, KnownIn
<1> QED
  BY <1>1, <1>2, <1>3

\* The steps that change no record, write one that stood, or enqueue a message.
LEMMA SameStill ==
  ASSUME Formed, NEW t \in Threads, record'[t] = record[t]
  PROVE  Still(t) /\ Waits(t) /\ HeadKept(t)
<1>1. Len(record[t].queue) \in Nat
  BY QueueShape
<1> QED
  BY <1>1 DEF Still, Kept, Waits, Joined, HeadKept

LEMMA StoodStill ==
  ASSUME Formed, Lined, NEW t \in Threads, NEW s, Stood(t, s), record'[t] = s
  PROVE  Still(t) /\ Waits(t) /\ HeadKept(t)
<1>1. Len(record[t].queue) \in Nat
  BY QueueShape
<1>2. Kept(t) /\ Len(record'[t].queue) = Len(record[t].queue)
  BY StoodKept DEF Kept
<1>3. Joined(t)
  BY <1>1, <1>2 DEF Joined
<1>4. HeadKept(t)
  BY StoodKept DEF HeadKept
<1> QED
  BY <1>2, <1>3, <1>4 DEF Still, Waits

LEMMA WriteStill ==
  ASSUME Formed, Lined, NEW t \in Threads, NEW s, Stood(t, s), Write(t, s)
  PROVE  \A u \in Threads : Still(u) /\ Waits(u) /\ HeadKept(u)
  BY Wrote, SameStill, StoodStill

LEMMA WriteWaits ==
  ASSUME Formed, Lined, NEW n \in Nat, NEW m \in Nat, NEW t \in Threads, NEW s \in Thread(n, m),
         Stood(t, s), NEW id \in 1..n, home'[id] = t, ~Known(record[t], id),
         Write(t, Enqueued(s, id))
  PROVE  \A u \in Threads : Waits(u) /\ HeadKept(u) /\ (u # t => Still(u))
<1>1. PICK e : e = Enqueued(s, id)
  OBVIOUS
<1>2. e.queue = Append(s.queue, [id |-> id, state |-> "queued"]) /\ e.accepted = s.accepted
  BY <1>1, EnqueuedThread
<1>3. PICK q \in Seq(Message(n)) : q = s.queue
  BY QueueOf
<1>4. PICK x : x = [id |-> id, state |-> "queued"]
  OBVIOUS
<1>5. x \in Message(n) /\ x.id = id /\ x.state = "queued"
  BY <1>4 DEF Message
<1>6. /\ Len(Append(q, x)) = Len(q) + 1 /\ Append(q, x)[Len(q) + 1] = x
      /\ \A i \in 1..Len(q) : Append(q, x)[i] = q[i]
  BY <1>5, AppendProperties
<1>7. PICK r : r = e.queue /\ Len(r) = Len(q) + 1 /\ r[Len(q) + 1] = x /\ \A i \in 1..Len(q) : r[i] = q[i]
  BY <1>2, <1>3, <1>4, <1>6
<1>8. record'[t] = e /\ \A u \in Threads : u # t => record'[u] = record[u]
  BY <1>1, Wrote
<1>9. Len(q) \in Nat /\ Len(record[t].queue) = Len(q)
  BY <1>3, StoodKept
<1>10. Kept(t)
  <2>1. /\ s.accepted = record[t].accepted
        /\ \A i \in 1..Len(q) :
             /\ q[i].id = record[t].queue[i].id
             /\ q[i].state = record[t].queue[i].state \/ (i = 1 /\ q[i].state # "queued")
    BY <1>3, <1>9, StoodKept
  <2>2. \A i \in 1..Len(q) : r[i].id = q[i].id /\ r[i].state = q[i].state
    BY <1>7
  <2>3. record'[t].queue = r /\ record'[t].accepted = record[t].accepted
    BY <1>2, <1>7, <1>8, <2>1
  <2>4. PICK o : o = record[t].queue /\ Len(o) = Len(q)
    BY <1>9
  <2>5. Len(r) \in {Len(o), Len(o) + 1}
    BY <1>7, <2>4
  <2>6. \A i \in 1..Len(o) :
          r[i].id = o[i].id /\ (r[i].state = o[i].state \/ (i = 1 /\ r[i].state # "queued"))
    BY <2>1, <2>2, <2>4
  <2> QED
    BY <2>3, <2>4, <2>5, <2>6 DEF Kept
<1>11. Joined(t)
  BY <1>5, <1>7, <1>8, <1>9 DEF Joined
<1>12. HeadKept(t)
  <2>1. ASSUME t \in recovered, record[t].queue # <<>>
        PROVE  r # <<>> /\ r[1] = record[t].queue[1]
    <3>1. q = record[t].queue
      BY <1>3, <2>1, StoodKept
    <3>2. Len(q) # 0
      BY <1>3, <2>1, <3>1, EmptySeq
    <3>3. 1 \in 1..Len(q)
      BY <1>9, <3>2
    <3>4. Len(r) # Len(<<>>)
      BY <1>7, <1>9
    <3> QED
      BY <1>7, <3>1, <3>3, <3>4
  <2> QED
    BY <1>7, <1>8, <2>1 DEF HeadKept
<1>13. \A u \in Threads : u # t => Still(u) /\ Waits(u) /\ HeadKept(u)
  BY <1>8, SameStill
<1> QED
  BY <1>10, <1>11, <1>12, <1>13 DEF Waits

-------------------------------------------------------------------------------
(* The lease, the pass and the stop call: what a step does to them. *)

Steady ==
  /\ pump'.pc \in {"stage", "staging", "prompt", "ack"} =>
       /\ pump'.pc = pump.pc \/ (pump.pc = "prompt" /\ pump'.pc = "ack")
       /\ pump'.thread = pump.thread /\ pump'.msg = pump.msg /\ pump'.child = pump.child
       /\ pump.pc = "ack" => pump'.reply = pump.reply
  /\ pump.pc = "staging" => pump'.pc = "staging"
Lasting ==
  \/ lease = None /\ lease' = None
  \/ /\ lease # None /\ lease' # None
     /\ lease'.thread = lease.thread /\ lease'.msg = lease.msg /\ lease'.gen = lease.gen
     /\ lease'.acked = lease.acked /\ lease'.orphan = lease.orphan
     /\ lease'.settled = lease.settled \/ pump.pc # "staging"
  \/ lease' = None /\ ~stopper'.mine /\ pump'.pc \notin {"staging", "prompt", "ack"}
Capturing ==
  stopper'.mine => /\ lease # None /\ lease.thread = stopper'.thread /\ stopper'.pc # "idle"
                   /\ stopper'.child \in {0, lease.gen} /\ pump.pc # "staging"

LEMMA StagedKept ==
  ASSUME Formed, Formed', Staged, Steady, Lasting, Capturing,
         \A t \in Threads : Serving(t)' <=> Serving(t),
         \A t \in Threads : t = pump.thread /\ pump.pc \in {"staging", "prompt", "ack"} =>
           HeadKept(t) /\ (t \in recovered => t \in recovered'),
         pump'.pc \in {"prompt", "ack"} => flight'[pump.thread] = flight[pump.thread]
  PROVE  Staged'
<1>1. pump.pc \in {"staging", "prompt", "ack"} => pump.thread \in Threads
  BY TypedSlot, Sizes
<1>2. \A t \in Threads : Serving(t)' => pump'.pc = "staging" /\ pump'.thread = t
  BY DEF Staged, Steady
<1>3. ASSUME pump'.pc \in {"staging", "prompt", "ack"}, NEW state, AtHead(state) PROVE AtHead(state)'
  <2>1. PICK t \in Threads : t = pump.thread /\ t = pump'.thread
    BY <1>1, <1>3 DEF Steady
  <2>2. t \in recovered /\ record[t].queue # <<>> /\ record[t].queue[1] = [id |-> pump.msg, state |-> state]
    BY <1>3, <2>1 DEF AtHead
  <2>0. pump.pc \in {"staging", "prompt", "ack"}
    BY <1>3 DEF Steady
  <2>3. t \in recovered' /\ record'[t].queue # <<>> /\ record'[t].queue[1] = record[t].queue[1]
    BY <2>0, <2>1, <2>2 DEF HeadKept
  <2>4. pump'.msg = pump.msg
    BY <1>3 DEF Steady
  <2> QED
    BY <2>1, <2>2, <2>3, <2>4 DEF AtHead
<1>4. pump'.pc \in {"staging", "prompt", "ack"} /\ Engaged => Engaged'
  BY DEF Steady, Lasting, Engaged
<1>5. ASSUME pump'.pc = "staging"
      PROVE  /\ Serving(pump.thread)' /\ Engaged' /\ lease'.gen = 0 /\ ~lease'.settled
             /\ ~stopper'.mine /\ AtHead("queued")'
  <2>1. pump.pc = "staging" /\ pump'.thread = pump.thread
    BY <1>5 DEF Steady
  <2>2. Serving(pump.thread) /\ Engaged /\ lease.gen = 0 /\ ~lease.settled /\ AtHead("queued")
    BY <2>1 DEF Staged
  <2>3. Serving(pump.thread)'
    BY <1>1, <2>1, <2>2 DEF Serving, Locked
  <2>4. lease'.gen = 0 /\ ~lease'.settled /\ ~stopper'.mine
    BY <1>5, <2>1, <2>2 DEF Lasting, Capturing, Engaged
  <2> QED
    BY <1>3, <1>4, <1>5, <2>2, <2>3, <2>4
<1>6. ASSUME pump'.pc \in {"prompt", "ack"}
      PROVE  /\ Engaged' /\ pump'.child # 0 /\ lease'.gen = pump'.child
             /\ flight'[pump'.thread] = pump'.msg /\ AtHead("delivering")'
  <2>1. /\ pump.pc \in {"prompt", "ack"} /\ pump'.thread = pump.thread
        /\ pump'.msg = pump.msg /\ pump'.child = pump.child
    BY <1>6 DEF Steady
  <2>2. /\ Engaged /\ pump.child # 0 /\ lease.gen = pump.child
        /\ flight[pump.thread] = pump.msg /\ AtHead("delivering")
    BY <2>1 DEF Staged
  <2>3. lease'.gen = lease.gen
    BY <1>6, <2>2 DEF Lasting, Engaged
  <2> QED
    BY <1>3, <1>4, <1>6, <2>1, <2>2, <2>3
<1>7. stopper'.mine => /\ lease' # None /\ lease'.thread = stopper'.thread /\ stopper'.pc # "idle"
                       /\ stopper'.child \in {0, lease'.gen}
  BY DEF Capturing, Lasting
<1>8. pump'.pc = "stage" => lease' = None
  BY DEF Staged, Steady, Lasting
<1>9. lease' # None /\ lease'.orphan => lease'.gen = 0
  BY DEF Staged, Lasting
<1> QED
  BY <1>2, <1>5, <1>6, <1>7, <1>8, <1>9 DEF Staged

\* A request leaves a pass where it is, or begins one.
LEMMA RequestedSteady ==
  ASSUME Formed
  PROVE  /\ Requested(pump).pc = (IF pump.pc = "idle" THEN "read" ELSE pump.pc)
         /\ pump.pc # "idle" =>
              /\ Requested(pump).thread = pump.thread /\ Requested(pump).msg = pump.msg
              /\ Requested(pump).child = pump.child /\ Requested(pump).reply = pump.reply
<1>1. PICK n \in Nat, m \in Nat : pump \in Passes(n, m)
  BY Sizes, TypedSlot
<1> QED
  BY <1>1 DEF Requested, Pass, Passes

LEMMA PumpSteady ==
  ASSUME Formed, pump' = pump \/ pump' = Requested(pump)
  PROVE  Steady /\ (Before' => Before)
  BY RequestedSteady DEF Steady, Before

\* The slot is let alone, or its pass is asked to go on.
LEMMA SlotSame ==
  ASSUME Formed, Staged, UNCHANGED <<lease, stopper>>, pump' = pump \/ pump' = Requested(pump)
  PROVE  Steady /\ Lasting /\ Capturing
<1>1. Steady
  BY PumpSteady
<1> QED
  BY <1>1 DEF Lasting, Capturing, Staged

\* What is done to a lease changes one thing of it.
LEMMA LeaseFields ==
  ASSUME NEW n \in Nat, NEW m \in Nat, NEW l \in Lease(n, m)
  PROVE  /\ l # None /\ l.settled \in BOOLEAN
         /\ Over(l) \in Lease(n, m) /\ Over(l).settled
         /\ Over(l).thread = l.thread /\ Over(l).msg = l.msg /\ Over(l).gen = l.gen
         /\ Over(l).acked = l.acked /\ Over(l).orphan = l.orphan
         /\ Acked(l) \in Lease(n, m) /\ Acked(l).acked
         /\ Acked(l).thread = l.thread /\ Acked(l).msg = l.msg /\ Acked(l).gen = l.gen
         /\ Acked(l).settled = l.settled /\ Acked(l).orphan = l.orphan
         /\ \A c \in 0..m :
              /\ Bound(l, c) \in Lease(n, m) /\ Bound(l, c).gen = c
              /\ Bound(l, c).thread = l.thread /\ Bound(l, c).msg = l.msg
              /\ Bound(l, c).settled = l.settled /\ Bound(l, c).acked = l.acked
              /\ Bound(l, c).orphan = l.orphan
<1>1. l # None
  <2>1. l \in [thread : Threads, msg : Nat, gen : Nat, settled : BOOLEAN, acked : BOOLEAN, orphan : BOOLEAN]
    BY DEF Lease
  <2> QED
    BY <2>1, DiscussionAssumption
<1>2. /\ Over(l) \in Lease(n, m) /\ Over(l).settled /\ l.settled \in BOOLEAN
      /\ Over(l).thread = l.thread /\ Over(l).msg = l.msg /\ Over(l).gen = l.gen
      /\ Over(l).acked = l.acked /\ Over(l).orphan = l.orphan
  BY DEF Over, Lease
<1>3. /\ Acked(l) \in Lease(n, m) /\ Acked(l).acked
      /\ Acked(l).thread = l.thread /\ Acked(l).msg = l.msg /\ Acked(l).gen = l.gen
      /\ Acked(l).settled = l.settled /\ Acked(l).orphan = l.orphan
  BY DEF Acked, Lease
<1>4. ASSUME NEW c \in 0..m
      PROVE  /\ Bound(l, c) \in Lease(n, m) /\ Bound(l, c).gen = c
             /\ Bound(l, c).thread = l.thread /\ Bound(l, c).msg = l.msg
             /\ Bound(l, c).settled = l.settled /\ Bound(l, c).acked = l.acked
             /\ Bound(l, c).orphan = l.orphan
  BY DEF Bound, Lease
<1> QED
  BY <1>1, <1>2, <1>3, <1>4

LEMMA LeaseShape ==
  ASSUME Formed
  PROVE  \E n, m \in Nat : m = Len(child) /\ (lease # None => lease \in Lease(n, m))
  BY Sizes, TypedSlot

\* The response is noted as over, outside of staging.
LEMMA OverSteady ==
  ASSUME Formed, Staged, lease # None, lease' = Over(lease), pump.pc # "staging", Steady,
         stopper'.mine => stopper.mine /\ stopper'.pc # "idle" /\ stopper'.thread = stopper.thread
                                       /\ stopper'.child = stopper.child
  PROVE  Lasting /\ Capturing
<1>1. PICK n \in Nat, m \in Nat : lease \in Lease(n, m)
  BY LeaseShape
<1>2. PICK l : l = Over(lease)
  OBVIOUS
<1>3. /\ l # None /\ l.thread = lease.thread /\ l.msg = lease.msg /\ l.gen = lease.gen
      /\ l.acked = lease.acked /\ l.orphan = lease.orphan
  <2>1. l \in Lease(n, m)
    BY <1>1, <1>2, LeaseFields
  <2>2. l # None
    BY <2>1, LeaseFields
  <2> QED
    BY <1>1, <1>2, <2>2, LeaseFields
<1> QED
  BY <1>2, <1>3 DEF Lasting, Capturing, Staged

\* The response of a child is over.
LEMMA SettledBySteady ==
  ASSUME Formed, Staged, NEW c, c # 0, lease' = SettledBy(c) \/ lease' = EndOf(c),
         UNCHANGED <<pump, stopper>>
  PROVE  Steady /\ Lasting /\ Capturing
<1>1. lease' = lease \/ (Leased(c) /\ lease' = Over(lease))
  BY DEF SettledBy, EndOf
<1>2. CASE lease' = lease
  BY <1>2, SlotSame
<1>3. CASE Leased(c) /\ lease' = Over(lease)
  <2>1. lease # None /\ pump.pc # "staging"
    BY <1>3 DEF Leased, Staged
  <2>2. Steady
    BY PumpSteady
  <2>3. stopper.mine => stopper.pc # "idle"
    BY DEF Staged
  <2> QED
    BY <1>3, <2>1, <2>2, <2>3, OverSteady
<1> QED
  BY <1>1, <1>2, <1>3

\* A lease that is given back, or noted as over and kept as it was.
LEMMA SettleSteady ==
  ASSUME Formed, Staged, lease # None, NEW l, NEW s \in Stopping(Len(child)), Settle(l, pump, s),
         l = lease \/ (l = Over(lease) /\ pump.pc # "staging"),
         s.mine => stopper.mine /\ s.pc # "idle" /\ s.thread = stopper.thread
                                /\ s.child = stopper.child
  PROVE  Steady /\ Lasting /\ Capturing
<1>1. PICK n \in Nat, m \in Nat : m = Len(child) /\ lease \in Lease(n, m)
  BY LeaseShape
<1>2. CASE Keep(l, pump, s)
  <2>1. Steady
    BY <1>2, PumpSteady DEF Keep
  <2>2. CASE l = lease
    BY <1>2, <2>1, <2>2 DEF Keep, Lasting, Capturing, Staged
  <2>3. CASE l = Over(lease) /\ pump.pc # "staging"
    BY <1>2, <2>1, <2>3, OverSteady DEF Keep
  <2> QED
    BY <2>2, <2>3
<1>3. CASE Freed(l) /\ Release(pump, s)
  <2>1. l.acked = lease.acked
    BY <1>1, LeaseFields
  <2>2. pump.pc \notin {"staging", "prompt", "ack"}
    BY <1>3, <2>1 DEF Freed, Staged, Engaged
  <2>3. lease' = None /\ pump' = Requested(pump) /\ stopper' = [s EXCEPT !.mine = FALSE]
    BY <1>3 DEF Release, Keep
  <2>4. ~stopper'.mine
    BY <2>3 DEF Stopping
  <2>5. Steady
    BY <2>3, PumpSteady
  <2>6. pump'.pc \notin {"staging", "prompt", "ack"}
    BY <2>2, <2>3, RequestedSteady
  <2> QED
    BY <2>3, <2>4, <2>5, <2>6 DEF Lasting, Capturing
<1> QED
  BY <1>2, <1>3 DEF Settle

Told == Staged /\ Lined /\ Once

\* The job of a message that waits for its queue to resume.
Sending(t) == Locked(t) /\ job[t].for = "send"

LEMMA SendsKept ==
  ASSUME Formed, Lined, Extended, \A t \in Threads : Ordered(t)',
         \A t \in Threads : Sending(t)' =>
           \/ Sending(t) /\ job'[t].msg = job[t].msg /\ Still(t)
           \/ job'[t].msg # 0 /\ home'[job'[t].msg] = t /\ ~Known(record[t], job[t].msg)'
  PROVE  Lined'
<1>1. ASSUME NEW t \in Threads, Sending(t)', Sending(t) /\ job'[t].msg = job[t].msg /\ Still(t)
      PROVE  job'[t].msg # 0 /\ home'[job'[t].msg] = t /\ ~Known(record[t], job[t].msg)'
  <2>1. PICK id : id = job[t].msg /\ id = job'[t].msg
    BY <1>1
  <2>2. id # 0 /\ home[id] = t /\ ~Known(record[t], id) /\ Still(t)
    BY <1>1, <2>1 DEF Lined, Sending
  <2>3. id \in 1..Len(home)
    <3>1. PICK n \in Nat, m \in Nat : n = Len(home) /\ Shaped(n, m)
      BY Sizes
    <3>2. id \in 0..n
      BY <2>1, <3>1, JobShapes
    <3> QED
      BY <2>2, <3>1, <3>2
  <2>4. ~Known(record[t], id)'
    <3>1. PICK q, r : q = record[t].queue /\ r = record'[t].queue
      OBVIOUS
    <3>2. Len(r) = Len(q) /\ record'[t].accepted = record[t].accepted /\ \A i \in 1..Len(q) : r[i].id = q[i].id
      BY <2>2, <3>1 DEF Still, Kept
    <3>3. \A i \in 1..Len(r) : r[i].id # id
      BY <2>2, <3>1, <3>2, KnownIn
    <3>4. \A i \in 1..Len(record[t].accepted) : record[t].accepted[i] # id
      BY <2>2, KnownIn
    <3> QED
      BY <3>1, <3>2, <3>3, <3>4 DEF Known, Items
  <2> QED
    BY <2>1, <2>2, <2>3, <2>4 DEF Extended, Known, Items
<1> QED
  BY <1>1 DEF Lined, Sending

LEMMA QueuesKept ==
  ASSUME Formed, Formed', Lined, Once, Extended, UNCHANGED given,
         \A t \in Threads : Waits(t),
         \A t \in Threads : Sending(t)' =>
           \/ Sending(t) /\ job'[t].msg = job[t].msg /\ Still(t)
           \/ job'[t].msg # 0 /\ home'[job'[t].msg] = t /\ ~Known(record[t], job[t].msg)',
         pump'.pc = "prompt" => pump'.msg \notin given,
         pump'.pc = "ack" /\ pump'.reply = "refused" => pump'.msg \notin given
  PROVE  Lined' /\ Once'
<1>1. \A t \in Threads : Ordered(t)'
  BY LinesKept
<1>2. Lined'
  BY <1>1, SendsKept
<1>3. Once'
  BY GivenKept DEF Once
<1> QED
  BY <1>2, <1>3

LEMMA ToldKept ==
  ASSUME Formed, Formed', Told, Steady, Lasting, Capturing, Extended, UNCHANGED given,
         \A t \in Threads : Serving(t)' <=> Serving(t),
         \A t \in Threads : Sending(t)' =>
           \/ Sending(t) /\ job'[t].msg = job[t].msg /\ Still(t)
           \/ job'[t].msg # 0 /\ home'[job'[t].msg] = t /\ ~Known(record[t], job[t].msg)',
         \A t \in Threads : Waits(t) /\ HeadKept(t),
         recovered \subseteq recovered',
         pump'.pc \in {"prompt", "ack"} => flight'[pump.thread] = flight[pump.thread]
  PROVE  Told'
<1>1. Staged'
  BY StagedKept DEF Told
<1>2. /\ pump'.pc = "prompt" => pump'.msg \notin given
      /\ pump'.pc = "ack" /\ pump'.reply = "refused" => pump'.msg \notin given
  BY DEF Steady, Told, Once
<1>3. Lined' /\ Once'
  BY <1>2, QueuesKept DEF Told
<1> QED
  BY <1>1, <1>3 DEF Told

\* Steps that do not take a lock or return one, and keep off what is locked.
LEMMA ToldAside ==
  ASSUME Formed, Formed', Told, Steady, Lasting, Capturing, UNCHANGED <<home, given, job, flight>>,
         \A t \in Threads : Still(t) /\ Waits(t) /\ HeadKept(t),
         recovered \subseteq recovered'
  PROVE  Told'
<1>1. Extended
  BY DEF Extended, Formed
<1>2. \A t \in Threads : (Serving(t)' <=> Serving(t)) /\ (Sending(t)' <=> Sending(t))
  BY DEF Serving, Sending, Locked
<1> QED
  BY <1>1, <1>2, ToldKept

LEMMA ToldUnwritten ==
  ASSUME Formed, Formed', Told, Steady, Lasting, Capturing,
         UNCHANGED <<record, home, given, job, flight, recovered>>
  PROVE  Told'
<1>1. \A t \in Threads : Still(t) /\ Waits(t) /\ HeadKept(t)
  BY SameStill
<1> QED
  BY <1>1, ToldAside

LEMMA ToldWritten ==
  ASSUME Formed, Formed', Told, Steady, Lasting, Capturing, UNCHANGED <<home, given, job, flight>>,
         NEW t \in Threads, NEW s, Stood(t, s), Write(t, s), recovered \subseteq recovered'
  PROVE  Told'
<1>1. \A u \in Threads : Still(u) /\ Waits(u) /\ HeadKept(u)
  BY WriteStill DEF Told
<1> QED
  BY <1>1, ToldAside

\* Records with the messages of another.
LEMMA StoodAlike ==
  ASSUME Formed, Lined, NEW t \in Threads, NEW r, Stood(t, r), NEW n \in Nat, NEW m \in Nat,
         r \in Thread(n, m)
  PROVE  /\ \A a \in {"none", "missing", "uncertain", "owner"} : Stood(t, Noted(r, a))
         /\ \A c \in 0..m : Stood(t, Owner(r, c)) /\ Stood(t, Held(r, c))
         /\ Stood(t, Paused(r)) /\ Stood(t, Unpaused(r)) /\ Stood(t, Eased(r)) /\ Stood(t, Cleared(r))
<1>1. \A s : Alike(s, r) => Stood(t, s)
  BY DEF Alike, Stood
<1>2. \A a \in {"none", "missing", "uncertain", "owner"} : Alike(Noted(r, a), r)
  BY NotedThread
<1>3. \A c \in 0..m : Alike(Owner(r, c), r) /\ Alike(Held(r, c), r)
  BY OwnerThread, HeldThread
<1>4. 0 \in 0..m
  OBVIOUS
<1>5. Alike(Cleared(r), r)
  BY <1>4, HeldThread
<1>6. Alike(Paused(r), r) /\ Alike(Unpaused(r), r) /\ Alike(Eased(r), r)
  BY PausedThread, EasedThread
<1> QED
  BY <1>1, <1>2, <1>3, <1>5, <1>6

LEMMA RecordShapes ==
  ASSUME Formed, Lined, NEW t \in Threads
  PROVE  \E n, m \in Nat : /\ n = Len(home) /\ m = Len(child) /\ Shaped(n, m)
                           /\ record[t] \in Thread(n, m) /\ Loaded(t) \in Thread(n, m)
                           /\ Stood(t, record[t]) /\ Stood(t, Loaded(t))
                           /\ Loaded(t).process = record[t].process
<1>1. PICK n \in Nat, m \in Nat : n = Len(home) /\ m = Len(child) /\ Shaped(n, m)
  BY Sizes
<1>2. record[t] \in Thread(n, m) /\ record \in [Threads -> Thread(n, m)]
  BY <1>1 DEF Shaped
<1>3. Loaded(t) \in Thread(n, m) /\ Loaded(t).process = record[t].process
  BY <1>2, LoadedThread
<1> QED
  BY <1>1, <1>2, <1>3, LoadedKept

-------------------------------------------------------------------------------
(* The steps that let the slot and the queues be as the invariants say. *)

LEMMA BusyTold == ASSUME Formed, Formed', Told, Busy PROVE Told'
<1>1. UNCHANGED <<record, home, given, job, flight, recovered, lease, stopper>>
  BY DEF Busy, durable
<1>2. pump' = Ended(pump, FALSE) /\ pump.pc = "read"
  BY DEF Busy
<1>3. Steady
  BY <1>2 DEF Steady, Ended, Pass, Resting
<1>4. Lasting /\ Capturing
  BY <1>1, <1>2 DEF Lasting, Capturing, Told, Staged
<1> QED
  BY <1>1, <1>3, <1>4, ToldUnwritten

LEMMA DirectoryTold == ASSUME Formed, Formed', Told, NEW t \in Threads, Directory(t) PROVE Told'
<1>1. UNCHANGED <<record, home, given, job, flight, recovered, lease, pump, stopper>>
  BY DEF Directory, slot
<1> QED
  BY <1>1, SlotSame, ToldUnwritten DEF Told

LEMMA ExpireTold == ASSUME Formed, Formed', Told, NEW t \in Threads, Expire(t) PROVE Told'
<1>1. UNCHANGED <<record, home, given, job, flight, recovered, lease, pump, stopper>>
  BY DEF Expire, slot, durable
<1> QED
  BY <1>1, SlotSame, ToldUnwritten DEF Told

LEMMA ResumeTold == ASSUME Formed, Formed', Told, NEW t \in Threads, Resume(t) PROVE Told'
<1>1. /\ UNCHANGED <<record, home, given, flight, recovered, lease, pump, stopper>>
      /\ job' = [job EXCEPT ![t] = Asked("resume", 0)] /\ ~Locked(t)
  BY DEF Resume, slot, durable
<1>2. PICK a : a = Asked("resume", 0)
  OBVIOUS
<1>0. a.for = "resume"
  BY <1>2 DEF Asked
<1>3. \A u \in Threads : job'[u] = IF u = t THEN a ELSE job[u]
  BY <1>1, <1>2 DEF Formed, Shaped
<1>4. \A u \in Threads : /\ Serving(u)' <=> Serving(u)
                         /\ Sending(u)' => Sending(u) /\ job'[u].msg = job[u].msg
  BY <1>0, <1>1, <1>3 DEF Serving, Sending, Locked
<1>5. \A u \in Threads : Still(u) /\ Waits(u) /\ HeadKept(u)
  BY <1>1, SameStill
<1>6. Steady /\ Lasting /\ Capturing
  BY <1>1, SlotSame DEF Told
<1>7. Extended
  BY <1>1 DEF Extended, Formed
<1> QED
  BY <1>1, <1>4, <1>5, <1>6, <1>7, ToldKept

LEMMA SettledTold == ASSUME Formed, Formed', Told, NEW c \in 1..Len(child), Settled(c) PROVE Told'
<1>1. UNCHANGED <<record, home, given, job, flight, recovered>>
  BY DEF Settled
<1>2. IF Leased(c) THEN Settle(EndOf(c), pump, stopper) ELSE Stand
  BY DEF Settled
<1>3. CASE Leased(c) /\ Settle(EndOf(c), pump, stopper)
  <2>1. PICK l : l = EndOf(c)
    OBVIOUS
  <2>2. lease # None /\ (l = lease \/ l = Over(lease))
    BY <1>3, <2>1 DEF EndOf, SettledBy, Leased
  <2>3. pump.pc # "staging" /\ (stopper.mine => stopper.pc # "idle")
    BY <1>3 DEF Leased, Told, Staged
  <2>4. stopper \in Stopping(Len(child))
    BY Sizes, TypedSlot
  <2>5. Steady /\ Lasting /\ Capturing
    BY <1>3, <2>1, <2>2, <2>3, <2>4, SettleSteady DEF Told
  <2> QED
    BY <1>1, <2>5, ToldUnwritten
<1>4. CASE Stand
  BY <1>1, <1>4, SlotSame, ToldUnwritten DEF Told, Stand
<1> QED
  BY <1>2, <1>3, <1>4

LEMMA ChildDiesTold == ASSUME Formed, Formed', Told, NEW c \in 1..Len(child), ChildDies(c) PROVE Told'
<1>1. /\ UNCHANGED <<record, home, given, job, flight, recovered, pump, stopper>>
      /\ lease' = SettledBy(c) /\ c # 0
  BY DEF ChildDies
<1> QED
  BY <1>1, SettledBySteady, ToldUnwritten DEF Told

LEMMA StalledTold == ASSUME Formed, Formed', Told, NEW t \in Threads, Stalled(t) PROVE Told'
<1>1. PICK n, m \in Nat : Loaded(t) \in Thread(n, m) /\ Stood(t, Loaded(t))
  BY RecordShapes DEF Told
<1>2. PICK s : s = Noted(Loaded(t), "uncertain")
  OBVIOUS
<1>3. Stood(t, s)
  BY <1>1, <1>2, StoodAlike DEF Told
<1>4. /\ UNCHANGED <<home, given, job, flight, lease, pump, stopper>> /\ Write(t, s)
      /\ recovered \subseteq recovered'
  BY <1>2 DEF Stalled, slot, Load
<1> QED
  BY <1>3, <1>4, SlotSame, ToldWritten DEF Told

LEMMA StopTold == ASSUME Formed, Formed', Told, NEW t \in Threads, Stop(t) PROVE Told'
<1>1. PICK n, m \in Nat : Loaded(t) \in Thread(n, m) /\ Stood(t, Loaded(t))
  BY RecordShapes DEF Told
<1>2. PICK s : s = Paused(Loaded(t))
  OBVIOUS
<1>3. Stood(t, s)
  BY <1>1, <1>2, StoodAlike DEF Told
<1>4. /\ UNCHANGED <<home, given, job, flight, lease, pump>> /\ Write(t, s) /\ ~Locked(t)
      /\ recovered \subseteq recovered'
  BY <1>2 DEF Stop, Load
<1>5. /\ stopper'.thread = t /\ stopper'.pc = "inspect" /\ stopper'.child = owned[t]
      /\ stopper'.mine => lease # None /\ lease.thread = t /\ owned[t] \in {0, lease.gen}
  BY DEF Stop
<1>6. Steady
  BY <1>4, PumpSteady
<1>7. stopper'.mine => pump.pc # "staging"
  BY <1>4, <1>5 DEF Told, Staged, Engaged, Serving
<1>8. Capturing
  BY <1>5, <1>7 DEF Capturing
<1>9. Lasting
  BY <1>4 DEF Lasting
<1> QED
  BY <1>3, <1>4, <1>6, <1>8, <1>9, ToldWritten

\* onOwnedExit frees the slot only of a response that nobody delivers any more.
LEMMA ExitTold == ASSUME Formed, Formed', Told, Answerable, NEW x \in exits, Exit(x) PROVE Told'
<1>1. PICK n \in Nat, m \in Nat : n = Len(home) /\ m = Len(child) /\ Shaped(n, m)
  BY Sizes
<1>2. PICK c \in 1..m : c = x.child
  BY <1>1 DEF Shaped, Exiting
<1>3. PICK t \in Threads : t = child[c].thread
  <2>1. child[c] \in Process
    BY <1>1, <1>2 DEF Formed
  <2> QED
    BY <2>1 DEF Process
<1>4. UNCHANGED <<home, given, job, flight, recovered>>
  BY DEF Exit
<1>5. \/ Stand
      \/ Release(pump, stopper) /\ Leased(c) /\ (lease.acked \/ flight[t] # lease.msg)
  BY <1>2, <1>3 DEF Exit
<1>6. Steady /\ Lasting /\ Capturing
  <2>1. CASE Stand
    BY <2>1, SlotSame DEF Told, Stand
  <2>2. CASE Release(pump, stopper) /\ Leased(c) /\ (lease.acked \/ flight[t] # lease.msg)
    <3>1. lease # None /\ lease.gen = c /\ c # 0 /\ lease.thread = t
      BY <1>3, <2>2 DEF Leased, Answerable
    <3>2. pump.pc \notin {"staging", "prompt", "ack"}
      BY <2>2, <3>1 DEF Told, Staged, Engaged
    <3>3. lease' = None /\ pump' = Requested(pump) /\ stopper' = [stopper EXCEPT !.mine = FALSE]
      BY <2>2 DEF Release, Keep
    <3>4. ~stopper'.mine
      BY <1>1, <3>3, TypedSlot DEF Stopping
    <3>5. Steady /\ pump'.pc \notin {"staging", "prompt", "ack"}
      BY <3>2, <3>3, PumpSteady, RequestedSteady
    <3> QED
      BY <3>3, <3>4, <3>5 DEF Lasting, Capturing
  <2> QED
    BY <1>5, <2>1, <2>2
<1>7. CASE UNCHANGED record
  BY <1>4, <1>6, <1>7, ToldUnwritten
<1>8. CASE Write(t, IF record[t].process = c THEN Cleared(record[t]) ELSE record[t])
  <2>1. PICK v, w \in Nat : record[t] \in Thread(v, w) /\ Stood(t, record[t])
    BY RecordShapes DEF Told
  <2>2. PICK s : s = IF record[t].process = c THEN Cleared(record[t]) ELSE record[t]
    OBVIOUS
  <2>3. Stood(t, s)
    BY <2>1, <2>2, StoodAlike DEF Told
  <2> QED
    BY <1>4, <1>6, <1>8, <2>2, <2>3, ToldWritten
<1> QED
  BY <1>2, <1>3, <1>7, <1>8 DEF Exit

\* The lease of a stop call is its child's, or that of a process not owned.
LEMMA StopUnownedTold == ASSUME Formed, Formed', Told, StopUnowned PROVE Told'
<1>1. PICK t \in Threads : t = stopper.thread
  BY Sizes, TypedSlot DEF StopUnowned
<1>2. PICK n, m \in Nat : Loaded(t) \in Thread(n, m) /\ Stood(t, Loaded(t))
  BY RecordShapes DEF Told
<1>3. PICK r : r = Loaded(t)
  OBVIOUS
<1>4. \A s \in {Noted(r, "none"), Noted(r, "owner"), Cleared(r), r} : Stood(t, s)
  BY <1>2, <1>3, StoodAlike DEF Told
<1>5. /\ UNCHANGED <<home, given, job, flight>> /\ recovered \subseteq recovered'
      /\ \E s \in {Noted(r, "none"), Noted(r, "owner"), Cleared(r), r} : Write(t, s)
  BY <1>1, <1>3 DEF StopUnowned, Load
<1>6. Steady /\ Lasting /\ Capturing
  <2>1. \/ Keep(lease, pump, NoStop)
        \/ stopper.mine /\ \E l \in {lease, Over(lease)} : Settle(l, pump, NoStop)
    BY DEF StopUnowned
  <2>2. NoStop \in Stopping(Len(child)) /\ ~NoStop.mine
    BY Sizes, TypedSlot DEF NoStop
  <2>3. CASE Keep(lease, pump, NoStop)
    <3>1. lease' = lease /\ pump' = pump /\ stopper' = NoStop
      BY <2>3 DEF Keep
    <3> QED
      BY <2>2, <3>1, PumpSteady DEF Lasting, Capturing
  <2>4. CASE stopper.mine /\ \E l \in {lease, Over(lease)} : Settle(l, pump, NoStop)
    <3>1. lease # None /\ pump.pc # "staging"
      BY <2>4 DEF Told, Staged
    <3> QED
      BY <2>2, <2>4, <3>1, SettleSteady DEF Told
  <2> QED
    BY <2>1, <2>3, <2>4
<1> QED
  BY <1>4, <1>5, <1>6, ToldWritten

\* A stop call goes on with what it has captured.
LEMMA StopGoesOn ==
  ASSUME Formed, stopper.pc # "idle", NEW pc \in {"look", "confirm"}
  PROVE  LET s == [stopper EXCEPT !.pc = pc]
         IN /\ s \in Stopping(Len(child)) /\ s.pc = pc /\ s.mine = stopper.mine
            /\ s.thread = stopper.thread /\ s.child = stopper.child
<1>1. stopper \in Stopping(Len(child))
  BY Sizes, TypedSlot
<1> QED
  BY <1>1 DEF Stopping

LEMMA StopAbortsTold == ASSUME Formed, Formed', Told, StopAborts PROVE Told'
<1>1. PICK c : c = stopper.child /\ c # 0
  BY DEF StopAborts, Alive
<1>2. UNCHANGED <<home, given, job, flight, record, recovered>>
  BY DEF StopAborts
<1>3. PICK s : s = [stopper EXCEPT !.pc = "look"]
  OBVIOUS
<1>4. /\ s \in Stopping(Len(child)) /\ s.pc = "look" /\ s.mine = stopper.mine
      /\ s.thread = stopper.thread /\ s.child = stopper.child
  BY <1>3, StopGoesOn DEF StopAborts
<1>5. CASE Leased(c) /\ Settle(EndOf(c), pump, s)
  <2>1. lease # None /\ (EndOf(c) = lease \/ EndOf(c) = Over(lease))
    BY <1>5 DEF EndOf, SettledBy, Leased
  <2>2. pump.pc # "staging"
    BY <1>1, <1>5 DEF Leased, Told, Staged
  <2>3. Steady /\ Lasting /\ Capturing
    BY <1>4, <1>5, <2>1, <2>2, SettleSteady DEF Told
  <2> QED
    BY <1>2, <2>3, ToldUnwritten
<1>6. CASE Keep(lease, pump, s)
  <2>1. lease' = lease /\ pump' = pump /\ stopper' = s
    BY <1>6 DEF Keep
  <2>2. Steady /\ Lasting /\ Capturing
    BY <1>4, <2>1, PumpSteady DEF Lasting, Capturing, Told, Staged
  <2> QED
    BY <1>2, <2>2, ToldUnwritten
<1> QED
  BY <1>1, <1>3, <1>5, <1>6 DEF StopAborts

LEMMA StopLooksTold == ASSUME Formed, Formed', Told, StopLooks PROVE Told'
<1>1. UNCHANGED <<home, given, job, flight, record, recovered>>
  BY DEF StopLooks, durable
<1>2. PICK s : s = [stopper EXCEPT !.pc = "confirm"]
  OBVIOUS
<1>3. s.pc = "confirm" /\ s.mine = stopper.mine /\ s.thread = stopper.thread /\ s.child = stopper.child
  BY <1>2, StopGoesOn DEF StopLooks
<1>4. lease' = lease /\ pump' = pump /\ stopper' = s
  BY <1>2 DEF StopLooks, Keep
<1>5. Steady /\ Lasting /\ Capturing
  BY <1>3, <1>4, PumpSteady DEF Lasting, Capturing, Told, Staged
<1> QED
  BY <1>1, <1>5, ToldUnwritten

LEMMA StopUncertainTold == ASSUME Formed, Formed', Told, StopUncertain PROVE Told'
<1>1. PICK t \in Threads : t = stopper.thread
  BY Sizes, TypedSlot DEF StopUncertain
<1>2. PICK n, m \in Nat : Loaded(t) \in Thread(n, m) /\ Stood(t, Loaded(t))
  BY RecordShapes DEF Told
<1>3. PICK r : r = Noted(Loaded(t), "uncertain")
  OBVIOUS
<1>4. Stood(t, r)
  BY <1>2, <1>3, StoodAlike DEF Told
<1>5. lease' = lease /\ pump' = pump /\ ~stopper'.mine
  BY DEF StopUncertain, Keep, NoStop
<1>6. Steady /\ Lasting /\ Capturing
  BY <1>5, PumpSteady DEF Lasting, Capturing
<1>7. /\ UNCHANGED <<home, given, job, flight>> /\ recovered \subseteq recovered'
      /\ Write(t, r)
  BY <1>1, <1>3 DEF StopUncertain, Load
<1> QED
  BY <1>4, <1>6, <1>7, ToldWritten

LEMMA StopConfirmsTold == ASSUME Formed, Formed', Told, StopConfirms PROVE Told'
<1>1. PICK t \in Threads : t = stopper.thread
  BY Sizes, TypedSlot DEF StopConfirms
<1>2. PICK n, m \in Nat : Loaded(t) \in Thread(n, m) /\ Stood(t, Loaded(t))
  BY RecordShapes DEF Told
<1>3. PICK r : r = Noted(Loaded(t), "none")
  OBVIOUS
<1>4. Stood(t, r)
  BY <1>2, <1>3, StoodAlike DEF Told
<1>5. /\ UNCHANGED <<home, given, job, flight>> /\ recovered \subseteq recovered'
      /\ Write(t, r)
  BY <1>1, <1>3 DEF StopConfirms, Load
<1>6. Steady /\ Lasting /\ Capturing
  <2>1. \/ Keep(lease, pump, NoStop)
        \/ stopper.mine /\ Settle(Over(lease), pump, NoStop)
    BY DEF StopConfirms
  <2>2. NoStop \in Stopping(Len(child)) /\ ~NoStop.mine
    BY Sizes, TypedSlot DEF NoStop
  <2>3. CASE Keep(lease, pump, NoStop)
    <3>1. lease' = lease /\ pump' = pump /\ stopper' = NoStop
      BY <2>3 DEF Keep
    <3> QED
      BY <2>2, <3>1, PumpSteady DEF Lasting, Capturing
  <2>4. CASE stopper.mine /\ Settle(Over(lease), pump, NoStop)
    <3>1. lease # None /\ pump.pc # "staging"
      BY <2>4 DEF Told, Staged
    <3> QED
      BY <2>2, <2>4, <3>1, SettleSteady DEF Told
  <2> QED
    BY <2>1, <2>3, <2>4
<1> QED
  BY <1>4, <1>5, <1>6, ToldWritten

\* A victim's job goes on under its lock.
LEMMA RetireTold == ASSUME Formed, Formed', Told, Placed, NEW k \in retire, Retire(k) PROVE Told'
<1>1. PICK n \in Nat, m \in Nat : n = Len(home) /\ m = Len(child) /\ Shaped(n, m)
  BY Sizes
<1>2. PICK c \in 0..m, u \in Threads, f \in Threads \cup {None} : c = k.child /\ u = k.thread /\ f = k.for
  BY <1>1 DEF Shaped, Retiring
<1>3. c # 0 /\ (f # None => f \in Threads /\ job[f].pc = "evicting")
  <2>1. Homed(c, u)
    BY <1>2 DEF Placed, Housed
  <2>2. c # 0
    BY <2>1 DEF Homed
  <2>3. f # None => f \in Threads /\ job[f].pc = "evicting"
    BY <1>2 DEF Placed, Counted
  <2> QED
    BY <2>2, <2>3
<1>4. UNCHANGED <<home, given, flight, recovered, pump, stopper>>
  BY DEF Retire
<1>5. lease' = lease \/ lease' = SettledBy(c)
  BY <1>2 DEF Retire
<1>6. Steady /\ Lasting /\ Capturing
  BY <1>3, <1>4, <1>5, SlotSame, SettledBySteady DEF Told
<1>7. \/ UNCHANGED job
      \/ f # None /\ \E pc \in {"capacity", "spawn"} : job' = [job EXCEPT ![f].pc = pc]
  BY <1>2 DEF Retire
<1>8. ASSUME NEW t \in Threads
      PROVE  /\ Locked(t)' <=> Locked(t)
             /\ job'[t].for = job[t].for /\ job'[t].msg = job[t].msg
  <2>1. CASE UNCHANGED job
    BY <2>1 DEF Locked
  <2>2. CASE f # None /\ \E pc \in {"capacity", "spawn"} : job' = [job EXCEPT ![f].pc = pc]
    <3>1. PICK pc \in {"capacity", "spawn"} : job' = [job EXCEPT ![f].pc = pc]
      BY <2>2
    <3>2. PICK j \in Jobs(n, m) : j = job[f]
      BY <1>1, <1>3, <2>2 DEF Shaped
    <3>3. job'[f] = [j EXCEPT !.pc = pc] /\ (t # f => job'[t] = job[t])
      BY <1>1, <1>3, <2>2, <3>1, <3>2 DEF Shaped
    <3>4. job'[f].pc = pc /\ job'[f].for = j.for /\ job'[f].msg = j.msg
      BY <3>2, <3>3 DEF Jobs
    <3> QED
      BY <1>3, <2>2, <3>2, <3>3, <3>4 DEF Locked
  <2> QED
    BY <1>7, <2>1, <2>2
<1>9. \A t \in Threads : Still(t) /\ Waits(t) /\ HeadKept(t)
  <2>1. CASE UNCHANGED record
    BY <2>1, SameStill
  <2>2. CASE Write(u, Held(Loaded(u), c))
    <3>1. PICK v, w \in Nat : w = Len(child) /\ Loaded(u) \in Thread(v, w) /\ Stood(u, Loaded(u))
      BY RecordShapes DEF Told
    <3>2. PICK s : s = Held(Loaded(u), c)
      OBVIOUS
    <3>3. Stood(u, s)
      BY <1>1, <3>1, <3>2, StoodAlike DEF Told
    <3> QED
      BY <2>2, <3>2, <3>3, WriteStill DEF Told
  <2> QED
    BY <1>2, <2>1, <2>2 DEF Retire
<1>10. \A t \in Threads : /\ Serving(t)' <=> Serving(t)
                          /\ Sending(t)' => Sending(t) /\ job'[t].msg = job[t].msg /\ Still(t)
  BY <1>8, <1>9 DEF Serving, Sending
<1>11. Extended
  BY <1>4 DEF Extended, Formed
<1> QED
  BY <1>4, <1>6, <1>9, <1>10, <1>11, ToldKept

LEMMA SendTold == ASSUME Formed, Formed', Told, NEW t \in Threads, Send(t) PROVE Told'
<1>1. PICK id \in 1..Len(home) + 1 :
        /\ home' = IF id > Len(home) THEN Append(home, t) ELSE home
        /\ home'[id] = t
        /\ \/ /\ Known(Loaded(t), id)
              /\ Write(t, Loaded(t)) /\ UNCHANGED <<pump, job>>
           \/ /\ ~Known(Loaded(t), id)
              /\ Write(t, Loaded(t)) /\ job' = [job EXCEPT ![t] = Asked("send", id)] /\ UNCHANGED pump
           \/ /\ ~Known(Loaded(t), id)
              /\ Write(t, Enqueued(Loaded(t), id)) /\ pump' = Requested(pump)
              /\ UNCHANGED job
  BY DEF Send
<1>2. /\ UNCHANGED <<given, flight, lease, stopper>> /\ ~Locked(t)
      /\ recovered \subseteq recovered'
  BY DEF Send, Load
<1>3. Steady /\ Lasting /\ Capturing
  BY <1>1, <1>2, SlotSame DEF Told
<1>4. Len(home) \in Nat /\ Extended /\ id # 0 /\ id \in 1..Len(home')
  <2>1. /\ Len(home) \in Nat /\ Len(Append(home, t)) = Len(home) + 1
        /\ \A i \in 1..Len(home) : Append(home, t)[i] = home[i]
    BY AppendHome
  <2>2. CASE id > Len(home)
    BY <1>1, <2>1, <2>2 DEF Extended
  <2>3. CASE ~(id > Len(home))
    BY <1>1, <2>1, <2>3 DEF Extended
  <2> QED
    BY <2>2, <2>3
<1>5. PICK n \in Nat, m \in Nat : /\ n = Len(home) /\ m = Len(child) /\ Loaded(t) \in Thread(n, m)
                                  /\ Stood(t, Loaded(t))
  BY RecordShapes DEF Told
<1>6. Known(Loaded(t), id) <=> Known(record[t], id)
  BY <1>5, StoodKept DEF Told
<1>7. CASE Write(t, Loaded(t))
  <2>1. \A u \in Threads : Still(u) /\ Waits(u) /\ HeadKept(u)
    BY <1>5, <1>7, WriteStill DEF Told
  <2>2. CASE UNCHANGED job
    <3>1. \A u \in Threads : (Serving(u)' <=> Serving(u)) /\ (Sending(u)' <=> Sending(u))
      BY <2>2 DEF Serving, Sending, Locked
    <3> QED
      BY <1>1, <1>2, <1>3, <1>4, <2>1, <2>2, <3>1, ToldKept
  <2>3. CASE ~Known(Loaded(t), id) /\ job' = [job EXCEPT ![t] = Asked("send", id)]
    <3>1. PICK a : a = Asked("send", id)
      OBVIOUS
    <3>2. a.for = "send" /\ a.msg = id
      BY <3>1 DEF Asked
    <3>3. \A u \in Threads : job'[u] = IF u = t THEN a ELSE job[u]
      BY <2>3, <3>1 DEF Formed, Shaped
    <3>4. ~Known(record[t], job[t].msg)'
      <4>1. record'[t] = Loaded(t)
        BY <1>7, Wrote
      <4>2. ~Known(record'[t], job'[t].msg)
        BY <2>3, <3>2, <3>3, <4>1
      <4> QED
        BY <4>2 DEF Known, Items
    <3>5. \A u \in Threads :
            /\ Serving(u)' <=> Serving(u)
            /\ u # t => (Sending(u)' => Sending(u) /\ job'[u].msg = job[u].msg /\ Still(u))
      BY <1>2, <2>1, <3>2, <3>3 DEF Serving, Sending, Locked
    <3>6. job'[t].msg # 0 /\ home'[job'[t].msg] = t
      BY <1>1, <1>4, <3>2, <3>3
    <3>7. \A u \in Threads : Sending(u)' =>
            \/ Sending(u) /\ job'[u].msg = job[u].msg /\ Still(u)
            \/ job'[u].msg # 0 /\ home'[job'[u].msg] = u /\ ~Known(record[u], job[u].msg)'
      BY <3>4, <3>5, <3>6
    <3> QED
      BY <1>1, <1>2, <1>3, <1>4, <2>1, <3>5, <3>7, ToldKept
  <2> QED
    BY <1>1, <2>2, <2>3
<1>8. CASE ~Known(Loaded(t), id) /\ Write(t, Enqueued(Loaded(t), id)) /\ UNCHANGED job
  <2>1. PICK v \in Nat : v = Len(home') /\ Loaded(t) \in Thread(v, m) /\ id \in 1..v
    <3>1. PICK v \in Nat : v = Len(home') /\ n <= v
      BY <1>4, <1>5 DEF Formed, Extended
    <3>2. Thread(n, m) \subseteq Thread(v, m)
      <4>1. Message(n) \subseteq Message(v)
        BY <3>1 DEF Message
      <4>2. Seq(Message(n)) \subseteq Seq(Message(v))
        BY <4>1, SeqDef
      <4> QED
        BY <4>2 DEF Thread
    <3> QED
      BY <1>4, <1>5, <3>1, <3>2
  <2>2. \A u \in Threads : Waits(u) /\ HeadKept(u) /\ (u # t => Still(u))
    BY <1>1, <1>5, <1>6, <1>8, <2>1, WriteWaits DEF Told
  <2>3. \A u \in Threads : /\ Serving(u)' <=> Serving(u)
                           /\ Sending(u)' => Sending(u) /\ job'[u].msg = job[u].msg /\ Still(u)
    BY <1>2, <1>8, <2>2 DEF Serving, Sending, Locked
  <2> QED
    BY <1>1, <1>2, <1>3, <1>4, <2>2, <2>3, ToldKept
<1> QED
  BY <1>1, <1>7, <1>8

-------------------------------------------------------------------------------
(* The head of a queue leaves it, or is written under another id. *)

LEMMA WithoutHead ==
  ASSUME NEW n \in Nat, NEW m \in Nat, NEW r \in Thread(n, m), NEW id, 1 \in 1..Len(r.queue),
         r.queue[1].id = id, \A i, j \in 1..Len(r.queue) : r.queue[i].id = r.queue[j].id => i = j
  PROVE  /\ Without(r, id).accepted = r.accepted /\ Without(r, id).process = r.process
         /\ Without(r, id) \in Thread(n, m)
         /\ Len(Without(r, id).queue) = Len(r.queue) - 1
         /\ \A j \in 1..Len(r.queue) - 1 : Without(r, id).queue[j] = r.queue[j + 1]
<1>1. PICK q \in Seq(Message(n)) : q = r.queue
  BY QueueOf
<1>2. Len(q) \in Nat /\ Len(q) >= 1 /\ q[1] \in Message(n)
  BY <1>1
<1>3. \E item \in Items(r) : item.id = id
  BY DEF Items
<1>4. PICK i : i = CHOOSE k \in 1..Len(q) : q[k].id = id
  OBVIOUS
<1>5. i = 1
  BY <1>1, <1>2, <1>4
<1>6. PICK o : o = RemoveAt(q, 1)
  OBVIOUS
<1>7. o \in Seq(Message(n)) /\ Len(o) = Len(q) - 1 /\ \A j \in 1..Len(q) - 1 : o[j] = q[j + 1]
  <2>1. 1 \in 1..Len(q)
    BY <1>2
  <2>2. /\ RemoveAt(q, 1) \in Seq(Message(n)) /\ Len(RemoveAt(q, 1)) = Len(q) - 1
        /\ \A j \in 1..Len(q) - 1 : RemoveAt(q, 1)[j] = q[IF j < 1 THEN j ELSE j + 1]
    BY <2>1, RemoveSeq
  <2> QED
    BY <1>6, <2>2
<1>8. Without(r, id) = [r EXCEPT !.queue = o]
  BY <1>1, <1>3, <1>4, <1>5, <1>6 DEF Without
<1>9. /\ Without(r, id) \in Thread(n, m) /\ Without(r, id).queue = o
      /\ Without(r, id).accepted = r.accepted /\ Without(r, id).process = r.process
  BY <1>7, <1>8, Requeued
<1> QED
  BY <1>1, <1>7, <1>9

\* The order of the other messages is kept.
LEMMA LeftLined ==
  ASSUME Formed, Formed', Lined, Extended, NEW t \in Threads, NEW q, q = record'[t].queue,
         NEW k \in 0..1,
         Len(q) = Len(record[t].queue) - k,
         \A j \in 1..Len(q) : \/ q[j].id = record[t].queue[j + k].id
                              \/ j = 1 /\ home'[q[1].id] = t
                                       /\ \A i \in 1..Len(record[t].queue) : record[t].queue[i].id # q[1].id,
         \A j \in 2..Len(q) : q[j].state = "queued"
  PROVE  Ordered(t)'
<1>1. PICK p : p = record[t].queue
  OBVIOUS
<1>2. /\ Len(p) \in Nat /\ Len(home) \in Nat /\ \A i \in 1..Len(p) : p[i].id \in 1..Len(home)
  <2>1. Len(home) \in Nat
    BY DEF Formed
  <2> QED
    BY <1>1, <2>1, QueueShape
<1>3. /\ \A i \in 1..Len(p) : home[p[i].id] = t
      /\ \A i, j \in 1..Len(p) : p[i].id = p[j].id => i = j
  BY <1>1 DEF Lined, Ordered
<1>4. \A j \in 1..Len(q) : j + k \in 1..Len(p)
  BY <1>1, <1>2
<1>5. \A j \in 1..Len(q) : \/ q[j].id = p[j + k].id
                           \/ j = 1 /\ home'[q[j].id] = t /\ \A i \in 1..Len(p) : p[i].id # q[j].id
  BY <1>1
<1>6. ASSUME NEW j \in 1..Len(q) PROVE home'[q[j].id] = t
  <2>1. CASE q[j].id = p[j + k].id
    <3>1. j + k \in 1..Len(p)
      BY <1>4
    <3>2. q[j].id \in 1..Len(home) /\ home[q[j].id] = t
      BY <1>2, <1>3, <2>1, <3>1
    <3> QED
      BY <3>2 DEF Extended
  <2> QED
    BY <1>5, <2>1
<1>7. \A i, j \in 1..Len(q) : q[i].id = q[j].id => i = j
  <2>1. SUFFICES ASSUME NEW i \in 1..Len(q), NEW j \in 1..Len(q), q[i].id = q[j].id PROVE i = j
    OBVIOUS
  <2>2. CASE q[i].id = p[i + k].id /\ q[j].id = p[j + k].id
    <3>1. i + k = j + k
      BY <1>3, <1>4, <2>1, <2>2
    <3> QED
      BY <3>1
  <2>3. CASE ~(q[i].id = p[i + k].id) \/ ~(q[j].id = p[j + k].id)
    BY <1>4, <1>5, <2>1, <2>3
  <2> QED
    BY <2>2, <2>3
<1> QED
  BY <1>6, <1>7 DEF Ordered

LEMMA OnceElsewhere ==
  ASSUME Formed, Once, Extended, NEW t \in Threads, given' \subseteq given,
         \A u \in Threads : u # t => record'[u] = record[u],
         \A id \in given' : home[id] = t => Known(record[t], id)',
         \A i \in 1..Len(record'[t].queue) :
           record'[t].queue[i].id \in given' => record'[t].queue[i].state # "queued"
  PROVE  /\ \A id \in given' : Known(record[home[id]], id)'
         /\ \A u \in Threads : \A i \in 1..Len(record'[u].queue) :
              record'[u].queue[i].id \in given' => record'[u].queue[i].state # "queued"
<1>1. given \subseteq 1..Len(home) /\ \A id \in 1..Len(home) : home[id] \in Threads
  BY DEF Formed, Shaped
<1>2. ASSUME NEW id \in given' PROVE Known(record[home[id]], id)'
  <2>1. PICK u \in Threads : u = home[id] /\ u = home'[id]
    BY <1>1 DEF Extended
  <2>2. Known(record[u], id)'
    <3>1. CASE u = t
      BY <2>1, <3>1
    <3>2. CASE u # t
      <4>1. Known(record[u], id) /\ record'[u] = record[u]
        BY <1>1, <2>1, <3>2 DEF Once
      <4> QED
        BY <4>1 DEF Known, Items
    <3> QED
      BY <3>1, <3>2
  <2> QED
    BY <2>1, <2>2 DEF Known, Items
<1>3. ASSUME NEW u \in Threads, NEW i \in 1..Len(record'[u].queue), record'[u].queue[i].id \in given'
      PROVE  record'[u].queue[i].state # "queued"
  <2>1. CASE u = t
    BY <1>3, <2>1
  <2>2. CASE u # t
    BY <1>3, <2>2 DEF Once
  <2> QED
    BY <2>1, <2>2
<1> QED
  BY <1>2, <1>3

\* An uncertain message is the head of its queue, and nobody delivers it.
LEMMA DiscardTold == ASSUME Formed, Formed', Told, NEW t \in Threads, Discard(t) PROVE Told'
<1>1. PICK n \in Nat, m \in Nat : /\ n = Len(home) /\ m = Len(child) /\ Shaped(n, m)
                                  /\ Loaded(t) \in Thread(n, m) /\ Stood(t, Loaded(t))
  BY RecordShapes DEF Told
<1>2. PICK r \in Thread(n, m) : r = Loaded(t)
  BY <1>1
<1>3. PICK item \in Items(r) :
        /\ item.state = "uncertain"
        /\ \/ Write(t, Without(r, item.id)) /\ UNCHANGED home
           \/ home' = Append(home, t) /\ Write(t, Resent(r, item.id, n + 1))
        /\ given' = given \ {item.id}
  BY <1>1, <1>2 DEF Discard
<1>4. /\ UNCHANGED <<lease, stopper, job>> /\ pump' = Requested(pump) /\ ~Locked(t)
      /\ recovered \subseteq recovered' /\ flight' = [flight EXCEPT ![t] = 0]
  BY DEF Discard, Load
<1>5. PICK p, q : p = record[t].queue /\ q = r.queue
  OBVIOUS
<1>6. /\ Len(p) \in Nat /\ Len(q) = Len(p) /\ r.accepted = record[t].accepted
      /\ \A i \in 1..Len(p) : /\ p[i].id \in 1..n /\ q[i].id = p[i].id
                              /\ q[i].state = p[i].state \/ i = 1
      /\ t \in recovered => q = p
  <2>1. Len(p) \in Nat /\ \A i \in 1..Len(p) : p[i].id \in 1..n
    BY <1>1, <1>5, QueueShape
  <2> QED
    BY <1>1, <1>2, <1>5, <2>1, StoodKept DEF Told
<1>7. /\ \A i, j \in 1..Len(p) : p[i].id = p[j].id => i = j
      /\ \A i \in 2..Len(p) : p[i].state = "queued"
  BY <1>5 DEF Told, Lined, Ordered
<1>8. 1 \in 1..Len(q) /\ item = q[1] /\ \A j \in 2..Len(q) : q[j].state = "queued" /\ q[j].id # item.id
  <2>1. PICK i \in 1..Len(q) : item = q[i]
    BY <1>5 DEF Items
  <2>2. i = 1
    BY <1>3, <1>6, <1>7, <2>1
  <2> QED
    BY <1>6, <1>7, <2>1, <2>2
<1>9. Len(home) \in Nat /\ Extended
  <2>1. /\ Len(home) \in Nat /\ Len(Append(home, t)) = Len(home) + 1
        /\ \A i \in 1..Len(home) : Append(home, t)[i] = home[i]
    BY AppendHome
  <2> QED
    BY <1>3, <2>1 DEF Extended
<1>10. \A u \in Threads : u # t => record'[u] = record[u]
  BY <1>3, Wrote
<1>11. \A id : Known(record[t], id) <=> Known(r, id)
  BY <1>1, <1>2, StoodKept DEF Told
<1>12. /\ Ordered(t)'
       /\ \A id \in given' : home[id] = t => Known(record[t], id)'
       /\ \A i \in 1..Len(record'[t].queue) :
            record'[t].queue[i].id \in given' => record'[t].queue[i].state # "queued"
  <2>1. ASSUME NEW id \in given', home[id] = t
        PROVE  id # item.id /\ \/ \E j \in 2..Len(q) : q[j].id = id
                               \/ \E j \in 1..Len(r.accepted) : r.accepted[j] = id
    <3>1. id \in given /\ id # item.id
      BY <1>3
    <3>2. Known(r, id)
      BY <1>11, <2>1, <3>1 DEF Told, Once
    <3> QED
      BY <1>5, <1>6, <1>8, <3>1, <3>2, KnownIn
  <2>2. ASSUME NEW j \in 2..Len(q) PROVE q[j].id \notin given
    <3>1. j \in 1..Len(p) /\ j \in 2..Len(p)
      BY <1>6
    <3>2. p[j].state = "queued" /\ q[j].id = p[j].id
      BY <1>6, <1>7, <3>1
    <3>3. p[j].id \in given => p[j].state # "queued"
      BY <1>5, <3>1 DEF Told, Once
    <3> QED
      BY <3>2, <3>3
  <2>3. CASE Write(t, Without(r, item.id)) /\ UNCHANGED home
    <3>1. PICK s \in Thread(n, m) : s = Without(r, item.id) /\ s.accepted = r.accepted
                         /\ Len(s.queue) = Len(q) - 1 /\ \A j \in 1..Len(q) - 1 : s.queue[j] = q[j + 1]
      <4>1. \A i, j \in 1..Len(r.queue) : r.queue[i].id = r.queue[j].id => i = j
        BY <1>5, <1>6, <1>7
      <4>2. 1 \in 1..Len(r.queue) /\ r.queue[1].id = item.id
        BY <1>5, <1>8
      <4>3. PICK s : s = Without(r, item.id)
        OBVIOUS
      <4>4. /\ s \in Thread(n, m) /\ s.accepted = r.accepted /\ Len(s.queue) = Len(r.queue) - 1
            /\ \A j \in 1..Len(r.queue) - 1 : s.queue[j] = r.queue[j + 1]
        BY <4>1, <4>2, <4>3, WithoutHead
      <4> QED
        BY <1>5, <4>3, <4>4
    <3>2. record'[t] = s
      BY <2>3, <3>1, Wrote
    <3>3. PICK o : o = s.queue /\ Len(o) = Len(q) - 1 /\ \A j \in 1..Len(o) : o[j] = q[j + 1]
      BY <1>6, <3>1
    <3>4. \A j \in 1..Len(o) : j + 1 \in 2..Len(q)
      BY <1>6, <3>3
    <3>5. Ordered(t)'
      <4>1. \A j \in 1..Len(o) : o[j].id = p[j + 1].id /\ o[j].state = "queued"
        BY <1>6, <1>8, <3>3, <3>4, SMTT(30)
      <4>2. Len(o) = Len(p) - 1 /\ \A j \in 2..Len(o) : o[j].state = "queued"
        BY <1>6, <3>3, <4>1
      <4>3. o = record'[t].queue /\ Len(o) = Len(record[t].queue) - 1 /\ 1 \in 0..1
        BY <1>5, <3>2, <3>3, <4>2
      <4>4. \A j \in 1..Len(o) : o[j].id = record[t].queue[j + 1].id
        BY <1>5, <4>1, SMTT(30)
      <4> QED
        BY <1>9, <4>2, <4>3, <4>4, LeftLined DEF Told
    <3>6. \A i \in 1..Len(o) : o[i].id \notin given'
      BY <1>3, <2>2, <3>3, <3>4
    <3>7. \A j \in 2..Len(q) : j - 1 \in 1..Len(o) /\ o[j - 1] = q[j]
      BY <1>6, <3>3
    <3>8. ASSUME NEW id \in given', home[id] = t PROVE Known(record'[t], id)
      <4>1. CASE \E j \in 2..Len(q) : q[j].id = id
        BY <3>2, <3>3, <3>7, <4>1, KnownIn
      <4>2. CASE \E j \in 1..Len(r.accepted) : r.accepted[j] = id
        BY <3>1, <3>2, <4>2, KnownIn
      <4> QED
        BY <2>1, <3>8, <4>1, <4>2
    <3> QED
      BY <3>2, <3>3, <3>5, <3>6, <3>8 DEF Known, Items
  <2>4. CASE home' = Append(home, t) /\ Write(t, Resent(r, item.id, n + 1))
    <3>1. /\ home'[n + 1] = t /\ n + 1 \notin given /\ n + 1 \in 1..n + 1
      BY <1>1, <2>4, AppendHome DEF Shaped
    <3>2. r \in Thread(n + 1, m)
      <4>1. Message(n) \subseteq Message(n + 1)
        BY DEF Message
      <4>2. Seq(Message(n)) \subseteq Seq(Message(n + 1))
        BY <4>1, SeqDef
      <4> QED
        BY <4>2 DEF Thread
    <3>3. PICK s : /\ s = Resent(r, item.id, n + 1) /\ s.accepted = r.accepted
                   /\ Len(s.queue) = Len(q)
                   /\ \A i \in 1..Len(q) : s.queue[i] =
                        IF q[i].id = item.id THEN [id |-> n + 1, state |-> "queued"] ELSE q[i]
      BY <1>5, <3>1, <3>2, ResentThread
    <3>4. record'[t] = s
      BY <2>4, <3>3, Wrote
    <3>5. PICK o : o = s.queue
      OBVIOUS
    <3>6. /\ Len(o) = Len(q) /\ o[1] = [id |-> n + 1, state |-> "queued"]
          /\ \A j \in 2..Len(q) : o[j] = q[j]
      BY <1>6, <1>8, <3>3, <3>5
    <3>7. o[1].id = n + 1
      BY <3>6
    <3>8. Ordered(t)'
      <4>1. \A j \in 2..Len(o) : o[j].id = p[j].id /\ o[j].state = "queued"
        BY <1>6, <1>8, <3>6
      <4>2. \A i \in 1..Len(p) : p[i].id # o[1].id
        BY <1>6, <3>7
      <4>3. Len(o) = Len(p) - 0 /\ \A j \in 1..Len(o) : j + 0 = j /\ (j = 1 \/ j \in 2..Len(o))
        BY <1>6, <3>6
      <4>4. \A j \in 1..Len(o) : \/ o[j].id = p[j + 0].id
                                 \/ j = 1 /\ home'[o[1].id] = t /\ \A i \in 1..Len(p) : p[i].id # o[1].id
        BY <3>1, <3>7, <4>1, <4>2, <4>3
      <4>5. o = record'[t].queue /\ Len(o) = Len(record[t].queue) - 0 /\ 0 \in 0..1
        BY <1>5, <3>4, <3>5, <4>3
      <4>6. \A j \in 1..Len(o) :
              \/ o[j].id = record[t].queue[j + 0].id
              \/ j = 1 /\ home'[o[1].id] = t
                       /\ \A i \in 1..Len(record[t].queue) : record[t].queue[i].id # o[1].id
        BY <1>5, <4>4
      <4> QED
        BY <1>9, <4>1, <4>5, <4>6, LeftLined, ZenonT(40) DEF Told
    <3>9. \A i \in 1..Len(o) : o[i].id \notin given'
      BY <1>3, <1>6, <2>2, <3>1, <3>6, <3>7
    <3>10. \A id \in given' : home[id] = t => Known(record'[t], id)
      <4>1. \A j \in 2..Len(q) : j \in 1..Len(o) /\ o[j] = q[j]
        BY <1>6, <3>6
      <4> QED
        BY <2>1, <3>3, <3>4, <3>5, <4>1, KnownIn
    <3> QED
      BY <3>4, <3>5, <3>8, <3>9, <3>10 DEF Known, Items
  <2> QED
    BY <1>3, <2>3, <2>4
<1>13. \A u \in Threads : Ordered(u)'
  <2>1. \A u \in Threads : u # t => Waits(u)
    BY <1>10, SameStill
  <2> QED
    BY <1>9, <1>12, <2>1, LinesKept DEF Told
<1>14. Lined'
  <2>1. \A u \in Threads : Sending(u)' => Sending(u) /\ u # t
    BY <1>4 DEF Sending, Locked
  <2>2. \A u \in Threads : Sending(u)' => Sending(u) /\ job'[u].msg = job[u].msg /\ Still(u)
    BY <1>4, <1>10, <2>1, SameStill
  <2> QED
    BY <1>9, <1>13, <2>2, SendsKept DEF Told
<1>15. t = pump.thread => pump.pc \notin {"staging", "prompt", "ack"}
  <2>1. ASSUME t = pump.thread, pump.pc \in {"prompt", "ack"} PROVE FALSE
    <3>1. t \in recovered /\ record[t].queue[1] = [id |-> pump.msg, state |-> "delivering"]
      BY <2>1 DEF Told, Staged, AtHead
    <3> QED
      BY <1>3, <1>5, <1>6, <1>8, <3>1
  <2>2. ASSUME t = pump.thread, pump.pc = "staging" PROVE FALSE
    BY <1>4, <2>2 DEF Told, Staged, Serving
  <2> QED
    BY <2>1, <2>2
<1>16. Steady /\ Lasting /\ Capturing
  BY <1>4, SlotSame DEF Told
<1>17. Staged'
  <2>1. \A u \in Threads : Serving(u)' <=> Serving(u)
    BY <1>4 DEF Serving, Locked
  <2>2. \A u \in Threads : u # t => HeadKept(u)
    BY <1>10, SameStill
  <2>3. pump'.pc \in {"prompt", "ack"} => flight'[pump.thread] = flight[pump.thread]
    <3>1. ASSUME pump'.pc \in {"prompt", "ack"} PROVE flight'[pump.thread] = flight[pump.thread]
      <4>1. pump.pc \in {"prompt", "ack"}
        BY <1>16, <3>1 DEF Steady
      <4>2. pump.thread \in Threads /\ pump.thread # t
        BY <1>1, <1>15, <4>1, TypedSlot
      <4> QED
        BY <1>1, <1>4, <4>2 DEF Shaped
    <3> QED
      BY <3>1
  <2> QED
    BY <1>4, <1>15, <1>16, <2>1, <2>2, <2>3, StagedKept DEF Told
<1>18. /\ pump'.pc = "prompt" => pump'.msg \notin given'
       /\ pump'.pc = "ack" /\ pump'.reply = "refused" => pump'.msg \notin given'
  BY <1>3, <1>16 DEF Steady, Told, Once
<1>19. Once'
  BY <1>3, <1>9, <1>10, <1>12, <1>18, OnceElsewhere DEF Told, Once
<1> QED
  BY <1>14, <1>17, <1>19 DEF Told

-------------------------------------------------------------------------------
(* The pump's own steps. *)

\* Between two hand-overs nothing is promised of the head.
LEMMA StagedRests ==
  ASSUME pump'.pc \notin {"staging", "prompt", "ack"}, \A t \in Threads : ~Serving(t)',
         pump'.pc = "stage" => lease' = None,
         stopper'.mine => /\ lease' # None /\ lease'.thread = stopper'.thread /\ stopper'.pc # "idle"
                          /\ stopper'.child \in {0, lease'.gen},
         lease' # None /\ lease'.orphan => lease'.gen = 0
  PROVE  Staged'
  BY DEF Staged

LEMMA JudgeTold == ASSUME Formed, Formed', Told, Judge PROVE Told'
<1>1. UNCHANGED <<home, given, job>> /\ lease = None /\ \A t \in Threads : ~Locked(t)
  BY DEF Judge
<1>2. stopper' = stopper /\ ~stopper.mine
  BY <1>1, JudgeStep DEF Keep, Told, Staged
<1>3. PICK n \in Nat, m \in Nat : n = Len(home) /\ m = Len(child) /\ Shaped(n, m)
  BY Sizes
<1>4. \A t \in Threads : ~Serving(t)' /\ ~Sending(t)'
  BY <1>1 DEF Serving, Sending, Locked
<1>5. /\ pump'.pc \in {"idle", "read", "stage"}
      /\ pump'.pc = "stage" => lease' = None
      /\ lease' # None => lease'.gen = 0
  <2>1. ASSUME NEW free \in BOOLEAN PROVE Ended(pump, free).pc \in {"idle", "read"}
    BY DEF Ended, Pass, Resting
  <2>2. ASSUME NEW t, NEW id PROVE Chosen(pump, t, id).pc = "stage"
    <3>1. pump \in Passes(n, m)
      BY <1>3, TypedSlot
    <3> QED
      BY <3>1 DEF Chosen, Passes
  <2>3. CASE \E t \in Strangers :
               Keep([thread |-> t, msg |-> 0, gen |-> 0, settled |-> FALSE, acked |-> TRUE,
                     orphan |-> TRUE], Ended(pump, FALSE), stopper)
    <3>1. PICK t \in Strangers : /\ pump' = Ended(pump, FALSE)
                                 /\ lease' = [thread |-> t, msg |-> 0, gen |-> 0, settled |-> FALSE,
                                              acked |-> TRUE, orphan |-> TRUE]
      BY <2>3 DEF Keep
    <3>2. lease'.gen = 0
      BY <3>1
    <3> QED
      BY <2>1, <3>1, <3>2
  <2>4. CASE Keep(lease, Ended(pump, TRUE), stopper)
    BY <1>1, <2>1, <2>4 DEF Keep
  <2>5. CASE \E t \in Threads : Keep(lease, Chosen(pump, t, Head(Loaded(t).queue).id), stopper)
    BY <1>1, <2>2, <2>5 DEF Keep
  <2> QED
    BY <2>3, <2>4, <2>5, JudgeStep
<1>6. Staged'
  BY <1>2, <1>4, <1>5, StagedRests
<1>7. ASSUME NEW u \in Threads PROVE Waits(u)
  <2>1. record'[u] \in {Loaded(u), Noted(Loaded(u), "owner")}
    BY JudgeStep
  <2>2. PICK v, w \in Nat : Loaded(u) \in Thread(v, w) /\ Stood(u, Loaded(u))
    BY RecordShapes DEF Told
  <2>3. Stood(u, Noted(Loaded(u), "owner"))
    BY <2>2, StoodAlike DEF Told
  <2> QED
    BY <2>1, <2>2, <2>3, StoodStill DEF Told
<1>8. Extended
  BY <1>1 DEF Extended, Formed
<1>9. Lined' /\ Once'
  BY <1>1, <1>4, <1>5, <1>7, <1>8, QueuesKept DEF Told
<1> QED
  BY <1>6, <1>9 DEF Told

\* The chosen head is still there, and takes the lease.
LEMMA StageTold == ASSUME Formed, Formed', Told, NEW t \in Threads, Stage(t) PROVE Told'
<1>1. PICK n \in Nat, m \in Nat : /\ n = Len(home) /\ m = Len(child) /\ Shaped(n, m)
                                  /\ Loaded(t) \in Thread(n, m) /\ Stood(t, Loaded(t))
  BY RecordShapes DEF Told
<1>2. PICK r \in Thread(n, m) : r = Loaded(t) /\ Stood(t, r)
  BY <1>1
<1>3. /\ UNCHANGED <<home, given, flight>> /\ Write(t, r) /\ ~Locked(t)
      /\ pump.pc = "stage" /\ pump.thread = t /\ t \in recovered' /\ recovered \subseteq recovered'
  BY <1>2 DEF Stage, Load
<1>4. lease = None /\ ~stopper.mine /\ \A u \in Threads : ~Serving(u)
  BY <1>3 DEF Told, Staged
<1>5. \A u \in Threads : Still(u) /\ Waits(u) /\ HeadKept(u)
  BY <1>2, <1>3, WriteStill DEF Told
<1>6. Extended
  BY <1>3 DEF Extended, Formed
<1>7. pump \in Passes(n, m)
  BY <1>1, TypedSlot
<1>8. CASE Keep(lease, Again(pump), stopper) /\ UNCHANGED job
  <2>1. pump'.pc = "read" /\ lease' = None /\ ~stopper'.mine
    BY <1>4, <1>8 DEF Keep, Again, Pass
  <2>2. \A u \in Threads : (Serving(u)' <=> Serving(u)) /\ (Sending(u)' <=> Sending(u))
    BY <1>8 DEF Serving, Sending, Locked
  <2>3. Staged'
    BY <1>4, <2>1, <2>2, StagedRests
  <2>4. Lined' /\ Once'
    BY <1>3, <1>5, <1>6, <1>8, <2>1, <2>2, QueuesKept DEF Told
  <2> QED
    BY <2>3, <2>4 DEF Told
<1>9. ASSUME Eligible(r), Head(r.queue).id = pump.msg,
             Keep([thread |-> t, msg |-> pump.msg, gen |-> 0, settled |-> FALSE,
                   acked |-> FALSE, orphan |-> FALSE], [pump EXCEPT !.pc = "staging"], stopper),
             job' = [job EXCEPT ![t] = Asked("stage", pump.msg)]
      PROVE  Told'
  <2>1. PICK a : a = Asked("stage", pump.msg)
    OBVIOUS
  <2>2. a.for = "stage" /\ a.pc = "check"
    BY <2>1 DEF Asked
  <2>3. \A u \in Threads : job'[u] = IF u = t THEN a ELSE job[u]
    BY <1>9, <2>1 DEF Formed, Shaped
  <2>4. \A u \in Threads : /\ Serving(u)' <=> u = t
                           /\ Sending(u)' => Sending(u) /\ job'[u].msg = job[u].msg
    BY <1>3, <1>4, <2>2, <2>3 DEF Serving, Sending, Locked
  <2>5. pump'.pc = "staging" /\ pump'.thread = t /\ pump'.msg = pump.msg
    BY <1>3, <1>7, <1>9 DEF Keep, Passes
  <2>6. /\ lease'.thread = t /\ lease'.msg = pump.msg /\ lease'.gen = 0 /\ ~lease'.settled
        /\ ~lease'.acked /\ ~lease'.orphan
    BY <1>9 DEF Keep
  <2>7. lease' # None
    <3>1. lease' \in [thread : Threads, msg : Nat, gen : Nat, settled : BOOLEAN,
                      acked : BOOLEAN, orphan : BOOLEAN]
      BY <1>7, <1>9 DEF Keep, Passes
    <3> QED
      BY <3>1, DiscussionAssumption
  <2>8. ~stopper'.mine
    BY <1>4, <1>9 DEF Keep
  <2>9. AtHead("queued")'
    <3>1. PICK q \in Seq(Message(n)) : q = r.queue
      BY QueueOf
    <3>2. q # <<>> /\ Head(q).id = pump.msg /\ Head(q).state = "queued"
      BY <1>9, <3>1 DEF Eligible
    <3>3. Head(q) = q[1] /\ q[1] \in Message(n)
      BY <3>1, <3>2, HeadTailProperties
    <3>4. q[1] = [id |-> pump.msg, state |-> "queued"]
      BY <3>2, <3>3 DEF Message
    <3>5. record'[t].queue = q
      BY <1>3, <3>1, Wrote
    <3> QED
      BY <1>3, <2>5, <3>2, <3>4, <3>5 DEF AtHead
  <2>10. Engaged'
    BY <2>5, <2>6, <2>7 DEF Engaged
  <2>11. Serving(pump.thread)'
    BY <1>3, <2>4, <2>5 DEF Serving, Locked
  <2>12. Staged'
    BY <2>4, <2>5, <2>6, <2>8, <2>9, <2>10, <2>11 DEF Staged
  <2>13. Lined' /\ Once'
    BY <1>3, <1>5, <1>6, <2>4, <2>5, QueuesKept DEF Told
  <2> QED
    BY <2>12, <2>13 DEF Told
<1> QED
  BY <1>2, <1>8, <1>9 DEF Stage

\* The message of a prompt is the head of its queue, and no longer queued.
LEMMA PromptTold == ASSUME Formed, Formed', Told, Prompt PROVE Told'
<1>1. PICK reply \in {"started", "handled", "refused", "lost"}, heard \in BOOLEAN :
        /\ pump.pc = "prompt" /\ pump' = [pump EXCEPT !.pc = "ack", !.reply = reply]
        /\ heard => reply # "refused"
        /\ given' = IF heard THEN given \cup {pump.msg} ELSE given
  BY PromptStep
<1>2. UNCHANGED <<record, home, lease, stopper, flight, recovered, job>>
  BY DEF Prompt
<1>3. PICK n \in Nat, m \in Nat : n = Len(home) /\ m = Len(child) /\ Shaped(n, m)
  BY Sizes
<1>4. pump \in Passes(n, m)
  BY <1>3, TypedSlot
<1>5. /\ pump'.pc = "ack" /\ pump'.thread = pump.thread /\ pump'.msg = pump.msg
      /\ pump'.child = pump.child /\ pump'.reply = reply
  BY <1>1, <1>4 DEF Passes
<1>6. Staged'
  <2>1. Steady
    BY <1>1, <1>5 DEF Steady
  <2>2. Lasting /\ Capturing
    BY <1>1, <1>2 DEF Lasting, Capturing, Told, Staged
  <2>3. \A u \in Threads : (Serving(u)' <=> Serving(u)) /\ HeadKept(u)
    BY <1>2, SameStill DEF Serving, Locked
  <2> QED
    BY <1>2, <2>1, <2>2, <2>3, StagedKept DEF Told
<1>7. Lined'
  <2>1. \A u \in Threads : Ordered(u)'
    BY <1>2 DEF Told, Lined, Ordered
  <2>2. \A u \in Threads : Sending(u)' => Sending(u) /\ job'[u].msg = job[u].msg /\ Still(u)
    BY <1>2, SameStill DEF Sending, Locked
  <2>3. Extended
    BY <1>2 DEF Extended, Formed
  <2> QED
    BY <2>1, <2>2, <2>3, SendsKept DEF Told
<1>8. PICK t \in Threads : t = pump.thread
  BY <1>1, <1>3, TypedSlot
<1>9. PICK q : q = record[t].queue
  OBVIOUS
<1>10. q # <<>> /\ q[1] = [id |-> pump.msg, state |-> "delivering"] /\ pump.msg \notin given
  BY <1>1, <1>8, <1>9 DEF Told, Staged, AtHead, Once
<1>11. 1 \in 1..Len(q) /\ q[1].id = pump.msg /\ q[1].state = "delivering"
  <2>1. q \in Seq(Message(n)) /\ Len(q) \in Nat
    BY <1>3, <1>9, QueueShape
  <2>2. Len(q) # 0
    BY <1>10, <2>1, EmptySeq
  <2> QED
    BY <1>10, <2>1, <2>2
<1>12. /\ home[pump.msg] = t /\ Known(record[t], pump.msg)
       /\ \A u \in Threads : \A i \in 1..Len(record[u].queue) :
            record[u].queue[i].id = pump.msg => u = t /\ i = 1
  <2>1. \A u \in Threads : Ordered(u)
    BY DEF Told, Lined
  <2>2. home[pump.msg] = t /\ Known(record[t], pump.msg)
    BY <1>9, <1>11, <2>1, KnownIn DEF Ordered
  <2> QED
    BY <1>9, <1>11, <2>1, <2>2 DEF Ordered
<1>13. given' \subseteq given \cup {pump.msg}
  BY <1>1
<1>14. \A id \in given' : Known(record[home[id]], id)
  BY <1>12, <1>13 DEF Told, Once
<1>15. \A u \in Threads : \A i \in 1..Len(record[u].queue) :
         record[u].queue[i].id \in given' => record[u].queue[i].state # "queued"
  BY <1>9, <1>11, <1>12, <1>13 DEF Told, Once
<1>16. pump'.pc = "ack" /\ pump'.reply = "refused" => pump'.msg \notin given'
  BY <1>1, <1>5, <1>10
<1>17. Once'
  <2>1. \A id \in given' : Known(record[home[id]], id)'
    BY <1>2, <1>14 DEF Known, Items
  <2>2. \A u \in Threads : \A i \in 1..Len(record'[u].queue) :
          record'[u].queue[i].id \in given' => record'[u].queue[i].state # "queued"
    BY <1>2, <1>15
  <2> QED
    BY <1>5, <1>16, <2>1, <2>2 DEF Once
<1> QED
  BY <1>6, <1>7, <1>17 DEF Told

\* A service that starts again holds nothing, and finds the records.
LEMMA CrashTold == ASSUME Formed, Formed', Told, Crash PROVE Told'
<1>1. /\ UNCHANGED <<record, home, given>> /\ lease' = None
      /\ job' = [u \in Threads |-> Free] /\ stopper' = NoStop /\ pump' = Resting
  BY DEF Crash
<1>2. \A u \in Threads : ~Serving(u)' /\ ~Sending(u)'
  BY <1>1 DEF Serving, Sending, Locked, Free
<1>3. pump'.pc = "idle" /\ ~stopper'.mine
  BY <1>1 DEF Resting, Pass, NoStop
<1>4. Staged'
  BY <1>1, <1>2, <1>3, StagedRests
<1>5. \A u \in Threads : Waits(u)
  BY <1>1, SameStill
<1>6. Extended
  BY <1>1 DEF Extended, Formed
<1>7. Lined' /\ Once'
  BY <1>1, <1>2, <1>3, <1>5, <1>6, QueuesKept DEF Told
<1> QED
  BY <1>4, <1>7 DEF Told

\* A pass that is over, with the lease kept or given back.
LEMMA SettleRests ==
  ASSUME Formed, Staged, lease # None, NEW n \in Nat, NEW m \in Nat, Shaped(n, m),
         NEW l \in Lease(n, m), l.thread = lease.thread, l.gen = lease.gen, l.orphan = lease.orphan,
         NEW p \in Passes(n, m), p.pc = "read",
         Settle(l, p, stopper) \/ Keep(l, p, stopper),
         \A t \in Threads : ~Serving(t)'
  PROVE  Staged' /\ pump'.pc = "read" /\ (lease' = None \/ lease' = l)
<1>1. stopper \in Stopping(m)
  BY TypedSlot
<1>2. pump' = p \/ pump' = Requested(p)
  BY DEF Settle, Keep, Release
<1>3. pump'.pc = "read"
  BY <1>2 DEF Requested, Passes
<1>4. \/ lease' = l /\ stopper' = stopper
      \/ lease' = None /\ stopper' = [stopper EXCEPT !.mine = FALSE]
  BY DEF Settle, Keep, Release
<1>5. /\ stopper'.mine => /\ lease' # None /\ lease'.thread = stopper'.thread /\ stopper'.pc # "idle"
                          /\ stopper'.child \in {0, lease'.gen}
      /\ lease' # None /\ lease'.orphan => lease'.gen = 0
  <2>1. CASE lease' = l /\ stopper' = stopper
    BY <2>1, LeaseFields DEF Staged
  <2>2. CASE lease' = None /\ stopper' = [stopper EXCEPT !.mine = FALSE]
    BY <1>1, <2>2 DEF Stopping
  <2> QED
    BY <1>4, <2>1, <2>2
<1> QED
  BY <1>3, <1>4, <1>5, StagedRests

\* The oldest accepted id goes when there are too many, and no other.
LEMMA LatestKeeps ==
  ASSUME NEW a \in Seq(Nat), Len(a) <= MaxAccepted, NEW id \in Nat, NEW x \in Nat,
         \/ x = id
         \/ (\E i \in 1..Len(a) : a[i] = x) /\ (Len(a) = MaxAccepted => x # Head(a))
  PROVE  \E i \in 1..Len(Latest(Append(a, id))) : Latest(Append(a, id))[i] = x
<1>1. PICK b \in Seq(Nat) : b = Append(a, id) /\ Len(b) = Len(a) + 1 /\ b[Len(a) + 1] = id
                            /\ \A i \in 1..Len(a) : b[i] = a[i]
  <2>1. /\ Append(a, id) \in Seq(Nat) /\ Len(Append(a, id)) = Len(a) + 1
        /\ Append(a, id)[Len(a) + 1] = id /\ \A i \in 1..Len(a) : Append(a, id)[i] = a[i]
    BY AppendProperties
  <2> QED
    BY <2>1
<1>2. Len(a) \in Nat /\ MaxAccepted \in Nat \ {0} /\ b # <<>>
  BY <1>1, DiscussionAssumption, EmptySeq
<1>3. PICK j \in 1..Len(b) : b[j] = x /\ (Len(a) = MaxAccepted => j # 1)
  <2>1. CASE x = id
    BY <1>1, <1>2, <2>1
  <2>2. CASE (\E i \in 1..Len(a) : a[i] = x) /\ (Len(a) = MaxAccepted => x # Head(a))
    <3>1. PICK i \in 1..Len(a) : a[i] = x
      BY <2>2
    <3>2. Len(a) = MaxAccepted => i # 1
      BY <1>2, <2>2, <3>1
    <3>3. i \in 1..Len(b) /\ b[i] = x
      BY <1>1, <1>2, <3>1
    <3> QED
      BY <3>2, <3>3
  <2> QED
    BY <2>1, <2>2
<1>4. CASE Len(b) > MaxAccepted
  <2>1. PICK w \in Seq(Nat) : w = Tail(b) /\ Len(w) = Len(b) - 1 /\ \A i \in 1..Len(b) - 1 : w[i] = b[i + 1]
    <3>1. /\ Tail(b) \in Seq(Nat) /\ Len(Tail(b)) = Len(b) - 1
          /\ \A i \in 1..Len(Tail(b)) : Tail(b)[i] = b[i + 1]
      BY <1>2, HeadTailProperties
    <3>2. PICK w : w = Tail(b)
      OBVIOUS
    <3>3. w \in Seq(Nat) /\ Len(w) = Len(b) - 1 /\ \A i \in 1..Len(w) : w[i] = b[i + 1]
      BY <3>1, <3>2
    <3>4. \A i \in 1..Len(b) - 1 : w[i] = b[i + 1]
      BY <3>3
    <3> QED
      BY <3>2, <3>3, <3>4, Zenon
  <2>2. j - 1 \in 1..Len(w) /\ w[j - 1] = x
    BY <1>1, <1>2, <1>3, <1>4, <2>1
  <2>3. Latest(Append(a, id)) = w
    BY <1>1, <1>4, <2>1 DEF Latest
  <2> QED
    BY <2>2, <2>3
<1>5. CASE ~(Len(b) > MaxAccepted)
  <2>1. Latest(Append(a, id)) = b
    BY <1>1, <1>5 DEF Latest
  <2> QED
    BY <1>3, <2>1
<1> QED
  BY <1>4, <1>5

\* The lease of an acknowledgement, and what becomes of it.
LEMMA AckRests ==
  ASSUME Formed, Told, Ack
  PROVE  /\ Staged' /\ pump'.pc = "read"
         /\ lease' \in {None, lease, Over(lease), Acked(lease), Over(Acked(lease))}
<1>1. PICK n \in Nat, m \in Nat : n = Len(home) /\ m = Len(child) /\ Shaped(n, m)
  BY Sizes
<1>2. lease # None /\ lease \in Lease(n, m) /\ pump.pc = "ack"
  BY <1>1, TypedSlot DEF Ack, Told, Staged, Engaged
<1>3. PICK l \in {lease, Over(lease), Acked(lease), Over(Acked(lease))},
           p \in {Pass("read", pump.again, pump.excluded), Again(pump)} :
        Settle(l, p, stopper) \/ Keep(l, p, stopper)
  BY AckStep
<1>4. l \in Lease(n, m) /\ l.thread = lease.thread /\ l.gen = lease.gen /\ l.orphan = lease.orphan
  <2>1. PICK a \in Lease(n, m) : /\ a = Acked(lease) /\ a.thread = lease.thread /\ a.gen = lease.gen
                                 /\ a.orphan = lease.orphan
    BY <1>2, LeaseFields
  <2>2. CASE l = a \/ l = lease
    BY <1>2, <2>1, <2>2
  <2>3. CASE l = Over(a) \/ l = Over(lease)
    BY <1>2, <2>1, <2>3, LeaseFields
  <2> QED
    BY <1>3, <2>1, <2>2, <2>3
<1>5. p \in Passes(n, m) /\ p.pc = "read"
  <2>1. p \in Passes(n, m)
    BY <1>1, <1>3, TypedSlot, PassShapes
  <2> QED
    BY <1>3, <2>1 DEF Again, Pass
<1>6. \A t \in Threads : ~Serving(t)'
  <2>1. UNCHANGED job
    BY DEF Ack
  <2> QED
    BY <1>2, <2>1 DEF Told, Staged, Serving, Locked
<1>7. Staged' /\ pump'.pc = "read" /\ (lease' = None \/ lease' = l)
  BY <1>1, <1>2, <1>3, <1>4, <1>5, <1>6, SettleRests DEF Told
<1> QED
  BY <1>3, <1>7

\* An answered message leaves the queue and is known as accepted; one that was
\* not answered stays the head.
LEMMA AckTold == ASSUME Formed, Formed', Told, Ack PROVE Told'
<1>1. PICK n \in Nat, m \in Nat : n = Len(home) /\ m = Len(child) /\ Shaped(n, m)
  BY Sizes
<1>2. Staged' /\ pump'.pc = "read"
  BY AckRests
<1>3. PICK t \in Threads : t = pump.thread /\ ~Locked(t)
  BY <1>1, TypedSlot DEF Ack
<1>4. PICK id : id = pump.msg
  OBVIOUS
<1>5. PICK r \in Thread(n, m) : r = record[t]
  BY <1>1, JobShapes
<1>6. PICK q : q = r.queue /\ q = record[t].queue /\ q \in Seq(Message(n))
  BY <1>5, QueueOf
<1>7. q # <<>> /\ q[1] = [id |-> id, state |-> "delivering"]
  BY <1>3, <1>4, <1>5, <1>6 DEF Told, Staged, AtHead, Ack
<1>8. Len(q) \in Nat /\ 1 \in 1..Len(q) /\ q[1].id = id /\ q[1].state = "delivering" /\ id \in 1..n
  <2>1. Len(q) \in Nat /\ Len(q) # 0
    BY <1>6, <1>7, EmptySeq
  <2>2. q[1] \in Message(n)
    BY <1>6, <2>1
  <2> QED
    BY <1>7, <2>1, <2>2 DEF Message
<1>9. /\ \A i \in 1..Len(q) : home[q[i].id] = t
      /\ \A i, j \in 1..Len(q) : q[i].id = q[j].id => i = j
      /\ \A i \in 2..Len(q) : q[i].state = "queued"
  BY <1>6 DEF Told, Lined, Ordered
<1>10. UNCHANGED <<home, job>> /\ given' \subseteq given
  BY AckStep DEF Ack
<1>11. Extended
  BY <1>10 DEF Extended, Formed
<1>12. \A u \in Threads : Sending(u)' => Sending(u) /\ u # t /\ job'[u].msg = job[u].msg
  BY <1>3, <1>10 DEF Sending, Locked
<1>13. pump'.pc # "prompt" /\ pump'.pc # "ack"
  BY <1>2
<1>14. ASSUME NEW state \in {"queued", "uncertain"}, NEW s, Alike(s, Moved(r, id, state)), Write(t, s),
              UNCHANGED given, state = "queued" => id \notin given
       PROVE  Told'
  <2>1. /\ s.accepted = r.accepted /\ Len(s.queue) = Len(q)
        /\ \A i \in 1..Len(q) : s.queue[i] =
             [id |-> q[i].id, state |-> IF q[i].id = id THEN state ELSE q[i].state]
    <3>1. PICK v : v = Moved(r, id, state)
      OBVIOUS
    <3>2. /\ v.accepted = r.accepted /\ Len(v.queue) = Len(r.queue)
          /\ \A i \in 1..Len(r.queue) : v.queue[i] =
               [id |-> r.queue[i].id, state |-> IF r.queue[i].id = id THEN state ELSE r.queue[i].state]
      BY <1>14, <3>1, MovedThread
    <3>3. s.queue = v.queue /\ s.accepted = v.accepted
      BY <1>14, <3>1 DEF Alike
    <3> QED
      BY <1>6, <3>2, <3>3
  <2>2. PICK o : o = s.queue
    OBVIOUS
  <2>3. \A i \in 1..Len(q) : o[i].id = q[i].id /\ o[i].state = IF q[i].id = id THEN state ELSE q[i].state
    <3>1. TAKE i \in 1..Len(q)
    <3>2. PICK st : st = IF q[i].id = id THEN state ELSE q[i].state
      OBVIOUS
    <3>3. o[i] = [id |-> q[i].id, state |-> st]
      BY <2>1, <2>2, <3>2
    <3>4. o[i].id = q[i].id /\ o[i].state = st
      BY <3>3
    <3> QED
      BY <3>2, <3>4
  <2>4. record'[t] = s /\ \A u \in Threads : u # t => record'[u] = record[u]
    BY <1>14, Wrote
  <2>5. \A u \in Threads : u # t => Still(u) /\ Waits(u)
    BY <2>4, SameStill
  <2>6. Ordered(t)'
    <3>1. \A i \in 1..Len(o) : home'[o[i].id] = t
      BY <1>9, <1>10, <2>1, <2>2, <2>3
    <3>2. \A i, j \in 1..Len(o) : o[i].id = o[j].id => i = j
      BY <1>9, <2>1, <2>2, <2>3
    <3>3. \A i \in 2..Len(o) : o[i].state = "queued"
      BY <1>8, <1>9, <2>1, <2>2, <2>3
    <3> QED
      BY <2>2, <2>4, <3>1, <3>2, <3>3 DEF Ordered
  <2>7. Lined'
    <3>1. \A u \in Threads : Ordered(u)'
      BY <1>11, <2>5, <2>6, LinesKept DEF Told
    <3> QED
      BY <1>11, <1>12, <2>5, <3>1, SendsKept DEF Told
  <2>8. \A x : Known(record[t], x) => Known(record'[t], x)
    BY <1>5, <1>6, <2>1, <2>2, <2>3, <2>4, KnownIn
  <2>9. \A x \in given' : home[x] = t => Known(record[t], x)'
    <3>1. \A x \in given' : home[x] = t => Known(record'[t], x)
      BY <1>10, <2>8 DEF Told, Once
    <3> QED
      BY <3>1 DEF Known, Items
  <2>10. \A i \in 1..Len(o) : o[i].id \in given' => o[i].state # "queued"
    BY <1>6, <1>9, <1>10, <1>14, <2>1, <2>2, <2>3, SMTT(30) DEF Told, Once
  <2>11. \A i \in 1..Len(record'[t].queue) :
           record'[t].queue[i].id \in given' => record'[t].queue[i].state # "queued"
    BY <2>2, <2>4, <2>10
  <2>12. Once'
    BY <1>10, <1>11, <1>13, <2>4, <2>9, <2>11, OnceElsewhere DEF Told, Once
  <2> QED
    BY <1>2, <2>7, <2>12 DEF Told
<1>15. CASE /\ Write(t, Answered(Without(r, id), id))
            /\ given' = IF Len(r.accepted) = MaxAccepted THEN given \ {Head(r.accepted)} ELSE given
  <2>1. PICK w \in Thread(n, m) :
          /\ w = Without(r, id) /\ w.accepted = r.accepted /\ Len(w.queue) = Len(q) - 1
          /\ \A j \in 1..Len(q) - 1 : w.queue[j] = q[j + 1]
    <3>1. \A i, j \in 1..Len(r.queue) : r.queue[i].id = r.queue[j].id => i = j
      BY <1>6, <1>9
    <3>2. 1 \in 1..Len(r.queue) /\ r.queue[1].id = id
      BY <1>6, <1>8
    <3>3. /\ Without(r, id) \in Thread(n, m) /\ Without(r, id).accepted = r.accepted
          /\ Len(Without(r, id).queue) = Len(r.queue) - 1
          /\ \A j \in 1..Len(r.queue) - 1 : Without(r, id).queue[j] = r.queue[j + 1]
      BY <3>1, <3>2, WithoutHead
    <3>4. PICK w : w = Without(r, id)
      OBVIOUS
    <3> QED
      BY <1>6, <3>3, <3>4
  <2>2. PICK s : s = Answered(w, id)
    OBVIOUS
  <2>3. s.queue = w.queue /\ s.accepted = Latest(Append(r.accepted, id))
    BY <1>8, <2>1, <2>2, AnsweredThread
  <2>4. record'[t] = s /\ \A u \in Threads : u # t => record'[u] = record[u]
    BY <1>15, <2>1, <2>2, Wrote
  <2>5. PICK o : o = s.queue /\ Len(o) = Len(q) - 1 /\ \A j \in 1..Len(o) : o[j] = q[j + 1]
    BY <1>8, <2>1, <2>3
  <2>6. \A j \in 1..Len(o) : j + 1 \in 2..Len(q) /\ j + 1 \in 1..Len(q)
    BY <1>8, <2>5
  <2>7. \A j \in 1..Len(o) : o[j].id = q[j + 1].id /\ o[j].state = "queued"
    BY <1>9, <2>5, <2>6
  <2>8. Ordered(t)'
    <3>1. \A j \in 2..Len(o) : o[j].state = "queued"
      <4>1. \A j \in 2..Len(o) : j \in 1..Len(o)
        BY <1>8, <2>5
      <4> QED
        BY <2>7, <4>1
    <3>2. o = record'[t].queue /\ Len(o) = Len(record[t].queue) - 1 /\ 1 \in 0..1
      BY <1>6, <2>4, <2>5
    <3>3. \A j \in 1..Len(o) : o[j].id = record[t].queue[j + 1].id
      BY <1>6, <2>7
    <3> QED
      BY <1>11, <3>1, <3>2, <3>3, LeftLined DEF Told
  <2>9. \A u \in Threads : u # t => Still(u) /\ Waits(u)
    BY <2>4, SameStill
  <2>10. Lined'
    <3>1. \A u \in Threads : Ordered(u)'
      BY <1>11, <2>8, <2>9, LinesKept DEF Told
    <3> QED
      BY <1>11, <1>12, <2>9, <3>1, SendsKept DEF Told
  <2>11. \A i \in 1..Len(o) : o[i].id \notin given'
    <3>1. \A i \in 1..Len(q) : q[i].id \in given => q[i].state # "queued"
      BY <1>6 DEF Told, Once
    <3> QED
      BY <1>9, <1>10, <2>6, <2>7, <3>1
  <2>12. ASSUME NEW x \in given', home[x] = t PROVE Known(record'[t], x)
    <3>1. x \in given /\ (Len(r.accepted) = MaxAccepted => x # Head(r.accepted))
      BY <1>15, <2>12
    <3>2. \/ \E i \in 1..Len(q) : q[i].id = x
          \/ \E i \in 1..Len(r.accepted) : r.accepted[i] = x
      BY <1>5, <1>6, <2>12, <3>1, KnownIn DEF Told, Once
    <3>3. CASE x = id \/ \E i \in 1..Len(r.accepted) : r.accepted[i] = x
      <4>1. r.accepted \in Seq(Nat) /\ Len(r.accepted) <= MaxAccepted
        BY DEF Thread, Recent
      <4>2. x \in Nat /\ id \in Nat
        BY <1>1, <1>8, <3>1 DEF Shaped
      <4>3. \E i \in 1..Len(s.accepted) : s.accepted[i] = x
        BY <2>3, <3>1, <3>3, <4>1, <4>2, LatestKeeps
      <4> QED
        BY <2>4, <4>3, KnownIn
    <3>4. CASE x # id /\ \E i \in 1..Len(q) : q[i].id = x
      <4>1. PICK i \in 1..Len(q) : q[i].id = x /\ i # 1
        BY <1>8, <3>4
      <4>2. i - 1 \in 1..Len(o) /\ o[i - 1] = q[i]
        BY <1>8, <2>5, <4>1
      <4> QED
        BY <2>4, <2>5, <4>1, <4>2, KnownIn
    <3> QED
      BY <3>2, <3>3, <3>4
  <2>13. /\ \A x \in given' : home[x] = t => Known(record[t], x)'
         /\ \A i \in 1..Len(record'[t].queue) :
              record'[t].queue[i].id \in given' => record'[t].queue[i].state # "queued"
    BY <2>4, <2>5, <2>11, <2>12 DEF Known, Items
  <2>14. Once'
    BY <1>10, <1>11, <1>13, <2>4, <2>13, OnceElsewhere DEF Told, Once
  <2> QED
    BY <1>2, <2>10, <2>14 DEF Told
<1>16. CASE /\ Write(t, Paused(Noted(Moved(r, id, "queued"), "none"))) /\ UNCHANGED given
            /\ pump.reply = "refused"
  <2>1. PICK v \in Thread(n, m) : v = Moved(r, id, "queued")
    BY MovedThread
  <2>2. Noted(v, "none") \in Thread(n, m) /\ Alike(Noted(v, "none"), v)
    BY NotedThread
  <2>3. PICK s : s = Paused(Noted(v, "none")) /\ Alike(s, v)
    BY <2>2, PausedThread DEF Alike
  <2>4. id \notin given
    BY <1>4, <1>16 DEF Told, Once, Ack
  <2> QED
    BY <1>14, <1>16, <2>1, <2>3, <2>4
<1>17. CASE Write(t, Noted(Moved(r, id, "uncertain"), "uncertain")) /\ UNCHANGED given
  <2>1. PICK v \in Thread(n, m) : v = Moved(r, id, "uncertain")
    BY MovedThread
  <2>2. Alike(Noted(v, "uncertain"), v)
    BY NotedThread
  <2>3. PICK s : s = Noted(v, "uncertain")
    OBVIOUS
  <2> QED
    BY <1>14, <1>17, <2>1, <2>2, <2>3
<1>18. CASE UNCHANGED <<record, given>>
  <2>1. \A u \in Threads : Still(u) /\ Waits(u)
    BY <1>18, SameStill
  <2>2. Lined' /\ Once'
    BY <1>11, <1>12, <1>13, <1>18, <2>1, QueuesKept DEF Told
  <2> QED
    BY <1>2, <2>2 DEF Told
<1> QED
  BY <1>3, <1>4, <1>5, <1>15, <1>16, <1>17, <1>18, AckStep

-------------------------------------------------------------------------------
(* The steps of a job, and how it ends. *)

\* The lock is freed, and no other job changes.
LEMMA JobFreed ==
  ASSUME Formed, NEW t \in Threads, job' = [job EXCEPT ![t] = Free]
  PROVE  \A u \in Threads : /\ Locked(u)' <=> u # t /\ Locked(u)
                            /\ Serving(u)' <=> u # t /\ Serving(u)
                            /\ Sending(u)' <=> u # t /\ Sending(u)
                            /\ u # t => job'[u] = job[u]
<1>1. \A u \in Threads : job'[u] = IF u = t THEN Free ELSE job[u]
  BY DEF Formed, Shaped
<1>2. Free.pc = "free"
  BY DEF Free
<1> QED
  BY <1>1, <1>2 DEF Serving, Sending, Locked

\* What a job for the pump stands for.
LEMMA ServedBy ==
  ASSUME Formed, Told, NEW t \in Threads, Serving(t)
  PROVE  /\ pump.pc = "staging" /\ pump.thread = t /\ Engaged /\ lease.gen = 0 /\ ~lease.settled
         /\ ~stopper.mine /\ AtHead("queued") /\ \A u \in Threads : Serving(u) => u = t
  BY DEF Told, Staged

\* The pump is told that the head cannot be handed over.
LEMMA StageFails ==
  ASSUME Formed, Formed', Told, NEW t \in Threads, Serving(t), NEW s, Stood(t, s), Write(t, s),
         job' = [job EXCEPT ![t] = Free], UNCHANGED <<home, given>>, pump'.pc = "read",
         lease' \in {None, lease} \/ (\E c \in 0..Len(child) : lease' = Bound(lease, c)),
         stopper' = stopper \/ stopper' = [stopper EXCEPT !.mine = FALSE]
  PROVE  Told'
<1>1. \A u \in Threads : ~Serving(u)' /\ (Sending(u)' => Sending(u) /\ u # t /\ job'[u] = job[u])
  BY JobFreed, ServedBy
<1>2. PICK n \in Nat, m \in Nat : m = Len(child) /\ Shaped(n, m)
  BY Sizes
<1>3. lease \in Lease(n, m) /\ ~lease.orphan /\ ~stopper.mine /\ stopper \in Stopping(m)
  BY <1>2, ServedBy, TypedSlot DEF Engaged
<1>4. ~stopper'.mine
  BY <1>3 DEF Stopping
<1>5. lease' # None => ~lease'.orphan
  <2>1. ASSUME NEW c \in 0..m, lease' = Bound(lease, c) PROVE ~lease'.orphan
    <3>1. Bound(lease, c).orphan = lease.orphan
      BY <1>3, LeaseFields
    <3> QED
      BY <1>3, <2>1, <3>1
  <2> QED
    BY <1>2, <1>3, <2>1
<1>6. Staged'
  <2>1. \A u \in Threads : ~Serving(u)'
    BY <1>1
  <2> QED
    BY <1>4, <1>5, <2>1, StagedRests
<1>7. \A u \in Threads : Still(u) /\ Waits(u)
  BY WriteStill DEF Told
<1>8. Extended
  BY DEF Extended, Formed
<1>9. Lined' /\ Once'
  BY <1>1, <1>7, <1>8, QueuesKept DEF Told
<1> QED
  BY <1>6, <1>9 DEF Told

LEMMA ThrowTold ==
  ASSUME Formed, Formed', Told, NEW t \in Threads, Locked(t), NEW n \in Nat, NEW m \in Nat,
         NEW r \in Thread(n, m), Stood(t, r), NEW gone, Throw(t, r, gone), UNCHANGED <<home, given>>,
         recovered \subseteq recovered'
  PROVE  Told'
<1>1. job' = [job EXCEPT ![t] = Free] /\ UNCHANGED flight
  BY DEF Throw
<1>2. Stood(t, Paused(r))
  BY StoodAlike DEF Told
<1>3. CASE job[t].for # "stage" /\ Write(t, r) /\ Stand
  <2>1. \A u \in Threads : /\ Serving(u)' <=> Serving(u)
                           /\ Sending(u)' => Sending(u) /\ job'[u] = job[u]
    BY <1>1, <1>3, JobFreed DEF Serving
  <2>2. Steady /\ Lasting /\ Capturing
    BY <1>3, SlotSame DEF Stand, Told
  <2>3. \A u \in Threads : Still(u) /\ Waits(u) /\ HeadKept(u)
    BY <1>3, WriteStill DEF Told
  <2>4. Extended
    BY DEF Extended, Formed
  <2> QED
    BY <1>1, <2>1, <2>2, <2>3, <2>4, ToldKept
<1>4. CASE /\ job[t].for = "stage"
           /\ \/ Write(t, r) /\ Keep(lease, Again(pump), stopper)
              \/ Write(t, Paused(r)) /\ Release(Again(pump), stopper)
  <2>1. Serving(t)
    BY <1>4 DEF Serving
  <2>2. Again(pump).pc = "read" /\ Requested(Again(pump)).pc = "read"
    BY DEF Again, Pass, Requested
  <2>3. /\ pump'.pc = "read" /\ lease' \in {None, lease}
        /\ stopper' = stopper \/ stopper' = [stopper EXCEPT !.mine = FALSE]
    BY <1>4, <2>2 DEF Keep, Release
  <2>4. PICK s \in {r, Paused(r)} : Write(t, s)
    BY <1>4
  <2>5. Stood(t, s)
    BY <1>2
  <2> QED
    BY <1>1, <2>1, <2>3, <2>4, <2>5, StageFails
<1> QED
  BY <1>3, <1>4 DEF Throw

\* The head is being delivered.
LEMMA DeliversTold ==
  ASSUME Formed, Formed', Told, NEW t \in Threads, Serving(t), NEW n \in Nat, NEW m \in Nat,
         m = Len(child), NEW r \in Thread(n, m), Stood(t, r), NEW c \in 0..m, c # 0,
         Delivers(t, r, c), job' = [job EXCEPT ![t] = Free], UNCHANGED <<home, given>>,
         recovered \subseteq recovered'
  PROVE  Told'
<1>1. /\ pump.pc = "staging" /\ pump.thread = t /\ Engaged /\ lease.gen = 0 /\ ~stopper.mine
      /\ AtHead("queued")
  BY ServedBy
<1>2. PICK v \in Nat, w \in Nat : v = Len(home) /\ w = m /\ Shaped(v, w)
  BY Sizes
<1>3. PICK l \in Lease(v, m) : l = lease
  BY <1>1, <1>2, TypedSlot DEF Engaged
<1>4. /\ Bound(l, c) # None /\ Bound(l, c).thread = t /\ Bound(l, c).msg = pump.msg
      /\ Bound(l, c).gen = c /\ ~Bound(l, c).acked /\ ~Bound(l, c).orphan
  <2>1. Bound(l, c) \in Lease(v, m)
    BY <1>2, LeaseFields
  <2>2. Bound(l, c) # None
    BY <1>2, <2>1, LeaseFields
  <2>3. /\ Bound(l, c).gen = c /\ Bound(l, c).thread = l.thread /\ Bound(l, c).msg = l.msg
        /\ Bound(l, c).acked = l.acked /\ Bound(l, c).orphan = l.orphan
    BY <1>2, LeaseFields
  <2> QED
    BY <1>1, <1>3, <2>2, <2>3 DEF Engaged
<1>5. CASE /\ Write(t, Moved(r, lease.msg, "delivering"))
           /\ flight' = [flight EXCEPT ![t] = lease.msg]
           /\ Keep(Bound(lease, c), [pump EXCEPT !.pc = "prompt", !.child = c], stopper)
  <2>1. PICK q, id : q = record[t].queue /\ id = pump.msg /\ id = lease.msg
    BY <1>1 DEF Engaged
  <2>2. t \in recovered /\ q # <<>> /\ q[1] = [id |-> id, state |-> "queued"]
    BY <1>1, <2>1 DEF AtHead
  <2>3. Len(q) \in Nat /\ 1 \in 1..Len(q) /\ q[1].id = id /\ q[1].state = "queued"
    <3>1. Len(q) \in Nat /\ q \in Seq(Message(v))
      BY <1>2, <2>1, QueueShape
    <3>2. Len(q) # 0
      BY <2>2, <3>1, EmptySeq
    <3> QED
      BY <2>2, <3>1, <3>2
  <2>4. r.queue = q /\ r.accepted = record[t].accepted
    BY <2>1, <2>2, StoodKept DEF Told
  <2>5. PICK s : s = Moved(r, id, "delivering")
    OBVIOUS
  <2>6. /\ s.accepted = record[t].accepted /\ Len(s.queue) = Len(q)
        /\ \A i \in 1..Len(q) : s.queue[i] =
             [id |-> q[i].id, state |-> IF q[i].id = id THEN "delivering" ELSE q[i].state]
    BY <2>4, <2>5, MovedThread, SMTT(30)
  <2>7. PICK o : o = s.queue
    OBVIOUS
  <2>8. o[1] = [id |-> id, state |-> "delivering"] /\ Len(o) = Len(q)
    BY <2>3, <2>6, <2>7
  <2>9. \A i \in 1..Len(q) : i # 1 => q[i].id # id
    BY <2>1, <2>3 DEF Told, Lined, Ordered
  <2>10. \A i \in 1..Len(q) :
           o[i].id = q[i].id /\ (o[i].state = q[i].state \/ (i = 1 /\ o[i].state # "queued"))
    <3>1. TAKE i \in 1..Len(q)
    <3>2. PICK st : st = IF q[i].id = id THEN "delivering" ELSE q[i].state
      OBVIOUS
    <3>3. o[i] = [id |-> q[i].id, state |-> st]
      BY <2>6, <2>7, <3>2
    <3>4. o[i].id = q[i].id /\ o[i].state = st
      BY <3>3
    <3> QED
      BY <2>9, <3>2, <3>4
  <2>11. record'[t] = s /\ \A u \in Threads : u # t => record'[u] = record[u]
    BY <1>5, <2>1, <2>5, Wrote
  <2>12. Still(t) /\ Waits(t)
    <3>1. Kept(t)
      BY <2>1, <2>6, <2>7, <2>8, <2>10, <2>11 DEF Kept
    <3>2. Len(record'[t].queue) = Len(record[t].queue)
      BY <2>1, <2>7, <2>8, <2>11
    <3> QED
      BY <2>1, <2>3, <3>1, <3>2 DEF Still, Waits, Joined
  <2>13. \A u \in Threads : Still(u) /\ Waits(u)
    BY <2>11, <2>12, SameStill
  <2>14. /\ pump'.pc = "prompt" /\ pump'.thread = t /\ pump'.msg = id /\ pump'.child = c
    <3>1. pump \in Passes(v, m)
      BY <1>2, TypedSlot
    <3>2. pump' = [pump EXCEPT !.pc = "prompt", !.child = c]
      BY <1>5 DEF Keep
    <3> QED
      BY <1>1, <2>1, <3>1, <3>2 DEF Passes
  <2>15. lease' = Bound(l, c) /\ stopper' = stopper
    BY <1>3, <1>5 DEF Keep
  <2>16. \A u \in Threads : ~Serving(u)' /\ (Sending(u)' => Sending(u) /\ u # t /\ job'[u] = job[u])
    BY JobFreed, ServedBy
  <2>17. flight'[t] = id
    BY <1>2, <1>5, <2>1 DEF Shaped
  <2>18. AtHead("delivering")'
    <3>1. o # <<>>
      BY <2>3, <2>8
    <3>2. record'[t].queue = o /\ t \in recovered'
      BY <2>2, <2>7, <2>11
    <3> QED
      BY <2>8, <2>14, <3>1, <3>2 DEF AtHead
  <2>19. Engaged'
    BY <1>4, <2>1, <2>14, <2>15 DEF Engaged
  <2>20. Staged'
    BY <1>1, <1>4, <2>14, <2>15, <2>16, <2>17, <2>18, <2>19 DEF Staged
  <2>21. id \notin given
    BY <2>1, <2>3 DEF Told, Once
  <2>22. Extended
    BY DEF Extended, Formed
  <2>23. Lined' /\ Once'
    BY <2>13, <2>14, <2>16, <2>21, <2>22, QueuesKept DEF Told
  <2> QED
    BY <2>20, <2>23 DEF Told
<1>6. CASE /\ Write(t, r) /\ UNCHANGED flight
           /\ \/ Release(Again(pump), stopper)
              \/ Keep(Bound(lease, c), Again(pump), stopper)
  <2>1. Again(pump).pc = "read" /\ Requested(Again(pump)).pc = "read"
    BY DEF Again, Pass, Requested
  <2>2. /\ pump'.pc = "read" /\ (lease' \in {None, lease} \/ lease' = Bound(lease, c))
        /\ stopper' = stopper \/ stopper' = [stopper EXCEPT !.mine = FALSE]
    BY <1>6, <2>1 DEF Keep, Release
  <2> QED
    BY <1>6, <2>2, StageFails
<1> QED
  BY <1>5, <1>6 DEF Delivers

LEMMA ReturnTold ==
  ASSUME Formed, Formed', Told, NEW t \in Threads, Locked(t), NEW n \in Nat, NEW m \in Nat,
         n = Len(home), m = Len(child), NEW r \in Thread(n, m), Stood(t, r), NEW c \in 0..m,
         Return(t, r, c), UNCHANGED <<home, given>>, recovered \subseteq recovered'
  PROVE  Told'
<1>1. job' = [job EXCEPT ![t] = Free]
  BY DEF Return
<1>2. CASE job[t].for = "stage" /\ c # 0 /\ Delivers(t, r, c)
  BY <1>1, <1>2, DeliversTold DEF Serving
<1>3. CASE /\ job[t].for = "stage" /\ Write(t, r) /\ UNCHANGED flight
           /\ Release(Again(pump), stopper) \/ Keep(lease, Again(pump), stopper)
  <2>1. Again(pump).pc = "read" /\ Requested(Again(pump)).pc = "read"
    BY DEF Again, Pass, Requested
  <2>2. /\ pump'.pc = "read" /\ lease' \in {None, lease}
        /\ stopper' = stopper \/ stopper' = [stopper EXCEPT !.mine = FALSE]
    BY <1>3, <2>1 DEF Keep, Release
  <2> QED
    BY <1>1, <1>3, <2>2, StageFails DEF Serving
<1>4. CASE /\ job[t].for # "stage" /\ Keep(lease, Requested(pump), stopper) /\ UNCHANGED flight
           /\ Write(t, IF job[t].for = "send" THEN Enqueued(r, job[t].msg) ELSE r)
  <2>1. \A u \in Threads : /\ Serving(u)' <=> Serving(u)
                           /\ Sending(u)' => Sending(u) /\ u # t /\ job'[u] = job[u]
    BY <1>1, <1>4, JobFreed DEF Serving
  <2>2. Steady /\ Lasting /\ Capturing
    BY <1>4, SlotSame DEF Keep, Told
  <2>3. \A u \in Threads : Waits(u) /\ HeadKept(u) /\ (u # t => Still(u))
    <3>1. CASE job[t].for = "send"
      <4>1. PICK id : id = job[t].msg
        OBVIOUS
      <4>2. id # 0 /\ home[id] = t /\ ~Known(record[t], id)
        BY <3>1, <4>1 DEF Told, Lined
      <4>3. id \in 1..n
        <5>1. PICK v \in Nat, w \in Nat : v = n /\ Shaped(v, w)
          BY Sizes
        <5> QED
          BY <4>1, <4>2, <5>1, JobShapes
      <4>4. home'[id] = t /\ Write(t, Enqueued(r, id))
        BY <1>4, <3>1, <4>1, <4>2
      <4> QED
        BY <4>2, <4>3, <4>4, WriteWaits DEF Told
    <3>2. CASE job[t].for # "send"
      BY <1>4, <3>2, WriteStill DEF Told
    <3> QED
      BY <3>1, <3>2
  <2>4. Extended
    BY DEF Extended, Formed
  <2> QED
    BY <1>4, <2>1, <2>2, <2>3, <2>4, ToldKept
<1> QED
  BY <1>2, <1>3, <1>4 DEF Return

\* The job goes on.
LEMMA GotoTold ==
  ASSUME Formed, Formed', Told, NEW t \in Threads, Locked(t), NEW c,
         NEW pc \in {"pin", "capacity", "evicting", "spawn", "record", "handshake"}, Goto(t, pc, c),
         UNCHANGED <<home, given, flight>>, recovered \subseteq recovered', Steady, Lasting, Capturing,
         \A u \in Threads : Still(u) /\ Waits(u) /\ HeadKept(u)
  PROVE  Told'
<1>1. PICK n \in Nat, m \in Nat : Shaped(n, m)
  BY Sizes
<1>2. PICK j \in Jobs(n, m) : j = job[t]
  BY <1>1 DEF Shaped
<1>3. job'[t] = [[j EXCEPT !.pc = pc] EXCEPT !.child = c] /\ \A u \in Threads : u # t => job'[u] = job[u]
  BY <1>1, <1>2 DEF Goto, Shaped
<1>4. job'[t].pc = pc /\ job'[t].for = j.for /\ job'[t].msg = j.msg
  BY <1>2, <1>3 DEF Jobs
<1>5. \A u \in Threads : /\ Serving(u)' <=> Serving(u)
                         /\ Sending(u)' => Sending(u) /\ job'[u].msg = job[u].msg
  BY <1>2, <1>3, <1>4 DEF Serving, Sending, Locked
<1>6. Extended
  BY DEF Extended, Formed
<1> QED
  BY <1>5, <1>6, ToldKept

LEMMA RecordChildTold ==
  ASSUME Formed, Formed', Told, NEW t \in Threads, RecordChild(t) PROVE Told'
<1>1. PICK n \in Nat, m \in Nat : /\ n = Len(home) /\ m = Len(child) /\ Shaped(n, m)
                                  /\ record[t] \in Thread(n, m) /\ Stood(t, record[t])
  BY RecordShapes DEF Told
<1>2. PICK c \in 0..m : c = job[t].child
  BY <1>1, JobShapes
<1>3. PICK s : s = Held(record[t], c) /\ Stood(t, s)
  BY <1>1, <1>2, StoodAlike DEF Told
<1>4. Locked(t) /\ UNCHANGED <<home, given, recovered>>
  BY DEF RecordChild, Locked
<1>5. CASE Write(t, s) /\ Goto(t, "handshake", c) /\ Stand /\ UNCHANGED flight
  <2>1. \A u \in Threads : Still(u) /\ Waits(u) /\ HeadKept(u)
    BY <1>3, <1>4, <1>5, WriteStill DEF Told
  <2>2. Steady /\ Lasting /\ Capturing
    BY <1>5, SlotSame DEF Told, Stand
  <2> QED
    BY <1>4, <1>5, <2>1, <2>2, GotoTold
<1>6. CASE \E gone : Throw(t, record[t], gone)
  BY <1>1, <1>4, <1>6, ThrowTold
<1> QED
  BY <1>2, <1>3, <1>5, <1>6 DEF RecordChild

LEMMA PinTold == ASSUME Formed, Formed', Told, NEW t \in Threads, Pin(t) PROVE Told'
<1>1. PICK n \in Nat, m \in Nat : /\ n = Len(home) /\ m = Len(child) /\ Shaped(n, m)
                                  /\ record[t] \in Thread(n, m) /\ Stood(t, record[t])
  BY RecordShapes DEF Told
<1>2. PICK c \in 0..m, d \in 0..m : c = job[t].child /\ d = owned[t]
  BY <1>1, JobShapes
<1>3. PICK o : o = Owner(record[t], c) /\ o \in Thread(n, m) /\ Stood(t, o)
  BY <1>1, <1>2, OwnerThread, StoodAlike DEF Told
<1>4. PICK e : e = Eased(o) /\ e \in Thread(n, m) /\ Stood(t, e)
  BY <1>1, <1>3, EasedThread, StoodAlike DEF Told
<1>5. PICK s : s = Unpaused(e) /\ s \in Thread(n, m) /\ Stood(t, s)
  BY <1>1, <1>4, PausedThread, StoodAlike DEF Told
<1>6. Return(t, s, d) /\ Locked(t) /\ UNCHANGED <<home, given, recovered>>
  BY <1>2, <1>3, <1>4, <1>5 DEF Pin, Locked
<1> QED
  BY <1>1, <1>2, <1>5, <1>6, ReturnTold

LEMMA CheckTold == ASSUME Formed, Formed', Told, NEW t \in Threads, Check(t) PROVE Told'
<1>1. PICK n \in Nat, m \in Nat : /\ n = Len(home) /\ m = Len(child) /\ Shaped(n, m)
                                  /\ Loaded(t) \in Thread(n, m) /\ Stood(t, Loaded(t))
  BY RecordShapes DEF Told
<1>2. PICK r : r = Loaded(t) /\ r \in Thread(n, m) /\ Stood(t, r)
  BY <1>1
<1>3. PICK c \in 0..m : c = owned[t]
  BY <1>1, JobShapes
<1>4. Locked(t) /\ UNCHANGED <<home, given>> /\ recovered \subseteq recovered'
  BY DEF Check, Locked, Load
<1>5. \A s \in {r, Noted(r, "missing"), Noted(r, "none"), Noted(r, "owner"), Held(r, c)} :
        s \in Thread(n, m) /\ Stood(t, s)
  BY <1>1, <1>2, NotedThread, HeldThread, StoodAlike DEF Told
<1>6. CASE Return(t, Noted(r, "missing"), c)
  BY <1>1, <1>4, <1>5, <1>6, ReturnTold
<1>7. CASE Throw(t, Noted(r, "none"), 0) \/ Throw(t, Noted(r, "owner"), 0) \/ Throw(t, Held(r, c), 0)
  BY <1>1, <1>4, <1>5, <1>7, ThrowTold
<1>8. CASE /\ c # 0 /\ Write(t, r) /\ (Goto(t, "pin", c) \/ Goto(t, "capacity", 0))
           /\ UNCHANGED <<pump, stopper, flight>>
           /\ lease' = lease \/ lease' = SettledBy(c)
  <2>1. Steady /\ Lasting /\ Capturing
    BY <1>8, SlotSame, SettledBySteady DEF Told
  <2>2. \A u \in Threads : Still(u) /\ Waits(u) /\ HeadKept(u)
    BY <1>2, <1>8, WriteStill DEF Told
  <2> QED
    BY <1>4, <1>8, <2>1, <2>2, GotoTold
<1>9. CASE Write(t, r) /\ Goto(t, "capacity", 0) /\ Stand /\ UNCHANGED flight
  <2>1. Steady /\ Lasting /\ Capturing
    BY <1>9, SlotSame DEF Told, Stand
  <2>2. \A u \in Threads : Still(u) /\ Waits(u) /\ HeadKept(u)
    BY <1>2, <1>9, WriteStill DEF Told
  <2> QED
    BY <1>4, <1>9, <2>1, <2>2, GotoTold
<1> QED
  BY <1>2, <1>3, <1>6, <1>7, <1>8, <1>9 DEF Check, Stand

LEMMA CapacityTold == ASSUME Formed, Formed', Told, NEW t \in Threads, Capacity(t) PROVE Told'
<1>1. PICK n \in Nat, m \in Nat : /\ n = Len(home) /\ m = Len(child) /\ Shaped(n, m)
                                  /\ record[t] \in Thread(n, m) /\ Stood(t, record[t])
  BY RecordShapes DEF Told
<1>2. Locked(t) /\ UNCHANGED <<home, given, recovered>>
  BY DEF Capacity, Locked
<1>3. CASE Throw(t, Noted(record[t], "none"), 0)
  <2>1. Noted(record[t], "none") \in Thread(n, m) /\ Stood(t, Noted(record[t], "none"))
    BY <1>1, NotedThread, StoodAlike DEF Told
  <2> QED
    BY <1>2, <1>3, <2>1, ThrowTold
<1>4. CASE (Goto(t, "spawn", 0) \/ Goto(t, "evicting", 0)) /\ Stand /\ UNCHANGED <<record, flight>>
  <2>1. Steady /\ Lasting /\ Capturing
    BY <1>4, SlotSame DEF Told, Stand
  <2>2. \A u \in Threads : Still(u) /\ Waits(u) /\ HeadKept(u)
    BY <1>4, SameStill
  <2> QED
    BY <1>2, <1>4, <2>1, <2>2, GotoTold
<1> QED
  BY <1>3, <1>4 DEF Capacity

LEMMA SpawnTold == ASSUME Formed, Formed', Told, NEW t \in Threads, Spawn(t) PROVE Told'
<1>1. PICK n \in Nat, m \in Nat : /\ n = Len(home) /\ m = Len(child) /\ Shaped(n, m)
                                  /\ record[t] \in Thread(n, m) /\ Stood(t, record[t])
  BY RecordShapes DEF Told
<1>2. Locked(t) /\ UNCHANGED <<home, given, recovered>>
  BY DEF Spawn, Locked
<1>3. CASE Throw(t, Noted(record[t], "none"), 0)
  <2>1. Noted(record[t], "none") \in Thread(n, m) /\ Stood(t, Noted(record[t], "none"))
    BY <1>1, NotedThread, StoodAlike DEF Told
  <2> QED
    BY <1>2, <1>3, <2>1, ThrowTold
<1>4. CASE Goto(t, "record", Len(child) + 1) /\ Stand /\ UNCHANGED <<record, flight>>
  <2>1. Steady /\ Lasting /\ Capturing
    BY <1>4, SlotSame DEF Told, Stand
  <2>2. \A u \in Threads : Still(u) /\ Waits(u) /\ HeadKept(u)
    BY <1>4, SameStill
  <2> QED
    BY <1>2, <1>4, <2>1, <2>2, GotoTold
<1> QED
  BY <1>3, <1>4 DEF Spawn

LEMMA HandshakeTold == ASSUME Formed, Formed', Told, NEW t \in Threads, Handshake(t) PROVE Told'
<1>1. PICK n \in Nat, m \in Nat : /\ n = Len(home) /\ m = Len(child) /\ Shaped(n, m)
                                  /\ record[t] \in Thread(n, m) /\ Stood(t, record[t])
  BY RecordShapes DEF Told
<1>2. Locked(t) /\ UNCHANGED <<home, given, recovered>>
  BY DEF Handshake, Locked
<1>3. PICK c \in 0..m, r \in Thread(n, m) : c = job[t].child /\ r = record[t] /\ 0 \in 0..m
  BY <1>1, JobShapes
<1>4. \A d \in {c, 0} : Owner(r, d) \in Thread(n, m) /\ Stood(t, Owner(r, d))
  <2>1. r \in Thread(n, m) /\ Stood(t, r)
    BY <1>1, <1>3
  <2>2. \A d \in 0..m : Owner(r, d) \in Thread(n, m)
    BY <2>1, OwnerThread
  <2>3. \A d \in 0..m : Stood(t, Owner(r, d))
    BY <2>1, StoodAlike DEF Told
  <2> QED
    BY <1>3, <2>2, <2>3
<1>5. \A s \in {r, Owner(r, c), Owner(r, 0)} :
        s \in Thread(n, m) /\ Noted(s, "none") \in Thread(n, m) /\ Stood(t, Noted(s, "none"))
  BY <1>1, <1>3, <1>4, NotedThread, StoodAlike DEF Told
<1>6. CASE Return(t, Unpaused(Noted(Owner(r, c), "none")), c)
  <2>1. PICK e : e = Noted(Owner(r, c), "none")
    OBVIOUS
  <2>2. Unpaused(e) \in Thread(n, m) /\ Stood(t, Unpaused(e))
    BY <1>5, <2>1, PausedThread, StoodAlike DEF Told
  <2> QED
    BY <1>1, <1>2, <1>6, <2>1, <2>2, ReturnTold
<1>7. CASE \E gone : Throw(t, Noted(Owner(r, 0), "none"), gone) \/ Throw(t, Noted(r, "none"), gone)
  BY <1>2, <1>5, <1>7, ThrowTold
<1> QED
  BY <1>3, <1>6, <1>7 DEF Handshake

-------------------------------------------------------------------------------
(* Responses: who may answer, and what the slot knows of it. *)

Calm == Quiet /\ Answerable
Installing(c) == child[c].state \in {"idle", "busy"}

\* That a stop overtook a response is not forgotten.
Recalled == overtaken => overtaken'

\* No child begins to answer; one that starts is new.
Calming ==
  /\ Recalled
  /\ Len(child) <= Len(child')
  /\ \A c \in 1..Len(child) :
       /\ child'[c].thread = child[c].thread /\ child'[c].orphan = child[c].orphan
       /\ \/ child'[c].state \in {child[c].state, "dead"}
          \/ child'[c].state = "idle" /\ child[c].state # "dead"
  /\ \A c \in Len(child) + 1..Len(child') : child'[c].state = "starting"

\* The slot goes on knowing who answers.
Sound ==
  /\ Before' => Before \/ \A c \in 1..Len(child') : ~Responding(c)'
  /\ \A c \in 1..Len(child) : Responding(c)' /\ ~child[c].orphan /\ Leased(c) /\ ~lease.settled =>
       Leased(c)' /\ ~lease'.settled
  /\ lease' # None /\ lease'.gen # 0 =>
       \/ lease # None /\ lease'.gen = lease.gen /\ lease'.thread = lease.thread
       \/ /\ child'[lease'.gen].thread = lease'.thread
          /\ ~child'[lease'.gen].orphan /\ child'[lease'.gen].state # "starting"
  /\ Answering' /\ Confirming'

\* The recorded process of a thread is still the child that was installed.
Recorded ==
  \A c \in 1..Len(child') : Installing(c)' =>
    \/ record'[child'[c].thread].process = c
    \/ /\ c \in 1..Len(child) /\ Installing(c)
       /\ record'[child[c].thread].process = record[child[c].thread].process

Pinned ==
  \A t \in Threads : job'[t].pc = "pin" =>
    \/ record'[t].process = job'[t].child
    \/ /\ job[t].pc = "pin" /\ job'[t].child = job[t].child
       /\ record'[t].process = record[t].process

LEMMA CalmKept ==
  ASSUME Formed, Formed', Calm, Calming, Sound, Recorded, Pinned,
         \A x \in exits' : x \in exits \/ ~Alive(x.child)',
         stopper'.child # 0 => \/ stopper'.child = stopper.child
                               \/ child'[stopper'.child].state # "starting"
  PROVE  Calm'
<1>1. PICK n \in Nat, m \in Nat : n = Len(home) /\ m = Len(child) /\ Shaped(n, m)
  BY Sizes
<1>2. PICK v \in Nat : v = Len(child') /\ m <= v
  BY <1>1 DEF Formed, Calming
<1>3. \A c \in 1..v : \/ c \in 1..m
                      \/ child'[c].state = "starting"
  BY <1>1, <1>2 DEF Calming
<1>4. \A c \in 1..m : /\ Responding(c)' => Responding(c)
                      /\ child'[c].orphan = child[c].orphan /\ child'[c].thread = child[c].thread
                      /\ child'[c].state = "starting" => child[c].state = "starting"
                      /\ child[c].state = "dead" => child'[c].state = "dead"
  BY <1>1 DEF Calming, Recalled, Responding
<1>5. \A c \in 1..v : Responding(c)' => c \in 1..m /\ Responding(c)
  BY <1>3, <1>4 DEF Responding
<1>6. Quiet'
  <2>1. Before' => \A c \in 1..v : ~Responding(c)'
    BY <1>1, <1>2, <1>5 DEF Sound, Calm, Quiet
  <2>2. \A c, d \in 1..v : Responding(c)' /\ Responding(d)' => c = d
    BY <1>1, <1>5 DEF Calm, Quiet
  <2>3. ASSUME NEW c \in 1..v, Responding(c)', ~child'[c].orphan
        PROVE  lease' # None /\ lease'.gen = c /\ ~lease'.settled
    <3>1. c \in 1..m /\ Responding(c) /\ ~child[c].orphan
      BY <1>4, <1>5, <2>3
    <3>2. Leased(c) /\ ~lease.settled
      BY <1>1, <3>1 DEF Calm, Quiet, Leased
    <3>3. Leased(c)' /\ ~lease'.settled
      BY <1>1, <2>3, <3>1, <3>2 DEF Sound
    <3> QED
      BY <3>3 DEF Leased
  <2>4. ASSUME NEW c \in 1..v, Installing(c)' PROVE record'[child'[c].thread].process = c
    <3>1. CASE /\ c \in 1..m /\ Installing(c)
               /\ record'[child[c].thread].process = record[child[c].thread].process
      <4>1. record[child[c].thread].process = c
        BY <1>1, <3>1 DEF Calm, Quiet, Installing
      <4> QED
        BY <1>4, <3>1, <4>1
    <3> QED
      BY <1>1, <1>2, <2>4, <3>1 DEF Recorded
  <2> QED
    BY <1>2, <2>1, <2>2, <2>3, <2>4 DEF Quiet, Installing
<1>7. Answerable'
  <2>1. ASSUME lease' # None, lease'.gen # 0
        PROVE  /\ child'[lease'.gen].thread = lease'.thread
               /\ ~child'[lease'.gen].orphan /\ child'[lease'.gen].state # "starting"
    <3>1. CASE lease # None /\ lease'.gen = lease.gen /\ lease'.thread = lease.thread
      <4>1. PICK g : g = lease.gen /\ g \in 1..m
        <5>1. lease \in Lease(n, m)
          BY <1>1, <3>1, TypedSlot
        <5>2. lease.gen \in 0..m
          BY <5>1 DEF Lease
        <5> QED
          BY <2>1, <3>1, <5>2
      <4>2. child[g].thread = lease.thread /\ ~child[g].orphan /\ child[g].state # "starting"
        BY <2>1, <3>1, <4>1 DEF Calm, Answerable
      <4> QED
        BY <1>4, <3>1, <4>1, <4>2
    <3> QED
      BY <2>1, <3>1 DEF Sound
  <2>2. ASSUME NEW x \in exits' PROVE ~Alive(x.child)'
    <3>1. CASE x \in exits
      <4>1. x.child \in 1..m
        BY <1>1, <3>1 DEF Shaped, Exiting
      <4>2. child[x.child].state = "dead"
        BY <1>1, <3>1, <4>1 DEF Calm, Answerable, Alive
      <4> QED
        BY <1>4, <4>1, <4>2 DEF Alive
    <3> QED
      BY <2>2, <3>1
  <2>3. stopper'.child # 0 => child'[stopper'.child].state # "starting"
    <3>1. ASSUME stopper'.child # 0, stopper'.child = stopper.child
          PROVE  child'[stopper'.child].state # "starting"
      <4>1. stopper.child \in 1..m
        <5>1. stopper.child \in 0..m
          BY <1>1, TypedSlot DEF Stopping
        <5> QED
          BY <3>1, <5>1
      <4>2. child[stopper.child].state # "starting"
        BY <3>1, <4>1 DEF Calm, Answerable
      <4> QED
        BY <1>4, <3>1, <4>1, <4>2
    <3> QED
      BY <3>1
  <2>4. \A t \in Threads : job'[t].pc = "pin" => record'[t].process = job'[t].child
    BY DEF Pinned, Calm, Answerable
  <2> QED
    BY <2>1, <2>2, <2>3, <2>4 DEF Answerable, Sound
<1> QED
  BY <1>6, <1>7 DEF Calm

\* The children are as they were, or one of them dies.
LEMMA CalmingSame == ASSUME Formed, Recalled, UNCHANGED child PROVE Calming
  BY DEF Calming, Formed

LEMMA CalmingState ==
  ASSUME Formed, Recalled, NEW c, NEW s \in {"idle", "dead"}, child' = [child EXCEPT ![c].state = s],
         s = "idle" => Alive(c)
  PROVE  /\ Calming /\ Len(child') = Len(child)
         /\ \A d \in 1..Len(child) :
              /\ child'[d].thread = child[d].thread /\ child'[d].orphan = child[d].orphan
              /\ child'[d].state = IF d = c THEN s ELSE child[d].state
<1>1. /\ Len(child') = Len(child)
      /\ \A d \in 1..Len(child) :
           /\ child'[d].thread = child[d].thread /\ child'[d].orphan = child[d].orphan
           /\ child'[d].state = IF d = c THEN s ELSE child[d].state
  BY ChildState DEF Formed, States
<1>2. Len(child) \in Nat
  BY DEF Formed
<1> QED
  BY <1>1, <1>2 DEF Calming, Alive

\* The slot is let alone, or its pass is asked to go on.
LEMMA SoundSame ==
  ASSUME Formed, Told, Calm, Recalled, Calming, lease' = lease, pump' = pump \/ pump' = Requested(pump),
         evicting \subseteq evicting',
         stopper' = stopper \/ (stopper'.pc = "confirm" => stopper'.child # 0)
  PROVE  Sound
<1>1. PICK n \in Nat, m \in Nat : n = Len(home) /\ m = Len(child) /\ Shaped(n, m)
  BY Sizes
<1>2. Before' => Before
  BY PumpSteady
<1>3. pump'.pc = "prompt" => pump.pc = "prompt" /\ pump'.child = pump.child
  BY RequestedSteady
<1>4. \A c \in 1..m : child[c].state = "dead" => child'[c].state = "dead"
  BY <1>1 DEF Calming
<1>5. Answering'
  <2>1. ASSUME ~overtaken', pump'.pc = "prompt", Alive(pump.child)', pump'.child \notin evicting'
        PROVE  ~lease'.settled
    <3>1. ~overtaken /\ pump.pc = "prompt" /\ pump'.child = pump.child /\ pump.child \notin evicting
      BY <1>3, <2>1 DEF Recalled
    <3>2. PICK c \in 1..m : c = pump.child
      <4>1. pump.child \in 0..m
        BY <1>1, TypedSlot DEF Passes
      <4> QED
        BY <2>1, <3>1, <4>1 DEF Alive
    <3>3. Alive(pump.child)
      BY <1>4, <2>1, <3>1, <3>2 DEF Alive
    <3> QED
      BY <3>1, <3>3 DEF Calm, Answerable, Answering
  <2> QED
    BY <2>1 DEF Answering
<1>6. Confirming'
  BY DEF Calm, Answerable, Confirming
<1> QED
  BY <1>2, <1>5, <1>6 DEF Sound, Leased

\* What is written of the messages leaves the recorded process.
LEMMA ProcessKept ==
  ASSUME NEW n \in Nat, NEW m \in Nat, NEW r \in Thread(n, m), NEW id
  PROVE  /\ Enqueued(r, id).process = r.process /\ Without(r, id).process = r.process
         /\ \A fresh : Resent(r, id, fresh).process = r.process
         /\ \A state : Moved(r, id, state).process = r.process
<1>1. \A q : [r EXCEPT !.queue = q].process = r.process
  BY DEF Thread
<1>2. Enqueued(r, id).process = r.process
  <2>1. PICK q : q = Append(r.queue, [id |-> id, state |-> "queued"])
    OBVIOUS
  <2>2. Enqueued(r, id) = [r EXCEPT !.queue = q]
    BY <2>1 DEF Enqueued
  <2> QED
    BY <1>1, <2>2
<1>3. Without(r, id).process = r.process
  <2>1. PICK q : q = RemoveAt(r.queue, CHOOSE i \in 1..Len(r.queue) : r.queue[i].id = id)
    OBVIOUS
  <2>2. Without(r, id) \in {r, [r EXCEPT !.queue = q]}
    BY <2>1 DEF Without
  <2> QED
    BY <1>1, <2>2
<1>4. ASSUME NEW fresh PROVE Resent(r, id, fresh).process = r.process
  <2>1. PICK q : q = [i \in 1..Len(r.queue) |->
                       IF r.queue[i].id = id THEN [id |-> fresh, state |-> "queued"] ELSE r.queue[i]]
    OBVIOUS
  <2>2. Resent(r, id, fresh) = [r EXCEPT !.queue = q]
    BY <2>1 DEF Resent
  <2> QED
    BY <1>1, <2>2
<1>5. ASSUME NEW state PROVE Moved(r, id, state).process = r.process
  <2>1. PICK q : q = [i \in 1..Len(r.queue) |->
                       IF r.queue[i].id = id THEN [r.queue[i] EXCEPT !.state = state] ELSE r.queue[i]]
    OBVIOUS
  <2>2. Moved(r, id, state) = [r EXCEPT !.queue = q]
    BY <2>1 DEF Moved
  <2> QED
    BY <1>1, <2>2
<1> QED
  BY <1>2, <1>3, <1>4, <1>5

Unowned == \A u \in Threads : record'[u].process = record[u].process
Unpinned == \A u \in Threads : job'[u].pc = "pin" => job'[u] = job[u]

LEMMA OwnedWrite ==
  ASSUME Formed, NEW t \in Threads, NEW s, s.process = record[t].process, Write(t, s)
  PROVE  Unowned
  BY Wrote DEF Unowned

\* The recorded processes stay, and no child is installed.
LEMMA RecordedSame ==
  ASSUME Formed, Calming, Unowned,
         \A c \in 1..Len(child') : Installing(c)' => c \in 1..Len(child) /\ Installing(c)
  PROVE  Recorded
<1>1. \A c \in 1..Len(child) : child[c].thread \in Threads
  <2>1. \A c \in 1..Len(child) : child[c] \in Process
    BY DEF Formed
  <2> QED
    BY <2>1 DEF Process
<1> QED
  BY <1>1 DEF Recorded, Unowned

LEMMA PinnedSame == ASSUME Unowned, Unpinned PROVE Pinned
  BY DEF Pinned, Unowned, Unpinned

\* The steps that touch neither a child nor the slot.
LEMMA CalmAside ==
  ASSUME Formed, Formed', Told, Calm, Recalled, UNCHANGED <<child, lease, exits>>, evicting \subseteq evicting',
         pump' = pump \/ pump' = Requested(pump), Unowned, Pinned,
         \/ stopper' = stopper
         \/ /\ stopper'.pc = "confirm" => stopper'.child # 0
            /\ stopper'.child # 0 => child[stopper'.child].state # "starting"
  PROVE  Calm'
<1>1. Calming
  BY CalmingSame
<1>2. Sound
  BY <1>1, SoundSame
<1>3. Recorded
  BY <1>1, RecordedSame DEF Installing
<1> QED
  BY <1>1, <1>2, <1>3, CalmKept

LEMMA DirectoryCalm ==
  ASSUME Formed, Formed', Told, Calm, Recalled, NEW t \in Threads, Directory(t) PROVE Calm'
<1>1. UNCHANGED <<record, job, child, lease, exits, evicting, pump, stopper>>
  BY DEF Directory, slot, adapters
<1> QED
  BY <1>1, CalmAside, PinnedSame DEF Unowned, Unpinned

LEMMA ExpireCalm ==
  ASSUME Formed, Formed', Told, Calm, Recalled, NEW t \in Threads, Expire(t) PROVE Calm'
<1>1. UNCHANGED <<record, job, child, lease, exits, evicting, pump, stopper>>
  BY DEF Expire, slot, adapters, durable
<1> QED
  BY <1>1, CalmAside, PinnedSame DEF Unowned, Unpinned

LEMMA AskedUnpinned ==
  ASSUME Formed, NEW t \in Threads, NEW for, NEW id, job' = [job EXCEPT ![t] = Asked(for, id)]
  PROVE  Unpinned
  BY DEF Unpinned, Asked, Formed, Shaped

LEMMA ResumeCalm ==
  ASSUME Formed, Formed', Told, Calm, Recalled, NEW t \in Threads, Resume(t) PROVE Calm'
<1>1. /\ UNCHANGED <<record, child, lease, exits, evicting, pump, stopper>>
      /\ job' = [job EXCEPT ![t] = Asked("resume", 0)]
  BY DEF Resume, slot, adapters, durable
<1>2. Unowned /\ Unpinned
  BY <1>1, AskedUnpinned DEF Unowned
<1> QED
  BY <1>1, <1>2, CalmAside, PinnedSame

LEMMA SendCalm ==
  ASSUME Formed, Formed', Told, Calm, Recalled, NEW t \in Threads, Send(t) PROVE Calm'
<1>1. PICK n \in Nat, m \in Nat : Loaded(t) \in Thread(n, m) /\ Loaded(t).process = record[t].process
  BY RecordShapes DEF Told
<1>0. PICK id : /\ \E s \in {Loaded(t), Enqueued(Loaded(t), id)} : Write(t, s)
                /\ pump' = pump \/ pump' = Requested(pump)
                /\ UNCHANGED job \/ job' = [job EXCEPT ![t] = Asked("send", id)]
  BY DEF Send
<1>2. PICK s \in {Loaded(t), Enqueued(Loaded(t), id)} : Write(t, s)
  BY <1>0
<1>3. UNCHANGED <<child, lease, exits, evicting, stopper>>
  BY DEF Send, adapters
<1>4. s.process = record[t].process
  BY <1>1, <1>2, ProcessKept
<1>5. Unowned
  BY <1>2, <1>4, OwnedWrite
<1>6. Unpinned
  BY <1>0, AskedUnpinned DEF Unpinned
<1> QED
  BY <1>0, <1>3, <1>5, <1>6, CalmAside, PinnedSame

LEMMA DiscardCalm ==
  ASSUME Formed, Formed', Told, Calm, Recalled, NEW t \in Threads, Discard(t) PROVE Calm'
<1>1. PICK n \in Nat, m \in Nat : Loaded(t) \in Thread(n, m) /\ Loaded(t).process = record[t].process
  BY RecordShapes DEF Told
<1>0. PICK id, fresh : \E s \in {Without(Loaded(t), id), Resent(Loaded(t), id, fresh)} : Write(t, s)
  BY DEF Discard
<1>2. PICK s \in {Without(Loaded(t), id), Resent(Loaded(t), id, fresh)} : Write(t, s)
  BY <1>0
<1>3. UNCHANGED <<child, lease, exits, evicting, stopper, job>> /\ pump' = Requested(pump)
  BY DEF Discard, adapters
<1>4. s.process = record[t].process
  BY <1>1, <1>2, ProcessKept
<1>5. Unowned /\ Unpinned
  BY <1>2, <1>3, <1>4, OwnedWrite DEF Unpinned
<1> QED
  BY <1>3, <1>5, CalmAside, PinnedSame

LEMMA StalledCalm ==
  ASSUME Formed, Formed', Told, Calm, Recalled, NEW t \in Threads, Stalled(t) PROVE Calm'
<1>1. PICK n \in Nat, m \in Nat : Loaded(t) \in Thread(n, m) /\ Loaded(t).process = record[t].process
  BY RecordShapes DEF Told
<1>2. UNCHANGED <<child, lease, exits, evicting, stopper, job, pump>>
      /\ Write(t, Noted(Loaded(t), "uncertain"))
  BY DEF Stalled, adapters, slot
<1>3. Noted(Loaded(t), "uncertain").process = record[t].process
  BY <1>1, NotedThread
<1>4. Unowned /\ Unpinned
  BY <1>2, <1>3, OwnedWrite DEF Unpinned
<1> QED
  BY <1>2, <1>4, CalmAside, PinnedSame

LEMMA StopCalm ==
  ASSUME Formed, Formed', Told, Calm, Recalled, Placed, NEW t \in Threads, Stop(t) PROVE Calm'
<1>1. PICK n \in Nat, m \in Nat : Loaded(t) \in Thread(n, m) /\ Loaded(t).process = record[t].process
  BY RecordShapes DEF Told
<1>2. UNCHANGED <<child, lease, exits, evicting, job, pump>> /\ Write(t, Paused(Loaded(t)))
  BY DEF Stop, adapters
<1>3. Paused(Loaded(t)).process = record[t].process
  BY <1>1, PausedThread
<1>4. Unowned /\ Unpinned
  BY <1>2, <1>3, OwnedWrite DEF Unpinned
<1>5. stopper'.pc = "inspect" /\ stopper'.child = owned[t]
  BY DEF Stop
<1>6. owned[t] # 0 => child[owned[t]].state # "starting"
  BY DEF Placed, Housed, Homed
<1> QED
  BY <1>2, <1>4, <1>5, <1>6, CalmAside, PinnedSame

-------------------------------------------------------------------------------
(* What is done to the slot keeps what it knows of the responses. *)

\* A lease that is settled or given back.
LEMMA SettleFields ==
  ASSUME Formed, lease # None, NEW l \in {lease, Over(lease), Acked(lease), Over(Acked(lease))},
         NEW p, NEW s, Settle(l, p, s) \/ Keep(l, p, s)
  PROVE  /\ \/ lease' = None /\ Freed(l)
            \/ lease' = l /\ lease' # None
         /\ lease' # None => lease'.gen = lease.gen /\ lease'.thread = lease.thread
         /\ pump' \in {p, Requested(p)} /\ stopper' \in {s, [s EXCEPT !.mine = FALSE]}
         /\ l \in {lease, Acked(lease)} => l.settled = lease.settled
         /\ l \in {lease, Over(lease)} => l.acked = lease.acked
<1>1. PICK n \in Nat, m \in Nat : lease \in Lease(n, m)
  BY LeaseShape
<1>2. PICK a : /\ a = Acked(lease) /\ a \in Lease(n, m) /\ a.gen = lease.gen /\ a.thread = lease.thread
               /\ a.settled = lease.settled
  BY <1>1, LeaseFields
<1>3. PICK o : /\ o = Over(lease) /\ o \in Lease(n, m) /\ o.gen = lease.gen /\ o.thread = lease.thread
               /\ o.acked = lease.acked
  BY <1>1, LeaseFields
<1>4. PICK b : /\ b = Over(Acked(lease)) /\ b \in Lease(n, m) /\ b.gen = a.gen /\ b.thread = a.thread
  BY <1>2, LeaseFields
<1>5. l \in {lease, o, a, b} /\ l \in Lease(n, m)
  BY <1>1, <1>2, <1>3, <1>4
<1>6. l # None /\ l.gen = lease.gen /\ l.thread = lease.thread
  <2>1. l # None
    BY <1>5, LeaseFields
  <2> QED
    BY <1>2, <1>3, <1>4, <1>5, <2>1
<1>7. /\ l \in {lease, Acked(lease)} => l.settled = lease.settled
      /\ l \in {lease, Over(lease)} => l.acked = lease.acked
  BY <1>2, <1>3
<1>8. \/ lease' = None /\ Freed(l) /\ pump' = Requested(p) /\ stopper' = [s EXCEPT !.mine = FALSE]
      \/ lease' = l /\ pump' = p /\ stopper' = s
  BY DEF Settle, Keep, Release
<1> QED
  BY <1>6, <1>7, <1>8

\* A stop call that has its answer goes on.
LEMMA ConfirmingKept ==
  ASSUME Formed, Calm, stopper' \in {stopper, [stopper EXCEPT !.mine = FALSE]}
  PROVE  Confirming'
<1>1. PICK m \in Nat : stopper \in Stopping(m)
  BY Sizes, TypedSlot
<1>2. stopper'.pc = stopper.pc /\ stopper'.child = stopper.child
  BY <1>1 DEF Stopping
<1> QED
  BY <1>2 DEF Confirming, Calm, Answerable

\* A pass that is over.
LEMMA CalmRests ==
  ASSUME Formed, Formed', Told, Calm, Recalled, UNCHANGED <<child, exits, evicting>>,
         pump'.pc \in {"idle", "read"}, Unowned, Pinned,
         stopper' = stopper \/ stopper' = [stopper EXCEPT !.mine = FALSE],
         \A c \in 1..Len(child) : Responding(c) /\ ~child[c].orphan /\ Leased(c) /\ ~lease.settled =>
           Leased(c)' /\ ~lease'.settled,
         lease' # None /\ lease'.gen # 0 =>
           lease # None /\ lease'.gen = lease.gen /\ lease'.thread = lease.thread
  PROVE  Calm'
<1>1. Calming
  BY CalmingSame
<1>2. stopper'.child = stopper.child /\ (stopper' = stopper \/ ~stopper'.mine)
  <2>1. PICK m \in Nat : stopper \in Stopping(m)
    BY Sizes, TypedSlot
  <2> QED
    BY <2>1 DEF Stopping
<1>3. Confirming'
  BY ConfirmingKept
<1>4. Sound
  BY <1>3 DEF Sound, Before, Answering, Responding, Recalled
<1>5. Recorded
  BY <1>1, RecordedSame DEF Installing
<1>6. stopper'.child # 0 => stopper'.child = stopper.child
  BY <1>2
<1> QED
  BY <1>1, <1>4, <1>5, <1>6, CalmKept

LEMMA BusyCalm == ASSUME Formed, Formed', Told, Calm, Recalled, Busy PROVE Calm'
<1>1. UNCHANGED <<record, job, child, lease, exits, evicting, stopper>> /\ pump' = Ended(pump, FALSE)
  BY DEF Busy, adapters, durable
<1>2. pump'.pc \in {"idle", "read"}
  BY <1>1 DEF Ended, Pass, Resting
<1> QED
  BY <1>1, <1>2, CalmRests, PinnedSame DEF Unowned, Unpinned, Leased

\* A lease that is free leaves only the children of earlier services, which the
\* recorded processes tell.
LEMMA NoStranger ==
  ASSUME Formed, Placed, Calm, lease = None, Strangers = {}, NEW c \in 1..Len(child)
  PROVE  ~Responding(c)
<1>1. SUFFICES ASSUME Responding(c) PROVE FALSE
  OBVIOUS
<1>2. child[c].orphan
  BY <1>1 DEF Calm, Quiet
<1>3. PICK t \in Threads : t = child[c].thread
  <2>1. child[c] \in Process
    BY DEF Formed
  <2> QED
    BY <2>1 DEF Process
<1>4. record[t].process = c /\ Alive(c)
  BY <1>1, <1>3 DEF Calm, Quiet, Responding, Alive
<1>5. owned[t] # c
  BY <1>2, <1>4 DEF Placed, Housed, Homed, Alive
<1> QED
  BY <1>4, <1>5 DEF Strangers

LEMMA JudgeCalm == ASSUME Formed, Formed', Told, Calm, Recalled, Placed, Judge PROVE Calm'
<1>1. UNCHANGED <<job, child, exits, evicting>> /\ lease = None
  BY DEF Judge, adapters
<1>2. stopper' = stopper
  BY JudgeStep DEF Keep
<1>3. Unowned
  <2>1. ASSUME NEW u \in Threads PROVE record'[u].process = record[u].process
    <3>1. PICK n \in Nat, m \in Nat : Loaded(u) \in Thread(n, m) /\ Loaded(u).process = record[u].process
      BY RecordShapes DEF Told
    <3>2. Noted(Loaded(u), "owner").process = record[u].process
      BY <3>1, NotedThread
    <3>3. record'[u] \in {Loaded(u), Noted(Loaded(u), "owner")}
      BY JudgeStep
    <3> QED
      BY <3>1, <3>2, <3>3
  <2> QED
    BY <2>1 DEF Unowned
<1>4. Pinned
  BY <1>1, <1>3, PinnedSame DEF Unpinned
<1>5. CASE pump'.pc \in {"idle", "read"} /\ (lease' # None => lease'.gen = 0)
  BY <1>1, <1>2, <1>3, <1>4, <1>5, CalmRests DEF Leased
<1>6. CASE pump'.pc = "stage" /\ lease' = None /\ Strangers = {}
  <2>1. \A c \in 1..Len(child) : ~Responding(c)
    BY <1>1, <1>6, NoStranger
  <2>2. Calming
    BY <1>1, CalmingSame
  <2>3. Confirming'
    BY <1>2, ConfirmingKept
  <2>4. Sound
    BY <1>1, <1>6, <2>1, <2>3 DEF Sound, Answering, Responding, Recalled
  <2>5. Recorded
    BY <1>1, <1>3, <2>2, RecordedSame DEF Installing
  <2> QED
    BY <1>1, <1>2, <1>4, <2>2, <2>4, <2>5, CalmKept
<1>7. \A free \in BOOLEAN : Ended(pump, free).pc \in {"idle", "read"}
  BY DEF Ended, Pass, Resting
<1>8. \A t, id : Chosen(pump, t, id).pc = "stage"
  <2>1. PICK n \in Nat, m \in Nat : pump \in Passes(n, m)
    BY Sizes, TypedSlot
  <2> QED
    BY <2>1 DEF Chosen, Passes
<1>9. ASSUME NEW t \in Strangers,
             Keep([thread |-> t, msg |-> 0, gen |-> 0, settled |-> FALSE, acked |-> TRUE,
                   orphan |-> TRUE], Ended(pump, FALSE), stopper)
      PROVE  Calm'
  <2>1. /\ lease' = [thread |-> t, msg |-> 0, gen |-> 0, settled |-> FALSE, acked |-> TRUE,
                     orphan |-> TRUE]
        /\ pump' = Ended(pump, FALSE)
    BY <1>9 DEF Keep
  <2>2. lease'.gen = 0
    BY <2>1
  <2> QED
    BY <1>5, <1>7, <2>1, <2>2
<1>10. CASE Keep(lease, Ended(pump, TRUE), stopper)
  BY <1>1, <1>5, <1>7, <1>10 DEF Keep
<1>11. CASE Strangers = {} /\ \E t \in Threads :
              Keep(lease, Chosen(pump, t, Head(Loaded(t).queue).id), stopper)
  BY <1>1, <1>6, <1>8, <1>11 DEF Keep
<1> QED
  BY <1>9, <1>10, <1>11, JudgeStep

LEMMA StageCalm ==
  ASSUME Formed, Formed', Told, Calm, Recalled, NEW t \in Threads, Stage(t) PROVE Calm'
<1>1. PICK n \in Nat, m \in Nat : /\ Loaded(t) \in Thread(n, m) /\ Loaded(t).process = record[t].process
                                  /\ Shaped(n, m)
  BY RecordShapes DEF Told
<1>2. UNCHANGED <<child, exits, evicting>> /\ Write(t, Loaded(t)) /\ pump.pc = "stage"
  BY DEF Stage, adapters
<1>3. lease = None /\ Before
  BY <1>2 DEF Told, Staged, Before
<1>4. Unowned
  BY <1>1, <1>2, OwnedWrite
<1>5. CASE Keep(lease, Again(pump), stopper) /\ UNCHANGED job
  <2>1. pump'.pc = "read" /\ lease' = lease /\ stopper' = stopper
    BY <1>5 DEF Keep, Again, Pass
  <2>2. Pinned
    BY <1>4, <1>5, PinnedSame DEF Unpinned
  <2> QED
    BY <1>2, <1>3, <1>4, <2>1, <2>2, CalmRests DEF Leased
<1>6. CASE /\ Keep([thread |-> t, msg |-> pump.msg, gen |-> 0, settled |-> FALSE,
                    acked |-> FALSE, orphan |-> FALSE], [pump EXCEPT !.pc = "staging"], stopper)
           /\ job' = [job EXCEPT ![t] = Asked("stage", pump.msg)]
  <2>1. Pinned
    BY <1>4, <1>6, AskedUnpinned, PinnedSame
  <2>2. pump'.pc = "staging" /\ stopper' = stopper
    <3>1. pump \in Passes(n, m)
      BY <1>1, TypedSlot
    <3> QED
      BY <1>6, <3>1 DEF Keep, Passes
  <2>3. lease'.gen = 0
    BY <1>6 DEF Keep
  <2>4. Calming
    BY <1>2, CalmingSame
  <2>5. Confirming'
    BY <2>2, ConfirmingKept
  <2>6. Sound
    BY <1>3, <2>2, <2>3, <2>5 DEF Sound, Answering, Leased
  <2>7. Recorded
    BY <1>2, <1>4, <2>4, RecordedSame DEF Installing
  <2> QED
    BY <1>2, <2>1, <2>2, <2>4, <2>6, <2>7, CalmKept
<1> QED
  BY <1>5, <1>6 DEF Stage

\* One child begins to answer the message that the pump holds.
LEMMA PromptCalm == ASSUME Formed, Formed', Told, Calm, Recalled, Prompt PROVE Calm'
<1>1. PICK n \in Nat, m \in Nat : n = Len(home) /\ m = Len(child) /\ Shaped(n, m)
  BY Sizes
<1>2. PICK reply \in {"started", "handled", "refused", "lost"}, heard \in BOOLEAN :
        /\ pump.pc = "prompt" /\ pump' = [pump EXCEPT !.pc = "ack", !.reply = reply]
        /\ heard => Alive(pump.child) /\ pump.child \notin evicting /\ reply # "refused"
        /\ reply \in {"started", "handled"} => heard
        /\ child' = IF heard /\ reply # "handled"
                    THEN [child EXCEPT ![pump.child].state = "busy"] ELSE child
  BY PromptStep
<1>3. UNCHANGED <<record, job, lease, exits, stopper, evicting, overtaken>>
  BY DEF Prompt, adapters
<1>4. pump'.pc = "ack" /\ pump'.reply = reply /\ pump'.child = pump.child
  <2>1. pump \in Passes(n, m)
    BY <1>1, TypedSlot
  <2> QED
    BY <1>2, <2>1 DEF Passes
<1>5. PICK c \in 1..m : c = pump.child /\ lease # None /\ lease.gen = c
  <2>1. pump.child \in 0..m /\ pump.child # 0 /\ lease # None /\ lease.gen = pump.child
    BY <1>1, <1>2, TypedSlot DEF Passes, Told, Staged, Engaged
  <2> QED
    BY <2>1
<1>6. \A d \in 1..m : ~Responding(d)
  BY <1>1, <1>2 DEF Calm, Quiet, Before
<1>7. child[c].thread = lease.thread /\ ~child[c].orphan /\ child[c].state # "starting"
  BY <1>5 DEF Calm, Answerable
<1>8. Confirming'
  BY <1>3, ConfirmingKept
<1>9. Answering' /\ Confirming' /\ Unowned /\ Unpinned
  BY <1>3, <1>4, <1>8 DEF Answering, Unowned, Unpinned
<1>10. CASE child' = child
  <2>1. Calming
    BY <1>10, CalmingSame
  <2>2. Sound
    BY <1>1, <1>3, <1>6, <1>9, <1>10 DEF Sound, Responding
  <2>3. Recorded
    BY <1>9, <1>10, <2>1, RecordedSame DEF Installing
  <2> QED
    BY <1>3, <1>9, <1>10, <2>1, <2>2, <2>3, CalmKept, PinnedSame
<1>11. CASE heard /\ reply # "handled" /\ child' = [child EXCEPT ![c].state = "busy"]
  <2>1. /\ Len(child') = m
        /\ \A d \in 1..m : /\ child'[d].thread = child[d].thread /\ child'[d].orphan = child[d].orphan
                           /\ child'[d].state = IF d = c THEN "busy" ELSE child[d].state
    BY <1>1, <1>11, ChildState DEF Formed, States
  <2>2. Alive(c) /\ c \notin evicting /\ (overtaken \/ ~lease.settled)
    BY <1>2, <1>5, <1>11 DEF Calm, Answerable, Answering
  <2>3. ~Before'
    BY <1>2, <1>4, <1>11 DEF Before
  <2>4. \A d \in 1..m : Responding(d)' => d = c /\ ~overtaken
    BY <1>3, <1>6, <2>1 DEF Responding
  <2>5. \A d \in 1..m : Installing(d)' => Installing(d)
    <3>1. child[c] \in Process
      BY <1>1 DEF Formed
    <3>2. Installing(c)
      BY <1>7, <2>2, <3>1 DEF Process, States, Installing, Alive
    <3> QED
      BY <2>1, <3>2 DEF Installing
  <2>6. \A d \in 1..m : Installing(d)' => record'[child'[d].thread].process = d
    BY <1>1, <1>3, <2>1, <2>5 DEF Calm, Quiet, Installing
  <2>7. Quiet'
    <3>1. \A d \in 1..m : Responding(d)' => lease' # None /\ lease'.gen = d /\ ~lease'.settled
      BY <1>3, <1>5, <2>2, <2>4
    <3> QED
      BY <2>1, <2>3, <2>4, <2>6, <3>1 DEF Quiet, Installing
  <2>8. Answerable'
    <3>1. /\ child'[lease'.gen].thread = lease'.thread
          /\ ~child'[lease'.gen].orphan /\ child'[lease'.gen].state # "starting"
      BY <1>3, <1>5, <1>7, <2>1
    <3>2. ASSUME NEW x \in exits' PROVE ~Alive(x.child)'
      <4>1. x.child \in 1..m /\ ~Alive(x.child)
        BY <1>1, <1>3, <3>2 DEF Shaped, Exiting, Calm, Answerable
      <4>2. x.child # c
        BY <2>2, <4>1
      <4> QED
        BY <2>1, <4>1, <4>2 DEF Alive
    <3>3. stopper'.child # 0 => child'[stopper'.child].state # "starting"
      <4>1. stopper.child \in 0..m
        BY <1>1, TypedSlot DEF Stopping
      <4>2. stopper.child # 0 => child[stopper.child].state # "starting"
        BY DEF Calm, Answerable
      <4> QED
        BY <1>3, <2>1, <4>1, <4>2
    <3>4. \A t \in Threads : job'[t].pc = "pin" => record'[t].process = job'[t].child
      BY <1>3 DEF Calm, Answerable
    <3> QED
      BY <1>9, <3>1, <3>2, <3>3, <3>4 DEF Answerable
  <2> QED
    BY <2>7, <2>8 DEF Calm
<1> QED
  BY <1>2, <1>5, <1>10, <1>11

\* A response that was handled or refused did not begin.
LEMMA AckCalm == ASSUME Formed, Formed', Told, Calm, Recalled, Ack PROVE Calm'
<1>1. PICK n \in Nat, m \in Nat : n = Len(home) /\ m = Len(child) /\ Shaped(n, m)
  BY Sizes
<1>2. UNCHANGED <<child, exits, evicting, job>> /\ pump.pc = "ack"
  BY DEF Ack, adapters
<1>3. pump'.pc = "read"
  BY AckRests
<1>4. lease # None
  BY <1>2 DEF Told, Staged, Engaged
<1>5. PICK t \in Threads : t = pump.thread
  BY <1>1, <1>2, TypedSlot
<1>6. PICK r \in Thread(n, m), id \in Nat : r = record[t] /\ id = pump.msg
  <2>1. pump.msg \in 0..n
    BY <1>1, TypedSlot DEF Passes
  <2> QED
    BY <1>1, <2>1, JobShapes
<1>7. Unowned
  <2>1. /\ Without(r, id) \in Thread(n, m) /\ Moved(r, id, "queued") \in Thread(n, m)
        /\ Moved(r, id, "uncertain") \in Thread(n, m)
    BY WithoutThread, MovedThread
  <2>2. /\ Without(r, id).process = r.process /\ Moved(r, id, "queued").process = r.process
        /\ Moved(r, id, "uncertain").process = r.process
    <3>1. /\ Without(r, id).process = r.process
          /\ \A state : Moved(r, id, state).process = r.process
      BY ProcessKept, Zenon
    <3> QED
      BY <3>1
  <2>3. Answered(Without(r, id), id).process = r.process
    BY <2>1, <2>2, AnsweredThread
  <2>4. /\ Noted(Moved(r, id, "queued"), "none") \in Thread(n, m)
        /\ Noted(Moved(r, id, "queued"), "none").process = r.process
        /\ Noted(Moved(r, id, "uncertain"), "uncertain").process = r.process
    BY <2>1, <2>2, NotedThread
  <2>5. Paused(Noted(Moved(r, id, "queued"), "none")).process = r.process
    BY <2>4, PausedThread
  <2>6. \/ UNCHANGED record
        \/ \E s \in {Answered(Without(r, id), id), Paused(Noted(Moved(r, id, "queued"), "none")),
                     Noted(Moved(r, id, "uncertain"), "uncertain")} : Write(t, s)
    BY <1>5, <1>6, AckStep
  <2>7. CASE UNCHANGED record
    BY <2>7 DEF Unowned
  <2> QED
    BY <1>6, <2>3, <2>4, <2>5, <2>6, <2>7, OwnedWrite
<1>8. Pinned
  BY <1>2, <1>7, PinnedSame DEF Unpinned
<1>9. PICK l \in {lease, Over(lease), Acked(lease), Over(Acked(lease))},
           p \in {Pass("read", pump.again, pump.excluded), Again(pump)} :
        /\ Settle(l, p, stopper) \/ Keep(l, p, stopper)
        /\ l \in {lease, Acked(lease)} \/ pump.reply \in {"handled", "refused"}
  BY AckStep
<1>10. /\ \/ lease' = None /\ Freed(l)
          \/ lease' = l /\ lease' # None
       /\ lease' # None => lease'.gen = lease.gen /\ lease'.thread = lease.thread
       /\ stopper' \in {stopper, [stopper EXCEPT !.mine = FALSE]}
       /\ l \in {lease, Acked(lease)} => l.settled = lease.settled
  BY <1>4, <1>9, SettleFields
<1>11. ASSUME NEW c \in 1..Len(child), Responding(c), ~child[c].orphan, Leased(c), ~lease.settled
       PROVE  Leased(c)' /\ ~lease'.settled
  <2>1. ~Before
    BY <1>11 DEF Calm, Quiet
  <2>2. l \in {lease, Acked(lease)}
    BY <1>2, <1>9, <2>1 DEF Before
  <2>3. lease' = l /\ lease' # None /\ ~lease'.settled
    BY <1>10, <1>11, <2>2 DEF Freed
  <2> QED
    BY <1>10, <1>11, <2>3 DEF Leased
<1> QED
  BY <1>2, <1>3, <1>4, <1>7, <1>8, <1>10, <1>11, CalmRests

\* A service that starts again has no lease and no child of its own.
LEMMA CrashCalm == ASSUME Formed, Formed', Calm, Recalled, Crash PROVE Calm'
<1>1. PICK k \in Nat : k = Len(child) /\ child \in [1..k -> Process]
  BY LenProperties DEF Formed
<1>2. \A c \in 1..k : child'[c] = [child[c] EXCEPT !.orphan = TRUE]
  BY <1>1 DEF Crash
<1>3. Len(child') = k
  <2>1. child' \in [1..k -> Process]
    <3>1. \A c \in 1..k : [child[c] EXCEPT !.orphan = TRUE] \in Process
      <4>1. \A p \in Process : [p EXCEPT !.orphan = TRUE] \in Process
        BY DEF Process
      <4> QED
        BY <1>1, <4>1
    <3> QED
      BY <1>1, <3>1 DEF Crash
  <2> QED
    BY <1>1, <2>1, SeqDef, LenProperties
<1>4. \A c \in 1..k : child'[c].thread = child[c].thread /\ child'[c].state = child[c].state /\ child'[c].orphan
  <2>1. \A p \in Process : /\ [p EXCEPT !.orphan = TRUE].thread = p.thread
                           /\ [p EXCEPT !.orphan = TRUE].state = p.state
                           /\ [p EXCEPT !.orphan = TRUE].orphan
    BY DEF Process
  <2>2. TAKE c \in 1..k
  <2>3. PICK p \in Process : p = child[c]
    BY <1>1
  <2>4. child'[c] = [p EXCEPT !.orphan = TRUE]
    BY <1>2, <2>3
  <2> QED
    BY <2>1, <2>3, <2>4
<1>5. /\ lease' = None /\ pump' = Resting /\ job' = [t \in Threads |-> Free] /\ exits' = {}
      /\ stopper' = NoStop /\ UNCHANGED record
  BY DEF Crash
<1>6. pump'.pc = "idle" /\ stopper'.child = 0 /\ stopper'.pc = "idle" /\ \A t \in Threads : job'[t].pc = "free"
  BY <1>5 DEF Resting, Pass, NoStop, Free
<1>7. Quiet'
  BY <1>1, <1>3, <1>4, <1>5, <1>6 DEF Calm, Recalled, Quiet, Before, Responding
<1>8. Answerable'
  BY <1>5, <1>6 DEF Answerable, Answering, Confirming
<1> QED
  BY <1>7, <1>8 DEF Calm

\* A lease that is given back, or settled, was not that of a child which may
\* still answer.
LEMMA CalmEases ==
  ASSUME Formed, Formed', Told, Calm, Recalled, Calming, Recorded, Pinned, Confirming',
         pump' = pump \/ pump' = Requested(pump), evicting \subseteq evicting',
         lease' # None => lease # None /\ lease'.gen = lease.gen /\ lease'.thread = lease.thread,
         \/ lease' = lease \/ pump.pc # "prompt" \/ overtaken'
         \/ lease.gen = 0 \/ child'[lease.gen].state = "dead",
         \A c \in 1..Len(child) : Responding(c)' /\ ~child[c].orphan /\ Leased(c) /\ ~lease.settled =>
           Leased(c)' /\ ~lease'.settled,
         \A x \in exits' : x \in exits \/ ~Alive(x.child)',
         stopper'.child # 0 => stopper'.child = stopper.child
  PROVE  Calm'
<1>1. PICK n \in Nat, m \in Nat : n = Len(home) /\ m = Len(child) /\ Shaped(n, m)
  BY Sizes
<1>2. Before' => Before
  BY PumpSteady
<1>3. Answering'
  <2>1. ASSUME ~overtaken', pump'.pc = "prompt", Alive(pump.child)', pump'.child \notin evicting'
        PROVE  ~lease'.settled
    <3>1. ~overtaken /\ pump.pc = "prompt" /\ pump'.child = pump.child /\ pump.child \notin evicting
      BY <2>1, RequestedSteady DEF Recalled
    <3>2. lease.gen = pump.child /\ pump.child \in 0..m
      BY <1>1, <3>1, TypedSlot DEF Told, Staged, Passes
    <3>3. PICK c \in 1..m : c = pump.child
      BY <2>1, <3>1, <3>2 DEF Alive
    <3>4. child[c].state = "dead" => child'[c].state = "dead"
      BY <1>1 DEF Calming
    <3>5. Alive(pump.child) /\ lease.gen # 0 /\ child'[lease.gen].state # "dead"
      BY <2>1, <3>1, <3>2, <3>3, <3>4 DEF Alive
    <3>6. lease' = lease
      BY <2>1, <3>1, <3>5
    <3> QED
      BY <3>1, <3>5, <3>6 DEF Calm, Answerable, Answering
  <2> QED
    BY <2>1 DEF Answering
<1>4. Sound
  BY <1>2, <1>3 DEF Sound
<1> QED
  BY <1>4, CalmKept

LEMMA Unmined ==
  ASSUME Formed, stopper' \in {stopper, [stopper EXCEPT !.mine = FALSE]}
  PROVE  stopper'.child = stopper.child
<1>1. PICK m \in Nat : stopper \in Stopping(m)
  BY Sizes, TypedSlot
<1> QED
  BY <1>1 DEF Stopping

\* The end of the only response.
LEMMA SettledCalm ==
  ASSUME Formed, Formed', Told, Calm, Recalled, NEW c \in 1..Len(child), Settled(c) PROVE Calm'
<1>1. /\ child[c].state = "busy" /\ Alive(c) /\ child' = [child EXCEPT ![c].state = "idle"]
      /\ UNCHANGED <<record, job, exits, evicting>>
  BY DEF Settled, adapters, Alive, Formed
<1>2. /\ Calming /\ Len(child') = Len(child)
      /\ \A d \in 1..Len(child) : child'[d].state = IF d = c THEN "idle" ELSE child[d].state
  <2>1. /\ Calming /\ Len(child') = Len(child)
        /\ \A d \in 1..Len(child) :
             /\ child'[d].thread = child[d].thread /\ child'[d].orphan = child[d].orphan
             /\ child'[d].state = IF d = c THEN "idle" ELSE child[d].state
    BY <1>1, CalmingState, ZenonT(40)
  <2> QED
    BY <2>1
<1>3. \A d \in 1..Len(child) : ~Responding(d)'
  BY <1>1, <1>2 DEF Calm, Recalled, Quiet, Responding
<1>4. (pump.pc # "prompt" \/ overtaken') /\ Unowned /\ Unpinned
  BY <1>1 DEF Calm, Recalled, Quiet, Before, Responding, Unowned, Unpinned
<1>5. Recorded
  BY <1>1, <1>2, <1>4, RecordedSame DEF Installing
<1>6. /\ pump' = pump \/ pump' = Requested(pump)
      /\ stopper' \in {stopper, [stopper EXCEPT !.mine = FALSE]}
      /\ lease' # None => lease # None /\ lease'.gen = lease.gen /\ lease'.thread = lease.thread
  <2>1. CASE Leased(c) /\ Settle(EndOf(c), pump, stopper)
    <3>1. PICK l \in {lease, Over(lease)} : Settle(l, pump, stopper)
      BY <2>1 DEF EndOf, SettledBy
    <3>2. /\ lease # None /\ Settle(l, pump, stopper)
          /\ l \in {lease, Over(lease), Acked(lease), Over(Acked(lease))}
      BY <2>1, <3>1 DEF Leased
    <3>3. /\ lease' # None => lease'.gen = lease.gen /\ lease'.thread = lease.thread
          /\ pump' \in {pump, Requested(pump)}
          /\ stopper' \in {stopper, [stopper EXCEPT !.mine = FALSE]}
      BY <3>2, SettleFields
    <3> QED
      BY <3>2, <3>3
  <2>2. CASE Stand
    BY <2>2 DEF Stand
  <2> QED
    BY <2>1, <2>2 DEF Settled
<1>7. stopper'.child = stopper.child
  BY <1>6, Unmined
<1>8. Confirming'
  BY <1>6, ConfirmingKept
<1> QED
  BY <1>1, <1>2, <1>3, <1>4, <1>5, <1>6, <1>7, <1>8, CalmEases, PinnedSame

\* A dead child's lease is settled.
LEMMA OverCalm ==
  ASSUME Formed, Formed', Told, Calm, Recalled, NEW c \in 1..Len(child), ~Alive(c)', Calming,
         lease' = SettledBy(c), UNCHANGED <<pump, stopper>>, evicting \subseteq evicting',
         Unowned, Pinned,
         \A d \in 1..Len(child') : Installing(d)' => d \in 1..Len(child) /\ Installing(d),
         \A x \in exits' : x \in exits \/ ~Alive(x.child)'
  PROVE  Calm'
<1>1. Recorded
  BY RecordedSame
<1>2. PICK n \in Nat, m \in Nat : n = Len(home) /\ m = Len(child) /\ Shaped(n, m)
  BY Sizes
<1>3. /\ lease' = lease \/ (Leased(c) /\ lease' = Over(lease))
      /\ \A d : d # c /\ Leased(d) => lease' = lease
  BY DEF SettledBy, Leased
<1>4. lease' # None => lease # None /\ lease'.gen = lease.gen /\ lease'.thread = lease.thread
  <2>1. CASE Leased(c) /\ lease' = Over(lease)
    <3>1. lease # None /\ lease \in Lease(n, m)
      BY <1>2, <2>1, TypedSlot DEF Leased
    <3>2. Over(lease).gen = lease.gen /\ Over(lease).thread = lease.thread
      BY <1>2, <3>1, LeaseFields
    <3> QED
      BY <2>1, <3>1, <3>2
  <2> QED
    BY <1>3, <2>1
<1>5. \A d \in 1..Len(child) : Responding(d)' => d # c
  BY DEF Responding, Alive
<1>6. \A d \in 1..Len(child) : Responding(d)' /\ ~child[d].orphan /\ Leased(d) /\ ~lease.settled =>
        Leased(d)' /\ ~lease'.settled
  BY <1>3, <1>5 DEF Leased
<1>7. lease' = lease \/ lease.gen = 0 \/ child'[lease.gen].state = "dead"
  BY <1>3 DEF Leased, Alive
<1>8. Confirming'
  BY ConfirmingKept
<1> QED
  BY <1>1, <1>4, <1>6, <1>7, <1>8, CalmEases

LEMMA DiesCalm ==
  ASSUME Formed, Formed', Told, Calm, Recalled, NEW c \in 1..Len(child), Alive(c), Dies(c),
         lease' = SettledBy(c), UNCHANGED <<pump, stopper>>, evicting \subseteq evicting',
         Unowned, Pinned
  PROVE  Calm'
<1>1. /\ child' = [child EXCEPT ![c].state = "dead"]
      /\ \A x \in exits' : x \in exits \/ x = [child |-> c, mine |-> Leased(c)]
  BY DEF Dies
<1>2. /\ Calming /\ Len(child') = Len(child)
      /\ \A d \in 1..Len(child) : child'[d].state = IF d = c THEN "dead" ELSE child[d].state
  BY <1>1, CalmingState
<1>3. ~Alive(c)' /\ \A d \in 1..Len(child) : Installing(d)' => Installing(d)
  BY <1>2 DEF Alive, Installing
<1>4. \A x \in exits' : x \in exits \/ ~Alive(x.child)'
  BY <1>1, <1>3
<1> QED
  BY <1>2, <1>3, <1>4, OverCalm

LEMMA ChildDiesCalm ==
  ASSUME Formed, Formed', Told, Calm, Recalled, NEW c \in 1..Len(child), ChildDies(c) PROVE Calm'
<1>1. Alive(c) /\ Dies(c) /\ lease' = SettledBy(c) /\ UNCHANGED <<record, job, pump, stopper, evicting>>
  BY DEF ChildDies
<1> QED
  BY <1>1, DiesCalm, PinnedSame DEF Unowned, Unpinned

\* A record that loses its process loses a dead one.
LEMMA OneRecorded ==
  ASSUME Formed, Calm, Calming, NEW t \in Threads, NEW s, Write(t, s),
         s.process = record[t].process \/ ~Alive(record[t].process),
         \A c \in 1..Len(child') : Installing(c)' => c \in 1..Len(child) /\ Installing(c)
  PROVE  Recorded
<1>1. ASSUME NEW c \in 1..Len(child), Installing(c)
      PROVE  record'[child[c].thread].process = record[child[c].thread].process
  <2>1. PICK u \in Threads : u = child[c].thread
    <3>1. child[c] \in Process
      BY DEF Formed
    <3> QED
      BY <3>1 DEF Process
  <2>2. record[u].process = c /\ Alive(c)
    BY <1>1, <2>1 DEF Calm, Quiet, Installing, Alive
  <2>3. s.process = record[u].process \/ u # t
    BY <2>2
  <2> QED
    BY <2>1, <2>3, Wrote
<1> QED
  BY <1>1 DEF Recorded

\* No job holds the lock under which the record is written.
LEMMA PinnedAside ==
  ASSUME Formed, NEW t \in Threads, ~Locked(t), NEW s, Write(t, s), UNCHANGED job
  PROVE  Pinned
<1>1. \A u \in Threads : job'[u].pc = "pin" => u # t
  BY DEF Locked
<1>2. \A u \in Threads : u # t => record'[u] = record[u]
  BY Wrote
<1> QED
  BY <1>1, <1>2 DEF Pinned

LEMMA ExitCalm == ASSUME Formed, Formed', Told, Calm, Recalled, NEW x \in exits, Exit(x) PROVE Calm'
<1>1. PICK n \in Nat, m \in Nat : n = Len(home) /\ m = Len(child) /\ Shaped(n, m)
  BY Sizes
<1>2. PICK c \in 1..m : c = x.child /\ ~Alive(c)
  BY <1>1 DEF Shaped, Exiting, Calm, Answerable
<1>3. PICK t \in Threads : t = child[c].thread
  <2>1. child[c] \in Process
    BY <1>1, <1>2 DEF Formed
  <2> QED
    BY <2>1 DEF Process
<1>4. UNCHANGED <<child, job, evicting>> /\ ~Locked(t) /\ exits' \subseteq exits
  BY <1>2, <1>3 DEF Exit
<1>5. Calming
  BY <1>4, CalmingSame
<1>6. \A d \in 1..Len(child') : Installing(d)' => d \in 1..Len(child) /\ Installing(d)
  BY <1>4 DEF Installing
<1>7. Recorded /\ Pinned
  <2>1. CASE UNCHANGED record
    <3>1. Unowned /\ Unpinned
      BY <1>4, <2>1 DEF Unowned, Unpinned
    <3> QED
      BY <1>5, <1>6, <3>1, RecordedSame, PinnedSame
  <2>2. CASE Write(t, IF record[t].process = c THEN Cleared(record[t]) ELSE record[t])
    <3>1. PICK s : s = IF record[t].process = c THEN Cleared(record[t]) ELSE record[t]
      OBVIOUS
    <3>2. s.process = record[t].process \/ ~Alive(record[t].process)
      BY <1>2, <3>1
    <3> QED
      BY <1>4, <1>5, <1>6, <2>2, <3>1, <3>2, OneRecorded, PinnedAside
  <2> QED
    BY <1>2, <1>3, <2>1, <2>2 DEF Exit
<1>8. /\ pump' = pump \/ pump' = Requested(pump)
      /\ stopper' \in {stopper, [stopper EXCEPT !.mine = FALSE]}
      /\ lease' = lease \/ (lease' = None /\ Leased(c))
  BY <1>2 DEF Exit, Stand, Release, Keep
<1>9. stopper'.child = stopper.child
  BY <1>8, Unmined
<1>10. Confirming'
  BY <1>8, ConfirmingKept
<1>11. \A d \in 1..Len(child) : Responding(d)' => d # c
  BY <1>2, <1>4 DEF Responding, Alive
<1>12. \A d \in 1..Len(child) : Responding(d)' /\ ~child[d].orphan /\ Leased(d) /\ ~lease.settled =>
        Leased(d)' /\ ~lease'.settled
  BY <1>8, <1>11 DEF Leased
<1>13. lease' = lease \/ child'[lease.gen].state = "dead"
  BY <1>2, <1>4, <1>8 DEF Leased, Alive
<1> QED
  BY <1>4, <1>5, <1>7, <1>8, <1>9, <1>10, <1>12, <1>13, CalmEases

\* What stop leaves of the lease.
LEMMA StopUnownedCalm == ASSUME Formed, Formed', Told, Calm, Recalled, StopUnowned PROVE Calm'
<1>1. PICK t \in Threads : t = stopper.thread
  BY Sizes, TypedSlot DEF StopUnowned
<1>2. PICK n \in Nat, m \in Nat : /\ n = Len(home) /\ m = Len(child) /\ Shaped(n, m)
                                  /\ Loaded(t) \in Thread(n, m) /\ Loaded(t).process = record[t].process
  BY RecordShapes DEF Told
<1>3. PICK r \in Thread(n, m), p \in 0..m : r = Loaded(t) /\ p = stopper.process
  BY <1>2, TypedSlot DEF Stopping
<1>4. PICK c \in 0..m : c = stopper.child /\ ~Alive(c)
  BY <1>2, TypedSlot DEF Stopping, StopUnowned
<1>5. UNCHANGED <<child, job, exits, evicting>> /\ ~Locked(t)
  BY <1>1 DEF StopUnowned, adapters
<1>6. Calming
  BY <1>5, CalmingSame
<1>7. \A d \in 1..Len(child') : Installing(d)' => d \in 1..Len(child) /\ Installing(d)
  BY <1>5 DEF Installing
<1>8. Recorded /\ Pinned
  <2>1. PICK s : /\ Write(t, s)
                 /\ \/ s \in {Noted(r, "none"), Noted(r, "owner"), r}
                    \/ s = Cleared(r) /\ r.process = p /\ ~Alive(p)
    BY <1>1, <1>3 DEF StopUnowned
  <2>2. Noted(r, "none").process = r.process /\ Noted(r, "owner").process = r.process
    BY NotedThread
  <2>3. s.process = record[t].process \/ ~Alive(record[t].process)
    BY <1>2, <1>3, <2>1, <2>2
  <2> QED
    BY <1>5, <1>6, <1>7, <2>1, <2>3, OneRecorded, PinnedAside
<1>9. \/ Keep(lease, pump, NoStop)
      \/ /\ stopper.mine
         /\ \/ Settle(lease, pump, NoStop)
            \/ /\ Settle(Over(lease), pump, NoStop)
               /\ c # 0 \/ lease.orphan
  BY <1>4 DEF StopUnowned
<1>10. stopper.mine => lease # None /\ c \in {0, lease.gen} /\ (lease.orphan => lease.gen = 0)
  BY <1>4 DEF Told, Staged
<1>11. NoStop.child = 0 /\ NoStop.pc = "idle" /\ [NoStop EXCEPT !.mine = FALSE].child = 0
       /\ [NoStop EXCEPT !.mine = FALSE].pc = "idle"
  BY DEF NoStop
<1>12. /\ pump' = pump \/ pump' = Requested(pump)
       /\ stopper' \in {NoStop, [NoStop EXCEPT !.mine = FALSE]}
       /\ lease' # None => lease # None /\ lease'.gen = lease.gen /\ lease'.thread = lease.thread
       /\ \/ lease' = lease
          \/ lease # None /\ lease.settled /\ lease.acked
          \/ lease # None /\ ~Alive(lease.gen)
  <2>1. CASE Keep(lease, pump, NoStop)
    BY <2>1 DEF Keep
  <2>2. ASSUME stopper.mine, NEW l \in {lease, Over(lease)}, Settle(l, pump, NoStop),
               l = lease \/ c # 0 \/ lease.orphan
        PROVE  /\ pump' = pump \/ pump' = Requested(pump)
               /\ stopper' \in {NoStop, [NoStop EXCEPT !.mine = FALSE]}
               /\ lease # None
               /\ lease' # None => lease'.gen = lease.gen /\ lease'.thread = lease.thread
               /\ \/ lease' = lease
                  \/ lease.settled /\ lease.acked
                  \/ ~Alive(lease.gen)
    <3>1. lease # None /\ l \in {lease, Over(lease), Acked(lease), Over(Acked(lease))}
      BY <1>10, <2>2
    <3>2. /\ \/ lease' = None /\ Freed(l)
             \/ lease' = l
          /\ lease' # None => lease'.gen = lease.gen /\ lease'.thread = lease.thread
          /\ pump' \in {pump, Requested(pump)} /\ stopper' \in {NoStop, [NoStop EXCEPT !.mine = FALSE]}
      BY <2>2, <3>1, SettleFields
    <3>3. l # lease => ~Alive(lease.gen)
      BY <1>4, <1>10, <2>2 DEF Alive
    <3> QED
      BY <3>1, <3>2, <3>3 DEF Freed
  <2>3. CASE stopper.mine /\ Settle(lease, pump, NoStop)
    BY <2>2, <2>3
  <2>4. CASE stopper.mine /\ Settle(Over(lease), pump, NoStop) /\ (c # 0 \/ lease.orphan)
    BY <2>2, <2>4
  <2> QED
    BY <1>9, <2>1, <2>3, <2>4
<1>13. stopper'.child = 0 /\ stopper'.pc = "idle"
  BY <1>11, <1>12
<1>14. lease' = lease \/ pump.pc # "prompt" \/ lease.gen = 0 \/ child'[lease.gen].state = "dead"
  BY <1>5, <1>12 DEF Told, Staged, Engaged, Alive
<1>15. \A d \in 1..Len(child) : Responding(d)' => d # 0 /\ Alive(d)
  BY <1>5 DEF Responding, Alive, Formed
<1>16. \A d \in 1..Len(child) : Responding(d)' /\ ~child[d].orphan /\ Leased(d) /\ ~lease.settled =>
        Leased(d)' /\ ~lease'.settled
  BY <1>12, <1>15 DEF Leased
<1>17. Confirming'
  BY <1>13 DEF Confirming
<1> QED
  BY <1>5, <1>6, <1>8, <1>12, <1>13, <1>14, <1>16, <1>17, CalmEases

\* A child that answers the abort is idle.
LEMMA StopAbortsCalm ==
  ASSUME Formed, Formed', Told, Calm, Recalled, StopAborts PROVE Calm'
<1>1. PICK n \in Nat, m \in Nat : n = Len(home) /\ m = Len(child) /\ Shaped(n, m)
  BY Sizes
<1>2. PICK c \in 1..m : c = stopper.child /\ Alive(c)
  <2>1. stopper.child \in 0..m /\ Alive(stopper.child)
    BY <1>1, TypedSlot DEF Stopping, StopAborts
  <2> QED
    BY <2>1 DEF Alive
<1>3. /\ UNCHANGED <<record, job, exits, evicting, overtaken>>
      /\ child' = [child EXCEPT ![c].state = "idle"]
  BY <1>2 DEF StopAborts, adapters
<1>4. PICK s : s = [stopper EXCEPT !.pc = "look"]
  OBVIOUS
<1>5. /\ s.pc = "look" /\ s.child = c
      /\ [s EXCEPT !.mine = FALSE].pc = "look" /\ [s EXCEPT !.mine = FALSE].child = c
  BY <1>1, <1>2, <1>4, TypedSlot DEF Stopping
<1>6. /\ Calming /\ Len(child') = Len(child)
      /\ \A d \in 1..Len(child) : child'[d].state = IF d = c THEN "idle" ELSE child[d].state
  <2>1. /\ Calming /\ Len(child') = Len(child)
        /\ \A d \in 1..Len(child) :
             /\ child'[d].thread = child[d].thread /\ child'[d].orphan = child[d].orphan
             /\ child'[d].state = IF d = c THEN "idle" ELSE child[d].state
    <3>1. Alive(c) /\ child' = [child EXCEPT ![c].state = "idle"]
      BY <1>2, <1>3
    <3> QED
      BY <3>1, CalmingState, ZenonT(40)
  <2> QED
    BY <2>1
<1>7. Installing(c)
  <2>1. child[c].state # "starting" /\ child[c] \in Process
    BY <1>1, <1>2 DEF Calm, Answerable, Formed
  <2> QED
    BY <1>2, <2>1 DEF Process, States, Alive, Installing
<1>8. \A d \in 1..Len(child') : Installing(d)' => d \in 1..Len(child) /\ Installing(d)
  BY <1>6, <1>7 DEF Installing
<1>9. Unowned /\ Unpinned
  BY <1>3 DEF Unowned, Unpinned
<1>10. Recorded /\ Pinned
  BY <1>6, <1>8, <1>9, RecordedSame, PinnedSame
<1>11. /\ pump' = pump \/ pump' = Requested(pump)
       /\ stopper' \in {s, [s EXCEPT !.mine = FALSE]}
       /\ lease' # None => lease # None /\ lease'.gen = lease.gen /\ lease'.thread = lease.thread
       /\ lease' = lease \/ child[c].state = "busy"
  <2>1. CASE child[c].state = "busy" /\ Leased(c) /\ Settle(EndOf(c), pump, s)
    <3>1. PICK l \in {lease, Over(lease)} : Settle(l, pump, s)
      BY <2>1 DEF EndOf, SettledBy
    <3>2. lease # None /\ l \in {lease, Over(lease), Acked(lease), Over(Acked(lease))}
      BY <2>1, <3>1 DEF Leased
    <3>3. /\ lease' # None => lease'.gen = lease.gen /\ lease'.thread = lease.thread
          /\ pump' \in {pump, Requested(pump)} /\ stopper' \in {s, [s EXCEPT !.mine = FALSE]}
      BY <3>1, <3>2, SettleFields
    <3> QED
      BY <2>1, <3>2, <3>3
  <2>2. CASE Keep(lease, pump, s)
    BY <2>2 DEF Keep
  <2> QED
    BY <1>2, <1>4, <2>1, <2>2 DEF StopAborts
<1>12. stopper'.child = stopper.child /\ Confirming'
  BY <1>2, <1>5, <1>11 DEF Confirming
<1>13. child[c].state = "busy" => \A d \in 1..Len(child) : ~Responding(d)'
  BY <1>1, <1>3, <1>6 DEF Calm, Quiet, Responding
<1>14. \A d \in 1..Len(child) : Responding(d)' /\ ~child[d].orphan /\ Leased(d) /\ ~lease.settled =>
         Leased(d)' /\ ~lease'.settled
  BY <1>11, <1>13 DEF Leased
<1>15. lease' = lease \/ pump.pc # "prompt" \/ overtaken'
  BY <1>1, <1>3, <1>11 DEF Calm, Quiet, Before, Responding
<1> QED
  BY <1>3, <1>6, <1>10, <1>11, <1>12, <1>14, <1>15, CalmEases

LEMMA StopLooksCalm ==
  ASSUME Formed, Formed', Told, Calm, Recalled, StopLooks PROVE Calm'
<1>1. UNCHANGED <<record, job, child, lease, exits, evicting, pump>>
  BY DEF StopLooks, adapters, durable, Keep
<1>2. stopper'.child = stopper.child
  <2>1. PICK m \in Nat : stopper \in Stopping(m)
    BY Sizes, TypedSlot
  <2> QED
    BY <2>1 DEF StopLooks, Keep, Stopping
<1>3. stopper.child # 0 /\ child[stopper.child].state # "starting"
  BY DEF StopLooks, Ceased, Alive, Calm, Answerable
<1>4. Unowned /\ Unpinned
  BY <1>1 DEF Unowned, Unpinned
<1> QED
  BY <1>1, <1>2, <1>3, <1>4, CalmAside, PinnedSame

LEMMA StopUncertainCalm ==
  ASSUME Formed, Formed', Told, Calm, Recalled, StopUncertain PROVE Calm'
<1>1. PICK t \in Threads : t = stopper.thread
  BY Sizes, TypedSlot DEF StopUncertain
<1>2. PICK n \in Nat, m \in Nat : Loaded(t) \in Thread(n, m) /\ Loaded(t).process = record[t].process
  BY RecordShapes DEF Told
<1>3. /\ UNCHANGED <<job, child, lease, exits, evicting, pump>> /\ stopper' = NoStop
      /\ Write(t, Noted(Loaded(t), "uncertain"))
  BY <1>1 DEF StopUncertain, adapters, Keep
<1>4. Noted(Loaded(t), "uncertain").process = record[t].process
  BY <1>2, NotedThread
<1>5. Unowned /\ Unpinned
  BY <1>3, <1>4, OwnedWrite DEF Unpinned
<1>6. stopper'.pc # "confirm" /\ stopper'.child = 0
  BY <1>3 DEF NoStop
<1> QED
  BY <1>3, <1>5, <1>6, CalmAside, PinnedSame

\* A stop that settles the lease of a response to come overtakes it.
LEMMA StopConfirmsCalm ==
  ASSUME Formed, Formed', Told, Calm, Recalled, StopConfirms PROVE Calm'
<1>1. PICK t \in Threads : t = stopper.thread
  BY Sizes, TypedSlot DEF StopConfirms
<1>2. PICK n \in Nat, m \in Nat : /\ n = Len(home) /\ m = Len(child) /\ Shaped(n, m)
                                  /\ Loaded(t) \in Thread(n, m) /\ Loaded(t).process = record[t].process
  BY RecordShapes DEF Told
<1>3. /\ UNCHANGED <<child, job, exits, evicting>> /\ stopper.pc = "confirm"
      /\ Write(t, Noted(Loaded(t), "none"))
  BY <1>1 DEF StopConfirms, adapters
<1>4. Unowned /\ Unpinned
  <2>1. Noted(Loaded(t), "none").process = record[t].process
    BY <1>2, NotedThread
  <2> QED
    BY <1>3, <2>1, OwnedWrite DEF Unpinned
<1>5. CASE Keep(lease, pump, NoStop)
  <2>1. lease' = lease /\ pump' = pump /\ stopper'.pc # "confirm" /\ stopper'.child = 0
    BY <1>5 DEF Keep, NoStop
  <2> QED
    BY <1>3, <1>4, <2>1, CalmAside, PinnedSame
<1>6. CASE stopper.mine /\ Settle(Over(lease), pump, NoStop)
  <2>1. lease # None /\ stopper.child # 0 /\ stopper.child = lease.gen
    BY <1>3, <1>6 DEF Told, Staged, Calm, Answerable, Confirming
  <2>2. ~overtaken' => /\ child[lease.gen].state # "busy"
                       /\ ~(pump.pc = "prompt" /\ pump.child = lease.gen)
    BY <1>6, <2>1 DEF StopConfirms
  <2>3. Over(lease) \in {lease, Over(lease), Acked(lease), Over(Acked(lease))}
    OBVIOUS
  <2>4. /\ lease' # None => lease'.gen = lease.gen /\ lease'.thread = lease.thread
        /\ pump' \in {pump, Requested(pump)} /\ stopper' \in {NoStop, [NoStop EXCEPT !.mine = FALSE]}
    BY <1>6, <2>1, <2>3, SettleFields
  <2>5. stopper'.child = 0 /\ stopper'.pc = "idle"
    BY <2>4 DEF NoStop
  <2>6. Confirming'
    BY <2>5 DEF Confirming
  <2>7. Calming
    BY <1>3, CalmingSame
  <2>8. Recorded /\ Pinned
    BY <1>3, <1>4, <2>7, RecordedSame, PinnedSame DEF Installing
  <2>9. \A d \in 1..Len(child) : Responding(d)' => ~Leased(d)
    BY <1>3, <2>2 DEF Leased, Responding
  <2>10. pump.pc # "prompt" \/ overtaken'
    BY <2>2 DEF Told, Staged
  <2> QED
    BY <1>3, <2>1, <2>4, <2>5, <2>6, <2>7, <2>8, <2>9, <2>10, CalmEases
<1> QED
  BY <1>5, <1>6 DEF StopConfirms

\* A victim that is closed, or stays.
LEMMA RetireCalm ==
  ASSUME Formed, Formed', Told, Calm, Recalled, Placed, NEW k \in retire, Retire(k) PROVE Calm'
<1>1. PICK n \in Nat, m \in Nat : n = Len(home) /\ m = Len(child) /\ Shaped(n, m)
  BY Sizes
<1>2. PICK c \in 1..m, u \in Threads : c = k.child /\ u = k.thread /\ Homed(c, u)
  <2>1. Homed(k.child, k.thread) /\ k.thread \in Threads
    BY <1>1 DEF Placed, Housed, Shaped, Retiring
  <2> QED
    BY <1>1, <2>1 DEF Homed
<1>3. UNCHANGED <<pump, stopper>> /\ evicting \subseteq evicting'
  BY DEF Retire, adapters
<1>4. Unpinned
  <2>1. CASE UNCHANGED job
    BY <2>1 DEF Unpinned
  <2>2. ASSUME NEW pc \in {"capacity", "spawn"}, job' = [job EXCEPT ![k.for].pc = pc] PROVE Unpinned
    <3>1. ASSUME NEW t \in Threads PROVE job'[t] = job[t] \/ job'[t].pc = pc
      <4>1. PICK j \in Jobs(n, m) : j = job[t]
        BY <1>1 DEF Shaped
      <4>2. job'[t] = IF t = k.for THEN [j EXCEPT !.pc = pc] ELSE j
        BY <1>1, <2>2, <4>1 DEF Shaped
      <4>3. [j EXCEPT !.pc = pc].pc = pc
        BY DEF Jobs
      <4> QED
        BY <4>1, <4>2, <4>3
    <3> QED
      BY <3>1 DEF Unpinned
  <2>3. UNCHANGED job \/ \E pc \in {"capacity", "spawn"} : job' = [job EXCEPT ![k.for].pc = pc]
    BY DEF Retire
  <2> QED
    BY <2>1, <2>2, <2>3
<1>5. CASE UNCHANGED <<record, child, lease, exits>>
  BY <1>3, <1>4, <1>5, CalmAside, PinnedSame DEF Unowned
<1>6. CASE Alive(c) /\ Dies(c) /\ lease' = SettledBy(c) /\ UNCHANGED record
  BY <1>1, <1>3, <1>4, <1>6, DiesCalm, PinnedSame DEF Unowned
<1>7. CASE ~Alive(c) /\ lease' = SettledBy(c) /\ UNCHANGED <<record, child, exits>>
  <2>1. ~Alive(c)' /\ \A d \in 1..Len(child') : Installing(d)' => d \in 1..Len(child) /\ Installing(d)
    BY <1>7 DEF Alive, Installing
  <2>2. Calming
    BY <1>7, CalmingSame
  <2> QED
    BY <1>1, <1>3, <1>4, <1>7, <2>1, <2>2, OverCalm, PinnedSame DEF Unowned
<1>8. CASE Alive(c) /\ Write(u, Held(Loaded(u), c)) /\ UNCHANGED <<child, lease, exits>>
  <2>1. PICK v \in Nat, w \in Nat : w = m /\ Loaded(u) \in Thread(v, w)
    BY <1>1, RecordShapes DEF Told
  <2>2. Held(Loaded(u), c).process = c
    <3>1. c \in 0..w
      BY <1>1, <2>1
    <3> QED
      BY <2>1, <3>1, HeldThread
  <2>3. Installing(c)
    <3>1. child[c] \in Process
      BY <1>1 DEF Formed
    <3> QED
      BY <1>2, <1>8, <3>1 DEF Homed, Alive, Process, States, Installing
  <2>4. record[u].process = c
    BY <1>1, <1>2, <2>3 DEF Calm, Quiet, Installing, Homed
  <2>5. Unowned
    BY <1>8, <2>2, <2>4, OwnedWrite
  <2> QED
    BY <1>3, <1>4, <1>8, <2>5, CalmAside, PinnedSame
<1> QED
  BY <1>2, <1>5, <1>6, <1>7, <1>8 DEF Retire, adapters

-------------------------------------------------------------------------------
(* Jobs and responses. *)

\* Who a thread's record may name after it is written: the child installed.
Naming(t, process) ==
  \A c \in 1..Len(child') : Installing(c)' =>
    \/ child'[c].thread = t /\ process = c
    \/ /\ c \in 1..Len(child) /\ Installing(c) /\ child'[c].thread = child[c].thread
       /\ child[c].thread # t \/ process = record[t].process

LEMMA WrittenRecorded ==
  ASSUME Formed, NEW t \in Threads, NEW s, Write(t, s), Naming(t, s.process)
  PROVE  Recorded
<1>1. \A c \in 1..Len(child) : child[c].thread \in Threads
  <2>1. \A c \in 1..Len(child) : child[c] \in Process
    BY DEF Formed
  <2> QED
    BY <2>1 DEF Process
<1>2. record'[t].process = s.process /\ \A u \in Threads : u # t => record'[u] = record[u]
  BY Wrote
<1> QED
  BY <1>1, <1>2 DEF Recorded, Naming

LEMMA PinnedOver ==
  ASSUME Formed, NEW t \in Threads, NEW s, Write(t, s), job' = [job EXCEPT ![t] = Free]
  PROVE  Pinned
<1>1. job'[t].pc # "pin"
  BY DEF Formed, Shaped, Free
<1>2. \A u \in Threads : u # t => job'[u] = job[u] /\ record'[u] = record[u]
  BY JobFreed, Wrote
<1> QED
  BY <1>1, <1>2 DEF Pinned

\* Nobody responds while a head is being staged.
LEMMA StagingQuiet ==
  ASSUME Formed, Told, Calm, Recalled, Calming, NEW t \in Threads, Serving(t)
  PROVE  \A c \in 1..Len(child) : ~Responding(c)'
<1>1. \A c \in 1..Len(child) : ~Responding(c)
  BY ServedBy DEF Calm, Quiet, Before
<1> QED
  BY <1>1 DEF Calming, Recalled, Responding

LEMMA FailsSound ==
  ASSUME Formed, Told, Calm, Recalled, Calming, NEW t \in Threads, Serving(t), pump'.pc = "read",
         stopper' \in {stopper, [stopper EXCEPT !.mine = FALSE]},
         \/ lease' \in {None, lease}
         \/ \E c \in 1..Len(child) :
              /\ lease' = Bound(lease, c)
              /\ child'[c].thread = t /\ ~child'[c].orphan /\ child'[c].state # "starting"
  PROVE  Sound
<1>1. /\ lease # None /\ lease.gen = 0 /\ lease.thread = t /\ ~stopper.mine
  BY ServedBy DEF Engaged
<1>2. PICK n \in Nat, m \in Nat : m = Len(child) /\ lease \in Lease(n, m)
  BY <1>1, Sizes, TypedSlot
<1>3. lease' # None /\ lease'.gen # 0 =>
        /\ child'[lease'.gen].thread = lease'.thread
        /\ ~child'[lease'.gen].orphan /\ child'[lease'.gen].state # "starting"
  <2>1. ASSUME NEW c \in 1..m, lease' = Bound(lease, c), child'[c].thread = t, ~child'[c].orphan,
               child'[c].state # "starting"
        PROVE  /\ child'[lease'.gen].thread = lease'.thread
               /\ ~child'[lease'.gen].orphan /\ child'[lease'.gen].state # "starting"
    <3>1. c \in 0..m
      OBVIOUS
    <3>2. Bound(lease, c).gen = c /\ Bound(lease, c).thread = t
      <4>1. \A d \in 0..m : Bound(lease, d).gen = d /\ Bound(lease, d).thread = lease.thread
        BY <1>2, LeaseFields, SMTT(30)
      <4> QED
        BY <1>1, <3>1, <4>1
    <3> QED
      BY <2>1, <3>2
  <2> QED
    BY <1>1, <1>2, <2>1
<1>4. Confirming'
  BY ConfirmingKept
<1>5. Answering' /\ Confirming' /\ ~Before'
  BY <1>4 DEF Answering, Before
<1> QED
  BY <1>3, <1>5, StagingQuiet DEF Sound

LEMMA ThrowCalm ==
  ASSUME Formed, Formed', Told, Calm, Recalled, Calming, NEW t \in Threads, Locked(t), NEW n \in Nat, NEW m \in Nat,
         NEW r \in Thread(n, m), NEW gone, Throw(t, r, gone), Naming(t, r.process),
         UNCHANGED exits, evicting \subseteq evicting'
  PROVE  Calm'
<1>1. job' = [job EXCEPT ![t] = Free]
  BY DEF Throw
<1>2. PICK s \in {r, Paused(r)} : Write(t, s)
  BY DEF Throw
<1>3. s.process = r.process
  BY <1>2, PausedThread
<1>4. Recorded /\ Pinned
  BY <1>1, <1>2, <1>3, WrittenRecorded, PinnedOver
<1>5. stopper' \in {stopper, [stopper EXCEPT !.mine = FALSE]}
  BY DEF Throw, Stand, Keep, Release
<1>6. Sound
  <2>1. CASE job[t].for # "stage" /\ Stand
    <3>1. lease' = lease /\ pump' = pump /\ stopper' = stopper
      BY <2>1 DEF Stand
    <3> QED
      BY <3>1, SoundSame
  <2>2. CASE /\ job[t].for = "stage"
             /\ Keep(lease, Again(pump), stopper) \/ Release(Again(pump), stopper)
    <3>1. Again(pump).pc = "read" /\ Requested(Again(pump)).pc = "read"
      BY DEF Again, Pass, Requested
    <3>2. pump'.pc = "read" /\ lease' \in {None, lease}
      BY <2>2, <3>1 DEF Keep, Release
    <3> QED
      BY <1>5, <2>2, <3>2, FailsSound DEF Serving
  <2> QED
    BY <2>1, <2>2 DEF Throw
<1>7. stopper'.child = stopper.child
  BY <1>5, Unmined
<1> QED
  BY <1>4, <1>6, <1>7, CalmKept

LEMMA ProcessOf ==
  ASSUME NEW n \in Nat, NEW m \in Nat, NEW r \in Thread(n, m), NEW id, NEW state,
         NEW s \in {r, Enqueued(r, id), Moved(r, id, state)}
  PROVE  s.process = r.process
<1>1. Enqueued(r, id).process = r.process
  BY ProcessKept
<1>2. Moved(r, id, state).process = r.process
  <2>1. \A any : Moved(r, id, any).process = r.process
    BY ProcessKept
  <2> QED
    BY <2>1
<1> QED
  BY <1>1, <1>2

LEMMA BoundTo ==
  ASSUME Formed, lease # None, NEW c \in 0..Len(child)
  PROVE  /\ Bound(lease, c).gen = c /\ Bound(lease, c).thread = lease.thread
         /\ Bound(lease, c).settled = lease.settled
<1>1. PICK n \in Nat, m \in Nat : m = Len(child) /\ lease \in Lease(n, m)
  BY Sizes, TypedSlot
<1> QED
  BY <1>1, LeaseFields

\* A job that succeeds knows its child.
LEMMA ReturnCalm ==
  ASSUME Formed, Formed', Told, Calm, Recalled, Calming, NEW t \in Threads, Locked(t), NEW n \in Nat, NEW m \in Nat,
         NEW r \in Thread(n, m), NEW c \in 0..Len(child), Return(t, r, c), Naming(t, r.process),
         c # 0 => child'[c].thread = t /\ ~child'[c].orphan /\ child'[c].state # "starting",
         UNCHANGED exits, evicting \subseteq evicting'
  PROVE  Calm'
<1>1. job' = [job EXCEPT ![t] = Free]
  BY DEF Return
<1>2. PICK id, state : \E s \in {r, Enqueued(r, id), Moved(r, id, state)} : Write(t, s)
  BY DEF Return, Delivers
<1>3. PICK s \in {r, Enqueued(r, id), Moved(r, id, state)} : Write(t, s)
  BY <1>2
<1>4. s.process = r.process
  BY <1>3, ProcessOf
<1>5. Recorded /\ Pinned
  BY <1>1, <1>3, <1>4, WrittenRecorded, PinnedOver
<1>6. stopper' \in {stopper, [stopper EXCEPT !.mine = FALSE]}
  BY DEF Return, Delivers, Keep, Release
<1>7. CASE job[t].for # "stage" /\ Keep(lease, Requested(pump), stopper)
  <2>1. lease' = lease /\ pump' = Requested(pump) /\ stopper' = stopper
    BY <1>7 DEF Keep
  <2>2. Sound
    BY <2>1, SoundSame
  <2> QED
    BY <1>5, <2>1, <2>2, CalmKept
<1>8. CASE /\ job[t].for = "stage"
           /\ \/ Keep(lease, Again(pump), stopper)
              \/ Release(Again(pump), stopper)
              \/ c # 0 /\ Keep(Bound(lease, c), Again(pump), stopper)
  <2>1. Again(pump).pc = "read" /\ Requested(Again(pump)).pc = "read"
    BY DEF Again, Pass, Requested
  <2>2. pump'.pc = "read" /\ (lease' \in {None, lease} \/ (c # 0 /\ lease' = Bound(lease, c)))
    BY <1>8, <2>1 DEF Keep, Release
  <2>3. c # 0 => c \in 1..Len(child)
    BY DEF Formed
  <2>4. Serving(t)
    BY <1>8 DEF Serving
  <2>5. Sound
    BY <1>6, <2>2, <2>3, <2>4, FailsSound
  <2>6. stopper'.child = stopper.child
    BY <1>6, Unmined
  <2> QED
    BY <1>5, <2>5, <2>6, CalmKept
<1>9. CASE /\ job[t].for = "stage" /\ c # 0
           /\ Keep(Bound(lease, c), [pump EXCEPT !.pc = "prompt", !.child = c], stopper)
  <2>1. Serving(t)
    BY <1>9 DEF Serving
  <2>2. /\ pump.pc = "staging" /\ lease # None /\ lease.thread = t /\ ~lease.settled /\ ~stopper.mine
    BY <2>1, ServedBy DEF Engaged
  <2>4. Bound(lease, c).gen = c /\ Bound(lease, c).thread = t /\ ~Bound(lease, c).settled
    BY <2>2, BoundTo
  <2>5. lease' = Bound(lease, c) /\ stopper' = stopper
    BY <1>9 DEF Keep
  <2>6. lease'.gen = c /\ lease'.thread = t /\ ~lease'.settled
    BY <2>4, <2>5
  <2>7. Answering' /\ Confirming' /\ Before
    BY <2>2, <2>5, <2>6, ConfirmingKept DEF Answering, Before
  <2>8. Sound
    BY <1>9, <2>1, <2>6, <2>7, StagingQuiet DEF Sound
  <2> QED
    BY <1>5, <2>5, <2>8, CalmKept
<1> QED
  BY <1>7, <1>8, <1>9 DEF Return, Delivers

LEMMA NamingSame ==
  ASSUME Formed, UNCHANGED child, NEW t \in Threads, NEW process, process = record[t].process
  PROVE  Naming(t, process)
  BY DEF Naming, Installing

LEMMA GotoUnpinned ==
  ASSUME Formed, NEW t \in Threads, NEW pc, NEW c, pc # "pin", Goto(t, pc, c)
  PROVE  Unpinned
<1>1. PICK e : job' = [job EXCEPT ![t] = e] /\ e.pc = pc
  BY GotoMoves
<1> QED
  BY <1>1 DEF Unpinned, Formed, Shaped

\* The throws of a job that has touched no child.
LEMMA ThrowSame ==
  ASSUME Formed, Formed', Told, Calm, Recalled, UNCHANGED <<child, exits>>, NEW t \in Threads, Locked(t),
         NEW n \in Nat, NEW m \in Nat, NEW r \in Thread(n, m), NEW gone, Throw(t, r, gone),
         r.process = record[t].process, evicting \subseteq evicting'
  PROVE  Calm'
<1>1. Calming
  BY CalmingSame
<1>2. Naming(t, r.process)
  BY NamingSame
<1> QED
  BY <1>1, <1>2, ThrowCalm

LEMMA PinCalm ==
  ASSUME Formed, Formed', Told, Calm, Recalled, Placed, NEW t \in Threads, Pin(t) PROVE Calm'
<1>1. PICK n \in Nat, m \in Nat : /\ n = Len(home) /\ m = Len(child) /\ Shaped(n, m)
                                  /\ record[t] \in Thread(n, m)
  BY RecordShapes DEF Told
<1>2. PICK c \in 0..m, d \in 0..m : c = job[t].child /\ d = owned[t]
  BY <1>1, JobShapes
<1>3. PICK o : o = Owner(record[t], c) /\ o \in Thread(n, m) /\ o.process = c
  BY <1>1, <1>2, OwnerThread
<1>4. PICK e : e = Eased(o) /\ e \in Thread(n, m) /\ e.process = c
  BY <1>1, <1>3, EasedThread
<1>5. PICK s : s = Unpaused(e) /\ s \in Thread(n, m) /\ s.process = c
  BY <1>1, <1>4, PausedThread
<1>6. Return(t, s, d) /\ Locked(t) /\ UNCHANGED <<child, exits, evicting>>
  BY <1>2, <1>3, <1>4, <1>5 DEF Pin, Locked, adapters
<1>7. Calming
  BY <1>6, CalmingSame
<1>8. record[t].process = c
  BY <1>2 DEF Pin, Calm, Answerable
<1>9. Naming(t, s.process)
  BY <1>5, <1>6, <1>8, NamingSame
<1>10. d # 0 => child'[d].thread = t /\ ~child'[d].orphan /\ child'[d].state # "starting"
  BY <1>2, <1>6 DEF Placed, Housed, Homed
<1> QED
  BY <1>1, <1>2, <1>5, <1>6, <1>7, <1>9, <1>10, ReturnCalm

LEMMA CheckCalm ==
  ASSUME Formed, Formed', Told, Calm, Recalled, Placed, NEW t \in Threads, Check(t) PROVE Calm'
<1>1. PICK n \in Nat, m \in Nat : /\ n = Len(home) /\ m = Len(child) /\ Shaped(n, m)
                                  /\ Loaded(t) \in Thread(n, m) /\ Loaded(t).process = record[t].process
  BY RecordShapes DEF Told
<1>2. PICK r : r = Loaded(t) /\ r \in Thread(n, m) /\ r.process = record[t].process
  BY <1>1
<1>3. PICK c \in 0..m : c = owned[t]
  BY <1>1, JobShapes
<1>4. Locked(t)
  BY DEF Check, Locked
<1>5. \A a \in {"missing", "none", "owner"} : Noted(r, a) \in Thread(n, m) /\ Noted(r, a).process = r.process
  BY <1>2, NotedThread
<1>6. Held(r, c) \in Thread(n, m) /\ Held(r, c).process = c
  BY <1>2, HeldThread
<1>7. CASE Return(t, Noted(r, "missing"), c) /\ UNCHANGED <<child, exits, evicting>>
  <2>1. Calming
    BY <1>7, CalmingSame
  <2>2. PICK s : s = Noted(r, "missing") /\ s \in Thread(n, m) /\ s.process = record[t].process
    BY <1>2, <1>5
  <2>3. Naming(t, s.process)
    BY <1>7, <2>2, NamingSame
  <2>4. c # 0 => child'[c].thread = t /\ ~child'[c].orphan /\ child'[c].state # "starting"
    BY <1>3, <1>7 DEF Placed, Housed, Homed
  <2> QED
    BY <1>1, <1>4, <1>7, <2>1, <2>2, <2>3, <2>4, ReturnCalm
<1>8. CASE /\ UNCHANGED <<child, exits, evicting>>
           /\ Throw(t, Noted(r, "none"), 0) \/ Throw(t, Noted(r, "owner"), 0)
  <2>1. PICK s \in {Noted(r, "none"), Noted(r, "owner")} : Throw(t, s, 0)
    BY <1>8
  <2>2. s \in Thread(n, m) /\ s.process = record[t].process
    BY <1>2, <1>5, <2>1
  <2> QED
    BY <1>4, <1>8, <2>1, <2>2, ThrowSame
<1>9. CASE /\ r.process = c /\ Throw(t, Held(r, c), 0)
           /\ UNCHANGED <<child, exits>> /\ evicting \subseteq evicting'
  <2>1. Held(r, c).process = record[t].process
    BY <1>2, <1>6, <1>9
  <2> QED
    BY <1>4, <1>6, <1>9, <2>1, ThrowSame
<1>10. CASE /\ r.process = c /\ c # 0 /\ Alive(c) /\ Dies(c) /\ Write(t, r) /\ Goto(t, "capacity", 0)
            /\ lease' = SettledBy(c) /\ UNCHANGED <<evicting, pump, stopper>>
  <2>1. Unowned
    BY <1>2, <1>10, OwnedWrite
  <2>2. Unpinned
    BY <1>10, GotoUnpinned
  <2>3. c \in 1..Len(child)
    BY <1>1, <1>10
  <2> QED
    BY <1>10, <2>1, <2>2, <2>3, DiesCalm, PinnedSame
<1>11. CASE /\ Write(t, r) /\ UNCHANGED <<child, exits, evicting, lease, pump, stopper>>
            /\ (r.process = c /\ Goto(t, "pin", c)) \/ Goto(t, "capacity", 0)
  <2>1. Unowned
    BY <1>2, <1>11, OwnedWrite
  <2>2. Pinned
    <3>1. CASE r.process = c /\ Goto(t, "pin", c)
      <4>1. PICK e : job' = [job EXCEPT ![t] = e] /\ e.pc = "pin" /\ e.child = c
        BY <3>1, GotoMoves
      <4>2. \A u \in Threads : job'[u] = IF u = t THEN e ELSE job[u]
        BY <1>1, <4>1 DEF Shaped
      <4>3. record'[t].process = c
        BY <1>2, <1>11, <3>1, Wrote
      <4> QED
        BY <2>1, <4>1, <4>2, <4>3 DEF Pinned, Unowned
    <3>2. CASE Goto(t, "capacity", 0)
      BY <2>1, <3>2, GotoUnpinned, PinnedSame
    <3> QED
      BY <1>11, <3>1, <3>2
  <2> QED
    BY <1>11, <2>1, <2>2, CalmAside
<1> QED
  BY <1>2, <1>3, <1>7, <1>8, <1>9, <1>10, <1>11 DEF Check, Stand, adapters

LEMMA CapacityCalm ==
  ASSUME Formed, Formed', Told, Calm, Recalled, NEW t \in Threads, Capacity(t) PROVE Calm'
<1>1. PICK n \in Nat, m \in Nat : record[t] \in Thread(n, m)
  BY RecordShapes DEF Told
<1>2. Locked(t) /\ UNCHANGED <<child, exits, evicting>>
  BY DEF Capacity, Locked, adapters
<1>3. CASE Throw(t, Noted(record[t], "none"), 0)
  <2>1. Noted(record[t], "none") \in Thread(n, m) /\ Noted(record[t], "none").process = record[t].process
    BY <1>1, NotedThread
  <2> QED
    BY <1>2, <1>3, <2>1, ThrowSame
<1>4. CASE /\ Goto(t, "spawn", 0) \/ Goto(t, "evicting", 0)
           /\ UNCHANGED <<record, lease, pump, stopper>>
  <2>1. Unowned /\ Unpinned
    BY <1>4, GotoUnpinned DEF Unowned
  <2> QED
    BY <1>2, <1>4, <2>1, CalmAside, PinnedSame
<1> QED
  BY <1>3, <1>4 DEF Capacity, Stand

LEMMA SpawnCalm ==
  ASSUME Formed, Formed', Told, Calm, Recalled, NEW t \in Threads, Spawn(t) PROVE Calm'
<1>1. PICK n \in Nat, m \in Nat : record[t] \in Thread(n, m)
  BY RecordShapes DEF Told
<1>2. Locked(t) /\ UNCHANGED <<exits, evicting>>
  BY DEF Spawn, Locked
<1>3. CASE Throw(t, Noted(record[t], "none"), 0) /\ UNCHANGED child
  <2>1. Noted(record[t], "none") \in Thread(n, m) /\ Noted(record[t], "none").process = record[t].process
    BY <1>1, NotedThread
  <2> QED
    BY <1>2, <1>3, <2>1, ThrowSame
<1>4. CASE /\ child' = Append(child, [thread |-> t, state |-> "starting", orphan |-> FALSE])
           /\ Goto(t, "record", Len(child) + 1) /\ UNCHANGED <<record, lease, pump, stopper>>
  <2>1. PICK p : p = [thread |-> t, state |-> "starting", orphan |-> FALSE]
    OBVIOUS
  <2>2. p \in Process /\ p.thread = t /\ p.state = "starting" /\ ~p.orphan
    BY <2>1 DEF Process, States
  <2>3. /\ Len(child) \in Nat /\ Len(child') = Len(child) + 1
        /\ \A c \in 1..Len(child) : child'[c] = child[c]
        /\ child'[Len(child) + 1].state = "starting"
        /\ \A c \in 1..Len(child') : c \in 1..Len(child) \/ c = Len(child) + 1
    BY <1>4, <2>1, <2>2, Started
  <2>4. Calming
    BY <2>3 DEF Calming
  <2>5. \A c \in 1..Len(child') : Installing(c)' => c \in 1..Len(child) /\ Installing(c)
    BY <2>3 DEF Installing
  <2>6. Unowned /\ Unpinned
    BY <1>4, GotoUnpinned DEF Unowned
  <2>7. Recorded /\ Pinned
    BY <2>4, <2>5, <2>6, RecordedSame, PinnedSame
  <2>8. Sound
    BY <1>2, <1>4, <2>4, SoundSame
  <2> QED
    BY <1>2, <1>4, <2>4, <2>7, <2>8, CalmKept
<1> QED
  BY <1>3, <1>4 DEF Spawn, Stand

\* The child that starts is the only one of its thread.
LEMMA OnlyOne ==
  ASSUME Formed, Placed, NEW t \in Threads, job[t].pc \in Starting
  PROVE  /\ job[t].child \in 1..Len(child)
         /\ child[job[t].child].thread = t /\ ~child[job[t].child].orphan
         /\ \A d \in 1..Len(child) : child[d].thread = t /\ Alive(d) => d = job[t].child
<1>1. PICK n \in Nat, m \in Nat : n = Len(home) /\ m = Len(child) /\ Shaped(n, m)
  BY Sizes
<1>2. PICK c \in 0..m : c = job[t].child
  BY <1>1, JobShapes
<1>3. c # 0 /\ child[c].thread = t /\ ~child[c].orphan /\ LiveOf(t) \subseteq {c}
  BY <1>2 DEF Placed, Single
<1> QED
  BY <1>1, <1>2, <1>3 DEF LiveOf

LEMMA RecordChildCalm ==
  ASSUME Formed, Formed', Told, Calm, Recalled, Placed, NEW t \in Threads, RecordChild(t) PROVE Calm'
<1>1. PICK n \in Nat, m \in Nat : n = Len(home) /\ m = Len(child) /\ record[t] \in Thread(n, m)
  BY RecordShapes DEF Told
<1>2. PICK c \in 1..m : /\ c = job[t].child
                        /\ \A d \in 1..m : child[d].thread = t /\ Alive(d) => d = c
  BY <1>1, OnlyOne DEF RecordChild, Starting
<1>3. PICK r \in Thread(n, m) : r = record[t]
  BY <1>1
<1>4. Locked(t) /\ UNCHANGED <<exits, evicting>>
  BY DEF RecordChild, Locked
<1>5. CASE Write(t, Held(r, c)) /\ Goto(t, "handshake", c) /\ Stand /\ UNCHANGED child
  <2>1. PICK s : s = Held(r, c) /\ s.process = c
    <3>1. c \in 0..m
      OBVIOUS
    <3> QED
      BY <3>1, HeldThread
  <2>2. Write(t, s) /\ UNCHANGED <<lease, pump, stopper>>
    BY <1>5, <2>1 DEF Stand
  <2>3. Calming
    BY <1>5, CalmingSame
  <2>4. Naming(t, c)
    BY <1>1, <1>2, <1>5 DEF Naming, Installing, Alive
  <2>5. Recorded
    BY <2>1, <2>2, <2>4, WrittenRecorded
  <2>6. Pinned
    <3>1. PICK e : job' = [job EXCEPT ![t] = e] /\ e.pc = "handshake"
      BY <1>5, GotoMoves
    <3>2. \A u \in Threads : job'[u] = IF u = t THEN e ELSE job[u]
      BY <3>1 DEF Formed, Shaped
    <3>3. \A u \in Threads : u # t => record'[u] = record[u]
      BY <2>2, Wrote
    <3> QED
      BY <3>1, <3>2, <3>3 DEF Pinned
  <2>7. Sound
    BY <1>4, <2>2, <2>3, SoundSame
  <2> QED
    BY <1>4, <2>2, <2>3, <2>5, <2>6, <2>7, CalmKept
<1>6. CASE child' = [child EXCEPT ![c].state = "dead"] /\ Throw(t, r, c)
  <2>1. /\ Calming /\ Len(child') = Len(child)
        /\ \A d \in 1..Len(child) :
             /\ child'[d].thread = child[d].thread /\ child'[d].orphan = child[d].orphan
             /\ child'[d].state = IF d = c THEN "dead" ELSE child[d].state
    BY <1>6, CalmingState, ZenonT(40)
  <2>2. Naming(t, r.process)
    BY <1>3, <2>1 DEF Naming, Installing
  <2> QED
    BY <1>4, <1>6, <2>1, <2>2, ThrowCalm
<1>7. CASE UNCHANGED child /\ Throw(t, r, 0)
  BY <1>3, <1>4, <1>7, ThrowSame
<1> QED
  BY <1>2, <1>3, <1>5, <1>6, <1>7 DEF RecordChild

LEMMA HandshakeCalm ==
  ASSUME Formed, Formed', Told, Calm, Recalled, Placed, NEW t \in Threads, Handshake(t) PROVE Calm'
<1>1. PICK n \in Nat, m \in Nat : n = Len(home) /\ m = Len(child) /\ record[t] \in Thread(n, m)
  BY RecordShapes DEF Told
<1>2. PICK c \in 1..m : /\ c = job[t].child /\ child[c].thread = t /\ ~child[c].orphan
                        /\ \A d \in 1..m : child[d].thread = t /\ Alive(d) => d = c
  BY <1>1, OnlyOne DEF Handshake, Starting
<1>3. PICK r \in Thread(n, m) : r = record[t]
  BY <1>1
<1>4. Locked(t) /\ UNCHANGED <<exits, evicting>>
  BY DEF Handshake, Locked
<1>5. /\ Owner(r, c) \in Thread(n, m) /\ Owner(r, c).process = c
      /\ Owner(r, 0) \in Thread(n, m) /\ Owner(r, 0).process = 0
  <2>1. c \in 0..m /\ 0 \in 0..m
    OBVIOUS
  <2> QED
    BY <2>1, OwnerThread
<1>6. ASSUME NEW state \in {"idle", "dead"}, child' = [child EXCEPT ![c].state = state],
             state = "idle" => Alive(c), NEW process, state = "idle" => process = c
      PROVE  Calming /\ Naming(t, process) /\ child'[c].thread = t /\ ~child'[c].orphan /\ child'[c].state = state
  <2>1. /\ Calming /\ Len(child') = m
        /\ \A d \in 1..m : /\ child'[d].thread = child[d].thread /\ child'[d].orphan = child[d].orphan
                           /\ child'[d].state = IF d = c THEN state ELSE child[d].state
    <3>1. /\ Calming /\ Len(child') = Len(child)
          /\ \A d \in 1..Len(child) :
               /\ child'[d].thread = child[d].thread /\ child'[d].orphan = child[d].orphan
               /\ child'[d].state = IF d = c THEN state ELSE child[d].state
      BY <1>6, CalmingState, ZenonT(40)
    <3> QED
      BY <1>1, <3>1
  <2>2. ASSUME NEW d \in 1..m, Installing(d)', d # c
        PROVE  Installing(d) /\ child[d].thread # t
    BY <1>2, <2>1, <2>2 DEF Installing, Alive
  <2>3. Installing(c)' => state = "idle"
    BY <2>1 DEF Installing
  <2> QED
    BY <1>1, <1>2, <1>6, <2>1, <2>2, <2>3 DEF Naming
<1>7. CASE /\ Alive(c) /\ child' = [child EXCEPT ![c].state = "idle"]
           /\ Return(t, Unpaused(Noted(Owner(r, c), "none")), c)
  <2>1. PICK e : e = Noted(Owner(r, c), "none") /\ e \in Thread(n, m) /\ e.process = c
    BY <1>5, NotedThread
  <2>2. PICK s : s = Unpaused(e) /\ s \in Thread(n, m) /\ s.process = c
    BY <2>1, PausedThread
  <2>3. Calming /\ Naming(t, c) /\ child'[c].thread = t /\ ~child'[c].orphan /\ child'[c].state = "idle"
    BY <1>6, <1>7
  <2>4. Return(t, s, c) /\ c \in 0..Len(child)
    BY <1>1, <1>7, <2>1, <2>2
  <2> QED
    BY <1>4, <2>2, <2>3, <2>4, ReturnCalm
<1>8. CASE child' = [child EXCEPT ![c].state = "dead"] /\ Throw(t, Noted(Owner(r, 0), "none"), c)
  <2>1. PICK s : s = Noted(Owner(r, 0), "none") /\ s \in Thread(n, m) /\ s.process = 0
    BY <1>5, NotedThread
  <2>2. Calming /\ Naming(t, 0)
    BY <1>6, <1>8
  <2> QED
    BY <1>4, <1>8, <2>1, <2>2, ThrowCalm
<1>9. CASE UNCHANGED child /\ Throw(t, Noted(r, "none"), 0)
  <2>1. Noted(r, "none") \in Thread(n, m) /\ Noted(r, "none").process = record[t].process
    BY <1>3, NotedThread
  <2> QED
    BY <1>4, <1>9, <2>1, ThrowSame
<1> QED
  BY <1>2, <1>3, <1>7, <1>8, <1>9 DEF Handshake

-------------------------------------------------------------------------------
(* The inductive invariant. *)

IInv == Formed /\ Placed /\ Told /\ Calm /\ overtaken \in BOOLEAN

\* The queues that a service finds hold each of its thread's messages once.
LEMMA LeftBehind ==
  ASSUME NEW t \in Threads, NEW left \in Orders(t)
  PROVE  /\ left \in Seq(1..Len(Backlog)) /\ DOMAIN left = 1..Len(left)
         /\ \A i \in 1..Len(left) : left[i] \in 1..Len(Backlog) /\ Backlog[left[i]] = t
         /\ \A i, j \in 1..Len(left) : left[i] = left[j] => i = j
<1>1. PICK b \in Nat : b = Len(Backlog)
  BY DiscussionAssumption
<1>2. PICK S : S = {i \in 1..b : Backlog[i] = t}
  OBVIOUS
<1>3. IsFiniteSet(S)
  <2>1. IsFiniteSet(1..b) /\ S \subseteq 1..b
    BY <1>2, FS_Interval
  <2> QED
    BY <2>1, FS_Subset
<1>4. PICK k \in Nat : k = Cardinality(S)
  BY <1>3, FS_CardinalityType
<1>5. left \in SetToSeqs(S)
  BY <1>1, <1>2 DEF Orders
<1>6. left \in [1..k -> S] /\ \A i, j \in 1..k : i # j => left[i] # left[j]
  BY <1>4, <1>5 DEF SetToSeqs
<1>7. left \in Seq(S) /\ Len(left) = k
  BY <1>6, SeqDef, LenProperties
<1>8. left \in [1..k -> 1..b]
  BY <1>2, <1>6
<1>9. left \in Seq(1..b)
  BY <1>8, SeqDef
<1> QED
  BY <1>1, <1>2, <1>6, <1>7, <1>9

LEMMA InitRecords ==
  ASSUME Init
  PROVE  /\ home = Backlog /\ home \in Seq(Threads) /\ Len(home) \in Nat
         /\ record \in [Threads -> Thread(Len(home), 0)]
         /\ \A t \in Threads :
              /\ record[t].accepted = <<>> /\ record[t].process = 0
              /\ \A i \in 1..Len(record[t].queue) :
                   record[t].queue[i].state = "queued" /\ home[record[t].queue[i].id] = t
              /\ \A i, j \in 1..Len(record[t].queue) :
                   record[t].queue[i].id = record[t].queue[j].id => i = j
<1>1. PICK n \in Nat : n = Len(home) /\ home = Backlog /\ home \in Seq(Threads)
  BY DiscussionAssumption DEF Init
<1>2. PICK left : /\ \A t \in Threads : left[t] \in Orders(t)
                  /\ record = [t \in Threads |->
                       [queue |-> [i \in DOMAIN left[t] |-> [id |-> left[t][i], state |-> "queued"]],
                        paused |-> FALSE, accepted |-> <<>>, attention |-> "none", process |-> 0]]
  BY DEF Init
<1>3. ASSUME NEW t \in Threads
      PROVE  /\ record[t] \in Thread(n, 0)
             /\ record[t].accepted = <<>> /\ record[t].process = 0
             /\ \A i \in 1..Len(record[t].queue) :
                  record[t].queue[i].state = "queued" /\ home[record[t].queue[i].id] = t
             /\ \A i, j \in 1..Len(record[t].queue) :
                  record[t].queue[i].id = record[t].queue[j].id => i = j
  <2>1. PICK ids \in Orders(t) : ids = left[t]
    BY <1>2
  <2>2. PICK k \in Nat : k = Len(ids) /\ DOMAIN ids = 1..k
    BY LeftBehind
  <2>3. /\ \A i \in 1..k : ids[i] \in 1..n /\ home[ids[i]] = t
        /\ \A i, j \in 1..k : ids[i] = ids[j] => i = j
    BY <1>1, <2>2, LeftBehind
  <2>4. PICK q : q = [i \in 1..k |-> [id |-> ids[i], state |-> "queued"]]
    OBVIOUS
  <2>5. \A i \in 1..k : q[i] = [id |-> ids[i], state |-> "queued"]
    BY <2>4
  <2>6. \A i \in 1..k : q[i] \in Message(n) /\ q[i].id = ids[i] /\ q[i].state = "queued"
    <3>1. TAKE i \in 1..k
    <3>2. PICK id \in 1..n : id = ids[i]
      BY <2>3
    <3>3. q[i] = [id |-> id, state |-> "queued"]
      BY <2>5, <3>2
    <3> QED
      BY <3>2, <3>3 DEF Message
  <2>7. q \in [1..k -> Message(n)]
    BY <2>4, <2>6
  <2>8. q \in Seq(Message(n)) /\ Len(q) = k
    BY <2>7, SeqDef, LenProperties
  <2>9. record[t] = [queue |-> q, paused |-> FALSE, accepted |-> <<>>, attention |-> "none", process |-> 0]
    BY <1>2, <2>1, <2>2, <2>4
  <2>10. record[t].queue = q /\ record[t].accepted = <<>> /\ record[t].process = 0
    BY <2>9
  <2>11. <<>> \in Recent
    <3>1. MaxAccepted \in Nat
      BY DiscussionAssumption
    <3> QED
      BY <3>1 DEF Recent
  <2>12. record[t] \in Thread(n, 0)
    BY <2>8, <2>9, <2>11 DEF Thread
  <2> QED
    BY <2>3, <2>6, <2>8, <2>10, <2>12
<1>4. record \in [Threads -> Thread(n, 0)]
  BY <1>2, <1>3
<1> QED
  BY <1>1, <1>3, <1>4

LEMMA InitSlot ==
  ASSUME Init
  PROVE  /\ lease = None /\ pump.pc = "idle" /\ stopper.pc = "idle" /\ ~stopper.mine /\ stopper.child = 0
         /\ \A n, m \in Nat : Slot(lease, pump, stopper, n, m) /\ job \in [Threads -> Jobs(n, m)]
         /\ \A t \in Threads : job[t].pc = "free"
         /\ child = <<>> /\ Len(child) = 0 /\ child \in Seq(Process)
         /\ owned = [t \in Threads |-> 0] /\ flight = [t \in Threads |-> 0]
         /\ given = {} /\ present = Threads /\ recovered = {} /\ tracked = {} /\ evicting = {}
         /\ retire = {} /\ exits = {}
<1>1. /\ lease = None /\ pump = Resting /\ stopper = NoStop /\ job = [t \in Threads |-> Free]
      /\ child = <<>>
  BY DEF Init
<1>2. pump.pc = "idle" /\ stopper.pc = "idle" /\ ~stopper.mine /\ stopper.child = 0
  BY <1>1 DEF Resting, Pass, NoStop
<1>3. \A n, m \in Nat : Slot(lease, pump, stopper, n, m) /\ job \in [Threads -> Jobs(n, m)]
  <2>1. TAKE n \in Nat, m \in Nat
  <2>2. Resting \in Passes(n, m)
    BY DEF Resting, Pass, Passes
  <2>3. NoStop \in Stopping(m)
    BY DEF NoStop, Stopping
  <2> QED
    BY <1>1, <2>2, <2>3, FreeShape DEF Slot
<1>4. \A t \in Threads : job[t].pc = "free"
  BY <1>1 DEF Free
<1> QED
  BY <1>1, <1>2, <1>3, <1>4 DEF Init

LEMMA InitIInv == ASSUME Init PROVE IInv
<1>1. PICK n \in Nat : n = Len(home)
  BY InitRecords
<1>2. Formed
  <2>1. Shaped(n, 0)
    BY <1>1, InitRecords, InitSlot DEF Shaped
  <2> QED
    BY <1>1, <2>1, InitRecords, InitSlot DEF Formed
<1>3. Placed
  <2>1. Reserved = {}
    BY InitSlot DEF Reserved
  <2>2. IsFiniteSet({}) /\ Cardinality({}) = 0
    BY FS_EmptySet
  <2>3. MaxOwned \in Nat
    BY DiscussionAssumption
  <2>4. Counted
    <3>1. tracked = {} /\ retire = {} /\ Len(child) = 0
      BY InitSlot
    <3>2. IsFiniteSet(tracked) /\ Cardinality(tracked) = 0 /\ IsFiniteSet(Reserved) /\ Cardinality(Reserved) = 0
      BY <2>1, <2>2, <3>1
    <3> QED
      BY <2>3, <3>1, <3>2 DEF Counted
  <2>5. Single
    BY InitSlot DEF Single, Seeking, Starting
  <2>6. Housed
    BY InitSlot DEF Housed
  <2> QED
    BY <2>4, <2>5, <2>6 DEF Placed
<1>4. Told
  <2>1. Staged
    BY InitSlot DEF Staged, Serving, Locked
  <2>2. Lined
    <3>1. ASSUME NEW t \in Threads PROVE Ordered(t)
      <4>1. PICK q : q = record[t].queue
        OBVIOUS
      <4>2. Len(q) \in Nat
        BY <1>1, <4>1, InitRecords, QueueOf
      <4> QED
        BY <4>1, <4>2, InitRecords DEF Ordered
    <3> QED
      BY <3>1, InitSlot DEF Lined, Locked
  <2>3. Once
    BY InitSlot DEF Once
  <2> QED
    BY <2>1, <2>2, <2>3 DEF Told
<1>5. Calm
  <2>1. Quiet
    BY InitSlot DEF Quiet, Before
  <2>2. Answerable
    BY InitSlot DEF Answerable, Answering, Confirming
  <2> QED
    BY <2>1, <2>2 DEF Calm
<1>6. overtaken \in BOOLEAN
  BY DEF Init
<1> QED
  BY <1>2, <1>3, <1>4, <1>5, <1>6 DEF IInv

\* The steps of the children, and of the service that dies.
ChildStep ==
  \/ \E k \in retire : Retire(k)
  \/ \E x \in exits : Exit(x)
  \/ \E c \in 1..MaxChildren : Settled(c) \/ ChildDies(c)
  \/ Crash

\* Only a stop makes a response one that was overtaken, and nothing undoes it.
LEMMA Remembered ==
  ASSUME [Next]_vars, overtaken \in BOOLEAN
  PROVE  Recalled /\ overtaken' \in BOOLEAN
<1>1. ASSUME NEW t \in Threads,
             \/ Send(t) \/ Resume(t) \/ Discard(t) \/ Stop(t) \/ JobStep(t)
             \/ Expire(t) \/ Stalled(t) \/ Directory(t)
      PROVE  UNCHANGED overtaken
  <2>1. CASE JobStep(t)
    BY <2>1 DEF JobStep, Check, Pin, Capacity, Spawn, RecordChild, Handshake
  <2> QED
    BY <1>1, <2>1 DEF Send, Resume, Discard, Stop, Expire, Stalled, Directory
<1>2. CASE PumpStep
  BY <1>2 DEF PumpStep, Busy, Judge, Prompt, Ack, Stage, Recalled
<1>3. CASE StopStep
  <2>1. CASE StopConfirms
    BY <2>1 DEF StopConfirms, Recalled
  <2>2. CASE StopUnowned \/ StopAborts \/ StopLooks \/ StopUncertain
    BY <2>2 DEF StopUnowned, StopAborts, StopLooks, StopUncertain, Recalled
  <2> QED
    BY <1>3, <2>1, <2>2 DEF StopStep
<1>4. CASE ChildStep
  BY <1>4 DEF ChildStep, Retire, Exit, Settled, ChildDies, Crash, Recalled
<1>5. CASE UNCHANGED vars
  BY <1>5 DEF vars, Recalled
<1>6. CASE \E t \in Threads : Send(t) \/ Resume(t) \/ Discard(t) \/ Stop(t) \/ JobStep(t)
                              \/ Expire(t) \/ Stalled(t) \/ Directory(t)
  BY <1>1, <1>6 DEF Recalled
<1> QED
  BY <1>2, <1>3, <1>4, <1>5, <1>6 DEF Next, ChildStep

\* One step of a call, by the thread's own lock or without it.
LEMMA ThreadStep ==
  ASSUME IInv, Recalled, overtaken' \in BOOLEAN, NEW t \in Threads,
         Send(t) \/ Resume(t) \/ Discard(t) \/ Stop(t) \/ Expire(t) \/ Stalled(t) \/ Directory(t)
  PROVE  IInv'
<1>1. Formed /\ Placed /\ Told /\ Calm /\ Staged /\ Lined
  BY DEF IInv, Told
<1>2. Formed'
  BY <1>1, SendFormed, ResumeFormed, DiscardFormed, StopFormed, ExpireFormed, StalledFormed, DirectoryFormed
<1>3. Placed'
  BY <1>1, <1>2, SendPlaced, ResumePlaced, ExpirePlaced, QuietPlaced
<1>4. Told'
  BY <1>1, <1>2, SendTold, ResumeTold, DiscardTold, StopTold, ExpireTold, StalledTold, DirectoryTold
<1>5. Calm'
  BY <1>1, <1>2, SendCalm, ResumeCalm, DiscardCalm, StopCalm, ExpireCalm, StalledCalm, DirectoryCalm
<1> QED
  BY <1>2, <1>3, <1>4, <1>5 DEF IInv

LEMMA JobStepKeeps ==
  ASSUME IInv, Recalled, overtaken' \in BOOLEAN, NEW t \in Threads, JobStep(t) PROVE IInv'
<1>1. Formed /\ Placed /\ Told /\ Calm /\ Staged /\ Lined
  BY DEF IInv, Told
<1>2. Check(t) \/ Pin(t) \/ Capacity(t) \/ Spawn(t) \/ RecordChild(t) \/ Handshake(t)
  BY DEF JobStep
<1>3. Formed'
  BY <1>1, <1>2, CheckFormed, PinFormed, CapacityFormed, SpawnFormed, RecordChildFormed, HandshakeFormed
<1>4. Placed'
  BY <1>1, <1>2, <1>3, CheckPlaced, PinPlaced, CapacityPlaced, SpawnPlaced, RecordChildPlaced,
     HandshakePlaced
<1>5. Told'
  BY <1>1, <1>2, <1>3, CheckTold, PinTold, CapacityTold, SpawnTold, RecordChildTold, HandshakeTold
<1>6. Calm'
  BY <1>1, <1>2, <1>3, CheckCalm, PinCalm, CapacityCalm, SpawnCalm, RecordChildCalm, HandshakeCalm
<1> QED
  BY <1>3, <1>4, <1>5, <1>6 DEF IInv

LEMMA PumpStepKeeps ==
  ASSUME IInv, Recalled, overtaken' \in BOOLEAN, PumpStep PROVE IInv'
<1>1. Formed /\ Placed /\ Told /\ Calm /\ Staged
  BY DEF IInv, Told
<1>2. Busy \/ Judge \/ Prompt \/ Ack \/ \E t \in Threads : Stage(t)
  BY DEF PumpStep
<1>3. Formed'
  BY <1>1, <1>2, BusyFormed, JudgeFormed, PromptFormed, AckFormed, StageFormed
<1>4. Placed'
  BY <1>1, <1>2, <1>3, QuietPlaced, PromptPlaced, StagePlaced
<1>5. Told'
  BY <1>1, <1>2, <1>3, BusyTold, JudgeTold, PromptTold, AckTold, StageTold
<1>6. Calm'
  BY <1>1, <1>2, <1>3, BusyCalm, JudgeCalm, PromptCalm, AckCalm, StageCalm
<1> QED
  BY <1>3, <1>4, <1>5, <1>6 DEF IInv

LEMMA StopStepKeeps ==
  ASSUME IInv, Recalled, overtaken' \in BOOLEAN, StopStep PROVE IInv'
<1>1. Formed /\ Placed /\ Told /\ Calm /\ Staged
  BY DEF IInv, Told
<1>2. StopUnowned \/ StopAborts \/ StopLooks \/ StopUncertain \/ StopConfirms
  BY DEF StopStep
<1>3. Formed'
  BY <1>1, <1>2, StopUnownedFormed, StopAbortsFormed, StopLooksFormed, StopUncertainFormed,
     StopConfirmsFormed
<1>4. Placed'
  BY <1>1, <1>2, <1>3, QuietPlaced, StopAbortsPlaced
<1>5. Told'
  BY <1>1, <1>2, <1>3, StopUnownedTold, StopAbortsTold, StopLooksTold, StopUncertainTold,
     StopConfirmsTold
<1>6. Calm'
  BY <1>1, <1>2, <1>3, StopUnownedCalm, StopAbortsCalm, StopLooksCalm, StopUncertainCalm,
     StopConfirmsCalm
<1> QED
  BY <1>3, <1>4, <1>5, <1>6 DEF IInv

LEMMA ChildStepKeeps ==
  ASSUME IInv, Recalled, overtaken' \in BOOLEAN, ChildStep PROVE IInv'
<1>1. Formed /\ Placed /\ Told /\ Calm /\ Housed /\ Answerable /\ Len(child) \in Nat
  BY DEF IInv, Placed, Calm, Formed
<1>2. CASE \E k \in retire : Retire(k)
  BY <1>1, <1>2, RetireFormed, RetirePlaced, RetireTold, RetireCalm DEF IInv
<1>3. CASE \E x \in exits : Exit(x)
  BY <1>1, <1>3, ExitFormed, ExitPlaced, ExitTold, ExitCalm DEF IInv
<1>4. ASSUME NEW c \in 1..MaxChildren, Settled(c) PROVE IInv'
  <2>1. c \in Nat /\ c \in 1..Len(child)
    BY <1>1, <1>4, DiscussionAssumption DEF Settled
  <2> QED
    BY <1>1, <1>4, <2>1, SettledFormed, SettledPlaced, SettledTold, SettledCalm DEF IInv
<1>5. ASSUME NEW c \in 1..MaxChildren, ChildDies(c) PROVE IInv'
  <2>1. c \in Nat /\ c \in 1..Len(child)
    BY <1>1, <1>5, DiscussionAssumption DEF ChildDies
  <2> QED
    BY <1>1, <1>5, <2>1, ChildDiesFormed, ChildDiesPlaced, ChildDiesTold, ChildDiesCalm DEF IInv
<1>6. CASE Crash
  BY <1>1, <1>6, CrashFormed, CrashPlaced, CrashTold, CrashCalm DEF IInv
<1> QED
  BY <1>2, <1>3, <1>4, <1>5, <1>6 DEF ChildStep

LEMMA StutterKeeps ==
  ASSUME IInv, Recalled, overtaken' \in BOOLEAN, UNCHANGED vars PROVE IInv'
<1>1. /\ UNCHANGED <<record, present, child, home, given, lease, owned, evicting, tracked, flight>>
      /\ UNCHANGED <<recovered, pump, job, retire, exits, stopper>>
  BY DEF vars
<1>2. Formed /\ Placed /\ Told /\ Calm
  BY DEF IInv
<1>3. Formed'
  BY <1>1, <1>2 DEF Formed, Shaped, Slot
<1>4. Placed'
  BY <1>1, <1>2, <1>3, AsidePlaced
<1>5. Told'
  BY <1>1, <1>2, <1>3, SlotSame, ToldUnwritten DEF Told
<1>6. Calm'
  BY <1>1, <1>2, <1>3, CalmAside, PinnedSame DEF Unowned, Unpinned
<1> QED
  BY <1>3, <1>4, <1>5, <1>6 DEF IInv

LEMMA NextIInv == ASSUME IInv, [Next]_vars PROVE IInv'
<1>1. Recalled /\ overtaken' \in BOOLEAN
  BY Remembered DEF IInv
<1>2. CASE \E t \in Threads : Send(t) \/ Resume(t) \/ Discard(t) \/ Stop(t) \/ JobStep(t)
                              \/ Expire(t) \/ Stalled(t) \/ Directory(t)
  <2>1. PICK t \in Threads : Send(t) \/ Resume(t) \/ Discard(t) \/ Stop(t) \/ JobStep(t)
                             \/ Expire(t) \/ Stalled(t) \/ Directory(t)
    BY <1>2
  <2> QED
    BY <1>1, <2>1, ThreadStep, JobStepKeeps
<1>3. CASE PumpStep \/ StopStep
  BY <1>1, <1>3, PumpStepKeeps, StopStepKeeps
<1>4. CASE ChildStep
  BY <1>1, <1>4, ChildStepKeeps
<1>5. CASE UNCHANGED vars
  BY <1>1, <1>5, StutterKeeps
<1> QED
  BY <1>2, <1>3, <1>4, <1>5 DEF Next, ChildStep

LEMMA Invariance == Spec => []IInv
<1>1. Init => IInv
  BY InitIInv
<1>2. IInv /\ [Next]_vars => IInv'
  BY NextIInv
<1> QED
  BY <1>1, <1>2, PTL DEF Spec

-------------------------------------------------------------------------------
(* What the service promises. *)

\* Records, leases, queues and children have the shape the code gives them
\* (discussion.mjs: the thread record and responseLease), and the list of the
\* accepted ids stays within its limit.
THEOREM TypeCorrect == Spec => []TypeOK
<1>1. IInv => TypeOK
  <2>1. SUFFICES ASSUME IInv PROVE TypeOK
    OBVIOUS
  <2>2. PICK n \in Nat, m \in Nat : n = Len(home) /\ m = Len(child) /\ Shaped(n, m)
    BY <2>1, Sizes DEF IInv
  <2>3. ASSUME NEW t \in Threads
        PROVE  /\ \A item \in Items(record[t]) :
                    item.id \in 1..n /\ item.state \in {"queued", "delivering", "uncertain"}
               /\ record[t].paused \in BOOLEAN /\ record[t].process \in 0..m
               /\ Len(record[t].accepted) <= MaxAccepted
               /\ record[t].attention \in {"none", "missing", "uncertain", "owner"}
               /\ owned[t] \in 0..m /\ flight[t] \in 0..n
    <3>1. PICK r \in Thread(n, m) : r = record[t]
      BY <2>2, JobShapes
    <3>2. \A item \in Items(r) : item \in Message(n)
      BY QueueOf DEF Items
    <3>3. \A item \in Message(n) : item.id \in 1..n /\ item.state \in {"queued", "delivering", "uncertain"}
      BY DEF Message
    <3>4. /\ r.paused \in BOOLEAN /\ r.process \in 0..m /\ Len(r.accepted) <= MaxAccepted
          /\ r.attention \in {"none", "missing", "uncertain", "owner"}
      BY DEF Thread, Recent
    <3>5. owned[t] \in 0..m /\ flight[t] \in 0..n
      BY <2>2 DEF Shaped
    <3> QED
      BY <3>1, <3>2, <3>3, <3>4, <3>5
  <2>4. \A c \in 1..m : child[c].thread \in Threads /\ child[c].state \in States
    <3>1. \A c \in 1..m : child[c] \in Process
      BY <2>1, <2>2 DEF IInv, Formed
    <3> QED
      BY <3>1 DEF Process
  <2>5. /\ tracked \subseteq 1..m /\ evicting \subseteq 1..m /\ given \subseteq 1..n
        /\ recovered \subseteq Threads /\ present \subseteq Threads
    BY <2>2 DEF Shaped
  <2>6. lease # None => lease.thread \in Threads /\ lease.gen \in 0..m
    BY <2>2, TypedSlot DEF Lease
  <2>7. overtaken \in BOOLEAN
    BY <2>1 DEF IInv
  <2> QED
    BY <2>2, <2>3, <2>4, <2>5, <2>6, <2>7 DEF TypeOK
<1> QED
  BY <1>1, Invariance, PTL

\* A set whose members are all the same has one at most.
LEMMA AtMostOne ==
  ASSUME NEW S, \A x, y \in S : x = y
  PROVE  Cardinality(S) <= 1
<1>1. CASE S = {}
  BY <1>1, FS_EmptySet
<1>2. CASE S # {}
  <2>1. PICK x : S = {x}
    BY <1>2
  <2> QED
    BY <2>1, FS_Singleton
<1> QED
  BY <1>1, <1>2

\* Until a stop settles the lease of a response that is under way or whose prompt
\* is on its way, there is one response at most, over all threads and all services
\* since the first: what responseLease and the inspection of recorded owners
\* (findEligibleHead) are for, through crashes, lost answers and failing writes.
THEOREM SingleResponse == Spec => []OneUnlessOvertaken
<1>1. IInv => OneUnlessOvertaken
  <2>1. SUFFICES ASSUME IInv, ~overtaken PROVE OneResponse
    BY DEF OneUnlessOvertaken
  <2>2. PICK S : S = {c \in 1..Len(child) : child[c].state = "busy"}
    OBVIOUS
  <2>3. \A c, d \in S : c = d
    BY <2>1, <2>2 DEF IInv, Calm, Quiet, Responding
  <2> QED
    BY <2>2, <2>3, AtMostOne DEF OneResponse
<1> QED
  BY <1>1, Invariance, PTL

\* One pi process per thread, whatever died before: what the process listing and
\* the recorded owner of resumeLocked are for.
THEOREM SingleOwner == Spec => []OneOwner
<1>1. IInv => OneOwner
  <2>1. SUFFICES ASSUME IInv, NEW t \in Threads PROVE Cardinality(LiveOf(t)) <= 1
    BY DEF OneOwner
  <2>2. \A c, d \in LiveOf(t) : c = d
    BY <2>1 DEF IInv, Placed, Single, LiveOf
  <2> QED
    BY <2>2, AtMostOne
<1> QED
  BY <1>1, Invariance, PTL

\* No more children than MAX_OWNED_CHILDREN, the reserved places included, and
\* none that runs without being counted (acquireCapacity, ownedChildren).
THEOREM Limited == Spec => []WithinLimit
<1>1. IInv => WithinLimit
  BY DEF IInv, Placed, Counted, WithinLimit
<1> QED
  BY <1>1, Invariance, PTL

\* A message that a child may have received is not handed over again, across
\* restarts: what the delivering mark of the durable queue is for.
THEOREM HandedOnce == Spec => NeverTwice
<1>1. IInv /\ [Next]_vars => [pump.pc = "prompt" /\ pump'.pc = "ack" => pump.msg \notin given]_vars
  BY DEF IInv, Told, Once
<1> QED
  BY <1>1, Invariance, PTL DEF Spec, NeverTwice

================================================================================
