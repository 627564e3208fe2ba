------------------------------ MODULE WavesProofs ------------------------------
(***************************************************************************)
(* What Waves promises for every number of waves, every set of             *)
(* coordinators and sessions and every bound: the order of the waves, the  *)
(* claim between them, and that no wave is taken from a live coordinator.  *)
(***************************************************************************)
EXTENDS Waves, TLAPS

\* A process in an operation lives, and what it stands at makes sense.
Sane ==
  /\ \A c \in Coords : at[c] # Idle => c \in live
  /\ \A c \in Coords : at[c].pc \in {"rebind", "adopt"} => Exists(at[c].wave)
  /\ \A c \in Coords : at[c].pc = "inherit" => at[c].wave < N
  /\ \A w \in Waves : Exists(w) => rec[w].owner \in used
  /\ \A c, d \in live : Session[c] = Session[d] => c = d

\* ClaimKept, from before the first record is written.
Claimed ==
  ((\E w \in Waves : Exists(w)) \/ (\E c \in Coords : at[c].pc = "write")) /\ head < N
    => claim # None

\* What is settled has been promoted.
Done == \A c \in Coords : at[c].pc \in {"record", "reconcile", "release"} => head >= at[c].wave

\* The parts of the order: of the records, of what is loaded, of each process.
Prefix ==
  \A w \in Waves, v \in Waves : v < w /\ Exists(w) => In(v, {"integrated"}) /\ head >= v
Sealed == \A w \in Waves : In(w, {"integrated"}) => rec[w].members = "sealed"
Loaded ==
  \A c \in Coords : \A w \in loaded[c] : c \in live /\ Exists(w) /\ rec[w].owner = c

Driving == {"resume", "drive", "promote", "record", "reconcile", "release", "continue", "inherit"}
Owned(c, w) == Exists(w) /\ rec[w].owner = c
MayWrite(c, w) ==
  \/ w = 1 /\ claim = c /\ \A v \in Waves : ~ Exists(v)
  \/ /\ w > 1 /\ Owned(c, w - 1) /\ In(w - 1, {"integrated"}) /\ head >= w - 1
     /\ ~ Exists(w)
Point(c, p, w) ==
  /\ p \in {"rebind", "adopt"} /\ c \in fresh => Dead(w)
  /\ p \in Driving => Owned(c, w)
  /\ p = "resume" => ~ In(w, {"integrated"})
  /\ p \in {"promote", "record"} => rec[w].state = "integrating" /\ rec[w].members = "sealed"
  /\ p \in {"reconcile", "release"} => \A v \in Waves : v > w => ~ Exists(v)
  /\ p = "inherit" => In(w, {"integrated"}) /\ head >= w /\ ~ Exists(w + 1)
  /\ p = "drain" => ~ (Mine(c, w) /\ In(w, {"integrated"}))
  /\ p = "write" => MayWrite(c, w)
Standing == \A c \in Coords : at[c] # Idle => Point(c, at[c].pc, at[c].wave)

Ordered == Prefix /\ Sealed /\ Loaded /\ Standing
Base == TypeOK /\ Sane /\ Claimed /\ Done
IInv == Base /\ (borrowed \/ Ordered)


--------------------------------------------------------------------------------
\* What most steps of c have in common: no wave appears, disappears or changes
\* hands, the claim is not given up, and only c moves on.
Kept ==
  /\ rec' \in [Waves -> Record \cup {None}]
  /\ \A w \in Waves : rec'[w] = None <=> rec[w] = None
  /\ \A w \in Waves : Exists(w) => rec'[w].owner = rec[w].owner
Moves(c) ==
  /\ at' \in [Coords -> {Idle} \cup [pc : Points, wave : Waves]]
  /\ \A d \in Coords : d # c => at'[d] = at[d]
Around(c) ==
  /\ c \in live /\ live' = live /\ used' = used /\ fresh' \subseteq fresh \cup {c}
  /\ head' \in 0..N /\ head' >= head
  /\ loaded' \in [Coords -> SUBSET Waves]
  /\ pauses' \in 0..MaxPauses /\ stray' \in BOOLEAN /\ borrowed' \in BOOLEAN
  /\ due' \subseteq live /\ refused' \subseteq Waves
Claims ==
  /\ claim' \in Coords \cup {None}
  /\ claim' = None => claim = None
Quiet(c) == Kept /\ Moves(c) /\ Around(c) /\ Claims

\* Where c may stand after it.
Lands(c) ==
  LET p == at'[c].pc  w == at'[c].wave IN
  /\ p \in {"rebind", "adopt"} => Exists(w)
  /\ p = "inherit" => w < N
  /\ p = "write" => claim' # None
  /\ p \in {"record", "reconcile", "release"} => head' >= w

\* What a quiet step of c may write while the order holds: waves of its own session,
\* and an integrated one only to keep it so, or while it is the last.
Gentle(c) ==
  /\ \A w \in Waves : rec'[w] # rec[w] =>
       /\ Mine(c, w)
       /\ In(w, {"integrated"}) =>
            rec'[w].state = "integrated" \/ \A v \in Waves : v > w => ~ Exists(v)
       /\ rec'[w].state = "integrated" => rec'[w].members = "sealed"
  /\ claim' # claim => claim = None \/ \E w \in Waves : Exists(w)

\* What c itself has to show for its next step.
Shows(c) ==
  /\ \A p \in Points, w \in Waves : at'[c] = [pc |-> p, wave |-> w] => Point(c, p, w)'
  /\ \A w \in loaded'[c] : rec'[w] # None /\ rec'[w].owner = c
  /\ \A d \in Coords : d # c => loaded'[d] = loaded[d]

USE WavesAssumption, NoneAssumption DEF processes, history

\* Writing a record that is there, without a change of hands, keeps the rest.
LEMMA WritesKeep ==
  ASSUME TypeOK, NEW w \in Waves, Exists(w), NEW r \in Record, r.owner = rec[w].owner, Writes(w, r)
  PROVE  Kept /\ fresh' \subseteq fresh
  BY DEF TypeOK, Kept, Writes, Exists

\* A step that writes no record keeps them all.
LEMMA SameKeep == ASSUME TypeOK, rec' = rec PROVE Kept
  BY DEF TypeOK, Kept

\* Only the process itself moves on.
LEMMA GoesMoves ==
  ASSUME TypeOK, NEW c \in Coords, NEW p \in Points, NEW w \in Waves, Goes(c, p, w)
  PROVE  Moves(c) /\ at'[c] = [pc |-> p, wave |-> w]
  BY DEF TypeOK, Moves, Goes

\* So does one that ends its operation.
LEMMA EndsMoves ==
  ASSUME TypeOK, NEW c \in Coords, Ends(c)
  PROVE  Moves(c) /\ at'[c] = Idle
  BY DEF TypeOK, Moves, Ends, Idle

\* A guarded write keeps the records, whether it is refused or not.
LEMMA PatchesKeep ==
  ASSUME TypeOK, NEW c \in Coords, NEW w \in Waves, NEW r, NEW p \in Points,
         Exists(w) => r \in Record /\ r.owner = rec[w].owner, Patches(c, w, r, p)
  PROVE  /\ Kept /\ Moves(c) /\ fresh' \subseteq fresh
         /\ at'[c] \in {Idle, [pc |-> p, wave |-> w]}
<1>1. CASE Mine(c, w)
  BY <1>1, WritesKeep, GoesMoves DEF Patches, Mine
<1>2. CASE ~ Mine(c, w)
  BY <1>2, SameKeep, EndsMoves DEF Patches
<1> QED BY <1>1, <1>2

\* So does the attempt to block a wave.
LEMMA BlocksKeep ==
  ASSUME TypeOK, NEW c \in Coords, NEW w \in Waves, Blocks(c, w)
  PROVE  Kept /\ Moves(c) /\ fresh' \subseteq fresh /\ at'[c] = Idle
<1>1. CASE Mine(c, w)
  <2>1. rec[w] \in Record BY <1>1 DEF TypeOK, Mine, Exists
  <2>2. LET q == [rec[w] EXCEPT !.state = "blocked"] IN q \in Record /\ q.owner = rec[w].owner
    BY <2>1 DEF Record, Stopped
  <2> QED BY <1>1, <2>2, WritesKeep, EndsMoves DEF Blocks, Mine
<1>2. CASE ~ Mine(c, w)
  BY <1>2, SameKeep, EndsMoves DEF Blocks
<1> QED BY <1>1, <1>2

\* Quiet steps that land well preserve the base.
LEMMA QuietBase ==
  ASSUME Base, NEW c \in Coords, Quiet(c), Lands(c)
  PROVE  Base'
<1> USE DEF Base, Quiet, Kept, Moves, Around, Claims, Lands
<1>1. TypeOK' BY DEF TypeOK
<1>2. Sane'
  <2>1. (\A d \in Coords : at[d] # Idle => d \in live)' BY DEF Sane
  <2>2. (\A d \in Coords : at[d].pc \in {"rebind", "adopt"} => Exists(at[d].wave))'
    <3> SUFFICES ASSUME NEW d \in Coords, at'[d].pc \in {"rebind", "adopt"}
                 PROVE  rec'[at'[d].wave] # None
      BY DEF Exists
    <3>1. at'[d].wave \in Waves BY DEF Idle
    <3>2. rec[at'[d].wave] # None BY DEF Sane, Exists
    <3> QED BY <3>1, <3>2
  <2>3. (\A d \in Coords : at[d].pc = "inherit" => at[d].wave < N)' BY DEF Sane
  <2>4. (\A w \in Waves : Exists(w) => rec[w].owner \in used)' BY DEF Sane, Exists
  <2>5. (\A d, e \in live : Session[d] = Session[e] => d = e)' BY DEF Sane
  <2> QED BY <2>1, <2>2, <2>3, <2>4, <2>5 DEF Sane
<1>3. Claimed' BY DEF Claimed, Exists, TypeOK
<1>4. Done'
  <2> SUFFICES ASSUME NEW d \in Coords, at'[d].pc \in {"record", "reconcile", "release"}
               PROVE  head' >= at'[d].wave
    BY DEF Done
  <2>1. CASE d = c BY <2>1
  <2>2. CASE d # c
    <3>1. at'[d].wave \in Nat BY DEF Waves, Idle
    <3> QED BY <2>2, <3>1 DEF Done, TypeOK
  <2> QED BY <2>1, <2>2
<1> QED BY <1>1, <1>2, <1>3, <1>4

\* A process within an operation is at a wave.
LEMMA Place ==
  ASSUME TypeOK, NEW c \in Coords, NEW p \in Points, Stands(c, p)
  PROVE  c \in live /\ at[c].pc = p /\ at[c].wave \in Waves
  BY DEF TypeOK, Stands, Idle, Points

\* A record that exists is one.
LEMMA IsRecord == ASSUME TypeOK, NEW w \in Waves, Exists(w) PROVE rec[w] \in Record
  BY DEF TypeOK, Exists

\* The steps that write no record.

\* What startup takes up exists.
LEMMA FoundExists ==
  ASSUME TypeOK, NEW c \in Coords, NEW w \in Found(c)
  PROVE  w \in Waves /\ Exists(w)
  BY DEF Found, Active, Predecessors, In

\* StartupRecovers is quiet.
LEMMA StartupRecoversQuiet ==
  ASSUME Base, NEW c \in Coords, StartupRecovers(c)
  PROVE  Quiet(c) /\ Lands(c)
<1>1. Kept BY SameKeep DEF Base, StartupRecovers
<1>2. PICK v \in Waves : Found(c) = {v} /\ Goes(c, "rebind", v) BY DEF StartupRecovers
<1>3. Exists(v) BY <1>2, FoundExists DEF Base
<1>4. Moves(c) /\ at'[c] = [pc |-> "rebind", wave |-> v] BY <1>2, GoesMoves DEF Base, Points
<1>5. Around(c) BY DEF Base, TypeOK, Around, StartupRecovers, Serves, Free
<1>6. Claims BY DEF Base, TypeOK, Claims, StartupRecovers
<1>7. Lands(c) BY <1>1, <1>3, <1>4 DEF Lands, Exists, Kept
<1> QED BY <1>1, <1>4, <1>5, <1>6, <1>7 DEF Quiet

\* StartupRefused is quiet.
LEMMA StartupRefusedQuiet ==
  ASSUME Base, NEW c \in Coords, StartupRefused(c)
  PROVE  Quiet(c) /\ Lands(c) /\ at'[c] = Idle
<1>1. Kept BY SameKeep DEF Base, StartupRefused
<1>2. Moves(c) /\ at'[c] = Idle BY DEF Base, TypeOK, Moves, StartupRefused, Free
<1>3. Around(c) BY DEF Base, TypeOK, Around, StartupRefused, Serves, Free
<1>4. Claims BY DEF Base, TypeOK, Claims, StartupRefused
<1> QED BY <1>1, <1>2, <1>3, <1>4 DEF Quiet, Lands, Idle

\* Recover is quiet.
LEMMA RecoverQuiet == ASSUME Base, NEW c \in Coords, Recover(c) PROVE Quiet(c) /\ Lands(c)
<1>1. Kept BY SameKeep DEF Base, Recover
<1>2. PICK v \in Waves : Exists(v) /\ Goes(c, "rebind", v) BY DEF Recover
<1>3. Moves(c) /\ at'[c] = [pc |-> "rebind", wave |-> v] BY <1>2, GoesMoves DEF Base, Points
<1>4. Around(c) BY DEF Base, TypeOK, Around, Recover, Free, Pauses
<1>5. Claims BY DEF Base, TypeOK, Claims, Recover
<1>6. Lands(c) BY <1>2, <1>3 DEF Lands, Exists
<1> QED BY <1>1, <1>3, <1>4, <1>5, <1>6 DEF Quiet

\* StartupContinues is quiet.
LEMMA StartupContinuesQuiet ==
  ASSUME Base, NEW c \in Coords, StartupContinues(c)
  PROVE  Quiet(c) /\ Lands(c)
<1>1. Kept BY SameKeep DEF Base, StartupContinues
<1>2. PICK w \in Waves : Loads(c, w) /\ Goes(c, "drive", w) BY DEF StartupContinues
<1>3. Moves(c) /\ at'[c] = [pc |-> "drive", wave |-> w] BY <1>2, GoesMoves DEF Base, Points
<1>4. Around(c) BY <1>2 DEF Base, TypeOK, Around, StartupContinues, Serves, Free, Loads
<1>5. Claims BY DEF Base, TypeOK, Claims, StartupContinues
<1> QED BY <1>1, <1>3, <1>4, <1>5 DEF Quiet, Lands

\* Notified is quiet.
LEMMA NotifiedQuiet == ASSUME Base, NEW c \in Coords, Notified(c) PROVE Quiet(c) /\ Lands(c)
<1>1. Kept BY SameKeep DEF Base, Notified
<1>2. PICK w \in loaded[c] : Goes(c, "drive", w) BY DEF Notified
<1>3. w \in Waves BY DEF Base, TypeOK
<1>4. Moves(c) /\ at'[c] = [pc |-> "drive", wave |-> w] BY <1>2, <1>3, GoesMoves DEF Base, Points
<1>5. Around(c) BY DEF Base, TypeOK, Around, Notified, Free
<1>6. Claims BY DEF Base, TypeOK, Claims, Notified
<1> QED BY <1>1, <1>4, <1>5, <1>6 DEF Quiet, Lands

\* DriveEnds is quiet.
LEMMA DriveEndsQuiet == ASSUME Base, NEW c \in Coords, DriveEnds(c) PROVE Quiet(c) /\ Lands(c)
<1>1. c \in live /\ at[c].wave \in Waves BY Place DEF Base, DriveEnds, DriveOn, Stands, Points
<1>2. Kept BY SameKeep DEF Base, DriveEnds
<1>3. Moves(c) /\ at'[c] = Idle BY <1>1, GoesMoves, EndsMoves DEF Base, DriveEnds, Points
<1>4. Around(c) BY <1>1 DEF Base, TypeOK, Around, DriveEnds, Pauses, Loads
<1>5. Claims BY DEF Base, TypeOK, Claims, DriveEnds
<1> QED BY <1>1, <1>2, <1>3, <1>4, <1>5 DEF Quiet, Lands, Idle

\* DriveContinues is quiet.
LEMMA DriveContinuesQuiet ==
  ASSUME Base, NEW c \in Coords, DriveContinues(c)
  PROVE  Quiet(c) /\ Lands(c)
<1>1. c \in live /\ at[c].wave \in Waves BY Place DEF Base, DriveContinues, DriveOn, Stands, Points
<1>2. Kept BY SameKeep DEF Base, DriveContinues
<1>3. Moves(c) /\ at'[c] = [pc |-> "continue", wave |-> at[c].wave]
  BY <1>1, GoesMoves, EndsMoves DEF Base, DriveContinues, Points
<1>4. Around(c) BY <1>1 DEF Base, TypeOK, Around, DriveContinues, Pauses, Loads
<1>5. Claims BY DEF Base, TypeOK, Claims, DriveContinues
<1> QED BY <1>1, <1>2, <1>3, <1>4, <1>5 DEF Quiet, Lands, Idle

\* ContinueStops is quiet.
LEMMA ContinueStopsQuiet ==
  ASSUME Base, NEW c \in Coords, ContinueStops(c)
  PROVE  Quiet(c) /\ Lands(c)
<1>1. c \in live /\ at[c].wave \in Waves BY Place DEF Base, ContinueStops, Stands, Points
<1>2. Kept BY SameKeep DEF Base, ContinueStops
<1>3. Moves(c) /\ at'[c] = Idle BY <1>1, GoesMoves, EndsMoves DEF Base, ContinueStops, Points
<1>4. Around(c) BY <1>1 DEF Base, TypeOK, Around, ContinueStops, Pauses, Loads
<1>5. Claims BY DEF Base, TypeOK, Claims, ContinueStops
<1> QED BY <1>1, <1>2, <1>3, <1>4, <1>5 DEF Quiet, Lands, Idle

\* ContinueWaits is quiet.
LEMMA ContinueWaitsQuiet ==
  ASSUME Base, NEW c \in Coords, ContinueWaits(c)
  PROVE  Quiet(c) /\ Lands(c)
<1>1. c \in live /\ at[c].wave \in Waves BY Place DEF Base, ContinueWaits, Stands, Points
<1>2. Kept BY SameKeep DEF Base, ContinueWaits
<1>3. Moves(c) /\ at'[c] = Idle BY <1>1, GoesMoves, EndsMoves DEF Base, ContinueWaits, Points
<1>4. Around(c) BY <1>1 DEF Base, TypeOK, Around, ContinueWaits, Pauses, Loads
<1>5. Claims BY DEF Base, TypeOK, Claims, ContinueWaits
<1> QED BY <1>1, <1>2, <1>3, <1>4, <1>5 DEF Quiet, Lands, Idle

\* ContinueLoads is quiet.
LEMMA ContinueLoadsQuiet ==
  ASSUME Base, NEW c \in Coords, ContinueLoads(c)
  PROVE  Quiet(c) /\ Lands(c)
<1>1. c \in live /\ at[c].wave \in Waves BY Place DEF Base, ContinueLoads, Stands, Points
<1>2. Kept BY SameKeep DEF Base, ContinueLoads
<1>3. Ends(c) BY DEF ContinueLoads
<1>4. Moves(c) /\ at'[c] = Idle BY <1>3, EndsMoves DEF Base
<1>5. borrowed' \in BOOLEAN BY DEF Base, TypeOK, ContinueLoads
<1>6. at[c].wave + 1 \in Waves BY <1>1 DEF ContinueLoads, MayContinue, Waves
<1>7. loaded' \in [Coords -> SUBSET Waves] BY <1>6 DEF Base, TypeOK, ContinueLoads, Loads
<1>8. Around(c) BY <1>1, <1>5, <1>7 DEF Base, TypeOK, Around, ContinueLoads
<1>9. Claims BY DEF Base, TypeOK, Claims, ContinueLoads
<1> QED BY <1>1, <1>2, <1>4, <1>8, <1>9 DEF Quiet, Lands, Idle

\* Inherit is quiet.
LEMMA InheritQuiet == ASSUME Base, NEW c \in Coords, Inherit(c) PROVE Quiet(c) /\ Lands(c)
<1>1. c \in live /\ at[c].wave \in Waves BY Place DEF Base, Inherit, Stands, Points
<1>2. at[c].wave + 1 \in Waves BY <1>1 DEF Base, Sane, Inherit, Stands, Waves
<1>3. Kept BY SameKeep DEF Base, Inherit
<1>4. Moves(c) /\ at'[c] \in {Idle, [pc |-> "write", wave |-> at[c].wave + 1]}
  <2>1. CASE Goes(c, "write", at[c].wave + 1)
    <3>1. PICK v \in Waves : v = at[c].wave + 1 BY <1>2
    <3>2. Moves(c) /\ at'[c] = [pc |-> "write", wave |-> v]
      BY <2>1, <3>1, GoesMoves DEF Base, Points
    <3> QED BY <3>1, <3>2
  <2>2. CASE Ends(c) BY <2>2, EndsMoves DEF Base
  <2> QED BY <1>2, <2>1, <2>2 DEF Inherit
<1>5. Around(c) BY <1>1 DEF Base, TypeOK, Around, Inherit, Pauses, Loads
<1>6. Claims /\ (at'[c] # Idle => claim' # None) BY EndsMoves DEF Base, TypeOK, Claims, Inherit
<1> QED BY <1>1, <1>3, <1>4, <1>5, <1>6 DEF Quiet, Lands, Idle

\* MemberMoves is quiet.
LEMMA MemberMovesQuiet == ASSUME Base, NEW c \in Coords, MemberMoves(c) PROVE Quiet(c) /\ Lands(c)
<1>1. PICK v \in Waves :
        /\ v \in loaded[c] /\ Mine(c, v) /\ Goes(c, "drive", v)
        /\ \E m \in {"stuck", "stopped", "sealed"} :
             Writes(v, [rec[v] EXCEPT !.members = m,
                                      !.state = IF m = "sealed" THEN @ ELSE "blocked"])
  BY DEF MemberMoves, Base, TypeOK
<1>2. Goes(c, "drive", v) BY <1>1
<1>3. rec[v] \in Record /\ Exists(v) BY <1>1, IsRecord DEF Base, Mine
<1>4. Kept /\ fresh' \subseteq fresh
  <2>1. PICK m \in {"stuck", "stopped", "sealed"} :
          Writes(v, [rec[v] EXCEPT !.members = m,
                                   !.state = IF m = "sealed" THEN @ ELSE "blocked"])
    BY <1>1
  <2>2. PICK s \in {"running", "integrating", "repairing"} \cup Stopped :
          s = IF m = "sealed" THEN rec[v].state ELSE "blocked"
    BY <1>3 DEF Record, Stopped
  <2>3. Writes(v, [rec[v] EXCEPT !.members = m, !.state = s]) BY <2>1, <2>2
  <2>4. LET q == [rec[v] EXCEPT !.members = m, !.state = s]
        IN  q \in Record /\ q.owner = rec[v].owner
    BY <1>3 DEF Record
  <2> QED BY <1>3, <2>3, <2>4, WritesKeep DEF Base
<1>5. Moves(c) /\ at'[c] = [pc |-> "drive", wave |-> v] BY <1>2, GoesMoves DEF Base, Points
<1>6. Around(c) BY <1>1, <1>4 DEF Base, TypeOK, Around, MemberMoves, Free
<1>7. Claims BY DEF Base, TypeOK, Claims, MemberMoves
<1> QED BY <1>4, <1>5, <1>6, <1>7 DEF Quiet, Lands

\* Recheck is quiet.
LEMMA RecheckQuiet == ASSUME Base, NEW c \in Coords, Recheck(c) PROVE Quiet(c) /\ Lands(c)
<1>1. PICK v \in Waves :
        /\ Mine(c, v) /\ Goes(c, "drive", v)
        /\ Writes(v, [rec[v] EXCEPT !.members = "working"])
  BY DEF Recheck, Base, TypeOK
<1>2. Goes(c, "drive", v) BY <1>1
<1>3. rec[v] \in Record /\ Exists(v) BY <1>1, IsRecord DEF Base, Mine
<1>4. Kept /\ fresh' \subseteq fresh
  <2>1. LET q == [rec[v] EXCEPT !.members = "working"]
        IN  q \in Record /\ q.owner = rec[v].owner
    BY <1>3 DEF Record
  <2> QED BY <1>1, <1>3, <2>1, WritesKeep DEF Base
<1>5. Moves(c) /\ at'[c] = [pc |-> "drive", wave |-> v] BY <1>2, GoesMoves DEF Base, Points
<1>6. Around(c) BY <1>1, <1>4 DEF Base, TypeOK, Around, Recheck, Free
<1>7. Claims BY DEF Base, TypeOK, Claims, Recheck
<1> QED BY <1>4, <1>5, <1>6, <1>7 DEF Quiet, Lands

\* Advance is quiet.
LEMMA AdvanceQuiet == ASSUME Base, NEW c \in Coords, Advance(c) PROVE Quiet(c) /\ Lands(c)
<1>1. PICK v \in Waves :
        /\ Mine(c, v) /\ Loads(c, v) /\ Goes(c, "drive", v)
        /\ Writes(v, [rec[v] EXCEPT !.members = "working", !.state = "running"])
  BY DEF Advance
<1>2. Goes(c, "drive", v) BY <1>1
<1>3. rec[v] \in Record /\ Exists(v) BY <1>1, IsRecord DEF Base, Mine
<1>4. Kept /\ fresh' \subseteq fresh
  <2>1. LET q == [rec[v] EXCEPT !.members = "working", !.state = "running"]
        IN  q \in Record /\ q.owner = rec[v].owner
    BY <1>3 DEF Record
  <2> QED BY <1>1, <1>3, <2>1, WritesKeep DEF Base
<1>5. Moves(c) /\ at'[c] = [pc |-> "drive", wave |-> v] BY <1>2, GoesMoves DEF Base, Points
<1>6. Around(c) BY <1>1, <1>4 DEF Base, TypeOK, Around, Advance, Free, Pauses, Loads
<1>7. Claims BY DEF Base, TypeOK, Claims, Advance
<1> QED BY <1>4, <1>5, <1>6, <1>7 DEF Quiet, Lands

\* Cancel is quiet.
LEMMA CancelQuiet == ASSUME Base, NEW c \in Coords, Cancel(c) PROVE Quiet(c) /\ Lands(c)
<1>1. PICK v \in Waves, whole \in BOOLEAN :
        /\ Mine(c, v) /\ Goes(c, "drain", v)
        /\ \E m \in (IF whole THEN {} ELSE {rec[v].members})
                    \cup (IF rec[v].members = "sealed" /\ whole THEN {"sealed"} ELSE {"stopped"}) :
             Writes(v, [rec[v] EXCEPT !.members = m,
                                      !.state = IF whole THEN "cancelled" ELSE "blocked"])
  BY DEF Cancel
<1>2. Goes(c, "drain", v) BY <1>1
<1>3. rec[v] \in Record /\ Exists(v) BY <1>1, IsRecord DEF Base, Mine
<1>4. Kept /\ fresh' \subseteq fresh
  <2>1. PICK m \in {"working", "unsure", "stuck", "stopped", "sealed"} :
          Writes(v, [rec[v] EXCEPT !.members = m,
                                   !.state = IF whole THEN "cancelled" ELSE "blocked"])
    BY <1>1, <1>3 DEF Record
  <2>2. PICK s \in {"running", "integrating", "repairing"} \cup Stopped :
          s = IF whole THEN "cancelled" ELSE "blocked"
    BY DEF Stopped
  <2>3. Writes(v, [rec[v] EXCEPT !.members = m, !.state = s]) BY <2>1, <2>2
  <2>4. LET q == [rec[v] EXCEPT !.members = m, !.state = s]
        IN  q \in Record /\ q.owner = rec[v].owner
    BY <1>3 DEF Record
  <2> QED BY <1>3, <2>3, <2>4, WritesKeep DEF Base
<1>5. Moves(c) /\ at'[c] = [pc |-> "drain", wave |-> v] BY <1>2, GoesMoves DEF Base, Points
<1>6. Around(c) BY <1>1, <1>4 DEF Base, TypeOK, Around, Cancel, Free, Pauses
<1>7. Claims BY DEF Base, TypeOK, Claims, Cancel
<1> QED BY <1>4, <1>5, <1>6, <1>7 DEF Quiet, Lands

\* Resume is quiet.
LEMMA ResumeQuiet ==
  ASSUME Base, NEW c \in Coords, Resume(c)
  PROVE  /\ Quiet(c) /\ Lands(c)
         /\ at'[c] \in {Idle, [pc |-> "drive", wave |-> at[c].wave]}
<1> DEFINE w == at[c].wave
<1>1. c \in live /\ w \in Waves BY Place DEF Base, Resume, DriveOn, Points
<1>2. Exists(w) => rec[w] \in Record BY <1>1, IsRecord DEF Base
<1>3. /\ Kept /\ Moves(c) /\ fresh' \subseteq fresh
      /\ at'[c] \in {Idle, [pc |-> "drive", wave |-> w]}
  <2>1. PICK m \in {rec[w].members} \cup
                    (IF rec[w].members = "working" THEN {"unsure", "stopped"} ELSE {}),
             s \in {rec[w].state} \cup (IF rec[w].repair = "open" THEN {"repairing"} ELSE {}) :
          Patches(c, w, [rec[w] EXCEPT !.members = m, !.state = s], "drive")
    BY DEF Resume
  <2>2. LET q == [rec[w] EXCEPT !.members = m, !.state = s]
        IN  Exists(w) => q \in Record /\ q.owner = rec[w].owner
    BY <1>2 DEF Record
  <2> QED BY <1>1, <2>1, <2>2, PatchesKeep DEF Base, Points
<1>4. Around(c) BY <1>1, <1>3 DEF Base, TypeOK, Around, Resume
<1>5. Claims BY DEF Base, TypeOK, Claims, Resume
<1> QED BY <1>3, <1>4, <1>5 DEF Quiet, Lands, Idle

\* Drained is quiet.
LEMMA DrainedQuiet == ASSUME Base, NEW c \in Coords, Drained(c) PROVE Quiet(c) /\ Lands(c)
<1> DEFINE w == at[c].wave
<1>1. c \in live /\ w \in Waves BY Place DEF Base, Drained, DriveOn, Points
<1>2. Exists(w) => rec[w] \in Record BY <1>1, IsRecord DEF Base
<1>3. /\ Kept /\ Moves(c) /\ fresh' \subseteq fresh
      /\ at'[c] \in {Idle}
  <2>1. CASE Ends(c) /\ UNCHANGED <<rec, fresh>> BY <2>1, SameKeep, EndsMoves DEF Base
  <2>2. CASE Blocks(c, w) BY <1>1, <2>2, BlocksKeep DEF Base
  <2> QED BY <2>1, <2>2 DEF Drained
<1>4. Around(c) BY <1>1, <1>3 DEF Base, TypeOK, Around, Drained
<1>5. Claims BY DEF Base, TypeOK, Claims, Drained
<1> QED BY <1>3, <1>4, <1>5 DEF Quiet, Lands, Idle

\* DriveRepair is quiet.
LEMMA DriveRepairQuiet ==
  ASSUME Base, NEW c \in Coords, DriveRepair(c)
  PROVE  /\ Quiet(c) /\ Lands(c)
         /\ at'[c] \in {Idle, [pc |-> "drive", wave |-> at[c].wave]}
<1> DEFINE w == at[c].wave
<1>1. c \in live /\ w \in Waves BY Place DEF Base, DriveRepair, DriveOn, Points
<1>2. Exists(w) => rec[w] \in Record BY <1>1, IsRecord DEF Base
<1>3. /\ Kept /\ Moves(c) /\ fresh' \subseteq fresh
      /\ at'[c] \in {Idle, [pc |-> "drive", wave |-> w]}
  <2>1. Exists(w) BY DEF DriveRepair, DriveOn, Mine
  <2>2. CASE /\ Writes(w, [rec[w] EXCEPT !.repair = "accepted",
                       !.state = IF @ = "repairing" THEN "integrating" ELSE @])
             /\ Goes(c, "drive", w)
    <3>1. PICK s \in {"running", "integrating", "repairing"} \cup Stopped :
            s = IF rec[w].state = "repairing" THEN "integrating" ELSE rec[w].state
      BY <1>2, <2>1 DEF Record
    <3>2. Writes(w, [rec[w] EXCEPT !.repair = "accepted", !.state = s]) BY <2>2, <3>1
    <3>3. LET q == [rec[w] EXCEPT !.repair = "accepted", !.state = s]
          IN  q \in Record /\ q.owner = rec[w].owner
      BY <1>2, <2>1 DEF Record
    <3>4. Moves(c) /\ at'[c] = [pc |-> "drive", wave |-> w]
      BY <1>1, <2>2, GoesMoves DEF Base, Points
    <3>5. Kept /\ fresh' \subseteq fresh BY <1>1, <2>1, <3>2, <3>3, WritesKeep DEF Base
    <3> QED BY <3>4, <3>5
  <2>3. CASE Blocks(c, w) BY <1>1, <2>3, BlocksKeep DEF Base
  <2>4. CASE Ends(c) /\ UNCHANGED <<rec, fresh>> BY <2>4, SameKeep, EndsMoves DEF Base
  <2> QED BY <2>2, <2>3, <2>4 DEF DriveRepair
<1>4. Around(c) BY <1>1, <1>3 DEF Base, TypeOK, Around, DriveRepair, Pauses
<1>5. Claims BY DEF Base, TypeOK, Claims, DriveRepair
<1> QED BY <1>3, <1>4, <1>5 DEF Quiet, Lands, Idle

\* DriveMembers is quiet.
LEMMA DriveMembersQuiet ==
  ASSUME Base, NEW c \in Coords, DriveMembers(c)
  PROVE  /\ Quiet(c) /\ Lands(c)
         /\ at'[c] \in {Idle, [pc |-> "promote", wave |-> at[c].wave]}
<1> DEFINE w == at[c].wave
<1>1. c \in live /\ w \in Waves BY Place DEF Base, DriveMembers, DriveOn, Points
<1>2. Exists(w) => rec[w] \in Record BY <1>1, IsRecord DEF Base
<1>3. /\ Kept /\ Moves(c) /\ fresh' \subseteq fresh
      /\ at'[c] \in {Idle, [pc |-> "promote", wave |-> w]}
  <2>1. Exists(w) BY DEF DriveMembers, DriveOn, Mine
  <2>2. CASE Writes(w, [rec[w] EXCEPT !.state = "integrating"]) /\ Goes(c, "promote", w)
    <3>1. LET q == [rec[w] EXCEPT !.state = "integrating"]
          IN  q \in Record /\ q.owner = rec[w].owner
      BY <1>2, <2>1 DEF Record
    <3>2. Moves(c) /\ at'[c] = [pc |-> "promote", wave |-> w]
      BY <1>1, <2>2, GoesMoves DEF Base, Points
    <3>3. Kept /\ fresh' \subseteq fresh BY <1>1, <2>1, <2>2, <3>1, WritesKeep DEF Base
    <3> QED BY <3>2, <3>3
  <2>3. CASE Blocks(c, w) BY <1>1, <2>3, BlocksKeep DEF Base
  <2>4. CASE Ends(c) /\ UNCHANGED <<rec, fresh>> BY <2>4, SameKeep, EndsMoves DEF Base
  <2> QED BY <2>2, <2>3, <2>4 DEF DriveMembers
<1>4. Around(c) BY <1>1, <1>3 DEF Base, TypeOK, Around, DriveMembers
<1>5. Claims BY DEF Base, TypeOK, Claims, DriveMembers
<1> QED BY <1>3, <1>4, <1>5 DEF Quiet, Lands, Idle

\* Promote is quiet.
LEMMA PromoteQuiet ==
  ASSUME Base, NEW c \in Coords, Promote(c)
  PROVE  /\ Quiet(c) /\ Lands(c)
         /\ at'[c] \in {Idle, [pc |-> "drive", wave |-> at[c].wave],
                       [pc |-> "record", wave |-> at[c].wave]}
<1> DEFINE w == at[c].wave
<1>1. c \in live /\ w \in Waves BY Place DEF Base, Promote, DriveOn, Points
<1>2. Exists(w) => rec[w] \in Record BY <1>1, IsRecord DEF Base
<1>3. /\ Kept /\ Moves(c) /\ fresh' \subseteq fresh
      /\ at'[c] \in {Idle, [pc |-> "drive", wave |-> w], [pc |-> "record", wave |-> w]}
  <2>1. CASE Goes(c, "record", w) /\ UNCHANGED <<rec, fresh>>
    <3>1. Moves(c) /\ at'[c] = [pc |-> "record", wave |-> w]
      BY <1>1, <2>1, GoesMoves DEF Base, Points
    <3>2. Kept /\ fresh' \subseteq fresh BY <2>1, SameKeep DEF Base
    <3> QED BY <3>1, <3>2
  <2>2. CASE Ends(c) /\ UNCHANGED <<rec, fresh>> BY <2>2, SameKeep, EndsMoves DEF Base
  <2>3. CASE Blocks(c, w) BY <1>1, <2>3, BlocksKeep DEF Base
  <2>4. CASE Patches(c, w, [rec[w] EXCEPT !.repair = "open", !.state = "repairing"], "drive")
    <3>1. PICK r : /\ Patches(c, w, r, "drive")
                   /\ Exists(w) => r \in Record /\ r.owner = rec[w].owner
      <4>1. LET q == [rec[w] EXCEPT !.repair = "open", !.state = "repairing"]
            IN  Exists(w) => q \in Record /\ q.owner = rec[w].owner
        BY <1>2 DEF Record
      <4> QED BY <2>4, <4>1, Zenon
    <3> QED BY <1>1, <3>1, PatchesKeep DEF Base, Points
  <2> QED BY <2>1, <2>2, <2>3, <2>4 DEF Promote
<1>4. Around(c) BY <1>1, <1>3 DEF Base, TypeOK, Around, Promote, Pauses, Waves
<1>5. Claims BY DEF Base, TypeOK, Claims, Promote
<1>6. at'[c] = [pc |-> "record", wave |-> w] => head' = w
  BY <1>1, BlocksKeep, PatchesKeep, EndsMoves DEF Base, Promote, Patches, Ends, Goes, TypeOK, Idle
<1> QED BY <1>1, <1>3, <1>4, <1>5, <1>6 DEF Quiet, Lands, Idle, Waves

\* RecordIntegrated is quiet.
LEMMA RecordIntegratedQuiet ==
  ASSUME Base, NEW c \in Coords, RecordIntegrated(c)
  PROVE  /\ Quiet(c) /\ Lands(c)
         /\ at'[c] \in {Idle, [pc |-> "reconcile", wave |-> at[c].wave]}
<1> DEFINE w == at[c].wave
<1>1. c \in live /\ w \in Waves BY Place DEF Base, RecordIntegrated, DriveOn, Points
<1>2. Exists(w) => rec[w] \in Record BY <1>1, IsRecord DEF Base
<1>3. /\ Kept /\ Moves(c) /\ fresh' \subseteq fresh
      /\ at'[c] \in {Idle, [pc |-> "reconcile", wave |-> w]}
  <2>1. LET q == [rec[w] EXCEPT !.state = "integrated"]
        IN  Exists(w) => q \in Record /\ q.owner = rec[w].owner
    BY <1>2 DEF Record, Stopped
  <2> QED BY <1>1, <2>1, PatchesKeep DEF Base, RecordIntegrated, Points
<1>4. Around(c) BY <1>1, <1>3 DEF Base, TypeOK, Around, RecordIntegrated
<1>5. Claims BY DEF Base, TypeOK, Claims, RecordIntegrated
<1>6. head' >= w BY Place DEF Base, Done, RecordIntegrated, Points
<1> QED BY <1>3, <1>4, <1>5, <1>6 DEF Quiet, Lands, Idle

\* Reconcile is quiet.
LEMMA ReconcileQuiet ==
  ASSUME Base, NEW c \in Coords, Reconcile(c)
  PROVE  /\ Quiet(c) /\ Lands(c)
         /\ at'[c] \in {Idle, [pc |-> "release", wave |-> at[c].wave]}
<1> DEFINE w == at[c].wave
<1>1. c \in live /\ w \in Waves BY Place DEF Base, Reconcile, DriveOn, Points
<1>2. Exists(w) => rec[w] \in Record BY <1>1, IsRecord DEF Base
<1>3. /\ Kept /\ Moves(c) /\ fresh' \subseteq fresh
      /\ at'[c] \in {Idle, [pc |-> "release", wave |-> w]}
  <2>1. CASE Goes(c, "release", w) /\ UNCHANGED <<rec, fresh>>
    <3>1. Moves(c) /\ at'[c] = [pc |-> "release", wave |-> w]
      BY <1>1, <2>1, GoesMoves DEF Base, Points
    <3>2. Kept /\ fresh' \subseteq fresh BY <2>1, SameKeep DEF Base
    <3> QED BY <3>1, <3>2
  <2>2. CASE Blocks(c, w) BY <1>1, <2>2, BlocksKeep DEF Base
  <2> QED BY <2>1, <2>2 DEF Reconcile
<1>4. Around(c) BY <1>1, <1>3 DEF Base, TypeOK, Around, Reconcile
<1>5. Claims BY DEF Base, TypeOK, Claims, Reconcile
<1>6. head' >= w BY Place DEF Base, Done, Reconcile, Points
<1> QED BY <1>3, <1>4, <1>5, <1>6 DEF Quiet, Lands, Idle

\* ContinueOpens is quiet.
LEMMA ContinueOpensQuiet ==
  ASSUME Base, NEW c \in Coords, ContinueOpens(c)
  PROVE  /\ Quiet(c) /\ Lands(c)
         /\ at'[c] \in {Idle, [pc |-> "inherit", wave |-> at[c].wave]}
<1> DEFINE w == at[c].wave
<1>1. c \in live /\ w \in Waves BY Place DEF Base, ContinueOpens, DriveOn, Points
<1>2. Exists(w) => rec[w] \in Record BY <1>1, IsRecord DEF Base
<1>3. /\ Kept /\ Moves(c) /\ fresh' \subseteq fresh
      /\ at'[c] \in {Idle, [pc |-> "inherit", wave |-> w]}
  <2>1. Exists(w) => rec[w] \in Record /\ rec[w].owner = rec[w].owner BY <1>2
  <2> QED BY <1>1, <2>1, PatchesKeep DEF Base, ContinueOpens, Points
<1>4. Around(c) BY <1>1, <1>3 DEF Base, TypeOK, Around, ContinueOpens
<1>5. Claims BY DEF Base, TypeOK, Claims, ContinueOpens
<1>6. w < N BY DEF ContinueOpens, MayContinue
<1> QED BY <1>3, <1>4, <1>5, <1>6 DEF Quiet, Lands, Idle

\* StartupOpens is quiet.
LEMMA StartupOpensQuiet == ASSUME Base, NEW c \in Coords, StartupOpens(c) PROVE Quiet(c) /\ Lands(c)
<1>1. 1 \in Waves BY DEF Waves
<1>2. Kept BY SameKeep DEF Base, StartupOpens
<1>3. Moves(c) /\ at'[c] = [pc |-> "write", wave |-> 1]
  BY <1>1, GoesMoves DEF Base, StartupOpens, Points
<1>4. Around(c) BY DEF Base, TypeOK, Around, StartupOpens, Serves, Free
<1>5. Claims /\ claim' # None BY DEF Base, Claims, StartupOpens
<1> QED BY <1>2, <1>3, <1>4, <1>5 DEF Quiet, Lands

\* Rebind is quiet.
LEMMA RebindQuiet == ASSUME Base, NEW c \in Coords, Rebind(c) PROVE Quiet(c) /\ Lands(c)
<1> DEFINE w == at[c].wave
<1>1. c \in live /\ w \in Waves BY Place DEF Base, Rebind, DriveOn, Points
<1>2. Exists(w) => rec[w] \in Record BY <1>1, IsRecord DEF Base
<1>3. /\ Kept /\ Moves(c) /\ fresh' \subseteq fresh
      /\ at'[c] \in {[pc |-> "adopt", wave |-> w]}
  <2>1. Moves(c) /\ at'[c] = [pc |-> "adopt", wave |-> w]
    BY <1>1, GoesMoves DEF Base, Rebind, Points
  <2>2. Kept /\ fresh' \subseteq fresh BY SameKeep DEF Base, Rebind
  <2> QED BY <2>1, <2>2
<1>4. Around(c) BY <1>1, <1>3 DEF Base, TypeOK, Around, Rebind
<1>5. Claims BY DEF Base, TypeOK, Claims, Rebind
<1>6. Exists(w) BY DEF Base, Sane, Rebind, Stands
<1> QED BY <1>3, <1>4, <1>5, <1>6 DEF Quiet, Lands, Exists

--------------------------------------------------------------------------------
\* The steps that are not quiet.

\* Begin preserves the base.
LEMMA BeginBase == ASSUME Base, NEW c \in Coords, Begin(c) PROVE Base'
<1>1. TypeOK' BY DEF Base, TypeOK, Begin
<1>2. Sane' BY DEF Base, TypeOK, Sane, Begin, Exists
<1>3. Claimed' BY DEF Base, Claimed, Begin, Exists
<1>4. Done' BY DEF Base, Done, Begin
<1> QED BY <1>1, <1>2, <1>3, <1>4 DEF Base

\* Crash preserves the base.
LEMMA CrashBase == ASSUME Base, NEW c \in Coords, Crash(c) PROVE Base'
<1>1. Moves(c) /\ at'[c] = Idle BY EndsMoves DEF Base, Crash
<1>2. TypeOK'
  <2>1. stray' \in BOOLEAN BY DEF Crash, Base, TypeOK
  <2> QED BY <1>1, <2>1 DEF Base, TypeOK, Crash, Moves
<1>3. Sane' BY <1>1 DEF Base, TypeOK, Sane, Crash, Exists, Moves, Idle
<1>4. Claimed' BY <1>1 DEF Base, Claimed, Crash, Exists, Moves, Idle
<1>5. Done' BY <1>1 DEF Base, Done, Crash, Moves, Idle
<1> QED BY <1>2, <1>3, <1>4, <1>5 DEF Base

\* Open preserves the base: the new record is owned by a process that ran.
LEMMA OpenBase == ASSUME Base, NEW c \in Coords, Open(c) PROVE Base'
<1> DEFINE w == at[c].wave
<1>1. c \in live /\ w \in Waves /\ at[c].pc = "write" BY Place DEF Base, Open, Points
<1>2. Moves(c) /\ at'[c] = Idle BY EndsMoves DEF Base, Open
<1>3. NewRecord(c) \in Record /\ NewRecord(c).owner = c BY DEF NewRecord, Record
<1>4. rec' = [rec EXCEPT ![w] = NewRecord(c)] /\ fresh' \subseteq fresh BY DEF Open, Writes
<1>5. TypeOK' BY <1>1, <1>2, <1>3, <1>4 DEF Base, TypeOK, Open, Moves, Loads
<1>6. Sane' BY <1>1, <1>2, <1>3, <1>4 DEF Base, TypeOK, Sane, Open, Exists, Moves, Idle
<1>7. Claimed' BY <1>1, <1>2, <1>3, <1>4 DEF Base, TypeOK, Claimed, Open, Exists, Moves, Idle
<1>8. Done' BY <1>2 DEF Base, Done, Open, Moves, Idle
<1> QED BY <1>5, <1>6, <1>7, <1>8 DEF Base

\* Adopt preserves the base: what changes hands goes to a process that ran.
LEMMA AdoptBase == ASSUME Base, NEW c \in Coords, Adopt(c) PROVE Base'
<1> DEFINE w == at[c].wave
<1>1. c \in live /\ w \in Waves /\ at[c].pc = "adopt" BY Place DEF Base, Adopt, Points
<1>2. Exists(w) BY <1>1 DEF Base, Sane
<1>3. rec[w] \in Record BY <1>1, <1>2, IsRecord DEF Base
<1>4. CASE c \in fresh
  <2>1. PICK r \in Record : r = [rec[w] EXCEPT !.owner = c] /\ r.owner = c
    <3>1. [rec[w] EXCEPT !.owner = c] \in Record /\ [rec[w] EXCEPT !.owner = c].owner = c
      BY <1>3 DEF Record
    <3> QED BY <3>1, Zenon
  <2>2. rec' = [rec EXCEPT ![w] = r] /\ fresh' \subseteq fresh
    BY <1>4, <2>1 DEF Adopt, Writes
  <2>3. PICK p \in {"drive", "resume"} : Goes(c, p, w) BY <1>4 DEF Adopt
  <2>4. Moves(c) /\ at'[c] = [pc |-> p, wave |-> w]
    BY <1>1, <2>3, GoesMoves DEF Base, Points
  <2>5. loaded' \in [Coords -> SUBSET Waves]
    BY <1>1, <1>4 DEF Adopt, Loads, Base, TypeOK
  <2>6. TypeOK' BY <1>1, <1>4, <2>1, <2>2, <2>4, <2>5 DEF Base, TypeOK, Adopt, Moves
  <2>7. Sane'
    BY <1>1, <1>2, <1>4, <2>1, <2>2, <2>4 DEF Base, TypeOK, Sane, Adopt, Exists, Moves, Idle
  <2>8. Claimed'
    BY <1>1, <1>2, <1>4, <2>1, <2>2, <2>4 DEF Base, TypeOK, Claimed, Adopt, Exists, Moves
  <2>9. Done' BY <1>4, <2>4 DEF Base, Done, Adopt, Moves
  <2> QED BY <2>6, <2>7, <2>8, <2>9 DEF Base
<1>5. CASE c \notin fresh
  <2>1. Moves(c) /\ at'[c] = Idle BY <1>5, EndsMoves DEF Base, Adopt
  <2>2. stray' \in BOOLEAN BY <1>5 DEF Adopt, Base, TypeOK
  <2>3. Kept BY <1>5, SameKeep DEF Base, Adopt
  <2>4. Around(c) BY <1>1, <1>5, <2>2 DEF Base, TypeOK, Around, Adopt
  <2>5. Claims BY DEF Base, TypeOK, Claims, Adopt
  <2>6. Quiet(c) /\ Lands(c) BY <2>1, <2>3, <2>4, <2>5 DEF Quiet, Lands, Idle
  <2> QED BY <2>6, QuietBase
<1> QED BY <1>4, <1>5

\* Release preserves the base: the claim is given back by the last wave, and by
\* then every wave has been promoted.
LEMMA ReleaseBase == ASSUME Base, NEW c \in Coords, Release(c) PROVE Base'
<1> DEFINE w == at[c].wave
<1>1. c \in live /\ w \in Waves /\ at[c].pc = "release" BY Place DEF Base, Release, Points
<1>2. /\ Kept /\ Moves(c) /\ fresh' \subseteq fresh
      /\ at'[c] \in {Idle, [pc |-> "continue", wave |-> w]}
  <2>1. CASE Goes(c, "continue", w) /\ UNCHANGED <<rec, fresh>>
    <3>1. Moves(c) /\ at'[c] = [pc |-> "continue", wave |-> w]
      BY <1>1, <2>1, GoesMoves DEF Base, Points
    <3> QED BY <2>1, <3>1, SameKeep DEF Base
  <2>2. CASE Blocks(c, w) BY <1>1, <2>2, BlocksKeep DEF Base
  <2> QED BY <2>1, <2>2 DEF Release
<1>3. claim' = claim \/ (w = N /\ claim' = None) BY DEF Release
<1>4. w = N => head' = N BY <1>1 DEF Base, Done, TypeOK, Release
<1>5. TypeOK' BY <1>2, <1>3 DEF Base, TypeOK, Release, Kept, Moves
<1>6. Sane' BY <1>1, <1>2 DEF Base, TypeOK, Sane, Release, Kept, Exists, Moves, Idle
<1>7. Claimed' BY <1>2, <1>3, <1>4 DEF Base, Claimed, Release, Kept, Exists, Moves, Idle
<1>8. Done' BY <1>2 DEF Base, Done, Release, Moves, Idle
<1> QED BY <1>5, <1>6, <1>7, <1>8 DEF Base

\* Every step preserves the base.
LEMMA BaseStep == ASSUME Base, [Next]_vars PROVE Base'
<1>1. CASE UNCHANGED vars
  BY <1>1 DEF vars, Base, TypeOK, Sane, Claimed, Done, Exists
<1>2. CASE Next
  <2> SUFFICES ASSUME NEW c \in Coords, Begin(c) \/ Crash(c) \/ Works(c) \/ Startup(c)
                                        \/ Asked(c)
               PROVE  Base'
    BY <1>2 DEF Next
  <2>1. CASE Begin(c) BY <2>1, BeginBase
  <2>2. CASE Crash(c) BY <2>2, CrashBase
  <2>3. CASE StartupRecovers(c) BY <2>3, StartupRecoversQuiet, QuietBase
  <2>4. CASE StartupContinues(c) BY <2>4, StartupContinuesQuiet, QuietBase
  <2>5. CASE StartupOpens(c) BY <2>5, StartupOpensQuiet, QuietBase
  <2>6. CASE Open(c) BY <2>6, OpenBase
  <2>7. CASE Recover(c) BY <2>7, RecoverQuiet, QuietBase
  <2>8. CASE Rebind(c) BY <2>8, RebindQuiet, QuietBase
  <2>9. CASE Adopt(c) BY <2>9, AdoptBase
  <2>10. CASE Resume(c) BY <2>10, ResumeQuiet, QuietBase
  <2>11. CASE MemberMoves(c) BY <2>11, MemberMovesQuiet, QuietBase
  <2>12. CASE Recheck(c) BY <2>12, RecheckQuiet, QuietBase
  <2>13. CASE Advance(c) BY <2>13, AdvanceQuiet, QuietBase
  <2>14. CASE Notified(c) BY <2>14, NotifiedQuiet, QuietBase
  <2>15. CASE Cancel(c) BY <2>15, CancelQuiet, QuietBase
  <2>16. CASE Drained(c) BY <2>16, DrainedQuiet, QuietBase
  <2>17. CASE DriveEnds(c) BY <2>17, DriveEndsQuiet, QuietBase
  <2>18. CASE DriveContinues(c) BY <2>18, DriveContinuesQuiet, QuietBase
  <2>19. CASE DriveRepair(c) BY <2>19, DriveRepairQuiet, QuietBase
  <2>20. CASE DriveMembers(c) BY <2>20, DriveMembersQuiet, QuietBase
  <2>21. CASE Promote(c) BY <2>21, PromoteQuiet, QuietBase
  <2>22. CASE RecordIntegrated(c) BY <2>22, RecordIntegratedQuiet, QuietBase
  <2>23. CASE Reconcile(c) BY <2>23, ReconcileQuiet, QuietBase
  <2>24. CASE Release(c) BY <2>24, ReleaseBase
  <2>25. CASE ContinueStops(c) BY <2>25, ContinueStopsQuiet, QuietBase
  <2>26. CASE ContinueWaits(c) BY <2>26, ContinueWaitsQuiet, QuietBase
  <2>27. CASE ContinueLoads(c) BY <2>27, ContinueLoadsQuiet, QuietBase
  <2>28. CASE ContinueOpens(c) BY <2>28, ContinueOpensQuiet, QuietBase
  <2>29. CASE Inherit(c) BY <2>29, InheritQuiet, QuietBase
  <2>30. CASE StartupRefused(c) BY <2>30, StartupRefusedQuiet, QuietBase
  <2> QED BY <2>1, <2>2, <2>3, <2>4, <2>5, <2>6, <2>7, <2>8, <2>9, <2>10, <2>11,
             <2>12, <2>13, <2>14, <2>15, <2>16, <2>17, <2>18, <2>19, <2>20, <2>21,
             <2>22, <2>23, <2>24, <2>25, <2>26, <2>27, <2>28, <2>29, <2>30
          DEF Works, Startup, Asked
<1> QED BY <1>1, <1>2

\* It holds at the start.
LEMMA BaseInit == Init => Base
<1> SUFFICES ASSUME Init PROVE Base OBVIOUS
<1>1. TypeOK
  <2>1. stray \in BOOLEAN /\ borrowed \in BOOLEAN BY DEF Init
  <2>2. at \in [Coords -> {Idle} \cup [pc : Points, wave : Waves]] BY DEF Init
  <2>3. rec \in [Waves -> Record \cup {None}] BY DEF Init
  <2>4. loaded \in [Coords -> SUBSET Waves] BY DEF Init
  <2>5. head \in 0..N /\ pauses \in 0..MaxPauses BY DEF Init
  <2> QED BY <2>1, <2>2, <2>3, <2>4, <2>5 DEF Init, TypeOK
<1>2. Sane BY DEF Init, Sane, Exists, Idle
<1>3. Claimed BY DEF Init, Claimed, Exists, Idle
<1>4. Done BY DEF Init, Done, Idle
<1> QED BY <1>1, <1>2, <1>3, <1>4 DEF Base

\* The variables keep their types.
THEOREM TypeCorrect == Spec => []TypeOK
<1>1. Base => TypeOK BY DEF Base
<1> QED BY <1>1, BaseInit, BaseStep, PTL DEF Spec

\* A package that was begun stays claimed until its last wave has been promoted,
\* whatever crashes, recoveries and lost races come in between.
THEOREM AlwaysClaimed == Spec => []ClaimKept
<1>1. Base => ClaimKept BY DEF Base, Claimed, ClaimKept
<1> QED BY <1>1, BaseInit, BaseStep, PTL DEF Spec

--------------------------------------------------------------------------------
\* The order.

\* Two processes that live and own the same wave, or write to it, are one.
LEMMA OneWriter ==
  ASSUME Base, NEW c \in live, NEW d \in live, NEW w \in Waves, Mine(c, w), Mine(d, w)
  PROVE  c = d
  BY DEF Base, Sane, Mine

\* Owning a wave is one way to write to it.
LEMMA OwnedMine == ASSUME NEW c \in Coords, NEW w \in Waves, Owned(c, w) PROVE Mine(c, w)
  BY DEF Owned, Mine

\* What a process stands on survives a gentle step of another one.
LEMMA PointKept ==
  ASSUME Base, Ordered, NEW c \in Coords, NEW d \in Coords, d # c, d \in live,
         Kept, Around(c), Gentle(c), NEW p \in Points, NEW w \in Waves, Point(d, p, w),
         p \in {"rebind", "adopt"} => Exists(w), p = "inherit" => w < N
  PROVE  Point(d, p, w)'
<1>1. ASSUME NEW v \in Waves, Owned(d, v)
      PROVE  rec'[v] = rec[v] /\ rec[v] # None /\ rec[v].owner = d
  <2>1. rec[v] # None /\ rec[v].owner = d BY <1>1 DEF Owned, Exists
  <2>2. rec'[v] = rec[v] BY <1>1, OneWriter, OwnedMine DEF Gentle, Around
  <2> QED BY <2>1, <2>2
<1>2. head' >= head /\ live' = live /\ head' \in Nat /\ head \in Nat
  BY DEF Around, Base, TypeOK
<1>3. \A v \in Waves : rec'[v] = None <=> rec[v] = None BY DEF Kept
<1>4. (p \in {"rebind", "adopt"} /\ d \in fresh => Dead(w))'
  BY <1>2 DEF Point, Dead, Kept, Around, Exists
<1>5. (p \in Driving => Owned(d, w))' BY <1>1 DEF Point, Owned, Exists
<1>6. (p = "resume" => ~ In(w, {"integrated"}))' BY <1>1 DEF Point, In, Exists, Driving
<1>7. (p \in {"promote", "record"} => rec[w].state = "integrating" /\ rec[w].members = "sealed")'
  BY <1>1 DEF Point, Driving
<1>8. (p \in {"reconcile", "release"} => \A v \in Waves : v > w => ~ Exists(v))'
  BY <1>3 DEF Point, Exists
<1>9. (p = "inherit" => In(w, {"integrated"}) /\ head >= w /\ ~ Exists(w + 1))'
  <2> SUFFICES ASSUME p = "inherit"
               PROVE  (In(w, {"integrated"}) /\ head >= w /\ ~ Exists(w + 1))'
    OBVIOUS
  <2>1. Owned(d, w) /\ In(w, {"integrated"}) /\ head >= w /\ ~ Exists(w + 1)
    BY DEF Point, Driving
  <2>2. In(w, {"integrated"})' BY <1>1, <2>1 DEF In, Exists
  <2>3. (head >= w)' BY <1>2, <2>1 DEF Waves
  <2>4. w + 1 \in Waves BY DEF Waves
  <2>5. (~ Exists(w + 1))' BY <1>3, <2>1, <2>4 DEF Exists
  <2> QED BY <2>2, <2>3, <2>5
<1>10. (p = "drain" => ~ (Mine(d, w) /\ In(w, {"integrated"})))'
  <2>1. CASE rec'[w] = rec[w] BY <2>1 DEF Point, Mine, In, Exists
  <2>2. CASE rec'[w] # rec[w]
    <3>1. Mine(c, w) BY <2>2 DEF Gentle
    <3>2. ~ Mine(d, w) BY <3>1, OneWriter DEF Around
    <3> QED BY <3>2 DEF Mine, Kept, Exists
  <2> QED BY <2>1, <2>2
<1>11. (p = "write" => MayWrite(d, w))'
  <2> SUFFICES ASSUME p = "write" PROVE MayWrite(d, w)'
    OBVIOUS
  <2>1. MayWrite(d, w) BY DEF Point
  <2>2. CASE w = 1 /\ claim = d /\ \A v \in Waves : ~ Exists(v)
    <3>1. claim' = claim BY <2>2 DEF Gentle
    <3> QED BY <1>3, <2>2, <3>1 DEF MayWrite, Exists
  <2>3. CASE /\ w > 1 /\ Owned(d, w - 1) /\ In(w - 1, {"integrated"}) /\ head >= w - 1
             /\ ~ Exists(w)
    <3>1. w - 1 \in Waves BY <2>3 DEF Waves
    <3>2. rec'[w - 1] = rec[w - 1] BY <1>1, <2>3, <3>1
    <3>3. Owned(d, w - 1)' /\ In(w - 1, {"integrated"})' BY <2>3, <3>2 DEF Owned, In, Exists
    <3>4. (head >= w - 1)' BY <1>2, <2>3 DEF Waves
    <3>5. ~ Exists(w)' BY <1>3, <2>3 DEF Exists
    <3> QED BY <2>3, <3>3, <3>4, <3>5 DEF MayWrite
  <2> QED BY <2>1, <2>2, <2>3 DEF MayWrite
<1> QED BY <1>4, <1>5, <1>6, <1>7, <1>8, <1>9, <1>10, <1>11 DEF Point

\* Gentle steps keep the order.
LEMMA GentleOrdered ==
  ASSUME Base, Ordered, NEW c \in Coords, Kept, Moves(c), Around(c), Gentle(c), Shows(c)
  PROVE  Ordered'
<1>1. Prefix'
  <2> SUFFICES ASSUME NEW w \in Waves, NEW v \in Waves, v < w, rec'[w] # None
               PROVE  rec'[v] # None /\ rec'[v].state = "integrated" /\ head' >= v
    BY DEF Prefix, In, Exists
  <2>1. Exists(w) BY DEF Kept, Exists
  <2>2. In(v, {"integrated"}) /\ head >= v BY <2>1 DEF Ordered, Prefix
  <2>3. rec'[v] # None BY <2>2 DEF Kept, In, Exists
  <2>4. rec'[v].state = "integrated" BY <2>1, <2>2 DEF Gentle, In, Waves
  <2>5. head' >= v BY <2>2 DEF Around, Waves, Base, TypeOK
  <2> QED BY <2>3, <2>4, <2>5
<1>2. Sealed'
  <2> SUFFICES ASSUME NEW w \in Waves, rec'[w] # None, rec'[w].state = "integrated"
               PROVE  rec'[w].members = "sealed"
    BY DEF Sealed, In, Exists
  <2>1. CASE rec'[w] = rec[w] BY <2>1 DEF Ordered, Sealed, In, Exists
  <2>2. CASE rec'[w] # rec[w] BY <2>2 DEF Gentle
  <2> QED BY <2>1, <2>2
<1>3. Loaded'
  <2> SUFFICES ASSUME NEW d \in Coords, NEW w \in loaded'[d]
               PROVE  d \in live' /\ rec'[w] # None /\ rec'[w].owner = d
    BY DEF Loaded, Exists
  <2>1. CASE d = c BY <2>1 DEF Shows, Around
  <2>2. CASE d # c
    <3>1. w \in loaded[d] /\ w \in Waves BY <2>2 DEF Shows, Base, TypeOK
    <3>2. d \in live /\ Exists(w) /\ rec[w].owner = d BY <3>1 DEF Ordered, Loaded
    <3> QED BY <3>1, <3>2 DEF Kept, Around, Exists
  <2> QED BY <2>1, <2>2
<1>4. Standing'
  <2> SUFFICES ASSUME NEW d \in Coords, at'[d] # Idle
               PROVE  Point(d, at[d].pc, at[d].wave)'
    BY DEF Standing
  <2>1. PICK p \in Points, w \in Waves : at'[d] = [pc |-> p, wave |-> w] BY DEF Moves
  <2>2. Point(d, p, w)'
    <3>1. CASE d = c BY <2>1, <3>1 DEF Shows
    <3>2. CASE d # c
      <4>1. at[d] = [pc |-> p, wave |-> w] BY <2>1, <3>2 DEF Moves
      <4>2. d \in live /\ Point(d, p, w)
        BY <2>1, <4>1 DEF Ordered, Standing, Base, Sane, Idle, Points
      <4>3. p \in {"rebind", "adopt"} => Exists(w) BY <4>1 DEF Base, Sane
      <4>4. p = "inherit" => w < N BY <4>1 DEF Base, Sane
      <4> QED BY <3>2, <4>2, <4>3, <4>4, PointKept
    <3> QED BY <3>1, <3>2
  <2>3. at'[d].pc = p /\ at'[d].wave = w BY <2>1
  <2> QED BY <2>2, <2>3
<1> QED BY <1>1, <1>2, <1>3, <1>4 DEF Ordered

\* Nothing is asked of a process that ends its operation and loads nothing.
LEMMA IdleShows ==
  ASSUME Base, Ordered, NEW c \in Coords, Kept, at'[c] = Idle, loaded' = loaded
  PROVE  Shows(c)
<1>1. \A w \in loaded[c] : w \in Waves /\ Exists(w) /\ rec[w].owner = c
  BY DEF Ordered, Loaded, Base, TypeOK
<1> QED BY <1>1 DEF Shows, Idle, Points, Kept, Exists

\* One that goes on shows what its next step stands on.
LEMMA OneShows ==
  ASSUME Base, Ordered, NEW c \in Coords, Kept, NEW p \in Points, NEW w \in Waves,
         at'[c] = [pc |-> p, wave |-> w], Point(c, p, w)',
         loaded' = loaded \/ \E v \in Waves : Owned(c, v) /\ Loads(c, v)
  PROVE  Shows(c)
<1>1. \A u \in loaded[c] : u \in Waves /\ Exists(u) /\ rec[u].owner = c
  BY DEF Ordered, Loaded, Base, TypeOK
<1>2. \A q \in Points, u \in Waves : at'[c] = [pc |-> q, wave |-> u] => Point(c, q, u)'
  <2> SUFFICES ASSUME NEW q \in Points, NEW u \in Waves, at'[c] = [pc |-> q, wave |-> u]
               PROVE  Point(c, q, u)'
    OBVIOUS
  <2>1. q = p /\ u = w OBVIOUS
  <2> QED BY <2>1
<1>3. \A u \in loaded'[c] : u \in Waves /\ Exists(u) /\ rec[u].owner = c
  BY <1>1 DEF Owned, Loads, Base, TypeOK
<1>4. \A d \in Coords : d # c => loaded'[d] = loaded[d] BY DEF Loads, Base, TypeOK
<1> QED BY <1>2, <1>3, <1>4 DEF Shows, Kept, Exists

\* DriveEnds keeps the order.
LEMMA DriveEndsOrdered ==
  ASSUME Base, Ordered, NEW c \in Coords, DriveEnds(c)
  PROVE  Ordered'
<1>1. Quiet(c) /\ Lands(c) BY DriveEndsQuiet
<1>2. Gentle(c) BY DEF DriveEnds, Gentle
<1>3. Shows(c)
  <2>1. at'[c] = Idle BY EndsMoves DEF Base, DriveEnds
  <2> QED BY <1>1, <2>1, IdleShows DEF DriveEnds, Quiet
<1> QED BY <1>1, <1>2, <1>3, GentleOrdered DEF Quiet

\* ContinueStops keeps the order.
LEMMA ContinueStopsOrdered ==
  ASSUME Base, Ordered, NEW c \in Coords, ContinueStops(c)
  PROVE  Ordered'
<1>1. Quiet(c) /\ Lands(c) BY ContinueStopsQuiet
<1>2. Gentle(c) BY DEF ContinueStops, Gentle
<1>3. Shows(c)
  <2>1. at'[c] = Idle BY EndsMoves DEF Base, ContinueStops
  <2> QED BY <1>1, <2>1, IdleShows DEF ContinueStops, Quiet
<1> QED BY <1>1, <1>2, <1>3, GentleOrdered DEF Quiet

\* ContinueWaits keeps the order.
LEMMA ContinueWaitsOrdered ==
  ASSUME Base, Ordered, NEW c \in Coords, ContinueWaits(c)
  PROVE  Ordered'
<1>1. Quiet(c) /\ Lands(c) BY ContinueWaitsQuiet
<1>2. Gentle(c) BY DEF ContinueWaits, Gentle
<1>3. Shows(c)
  <2>1. at'[c] = Idle BY EndsMoves DEF Base, ContinueWaits
  <2> QED BY <1>1, <2>1, IdleShows DEF ContinueWaits, Quiet
<1> QED BY <1>1, <1>2, <1>3, GentleOrdered DEF Quiet

\* StartupRecovers keeps the order.
LEMMA StartupRecoversOrdered ==
  ASSUME Base, Ordered, NEW c \in Coords, StartupRecovers(c)
  PROVE  Ordered'
<1>1. Quiet(c) /\ Lands(c) BY StartupRecoversQuiet
<1>2. Gentle(c) BY DEF StartupRecovers, Gentle
<1>3. Shows(c)
  <2>1. PICK v \in Waves : Dead(v) /\ Goes(c, "rebind", v) BY DEF StartupRecovers
  <2>2. at'[c] = [pc |-> "rebind", wave |-> v] BY <2>1, GoesMoves DEF Base, Points
  <2>3. Point(c, "rebind", v)' BY <2>1 DEF Point, Driving, Dead, StartupRecovers, Serves
  <2>4. loaded' = loaded BY DEF StartupRecovers
  <2> QED BY <1>1, <2>2, <2>3, <2>4, OneShows DEF Quiet, Points
<1> QED BY <1>1, <1>2, <1>3, GentleOrdered DEF Quiet

\* StartupRefused keeps the order.
LEMMA StartupRefusedOrdered ==
  ASSUME Base, Ordered, NEW c \in Coords, StartupRefused(c)
  PROVE  Ordered'
<1>1. Quiet(c) /\ Lands(c) /\ at'[c] = Idle BY StartupRefusedQuiet
<1>2. Gentle(c) BY DEF StartupRefused, Gentle
<1>3. Shows(c) BY <1>1, IdleShows DEF StartupRefused, Quiet
<1> QED BY <1>1, <1>2, <1>3, GentleOrdered DEF Quiet

\* Recover keeps the order.
LEMMA RecoverOrdered ==
  ASSUME Base, Ordered, NEW c \in Coords, Recover(c)
  PROVE  Ordered'
<1>1. Quiet(c) /\ Lands(c) BY RecoverQuiet
<1>2. Gentle(c) BY DEF Recover, Gentle
<1>3. Shows(c)
  <2>1. PICK v \in Waves : Dead(v) /\ Goes(c, "rebind", v) BY DEF Recover
  <2>2. at'[c] = [pc |-> "rebind", wave |-> v] BY <2>1, GoesMoves DEF Base, Points
  <2>3. Point(c, "rebind", v)' BY <2>1 DEF Point, Driving, Dead, Recover
  <2>4. loaded' = loaded BY DEF Recover
  <2> QED BY <1>1, <2>2, <2>3, <2>4, OneShows DEF Quiet, Points
<1> QED BY <1>1, <1>2, <1>3, GentleOrdered DEF Quiet

\* StartupContinues keeps the order.
LEMMA StartupContinuesOrdered ==
  ASSUME Base, Ordered, NEW c \in Coords, StartupContinues(c)
  PROVE  Ordered'
<1>1. Quiet(c) /\ Lands(c) BY StartupContinuesQuiet
<1>2. Gentle(c) BY DEF StartupContinues, Gentle
<1>3. Shows(c)
  <2>1. PICK v \in Waves : Found(c) = {v} /\ rec[v].owner = c /\ Loads(c, v) /\ Goes(c, "drive", v)
    BY DEF StartupContinues
  <2>2. at'[c] = [pc |-> "drive", wave |-> v] BY <2>1, GoesMoves DEF Base, Points
  <2>3. Owned(c, v) BY <2>1, FoundExists DEF Owned, Base
  <2>4. Point(c, "drive", v)' BY <2>3 DEF Point, Driving, Owned, Exists, StartupContinues
  <2> QED BY <1>1, <2>1, <2>2, <2>3, <2>4, OneShows DEF Quiet, Points
<1> QED BY <1>1, <1>2, <1>3, GentleOrdered DEF Quiet

\* StartupOpens keeps the order.
LEMMA StartupOpensOrdered ==
  ASSUME Base, Ordered, NEW c \in Coords, StartupOpens(c)
  PROVE  Ordered'
<1>1. Quiet(c) /\ Lands(c) BY StartupOpensQuiet
<1>2. Gentle(c) BY DEF StartupOpens, Gentle
<1>3. Shows(c)
  <2>1. 1 \in Waves /\ 0 < N BY DEF Waves
  <2>2. at'[c] = [pc |-> "write", wave |-> 1]
    BY <2>1, GoesMoves DEF StartupOpens, Base, Points
  <2>3. \A v \in Waves : ~ Exists(v) BY <2>1 DEF StartupOpens, Base, Claimed
  <2>4. Point(c, "write", 1)' BY <2>3 DEF Point, Driving, MayWrite, Exists, StartupOpens
  <2>5. loaded' = loaded BY DEF StartupOpens
  <2> QED BY <1>1, <2>1, <2>2, <2>4, <2>5, OneShows DEF Quiet, Points
<1> QED BY <1>1, <1>2, <1>3, GentleOrdered DEF Quiet

\* Rebind keeps the order.
LEMMA RebindOrdered ==
  ASSUME Base, Ordered, NEW c \in Coords, Rebind(c)
  PROVE  Ordered'
<1>1. PICK w \in Waves :
        /\ w = at[c].wave /\ c \in live /\ at[c].pc = "rebind"
        /\ Point(c, "rebind", w)
  BY Place DEF Base, Ordered, Standing, Rebind, DriveOn, Points, Idle
<1>2. Quiet(c) /\ Lands(c) BY RebindQuiet
<1>3. Gentle(c) BY <1>1 DEF Rebind, Gentle, Base, Sane
<1>4. Shows(c)
  <2>1. at'[c] = [pc |-> "adopt", wave |-> w] BY <1>1, GoesMoves DEF Rebind, Base, Points
  <2>2. Point(c, "adopt", w)' BY <1>1 DEF Point, Driving, Dead, Rebind
  <2>3. loaded' = loaded BY DEF Rebind
  <2> QED BY <1>1, <1>2, <2>1, <2>2, <2>3, OneShows DEF Quiet, Points
<1> QED BY <1>2, <1>3, <1>4, GentleOrdered DEF Quiet

\* DriveContinues keeps the order.
LEMMA DriveContinuesOrdered ==
  ASSUME Base, Ordered, NEW c \in Coords, DriveContinues(c)
  PROVE  Ordered'
<1>1. PICK w \in Waves : w = at[c].wave /\ c \in live /\ at[c].pc = "drive" /\ Point(c, "drive", w)
  BY Place DEF Base, Ordered, Standing, DriveContinues, DriveOn, Points, Idle
<1>2. Quiet(c) /\ Lands(c) BY DriveContinuesQuiet
<1>3. Gentle(c) BY DEF DriveContinues, Gentle
<1>4. Shows(c)
  <2>1. at'[c] = [pc |-> "continue", wave |-> w]
    BY <1>1, GoesMoves DEF DriveContinues, Base, Points
  <2>2. Point(c, "continue", w)' BY <1>1 DEF Point, Driving, Owned, Exists, DriveContinues
  <2>3. loaded' = loaded BY DEF DriveContinues
  <2> QED BY <1>1, <1>2, <2>1, <2>2, <2>3, OneShows DEF Quiet, Points
<1> QED BY <1>2, <1>3, <1>4, GentleOrdered DEF Quiet

\* Inherit keeps the order.
LEMMA InheritOrdered ==
  ASSUME Base, Ordered, NEW c \in Coords, Inherit(c)
  PROVE  Ordered'
<1>1. PICK w \in Waves :
        /\ w = at[c].wave /\ c \in live /\ at[c].pc = "inherit"
        /\ Point(c, "inherit", w)
  BY Place DEF Base, Ordered, Standing, Inherit, DriveOn, Points, Idle
<1>2. Quiet(c) /\ Lands(c) BY InheritQuiet
<1>3. Gentle(c) BY DEF Inherit, Gentle
<1>4. Shows(c)
  <2>1. CASE Ends(c)
    <3>1. at'[c] = Idle BY <2>1, EndsMoves DEF Base
    <3> QED BY <1>2, <3>1, IdleShows DEF Inherit, Quiet
  <2>2. CASE Goes(c, "write", w + 1)
    <3>1. PICK v \in Waves : v = w + 1 /\ v > 1 /\ v - 1 = w
      BY <1>1 DEF Base, Sane, Waves
    <3>2. at'[c] = [pc |-> "write", wave |-> v]
      BY <2>2, <3>1, GoesMoves DEF Base, Points
    <3>3. MayWrite(c, v) BY <1>1, <3>1 DEF Point, MayWrite, Driving
    <3>4. Point(c, "write", v)'
      BY <3>1, <3>3 DEF Point, Driving, MayWrite, Owned, In, Exists, Inherit
    <3>5. loaded' = loaded BY DEF Inherit
    <3> QED BY <1>2, <3>2, <3>4, <3>5, OneShows DEF Quiet, Points
  <2> QED BY <1>1, <2>1, <2>2 DEF Inherit
<1> QED BY <1>2, <1>3, <1>4, GentleOrdered DEF Quiet

\* ContinueLoads keeps the order.
LEMMA ContinueLoadsOrdered ==
  ASSUME Base, Ordered, NEW c \in Coords, ContinueLoads(c), ~ borrowed'
  PROVE  Ordered'
<1> DEFINE w == at[c].wave
<1>1. Quiet(c) /\ Lands(c) BY ContinueLoadsQuiet
<1>2. Gentle(c) BY DEF ContinueLoads, Gentle
<1>3. Shows(c)
  <2>1. c \in live /\ w \in Waves /\ w < N BY Place DEF ContinueLoads, MayContinue, Base, Points
  <2>2. w + 1 \in Waves BY <2>1 DEF Waves
  <2>3. Ends(c) BY DEF ContinueLoads
  <2>4. at'[c] = Idle BY <2>3, EndsMoves DEF Base
  <2>5. CASE loaded' = loaded BY <1>1, <2>4, <2>5, IdleShows DEF Quiet
  <2>6. CASE Loads(c, w + 1) /\ rec[w + 1].owner = c
    <3>1. Exists(w + 1) BY DEF ContinueLoads
    <3>2. \A u \in loaded[c] : u \in Waves /\ Exists(u) /\ rec[u].owner = c
      BY DEF Ordered, Loaded, Base, TypeOK
    <3>3. \A u \in loaded'[c] : u \in Waves /\ Exists(u) /\ rec[u].owner = c
      BY <2>2, <2>6, <3>1, <3>2 DEF Loads, Base, TypeOK
    <3>4. \A d \in Coords : d # c => loaded'[d] = loaded[d] BY <2>6 DEF Loads, Base, TypeOK
    <3> QED BY <1>1, <2>4, <3>3, <3>4 DEF Shows, Quiet, Kept, Exists, Idle, Points
  <2> QED BY <2>5, <2>6 DEF ContinueLoads
<1> QED BY <1>1, <1>2, <1>3, GentleOrdered DEF Quiet

\* Writing a record is gentle under the conditions of Gentle on that record.
LEMMA GentleWrite ==
  ASSUME Base, NEW c \in Coords, NEW w \in Waves, NEW r, Mine(c, w), Writes(w, r),
         In(w, {"integrated"}) =>
           r.state = "integrated" \/ \A v \in Waves : v > w => ~ Exists(v),
         r.state = "integrated" => r.members = "sealed", claim' = claim
  PROVE  Gentle(c)
  BY DEF Gentle, Writes, Base, TypeOK

\* So is a guarded write.
LEMMA GentlePatch ==
  ASSUME Base, NEW c \in Coords, NEW w \in Waves, NEW r, NEW p, Patches(c, w, r, p),
         Mine(c, w) /\ In(w, {"integrated"}) =>
           r.state = "integrated" \/ \A v \in Waves : v > w => ~ Exists(v),
         Mine(c, w) /\ r.state = "integrated" => r.members = "sealed", claim' = claim
  PROVE  Gentle(c)
<1>1. CASE Mine(c, w) BY <1>1, GentleWrite DEF Patches
<1>2. CASE ~ Mine(c, w) BY <1>2 DEF Patches, Gentle
<1> QED BY <1>1, <1>2

\* Blocking a wave is gentle unless a later one exists.
LEMMA GentleBlock ==
  ASSUME Base, NEW c \in Coords, NEW w \in Waves, Blocks(c, w),
         claim' # claim => claim = None \/ \E v \in Waves : Exists(v),
         Mine(c, w) /\ In(w, {"integrated"}) => \A v \in Waves : v > w => ~ Exists(v)
  PROVE  Gentle(c)
<1>1. CASE Mine(c, w)
  <2>1. rec[w] \in Record BY <1>1, IsRecord DEF Base, Mine
  <2>2. PICK r : r = [rec[w] EXCEPT !.state = "blocked"] /\ r.state = "blocked"
    <3>1. [rec[w] EXCEPT !.state = "blocked"].state = "blocked" BY <2>1 DEF Record
    <3> QED BY <3>1, Zenon
  <2>3. Writes(w, r) BY <1>1, <2>2 DEF Blocks
  <2> QED BY <1>1, <2>2, <2>3 DEF Gentle, Writes, Base, TypeOK
<1>2. CASE ~ Mine(c, w) BY <1>2 DEF Blocks, Gentle
<1> QED BY <1>1, <1>2

\* To drive a wave or to go on from it needs no more than to own it.
LEMMA DrivePoint ==
  ASSUME NEW c \in Coords, NEW w \in Waves, Owned(c, w), Kept, NEW p \in {"drive", "continue"}
  PROVE  Point(c, p, w)'
  BY DEF Point, Driving, Owned, Kept, Exists

\* What a process has loaded, it owns.
LEMMA LoadedOwned ==
  ASSUME Base, Ordered, NEW c \in Coords, NEW w \in loaded[c]
  PROVE  w \in Waves /\ Owned(c, w)
  BY DEF Ordered, Loaded, Base, TypeOK, Owned

\* Notified keeps the order.
LEMMA NotifiedOrdered ==
  ASSUME Base, Ordered, NEW c \in Coords, Notified(c)
  PROVE  Ordered'
<1>1. Quiet(c) /\ Lands(c) BY NotifiedQuiet
<1>2. Gentle(c) BY DEF Notified, Gentle
<1>3. PICK v \in Waves : Owned(c, v) /\ Goes(c, "drive", v) /\ loaded' = loaded
  BY LoadedOwned DEF Notified
<1>4. Shows(c)
  <2>1. at'[c] = [pc |-> "drive", wave |-> v] BY <1>3, GoesMoves DEF Base, Points
  <2>2. Point(c, "drive", v)' BY <1>3, <1>1, DrivePoint DEF Quiet
  <2> QED BY <1>3, <1>1, <2>1, <2>2, OneShows DEF Quiet, Points
<1> QED BY <1>1, <1>2, <1>4, GentleOrdered DEF Quiet

\* MemberMoves keeps the order.
LEMMA MemberMovesOrdered ==
  ASSUME Base, Ordered, NEW c \in Coords, MemberMoves(c)
  PROVE  Ordered'
<1>1. Quiet(c) /\ Lands(c) BY MemberMovesQuiet
<1>2. PICK v \in Waves : /\ Mine(c, v) /\ Owned(c, v) /\ Goes(c, "drive", v)
                         /\ rec[v].members = "working" /\ loaded' = loaded
                         /\ \E m \in {"stuck", "stopped", "sealed"} :
                              Writes(v, [rec[v] EXCEPT !.members = m,
                                !.state = IF m = "sealed" THEN @ ELSE "blocked"])
  BY LoadedOwned DEF MemberMoves
<1>3. Gentle(c)
  <2>1. PICK m \in {"stuck", "stopped", "sealed"} :
          Writes(v, [rec[v] EXCEPT !.members = m,
                                   !.state = IF m = "sealed" THEN @ ELSE "blocked"])
    BY <1>2
  <2>2. rec[v] \in Record /\ rec[v].state # "integrated"
    BY <1>2, IsRecord DEF Base, Ordered, Sealed, Mine, In
  <2>3. PICK s \in {"running", "integrating", "repairing"} \cup Stopped :
          s # "integrated" /\ s = IF m = "sealed" THEN rec[v].state ELSE "blocked"
    BY <2>2 DEF Record, Stopped
  <2>4. Writes(v, [rec[v] EXCEPT !.members = m, !.state = s]) BY <2>1, <2>3
  <2>5. [rec[v] EXCEPT !.members = m, !.state = s].state = s BY <2>2 DEF Record
  <2>6. claim' = claim BY DEF MemberMoves
  <2> QED BY <1>2, <2>2, <2>3, <2>4, <2>5, <2>6, GentleWrite DEF In
<1>4. Shows(c)
  <2>1. at'[c] = [pc |-> "drive", wave |-> v] BY <1>2, GoesMoves DEF Base, Points
  <2>2. Point(c, "drive", v)' BY <1>2, <1>1, DrivePoint DEF Quiet
  <2> QED BY <1>2, <1>1, <2>1, <2>2, OneShows DEF Quiet, Points
<1> QED BY <1>1, <1>3, <1>4, GentleOrdered DEF Quiet

\* Recheck keeps the order.
LEMMA RecheckOrdered ==
  ASSUME Base, Ordered, NEW c \in Coords, Recheck(c)
  PROVE  Ordered'
<1>1. Quiet(c) /\ Lands(c) BY RecheckQuiet
<1>2. PICK v \in Waves : /\ Mine(c, v) /\ Owned(c, v) /\ Goes(c, "drive", v)
                         /\ rec[v].members = "unsure" /\ loaded' = loaded
                         /\ Writes(v, [rec[v] EXCEPT !.members = "working"])
  BY LoadedOwned DEF Recheck
<1>3. Gentle(c)
  <2>1. rec[v] \in Record /\ rec[v].state # "integrated"
    BY <1>2, IsRecord DEF Base, Ordered, Sealed, Mine, In
  <2>2. [rec[v] EXCEPT !.members = "working"].state = rec[v].state BY <2>1 DEF Record
  <2>3. claim' = claim BY DEF Recheck
  <2> QED BY <1>2, <2>1, <2>2, <2>3, GentleWrite DEF In
<1>4. Shows(c)
  <2>1. at'[c] = [pc |-> "drive", wave |-> v] BY <1>2, GoesMoves DEF Base, Points
  <2>2. Point(c, "drive", v)' BY <1>2, <1>1, DrivePoint DEF Quiet
  <2> QED BY <1>2, <1>1, <2>1, <2>2, OneShows DEF Quiet, Points
<1> QED BY <1>1, <1>3, <1>4, GentleOrdered DEF Quiet

\* Advance keeps the order.
LEMMA AdvanceOrdered ==
  ASSUME Base, Ordered, NEW c \in Coords, Advance(c)
  PROVE  Ordered'
<1>1. Quiet(c) /\ Lands(c) BY AdvanceQuiet
<1>2. PICK v \in Waves : /\ Mine(c, v) /\ Owned(c, v) /\ Goes(c, "drive", v)
                         /\ rec[v].members = "stuck" /\ Loads(c, v)
                         /\ Writes(v, [rec[v] EXCEPT !.members = "working", !.state = "running"])
  BY LoadedOwned DEF Advance, Mine, Owned
<1>3. Gentle(c)
  <2>1. rec[v] \in Record /\ rec[v].state # "integrated"
    BY <1>2, IsRecord DEF Base, Ordered, Sealed, Mine, In
  <2>2. [rec[v] EXCEPT !.members = "working", !.state = "running"].state = "running"
    BY <2>1 DEF Record
  <2>3. claim' = claim BY DEF Advance
  <2> QED BY <1>2, <2>1, <2>2, <2>3, GentleWrite DEF In
<1>4. Shows(c)
  <2>1. at'[c] = [pc |-> "drive", wave |-> v] BY <1>2, GoesMoves DEF Base, Points
  <2>2. Point(c, "drive", v)' BY <1>2, <1>1, DrivePoint DEF Quiet
  <2> QED BY <1>2, <1>1, <2>1, <2>2, OneShows DEF Quiet, Points
<1> QED BY <1>1, <1>3, <1>4, GentleOrdered DEF Quiet

\* Cancel keeps the order.
LEMMA CancelOrdered ==
  ASSUME Base, Ordered, NEW c \in Coords, Cancel(c)
  PROVE  Ordered'
<1>1. Quiet(c) /\ Lands(c) BY CancelQuiet
<1>2. PICK v \in Waves, whole \in BOOLEAN :
        /\ Mine(c, v) /\ Goes(c, "drain", v) /\ rec[v].state \notin {"integrated", "cancelled"}
        /\ \E m \in (IF whole THEN {} ELSE {rec[v].members})
                    \cup (IF rec[v].members = "sealed" /\ whole THEN {"sealed"} ELSE {"stopped"}) :
             Writes(v, [rec[v] EXCEPT !.members = m,
                                      !.state = IF whole THEN "cancelled" ELSE "blocked"])
  BY DEF Cancel
<1>3. PICK m, s : /\ s \in {"cancelled", "blocked"}
                  /\ Writes(v, [rec[v] EXCEPT !.members = m, !.state = s])
  BY <1>2
<1>4. rec[v] \in Record BY <1>2, IsRecord DEF Base, Mine
<1>5. [rec[v] EXCEPT !.members = m, !.state = s].state = s BY <1>4 DEF Record
<1>6. Gentle(c)
  <2>1. claim' = claim BY DEF Cancel
  <2> QED BY <1>2, <1>3, <1>5, <2>1, GentleWrite DEF In
<1>7. Shows(c)
  <2>1. at'[c] = [pc |-> "drain", wave |-> v] BY <1>2, GoesMoves DEF Base, Points
  <2>2. rec'[v].state = s BY <1>3, <1>5 DEF Writes, Base, TypeOK
  <2>3. Point(c, "drain", v)' BY <1>3, <2>2 DEF Point, Driving, In
  <2>4. loaded' = loaded BY DEF Cancel
  <2> QED BY <1>1, <2>1, <2>3, <2>4, OneShows DEF Quiet, Points
<1> QED BY <1>1, <1>6, <1>7, GentleOrdered DEF Quiet

\* Resume keeps the order.
LEMMA ResumeOrdered ==
  ASSUME Base, Ordered, NEW c \in Coords, Resume(c)
  PROVE  Ordered'
<1>1. PICK w \in Waves :
        /\ w = at[c].wave /\ c \in live /\ at[c].pc = "resume"
        /\ Point(c, "resume", w)
  BY Place DEF Base, Ordered, Standing, Resume, Points, Idle
<1>2. Quiet(c) /\ Lands(c) BY ResumeQuiet
<1>3. claim' = claim /\ loaded' = loaded BY DEF Resume
<1>4. Gentle(c)
  <2>1. PICK m \in {rec[w].members} \cup
                    (IF rec[w].members = "working" THEN {"unsure", "stopped"} ELSE {}),
             s \in {rec[w].state} \cup (IF rec[w].repair = "open" THEN {"repairing"} ELSE {}) :
          Patches(c, w, [rec[w] EXCEPT !.members = m, !.state = s], "drive")
    BY <1>1 DEF Resume
  <2>2. Mine(c, w) => rec[w] \in Record BY IsRecord DEF Base, Mine
  <2>3. ~ In(w, {"integrated"}) BY <1>1 DEF Point
  <2>4. Mine(c, w) => [rec[w] EXCEPT !.members = m, !.state = s].state # "integrated"
    BY <2>2, <2>3 DEF In, Mine, Record
  <2> QED BY <1>3, <2>1, <2>3, <2>4, GentlePatch
<1>5. Shows(c)
  <2>1. CASE at'[c] = Idle BY <1>2, <1>3, <2>1, IdleShows DEF Quiet
  <2>2. CASE at'[c] = [pc |-> "drive", wave |-> w]
    <3>1. Point(c, "drive", w)'
      BY <1>1, <1>2, DrivePoint DEF Quiet, Point, Driving
    <3> QED BY <1>1, <1>2, <1>3, <2>2, <3>1, OneShows DEF Quiet, Points
  <2> QED BY <1>1, <2>1, <2>2, ResumeQuiet
<1> QED BY <1>2, <1>4, <1>5, GentleOrdered DEF Quiet

\* Drained keeps the order.
LEMMA DrainedOrdered ==
  ASSUME Base, Ordered, NEW c \in Coords, Drained(c)
  PROVE  Ordered'
<1>1. PICK w \in Waves : w = at[c].wave /\ c \in live /\ at[c].pc = "drain" /\ Point(c, "drain", w)
  BY Place DEF Base, Ordered, Standing, Drained, Points, Idle
<1>2. Quiet(c) /\ Lands(c) BY DrainedQuiet
<1>3. claim' = claim /\ loaded' = loaded BY DEF Drained
<1>4. Gentle(c)
  <2>1. CASE Blocks(c, w) BY <1>1, <1>3, <2>1, GentleBlock DEF Point
  <2>2. CASE rec' = rec BY <1>3, <2>2 DEF Gentle
  <2> QED BY <1>1, <2>1, <2>2 DEF Drained
<1>5. Shows(c)
  <2>1. at'[c] = Idle BY EndsMoves DEF Base, Drained, Blocks
  <2> QED BY <1>2, <1>3, <2>1, IdleShows DEF Quiet
<1> QED BY <1>2, <1>4, <1>5, GentleOrdered DEF Quiet

\* DriveRepair keeps the order.
LEMMA DriveRepairOrdered ==
  ASSUME Base, Ordered, NEW c \in Coords, DriveRepair(c)
  PROVE  Ordered'
<1>1. PICK w \in Waves : w = at[c].wave /\ c \in live /\ at[c].pc = "drive" /\ Point(c, "drive", w)
  BY Place DEF Base, Ordered, Standing, DriveRepair, DriveOn, Points, Idle
<1>2. Quiet(c) /\ Lands(c) BY DriveRepairQuiet
<1>3. claim' = claim /\ loaded' = loaded BY DEF DriveRepair
<1>4. Gentle(c)
  <2>1. Mine(c, w) /\ ~ In(w, {"integrated"}) BY <1>1 DEF DriveRepair, DriveOn, Stopped, In
  <2>2. rec[w] \in Record /\ rec[w].state # "integrated" BY <2>1, IsRecord DEF Base, Mine, In
  <2>3. CASE Writes(w, [rec[w] EXCEPT !.repair = "accepted",
                       !.state = IF @ = "repairing" THEN "integrating" ELSE @])
    <3>1. PICK s : /\ s = IF rec[w].state = "repairing" THEN "integrating" ELSE rec[w].state
                   /\ s # "integrated"
      BY <2>2
    <3>2. Writes(w, [rec[w] EXCEPT !.repair = "accepted", !.state = s]) BY <2>3, <3>1
    <3>3. PICK r : Writes(w, r) /\ r.state = s
      <4>1. [rec[w] EXCEPT !.repair = "accepted", !.state = s].state = s BY <2>2 DEF Record
      <4> QED BY <3>2, <4>1, Zenon
    <3> QED BY <1>3, <2>1, <3>1, <3>3, GentleWrite
  <2>4. CASE Blocks(c, w) BY <1>3, <2>1, <2>4, GentleBlock
  <2>5. CASE rec' = rec BY <1>3, <2>5 DEF Gentle
  <2> QED BY <1>1, <2>3, <2>4, <2>5 DEF DriveRepair
<1>5. Shows(c)
  <2>1. CASE at'[c] = Idle BY <1>2, <1>3, <2>1, IdleShows DEF Quiet
  <2>2. CASE at'[c] = [pc |-> "drive", wave |-> w]
    <3>1. Point(c, "drive", w)'
      BY <1>1, <1>2, DrivePoint DEF Quiet, Point, Driving
    <3> QED BY <1>1, <1>2, <1>3, <2>2, <3>1, OneShows DEF Quiet, Points
  <2> QED BY <1>1, <2>1, <2>2, DriveRepairQuiet
<1> QED BY <1>2, <1>4, <1>5, GentleOrdered DEF Quiet

\* DriveMembers keeps the order.
LEMMA DriveMembersOrdered ==
  ASSUME Base, Ordered, NEW c \in Coords, DriveMembers(c)
  PROVE  Ordered'
<1>1. PICK w \in Waves : w = at[c].wave /\ c \in live /\ at[c].pc = "drive" /\ Point(c, "drive", w)
  BY Place DEF Base, Ordered, Standing, DriveMembers, DriveOn, Points, Idle
<1>2. Quiet(c) /\ Lands(c) BY DriveMembersQuiet
<1>3. claim' = claim /\ loaded' = loaded BY DEF DriveMembers
<1>4. Gentle(c)
  <2>1. Mine(c, w) /\ ~ In(w, {"integrated"}) BY <1>1 DEF DriveMembers, DriveOn, Stopped, In
  <2>2. rec[w] \in Record BY <2>1, IsRecord DEF Base, Mine
  <2>3. CASE Writes(w, [rec[w] EXCEPT !.state = "integrating"])
    <3>1. [rec[w] EXCEPT !.state = "integrating"].state = "integrating" BY <2>2 DEF Record
    <3> QED BY <1>3, <2>1, <2>3, <3>1, GentleWrite
  <2>4. CASE Blocks(c, w) BY <1>3, <2>1, <2>4, GentleBlock
  <2>5. CASE rec' = rec BY <1>3, <2>5 DEF Gentle
  <2> QED BY <1>1, <2>3, <2>4, <2>5 DEF DriveMembers
<1>5. Shows(c)
  <2>1. CASE at'[c] = Idle BY <1>2, <1>3, <2>1, IdleShows DEF Quiet
  <2>2. CASE at'[c] = [pc |-> "promote", wave |-> w]
    <3>1. Point(c, "promote", w)'
      <4>1. /\ Mine(c, w) /\ rec[w].members = "sealed"
            /\ Writes(w, [rec[w] EXCEPT !.state = "integrating"])
        BY <1>1, <2>2, BlocksKeep, EndsMoves DEF DriveMembers, DriveOn, Base, Idle
      <4>2. rec[w] \in Record BY <4>1, IsRecord DEF Base, Mine
      <4>3. rec'[w] = [rec[w] EXCEPT !.state = "integrating"] BY <4>1 DEF Writes, Base, TypeOK
      <4>4. rec'[w].state = "integrating" /\ rec'[w].members = "sealed"
        BY <4>1, <4>2, <4>3 DEF Record
      <4> QED BY <1>1, <1>2, <4>4 DEF Point, Driving, Owned, Quiet, Kept, Exists
    <3> QED BY <1>1, <1>2, <1>3, <2>2, <3>1, OneShows DEF Quiet, Points
  <2> QED BY <1>1, <2>1, <2>2, DriveMembersQuiet
<1> QED BY <1>2, <1>4, <1>5, GentleOrdered DEF Quiet

\* Promote keeps the order.
LEMMA PromoteOrdered ==
  ASSUME Base, Ordered, NEW c \in Coords, Promote(c)
  PROVE  Ordered'
<1>1. PICK w \in Waves :
        /\ w = at[c].wave /\ c \in live /\ at[c].pc = "promote"
        /\ Point(c, "promote", w)
  BY Place DEF Base, Ordered, Standing, Promote, Points, Idle
<1>2. Quiet(c) /\ Lands(c) BY PromoteQuiet
<1>3. claim' = claim /\ loaded' = loaded BY DEF Promote
<1>4. Gentle(c)
  <2>1. ~ In(w, {"integrated"}) BY <1>1 DEF Point, In
  <2>2. CASE Patches(c, w, [rec[w] EXCEPT !.repair = "open", !.state = "repairing"], "drive")
    <3>1. Mine(c, w) => rec[w] \in Record BY IsRecord DEF Base, Mine
    <3>2. Mine(c, w) => [rec[w] EXCEPT !.repair = "open", !.state = "repairing"].state = "repairing"
      BY <3>1 DEF Record
    <3> QED BY <1>3, <2>1, <2>2, <3>2, GentlePatch
  <2>3. CASE Blocks(c, w) BY <1>3, <2>1, <2>3, GentleBlock
  <2>4. CASE rec' = rec BY <1>3, <2>4 DEF Gentle
  <2> QED BY <1>1, <2>2, <2>3, <2>4 DEF Promote
<1>5. Shows(c)
  <2>1. CASE at'[c] = Idle BY <1>2, <1>3, <2>1, IdleShows DEF Quiet
  <2>2. CASE at'[c] = [pc |-> "drive", wave |-> w]
    <3>1. Point(c, "drive", w)'
      BY <1>1, <1>2, DrivePoint DEF Quiet, Point, Driving
    <3> QED BY <1>1, <1>2, <1>3, <2>2, <3>1, OneShows DEF Quiet, Points
  <2>3. CASE at'[c] = [pc |-> "record", wave |-> w]
    <3>1. Point(c, "record", w)'
      <4>1. rec' = rec
        BY <1>1, <2>3, BlocksKeep, EndsMoves, PatchesKeep
           DEF Promote, Base, Idle, Patches, Ends, Goes, TypeOK
      <4> QED BY <1>1, <4>1 DEF Point, Driving, Owned, Exists
    <3> QED BY <1>1, <1>2, <1>3, <2>3, <3>1, OneShows DEF Quiet, Points
  <2> QED BY <1>1, <2>1, <2>2, <2>3, PromoteQuiet
<1> QED BY <1>2, <1>4, <1>5, GentleOrdered DEF Quiet

\* RecordIntegrated keeps the order.
LEMMA RecordIntegratedOrdered ==
  ASSUME Base, Ordered, NEW c \in Coords, RecordIntegrated(c)
  PROVE  Ordered'
<1>1. PICK w \in Waves :
        /\ w = at[c].wave /\ c \in live /\ at[c].pc = "record"
        /\ Point(c, "record", w)
  BY Place DEF Base, Ordered, Standing, RecordIntegrated, Points, Idle
<1>2. Quiet(c) /\ Lands(c) BY RecordIntegratedQuiet
<1>3. claim' = claim /\ loaded' = loaded BY DEF RecordIntegrated
<1>4. Gentle(c)
  <2>1. rec[w].members = "sealed" BY <1>1 DEF Point
  <2>2. Mine(c, w) => rec[w] \in Record BY IsRecord DEF Base, Mine
  <2>3. Mine(c, w) => LET q == [rec[w] EXCEPT !.state = "integrated"]
                      IN  q.state = "integrated" /\ q.members = "sealed"
    BY <2>1, <2>2 DEF Record, Stopped
  <2>4. Patches(c, w, [rec[w] EXCEPT !.state = "integrated"], "reconcile")
    BY <1>1 DEF RecordIntegrated
  <2> QED BY <1>3, <2>3, <2>4, GentlePatch
<1>5. Shows(c)
  <2>1. CASE at'[c] = Idle BY <1>2, <1>3, <2>1, IdleShows DEF Quiet
  <2>2. CASE at'[c] = [pc |-> "reconcile", wave |-> w]
    <3>1. Point(c, "reconcile", w)'
      <4>1. ~ In(w, {"integrated"}) BY <1>1 DEF Point, In
      <4>2. \A v \in Waves : v > w => ~ Exists(v) BY <1>1, <4>1 DEF Ordered, Prefix
      <4> QED BY <1>1, <1>2, <4>2 DEF Point, Driving, Owned, Quiet, Kept, Exists
    <3> QED BY <1>1, <1>2, <1>3, <2>2, <3>1, OneShows DEF Quiet, Points
  <2> QED BY <1>1, <2>1, <2>2, RecordIntegratedQuiet
<1> QED BY <1>2, <1>4, <1>5, GentleOrdered DEF Quiet

\* Reconcile keeps the order.
LEMMA ReconcileOrdered ==
  ASSUME Base, Ordered, NEW c \in Coords, Reconcile(c)
  PROVE  Ordered'
<1>1. PICK w \in Waves :
        /\ w = at[c].wave /\ c \in live /\ at[c].pc = "reconcile"
        /\ Point(c, "reconcile", w)
  BY Place DEF Base, Ordered, Standing, Reconcile, Points, Idle
<1>2. Quiet(c) /\ Lands(c) BY ReconcileQuiet
<1>3. claim' = claim /\ loaded' = loaded BY DEF Reconcile
<1>4. Gentle(c)
  <2>1. \A v \in Waves : v > w => ~ Exists(v) BY <1>1 DEF Point
  <2>2. CASE Blocks(c, w) BY <1>3, <2>1, <2>2, GentleBlock
  <2>3. CASE rec' = rec BY <1>3, <2>3 DEF Gentle
  <2> QED BY <1>1, <2>2, <2>3 DEF Reconcile
<1>5. Shows(c)
  <2>1. CASE at'[c] = Idle BY <1>2, <1>3, <2>1, IdleShows DEF Quiet
  <2>2. CASE at'[c] = [pc |-> "release", wave |-> w]
    <3>1. Point(c, "release", w)'
      BY <1>1, <1>2 DEF Point, Driving, Owned, Quiet, Kept, Exists
    <3> QED BY <1>1, <1>2, <1>3, <2>2, <3>1, OneShows DEF Quiet, Points
  <2> QED BY <1>1, <2>1, <2>2, ReconcileQuiet
<1> QED BY <1>2, <1>4, <1>5, GentleOrdered DEF Quiet

\* ContinueOpens keeps the order.
LEMMA ContinueOpensOrdered ==
  ASSUME Base, Ordered, NEW c \in Coords, ContinueOpens(c)
  PROVE  Ordered'
<1>1. PICK w \in Waves :
        /\ w = at[c].wave /\ c \in live /\ at[c].pc = "continue"
        /\ Point(c, "continue", w)
  BY Place DEF Base, Ordered, Standing, ContinueOpens, Points, Idle
<1>2. Quiet(c) /\ Lands(c) BY ContinueOpensQuiet
<1>3. claim' = claim /\ loaded' = loaded BY DEF ContinueOpens
<1>4. Gentle(c)
  <2>1. MayContinue(c, w) /\ Patches(c, w, rec[w], "inherit") BY <1>1 DEF ContinueOpens
  <2>2. rec[w].state = "integrated" => rec[w].members = "sealed"
    BY <2>1 DEF Ordered, Sealed, MayContinue, In
  <2> QED BY <1>3, <2>1, <2>2, GentlePatch DEF In
<1>5. Shows(c)
  <2>1. CASE at'[c] = Idle BY <1>2, <1>3, <2>1, IdleShows DEF Quiet
  <2>2. CASE at'[c] = [pc |-> "inherit", wave |-> w]
    <3>1. Point(c, "inherit", w)'
      <4>1. MayContinue(c, w) /\ ~ Exists(w + 1) /\ Patches(c, w, rec[w], "inherit")
        BY <1>1 DEF ContinueOpens
      <4>2. rec' = rec BY <4>1 DEF Patches, Writes, Base, TypeOK
      <4>3. head' = head BY DEF ContinueOpens
      <4> QED
        BY <1>1, <4>1, <4>2, <4>3 DEF Point, Driving, Owned, Exists, In, MayContinue, Base, TypeOK
    <3> QED BY <1>1, <1>2, <1>3, <2>2, <3>1, OneShows DEF Quiet, Points
  <2> QED BY <1>1, <2>1, <2>2, ContinueOpensQuiet
<1> QED BY <1>2, <1>4, <1>5, GentleOrdered DEF Quiet

\* Begin keeps the order: a process that never ran owns nothing.
LEMMA BeginOrdered == ASSUME Base, Ordered, NEW c \in Coords, Begin(c) PROVE Ordered'
<1>1. Prefix' BY DEF Ordered, Prefix, Begin, In, Exists
<1>2. Sealed' BY DEF Ordered, Sealed, Begin, In, Exists
<1>3. Loaded' BY DEF Ordered, Loaded, Begin, Exists
<1>4. Standing'
  <2> SUFFICES ASSUME NEW d \in Coords, at[d] # Idle, Point(d, at[d].pc, at[d].wave)
               PROVE  Point(d, at[d].pc, at[d].wave)'
    BY DEF Ordered, Standing, Begin
  <2>1. PICK p \in Points, w \in Waves : at[d] = [pc |-> p, wave |-> w] BY DEF Base, TypeOK
  <2>2. p \in {"rebind", "adopt"} => Exists(w) BY <2>1 DEF Base, Sane
  <2>3. Exists(w) => rec[w].owner \in used BY DEF Base, Sane
  <2>4. (p \in {"rebind", "adopt"} /\ d \in fresh => Dead(w))'
    BY <2>1, <2>2, <2>3 DEF Point, Dead, Begin
  <2>5. Point(d, p, w)' BY <2>1, <2>4 DEF Point, Begin, Owned, In, Exists, Mine, MayWrite
  <2> QED BY <2>1, <2>5 DEF Begin
<1> QED BY <1>1, <1>2, <1>3, <1>4 DEF Ordered

\* Crash keeps the order: what was dead stays dead.
LEMMA CrashOrdered == ASSUME Base, Ordered, NEW c \in Coords, Crash(c) PROVE Ordered'
<1>1. Moves(c) /\ at'[c] = Idle BY EndsMoves DEF Base, Crash
<1>2. Prefix' BY DEF Ordered, Prefix, Crash, In, Exists
<1>3. Sealed' BY DEF Ordered, Sealed, Crash, In, Exists
<1>4. Loaded' BY DEF Ordered, Loaded, Crash, Exists, Base, TypeOK
<1>5. Standing'
  <2> SUFFICES ASSUME NEW d \in Coords, d # c, at[d] # Idle, Point(d, at[d].pc, at[d].wave)
               PROVE  Point(d, at[d].pc, at[d].wave)'
    BY <1>1 DEF Ordered, Standing, Moves
  <2>1. PICK p \in Points, w \in Waves : at[d] = [pc |-> p, wave |-> w] BY DEF Base, TypeOK
  <2>2. (p \in {"rebind", "adopt"} /\ d \in fresh => Dead(w))'
    BY <2>1 DEF Point, Dead, Crash
  <2>3. Point(d, p, w)' BY <2>1, <2>2 DEF Point, Crash, Owned, In, Exists, Mine, MayWrite
  <2> QED BY <1>1, <2>1, <2>3 DEF Moves
<1> QED BY <1>2, <1>3, <1>4, <1>5 DEF Ordered

\* Release keeps the order.
LEMMA ReleaseOrdered == ASSUME Base, Ordered, NEW c \in Coords, Release(c) PROVE Ordered'
<1>1. PICK w \in Waves :
        /\ w = at[c].wave /\ c \in live /\ at[c].pc = "release"
        /\ Point(c, "release", w)
  BY Place DEF Base, Ordered, Standing, Release, Points, Idle
<1>2. /\ Kept /\ Moves(c) /\ fresh' \subseteq fresh
      /\ at'[c] \in {Idle, [pc |-> "continue", wave |-> w]}
  <2>1. CASE Goes(c, "continue", w) /\ UNCHANGED <<rec, fresh>>
    <3>1. Moves(c) /\ at'[c] = [pc |-> "continue", wave |-> w]
      BY <2>1, GoesMoves DEF Base, Points
    <3> QED BY <2>1, <3>1, SameKeep DEF Base
  <2>2. CASE Blocks(c, w) BY <2>2, BlocksKeep DEF Base
  <2> QED BY <1>1, <2>1, <2>2 DEF Release
<1>3. Around(c) BY <1>1, <1>2 DEF Base, TypeOK, Around, Release
<1>4. Gentle(c)
  <2>1. Exists(w) /\ \A v \in Waves : v > w => ~ Exists(v) BY <1>1 DEF Point, Driving, Owned
  <2>2. CASE Blocks(c, w) BY <2>1, <2>2, GentleBlock
  <2>3. CASE rec' = rec BY <2>1, <2>3 DEF Gentle
  <2> QED BY <1>1, <2>2, <2>3 DEF Release
<1>5. loaded' = loaded BY DEF Release
<1>6. Shows(c)
  <2>1. CASE at'[c] = Idle BY <1>2, <1>5, <2>1, IdleShows
  <2>2. CASE at'[c] = [pc |-> "continue", wave |-> w]
    <3>1. Point(c, "continue", w)' BY <1>1, <1>2, DrivePoint DEF Point, Driving
    <3> QED BY <1>2, <1>5, <2>2, <3>1, OneShows DEF Points
  <2> QED BY <1>2, <2>1, <2>2
<1> QED BY <1>2, <1>3, <1>4, <1>6, GentleOrdered

\* Adopt keeps the order: the owner it replaces is dead, so no process stands on
\* that wave or has it loaded.
LEMMA AdoptOrdered == ASSUME Base, Ordered, NEW c \in Coords, Adopt(c) PROVE Ordered'
<1>1. PICK w \in Waves : w = at[c].wave /\ c \in live /\ at[c].pc = "adopt" /\ Point(c, "adopt", w)
  BY Place DEF Base, Ordered, Standing, Adopt, Points, Idle
<1>2. CASE c \notin fresh
  <2>1. at'[c] = Idle /\ Moves(c) BY <1>1, <1>2, EndsMoves DEF Base, Adopt
  <2>2. Kept BY <1>2, SameKeep DEF Base, Adopt
  <2>3. loaded' = loaded BY <1>2 DEF Adopt
  <2>4. Gentle(c) BY <1>2 DEF Adopt, Gentle
  <2>5. stray' \in BOOLEAN BY <1>2 DEF Adopt, Base, TypeOK
  <2>6. Around(c) BY <1>1, <1>2, <2>5 DEF Base, TypeOK, Around, Adopt
  <2>7. Shows(c) BY <2>1, <2>2, <2>3, IdleShows
  <2> QED BY <2>1, <2>2, <2>4, <2>6, <2>7, GentleOrdered
<1>3. CASE c \in fresh
  <2>1. Exists(w) /\ Dead(w) /\ rec[w] \in Record
    BY <1>1, <1>3, IsRecord DEF Base, Sane, Point
  <2>2. PICK r \in Record : /\ r = [rec[w] EXCEPT !.owner = c]
                            /\ r.owner = c /\ r.state = rec[w].state /\ r.members = rec[w].members
    <3>1. [rec[w] EXCEPT !.owner = c] \in Record BY <2>1 DEF Record
    <3>2. LET q == [rec[w] EXCEPT !.owner = c]
          IN  q.owner = c /\ q.state = rec[w].state /\ q.members = rec[w].members
      BY <2>1 DEF Record
    <3> QED BY <3>1, <3>2, Zenon
  <2>3. /\ rec'[w] = r /\ \A v \in Waves : v # w => rec'[v] = rec[v]
        /\ fresh' = {d \in fresh : at[d].wave # w}
    BY <1>1, <1>3, <2>2 DEF Adopt, Writes, Base, TypeOK
  <2>4. head' = head /\ claim' = claim /\ live' = live BY DEF Adopt
  <2>5. PICK p \in {"drive", "resume"} : /\ Goes(c, p, w)
                                         /\ p = "resume" => rec[w].state # "integrated"
    BY <1>1, <1>3 DEF Adopt
  <2>6. Moves(c) /\ at'[c] = [pc |-> p, wave |-> w] BY <2>5, GoesMoves DEF Base, Points
  <2>7. r # None /\ \A v \in Waves : rec'[v] = None <=> rec[v] = None
    BY <2>1, <2>2, <2>3 DEF Exists
  <2>8. \A v \in Waves : In(v, {"integrated"})' <=> In(v, {"integrated"})
    BY <2>1, <2>2, <2>3, <2>7 DEF In, Exists
  <2>9. Prefix' BY <2>4, <2>7, <2>8 DEF Ordered, Prefix, Exists
  <2>10. Sealed'
    <3> SUFFICES ASSUME NEW v \in Waves, In(v, {"integrated"})' PROVE rec'[v].members = "sealed"
      BY DEF Sealed
    <3>1. rec[v].members = "sealed" BY <2>8 DEF Ordered, Sealed
    <3> QED BY <2>2, <2>3, <3>1
  <2>11. Loaded'
    <3>1. loaded' = [loaded EXCEPT ![c] = @ \cup {w}] BY <1>1, <1>3 DEF Adopt, Loads
    <3> SUFFICES ASSUME NEW d \in Coords, NEW v \in loaded'[d]
                 PROVE  d \in live /\ rec'[v] # None /\ rec'[v].owner = d
      BY <2>4 DEF Loaded, Exists
    <3>2. CASE d = c /\ v = w BY <1>1, <2>2, <2>3, <2>7, <3>2
    <3>3. CASE v \in loaded[d]
      <4>1. v \in Waves /\ d \in live /\ rec[v] # None /\ rec[v].owner = d
        BY <3>3 DEF Ordered, Loaded, Base, TypeOK, Exists
      <4>2. v # w BY <2>1, <4>1 DEF Dead
      <4> QED BY <2>3, <4>1, <4>2
    <3> QED BY <3>1, <3>2, <3>3 DEF Base, TypeOK
  <2>12. Standing'
    <3> SUFFICES ASSUME NEW d \in Coords, at'[d] # Idle
                 PROVE  Point(d, at[d].pc, at[d].wave)'
      BY DEF Standing
    <3>1. CASE d = c
      <4>1. Point(c, p, w)'
        BY <2>2, <2>3, <2>5, <2>7 DEF Point, Driving, Owned, In, Exists
      <4> QED BY <2>6, <3>1, <4>1
    <3>2. CASE d # c
      <4>1. PICK q \in Points, v \in Waves : at'[d] = [pc |-> q, wave |-> v]
        BY <2>6 DEF Moves
      <4>2. at[d] = [pc |-> q, wave |-> v] BY <2>6, <3>2, <4>1 DEF Moves
      <4>3. d \in live /\ Point(d, q, v) BY <4>2 DEF Base, Sane, Ordered, Standing, Idle, Points
      <4>4. \A u \in Waves : Owned(d, u) => u # w BY <2>1, <4>3 DEF Owned, Dead
      <4>5. \A u \in Waves : Owned(d, u) => Owned(d, u)'
        BY <2>3, <4>4 DEF Owned, Exists
      <4>6. ~ Mine(d, w)'
        BY <1>1, <2>2, <2>3, <3>2, <4>3 DEF Mine, Base, Sane
      <4>7. (q \in {"rebind", "adopt"} /\ d \in fresh => Dead(v))'
        BY <2>3, <2>4, <4>2, <4>3 DEF Point, Dead
      <4>8. (q \in Driving => Owned(d, v))' BY <4>3, <4>5 DEF Point
      <4>9. (q = "resume" => ~ In(v, {"integrated"}))' BY <2>8, <4>3 DEF Point
      <4>10. (q \in {"promote", "record"} => rec[v].state = "integrating" /\ rec[v].members = "sealed")'
        BY <2>2, <2>3, <4>3 DEF Point
      <4>11. (q \in {"reconcile", "release"} => \A u \in Waves : u > v => ~ Exists(u))'
        BY <2>7, <4>3 DEF Point, Exists
      <4>12. (q = "inherit" => In(v, {"integrated"}) /\ head >= v /\ ~ Exists(v + 1))'
        <5> SUFFICES ASSUME q = "inherit"
                     PROVE  (In(v, {"integrated"}) /\ head >= v /\ ~ Exists(v + 1))'
          OBVIOUS
        <5>1. v + 1 \in Waves BY <4>2 DEF Base, Sane, Waves
        <5> QED BY <2>4, <2>7, <2>8, <4>3, <5>1 DEF Point, Exists
      <4>13. (q = "drain" => ~ (Mine(d, v) /\ In(v, {"integrated"})))'
        BY <2>3, <2>8, <4>3, <4>6 DEF Point, Mine, Exists
      <4>14. (q = "write" => MayWrite(d, v))'
        <5> SUFFICES ASSUME q = "write" PROVE MayWrite(d, v)'
          OBVIOUS
        <5>1. MayWrite(d, v) BY <4>3 DEF Point
        <5>2. v > 1 /\ Owned(d, v - 1) /\ In(v - 1, {"integrated"}) /\ head >= v - 1 /\ ~ Exists(v)
          BY <2>1, <5>1 DEF MayWrite
        <5>3. v - 1 \in Waves BY <5>2 DEF Waves
        <5> QED BY <2>4, <2>7, <2>8, <4>5, <5>2, <5>3 DEF MayWrite, Exists
      <4>15. Point(d, q, v)'
        BY <4>7, <4>8, <4>9, <4>10, <4>11, <4>12, <4>13, <4>14 DEF Point
      <4> QED BY <4>1, <4>15
    <3> QED BY <3>1, <3>2
  <2> QED BY <2>9, <2>10, <2>11, <2>12 DEF Ordered
<1> QED BY <1>2, <1>3

\* Open keeps the order: whoever writes the next record owns the wave before it,
\* which is integrated, or has the claim of a package that was not begun.
LEMMA OpenOrdered == ASSUME Base, Ordered, NEW c \in Coords, Open(c) PROVE Ordered'
<1>1. PICK w \in Waves : w = at[c].wave /\ c \in live /\ at[c].pc = "write" /\ MayWrite(c, w)
  BY Place DEF Base, Ordered, Standing, Open, Points, Idle, Point
<1>2. /\ rec' = [rec EXCEPT ![w] = NewRecord(c)] /\ fresh' \subseteq fresh /\ Loads(c, w) /\ Ends(c)
      /\ head' = head /\ claim' = claim /\ live' = live
  BY <1>1 DEF Open, Writes
<1>3. NewRecord(c) \in Record /\ NewRecord(c).owner = c /\ NewRecord(c).state = "running"
  BY DEF NewRecord, Record
<1>4. Moves(c) /\ at'[c] = Idle BY <1>2, EndsMoves DEF Base
<1>5. ~ Exists(w) BY <1>1 DEF MayWrite
<1>6. \A v \in Waves : v # w => rec'[v] = rec[v] BY <1>2 DEF Base, TypeOK
<1>7. rec'[w] = NewRecord(c) /\ rec'[w] # None BY <1>2, <1>3 DEF Base, TypeOK
<1>8. \A v \in Waves : v < w => In(v, {"integrated"}) /\ head >= v
  <2> SUFFICES ASSUME NEW v \in Waves, v < w PROVE In(v, {"integrated"}) /\ head >= v
    OBVIOUS
  <2>1. /\ w > 1 /\ w - 1 \in Waves /\ Owned(c, w - 1) /\ In(w - 1, {"integrated"})
        /\ head >= w - 1
    BY <1>1 DEF MayWrite, Waves
  <2>2. CASE v = w - 1 BY <2>1, <2>2
  <2>3. CASE v < w - 1 BY <2>1, <2>3 DEF Ordered, Prefix, Owned
  <2> QED BY <2>2, <2>3 DEF Waves
<1>9. \A v \in Waves : In(v, {"integrated"})' <=> In(v, {"integrated"})
  BY <1>3, <1>5, <1>6, <1>7 DEF In, Exists
<1>10. Prefix'
  <2> SUFFICES ASSUME NEW u \in Waves, NEW v \in Waves, v < u, Exists(u)'
               PROVE  In(v, {"integrated"})' /\ head' >= v
    BY DEF Prefix
  <2>1. CASE u = w BY <1>2, <1>8, <1>9, <2>1
  <2>2. CASE u # w
    <3>1. Exists(u) BY <1>6, <2>2 DEF Exists
    <3> QED BY <1>2, <1>9, <3>1 DEF Ordered, Prefix
  <2> QED BY <2>1, <2>2
<1>11. Sealed'
  <2> SUFFICES ASSUME NEW v \in Waves, In(v, {"integrated"})' PROVE rec'[v].members = "sealed"
    BY DEF Sealed
  <2>1. In(v, {"integrated"}) BY <1>9
  <2>2. v # w BY <1>5, <2>1 DEF In
  <2> QED BY <1>6, <2>1, <2>2 DEF Ordered, Sealed
<1>12. Loaded'
  <2> SUFFICES ASSUME NEW d \in Coords, NEW v \in loaded'[d]
               PROVE  d \in live /\ rec'[v] # None /\ rec'[v].owner = d
    BY <1>2 DEF Loaded, Exists
  <2>1. CASE d = c /\ v = w BY <1>1, <1>3, <1>7, <2>1
  <2>2. CASE v \in loaded[d]
    <3>1. v \in Waves /\ d \in live /\ rec[v] # None /\ rec[v].owner = d
      BY <2>2 DEF Ordered, Loaded, Base, TypeOK, Exists
    <3>2. v # w BY <1>5, <3>1 DEF Exists
    <3> QED BY <1>6, <3>1, <3>2
  <2> QED BY <1>2, <2>1, <2>2 DEF Loads, Base, TypeOK
<1>13. Standing'
  <2> SUFFICES ASSUME NEW d \in Coords, at'[d] # Idle
               PROVE  Point(d, at[d].pc, at[d].wave)'
    BY DEF Standing
  <2>1. d # c BY <1>4
  <2>2. PICK q \in Points, v \in Waves : at'[d] = [pc |-> q, wave |-> v] BY <1>4 DEF Moves
  <2>3. at[d] = [pc |-> q, wave |-> v] BY <1>4, <2>1, <2>2 DEF Moves
  <2>4. d \in live /\ Point(d, q, v) BY <2>3 DEF Base, Sane, Ordered, Standing, Idle, Points
  <2>5. \A u \in Waves : Owned(d, u) => u # w BY <1>5 DEF Owned
  <2>6. \A u \in Waves : Owned(d, u) => Owned(d, u)' BY <1>6, <2>5 DEF Owned, Exists
  <2>7. \A u \in Waves : u = w - 1 => ~ Owned(d, u)
    BY <1>1, <2>1 DEF MayWrite, Owned, Waves
  <2>8. (q \in {"rebind", "adopt"} /\ d \in fresh => Dead(v))'
    <3>1. q \in {"rebind", "adopt"} => Exists(v) BY <2>3 DEF Base, Sane
    <3> QED BY <1>2, <1>5, <1>6, <2>4, <3>1 DEF Point, Dead
  <2>9. (q \in Driving => Owned(d, v))' BY <2>4, <2>6 DEF Point
  <2>10. (q = "resume" => ~ In(v, {"integrated"}))' BY <1>9, <2>4 DEF Point
  <2>11. (q \in {"promote", "record"} => rec[v].state = "integrating" /\ rec[v].members = "sealed")'
    BY <1>6, <2>4, <2>5 DEF Point, Driving
  <2>12. (q \in {"reconcile", "release"} => \A u \in Waves : u > v => ~ Exists(u))'
    <3> SUFFICES ASSUME q \in {"reconcile", "release"}, NEW u \in Waves, u > v, rec'[u] # None
                 PROVE  FALSE
      BY DEF Exists
    <3>1. Owned(d, v) /\ \A x \in Waves : x > v => ~ Exists(x) BY <2>4 DEF Point, Driving
    <3>2. u = w BY <1>6, <3>1 DEF Exists
    <3>3. v # w - 1 BY <2>7, <3>1
    <3>4. w - 1 \in Waves /\ w - 1 > v BY <3>2, <3>3 DEF Waves
    <3>5. Exists(w - 1) BY <1>8, <3>4 DEF In, Waves
    <3> QED BY <3>1, <3>4, <3>5
  <2>13. (q = "inherit" => In(v, {"integrated"}) /\ head >= v /\ ~ Exists(v + 1))'
    <3> SUFFICES ASSUME q = "inherit"
                 PROVE  (In(v, {"integrated"}) /\ head >= v /\ ~ Exists(v + 1))'
      OBVIOUS
    <3>1. v + 1 \in Waves BY <2>3 DEF Base, Sane, Waves
    <3>2. Owned(d, v) /\ In(v, {"integrated"}) /\ head >= v /\ ~ Exists(v + 1)
      BY <2>4 DEF Point, Driving
    <3>3. v + 1 # w BY <2>7, <3>2 DEF Waves
    <3> QED BY <1>2, <1>6, <1>9, <3>1, <3>2, <3>3 DEF Exists
  <2>14. (q = "drain" => ~ (Mine(d, v) /\ In(v, {"integrated"})))'
    BY <1>5, <1>6, <1>9, <2>4 DEF Point, Mine, In, Exists
  <2>15. (q = "write" => MayWrite(d, v))'
    <3> SUFFICES ASSUME q = "write" PROVE MayWrite(d, v)'
      OBVIOUS
    <3>1. MayWrite(d, v) BY <2>4 DEF Point
    <3>2. CASE v = 1 /\ claim = d /\ \A u \in Waves : ~ Exists(u)
      <4>1. w > 1 /\ Exists(w - 1) BY <1>1, <2>1, <3>2 DEF MayWrite, Owned
      <4> QED BY <3>2, <4>1 DEF Waves
    <3>3. CASE v > 1 /\ Owned(d, v - 1) /\ In(v - 1, {"integrated"}) /\ head >= v - 1 /\ ~ Exists(v)
      <4>1. v - 1 \in Waves BY <3>3 DEF Waves
      <4>2. v # w BY <2>7, <3>3, <4>1
      <4> QED BY <1>2, <1>6, <1>9, <2>6, <3>3, <4>1, <4>2 DEF MayWrite, Exists
    <3> QED BY <3>1, <3>2, <3>3 DEF MayWrite
  <2>16. Point(d, q, v)'
    BY <2>8, <2>9, <2>10, <2>11, <2>12, <2>13, <2>14, <2>15 DEF Point
  <2> QED BY <2>2, <2>16
<1> QED BY <1>10, <1>11, <1>12, <1>13 DEF Ordered

\* Every step keeps the order while no wave is borrowed.
LEMMA OrderedStep ==
  ASSUME Base, Ordered, ~ borrowed', [Next]_vars
  PROVE  Ordered'
<1>1. CASE UNCHANGED vars
  BY <1>1 DEF vars, Ordered, Prefix, Sealed, Loaded, Standing, Point, Owned, In, Exists,
              Dead, Mine, MayWrite
<1>2. CASE Next
  <2> SUFFICES ASSUME NEW c \in Coords, Begin(c) \/ Crash(c) \/ Works(c) \/ Startup(c)
                                        \/ Asked(c)
               PROVE  Ordered'
    BY <1>2 DEF Next
  <2>1. CASE Begin(c) BY <2>1, BeginOrdered
  <2>2. CASE Crash(c) BY <2>2, CrashOrdered
  <2>3. CASE StartupRecovers(c) BY <2>3, StartupRecoversOrdered
  <2>4. CASE StartupContinues(c) BY <2>4, StartupContinuesOrdered
  <2>5. CASE StartupOpens(c) BY <2>5, StartupOpensOrdered
  <2>6. CASE Open(c) BY <2>6, OpenOrdered
  <2>7. CASE Recover(c) BY <2>7, RecoverOrdered
  <2>8. CASE Rebind(c) BY <2>8, RebindOrdered
  <2>9. CASE Adopt(c) BY <2>9, AdoptOrdered
  <2>10. CASE Resume(c) BY <2>10, ResumeOrdered
  <2>11. CASE MemberMoves(c) BY <2>11, MemberMovesOrdered
  <2>12. CASE Recheck(c) BY <2>12, RecheckOrdered
  <2>13. CASE Advance(c) BY <2>13, AdvanceOrdered
  <2>14. CASE Notified(c) BY <2>14, NotifiedOrdered
  <2>15. CASE Cancel(c) BY <2>15, CancelOrdered
  <2>16. CASE Drained(c) BY <2>16, DrainedOrdered
  <2>17. CASE DriveEnds(c) BY <2>17, DriveEndsOrdered
  <2>18. CASE DriveContinues(c) BY <2>18, DriveContinuesOrdered
  <2>19. CASE DriveRepair(c) BY <2>19, DriveRepairOrdered
  <2>20. CASE DriveMembers(c) BY <2>20, DriveMembersOrdered
  <2>21. CASE Promote(c) BY <2>21, PromoteOrdered
  <2>22. CASE RecordIntegrated(c) BY <2>22, RecordIntegratedOrdered
  <2>23. CASE Reconcile(c) BY <2>23, ReconcileOrdered
  <2>24. CASE Release(c) BY <2>24, ReleaseOrdered
  <2>25. CASE ContinueStops(c) BY <2>25, ContinueStopsOrdered
  <2>26. CASE ContinueWaits(c) BY <2>26, ContinueWaitsOrdered
  <2>27. CASE ContinueLoads(c) BY <2>27, ContinueLoadsOrdered
  <2>28. CASE ContinueOpens(c) BY <2>28, ContinueOpensOrdered
  <2>29. CASE Inherit(c) BY <2>29, InheritOrdered
  <2>30. CASE StartupRefused(c) BY <2>30, StartupRefusedOrdered
  <2> QED BY <2>1, <2>2, <2>3, <2>4, <2>5, <2>6, <2>7, <2>8, <2>9, <2>10, <2>11,
             <2>12, <2>13, <2>14, <2>15, <2>16, <2>17, <2>18, <2>19, <2>20, <2>21,
             <2>22, <2>23, <2>24, <2>25, <2>26, <2>27, <2>28, <2>29, <2>30
          DEF Works, Startup, Asked
<1> QED BY <1>1, <1>2

\* What a step does to the owners: a new wave, a dead owner, or nothing.
LEMMA OwnersStep ==
  ASSUME IInv, [Next]_vars, NEW w \in Waves, Exists(w), ~ Dead(w), ~ borrowed
  PROVE  Exists(w)' /\ rec'[w].owner = rec[w].owner
<1>1. Base /\ Ordered BY DEF IInv
<1>2. CASE rec' = rec BY <1>2 DEF Exists
<1>3. CASE Kept BY <1>3 DEF Kept, Exists
<1>4. CASE Next
  <2> SUFFICES ASSUME NEW c \in Coords, Begin(c) \/ Crash(c) \/ Works(c) \/ Startup(c)
                                        \/ Asked(c)
               PROVE  (Exists(w)' /\ rec'[w].owner = rec[w].owner) \/ Kept \/ rec' = rec
    BY <1>2, <1>3, <1>4 DEF Next
  <2>1. ASSUME NEW p \in Points, Stands(c, p)
         PROVE  at[c].wave \in Waves /\ Point(c, p, at[c].wave)
    BY <1>1, <2>1, Place DEF Base, Ordered, Standing, Idle, Points
  <2>2. CASE Begin(c) BY <2>2 DEF Begin
  <2>3. CASE Crash(c) BY <2>3 DEF Crash
  <2>4. CASE StartupRecovers(c) BY <1>1, <2>4, StartupRecoversQuiet DEF Quiet
  <2>5. CASE StartupContinues(c) BY <1>1, <2>5, StartupContinuesQuiet DEF Quiet
  <2>6. CASE StartupOpens(c) BY <1>1, <2>6, StartupOpensQuiet DEF Quiet
  <2>7. CASE Open(c)
    <3>1. MayWrite(c, at[c].wave) BY <2>7, <2>1 DEF Open, Point, Points
    <3>2. ~ Exists(at[c].wave) BY <2>7, <2>1, <3>1 DEF MayWrite, Open, Points
    <3>3. rec' = [rec EXCEPT ![at[c].wave] = NewRecord(c)] BY <2>7 DEF Open, Writes
    <3> QED BY <1>1, <3>2, <3>3 DEF Exists, Base, TypeOK
  <2>8. CASE Recover(c) BY <1>1, <2>8, RecoverQuiet DEF Quiet
  <2>9. CASE Rebind(c) BY <1>1, <2>9, RebindQuiet DEF Quiet
  <2>10. CASE Adopt(c)
    <3>1. CASE c \in fresh
      <4>1. Dead(at[c].wave) BY <2>10, <2>1, <3>1 DEF Adopt, Point, Points
      <4>2. rec' = [rec EXCEPT ![at[c].wave] = [rec[at[c].wave] EXCEPT !.owner = c]]
        BY <2>10, <3>1 DEF Adopt, Writes
      <4>3. at[c].wave # w BY <4>1
      <4> QED BY <1>1, <4>2, <4>3 DEF Exists, Base, TypeOK
    <3>2. CASE c \notin fresh BY <2>10, <3>2 DEF Adopt
    <3> QED BY <3>1, <3>2
  <2>11. CASE Resume(c) BY <1>1, <2>11, ResumeQuiet DEF Quiet
  <2>12. CASE MemberMoves(c) BY <1>1, <2>12, MemberMovesQuiet DEF Quiet
  <2>13. CASE Recheck(c) BY <1>1, <2>13, RecheckQuiet DEF Quiet
  <2>14. CASE Advance(c) BY <1>1, <2>14, AdvanceQuiet DEF Quiet
  <2>15. CASE Notified(c) BY <1>1, <2>15, NotifiedQuiet DEF Quiet
  <2>16. CASE Cancel(c) BY <1>1, <2>16, CancelQuiet DEF Quiet
  <2>17. CASE Drained(c) BY <1>1, <2>17, DrainedQuiet DEF Quiet
  <2>18. CASE DriveEnds(c) BY <1>1, <2>18, DriveEndsQuiet DEF Quiet
  <2>19. CASE DriveContinues(c) BY <1>1, <2>19, DriveContinuesQuiet DEF Quiet
  <2>20. CASE DriveRepair(c) BY <1>1, <2>20, DriveRepairQuiet DEF Quiet
  <2>21. CASE DriveMembers(c) BY <1>1, <2>21, DriveMembersQuiet DEF Quiet
  <2>22. CASE Promote(c) BY <1>1, <2>22, PromoteQuiet DEF Quiet
  <2>23. CASE RecordIntegrated(c) BY <1>1, <2>23, RecordIntegratedQuiet DEF Quiet
  <2>24. CASE Reconcile(c) BY <1>1, <2>24, ReconcileQuiet DEF Quiet
  <2>25. CASE Release(c)
    <3>1. CASE Blocks(c, at[c].wave)
      BY <1>1, <2>25, <2>1, <3>1, BlocksKeep DEF Base, Release, Points
    <3>2. CASE rec' = rec BY <3>2
    <3> QED BY <2>25, <3>1, <3>2 DEF Release
  <2>26. CASE ContinueStops(c) BY <1>1, <2>26, ContinueStopsQuiet DEF Quiet
  <2>27. CASE ContinueWaits(c) BY <1>1, <2>27, ContinueWaitsQuiet DEF Quiet
  <2>28. CASE ContinueLoads(c) BY <1>1, <2>28, ContinueLoadsQuiet DEF Quiet
  <2>29. CASE ContinueOpens(c) BY <1>1, <2>29, ContinueOpensQuiet DEF Quiet
  <2>30. CASE Inherit(c) BY <1>1, <2>30, InheritQuiet DEF Quiet
  <2>31. CASE StartupRefused(c) BY <1>1, <2>31, StartupRefusedQuiet DEF Quiet
  <2> QED BY <2>2, <2>3, <2>4, <2>5, <2>6, <2>7, <2>8, <2>9, <2>10, <2>11, <2>12,
             <2>13, <2>14, <2>15, <2>16, <2>17, <2>18, <2>19, <2>20, <2>21, <2>22,
             <2>23, <2>24, <2>25, <2>26, <2>27, <2>28, <2>29, <2>30, <2>31
          DEF Works, Startup, Asked
<1>5. CASE UNCHANGED vars BY <1>2, <1>5 DEF vars
<1> QED BY <1>4, <1>5

\* The order holds at the start.
LEMMA OrderedInit == Init => Ordered
  BY DEF Init, Ordered, Prefix, Sealed, Loaded, Standing, In, Exists, Idle

\* The inductive invariant.
LEMMA IInvStep == ASSUME IInv, [Next]_vars PROVE IInv'
<1>1. Base' BY BaseStep DEF IInv
<1>2. borrowed => borrowed'
  <2>1. CASE UNCHANGED vars BY <2>1 DEF vars
  <2>2. CASE Next
    <3> SUFFICES ASSUME NEW c \in Coords, Begin(c) \/ Crash(c) \/ Works(c) \/ Startup(c)
                                          \/ Asked(c)
                 PROVE  borrowed => borrowed'
      BY <2>2 DEF Next
    <3>1. CASE Begin(c) BY <3>1 DEF Begin
    <3>2. CASE Crash(c) BY <3>2 DEF Crash
    <3>3. CASE StartupRecovers(c) BY <3>3 DEF StartupRecovers
    <3>4. CASE StartupContinues(c) BY <3>4 DEF StartupContinues
    <3>5. CASE StartupOpens(c) BY <3>5 DEF StartupOpens
    <3>6. CASE Open(c) BY <3>6 DEF Open
    <3>7. CASE Recover(c) BY <3>7 DEF Recover
    <3>8. CASE Rebind(c) BY <3>8 DEF Rebind
    <3>9. CASE Adopt(c) BY <3>9 DEF Adopt
    <3>10. CASE Resume(c) BY <3>10 DEF Resume
    <3>11. CASE MemberMoves(c) BY <3>11 DEF MemberMoves
    <3>12. CASE Recheck(c) BY <3>12 DEF Recheck
    <3>13. CASE Advance(c) BY <3>13 DEF Advance
    <3>14. CASE Notified(c) BY <3>14 DEF Notified
    <3>15. CASE Cancel(c) BY <3>15 DEF Cancel
    <3>16. CASE Drained(c) BY <3>16 DEF Drained
    <3>17. CASE DriveEnds(c) BY <3>17 DEF DriveEnds
    <3>18. CASE DriveContinues(c) BY <3>18 DEF DriveContinues
    <3>19. CASE DriveRepair(c) BY <3>19 DEF DriveRepair
    <3>20. CASE DriveMembers(c) BY <3>20 DEF DriveMembers
    <3>21. CASE Promote(c) BY <3>21 DEF Promote
    <3>22. CASE RecordIntegrated(c) BY <3>22 DEF RecordIntegrated
    <3>23. CASE Reconcile(c) BY <3>23 DEF Reconcile
    <3>24. CASE Release(c) BY <3>24 DEF Release
    <3>25. CASE ContinueStops(c) BY <3>25 DEF ContinueStops
    <3>26. CASE ContinueWaits(c) BY <3>26 DEF ContinueWaits
    <3>27. CASE ContinueLoads(c) BY <3>27 DEF ContinueLoads
    <3>28. CASE ContinueOpens(c) BY <3>28 DEF ContinueOpens
    <3>29. CASE Inherit(c) BY <3>29 DEF Inherit
    <3>30. CASE StartupRefused(c) BY <3>30 DEF StartupRefused
    <3> QED BY <3>1, <3>2, <3>3, <3>4, <3>5, <3>6, <3>7, <3>8, <3>9, <3>10, <3>11,
               <3>12, <3>13, <3>14, <3>15, <3>16, <3>17, <3>18, <3>19, <3>20, <3>21,
               <3>22, <3>23, <3>24, <3>25, <3>26, <3>27, <3>28, <3>29, <3>30
            DEF Works, Startup, Asked
  <2> QED BY <2>1, <2>2
<1>3. CASE borrowed BY <1>1, <1>2, <1>3 DEF IInv
<1>4. CASE ~ borrowed
  <2>1. Base /\ Ordered BY <1>4 DEF IInv
  <2>2. CASE borrowed' BY <1>1, <2>2 DEF IInv
  <2>3. CASE ~ borrowed'
    <3>1. Ordered' BY <2>1, <2>3, OrderedStep
    <3> QED BY <1>1, <3>1 DEF IInv
  <2> QED BY <2>2, <2>3
<1> QED BY <1>3, <1>4

\* It holds throughout.
LEMMA Inductive == Spec => []IInv
<1>1. Init => IInv BY BaseInit, OrderedInit DEF IInv
<1> QED BY <1>1, IInvStep, PTL DEF Spec

\* A wave is opened only when every wave before it is integrated and promoted,
\* unless a process drives a wave that it does not own.
THEOREM AlwaysInOrder == Spec => []InOrder
<1>1. IInv => InOrder
  <2> SUFFICES ASSUME IInv, NEW w \in Waves, Exists(w), ~ borrowed, NEW v \in 1..(w - 1)
               PROVE  In(v, {"integrated"}) /\ head >= v
    BY DEF InOrder
  <2>1. v \in Waves /\ v < w BY DEF Waves
  <2> QED BY <2>1 DEF IInv, Ordered, Prefix
<1> QED BY <1>1, Inductive, PTL

\* No wave is taken from a coordinator that lives, with the same exception.
THEOREM NeverStolen == Spec => NotStolen
<1>1. IInv /\ [Next]_vars =>
        [\A w \in Waves :
           Exists(w) /\ ~ Dead(w) => borrowed \/ (Exists(w)' /\ rec'[w].owner = rec[w].owner)]_vars
  BY OwnersStep
<1> QED BY <1>1, Inductive, PTL DEF Spec, NotStolen

================================================================================
