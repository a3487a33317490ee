----------------------- MODULE HandoffTopologyProofs -----------------------
(***************************************************************************)
(* Lemmas about splits and merges: what keeps the grid prefix-free, the    *)
(* ranges of live sessions disjoint and a change from waiting too long.    *)
(*                                                                         *)
(* Three of the predicates they use are not checks the code makes, and     *)
(* not every set of changes keeps them: AppliedCurrent, WaitingCurrent and *)
(* VacantOnce.  HandoffFamilyProofs proves them, and with them the         *)
(* conclusions, of changes that do not reach into one another.             *)
(***************************************************************************)
EXTENDS HandoffHistoryProofs

\* The genesis grid and the proposed changes are those of a prefix tree: a
\* change replaces shards by others of the same range.
ShardTree ==
  /\ DisjointCover(GenesisGrid)
  /\ \A c \in Changes : SameRange(c.old, c.new) /\ c.old \cap c.new = {}

\* What the grid step relies on of a change it applies: either the
\* shards it replaces are registered and, if one of them ever had a session, a
\* request sealed it; or the change is applied already.  A split that is
\* skipped leaves no request behind.
AppliedCurrent ==
  pass.stage = "flip" =>
    \A p \in pass.changes :
      \/ StaleSplit(p) /\ ~Scheduled(p)
      \/ ~StaleSplit(p) /\ p.change.old \subseteq grid /\ (Scheduled(p) \/ Sources(p) = {})
      \/ ~StaleSplit(p) /\ p.change.old \cap grid = {} /\ p.change.new \subseteq grid

\* The shards that a scheduled change waits for stay registered.
WaitingCurrent ==
  pass.stage \notin {"gate", "flip"} =>
    \A p \in pending : Scheduled(p) => p.change.old \subseteq grid

\* A range declared vacant may receive a session while its change is pending,
\* but no other change closes it meanwhile.
VacantOnce ==
  \A pr, po \in topology : pr[1] \in pending /\ po[1] \in pending /\ pr # po =>
    \A s \in po[2].sources : s[1] \notin pr[2].vacant

-----------------------------------------------------------------------------
(* The invariant. *)

\* The request of a change closes or declares vacant exactly the shards the
\* change replaces, and its targets are the shards that replace them.
RequestOfChange(p, r) ==
  /\ r \in requests
  /\ r.vacant \subseteq p.change.old
  /\ \A s \in r.sources : s[1] \in p.change.old
  /\ \A f \in p.change.old : f \in r.vacant \/ \E s \in r.sources : s[1] = f
  /\ \A t \in r.targets : t.filter \in p.change.new

\* A request is made by the reconciliation or for one change, which stays
\* pending until the request has activated.
PlanInv ==
  /\ \A pr \in topology : RequestOfChange(pr[1], pr[2])
  /\ \A pr, po \in topology : pr[1] = po[1] \/ pr[2] = po[2] => pr = po
  /\ \A pr \in topology : pr[1].effective <= Epoch(frame)
  /\ \A p \in dropped : p.effective <= Epoch(frame) /\ p \notin pending
  /\ \A pr \in topology : pr[2] \in activated \/ pr[1] \in pending
  /\ \A r \in requests : RenewsOneShard(r) \/ \E pr \in topology : pr[2] = r
  /\ \A r \in requests : \A s \in r.sources : closing[s] = r

\* What the pass knows of the changes it gates and flips.
PassInv ==
  /\ pass.stage = "gate" =>
       /\ pass.live = grid
       /\ pass.changes \subseteq pending /\ pass.ready \subseteq pending
       /\ pass.changes \cap pass.ready = {}
       /\ \A p \in pass.changes : p.effective <= Epoch(frame)
       /\ \A p \in pass.changes : Scheduled(p) => p.change.old \subseteq grid
       /\ \A pr \in topology : pr[1] \in pass.ready => pr[2] \in activated
  /\ pass.stage = "flip" =>
       /\ pass.changes \subseteq pending
       /\ \A pr \in topology : pr[1] \in pass.changes => pr[2] \in activated
  /\ pass.stage \in {"fence", "reconcile"} => pass.filters \subseteq grid

\* A source of a pending change remains the last session of its shard.
LastInv ==
  \A pr \in topology : pr[1] \in pending => \A s \in pr[2].sources : head[s[1]] = s[2]

\* A live session governs a registered shard, or one that a change is about
\* to register.
Placed(f) ==
  \/ f \in grid
  \/ \E pr \in topology :
       pr[1] \in pending /\ pr[2] \in activated /\ f \in pr[1].change.new

\* Sessions of shards once declared vacant are excepted, as in
\* LiveRangesDisjoint.
KeptPlaceInv == \A s \in SessionIds : Live(s) /\ s[1] \notin VacantRanges => Placed(s[1])

\* No pending change declared f vacant, or f received no session since.
Unvacated(f) ==
  \A pr \in topology : pr[1] \in pending /\ f \in pr[2].vacant => head[f] = 0

\* No session pass falls in the frames m .. n.
NoPassIn(m, n) == \A k \in m .. n : k % PassFrames # 0

\* How late the request of a pending change is: one that has not activated has
\* seen no session pass from its due frame on, and one that activated was let
\* through the gate unless it activated after it.
Timely(pr) ==
  /\ pr[2] \notin activated \/ pass.stage \in {"fence", "reconcile", "done"} =>
       NoPassIn(FenceDueFrame(pr[2]), frame - 1)
  /\ pr[2] \notin activated /\ pass.stage \in {"reconcile", "done"} =>
       NoPassIn(FenceDueFrame(pr[2]), frame)
  /\ pr[2] \in activated =>
       /\ pass.stage = "gate" => pr[1] \in pass.changes \cup pass.ready
       /\ pass.stage = "flip" => pr[1] \in pass.changes

TimeInv ==
  /\ \A pr \in topology : pr[1] \in pending => Timely(pr)
  /\ pass.stage = "fence" => \A f \in grid \ pass.filters : ~FenceDue(f)

-----------------------------------------------------------------------------
(* The grid. *)

\* Replacing registered shards by others of the same range keeps the grid
\* prefix-free.
LEMMA ReplacedGrid ==
  ASSUME NEW S \in SUBSET Filters, NEW old \in SUBSET S, NEW new \in SUBSET Filters,
         DisjointCover(S), SameRange(old, new)
  PROVE  DisjointCover((S \ old) \cup new)
<1> SUFFICES ASSUME NEW f \in (S \ old) \cup new, NEW g \in (S \ old) \cup new, f # g,
                    NEW x \in Cover[f], x \in Cover[g]
             PROVE  FALSE
  BY DEF DisjointCover
<1>1. ASSUME NEW a \in S \ old, NEW b \in new, x \in Cover[a], x \in Cover[b] PROVE FALSE
  <2>1. x \in UNION {Cover[h] : h \in new}
    BY <1>1
  <2>2. PICK h \in old : x \in Cover[h]
    BY <2>1 DEF SameRange
  <2> QED
    BY <1>1, <2>2 DEF DisjointCover
<1>2. CASE f \in S \ old /\ g \in S \ old
  BY <1>2 DEF DisjointCover
<1>3. CASE f \in new /\ g \in new
  BY <1>3 DEF SameRange, DisjointCover
<1> QED
  BY <1>1, <1>2, <1>3

\* Only a flip writes the grid.
LEMMA GridWrites ==
  ASSUME [Next]_vars
  PROVE  UNCHANGED grid \/ \E p \in pass.changes : Flip(p)
<1>1. CASE UNCHANGED vars
  BY <1>1 DEF vars, shards
<1>2. ASSUME NEW p \in pass.changes,
             \/ GateApply(p) \/ GateDrop(p) \/ GateWait(p)
             \/ \E m \in Committees(p.change) : GateSchedule(p, m)
      PROVE  UNCHANGED grid
  BY <1>2 DEF GateApply, GateDrop, GateWait, GateSchedule, shards
<1>3. CASE SessionPassStep
  BY <1>3 DEF SessionPassStep, FenceSkip, FenceSession, ReconcileFirst, ReconcileMembership,
              ReconcileSkip, shards
<1>4. CASE \/ BeginPass \/ EndGate \/ EndFlip \/ EndFence \/ EndPass \/ NextFrame \/ Horizon
  BY <1>4 DEF BeginPass, EndGate, EndFlip, EndFence, EndPass, NextFrame, Horizon, shards, vars
<1>5. CASE \/ \E s \in SessionIds, n \in AppFrames, d \in Digests : ExecuteHeader(s, n, d)
           \/ \E s \in SessionIds, c \in Checkpoint : SubmitSeal(s, c)
           \/ \E s \in SessionIds, c \in Checkpoint, n \in AppFrames, d \in Digests :
                SubmitPartialDrain(s, c, n, d)
           \/ \E c \in Changes : ProposeChange(c)
  BY <1>5 DEF ExecuteHeader, SubmitSeal, SubmitPartialDrain, ProposeChange, shards
<1> QED
  BY <1>1, <1>2, <1>3, <1>4, <1>5 DEF Next, PassStep, SessionPassStep

\* What a flip does to the grid.
LEMMA FlippedGrid ==
  ASSUME NEW p \in pass.changes, Flip(p), p.change \in Changes
  PROVE  grid' = IF StaleSplit(p) THEN grid ELSE (grid \ p.change.old) \cup p.change.new
BY DEF Flip, Flipped, StaleSplit

\* A change whose old shards are registered keeps the grid prefix-free.
LEMMA GridStep ==
  ASSUME ShardTree, IInv, GridPrefixFree, AppliedCurrent, [Next]_vars
  PROVE  GridPrefixFree'
<1>1. CASE UNCHANGED grid
  BY <1>1 DEF GridPrefixFree, DisjointCover
<1>2. ASSUME NEW p \in pass.changes, Flip(p) PROVE GridPrefixFree'
  <2> DEFINE c == p.change
  <2>1. c \in Changes /\ grid \in SUBSET Filters
    BY DEF IInv, WorkTypeOK, Pass, PendingChange
  <2>2. c.old \subseteq Filters /\ c.new \in SUBSET Filters
    BY <2>1, TopologyAssumption
  <2>3. grid' = IF StaleSplit(p) THEN grid ELSE (grid \ c.old) \cup c.new
    BY <1>2, <2>1, FlippedGrid
  <2>4. CASE StaleSplit(p) \/ (c.old \cap grid = {} /\ c.new \subseteq grid)
    <3>1. grid' = grid
      BY <2>3, <2>4
    <3> QED
      BY <3>1 DEF GridPrefixFree, DisjointCover
  <2>5. CASE ~StaleSplit(p) /\ c.old \subseteq grid
    <3>1. c.old \in SUBSET grid
      BY <2>5
    <3>2. SameRange(c.old, c.new)
      BY <2>1 DEF ShardTree
    <3> HIDE DEF c
    <3>3. DisjointCover((grid \ c.old) \cup c.new)
      BY <2>1, <2>2, <3>1, <3>2, ReplacedGrid DEF GridPrefixFree
    <3> QED
      BY <2>3, <2>5, <3>3 DEF GridPrefixFree, DisjointCover
  <2> QED
    BY <1>2, <2>4, <2>5 DEF AppliedCurrent, Flip
<1> QED
  BY <1>1, <1>2, GridWrites

-----------------------------------------------------------------------------
(* The kinds of steps, as the changes see them. *)

changeRecords ==
  <<head, status, closing, requests, activated, topology, dropped, grid, pending, frame>>

\* A source of r ends, by its seal or by a fence, and r may activate.
EndsSourceOf(r) ==
  /\ r \in requests \ activated
  /\ \E q \in r.sources : status[q] = "sealing"
  /\ activated' \in {activated, activated \cup {r}}
  /\ \A s \in SessionIds : status'[s] \in {"active", "sealing"} =>
       Live(s) \/ (r \in activated' /\ StaffedTarget(r, s))
  /\ \A f \in Filters : head'[f] # head[f] =>
       r \in activated' /\ \E t \in r.targets : t.filter = f
  /\ pass.stage \notin {"gate", "flip"} /\ pass'.stage \notin {"gate", "flip"}
  /\ UNCHANGED <<closing, requests, topology, dropped, grid, pending, frame>>

\* What EndSource writes, as the changes see it.
LEMMA EndEffectSeen ==
  ASSUME RecordInv, NEW q \in SessionIds, status[q] = "sealing",
         NEW seals, NEW fences, NEW replacement,
         EndSource(closing[q], seals, fences, replacement),
         pass.stage \notin {"gate", "flip"}, pass'.stage \notin {"gate", "flip"},
         UNCHANGED <<closing, requests, topology, dropped, grid, pending, frame>>
  PROVE  closing[q] \in Request /\ EndsSourceOf(closing[q])
<1> DEFINE r == closing[q]
<1>1. /\ r \in requests \ activated /\ r \in Request /\ q \in r.sources
      /\ EndEffect(r, seals, fences, replacement)
  BY EndSourceEffect
<1> HIDE DEF r
<1>2. activated' = IF Activates(r, seals, fences) THEN activated \cup {r} ELSE activated
  BY <1>1 DEF EndEffect
<1>3. ASSUME NEW s \in SessionIds, status'[s] \in {"active", "sealing"}
      PROVE  Live(s) \/ (r \in activated' /\ StaffedTarget(r, s))
  <2>1. CASE Succeeds(r, seals, fences, s)
    BY <1>2, <2>1 DEF Succeeds
  <2>2. CASE ~Succeeds(r, seals, fences, s)
    BY <1>1, <1>3, <2>2 DEF EndEffect, Live
  <2> QED
    BY <2>1, <2>2
<1>4. ASSUME NEW f \in Filters, head'[f] # head[f]
      PROVE  r \in activated' /\ \E t \in r.targets : t.filter = f
  BY <1>1, <1>2, <1>4 DEF EndEffect
<1> QED
  BY <1>1, <1>2, <1>3, <1>4 DEF EndsSourceOf, r

\* Every step either leaves the records that changes depend on alone or is of
\* one of eight kinds.
LEMMA ChangeKinds ==
  ASSUME IInv, [Next]_vars
  PROVE  \/ UNCHANGED changeRecords
         \/ \E r \in Request : EndsSourceOf(r)
         \/ \E c \in Changes : ProposeChange(c)
         \/ \E p \in pass.changes :
              GateDrop(p) \/ Flip(p) \/ \E m \in Committees(p.change) : GateSchedule(p, m)
         \/ \E f \in pass.filters : \E S \in SUBSET Provers :
              ReconcileFirst(f, S) \/ ReconcileMembership(f, S)
         \/ NextFrame
<1>0. RecordInv /\ RecordsTypeOK /\ pass.filters \subseteq Filters
  BY DEF IInv, RecordInv, WorkTypeOK, Pass
<1>1. CASE \/ UNCHANGED vars \/ BeginPass \/ EndGate \/ EndFlip \/ EndFence \/ EndPass
           \/ Horizon
           \/ \E p \in pass.changes : GateApply(p) \/ GateWait(p)
  BY <1>1 DEF BeginPass, EndGate, EndFlip, EndFence, EndPass, Horizon, GateApply, GateWait,
              records, shards, vars, changeRecords
<1>2. CASE \E f \in pass.filters :
             FenceSkip(f) \/ \E S \in SUBSET Provers : ReconcileSkip(f, S)
  BY <1>2 DEF FenceSkip, ReconcileSkip, records, shards, changeRecords
<1>3. CASE \/ \E s \in SessionIds, n \in AppFrames, d \in Digests : ExecuteHeader(s, n, d)
           \/ \E s \in SessionIds, c \in Checkpoint, n \in AppFrames, d \in Digests :
                SubmitPartialDrain(s, c, n, d)
  BY <1>3 DEF ExecuteHeader, SubmitPartialDrain, shards, changeRecords
<1>4. ASSUME NEW q \in SessionIds, NEW c \in Checkpoint, SubmitSeal(q, c)
      PROVE  \E r \in Request : EndsSourceOf(r)
  <2> DEFINE seals == [seal EXCEPT ![q] = c]
             fences == fence
             replacement == Unread
  <2>1. /\ status[q] = "sealing"
        /\ EndSource(closing[q], seals, fences, replacement)
    BY <1>0, <1>4, SealFacts
  <2>2. /\ pass.stage \notin {"gate", "flip"} /\ pass'.stage \notin {"gate", "flip"}
        /\ UNCHANGED <<closing, requests, topology, dropped, grid, pending, frame>>
    BY <1>4 DEF SubmitSeal, Messages, shards
  <2> HIDE DEF seals, fences, replacement
  <2> QED
    BY <1>0, <2>1, <2>2, EndEffectSeen
<1>5. ASSUME NEW f \in pass.filters, NEW S \in (SUBSET Provers) \cup {Unread}, FenceSession(f, S)
      PROVE  \E r \in Request : EndsSourceOf(r)
  <2> DEFINE q == HeadSession(f)
             seals == seal
             fences == [fence EXCEPT ![q] = Executed(q)]
             replacement == IF S = {} THEN Unread ELSE S
  <2>1. /\ q \in SessionIds /\ status[q] = "sealing"
        /\ EndSource(closing[q], seals, fences, replacement)
    BY <1>0, <1>5, FenceFacts
  <2>2. /\ pass.stage \notin {"gate", "flip"}
        /\ UNCHANGED <<closing, requests, topology, dropped, grid, pending, frame>>
    BY <1>5 DEF FenceSession, shards
  <2>3. pass'.stage \notin {"gate", "flip"}
    <3>1. pass \in Pass
      BY DEF IInv, WorkTypeOK
    <3>2. Walked(S).stage = pass.stage
      BY <1>5, <3>1, WalkedFields DEF FenceSession
    <3>3. pass'.stage = Walked(S).stage
      BY <1>5 DEF FenceSession, Walked
    <3> QED
      BY <2>2, <3>2, <3>3
  <2> HIDE DEF seals, fences, replacement, q
  <2> QED
    BY <1>0, <2>1, <2>2, <2>3, EndEffectSeen
<1> QED
  BY <1>1, <1>2, <1>3, <1>4, <1>5 DEF Next, PassStep

\* What scheduling a change writes.
LEMMA ScheduledChange ==
  ASSUME IInv, NEW p \in pass.changes, NEW m \in Committees(p.change), GateSchedule(p, m)
  PROVE  \E r \in Request :
           /\ r \notin requests /\ requests' = requests \cup {r}
           /\ topology' = topology \cup {<<p, r>>}
           /\ \A s \in r.sources : status[s] = "active" /\ s = HeadSession(s[1])
           /\ status' = [s \in SessionIds |-> IF s \in r.sources THEN "sealing" ELSE status[s]]
           /\ closing' = [s \in SessionIds |-> IF s \in r.sources THEN r ELSE closing[s]]
           /\ r.vacant \subseteq p.change.old
           /\ \A s \in r.sources : s[1] \in p.change.old
           /\ \A f \in p.change.old : f \in r.vacant \/ \E s \in r.sources : s[1] = f
           /\ \A t \in r.targets : t.filter \in p.change.new
           /\ \A f \in p.change.new : \E t \in r.targets : t.filter = f
           /\ \A f \in r.vacant : head[f] = 0
           /\ pass.stage = "gate" /\ ~Scheduled(p)
           /\ UNCHANGED <<head, activated, dropped, grid, pending, frame>>
<1> DEFINE r == NewRequest(Sources(p), Vacant(p), m)
<1>1. r \in Request /\ MakesRequest(r)
  BY ChangeShape
<1>2. /\ r \notin requests /\ Schedule(r) /\ topology' = topology \cup {<<p, r>>}
      /\ pass.stage = "gate" /\ ~Scheduled(p)
      /\ UNCHANGED <<head, activated, dropped, grid, pending, frame>>
  BY DEF GateSchedule, Schedulable, Gateable, shards
<1>3. DOMAIN m = p.change.new
  BY DEF Committees
<1>4. /\ r.vacant = Vacant(p)
      /\ r.sources = {HeadSession(f) : f \in Sources(p)}
      /\ r.targets = {[filter |-> f, members |-> m[f], generation |-> head[f] + 1]
                        : f \in p.change.new}
  BY <1>3 DEF NewRequest
<1> HIDE DEF r
<1>5. \A s \in r.sources : status[s] = "active"
  BY <1>1 DEF MakesRequest
<1>6. \A s \in r.sources : \E f \in Sources(p) : s = HeadSession(f) /\ s[1] = f
  BY <1>4 DEF HeadSession
<1>7. /\ \A t \in r.targets : t.filter \in p.change.new
      /\ \A f \in p.change.new : \E t \in r.targets : t.filter = f
      /\ \A f \in r.vacant : head[f] = 0
  <2>1. \A t \in r.targets : t.filter \in p.change.new
    BY <1>4
  <2>2. ASSUME NEW f \in p.change.new PROVE \E t \in r.targets : t.filter = f
    <3> DEFINE t == [filter |-> f, members |-> m[f], generation |-> head[f] + 1]
    <3>1. t \in r.targets /\ t.filter = f
      BY <1>4
    <3> QED
      BY <3>1
  <2>3. \A f \in r.vacant : head[f] = 0
    BY <1>4 DEF Vacant
  <2> QED
    BY <2>1, <2>2, <2>3
<1>8. ASSUME NEW f \in p.change.old PROVE f \in r.vacant \/ \E s \in r.sources : s[1] = f
  <2>1. f \in Vacant(p) \/ f \in Sources(p)
    BY DEF Sources, Vacant
  <2>2. f \in Sources(p) => HeadSession(f) \in r.sources
    BY <1>4
  <2>3. HeadSession(f)[1] = f
    BY DEF HeadSession
  <2> QED
    BY <2>1, <2>2, <2>3, <1>4
<1>9. r.vacant \subseteq p.change.old /\ \A s \in r.sources : s[1] \in p.change.old
  BY <1>4, <1>6 DEF Sources, Vacant
<1>10. /\ requests' = requests \cup {r}
       /\ status' = [s \in SessionIds |-> IF s \in r.sources THEN "sealing" ELSE status[s]]
       /\ closing' = [s \in SessionIds |-> IF s \in r.sources THEN r ELSE closing[s]]
  BY <1>2 DEF Schedule
<1>11. \A s \in r.sources : s = HeadSession(s[1])
  BY <1>6
<1> r \in Request
  BY <1>1
<1> WITNESS r \in Request
<1> QED
  BY <1>2, <1>5, <1>7, <1>8, <1>9, <1>10, <1>11

-----------------------------------------------------------------------------
(* Requests and changes. *)

\* Later frames are of the same epoch or of later ones.
LEMMA EpochOfFrame ==
  ASSUME NEW m \in Nat, NEW n \in Nat, m <= n
  PROVE  Epoch(m) \in Nat /\ Epoch(n) \in Nat /\ Epoch(m) <= Epoch(n)
<1> DEFINE E == EpochFrames
           q == m \div E
           s == n \div E
<1>1. E \in Nat /\ E > 0
  BY ConstantsAssumption
<1>2. /\ q \in Int /\ s \in Int
      /\ m = E * q + (m % E) /\ n = E * s + (n % E)
      /\ m % E \in 0 .. E - 1 /\ n % E \in 0 .. E - 1
  BY <1>1, SMT
<1> QED
  BY <1>1, <1>2, SMT DEF Epoch

\* What the proofs below need of the types.
LEMMA ChangeTypes ==
  ASSUME IInv
  PROVE  /\ RecordInv /\ RecordsTypeOK /\ RequestInv /\ pass \in Pass
         /\ frame \in Nat /\ frame >= 1 /\ Epoch(frame) \in Nat
         /\ \A pr \in topology :
              /\ pr[1] \in PendingChange /\ pr[2] \in Request /\ pr = <<pr[1], pr[2]>>
              /\ pr[1].change \in Changes /\ pr[1].effective \in Nat
         /\ \A p \in pending \cup dropped \cup pass.changes \cup pass.ready :
              p.change \in Changes /\ p.effective \in Nat
         /\ grid \in SUBSET Filters
<1>1. RecordInv /\ RecordsTypeOK /\ RequestInv /\ pass \in Pass /\ frame \in 1 .. MaxFrame
  BY DEF IInv, RecordInv, WorkTypeOK
<1>2. frame \in Nat /\ frame >= 1
  BY <1>1, ConstantsAssumption
<1>3. Epoch(frame) \in Nat
  BY <1>2, EpochOfFrame
<1>4. topology \subseteq PendingChange \X Request
  BY DEF IInv, WorkTypeOK
<1>5. \A p \in PendingChange : p.change \in Changes /\ p.effective \in Nat
  BY DEF PendingChange
<1>6. pending \cup dropped \cup pass.changes \cup pass.ready \subseteq PendingChange
  BY <1>1 DEF IInv, WorkTypeOK, Pass
<1>7. grid \in SUBSET Filters
  BY DEF IInv, WorkTypeOK
<1>8. \A pr \in topology : pr[1] \in PendingChange /\ pr[2] \in Request /\ pr = <<pr[1], pr[2]>>
  BY <1>4
<1> QED
  BY <1>1, <1>2, <1>3, <1>5, <1>6, <1>7, <1>8

\* A source of a request that was made is not active any more, so the next
\* request does not close it again.
LEMMA ClosingKept ==
  ASSUME RequestInv, \A r \in requests : \A s \in r.sources : closing[s] = r,
         requests \subseteq Request, NEW r \in Request,
         requests' = requests \cup {r},
         \A s \in r.sources : status[s] = "active",
         closing' = [s \in SessionIds |-> IF s \in r.sources THEN r ELSE closing[s]]
  PROVE  \A o \in requests' : \A s \in o.sources : closing'[s] = o
<1> SUFFICES ASSUME NEW o \in requests', NEW s \in o.sources
             PROVE  closing'[s] = o
  OBVIOUS
<1>1. s \in SessionIds
  BY DEF Request
<1>2. o = r \/ o \in requests
  OBVIOUS
<1>3. o \in requests => status[s] # "active"
  BY DEF RequestInv
<1> QED
  BY <1>1, <1>2, <1>3

\* A pending change keeps its record when another is proposed: a change that
\* was scheduled or dropped was due, a proposed one is not.
LEMMA ProposedPending ==
  ASSUME IInv, NEW c \in Changes, ProposeChange(c)
  PROVE  /\ \A p \in pending : p.effective <= Epoch(frame) => p \in pending'
         /\ \A p \in pending' : p.effective <= Epoch(frame) => p \in pending
<1> DEFINE e == Epoch(frame) + EffectiveDelay
<1>1. Epoch(frame) \in Nat
  BY ChangeTypes
<1>2. e \in Nat /\ e > Epoch(frame)
  BY <1>1, ConstantsAssumption
<1>3. pending' = {p \in pending : p.change.parent # c.parent \/ p.effective # e}
                   \cup {[change |-> c, effective |-> e, proposed |-> frame]}
  BY DEF ProposeChange
<1> HIDE DEF e
<1>4. ASSUME NEW p \in pending, p.effective <= Epoch(frame) PROVE p \in pending'
  <2>1. p.effective # e
    BY <1>1, <1>2, <1>4
  <2> QED
    BY <2>1, <1>3
<1>5. ASSUME NEW p \in pending', p.effective <= Epoch(frame) PROVE p \in pending
  <2>1. p = [change |-> c, effective |-> e, proposed |-> frame] => p.effective = e
    OBVIOUS
  <2>2. p.effective # e
    BY <1>1, <1>2, <1>5
  <2> QED
    BY <2>1, <2>2, <1>3
<1> QED
  BY <1>4, <1>5

\* A change that the gate drops has no request.
LEMMA DroppedUnscheduled ==
  ASSUME PlanInv, PassInv, NEW p \in pass.changes, GateDrop(p)
  PROVE  ~Scheduled(p) /\ p \in pending /\ p.effective <= Epoch(frame)
<1>1. p \in pending /\ p.effective <= Epoch(frame)
  BY DEF GateDrop, PassInv
<1>2. p \notin dropped
  BY <1>1 DEF PlanInv
<1> QED
  BY <1>1, <1>2 DEF GateDrop, Gateable

\* Every step keeps what requests and changes are to one another.
LEMMA PlanStep ==
  ASSUME IInv, PlanInv, PassInv, [Next]_vars
  PROVE  PlanInv'
<1>0. /\ RequestInv /\ frame \in Nat /\ Epoch(frame) \in Nat /\ requests \subseteq Request
      /\ \A pr \in topology : pr[1].effective \in Nat
      /\ \A p \in dropped : p.effective \in Nat
  BY ChangeTypes DEF RecordsTypeOK
<1>1. CASE UNCHANGED changeRecords
  BY <1>1 DEF changeRecords, PlanInv, RequestOfChange, RenewsOneShard, Epoch
<1>2. ASSUME NEW r \in Request, EndsSourceOf(r) PROVE PlanInv'
  <2>1. /\ activated \subseteq activated'
        /\ UNCHANGED <<closing, requests, topology, dropped, pending, frame>>
    BY <1>2 DEF EndsSourceOf
  <2> QED
    BY <2>1 DEF PlanInv, RequestOfChange, RenewsOneShard, Epoch
<1>3. ASSUME NEW c \in Changes, ProposeChange(c) PROVE PlanInv'
  <2>1. UNCHANGED <<closing, requests, topology, dropped, activated, frame>>
    BY <1>3 DEF ProposeChange, records
  <2>2. /\ \A p \in pending : p.effective <= Epoch(frame) => p \in pending'
        /\ \A p \in pending' : p.effective <= Epoch(frame) => p \in pending
    BY <1>3, ProposedPending
  <2>3. \A pr \in topology : pr[2] \in activated \/ pr[1] \in pending'
    BY <2>2 DEF PlanInv
  <2>4. \A p \in dropped : p \notin pending'
    BY <2>2 DEF PlanInv
  <2> QED
    BY <2>1, <2>3, <2>4 DEF PlanInv, RequestOfChange, RenewsOneShard, Epoch
<1>4. ASSUME NEW p \in pass.changes, GateDrop(p) PROVE PlanInv'
  <2>1. /\ dropped' = dropped \cup {p} /\ pending' = pending \ {p}
        /\ UNCHANGED <<closing, requests, topology, activated, frame>>
    BY <1>4 DEF GateDrop
  <2>2. ~Scheduled(p) /\ p.effective <= Epoch(frame)
    BY <1>4, DroppedUnscheduled
  <2>3. \A pr \in topology : pr[2] \in activated \/ pr[1] \in pending'
    BY <2>1, <2>2 DEF PlanInv, Scheduled
  <2>4. \A o \in dropped' : o.effective <= Epoch(frame) /\ o \notin pending'
    BY <2>1, <2>2 DEF PlanInv
  <2> QED
    BY <2>1, <2>3, <2>4 DEF PlanInv, RequestOfChange, RenewsOneShard, Epoch
<1>5. ASSUME NEW p \in pass.changes, Flip(p) PROVE PlanInv'
  <2>1. /\ pending' = pending \ {p} /\ pass.stage = "flip"
        /\ UNCHANGED <<closing, requests, topology, dropped, activated, frame>>
    BY <1>5 DEF Flip, records
  <2>2. \A pr \in topology : pr[2] \in activated \/ pr[1] \in pending'
    BY <2>1 DEF PlanInv, PassInv
  <2> QED
    BY <2>1, <2>2 DEF PlanInv, RequestOfChange, RenewsOneShard, Epoch
<1>6. ASSUME NEW p \in pass.changes, NEW m \in Committees(p.change), GateSchedule(p, m)
      PROVE  PlanInv'
  <2>1. PICK r \in Request :
           /\ r \notin requests /\ requests' = requests \cup {r}
           /\ topology' = topology \cup {<<p, r>>}
           /\ \A s \in r.sources : status[s] = "active"
           /\ closing' = [s \in SessionIds |-> IF s \in r.sources THEN r ELSE closing[s]]
           /\ r.vacant \subseteq p.change.old
           /\ \A s \in r.sources : s[1] \in p.change.old
           /\ \A f \in p.change.old : f \in r.vacant \/ \E s \in r.sources : s[1] = f
           /\ \A t \in r.targets : t.filter \in p.change.new
           /\ pass.stage = "gate" /\ ~Scheduled(p)
           /\ UNCHANGED <<activated, dropped, pending, frame>>
    BY <1>6, ScheduledChange
  <2>2. p \in pending /\ p.effective <= Epoch(frame)
    BY <2>1 DEF PassInv
  <2>3. \A pr \in topology : pr[1] # p /\ pr[2] # r
    BY <2>1 DEF Scheduled, PlanInv, RequestOfChange
  <2>4. ASSUME NEW pr \in topology' PROVE RequestOfChange(pr[1], pr[2])'
    <3>1. CASE pr \in topology
      BY <2>1, <3>1 DEF PlanInv, RequestOfChange
    <3>2. CASE pr = <<p, r>>
      BY <2>1, <3>2 DEF RequestOfChange
    <3> QED
      BY <2>1, <3>1, <3>2
  <2>5. \A pr, po \in topology' : pr[1] = po[1] \/ pr[2] = po[2] => pr = po
    BY <2>1, <2>3 DEF PlanInv
  <2>6. \A pr \in topology' : pr[1].effective <= Epoch(frame)
    BY <2>1, <2>2 DEF PlanInv
  <2>7. \A pr \in topology' : pr[2] \in activated \/ pr[1] \in pending
    BY <2>1, <2>2 DEF PlanInv
  <2>8. ASSUME NEW o \in requests' PROVE RenewsOneShard(o) \/ \E pr \in topology' : pr[2] = o
    <3>1. CASE o \in requests
      BY <2>1, <3>1 DEF PlanInv
    <3>2. CASE o = r
      <4>1. <<p, r>> \in topology' /\ <<p, r>>[2] = o
        BY <2>1, <3>2
      <4> QED
        BY <4>1
    <3> QED
      BY <2>1, <3>1, <3>2
  <2>9. \A o \in requests' : \A s \in o.sources : closing'[s] = o
    BY <1>0, <2>1, ClosingKept DEF PlanInv
  <2> QED
    BY <2>1, <2>4, <2>5, <2>6, <2>7, <2>8, <2>9 DEF PlanInv, RenewsOneShard, Epoch
<1>7. ASSUME NEW f \in pass.filters, NEW S \in SUBSET Provers, ReconcileMembership(f, S)
      PROVE  PlanInv'
  <2> DEFINE r == NewRequest({f}, {}, [g \in {f} |-> S])
  <2>1. r \in Request /\ MakesRequest(r) /\ Schedule(r) /\ RenewsOneShard(r)
    <3>1. r \in Request /\ MakesRequest(r) /\ r.sources = {HeadSession(f)}
          /\ \A t \in r.targets : t.filter = f
      BY <1>7, RenewalShape
    <3>2. r.vacant = {}
          /\ r.targets = {[filter |-> f, members |-> S, generation |-> head[f] + 1]}
      BY DEF NewRequest
    <3> HIDE DEF r
    <3>3. HeadSession(f) \in SessionIds /\ HeadSession(f)[1] = f
      BY <3>1 DEF Request, HeadSession
    <3>4. [filter |-> f, members |-> S, generation |-> head[f] + 1] \in Target
      BY <3>1, <3>2 DEF Request
    <3>5. RenewsOneShard(r)
      BY <3>1, <3>2, <3>3, <3>4 DEF RenewsOneShard
    <3> QED
      BY <3>1, <3>5 DEF MakesRequest
  <2>2. UNCHANGED <<activated, topology, dropped, pending, frame>>
    BY <1>7 DEF ReconcileMembership, shards
  <2> HIDE DEF r
  <2>3. /\ requests' = requests \cup {r} /\ \A s \in r.sources : status[s] = "active"
        /\ closing' = [s \in SessionIds |-> IF s \in r.sources THEN r ELSE closing[s]]
    BY <2>1 DEF MakesRequest, Schedule
  <2>4. \A o \in requests' : \A s \in o.sources : closing'[s] = o
    BY <1>0, <2>1, <2>3, ClosingKept DEF PlanInv
  <2>5. \A o \in requests' : RenewsOneShard(o) \/ \E pr \in topology : pr[2] = o
    BY <2>1, <2>3 DEF PlanInv
  <2>6. \A pr \in topology : RequestOfChange(pr[1], pr[2])'
    BY <2>2, <2>3 DEF PlanInv, RequestOfChange
  <2> QED
    BY <2>2, <2>4, <2>5, <2>6 DEF PlanInv, RenewsOneShard, Epoch
<1>8. ASSUME NEW f \in pass.filters, NEW S \in SUBSET Provers, ReconcileFirst(f, S)
      PROVE  PlanInv'
  <2>1. UNCHANGED <<closing, requests, topology, dropped, activated, pending, frame>>
    BY <1>8 DEF ReconcileFirst, shards
  <2> QED
    BY <2>1 DEF PlanInv, RequestOfChange, RenewsOneShard, Epoch
<1>9. CASE NextFrame
  <2>1. /\ frame' = frame + 1
        /\ UNCHANGED <<closing, requests, topology, dropped, activated, pending>>
    BY <1>9 DEF NextFrame, records, shards
  <2>2. Epoch(frame) <= Epoch(frame + 1) /\ Epoch(frame + 1) \in Nat
    BY <1>0, EpochOfFrame
  <2>3. Epoch(frame)' = Epoch(frame + 1)
    BY <2>1 DEF Epoch
  <2>4. \A pr \in topology' : pr[1].effective <= Epoch(frame)'
    BY <1>0, <2>1, <2>2, <2>3 DEF PlanInv
  <2>5. \A p \in dropped' : p.effective <= Epoch(frame)'
    BY <1>0, <2>1, <2>2, <2>3 DEF PlanInv
  <2> QED
    BY <2>1, <2>4, <2>5 DEF PlanInv, RequestOfChange, RenewsOneShard
<1> QED
  BY <1>1, <1>2, <1>3, <1>4, <1>5, <1>6, <1>7, <1>8, <1>9, ChangeKinds

\* Every step of the pass keeps what it knows of its changes and shards.
LEMMA PassInvStep ==
  ASSUME IInv, PlanInv, PassInv, WaitingCurrent, [Next]_vars
  PROVE  PassInv'
<1>0. pass \in Pass /\ \A p \in pass.changes : p.change \in Changes
  BY ChangeTypes
<1>1. CASE UNCHANGED vars
  BY <1>1 DEF PassInv, Scheduled, Epoch, vars, records, shards
<1>2. CASE pass'.stage \in {"open", "done"}
  BY <1>2 DEF PassInv
<1>3. CASE pass.stage = "open" /\ pass' = StartedPass
           /\ UNCHANGED <<activated, topology, grid, pending, frame>>
  <2>1. /\ pass'.stage = "gate" /\ pass'.live = grid /\ pass'.ready = {}
        /\ pass'.changes = {p \in pending : p.effective <= Epoch(frame)}
    BY <1>3 DEF StartedPass, IdlePass
  <2>2. \A p \in pending : Scheduled(p) => p.change.old \subseteq grid
    BY <1>3 DEF WaitingCurrent
  <2> QED
    BY <1>3, <2>1, <2>2 DEF PassInv, Scheduled, Epoch
<1>4. CASE \/ BeginPass
           \/ \E s \in SessionIds, n \in AppFrames, d \in Digests : ExecuteHeader(s, n, d)
  <2>1. CASE pass.stage = "open" /\ pass' = StartedPass
             /\ UNCHANGED <<activated, topology, grid, pending, frame>>
    BY <1>3, <2>1
  <2>2. CASE pass.stage = "done" /\ pass' = pass
    BY <1>2, <2>2
  <2> QED
    BY <1>4, <2>1, <2>2 DEF BeginPass, ExecuteHeader, Messages, records, shards
<1>5. CASE \/ \E s \in SessionIds, c \in Checkpoint : SubmitSeal(s, c)
           \/ \E s \in SessionIds, c \in Checkpoint, n \in AppFrames, d \in Digests :
                SubmitPartialDrain(s, c, n, d)
           \/ \E c \in Changes : ProposeChange(c)
           \/ NextFrame \/ EndPass \/ Horizon
  <2>1. IdlePass("open").stage = "open" /\ IdlePass("done").stage = "done"
    BY DEF IdlePass
  <2>2. pass'.stage \in {"open", "done"}
    BY <1>5, <2>1 DEF SubmitSeal, SubmitPartialDrain, ProposeChange, Messages, NextFrame,
                      EndPass, Horizon, vars
  <2> QED
    BY <1>2, <2>2
<1>6. ASSUME NEW p \in pass.changes, GateApply(p) PROVE PassInv'
  <2>1. /\ pass.stage = "gate" /\ Applies(p)
        /\ pass' = [pass EXCEPT !.changes = @ \ {p}, !.ready = @ \cup {p}]
        /\ UNCHANGED <<activated, topology, grid, pending, frame>>
    BY <1>6 DEF GateApply, records, shards
  <2>2. /\ pass'.stage = "gate" /\ pass'.live = pass.live
        /\ pass'.changes = pass.changes \ {p} /\ pass'.ready = pass.ready \cup {p}
    BY <1>0, <2>1 DEF Pass
  <2>3. Scheduled(p) => ~StaleSplit(p)
    <3> SUFFICES ASSUME Scheduled(p), StaleSplit(p) PROVE FALSE
      OBVIOUS
    <3>1. p.change.old \subseteq grid /\ pass.live = grid
      BY <2>1 DEF PassInv
    <3>2. p.change.old = {p.change.parent} /\ p.change.parent \notin pass.live
      BY <1>0, TopologyAssumption DEF StaleSplit
    <3> QED
      BY <3>1, <3>2
  <2>4. \A pr \in topology : pr[1] = p => pr[2] \in activated
    <3> SUFFICES ASSUME NEW pr \in topology, pr[1] = p PROVE pr[2] \in activated
      OBVIOUS
    <3>1. Scheduled(p)
      BY DEF Scheduled
    <3>2. PICK po \in topology : po[1] = p /\ po[2] \in activated
      BY <2>1, <2>3, <3>1 DEF Applies
    <3> QED
      BY <3>2 DEF PlanInv
  <2> QED
    BY <2>1, <2>2, <2>4 DEF PassInv, Scheduled, Epoch
<1>7. ASSUME NEW p \in pass.changes, GateDrop(p) PROVE PassInv'
  <2>1. /\ pass.stage = "gate" /\ pending' = pending \ {p}
        /\ pass' = [pass EXCEPT !.changes = @ \ {p}]
        /\ UNCHANGED <<activated, topology, grid, frame>>
    BY <1>7 DEF GateDrop
  <2>2. /\ pass'.stage = "gate" /\ pass'.live = pass.live
        /\ pass'.changes = pass.changes \ {p} /\ pass'.ready = pass.ready
    BY <1>0, <2>1 DEF Pass
  <2> QED
    BY <2>1, <2>2 DEF PassInv, Scheduled, Epoch
<1>8. ASSUME NEW p \in pass.changes, GateWait(p) PROVE PassInv'
  <2>1. /\ pass.stage = "gate" /\ pass' = [pass EXCEPT !.changes = @ \ {p}]
        /\ UNCHANGED <<activated, topology, grid, pending, frame>>
    BY <1>8 DEF GateWait, records, shards
  <2>2. /\ pass'.stage = "gate" /\ pass'.live = pass.live
        /\ pass'.changes = pass.changes \ {p} /\ pass'.ready = pass.ready
    BY <1>0, <2>1 DEF Pass
  <2> QED
    BY <2>1, <2>2 DEF PassInv, Scheduled, Epoch
<1>9. ASSUME NEW p \in pass.changes, NEW m \in Committees(p.change), GateSchedule(p, m)
      PROVE  PassInv'
  <2>1. /\ pass.stage = "gate" /\ pass' = [pass EXCEPT !.changes = @ \ {p}]
    BY <1>9 DEF GateSchedule
  <2>2. /\ pass'.stage = "gate" /\ pass'.live = pass.live
        /\ pass'.changes = pass.changes \ {p} /\ pass'.ready = pass.ready
    BY <1>0, <2>1 DEF Pass
  <2>3. PICK r \in Request : /\ topology' = topology \cup {<<p, r>>}
                             /\ UNCHANGED <<activated, grid, pending, frame>>
    BY <1>9, ScheduledChange
  <2>4. \A o \in pass'.changes : Scheduled(o)' => Scheduled(o)
    BY <2>2, <2>3 DEF Scheduled
  <2>5. \A pr \in topology' : pr[1] \in pass'.ready => pr \in topology
    BY <2>1, <2>2, <2>3 DEF PassInv
  <2> QED
    BY <2>1, <2>2, <2>3, <2>4, <2>5 DEF PassInv, Epoch
<1>10. CASE EndGate
  <2>1. /\ pass.stage = "gate"
        /\ pass' = [pass EXCEPT !.stage = "flip", !.changes = pass.ready, !.ready = {}]
        /\ UNCHANGED <<activated, topology, pending>>
    BY <1>10 DEF EndGate, records, shards
  <2>2. pass'.stage = "flip" /\ pass'.changes = pass.ready
    BY <1>0, <2>1 DEF Pass
  <2> QED
    BY <2>1, <2>2 DEF PassInv
<1>11. ASSUME NEW p \in pass.changes, Flip(p) PROVE PassInv'
  <2>1. /\ pass.stage = "flip" /\ pending' = pending \ {p}
        /\ \E l : pass' = [pass EXCEPT !.changes = @ \ {p}, !.live = l]
        /\ UNCHANGED <<activated, topology>>
    BY <1>11 DEF Flip, records
  <2>2. pass'.stage = "flip" /\ pass'.changes = pass.changes \ {p}
    BY <1>0, <2>1 DEF Pass
  <2> QED
    BY <2>1, <2>2 DEF PassInv
<1>12. CASE EndFlip
  <2>1. /\ pass' = [IdlePass("fence") EXCEPT !.filters = grid] \/ pass' = IdlePass("done")
        /\ UNCHANGED grid
    BY <1>12 DEF EndFlip, shards
  <2>2. /\ pass' = [IdlePass("fence") EXCEPT !.filters = grid] =>
             pass'.stage = "fence" /\ pass'.filters = grid
        /\ pass' = IdlePass("done") => pass'.stage = "done"
    BY DEF IdlePass
  <2> QED
    BY <2>1, <2>2 DEF PassInv
<1>13. CASE EndFence
  <2>1. /\ \/ pass' = [pass EXCEPT !.stage = "reconcile", !.filters = grid]
           \/ pass' = IdlePass("done")
        /\ UNCHANGED grid
    BY <1>13 DEF EndFence, shards
  <2>2. CASE pass' = [pass EXCEPT !.stage = "reconcile", !.filters = grid]
    <3>1. pass'.stage = "reconcile" /\ pass'.filters = grid
      BY <1>0, <2>2 DEF Pass
    <3> QED
      BY <2>1, <3>1 DEF PassInv
  <2>3. CASE pass' = IdlePass("done")
    BY <1>2, <2>3 DEF IdlePass
  <2> QED
    BY <2>1, <2>2, <2>3
<1>14. CASE SessionPassStep
  <2>1. /\ pass.stage \in {"fence", "reconcile"} /\ pass.filters # {} /\ UNCHANGED grid
        /\ \E S \in (SUBSET Provers) \cup {Unread} :
             pass' = Walked(S) \/ pass' = [Walked(S) EXCEPT !.fenced = @ \cup {NextFilter}]
    <3>1. PICK f \in pass.filters :
            \/ FenceSkip(f)
            \/ \E S \in (SUBSET Provers) \cup {Unread} : FenceSession(f, S)
            \/ \E S \in SUBSET Provers :
                 ReconcileFirst(f, S) \/ ReconcileMembership(f, S) \/ ReconcileSkip(f, S)
      BY <1>14 DEF SessionPassStep
    <3>2. CASE FenceSkip(f)
      BY <3>2 DEF FenceSkip, shards
    <3>3. CASE \E S \in (SUBSET Provers) \cup {Unread} : FenceSession(f, S)
      BY <3>3 DEF FenceSession, shards
    <3>4. CASE \E S \in SUBSET Provers :
                 ReconcileFirst(f, S) \/ ReconcileMembership(f, S) \/ ReconcileSkip(f, S)
      BY <3>4 DEF ReconcileFirst, ReconcileMembership, ReconcileSkip, shards
    <3> QED
      BY <3>1, <3>2, <3>3, <3>4
  <2>2. PICK S \in (SUBSET Provers) \cup {Unread} :
             pass' = Walked(S) \/ pass' = [Walked(S) EXCEPT !.fenced = @ \cup {NextFilter}]
    BY <2>1
  <2>3. Walked(S).stage = pass.stage /\ Walked(S).filters \subseteq pass.filters
    BY <1>0, <2>1, WalkedFields
  <2>4. pass'.stage = pass.stage /\ pass'.filters \subseteq pass.filters
    <3>1. CASE pass' = Walked(S)
      BY <2>3, <3>1
    <3>2. CASE pass' = [Walked(S) EXCEPT !.fenced = @ \cup {NextFilter}]
      BY <2>3, <3>2 DEF Walked
    <3> QED
      BY <2>2, <3>1, <3>2
  <2> QED
    BY <2>1, <2>4 DEF PassInv
<1> QED
  BY <1>1, <1>4, <1>5, <1>6, <1>7, <1>8, <1>9, <1>10, <1>11, <1>12, <1>13, <1>14
  DEF Next, PassStep, SessionPassStep

-----------------------------------------------------------------------------
(* Where live sessions are. *)

\* A live session is the last one of its shard.
LEMMA LiveIsLast ==
  ASSUME IInv, NEW s \in SessionIds, Live(s)
  PROVE  s[1] \in Filters /\ s = HeadSession(s[1]) /\ head[s[1]] = s[2] /\ head[s[1]] # 0
<1>1. PICK f \in Filters, g \in Generations : s = <<f, g>>
  BY DEF SessionIds
<1>2. s[1] = f /\ s[2] = g
  BY <1>1
<1>3. head[f] \in Nat /\ g \in Nat /\ g # 0
  BY ConstantsAssumption DEF IInv, RecordInv, RecordsTypeOK, Generations
<1>4. ~(g > head[f])
  BY <1>1 DEF IInv, RecordInv, HeadInv, Live
<1>5. ~(g < head[f])
  BY <1>1 DEF IInv, RecordInv, ClosedInv, Live
<1> QED
  BY <1>1, <1>2, <1>3, <1>4, <1>5 DEF HeadSession

\* A registered shard that overlaps the new shards of a change is one of the
\* old ones.
LEMMA OverlapIsOld ==
  ASSUME ShardTree, IInv, GridPrefixFree, NEW c \in Changes, c.old \subseteq grid,
         NEW f \in grid, NEW g \in c.new, Cover[f] \cap Cover[g] # {}
  PROVE  f \in c.old
<1>1. PICK x : x \in Cover[f] /\ x \in Cover[g]
  OBVIOUS
<1>2. x \in UNION {Cover[h] : h \in c.new}
  BY <1>1
<1>3. PICK h \in c.old : x \in Cover[h]
  BY <1>2 DEF ShardTree, SameRange
<1> QED
  BY <1>1, <1>3 DEF GridPrefixFree, DisjointCover

\* A shard that a change is about to register is not registered yet.
LEMMA NewUnregistered ==
  ASSUME ShardTree, IInv, GridPrefixFree, NEW c \in Changes, c.old \subseteq grid,
         NEW f \in c.new
  PROVE  f \notin grid
<1> SUFFICES ASSUME f \in grid PROVE FALSE
  OBVIOUS
<1>1. f \in Filters /\ Cover[f] # {}
  BY TopologyAssumption
<1>2. f \in c.old
  BY <1>1, OverlapIsOld
<1> QED
  BY <1>2 DEF ShardTree

\* No session follows a source of a pending change on the same shard.
LEMMA LastStep ==
  ASSUME ShardTree, IInv, PlanInv, PassInv, LastInv, GridPrefixFree, WaitingCurrent,
         [Next]_vars
  PROVE  LastInv'
<1>0. /\ RecordsTypeOK /\ RequestInv
      /\ \A pr \in topology : pr[1].change \in Changes /\ pr[2] \in Request
  BY ChangeTypes
<1>1. CASE UNCHANGED <<head, topology>> /\ \A pr \in topology : pr[1] \in pending' => pr[1] \in pending
  BY <1>1 DEF LastInv
<1>2. CASE UNCHANGED changeRecords
  BY <1>1, <1>2 DEF changeRecords
<1>3. ASSUME NEW r \in Request, EndsSourceOf(r) PROVE LastInv'
  <2> SUFFICES ASSUME NEW pr \in topology, pr[1] \in pending, NEW s \in pr[2].sources
               PROVE  head'[s[1]] = s[2]
    BY <1>3 DEF LastInv, EndsSourceOf
  <2> DEFINE f == s[1]
  <2>1. s \in SessionIds /\ f \in Filters /\ s = <<s[1], s[2]>>
    BY <1>0 DEF Request, SessionIds
  <2>2. head[f] = s[2]
    BY DEF LastInv
  <2>3. f \in pr[1].change.old /\ closing[s] = pr[2]
    BY DEF PlanInv, RequestOfChange
  <2> SUFFICES ASSUME head'[f] # head[f] PROVE FALSE
    BY <2>2
  <2>4. PICK t \in r.targets : t.filter = f
    BY <1>3, <2>1 DEF EndsSourceOf
  <2>5. r \in requests \ activated /\ pass.stage \notin {"gate", "flip"}
    BY <1>3 DEF EndsSourceOf
  <2>6. CASE RenewsOneShard(r)
    <3>1. PICK q \in SessionIds : r.sources = {q} /\ q[1] = f
      BY <2>4, <2>6 DEF RenewsOneShard
    <3>2. status[q] = "sealing"
      BY <1>0, <2>5, <3>1 DEF RequestInv
    <3>3. q = HeadSession(q[1])
      BY <3>2, LiveIsLast DEF Live
    <3>4. q = s
      BY <2>1, <2>2, <3>1, <3>3 DEF HeadSession
    <3>5. closing[q] = r
      BY <2>5, <3>1 DEF PlanInv
    <3>6. r = pr[2]
      BY <2>3, <3>4, <3>5
    <3>7. f \in pr[1].change.new
      BY <2>4, <3>6 DEF PlanInv, RequestOfChange
    <3> QED
      BY <1>0, <2>3, <3>7 DEF ShardTree
  <2>7. CASE \E po \in topology : po[2] = r
    <3>1. PICK po \in topology : po[2] = r
      BY <2>7
    <3>2. po[1] \in pending
      BY <2>5, <3>1 DEF PlanInv
    <3>3. po[1].change.old \subseteq grid /\ pr[1].change.old \subseteq grid
      BY <2>5, <3>2 DEF WaitingCurrent, Scheduled
    <3>4. f \in po[1].change.new
      BY <2>4, <3>1 DEF PlanInv, RequestOfChange
    <3>5. f \notin grid
      BY <1>0, <3>3, <3>4, NewUnregistered
    <3> QED
      BY <2>3, <3>3, <3>5
  <2> QED
    BY <2>5, <2>6, <2>7 DEF PlanInv
<1>4. ASSUME NEW c \in Changes, ProposeChange(c) PROVE LastInv'
  <2>1. UNCHANGED <<head, topology>>
    BY <1>4 DEF ProposeChange, records
  <2>2. \A p \in pending' : p.effective <= Epoch(frame) => p \in pending
    BY <1>4, ProposedPending
  <2>3. \A pr \in topology : pr[1] \in pending' => pr[1] \in pending
    BY <2>2 DEF PlanInv
  <2> QED
    BY <1>1, <2>1, <2>3
<1>5. ASSUME NEW p \in pass.changes, GateDrop(p) \/ Flip(p) PROVE LastInv'
  <2>1. pending' = pending \ {p} /\ UNCHANGED <<head, topology>>
    BY <1>5 DEF GateDrop, Flip, records
  <2> QED
    BY <1>1, <2>1
<1>6. ASSUME NEW p \in pass.changes, NEW m \in Committees(p.change), GateSchedule(p, m)
      PROVE  LastInv'
  <2>1. PICK r \in Request : /\ topology' = topology \cup {<<p, r>>}
                             /\ \A s \in r.sources : s = HeadSession(s[1])
                             /\ UNCHANGED <<head, pending>>
    BY <1>6, ScheduledChange
  <2>2. \A s \in r.sources : head[s[1]] = s[2]
    BY <2>1 DEF HeadSession
  <2> QED
    BY <2>1, <2>2 DEF LastInv
<1>7. ASSUME NEW f \in pass.filters, NEW S \in SUBSET Provers, ReconcileFirst(f, S)
      PROVE  LastInv'
  <2>1. /\ head[f] = 0 /\ head' = [head EXCEPT ![f] = 1] /\ UNCHANGED <<topology, pending>>
    BY <1>7 DEF ReconcileFirst, InitializesFirst, Initialize, shards
  <2> SUFFICES ASSUME NEW pr \in topology, pr[1] \in pending, NEW s \in pr[2].sources
               PROVE  head'[s[1]] = s[2]
    BY <2>1 DEF LastInv
  <2>2. s[1] \in Filters /\ s[2] \in Generations
    BY <1>0 DEF Request, SessionIds
  <2>3. s[2] # 0 /\ head[s[1]] = s[2]
    BY <2>2, ConstantsAssumption DEF Generations, LastInv
  <2> QED
    BY <1>0, <2>1, <2>2, <2>3 DEF RecordsTypeOK
<1>8. ASSUME NEW f \in pass.filters, NEW S \in SUBSET Provers, ReconcileMembership(f, S)
      PROVE  LastInv'
  BY <1>1, <1>8 DEF ReconcileMembership, shards
<1>9. CASE NextFrame
  BY <1>1, <1>9 DEF NextFrame, records, shards
<1> QED
  BY <1>2, <1>3, <1>4, <1>5, <1>6, <1>7, <1>8, <1>9, ChangeKinds

\* A shard a session governs stays registered, or its change waits to be
\* applied: a shard leaves the grid only when its session has closed.
LEMMA PlaceStep ==
  ASSUME IInv, PlanInv, PassInv, LastInv, AppliedCurrent, [Next]_vars,
         NEW s \in SessionIds, Live(s)', Unvacated(s[1]),
         \A q \in SessionIds : Live(q) /\ q[1] = s[1] => Placed(s[1])
  PROVE  Placed(s[1])'
<1>0. /\ RecordsTypeOK /\ RequestInv
      /\ \A pr \in topology : pr[1].change \in Changes /\ pr[2] \in Request
      /\ \A p \in pass.changes : p.change \in Changes
  BY ChangeTypes
<1>1. Live(s) => Placed(s[1])
  OBVIOUS
\* Steps that take no shard's place away.
<1>2. ASSUME activated \subseteq activated', topology \subseteq topology', UNCHANGED grid,
             \A pr \in topology : pr[1] \in pending => pr[1] \in pending'
      PROVE  Placed(s[1]) => Placed(s[1])'
  BY <1>2 DEF Placed
<1>3. CASE UNCHANGED changeRecords
  BY <1>1, <1>3 DEF changeRecords, Placed, Live
<1>4. ASSUME NEW r \in Request, EndsSourceOf(r) PROVE Placed(s[1])'
  <2>1. /\ activated \subseteq activated' /\ UNCHANGED <<topology, grid, pending>>
        /\ r \in requests \ activated
    BY <1>4 DEF EndsSourceOf
  <2>2. Placed(s[1]) => Placed(s[1])'
    BY <1>2, <2>1
  <2>3. CASE Live(s)
    BY <1>1, <2>2, <2>3
  <2>4. CASE ~Live(s)
    <3>1. r \in activated' /\ StaffedTarget(r, s)
      BY <1>4, <2>4 DEF EndsSourceOf, Live
    <3>2. PICK t \in r.targets : s = <<t.filter, t.generation>>
      BY <3>1 DEF StaffedTarget
    <3>3. s[1] = t.filter
      BY <3>2
    <3>4. CASE RenewsOneShard(r)
      <4>1. PICK q \in SessionIds : r.sources = {q} /\ q[1] = t.filter
        BY <3>2, <3>4 DEF RenewsOneShard
      <4>2. status[q] = "sealing"
        BY <1>0, <2>1, <4>1 DEF RequestInv
      <4>3. Placed(s[1])
        BY <3>3, <4>1, <4>2 DEF Live
      <4> QED
        BY <2>2, <4>3
    <3>5. CASE \E pr \in topology : pr[2] = r
      <4>1. PICK pr \in topology : pr[2] = r
        BY <3>5
      <4>2. pr[1] \in pending /\ t.filter \in pr[1].change.new
        BY <2>1, <4>1 DEF PlanInv, RequestOfChange
      <4> QED
        BY <2>1, <3>1, <3>3, <4>1, <4>2 DEF Placed
    <3> QED
      BY <2>1, <3>4, <3>5 DEF PlanInv
  <2> QED
    BY <2>3, <2>4
<1>5. ASSUME NEW c \in Changes, ProposeChange(c) PROVE Placed(s[1])'
  <2>1. UNCHANGED <<status, activated, topology, grid>>
    BY <1>5 DEF ProposeChange, records
  <2>2. \A p \in pending : p.effective <= Epoch(frame) => p \in pending'
    BY <1>5, ProposedPending
  <2>3. \A pr \in topology : pr[1] \in pending => pr[1] \in pending'
    BY <2>2 DEF PlanInv
  <2>4. Placed(s[1]) => Placed(s[1])'
    BY <1>2, <2>1, <2>3
  <2> QED
    BY <1>1, <2>1, <2>4 DEF Live
<1>6. ASSUME NEW p \in pass.changes, GateDrop(p) PROVE Placed(s[1])'
  <2>1. pending' = pending \ {p} /\ UNCHANGED <<status, activated, topology, grid>>
    BY <1>6 DEF GateDrop
  <2>2. ~Scheduled(p)
    BY <1>6, DroppedUnscheduled
  <2>3. Placed(s[1]) => Placed(s[1])'
    BY <1>2, <2>1, <2>2 DEF Scheduled
  <2> QED
    BY <1>1, <2>1, <2>3 DEF Live
<1>7. ASSUME NEW p \in pass.changes, Flip(p) PROVE Placed(s[1])'
  <2> DEFINE c == p.change
  <2>1. /\ pass.stage = "flip" /\ pending' = pending \ {p}
        /\ UNCHANGED <<head, status, activated, topology>>
    BY <1>7 DEF Flip, records
  <2>2. grid' = IF StaleSplit(p) THEN grid ELSE (grid \ c.old) \cup c.new
    BY <1>0, <1>7, FlippedGrid
  <2>3. p \in pending /\ \A pr \in topology : pr[1] = p => pr[2] \in activated
    BY <2>1 DEF PassInv
  <2>4. Live(s) /\ Placed(s[1])
    BY <1>1, <2>1 DEF Live
  \* A place in the grid, or by another change, is kept; the place p gives is
  \* in the grid from now on.
  <2>5. ASSUME c.new \subseteq grid' \/ ~Scheduled(p), s[1] \in grid => s[1] \in grid'
        PROVE  Placed(s[1])'
    <3>1. ASSUME NEW pr \in topology, pr[1] \in pending, pr[2] \in activated,
                 s[1] \in pr[1].change.new
          PROVE  Placed(s[1])'
      <4>1. CASE pr[1] = p
        BY <2>5, <3>1, <4>1 DEF Placed, Scheduled
      <4>2. CASE pr[1] # p
        BY <2>1, <3>1, <4>2 DEF Placed
      <4> QED
        BY <4>1, <4>2
    <3> QED
      BY <2>4, <2>5, <3>1 DEF Placed
  <2>6. CASE StaleSplit(p) /\ ~Scheduled(p)
    BY <2>2, <2>5, <2>6
  <2>7. CASE ~StaleSplit(p) /\ c.old \cap grid = {} /\ c.new \subseteq grid
    BY <2>2, <2>5, <2>7
  <2>8. CASE ~StaleSplit(p) /\ (Scheduled(p) \/ Sources(p) = {})
    <3>1. ASSUME s[1] \in c.old PROVE FALSE
      <4>1. s = HeadSession(s[1]) /\ head[s[1]] = s[2] /\ head[s[1]] # 0
        BY <2>4, LiveIsLast
      <4>2. CASE Sources(p) = {}
        BY <3>1, <4>1, <4>2 DEF Sources
      <4>3. CASE Scheduled(p)
        <5>1. PICK pr \in topology : pr[1] = p
          BY <4>3 DEF Scheduled
        <5>2. pr[2] \in activated /\ pr[1] \in pending
          BY <2>3, <5>1
        <5>3. s[1] \notin pr[2].vacant
          BY <4>1, <5>2 DEF Unvacated
        <5>4. PICK q \in pr[2].sources : q[1] = s[1]
          BY <3>1, <5>1, <5>3 DEF PlanInv, RequestOfChange
        <5>5. q \in SessionIds /\ q = <<q[1], q[2]>>
          BY <1>0 DEF Request, SessionIds
        <5>6. head[q[1]] = q[2]
          BY <5>2 DEF LastInv
        <5>7. q = s
          BY <4>1, <5>4, <5>5, <5>6 DEF HeadSession
        <5>8. status[q] = "closed"
          BY <1>0, <5>2, <5>4 DEF RequestInv
        <5> QED
          BY <2>4, <5>7, <5>8 DEF Live
      <4> QED
        BY <2>8, <4>2, <4>3
    <3> QED
      BY <2>2, <2>5, <2>8, <3>1
  <2> QED
    BY <2>1, <2>6, <2>7, <2>8 DEF AppliedCurrent
<1>8. ASSUME NEW p \in pass.changes, NEW m \in Committees(p.change), GateSchedule(p, m)
      PROVE  Placed(s[1])'
  <2>1. PICK r \in Request :
           /\ topology' = topology \cup {<<p, r>>}
           /\ \A q \in r.sources : status[q] = "active"
           /\ status' = [q \in SessionIds |-> IF q \in r.sources THEN "sealing" ELSE status[q]]
           /\ UNCHANGED <<activated, grid, pending>>
    BY <1>8, ScheduledChange
  <2>2. Placed(s[1]) => Placed(s[1])'
    BY <1>2, <2>1
  <2> QED
    BY <1>1, <2>1, <2>2 DEF Live
<1>9. ASSUME NEW f \in pass.filters, NEW S \in SUBSET Provers, ReconcileFirst(f, S)
      PROVE  Placed(s[1])'
  <2>1. /\ status' = [status EXCEPT ![<<f, 1>>] = "active"]
        /\ UNCHANGED <<activated, topology, grid, pending>>
        /\ pass.stage = "reconcile"
    BY <1>9 DEF ReconcileFirst, Initialize, shards
  <2>2. Placed(s[1]) => Placed(s[1])'
    BY <1>2, <2>1
  <2>3. Placed(f)'
    BY <2>1 DEF PassInv, Placed
  <2>4. CASE s = <<f, 1>>
    BY <2>3, <2>4
  <2>5. CASE s # <<f, 1>>
    <3>1. Live(s)
      BY <1>0, <2>1, <2>5 DEF Live, RecordsTypeOK
    <3> QED
      BY <1>1, <2>2, <3>1
  <2> QED
    BY <2>4, <2>5
<1>10. ASSUME NEW f \in pass.filters, NEW S \in SUBSET Provers, ReconcileMembership(f, S)
       PROVE  Placed(s[1])'
  <2> DEFINE r == NewRequest({f}, {}, [g \in {f} |-> S])
  <2>1. r \in Request /\ MakesRequest(r)
    BY <1>10, RenewalShape
  <2>2. UNCHANGED <<activated, topology, grid, pending>>
    BY <1>10 DEF ReconcileMembership, shards
  <2> HIDE DEF r
  <2>3. /\ \A q \in r.sources : status[q] = "active"
        /\ status' = [q \in SessionIds |-> IF q \in r.sources THEN "sealing" ELSE status[q]]
    BY <2>1 DEF MakesRequest, Schedule
  <2>4. Placed(s[1]) => Placed(s[1])'
    BY <1>2, <2>2
  <2> QED
    BY <1>1, <2>3, <2>4 DEF Live
<1>11. CASE NextFrame
  BY <1>1, <1>11 DEF NextFrame, records, shards, Placed, Live
<1> QED
  BY <1>3, <1>4, <1>5, <1>6, <1>7, <1>8, <1>9, <1>10, <1>11, ChangeKinds

\* Requests are only added, so a shard that no request declared vacant was not
\* declared vacant before.
LEMMA VacantRangesGrow ==
  ASSUME IInv, [Next]_vars
  PROVE  VacantRanges \subseteq VacantRanges'
<1>1. requests \subseteq requests'
  <2>1. CASE UNCHANGED changeRecords
    BY <2>1 DEF changeRecords
  <2>2. CASE \E r \in Request : EndsSourceOf(r)
    BY <2>2 DEF EndsSourceOf
  <2>3. CASE \/ \E c \in Changes : ProposeChange(c)
             \/ \E p \in pass.changes : GateDrop(p) \/ Flip(p)
             \/ NextFrame
    BY <2>3 DEF ProposeChange, GateDrop, Flip, NextFrame, records
  <2>4. CASE \E p \in pass.changes : \E m \in Committees(p.change) : GateSchedule(p, m)
    BY <2>4 DEF GateSchedule, Schedule
  <2>5. CASE \E f \in pass.filters : \E S \in SUBSET Provers :
               ReconcileFirst(f, S) \/ ReconcileMembership(f, S)
    BY <2>5 DEF ReconcileFirst, ReconcileMembership, Schedule
  <2> QED
    BY <2>1, <2>2, <2>3, <2>4, <2>5, ChangeKinds
<1> QED
  BY <1>1 DEF VacantRanges

\* Every live session has a place, those of shards once declared vacant
\* excepted.
LEMMA KeptPlacedStep ==
  ASSUME IInv, PlanInv, PassInv, LastInv, KeptPlaceInv, AppliedCurrent, [Next]_vars
  PROVE  KeptPlaceInv'
<1> SUFFICES ASSUME NEW s \in SessionIds, Live(s)', s[1] \notin VacantRanges'
             PROVE  Placed(s[1])'
  BY DEF KeptPlaceInv
<1>1. s[1] \notin VacantRanges
  BY VacantRangesGrow
<1>2. Unvacated(s[1])
  BY <1>1 DEF Unvacated, VacantRanges, PlanInv, RequestOfChange
<1> QED
  BY <1>1, <1>2, PlaceStep DEF KeptPlaceInv

-----------------------------------------------------------------------------
(* Two live sessions. *)

\* A shard whose change has activated has no live session.
LEMMA ReplacedNotLive ==
  ASSUME IInv, PlanInv, LastInv,
         NEW pr \in topology, pr[1] \in pending, pr[2] \in activated,
         NEW s \in SessionIds, Live(s), Unvacated(s[1])
  PROVE  s[1] \notin pr[1].change.old
<1> SUFFICES ASSUME s[1] \in pr[1].change.old PROVE FALSE
  OBVIOUS
<1>1. s = HeadSession(s[1]) /\ head[s[1]] # 0
  BY LiveIsLast
<1>2. pr[2] \in Request /\ RequestInv
  BY ChangeTypes
<1>3. s[1] \notin pr[2].vacant
  BY <1>1 DEF Unvacated
<1>4. PICK q \in pr[2].sources : q[1] = s[1]
  BY <1>3 DEF PlanInv, RequestOfChange
<1>5. q = <<q[1], q[2]>>
  BY <1>2 DEF Request, SessionIds
<1>6. head[q[1]] = q[2]
  BY DEF LastInv
<1>7. q = s
  BY <1>1, <1>4, <1>5, <1>6 DEF HeadSession
<1>8. status[s] = "closed"
  BY <1>2, <1>4, <1>7 DEF RequestInv
<1> QED
  BY <1>8 DEF Live

\* A shard that a change closes is replaced by no other pending change.
LEMMA ClosedByOne ==
  ASSUME IInv, PlanInv, LastInv, VacantOnce,
         NEW pr \in topology, pr[1] \in pending, NEW po \in topology, po[1] \in pending,
         NEW s \in pr[2].sources, s[1] \in po[1].change.old
  PROVE  pr = po
<1> SUFFICES ASSUME pr # po PROVE FALSE
  OBVIOUS
<1>0. pr[2] \in Request /\ po[2] \in Request
  BY ChangeTypes
<1>1. s[1] \notin po[2].vacant
  BY DEF VacantOnce
<1>2. PICK q \in po[2].sources : q[1] = s[1]
  BY <1>1 DEF PlanInv, RequestOfChange
<1>3. q = <<q[1], q[2]>> /\ s = <<s[1], s[2]>>
  BY <1>0 DEF Request, SessionIds
<1>4. head[q[1]] = q[2] /\ head[s[1]] = s[2]
  BY DEF LastInv
<1>5. q = s
  BY <1>2, <1>3, <1>4
<1>6. closing[s] = pr[2] /\ closing[s] = po[2]
  BY <1>2, <1>5 DEF PlanInv, RequestOfChange
<1> QED
  BY <1>6 DEF PlanInv

\* A change that closes one shard and not another is a merge.
LEMMA ClosesOneIsMerge ==
  ASSUME IInv, PlanInv, NEW pr \in topology,
         SameRange(pr[1].change.old, pr[1].change.new),
         NEW s \in pr[2].sources, NEW h \in pr[1].change.old, h # s[1]
  PROVE  /\ pr[1].change.new = {pr[1].change.parent}
         /\ Cover[s[1]] \subseteq Cover[pr[1].change.parent]
<1> DEFINE c == pr[1].change
<1>1. c \in Changes
  BY ChangeTypes
<1>2. s[1] \in c.old
  BY DEF PlanInv, RequestOfChange
<1> HIDE DEF c
<1>3. h \in c.old /\ SameRange(c.old, c.new)
  BY DEF c
<1>4. c.new = {c.parent}
  BY <1>1, <1>2, <1>3, TopologyAssumption
<1>5. UNION {Cover[f] : f \in c.new} = Cover[c.parent]
  BY <1>4
<1>6. Cover[s[1]] \subseteq Cover[c.parent]
  BY <1>2, <1>3, <1>5 DEF SameRange
<1> QED
  BY <1>4, <1>6 DEF c

\* Two scheduled changes whose new shards overlap are one.
LEMMA OverlapIsOne ==
  ASSUME ShardTree, IInv, GridPrefixFree, PlanInv, LastInv, VacantOnce,
         NEW pr \in topology, pr[1] \in pending, pr[1].change.old \subseteq grid,
         NEW po \in topology, po[1] \in pending, po[1].change.old \subseteq grid,
         NEW f \in pr[1].change.new, NEW g \in po[1].change.new,
         Cover[f] \cap Cover[g] # {}
  PROVE  pr = po
<1> DEFINE c == pr[1].change
           d == po[1].change
<1>1. c \in Changes /\ d \in Changes
  BY ChangeTypes
<1>2. /\ SameRange(c.old, c.new) /\ SameRange(d.old, d.new)
      /\ f \in Filters /\ g \in Filters /\ c.old \subseteq Filters /\ d.old \subseteq Filters
  BY <1>1, TopologyAssumption DEF ShardTree
<1>3. PICK h \in c.old : h \in d.old
  <2>1. PICK x : x \in Cover[f] /\ x \in Cover[g]
    OBVIOUS
  <2>2. x \in UNION {Cover[e] : e \in c.new} /\ x \in UNION {Cover[e] : e \in d.new}
    BY <2>1
  <2>3. PICK h \in c.old : x \in Cover[h]
    BY <1>2, <2>2 DEF SameRange
  <2>4. PICK e \in d.old : x \in Cover[e]
    BY <1>2, <2>2 DEF SameRange
  <2>5. h = e
    BY <2>3, <2>4 DEF GridPrefixFree, DisjointCover
  <2> QED
    BY <2>5
<1>4. PICK s \in pr[2].sources : TRUE
  BY ChangeTypes DEF RequestInv, PlanInv, RequestOfChange
<1>5. PICK q \in po[2].sources : TRUE
  BY ChangeTypes DEF RequestInv, PlanInv, RequestOfChange
<1>6. s[1] \in c.old /\ q[1] \in d.old
  BY DEF PlanInv, RequestOfChange
<1>7. CASE h = s[1] \/ h = q[1]
  BY <1>3, <1>7, ClosedByOne
<1>8. CASE h # s[1] /\ h # q[1]
  <2>1. c.new = {c.parent} /\ Cover[s[1]] \subseteq Cover[c.parent]
    BY <1>2, <1>8, ClosesOneIsMerge
  <2>2. d.new = {d.parent} /\ Cover[q[1]] \subseteq Cover[d.parent]
    BY <1>2, <1>3, <1>8, ClosesOneIsMerge
  <2>3. f = c.parent /\ g = d.parent
    BY <2>1, <2>2
  <2>4. Cover[s[1]] # {} /\ Cover[q[1]] # {} /\ s[1] \in grid /\ q[1] \in grid
    BY <1>2, <1>6, TopologyAssumption
  <2>5. CASE Cover[f] \subseteq Cover[g]
    <3>1. s[1] \in d.old
      BY <1>1, <2>1, <2>3, <2>4, <2>5, OverlapIsOld
    <3> QED
      BY <3>1, ClosedByOne
  <2>6. CASE Cover[g] \subseteq Cover[f]
    <3>1. q[1] \in c.old
      BY <1>1, <2>2, <2>3, <2>4, <2>6, OverlapIsOld
    <3> QED
      BY <3>1, ClosedByOne
  <2> QED
    BY <1>2, <2>5, <2>6, TopologyAssumption
<1> QED
  BY <1>7, <1>8

\* Between passes, and while sessions are fenced and reconciled, two live
\* sessions that have a place govern disjoint ranges.
LEMMA PlacedDisjoint ==
  ASSUME ShardTree, IInv, GridPrefixFree, PlanInv, LastInv, WaitingCurrent, VacantOnce,
         pass.stage \notin {"gate", "flip"},
         NEW s \in SessionIds, NEW q \in SessionIds, Live(s), Live(q), s # q,
         Placed(s[1]), Placed(q[1]), Unvacated(s[1]), Unvacated(q[1])
  PROVE  Cover[s[1]] \cap Cover[q[1]] = {}
<1> SUFFICES ASSUME Cover[s[1]] \cap Cover[q[1]] # {} PROVE FALSE
  OBVIOUS
<1>1. s[1] # q[1]
  BY LiveIsLast
<1>3. \A pr \in topology : pr[1] \in pending =>
        pr[1].change.old \subseteq grid /\ pr[1].change \in Changes
  BY ChangeTypes DEF WaitingCurrent, Scheduled
\* A live session of a registered shard and one of a change's new shards.
<1>4. ASSUME NEW a \in SessionIds, Live(a), Unvacated(a[1]), a[1] \in grid,
             NEW pr \in topology, pr[1] \in pending, pr[2] \in activated,
             NEW g \in pr[1].change.new, Cover[a[1]] \cap Cover[g] # {}
      PROVE  FALSE
  <2>1. a[1] \in pr[1].change.old
    BY <1>3, <1>4, OverlapIsOld
  <2> QED
    BY <1>4, <2>1, ReplacedNotLive
<1>5. CASE s[1] \in grid /\ q[1] \in grid
  BY <1>1, <1>5 DEF GridPrefixFree, DisjointCover
<1>6. CASE s[1] \in grid /\ q[1] \notin grid
  BY <1>4, <1>6 DEF Placed
<1>7. CASE s[1] \notin grid /\ q[1] \in grid
  <2>1. Cover[q[1]] \cap Cover[s[1]] # {}
    OBVIOUS
  <2> QED
    BY <1>4, <1>7, <2>1 DEF Placed
<1>8. CASE s[1] \notin grid /\ q[1] \notin grid
  <2>1. PICK pr \in topology : pr[1] \in pending /\ s[1] \in pr[1].change.new
    BY <1>8 DEF Placed
  <2>2. PICK po \in topology : po[1] \in pending /\ q[1] \in po[1].change.new
    BY <1>8 DEF Placed
  <2>3. pr = po
    BY <1>3, <2>1, <2>2, OverlapIsOne
  <2>4. DisjointCover(pr[1].change.new)
    BY <1>3, <2>1 DEF ShardTree, SameRange
  <2> QED
    BY <1>1, <2>1, <2>2, <2>3, <2>4 DEF DisjointCover
<1> QED
  BY <1>5, <1>6, <1>7, <1>8

\* While changes are gated and flipped no session begins.
LEMMA GatedBeginsNone ==
  ASSUME IInv, [Next]_vars, pass'.stage \in {"gate", "flip"}
  PROVE  \A s \in SessionIds : Live(s)' => Live(s)
<1>0. pass \in Pass /\ RecordsTypeOK
  BY ChangeTypes
<1>1. CASE UNCHANGED changeRecords
  BY <1>1 DEF changeRecords, Live
<1>2. CASE \E r \in Request : EndsSourceOf(r)
  BY <1>2 DEF EndsSourceOf
<1>3. CASE \/ \E c \in Changes : ProposeChange(c)
           \/ \E p \in pass.changes : GateDrop(p) \/ Flip(p)
           \/ NextFrame
  BY <1>3 DEF ProposeChange, GateDrop, Flip, NextFrame, records, Live
<1>4. ASSUME NEW p \in pass.changes, NEW m \in Committees(p.change), GateSchedule(p, m)
      PROVE  \A s \in SessionIds : Live(s)' => Live(s)
  <2>1. PICK r \in Request :
           /\ \A s \in r.sources : status[s] = "active"
           /\ status' = [s \in SessionIds |-> IF s \in r.sources THEN "sealing" ELSE status[s]]
    BY <1>4, ScheduledChange
  <2> QED
    BY <2>1 DEF Live
<1>5. ASSUME NEW f \in pass.filters, NEW S \in SUBSET Provers,
             ReconcileFirst(f, S) \/ ReconcileMembership(f, S)
      PROVE  FALSE
  <2>1. pass.stage = "reconcile" /\ pass.filters # {} /\ pass' = Walked(S)
    BY <1>5 DEF ReconcileFirst, ReconcileMembership
  <2>2. pass'.stage = "reconcile"
    BY <1>0, <2>1, WalkedFields
  <2> QED
    BY <2>2
<1> QED
  BY <1>1, <1>2, <1>3, <1>4, <1>5, ChangeKinds

\* The invariants hold of a grid without sessions.
LEMMA TopologyInit ==
  ASSUME Init
  PROVE  /\ PlanInv /\ PassInv /\ LastInv /\ KeptPlaceInv /\ TimeInv
         /\ LiveRangesDisjoint
<1>1. \A s \in SessionIds : ~Live(s)
  BY DEF Init, Live
<1>2. topology = {} /\ requests = {} /\ dropped = {} /\ pass.stage = "open"
  BY DEF Init, IdlePass
<1>3. PlanInv /\ PassInv /\ LastInv /\ TimeInv
  BY <1>2 DEF PlanInv, PassInv, LastInv, TimeInv
<1>4. KeptPlaceInv /\ LiveRangesDisjoint
  BY <1>1 DEF KeptPlaceInv, LiveRangesDisjoint
<1> QED
  BY <1>3, <1>4

\* Outside the gate and the grid step, live sessions of shards that no request
\* declared vacant govern disjoint ranges.
LEMMA SettledDisjoint ==
  ASSUME ShardTree, IInv, GridPrefixFree, PlanInv, LastInv, KeptPlaceInv, WaitingCurrent,
         VacantOnce, pass.stage \notin {"gate", "flip"}
  PROVE  LiveRangesDisjoint
<1> SUFFICES ASSUME NEW s \in SessionIds, NEW q \in SessionIds, Live(s), Live(q), s # q,
                    s[1] \notin VacantRanges, q[1] \notin VacantRanges
             PROVE  Cover[s[1]] \cap Cover[q[1]] = {}
  BY DEF LiveRangesDisjoint
<1>1. Unvacated(s[1]) /\ Unvacated(q[1])
  BY DEF Unvacated, VacantRanges, PlanInv, RequestOfChange
<1> QED
  BY <1>1, PlacedDisjoint DEF KeptPlaceInv

\* In them no session begins, so the ranges stay disjoint.
LEMMA GatedDisjoint ==
  ASSUME IInv, LiveRangesDisjoint, [Next]_vars, pass'.stage \in {"gate", "flip"}
  PROVE  LiveRangesDisjoint'
BY GatedBeginsNone, VacantRangesGrow DEF LiveRangesDisjoint

-----------------------------------------------------------------------------
(* How long a change waits. *)

\* Among PassFrames consecutive frames there is a session pass.
LEMMA PassAmongFrames ==
  ASSUME NEW m \in Nat
  PROVE  ~NoPassIn(m, m + PassFrames - 1)
<1> DEFINE w == PassFrames
           j == m \div w
           k == IF m % w = 0 THEN m ELSE w * (j + 1)
<1>1. w \in Nat /\ w > 0
  BY ConstantsAssumption
<1>2. j \in Int /\ m = w * j + (m % w) /\ m % w \in 0 .. w - 1
  BY <1>1, SMT
<1>3. k \in m .. m + w - 1 /\ k \in Nat
  BY <1>1, <1>2, SMT
<1>4. k % w = 0
  <2>1. CASE m % w = 0
    BY <2>1
  <2>2. CASE m % w # 0
    <3> DEFINE x == j + 1
               q == (w * x) \div w
               e == (w * x) % w
    <3>1. x \in Int /\ w * x \in Nat
      BY <1>1, <1>2, <1>3, <2>2
    <3>2. q \in Int /\ w * x = w * q + e /\ e \in 0 .. w - 1
      BY <1>1, <3>1, SMT
    <3> HIDE DEF q, e, x
    <3>3. e = w * (x - q)
      BY <1>1, <3>1, <3>2, SMT
    <3>4. CASE x - q >= 1
      <4>1. w * (x - q) >= w
        BY <1>1, <3>1, <3>2, <3>4, SMT
      <4> QED
        BY <1>1, <3>2, <3>3, <4>1
    <3>5. CASE x - q <= -1
      <4>1. w * (x - q) <= -w
        BY <1>1, <3>1, <3>2, <3>5, SMT
      <4> QED
        BY <1>1, <3>2, <3>3, <4>1
    <3>6. CASE x - q = 0
      <4>1. e = 0
        BY <1>1, <3>3, <3>6
      <4> QED
        BY <2>2, <4>1 DEF e, x
    <3> QED
      BY <3>1, <3>2, <3>4, <3>5, <3>6
  <2> QED
    BY <2>1, <2>2
<1> HIDE DEF k
<1> QED
  BY <1>3, <1>4 DEF NoPassIn

\* A request is due in the frame that made it or later.
LEMMA DueFrame ==
  ASSUME NEW r \in Request
  PROVE  FenceDueFrame(r) \in Nat /\ r.frame \in Nat /\ r.frame <= FenceDueFrame(r)
<1> DEFINE epochs == IF r.frame >= EarlyFenceFrame THEN EarlyFenceAfterEpochs ELSE FenceAfterEpochs
<1>1. r.frame \in Nat
  BY ConstantsAssumption DEF Request
<1>2. epochs \in Nat /\ EpochFrames \in Nat
  BY ConstantsAssumption
<1> HIDE DEF epochs
<1>3. EpochFrames * epochs \in Nat
  BY <1>2
<1> QED
  BY <1>1, <1>3 DEF FenceDueFrame, epochs

\* No pass falls between a due frame and an earlier one.
LEMMA NoPassBefore ==
  ASSUME NEW m \in Nat, NEW n \in Int, n < m
  PROVE  NoPassIn(m, n)
BY DEF NoPassIn

\* A frame that is no session pass extends the interval without one.
LEMMA NoPassExtended ==
  ASSUME NEW m \in Nat, NEW n \in Nat, NoPassIn(m, n - 1), n % PassFrames # 0
  PROVE  NoPassIn(m, n)
<1> SUFFICES ASSUME NEW k \in m .. n PROVE k % PassFrames # 0
  BY DEF NoPassIn
<1>1. k = n \/ k \in m .. n - 1
  OBVIOUS
<1> QED
  BY <1>1 DEF NoPassIn

\* The session that was fenced needs no other fence, and the fence makes no
\* other one due.
LEMMA FencedNotDue ==
  ASSUME IInv, IInv', NEW f \in Filters, NEW S \in (SUBSET Provers) \cup {Unread},
         FenceSession(f, S), NEW g \in Filters, FenceDue(g)'
  PROVE  FenceDue(g) /\ g # f
<1> DEFINE q == HeadSession(f)
           fences == [fence EXCEPT ![q] = Executed(q)]
           replacement == IF S = {} THEN Unread ELSE S
           s == <<g, head'[g]>>
<1>0. RecordInv /\ RecordsTypeOK
  BY ChangeTypes
<1>1. /\ q \in SessionIds /\ status[q] = "sealing"
      /\ EndSource(closing[q], seal, fences, replacement)
      /\ \A a \in SessionIds \ {q} : EndIn(seal, fences, a) = End(a)
      /\ EndIn(seal, fences, q) # NoCheckpoint
      /\ UNCHANGED <<closing, frame>>
  <2>1. UNCHANGED frame
    BY DEF FenceSession
  <2> QED
    BY <1>0, <2>1, FenceFacts
<1>2. /\ head'[g] # 0 /\ status'[s] = "sealing" /\ EndIn(seal', fence', s) = NoCheckpoint
      /\ frame' >= FenceDueFrame(closing'[s])
  BY DEF FenceDue, HeadSession, End, EndIn, FenceDueFrame
<1>3. s \in SessionIds
  <2>1. head'[g] \in 0 .. MaxGeneration
    BY DEF IInv, RecordInv, RecordsTypeOK
  <2> QED
    BY <1>2, <2>1, ConstantsAssumption DEF SessionIds, Generations
<1> HIDE DEF q, fences, replacement
<1>4. EndEffect(closing[q], seal, fences, replacement)
  BY <1>0, <1>1, EndSourceEffect
<1>5. status[s] = "sealing" /\ seal' = seal /\ fence' = fences
  BY <1>2, <1>3, <1>4 DEF EndEffect
<1>6. s[1] = g
  OBVIOUS
<1> HIDE DEF s
<1>7. s = HeadSession(g) /\ head[g] # 0
  BY <1>3, <1>5, <1>6, LiveIsLast DEF Live
<1>8. s # q /\ End(s) = NoCheckpoint
  BY <1>1, <1>2, <1>3, <1>5
<1>9. FenceDue(g)
  BY <1>1, <1>2, <1>5, <1>7, <1>8 DEF FenceDue
<1> QED
  BY <1>7, <1>8, <1>9 DEF q

\* When the fences of a session pass are done, a change that still waits is not
\* due: one of its sources has not ended, is registered, and was not fenced.
LEMMA WaitsBecauseEarly ==
  ASSUME IInv, SourceInv, PlanInv, WaitingCurrent, TimeInv,
         pass.stage = "fence", pass.filters = {},
         NEW pr \in topology, pr[1] \in pending, pr[2] \notin activated
  PROVE  frame < FenceDueFrame(pr[2])
<1> DEFINE r == pr[2]
<1>1. r \in Request /\ RequestInv /\ frame \in Nat
  BY ChangeTypes
<1>2. r \in requests \ activated
  BY DEF PlanInv, RequestOfChange
<1>3. PICK s \in r.sources : End(s) = NoCheckpoint
  BY <1>2 DEF SourceInv, EndInv
<1>4. s \in SessionIds /\ status[s] = "sealing" /\ closing[s] = r
  BY <1>1, <1>2, <1>3 DEF RequestInv, Request
<1>5. s = HeadSession(s[1]) /\ head[s[1]] # 0
  BY <1>4, LiveIsLast DEF Live
<1>6. s[1] \in grid
  BY <1>3 DEF WaitingCurrent, Scheduled, PlanInv, RequestOfChange
<1>7. ~FenceDue(s[1])
  BY <1>6 DEF TimeInv
<1>8. ~(frame >= FenceDueFrame(r))
  BY <1>3, <1>4, <1>5, <1>7 DEF FenceDue
<1> QED
  BY <1>1, <1>8, DueFrame

\* Every step keeps what is known of how late a change is.
LEMMA TimeStep ==
  ASSUME IInv, IInv', SourceInv, PlanInv, PassInv, WaitingCurrent, TimeInv, [Next]_vars
  PROVE  TimeInv'
<1> DEFINE free(pr, n) == NoPassIn(FenceDueFrame(pr[2]), n)
           timely(pr, act, ps, n) ==
             /\ pr[2] \notin act \/ ps.stage \in {"fence", "reconcile", "done"} => free(pr, n - 1)
             /\ pr[2] \notin act /\ ps.stage \in {"reconcile", "done"} => free(pr, n)
             /\ pr[2] \in act => /\ ps.stage = "gate" => pr[1] \in ps.changes \cup ps.ready
                                 /\ ps.stage = "flip" => pr[1] \in ps.changes
<1>0. /\ RecordInv /\ RecordsTypeOK /\ pass \in Pass /\ frame \in Nat
      /\ \A pr \in topology : pr[2] \in Request
      /\ grid \subseteq Filters /\ pass.filters \subseteq Filters
  BY ChangeTypes DEF Pass
<1>1. \A pr \in topology : pr[1] \in pending => timely(pr, activated, pass, frame)
  BY DEF TimeInv, Timely
<1>2. ASSUME \A pr \in topology' : pr[1] \in pending' => timely(pr, activated', pass', frame'),
             pass'.stage = "fence" => \A f \in grid' \ pass'.filters : ~FenceDue(f)'
      PROVE  TimeInv'
  BY <1>2 DEF TimeInv, Timely, NoPassIn, FenceDueFrame
<1> HIDE DEF free
\* Steps outside the gate, the grid step and the fences that may activate a
\* request and make none.
<1>3. ASSUME pass'.stage = pass.stage, pass.stage \in {"open", "reconcile", "done"},
             activated \subseteq activated', UNCHANGED <<topology, frame>>,
             \A pr \in topology : pr[1] \in pending' => pr[1] \in pending
      PROVE  TimeInv'
  <2>1. \A pr \in topology' : pr[1] \in pending' => timely(pr, activated', pass', frame')
    BY <1>1, <1>3
  <2> QED
    BY <1>2, <1>3, <2>1
<1>4. CASE UNCHANGED vars
  <2>1. UNCHANGED <<topology, activated, pass, frame, pending, grid>>
    BY <1>4 DEF vars, records, shards
  <2>2. \A f : FenceDue(f)' <=> FenceDue(f)
    BY <1>4 DEF vars, records, shards, FenceDue, HeadSession, End, EndIn, FenceDueFrame
  <2>3. pass'.stage = "fence" => \A f \in grid' \ pass'.filters : ~FenceDue(f)'
    BY <2>1, <2>2 DEF TimeInv
  <2> QED
    BY <1>1, <1>2, <2>1, <2>3
<1>5. CASE pass.stage = "open" /\ pass' = StartedPass
           /\ UNCHANGED <<activated, topology, pending, frame>>
  <2>1. /\ pass'.stage = "gate"
        /\ pass'.changes = {p \in pending : p.effective <= Epoch(frame)}
    BY <1>5 DEF StartedPass, IdlePass
  <2>2. \A pr \in topology : pr[1] \in pending => pr[1] \in pass'.changes
    BY <2>1 DEF PlanInv
  <2> QED
    BY <1>1, <1>2, <1>5, <2>1, <2>2
<1>6. CASE \/ BeginPass
           \/ \E s \in SessionIds, n \in AppFrames, d \in Digests : ExecuteHeader(s, n, d)
  <2>1. CASE pass.stage = "open" /\ pass' = StartedPass
             /\ UNCHANGED <<activated, topology, pending, frame>>
    BY <1>5, <2>1
  <2>2. CASE pass.stage = "done" /\ pass' = pass
             /\ UNCHANGED <<activated, topology, pending, frame>>
    BY <1>3, <2>2
  <2> QED
    BY <1>6, <2>1, <2>2 DEF BeginPass, ExecuteHeader, Messages, records, shards
<1>7. CASE \/ \E s \in SessionIds, c \in Checkpoint : SubmitSeal(s, c)
           \/ \E s \in SessionIds, c \in Checkpoint, n \in AppFrames, d \in Digests :
                SubmitPartialDrain(s, c, n, d)
  <2>1. /\ pass' = pass /\ pass.stage \in {"open", "done"}
        /\ UNCHANGED <<topology, frame, pending>>
    BY <1>7 DEF SubmitSeal, SubmitPartialDrain, Messages, shards
  <2>2. activated \subseteq activated'
    BY <1>7 DEF SubmitSeal, SubmitPartialDrain, EndSource
  <2> QED
    BY <1>3, <2>1, <2>2
<1>8. ASSUME NEW c \in Changes, ProposeChange(c) PROVE TimeInv'
  <2>1. /\ pass' = pass /\ pass.stage \in {"open", "done"}
        /\ UNCHANGED <<activated, topology, frame>>
    BY <1>8 DEF ProposeChange, Messages, records
  <2>2. \A p \in pending' : p.effective <= Epoch(frame) => p \in pending
    BY <1>8, ProposedPending
  <2>3. \A pr \in topology : pr[1] \in pending' => pr[1] \in pending
    BY <2>2 DEF PlanInv
  <2> QED
    BY <1>3, <2>1, <2>3
<1>9. ASSUME NEW p \in pass.changes, GateApply(p) PROVE TimeInv'
  <2>1. /\ pass.stage = "gate"
        /\ pass' = [pass EXCEPT !.changes = @ \ {p}, !.ready = @ \cup {p}]
        /\ UNCHANGED <<activated, topology, pending, frame>>
    BY <1>9 DEF GateApply, records, shards
  <2>2. /\ pass'.stage = "gate"
        /\ pass'.changes = pass.changes \ {p} /\ pass'.ready = pass.ready \cup {p}
    BY <1>0, <2>1 DEF Pass
  <2> QED
    BY <1>1, <1>2, <2>1, <2>2
\* A change that is dropped or waits has no activated request.
<1>10. ASSUME NEW p \in pass.changes, GateDrop(p) \/ GateWait(p) PROVE TimeInv'
  <2>1. /\ pass.stage = "gate" /\ pass' = [pass EXCEPT !.changes = @ \ {p}]
        /\ pending' \subseteq pending
        /\ UNCHANGED <<activated, topology, frame>>
    BY <1>10 DEF GateDrop, GateWait, records, shards
  <2>2. /\ pass'.stage = "gate" /\ pass'.changes = pass.changes \ {p}
        /\ pass'.ready = pass.ready
    BY <1>0, <2>1 DEF Pass
  <2>3. ASSUME NEW pr \in topology, pr[1] = p PROVE pr[2] \notin activated
    <3>1. Scheduled(p)
      BY <2>3 DEF Scheduled
    <3>2. CASE GateDrop(p)
      BY <3>1, <3>2, DroppedUnscheduled
    <3>3. CASE GateWait(p)
      BY <2>3, <3>1, <3>3 DEF GateWait, Applies
    <3> QED
      BY <1>10, <3>2, <3>3
  <2> QED
    BY <1>1, <1>2, <2>1, <2>2, <2>3
<1>11. ASSUME NEW p \in pass.changes, NEW m \in Committees(p.change), GateSchedule(p, m)
       PROVE  TimeInv'
  <2>1. /\ pass.stage = "gate" /\ pass' = [pass EXCEPT !.changes = @ \ {p}]
    BY <1>11 DEF GateSchedule
  <2>2. /\ pass'.stage = "gate" /\ pass'.changes = pass.changes \ {p}
        /\ pass'.ready = pass.ready
    BY <1>0, <2>1 DEF Pass
  <2>3. PICK r \in Request : /\ r \notin requests /\ topology' = topology \cup {<<p, r>>}
                             /\ ~Scheduled(p) /\ r.frame = frame
                             /\ UNCHANGED <<activated, pending, frame>>
    <3> DEFINE r == NewRequest(Sources(p), Vacant(p), m)
    <3>1. r \in Request
      BY <1>11, ChangeShape
    <3>2. /\ r \notin requests /\ topology' = topology \cup {<<p, r>>} /\ ~Scheduled(p)
          /\ UNCHANGED <<activated, pending, frame>>
      BY <1>11 DEF GateSchedule, Schedulable, Gateable, shards
    <3>3. r.frame = frame
      BY DEF NewRequest
    <3> HIDE DEF r
    <3> QED
      BY <3>1, <3>2, <3>3
  <2>4. r \notin activated
    BY <1>0, <2>3 DEF RecordsTypeOK
  <2>5. free(<<p, r>>, frame - 1)
    <3>1. FenceDueFrame(r) \in Nat /\ frame - 1 \in Int /\ frame - 1 < FenceDueFrame(r)
      BY <1>0, <2>3, DueFrame
    <3>2. <<p, r>>[2] = r
      OBVIOUS
    <3> QED
      BY <3>1, <3>2, NoPassBefore DEF free
  <2>6. \A pr \in topology : pr[1] # p
    BY <2>3 DEF Scheduled
  <2>7. ASSUME NEW pr \in topology', pr[1] \in pending'
        PROVE  timely(pr, activated', pass', frame')
    <3>1. CASE pr \in topology
      BY <1>1, <2>1, <2>2, <2>3, <2>6, <2>7, <3>1
    <3>2. CASE pr = <<p, r>>
      BY <2>2, <2>3, <2>4, <2>5, <3>2
    <3> QED
      BY <2>3, <3>1, <3>2
  <2> QED
    BY <1>2, <2>2, <2>7
<1>12. CASE EndGate
  <2>1. /\ pass.stage = "gate" /\ pass.changes = {}
        /\ pass' = [pass EXCEPT !.stage = "flip", !.changes = pass.ready, !.ready = {}]
        /\ UNCHANGED <<activated, topology, pending, frame>>
    BY <1>12 DEF EndGate, records, shards
  <2>2. pass'.stage = "flip" /\ pass'.changes = pass.ready
    BY <1>0, <2>1 DEF Pass
  <2> QED
    BY <1>1, <1>2, <2>1, <2>2
<1>13. ASSUME NEW p \in pass.changes, Flip(p) PROVE TimeInv'
  <2>1. /\ pass.stage = "flip" /\ pending' = pending \ {p}
        /\ \E l : pass' = [pass EXCEPT !.changes = @ \ {p}, !.live = l]
        /\ UNCHANGED <<activated, topology, frame>>
    BY <1>13 DEF Flip, records
  <2>2. pass'.stage = "flip" /\ pass'.changes = pass.changes \ {p}
    BY <1>0, <2>1 DEF Pass
  <2> QED
    BY <1>1, <1>2, <2>1, <2>2
<1>14. CASE EndFlip
  <2>1. /\ pass.stage = "flip" /\ pass.changes = {}
        /\ pass' = IF frame % PassFrames = 0 THEN [IdlePass("fence") EXCEPT !.filters = grid]
                   ELSE IdlePass("done")
        /\ UNCHANGED <<activated, topology, pending, frame, grid>>
    BY <1>14 DEF EndFlip, records, shards
  <2>2. \A pr \in topology : pr[1] \in pending => pr[2] \notin activated /\ free(pr, frame - 1)
    BY <1>1, <2>1
  <2>3. CASE frame % PassFrames = 0
    <3>1. pass'.stage = "fence" /\ pass'.filters = grid
      BY <2>1, <2>3 DEF IdlePass
    <3> QED
      BY <1>2, <2>1, <2>2, <3>1
  <2>4. CASE frame % PassFrames # 0
    <3>1. pass'.stage = "done"
      BY <2>1, <2>4 DEF IdlePass
    <3>2. \A pr \in topology : pr[1] \in pending => free(pr, frame)
      BY <1>0, <2>2, <2>4, NoPassExtended, DueFrame DEF free
    <3> QED
      BY <1>2, <2>1, <2>2, <3>1, <3>2
  <2> QED
    BY <2>3, <2>4
<1>15. ASSUME NEW f \in pass.filters, FenceSkip(f) PROVE TimeInv'
  <2>1. /\ pass.stage = "fence" /\ pass.filters # {} /\ f = NextFilter /\ ~FenceDue(f)
        /\ pass' = Walked(Unread)
        /\ UNCHANGED <<activated, topology, pending, frame, grid>>
    BY <1>15 DEF FenceSkip, records, shards
  <2>2. pass'.stage = "fence" /\ pass'.filters = pass.filters \ {f}
    BY <1>0, <2>1, WalkedFields
  <2>3. \A g : FenceDue(g)' <=> FenceDue(g)
    BY <1>15 DEF FenceSkip, records, FenceDue, HeadSession, End, EndIn, FenceDueFrame
  <2>4. \A g \in grid' \ pass'.filters : ~FenceDue(g)'
    BY <2>1, <2>2, <2>3 DEF TimeInv
  <2>5. \A pr \in topology' : pr[1] \in pending' => timely(pr, activated', pass', frame')
    BY <1>1, <2>1, <2>2
  <2> QED
    BY <1>2, <2>4, <2>5
<1>16. ASSUME NEW f \in pass.filters, NEW S \in (SUBSET Provers) \cup {Unread}, FenceSession(f, S)
       PROVE  TimeInv'
  <2>1. /\ pass.stage = "fence" /\ pass.filters # {} /\ f = NextFilter
        /\ pass' = [Walked(S) EXCEPT !.fenced = @ \cup {f}]
        /\ UNCHANGED <<topology, pending, frame, grid>>
    BY <1>16 DEF FenceSession, shards
  <2>2. activated \subseteq activated'
    BY <1>16 DEF FenceSession, EndSource
  <2>3. pass'.stage = "fence" /\ pass'.filters = pass.filters \ {f}
    <3>1. Walked(S).stage = "fence" /\ Walked(S).filters = pass.filters \ {f}
      BY <1>0, <2>1, WalkedFields
    <3> QED
      BY <2>1, <3>1 DEF Walked
  <2>4. \A g \in Filters : FenceDue(g)' => FenceDue(g) /\ g # f
    BY <1>0, <1>16, FencedNotDue
  <2>5. \A g \in grid' \ pass'.filters : ~FenceDue(g)'
    BY <1>0, <2>1, <2>3, <2>4 DEF TimeInv
  <2>6. \A pr \in topology' : pr[1] \in pending' => timely(pr, activated', pass', frame')
    BY <1>1, <2>1, <2>2, <2>3
  <2> QED
    BY <1>2, <2>5, <2>6
<1>17. CASE EndFence
  <2>1. /\ pass.stage = "fence" /\ pass.filters = {}
        /\ UNCHANGED <<activated, topology, pending, frame>>
    BY <1>17 DEF EndFence, records, shards
  <2>2. pass'.stage \in {"reconcile", "done"}
    <3>1. CASE pass' = [pass EXCEPT !.stage = "reconcile", !.filters = grid]
      BY <1>0, <3>1 DEF Pass
    <3>2. CASE pass' = IdlePass("done")
      BY <3>2 DEF IdlePass
    <3> QED
      BY <1>17, <3>1, <3>2 DEF EndFence
  <2>3. ASSUME NEW pr \in topology, pr[1] \in pending, pr[2] \notin activated
        PROVE  free(pr, frame)
    <3>1. frame < FenceDueFrame(pr[2])
      BY <2>1, <2>3, WaitsBecauseEarly
    <3>2. FenceDueFrame(pr[2]) \in Nat /\ frame \in Int
      BY <1>0, DueFrame
    <3> QED
      BY <3>1, <3>2, NoPassBefore DEF free
  <2>4. \A pr \in topology' : pr[1] \in pending' => timely(pr, activated', pass', frame')
    BY <1>1, <2>1, <2>2, <2>3
  <2> QED
    BY <1>2, <2>2, <2>4
<1>18. ASSUME NEW f \in pass.filters, NEW S \in SUBSET Provers,
              ReconcileFirst(f, S) \/ ReconcileMembership(f, S) \/ ReconcileSkip(f, S)
       PROVE  TimeInv'
  <2>1. /\ pass.stage = "reconcile" /\ pass.filters # {} /\ pass' = Walked(S)
        /\ UNCHANGED <<activated, topology, pending, frame>>
    BY <1>18 DEF ReconcileFirst, ReconcileMembership, ReconcileSkip, records, shards
  <2>2. pass'.stage = pass.stage
    BY <1>0, <2>1, WalkedFields
  <2> QED
    BY <1>3, <2>1, <2>2
<1>19. CASE EndPass
  <2>1. /\ pass.stage = "reconcile" /\ pass'.stage = "done"
        /\ UNCHANGED <<activated, topology, pending, frame>>
    BY <1>19 DEF EndPass, IdlePass, records, shards
  <2> QED
    BY <1>1, <1>2, <2>1
<1>20. CASE NextFrame
  <2>1. /\ pass.stage = "done" /\ pass'.stage = "open" /\ frame' = frame + 1
        /\ UNCHANGED <<activated, topology, pending>>
    BY <1>20 DEF NextFrame, IdlePass, records, shards
  <2>2. frame' - 1 = frame
    BY <1>0, <2>1
  <2> QED
    BY <1>1, <1>2, <2>1, <2>2
<1> QED
  BY <1>4, <1>6, <1>7, <1>8, <1>9, <1>10, <1>11, <1>12, <1>13, <1>14, <1>15, <1>16, <1>17,
     <1>18, <1>19, <1>20
  DEF Next, PassStep, Horizon

\* A change that saw every pass since its sources were due has been applied.
LEMMA TimelyApplies ==
  ASSUME IInv, TimeInv
  PROVE  ChangeAppliesInTime
<1> SUFFICES ASSUME NEW pr \in topology, pr[1] \in pending,
                    pass.stage = "done", ~(frame < FenceDueFrame(pr[2]) + PassFrames)
             PROVE  FALSE
  BY DEF ChangeAppliesInTime
<1> DEFINE due == FenceDueFrame(pr[2])
<1>1. frame \in Nat /\ due \in Nat /\ PassFrames \in Nat
  BY ChangeTypes, DueFrame, ConstantsAssumption
<1>2. NoPassIn(due, frame - 1)
  BY DEF TimeInv, Timely
<1> HIDE DEF due
<1>3. due + PassFrames <= frame
  BY <1>1 DEF due
<1>4. \A k \in due .. due + PassFrames - 1 : k \in due .. frame - 1
  BY <1>1, <1>3
<1>5. NoPassIn(due, due + PassFrames - 1)
  BY <1>2, <1>4 DEF NoPassIn
<1> QED
  BY <1>1, <1>5, PassAmongFrames

=============================================================================
