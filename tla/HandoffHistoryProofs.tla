----------------------- MODULE HandoffHistoryProofs ------------------------
(***************************************************************************)
(* Proofs about what GLOBAL's records of sessions keep of the past: a      *)
(* successor begins after its sources have ended, what is recorded is      *)
(* never rewritten, and a session a fence authorized keeps the turn it was *)
(* given.  They build on the invariant of GlobalHandoffProofs, and add     *)
(* where sessions come from (OriginInv), what a request looks like         *)
(* (ShapeInv), which sessions have an end (EndInv) and what the pass knows *)
(* of the shards it fenced (TurnInv).                                      *)
(***************************************************************************)
EXTENDS GlobalHandoffProofs, FiniteSetTheorems

\* A session that has an origin was authorized by a request that activated.
OriginInv ==
  \A s \in SessionIds : session[s].origin # NoRequest => session[s].origin \in activated

\* A request either renews the committee of one shard ...
RenewsOneShard(r) ==
  /\ r.vacant = {}
  /\ \E s \in SessionIds, t \in Target :
       r.sources = {s} /\ r.targets = {t} /\ s[1] = t.filter

\* ... or hands over to other shards than those it closes.
HandsOver(r) == \A s \in r.sources, t \in r.targets : s[1] # t.filter

ShapeInv == \A r \in requests : RenewsOneShard(r) \/ HandsOver(r)

\* Only a closing session has an end, and a waiting request has a source
\* without one.
EndInv ==
  /\ \A s \in SessionIds : status[s] = "active" => End(s) = NoCheckpoint
  /\ \A r \in requests \ activated : \E s \in r.sources : End(s) = NoCheckpoint

\* A shard fenced in this pass is awaited by no request, and if it has a new
\* session, the pass read no member or exactly that session's members.
KnownTurn(f) ==
  /\ head[f] # 0
  /\ \A r \in requests \ activated : \A t \in r.targets : t.filter # f
  /\ status[HeadSession(f)] = "active" =>
       pass.scan[f] \in {{}, session[HeadSession(f)].members}

TurnInv ==
  /\ pass.stage = "fence" => pass.fenced \cap pass.filters = {}
  /\ (pass.stage \in {"fence", "reconcile"} /\ frame >= FencedEligibilityFrame) =>
       \A f \in pass.fenced : KnownTurn(f)

-----------------------------------------------------------------------------
(* What one source's end changes. *)

Activates(r, seals, fences) == \A s \in r.sources : EndIn(seals, fences, s) # NoCheckpoint

Succeeds(r, seals, fences, s) == Activates(r, seals, fences) /\ StaffedTarget(r, s)

\* The effect of EndSource on a request r, record by record (activate_with):
\* successors are created where no session was, and nothing else is written
\* but the sources' status.
EndEffect(r, seals, fences, replacement) ==
  /\ seal' = seals /\ fence' = fences
  /\ activated' = IF Activates(r, seals, fences) THEN activated \cup {r} ELSE activated
  /\ \A s \in SessionIds :
       status'[s] = IF Activates(r, seals, fences) /\ s \in r.sources THEN "closed"
                    ELSE IF Succeeds(r, seals, fences, s) THEN "active" ELSE status[s]
  /\ \A s \in SessionIds : Succeeds(r, seals, fences, s) => status[s] = "absent"
  /\ \A s \in SessionIds : ~Succeeds(r, seals, fences, s) => session'[s] = session[s]
  /\ \A s \in SessionIds : Succeeds(r, seals, fences, s) =>
       /\ session'[s].origin = r
       /\ replacement # Unread => session'[s].members = replacement
  /\ \A f \in Filters :
       head'[f] = IF Activates(r, seals, fences)
                     /\ \E t \in r.targets : t.filter = f /\ t.members # {}
                  THEN head[f] + 1 ELSE head[f]

\* The end of one source of a waiting request has that effect.
LEMMA EndSourceEffect ==
  ASSUME RecordInv, NEW q \in SessionIds, status[q] = "sealing",
         NEW seals, NEW fences, NEW replacement,
         EndSource(closing[q], seals, fences, replacement)
  PROVE  /\ closing[q] \in requests \ activated /\ closing[q] \in Request
         /\ q \in closing[q].sources
         /\ EndEffect(closing[q], seals, fences, replacement)
<1> DEFINE r == closing[q]
           new(s) == Succeeds(r, seals, fences, s)
<1>1. r \in requests \ activated /\ r \in Request /\ q \in r.sources
  BY DEF RecordInv, RequestInv, RecordsTypeOK
<1>2. seal' = seals /\ fence' = fences
  BY DEF EndSource
<1>3. CASE ~Activates(r, seals, fences)
  <2>1. UNCHANGED <<activated, status, head, session>>
    BY <1>3 DEF EndSource, Activates
  <2> QED
    BY <1>1, <1>2, <1>3, <2>1 DEF Succeeds, EndEffect
<1>4. CASE Activates(r, seals, fences)
  <2>1. /\ TargetsUnchanged(r)
        /\ activated' = activated \cup {r}
        /\ status' = [s \in SessionIds |->
                        IF s \in r.sources THEN "closed"
                        ELSE IF StaffedTarget(r, s) THEN "active" ELSE status[s]]
        /\ head' = [f \in Filters |->
                      IF \E t \in r.targets : t.filter = f /\ t.members # {}
                      THEN head[f] + 1 ELSE head[f]]
        /\ session' = [s \in SessionIds |->
             IF StaffedTarget(r, s)
             THEN SuccessorSession(r, CHOOSE t \in r.targets : s = <<t.filter, t.generation>>,
                                   seals, fences, replacement)
             ELSE session[s]]
    BY <1>4 DEF EndSource, Activates
  <2>2. ASSUME NEW s \in SessionIds, StaffedTarget(r, s)
        PROVE  status[s] = "absent"
    <3>1. PICK f \in Filters, g \in Generations : s = <<f, g>>
      BY DEF SessionIds
    <3>2. PICK t \in r.targets : s = <<t.filter, t.generation>>
      BY <2>2 DEF StaffedTarget
    <3>3. t.filter = f /\ t.generation = g
      BY <3>1, <3>2
    <3>4. head[f] = g - 1
      BY <2>1, <3>3 DEF TargetsUnchanged
    <3> QED
      BY <3>1, <3>4 DEF RecordInv, HeadInv, Generations, RecordsTypeOK
  <2>3. ASSUME NEW s \in SessionIds, StaffedTarget(r, s)
        PROVE  /\ session'[s].origin = r
               /\ replacement # Unread => session'[s].members = replacement
    BY <2>1, <2>3 DEF SuccessorSession
  <2>4. \A s \in SessionIds : new(s) <=> StaffedTarget(r, s)
    BY <1>4 DEF Succeeds
  <2>5. \A f \in Filters : head'[f] = IF \E t \in r.targets : t.filter = f /\ t.members # {}
                                     THEN head[f] + 1 ELSE head[f]
    BY <2>1
  <2>6. \A s \in SessionIds : ~StaffedTarget(r, s) => session'[s] = session[s]
    BY <2>1
  <2>7. \A s \in SessionIds :
          status'[s] = IF s \in r.sources THEN "closed"
                       ELSE IF StaffedTarget(r, s) THEN "active" ELSE status[s]
    BY <2>1
  <2>8. activated' = activated \cup {r}
    BY <2>1
  <2> QED
    BY <1>1, <1>2, <1>4, <2>2, <2>3, <2>4, <2>5, <2>6, <2>7, <2>8 DEF EndEffect
<1> QED
  BY <1>3, <1>4

-----------------------------------------------------------------------------
(* The kinds of steps. *)

sessionRecords ==
  <<head, session, status, closing, requests, activated, seal, fence, tip, reserved>>

\* A data frame is executed, by a header or by a partial drain.
ExecutesFrame(s, n, d) ==
  /\ HeaderVerifies(s, n, d)
  /\ tip' = AdvancedTip(s, n, d)
  /\ UNCHANGED <<head, session, status, closing, requests, activated, seal, fence, reserved>>

\* A request is made, by the gate of a change or by the reconciliation.
MakesRequest(r) ==
  /\ Schedule(r)
  /\ r.sources # {} /\ \A s \in r.sources : status[s] = "active"
  /\ RenewsOneShard(r) \/ HandsOver(r)
  /\ UNCHANGED <<head, session, activated, seal, fence, tip>>

\* What the gate schedules hands over to other shards, unless the change
\* replaces a shard by itself, which is a renewal.
LEMMA ChangeShape ==
  ASSUME IInv, NEW p \in pass.changes, NEW m \in Committees(p.change), GateSchedule(p, m)
  PROVE  LET r == NewRequest(Sources(p), Vacant(p), m)
         IN  r \in Request /\ MakesRequest(r)
<1> DEFINE c == p.change
           r == NewRequest(Sources(p), Vacant(p), m)
<1>0. RecordInv /\ frame \in 1 .. MaxFrame /\ pass \in Pass /\ RecordsTypeOK
  BY DEF IInv, WorkTypeOK, RecordInv
<1>1. c \in Changes
  BY <1>0 DEF Pass, PendingChange
<1>2. c.old \subseteq Filters /\ c.new \subseteq Filters
  BY <1>1, TopologyAssumption
<1>3. Sources(p) \in SUBSET Filters /\ Vacant(p) \in SUBSET Filters
  BY <1>2 DEF Sources, Vacant
<1>4. m \in [c.new -> SUBSET Provers] /\ DOMAIN m = c.new
  BY DEF Committees
<1>5. /\ Sources(p) # {}
      /\ \A f \in Sources(p) : head[f] # 0 /\ status[HeadSession(f)] = "active"
      /\ \A f \in c.new \ Sources(p) : head[f] # 0 => status[HeadSession(f)] = "closed"
      /\ \A f \in c.new : head[f] < MaxGeneration
      /\ SameRange(Sources(p) \cup Vacant(p), c.new)
  BY <1>4 DEF GateSchedule, Schedulable
<1>6. \A f \in c.new : Reserved(f) => f \in Sources(p)
  BY DEF GateSchedule, TargetTaken
<1>7. /\ Schedule(r)
      /\ UNCHANGED <<head, session, activated, seal, fence, tip>>
  BY DEF GateSchedule
<1>8. r \in Request
  BY <1>0, <1>2, <1>3, <1>4, <1>5, <1>6, <1>7, NewRequestStep
<1>9. /\ r.vacant = Vacant(p)
      /\ r.sources = {HeadSession(f) : f \in Sources(p)}
      /\ r.targets = {[filter |-> f, members |-> m[f], generation |-> head[f] + 1]
                        : f \in c.new}
  BY <1>4 DEF NewRequest
<1>10. r.sources # {} /\ \A s \in r.sources : status[s] = "active"
  BY <1>5, <1>9
<1> HIDE DEF r
<1>11. Sources(p) \cup Vacant(p) = c.old /\ Sources(p) \cap Vacant(p) = {}
  BY DEF Sources, Vacant
<1>12. ASSUME NEW f \in Sources(p), f \in c.new PROVE c.old = {f} /\ c.new = {f}
  <2>0. f \in c.old /\ f \in Filters
    BY <1>2, <1>11
  \* Two disjoint coverings of one range that share a filter, one of them that
  \* filter alone, are equal.
  <2>1. ASSUME NEW A \in SUBSET Filters, f \in A, DisjointCover(A),
               UNION {Cover[g] : g \in A} = Cover[f]
        PROVE  A = {f}
    <3>1. ASSUME NEW g \in A, g # f PROVE FALSE
      <4>1. Cover[g] \cap Cover[f] = {}
        BY <2>1, <3>1 DEF DisjointCover
      <4>2. Cover[g] \subseteq UNION {Cover[h] : h \in A}
        OBVIOUS
      <4>3. Cover[g] = {}
        BY <2>1, <4>1, <4>2
      <4> QED
        BY <4>3, TopologyAssumption
    <3> QED
      BY <2>1, <3>1
  <2>2. /\ DisjointCover(c.old) /\ DisjointCover(c.new)
        /\ UNION {Cover[g] : g \in c.old} = UNION {Cover[g] : g \in c.new}
    BY <1>5, <1>11 DEF SameRange
  <2>3. c.kind \in {"split", "merge"} /\ (c.kind = "split" => c.old = {c.parent})
        /\ (c.kind = "merge" => c.new = {c.parent})
    BY <1>1, TopologyAssumption
  <2>4. c.old = {f} \/ c.new = {f}
    BY <2>0, <2>3, <1>12
  <2>5. CASE c.old = {f}
    BY <2>5, <2>1, <2>2, <1>2, <1>12
  <2>6. CASE c.new = {f}
    BY <2>6, <2>1, <2>2, <1>2, <2>0
  <2> QED
    BY <2>4, <2>5, <2>6
<1>13. RenewsOneShard(r) \/ HandsOver(r)
  <2>1. CASE \E f \in Sources(p) : f \in c.new
    <3>1. PICK f \in Sources(p) : f \in c.new
      BY <2>1
    <3>2. c.old = {f} /\ c.new = {f}
      BY <3>1, <1>12
    <3>3. Vacant(p) = {} /\ Sources(p) = {f}
      BY <3>1, <3>2, <1>11
    <3> DEFINE t == [filter |-> f, members |-> m[f], generation |-> head[f] + 1]
    <3>4. r.vacant = {} /\ r.sources = {HeadSession(f)} /\ r.targets = {t}
      BY <1>9, <3>2, <3>3
    <3>5. HeadSession(f) \in SessionIds /\ t \in Target
      BY <3>4, <1>8 DEF Request
    <3>6. HeadSession(f)[1] = t.filter
      BY DEF HeadSession
    <3> QED
      BY <3>4, <3>5, <3>6 DEF RenewsOneShard
  <2>2. CASE ~ \E f \in Sources(p) : f \in c.new
    <3> SUFFICES ASSUME NEW s \in r.sources, NEW t \in r.targets, s[1] = t.filter PROVE FALSE
      BY DEF HandsOver
    <3>1. PICK f \in Sources(p) : s = HeadSession(f)
      BY <1>9
    <3>2. PICK g \in c.new : t = [filter |-> g, members |-> m[g], generation |-> head[g] + 1]
      BY <1>9
    <3>3. s[1] = f /\ t.filter = g
      BY <3>1, <3>2 DEF HeadSession
    <3> QED
      BY <3>3, <2>2
  <2> QED
    BY <2>1, <2>2
<1> QED
  BY <1>7, <1>8, <1>10, <1>13 DEF MakesRequest, r

\* What the reconciliation schedules renews one shard's committee.
LEMMA RenewalShape ==
  ASSUME IInv, NEW f \in pass.filters, NEW S \in SUBSET Provers, ReconcileMembership(f, S)
  PROVE  LET r == NewRequest({f}, {}, [g \in {f} |-> S])
         IN  /\ r \in Request /\ MakesRequest(r)
             /\ r.sources = {HeadSession(f)} /\ \A t \in r.targets : t.filter = f
<1> DEFINE m == [g \in {f} |-> S]
           r == NewRequest({f}, {}, m)
           t == [filter |-> f, members |-> S, generation |-> head[f] + 1]
<1>0. RecordInv /\ frame \in 1 .. MaxFrame /\ pass \in Pass /\ RecordsTypeOK
  BY DEF IInv, WorkTypeOK, RecordInv
<1>1. f \in Filters
  BY <1>0 DEF Pass
<1>2. {f} \in SUBSET Filters /\ {} \in SUBSET Filters /\ m \in [{f} -> SUBSET Provers]
  BY <1>1
<1>3. head[f] # 0 /\ status[HeadSession(f)] = "active" /\ head[f] < MaxGeneration
  BY DEF ReconcileMembership, SchedulesMembership
<1>4. /\ Schedule(r)
      /\ UNCHANGED <<head, session, activated, seal, fence, tip>>
  BY DEF ReconcileMembership
<1>5. /\ r.vacant = {} /\ r.sources = {HeadSession(f)} /\ r.targets = {t}
  BY DEF NewRequest
<1> HIDE DEF m
<1>6. r \in Request
  BY <1>0, <1>2, <1>3, <1>4, NewRequestStep
<1> HIDE DEF r
<1>7. HeadSession(f) \in SessionIds /\ t \in Target
  BY <1>5, <1>6 DEF Request
<1>8. HeadSession(f)[1] = f /\ t.filter = f
  BY DEF HeadSession
<1>9. RenewsOneShard(r)
  BY <1>5, <1>7, <1>8 DEF RenewsOneShard
<1>10. MakesRequest(r)
  BY <1>3, <1>4, <1>5, <1>9 DEF MakesRequest
<1> QED
  BY <1>5, <1>6, <1>8, <1>10 DEF r, m

\* Every step either leaves the records of sessions alone or is one of five
\* kinds.
LEMMA StepKinds ==
  ASSUME IInv, [Next]_vars
  PROVE  \/ UNCHANGED sessionRecords
         \/ \E s \in SessionIds, n \in AppFrames, d \in Digests : ExecutesFrame(s, n, d)
         \/ \E s \in SessionIds, c \in Checkpoint : SubmitSeal(s, c)
         \/ \E r \in Request : MakesRequest(r)
         \/ \E f \in Filters : \E S \in (SUBSET Provers) \cup {Unread} : FenceSession(f, S)
         \/ \E f \in Filters : \E S \in SUBSET Provers : ReconcileFirst(f, S)
<1>0. pass.filters \subseteq Filters
  BY DEF IInv, WorkTypeOK, Pass
<1>1. CASE \/ UNCHANGED vars \/ BeginPass \/ EndGate \/ EndFlip \/ EndFence \/ EndPass
           \/ NextFrame \/ Horizon \/ \E c \in Changes : ProposeChange(c)
  BY <1>1 DEF BeginPass, EndGate, EndFlip, EndFence, EndPass, NextFrame, Horizon,
              ProposeChange, records, vars, sessionRecords
<1>2. CASE \E p \in pass.changes : GateApply(p) \/ GateDrop(p) \/ GateWait(p) \/ Flip(p)
  BY <1>2 DEF GateApply, GateDrop, GateWait, Flip, records, sessionRecords
<1>3. CASE \E f \in pass.filters :
             FenceSkip(f) \/ \E S \in SUBSET Provers : ReconcileSkip(f, S)
  BY <1>3 DEF FenceSkip, ReconcileSkip, records, sessionRecords
<1>4. CASE \E s \in SessionIds, n \in AppFrames, d \in Digests : ExecuteHeader(s, n, d)
  BY <1>4 DEF ExecuteHeader, ExecutesFrame
<1>5. CASE \E s \in SessionIds, c \in Checkpoint, n \in AppFrames, d \in Digests :
             SubmitPartialDrain(s, c, n, d)
  BY <1>5 DEF SubmitPartialDrain, ExecutesFrame
<1>6. CASE \E p \in pass.changes : \E m \in Committees(p.change) : GateSchedule(p, m)
  BY <1>6, ChangeShape
<1>7. CASE \E f \in pass.filters : \E S \in SUBSET Provers : ReconcileMembership(f, S)
  BY <1>7, RenewalShape
<1> QED
  BY <1>0, <1>1, <1>2, <1>3, <1>4, <1>5, <1>6, <1>7 DEF Next, PassStep

-----------------------------------------------------------------------------
(* History is kept. *)

\* A seal is recorded where the session stands or above it, and never on a
\* session that was fenced or sealed elsewhere.
LEMMA SealFacts ==
  ASSUME RecordsTypeOK, NEW q \in SessionIds, NEW c \in Checkpoint, SubmitSeal(q, c)
  PROVE  LET seals == [seal EXCEPT ![q] = c]
         IN  /\ status[q] = "sealing"
             /\ EndSource(closing[q], seals, fence, Unread)
             /\ \A s \in SessionIds \ {q} : EndIn(seals, fence, s) = End(s)
             /\ EndIn(seals, fence, q) = c /\ c # NoCheckpoint
             /\ End(q) \in {NoCheckpoint, c}
             /\ \A s \in SessionIds \ {q} : tip'[s] = tip[s]
             /\ tip'[q] \in {tip[q], c}
             /\ tip'[q] = tip[q] \/ tip[q] = NoCheckpoint \/ c = tip[q] \/ c.frame > tip[q].frame
             /\ UNCHANGED <<closing, requests, reserved>>
<1> DEFINE seals == [seal EXCEPT ![q] = c]
<1>1. /\ status[q] = "sealing" /\ fence[q] = NoCheckpoint
      /\ seal[q] \in {NoCheckpoint, c}
      /\ Executed(q) = c \/ Executed(q).frame < c.frame
      /\ tip' = IF c.frame = session[q].base THEN tip ELSE [tip EXCEPT ![q] = c]
      /\ EndSource(closing[q], seals, fence, Unread)
      /\ UNCHANGED <<closing, requests, reserved>>
  BY DEF SubmitSeal, ClosingCertificate
<1>2. c # NoCheckpoint
  BY SentinelAssumption
<1>3. /\ \A s \in SessionIds \ {q} : EndIn(seals, fence, s) = End(s)
      /\ EndIn(seals, fence, q) = c
  BY <1>2 DEF RecordsTypeOK, EndIn, End
<1>4. End(q) \in {NoCheckpoint, c}
  BY <1>1 DEF End, EndIn
<1>5. /\ \A s \in SessionIds \ {q} : tip'[s] = tip[s]
      /\ tip'[q] \in {tip[q], c}
  BY <1>1 DEF RecordsTypeOK
<1>6. tip'[q] = tip[q] \/ tip[q] = NoCheckpoint \/ c = tip[q] \/ c.frame > tip[q].frame
  <2>1. c.frame \in Nat /\ (tip[q] # NoCheckpoint => tip[q].frame \in Nat)
    BY ConstantsAssumption DEF RecordsTypeOK, Checkpoint, AppFrames
  <2>2. tip[q] # NoCheckpoint => tip[q] = c \/ tip[q].frame < c.frame
    BY <1>1 DEF Executed
  <2> QED
    BY <2>1, <2>2
<1> QED
  BY <1>1, <1>2, <1>3, <1>4, <1>5, <1>6

\* A fence is recorded only on a session without an end, at its executed tip.
LEMMA FenceFacts ==
  ASSUME RecordInv, NEW f \in Filters, NEW S \in (SUBSET Provers) \cup {Unread},
         FenceSession(f, S)
  PROVE  LET q == HeadSession(f)
             fences == [fence EXCEPT ![q] = Executed(q)]
         IN  /\ q \in SessionIds /\ status[q] = "sealing" /\ End(q) = NoCheckpoint
             /\ EndSource(closing[q], seal, fences, IF S = {} THEN Unread ELSE S)
             /\ \A s \in SessionIds \ {q} : EndIn(seal, fences, s) = End(s)
             /\ EndIn(seal, fences, q) # NoCheckpoint
             /\ UNCHANGED <<closing, requests, tip, reserved>>
<1> DEFINE q == HeadSession(f)
           fences == [fence EXCEPT ![q] = Executed(q)]
<1>1. /\ head[f] # 0 /\ status[q] = "sealing" /\ End(q) = NoCheckpoint
      /\ EndSource(closing[q], seal, fences, IF S = {} THEN Unread ELSE S)
      /\ UNCHANGED <<closing, requests, tip, reserved>>
  BY DEF FenceSession, FenceDue
<1>2. RecordsTypeOK
  BY DEF RecordInv
<1>3. q \in SessionIds
  <2>1. head[f] \in Generations
    BY <1>1, <1>2, ConstantsAssumption DEF RecordsTypeOK, Generations
  <2> QED
    BY <2>1 DEF HeadSession, SessionIds
<1> HIDE DEF q
<1>4. Executed(q) \in Checkpoint
  BY <1>2, <1>3 DEF Executed, RecordsTypeOK, Session, Checkpoint
<1>5. Executed(q) # NoCheckpoint
  BY <1>4, SentinelAssumption
<1>6. \A s \in SessionIds \ {q} : EndIn(seal, fences, s) = End(s)
  BY <1>2 DEF RecordsTypeOK, EndIn, End
<1>7. EndIn(seal, fences, q) # NoCheckpoint
  BY <1>1, <1>2, <1>3, <1>5 DEF EndIn, End, RecordsTypeOK
<1> QED
  BY <1>1, <1>3, <1>6, <1>7 DEF q

\* What a step may never do to a session of the past.
HistoryKept ==
  \A s \in SessionIds :
    /\ status[s] # "absent" => session'[s] = session[s]
    /\ End(s) # NoCheckpoint => EndIn(seal', fence', s) = End(s)
    /\ status[s] = "closed" => status'[s] = "closed"
    /\ tip[s] # NoCheckpoint =>
         /\ tip'[s] # NoCheckpoint
         /\ tip'[s].frame > tip[s].frame \/ tip'[s] = tip[s]

\* No step rewrites a session, an end or a tip.
LEMMA HistoryStep ==
  ASSUME IInv, [Next]_vars
  PROVE  HistoryKept
<1>0. RecordInv /\ RecordsTypeOK
  BY DEF IInv, RecordInv
<1>1. CASE UNCHANGED sessionRecords
  BY <1>1 DEF sessionRecords, HistoryKept, End, EndIn
<1>2. ASSUME NEW q \in SessionIds, NEW n \in AppFrames, NEW d \in Digests,
             ExecutesFrame(q, n, d)
      PROVE  HistoryKept
  <2>1. UNCHANGED <<session, status, seal, fence>> /\ tip' = AdvancedTip(q, n, d)
    BY <1>2 DEF ExecutesFrame
  <2>2. n \in Nat /\ (tip[q] # NoCheckpoint => tip[q].frame \in Nat)
    BY <1>0, ConstantsAssumption DEF RecordsTypeOK, Checkpoint, AppFrames
  <2>3. [frame |-> n, digest |-> d] # NoCheckpoint
    BY SentinelAssumption DEF Checkpoint
  <2>4. \A s \in SessionIds : tip[s] # NoCheckpoint =>
          /\ tip'[s] # NoCheckpoint
          /\ tip'[s].frame > tip[s].frame \/ tip'[s] = tip[s]
    BY <1>0, <2>1, <2>2, <2>3 DEF AdvancedTip, RecordsTypeOK
  <2> QED
    BY <2>1, <2>4 DEF HistoryKept, End, EndIn
<1>3. ASSUME NEW q \in SessionIds, NEW c \in Checkpoint, SubmitSeal(q, c)
      PROVE  HistoryKept
  <2> DEFINE seals == [seal EXCEPT ![q] = c]
  <2>1. /\ status[q] = "sealing"
        /\ EndSource(closing[q], seals, fence, Unread)
        /\ \A s \in SessionIds \ {q} : EndIn(seals, fence, s) = End(s)
        /\ EndIn(seals, fence, q) = c /\ c # NoCheckpoint
        /\ End(q) \in {NoCheckpoint, c}
        /\ \A s \in SessionIds \ {q} : tip'[s] = tip[s]
        /\ tip'[q] \in {tip[q], c}
        /\ tip'[q] = tip[q] \/ tip[q] = NoCheckpoint \/ c = tip[q] \/ c.frame > tip[q].frame
    BY <1>0, <1>3, SealFacts
  <2> DEFINE fences == fence
             replacement == Unread
  <2>a. EndSource(closing[q], seals, fences, replacement)
    BY <2>1
  <2> HIDE DEF seals, fences, replacement
  <2>b. /\ seal' = seals /\ fence' = fences
        /\ \A s \in SessionIds : status[s] # "absent" => session'[s] = session[s]
        /\ \A s \in SessionIds : status[s] = "closed" => status'[s] = "closed"
    <3>1. EndEffect(closing[q], seals, fences, replacement) /\ q \in closing[q].sources
          /\ closing[q] \in requests \ activated
      BY <1>0, <2>1, <2>a, EndSourceEffect
    <3> QED
      BY <3>1 DEF EndEffect
  <2>2. /\ seal' = seals /\ fence' = fence
        /\ \A s \in SessionIds : status[s] # "absent" => session'[s] = session[s]
        /\ \A s \in SessionIds : status[s] = "closed" => status'[s] = "closed"
    BY <2>b DEF fences
  <2>3. \A s \in SessionIds : End(s) # NoCheckpoint => EndIn(seal', fence', s) = End(s)
    BY <2>1, <2>2
  <2>4. \A s \in SessionIds : tip[s] # NoCheckpoint =>
          /\ tip'[s] # NoCheckpoint
          /\ tip'[s].frame > tip[s].frame \/ tip'[s] = tip[s]
    BY <2>1
  <2> QED
    BY <2>2, <2>3, <2>4 DEF HistoryKept
<1>4. ASSUME NEW r \in Request, MakesRequest(r)
      PROVE  HistoryKept
  <2>1. /\ UNCHANGED <<session, seal, fence, tip>>
        /\ status' = [s \in SessionIds |-> IF s \in r.sources THEN "sealing" ELSE status[s]]
        /\ \A s \in r.sources : status[s] = "active"
    BY <1>4 DEF MakesRequest, Schedule
  <2> QED
    BY <2>1 DEF HistoryKept, End, EndIn
<1>5. ASSUME NEW f \in Filters, NEW S \in (SUBSET Provers) \cup {Unread}, FenceSession(f, S)
      PROVE  HistoryKept
  <2> DEFINE q == HeadSession(f)
             fences == [fence EXCEPT ![q] = Executed(q)]
             replacement == IF S = {} THEN Unread ELSE S
  <2>1. /\ q \in SessionIds /\ status[q] = "sealing" /\ End(q) = NoCheckpoint
        /\ EndSource(closing[q], seal, fences, replacement)
        /\ \A s \in SessionIds \ {q} : EndIn(seal, fences, s) = End(s)
        /\ UNCHANGED tip
    BY <1>0, <1>5, FenceFacts
  <2> HIDE DEF fences, replacement, q
  <2>2. /\ seal' = seal /\ fence' = fences
        /\ \A s \in SessionIds : status[s] # "absent" => session'[s] = session[s]
        /\ \A s \in SessionIds : status[s] = "closed" => status'[s] = "closed"
    <3>1. EndEffect(closing[q], seal, fences, replacement)
      BY <1>0, <2>1, EndSourceEffect
    <3> QED
      BY <3>1 DEF EndEffect
  <2>3. \A s \in SessionIds : End(s) # NoCheckpoint => EndIn(seal', fence', s) = End(s)
    BY <2>1, <2>2
  <2> QED
    BY <2>1, <2>2, <2>3 DEF HistoryKept
<1>6. ASSUME NEW f \in Filters, NEW S \in SUBSET Provers, ReconcileFirst(f, S)
      PROVE  HistoryKept
  <2>1. /\ head[f] = 0
        /\ session' = [session EXCEPT ![<<f, 1>>] =
                         [members |-> S, base |-> 0, origin |-> NoRequest]]
        /\ status' = [status EXCEPT ![<<f, 1>>] = "active"]
        /\ UNCHANGED <<seal, fence, tip>>
    BY <1>6 DEF ReconcileFirst, InitializesFirst, Initialize
  <2>2. <<f, 1>> \in SessionIds /\ status[<<f, 1>>] = "absent"
    BY <1>0, <2>1, ConstantsAssumption DEF RecordInv, SessionIds, Generations, HeadInv, RecordsTypeOK
  <2> DEFINE q == <<f, 1>>
  <2>3. /\ session' = [session EXCEPT ![q] = [members |-> S, base |-> 0, origin |-> NoRequest]]
        /\ status' = [status EXCEPT ![q] = "active"]
        /\ q \in SessionIds /\ status[q] = "absent"
    BY <2>1, <2>2
  <2> HIDE DEF q
  <2> QED
    BY <1>0, <2>1, <2>3 DEF HistoryKept, End, EndIn, RecordsTypeOK
<1> QED
  BY <1>1, <1>2, <1>3, <1>4, <1>5, <1>6, StepKinds

\* A session never changes once authorized, nor its end once recorded; a closed
\* session stays closed and the executed tip never goes back, whatever late
\* seals, second fences and old headers arrive.
THEOREM HistoryNeverRewritten == Spec => HistoryImmutable
<1>1. IInv /\ [Next]_vars => [HistoryKept]_vars
  BY HistoryStep
<1> QED
  BY <1>1, Invariance, PTL DEF Spec, HistoryImmutable, HistoryKept

-----------------------------------------------------------------------------
(* Where sessions come from and which of them have an end. *)

SourceInv == OriginInv /\ ShapeInv /\ EndInv

\* A step that leaves the records of sessions alone preserves the invariant.
LEMMA SourceUnchanged ==
  ASSUME SourceInv, UNCHANGED <<session, status, requests, activated, seal, fence>>
  PROVE  SourceInv'
BY DEF SourceInv, OriginInv, ShapeInv, EndInv, End, EndIn, RenewsOneShard, HandsOver

\* Ending one source preserves the invariant: a successor's origin has just
\* activated, a source that remains open keeps its request waiting.
LEMMA SourceEnds ==
  ASSUME RecordInv, SourceInv, NEW q \in SessionIds, status[q] = "sealing",
         NEW seals, NEW fences, NEW replacement,
         \A s \in SessionIds \ {q} : EndIn(seals, fences, s) = End(s),
         EndSource(closing[q], seals, fences, replacement),
         UNCHANGED requests
  PROVE  SourceInv'
<1> DEFINE r == closing[q]
           new(s) == Succeeds(r, seals, fences, s)
<1>0. /\ r \in requests \ activated /\ r \in Request /\ q \in r.sources
      /\ EndEffect(r, seals, fences, replacement)
  BY EndSourceEffect
<1>1. /\ seal' = seals /\ fence' = fences
      /\ activated' = IF Activates(r, seals, fences) THEN activated \cup {r} ELSE activated
      /\ \A s \in SessionIds :
           status'[s] = IF Activates(r, seals, fences) /\ s \in r.sources THEN "closed"
                        ELSE IF new(s) THEN "active" ELSE status[s]
      /\ \A s \in SessionIds : new(s) => status[s] = "absent"
      /\ \A s \in SessionIds : ~new(s) => session'[s] = session[s]
      /\ \A s \in SessionIds : new(s) => session'[s].origin = r
  BY <1>0 DEF EndEffect
<1>2. \A s \in SessionIds : new(s) => Activates(r, seals, fences)
  BY DEF Succeeds
<1>3. \A s \in SessionIds : End(s)' = EndIn(seals, fences, s)
  BY <1>1 DEF End, EndIn
<1>4. AbsentInv /\ RequestInv
  BY DEF RecordInv
<1> HIDE DEF r, new
<1>5. OriginInv'
  <2> SUFFICES ASSUME NEW s \in SessionIds, session'[s].origin # NoRequest
               PROVE  session'[s].origin \in activated'
    BY DEF OriginInv
  <2>1. CASE new(s)
    BY <2>1, <1>1, <1>2
  <2>2. CASE ~new(s)
    BY <2>2, <1>1 DEF SourceInv, OriginInv
  <2> QED
    BY <2>1, <2>2
<1>6. ShapeInv'
  BY DEF SourceInv, ShapeInv, RenewsOneShard, HandsOver
<1>7. ASSUME NEW s \in SessionIds, status'[s] = "active" PROVE End(s)' = NoCheckpoint
  <2>1. CASE new(s)
    <3>1. End(s) = NoCheckpoint /\ s # q
      BY <2>1, <1>1, <1>4 DEF AbsentInv, End, EndIn
    <3> QED
      BY <3>1, <1>3
  <2>2. CASE ~new(s)
    <3>1. status[s] = "active" /\ s # q
      BY <2>2, <1>1, <1>7
    <3> QED
      BY <3>1, <1>3 DEF SourceInv, EndInv
  <2> QED
    BY <2>1, <2>2
<1>8. ASSUME NEW o \in requests' \ activated' PROVE \E s \in o.sources : End(s)' = NoCheckpoint
  <2>1. o \in requests \ activated
    BY <1>1, <1>8
  <2>2. o \in Request /\ o.sources \subseteq SessionIds
    BY <2>1 DEF RecordInv, RecordsTypeOK, Request
  <2>3. CASE o = r
    <3>1. ~Activates(r, seals, fences)
      BY <2>3, <1>1, <1>8
    <3>2. PICK s \in r.sources : EndIn(seals, fences, s) = NoCheckpoint
      BY <3>1 DEF Activates
    <3> QED
      BY <2>2, <2>3, <3>2, <1>3
  <2>4. CASE o # r
    <3>1. PICK s \in o.sources : End(s) = NoCheckpoint
      BY <2>1 DEF SourceInv, EndInv
    <3>2. closing[s] = o /\ closing[q] = r
      BY <2>1, <3>1, <1>4 DEF RequestInv, r
    <3>3. s # q
      BY <3>2, <2>4
    <3> QED
      BY <2>2, <3>1, <3>3, <1>3
  <2> QED
    BY <2>3, <2>4
<1> QED
  BY <1>5, <1>6, <1>7, <1>8 DEF SourceInv, EndInv

\* Every step preserves the invariant.
LEMMA SourceStep ==
  ASSUME IInv, SourceInv, [Next]_vars
  PROVE  SourceInv'
<1>0. RecordInv /\ RecordsTypeOK
  BY DEF IInv, RecordInv
<1>1. CASE UNCHANGED sessionRecords
  BY <1>1, SourceUnchanged DEF sessionRecords
<1>2. ASSUME NEW q \in SessionIds, NEW n \in AppFrames, NEW d \in Digests,
             ExecutesFrame(q, n, d)
      PROVE  SourceInv'
  BY <1>2, SourceUnchanged DEF ExecutesFrame
<1>3. ASSUME NEW q \in SessionIds, NEW c \in Checkpoint, SubmitSeal(q, c)
      PROVE  SourceInv'
  <2> DEFINE seals == [seal EXCEPT ![q] = c]
             fences == fence
             replacement == Unread
  <2>1. /\ status[q] = "sealing"
        /\ EndSource(closing[q], seals, fences, replacement)
        /\ \A s \in SessionIds \ {q} : EndIn(seals, fences, s) = End(s)
        /\ UNCHANGED requests
    BY <1>0, <1>3, SealFacts
  <2> HIDE DEF seals, fences, replacement
  <2> QED
    BY <1>0, <2>1, SourceEnds
<1>4. ASSUME NEW r \in Request, MakesRequest(r)
      PROVE  SourceInv'
  <2>1. /\ UNCHANGED <<session, activated, seal, fence>>
        /\ requests' = requests \cup {r}
        /\ status' = [s \in SessionIds |-> IF s \in r.sources THEN "sealing" ELSE status[s]]
        /\ r.sources # {} /\ \A s \in r.sources : status[s] = "active"
        /\ RenewsOneShard(r) \/ HandsOver(r)
    BY <1>4 DEF MakesRequest, Schedule
  <2>2. OriginInv'
    BY <2>1 DEF SourceInv, OriginInv
  <2>3. ShapeInv'
    BY <2>1 DEF SourceInv, ShapeInv, RenewsOneShard, HandsOver
  <2>4. \A s \in SessionIds : status'[s] = "active" => End(s)' = NoCheckpoint
    BY <2>1 DEF SourceInv, EndInv, End, EndIn
  <2>5. r.sources \subseteq SessionIds
    BY DEF Request
  <2>6. \A o \in requests' \ activated' : \E s \in o.sources : End(s)' = NoCheckpoint
    <3>1. \A s \in r.sources : End(s) = NoCheckpoint
      BY <2>1, <2>5 DEF SourceInv, EndInv
    <3>2. \A s \in SessionIds : End(s)' = End(s)
      BY <2>1 DEF End, EndIn
    <3>3. \A o \in requests : o.sources \subseteq SessionIds
      BY <1>0 DEF RecordsTypeOK, Request
    <3> QED
      BY <2>1, <2>5, <3>1, <3>2, <3>3 DEF SourceInv, EndInv
  <2> QED
    BY <2>2, <2>3, <2>4, <2>6 DEF SourceInv, EndInv
<1>5. ASSUME NEW f \in Filters, NEW S \in (SUBSET Provers) \cup {Unread}, FenceSession(f, S)
      PROVE  SourceInv'
  <2> DEFINE q == HeadSession(f)
             seals == seal
             fences == [fence EXCEPT ![q] = Executed(q)]
             replacement == IF S = {} THEN Unread ELSE S
  <2>1. /\ q \in SessionIds /\ status[q] = "sealing"
        /\ EndSource(closing[q], seals, fences, replacement)
        /\ \A s \in SessionIds \ {q} : EndIn(seals, fences, s) = End(s)
        /\ UNCHANGED requests
    BY <1>0, <1>5, FenceFacts
  <2> HIDE DEF seals, fences, replacement, q
  <2> QED
    BY <1>0, <2>1, SourceEnds
<1>6. ASSUME NEW f \in Filters, NEW S \in SUBSET Provers, ReconcileFirst(f, S)
      PROVE  SourceInv'
  <2> DEFINE q == <<f, 1>>
  <2>1. /\ head[f] = 0
        /\ session' = [session EXCEPT ![q] = [members |-> S, base |-> 0, origin |-> NoRequest]]
        /\ status' = [status EXCEPT ![q] = "active"]
        /\ UNCHANGED <<seal, fence, requests, activated>>
    BY <1>6 DEF ReconcileFirst, InitializesFirst, Initialize
  <2>2. q \in SessionIds /\ status[q] = "absent"
    BY <1>0, <2>1, ConstantsAssumption DEF RecordInv, SessionIds, Generations, HeadInv, RecordsTypeOK
  <2> HIDE DEF q
  <2>3. End(q) = NoCheckpoint
    BY <1>0, <2>2 DEF RecordInv, AbsentInv, End, EndIn
  <2>4. OriginInv'
    BY <1>0, <2>1 DEF SourceInv, OriginInv, RecordsTypeOK
  <2>5. ShapeInv'
    BY <2>1 DEF SourceInv, ShapeInv, RenewsOneShard, HandsOver
  <2>6. EndInv'
    BY <1>0, <2>1, <2>3 DEF SourceInv, EndInv, End, EndIn, RecordsTypeOK
  <2> QED
    BY <2>4, <2>5, <2>6 DEF SourceInv
<1> QED
  BY <1>1, <1>2, <1>3, <1>4, <1>5, <1>6, StepKinds

\* In the initial state there is no session and no request.
LEMMA SourceInit == Init => SourceInv
BY DEF Init, SourceInv, OriginInv, ShapeInv, EndInv, NoSession

\* The invariant holds in every reachable state.
LEMMA SourceInvariance == Spec => [](IInv /\ SourceInv)
<1>1. IInv /\ SourceInv /\ [Next]_vars => SourceInv'
  BY SourceStep
<1> QED
  BY <1>1, SourceInit, Invariance, PTL DEF Spec

\* A successor exists only when every session its request named has closed at
\* a recorded end (activate_with waits for all of them): the old and the new
\* committee of an address never both certify.
THEOREM SuccessorsFollow == Spec => []SuccessorFollowsSources
<1>1. IInv /\ SourceInv => SuccessorFollowsSources
  <2> SUFFICES ASSUME IInv, SourceInv, NEW s \in SessionIds, session[s].origin # NoRequest,
                      NEW q \in session[s].origin.sources
               PROVE  status[q] = "closed" /\ End(q) # NoCheckpoint
    BY DEF SuccessorFollowsSources
  <2>1. session[s].origin \in activated
    BY DEF SourceInv, OriginInv
  <2>2. q \in SessionIds /\ status[q] = "closed"
    BY <2>1 DEF IInv, RecordInv, RequestInv, RecordsTypeOK, Request
  <2> QED
    BY <2>2 DEF IInv, RecordInv, ClosedInv
<1> QED
  BY <1>1, SourceInvariance, PTL
-----------------------------------------------------------------------------
(* The turn of a fenced shard. *)

\* What one step of the session pass does.
SessionPassStep ==
  \E f \in pass.filters :
    \/ FenceSkip(f)
    \/ \E S \in (SUBSET Provers) \cup {Unread} : FenceSession(f, S)
    \/ \E S \in SUBSET Provers :
         ReconcileFirst(f, S) \/ ReconcileMembership(f, S) \/ ReconcileSkip(f, S)

\* A session pass begins with the fences, walks the shards and is left by its
\* own steps only: messages and changes of the grid belong to other stages.
LEMMA SessionPassSteps ==
  ASSUME IInv, [Next]_vars
  PROVE  \/ UNCHANGED vars
         \/ pass.stage \notin {"fence", "reconcile"} /\ pass'.stage \notin {"fence", "reconcile"}
         \/ EndFlip
         \/ SessionPassStep
         \/ EndFence \/ EndPass
<1>0. pass \in Pass
  BY DEF IInv, WorkTypeOK
<1>1. CASE \/ BeginPass \/ NextFrame
           \/ \E s \in SessionIds, n \in AppFrames, d \in Digests : ExecuteHeader(s, n, d)
  <2>1. StartedPass.stage = "gate" /\ IdlePass("open").stage = "open"
    BY DEF StartedPass, IdlePass
  <2> QED
    BY <1>1, <2>1 DEF BeginPass, NextFrame, ExecuteHeader, Messages
<1>2. CASE \/ \E s \in SessionIds, c \in Checkpoint : SubmitSeal(s, c)
           \/ \E s \in SessionIds, c \in Checkpoint, n \in AppFrames, d \in Digests :
                SubmitPartialDrain(s, c, n, d)
           \/ \E c \in Changes : ProposeChange(c)
  BY <1>2 DEF SubmitSeal, SubmitPartialDrain, ProposeChange, Messages
<1>3. CASE \E p \in pass.changes :
             \/ GateApply(p) \/ GateDrop(p) \/ GateWait(p) \/ Flip(p)
             \/ \E m \in Committees(p.change) : GateSchedule(p, m)
  <2>1. PICK p \in pass.changes :
             \/ GateApply(p) \/ GateDrop(p) \/ GateWait(p) \/ Flip(p)
             \/ \E m \in Committees(p.change) : GateSchedule(p, m)
    BY <1>3
  <2>2. CASE GateApply(p)
    BY <1>0, <2>2 DEF GateApply, Pass
  <2>3. CASE GateDrop(p)
    BY <1>0, <2>3 DEF GateDrop, Pass
  <2>4. CASE GateWait(p)
    BY <1>0, <2>4 DEF GateWait, Pass
  <2>5. CASE Flip(p)
    <3>1. pass.stage = "flip"
          /\ \E l : pass' = [pass EXCEPT !.changes = @ \ {p}, !.live = l]
      BY <2>5 DEF Flip
    <3> QED
      BY <1>0, <3>1 DEF Pass
  <2>6. CASE \E m \in Committees(p.change) : GateSchedule(p, m)
    BY <1>0, <2>6 DEF GateSchedule, Pass
  <2> QED
    BY <2>1, <2>2, <2>3, <2>4, <2>5, <2>6
<1>4. CASE EndGate
  BY <1>0, <1>4 DEF EndGate, Pass
<1>5. CASE Horizon
  BY <1>5 DEF Horizon
<1> QED
  BY <1>1, <1>2, <1>3, <1>4, <1>5 DEF Next, PassStep, SessionPassStep

\* What the walk leaves of the pass: the shard's turn is over, its eligibility
\* is noted if it was read.
LEMMA WalkedFields ==
  ASSUME pass \in Pass, pass.filters # {}, NEW S \in (SUBSET Provers) \cup {Unread}
  PROVE  /\ NextFilter \in pass.filters
         /\ Walked(S).stage = pass.stage /\ Walked(S).fenced = pass.fenced
         /\ Walked(S).filters = pass.filters \ {NextFilter}
         /\ \A f \in Filters : f # NextFilter => Walked(S).scan[f] = pass.scan[f]
         /\ NextFilter \in Filters =>
              Walked(S).scan[NextFilter] = IF S = Unread THEN pass.scan[NextFilter] ELSE S
<1>1. NextFilter \in pass.filters
  BY DEF NextFilter
<1> QED
  BY <1>1 DEF Walked, Pass

\* A fence changes nothing of a shard that no waiting request targets, except
\* that its session may close.
LEMMA FenceElsewhere ==
  ASSUME IInv, NEW f \in Filters, NEW S \in (SUBSET Provers) \cup {Unread}, FenceSession(f, S),
         NEW g \in Filters, KnownTurn(g)
  PROVE  /\ head'[g] = head[g] /\ session'[HeadSession(g)] = session[HeadSession(g)]
         /\ \A r \in requests' \ activated' : \A t \in r.targets : t.filter # g
         /\ status'[HeadSession(g)] = "active" => status[HeadSession(g)] = "active"
<1> DEFINE q == HeadSession(f)
           r == closing[q]
           fences == [fence EXCEPT ![q] = Executed(q)]
           replacement == IF S = {} THEN Unread ELSE S
<1>0. RecordInv /\ RecordsTypeOK
  BY DEF IInv, RecordInv
<1>1. /\ q \in SessionIds /\ status[q] = "sealing"
      /\ EndSource(closing[q], seal, fences, replacement)
      /\ UNCHANGED requests
  BY <1>0, FenceFacts
<1> HIDE DEF q, fences, replacement
<1>2. r \in requests \ activated /\ EndEffect(r, seal, fences, replacement)
  BY <1>0, <1>1, EndSourceEffect
<1> HIDE DEF r
<1>3. \A t \in r.targets : t.filter # g
  BY <1>2 DEF KnownTurn
<1>4. HeadSession(g) \in SessionIds /\ HeadSession(g)[1] = g
  BY <1>0, ConstantsAssumption DEF KnownTurn, HeadSession, SessionIds, Generations, RecordsTypeOK
<1>5. ~Succeeds(r, seal, fences, HeadSession(g))
  BY <1>3, <1>4 DEF Succeeds, StaffedTarget
<1>6. head'[g] = head[g]
  BY <1>2, <1>3 DEF EndEffect
<1>7. session'[HeadSession(g)] = session[HeadSession(g)]
  BY <1>2, <1>4, <1>5 DEF EndEffect
<1>8. status'[HeadSession(g)] \in {"closed", status[HeadSession(g)]}
  BY <1>2, <1>4, <1>5 DEF EndEffect
<1>9. activated \subseteq activated'
  BY <1>2 DEF EndEffect
<1> QED
  BY <1>1, <1>6, <1>7, <1>8, <1>9 DEF KnownTurn

\* A fenced shard is awaited by no request any more, and its new session, if
\* it received one, has the members the fence read.
LEMMA FencedTurn ==
  ASSUME IInv, SourceInv, NEW f \in Filters, NEW S \in (SUBSET Provers) \cup {Unread},
         FenceSession(f, S), frame >= FencedEligibilityFrame
  PROVE  KnownTurn(f)'
<1> DEFINE q == HeadSession(f)
           r == closing[q]
           fences == [fence EXCEPT ![q] = Executed(q)]
           replacement == IF S = {} THEN Unread ELSE S
           next == <<f, head[f] + 1>>
<1>0. RecordInv /\ RecordsTypeOK /\ pass \in Pass
  BY DEF IInv, RecordInv, WorkTypeOK
<1>1. /\ q \in SessionIds /\ status[q] = "sealing"
      /\ EndSource(closing[q], seal, fences, replacement)
      /\ EndIn(seal, fences, q) # NoCheckpoint
      /\ UNCHANGED requests
  BY <1>0, FenceFacts
<1>2. /\ head[f] # 0 /\ head[f] \in Nat /\ q = <<f, head[f]>> /\ q[1] = f
      /\ pass.filters # {} /\ f = NextFilter
      /\ IF ReadsEligibility(r) THEN S # Unread ELSE S = Unread
      /\ pass' = [Walked(S) EXCEPT !.fenced = @ \cup {f}]
  BY <1>0 DEF FenceSession, FenceDue, HeadSession, RecordsTypeOK
<1>3. S # Unread => pass'.scan[f] = S
  <2>1. Walked(S).scan[f] = IF S = Unread THEN pass.scan[f] ELSE S
    BY <1>0, <1>2, WalkedFields
  <2> QED
    BY <1>2, <2>1 DEF Walked
<1> HIDE DEF q, fences
<1>4. /\ r \in requests \ activated /\ r \in Request /\ q \in r.sources
      /\ EndEffect(r, seal, fences, replacement)
  <2> HIDE DEF replacement
  <2> QED
    BY <1>0, <1>1, EndSourceEffect
<1>5. RenewsOneShard(r) \/ HandsOver(r)
  BY <1>4 DEF SourceInv, ShapeInv
<1> HIDE DEF r
\* A request that would follow this very session is the one it closes for.
<1>6. ASSUME NEW o \in requests \ activated, NEW t \in o.targets, t.filter = f
      PROVE  o = r /\ head[f] = t.generation - 1 /\ t.generation \in Nat
  <2>1. o \in Request /\ t \in Target
    BY <1>0 DEF RecordsTypeOK, Request
  <2>2. t.generation \in Nat
    BY <2>1, ConstantsAssumption DEF Target, Generations
  <2>3. TargetsUnchanged(o)
    BY <1>0 DEF RecordInv, ActivationNeverRefused
  <2>4. head[f] = t.generation - 1
    BY <2>3, <1>6 DEF TargetsUnchanged
  <2>5. <<t.filter, t.generation - 1>> = q /\ t.generation > 1
    BY <1>2, <1>6, <2>2, <2>4
  <2>6. q \in o.sources \/ status[q] = "closed"
    BY <2>3, <2>5 DEF TargetsUnchanged
  <2>7. q \in o.sources
    BY <2>6, <1>1
  <2>8. closing[q] = o
    BY <2>7, <1>0 DEF RecordInv, RequestInv
  <2> QED
    BY <2>2, <2>4, <2>8 DEF r
<1>7. ASSUME NEW t \in r.targets, t.filter = f
      PROVE  RenewsOneShard(r) /\ r.sources = {q} /\ r.targets = {t}
  <2>1. ~HandsOver(r)
    BY <1>2, <1>4, <1>7 DEF HandsOver
  <2>2. RenewsOneShard(r)
    BY <2>1, <1>5
  <2> QED
    BY <2>2, <1>4 DEF RenewsOneShard
<1>8. (head[f] # 0)'
  BY <1>2, <1>4 DEF EndEffect
<1>9. \A o \in requests' \ activated' : \A t \in o.targets : t.filter # f
  <2> SUFFICES ASSUME NEW o \in requests \ activated, o \notin activated',
                      NEW t \in o.targets, t.filter = f
               PROVE  FALSE
    BY <1>1, <1>4 DEF EndEffect
  <2>1. o = r
    BY <1>6
  <2>2. Activates(r, seal, fences)
    BY <2>1, <1>7, <1>1 DEF Activates
  <2> QED
    BY <2>1, <2>2, <1>4 DEF EndEffect
<1>10. ASSUME status'[<<f, head'[f]>>] = "active"
       PROVE  pass'.scan[f] \in {{}, session'[<<f, head'[f]>>].members}
  <2>1. CASE ~(Activates(r, seal, fences) /\ \E t \in r.targets : t.filter = f /\ t.members # {})
    <3>1. head'[f] = head[f]
      BY <2>1, <1>4 DEF EndEffect
    <3>2. status'[q] = "active"
      BY <3>1, <1>2, <1>10
    <3> QED
      BY <3>2, <1>1, <1>4 DEF EndEffect
  <2>2. CASE Activates(r, seal, fences) /\ \E t \in r.targets : t.filter = f /\ t.members # {}
    <3>1. PICK t \in r.targets : t.filter = f /\ t.members # {}
      BY <2>2
    <3>2. head'[f] = head[f] + 1
      BY <2>2, <1>4 DEF EndEffect
    <3>3. t.generation = head[f] + 1
      BY <3>1, <1>2, <1>4, <1>6
    <3>4. t \in Target
      BY <1>4 DEF Request
    <3>5. next \in SessionIds
      BY <3>3, <3>4 DEF Target, SessionIds
    <3>6. Succeeds(r, seal, fences, next)
      BY <2>2, <3>1, <3>3 DEF Succeeds, StaffedTarget
    <3>7. RenewsOneShard(r) /\ r.sources = {q} /\ r.targets = {t}
      BY <3>1, <1>7
    <3>8. Cardinality(r.sources) = 1 /\ Cardinality(r.targets) = 1
      BY <3>7, FS_Singleton
    <3>9. ReadsEligibility(r)
      BY <3>1, <3>7, <3>8, <1>2 DEF ReadsEligibility, RenewsOneShard
    <3>10. S # Unread
      BY <3>9, <1>2
    <3>11. S # {} => session'[next].members = S
      BY <3>5, <3>6, <3>10, <1>4 DEF EndEffect
    <3> QED
      BY <3>2, <3>10, <3>11, <1>3
  <2> QED
    BY <2>1, <2>2
<1> QED
  BY <1>8, <1>9, <1>10 DEF KnownTurn, HeadSession

\* The reconciliation leaves alone a shard whose turn is known: a shard with a
\* session receives no first one, and a session that has the members the pass
\* read is not asked to close.
LEMMA ReconciledTurn ==
  ASSUME IInv, NEW f \in pass.filters, NEW S \in SUBSET Provers,
         ReconcileFirst(f, S) \/ ReconcileMembership(f, S) \/ ReconcileSkip(f, S),
         NEW g \in Filters, KnownTurn(g)
  PROVE  KnownTurn(g)' /\ head'[g] = head[g]
         /\ status'[HeadSession(g)] = status[HeadSession(g)]
<1>0. RecordInv /\ RecordsTypeOK /\ pass \in Pass /\ f \in Filters
  BY DEF IInv, RecordInv, WorkTypeOK, Pass
<1>1. /\ pass.filters # {} /\ f = NextFilter /\ Eligible(f, S) /\ pass' = Walked(S)
  BY DEF ReconcileFirst, ReconcileMembership, ReconcileSkip
<1>2. HeadSession(g) \in SessionIds /\ HeadSession(g)[1] = g /\ head[g] # 0
  BY <1>0, ConstantsAssumption DEF KnownTurn, HeadSession, SessionIds, Generations, RecordsTypeOK
<1>3. S # Unread
  BY SentinelAssumption
<1>4. status[HeadSession(g)] = "active" =>
        pass'.scan[g] \in {{}, session[HeadSession(g)].members}
  <2>1. ASSUME status[HeadSession(g)] = "active"
        PROVE  pass.scan[g] # Unread
    <3>1. session[HeadSession(g)].members \in SUBSET Provers /\ {} \in SUBSET Provers
      BY <1>0, <1>2 DEF RecordsTypeOK, Session
    <3> QED
      BY <2>1, <3>1, SentinelAssumption DEF KnownTurn
  <2>2. CASE g = f
    BY <2>1, <2>2, <1>0, <1>1, <1>3, WalkedFields DEF Eligible, KnownTurn
  <2>3. CASE g # f
    BY <2>3, <1>0, <1>1, <1>3, WalkedFields DEF KnownTurn
  <2> QED
    BY <2>2, <2>3
<1>5. CASE ReconcileFirst(f, S)
  <2>1. /\ head[f] = 0 /\ head' = [head EXCEPT ![f] = 1]
        /\ session' = [session EXCEPT ![<<f, 1>>] =
                         [members |-> S, base |-> 0, origin |-> NoRequest]]
        /\ status' = [status EXCEPT ![<<f, 1>>] = "active"]
        /\ UNCHANGED <<requests, activated>>
    BY <1>5 DEF ReconcileFirst, InitializesFirst, Initialize
  <2>2. g # f
    BY <2>1, <1>2
  <2>3. HeadSession(g) # <<f, 1>>
    BY <2>2 DEF HeadSession
  <2>4. head'[g] = head[g]
    BY <2>1, <2>2, <1>0 DEF RecordsTypeOK
  <2>5. /\ session'[HeadSession(g)] = session[HeadSession(g)]
        /\ status'[HeadSession(g)] = status[HeadSession(g)]
    BY <2>1, <2>3, <1>0, <1>2 DEF RecordsTypeOK
  <2> QED
    BY <2>1, <2>4, <2>5, <1>4 DEF KnownTurn, HeadSession
<1>6. CASE ReconcileMembership(f, S)
  <2> DEFINE r == NewRequest({f}, {}, [h \in {f} |-> S])
  <2>1. /\ r \in Request /\ MakesRequest(r)
        /\ r.sources = {HeadSession(f)} /\ \A t \in r.targets : t.filter = f
    BY <1>6, RenewalShape
  <2> HIDE DEF r
  <2>2. /\ UNCHANGED <<head, session, activated>>
        /\ requests' = requests \cup {r}
        /\ status' = [s \in SessionIds |-> IF s \in r.sources THEN "sealing" ELSE status[s]]
    BY <2>1 DEF MakesRequest, Schedule
  <2>3. /\ S # {} /\ session[HeadSession(f)].members # S /\ status[HeadSession(f)] = "active"
    BY <1>6 DEF ReconcileMembership, SchedulesMembership
  <2>4. g # f
    <3> SUFFICES ASSUME g = f PROVE FALSE
      OBVIOUS
    <3>1. pass'.scan[f] \in {{}, session[HeadSession(f)].members}
      BY <2>3, <1>4
    <3>2. pass'.scan[f] = S
      BY <1>0, <1>1, <1>3, WalkedFields
    <3> QED
      BY <3>1, <3>2, <2>3
  <2>5. HeadSession(g) # HeadSession(f)
    BY <2>4 DEF HeadSession
  <2>6. status'[HeadSession(g)] = status[HeadSession(g)]
    BY <2>1, <2>2, <2>5, <1>2
  <2>7. \A o \in requests' \ activated' : \A t \in o.targets : t.filter # g
    BY <2>1, <2>2, <2>4 DEF KnownTurn
  <2> QED
    BY <2>2, <2>6, <2>7, <1>2, <1>4 DEF KnownTurn, HeadSession
<1>7. CASE ReconcileSkip(f, S)
  <2>1. UNCHANGED <<head, session, status, requests, activated>>
    BY <1>7 DEF ReconcileSkip, records
  <2> QED
    BY <2>1, <1>2, <1>4 DEF KnownTurn, HeadSession
<1> QED
  BY <1>5, <1>6, <1>7

\* The fences and the reconciliation of a pass keep what it knows.
LEMMA TurnStep ==
  ASSUME IInv, SourceInv, TurnInv, [Next]_vars
  PROVE  TurnInv'
<1>0. pass \in Pass /\ pass.filters \subseteq Filters /\ pass.fenced \subseteq Filters
  BY DEF IInv, WorkTypeOK, Pass
<1>1. CASE UNCHANGED vars
  BY <1>1 DEF TurnInv, KnownTurn, HeadSession, vars, records
<1>2. CASE pass'.stage \notin {"fence", "reconcile"}
  BY <1>2 DEF TurnInv
<1>3. CASE EndFlip
  <2>1. pass'.fenced = {}
    BY <1>3 DEF EndFlip, IdlePass
  <2> QED
    BY <2>1 DEF TurnInv
<1>4. CASE EndFence
  <2>1. CASE pass' = IdlePass("done")
    BY <2>1 DEF TurnInv, IdlePass
  <2>2. CASE pass' # IdlePass("done")
    <3>1. /\ pass.stage = "fence" /\ UNCHANGED <<head, session, status, requests, activated, frame>>
          /\ pass' = [pass EXCEPT !.stage = "reconcile", !.filters = grid]
      BY <1>4, <2>2 DEF EndFence, records
    <3>2. pass'.stage = "reconcile" /\ pass'.fenced = pass.fenced /\ pass'.scan = pass.scan
      BY <1>0, <3>1 DEF Pass
    <3> QED
      BY <3>1, <3>2 DEF TurnInv, KnownTurn, HeadSession
  <2> QED
    BY <2>1, <2>2
<1>5. CASE EndPass
  BY <1>5 DEF EndPass, IdlePass, TurnInv
<1>6. ASSUME NEW f \in pass.filters, FenceSkip(f) PROVE TurnInv'
  <2>1. /\ pass.filters # {} /\ f = NextFilter /\ pass' = Walked(Unread) /\ pass.stage = "fence"
        /\ UNCHANGED <<head, session, status, requests, activated, frame>>
    BY <1>6 DEF FenceSkip, records
  <2>2. /\ pass'.stage = "fence" /\ pass'.fenced = pass.fenced
        /\ pass'.filters \subseteq pass.filters
        /\ \A g \in Filters : pass'.scan[g] = pass.scan[g]
    BY <1>0, <2>1, WalkedFields
  <2>3. \A g \in pass.fenced : KnownTurn(g) => KnownTurn(g)'
    BY <1>0, <2>1, <2>2 DEF KnownTurn, HeadSession
  <2> QED
    BY <2>1, <2>2, <2>3 DEF TurnInv
<1>7. ASSUME NEW f \in pass.filters, NEW S \in (SUBSET Provers) \cup {Unread}, FenceSession(f, S)
      PROVE  TurnInv'
  <2>1. /\ pass.filters # {} /\ f = NextFilter /\ pass.stage = "fence" /\ UNCHANGED frame
        /\ pass' = [Walked(S) EXCEPT !.fenced = @ \cup {f}]
    BY <1>7 DEF FenceSession
  <2>2. /\ Walked(S).stage = "fence" /\ Walked(S).fenced = pass.fenced
        /\ Walked(S).filters = pass.filters \ {f}
        /\ \A g \in Filters : g # f => Walked(S).scan[g] = pass.scan[g]
    BY <1>0, <2>1, WalkedFields
  <2>3. /\ pass'.stage = "fence" /\ pass'.fenced = pass.fenced \cup {f}
        /\ pass'.filters = pass.filters \ {f}
        /\ \A g \in Filters : g # f => pass'.scan[g] = pass.scan[g]
    BY <2>1, <2>2 DEF Walked
  <2>4. pass'.fenced \cap pass'.filters = {}
    BY <2>1, <2>3 DEF TurnInv
  <2>5. ASSUME NEW g \in pass.fenced, frame >= FencedEligibilityFrame PROVE KnownTurn(g)'
    <3>1. KnownTurn(g) /\ g # f /\ g \in Filters
      BY <1>0, <2>1, <2>5 DEF TurnInv
    <3>2. /\ head'[g] = head[g] /\ session'[HeadSession(g)] = session[HeadSession(g)]
          /\ \A r \in requests' \ activated' : \A t \in r.targets : t.filter # g
          /\ status'[HeadSession(g)] = "active" => status[HeadSession(g)] = "active"
      BY <1>0, <1>7, <3>1, FenceElsewhere
    <3> QED
      BY <2>3, <3>1, <3>2 DEF KnownTurn, HeadSession
  <2>6. frame >= FencedEligibilityFrame => KnownTurn(f)'
    BY <1>0, <1>7, FencedTurn
  <2> QED
    BY <2>1, <2>3, <2>4, <2>5, <2>6 DEF TurnInv
<1>8. ASSUME NEW f \in pass.filters, NEW S \in SUBSET Provers,
             ReconcileFirst(f, S) \/ ReconcileMembership(f, S) \/ ReconcileSkip(f, S)
      PROVE  TurnInv'
  <2>1. /\ pass.filters # {} /\ pass.stage = "reconcile" /\ UNCHANGED frame
        /\ pass' = Walked(S)
    BY <1>8 DEF ReconcileFirst, ReconcileMembership, ReconcileSkip
  <2>2. pass'.stage = "reconcile" /\ pass'.fenced = pass.fenced
    BY <1>0, <2>1, WalkedFields
  <2>3. \A g \in pass.fenced : KnownTurn(g) => KnownTurn(g)'
    BY <1>0, <1>8, ReconciledTurn
  <2> QED
    BY <2>1, <2>2, <2>3 DEF TurnInv
<1> QED
  BY <1>1, <1>2, <1>3, <1>4, <1>5, <1>6, <1>7, <1>8, SessionPassSteps DEF SessionPassStep

\* What a step of the reconciliation may never do to a shard fenced before it.
TurnKept ==
  (pass.stage = "reconcile" /\ frame >= FencedEligibilityFrame) =>
    \A f \in pass.fenced :
      head'[f] = head[f] /\ status'[HeadSession(f)] = status[HeadSession(f)]

\* No step of the reconciliation writes a shard fenced in its pass.
LEMMA TurnKeptStep ==
  ASSUME IInv, TurnInv, [Next]_vars
  PROVE  TurnKept
<1> SUFFICES ASSUME pass.stage = "reconcile", frame >= FencedEligibilityFrame,
                    NEW g \in pass.fenced
             PROVE  head'[g] = head[g] /\ status'[HeadSession(g)] = status[HeadSession(g)]
  BY DEF TurnKept
<1>0. g \in Filters /\ KnownTurn(g)
  BY DEF IInv, WorkTypeOK, Pass, TurnInv
<1>1. CASE UNCHANGED vars
  BY <1>1 DEF vars, records
<1>2. CASE EndFlip \/ EndFence \/ EndPass
  BY <1>2 DEF EndFlip, EndFence, EndPass, records
<1>3. ASSUME NEW f \in pass.filters,
             FenceSkip(f) \/ \E S \in (SUBSET Provers) \cup {Unread} : FenceSession(f, S)
      PROVE  FALSE
  BY <1>3 DEF FenceSkip, FenceSession
<1>4. ASSUME NEW f \in pass.filters, NEW S \in SUBSET Provers,
             ReconcileFirst(f, S) \/ ReconcileMembership(f, S) \/ ReconcileSkip(f, S)
      PROVE  head'[g] = head[g] /\ status'[HeadSession(g)] = status[HeadSession(g)]
  BY <1>0, <1>4, ReconciledTurn
<1> QED
  BY <1>1, <1>2, <1>3, <1>4, SessionPassSteps DEF SessionPassStep

\* The complete invariant holds in every reachable state.
LEMMA HistoryInvariance == Spec => [](IInv /\ SourceInv /\ TurnInv)
<1>1. Init => TurnInv
  BY DEF Init, TurnInv, IdlePass
<1>2. IInv /\ SourceInv /\ TurnInv /\ [Next]_vars => TurnInv'
  BY TurnStep
<1> QED
  BY <1>1, <1>2, SourceInvariance, PTL DEF Spec

\* The session a fence authorized is not asked to close by the reconciliation
\* of the same pass, from the frame that gives it current eligibility
\* (fenced_committee reads what reconcile_membership will compare with).
THEOREM FencedSuccessorsKeepTurn == Spec => FencedSuccessorKeepsTurn
<1>1. IInv /\ TurnInv /\ [Next]_vars => [TurnKept]_vars
  BY TurnKeptStep
<1> QED
  BY <1>1, HistoryInvariance, PTL DEF Spec, FencedSuccessorKeepsTurn, TurnKept

=============================================================================
