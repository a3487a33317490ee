------------------------- MODULE HandoffFamilyProofs -------------------------
(***************************************************************************)
(* Splits and merges that do not reach into one another: every shard       *)
(* belongs to at most one parent that is split into the same children and  *)
(* merged from them again.  Nothing in the code keeps a proposer to that,  *)
(* and outside it the conclusions fail (runs nested_split and stale_merge  *)
(* of the project).  Within it they hold for any number of families,       *)
(* children, proposals and frames, and in every order of messages and      *)
(* passes: what HandoffTopologyProofs assumes of the pass becomes part of  *)
(* the invariant.                                                          *)
(***************************************************************************)
EXTENDS HandoffTopologyProofs

\* The old and the new shards of a change, whichever way it goes.
Family(c) == c.old \cup c.new

Apart(c, d) == \A f \in Family(c), g \in Family(d) : Cover[f] \cap Cover[g] = {}

\* Two changes go the same way between the same shards, or one undoes the
\* other, or they have no address in common.  A split has several children.
Families ==
  /\ \A c, d \in Changes : \/ c.old = d.old /\ c.new = d.new
                           \/ c.old = d.new /\ c.new = d.old
                           \/ Apart(c, d)
  /\ \A c \in Changes : c.kind = "split" => \A f \in Filters : c.new # {f}
  /\ \A c \in Changes : \/ c.old \subseteq GenesisGrid /\ c.new \cap GenesisGrid = {}
                        \/ c.new \subseteq GenesisGrid /\ c.old \cap GenesisGrid = {}

\* Of every family the grid has one side, all of it.
SideInv ==
  \A c \in Changes : \/ c.old \subseteq grid /\ c.new \cap grid = {}
                     \/ c.new \subseteq grid /\ c.old \cap grid = {}

\* The change that registers the old shards of p waits for the grid step.
Opening(p) ==
  \E po \in topology :
    /\ po[1] \in pending /\ po[2] \in activated
    /\ po[1].change.new = p.change.old /\ po[1].change.old = p.change.new

\* A scheduled change has its old shards in the grid, or will have them when
\* the pass is done with it.
WaitInv ==
  \A p \in pending : Scheduled(p) =>
    \/ p.change.old \subseteq grid
    \/ pass.stage \in {"gate", "flip"} /\ Opening(p)

\* What the gate knew of a change it let through stays true until its flip.
LetThrough(p) ==
  IF Scheduled(p) THEN p.change.old \subseteq grid /\ ~StaleSplit(p)
  ELSE Sources(p) = {} \/ StaleSplit(p)

FlipInv ==
  /\ pass.stage = "gate" => \A p \in pass.ready : LetThrough(p)
  /\ pass.stage = "flip" => \A p \in pass.changes : LetThrough(p)

\* The request of a change names all its new shards.
TargetInv ==
  \A pr \in topology : \A f \in pr[1].change.new : \E t \in pr[2].targets : t.filter = f

\* A live session that lost its place (its shard was declared vacant) has a
\* sibling that closed, so no change of the family is scheduled again.
Stuck(f) ==
  \E c \in Changes : /\ f \in c.old
                     /\ \E g \in c.old : head[g] # 0 /\ status[HeadSession(g)] = "closed"

StuckInv == \A s \in SessionIds : Live(s) /\ ~Placed(s[1]) => Stuck(s[1])

FamilyInv ==
  /\ GridPrefixFree /\ SideInv /\ PlanInv /\ PassInv /\ LastInv /\ KeptPlaceInv /\ TimeInv
  /\ WaitInv /\ FlipInv /\ TargetInv /\ StuckInv /\ VacantOnce

-----------------------------------------------------------------------------
(* Changes of one family. *)

\* Two changes that share a shard go the same way or undo one another.
LEMMA Related ==
  ASSUME Families, NEW c \in Changes, NEW d \in Changes,
         NEW f \in Family(c), f \in Family(d)
  PROVE  \/ c.old = d.old /\ c.new = d.new
         \/ c.old = d.new /\ c.new = d.old
<1>1. f \in Filters /\ Cover[f] # {}
  BY TopologyAssumption DEF Family
<1>2. ~Apart(c, d)
  BY <1>1 DEF Apart
<1> QED
  BY <1>2 DEF Families

\* Changes whose old shards meet go the same way.
LEMMA SameOld ==
  ASSUME ShardTree, Families, NEW c \in Changes, NEW d \in Changes,
         NEW f \in c.old, f \in d.old
  PROVE  c.old = d.old /\ c.new = d.new
<1>1. f \notin d.new
  BY DEF ShardTree
<1> QED
  BY <1>1, Related DEF Family

\* A change whose new shards meet the old ones of another undoes it.
LEMMA Undoes ==
  ASSUME ShardTree, Families, NEW c \in Changes, NEW d \in Changes,
         NEW f \in c.old, f \in d.new
  PROVE  c.old = d.new /\ c.new = d.old
<1>1. f \notin d.old
  BY DEF ShardTree
<1> QED
  BY <1>1, Related DEF Family

\* The flip of a change that is not skipped takes the grid to the other side
\* of its family and leaves the other families alone.
LEMMA SideStep ==
  ASSUME ShardTree, Families, IInv, SideInv, [Next]_vars
  PROVE  SideInv'
<1>1. CASE UNCHANGED grid
  BY <1>1 DEF SideInv
<1>2. ASSUME NEW p \in pass.changes, Flip(p) PROVE SideInv'
  <2> DEFINE d == p.change
  <2>1. d \in Changes
    BY ChangeTypes
  <2>2. grid' = IF StaleSplit(p) THEN grid ELSE (grid \ d.old) \cup d.new
    BY <1>2, <2>1, FlippedGrid
  <2>3. d.old \cap d.new = {}
    BY <2>1 DEF ShardTree
  <2> HIDE DEF d
  <2> SUFFICES ASSUME NEW c \in Changes
               PROVE  \/ c.old \subseteq grid' /\ c.new \cap grid' = {}
                      \/ c.new \subseteq grid' /\ c.old \cap grid' = {}
    BY DEF SideInv
  <2>4. CASE StaleSplit(p)
    BY <2>2, <2>4 DEF SideInv
  <2>5. CASE ~StaleSplit(p) /\ Family(c) \cap Family(d) = {}
    <3>1. \A f \in Family(c) : f \in grid' <=> f \in grid
      BY <2>2, <2>5 DEF Family
    <3> QED
      BY <3>1 DEF SideInv, Family
  <2>6. CASE ~StaleSplit(p) /\ Family(c) \cap Family(d) # {}
    <3>1. \/ c.old = d.old /\ c.new = d.new
          \/ c.old = d.new /\ c.new = d.old
      BY <2>1, <2>6, Related
    <3>2. d.new \subseteq grid' /\ d.old \cap grid' = {}
      BY <2>2, <2>3, <2>6
    <3> QED
      BY <3>1, <3>2
  <2> QED
    BY <2>4, <2>5, <2>6
<1> QED
  BY <1>1, <1>2, GridWrites

\* What the gate lets through is current when it is applied.
LEMMA LetThroughCurrent ==
  ASSUME IInv, SideInv, FlipInv
  PROVE  AppliedCurrent
<1> SUFFICES ASSUME pass.stage = "flip", NEW p \in pass.changes
             PROVE  \/ StaleSplit(p) /\ ~Scheduled(p)
                    \/ ~StaleSplit(p) /\ p.change.old \subseteq grid /\ (Scheduled(p) \/ Sources(p) = {})
                    \/ ~StaleSplit(p) /\ p.change.old \cap grid = {} /\ p.change.new \subseteq grid
  BY DEF AppliedCurrent
<1>1. p.change \in Changes
  BY ChangeTypes
<1>2. LetThrough(p)
  BY DEF FlipInv
<1> QED
  BY <1>1, <1>2 DEF LetThrough, SideInv

\* Of two pending changes that go the same way only one is scheduled, and the
\* other one waits for its sources.
LEMMA SameWay ==
  ASSUME IInv, PlanInv, LastInv, VacantOnce,
         NEW p \in pending, NEW q \in pending, Scheduled(p),
         q.change.old = p.change.old, Scheduled(q) \/ Sources(q) = {}
  PROVE  p = q
<1>1. PICK pr \in topology : pr[1] = p
  BY DEF Scheduled
<1>2. pr[2] \in Request /\ pr[2] \in requests /\ RequestInv
  BY ChangeTypes DEF PlanInv, RequestOfChange
<1>3. PICK s \in pr[2].sources : TRUE
  BY <1>2 DEF RequestInv
<1>4. s[1] \in q.change.old
  BY <1>1, <1>3 DEF PlanInv, RequestOfChange
<1>5. head[s[1]] # 0
  <2>1. s[2] \in Generations
    BY <1>2, <1>3 DEF Request, SessionIds
  <2>2. head[s[1]] = s[2]
    BY <1>1, <1>3 DEF LastInv
  <2> QED
    BY <2>1, <2>2, ConstantsAssumption DEF Generations
<1>6. PICK po \in topology : po[1] = q
  BY <1>4, <1>5 DEF Scheduled, Sources
<1>7. pr = po
  BY <1>1, <1>3, <1>4, <1>6, ClosedByOne
<1> QED
  BY <1>1, <1>6, <1>7

\* The flip of one change leaves another one as the gate found it.
LEMMA FlipKeeps ==
  ASSUME ShardTree, Families, IInv, PlanInv, LastInv, VacantOnce,
         NEW q \in pass.changes, q \in pending, Flip(q), LetThrough(q),
         NEW p \in pending, p # q, Scheduled(p), p.change.old \subseteq grid
  PROVE  /\ p.change.old \subseteq grid'
         /\ ~StaleSplit(p) => ~StaleSplit(p)'
<1> DEFINE c == p.change
           d == q.change
<1>1. c \in Changes /\ d \in Changes
  BY ChangeTypes
<1>2. grid' = IF StaleSplit(q) THEN grid ELSE (grid \ d.old) \cup d.new
  BY <1>1, FlippedGrid
<1>3. pass'.live = IF d.kind = "split" /\ ~StaleSplit(q)
                   THEN (pass.live \ d.old) \cup d.new ELSE pass.live
  <2>1. pass \in Pass
    BY ChangeTypes
  <2> QED
    BY <2>1 DEF Flip, Flipped, StaleSplit, Pass
<1>4. c.kind = "split" => c.old = {c.parent}
  BY <1>1, TopologyAssumption
<1>5. StaleSplit(q) \/ c.old \cap d.old = {}
  <2> SUFFICES ASSUME ~StaleSplit(q), NEW f \in c.old, f \in d.old PROVE FALSE
    OBVIOUS
  <2>1. c.old = d.old
    BY <1>1, SameOld
  <2>2. Scheduled(q) \/ Sources(q) = {}
    BY DEF LetThrough
  <2> QED
    BY <2>1, <2>2, SameWay
<1>6. StaleSplit(p)' <=> c.kind = "split" /\ c.parent \notin pass'.live
  BY DEF StaleSplit
<1>7. StaleSplit(p) <=> c.kind = "split" /\ c.parent \notin pass.live
  BY DEF StaleSplit
<1> HIDE DEF c, d
<1>8. c.old \subseteq grid
  BY DEF c
<1>9. c.old \subseteq grid' /\ (~StaleSplit(p) => ~StaleSplit(p)')
  BY <1>2, <1>3, <1>4, <1>5, <1>6, <1>7, <1>8
<1> QED
  BY <1>9 DEF c

-----------------------------------------------------------------------------
(* The gate and the grid step. *)

\* The gate and the grid step end with the grid step.
LEMMA GateLeft ==
  ASSUME IInv, [Next]_vars, pass.stage \in {"gate", "flip"}
  PROVE  EndFlip \/ pass'.stage \in {"gate", "flip"}
<1>0. pass \in Pass
  BY ChangeTypes
<1>1. CASE UNCHANGED vars
  BY <1>1 DEF vars
<1>2. CASE \E p \in pass.changes :
             \/ GateApply(p) \/ GateDrop(p) \/ GateWait(p) \/ Flip(p)
             \/ \E m \in Committees(p.change) : GateSchedule(p, m)
  BY <1>0, <1>2 DEF GateApply, GateDrop, GateWait, Flip, GateSchedule, Pass
<1>3. CASE EndGate
  BY <1>0, <1>3 DEF EndGate, Pass
<1>4. CASE \/ BeginPass \/ EndFence \/ EndPass \/ NextFrame \/ Horizon \/ SessionPassStep
  BY <1>4 DEF BeginPass, EndFence, EndPass, NextFrame, Horizon, SessionPassStep, FenceSkip,
              FenceSession, ReconcileFirst, ReconcileMembership, ReconcileSkip
<1>5. CASE \/ \E s \in SessionIds, n \in AppFrames, d \in Digests : ExecuteHeader(s, n, d)
           \/ \E s \in SessionIds, c \in Checkpoint : SubmitSeal(s, c)
           \/ \E s \in SessionIds, c \in Checkpoint, n \in AppFrames, d \in Digests :
                SubmitPartialDrain(s, c, n, d)
           \/ \E c \in Changes : ProposeChange(c)
  BY <1>5 DEF ExecuteHeader, SubmitSeal, SubmitPartialDrain, ProposeChange, Messages
<1> QED
  BY <1>1, <1>2, <1>3, <1>4, <1>5 DEF Next, PassStep, SessionPassStep

\* What the gate knew of a change stays true until its flip.
LEMMA FlipStep ==
  ASSUME ShardTree, Families, IInv, PlanInv, PassInv, LastInv, VacantOnce, FlipInv,
         [Next]_vars
  PROVE  FlipInv'
<1>0. pass \in Pass /\ \A p \in pass.changes \cup pass.ready : p.change \in Changes
  BY ChangeTypes
<1>1. CASE UNCHANGED vars
  BY <1>1 DEF FlipInv, LetThrough, Scheduled, StaleSplit, Sources, vars, records, shards
<1>2. CASE pass'.stage \notin {"gate", "flip"}
  BY <1>2 DEF FlipInv
<1>3. CASE pass' = StartedPass
  <2>1. pass'.stage = "gate" /\ pass'.ready = {}
    BY <1>3 DEF StartedPass, IdlePass
  <2> QED
    BY <2>1 DEF FlipInv
<1>4. CASE \/ BeginPass
           \/ \E s \in SessionIds, n \in AppFrames, d \in Digests : ExecuteHeader(s, n, d)
           \/ \E s \in SessionIds, c \in Checkpoint : SubmitSeal(s, c)
           \/ \E s \in SessionIds, c \in Checkpoint, n \in AppFrames, d \in Digests :
                SubmitPartialDrain(s, c, n, d)
           \/ \E c \in Changes : ProposeChange(c)
           \/ NextFrame \/ EndPass \/ EndFence \/ EndFlip \/ Horizon
  <2>1. pass' = StartedPass \/ pass'.stage \notin {"gate", "flip"}
    <3>1. /\ IdlePass("open").stage = "open" /\ IdlePass("done").stage = "done"
          /\ [IdlePass("fence") EXCEPT !.filters = grid].stage = "fence"
      BY DEF IdlePass
    <3>2. [pass EXCEPT !.stage = "reconcile", !.filters = grid].stage = "reconcile"
      BY <1>0 DEF Pass
    <3> QED
      BY <1>4, <3>1, <3>2 DEF BeginPass, ExecuteHeader, SubmitSeal, SubmitPartialDrain,
        ProposeChange, Messages, NextFrame, EndPass, EndFence, EndFlip, Horizon, vars
  <2> QED
    BY <1>2, <1>3, <2>1
<1>5. CASE SessionPassStep
  <2>1. pass'.stage \notin {"gate", "flip"}
    <3>1. PICK S \in (SUBSET Provers) \cup {Unread} :
            /\ pass.stage \in {"fence", "reconcile"} /\ pass.filters # {}
            /\ pass' = Walked(S) \/ pass' = [Walked(S) EXCEPT !.fenced = @ \cup {NextFilter}]
      BY <1>5 DEF SessionPassStep, FenceSkip, FenceSession, ReconcileFirst,
                  ReconcileMembership, ReconcileSkip
    <3>2. Walked(S).stage = pass.stage
      BY <1>0, <3>1, WalkedFields
    <3>3. pass'.stage = Walked(S).stage
      <4>1. CASE pass' = Walked(S)
        BY <4>1
      <4>2. CASE pass' = [Walked(S) EXCEPT !.fenced = @ \cup {NextFilter}]
        BY <4>2 DEF Walked
      <4> QED
        BY <3>1, <4>1, <4>2
    <3> QED
      BY <3>1, <3>2, <3>3
  <2> QED
    BY <1>2, <2>1
<1>6. ASSUME NEW q \in pass.changes, GateApply(q) PROVE FlipInv'
  <2>1. /\ pass.stage = "gate" /\ Applies(q)
        /\ pass' = [pass EXCEPT !.changes = @ \ {q}, !.ready = @ \cup {q}]
        /\ UNCHANGED <<head, topology, grid>>
    BY <1>6 DEF GateApply, records, shards
  <2>2. pass'.stage = "gate" /\ pass'.live = pass.live /\ pass'.ready = pass.ready \cup {q}
    BY <1>0, <2>1 DEF Pass
  <2>3. ASSUME NEW p PROVE LetThrough(p)' <=> LetThrough(p)
    BY <2>1, <2>2 DEF LetThrough, Scheduled, StaleSplit, Sources
  <2>4. LetThrough(q)
    <3>1. CASE Scheduled(q)
      <4>1. q.change.old \subseteq grid /\ pass.live = grid
        BY <2>1, <3>1 DEF PassInv
      <4>2. q.change.kind = "split" => q.change.old = {q.change.parent}
        BY <1>0, TopologyAssumption
      <4> QED
        BY <3>1, <4>1, <4>2 DEF LetThrough, StaleSplit
    <3>2. CASE ~Scheduled(q)
      BY <2>1, <3>2 DEF LetThrough, Applies
    <3> QED
      BY <3>1, <3>2
  <2> QED
    BY <2>1, <2>2, <2>3, <2>4 DEF FlipInv
<1>7. ASSUME NEW q \in pass.changes, GateDrop(q) \/ GateWait(q) PROVE FlipInv'
  <2>1. /\ pass.stage = "gate" /\ pass' = [pass EXCEPT !.changes = @ \ {q}]
        /\ UNCHANGED <<head, topology, grid>>
    BY <1>7 DEF GateDrop, GateWait, records, shards
  <2>2. pass'.stage = "gate" /\ pass'.live = pass.live /\ pass'.ready = pass.ready
    BY <1>0, <2>1 DEF Pass
  <2> QED
    BY <2>1, <2>2 DEF FlipInv, LetThrough, Scheduled, StaleSplit, Sources
<1>8. ASSUME NEW q \in pass.changes, NEW m \in Committees(q.change), GateSchedule(q, m)
      PROVE  FlipInv'
  <2>1. pass.stage = "gate" /\ pass' = [pass EXCEPT !.changes = @ \ {q}]
    BY <1>8 DEF GateSchedule
  <2>2. pass'.stage = "gate" /\ pass'.live = pass.live /\ pass'.ready = pass.ready
    BY <1>0, <2>1 DEF Pass
  <2>3. PICK r \in Request : topology' = topology \cup {<<q, r>>} /\ UNCHANGED <<head, grid>>
    BY <1>8, ScheduledChange
  <2>4. \A p \in pass.ready : Scheduled(p)' <=> Scheduled(p)
    BY <2>1, <2>3 DEF Scheduled, PassInv
  <2> QED
    BY <2>1, <2>2, <2>3, <2>4 DEF FlipInv, LetThrough, StaleSplit, Sources
<1>9. CASE EndGate
  <2>1. /\ pass.stage = "gate"
        /\ pass' = [pass EXCEPT !.stage = "flip", !.changes = pass.ready, !.ready = {}]
        /\ UNCHANGED <<head, topology, grid>>
    BY <1>9 DEF EndGate, records, shards
  <2>2. pass'.stage = "flip" /\ pass'.live = pass.live /\ pass'.changes = pass.ready
    BY <1>0, <2>1 DEF Pass
  <2> QED
    BY <2>1, <2>2 DEF FlipInv, LetThrough, Scheduled, StaleSplit, Sources
<1>10. ASSUME NEW q \in pass.changes, Flip(q) PROVE FlipInv'
  <2> DEFINE d == q.change
  <2>1. /\ pass.stage = "flip" /\ UNCHANGED <<head, topology>>
        /\ \E l : pass' = [pass EXCEPT !.changes = @ \ {q}, !.live = l]
    BY <1>10 DEF Flip, records
  <2>2. pass'.stage = "flip" /\ pass'.changes = pass.changes \ {q}
    BY <1>0, <2>1 DEF Pass
  <2>3. LetThrough(q) /\ q \in pending
    BY <2>1 DEF FlipInv, PassInv
  <2>4. pass'.live \subseteq pass.live \cup (IF d.kind = "split" THEN d.new ELSE {})
    BY <1>0, <1>10 DEF Flip, Flipped, Pass
  <2>5. ASSUME NEW p \in pass.changes \ {q} PROVE LetThrough(p)'
    <3>1. LetThrough(p) /\ p \in pending
      BY <2>1 DEF FlipInv, PassInv
    <3>2. (Scheduled(p)' <=> Scheduled(p)) /\ Sources(p)' = Sources(p)
      BY <2>1 DEF Scheduled, Sources
    <3>3. CASE Scheduled(p)
      <4>1. p.change.old \subseteq grid /\ ~StaleSplit(p)
        BY <3>1, <3>3 DEF LetThrough
      <4>2. p.change.old \subseteq grid' /\ ~StaleSplit(p)'
        BY <1>10, <2>3, <3>1, <3>3, <4>1, FlipKeeps
      <4> QED
        BY <3>2, <3>3, <4>2 DEF LetThrough
    <3>4. CASE ~Scheduled(p) /\ Sources(p) = {}
      BY <3>2, <3>4 DEF LetThrough
    <3>5. CASE ~Scheduled(p) /\ StaleSplit(p)
      <4> DEFINE c == p.change
      <4>1. c \in Changes /\ d \in Changes
        BY <1>0
      <4>2. c.kind = "split" /\ c.old = {c.parent} /\ c.parent \notin pass.live
        BY <3>5, <4>1, TopologyAssumption DEF StaleSplit
      <4>3. c.parent \in Filters
        BY <4>1, TopologyAssumption
      <4> HIDE DEF c, d
      <4>4. ASSUME d.kind = "split" PROVE c.parent \notin d.new
        <5> SUFFICES ASSUME c.parent \in d.new PROVE FALSE
          OBVIOUS
        <5>1. c.parent \in c.old
          BY <4>2
        <5>2. c.old = d.new
          BY <4>1, <5>1, Undoes
        <5> QED
          BY <4>1, <4>2, <4>3, <4>4, <5>2 DEF Families
      <4>5. c.parent \notin pass'.live
        BY <2>4, <4>2, <4>4
      <4>6. StaleSplit(p)'
        BY <4>2, <4>5 DEF StaleSplit, c
      <4> QED
        BY <3>2, <3>5, <4>6 DEF LetThrough
    <3> QED
      BY <3>1, <3>3, <3>4, <3>5 DEF LetThrough
  <2> QED
    BY <2>2, <2>5 DEF FlipInv
<1> QED
  BY <1>1, <1>4, <1>5, <1>6, <1>7, <1>8, <1>9, <1>10 DEF Next, PassStep, SessionPassStep

\* A change is scheduled over registered shards, or over shards whose change
\* is about to register them: its sources are live.
LEMMA ScheduledOver ==
  ASSUME ShardTree, Families, IInv, SideInv, PassInv, StuckInv,
         NEW p \in pass.changes, pass.stage = "gate", Gateable(p)
  PROVE  p.change.old \subseteq grid \/ Opening(p)
<1> DEFINE d == p.change
<1>0. d \in Changes /\ d.old \subseteq Filters /\ RecordsTypeOK
  BY ChangeTypes, TopologyAssumption
<1> SUFFICES ASSUME ~(d.old \subseteq grid) PROVE Opening(p)
  OBVIOUS
<1>1. d.old \cap grid = {}
  BY <1>0 DEF SideInv
<1>2. PICK f \in d.old : head[f] # 0
  BY DEF Gateable, Sources
<1> DEFINE s == HeadSession(f)
<1>3. s \in SessionIds /\ s[1] = f /\ status[s] = "active"
  <2>1. head[f] \in Generations
    BY <1>0, <1>2, ConstantsAssumption DEF RecordsTypeOK, Generations
  <2>2. status[s] = "active"
    BY <1>2 DEF Gateable, Sources
  <2> QED
    BY <1>0, <2>1, <2>2 DEF SessionIds, HeadSession
<1> HIDE DEF s
<1>4. Live(s)
  BY <1>3 DEF Live
<1>5. CASE Placed(f)
  <2>1. PICK po \in topology : po[1] \in pending /\ po[2] \in activated /\ f \in po[1].change.new
    BY <1>1, <1>2, <1>5 DEF Placed
  <2>2. po[1].change \in Changes
    BY ChangeTypes
  <2>3. d.old = po[1].change.new /\ d.new = po[1].change.old
    BY <1>0, <1>2, <2>1, <2>2, Undoes
  <2> QED
    BY <2>1, <2>3 DEF Opening
<1>6. CASE ~Placed(f)
  <2>1. Stuck(f)
    BY <1>3, <1>4, <1>6 DEF StuckInv
  <2>2. PICK c \in Changes : /\ f \in c.old
                             /\ \E g \in c.old : head[g] # 0 /\ status[HeadSession(g)] = "closed"
    BY <2>1 DEF Stuck
  <2>3. c.old = d.old
    BY <1>0, <1>2, <2>2, SameOld
  <2>4. \A g \in d.old : head[g] # 0 => status[HeadSession(g)] = "active"
    BY DEF Gateable, Sources
  <2> QED
    BY <2>2, <2>3, <2>4
<1> QED
  BY <1>5, <1>6

\* A scheduled change keeps its old shards in the grid until its flip.
LEMMA WaitStep ==
  ASSUME ShardTree, Families, IInv, SideInv, PlanInv, PassInv, LastInv, VacantOnce, TimeInv,
         FlipInv, StuckInv, WaitInv, [Next]_vars
  PROVE  WaitInv'
<1> DEFINE gating == pass.stage \in {"gate", "flip"}
<1>0. /\ pass \in Pass
      /\ \A p \in pass.changes : p.change \in Changes
  BY ChangeTypes
\* Steps that keep the grid, and the requests and changes that wait.
<1>1. ASSUME UNCHANGED grid, activated \subseteq activated', topology \subseteq topology',
             \A pr \in topology : pr[1] \in pending => pr[1] \in pending',
             NEW p \in pending, Scheduled(p), ~EndFlip
      PROVE  \/ p.change.old \subseteq grid'
             \/ pass'.stage \in {"gate", "flip"} /\ Opening(p)'
  <2>1. CASE p.change.old \subseteq grid
    BY <1>1, <2>1
  <2>2. CASE gating /\ Opening(p)
    <3>1. pass'.stage \in {"gate", "flip"}
      BY <1>1, <2>2, GateLeft
    <3>2. Opening(p)'
      BY <1>1, <2>2 DEF Opening
    <3> QED
      BY <3>1, <3>2
  <2> QED
    BY <1>1, <2>1, <2>2 DEF WaitInv
<1>2. CASE EndFlip
  <2>1. /\ pass.stage = "flip" /\ pass.changes = {}
        /\ UNCHANGED <<topology, activated, pending, grid>>
    BY <1>2 DEF EndFlip, records, shards
  <2>2. \A p \in pending : ~Opening(p)
    BY <2>1 DEF Opening, TimeInv, Timely
  <2> QED
    BY <2>1, <2>2 DEF WaitInv, Scheduled
<1>3. CASE UNCHANGED changeRecords /\ ~EndFlip
  <2>1. UNCHANGED <<topology, activated, pending, grid>>
    BY <1>3 DEF changeRecords
  <2> QED
    BY <1>1, <1>3, <2>1 DEF WaitInv, Scheduled
<1>4. ASSUME NEW r \in Request, EndsSourceOf(r) PROVE WaitInv'
  <2>1. ~gating /\ UNCHANGED <<topology, grid, pending>>
    BY <1>4 DEF EndsSourceOf
  <2> QED
    BY <2>1 DEF WaitInv, Scheduled
<1>5. ASSUME NEW c \in Changes, ProposeChange(c) PROVE WaitInv'
  <2>1. ~gating /\ UNCHANGED <<topology, grid>>
    BY <1>5 DEF ProposeChange, Messages, records
  <2>2. \A p \in pending' : p.effective <= Epoch(frame) => p \in pending
    BY <1>5, ProposedPending
  <2>3. \A p \in pending' : Scheduled(p) => p \in pending
    BY <2>2 DEF Scheduled, PlanInv
  <2> QED
    BY <2>1, <2>3 DEF WaitInv, Scheduled
<1>6. ASSUME NEW q \in pass.changes, GateDrop(q) PROVE WaitInv'
  <2>1. /\ pass.stage = "gate" /\ pending' = pending \ {q}
        /\ UNCHANGED <<topology, activated, grid>>
    BY <1>6 DEF GateDrop
  <2>2. ~Scheduled(q) /\ ~EndFlip
    BY <1>6, <2>1, DroppedUnscheduled DEF EndFlip
  <2>3. \A pr \in topology : pr[1] \in pending => pr[1] \in pending'
    BY <2>1, <2>2 DEF Scheduled
  <2> QED
    BY <1>1, <2>1, <2>2, <2>3 DEF WaitInv, Scheduled
<1>7. ASSUME NEW q \in pass.changes, NEW m \in Committees(q.change), GateSchedule(q, m)
      PROVE  WaitInv'
  <2>1. PICK r \in Request : topology' = topology \cup {<<q, r>>}
                             /\ UNCHANGED <<activated, grid, pending>>
    BY <1>7, ScheduledChange
  <2>2. pass.stage = "gate" /\ Gateable(q) /\ ~EndFlip
    BY <1>7 DEF GateSchedule, EndFlip
  <2>3. ASSUME NEW p \in pending, Scheduled(p)'
        PROVE  \/ p.change.old \subseteq grid'
               \/ pass'.stage \in {"gate", "flip"} /\ Opening(p)'
    <3>1. CASE Scheduled(p)
      BY <1>1, <2>1, <2>2, <2>3, <3>1
    <3>2. CASE p = q
      <4>1. p.change.old \subseteq grid \/ Opening(p)
        BY <2>2, <3>2, ScheduledOver
      <4>2. pass'.stage \in {"gate", "flip"}
        BY <2>2, GateLeft
      <4>3. Opening(p) => Opening(p)'
        BY <2>1 DEF Opening
      <4> QED
        BY <2>1, <4>1, <4>2, <4>3
    <3> QED
      BY <2>1, <2>3, <3>1, <3>2 DEF Scheduled
  <2> QED
    BY <2>1, <2>3 DEF WaitInv
<1>8. ASSUME NEW q \in pass.changes, Flip(q) PROVE WaitInv'
  <2>1. /\ pass.stage = "flip" /\ pending' = pending \ {q} /\ UNCHANGED <<topology, activated>>
        /\ pass'.stage \in {"gate", "flip"}
    BY <1>0, <1>8 DEF Flip, records, Pass
  <2>2. LetThrough(q) /\ q \in pending
    BY <2>1 DEF FlipInv, PassInv
  <2>3. ASSUME NEW p \in pending', Scheduled(p)
        PROVE  p.change.old \subseteq grid' \/ Opening(p)'
    <3>1. p \in pending /\ p # q
      BY <2>1
    <3>2. CASE p.change.old \subseteq grid
      BY <1>8, <2>2, <2>3, <3>1, <3>2, FlipKeeps
    <3>3. CASE Opening(p)
      <4>1. PICK po \in topology : /\ po[1] \in pending /\ po[2] \in activated
                                   /\ po[1].change.new = p.change.old
                                   /\ po[1].change.old = p.change.new
        BY <3>3 DEF Opening
      <4>2. CASE po[1] # q
        BY <2>1, <4>1, <4>2 DEF Opening
      <4>3. CASE po[1] = q
        <5>1. ~StaleSplit(q)
          BY <2>2, <4>3 DEF LetThrough, Scheduled
        <5>2. q.change.new \subseteq grid'
          BY <1>0, <1>8, <5>1, FlippedGrid
        <5> QED
          BY <4>1, <4>3, <5>2
      <4> QED
        BY <4>2, <4>3
    <3> QED
      BY <2>3, <3>1, <3>2, <3>3 DEF WaitInv
  <2> QED
    BY <2>1, <2>3 DEF WaitInv, Scheduled
<1>9. ASSUME NEW f \in pass.filters, NEW S \in SUBSET Provers,
             ReconcileFirst(f, S) \/ ReconcileMembership(f, S)
      PROVE  WaitInv'
  <2>1. ~gating /\ UNCHANGED <<topology, grid, pending>>
    BY <1>9 DEF ReconcileFirst, ReconcileMembership, shards
  <2> QED
    BY <2>1 DEF WaitInv, Scheduled
<1>10. CASE NextFrame
  <2>1. ~gating /\ UNCHANGED <<topology, grid, pending>>
    BY <1>10 DEF NextFrame, records, shards
  <2> QED
    BY <2>1 DEF WaitInv, Scheduled
<1> QED
  BY <1>2, <1>3, <1>4, <1>5, <1>6, <1>7, <1>8, <1>9, <1>10, ChangeKinds

-----------------------------------------------------------------------------
(* Requests of one family. *)

\* A request that was made keeps naming all the new shards of its change.
LEMMA TargetStep ==
  ASSUME IInv, TargetInv, [Next]_vars
  PROVE  TargetInv'
<1>1. CASE UNCHANGED topology
  BY <1>1 DEF TargetInv
<1>2. ASSUME NEW p \in pass.changes, NEW m \in Committees(p.change), GateSchedule(p, m)
      PROVE  TargetInv'
  <2>1. PICK r \in Request : /\ topology' = topology \cup {<<p, r>>}
                             /\ \A f \in p.change.new : \E t \in r.targets : t.filter = f
    BY <1>2, ScheduledChange
  <2> QED
    BY <2>1 DEF TargetInv
<1>3. UNCHANGED topology \/ \E p \in pass.changes : \E m \in Committees(p.change) : GateSchedule(p, m)
  BY ChangeKinds DEF changeRecords, EndsSourceOf, ProposeChange, GateDrop, Flip, NextFrame,
                     ReconcileFirst, ReconcileMembership, records
<1> QED
  BY <1>1, <1>2, <1>3

\* The changes that wait for a request were waiting, or one was scheduled.
LEMMA WaitingSteps ==
  ASSUME IInv, PlanInv, [Next]_vars
  PROVE  \/ UNCHANGED topology /\ \A pr \in topology : pr[1] \in pending' => pr[1] \in pending
         \/ \E p \in pass.changes : \E m \in Committees(p.change) : GateSchedule(p, m)
<1>1. CASE \/ UNCHANGED changeRecords
           \/ \E r \in Request : EndsSourceOf(r)
           \/ \E p \in pass.changes : GateDrop(p) \/ Flip(p)
           \/ \E f \in pass.filters : \E S \in SUBSET Provers :
                ReconcileFirst(f, S) \/ ReconcileMembership(f, S)
           \/ NextFrame
  BY <1>1 DEF changeRecords, EndsSourceOf, GateDrop, Flip, NextFrame, ReconcileFirst,
              ReconcileMembership, records, shards
<1>2. ASSUME NEW c \in Changes, ProposeChange(c)
      PROVE  UNCHANGED topology /\ \A pr \in topology : pr[1] \in pending' => pr[1] \in pending
  <2>1. UNCHANGED topology
    BY <1>2 DEF ProposeChange, records
  <2>2. \A p \in pending' : p.effective <= Epoch(frame) => p \in pending
    BY <1>2, ProposedPending
  <2> QED
    BY <2>1, <2>2 DEF PlanInv
<1> QED
  BY <1>1, <1>2, ChangeKinds

\* A shard that a pending change declared vacant is closed by no other change:
\* a change of the same shards would close the sources of the first again.
LEMMA VacantOnceStep ==
  ASSUME ShardTree, Families, IInv, PlanInv, LastInv, VacantOnce, [Next]_vars
  PROVE  VacantOnce'
<1>0. /\ RequestInv
      /\ \A pr \in topology : pr[1].change \in Changes /\ pr[2] \in Request
      /\ \A p \in pass.changes : p.change \in Changes
  BY ChangeTypes
<1>1. CASE UNCHANGED topology /\ \A pr \in topology : pr[1] \in pending' => pr[1] \in pending
  BY <1>1 DEF VacantOnce
\* A source of a waiting change has a session.
<1>2. ASSUME NEW pr \in topology, pr[1] \in pending, NEW s \in pr[2].sources
      PROVE  /\ head[s[1]] # 0 /\ s = HeadSession(s[1]) /\ status[s] # "active"
             /\ s[1] \in pr[1].change.old
  <2>1. s \in SessionIds /\ s = <<s[1], s[2]>> /\ s[2] \in Generations
    BY <1>0 DEF Request, SessionIds
  <2>2. head[s[1]] = s[2]
    BY <1>2 DEF LastInv
  <2>3. pr[2] \in requests /\ s[1] \in pr[1].change.old
    BY DEF PlanInv, RequestOfChange
  <2>4. status[s] # "active"
    BY <1>0, <2>3 DEF RequestInv
  <2> QED
    BY <2>1, <2>2, <2>3, <2>4, ConstantsAssumption DEF HeadSession, Generations
<1>3. ASSUME NEW p \in pass.changes, NEW m \in Committees(p.change), GateSchedule(p, m)
      PROVE  VacantOnce'
  <2>1. PICK r \in Request :
           /\ topology' = topology \cup {<<p, r>>}
           /\ \A s \in r.sources : status[s] = "active" /\ s = HeadSession(s[1])
           /\ r.vacant \subseteq p.change.old
           /\ \A s \in r.sources : s[1] \in p.change.old
           /\ \A f \in p.change.old : f \in r.vacant \/ \E s \in r.sources : s[1] = f
           /\ \A f \in r.vacant : head[f] = 0
           /\ UNCHANGED <<head, pending>>
    BY <1>3, ScheduledChange
  <2>2. ASSUME NEW po \in topology, po[1] \in pending, NEW s \in po[2].sources
        PROVE  s[1] \notin r.vacant
    BY <1>2, <2>1, <2>2
  <2>3. ASSUME NEW pr \in topology, pr[1] \in pending, NEW s \in r.sources,
               s[1] \in pr[2].vacant
        PROVE  FALSE
    <3>1. s[1] \in pr[1].change.old /\ s[1] \in p.change.old
      BY <2>1, <2>3 DEF PlanInv, RequestOfChange
    <3>2. pr[1].change.old = p.change.old
      BY <1>0, <3>1, SameOld
    <3>3. PICK a \in pr[2].sources : TRUE
      BY <1>0 DEF RequestInv, PlanInv, RequestOfChange
    <3>4. /\ head[a[1]] # 0 /\ a = HeadSession(a[1]) /\ status[a] # "active"
          /\ a[1] \in p.change.old
      BY <1>2, <2>3, <3>2, <3>3
    <3>5. PICK b \in r.sources : b[1] = a[1]
      BY <2>1, <3>4
    <3>6. b = a
      BY <2>1, <3>4, <3>5
    <3> QED
      BY <2>1, <3>4, <3>6
  <2> SUFFICES ASSUME NEW pr \in topology', NEW po \in topology', pr[1] \in pending,
                      po[1] \in pending, pr # po, NEW s \in po[2].sources
               PROVE  s[1] \notin pr[2].vacant
    BY <2>1 DEF VacantOnce
  <2>4. CASE pr \in topology /\ po \in topology
    BY <2>4 DEF VacantOnce
  <2>5. CASE pr = <<p, r>> /\ po \in topology
    BY <2>2, <2>5
  <2>6. CASE pr \in topology /\ po = <<p, r>>
    BY <2>3, <2>6
  <2> QED
    BY <2>1, <2>4, <2>5, <2>6
<1> QED
  BY <1>1, <1>3, WaitingSteps

-----------------------------------------------------------------------------
(* Sessions that lost their place. *)

\* The end of a source leaves a stuck shard stuck: the closed sibling is the
\* target of no request, since the request would name the live shard too.
LEMMA StuckKept ==
  ASSUME ShardTree, Families, IInv, IInv', PlanInv, TargetInv,
         NEW r \in Request, EndsSourceOf(r),
         NEW s \in SessionIds, Live(s), Stuck(s[1])
  PROVE  Stuck(s[1])'
<1>0. /\ RequestInv /\ RecordsTypeOK
      /\ \A pr \in topology : pr[1].change \in Changes
      /\ r \in requests /\ r \notin activated
  BY ChangeTypes DEF EndsSourceOf
<1>1. PICK c \in Changes : /\ s[1] \in c.old
                           /\ \E g \in c.old : head[g] # 0 /\ status[HeadSession(g)] = "closed"
  BY DEF Stuck
<1>2. PICK g \in c.old : head[g] # 0 /\ status[HeadSession(g)] = "closed"
  BY <1>1
<1>3. g \in Filters /\ s[1] \in Filters /\ head[g] \in Generations /\ HeadSession(g) \in SessionIds
  <2>1. g \in Filters /\ s[1] \in Filters
    BY <1>1, TopologyAssumption
  <2>2. head[g] \in Generations
    BY <1>0, <1>2, <2>1, ConstantsAssumption DEF RecordsTypeOK, Generations
  <2> QED
    BY <2>1, <2>2 DEF HeadSession, SessionIds
<1>4. s = HeadSession(s[1]) /\ head[s[1]] = s[2] /\ head[s[1]] # 0
  BY LiveIsLast
<1>5. \A t \in r.targets : /\ head[t.filter] = t.generation - 1
                           /\ t.generation > 1 =>
                                \/ <<t.filter, t.generation - 1>> \in r.sources
                                \/ status[<<t.filter, t.generation - 1>>] = "closed"
  <2>1. TargetsUnchanged(r)
    BY <1>0 DEF IInv, RecordInv, ActivationNeverRefused
  <2> QED
    BY <2>1 DEF TargetsUnchanged
<1>6. \A t \in r.targets : t.generation \in Nat /\ t.generation >= 1
  BY ConstantsAssumption DEF Request, Target, Generations
<1>7. head'[g] = head[g]
  <2> SUFFICES ASSUME head'[g] # head[g] PROVE FALSE
    OBVIOUS
  <2>1. PICK t \in r.targets : t.filter = g
    BY <1>3 DEF EndsSourceOf
  <2>2. CASE RenewsOneShard(r)
    <3>1. PICK q \in SessionIds : r.sources = {q} /\ q[1] = g
      BY <2>1, <2>2 DEF RenewsOneShard
    <3>2. status[q] = "sealing"
      BY <1>0, <3>1 DEF RequestInv
    <3>3. q = HeadSession(g)
      BY <3>1, <3>2, LiveIsLast DEF Live
    <3> QED
      BY <1>2, <3>2, <3>3
  <2>3. CASE \E pr \in topology : pr[2] = r
    <3>1. PICK pr \in topology : pr[2] = r
      BY <2>3
    <3> DEFINE d == pr[1].change
    <3>2. d \in Changes /\ g \in d.new
      BY <1>0, <2>1, <3>1 DEF PlanInv, RequestOfChange
    <3>3. c.old = d.new
      BY <1>2, <3>2, Undoes
    <3>4. PICK u \in r.targets : u.filter = s[1]
      BY <1>1, <3>1, <3>3 DEF TargetInv
    <3>5. u.generation - 1 = s[2] /\ u.generation > 1 /\ <<u.filter, u.generation - 1>> = s
      <4> DEFINE n == u.generation
                 k == s[2]
      <4>1. n \in Nat /\ n >= 1
        BY <1>6
      <4>2. head[s[1]] = n - 1
        BY <1>5, <3>4
      <4>3. k = n - 1 /\ k # 0
        BY <1>4, <4>2
      <4>4. s = <<s[1], k>>
        BY <1>4 DEF HeadSession
      <4> HIDE DEF n, k
      <4>5. n > 1
        BY <4>1, <4>3
      <4>6. <<u.filter, n - 1>> = s
        BY <3>4, <4>3, <4>4
      <4> QED
        BY <4>3, <4>5, <4>6 DEF n, k
    <3>6. s \in r.sources
      BY <1>5, <3>4, <3>5 DEF Live
    <3>7. s[1] \in d.old
      BY <3>1, <3>6 DEF PlanInv, RequestOfChange
    <3> QED
      BY <1>1, <3>2, <3>3, <3>7 DEF ShardTree
  <2> QED
    BY <1>0, <2>2, <2>3 DEF PlanInv
<1> DEFINE h == HeadSession(g)
<1>8. h = <<g, head[g]>>
  BY DEF HeadSession
<1> HIDE DEF h
<1>9. status'[h] = "closed"
  <2>1. h \in SessionIds /\ status[h] = "closed"
    BY <1>2, <1>3 DEF h
  <2>2. status'[h] \notin {"active", "sealing"}
    <3> SUFFICES ASSUME status'[h] \in {"active", "sealing"} PROVE FALSE
      OBVIOUS
    <3>1. StaffedTarget(r, h)
      BY <2>1 DEF EndsSourceOf, Live
    <3>2. PICK t \in r.targets : h = <<t.filter, t.generation>>
      BY <3>1 DEF StaffedTarget
    <3> DEFINE n == t.generation
    <3>3. g = t.filter /\ head[g] = n
      BY <1>8, <3>2
    <3>4. n \in Nat
      BY <1>6
    <3>5. n = n - 1
      BY <1>5, <3>3
    <3> HIDE DEF n
    <3> QED
      BY <3>4, <3>5
  <2>3. status'[<<g, head[g]>>] # "absent"
    <3>1. ~(head[g] > head'[g])
      BY <1>3, <1>7, ConstantsAssumption DEF Generations
    <3> QED
      BY <1>3, <3>1 DEF IInv, RecordInv, HeadInv
  <2>4. status'[h] \in Statuses
    BY <2>1 DEF IInv, RecordInv, RecordsTypeOK
  <2> QED
    BY <1>8, <2>2, <2>3, <2>4 DEF Statuses
<1>10. head'[g] # 0 /\ status'[<<g, head'[g]>>] = "closed"
  BY <1>2, <1>7, <1>8, <1>9
<1>11. HeadSession(g)' = <<g, head'[g]>>
  BY DEF HeadSession
<1> QED
  BY <1>1, <1>10, <1>11 DEF Stuck

\* A session that loses its place has a sibling that closed, and keeps it.
LEMMA StuckStep ==
  ASSUME ShardTree, Families, IInv, IInv', PlanInv, PassInv, LastInv, FlipInv, TargetInv,
         StuckInv, [Next]_vars
  PROVE  StuckInv'
<1>0. /\ RecordsTypeOK /\ RequestInv
      /\ \A pr \in topology : pr[1].change \in Changes /\ pr[2] \in Request
      /\ \A p \in pass.changes : p.change \in Changes
  BY ChangeTypes
<1> SUFFICES ASSUME NEW s \in SessionIds, Live(s)', ~Placed(s[1])'
             PROVE  Stuck(s[1])'
  BY DEF StuckInv
\* Steps that take no shard's place away.
<1>1. ASSUME activated \subseteq activated', topology \subseteq topology', UNCHANGED grid,
             \A pr \in topology : pr[1] \in pending => pr[1] \in pending',
             NEW f, Placed(f)
      PROVE  Placed(f)'
  BY <1>1 DEF Placed
\* Steps that make no session and close none.
<1>2. ASSUME UNCHANGED <<head, status>>, Live(s) => ~Placed(s[1]) PROVE Stuck(s[1])'
  <2>1. Stuck(s[1])
    BY <1>2 DEF StuckInv, Live
  <2> QED
    BY <1>2, <2>1 DEF Stuck, HeadSession
\* Steps that ask active sessions to close.
<1>3. ASSUME NEW r \in Request, \A q \in r.sources : status[q] = "active",
             status' = [q \in SessionIds |-> IF q \in r.sources THEN "sealing" ELSE status[q]],
             UNCHANGED head, Placed(s[1]) => Placed(s[1])'
      PROVE  Stuck(s[1])'
  <2>1. Live(s)
    BY <1>3 DEF Live
  <2>2. Stuck(s[1])
    BY <1>3, <2>1 DEF StuckInv
  <2>3. \A q \in SessionIds : status[q] = "closed" => status'[q] = "closed"
    BY <1>3
  <2>4. PICK c \in Changes : /\ s[1] \in c.old
                             /\ \E g \in c.old : head[g] # 0 /\ status[HeadSession(g)] = "closed"
    BY <2>2 DEF Stuck
  <2>5. PICK g \in c.old : head[g] # 0 /\ status[HeadSession(g)] = "closed"
    BY <2>4
  <2>6. HeadSession(g) \in SessionIds
    <3>1. g \in Filters
      BY <2>4, <2>5, TopologyAssumption
    <3>2. head[g] \in Generations
      BY <1>0, <2>5, <3>1, ConstantsAssumption DEF RecordsTypeOK, Generations
    <3> QED
      BY <3>1, <3>2 DEF HeadSession, SessionIds
  <2>7. HeadSession(g)' = HeadSession(g) /\ head'[g] = head[g]
    BY <1>3 DEF HeadSession
  <2> QED
    BY <2>3, <2>4, <2>5, <2>6, <2>7 DEF Stuck
<1>4. CASE UNCHANGED changeRecords
  BY <1>1, <1>2, <1>4 DEF changeRecords
<1>5. ASSUME NEW r \in Request, EndsSourceOf(r) PROVE Stuck(s[1])'
  <2>1. /\ activated \subseteq activated' /\ UNCHANGED <<topology, grid, pending>>
        /\ r \in requests \ activated
    BY <1>5 DEF EndsSourceOf
  <2>2. ~Placed(s[1])
    BY <1>1, <2>1
  <2>3. CASE Live(s)
    <3>1. Stuck(s[1])
      BY <2>2, <2>3 DEF StuckInv
    <3> QED
      BY <1>5, <2>3, <3>1, StuckKept
  <2>4. CASE ~Live(s)
    <3>1. r \in activated' /\ StaffedTarget(r, s)
      BY <1>5, <2>4 DEF EndsSourceOf, Live
    <3>2. PICK t \in r.targets : s = <<t.filter, t.generation>>
      BY <3>1 DEF StaffedTarget
    <3>3. s[1] = t.filter
      BY <3>2
    <3>4. CASE RenewsOneShard(r)
      <4>1. PICK q \in SessionIds : r.sources = {q} /\ q[1] = t.filter
        BY <3>2, <3>4 DEF RenewsOneShard
      <4>2. Live(q)
        BY <1>0, <2>1, <4>1 DEF RequestInv, Live
      <4>3. Stuck(q[1])
        BY <2>2, <3>3, <4>1, <4>2 DEF StuckInv
      <4>4. Stuck(q[1])'
        BY <1>5, <4>2, <4>3, StuckKept
      <4> QED
        BY <3>3, <4>1, <4>4
    <3>5. CASE \E pr \in topology : pr[2] = r
      <4>1. PICK pr \in topology : pr[2] = r
        BY <3>5
      <4>2. pr[1] \in pending /\ t.filter \in pr[1].change.new
        BY <2>1, <4>1 DEF PlanInv, RequestOfChange
      <4>3. Placed(s[1])'
        BY <2>1, <3>1, <3>3, <4>1, <4>2 DEF Placed
      <4> QED
        BY <4>3
    <3> QED
      BY <2>1, <3>4, <3>5 DEF PlanInv
  <2> QED
    BY <2>3, <2>4
<1>6. ASSUME NEW c \in Changes, ProposeChange(c) PROVE Stuck(s[1])'
  <2>1. UNCHANGED <<head, status, activated, topology, grid>>
    BY <1>6 DEF ProposeChange, records
  <2>2. \A p \in pending : p.effective <= Epoch(frame) => p \in pending'
    BY <1>6, ProposedPending
  <2>3. \A pr \in topology : pr[1] \in pending => pr[1] \in pending'
    BY <2>2 DEF PlanInv
  <2>4. ~Placed(s[1])
    BY <1>1, <2>1, <2>3
  <2> QED
    BY <1>2, <2>1, <2>4
<1>7. ASSUME NEW p \in pass.changes, GateDrop(p) PROVE Stuck(s[1])'
  <2>1. pending' = pending \ {p} /\ UNCHANGED <<head, status, activated, topology, grid>>
    BY <1>7 DEF GateDrop
  <2>2. ~Scheduled(p)
    BY <1>7, DroppedUnscheduled
  <2>3. ~Placed(s[1])
    BY <1>1, <2>1, <2>2 DEF Scheduled
  <2> QED
    BY <1>2, <2>1, <2>3
<1>8. ASSUME NEW p \in pass.changes, Flip(p) PROVE Stuck(s[1])'
  <2> DEFINE d == p.change
  <2>1. /\ pass.stage = "flip" /\ pending' = pending \ {p}
        /\ UNCHANGED <<head, status, activated, topology>>
    BY <1>8 DEF Flip, records
  <2>2. grid' = IF StaleSplit(p) THEN grid ELSE (grid \ d.old) \cup d.new
    BY <1>0, <1>8, FlippedGrid
  <2>3. LetThrough(p) /\ p \in pending /\ \A pr \in topology : pr[1] = p => pr[2] \in activated
    BY <2>1 DEF PassInv, FlipInv
  <2>4. CASE ~Placed(s[1])
    BY <1>2, <2>1, <2>4
  <2>5. CASE s[1] \in grid
    <3>1. s[1] \notin grid'
      BY DEF Placed
    <3>2. ~StaleSplit(p) /\ s[1] \in d.old
      BY <2>2, <2>5, <3>1
    <3>3. Live(s)
      BY <2>1 DEF Live
    <3>4. head[s[1]] # 0
      BY <3>3, LiveIsLast
    <3>5. Scheduled(p)
      BY <2>3, <3>2, <3>4 DEF LetThrough, Sources
    <3>6. PICK pr \in topology : pr[1] = p
      BY <3>5 DEF Scheduled
    <3>7. pr[2] \in activated /\ pr[2] \in requests
      BY <2>3, <3>6 DEF PlanInv, RequestOfChange
    <3>8. PICK q \in pr[2].sources : TRUE
      BY <1>0, <3>7 DEF RequestInv
    <3>9. /\ q = <<q[1], q[2]>> /\ q[2] \in Generations /\ status[q] = "closed"
          /\ q[1] \in d.old /\ head[q[1]] = q[2]
      <4>1. q \in SessionIds
        BY <1>0, <3>8 DEF Request
      <4>2. q = <<q[1], q[2]>> /\ q[2] \in Generations
        BY <4>1 DEF SessionIds
      <4>3. status[q] = "closed"
        BY <1>0, <3>7, <3>8 DEF RequestInv
      <4>4. q[1] \in d.old
        BY <3>6, <3>8 DEF PlanInv, RequestOfChange
      <4>5. head[q[1]] = q[2]
        BY <2>3, <3>6, <3>8 DEF LastInv
      <4> QED
        BY <4>2, <4>3, <4>4, <4>5
    <3>10. head[q[1]] # 0 /\ status[HeadSession(q[1])] = "closed"
      BY <3>9, ConstantsAssumption DEF HeadSession, Generations
    <3>11. Stuck(s[1])
      BY <1>0, <3>2, <3>9, <3>10 DEF Stuck
    <3> QED
      BY <2>1, <3>11 DEF Stuck, HeadSession
  <2>6. CASE Placed(s[1]) /\ s[1] \notin grid
    <3>1. PICK pr \in topology : pr[1] \in pending /\ pr[2] \in activated /\ s[1] \in pr[1].change.new
      BY <2>6 DEF Placed
    <3>2. pr[1] = p
      BY <2>1, <3>1 DEF Placed
    <3>3. ~StaleSplit(p)
      BY <2>3, <3>2 DEF LetThrough, Scheduled
    <3>4. s[1] \in grid'
      BY <2>2, <3>1, <3>2, <3>3
    <3> QED
      BY <3>4 DEF Placed
  <2> QED
    BY <2>4, <2>5, <2>6
<1>9. ASSUME NEW p \in pass.changes, NEW m \in Committees(p.change), GateSchedule(p, m)
      PROVE  Stuck(s[1])'
  <2>1. PICK r \in Request :
           /\ topology' = topology \cup {<<p, r>>}
           /\ \A q \in r.sources : status[q] = "active"
           /\ status' = [q \in SessionIds |-> IF q \in r.sources THEN "sealing" ELSE status[q]]
           /\ UNCHANGED <<head, activated, grid, pending>>
    BY <1>9, ScheduledChange
  <2>2. Placed(s[1]) => Placed(s[1])'
    BY <1>1, <2>1
  <2> QED
    BY <1>3, <2>1, <2>2
<1>10. ASSUME NEW f \in pass.filters, NEW S \in SUBSET Provers, ReconcileMembership(f, S)
       PROVE  Stuck(s[1])'
  <2> DEFINE r == NewRequest({f}, {}, [g \in {f} |-> S])
  <2>1. r \in Request /\ MakesRequest(r)
    BY <1>10, RenewalShape
  <2>2. UNCHANGED <<activated, topology, grid, pending>>
    BY <1>10 DEF ReconcileMembership, shards
  <2> HIDE DEF r
  <2>3. /\ \A q \in r.sources : status[q] = "active"
        /\ status' = [q \in SessionIds |-> IF q \in r.sources THEN "sealing" ELSE status[q]]
        /\ UNCHANGED head
    BY <2>1 DEF MakesRequest, Schedule
  <2>4. Placed(s[1]) => Placed(s[1])'
    BY <1>1, <2>2
  <2> QED
    BY <1>3, <2>1, <2>3, <2>4
<1>11. ASSUME NEW f \in pass.filters, NEW S \in SUBSET Provers, ReconcileFirst(f, S)
       PROVE  Stuck(s[1])'
  <2>1. /\ head[f] = 0 /\ head' = [head EXCEPT ![f] = 1]
        /\ status' = [status EXCEPT ![<<f, 1>>] = "active"]
        /\ UNCHANGED <<activated, topology, grid, pending>>
        /\ f \in grid
    BY <1>11 DEF ReconcileFirst, InitializesFirst, Initialize, PassInv, shards
  <2>2. ~Placed(s[1]) /\ s[1] # f
    BY <1>1, <2>1 DEF Placed
  <2>3. Live(s)
    <3>1. s # <<f, 1>>
      BY <2>2
    <3> QED
      BY <1>0, <2>1, <3>1 DEF Live, RecordsTypeOK
  <2>4. Stuck(s[1])
    BY <2>2, <2>3 DEF StuckInv
  <2>5. PICK c \in Changes : /\ s[1] \in c.old
                             /\ \E g \in c.old : head[g] # 0 /\ status[HeadSession(g)] = "closed"
    BY <2>4 DEF Stuck
  <2>6. PICK g \in c.old : head[g] # 0 /\ status[HeadSession(g)] = "closed"
    BY <2>5
  <2>7. g # f /\ g \in Filters
    BY <2>1, <2>5, <2>6, TopologyAssumption
  <2>8. head'[g] = head[g]
    BY <1>0, <2>1, <2>7 DEF RecordsTypeOK
  <2>9. status'[<<g, head[g]>>] = status[<<g, head[g]>>]
    <3>1. <<g, head[g]>> # <<f, 1>>
      BY <2>7
    <3>2. <<g, head[g]>> \in SessionIds
      <4>1. head[g] \in Generations
        BY <1>0, <2>6, <2>7, ConstantsAssumption DEF RecordsTypeOK, Generations
      <4> QED
        BY <2>7, <4>1 DEF SessionIds
    <3> QED
      BY <1>0, <2>1, <3>1, <3>2 DEF RecordsTypeOK
  <2>10. head'[g] # 0 /\ status'[HeadSession(g)'] = "closed"
    BY <2>6, <2>8, <2>9 DEF HeadSession
  <2> QED
    BY <2>5, <2>10 DEF Stuck
<1>12. CASE NextFrame
  BY <1>1, <1>2, <1>12 DEF NextFrame, records, shards
<1> QED
  BY <1>4, <1>5, <1>6, <1>7, <1>8, <1>9, <1>10, <1>11, <1>12, ChangeKinds

-----------------------------------------------------------------------------
(* The theorems. *)

\* A grid without sessions has one side of every family.
LEMMA FamilyInit ==
  ASSUME ShardTree, Families, Init
  PROVE  FamilyInv
<1>1. PlanInv /\ PassInv /\ LastInv /\ KeptPlaceInv /\ TimeInv
  BY TopologyInit
<1>2. topology = {} /\ pending = {} /\ grid = GenesisGrid /\ pass.stage = "open"
  BY DEF Init, IdlePass
<1>3. \A s \in SessionIds : ~Live(s)
  BY DEF Init, Live
<1>4. GridPrefixFree /\ SideInv
  BY <1>2 DEF ShardTree, Families, GridPrefixFree, DisjointCover, SideInv
<1>5. WaitInv /\ FlipInv /\ TargetInv /\ StuckInv /\ VacantOnce
  BY <1>2, <1>3 DEF WaitInv, FlipInv, TargetInv, StuckInv, VacantOnce
<1> QED
  BY <1>1, <1>4, <1>5 DEF FamilyInv

\* Every step keeps the invariant.
LEMMA FamilyStep ==
  ASSUME ShardTree, Families, IInv, IInv', SourceInv, FamilyInv, [Next]_vars
  PROVE  FamilyInv'
<1>0. /\ GridPrefixFree /\ SideInv /\ PlanInv /\ PassInv /\ LastInv /\ KeptPlaceInv /\ TimeInv
      /\ WaitInv /\ FlipInv /\ TargetInv /\ StuckInv /\ VacantOnce
  BY DEF FamilyInv
<1>1. AppliedCurrent
  BY <1>0, LetThroughCurrent
<1>2. WaitingCurrent
  BY <1>0 DEF WaitInv, WaitingCurrent
<1>3. GridPrefixFree' /\ SideInv'
  BY <1>0, <1>1, GridStep, SideStep
<1>4. PlanInv' /\ PassInv'
  BY <1>0, <1>2, PlanStep, PassInvStep
<1>5. LastInv' /\ KeptPlaceInv'
  BY <1>0, <1>1, <1>2, LastStep, KeptPlacedStep
<1>6. TimeInv'
  BY <1>0, <1>2, TimeStep
<1>7. WaitInv' /\ FlipInv'
  BY <1>0, WaitStep, FlipStep
<1>8. TargetInv' /\ StuckInv' /\ VacantOnce'
  BY <1>0, TargetStep, StuckStep, VacantOnceStep
<1> QED
  BY <1>3, <1>4, <1>5, <1>6, <1>7, <1>8 DEF FamilyInv

\* The invariant holds throughout.
LEMMA FamilyInvariance ==
  ASSUME ShardTree, Families
  PROVE  Spec => [](IInv /\ SourceInv /\ FamilyInv)
<1>1. Init => FamilyInv
  BY FamilyInit
<1>2. IInv /\ IInv' /\ SourceInv /\ FamilyInv /\ [Next]_vars => FamilyInv'
  BY FamilyStep
<1> QED
  BY <1>1, <1>2, SourceInvariance, PTL DEF Spec

\* The grid stays prefix-free (apply_due_shard_changes), in every order of the
\* splits and merges of any number of families, repeated and late ones
\* included.
THEOREM GridStaysPrefixFree ==
  ASSUME ShardTree, Families
  PROVE  Spec => []GridPrefixFree
<1>1. FamilyInv => GridPrefixFree
  BY DEF FamilyInv
<1> QED
  BY <1>1, FamilyInvariance, PTL

\* Two live sessions of shards that no request declared vacant govern disjoint
\* ranges, whatever the committees sign and in every order of the splits and
\* merges of a family, of seals, fences and reconciliations.
THEOREM LiveRangesStayDisjoint ==
  ASSUME ShardTree, Families
  PROVE  Spec => []LiveRangesDisjoint
<1> DEFINE Settled == pass.stage \notin {"gate", "flip"} => LiveRangesDisjoint
<1>1. Init => LiveRangesDisjoint
  BY TopologyInit
<1>2. IInv /\ FamilyInv => Settled
  <2> SUFFICES ASSUME IInv, FamilyInv, pass.stage \notin {"gate", "flip"}
               PROVE  LiveRangesDisjoint
    OBVIOUS
  <2>1. WaitingCurrent
    BY DEF FamilyInv, WaitInv, WaitingCurrent
  <2> QED
    BY <2>1, SettledDisjoint DEF FamilyInv
<1>3. IInv /\ LiveRangesDisjoint /\ Settled' /\ [Next]_vars => LiveRangesDisjoint'
  BY GatedDisjoint
<1> HIDE DEF Settled
<1> QED
  BY <1>1, <1>2, <1>3, FamilyInvariance, PTL DEF Spec

\* A scheduled split or merge reaches the grid by the frame after the last pass
\* its sources can be fenced in, whatever the committees sign or withhold: its
\* sources stay in the grid that fence_stalled_sources walks.
THEOREM ChangesApplyInTime ==
  ASSUME ShardTree, Families
  PROVE  Spec => []ChangeAppliesInTime
<1>1. IInv /\ FamilyInv => ChangeAppliesInTime
  BY TimelyApplies DEF FamilyInv
<1> QED
  BY <1>1, FamilyInvariance, PTL

=============================================================================
