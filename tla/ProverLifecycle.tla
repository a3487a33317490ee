-------------------------- MODULE ProverLifecycle --------------------------
(***************************************************************************)
(* The records GLOBAL keeps of one prover: its vertex, the allocation slot *)
(* it has on each shard filter, the hyperedge that links them, and the     *)
(* leaf roots registered for its replicas.  The prover joins shards,       *)
(* confirms, rejects, pauses and leaves; an audit or an equivocation proof *)
(* kicks it; splits and merges move its allocations.  Everything is        *)
(* aligned to epochs: what is proposed in epoch E is confirmed in E + 1    *)
(* and takes effect at E + 2, and a member registers the roots of the next *)
(* epoch's replicas one epoch ahead.                                       *)
(*                                                                         *)
(* Operations of different provers touch different records, so one prover  *)
(* is modelled; a step that fails is rolled back whole, so it is no step.  *)
(* The one check that reads other provers, the halt-risk gate on a leave   *)
(* confirm, only refuses some confirms: those steps may simply not happen. *)
(* A bundle carries one operation, as the prover's client builds it, and   *)
(* the client decides once per filter and epoch, so it sends roots with    *)
(* every confirm but a leave's.                                            *)
(***************************************************************************)
EXTENDS Integers, Sequences, FiniteSets

CONSTANTS
  Filters,       \* shard filters of one application
  GenesisGrid,   \* the shards registered at first
  Changes,       \* splits and merges that may be proposed
  EpochFrames,   \* epoch_length_frames()
  RejoinWindow,  \* REJOIN_WINDOW_FRAMES
  Slots,         \* registrations one leaf-root vertex holds
  MaxFrame, MaxOps

Epochs == 0 .. (MaxFrame \div EpochFrames) + 2

Change == [kind: {"split", "merge"}, parent: Filters, children: Seq(Filters)]

ASSUME LifecycleAssumption ==
  /\ GenesisGrid \subseteq Filters
  /\ Changes \subseteq Change /\ \A c \in Changes : c.children # << >>
  /\ EpochFrames \in Nat \ {0} /\ RejoinWindow \in Nat
  /\ Slots \in Nat /\ Slots >= 3 /\ MaxOps \in Nat
  /\ MaxFrame \in Nat /\ MaxFrame >= EpochFrames

\* The status byte of an allocation; "left" is byte 4, written by a rejected
\* join and by a kick alike.
Statuses == {"none", "joining", "active", "paused", "leaving", "left", "historic"}
Live     == {"joining", "active", "paused", "leaving"}

\* A slot's record.  Of the frames it stores only the join's is compared with
\* a frame; of the others the epoch is read.  0 is an unset field.  The last two
\* are history: `moved' is the effective epoch of the change that moved the slot
\* since its last confirm, Chained when there was more than one; `hops' counts
\* the changes since the join, up to 2.
Chained == -1
Allocation ==
  [status: Statuses, join: 0 .. MaxFrame, joinConfirm: Epochs, leave: Epochs,
   leaveConfirm: Epochs, epoch: Epochs, moved: Epochs \cup {Chained}, hops: 0 .. 2]
None == [status |-> "none", join |-> 0, joinConfirm |-> 0, leave |-> 0,
         leaveConfirm |-> 0, epoch |-> 0, moved |-> 0, hops |-> 0]

\* A registration: the epoch it is stored under, the epoch its roots encode.
Registration == [epoch: Epochs, made: Epochs]

VARIABLES
  frame,       \* the GLOBAL frame being executed
  grid,        \* the registered shards
  pending,     \* the pending splits and merges
  pass,        \* the frame's pass over the due changes
  prover,      \* the prover vertex: its status byte and whether it was kicked
  alloc,       \* alloc[f]: the allocation slot on f, or None
  linked,      \* the filters whose slots the hyperedge links
  roots,       \* roots[f]: the leaf-root registrations on f
  enumerated,  \* slots of committed state a change would move
  ops          \* operations and proposals executed (bounded by MaxOps)

vars == <<frame, grid, pending, pass, prover, alloc, linked, roots, enumerated, ops>>

-----------------------------------------------------------------------------
Epoch(n) == n \div EpochFrames
Now      == Epoch(frame)

\* affects_shard
Affects(c, f) == f = c.parent \/ \E i \in DOMAIN c.children : c.children[i] = f
Frozen(f)     == \E p \in pending : Affects(p.change, f)
Sources(c)    == IF c.kind = "split" THEN {c.parent}
                 ELSE {c.children[i] : i \in DOMAIN c.children}
Results(c)    == IF c.kind = "merge" THEN {c.parent}
                 ELSE {c.children[i] : i \in DOMAIN c.children}

StatusesIn(slots, links) == {slots[f].status : f \in links}

\* Active > Joining > Leaving > Paused > left.
compute_aggregate_prover_status(S) ==
  CASE "active" \in S  -> "active"
    [] "joining" \in S -> "joining"
    [] "leaving" \in S -> "leaving"
    [] "paused" \in S  -> "paused"
    [] OTHER           -> "left"

\* effective_status of a slot in epoch e (data shards only).
effective_status(a, e) ==
  CASE a.status = "joining" -> IF e > Epoch(a.join) + 1 THEN "expiredJoining" ELSE "joining"
    [] a.status = "active"  ->
         IF a.joinConfirm > 0 /\ e < a.joinConfirm + 1 THEN "joining"
         ELSE IF a.epoch >= e THEN "active" ELSE "expiredEpoch"
    [] a.status = "leaving" ->
         IF a.leaveConfirm > 0
           THEN IF e < a.leaveConfirm + 1 THEN "leaving" ELSE "expiredLeaving"
           ELSE IF e > a.leave + 1 THEN "expiredLeaving" ELSE "leaving"
    [] OTHER -> a.status

\* committee_eligible, without the empty-committee floor.
Eligible(f) == effective_status(alloc[f], Now) \in {"active", "leaving"}

\* all_on_filter over committed rows: slots not retired, of a prover that
\* decodes (one with the left byte does not).
Enumerated(slots, vertex) ==
  IF vertex.status \in {"absent", "left"} THEN {}
  ELSE {f \in Filters : slots[f].status \notin {"none", "historic"}}

\* The status copied from one of the slots just changed.
RefreshFromChanged(slots, S) ==
  /\ alloc'  = slots
  /\ linked' = linked \cup {f \in S : slots[f] # None}
  /\ \E f \in S : prover' = [prover EXCEPT !.status = slots[f].status]

\* refresh_prover_status after the slots of S changed: an unlinked slot is
\* linked again, and the status follows all linked slots.
Refresh(slots, S) ==
  /\ alloc'  = slots
  /\ linked' = linked \cup {f \in S : slots[f] # None}
  /\ prover' = [prover EXCEPT !.status =
                  compute_aggregate_prover_status(StatusesIn(slots, linked'))]

\* Messages execute before or after the frame's pass, never within it.
Message == pass.stage \in {"open", "done"} /\ ops < MaxOps /\ ops' = ops + 1

Operation == Message /\ UNCHANGED <<frame, grid, pending, pass, enumerated>>

\* The stage of the pass, the changes it has left to do in that stage, the ones
\* of the next stage, and the shards that splits are compared with.
Pass(stage, changes, ready, live) ==
  [stage |-> stage, changes |-> changes, ready |-> ready, live |-> live]
Idle(stage) == Pass(stage, {}, {}, {})

-----------------------------------------------------------------------------
Init ==
  /\ frame = EpochFrames
  /\ grid = GenesisGrid
  /\ pending = {}
  /\ pass = Idle("open")
  /\ prover = [status |-> "absent", kicked |-> FALSE]
  /\ alloc = [f \in Filters |-> None]
  /\ linked = {}
  /\ roots = [f \in Filters |-> {}]
  /\ enumerated = {}
  /\ ops = 0

\* verify_prover_join_allocations_expired, repeated by invoke_join.
Rejoinable(f) ==
  alloc[f].status \in Live => frame >= alloc[f].join + RejoinWindow

Joined == [None EXCEPT !.status = "joining", !.join = frame]

JoinedSlots(S) == [f \in Filters |-> IF f \in S THEN Joined ELSE alloc[f]]

\* A join that replaces the hyperedge instead of extending it.
JoinReplacingHyperedge(S) ==
  /\ Operation
  /\ ~prover.kicked
  /\ \A f \in S : f \in grid /\ ~Frozen(f) /\ Rejoinable(f)
  /\ alloc' = JoinedSlots(S) /\ linked' = S
  /\ prover' = [prover EXCEPT !.status = "joining"]
  /\ UNCHANGED roots

Join(S) ==
  /\ Operation
  /\ ~prover.kicked
  /\ \A f \in S : f \in grid /\ ~Frozen(f) /\ Rejoinable(f)
  /\ Refresh(JoinedSlots(S), S)
  /\ UNCHANGED roots

-----------------------------------------------------------------------------
(* Confirming and rejecting. *)

\* A leave confirmed in the epoch it was proposed in, too.
validate_confirm_timingEarly(a) ==
  \/ a.status = "joining" /\ Now = Epoch(a.join) + 1
  \/ a.status = "leaving" /\ a.leaveConfirm = 0 /\ Now <= a.leave + 1
  \/ a.status = "active"  /\ a.epoch <= Now

\* validate_confirm_timing
validate_confirm_timing(a) ==
  \/ a.status = "joining" /\ Now = Epoch(a.join) + 1
  \/ a.status = "leaving" /\ a.leaveConfirm = 0 /\ Now = a.leave + 1
  \/ a.status = "active"  /\ a.epoch <= Now

\* validate_confirm_epoch
validate_confirm_epoch(signed) == signed <= frame /\ Epoch(signed) = Now

\* materialize_prover_confirm, and the grid check before it: a join is not
\* confirmed onto a shard the grid no longer has, and stays as it was.
Confirmed(a, f) ==
  CASE a.status = "joining" ->
         IF f \in grid
           THEN [a EXCEPT !.status = "active", !.joinConfirm = Now,
                          !.epoch = Now + 1, !.moved = 0]
           ELSE a
    [] a.status = "active"  -> [a EXCEPT !.epoch = Now + 1, !.moved = 0]
    [] a.status = "leaving" -> [a EXCEPT !.leaveConfirm = Now]

\* No shards of a pending change.
pre_registration_targetsNone(S, e) == {}

\* pre_registration_targets: the shards that a change applying at e makes of S.
pre_registration_targets(S, e) ==
  UNION {Results(p.change) : p \in {q \in pending : q.effective = e
                                                    /\ Sources(q.change) \cap S # {}}}

\* One slot fewer.
UpsertFewer(regs, r) ==
  LET all == {x \in regs : x.epoch # r.epoch} \cup {r}
  IN  {x \in all : Cardinality({y \in all : y.epoch > x.epoch}) < Slots - 1}

\* upsert_leaf_root_registration: a registration replaces the one of its
\* epoch, and the highest epochs are kept.
Upsert(regs, r) ==
  LET all == {x \in regs : x.epoch # r.epoch} \cup {r}
  IN  {x \in all : Cardinality({y \in all : y.epoch > x.epoch}) < Slots}

RegisterRoots(S, signed) ==
  roots' = [f \in Filters |->
              IF f \in S \cup pre_registration_targets(S, Now + 1)
                THEN Upsert(roots[f], [epoch |-> Now + 1, made |-> Epoch(signed) + 1])
                ELSE roots[f]]

ConfirmSlots(S) ==
  Refresh([f \in Filters |-> IF f \in S THEN Confirmed(alloc[f], f) ELSE alloc[f]], S)

\* ConfirmJoins and ReconfirmEpoch: signed at an earlier frame, executed now.
ConfirmStorage(S, signed) ==
  /\ Operation
  /\ validate_confirm_epoch(signed)
  /\ \A f \in S : alloc[f].status \in {"joining", "active"} /\ validate_confirm_timing(alloc[f])
  /\ ConfirmSlots(S)
  /\ RegisterRoots(S, signed)

\* ConfirmLeaves.
ConfirmLeaves(S) ==
  /\ Operation
  /\ \A f \in S : alloc[f].status = "leaving" /\ validate_confirm_timing(alloc[f])
  /\ ConfirmSlots(S)
  /\ UNCHANGED roots

\* A rejected leave that renews the member's epoch.
RejectedBumpingEpoch(a) ==
  IF a.status = "joining" THEN [a EXCEPT !.status = "left"]
  ELSE [a EXCEPT !.status = "active", !.epoch = Now + 1]

\* materialize_prover_reject; its timing is checked as a confirm's is.
Rejected(a) ==
  IF a.status = "joining" THEN [a EXCEPT !.status = "left"]
  ELSE [a EXCEPT !.status = "active"]

Reject(S) ==
  /\ Operation
  /\ \A f \in S : alloc[f].status \in {"joining", "leaving"} /\ validate_confirm_timing(alloc[f])
  /\ Refresh([f \in Filters |-> IF f \in S THEN Rejected(alloc[f]) ELSE alloc[f]], S)
  /\ UNCHANGED roots

-----------------------------------------------------------------------------
(* Leaving, pausing, kicking. *)

Leave(S) ==
  /\ Operation
  /\ \E f \in S : alloc[f].status = "active"
  /\ \A f \in S : alloc[f].status \in {"active", "paused"}
  /\ Refresh([f \in Filters |->
                IF f \in S THEN [alloc[f] EXCEPT !.status = "leaving", !.leave = Now]
                ELSE alloc[f]], S)
  /\ UNCHANGED roots

SetStatus(f, from, to) ==
  /\ Operation
  /\ alloc[f].status = from
  /\ Refresh([alloc EXCEPT ![f].status = to], {f})
  /\ UNCHANGED roots

Pause(f)  == SetStatus(f, "active", "paused")
Resume(f) == SetStatus(f, "paused", "active")

\* kick_prover_by_address: the kick reaches the slots the hyperedge links.
Kick ==
  /\ Operation
  /\ prover.status # "absent"
  /\ prover' = [status |-> "left", kicked |-> TRUE]
  /\ alloc' = [f \in Filters |-> IF f \in linked THEN [alloc[f] EXCEPT !.status = "left"]
                                 ELSE alloc[f]]
  /\ UNCHANGED <<linked, roots>>

-----------------------------------------------------------------------------
(* Splits and merges. *)

\* A change that takes effect an epoch later than announced.
ProposeChangeLate(c) ==
  /\ Message
  /\ pending' = {p \in pending : p.change.parent # c.parent \/ p.effective # Now + 3}
                   \cup {[change |-> c, effective |-> Now + 3]}
  /\ UNCHANGED <<frame, grid, pass, prover, alloc, linked, roots, enumerated>>

\* invoke_shard_split and invoke_shard_merge: the proposer and the shape of the
\* filters are checked, not the grid or what is pending.  The record is keyed by
\* parent and effective epoch.
ProposeChange(c) ==
  /\ Message
  /\ pending' = {p \in pending : p.change.parent # c.parent \/ p.effective # Now + 2}
                   \cup {[change |-> c, effective |-> Now + 2]}
  /\ UNCHANGED <<frame, grid, pass, prover, alloc, linked, roots, enumerated>>

Due == {p \in pending : p.effective <= Now}

StaleSplit(p) == p.change.kind = "split" /\ p.change.parent \notin pass.live

\* The pass gates the due changes.  A stale split is ready; of the others the
\* handoff records decide which are ready, which wait for their sessions to
\* seal and which are dropped, any of which may happen here.
BeginPass ==
  /\ pass.stage = "open" /\ Due # {}
  /\ \E ready \in SUBSET Due : \E dropped \in SUBSET (Due \ ready) :
       /\ \A p \in Due : p.change.kind = "split" /\ p.change.parent \notin grid => p \in ready
       /\ pass' = Pass("reassign", ready, ready, grid)
       /\ pending' = pending \ dropped
  /\ UNCHANGED <<frame, grid, prover, alloc, linked, roots, enumerated, ops>>

\* A slot of committed state that the pass finds.
Movable(f) == f \in enumerated /\ alloc[f] # None

\* The history of a slot that a change moves.
MovedBy(a, effective) ==
  [a EXCEPT !.moved = IF @ = 0 THEN effective ELSE Chained,
            !.hops = IF @ = 0 THEN 1 ELSE 2]

\* Every moved slot overwrites the destination, so the one moved last stays.
MovedSlots(olds, last, new, effective) ==
  [f \in Filters |->
     IF f = new THEN MovedBy(alloc[last], effective)
     ELSE IF f \in olds THEN [alloc[f] EXCEPT !.status = "historic"] ELSE alloc[f]]

\* rekey_allocation_with_key for the slots on olds: the atoms follow, the old
\* slots are retired.
Rekey(olds, last, new, effective) ==
  /\ alloc'  = MovedSlots(olds, last, new, effective)
  /\ linked' = (linked \ olds) \cup {new}

\* reassign_shard_allocations: a split places the slot on one of the children,
\* a merge moves the children's slots in their order.
Reassigned(p) ==
  LET c == p.change
      moving == {i \in DOMAIN c.children : Movable(c.children[i])}
  IN \/ /\ c.kind = "split" /\ Movable(c.parent)
        /\ \E i \in DOMAIN c.children : Rekey({c.parent}, c.parent, c.children[i], p.effective)
     \/ /\ c.kind = "merge"
        /\ \E i \in moving :
             /\ \A j \in moving : j <= i
             /\ Rekey({c.children[j] : j \in moving}, c.children[i], c.parent, p.effective)
     \/ /\ IF c.kind = "split" THEN ~Movable(c.parent) ELSE moving = {}
        /\ UNCHANGED <<alloc, linked>>

\* The allocations of all ready changes move first, found in the committed state
\* of the frame before.  A stale split moves nothing.
Reassign(p) ==
  /\ pass.stage = "reassign" /\ p \in pass.changes
  /\ IF StaleSplit(p) THEN UNCHANGED <<alloc, linked>> ELSE Reassigned(p)
  /\ pass' = [pass EXCEPT !.changes = @ \ {p}]
  /\ UNCHANGED <<frame, grid, pending, prover, roots, enumerated, ops>>

EndReassign ==
  /\ pass.stage = "reassign" /\ pass.changes = {}
  /\ pass' = Pass("flip", pass.ready, {}, pass.live)
  /\ UNCHANGED <<frame, grid, pending, prover, alloc, linked, roots, enumerated, ops>>

\* Then the grid: a split whose parent is gone is only consumed, a merge is not
\* compared with the grid.  Only splits keep `live' up to date.
Flipped(c, shards) ==
  IF c.kind = "split" /\ c.parent \notin pass.live THEN shards
  ELSE (shards \ Sources(c)) \cup Results(c)

Flip(p) ==
  /\ pass.stage = "flip" /\ p \in pass.changes
  /\ grid' = Flipped(p.change, grid)
  /\ pending' = pending \ {p}
  /\ pass' = [pass EXCEPT !.changes = @ \ {p},
                          !.live = IF p.change.kind = "split" THEN Flipped(p.change, @) ELSE @]
  /\ UNCHANGED <<frame, prover, alloc, linked, roots, enumerated, ops>>

EndPass ==
  /\ pass.stage = "flip" /\ pass.changes = {}
  /\ pass' = Idle("done")
  /\ UNCHANGED <<frame, grid, pending, prover, alloc, linked, roots, enumerated, ops>>

\* The frame is committed.  A frame with nothing due has no pass.
EndFrame ==
  /\ pass.stage \in {"open", "done"} /\ (pass.stage = "open" => Due = {})
  /\ frame < MaxFrame
  /\ frame' = frame + 1
  /\ pass' = Idle("open")
  /\ enumerated' = Enumerated(alloc, prover)
  /\ UNCHANGED <<grid, pending, prover, alloc, linked, roots, ops>>

\* The frames of the instance are used up (MaxFrame).
Bounded == frame = MaxFrame /\ UNCHANGED vars

Next ==
  \/ \E S \in (SUBSET Filters) \ {{}} :
       Join(S) \/ ConfirmLeaves(S) \/ Reject(S) \/ Leave(S)
         \/ \E signed \in 0 .. MaxFrame : ConfirmStorage(S, signed)
  \/ \E f \in Filters : Pause(f) \/ Resume(f)
  \/ Kick
  \/ \E c \in Changes : ProposeChange(c)
  \/ BeginPass \/ EndReassign \/ EndPass \/ EndFrame
  \/ \E p \in pass.changes : Reassign(p) \/ Flip(p)
  \/ Bounded

Spec == Init /\ [][Next]_vars

-----------------------------------------------------------------------------
(* Properties. *)

\* Types; and the hyperedge links slots that exist.
TypeOK ==
  /\ frame \in 0 .. MaxFrame
  /\ grid \subseteq Filters
  /\ pending \subseteq [change: Changes, effective: Epochs]
  /\ pass \in [stage: {"open", "reassign", "flip", "done"}, changes: SUBSET pending,
               ready: SUBSET pending, live: SUBSET Filters]
  /\ prover \in [status: Live \cup {"absent", "left"}, kicked: BOOLEAN]
  /\ alloc \in [Filters -> Allocation]
  /\ linked \subseteq {f \in Filters : alloc[f].status # "none"}
  /\ roots \in [Filters -> SUBSET Registration]
  /\ enumerated \subseteq {f \in Filters : alloc[f].status # "none"}
  /\ ops \in 0 .. MaxOps

\* A kick finds every allocation: a kicked prover holds no live slot, wherever
\* joins, rejoins, splits and merges put its slots before.
KickedHoldsNothing ==
  prover.kicked => \A f \in Filters : alloc[f].status \notin Live

\* A prover whose vertex says it left holds no live slot: the registry drops
\* such a prover, and a live slot of it would belong to no public key.
LeftProverHoldsNothing ==
  prover.status = "left" => \A f \in Filters : alloc[f].status \notin Live

\* While a slot claims the epoch before this one or a later one, roots made for
\* that epoch are registered: on the shard the member confirmed, and on the
\* shard that one change has moved it to since, when the member confirmed for
\* the epoch the change was due in.  A slot moved again before the member
\* confirms is not covered: nothing is registered two changes ahead.
EpochClaimHeld ==
  \A f \in Filters :
    /\ alloc[f].status \in {"active", "paused", "leaving"}
    /\ alloc[f].epoch # 0 /\ alloc[f].epoch + 1 >= Now
    /\ alloc[f].moved \in {0, alloc[f].epoch}
    => [epoch |-> alloc[f].epoch, made |-> alloc[f].epoch] \in roots[f]

\* A new member first sits on its committee in an epoch it has registered for,
\* also where a split or merge has moved it meanwhile: no join is accepted while
\* a change of its shard is pending, and a confirm registers for the shards the
\* changes due next make of its shard.  A second change of the same epoch is
\* what escapes this (hops), whatever else is pending.
FreshMemberRegistered ==
  \A f \in Filters :
    alloc[f].status = "active" /\ alloc[f].hops <= 1
      /\ Eligible(f) /\ Now <= alloc[f].joinConfirm + 1
    => \E r \in roots[f] : r.epoch = Now

\* A member that proposed to leave in epoch E serves through E + 1 and is out
\* from E + 2 on, whether or not the leave was confirmed.
NoticeServed ==
  \A f \in Filters : alloc[f].status = "leaving" => (Eligible(f) <=> Now <= alloc[f].leave + 1)

\* A registration leaves the vertex only when it is older than the previous
\* epoch: openings anchored just before a boundary are audited against it.
AuditRootsKept ==
  [][\A f \in Filters : \A r \in roots[f] :
       r.epoch + 1 >= Now => \E s \in roots'[f] : s.epoch = r.epoch]_vars
============================================================================
