# Handoff, sealing, execution and prover records: a TLA+ model of the Quilibrium node

This directory holds a TLA+ model of the parts of the Rust node (`crates/`)
that decide **which committee may certify the frames of which shard**, and how
that authority moves when membership changes or a shard is split or merged; of
the consensus inside a committee that seals its last checkpoint; of the way an
archive **executes finalized GLOBAL frames**, across faults and crashes; of the
records GLOBAL keeps of a **prover's allocations**; and of the turns in which a
node's workers recover shards from archives. TLC checks the models on small
instances, TLAPS proves the central invariants for every value of the constants.

Paths below are relative to `src/`; `GI` stands for
`crates/quil-execution/src/global_intrinsic`.

## 1. Inventory of the system

The node runs one GLOBAL chain and one chain per application shard. A shard is
a *filter*, an address prefix of an application. Its committee runs Simplex
consensus and sends the certified headers of its data frames to GLOBAL, whose
frames carry them together with every other GLOBAL message. GLOBAL executes its
frames in order, in the same way on every archive.

| Part | State | Operations | Interacts with | What is hard |
|---|---|---|---|---|
| Handoff records (`GI/handoff.rs`) | head, session, status, request, seal, fence, tip, activated, origin per filter or session | `initialize`, `schedule_with_vacant`, `apply_submission`, `activate_with`, `record_session_tip` | written by the scheduler and by GLOBAL messages; read by the application engines | several sources end at different times, by seal or by fence; certificates come late, twice, or conflict |
| Scheduler (`GI/handoff_schedule.rs`) | topology, dropped and reservation records | `gate_topology_change_sized`, `fence_stalled_sources`, `reconcile_membership`, `recover_topology_change` | called once per frame by the maintenance pass | membership changes, splits and merges compete for the same sessions over many frames |
| Frame verification (`GI/handoff_frames.rs`) | none | `verify` | header execution, drains | bounds at a session's base and end |
| Maintenance pass and grid (`GI/intrinsic.rs`) | shard grid, pending changes | `apply_due_shard_changes`, `reconcile_committee_sessions`, `invoke_shard_split`, `invoke_shard_merge`, `invoke_frame_header`, `seal_drain` | runs inside the first header of a frame, or alone after its messages | verdicts reached before the flips of the same pass; stale and duplicate changes |
| Generation-zero migration (`GI/handoff_legacy.rs`) | legacy tips | `migrate`, the flag day | runs before reconciliation | one-off |
| Presence reports, history (`GI/handoff_presence.rs`, `handoff_history.rs`) | none | validation, proofs of past records | | |
| Handoff proposer (`crates/quil-cw-consensus/src/handoff/automaton.rs`) | selected seal, parent readers | propose and verify a seal or a re-seal | Simplex, block store | seals re-proposed over seals; private parents |
| Consensus adapters, nullify receiver (`crates/quil-cw-consensus/src`) | block store, verified nullifies | | Simplex, network | caches at their limit |
| Host supervisor (`crates/quil-engine/src/cw_host_supervisor.rs`) | live host, backoff | start, join, replace | Simplex journal | two hosts on one journal |
| Application handoff engine (`app_handoff.rs`, `app_parent.rs`) | session being run, private parent | start a successor, seal, execute privately | GLOBAL records, materializer | state read before materialization moves on |
| Global finalization (`global_finalization.rs`, `cw_global_seams.rs`) | queue of finalized frames, candidates, attempts | admit, offer, step, publish, legacy record | consensus, materializer, store | eviction, retries, frames final only through a descendant, the legacy fallback |
| Materializer (`frame_materializer*.rs`) | execution state, cursor, receipt, unfinished-execution marker | materialize, publish atomically, recover | pipeline, hypergraph | a crash or an error between marker, execution, commit and receipt |
| Archive sync (`crates/quil-node/src/master_node/archive_sync.rs`) | clock records, gaps | poll, backfill, reconcile the prover tree | pipeline, materializer | records ahead of execution; a pull that races it |
| Prover operations (`GI/materialize.rs`, `verify.rs`, `intrinsic.rs`) | prover vertex, allocations, hyperedge, leaf-root registrations | join, confirm, reject, pause, resume, leave, kick, reassign | registry, shard grid | what is signed in one epoch executes in another; changes move allocations between operations |
| Prover registry (`prover_registry.rs`, `quil-types/src/consensus.rs`) | cached allocations | effective status, committee eligibility, enumeration of a filter | scheduler, sampling | boundaries of epochs |
| Recovery turns (`recovery_turns.rs`) | free turns, queue, run counter | acquire, release, withdraw | workers (`thread_worker.rs`) | a turn granted to an attempt that is gone |
| Node lifecycle (`crates/quil-lifecycle`), storage (`crates/quil-store`) | | | | |
| Simplex voter (`crates/commonware-consensus/src/simplex/actors/voter`) | votes per view, certificates | notarize, nullify, finalize, pick a parent | handoff proposer, network | timeouts racing certificates, equivocating leaders |
| Delivery of finalized frames (`cw_app_seams.rs`) | pending finalizations | deliver, with implied ancestors | materializer | frames that never finalize on their own |

Not part of the core logic: the vendored libp2p, proof and cryptography crates, the Go implementation under `consensus/` and `node/` that
the Rust node replaces, the client and the explorer.

What makes the handoff correct: a session ends exactly where GLOBAL's execution
of it ends; no frame number is used twice; a successor starts only when
everything it replaces has ended; no address is governed twice; nothing depends
on the outgoing committee's cooperation for ever; a request, once made, can be
activated.

What makes execution correct: every archive applies every frame once and in
order, and its cursor, marker and receipt tell the truth about its state wherever
the process dies. What makes the prover records correct: a kick reaches every
allocation, the prover's status agrees with its slots, notice periods hold, and a
member that sits on a committee has registered the roots it will be audited
against.

The repository has over five hundred thousand lines of implementation, most of
them transport, storage, cryptography and proof systems, user interfaces and
vendored crates. The models follow the protocol logic above, a small part of
those lines.

## 2. Modules

| Module | Models |
|---|---|
| `GlobalHandoff` | handoff records, scheduler, frame verification, maintenance pass, grid |
| `GlobalHandoffProofs` | its inductive invariant and theorems |
| `HandoffHistoryProofs` | successors, the immutable history and the fence, on top of it |
| `HandoffTopologyProofs` | lemmas about splits and merges |
| `HandoffFamilyProofs` | grid, ranges and deadlines of splits and merges that do not reach into one another |
| `MCGlobalHandoff` | topologies for TLC: a shard P that covers A and B, A that covers A1 and A2 |
| `SealConsensus` | the Simplex voter and the handoff proposer of one closing session |
| `SealConsensusProofs` | its inductive invariant and theorems |
| `MCSealConsensus` | committees for TLC: two correct members; four with a faulty leader |
| `FrameLedger` | what the execution of GLOBAL frames promises (abstract) |
| `GlobalExecution` | finalization pipeline, materializer, worker and restart of one archive; implements `FrameLedger` |
| `GlobalExecutionProofs` | its inductive invariant and theorems |
| `MCGlobalExecution` | the instance for TLC |
| `ArchiveReconcile` | the prover tree reconcile, composed with `GlobalExecution` |
| `ProverLifecycle` | one prover's vertex, allocations, hyperedge and registrations |
| `ProverLifecycleProofs` | its inductive invariant and theorems |
| `MCProverLifecycle` | a parent shard p, its children a and b, its sibling q and the shard r above, for TLC |
| `RecoveryTurns` | the turn queue of `recovery_turns.rs` |
| `RecoveryTurnsProofs` | its inductive invariant and theorems |
| `MCRecoveryTurns` | the instance for TLC |

### GlobalHandoff

**State.** Each authenticated record kind of `handoff.rs` is a variable with
the record's name: `head`, `session`, `status`, `requests`, `activated`,
`seal`, `fence`, `tip`, `reserved`, `topology`, `dropped`; `closing` is the
request id inside a Sealing or Closed status. `grid` and `pending` are the local shard
records. A session is named by filter and generation, which its hash binds and
`create_session` keeps unique; a request by its content, which is what its hash
covers. `frame` is the GLOBAL frame being executed and `pass` the point reached
in that frame's maintenance pass.

**Actions.** `ExecuteHeader` is `invoke_frame_header`: it verifies a header,
advances the tip and, if it is the frame's first, starts the pass. `SubmitSeal`
is a seal submission whose drain reaches its checkpoint, with the activation it
may cause; `SubmitPartialDrain` one whose drain does not. `ProposeChange` is
`invoke_shard_split` and `invoke_shard_merge`. The pass is one atomic changeset
in the code; the model walks it in small steps (`BeginPass` to `EndPass`) during
which no message runs, so that each verdict is a separate action: `GateApply`,
`GateDrop`, `GateSchedule`, `GateWait`, then `Flip`, then `FenceSession` or
`FenceSkip`, then `ReconcileFirst`, `ReconcileMembership` or `ReconcileSkip` per
filter. `EndSource` is the common part of `apply_submission` and
`fence_stalled_sources`: record how a source ended and, when all have, run
`activate_with`.

**Abstractions.**
- *Committees are not trusted.* Any header of an existing session with any
  digest and any closing checkpoint may be presented at any time. Certificates
  are external, and the results do not depend on agreement inside a committee.
- *Views and state roots are dropped.* `HeaderVerifies` accepts a superset of
  what `verify_with` accepts, since it ignores the bounds on views.
- *Eligibility is any set of provers*, read at most once per pass and filter,
  as the code scans the registry once. `Committees` allows every division of
  provers over a split's children that gives none to the spine shards; the code
  picks one by seniority and size.
- *Pending changes are gated and flipped in any order*; the store returns them
  in key order.
- *A refused operation writes nothing*: the store's savepoints are external.
- *Drained headers.* A submission's consecutive headers are represented by the
  last one, since only it decides the tip.
- The activation frames of past protocol changes are taken as passed, except
  the two whose order with a pass matters (`EarlyFenceFrame`,
  `FencedEligibilityFrame`). Generation zero, the flag day, the repair of missing
  pending changes, key rings, allocation reassignment and orphaned coin blocks are
  left out; they do not write the modelled records in a running network.

### SealConsensus

**State.** `vote`, `nulls` and `fins` are the votes each correct member has
signed (`broadcast_notarize`, `broadcast_nullify`, `broadcast_finalize` of
`round.rs`), `tip` its materialized frame and `closing` whether GLOBAL has
scheduled the session's end. A block is a data frame or a seal with its view,
its parent's view, its chain (the views of the data frames it stands on) and how
many request-free frames end in it.

**Actions.** `Propose` and `Verify` are `try_propose` and `try_verify` with the
handoff proposer's `propose_with_context` and `verify_with_context`; they end in
a notarize vote. `Nullify` and `Finalize` are `construct_nullify` and
`construct_finalize`. `Materialize` executes the next frame of a finalized
history. `ScheduleClosing` is GLOBAL's.

**Abstractions.**
- *Votes make certificates.* A certificate exists once a quorum's votes do, and a
  member acts on it at any later time or never. This covers loss, delay and
  reordering, and makes it unnecessary to keep what a member has heard. The
  voter's refusal of a parent below the last finalization it knows is therefore
  not a guard: such a parent would have to skip a finalized view, or the member
  may not have heard of it. Frames also arrive from archives, without the voter
  learning of their finalization.
- *Voting is one step.* The voter cancels a pending proposal or verification when
  its view ends (`actor.rs`), so a late answer of the proposer casts no vote.
- *A digest is its history*: chains are compared instead of digests. State roots,
  history roots and request ids are functions of the history here; members whose
  execution diverges refuse to vote in the code. A view has at most one certified
  block (`SingleHistory`), so the views name the frames.
- *Block bodies* are there or not by choice: without one a member does not vote.
- *Quorums* are any sets that pairwise share a correct member, which is what the
  vendored fault model (N3f1) gives; faulty members count towards all of them.
- *Restarts* lose nothing: votes are journalled before they are sent.
- Generation zero's base is a frame at view 0 here and was not drained.

### GlobalExecution, FrameLedger and ArchiveReconcile

**Two builds.** The engine has a finalization pipeline (`pipeline.step`,
`finish_legacy`), an atomic publication (`materialize_canonical_atomically`) and a
recovery of unfinished executions (`recover_unfinished_execution`). Nothing in
`quil-node` calls them: `CwGlobalDeps` (`cw_consensus_bridge.rs:115-148`) carries no
pipeline, and only the engine's tests run the three. What an archive runs is the
worker of `archive_sync.rs:2013-2188`: for each height after
`last_materialized_frame` it reads the canonical record and calls `m.materialize`; at a
missing record the pass ends until the next signal, and after an error the task
ends until the process is restarted. The variable `build` says what a process has, chosen at
the start from `Pipelines` and `Recoveries` and fixed; the runs and the theorems
cover all four.

**State.** Durable: `canon` and `cand`, the canonical and the candidate record at
each height, plain or with a certificate; `cursor`; `state`, the frames applied to
the execution state, in order; `receipt`, the completed checkpoint; `pending`, the
unfinished-execution marker. Lost with the process: `queue` and `attempts` of
`GlobalFinalizationPipeline`, the execution `lease`, the worker's `job` (`Exited`
once its task has ended), what a failed attempt left `staged` in memory, `last`
(`last_materialized_frame`), the `gaps` of the startup scan, the root `recorded` for
the last executed frame and the `mismatch` flag. `announced` and `flushed` are history
variables.

**Actions.** `OnNotarized`, `OnFinalizedAdmitted` and `OnFinalizedDirectly` are the
consensus finalizer, `Sync` and `Backfill` archive sync. With the pipeline, the worker
runs `StepPublish`, `StepUnavailable` or `StepLegacy` at a height without a
canonical record, tries `CanonicalPublish` before the in-place path at one with a
record, and ends with `Settle` or `Announce`. Without it, and where the atomic path
is not available, it runs the in-place path: `MaterializeBegin`,
`MaterializeCommit`, `MaterializeFinish`, with `MaterializeFail` for the error returns and
`MaterializeRefused` for an attempt that a marker, or an error before it, turns away.
`ForeignCommit` is any other commit of the hypergraph, which publishes what a failed
attempt staged. `Crash`, `Restart` and `Startup` end and begin a process; the gap loop
of a startup makes the calls of the worker and is not told apart from it.

**Abstractions.**
- *A frame is its height.* Consensus agrees on one chain (`SealConsensus` is about
  such agreement); only the heights in `Direct` have a certificate of their own.
- *The state is the sequence of applied frames.* Executing a frame is additive,
  so a frame applied twice or skipped must remain visible. Two states have the
  same prover root when they are the same sequence.
- *Oversized* frames are those over the private execution budget.
- *Faults* (`MaxFaults` of them) are failing writes of a candidate or of a legacy
  record, publications that are not available although they could be, and errors
  of `materialize`.
- A `Rejected` publication needs a header that contradicts the execution of its
  own committee and is left out. A `Busy` attempt and a repeated ingest change nothing.
  `prune_through` has no caller. The frozen era's skipped records are history.
- *The lease* (`Admission`) is a flag that proposals and votes hold.
- The parent root is compared as in the code: with the one `recorded` when the parent was
  executed, and with the live one only where none is recorded (`RootAt`).

`FrameLedger` has three variables, `done`, `canonical` and `announced`, and two
actions: records appear and may be announced, and the next frame is executed. The
refinement mapping is `done <- cursor`, `canonical <- Canonical`. It promises no
progress: an archive that stopped inside a frame stays there (`UnfinishedStops`).

`ArchiveReconcile` adds the reconcile: started when a mismatch has been flagged, by
the materializer or by a refused vote (`ForkFlagged`), pinned to the header of
the latest frame, and ended by moving the cursor.

### ProverLifecycle

**State.** `prover` (status byte and kicked flag), `alloc[f]` (the allocation slot
on filter f), `linked` (the hyperedge), `roots[f]` (leaf-root registrations),
`grid` and `pending` (shards and the set of pending changes), `pass` (the stage of the
frame's pass over the changes that are due), `enumerated` (committed
slots a change would move), `frame`. Of the frames a slot stores, only the join's is
compared with a frame; of the others the epoch is kept.

**Actions.** `Join`, `ConfirmStorage` (ConfirmJoins and ReconfirmEpoch),
`ConfirmLeaves`, `Reject`, `Leave`, `Pause`, `Resume`, `Kick`; `ProposeChange`; the
pass, which runs at any point between the messages of a frame: `BeginPass` (the
gate), `Reassign` for each change it lets through, then `Flip` for each of them, and
`EndPass`; and `EndFrame`. `ProposeChange` compares a proposal neither with the grid nor
with what is pending, as `invoke_shard_split` and `invoke_shard_merge` do not; any
number of changes may be pending, also changes that build on one another. `Refresh` is the part common to
the operations, `refresh_prover_status`: link changed slots, compute the
aggregate status.

**Abstractions.**
- *One prover.* Operations of different provers write different records. The one
  check that reads others, the halt-risk gate on confirming a leave, only
  refuses: a refused confirm is a step that does not happen.
- *One operation per bundle*, as the prover's client builds them. Its decisions
  (one per filter and epoch, roots with every confirm but a leave's) are followed.
- *Signed and executed frames differ*: a confirm is signed at any earlier frame and
  its roots encode the epoch of that frame.
- *Each operation is validated against the records before it*, those written earlier in the
  frame included: the materializer validates a frame's bundles one after the other
  "against the mid-loop CRDT state" (`frame_materializer.rs:920-922`). Only operations
  inside one bundle are validated together (section 5).
- A change becomes due two epochs after its proposal. Which of the due changes the gate
  lets through, keeps waiting or drops is any choice here, except that a stale split
  is let through; `GlobalHandoff` models the gate. Which of a split's children a slot goes
  to is a choice too, and so is the order of the changes within a stage.
- `moved` and `hops` are history fields of a slot: the effective epoch of the change
  that moved it since its last confirm (`Chained` if there was more than one), and how many
  changes have moved it since its join.
- Signatures, proofs, seniority, rewards, merge targets, eviction and the audit
  itself are left out.

### RecoveryTurns

`free`, `bypassed` and `waiters` are the fields of `TurnQueue`; `worker[w]` is
where an attempt is: *waiting* (a `Queued` in the queue), *granted* (the turn is
in its channel), *holding* (a `Turn`), *passing* (dropped with the turn in its
channel, `release` not yet called). Each action is one critical section of the
mutex. `blocked` holds the successor-blocked flags, which engines write at any
time. `ahead` and `overtaken` are history variables. The saturation log is left
out: it decides nothing.

## 3. Runs

| Run | Instance | Question |
|---|---|---|
| `membership` | one shard, two provers, two digests, four generations, eight frames | ends, frame numbers and tips through successive committees |
| `topology` | P, A, B; two proposals, seven frames; committees that never seal are included | successors, ranges, the grid, the deadline of a change and the end of closing sessions under splits, merges and membership changes |
| `turns` | four workers, one turn, PRIORITY_RUN 1 | no turn lost, none idle, bounded overtaking, waiters served |
| `execution` | four builds; four frames, one without a certificate, one oversized; queue of one, window 2, two attempts; a crash and two faults | cursor, marker and receipt; what an unfinished execution stops; the refinement of the ledger |
| `lifecycle` | p, a, b, q, r; epochs of two frames, eight frames, five operations and proposals | kicks, statuses, notice periods, registrations |
| `seal` | two correct members, alternate leaders, three views, two drain frames | agreement, seals and tips while a session closes |
| `equivocation` | four members, the faulty one leads two views | the same with a leader that sends different proposals |
| `vacant_overlap`, `unstaffed_target`, `stale_merge`, `nested_split`, `reconcile` | see section 5 | statements in the code that the code does not keep |

*Bounds.* An epoch is two frames and a session pass runs on every frame, so
that within eight frames a membership request can be made, time out, be fenced and
be followed by another, on both sides of the frames that change the timeouts.
`MaxDrain` is 2 in `membership` with frames up to 3: full, partial and
overlapping drains all occur. Two digests let two conflicting headers exist at
every frame number. In `topology` a split and a merge of the same range meet in
the same pass, with each shard staffed, vacant, closing or closed, and the seven
frames let a second change be proposed, scheduled, fenced and applied after the first. Its
sessions execute no application frames (`MaxAppFrame` 0: they are what `membership` is
about), so there a session ends at its base, and its fences keep the committee of the request
(`FencedEligibilityFrame` lies beyond the run). Four
generations allow a successor of a successor of a fenced session. In `seal` three views allow a data frame, its seal and a re-seal, or a nullified
view between them, with draining and private execution of one or two frames; in
`equivocation` the faulty leader can have one view finalized and another
nullified, with DRAIN_FRAMES 0 so that seals compete with data from the first
view on. The proofs cover any number of views. In `execution` frame 3 is final only
through frame 4, frame 2 cannot be executed privately, the queue of one evicts
whenever two finalizations wait, and the window of two separates heights that are
admitted from heights that are recorded at once; one crash and two faults at any step,
in any order, reach every combination of marker, commit and receipt and a legacy
record that cannot be written at the last attempt, and
restarts of a halted node come on top. The proofs cover any number. In
`lifecycle` the frames are the epochs one to four: a join, its confirm, a renewal and
changes with their two epochs of notice fit, and a leave with its confirm. The
merge of p and q into r can chain onto the merge of a and b into p; q itself is never
registered, which no proposal checks. Three registration slots are the code's. At `MaxFrame` the instance only stutters (`Bounded`). `MaxView`, `MaxGeneration`,
`MaxFrame`, `MaxAppFrame` and `MaxProposals` are bounds of the model; the code has
none but integer width. Provers and voters are interchangeable, which the
symmetric runs use; the runs with liveness properties use no symmetry.

*Fairness.* `FairSpec` of GlobalHandoff assumes weak fairness of the
maintenance pass and of the next frame only: GLOBAL keeps executing frames, and
the pass runs in each (`frame_materializer.rs` calls it after the messages of
every frame). Nothing is assumed of committees, proposers or provers. `FairSpec`
of RecoveryTurns assumes that a granted worker is polled, that a drop runs to its
end, and that an attempt with a turn ends: an attempt makes a bounded number of
archive requests and each has a timeout (`quil-rpc/src/archive_client.rs`).
Arrival, blocking and dropping of attempts are not assumed fair. `GlobalExecution` states no
fairness: whether an archive that met an error executes another frame depends on an
operator and on the recovery that its build may lack, so there is no progress to
promise.

*What the runs show.* `TerminalIsExecutedTip`, `FramesNeverReused`: a session
ends at the last frame GLOBAL executed of it, whichever frames of it were executed, and
its successor continues from there. `HistoryImmutable`: late seals, second fences and old headers change
nothing. `ActivationNeverRefused`: the reservations suffice, so a request cannot
get stuck. `FencedSuccessorKeepsTurn`: reading eligibility at the fence prevents
the immediate closing that its comment describes. `SuccessorFollowsSources`,
`LiveRangesDisjoint`, `GridPrefixFree`: for the split and the merge of one parent, one
authority per address apart from ranges declared vacant. Neither holds of arbitrary
changes: `nested_split` and `stale_merge` violate them (section 5). `ClosingEnds`, `ChangeAppliesInTime`:
progress without the committees, at a known deadline. `SingleHistory`,
`SealEndsSession`: a session's finalized history ends with its first finalized
seal, also through re-seals. `SealedCheckpointCertified`: sealing only committed
parents, as the code does since eight sessions had to be fenced, is enough for
GLOBAL to find a certificate of every sealed checkpoint. `TipsAgree`: private
execution and implied ancestors do not make members diverge.

`CursorIsFrontier`, `NoFrameSkipped`: wherever the process stops, each frame up to
the cursor is in the state once and none above it is, apart from a failed attempt
that another commit flushed (`ForeignCommit`): such a frame is applied again after
a recovery. `MarkerResolvable`: the recovery's refusal of a marker that fits no
cursor cannot happen. `ReceiptCurrent`: no receipt describes a state that is gone.
`ImplementsLedger`: frames are executed one at a time and in
order, announced only when canonical, never taken back, with evictions, the legacy
path, implied finalizations, faults and crashes. `UnfinishedStops`: without the
recovery, an execution that failed or died between its marker and its receipt is
the last thing that archive does, restarts included (section 5).

`KickedHoldsNothing`, `LeftProverHoldsNothing`: hyperedge and aggregate status never
lose sight of a live slot. `NoticeServed`: a leaver is out exactly two epochs after
its proposal. `EpochClaimHeld`: an epoch a slot claims is one it has registered roots made for,
also when the confirm executes after it was signed and after one change has moved the
slot. `FreshMemberRegistered`: the pre-registration for a pending change reaches the shard
a new member is moved to. Both are about slots moved once: a second change before the next
confirm leaves a member without roots (section 5).
`AuditRootsKept`: three slots are enough for audits anchored in the previous epoch.

## 4. Proofs

`GlobalHandoffProofs` proves `TypeCorrect`, `EndsAtExecutedTip`, `NoFrameReuse`
and `ActivationSucceeds`, for any filters, covers, changes, provers, digests,
epoch lengths, timeouts and bounds, from the three assumptions on the constants
in `GlobalHandoff` (numbers are numbers, filters are prefixes and changes name
filters, sentinels differ from values).

None of these invariants is inductive alone. The invariant `RecordInv` adds
- `HeadInv`: the sessions of a filter are exactly the generations up to its
  head;
- `AbsentInv`: a session that does not exist has no seal, fence or tip;
- `ClosedInv`: a closed session has an end, and every generation below the head
  is closed;
- `TipInv`: a tip lies above the base of its session;
- `RequestInv`: the sources of a request that has not activated are closing for
  it and its targets are reserved by it, the sources of an activated one are
  closed, and every closing session is a source of the request it closes for.

`RequestInv` is the heart. A target could move only through a first session
(excluded by the reservation), through another request with the same target
(which needs the target's head to be closed, or to be its own source), or
through its own activation. With it, `EndSource` knows every target's head, so a
successor's base is its predecessor's end (`NoFrameReuse`) and activation is
never refused. `EndsAtExecutedTip` needs `HeaderVerifies`: once an end is recorded
only headers at or below it execute, so the tip cannot leave it.
Each group of actions has a lemma (`TipStep`, `InitializeStep`, `ScheduleStep`,
`EndSourceStep`, `SealStep`, `FenceStep`, ...) with one step per conjunct it can
disturb.

`HandoffHistoryProofs` continues it, from the same assumptions:
- `SuccessorsFollow`: a successor exists only when all sessions its request named
  have closed at a recorded end. A session names its request, so the invariant
  says that such a request has activated (`OriginInv`); `RequestInv` then gives the
  rest.
- `HistoryNeverRewritten`: no step changes an authorized session, a recorded end, a
  closed status or moves a tip back. A late seal and a second fence are refused
  because only a closing session without an end takes one, and activation writes
  only sessions that do not exist yet, which is `HeadInv` again.
- `FencedSuccessorsKeepTurn`: the reconciliation of a pass leaves alone what the
  fence of that pass authorized. The invariant `TurnInv` says of every shard fenced in
  this pass that no request awaits it and that, if it has a new session, the
  pass has read no member there or exactly the new session's members. It needs
  `ShapeInv`, that a request renews one shard or hands over to shards other
  than those it closes, and `EndInv`, that a waiting request has a source without an
  end: else one fence could activate a request of a shard fenced before it.

`HandoffTopologyProofs` and `HandoffFamilyProofs` are about splits and merges of a prefix
tree (`ShardTree`: the first grid does not overlap, and a change replaces shards by
others of the same range). Section 5 shows that the grid and the ranges go wrong when
changes reach into one another, which no code prevents. The theorems are therefore about
`Families`, a condition on the constants alone: any two changes go the same way, undo one
another or have no address in common, a split has several children, and the first grid has one
side of every family. It says nothing of what a pass meets: any number of families,
children and proposals, in every order, late and repeated, with seals, fences, drops and
membership changes between them.
- `GridStaysPrefixFree`: the grid stays prefix-free.
- `LiveRangesStayDisjoint`: no two live sessions overlap, ranges declared vacant apart.
- `ChangesApplyInTime`: a scheduled change is off the pending list after the pass that
  can fence its last source.

The first module has the lemmas that hold for any changes. `PlanInv`: a request belongs to the
reconciliation or to one change, closes or declares vacant exactly what the change replaces, and
the change is pending until it has activated. `LastInv`: a source of a pending change remains
its shard's last session. `KeptPlaceInv`: the shard of a live session is registered,
or about to be by an activated change that is still pending. Two live sessions then lie on
two shards of the grid before or after a flip. `TimeInv` bounds the delay: a request that has not
activated has seen no session pass from its due frame on, and one that has is let
through by the next gate. These need that changes are applied to, and wait on, the grid
that their gate has seen.

The second module proves that for families instead of assuming it. `FamilyInv` adds
- `SideInv`: the grid has one side of every family, all of it;
- `WaitInv`: a scheduled change has its old shards in the grid, or a change that
  undoes it the other way has activated and registers them in this pass;
- `FlipInv`: what the gate knew of a change it let through stays true until its flip,
  because two changes of one direction cannot both be scheduled (`SameWay`);
- `StuckInv`: a live session whose shard has left the grid (it was declared vacant) has a
  sibling that is closed, so no change of that family is scheduled again;
- `TargetInv` and `VacantOnce`: a request names all new shards, and what one pending
  change declared vacant is a source of no other.

`RecoveryTurnsProofs` proves `NoTurnLost`, `NoTurnIdle`, `GrantsAreHeard` and
`BoundedOvertaking` for any finite set of workers, any number of turns and any
PRIORITY_RUN. The bound follows from `DelayInv`: for the waiter at position i,
the turns it has seen pass plus PRIORITY_RUN + 1 for each worker still in front of
it is at most PRIORITY_RUN + 1 for each worker that was in front of it, plus the current
run. A grant to the head shifts everybody by one position and resets the run; a
grant past the head lengthens the run by one.

`SealConsensusProofs` proves `TypeCorrect`, `OneHistory`, `SealIsTerminal`,
`SealsCertified` and `TipsConverge` for any committee, faulty members, quorums that
pairwise share a correct member, leaders, number of views, drain length and bound on
private execution. `SealConsensusInv` avoids an induction over views by saying
of each block what holds below it: every lower view is nullified or holds a
certified block that it stands on (`PathInv`), and its chain lists certified frames
with their own histories (`ChainInv`). A block inherits both from its parent, and
nullifications and certificates are never withdrawn (`Growth`). With
`OneBlockPerView` and `FinalNotNullified`, two quorum intersections, whatever stands
above a finalized block stands on it (`AboveFinal`), which gives the first
two results. `SealInv` gives the third: when the first vote for a seal is cast, the committed tip
below it is final on its own, or the committee has already passed the view, and
then a quorum can no longer vote for the seal (`Dead`), so it is never
notarized. `TipInv` keeps every tip certified and below a finalized block.

`GlobalExecutionProofs` proves `TypeCorrect`, `CursorTellsTruth`, `NothingSkipped`,
`MarkersResolve`, `ReceiptTellsTruth`, `TailIsBounded`, `MarkerStopsForGood` and the
refinement `LedgerImplemented`, for any chain, set of certified frames, limits, number of
crashes and faults, and for all builds. `TailIsBounded` bounds what a restart of a build
with the pipeline reloads (without it there is no such tail). `ExecutionInv` rests on `JobInv`, which ties the worker's
stage, the marker and the cursor together: without a marker a running worker
stands at the cursor; a begun job has its marker one above the cursor, a
committed one at it; staged mutations lie under a marker one above the cursor while no job
runs. So every commit applies the frame after the cursor, and an unrelated commit
can only flush that frame. A height's counted failures pass `max_attempts` when the
legacy record cannot be written; `AttemptInv` says that a height which has used up its
attempts, one more for each fault, has its record, hence is not attempted again.
`FlushedInv` completes `NothingSkipped`. Counting how often a frame is in the state needs
`CountAppend`. For the refinement, `CursorSteps` shows that the cursor moves by one with the
record written or present, and `ClockGrows` that nothing is withdrawn.

`ProverLifecycleProofs` proves `TypeCorrect`, `KickIsComplete`, `LeftIsTrue`,
`NoticeIsServed`, `FreshIsRegistered`, `EpochClaimsHold` and the action property
`AuditRootsAreKept`, for any filters, changes, epoch length, rejoin window and at least three
registration slots, and whatever changes are pending together. `LifecycleInv` adds
- `PassInv`: a pass works on pending changes that are due;
- `LinkInv`: the hyperedge links every live slot, which a kick relies on;
- `NoticeInv`: a leave is confirmed in the epoch after its proposal, or not at all;
- `RootInv`: nobody registers beyond the next epoch, or twice for one, so three
  slots hold everything from the previous epoch on (`UpsertKeeps`);
- `FreshInv`: until its first epoch is over, a member moved at most once is registered
  for that epoch;
- `ChangeInv`: a pending change is due no earlier than the first epoch of any
  member on its sources that has not been moved, and if it is due in that very epoch, the
  member is registered on every result of the change.

`ChangeInv` is the heart: it holds because a change is due two epochs after its
proposal, joins onto its shards are refused meanwhile, and a join is confirmed in the
epoch after it, which registers for the results of every change due next. A member that was
moved is on a shard it did not join, where another change may be due at once; this is
where the second hop escapes.

`EpochClaimsHold` says that the epoch a slot claims is registered on its shard, for slots
moved at most once since their last confirm. `ClaimInv` adds that no claim reaches past the next
epoch, and that a member that has confirmed for the epoch a pending change is due in is
registered, with roots made for that epoch, on every result of the change
(`ChangeClaims`). A confirm on a shard registers for the next epoch only, so it pushes out nothing
another slot's claim rests on.

Only model-checked: liveness under fairness (`ClosingEnds`, `WaitersServed`), which is
outside the prover's reach. Every other property of a passing run has a theorem, three of
them under the condition `Families` on the changes.

## 5. Where the code and its comments disagree

1. **Vacant ranges** (`vacant_overlap`). `schedule_with_vacant` says that "the caller vouches
   that each has no session" (`handoff.rs:979-981`) and checks it when the request is made. Before the
   request activates, `reconcile_membership` may give the range a first session,
   and activation does not look again: two live sessions cover the same
   addresses, and the shard has left the grid, so it is never fenced.
2. **Targets without members** (`unstaffed_target`). `Request::targets` promises
   an ordinary first session once provers are eligible. If the shard had a
   session in an earlier life, its head is Closed and reconciliation skips it on
   every pass.
3. **Stale merges** (`stale_merge`). A split whose parent has left the grid is
   skipped, so that shards do not overlap. A merge has no such check: when one of
   its children has been split, the parent is registered beside the grandchildren.

4. **Nested splits** (`nested_split`). The sources of a change "must seal their final
   checkpoint first" (`intrinsic.rs:3439`), and a stale split passes the gate because "the
   grid step below only consumes its record" (`intrinsic.rs:3428`). The gate compares with the
   grid before the flips, the grid step with a set that earlier splits of the same pass
   extend (`intrinsic.rs:3584`), and a proposal does not check that its parent is
   registered. When a split of P is applied and a split of its child A is due with it, A is
   not registered at the gate but is at its own flip: A leaves the grid while the
   session it has just received is live, and its children receive sessions beside it.

5. **Reconcile** (`reconcile`). After pulling the prover tree, archive sync moves the
   cursor to the latest frame and says that only re-derivation of committed state
   is skipped. The pull is pinned to the root in that frame's header, which is the
   root *before* it: the latest frame is marked executed and never is. In the run a
   refused vote flags the mismatch, through the hook the engine offers
   (`on_prover_fork`; quil-node's bridge does not pass one yet); the materializer's own
   check sets the same flag.

Met while modelling and proving, and not the subject of a violation run:
- Restarts. `frame_materializer.rs:1065` says that "a restart re-materializes this frame
  cleanly", and the worker (`archive_sync.rs:2153`) that it does so "from the durable cursor".
  An attempt that failed after setting its marker leaves it, `materialize` refuses while
  one is set, and nothing outside tests calls `recover_unfinished_execution`:
  `UnfinishedStops`, checked by `execution` and proved, says that such an archive executes no
  further frame, however often it is restarted.
- Chained changes. `pre_registration_targets` (`leaf_root_registration.rs:311-339`) is said
  to let a member hold "a registration for the shard it is on when the change applies". It
  looks one change ahead: when a and b are merged into p, and p and q into r, in one epoch,
  the member of a is moved to r and has registered nothing there.
- quil-node's bridge calls `activate_global_consensus_cw` without the pipeline,
  the parent executor and the fork hook that the function takes
  (`cw_consensus_bridge.rs:172-189`, `cw_global_seams.rs:927-958`): the node has not
  followed the engine yet.
- `all_on_filter` is said to leave out retired and kicked slots. A rejected join
  (byte 4) is moved by a merge like a live slot, and when its child comes last
  it overwrites the live allocation moved before it; a lapsed leave likewise. The
  move does not refresh the prover's status.
- `verify.rs` says a confirm can only take effect at the next boundary. A lapsed
  member's renewal takes effect at once, without roots for the current epoch; a member
  that proposes to leave counts as eligible at once even if it was not; and a rejoin after the
  rejoin window resets an active allocation. This is why `FreshMemberRegistered`
  is about the first epoch and `EpochClaimHeld` about the epoch claimed, and neither
  about every epoch of every eligible member.
- A change that is applied late, after a member has renewed beyond its effective epoch,
  moves the member to a shard where it has no registration, and a second confirm is
  refused because the epoch is already ahead.
- The halt-risk gate refuses the confirm of a leave, but an unconfirmed leave
  lapses at the same boundary as a confirmed one.
- A bundle that confirms and then rejects the same leave keeps the leave confirm, since
  a bundle is validated as a whole; the client does not build such bundles. In two
  bundles of one frame the reject is validated after the confirm was executed, and refused.
- Comments speak of two registration slots; the code keeps three.

## 6. Not modelled, and the plan

In order of importance:

1. An abstract specification of authority (an address has one owner at a time and
   its frames a single history) that `GlobalHandoff` implements.
2. Liveness of `SealConsensus`: with correct leaders and delivered messages a
   closing session drains and finalizes a seal; today only safety is covered.
3. `AppHandoff`: the application side, composed with `GlobalHandoff`: a worker
   runs only sessions GLOBAL has authorized and stops certifying when it has
   sealed; private branches racing the materializer.
4. Prover operations of several provers, for what the halt-risk gate and the
   empty-committee floor promise about a committee's size.

Not modelled: the host supervisor (one task joined before the next opens the
journal) and the nullify receiver (a cache whose losses are the late or unheard
certificates of `SealConsensus`) guard state inside the vendored engine. Out of
reach: certificates and proofs (cryptography), the division of provers by
seniority, libp2p and storage engines; the savepoints by which a failed operation
leaves no write are taken as given.
