-------------------------- MODULE GlobalExecution --------------------------
(***************************************************************************)
(* How one archive turns finalized GLOBAL frames into execution state:     *)
(* the consensus finalizer (cw_global_seams.rs), the finalization pipeline *)
(* (global_finalization.rs), the atomic publication and the in-place       *)
(* materializer (frame_materializer*.rs) with its unfinished-execution     *)
(* marker, receipt and cursor, and what a process finds at startup.        *)
(*                                                                         *)
(* quil-node builds an archive without the pipeline: finalized and fetched *)
(* frames are canonical at once, and the worker runs the in-place          *)
(* materializer on them.  The pipeline, the atomic publication and         *)
(* recover_unfinished_execution are the engine's; so far only its tests    *)
(* call them.  `build' says which of them the process has.                 *)
(*                                                                         *)
(* Consensus agrees on one chain of frames 1..N; a frame is its height.    *)
(* Only the heights in Direct carry a finalization certificate, the others *)
(* are final because a certified descendant is.  Executing a frame is      *)
(* additive (rewards), so the execution state is the sequence of frames    *)
(* applied to it: a frame applied twice or skipped stays visible, and two  *)
(* states have the same prover root when they are the same sequence.       *)
(***************************************************************************)
EXTENDS Naturals, Sequences, FiniteSets

CONSTANTS
  N,                \* length of the agreed chain
  Direct,           \* heights finalized by a certificate of their own
  Oversized,        \* heights over the private execution budget
  MaxQueued,        \* GlobalFinalizationLimits.max_queued
  MaxAttempts,      \* GlobalFinalizationLimits.max_attempts
  MaxAhead,         \* GlobalFinalizationLimits.max_ahead
  CheckMargin,      \* PROVER_ROOT_CHECK_MARGIN
  Pipelines,        \* builds to consider: with the pipeline, without it
  Recoveries,       \* builds to consider: recover_unfinished_execution called or not
  MaxCrashes,       \* bound: crashes at an arbitrary step
  MaxFaults         \* bound: storage conflicts and execution errors

ASSUME ChainAssumption ==
  /\ N \in Nat \ {0}
  /\ Direct \subseteq 1..N /\ N \in Direct
  /\ Oversized \subseteq 1..N

ASSUME LimitAssumption ==
  /\ MaxQueued \in Nat \ {0} /\ MaxAttempts \in Nat \ {0} /\ MaxAhead \in Nat \ {0}
  /\ CheckMargin \in Nat /\ MaxCrashes \in Nat /\ MaxFaults \in Nat
  /\ Pipelines \subseteq BOOLEAN /\ Recoveries \subseteq BOOLEAN

VARIABLES
  build,      \* what the process is built with, fixed
  \* durable
  canon,      \* canonical clock record at each height: none, plain, certified
  cand,       \* candidate at each height: none, plain, certified
  cursor,     \* the materialized cursor
  state,      \* the frames applied to the execution state, in order
  receipt,    \* the completed checkpoint: its frame and state
  pending,    \* the frame of the unfinished-execution marker, 0 for none
  \* lost with the process
  up,         \* the process runs
  queue,      \* heights queued in the pipeline
  attempts,   \* counted failures at one height
  lease,      \* a proposal or vote holds the execution lease
  job,        \* what the materializer worker is in the middle of
  staged,     \* frame whose mutations a failed attempt left in memory, or 0
  last,       \* last_materialized_frame
  gaps,       \* heights the startup scan found missing below the head
  recorded,   \* prover_root_by_frame: the last root recorded, with its frame
  mismatch,   \* prover_root_mismatch
  \* history
  announced,  \* heights advertised and gossiped
  flushed,    \* frames whose staged mutations another commit published
  crashes, faults

clock    == <<canon, cand>>
execution == <<cursor, state, receipt, pending>>
pipeline == <<queue, attempts>>
history  == <<announced, flushed, crashes, faults>>
roots    == <<recorded, mismatch>>
vars == <<build, clock, execution, pipeline, up, lease, job, staged, last, gaps, roots, history>>

Frames == 1..N
Kinds  == {"none", "plain", "certified"}
Idle   == [frame |-> 0, stage |-> "idle"]
Exited == [frame |-> 0, stage |-> "exited"]   \* the worker's task has ended
Unrecorded == [frame |-> 0, state |-> << >>]
Stages == {"begun", "committed", "settle", "announce"}

Init ==
  /\ build \in [pipeline : Pipelines, recovery : Recoveries]
  /\ canon = [h \in Frames |-> "none"] /\ cand = [h \in Frames |-> "none"]
  /\ cursor = 0 /\ state = << >> /\ pending = 0
  /\ receipt = [frame |-> 0, state |-> << >>]
  /\ up = TRUE /\ queue = {} /\ attempts = [frame |-> 0, count |-> 0]
  /\ lease = FALSE /\ job = Idle /\ staged = 0 /\ last = 0 /\ gaps = {}
  /\ recorded = Unrecorded /\ mismatch = FALSE
  /\ announced = {} /\ flushed = {} /\ crashes = 0 /\ faults = 0

----------------------------------------------------------------------------
(* The chain, the clock and the state                                      *)

Canonical == {h \in Frames : canon[h] # "none"}

\* The canonical head is below h.
HeadBelow(h) == \A g \in Canonical : g < h

\* GlobalFinalizationPipeline::admits
Admits(h) ==
  /\ HeadBelow(h)
  /\ h <= MaxAhead \/ \E g \in Canonical : h - g <= MaxAhead

\* The state every node has after executing the frames through k.
Through(k) == [i \in 1..k |-> i]

\* The prover root declared by the header of frame h is that of its parent.
MatchesParentOf(h) == state = Through(h - 1)

\* A frame and the uncertified ancestors only it finalizes.
Chain(top) == {h \in 1..top : h..(top - 1) \cap Direct = {}}

Record(h) == IF h \in Direct THEN "certified" ELSE "plain"

\* put_global_clock_frame_candidate keeps a stored certificate.
WithCandidate(h, kind) ==
  IF cand[h] = "certified" THEN cand ELSE [cand EXCEPT ![h] = kind]

----------------------------------------------------------------------------
(* The queue                                                               *)

\* GlobalFinalizationPipeline::offer: a full queue keeps the lowest heights.
Offer(h) ==
  LET all == queue \cup {h} IN
  IF Cardinality(all) <= MaxQueued THEN all
  ELSE {g \in all : \E k \in all : g < k}

----------------------------------------------------------------------------
(* Consensus and sync                                                      *)

\* GlobalSeamFinalizer::on_notarized
OnNotarized(h) ==
  /\ up /\ cand[h] = "none"
  /\ cand' = WithCandidate(h, "plain")
  /\ UNCHANGED <<build, canon, execution, pipeline, up, lease, job, staged, last, gaps,
                 roots, history>>

\* A mutant: the frame is announced when it is queued.
OnFinalizedAdmittedLoud(h) ==
  /\ up /\ build.pipeline /\ h \in Direct /\ Admits(h)
  /\ queue' = Offer(h) /\ announced' = announced \cup {h}
  /\ cand' = WithCandidate(h, "certified")
  /\ UNCHANGED <<build, canon, execution, attempts, up, lease, job, staged, last, gaps,
                 roots, flushed, crashes, faults>>

\* GlobalSeamFinalizer::on_finalized with a pipeline, inside the admission
\* window.  The frame is queued even when the candidate cannot be written.
OnFinalizedAdmitted(h) ==
  /\ up /\ build.pipeline /\ h \in Direct /\ Admits(h)
  /\ queue' = Offer(h)
  /\ \/ cand' = WithCandidate(h, "certified") /\ UNCHANGED faults
     \/ faults < MaxFaults /\ faults' = faults + 1 /\ UNCHANGED cand
  /\ UNCHANGED <<build, canon, execution, attempts, up, lease, job, staged, last, gaps,
                 roots, announced, flushed, crashes>>

\* on_finalized without a pipeline, beyond its window, or below the canonical
\* head: the record is written at once and announced.  A record already there
\* is left alone, and one that cannot be written is not announced.
OnFinalizedDirectly(h) ==
  /\ up /\ h \in Direct /\ canon[h] = "none"
  /\ build.pipeline => ~Admits(h)
  /\ canon' = [canon EXCEPT ![h] = "certified"]
  /\ announced' = announced \cup {h}
  /\ UNCHANGED <<build, cand, execution, pipeline, up, lease, job, staged, last, gaps,
                 roots, flushed, crashes, faults>>

\* The frames a peer serves up to the certified frame top: those of its chain
\* that are still missing.
Served(top) == {h \in Chain(top) : \A g \in h..top : canon[g] = "none"}

Stored(top) == [h \in Frames |-> IF h \in Served(top) THEN Record(h) ELSE canon[h]]

\* The candidates offer_synced_chain has written when it is through with S.
Kept(top, S) ==
  [h \in Frames |-> IF h = top /\ top \in S THEN "certified"
                    ELSE IF h \in S /\ cand[h] = "none" THEN "plain" ELSE cand[h]]

\* The poller fetches above the head.  offer_synced_chain keeps the frames as
\* candidates and queues the top; refused, or at a candidate it cannot write,
\* the caller stores them canonically, as it does without a pipeline.
Sync(top) ==
  /\ up /\ top \in Direct /\ HeadBelow(top)
  /\ IF build.pipeline /\ \A h \in Served(top) : Admits(h)
     THEN \/ /\ cand' = Kept(top, Served(top)) /\ queue' = Offer(top)
             /\ UNCHANGED <<canon, faults>>
          \/ /\ faults < MaxFaults /\ faults' = faults + 1
             /\ \E k \in Served(top) : cand' = Kept(top, {h \in Served(top) : h < k})
             /\ canon' = Stored(top) /\ UNCHANGED queue
     ELSE canon' = Stored(top) /\ UNCHANGED <<cand, queue, faults>>
  /\ UNCHANGED <<build, execution, attempts, up, lease, job, staged, last, gaps, roots,
                 announced, flushed, crashes>>

\* run_record_only_backfill for one height the startup scan found: the local
\* candidate is promoted, or the frame is fetched from a peer.
Backfill(h) ==
  /\ up /\ h \in gaps
  /\ gaps' = gaps \ {h}
  /\ canon' = [canon EXCEPT ![h] =
                 IF @ # "none" THEN @ ELSE IF cand[h] # "none" THEN cand[h] ELSE Record(h)]
  /\ UNCHANGED <<build, cand, execution, pipeline, up, lease, job, staged, last, roots,
                 history>>

\* propose and verify execute the parent privately under the single lease.
TakeLease ==
  /\ up /\ build.pipeline /\ ~lease /\ lease' = TRUE
  /\ UNCHANGED <<build, clock, execution, pipeline, up, job, staged, last, gaps, roots,
                 history>>

\* The lease is an Admission, dropped with the proposal or the vote.
DropLease ==
  /\ lease /\ lease' = FALSE
  /\ UNCHANGED <<build, clock, execution, pipeline, up, job, staged, last, gaps, roots,
                 history>>

----------------------------------------------------------------------------
(* The worker at a height without a canonical record: pipeline.step        *)

\* The worker's loop takes the frame after last_materialized_frame; without a
\* record the pass ends.  At startup the gap loop has made the same calls.
Ready(h) == up /\ job = Idle /\ h = last + 1

\* Queued, or reloaded from the candidate store (load_durable).
Held(h) == h \in queue \/ cand[h] = "certified"

\* implied: the lowest certified frame above h, queued or else a durable one
\* inside the window, and candidates all the way down to h.
Finalizers(h) ==
  IF \E q \in queue : q > h THEN {q \in queue : q > h}
  ELSE {d \in Frames : h < d /\ d <= h + MaxAhead /\ cand[d] = "certified"}

Implied(h) ==
  \E d \in Finalizers(h) :
    /\ \A e \in Finalizers(h) : d <= e
    /\ \A g \in h..(d - 1) : cand[g] # "none"

Stepping(h) ==
  /\ Ready(h) /\ build.pipeline /\ h \in Frames /\ canon[h] = "none"
  /\ Held(h) \/ Implied(h)

\* load_durable offers the candidate again.
Loaded(h) == IF h \notin queue /\ cand[h] = "certified" THEN Offer(h) ELSE queue

\* executed_base and publish_finalization.
Publishable(h) ==
  /\ pending = 0 /\ h = cursor + 1 /\ MatchesParentOf(h)
  /\ cursor > 0 => cursor \notin Oversized /\ canon[cursor] = "certified"

LegacyRecord(h) ==
  [canon EXCEPT ![h] = IF Held(h) THEN "certified" ELSE "plain"]

\* GlobalFinalizationPipeline::legacy, after `used' faults: the record is
\* written, or the write fails and the height is tried again.
Legacy(h, used) ==
  \/ canon' = LegacyRecord(h) /\ faults' = used
  \/ used < MaxFaults /\ faults' = used + 1 /\ UNCHANGED canon

\* The clock record is ahead of execution, or the input is over the budget.
StepLegacy(h) ==
  /\ Stepping(h)
  /\ ~HeadBelow(h) \/ h \in Oversized
  /\ Legacy(h, faults)
  /\ queue' = Loaded(h)
  /\ UNCHANGED <<build, cand, execution, attempts, up, lease, job, staged, last, gaps,
                 roots, announced, flushed, crashes>>

Attempting(h) == Stepping(h) /\ HeadBelow(h) /\ h \notin Oversized /\ ~lease

\* attempt_finalization, attempt_implied_finalization: clock record, state,
\* receipt and cursor in one batch.  The private branch's diagnostics, which
\* start clean, are adopted with it.
StepPublish(h) ==
  /\ Attempting(h) /\ Publishable(h)
  /\ canon' = LegacyRecord(h)
  /\ state' = Append(state, h) /\ cursor' = h
  /\ receipt' = [frame |-> h, state |-> state']
  /\ last' = h
  /\ queue' = Loaded(h) \ {h}
  /\ attempts' = [frame |-> 0, count |-> 0]
  /\ job' = [frame |-> h, stage |-> "announce"]
  /\ recorded' = receipt' /\ mismatch' = FALSE
  /\ UNCHANGED <<build, cand, pending, up, lease, staged, gaps, history>>

Failures(h) == IF attempts.frame = h THEN attempts.count + 1 ELSE 1

\* The faults used when an attempt at h fails: none when it could not succeed.
AttemptFaults(h) == faults + IF Publishable(h) THEN 1 ELSE 0

\* A mutant: one attempt too many before the legacy record.
StepUnavailableLate(h) ==
  /\ Attempting(h) /\ AttemptFaults(h) <= MaxFaults
  /\ attempts' = [frame |-> h, count |-> Failures(h)]
  /\ queue' = Loaded(h)
  /\ IF Failures(h) > MaxAttempts THEN Legacy(h, AttemptFaults(h))
     ELSE faults' = AttemptFaults(h) /\ UNCHANGED canon
  /\ UNCHANGED <<build, cand, execution, up, lease, job, staged, last, gaps, roots,
                 announced, flushed, crashes>>

\* Unavailable and retryable: counted, and at the limit the legacy record.
\* A legacy write that fails leaves the count where it is, past the limit.
StepUnavailable(h) ==
  /\ Attempting(h) /\ AttemptFaults(h) <= MaxFaults
  /\ attempts' = [frame |-> h, count |-> Failures(h)]
  /\ queue' = Loaded(h)
  /\ IF Failures(h) >= MaxAttempts THEN Legacy(h, AttemptFaults(h))
     ELSE faults' = AttemptFaults(h) /\ UNCHANGED canon
  /\ UNCHANGED <<build, cand, execution, up, lease, job, staged, last, gaps, roots,
                 announced, flushed, crashes>>

\* The worker's last act for an atomically published frame.
Announce ==
  /\ job.stage = "announce"
  /\ announced' = announced \cup {job.frame}
  /\ job' = Idle
  /\ UNCHANGED <<build, clock, execution, pipeline, up, lease, staged, last, gaps, roots,
                 flushed, crashes, faults>>

----------------------------------------------------------------------------
(* The worker at a height with a canonical record                          *)

Recorded(h) == Ready(h) /\ h \in Frames /\ canon[h] # "none"

\* materialize_canonical_atomically: what its capture and check require.
CanonicalPublishable(h) ==
  pending = 0 /\ h = cursor + 1 /\ MatchesParentOf(h) /\ h \notin Oversized

CanonicalPublish(h) ==
  /\ Recorded(h) /\ build.pipeline /\ CanonicalPublishable(h)
  /\ state' = Append(state, h) /\ cursor' = h
  /\ receipt' = [frame |-> h, state |-> state']
  /\ last' = h
  /\ job' = [frame |-> h, stage |-> "settle"]
  /\ recorded' = receipt' /\ mismatch' = FALSE
  /\ UNCHANGED <<build, clock, pending, pipeline, up, lease, staged, gaps, history>>

\* The parent root a header is compared with: the one recorded when the
\* parent was executed, the live one where none is recorded.
RootAt(k) == IF k # 0 /\ recorded.frame = k THEN recorded.state ELSE state

\* A mutant: materialize does not look for a marker.
MaterializeBeginUnchecked(h) ==
  /\ Recorded(h)
  /\ pending' = h
  /\ job' = [frame |-> h, stage |-> "begun"]
  /\ UNCHANGED <<build, clock, cursor, state, receipt, pipeline, up, lease, staged, last,
                 gaps, roots, history>>

\* materialize, from its entry to the execution of the requests: refused
\* while a marker is set; near the head the parent root is compared.  With
\* the pipeline it follows an atomic publication that was not available.
MaterializeBegin(h) ==
  /\ Recorded(h) /\ pending = 0
  /\ IF build.pipeline /\ CanonicalPublishable(h)
     THEN faults < MaxFaults /\ faults' = faults + 1
     ELSE UNCHANGED faults
  /\ pending' = h
  /\ job' = [frame |-> h, stage |-> "begun"]
  /\ mismatch' = IF HeadBelow(h + CheckMargin + 1) THEN RootAt(h - 1) # Through(h - 1)
                 ELSE mismatch
  /\ UNCHANGED <<build, clock, cursor, state, receipt, pipeline, up, lease, staged, last,
                 gaps, recorded, announced, flushed, crashes>>

\* materialize refused by a marker, or failing before it has set one: the
\* worker's task ends until the process is restarted.
MaterializeRefused(h) ==
  /\ Recorded(h) /\ ~build.pipeline
  /\ IF pending # 0 THEN UNCHANGED faults ELSE faults < MaxFaults /\ faults' = faults + 1
  /\ job' = Exited
  /\ UNCHANGED <<build, clock, execution, pipeline, up, lease, staged, last, gaps, roots,
                 announced, flushed, crashes>>

\* commit_frame_with_global_cursor: state and cursor in one batch.
MaterializeCommit ==
  /\ job.stage = "begun"
  /\ state' = Append(state, job.frame) /\ cursor' = job.frame
  /\ job' = [job EXCEPT !.stage = "committed"]
  /\ UNCHANGED <<build, clock, receipt, pending, pipeline, up, lease, staged, last, gaps,
                 roots, history>>

\* finish_execution_checkpoint, then last_materialized_frame and the root.
MaterializeFinish ==
  /\ job.stage = "committed" /\ pending = job.frame /\ cursor = job.frame
  /\ receipt' = [frame |-> job.frame, state |-> state]
  /\ pending' = 0 /\ last' = job.frame
  /\ recorded' = receipt'
  /\ job' = IF build.pipeline THEN [job EXCEPT !.stage = "settle"] ELSE Idle
  /\ UNCHANGED <<build, clock, cursor, state, pipeline, up, lease, staged, gaps, mismatch,
                 history>>

\* The worker ends with an error; the gap loop at startup ends without it,
\* and so does a pass of the pipeline.
AfterFailure == {Idle} \cup IF build.pipeline THEN {} ELSE {Exited}

\* A mutant: the error path cleans up the marker.
MaterializeFailUnmarks ==
  /\ job.stage \in {"begun", "committed"} /\ faults < MaxFaults /\ faults' = faults + 1
  /\ staged' \in IF job.stage = "begun" THEN {0, job.frame} ELSE {0}
  /\ job' \in AfterFailure /\ pending' = 0
  /\ UNCHANGED <<build, clock, cursor, state, receipt, pipeline, up, lease, last, gaps,
                 roots, announced, flushed, crashes>>

\* An error return keeps the marker, and before the commit also whatever the
\* execution staged.
MaterializeFail ==
  /\ job.stage \in {"begun", "committed"} /\ faults < MaxFaults /\ faults' = faults + 1
  /\ staged' \in IF job.stage = "begun" THEN {0, job.frame} ELSE {0}
  /\ job' \in AfterFailure
  /\ UNCHANGED <<build, clock, execution, pipeline, up, lease, last, gaps, roots,
                 announced, flushed, crashes>>

\* finish_legacy; the frame is announced when it was queued.
Settle ==
  /\ job.stage = "settle"
  /\ announced' = announced \cup ({job.frame} \cap queue)
  /\ queue' = queue \ {job.frame}
  /\ attempts' = IF attempts.frame = job.frame THEN [frame |-> 0, count |-> 0] ELSE attempts
  /\ job' = Idle
  /\ UNCHANGED <<build, clock, execution, up, lease, staged, last, gaps, roots, flushed,
                 crashes, faults>>

\* Any other commit of the hypergraph publishes what a failed attempt staged,
\* without its cursor.
ForeignCommit ==
  /\ up /\ staged # 0
  /\ state' = Append(state, staged)
  /\ flushed' = flushed \cup {staged}
  /\ staged' = 0
  /\ UNCHANGED <<build, clock, cursor, receipt, pending, pipeline, up, lease, job, last,
                 gaps, roots, announced, crashes, faults>>

----------------------------------------------------------------------------
(* Crash and restart                                                       *)

Stop ==
  /\ up /\ up' = FALSE
  /\ queue' = {} /\ attempts' = [frame |-> 0, count |-> 0]
  /\ lease' = FALSE /\ job' = Idle /\ staged' = 0 /\ last' = 0 /\ gaps' = {}
  /\ recorded' = Unrecorded /\ mismatch' = FALSE
  /\ UNCHANGED <<build, clock, execution, announced, flushed, faults>>

Crash == crashes < MaxCrashes /\ crashes' = crashes + 1 /\ Stop

\* The worker's task has ended, an unfinished execution refuses every further
\* one, or a record is missing below the head and the pipeline lacks it too.
Halted ==
  /\ job.frame = 0
  /\ \/ job = Exited \/ pending # 0
     \/ \E h \in Frames \ gaps :
          Ready(h) /\ canon[h] = "none" /\ ~HeadBelow(h) /\ ~Stepping(h)

\* A halted node is restarted.
Restart == Halted /\ UNCHANGED crashes /\ Stop

Resolvable == cursor + 1 = pending \/ cursor = pending

\* A mutant: the receipt is kept whatever the state.
RecoverKeepsReceipt ==
  /\ pending' = IF Resolvable THEN 0 ELSE pending
  /\ UNCHANGED receipt

\* recover_unfinished_execution
Recover ==
  /\ pending' = IF Resolvable THEN 0 ELSE pending
  /\ receipt' = IF pending # 0 /\ Resolvable /\ receipt # [frame |-> cursor, state |-> state]
                THEN [frame |-> 0, state |-> << >>] ELSE receipt

\* Mutants: the marked frame is run again although its batch landed, or taken
\* for done although it did not.
StartupRepeatsMarked ==
  /\ ~up /\ up' = TRUE
  /\ last' = IF pending # 0 THEN pending - 1 ELSE cursor
  /\ gaps' = {h \in Frames : canon[h] = "none" /\ ~HeadBelow(h)}
  /\ IF build.recovery THEN Recover ELSE UNCHANGED <<pending, receipt>>
  /\ recorded' = [frame |-> last', state |-> state]
  /\ UNCHANGED <<build, clock, cursor, state, pipeline, lease, job, staged, mismatch, history>>

StartupTrustsMarked ==
  /\ ~up /\ up' = TRUE
  /\ last' = IF pending # 0 THEN pending ELSE cursor
  /\ gaps' = {h \in Frames : canon[h] = "none" /\ ~HeadBelow(h)}
  /\ IF build.recovery THEN Recover ELSE UNCHANGED <<pending, receipt>>
  /\ recorded' = [frame |-> last', state |-> state]
  /\ UNCHANGED <<build, clock, cursor, state, pipeline, lease, job, staged, mismatch, history>>

\* The cursor is seeded from the durable one, after the recovery if the
\* process runs it, the live root is recorded for it, and the clock is scanned
\* for missing records.  The gap loop that follows is the worker's.
Startup ==
  /\ ~up /\ up' = TRUE
  /\ last' = cursor
  /\ gaps' = {h \in Frames : canon[h] = "none" /\ ~HeadBelow(h)}
  /\ IF build.recovery THEN Recover ELSE UNCHANGED <<pending, receipt>>
  /\ recorded' = [frame |-> last', state |-> state]
  /\ UNCHANGED <<build, clock, cursor, state, pipeline, lease, job, staged, mismatch, history>>

----------------------------------------------------------------------------
Deliver ==
  \E h \in Frames :
    OnNotarized(h) \/ OnFinalizedAdmitted(h) \/ OnFinalizedDirectly(h)
    \/ Sync(h) \/ Backfill(h)

Step ==
  \E h \in Frames : StepLegacy(h) \/ StepPublish(h) \/ StepUnavailable(h)

Materialize ==
  \/ \E h \in Frames : CanonicalPublish(h) \/ MaterializeBegin(h) \/ MaterializeRefused(h)
  \/ MaterializeCommit \/ MaterializeFinish \/ MaterializeFail

Process == Crash \/ Restart \/ Startup

\* The agreed chain of the instance ends (N).
ChainEnds == up /\ last = N /\ UNCHANGED vars

Next ==
  \/ Deliver \/ TakeLease \/ DropLease
  \/ Step \/ Announce
  \/ Materialize \/ Settle \/ ForeignCommit
  \/ Process \/ ChainEnds

Spec == Init /\ [][Next]_vars

----------------------------------------------------------------------------
(* Properties                                                              *)

Checkpoints == [frame : 0..N, state : Seq(Frames)]

\* Types and bounds: the queue holds certified heights only, and a height's
\* counted failures pass the limit by no more than the faults met, since a
\* legacy record that cannot be written leaves the height to be tried again.
TypeOK ==
  /\ build \in [pipeline : Pipelines, recovery : Recoveries]
  /\ canon \in [Frames -> Kinds] /\ cand \in [Frames -> Kinds]
  /\ cursor \in 0..N /\ state \in Seq(Frames)
  /\ receipt \in Checkpoints /\ pending \in 0..N
  /\ up \in BOOLEAN /\ queue \subseteq Direct
  /\ attempts \in [frame : 0..N, count : 0..(MaxAttempts + faults)]
  /\ lease \in BOOLEAN /\ mismatch \in BOOLEAN /\ recorded \in Checkpoints
  /\ job \in {Idle, Exited} \cup [frame : Frames, stage : Stages]
  /\ staged \in 0..N /\ last \in 0..N /\ gaps \subseteq Frames
  /\ announced \subseteq Frames /\ flushed \subseteq Frames
  /\ crashes \in 0..MaxCrashes /\ faults \in 0..MaxFaults

Times(h) == Cardinality({i \in DOMAIN state : state[i] = h})

\* Whatever fails and wherever the process dies, the durable cursor is the
\* frontier of the execution state: every frame through it has been applied
\* and none above it, each exactly once, except a frame whose failed attempt
\* was published by an unrelated commit.
CursorIsFrontier ==
  \A h \in Frames \ flushed : Times(h) = IF h <= cursor THEN 1 ELSE 0

\* No frame through the cursor is missing from the execution state.
NoFrameSkipped == \A h \in 1..cursor : Times(h) >= 1

\* An unfinished-execution marker always names the frame at the cursor or the
\* next one, so that recover_unfinished_execution never finds a cursor it must
\* refuse, and what a failed attempt staged is always covered by a marker.
MarkerResolvable ==
  /\ pending # 0 => Resolvable
  /\ staged # 0 => pending = staged

\* Once no marker is set, the stored receipt is the one of the frame at the
\* cursor and of the state as it is, or there is none: a receipt never outlives
\* the state it describes, also when an unrelated commit published mutations of
\* a failed attempt.
ReceiptCurrent ==
  pending = 0 => receipt.frame = 0 \/ receipt = [frame |-> cursor, state |-> state]

\* The certified frames waiting above the canonical head stay within the
\* admission window, however long the worker stalls: the tail a restart has to
\* restore is bounded.
TailBounded ==
  \A h \in Frames :
    cand[h] = "certified" /\ HeadBelow(h) =>
      h <= MaxAhead \/ \E g \in Canonical : h - g <= MaxAhead

\* Without recover_unfinished_execution, which quil-node does not call, a
\* marker that no running attempt holds is there for good: no later step and
\* no restart executes the marked frame or another one.
UnfinishedStops ==
  [][~build.recovery /\ pending # 0 /\ job.frame # pending
       => UNCHANGED <<pending, cursor>>]_vars

\* The archive implements the ledger: frames are executed one at a time in
\* the order of their heights, only canonical ones are announced, and nothing
\* is taken back by a crash, with the pipeline and without it.
Ledger == INSTANCE FrameLedger WITH
  done <- cursor, canonical <- Canonical, announced <- announced
ImplementsLedger == Ledger!Spec
=============================================================================
