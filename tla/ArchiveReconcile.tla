-------------------------- MODULE ArchiveReconcile --------------------------
(***************************************************************************)
(* The archive's periodic reconcile (quil-node, archive_sync.rs) beside    *)
(* the worker: when the materializer or the vote on a proposal has flagged *)
(* a prover root that differs from a header's, the prover tree is pulled   *)
(* from a peer, pinned to the root the latest frame's header declares, and *)
(* the cursor is moved to the latest frame.                                *)
(***************************************************************************)
EXTENDS GlobalExecution

VARIABLE target     \* the frame whose header pins the pull, 0 for none

reconcileVars == <<vars, target>>

\* The head of the canonical clock.
IsHead(h) == h \in Canonical /\ \A g \in Canonical : g <= h

\* A proposal declares another parent root than the recorded one: the vote is
\* refused and on_prover_fork sets the materializer's flag.
ForkFlagged ==
  /\ up /\ recorded.frame # 0
  /\ mismatch' = TRUE
  /\ UNCHANGED <<build, clock, execution, pipeline, up, lease, job, staged, last, gaps,
                 recorded, history, target>>

\* The pinned root is read from the latest frame.
ReconcileStart(h) ==
  /\ up /\ mismatch /\ target = 0 /\ IsHead(h)
  /\ target' = h
  /\ UNCHANGED vars

\* The pull converged: the state is the one the pinned header declares, that
\* of its parent.  Staged local writes refuse the pull.
ReconcileConverged(h) ==
  /\ up /\ target # 0 /\ staged = 0 /\ job = Idle /\ IsHead(h)
  /\ state' = Through(target - 1)
  /\ mismatch' = FALSE
  /\ cursor' = IF h > last /\ h > cursor THEN h ELSE cursor
  /\ last' = IF h > last THEN h ELSE last
  /\ target' = 0
  /\ UNCHANGED <<build, clock, receipt, pending, pipeline, up, lease, job, staged, gaps,
                 recorded, history>>

ReconcileInit == Init /\ target = 0

ReconcileNext ==
  \/ Next /\ target' = IF up' THEN target ELSE 0
  \/ ForkFlagged
  \/ \E h \in Frames : ReconcileStart(h) \/ ReconcileConverged(h)

ReconcileSpec == ReconcileInit /\ [][ReconcileNext]_reconcileVars
=============================================================================
