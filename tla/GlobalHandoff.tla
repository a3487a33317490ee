--------------------------- MODULE GlobalHandoff ---------------------------
(***************************************************************************)
(* GLOBAL's authorization of application committees: which session may     *)
(* certify the data frames of which shard, and how one session ends and    *)
(* its successors begin when membership changes or a shard is split or     *)
(* merged.                                                                 *)
(*                                                                         *)
(* The state is the set of authenticated records that                      *)
(* quil-execution/src/global_intrinsic/handoff.rs keeps, plus the shard    *)
(* grid and its pending changes.  A session is named by its filter and     *)
(* generation (its hash binds both, and create_session refuses a second    *)
(* session for the pair); a request is named by its own content, as the    *)
(* code names it by its hash.                                              *)
(*                                                                         *)
(* Application committees are not trusted: any certified header and any    *)
(* certified closing checkpoint may be presented at any time, conflicting  *)
(* ones included.  What GLOBAL promises, it promises whatever the          *)
(* committees sign.                                                        *)
(***************************************************************************)
EXTENDS Integers, FiniteSets

CONSTANTS
  Filters,                \* shard filters
  Cover,                  \* Cover[f]: the address range a filter covers
  Changes,                \* the splits and merges that may be proposed
  GenesisGrid,            \* the grid before any change
  Provers,                \* prover keys
  Digests,                \* digests of data frames
  Genesis,                \* digest of a session's authorized genesis
  NoRequest, NoCheckpoint, Unread,
  EpochFrames,            \* epoch_length_frames()
  PassFrames,             \* SESSION_PASS_FRAMES
  EffectiveDelay,         \* epochs from a proposal to its effect
  FenceAfterEpochs, EarlyFenceAfterEpochs, EarlyFenceFrame,
  FencedEligibilityFrame, \* fenced_successor_eligibility_frame()
  MembershipBoundary,     \* policy.membership_boundary_frame
  FirstSessionBoundary,   \* policy.first_session_boundary_frame
  MaxDrain,               \* MAX_DRAIN_HEADERS
  MaxGeneration, MaxFrame, MaxAppFrame, MaxProposals

Generations == 1 .. MaxGeneration
SessionIds  == Filters \X Generations
AppFrames   == 0 .. MaxAppFrame
Checkpoint  == [frame: AppFrames, digest: Digests \cup {Genesis}]
Target      == [filter: Filters, members: SUBSET Provers, generation: Generations]
Request     == [frame: 1 .. MaxFrame, sources: SUBSET SessionIds,
                vacant: SUBSET Filters, targets: SUBSET Target]
Session     == [members: SUBSET Provers, base: AppFrames,
                origin: Request \cup {NoRequest}]
NoSession   == [members |-> {}, base |-> 0, origin |-> NoRequest]
Statuses    == {"absent", "active", "sealing", "closed"}
PendingChange == [change: Changes, effective: Nat, proposed: 1 .. MaxFrame]
Stages      == {"open", "gate", "flip", "fence", "reconcile", "done"}

\* The progress of one maintenance pass.
Pass ==
  [stage:   Stages,
   changes: SUBSET PendingChange,   \* due changes still to gate, or to flip
   ready:   SUBSET PendingChange,   \* changes the gate let through
   live:    SUBSET Filters,         \* the grid the splits are compared with
   filters: SUBSET Filters,         \* shards still to fence, or to reconcile
   fenced:  SUBSET Filters,         \* shards fenced in this pass
   scan:    [Filters -> (SUBSET Provers) \cup {Unread}]]  \* eligibility read

ASSUME ConstantsAssumption ==
  /\ EpochFrames \in Nat \ {0} /\ PassFrames \in Nat \ {0}
  /\ EffectiveDelay \in Nat \ {0} /\ FenceAfterEpochs \in Nat
  /\ EarlyFenceAfterEpochs \in Nat /\ EarlyFenceFrame \in Nat
  /\ FencedEligibilityFrame \in Nat /\ MembershipBoundary \in Nat
  /\ FirstSessionBoundary \in Nat /\ MaxDrain \in Nat
  /\ MaxGeneration \in Nat \ {0} /\ MaxFrame \in Nat \ {0}
  /\ MaxAppFrame \in Nat /\ MaxProposals \in Nat

ASSUME TopologyAssumption ==
  /\ GenesisGrid \subseteq Filters
  /\ DOMAIN Cover = Filters
  \* Filters are prefixes: two ranges are nested or disjoint, none is empty.
  /\ \A f \in Filters : Cover[f] # {}
  /\ \A f, g \in Filters : \/ Cover[f] \subseteq Cover[g] \/ Cover[g] \subseteq Cover[f]
                           \/ Cover[f] \cap Cover[g] = {}
  /\ \A c \in Changes : /\ c.kind \in {"split", "merge"}
                        /\ c.parent \in Filters
                        /\ c.old \subseteq Filters
                        /\ c.new \subseteq Filters
                        /\ c.staffed \subseteq c.new
                        /\ c.kind = "split" => c.old = {c.parent}
                        /\ c.kind = "merge" => c.new = {c.parent}

ASSUME SentinelAssumption ==
  /\ NoRequest \notin Request
  /\ NoCheckpoint \notin Checkpoint
  /\ \A S \in SUBSET Provers : S # Unread
  /\ Genesis \notin Digests

VARIABLES
  \* authenticated GLOBAL records
  head,       \* head[f]: generation of the filter's last session, 0 for none
  session,    \* session[s]: the immutable session, NoSession if not created
  status,     \* status[s]
  closing,    \* closing[s]: the request a sealing or closed session serves
  requests,   \* the requests written
  activated,  \* the requests whose successors are authorized
  seal,       \* seal[s]: the checkpoint of the recorded closing certificate
  fence,      \* fence[s]: the checkpoint GLOBAL fenced the session at
  tip,        \* tip[s]: the highest data frame GLOBAL executed
  reserved,   \* reserved[f]: the last request that named f as a target
  topology,   \* <<pending change, request>>: what a change waits for
  dropped,    \* changes recorded as dropped
  \* local shard records
  grid,       \* the registered shards
  pending,    \* pending splits and merges
  proposals,  \* how many changes were proposed (bounded by MaxProposals)
  \* execution
  frame,      \* the GLOBAL frame being executed
  pass        \* the frame's maintenance pass, walked step by step

records == <<head, session, status, closing, requests, activated, seal, fence,
             tip, reserved, topology, dropped>>
shards  == <<grid, pending, proposals>>
vars    == <<records, shards, frame, pass>>

-----------------------------------------------------------------------------
(* Reading the records. *)

HeadSession(f) == <<f, head[f]>>

\* terminal(): a recorded seal, else a fence.
EndIn(seals, fences, s) ==
  IF seals[s] # NoCheckpoint THEN seals[s] ELSE fences[s]

End(s) == EndIn(seal, fence, s)

\* The last frame executed of s: its tip, or its base when it has none.
Executed(s) ==
  IF tip[s] # NoCheckpoint THEN tip[s]
  ELSE [frame |-> session[s].base, digest |-> Genesis]

\* reserved(): f is a target of a request that has not activated.
Reserved(f) == reserved[f] # NoRequest /\ reserved[f] \notin activated

Epoch(n) == n \div EpochFrames

FirstPassOfEpoch == frame % EpochFrames < PassFrames

FenceDueFrame(r) ==
  r.frame + EpochFrames * (IF r.frame >= EarlyFenceFrame
                           THEN EarlyFenceAfterEpochs ELSE FenceAfterEpochs)

\* The address ranges of two sets of filters are the same, each without overlap.
DisjointCover(S) == \A f, g \in S : f # g => Cover[f] \cap Cover[g] = {}

SameRange(S, T) ==
  /\ DisjointCover(S) /\ DisjointCover(T)
  /\ UNION {Cover[f] : f \in S} = UNION {Cover[f] : f \in T}

-----------------------------------------------------------------------------
(* Initial state: a grid without sessions, nothing proposed. *)

IdlePass(stage) ==
  [stage |-> stage, changes |-> {}, ready |-> {}, live |-> {}, filters |-> {},
   fenced |-> {}, scan |-> [f \in Filters |-> Unread]]

Init ==
  /\ head = [f \in Filters |-> 0]
  /\ session = [s \in SessionIds |-> NoSession]
  /\ status = [s \in SessionIds |-> "absent"]
  /\ closing = [s \in SessionIds |-> NoRequest]
  /\ requests = {} /\ activated = {}
  /\ seal = [s \in SessionIds |-> NoCheckpoint]
  /\ fence = [s \in SessionIds |-> NoCheckpoint]
  /\ tip = [s \in SessionIds |-> NoCheckpoint]
  /\ reserved = [f \in Filters |-> NoRequest]
  /\ topology = {} /\ dropped = {}
  /\ grid = GenesisGrid /\ pending = {} /\ proposals = 0
  /\ frame = 1
  /\ pass = IdlePass("open")

-----------------------------------------------------------------------------
(* Writing the records. *)

\* create_session, set_status and the origin record of one first session.
Initialize(f, members) ==
  /\ head' = [head EXCEPT ![f] = 1]
  /\ session' = [session EXCEPT ![<<f, 1>>] =
                   [members |-> members, base |-> 0, origin |-> NoRequest]]
  /\ status' = [status EXCEPT ![<<f, 1>>] = "active"]

\* The request that closes the heads of `sources` and authorizes committee[f]
\* on every filter f of DOMAIN committee.
NewRequest(sources, vacant, committee) ==
  [frame |-> frame, sources |-> {HeadSession(f) : f \in sources}, vacant |-> vacant,
   targets |-> {[filter |-> f, members |-> committee[f], generation |-> head[f] + 1]
                  : f \in DOMAIN committee}]

\* The checks of schedule_with_vacant and Request::validate.
Schedulable(sources, vacant, committee) ==
  /\ \A f \in vacant : head[f] = 0
  /\ sources # {}
  /\ \A f \in sources : head[f] # 0 /\ status[HeadSession(f)] = "active"
  /\ \A f \in DOMAIN committee \ sources :
       head[f] # 0 => status[HeadSession(f)] = "closed"
  /\ \A f \in DOMAIN committee : head[f] < MaxGeneration
  /\ \E f \in DOMAIN committee : committee[f] # {}
  /\ SameRange(sources \cup vacant, DOMAIN committee)
  /\ NewRequest(sources, vacant, committee) \notin requests

\* schedule_with_vacant followed by reserve, as every caller does.
Schedule(r) ==
  /\ requests' = requests \cup {r}
  /\ status' = [s \in SessionIds |-> IF s \in r.sources THEN "sealing" ELSE status[s]]
  /\ closing' = [s \in SessionIds |-> IF s \in r.sources THEN r ELSE closing[s]]
  /\ reserved' = [f \in Filters |->
                    IF \E t \in r.targets : t.filter = f THEN r ELSE reserved[f]]

\* activate_with's check that no target changed since the request, and
\* closed_checkpoint's that a target's previous session has closed.  The code
\* asks the second of staffed targets only; it holds of all of them
\* (ActivationNeverRefused), so asking it of all refuses nothing more.
TargetsUnchanged(r) ==
  \A t \in r.targets :
    /\ head[t.filter] = t.generation - 1
    /\ t.generation > 1 =>
         LET previous == <<t.filter, t.generation - 1>>
         IN  previous \in r.sources \/ status[previous] = "closed"

\* The targets that receive a session, and the session each receives.
\* replacement is Unread, or the committee that replaces the only target's.
StaffedTarget(r, s) ==
  \E t \in r.targets : t.members # {} /\ s = <<t.filter, t.generation>>

\* Mutant: the successor starts one past the end instead of at it.
SuccessorSessionPastEnd(r, t, seals, fences, replacement) ==
  [members |-> IF replacement = Unread THEN t.members ELSE replacement,
   base    |-> IF t.generation = 1 THEN 0
               ELSE EndIn(seals, fences, <<t.filter, t.generation - 1>>).frame + 1,
   origin  |-> r]

\* Mutant: every successor starts at the genesis.
SuccessorSessionFromGenesis(r, t, seals, fences, replacement) ==
  [members |-> IF replacement = Unread THEN t.members ELSE replacement,
   base |-> 0, origin |-> r]

SuccessorSession(r, t, seals, fences, replacement) ==
  [members |-> IF replacement = Unread THEN t.members ELSE replacement,
   base    |-> IF t.generation = 1 THEN 0
               ELSE EndIn(seals, fences, <<t.filter, t.generation - 1>>).frame,
   origin  |-> r]

\* Mutant: the successors begin when any one source has ended.
EndSourceAny(r, seals, fences, replacement) ==
  /\ seal' = seals /\ fence' = fences
  /\ TargetsUnchanged(r)
  /\ activated' = activated \cup {r}
  /\ status' = [s \in SessionIds |->
                  IF s \in r.sources /\ EndIn(seals, fences, s) # NoCheckpoint THEN "closed"
                  ELSE IF StaffedTarget(r, s) THEN "active" ELSE status[s]]
  /\ head' = [f \in Filters |->
                IF \E t \in r.targets : t.filter = f /\ t.members # {}
                THEN head[f] + 1 ELSE head[f]]
  /\ session' = [s \in SessionIds |->
       IF StaffedTarget(r, s)
       THEN SuccessorSession(r, CHOOSE t \in r.targets : s = <<t.filter, t.generation>>,
                             seals, fences, replacement)
       ELSE session[s]]

\* Record how a source of r ended (the new seal and fence records) and, once
\* every source has ended, close them all and authorize the successors.
EndSource(r, seals, fences, replacement) ==
  /\ seal' = seals /\ fence' = fences
  /\ IF \A s \in r.sources : EndIn(seals, fences, s) # NoCheckpoint
     THEN /\ TargetsUnchanged(r)
          /\ activated' = activated \cup {r}
          /\ status' = [s \in SessionIds |->
                          IF s \in r.sources THEN "closed"
                          ELSE IF StaffedTarget(r, s) THEN "active" ELSE status[s]]
          /\ head' = [f \in Filters |->
                        IF \E t \in r.targets : t.filter = f /\ t.members # {}
                        THEN head[f] + 1 ELSE head[f]]
          /\ session' = [s \in SessionIds |->
               IF StaffedTarget(r, s)
               THEN SuccessorSession(r, CHOOSE t \in r.targets : s = <<t.filter, t.generation>>,
                                     seals, fences, replacement)
               ELSE session[s]]
     ELSE UNCHANGED <<activated, status, head, session>>

-----------------------------------------------------------------------------
(* Messages of a GLOBAL frame.  The first header a frame executes runs the  *)
(* frame's maintenance pass.                                                *)

Messages == pass.stage \in {"open", "done"}

StartedPass ==
  [IdlePass("gate") EXCEPT !.changes = {p \in pending : p.effective <= Epoch(frame)},
                           !.live = grid]

\* Mutant: only a seal bounds a session; a fenced one still certifies frames.
HeaderVerifiesUnfenced(s, n, d) ==
  /\ status[s] # "absent"
  /\ n > session[s].base
  /\ seal[s] # NoCheckpoint => \/ n < seal[s].frame
                               \/ n = seal[s].frame /\ d = seal[s].digest

\* frames::verify: a data frame of s above its base and not past its end.
HeaderVerifies(s, n, d) ==
  /\ status[s] # "absent"
  /\ n > session[s].base
  /\ End(s) # NoCheckpoint => \/ n < End(s).frame
                              \/ n = End(s).frame /\ d = End(s).digest

\* Mutant: every executed header becomes the tip.
AdvancedTipAlways(s, n, d) == [tip EXCEPT ![s] = [frame |-> n, digest |-> d]]

\* record_session_tip: the tip only advances.
AdvancedTip(s, n, d) ==
  IF tip[s] # NoCheckpoint /\ tip[s].frame >= n THEN tip
  ELSE [tip EXCEPT ![s] = [frame |-> n, digest |-> d]]

ExecuteHeader(s, n, d) ==
  /\ Messages
  /\ HeaderVerifies(s, n, d)
  /\ tip' = AdvancedTip(s, n, d)
  /\ pass' = IF pass.stage = "open" THEN StartedPass ELSE pass
  /\ UNCHANGED <<head, session, status, closing, requests, activated, seal, fence,
                 reserved, topology, dropped, shards, frame>>

\* verify_closing_certificate: a certified seal of s at checkpoint c.
ClosingCertificate(s, c) ==
  /\ status[s] = "sealing"
  /\ frame > closing[s].frame
  /\ s \in closing[s].sources
  /\ fence[s] = NoCheckpoint
  /\ c.frame >= session[s].base
  /\ c.frame = session[s].base <=> c.digest = Genesis

\* A seal whose drain, empty or not, reaches its checkpoint.  The headers are
\* consecutive from the executed tip, so after them the tip is the checkpoint.
SubmitSeal(s, c) ==
  /\ Messages
  /\ ClosingCertificate(s, c)
  /\ \/ Executed(s) = c
     \/ /\ Executed(s).frame < c.frame
        /\ c.frame - Executed(s).frame <= MaxDrain
        /\ HeaderVerifies(s, c.frame, c.digest)
  /\ seal[s] \in {NoCheckpoint, c}
  /\ tip' = IF c.frame = session[s].base THEN tip ELSE [tip EXCEPT ![s] = c]
  /\ EndSource(closing[s], [seal EXCEPT ![s] = c], fence, Unread)
  /\ UNCHANGED <<closing, requests, reserved, topology, dropped, shards, frame, pass>>

\* A partial drain: exactly MAX_DRAIN_HEADERS consecutive headers that end below
\* the sealed checkpoint; those already executed are passed over, the others
\* advance the tip, and the seal is left for a later submission.
SubmitPartialDrain(s, c, n, d) ==
  /\ Messages
  /\ ClosingCertificate(s, c)
  /\ n > Executed(s).frame /\ n < c.frame
  /\ n - Executed(s).frame <= MaxDrain /\ MaxDrain <= n + 1
  /\ HeaderVerifies(s, n, d)
  /\ tip' = AdvancedTip(s, n, d)
  /\ UNCHANGED <<head, session, status, closing, requests, activated, seal, fence,
                 reserved, topology, dropped, shards, frame, pass>>

\* invoke_shard_split and invoke_shard_merge: a pending change is keyed by its
\* parent and effective epoch, so a repeated proposal of an epoch replaces it.
ProposeChange(c) ==
  /\ Messages
  /\ proposals < MaxProposals
  /\ LET effective == Epoch(frame) + EffectiveDelay
     IN  pending' = {p \in pending : p.change.parent # c.parent \/ p.effective # effective}
                      \cup {[change |-> c, effective |-> effective, proposed |-> frame]}
  /\ proposals' = proposals + 1
  /\ UNCHANGED <<records, grid, frame, pass>>

-----------------------------------------------------------------------------
(* The maintenance pass (apply_due_shard_changes): once per frame, inside   *)
(* the frame's first header or alone after its messages, in one changeset.  *)
(* It gates the due changes, flips the ready ones, and on a session pass    *)
(* fences stalled sources and then reconciles every shard of the grid.      *)

BeginPass ==
  /\ pass.stage = "open"
  /\ pass' = StartedPass
  /\ UNCHANGED <<records, shards, frame>>

\* The request recorded for a pending change, if the gate scheduled one.
Scheduled(p) == \E pr \in topology : pr[1] = p

StaleSplit(p) == p.change.kind = "split" /\ p.change.parent \notin pass.live

\* The old filters of a change that have a session, and those that never had.
Sources(p) == {f \in p.change.old : head[f] # 0}
Vacant(p)  == {f \in p.change.old : head[f] = 0}

\* Mutant: a change of governed shards applies without sealing its sources.
AppliesUngated(p) ==
  \/ StaleSplit(p)
  \/ p \notin dropped /\ \A f \in Vacant(p) : ~Reserved(f)

\* The gate's verdicts in the order the code reaches them.
Applies(p) ==
  \/ StaleSplit(p)
  \/ /\ p \notin dropped
     /\ IF Scheduled(p)
        THEN \E pr \in topology : pr[1] = p /\ pr[2] \in activated
        ELSE Sources(p) = {} /\ \A f \in Vacant(p) : ~Reserved(f)

Gateable(p) ==
  /\ ~StaleSplit(p) /\ p \notin dropped /\ ~Scheduled(p)
  /\ \A f \in Vacant(p) : ~Reserved(f)
  /\ Sources(p) # {}
  /\ \A f \in Sources(p) : status[HeadSession(f)] = "active"

\* The committees a change may give its successors: a split divides the
\* parent's eligible provers over the children it names (its spine shards get
\* none), a merge unites its sources' provers.
Committees(c) ==
  {m \in [c.new -> SUBSET Provers] :
     /\ \A f \in c.new \ c.staffed : m[f] = {}
     /\ \A f, g \in c.new : f # g => m[f] \cap m[g] = {}}

GateApply(p) ==
  /\ pass.stage = "gate" /\ p \in pass.changes /\ Applies(p)
  /\ pass' = [pass EXCEPT !.changes = @ \ {p}, !.ready = @ \cup {p}]
  /\ UNCHANGED <<records, shards, frame>>

\* No successor would have a member: the change is recorded as dropped.
GateDrop(p) ==
  /\ pass.stage = "gate" /\ p \in pass.changes
  /\ Gateable(p) \/ (p \in dropped /\ ~StaleSplit(p))
  /\ dropped' = dropped \cup {p}
  /\ pending' = pending \ {p}
  /\ pass' = [pass EXCEPT !.changes = @ \ {p}]
  /\ UNCHANGED <<head, session, status, closing, requests, activated, seal, fence,
                 tip, reserved, topology, grid, proposals, frame>>

\* A target outside the sources is still awaited by another request.
TargetTaken(p) == \E f \in p.change.new \ Sources(p) : Reserved(f)

GateSchedule(p, committee) ==
  /\ pass.stage = "gate" /\ p \in pass.changes
  /\ Gateable(p) /\ ~TargetTaken(p)
  /\ \E f \in p.change.new : committee[f] # {}
  /\ Schedulable(Sources(p), Vacant(p), committee)
  /\ LET r == NewRequest(Sources(p), Vacant(p), committee)
     IN  Schedule(r) /\ topology' = topology \cup {<<p, r>>}
  /\ pass' = [pass EXCEPT !.changes = @ \ {p}]
  /\ UNCHANGED <<head, session, activated, seal, fence, tip, dropped, shards, frame>>

\* The change stays pending: it waits for a session or a request, or the
\* scheduler refused it and its attempt was rolled back.
GateWait(p) ==
  /\ pass.stage = "gate" /\ p \in pass.changes
  /\ ~Applies(p) /\ p \notin dropped
  /\ Gateable(p) =>
       \/ TargetTaken(p)
       \/ \E m \in Committees(p.change) : /\ \E f \in p.change.new : m[f] # {}
                                          /\ ~Schedulable(Sources(p), Vacant(p), m)
  /\ pass' = [pass EXCEPT !.changes = @ \ {p}]
  /\ UNCHANGED <<records, shards, frame>>

EndGate ==
  /\ pass.stage = "gate" /\ pass.changes = {}
  /\ pass' = [pass EXCEPT !.stage = "flip", !.changes = pass.ready, !.ready = {}]
  /\ UNCHANGED <<records, shards, frame>>

\* Mutant: a split registers its children and leaves the parent.
FlippedKeepingParent(c, shardSet) ==
  IF c.kind = "split" THEN shardSet \cup c.new ELSE (shardSet \ c.old) \cup c.new

\* The grid step of one ready change.  Only a split updates `live`, which
\* later splits of the pass are compared with.
Flipped(c, shardSet) ==
  IF c.kind = "split" /\ c.parent \notin pass.live THEN shardSet
  ELSE (shardSet \ c.old) \cup c.new

Flip(p) ==
  /\ pass.stage = "flip" /\ p \in pass.changes
  /\ grid' = Flipped(p.change, grid)
  /\ pending' = pending \ {p}
  /\ pass' = [pass EXCEPT !.changes = @ \ {p},
                          !.live = IF p.change.kind = "split" THEN Flipped(p.change, @) ELSE @]
  /\ UNCHANGED <<records, proposals, frame>>

EndFlip ==
  /\ pass.stage = "flip" /\ pass.changes = {}
  /\ pass' = IF frame % PassFrames = 0
             THEN [IdlePass("fence") EXCEPT !.filters = grid]
             ELSE IdlePass("done")
  /\ UNCHANGED <<records, shards, frame>>

\* The session pass walks the sorted filters.
NextFilter == CHOOSE f \in pass.filters : TRUE

\* The committed eligibility of f, read once per pass.
Eligible(f, S) == pass.scan[f] \in {Unread, S}

Walked(S) ==
  [pass EXCEPT !.filters = @ \ {NextFilter},
               !.scan = IF S = Unread THEN @ ELSE [@ EXCEPT ![NextFilter] = S]]

\* Mutant: the fence is a frame late.
FenceDueLate(f) ==
  /\ head[f] # 0
  /\ status[HeadSession(f)] = "sealing"
  /\ End(HeadSession(f)) = NoCheckpoint
  /\ frame > FenceDueFrame(closing[HeadSession(f)])

\* Mutant: a session no frame was executed of is left closing.
FenceDueExecutedOnly(f) ==
  /\ head[f] # 0
  /\ status[HeadSession(f)] = "sealing"
  /\ End(HeadSession(f)) = NoCheckpoint
  /\ tip[HeadSession(f)] # NoCheckpoint
  /\ frame >= FenceDueFrame(closing[HeadSession(f)])

\* fence_stalled_sources' conditions on the head session of f.
FenceDue(f) ==
  /\ head[f] # 0
  /\ status[HeadSession(f)] = "sealing"
  /\ End(HeadSession(f)) = NoCheckpoint
  /\ frame >= FenceDueFrame(closing[HeadSession(f)])

\* Mutant: a fence always keeps the committee its request fixed.
ReadsEligibilityNever(r) == FALSE

\* fenced_committee: the fence of a membership request reads eligibility.
ReadsEligibility(r) ==
  /\ frame >= FencedEligibilityFrame
  /\ r.vacant = {}
  /\ Cardinality(r.sources) = 1 /\ Cardinality(r.targets) = 1
  /\ \E s \in r.sources, t \in r.targets : s[1] = t.filter

FenceSession(f, S) ==
  LET s == HeadSession(f)
      r == closing[s]
  IN  /\ pass.stage = "fence" /\ pass.filters # {} /\ f = NextFilter
      /\ FenceDue(f)
      /\ IF ReadsEligibility(r) THEN S # Unread /\ Eligible(f, S) ELSE S = Unread
      /\ EndSource(r, seal, [fence EXCEPT ![s] = Executed(s)],
                   IF S = {} THEN Unread ELSE S)
      /\ pass' = [Walked(S) EXCEPT !.fenced = @ \cup {f}]
      /\ UNCHANGED <<closing, requests, tip, reserved, topology, dropped, shards, frame>>

FenceSkip(f) ==
  /\ pass.stage = "fence" /\ pass.filters # {} /\ f = NextFilter
  /\ ~FenceDue(f)
  /\ pass' = Walked(Unread)
  /\ UNCHANGED <<records, shards, frame>>

MembershipFrozen    == frame >= MembershipBoundary /\ ~FirstPassOfEpoch
FirstSessionsFrozen == frame >= FirstSessionBoundary /\ ~FirstPassOfEpoch

\* Reconciliation is skipped when it could decide nothing.
EndFence ==
  /\ pass.stage = "fence" /\ pass.filters = {}
  /\ pass' = IF MembershipFrozen /\ (FirstSessionsFrozen \/ \A f \in grid : head[f] # 0)
             THEN IdlePass("done")
             ELSE [pass EXCEPT !.stage = "reconcile", !.filters = grid]
  /\ UNCHANGED <<records, shards, frame>>

\* One shard's turn in reconcile_membership, with S its eligible provers.
InitializesFirst(f, S) ==
  S # {} /\ head[f] = 0 /\ ~Reserved(f) /\ ~FirstSessionsFrozen

\* Mutant: a closing session is asked to close again.
SchedulesMembershipTwice(f, S) ==
  /\ S # {} /\ head[f] # 0
  /\ session[HeadSession(f)].members # S
  /\ status[HeadSession(f)] \in {"active", "sealing"}
  /\ ~MembershipFrozen
  /\ head[f] < MaxGeneration

SchedulesMembership(f, S) ==
  /\ S # {} /\ head[f] # 0
  /\ session[HeadSession(f)].members # S
  /\ status[HeadSession(f)] = "active"
  /\ ~MembershipFrozen
  /\ head[f] < MaxGeneration

ReconcileFirst(f, S) ==
  /\ pass.stage = "reconcile" /\ pass.filters # {} /\ f = NextFilter /\ Eligible(f, S)
  /\ InitializesFirst(f, S)
  /\ Initialize(f, S)
  /\ pass' = Walked(S)
  /\ UNCHANGED <<closing, requests, activated, seal, fence, tip, reserved, topology,
                 dropped, shards, frame>>

ReconcileMembership(f, S) ==
  /\ pass.stage = "reconcile" /\ pass.filters # {} /\ f = NextFilter /\ Eligible(f, S)
  /\ SchedulesMembership(f, S)
  /\ Schedule(NewRequest({f}, {}, [g \in {f} |-> S]))
  /\ pass' = Walked(S)
  /\ UNCHANGED <<head, session, activated, seal, fence, tip, topology, dropped,
                 shards, frame>>

ReconcileSkip(f, S) ==
  /\ pass.stage = "reconcile" /\ pass.filters # {} /\ f = NextFilter /\ Eligible(f, S)
  /\ ~InitializesFirst(f, S) /\ ~SchedulesMembership(f, S)
  /\ pass' = Walked(S)
  /\ UNCHANGED <<records, shards, frame>>

EndPass ==
  /\ pass.stage = "reconcile" /\ pass.filters = {}
  /\ pass' = IdlePass("done")
  /\ UNCHANGED <<records, shards, frame>>

NextFrame ==
  /\ pass.stage = "done" /\ frame < MaxFrame
  /\ frame' = frame + 1
  /\ pass' = IdlePass("open")
  /\ UNCHANGED <<records, shards>>

\* The bounded horizon: GLOBAL goes on, the model stops counting.
Horizon ==
  /\ pass.stage = "done" /\ frame = MaxFrame
  /\ UNCHANGED vars

-----------------------------------------------------------------------------
PassStep ==
  \/ BeginPass
  \/ \E p \in pass.changes :
       \/ GateApply(p) \/ GateDrop(p) \/ GateWait(p) \/ Flip(p)
       \/ \E m \in Committees(p.change) : GateSchedule(p, m)
  \/ EndGate \/ EndFlip
  \/ \E f \in pass.filters :
       \/ FenceSkip(f)
       \/ \E S \in (SUBSET Provers) \cup {Unread} : FenceSession(f, S)
       \/ \E S \in SUBSET Provers :
            ReconcileFirst(f, S) \/ ReconcileMembership(f, S) \/ ReconcileSkip(f, S)
  \/ EndFence \/ EndPass \/ NextFrame

Next ==
  \/ \E s \in SessionIds, n \in AppFrames, d \in Digests : ExecuteHeader(s, n, d)
  \/ \E s \in SessionIds, c \in Checkpoint : SubmitSeal(s, c)
  \/ \E s \in SessionIds, c \in Checkpoint, n \in AppFrames, d \in Digests :
       SubmitPartialDrain(s, c, n, d)
  \/ \E c \in Changes : ProposeChange(c)
  \/ PassStep
  \/ Horizon

Spec == Init /\ [][Next]_vars

\* GLOBAL keeps executing frames, and each frame completes its pass.
FairSpec == Spec /\ WF_vars(PassStep)

-----------------------------------------------------------------------------
(* Properties. *)

Live(s) == status[s] \in {"active", "sealing"}

RecordsTypeOK ==
  /\ head \in [Filters -> 0 .. MaxGeneration]
  /\ session \in [SessionIds -> Session]
  /\ status \in [SessionIds -> Statuses]
  /\ closing \in [SessionIds -> Request \cup {NoRequest}]
  /\ requests \subseteq Request
  /\ activated \subseteq requests
  /\ seal \in [SessionIds -> Checkpoint \cup {NoCheckpoint}]
  /\ fence \in [SessionIds -> Checkpoint \cup {NoCheckpoint}]
  /\ tip \in [SessionIds -> Checkpoint \cup {NoCheckpoint}]
  /\ reserved \in [Filters -> Request \cup {NoRequest}]

WorkTypeOK ==
  /\ topology \subseteq PendingChange \X Request
  /\ dropped \subseteq PendingChange
  /\ grid \subseteq Filters
  /\ pending \subseteq PendingChange
  /\ proposals \in 0 .. MaxProposals
  /\ frame \in 1 .. MaxFrame
  /\ pass \in Pass

\* Every record and every step of the pass stays within its type; in
\* particular a successor's base is a frame, so its predecessor has an end.
TypeOK == RecordsTypeOK /\ WorkTypeOK

\* Whatever the committee signed, a session ends exactly at the last frame
\* GLOBAL executed of it: the end neither cuts off an executed frame nor names
\* one that was not executed.  (Executed headers need not be consecutive, so
\* frames between them may have been skipped.)
TerminalIsExecutedTip ==
  \A s \in SessionIds : End(s) # NoCheckpoint => End(s) = Executed(s)

\* A frame number of a shard belongs to one session: what an earlier session
\* executed, even after its successor began, is at or below the successor's base.
FramesNeverReused ==
  \A f \in Filters : \A g, h \in Generations :
    (g < h /\ status[<<f, h>>] # "absent") => Executed(<<f, g>>).frame <= session[<<f, h>>].base

\* activate_with's "target changed" refusal never fires: no head and no other
\* request moves a target while its request waits for the sources.
ActivationNeverRefused ==
  \A r \in requests \ activated : TargetsUnchanged(r)

\* A successor exists only when every session its request named has closed at
\* a recorded end, so the old and the new committee never both certify.
SuccessorFollowsSources ==
  \A s \in SessionIds : session[s].origin # NoRequest =>
    \A q \in session[s].origin.sources : status[q] = "closed" /\ End(q) # NoCheckpoint

\* Ranges left vacant by a request that has been made.
VacantRanges == UNION {r.vacant : r \in requests}

\* No address is governed by two live sessions, except through a range that
\* was declared vacant and received a session afterwards.  It holds when every
\* shard is split and merged with the same siblings only; a split proposed
\* with the split of its parent escapes the gate and breaks it.
LiveRangesDisjoint ==
  \A s, q \in SessionIds :
    (Live(s) /\ Live(q) /\ s # q /\ s[1] \notin VacantRanges /\ q[1] \notin VacantRanges)
      => Cover[s[1]] \cap Cover[q[1]] = {}

\* schedule_with_vacant: "The caller vouches that each has no session; a range
\* with one must be a source."
VacantRangesHaveNoSession ==
  \A s, q \in SessionIds :
    (Live(s) /\ Live(q) /\ s # q) => Cover[s[1]] \cap Cover[q[1]] = {}

\* The grid stays prefix-free ("so the set stays prefix-free", the grid step)
\* through every order of the split and the merge of one parent; a merge over
\* shards that were split meanwhile breaks it.
GridPrefixFree == DisjointCover(grid)

\* A session never changes once authorized, nor its end once recorded; a
\* closed session stays closed and the executed tip never goes back.
HistoryImmutable ==
  [][\A s \in SessionIds :
       /\ status[s] # "absent" => session'[s] = session[s]
       /\ End(s) # NoCheckpoint => EndIn(seal', fence', s) = End(s)
       /\ status[s] = "closed" => status'[s] = "closed"
       /\ tip[s] # NoCheckpoint =>
            /\ tip'[s] # NoCheckpoint
            /\ tip'[s].frame > tip[s].frame \/ tip'[s] = tip[s]]_vars

\* The session a fence authorized is not asked to close by the reconciliation
\* of the same pass (from the frame that gives it current eligibility).
FencedSuccessorKeepsTurn ==
  [][(pass.stage = "reconcile" /\ frame >= FencedEligibilityFrame) =>
       \A f \in pass.fenced : head'[f] = head[f] /\ status'[HeadSession(f)] = status[HeadSession(f)]]_vars

\* Every closing session of the grid ends, by its seal or by the fence: the
\* committee need not cooperate.  A shard declared vacant that received a
\* session anyway is excepted: it leaves the grid and is never fenced.
ClosingEnds ==
  \A s \in SessionIds :
    (/\ status[s] = "sealing" /\ s[1] \notin VacantRanges
     /\ FenceDueFrame(closing[s]) + PassFrames <= MaxFrame)
      ~> (status[s] = "closed")

\* A scheduled split or merge reaches the grid by the frame after the last
\* pass its sources can be fenced in, whatever the committees do.
ChangeAppliesInTime ==
  \A pr \in topology :
    (pr[1] \in pending /\ pass.stage = "done") => frame < FenceDueFrame(pr[2]) + PassFrames

\* Request.targets: a target with no members "receives an ordinary first
\* session once provers become eligible there".
UnstaffedTargetStarts ==
  [][\A f \in pass.filters :
       (/\ pass.stage = "reconcile" /\ f = NextFilter
        /\ ~FirstSessionsFrozen
        /\ reserved[f] \in activated
        /\ \E t \in reserved[f].targets : t.filter = f /\ t.members = {}
        /\ pass'.scan[f] # {})
         => \E g \in Generations : status'[<<f, g>>] \in {"active", "sealing"}]_vars

=============================================================================
