------------------------ MODULE ProverLifecycleProofs ------------------------
(***************************************************************************)
(* Theorems about the records GLOBAL keeps of a prover, for any filters,   *)
(* changes, epoch length, rejoin window and bounds.                        *)
(***************************************************************************)
EXTENDS ProverLifecycle, FiniteSetTheorems, TLAPS

-----------------------------------------------------------------------------
(* The inductive invariant                                                 *)

InUse   == Live \cup {"left"}
Serving == {"active", "paused", "leaving"}

\* The pass works on pending changes that are due, and on none outside it.
PassInv ==
  /\ pass.stage \in {"open", "done"} => pass.changes = {} /\ pass.ready = {}
  /\ pass.stage = "flip" => pass.ready = {}
  /\ \A p \in pass.changes \cup pass.ready : p.effective <= Now

\* The hyperedge links every live slot.
LinkInv == \A f \in Filters : alloc[f].status \in Live => f \in linked

\* A leave is confirmed in the epoch after its proposal, or not at all.
NoticeInv ==
  \A f \in Filters :
    /\ alloc[f].status \in {"joining", "active", "paused"} => alloc[f].leaveConfirm = 0
    /\ alloc[f].status = "leaving" => alloc[f].leaveConfirm \in {0, alloc[f].leave + 1}

\* Nobody registers further ahead than the next epoch, or twice for one.
RootInv ==
  \A f \in Filters :
    /\ \A r \in roots[f] : r.epoch <= Now + 1
    /\ \A r, s \in roots[f] : r.epoch = s.epoch => r = s

RegisteredFor(f, e) == \E r \in roots[f] : r.epoch = e

\* A member in its first two epochs that at most n changes have moved.
Fresh(f, n) ==
  alloc[f].status \in Serving /\ Now <= alloc[f].joinConfirm + 1 /\ alloc[f].hops <= n

\* A member is registered for the first epoch it may sit in.
FreshInv ==
  \A f \in Filters :
    /\ alloc[f].join <= frame
    /\ alloc[f].status \in Serving =>
         alloc[f].joinConfirm > 0 /\ alloc[f].joinConfirm <= Now
    /\ Fresh(f, 1) => RegisteredFor(f, alloc[f].joinConfirm + 1)

\* A pending change is due after the joins on its sources are confirmed, and a
\* member that it moves at once is registered where it may be moved to.
ChangeInv ==
  \A p \in pending : \A f \in Sources(p.change) :
    /\ alloc[f].status = "joining" /\ alloc[f].hops <= 0 =>
         p.effective >= Epoch(alloc[f].join) + 2
    /\ Fresh(f, 0) =>
         /\ p.effective >= alloc[f].joinConfirm + 1
         /\ p.effective = alloc[f].joinConfirm + 1 =>
              \A g \in Results(p.change) : RegisteredFor(g, p.effective)

LifecycleInv ==
  /\ TypeOK /\ PassInv /\ LinkInv
  /\ KickedHoldsNothing /\ LeftProverHoldsNothing
  /\ NoticeInv /\ RootInv /\ FreshInv /\ ChangeInv

-----------------------------------------------------------------------------
(* Epochs and helpers                                                      *)

LEMMA EpochMonotone ==
  ASSUME NEW m \in Nat, NEW n \in Nat, m <= n
  PROVE  /\ Epoch(m) \in Nat /\ Epoch(n) \in Nat
         /\ Epoch(m) <= Epoch(n)
<1> DEFINE E == EpochFrames
           q == m \div E
           s == n \div E
<1>1. E \in Nat /\ E > 0
  BY LifecycleAssumption
<1>2. /\ q \in Int /\ s \in Int
      /\ m = E * q + (m % E) /\ n = E * s + (n % E)
      /\ m % E \in 0 .. E - 1 /\ n % E \in 0 .. E - 1
  BY <1>1, SMT
<1> QED BY <1>1, <1>2, SMT DEF Epoch

\* The epoch of a frame of the instance, and the two that follow it.
LEMMA EpochBounded ==
  ASSUME NEW n \in 0 .. MaxFrame
  PROVE  /\ Epoch(n) \in Nat
         /\ Epoch(n) \in Epochs /\ Epoch(n) + 1 \in Epochs /\ Epoch(n) + 2 \in Epochs
<1>1. MaxFrame \in Nat /\ n \in Nat /\ n <= MaxFrame
  BY LifecycleAssumption
<1>2. Epoch(n) \in Nat /\ Epoch(MaxFrame) \in Nat /\ Epoch(n) <= Epoch(MaxFrame)
  BY <1>1, EpochMonotone
<1>3. Epochs = 0 .. Epoch(MaxFrame) + 2
  BY DEF Epochs, Epoch
<1> HIDE DEF Epoch
<1> QED BY <1>2, <1>3

LEMMA EpochsAreNaturals == Epochs \subseteq Nat
<1>1. MaxFrame \in Nat
  BY LifecycleAssumption
<1>2. 0 \in 0 .. MaxFrame
  BY <1>1
<1>3. Epoch(MaxFrame) \in Nat
  BY <1>1, EpochMonotone
<1> QED BY <1>3 DEF Epochs, Epoch

LEMMA ChangeFilters ==
  ASSUME NEW c \in Changes
  PROVE  Sources(c) \subseteq Filters /\ Results(c) \subseteq Filters
<1>1. c \in Change
  BY LifecycleAssumption
<1>2. \A i \in DOMAIN c.children : c.children[i] \in Filters
  BY <1>1 DEF Change
<1> QED BY <1>1, <1>2 DEF Change, Sources, Results

LEMMA AggregateStatus ==
  ASSUME NEW S
  PROVE  /\ compute_aggregate_prover_status(S) \in Live \cup {"left"}
         /\ compute_aggregate_prover_status(S) = "left" => S \cap Live = {}
BY DEF compute_aggregate_prover_status, Live

LEMMA SlotFields ==
  ASSUME alloc \in [Filters -> Allocation], NEW f \in Filters
  PROVE  /\ alloc[f].join \in Nat /\ alloc[f].join \in 0 .. MaxFrame
         /\ alloc[f].joinConfirm \in Nat /\ alloc[f].hops \in 0 .. 2
<1>1. alloc[f] \in Allocation
  OBVIOUS
<1>2. /\ alloc[f].join \in 0 .. MaxFrame /\ alloc[f].joinConfirm \in Epochs
      /\ alloc[f].hops \in 0 .. 2
  BY <1>1 DEF Allocation
<1>3. alloc[f].joinConfirm \in Nat
  BY <1>2, EpochsAreNaturals
<1>4. \A n \in 0 .. MaxFrame : n \in Nat
  OBVIOUS
<1> QED BY <1>2, <1>3, <1>4

LEMMA AllocationUpdates ==
  ASSUME NEW a \in Allocation
  PROVE  /\ \A s \in Statuses : [a EXCEPT !.status = s] \in Allocation
         /\ \A e \in Epochs : /\ [a EXCEPT !.leaveConfirm = e] \in Allocation
                              /\ [a EXCEPT !.status = "leaving", !.leave = e] \in Allocation
BY DEF Allocation, Statuses

\* A new registration for the next epoch is kept, and takes away only what is
\* older than the previous epoch.
LEMMA UpsertKeeps ==
  ASSUME NEW n \in Nat, NEW regs \in SUBSET Registration, NEW r \in Registration,
         r.epoch = n + 1,
         \A x \in regs : x.epoch <= n + 1,
         \A x, y \in regs : x.epoch = y.epoch => x = y
  PROVE  /\ Upsert(regs, r) \in SUBSET Registration
         /\ r \in Upsert(regs, r)
         /\ \A x \in Upsert(regs, r) : x.epoch <= n + 1
         /\ \A x, y \in Upsert(regs, r) : x.epoch = y.epoch => x = y
         /\ \A x \in regs : x.epoch + 1 >= n => \E y \in Upsert(regs, r) : y.epoch = x.epoch
         /\ \A x \in regs : x.epoch + 1 >= n /\ x.epoch # r.epoch => x \in Upsert(regs, r)
<1> DEFINE all == {x \in regs : x.epoch # r.epoch} \cup {r}
           Above(x) == {y \in all : y.epoch > x.epoch}
<1>1. Upsert(regs, r) = {x \in all : Cardinality(Above(x)) < Slots}
  BY DEF Upsert
<1>2. /\ all \subseteq Registration /\ r \in all
      /\ \A x \in all : x.epoch \in Nat /\ x.epoch <= n + 1
      /\ \A x, y \in all : x.epoch = y.epoch => x = y
  <2>1. \A x \in all : x = r \/ (x \in regs /\ x.epoch # r.epoch)
    OBVIOUS
  <2>2. \A x \in Registration : x.epoch \in Nat
    BY EpochsAreNaturals DEF Registration
  <2>3. all \subseteq Registration /\ r \in all
    OBVIOUS
  <2> HIDE DEF all
  <2> QED BY <2>1, <2>2, <2>3
<1> HIDE DEF all
<1>3. ASSUME NEW x \in all, x.epoch + 1 >= n
      PROVE  Cardinality(Above(x)) < Slots
  <2> DEFINE g == [y \in Above(x) |-> y.epoch]
  <2>1. \A y \in Above(x) : y.epoch \in n .. n + 1
    BY <1>2, <1>3
  <2>2. g \in Injection(Above(x), n .. n + 1)
    BY <1>2, <2>1 DEF Injection, IsInjective
  <2>3. IsFiniteSet(n .. n + 1) /\ Cardinality(n .. n + 1) = 2
    BY FS_Interval
  <2>4. IsFiniteSet(Above(x)) /\ Cardinality(Above(x)) <= 2
    BY <2>2, <2>3, FS_Injection
  <2>5. Cardinality(Above(x)) \in Nat
    BY <2>4, FS_CardinalityType
  <2> QED BY <2>4, <2>5, LifecycleAssumption
<1>4. r \in Upsert(regs, r)
  BY <1>1, <1>2, <1>3
<1>5. ASSUME NEW x \in regs, x.epoch + 1 >= n
      PROVE  \E y \in Upsert(regs, r) : y.epoch = x.epoch
  <2>1. CASE x.epoch = r.epoch
    BY <1>4, <2>1
  <2>2. CASE x.epoch # r.epoch
    <3>1. x \in all
      BY <2>2 DEF all
    <3> QED BY <1>1, <1>3, <1>5, <3>1
  <2> QED BY <2>1, <2>2
<1>6. ASSUME NEW x \in regs, x.epoch + 1 >= n, x.epoch # r.epoch
      PROVE  x \in Upsert(regs, r)
  <2>1. x \in all
    BY <1>6 DEF all
  <2> QED BY <1>1, <1>3, <1>6, <2>1
<1> QED BY <1>1, <1>2, <1>4, <1>5, <1>6

-----------------------------------------------------------------------------
(* Operations of the prover                                                *)

\* What every operation that ends in refresh_prover_status keeps.
LEMMA RefreshStep ==
  ASSUME LifecycleInv, Operation,
         NEW S \in SUBSET Filters, NEW slots \in [Filters -> Allocation],
         \A f \in Filters \ S : slots[f] = alloc[f],
         \A f \in S : slots[f].status \in InUse,
         prover.kicked => S = {},
         Refresh(slots, S),
         roots' \in [Filters -> SUBSET Registration]
  PROVE  /\ TypeOK' /\ PassInv' /\ LinkInv'
         /\ KickedHoldsNothing' /\ LeftProverHoldsNothing'
<1>1. /\ alloc' = slots
      /\ UNCHANGED <<frame, grid, pending, pass, enumerated>>
      /\ prover' = [prover EXCEPT !.status =
                       compute_aggregate_prover_status(StatusesIn(slots, linked'))]
  BY DEF Refresh, Operation
<1>2. linked' = linked \cup S
  BY DEF Refresh, None, InUse, Live
<1>3. compute_aggregate_prover_status(StatusesIn(slots, linked')) \in Live \cup {"left"}
  BY AggregateStatus
<1>4. \A f \in Filters : alloc[f].status # "none" => slots[f].status # "none"
  BY DEF InUse, Live
<1>5. ops' \in 0 .. MaxOps
  BY LifecycleAssumption DEF LifecycleInv, TypeOK, Operation, Message
<1>6. TypeOK'
  <2>1. linked' \subseteq {f \in Filters : slots[f].status # "none"}
    BY <1>2, <1>4 DEF LifecycleInv, TypeOK, InUse, Live
  <2>2. enumerated \subseteq {f \in Filters : slots[f].status # "none"}
    BY <1>4 DEF LifecycleInv, TypeOK
  <2>3. prover' \in [status: Live \cup {"absent", "left"}, kicked: BOOLEAN]
    BY <1>1, <1>3 DEF LifecycleInv, TypeOK
  <2> QED BY <1>1, <1>5, <2>1, <2>2, <2>3 DEF LifecycleInv, TypeOK
<1>7. PassInv'
  BY <1>1 DEF LifecycleInv, PassInv, Now
<1>8. LinkInv'
  BY <1>1, <1>2 DEF LifecycleInv, LinkInv
<1>9. KickedHoldsNothing'
  BY <1>1 DEF LifecycleInv, TypeOK, KickedHoldsNothing
<1>10. LeftProverHoldsNothing'
  <2> SUFFICES ASSUME prover'.status = "left", NEW f \in Filters, slots[f].status \in Live
               PROVE  FALSE
    BY <1>1 DEF LeftProverHoldsNothing
  <2>1. compute_aggregate_prover_status(StatusesIn(slots, linked')) = "left"
    BY <1>1 DEF LifecycleInv, TypeOK
  <2>2. StatusesIn(slots, linked') \cap Live = {}
    BY <2>1, AggregateStatus
  <2>3. f \in linked'
    BY <1>1, <1>8 DEF LinkInv
  <2> QED BY <2>2, <2>3 DEF StatusesIn
<1> QED BY <1>6, <1>7, <1>8, <1>9, <1>10

\* What an operation keeps that confirms no join and registers nothing.
LEMMA QuietStep ==
  ASSUME LifecycleInv, NEW S \in SUBSET Filters, NEW slots \in [Filters -> Allocation],
         \A f \in Filters \ S : slots[f] = alloc[f],
         \A f \in S : /\ slots[f].join = alloc[f].join
                      /\ slots[f].joinConfirm = alloc[f].joinConfirm
                      /\ slots[f].hops = alloc[f].hops
                      /\ slots[f].status \in Serving => alloc[f].status \in Serving
                      /\ slots[f].status # "joining",
         alloc' = slots,
         UNCHANGED <<frame, pending, roots>>
  PROVE  RootInv' /\ FreshInv' /\ ChangeInv'
<1>1. Now' = Now
  BY DEF Now
<1>2. \A f \in Filters :
        /\ alloc'[f].join = alloc[f].join /\ alloc'[f].joinConfirm = alloc[f].joinConfirm
        /\ alloc'[f].hops = alloc[f].hops
        /\ alloc'[f].status \in Serving => alloc[f].status \in Serving
        /\ alloc'[f].status = "joining" => alloc[f].status = "joining"
  OBVIOUS
<1>3. RootInv'
  BY <1>1 DEF LifecycleInv, RootInv
<1>4. FreshInv'
  BY <1>1, <1>2 DEF LifecycleInv, FreshInv, Fresh, RegisteredFor
<1>5. ASSUME NEW p \in pending PROVE Sources(p.change) \subseteq Filters
  BY ChangeFilters DEF LifecycleInv, TypeOK
<1>6. ChangeInv'
  BY <1>1, <1>2, <1>5 DEF LifecycleInv, ChangeInv, Fresh, RegisteredFor
<1> QED BY <1>3, <1>4, <1>6

LEMMA JoinStep ==
  ASSUME LifecycleInv, NEW S \in SUBSET Filters, Join(S)
  PROVE  LifecycleInv'
<1> DEFINE slots == JoinedSlots(S)
<1>1. Joined \in Allocation /\ Joined.status = "joining" /\ Joined.leaveConfirm = 0 /\ Joined.join = frame
  <2>1. 0 \in 0 .. MaxFrame /\ frame \in 0 .. MaxFrame
    BY LifecycleAssumption DEF LifecycleInv, TypeOK
  <2>2. 0 \in Epochs
    <3>1. Epoch(MaxFrame) \in Nat
      BY LifecycleAssumption, EpochMonotone
    <3> QED BY <3>1 DEF Epochs, Epoch
  <2>3. 0 \in 0 .. 2
    OBVIOUS
  <2>4. None \in Allocation /\ "joining" \in Statuses
    BY <2>1, <2>2, <2>3 DEF None, Allocation, Statuses
  <2>5. None.leaveConfirm = 0
    BY DEF None
  <2> QED BY <2>1, <2>4, <2>5 DEF Joined, Allocation
<1>2. /\ slots \in [Filters -> Allocation]
      /\ \A f \in Filters \ S : slots[f] = alloc[f]
      /\ \A f \in S : slots[f] = Joined
  BY <1>1 DEF JoinedSlots, LifecycleInv, TypeOK
<1>3. /\ Operation /\ Refresh(slots, S) /\ roots' = roots /\ ~prover.kicked
      /\ \A f \in S : ~Frozen(f)
      /\ alloc' = slots /\ UNCHANGED <<frame, pending>> /\ Now' = Now
  BY DEF Join, Refresh, Operation, Now
<1> HIDE DEF slots
<1>4. \A f \in S : slots[f].status \in InUse
  BY <1>1, <1>2 DEF InUse, Live
<1>5. roots' \in [Filters -> SUBSET Registration]
  BY <1>3 DEF LifecycleInv, TypeOK
<1>6. /\ TypeOK' /\ PassInv' /\ LinkInv'
      /\ KickedHoldsNothing' /\ LeftProverHoldsNothing'
  BY <1>2, <1>3, <1>4, <1>5, RefreshStep
<1>7. NoticeInv'
  BY <1>1, <1>2, <1>3 DEF LifecycleInv, NoticeInv
<1>8. RootInv'
  BY <1>3 DEF LifecycleInv, RootInv
<1>9. FreshInv'
  <2>1. frame <= frame
    BY LifecycleAssumption DEF LifecycleInv, TypeOK
  <2> QED BY <1>1, <1>2, <1>3, <2>1 DEF LifecycleInv, FreshInv, Fresh, RegisteredFor, Serving
<1>10. ASSUME NEW p \in pending, NEW f \in Sources(p.change)
       PROVE  f \in Filters \ S
  BY <1>3, ChangeFilters DEF LifecycleInv, TypeOK, Frozen, Affects, Sources
<1>11. ChangeInv'
  BY <1>2, <1>3, <1>10 DEF LifecycleInv, ChangeInv, Fresh, RegisteredFor
<1> QED BY <1>6, <1>7, <1>8, <1>9, <1>11 DEF LifecycleInv

\* The operations that confirm no join: a leave's confirm, a reject, a leave, a
\* pause and a resume.
LEMMA SlotStep ==
  ASSUME LifecycleInv, NEW S \in SUBSET Filters, NEW slots \in [Filters -> Allocation],
         \A f \in Filters \ S : slots[f] = alloc[f],
         \A f \in S :
           /\ alloc[f].status \in Live
           /\ slots[f].status \in Serving \cup {"left"}
           /\ slots[f].status \in Serving => alloc[f].status \in Serving
           /\ slots[f].join = alloc[f].join /\ slots[f].joinConfirm = alloc[f].joinConfirm
           /\ slots[f].hops = alloc[f].hops
           /\ slots[f].status \in {"active", "paused"} => slots[f].leaveConfirm = 0
           /\ slots[f].status = "leaving" => slots[f].leaveConfirm \in {0, slots[f].leave + 1},
         Operation, Refresh(slots, S), UNCHANGED roots
  PROVE  LifecycleInv'
<1>1. alloc' = slots /\ UNCHANGED <<frame, pending, roots>>
  BY DEF Refresh, Operation
<1>2. \A f \in S : slots[f].status \in InUse /\ slots[f].status # "joining"
  BY DEF Serving, InUse, Live
<1>3. prover.kicked => S = {}
  BY DEF LifecycleInv, KickedHoldsNothing
<1>4. roots' \in [Filters -> SUBSET Registration]
  BY <1>1 DEF LifecycleInv, TypeOK
<1>5. /\ TypeOK' /\ PassInv' /\ LinkInv'
      /\ KickedHoldsNothing' /\ LeftProverHoldsNothing'
  BY <1>2, <1>3, <1>4, RefreshStep
<1>6. RootInv' /\ FreshInv' /\ ChangeInv'
  BY <1>1, <1>2, QuietStep
<1>7. NoticeInv'
  BY <1>1, <1>2 DEF LifecycleInv, NoticeInv
<1> QED BY <1>5, <1>6, <1>7 DEF LifecycleInv

LEMMA ConfirmLeavesStep ==
  ASSUME LifecycleInv, NEW S \in SUBSET Filters, ConfirmLeaves(S)
  PROVE  LifecycleInv'
<1> DEFINE slots == [f \in Filters |-> IF f \in S THEN Confirmed(alloc[f], f) ELSE alloc[f]]
<1>1. Now \in Epochs /\ alloc \in [Filters -> Allocation]
  BY EpochBounded DEF LifecycleInv, TypeOK, Now
<1>2. ASSUME NEW f \in S
      PROVE  /\ alloc[f].status = "leaving" /\ Now = alloc[f].leave + 1
             /\ slots[f] = [alloc[f] EXCEPT !.leaveConfirm = Now]
  BY DEF ConfirmLeaves, validate_confirm_timing, Confirmed
<1>3. Operation /\ Refresh(slots, S) /\ UNCHANGED roots
  BY DEF ConfirmLeaves, ConfirmSlots
<1>4. \A f \in Filters \ S : slots[f] = alloc[f]
  OBVIOUS
<1>5. \A f \in S : alloc[f] \in Allocation
  BY <1>1
<1>6. slots = [f \in Filters |-> slots[f]]
  OBVIOUS
<1> HIDE DEF slots
<1>7. ASSUME NEW f \in S PROVE slots[f] \in Allocation
  <2>1. slots[f] = [alloc[f] EXCEPT !.leaveConfirm = Now]
    BY <1>2
  <2>2. alloc[f] \in Allocation
    BY <1>5
  <2>3. [alloc[f] EXCEPT !.leaveConfirm = Now] \in Allocation
    BY <1>1, <2>2, AllocationUpdates
  <2> QED BY <2>1, <2>3
<1>8. slots \in [Filters -> Allocation]
  BY <1>1, <1>4, <1>6, <1>7
<1>9. ASSUME NEW f \in S
      PROVE
           /\ alloc[f].status \in Live
           /\ slots[f].status \in Serving \cup {"left"}
           /\ slots[f].status \in Serving => alloc[f].status \in Serving
           /\ slots[f].join = alloc[f].join /\ slots[f].joinConfirm = alloc[f].joinConfirm
           /\ slots[f].hops = alloc[f].hops
           /\ slots[f].status \in {"active", "paused"} => slots[f].leaveConfirm = 0
           /\ slots[f].status = "leaving" => slots[f].leaveConfirm \in {0, slots[f].leave + 1}
  BY <1>2, <1>5 DEF Allocation, Live, Serving
<1> QED BY <1>3, <1>4, <1>8, <1>9, SlotStep

LEMMA RejectStep ==
  ASSUME LifecycleInv, NEW S \in SUBSET Filters, Reject(S)
  PROVE  LifecycleInv'
<1> DEFINE slots == [f \in Filters |-> IF f \in S THEN Rejected(alloc[f]) ELSE alloc[f]]
<1>1. alloc \in [Filters -> Allocation]
  BY DEF LifecycleInv, TypeOK
<1>2. ASSUME NEW f \in S
      PROVE  \/ /\ alloc[f].status = "joining"
                /\ slots[f] = [alloc[f] EXCEPT !.status = "left"]
             \/ /\ alloc[f].status = "leaving" /\ alloc[f].leaveConfirm = 0
                /\ slots[f] = [alloc[f] EXCEPT !.status = "active"]
  BY DEF Reject, validate_confirm_timing, Rejected
<1>3. Operation /\ Refresh(slots, S) /\ UNCHANGED roots
  BY DEF Reject
<1>4. \A f \in Filters \ S : slots[f] = alloc[f]
  OBVIOUS
<1>5. \A f \in S : alloc[f] \in Allocation
  BY <1>1
<1>6. slots = [f \in Filters |-> slots[f]]
  OBVIOUS
<1> HIDE DEF slots
<1>7. ASSUME NEW f \in S PROVE slots[f] \in Allocation
  BY <1>1, <1>2, <1>5, AllocationUpdates DEF Statuses
<1>8. slots \in [Filters -> Allocation]
  BY <1>1, <1>4, <1>6, <1>7
<1>9. ASSUME NEW f \in S
      PROVE
           /\ alloc[f].status \in Live
           /\ slots[f].status \in Serving \cup {"left"}
           /\ slots[f].status \in Serving => alloc[f].status \in Serving
           /\ slots[f].join = alloc[f].join /\ slots[f].joinConfirm = alloc[f].joinConfirm
           /\ slots[f].hops = alloc[f].hops
           /\ slots[f].status \in {"active", "paused"} => slots[f].leaveConfirm = 0
           /\ slots[f].status = "leaving" => slots[f].leaveConfirm \in {0, slots[f].leave + 1}
  BY <1>2, <1>5 DEF Allocation, Live, Serving
<1> QED BY <1>3, <1>4, <1>8, <1>9, SlotStep

LEMMA LeaveStep ==
  ASSUME LifecycleInv, NEW S \in SUBSET Filters, Leave(S)
  PROVE  LifecycleInv'
<1> DEFINE slots == [f \in Filters |->
                       IF f \in S THEN [alloc[f] EXCEPT !.status = "leaving", !.leave = Now]
                       ELSE alloc[f]]
<1>1. Now \in Epochs /\ alloc \in [Filters -> Allocation]
  BY EpochBounded DEF LifecycleInv, TypeOK, Now
<1>2. ASSUME NEW f \in S
      PROVE  /\ alloc[f].status \in {"active", "paused"} /\ alloc[f].leaveConfirm = 0
             /\ slots[f] = [alloc[f] EXCEPT !.status = "leaving", !.leave = Now]
  BY DEF Leave, LifecycleInv, NoticeInv
<1>3. Operation /\ Refresh(slots, S) /\ UNCHANGED roots
  BY DEF Leave
<1>4. \A f \in Filters \ S : slots[f] = alloc[f]
  OBVIOUS
<1>5. \A f \in S : alloc[f] \in Allocation
  BY <1>1
<1>6. slots = [f \in Filters |-> slots[f]]
  OBVIOUS
<1> HIDE DEF slots
<1>7. ASSUME NEW f \in S PROVE slots[f] \in Allocation
  <2>1. slots[f] = [alloc[f] EXCEPT !.status = "leaving", !.leave = Now]
    BY <1>2
  <2>2. alloc[f] \in Allocation
    BY <1>5
  <2>3. [alloc[f] EXCEPT !.status = "leaving", !.leave = Now] \in Allocation
    BY <1>1, <2>2, AllocationUpdates
  <2> QED BY <2>1, <2>3
<1>8. slots \in [Filters -> Allocation]
  BY <1>1, <1>4, <1>6, <1>7
<1>9. ASSUME NEW f \in S
      PROVE
           /\ alloc[f].status \in Live
           /\ slots[f].status \in Serving \cup {"left"}
           /\ slots[f].status \in Serving => alloc[f].status \in Serving
           /\ slots[f].join = alloc[f].join /\ slots[f].joinConfirm = alloc[f].joinConfirm
           /\ slots[f].hops = alloc[f].hops
           /\ slots[f].status \in {"active", "paused"} => slots[f].leaveConfirm = 0
           /\ slots[f].status = "leaving" => slots[f].leaveConfirm \in {0, slots[f].leave + 1}
  BY <1>2, <1>5 DEF Allocation, Live, Serving
<1> QED BY <1>3, <1>4, <1>8, <1>9, SlotStep

LEMMA PauseStep ==
  ASSUME LifecycleInv, NEW g \in Filters, Pause(g) \/ Resume(g)
  PROVE  LifecycleInv'
<1>1. alloc \in [Filters -> Allocation]
  BY DEF LifecycleInv, TypeOK
<1>2. PICK to \in {"active", "paused"} :
        /\ Operation /\ alloc[g].status \in {"active", "paused"}
        /\ Refresh([alloc EXCEPT ![g].status = to], {g}) /\ UNCHANGED roots
  BY DEF Pause, Resume, SetStatus
<1> DEFINE slots == [alloc EXCEPT ![g].status = to]
<1>3. slots[g] = [alloc[g] EXCEPT !.status = to] /\ alloc[g].leaveConfirm = 0
  BY <1>1, <1>2 DEF LifecycleInv, NoticeInv
<1>4. slots \in [Filters -> Allocation] /\ \A f \in Filters \ {g} : slots[f] = alloc[f]
  BY <1>1, <1>3 DEF Allocation, Statuses
<1>5. \A f \in {g} :
           /\ alloc[f].status \in Live
           /\ slots[f].status \in Serving \cup {"left"}
           /\ slots[f].status \in Serving => alloc[f].status \in Serving
           /\ slots[f].join = alloc[f].join /\ slots[f].joinConfirm = alloc[f].joinConfirm
           /\ slots[f].hops = alloc[f].hops
           /\ slots[f].status \in {"active", "paused"} => slots[f].leaveConfirm = 0
           /\ slots[f].status = "leaving" => slots[f].leaveConfirm \in {0, slots[f].leave + 1}
  BY <1>1, <1>2, <1>3 DEF Allocation, Live, Serving
<1>6. Operation /\ Refresh(slots, {g}) /\ UNCHANGED roots /\ {g} \in SUBSET Filters
  BY <1>2
<1> HIDE DEF slots
<1> QED BY <1>4, <1>5, <1>6, SlotStep

\* What ConfirmStorage does to one slot.
ConfirmedSlot(f, a) ==
  \/ /\ alloc[f].status = "joining" /\ a = alloc[f]
  \/ /\ alloc[f].status = "joining" /\ Now = Epoch(alloc[f].join) + 1
     /\ a = [alloc[f] EXCEPT !.status = "active", !.joinConfirm = Now,
                             !.epoch = Now + 1, !.moved = 0]
  \/ /\ alloc[f].status = "active"
     /\ a = [alloc[f] EXCEPT !.epoch = Now + 1, !.moved = 0]

LEMMA ConfirmedSlotType ==
  ASSUME NEW f \in Filters, alloc[f] \in Allocation, NEW a, ConfirmedSlot(f, a),
         Now \in Epochs, Now + 1 \in Epochs, 0 \in Epochs
  PROVE  /\ a \in Allocation
         /\ a.status \in {"joining", "active"} /\ a.join = alloc[f].join
         /\ a.leaveConfirm = alloc[f].leaveConfirm /\ a.hops = alloc[f].hops
         /\ a.status = "joining" => a = alloc[f]
         /\ \/ alloc[f].status = "active" /\ a.joinConfirm = alloc[f].joinConfirm
            \/ alloc[f].status = "joining"
<1>1. CASE alloc[f].status = "joining" /\ a = alloc[f]
  BY <1>1
<1>2. CASE /\ alloc[f].status = "joining"
           /\ a = [alloc[f] EXCEPT !.status = "active", !.joinConfirm = Now,
                                   !.epoch = Now + 1, !.moved = 0]
  BY <1>2 DEF Allocation, Statuses
<1>3. CASE /\ alloc[f].status = "active"
           /\ a = [alloc[f] EXCEPT !.epoch = Now + 1, !.moved = 0]
  BY <1>3 DEF Allocation, Statuses
<1> QED BY <1>1, <1>2, <1>3 DEF ConfirmedSlot

LEMMA ConfirmStorageStep ==
  ASSUME LifecycleInv, NEW S \in SUBSET Filters, NEW signed \in 0 .. MaxFrame,
         ConfirmStorage(S, signed)
  PROVE  LifecycleInv'
<1> DEFINE slots   == [f \in Filters |-> IF f \in S THEN Confirmed(alloc[f], f) ELSE alloc[f]]
           targets == pre_registration_targets(S, Now + 1)
           reg     == [epoch |-> Now + 1, made |-> Epoch(signed) + 1]
           Reg(f, e) == \E r \in roots'[f] : r.epoch = e
<1>1. /\ Now \in Nat /\ Now \in Epochs /\ Now + 1 \in Epochs
      /\ alloc \in [Filters -> Allocation] /\ roots \in [Filters -> SUBSET Registration]
  BY EpochBounded DEF LifecycleInv, TypeOK, Now
<1>2. /\ Operation /\ Refresh(slots, S) /\ alloc' = slots
      /\ UNCHANGED <<frame, pending>> /\ Now' = Now
      /\ Epoch(signed) = Now
      /\ roots' = [f \in Filters |-> IF f \in S \cup targets THEN Upsert(roots[f], reg) ELSE roots[f]]
  BY DEF ConfirmStorage, ConfirmSlots, Refresh, Operation, RegisterRoots, validate_confirm_epoch, Now
<1>3. ASSUME NEW f \in S PROVE ConfirmedSlot(f, slots[f])
  <2>1. alloc[f].status \in {"joining", "active"} /\ validate_confirm_timing(alloc[f])
    BY DEF ConfirmStorage
  <2>2. slots[f] = Confirmed(alloc[f], f)
    OBVIOUS
  <2> HIDE DEF slots
  <2> QED BY <2>1, <2>2 DEF ConfirmedSlot, Confirmed, validate_confirm_timing
<1>4. /\ \A f \in Filters \ S : slots[f] = alloc[f]
      /\ slots = [f \in Filters |-> slots[f]]
  OBVIOUS
<1> HIDE DEF slots, targets
<1>5. 0 \in Epochs
  <2>1. Epoch(MaxFrame) \in Nat
    BY LifecycleAssumption, EpochMonotone
  <2> QED BY <2>1 DEF Epochs, Epoch
<1>6. ASSUME NEW f \in S
      PROVE  /\ slots[f] \in Allocation
             /\ slots[f].status \in {"joining", "active"} /\ slots[f].join = alloc[f].join
             /\ slots[f].leaveConfirm = alloc[f].leaveConfirm /\ slots[f].hops = alloc[f].hops
             /\ slots[f].status = "joining" => slots[f] = alloc[f]
             /\ \/ alloc[f].status = "active" /\ slots[f].joinConfirm = alloc[f].joinConfirm
                \/ alloc[f].status = "joining"
  <2>1. f \in Filters /\ alloc[f] \in Allocation /\ ConfirmedSlot(f, slots[f])
    BY <1>1, <1>3
  <2> QED BY <1>1, <1>5, <2>1, ConfirmedSlotType
<1>7. slots \in [Filters -> Allocation]
  BY <1>1, <1>4, <1>6
<1>8. reg \in Registration /\ reg.epoch = Now + 1
  BY <1>1, <1>2 DEF Registration
<1> HIDE DEF reg
<1>9. ASSUME NEW f \in Filters
      PROVE  LET U == Upsert(roots[f], reg) IN
             /\ U \in SUBSET Registration /\ reg \in U
             /\ \A x \in U : x.epoch <= Now + 1
             /\ \A x, y \in U : x.epoch = y.epoch => x = y
             /\ \A x \in roots[f] : x.epoch + 1 >= Now => \E y \in U : y.epoch = x.epoch
  <2>1. /\ roots[f] \in SUBSET Registration
        /\ \A x \in roots[f] : x.epoch <= Now + 1
        /\ \A x, y \in roots[f] : x.epoch = y.epoch => x = y
    BY <1>1 DEF LifecycleInv, RootInv
  <2> QED BY <1>1, <1>8, <2>1, UpsertKeeps
<1>10. roots' \in [Filters -> SUBSET Registration]
  BY <1>1, <1>2, <1>9
<1>11. RootInv'
  <2> SUFFICES ASSUME NEW f \in Filters
               PROVE  /\ \A r \in roots'[f] : r.epoch <= Now + 1
                      /\ \A r, s \in roots'[f] : r.epoch = s.epoch => r = s
    BY <1>2 DEF RootInv
  <2>1. CASE f \in S \cup targets
    BY <1>2, <1>9, <2>1
  <2>2. CASE f \notin S \cup targets
    BY <1>2, <2>2 DEF LifecycleInv, RootInv
  <2> QED BY <2>1, <2>2
<1>12. ASSUME NEW f \in Filters, NEW e \in Nat, RegisteredFor(f, e), e + 1 >= Now
       PROVE  Reg(f, e)
  <2>1. CASE f \in S \cup targets
    <3>1. \E y \in Upsert(roots[f], reg) : y.epoch = e
      BY <1>9, <1>12 DEF RegisteredFor
    <3> QED BY <1>2, <2>1, <3>1 DEF RegisteredFor
  <2>2. CASE f \notin S \cup targets
    BY <1>2, <1>12, <2>2 DEF RegisteredFor
  <2> QED BY <2>1, <2>2
<1>13. ASSUME NEW f \in Filters, f \in S \cup targets
       PROVE  Reg(f, Now + 1)
  BY <1>2, <1>8, <1>9, <1>13 DEF RegisteredFor
<1>14. /\ TypeOK' /\ PassInv' /\ LinkInv'
       /\ KickedHoldsNothing' /\ LeftProverHoldsNothing'
  <2>1. \A f \in S : slots[f].status \in InUse
    BY <1>6 DEF InUse, Live
  <2>2. prover.kicked => S = {}
    BY <1>6 DEF LifecycleInv, KickedHoldsNothing, Live
  <2> QED BY <1>2, <1>4, <1>7, <1>10, <2>1, <2>2, RefreshStep
<1>15. NoticeInv'
  <2> SUFFICES ASSUME NEW f \in Filters
               PROVE  /\ slots[f].status \in {"joining", "active", "paused"} => slots[f].leaveConfirm = 0
                      /\ slots[f].status = "leaving" => slots[f].leaveConfirm \in {0, slots[f].leave + 1}
    BY <1>2 DEF NoticeInv
  <2>1. CASE f \in S
    <3>1. alloc[f].leaveConfirm = 0
      BY <1>6, <2>1 DEF LifecycleInv, NoticeInv
    <3> QED BY <1>6, <2>1, <3>1
  <2>2. CASE f \notin S
    BY <1>4, <2>2 DEF LifecycleInv, NoticeInv
  <2> QED BY <2>1, <2>2
\* A member confirmed by this operation.
<1> HIDE DEF Reg
<1> DEFINE New(f) == f \in S /\ alloc[f].status = "joining" /\ slots[f].status = "active"
<1>16. ASSUME NEW f \in Filters, New(f)
       PROVE  slots[f].joinConfirm = Now /\ Now = Epoch(alloc[f].join) + 1
  <2>1. ConfirmedSlot(f, slots[f]) /\ alloc[f] \in Allocation
    BY <1>1, <1>3, <1>16
  <2> QED BY <1>16, <2>1 DEF ConfirmedSlot, Allocation
<1>17. ASSUME NEW f \in Filters, ~New(f), slots[f].status \in Serving
       PROVE  /\ alloc[f].status \in Serving /\ slots[f].joinConfirm = alloc[f].joinConfirm
  BY <1>4, <1>6, <1>17 DEF Serving
<1>18. \A f \in Filters : /\ alloc[f].join \in 0 .. MaxFrame /\ Epoch(alloc[f].join) \in Nat
                          /\ alloc[f].joinConfirm \in Nat
  <2> TAKE f \in Filters
  <2>1. alloc[f].join \in 0 .. MaxFrame /\ alloc[f].joinConfirm \in Epochs
    BY <1>1 DEF Allocation
  <2> QED BY <2>1, EpochBounded, EpochsAreNaturals
<1>19a. \A f \in Filters : slots[f].hops = alloc[f].hops
  BY <1>4, <1>6
<1>19. FreshInv'
  <2> SUFFICES ASSUME NEW f \in Filters
               PROVE  /\ slots[f].join <= frame
                      /\ slots[f].status \in Serving =>
                           /\ slots[f].joinConfirm > 0 /\ slots[f].joinConfirm <= Now
                           /\ Now <= slots[f].joinConfirm + 1 /\ slots[f].hops <= 1 =>
                                Reg(f, slots[f].joinConfirm + 1)
    BY <1>2 DEF FreshInv, Fresh, RegisteredFor, Reg
  <2>1. slots[f].join <= frame
    BY <1>4, <1>6 DEF LifecycleInv, FreshInv
  <2>2. CASE New(f)
    BY <1>1, <1>13, <1>16, <1>18, <2>1, <2>2
  <2>3. CASE ~New(f) /\ slots[f].status \in Serving
    <3>1. alloc[f].status \in Serving /\ slots[f].joinConfirm = alloc[f].joinConfirm
      BY <1>17, <2>3
    <3>2. alloc[f].joinConfirm > 0 /\ alloc[f].joinConfirm <= Now
      BY <3>1 DEF LifecycleInv, FreshInv
    <3>3. ASSUME Now <= alloc[f].joinConfirm + 1, alloc[f].hops <= 1
          PROVE  Reg(f, alloc[f].joinConfirm + 1)
      <4>1. RegisteredFor(f, alloc[f].joinConfirm + 1)
        BY <3>1, <3>3 DEF LifecycleInv, FreshInv, Fresh
      <4>2. alloc[f].joinConfirm + 1 \in Nat /\ alloc[f].joinConfirm + 1 + 1 >= Now
        BY <1>1, <1>18, <3>3
      <4> QED BY <1>12, <4>1, <4>2
    <3> QED BY <1>19a, <2>1, <3>1, <3>2, <3>3
  <2> QED BY <2>1, <2>2, <2>3
<1>20. ASSUME NEW p \in pending, NEW f \in Sources(p.change)
       PROVE  /\ f \in Filters /\ Results(p.change) \subseteq Filters /\ p.effective \in Nat
  BY ChangeFilters, EpochsAreNaturals DEF LifecycleInv, TypeOK
<1>21. ChangeInv'
  <2> SUFFICES ASSUME NEW p \in pending, NEW f \in Sources(p.change), alloc[f].hops <= 0
               PROVE  /\ slots[f].status = "joining" => p.effective >= Epoch(slots[f].join) + 2
                      /\ slots[f].status \in Serving /\ Now <= slots[f].joinConfirm + 1 =>
                           /\ p.effective >= slots[f].joinConfirm + 1
                           /\ p.effective = slots[f].joinConfirm + 1 =>
                                \A g \in Results(p.change) : Reg(g, p.effective)
    BY <1>2, <1>19a, <1>20 DEF ChangeInv, Fresh, RegisteredFor, Reg
  <2>2. slots[f].status = "joining" => p.effective >= Epoch(slots[f].join) + 2
    BY <1>4, <1>6, <1>20 DEF LifecycleInv, ChangeInv
  <2>3. CASE New(f)
    <3>1. p.effective >= Now + 1 /\ slots[f].joinConfirm = Now
      BY <1>1, <1>16, <1>18, <1>20, <2>3 DEF LifecycleInv, ChangeInv
    <3>2. ASSUME p.effective = Now + 1, NEW g \in Results(p.change)
          PROVE  Reg(g, Now + 1)
      <4>1. g \in targets
        BY <2>3, <3>2 DEF targets, pre_registration_targets
      <4> QED BY <1>13, <1>20, <4>1
    <3> QED BY <2>2, <3>1, <3>2
  <2>4. CASE ~New(f) /\ slots[f].status \in Serving /\ Now <= slots[f].joinConfirm + 1
    <3>1. alloc[f].status \in Serving /\ slots[f].joinConfirm = alloc[f].joinConfirm
      BY <1>17, <1>20, <2>4
    <3>2. Fresh(f, 0)
      BY <2>4, <3>1 DEF Fresh
    <3>3. /\ p.effective >= alloc[f].joinConfirm + 1
          /\ p.effective = alloc[f].joinConfirm + 1 =>
               \A g \in Results(p.change) : RegisteredFor(g, p.effective)
      BY <3>2 DEF LifecycleInv, ChangeInv
    <3>4. ASSUME p.effective = alloc[f].joinConfirm + 1, NEW g \in Results(p.change)
          PROVE  Reg(g, p.effective)
      <4>1. RegisteredFor(g, p.effective)
        BY <3>3, <3>4
      <4>2. g \in Filters /\ p.effective \in Nat
        BY <1>20
      <4>3. p.effective + 1 >= Now
        BY <1>1, <1>18, <2>4, <3>1, <3>4, <4>2
      <4> QED BY <1>12, <4>1, <4>2, <4>3
    <3> QED BY <2>2, <3>1, <3>3, <3>4
  <2> QED BY <2>2, <2>3, <2>4
<1> QED BY <1>11, <1>14, <1>15, <1>19, <1>21 DEF LifecycleInv
-----------------------------------------------------------------------------
(* Kicks, changes and frames                                               *)

LEMMA KickStep ==
  ASSUME LifecycleInv, Kick
  PROVE  LifecycleInv'
<1> DEFINE slots == [f \in Filters |-> IF f \in linked THEN [alloc[f] EXCEPT !.status = "left"]
                                       ELSE alloc[f]]
<1>1. /\ alloc \in [Filters -> Allocation] /\ linked \subseteq Filters
      /\ linked \subseteq {f \in Filters : alloc[f].status # "none"}
      /\ enumerated \subseteq {f \in Filters : alloc[f].status # "none"}
  BY DEF LifecycleInv, TypeOK
<1>2. /\ Operation /\ alloc' = slots
      /\ UNCHANGED <<frame, grid, pending, pass, enumerated, linked, roots>>
      /\ prover' = [status |-> "left", kicked |-> TRUE]
  BY DEF Kick, Operation
<1>3. /\ \A f \in Filters \ linked : slots[f] = alloc[f]
      /\ \A f \in linked : slots[f] = [alloc[f] EXCEPT !.status = "left"]
      /\ slots = [f \in Filters |-> slots[f]]
  BY <1>1
<1> HIDE DEF slots
<1>4. ASSUME NEW f \in linked
      PROVE  /\ slots[f] \in Allocation /\ slots[f].status = "left"
             /\ slots[f].join = alloc[f].join /\ slots[f].joinConfirm = alloc[f].joinConfirm
             /\ slots[f].hops = alloc[f].hops
  <2>1. alloc[f] \in Allocation
    BY <1>1
  <2> QED BY <1>3, <2>1 DEF Allocation, Statuses
<1>5. slots \in [Filters -> Allocation]
  BY <1>1, <1>3, <1>4
<1>6. \A f \in Filters : slots[f].status \notin Live
  BY <1>3, <1>4 DEF LifecycleInv, LinkInv, Live
<1>7. ops' \in 0 .. MaxOps
  BY <1>2, LifecycleAssumption DEF LifecycleInv, TypeOK, Operation, Message
<1>8. TypeOK'
  <2>1. /\ linked \subseteq {f \in Filters : slots[f].status # "none"}
        /\ enumerated \subseteq {f \in Filters : slots[f].status # "none"}
    BY <1>1, <1>3, <1>4
  <2> QED BY <1>2, <1>5, <1>7, <2>1 DEF LifecycleInv, TypeOK
<1>9. PassInv'
  BY <1>2 DEF LifecycleInv, PassInv, Now
<1>10. LinkInv' /\ KickedHoldsNothing' /\ LeftProverHoldsNothing'
  BY <1>2, <1>6 DEF LinkInv, KickedHoldsNothing, LeftProverHoldsNothing
<1>11. NoticeInv'
  BY <1>2, <1>6 DEF NoticeInv, Live
<1>12. RootInv' /\ FreshInv' /\ ChangeInv'
  <2>1. \A f \in linked :
          /\ slots[f].join = alloc[f].join /\ slots[f].joinConfirm = alloc[f].joinConfirm
          /\ slots[f].hops = alloc[f].hops
          /\ slots[f].status \in Serving => alloc[f].status \in Serving
          /\ slots[f].status # "joining"
    BY <1>4 DEF Serving
  <2>2. linked \in SUBSET Filters /\ alloc' = slots /\ UNCHANGED <<frame, pending, roots>>
    BY <1>1, <1>2
  <2>3. \A f \in Filters \ linked : slots[f] = alloc[f]
    BY <1>3
  <2> QED BY <1>5, <2>1, <2>2, <2>3, QuietStep
<1> QED BY <1>8, <1>9, <1>10, <1>11, <1>12 DEF LifecycleInv

\* What a step keeps that touches neither the prover's records nor the frame.
LEMMA RecordsUntouched ==
  ASSUME LifecycleInv, UNCHANGED <<frame, prover, alloc, linked, roots>>
  PROVE  /\ Now' = Now
         /\ LinkInv' /\ KickedHoldsNothing' /\ LeftProverHoldsNothing'
         /\ NoticeInv' /\ RootInv' /\ FreshInv'
<1>1. Now' = Now
  BY DEF Now
<1>2. FreshInv'
  BY <1>1 DEF LifecycleInv, FreshInv, Fresh, RegisteredFor
<1> QED BY <1>1, <1>2 DEF LifecycleInv, LinkInv, KickedHoldsNothing, LeftProverHoldsNothing,
                          NoticeInv, RootInv

\* A change is due two epochs on, when every join it found is confirmed or gone
\* and every member it found has sat for an epoch.
LEMMA ProposeStep ==
  ASSUME LifecycleInv, NEW c \in Changes, ProposeChange(c)
  PROVE  LifecycleInv'
<1> DEFINE p == [change |-> c, effective |-> Now + 2]
<1>1. /\ Now \in Nat /\ Now + 2 \in Epochs /\ frame \in Nat /\ frame \in 0 .. MaxFrame
      /\ alloc \in [Filters -> Allocation]
  BY EpochBounded, LifecycleAssumption DEF LifecycleInv, TypeOK, Now
<1>2. /\ pending' \subseteq pending \cup {p} /\ Message
      /\ UNCHANGED <<frame, grid, pass, prover, alloc, linked, roots, enumerated>>
  BY DEF ProposeChange
<1>3. p.change = c /\ p.effective = Now + 2 /\ p \in [change: Changes, effective: Epochs]
  BY <1>1
<1> HIDE DEF p
<1>4. /\ Now' = Now
      /\ LinkInv' /\ KickedHoldsNothing' /\ LeftProverHoldsNothing'
      /\ NoticeInv' /\ RootInv' /\ FreshInv'
  BY <1>2, RecordsUntouched
<1>5. pass.changes = {} /\ pass.ready = {}
  BY <1>2 DEF LifecycleInv, PassInv, Message
<1>6. TypeOK' /\ PassInv'
  <2>1. ops' \in 0 .. MaxOps
    BY <1>2, LifecycleAssumption DEF LifecycleInv, TypeOK, Message
  <2>2. pending' \subseteq [change: Changes, effective: Epochs]
    BY <1>2, <1>3 DEF LifecycleInv, TypeOK
  <2>3. /\ pass' \in [stage: {"open", "reassign", "flip", "done"}, changes: SUBSET pending',
                     ready: SUBSET pending', live: SUBSET Filters]
    BY <1>2, <1>5 DEF LifecycleInv, TypeOK
  <2>4. TypeOK'
    BY <1>2, <2>1, <2>2, <2>3 DEF LifecycleInv, TypeOK
  <2>5. PassInv'
    BY <1>2, <1>4, <1>5 DEF LifecycleInv, PassInv
  <2> QED BY <2>4, <2>5
<1>7. ASSUME NEW f \in Sources(c)
      PROVE  /\ Now + 2 >= Epoch(alloc[f].join) + 2
             /\ Fresh(f, 0) => alloc[f].joinConfirm \in Nat /\ alloc[f].joinConfirm <= Now
  <2>1. f \in Filters
    BY ChangeFilters
  <2>2. alloc[f].join \in Nat /\ alloc[f].joinConfirm \in Nat
    BY <1>1, <2>1, SlotFields
  <2>3. alloc[f].join \in Nat /\ alloc[f].join <= frame /\ alloc[f].joinConfirm \in Nat
    BY <2>1, <2>2 DEF LifecycleInv, FreshInv
  <2>4. Epoch(alloc[f].join) \in Nat /\ Epoch(alloc[f].join) <= Now
    BY <1>1, <2>3, EpochMonotone DEF Now
  <2> QED BY <1>1, <2>1, <2>3, <2>4 DEF LifecycleInv, FreshInv, Fresh
<1>8. ChangeInv'
  <2> SUFFICES ASSUME NEW f \in Sources(c)
               PROVE  /\ alloc[f].status = "joining" => Now + 2 >= Epoch(alloc[f].join) + 2
                      /\ Fresh(f, 0) => /\ Now + 2 >= alloc[f].joinConfirm + 1
                                        /\ Now + 2 # alloc[f].joinConfirm + 1
    BY <1>2, <1>3, <1>4 DEF LifecycleInv, ChangeInv, Fresh, RegisteredFor
  <2> QED BY <1>1, <1>7
<1> QED BY <1>4, <1>6, <1>8 DEF LifecycleInv

\* What a step of the pass keeps that moves no slot.
LEMMA PassStep ==
  ASSUME LifecycleInv, UNCHANGED <<frame, prover, alloc, linked, roots, enumerated, ops>>,
         pending' \subseteq pending, grid' \subseteq Filters,
         pass' \in [stage: {"open", "reassign", "flip", "done"}, changes: SUBSET pending',
                   ready: SUBSET pending', live: SUBSET Filters],
         PassInv'
  PROVE  LifecycleInv'
<1>1. /\ Now' = Now
      /\ LinkInv' /\ KickedHoldsNothing' /\ LeftProverHoldsNothing'
      /\ NoticeInv' /\ RootInv' /\ FreshInv'
  BY RecordsUntouched
<1>2. TypeOK'
  BY DEF LifecycleInv, TypeOK
<1>3. ChangeInv'
  BY <1>1 DEF LifecycleInv, ChangeInv, Fresh, RegisteredFor
<1> QED BY <1>1, <1>2, <1>3 DEF LifecycleInv

LEMMA GridStep ==
  ASSUME LifecycleInv,
         BeginPass \/ EndReassign \/ EndPass \/ \E p \in pass.changes : Flip(p)
  PROVE  LifecycleInv'
<1>1. /\ pass \in [stage: {"open", "reassign", "flip", "done"}, changes: SUBSET pending,
                  ready: SUBSET pending, live: SUBSET Filters]
      /\ pending \subseteq [change: Changes, effective: Epochs]
      /\ grid \subseteq Filters
  BY DEF LifecycleInv, TypeOK
<1>2. CASE BeginPass
  <2>0. PICK ready \in SUBSET Due : \E dropped \in SUBSET (Due \ ready) :
          /\ pass' = Pass("reassign", ready, ready, grid)
          /\ pending' = pending \ dropped
    BY <1>2 DEF BeginPass
  <2>1. PICK dropped \in SUBSET (Due \ ready) :
          /\ pass' = Pass("reassign", ready, ready, grid)
          /\ pending' = pending \ dropped
    BY <2>0
  <2>2. /\ UNCHANGED <<frame, grid, prover, alloc, linked, roots, enumerated, ops>> /\ Now' = Now
    BY <1>2 DEF BeginPass, Now
  <2>3. ready \subseteq pending' /\ \A p \in ready : p.effective <= Now
    BY <2>1 DEF Due
  <2>4. pass' \in [stage: {"open", "reassign", "flip", "done"}, changes: SUBSET pending',
                  ready: SUBSET pending', live: SUBSET Filters]
    BY <1>1, <2>1, <2>3 DEF Pass
  <2>5. PassInv'
    BY <2>1, <2>2, <2>3 DEF PassInv, Pass
  <2> QED BY <1>1, <2>1, <2>2, <2>4, <2>5, PassStep
<1>3. CASE EndReassign
  <2>1. /\ pass' = Pass("flip", pass.ready, {}, pass.live) /\ Now' = Now
        /\ UNCHANGED <<frame, grid, pending, prover, alloc, linked, roots, enumerated, ops>>
    BY <1>3 DEF EndReassign, Now
  <2>2. pass' \in [stage: {"open", "reassign", "flip", "done"}, changes: SUBSET pending',
                  ready: SUBSET pending', live: SUBSET Filters]
    BY <1>1, <2>1 DEF Pass
  <2>3. PassInv'
    BY <2>1 DEF PassInv, Pass, LifecycleInv
  <2> QED BY <1>1, <2>1, <2>2, <2>3, PassStep
<1>4. CASE EndPass
  <2>1. /\ pass' = Idle("done") /\ Now' = Now
        /\ UNCHANGED <<frame, grid, pending, prover, alloc, linked, roots, enumerated, ops>>
    BY <1>4 DEF EndPass, Now
  <2>2. pass' \in [stage: {"open", "reassign", "flip", "done"}, changes: SUBSET pending',
                  ready: SUBSET pending', live: SUBSET Filters]
    BY <2>1 DEF Idle, Pass
  <2>3. PassInv'
    BY <2>1 DEF PassInv, Idle, Pass
  <2> QED BY <1>1, <2>1, <2>2, <2>3, PassStep
<1>5. ASSUME NEW p \in pass.changes, Flip(p) PROVE LifecycleInv'
  <2>1. /\ pass.stage = "flip" /\ pending' = pending \ {p} /\ Now' = Now
        /\ grid' = Flipped(p.change, grid)
        /\ UNCHANGED <<frame, prover, alloc, linked, roots, enumerated, ops>>
    BY <1>5 DEF Flip, Now
  <2> DEFINE live == IF p.change.kind = "split" THEN Flipped(p.change, pass.live) ELSE pass.live
  <2>2. pass' = [pass EXCEPT !.changes = pass.changes \ {p}, !.live = live]
    BY <1>5 DEF Flip
  <2>3. Sources(p.change) \subseteq Filters /\ Results(p.change) \subseteq Filters
    BY <1>1, ChangeFilters
  <2>4. grid' \subseteq Filters /\ live \subseteq Filters
    BY <1>1, <2>1, <2>3 DEF Flipped
  <2> HIDE DEF live
  <2>5. pass.ready = {}
    BY <2>1 DEF LifecycleInv, PassInv
  <2>6. /\ pass'.stage = "flip" /\ pass'.changes = pass.changes \ {p} /\ pass'.ready = {}
        /\ pass' \in [stage: {"open", "reassign", "flip", "done"}, changes: SUBSET pending',
                     ready: SUBSET pending', live: SUBSET Filters]
    BY <1>1, <2>1, <2>2, <2>4, <2>5
  <2>7. PassInv'
    BY <2>1, <2>6 DEF LifecycleInv, PassInv
  <2> QED BY <2>1, <2>4, <2>6, <2>7, PassStep
<1> QED BY <1>2, <1>3, <1>4, <1>5

LEMMA EndFrameStep ==
  ASSUME LifecycleInv, EndFrame
  PROVE  LifecycleInv' /\ Now \in Nat /\ Now' \in Nat /\ Now <= Now'
<1>1. /\ pass' = Idle("open") /\ UNCHANGED <<grid, pending, alloc, linked, prover, roots, ops>>
      /\ enumerated' = Enumerated(alloc, prover)
      /\ alloc \in [Filters -> Allocation]
  BY DEF EndFrame, LifecycleInv, TypeOK
<1>2. frame \in Nat /\ frame' \in Nat /\ frame <= frame' /\ frame' \in 0 .. MaxFrame
  BY LifecycleAssumption DEF LifecycleInv, TypeOK, EndFrame
<1>3. Now \in Nat /\ Now' \in Nat /\ Now <= Now'
  BY <1>2, EpochMonotone DEF Now
<1>4. enumerated' \subseteq {f \in Filters : alloc[f].status # "none"}
  BY <1>1 DEF Enumerated
<1>5. TypeOK' /\ PassInv'
  <2>1. pass' \in [stage: {"open", "reassign", "flip", "done"}, changes: SUBSET pending',
                  ready: SUBSET pending', live: SUBSET Filters]
    BY <1>1 DEF Idle, Pass
  <2>2. TypeOK'
    BY <1>1, <1>2, <1>4, <2>1 DEF LifecycleInv, TypeOK
  <2>3. PassInv'
    BY <1>1 DEF PassInv, Idle, Pass
  <2> QED BY <2>2, <2>3
<1>6. /\ LinkInv' /\ KickedHoldsNothing' /\ LeftProverHoldsNothing' /\ NoticeInv'
  BY <1>1 DEF LifecycleInv, LinkInv, KickedHoldsNothing, LeftProverHoldsNothing, NoticeInv
<1>7. RootInv'
  <2> SUFFICES ASSUME NEW f \in Filters
               PROVE  /\ \A r \in roots[f] : r.epoch <= Now' + 1
                      /\ \A r, s \in roots[f] : r.epoch = s.epoch => r = s
    BY <1>1 DEF RootInv
  <2>1. \A r \in roots[f] : r.epoch \in Nat
    <3>1. roots[f] \subseteq Registration
      BY DEF LifecycleInv, TypeOK
    <3>2. \A r \in Registration : r.epoch \in Epochs
      BY DEF Registration
    <3> QED BY <3>1, <3>2, EpochsAreNaturals
  <2> QED BY <1>3, <2>1 DEF LifecycleInv, RootInv
<1>8. \A f \in Filters : alloc[f].joinConfirm \in Nat /\ alloc[f].join \in Nat
  BY <1>1, SlotFields
<1>9. ASSUME NEW f \in Filters, NEW n, alloc[f].status \in Serving,
             Now' <= alloc[f].joinConfirm + 1, alloc[f].hops <= n
      PROVE  Fresh(f, n)
  BY <1>3, <1>8, <1>9 DEF Fresh
<1>10. FreshInv'
  <2> SUFFICES ASSUME NEW f \in Filters
               PROVE  /\ alloc[f].join <= frame'
                      /\ alloc[f].status \in Serving =>
                           /\ alloc[f].joinConfirm > 0 /\ alloc[f].joinConfirm <= Now'
                           /\ Now' <= alloc[f].joinConfirm + 1 /\ alloc[f].hops <= 1 =>
                                RegisteredFor(f, alloc[f].joinConfirm + 1)
    BY <1>1 DEF FreshInv, Fresh, RegisteredFor
  <2>1. alloc[f].join <= frame'
    BY <1>2, <1>8 DEF LifecycleInv, FreshInv
  <2>2. alloc[f].status \in Serving => alloc[f].joinConfirm > 0 /\ alloc[f].joinConfirm <= Now
    BY DEF LifecycleInv, FreshInv
  <2> QED BY <1>3, <1>8, <1>9, <2>1, <2>2 DEF LifecycleInv, FreshInv
<1>11. ASSUME NEW q \in pending PROVE Sources(q.change) \subseteq Filters
  BY ChangeFilters DEF LifecycleInv, TypeOK
<1>12. ChangeInv'
  <2> SUFFICES ASSUME NEW q \in pending, NEW f \in Sources(q.change), alloc[f].hops <= 0
               PROVE  /\ alloc[f].status = "joining" => q.effective >= Epoch(alloc[f].join) + 2
                      /\ alloc[f].status \in Serving /\ Now' <= alloc[f].joinConfirm + 1 =>
                           /\ q.effective >= alloc[f].joinConfirm + 1
                           /\ q.effective = alloc[f].joinConfirm + 1 =>
                                \A g \in Results(q.change) : RegisteredFor(g, q.effective)
    BY <1>1 DEF ChangeInv, Fresh, RegisteredFor
  <2> QED BY <1>9, <1>11 DEF LifecycleInv, ChangeInv
<1> QED BY <1>3, <1>5, <1>6, <1>7, <1>10, <1>12 DEF LifecycleInv
\* The slots a change moves, and the one that stays on the result.
Moving(p, olds, last, new) ==
  /\ olds \subseteq Filters \cap enumerated
  /\ last \in olds /\ last \in Sources(p.change)
  /\ new \in Results(p.change)
  /\ Rekey(olds, last, new, p.effective)

LEMMA ReassignMoves ==
  ASSUME LifecycleInv, NEW p \in pending, Reassigned(p)
  PROVE  \/ UNCHANGED <<alloc, linked>>
         \/ \E olds \in SUBSET Filters, last \in Filters, new \in Filters :
              Moving(p, olds, last, new)
<1> DEFINE c == p.change
           moving == {i \in DOMAIN c.children : Movable(c.children[i])}
<1>1. /\ c \in Changes /\ Sources(c) \subseteq Filters /\ Results(c) \subseteq Filters
  BY ChangeFilters DEF LifecycleInv, TypeOK
<1>2. c \in Change
  BY <1>1, LifecycleAssumption
<1>3. CASE /\ c.kind = "split" /\ Movable(c.parent)
           /\ \E i \in DOMAIN c.children : Rekey({c.parent}, c.parent, c.children[i], p.effective)
  <2>1. PICK i \in DOMAIN c.children : Rekey({c.parent}, c.parent, c.children[i], p.effective)
    BY <1>3
  <2>2. /\ c.parent \in Sources(c) /\ c.children[i] \in Results(c) /\ c.parent \in enumerated
    BY <1>3, <2>1 DEF Sources, Results, Movable
  <2>3. c.parent \in Filters /\ c.children[i] \in Filters
    BY <1>1, <2>2
  <2>4. Moving(p, {c.parent}, c.parent, c.children[i])
    BY <2>1, <2>2, <2>3 DEF Moving
  <2> QED BY <2>3, <2>4
<1>4. CASE /\ c.kind = "merge"
           /\ \E i \in moving :
                /\ \A j \in moving : j <= i
                /\ Rekey({c.children[j] : j \in moving}, c.children[i], c.parent, p.effective)
  <2> DEFINE olds == {c.children[j] : j \in moving}
  <2>1. PICK i \in moving : Rekey(olds, c.children[i], c.parent, p.effective)
    BY <1>4
  <2>2. olds \subseteq Sources(c) /\ c.children[i] \in olds /\ c.parent \in Results(c)
    BY <1>4, <2>1 DEF Sources, Results
  <2>3. olds \subseteq enumerated
    BY DEF Movable
  <2> HIDE DEF olds
  <2>4. olds \in SUBSET Filters /\ c.children[i] \in Filters /\ c.parent \in Filters
    BY <1>1, <2>2
  <2>5. Moving(p, olds, c.children[i], c.parent)
    BY <2>1, <2>2, <2>3, <2>4 DEF Moving
  <2> QED BY <2>4, <2>5
<1>5. CASE UNCHANGED <<alloc, linked>>
  BY <1>5
<1> QED BY <1>3, <1>4, <1>5 DEF Reassigned

\* A slot after a change moved it: the record goes along, the history grows.
LEMMA MovedRecord ==
  ASSUME NEW a \in Allocation, NEW e \in Epochs
  PROVE  LET m == MovedBy(a, e) IN
         /\ m \in Allocation /\ m.status = a.status /\ m.join = a.join
         /\ m.joinConfirm = a.joinConfirm /\ m.leave = a.leave
         /\ m.leaveConfirm = a.leaveConfirm /\ m.epoch = a.epoch
         /\ m.moved = (IF a.moved = 0 THEN e ELSE Chained)
         /\ m.hops = (IF a.hops = 0 THEN 1 ELSE 2)
<1> DEFINE h == IF a.hops = 0 THEN 1 ELSE 2
           v == IF a.moved = 0 THEN e ELSE Chained
<1>1. h \in 0 .. 2 /\ v \in Epochs \cup {Chained}
  OBVIOUS
<1>2. MovedBy(a, e) = [a EXCEPT !.moved = v, !.hops = h]
  BY DEF MovedBy, Allocation
<1> HIDE DEF h, v
<1>3. LET m == [a EXCEPT !.moved = v, !.hops = h] IN
      /\ m \in Allocation /\ m.status = a.status /\ m.join = a.join
      /\ m.joinConfirm = a.joinConfirm /\ m.leave = a.leave
      /\ m.leaveConfirm = a.leaveConfirm /\ m.epoch = a.epoch
      /\ m.moved = v /\ m.hops = h
  BY <1>1 DEF Allocation
<1> QED BY <1>2, <1>3 DEF h, v

\* What the pass does to the slots: nothing, or it moves some of them.
LEMMA ReassignCases ==
  ASSUME LifecycleInv, NEW p \in pass.changes, Reassign(p)
  PROVE  /\ p \in pending /\ p.effective <= Now /\ Now' = Now
         /\ pass' = [pass EXCEPT !.changes = pass.changes \ {p}] /\ pass.stage = "reassign"
         /\ UNCHANGED <<frame, grid, pending, prover, roots, enumerated, ops>>
         /\ \/ UNCHANGED <<alloc, linked>>
            \/ \E olds \in SUBSET Filters, last \in Filters, new \in Filters :
                 Moving(p, olds, last, new)
<1>1. p \in pending /\ p.effective <= Now
  BY DEF LifecycleInv, TypeOK, PassInv
<1>2. UNCHANGED <<alloc, linked>> \/ Reassigned(p)
  BY DEF Reassign
<1>3. /\ pass' = [pass EXCEPT !.changes = pass.changes \ {p}] /\ pass.stage = "reassign"
      /\ UNCHANGED <<frame, grid, pending, prover, roots, enumerated, ops>> /\ Now' = Now
  BY DEF Reassign, Now
<1>4. CASE UNCHANGED <<alloc, linked>>
  BY <1>1, <1>3, <1>4
<1>5. CASE Reassigned(p)
  BY <1>1, <1>3, <1>5, ReassignMoves
<1> QED BY <1>2, <1>4, <1>5

\* The change found its sources settled: a member that it moves in its first
\* epoch was registered for that epoch where it is moved to.
LEMMA ReassignStep ==
  ASSUME LifecycleInv, NEW p \in pass.changes, Reassign(p)
  PROVE  LifecycleInv'
<1>1. /\ p \in pending /\ p.effective <= Now /\ Now' = Now
      /\ pass' = [pass EXCEPT !.changes = pass.changes \ {p}] /\ pass.stage = "reassign"
      /\ UNCHANGED <<frame, grid, pending, prover, roots, enumerated, ops>>
  BY ReassignCases
<1>2. /\ alloc \in [Filters -> Allocation] /\ p.effective \in Epochs /\ p.effective \in Nat
      /\ Now \in Nat
      /\ \A q \in pending : Sources(q.change) \subseteq Filters
  BY <1>1, ChangeFilters, EpochsAreNaturals, EpochBounded DEF LifecycleInv, TypeOK, Now
<1>3. /\ pass' \in [stage: {"open", "reassign", "flip", "done"}, changes: SUBSET pending',
                    ready: SUBSET pending', live: SUBSET Filters]
      /\ PassInv'
  <2>1. /\ pass'.stage = "reassign" /\ pass'.changes \subseteq pass.changes
        /\ pass'.ready = pass.ready
        /\ pass' \in [stage: {"open", "reassign", "flip", "done"}, changes: SUBSET pending',
                      ready: SUBSET pending', live: SUBSET Filters]
    BY <1>1 DEF LifecycleInv, TypeOK
  <2> QED BY <1>1, <2>1 DEF LifecycleInv, PassInv
<1>4. CASE UNCHANGED <<alloc, linked>>
  BY <1>1, <1>3, <1>4, PassStep DEF LifecycleInv, TypeOK
<1>5. ASSUME NEW olds \in SUBSET Filters, NEW last \in Filters, NEW new \in Filters,
             Moving(p, olds, last, new)
      PROVE  LifecycleInv'
  <2> DEFINE slots == MovedSlots(olds, last, new, p.effective)
  <2>1. /\ olds \subseteq enumerated /\ last \in olds /\ last \in Sources(p.change)
        /\ new \in Results(p.change)
        /\ alloc' = slots /\ linked' = (linked \ olds) \cup {new}
    BY <1>5 DEF Moving, Rekey
  <2>2. /\ slots = [f \in Filters |-> slots[f]]
        /\ slots[new] = MovedBy(alloc[last], p.effective)
        /\ \A f \in olds \ {new} : slots[f] = [alloc[f] EXCEPT !.status = "historic"]
        /\ \A f \in Filters \ (olds \cup {new}) : slots[f] = alloc[f]
    BY DEF MovedSlots
  <2> HIDE DEF slots
  <2>3. /\ slots[new] \in Allocation /\ slots[new].status = alloc[last].status
        /\ slots[new].join = alloc[last].join /\ slots[new].joinConfirm = alloc[last].joinConfirm
        /\ slots[new].leave = alloc[last].leave /\ slots[new].leaveConfirm = alloc[last].leaveConfirm
        /\ slots[new].hops = (IF alloc[last].hops = 0 THEN 1 ELSE 2)
    <3>1. alloc[last] \in Allocation
      BY <1>2
    <3> QED BY <1>2, <2>2, <3>1, MovedRecord
  <2>4. ASSUME NEW f \in olds \ {new}
        PROVE  slots[f] \in Allocation /\ slots[f].status = "historic" /\ slots[f].join = alloc[f].join
    <3>1. alloc[f] \in Allocation
      BY <1>2
    <3>2. slots[f] = [alloc[f] EXCEPT !.status = "historic"] /\ "historic" \in Statuses
      BY <2>2 DEF Statuses
    <3>3. [alloc[f] EXCEPT !.status = "historic"] \in Allocation
      BY <3>1, <3>2, AllocationUpdates
    <3> QED BY <3>1, <3>2, <3>3 DEF Allocation
  <2>5. slots \in [Filters -> Allocation]
    BY <1>2, <2>2, <2>3, <2>4
  <2>6. \A f \in Filters : \/ f = new
                           \/ slots[f].status = "historic" /\ slots[f].join = alloc[f].join /\ f \in olds
                           \/ slots[f] = alloc[f] /\ f \notin olds
    BY <2>2, <2>4
  <2>7. TypeOK'
    <3>1. alloc[last].status # "none"
      BY <2>1 DEF LifecycleInv, TypeOK
    <3>2. /\ linked' \subseteq {f \in Filters : slots[f].status # "none"}
          /\ enumerated \subseteq {f \in Filters : slots[f].status # "none"}
      BY <2>1, <2>3, <2>6, <3>1 DEF LifecycleInv, TypeOK
    <3> QED BY <1>1, <1>3, <2>1, <2>5, <3>2 DEF LifecycleInv, TypeOK
  <2>8. LinkInv'
    BY <2>1, <2>6 DEF LifecycleInv, LinkInv, Live
  <2>9. KickedHoldsNothing' /\ LeftProverHoldsNothing'
    BY <1>1, <2>1, <2>3, <2>6 DEF LifecycleInv, KickedHoldsNothing, LeftProverHoldsNothing, Live
  <2>10. NoticeInv'
    BY <2>1, <2>3, <2>6 DEF LifecycleInv, NoticeInv
  <2>11. RootInv'
    BY <1>1 DEF LifecycleInv, RootInv
  <2>12. \A f \in Filters : /\ alloc[f].joinConfirm \in Nat /\ alloc[f].join \in Nat
                            /\ alloc[f].hops \in 0 .. 2
    BY <1>2, SlotFields
  <2>13. FreshInv'
    <3> SUFFICES ASSUME NEW f \in Filters
                 PROVE  /\ slots[f].join <= frame
                        /\ slots[f].status \in Serving =>
                             /\ slots[f].joinConfirm > 0 /\ slots[f].joinConfirm <= Now
                             /\ Now <= slots[f].joinConfirm + 1 /\ slots[f].hops <= 1 =>
                                  RegisteredFor(f, slots[f].joinConfirm + 1)
      BY <1>1, <2>1 DEF FreshInv, Fresh, RegisteredFor
    <3>1. \A g \in Filters : alloc[g].join <= frame
      BY DEF LifecycleInv, FreshInv
    <3>2. CASE slots[f] = alloc[f]
      BY <3>1, <3>2 DEF LifecycleInv, FreshInv, Fresh
    <3>3. CASE f = new
      <4>1. slots[f].join <= frame
        BY <2>3, <3>1, <3>3
      <4>2. ASSUME alloc[last].status \in Serving
            PROVE  alloc[last].joinConfirm > 0 /\ alloc[last].joinConfirm <= Now
        BY <4>2 DEF LifecycleInv, FreshInv
      <4>3. ASSUME alloc[last].status \in Serving, Now <= alloc[last].joinConfirm + 1,
                   slots[new].hops <= 1
            PROVE  RegisteredFor(new, alloc[last].joinConfirm + 1)
        <5>1. alloc[last].hops = 0
          BY <2>3, <4>3
        <5>2. Fresh(last, 0)
          BY <4>3, <5>1 DEF Fresh
        <5>3. /\ p.effective >= alloc[last].joinConfirm + 1
              /\ p.effective = alloc[last].joinConfirm + 1 => RegisteredFor(new, p.effective)
          BY <1>1, <2>1, <5>2 DEF LifecycleInv, ChangeInv
        <5>4. p.effective = alloc[last].joinConfirm + 1
          BY <1>1, <1>2, <2>12, <4>3, <5>3
        <5> QED BY <5>3, <5>4
      <4> QED BY <2>3, <3>3, <4>1, <4>2, <4>3
    <3>4. CASE slots[f].status = "historic" /\ slots[f].join = alloc[f].join
      BY <3>1, <3>4 DEF Serving
    <3> QED BY <2>6, <3>2, <3>3, <3>4
  <2>14. ChangeInv'
    <3> SUFFICES ASSUME NEW q \in pending, NEW f \in Sources(q.change), slots[f].hops <= 0
                 PROVE  /\ slots[f].status = "joining" => q.effective >= Epoch(slots[f].join) + 2
                        /\ slots[f].status \in Serving /\ Now <= slots[f].joinConfirm + 1 =>
                             /\ q.effective >= slots[f].joinConfirm + 1
                             /\ q.effective = slots[f].joinConfirm + 1 =>
                                  \A g \in Results(q.change) : RegisteredFor(g, q.effective)
      BY <1>1, <2>1 DEF ChangeInv, Fresh, RegisteredFor
    <3>1. f \in Filters
      BY <1>2
    <3>2. f # new
      BY <2>3
    <3>3. CASE slots[f].status = "historic"
      BY <3>3 DEF Serving
    <3>4. CASE slots[f] = alloc[f]
      BY <3>4 DEF LifecycleInv, ChangeInv, Fresh
    <3> QED BY <2>6, <3>1, <3>2, <3>3, <3>4
  <2> QED BY <1>3, <2>7, <2>8, <2>9, <2>10, <2>11, <2>13, <2>14 DEF LifecycleInv
<1> QED BY <1>4, <1>5, ReassignCases
-----------------------------------------------------------------------------
(* The theorems                                                            *)

LEMMA InitLifecycle == Init => LifecycleInv
<1> SUFFICES ASSUME Init PROVE LifecycleInv
  OBVIOUS
<1>1. /\ EpochFrames \in 0 .. MaxFrame /\ 0 \in 0 .. MaxFrame /\ 0 \in 0 .. MaxOps
      /\ EpochFrames \in Nat
  BY LifecycleAssumption
<1>2. 0 \in Epochs /\ Now \in Nat
  <2>1. Epoch(MaxFrame) \in Nat /\ Epoch(EpochFrames) \in Nat
    BY <1>1, LifecycleAssumption, EpochMonotone
  <2> QED BY <2>1 DEF Epochs, Epoch, Now, Init
<1>3. None \in Allocation /\ None.status = "none" /\ None.join = 0
  BY <1>1, <1>2 DEF None, Allocation, Statuses
<1>4. /\ frame = EpochFrames /\ grid = GenesisGrid /\ pending = {} /\ pass = Idle("open")
      /\ prover = [status |-> "absent", kicked |-> FALSE]
      /\ \A f \in Filters : alloc[f] = None /\ roots[f] = {}
      /\ alloc = [f \in Filters |-> None] /\ roots = [f \in Filters |-> {}]
      /\ linked = {} /\ enumerated = {} /\ ops = 0
  BY DEF Init
<1>5. TypeOK /\ PassInv
  BY <1>1, <1>3, <1>4, LifecycleAssumption DEF TypeOK, PassInv, Idle, Pass
<1>6. LinkInv /\ KickedHoldsNothing /\ LeftProverHoldsNothing /\ NoticeInv
  BY <1>3, <1>4 DEF LinkInv, KickedHoldsNothing, LeftProverHoldsNothing, NoticeInv, Live
<1>7. RootInv /\ FreshInv /\ ChangeInv
  BY <1>1, <1>3, <1>4 DEF RootInv, FreshInv, ChangeInv, Fresh, Serving
<1> QED BY <1>5, <1>6, <1>7 DEF LifecycleInv

LEMMA NextLifecycle == LifecycleInv /\ [Next]_vars => LifecycleInv'
<1> SUFFICES ASSUME LifecycleInv, [Next]_vars PROVE LifecycleInv'
  OBVIOUS
<1>1. CASE UNCHANGED vars
  BY <1>1 DEF LifecycleInv, TypeOK, PassInv, LinkInv, KickedHoldsNothing,
              LeftProverHoldsNothing, NoticeInv, RootInv, FreshInv, ChangeInv,
              RegisteredFor, Fresh, Now, vars
<1>2. ASSUME NEW S \in SUBSET Filters, Join(S) PROVE LifecycleInv'
  BY <1>2, JoinStep
<1>3. ASSUME NEW S \in SUBSET Filters, ConfirmLeaves(S) PROVE LifecycleInv'
  BY <1>3, ConfirmLeavesStep
<1>4. ASSUME NEW S \in SUBSET Filters, Reject(S) PROVE LifecycleInv'
  BY <1>4, RejectStep
<1>5. ASSUME NEW S \in SUBSET Filters, Leave(S) PROVE LifecycleInv'
  BY <1>5, LeaveStep
<1>6. ASSUME NEW S \in SUBSET Filters, NEW signed \in 0 .. MaxFrame, ConfirmStorage(S, signed)
      PROVE  LifecycleInv'
  BY <1>6, ConfirmStorageStep
<1>7. ASSUME NEW f \in Filters, Pause(f) \/ Resume(f) PROVE LifecycleInv'
  BY <1>7, PauseStep
<1>8. CASE Kick
  BY <1>8, KickStep
<1>9. ASSUME NEW c \in Changes, ProposeChange(c) PROVE LifecycleInv'
  BY <1>9, ProposeStep
<1>10. CASE EndFrame
  BY <1>10, EndFrameStep
<1>11. ASSUME NEW p \in pass.changes, Reassign(p) PROVE LifecycleInv'
  BY <1>11, ReassignStep
<1>12. CASE Bounded
  BY <1>1, <1>12 DEF Bounded
<1>13. ASSUME BeginPass \/ EndReassign \/ EndPass \/ \E p \in pass.changes : Flip(p)
       PROVE  LifecycleInv'
  BY <1>13, GridStep
<1> QED BY <1>1, <1>2, <1>3, <1>4, <1>5, <1>6, <1>7, <1>8, <1>9, <1>10, <1>11, <1>12, <1>13 DEF Next

LEMMA AlwaysLifecycle == Spec => []LifecycleInv
BY InitLifecycle, NextLifecycle, PTL DEF Spec

\* Every record keeps its type, and the hyperedge links slots that exist
\* (refresh_prover_status, rekey_allocation_with_key).
THEOREM TypeCorrect == Spec => []TypeOK
<1>1. LifecycleInv => TypeOK
  BY DEF LifecycleInv
<1> QED BY <1>1, AlwaysLifecycle, PTL

\* kick_prover_by_address follows the hyperedge, and after it no slot of the
\* prover is live, whatever joins and moves came before it.
THEOREM KickIsComplete == Spec => []KickedHoldsNothing
<1>1. LifecycleInv => KickedHoldsNothing
  BY DEF LifecycleInv
<1> QED BY <1>1, AlwaysLifecycle, PTL

\* The aggregate status says left only when no slot is live, though a change
\* moves slots without refreshing it.
THEOREM LeftIsTrue == Spec => []LeftProverHoldsNothing
<1>1. LifecycleInv => LeftProverHoldsNothing
  BY DEF LifecycleInv
<1> QED BY <1>1, AlwaysLifecycle, PTL

\* effective_status lets a leaver out exactly two epochs after its proposal,
\* whether or not the leave was confirmed: confirms come one epoch after it.
THEOREM NoticeIsServed == Spec => []NoticeServed
<1>1. LifecycleInv => NoticeServed
  <2> SUFFICES ASSUME LifecycleInv, NEW f \in Filters, alloc[f].status = "leaving"
               PROVE  Eligible(f) <=> Now <= alloc[f].leave + 1
    BY DEF NoticeServed
  <2>1. alloc[f] \in Allocation /\ Now \in Nat
    BY EpochBounded DEF LifecycleInv, TypeOK, Now
  <2>2. alloc[f].leave \in Nat
    BY <2>1, EpochsAreNaturals DEF Allocation
  <2>3. alloc[f].leaveConfirm \in {0, alloc[f].leave + 1}
    BY DEF LifecycleInv, NoticeInv
  <2>4. CASE alloc[f].leaveConfirm = 0
    <3>1. effective_status(alloc[f], Now) =
            IF Now > alloc[f].leave + 1 THEN "expiredLeaving" ELSE "leaving"
      BY <2>4 DEF effective_status
    <3> QED BY <2>1, <2>2, <3>1 DEF Eligible
  <2>5. CASE alloc[f].leaveConfirm = alloc[f].leave + 1
    <3>1. effective_status(alloc[f], Now) =
            IF Now < alloc[f].leave + 1 + 1 THEN "leaving" ELSE "expiredLeaving"
      BY <2>2, <2>5 DEF effective_status
    <3> QED BY <2>1, <2>2, <3>1 DEF Eligible
  <2> QED BY <2>3, <2>4, <2>5
<1> QED BY <1>1, AlwaysLifecycle, PTL

\* A member that at most one change has moved is registered for the first epoch
\* it sits in, on the shard it sits on: pre_registration_targets covers every
\* change that can move it before, whatever else is proposed and pending.
THEOREM FreshIsRegistered == Spec => []FreshMemberRegistered
<1>1. LifecycleInv => FreshMemberRegistered
  <2> SUFFICES ASSUME LifecycleInv, NEW f \in Filters, alloc[f].status = "active",
                      alloc[f].hops <= 1, Eligible(f), Now <= alloc[f].joinConfirm + 1
               PROVE  RegisteredFor(f, Now)
    BY DEF FreshMemberRegistered, RegisteredFor
  <2>1. Now \in Nat /\ alloc[f].joinConfirm \in Nat
    BY EpochBounded, SlotFields DEF LifecycleInv, TypeOK, Now
  <2>2. alloc[f].joinConfirm > 0 /\ RegisteredFor(f, alloc[f].joinConfirm + 1)
    BY DEF LifecycleInv, FreshInv, Fresh, Serving
  <2>3. ~(Now < alloc[f].joinConfirm + 1)
    BY <2>2 DEF Eligible, effective_status
  <2>4. Now = alloc[f].joinConfirm + 1
    BY <2>1, <2>3
  <2> QED BY <2>2, <2>4
<1> QED BY <1>1, AlwaysLifecycle, PTL

\* upsert_leaf_root_registration never drops the roots of the current or the
\* previous epoch: a confirm registers one epoch ahead, and three slots hold
\* that registration and the two before it.
THEOREM AuditRootsAreKept == Spec => AuditRootsKept
<1> DEFINE Kept == \A f \in Filters : \A r \in roots[f] :
                     r.epoch + 1 >= Now => \E s \in roots'[f] : s.epoch = r.epoch
<1>1. LifecycleInv /\ [Next]_vars => [Kept]_vars
  <2> SUFFICES ASSUME LifecycleInv, Next, NEW f \in Filters, NEW r \in roots[f], r.epoch + 1 >= Now
               PROVE  \E s \in roots'[f] : s.epoch = r.epoch
    OBVIOUS
  <2>1. CASE roots' = roots
    BY <2>1
  <2>2. ASSUME NEW S \in SUBSET Filters, NEW signed \in 0 .. MaxFrame, ConfirmStorage(S, signed)
        PROVE  \E s \in roots'[f] : s.epoch = r.epoch
    <3> DEFINE reg == [epoch |-> Now + 1, made |-> Epoch(signed) + 1]
    <3>1. /\ Epoch(signed) = Now
          /\ roots'[f] \in {Upsert(roots[f], reg), roots[f]}
      BY <2>2 DEF ConfirmStorage, RegisterRoots, validate_confirm_epoch
    <3>2. /\ Now \in Nat /\ Now + 1 \in Epochs /\ roots[f] \in SUBSET Registration
      BY EpochBounded DEF LifecycleInv, TypeOK, Now
    <3>3. reg \in Registration /\ reg.epoch = Now + 1
      BY <3>1, <3>2 DEF Registration
    <3> HIDE DEF reg
    <3>4. /\ \A x \in roots[f] : x.epoch <= Now + 1
          /\ \A x, y \in roots[f] : x.epoch = y.epoch => x = y
      BY DEF LifecycleInv, RootInv
    <3>5. \E s \in Upsert(roots[f], reg) : s.epoch = r.epoch
      BY <3>2, <3>3, <3>4, UpsertKeeps
    <3> QED BY <3>1, <3>5
  <2>3. \/ roots' = roots
        \/ \E S \in SUBSET Filters : \E signed \in 0 .. MaxFrame : ConfirmStorage(S, signed)
    BY DEF Next, Join, ConfirmLeaves, Reject, Leave, Pause, Resume, SetStatus, Kick,
           ProposeChange, BeginPass, Reassign, EndReassign, Flip, EndPass, EndFrame, Bounded, vars
  <2> QED BY <2>1, <2>2, <2>3
<1> QED BY <1>1, AlwaysLifecycle, PTL DEF Spec, AuditRootsKept

-----------------------------------------------------------------------------
(* The epoch a slot claims.  The invariant says where live slots are: on    *)
(* registered shards, where no pre-registration of a change reaches them.   *)
-----------------------------------------------------------------------------
(* The epoch a slot claims.                                                 *)

ClaimRegistered(f, e) == [epoch |-> e, made |-> e] \in roots[f]

\* A member that renewed for the epoch a change is due in, and was not moved
\* since, is registered on every shard the change makes.
ChangeClaims ==
  \A p \in pending : \A f \in Sources(p.change) :
    /\ alloc[f].status \in Serving /\ alloc[f].moved = 0
    /\ alloc[f].epoch = p.effective /\ alloc[f].epoch + 1 >= Now
    => \A g \in Results(p.change) : ClaimRegistered(g, p.effective)

\* No claim reaches past the next epoch.
ClaimInv ==
  /\ \A f \in Filters : alloc[f].epoch <= Now + 1
  /\ \A p \in pending : p.effective > 0
  /\ ChangeClaims
  /\ EpochClaimHeld

LEMMA ClaimTypes ==
  ASSUME LifecycleInv
  PROVE  /\ Now \in Nat
         /\ \A f \in Filters : alloc[f] \in Allocation /\ alloc[f].epoch \in Nat
         /\ \A p \in pending : /\ p.effective \in Nat /\ p.effective \in Epochs
                               /\ Sources(p.change) \subseteq Filters
                               /\ Results(p.change) \subseteq Filters
<1>1. Now \in Nat
  BY EpochBounded DEF LifecycleInv, TypeOK, Now
<1>2. \A f \in Filters : alloc[f] \in Allocation /\ alloc[f].epoch \in Nat
  BY EpochsAreNaturals DEF LifecycleInv, TypeOK, Allocation
<1>3. \A p \in pending : p.effective \in Nat /\ p.effective \in Epochs
  BY EpochsAreNaturals DEF LifecycleInv, TypeOK
<1>4. \A p \in pending : Sources(p.change) \subseteq Filters /\ Results(p.change) \subseteq Filters
  BY ChangeFilters DEF LifecycleInv, TypeOK
<1> QED BY <1>1, <1>2, <1>3, <1>4

\* What a step may do to a slot that renews and moves nothing: keep its claim,
\* or start over with a join.
ClaimKept(f, a) ==
  /\ a.status \in Serving => alloc[f].status \in Serving
  /\ a.epoch = alloc[f].epoch /\ a.moved = alloc[f].moved

JoinedAnew(f, a) == a.status = "joining" /\ a.epoch = 0

LEMMA QuietClaims ==
  ASSUME LifecycleInv, ClaimInv,
         UNCHANGED <<frame, pending, roots>>,
         \A f \in Filters : ClaimKept(f, alloc'[f]) \/ JoinedAnew(f, alloc'[f])
  PROVE  ClaimInv'
<1>1. Now' = Now /\ Now \in Nat
  BY ClaimTypes DEF Now
<1>2. \A p \in pending : Sources(p.change) \subseteq Filters
  BY ClaimTypes
<1>3. \A f \in Filters :
        /\ alloc'[f].status \in Serving =>
             /\ alloc[f].status \in Serving
             /\ alloc'[f].epoch = alloc[f].epoch /\ alloc'[f].moved = alloc[f].moved
        /\ alloc'[f].epoch \in {0, alloc[f].epoch}
  BY DEF ClaimKept, JoinedAnew, Serving
<1>4. \A f \in Filters : alloc'[f].epoch <= Now + 1
  BY <1>1, <1>3 DEF ClaimInv
<1>5. ASSUME NEW p \in pending, NEW f \in Sources(p.change), NEW g \in Results(p.change),
             alloc'[f].status \in Serving, alloc'[f].moved = 0,
             alloc'[f].epoch = p.effective, alloc'[f].epoch + 1 >= Now
      PROVE  ClaimRegistered(g, p.effective)
  <2>1. /\ f \in Filters /\ alloc[f].status \in Serving /\ alloc[f].moved = 0
        /\ alloc[f].epoch = p.effective /\ alloc[f].epoch + 1 >= Now
    BY <1>2, <1>3, <1>5
  <2> QED BY <2>1 DEF ClaimInv, ChangeClaims
<1>6. ChangeClaims'
  BY <1>1, <1>5 DEF ChangeClaims, ClaimRegistered
<1>7. EpochClaimHeld'
  <2> SUFFICES ASSUME NEW f \in Filters, alloc'[f].status \in Serving, alloc'[f].epoch # 0,
                      alloc'[f].epoch + 1 >= Now, alloc'[f].moved \in {0, alloc'[f].epoch}
               PROVE  ClaimRegistered(f, alloc'[f].epoch)
    BY <1>1 DEF EpochClaimHeld, Serving, ClaimRegistered
  <2>1. /\ alloc[f].status \in Serving
        /\ alloc'[f].epoch = alloc[f].epoch /\ alloc'[f].moved = alloc[f].moved
    BY <1>3
  <2> QED BY <2>1 DEF ClaimInv, EpochClaimHeld, Serving, ClaimRegistered
<1> QED BY <1>1, <1>4, <1>6, <1>7 DEF ClaimInv

LEMMA JoinClaims ==
  ASSUME LifecycleInv, ClaimInv, NEW S \in SUBSET Filters, Join(S)
  PROVE  ClaimInv'
<1>1. /\ UNCHANGED <<frame, grid, pending, enumerated, roots>>
      /\ Refresh(JoinedSlots(S), S)
      /\ alloc' = JoinedSlots(S)
  BY DEF Join, Operation, Refresh
<1>2. Joined.status = "joining" /\ Joined.epoch = 0
  BY DEF Joined, None
<1>3. ASSUME NEW f \in Filters
      PROVE  ClaimKept(f, alloc'[f]) \/ JoinedAnew(f, alloc'[f])
  <2>1. CASE f \in S
    <3>1. alloc'[f] = Joined
      BY <1>1, <2>1 DEF JoinedSlots
    <3> QED BY <1>2, <3>1 DEF JoinedAnew
  <2>2. CASE f \notin S
    BY <1>1, <2>2 DEF JoinedSlots, ClaimKept
  <2> QED BY <2>1, <2>2
<1> QED BY <1>1, <1>3, QuietClaims

\* The operations that renew nothing and start nothing.
LEMMA SlotClaims ==
  ASSUME LifecycleInv, ClaimInv, NEW S \in SUBSET Filters, NEW g \in Filters,
         ConfirmLeaves(S) \/ Reject(S) \/ Leave(S) \/ Pause(g) \/ Resume(g)
  PROVE  ClaimInv'
<1>1. \A f \in Filters : alloc[f] \in Allocation
  BY DEF LifecycleInv, TypeOK
<1>2. alloc \in [Filters -> Allocation]
  BY DEF LifecycleInv, TypeOK
<1>3. CASE ConfirmLeaves(S)
  <2> DEFINE slots == [f \in Filters |-> IF f \in S THEN Confirmed(alloc[f], f) ELSE alloc[f]]
  <2>1. /\ Operation /\ Refresh(slots, S) /\ UNCHANGED roots /\ alloc' = slots
        /\ \A f \in S : alloc[f].status = "leaving"
    BY <1>3 DEF ConfirmLeaves, ConfirmSlots, Refresh
  <2>2. ASSUME NEW f \in Filters PROVE ClaimKept(f, slots[f])
    <3>1. CASE f \in S
      <4>1. slots[f] = [alloc[f] EXCEPT !.leaveConfirm = Now]
        BY <2>1, <3>1 DEF Confirmed
      <4> QED BY <1>1, <4>1 DEF Allocation, ClaimKept
    <3>2. CASE f \notin S
      BY <3>2 DEF ClaimKept
    <3> QED BY <3>1, <3>2
  <2> QED BY <2>1, <2>2, QuietClaims DEF Operation
<1>4. CASE Reject(S)
  <2> DEFINE slots == [f \in Filters |-> IF f \in S THEN Rejected(alloc[f]) ELSE alloc[f]]
  <2>1. /\ Operation /\ Refresh(slots, S) /\ UNCHANGED roots /\ alloc' = slots
        /\ \A f \in S : alloc[f].status \in {"joining", "leaving"}
    BY <1>4 DEF Reject, Refresh
  <2>2. ASSUME NEW f \in Filters PROVE ClaimKept(f, slots[f])
    <3>1. CASE f \in S /\ alloc[f].status = "joining"
      <4>1. slots[f] = [alloc[f] EXCEPT !.status = "left"]
        BY <2>1, <3>1 DEF Rejected
      <4> QED BY <1>1, <3>1, <4>1 DEF Allocation, ClaimKept, Live, Serving
    <3>2. CASE f \in S /\ alloc[f].status = "leaving"
      <4>1. slots[f] = [alloc[f] EXCEPT !.status = "active"]
        BY <2>1, <3>2 DEF Rejected
      <4> QED BY <1>1, <3>2, <4>1 DEF Allocation, ClaimKept, Live, Serving
    <3>3. CASE f \notin S
      BY <3>3 DEF ClaimKept
    <3> QED BY <2>1, <3>1, <3>2, <3>3
  <2> QED BY <2>1, <2>2, QuietClaims DEF Operation
<1>5. CASE Leave(S)
  <2> DEFINE slots == [f \in Filters |->
                         IF f \in S THEN [alloc[f] EXCEPT !.status = "leaving", !.leave = Now]
                         ELSE alloc[f]]
  <2>1. /\ Operation /\ Refresh(slots, S) /\ UNCHANGED roots /\ alloc' = slots
        /\ \A f \in S : alloc[f].status \in {"active", "paused"}
    BY <1>5 DEF Leave, Refresh
  <2>2. ASSUME NEW f \in Filters PROVE ClaimKept(f, slots[f])
    <3>1. CASE f \in S
      <4>1. slots[f] = [alloc[f] EXCEPT !.status = "leaving", !.leave = Now]
        BY <3>1
      <4> QED BY <1>1, <2>1, <3>1, <4>1 DEF Allocation, ClaimKept, Live, Serving
    <3>2. CASE f \notin S
      BY <3>2 DEF ClaimKept
    <3> QED BY <3>1, <3>2
  <2> QED BY <2>1, <2>2, QuietClaims DEF Operation
<1>6. CASE Pause(g) \/ Resume(g)
  <2>1. PICK to \in {"active", "paused"} :
          /\ Operation /\ alloc[g].status \in {"active", "paused"}
          /\ Refresh([alloc EXCEPT ![g].status = to], {g}) /\ UNCHANGED roots
    BY <1>6 DEF Pause, Resume, SetStatus
  <2> DEFINE slots == [alloc EXCEPT ![g].status = to]
  <2>2. alloc' = slots
    BY <2>1 DEF Refresh
  <2>3. ASSUME NEW f \in Filters PROVE ClaimKept(f, slots[f])
    <3>1. CASE f = g
      <4>1. slots[f] = [alloc[f] EXCEPT !.status = to]
        BY <1>2, <3>1
      <4> QED BY <1>1, <2>1, <3>1, <4>1 DEF Allocation, ClaimKept, Live, Serving
    <3>2. CASE f # g
      BY <1>2, <3>2 DEF ClaimKept
    <3> QED BY <3>1, <3>2
  <2> QED BY <2>1, <2>2, <2>3, QuietClaims DEF Operation
<1> QED BY <1>3, <1>4, <1>5, <1>6

LEMMA KickClaims ==
  ASSUME LifecycleInv, ClaimInv, Kick
  PROVE  ClaimInv'
<1> DEFINE slots == [f \in Filters |-> IF f \in linked THEN [alloc[f] EXCEPT !.status = "left"]
                                       ELSE alloc[f]]
<1>1. /\ Operation /\ alloc' = slots /\ UNCHANGED roots
  BY DEF Kick
<1>2. ASSUME NEW f \in Filters PROVE ClaimKept(f, slots[f])
  <2>1. alloc[f] \in Allocation
    BY DEF LifecycleInv, TypeOK
  <2>2. CASE f \in linked
    <3>1. slots[f] = [alloc[f] EXCEPT !.status = "left"]
      BY <2>2
    <3> QED BY <2>1, <3>1 DEF Allocation, ClaimKept, Live, Serving
  <2>3. CASE f \notin linked
    BY <2>3 DEF ClaimKept
  <2> QED BY <2>2, <2>3
<1> QED BY <1>1, <1>2, QuietClaims DEF Operation

\* A change proposed now is due after every epoch that is claimed yet.
LEMMA ProposeClaims ==
  ASSUME LifecycleInv, ClaimInv, NEW c \in Changes, ProposeChange(c)
  PROVE  ClaimInv'
<1> DEFINE q == [change |-> c, effective |-> Now + 2]
<1>1. /\ pending' \subseteq pending \cup {q} /\ Now' = Now
      /\ UNCHANGED <<frame, alloc, roots>>
  BY DEF ProposeChange, Now
<1>2. q.change = c /\ q.effective = Now + 2 /\ Now \in Nat
  BY ClaimTypes
<1> HIDE DEF q
<1>3. Sources(c) \subseteq Filters
  BY ChangeFilters
<1>4. ASSUME NEW f \in Sources(c) PROVE alloc[f].epoch # q.effective
  <2>1. alloc[f].epoch \in Nat /\ alloc[f].epoch <= Now + 1
    BY <1>3, ClaimTypes DEF ClaimInv
  <2> QED BY <1>2, <2>1
<1>5. ChangeClaims'
  BY <1>1, <1>2, <1>4 DEF ClaimInv, ChangeClaims, ClaimRegistered
<1>6. EpochClaimHeld'
  BY <1>1 DEF ClaimInv, EpochClaimHeld
<1>7. \A p \in pending' : p.effective > 0
  BY <1>1, <1>2 DEF ClaimInv
<1>8. \A f \in Filters : alloc'[f].epoch <= Now' + 1
  BY <1>1 DEF ClaimInv
<1> QED BY <1>5, <1>6, <1>7, <1>8 DEF ClaimInv

\* The steps of the pass that move no slot, and the end of the frame: an older
\* claim may only drop out of the window.
LEMMA LaterClaims ==
  ASSUME LifecycleInv, ClaimInv, UNCHANGED <<alloc, roots>>, pending' \subseteq pending,
         Now' \in Nat, Now <= Now'
  PROVE  ClaimInv'
<1>1. /\ Now \in Nat /\ \A f \in Filters : alloc[f].epoch \in Nat /\ alloc[f].epoch <= Now + 1
      /\ \A p \in pending : Sources(p.change) \subseteq Filters
  BY ClaimTypes DEF ClaimInv
<1>2. ASSUME NEW f \in Filters
      PROVE  /\ alloc[f].epoch <= Now' + 1
             /\ alloc[f].epoch + 1 >= Now' => alloc[f].epoch + 1 >= Now
  BY <1>1
<1>3. ChangeClaims'
  BY <1>1, <1>2 DEF ClaimInv, ChangeClaims, ClaimRegistered
<1>4. EpochClaimHeld'
  BY <1>2 DEF ClaimInv, EpochClaimHeld
<1>5. \A f \in Filters : alloc'[f].epoch <= Now' + 1
  BY <1>2
<1> QED BY <1>3, <1>4, <1>5 DEF ClaimInv

LEMMA GridClaims ==
  ASSUME LifecycleInv, ClaimInv,
         BeginPass \/ EndReassign \/ EndPass \/ (\E p \in pass.changes : Flip(p)) \/ EndFrame
  PROVE  ClaimInv'
<1>1. UNCHANGED <<alloc, roots>> /\ pending' \subseteq pending
  BY DEF BeginPass, EndReassign, EndPass, Flip, EndFrame
<1>2. Now \in Nat
  BY ClaimTypes
<1>3. CASE EndFrame
  BY <1>1, <1>3, EndFrameStep, LaterClaims
<1>4. CASE UNCHANGED frame
  <2>1. Now' \in Nat /\ Now <= Now'
    BY <1>2, <1>4 DEF Now
  <2> QED BY <1>1, <2>1, LaterClaims
<1> QED BY <1>3, <1>4 DEF BeginPass, EndReassign, EndPass, Flip

\* A confirm registers exactly what it claims: on the shards it confirms, and
\* on the shards that the changes due next make of them.  Where it meets another
\* claim, that claim is for the same epoch or its registration stays.
LEMMA ConfirmClaims ==
  ASSUME LifecycleInv, ClaimInv,
         NEW S \in SUBSET Filters, NEW signed \in 0 .. MaxFrame, ConfirmStorage(S, signed)
  PROVE  ClaimInv'
<1> DEFINE slots   == [f \in Filters |-> IF f \in S THEN Confirmed(alloc[f], f) ELSE alloc[f]]
           targets == pre_registration_targets(S, Now + 1)
           reg     == [epoch |-> Now + 1, made |-> Epoch(signed) + 1]
<1>1. /\ Now \in Nat /\ Now + 1 \in Epochs
      /\ alloc \in [Filters -> Allocation] /\ roots \in [Filters -> SUBSET Registration]
  BY EpochBounded DEF LifecycleInv, TypeOK, Now
<1>2. /\ alloc' = slots
      /\ UNCHANGED <<frame, pending>> /\ Now' = Now
      /\ Epoch(signed) = Now
      /\ roots' = [f \in Filters |-> IF f \in S \cup targets THEN Upsert(roots[f], reg) ELSE roots[f]]
  BY DEF ConfirmStorage, ConfirmSlots, Refresh, Operation, RegisterRoots, validate_confirm_epoch, Now
<1>3. ASSUME NEW f \in S
      PROVE  /\ alloc[f].status \in {"joining", "active"}
             /\ ConfirmedSlot(f, slots[f])
  <2>1. alloc[f].status \in {"joining", "active"} /\ validate_confirm_timing(alloc[f])
    BY DEF ConfirmStorage
  <2>2. slots[f] = Confirmed(alloc[f], f)
    OBVIOUS
  <2> HIDE DEF slots
  <2> QED BY <2>1, <2>2 DEF ConfirmedSlot, Confirmed, validate_confirm_timing
<1>4. \A f \in Filters \ S : slots[f] = alloc[f]
  OBVIOUS
<1> HIDE DEF slots
<1>5. ASSUME NEW f \in S
      PROVE  /\ slots[f].status \in Serving => slots[f].epoch = Now + 1
             /\ slots[f].epoch \in {alloc[f].epoch, Now + 1}
  <2>1. alloc[f] \in Allocation
    BY <1>1
  <2>2. CASE alloc[f].status = "joining" /\ slots[f] = alloc[f]
    BY <2>2 DEF Serving
  <2>3. CASE slots[f] = [alloc[f] EXCEPT !.status = "active", !.joinConfirm = Now,
                                         !.epoch = Now + 1, !.moved = 0]
    BY <2>1, <2>3 DEF Allocation
  <2>4. CASE slots[f] = [alloc[f] EXCEPT !.epoch = Now + 1, !.moved = 0]
    BY <2>1, <2>4 DEF Allocation
  <2> QED BY <1>3, <2>2, <2>3, <2>4 DEF ConfirmedSlot
<1>6. reg = [epoch |-> Now + 1, made |-> Now + 1] /\ reg \in Registration /\ reg.epoch = Now + 1
  BY <1>1, <1>2 DEF Registration
<1> HIDE DEF reg
<1>7. ASSUME NEW f \in Filters
      PROVE  /\ reg \in Upsert(roots[f], reg)
             /\ \A x \in roots[f] : x.epoch + 1 >= Now /\ x.epoch # reg.epoch
                                      => x \in Upsert(roots[f], reg)
  <2>1. /\ roots[f] \in SUBSET Registration
        /\ \A x \in roots[f] : x.epoch <= Now + 1
        /\ \A x, y \in roots[f] : x.epoch = y.epoch => x = y
    BY <1>1 DEF LifecycleInv, RootInv
  <2> QED BY <1>1, <1>6, <2>1, UpsertKeeps
<1>8. ASSUME NEW f \in Filters, f \in S \cup targets PROVE reg \in roots'[f]
  BY <1>2, <1>7, <1>8
<1>9. ASSUME NEW f \in Filters, NEW e \in Nat, e + 1 >= Now, ClaimRegistered(f, e)
      PROVE  [epoch |-> e, made |-> e] \in roots'[f]
  <2> DEFINE x == [epoch |-> e, made |-> e]
  <2>1. x \in roots[f] /\ x.epoch = e
    BY <1>9 DEF ClaimRegistered
  <2>2. CASE f \notin S \cup targets
    BY <1>2, <2>1, <2>2
  <2>3. CASE f \in S \cup targets /\ e = Now + 1
    <3>1. x = reg
      BY <1>6, <2>3
    <3> QED BY <1>8, <2>3, <3>1
  <2>4. CASE f \in S \cup targets /\ e # Now + 1
    <3> HIDE DEF x
    <3>1. x \in Upsert(roots[f], reg)
      BY <1>6, <1>7, <1>9, <2>1, <2>4
    <3>2. roots'[f] = Upsert(roots[f], reg)
      BY <1>2, <2>4
    <3> QED BY <3>1, <3>2 DEF x
  <2> QED BY <2>2, <2>3, <2>4
<1>10. ASSUME NEW p \in pending, p.effective = Now + 1, NEW f \in S, f \in Sources(p.change)
       PROVE  Results(p.change) \subseteq targets
  BY <1>10 DEF targets, pre_registration_targets
<1> HIDE DEF targets
<1>11. \A f \in Filters : slots[f].epoch <= Now + 1
  BY <1>1, <1>4, <1>5 DEF ClaimInv
<1>12. ASSUME NEW p \in pending, NEW f \in Sources(p.change), NEW g \in Results(p.change),
              slots[f].status \in Serving, slots[f].moved = 0,
              slots[f].epoch = p.effective, slots[f].epoch + 1 >= Now
       PROVE  [epoch |-> p.effective, made |-> p.effective] \in roots'[g]
  <2>1. f \in Filters /\ g \in Filters /\ p.effective \in Nat
    BY ClaimTypes
  <2>2. CASE f \in S
    <3>1. p.effective = Now + 1
      BY <1>5, <1>12, <2>2
    <3>2. g \in targets
      BY <1>10, <2>2, <3>1
    <3> QED BY <1>6, <1>8, <2>1, <3>1, <3>2
  <2>3. CASE f \notin S
    <3>1. slots[f] = alloc[f]
      BY <1>4, <2>1, <2>3
    <3>2. ClaimRegistered(g, p.effective)
      BY <1>12, <3>1 DEF ClaimInv, ChangeClaims
    <3> QED BY <1>9, <1>12, <2>1, <3>2
  <2> QED BY <2>2, <2>3
<1>13. ChangeClaims'
  BY <1>2, <1>12 DEF ChangeClaims, ClaimRegistered
<1>14. EpochClaimHeld'
  <2> SUFFICES ASSUME NEW f \in Filters, slots[f].status \in Serving, slots[f].epoch # 0,
                      slots[f].epoch + 1 >= Now, slots[f].moved \in {0, slots[f].epoch}
               PROVE  [epoch |-> slots[f].epoch, made |-> slots[f].epoch] \in roots'[f]
    BY <1>2 DEF EpochClaimHeld, Serving
  <2>1. CASE f \in S
    BY <1>5, <1>6, <1>8, <2>1
  <2>2. CASE f \notin S
    <3>1. slots[f] = alloc[f] /\ alloc[f].epoch \in Nat
      BY <1>4, <2>2, ClaimTypes
    <3>2. ClaimRegistered(f, alloc[f].epoch)
      BY <3>1 DEF ClaimInv, EpochClaimHeld, Serving, ClaimRegistered
    <3> QED BY <1>9, <3>1, <3>2
  <2> QED BY <2>1, <2>2
<1> QED BY <1>2, <1>11, <1>13, <1>14 DEF ClaimInv

\* A slot moved for the first time since its member renewed, for the epoch the
\* change was due in, was registered on every shard of the change before.
LEMMA ReassignClaims ==
  ASSUME LifecycleInv, ClaimInv, NEW p \in pass.changes, Reassign(p)
  PROVE  ClaimInv'
<1>1. /\ p \in pending /\ Now' = Now /\ UNCHANGED <<frame, pending, roots>>
  BY ReassignCases
<1>2. /\ Now \in Nat /\ p.effective \in Nat /\ p.effective \in Epochs /\ p.effective > 0
      /\ \A f \in Filters : alloc[f] \in Allocation /\ alloc[f].epoch \in Nat
      /\ \A q \in pending : Sources(q.change) \subseteq Filters /\ Results(q.change) \subseteq Filters
  BY <1>1, ClaimTypes DEF ClaimInv
<1>3. CASE UNCHANGED <<alloc, linked>>
  <2>1. Now' \in Nat /\ Now <= Now'
    BY <1>1, <1>2
  <2> QED BY <1>1, <1>3, <2>1, LaterClaims
<1>4. ASSUME NEW olds \in SUBSET Filters, NEW last \in Filters, NEW new \in Filters,
             Moving(p, olds, last, new)
      PROVE  ClaimInv'
  <2> DEFINE slots == MovedSlots(olds, last, new, p.effective)
  <2>1. last \in Sources(p.change) /\ new \in Results(p.change) /\ alloc' = slots
    BY <1>4 DEF Moving, Rekey
  <2>2. /\ slots[new] = MovedBy(alloc[last], p.effective)
        /\ \A f \in olds \ {new} : slots[f] = [alloc[f] EXCEPT !.status = "historic"]
        /\ \A f \in Filters \ (olds \cup {new}) : slots[f] = alloc[f]
    BY DEF MovedSlots
  <2> HIDE DEF slots
  <2>3. /\ slots[new].status = alloc[last].status /\ slots[new].epoch = alloc[last].epoch
        /\ slots[new].moved = (IF alloc[last].moved = 0 THEN p.effective ELSE Chained)
    BY <1>2, <2>2, MovedRecord
  <2>4. ASSUME NEW f \in olds \ {new}
        PROVE  slots[f].status = "historic" /\ slots[f].epoch = alloc[f].epoch
    BY <1>2, <2>2 DEF Allocation
  <2>5. \A f \in Filters : \/ f = new
                           \/ slots[f].status = "historic" /\ slots[f].epoch = alloc[f].epoch
                           \/ slots[f] = alloc[f]
    BY <2>2, <2>4
  <2>6. \A f \in Filters : slots[f].epoch <= Now + 1
    BY <2>3, <2>5 DEF ClaimInv
  <2>7. slots[new].moved # 0
    BY <1>2, <2>3 DEF Chained
  <2>8. ASSUME NEW q \in pending, NEW f \in Sources(q.change), NEW g \in Results(q.change),
               slots[f].status \in Serving, slots[f].moved = 0,
               slots[f].epoch = q.effective, slots[f].epoch + 1 >= Now
        PROVE  ClaimRegistered(g, q.effective)
    <3>1. slots[f] = alloc[f]
      BY <1>2, <2>5, <2>7, <2>8 DEF Serving
    <3> QED BY <2>8, <3>1 DEF ClaimInv, ChangeClaims
  <2>9. ChangeClaims'
    BY <1>1, <2>1, <2>8 DEF ChangeClaims, ClaimRegistered
  <2>10. EpochClaimHeld'
    <3> SUFFICES ASSUME NEW f \in Filters, slots[f].status \in Serving, slots[f].epoch # 0,
                        slots[f].epoch + 1 >= Now, slots[f].moved \in {0, slots[f].epoch}
                 PROVE  ClaimRegistered(f, slots[f].epoch)
      BY <1>1, <2>1 DEF EpochClaimHeld, Serving, ClaimRegistered
    <3>1. CASE slots[f] = alloc[f]
      BY <3>1 DEF ClaimInv, EpochClaimHeld, Serving, ClaimRegistered
    <3>2. CASE f = new
      <4>1. /\ alloc[last].moved = 0 /\ alloc[last].epoch = p.effective
            /\ alloc[last].status \in Serving /\ alloc[last].epoch + 1 >= Now
        BY <1>2, <2>3, <2>7, <3>2 DEF Chained
      <4>2. ClaimRegistered(new, p.effective)
        BY <1>1, <2>1, <4>1 DEF ClaimInv, ChangeClaims
      <4> QED BY <2>3, <3>2, <4>1, <4>2
    <3> QED BY <2>5, <3>1, <3>2 DEF Serving
  <2> QED BY <1>1, <2>1, <2>6, <2>9, <2>10 DEF ClaimInv
<1> QED BY <1>3, <1>4, ReassignCases

LEMMA ClaimsStep ==
  ASSUME LifecycleInv, ClaimInv, [Next]_vars
  PROVE  ClaimInv'
<1>1. CASE UNCHANGED vars
  BY <1>1 DEF ClaimInv, ChangeClaims, ClaimRegistered, EpochClaimHeld, Now, vars
<1>2. ASSUME NEW S \in SUBSET Filters, Join(S) PROVE ClaimInv'
  BY <1>2, JoinClaims
<1>3. ASSUME NEW S \in SUBSET Filters, S # {}, ConfirmLeaves(S) \/ Reject(S) \/ Leave(S)
      PROVE  ClaimInv'
  <2>1. PICK g \in Filters : TRUE
    BY <1>3
  <2> QED BY <1>3, <2>1, SlotClaims
<1>4. ASSUME NEW g \in Filters, Pause(g) \/ Resume(g) PROVE ClaimInv'
  <2>1. {} \in SUBSET Filters
    OBVIOUS
  <2> QED BY <1>4, <2>1, SlotClaims
<1>5. ASSUME NEW S \in SUBSET Filters, NEW signed \in 0 .. MaxFrame, ConfirmStorage(S, signed)
      PROVE  ClaimInv'
  BY <1>5, ConfirmClaims
<1>6. CASE Kick
  BY <1>6, KickClaims
<1>7. ASSUME NEW c \in Changes, ProposeChange(c) PROVE ClaimInv'
  BY <1>7, ProposeClaims
<1>8. ASSUME NEW p \in pass.changes, Reassign(p) PROVE ClaimInv'
  BY <1>8, ReassignClaims
<1>9. ASSUME BeginPass \/ EndReassign \/ EndPass \/ (\E p \in pass.changes : Flip(p)) \/ EndFrame
      PROVE  ClaimInv'
  BY <1>9, GridClaims
<1>10. CASE Bounded
  BY <1>1, <1>10 DEF Bounded
<1> QED BY <1>1, <1>2, <1>3, <1>4, <1>5, <1>6, <1>7, <1>8, <1>9, <1>10 DEF Next

\* The epoch an allocation claims (materialize_prover_confirm) is one whose
\* roots the member registered on the same shard, also after one split or merge
\* moved the allocation when the member renewed for the epoch the change is
\* due in: pre_registration_targets covers exactly those shards, and no later
\* confirm pushes the registration out while its epoch can be audited.  What is
\* proposed, and how many changes are pending, is not restricted.
THEOREM EpochClaimsHold == Spec => []EpochClaimHeld
<1>1. Init => ClaimInv
  <2> SUFFICES ASSUME Init PROVE ClaimInv
    OBVIOUS
  <2>1. Now \in Nat
    BY InitLifecycle, EpochBounded DEF LifecycleInv, TypeOK, Now
  <2>2. /\ \A f \in Filters : alloc[f] = None /\ roots[f] = {}
        /\ pending = {}
    BY DEF Init
  <2>3. None.status = "none" /\ None.epoch = 0
    BY DEF None
  <2> QED BY <2>1, <2>2, <2>3 DEF ClaimInv, ChangeClaims, EpochClaimHeld
<1>2. LifecycleInv /\ ClaimInv /\ [Next]_vars => ClaimInv'
  BY ClaimsStep
<1>3. ClaimInv => EpochClaimHeld
  BY DEF ClaimInv
<1> QED BY <1>1, <1>2, <1>3, AlwaysLifecycle, PTL DEF Spec
=============================================================================
