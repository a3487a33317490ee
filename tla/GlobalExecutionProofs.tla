----------------------- MODULE GlobalExecutionProofs -----------------------
(***************************************************************************)
(* Theorems about the execution of finalized GLOBAL frames by an archive,  *)
(* for any chain, certificates, limits and number of crashes and faults,   *)
(* for a process with or without the finalization pipeline and the         *)
(* recovery of its marker at startup.                                      *)
(***************************************************************************)
EXTENDS GlobalExecution, FiniteSetTheorems, SequenceTheorems, TLAPS

-----------------------------------------------------------------------------
(* The inductive invariant                                                 *)

\* Only certified frames have a certified candidate.
CandidateInv == \A h \in Frames : cand[h] = "certified" => h \in Direct

\* Attempts counted when n faults have been met.
Attempts(n) == [frame : 0..N, count : 0..(MaxAttempts + n)]

\* A height that has used up its attempts, those that faults added included,
\* has its record.
AttemptInv ==
  attempts.count >= MaxAttempts + faults =>
    attempts.frame \in Frames /\ canon[attempts.frame] # "none"

\* Where the worker is, what the marker says and where the cursor stands.
JobInv ==
  /\ up /\ pending = 0 => last = cursor
  /\ pending # 0 => cursor + 1 = pending \/ cursor = pending
  /\ job # Idle => up
  /\ job \notin {Idle, Exited} => canon[job.frame] # "none"
  /\ job.stage = "begun" => pending = job.frame /\ cursor + 1 = pending
  /\ job.stage = "committed" => pending = job.frame /\ cursor = pending
  /\ job.stage \in {"settle", "announce"} => pending = 0
  /\ staged # 0 => up /\ job \in {Idle, Exited} /\ pending = staged /\ cursor + 1 = pending

\* A frame published by an unrelated commit is in the state.
FlushedInv == \A h \in flushed : Times(h) >= 1

AnnouncedInv == announced \subseteq Canonical

ExecutionInv ==
  /\ TypeOK /\ CandidateInv /\ AttemptInv /\ JobInv
  /\ CursorIsFrontier /\ FlushedInv /\ ReceiptCurrent /\ TailBounded /\ AnnouncedInv

-----------------------------------------------------------------------------
(* Sequences of frames                                                     *)

Count(s, h) == Cardinality({i \in DOMAIN s : s[i] = h})

LEMMA CountType ==
  ASSUME NEW s \in Seq(Frames), NEW h
  PROVE  /\ IsFiniteSet({i \in DOMAIN s : s[i] = h})
         /\ Count(s, h) \in Nat
<1>1. DOMAIN s = 1 .. Len(s) /\ Len(s) \in Nat
  OBVIOUS
<1>2. IsFiniteSet(1 .. Len(s))
  BY <1>1, FS_Interval
<1>3. {i \in DOMAIN s : s[i] = h} \subseteq 1 .. Len(s)
  BY <1>1
<1>4. IsFiniteSet({i \in DOMAIN s : s[i] = h})
  BY <1>2, <1>3, FS_Subset
<1> QED BY <1>4, FS_CardinalityType DEF Count

\* Applying a frame adds one to its count and nothing to any other.
LEMMA CountAppend ==
  ASSUME NEW s \in Seq(Frames), NEW x \in Frames, NEW h
  PROVE  /\ Append(s, x) \in Seq(Frames)
         /\ Count(Append(s, x), h) = IF h = x THEN Count(s, h) + 1 ELSE Count(s, h)
<1> DEFINE A == {i \in DOMAIN s : s[i] = h}
           B == {i \in DOMAIN Append(s, x) : Append(s, x)[i] = h}
<1>1. /\ Append(s, x) \in Seq(Frames) /\ Len(s) \in Nat
      /\ DOMAIN s = 1 .. Len(s) /\ DOMAIN Append(s, x) = 1 .. Len(s) + 1
      /\ \A i \in 1 .. Len(s) : Append(s, x)[i] = s[i]
      /\ Append(s, x)[Len(s) + 1] = x
  BY AppendProperties
<1>2. IsFiniteSet(A)
  BY CountType
<1>3. CASE h = x
  <2>1. B = A \cup {Len(s) + 1} /\ Len(s) + 1 \notin A
    BY <1>1, <1>3
  <2>2. Cardinality(B) = Cardinality(A) + 1
    BY <1>2, <2>1, FS_AddElement
  <2> QED BY <1>1, <1>3, <2>2 DEF Count
<1>4. CASE h # x
  <2>1. B = A
    BY <1>1, <1>4
  <2> QED BY <1>1, <1>4, <2>1 DEF Count
<1> QED BY <1>3, <1>4

-----------------------------------------------------------------------------
(* What steps keep that leave the execution, or the clock, alone           *)

\* The records only grow.
LEMMA ExecutionKept ==
  ASSUME ExecutionInv, UNCHANGED <<execution, up, job, staged, last, flushed>>,
         Canonical \subseteq Canonical'
  PROVE  JobInv' /\ CursorIsFrontier' /\ FlushedInv' /\ ReceiptCurrent'
<1>1. UNCHANGED <<cursor, state, receipt, pending>>
  BY DEF execution
<1>2. CursorIsFrontier' /\ FlushedInv' /\ ReceiptCurrent'
  BY <1>1 DEF ExecutionInv, CursorIsFrontier, FlushedInv, ReceiptCurrent, Times
<1>3. job \notin {Idle, Exited} => canon'[job.frame] # "none"
  <2> SUFFICES ASSUME job \notin {Idle, Exited} PROVE canon'[job.frame] # "none"
    OBVIOUS
  <2>1. job.frame \in Frames /\ canon[job.frame] # "none"
    BY DEF ExecutionInv, TypeOK, JobInv
  <2> QED BY <2>1 DEF Canonical
<1>4. JobInv'
  BY <1>1, <1>3 DEF ExecutionInv, JobInv
<1> QED BY <1>2, <1>4

LEMMA TailKept ==
  ASSUME ExecutionInv, Canonical \subseteq Canonical', Canonical' \subseteq Frames,
         \A h \in Frames : cand'[h] = "certified" => cand[h] = "certified"
  PROVE  TailBounded' /\ CandidateInv'
<1>1. CandidateInv'
  BY DEF ExecutionInv, CandidateInv
<1>2. ASSUME NEW h \in Frames, cand'[h] = "certified", HeadBelow(h)'
      PROVE  h <= MaxAhead \/ \E g \in Canonical' : h - g <= MaxAhead
  <2>1. HeadBelow(h)
    BY <1>2 DEF HeadBelow
  <2> QED BY <1>2, <2>1 DEF ExecutionInv, TailBounded
<1> QED BY <1>1, <1>2 DEF TailBounded

\* A full queue forgets, it invents nothing.
LEMMA OfferType ==
  ASSUME queue \subseteq Direct, NEW h \in Direct
  PROVE  Offer(h) \subseteq Direct
BY DEF Offer

LEMMA LoadedType ==
  ASSUME ExecutionInv, NEW h \in Frames
  PROVE  Loaded(h) \subseteq Direct
<1>1. queue \subseteq Direct /\ (cand[h] = "certified" => h \in Direct)
  BY DEF ExecutionInv, TypeOK, CandidateInv
<1> QED BY <1>1, OfferType DEF Loaded

\* A fault only raises the bound.
LEMMA AttemptsKept ==
  ASSUME ExecutionInv, UNCHANGED attempts, Canonical \subseteq Canonical',
         faults' \in 0..MaxFaults, faults' >= faults
  PROVE  AttemptInv' /\ attempts' \in Attempts(faults')
<1>1. attempts \in [frame : 0..N, count : 0..(MaxAttempts + faults)] /\ faults \in 0..MaxFaults
  BY DEF ExecutionInv, TypeOK
<1>2. attempts' \in Attempts(faults')
  BY <1>1, LimitAssumption DEF Attempts
<1>3. attempts.count >= MaxAttempts + faults' => attempts.count >= MaxAttempts + faults
  BY <1>1, LimitAssumption
<1>4. AttemptInv'
  BY <1>3 DEF ExecutionInv, AttemptInv, Canonical
<1> QED BY <1>2, <1>4

LEMMA AttemptsSame ==
  ASSUME ExecutionInv, UNCHANGED <<attempts, faults>>, Canonical \subseteq Canonical'
  PROVE  AttemptInv' /\ attempts' \in Attempts(faults') /\ faults' \in 0..MaxFaults
<1>1. faults' \in 0..MaxFaults /\ faults' >= faults
  BY LimitAssumption DEF ExecutionInv, TypeOK
<1> QED BY <1>1, AttemptsKept

\* The counter starts again.
LEMMA AttemptsReset ==
  ASSUME ExecutionInv, attempts' = [frame |-> 0, count |-> 0], faults' \in 0..MaxFaults
  PROVE  AttemptInv' /\ attempts' \in Attempts(faults')
<1>1. attempts'.count = 0
  OBVIOUS
<1>2. /\ ~(0 >= MaxAttempts + faults') /\ 0 \in 0..N
      /\ 0 \in 0..(MaxAttempts + faults')
  <2> DEFINE f == faults'
  <2>1. f \in 0..MaxFaults
    OBVIOUS
  <2> HIDE DEF f
  <2>2. ~(0 >= MaxAttempts + f) /\ 0 \in 0..N /\ 0 \in 0..(MaxAttempts + f)
    BY <2>1, ChainAssumption, LimitAssumption
  <2> QED BY <2>2 DEF f
<1>3. AttemptInv'
  BY <1>1, <1>2 DEF AttemptInv
<1> QED BY <1>2, <1>3 DEF Attempts

LEMMA AttemptsType ==
  ASSUME TypeOK
  PROVE  attempts \in Attempts(faults) /\ faults \in 0..MaxFaults
BY DEF TypeOK, Attempts

\* A record written at h is added to the canonical ones, and none is removed.
LEMMA RecordWritten ==
  ASSUME TypeOK, NEW h \in Frames, NEW k \in {"plain", "certified"},
         canon' = [canon EXCEPT ![h] = k]
  PROVE  /\ canon' \in [Frames -> Kinds]
         /\ Canonical' = Canonical \cup {h}
BY DEF TypeOK, Kinds, Canonical

\* What is left to show of a step that writes records, candidates and the queue.
LEMMA DeliveryKeeps ==
  ASSUME ExecutionInv,
         UNCHANGED <<build, execution, up, job, staged, last, roots, flushed, crashes>>,
         canon' \in [Frames -> Kinds], cand' \in [Frames -> Kinds],
         Canonical \subseteq Canonical',
         queue' \subseteq Direct, attempts' \in Attempts(faults'),
         lease' \in BOOLEAN, gaps' \subseteq Frames, faults' \in 0..MaxFaults,
         announced' \subseteq Canonical',
         AttemptInv', TailBounded', CandidateInv'
  PROVE  ExecutionInv'
<1>1. UNCHANGED <<cursor, state, receipt, pending>>
  BY DEF execution
<1>2. announced' \subseteq Frames
  BY DEF Canonical
<1>3. TypeOK'
  BY <1>1, <1>2 DEF ExecutionInv, TypeOK, Attempts, roots
<1>4. JobInv' /\ CursorIsFrontier' /\ FlushedInv' /\ ReceiptCurrent'
  BY ExecutionKept
<1> QED BY <1>3, <1>4 DEF ExecutionInv, AnnouncedInv

-----------------------------------------------------------------------------
(* Consensus, sync and backfill                                            *)

LEMMA OnNotarizedStep ==
  ASSUME ExecutionInv, NEW h \in Frames, OnNotarized(h)
  PROVE  ExecutionInv'
<1>1. /\ canon' = canon /\ Canonical' = Canonical
      /\ cand' \in {cand, [cand EXCEPT ![h] = "plain"]}
      /\ UNCHANGED <<build, execution, up, job, staged, last, roots, flushed, crashes>>
      /\ UNCHANGED <<queue, attempts, lease, gaps, faults, announced>>
  BY DEF OnNotarized, WithCandidate, Canonical, pipeline, history
<1>2. /\ canon \in [Frames -> Kinds] /\ cand \in [Frames -> Kinds]
      /\ queue \subseteq Direct
      /\ lease \in BOOLEAN /\ gaps \subseteq Frames /\ faults \in 0..MaxFaults
      /\ announced \subseteq Canonical /\ Canonical \subseteq Frames
  BY DEF ExecutionInv, TypeOK, AnnouncedInv, Canonical
<1>3. /\ cand' \in [Frames -> Kinds]
      /\ \A g \in Frames : cand'[g] = "certified" => cand[g] = "certified"
  BY <1>1, <1>2 DEF Kinds
<1>4. AttemptInv' /\ attempts' \in Attempts(faults') /\ TailBounded' /\ CandidateInv'
  BY <1>1, <1>2, <1>3, AttemptsSame, TailKept
<1> QED BY <1>1, <1>2, <1>3, <1>4, DeliveryKeeps

\* Only heights inside the window get a certified candidate.
LEMMA OnFinalizedAdmittedStep ==
  ASSUME ExecutionInv, NEW h \in Frames, OnFinalizedAdmitted(h)
  PROVE  ExecutionInv'
<1>1. /\ canon' = canon /\ Canonical' = Canonical /\ Admits(h) /\ h \in Direct
      /\ cand' \in {cand, [cand EXCEPT ![h] = "certified"]}
      /\ UNCHANGED <<build, execution, up, job, staged, last, roots, flushed, crashes>>
      /\ UNCHANGED <<attempts, lease, gaps, announced>>
      /\ queue' = Offer(h)
  BY DEF OnFinalizedAdmitted, WithCandidate, Canonical
<1>2. /\ canon \in [Frames -> Kinds] /\ cand \in [Frames -> Kinds]
      /\ queue \subseteq Direct
      /\ lease \in BOOLEAN /\ gaps \subseteq Frames
      /\ announced \subseteq Canonical /\ Canonical \subseteq Frames
  BY DEF ExecutionInv, TypeOK, AnnouncedInv, Canonical
<1>3. faults' \in 0..MaxFaults /\ faults' >= faults
  BY LimitAssumption DEF ExecutionInv, TypeOK, OnFinalizedAdmitted
<1>4. queue' \subseteq Direct
  BY <1>1, <1>2, OfferType
<1>5. /\ cand' \in [Frames -> Kinds]
      /\ \A g \in Frames \ {h} : cand'[g] = cand[g]
  BY <1>1, <1>2 DEF Kinds
<1>6. AttemptInv' /\ attempts' \in Attempts(faults') /\ CandidateInv'
  <2>1. AttemptInv' /\ attempts' \in Attempts(faults')
    BY <1>1, <1>3, AttemptsKept
  <2> QED BY <1>1, <1>5, <2>1 DEF ExecutionInv, CandidateInv
<1>7. TailBounded'
  <2> SUFFICES ASSUME NEW g \in Frames, cand'[g] = "certified", HeadBelow(g)
               PROVE  g <= MaxAhead \/ \E c \in Canonical : g - c <= MaxAhead
    BY <1>1 DEF TailBounded, HeadBelow
  <2>1. CASE g = h
    BY <1>1, <2>1 DEF Admits
  <2>2. CASE g # h
    BY <1>5, <2>2 DEF ExecutionInv, TailBounded
  <2> QED BY <2>1, <2>2
<1> QED BY <1>1, <1>2, <1>3, <1>4, <1>5, <1>6, <1>7, DeliveryKeeps

LEMMA OnFinalizedDirectlyStep ==
  ASSUME ExecutionInv, NEW h \in Frames, OnFinalizedDirectly(h)
  PROVE  ExecutionInv'
<1>1. /\ canon' = [canon EXCEPT ![h] = "certified"] /\ announced' = announced \cup {h}
      /\ UNCHANGED <<build, execution, up, job, staged, last, roots, flushed, crashes>>
      /\ UNCHANGED <<cand, queue, attempts, lease, gaps, faults>>
  BY DEF OnFinalizedDirectly, pipeline
<1>2. /\ cand \in [Frames -> Kinds]
      /\ queue \subseteq Direct
      /\ lease \in BOOLEAN /\ gaps \subseteq Frames /\ faults \in 0..MaxFaults
      /\ announced \subseteq Canonical
  BY DEF ExecutionInv, TypeOK, AnnouncedInv
<1>3. canon' \in [Frames -> Kinds] /\ Canonical' = Canonical \cup {h}
  BY <1>1, RecordWritten DEF ExecutionInv
<1>4. Canonical' \subseteq Frames
  BY DEF Canonical
<1>5. AttemptInv' /\ attempts' \in Attempts(faults') /\ TailBounded' /\ CandidateInv'
  BY <1>1, <1>3, <1>4, AttemptsSame, TailKept
<1> QED BY <1>1, <1>2, <1>3, <1>5, DeliveryKeeps

\* A synced chain is queued whole inside the window, or recorded whole.
LEMMA SyncStep ==
  ASSUME ExecutionInv, NEW top \in Frames, Sync(top)
  PROVE  ExecutionInv'
<1>1. /\ top \in Direct /\ HeadBelow(top)
      /\ UNCHANGED <<build, execution, up, job, staged, last, roots, flushed, crashes>>
      /\ UNCHANGED <<attempts, lease, gaps, announced>>
  BY DEF Sync
<1>2. /\ canon \in [Frames -> Kinds] /\ cand \in [Frames -> Kinds]
      /\ queue \subseteq Direct /\ faults \in 0..MaxFaults
      /\ lease \in BOOLEAN /\ gaps \subseteq Frames
      /\ announced \subseteq Canonical /\ Canonical \subseteq Frames
  BY DEF ExecutionInv, TypeOK, AnnouncedInv, Canonical
<1>3. faults' \in 0..MaxFaults /\ faults' >= faults
  BY <1>2, LimitAssumption DEF Sync
<1>4. CASE /\ cand' = Kept(top, Served(top)) /\ queue' = Offer(top) /\ canon' = canon
           /\ \A h \in Served(top) : Admits(h)
  <2>1. Canonical' = Canonical
    BY <1>4 DEF Canonical
  <2>2. /\ cand' \in [Frames -> Kinds]
        /\ \A h \in Frames \ {top} : cand'[h] = "certified" => cand[h] = "certified"
    BY <1>2, <1>4 DEF Kinds, Kept
  <2>3. Admits(top)
    <3>1. canon[top] = "none"
      BY <1>1 DEF HeadBelow, Canonical, Frames
    <3>2. top \in Chain(top)
      BY ChainAssumption DEF Chain, Frames
    <3>3. \A g \in top..top : g = top
      BY DEF Frames
    <3>4. top \in Served(top)
      BY <3>1, <3>2, <3>3 DEF Served
    <3> QED BY <1>4, <3>4
  <2>4. AttemptInv' /\ attempts' \in Attempts(faults')
    BY <1>1, <1>3, <2>1, AttemptsKept
  <2>5. CandidateInv'
    BY <1>1, <2>2 DEF ExecutionInv, CandidateInv
  <2>6. TailBounded'
    <3> SUFFICES ASSUME NEW g \in Frames, cand'[g] = "certified", HeadBelow(g)
                 PROVE  g <= MaxAhead \/ \E c \in Canonical : g - c <= MaxAhead
      BY <2>1 DEF TailBounded, HeadBelow
    <3>1. CASE g = top
      BY <2>3, <3>1 DEF Admits
    <3>2. CASE g # top
      BY <2>2, <3>2 DEF ExecutionInv, TailBounded
    <3> QED BY <3>1, <3>2
  <2>7. queue' \subseteq Direct
    BY <1>1, <1>2, <1>4, OfferType
  <2> QED BY <1>1, <1>2, <1>3, <1>4, <2>1, <2>2, <2>4, <2>5, <2>6, <2>7, DeliveryKeeps
<1>5. CASE /\ canon' = Stored(top) /\ queue' = queue
           /\ \/ cand' = cand
              \/ \E k \in Served(top) : cand' = Kept(top, {h \in Served(top) : h < k})
  <2>1. canon' \in [Frames -> Kinds] /\ Canonical \subseteq Canonical' /\ Canonical' \subseteq Frames
    BY <1>2, <1>5 DEF Stored, Record, Kinds, Canonical
  <2>2. /\ cand' \in [Frames -> Kinds]
        /\ \A h \in Frames : cand'[h] = "certified" => cand[h] = "certified"
    <3>1. ASSUME NEW k \in Served(top), cand' = Kept(top, {h \in Served(top) : h < k})
          PROVE  /\ cand' \in [Frames -> Kinds]
                 /\ \A h \in Frames : cand'[h] = "certified" => cand[h] = "certified"
      <4>1. k \in 1..top /\ ~(top < k)
        BY DEF Served, Chain, Frames
      <4> QED BY <1>2, <3>1, <4>1 DEF Kept, Kinds
    <3> QED BY <1>2, <1>5, <3>1
  <2>3. AttemptInv' /\ attempts' \in Attempts(faults')
    BY <1>1, <1>3, <2>1, AttemptsKept
  <2>4. TailBounded' /\ CandidateInv'
    BY <2>1, <2>2, TailKept
  <2>5. announced' \subseteq Canonical'
    BY <1>1, <1>2, <2>1
  <2> QED BY <1>1, <1>2, <1>3, <1>5, <2>1, <2>2, <2>3, <2>4, <2>5, DeliveryKeeps
<1> QED BY <1>4, <1>5 DEF Sync

LEMMA BackfillStep ==
  ASSUME ExecutionInv, NEW h \in Frames, Backfill(h)
  PROVE  ExecutionInv'
<1>1. /\ UNCHANGED <<build, execution, up, job, staged, last, roots, flushed, crashes>>
      /\ UNCHANGED <<cand, queue, attempts, lease, faults, announced>>
      /\ gaps' = gaps \ {h}
  BY DEF Backfill, pipeline, history
<1>2. /\ cand \in [Frames -> Kinds] /\ canon \in [Frames -> Kinds]
      /\ queue \subseteq Direct
      /\ lease \in BOOLEAN /\ gaps' \subseteq Frames /\ faults \in 0..MaxFaults
      /\ announced \subseteq Canonical
  BY <1>1 DEF ExecutionInv, TypeOK, AnnouncedInv
<1>3. PICK k \in {"plain", "certified"} : canon' = [canon EXCEPT ![h] = k]
  <2>1. canon' = [canon EXCEPT ![h] = IF canon[h] # "none" THEN canon[h]
                                      ELSE IF cand[h] # "none" THEN cand[h] ELSE Record(h)]
    BY DEF Backfill
  <2>2. canon[h] \in Kinds /\ cand[h] \in Kinds /\ Record(h) \in {"plain", "certified"}
    BY <1>2 DEF Record
  <2> QED BY <2>1, <2>2 DEF Kinds
<1>4. canon' \in [Frames -> Kinds] /\ Canonical' = Canonical \cup {h} /\ Canonical' \subseteq Frames
  BY <1>3, RecordWritten DEF ExecutionInv, Canonical
<1>5. AttemptInv' /\ attempts' \in Attempts(faults') /\ TailBounded' /\ CandidateInv'
  BY <1>1, <1>4, AttemptsSame, TailKept
<1> QED BY <1>1, <1>2, <1>4, <1>5, DeliveryKeeps

LEMMA LeaseStep ==
  ASSUME ExecutionInv, TakeLease \/ DropLease
  PROVE  ExecutionInv'
<1>1. /\ UNCHANGED <<build, execution, up, job, staged, last, roots, flushed, crashes>>
      /\ UNCHANGED <<canon, cand, queue, attempts, gaps, faults, announced>>
      /\ lease' \in BOOLEAN /\ Canonical' = Canonical /\ Canonical \subseteq Frames
  BY DEF TakeLease, DropLease, clock, pipeline, history, Canonical
<1>2. /\ canon \in [Frames -> Kinds] /\ cand \in [Frames -> Kinds]
      /\ queue \subseteq Direct
      /\ gaps \subseteq Frames /\ faults \in 0..MaxFaults /\ announced \subseteq Canonical
  BY DEF ExecutionInv, TypeOK, AnnouncedInv
<1>3. AttemptInv' /\ attempts' \in Attempts(faults') /\ TailBounded' /\ CandidateInv'
  BY <1>1, AttemptsSame, TailKept
<1> QED BY <1>1, <1>2, <1>3, DeliveryKeeps

-----------------------------------------------------------------------------
(* The pipeline's step                                                     *)

LEMMA LegacyWritten ==
  ASSUME ExecutionInv, NEW h \in Frames, canon' = LegacyRecord(h)
  PROVE  /\ canon' \in [Frames -> Kinds] /\ Canonical' = Canonical \cup {h}
         /\ Canonical' \subseteq Frames
<1>1. PICK k \in {"plain", "certified"} : canon' = [canon EXCEPT ![h] = k]
  BY DEF LegacyRecord
<1> QED BY <1>1, RecordWritten DEF ExecutionInv, Canonical

\* The legacy record is written, or the write fails.
LEMMA LegacyTried ==
  ASSUME ExecutionInv, NEW h \in Frames, NEW used \in 0..MaxFaults, Legacy(h, used)
  PROVE  /\ canon' \in [Frames -> Kinds] /\ Canonical \subseteq Canonical' /\ Canonical' \subseteq Frames
         /\ faults' \in 0..MaxFaults /\ faults' >= used
         /\ h \in Canonical' \/ faults' = used + 1
<1>1. faults' \in 0..MaxFaults /\ faults' >= used
  BY LimitAssumption DEF Legacy
<1>2. CASE canon' = LegacyRecord(h)
  BY <1>1, <1>2, LegacyWritten
<1>3. CASE canon' = canon /\ faults' = used + 1
  BY <1>1, <1>3 DEF ExecutionInv, TypeOK, Canonical
<1> QED BY <1>2, <1>3 DEF Legacy

LEMMA StepLegacyStep ==
  ASSUME ExecutionInv, NEW h \in Frames, StepLegacy(h)
  PROVE  ExecutionInv'
<1>1. /\ UNCHANGED <<build, execution, up, job, staged, last, roots, flushed, crashes>>
      /\ UNCHANGED <<cand, attempts, lease, gaps, announced>>
      /\ queue' = Loaded(h) /\ Legacy(h, faults)
  BY DEF StepLegacy
<1>2. /\ cand \in [Frames -> Kinds] /\ faults \in 0..MaxFaults
      /\ lease \in BOOLEAN /\ gaps \subseteq Frames /\ announced \subseteq Canonical
  BY DEF ExecutionInv, TypeOK, AnnouncedInv
<1>3. queue' \subseteq Direct
  BY <1>1, LoadedType
<1>4. /\ canon' \in [Frames -> Kinds] /\ Canonical \subseteq Canonical' /\ Canonical' \subseteq Frames
      /\ faults' \in 0..MaxFaults /\ faults' >= faults
  BY <1>1, <1>2, LegacyTried
<1>5. AttemptInv' /\ attempts' \in Attempts(faults')
  BY <1>1, <1>4, AttemptsKept
<1>6. TailBounded' /\ CandidateInv'
  BY <1>1, <1>4, TailKept
<1>7. announced' \subseteq Canonical'
  BY <1>1, <1>2, <1>4
<1> QED BY <1>1, <1>2, <1>3, <1>4, <1>5, <1>6, <1>7, DeliveryKeeps

\* A height at the limit has its record, or its failure added a fault.
LEMMA StepUnavailableStep ==
  ASSUME ExecutionInv, NEW h \in Frames, StepUnavailable(h)
  PROVE  ExecutionInv'
<1> DEFINE used == AttemptFaults(h)
<1>1. /\ UNCHANGED <<build, execution, up, job, staged, last, roots, flushed, crashes>>
      /\ UNCHANGED <<cand, lease, gaps, announced>>
      /\ queue' = Loaded(h) /\ canon[h] = "none"
      /\ attempts' = [frame |-> h, count |-> Failures(h)]
  BY DEF StepUnavailable, Attempting, Stepping
<1>2. /\ cand \in [Frames -> Kinds] /\ canon \in [Frames -> Kinds]
      /\ attempts \in Attempts(faults) /\ faults \in 0..MaxFaults
      /\ lease \in BOOLEAN /\ gaps \subseteq Frames /\ announced \subseteq Canonical
      /\ Canonical \subseteq Frames
  BY AttemptsType DEF ExecutionInv, TypeOK, AnnouncedInv, Canonical
<1>3. queue' \subseteq Direct
  BY <1>1, LoadedType
<1>4. used \in 0..MaxFaults /\ used >= faults
  BY <1>2, LimitAssumption DEF StepUnavailable, AttemptFaults
<1>5. Failures(h) \in 1..(MaxAttempts + faults)
  <2>1. attempts.frame = h => ~(attempts.count >= MaxAttempts + faults)
    BY <1>1 DEF ExecutionInv, AttemptInv
  <2>2. attempts.count \in 0..(MaxAttempts + faults)
    BY <1>2 DEF Attempts
  <2> QED BY <1>2, <2>1, <2>2, LimitAssumption DEF Failures
<1>6. /\ canon' \in [Frames -> Kinds] /\ Canonical \subseteq Canonical' /\ Canonical' \subseteq Frames
      /\ faults' \in 0..MaxFaults /\ faults' >= used
      /\ Failures(h) >= MaxAttempts => h \in Canonical' \/ faults' = used + 1
  <2>1. CASE Failures(h) >= MaxAttempts
    <3>1. Legacy(h, used)
      BY <2>1 DEF StepUnavailable
    <3> HIDE DEF used
    <3> QED BY <1>4, <2>1, <3>1, LegacyTried
  <2>2. CASE ~(Failures(h) >= MaxAttempts)
    <3>1. canon' = canon /\ faults' = used
      BY <2>2 DEF StepUnavailable
    <3> HIDE DEF used
    <3> QED BY <1>2, <1>4, <2>2, <3>1 DEF Canonical
  <2> QED BY <2>1, <2>2
<1> HIDE DEF used
<1>7. attempts' \in Attempts(faults')
  <2>1. Failures(h) \in 0..(MaxAttempts + faults')
    BY <1>2, <1>4, <1>5, <1>6, LimitAssumption
  <2> QED BY <1>1, <2>1 DEF Frames, Attempts
<1>8. AttemptInv'
  <2>1. Failures(h) >= MaxAttempts + faults' => h \in Canonical'
    BY <1>2, <1>4, <1>5, <1>6, LimitAssumption
  <2> QED BY <1>1, <2>1 DEF AttemptInv, Canonical
<1>9. TailBounded' /\ CandidateInv'
  BY <1>1, <1>6, TailKept
<1>10. announced' \subseteq Canonical'
  BY <1>1, <1>2, <1>6
<1> QED BY <1>1, <1>2, <1>3, <1>6, <1>7, <1>8, <1>9, <1>10, DeliveryKeeps

-----------------------------------------------------------------------------
(* Executing a frame                                                       *)

\* How often a frame is in the state when f is applied to it.
LEMMA TimesAfter ==
  ASSUME ExecutionInv, NEW f \in Frames, state' = Append(state, f), NEW h \in Frames
  PROVE  Times(h) \in Nat /\ Times(h)' = IF h = f THEN Times(h) + 1 ELSE Times(h)
<1>1. state \in Seq(Frames)
  BY DEF ExecutionInv, TypeOK
<1>2. Times(h) = Count(state, h) /\ Times(h)' = Count(state', h)
  BY DEF Times, Count
<1>3. Count(state, h) \in Nat
  BY <1>1, CountType
<1>4. Count(state', h) = IF h = f THEN Count(state, h) + 1 ELSE Count(state, h)
  BY <1>1, CountAppend
<1> QED BY <1>2, <1>3, <1>4

\* The next frame is applied and the cursor moved in one batch.
LEMMA Advance ==
  ASSUME ExecutionInv, NEW f \in Frames, f = cursor + 1,
         state' = Append(state, f), cursor' = f, UNCHANGED flushed
  PROVE  state' \in Seq(Frames) /\ cursor' \in 0..N /\ CursorIsFrontier' /\ FlushedInv'
<1>1. state \in Seq(Frames) /\ cursor \in 0..N /\ flushed \subseteq Frames
  BY DEF ExecutionInv, TypeOK
<1>2. state' \in Seq(Frames) /\ cursor' \in 0..N
  BY <1>1, AppendProperties DEF Frames
<1>3. \A h \in Frames : /\ Times(h) \in Nat
                        /\ Times(h)' = IF h = f THEN Times(h) + 1 ELSE Times(h)
  BY TimesAfter
<1>4. CursorIsFrontier'
  <2> SUFFICES ASSUME NEW h \in Frames \ flushed
               PROVE  Times(h)' = IF h <= f THEN 1 ELSE 0
    BY DEF CursorIsFrontier
  <2>1. Times(h) = IF h <= cursor THEN 1 ELSE 0
    BY DEF ExecutionInv, CursorIsFrontier
  <2> QED BY <1>1, <1>3, <2>1 DEF Frames
<1>5. FlushedInv'
  BY <1>1, <1>3 DEF ExecutionInv, FlushedInv
<1> QED BY <1>2, <1>4, <1>5

\* An atomic publication: record, state, cursor and receipt move together.
LEMMA PublishStep ==
  ASSUME ExecutionInv, NEW h \in Frames, StepPublish(h) \/ CanonicalPublish(h)
  PROVE  ExecutionInv'
<1>1. /\ up /\ pending = 0 /\ h = cursor + 1
      /\ UNCHANGED <<cand, pending, up, lease, staged, gaps, announced, flushed, crashes, faults>>
      /\ state' = Append(state, h) /\ cursor' = h /\ last' = h
      /\ receipt' = [frame |-> h, state |-> state']
      /\ job' \in [frame : {h}, stage : {"announce", "settle"}]
      /\ recorded' = receipt' /\ mismatch' = FALSE /\ build' = build
  BY DEF StepPublish, CanonicalPublish, Attempting, Stepping, Publishable, Recorded,
         CanonicalPublishable, Ready, clock, history
<1>2. /\ canon' \in [Frames -> Kinds] /\ Canonical' = Canonical \cup {h} /\ Canonical' \subseteq Frames
  <2>1. CASE StepPublish(h)
    BY <2>1, LegacyWritten DEF StepPublish
  <2>2. CASE CanonicalPublish(h)
    BY <2>2 DEF CanonicalPublish, Recorded, clock, Canonical, ExecutionInv, TypeOK
  <2> QED BY <2>1, <2>2
<1>3. /\ queue' \subseteq Direct
      /\ attempts' \in {attempts, [frame |-> 0, count |-> 0]}
  BY LoadedType DEF StepPublish, CanonicalPublish, pipeline, ExecutionInv, TypeOK
<1>4. /\ attempts' \in Attempts(faults') /\ AttemptInv'
  <2>1. CASE attempts' = attempts
    BY <1>1, <1>2, <2>1, AttemptsSame
  <2>2. CASE attempts' = [frame |-> 0, count |-> 0]
    <3>1. faults' \in 0..MaxFaults
      BY <1>1 DEF ExecutionInv, TypeOK
    <3> QED BY <2>2, <3>1, AttemptsReset
  <2> QED BY <1>3, <2>1, <2>2
<1>5. state' \in Seq(Frames) /\ cursor' \in 0..N /\ CursorIsFrontier' /\ FlushedInv'
  BY <1>1, Advance
<1>6. TailBounded' /\ CandidateInv'
  BY <1>1, <1>2, TailKept
<1>7. receipt' \in Checkpoints /\ ReceiptCurrent'
  BY <1>1, <1>5 DEF Checkpoints, ReceiptCurrent
<1>8. AnnouncedInv'
  BY <1>1, <1>2 DEF ExecutionInv, AnnouncedInv
<1>9. job' \in [frame : Frames, stage : Stages]
  BY <1>1 DEF Stages
<1>10. TypeOK'
  BY <1>1, <1>2, <1>3, <1>4, <1>5, <1>7, <1>9 DEF ExecutionInv, TypeOK, Attempts
<1>11. JobInv'
  <2>1. staged' = 0
    BY <1>1 DEF ExecutionInv, JobInv
  <2>2. canon'[h] # "none"
    BY <1>2 DEF Canonical
  <2> QED BY <1>1, <2>1, <2>2 DEF JobInv
<1> QED BY <1>4, <1>5, <1>6, <1>7, <1>8, <1>10, <1>11 DEF ExecutionInv

\* What a step keeps that leaves clock and counter alone.
LEMMA ClockUntouched ==
  ASSUME ExecutionInv, UNCHANGED <<clock, attempts, announced>>,
         faults' \in 0..MaxFaults, faults' >= faults
  PROVE  /\ Canonical' = Canonical /\ attempts' \in Attempts(faults')
         /\ AttemptInv' /\ TailBounded' /\ CandidateInv' /\ AnnouncedInv'
<1>1. Canonical' = Canonical /\ Canonical \subseteq Frames
  BY DEF clock, Canonical
<1>2. AttemptInv' /\ attempts' \in Attempts(faults')
  BY <1>1, AttemptsKept
<1>3. TailBounded' /\ CandidateInv'
  BY <1>1, TailKept DEF clock
<1> QED BY <1>1, <1>2, <1>3 DEF ExecutionInv, AnnouncedInv

LEMMA FaultsSame ==
  ASSUME ExecutionInv, UNCHANGED faults
  PROVE  faults' \in 0..MaxFaults /\ faults' >= faults
BY LimitAssumption DEF ExecutionInv, TypeOK

\* The marker is set for the frame after the cursor.
LEMMA BeginStep ==
  ASSUME ExecutionInv, NEW h \in Frames, MaterializeBegin(h)
  PROVE  ExecutionInv'
<1>1. /\ up /\ h = last + 1 /\ pending = 0 /\ canon[h] # "none" /\ job = Idle
      /\ UNCHANGED <<build, canon, cand, cursor, state, receipt, queue, attempts, up, lease, staged,
                     last, gaps, recorded, announced, flushed, crashes>>
      /\ UNCHANGED clock
      /\ pending' = h /\ job' = [frame |-> h, stage |-> "begun"]
  BY DEF MaterializeBegin, Recorded, Ready, pipeline, clock
<1>2. faults' \in 0..MaxFaults /\ faults' >= faults
  BY LimitAssumption DEF ExecutionInv, TypeOK, MaterializeBegin
<1>3. /\ attempts' \in Attempts(faults')
      /\ AttemptInv' /\ TailBounded' /\ CandidateInv' /\ AnnouncedInv'
  BY <1>1, <1>2, ClockUntouched
<1>4. mismatch' \in BOOLEAN
  BY DEF ExecutionInv, TypeOK, MaterializeBegin
<1>5. TypeOK'
  BY <1>1, <1>2, <1>3, <1>4 DEF ExecutionInv, TypeOK, Stages, Frames, Attempts
<1>6. last = cursor /\ staged = 0 /\ h # 0
  BY <1>1 DEF ExecutionInv, JobInv, Frames
<1>7. job'.stage = "begun" /\ job'.frame = h
  BY <1>1
<1>8. JobInv'
  BY <1>1, <1>6, <1>7 DEF JobInv
<1>9. CursorIsFrontier' /\ FlushedInv' /\ ReceiptCurrent'
  BY <1>1, <1>6 DEF ExecutionInv, CursorIsFrontier, FlushedInv, ReceiptCurrent, Times
<1> QED BY <1>3, <1>5, <1>8, <1>9 DEF ExecutionInv

\* The worker's end changes nothing durable.
LEMMA RefusedStep ==
  ASSUME ExecutionInv, NEW h \in Frames, MaterializeRefused(h)
  PROVE  ExecutionInv'
<1>1. /\ up /\ job = Idle /\ job' = Exited
      /\ UNCHANGED <<build, canon, cand, cursor, state, receipt, pending, queue, attempts, up, lease,
                     staged, last, gaps, recorded, mismatch, announced, flushed, crashes>>
      /\ UNCHANGED clock
  BY DEF MaterializeRefused, Recorded, Ready, pipeline, clock, execution, roots
<1>2. faults' \in 0..MaxFaults /\ faults' >= faults
  BY LimitAssumption DEF ExecutionInv, TypeOK, MaterializeRefused
<1>3. /\ attempts' \in Attempts(faults')
      /\ AttemptInv' /\ TailBounded' /\ CandidateInv' /\ AnnouncedInv'
  BY <1>1, <1>2, ClockUntouched
<1>4. TypeOK'
  BY <1>1, <1>2, <1>3 DEF ExecutionInv, TypeOK, Attempts
<1>5. Exited.stage = "exited"
  BY DEF Exited
<1>6. JobInv'
  BY <1>1, <1>5 DEF ExecutionInv, JobInv
<1>7. CursorIsFrontier' /\ FlushedInv' /\ ReceiptCurrent'
  BY <1>1 DEF ExecutionInv, CursorIsFrontier, FlushedInv, ReceiptCurrent, Times
<1> QED BY <1>3, <1>4, <1>6, <1>7 DEF ExecutionInv

LEMMA CommitStep ==
  ASSUME ExecutionInv, MaterializeCommit
  PROVE  ExecutionInv'
<1>1. /\ job.stage = "begun" /\ job \notin {Idle, Exited}
      /\ UNCHANGED <<canon, cand, receipt, pending, queue, attempts, up, lease, staged, last,
                     build, gaps, roots, announced, flushed, crashes, faults>>
      /\ UNCHANGED clock
      /\ state' = Append(state, job.frame) /\ cursor' = job.frame
      /\ job' = [job EXCEPT !.stage = "committed"]
  BY DEF MaterializeCommit, pipeline, clock, history, Idle, Exited
<1>2. /\ job \in [frame : Frames, stage : Stages] /\ job.frame \in Frames
      /\ pending = job.frame /\ cursor + 1 = pending /\ up /\ canon[job.frame] # "none"
      /\ staged = 0
  BY <1>1 DEF ExecutionInv, TypeOK, JobInv
<1>3. /\ job' \in [frame : Frames, stage : Stages]
      /\ job'.frame = job.frame /\ job'.stage = "committed"
  BY <1>1, <1>2 DEF Stages
<1>4. /\ attempts' \in Attempts(faults')
      /\ AttemptInv' /\ TailBounded' /\ CandidateInv' /\ AnnouncedInv'
  BY <1>1, FaultsSame, ClockUntouched
<1>5. state' \in Seq(Frames) /\ cursor' \in 0..N /\ CursorIsFrontier' /\ FlushedInv'
  BY <1>1, <1>2, Advance
<1>6. TypeOK'
  BY <1>1, <1>3, <1>4, <1>5 DEF ExecutionInv, TypeOK, Attempts, roots
<1>7. job.frame # 0
  BY <1>2 DEF Frames
<1>8. JobInv' /\ ReceiptCurrent'
  BY <1>1, <1>2, <1>3, <1>7 DEF JobInv, ReceiptCurrent
<1> QED BY <1>4, <1>5, <1>6, <1>8 DEF ExecutionInv

LEMMA FinishStep ==
  ASSUME ExecutionInv, MaterializeFinish
  PROVE  ExecutionInv'
<1>1. /\ job.stage = "committed" /\ job \notin {Idle, Exited} /\ pending = job.frame /\ cursor = job.frame
      /\ UNCHANGED <<canon, cand, cursor, state, queue, attempts, up, lease, staged,
                     build, gaps, mismatch, announced, flushed, crashes, faults>>
      /\ UNCHANGED clock
      /\ receipt' = [frame |-> job.frame, state |-> state] /\ recorded' = receipt'
      /\ pending' = 0 /\ last' = job.frame
      /\ job' \in {[job EXCEPT !.stage = "settle"], Idle}
  BY DEF MaterializeFinish, pipeline, clock, history, Idle, Exited
<1>2. /\ job \in [frame : Frames, stage : Stages] /\ job.frame \in Frames
      /\ up /\ canon[job.frame] # "none" /\ staged = 0
  BY <1>1 DEF ExecutionInv, TypeOK, JobInv
<1>3. \/ /\ job' \in [frame : Frames, stage : Stages]
         /\ job'.frame = job.frame /\ job'.stage = "settle"
      \/ job' = Idle /\ job'.stage = "idle"
  BY <1>1, <1>2 DEF Stages, Idle
<1>4. /\ attempts' \in Attempts(faults')
      /\ AttemptInv' /\ TailBounded' /\ CandidateInv' /\ AnnouncedInv'
  BY <1>1, FaultsSame, ClockUntouched
<1>5. receipt' \in Checkpoints /\ job.frame \in 0..N /\ 0 \in 0..N
  BY <1>1, <1>2, ChainAssumption DEF ExecutionInv, TypeOK, Checkpoints, Frames
<1>6. TypeOK'
  BY <1>1, <1>3, <1>4, <1>5 DEF ExecutionInv, TypeOK, Attempts
<1>7. CursorIsFrontier' /\ FlushedInv'
  BY <1>1 DEF ExecutionInv, CursorIsFrontier, FlushedInv, Times
<1>8. JobInv' /\ ReceiptCurrent'
  BY <1>1, <1>2, <1>3 DEF JobInv, ReceiptCurrent
<1> QED BY <1>4, <1>6, <1>7, <1>8 DEF ExecutionInv

\* An error return changes no durable state: the marker stays.
LEMMA FailStep ==
  ASSUME ExecutionInv, MaterializeFail
  PROVE  ExecutionInv'
<1>1. /\ job.stage \in {"begun", "committed"} /\ job \notin {Idle, Exited} /\ job' \in {Idle, Exited}
      /\ UNCHANGED <<build, canon, cand, cursor, state, receipt, pending, queue, attempts, up, lease,
                     last, gaps, recorded, mismatch, announced, flushed, crashes>>
      /\ UNCHANGED clock
      /\ staged' \in IF job.stage = "begun" THEN {0, job.frame} ELSE {0}
  BY DEF MaterializeFail, AfterFailure, pipeline, clock, execution, roots, Idle, Exited
<1>2. /\ job.frame \in Frames /\ up
      /\ pending = job.frame /\ (job.stage = "begun" => cursor + 1 = pending)
  BY <1>1 DEF ExecutionInv, TypeOK, JobInv, Idle
<1>3. faults' \in 0..MaxFaults /\ faults' >= faults
  BY LimitAssumption DEF ExecutionInv, TypeOK, MaterializeFail
<1>4. /\ attempts' \in Attempts(faults')
      /\ AttemptInv' /\ TailBounded' /\ CandidateInv' /\ AnnouncedInv'
  BY <1>1, <1>3, ClockUntouched
<1>5. staged' \in 0..N
  BY <1>1, <1>2, ChainAssumption DEF Frames
<1>6. TypeOK'
  BY <1>1, <1>3, <1>4, <1>5 DEF ExecutionInv, TypeOK, Attempts
<1>7. CursorIsFrontier' /\ FlushedInv' /\ ReceiptCurrent'
  BY <1>1 DEF ExecutionInv, CursorIsFrontier, FlushedInv, ReceiptCurrent, Times
<1>8. pending # 0 /\ (cursor + 1 = pending \/ cursor = pending)
  BY <1>2 DEF ExecutionInv, JobInv, Frames
<1>9. job'.stage \in {"idle", "exited"}
  BY <1>1 DEF Idle, Exited
<1>10. JobInv'
  BY <1>1, <1>2, <1>8, <1>9 DEF JobInv
<1> QED BY <1>4, <1>6, <1>7, <1>10 DEF ExecutionInv

\* The end of a frame: it leaves the queue and is announced.
LEMMA SettleStep ==
  ASSUME ExecutionInv, Settle \/ Announce
  PROVE  ExecutionInv'
<1>1. /\ job.stage \in {"settle", "announce"} /\ job \notin {Idle, Exited} /\ job' = Idle
      /\ UNCHANGED <<canon, cand, cursor, state, receipt, pending, up, lease, staged, last,
                     build, gaps, roots, flushed, crashes, faults>>
      /\ UNCHANGED clock /\ Canonical' = Canonical /\ Canonical \subseteq Frames
      /\ announced' \subseteq announced \cup {job.frame}
      /\ queue' \subseteq queue
      /\ attempts' \in {attempts, [frame |-> 0, count |-> 0]}
  BY DEF Settle, Announce, pipeline, clock, execution, Idle, Exited, roots, Canonical
<1>2. job.frame \in Frames /\ canon[job.frame] # "none" /\ pending = 0 /\ up /\ staged = 0
  BY <1>1 DEF ExecutionInv, TypeOK, JobInv
<1>3. TailBounded' /\ CandidateInv'
  BY <1>1, TailKept
<1>4. AnnouncedInv' /\ announced' \subseteq Frames
  BY <1>1, <1>2 DEF ExecutionInv, AnnouncedInv, Canonical
<1>5. attempts' \in Attempts(faults') /\ AttemptInv'
  <2>1. CASE attempts' = attempts
    BY <1>1, <2>1, AttemptsSame
  <2>2. CASE attempts' = [frame |-> 0, count |-> 0]
    BY <1>1, <2>2, FaultsSame, AttemptsReset
  <2> QED BY <1>1, <2>1, <2>2
<1>6. TypeOK'
  BY <1>1, <1>4, <1>5 DEF ExecutionInv, TypeOK, Attempts, roots
<1>7. CursorIsFrontier' /\ FlushedInv' /\ ReceiptCurrent'
  BY <1>1 DEF ExecutionInv, CursorIsFrontier, FlushedInv, ReceiptCurrent, Times
<1>8. last = cursor /\ Idle.stage = "idle"
  BY <1>2 DEF ExecutionInv, JobInv, Idle
<1>9. JobInv'
  BY <1>1, <1>2, <1>8 DEF JobInv
<1> QED BY <1>3, <1>4, <1>5, <1>6, <1>7, <1>9 DEF ExecutionInv

\* What an unrelated commit publishes lies under the marker.
LEMMA ForeignStep ==
  ASSUME ExecutionInv, ForeignCommit
  PROVE  ExecutionInv'
<1>1. /\ staged # 0 /\ staged' = 0
      /\ UNCHANGED <<canon, cand, cursor, receipt, pending, queue, attempts, up, lease, job, last,
                     build, gaps, roots, announced, crashes, faults>>
      /\ UNCHANGED clock
      /\ state' = Append(state, staged) /\ flushed' = flushed \cup {staged}
  BY DEF ForeignCommit, pipeline, clock, roots
<1>2. /\ staged \in Frames /\ job \in {Idle, Exited} /\ pending = staged /\ pending # 0
      /\ state \in Seq(Frames) /\ flushed \subseteq Frames
  BY <1>1, ChainAssumption DEF ExecutionInv, TypeOK, JobInv, Frames
<1>3. /\ attempts' \in Attempts(faults')
      /\ AttemptInv' /\ TailBounded' /\ CandidateInv' /\ AnnouncedInv'
  BY <1>1, FaultsSame, ClockUntouched
<1>4. state' \in Seq(Frames)
  BY <1>1, <1>2, AppendProperties
<1>5. TypeOK'
  BY <1>1, <1>2, <1>3, <1>4, ChainAssumption DEF ExecutionInv, TypeOK, Attempts, roots
<1>6. \A h \in Frames : /\ Times(h) \in Nat
                        /\ Times(h)' = IF h = staged THEN Times(h) + 1 ELSE Times(h)
  BY <1>1, <1>2, TimesAfter
<1>7. CursorIsFrontier'
  BY <1>1, <1>6 DEF ExecutionInv, CursorIsFrontier
<1>8. FlushedInv'
  BY <1>1, <1>2, <1>6 DEF ExecutionInv, FlushedInv
<1>9. JobInv' /\ ReceiptCurrent'
  BY <1>1, <1>2 DEF ExecutionInv, JobInv, ReceiptCurrent
<1> QED BY <1>3, <1>5, <1>7, <1>8, <1>9 DEF ExecutionInv

-----------------------------------------------------------------------------
(* Crash and restart                                                       *)

LEMMA StopStep ==
  ASSUME ExecutionInv, Crash \/ Restart
  PROVE  ExecutionInv'
<1>1. /\ UNCHANGED <<canon, cand, cursor, state, receipt, pending, announced, flushed, faults>>
      /\ Canonical' = Canonical /\ Canonical \subseteq Frames
      /\ up' = FALSE /\ queue' = {} /\ attempts' = [frame |-> 0, count |-> 0]
      /\ lease' = FALSE /\ job' = Idle /\ staged' = 0 /\ last' = 0 /\ gaps' = {}
      /\ recorded' = Unrecorded /\ mismatch' = FALSE /\ build' = build
  BY DEF Crash, Restart, Stop, clock, execution, Canonical
<1>2. crashes' \in 0..MaxCrashes
  BY LimitAssumption DEF ExecutionInv, TypeOK, Crash, Restart
<1>3. TailBounded' /\ CandidateInv'
  BY <1>1, TailKept
<1>4. /\ attempts' \in Attempts(faults') /\ AttemptInv'
  BY <1>1, FaultsSame, AttemptsReset
<1>5. TypeOK'
  <2>1. Unrecorded \in Checkpoints /\ 0 \in 0..N
    BY ChainAssumption DEF Unrecorded, Checkpoints
  <2> QED BY <1>1, <1>2, <1>4, <2>1 DEF ExecutionInv, TypeOK, Attempts
<1>6. CursorIsFrontier' /\ FlushedInv' /\ ReceiptCurrent' /\ AnnouncedInv'
  BY <1>1 DEF ExecutionInv, CursorIsFrontier, FlushedInv, ReceiptCurrent, AnnouncedInv, Times
<1>7. JobInv'
  BY <1>1 DEF ExecutionInv, JobInv, Idle
<1> QED BY <1>3, <1>4, <1>5, <1>6, <1>7 DEF ExecutionInv

\* The marker is cleared only with a receipt that tells the truth, or none.
LEMMA StartupStep ==
  ASSUME ExecutionInv, Startup
  PROVE  ExecutionInv'
<1>1. /\ ~up /\ up' = TRUE /\ last' = cursor /\ recorded' = [frame |-> cursor, state |-> state]
      /\ UNCHANGED <<canon, cand, cursor, state, queue, attempts, lease, job, build, staged, mismatch,
                     announced, flushed, crashes, faults>>
      /\ UNCHANGED clock /\ gaps' \subseteq Frames
  BY DEF Startup, clock, pipeline, history
<1>2. job = Idle /\ staged = 0
  BY <1>1 DEF ExecutionInv, JobInv
<1>3. /\ attempts' \in Attempts(faults')
      /\ AttemptInv' /\ TailBounded' /\ CandidateInv' /\ AnnouncedInv'
  BY <1>1, FaultsSame, ClockUntouched
<1>4. /\ pending' \in {0, pending}
      /\ receipt' \in {receipt, [frame |-> 0, state |-> << >>]}
      /\ pending' = 0 => \/ pending = 0 /\ receipt' = receipt
                         \/ receipt' = [frame |-> cursor, state |-> state]
                         \/ receipt' = [frame |-> 0, state |-> << >>]
  BY DEF Startup, Recover
<1>5. << >> \in Seq(Frames) /\ 0 \in 0..N
  BY ChainAssumption
<1>6. pending' \in 0..N /\ receipt' \in Checkpoints
  <2>1. [frame |-> 0, state |-> << >>] \in Checkpoints
    BY <1>5 DEF Checkpoints
  <2>2. pending \in 0..N /\ receipt \in Checkpoints
    BY DEF ExecutionInv, TypeOK
  <2> QED BY <1>4, <1>5, <2>1, <2>2
<1>7. TypeOK'
  BY <1>1, <1>3, <1>6 DEF ExecutionInv, TypeOK, Attempts, Checkpoints
<1>8. CursorIsFrontier' /\ FlushedInv'
  BY <1>1 DEF ExecutionInv, CursorIsFrontier, FlushedInv, Times
<1>9. ReceiptCurrent'
  BY <1>1, <1>4 DEF ExecutionInv, ReceiptCurrent
<1>10. JobInv'
  <2>1. pending' # 0 => cursor + 1 = pending' \/ cursor = pending'
    BY <1>4 DEF ExecutionInv, JobInv
  <2>2. job.stage = "idle"
    BY <1>2 DEF Idle
  <2> QED BY <1>1, <1>2, <2>1, <2>2 DEF JobInv
<1> QED BY <1>3, <1>7, <1>8, <1>9, <1>10 DEF ExecutionInv

-----------------------------------------------------------------------------
(* The theorems                                                            *)

LEMMA InitExecution == Init => ExecutionInv
<1> SUFFICES ASSUME Init PROVE ExecutionInv
  OBVIOUS
<1>1. /\ 0 \in 0..N /\ 0 \in 0..MaxCrashes /\ 0 \in 0..MaxFaults /\ 0 \in 0..(MaxAttempts + 0)
      /\ << >> \in Seq(Frames) /\ ~(0 >= MaxAttempts + 0)
  BY ChainAssumption, LimitAssumption
<1>2. \A h \in Frames : canon[h] = "none" /\ cand[h] = "none"
  BY DEF Init
<1>3. TypeOK
  BY <1>1 DEF Init, TypeOK, Kinds, Checkpoints, Unrecorded
<1>4. CandidateInv /\ AttemptInv /\ TailBounded
  BY <1>1, <1>2 DEF Init, CandidateInv, AttemptInv, TailBounded
<1>5. JobInv /\ FlushedInv /\ ReceiptCurrent /\ AnnouncedInv
  BY DEF Init, JobInv, Idle, FlushedInv, ReceiptCurrent, AnnouncedInv
<1>6. CursorIsFrontier
  <2> SUFFICES ASSUME NEW h \in Frames PROVE Times(h) = 0 /\ ~(h <= 0)
    BY DEF CursorIsFrontier, Init
  <2>1. {i \in DOMAIN state : state[i] = h} = {}
    BY DEF Init
  <2> QED BY <2>1, FS_EmptySet DEF Times, Frames
<1> QED BY <1>3, <1>4, <1>5, <1>6 DEF ExecutionInv

LEMMA NextExecution == ExecutionInv /\ [Next]_vars => ExecutionInv'
<1> SUFFICES ASSUME ExecutionInv, [Next]_vars PROVE ExecutionInv'
  OBVIOUS
<1>1. CASE UNCHANGED vars
  BY <1>1 DEF ExecutionInv, TypeOK, CandidateInv, AttemptInv, JobInv, CursorIsFrontier, Times,
              FlushedInv, ReceiptCurrent, TailBounded, HeadBelow, Canonical, AnnouncedInv,
              vars, clock, execution, pipeline, history, roots
<1>2. CASE Deliver
  BY <1>2, OnNotarizedStep, OnFinalizedAdmittedStep, OnFinalizedDirectlyStep, SyncStep,
     BackfillStep DEF Deliver
<1>3. CASE TakeLease \/ DropLease
  BY <1>3, LeaseStep
<1>4. CASE Step
  BY <1>4, StepLegacyStep, StepUnavailableStep, PublishStep DEF Step
<1>5. CASE Settle \/ Announce
  BY <1>5, SettleStep
<1>6. CASE Materialize
  BY <1>6, PublishStep, BeginStep, RefusedStep, CommitStep, FinishStep, FailStep DEF Materialize
<1>7. CASE ForeignCommit
  BY <1>7, ForeignStep
<1>8. CASE Process
  BY <1>8, StopStep, StartupStep DEF Process
<1> QED BY <1>1, <1>2, <1>3, <1>4, <1>5, <1>6, <1>7, <1>8 DEF Next, ChainEnds

LEMMA AlwaysExecution == Spec => []ExecutionInv
BY InitExecution, NextExecution, PTL DEF Spec

\* Records, cursor, marker and queue keep their types; in particular the counted
\* attempts of a height pass the limit by no more than the faults met: the
\* pipeline's legacy record ends them unless its own write fails.
THEOREM TypeCorrect == Spec => []TypeOK
<1>1. ExecutionInv => TypeOK
  BY DEF ExecutionInv
<1> QED BY <1>1, AlwaysExecution, PTL

\* commit_frame_with_global_cursor and the two atomic publications keep the
\* cursor at the frontier of the state, through faults, crashes and restarts.
THEOREM CursorTellsTruth == Spec => []CursorIsFrontier
<1>1. ExecutionInv => CursorIsFrontier
  BY DEF ExecutionInv
<1> QED BY <1>1, AlwaysExecution, PTL

\* The materializer skips no frame, also where an unrelated commit published
\* what a failed attempt had staged.
THEOREM NothingSkipped == Spec => []NoFrameSkipped
<1>1. ExecutionInv => NoFrameSkipped
  <2> SUFFICES ASSUME ExecutionInv, NEW h \in 1..cursor PROVE Times(h) >= 1
    BY DEF NoFrameSkipped
  <2>1. h \in Frames /\ h <= cursor
    BY ChainAssumption DEF ExecutionInv, TypeOK, Frames
  <2>2. CASE h \in flushed
    BY <2>2 DEF ExecutionInv, FlushedInv
  <2>3. CASE h \notin flushed
    BY <2>1, <2>3 DEF ExecutionInv, CursorIsFrontier
  <2> QED BY <2>2, <2>3
<1> QED BY <1>1, AlwaysExecution, PTL

\* recover_unfinished_execution always finds the marker at the cursor or one
\* above it, and staged mutations are always under a marker.
THEOREM MarkersResolve == Spec => []MarkerResolvable
<1>1. ExecutionInv => MarkerResolvable
  BY DEF ExecutionInv, JobInv, MarkerResolvable, Resolvable
<1> QED BY <1>1, AlwaysExecution, PTL

\* finish_execution_checkpoint and the recovery never leave a receipt that
\* describes another frame or another state than the present one.
THEOREM ReceiptTellsTruth == Spec => []ReceiptCurrent
<1>1. ExecutionInv => ReceiptCurrent
  BY DEF ExecutionInv
<1> QED BY <1>1, AlwaysExecution, PTL

\* GlobalFinalizationPipeline::admits bounds the certified candidates above the
\* canonical head, whatever order finalizations and synced chains come in.
THEOREM TailIsBounded == Spec => []TailBounded
<1>1. ExecutionInv => TailBounded
  BY DEF ExecutionInv
<1> QED BY <1>1, AlwaysExecution, PTL

\* materialize's marker check: in a process that does not recover its marker,
\* as quil-node's does not, no restart and no later step takes a marked frame,
\* or any other, past the marker.
THEOREM MarkerStopsForGood == Spec => UnfinishedStops
<1> DEFINE Stuck == ~build.recovery /\ pending # 0 /\ job.frame # pending
<1>1. ExecutionInv /\ [Next]_vars => (Stuck => UNCHANGED <<pending, cursor>>) \/ UNCHANGED vars
  <2> SUFFICES ASSUME ExecutionInv, [Next]_vars, Stuck PROVE UNCHANGED <<pending, cursor>>
    OBVIOUS
  <2>1. job.stage \notin {"begun", "committed", "settle", "announce"}
    BY DEF ExecutionInv, JobInv
  <2>2. ASSUME NEW h \in Frames, StepLegacy(h) \/ StepUnavailable(h) \/ StepPublish(h)
        PROVE  UNCHANGED <<pending, cursor>>
    BY <2>2 DEF StepLegacy, StepUnavailable, StepPublish, Publishable, execution
  <2>3. ASSUME Materialize PROVE UNCHANGED <<pending, cursor>>
    BY <2>1, <2>3 DEF Materialize, CanonicalPublish, CanonicalPublishable, MaterializeBegin,
                      MaterializeRefused, MaterializeCommit, MaterializeFinish, MaterializeFail, execution
  <2>4. ASSUME Deliver \/ TakeLease \/ DropLease \/ Announce \/ Settle \/ ForeignCommit
        PROVE  UNCHANGED <<pending, cursor>>
    BY <2>4 DEF Deliver, OnNotarized, OnFinalizedAdmitted, OnFinalizedDirectly, Sync, Backfill,
                TakeLease, DropLease, Announce, Settle, ForeignCommit, execution
  <2>5. ASSUME Process PROVE UNCHANGED <<pending, cursor>>
    BY <2>5 DEF Process, Crash, Restart, Stop, Startup, execution
  <2>6. ASSUME UNCHANGED vars PROVE UNCHANGED <<pending, cursor>>
    BY <2>6 DEF vars, execution
  <2> QED BY <2>2, <2>3, <2>4, <2>5, <2>6 DEF Next, Step, ChainEnds
<1> QED BY <1>1, AlwaysExecution, PTL DEF Spec, UnfinishedStops

-----------------------------------------------------------------------------
(* The refinement                                                          *)

\* Steps that leave cursor and announcements alone, or announce records.
LEMMA RecordsRefine ==
  ASSUME ExecutionInv, UNCHANGED cursor, Canonical \subseteq Canonical',
         announced \subseteq announced', announced' \subseteq Canonical'
  PROVE  Ledger!Next
<1>1. Canonical' \subseteq 1..N
  BY DEF Canonical, Frames
<1> QED BY <1>1 DEF Ledger!Next, Ledger!Record

LEMMA ExecutionRefines ==
  ASSUME ExecutionInv, ExecutionInv', NEW f \in Frames, f = cursor + 1, cursor' = f,
         Canonical' = Canonical \cup {f}, UNCHANGED announced
  PROVE  Ledger!Next
<1>1. cursor < N
  BY ChainAssumption DEF ExecutionInv, TypeOK, Frames
<1> QED BY <1>1 DEF Ledger!Next, Ledger!Execute

\* No step takes a record or an announcement back.
LEMMA ClockGrows ==
  ASSUME ExecutionInv, Next
  PROVE  Canonical \subseteq Canonical' /\ announced \subseteq announced'
<1>1. canon \in [Frames -> Kinds]
  BY DEF ExecutionInv, TypeOK
<1>2. CASE UNCHANGED <<canon, announced>>
  BY <1>2 DEF Canonical
<1>3. ASSUME NEW h \in Frames, Sync(h) PROVE Canonical \subseteq Canonical' /\ announced' = announced
  BY <1>1, <1>3 DEF Sync, Stored, Record, Canonical
<1>4. ASSUME NEW h \in Frames, NEW k, canon' = [canon EXCEPT ![h] = k], k # "none" \/ canon[h] = "none"
      PROVE  Canonical \subseteq Canonical'
  BY <1>1, <1>4 DEF Canonical
<1>5. ASSUME NEW h \in Frames, OnFinalizedDirectly(h) \/ Backfill(h)
      PROVE  Canonical \subseteq Canonical' /\ announced \subseteq announced'
  BY <1>4, <1>5 DEF OnFinalizedDirectly, Backfill, Record, history
<1>6. ASSUME NEW h \in Frames, StepLegacy(h) \/ StepPublish(h) \/ StepUnavailable(h)
      PROVE  Canonical \subseteq Canonical' /\ announced \subseteq announced'
  <2>1. canon' \in {canon, LegacyRecord(h)} /\ announced' = announced
    BY <1>6 DEF StepLegacy, StepPublish, StepUnavailable, Legacy, history
  <2> QED BY <2>1, LegacyWritten DEF Canonical
<1>7. ASSUME Settle \/ Announce PROVE canon' = canon /\ announced \subseteq announced'
  BY <1>7 DEF Settle, Announce, clock
<1>8. ASSUME NEW h \in Frames, OnNotarized(h) \/ OnFinalizedAdmitted(h) PROVE UNCHANGED <<canon, announced>>
  BY <1>8 DEF OnNotarized, OnFinalizedAdmitted, history
<1>9. ASSUME TakeLease \/ DropLease \/ Materialize \/ ForeignCommit \/ Process
      PROVE  UNCHANGED <<canon, announced>>
  BY <1>9 DEF TakeLease, DropLease, Materialize, CanonicalPublish, MaterializeBegin,
              MaterializeRefused, MaterializeCommit, MaterializeFinish, MaterializeFail, ForeignCommit, Process,
              Crash, Restart, Stop, Startup, clock, history
<1> QED BY <1>2, <1>3, <1>5, <1>6, <1>7, <1>8, <1>9 DEF Next, ChainEnds, vars, clock, history, Deliver, Step, Canonical

LEMMA CursorSteps ==
  ASSUME ExecutionInv, Next
  PROVE  \/ UNCHANGED cursor
         \/ \E f \in Frames : /\ f = cursor + 1 /\ cursor' = f /\ UNCHANGED announced
                              /\ Canonical' = Canonical \cup {f}
<1>1. ASSUME NEW h \in Frames, StepPublish(h)
      PROVE  h = cursor + 1 /\ cursor' = h /\ UNCHANGED announced /\ Canonical' = Canonical \cup {h}
  BY <1>1, LegacyWritten DEF StepPublish, Attempting, Publishable, history
<1>2. ASSUME NEW h \in Frames, CanonicalPublish(h)
      PROVE  h = cursor + 1 /\ cursor' = h /\ UNCHANGED announced /\ Canonical' = Canonical \cup {h}
  BY <1>2 DEF CanonicalPublish, Recorded, CanonicalPublishable, Canonical, clock, history
<1>3. ASSUME MaterializeCommit
      PROVE  /\ job.frame \in Frames /\ job.frame = cursor + 1 /\ cursor' = job.frame
             /\ UNCHANGED announced /\ Canonical' = Canonical \cup {job.frame}
  <2>1. job.stage = "begun" /\ job \notin {Idle, Exited}
    BY <1>3 DEF MaterializeCommit, Idle, Exited
  <2>2. job.frame \in Frames /\ pending = job.frame /\ cursor + 1 = pending /\ canon[job.frame] # "none"
    BY <2>1 DEF ExecutionInv, TypeOK, JobInv
  <2> QED BY <1>3, <2>2 DEF MaterializeCommit, Canonical, clock, history
<1>4. ASSUME NEW h \in Frames, \/ OnNotarized(h) \/ OnFinalizedAdmitted(h) \/ OnFinalizedDirectly(h)
                               \/ Sync(h) \/ Backfill(h) \/ StepLegacy(h) \/ StepUnavailable(h)
                               \/ MaterializeBegin(h) \/ MaterializeRefused(h)
      PROVE  UNCHANGED cursor
  BY <1>4 DEF OnNotarized, OnFinalizedAdmitted, OnFinalizedDirectly, Sync, Backfill, StepLegacy,
              StepUnavailable, MaterializeBegin, MaterializeRefused, execution
<1>5. ASSUME \/ TakeLease \/ DropLease \/ Announce \/ Settle \/ MaterializeFinish \/ MaterializeFail
             \/ ForeignCommit \/ Process
      PROVE  UNCHANGED cursor
  BY <1>5 DEF TakeLease, DropLease, Announce, Settle, MaterializeFinish, MaterializeFail,
              ForeignCommit, Process, Crash, Restart, Stop, Startup, execution
<1>6. ASSUME ChainEnds PROVE UNCHANGED cursor
  BY <1>6 DEF ChainEnds, vars, execution
<1> QED BY <1>1, <1>2, <1>3, <1>4, <1>5, <1>6 DEF Next, Deliver, Step, Materialize

\* The archive takes only the ledger's steps, with the pipeline and without: finalized frames are recorded,
\* executed one at a time in the order of their heights, and announced only when
\* canonical; no fault and no crash takes any of it back.
THEOREM LedgerImplemented == Spec => ImplementsLedger
<1>1. Init => Ledger!Init
  BY DEF Init, Ledger!Init, Canonical
<1>2. ExecutionInv /\ ExecutionInv' /\ [Next]_vars => [Ledger!Next]_(Ledger!vars)
  <2> SUFFICES ASSUME ExecutionInv, ExecutionInv', [Next]_vars
               PROVE  Ledger!Next \/ UNCHANGED Ledger!vars
    OBVIOUS
  <2>1. CASE UNCHANGED vars
    BY <2>1 DEF Ledger!vars, vars, clock, execution, history, Canonical
  <2>2. CASE Next
    <3>1. /\ Canonical \subseteq Canonical' /\ announced \subseteq announced'
          /\ announced' \subseteq Canonical'
      BY <2>2, ClockGrows DEF ExecutionInv, AnnouncedInv
    <3>2. CASE UNCHANGED cursor
      BY <3>1, <3>2, RecordsRefine
    <3>3. CASE \E f \in Frames : /\ f = cursor + 1 /\ cursor' = f /\ UNCHANGED announced
                                 /\ Canonical' = Canonical \cup {f}
      BY <3>3, ExecutionRefines
    <3> QED BY <2>2, <3>2, <3>3, CursorSteps
  <2> QED BY <2>1, <2>2
<1> QED BY <1>1, <1>2, AlwaysExecution, PTL DEF Spec, ImplementsLedger, Ledger!Spec
============================================================================
