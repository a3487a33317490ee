------------------------ MODULE GlobalHandoffProofs ------------------------
(***************************************************************************)
(* Proofs about GlobalHandoff, for every set of filters, changes, provers  *)
(* and digests and every bound.                                            *)
(*                                                                         *)
(* TerminalIsExecutedTip, FramesNeverReused and ActivationNeverRefused     *)
(* are not inductive by themselves.  The strengthening says which sessions *)
(* exist (HeadInv), that only a filter's last session can be live and that *)
(* closed ones have an end (ClosedInv), that nothing is recorded of an     *)
(* absent session (AbsentInv), that tips lie above bases (TipInv), and     *)
(* that a request that has not activated owns its sources and its targets  *)
(* (RequestInv).                                                           *)
(***************************************************************************)
EXTENDS GlobalHandoff, TLAPS

HeadInv ==
  \A f \in Filters : \A g \in Generations : status[<<f, g>>] = "absent" <=> g > head[f]

AbsentInv ==
  \A s \in SessionIds : status[s] = "absent" =>
    seal[s] = NoCheckpoint /\ fence[s] = NoCheckpoint /\ tip[s] = NoCheckpoint

ClosedInv ==
  /\ \A s \in SessionIds : status[s] = "closed" => End(s) # NoCheckpoint
  /\ \A f \in Filters : \A g \in Generations : g < head[f] => status[<<f, g>>] = "closed"

TipInv ==
  \A s \in SessionIds : tip[s] # NoCheckpoint => tip[s].frame > session[s].base

RequestInv ==
  /\ \A r \in requests : r.sources # {}
  /\ \A r \in requests \ activated :
       /\ \A s \in r.sources : status[s] = "sealing" /\ closing[s] = r
       /\ \A t \in r.targets : reserved[t.filter] = r
  /\ \A r \in activated : \A s \in r.sources : status[s] = "closed"
  /\ \A s \in SessionIds : status[s] = "sealing" =>
       closing[s] \in requests \ activated /\ s \in closing[s].sources

RecordInv ==
  /\ RecordsTypeOK
  /\ HeadInv
  /\ AbsentInv
  /\ ClosedInv
  /\ TipInv
  /\ RequestInv
  /\ TerminalIsExecutedTip
  /\ FramesNeverReused
  /\ ActivationNeverRefused

IInv == RecordInv /\ WorkTypeOK

-----------------------------------------------------------------------------
(* The initial state. *)

\* The records of a grid without sessions satisfy the invariant.
LEMMA InitInv == Init => IInv
<1> SUFFICES ASSUME Init PROVE IInv
  OBVIOUS
<1> USE DEF Init
<1>1. RecordsTypeOK
  BY ConstantsAssumption DEF RecordsTypeOK, NoSession, Session, Statuses, AppFrames
<1>2. WorkTypeOK
  BY ConstantsAssumption, TopologyAssumption
  DEF WorkTypeOK, IdlePass, Stages, Pass
<1>3. HeadInv
  BY DEF HeadInv, SessionIds, Generations
<1>4. AbsentInv
  BY DEF AbsentInv
<1>5. ClosedInv
  BY DEF ClosedInv, SessionIds, Generations
<1>6. TipInv
  BY DEF TipInv
<1>7. RequestInv
  BY DEF RequestInv
<1>8. TerminalIsExecutedTip
  BY DEF TerminalIsExecutedTip, End, EndIn
<1>9. FramesNeverReused
  BY DEF FramesNeverReused, SessionIds
<1>10. ActivationNeverRefused
  BY DEF ActivationNeverRefused
<1> QED
  BY <1>1, <1>2, <1>3, <1>4, <1>5, <1>6, <1>7, <1>8, <1>9, <1>10 DEF IInv, RecordInv

-----------------------------------------------------------------------------
(* Executing frames. *)

\* A tip that only rises, and never on a session that has ended, preserves
\* the invariant (record_session_tip after frames::verify).
LEMMA TipStep ==
  ASSUME RecordInv,
         NEW q \in SessionIds, NEW c \in Checkpoint,
         status[q] # "absent",
         c.frame > session[q].base, c.frame > Executed(q).frame,
         End(q) = NoCheckpoint,
         tip' = [tip EXCEPT ![q] = c],
         UNCHANGED <<head, session, status, closing, requests, activated, seal, fence,
                     reserved>>
  PROVE  RecordInv'
<1> USE DEF RecordInv
<1>1. RecordsTypeOK'
  BY DEF RecordsTypeOK
<1>2. HeadInv' /\ RequestInv'
  BY DEF HeadInv, RequestInv
<1>3. AbsentInv'
  BY DEF AbsentInv, RecordsTypeOK
<1>4. ClosedInv'
  BY DEF ClosedInv, End, EndIn
<1>5. TipInv'
  BY DEF TipInv, RecordsTypeOK
<1>6. TerminalIsExecutedTip'
  BY DEF TerminalIsExecutedTip, End, EndIn, Executed, RecordsTypeOK
<1>7. FramesNeverReused'
  <2> SUFFICES ASSUME NEW f \in Filters, NEW g \in Generations, NEW h \in Generations,
                      g < h, status[<<f, h>>] # "absent"
               PROVE  (Executed(<<f, g>>).frame <= session[<<f, h>>].base)'
    BY DEF FramesNeverReused
  <2>1. <<f, g>> \in SessionIds /\ <<f, h>> \in SessionIds
    BY DEF SessionIds
  <2>2. g < head[f]
    BY DEF HeadInv, Generations, RecordsTypeOK
  <2>3. End(<<f, g>>) # NoCheckpoint
    BY <2>1, <2>2 DEF ClosedInv
  <2>4. <<f, g>> # q
    BY <2>3
  <2>5. Executed(<<f, g>>)' = Executed(<<f, g>>)
    BY <2>1, <2>4 DEF Executed, RecordsTypeOK
  <2> QED
    BY <2>5 DEF FramesNeverReused
<1>8. ActivationNeverRefused'
  BY DEF ActivationNeverRefused, TargetsUnchanged
<1> QED
  BY <1>1, <1>2, <1>3, <1>4, <1>5, <1>6, <1>7, <1>8

-----------------------------------------------------------------------------
(* First sessions. *)

\* A first session on a filter that has none and that no waiting request
\* names as a target preserves the invariant (initialize).
LEMMA InitializeStep ==
  ASSUME RecordInv,
         NEW f \in Filters, NEW S \in SUBSET Provers,
         head[f] = 0, ~Reserved(f),
         Initialize(f, S),
         UNCHANGED <<closing, requests, activated, seal, fence, tip, reserved>>
  PROVE  RecordInv'
<1> USE DEF RecordInv
<1> DEFINE q == <<f, 1>>
<1>1. q \in SessionIds /\ status[q] = "absent"
  BY ConstantsAssumption DEF SessionIds, Generations, HeadInv, RecordsTypeOK
<1>2. /\ status' = [status EXCEPT ![q] = "active"]
      /\ head' = [head EXCEPT ![f] = 1]
      /\ session' = [session EXCEPT ![q] = [members |-> S, base |-> 0, origin |-> NoRequest]]
  BY DEF Initialize
<1>3. seal[q] = NoCheckpoint /\ fence[q] = NoCheckpoint /\ tip[q] = NoCheckpoint
  BY <1>1 DEF AbsentInv
<1> HIDE DEF q
<1>4. RecordsTypeOK'
  <2>1. [members |-> S, base |-> 0, origin |-> NoRequest] \in Session
    BY ConstantsAssumption DEF Session, AppFrames
  <2> QED
    BY <1>1, <1>2, <2>1, ConstantsAssumption DEF RecordsTypeOK, Statuses
<1>5. HeadInv'
  <2> SUFFICES ASSUME NEW e \in Filters, NEW g \in Generations
               PROVE  (status[<<e, g>>] = "absent" <=> g > head[e])'
    BY DEF HeadInv
  <2>1. CASE e = f
    BY <2>1, <1>1, <1>2 DEF HeadInv, RecordsTypeOK, Generations, SessionIds, q
  <2>2. CASE e # f
    BY <2>2, <1>1, <1>2 DEF HeadInv, RecordsTypeOK, Generations, SessionIds, q
  <2> QED
    BY <2>1, <2>2
<1>6. AbsentInv'
  BY <1>1, <1>2, <1>3 DEF AbsentInv, RecordsTypeOK
<1>7. ClosedInv'
  <2>1. \A s \in SessionIds : status'[s] = "closed" => End(s)' # NoCheckpoint
    BY <1>1, <1>2 DEF ClosedInv, RecordsTypeOK, End, EndIn
  <2>2. ASSUME NEW e \in Filters, NEW g \in Generations, g < head'[e]
        PROVE  status'[<<e, g>>] = "closed"
    <3>1. e # f
      BY <2>2, <1>2 DEF RecordsTypeOK, Generations
    <3> QED
      BY <2>2, <3>1, <1>1, <1>2 DEF ClosedInv, RecordsTypeOK, SessionIds, q
  <2> QED
    BY <2>1, <2>2 DEF ClosedInv
<1>8. TipInv'
  BY <1>1, <1>2, <1>3 DEF TipInv, RecordsTypeOK
<1>9. RequestInv'
  BY <1>1, <1>2 DEF RequestInv, RecordsTypeOK, Request
<1>10. TerminalIsExecutedTip'
  BY <1>1, <1>2, <1>3 DEF TerminalIsExecutedTip, End, EndIn, Executed, RecordsTypeOK
<1>11. FramesNeverReused'
  <2> SUFFICES ASSUME NEW e \in Filters, NEW g \in Generations, NEW h \in Generations,
                      g < h, status'[<<e, h>>] # "absent"
               PROVE  (Executed(<<e, g>>).frame <= session[<<e, h>>].base)'
    BY DEF FramesNeverReused
  <2>1. e # f
    <3> SUFFICES ASSUME e = f PROVE FALSE
      OBVIOUS
    <3>1. h > 1 /\ <<e, h>> # q /\ <<e, h>> \in SessionIds
      BY DEF Generations, q, SessionIds
    <3> QED
      BY <3>1, <1>1, <1>2 DEF HeadInv, RecordsTypeOK, Generations
  <2>2. <<e, g>> # q /\ <<e, h>> # q /\ <<e, g>> \in SessionIds /\ <<e, h>> \in SessionIds
    BY <2>1 DEF q, SessionIds
  <2> QED
    BY <2>2, <1>1, <1>2 DEF FramesNeverReused, Executed, RecordsTypeOK
<1>12. ActivationNeverRefused'
  <2> SUFFICES ASSUME NEW r \in requests \ activated, NEW t \in r.targets
               PROVE  /\ head'[t.filter] = t.generation - 1
                      /\ t.generation > 1 =>
                           \/ <<t.filter, t.generation - 1>> \in r.sources
                           \/ status'[<<t.filter, t.generation - 1>>] = "closed"
    BY DEF ActivationNeverRefused, TargetsUnchanged
  <2>1. t.filter \in Filters /\ t.generation \in Generations
    BY DEF RecordsTypeOK, Request, Target
  <2>2. t.filter # f
    <3>1. reserved[t.filter] = r
      BY DEF RequestInv
    <3>2. r # NoRequest
      BY SentinelAssumption DEF RecordsTypeOK
    <3> QED
      BY <3>1, <3>2 DEF Reserved
  <2>3. /\ head[t.filter] = t.generation - 1
        /\ t.generation > 1 =>
             \/ <<t.filter, t.generation - 1>> \in r.sources
             \/ status[<<t.filter, t.generation - 1>>] = "closed"
    BY DEF ActivationNeverRefused, TargetsUnchanged
  <2>4. head'[t.filter] = head[t.filter]
    BY <2>1, <2>2, <1>2 DEF RecordsTypeOK
  <2>5. t.generation > 1 => t.generation - 1 \in Generations
    BY <2>1, ConstantsAssumption DEF Generations
  <2>6. t.generation > 1 =>
          status'[<<t.filter, t.generation - 1>>] = status[<<t.filter, t.generation - 1>>]
    BY <2>1, <2>2, <2>5, <1>2 DEF RecordsTypeOK, SessionIds, q
  <2> QED
    BY <2>3, <2>4, <2>6
<1> QED
  BY <1>4, <1>5, <1>6, <1>7, <1>8, <1>9, <1>10, <1>11, <1>12

-----------------------------------------------------------------------------
(* Scheduling a request. *)

\* A request that closes active sessions, names the next generation of every
\* target, and takes no target another request waits for, preserves the
\* invariant (schedule_with_vacant and reserve).
LEMMA ScheduleStep ==
  ASSUME RecordInv,
         NEW r \in Request,
         r.sources # {},
         \A s \in r.sources : status[s] = "active",
         TargetsUnchanged(r),
         \A t \in r.targets : Reserved(t.filter) => HeadSession(t.filter) \in r.sources,
         Schedule(r),
         UNCHANGED <<head, session, activated, seal, fence, tip>>
  PROVE  RecordInv'
<1> USE DEF RecordInv
<1>1. /\ requests' = requests \cup {r}
      /\ status' = [s \in SessionIds |-> IF s \in r.sources THEN "sealing" ELSE status[s]]
      /\ closing' = [s \in SessionIds |-> IF s \in r.sources THEN r ELSE closing[s]]
      /\ reserved' = [f \in Filters |->
                        IF \E t \in r.targets : t.filter = f THEN r ELSE reserved[f]]
  BY DEF Schedule
<1>2. r.sources \subseteq SessionIds /\ r.targets \subseteq Target
  BY DEF Request
\* The request is new: an older one has no active source.
<1>3. r \notin requests
  BY DEF RequestInv
<1>4. r \notin activated
  BY <1>3 DEF RecordsTypeOK
\* It shares no source and no target with a request that waits.
<1>5. ASSUME NEW o \in requests \ activated
      PROVE  r.sources \cap o.sources = {}
  BY DEF RequestInv
<1>6. ASSUME NEW o \in requests \ activated, NEW u \in o.targets, NEW t \in r.targets
      PROVE  t.filter # u.filter
  <2> SUFFICES ASSUME t.filter = u.filter PROVE FALSE
    OBVIOUS
  <2>1. t \in Target /\ u \in Target
    BY <1>2 DEF RecordsTypeOK, Request
  <2>2. Reserved(t.filter)
    <3>1. reserved[u.filter] = o
      BY DEF RequestInv
    <3>2. o # NoRequest
      BY SentinelAssumption DEF RecordsTypeOK
    <3> QED
      BY <3>1, <3>2 DEF Reserved
  <2>3. <<u.filter, head[u.filter]>> \in r.sources
    BY <2>2 DEF HeadSession
  <2>4. /\ head[u.filter] = u.generation - 1
        /\ u.generation > 1 =>
             \/ <<u.filter, u.generation - 1>> \in o.sources
             \/ status[<<u.filter, u.generation - 1>>] = "closed"
    BY DEF ActivationNeverRefused, TargetsUnchanged
  <2>5. head[u.filter] \in Generations
    BY <2>3, <1>2 DEF SessionIds
  <2>6. u.generation > 1
    BY <2>1, <2>4, <2>5 DEF Generations, Target
  <2> QED
    BY <2>3, <2>4, <2>6, <1>5
<1>7. RecordsTypeOK'
  BY <1>1, <1>2 DEF RecordsTypeOK, Statuses
<1>8. \A s \in SessionIds :
        /\ (status'[s] = "absent") <=> (status[s] = "absent")
        /\ (status'[s] = "closed") <=> (status[s] = "closed")
  BY <1>1
<1>9. HeadInv'
  <2> SUFFICES ASSUME NEW f \in Filters, NEW g \in Generations
               PROVE  (status'[<<f, g>>] = "absent") <=> (g > head[f])
    BY DEF HeadInv
  <2>1. <<f, g>> \in SessionIds
    BY DEF SessionIds
  <2> QED
    BY <2>1, <1>8 DEF HeadInv
<1>10. AbsentInv' /\ TipInv' /\ TerminalIsExecutedTip'
  <2>1. AbsentInv'
    BY <1>8 DEF AbsentInv
  <2>2. TipInv'
    BY DEF TipInv
  <2>3. TerminalIsExecutedTip'
    BY DEF TerminalIsExecutedTip, End, EndIn, Executed
  <2> QED
    BY <2>1, <2>2, <2>3
<1>11. ClosedInv'
  <2>1. \A s \in SessionIds : status'[s] = "closed" => End(s)' # NoCheckpoint
    BY <1>8 DEF ClosedInv, End, EndIn
  <2>2. ASSUME NEW f \in Filters, NEW g \in Generations, g < head[f]
        PROVE  status'[<<f, g>>] = "closed"
    <3>1. <<f, g>> \in SessionIds
      BY DEF SessionIds
    <3> QED
      BY <2>2, <3>1, <1>8 DEF ClosedInv
  <2> QED
    BY <2>1, <2>2 DEF ClosedInv
<1>12. FramesNeverReused'
  <2> SUFFICES ASSUME NEW f \in Filters, NEW g \in Generations, NEW h \in Generations,
                      g < h, status'[<<f, h>>] # "absent"
               PROVE  (Executed(<<f, g>>).frame <= session[<<f, h>>].base)'
    BY DEF FramesNeverReused
  <2>1. <<f, h>> \in SessionIds
    BY DEF SessionIds
  <2>2. status[<<f, h>>] # "absent"
    BY <2>1, <1>8
  <2> QED
    BY <2>2 DEF FramesNeverReused, Executed
<1>13. RequestInv'
  <2>1. \A o \in requests' : o.sources # {}
    BY <1>1 DEF RequestInv
  <2>2. ASSUME NEW o \in requests' \ activated'
        PROVE  /\ \A s \in o.sources : status'[s] = "sealing" /\ closing'[s] = o
               /\ \A t \in o.targets : reserved'[t.filter] = o
    <3>1. CASE o = r
      <4>1. \A t \in r.targets : t.filter \in Filters
        BY <1>2 DEF Target
      <4> QED
        BY <3>1, <4>1, <1>1, <1>2
    <3>2. CASE o # r
      <4>1. o \in requests \ activated /\ o.sources \subseteq SessionIds
        BY <3>2, <1>1 DEF RecordsTypeOK, Request
      <4>2. \A u \in o.targets : u.filter \in Filters
        BY <4>1 DEF RecordsTypeOK, Request, Target
      <4>3. \A s \in o.sources : status[s] = "sealing" /\ closing[s] = o
        BY <4>1 DEF RequestInv
      <4>4. \A u \in o.targets : reserved[u.filter] = o
        BY <4>1 DEF RequestInv
      <4>5. \A u \in o.targets : reserved'[u.filter] = o
        BY <4>1, <4>2, <4>4, <1>1, <1>6
      <4> QED
        BY <4>1, <4>3, <4>5, <1>1, <1>5
    <3> QED
      BY <3>1, <3>2
  <2>3. \A o \in activated' : \A s \in o.sources : status'[s] = "closed"
    BY <1>8 DEF RequestInv, RecordsTypeOK, Request
  <2>4. \A s \in SessionIds : status'[s] = "sealing" =>
          closing'[s] \in requests' \ activated' /\ s \in closing'[s].sources
    BY <1>1, <1>4 DEF RequestInv
  <2> QED
    BY <2>1, <2>2, <2>3, <2>4 DEF RequestInv
<1>14. ActivationNeverRefused'
  <2> SUFFICES ASSUME NEW o \in requests' \ activated', NEW t \in o.targets,
                      t.generation > 1,
                      status[<<t.filter, t.generation - 1>>] = "closed"
               PROVE  status'[<<t.filter, t.generation - 1>>] = "closed"
    BY <1>1 DEF ActivationNeverRefused, TargetsUnchanged
  <2>1. t \in Target
    BY <1>1 DEF RecordsTypeOK, Request
  <2>2. <<t.filter, t.generation - 1>> \in SessionIds
    BY <2>1, ConstantsAssumption DEF Target, SessionIds, Generations
  <2> QED
    BY <2>2, <1>8
<1> QED
  BY <1>7, <1>9, <1>10, <1>11, <1>12, <1>13, <1>14

-----------------------------------------------------------------------------
(* Ending a source and activating its request. *)

\* Recording the end of a closing session q at its executed tip, and
\* authorizing the successors once every source has ended, preserves the
\* invariant (apply_submission and fence_stalled_sources with activate_with).
LEMMA EndSourceStep ==
  ASSUME RecordInv,
         NEW q \in SessionIds, status[q] = "sealing",
         NEW seals \in [SessionIds -> Checkpoint \cup {NoCheckpoint}],
         NEW fences \in [SessionIds -> Checkpoint \cup {NoCheckpoint}],
         \A s \in SessionIds \ {q} : seals[s] = seal[s] /\ fences[s] = fence[s],
         NEW replacement \in (SUBSET Provers) \cup {Unread},
         tip' \in [SessionIds -> Checkpoint \cup {NoCheckpoint}],
         \A s \in SessionIds \ {q} : tip'[s] = tip[s],
         tip'[q] # NoCheckpoint => tip'[q].frame > session[q].base,
         EndIn(seals, fences, q) # NoCheckpoint,
         EndIn(seals, fences, q) =
           IF tip'[q] # NoCheckpoint THEN tip'[q]
           ELSE [frame |-> session[q].base, digest |-> Genesis],
         EndSource(closing[q], seals, fences, replacement),
         UNCHANGED <<closing, requests, reserved>>
  PROVE  RecordInv'
<1> USE DEF RecordInv
<1> DEFINE r == closing[q]
<1>1. r \in requests \ activated /\ q \in r.sources /\ r \in Request
  BY DEF RequestInv, RecordsTypeOK
<1>2. r.sources \subseteq SessionIds /\ r.targets \subseteq Target
  BY <1>1 DEF Request
<1>3. seal' = seals /\ fence' = fences
  BY DEF EndSource
<1>4. \A s \in SessionIds \ {q} : EndIn(seals, fences, s) = End(s)
  BY DEF EndIn, End
<1>5. \A s \in SessionIds : End(s)' = EndIn(seals, fences, s)
  BY <1>3 DEF End, EndIn
<1>6. CASE ~ \A s \in r.sources : EndIn(seals, fences, s) # NoCheckpoint
  <2>1. UNCHANGED <<activated, status, head, session>>
    BY <1>6 DEF EndSource
  <2>2. RecordsTypeOK'
    BY <2>1, <1>3 DEF RecordsTypeOK
  <2>3. HeadInv' /\ RequestInv' /\ ActivationNeverRefused'
    BY <2>1 DEF HeadInv, RequestInv, ActivationNeverRefused, TargetsUnchanged
  <2>4. AbsentInv'
    BY <2>1, <1>3 DEF AbsentInv
  <2>5. ClosedInv'
    <3>1. \A s \in SessionIds : status'[s] = "closed" => End(s)' # NoCheckpoint
      BY <2>1, <1>4, <1>5 DEF ClosedInv
    <3> QED
      BY <3>1, <2>1 DEF ClosedInv
  <2>6. TipInv'
    BY <2>1 DEF TipInv
  <2>7. TerminalIsExecutedTip'
    <3> SUFFICES ASSUME NEW s \in SessionIds, End(s)' # NoCheckpoint
                 PROVE  End(s)' = Executed(s)'
      BY DEF TerminalIsExecutedTip
    <3>1. CASE s = q
      BY <3>1, <2>1, <1>5 DEF Executed
    <3>2. CASE s # q
      <4>1. End(s)' = End(s)
        BY <3>2, <1>4, <1>5
      <4>2. Executed(s)' = Executed(s)
        BY <3>2, <2>1 DEF Executed
      <4> QED
        BY <4>1, <4>2 DEF TerminalIsExecutedTip
    <3> QED
      BY <3>1, <3>2
  <2>8. FramesNeverReused'
    <3> SUFFICES ASSUME NEW f \in Filters, NEW g \in Generations, NEW h \in Generations,
                        g < h, status[<<f, h>>] # "absent"
                 PROVE  (Executed(<<f, g>>).frame <= session[<<f, h>>].base)'
      BY <2>1 DEF FramesNeverReused
    <3>1. <<f, g>> \in SessionIds /\ <<f, g>> # q
      <4>1. h <= head[f] /\ head[f] \in Nat
        BY DEF HeadInv, Generations, RecordsTypeOK
      <4>2. status[<<f, g>>] = "closed"
        BY <4>1 DEF ClosedInv, Generations
      <4> QED
        BY <4>2 DEF SessionIds
    <3>2. Executed(<<f, g>>)' = Executed(<<f, g>>)
      BY <3>1, <2>1 DEF Executed
    <3> QED
      BY <3>2, <2>1 DEF FramesNeverReused
  <2> QED
    BY <2>2, <2>3, <2>4, <2>5, <2>6, <2>7, <2>8
<1>7. CASE \A s \in r.sources : EndIn(seals, fences, s) # NoCheckpoint
  <2>1. /\ TargetsUnchanged(r)
        /\ activated' = activated \cup {r}
        /\ status' = [s \in SessionIds |->
                        IF s \in r.sources THEN "closed"
                        ELSE IF StaffedTarget(r, s) THEN "active" ELSE status[s]]
        /\ head' = [f \in Filters |->
                      IF \E t \in r.targets : t.filter = f /\ t.members # {}
                      THEN head[f] + 1 ELSE head[f]]
        /\ session' = [s \in SessionIds |->
             IF StaffedTarget(r, s)
             THEN SuccessorSession(r, CHOOSE t \in r.targets : s = <<t.filter, t.generation>>,
                                   seals, fences, replacement)
             ELSE session[s]]
    BY <1>7 DEF EndSource
  \* A successor is the absent session above its filter's head.
  <2>2. ASSUME NEW f \in Filters, NEW g \in Generations, StaffedTarget(r, <<f, g>>)
        PROVE  g = head[f] + 1 /\ status[<<f, g>>] = "absent"
    <3>1. PICK t \in r.targets : t.members # {} /\ <<f, g>> = <<t.filter, t.generation>>
      BY <2>2 DEF StaffedTarget
    <3>2. t.filter = f /\ t.generation = g
      BY <3>1
    <3>3. head[f] = g - 1
      BY <2>1, <3>2 DEF TargetsUnchanged
    <3> QED
      BY <3>3 DEF HeadInv, Generations, RecordsTypeOK
  <2>3. ASSUME NEW s \in SessionIds, StaffedTarget(r, s)
        PROVE  status[s] = "absent" /\ s \notin r.sources /\ s # q
    <3>1. PICK f \in Filters, g \in Generations : s = <<f, g>>
      BY DEF SessionIds
    <3>2. status[s] = "absent"
      BY <3>1, <2>2, <2>3
    <3> QED
      BY <3>2, <1>1 DEF RequestInv
  <2>4. \A f \in Filters :
          (\E t \in r.targets : t.filter = f /\ t.members # {})
            => head[f] + 1 \in Generations /\ StaffedTarget(r, <<f, head[f] + 1>>)
    <3> SUFFICES ASSUME NEW f \in Filters, NEW t \in r.targets, t.filter = f, t.members # {}
                 PROVE  head[f] + 1 \in Generations /\ StaffedTarget(r, <<f, head[f] + 1>>)
      OBVIOUS
    <3>1. head[f] = t.generation - 1 /\ t.generation \in Generations
      BY <2>1, <1>2 DEF TargetsUnchanged, Target
    <3>2. head[f] + 1 = t.generation
      BY <3>1 DEF Generations
    <3> QED
      BY <3>1, <3>2 DEF StaffedTarget
  \* The predecessor of a successor has ended at its executed tip.
  <2>5. ASSUME NEW f \in Filters, NEW g \in Generations, StaffedTarget(r, <<f, g>>), g # 1
        PROVE  /\ <<f, g - 1>> \in SessionIds
               /\ EndIn(seals, fences, <<f, g - 1>>) \in Checkpoint
               /\ ~StaffedTarget(r, <<f, g - 1>>)
               /\ status[<<f, g - 1>>] # "absent"
               /\ status'[<<f, g - 1>>] = "closed"
    <3>1. PICK t \in r.targets : t.members # {} /\ <<f, g>> = <<t.filter, t.generation>>
      BY <2>5 DEF StaffedTarget
    <3>2. t.filter = f /\ t.generation = g
      BY <3>1
    <3>3. g - 1 \in Generations /\ g > 1
      BY <2>5, ConstantsAssumption DEF Generations
    <3>4. <<f, g - 1>> \in SessionIds
      BY <3>3 DEF SessionIds
    <3>5. <<f, g - 1>> \in r.sources \/ status[<<f, g - 1>>] = "closed"
      BY <2>1, <3>2, <3>3 DEF TargetsUnchanged
    <3>6. EndIn(seals, fences, <<f, g - 1>>) # NoCheckpoint
      <4>1. CASE <<f, g - 1>> \in r.sources
        BY <4>1, <1>7
      <4>2. CASE status[<<f, g - 1>>] = "closed"
        BY <4>2, <3>4, <1>4 DEF ClosedInv
      <4> QED
        BY <3>5, <4>1, <4>2
    <3>7. status[<<f, g - 1>>] # "absent"
      BY <3>5, <1>1 DEF RequestInv
    <3>8. ~StaffedTarget(r, <<f, g - 1>>)
      BY <3>3, <3>7, <2>2
    <3>9. EndIn(seals, fences, <<f, g - 1>>) \in Checkpoint
      BY <3>4, <3>6 DEF EndIn
    <3>10. status'[<<f, g - 1>>] = "closed"
      BY <3>4, <3>5, <3>8, <2>1
    <3> QED
      BY <3>4, <3>7, <3>8, <3>9, <3>10
  <2>6. ASSUME NEW f \in Filters, NEW g \in Generations, StaffedTarget(r, <<f, g>>)
        PROVE  /\ session'[<<f, g>>] \in Session
               /\ session'[<<f, g>>].base =
                    IF g = 1 THEN 0 ELSE EndIn(seals, fences, <<f, g - 1>>).frame
    <3> DEFINE t == CHOOSE t \in r.targets : <<f, g>> = <<t.filter, t.generation>>
    <3>1. t \in r.targets /\ <<f, g>> = <<t.filter, t.generation>>
      BY <2>6 DEF StaffedTarget
    <3>2. t.filter = f /\ t.generation = g /\ t.members \in SUBSET Provers
      BY <3>1, <1>2 DEF Target
    <3>3. <<f, g>> \in SessionIds
      BY DEF SessionIds
    <3>4. session'[<<f, g>>] = SuccessorSession(r, t, seals, fences, replacement)
      BY <2>6, <3>3, <2>1
    <3> HIDE DEF t
    <3>5. session'[<<f, g>>].base =
            IF g = 1 THEN 0 ELSE EndIn(seals, fences, <<f, g - 1>>).frame
      BY <3>2, <3>4 DEF SuccessorSession
    <3>6. session'[<<f, g>>].base \in AppFrames
      <4>1. CASE g = 1
        BY <4>1, <3>5, ConstantsAssumption DEF AppFrames
      <4>2. CASE g # 1
        <5>1. EndIn(seals, fences, <<f, g - 1>>) \in Checkpoint
          BY <4>2, <2>5, <2>6
        <5> QED
          BY <4>2, <5>1, <3>5 DEF Checkpoint
      <4> QED
        BY <4>1, <4>2
    <3>7. session'[<<f, g>>] \in Session
      BY <3>2, <3>4, <3>6, <1>1 DEF SuccessorSession, Session
    <3> QED
      BY <3>5, <3>7
  <2>7. ASSUME NEW s \in SessionIds, ~StaffedTarget(r, s)
        PROVE  session'[s] = session[s]
    BY <2>1, <2>7
  <2>8. RecordsTypeOK'
    <3>1. session' \in [SessionIds -> Session]
      <4>1. session' = [s \in SessionIds |-> session'[s]]
        BY <2>1
      <4>2. ASSUME NEW s \in SessionIds PROVE session'[s] \in Session
        <5>1. PICK f \in Filters, g \in Generations : s = <<f, g>>
          BY DEF SessionIds
        <5> QED
          BY <5>1, <2>6, <2>7 DEF RecordsTypeOK
      <4> QED
        BY <4>1, <4>2
    <3>2. head' \in [Filters -> 0 .. MaxGeneration]
      <4>1. head' = [f \in Filters |-> head'[f]]
        BY <2>1
      <4>2. ASSUME NEW f \in Filters PROVE head'[f] \in 0 .. MaxGeneration
        <5>1. head[f] \in 0 .. MaxGeneration
          BY DEF RecordsTypeOK
        <5>2. CASE \E t \in r.targets : t.filter = f /\ t.members # {}
          <6>1. head'[f] = head[f] + 1
            BY <5>2, <2>1
          <6>2. head[f] + 1 \in Generations
            BY <5>2, <2>4
          <6> QED
            BY <6>1, <6>2, ConstantsAssumption DEF Generations
        <5>3. CASE ~ \E t \in r.targets : t.filter = f /\ t.members # {}
          BY <5>1, <5>3, <2>1
        <5> QED
          BY <5>2, <5>3
      <4> QED
        BY <4>1, <4>2
    <3>3. status' \in [SessionIds -> Statuses]
      BY <2>1 DEF RecordsTypeOK, Statuses
    <3> QED
      BY <3>1, <3>2, <3>3, <2>1, <1>1, <1>3 DEF RecordsTypeOK
  <2>9. \A s \in SessionIds :
          (status'[s] = "absent") <=> (status[s] = "absent" /\ ~StaffedTarget(r, s))
    BY <2>1, <1>1 DEF RequestInv
  <2>10. HeadInv'
    <3> SUFFICES ASSUME NEW f \in Filters, NEW g \in Generations
                 PROVE  (status'[<<f, g>>] = "absent") <=> (g > head'[f])
      BY DEF HeadInv
    <3>1. <<f, g>> \in SessionIds
      BY DEF SessionIds
    <3>2. (status[<<f, g>>] = "absent") <=> (g > head[f])
      BY DEF HeadInv
    <3>3. head[f] \in Nat /\ g \in Nat
      BY DEF RecordsTypeOK, Generations
    <3>4. CASE \E t \in r.targets : t.filter = f /\ t.members # {}
      <4>1. head'[f] = head[f] + 1 /\ StaffedTarget(r, <<f, head[f] + 1>>)
        BY <3>4, <2>1, <2>4
      <4>2. StaffedTarget(r, <<f, g>>) <=> g = head[f] + 1
        BY <4>1, <2>2
      <4> QED
        BY <3>1, <3>2, <3>3, <4>1, <4>2, <2>9
    <3>5. CASE ~ \E t \in r.targets : t.filter = f /\ t.members # {}
      <4>1. head'[f] = head[f]
        BY <3>5, <2>1
      <4>2. ~StaffedTarget(r, <<f, g>>)
        BY <3>5 DEF StaffedTarget
      <4> QED
        BY <3>1, <3>2, <4>1, <4>2, <2>9
    <3> QED
      BY <3>4, <3>5
  <2>11. AbsentInv'
    <3> SUFFICES ASSUME NEW s \in SessionIds, status'[s] = "absent"
                 PROVE  /\ seal'[s] = NoCheckpoint /\ fence'[s] = NoCheckpoint
                        /\ tip'[s] = NoCheckpoint
      BY DEF AbsentInv
    <3>1. status[s] = "absent" /\ s # q
      BY <2>9
    <3> QED
      BY <3>1, <1>3 DEF AbsentInv
  <2>12. ClosedInv'
    <3>1. ASSUME NEW s \in SessionIds, status'[s] = "closed"
          PROVE  End(s)' # NoCheckpoint
      <4>1. CASE s \in r.sources
        BY <4>1, <1>5, <1>7
      <4>2. CASE s \notin r.sources
        <5>1. status[s] = "closed" /\ s # q
          BY <4>2, <3>1, <2>1, <1>1
        <5> QED
          BY <5>1, <1>4, <1>5 DEF ClosedInv
      <4> QED
        BY <4>1, <4>2
    <3>2. ASSUME NEW f \in Filters, NEW g \in Generations, g < head'[f]
          PROVE  status'[<<f, g>>] = "closed"
      <4>1. <<f, g>> \in SessionIds /\ head[f] \in Nat /\ g \in Nat
        BY DEF SessionIds, RecordsTypeOK, Generations
      <4>2. CASE g < head[f]
        <5>1. status[<<f, g>>] = "closed"
          BY <4>2 DEF ClosedInv
        <5>2. ~StaffedTarget(r, <<f, g>>)
          BY <5>1, <2>2
        <5> QED
          BY <5>1, <5>2, <4>1, <2>1
      <4>3. CASE ~(g < head[f])
        <5>1. /\ head'[f] = head[f] + 1
              /\ head[f] + 1 \in Generations
              /\ StaffedTarget(r, <<f, head[f] + 1>>)
          BY <4>1, <4>3, <3>2, <2>1, <2>4
        <5>2. g = head[f]
          BY <5>1, <4>1, <4>3, <3>2
        <5>3. head[f] + 1 # 1 /\ (head[f] + 1) - 1 = g
          BY <5>2, <4>1 DEF Generations
        <5> QED
          BY <5>1, <5>3, <2>5
      <4> QED
        BY <4>2, <4>3
    <3> QED
      BY <3>1, <3>2 DEF ClosedInv
  <2>13. TipInv'
    <3> SUFFICES ASSUME NEW s \in SessionIds, tip'[s] # NoCheckpoint
                 PROVE  tip'[s].frame > session'[s].base
      BY DEF TipInv
    <3>1. CASE StaffedTarget(r, s)
      <4>1. s # q /\ tip[s] = NoCheckpoint
        BY <3>1, <2>3 DEF AbsentInv
      <4> QED
        BY <4>1
    <3>2. CASE ~StaffedTarget(r, s)
      <4>1. session'[s] = session[s]
        BY <3>2, <2>7
      <4> QED
        BY <4>1 DEF TipInv
    <3> QED
      BY <3>1, <3>2
  <2>14. RequestInv'
    <3>1. ASSUME NEW s \in SessionIds
          PROVE  /\ status[s] = "closed" => status'[s] = "closed"
                 /\ (status[s] = "sealing" /\ s \notin r.sources) => status'[s] = "sealing"
                 /\ status'[s] = "sealing" => status[s] = "sealing" /\ s \notin r.sources
      BY <2>1, <2>3
    <3>2. ASSUME NEW o \in requests' \ activated'
          PROVE  /\ \A s \in o.sources : status'[s] = "sealing" /\ closing'[s] = o
                 /\ \A t \in o.targets : reserved'[t.filter] = o
      <4>1. o \in requests \ activated /\ o # r /\ o.sources \subseteq SessionIds
        BY <3>2, <2>1 DEF RecordsTypeOK, Request
      <4>2. \A s \in o.sources : status[s] = "sealing" /\ closing[s] = o
        BY <4>1 DEF RequestInv
      <4>3. \A s \in o.sources : s \notin r.sources
        BY <4>1, <4>2, <1>1 DEF RequestInv
      <4>4. \A t \in o.targets : reserved[t.filter] = o
        BY <4>1 DEF RequestInv
      <4> QED
        BY <4>1, <4>2, <4>3, <4>4, <3>1
    <3>3. ASSUME NEW o \in activated', NEW s \in o.sources
          PROVE  status'[s] = "closed"
      <4>1. CASE o = r
        BY <4>1, <1>2, <2>1
      <4>2. CASE o \in activated
        <5>1. s \in SessionIds /\ status[s] = "closed"
          BY <4>2 DEF RequestInv, RecordsTypeOK, Request
        <5> QED
          BY <5>1, <3>1
      <4> QED
        BY <4>1, <4>2, <2>1
    <3>4. ASSUME NEW s \in SessionIds, status'[s] = "sealing"
          PROVE  closing'[s] \in requests' \ activated' /\ s \in closing'[s].sources
      <4>1. status[s] = "sealing" /\ s \notin r.sources
        BY <3>1, <3>4
      <4>2. closing[s] \in requests \ activated /\ s \in closing[s].sources
        BY <4>1 DEF RequestInv
      <4> QED
        BY <4>1, <4>2, <2>1
    <3>5. \A o \in requests' : o.sources # {}
      BY DEF RequestInv
    <3> QED
      BY <3>2, <3>3, <3>4, <3>5 DEF RequestInv
  <2>15. TerminalIsExecutedTip'
    <3> SUFFICES ASSUME NEW s \in SessionIds, End(s)' # NoCheckpoint
                 PROVE  End(s)' = Executed(s)'
      BY DEF TerminalIsExecutedTip
    <3>1. CASE s = q
      <4>1. session'[q] = session[q]
        BY <2>3, <2>7
      <4> QED
        BY <3>1, <4>1, <1>5 DEF Executed
    <3>2. CASE s # q
      <4>1. End(s)' = End(s)
        BY <3>2, <1>4, <1>5
      <4>2. status[s] # "absent"
        BY <4>1 DEF AbsentInv, End, EndIn
      <4>3. session'[s] = session[s]
        BY <4>2, <2>3, <2>7
      <4>4. Executed(s)' = Executed(s)
        BY <3>2, <4>3 DEF Executed
      <4> QED
        BY <4>1, <4>4 DEF TerminalIsExecutedTip
    <3> QED
      BY <3>1, <3>2
  <2>16. FramesNeverReused'
    <3> SUFFICES ASSUME NEW f \in Filters, NEW g \in Generations, NEW h \in Generations,
                        g < h, status'[<<f, h>>] # "absent"
                 PROVE  (Executed(<<f, g>>).frame <= session[<<f, h>>].base)'
      BY DEF FramesNeverReused
    <3>1. /\ <<f, g>> \in SessionIds /\ <<f, h>> \in SessionIds
          /\ head[f] \in Nat /\ g \in Nat /\ h \in Nat
      BY DEF SessionIds, RecordsTypeOK, Generations
    \* An earlier session of the filter that was not its head is untouched.
    <3>2. ASSUME g < head[f]
          PROVE  Executed(<<f, g>>)' = Executed(<<f, g>>)
      <4>1. status[<<f, g>>] = "closed"
        BY <3>2 DEF ClosedInv
      <4>2. <<f, g>> # q /\ session'[<<f, g>>] = session[<<f, g>>]
        BY <4>1, <3>1, <2>3, <2>7
      <4> QED
        BY <4>2, <3>1 DEF Executed
    <3>3. CASE StaffedTarget(r, <<f, h>>)
      <4>1. h = head[f] + 1 /\ h # 1
        BY <3>1, <3>3, <2>2 DEF Generations
      <4> DEFINE p == <<f, h - 1>>
      <4>2. /\ p \in SessionIds /\ status[p] # "absent" /\ ~StaffedTarget(r, p)
            /\ EndIn(seals, fences, p) \in Checkpoint
        BY <3>3, <4>1, <2>5
      <4>3. session'[<<f, h>>].base = EndIn(seals, fences, p).frame
        BY <3>3, <4>1, <2>6
      <4>4. EndIn(seals, fences, p) # NoCheckpoint
        BY <4>2, SentinelAssumption
      <4>5. End(p)' = Executed(p)' /\ End(p)' = EndIn(seals, fences, p)
        BY <4>2, <4>4, <1>5, <2>15 DEF TerminalIsExecutedTip
      <4>6. CASE g = h - 1
        BY <4>3, <4>5, <4>6, <4>2 DEF Checkpoint, AppFrames
      <4>7. CASE g # h - 1
        <5>1. g < head[f] /\ h - 1 \in Generations /\ g < h - 1
          BY <4>1, <4>7, <3>1 DEF Generations, RecordsTypeOK
        <5>2. Executed(<<f, g>>).frame <= session[p].base
          BY <5>1, <4>2 DEF FramesNeverReused
        <5>3. session'[p] = session[p] /\ session[p].base \in Nat
          BY <4>2, <2>7, ConstantsAssumption DEF RecordsTypeOK, Session, AppFrames
        <5>4. tip'[p] # NoCheckpoint => tip'[p].frame > session'[p].base
          BY <4>2, <2>13 DEF TipInv
        <5>5. tip'[p] # NoCheckpoint => tip'[p].frame \in Nat
          BY <4>2 DEF Checkpoint, AppFrames
        <5>6. session'[p].base <= Executed(p)'.frame
          BY <5>3, <5>4, <5>5 DEF Executed
        <5>7. Executed(<<f, g>>).frame \in Nat
          BY <3>1, ConstantsAssumption
          DEF Executed, RecordsTypeOK, Checkpoint, Session, AppFrames
        <5>8. Executed(p)'.frame = session'[<<f, h>>].base
          BY <4>3, <4>5
        <5>9. session'[<<f, h>>].base \in Nat
          BY <3>1, <2>8, ConstantsAssumption DEF RecordsTypeOK, Session, AppFrames
        <5> HIDE DEF p
        <5> QED
          BY <5>1, <5>2, <5>3, <5>6, <5>7, <5>8, <5>9, <3>2
      <4> QED
        BY <4>6, <4>7
    <3>4. CASE ~StaffedTarget(r, <<f, h>>)
      <4>1. status[<<f, h>>] # "absent" /\ session'[<<f, h>>] = session[<<f, h>>]
        BY <3>1, <3>4, <2>7, <2>9
      <4>2. g < head[f]
        BY <4>1, <3>1 DEF HeadInv
      <4> QED
        BY <4>1, <4>2, <3>2 DEF FramesNeverReused
    <3> QED
      BY <3>3, <3>4
  <2>17. ActivationNeverRefused'
    <3> SUFFICES ASSUME NEW o \in requests' \ activated', NEW t \in o.targets
                 PROVE  /\ head'[t.filter] = t.generation - 1
                        /\ t.generation > 1 =>
                             \/ <<t.filter, t.generation - 1>> \in o.sources
                             \/ status'[<<t.filter, t.generation - 1>>] = "closed"
      BY DEF ActivationNeverRefused, TargetsUnchanged
    <3>1. o \in requests \ activated /\ o # r /\ t \in Target
      BY <2>1 DEF RecordsTypeOK, Request
    <3>2. t.filter \in Filters /\ t.generation \in Generations
      BY <3>1 DEF Target
    <3>3. ~ \E u \in r.targets : u.filter = t.filter
      BY <3>1, <1>1 DEF RequestInv
    <3>4. head'[t.filter] = head[t.filter]
      BY <3>2, <3>3, <2>1
    <3>5. /\ head[t.filter] = t.generation - 1
          /\ t.generation > 1 =>
               \/ <<t.filter, t.generation - 1>> \in o.sources
               \/ status[<<t.filter, t.generation - 1>>] = "closed"
      BY <3>1 DEF ActivationNeverRefused, TargetsUnchanged
    <3>6. ASSUME t.generation > 1, status[<<t.filter, t.generation - 1>>] = "closed"
          PROVE  status'[<<t.filter, t.generation - 1>>] = "closed"
      <4>1. t.generation - 1 \in Generations
        BY <3>2, <3>6, ConstantsAssumption DEF Generations
      <4>2. <<t.filter, t.generation - 1>> \in SessionIds
        BY <4>1, <3>2 DEF SessionIds
      <4> QED
        BY <4>2, <3>6, <2>1, <2>3
    <3> QED
      BY <3>4, <3>5, <3>6
  <2> QED
    BY <2>8, <2>10, <2>11, <2>12, <2>13, <2>14, <2>15, <2>16, <2>17
<1> QED
  BY <1>6, <1>7

-----------------------------------------------------------------------------
(* The actions. *)

\* A step that writes none of the session records preserves the invariant.
LEMMA RecordsUnchanged ==
  ASSUME RecordInv,
         UNCHANGED <<head, session, status, closing, requests, activated, seal, fence,
                     tip, reserved>>
  PROVE  RecordInv'
BY DEF RecordInv, RecordsTypeOK, HeadInv, AbsentInv, ClosedInv, TipInv, RequestInv,
       TerminalIsExecutedTip, FramesNeverReused, ActivationNeverRefused, End, EndIn,
       Executed, TargetsUnchanged

\* A verified header preserves the invariant: on a session that has ended it
\* cannot be above the end, so the tip does not move.
LEMMA HeaderStep ==
  ASSUME RecordInv,
         NEW q \in SessionIds, NEW n \in AppFrames, NEW d \in Digests,
         HeaderVerifies(q, n, d),
         tip' = AdvancedTip(q, n, d),
         UNCHANGED <<head, session, status, closing, requests, activated, seal, fence,
                     reserved>>
  PROVE  RecordInv'
<1>1. CASE tip[q] # NoCheckpoint /\ tip[q].frame >= n
  BY <1>1, RecordsUnchanged DEF AdvancedTip
<1>2. CASE ~(tip[q] # NoCheckpoint /\ tip[q].frame >= n)
  <2> DEFINE c == [frame |-> n, digest |-> d]
  <2>1. c \in Checkpoint
    BY DEF Checkpoint
  <2>2. n \in Nat /\ session[q].base \in Nat /\ (tip[q] # NoCheckpoint => tip[q].frame \in Nat)
    BY ConstantsAssumption DEF RecordInv, RecordsTypeOK, Session, Checkpoint, AppFrames
  <2>3. n > Executed(q).frame
    BY <1>2, <2>2 DEF Executed, HeaderVerifies
  <2>4. End(q) = NoCheckpoint
    <3> SUFFICES ASSUME End(q) # NoCheckpoint PROVE FALSE
      OBVIOUS
    <3>1. End(q) = Executed(q)
      BY DEF RecordInv, TerminalIsExecutedTip
    <3>2. n <= End(q).frame /\ End(q).frame \in Nat
      BY <2>2, <3>1 DEF HeaderVerifies, Executed
    <3> QED
      BY <2>2, <2>3, <3>1, <3>2
  <2>5. tip' = [tip EXCEPT ![q] = c]
    BY <1>2 DEF AdvancedTip
  <2>6. status[q] # "absent" /\ c.frame > session[q].base /\ c.frame > Executed(q).frame
    BY <2>3 DEF HeaderVerifies
  <2> HIDE DEF c
  <2> QED
    BY <2>1, <2>4, <2>5, <2>6, TipStep
<1> QED
  BY <1>1, <1>2

\* A request built from heads is well formed, and scheduling it preserves the
\* invariant when its sources are active and its targets free.
LEMMA NewRequestStep ==
  ASSUME RecordInv, frame \in 1 .. MaxFrame,
         NEW src \in SUBSET Filters, NEW vac \in SUBSET Filters,
         NEW D \in SUBSET Filters, NEW m \in [D -> SUBSET Provers],
         src # {},
         \A f \in src : head[f] # 0 /\ status[HeadSession(f)] = "active",
         \A f \in D \ src : head[f] # 0 => status[HeadSession(f)] = "closed",
         \A f \in D : head[f] < MaxGeneration,
         \A f \in D : Reserved(f) => f \in src,
         Schedule(NewRequest(src, vac, m)),
         UNCHANGED <<head, session, activated, seal, fence, tip>>
  PROVE  RecordInv' /\ NewRequest(src, vac, m) \in Request
<1> DEFINE r == NewRequest(src, vac, m)
<1>1. /\ r.frame = frame /\ r.vacant = vac
      /\ r.sources = {HeadSession(f) : f \in src}
      /\ r.targets = {[filter |-> f, members |-> m[f], generation |-> head[f] + 1] : f \in D}
  BY DEF NewRequest
<1>2. \A f \in Filters : head[f] \in 0 .. MaxGeneration
  BY DEF RecordInv, RecordsTypeOK
<1>3. r.sources \subseteq SessionIds
  <2> SUFFICES ASSUME NEW f \in src PROVE HeadSession(f) \in SessionIds
    BY <1>1
  <2>1. head[f] \in Generations
    BY <1>2, ConstantsAssumption DEF Generations
  <2> QED
    BY <2>1 DEF HeadSession, SessionIds
<1>4. r.targets \subseteq Target
  <2> SUFFICES ASSUME NEW f \in D
               PROVE  [filter |-> f, members |-> m[f], generation |-> head[f] + 1] \in Target
    BY <1>1
  <2>1. head[f] + 1 \in Generations
    BY <1>2, ConstantsAssumption DEF Generations
  <2> QED
    BY <2>1 DEF Target
<1>5. r \in Request
  BY <1>1, <1>3, <1>4 DEF Request, NewRequest
<1>6. r.sources # {} /\ \A s \in r.sources : status[s] = "active"
  BY <1>1
<1>7. TargetsUnchanged(r)
  <2> SUFFICES ASSUME NEW t \in r.targets
               PROVE  /\ head[t.filter] = t.generation - 1
                      /\ t.generation > 1 =>
                           \/ <<t.filter, t.generation - 1>> \in r.sources
                           \/ status[<<t.filter, t.generation - 1>>] = "closed"
    BY DEF TargetsUnchanged
  <2>1. PICK f \in D : t = [filter |-> f, members |-> m[f], generation |-> head[f] + 1]
    BY <1>1
  <2>2. t.filter = f /\ t.generation = head[f] + 1 /\ t.generation - 1 = head[f]
    BY <2>1, <1>2
  <2>3. t.generation > 1 => head[f] # 0
    BY <2>2, <1>2
  <2>4. f \in src => <<f, head[f]>> \in r.sources
    BY <1>1 DEF HeadSession
  <2>5. (f \notin src /\ head[f] # 0) => status[<<f, head[f]>>] = "closed"
    BY DEF HeadSession
  <2> QED
    BY <2>2, <2>3, <2>4, <2>5
<1>8. \A t \in r.targets : Reserved(t.filter) => HeadSession(t.filter) \in r.sources
  BY <1>1
<1> HIDE DEF r
<1>9. Schedule(r)
  BY DEF r
<1>10. RecordInv'
  BY <1>5, <1>6, <1>7, <1>8, <1>9, ScheduleStep
<1> QED
  BY <1>5, <1>10 DEF r

\* A seal whose drain reaches its checkpoint preserves the invariant.
LEMMA SealStep ==
  ASSUME RecordInv, NEW q \in SessionIds, NEW c \in Checkpoint, SubmitSeal(q, c)
  PROVE  RecordInv'
<1> DEFINE seals == [seal EXCEPT ![q] = c]
<1>1. /\ status[q] = "sealing"
      /\ c.frame >= session[q].base
      /\ c.frame = session[q].base <=> c.digest = Genesis
      /\ Executed(q) = c \/ Executed(q).frame < c.frame
      /\ tip' = IF c.frame = session[q].base THEN tip ELSE [tip EXCEPT ![q] = c]
      /\ EndSource(closing[q], seals, fence, Unread)
      /\ UNCHANGED <<closing, requests, reserved>>
  BY DEF SubmitSeal, ClosingCertificate
<1>2. RecordsTypeOK /\ TipInv
  BY DEF RecordInv
<1>3. c.frame \in Nat /\ session[q].base \in Nat /\ (tip[q] # NoCheckpoint => tip[q].frame \in Nat)
  BY <1>2, ConstantsAssumption DEF RecordsTypeOK, Session, Checkpoint, AppFrames
<1>4. seals \in [SessionIds -> Checkpoint \cup {NoCheckpoint}]
  BY <1>2 DEF RecordsTypeOK
<1>5. fence \in [SessionIds -> Checkpoint \cup {NoCheckpoint}]
  BY <1>2 DEF RecordsTypeOK
<1>6. \A s \in SessionIds \ {q} : seals[s] = seal[s] /\ fence[s] = fence[s]
  BY <1>2 DEF RecordsTypeOK
<1>7. tip' \in [SessionIds -> Checkpoint \cup {NoCheckpoint}]
  BY <1>1, <1>2 DEF RecordsTypeOK
<1>8. \A s \in SessionIds \ {q} : tip'[s] = tip[s]
  BY <1>1, <1>2 DEF RecordsTypeOK
<1>9. EndIn(seals, fence, q) = c /\ c # NoCheckpoint
  BY <1>2, SentinelAssumption DEF EndIn, RecordsTypeOK
<1>10. /\ tip'[q] # NoCheckpoint => tip'[q].frame > session[q].base
       /\ c = IF tip'[q] # NoCheckpoint THEN tip'[q]
              ELSE [frame |-> session[q].base, digest |-> Genesis]
  <2>1. CASE c.frame = session[q].base
    <3>1. tip[q] = NoCheckpoint
      BY <2>1, <1>1, <1>2, <1>3 DEF TipInv, Executed
    <3>2. c = [frame |-> session[q].base, digest |-> Genesis]
      BY <2>1, <1>1 DEF Checkpoint
    <3> QED
      BY <2>1, <3>1, <3>2, <1>1
  <2>2. CASE c.frame # session[q].base
    <3>1. tip'[q] = c
      BY <2>2, <1>1, <1>2 DEF RecordsTypeOK
    <3> QED
      BY <2>2, <3>1, <1>1, <1>3, <1>9
  <2> QED
    BY <2>1, <2>2
<1> HIDE DEF seals
<1> QED
  BY <1>1, <1>4, <1>5, <1>6, <1>7, <1>8, <1>9, <1>10, EndSourceStep

\* Fencing a stalled session at its executed tip preserves the invariant.
LEMMA FenceStep ==
  ASSUME RecordInv, NEW f \in Filters, NEW S \in (SUBSET Provers) \cup {Unread},
         FenceSession(f, S)
  PROVE  RecordInv'
<1> DEFINE q == HeadSession(f)
<1> DEFINE fences == [fence EXCEPT ![q] = Executed(q)]
<1> DEFINE replacement == IF S = {} THEN Unread ELSE S
<1>1. /\ head[f] # 0 /\ status[q] = "sealing" /\ End(q) = NoCheckpoint
      /\ EndSource(closing[q], seal, fences, replacement)
      /\ UNCHANGED <<closing, requests, tip, reserved>>
  BY DEF FenceSession, FenceDue
<1>2. RecordsTypeOK /\ TipInv
  BY DEF RecordInv
<1>3. q \in SessionIds
  <2>1. head[f] \in Generations
    BY <1>1, <1>2, ConstantsAssumption DEF RecordsTypeOK, Generations
  <2> QED
    BY <2>1 DEF HeadSession, SessionIds
<1> HIDE DEF q
<1>4. Executed(q) \in Checkpoint
  BY <1>2, <1>3 DEF Executed, RecordsTypeOK, Session, Checkpoint
<1>5. seal \in [SessionIds -> Checkpoint \cup {NoCheckpoint}]
  BY <1>2 DEF RecordsTypeOK
<1>6. fences \in [SessionIds -> Checkpoint \cup {NoCheckpoint}]
  BY <1>2, <1>3, <1>4 DEF RecordsTypeOK
<1>7. \A s \in SessionIds \ {q} : seal[s] = seal[s] /\ fences[s] = fence[s]
  BY <1>2 DEF RecordsTypeOK
<1>8. /\ tip' \in [SessionIds -> Checkpoint \cup {NoCheckpoint}]
      /\ \A s \in SessionIds \ {q} : tip'[s] = tip[s]
      /\ tip'[q] # NoCheckpoint => tip'[q].frame > session[q].base
  BY <1>1, <1>2, <1>3 DEF RecordsTypeOK, TipInv
<1>9. seal[q] = NoCheckpoint
  BY <1>1 DEF End, EndIn
<1>10. EndIn(seal, fences, q) = Executed(q)
  BY <1>2, <1>3, <1>9 DEF EndIn, RecordsTypeOK
<1>11. EndIn(seal, fences, q) # NoCheckpoint
  BY <1>4, <1>10, SentinelAssumption
<1>12. EndIn(seal, fences, q) =
         IF tip'[q] # NoCheckpoint THEN tip'[q]
         ELSE [frame |-> session[q].base, digest |-> Genesis]
  BY <1>1, <1>10 DEF Executed
<1>13. replacement \in (SUBSET Provers) \cup {Unread}
  OBVIOUS
<1> HIDE DEF fences, replacement
<1> QED
  BY <1>1, <1>3, <1>5, <1>6, <1>7, <1>8, <1>11, <1>12, <1>13, EndSourceStep

\* Every step preserves the records' invariant.
LEMMA RecordsInductive == IInv /\ [Next]_vars => RecordInv'
<1> SUFFICES ASSUME IInv, [Next]_vars PROVE RecordInv'
  OBVIOUS
<1>0. RecordInv /\ frame \in 1 .. MaxFrame /\ pass \in Pass /\ grid \subseteq Filters
  BY DEF IInv, WorkTypeOK
<1>1. CASE UNCHANGED vars
  BY <1>0, <1>1, RecordsUnchanged DEF vars, records
<1>2. ASSUME NEW s \in SessionIds, NEW n \in AppFrames, NEW d \in Digests,
             ExecuteHeader(s, n, d)
      PROVE  RecordInv'
  BY <1>0, <1>2, HeaderStep DEF ExecuteHeader
<1>3. ASSUME NEW s \in SessionIds, NEW c \in Checkpoint, SubmitSeal(s, c)
      PROVE  RecordInv'
  BY <1>0, <1>3, SealStep
<1>4. ASSUME NEW s \in SessionIds, NEW c \in Checkpoint, NEW n \in AppFrames,
             NEW d \in Digests, SubmitPartialDrain(s, c, n, d)
      PROVE  RecordInv'
  BY <1>0, <1>4, HeaderStep DEF SubmitPartialDrain
<1>5. ASSUME NEW c \in Changes, ProposeChange(c) PROVE RecordInv'
  BY <1>0, <1>5, RecordsUnchanged DEF ProposeChange, records
<1>6. CASE BeginPass \/ EndGate \/ EndFlip \/ EndFence \/ EndPass \/ NextFrame \/ Horizon
  BY <1>0, <1>6, RecordsUnchanged
  DEF BeginPass, EndGate, EndFlip, EndFence, EndPass, NextFrame, Horizon, records, vars
<1>7. ASSUME NEW p \in pass.changes, GateApply(p) \/ GateDrop(p) \/ GateWait(p) \/ Flip(p)
      PROVE  RecordInv'
  BY <1>0, <1>7, RecordsUnchanged DEF GateApply, GateDrop, GateWait, Flip, records
<1>8. ASSUME NEW p \in pass.changes, NEW m \in Committees(p.change), GateSchedule(p, m)
      PROVE  RecordInv'
  <2>1. p.change \in Changes
    BY <1>0 DEF Pass, PendingChange
  <2>2. p.change.old \subseteq Filters /\ p.change.new \subseteq Filters
    BY <2>1, TopologyAssumption
  <2>3. Sources(p) \in SUBSET Filters /\ Vacant(p) \in SUBSET Filters
    BY <2>2 DEF Sources, Vacant
  <2>4. m \in [p.change.new -> SUBSET Provers] /\ DOMAIN m = p.change.new
    BY <1>8 DEF Committees
  <2>5. /\ Sources(p) # {}
        /\ \A f \in Sources(p) : head[f] # 0 /\ status[HeadSession(f)] = "active"
        /\ \A f \in p.change.new \ Sources(p) :
             head[f] # 0 => status[HeadSession(f)] = "closed"
        /\ \A f \in p.change.new : head[f] < MaxGeneration
    BY <1>8, <2>4 DEF GateSchedule, Schedulable
  <2>6. \A f \in p.change.new : Reserved(f) => f \in Sources(p)
    BY <1>8 DEF GateSchedule, TargetTaken
  <2>7. /\ Schedule(NewRequest(Sources(p), Vacant(p), m))
        /\ UNCHANGED <<head, session, activated, seal, fence, tip>>
    BY <1>8 DEF GateSchedule
  <2> QED
    BY <1>0, <2>2, <2>3, <2>4, <2>5, <2>6, <2>7, NewRequestStep
<1>9. ASSUME NEW f \in pass.filters, FenceSkip(f) PROVE RecordInv'
  BY <1>0, <1>9, RecordsUnchanged DEF FenceSkip, records
<1>10. ASSUME NEW f \in pass.filters, NEW S \in (SUBSET Provers) \cup {Unread},
              FenceSession(f, S)
       PROVE  RecordInv'
  <2>1. f \in Filters
    BY <1>0 DEF Pass
  <2> QED
    BY <1>0, <1>10, <2>1, FenceStep
<1>11. ASSUME NEW f \in pass.filters, NEW S \in SUBSET Provers, ReconcileFirst(f, S)
       PROVE  RecordInv'
  <2>1. f \in Filters
    BY <1>0 DEF Pass
  <2> QED
    BY <1>0, <1>11, <2>1, InitializeStep DEF ReconcileFirst, InitializesFirst
<1>12. ASSUME NEW f \in pass.filters, NEW S \in SUBSET Provers, ReconcileMembership(f, S)
       PROVE  RecordInv'
  <2>1. f \in Filters
    BY <1>0 DEF Pass
  <2> DEFINE m == [g \in {f} |-> S]
  <2>2. {f} \in SUBSET Filters /\ {} \in SUBSET Filters /\ m \in [{f} -> SUBSET Provers]
    BY <2>1
  <2>3. head[f] # 0 /\ status[HeadSession(f)] = "active" /\ head[f] < MaxGeneration
    BY <1>12 DEF ReconcileMembership, SchedulesMembership
  <2>4. /\ Schedule(NewRequest({f}, {}, m))
        /\ UNCHANGED <<head, session, activated, seal, fence, tip>>
    BY <1>12 DEF ReconcileMembership
  <2> HIDE DEF m
  <2> QED
    BY <1>0, <2>2, <2>3, <2>4, NewRequestStep
<1>13. ASSUME NEW f \in pass.filters, NEW S \in SUBSET Provers, ReconcileSkip(f, S)
       PROVE  RecordInv'
  BY <1>0, <1>13, RecordsUnchanged DEF ReconcileSkip, records
<1> QED
  BY <1>1, <1>2, <1>3, <1>4, <1>5, <1>6, <1>7, <1>8, <1>9, <1>10, <1>11, <1>12, <1>13
  DEF Next, PassStep

\* The walk over the grid keeps the pass well typed.
LEMMA WalkedType ==
  ASSUME pass \in Pass, pass.filters # {}, NEW S \in (SUBSET Provers) \cup {Unread}
  PROVE  Walked(S) \in Pass
<1>1. NextFilter \in pass.filters
  BY DEF NextFilter
<1>2. NextFilter \in Filters
  BY <1>1 DEF Pass
<1> HIDE DEF NextFilter
<1> QED
  BY <1>2 DEF Walked, Pass

\* Every step keeps the grid, the pending changes and the pass well typed.
LEMMA WorkInductive == IInv /\ [Next]_vars => WorkTypeOK'
<1> SUFFICES ASSUME IInv, [Next]_vars PROVE WorkTypeOK'
  OBVIOUS
<1>0. WorkTypeOK /\ RecordInv
  BY DEF IInv
<1>a. \A stage \in Stages : IdlePass(stage) \in Pass
  BY DEF IdlePass, Pass
<1>b. StartedPass \in Pass
  BY <1>0 DEF StartedPass, IdlePass, Pass, WorkTypeOK, Stages
<1>c. \A p \in pass.changes : p \in PendingChange /\ p.change \in Changes
  BY <1>0 DEF WorkTypeOK, Pass, PendingChange
<1>1. CASE UNCHANGED vars
  BY <1>0, <1>1 DEF vars, records, shards, WorkTypeOK
<1>2. ASSUME NEW s \in SessionIds, NEW n \in AppFrames, NEW d \in Digests,
             ExecuteHeader(s, n, d)
      PROVE  WorkTypeOK'
  BY <1>0, <1>2, <1>b DEF ExecuteHeader, shards, WorkTypeOK
<1>3. ASSUME NEW s \in SessionIds, NEW c \in Checkpoint, SubmitSeal(s, c)
      PROVE  WorkTypeOK'
  BY <1>0, <1>3 DEF SubmitSeal, shards, WorkTypeOK
<1>4. ASSUME NEW s \in SessionIds, NEW c \in Checkpoint, NEW n \in AppFrames,
             NEW d \in Digests, SubmitPartialDrain(s, c, n, d)
      PROVE  WorkTypeOK'
  BY <1>0, <1>4 DEF SubmitPartialDrain, shards, WorkTypeOK
<1>5. ASSUME NEW c \in Changes, ProposeChange(c) PROVE WorkTypeOK'
  <2>1. Epoch(frame) + EffectiveDelay \in Nat
    BY <1>0, ConstantsAssumption DEF WorkTypeOK, Epoch
  <2>2. [change |-> c, effective |-> Epoch(frame) + EffectiveDelay, proposed |-> frame]
          \in PendingChange
    BY <1>0, <2>1 DEF WorkTypeOK, PendingChange
  <2>3. pending' \subseteq PendingChange
    BY <1>0, <1>5, <2>2 DEF ProposeChange, WorkTypeOK
  <2>4. proposals' \in 0 .. MaxProposals
    BY <1>0, <1>5, ConstantsAssumption DEF ProposeChange, WorkTypeOK
  <2> QED
    BY <1>0, <1>5, <2>3, <2>4 DEF ProposeChange, WorkTypeOK, records
<1>6. CASE BeginPass
  BY <1>0, <1>6, <1>b DEF BeginPass, records, shards, WorkTypeOK
<1>7. ASSUME NEW p \in pass.changes, GateApply(p) \/ GateWait(p) PROVE WorkTypeOK'
  <2>1. pass' \in Pass
    <3>1. CASE GateApply(p)
      BY <1>0, <3>1, <1>c DEF GateApply, Pass, WorkTypeOK
    <3>2. CASE GateWait(p)
      BY <1>0, <3>2 DEF GateWait, Pass, WorkTypeOK
    <3> QED
      BY <1>7, <3>1, <3>2
  <2> QED
    BY <1>0, <1>7, <2>1 DEF GateApply, GateWait, records, shards, WorkTypeOK
<1>8. ASSUME NEW p \in pass.changes, GateDrop(p) PROVE WorkTypeOK'
  <2>1. pass' \in Pass
    BY <1>0, <1>8, <1>c DEF GateDrop, Pass, WorkTypeOK
  <2> QED
    BY <1>0, <1>8, <1>c, <2>1 DEF GateDrop, WorkTypeOK
<1>9. ASSUME NEW p \in pass.changes, NEW m \in Committees(p.change), GateSchedule(p, m)
      PROVE  WorkTypeOK'
  <2>1. pass' \in Pass
    BY <1>0, <1>9 DEF GateSchedule, Pass, WorkTypeOK
  <2>2. p.change.old \subseteq Filters /\ p.change.new \subseteq Filters
    BY <1>c, TopologyAssumption
  <2>3. Sources(p) \in SUBSET Filters /\ Vacant(p) \in SUBSET Filters
    BY <2>2 DEF Sources, Vacant
  <2>4. m \in [p.change.new -> SUBSET Provers] /\ DOMAIN m = p.change.new
    BY <1>9 DEF Committees
  <2>5. /\ Sources(p) # {}
        /\ \A f \in Sources(p) : head[f] # 0 /\ status[HeadSession(f)] = "active"
        /\ \A f \in p.change.new \ Sources(p) :
             head[f] # 0 => status[HeadSession(f)] = "closed"
        /\ \A f \in p.change.new : head[f] < MaxGeneration
    BY <1>9, <2>4 DEF GateSchedule, Schedulable
  <2>6. \A f \in p.change.new : Reserved(f) => f \in Sources(p)
    BY <1>9 DEF GateSchedule, TargetTaken
  <2>7. /\ Schedule(NewRequest(Sources(p), Vacant(p), m))
        /\ UNCHANGED <<head, session, activated, seal, fence, tip>>
    BY <1>9 DEF GateSchedule
  <2>8. NewRequest(Sources(p), Vacant(p), m) \in Request
    BY <1>0, <2>2, <2>3, <2>4, <2>5, <2>6, <2>7, NewRequestStep DEF WorkTypeOK
  <2>9. topology' \subseteq PendingChange \X Request
    BY <1>0, <1>9, <1>c, <2>8 DEF GateSchedule, WorkTypeOK
  <2> QED
    BY <1>0, <1>9, <2>1, <2>9 DEF GateSchedule, shards, WorkTypeOK
<1>10. CASE EndGate
  <2>1. pass' \in Pass
    BY <1>0, <1>10 DEF EndGate, Pass, Stages, WorkTypeOK
  <2> QED
    BY <1>0, <1>10, <2>1 DEF EndGate, records, shards, WorkTypeOK
<1>11. ASSUME NEW p \in pass.changes, Flip(p) PROVE WorkTypeOK'
  <2>1. p.change.new \subseteq Filters
    BY <1>c, TopologyAssumption
  <2>2. \A G \in SUBSET Filters : Flipped(p.change, G) \in SUBSET Filters
    BY <2>1 DEF Flipped
  <2>3. pass' \in Pass
    <3> DEFINE live == IF p.change.kind = "split" THEN Flipped(p.change, pass.live) ELSE pass.live
    <3>1. pass' = [pass EXCEPT !.changes = pass.changes \ {p}, !.live = live]
      BY <1>11 DEF Flip
    <3>2. live \in SUBSET Filters
      BY <1>0, <2>2 DEF Pass, WorkTypeOK
    <3> HIDE DEF live
    <3> QED
      BY <1>0, <3>1, <3>2 DEF Pass, WorkTypeOK
  <2> QED
    BY <1>0, <1>11, <2>2, <2>3 DEF Flip, records, WorkTypeOK
<1>12. CASE EndFlip
  <2>1. [IdlePass("fence") EXCEPT !.filters = grid] \in Pass
    BY <1>0 DEF IdlePass, Pass, Stages, WorkTypeOK
  <2>2. IdlePass("done") \in Pass
    BY <1>a DEF Stages
  <2> QED
    BY <1>0, <1>12, <2>1, <2>2 DEF EndFlip, records, shards, WorkTypeOK
<1>13. ASSUME NEW f \in pass.filters, FenceSkip(f) PROVE WorkTypeOK'
  <2>1. Walked(Unread) \in Pass
    BY <1>0, WalkedType DEF WorkTypeOK
  <2> QED
    BY <1>0, <1>13, <2>1 DEF FenceSkip, records, shards, WorkTypeOK
<1>14. ASSUME NEW f \in pass.filters, NEW S \in (SUBSET Provers) \cup {Unread},
              FenceSession(f, S)
       PROVE  WorkTypeOK'
  <2>1. Walked(S) \in Pass /\ f \in Filters
    BY <1>0, WalkedType DEF WorkTypeOK, Pass
  <2>2. pass' = [Walked(S) EXCEPT !.fenced = @ \cup {f}]
    BY <1>14 DEF FenceSession
  <2>3. pass' \in Pass
    BY <2>1, <2>2 DEF Pass
  <2> QED
    BY <1>0, <1>14, <2>3 DEF FenceSession, shards, WorkTypeOK
<1>15. CASE EndFence
  <2>1. [pass EXCEPT !.stage = "reconcile", !.filters = grid] \in Pass
    BY <1>0 DEF Pass, Stages, WorkTypeOK
  <2>2. IdlePass("done") \in Pass
    BY <1>a DEF Stages
  <2> QED
    BY <1>0, <1>15, <2>1, <2>2 DEF EndFence, records, shards, WorkTypeOK
<1>16. ASSUME NEW f \in pass.filters, NEW S \in SUBSET Provers,
              ReconcileFirst(f, S) \/ ReconcileMembership(f, S) \/ ReconcileSkip(f, S)
       PROVE  WorkTypeOK'
  <2>1. Walked(S) \in Pass
    BY <1>0, WalkedType DEF WorkTypeOK
  <2> QED
    BY <1>0, <1>16, <2>1
    DEF ReconcileFirst, ReconcileMembership, ReconcileSkip, records, shards, WorkTypeOK
<1>17. CASE EndPass
  BY <1>0, <1>17, <1>a DEF EndPass, Stages, records, shards, WorkTypeOK
<1>18. CASE NextFrame
  BY <1>0, <1>18, <1>a, ConstantsAssumption DEF NextFrame, Stages, records, shards, WorkTypeOK
<1>19. CASE Horizon
  BY <1>1, <1>19 DEF Horizon
<1> QED
  BY <1>1, <1>2, <1>3, <1>4, <1>5, <1>6, <1>7, <1>8, <1>9, <1>10, <1>11, <1>12, <1>13,
     <1>14, <1>15, <1>16, <1>17, <1>18, <1>19
  DEF Next, PassStep

-----------------------------------------------------------------------------
(* The theorems. *)

\* The strengthened invariant holds in every reachable state.
LEMMA Invariance == Spec => []IInv
<1>1. IInv /\ [Next]_vars => IInv'
  BY RecordsInductive, WorkInductive DEF IInv
<1> QED
  BY InitInv, <1>1, PTL DEF Spec

\* Every GLOBAL record and every step of the maintenance pass stays within its
\* type; in particular activate_with always finds an end for the predecessor
\* of a successor it creates.
THEOREM TypeCorrect == Spec => []TypeOK
<1>1. IInv => TypeOK
  BY DEF IInv, RecordInv, TypeOK
<1> QED
  BY Invariance, <1>1, PTL

\* A session ends, sealed or fenced, exactly at the last frame GLOBAL executed
\* of it, whatever certificates its committee produces and in any order.
THEOREM EndsAtExecutedTip == Spec => []TerminalIsExecutedTip
<1>1. IInv => TerminalIsExecutedTip
  BY DEF IInv, RecordInv
<1> QED
  BY Invariance, <1>1, PTL

\* No frame number of a shard is executed under two sessions.
THEOREM NoFrameReuse == Spec => []FramesNeverReused
<1>1. IInv => FramesNeverReused
  BY DEF IInv, RecordInv
<1> QED
  BY Invariance, <1>1, PTL

\* For every set of splits and merges, activate_with never refuses a request
\* because a target changed: the reservations are enough.
THEOREM ActivationSucceeds == Spec => []ActivationNeverRefused
<1>1. IInv => ActivationNeverRefused
  BY DEF IInv, RecordInv
<1> QED
  BY Invariance, <1>1, PTL

=============================================================================
