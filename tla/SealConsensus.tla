--------------------------- MODULE SealConsensus ---------------------------
(***************************************************************************)
(* The committee of one application session while it closes.  Members run  *)
(* Simplex (the vendored commonware-consensus voter); the handoff proposer *)
(* decides what each of them proposes and votes for: data frames, a        *)
(* terminal seal once GLOBAL has asked to close the session, or a re-seal  *)
(* above a seal that was notarized and not finalized.                      *)
(*                                                                         *)
(* A certificate exists as soon as the votes for it do, and a member acts  *)
(* on any certificate that can be assembled, at any later time or never:   *)
(* lost, delayed and reordered messages need no state.  What a member has  *)
(* heard (its current view, the latest finalization it knows, whether its  *)
(* node has executed GLOBAL's closing request) is not kept, for it shows   *)
(* only in what the member does next; guards that let a member refuse once *)
(* it has heard of a certificate are left to that choice.  Faulty members  *)
(* may sign anything and count towards every certificate.  Votes are       *)
(* journalled before they are sent, so a restart changes nothing kept here.*)
(*                                                                         *)
(* A digest commits to a whole history: a block carries, as its chain, the *)
(* views of the data frames it stands on, itself included (a view has at   *)
(* most one certified block).  A seal stands on the data frame it names as *)
(* checkpoint.                                                             *)
(***************************************************************************)
EXTENDS Naturals, FiniteSets

CONSTANTS
  Members,       \* the session's committee
  Faulty,        \* its members that do not follow the protocol
  Quorums,       \* the sets of members whose votes make a certificate
  Leader,        \* the leader of each view
  MaxView,       \* bound: views are explored up to this one
  Generation,    \* the session's generation; zero continues a legacy instance
  DrainFrames,   \* DRAIN_FRAMES: request-free frames before a seal
  PrivateChain,  \* MAX_PRIVATE_CHAIN: unfinalized frames a member executes
  None           \* no block

Views == 1..MaxView

Honest == Members \ Faulty

\* quiet: how many request-free frames end here, up to DrainFrames
Blocks ==
  [kind : {"data", "seal"}, view : 0..MaxView, parent : 0..MaxView,
   chain : SUBSET (0..MaxView), quiet : 0..DrainFrames]

\* The frame the session starts from.  A predecessor drained before its seal;
\* generation zero starts at a legacy frame that never drained.
Genesis ==
  [kind |-> "data", view |-> 0, parent |-> 0, chain |-> {0},
   quiet |-> IF Generation = 0 THEN 0 ELSE DrainFrames]

\* Any two quorums share a member that follows the protocol.
ASSUME QuorumAssumption ==
  /\ Faulty \subseteq Members
  /\ Quorums \subseteq SUBSET Members
  /\ \A Q1, Q2 \in Quorums : (Q1 \cap Q2) \ Faulty # {}

ASSUME NumberAssumption ==
  /\ MaxView \in Nat
  /\ Generation \in Nat
  /\ DrainFrames \in Nat
  /\ PrivateChain \in Nat
  /\ Leader \in [Views -> Members]
  /\ None \notin Blocks

VARIABLES
  vote,      \* each member's notarize vote in each view
  nulls,     \* the views each member has voted to nullify
  fins,      \* the blocks each member has voted to finalize
  tip,       \* each member's materialized frame
  closing    \* whether GLOBAL has scheduled the session's closing

vars == <<vote, nulls, fins, tip, closing>>

-----------------------------------------------------------------------------
(* Certificates. *)

Certifies(S) == \E Q \in Quorums : Q \subseteq S \cup Faulty

Notarized(b) == Certifies({m \in Honest : vote[m][b.view] = b})

Nullified(v) == Certifies({m \in Honest : v \in nulls[m]})

Finalized(b) == Certifies({m \in Honest : b \in fins[m]})

Voted == {vote[m][v] : m \in Honest, v \in Views} \ {None}

\* The blocks a view may extend: notarized ones (certify is always true).
Certified == {Genesis} \cup {b \in Voted : Notarized(b)}

Final == {Genesis} \cup {b \in Voted : Finalized(b)}

\* enter_view: a member is in view v after a certificate of the view before it,
\* until it moves on.
Entered(m, v) ==
  /\ \A u \in Views : u > v => vote[m][u] = None /\ u \notin nulls[m]
  /\ v = 1 \/ Nullified(v - 1) \/ \E b \in Certified : b.view = v - 1

\* Mutant: views between a parent and its child need no nullification.
ExtendsAcrossOpenViews(p, v) == p.view < v

\* find_parent and parent_payload: p is certified and every view between p and v
\* is nullified (so p is not below a final block of an earlier view).
Extends(p, v) ==
  /\ p.view < v
  /\ \A u \in Views : p.view < u /\ u < v => Nullified(u)

-----------------------------------------------------------------------------
(* What the handoff proposer builds and accepts above a parent p. *)

\* Mutant: the count of request-free frames is not capped.
DataOnUncapped(p, v, free) ==
  [kind |-> "data", view |-> v, parent |-> p.view, chain |-> p.chain \cup {v},
   quiet |-> IF free THEN p.quiet + 1 ELSE 0]

\* A data frame; free says that it carries no requests.
DataOn(p, v, free) ==
  [kind |-> "data", view |-> v, parent |-> p.view, chain |-> p.chain \cup {v},
   quiet |-> IF ~free THEN 0
             ELSE IF p.quiet < DrainFrames THEN p.quiet + 1 ELSE DrainFrames]

\* A seal of p, or, when p is a seal, a re-seal of its checkpoint.
SealOn(p, v) ==
  [kind |-> "seal", view |-> v, parent |-> p.view, chain |-> p.chain, quiet |-> p.quiet]

\* p, or p's checkpoint, is the member's materialized tip, or extends it by few
\* enough frames to be executed privately.
Readable(m, p) ==
  /\ tip[m].chain \subseteq p.chain
  /\ Cardinality(p.chain \ tip[m].chain) <= PrivateChain

Committed(m, p) == tip[m] = p

\* The session is closing and the frames through p are drained.  Generation
\* zero does not seal at its base.
Sealable(p) ==
  /\ closing
  /\ p.quiet = DrainFrames
  /\ Generation # 0 \/ p.chain # {0}

\* Above a seal only its re-seal.
Reseals(m, p, v) ==
  {b \in {SealOn(p, v)} : p.kind = "seal" /\ Readable(m, p) /\ Sealable(p)}

\* Mutant: any readable checkpoint is sealed, committed or not.
FirstSealsOfReadable(m, p, v) ==
  {b \in {SealOn(p, v)} : p.kind = "data" /\ Readable(m, p) /\ Sealable(p)}

\* A first seal only of a checkpoint this member has committed.
FirstSeals(m, p, v) ==
  {b \in {SealOn(p, v)} : p.kind = "data" /\ Committed(m, p) /\ Sealable(p)}

\* Mutant: data frames are accepted above a seal.
DataFramesAboveSeals(m, p, v) ==
  {b \in {DataOn(p, v, free) : free \in BOOLEAN} : Readable(m, p)}

\* Data frames only above data frames.
DataFrames(m, p, v) ==
  {b \in {DataOn(p, v, free) : free \in BOOLEAN} : p.kind = "data" /\ Readable(m, p)}

\* verify_with_context
Accepts(m, p, v) == Reseals(m, p, v) \cup FirstSeals(m, p, v) \cup DataFrames(m, p, v)

\* propose_with_context: a leader that knows the closing request seals what it
\* can seal, and otherwise proposes frames without requests.
Proposes(m, p, v, knows) ==
  IF knows
  THEN IF FirstSeals(m, p, v) # {}
       THEN FirstSeals(m, p, v)
       ELSE Reseals(m, p, v) \cup (DataFrames(m, p, v) \cap {DataOn(p, v, TRUE)})
  ELSE DataFrames(m, p, v)

-----------------------------------------------------------------------------
Init ==
  /\ vote = [m \in Honest |-> [v \in Views |-> None]]
  /\ nulls = [m \in Honest |-> {}]
  /\ fins = [m \in Honest |-> {}]
  /\ tip = [m \in Honest |-> Genesis]
  /\ closing = FALSE

\* GLOBAL executes the frame that schedules the session's closing.
ScheduleClosing ==
  /\ ~closing
  /\ closing' = TRUE
  /\ UNCHANGED <<vote, nulls, fins, tip>>

\* construct_notarize: once per view, never after nullifying it.
MayNotarize(m, v) ==
  /\ vote[m][v] = None
  /\ v \notin nulls[m]
  /\ Entered(m, v)

Notarize(m, v, b) ==
  /\ vote' = [vote EXCEPT ![m][v] = b]
  /\ UNCHANGED <<nulls, fins, tip, closing>>

\* A correct leader builds a block and votes for it.
Propose(m, v) ==
  /\ Leader[v] = m
  /\ MayNotarize(m, v)
  /\ \E p \in Certified, knows \in BOOLEAN :
       /\ knows => closing
       /\ Extends(p, v)
       /\ \E b \in Proposes(m, p, v, knows) : Notarize(m, v, b)

\* A member checks the proposal it was sent and votes for it.  A correct leader
\* sends the block it voted for; a faulty one may send each member another.
Verify(m, v) ==
  /\ Leader[v] # m
  /\ MayNotarize(m, v)
  /\ \E p \in Certified :
       /\ Extends(p, v)
       /\ \E b \in Accepts(m, p, v) :
            /\ Leader[v] \in Honest => vote[Leader[v]][v] = b
            /\ Notarize(m, v, b)

\* Mutant: a view the member voted to finalize can be nullified.
NullifyFinalized(m, v) ==
  /\ v \notin nulls[m]
  /\ Entered(m, v)
  /\ nulls' = [nulls EXCEPT ![m] = @ \cup {v}]
  /\ UNCHANGED <<vote, fins, tip, closing>>

\* construct_nullify: in the current view, unless it voted to finalize it.
Nullify(m, v) ==
  /\ v \notin nulls[m]
  /\ \A b \in fins[m] : b.view # v
  /\ Entered(m, v)
  /\ nulls' = [nulls EXCEPT ![m] = @ \cup {v}]
  /\ UNCHANGED <<vote, fins, tip, closing>>

\* construct_finalize: a notarized block, verified by this member or not, in a
\* view it did not nullify and where it voted for no other block.
Finalize(m, b) ==
  /\ b.view \notin nulls[m]
  /\ \A c \in fins[m] : c.view # b.view
  /\ vote[m][b.view] \in {None, b}
  /\ fins' = [fins EXCEPT ![m] = @ \cup {b}]
  /\ UNCHANGED <<vote, nulls, tip, closing>>

\* Mutant: a notarized frame is executed for good.
MaterializeNotarized(m, f, b) ==
  /\ b.kind = "data"
  /\ b.view \notin tip[m].chain
  /\ b.chain = tip[m].chain \cup {b.view}
  /\ tip' = [tip EXCEPT ![m] = b]
  /\ UNCHANGED <<vote, nulls, fins, closing>>

\* The member executes the next frame b of a finalized history, from its own
\* consensus or from an archive: the ancestors that a finalization f implies come
\* first and, for a seal, its checkpoint last.
Materialize(m, f, b) ==
  /\ b.kind = "data"
  /\ b.chain \subseteq f.chain
  /\ b.view \notin tip[m].chain
  /\ b.chain = tip[m].chain \cup {b.view}
  /\ tip' = [tip EXCEPT ![m] = b]
  /\ UNCHANGED <<vote, nulls, fins, closing>>

Next ==
  \/ ScheduleClosing
  \/ \E m \in Honest :
       \/ \E v \in Views :
            \/ Propose(m, v)
            \/ Verify(m, v)
            \/ Nullify(m, v)
       \/ \E b \in Certified \ {Genesis} :
            \/ Finalize(m, b)
            \/ \E f \in Final : Materialize(m, f, b)

Spec == Init /\ [][Next]_vars

-----------------------------------------------------------------------------
TypeOK ==
  /\ vote \in [Honest -> [Views -> Blocks \cup {None}]]
  /\ nulls \in [Honest -> SUBSET Views]
  /\ fins \in [Honest -> SUBSET Blocks]
  /\ tip \in [Honest -> Blocks]
  /\ closing \in BOOLEAN

\* Finalized blocks lie on one history, whatever faulty members sign: of any
\* two, one extends the other (the safety Simplex promises the session).
SingleHistory ==
  \A a, b \in Final :
    /\ a.view = b.view => a = b
    /\ a.view <= b.view => a.chain \subseteq b.chain

\* A finalized seal ends the session: every finalized data frame, in earlier
\* and in later views, is at or below the sealed checkpoint.  ("every finalized
\* chain still ends at that frame", automaton.rs)
SealEndsSession ==
  \A s, b \in Final : s.kind = "seal" => b.chain \subseteq s.chain

\* The checkpoint of a notarized seal has a finalization of its own, so its
\* certificate can be shown to GLOBAL: it was not made final by a descendant
\* ("never the one selected", automaton.rs), nor by its own seal.
SealedCheckpointCertified ==
  \A s \in Certified : s.kind = "seal" =>
    \E b \in Final : b.kind = "data" /\ b.chain = s.chain

\* What one correct member has materialized never contradicts what another has:
\* of two tips one extends the other, with private execution, re-seals and
\* implied ancestors in play.
TipsAgree ==
  \A m, n \in Honest :
    \/ tip[m].chain \subseteq tip[n].chain
    \/ tip[n].chain \subseteq tip[m].chain
=============================================================================
