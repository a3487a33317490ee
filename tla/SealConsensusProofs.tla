------------------------ MODULE SealConsensusProofs ------------------------
(***************************************************************************)
(* The agreement and sealing properties of SealConsensus, for any          *)
(* committee, any faulty members that the quorums tolerate and any number  *)
(* of views.                                                               *)
(***************************************************************************)
EXTENDS SealConsensus, TLAPS

-----------------------------------------------------------------------------
(* The inductive invariant. *)

\* A vote is for a block of its own view.
VoteInv ==
  \A m \in Honest, v \in Views : vote[m][v] # None => vote[m][v].view = v

\* A finalize vote is for a certified block of a view its member did not nullify.
FinInv ==
  \A m \in Honest : \A b \in fins[m] :
    b \in Certified \ {Genesis} /\ b.view \notin nulls[m]

\* b stands on c, and on nothing but c's frames when c is a seal.
StandsOn(b, c) ==
  /\ c.chain \subseteq b.chain
  /\ c.kind = "seal" => b.kind = "seal" /\ b.chain = c.chain

\* Below a block, each view is nullified or holds a certified block it stands on.
HasPath(b) ==
  \A u \in 0..b.view :
    Nullified(u) \/ \E c \in Certified \cup {b} : c.view = u /\ StandsOn(b, c)

PathInv == \A b \in Voted \cup {Genesis} : HasPath(b)

\* A block's chain lists certified data frames, each with its own history.
HasFrames(b) ==
  /\ b.kind = "data" => b.view \in b.chain
  /\ \A u \in b.chain :
       /\ u <= b.view
       /\ \E c \in Certified \cup {b} :
            c.view = u /\ c.kind = "data" /\ c.chain = {x \in b.chain : x <= u}

ChainInv == \A b \in Voted \cup {Genesis} : HasFrames(b)

CheckpointFinal(s) == \E b \in Final : b.kind = "data" /\ b.chain = s.chain

\* A quorum can no longer vote for s.
Dead(s) ==
  \E Q \in Quorums : \A m \in Q \ Faulty :
    /\ vote[m][s.view] # s
    /\ s.view \in nulls[m] \/ vote[m][s.view] # None

\* A seal has a finalized checkpoint or will never be notarized.
SealInv ==
  \A s \in Voted : s.kind = "seal" => CheckpointFinal(s) \/ Dead(s)

TipInv ==
  \A m \in Honest :
    /\ tip[m] \in Certified
    /\ tip[m].kind = "data"
    /\ \E f \in Final : tip[m].chain \subseteq f.chain

SealConsensusInv ==
  TypeOK /\ VoteInv /\ FinInv /\ PathInv /\ ChainInv /\ SealInv /\ TipInv

-----------------------------------------------------------------------------
(* Quorums and certificates. *)

\* Any two certificates share a correct signer (quorum intersection, the
\* N3f1 fault model the voter is instantiated with).
LEMMA SharedSigner ==
  ASSUME NEW S \in SUBSET Honest, NEW T \in SUBSET Honest, Certifies(S), Certifies(T)
  PROVE  \E m \in Honest : m \in S /\ m \in T
BY QuorumAssumption DEF Certifies, Honest

\* The blocks that were voted for are blocks of the views 1..MaxView, and the
\* session's genesis is not one of them.
LEMMA VotedBlocks ==
  ASSUME TypeOK, VoteInv
  PROVE  /\ \A b \in Voted : b \in Blocks /\ b # None /\ b.view \in Views
         /\ \A m \in Honest, v \in Views : vote[m][v] # None => vote[m][v] \in Voted
         /\ Genesis \in Blocks /\ Genesis.view = 0
<1>1. \A b \in Voted : b \in Blocks /\ b # None /\ b.view \in Views
  BY DEF Voted, TypeOK, VoteInv
<1>2. \A m \in Honest, v \in Views : vote[m][v] # None => vote[m][v] \in Voted
  BY DEF Voted
<1>3. Genesis \in Blocks /\ Genesis.view = 0
  BY NumberAssumption DEF Genesis, Blocks
<1> QED BY <1>1, <1>2, <1>3

\* No view has two certified blocks, even when its leader equivocates: a
\* correct member notarizes once per view (construct_notarize).
LEMMA OneBlockPerView ==
  ASSUME TypeOK, VoteInv, NEW a \in Certified, NEW b \in Certified, a.view = b.view
  PROVE  a = b
<1>1. CASE a = Genesis \/ b = Genesis
  BY <1>1, VotedBlocks, NumberAssumption DEF Certified, Views
<1>2. CASE a # Genesis /\ b # Genesis
  <2>1. Notarized(a) /\ Notarized(b)
    BY <1>2 DEF Certified
  <2>2. \E m \in Honest : vote[m][a.view] = a /\ vote[m][b.view] = b
    BY <2>1, SharedSigner DEF Notarized
  <2> QED BY <2>2
<1> QED BY <1>1, <1>2

\* A finalized block is certified and its view is never nullified: a correct
\* member gives only one of the two votes (construct_finalize, construct_nullify).
LEMMA FinalNotNullified ==
  ASSUME TypeOK, VoteInv, FinInv, NEW a \in Final
  PROVE  a \in Certified /\ ~Nullified(a.view)
<1>1. CASE a = Genesis
  <2>1. ~Nullified(0)
    <3> SUFFICES ASSUME Nullified(0) PROVE FALSE
      OBVIOUS
    <3>1. \E m \in Honest : 0 \in nulls[m]
      BY SharedSigner DEF Nullified
    <3> QED BY <3>1, NumberAssumption DEF TypeOK, Views
  <2> QED BY <1>1, <2>1, VotedBlocks DEF Certified
<1>2. CASE a # Genesis
  <2>1. Finalized(a)
    BY <1>2 DEF Final
  <2>2. \E m \in Honest : a \in fins[m]
    BY <2>1, SharedSigner DEF Finalized
  <2>3. ~Nullified(a.view)
    <3> SUFFICES ASSUME Nullified(a.view) PROVE FALSE
      OBVIOUS
    <3>1. \E m \in Honest : a \in fins[m] /\ a.view \in nulls[m]
      BY <2>1, SharedSigner DEF Finalized, Nullified
    <3> QED BY <3>1 DEF FinInv
  <2> QED BY <2>2, <2>3 DEF FinInv
<1> QED BY <1>1, <1>2

\* What stands above a finalized block stands on it: the certificates that
\* skip a view exclude a finalization in it.
LEMMA AboveFinal ==
  ASSUME TypeOK, VoteInv, FinInv, PathInv,
         NEW a \in Final, NEW b \in Certified, a.view <= b.view
  PROVE  StandsOn(b, a)
<1>1. a \in Certified /\ ~Nullified(a.view)
  BY FinalNotNullified
<1>2. b \in Voted \cup {Genesis} /\ a.view \in 0..b.view
  BY <1>1, VotedBlocks, NumberAssumption DEF Certified, Views, Blocks
<1>3. PICK c \in Certified \cup {b} : c.view = a.view /\ StandsOn(b, c)
  BY <1>1, <1>2 DEF PathInv, HasPath
<1>4. c = a
  BY <1>1, <1>3, OneBlockPerView
<1> QED BY <1>3, <1>4

\* A seal that a quorum can no longer vote for is not notarized.
LEMMA DeadNotCertified ==
  ASSUME TypeOK, VoteInv, NEW s \in Voted, Dead(s)
  PROVE  s \notin Certified
<1> SUFFICES ASSUME s \in Certified PROVE FALSE
  OBVIOUS
<1>1. Notarized(s)
  BY VotedBlocks, NumberAssumption DEF Certified, Views
<1>2. PICK Q \in Quorums : \A m \in Q \ Faulty : vote[m][s.view] # s
  BY DEF Dead
<1>3. PICK R \in Quorums : R \subseteq {m \in Honest : vote[m][s.view] = s} \cup Faulty
  BY <1>1 DEF Notarized, Certifies
<1>4. PICK m \in (Q \cap R) : m \notin Faulty
  BY QuorumAssumption
<1> QED BY <1>2, <1>3, <1>4

-----------------------------------------------------------------------------
(* What every step keeps. *)

\* Votes are not withdrawn, and no block is voted for in a nullified view.
Grows ==
  /\ \A m \in Honest, v \in Views :
       vote[m][v] # None \/ v \in nulls[m] => vote'[m][v] = vote[m][v]
  /\ \A m \in Honest : nulls[m] \subseteq nulls'[m] /\ fins[m] \subseteq fins'[m]

\* More votes make more certificates.
LEMMA CertifiesMore ==
  ASSUME NEW S, NEW T, S \subseteq T, Certifies(S)
  PROVE  Certifies(T)
BY DEF Certifies

\* Certificates stay valid.
LEMMA Growth ==
  ASSUME TypeOK, VoteInv, Grows
  PROVE  /\ Voted \subseteq Voted'
         /\ Certified \subseteq Certified'
         /\ Final \subseteq Final'
         /\ \A u : Nullified(u) => Nullified(u)'
<1>1. Voted \subseteq Voted'
  BY DEF Voted, Grows
<1>2. ASSUME NEW b \in Voted, Notarized(b) PROVE Notarized(b)'
  <2> DEFINE S == {m \in Honest : vote[m][b.view] = b}
             T == {m \in Honest : vote'[m][b.view] = b}
  <2>1. S \subseteq T
    BY VotedBlocks DEF Grows
  <2>2. Certifies(T)
    BY <1>2, <2>1, CertifiesMore DEF Notarized
  <2> QED BY <2>2 DEF Notarized
<1>3. ASSUME NEW b, Finalized(b) PROVE Finalized(b)'
  <2> DEFINE S == {m \in Honest : b \in fins[m]}
             T == {m \in Honest : b \in fins'[m]}
  <2>1. S \subseteq T
    BY DEF Grows
  <2>2. Certifies(T)
    BY <1>3, <2>1, CertifiesMore DEF Finalized
  <2> QED BY <2>2 DEF Finalized
<1>4. ASSUME NEW u, Nullified(u) PROVE Nullified(u)'
  <2> DEFINE S == {m \in Honest : u \in nulls[m]}
             T == {m \in Honest : u \in nulls'[m]}
  <2>1. S \subseteq T
    BY DEF Grows
  <2>2. Certifies(T)
    BY <1>4, <2>1, CertifiesMore DEF Nullified
  <2> QED BY <2>2 DEF Nullified
<1>5. Certified \subseteq Certified'
  BY <1>1, <1>2 DEF Certified
<1>6. Final \subseteq Final'
  BY <1>1, <1>3 DEF Final
<1> QED BY <1>1, <1>4, <1>5, <1>6

\* A seal that cannot be notarized stays so.
LEMMA DeadStays ==
  ASSUME Grows, NEW s, s.view \in Views, Dead(s)
  PROVE  Dead(s)'
<1>1. PICK Q \in Quorums : \A m \in Q \ Faulty :
        vote[m][s.view] # s /\ (s.view \in nulls[m] \/ vote[m][s.view] # None)
  BY DEF Dead
<1>2. ASSUME NEW m \in Q \ Faulty
      PROVE  vote'[m][s.view] # s /\ (s.view \in nulls'[m] \/ vote'[m][s.view] # None)
  BY <1>1, <1>2, QuorumAssumption DEF Grows, Honest
<1> QED BY <1>2 DEF Dead

\* The invariant's facts about the blocks already voted for.
LEMMA BlocksKeep ==
  ASSUME SealConsensusInv, Grows, NEW b \in Voted \cup {Genesis}
  PROVE  /\ HasPath(b)'
         /\ HasFrames(b)'
         /\ b.kind = "seal" => (CheckpointFinal(b) \/ Dead(b))'
<1> USE DEF SealConsensusInv
<1>1. HasPath(b)'
  BY Growth DEF PathInv, HasPath, StandsOn
<1>2. HasFrames(b)'
  BY Growth DEF ChainInv, HasFrames
<1>3. ASSUME b.kind = "seal" PROVE (CheckpointFinal(b) \/ Dead(b))'
  <2>1. b \in Voted /\ b.view \in Views
    BY <1>3, VotedBlocks DEF Genesis
  <2>2. CheckpointFinal(b) \/ Dead(b)
    BY <1>3, <2>1 DEF SealInv
  <2>3. CheckpointFinal(b) => CheckpointFinal(b)'
    BY Growth DEF CheckpointFinal
  <2> QED BY <2>1, <2>2, <2>3, DeadStays
<1> QED BY <1>1, <1>2, <1>3

-----------------------------------------------------------------------------
(* Each step preserves the invariant. *)

\* What the handoff proposer can accept above p: a data frame above a data
\* frame; a seal above a seal or above the member's committed tip.
Built(m, p, v, b) ==
  /\ b \in Blocks
  /\ b.view = v
  /\ \/ b.kind = "data" /\ p.kind = "data" /\ b.chain = p.chain \cup {v}
     \/ b.kind = "seal" /\ b.chain = p.chain /\ (p.kind = "seal" \/ tip[m] = p)

\* verify_with_context and propose_with_context build only such blocks.
LEMMA AcceptsBuilt ==
  ASSUME NEW m \in Honest, NEW v \in Views, NEW p \in Blocks,
         NEW b \in Accepts(m, p, v)
  PROVE  Built(m, p, v, b)
<1>1. SealOn(p, v) \in Blocks
  BY NumberAssumption DEF SealOn, Blocks, Views
<1>2. \A free \in BOOLEAN : DataOn(p, v, free) \in Blocks
  BY NumberAssumption DEF DataOn, Blocks, Views
<1>3. CASE b \in Reseals(m, p, v) \cup FirstSeals(m, p, v)
  BY <1>1, <1>3 DEF Reseals, FirstSeals, Committed, SealOn, Built
<1>4. CASE b \in DataFrames(m, p, v)
  BY <1>2, <1>4 DEF DataFrames, DataOn, Built
<1> QED BY <1>3, <1>4 DEF Accepts

LEMMA ProposesAccepted ==
  ASSUME NEW m \in Honest, NEW p, NEW v \in Views, NEW knows \in BOOLEAN
  PROVE  Proposes(m, p, v, knows) \subseteq Accepts(m, p, v)
BY DEF Proposes, Accepts

\* A new block stands on its parent, with its views and frames below it.
LEMMA NewBlock ==
  ASSUME SealConsensusInv, NEW m \in Honest, NEW v \in Views,
         NEW p \in Certified, NEW b, Extends(p, v), Built(m, p, v, b)
  PROVE  HasPath(b) /\ HasFrames(b)
<1> USE DEF SealConsensusInv
<1>1. /\ p \in Voted \cup {Genesis} /\ p \in Blocks
      /\ HasPath(p) /\ HasFrames(p)
  BY VotedBlocks DEF Certified, PathInv, ChainInv
<1>2. p.view \in Nat /\ v \in Nat /\ p.view < v /\ b.view = v
  BY <1>1, NumberAssumption DEF Extends, Blocks, Views, Built
<1>3. StandsOn(b, p) /\ StandsOn(b, b)
  BY DEF StandsOn, Built
<1>4. HasPath(b)
  <2> SUFFICES ASSUME NEW u \in 0..b.view, ~Nullified(u)
               PROVE  \E c \in Certified \cup {b} : c.view = u /\ StandsOn(b, c)
    BY DEF HasPath
  <2>1. CASE u <= p.view
    <3>1. PICK c \in Certified \cup {p} : c.view = u /\ StandsOn(p, c)
      BY <1>1, <1>2, <2>1 DEF HasPath
    <3>2. StandsOn(b, c)
      BY <1>3, <3>1 DEF StandsOn
    <3> QED BY <3>1, <3>2
  <2>2. CASE p.view < u /\ u < v
    BY <1>2, <2>2, NumberAssumption DEF Extends, Views
  <2>3. CASE u = v
    BY <1>2, <1>3, <2>3
  <2> QED BY <1>2, <2>1, <2>2, <2>3
<1>5. HasFrames(b)
  <2>1. b.chain \subseteq Nat /\ p.chain \subseteq Nat
    BY <1>1, NumberAssumption DEF Built, Blocks
  <2>2. ASSUME NEW u \in p.chain
        PROVE  /\ u <= p.view
               /\ \E c \in Certified :
                    c.view = u /\ c.kind = "data" /\ c.chain = {x \in p.chain : x <= u}
    BY <1>1 DEF HasFrames
  <2>3. ASSUME NEW u \in p.chain
        PROVE  {x \in b.chain : x <= u} = {x \in p.chain : x <= u}
    BY <1>2, <2>1, <2>2 DEF Built
  <2>4. ASSUME NEW u \in p.chain
        PROVE  /\ u <= b.view
               /\ \E c \in Certified :
                    c.view = u /\ c.kind = "data" /\ c.chain = {x \in b.chain : x <= u}
    BY <1>2, <2>1, <2>2, <2>3
  <2>5. CASE b.kind = "seal"
    BY <2>4, <2>5 DEF Built, HasFrames
  <2>6. CASE b.kind = "data"
    <3>1. b.chain = p.chain \cup {v}
      BY <2>6 DEF Built
    <3>2. b.chain = {x \in b.chain : x <= v}
      BY <1>2, <2>1, <2>2, <3>1
    <3>3. ASSUME NEW u \in b.chain
          PROVE  /\ u <= b.view
                 /\ \E c \in Certified \cup {b} :
                      c.view = u /\ c.kind = "data" /\ c.chain = {x \in b.chain : x <= u}
      <4>1. CASE u = v
        BY <1>2, <2>6, <3>2, <4>1
      <4>2. CASE u \in p.chain
        BY <2>4, <4>2
      <4> QED BY <3>1, <4>1, <4>2
    <3> QED BY <1>2, <3>1, <3>3 DEF HasFrames
  <2> QED BY <2>5, <2>6 DEF Built
<1> QED BY <1>4, <1>5

\* A seal nobody has voted for has a finalized checkpoint or can no longer be
\* notarized: above a seal it inherits that seal's checkpoint, and a committed
\* tip below it is final on its own, unless the committee has passed view v by.
LEMMA NewSeal ==
  ASSUME SealConsensusInv, NEW m \in Honest, NEW v \in Views,
         NEW p \in Certified, NEW b, Extends(p, v), Built(m, p, v, b),
         b.kind = "seal", b \notin Voted
  PROVE  CheckpointFinal(b) \/ Dead(b)
<1> USE DEF SealConsensusInv
<1>1. p \in Blocks /\ p.view \in Nat /\ v \in Nat /\ v > 0 /\ p.view < v /\ b.view = v
  BY VotedBlocks, NumberAssumption DEF Certified, Extends, Built, Blocks, Views
<1>2. b.chain = p.chain
  BY DEF Built
<1>3. CASE p.kind = "seal"
  <2>1. p \in Voted
    BY <1>3 DEF Certified, Genesis
  <2>2. CheckpointFinal(p)
    BY <1>3, <2>1, DeadNotCertified DEF SealInv
  <2> QED BY <1>2, <2>2 DEF CheckpointFinal
<1>4. CASE p.kind # "seal"
  <2>1. tip[m] = p /\ p.kind = "data"
    BY <1>4 DEF Built, TipInv
  <2>2. PICK f \in Final : p.chain \subseteq f.chain
    BY <2>1 DEF TipInv
  <2>3. f \in Certified /\ ~Nullified(f.view)
    BY FinalNotNullified
  <2>4. f \in Voted \cup {Genesis} /\ f.view \in Nat /\ p \in Voted \cup {Genesis}
    BY <2>3, VotedBlocks, NumberAssumption DEF Certified, Blocks
  <2>5. p.view <= f.view
    BY <2>1, <2>2, <2>4 DEF ChainInv, HasFrames
  <2>6. CASE f.view = p.view
    <3>1. f = p
      BY <2>3, <2>6, OneBlockPerView
    <3> QED BY <1>2, <2>1, <3>1 DEF CheckpointFinal
  <2>7. CASE p.view < f.view /\ f.view < v
    <3>1. f.view \in Views
      BY <1>1, <2>4, <2>7, NumberAssumption DEF Views
    <3> QED BY <2>3, <2>7, <3>1 DEF Extends
  <2>8. CASE v <= f.view
    <3>1. Nullified(v) \/ \E c \in Certified : c.view = v
      <4>1. HasPath(f) /\ v \in 0..f.view
        BY <1>1, <2>4, <2>8 DEF PathInv
      <4> QED BY <2>3, <4>1 DEF HasPath
    <3>2. \A n \in Honest : vote[n][v] # b
      <4>1. b # None
        BY NumberAssumption DEF Built
      <4> QED BY <4>1 DEF Voted
    <3>3. CASE Nullified(v)
      <4>1. PICK Q \in Quorums : Q \subseteq {n \in Honest : v \in nulls[n]} \cup Faulty
        BY <3>3 DEF Nullified, Certifies
      <4> QED BY <1>1, <3>2, <4>1 DEF Dead
    <3>4. CASE \E c \in Certified : c.view = v
      <4>1. PICK c \in Certified : c.view = v
        BY <3>4
      <4>2. c \in Voted /\ Notarized(c) /\ c # None
        BY <1>1, <4>1, VotedBlocks DEF Certified
      <4>3. PICK Q \in Quorums : Q \subseteq {n \in Honest : vote[n][v] = c} \cup Faulty
        BY <4>1, <4>2 DEF Notarized, Certifies
      <4> QED BY <1>1, <3>2, <4>2, <4>3 DEF Dead
    <3> QED BY <3>1, <3>3, <3>4
  <2> QED BY <1>1, <2>4, <2>5, <2>6, <2>7, <2>8
<1> QED BY <1>3, <1>4

\* Propose and Verify preserve the invariant: a member votes for a block built
\* on a certified parent, in a view where it has given no vote.
LEMMA VoteStep ==
  ASSUME SealConsensusInv, NEW m \in Honest, NEW v \in Views,
         NEW p \in Certified, NEW b, MayNotarize(m, v), Extends(p, v),
         Built(m, p, v, b), Notarize(m, v, b)
  PROVE  SealConsensusInv'
<1> USE DEF SealConsensusInv
<1>1. /\ vote' = [vote EXCEPT ![m] = [vote[m] EXCEPT ![v] = b]]
      /\ nulls' = nulls /\ fins' = fins /\ tip' = tip /\ closing' = closing
  BY DEF Notarize
<1>2. b \in Blocks /\ b.view = v /\ b # None
  BY NumberAssumption DEF Built
<1>3. TypeOK'
  BY <1>1, <1>2 DEF TypeOK
<1>4. \A n \in Honest, u \in Views :
        vote'[n][u] = IF n = m /\ u = v THEN b ELSE vote[n][u]
  BY <1>1 DEF TypeOK
<1>5. VoteInv'
  BY <1>2, <1>4 DEF VoteInv
<1>6. Grows
  BY <1>1, <1>4 DEF Grows, MayNotarize
<1>7. Voted' = Voted \cup {b}
  BY <1>2, <1>4 DEF Voted, MayNotarize
<1>8. FinInv'
  BY <1>1, <1>6, Growth DEF FinInv
<1>9. /\ HasPath(b)'
      /\ HasFrames(b)'
  <2>1. HasPath(b) /\ HasFrames(b)
    BY NewBlock
  <2>2. HasPath(b)'
    BY <1>6, <2>1, Growth DEF HasPath
  <2>3. HasFrames(b)'
    BY <1>6, <2>1, Growth DEF HasFrames
  <2> QED BY <2>2, <2>3
<1>10. PathInv'
  BY <1>6, <1>7, <1>9, BlocksKeep DEF PathInv
<1>11. ChainInv'
  BY <1>6, <1>7, <1>9, BlocksKeep DEF ChainInv
<1>12. SealInv'
  <2>1. ASSUME b.kind = "seal", b \notin Voted PROVE (CheckpointFinal(b) \/ Dead(b))'
    <3>1. CheckpointFinal(b) \/ Dead(b)
      BY <2>1, NewSeal
    <3>2. CheckpointFinal(b) => CheckpointFinal(b)'
      BY <1>6, Growth DEF CheckpointFinal
    <3> QED BY <1>2, <1>6, <3>1, <3>2, DeadStays
  <2> QED BY <1>6, <1>7, <2>1, BlocksKeep DEF SealInv
<1>13. TipInv'
  BY <1>1, <1>6, Growth DEF TipInv
<1> QED BY <1>3, <1>5, <1>8, <1>10, <1>11, <1>12, <1>13

\* Steps that cast no notarize vote leave the blocks as they are.
LEMMA NoVoteStep ==
  ASSUME SealConsensusInv, Grows, vote' = vote, TypeOK', FinInv', TipInv'
  PROVE  SealConsensusInv'
<1> USE DEF SealConsensusInv
<1>1. Voted' = Voted
  BY DEF Voted
<1>2. VoteInv'
  BY DEF VoteInv
<1>3. PathInv' /\ ChainInv' /\ SealInv'
  BY <1>1, BlocksKeep DEF PathInv, ChainInv, SealInv
<1> QED BY <1>2, <1>3

\* Nullify: not in a view the member voted to finalize.
LEMMA NullifyStep ==
  ASSUME SealConsensusInv, NEW m \in Honest, NEW v \in Views, Nullify(m, v)
  PROVE  SealConsensusInv'
<1> USE DEF SealConsensusInv
<1>1. /\ vote' = vote /\ fins' = fins /\ tip' = tip /\ closing' = closing
      /\ nulls' = [nulls EXCEPT ![m] = nulls[m] \cup {v}]
  BY DEF Nullify
<1>2. TypeOK'
  BY <1>1 DEF TypeOK
<1>3. Grows
  BY <1>1 DEF Grows, TypeOK
<1>4. FinInv'
  BY <1>1, <1>3, Growth DEF FinInv, Nullify, TypeOK
<1>5. TipInv'
  BY <1>1, <1>3, Growth DEF TipInv
<1> QED BY <1>1, <1>2, <1>3, <1>4, <1>5, NoVoteStep

\* Finalize: a certified block, not in a view the member nullified.
LEMMA FinalizeStep ==
  ASSUME SealConsensusInv, NEW m \in Honest, NEW b \in Certified \ {Genesis},
         Finalize(m, b)
  PROVE  SealConsensusInv'
<1> USE DEF SealConsensusInv
<1>1. /\ vote' = vote /\ nulls' = nulls /\ tip' = tip /\ closing' = closing
      /\ fins' = [fins EXCEPT ![m] = fins[m] \cup {b}]
      /\ b.view \notin nulls[m]
  BY DEF Finalize
<1>2. b \in Blocks
  BY VotedBlocks DEF Certified
<1>3. TypeOK'
  BY <1>1, <1>2 DEF TypeOK
<1>4. Grows
  BY <1>1 DEF Grows, TypeOK
<1>5. FinInv'
  BY <1>1, <1>4, Growth DEF FinInv, TypeOK
<1>6. TipInv'
  BY <1>1, <1>4, Growth DEF TipInv
<1> QED BY <1>1, <1>3, <1>4, <1>5, <1>6, NoVoteStep

\* Materialize: a certified data frame of a finalized history.
LEMMA MaterializeStep ==
  ASSUME SealConsensusInv, NEW m \in Honest, NEW b \in Certified \ {Genesis},
         NEW f \in Final, Materialize(m, f, b)
  PROVE  SealConsensusInv'
<1> USE DEF SealConsensusInv
<1>1. /\ vote' = vote /\ nulls' = nulls /\ fins' = fins /\ closing' = closing
      /\ tip' = [tip EXCEPT ![m] = b]
      /\ b.kind = "data" /\ b.chain \subseteq f.chain
  BY DEF Materialize
<1>2. b \in Blocks
  BY VotedBlocks DEF Certified
<1>3. TypeOK'
  BY <1>1, <1>2 DEF TypeOK
<1>4. Grows
  BY <1>1 DEF Grows
<1>5. FinInv'
  BY <1>1, <1>4, Growth DEF FinInv
<1>6. TipInv'
  <2>1. Certified \subseteq Certified' /\ Final \subseteq Final'
    BY <1>4, Growth
  <2> QED BY <1>1, <2>1 DEF TipInv, TypeOK
<1> QED BY <1>1, <1>3, <1>4, <1>5, <1>6, NoVoteStep

\* The invariant holds when the session starts: nothing has been voted for.
LEMMA InitInv ==
  ASSUME Init
  PROVE  SealConsensusInv
<1>1. TypeOK /\ VoteInv
  <2>1. Genesis \in Blocks
    BY NumberAssumption DEF Genesis, Blocks
  <2> QED BY <2>1 DEF Init, TypeOK, VoteInv
<1>2. Voted = {}
  BY DEF Init, Voted
<1>3. FinInv
  BY DEF Init, FinInv
<1>4. PathInv /\ ChainInv
  <2>g. Genesis.view = 0 /\ Genesis.kind = "data" /\ Genesis.chain = {0}
    BY DEF Genesis
  <2>c. Genesis \in Certified
    BY DEF Certified
  <2>1. HasPath(Genesis)
    BY <2>g, <2>c DEF HasPath, StandsOn
  <2>2. HasFrames(Genesis)
    <3>1. {x \in {0} : x <= 0} = {0}
      OBVIOUS
    <3> QED BY <2>g, <2>c, <3>1 DEF HasFrames
  <2> QED BY <1>2, <2>1, <2>2 DEF PathInv, ChainInv
<1>5. SealInv
  BY <1>2 DEF SealInv
<1>6. TipInv
  BY DEF Init, TipInv, Certified, Final, Genesis
<1> QED BY <1>1, <1>3, <1>4, <1>5, <1>6 DEF SealConsensusInv

\* Every step preserves the invariant.
LEMMA NextInv ==
  ASSUME SealConsensusInv, [Next]_vars
  PROVE  SealConsensusInv'
<1>1. CASE UNCHANGED vars
  <2>1. vote' = vote /\ nulls' = nulls /\ fins' = fins /\ tip' = tip /\ closing' = closing
    BY <1>1 DEF vars
  <2>2. Grows
    BY <2>1 DEF Grows
  <2>3. TypeOK' /\ FinInv' /\ TipInv'
    BY <2>1, <2>2, Growth DEF SealConsensusInv, TypeOK, FinInv, TipInv
  <2> QED BY <2>1, <2>2, <2>3, NoVoteStep
<1>2. CASE ScheduleClosing
  <2>1. vote' = vote /\ nulls' = nulls /\ fins' = fins /\ tip' = tip /\ closing' = TRUE
    BY <1>2 DEF ScheduleClosing
  <2>2. Grows
    BY <2>1 DEF Grows
  <2>3. TypeOK' /\ FinInv' /\ TipInv'
    BY <2>1, <2>2, Growth DEF SealConsensusInv, TypeOK, FinInv, TipInv
  <2> QED BY <2>1, <2>2, <2>3, NoVoteStep
<1>3. ASSUME NEW m \in Honest, NEW v \in Views, Propose(m, v)
      PROVE  SealConsensusInv'
  <2>1. PICK p \in Certified, knows \in BOOLEAN :
          /\ Extends(p, v)
          /\ \E b \in Proposes(m, p, v, knows) : Notarize(m, v, b)
    BY <1>3 DEF Propose
  <2>2. PICK b \in Proposes(m, p, v, knows) : Notarize(m, v, b)
    BY <2>1
  <2>3. p \in Blocks
    BY VotedBlocks DEF SealConsensusInv, Certified
  <2>4. Built(m, p, v, b)
    BY <2>3, ProposesAccepted, AcceptsBuilt
  <2>5. MayNotarize(m, v)
    BY <1>3 DEF Propose
  <2> QED BY <2>1, <2>2, <2>4, <2>5, VoteStep
<1>4. ASSUME NEW m \in Honest, NEW v \in Views, Verify(m, v)
      PROVE  SealConsensusInv'
  <2>1. PICK p \in Certified :
          /\ Extends(p, v)
          /\ \E b \in Accepts(m, p, v) : Notarize(m, v, b)
    BY <1>4 DEF Verify
  <2>2. PICK b \in Accepts(m, p, v) : Notarize(m, v, b)
    BY <2>1
  <2>3. p \in Blocks
    BY VotedBlocks DEF SealConsensusInv, Certified
  <2>4. Built(m, p, v, b)
    BY <2>3, AcceptsBuilt
  <2>5. MayNotarize(m, v)
    BY <1>4 DEF Verify
  <2> QED BY <2>1, <2>2, <2>4, <2>5, VoteStep
<1> QED BY <1>1, <1>2, <1>3, <1>4, NullifyStep, FinalizeStep, MaterializeStep DEF Next

\* SealConsensusInv is an invariant of the specification.
THEOREM Inductive == Spec => []SealConsensusInv
<1>1. Init => SealConsensusInv
  BY InitInv
<1>2. SealConsensusInv /\ [Next]_vars => SealConsensusInv'
  BY NextInv
<1> QED BY <1>1, <1>2, PTL DEF Spec

-----------------------------------------------------------------------------
(* The properties. *)

\* The state is well typed in every reachable state.
THEOREM TypeCorrect == Spec => []TypeOK
BY Inductive, PTL DEF SealConsensusInv

\* Whatever faulty members sign, finalized blocks lie on one history: a view
\* has one certified block, a finalized view is not nullified, and a block
\* skips only nullified views (construct_notarize, construct_finalize,
\* construct_nullify, parent_payload).
THEOREM OneHistory == Spec => []SingleHistory
<1>1. SealConsensusInv => SingleHistory
  BY AboveFinal, FinalNotNullified, OneBlockPerView
     DEF SealConsensusInv, SingleHistory, StandsOn
<1> QED BY <1>1, Inductive, PTL

\* A finalized seal ends the session: no data frame is finalized beyond its
\* checkpoint, in any view (reseal, verify_reseal).
THEOREM SealIsTerminal == Spec => []SealEndsSession
<1>1. SealConsensusInv => SealEndsSession
  <2> SUFFICES ASSUME SealConsensusInv, NEW s \in Final, NEW b \in Final, s.kind = "seal"
               PROVE  b.chain \subseteq s.chain
    BY DEF SealEndsSession
  <2>1. s \in Certified /\ b \in Certified
    BY FinalNotNullified DEF SealConsensusInv
  <2>2. s.view \in Nat /\ b.view \in Nat
    BY <2>1, VotedBlocks, NumberAssumption DEF SealConsensusInv, Certified, Blocks
  <2>3. CASE s.view <= b.view
    BY <2>1, <2>3, AboveFinal DEF SealConsensusInv, StandsOn
  <2>4. CASE b.view <= s.view
    BY <2>1, <2>4, AboveFinal DEF SealConsensusInv, StandsOn
  <2> QED BY <2>2, <2>3, <2>4
<1> QED BY <1>1, Inductive, PTL

\* The checkpoint of a notarized seal was finalized by a certificate of its own
\* (the committed parent that propose_with_context and verify_with_context ask for).
THEOREM SealsCertified == Spec => []SealedCheckpointCertified
<1>1. SealConsensusInv => SealedCheckpointCertified
  <2> SUFFICES ASSUME SealConsensusInv, NEW s \in Certified, s.kind = "seal"
               PROVE  CheckpointFinal(s)
    BY DEF SealedCheckpointCertified, CheckpointFinal
  <2>1. s \in Voted
    BY DEF Certified, Genesis
  <2> QED BY <2>1, DeadNotCertified DEF SealConsensusInv, SealInv
<1> QED BY <1>1, Inductive, PTL

\* The materialized tips of correct members never diverge (unfinalized_chain,
\* apply_implied).
THEOREM TipsConverge == Spec => []TipsAgree
<1>1. SealConsensusInv => TipsAgree
  <2> SUFFICES ASSUME SealConsensusInv, NEW m \in Honest, NEW n \in Honest
               PROVE  \/ tip[m].chain \subseteq tip[n].chain
                      \/ tip[n].chain \subseteq tip[m].chain
    BY DEF TipsAgree
  <2>1. PICK f \in Final : tip[m].chain \subseteq f.chain
    BY DEF SealConsensusInv, TipInv
  <2>2. PICK g \in Final : tip[n].chain \subseteq g.chain
    BY DEF SealConsensusInv, TipInv
  <2>3. PICK h \in Final : tip[m].chain \subseteq h.chain /\ tip[n].chain \subseteq h.chain
    <3>1. f \in Certified /\ g \in Certified
      BY FinalNotNullified DEF SealConsensusInv
    <3>2. f.view \in Nat /\ g.view \in Nat
      BY <3>1, VotedBlocks, NumberAssumption DEF SealConsensusInv, Certified, Blocks
    <3>3. f.chain \subseteq g.chain \/ g.chain \subseteq f.chain
      BY <3>1, <3>2, AboveFinal DEF SealConsensusInv, StandsOn
    <3> QED BY <2>1, <2>2, <3>3
  <2>4. h \in Certified /\ HasFrames(h) /\ h.chain \subseteq Nat
    <3>1. h \in Certified
      BY FinalNotNullified DEF SealConsensusInv
    <3> QED BY <3>1, VotedBlocks, NumberAssumption
            DEF SealConsensusInv, Certified, ChainInv, Blocks
  <2>5. ASSUME NEW t \in Certified, t.kind = "data", t.chain \subseteq h.chain
        PROVE  t.view \in Nat /\ t.chain = {x \in h.chain : x <= t.view}
    <3>1. t.view \in t.chain
      BY <2>5 DEF SealConsensusInv, ChainInv, Certified, HasFrames
    <3>2. PICK c \in Certified : c.view = t.view /\ c.chain = {x \in h.chain : x <= t.view}
      BY <2>4, <2>5, <3>1 DEF HasFrames
    <3>3. c = t
      BY <3>2, OneBlockPerView DEF SealConsensusInv
    <3> QED BY <2>4, <2>5, <3>1, <3>2, <3>3
  <2>6. /\ tip[m].view \in Nat /\ tip[m].chain = {x \in h.chain : x <= tip[m].view}
        /\ tip[n].view \in Nat /\ tip[n].chain = {x \in h.chain : x <= tip[n].view}
    BY <2>3, <2>5 DEF SealConsensusInv, TipInv
  <2> QED BY <2>4, <2>6
<1> QED BY <1>1, Inductive, PTL
=============================================================================
