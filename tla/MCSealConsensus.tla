-------------------------- MODULE MCSealConsensus --------------------------
(* Instances of SealConsensus for TLC. *)
EXTENDS SealConsensus, TLC

CONSTANTS m1, m2, m3, m4

\* N3f1: all but a third of the members, rounded down
QuorumsOf(M) == {Q \in SUBSET M : 3 * Cardinality(M \ Q) < Cardinality(M)}

\* Two correct members, led in turn.
Pair == {m1, m2}

PairQuorums == QuorumsOf(Pair)

PairLeader == [v \in Views |-> IF v % 2 = 1 THEN m1 ELSE m2]

\* Four members; the faulty one leads, and may send each member another proposal.
Four == {m1, m2, m3, m4}

FourQuorums == QuorumsOf(Four)

Equivocating == [v \in Views |-> m4]

Voters == Permutations({m1, m2, m3})
=============================================================================
