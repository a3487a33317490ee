-------------------------- MODULE MCGlobalHandoff --------------------------
(* Instances of GlobalHandoff for TLC. *)
EXTENDS GlobalHandoff, TLC

CONSTANTS P, A, B, A1, A2, p1, p2

\* P covers what A and B cover; A covers what A1 and A2 cover.
Ranges == (P :> {1, 2, 3}) @@ (A :> {1, 2}) @@ (B :> {3}) @@ (A1 :> {1}) @@ (A2 :> {2})
MCCover == [f \in Filters |-> Ranges[f]]

SplitP == [kind |-> "split", parent |-> P, old |-> {P}, new |-> {A, B}, staffed |-> {A, B}]
MergeP == [kind |-> "merge", parent |-> P, old |-> {A, B}, new |-> {P}, staffed |-> {P}]
SplitA == [kind |-> "split", parent |-> A, old |-> {A}, new |-> {A1, A2}, staffed |-> {A1, A2}]

NoChanges       == {}
SplitMerge      == {SplitP, MergeP}
OnlyMerge       == {MergeP}
SplitUnderMerge == {SplitA, MergeP}
NestedSplits    == {SplitP, SplitA}

ProverSymmetry == Permutations({p1, p2})

=============================================================================
