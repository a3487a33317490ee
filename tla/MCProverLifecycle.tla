------------------------- MODULE MCProverLifecycle -------------------------
\* A parent shard that may be split into two children and merged back, and a
\* merge of that parent and its sibling into the shard above.
EXTENDS ProverLifecycle

CONSTANTS p, a, b, q, r

MCChanges == {[kind |-> "split", parent |-> p, children |-> <<a, b>>],
              [kind |-> "merge", parent |-> p, children |-> <<a, b>>],
              [kind |-> "merge", parent |-> r, children |-> <<p, q>>]}
============================================================================
