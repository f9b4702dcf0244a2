----------------------------- MODULE MCBoCache -----------------------------
EXTENDS BoCache, TLC

\* Two sizes that share a bucket, and the sparse one of them.
SomeRequests == {[size |-> 9, sparse |-> FALSE],
                 [size |-> 10, sparse |-> FALSE], [size |-> 10, sparse |-> TRUE]}

Symmetry == Permutations(Threads) \cup Permutations(Bos)
=============================================================================
