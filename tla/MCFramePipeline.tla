-------------------------- MODULE MCFramePipeline --------------------------
EXTENDS FramePipeline, TLC

Symmetry == Permutations(Videos) \cup Permutations(Slots) \cup Permutations(Outputs)
            \cup Permutations(Threads) \cup Permutations(Links)

\* Either two calls meet, or a second output surface is alive: not both.
Meeting ==
  \/ Cardinality({t \in Threads : pc[t] # "idle"}) <= 1
  \/ Cardinality({d \in Outputs : refcnt[d] > 0}) <= 1
=============================================================================
