--------------------------- MODULE MCTegraStream ---------------------------
EXTENDS TegraStream, TLC

Symmetry == Permutations(Targets) \cup Permutations(Fences)
=============================================================================
