------------------------ MODULE MCPresentationQueue ------------------------
(* Small instances of PresentationQueue; threads and surfaces are            *)
(* interchangeable in the runs that check no liveness.                       *)
EXTENDS PresentationQueue, TLC

Symmetry == Permutations(Threads) \cup Permutations(Surfaces)
=============================================================================
