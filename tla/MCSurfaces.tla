---------------------------- MODULE MCSurfaces ----------------------------
(* Small instances of Surfaces: the objects and threads are interchangeable. *)
EXTENDS Surfaces, TLC

Symmetry == Permutations(Videos) \cup Permutations(Slots) \cup Permutations(Outputs)
            \cup Permutations(Threads) \cup Permutations(Links)
=============================================================================
