----------------------------- MODULE MCDecoder -----------------------------
EXTENDS Decoder, TLC

Symmetry == Permutations(Handles) \cup Permutations(Surfaces)
=============================================================================
