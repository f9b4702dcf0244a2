--------------------------- MODULE MCH264Pictures ---------------------------
EXTENDS H264Pictures, TLC

\* Bytes of which some have to be kept from forming a start code.
SmallSliceData == [1..4 -> {0, 1, 3, 32, 131}]
Ones == <<255, 255, 255, 255, 255, 255>>

Symmetry == Permutations(Surfaces)
=============================================================================
