---------------------------- MODULE MCOutputDrawing ----------------------------
(* Two by two pixels: a rectangle is the whole surface or its second row, whose *)
(* position and size are not aligned to two.                                    *)
EXTENDS OutputDrawing

All == Rect(0, 0, 2, 2)
Row == Rect(0, 1, 2, 1)
MCRects == {[s |-> All, d |-> All], [s |-> All, d |-> Row], [s |-> Row, d |-> Row]}
================================================================================
