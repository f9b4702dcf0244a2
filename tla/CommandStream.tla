--------------------------- MODULE CommandStream ---------------------------
(***************************************************************************)
(* What the users of tegra_stream.h rely on, whatever interface of the     *)
(* kernel is below: the words pushed between begin and end reach the       *)
(* hardware as one stream, whole and in order and closed by an OP_DONE     *)
(* increment, or they do not reach it at all.                              *)
(***************************************************************************)
EXTENDS Sequences, SequencesExt

CONSTANT Closed(_)  \* Closed(ws): the stream ws signals when all of it is done

VARIABLES
  phase,  \* "free", "construct", "failed" or "ready"
  built,  \* the words pushed since the last begin
  sent    \* what the hardware got of it

vars == <<phase, built, sent>>

Init == phase = "free" /\ built = <<>> /\ sent = <<>>

Begin == phase = "free" /\ phase' = "construct" /\ built' = <<>> /\ sent' = <<>>

Extend == IsPrefix(built, built') /\ UNCHANGED sent

Write == phase = "construct" /\ phase' \in {"construct", "failed"} /\ Extend

End == phase = "construct" /\ phase' = "ready" /\ Extend /\ Closed(built')

Send == phase = "ready" /\ phase' = "free" /\ sent' = built /\ UNCHANGED built

Drop == phase' = "free" /\ built' = <<>> /\ sent' = <<>>

Next == Begin \/ Write \/ End \/ Send \/ Drop

Spec == Init /\ [][Next]_vars
=============================================================================
