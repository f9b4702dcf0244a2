----------------------------- MODULE FrameStore -----------------------------
(***************************************************************************)
(* What an application is promised about pixels: a video handle holds the  *)
(* frame last written to it, an output handle the picture last composed on *)
(* it plus what was drawn over it since, and a call changes the content of *)
(* no handle but its own. Mixing copies: what is written to the video      *)
(* handle afterwards does not reach the output handle.                     *)
(***************************************************************************)

CONSTANTS
  Handles,
  Frames,   \* contents a write can leave
  Torn,     \* the content of a handle while, or after, it is half written
  Blank,    \* no picture at all
  Gone      \* a handle that does not exist, or not of this kind

VARIABLES frame, picture

vars == <<frame, picture>>

Pictures == [frame : Frames \cup {Torn, Blank}, drawn : BOOLEAN]
Picture(f) == [frame |-> f, drawn |-> FALSE]

TypeOK ==
  /\ frame \in [Handles -> Frames \cup {Torn, Gone}]
  /\ picture \in [Handles -> Pictures \cup {Gone}]

Init ==
  /\ frame = [h \in Handles |-> Gone]
  /\ picture = [h \in Handles |-> Gone]

Exists(f, h) == f[h] # Gone
Unused(h) == ~Exists(frame, h) /\ ~Exists(picture, h)

\* A new video surface is not cleared: its first content is anything.
CreateVideo(h) ==
  /\ Unused(h)
  /\ \E f \in Frames \cup {Torn} : frame' = [frame EXCEPT ![h] = f]
  /\ UNCHANGED picture

CreateOutput(h) ==
  /\ Unused(h)
  /\ picture' = [picture EXCEPT ![h] = Picture(Blank)]
  /\ UNCHANGED frame

BeginWrite(h) ==
  /\ Exists(frame, h)
  /\ frame' = [frame EXCEPT ![h] = Torn]
  /\ UNCHANGED picture

EndWrite(h) ==
  /\ Exists(frame, h) /\ frame[h] = Torn
  /\ \E f \in Frames : frame' = [frame EXCEPT ![h] = f]
  /\ UNCHANGED picture

BeginCompose(h) ==
  /\ Exists(picture, h)
  /\ picture' = [picture EXCEPT ![h] = Picture(Torn)]
  /\ UNCHANGED frame

EndCompose(hv, h) ==
  /\ Exists(frame, hv) /\ Exists(picture, h) /\ picture[h] = Picture(Torn)
  /\ picture' = [picture EXCEPT ![h] = Picture(frame[hv])]
  /\ UNCHANGED frame

Draw(h) ==
  /\ Exists(picture, h)
  /\ picture' = [picture EXCEPT ![h].drawn = TRUE]
  /\ UNCHANGED frame

Destroy(h) ==
  /\ frame' = [frame EXCEPT ![h] = Gone]
  /\ picture' = [picture EXCEPT ![h] = Gone]

Next ==
  \E h \in Handles :
    \/ CreateVideo(h) \/ CreateOutput(h) \/ BeginWrite(h) \/ EndWrite(h)
    \/ BeginCompose(h) \/ \E hv \in Handles : EndCompose(hv, h)
    \/ Draw(h) \/ Destroy(h)

Spec == Init /\ [][Next]_vars
=============================================================================
