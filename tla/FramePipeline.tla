--------------------------- MODULE FramePipeline ---------------------------
(***************************************************************************)
(* The pixels behind the surfaces of module Surfaces. Mixing a video onto  *)
(* an output surface copies nothing when create_shared_surface links the   *)
(* two: the output releases its own pixels and shows the video's, and the  *)
(* copy is made or avoided later, by shared_surface_transfer_video and     *)
(* shared_surface_swap_video. This is shown to implement FrameStore, where *)
(* mixing copies at once.                                                  *)
(***************************************************************************)
EXTENDS Surfaces

CONSTANTS Frames, Torn, Blank, Gone

\* What is Gone is neither a frame nor a picture.
ASSUME PipelineAssumption ==
  /\ Gone \notin Frames \cup {Torn}
  /\ Gone \notin [frame : Frames \cup {Torn, Blank}, drawn : BOOLEAN]

VARIABLES
  pix,   \* the pixels of a video surface
  img    \* the pixels of an output surface, Gone while not data_allocated

pipelineVars == <<vars, pix, img>>

Picture(f) == [frame |-> f, drawn |-> FALSE]

PipelineInit ==
  /\ Init
  /\ pix = [v \in Videos |-> Torn]
  /\ img = [d \in Outputs |-> Gone]

\* Mutant: the pixels are allocated, the shared video is not blitted to them.
ResolvedBlank(t) == IF img[out[t]] = Gone THEN Picture(Blank) ELSE img[out[t]]

\* What is in an output surface once its pixels are allocated.
Resolved(t) ==
  IF hold[t] # None THEN Picture(pix[link[hold[t]].video])
  ELSE IF img[out[t]] = Gone THEN Picture(Blank) ELSE img[out[t]]

\* Plain memory of a fresh object is garbage; a recycled one keeps its pixels.
PCreateVideo(t) ==
  /\ CreateVideo(t)
  /\ pix' = [pix EXCEPT ![vid'[t]] = IF refcnt[vid'[t]] = 0 THEN Torn ELSE @]
  /\ UNCHANGED img

PCreateOutput(t) ==
  /\ CreateOutput(t)
  /\ img' = [img EXCEPT ![out'[t]] = Gone]
  /\ UNCHANGED pix

PBeginWrite(t) ==
  /\ BeginWrite(t)
  /\ pix' = [pix EXCEPT ![vid[t]] = Torn]
  /\ UNCHANGED img

\* The decoder or pixman has filled the surface, or failed half way.
PFinishWrite(t) ==
  /\ FinishDecode(t) \/ FinishPutBits(t)
  /\ \E f \in Frames \cup {Torn} : pix' = [pix EXCEPT ![vid[t]] = f]
  /\ UNCHANGED img

\* create_shared_surface: dynamic_release_surface_data(disp).
PMixShare(t) ==
  /\ MixShare(t)
  /\ img' = [img EXCEPT ![out[t]] = Gone]
  /\ UNCHANGED pix

PMixBlit(t) ==
  /\ MixBlit(t)
  /\ \/ img' = [img EXCEPT ![out[t]] = Picture(pix[vid[t]])]
     \/ AllocMayFail /\ UNCHANGED img
  /\ UNCHANGED pix

\* shared_surface_transfer_video resolves the picture, the call draws over it;
\* a source without pixels leaves a surface without pixels as it is.
PDrawDone(t) ==
  /\ DrawDone(t)
  /\ \/ img' = [img EXCEPT ![out[t]] = [Resolved(t) EXCEPT !.drawn = TRUE]]
     \/ hold[t] = None /\ img[out[t]] = Gone /\ UNCHANGED img
     \/ AllocMayFail /\ UNCHANGED img
  /\ UNCHANGED pix

Unpainted(t) ==
  \/ CreateFail(t) \/ Register(t) \/ RegisterFail(t)
  \/ \E c \in {"decode", "put_bits"} : FetchTarget(t, c)
  \/ WriteRejected(t) \/ SwapUnshared(t) \/ SwapFail(t)
  \/ FetchMix(t) \/ MixLock(t)
  \/ \E c \in {"draw", "display"} : FetchOutput(t, c)
  \/ DrawLock(t) \/ DisplayDone(t) \/ DropCaches(t)
  \/ DestroyCall(t)

\* A swap that had to allocate starts from garbage too.
PSwapShared(t) ==
  /\ SwapShared(t)
  /\ pix' = [pix EXCEPT ![vid'[t]] = IF refcnt[vid'[t]] = 0 THEN Torn ELSE @]
  /\ UNCHANGED img

PipelineNext ==
  \/ \E t \in Threads :
       \/ PCreateVideo(t) \/ PCreateOutput(t) \/ PSwapShared(t) \/ PBeginWrite(t)
       \/ PFinishWrite(t) \/ PMixShare(t) \/ PMixBlit(t) \/ PDrawDone(t)
       \/ Unpainted(t) /\ UNCHANGED <<pix, img>>
  \/ ReleaseCache /\ UNCHANGED <<pix, img>>

PipelineSpec == PipelineInit /\ [][PipelineNext]_pipelineVars

-----------------------------------------------------------------------------
(* The refinement mapping.                                                 *)

BeingWritten(s) == \E t \in Threads : vid[t] = s /\ pc[t] \in {"swapped", "writing"}
BeingComposed(s) == \E t \in Threads : out[t] = s /\ pc[t] = "composing"

FrameOf(s) == IF BeingWritten(s) THEN Torn ELSE pix[s]

PictureOf(s) ==
  IF BeingComposed(s) THEN Picture(Torn)
  ELSE IF shared[s] # None THEN Picture(pix[link[shared[s]].video])
  ELSE IF img[s] = Gone THEN Picture(Blank) ELSE img[s]

Owned(h, kind) == h \in open /\ Lookup(h) \in kind
FramesSeen == [h \in Slots |-> IF Owned(h, Videos) THEN FrameOf(Lookup(h)) ELSE Gone]
PicturesSeen == [h \in Slots |-> IF Owned(h, Outputs) THEN PictureOf(Lookup(h)) ELSE Gone]

Store == INSTANCE FrameStore WITH
  Handles <- Slots, frame <- FramesSeen, picture <- PicturesSeen

\* Sharing, swapping and recycling surfaces is invisible: the application sees
\* the contents that copying on every mix would have given it.
ImplementsFrameStore == Store!Spec
=============================================================================
