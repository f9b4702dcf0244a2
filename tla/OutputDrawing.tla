---------------------------- MODULE OutputDrawing ----------------------------
(***************************************************************************)
(* Drawing on output surfaces: surface_render_bitmap_surface of            *)
(* surface_output.c with its four ways to get pixels from one surface to   *)
(* another, put_bits of surface_bitmap.c, and the composition of           *)
(* vdp_video_mixer_render, with the locks each holds. The engines of       *)
(* module Engines do the painting; want is what the calls asked for.       *)
(*                                                                         *)
(* Surfaces exist throughout, their handles and references are in module   *)
(* Surfaces. An action is what a call does from one lock to the next, with *)
(* each of its ways to fail.                                               *)
(***************************************************************************)
EXTENDS Engines, FiniteSets

CONSTANTS
  Threads,
  Outputs, Bitmaps,  \* surfaces without SURFACE_VIDEO, with and without
                     \* SURFACE_OUTPUT: their names are those of their buffers
  None,              \* NULL, VDP_INVALID_HANDLE
  Width, Height,     \* of every surface
  Rects,             \* the areas calls name: pairs of source and destination
  Rotations,         \* quarters, 0 for VDP_OUTPUT_SURFACE_RENDER_ROTATE_0
  MaxCalls,          \* bound on the calls made
  Admits             \* rules of the run, see May* below

Drawables == Outputs \cup Bitmaps
Blends == {"none", "over", "other", "unversioned"}
Draws == [dst : Outputs, src : Drawables \cup {None}, rects : Rects,
          rotate : Rotations, blend : Blends, hw_rotate : BOOLEAN, clear : BOOLEAN]

ASSUME DrawingAssumption ==
  /\ Outputs \cap Bitmaps = {}
  /\ None \notin Outputs \cup Bitmaps \cup Threads \cup Draws \cup Rects
  /\ IsFiniteSet(Threads) /\ MaxCalls \in Nat

Whole == Rect(0, 0, Width, Height)
Video == Buffer("video", Width, Height, TRUE)

VARIABLES
  data,     \* surf->data_allocated
  link,     \* surf->shared: what an output surface shows of the video
  set_bg,   \* surf->set_bg
  map_cnt,  \* surf->map_cnt
  lock,     \* surf->lock
  gpu,      \* the registers and the buffers of the engines
  pc, arg,  \* where the drawing call of a thread is, and its arguments
  made,     \* calls made
  want      \* what is to be there, see DrawnAsAsked

vars == <<data, link, set_bg, map_cnt, lock, gpu, pc, arg, made, want>>

Steps == {"idle", "check", "probe", "lock", "paint", "map_source", "composite",
          "crashed"}

Inks == (Colors \cup {"art", "bits", "top", "bottom", "false_colours"}) \X (0 .. 3)

TypeOK ==
  /\ data \in [Drawables -> BOOLEAN]
  /\ \A d \in Outputs : link[d] = None \/ link[d] \in Rects
  /\ set_bg \in [Outputs -> BOOLEAN]
  /\ map_cnt \in [Drawables -> Nat]
  /\ lock \in [Drawables -> Threads \cup {None}]
  /\ gpu.pix \in [Drawables \cup {Video.bo} -> [Area(Whole) -> SUBSET Inks]]
  /\ pc \in [Threads -> Steps]
  /\ \A t \in Threads : arg[t] = None \/ arg[t] \in Draws
  /\ made \in 0 .. MaxCalls
  /\ \A s \in Drawables : ~data[s] => map_cnt[s] = 0

Cleared == [c \in Area(Whole) |-> Plain(Unpainted)]
Frame == [c \in Area(Whole) |-> Plain(IF c[2] = 0 THEN "top" ELSE "bottom")]
Art == [c \in Area(Whole) |-> Plain("art")]

SourceOf(p) == p.s
TargetOf(p) == p.d

Shows(s) == s \in Outputs /\ link[s] # None  \* the video, by a link

\* The pixels that stand for a surface, resolved or not.
View(s) ==
  IF Shows(s)
  THEN Painted([c \in Area(Whole) |->
                  Plain(IF set_bg[s] THEN "background" ELSE Unpainted)],
               Area(TargetOf(link[s])), InksIn(gpu.pix[Video.bo], SourceOf(link[s])))
  ELSE IF data[s] THEN gpu.pix[s] ELSE Cleared

\* No drawing yet; one output surface may already show the video.
Init ==
  /\ data = [s \in Drawables |-> s \in Bitmaps]
  /\ \/ link = [d \in Outputs |-> None]
     \/ \E o \in Outputs, p \in Rects :
          link = [d \in Outputs |-> IF d = o THEN p ELSE None]
  /\ set_bg = [d \in Outputs |-> link[d] # None /\ TargetOf(link[d]) # Whole]
  /\ map_cnt = [s \in Drawables |-> 0]
  /\ lock = [s \in Drawables |-> None]
  /\ gpu = [regs |-> LeftoverRegs(Video),
            pix |-> [b \in Drawables \cup {Video.bo} |->
                       IF b \in Outputs THEN Cleared
                       ELSE IF b = Video.bo THEN Frame ELSE Art]]
  /\ pc = [t \in Threads |-> "idle"]
  /\ arg = [t \in Threads |-> None]
  /\ made = 0
  /\ want = [s \in Drawables |-> View(s)]

-----------------------------------------------------------------------------
(* What is asked for.                                                      *)

\* What a drawing asks for: blending goes with no rotation, and a source that
\* nothing was drawn to is transparent and replaces what it is drawn on.
Asked(a) ==
  LET cells == Area(TargetOf(a.rects))
      inks == Turned(InksIn(want[a.src], SourceOf(a.rects)), a.rotate)
      old == want[a.dst]
  IN  IF a.src = None THEN Painted(old, cells, Plain("white"))
      ELSE IF a.clear THEN Painted(old, cells, Plain(Unpainted))
      ELSE IF a.blend = "over" /\ a.rotate = 0
      THEN [c \in Area(Whole) |-> IF c \in cells THEN old[c] \cup inks ELSE old[c]]
      ELSE Painted(old, cells, inks)

-----------------------------------------------------------------------------
(* Rules: what the run lets the application and the system do.             *)

Writing(s) == {t \in Threads : arg[t] # None /\ arg[t].dst = s}
Reading(s) == {t \in Threads : arg[t] # None /\ arg[t].src = s}

\* A surface is not drawn on while it is the source of another call
\* ("opposed" lifts this), and one that shows a video is the source of one
\* call at a time ("two_readers").
MayDraw(a) ==
  /\ a.src # a.dst
  /\ "opposed" \in Admits \/ (Reading(a.dst) = {} /\ Writing(a.src) = {})
  /\ "two_readers" \in Admits \/ (Shows(a.src) => Reading(a.src) = {})

\* A surface that shows a video is not copied plainly ("linked_copy").
MayCopy(a) ==
  "linked_copy" \in Admits \/ ~(Shows(a.src) /\ a.rotate = 0 /\ a.blend # "over")

\* A video shown from its second row on is not rotated ("crop").
MayRotate(a) ==
  "crop" \in Admits \/
    ~(Shows(a.src) /\ a.rotate # 0 /\ SourceOf(link[a.src]).y # 0)

\* Memory runs out for a surface that shows no video ("linked_memory": any),
\* and not for the first buffer of a rotation ("rotate_memory").
NoMemoryFor(s) == "linked_memory" \in Admits \/ ~Shows(s)

\* The clear of a surface may be refused by the engine ("no_source": the clear
\* that stands for a source without pixels, too).
MayRefuse(a) == a.src = None \/ "no_source" \in Admits

\* So may every copy, blending and rotation, but not the two jobs that give a
\* surface the background and the video it shows ("refused_video").
VideoAnswers ==
  IF "refused_video" \in Admits THEN BOOLEAN \X BOOLEAN ELSE {<<TRUE, TRUE>>}

-----------------------------------------------------------------------------
(* surface.c, surface_shared.c                                             *)

BufferOf(s) == IF data[s] THEN Buffer(s, Width, Height, FALSE) ELSE NoBuffer
NewBuffer(s) == Buffer(s, Width, Height, FALSE)

\* dynamic_alloc_surface_data: what is in a fresh buffer is of no interest.
Allocated(g, s) == IF data[s] THEN g ELSE [g EXCEPT !.pix[s] = Cleared]

\* The engines after shared_surface_transfer_video. A refusal is only logged.
Transferred(s, answers) ==
  LET new == Asking(Allocated(gpu, s), answers)
      bg  == IF set_bg[s]
             THEN ClearAround(new, NewBuffer(s), "background", Whole,
                              TargetOf(link[s]))
             ELSE new
  IN  IF Shows(s)
      THEN SurfaceBlit(bg, Video, NewBuffer(s), SourceOf(link[s]), TargetOf(link[s]))
      ELSE new

\* The outcomes of shared_surface_transfer_video when it returns 0. Without
\* memory for a surface that shows a video that is all it does: the video is
\* lost, and the surface has no pixels (has).
Transfers(s) ==
  {[has |-> TRUE, bg |-> FALSE, gpu |-> Transferred(s, answers)] :
     answers \in VideoAnswers}
  \cup IF Shows(s) /\ NoMemoryFor(s)
       THEN {[has |-> FALSE, bg |-> set_bg[s], gpu |-> gpu]} ELSE {}

\* It returns an error: without memory for a surface that shows nothing.
Fails(s) == ~data[s] /\ ~Shows(s)

\* The surface after it: a link is broken.
Becomes(s, x) ==
  /\ data' = [data EXCEPT ![s] = x.has]
  /\ IF Shows(s) THEN /\ link' = [link EXCEPT ![s] = None]
                      /\ set_bg' = [set_bg EXCEPT ![s] = x.bg]
                 ELSE UNCHANGED <<link, set_bg>>

\* A drawing allocates its destination once more after the transfer.
Prepared(d) ==
  {IF x.has THEN x ELSE [x EXCEPT !.has = TRUE, !.gpu = Allocated(x.gpu, d)] :
     x \in Transfers(d)}

Free(s, t) == lock[s] \in {None, t}
Painting(g) == gpu' = [regs |-> g.regs, pix |-> g.pix]

Return(t) ==
  /\ pc' = [pc EXCEPT ![t] = "idle"]
  /\ arg' = [arg EXCEPT ![t] = None]
Goto(t, step) == pc' = [pc EXCEPT ![t] = step]
Unlocked(t) == lock' = [lock EXCEPT ![arg[t].dst] = None]

\* surf->pixbuf is followed and is NULL: the process ends.
Crash == pc' = [t \in Threads |-> "crashed"]
Running == \A t \in Threads : pc[t] # "crashed"

-----------------------------------------------------------------------------
(* vdp_output_surface_render_bitmap_surface, _render_output_surface        *)

BeginDraw(t) ==
  /\ pc[t] = "idle" /\ made < MaxCalls
  /\ \E a \in Draws :
       /\ ~a.hw_rotate /\ ~a.clear
       /\ a.src = None => a.rotate = 0 /\ a.blend = "none" /\ a.rects.s = a.rects.d
       /\ a.blend = "other" => a.rotate # 0  \* else as "none"
       /\ a.blend = "unversioned" => a.rotate = 0
       /\ MayDraw(a) /\ MayCopy(a) /\ MayRotate(a)
       /\ arg' = [arg EXCEPT ![t] = a]
       /\ Goto(t, IF a.src = None THEN "lock" ELSE "check")
  /\ made' = made + 1
  /\ UNCHANGED <<data, link, set_bg, map_cnt, lock, gpu, want>>

NeedsRotate(a) == a.rotate # 0
Probes(a) == NeedsRotate(a) /\ a.blend = "none" /\ Shows(a.src)

\* Under the source's lock: without pixels it stands for a clear.
CheckSource(t) ==
  LET a == arg[t] IN
  /\ pc[t] = "check" /\ Free(a.src, t)
  /\ IF Probes(a)
     THEN /\ lock' = [lock EXCEPT ![a.src] = t]
          /\ Goto(t, "probe")
          /\ UNCHANGED arg
     ELSE /\ Goto(t, "lock")
          /\ arg' = [arg EXCEPT ![t].clear = ~data[a.src] /\ ~Shows(a.src)]
          /\ UNCHANGED lock
  /\ UNCHANGED <<data, link, set_bg, map_cnt, gpu, made, want>>

\* rotate_surface_gr2d with check_only takes the destination's lock inside the
\* source's. The engine can turn exactly what the video covers.
ProbeRotation(t) ==
  LET a == arg[t] IN
  /\ pc[t] = "probe" /\ Free(a.dst, t)
  /\ arg' = [arg EXCEPT ![t].hw_rotate = SourceOf(a.rects) = TargetOf(link[a.src])]
  /\ lock' = [lock EXCEPT ![a.src] = None]
  /\ Goto(t, "lock")
  /\ UNCHANGED <<data, link, set_bg, map_cnt, gpu, made, want>>

\* Mutant of DrawNothing: this way out leaves the destination locked.
DrawNothingLocked(t) ==
  LET a == arg[t] IN
  /\ pc[t] = "lock" /\ Free(a.dst, t)
  /\ a.clear /\ link[a.dst] = None /\ ~data[a.dst]
  /\ lock' = [lock EXCEPT ![a.dst] = t]
  /\ Return(t)
  /\ UNCHANGED <<data, link, set_bg, map_cnt, gpu, made, want>>

\* Nothing is to be done when neither surface has pixels.
DrawNothing(t) ==
  LET a == arg[t] IN
  /\ pc[t] = "lock" /\ Free(a.dst, t)
  /\ a.clear /\ link[a.dst] = None /\ ~data[a.dst]
  /\ Return(t)
  /\ UNCHANGED <<data, link, set_bg, map_cnt, lock, gpu, made, want>>

Drawing(t) == /\ pc[t] = "lock" /\ Free(arg[t].dst, t)
              /\ ~(arg[t].clear /\ link[arg[t].dst] = None /\ ~data[arg[t].dst])

\* The destination gets no pixels; a second attempt for one that showed a video
\* failed too.
DrawNoMemory(t) ==
  LET d == arg[t].dst IN
  /\ Drawing(t) /\ ~data[d] /\ NoMemoryFor(d)
  /\ link' = [link EXCEPT ![d] = None]
  /\ Return(t)
  /\ UNCHANGED <<data, set_bg, map_cnt, lock, gpu, made, want>>

Drawn(t) == want' = [want EXCEPT ![arg[t].dst] = Asked(arg[t])]

\* A clear by the engine, or if it refuses by pixman, or by neither when the
\* surface cannot be mapped.
Clear(t) ==
  LET a == arg[t]
      r == TargetOf(a.rects)
  IN  /\ Drawing(t) /\ (a.src = None \/ a.clear)
      /\ \E x \in Prepared(a.dst) :
           /\ Becomes(a.dst, x)
           /\ \/ /\ Painting(ClearRect(Asking(x.gpu, <<>>), NewBuffer(a.dst),
                                       IF a.clear THEN Unpainted ELSE "white", r))
                 /\ Drawn(t)
              \/ /\ MayRefuse(a)
                 /\ Painting([x.gpu EXCEPT !.pix[a.dst] =
                                Painted(@, Area(r), Plain("white"))])
                 /\ Drawn(t)
              \/ map_cnt[a.dst] = 0 /\ Painting(x.gpu) /\ UNCHANGED want
      /\ Return(t)
      /\ UNCHANGED <<map_cnt, lock, made>>

\* The destination is resolved and stays locked while the source is fetched.
PrepareTarget(t) ==
  LET a == arg[t] IN
  /\ Drawing(t) /\ a.src # None /\ ~a.clear
  /\ \E x \in Prepared(a.dst) : Becomes(a.dst, x) /\ Painting(x.gpu)
  /\ IF a.blend = "unversioned"
     THEN Return(t) /\ UNCHANGED lock
     ELSE /\ Goto(t, "paint") /\ UNCHANGED arg
          /\ lock' = [lock EXCEPT ![a.dst] = t]
  /\ UNCHANGED <<map_cnt, made, want>>

ByEngine(a) == ~NeedsRotate(a) \/ a.hw_rotate

\* What the engines say is only logged: VDP_STATUS_OK is returned.
EngineDrew(t, g) ==
  /\ Painting(g)
  /\ IF g.status = "refused" THEN UNCHANGED want ELSE Drawn(t)
  /\ Unlocked(t) /\ Return(t)

\* Blending by the 3D engine; the source is resolved first.
Blend(t) ==
  LET a == arg[t] IN
  /\ pc[t] = "paint" /\ ByEngine(a) /\ a.blend = "over" /\ Free(a.src, t)
  /\ \/ \E x \in Transfers(a.src), colored, taken \in BOOLEAN :
          /\ Becomes(a.src, x)
          /\ IF x.has \/ ~taken
             THEN EngineDrew(t, BlendSurface(Asking(x.gpu, <<taken>>),
                                  NewBuffer(a.src), NewBuffer(a.dst),
                                  SourceOf(a.rects), TargetOf(a.rects), colored))
             ELSE Crash /\ UNCHANGED <<gpu, want, lock, arg>>
     \/ /\ Fails(a.src) /\ Unlocked(t) /\ Return(t)
        /\ UNCHANGED <<data, link, set_bg, gpu, want>>
  /\ UNCHANGED <<map_cnt, made>>

\* The video is rotated to the destination, by up to three jobs of which the
\* first refused is the last. What the link says of the source area's position
\* is not passed on. Without memory for the first buffer, the call returns with
\* the destination locked.
RotateVideo(t) ==
  LET a == arg[t]
      shown == SourceOf(link[a.src])
  IN  /\ pc[t] = "paint" /\ a.hw_rotate /\ Free(a.src, t)
      /\ \/ \E answers \in {<<>>, <<FALSE>>, <<TRUE, FALSE>>, <<TRUE, TRUE, FALSE>>} :
              EngineDrew(t, IF Shows(a.src)
                            THEN RotateSurface(Asking(gpu, answers), Video,
                                   NewBuffer(a.dst), a.rotate,
                                   Rect(0, 0, shown.w, shown.h), TargetOf(a.rects))
                            ELSE Rejected(Asking(gpu, answers)))
         \/ /\ "rotate_memory" \in Admits /\ Shows(a.src)
            /\ Return(t) /\ UNCHANGED <<gpu, want, lock>>
      /\ UNCHANGED <<data, link, set_bg, map_cnt, made>>

\* A plain copy reads the source as it is, without its lock.
Copy(t) ==
  LET a == arg[t] IN
  /\ pc[t] = "paint" /\ ~NeedsRotate(a) /\ a.blend # "over"
  /\ \E taken \in BOOLEAN :
       EngineDrew(t, SurfaceBlit(Asking(gpu, <<taken>>), BufferOf(a.src),
                       NewBuffer(a.dst), SourceOf(a.rects), TargetOf(a.rects)))
  /\ UNCHANGED <<data, link, set_bg, map_cnt, made>>

\* The rest is pixman's: both surfaces are mapped, the destination first. A
\* failure to map what no other call has mapped ends the call.
MapTarget(t) ==
  LET a == arg[t] IN
  /\ pc[t] = "paint" /\ ~ByEngine(a)
  /\ \/ /\ map_cnt' = [map_cnt EXCEPT ![a.dst] = @ + 1]
        /\ Goto(t, "map_source") /\ UNCHANGED <<arg, lock>>
     \/ /\ map_cnt[a.dst] = 0
        /\ Unlocked(t) /\ Return(t) /\ UNCHANGED map_cnt
  /\ UNCHANGED <<data, link, set_bg, gpu, made, want>>

\* Mutant: a source that cannot be mapped leaves the destination mapped, too.
MapSourceLeaking(t) ==
  LET a == arg[t] IN
  /\ pc[t] = "map_source" /\ Free(a.src, t)
  /\ \/ \E x \in Transfers(a.src) :
          /\ Becomes(a.src, x) /\ Painting(x.gpu)
          /\ \/ /\ map_cnt' = [map_cnt EXCEPT ![a.src] = @ + 1]
                /\ IF x.has THEN Goto(t, "composite") ELSE Crash
                /\ UNCHANGED <<arg, lock>>
             \/ /\ map_cnt[a.src] = 0
                /\ UNCHANGED map_cnt
                /\ Unlocked(t) /\ Return(t)
     \/ /\ Fails(a.src) /\ Unlocked(t) /\ Return(t)
        /\ UNCHANGED <<data, link, set_bg, gpu, map_cnt>>
  /\ UNCHANGED <<made, want>>

\* The source is resolved and mapped. When its transfer fails, the destination
\* stays mapped; when it lost its video, mapping it follows its lost pixels or
\* fails with what is left of them.
MapSource(t) ==
  LET a == arg[t] IN
  /\ pc[t] = "map_source" /\ Free(a.src, t)
  /\ \/ \E x \in Transfers(a.src) :
          /\ Becomes(a.src, x) /\ Painting(x.gpu)
          /\ \/ /\ map_cnt' = [map_cnt EXCEPT ![a.src] = @ + 1]
                /\ IF x.has THEN Goto(t, "composite") ELSE Crash
                /\ UNCHANGED <<arg, lock>>
             \/ /\ map_cnt[a.src] = 0
                /\ map_cnt' = [map_cnt EXCEPT ![a.dst] = @ - 1]
                /\ Unlocked(t) /\ Return(t)
     \/ /\ Fails(a.src) /\ Unlocked(t) /\ Return(t)
        /\ UNCHANGED <<data, link, set_bg, gpu, map_cnt>>
  /\ UNCHANGED <<made, want>>

\* Mutant: the source is unmapped twice, the destination never.
CompositeUnmap(t) ==
  LET a == arg[t] IN
  /\ pc[t] = "composite" /\ Free(a.src, t)
  /\ Painting([gpu EXCEPT !.pix[a.dst] =
       Painted(@, Area(TargetOf(a.rects)),
               Turned(InksIn(gpu.pix[a.src], SourceOf(a.rects)), a.rotate))])
  /\ map_cnt' = [map_cnt EXCEPT ![a.src] = @ - 2]
  /\ Drawn(t) /\ Unlocked(t) /\ Return(t)
  /\ UNCHANGED <<data, link, set_bg, made>>

\* pixman_image_composite, unless the source's area gets no image of its own,
\* and both surfaces unmapped.
Composite(t) ==
  LET a == arg[t] IN
  /\ pc[t] = "composite" /\ Free(a.src, t)
  /\ \/ /\ Painting([gpu EXCEPT !.pix[a.dst] =
             Painted(@, Area(TargetOf(a.rects)),
                     Turned(InksIn(gpu.pix[a.src], SourceOf(a.rects)), a.rotate))])
        /\ Drawn(t)
     \/ UNCHANGED <<gpu, want>>
  /\ map_cnt' = [map_cnt EXCEPT ![a.dst] = @ - 1, ![a.src] = @ - 1]
  /\ Unlocked(t) /\ Return(t)
  /\ UNCHANGED <<data, link, set_bg, made>>

-----------------------------------------------------------------------------
(* vdp_bitmap_surface_put_bits_native, vdp_output_surface_put_bits_native,  *)
(* vdp_video_mixer_render: one lock is enough for each, and these calls do  *)
(* not touch a surface that a drawing is using, unless "opposed".           *)

MayWrite(s) == "opposed" \in Admits \/ Reading(s) \cup Writing(s) = {}

PutBits(s, r) ==
  /\ made < MaxCalls /\ Running /\ MayWrite(s) /\ lock[s] = None
  /\ \/ \E x \in Transfers(s) :
          /\ Becomes(s, x)
          /\ \/ /\ x.has /\ UNCHANGED pc
                /\ Painting([x.gpu EXCEPT !.pix[s] = Painted(@, Area(r), Plain("bits"))])
                /\ want' = [want EXCEPT ![s] = Painted(@, Area(r), Plain("bits"))]
             \/ ~x.has /\ Crash /\ Painting(x.gpu) /\ UNCHANGED want
             \/ map_cnt[s] = 0 /\ Painting(x.gpu) /\ UNCHANGED <<want, pc>>
     \/ Fails(s) /\ UNCHANGED <<data, link, set_bg, gpu, want, pc>>
  /\ made' = made + 1
  /\ UNCHANGED <<map_cnt, lock, arg>>

\* What a mixed picture is: the video, around it the background.
Mixed(p, background) ==
  Painted([c \in Area(Whole) |-> background], Area(TargetOf(p)),
          InksIn(gpu.pix[Video.bo], SourceOf(p)))

\* create_shared_surface: the output surface shows the video itself, and lets
\* its own pixels go.
MixShare(d, p) ==
  /\ \A o \in Outputs \ {d} : link[o] = None
  /\ link' = [link EXCEPT ![d] = p]
  /\ set_bg' = [set_bg EXCEPT ![d] = TargetOf(p) # Whole]
  /\ data' = [data EXCEPT ![d] = FALSE]
  /\ UNCHANGED gpu

\* No sharing: the background around the video, or a picture under it, and the
\* video, all by the engine. A refusal is only logged.
MixBlit(d, p, under) ==
  \E answers \in VideoAnswers :
    LET new == Asking(Allocated(gpu, d), answers)
        bg  == IF under = None
               THEN ClearAround(new, NewBuffer(d), "background", Whole, TargetOf(p))
               ELSE SurfaceBlit(new, BufferOf(under), NewBuffer(d), Whole, Whole)
    IN  /\ link' = [link EXCEPT ![d] = None]
        /\ set_bg' = [set_bg EXCEPT ![d] = FALSE]
        /\ data' = [data EXCEPT ![d] = TRUE]
        /\ Painting(SurfaceBlit(bg, Video, NewBuffer(d), SourceOf(p), TargetOf(p)))

\* No memory for its pixels: a video that the surface showed is lost. set_bg
\* stays set when no area was named for the background color.
MixNoMemory(d, p) ==
  /\ ~data[d] /\ NoMemoryFor(d)
  /\ link' = [link EXCEPT ![d] = None]
  /\ \E bg \in {FALSE, TargetOf(p) # Whole} : set_bg' = [set_bg EXCEPT ![d] = bg]
  /\ UNCHANGED <<data, gpu>>

\* shared_surface_kill_disp comes first. A background picture, or a background
\* color in an area the caller named, is painted at once and rules sharing out.
Mix(d, p) ==
  /\ made < MaxCalls /\ Running /\ MayWrite(d) /\ lock[d] = None
  /\ \/ /\ MixShare(d, p) \/ MixBlit(d, p, None)
        /\ want' = [want EXCEPT ![d] = Mixed(p, Plain("background"))]
     \/ \E under \in Bitmaps :
          /\ TargetOf(p) # Whole /\ lock[under] = None
          /\ MixBlit(d, p, under)
          /\ want' = [want EXCEPT ![d] = Mixed(p, InksIn(want[under], Whole))]
     \/ MixNoMemory(d, p) /\ UNCHANGED want
  /\ made' = made + 1
  /\ UNCHANGED <<map_cnt, lock, pc, arg>>

-----------------------------------------------------------------------------

DrawStep(t) ==
  \/ CheckSource(t) \/ ProbeRotation(t) \/ DrawNothing(t) \/ DrawNoMemory(t)
  \/ Clear(t) \/ PrepareTarget(t) \/ Blend(t) \/ RotateVideo(t) \/ Copy(t)
  \/ MapTarget(t) \/ MapSource(t) \/ Composite(t)

Next ==
  \/ \E t \in Threads : BeginDraw(t) \/ DrawStep(t)
  \/ \E s \in Drawables, p \in Rects : PutBits(s, TargetOf(p))
  \/ \E d \in Outputs, p \in Rects : Mix(d, p)

Spec == Init /\ [][Next]_vars

\* The lock a call takes next, or one it has.
Awaited(t) ==
  IF \/ pc[t] \in {"check", "map_source", "composite"}
     \/ pc[t] = "paint" /\ ByEngine(arg[t])
        /\ (arg[t].hw_rotate \/ arg[t].blend = "over")
  THEN arg[t].src ELSE arg[t].dst

\* Every DrawStep(t) moves pc[t], and one is enabled when that lock is free.
Moves(t) ==
  /\ pc[t] \notin {"idle", "crashed"} /\ Free(Awaited(t), t)
  /\ \E step \in Steps \ {pc[t], "crashed"} : pc' = [pc EXCEPT ![t] = step]

\* A thread that can take the lock it waits for, takes it in the end.
FairSpec == Spec /\ \A t \in Threads : WF_pc(Moves(t))

-----------------------------------------------------------------------------
(* Properties.                                                             *)

\* A call draws all that it was asked to or nothing: nothing when it returns an
\* error, and nothing when the engine refuses a job of its own, which is only
\* logged (the call returns VDP_STATUS_OK). Else the picture is right, whichever
\* of the engine, the scaler, the blender and pixman made it, in one pass or two,
\* whatever was left in their registers, and whether the surfaces had pixels,
\* none, or showed a video.
DrawnAsAsked == \A s \in Drawables : View(s) = want[s]

\* A lock or a mapping of a surface belongs to a call that is under way: of its
\* many returns, no one keeps either, and no one gives back what another call
\* has. Two do keep one, and only lifted rules reach them: a rotation without
\* memory a lock, a source without pixels the mapping of the destination.
NothingLeftHeld ==
  /\ \A s \in Drawables, t \in Threads :
       lock[s] = t => pc[t] # "idle" /\ s \in {arg[t].dst, arg[t].src}
  /\ \A s \in Drawables :
       map_cnt[s] =
         Cardinality({t \in Threads : pc[t] \in {"map_source", "composite"}
                                      /\ arg[t].dst = s})
         + Cardinality({t \in Threads : pc[t] = "composite" /\ arg[t].src = s})

\* Every call returns: the locks of two surfaces that calls take in either
\* order never end in a cycle.
CallsReturn == \A t \in Threads : pc[t] # "idle" ~> pc[t] = "idle"
=============================================================================
