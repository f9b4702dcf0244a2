------------------------------ MODULE Surfaces ------------------------------
(***************************************************************************)
(* Lifetime of VDPAU surfaces: the handle table of vdpau_tegra.c, the      *)
(* reference counts of surface.c, the decoder's surface cache of           *)
(* surface_cache.c and the video/output links of surface_shared.c, driven  *)
(* by the API calls of decoder.c, surface_video.c, surface_mixer.c,        *)
(* surface_output.c and the display thread.                                *)
(*                                                                         *)
(* The grain is one action per critical section; reference counts a call   *)
(* adjusts on its own between two sections join the section before.        *)
(* Pixels are left to FramePipeline, which adds them to these actions.     *)
(***************************************************************************)
EXTENDS Integers, FiniteSets

CONSTANTS
  Threads,            \* application threads and the presentation thread
  Videos, Outputs,    \* addresses of surface objects, by SURFACE_* flag
  Links,              \* addresses of tegra_shared_surface objects
  Slots,              \* indices of tegra_surfaces[]: handles
  NoSlot,             \* MAX_SURFACES_NB, the id of a surface in no slot
  StatusResources,    \* VDP_STATUS_RESOURCES, what a failed create returns;
                      \* kept apart from the slots, though 23 indexes one too
  None,               \* NULL
  AllocMayFail,       \* whether an allocation may fail
  KeepsLinkedVideo    \* whether the application keeps a video surface until
                      \* no output surface refers to it any more

Surfaces == Videos \cup Outputs

ASSUME SurfacesAssumption ==
  /\ Videos \cap Outputs = {}
  /\ NoSlot \notin Slots /\ StatusResources \notin Slots
  /\ None \notin Surfaces \cup Links \cup Threads
  /\ IsFiniteSet(Threads)
  /\ AllocMayFail \in BOOLEAN
  /\ KeepsLinkedVideo \in BOOLEAN

VARIABLES
  table,      \* tegra_surfaces[]
  refcnt,     \* surf->refcnt; an object is allocated while it is positive
  id,         \* surf->surface_id
  destroyed,  \* surf->destroyed
  detached,   \* surf->detached
  shared,     \* surf->shared
  cache,      \* the surfaces on the decoder's surf_cache
  link,       \* tegra_shared_surface objects
  lock,       \* the thread inside an output surface's surf->lock
  call, pc,   \* the API call each thread is in, and where
  vid, out,   \* the call's video and output surface pointers
  hold,       \* the link it has referenced
  open        \* handles the application was given and did not destroy

vars == <<table, refcnt, id, destroyed, detached, shared, cache, link, lock,
          call, pc, vid, out, hold, open>>

Calls == {"none", "decode", "put_bits", "mix", "draw", "display", "create",
          "destroy"}

Steps == {"idle", "created", "fetched", "swapped", "writing", "mix_fetched",
          "composing", "draw_fetched", "drawing", "destroying", "unref"}

NoLink == [refcnt |-> 0, video |-> None, disp |-> None]

TypeOK ==
  /\ table \in [Slots -> Surfaces \cup {None}]
  /\ refcnt \in [Surfaces -> Int]
  /\ id \in [Surfaces -> Slots \cup {NoSlot}]
  /\ destroyed \in [Surfaces -> BOOLEAN]
  /\ detached \in [Surfaces -> BOOLEAN]
  /\ shared \in [Surfaces -> Links \cup {None}]
  /\ cache \in SUBSET Videos
  /\ link \in [Links -> [refcnt : Int, video : Videos \cup {None},
                         disp : Outputs \cup {None}]]
  /\ lock \in [Outputs -> Threads \cup {None}]
  /\ call \in [Threads -> Calls]
  /\ pc \in [Threads -> Steps]
  /\ vid \in [Threads -> Videos \cup {None}]
  /\ out \in [Threads -> Outputs \cup {None}]
  /\ hold \in [Threads -> Links \cup {None}]
  /\ open \in SUBSET (Slots \cup {StatusResources})

Init ==
  /\ table = [h \in Slots |-> None]
  /\ refcnt = [s \in Surfaces |-> 0]
  /\ id = [s \in Surfaces |-> NoSlot]
  /\ destroyed = [s \in Surfaces |-> TRUE]
  /\ detached = [s \in Surfaces |-> FALSE]
  /\ shared = [s \in Surfaces |-> None]
  /\ cache = {}
  /\ link = [l \in Links |-> NoLink]
  /\ lock = [d \in Outputs |-> None]
  /\ call = [t \in Threads |-> "none"]
  /\ pc = [t \in Threads |-> "idle"]
  /\ vid = [t \in Threads |-> None]
  /\ out = [t \in Threads |-> None]
  /\ hold = [t \in Threads |-> None]
  /\ open = {}

-----------------------------------------------------------------------------
(* Helpers.                                                                *)

Bit(p) == IF p THEN 1 ELSE 0

\* get_surface: the surface a handle resolves to.
Lookup(h) ==
  IF h \in Slots /\ table[h] # None /\ ~destroyed[table[h]]
  THEN table[h] ELSE None

\* The counts become rc; a surface whose count reaches zero is freed, and
\* the last unref_surface clears the one slot that surface_id names.
Settle(rc, tab, ids) ==
  LET gone == {s \in Surfaces : refcnt[s] > 0 /\ rc[s] = 0}
  IN  /\ refcnt' = rc
      /\ table' = [h \in Slots |->
                     IF tab[h] \in gone /\ ids[tab[h]] = h THEN None ELSE tab[h]]
      /\ id' = [s \in Surfaces |-> IF s \in gone THEN NoSlot ELSE ids[s]]

\* unref_shared_surface: dropping n references to link l drops the link's own
\* references to its two surfaces with the last of them.
LastOf(l, n) == l # None /\ link[l].refcnt = n
LinkAfterOneUnref(l, n) ==  \* mutant: transfer_video unrefs its own reference only
  IF l = None THEN link
  ELSE IF LastOf(l, 1) THEN [link EXCEPT ![l] = NoLink]
                       ELSE [link EXCEPT ![l].refcnt = @ - 1]
LinkAfter(l, n) ==
  IF l = None THEN link
  ELSE IF LastOf(l, n) THEN [link EXCEPT ![l] = NoLink]
                       ELSE [link EXCEPT ![l].refcnt = @ - n]
LinkDropVideoOnly(l, n, s) == Bit(LastOf(l, n) /\ s = link[l].video)  \* mutant
LinkDrop(l, n, s) == Bit(LastOf(l, n) /\ s \in {link[l].video, link[l].disp})

\* Mutant of BreakLink: it leaves video->shared set.
BreakLinkHalf(l) ==
  IF l = None THEN UNCHANGED <<shared, detached>>
  ELSE /\ shared' = [shared EXCEPT ![link[l].disp] = None]
       /\ detached' = [detached EXCEPT ![link[l].video] = FALSE]

\* shared_surface_break_link_locked: a video surface that was detached while
\* it was displayed becomes reusable here.
BreakLink(l) ==
  IF l = None THEN UNCHANGED <<shared, detached>>
  ELSE LET v == link[l].video
       IN  /\ shared' = [shared EXCEPT ![v] = None, ![link[l].disp] = None]
           /\ detached' = [detached EXCEPT ![v] = FALSE]

\* Mutant: break_link marks the video surface destroyed, detached or not.
ReusableAlways(l) ==
  [s \in Surfaces |-> destroyed[s] \/ (l # None /\ s = link[l].video)]

\* What break_link makes of the destroyed flags.
Reusable(l) ==
  [s \in Surfaces |-> \/ destroyed[s]
                      \/ l # None /\ s = link[l].video /\ detached[s]]

\* alloc_surface for a video surface: reuse a cached one that is destroyed,
\* else allocate, dropping the caches and trying once more when that fails.
\* n is the result, dropped what the caches lost.
CacheHits == {s \in cache : destroyed[s]}
AllocVideo(n, dropped) ==
  \/ n \in CacheHits /\ dropped = {}
  \/ /\ CacheHits = {}
     /\ n \in {s \in Videos : refcnt[s] = 0}
     /\ dropped = {} \/ (AllocMayFail /\ dropped = cache)

\* The application's own rules: a call that writes or destroys a surface has
\* it for itself, and nothing is read while it is written. The display thread
\* is not the application: it has its own reference to a queued surface.
Users(s) == {t \in Threads : s \in {vid[t], out[t]} /\ pc[t] # "unref"}
Readable(s) == \A t \in Users(s) : call[t] \in {"mix", "draw", "display"}
Destroyable(s) == \A t \in Users(s) : call[t] = "display"

Idle(t) == pc[t] = "idle"
Enter(t, c, step) ==
  /\ call' = [call EXCEPT ![t] = c]
  /\ pc' = [pc EXCEPT ![t] = step]
Goto(t, step) == pc' = [pc EXCEPT ![t] = step] /\ UNCHANGED call
Return(t) ==
  /\ call' = [call EXCEPT ![t] = "none"]
  /\ pc' = [pc EXCEPT ![t] = "idle"]
  /\ vid' = [vid EXCEPT ![t] = None]
  /\ out' = [out EXCEPT ![t] = None]
  /\ hold' = [hold EXCEPT ![t] = None]

-----------------------------------------------------------------------------
(* vdp_*_surface_create                                                    *)

\* alloc_surface. Output surfaces are never in a cache.
CreateVideo(t) ==
  /\ Idle(t)
  /\ \E n \in Videos, dropped \in SUBSET cache :
       /\ AllocVideo(n, dropped)
       /\ cache' = cache \ (dropped \cup {n})
       /\ Settle([s \in Surfaces |-> IF s = n /\ refcnt[n] = 0 THEN 1
                                     ELSE refcnt[s] - Bit(s \in dropped)],
                 table, id)
       /\ destroyed' = [destroyed EXCEPT ![n] = FALSE]
       /\ vid' = [vid EXCEPT ![t] = n]
  /\ Enter(t, "create", "created")
  /\ UNCHANGED <<detached, shared, link, lock, out, hold, open>>

CreateOutput(t) ==
  /\ Idle(t)
  /\ \E n \in {s \in Outputs : refcnt[s] = 0} :
       /\ refcnt' = [refcnt EXCEPT ![n] = 1]
       /\ destroyed' = [destroyed EXCEPT ![n] = FALSE]
       /\ out' = [out EXCEPT ![t] = n]
  /\ Enter(t, "create", "created")
  /\ UNCHANGED <<table, id, detached, shared, cache, link, lock, vid, hold, open>>

\* create_surface returns VDP_STATUS_RESOURCES in place of a handle when
\* alloc_surface fails, and its callers check for VDP_INVALID_HANDLE only.
CreateFail(t) ==
  /\ Idle(t) /\ AllocMayFail /\ CacheHits = {}
  /\ \E dropped \in {{}, cache} :
       /\ cache' = cache \ dropped
       /\ Settle([s \in Surfaces |-> refcnt[s] - Bit(s \in dropped)], table, id)
  /\ open' = open \cup {StatusResources}
  /\ UNCHANGED <<destroyed, detached, shared, link, lock, call, pc, vid, out, hold>>

Created(t) == IF vid[t] # None THEN vid[t] ELSE out[t]

\* The rest of create_surface: take any free slot, under global_lock.
Register(t) ==
  /\ pc[t] = "created"
  /\ \E h \in {h \in Slots : table[h] = None} :
       /\ table' = [table EXCEPT ![h] = Created(t)]
       /\ id' = [id EXCEPT ![Created(t)] = h]
       /\ open' = open \cup {h}
  /\ Return(t)
  /\ UNCHANGED <<refcnt, destroyed, detached, shared, cache, link, lock>>

\* Mutant: the result of get_unused_surface_id is not checked.
RegisterUnchecked(t) ==
  /\ pc[t] = "created" /\ \A h \in Slots : table[h] # None
  /\ open' = open \cup {NoSlot}
  /\ Return(t)
  /\ UNCHANGED <<table, refcnt, id, destroyed, detached, shared, cache, link, lock>>

\* No slot: create_surface calls destroy_surface and reports the error.
RegisterFail(t) ==
  /\ pc[t] = "created"
  /\ \A h \in Slots : table[h] # None
  /\ Goto(t, "destroying")
  /\ UNCHANGED <<table, refcnt, id, destroyed, detached, shared, cache, link,
                 lock, vid, out, hold, open>>

-----------------------------------------------------------------------------
(* vdp_decoder_render and vdp_video_surface_put_bits_y_cb_cr               *)

\* get_surface_video on a handle the application owns.
FetchTarget(t, c) ==
  /\ Idle(t)
  /\ \E h \in open :
       /\ Lookup(h) \in Videos /\ Users(Lookup(h)) = {}
       /\ vid' = [vid EXCEPT ![t] = Lookup(h)]
       /\ refcnt' = [refcnt EXCEPT ![Lookup(h)] = @ + 1]
  /\ Enter(t, c, "fetched")
  /\ UNCHANGED <<table, id, destroyed, detached, shared, cache, link, lock,
                 out, hold, open>>

\* The bitstream could not be copied, or the format is not supported.
WriteRejected(t) ==
  /\ pc[t] = "fetched"
  /\ Settle([refcnt EXCEPT ![vid[t]] = @ - 1], table, id)
  /\ Return(t)
  /\ UNCHANGED <<destroyed, detached, shared, cache, link, lock, open>>

\* Mutant: the surface is written in place, shown or not.
SwapNever(t) ==
  /\ pc[t] = "fetched"
  /\ Goto(t, "swapped")
  /\ UNCHANGED <<table, refcnt, id, destroyed, detached, shared, cache, link,
                 lock, vid, out, hold, open>>

\* shared_surface_swap_video: nothing to do while no output refers to it.
SwapUnshared(t) ==
  /\ pc[t] = "fetched" /\ shared[vid[t]] = None
  /\ Goto(t, "swapped")
  /\ UNCHANGED <<table, refcnt, id, destroyed, detached, shared, cache, link,
                 lock, vid, out, hold, open>>

\* shared_surface_swap_video: a new surface takes over the handle, the old one
\* is detached and loses the handle's reference and the caller's.
SwapShared(t) ==
  LET v == vid[t] IN
  /\ pc[t] = "fetched" /\ shared[v] # None
  /\ \E n \in Videos, dropped \in SUBSET cache :
       /\ AllocVideo(n, dropped)
       /\ cache' = cache \ (dropped \cup {n})
       /\ Settle([s \in Surfaces |->
                     IF s = n THEN (IF refcnt[n] = 0 THEN 2 ELSE refcnt[n] + 1)
                     ELSE IF s = v THEN refcnt[v] - 2 - Bit(v \in dropped)
                     ELSE refcnt[s] - Bit(s \in dropped)],
                 IF id[v] \in Slots THEN [table EXCEPT ![id[v]] = n] ELSE table,
                 IF id[v] \in Slots THEN [id EXCEPT ![n] = id[v], ![v] = NoSlot]
                                    ELSE id)
       /\ destroyed' = [destroyed EXCEPT ![n] = FALSE]
       /\ detached' = [detached EXCEPT ![v] = TRUE]
       /\ vid' = [vid EXCEPT ![t] = n]
  /\ Goto(t, "swapped")
  /\ UNCHANGED <<shared, link, lock, out, hold, open>>

\* shared_surface_swap_video with no memory for a new surface: new = old.
SwapFail(t) ==
  /\ pc[t] = "fetched" /\ shared[vid[t]] # None
  /\ AllocMayFail /\ CacheHits = {}
  /\ \E dropped \in {{}, cache} :
       /\ cache' = cache \ dropped
       /\ Settle([s \in Surfaces |-> refcnt[s] - Bit(s \in dropped)], table, id)
  /\ Goto(t, "swapped")
  /\ UNCHANGED <<destroyed, detached, shared, link, lock, vid, out, hold, open>>

\* tegra_surface_cache_surface_self_remove; put_bits goes straight to writing.
BeginWrite(t) ==
  /\ pc[t] = "swapped"
  /\ IF call[t] = "decode" /\ vid[t] \in cache
     THEN /\ cache' = cache \ {vid[t]}
          /\ Settle([refcnt EXCEPT ![vid[t]] = @ - 1], table, id)
     ELSE UNCHANGED <<cache, refcnt, table, id>>
  /\ Goto(t, "writing")
  /\ UNCHANGED <<destroyed, detached, shared, link, lock, vid, out, hold, open>>

\* tegra_surface_cache_add_surface, which evicts what expired, and put_surface.
FinishDecode(t) ==
  LET v == vid[t] IN
  /\ pc[t] = "writing" /\ call[t] = "decode"
  /\ \E expired \in SUBSET (CacheHits \ {v}) :
       /\ cache' = (cache \cup {v}) \ expired
       /\ Settle([s \in Surfaces |->
                     IF s = v THEN refcnt[v] + Bit(v \notin cache) - 1
                     ELSE refcnt[s] - Bit(s \in expired)], table, id)
  /\ Return(t)
  /\ UNCHANGED <<destroyed, detached, shared, link, lock, open>>

FinishPutBits(t) ==
  /\ pc[t] = "writing" /\ call[t] = "put_bits"
  /\ Settle([refcnt EXCEPT ![vid[t]] = @ - 1], table, id)
  /\ Return(t)
  /\ UNCHANGED <<destroyed, detached, shared, cache, link, lock, open>>

-----------------------------------------------------------------------------
(* vdp_video_mixer_render                                                  *)

FetchMix(t) ==
  /\ Idle(t)
  /\ \E hv, ho \in open :
       /\ Lookup(hv) \in Videos /\ Readable(Lookup(hv))
       /\ Lookup(ho) \in Outputs /\ Readable(Lookup(ho))
       /\ vid' = [vid EXCEPT ![t] = Lookup(hv)]
       /\ out' = [out EXCEPT ![t] = Lookup(ho)]
       /\ refcnt' = [refcnt EXCEPT ![Lookup(hv)] = @ + 1, ![Lookup(ho)] = @ + 1]
  /\ Enter(t, "mix", "mix_fetched")
  /\ UNCHANGED <<table, id, destroyed, detached, shared, cache, link, lock,
                 hold, open>>

\* Under dest_surf->lock from here to the end: shared_surface_kill_disp first
\* drops the picture that the output surface shared with a video surface.
MixLock(t) ==
  LET d == out[t]
      l == shared[d]
  IN  /\ pc[t] = "mix_fetched" /\ lock[d] = None
      /\ lock' = [lock EXCEPT ![d] = t]
      /\ destroyed' = Reusable(l)
      /\ BreakLink(l)
      /\ link' = LinkAfter(l, 1)
      /\ Settle([s \in Surfaces |-> refcnt[s] - LinkDrop(l, 1, s)], table, id)
      /\ Goto(t, "composing")
      /\ UNCHANGED <<cache, vid, out, hold, open>>

\* put_surface on both surfaces, after the lock is released.
MixReturn(t, rc) ==
  /\ lock' = [lock EXCEPT ![out[t]] = None]
  /\ Settle([s \in Surfaces |-> rc[s] - Bit(s \in {vid[t], out[t]})], table, id)
  /\ Return(t)

\* Mutant: create_shared_surface does not ref_surface(video).
MixShareUnreferenced(t) ==
  /\ pc[t] = "composing" /\ shared[out[t]] = None /\ shared[vid[t]] = None
  /\ \E l \in {l \in Links : link[l].refcnt = 0} :
       /\ link' = [link EXCEPT ![l] = [refcnt |-> 1, video |-> vid[t], disp |-> out[t]]]
       /\ shared' = [shared EXCEPT ![vid[t]] = l, ![out[t]] = l]
  /\ MixReturn(t, [refcnt EXCEPT ![out[t]] = @ + 1])
  /\ UNCHANGED <<destroyed, detached, cache, open>>

\* create_shared_surface: the output surface shows the video surface itself.
MixShare(t) ==
  LET v == vid[t]
      d == out[t]
  IN  /\ pc[t] = "composing"
      /\ shared[d] = None /\ shared[v] = None
      /\ \E l \in {l \in Links : link[l].refcnt = 0} :
           /\ link' = [link EXCEPT ![l] = [refcnt |-> 1, video |-> v, disp |-> d]]
           /\ shared' = [shared EXCEPT ![v] = l, ![d] = l]
      /\ MixReturn(t, [refcnt EXCEPT ![v] = @ + 1, ![d] = @ + 1])
      /\ UNCHANGED <<destroyed, detached, cache, open>>

\* No sharing (a second user of the video, a custom CSC, a background, a scale
\* Xv cannot do, no XvImage): the video is blitted, or nothing is for want of
\* memory. The lifetimes are the same.
MixBlit(t) ==
  /\ pc[t] = "composing"
  /\ MixReturn(t, refcnt)
  /\ UNCHANGED <<destroyed, detached, shared, cache, link, open>>

-----------------------------------------------------------------------------
(* Drawing on an output surface (render_bitmap_surface, put_bits_native) and  *)
(* displaying it (pqt_display_surface).                                     *)

FetchOutput(t, c) ==
  /\ Idle(t)
  /\ \E h \in open :
       /\ Lookup(h) \in Outputs /\ Readable(Lookup(h))
       /\ out' = [out EXCEPT ![t] = Lookup(h)]
       /\ refcnt' = [refcnt EXCEPT ![Lookup(h)] = @ + 1]
  /\ Enter(t, c, "draw_fetched")
  /\ UNCHANGED <<table, id, destroyed, detached, shared, cache, link, lock,
                 vid, hold, open>>

\* shared_surface_transfer_video references the link it is about to resolve.
DrawLock(t) ==
  LET d == out[t]
      l == shared[d]
  IN  /\ pc[t] = "draw_fetched" /\ lock[d] = None
      /\ lock' = [lock EXCEPT ![d] = t]
      /\ IF call[t] = "draw" /\ l # None
         THEN /\ hold' = [hold EXCEPT ![t] = l]
              /\ link' = [link EXCEPT ![l].refcnt = @ + 1]
         ELSE UNCHANGED <<hold, link>>
      /\ Goto(t, "drawing")
      /\ UNCHANGED <<table, refcnt, id, destroyed, detached, shared, cache, vid,
                     out, open>>

\* The video is blitted (or, without memory, lost), the link broken and both
\* references to it dropped; then the drawing is done and the call returns.
DrawDone(t) ==
  LET l == hold[t] IN
  /\ pc[t] = "drawing" /\ call[t] = "draw"
  /\ destroyed' = Reusable(l)
  /\ BreakLink(l)
  /\ link' = LinkAfter(l, 2)
  /\ lock' = [lock EXCEPT ![out[t]] = None]
  /\ Settle([s \in Surfaces |-> refcnt[s] - LinkDrop(l, 2, s) - Bit(s = out[t])],
            table, id)
  /\ Return(t)
  /\ UNCHANGED <<cache, open>>

DisplayDone(t) ==
  /\ pc[t] = "drawing" /\ call[t] = "display"
  /\ lock' = [lock EXCEPT ![out[t]] = None]
  /\ Settle([refcnt EXCEPT ![out[t]] = @ - 1], table, id)
  /\ Return(t)
  /\ UNCHANGED <<destroyed, detached, shared, cache, link, open>>

\* alloc_surface_data on the output surface fails once: tegra_surface_drop_caches.
DropCaches(t) ==
  /\ AllocMayFail /\ cache # {}
  /\ pc[t] \in {"composing", "drawing"} /\ call[t] # "display"
  /\ cache' = {}
  /\ Settle([s \in Surfaces |-> refcnt[s] - Bit(s \in cache)], table, id)
  /\ UNCHANGED <<destroyed, detached, shared, link, lock, call, pc, vid, out,
                 hold, open>>

-----------------------------------------------------------------------------
(* vdp_*_surface_destroy, vdp_decoder_destroy                              *)

\* The surface is looked up and put; only its pointer is kept.
FetchDestroy(t) ==
  /\ Idle(t)
  /\ \E h \in open :
       /\ Lookup(h) # None /\ Destroyable(Lookup(h))
       /\ KeepsLinkedVideo /\ Lookup(h) \in Videos => shared[Lookup(h)] = None
       /\ IF Lookup(h) \in Videos
          THEN vid' = [vid EXCEPT ![t] = Lookup(h)] /\ UNCHANGED out
          ELSE out' = [out EXCEPT ![t] = Lookup(h)] /\ UNCHANGED vid
       /\ open' = open \ {h}
  /\ Enter(t, "destroy", "destroying")
  /\ UNCHANGED <<table, refcnt, id, destroyed, detached, shared, cache, link,
                 lock, hold>>

\* Mutant: destroy_surface leaves the link of an output surface alone.
MarkDestroyedLinked(t) ==
  /\ pc[t] = "destroying"
  /\ destroyed' = [destroyed EXCEPT ![Created(t)] = TRUE]
  /\ Goto(t, "unref")
  /\ UNCHANGED <<table, refcnt, id, detached, shared, cache, link, lock, vid, out,
                 hold, open>>

\* destroy_surface up to the final unref_surface, under surf->lock.
MarkDestroyed(t) ==
  LET s == Created(t)
      l == IF s \in Outputs THEN shared[s] ELSE None
  IN  /\ pc[t] = "destroying"
      /\ s \in Outputs => lock[s] = None
      /\ destroyed' = [Reusable(l) EXCEPT ![s] = TRUE]
      /\ BreakLink(l)
      /\ link' = LinkAfter(l, 1)
      /\ Settle([x \in Surfaces |-> refcnt[x] - LinkDrop(l, 1, x)], table, id)
      /\ Goto(t, "unref")
      /\ UNCHANGED <<cache, lock, vid, out, hold, open>>

FinishDestroy(t) ==
  /\ pc[t] = "unref"
  /\ Settle([refcnt EXCEPT ![Created(t)] = @ - 1], table, id)
  /\ Return(t)
  /\ UNCHANGED <<destroyed, detached, shared, cache, link, lock, open>>

\* The last unref_decoder: no render holds the decoder any more.
ReleaseCache ==
  /\ cache # {} /\ \A t \in Threads : call[t] # "decode"
  /\ cache' = {}
  /\ Settle([s \in Surfaces |-> refcnt[s] - Bit(s \in cache)], table, id)
  /\ UNCHANGED <<destroyed, detached, shared, link, lock, call, pc, vid, out,
                 hold, open>>

-----------------------------------------------------------------------------

CreateCall(t) ==
  CreateVideo(t) \/ CreateOutput(t) \/ CreateFail(t) \/ Register(t) \/ RegisterFail(t)

WriteCall(t) ==
  \/ \E c \in {"decode", "put_bits"} : FetchTarget(t, c)
  \/ WriteRejected(t) \/ SwapUnshared(t) \/ SwapShared(t) \/ SwapFail(t)
  \/ BeginWrite(t) \/ FinishDecode(t) \/ FinishPutBits(t)

MixCall(t) == FetchMix(t) \/ MixLock(t) \/ MixShare(t) \/ MixBlit(t)

OutputCall(t) ==
  \/ \E c \in {"draw", "display"} : FetchOutput(t, c)
  \/ DrawLock(t) \/ DrawDone(t) \/ DisplayDone(t) \/ DropCaches(t)

DestroyCall(t) == FetchDestroy(t) \/ MarkDestroyed(t) \/ FinishDestroy(t)

Next ==
  \/ \E t \in Threads : \/ CreateCall(t) \/ WriteCall(t) \/ MixCall(t)
                        \/ OutputCall(t) \/ DestroyCall(t)
  \/ ReleaseCache

Spec == Init /\ [][Next]_vars

-----------------------------------------------------------------------------
(* Properties.                                                             *)

\* Who holds a reference: the application's handle until destroy_surface or a
\* swap gives it up, the cache, a link, and the calls in flight.
HandleHolds(s) == ~destroyed[s] /\ ~detached[s]
LinksOn(s) == {l \in Links : /\ link[l].refcnt > 0
                             /\ s \in {link[l].video, link[l].disp}}
CallsOn(s) == {t \in Threads : /\ s \in {vid[t], out[t]}
                              /\ pc[t] \notin {"created", "destroying"}}

\* Every reference is owned by exactly one holder: the counter of surface.c
\* neither leaks nor drops to zero under a holder, whatever calls interleave.
RefsExact ==
  \A s \in Surfaces :
    refcnt[s] = Bit(HandleHolds(s)) + Bit(s \in cache)
                + Cardinality(LinksOn(s)) + Cardinality(CallsOn(s))

\* The same for tegra_shared_surface: one reference for the link itself while
\* it is established, one per call that took it.
LinkRefsExact ==
  \A l \in Links :
    link[l].refcnt = Cardinality({d \in Outputs : shared[d] = l})
                     + Cardinality({t \in Threads : hold[t] = l})

\* Both counters, which calls of several threads move together: a link that is
\* dropped once too often drops the references to its surfaces once too often.
CountsExact == RefsExact /\ LinkRefsExact

\* surf->shared is set on both ends of a link or on neither.
LinkSymmetric ==
  /\ \A s \in Surfaces : shared[s] # None =>
       /\ link[shared[s]].refcnt > 0
       /\ s \in {link[shared[s]].video, link[shared[s]].disp}
  /\ \A l \in Links : link[l].refcnt > 0 =>
       (shared[link[l].video] = l <=> shared[link[l].disp] = l)

\* No pointer the code may still follow leads to a freed surface.
NoUseAfterFree ==
  /\ \A t \in Threads : \A s \in {vid[t], out[t]} \ {None} : refcnt[s] > 0
  /\ \A s \in cache : refcnt[s] > 0
  /\ \A l \in Links : link[l].refcnt > 0 =>
       refcnt[link[l].video] > 0 /\ refcnt[link[l].disp] > 0

\* A surface swapped out of its handle waits for exactly one event, the end of
\* the link that still shows it; nothing else would free or recycle it.
DetachedIsShown ==
  \A v \in Surfaces : detached[v] => shared[v] # None /\ ~destroyed[v]

\* Both ends of a link and the surface that was swapped out of its handle agree,
\* whatever breaks the link: a draw, a mix, a destroy, a swap or the expiry.
LinksAgree == LinkSymmetric /\ DetachedIsShown

\* A handle the application owns always resolves to a surface that knows it by
\* that handle, through every swap and recycling behind its back.
OwnedHandleResolves ==
  \A h \in open \cap Slots : Lookup(h) # None /\ id[Lookup(h)] = h

\* Whatever can be reached, by a pointer of the library or by a handle, is alive.
ReachableIsAlive == NoUseAfterFree /\ OwnedHandleResolves

\* With no handle, no call in flight and the decoder gone nothing is left.
NoLeak ==
  (open \cap Slots = {} /\ cache = {} /\ \A t \in Threads : Idle(t)) =>
    \A s \in Surfaces : refcnt[s] = 0

\* A handle that a successful create returned names a surface of its own: "The
\* operation completed successfully; no error."
CreatedHandleIsOwn ==
  \A h \in open : Lookup(h) # None /\ id[Lookup(h)] = h
=============================================================================
