------------------------------ MODULE Decoder ------------------------------
(***************************************************************************)
(* vdp_decoder_render over the stateless V4L2 interface: decoder.c,        *)
(* v4l2.c, media.c. Pictures are decoded into the memory of a surface,     *)
(* which is lent to the kernel through one of a fixed number of buffer     *)
(* slots; a later picture names its references by the timestamps their     *)
(* slots were decoded with. The library decides alone which slot may be    *)
(* used again.                                                             *)
(***************************************************************************)
EXTENDS Integers, FiniteSets, FiniteSetsExt, SequencesExt

CONSTANTS
  Handles, Surfaces, None,
  NumBuffers,     \* MAX_V4L2_BUFFERS, 24
  Granted,        \* how many of them the kernel has
  MaxReferences,  \* of a picture: 16 in the code, less in a stream's level
  MaxTime,        \* bound: of the clock, and so of the pictures
  AllocMayFail,   \* allocations fail: the caches are dropped
  KernelFails,    \* the calls of the kernel that may fail
  Admits          \* the rules of the application and the kernel that are lifted

Slots == 0..(NumBuffers - 1)
Times == 0..MaxTime  \* 0 is {0}, no time

\* A render call: its picture and references, the slot it has been given, the times
\* it passes, the references it leaves out, and whether it waits for the request.
Jobs == [handle : Handles, surf : Surfaces, refs : SUBSET Handles,
         slot : Slots \cup {None}, entries : SUBSET Times, lost : SUBSET Handles,
         waits : BOOLEAN]

ASSUME DecoderAssumption ==
  /\ {NumBuffers, Granted, MaxReferences, MaxTime} \subseteq Nat
  /\ MaxReferences < NumBuffers /\ Granted <= NumBuffers
  /\ AllocMayFail \in BOOLEAN
  /\ KernelFails \subseteq {"control", "output", "capture", "request", "late", "decode"}
  /\ Admits \subseteq {"failed_reference", "second_decoder", "clock_set"}
  /\ None \notin Handles \cup Surfaces \cup Slots \cup Jobs

VARIABLES
  dec,       \* the decoder's handle resolves
  at,        \* the surface of each handle of the application
  detached,  \* surfaces that were swapped while shown: only a link refers to them
  cached,    \* the surfaces with cache_entry.cache set
  held,      \* references taken by get_surface and not put
  mem,       \* per surface: v4l2.buf_idx, v4l2.timestamp
  slotSurf, slotTime,  \* dec->v4l2.surfaces[], timestamps[]
  clock,     \* gettimeofday: the time of the last picture
  kernel,    \* the request, the bitstream buffer, the slots: state, time, memory
  dpb,       \* the handles whose pictures the application may refer to
  shows,     \* the picture decoded to each of them
  job,       \* the render call under way
  refused    \* the last one asked the kernel for what it must refuse

surfVars == <<at, detached, cached, held, mem>>
slotVars == <<slotSurf, slotTime>>
appVars == <<dpb, shows>>
vars == <<dec, surfVars, slotVars, clock, kernel, appVars, job, refused>>

-----------------------------------------------------------------------------
(* Surfaces: an object is free when nobody refers to it.                   *)

NewSurface == [idx |-> None, stamp |-> 0]

Named(s, a) == \E h \in Handles : a[h] = s
InUse(s, a, de, ca, he) == Named(s, a) \/ s \in de \cup ca \/ he[s] > 0

\* The references after a step; what nobody refers to any more is freed.
Settle(a, de, ca, he, m) ==
  /\ at' = a /\ detached' = de /\ cached' = ca /\ held' = he
  /\ mem' = [s \in Surfaces |-> IF InUse(s, a, de, ca, he) THEN m[s] ELSE NewSurface]

\* alloc_surface: a surface of the cache that was destroyed, else a new one.
Destroyed(ca) == {s \in ca : ~Named(s, at) /\ s \notin detached}
Allocatable(ca) == IF Destroyed(ca) # {} THEN Destroyed(ca)
                   ELSE {s \in Surfaces : ~InUse(s, at, detached, ca, held)}

\* The cache after an allocation: one that fails first drops all of it.
AfterAllocation == IF AllocMayFail THEN {cached, {}} ELSE {cached}

CreateSurface(h) ==
  /\ at[h] = None
  /\ \E s \in Allocatable(cached), ca \in AfterAllocation :
       /\ s \in cached => ca = cached
       /\ Settle([at EXCEPT ![h] = s], detached, ca \ {s}, held, mem)
  /\ UNCHANGED <<dec, slotVars, clock, kernel, appVars, job, refused>>

\* Rule: not while a call uses it; nor, as in Surfaces, while it is shown.
DestroySurface(h) ==
  /\ at[h] # None
  /\ job # None => job.handle # h /\ h \notin job.refs
  /\ Settle([at EXCEPT ![h] = None], detached, cached, held,
            [mem EXCEPT ![at[h]].idx = None])
  /\ dpb' = dpb \ {h} /\ shows' = [shows EXCEPT ![h] = 0]
  /\ UNCHANGED <<dec, slotVars, clock, kernel, job, refused>>

\* The link of a detached surface is broken: it may be taken from the cache.
EndShow(s) ==
  /\ s \in detached
  /\ Settle(at, detached \ {s}, cached, held, mem)
  /\ UNCHANGED <<dec, slotVars, clock, kernel, appVars, job, refused>>

-----------------------------------------------------------------------------
(* The kernel. A slot that is queued is nobody's reference.                *)

Idle == [req |-> "idle", out |-> "free", outTime |-> 0, error |-> FALSE,
         cap |-> [k \in Slots |-> "free"], time |-> [k \in Slots |-> 0],
         mem |-> [k \in Slots |-> None]]

Took(k) == [k |-> k, ok |-> TRUE, refused |-> FALSE]
Refused(k) == [k |-> k, ok |-> FALSE, refused |-> TRUE]
Failed(k, call) == IF call \in KernelFails THEN {[k |-> k, ok |-> FALSE, refused |-> FALSE]} ELSE {}
Then(outs, Step(_)) == UNION {IF o.ok THEN Step(o.k) ELSE {o} : o \in outs}

\* media_request_reinit: not of a request that is being worked on.
Reinit(k) ==
  IF k.req = "queued" THEN {Refused(k)}
  ELSE {Took([k EXCEPT !.out = IF @ = "request" THEN "free" ELSE @,
                        !.outTime = IF k.out = "request" THEN 0 ELSE @])}

Control(k) == {Took(k)} \cup Failed(k, "control")

\* v4l2_queue_buffer of the bitstream, as part of the request.
QueueBitstream(k, time) ==
  IF k.out # "free" THEN {Refused(k)}
  ELSE {Took([k EXCEPT !.out = "request", !.outTime = time])} \cup Failed(k, "output")

\* v4l2_dequeue_buffer: a buffer that is done, if there is one.
DequeueBitstream(k) == IF k.out = "done" THEN [k EXCEPT !.out = "free", !.outTime = 0] ELSE k

\* Mutant of DequeueSurface: not of a picture that could not be decoded.
DequeueSurfaceDecoded(k) ==
  LET done == {i \in Slots : k.cap[i] = "done" /\ ~k.error}
  IN IF done = {} THEN k ELSE [k EXCEPT !.cap[Min(done)] = "free", !.error = FALSE]

\* The same of the picture, with what the kernel says of it.
DequeueSurface(k) ==
  LET done == {i \in Slots : k.cap[i] = "done"}
  IN IF done = {} THEN k ELSE [k EXCEPT !.cap[Min(done)] = "free", !.error = FALSE]

\* enqueue_surface_v4l2, with dequeue_bitstream if it fails.
QueueSurface(k, i, s) ==
  {[o EXCEPT !.k = IF o.ok THEN @ ELSE DequeueBitstream(@)] :
     o \in IF i >= Granted \/ k.cap[i] # "free" THEN {Refused(k)}
           ELSE {Took([k EXCEPT !.cap[i] = "queued", !.time[i] = 0, !.mem[i] = s])}
                  \cup Failed(k, "capture")}

\* media_request_queue, with dequeue_surf if it fails.
QueueRequest(k) ==
  {Took([k EXCEPT !.req = "queued", !.out = "queued"])}
    \cup {[o EXCEPT !.k = DequeueBitstream(DequeueSurface(k))] : o \in Failed(k, "request")}

-----------------------------------------------------------------------------
(* vdp_decoder_render.                                                     *)

\* What the application may refer to: pictures of its list, which only leave it.
MayRefer(R) == R \subseteq dpb /\ Cardinality(R) <= MaxReferences

Job(h, R, s) == [handle |-> h, surf |-> s, refs |-> R, slot |-> None, entries |-> {},
                 lost |-> {}, waits |-> FALSE]

\* The bitstream is copied; a surface that an output surface shows is swapped for
\* another, if there is one; what is decoded to leaves the cache.
Render(h, R) ==
  /\ dec /\ job = None
  /\ at[h] # None /\ MayRefer(R) /\ h \notin R
  /\ \E ca \in AfterAllocation :
       LET Fetched(s, a, de) ==
             /\ Settle(a, de, ca \ {s}, [held EXCEPT ![s] = @ + 1], mem)
             /\ job' = Job(h, R, s)
       IN \/ Fetched(at[h], at, detached)
          \/ \E s \in Allocatable(ca) :
               Fetched(s, [at EXCEPT ![h] = s], detached \cup {at[h]})
  /\ dpb' = R /\ shows' = [g \in Handles |-> IF g \in R THEN shows[g] ELSE 0]
  /\ UNCHANGED <<dec, slotVars, clock, kernel, refused>>

\* Mutant of SlotOf: the slots of the references are not looked at.
SlotOfAny(s, R) ==
  LET unused == {k \in Slots : slotTime[k] = 0}
  IN IF unused # {} THEN Min(unused) ELSE 0

\* The slot of the picture: the surface's own, an unused one, or one that was
\* not decoded at the time of any reference.
SlotOf(s, R) ==
  LET own == {k \in Slots : mem[s].idx # None /\ slotSurf[k] = s /\ slotTime[k] = mem[s].stamp}
      unused == {k \in Slots : slotTime[k] = 0}
      idle == {k \in Slots : \A r \in R : mem[at[r]].stamp # slotTime[k]}
  IN IF own # {} THEN Min(own) ELSE IF unused # {} THEN Min(unused)
     ELSE IF idle # {} THEN Min(idle) ELSE None

\* gettimeofday is the wall clock. Rule: it moves, and nobody sets it back.
NewTimes == IF "clock_set" \in Admits THEN Times \ {0} ELSE {clock + 1} \cap Times

\* Mutant of Passed: slot 0 is taken for none.
PassedNotFirst(R) == {r \in R : /\ mem[at[r]].idx \notin {None, 0}
                                 /\ at[r] \in cached
                                 /\ slotSurf[mem[at[r]].idx] = at[r]}

\* h264_vdpau_picture_to_v4l2: the references that are passed to the kernel.
\* Leaving the loop's body early keeps the surface's reference.
Passed(R) ==
  {r \in R : /\ mem[at[r]].idx # None
             /\ at[r] \in cached
             /\ slotSurf[mem[at[r]].idx] = at[r]}

\* The end of a render call: the surface goes to the cache, out of which some
\* surfaces that were destroyed long ago are dropped. The application may refer to
\* the picture from then on. Rule: only if it was told that it was decoded.
Return(s, how, held2, mem2) ==
  /\ \E old \in SUBSET Destroyed(cached) :
       Settle(at, detached, (cached \cup {s}) \ old, [held2 EXCEPT ![s] = @ - 1], mem2)
  /\ job' = None /\ refused' = (how = "refused")
  /\ IF (how = "ok" \/ "failed_reference" \in Admits) /\ Cardinality(dpb) < MaxReferences
     THEN /\ dpb' \in {dpb, dpb \cup {job.handle}}
          /\ shows' = [shows EXCEPT ![job.handle] =
                         IF job.handle \in dpb' THEN mem2[s].stamp ELSE 0]
     ELSE UNCHANGED appVars

\* tegra_decode_h264_v4l2 up to the wait for the request.
Submit ==
  /\ job # None /\ ~job.waits
  /\ LET s == job.surf
         slot == SlotOf(s, job.refs)
         passed == Passed(job.refs)
         lost == {at[r] : r \in job.refs \ passed}
         kept == [t \in Surfaces |-> IF t \in lost THEN held[t] + 1 ELSE held[t]]
     IN IF slot = None
        THEN Return(s, "refused", held, mem) /\ UNCHANGED <<clock, kernel>>
        ELSE \E now \in NewTimes :
               LET stamped == [mem EXCEPT ![s].stamp = now]
                   outs == Then(Then(Then(Then(Reinit(kernel), Control),
                                          LAMBDA k : QueueBitstream(k, now)),
                                     LAMBDA k : QueueSurface(k, slot, s)),
                                QueueRequest)
               IN \E o \in outs :
                    /\ kernel' = o.k /\ clock' = now
                    /\ IF o.ok
                       THEN /\ job' = [job EXCEPT
                                 !.slot = slot, !.waits = TRUE, !.lost = job.refs \ passed,
                                 !.entries = {slotTime[mem[at[r]].idx] : r \in passed}]
                            /\ Settle(at, detached, cached, kept, stamped)
                            /\ UNCHANGED <<appVars, refused>>
                       ELSE Return(s, IF o.refused THEN "refused" ELSE "failed", kept, stamped)
  /\ UNCHANGED <<dec, slotVars>>

\* Weighted prediction and CABAC are refused before anything is queued.
RenderUnsupported ==
  /\ job # None /\ ~job.waits
  /\ Return(job.surf, "failed", held, mem)
  /\ UNCHANGED <<dec, slotVars, clock, kernel>>

\* The kernel decodes; a broken stream leaves the picture unusable.
Decode(ok) ==
  /\ kernel.req = "queued"
  /\ ok \/ "decode" \in KernelFails
  /\ LET i == CHOOSE k \in Slots : kernel.cap[k] = "queued"
     IN kernel' = [kernel EXCEPT !.req = "idle", !.out = "done", !.cap[i] = "done",
                                 !.time[i] = kernel.outTime, !.error = ~ok]
  /\ UNCHANGED <<dec, surfVars, slotVars, clock, appVars, job, refused>>

\* The request is complete: the slot is the surface's. With a request that takes
\* longer than two seconds the call is over, and what is queued stays queued.
Finish ==
  /\ job # None /\ job.waits
  /\ kernel.req = "queued" => "late" \in KernelFails
  /\ kernel' = DequeueBitstream(DequeueSurface(kernel))
  /\ IF kernel.req = "queued"
     THEN Return(job.surf, "failed", held, mem) /\ UNCHANGED slotVars
     ELSE /\ slotSurf' = [slotSurf EXCEPT ![job.slot] = job.surf]
          /\ slotTime' = [slotTime EXCEPT ![job.slot] = mem[job.surf].stamp]
          /\ Return(job.surf, IF kernel.error THEN "failed" ELSE "ok", held,
                    [mem EXCEPT ![job.surf].idx = job.slot])
  /\ UNCHANGED <<dec, clock>>

-----------------------------------------------------------------------------
(* vdp_decoder_create, vdp_decoder_destroy.                                *)

\* Mutant of NoSlots: only one of the two tables is cleared.
NoSurfaces == slotSurf' = [k \in Slots |-> None] /\ UNCHANGED slotTime

NoSlots == slotSurf' = [k \in Slots |-> None] /\ slotTime' = [k \in Slots |-> 0]

\* With MAX_DECODERS_NB decoders the search leaves its loop with the last one,
\* which is then set up a second time: an empty cache, another file of the kernel.
CreateDecoder ==
  /\ job = None
  /\ dec => "second_decoder" \in Admits
  /\ IF dec THEN UNCHANGED slotVars ELSE NoSlots
  /\ dec' = TRUE /\ kernel' = Idle /\ refused' = FALSE
  /\ UNCHANGED <<surfVars, clock, appVars, job>>

DestroyDecoder ==
  /\ dec /\ job = None
  /\ dec' = FALSE /\ kernel' = Idle /\ NoSlots /\ refused' = FALSE
  /\ Settle(at, detached, {}, held, mem)
  /\ dpb' = {} /\ shows' = [h \in Handles |-> 0]
  /\ UNCHANGED <<clock, job>>

Init ==
  /\ dec = FALSE
  /\ at = [h \in Handles |-> None] /\ detached = {} /\ cached = {}
  /\ held = [s \in Surfaces |-> 0] /\ mem = [s \in Surfaces |-> NewSurface]
  /\ slotSurf = [k \in Slots |-> None] /\ slotTime = [k \in Slots |-> 0]
  /\ clock = 0 /\ kernel = Idle
  /\ dpb = {} /\ shows = [h \in Handles |-> 0]
  /\ job = None /\ refused = FALSE

Next ==
  \/ \E h \in Handles :
       \/ CreateSurface(h) \/ DestroySurface(h)
       \/ \E R \in SUBSET dpb : Render(h, R)
  \/ \E s \in Surfaces : EndShow(s)
  \/ Submit \/ RenderUnsupported \/ Finish
  \/ \E ok \in BOOLEAN : Decode(ok)
  \/ CreateDecoder \/ DestroyDecoder

Spec == Init /\ [][Next]_vars

-----------------------------------------------------------------------------
(* Properties.                                                             *)

\* The variables have their types, and a slot that was used has a surface.
TypeOK ==
  /\ dec \in BOOLEAN /\ at \in [Handles -> Surfaces \cup {None}]
  /\ detached \subseteq Surfaces /\ cached \subseteq Surfaces /\ held \in [Surfaces -> Nat]
  /\ \A s \in Surfaces : mem[s].idx \in Slots \cup {None} /\ mem[s].stamp \in Times
  /\ slotSurf \in [Slots -> Surfaces \cup {None}] /\ slotTime \in [Slots -> Times]
  /\ \A k \in Slots : slotTime[k] # 0 => slotSurf[k] # None
  /\ kernel.req \in {"idle", "queued"} /\ refused \in BOOLEAN
  /\ dpb \subseteq Handles /\ job \in Jobs \cup {None}

\* While the kernel decodes a picture, every reference the application named is
\* found: its time was passed, exactly one slot carries it, which is not the slot
\* being decoded to, and its memory is that of the surface, still with the picture
\* that was decoded to it. Slots are chosen, surfaces swapped, recycled and shown
\* by code that does not look at each other's tables.
ReferencesReach ==
  kernel.req = "queued" /\ job # None =>
    \A r \in job.refs :
      /\ shows[r] \in job.entries
      /\ \E k \in Slots \ {job.slot} :
           /\ {i \in Slots : kernel.time[i] = shows[r]} = {k}
           /\ kernel.mem[k] = at[r]
      /\ mem[at[r]].stamp = shows[r]

\* The kernel is never asked for what it must refuse, a slot that does not exist,
\* a buffer that is not back or a request that is under way, and a slot is always
\* found: a render call fails only when one of the kernel's calls fails by itself.
NeverRefused == ~refused

\* No call keeps a reference to a surface when it is over.
SurfacesReturn == job = None => \A s \in Surfaces : held[s] = 0
=============================================================================
