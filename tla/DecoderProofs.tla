--------------------------- MODULE DecoderProofs ---------------------------
(***************************************************************************)
(* Proofs about Decoder, for every number of slots, references, surfaces   *)
(* and handles: a render call keeps no surface, the kernel is asked for    *)
(* nothing it must refuse, and every reference reaches it.                 *)
(*                                                                         *)
(* What the surfaces know (PictureInv), what the slots know (ClockInv) and *)
(* what the kernel knows (KernelInv, SlotInv) each hold under rules of     *)
(* their own; the theorems at the end put them together.                   *)
(***************************************************************************)
EXTENDS Decoder, FiniteSetTheorems, WellFoundedInduction, TLAPS

-----------------------------------------------------------------------------
(* The inductive invariant.                                                *)

\* What the other variables are.
Memories == [idx : Slots \cup {None}, stamp : Times]
Kernels == [req : {"idle", "queued"}, out : {"free", "request", "queued", "done"},
            outTime : Times, error : BOOLEAN, cap : [Slots -> {"free", "queued", "done"}],
            time : [Slots -> Times], mem : [Slots -> Surfaces \cup {None}]]

\* The application refers to pictures that were decoded, and no allocation fails.
Follows == "failed_reference" \notin Admits /\ ~AllocMayFail

\* The kernel takes a request and has decoded it in time.
Calm == KernelFails \cap {"request", "late"} = {}

\* The clock only goes forward.
Monotonic == "clock_set" \notin Admits

\* A render call that waits for the kernel.
Waiting == job # None /\ job.waits

\* Slot k is being decoded to.
Lent(k) == Waiting /\ k = job.slot

\* Its surface, its slot and what the application knows of it agree on a picture.
Recorded(h) ==
  LET m == mem[at[h]] IN
  /\ at[h] \in cached
  /\ m.idx # None /\ slotSurf[m.idx] = at[h] /\ slotTime[m.idx] = m.stamp
  /\ shows[h] = m.stamp /\ m.stamp # 0

TypeInv ==
  /\ TypeOK
  /\ mem \in [Surfaces -> Memories] /\ kernel \in Kernels
  /\ clock \in Times /\ shows \in [Handles -> Times]
  /\ IsFiniteSet(dpb) /\ Cardinality(dpb) <= MaxReferences

\* A surface has one handle; a render call has a surface and names the whole list.
HandleInv ==
  /\ \A g, h \in Handles : at[g] = at[h] /\ at[g] # None => g = h
  /\ \A h \in dpb : at[h] # None
  /\ dpb # {} => dec

JobInv ==
  job # None =>
    /\ dec /\ at[job.handle] = job.surf /\ held[job.surf] > 0
    /\ job.refs = dpb /\ job.handle \notin dpb
    /\ job.waits => job.slot \in Slots /\ mem[job.surf].stamp # 0

\* Only the render call's surface is held; the pictures of the list are recorded.
PictureInv ==
  /\ \A s \in Surfaces : held[s] = IF job # None /\ s = job.surf THEN 1 ELSE 0
  /\ \A h \in dpb : /\ Recorded(h)
                    /\ Waiting => job.slot # mem[at[h]].idx /\ shows[h] \in job.entries

\* No two slots are of one time, and none is of the time being decoded.
ClockInv ==
  /\ \A k \in Slots : slotTime[k] <= clock
  /\ \A j, k \in Slots : slotTime[j] = slotTime[k] /\ slotTime[j] # 0 => j = k
  /\ Waiting => /\ mem[job.surf].stamp = clock
                /\ \A k \in Slots : slotTime[k] < clock

\* The kernel has one buffer at a time, and only while a call waits.
KernelInv ==
  /\ kernel.req = "queued" => Waiting
  /\ \A k \in Slots :
       kernel.cap[k] = IF ~Lent(k) THEN "free"
                       ELSE IF kernel.req = "queued" THEN "queued" ELSE "done"
  /\ ~Waiting => kernel.out \in {"free", "request"}
  /\ Waiting => kernel.out = IF kernel.req = "queued" THEN "queued" ELSE "done"

\* What the kernel knows of a slot is what the library has written down.
SlotInv ==
  /\ \A k \in Slots : ~Lent(k) =>
       /\ kernel.time[k] = slotTime[k]
       /\ slotTime[k] # 0 => kernel.mem[k] = slotSurf[k]
  /\ Waiting => /\ kernel.mem[job.slot] = job.surf
                /\ kernel.time[job.slot] = IF kernel.req = "queued" THEN 0
                                           ELSE mem[job.surf].stamp
                /\ kernel.outTime = mem[job.surf].stamp

IInv ==
  /\ TypeInv /\ HandleInv /\ JobInv
  /\ Follows => PictureInv
  /\ Monotonic => ClockInv
  /\ Calm => KernelInv
  /\ Calm /\ "second_decoder" \notin Admits => SlotInv
  /\ Calm /\ Monotonic /\ Granted = NumBuffers => ~refused

-----------------------------------------------------------------------------
(* Slots.                                                                  *)

Less == {pair \in Nat \X Nat : pair[1] < pair[2]}

LEMMA MinIn ==
  ASSUME NEW T \in SUBSET Nat, T # {}
  PROVE  Min(T) \in T
<1>1. IsWellFoundedOn(Less, Nat)  BY NatLessThanWellFounded, Zenon DEF OpToRel, Less
<1>2. PICK x \in T : \A y \in T : ~(<<y, x>> \in Less)  BY <1>1, WFMin
<1>3. \A y \in T : ~(y < x)  BY <1>2 DEF Less
<1>4. \A y \in T : x <= y  BY <1>3
<1>5. \E z \in T : \A y \in T : z <= y  BY <1>4
<1> QED  BY <1>5, Zenon DEF Min

LEMMA SlotsAreNumbers ==
  /\ NumBuffers \in Nat /\ Slots \in SUBSET Nat /\ IsFiniteSet(Slots)
  /\ Cardinality(Slots) = NumBuffers /\ \A k \in Slots : k < NumBuffers
<1>1. NumBuffers \in Nat  BY DecoderAssumption
<1>2. IsFiniteSet(Slots) /\ Cardinality(Slots) = NumBuffers
  <2>1. 0 \in Int /\ NumBuffers - 1 \in Int  BY <1>1
  <2>2. /\ IsFiniteSet(0..(NumBuffers - 1))
        /\ Cardinality(0..(NumBuffers - 1))
             = IF 0 > NumBuffers - 1 THEN 0 ELSE NumBuffers - 1 - 0 + 1
    BY <2>1, FS_Interval
  <2> QED  BY <1>1, <2>2 DEF Slots
<1> QED  BY <1>1, <1>2 DEF Slots

\* None stands for no slot, no surface, no call.
LEMMA NoneIsNone ==
  /\ None \notin Handles /\ None \notin Surfaces /\ None \notin Slots /\ None \notin Jobs
  BY DecoderAssumption

\* A slot is given to a picture only if it is the surface's own, was never used, or was
\* decoded at the time of no reference; it is refused only if every slot is used and at
\* the time of a reference.
Suits(k, s, R) ==
  \/ slotSurf[k] = s
  \/ slotTime[k] = 0
  \/ \A r \in R : mem[at[r]].stamp # slotTime[k]

LEMMA SlotOfSuits ==
  ASSUME NEW s, NEW R
  PROVE  /\ SlotOf(s, R) \in Slots => Suits(SlotOf(s, R), s, R)
         /\ SlotOf(s, R) \notin Slots =>
              /\ SlotOf(s, R) = None
              /\ \A k \in Slots : /\ slotTime[k] # 0
                                  /\ \E r \in R : mem[at[r]].stamp = slotTime[k]
<1> DEFINE own == {k \in Slots : mem[s].idx # None /\ slotSurf[k] = s
                                 /\ slotTime[k] = mem[s].stamp}
           unused == {k \in Slots : slotTime[k] = 0}
           idle == {k \in Slots : \A r \in R : mem[at[r]].stamp # slotTime[k]}
<1>1. SlotOf(s, R) = IF own # {} THEN Min(own) ELSE IF unused # {} THEN Min(unused)
                     ELSE IF idle # {} THEN Min(idle) ELSE None
  BY Zenon DEF SlotOf
<1>2. own \in SUBSET Nat /\ unused \in SUBSET Nat /\ idle \in SUBSET Nat
  BY SlotsAreNumbers
<1>3. own # {} => Min(own) \in own  BY <1>2, MinIn
<1>4. unused # {} => Min(unused) \in unused  BY <1>2, MinIn
<1>5. idle # {} => Min(idle) \in idle  BY <1>2, MinIn
<1>6. CASE own # {}  BY <1>1, <1>3, <1>6 DEF Suits
<1>7. CASE own = {} /\ unused # {}  BY <1>1, <1>4, <1>7 DEF Suits
<1>8. CASE own = {} /\ unused = {} /\ idle # {}  BY <1>1, <1>5, <1>8 DEF Suits
<1>9. CASE own = {} /\ unused = {} /\ idle = {}
  <2>1. SlotOf(s, R) = None  BY <1>1, <1>9
  <2>2. \A k \in Slots : slotTime[k] # 0  BY <1>9
  <2>3. \A k \in Slots : \E r \in R : mem[at[r]].stamp = slotTime[k]  BY <1>9
  <2>4. None \notin Slots  BY NoneIsNone
  <2> QED  BY <2>1, <2>2, <2>3, <2>4
<1> QED  BY <1>6, <1>7, <1>8, <1>9

\* A slot is always found: no two slots are of one time, and there are more slots than
\* references. This is why MAX_V4L2_BUFFERS, 24, is enough for 16 references.
LEMMA SlotIsFound ==
  ASSUME NEW s, NEW R, IsFiniteSet(R), Cardinality(R) <= MaxReferences,
         \A j, k \in Slots : slotTime[j] = slotTime[k] /\ slotTime[j] # 0 => j = k
  PROVE  SlotOf(s, R) \in Slots
<1> SUFFICES ASSUME SlotOf(s, R) \notin Slots PROVE FALSE  OBVIOUS
<1>1. \A k \in Slots : /\ slotTime[k] # 0
                       /\ \E r \in R : mem[at[r]].stamp = slotTime[k]
  BY SlotOfSuits
<1> DEFINE f == [k \in Slots |-> CHOOSE r \in R : mem[at[r]].stamp = slotTime[k]]
<1>2. \A k \in Slots : f[k] \in R /\ mem[at[f[k]]].stamp = slotTime[k]  BY <1>1
<1>3. f \in [Slots -> R]  BY <1>2
<1>4. Cardinality(R) < Cardinality(Slots)
  <2>1. MaxReferences \in Nat /\ MaxReferences < NumBuffers  BY DecoderAssumption
  <2>2. Cardinality(R) \in Nat  BY FS_CardinalityType
  <2> QED  BY <2>1, <2>2, SlotsAreNumbers
<1> HIDE DEF f
<1>5. PICK j \in Slots, k \in Slots : j # k /\ f[j] = f[k]
  <2>1. IsFiniteSet(Slots)  BY SlotsAreNumbers
  <2>2. \E x, y \in Slots : x # y /\ f[x] = f[y]  BY <1>3, <1>4, <2>1, FS_PigeonHole
  <2> QED  BY <2>2
<1>6. slotTime[j] = slotTime[k]  BY <1>2, <1>5
<1> QED  BY <1>1, <1>5, <1>6

-----------------------------------------------------------------------------
(* Surfaces after a step.                                                  *)

LEMMA Memory ==
  /\ NewSurface \in Memories
  /\ \A m \in Memories : m.idx \in Slots \cup {None} /\ m.stamp \in Times
<1>1. 0 \in Times
  <2>1. MaxTime \in Nat  BY DecoderAssumption
  <2> QED  BY <2>1 DEF Times
<1> QED  BY <1>1 DEF NewSurface, Memories

\* Who is named, detached, cached or held keeps its memory.
LEMMA SettleKeeps ==
  ASSUME NEW a, NEW de, NEW ca, NEW he, NEW m \in [Surfaces -> Memories],
         Settle(a, de, ca, he, m)
  PROVE  /\ at' = a /\ detached' = de /\ cached' = ca /\ held' = he
         /\ mem' \in [Surfaces -> Memories]
         /\ \A s \in Surfaces : (\E h \in Handles : a[h] = s) => mem'[s] = m[s]
         /\ \A s \in Surfaces : he[s] > 0 => mem'[s] = m[s]
<1>1. /\ at' = a /\ detached' = de /\ cached' = ca /\ held' = he
      /\ mem' = [s \in Surfaces |-> IF InUse(s, a, de, ca, he) THEN m[s] ELSE NewSurface]
  BY Zenon DEF Settle
<1>2. NewSurface \in Memories  BY Memory
<1>3. mem' \in [Surfaces -> Memories]  BY <1>1, <1>2
<1>4. \A s \in Surfaces : (\E h \in Handles : a[h] = s) => mem'[s] = m[s]
  BY <1>1 DEF InUse, Named
<1>5. \A s \in Surfaces : he[s] > 0 => mem'[s] = m[s]
  BY <1>1 DEF InUse
<1> QED  BY <1>1, <1>3, <1>4, <1>5

\* What may be allocated has no handle, and no call holds it unless it is cached.
LEMMA AllocatableIs ==
  ASSUME NEW ca, ca \subseteq Surfaces, NEW s \in Allocatable(ca)
  PROVE  s \in Surfaces /\ s # None /\ \A h \in Handles : at[h] # s
<1>1. CASE s \in Destroyed(ca)  BY <1>1, NoneIsNone DEF Destroyed, Named
<1>2. CASE s \in {t \in Surfaces : ~InUse(t, at, detached, ca, held)
                                   \/ ~InUse(t, at, detached, cached, held)}
  BY <1>2, NoneIsNone DEF InUse, Named
<1> QED  BY <1>1, <1>2 DEF Allocatable

LEMMA CacheAfter ==
  ASSUME cached \subseteq Surfaces, NEW ca \in AfterAllocation
  PROVE  ca \subseteq Surfaces /\ (Follows => ca = cached)
  BY DEF AfterAllocation, Follows

\* A step that lets slots, kernel and call alone leaves what they know, if the surface
\* being decoded keeps its memory.
LEMMA QuietInv ==
  ASSUME IInv, UNCHANGED <<slotVars, clock, kernel, job, refused>>,
         Waiting => mem'[job.surf] = mem[job.surf]
  PROVE  /\ Monotonic => ClockInv'
         /\ Calm => KernelInv'
         /\ Calm /\ "second_decoder" \notin Admits => SlotInv'
         /\ Calm /\ Monotonic /\ Granted = NumBuffers => ~refused'
<1>1. /\ slotSurf' = slotSurf /\ slotTime' = slotTime /\ clock' = clock
      /\ kernel' = kernel /\ job' = job /\ refused' = refused
  BY DEF slotVars
<1>2. Waiting' <=> Waiting  BY <1>1 DEF Waiting
<1>3. \A k : Lent(k)' <=> Lent(k)  BY <1>1, <1>2 DEF Lent
<1>4. ClockInv => ClockInv'  BY <1>1, <1>2 DEF ClockInv
<1>5. KernelInv => KernelInv'  BY <1>1, <1>2, <1>3 DEF KernelInv
<1>6. SlotInv => SlotInv'  BY <1>1, <1>2, <1>3 DEF SlotInv
<1> QED  BY <1>1, <1>4, <1>5, <1>6 DEF IInv

-----------------------------------------------------------------------------
(* The application's surfaces.                                             *)

LEMMA CreateSurfaceInv ==
  ASSUME IInv, NEW h \in Handles, CreateSurface(h)
  PROVE  IInv'
<1>1. PICK s \in Allocatable(cached), ca \in AfterAllocation :
        Settle([at EXCEPT ![h] = s], detached, ca \ {s}, held, mem)
  BY DEF CreateSurface
<1>2. /\ at[h] = None
      /\ UNCHANGED <<dec, slotVars, clock, kernel, appVars, job, refused>>
  BY DEF CreateSurface
<1>3. TypeInv /\ HandleInv /\ JobInv  BY DEF IInv
<1>4. s \in Surfaces /\ s # None /\ \A g \in Handles : at[g] # s
  BY <1>3, AllocatableIs DEF TypeInv, TypeOK
<1>5. ca \subseteq Surfaces /\ (Follows => ca = cached)
  BY <1>3, CacheAfter DEF TypeInv, TypeOK
<1> DEFINE a == [at EXCEPT ![h] = s]
<1>6. /\ a \in [Handles -> Surfaces \cup {None}] /\ a[h] = s
      /\ \A g \in Handles : g # h => a[g] = at[g]
  BY <1>3, <1>4 DEF TypeInv, TypeOK
<1> HIDE DEF a
<1>7. /\ at' = a /\ detached' = detached /\ cached' = ca \ {s} /\ held' = held
      /\ mem' \in [Surfaces -> Memories]
      /\ \A t \in Surfaces : (\E g \in Handles : a[g] = t) => mem'[t] = mem[t]
      /\ \A t \in Surfaces : held[t] > 0 => mem'[t] = mem[t]
  <2>1. mem \in [Surfaces -> Memories]  BY <1>3 DEF TypeInv
  <2> QED  BY <1>1, <2>1, SettleKeeps DEF a
<1>8. job # None => mem'[job.surf] = mem[job.surf]
  <2>1. job # None => job.surf \in Surfaces  BY <1>3 DEF TypeInv, TypeOK, Jobs
  <2> QED  BY <1>3, <1>7, <2>1 DEF JobInv
<1>9. TypeInv'
  <2>1. TypeOK'
    BY <1>2, <1>3, <1>5, <1>6, <1>7, Memory DEF TypeInv, TypeOK, slotVars, appVars
  <2> QED  BY <1>2, <1>3, <1>7, <2>1 DEF TypeInv, slotVars, appVars
<1>10. HandleInv'
  BY <1>2, <1>3, <1>4, <1>6, <1>7 DEF HandleInv, TypeInv, TypeOK, appVars
<1>11. JobInv'
  <2>1. job # None => job.handle \in Handles /\ job.surf \in Surfaces
    BY <1>3 DEF TypeInv, TypeOK, Jobs
  <2>2. job # None => job.handle # h  BY <1>2, <1>3, <2>1, NoneIsNone DEF JobInv
  <2> QED  BY <1>2, <1>3, <1>6, <1>7, <1>8, <2>1, <2>2 DEF JobInv, appVars
<1>12. Follows => PictureInv'
  <2> SUFFICES ASSUME Follows PROVE PictureInv'  OBVIOUS
  <2>1. PictureInv /\ ca = cached  BY <1>5 DEF IInv
  <2>2. UNCHANGED <<held, job, dpb, shows, slotSurf, slotTime>> /\ (Waiting' <=> Waiting)
    BY <1>2, <1>7 DEF slotVars, appVars, Waiting
  <2>3. ASSUME NEW g \in dpb
        PROVE  at'[g] = at[g] /\ mem'[at[g]] = mem[at[g]] /\ (at[g] \in cached => at[g] \in cached')
    <3>1. g \in Handles /\ at[g] # None  BY <1>3 DEF TypeInv, TypeOK, HandleInv
    <3>2. g # h /\ at[g] \in Surfaces /\ at[g] # s  BY <1>2, <1>3, <1>4, <3>1 DEF TypeInv, TypeOK
    <3> QED  BY <1>6, <1>7, <2>1, <3>1, <3>2
  <2>4. \A g \in dpb : Recorded(g) => Recorded(g)'  BY <2>2, <2>3 DEF Recorded
  <2> QED  BY <2>1, <2>2, <2>3, <2>4 DEF PictureInv
<1>13. /\ Monotonic => ClockInv'
       /\ Calm => KernelInv'
       /\ Calm /\ "second_decoder" \notin Admits => SlotInv'
       /\ Calm /\ Monotonic /\ Granted = NumBuffers => ~refused'
  BY <1>2, <1>8, QuietInv DEF Waiting
<1> QED  BY <1>9, <1>10, <1>11, <1>12, <1>13 DEF IInv, Follows, Monotonic, Calm

LEMMA DestroySurfaceInv ==
  ASSUME IInv, NEW h \in Handles, DestroySurface(h)
  PROVE  IInv'
<1> DEFINE a == [at EXCEPT ![h] = None]
           m == [mem EXCEPT ![at[h]].idx = None]
<1>1. /\ at[h] # None /\ (job # None => job.handle # h /\ h \notin job.refs)
      /\ Settle(a, detached, cached, held, m)
      /\ dpb' = dpb \ {h} /\ shows' = [shows EXCEPT ![h] = 0]
      /\ UNCHANGED <<dec, slotVars, clock, kernel, job, refused>>
  BY DEF DestroySurface
<1>2. TypeInv /\ HandleInv /\ JobInv  BY DEF IInv
<1>3. /\ a \in [Handles -> Surfaces \cup {None}] /\ a[h] = None
      /\ \A g \in Handles : g # h => a[g] = at[g]
  BY <1>2 DEF TypeInv, TypeOK
<1>13. m \in [Surfaces -> Memories] /\ \A t \in Surfaces : t # at[h] => m[t] = mem[t]
  <2>1. /\ mem \in [Surfaces -> Memories] /\ at[h] \in Surfaces
        /\ Memories = [idx : Slots \cup {None}, stamp : Times]
    BY <1>1, <1>2 DEF TypeInv, TypeOK, Memories
  <2> QED  BY <2>1
<1>14. \A g \in Handles : g # h /\ at[g] # None => at[g] # at[h]
  BY <1>2 DEF HandleInv
<1> HIDE DEF a, m
<1>4. /\ at' = a /\ detached' = detached /\ cached' = cached /\ held' = held
      /\ mem' \in [Surfaces -> Memories]
      /\ \A t \in Surfaces : (\E g \in Handles : a[g] = t) => mem'[t] = mem[t]
  <2>1. /\ at' = a /\ detached' = detached /\ cached' = cached /\ held' = held
        /\ mem' \in [Surfaces -> Memories]
        /\ \A t \in Surfaces : (\E g \in Handles : a[g] = t) => mem'[t] = m[t]
    BY <1>1, <1>13, SettleKeeps
  <2>2. \A t \in Surfaces : (\E g \in Handles : a[g] = t) => t # at[h]
    BY <1>1, <1>3, <1>14, NoneIsNone
  <2> QED  BY <1>13, <2>1, <2>2
<1>5. job # None => job.handle \in Handles /\ job.surf \in Surfaces
  BY <1>2 DEF TypeInv, TypeOK, Jobs
<1>6. job # None => mem'[job.surf] = mem[job.surf]
  BY <1>1, <1>2, <1>3, <1>4, <1>5 DEF JobInv
<1>7. /\ shows' \in [Handles -> Times]
      /\ \A g \in Handles : g # h => shows'[g] = shows[g]
  <2>1. 0 \in Times
    <3>1. MaxTime \in Nat  BY DecoderAssumption
    <3> QED  BY <3>1 DEF Times
  <2> QED  BY <1>1, <1>2, <2>1 DEF TypeInv
<1>8. TypeInv'
  <2>1. TypeOK'  BY <1>1, <1>2, <1>3, <1>4, Memory DEF TypeInv, TypeOK, slotVars
  <2>2. IsFiniteSet(dpb') /\ Cardinality(dpb') <= MaxReferences
    <3>1. IsFiniteSet(dpb) /\ Cardinality(dpb) <= MaxReferences  BY <1>2 DEF TypeInv
    <3>2. /\ IsFiniteSet(dpb \ {h})
          /\ Cardinality(dpb \ {h}) = IF h \in dpb THEN Cardinality(dpb) - 1
                                      ELSE Cardinality(dpb)
      BY <3>1, FS_RemoveElement
    <3>3. Cardinality(dpb) \in Nat /\ MaxReferences \in Nat
      BY <3>1, FS_CardinalityType, DecoderAssumption
    <3> QED  BY <1>1, <3>1, <3>2, <3>3
  <2> QED  BY <1>1, <1>2, <1>4, <1>7, <2>1, <2>2 DEF TypeInv
<1>9. HandleInv'
  BY <1>1, <1>2, <1>3, <1>4 DEF HandleInv, TypeInv, TypeOK
<1>10. JobInv'
  BY <1>1, <1>2, <1>3, <1>4, <1>5, <1>6 DEF JobInv
<1>11. Follows => PictureInv'
  <2> SUFFICES ASSUME Follows PROVE PictureInv'  OBVIOUS
  <2>1. PictureInv  BY DEF IInv
  <2>2. UNCHANGED <<held, job, slotSurf, slotTime, cached>> /\ (Waiting' <=> Waiting)
    BY <1>1, <1>4 DEF slotVars, Waiting
  <2>3. ASSUME NEW g \in dpb'
        PROVE  g \in dpb /\ at'[g] = at[g] /\ mem'[at[g]] = mem[at[g]] /\ shows'[g] = shows[g]
    <3>1. g \in Handles /\ at[g] # None /\ g \in dpb /\ g # h
      BY <1>1, <1>2 DEF TypeInv, TypeOK, HandleInv
    <3>2. at[g] \in Surfaces  BY <1>2, <3>1 DEF TypeInv, TypeOK
    <3> QED  BY <1>3, <1>4, <1>7, <3>1, <3>2
  <2>4. \A g \in dpb' : Recorded(g) => Recorded(g)'  BY <2>2, <2>3 DEF Recorded
  <2> QED  BY <2>1, <2>2, <2>3, <2>4 DEF PictureInv
<1>12. /\ Monotonic => ClockInv'
       /\ Calm => KernelInv'
       /\ Calm /\ "second_decoder" \notin Admits => SlotInv'
       /\ Calm /\ Monotonic /\ Granted = NumBuffers => ~refused'
  BY <1>1, <1>6, QuietInv DEF Waiting
<1> QED  BY <1>8, <1>9, <1>10, <1>11, <1>12 DEF IInv, Follows, Monotonic, Calm

LEMMA EndShowInv ==
  ASSUME IInv, NEW s \in Surfaces, EndShow(s)
  PROVE  IInv'
<1>1. /\ Settle(at, detached \ {s}, cached, held, mem)
      /\ UNCHANGED <<dec, slotVars, clock, kernel, appVars, job, refused>>
  BY DEF EndShow
<1>2. TypeInv /\ HandleInv /\ JobInv  BY DEF IInv
<1>3. /\ at' = at /\ detached' = detached \ {s} /\ cached' = cached /\ held' = held
      /\ mem' \in [Surfaces -> Memories]
      /\ \A t \in Surfaces : (\E g \in Handles : at[g] = t) => mem'[t] = mem[t]
      /\ \A t \in Surfaces : held[t] > 0 => mem'[t] = mem[t]
  <2>1. mem \in [Surfaces -> Memories]  BY <1>2 DEF TypeInv
  <2> QED  BY <1>1, <2>1, SettleKeeps
<1>4. job # None => mem'[job.surf] = mem[job.surf]
  <2>1. job # None => job.surf \in Surfaces  BY <1>2 DEF TypeInv, TypeOK, Jobs
  <2> QED  BY <1>2, <1>3, <2>1 DEF JobInv
<1>5. TypeInv'
  <2>1. TypeOK'  BY <1>1, <1>2, <1>3, Memory DEF TypeInv, TypeOK, slotVars, appVars
  <2> QED  BY <1>1, <1>2, <1>3, <2>1 DEF TypeInv, slotVars, appVars
<1>6. HandleInv'  BY <1>1, <1>2, <1>3 DEF HandleInv, appVars
<1>7. JobInv'  BY <1>1, <1>2, <1>3, <1>4 DEF JobInv, appVars
<1>8. Follows => PictureInv'
  <2> SUFFICES ASSUME Follows PROVE PictureInv'  OBVIOUS
  <2>1. PictureInv  BY DEF IInv
  <2>2. /\ UNCHANGED <<held, job, dpb, shows, slotSurf, slotTime, cached, at>>
        /\ Waiting' <=> Waiting
    BY <1>1, <1>3 DEF slotVars, appVars, Waiting
  <2>3. \A g \in dpb : mem'[at[g]] = mem[at[g]]
    BY <1>2, <1>3 DEF TypeInv, TypeOK, HandleInv
  <2>4. \A g \in dpb : Recorded(g) => Recorded(g)'  BY <2>2, <2>3 DEF Recorded
  <2> QED  BY <2>1, <2>2, <2>3, <2>4 DEF PictureInv
<1>9. /\ Monotonic => ClockInv'
      /\ Calm => KernelInv'
      /\ Calm /\ "second_decoder" \notin Admits => SlotInv'
      /\ Calm /\ Monotonic /\ Granted = NumBuffers => ~refused'
  BY <1>1, <1>4, QuietInv DEF Waiting
<1> QED  BY <1>5, <1>6, <1>7, <1>8, <1>9 DEF IInv, Follows, Monotonic, Calm

-----------------------------------------------------------------------------
(* The start and the end of a render call.                                 *)

LEMMA RenderInv ==
  ASSUME IInv, NEW h \in Handles, NEW R \in SUBSET dpb, Render(h, R)
  PROVE  IInv'
<1>1. /\ dec /\ job = None /\ at[h] # None /\ h \notin R
      /\ Cardinality(R) <= MaxReferences
      /\ dpb' = R /\ shows' = [g \in Handles |-> IF g \in R THEN shows[g] ELSE 0]
      /\ UNCHANGED <<dec, slotVars, clock, kernel, refused>>
  BY DEF Render, MayRefer
<1>2. TypeInv /\ HandleInv  BY DEF IInv
<1>3. R \subseteq Handles /\ IsFiniteSet(R)
  BY <1>2, FS_Subset DEF TypeInv, TypeOK
<1>4. PICK ca \in AfterAllocation, s \in Surfaces, a \in [Handles -> Surfaces \cup {None}],
           de \in SUBSET Surfaces :
        /\ Settle(a, de, ca \ {s}, [held EXCEPT ![s] = @ + 1], mem)
        /\ job' = Job(h, R, s)
        /\ a[h] = s
        /\ \A g \in Handles : g # h => a[g] = at[g] /\ at[g] # s
  <2>1. PICK ca \in AfterAllocation :
          \/ /\ Settle(at, detached, ca \ {at[h]}, [held EXCEPT ![at[h]] = @ + 1], mem)
             /\ job' = Job(h, R, at[h])
          \/ \E s \in Allocatable(ca) :
               /\ Settle([at EXCEPT ![h] = s], detached \cup {at[h]}, ca \ {s},
                         [held EXCEPT ![s] = @ + 1], mem)
               /\ job' = Job(h, R, s)
    BY DEF Render
  <2>2. /\ at \in [Handles -> Surfaces \cup {None}] /\ at[h] \in Surfaces
        /\ detached \subseteq Surfaces /\ cached \subseteq Surfaces
    BY <1>1, <1>2 DEF TypeInv, TypeOK
  <2>3. CASE /\ Settle(at, detached, ca \ {at[h]}, [held EXCEPT ![at[h]] = @ + 1], mem)
             /\ job' = Job(h, R, at[h])
    <3>1. \A g \in Handles : g # h => at[g] # at[h]  BY <1>1, <1>2 DEF HandleInv
    <3> QED  BY <2>2, <2>3, <3>1
  <2>4. ASSUME NEW s \in Allocatable(ca),
               /\ Settle([at EXCEPT ![h] = s], detached \cup {at[h]}, ca \ {s},
                         [held EXCEPT ![s] = @ + 1], mem)
               /\ job' = Job(h, R, s)
        PROVE  \E t \in Surfaces, a \in [Handles -> Surfaces \cup {None}],
                  de \in SUBSET Surfaces :
                 /\ Settle(a, de, ca \ {t}, [held EXCEPT ![t] = @ + 1], mem)
                 /\ job' = Job(h, R, t)
                 /\ a[h] = t
                 /\ \A g \in Handles : g # h => a[g] = at[g] /\ at[g] # t
    <3>1. ca \subseteq Surfaces  BY <2>2, CacheAfter
    <3>2. s \in Surfaces /\ \A g \in Handles : at[g] # s  BY <3>1, AllocatableIs
    <3> DEFINE a == [at EXCEPT ![h] = s]
    <3>3. /\ a \in [Handles -> Surfaces \cup {None}] /\ a[h] = s
          /\ \A g \in Handles : g # h => a[g] = at[g]
      BY <2>2, <3>2
    <3>4. Settle(a, detached \cup {at[h]}, ca \ {s}, [held EXCEPT ![s] = @ + 1], mem)
      BY <2>4
    <3>5. detached \cup {at[h]} \in SUBSET Surfaces  BY <2>2
    <3> HIDE DEF a
    <3> QED  BY <2>4, <3>2, <3>3, <3>4, <3>5
  <2> QED  BY <2>1, <2>3, <2>4
<1> DEFINE he == [held EXCEPT ![s] = @ + 1]
<1>5. /\ he \in [Surfaces -> Nat] /\ he[s] = held[s] + 1
      /\ \A t \in Surfaces : t # s => he[t] = held[t]
  BY <1>2 DEF TypeInv, TypeOK
<1> HIDE DEF he
<1>6. /\ at' = a /\ detached' = de /\ cached' = ca \ {s} /\ held' = he
      /\ mem' \in [Surfaces -> Memories]
      /\ \A t \in Surfaces : (\E g \in Handles : a[g] = t) => mem'[t] = mem[t]
  <2>1. mem \in [Surfaces -> Memories]  BY <1>2 DEF TypeInv
  <2> QED  BY <1>4, <2>1, SettleKeeps DEF he
<1>7. ca \subseteq Surfaces /\ (Follows => ca = cached)
  BY <1>2, CacheAfter DEF TypeInv, TypeOK
<1>8. /\ job' \in Jobs /\ job' # None /\ ~job'.waits
      /\ job'.handle = h /\ job'.surf = s /\ job'.refs = R
  <2>1. job' \in Jobs  BY <1>3, <1>4 DEF Job, Jobs
  <2> QED  BY <1>4, <2>1, NoneIsNone DEF Job
<1>9. /\ slotSurf' = slotSurf /\ slotTime' = slotTime /\ clock' = clock
      /\ kernel' = kernel /\ refused' = refused
  BY <1>1 DEF slotVars
<1>10. shows' \in [Handles -> Times] /\ \A g \in R : shows'[g] = shows[g]
  <2>1. 0 \in Times
    <3>1. MaxTime \in Nat  BY DecoderAssumption
    <3> QED  BY <3>1 DEF Times
  <2> QED  BY <1>1, <1>2, <1>3, <2>1 DEF TypeInv
<1>11. TypeInv'
  <2>1. TypeOK'
    BY <1>1, <1>2, <1>3, <1>4, <1>5, <1>6, <1>7, <1>8, <1>9, Memory DEF TypeInv, TypeOK
  <2> QED  BY <1>1, <1>2, <1>3, <1>6, <1>9, <1>10, <2>1 DEF TypeInv
<1>12. HandleInv'
  <2>1. \A f, g \in Handles : a[f] = a[g] /\ a[f] # None => f = g
    BY <1>2, <1>4 DEF HandleInv
  <2>2. \A g \in R : a[g] # None  BY <1>1, <1>2, <1>3, <1>4 DEF HandleInv
  <2> QED  BY <1>1, <1>6, <2>1, <2>2 DEF HandleInv
<1>13. JobInv'
  <2>1. held'[s] > 0  BY <1>2, <1>5, <1>6 DEF TypeInv, TypeOK
  <2> QED  BY <1>1, <1>4, <1>6, <1>8, <2>1 DEF JobInv
<1>14. ~Waiting /\ ~Waiting' /\ \A k : ~Lent(k) /\ ~Lent(k)'
  BY <1>1, <1>8 DEF Waiting, Lent
<1>15. Follows => PictureInv'
  <2> SUFFICES ASSUME Follows PROVE PictureInv'  OBVIOUS
  <2>1. PictureInv /\ ca = cached  BY <1>7 DEF IInv
  <2>2. \A t \in Surfaces : held'[t] = IF t = s THEN 1 ELSE 0
    BY <1>1, <1>5, <1>6, <2>1 DEF PictureInv
  <2>3. ASSUME NEW g \in R
        PROVE  at'[g] = at[g] /\ mem'[at[g]] = mem[at[g]] /\ (at[g] \in cached => at[g] \in cached')
    <3>1. g \in Handles /\ g # h /\ at[g] # None /\ at[g] # s /\ a[g] = at[g]
      BY <1>1, <1>2, <1>3, <1>4 DEF HandleInv
    <3>2. at[g] \in Surfaces  BY <1>2, <3>1 DEF TypeInv, TypeOK
    <3> QED  BY <1>6, <2>1, <3>1, <3>2
  <2>4. \A g \in R : Recorded(g) => Recorded(g)'  BY <1>9, <1>10, <2>3 DEF Recorded
  <2>5. \A g \in R : Recorded(g)'  BY <2>1, <2>4 DEF PictureInv
  <2> QED  BY <1>1, <1>8, <1>14, <2>2, <2>5 DEF PictureInv
<1>16. Monotonic => ClockInv'  BY <1>9, <1>14 DEF IInv, ClockInv
<1>17. Calm => KernelInv'  BY <1>9, <1>14 DEF IInv, KernelInv
<1>18. Calm /\ "second_decoder" \notin Admits => SlotInv'
  BY <1>9, <1>14 DEF IInv, SlotInv
<1> QED
  BY <1>9, <1>11, <1>12, <1>13, <1>15, <1>16, <1>17, <1>18
  DEF IInv, Follows, Monotonic, Calm

\* A step that ends a call; held2 and mem2 are what it has changed before.
Ending(how, held2, mem2) ==
  /\ job # None /\ Return(job.surf, how, held2, mem2) /\ dec' = dec
  /\ held2 \in [Surfaces -> Nat] /\ held2[job.surf] > 0
  /\ mem2 \in [Surfaces -> Memories]
  /\ slotSurf' \in [Slots -> Surfaces \cup {None}] /\ slotTime' \in [Slots -> Times]
  /\ \A k \in Slots : slotTime'[k] # 0 => slotSurf'[k] # None
  /\ kernel' \in Kernels /\ clock' \in Times

\* What the end of a call leaves: the surface of the call is cached, nothing else with
\* a handle is dropped, and only a picture the application was told of is new.
LEMMA ReturnLeaves ==
  ASSUME TypeInv, HandleInv, JobInv, NEW how, NEW held2, NEW mem2,
         Ending(how, held2, mem2)
  PROVE  /\ TypeInv' /\ HandleInv' /\ JobInv'
         /\ at' = at /\ job' = None /\ (refused' <=> how = "refused")
         /\ held' = [held2 EXCEPT ![job.surf] = @ - 1]
         /\ \A h \in Handles : at[h] \in cached => at[h] \in cached'
         /\ job.surf \in cached'
         /\ \A h \in Handles : at[h] # None => mem'[at[h]] = mem2[at[h]]
         /\ \A h \in dpb : shows'[h] = shows[h]
         /\ \A h \in dpb' \ dpb : /\ h = job.handle /\ shows'[h] = mem2[job.surf].stamp
                                  /\ how = "ok" \/ "failed_reference" \in Admits
<1> DEFINE s == job.surf
           h == job.handle
           he == [held2 EXCEPT ![s] = @ - 1]
<1>1. /\ job # None /\ Return(s, how, held2, mem2) /\ dec' = dec
      /\ held2 \in [Surfaces -> Nat] /\ held2[s] > 0
      /\ mem2 \in [Surfaces -> Memories]
      /\ slotSurf' \in [Slots -> Surfaces \cup {None}] /\ slotTime' \in [Slots -> Times]
      /\ \A k \in Slots : slotTime'[k] # 0 => slotSurf'[k] # None
      /\ kernel' \in Kernels /\ clock' \in Times
  BY DEF Ending
<1>2. h \in Handles /\ s \in Surfaces /\ s # None
  BY <1>1, NoneIsNone DEF TypeInv, TypeOK, Jobs
<1>3. at[h] = s /\ dpb = job.refs /\ h \notin dpb /\ dec  BY <1>1 DEF JobInv
<1>4. dpb \subseteq Handles /\ cached \subseteq Surfaces /\ at \in [Handles -> Surfaces \cup {None}]
  BY DEF TypeInv, TypeOK
<1>5. he \in [Surfaces -> Nat]
  <2>1. held2[s] \in Nat /\ held2[s] > 0  BY <1>1, <1>2
  <2>2. held2[s] - 1 \in Nat  BY <2>1
  <2> QED  BY <1>1, <1>2, <2>2
<1>6. PICK old \in SUBSET Destroyed(cached) :
        Settle(at, detached, (cached \cup {s}) \ old, he, mem2)
  BY <1>1 DEF Return
<1>7. /\ job' = None /\ refused' \in BOOLEAN /\ (refused' <=> how = "refused")
      /\ \/ UNCHANGED appVars
         \/ /\ how = "ok" \/ "failed_reference" \in Admits
            /\ Cardinality(dpb) < MaxReferences
            /\ dpb' \in {dpb, dpb \cup {h}}
            /\ shows' = [shows EXCEPT ![h] = IF h \in dpb' THEN mem2[s].stamp ELSE 0]
  BY <1>1 DEF Return
<1> HIDE DEF s, h, he
<1>8. /\ at' = at /\ detached' = detached /\ cached' = (cached \cup {s}) \ old /\ held' = he
      /\ mem' \in [Surfaces -> Memories]
      /\ \A t \in Surfaces : (\E g \in Handles : at[g] = t) => mem'[t] = mem2[t]
  BY <1>1, <1>6, SettleKeeps
<1>9. \A g \in Handles : at[g] \notin old  BY <1>6 DEF Destroyed, Named
<1>10. /\ \A g \in Handles : at[g] \in cached => at[g] \in cached'
      /\ s \in cached'
  BY <1>2, <1>3, <1>8, <1>9
<1>11. \A g \in Handles : at[g] # None => mem'[at[g]] = mem2[at[g]]  BY <1>4, <1>8
<1>12. 0 \in Times
  <2>1. MaxTime \in Nat  BY DecoderAssumption
  <2> QED  BY <2>1 DEF Times
<1>13. /\ shows' \in [Handles -> Times]
       /\ \A g \in Handles : g # h => shows'[g] = shows[g]
       /\ dpb' \in {dpb, dpb \cup {h}}
       /\ h \in dpb' => /\ shows'[h] = mem2[s].stamp
                        /\ how = "ok" \/ "failed_reference" \in Admits
  <2>1. shows \in [Handles -> Times] /\ mem2[s].stamp \in Times
    BY <1>1, <1>2, Memory DEF TypeInv
  <2>2. CASE UNCHANGED appVars  BY <1>3, <2>1, <2>2 DEF appVars
  <2>3. CASE /\ how = "ok" \/ "failed_reference" \in Admits
             /\ dpb' \in {dpb, dpb \cup {h}}
             /\ shows' = [shows EXCEPT ![h] = IF h \in dpb' THEN mem2[s].stamp ELSE 0]
    BY <1>2, <1>12, <2>1, <2>3
  <2> QED  BY <1>7, <2>2, <2>3
<1>14. TypeInv'
  <2>1. IsFiniteSet(dpb') /\ Cardinality(dpb') <= MaxReferences
    <3>1. IsFiniteSet(dpb) /\ Cardinality(dpb) <= MaxReferences  BY DEF TypeInv
    <3>2. /\ IsFiniteSet(dpb \cup {h})
          /\ Cardinality(dpb \cup {h}) = IF h \in dpb THEN Cardinality(dpb)
                                         ELSE Cardinality(dpb) + 1
      BY <3>1, FS_AddElement
    <3>3. Cardinality(dpb) \in Nat /\ MaxReferences \in Nat
      BY <3>1, FS_CardinalityType, DecoderAssumption
    <3>4. dpb' = dpb \/ Cardinality(dpb) < MaxReferences  BY <1>7 DEF appVars
    <3> QED  BY <1>13, <3>1, <3>2, <3>3, <3>4
  <2>2. dpb' \subseteq Handles  BY <1>2, <1>4, <1>13
  <2>3. TypeOK'
    <3>1. cached' \subseteq Surfaces  BY <1>2, <1>4, <1>8
    <3>2. refused' \in BOOLEAN  BY <1>7
    <3>3. kernel'.req \in {"idle", "queued"}  BY <1>1 DEF Kernels
    <3>4. \A t \in Surfaces : mem'[t].idx \in Slots \cup {None} /\ mem'[t].stamp \in Times
      BY <1>8, Memory
    <3> QED  BY <1>1, <1>5, <1>7, <1>8, <2>2, <3>1, <3>2, <3>3, <3>4 DEF TypeInv, TypeOK
  <2> QED  BY <1>1, <1>8, <1>13, <2>1, <2>3 DEF TypeInv
<1>15. HandleInv'
  <2>1. \A g \in dpb' : at[g] # None  BY <1>2, <1>3, <1>13 DEF HandleInv
  <2> QED  BY <1>1, <1>3, <1>8, <2>1 DEF HandleInv
<1>16. JobInv'  BY <1>7 DEF JobInv
<1>17. /\ \A g \in dpb : shows'[g] = shows[g]
       /\ \A g \in dpb' \ dpb : /\ g = h /\ shows'[g] = mem2[s].stamp
                                /\ how = "ok" \/ "failed_reference" \in Admits
  BY <1>3, <1>4, <1>13
<1> QED  BY <1>7, <1>8, <1>10, <1>11, <1>14, <1>15, <1>16, <1>17 DEF s, h, he

\* The pictures the application refers to after a call: if they are where they were, and
\* the new one, if there is one, is where its surface and its slot say.
LEMMA ReturnPictures ==
  ASSUME TypeInv, HandleInv, JobInv, Follows, PictureInv, NEW how, NEW held2, NEW mem2,
         Ending(how, held2, mem2),
         \A t \in Surfaces : held2[t] = IF t = job.surf THEN 1 ELSE 0,
         \A h \in dpb : LET m == mem[at[h]]
                        IN /\ mem2[at[h]] = m
                           /\ slotSurf'[m.idx] = slotSurf[m.idx]
                           /\ slotTime'[m.idx] = slotTime[m.idx],
         how = "ok" => LET m == mem2[job.surf]
                       IN /\ m.idx # None /\ slotSurf'[m.idx] = job.surf
                          /\ slotTime'[m.idx] = m.stamp /\ m.stamp # 0
  PROVE  PictureInv'
<1>1. job # None /\ held2 \in [Surfaces -> Nat]  BY DEF Ending
<1>2. job.surf \in Surfaces /\ job.handle \in Handles  BY <1>1 DEF TypeInv, TypeOK, Jobs
<1>3. /\ at' = at /\ job' = None
      /\ held' = [held2 EXCEPT ![job.surf] = @ - 1]
      /\ \A h \in Handles : at[h] \in cached => at[h] \in cached'
      /\ job.surf \in cached'
      /\ \A h \in Handles : at[h] # None => mem'[at[h]] = mem2[at[h]]
      /\ \A h \in dpb : shows'[h] = shows[h]
      /\ \A h \in dpb' \ dpb : /\ h = job.handle /\ shows'[h] = mem2[job.surf].stamp
                               /\ how = "ok" \/ "failed_reference" \in Admits
  BY ReturnLeaves
<1>4. \A t \in Surfaces : held'[t] = 0  BY <1>1, <1>2, <1>3
<1>5. ~Waiting'  BY <1>3 DEF Waiting
<1>6. ASSUME NEW h \in dpb' PROVE Recorded(h)'
  <2>1. CASE h \in dpb
    <3>1. Recorded(h)  BY <2>1 DEF PictureInv
    <3>2. h \in Handles /\ at[h] # None  BY <2>1 DEF TypeInv, TypeOK, HandleInv
    <3>3. mem'[at[h]] = mem[at[h]] /\ shows'[h] = shows[h]  BY <1>3, <2>1, <3>2
    <3>4. /\ slotSurf'[mem[at[h]].idx] = slotSurf[mem[at[h]].idx]
          /\ slotTime'[mem[at[h]].idx] = slotTime[mem[at[h]].idx]
      BY <2>1
    <3> QED  BY <1>3, <3>1, <3>2, <3>3, <3>4 DEF Recorded
  <2>2. CASE h \notin dpb
    <3>1. h = job.handle /\ shows'[h] = mem2[job.surf].stamp /\ how = "ok"
      BY <1>3, <2>2 DEF Follows
    <3>2. at[h] = job.surf /\ at[h] # None  BY <1>1, <1>2, <3>1, NoneIsNone DEF JobInv
    <3>3. mem'[at[h]] = mem2[job.surf]  BY <1>2, <1>3, <3>1, <3>2
    <3> QED  BY <1>3, <3>1, <3>2, <3>3 DEF Recorded
  <2> QED  BY <2>1, <2>2
<1> QED  BY <1>3, <1>4, <1>5, <1>6 DEF PictureInv

\* Without a new picture in a slot, what slots and kernel know stays true, if the kernel
\* has nothing of this call.
LEMMA ReturnSlots ==
  ASSUME IInv, job # None, ~Waiting, job' = None, UNCHANGED slotVars, clock' \in Nat,
         clock' >= clock,
         Calm => /\ kernel'.req = "idle" /\ kernel'.out \in {"free", "request"}
                 /\ kernel'.cap = kernel.cap /\ kernel'.time = kernel.time
                 /\ kernel'.mem = kernel.mem
  PROVE  /\ Monotonic => ClockInv'
         /\ Calm => KernelInv'
         /\ Calm /\ "second_decoder" \notin Admits => SlotInv'
<1>1. slotSurf' = slotSurf /\ slotTime' = slotTime  BY DEF slotVars
<1>2. ~Waiting' /\ \A k : ~Lent(k) /\ ~Lent(k)'  BY DEF Waiting, Lent
<1>3. clock \in Nat /\ \A k \in Slots : slotTime[k] \in Nat
  <2>1. MaxTime \in Nat  BY DecoderAssumption
  <2> QED  BY <2>1 DEF IInv, TypeInv, TypeOK, Times
<1>4. ClockInv => ClockInv'  BY <1>1, <1>2, <1>3 DEF ClockInv
<1>5. Calm /\ KernelInv => KernelInv'  BY <1>2 DEF KernelInv
<1>6. Calm /\ SlotInv => SlotInv'  BY <1>1, <1>2 DEF SlotInv
<1> QED  BY <1>4, <1>5, <1>6 DEF IInv

LEMMA RenderUnsupportedInv ==
  ASSUME IInv, RenderUnsupported
  PROVE  IInv'
<1>1. /\ job # None /\ ~job.waits /\ Return(job.surf, "failed", held, mem)
      /\ UNCHANGED <<dec, slotVars, clock, kernel>>
  BY DEF RenderUnsupported
<1>2. TypeInv /\ HandleInv /\ JobInv  BY DEF IInv
<1>3. /\ held \in [Surfaces -> Nat] /\ mem \in [Surfaces -> Memories]
      /\ held[job.surf] > 0 /\ kernel' = kernel /\ clock' = clock /\ dec' = dec
      /\ slotSurf' = slotSurf /\ slotTime' = slotTime
  BY <1>1, <1>2 DEF TypeInv, TypeOK, JobInv, slotVars
<1>4. /\ slotSurf' \in [Slots -> Surfaces \cup {None}] /\ slotTime' \in [Slots -> Times]
      /\ \A k \in Slots : slotTime'[k] # 0 => slotSurf'[k] # None
      /\ kernel' \in Kernels /\ clock' \in Times
  BY <1>2, <1>3 DEF TypeInv, TypeOK
<1>5. Ending("failed", held, mem)  BY <1>1, <1>3, <1>4 DEF Ending
<1>6. TypeInv' /\ HandleInv' /\ JobInv' /\ job' = None /\ ~refused'
  BY <1>2, <1>5, ReturnLeaves
<1>7. Follows => PictureInv'
  <2>1. Follows => \A t \in Surfaces : held[t] = IF t = job.surf THEN 1 ELSE 0
    BY <1>1 DEF IInv, PictureInv
  <2>2. Follows => PictureInv  BY DEF IInv
  <2> QED  BY <1>2, <1>3, <1>5, <2>1, <2>2, ReturnPictures
<1>8. ~Waiting  BY <1>1 DEF Waiting
<1>9. clock' \in Nat /\ clock' >= clock
  <2>1. MaxTime \in Nat  BY DecoderAssumption
  <2> QED  BY <1>3, <1>4, <2>1 DEF Times
<1>10. Calm => kernel.req = "idle" /\ kernel.out \in {"free", "request"}
  BY <1>2, <1>8 DEF IInv, KernelInv, TypeInv, TypeOK
<1>11. /\ Monotonic => ClockInv'
       /\ Calm => KernelInv'
       /\ Calm /\ "second_decoder" \notin Admits => SlotInv'
  <2>1. UNCHANGED slotVars  BY <1>1
  <2> QED  BY <1>1, <1>3, <1>6, <1>8, <1>9, <1>10, <2>1, ReturnSlots
<1> QED  BY <1>6, <1>7, <1>11 DEF IInv, Follows, Monotonic, Calm

-----------------------------------------------------------------------------
(* The calls to the kernel, in their order. Each has outcomes; one that is *)
(* not a success ends the sequence.                                        *)

\* Before a picture: the kernel has no buffer and works on no request.
Free(k) ==
  /\ Calm /\ k.req = "idle" /\ k.out \in {"free", "request"}
  /\ \A j \in Slots : k.cap[j] = "free"

\* A kernel that has got nothing but, perhaps, the bitstream.
Untouched(u, k) ==
  /\ u.req = "idle" /\ u.out \in {"free", "request"}
  /\ u.cap = k.cap /\ u.time = k.time /\ u.mem = k.mem

Failure(o, k) ==
  /\ ~o.ok /\ o.k \in Kernels
  /\ Free(k) => Untouched(o.k, k) /\ (o.refused => Granted < NumBuffers)

Success(o) == o.ok /\ o.k \in Kernels

\* After media_request_reinit and the controls; after the bitstream of a picture at the
\* time `now`; after surface s in slot i.
Ready(u, k) == Untouched(u, k) /\ u.out = "free"
WithBitstream(u, k, now) == Untouched(u, k) /\ u.out = "request" /\ u.outTime = now
WithSurface(u, k, now, i, s) ==
  /\ u.req = "idle" /\ u.out = "request" /\ u.outTime = now
  /\ u.cap = [k.cap EXCEPT ![i] = "queued"]
  /\ u.time = [k.time EXCEPT ![i] = 0] /\ u.mem = [k.mem EXCEPT ![i] = s]
Working(u, k, now, i, s) ==
  /\ u.req = "queued" /\ u.out = "queued" /\ u.outTime = now
  /\ u.cap = [k.cap EXCEPT ![i] = "queued"]
  /\ u.time = [k.time EXCEPT ![i] = 0] /\ u.mem = [k.mem EXCEPT ![i] = s]

LEMMA TimeZero == 0 \in Times
<1>1. MaxTime \in Nat  BY DecoderAssumption
<1> QED  BY <1>1 DEF Times

\* The fields of a kernel.
LEMMA KernelFields ==
  ASSUME NEW k \in Kernels
  PROVE  /\ k = [req |-> k.req, out |-> k.out, outTime |-> k.outTime, error |-> k.error,
                 cap |-> k.cap, time |-> k.time, mem |-> k.mem]
         /\ k.req \in {"idle", "queued"} /\ k.out \in {"free", "request", "queued", "done"}
         /\ k.outTime \in Times /\ k.error \in BOOLEAN
         /\ k.cap \in [Slots -> {"free", "queued", "done"}]
         /\ k.time \in [Slots -> Times] /\ k.mem \in [Slots -> Surfaces \cup {None}]
  BY DEF Kernels

\* What a call leaves of a kernel that cannot be asked.
LEMMA RefusedIs ==
  ASSUME NEW k
  PROVE  Refused(k).k = k /\ ~Refused(k).ok /\ Refused(k).refused
  BY DEF Refused

LEMMA TookIs ==
  ASSUME NEW k
  PROVE  Took(k).k = k /\ Took(k).ok /\ ~Took(k).refused
  BY DEF Took

LEMMA FailedIs ==
  ASSUME NEW k, NEW call, NEW o \in Failed(k, call)
  PROVE  /\ o = [k |-> k, ok |-> FALSE, refused |-> FALSE] /\ call \in KernelFails
         /\ o.k = k /\ ~o.ok /\ ~o.refused
<1>1. o = [k |-> k, ok |-> FALSE, refused |-> FALSE] /\ call \in KernelFails
  BY Zenon DEF Failed
<1> QED  BY <1>1

LEMMA ReinitIs ==
  ASSUME NEW k \in Kernels, NEW o \in Reinit(k)
  PROVE  \/ Failure(o, k)
         \/ Success(o) /\ (Free(k) => Ready(o.k, k))
<1>1. CASE k.req = "queued"
  <2>1. o = Refused(k)  BY <1>1 DEF Reinit
  <2> QED  BY <1>1, <2>1, RefusedIs DEF Failure, Free
<1>2. CASE k.req # "queued"
  <2> DEFINE u == [k EXCEPT !.out = IF @ = "request" THEN "free" ELSE @,
                            !.outTime = IF k.out = "request" THEN 0 ELSE @]
  <2>1. o = Took(u)  BY <1>2 DEF Reinit
  <2>2. /\ u \in Kernels
        /\ u.req = k.req /\ u.out = (IF k.out = "request" THEN "free" ELSE k.out)
        /\ u.cap = k.cap /\ u.time = k.time /\ u.mem = k.mem
    BY KernelFields, TimeZero DEF Kernels
  <2> HIDE DEF u
  <2>3. o.k = u /\ o.ok  BY <2>1, TookIs
  <2> QED  BY <2>2, <2>3 DEF Success, Free, Ready, Untouched
<1> QED  BY <1>1, <1>2

LEMMA ControlIs ==
  ASSUME NEW k, NEW u \in Kernels, Free(k) => Ready(u, k), NEW o \in Control(u)
  PROVE  \/ Failure(o, k)
         \/ Success(o) /\ (Free(k) => Ready(o.k, k))
<1>1. CASE o = Took(u)  BY <1>1, TookIs DEF Success
<1>2. CASE o \in Failed(u, "control")  BY <1>2, FailedIs DEF Failure, Ready
<1> QED  BY <1>1, <1>2 DEF Control

LEMMA QueueBitstreamIs ==
  ASSUME NEW k, NEW u \in Kernels, Free(k) => Ready(u, k), NEW now \in Times,
         NEW o \in QueueBitstream(u, now)
  PROVE  \/ Failure(o, k)
         \/ Success(o) /\ (Free(k) => WithBitstream(o.k, k, now))
<1>1. CASE u.out # "free"
  <2>1. o = Refused(u)  BY <1>1 DEF QueueBitstream
  <2> QED  BY <1>1, <2>1, RefusedIs DEF Failure, Ready
<1>2. CASE u.out = "free" /\ o \in Failed(u, "output")
  BY <1>2, FailedIs DEF Failure, Ready
<1>3. CASE u.out = "free" /\ o \notin Failed(u, "output")
  <2> DEFINE v == [u EXCEPT !.out = "request", !.outTime = now]
  <2>1. o = Took(v)  BY <1>3 DEF QueueBitstream
  <2>2. /\ v \in Kernels /\ v.req = u.req /\ v.out = "request" /\ v.outTime = now
        /\ v.cap = u.cap /\ v.time = u.time /\ v.mem = u.mem
    BY KernelFields DEF Kernels
  <2> HIDE DEF v
  <2>3. o.k = v /\ o.ok  BY <2>1, TookIs
  <2> QED  BY <2>2, <2>3 DEF Success, Ready, Untouched, WithBitstream
<1> QED  BY <1>1, <1>2, <1>3

\* Dequeueing what is not done does nothing; nor does it take what a slot has.
LEMMA DequeueBitstreamIs ==
  ASSUME NEW u \in Kernels
  PROVE  /\ DequeueBitstream(u) \in Kernels
         /\ DequeueBitstream(u).out = IF u.out = "done" THEN "free" ELSE u.out
         /\ u.out # "done" => DequeueBitstream(u).outTime = u.outTime
         /\ DequeueBitstream(u).req = u.req /\ DequeueBitstream(u).cap = u.cap
         /\ DequeueBitstream(u).time = u.time /\ DequeueBitstream(u).mem = u.mem
<1>1. CASE u.out = "done"
  BY <1>1, KernelFields, TimeZero DEF DequeueBitstream, Kernels
<1>2. CASE u.out # "done"  BY <1>2 DEF DequeueBitstream
<1> QED  BY <1>1, <1>2

LEMMA DequeueSurfaceIs ==
  ASSUME NEW u \in Kernels
  PROVE  /\ DequeueSurface(u) \in Kernels
         /\ DequeueSurface(u).out = u.out /\ DequeueSurface(u).req = u.req
         /\ DequeueSurface(u).time = u.time /\ DequeueSurface(u).mem = u.mem
         /\ \A i \in Slots : (\A j \in Slots : u.cap[j] = "done" <=> j = i) =>
              DequeueSurface(u).cap = [u.cap EXCEPT ![i] = "free"]
<1> DEFINE done == {i \in Slots : u.cap[i] = "done"}
           v == [u EXCEPT !.cap[Min(done)] = "free", !.error = FALSE]
<1>1. DequeueSurface(u) = IF done = {} THEN u ELSE v  BY DEF DequeueSurface
<1>2. CASE done = {}  BY <1>1, <1>2
<1>3. CASE done # {}
  <2>1. Min(done) \in done
    <3>1. done \in SUBSET Nat  BY SlotsAreNumbers
    <3> QED  BY <1>3, <3>1, MinIn
  <2> DEFINE m == Min(done)
  <2> HIDE DEF m
  <2>2. m \in Slots /\ u.cap[m] = "done"  BY <2>1 DEF m
  <2>3. v = [u EXCEPT !.cap[m] = "free", !.error = FALSE]  BY DEF m
  <2> HIDE DEF v
  <2>4. /\ v \in Kernels /\ v.out = u.out /\ v.req = u.req /\ v.time = u.time /\ v.mem = u.mem
        /\ v.cap = [u.cap EXCEPT ![m] = "free"]
    <3>1. [u.cap EXCEPT ![m] = "free"] \in [Slots -> {"free", "queued", "done"}]
      BY KernelFields
    <3> QED  BY <2>3, <3>1, KernelFields DEF Kernels
  <2> QED  BY <1>1, <1>3, <2>2, <2>4
<1> QED  BY <1>2, <1>3

LEMMA QueueSurfaceIs ==
  ASSUME NEW k, NEW u \in Kernels, NEW now,
         Free(k) => WithBitstream(u, k, now),
         NEW i \in Slots, NEW s \in Surfaces, NEW o \in QueueSurface(u, i, s)
  PROVE  \/ Failure(o, k)
         \/ Success(o) /\ (Free(k) => WithSurface(o.k, k, now, i, s))
<1> DEFINE v == [u EXCEPT !.cap[i] = "queued", !.time[i] = 0, !.mem[i] = s]
           S == IF i >= Granted \/ u.cap[i] # "free" THEN {Refused(u)}
                ELSE {Took(v)} \cup Failed(u, "capture")
<1>1. PICK p \in S : o = [p EXCEPT !.k = IF p.ok THEN p.k ELSE DequeueBitstream(p.k)]
  BY DEF QueueSurface
<1>2. CASE p = Refused(u) /\ (i >= Granted \/ u.cap[i] # "free")
  <2>1. o = [k |-> DequeueBitstream(u), ok |-> FALSE, refused |-> TRUE]
    BY <1>1, <1>2 DEF Refused
  <2>2. Free(k) => u.out = "request" /\ i >= Granted
    BY <1>2 DEF Free, WithBitstream, Untouched
  <2>3. i >= Granted => Granted < NumBuffers
    <3>1. i \in Nat /\ i < NumBuffers /\ NumBuffers \in Nat /\ Granted \in Nat
      BY SlotsAreNumbers, DecoderAssumption
    <3> QED  BY <3>1
  <2>4. Free(k) => Untouched(DequeueBitstream(u), k)
    BY <2>2, DequeueBitstreamIs DEF WithBitstream, Untouched
  <2> QED  BY <2>1, <2>2, <2>3, <2>4, DequeueBitstreamIs DEF Failure
<1>3. CASE p \in Failed(u, "capture")
  <2>1. o = [k |-> DequeueBitstream(u), ok |-> FALSE, refused |-> FALSE]
    <3>1. p = [k |-> u, ok |-> FALSE, refused |-> FALSE]  BY <1>3, FailedIs
    <3> QED  BY <1>1, <3>1
  <2>2. Free(k) => Untouched(DequeueBitstream(u), k)
    BY DequeueBitstreamIs DEF WithBitstream, Untouched
  <2> QED  BY <2>1, <2>2, DequeueBitstreamIs DEF Failure
<1>4. CASE p = Took(v)
  <2>1. o = [k |-> v, ok |-> TRUE, refused |-> FALSE]  BY <1>1, <1>4 DEF Took
  <2>2. /\ v.req = u.req /\ v.out = u.out /\ v.outTime = u.outTime
        /\ v.cap = [u.cap EXCEPT ![i] = "queued"]
        /\ v.time = [u.time EXCEPT ![i] = 0] /\ v.mem = [u.mem EXCEPT ![i] = s]
    BY KernelFields DEF Kernels
  <2>3. v \in Kernels
    <3>1. [u.cap EXCEPT ![i] = "queued"] \in [Slots -> {"free", "queued", "done"}]
      BY KernelFields
    <3>2. [u.time EXCEPT ![i] = 0] \in [Slots -> Times]  BY KernelFields, TimeZero
    <3>3. [u.mem EXCEPT ![i] = s] \in [Slots -> Surfaces \cup {None}]  BY KernelFields
    <3> QED  BY <3>1, <3>2, <3>3, KernelFields DEF Kernels
  <2> HIDE DEF v
  <2> QED  BY <2>1, <2>2, <2>3 DEF Success, WithBitstream, Untouched, WithSurface
<1> QED  BY <1>1, <1>2, <1>3, <1>4

LEMMA QueueRequestIs ==
  ASSUME NEW k, NEW u \in Kernels, NEW now, NEW i, NEW s,
         Free(k) => WithSurface(u, k, now, i, s), NEW o \in QueueRequest(u)
  PROVE  \/ Failure(o, k)
         \/ Success(o) /\ (Free(k) => Working(o.k, k, now, i, s))
<1> DEFINE v == [u EXCEPT !.req = "queued", !.out = "queued"]
           w == DequeueBitstream(DequeueSurface(u))
<1>1. CASE o = Took(v)
  <2>1. /\ v \in Kernels /\ v.req = "queued" /\ v.out = "queued" /\ v.outTime = u.outTime
        /\ v.cap = u.cap /\ v.time = u.time /\ v.mem = u.mem
    BY KernelFields DEF Kernels
  <2> HIDE DEF v
  <2>2. o.k = v /\ o.ok  BY <1>1, TookIs
  <2> QED  BY <2>1, <2>2 DEF Success, WithSurface, Working
<1>2. CASE o # Took(v)
  <2>1. PICK p \in Failed(u, "request") :
          o = [p EXCEPT !.k = w]
    BY <1>2, Zenon DEF QueueRequest
  <2>2. o = [k |-> w, ok |-> FALSE, refused |-> FALSE] /\ "request" \in KernelFails
    <3>1. p = [k |-> u, ok |-> FALSE, refused |-> FALSE] /\ "request" \in KernelFails
      BY FailedIs
    <3> HIDE DEF w
    <3> QED  BY <2>1, <3>1
  <2>3. w \in Kernels  BY DequeueBitstreamIs, DequeueSurfaceIs
  <2>4. ~Free(k)  BY <2>2 DEF Free, Calm
  <2> QED  BY <2>2, <2>3, <2>4 DEF Failure
<1> QED  BY <1>1, <1>2

\* All of them.
Queueing(k, now, i, s) ==
  Then(Then(Then(Then(Reinit(k), Control), LAMBDA u : QueueBitstream(u, now)),
            LAMBDA u : QueueSurface(u, i, s)),
       QueueRequest)

LEMMA QueueingIs ==
  ASSUME NEW k \in Kernels, NEW now \in Times, NEW i \in Slots, NEW s \in Surfaces,
         NEW o \in Queueing(k, now, i, s)
  PROVE  \/ Failure(o, k)
         \/ Success(o) /\ (Free(k) => Working(o.k, k, now, i, s))
<1> DEFINE A == Reinit(k)
           B == UNION {IF p.ok THEN Control(p.k) ELSE {p} : p \in A}
           C == UNION {IF p.ok THEN QueueBitstream(p.k, now) ELSE {p} : p \in B}
           D == UNION {IF p.ok THEN QueueSurface(p.k, i, s) ELSE {p} : p \in C}
           E == UNION {IF p.ok THEN QueueRequest(p.k) ELSE {p} : p \in D}
<1>1. Queueing(k, now, i, s) = E  BY Zenon DEF Queueing, Then
<1>2. \A p \in A : Failure(p, k) \/ (Success(p) /\ (Free(k) => Ready(p.k, k)))
  BY ReinitIs
<1>3. \A p : Failure(p, k) => ~p.ok  BY DEF Failure
<1>4. \A p \in B : Failure(p, k) \/ (Success(p) /\ (Free(k) => Ready(p.k, k)))
  <2> TAKE p \in B
  <2>1. PICK q \in A : p \in IF q.ok THEN Control(q.k) ELSE {q}  OBVIOUS
  <2>2. CASE Failure(q, k)  BY <1>3, <2>1, <2>2
  <2>3. CASE Success(q) /\ (Free(k) => Ready(q.k, k))
    <3>1. q.ok /\ q.k \in Kernels /\ p \in Control(q.k)  BY <2>1, <2>3 DEF Success
    <3> QED  BY <2>3, <3>1, ControlIs
  <2> QED  BY <1>2, <2>2, <2>3
<1>5. \A p \in C : Failure(p, k) \/ (Success(p) /\ (Free(k) => WithBitstream(p.k, k, now)))
  <2> TAKE p \in C
  <2>1. PICK q \in B : p \in IF q.ok THEN QueueBitstream(q.k, now) ELSE {q}  OBVIOUS
  <2>2. CASE Failure(q, k)  BY <1>3, <2>1, <2>2
  <2>3. CASE Success(q) /\ (Free(k) => Ready(q.k, k))
    <3>1. q.ok /\ q.k \in Kernels /\ p \in QueueBitstream(q.k, now)
      BY <2>1, <2>3 DEF Success
    <3> QED  BY <2>3, <3>1, QueueBitstreamIs
  <2> QED  BY <1>4, <2>2, <2>3
<1>6. \A p \in D :
        Failure(p, k) \/ (Success(p) /\ (Free(k) => WithSurface(p.k, k, now, i, s)))
  <2> TAKE p \in D
  <2>1. PICK q \in C : p \in IF q.ok THEN QueueSurface(q.k, i, s) ELSE {q}  OBVIOUS
  <2>2. CASE Failure(q, k)  BY <1>3, <2>1, <2>2
  <2>3. CASE Success(q) /\ (Free(k) => WithBitstream(q.k, k, now))
    <3>1. q.ok /\ q.k \in Kernels /\ p \in QueueSurface(q.k, i, s)
      BY <2>1, <2>3 DEF Success
    <3> QED  BY <2>3, <3>1, QueueSurfaceIs
  <2> QED  BY <1>5, <2>2, <2>3
<1>7. \A p \in E :
        Failure(p, k) \/ (Success(p) /\ (Free(k) => Working(p.k, k, now, i, s)))
  <2> TAKE p \in E
  <2>1. PICK q \in D : p \in IF q.ok THEN QueueRequest(q.k) ELSE {q}  OBVIOUS
  <2>2. CASE Failure(q, k)  BY <1>3, <2>1, <2>2
  <2>3. CASE Success(q) /\ (Free(k) => WithSurface(q.k, k, now, i, s))
    <3>1. q.ok /\ q.k \in Kernels /\ p \in QueueRequest(q.k)  BY <2>1, <2>3 DEF Success
    <3> QED  BY <2>3, <3>1, QueueRequestIs
  <2> QED  BY <1>6, <2>2, <2>3
<1> HIDE DEF A, B, C, D, E
<1> QED  BY <1>1, <1>7

-----------------------------------------------------------------------------
(* Decoding.                                                               *)

\* Between calls the kernel is free.
LEMMA KernelIsFree ==
  ASSUME IInv, Calm, ~Waiting
  PROVE  Free(kernel)
<1>1. kernel.req \in {"idle", "queued"}  BY DEF IInv, TypeInv, Kernels
<1>2. KernelInv /\ \A k \in Slots : ~Lent(k)  BY DEF IInv, Lent
<1> QED  BY <1>1, <1>2 DEF KernelInv, Free

\* A reference that is recorded is passed.
LEMMA PassedIs ==
  ASSUME NEW R
  PROVE  Passed(R) = {r \in R : /\ mem[at[r]].idx # None /\ at[r] \in cached
                                /\ slotSurf[mem[at[r]].idx] = at[r]}
  BY DEF Passed

LEMMA AllPassed ==
  ASSUME TypeInv, HandleInv, PictureInv
  PROVE  Passed(dpb) = dpb
  BY PassedIs DEF PictureInv, Recorded

LEMMA SubmitInv ==
  ASSUME IInv, Submit
  PROVE  IInv'
<1> DEFINE s == job.surf
           slot == SlotOf(s, job.refs)
           passed == Passed(job.refs)
           lost == {at[r] : r \in job.refs \ passed}
           kept == [t \in Surfaces |-> IF t \in lost THEN held[t] + 1 ELSE held[t]]
           stamped(now) == [mem EXCEPT ![s].stamp = now]
           entries == {slotTime[mem[at[r]].idx] : r \in passed}
           next == [job EXCEPT !.slot = slot, !.waits = TRUE, !.lost = job.refs \ passed,
                               !.entries = entries]
<1>1. job # None /\ ~job.waits /\ UNCHANGED <<dec, slotVars>>  BY DEF Submit
<1>2. \/ slot = None /\ Return(s, "refused", held, mem) /\ UNCHANGED <<clock, kernel>>
      \/ slot # None /\ \E now \in NewTimes : \E o \in Queueing(kernel, now, slot, s) :
           /\ kernel' = o.k /\ clock' = now
           /\ \/ /\ o.ok /\ job' = next
                 /\ Settle(at, detached, cached, kept, stamped(now))
                 /\ UNCHANGED <<appVars, refused>>
              \/ ~o.ok /\ Return(s, IF o.refused THEN "refused" ELSE "failed", kept,
                                 stamped(now))
  BY Zenon DEF Submit, Queueing
<1>3. TypeInv /\ HandleInv /\ JobInv  BY DEF IInv
<1>4. /\ job \in Jobs /\ s \in Surfaces /\ job.handle \in Handles /\ job.refs = dpb
      /\ at[job.handle] = s /\ job.handle \notin dpb /\ dpb \subseteq Handles
      /\ held[s] > 0 /\ dec
  BY <1>1, <1>3 DEF TypeInv, TypeOK, JobInv, Jobs
<1>5. ~Waiting /\ \A k : ~Lent(k)  BY <1>1 DEF Waiting, Lent
<1>6. /\ held \in [Surfaces -> Nat] /\ mem \in [Surfaces -> Memories] /\ kernel \in Kernels
      /\ clock \in Times /\ at \in [Handles -> Surfaces \cup {None}] /\ cached \subseteq Surfaces
      /\ slotTime \in [Slots -> Times] /\ slotSurf \in [Slots -> Surfaces \cup {None}]
      /\ \A k \in Slots : slotTime[k] # 0 => slotSurf[k] # None
  BY <1>3 DEF TypeInv, TypeOK
<1>7. dec' = dec /\ slotSurf' = slotSurf /\ slotTime' = slotTime  BY <1>1 DEF slotVars
<1>8. Follows => passed = dpb /\ lost = {} /\ kept = held
  <2>1. Follows => passed = dpb  BY <1>3, <1>4, AllPassed DEF IInv
  <2>2. Follows => lost = {}  BY <1>4, <2>1
  <2> HIDE DEF lost
  <2>3. Follows => kept = held  BY <1>6, <2>2
  <2> QED  BY <2>1, <2>2, <2>3
<1>9. kept \in [Surfaces -> Nat] /\ kept[s] > 0
  <2> HIDE DEF lost
  <2>1. \A t \in Surfaces : held[t] \in Nat /\ held[t] + 1 \in Nat  BY <1>6
  <2>2. kept \in [Surfaces -> Nat]  BY <2>1
  <2>3. kept[s] = held[s] \/ kept[s] = held[s] + 1  BY <1>4
  <2> QED  BY <1>4, <2>1, <2>2, <2>3
<1>10. slot = None \/ slot \in Slots  BY SlotOfSuits
<1>11. Follows => PictureInv /\ \A t \in Surfaces : held[t] = IF t = s THEN 1 ELSE 0
  BY <1>1 DEF IInv, PictureInv
<1>12. \A h \in dpb : h \in Handles /\ at[h] \in Surfaces /\ at[h] # s
  <2> TAKE h \in dpb
  <2>1. h \in Handles /\ at[h] # None /\ h # job.handle  BY <1>3, <1>4 DEF HandleInv
  <2> QED  BY <1>3, <1>4, <1>6, <2>1 DEF HandleInv
<1>13. clock \in Nat /\ \A t \in Times : t \in Nat
  <2>1. MaxTime \in Nat  BY DecoderAssumption
  <2> QED  BY <1>6, <2>1 DEF Times
<1>14. \A now \in NewTimes : now \in Times /\ now # 0 /\ (Monotonic => now = clock + 1)
  BY <1>13 DEF NewTimes, Monotonic
<1>15. \A now \in Times :
         /\ stamped(now) \in [Surfaces -> Memories]
         /\ stamped(now)[s].stamp = now
         /\ \A t \in Surfaces : t # s => stamped(now)[t] = mem[t]
  BY <1>4, <1>6 DEF Memories
<1>16. Calm => Free(kernel)  BY <1>5, KernelIsFree
<1> HIDE DEF s, slot, passed, lost, kept, stamped, entries, next
<1>17. CASE slot = None /\ Return(s, "refused", held, mem) /\ UNCHANGED <<clock, kernel>>
  <2>1. Ending("refused", held, mem)
    BY <1>1, <1>4, <1>6, <1>7, <1>17 DEF Ending, s
  <2>2. TypeInv' /\ HandleInv' /\ JobInv' /\ job' = None  BY <1>3, <2>1, ReturnLeaves
  <2>3. Follows => PictureInv'
    BY <1>3, <1>7, <1>11, <2>1, ReturnPictures DEF s
  <2>4. /\ Monotonic => ClockInv'
        /\ Calm => KernelInv'
        /\ Calm /\ "second_decoder" \notin Admits => SlotInv'
    <3>1. UNCHANGED slotVars /\ clock' \in Nat /\ clock' >= clock  BY <1>1, <1>13, <1>17
    <3>2. Calm => kernel.req = "idle" /\ kernel.out \in {"free", "request"}
      BY <1>16 DEF Free
    <3> QED  BY <1>1, <1>5, <1>17, <2>2, <3>1, <3>2, ReturnSlots
  <2>5. ~Monotonic
    <3> SUFFICES ASSUME Monotonic PROVE FALSE  OBVIOUS
    <3>1. \A j, k \in Slots : slotTime[j] = slotTime[k] /\ slotTime[j] # 0 => j = k
      BY DEF IInv, ClockInv
    <3>2. IsFiniteSet(dpb) /\ Cardinality(dpb) <= MaxReferences  BY <1>3 DEF TypeInv
    <3>3. SlotOf(s, dpb) \in Slots  BY <3>1, <3>2, SlotIsFound
    <3> QED  BY <1>4, <1>17, <3>3, NoneIsNone DEF slot
  <2> QED  BY <2>2, <2>3, <2>4, <2>5 DEF IInv, Follows, Monotonic, Calm
<1>18. ASSUME slot # None, NEW now \in NewTimes, NEW o \in Queueing(kernel, now, slot, s),
              kernel' = o.k, clock' = now, ~o.ok,
              Return(s, IF o.refused THEN "refused" ELSE "failed", kept, stamped(now))
       PROVE  IInv'
  <2> DEFINE how == IF o.refused THEN "refused" ELSE "failed"
  <2>1. now \in Times /\ now # 0 /\ slot \in Slots  BY <1>10, <1>14, <1>18
  <2>2. Failure(o, kernel)
    <3>1. Failure(o, kernel) \/ Success(o)  BY <1>4, <1>6, <2>1, QueueingIs
    <3> QED  BY <1>18, <3>1 DEF Success
  <2>3. Ending(how, kept, stamped(now))
    <3>1. kernel' \in Kernels  BY <1>18, <2>2 DEF Failure
    <3> QED  BY <1>1, <1>4, <1>6, <1>7, <1>9, <1>15, <1>18, <2>1, <3>1 DEF Ending, s
  <2>4. how # "ok" /\ (how = "refused" => o.refused)  OBVIOUS
  <2> HIDE DEF how
  <2>5. TypeInv' /\ HandleInv' /\ JobInv' /\ job' = None /\ (refused' <=> how = "refused")
    BY <1>3, <2>3, ReturnLeaves
  <2>6. Follows => PictureInv'
    <3> SUFFICES ASSUME Follows PROVE PictureInv'  OBVIOUS
    <3>1. \A t \in Surfaces : kept[t] = IF t = job.surf THEN 1 ELSE 0
      BY <1>8, <1>11 DEF s
    <3>2. \A h \in dpb : stamped(now)[at[h]] = mem[at[h]]  BY <1>12, <1>15, <2>1
    <3> QED  BY <1>3, <1>7, <1>11, <2>3, <2>4, <3>1, <3>2, ReturnPictures
  <2>7. Calm => Untouched(kernel', kernel) /\ (o.refused => Granted < NumBuffers)
    BY <1>16, <1>18, <2>2 DEF Failure
  <2>8. Monotonic => clock' = clock + 1  BY <1>14, <1>18
  <2>9. Monotonic => ClockInv'
    <3> SUFFICES ASSUME Monotonic PROVE ClockInv'  OBVIOUS
    <3>1. clock' = clock + 1 /\ ClockInv /\ ~Waiting'
      BY <2>5, <2>8 DEF IInv, Waiting
    <3>2. \A k \in Slots : slotTime[k] \in Nat  BY <1>6, <1>13
    <3> QED  BY <1>7, <1>13, <3>1, <3>2 DEF ClockInv
  <2>10. Calm => KernelInv' /\ (SlotInv => SlotInv')
    <3> SUFFICES ASSUME Calm PROVE KernelInv' /\ (SlotInv => SlotInv')  OBVIOUS
    <3>1. ~Waiting' /\ \A k : ~Lent(k)'  BY <2>5 DEF Waiting, Lent
    <3>2. KernelInv  BY DEF IInv
    <3>3. /\ kernel'.req = "idle" /\ kernel'.out \in {"free", "request"}
          /\ kernel'.cap = kernel.cap /\ kernel'.time = kernel.time
          /\ kernel'.mem = kernel.mem
      BY <2>7 DEF Untouched
    <3>4. KernelInv'  BY <1>5, <3>1, <3>2, <3>3 DEF KernelInv
    <3>5. SlotInv => SlotInv'  BY <1>5, <1>7, <3>1, <3>3 DEF SlotInv
    <3> QED  BY <3>4, <3>5
  <2>11. Calm /\ Granted = NumBuffers => ~refused'
    <3>1. NumBuffers \in Nat  BY DecoderAssumption
    <3> QED  BY <2>4, <2>5, <2>7, <3>1
  <2> QED  BY <2>5, <2>6, <2>9, <2>10, <2>11 DEF IInv, Follows, Monotonic, Calm
<1>19. ASSUME slot # None, NEW now \in NewTimes, NEW o \in Queueing(kernel, now, slot, s),
              kernel' = o.k, clock' = now, o.ok, job' = next,
              Settle(at, detached, cached, kept, stamped(now)),
              UNCHANGED <<appVars, refused>>
       PROVE  IInv'
  <2>1. now \in Times /\ now # 0 /\ slot \in Slots  BY <1>10, <1>14, <1>19
  <2>2. kernel' \in Kernels /\ (Calm => Working(kernel', kernel, now, slot, s))
    <3>1. \/ Failure(o, kernel)
          \/ Success(o) /\ (Free(kernel) => Working(o.k, kernel, now, slot, s))
      BY <1>4, <1>6, <2>1, QueueingIs
    <3> QED  BY <1>16, <1>19, <3>1 DEF Success, Failure
  <2>3. /\ at' = at /\ detached' = detached /\ cached' = cached /\ held' = kept
        /\ mem' \in [Surfaces -> Memories]
        /\ \A t \in Surfaces : (\E h \in Handles : at[h] = t) => mem'[t] = stamped(now)[t]
    BY <1>15, <1>19, <2>1, SettleKeeps
  <2>4. mem'[s].stamp = now /\ \A h \in dpb : mem'[at[h]] = mem[at[h]]
    BY <1>4, <1>12, <1>15, <2>1, <2>3
  <2>5. /\ dpb' = dpb /\ shows' = shows /\ refused' = refused /\ clock' = now
    BY <1>19 DEF appVars
  <2>6. /\ job' \in Jobs /\ job' # None /\ job'.waits /\ job'.slot = slot /\ job'.surf = s
        /\ job'.handle = job.handle /\ job'.refs = dpb /\ job'.entries = entries
    <3>1. entries \subseteq Times
      <4>1. ASSUME NEW r \in passed PROVE slotTime[mem[at[r]].idx] \in Times
        <5>1. mem[at[r]].idx # None /\ at[r] \in Surfaces
          BY <1>6, PassedIs DEF passed
        <5>2. mem[at[r]].idx \in Slots  BY <1>6, <5>1, Memory
        <5> QED  BY <1>6, <5>2
      <4> QED  BY <4>1 DEF entries
    <3>2. job' = [handle |-> job.handle, surf |-> s, refs |-> dpb, slot |-> slot,
                  entries |-> entries, lost |-> dpb \ passed, waits |-> TRUE]
      BY <1>4, <1>19 DEF next, Jobs, s
    <3>3. dpb \ passed \in SUBSET Handles  BY <1>4
    <3>4. job' \in Jobs  BY <1>4, <2>1, <3>1, <3>2, <3>3 DEF Jobs
    <3> QED  BY <3>2, <3>4, NoneIsNone
  <2>7. Waiting' /\ \A k : Lent(k)' <=> k = slot  BY <2>6 DEF Waiting, Lent
  <2>8. TypeInv'
    <3>1. kernel'.req \in {"idle", "queued"}  BY <2>2 DEF Kernels
    <3>2. TypeOK'
      BY <1>3, <1>7, <1>9, <2>3, <2>5, <2>6, <3>1, Memory DEF TypeInv, TypeOK
    <3> QED  BY <1>3, <2>1, <2>2, <2>3, <2>5, <3>2 DEF TypeInv
  <2>9. HandleInv'  BY <1>3, <1>7, <2>3, <2>5 DEF HandleInv
  <2>10. JobInv'  BY <1>4, <1>7, <1>9, <2>1, <2>3, <2>4, <2>5, <2>6 DEF JobInv
  <2>11. Follows => PictureInv'
    <3> SUFFICES ASSUME Follows PROVE PictureInv'  OBVIOUS
    <3>1. held' = held /\ passed = dpb  BY <1>8, <2>3
    <3>2. ASSUME NEW h \in dpb
          PROVE  /\ Recorded(h)' /\ slot # mem[at[h]].idx /\ shows[h] \in entries
      <4>1. Recorded(h)  BY <1>11 DEF PictureInv
      <4>2. Recorded(h)'  BY <1>7, <2>3, <2>4, <2>5, <4>1 DEF Recorded
      <4>3. slot # mem[at[h]].idx
        <5>1. Suits(slot, s, dpb)  BY <1>4, <2>1, SlotOfSuits DEF slot
        <5> QED  BY <1>12, <4>1, <5>1 DEF Suits, Recorded
      <4>4. shows[h] \in entries
        <5>1. shows[h] = slotTime[mem[at[h]].idx]  BY <4>1 DEF Recorded
        <5> QED  BY <3>1, <5>1 DEF entries
      <4> QED  BY <4>2, <4>3, <4>4
    <3>3. \A t \in Surfaces : held'[t] = IF t = s THEN 1 ELSE 0  BY <1>11, <3>1
    <3> QED  BY <2>3, <2>4, <2>5, <2>6, <3>2, <3>3 DEF PictureInv
  <2>12. Monotonic => ClockInv'
    <3> SUFFICES ASSUME Monotonic PROVE ClockInv'  OBVIOUS
    <3>1. clock' = clock + 1 /\ ClockInv  BY <1>14, <2>5 DEF IInv
    <3>2. \A k \in Slots : slotTime[k] \in Nat  BY <1>6, <1>13
    <3>3. \A k \in Slots : slotTime[k] < clock'  BY <1>13, <3>1, <3>2 DEF ClockInv
    <3> QED  BY <1>7, <1>13, <2>4, <2>5, <2>6, <3>1, <3>2, <3>3 DEF ClockInv
  <2>13. Calm => KernelInv'
    <3> SUFFICES ASSUME Calm PROVE KernelInv'  OBVIOUS
    <3>1. /\ kernel'.req = "queued" /\ kernel'.out = "queued"
          /\ kernel'.cap = [kernel.cap EXCEPT ![slot] = "queued"]
      BY <2>2 DEF Working
    <3>2. kernel.cap \in [Slots -> {"free", "queued", "done"}]  BY <1>6, KernelFields
    <3>3. \A k \in Slots : kernel.cap[k] = "free"  BY <1>16 DEF Free
    <3> QED  BY <2>1, <2>7, <3>1, <3>2, <3>3 DEF KernelInv
  <2>14. Calm /\ "second_decoder" \notin Admits => SlotInv'
    <3> SUFFICES ASSUME Calm, SlotInv PROVE SlotInv'  BY DEF IInv
    <3>1. /\ kernel'.req = "queued" /\ kernel'.outTime = now
          /\ kernel'.time = [kernel.time EXCEPT ![slot] = 0]
          /\ kernel'.mem = [kernel.mem EXCEPT ![slot] = s]
      BY <2>2 DEF Working
    <3>2. kernel.time \in [Slots -> Times] /\ kernel.mem \in [Slots -> Surfaces \cup {None}]
      BY <1>6, KernelFields
    <3>3. \A k \in Slots : k # slot =>
            /\ kernel'.time[k] = slotTime[k]
            /\ slotTime[k] # 0 => kernel'.mem[k] = slotSurf[k]
      BY <1>5, <3>1, <3>2 DEF SlotInv
    <3>4. kernel'.time[slot] = 0 /\ kernel'.mem[slot] = s  BY <2>1, <3>1, <3>2
    <3> QED  BY <1>7, <2>4, <2>6, <2>7, <3>1, <3>3, <3>4 DEF SlotInv
  <2>15. Calm /\ Monotonic /\ Granted = NumBuffers => ~refused'  BY <2>5 DEF IInv
  <2> QED
    BY <2>8, <2>9, <2>10, <2>11, <2>12, <2>13, <2>14, <2>15
    DEF IInv, Follows, Monotonic, Calm
<1> QED  BY <1>2, <1>17, <1>18, <1>19

LEMMA DecodeInv ==
  ASSUME IInv, NEW ok \in BOOLEAN, Decode(ok)
  PROVE  IInv'
<1> DEFINE i == CHOOSE k \in Slots : kernel.cap[k] = "queued"
           broken == ~ok
<1>1. /\ kernel.req = "queued"
      /\ kernel' = [kernel EXCEPT !.req = "idle", !.out = "done", !.cap[i] = "done",
                                  !.time[i] = kernel.outTime, !.error = broken]
      /\ UNCHANGED <<dec, surfVars, slotVars, clock, appVars, job, refused>>
      /\ broken \in BOOLEAN
  BY Zenon DEF Decode
<1>2. TypeInv /\ HandleInv /\ JobInv  BY DEF IInv
<1> HIDE DEF broken
<1>3. i = job.slot \/ ~Calm
  <2> SUFFICES ASSUME Calm PROVE i = job.slot  OBVIOUS
  <2>1. KernelInv /\ Waiting  BY <1>1 DEF IInv, KernelInv
  <2>2. job.slot \in Slots /\ Lent(job.slot)  BY <1>2, <2>1 DEF JobInv, Waiting, Lent
  <2>3. kernel.cap[job.slot] = "queued"  BY <1>1, <2>1, <2>2 DEF KernelInv
  <2>4. \A k \in Slots : kernel.cap[k] = "queued" => k = job.slot
    BY <2>1 DEF KernelInv, Lent
  <2> QED  BY <2>2, <2>3, <2>4
<1> HIDE DEF i
<1>4. kernel \in Kernels  BY <1>2 DEF TypeInv
<1>5. /\ kernel'.req = "idle" /\ kernel'.out = "done" /\ kernel'.outTime = kernel.outTime
      /\ kernel'.cap = [kernel.cap EXCEPT ![i] = "done"]
      /\ kernel'.time = [kernel.time EXCEPT ![i] = kernel.outTime]
      /\ kernel'.mem = kernel.mem
  BY <1>1, <1>4, KernelFields
<1>6. kernel' \in Kernels
  <2>1. [kernel.cap EXCEPT ![i] = "done"] \in [Slots -> {"free", "queued", "done"}]
    BY <1>4, KernelFields
  <2>2. [kernel.time EXCEPT ![i] = kernel.outTime] \in [Slots -> Times]
    BY <1>4, KernelFields
  <2> QED  BY <1>1, <1>4, <2>1, <2>2, KernelFields DEF Kernels
<1>7. /\ dec' = dec /\ at' = at /\ detached' = detached /\ cached' = cached /\ held' = held
      /\ mem' = mem /\ slotSurf' = slotSurf /\ slotTime' = slotTime /\ clock' = clock
      /\ dpb' = dpb /\ shows' = shows /\ job' = job /\ refused' = refused
  BY <1>1 DEF surfVars, slotVars, appVars
<1>8. TypeInv'  BY <1>2, <1>5, <1>6, <1>7 DEF TypeInv, TypeOK
<1>9. HandleInv' /\ JobInv'  BY <1>2, <1>7 DEF HandleInv, JobInv
<1>10. (Waiting' <=> Waiting) /\ \A k : Lent(k)' <=> Lent(k)  BY <1>7 DEF Waiting, Lent
<1>11. Follows => PictureInv'
  BY <1>7, <1>10 DEF IInv, PictureInv, Recorded
<1>12. Monotonic => ClockInv'  BY <1>7, <1>10 DEF IInv, ClockInv
<1>13. Calm => KernelInv'
  <2> SUFFICES ASSUME Calm PROVE KernelInv'  OBVIOUS
  <2>1. KernelInv /\ Waiting  BY <1>1 DEF IInv, KernelInv
  <2>2. kernel.cap \in [Slots -> {"free", "queued", "done"}]  BY <1>4, KernelFields
  <2>3. job.slot \in Slots  BY <1>2, <2>1 DEF JobInv, Waiting
  <2> QED  BY <1>3, <1>5, <1>10, <2>1, <2>2, <2>3 DEF KernelInv, Lent
<1>14. Calm /\ "second_decoder" \notin Admits => SlotInv'
  <2> SUFFICES ASSUME Calm, SlotInv PROVE SlotInv'  BY DEF IInv
  <2>1. Waiting  BY <1>1 DEF IInv, KernelInv
  <2>2. kernel.time \in [Slots -> Times]  BY <1>4, KernelFields
  <2>3. job.slot \in Slots  BY <1>2, <2>1 DEF JobInv, Waiting
  <2> QED  BY <1>3, <1>5, <1>7, <1>10, <2>1, <2>2, <2>3 DEF SlotInv, Lent
<1>15. Calm /\ Monotonic /\ Granted = NumBuffers => ~refused'  BY <1>7 DEF IInv
<1> QED
  BY <1>8, <1>9, <1>11, <1>12, <1>13, <1>14, <1>15 DEF IInv, Follows, Monotonic, Calm

LEMMA FinishInv ==
  ASSUME IInv, Finish
  PROVE  IInv'
<1> DEFINE s == job.surf
           slot == job.slot
           known == [mem EXCEPT ![s].idx = slot]
           how == IF kernel.error THEN "failed" ELSE "ok"
<1>1. /\ job # None /\ job.waits /\ (kernel.req = "queued" => "late" \in KernelFails)
      /\ kernel' = DequeueBitstream(DequeueSurface(kernel)) /\ dec' = dec /\ clock' = clock
  BY DEF Finish
<1>2. \/ kernel.req = "queued" /\ Return(s, "failed", held, mem) /\ UNCHANGED slotVars
      \/ /\ kernel.req # "queued"
         /\ slotSurf' = [slotSurf EXCEPT ![slot] = s]
         /\ slotTime' = [slotTime EXCEPT ![slot] = mem[s].stamp]
         /\ Return(s, how, held, known)
  BY DEF Finish
<1>3. TypeInv /\ HandleInv /\ JobInv  BY DEF IInv
<1>4. /\ s \in Surfaces /\ slot \in Slots /\ mem[s].stamp # 0 /\ held[s] > 0
      /\ at[job.handle] = s /\ job.handle \notin dpb /\ job.handle \in Handles
  BY <1>1, <1>3 DEF TypeInv, TypeOK, JobInv, Jobs
<1>5. /\ held \in [Surfaces -> Nat] /\ mem \in [Surfaces -> Memories] /\ kernel \in Kernels
      /\ clock \in Times /\ at \in [Handles -> Surfaces \cup {None}]
      /\ slotTime \in [Slots -> Times] /\ slotSurf \in [Slots -> Surfaces \cup {None}]
      /\ \A k \in Slots : slotTime[k] # 0 => slotSurf[k] # None
  BY <1>3 DEF TypeInv, TypeOK
<1>6. Waiting /\ \A k : Lent(k) <=> k = slot  BY <1>1 DEF Waiting, Lent
<1>7. kernel' \in Kernels  BY <1>1, <1>5, DequeueSurfaceIs, DequeueBitstreamIs
<1>8. /\ known \in [Surfaces -> Memories]
      /\ known[s].idx = slot /\ known[s].stamp = mem[s].stamp
      /\ \A t \in Surfaces : t # s => known[t] = mem[t]
  BY <1>4, <1>5 DEF Memories
<1>9. \A h \in dpb : h \in Handles /\ at[h] \in Surfaces /\ at[h] # s
  <2> TAKE h \in dpb
  <2>1. h \in Handles /\ at[h] # None /\ h # job.handle
    BY <1>3, <1>4 DEF HandleInv, TypeInv, TypeOK
  <2> QED  BY <1>3, <1>4, <1>5, <2>1 DEF HandleInv
<1>10. Follows => PictureInv /\ \A t \in Surfaces : held[t] = IF t = s THEN 1 ELSE 0
  BY <1>1 DEF IInv, PictureInv
<1> HIDE DEF s, slot, known, how
<1>11. CASE kernel.req = "queued" /\ Return(s, "failed", held, mem) /\ UNCHANGED slotVars
  <2>1. slotSurf' = slotSurf /\ slotTime' = slotTime  BY <1>11 DEF slotVars
  <2>2. Ending("failed", held, mem)
    BY <1>1, <1>4, <1>5, <1>7, <1>11, <2>1 DEF Ending, s
  <2>3. TypeInv' /\ HandleInv' /\ JobInv' /\ job' = None /\ ~refused'
    BY <1>3, <2>2, ReturnLeaves
  <2>4. Follows => PictureInv'
    BY <1>3, <1>10, <2>1, <2>2, ReturnPictures DEF s
  <2>5. Monotonic => ClockInv'
    <3>1. ~Waiting'  BY <2>3 DEF Waiting
    <3> QED  BY <1>1, <2>1, <3>1 DEF IInv, ClockInv
  <2>6. ~Calm  BY <1>1, <1>11 DEF Calm
  <2> QED  BY <2>3, <2>4, <2>5, <2>6 DEF IInv, Follows, Monotonic, Calm
<1>12. CASE /\ kernel.req # "queued"
            /\ slotSurf' = [slotSurf EXCEPT ![slot] = s]
            /\ slotTime' = [slotTime EXCEPT ![slot] = mem[s].stamp]
            /\ Return(s, how, held, known)
  <2>1. /\ slotSurf'[slot] = s /\ slotTime'[slot] = mem[s].stamp
        /\ \A k \in Slots : k # slot => slotSurf'[k] = slotSurf[k] /\ slotTime'[k] = slotTime[k]
    BY <1>4, <1>5, <1>12
  <2>2. mem[s].stamp \in Times  BY <1>4, <1>5, Memory
  <2>3. Ending(how, held, known)
    <3>1. slotSurf' \in [Slots -> Surfaces \cup {None}]  BY <1>4, <1>5, <1>12
    <3>2. slotTime' \in [Slots -> Times]  BY <1>5, <1>12, <2>2
    <3>3. \A k \in Slots : slotTime'[k] # 0 => slotSurf'[k] # None
      BY <1>4, <1>5, <2>1, NoneIsNone
    <3> QED  BY <1>1, <1>4, <1>5, <1>7, <1>8, <1>12, <3>1, <3>2, <3>3 DEF Ending, s
  <2>4. TypeInv' /\ HandleInv' /\ JobInv' /\ job' = None /\ ~refused'
    <3>1. how # "refused"  BY DEF how
    <3> QED  BY <1>3, <2>3, <3>1, ReturnLeaves
  <2>5. ~Waiting' /\ \A k : ~Lent(k)'  BY <2>4 DEF Waiting, Lent
  <2>6. Follows => PictureInv'
    <3> SUFFICES ASSUME Follows PROVE PictureInv'  OBVIOUS
    <3>1. \A h \in dpb : LET m == mem[at[h]]
                         IN /\ known[at[h]] = m
                            /\ slotSurf'[m.idx] = slotSurf[m.idx]
                            /\ slotTime'[m.idx] = slotTime[m.idx]
      <4> SUFFICES ASSUME NEW h \in dpb
                   PROVE  /\ known[at[h]] = mem[at[h]]
                          /\ slotSurf'[mem[at[h]].idx] = slotSurf[mem[at[h]].idx]
                          /\ slotTime'[mem[at[h]].idx] = slotTime[mem[at[h]].idx]
        OBVIOUS
      <4>1. known[at[h]] = mem[at[h]]  BY <1>8, <1>9
      <4>2. mem[at[h]].idx # slot /\ mem[at[h]].idx # None
        BY <1>6, <1>10 DEF PictureInv, Recorded, slot
      <4>3. mem[at[h]].idx \in Slots  BY <1>5, <1>9, <4>2, Memory
      <4> QED  BY <2>1, <4>1, <4>2, <4>3
    <3>2. /\ known[s].idx # None /\ slotSurf'[known[s].idx] = s
          /\ slotTime'[known[s].idx] = known[s].stamp /\ known[s].stamp # 0
      BY <1>4, <1>8, <2>1, NoneIsNone
    <3> QED  BY <1>3, <1>10, <2>3, <3>1, <3>2, ReturnPictures DEF s
  <2>7. Monotonic => ClockInv'
    <3> SUFFICES ASSUME Monotonic PROVE ClockInv'  OBVIOUS
    <3>1. ClockInv  BY DEF IInv
    <3>2. mem[s].stamp = clock /\ \A k \in Slots : slotTime[k] < clock
      BY <1>6, <3>1 DEF ClockInv, s
    <3>3. clock \in Nat /\ \A t \in Times : t \in Nat
      <4>1. MaxTime \in Nat  BY DecoderAssumption
      <4> QED  BY <1>5, <4>1 DEF Times
    <3>4. \A k \in Slots : slotTime[k] \in Nat  BY <1>5, <3>3
    <3>5. \A k \in Slots : slotTime'[k] <= clock'  BY <1>1, <2>1, <3>2, <3>3, <3>4
    <3>6. \A j, k \in Slots : slotTime'[j] = slotTime'[k] /\ slotTime'[j] # 0 => j = k
      <4> SUFFICES ASSUME NEW j \in Slots, NEW k \in Slots, slotTime'[j] = slotTime'[k],
                          slotTime'[j] # 0
                   PROVE  j = k
        OBVIOUS
      <4>1. CASE j = slot \/ k = slot  BY <2>1, <3>2, <3>3, <3>4, <4>1
      <4>2. CASE j # slot /\ k # slot  BY <2>1, <3>1, <4>2 DEF ClockInv
      <4> QED  BY <4>1, <4>2
    <3> QED  BY <2>5, <3>5, <3>6 DEF ClockInv
  <2> DEFINE u == DequeueSurface(kernel)
  <2>8. /\ u \in Kernels /\ u.req = kernel.req /\ u.out = kernel.out
        /\ u.time = kernel.time /\ u.mem = kernel.mem
    BY <1>5, DequeueSurfaceIs
  <2>9. /\ kernel'.req = kernel.req /\ kernel'.cap = u.cap
        /\ kernel'.time = kernel.time /\ kernel'.mem = kernel.mem
        /\ kernel'.out = IF kernel.out = "done" THEN "free" ELSE kernel.out
    <3> HIDE DEF u
    <3>1. kernel' = DequeueBitstream(u)  BY <1>1 DEF u
    <3> QED  BY <2>8, <3>1, DequeueBitstreamIs
  <2>10. Calm => KernelInv'
    <3> SUFFICES ASSUME Calm PROVE KernelInv'  OBVIOUS
    <3>1. KernelInv  BY DEF IInv
    <3>2. \A k \in Slots : kernel.cap[k] = IF k = slot THEN "done" ELSE "free"
      BY <1>6, <1>12, <3>1 DEF KernelInv
    <3>3. u.cap = [kernel.cap EXCEPT ![slot] = "free"]
      <4>1. \A j \in Slots : kernel.cap[j] = "done" <=> j = slot  BY <3>2
      <4> QED  BY <1>4, <1>5, <4>1, DequeueSurfaceIs
    <3>4. kernel.cap \in [Slots -> {"free", "queued", "done"}]  BY <1>5, KernelFields
    <3>5. \A k \in Slots : kernel'.cap[k] = "free"  BY <2>9, <3>2, <3>3, <3>4
    <3>6. kernel'.out = "free"  BY <1>6, <1>12, <2>9, <3>1 DEF KernelInv
    <3> QED  BY <1>12, <2>5, <2>9, <3>5, <3>6 DEF KernelInv
  <2>11. Calm /\ "second_decoder" \notin Admits => SlotInv'
    <3> SUFFICES ASSUME Calm, SlotInv PROVE SlotInv'  BY DEF IInv
    <3>1. kernel.mem[slot] = s /\ kernel.time[slot] = mem[s].stamp
      BY <1>6, <1>12 DEF SlotInv, s, slot
    <3>2. \A k \in Slots : k # slot =>
            /\ kernel.time[k] = slotTime[k]
            /\ slotTime[k] # 0 => kernel.mem[k] = slotSurf[k]
      BY <1>6 DEF SlotInv
    <3>3. \A k \in Slots : /\ kernel'.time[k] = slotTime'[k]
                           /\ slotTime'[k] # 0 => kernel'.mem[k] = slotSurf'[k]
      BY <2>1, <2>9, <3>1, <3>2
    <3> QED  BY <2>5, <3>3 DEF SlotInv
  <2> QED  BY <2>4, <2>6, <2>7, <2>10, <2>11 DEF IInv, Follows, Monotonic, Calm
<1> QED  BY <1>2, <1>11, <1>12

-----------------------------------------------------------------------------
(* vdp_decoder_create, vdp_decoder_destroy.                                *)

LEMMA IdleIs ==
  /\ Idle \in Kernels /\ Idle.req = "idle" /\ Idle.out = "free" /\ Idle.outTime = 0
  /\ \A k \in Slots : Idle.cap[k] = "free" /\ Idle.time[k] = 0
  BY TimeZero DEF Idle, Kernels

LEMMA CreateDecoderInv ==
  ASSUME IInv, CreateDecoder
  PROVE  IInv'
<1>1. /\ job = None /\ dec' = TRUE /\ kernel' = Idle /\ refused' = FALSE
      /\ dec => "second_decoder" \in Admits /\ UNCHANGED slotVars
      /\ ~dec => NoSlots
      /\ UNCHANGED <<surfVars, clock, appVars, job>>
  BY DEF CreateDecoder
<1>2. TypeInv /\ HandleInv /\ JobInv  BY DEF IInv
<1>3. /\ at' = at /\ detached' = detached /\ cached' = cached /\ held' = held /\ mem' = mem
      /\ clock' = clock /\ dpb' = dpb /\ shows' = shows /\ job' = job
  BY <1>1 DEF surfVars, appVars
<1>4. ~Waiting' /\ ~Waiting /\ \A k : ~Lent(k)'  BY <1>1 DEF Waiting, Lent
<1>5. CASE dec
  <2>1. slotSurf' = slotSurf /\ slotTime' = slotTime  BY <1>1, <1>5 DEF slotVars
  <2>2. TypeInv'
    <3>1. TypeOK'  BY <1>1, <1>2, <1>3, <2>1, IdleIs DEF TypeInv, TypeOK
    <3> QED  BY <1>1, <1>2, <1>3, <3>1, IdleIs DEF TypeInv
  <2>3. HandleInv' /\ JobInv'  BY <1>1, <1>2, <1>3 DEF HandleInv, JobInv
  <2>4. Follows => PictureInv'
    BY <1>1, <1>3, <1>4, <2>1 DEF IInv, PictureInv, Recorded
  <2>5. Monotonic => ClockInv'  BY <1>3, <1>4, <2>1 DEF IInv, ClockInv
  <2>6. KernelInv' /\ "second_decoder" \in Admits
    BY <1>1, <1>4, <1>5, IdleIs DEF KernelInv
  <2> QED  BY <1>1, <2>2, <2>3, <2>4, <2>5, <2>6 DEF IInv, Follows, Monotonic, Calm
<1>6. CASE ~dec
  <2>1. slotSurf' = [k \in Slots |-> None] /\ slotTime' = [k \in Slots |-> 0]
    BY <1>1, <1>6 DEF NoSlots
  <2>2. dpb = {}  BY <1>2, <1>6 DEF HandleInv
  <2>3. TypeInv'
    <3>1. TypeOK'  BY <1>1, <1>2, <1>3, <2>1, IdleIs, TimeZero DEF TypeInv, TypeOK
    <3> QED  BY <1>1, <1>2, <1>3, <3>1, IdleIs DEF TypeInv
  <2>4. HandleInv' /\ JobInv'  BY <1>1, <1>2, <1>3 DEF HandleInv, JobInv
  <2>5. Follows => PictureInv'
    BY <1>1, <1>3, <2>2 DEF IInv, PictureInv
  <2>6. ClockInv'
    <3>1. clock' \in Nat
      <4>1. MaxTime \in Nat  BY DecoderAssumption
      <4> QED  BY <1>2, <1>3, <4>1 DEF TypeInv, Times
    <3> QED  BY <1>4, <2>1, <3>1 DEF ClockInv
  <2>7. KernelInv'  BY <1>1, <1>4, IdleIs DEF KernelInv
  <2>8. SlotInv'  BY <1>1, <1>4, <2>1, IdleIs DEF SlotInv
  <2> QED
    BY <1>1, <2>3, <2>4, <2>5, <2>6, <2>7, <2>8 DEF IInv, Follows, Monotonic, Calm
<1> QED  BY <1>5, <1>6

LEMMA DestroyDecoderInv ==
  ASSUME IInv, DestroyDecoder
  PROVE  IInv'
<1>1. /\ job = None /\ dec' = FALSE /\ kernel' = Idle /\ refused' = FALSE
      /\ slotSurf' = [k \in Slots |-> None] /\ slotTime' = [k \in Slots |-> 0]
      /\ Settle(at, detached, {}, held, mem)
      /\ dpb' = {} /\ shows' = [h \in Handles |-> 0]
      /\ clock' = clock /\ job' = job
  BY DEF DestroyDecoder, NoSlots
<1>2. TypeInv /\ HandleInv  BY DEF IInv
<1>3. /\ at' = at /\ detached' = detached /\ cached' = {} /\ held' = held
      /\ mem' \in [Surfaces -> Memories]
  <2>1. mem \in [Surfaces -> Memories]  BY <1>2 DEF TypeInv
  <2> QED  BY <1>1, <2>1, SettleKeeps
<1>4. ~Waiting' /\ \A k : ~Lent(k)'  BY <1>1 DEF Waiting, Lent
<1>5. TypeInv'
  <2>1. TypeOK'  BY <1>1, <1>2, <1>3, IdleIs, TimeZero, Memory DEF TypeInv, TypeOK
  <2>2. IsFiniteSet(dpb') /\ Cardinality(dpb') <= MaxReferences
    <3>1. MaxReferences \in Nat  BY DecoderAssumption
    <3> QED  BY <1>1, <3>1, FS_EmptySet
  <2>3. shows' \in [Handles -> Times]  BY <1>1, TimeZero
  <2> QED  BY <1>1, <1>2, <1>3, <2>1, <2>2, <2>3, IdleIs DEF TypeInv
<1>6. HandleInv' /\ JobInv'  BY <1>1, <1>2, <1>3 DEF HandleInv, JobInv
<1>7. Follows => PictureInv'  BY <1>1, <1>3 DEF IInv, PictureInv
<1>8. ClockInv'
  <2>1. clock' \in Nat
    <3>1. MaxTime \in Nat  BY DecoderAssumption
    <3> QED  BY <1>1, <1>2, <3>1 DEF TypeInv, Times
  <2> QED  BY <1>1, <1>4, <2>1 DEF ClockInv
<1>9. KernelInv'  BY <1>1, <1>4, IdleIs DEF KernelInv
<1>10. SlotInv'  BY <1>1, <1>4, IdleIs DEF SlotInv
<1> QED
  BY <1>1, <1>5, <1>6, <1>7, <1>8, <1>9, <1>10 DEF IInv, Follows, Monotonic, Calm

-----------------------------------------------------------------------------
(* The invariant, and what follows from it.                                *)

LEMMA InitInv ==
  ASSUME Init
  PROVE  IInv
<1>1. /\ dec = FALSE /\ at = [h \in Handles |-> None] /\ detached = {} /\ cached = {}
      /\ held = [s \in Surfaces |-> 0] /\ mem = [s \in Surfaces |-> NewSurface]
      /\ slotSurf = [k \in Slots |-> None] /\ slotTime = [k \in Slots |-> 0]
      /\ clock = 0 /\ kernel = Idle /\ dpb = {} /\ shows = [h \in Handles |-> 0]
      /\ job = None /\ refused = FALSE
  BY DEF Init
<1>2. ~Waiting /\ \A k : ~Lent(k)  BY <1>1 DEF Waiting, Lent
<1>3. mem \in [Surfaces -> Memories]  BY <1>1, Memory
<1>4. TypeInv
  <2>1. TypeOK  BY <1>1, <1>3, IdleIs, TimeZero, Memory DEF TypeOK
  <2>2. IsFiniteSet(dpb) /\ Cardinality(dpb) <= MaxReferences
    <3>1. MaxReferences \in Nat  BY DecoderAssumption
    <3> QED  BY <1>1, <3>1, FS_EmptySet
  <2> QED  BY <1>1, <1>3, <2>1, <2>2, IdleIs, TimeZero DEF TypeInv
<1>5. HandleInv /\ JobInv  BY <1>1 DEF HandleInv, JobInv
<1>6. PictureInv  BY <1>1 DEF PictureInv
<1>7. ClockInv  BY <1>1, <1>2 DEF ClockInv
<1>8. KernelInv  BY <1>1, <1>2, IdleIs DEF KernelInv
<1>9. SlotInv  BY <1>1, <1>2, IdleIs DEF SlotInv
<1> QED  BY <1>1, <1>4, <1>5, <1>6, <1>7, <1>8, <1>9 DEF IInv

LEMMA StutterInv ==
  ASSUME IInv, UNCHANGED vars
  PROVE  IInv'
<1>1. /\ dec' = dec /\ at' = at /\ detached' = detached /\ cached' = cached /\ held' = held
      /\ mem' = mem /\ slotSurf' = slotSurf /\ slotTime' = slotTime /\ clock' = clock
      /\ kernel' = kernel /\ dpb' = dpb /\ shows' = shows /\ job' = job
      /\ refused' = refused
  BY DEF vars, surfVars, slotVars, appVars
<1>2. (Waiting' <=> Waiting) /\ \A k : Lent(k)' <=> Lent(k)  BY <1>1 DEF Waiting, Lent
<1>3. TypeInv' /\ HandleInv' /\ JobInv'
  BY <1>1 DEF IInv, TypeInv, TypeOK, HandleInv, JobInv
<1>4. Follows => PictureInv'  BY <1>1, <1>2 DEF IInv, PictureInv, Recorded
<1>5. /\ Monotonic => ClockInv'
      /\ Calm => KernelInv'
      /\ Calm /\ "second_decoder" \notin Admits => SlotInv'
      /\ Calm /\ Monotonic /\ Granted = NumBuffers => ~refused'
  BY <1>1, QuietInv DEF slotVars
<1> QED  BY <1>3, <1>4, <1>5 DEF IInv, Follows, Monotonic, Calm

LEMMA NextInv ==
  ASSUME IInv, [Next]_vars
  PROVE  IInv'
<1>1. ASSUME NEW h \in Handles, CreateSurface(h) PROVE IInv'  BY <1>1, CreateSurfaceInv
<1>2. ASSUME NEW h \in Handles, DestroySurface(h) PROVE IInv'  BY <1>2, DestroySurfaceInv
<1>3. ASSUME NEW h \in Handles, NEW R \in SUBSET dpb, Render(h, R) PROVE IInv'
  BY <1>3, RenderInv
<1>4. ASSUME NEW s \in Surfaces, EndShow(s) PROVE IInv'  BY <1>4, EndShowInv
<1>5. CASE Submit  BY <1>5, SubmitInv
<1>6. CASE RenderUnsupported  BY <1>6, RenderUnsupportedInv
<1>7. CASE Finish  BY <1>7, FinishInv
<1>8. ASSUME NEW ok \in BOOLEAN, Decode(ok) PROVE IInv'  BY <1>8, DecodeInv
<1>9. CASE CreateDecoder  BY <1>9, CreateDecoderInv
<1>10. CASE DestroyDecoder  BY <1>10, DestroyDecoderInv
<1>11. CASE UNCHANGED vars  BY <1>11, StutterInv
<1> QED
  BY <1>1, <1>2, <1>3, <1>4, <1>5, <1>6, <1>7, <1>8, <1>9, <1>10, <1>11 DEF Next

\* What render calls, surfaces, slots and the kernel know of each other, each part under
\* the rules it needs, holds in every state.
THEOREM DecoderInvariance == Spec => []IInv
<1>1. Init => IInv  BY InitInv
<1>2. IInv /\ [Next]_vars => IInv'  BY NextInv
<1> QED  BY <1>1, <1>2, PTL DEF Spec

\* The variables have their types, whatever the kernel and the application do.
THEOREM DecoderTypeCorrect == Spec => []TypeOK
<1>1. IInv => TypeOK  BY DEF IInv, TypeInv
<1> QED  BY <1>1, DecoderInvariance, PTL

\* No call keeps a reference to a surface when it is over: the reference a picture to be
\* decoded needs is the only one there is. Only a reference that cannot be passed would
\* be kept, and there is none while the application refers to pictures it was told were
\* decoded and no allocation empties the cache.
THEOREM SurfacesAreReturned ==
  ASSUME "failed_reference" \notin Admits, ~AllocMayFail
  PROVE  Spec => []SurfacesReturn
<1>1. IInv => SurfacesReturn  BY DEF IInv, Follows, PictureInv, SurfacesReturn
<1> QED  BY <1>1, DecoderInvariance, PTL

\* The kernel is never asked for what it must refuse, and a slot is always found, for
\* every number of slots larger than that of the references: with all the buffers asked
\* for, a request the kernel takes and completes in time, and a clock nobody sets back.
\* The kernel may fail any other call, the application may do what it likes.
THEOREM NothingIsRefused ==
  ASSUME KernelFails \cap {"request", "late"} = {}, "clock_set" \notin Admits,
         Granted = NumBuffers
  PROVE  Spec => []NeverRefused
<1>1. IInv => NeverRefused  BY DEF IInv, Calm, Monotonic, NeverRefused
<1> QED  BY <1>1, DecoderInvariance, PTL

\* While the kernel decodes, every reference the application named reaches it: one slot,
\* another than the one decoded to, has its time, its memory and its picture.
THEOREM ReferencesReachKernel ==
  ASSUME Admits = {}, ~AllocMayFail, KernelFails \cap {"request", "late"} = {}
  PROVE  Spec => []ReferencesReach
<1>1. Follows /\ Calm /\ Monotonic /\ "second_decoder" \notin Admits
  BY DEF Follows, Calm, Monotonic
<1>2. ASSUME IInv PROVE ReferencesReach
  <2> SUFFICES ASSUME kernel.req = "queued", job # None, NEW r \in job.refs
               PROVE  /\ shows[r] \in job.entries
                      /\ \E k \in Slots \ {job.slot} :
                           /\ {i \in Slots : kernel.time[i] = shows[r]} = {k}
                           /\ kernel.mem[k] = at[r]
                      /\ mem[at[r]].stamp = shows[r]
    BY DEF ReferencesReach
  <2>1. TypeInv /\ JobInv /\ PictureInv /\ ClockInv /\ KernelInv /\ SlotInv
    BY <1>1, <1>2 DEF IInv
  <2>2. Waiting  BY <2>1 DEF KernelInv
  <2>3. r \in dpb /\ job.slot \in Slots  BY <2>1, <2>2 DEF JobInv, Waiting
  <2>4. Recorded(r) /\ shows[r] \in job.entries /\ job.slot # mem[at[r]].idx
    BY <2>1, <2>2, <2>3 DEF PictureInv
  <2> DEFINE k == mem[at[r]].idx
  <2>5. /\ k # None /\ slotSurf[k] = at[r] /\ slotTime[k] = shows[r] /\ shows[r] # 0
        /\ mem[at[r]].stamp = shows[r] /\ at[r] \in cached
    BY <2>4 DEF Recorded
  <2>6. k \in Slots \ {job.slot}
    <3>1. at[r] \in Surfaces  BY <2>1, <2>5 DEF TypeInv, TypeOK
    <3> QED  BY <2>1, <2>4, <2>5, <3>1, Memory DEF TypeInv
  <2> HIDE DEF k
  <2>7. \A i \in Slots : i # job.slot => kernel.time[i] = slotTime[i]
    BY <2>1 DEF SlotInv, Lent
  <2>8. kernel.time[job.slot] = 0  BY <2>1, <2>2 DEF SlotInv
  <2>9. \A i \in Slots : kernel.time[i] = shows[r] <=> i = k
    BY <2>1, <2>5, <2>6, <2>7, <2>8 DEF ClockInv
  <2>10. {i \in Slots : kernel.time[i] = shows[r]} = {k}  BY <2>6, <2>9
  <2>11. kernel.mem[k] = at[r]  BY <2>1, <2>5, <2>6 DEF SlotInv, Lent
  <2> QED  BY <2>4, <2>5, <2>6, <2>10, <2>11
<1>3. IInv => ReferencesReach  BY <1>2
<1> QED  BY <1>3, DecoderInvariance, PTL
=============================================================================
