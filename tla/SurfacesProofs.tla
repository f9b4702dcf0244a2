--------------------------- MODULE SurfacesProofs ---------------------------
(***************************************************************************)
(* Theorems about module Surfaces, for any number of threads, surfaces,    *)
(* links and handles.                                                      *)
(***************************************************************************)
EXTENDS Surfaces, FiniteSetTheorems, TLAPS

(***************************************************************************)
(* The inductive invariant.                                                *)
(***************************************************************************)

OnCall(t, s) == s \in {vid[t], out[t]} /\ pc[t] \notin {"created", "destroying"}

\* A link is broken and released in one critical section of the output surface,
\* so a live one is always installed, and counted once for that and once for
\* the thread that resolves it.
LinkInv ==
  /\ \A l \in Links : link[l].refcnt \in {0, 1, 2}
  /\ \A l \in Links : link[l].refcnt = 0 => link[l] = NoLink
  /\ \A l \in Links : link[l].refcnt # 0 =>
       /\ link[l].video \in Videos /\ shared[link[l].video] = l
       /\ link[l].disp \in Outputs /\ shared[link[l].disp] = l
  /\ \A s \in Surfaces : shared[s] # None =>
       /\ link[shared[s]].refcnt # 0
       /\ s \in {link[shared[s]].video, link[shared[s]].disp}
  /\ \A l \in Links : link[l].refcnt = 2 <=> \E t \in Threads : hold[t] = l

\* The lock of an output surface is held by the one thread inside it, and a
\* thread that holds a link has locked the output surface it belongs to.
LockInv ==
  /\ \A t \in Threads : pc[t] \in {"composing", "drawing"} =>
       out[t] # None /\ lock[out[t]] = t
  /\ \A t \in Threads : hold[t] # None =>
       pc[t] = "drawing" /\ call[t] = "draw" /\ shared[out[t]] = hold[t]

\* Which pointers a call has at each of its steps.
CallInv ==
  \A t \in Threads :
    /\ pc[t] = "idle" => vid[t] = None /\ out[t] = None
    /\ pc[t] \in {"created", "destroying", "unref"} =>
         (vid[t] = None /\ out[t] # None) \/ (vid[t] # None /\ out[t] = None)
    /\ pc[t] \in {"fetched", "swapped", "writing"} => vid[t] # None /\ out[t] = None
    /\ pc[t] \in {"mix_fetched", "composing"} => vid[t] # None /\ out[t] # None
    /\ pc[t] \in {"draw_fetched", "drawing"} => vid[t] = None /\ out[t] # None
    /\ pc[t] # "idle" => call[t] # "none"
    /\ pc[t] \in {"draw_fetched", "drawing"} <=> call[t] \in {"draw", "display"}
    /\ pc[t] \in {"mix_fetched", "composing"} <=> call[t] = "mix"

\* A call that creates, writes or destroys a surface has it for itself: other
\* calls on it are about to drop their last pointer or belong to the display.
Exclusive == {"created", "fetched", "swapped", "writing", "destroying"}
Writing == {"fetched", "swapped", "writing"}
Mixing == {"mix_fetched", "composing"}
Unowned == {"created", "destroying"}
OwnerInv ==
  /\ \A t \in Threads : pc[t] \in Exclusive =>
       /\ HandleHolds(Created(t))
       /\ \A u \in Threads \ {t} : Created(t) \in {vid[u], out[u]} =>
            pc[u] = "unref" \/ call[u] = "display"
  /\ \A t \in Threads : pc[t] \in Writing =>
       id[vid[t]] \in open \cap Slots /\ table[id[vid[t]]] = vid[t]
  /\ \A t \in Threads : pc[t] \in Unowned =>
       \A h \in open \cap Slots : table[h] # Created(t)
  /\ \A t \in Threads : pc[t] \in Mixing => HandleHolds(vid[t]) /\ HandleHolds(out[t])

\* A handle of the application leads to a surface that knows it.
HandleInv ==
  /\ \A h \in open \cap Slots :
       table[h] # None /\ id[table[h]] = h /\ HandleHolds(table[h])
  /\ \A s \in Surfaces : detached[s] =>
       shared[s] # None /\ ~destroyed[s] /\ id[s] = NoSlot

\* Nothing is kept alive by nobody: a surface that still has the reference of a
\* handle has a handle or a call that is about to create or destroy one, and
\* the picture of an output surface goes with the surface.
OwnedInv ==
  /\ \A s \in Surfaces : HandleHolds(s) =>
       \/ id[s] \in open \cap Slots /\ table[id[s]] = s
       \/ \E t \in Threads : pc[t] \in Unowned /\ Created(t) = s
  /\ \A d \in Outputs : ~detached[d] /\ (shared[d] # None => ~destroyed[d])

\* RefsExact, with a live link counted at its end.
RefInv ==
  \A s \in Surfaces :
    refcnt[s] = Bit(HandleHolds(s)) + Bit(s \in cache) + Bit(shared[s] # None)
                + Cardinality(CallsOn(s))

IInv == TypeOK /\ LinkInv /\ LockInv /\ CallInv /\ OwnerInv /\ HandleInv
        /\ OwnedInv /\ RefInv
-----------------------------------------------------------------------------
(* Lemmas about the helpers.                                               *)

\* A truth value counts zero or one.
LEMMA BitType == \A p : Bit(p) \in {0, 1} /\ (Bit(p) = 1 <=> p)
  BY DEF Bit

\* The threads in a call on a surface are finitely many; when thread t moves,
\* only t can join or leave them.
LEMMA CallsFinite ==
  ASSUME NEW s
  PROVE  /\ IsFiniteSet(CallsOn(s)) /\ Cardinality(CallsOn(s)) \in Nat
         /\ \A t \in Threads : OnCall(t, s) => Cardinality(CallsOn(s)) > 0
<1>1. IsFiniteSet(CallsOn(s))
  BY SurfacesAssumption, FS_Subset DEF CallsOn
<1>2. Cardinality(CallsOn(s)) \in Nat
  BY <1>1, FS_CardinalityType
<1>3. ASSUME NEW t \in Threads, OnCall(t, s)
      PROVE  Cardinality(CallsOn(s)) > 0
  BY <1>1, <1>2, <1>3, FS_EmptySet DEF CallsOn, OnCall
<1> QED
  BY <1>1, <1>2, <1>3

OthersKeep(t) ==
  \A u \in Threads \ {t} :
    vid'[u] = vid[u] /\ out'[u] = out[u] /\ pc'[u] = pc[u]

\* When one thread moves, only its own membership can change the count.
LEMMA CallsChange ==
  ASSUME NEW t \in Threads, NEW s, OthersKeep(t)
  PROVE  Cardinality(CallsOn(s))'
           = Cardinality(CallsOn(s)) - Bit(OnCall(t, s)) + Bit(OnCall(t, s)')
<1> DEFINE rest == CallsOn(s) \ {t}
<1>1. IsFiniteSet(CallsOn(s)) /\ Cardinality(CallsOn(s)) \in Nat
  BY CallsFinite
<1>2. IsFiniteSet(rest) /\ Cardinality(rest) \in Nat
  BY <1>1, FS_RemoveElement, FS_CardinalityType
<1>3. Cardinality(rest) = Cardinality(CallsOn(s)) - Bit(OnCall(t, s))
  <2>1. t \in CallsOn(s) <=> OnCall(t, s)
    BY DEF CallsOn, OnCall
  <2>2. Cardinality(rest) = IF t \in CallsOn(s) THEN Cardinality(CallsOn(s)) - 1
                                                ELSE Cardinality(CallsOn(s))
    BY <1>1, FS_RemoveElement
  <2>3. CASE OnCall(t, s)
    BY <1>1, <2>1, <2>2, <2>3 DEF Bit
  <2>4. CASE ~OnCall(t, s)
    BY <1>1, <2>1, <2>2, <2>4 DEF Bit
  <2> QED
    BY <2>3, <2>4
<1>4. CASE OnCall(t, s)'
  <2>1. CallsOn(s)' = rest \cup {t}
    BY <1>4 DEF CallsOn, OnCall, OthersKeep
  <2>2. Cardinality(rest \cup {t}) = Cardinality(rest) + 1
    BY <1>2, FS_AddElement
  <2> QED
    BY <1>1, <1>2, <1>3, <1>4, <2>1, <2>2, BitType DEF Bit
<1>5. CASE ~OnCall(t, s)'
  <2>1. CallsOn(s)' = rest
    BY <1>5 DEF CallsOn, OnCall, OthersKeep
  <2> QED
    BY <1>1, <1>2, <1>3, <1>5, <2>1, BitType DEF Bit
<1> QED
  BY <1>4, <1>5

\* What RefInv says of a holder: whoever has a reference keeps a surface alive.
LEMMA HolderKeeps ==
  ASSUME RefInv, NEW s \in Surfaces
  PROVE  /\ refcnt[s] \in Nat
         /\ HandleHolds(s) \/ s \in cache \/ shared[s] # None => refcnt[s] > 0
         /\ \A t \in Threads : OnCall(t, s) => refcnt[s] > 0
  BY CallsFinite, BitType DEF RefInv, Bit

\* The same of the next state, when one thread moved.
LEMMA NextHolderKeeps ==
  ASSUME NEW t \in Threads, OthersKeep(t), RefInv', NEW s \in Surfaces
  PROVE  /\ refcnt'[s] \in Nat
         /\ HandleHolds(s)' => refcnt'[s] > 0
<1>1. Cardinality(CallsOn(s))' \in Nat
  BY CallsFinite, CallsChange, BitType DEF Bit
<1> QED
  BY <1>1, BitType DEF RefInv, Bit

\* The last unref leaves alone the slots and the id of every surface that has
\* the reference of a handle, and adds no surface to a slot.
LEMMA SettleKeeps ==
  ASSUME NEW rc, NEW tab, NEW ids, Settle(rc, tab, ids),
         NEW t \in Threads, OthersKeep(t), RefInv'
  PROVE  /\ \A s \in Surfaces : HandleHolds(s)' =>
              /\ id'[s] = ids[s]
              /\ \A h \in Slots : tab[h] = s => table'[h] = s
         /\ \A h \in Slots : table'[h] \in {tab[h], None}
         /\ \A s \in Surfaces : id'[s] \in {ids[s], NoSlot}
<1>1. \A s \in Surfaces : HandleHolds(s)' => refcnt'[s] > 0
  BY NextHolderKeeps
<1> QED
  BY <1>1 DEF Settle

\* The last unref leaves the counts, the table and the ids well typed.
LEMMA SettleType ==
  ASSUME NEW rc \in [Surfaces -> Int], NEW tab \in [Slots -> Surfaces \cup {None}],
         NEW ids \in [Surfaces -> Slots \cup {NoSlot}], Settle(rc, tab, ids)
  PROVE  /\ refcnt' \in [Surfaces -> Int]
         /\ table' \in [Slots -> Surfaces \cup {None}]
         /\ id' \in [Surfaces -> Slots \cup {NoSlot}]
  BY DEF Settle

\* At most one surface of each kind is on a link.
LEMMA LinkEnds ==
  ASSUME TypeOK, LinkInv, NEW s \in Surfaces, shared[s] # None
  PROVE  /\ shared[s] \in Links /\ link[shared[s]].refcnt \in {1, 2}
         /\ s \in Outputs => link[shared[s]].disp = s
         /\ s \in Videos => link[shared[s]].video = s
         /\ \A r \in Surfaces : shared[r] = shared[s] =>
              r = link[shared[s]].video \/ r = link[shared[s]].disp
  BY SurfacesAssumption DEF TypeOK, LinkInv, Surfaces

\* An object that may be allocated anew has been let go by everybody.
LEMMA FreeSurface ==
  ASSUME IInv, NEW n \in Surfaces, refcnt[n] = 0
  PROVE  /\ ~HandleHolds(n) /\ destroyed[n] /\ ~detached[n]
         /\ n \notin cache /\ shared[n] = None
         /\ Cardinality(CallsOn(n)) = 0
         /\ \A t \in Threads : n \notin {vid[t], out[t]}
         /\ \A h \in open \cap Slots : table[h] # n
<1>1. ~HandleHolds(n) /\ n \notin cache /\ shared[n] = None
  BY HolderKeeps DEF IInv
<1>2. destroyed[n] /\ ~detached[n]
  BY <1>1 DEF IInv, TypeOK, HandleInv, HandleHolds
<1>3. \A t \in Threads : ~OnCall(t, n)
  BY HolderKeeps DEF IInv
<1>4. \A t \in Threads : n \notin {vid[t], out[t]}
  BY <1>1, <1>3, SurfacesAssumption
  DEF IInv, OwnerInv, CallInv, TypeOK, OnCall, Created, Exclusive, Surfaces
<1>5. Cardinality(CallsOn(n)) = 0
  BY <1>1, CallsFinite, BitType DEF IInv, RefInv, Bit
<1> QED
  BY <1>1, <1>2, <1>4, <1>5 DEF IInv, HandleInv

\* The one surface of a call that creates or destroys it.
LEMMA CreatedType ==
  ASSUME TypeOK, CallInv, NEW t \in Threads,
         pc[t] \in {"created", "destroying", "unref"}
  PROVE  /\ Created(t) \in Surfaces
         /\ \A s \in Surfaces : s \in {vid[t], out[t]} <=> s = Created(t)
  BY SurfacesAssumption DEF TypeOK, CallInv, Created, Surfaces

-----------------------------------------------------------------------------
(* Every action keeps the invariant.                                        *)

\* shared_surface_swap_video on a surface no output refers to.
LEMMA SwapUnsharedStep ==
  ASSUME IInv, NEW t \in Threads, SwapUnshared(t)
  PROVE  IInv'
<1> USE DEF IInv
<1>1. TypeOK'
  BY SurfacesAssumption DEF TypeOK, SwapUnshared, Goto, Calls, Steps, Surfaces
<1>2. OthersKeep(t)
  BY DEF TypeOK, SwapUnshared, Goto, OthersKeep
<1>3. LinkInv' /\ LockInv'
  BY SurfacesAssumption
  DEF TypeOK, LinkInv, LockInv, CallInv, SwapUnshared, Goto, NoLink, Surfaces
<1>4. CallInv'
  BY SurfacesAssumption DEF TypeOK, CallInv, SwapUnshared, Goto, Surfaces
<1>5. ASSUME NEW s \in Surfaces
      PROVE  refcnt'[s] = Bit(HandleHolds(s)') + Bit(s \in cache') + Bit(shared'[s] # None)
                          + Cardinality(CallsOn(s))'
  <2>1. Cardinality(CallsOn(s))' = Cardinality(CallsOn(s)) - Bit(OnCall(t, s)) + Bit(OnCall(t, s)')
    BY <1>2, CallsChange
  <2> QED
    BY <2>1, CallsFinite, BitType, SurfacesAssumption
    DEF RefInv, CallInv, TypeOK, SwapUnshared, Goto, HandleHolds, OnCall, Bit, Surfaces
<1>6. RefInv'
  BY <1>5 DEF RefInv
<1>7. HandleInv'
  BY SurfacesAssumption DEF TypeOK, HandleInv, SwapUnshared, Goto, HandleHolds
<1>8. OwnerInv'
  BY SurfacesAssumption
  DEF TypeOK, OwnerInv, CallInv, HandleInv, SwapUnshared, Goto, HandleHolds, Created,
      Exclusive, Writing, Mixing, Unowned
<1>9. OwnedInv'
  BY SurfacesAssumption
  DEF TypeOK, OwnedInv, CallInv, SwapUnshared, Goto, HandleHolds, Created, Unowned
<1> QED
  BY <1>1, <1>3, <1>4, <1>6, <1>7, <1>8, <1>9

\* create_surface without a free slot.
LEMMA RegisterFailStep ==
  ASSUME IInv, NEW t \in Threads, RegisterFail(t)
  PROVE  IInv'
<1> USE DEF IInv
<1>1. TypeOK'
  BY SurfacesAssumption DEF TypeOK, RegisterFail, Goto, Calls, Steps, Surfaces
<1>2. OthersKeep(t)
  BY DEF TypeOK, RegisterFail, Goto, OthersKeep
<1>3. LinkInv' /\ LockInv'
  BY SurfacesAssumption
  DEF TypeOK, LinkInv, LockInv, CallInv, RegisterFail, Goto, NoLink, Surfaces
<1>4. CallInv'
  BY SurfacesAssumption DEF TypeOK, CallInv, RegisterFail, Goto, Surfaces
<1>5. ASSUME NEW s \in Surfaces
      PROVE  refcnt'[s] = Bit(HandleHolds(s)') + Bit(s \in cache') + Bit(shared'[s] # None)
                          + Cardinality(CallsOn(s))'
  <2>1. Cardinality(CallsOn(s))' = Cardinality(CallsOn(s)) - Bit(OnCall(t, s)) + Bit(OnCall(t, s)')
    BY <1>2, CallsChange
  <2> QED
    BY <2>1, CallsFinite, BitType, SurfacesAssumption
    DEF RefInv, CallInv, TypeOK, RegisterFail, Goto, HandleHolds, OnCall, Bit, Surfaces
<1>6. RefInv'
  BY <1>5 DEF RefInv
<1>7. HandleInv'
  BY SurfacesAssumption DEF TypeOK, HandleInv, RegisterFail, Goto, HandleHolds
<1>8. OwnerInv'
  BY SurfacesAssumption
  DEF TypeOK, OwnerInv, CallInv, HandleInv, RegisterFail, Goto, HandleHolds, Created,
      Exclusive, Writing, Mixing, Unowned
<1>9. OwnedInv'
  BY SurfacesAssumption
  DEF TypeOK, OwnedInv, CallInv, RegisterFail, Goto, HandleHolds, Created, Unowned
<1> QED
  BY <1>1, <1>3, <1>4, <1>6, <1>7, <1>8, <1>9

\* get_surface_video for a call that will write the surface.
LEMMA FetchTargetStep ==
  ASSUME IInv, NEW t \in Threads, NEW c \in {"decode", "put_bits"}, FetchTarget(t, c)
  PROVE  IInv'
<1> USE DEF IInv
<1>1. TypeOK'
  BY SurfacesAssumption
  DEF TypeOK, FetchTarget, Idle, Enter, Lookup, Users, Calls, Steps, Surfaces
<1>2. OthersKeep(t)
  BY DEF TypeOK, FetchTarget, Idle, Enter, Lookup, Users, OthersKeep
<1>3. LinkInv' /\ LockInv'
  BY SurfacesAssumption
  DEF TypeOK, LinkInv, LockInv, CallInv, FetchTarget, Idle, Enter, Lookup, Users,
      NoLink, Surfaces
<1>4. CallInv'
  BY SurfacesAssumption
  DEF TypeOK, CallInv, FetchTarget, Idle, Enter, Lookup, Users, Surfaces
<1>5. ASSUME NEW s \in Surfaces
      PROVE  refcnt'[s] = Bit(HandleHolds(s)') + Bit(s \in cache') + Bit(shared'[s] # None)
                          + Cardinality(CallsOn(s))'
  <2>1. Cardinality(CallsOn(s))' = Cardinality(CallsOn(s)) - Bit(OnCall(t, s)) + Bit(OnCall(t, s)')
    BY <1>2, CallsChange
  <2> QED
    BY <2>1, CallsFinite, BitType, SurfacesAssumption
    DEF RefInv, CallInv, TypeOK, FetchTarget, Idle, Enter, Lookup, Users, HandleHolds,
        OnCall, Bit, Surfaces
<1>6. RefInv'
  BY <1>5 DEF RefInv
<1>7. HandleInv'
  BY SurfacesAssumption
  DEF TypeOK, HandleInv, FetchTarget, Idle, Enter, Lookup, Users, HandleHolds
<1>8. OwnerInv'
  BY SurfacesAssumption
  DEF TypeOK, OwnerInv, CallInv, HandleInv, FetchTarget, Idle, Enter, Lookup, Users,
      HandleHolds, Created, Exclusive, Writing, Mixing, Unowned
<1>9. OwnedInv'
  BY SurfacesAssumption
  DEF TypeOK, OwnedInv, CallInv, FetchTarget, Idle, Enter, Lookup, Users, HandleHolds,
      Created, Unowned
<1> QED
  BY <1>1, <1>3, <1>4, <1>6, <1>7, <1>8, <1>9

\* The two lookups of vdp_video_mixer_render.
LEMMA FetchMixStep ==
  ASSUME IInv, NEW t \in Threads, FetchMix(t)
  PROVE  IInv'
<1> USE DEF IInv
<1>1. TypeOK'
  BY SurfacesAssumption
  DEF TypeOK, FetchMix, Idle, Enter, Lookup, Readable, Users, Calls, Steps, Surfaces
<1>2. OthersKeep(t)
  BY DEF TypeOK, FetchMix, Idle, Enter, Lookup, Readable, Users, OthersKeep
<1>3. LinkInv' /\ LockInv'
  BY SurfacesAssumption
  DEF TypeOK, LinkInv, LockInv, CallInv, FetchMix, Idle, Enter, Lookup, Readable, Users,
      NoLink, Surfaces
<1>4. CallInv'
  BY SurfacesAssumption
  DEF TypeOK, CallInv, FetchMix, Idle, Enter, Lookup, Readable, Users, Surfaces
<1>5. ASSUME NEW s \in Surfaces
      PROVE  refcnt'[s] = Bit(HandleHolds(s)') + Bit(s \in cache') + Bit(shared'[s] # None)
                          + Cardinality(CallsOn(s))'
  <2>1. Cardinality(CallsOn(s))' = Cardinality(CallsOn(s)) - Bit(OnCall(t, s)) + Bit(OnCall(t, s)')
    BY <1>2, CallsChange
  <2> QED
    BY <2>1, CallsFinite, BitType, SurfacesAssumption
    DEF RefInv, CallInv, TypeOK, FetchMix, Idle, Enter, Lookup, Readable, Users,
        HandleHolds, OnCall, Bit, Surfaces
<1>6. RefInv'
  BY <1>5 DEF RefInv
<1>7. HandleInv'
  BY SurfacesAssumption
  DEF TypeOK, HandleInv, FetchMix, Idle, Enter, Lookup, Readable, Users, HandleHolds
<1>8. OwnerInv'
  BY SMTT(60), SurfacesAssumption
  DEF TypeOK, OwnerInv, CallInv, HandleInv, FetchMix, Idle, Enter, Lookup, Readable,
      Users, HandleHolds, Created, Exclusive, Writing, Mixing, Unowned
<1>9. OwnedInv'
  BY SurfacesAssumption
  DEF TypeOK, OwnedInv, CallInv, FetchMix, Idle, Enter, Lookup, Readable, Users,
      HandleHolds, Created, Unowned
<1> QED
  BY <1>1, <1>3, <1>4, <1>6, <1>7, <1>8, <1>9

\* get_surface_output for a drawing or a display.
LEMMA FetchOutputStep ==
  ASSUME IInv, NEW t \in Threads, NEW c \in {"draw", "display"}, FetchOutput(t, c)
  PROVE  IInv'
<1> USE DEF IInv
<1>1. TypeOK'
  BY SurfacesAssumption
  DEF TypeOK, FetchOutput, Idle, Enter, Lookup, Readable, Users, Calls, Steps, Surfaces
<1>2. OthersKeep(t)
  BY DEF TypeOK, FetchOutput, Idle, Enter, Lookup, Readable, Users, OthersKeep
<1>3. LinkInv' /\ LockInv'
  BY SurfacesAssumption
  DEF TypeOK, LinkInv, LockInv, CallInv, FetchOutput, Idle, Enter, Lookup, Readable,
      Users, NoLink, Surfaces
<1>4. CallInv'
  BY SurfacesAssumption
  DEF TypeOK, CallInv, FetchOutput, Idle, Enter, Lookup, Readable, Users, Surfaces
<1>5. ASSUME NEW s \in Surfaces
      PROVE  refcnt'[s] = Bit(HandleHolds(s)') + Bit(s \in cache') + Bit(shared'[s] # None)
                          + Cardinality(CallsOn(s))'
  <2>1. Cardinality(CallsOn(s))' = Cardinality(CallsOn(s)) - Bit(OnCall(t, s)) + Bit(OnCall(t, s)')
    BY <1>2, CallsChange
  <2> QED
    BY <2>1, CallsFinite, BitType, SurfacesAssumption
    DEF RefInv, CallInv, TypeOK, FetchOutput, Idle, Enter, Lookup, Readable, Users,
        HandleHolds, OnCall, Bit, Surfaces
<1>6. RefInv'
  BY <1>5 DEF RefInv
<1>7. HandleInv'
  BY SurfacesAssumption
  DEF TypeOK, HandleInv, FetchOutput, Idle, Enter, Lookup, Readable, Users, HandleHolds
<1>8. OwnerInv'
  BY SurfacesAssumption
  DEF TypeOK, OwnerInv, CallInv, HandleInv, FetchOutput, Idle, Enter, Lookup, Readable,
      Users, HandleHolds, Created, Exclusive, Writing, Mixing, Unowned
<1>9. OwnedInv'
  BY SurfacesAssumption
  DEF TypeOK, OwnedInv, CallInv, FetchOutput, Idle, Enter, Lookup, Readable, Users,
      HandleHolds, Created, Unowned
<1> QED
  BY <1>1, <1>3, <1>4, <1>6, <1>7, <1>8, <1>9

\* The lookup of a destroy call, which keeps the pointer only.
LEMMA FetchDestroyStep ==
  ASSUME IInv, NEW t \in Threads, FetchDestroy(t)
  PROVE  IInv'
<1> USE DEF IInv
<1>1. TypeOK'
  BY SurfacesAssumption
  DEF TypeOK, FetchDestroy, Idle, Enter, Lookup, Destroyable, Users, Calls, Steps,
      Surfaces
<1>2. OthersKeep(t)
  BY DEF TypeOK, FetchDestroy, Idle, Enter, Lookup, Destroyable, Users, OthersKeep
<1>3. LinkInv' /\ LockInv'
  BY SurfacesAssumption
  DEF TypeOK, LinkInv, LockInv, CallInv, FetchDestroy, Idle, Enter, Lookup, Destroyable,
      Users, NoLink, Surfaces
<1>4. CallInv'
  BY SurfacesAssumption
  DEF TypeOK, CallInv, FetchDestroy, Idle, Enter, Lookup, Destroyable, Users, Surfaces
<1>5. ASSUME NEW s \in Surfaces
      PROVE  refcnt'[s] = Bit(HandleHolds(s)') + Bit(s \in cache') + Bit(shared'[s] # None)
                          + Cardinality(CallsOn(s))'
  <2>1. Cardinality(CallsOn(s))' = Cardinality(CallsOn(s)) - Bit(OnCall(t, s)) + Bit(OnCall(t, s)')
    BY <1>2, CallsChange
  <2> QED
    BY <2>1, CallsFinite, BitType, SurfacesAssumption
    DEF RefInv, CallInv, TypeOK, FetchDestroy, Idle, Enter, Lookup, Destroyable, Users,
        HandleHolds, OnCall, Bit, Surfaces
<1>6. RefInv'
  BY <1>5 DEF RefInv
<1>7. HandleInv'
  BY SurfacesAssumption
  DEF TypeOK, HandleInv, FetchDestroy, Idle, Enter, Lookup, Destroyable, Users,
      HandleHolds
<1>8. OwnerInv'
  BY SurfacesAssumption
  DEF TypeOK, OwnerInv, CallInv, HandleInv, FetchDestroy, Idle, Enter, Lookup,
      Destroyable, Users, HandleHolds, Created, Exclusive, Writing, Mixing, Unowned
<1>9. OwnedInv'
  BY SurfacesAssumption
  DEF TypeOK, OwnedInv, CallInv, FetchDestroy, Idle, Enter, Lookup, Destroyable, Users,
      HandleHolds, Created, Unowned
<1> QED
  BY <1>1, <1>3, <1>4, <1>6, <1>7, <1>8, <1>9

\* alloc_surface for an output surface.
LEMMA CreateOutputStep ==
  ASSUME IInv, NEW t \in Threads, CreateOutput(t)
  PROVE  IInv'
<1> USE SurfacesAssumption DEF IInv
<1>1. PICK n \in Outputs : /\ refcnt[n] = 0
                           /\ refcnt' = [refcnt EXCEPT ![n] = 1]
                           /\ destroyed' = [destroyed EXCEPT ![n] = FALSE]
                           /\ out' = [out EXCEPT ![t] = n]
  BY DEF CreateOutput
<1>2. /\ n \in Surfaces /\ ~detached[n]
      /\ n \notin cache /\ shared[n] = None /\ Cardinality(CallsOn(n)) = 0
      /\ \A u \in Threads : n \notin {vid[u], out[u]}
      /\ \A h \in open \cap Slots : table[h] # n
  BY <1>1, FreeSurface DEF Surfaces
<1>t. TypeOK'
  BY <1>1, <1>2 DEF TypeOK, CreateOutput, Idle, Enter, Calls, Steps, Surfaces
<1>o. OthersKeep(t)
  BY <1>1, <1>2 DEF TypeOK, CreateOutput, Idle, Enter, OthersKeep
<1>l. LinkInv' /\ LockInv'
  BY <1>1, <1>2
  DEF TypeOK, LinkInv, LockInv, CallInv, CreateOutput, Idle, Enter, NoLink, Surfaces
<1>c. CallInv'
  BY <1>1, <1>2 DEF TypeOK, CallInv, CreateOutput, Idle, Enter, Surfaces
<1>r. ASSUME NEW s \in Surfaces
      PROVE  refcnt'[s] = Bit(HandleHolds(s)') + Bit(s \in cache') + Bit(shared'[s] # None)
                          + Cardinality(CallsOn(s))'
  <2>1. Cardinality(CallsOn(s))' = Cardinality(CallsOn(s)) - Bit(OnCall(t, s)) + Bit(OnCall(t, s)')
    BY <1>o, CallsChange
  <2>2. ~OnCall(t, s) /\ ~OnCall(t, s)'
    BY DEF CreateOutput, Idle, Enter, CallInv, TypeOK, OnCall, Surfaces
  <2>3. Bit(OnCall(t, s)) = 0 /\ Bit(OnCall(t, s)') = 0
    BY <2>2 DEF Bit
  <2>4. Cardinality(CallsOn(s))' = Cardinality(CallsOn(s))
    BY <2>1, <2>3, CallsFinite
  <2>5. CASE s = n
    BY <1>1, <1>2, <2>4, <2>5 DEF TypeOK, CreateOutput, HandleHolds, Bit
  <2>6. CASE s # n
    BY <1>1, <1>2, <2>4, <2>6 DEF RefInv, TypeOK, CreateOutput, HandleHolds, Bit
  <2> QED
    BY <2>5, <2>6
<1>i. RefInv'
  BY <1>r DEF RefInv
<1>h. HandleInv'
  BY <1>1, <1>2 DEF TypeOK, HandleInv, CreateOutput, Idle, Enter, HandleHolds
<1>w. OwnerInv'
  BY <1>1, <1>2
  DEF TypeOK, OwnerInv, CallInv, HandleInv, CreateOutput, Idle, Enter, HandleHolds,
      Created, Exclusive, Writing, Mixing, Unowned
<1>n. OwnedInv'
  BY <1>1, <1>2
  DEF TypeOK, OwnedInv, CallInv, CreateOutput, Idle, Enter, HandleHolds, Created,
      Unowned
<1> QED
  BY <1>t, <1>l, <1>c, <1>i, <1>h, <1>w, <1>n

\* create_surface stores the new surface in a free slot.
LEMMA RegisterStep ==
  ASSUME IInv, NEW t \in Threads, Register(t)
  PROVE  IInv'
<1> USE SurfacesAssumption DEF IInv
<1>1. PICK h \in Slots : /\ table[h] = None
                        /\ table' = [table EXCEPT ![h] = Created(t)]
                        /\ id' = [id EXCEPT ![Created(t)] = h]
                        /\ open' = open \cup {h}
  BY DEF Register
<1>2. /\ Created(t) \in Surfaces
      /\ \A s \in Surfaces : s \in {vid[t], out[t]} <=> s = Created(t)
  BY CreatedType DEF Register
<1>3. /\ HandleHolds(Created(t)) /\ \A g \in open \cap Slots : table[g] # Created(t)
      /\ h \notin open
  BY <1>1 DEF Register, OwnerInv, Exclusive, Unowned, HandleInv
<1>t. TypeOK'
  BY <1>1, <1>2, <1>3 DEF TypeOK, Register, Return, Calls, Steps, Surfaces
<1>o. OthersKeep(t)
  BY <1>1, <1>2, <1>3 DEF TypeOK, Register, Return, OthersKeep
<1>l. LinkInv' /\ LockInv'
  BY <1>1, <1>2, <1>3
  DEF TypeOK, LinkInv, LockInv, CallInv, Register, Return, NoLink, Surfaces
<1>c. CallInv'
  BY <1>1, <1>2, <1>3 DEF TypeOK, CallInv, Register, Return, Surfaces
<1>r. ASSUME NEW s \in Surfaces
      PROVE  refcnt'[s] = Bit(HandleHolds(s)') + Bit(s \in cache') + Bit(shared'[s] # None)
                          + Cardinality(CallsOn(s))'
  <2>1. Cardinality(CallsOn(s))' = Cardinality(CallsOn(s)) - Bit(OnCall(t, s)) + Bit(OnCall(t, s)')
    BY <1>o, CallsChange
  <2> QED
    BY <1>1, <1>2, <1>3, <2>1, CallsFinite, BitType
    DEF RefInv, CallInv, TypeOK, Register, Return, HandleHolds, OnCall, Bit, Surfaces
<1>i. RefInv'
  BY <1>r DEF RefInv
<1>h. HandleInv'
  BY <1>1, <1>2, <1>3 DEF TypeOK, HandleInv, Register, Return, HandleHolds
<1>w. OwnerInv'
  BY <1>1, <1>2, <1>3
  DEF TypeOK, OwnerInv, CallInv, HandleInv, Register, Return, HandleHolds, Created,
      Exclusive, Writing, Mixing, Unowned
<1>n. OwnedInv'
  BY <1>1, <1>2, <1>3
  DEF TypeOK, OwnedInv, CallInv, Register, Return, HandleHolds, Created, Unowned
<1> QED
  BY <1>t, <1>l, <1>c, <1>i, <1>h, <1>w, <1>n

\* Nobody resolves the link of an output surface that is not locked.
LEMMA UnlockedLink ==
  ASSUME IInv, NEW d \in Outputs, shared[d] # None,
         \/ lock[d] = None
         \/ \E t \in Threads : lock[d] = t /\ hold[t] = None
  PROVE  /\ link[shared[d]].refcnt = 1
         /\ \A t \in Threads : hold[t] # shared[d]
<1> USE SurfacesAssumption DEF IInv
<1>1. d \in Surfaces
  BY DEF Surfaces
<1>2. ASSUME NEW t \in Threads, hold[t] = shared[d]
      PROVE  FALSE
  <2>1. out[t] \in Outputs /\ lock[out[t]] = t /\ shared[out[t]] = shared[d]
    BY <1>2 DEF LockInv, TypeOK
  <2>2. out[t] = d
    BY <1>1, <2>1, LinkEnds DEF TypeOK, Surfaces
  <2> QED
    BY <1>2, <2>1, <2>2 DEF LockInv
<1> QED
  BY <1>1, <1>2, LinkEnds DEF LinkInv, TypeOK

\* NoLink is a constant.
LEMMA NoLinkStays == NoLink' = NoLink
  BY DEF NoLink

\* shared_surface_transfer_video references the link it resolves.
LEMMA DrawLockStep ==
  ASSUME IInv, NEW t \in Threads, DrawLock(t)
  PROVE  IInv'
<1>0. /\ TypeOK /\ LinkInv /\ LockInv /\ CallInv /\ OwnerInv
      /\ HandleInv /\ OwnedInv /\ RefInv
  BY DEF IInv
<1> USE <1>0, SurfacesAssumption
<1> DEFINE d == out[t]
           l == shared[d]
<1>1. /\ d \in Outputs /\ d \in Surfaces /\ vid[t] = None /\ hold[t] = None
      /\ pc[t] = "draw_fetched" /\ lock[d] = None
      /\ lock' = [lock EXCEPT ![d] = t] /\ pc' = [pc EXCEPT ![t] = "drawing"]
      /\ UNCHANGED <<table, refcnt, id, destroyed, detached, shared, cache, vid,
                     out, open, call>>
  BY DEF DrawLock, Goto, CallInv, LockInv, TypeOK, Surfaces
<1>4. /\ LinkInv' /\ LockInv'
      /\ link' \in [Links -> [refcnt : Int, video : Videos \cup {None},
                              disp : Outputs \cup {None}]]
      /\ hold' \in [Threads -> Links \cup {None}]
  <2>2. CASE call[t] = "draw" /\ l # None
    <3>1. l \in Links
      BY <1>1, <2>2 DEF TypeOK
    <3>2. link[l].refcnt = 1 /\ \A u \in Threads : hold[u] # l
      BY <1>1, <2>2, UnlockedLink
    <3>3. /\ hold' = [hold EXCEPT ![t] = l]
          /\ link' = [link EXCEPT ![l].refcnt = @ + 1]
      BY <2>2 DEF DrawLock
    <3>4. /\ link' \in [Links -> [refcnt : Int, video : Videos \cup {None},
                                  disp : Outputs \cup {None}]]
          /\ hold' \in [Threads -> Links \cup {None}]
      <4>1. link[l] \in [refcnt : Int, video : Videos \cup {None},
                         disp : Outputs \cup {None}]
        BY <3>1 DEF TypeOK
      <4>2. [link[l] EXCEPT !.refcnt = link[l].refcnt + 1]
              \in [refcnt : Int, video : Videos \cup {None}, disp : Outputs \cup {None}]
        BY <4>1
      <4> QED
        BY <3>1, <3>3, <4>2 DEF TypeOK
    <3>5. /\ \A k \in Links : k # l => link'[k] = link[k]
          /\ link'[l].refcnt = 2 /\ link'[l].video = link[l].video
          /\ link'[l].disp = link[l].disp /\ hold'[t] = l
          /\ \A u \in Threads : u # t => hold'[u] = hold[u]
      BY <3>1, <3>2, <3>3 DEF TypeOK
    <3>6. LinkInv'
      <4>1. \A k \in Links : link'[k].refcnt = 2 <=> \E u \in Threads : hold'[u] = k
        BY <1>1, <3>1, <3>2, <3>5 DEF LinkInv, TypeOK
      <4>2. \A k \in Links :
              /\ link'[k].video = link[k].video /\ link'[k].disp = link[k].disp
              /\ link'[k].refcnt = 0 <=> link[k].refcnt = 0
              /\ link'[k].refcnt \in {0, 1, 2}
              /\ link'[k].refcnt = 0 => link'[k] = NoLink
        BY <3>1, <3>2, <3>5 DEF LinkInv, TypeOK
      <4> QED
        BY <1>1, <4>1, <4>2, NoLinkStays DEF LinkInv, TypeOK
    <3>7. LockInv'
      BY <1>1, <2>2, <3>1, <3>2, <3>5 DEF LockInv, TypeOK
    <3> QED
      BY <3>4, <3>6, <3>7
  <2>3. CASE ~(call[t] = "draw" /\ l # None)
    <3>1. UNCHANGED <<hold, link>>
      BY <2>3 DEF DrawLock
    <3>2. LinkInv'
      BY <1>1, <3>1 DEF LinkInv, NoLink
    <3>3. LockInv'
      BY <1>1, <3>1 DEF LockInv, TypeOK
    <3> QED
      BY <3>1, <3>2, <3>3 DEF TypeOK
  <2> QED
    BY <2>2, <2>3
<1>5. TypeOK'
  BY <1>1, <1>4 DEF TypeOK, Steps
<1>6. CallInv'
  BY <1>1 DEF TypeOK, CallInv
<1>7. OthersKeep(t) /\ \A s : OnCall(t, s)' <=> OnCall(t, s)
  BY <1>1 DEF TypeOK, OthersKeep, OnCall
<1>8. RefInv'
  BY <1>1, <1>7, CallsChange, CallsFinite, BitType DEF RefInv, HandleHolds
<1>9. HandleInv'
  BY <1>1 DEF HandleInv, HandleHolds
<1>10. OwnerInv'
  BY <1>1
  DEF TypeOK, OwnerInv, HandleHolds, Created, Exclusive, Writing, Mixing, Unowned
<1>11. OwnedInv'
  BY <1>1 DEF TypeOK, OwnedInv, HandleHolds, Created, Unowned
<1> QED
  BY <1>4, <1>5, <1>6, <1>8, <1>9, <1>10, <1>11 DEF IInv

\* An action that only drops references, of its own pointers or of the cache's:
\* t returns, or goes on with the same surfaces.
LEMMA DropStep ==
  ASSUME IInv, NEW t \in Threads, NEW rc \in [Surfaces -> Int], Settle(rc, table, id),
         UNCHANGED <<destroyed, detached, shared, link>>, open' \cap Slots = open \cap Slots,
         TypeOK', LockInv', CallInv', OthersKeep(t), pc[t] \notin Unowned,
         \A u \in Threads \ {t} : call'[u] = call[u],
         \A u \in Threads : hold'[u] = hold[u],
         \/ pc'[t] = "idle"
         \/ /\ UNCHANGED <<vid, out, call>>
            /\ pc'[t] \in Exclusive => pc[t] \in Exclusive
            /\ pc'[t] \in Writing => pc[t] \in Writing
            /\ pc'[t] \in Mixing => pc[t] \in Mixing
            /\ pc'[t] \notin Unowned,
         \A s \in Surfaces :
           rc[s] = refcnt[s] - Bit(s \in cache) + Bit(s \in cache')
                   - Bit(OnCall(t, s)) + Bit(OnCall(t, s)')
  PROVE  IInv'
<1>0. /\ TypeOK /\ LinkInv /\ LockInv /\ CallInv /\ OwnerInv
      /\ HandleInv /\ OwnedInv /\ RefInv
  BY DEF IInv
<1> USE <1>0, SurfacesAssumption
<1>1. LinkInv'
  BY DEF TypeOK, LinkInv, LockInv, CallInv, NoLink
<1>2. ASSUME NEW s \in Surfaces
      PROVE  refcnt'[s] = Bit(HandleHolds(s)') + Bit(s \in cache') + Bit(shared'[s] # None)
                          + Cardinality(CallsOn(s))'
  <2>1. Cardinality(CallsOn(s))' = Cardinality(CallsOn(s)) - Bit(OnCall(t, s)) + Bit(OnCall(t, s)')
    BY CallsChange
  <2>2. refcnt[s] = Bit(HandleHolds(s)) + Bit(s \in cache) + Bit(shared[s] # None)
                    + Cardinality(CallsOn(s))
    BY DEF RefInv
  <2>3. refcnt'[s] = rc[s] /\ HandleHolds(s)' = HandleHolds(s) /\ shared'[s] = shared[s]
    BY DEF Settle, HandleHolds
  <2> QED
    BY <2>1, <2>2, <2>3, CallsFinite, BitType
<1>3. RefInv'
  BY <1>2 DEF RefInv
<1>4. /\ \A s \in Surfaces : HandleHolds(s) =>
           /\ id'[s] = id[s]
           /\ \A h \in Slots : table[h] = s => table'[h] = s
      /\ \A h \in Slots : table'[h] \in {table[h], None}
      /\ \A s \in Surfaces : id'[s] \in {id[s], NoSlot}
  BY <1>3, SettleKeeps DEF HandleHolds
<1>5. HandleInv'
  BY <1>4 DEF TypeOK, HandleInv, HandleHolds
<1>6. OwnerInv'
  <2>1. ASSUME NEW u \in Threads, pc'[u] # "idle"
        PROVE  /\ vid'[u] = vid[u] /\ out'[u] = out[u] /\ call'[u] = call[u]
               /\ Created(u)' = Created(u)
               /\ pc'[u] \in Exclusive => pc[u] \in Exclusive
               /\ pc'[u] \in Writing => pc[u] \in Writing
               /\ pc'[u] \in Mixing => pc[u] \in Mixing
               /\ pc'[u] \in Unowned => pc[u] \in Unowned
    BY <2>1 DEF OthersKeep, Created
  <2>2. "idle" \notin Exclusive \cup Writing \cup Mixing \cup Unowned
    BY DEF Exclusive, Writing, Mixing, Unowned
  <2>3. ASSUME NEW u \in Threads, pc'[u] \in Exclusive
        PROVE  /\ HandleHolds(Created(u))'
               /\ \A w \in Threads \ {u} : Created(u)' \in {vid'[w], out'[w]} =>
                    pc'[w] = "unref" \/ call'[w] = "display"
    <3>1. HandleHolds(Created(u)) /\ Created(u) # None /\ Created(u)' = Created(u)
      BY <2>1, <2>2, <2>3 DEF OwnerInv, CallInv, Exclusive, Created
    <3>2. ASSUME NEW w \in Threads \ {u}, Created(u) \in {vid'[w], out'[w]}
          PROVE  pc'[w] = "unref" \/ call'[w] = "display"
      <4>1. pc'[w] # "idle"
        BY <3>1, <3>2 DEF CallInv
      <4>2. pc[w] = "unref" \/ call[w] = "display"
        BY <2>1, <2>2, <2>3, <3>2, <4>1 DEF OwnerInv
      <4>3. CASE w = t
        BY <2>1, <4>1, <4>2, <4>3 DEF CallInv, TypeOK, Exclusive, Unowned, Mixing, Steps
      <4>4. CASE w # t
        BY <2>1, <4>1, <4>2, <4>4 DEF OthersKeep
      <4> QED
        BY <4>3, <4>4
    <3> QED
      BY <3>1, <3>2 DEF HandleHolds
  <2>4. ASSUME NEW u \in Threads, pc'[u] \in Writing
        PROVE  id'[vid'[u]] \in open' \cap Slots /\ table'[id'[vid'[u]]] = vid'[u]
    <3>1. /\ pc[u] \in Writing /\ vid'[u] = vid[u] /\ vid[u] \in Surfaces
          /\ Created(u) = vid[u] /\ pc[u] \in Exclusive
      BY <2>1, <2>2, <2>4 DEF CallInv, TypeOK, Writing, Created, Exclusive, Surfaces
    <3> QED
      BY <1>4, <3>1 DEF OwnerInv
  <2>5. ASSUME NEW u \in Threads, pc'[u] \in Unowned
        PROVE  \A h \in open' \cap Slots : table'[h] # Created(u)'
    <3>1. pc[u] \in Unowned /\ Created(u)' = Created(u) /\ Created(u) # None
      BY <2>1, <2>2, <2>5 DEF CallInv, Unowned, Created
    <3> QED
      BY <1>4, <3>1 DEF OwnerInv
  <2>6. ASSUME NEW u \in Threads, pc'[u] \in Mixing
        PROVE  HandleHolds(vid[u])' /\ HandleHolds(out[u])'
    BY <2>1, <2>2, <2>6 DEF OwnerInv, HandleHolds
  <2> QED
    BY <2>3, <2>4, <2>5, <2>6 DEF OwnerInv
<1>7. OwnedInv'
  BY <1>4 DEF OwnedInv, OthersKeep, HandleHolds, Created, Unowned
<1> QED
  BY <1>1, <1>3, <1>5, <1>6, <1>7 DEF IInv


\* A rejected bitstream or format puts the surface.
LEMMA WriteRejectedStep ==
  ASSUME IInv, NEW t \in Threads, WriteRejected(t)
  PROVE  IInv'
<1>0. TypeOK /\ LockInv /\ CallInv
  BY DEF IInv
<1> USE <1>0, SurfacesAssumption
<1> DEFINE rc == [refcnt EXCEPT ![vid[t]] = @ - 1]
<1>1. /\ Settle(rc, table, id) /\ cache' = cache
      /\ UNCHANGED <<destroyed, detached, shared, link>>
      /\ open' \cap Slots = open \cap Slots
  BY DEF WriteRejected, Return
<1>2. /\ rc \in [Surfaces -> Int]
      /\ \A s \in Surfaces :
           rc[s] = refcnt[s] - Bit(s \in cache) + Bit(s \in cache')
                   - Bit(OnCall(t, s)) + Bit(OnCall(t, s)')
  BY <1>1 DEF Bit, OnCall, TypeOK, CallInv, WriteRejected, Return, Surfaces
<1>3. TypeOK'
  <2>1. /\ refcnt' \in [Surfaces -> Int]
        /\ table' \in [Slots -> Surfaces \cup {None}]
        /\ id' \in [Surfaces -> Slots \cup {NoSlot}]
    BY <1>1, <1>2, SettleType DEF TypeOK
  <2> QED
    BY <1>1, <2>1 DEF TypeOK, WriteRejected, Return, Calls, Steps
<1>4. LockInv' /\ CallInv' /\ OthersKeep(t)
  BY <1>1 DEF TypeOK, LockInv, CallInv, WriteRejected, Return, OthersKeep
<1>5. /\ \A u \in Threads \ {t} : call'[u] = call[u]
      /\ \A u \in Threads : hold'[u] = hold[u]
  BY <1>1 DEF TypeOK, LockInv, CallInv, WriteRejected, Return
<1>6. pc[t] \notin Unowned /\ pc'[t] = "idle"
  BY <1>1
  DEF TypeOK, CallInv, WriteRejected, Return, Exclusive, Writing, Mixing, Unowned
<1> QED
  BY <1>1, <1>2, <1>3, <1>4, <1>5, <1>6, DropStep

\* tegra_surface_cache_surface_self_remove.
LEMMA BeginWriteStep ==
  ASSUME IInv, NEW t \in Threads, BeginWrite(t)
  PROVE  IInv'
<1>0. TypeOK /\ LockInv /\ CallInv
  BY DEF IInv
<1> USE <1>0, SurfacesAssumption
<1> DEFINE drop == call[t] = "decode" /\ vid[t] \in cache
           rc == IF drop THEN [refcnt EXCEPT ![vid[t]] = @ - 1] ELSE refcnt
<1>1. /\ Settle(rc, table, id) /\ cache' = IF drop THEN cache \ {vid[t]} ELSE cache
      /\ UNCHANGED <<destroyed, detached, shared, link>>
      /\ open' \cap Slots = open \cap Slots
  <2>1. CASE drop
    BY <2>1 DEF BeginWrite
  <2>2. CASE ~drop
    <3>1. UNCHANGED <<cache, refcnt, table, id>>
      BY <2>2 DEF BeginWrite
    <3>2. /\ refcnt = [s \in Surfaces |-> refcnt[s]] /\ table = [h \in Slots |-> table[h]]
          /\ id = [s \in Surfaces |-> id[s]]
      BY DEF TypeOK
    <3> QED
      BY <2>2, <3>1, <3>2 DEF Settle, TypeOK, BeginWrite
  <2> QED
    BY <2>1, <2>2
<1>2. /\ rc \in [Surfaces -> Int]
      /\ \A s \in Surfaces :
           rc[s] = refcnt[s] - Bit(s \in cache) + Bit(s \in cache')
                   - Bit(OnCall(t, s)) + Bit(OnCall(t, s)')
  <2>1. CASE drop
    BY <1>1, <2>1 DEF Bit, OnCall, TypeOK, CallInv, BeginWrite, Goto, Surfaces
  <2>2. CASE ~drop
    BY <1>1, <2>2 DEF Bit, OnCall, TypeOK, CallInv, BeginWrite, Goto
  <2> QED
    BY <2>1, <2>2
<1>3. TypeOK'
  <2>1. /\ refcnt' \in [Surfaces -> Int]
        /\ table' \in [Slots -> Surfaces \cup {None}]
        /\ id' \in [Surfaces -> Slots \cup {NoSlot}]
    BY <1>1, <1>2, SettleType DEF TypeOK
  <2> QED
    BY <1>1, <2>1 DEF TypeOK, BeginWrite, Goto, Calls, Steps
<1>4. LockInv' /\ CallInv' /\ OthersKeep(t)
  BY <1>1 DEF TypeOK, LockInv, CallInv, BeginWrite, Goto, OthersKeep
<1>5. /\ \A u \in Threads \ {t} : call'[u] = call[u]
      /\ \A u \in Threads : hold'[u] = hold[u]
  BY <1>1 DEF TypeOK, LockInv, CallInv, BeginWrite, Goto
<1>6. /\ pc[t] \notin Unowned /\ UNCHANGED <<vid, out, call>>
      /\ pc'[t] \in Exclusive => pc[t] \in Exclusive
      /\ pc'[t] \in Writing => pc[t] \in Writing
      /\ pc'[t] \in Mixing => pc[t] \in Mixing
      /\ pc'[t] \notin Unowned
  BY <1>1 DEF TypeOK, CallInv, BeginWrite, Goto, Exclusive, Writing, Mixing, Unowned
<1> QED
  BY <1>1, <1>2, <1>3, <1>4, <1>5, <1>6, DropStep

\* tegra_surface_cache_add_surface and the put of the decoded surface.
LEMMA FinishDecodeStep ==
  ASSUME IInv, NEW t \in Threads, FinishDecode(t)
  PROVE  IInv'
<1>0. TypeOK /\ LockInv /\ CallInv
  BY DEF IInv
<1> USE <1>0, SurfacesAssumption
<1>a. PICK expired \in SUBSET (CacheHits \ {vid[t]}) :
        /\ cache' = (cache \cup {vid[t]}) \ expired
        /\ Settle([s \in Surfaces |->
                      IF s = vid[t] THEN refcnt[vid[t]] + Bit(vid[t] \notin cache) - 1
                      ELSE refcnt[s] - Bit(s \in expired)], table, id)
  BY DEF FinishDecode
<1> DEFINE rc == [s \in Surfaces |-> IF s = vid[t] THEN refcnt[vid[t]] + Bit(vid[t] \notin cache) - 1
                                         ELSE refcnt[s] - Bit(s \in expired)]
<1>1. /\ Settle(rc, table, id) /\ cache' = (cache \cup {vid[t]}) \ expired
      /\ expired \subseteq cache /\ vid[t] \notin expired /\ vid[t] \in Videos
      /\ UNCHANGED <<destroyed, detached, shared, link>>
      /\ open' \cap Slots = open \cap Slots
  BY <1>a DEF CacheHits, FinishDecode, CallInv, TypeOK
<1>2. /\ rc \in [Surfaces -> Int]
      /\ \A s \in Surfaces :
           rc[s] = refcnt[s] - Bit(s \in cache) + Bit(s \in cache')
                   - Bit(OnCall(t, s)) + Bit(OnCall(t, s)')
  BY <1>1 DEF Bit, OnCall, TypeOK, CallInv, FinishDecode, Return, Surfaces
<1>3. TypeOK'
  <2>1. /\ refcnt' \in [Surfaces -> Int]
        /\ table' \in [Slots -> Surfaces \cup {None}]
        /\ id' \in [Surfaces -> Slots \cup {NoSlot}]
    BY <1>1, <1>2, SettleType DEF TypeOK
  <2> QED
    BY <1>1, <2>1 DEF TypeOK, FinishDecode, Return, Calls, Steps
<1>4. LockInv' /\ CallInv' /\ OthersKeep(t)
  BY <1>1 DEF TypeOK, LockInv, CallInv, FinishDecode, Return, OthersKeep
<1>5. /\ \A u \in Threads \ {t} : call'[u] = call[u]
      /\ \A u \in Threads : hold'[u] = hold[u]
  BY <1>1 DEF TypeOK, LockInv, CallInv, FinishDecode, Return
<1>6. pc[t] \notin Unowned /\ pc'[t] = "idle"
  BY <1>1 DEF TypeOK, CallInv, FinishDecode, Return, Exclusive, Writing, Mixing, Unowned
<1> QED
  BY <1>1, <1>2, <1>3, <1>4, <1>5, <1>6, DropStep

\* The put of a surface after put_bits.
LEMMA FinishPutBitsStep ==
  ASSUME IInv, NEW t \in Threads, FinishPutBits(t)
  PROVE  IInv'
<1>0. TypeOK /\ LockInv /\ CallInv
  BY DEF IInv
<1> USE <1>0, SurfacesAssumption
<1> DEFINE rc == [refcnt EXCEPT ![vid[t]] = @ - 1]
<1>1. /\ Settle(rc, table, id) /\ cache' = cache
      /\ UNCHANGED <<destroyed, detached, shared, link>>
      /\ open' \cap Slots = open \cap Slots
  BY DEF FinishPutBits, Return
<1>2. /\ rc \in [Surfaces -> Int]
      /\ \A s \in Surfaces :
           rc[s] = refcnt[s] - Bit(s \in cache) + Bit(s \in cache')
                   - Bit(OnCall(t, s)) + Bit(OnCall(t, s)')
  BY <1>1 DEF Bit, OnCall, TypeOK, CallInv, FinishPutBits, Return, Surfaces
<1>3. TypeOK'
  <2>1. /\ refcnt' \in [Surfaces -> Int]
        /\ table' \in [Slots -> Surfaces \cup {None}]
        /\ id' \in [Surfaces -> Slots \cup {NoSlot}]
    BY <1>1, <1>2, SettleType DEF TypeOK
  <2> QED
    BY <1>1, <2>1 DEF TypeOK, FinishPutBits, Return, Calls, Steps
<1>4. LockInv' /\ CallInv' /\ OthersKeep(t)
  BY <1>1 DEF TypeOK, LockInv, CallInv, FinishPutBits, Return, OthersKeep
<1>5. /\ \A u \in Threads \ {t} : call'[u] = call[u]
      /\ \A u \in Threads : hold'[u] = hold[u]
  BY <1>1 DEF TypeOK, LockInv, CallInv, FinishPutBits, Return
<1>6. pc[t] \notin Unowned /\ pc'[t] = "idle"
  BY <1>1
  DEF TypeOK, CallInv, FinishPutBits, Return, Exclusive, Writing, Mixing, Unowned
<1> QED
  BY <1>1, <1>2, <1>3, <1>4, <1>5, <1>6, DropStep

\* alloc_surface without memory, whatever became of the caches.
LEMMA CreateFailStep ==
  ASSUME IInv, NEW t \in Threads, CreateFail(t)
  PROVE  IInv'
<1>0. TypeOK /\ LockInv /\ CallInv
  BY DEF IInv
<1> USE <1>0, SurfacesAssumption
<1>a. PICK dropped \in {{}, cache} :
        /\ cache' = cache \ dropped
        /\ Settle([s \in Surfaces |-> refcnt[s] - Bit(s \in dropped)], table, id)
  BY DEF CreateFail
<1> DEFINE rc == [s \in Surfaces |-> refcnt[s] - Bit(s \in dropped)]
<1>1. /\ Settle(rc, table, id) /\ cache' = cache \ dropped /\ dropped \subseteq cache
      /\ UNCHANGED <<destroyed, detached, shared, link>>
      /\ open' \cap Slots = open \cap Slots
  <2>1. open' = open \cup {StatusResources}
    BY DEF CreateFail
  <2>2. open' \cap Slots = open \cap Slots
    BY <2>1
  <2>3. UNCHANGED <<destroyed, detached, shared, link>>
    BY DEF CreateFail
  <2> QED
    BY <1>a, <2>2, <2>3
<1>2. /\ rc \in [Surfaces -> Int]
      /\ \A s \in Surfaces :
           rc[s] = refcnt[s] - Bit(s \in cache) + Bit(s \in cache')
                   - Bit(OnCall(t, s)) + Bit(OnCall(t, s)')
  BY <1>1 DEF Bit, OnCall, TypeOK, CallInv, CreateFail, Idle, Surfaces
<1>3. TypeOK'
  <2>1. /\ refcnt' \in [Surfaces -> Int]
        /\ table' \in [Slots -> Surfaces \cup {None}]
        /\ id' \in [Surfaces -> Slots \cup {NoSlot}]
    BY <1>1, <1>2, SettleType DEF TypeOK
  <2> QED
    BY <1>1, <2>1 DEF TypeOK, CreateFail, Idle, Calls, Steps
<1>4. LockInv' /\ CallInv' /\ OthersKeep(t)
  BY <1>1 DEF TypeOK, LockInv, CallInv, CreateFail, Idle, OthersKeep
<1>5. /\ \A u \in Threads \ {t} : call'[u] = call[u]
      /\ \A u \in Threads : hold'[u] = hold[u]
  BY <1>1 DEF TypeOK, LockInv, CallInv, CreateFail, Idle
<1>6. pc[t] \notin Unowned /\ pc'[t] = "idle"
  BY <1>1 DEF TypeOK, CallInv, CreateFail, Idle, Exclusive, Writing, Mixing, Unowned
<1> QED
  BY <1>1, <1>2, <1>3, <1>4, <1>5, <1>6, DropStep

\* shared_surface_swap_video without memory keeps the old surface.
LEMMA SwapFailStep ==
  ASSUME IInv, NEW t \in Threads, SwapFail(t)
  PROVE  IInv'
<1>0. TypeOK /\ LockInv /\ CallInv
  BY DEF IInv
<1> USE <1>0, SurfacesAssumption
<1>a. PICK dropped \in {{}, cache} :
        /\ cache' = cache \ dropped
        /\ Settle([s \in Surfaces |-> refcnt[s] - Bit(s \in dropped)], table, id)
  BY DEF SwapFail
<1> DEFINE rc == [s \in Surfaces |-> refcnt[s] - Bit(s \in dropped)]
<1>1. /\ Settle(rc, table, id) /\ cache' = cache \ dropped /\ dropped \subseteq cache
      /\ UNCHANGED <<destroyed, detached, shared, link>>
      /\ open' \cap Slots = open \cap Slots
  BY <1>a DEF SwapFail, Goto
<1>2. /\ rc \in [Surfaces -> Int]
      /\ \A s \in Surfaces :
           rc[s] = refcnt[s] - Bit(s \in cache) + Bit(s \in cache')
                   - Bit(OnCall(t, s)) + Bit(OnCall(t, s)')
  BY <1>1 DEF Bit, OnCall, TypeOK, CallInv, SwapFail, Goto, Surfaces
<1>3. TypeOK'
  <2>1. /\ refcnt' \in [Surfaces -> Int]
        /\ table' \in [Slots -> Surfaces \cup {None}]
        /\ id' \in [Surfaces -> Slots \cup {NoSlot}]
    BY <1>1, <1>2, SettleType DEF TypeOK
  <2> QED
    BY <1>1, <2>1 DEF TypeOK, SwapFail, Goto, Calls, Steps
<1>4. LockInv' /\ CallInv' /\ OthersKeep(t)
  BY <1>1 DEF TypeOK, LockInv, CallInv, SwapFail, Goto, OthersKeep
<1>5. /\ \A u \in Threads \ {t} : call'[u] = call[u]
      /\ \A u \in Threads : hold'[u] = hold[u]
  BY <1>1 DEF TypeOK, LockInv, CallInv, SwapFail, Goto
<1>6. /\ pc[t] \notin Unowned /\ UNCHANGED <<vid, out, call>>
      /\ pc'[t] \in Exclusive => pc[t] \in Exclusive
      /\ pc'[t] \in Writing => pc[t] \in Writing
      /\ pc'[t] \in Mixing => pc[t] \in Mixing
      /\ pc'[t] \notin Unowned
  BY <1>1 DEF TypeOK, CallInv, SwapFail, Goto, Exclusive, Writing, Mixing, Unowned
<1> QED
  BY <1>1, <1>2, <1>3, <1>4, <1>5, <1>6, DropStep

\* The end of a mixer call that did not share.
LEMMA MixBlitStep ==
  ASSUME IInv, NEW t \in Threads, MixBlit(t)
  PROVE  IInv'
<1>0. TypeOK /\ LockInv /\ CallInv
  BY DEF IInv
<1> USE <1>0, SurfacesAssumption
<1> DEFINE rc == [s \in Surfaces |-> refcnt[s] - Bit(s \in {vid[t], out[t]})]
<1>1. /\ Settle(rc, table, id) /\ cache' = cache
      /\ UNCHANGED <<destroyed, detached, shared, link>>
      /\ open' \cap Slots = open \cap Slots
  BY DEF MixBlit, MixReturn, Return
<1>2. /\ rc \in [Surfaces -> Int]
      /\ \A s \in Surfaces :
           rc[s] = refcnt[s] - Bit(s \in cache) + Bit(s \in cache')
                   - Bit(OnCall(t, s)) + Bit(OnCall(t, s)')
  BY <1>1 DEF Bit, OnCall, TypeOK, CallInv, MixBlit, MixReturn, Return, Surfaces
<1>3. TypeOK'
  <2>1. /\ refcnt' \in [Surfaces -> Int]
        /\ table' \in [Slots -> Surfaces \cup {None}]
        /\ id' \in [Surfaces -> Slots \cup {NoSlot}]
    BY <1>1, <1>2, SettleType DEF TypeOK
  <2> QED
    BY <1>1, <2>1 DEF TypeOK, MixBlit, MixReturn, Return, Calls, Steps
<1>4. LockInv' /\ CallInv' /\ OthersKeep(t)
  BY <1>1 DEF TypeOK, LockInv, CallInv, MixBlit, MixReturn, Return, OthersKeep
<1>5. /\ \A u \in Threads \ {t} : call'[u] = call[u]
      /\ \A u \in Threads : hold'[u] = hold[u]
  BY <1>1 DEF TypeOK, LockInv, CallInv, MixBlit, MixReturn, Return
<1>6. pc[t] \notin Unowned /\ pc'[t] = "idle"
  BY <1>1
  DEF TypeOK, CallInv, MixBlit, MixReturn, Return, Exclusive, Writing, Mixing, Unowned
<1> QED
  BY <1>1, <1>2, <1>3, <1>4, <1>5, <1>6, DropStep

\* The display puts the output surface.
LEMMA DisplayDoneStep ==
  ASSUME IInv, NEW t \in Threads, DisplayDone(t)
  PROVE  IInv'
<1>0. TypeOK /\ LockInv /\ CallInv
  BY DEF IInv
<1> USE <1>0, SurfacesAssumption
<1> DEFINE rc == [refcnt EXCEPT ![out[t]] = @ - 1]
<1>1. /\ Settle(rc, table, id) /\ cache' = cache
      /\ UNCHANGED <<destroyed, detached, shared, link>>
      /\ open' \cap Slots = open \cap Slots
  BY DEF DisplayDone, Return
<1>2. /\ rc \in [Surfaces -> Int]
      /\ \A s \in Surfaces :
           rc[s] = refcnt[s] - Bit(s \in cache) + Bit(s \in cache')
                   - Bit(OnCall(t, s)) + Bit(OnCall(t, s)')
  BY <1>1 DEF Bit, OnCall, TypeOK, CallInv, DisplayDone, Return, Surfaces
<1>3. TypeOK'
  <2>1. /\ refcnt' \in [Surfaces -> Int]
        /\ table' \in [Slots -> Surfaces \cup {None}]
        /\ id' \in [Surfaces -> Slots \cup {NoSlot}]
    BY <1>1, <1>2, SettleType DEF TypeOK
  <2> QED
    BY <1>1, <2>1 DEF TypeOK, DisplayDone, Return, Calls, Steps
<1>4. LockInv' /\ CallInv' /\ OthersKeep(t)
  BY <1>1 DEF TypeOK, LockInv, CallInv, DisplayDone, Return, OthersKeep
<1>5. /\ \A u \in Threads \ {t} : call'[u] = call[u]
      /\ \A u \in Threads : hold'[u] = hold[u]
  BY <1>1 DEF TypeOK, LockInv, CallInv, DisplayDone, Return
<1>6. pc[t] \notin Unowned /\ pc'[t] = "idle"
  BY <1>1 DEF TypeOK, CallInv, DisplayDone, Return, Exclusive, Writing, Mixing, Unowned
<1> QED
  BY <1>1, <1>2, <1>3, <1>4, <1>5, <1>6, DropStep

\* tegra_surface_drop_caches under memory pressure.
LEMMA DropCachesStep ==
  ASSUME IInv, NEW t \in Threads, DropCaches(t)
  PROVE  IInv'
<1>0. TypeOK /\ LockInv /\ CallInv
  BY DEF IInv
<1> USE <1>0, SurfacesAssumption
<1> DEFINE rc == [s \in Surfaces |-> refcnt[s] - Bit(s \in cache)]
<1>1. /\ Settle(rc, table, id) /\ cache' = {}
      /\ UNCHANGED <<destroyed, detached, shared, link>>
      /\ open' \cap Slots = open \cap Slots
  BY DEF DropCaches
<1>2. /\ rc \in [Surfaces -> Int]
      /\ \A s \in Surfaces :
           rc[s] = refcnt[s] - Bit(s \in cache) + Bit(s \in cache')
                   - Bit(OnCall(t, s)) + Bit(OnCall(t, s)')
  BY <1>1 DEF Bit, OnCall, TypeOK, CallInv, DropCaches, Surfaces
<1>3. TypeOK'
  <2>1. /\ refcnt' \in [Surfaces -> Int]
        /\ table' \in [Slots -> Surfaces \cup {None}]
        /\ id' \in [Surfaces -> Slots \cup {NoSlot}]
    BY <1>1, <1>2, SettleType DEF TypeOK
  <2> QED
    BY <1>1, <2>1 DEF TypeOK, DropCaches, Calls, Steps
<1>4. LockInv' /\ CallInv' /\ OthersKeep(t)
  BY <1>1 DEF TypeOK, LockInv, CallInv, DropCaches, OthersKeep
<1>5. /\ \A u \in Threads \ {t} : call'[u] = call[u]
      /\ \A u \in Threads : hold'[u] = hold[u]
  BY <1>1 DEF TypeOK, LockInv, CallInv, DropCaches
<1>6. /\ pc[t] \notin Unowned /\ UNCHANGED <<vid, out, call>>
      /\ pc'[t] \in Exclusive => pc[t] \in Exclusive
      /\ pc'[t] \in Writing => pc[t] \in Writing
      /\ pc'[t] \in Mixing => pc[t] \in Mixing
      /\ pc'[t] \notin Unowned
  BY <1>1 DEF TypeOK, CallInv, DropCaches, Exclusive, Writing, Mixing, Unowned
<1> QED
  BY <1>1, <1>2, <1>3, <1>4, <1>5, <1>6, DropStep

\* The final unref_surface of destroy_surface.
LEMMA FinishDestroyStep ==
  ASSUME IInv, NEW t \in Threads, FinishDestroy(t)
  PROVE  IInv'
<1>0. TypeOK /\ LockInv /\ CallInv
  BY DEF IInv
<1> USE <1>0, SurfacesAssumption
<1> DEFINE rc == [refcnt EXCEPT ![Created(t)] = @ - 1]
<1>1. /\ Settle(rc, table, id) /\ cache' = cache /\ Created(t) \in Surfaces
      /\ \A s \in Surfaces : s \in {vid[t], out[t]} <=> s = Created(t)
      /\ UNCHANGED <<destroyed, detached, shared, link>>
      /\ open' \cap Slots = open \cap Slots
  BY CreatedType DEF FinishDestroy
<1>2. /\ rc \in [Surfaces -> Int]
      /\ \A s \in Surfaces :
           rc[s] = refcnt[s] - Bit(s \in cache) + Bit(s \in cache')
                   - Bit(OnCall(t, s)) + Bit(OnCall(t, s)')
  BY <1>1 DEF Bit, OnCall, TypeOK, CallInv, FinishDestroy, Return, Surfaces
<1>3. TypeOK'
  <2>1. /\ refcnt' \in [Surfaces -> Int]
        /\ table' \in [Slots -> Surfaces \cup {None}]
        /\ id' \in [Surfaces -> Slots \cup {NoSlot}]
    BY <1>1, <1>2, SettleType DEF TypeOK
  <2> QED
    BY <1>1, <2>1 DEF TypeOK, FinishDestroy, Return, Calls, Steps
<1>4. LockInv' /\ CallInv' /\ OthersKeep(t)
  BY <1>1 DEF TypeOK, LockInv, CallInv, FinishDestroy, Return, OthersKeep
<1>5. /\ \A u \in Threads \ {t} : call'[u] = call[u]
      /\ \A u \in Threads : hold'[u] = hold[u]
  BY <1>1 DEF TypeOK, LockInv, CallInv, FinishDestroy, Return
<1>6. pc[t] \notin Unowned /\ pc'[t] = "idle"
  BY <1>1
  DEF TypeOK, CallInv, FinishDestroy, Return, Exclusive, Writing, Mixing, Unowned
<1> QED
  BY <1>1, <1>2, <1>3, <1>4, <1>5, <1>6, DropStep

\* Breaking a link and dropping every reference to it: the link is gone, its two
\* surfaces lose it and one reference each, and a detached video surface turns
\* into a destroyed one.
LEMMA Unlink ==
  ASSUME TypeOK, LinkInv, HandleInv, OwnedInv, NEW l \in Links \cup {None}, NEW n \in {1, 2},
         l # None => link[l].refcnt = n,
         BreakLink(l), link' = LinkAfter(l, n),
         \A u \in Threads : hold'[u] = IF hold[u] = l THEN None ELSE hold[u]
  PROVE  /\ LinkInv'
         /\ link' \in [Links -> [refcnt : Int, video : Videos \cup {None},
                                 disp : Outputs \cup {None}]]
         /\ shared' \in [Surfaces -> Links \cup {None}]
         /\ detached' \in [Surfaces -> BOOLEAN]
         /\ Reusable(l) \in [Surfaces -> BOOLEAN]
         /\ \A s \in Surfaces :
              /\ shared'[s] = IF shared[s] = l THEN None ELSE shared[s]
              /\ LinkDrop(l, n, s) = Bit(shared[s] # None) - Bit(shared'[s] # None)
              /\ detached'[s] => detached[s] /\ shared'[s] = shared[s] /\ ~Reusable(l)[s]
              /\ (~Reusable(l)[s] /\ ~detached'[s]) <=> (~destroyed[s] /\ ~detached[s])
<1> USE SurfacesAssumption
<1>1. CASE l = None
  <2>1. /\ UNCHANGED <<shared, detached, link>> /\ Reusable(l) = destroyed
        /\ \A u \in Threads : hold'[u] = hold[u]
    BY <1>1 DEF BreakLink, LinkAfter, Reusable, TypeOK
  <2>2. LinkInv'
    BY <2>1, NoLinkStays DEF LinkInv
  <2>3. \A s \in Surfaces : LinkDrop(l, n, s) = 0
    BY <1>1 DEF LinkDrop, LastOf, Bit
  <2>4. \A s \in Surfaces : /\ Bit(shared[s] # None) - Bit(shared'[s] # None) = 0
                            /\ shared'[s] = IF shared[s] = l THEN None ELSE shared[s]
    BY <1>1, <2>1 DEF Bit
  <2> QED
    BY <2>1, <2>2, <2>3, <2>4 DEF TypeOK, HandleInv
<1>2. CASE l # None
  <2> DEFINE v == link[l].video
             d == link[l].disp
  <2>1. /\ l \in Links /\ v \in Videos /\ d \in Outputs /\ v # d
        /\ v \in Surfaces /\ d \in Surfaces
        /\ \A s \in Surfaces : shared[s] = l <=> s \in {v, d}
    BY <1>2 DEF LinkInv, TypeOK, Surfaces
  <2>2. /\ shared' = [shared EXCEPT ![v] = None, ![d] = None]
        /\ detached' = [detached EXCEPT ![v] = FALSE]
        /\ link' = [link EXCEPT ![l] = NoLink]
    BY <1>2 DEF BreakLink, LinkAfter, LastOf
  <2>3. /\ link' \in [Links -> [refcnt : Int, video : Videos \cup {None},
                                disp : Outputs \cup {None}]]
        /\ link'[l] = NoLink /\ link'[l].refcnt = 0
        /\ \A k \in Links : k # l => link'[k] = link[k]
    BY <2>1, <2>2 DEF TypeOK, NoLink
  <2>4. /\ shared' \in [Surfaces -> Links \cup {None}]
        /\ detached' \in [Surfaces -> BOOLEAN]
        /\ \A s \in Surfaces : shared'[s] = IF s \in {v, d} THEN None ELSE shared[s]
        /\ \A s \in Surfaces : detached'[s] = IF s = v THEN FALSE ELSE detached[s]
    BY <2>1, <2>2 DEF TypeOK
  <2>5. /\ Reusable(l) \in [Surfaces -> BOOLEAN]
        /\ \A s \in Surfaces : Reusable(l)[s] <=> destroyed[s] \/ (s = v /\ detached[s])
    BY <1>2 DEF Reusable, TypeOK
  <2>6. LinkInv'
    <3>1. \A k \in Links : link'[k].refcnt = 2 <=> \E u \in Threads : hold'[u] = k
      BY <1>2, <2>1, <2>3 DEF LinkInv
    <3>2. \A k \in Links : link'[k].refcnt # 0 =>
            /\ link'[k].video \in Videos /\ shared'[link'[k].video] = k
            /\ link'[k].disp \in Outputs /\ shared'[link'[k].disp] = k
      BY <1>2, <2>1, <2>3, <2>4 DEF LinkInv, Surfaces
    <3>3. \A s \in Surfaces : shared'[s] # None =>
            /\ link'[shared'[s]].refcnt # 0
            /\ s \in {link'[shared'[s]].video, link'[shared'[s]].disp}
      BY <1>2, <2>1, <2>3, <2>4 DEF LinkInv, TypeOK
    <3>4. \A k \in Links : link'[k].refcnt \in {0, 1, 2}
                           /\ (link'[k].refcnt = 0 => link'[k] = NoLink)
      BY <2>3 DEF LinkInv
    <3> QED
      BY <3>1, <3>2, <3>3, <3>4, NoLinkStays DEF LinkInv
  <2>7. ASSUME NEW s \in Surfaces
        PROVE  LinkDrop(l, n, s) = Bit(shared[s] # None) - Bit(shared'[s] # None)
    <3>1. CASE s \in {v, d}
      BY <1>2, <2>1, <2>4, <3>1 DEF LinkDrop, LastOf, Bit
    <3>2. CASE s \notin {v, d}
      <4>1. LinkDrop(l, n, s) = 0
        BY <3>2 DEF LinkDrop, Bit
      <4>2. shared'[s] = shared[s]
        BY <2>4, <3>2
      <4> QED
        BY <4>1, <4>2 DEF Bit
    <3> QED
      BY <3>1, <3>2
  <2>8. ASSUME NEW s \in Surfaces
        PROVE  /\ shared'[s] = IF shared[s] = l THEN None ELSE shared[s]
               /\ detached'[s] => detached[s] /\ shared'[s] = shared[s] /\ ~Reusable(l)[s]
               /\ (~Reusable(l)[s] /\ ~detached'[s]) <=> (~destroyed[s] /\ ~detached[s])
    <3>1. d # s \/ ~detached[s]
      BY <2>1 DEF OwnedInv
    <3> QED
      BY <2>1, <2>4, <2>5, <3>1 DEF HandleInv
  <2> QED
    BY <2>3, <2>4, <2>5, <2>6, <2>7, <2>8
<1> QED
  BY <1>1, <1>2

\* shared_surface_kill_disp at the start of a mixer call.
LEMMA MixLockStep ==
  ASSUME IInv, NEW t \in Threads, MixLock(t)
  PROVE  IInv'
<1>0. /\ TypeOK /\ LinkInv /\ LockInv /\ CallInv /\ OwnerInv
      /\ HandleInv /\ OwnedInv /\ RefInv
  BY DEF IInv
<1> USE <1>0, SurfacesAssumption
<1> DEFINE l == shared[out[t]]
           rc == [s \in Surfaces |-> refcnt[s] - LinkDrop(l, 1, s)]
<1>1. /\ Settle(rc, table, id) /\ cache' = cache /\ open' = open
      /\ BreakLink(l) /\ link' = LinkAfter(l, 1) /\ destroyed' = Reusable(l)
  BY DEF MixLock, Goto
<1>2. /\ l \in Links \cup {None}
      /\ l # None => link[l].refcnt = 1 /\ \A u \in Threads : hold[u] # l
  BY UnlockedLink DEF MixLock, CallInv, TypeOK, Surfaces
<1>3. \A u \in Threads : hold'[u] = IF hold[u] = l THEN None ELSE hold[u]
  BY <1>2 DEF MixLock
<1>4. /\ LinkInv'
      /\ link' \in [Links -> [refcnt : Int, video : Videos \cup {None},
                              disp : Outputs \cup {None}]]
      /\ shared' \in [Surfaces -> Links \cup {None}]
      /\ detached' \in [Surfaces -> BOOLEAN]
      /\ Reusable(l) \in [Surfaces -> BOOLEAN]
      /\ \A s \in Surfaces :
           /\ shared'[s] = IF shared[s] = l THEN None ELSE shared[s]
           /\ LinkDrop(l, 1, s) = Bit(shared[s] # None) - Bit(shared'[s] # None)
           /\ detached'[s] => detached[s] /\ shared'[s] = shared[s] /\ ~Reusable(l)[s]
           /\ (~Reusable(l)[s] /\ ~detached'[s]) <=> (~destroyed[s] /\ ~detached[s])
  BY <1>1, <1>2, <1>3, Unlink
<1>5. /\ \A s \in Surfaces : HandleHolds(s)' <=> HandleHolds(s)
      /\ \A s \in Surfaces : detached'[s] => detached[s] /\ shared'[s] = shared[s] /\ ~destroyed'[s]
      /\ destroyed' \in [Surfaces -> BOOLEAN]
  BY <1>1, <1>4 DEF HandleHolds, TypeOK, OwnerInv, Exclusive
<1>6. rc \in [Surfaces -> Int]
  BY <1>4, BitType DEF TypeOK
<1>7. /\ refcnt' \in [Surfaces -> Int] /\ refcnt' = rc
      /\ table' \in [Slots -> Surfaces \cup {None}]
      /\ id' \in [Surfaces -> Slots \cup {NoSlot}]
  BY <1>1, <1>6, SettleType DEF TypeOK, Settle
<1>8. TypeOK'
  BY <1>1, <1>4, <1>5, <1>7 DEF TypeOK, MixLock, Goto, Calls, Steps
<1>9. OthersKeep(t)
  BY DEF TypeOK, MixLock, Goto, OthersKeep
<1>10. LockInv'
  BY <1>1, <1>2, <1>4 DEF TypeOK, LockInv, CallInv, MixLock, Goto, Surfaces
<1>11. CallInv'
  BY DEF TypeOK, CallInv, MixLock, Goto
<1>12. ASSUME NEW s \in Surfaces
      PROVE  refcnt'[s] = Bit(HandleHolds(s)') + Bit(s \in cache') + Bit(shared'[s] # None)
                          + Cardinality(CallsOn(s))'
  <2>1. Cardinality(CallsOn(s))' = Cardinality(CallsOn(s)) - Bit(OnCall(t, s)) + Bit(OnCall(t, s)')
    BY <1>9, CallsChange
  <2>2. refcnt[s] = Bit(HandleHolds(s)) + Bit(s \in cache) + Bit(shared[s] # None)
                          + Cardinality(CallsOn(s))
    BY DEF RefInv
  <2>3. refcnt'[s] = refcnt[s] - (Bit(shared[s] # None) - Bit(shared'[s] # None))
    BY <1>4, <1>7
  <2>4. Bit(s \in cache') = Bit(s \in cache)
    BY <1>1
  <2>5. Bit(HandleHolds(s)') - Bit(HandleHolds(s)) + Bit(OnCall(t, s)') - Bit(OnCall(t, s)) = 0
    BY <1>5 DEF CallInv, TypeOK, MixLock, Goto, OnCall, Bit, OwnerInv, Exclusive
  <2> QED
    BY <2>1, <2>2, <2>3, <2>4, <2>5, CallsFinite, BitType
<1>13. RefInv'
  BY <1>12 DEF RefInv
<1>14. /\ \A s \in Surfaces : HandleHolds(s)' =>
            /\ id'[s] = id[s]
            /\ \A h \in Slots : table[h] = s => table'[h] = s
       /\ \A h \in Slots : table'[h] \in {table[h], None}
       /\ \A s \in Surfaces : id'[s] \in {id[s], NoSlot}
  BY <1>1, <1>9, <1>13, SettleKeeps
<1>15. HandleInv'
  BY <1>1, <1>5, <1>14 DEF TypeOK, HandleInv, OwnerInv
<1>16. OwnerInv'
  BY <1>1, <1>5, <1>14
  DEF TypeOK, OwnerInv, CallInv, MixLock, Goto, Created, Surfaces, Exclusive, Writing,
      Mixing, Unowned
<1>17. OwnedInv'
  <2>1. \A d \in Outputs : ~detached'[d] /\ (shared'[d] # None => ~destroyed'[d])
    BY <1>1, <1>4, <1>5 DEF OwnedInv, HandleHolds, Surfaces, TypeOK
  <2> QED
    BY <1>1, <1>5, <1>14, <2>1 DEF TypeOK, OwnedInv, MixLock, Goto, Created, Unowned
<1> QED
  BY <1>4, <1>8, <1>10, <1>11, <1>13, <1>15, <1>16, <1>17 DEF IInv

\* shared_surface_transfer_video breaks the link and drops it twice.
LEMMA DrawDoneStep ==
  ASSUME IInv, NEW t \in Threads, DrawDone(t)
  PROVE  IInv'
<1>0. /\ TypeOK /\ LinkInv /\ LockInv /\ CallInv /\ OwnerInv
      /\ HandleInv /\ OwnedInv /\ RefInv
  BY DEF IInv
<1> USE <1>0, SurfacesAssumption
<1> DEFINE l == hold[t]
           rc == [s \in Surfaces |-> refcnt[s] - LinkDrop(l, 2, s) - Bit(s = out[t])]
<1>1. /\ Settle(rc, table, id) /\ cache' = cache /\ open' = open
      /\ BreakLink(l) /\ link' = LinkAfter(l, 2) /\ destroyed' = Reusable(l)
  BY DEF DrawDone, Return
<1>2. /\ l \in Links \cup {None}
      /\ l # None => link[l].refcnt = 2 /\ \A u \in Threads \ {t} : hold[u] # l
  <2>1. ASSUME NEW u \in Threads \ {t}, hold[u] = l, l # None
        PROVE  FALSE
    <3>1. /\ out[u] \in Outputs /\ lock[out[u]] = u /\ shared[out[u]] = l
          /\ out[t] \in Outputs /\ lock[out[t]] = t /\ shared[out[t]] = l
      BY <2>1 DEF LockInv, TypeOK
    <3>2. out[t] = out[u]
      BY <2>1, <3>1, LinkEnds DEF Surfaces
    <3> QED
      BY <3>1, <3>2
  <2> QED
    BY <2>1 DEF TypeOK, LinkInv
<1>3. \A u \in Threads : hold'[u] = IF hold[u] = l THEN None ELSE hold[u]
  BY <1>2 DEF DrawDone, Return, TypeOK
<1>4. /\ LinkInv'
      /\ link' \in [Links -> [refcnt : Int, video : Videos \cup {None},
                              disp : Outputs \cup {None}]]
      /\ shared' \in [Surfaces -> Links \cup {None}]
      /\ detached' \in [Surfaces -> BOOLEAN]
      /\ Reusable(l) \in [Surfaces -> BOOLEAN]
      /\ \A s \in Surfaces :
           /\ shared'[s] = IF shared[s] = l THEN None ELSE shared[s]
           /\ LinkDrop(l, 2, s) = Bit(shared[s] # None) - Bit(shared'[s] # None)
           /\ detached'[s] => detached[s] /\ shared'[s] = shared[s] /\ ~Reusable(l)[s]
           /\ (~Reusable(l)[s] /\ ~detached'[s]) <=> (~destroyed[s] /\ ~detached[s])
  BY <1>1, <1>2, <1>3, Unlink
<1>5. /\ \A s \in Surfaces : HandleHolds(s)' <=> HandleHolds(s)
      /\ \A s \in Surfaces : detached'[s] => detached[s] /\ shared'[s] = shared[s] /\ ~destroyed'[s]
      /\ destroyed' \in [Surfaces -> BOOLEAN]
  BY <1>1, <1>4 DEF HandleHolds, TypeOK, OwnerInv, Exclusive
<1>6. rc \in [Surfaces -> Int]
  BY <1>4, BitType DEF TypeOK
<1>7. /\ refcnt' \in [Surfaces -> Int] /\ refcnt' = rc
      /\ table' \in [Slots -> Surfaces \cup {None}]
      /\ id' \in [Surfaces -> Slots \cup {NoSlot}]
  BY <1>1, <1>6, SettleType DEF TypeOK, Settle
<1>8. TypeOK'
  BY <1>1, <1>4, <1>5, <1>7 DEF TypeOK, DrawDone, Return, Calls, Steps
<1>9. OthersKeep(t)
  BY DEF TypeOK, DrawDone, Return, OthersKeep
<1>10. LockInv'
  BY <1>1, <1>2, <1>4 DEF TypeOK, LockInv, CallInv, DrawDone, Return, Surfaces
<1>11. CallInv'
  BY DEF TypeOK, CallInv, DrawDone, Return
<1>12. ASSUME NEW s \in Surfaces
      PROVE  refcnt'[s] = Bit(HandleHolds(s)') + Bit(s \in cache') + Bit(shared'[s] # None)
                          + Cardinality(CallsOn(s))'
  <2>1. Cardinality(CallsOn(s))' = Cardinality(CallsOn(s)) - Bit(OnCall(t, s)) + Bit(OnCall(t, s)')
    BY <1>9, CallsChange
  <2>2. refcnt[s] = Bit(HandleHolds(s)) + Bit(s \in cache) + Bit(shared[s] # None)
                          + Cardinality(CallsOn(s))
    BY DEF RefInv
  <2>3. refcnt'[s] = refcnt[s] - (Bit(shared[s] # None) - Bit(shared'[s] # None)) - Bit(s = out[t])
    BY <1>4, <1>7
  <2>4. Bit(s \in cache') = Bit(s \in cache)
    BY <1>1
  <2>5. Bit(HandleHolds(s)') - Bit(HandleHolds(s)) + Bit(OnCall(t, s)') - Bit(OnCall(t, s)) = 0 - Bit(s = out[t])
    BY <1>5 DEF CallInv, TypeOK, DrawDone, Return, OnCall, Bit, OwnerInv, Exclusive
  <2> QED
    BY <2>1, <2>2, <2>3, <2>4, <2>5, CallsFinite, BitType
<1>13. RefInv'
  BY <1>12 DEF RefInv
<1>14. /\ \A s \in Surfaces : HandleHolds(s)' =>
            /\ id'[s] = id[s]
            /\ \A h \in Slots : table[h] = s => table'[h] = s
       /\ \A h \in Slots : table'[h] \in {table[h], None}
       /\ \A s \in Surfaces : id'[s] \in {id[s], NoSlot}
  BY <1>1, <1>9, <1>13, SettleKeeps
<1>15. HandleInv'
  BY <1>1, <1>5, <1>14 DEF TypeOK, HandleInv, OwnerInv
<1>16. OwnerInv'
  BY <1>1, <1>5, <1>14
  DEF TypeOK, OwnerInv, CallInv, DrawDone, Return, Created, Surfaces, Exclusive,
      Writing, Mixing, Unowned
<1>17. OwnedInv'
  <2>1. \A d \in Outputs : ~detached'[d] /\ (shared'[d] # None => ~destroyed'[d])
    BY <1>1, <1>4, <1>5 DEF OwnedInv, HandleHolds, Surfaces, TypeOK
  <2> QED
    BY <1>1, <1>5, <1>14, <2>1 DEF TypeOK, OwnedInv, DrawDone, Return, Created, Unowned
<1> QED
  BY <1>4, <1>8, <1>10, <1>11, <1>13, <1>15, <1>16, <1>17 DEF IInv

\* destroy_surface up to its final unref.
LEMMA MarkDestroyedStep ==
  ASSUME IInv, NEW t \in Threads, MarkDestroyed(t)
  PROVE  IInv'
<1>0. /\ TypeOK /\ LinkInv /\ LockInv /\ CallInv /\ OwnerInv
      /\ HandleInv /\ OwnedInv /\ RefInv
  BY DEF IInv
<1> USE <1>0, SurfacesAssumption
<1> DEFINE l == IF Created(t) \in Outputs THEN shared[Created(t)] ELSE None
           rc == [s \in Surfaces |-> refcnt[s] - LinkDrop(l, 1, s)]
<1>1. /\ Settle(rc, table, id) /\ cache' = cache /\ open' = open
      /\ BreakLink(l) /\ link' = LinkAfter(l, 1) /\ destroyed' = [Reusable(l) EXCEPT ![Created(t)] = TRUE]
  BY DEF MarkDestroyed, Goto
<1>c. /\ Created(t) \in Surfaces /\ HandleHolds(Created(t)) /\ ~detached[Created(t)]
      /\ \A s \in Surfaces : s \in {vid[t], out[t]} <=> s = Created(t)
      /\ pc[t] = "destroying"
      /\ \A h \in open \cap Slots : table[h] # Created(t)
      /\ \A u \in Threads \ {t} : Created(t) \in {vid[u], out[u]} =>
            pc[u] = "unref" \/ call[u] = "display"
  BY CreatedType DEF MarkDestroyed, OwnerInv, Exclusive, Unowned, HandleHolds
<1>2. /\ l \in Links \cup {None}
      /\ l # None => link[l].refcnt = 1 /\ \A u \in Threads : hold[u] # l
  BY <1>c, UnlockedLink DEF MarkDestroyed, TypeOK, Surfaces
<1>3. \A u \in Threads : hold'[u] = IF hold[u] = l THEN None ELSE hold[u]
  BY <1>2 DEF MarkDestroyed
<1>4. /\ LinkInv'
      /\ link' \in [Links -> [refcnt : Int, video : Videos \cup {None},
                              disp : Outputs \cup {None}]]
      /\ shared' \in [Surfaces -> Links \cup {None}]
      /\ detached' \in [Surfaces -> BOOLEAN]
      /\ Reusable(l) \in [Surfaces -> BOOLEAN]
      /\ \A s \in Surfaces :
           /\ shared'[s] = IF shared[s] = l THEN None ELSE shared[s]
           /\ LinkDrop(l, 1, s) = Bit(shared[s] # None) - Bit(shared'[s] # None)
           /\ detached'[s] => detached[s] /\ shared'[s] = shared[s] /\ ~Reusable(l)[s]
           /\ (~Reusable(l)[s] /\ ~detached'[s]) <=> (~destroyed[s] /\ ~detached[s])
  BY <1>1, <1>2, <1>3, Unlink
<1>5. /\ \A s \in Surfaces : HandleHolds(s)' <=> HandleHolds(s) /\ s # Created(t)
      /\ \A s \in Surfaces : detached'[s] => detached[s] /\ shared'[s] = shared[s] /\ ~destroyed'[s]
      /\ destroyed' \in [Surfaces -> BOOLEAN]
  BY <1>1, <1>4, <1>c DEF HandleHolds, TypeOK, OwnerInv, Exclusive
<1>6. rc \in [Surfaces -> Int]
  BY <1>4, BitType DEF TypeOK
<1>7. /\ refcnt' \in [Surfaces -> Int] /\ refcnt' = rc
      /\ table' \in [Slots -> Surfaces \cup {None}]
      /\ id' \in [Surfaces -> Slots \cup {NoSlot}]
  BY <1>1, <1>6, SettleType DEF TypeOK, Settle
<1>8. TypeOK'
  BY <1>1, <1>4, <1>5, <1>7 DEF TypeOK, MarkDestroyed, Goto, Calls, Steps
<1>9. OthersKeep(t)
  BY DEF TypeOK, MarkDestroyed, Goto, OthersKeep
<1>10. LockInv'
  BY <1>1, <1>2, <1>4 DEF TypeOK, LockInv, CallInv, MarkDestroyed, Goto, Surfaces
<1>11. CallInv'
  BY DEF TypeOK, CallInv, MarkDestroyed, Goto
<1>12. ASSUME NEW s \in Surfaces
      PROVE  refcnt'[s] = Bit(HandleHolds(s)') + Bit(s \in cache') + Bit(shared'[s] # None)
                          + Cardinality(CallsOn(s))'
  <2>1. Cardinality(CallsOn(s))' = Cardinality(CallsOn(s)) - Bit(OnCall(t, s)) + Bit(OnCall(t, s)')
    BY <1>9, CallsChange
  <2>2. refcnt[s] = Bit(HandleHolds(s)) + Bit(s \in cache) + Bit(shared[s] # None)
                          + Cardinality(CallsOn(s))
    BY DEF RefInv
  <2>3. refcnt'[s] = refcnt[s] - (Bit(shared[s] # None) - Bit(shared'[s] # None))
    BY <1>4, <1>7
  <2>4. Bit(s \in cache') = Bit(s \in cache)
    BY <1>1
  <2>5. Bit(HandleHolds(s)') - Bit(HandleHolds(s)) + Bit(OnCall(t, s)') - Bit(OnCall(t, s)) = 0
    BY <1>5, <1>c
    DEF CallInv, TypeOK, MarkDestroyed, Goto, OnCall, Bit, OwnerInv, Exclusive
  <2> QED
    BY <2>1, <2>2, <2>3, <2>4, <2>5, CallsFinite, BitType
<1>13. RefInv'
  BY <1>12 DEF RefInv
<1>14. /\ \A s \in Surfaces : HandleHolds(s)' =>
            /\ id'[s] = id[s]
            /\ \A h \in Slots : table[h] = s => table'[h] = s
       /\ \A h \in Slots : table'[h] \in {table[h], None}
       /\ \A s \in Surfaces : id'[s] \in {id[s], NoSlot}
  BY <1>1, <1>9, <1>13, SettleKeeps
<1>15. HandleInv'
  BY <1>1, <1>5, <1>14, <1>c DEF TypeOK, HandleInv, OwnerInv
<1>16. OwnerInv'
  BY SMTT(60), <1>1, <1>5, <1>14, <1>c
  DEF TypeOK, OwnerInv, CallInv, MarkDestroyed, Goto, Created, Surfaces, Exclusive,
      Writing, Mixing, Unowned
<1>17. OwnedInv'
  <2>1. \A d \in Outputs : ~detached'[d] /\ (shared'[d] # None => ~destroyed'[d])
    BY <1>1, <1>4, <1>5, <1>c DEF OwnedInv, HandleHolds, Surfaces, TypeOK
  <2> QED
    BY SMTT(60), <1>1, <1>5, <1>14, <1>c, <2>1
    DEF TypeOK, OwnedInv, MarkDestroyed, Goto, Created, Unowned
<1> QED
  BY <1>4, <1>8, <1>10, <1>11, <1>13, <1>15, <1>16, <1>17 DEF IInv

\* create_shared_surface links the two surfaces of a mixer call.
LEMMA MixShareStep ==
  ASSUME IInv, NEW t \in Threads, MixShare(t)
  PROVE  IInv'
<1>0. /\ TypeOK /\ LinkInv /\ LockInv /\ CallInv /\ OwnerInv
      /\ HandleInv /\ OwnedInv /\ RefInv
  BY DEF IInv
<1> USE <1>0, SurfacesAssumption
<1> DEFINE v == vid[t]
           d == out[t]
           rc == [s \in Surfaces |-> [refcnt EXCEPT ![v] = @ + 1, ![d] = @ + 1][s] - Bit(s \in {v, d})]
<1>1. /\ Settle(rc, table, id) /\ cache' = cache /\ v \in Videos /\ d \in Outputs
      /\ v \in Surfaces /\ d \in Surfaces /\ v # d /\ shared[v] = None /\ shared[d] = None
      /\ HandleHolds(v) /\ HandleHolds(d)
      /\ \A s : OnCall(t, s) <=> s \in {v, d}
  <2>1. /\ v \in Videos /\ d \in Outputs /\ shared[v] = None /\ shared[d] = None
        /\ v \in Surfaces /\ d \in Surfaces /\ v # d /\ pc[t] = "composing"
    BY DEF MixShare, CallInv, TypeOK, Surfaces
  <2> QED
    BY <2>1 DEF MixShare, MixReturn, OwnerInv, Mixing, OnCall
<1>2. rc \in [Surfaces -> Int]
  BY <1>1, BitType DEF TypeOK, CallInv, MixShare, MixReturn, Return, Surfaces
<1>3. /\ refcnt' \in [Surfaces -> Int] /\ refcnt' = rc
      /\ table' \in [Slots -> Surfaces \cup {None}]
      /\ id' \in [Surfaces -> Slots \cup {NoSlot}]
  BY <1>1, <1>2, SettleType DEF TypeOK, Settle
<1>4. UNCHANGED <<destroyed, detached, open>>
  BY DEF MixShare, MixReturn, Return
<1>a. PICK l \in Links :
        /\ link[l].refcnt = 0
        /\ link' = [link EXCEPT ![l] = [refcnt |-> 1, video |-> v, disp |-> d]]
        /\ shared' = [shared EXCEPT ![v] = l, ![d] = l]
  BY DEF MixShare
<1>b. /\ link' \in [Links -> [refcnt : Int, video : Videos \cup {None},
                              disp : Outputs \cup {None}]]
      /\ link'[l].refcnt = 1 /\ link'[l].video = v /\ link'[l].disp = d
      /\ \A k \in Links : k # l => link'[k] = link[k]
      /\ shared' \in [Surfaces -> Links \cup {None}]
      /\ \A s \in Surfaces : shared'[s] = IF s \in {v, d} THEN l ELSE shared[s]
      /\ \A s \in Surfaces : shared[s] # l
      /\ \A u \in Threads : hold[u] # l /\ hold'[u] = hold[u]
  <2>1. \A s \in Surfaces : shared[s] # l
    BY <1>a DEF LinkInv
  <2>2. \A u \in Threads : hold[u] # l /\ hold'[u] = hold[u]
    BY <1>a, <2>1 DEF LockInv, MixShare, MixReturn, Return, TypeOK, CallInv, Surfaces
  <2>3. [refcnt |-> 1, video |-> v, disp |-> d]
          \in [refcnt : Int, video : Videos \cup {None}, disp : Outputs \cup {None}]
    BY <1>1
  <2> QED
    BY <1>1, <1>a, <2>1, <2>2, <2>3 DEF TypeOK
<1>5. TypeOK'
  BY <1>1, <1>3, <1>4, <1>b DEF TypeOK, MixShare, MixReturn, Return, Calls, Steps
<1>6. OthersKeep(t)
  BY <1>1 DEF TypeOK, MixShare, MixReturn, Return, OthersKeep
<1>c. LinkInv'
  <2>1. /\ \A k \in Links : link'[k].refcnt \in {0, 1, 2}
        /\ \A k \in Links : link'[k].refcnt = 0 => link'[k] = NoLink
        /\ \A k \in Links : link'[k].refcnt = 2 <=> \E u \in Threads : hold'[u] = k
    BY <1>b DEF LinkInv
  <2>2. \A k \in Links : link'[k].refcnt # 0 =>
          /\ link'[k].video \in Videos /\ shared'[link'[k].video] = k
          /\ link'[k].disp \in Outputs /\ shared'[link'[k].disp] = k
    BY <1>1, <1>b DEF LinkInv, Surfaces
  <2>3. \A s \in Surfaces : shared'[s] # None =>
          /\ link'[shared'[s]].refcnt # 0
          /\ s \in {link'[shared'[s]].video, link'[shared'[s]].disp}
    BY <1>1, <1>b DEF LinkInv, TypeOK
  <2> QED
    BY <2>1, <2>2, <2>3, NoLinkStays DEF LinkInv
<1>7. LockInv'
  BY <1>1, <1>b DEF TypeOK, LockInv, CallInv, MixShare, MixReturn, Return, Surfaces
<1>8. CallInv'
  BY DEF TypeOK, CallInv, MixShare, MixReturn, Return
<1>9. ASSUME NEW s \in Surfaces
      PROVE  refcnt'[s] = Bit(HandleHolds(s)') + Bit(s \in cache') + Bit(shared'[s] # None)
                          + Cardinality(CallsOn(s))'
  <2>1. Cardinality(CallsOn(s))' = Cardinality(CallsOn(s)) - Bit(OnCall(t, s)) + Bit(OnCall(t, s)')
    BY <1>6, CallsChange
  <2>2. OnCall(t, s) <=> s \in {v, d}
    BY <1>1
  <2>3. ~OnCall(t, s)'
    BY <1>1 DEF MixShare, MixReturn, Return, OnCall, TypeOK
  <2>4. refcnt[s] = Bit(HandleHolds(s)) + Bit(s \in cache) + Bit(shared[s] # None)
                     + Cardinality(CallsOn(s))
    BY DEF RefInv
  <2>5. Bit(HandleHolds(s)') = Bit(HandleHolds(s)) /\ Bit(s \in cache') = Bit(s \in cache)
    BY <1>1, <1>4 DEF HandleHolds
  <2>6. Bit(shared'[s] # None) = Bit(shared[s] # None) + Bit(OnCall(t, s))
    BY <1>1, <1>b, <2>2 DEF Bit
  <2>7. Bit(OnCall(t, s)') = 0 /\ refcnt'[s] = refcnt[s]
    BY <1>1, <1>3, <2>3 DEF Bit, TypeOK
  <2> QED
    BY <2>1, <2>4, <2>5, <2>6, <2>7, CallsFinite, BitType
<1>10. RefInv'
  BY <1>9 DEF RefInv
<1>11. /\ \A s \in Surfaces : HandleHolds(s) =>
            /\ id'[s] = id[s]
            /\ \A h \in Slots : table[h] = s => table'[h] = s
       /\ \A h \in Slots : table'[h] \in {table[h], None}
       /\ \A s \in Surfaces : id'[s] \in {id[s], NoSlot}
  BY <1>1, <1>4, <1>6, <1>10, SettleKeeps DEF HandleHolds
<1>12. HandleInv'
  BY <1>1, <1>4, <1>11, <1>b
  DEF TypeOK, HandleInv, MixShare, MixReturn, Return, HandleHolds
<1>13. OwnerInv'
  BY <1>1, <1>4, <1>11
  DEF TypeOK, OwnerInv, CallInv, MixShare, MixReturn, Return, HandleHolds, Created,
      Surfaces, Exclusive, Writing, Mixing, Unowned
<1>14. OwnedInv'
  <2>1. \A s \in Outputs : ~detached'[s] /\ (shared'[s] # None => ~destroyed'[s])
    BY <1>1, <1>4, <1>b DEF OwnedInv, HandleHolds, Surfaces
  <2>2. \A s \in Surfaces : HandleHolds(s)' <=> HandleHolds(s)
    BY <1>4 DEF HandleHolds
  <2>3. pc[t] \notin Unowned /\ \A u \in Threads \ {t} : Created(u)' = Created(u) /\ pc'[u] = pc[u]
    BY <1>6 DEF MixShare, OthersKeep, Created, Unowned
  <2>4. ASSUME NEW s \in Surfaces, HandleHolds(s)'
        PROVE  \/ id'[s] \in open' \cap Slots /\ table'[id'[s]] = s
               \/ \E u \in Threads : pc'[u] \in Unowned /\ Created(u)' = s
    <3>1. CASE \E u \in Threads : pc[u] \in Unowned /\ Created(u) = s
      BY <2>3, <3>1
    <3>2. CASE id[s] \in open \cap Slots /\ table[id[s]] = s
      BY <1>4, <1>11, <2>2, <2>4, <3>2
    <3> QED
      BY <2>2, <2>4, <3>1, <3>2 DEF OwnedInv
  <2> QED
    BY <2>1, <2>4 DEF OwnedInv
<1> QED
  BY <1>c, <1>5, <1>7, <1>8, <1>10, <1>12, <1>13, <1>14 DEF IInv

\* A surface that alloc_surface returns, new or recycled, belongs to nobody but
\* to destroy calls that are about to drop their pointer to it.
LEMMA VideoChosen ==
  ASSUME IInv, NEW n \in Videos, NEW dropped \in SUBSET cache, AllocVideo(n, dropped)
  PROVE  /\ destroyed[n] /\ ~detached[n] /\ ~HandleHolds(n)
         /\ \A u \in Threads : n \in {vid[u], out[u]} => pc[u] = "unref"
         /\ \A h \in open \cap Slots : table[h] # n
         /\ n \in cache => dropped = {} /\ refcnt[n] > 0
         /\ n \notin cache => refcnt[n] = 0 /\ shared[n] = None
                              /\ \A u \in Threads : n \notin {vid[u], out[u]}
<1> USE SurfacesAssumption
<1>1. n \in Surfaces
  BY DEF Surfaces
<1>2. CASE n \in CacheHits /\ dropped = {}
  <2>1. n \in cache /\ destroyed[n] /\ ~detached[n] /\ ~HandleHolds(n) /\ refcnt[n] > 0
    BY <1>1, <1>2, HolderKeeps DEF CacheHits, HandleHolds, IInv, HandleInv
  <2>2. ASSUME NEW u \in Threads, n \in {vid[u], out[u]}
        PROVE  pc[u] = "unref"
    <3>1. n = vid[u] /\ vid[u] # None
      BY <1>1, <2>2 DEF IInv, TypeOK, Surfaces
    <3>2. Created(u) = n
      BY <3>1 DEF Created
    <3>3. pc[u] \notin Exclusive
      BY <2>1, <3>2 DEF IInv, OwnerInv
    <3>4. pc[u] \notin Mixing
      BY <2>1, <3>1 DEF IInv, OwnerInv
    <3>5. pc[u] \notin {"idle", "draw_fetched", "drawing"}
      BY <3>1 DEF IInv, CallInv
    <3> QED
      BY <3>3, <3>4, <3>5 DEF IInv, TypeOK, Steps, Exclusive, Mixing
  <2> QED
    BY <1>2, <2>1, <2>2 DEF IInv, HandleInv
<1>3. CASE n \in {s \in Videos : refcnt[s] = 0} /\ CacheHits = {}
  BY <1>1, <1>3, FreeSurface
<1> QED
  BY <1>2, <1>3 DEF AllocVideo

\* alloc_surface for a video surface, new or recycled.
LEMMA CreateVideoStep ==
  ASSUME IInv, NEW t \in Threads, CreateVideo(t)
  PROVE  IInv'
<1>0. /\ TypeOK /\ LinkInv /\ LockInv /\ CallInv /\ OwnerInv
      /\ HandleInv /\ OwnedInv /\ RefInv
  BY DEF IInv
<1> USE <1>0, SurfacesAssumption
<1>a. PICK n \in Videos, dropped \in SUBSET cache :
        /\ AllocVideo(n, dropped)
        /\ cache' = cache \ (dropped \cup {n})
        /\ Settle([s \in Surfaces |-> IF s = n /\ refcnt[n] = 0 THEN 1
                                      ELSE refcnt[s] - Bit(s \in dropped)],
                  table, id)
        /\ destroyed' = [destroyed EXCEPT ![n] = FALSE]
        /\ vid' = [vid EXCEPT ![t] = n]
  BY DEF CreateVideo
<1>b. /\ destroyed[n] /\ ~detached[n] /\ ~HandleHolds(n)
      /\ \A u \in Threads : n \in {vid[u], out[u]} => pc[u] = "unref"
      /\ \A h \in open \cap Slots : table[h] # n
      /\ n \in cache => dropped = {} /\ refcnt[n] > 0
      /\ n \notin cache => refcnt[n] = 0 /\ shared[n] = None
                           /\ \A u \in Threads : n \notin {vid[u], out[u]}
  BY <1>a, VideoChosen
<1> DEFINE rc == [s \in Surfaces |-> IF s = n /\ refcnt[n] = 0 THEN 1
                               ELSE refcnt[s] - Bit(s \in dropped)]
<1>1. /\ Settle(rc, table, id) /\ cache' = cache \ (dropped \cup {n})
      /\ dropped \subseteq cache /\ n \in Surfaces
      /\ destroyed' = [destroyed EXCEPT ![n] = FALSE]
      /\ vid' = [vid EXCEPT ![t] = n] /\ vid[t] = None /\ out[t] = None
  BY <1>a DEF CreateVideo, Idle, CallInv, Surfaces
<1>2. rc \in [Surfaces -> Int]
  BY <1>1, <1>b, BitType DEF TypeOK, CallInv, CreateVideo, Idle, Enter, Surfaces
<1>3. /\ refcnt' \in [Surfaces -> Int] /\ refcnt' = rc
      /\ table' \in [Slots -> Surfaces \cup {None}]
      /\ id' \in [Surfaces -> Slots \cup {NoSlot}]
  BY <1>1, <1>2, SettleType DEF TypeOK, Settle
<1>4. UNCHANGED <<detached, shared, link>>
  BY DEF CreateVideo, Idle, Enter
<1>5. TypeOK'
  BY ZenonT(60), <1>1, <1>b, <1>3, <1>4 DEF TypeOK, CreateVideo, Idle, Enter, Calls, Steps
<1>6. OthersKeep(t)
  BY <1>1, <1>b DEF TypeOK, CreateVideo, Idle, Enter, OthersKeep
<1>7. LinkInv' /\ LockInv'
  BY <1>4 DEF TypeOK, LinkInv, LockInv, CallInv, CreateVideo, Idle, Enter, NoLink
<1>8. CallInv'
  BY <1>1 DEF TypeOK, CallInv, Surfaces, CreateVideo, Idle, Enter
<1>9. ASSUME NEW s \in Surfaces
      PROVE  refcnt'[s] = Bit(HandleHolds(s)') + Bit(s \in cache') + Bit(shared'[s] # None)
                          + Cardinality(CallsOn(s))'
  <2>1. Cardinality(CallsOn(s))' = Cardinality(CallsOn(s)) - Bit(OnCall(t, s)) + Bit(OnCall(t, s)')
    BY <1>6, CallsChange
  <2>2. /\ Cardinality(CallsOn(s))' = Cardinality(CallsOn(s))
        /\ Cardinality(CallsOn(s)) \in Nat
    BY <1>1, <2>1, CallsFinite DEF CreateVideo, Enter, OnCall, TypeOK, Bit
  <2>3. refcnt[s] = Bit(HandleHolds(s)) + Bit(s \in cache) + Bit(shared[s] # None)
                     + Cardinality(CallsOn(s))
    BY DEF RefInv
  <2>4. CASE s # n
    <3>1. Bit(HandleHolds(s)') = Bit(HandleHolds(s)) /\ shared'[s] = shared[s]
      BY <1>1, <1>4, <2>4 DEF HandleHolds
    <3>2. Bit(s \in cache') = Bit(s \in cache) - Bit(s \in dropped)
      BY <1>1, <2>4 DEF Bit
    <3>3. refcnt'[s] = refcnt[s] - Bit(s \in dropped)
      BY <1>3, <2>4
    <3> QED
      BY <2>2, <2>3, <3>1, <3>2, <3>3, BitType
  <2>5. CASE s = n
    <3>1. Bit(HandleHolds(s)') = 1 /\ Bit(HandleHolds(s)) = 0 /\ Bit(s \in cache') = 0
      BY <1>1, <1>b, <1>4, <2>5 DEF HandleHolds, TypeOK, Bit
    <3>2. CASE n \in cache
      <4>1. refcnt'[s] = refcnt[s] - 0 /\ Bit(s \in cache) = 1
        BY <1>b, <1>3, <2>5, <3>2 DEF Bit
      <4> QED
        BY <1>4, <2>2, <2>3, <3>1, <4>1, BitType
    <3>3. CASE n \notin cache
      <4>1. refcnt'[s] = 1 /\ refcnt[s] = 0 /\ Bit(s \in cache) = 0
        BY <1>b, <1>3, <2>5, <3>3 DEF Bit
      <4> QED
        BY <1>4, <2>2, <2>3, <3>1, <4>1, BitType
    <3> QED
      BY <3>2, <3>3
  <2> QED
    BY <2>4, <2>5
<1>10. RefInv'
  BY <1>9 DEF RefInv
<1>11. /\ \A s \in Surfaces : HandleHolds(s) =>
            /\ id'[s] = id[s]
            /\ \A h \in Slots : table[h] = s => table'[h] = s
       /\ \A h \in Slots : table'[h] \in {table[h], None}
       /\ \A s \in Surfaces : id'[s] \in {id[s], NoSlot}
  BY <1>1, <1>b, <1>4, <1>6, <1>10, SettleKeeps DEF HandleHolds
<1>12. HandleInv'
  BY <1>1, <1>b, <1>4, <1>11
  DEF TypeOK, HandleInv, CreateVideo, Idle, Enter, HandleHolds
<1>13. OwnerInv'
  BY <1>1, <1>b, <1>4, <1>11
  DEF TypeOK, OwnerInv, CallInv, CreateVideo, Idle, Enter, HandleHolds, Created,
      Surfaces, Exclusive, Writing, Mixing, Unowned
<1>14. OwnedInv'
  BY <1>1, <1>b, <1>4, <1>11
  DEF TypeOK, OwnedInv, CreateVideo, Idle, Enter, HandleHolds, Created, Unowned
<1> QED
  BY <1>5, <1>7, <1>8, <1>10, <1>12, <1>13, <1>14 DEF IInv

\* shared_surface_swap_video moves the handle to another surface.
LEMMA SwapSharedStep ==
  ASSUME IInv, NEW t \in Threads, SwapShared(t)
  PROVE  IInv'
<1>0. /\ TypeOK /\ LinkInv /\ LockInv /\ CallInv /\ OwnerInv
      /\ HandleInv /\ OwnedInv /\ RefInv
  BY DEF IInv
<1> USE <1>0, SurfacesAssumption
<1> DEFINE v == vid[t]
           h == id[v]
<1>1. /\ pc[t] = "fetched" /\ shared[v] # None /\ v \in Videos /\ v \in Surfaces
      /\ HandleHolds(v) /\ h \in open \cap Slots /\ table[h] = v /\ out[t] = None
      /\ Created(t) = v
      /\ \A u \in Threads \ {t} : v \in {vid[u], out[u]} =>
           pc[u] = "unref" \/ call[u] = "display"
  BY DEF SwapShared, CallInv, OwnerInv, Exclusive, Writing, TypeOK, Surfaces, Created
<1>2. PICK n \in Videos, dropped \in SUBSET cache :
        /\ AllocVideo(n, dropped)
        /\ cache' = cache \ (dropped \cup {n})
        /\ Settle([s \in Surfaces |->
                      IF s = n THEN (IF refcnt[n] = 0 THEN 2 ELSE refcnt[n] + 1)
                      ELSE IF s = v THEN refcnt[v] - 2 - Bit(v \in dropped)
                      ELSE refcnt[s] - Bit(s \in dropped)],
                  [table EXCEPT ![h] = n], [id EXCEPT ![n] = h, ![v] = NoSlot])
        /\ destroyed' = [destroyed EXCEPT ![n] = FALSE]
        /\ vid' = [vid EXCEPT ![t] = n]
  BY <1>1 DEF SwapShared
<1> DEFINE rc == [s \in Surfaces |->
                    IF s = n THEN (IF refcnt[n] = 0 THEN 2 ELSE refcnt[n] + 1)
                    ELSE IF s = v THEN refcnt[v] - 2 - Bit(v \in dropped)
                    ELSE refcnt[s] - Bit(s \in dropped)]
           tab == [table EXCEPT ![h] = n]
           ids == [id EXCEPT ![n] = h, ![v] = NoSlot]
<1>3. /\ destroyed[n] /\ ~detached[n] /\ ~HandleHolds(n) /\ n \in Surfaces /\ n # v
      /\ \A u \in Threads : n \in {vid[u], out[u]} => pc[u] = "unref"
      /\ \A k \in open \cap Slots : table[k] # n
      /\ n \in cache => dropped = {} /\ refcnt[n] > 0
      /\ n \notin cache => refcnt[n] = 0 /\ shared[n] = None
                           /\ \A u \in Threads : n \notin {vid[u], out[u]}
  BY <1>1, <1>2, VideoChosen DEF Surfaces
<1>4. /\ UNCHANGED <<call, shared, link, lock, out, hold, open>>
      /\ pc' = [pc EXCEPT ![t] = "swapped"] /\ detached' = [detached EXCEPT ![v] = TRUE]
  BY DEF SwapShared, Goto
<1>5. /\ rc \in [Surfaces -> Int] /\ tab \in [Slots -> Surfaces \cup {None}]
      /\ ids \in [Surfaces -> Slots \cup {NoSlot}]
  BY <1>1, <1>3, BitType DEF TypeOK
<1>6. /\ refcnt' \in [Surfaces -> Int] /\ refcnt' = rc
      /\ table' \in [Slots -> Surfaces \cup {None}]
      /\ id' \in [Surfaces -> Slots \cup {NoSlot}]
  BY <1>2, <1>5, SettleType DEF Settle
<1>7. TypeOK'
  BY <1>2, <1>4, <1>6 DEF TypeOK, Steps
<1>8. OthersKeep(t)
  BY <1>2, <1>4 DEF TypeOK, OthersKeep
<1>9. LinkInv' /\ LockInv' /\ CallInv'
  BY <1>1, <1>2, <1>4 DEF TypeOK, LinkInv, LockInv, CallInv, NoLink, Surfaces
<1>10. \A s \in Surfaces : HandleHolds(s)' <=> s # v /\ (s = n \/ HandleHolds(s))
  BY <1>1, <1>2, <1>3, <1>4 DEF HandleHolds, TypeOK
<1>11. ASSUME NEW s \in Surfaces
       PROVE  refcnt'[s] = Bit(HandleHolds(s)') + Bit(s \in cache') + Bit(shared'[s] # None)
                           + Cardinality(CallsOn(s))'
  <2>1. Cardinality(CallsOn(s))' = Cardinality(CallsOn(s)) - Bit(OnCall(t, s)) + Bit(OnCall(t, s)')
    BY <1>8, CallsChange
  <2>2. /\ refcnt[s] = Bit(HandleHolds(s)) + Bit(s \in cache) + Bit(shared[s] # None)
                       + Cardinality(CallsOn(s))
        /\ shared'[s] = shared[s]
    BY <1>4 DEF RefInv
  <2>3. /\ OnCall(t, s) <=> s = v
        /\ OnCall(t, s)' <=> s = n
    BY <1>1, <1>2, <1>4 DEF OnCall, TypeOK
  <2>4. CASE s = v
    <3>1. /\ Bit(HandleHolds(s)') = 0 /\ Bit(HandleHolds(s)) = 1
          /\ Bit(OnCall(t, s)) = 1 /\ Bit(OnCall(t, s)') = 0
      BY <1>1, <1>3, <1>10, <2>3, <2>4 DEF Bit
    <3>2. Bit(s \in cache') = Bit(s \in cache) - Bit(s \in dropped)
      BY <1>2, <1>3, <2>4 DEF Bit
    <3>3. refcnt'[s] = refcnt[s] - 2 - Bit(s \in dropped)
      BY <1>3, <1>6, <2>4
    <3> QED
      BY <2>1, <2>2, <3>1, <3>2, <3>3, CallsFinite, BitType
  <2>5. CASE s = n
    <3>1. /\ Bit(HandleHolds(s)') = 1 /\ Bit(HandleHolds(s)) = 0 /\ Bit(s \in cache') = 0
          /\ Bit(OnCall(t, s)) = 0 /\ Bit(OnCall(t, s)') = 1
      BY <1>2, <1>3, <1>10, <2>3, <2>5 DEF Bit
    <3>2. CASE n \in cache
      <4>1. refcnt'[s] = refcnt[s] + 1 /\ Bit(s \in cache) = 1
        BY <1>3, <1>6, <2>5, <3>2 DEF Bit
      <4> QED
        BY <2>1, <2>2, <3>1, <4>1, CallsFinite, BitType
    <3>3. CASE n \notin cache
      <4>1. refcnt'[s] = 2 /\ refcnt[s] = 0 /\ Bit(s \in cache) = 0
        BY <1>3, <1>6, <2>5, <3>3 DEF Bit
      <4> QED
        BY <2>1, <2>2, <3>1, <4>1, CallsFinite, BitType
    <3> QED
      BY <3>2, <3>3
  <2>6. CASE s # v /\ s # n
    <3>1. /\ Bit(HandleHolds(s)') = Bit(HandleHolds(s))
          /\ Bit(OnCall(t, s)) = 0 /\ Bit(OnCall(t, s)') = 0
      BY <1>10, <2>3, <2>6 DEF Bit
    <3>2. Bit(s \in cache') = Bit(s \in cache) - Bit(s \in dropped)
      BY <1>2, <2>6 DEF Bit
    <3>3. refcnt'[s] = refcnt[s] - Bit(s \in dropped)
      BY <1>6, <2>6
    <3> QED
      BY <2>1, <2>2, <3>1, <3>2, <3>3, CallsFinite, BitType
  <2> QED
    BY <2>4, <2>5, <2>6
<1>12. RefInv'
  BY <1>11 DEF RefInv
<1>13. /\ \A s \in Surfaces : HandleHolds(s)' =>
            /\ id'[s] = ids[s]
            /\ \A k \in Slots : tab[k] = s => table'[k] = s
       /\ \A s \in Surfaces : id'[s] \in {ids[s], NoSlot}
       /\ \A k \in Slots : table'[k] \in {tab[k], None}
  <2>1. Settle(rc, tab, ids)
    BY <1>2
  <2> HIDE DEF rc, tab, ids
  <2> QED
    BY <2>1, <1>8, <1>12, SettleKeeps
<1>14. /\ id'[n] = h /\ table'[h] = n /\ id'[v] = NoSlot
       /\ \A s \in Surfaces : s # v /\ HandleHolds(s) =>
            /\ id'[s] = id[s]
            /\ \A k \in Slots : k # h /\ table[k] = s => table'[k] = s
       /\ \A k \in Slots : k # h => table'[k] \in {table[k], None}
       /\ \A s \in Surfaces : s \notin {n, v} => id'[s] \in {id[s], NoSlot}
  BY <1>1, <1>3, <1>10, <1>13 DEF TypeOK
<1>15. \A k \in open \cap Slots : k # h => table[k] # v
  BY <1>1 DEF HandleInv
<1>16. HandleInv'
  <2>1. \A k \in open \cap Slots :
          table'[k] # None /\ id'[table'[k]] = k /\ HandleHolds(table[k])'
    <3>1. ASSUME NEW k \in open \cap Slots, k = h
          PROVE  table'[k] # None /\ id'[table'[k]] = k /\ HandleHolds(table[k])'
      BY <1>1, <1>3, <1>10, <1>14, <3>1 DEF Surfaces
    <3>2. ASSUME NEW k \in open \cap Slots, k # h
          PROVE  table'[k] # None /\ id'[table'[k]] = k /\ HandleHolds(table[k])'
      <4>1. /\ table[k] \in Surfaces /\ HandleHolds(table[k]) /\ id[table[k]] = k
            /\ table[k] # v
        BY <1>15, <3>2 DEF HandleInv, TypeOK
      <4>2. table'[k] = table[k] /\ id'[table[k]] = id[table[k]]
        BY <1>14, <3>2, <4>1
      <4> QED
        BY <1>10, <4>1, <4>2 DEF Surfaces
    <3> QED
      BY <3>1, <3>2
  <2>2. \A s \in Surfaces : detached'[s] =>
          shared'[s] # None /\ ~destroyed'[s] /\ id'[s] = NoSlot
    BY <1>1, <1>2, <1>3, <1>4, <1>14 DEF HandleInv, HandleHolds, TypeOK
  <2> QED
    BY <1>4, <2>1, <2>2 DEF HandleInv
<1>17. OwnerInv'
  <2>1. /\ Created(t)' = n
        /\ \A u \in Threads \ {t} : Created(u)' = Created(u) /\ pc'[u] = pc[u]
    BY <1>1, <1>2, <1>4 DEF Created, TypeOK, Surfaces
  <2>2. ASSUME NEW u \in Threads, pc'[u] \in Exclusive
        PROVE  /\ HandleHolds(Created(u))'
               /\ \A w \in Threads \ {u} : Created(u)' \in {vid'[w], out'[w]} =>
                    pc'[w] = "unref" \/ call'[w] = "display"
    <3>1. CASE u = t
      BY <1>2, <1>3, <1>4, <1>8, <1>10, <2>1, <3>1 DEF OthersKeep
    <3>2. CASE u # t
      <4>1. pc[u] \in Exclusive /\ HandleHolds(Created(u)) /\ call[u] # "display"
        BY <2>1, <2>2, <3>2 DEF OwnerInv, CallInv, Exclusive
      <4>2. Created(u) \in Surfaces /\ Created(u) \in {vid[u], out[u]}
        BY <4>1 DEF Created, CallInv, Exclusive, TypeOK, Surfaces
      <4>3. Created(u) # v /\ Created(u) # n
        BY <1>1, <1>3, <3>2, <4>1, <4>2 DEF Exclusive
      <4>4. HandleHolds(Created(u))'
        BY <1>10, <2>1, <3>2, <4>1, <4>2, <4>3
      <4>5. ASSUME NEW w \in Threads \ {u}, Created(u) \in {vid'[w], out'[w]}
            PROVE  pc'[w] = "unref" \/ call'[w] = "display"
        <5>1. w # t
          BY <1>1, <1>2, <1>4, <4>2, <4>3, <4>5 DEF TypeOK, Surfaces
        <5> QED
          BY <1>4, <1>8, <4>1, <4>5, <5>1 DEF OwnerInv, OthersKeep
      <4> QED
        BY <2>1, <3>2, <4>4, <4>5
    <3> QED
      BY <3>1, <3>2
  <2>3. ASSUME NEW u \in Threads, pc'[u] \in Writing
        PROVE  id'[vid'[u]] \in open' \cap Slots /\ table'[id'[vid'[u]]] = vid'[u]
    <3>1. CASE u = t
      BY <1>1, <1>2, <1>4, <1>14, <3>1 DEF TypeOK
    <3>2. CASE u # t
      <4>1. /\ vid'[u] = vid[u] /\ vid[u] \in Surfaces /\ Created(u) = vid[u]
            /\ pc[u] \in Writing /\ pc[u] \in Exclusive /\ call[u] # "display"
        BY <1>8, <2>3, <3>2
        DEF OthersKeep, CallInv, TypeOK, Created, Writing, Exclusive, Surfaces
      <4>2. vid[u] # v /\ HandleHolds(vid[u])
        BY <1>1, <3>2, <4>1 DEF OwnerInv, Writing
      <4> QED
        BY <1>1, <1>4, <1>14, <4>1, <4>2 DEF OwnerInv
    <3> QED
      BY <3>1, <3>2
  <2>4. ASSUME NEW u \in Threads, pc'[u] \in Unowned
        PROVE  \A k \in open' \cap Slots : table'[k] # Created(u)'
    <3>1. u # t /\ pc[u] \in Unowned /\ pc[u] \in Exclusive
      BY <1>1, <1>4, <2>1, <2>4 DEF Unowned, Exclusive, TypeOK
    <3>2. Created(u) \in Surfaces /\ HandleHolds(Created(u))
      BY <3>1, CreatedType DEF Unowned, OwnerInv
    <3> QED
      BY <1>3, <1>4, <1>14, <2>1, <3>1, <3>2 DEF OwnerInv, TypeOK, Surfaces
  <2>5. ASSUME NEW u \in Threads, pc'[u] \in Mixing
        PROVE  HandleHolds(vid[u])' /\ HandleHolds(out[u])'
    <3>1. /\ u # t /\ pc[u] \in Mixing /\ vid'[u] = vid[u] /\ out'[u] = out[u]
          /\ call[u] = "mix" /\ vid[u] \in Videos /\ out[u] \in Outputs
      BY <1>4, <1>8, <2>1, <2>5 DEF OthersKeep, CallInv, TypeOK, Mixing
    <3>2. vid[u] # v /\ out[u] # v
      BY <1>1, <3>1 DEF Mixing
    <3> QED
      BY <1>2, <1>4, <3>1, <3>2 DEF OwnerInv, HandleHolds, TypeOK, Surfaces
  <2> QED
    BY <2>2, <2>3, <2>4, <2>5 DEF OwnerInv
<1>18. OwnedInv'
  <2>1. \A d \in Outputs : ~detached'[d] /\ (shared'[d] # None => ~destroyed'[d])
    BY <1>1, <1>2, <1>4 DEF OwnedInv, TypeOK, Surfaces
  <2>2. pc[t] \notin Unowned /\ \A u \in Threads \ {t} : Created(u)' = Created(u) /\ pc'[u] = pc[u]
    BY <1>1, <1>8 DEF OthersKeep, Created, Unowned
  <2>3. ASSUME NEW s \in Surfaces, HandleHolds(s)'
        PROVE  \/ id'[s] \in open' \cap Slots /\ table'[id'[s]] = s
               \/ \E u \in Threads : pc'[u] \in Unowned /\ Created(u)' = s
    <3>1. CASE s = n
      BY <1>1, <1>4, <1>14, <3>1
    <3>2. CASE s # n
      <4>1. HandleHolds(s) /\ s # v
        BY <1>10, <2>3, <3>2
      <4>2. CASE \E u \in Threads : pc[u] \in Unowned /\ Created(u) = s
        BY <2>2, <4>2
      <4>3. CASE id[s] \in open \cap Slots /\ table[id[s]] = s
        BY <1>1, <1>4, <1>14, <4>1, <4>3
      <4> QED
        BY <4>1, <4>2, <4>3 DEF OwnedInv
    <3> QED
      BY <3>1, <3>2
  <2> QED
    BY <2>1, <2>3 DEF OwnedInv
<1> QED
  BY <1>7, <1>9, <1>12, <1>16, <1>17, <1>18 DEF IInv

\* The decoder's last reference goes while no thread decodes, so nobody is
\* between two looks at the cache.
LEMMA ReleaseCacheStep ==
  ASSUME IInv, ReleaseCache
  PROVE  IInv'
<1>0. /\ TypeOK /\ LinkInv /\ LockInv /\ CallInv /\ OwnerInv
      /\ HandleInv /\ OwnedInv /\ RefInv
  BY DEF IInv
<1> USE <1>0, SurfacesAssumption
<1> DEFINE rc == [s \in Surfaces |-> refcnt[s] - Bit(s \in cache)]
<1>1. /\ Settle(rc, table, id) /\ cache' = {}
      /\ UNCHANGED <<destroyed, detached, shared, link, lock, call, pc, vid, out, hold, open>>
  BY DEF ReleaseCache
<1>2. rc \in [Surfaces -> Int]
  BY BitType DEF TypeOK
<1>3. /\ refcnt' \in [Surfaces -> Int] /\ refcnt' = rc
      /\ table' \in [Slots -> Surfaces \cup {None}]
      /\ id' \in [Surfaces -> Slots \cup {NoSlot}]
  BY <1>1, <1>2, SettleType DEF TypeOK, Settle
<1>4. TypeOK'
  BY <1>1, <1>3 DEF TypeOK
<1>5. LinkInv' /\ LockInv' /\ CallInv'
  BY <1>1 DEF LinkInv, LockInv, CallInv, NoLink
<1>6. ASSUME NEW s \in Surfaces
      PROVE  refcnt'[s] = Bit(HandleHolds(s)') + Bit(s \in cache') + Bit(shared'[s] # None)
                          + Cardinality(CallsOn(s))'
  <2>1. /\ CallsOn(s)' = CallsOn(s) /\ Bit(s \in cache') = 0
        /\ HandleHolds(s)' = HandleHolds(s) /\ shared'[s] = shared[s]
    BY <1>1 DEF CallsOn, Bit, HandleHolds
  <2> QED
    BY <1>3, <2>1, CallsFinite, BitType DEF RefInv
<1>7. RefInv'
  BY <1>6 DEF RefInv
<1>8. \A s \in Surfaces : HandleHolds(s) => refcnt'[s] > 0
  <2>1. ASSUME NEW s \in Surfaces, HandleHolds(s)
        PROVE  refcnt'[s] > 0
    <3>1. Cardinality(CallsOn(s))' \in Nat /\ HandleHolds(s)'
      BY <1>1, <2>1, CallsFinite DEF CallsOn, HandleHolds
    <3> QED
      BY <3>1, <1>6, BitType DEF Bit
  <2> QED
    BY <2>1
<1>9. /\ \A s \in Surfaces : HandleHolds(s) =>
           /\ id'[s] = id[s]
           /\ \A h \in Slots : table[h] = s => table'[h] = s
      /\ \A h \in Slots : table'[h] \in {table[h], None}
      /\ \A s \in Surfaces : id'[s] \in {id[s], NoSlot}
  BY <1>1, <1>3, <1>8 DEF Settle
<1>10. HandleInv'
  BY <1>1, <1>9 DEF HandleInv, TypeOK, HandleHolds
<1>11. OwnerInv'
  BY <1>1, <1>9
  DEF TypeOK, OwnerInv, CallInv, HandleHolds, Created, Surfaces, Exclusive,
                    Writing, Mixing, Unowned
<1>12. OwnedInv'
  BY <1>1, <1>9 DEF OwnedInv, HandleHolds, Created, Unowned
<1> QED
  BY <1>4, <1>5, <1>7, <1>10, <1>11, <1>12 DEF IInv

\* The tables of vdpau_tegra.c start empty.
LEMMA InitialState == Init => IInv
<1> SUFFICES ASSUME Init PROVE IInv
  OBVIOUS
<1> USE SurfacesAssumption
<1>1. TypeOK
  BY DEF Init, TypeOK, NoLink, Calls, Steps
<1>2. LinkInv /\ LockInv /\ CallInv
  BY <1>1 DEF Init, LinkInv, LockInv, CallInv, NoLink, TypeOK
<1>3. OwnerInv /\ HandleInv /\ OwnedInv
  BY DEF Init, OwnerInv, HandleInv, OwnedInv, HandleHolds, Exclusive, Writing, Mixing,
         Unowned, Surfaces
<1>4. ASSUME NEW s \in Surfaces
      PROVE  refcnt[s] = Bit(HandleHolds(s)) + Bit(s \in cache) + Bit(shared[s] # None)
                         + Cardinality(CallsOn(s))
  <2>1. CallsOn(s) = {}
    BY DEF Init, CallsOn, Surfaces
  <2>2. Cardinality(CallsOn(s)) = 0
    BY <2>1, FS_EmptySet
  <2> QED
    BY <2>2 DEF Init, HandleHolds, Bit
<1> QED
  BY <1>1, <1>2, <1>3, <1>4 DEF IInv, RefInv

\* A stuttering step.
LEMMA Unchanged ==
  ASSUME IInv, UNCHANGED vars
  PROVE  IInv'
<1> USE DEF IInv, vars
<1>1. \A s \in Surfaces : CallsOn(s)' = CallsOn(s) /\ HandleHolds(s)' = HandleHolds(s)
  BY DEF CallsOn, HandleHolds
<1>2. RefInv'
  BY <1>1 DEF RefInv
<1> QED
  BY <1>2
  DEF TypeOK, LinkInv, LockInv, CallInv, OwnerInv, HandleInv, OwnedInv, HandleHolds,
              Created, NoLink

\* Every step keeps the invariant.
LEMMA Induction ==
  ASSUME IInv, [Next]_vars
  PROVE  IInv'
<1>1. ASSUME NEW t \in Threads, CreateCall(t)
      PROVE  IInv'
  BY <1>1, CreateVideoStep, CreateOutputStep, CreateFailStep, RegisterStep,
      RegisterFailStep
  DEF CreateCall
<1>2. ASSUME NEW t \in Threads, WriteCall(t)
      PROVE  IInv'
  BY <1>2, FetchTargetStep, WriteRejectedStep, SwapUnsharedStep, SwapSharedStep,
      SwapFailStep,
     BeginWriteStep, FinishDecodeStep, FinishPutBitsStep
  DEF WriteCall
<1>3. ASSUME NEW t \in Threads, MixCall(t)
      PROVE  IInv'
  BY <1>3, FetchMixStep, MixLockStep, MixShareStep, MixBlitStep DEF MixCall
<1>4. ASSUME NEW t \in Threads, OutputCall(t)
      PROVE  IInv'
  BY <1>4, FetchOutputStep, DrawLockStep, DrawDoneStep, DisplayDoneStep, DropCachesStep
  DEF OutputCall
<1>5. ASSUME NEW t \in Threads, DestroyCall(t)
      PROVE  IInv'
  BY <1>5, FetchDestroyStep, MarkDestroyedStep, FinishDestroyStep DEF DestroyCall
<1> QED
  BY <1>1, <1>2, <1>3, <1>4, <1>5, ReleaseCacheStep, Unchanged DEF Next
-----------------------------------------------------------------------------
(* The theorems.                                                           *)

\* The invariant that the reference counting of surface.c, surface_cache.c and
\* surface_shared.c keeps, whatever calls interleave.
THEOREM Invariance == Spec => []IInv
<1>1. Init => IInv
  BY InitialState
<1>2. IInv /\ [Next]_vars => IInv'
  BY Induction
<1> QED
  BY <1>1, <1>2, PTL DEF Spec

\* Type correctness of the handle table, the surfaces, the links and the calls.
THEOREM TypeCorrect == Spec => []TypeOK
<1>1. IInv => TypeOK
  BY DEF IInv
<1> QED
  BY <1>1, Invariance, PTL

\* The links on a surface are the one it shows, or none.
LEMMA OneLink ==
  ASSUME IInv, NEW s \in Surfaces
  PROVE  Cardinality(LinksOn(s)) = Bit(shared[s] # None)
<1> USE SurfacesAssumption DEF IInv
<1>1. \A l \in Links : l \in LinksOn(s) <=> shared[s] = l
  BY DEF LinksOn, LinkInv, TypeOK
<1>2. CASE shared[s] = None
  <2>1. LinksOn(s) = {}
    BY <1>1, <1>2 DEF LinksOn
  <2> QED
    BY <1>2, <2>1, FS_EmptySet DEF Bit
<1>3. CASE shared[s] # None
  <2>1. LinksOn(s) = {shared[s]}
    BY <1>1, <1>3 DEF LinksOn, TypeOK
  <2> QED
    BY <1>3, <2>1, FS_Singleton DEF Bit
<1> QED
  BY <1>2, <1>3

\* surf->refcnt counts exactly the holders of a surface: the handle, the cache,
\* the link that shows it and the calls in flight.
THEOREM CountsAreExact == Spec => []RefsExact
<1>1. IInv => RefsExact
  BY OneLink DEF IInv, RefInv, RefsExact
<1> QED
  BY <1>1, Invariance, PTL

\* shared->refcnt counts the link's own reference and the call resolving it.
THEOREM LinkCountsAreExact == Spec => []LinkRefsExact
<1>1. ASSUME IInv, NEW l \in Links
      PROVE  link[l].refcnt = Cardinality({d \in Outputs : shared[d] = l})
                              + Cardinality({t \in Threads : hold[t] = l})
  <2> USE <1>1, SurfacesAssumption DEF IInv
  <2> DEFINE D == {d \in Outputs : shared[d] = l}
             H == {t \in Threads : hold[t] = l}
  <2>1. CASE link[l].refcnt = 0
    <3>1. D = {} /\ H = {}
      BY <2>1 DEF LinkInv, LockInv, TypeOK, Surfaces, CallInv
    <3> QED
      BY <2>1, <3>1, FS_EmptySet
  <2>2. CASE link[l].refcnt # 0
    <3> DEFINE d == link[l].disp
    <3>1. D = {d}
      BY <2>2, LinkEnds DEF LinkInv, Surfaces, TypeOK
    <3>a. Cardinality(D) = 1
      BY <3>1, FS_Singleton
    <3>2. CASE link[l].refcnt = 1
      <4>1. H = {}
        BY <3>2 DEF LinkInv
      <4>2. Cardinality(H) = 0
        BY <4>1, FS_EmptySet
      <4> QED
        BY <3>a, <3>2, <4>2
    <3>3. CASE link[l].refcnt = 2
      <4>1. \A t \in H : d = out[t] /\ lock[d] = t
        BY <2>2, <3>1 DEF LockInv, CallInv, TypeOK, Surfaces, LinkInv
      <4>2. H = {lock[d]}
        BY <3>3, <4>1 DEF LinkInv
      <4>3. Cardinality(H) = 1
        BY <4>2, FS_Singleton
      <4> QED
        BY <3>a, <3>3, <4>3
    <3> QED
      BY <2>2, <3>2, <3>3 DEF LinkInv
  <2> QED
    BY <2>1, <2>2
<1>2. IInv => LinkRefsExact
  BY <1>1 DEF LinkRefsExact
<1> QED
  BY <1>2, Invariance, PTL

\* No pointer that a call, the cache or a link may follow leads to a surface
\* that the last unref_surface freed.
THEOREM PointersAreLive == Spec => []NoUseAfterFree
<1>1. ASSUME IInv, NEW t \in Threads, NEW s \in {vid[t], out[t]} \ {None}
      PROVE  refcnt[s] > 0
  <2>1. s \in Surfaces
    BY <1>1 DEF IInv, TypeOK, Surfaces
  <2>2. CASE pc[t] \in {"created", "destroying"}
    <3>1. HandleHolds(s)
      BY <1>1, <2>1, <2>2, CreatedType DEF IInv, OwnerInv, Exclusive
    <3> QED
      BY <1>1, <2>1, <3>1, HolderKeeps DEF IInv
  <2>3. CASE pc[t] \notin {"created", "destroying"}
    BY <1>1, <2>1, <2>3, HolderKeeps DEF IInv, OnCall
  <2> QED
    BY <2>2, <2>3
<1>2. ASSUME IInv
      PROVE  /\ \A s \in cache : refcnt[s] > 0
             /\ \A l \in Links : link[l].refcnt > 0 =>
                  refcnt[link[l].video] > 0 /\ refcnt[link[l].disp] > 0
  BY <1>2, HolderKeeps, SurfacesAssumption DEF IInv, TypeOK, LinkInv, Surfaces
<1>3. IInv => NoUseAfterFree
  BY <1>1, <1>2 DEF NoUseAfterFree
<1> QED
  BY <1>3, Invariance, PTL

\* A link is set at both ends, and a detached surface waits for one.
THEOREM LinksAreConsistent == Spec => []LinksAgree
<1>1. IInv => LinkSymmetric
  BY DEF IInv, LinkInv, LinkSymmetric, TypeOK
<1>2. IInv => DetachedIsShown
  BY DEF IInv, HandleInv, DetachedIsShown
<1>3. IInv => LinksAgree
  BY <1>1, <1>2 DEF LinksAgree
<1> QED
  BY <1>3, Invariance, PTL

\* A handle of the application resolves to a surface that knows it.
THEOREM HandlesResolve == Spec => []OwnedHandleResolves
<1>1. IInv => OwnedHandleResolves
  BY SurfacesAssumption DEF IInv, HandleInv, OwnedHandleResolves, Lookup, HandleHolds
<1> QED
  BY <1>1, Invariance, PTL

\* The counters of surfaces and of links are exact, in every interleaving of calls.
THEOREM CountersAreExact == Spec => []CountsExact
<1>1. (RefsExact /\ LinkRefsExact) => CountsExact
  BY DEF CountsExact
<1> QED
  BY <1>1, CountsAreExact, LinkCountsAreExact, PTL

\* Pointers and handles lead to live surfaces only.
THEOREM WhatIsReachedIsAlive == Spec => []ReachableIsAlive
<1>1. (NoUseAfterFree /\ OwnedHandleResolves) => ReachableIsAlive
  BY DEF ReachableIsAlive
<1> QED
  BY <1>1, PointersAreLive, HandlesResolve, PTL

\* Once the application holds no handle, is in no call and has let the decoder
\* go, every surface is free: no sequence of calls leaks one.
THEOREM NothingLeaks == Spec => []NoLeak
<1>1. ASSUME IInv, open \cap Slots = {}, cache = {}, \A t \in Threads : Idle(t),
             NEW s \in Surfaces
      PROVE  refcnt[s] = 0
  <2> USE <1>1, SurfacesAssumption DEF IInv, Idle
  <2>1. ~HandleHolds(s)
    BY DEF OwnedInv, Unowned
  <2>2. CallsOn(s) = {}
    BY DEF CallsOn, CallInv, Surfaces
  <2>3. shared[s] = None
    <3>1. CASE s \in Outputs
      BY <2>1, <3>1 DEF OwnedInv, HandleHolds
    <3>2. CASE s \in Videos
      <4> DEFINE d == link[shared[s]].disp
      <4>1. SUFFICES ASSUME shared[s] # None PROVE FALSE
        OBVIOUS
      <4>2. d \in Outputs /\ d \in Surfaces /\ shared[d] # None
        BY <4>1 DEF LinkInv, TypeOK, Surfaces
      <4>3. HandleHolds(d)
        BY <4>2 DEF OwnedInv, HandleHolds
      <4> QED
        BY <4>2, <4>3 DEF OwnedInv, Unowned
    <3> QED
      BY <3>1, <3>2 DEF Surfaces
  <2> QED
    BY <2>1, <2>2, <2>3, FS_EmptySet DEF RefInv, Bit
<1>2. IInv => NoLeak
  BY <1>1 DEF NoLeak
<1> QED
  BY <1>2, Invariance, PTL
=============================================================================
