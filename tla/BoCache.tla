------------------------------ MODULE BoCache ------------------------------
(***************************************************************************)
(* Buffer objects of tegradrm: tegra.c, tegra_bo_cache.c. A buffer whose   *)
(* last reference is dropped goes to the bucket of its size, from where    *)
(* drm_tegra_bo_new takes it again; its mapping goes to the mmap cache.    *)
(* Both caches are emptied by age, on the way of other calls. What runs    *)
(* under table_lock is one step; what runs outside of it is not.           *)
(* Sizes are in pages of 4096 bytes. The code compares times only with     *)
(* the present: a time is kept as its age, up to the oldest that counts.   *)
(***************************************************************************)
EXTENDS Naturals, Sequences, FiniteSets, SequencesExt

CONSTANTS
  Threads, Bos, Names, None,
  SparseKernel,      \* drm->version >= GRATE_KERNEL_DRM_VERSION
  CacheSizes,        \* the sizes of the buckets
  SmallSize,         \* 16384 bytes: a bucket of small buffers ...
  SmallTotal,        \* ... is kept while it holds no more than 65536 bytes
  Few, Plenty,       \* 5 buffers, 4 MB
  Fresh, Aged, Old,  \* 30, 60 and 300 seconds
  Requests,          \* what the application asks for: [size, sparse]
  ServerSize,        \* the size of the X server's buffers
  MaxRefs,           \* bound: of references to and mappings of a buffer
  Admits             \* the rules of the application that are lifted

ASSUME BoCacheAssumption ==
  /\ {SparseKernel} \subseteq BOOLEAN
  /\ IsFiniteSet(Threads) /\ IsFiniteSet(Bos)
  /\ {SmallSize, SmallTotal, Few, Plenty, ServerSize, MaxRefs} \subseteq Nat /\ MaxRefs > 0
  /\ {Fresh, Aged, Old} \subseteq Nat /\ Fresh < Aged /\ Aged <= Old
  /\ CacheSizes \subseteq Nat \ {0}
  /\ Requests \subseteq [size : Nat \ {0}, sparse : BOOLEAN]
  /\ Admits \subseteq {"unlocked_flush", "reopen", "huge_map"}
  /\ None \notin Bos \cup Names \cup (CacheSizes \X BOOLEAN)

VARIABLES
  bo,           \* struct drm_tegra_bo at each address
  list,         \* cache_bucket[].list, oldest first
  entries,      \* cache_bucket[].num_entries
  mmaps,        \* cache_bucket[].num_mmap_entries
  mmapList,     \* mmap_cache.list, oldest first
  cacheTime,    \* bo_cache.time: zero after a flush, now, or earlier
  mmapTime,     \* mmap_cache.time: now or earlier
  handleTable,  \* the buffers their own handle leads to
  nameTable,    \* name_table
  busy,         \* the given back buffers the GPU still works on
  app,          \* what the callers hold: references, mappings, what they asked for
  pc, arg, want \* per thread: step, buffer, and the request of drm_tegra_bo_new

cacheVars == <<list, entries, cacheTime>>
mmapVars == <<mmapList, mmaps, mmapTime>>
tableVars == <<handleTable, nameTable>>
vars == <<bo, cacheVars, mmapVars, tableVars, busy, app, pc, arg, want>>

-----------------------------------------------------------------------------
(* Buckets.                                                                *)

Buckets == CacheSizes \X BOOLEAN

\* drm_tegra_get_bucket: there is a sparse bucket for every contiguous one, so
\* that falling back from one kind to the other finds nothing new.
BucketOf(size, sparse) ==
  LET fit == {s \in CacheSizes : s >= size}
  IN IF fit = {} THEN None ELSE <<Min(fit), sparse /\ SparseKernel>>

Bucket(b) == BucketOf(bo[b].size, bo[b].sparse)

Listed(b) == \E k \in Buckets : \E i \in DOMAIN list[k] : list[k][i] = b

\* DRMLISTDEL of the buffers of S; a recursive function, which a proof can unfold.
Without(s, S) ==
  LET kept[i \in 0..Len(s)] == IF i = 0 THEN <<>>
                               ELSE IF s[i] \in S THEN kept[i - 1] ELSE Append(kept[i - 1], s[i])
  IN kept[Len(s)]

\* bucket_free_up.
FreeUp(k, n) == k[1] > SmallSize \/ k[1] * n > SmallTotal

NoBo == [kind |-> "free", ref |-> 0, size |-> 0, sparse |-> FALSE, reuse |-> FALSE,
         name |-> None, map |-> "none", mmapRef |-> 0, freeAge |-> 0, unmapAge |-> 0]

Nobody == [refs |-> 0, maps |-> 0, size |-> 0, sparse |-> FALSE]

FlushSteps == {"flushing", "flush_free"}
Steps == {"idle", "creating", "retrying", "registering", "releasing", "naming", "opened",
          "crashed"} \cup FlushSteps

Init ==
  /\ bo = [b \in Bos |-> NoBo]
  /\ list = [k \in Buckets |-> <<>>]
  /\ entries = [k \in Buckets |-> 0]
  /\ mmaps = [k \in Buckets |-> 0]
  /\ mmapList = <<>>
  /\ cacheTime = "zero" /\ mmapTime = "earlier"
  /\ handleTable = {}
  /\ nameTable = [n \in Names |-> None]
  /\ busy = {}
  /\ app = [b \in Bos |-> Nobody]
  /\ pc = [t \in Threads |-> "idle"]
  /\ arg = [t \in Threads |-> None]
  /\ want = [t \in Threads |-> Nobody]

\* The flush of a failed create takes no lock. Rule: nobody else runs meanwhile.
At(t, step) ==
  /\ pc[t] = step
  /\ \/ "unlocked_flush" \in Admits
     \/ \A u \in Threads \ {t} : pc[u] \notin FlushSteps

Goto(t, step) == pc' = [pc EXCEPT ![t] = step]

Call(t, step, b) == Goto(t, step) /\ arg' = [arg EXCEPT ![t] = b] /\ UNCHANGED want

Return(t) ==
  /\ Goto(t, "idle")
  /\ arg' = [arg EXCEPT ![t] = None]
  /\ want' = [want EXCEPT ![t] = Nobody]

\* Buffers in use: they are not dropped by another thread under a call's feet.
InCall(b) == \E t \in Threads : arg[t] = b /\ pc[t] \in {"naming", "opened"}

-----------------------------------------------------------------------------
(* Freeing, and the two caches.                                            *)

\* Mutant of FreeBos: the names of the buffers stay in name_table.
FreeBosNamed(S, others) ==
  /\ bo' = [b \in Bos |-> IF b \in S THEN NoBo ELSE others[b]]
  /\ mmapList' = Without(mmapList, S)
  /\ mmaps' = [k \in Buckets |->
                 mmaps[k] - Cardinality({b \in S : bo[b].map = "cached" /\ Bucket(b) = k})]
  /\ handleTable' = handleTable \ S
  /\ busy' = busy \ S
  /\ UNCHANGED <<mmapTime, nameTable>>

\* drm_tegra_bo_free for a set of buffers: the mapping goes, wherever it is,
\* then the table entries, then the handle. `others` are the other buffers.
FreeBos(S, others) ==
  /\ bo' = [b \in Bos |-> IF b \in S THEN NoBo ELSE others[b]]
  /\ mmapList' = Without(mmapList, S)
  /\ mmaps' = [k \in Buckets |->
                 mmaps[k] - Cardinality({b \in S : bo[b].map = "cached" /\ Bucket(b) = k})]
  /\ nameTable' = [n \in Names |->
                     IF \E b \in S : bo[b].name = n THEN None ELSE nameTable[n]]
  /\ handleTable' = handleTable \ S
  /\ busy' = busy \ S
  /\ UNCHANGED mmapTime

\* Mutant of Keeps: a few buffers are kept whatever their age.
KeepsFew(k, n, b) ==
  \/ bo[b].freeAge <= Fresh
  \/ n < Few
  \/ bo[b].freeAge < Old /\ k[1] * n < Plenty

\* Whether drm_tegra_bo_cache_cleanup keeps a buffer of a bucket with n entries.
Keeps(k, n, b) ==
  \/ bo[b].freeAge <= Fresh
  \/ bo[b].freeAge < Aged /\ n < Few
  \/ bo[b].freeAge < Old /\ k[1] * n < Plenty

\* How many buffers, the oldest first, the cleanup takes from a bucket.
Expired(k) ==
  IF cacheTime = "now" \/ ~FreeUp(k, entries[k]) THEN 0
  ELSE Min({n \in 0..Len(list[k]) :
              n = Len(list[k]) \/ Keeps(k, entries[k] - n, list[k][n + 1])})

ExpiredBos == UNION {{list[k][i] : i \in 1..Expired(k)} : k \in Buckets}

\* The mappings drm_tegra_bo_mmap_cache_cleanup drops: it walks the whole list,
\* up to the first fresh one, while the counts go down.
MmapWalk(acc, b) ==
  LET k == Bucket(b)
      n == IF k = None THEN 0
           ELSE mmaps[k] - Cardinality({d \in acc.dropped : Bucket(d) = k})
      age == bo[b].unmapAge
  IN IF acc.stop \/ age <= Fresh THEN [acc EXCEPT !.stop = TRUE]
     ELSE IF k = None /\ age < Aged THEN [acc EXCEPT !.crash = TRUE]
     ELSE IF k # None /\ (~FreeUp(k, n) \/ (age < Aged /\ n < Few)) THEN acc
     ELSE [acc EXCEPT !.dropped = @ \cup {b}]

MmapCleanup ==
  LET nothing == [dropped |-> {}, stop |-> FALSE, crash |-> FALSE]
      walk[i \in 0..Len(mmapList)] == IF i = 0 THEN nothing
                                      ELSE MmapWalk(walk[i - 1], mmapList[i])
  IN IF mmapTime = "now" THEN nothing ELSE walk[Len(mmapList)]

\* drm_tegra_bo_cache_unmap: b's mapping goes to the end of the mmap cache.
\* `changed` are the buffers with what else the step changes.
UnmapToCache(b, changed) ==
  LET gone == ToSet(mmapList) \cap MmapCleanup.dropped
      Dropped(k) == Cardinality({d \in gone : Bucket(d) = k})
  IN /\ bo' = [c \in Bos |->
                 IF c = b THEN [changed[c] EXCEPT !.map = "cached", !.unmapAge = 0]
                 ELSE IF c \in gone THEN [changed[c] EXCEPT !.map = "none", !.unmapAge = 0]
                 ELSE changed[c]]
     /\ mmapList' = Append(Without(mmapList, gone), b)
     /\ mmaps' = [k \in Buckets |-> mmaps[k] - Dropped(k) + (IF Bucket(b) = k THEN 1 ELSE 0)]
     /\ mmapTime' = "now"

\* drm_tegra_bo_cache_map: the mapping is taken out of the mmap cache.
FromCacheMap(b) ==
  /\ mmapList' = Without(mmapList, {b})
  /\ mmaps' = [k \in Buckets |-> mmaps[k] - (IF Bucket(b) = k THEN 1 ELSE 0)]
  /\ UNCHANGED mmapTime

\* Mutant of Reset: the reference count is left as it is.
ResetUncounted(b, ref) ==
  LET fresh == [bo EXCEPT ![b].mmapRef = 0, ![b].freeAge = 0]
  IN IF bo[b].map = "mapped" THEN UnmapToCache(b, fresh)
     ELSE bo' = fresh /\ UNCHANGED mmapVars

\* drm_tegra_reset_bo, of a buffer that leaves its bucket with `ref` references.
Reset(b, ref) ==
  LET fresh == [bo EXCEPT ![b].ref = ref, ![b].mmapRef = 0, ![b].freeAge = 0]
  IN IF bo[b].map = "mapped" THEN UnmapToCache(b, fresh)
     ELSE bo' = fresh /\ UNCHANGED mmapVars

-----------------------------------------------------------------------------
(* drm_tegra_bo_new.                                                       *)

Hit(k) == k # None /\ list[k] # <<>> /\ Head(list[k]) \notin busy

\* The recycled buffer: find_in_bucket, which looks at the oldest only.
NewFromCache(t) ==
  /\ At(t, "idle")
  /\ \E r \in Requests :
       LET k == BucketOf(r.size, r.sparse)
           b == Head(list[k])
       IN /\ Hit(k)
          /\ list' = [list EXCEPT ![k] = Tail(@)]
          /\ entries' = [entries EXCEPT ![k] = @ - 1]
          /\ Reset(b, 1)
          /\ app' = [app EXCEPT ![b] = [refs |-> 1, maps |-> 0, size |-> r.size, sparse |-> r.sparse]]
  /\ UNCHANGED <<cacheTime, tableVars, busy, pc, arg, want>>

\* Mutant of Rounded: the size is not rounded up to that of the bucket.
RoundedToPage(size, k) == size

\* drm_tegra_bo_cache_alloc rounds the size up to that of the bucket.
Rounded(size, k) == IF k = None THEN size ELSE k[1]

NewMiss(t) ==
  /\ At(t, "idle")
  /\ \E r \in Requests :
       LET k == BucketOf(r.size, r.sparse)
       IN /\ ~Hit(k)
          /\ want' = [want EXCEPT ![t] = [refs |-> Rounded(r.size, k), maps |-> 0,
                                          size |-> r.size, sparse |-> r.sparse]]
  /\ Goto(t, "creating")
  /\ UNCHANGED <<bo, cacheVars, mmapVars, tableVars, busy, app, arg>>

\* The kernel made the buffer; the calloc'ed object is at a free address.
Create(t) ==
  /\ At(t, "creating") \/ At(t, "retrying")
  /\ \E b \in Bos :
       /\ bo[b].kind = "free"
       /\ bo' = [bo EXCEPT ![b] = [NoBo EXCEPT !.kind = "own", !.ref = 1, !.reuse = TRUE,
                                     !.size = want[t].refs, !.sparse = want[t].sparse]]
       /\ Call(t, "registering", b)
  /\ UNCHANGED <<cacheVars, mmapVars, tableVars, busy, app>>

\* The kernel has no memory: once, everything cached is given back to it.
CreateFail(t) ==
  /\ \/ At(t, "creating") /\ Call(t, IF cacheTime = "zero" THEN "retrying" ELSE "flushing", None)
     \/ At(t, "retrying") /\ Return(t)
  /\ UNCHANGED <<bo, cacheVars, mmapVars, tableVars, busy, app>>

\* drm_tegra_bo_cache_cleanup(drm, 0), without table_lock: the next buffer is
\* read from its list, then taken out and freed.
FlushTake(t) ==
  /\ At(t, "flushing")
  /\ \E k \in Buckets : list[k] # <<>> /\ Call(t, "flush_free", Head(list[k]))
  /\ UNCHANGED <<bo, cacheVars, mmapVars, tableVars, busy, app>>

\* Mutant of FlushFree: the buffer stays in its list.
FlushFreeListed(t) ==
  /\ At(t, "flush_free")
  /\ FreeBos({arg[t]}, bo)
  /\ Call(t, "flushing", None)
  /\ UNCHANGED <<cacheVars, app>>

FlushFree(t) ==
  /\ At(t, "flush_free")
  /\ LET b == arg[t] IN
       /\ list' = [list EXCEPT ![Bucket(b)] = Without(@, {b})]
       /\ entries' = [entries EXCEPT ![Bucket(b)] = @ - 1]
       /\ FreeBos({b}, bo)
  /\ Call(t, "flushing", None)
  /\ UNCHANGED <<cacheTime, app>>

FlushEnd(t) ==
  /\ At(t, "flushing")
  /\ \A k \in Buckets : list[k] = <<>>
  /\ cacheTime' = "zero"
  /\ Call(t, "retrying", None)
  /\ UNCHANGED <<bo, list, entries, mmapVars, tableVars, busy, app>>

Register(t) ==
  /\ At(t, "registering")
  /\ handleTable' = handleTable \cup {arg[t]}
  /\ app' = [app EXCEPT ![arg[t]] = [want[t] EXCEPT !.refs = 1]]
  /\ Return(t)
  /\ UNCHANGED <<bo, cacheVars, mmapVars, nameTable, busy>>

-----------------------------------------------------------------------------
(* References: drm_tegra_bo_ref, drm_tegra_bo_unref.                       *)

Ref(t, b) ==
  /\ At(t, "idle")
  /\ app[b].refs \in 1..(MaxRefs - 1)
  /\ bo' = [bo EXCEPT ![b].ref = @ + 1]
  /\ app' = [app EXCEPT ![b].refs = @ + 1]
  /\ UNCHANGED <<cacheVars, mmapVars, tableVars, busy, pc, arg, want>>

\* The count goes down without the lock. The owner need not have unmapped b,
\* and jobs that use it may still be queued; until now that made no difference.
Unref(t, b) ==
  /\ At(t, "idle")
  /\ app[b].refs > 0
  /\ app[b].refs = 1 => ~InCall(b)
  /\ bo' = [bo EXCEPT ![b].ref = @ - 1]
  /\ app' = IF app[b].refs = 1 THEN [app EXCEPT ![b] = Nobody] ELSE [app EXCEPT ![b].refs = @ - 1]
  /\ IF bo[b].ref = 1 THEN Call(t, "releasing", b) /\ busy' \in {busy, busy \cup {b}}
     ELSE UNCHANGED <<pc, arg, want, busy>>
  /\ UNCHANGED <<cacheVars, mmapVars, tableVars>>

\* drm_tegra_bo_cache_free: old buffers go first, then b becomes the youngest.
CacheFree(b) ==
  LET k == Bucket(b)
      left == [j \in Buckets |-> SubSeq(list[j], Expired(j) + 1, Len(list[j]))]
  IN /\ FreeBos(ExpiredBos, [bo EXCEPT ![b].freeAge = 0])
     /\ list' = [left EXCEPT ![k] = Append(@, b)]
     /\ entries' = [j \in Buckets |-> entries[j] - Expired(j) + (IF j = k THEN 1 ELSE 0)]
     /\ cacheTime' = "now"

Release(t) ==
  /\ At(t, "releasing")
  /\ LET b == arg[t] IN
       IF bo[b].reuse /\ Bucket(b) # None THEN CacheFree(b)
       ELSE FreeBos({b}, bo) /\ UNCHANGED cacheVars
  /\ Return(t)
  /\ UNCHANGED <<app>>

-----------------------------------------------------------------------------
(* drm_tegra_bo_map, drm_tegra_bo_unmap.                                   *)

\* The X server's buffers are not mapped. Rule: nor are those without a bucket;
\* the walk of the mmap cache asks for the bucket's count in any case.
MayMap(b) ==
  /\ bo[b].kind = "own"
  /\ Bucket(b) # None \/ "huge_map" \in Admits

Map(t, b) ==
  /\ At(t, "idle")
  /\ app[b].refs > 0 /\ app[b].maps < MaxRefs /\ MayMap(b)
  /\ app' = [app EXCEPT ![b].maps = @ + 1]
  /\ bo' = [bo EXCEPT ![b].map = "mapped", ![b].unmapAge = 0,
                      ![b].mmapRef = IF bo[b].map = "mapped" THEN @ + 1 ELSE 1]
  /\ IF bo[b].map = "cached" THEN FromCacheMap(b) ELSE UNCHANGED mmapVars
  /\ UNCHANGED <<cacheVars, tableVars, busy, pc, arg, want>>

\* Mutant of Unmap: the first unmap ends the mapping of every user.
UnmapAtOnce(t, b) ==
  /\ At(t, "idle")
  /\ app[b].maps > 0
  /\ app' = [app EXCEPT ![b].maps = @ - 1]
  /\ UnmapToCache(b, [bo EXCEPT ![b].mmapRef = 0])
  /\ IF MmapCleanup.crash THEN Call(t, "crashed", None) ELSE UNCHANGED <<pc, arg, want>>
  /\ UNCHANGED <<cacheVars, tableVars, busy>>

Unmap(t, b) ==
  /\ At(t, "idle")
  /\ app[b].maps > 0
  /\ app' = [app EXCEPT ![b].maps = @ - 1]
  /\ IF bo[b].mmapRef = 1
       THEN /\ UnmapToCache(b, [bo EXCEPT ![b].mmapRef = 0])
            /\ IF MmapCleanup.crash THEN Call(t, "crashed", None) ELSE UNCHANGED <<pc, arg, want>>
       ELSE /\ bo' = [bo EXCEPT ![b].mmapRef = IF @ = 0 THEN 0 ELSE @ - 1]
            /\ UNCHANGED <<mmapVars, pc, arg, want>>
  /\ UNCHANGED <<cacheVars, tableVars, busy>>

-----------------------------------------------------------------------------
(* Names: drm_tegra_bo_get_name, drm_tegra_bo_from_name.                   *)

\* Whether b has a name is looked at without the lock.
GetName(t, b) ==
  /\ At(t, "idle")
  /\ app[b].refs > 0 /\ bo[b].name = None
  /\ Call(t, "naming", b)
  /\ UNCHANGED <<bo, cacheVars, mmapVars, tableVars, busy, app>>

\* The kernel has one name per buffer: a second thread is given the same.
InsertName(t) ==
  /\ At(t, "naming")
  /\ LET b == arg[t] IN
       IF bo[b].name # None THEN UNCHANGED <<bo, nameTable>>
       ELSE \E n \in Names :
              /\ nameTable[n] = None
              /\ nameTable' = [nameTable EXCEPT ![n] = b]
              /\ bo' = [bo EXCEPT ![b].name = n]
  /\ Return(t)
  /\ UNCHANGED <<cacheVars, mmapVars, handleTable, busy, app>>

\* lookup_bo of a buffer of our own: out of its bucket if it is in one, where
\* drm_tegra_reset_bo has already set the count that is then incremented.
Lookup(b) ==
  LET k == Bucket(b) IN
  IF k # None /\ b \in {list[k][i] : i \in DOMAIN list[k]}
    THEN /\ list' = [list EXCEPT ![k] = Without(@, {b})]
         /\ entries' = [entries EXCEPT ![k] = @ - 1]
         /\ Reset(b, 2)
    ELSE bo' = [bo EXCEPT ![b].ref = @ + 1] /\ UNCHANGED <<list, entries, mmapVars>>

\* Rule: a name that is opened is the X server's, and is not open already. The
\* object of an opened name has no list to be in (bo_list is never set up), and
\* looking it up a second time takes it for cached and follows a null pointer.
FromName(t, n) ==
  /\ At(t, "idle")
  /\ nameTable[n] # None => "reopen" \in Admits
  /\ LET b == nameTable[n] IN
       IF b = None
         THEN \E c \in Bos :
                /\ bo[c].kind = "free"
                /\ bo' = [bo EXCEPT ![c] = [NoBo EXCEPT !.kind = "opened", !.ref = 1,
                                              !.size = ServerSize, !.name = n]]
                /\ nameTable' = [nameTable EXCEPT ![n] = c]
                /\ Call(t, "opened", c)
                /\ UNCHANGED <<list, entries, mmapVars>>
         ELSE /\ IF bo[b].kind = "own" THEN Lookup(b) /\ Call(t, "opened", b)
                 ELSE Call(t, "crashed", None) /\ UNCHANGED <<bo, list, entries, mmapVars>>
              /\ UNCHANGED nameTable
  /\ UNCHANGED <<cacheTime, handleTable, busy, app>>

\* drm_tegra_bo_forbid_caching, which pqt_update_dri_pixbuf calls next.
Forbid(t) ==
  /\ At(t, "opened")
  /\ bo' = [bo EXCEPT ![arg[t]].reuse = FALSE]
  /\ app' = [app EXCEPT ![arg[t]].refs = @ + 1]
  /\ Return(t)
  /\ UNCHANGED <<cacheVars, mmapVars, tableVars, busy>>

-----------------------------------------------------------------------------
(* The GPU and the clock.                                                  *)

\* The job that used b is done.
Finish(b) ==
  /\ b \in busy
  /\ busy' = busy \ {b}
  /\ UNCHANGED <<bo, cacheVars, mmapVars, tableVars, app, pc, arg, want>>

\* A second passes. Ages count while they are asked for: in a list.
Older(n, counts) == IF counts /\ n < Old THEN n + 1 ELSE n

Tick ==
  /\ bo' = [b \in Bos |-> [bo[b] EXCEPT !.freeAge = Older(@, Listed(b)),
                                        !.unmapAge = Older(@, bo[b].map = "cached")]]
  /\ cacheTime' = IF cacheTime = "zero" THEN "zero" ELSE "earlier"
  /\ mmapTime' = "earlier"
  /\ UNCHANGED <<list, entries, mmapList, mmaps, tableVars, busy, app, pc, arg, want>>

Next ==
  \/ \E t \in Threads :
       \/ NewFromCache(t) \/ NewMiss(t) \/ Create(t) \/ CreateFail(t) \/ Register(t)
       \/ FlushTake(t) \/ FlushFree(t) \/ FlushEnd(t) \/ Release(t) \/ InsertName(t) \/ Forbid(t)
       \/ \E b \in Bos : Ref(t, b) \/ Unref(t, b) \/ Map(t, b) \/ Unmap(t, b) \/ GetName(t, b)
       \/ \E n \in Names : FromName(t, n)
  \/ \E b \in Bos : Finish(b)
  \/ Tick

Spec == Init /\ [][Next]_vars

-----------------------------------------------------------------------------
(* Properties.                                                             *)

\* The variables have their types.
TypeOK ==
  /\ \A b \in Bos :
       /\ bo[b].kind \in {"free", "own", "opened"}
       /\ bo[b].ref \in 0..(MaxRefs + Cardinality(Threads)) /\ bo[b].mmapRef \in 0..MaxRefs
       /\ bo[b].map \in {"none", "mapped", "cached"}
       /\ bo[b].name \in Names \cup {None}
       /\ app[b].refs \in 0..MaxRefs /\ app[b].maps \in 0..MaxRefs
  /\ \A k \in Buckets : list[k] \in Seq(Bos) /\ entries[k] \in Nat /\ mmaps[k] \in Nat
  /\ mmapList \in Seq(Bos)
  /\ cacheTime \in {"zero", "now", "earlier"} /\ mmapTime \in {"now", "earlier"}
  /\ handleTable \subseteq Bos /\ busy \subseteq Bos
  /\ nameTable \in [Names -> Bos \cup {None}]
  /\ pc \in [Threads -> Steps] /\ arg \in [Threads -> Bos \cup {None}]

\* A buffer a caller holds is alive and counted, and nobody else can be given
\* it: it is in no bucket and no thread is about to free it.
HeldIsAlive ==
  \A b \in Bos : app[b].refs > 0 =>
    /\ bo[b].kind # "free" /\ bo[b].ref >= app[b].refs
    /\ ~Listed(b)
    /\ \A t \in Threads : arg[t] = b => pc[t] \in {"naming", "opened"}

\* A buffer is in use, or on its way to or from it, or in one bucket, once, or
\* freed: nothing is lost and nothing is in two places.
InOnePlace ==
  \A b \in Bos :
    LET places == {p \in Buckets \X (1..Cardinality(Bos)) :
                     p[2] \in DOMAIN list[p[1]] /\ list[p[1]][p[2]] = b}
        passing == {t \in Threads : arg[t] = b /\ pc[t] \in {"registering", "releasing", "opened"}}
    IN IF bo[b].kind = "free" THEN places = {} /\ passing = {}
       ELSE Cardinality(places) + Cardinality(passing) + (IF app[b].refs > 0 THEN 1 ELSE 0) = 1

\* A buffer has one owner, who finds it alive.
OneOwner == HeldIsAlive /\ InOnePlace

\* A caller gets what it asked for: large enough, and contiguous memory unless
\* it takes sparse memory, also when the buffer had another owner before.
FitsRequest ==
  \A b \in Bos : app[b].refs > 0 /\ bo[b].kind = "own" =>
    /\ bo[b].size >= app[b].size
    /\ SparseKernel => bo[b].sparse = app[b].sparse

\* num_entries and num_mmap_entries, by which the caches decide what to keep.
CountsAreExact ==
  \A k \in Buckets :
    /\ \A t \in Threads : pc[t] \notin FlushSteps => entries[k] = Len(list[k])
    /\ mmaps[k] = Cardinality({i \in DOMAIN mmapList : Bucket(mmapList[i]) = k})

\* What is mapped stays mapped while its owner uses the mapping, whatever the
\* mmap cache drops; what is in the mmap cache is nobody's.
MappedWhileUsed ==
  /\ \A b \in Bos : app[b].maps > 0 => bo[b].map = "mapped"
  /\ \A b \in Bos : (bo[b].map = "cached") <=> (\E i \in DOMAIN mmapList : mmapList[i] = b)

\* No large buffer and no mapping of one outlives the caches' time: the cleanups
\* look at the oldest first and stop at the first they keep.
NothingGetsOld ==
  /\ cacheTime = "now" =>
       \A b \in Bos : Listed(b) /\ bo[b].size > SmallSize => bo[b].freeAge < Old
  /\ mmapTime = "now" =>
       \A b \in Bos : bo[b].map = "cached" /\ bo[b].size > SmallSize => bo[b].unmapAge < Aged

\* The tables lead to live buffers, and back: a freed buffer is in no table.
TablesAreExact ==
  /\ \A b \in handleTable : bo[b].kind = "own"
  /\ \A b \in Bos : bo[b].kind = "own" =>
       b \in handleTable \/ \E t \in Threads : pc[t] = "registering" /\ arg[t] = b
  /\ \A n \in Names, b \in Bos : nameTable[n] = b <=> bo[b].name = n

\* What the caches and the tables say of the buffers is so.
BooksAgree == CountsAreExact /\ TablesAreExact

\* A buffer is in one place and its owner's, and the lists, counters and tables by
\* which it is found later say so.
OwnershipAgrees == OneOwner /\ BooksAgree

\* Its owner can use it: it is as large as was asked for, and stays mapped.
OwnerCanUse == FitsRequest /\ MappedWhileUsed
=============================================================================
