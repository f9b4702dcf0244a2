------------------------ MODULE FramePipelineProofs ------------------------
(***************************************************************************)
(* FramePipeline implements FrameStore, for any number of threads,         *)
(* surfaces, links and handles: sharing, swapping and recycling surfaces   *)
(* is invisible in the contents the application sees. What the handles     *)
(* lead to is known from SurfacesProofs.                                   *)
(***************************************************************************)
EXTENDS FramePipeline, SurfacesProofs

-----------------------------------------------------------------------------
(* The inductive invariant.                                                *)

Contents == Frames \cup {Torn}
Images == [frame : Frames \cup {Torn, Blank}, drawn : BOOLEAN]

PixelTypes == pix \in [Videos -> Contents] /\ img \in [Outputs -> Images \cup {Gone}]

\* A video surface that may be given to a new owner is shown nowhere.
ReusableIsUnlinked == \A v \in Videos : destroyed[v] => shared[v] = None

\* Nor is one that is being written; and who paints an output surface, or makes
\* one, finds no link on it but the one it resolves. What is drawn on is owned.
PixelsOf(t) ==
  /\ pc[t] \in Unowned \cup {"swapped", "writing"} /\ vid[t] # None => shared[vid[t]] = None
  /\ pc[t] = "created" /\ out[t] # None => img[out[t]] = Gone /\ shared[out[t]] = None
  /\ pc[t] = "composing" => shared[out[t]] = None
  /\ pc[t] = "drawing" /\ call[t] = "draw" /\ hold[t] = None => shared[out[t]] = None
  /\ call[t] = "draw" => HandleHolds(out[t])

PixelInv == PixelTypes /\ ReusableIsUnlinked /\ \A t \in Threads : PixelsOf(t)
PInv == IInv /\ PixelInv

\* An application that keeps a video surface while it is shown, and memory enough.
Granted == AllocMayFail = FALSE /\ KeepsLinkedVideo = TRUE

-----------------------------------------------------------------------------
(* What the handles show.                                                  *)

LEMMA HandleIs ==
  ASSUME IInv, NEW h \in open \cap Slots
  PROVE  /\ table[h] \in Surfaces /\ Lookup(h) = table[h]
         /\ id[table[h]] = h /\ HandleHolds(table[h])
  BY SurfacesAssumption DEF IInv, TypeOK, HandleInv, HandleHolds, Lookup

LEMMA OwnedIs ==
  ASSUME IInv, NEW h \in Slots, NEW kind \in {Videos, Outputs}
  PROVE  Owned(h, kind) <=> h \in open /\ table[h] \in kind
<1>1. h \in open => Lookup(h) = table[h]  BY HandleIs
<1> QED  BY <1>1 DEF Owned

\* The surface of a call that is not about to let it go has a handle.
LEMMA HolderIs ==
  ASSUME IInv, NEW t \in Threads, NEW s \in Surfaces, s \in {vid[t], out[t]}, HandleHolds(s),
         pc[t] \notin Unowned \cup {"unref"}, call[t] # "display"
  PROVE  id[s] \in open \cap Slots /\ table[id[s]] = s
<1> SUFFICES ASSUME NEW u \in Threads, pc[u] \in Unowned, Created(u) = s PROVE FALSE
  BY DEF IInv, OwnedInv
<1>1. pc[u] \in Exclusive /\ u # t  BY DEF Unowned, Exclusive
<1> QED  BY <1>1 DEF IInv, OwnerInv

\* A handle that stays open leads to the same surface.
LEMMA HandleKept ==
  ASSUME IInv, IInv', NEW h \in Slots, table'[h] \in {table[h], None}, h \in open, h \in open'
  PROVE  table'[h] = table[h]
  BY DEF IInv, HandleInv

\* The content of surface s stays.
Alike(s) == /\ s \in Videos => FrameOf(s)' = FrameOf(s)
            /\ s \in Outputs => PictureOf(s)' = PictureOf(s)

SeenAlike(h) == FramesSeen'[h] = FramesSeen[h] /\ PicturesSeen'[h] = PicturesSeen[h]

LEMMA SeenIs ==
  ASSUME IInv, NEW h \in Slots
  PROVE  /\ FramesSeen[h] = IF h \in open /\ table[h] \in Videos THEN FrameOf(table[h]) ELSE Gone
         /\ PicturesSeen[h] = IF h \in open /\ table[h] \in Outputs THEN PictureOf(table[h])
                              ELSE Gone
<1>1. h \in open => Lookup(h) = table[h]  BY HandleIs
<1>2. (Owned(h, Videos) <=> h \in open /\ table[h] \in Videos)
      /\ (Owned(h, Outputs) <=> h \in open /\ table[h] \in Outputs)
  BY OwnedIs
<1> QED  BY <1>1, <1>2 DEF FramesSeen, PicturesSeen

SeenRule ==
  \A h \in Slots :
    /\ FramesSeen[h] = IF h \in open /\ table[h] \in Videos THEN FrameOf(table[h]) ELSE Gone
    /\ PicturesSeen[h] = IF h \in open /\ table[h] \in Outputs THEN PictureOf(table[h])
                         ELSE Gone

LEMMA SeenRuleHolds == IInv => SeenRule
  BY SeenIs DEF SeenRule

LEMMA SeenIsNext == IInv' => SeenRule'
<1>1. (IInv => SeenRule)'  BY SeenRuleHolds, PTL
<1> QED  BY <1>1

LEMMA HandleAlike ==
  ASSUME IInv, IInv', NEW h \in Slots, table'[h] \in {table[h], None},
         h \in open <=> h \in open', h \in open => Alike(table[h])
  PROVE  SeenAlike(h)
<1>1. CASE h \in open
  <2>1. table'[h] = table[h]  BY <1>1, HandleKept
  <2> QED  BY <1>1, <2>1, SeenIs, SeenIsNext DEF SeenRule, SeenAlike, Alike, FrameOf, PictureOf,
           BeingWritten, BeingComposed
<1>2. CASE h \notin open  BY <1>2, SeenIs, SeenIsNext DEF SeenRule, SeenAlike
<1> QED  BY <1>1, <1>2

\* No handle shows a change.
LEMMA NothingShown ==
  ASSUME IInv, IInv', \A k \in Slots : table'[k] \in {table[k], None},
         open' \cap Slots = open \cap Slots,
         \A h \in open \cap Slots : Alike(table[h])
  PROVE  UNCHANGED <<FramesSeen, PicturesSeen>>
<1>1. ASSUME NEW h \in Slots PROVE SeenAlike(h)
  <2>1. h \in open <=> h \in open'  OBVIOUS
  <2> QED  BY <2>1, HandleAlike
<1> QED  BY <1>1 DEF SeenAlike, FramesSeen, PicturesSeen

LEMMA NothingSeen ==
  ASSUME IInv, IInv', \A k \in Slots : table'[k] \in {table[k], None},
         open' \cap Slots = open \cap Slots,
         \A s \in Surfaces : HandleHolds(s) => Alike(s)
  PROVE  UNCHANGED <<FramesSeen, PicturesSeen>>
<1>1. \A h \in open \cap Slots : Alike(table[h])  BY HandleIs
<1> QED  BY <1>1, NothingShown

\* The handle of surface s shows the change, no other one does.
LEMMA OneSeen ==
  ASSUME IInv, IInv', \A k \in Slots : table'[k] \in {table[k], None},
         open' \cap Slots = open \cap Slots,
         NEW s \in Surfaces, id[s] \in open \cap Slots, table[id[s]] = s,
         \A r \in Surfaces : r # s /\ HandleHolds(r) => Alike(r)
  PROVE  /\ s \in Videos => /\ FramesSeen[id[s]] = FrameOf(s) /\ UNCHANGED PicturesSeen
                            /\ FramesSeen' = [FramesSeen EXCEPT ![id[s]] = FrameOf(s)']
         /\ s \in Outputs => /\ PicturesSeen[id[s]] = PictureOf(s) /\ UNCHANGED FramesSeen
                             /\ PicturesSeen' = [PicturesSeen EXCEPT ![id[s]] = PictureOf(s)']
<1> DEFINE h == id[s]
<1>1. ASSUME NEW k \in Slots, k # h PROVE SeenAlike(k)
  <2>1. k \in open <=> k \in open'  OBVIOUS
  <2>2. k \in open => Alike(table[k])  BY <1>1, HandleIs
  <2> QED  BY <2>1, <2>2, HandleAlike
<1>2. PICK b \in Slots : b = h  OBVIOUS
<1>3. b \in open /\ b \in open' /\ table[b] = s /\ table'[b] = s
  <2>1. b \in open /\ b \in open' /\ table[b] = s  BY <1>2
  <2> QED  BY <2>1, HandleKept
<1>4. CASE s \in Videos
  <2>1. s \notin Outputs  BY <1>4, SurfacesAssumption
  <2>2. FramesSeen[b] = FrameOf(s) /\ PicturesSeen[b] = Gone  BY <1>3, <1>4, <2>1, SeenIs
  <2>3. FramesSeen'[b] = FrameOf(s)' /\ PicturesSeen'[b] = Gone
    BY <1>3, <1>4, <2>1, SeenIsNext DEF SeenRule, FrameOf, BeingWritten
  <2>4. \A k \in Slots : PicturesSeen'[k] = PicturesSeen[k]  BY <1>1, <1>2, <2>2, <2>3 DEF SeenAlike
  <2>5. \A k \in Slots : FramesSeen'[k] = IF k = b THEN FrameOf(s)' ELSE FramesSeen[k]
    BY <1>1, <1>2, <2>3 DEF SeenAlike
  <2>6. UNCHANGED PicturesSeen  BY <2>4 DEF PicturesSeen
  <2>7. FramesSeen' = [FramesSeen EXCEPT ![b] = FrameOf(s)']  BY <2>5 DEF FramesSeen
  <2> QED  BY <1>2, <1>4, <2>1, <2>2, <2>6, <2>7
<1>5. CASE s \in Outputs
  <2>1. s \notin Videos  BY <1>5, SurfacesAssumption
  <2>2. PicturesSeen[b] = PictureOf(s) /\ FramesSeen[b] = Gone  BY <1>3, <1>5, <2>1, SeenIs
  <2>3. PicturesSeen'[b] = PictureOf(s)' /\ FramesSeen'[b] = Gone
    BY <1>3, <1>5, <2>1, SeenIsNext DEF SeenRule, PictureOf, BeingComposed
  <2>4. \A k \in Slots : FramesSeen'[k] = FramesSeen[k]  BY <1>1, <1>2, <2>2, <2>3 DEF SeenAlike
  <2>5. \A k \in Slots : PicturesSeen'[k] = IF k = b THEN PictureOf(s)' ELSE PicturesSeen[k]
    BY <1>1, <1>2, <2>3 DEF SeenAlike
  <2>6. UNCHANGED FramesSeen  BY <2>4 DEF FramesSeen
  <2>7. PicturesSeen' = [PicturesSeen EXCEPT ![b] = PictureOf(s)']  BY <2>5 DEF PicturesSeen
  <2> QED  BY <1>2, <1>5, <2>1, <2>2, <2>6, <2>7
<1> QED  BY <1>4, <1>5 DEF Surfaces

-----------------------------------------------------------------------------
(* When the content of a surface stays.                                    *)

\* Whether a thread that moves writes, or composes, a surface.
Writes(t, v) == vid[t] = v /\ pc[t] \in {"swapped", "writing"}
Composes(t, d) == out[t] = d /\ pc[t] = "composing"

LEMMA FrameKept ==
  ASSUME NEW t \in Threads, OthersKeep(t), NEW v, pix'[v] = pix[v],
         Writes(t, v)' <=> Writes(t, v)
  PROVE  FrameOf(v)' = FrameOf(v)
<1>1. BeingWritten(v)' <=> BeingWritten(v)  BY DEF BeingWritten, Writes, OthersKeep
<1> QED  BY <1>1 DEF FrameOf

\* The source of the picture on an output surface.
LEMMA SourceIs ==
  ASSUME IInv, NEW d \in Outputs, shared[d] # None
  PROVE  /\ shared[d] \in Links /\ link[shared[d]].refcnt # 0
         /\ link[shared[d]].video \in Videos /\ link[shared[d]].disp = d
         /\ shared[link[shared[d]].video] = shared[d]
  BY LinkEnds DEF IInv, TypeOK, LinkInv, Surfaces

LEMMA PictureKept ==
  ASSUME NEW t \in Threads, OthersKeep(t), NEW d, Composes(t, d)' <=> Composes(t, d),
         shared'[d] = shared[d],
         shared[d] # None => LET l == shared[d] IN
           link'[l].video = link[l].video /\ pix'[link[l].video] = pix[link[l].video],
         shared[d] = None => img'[d] = img[d]
  PROVE  PictureOf(d)' = PictureOf(d)
<1>1. BeingComposed(d)' <=> BeingComposed(d)  BY DEF BeingComposed, Composes, OthersKeep
<1> QED  BY <1>1 DEF PictureOf, Picture

-----------------------------------------------------------------------------
(* What most steps have in common.                                         *)

LEMMA SettleTable ==
  ASSUME NEW rc, NEW ids, Settle(rc, table, ids)
  PROVE  \A k \in Slots : table'[k] \in {table[k], None}
  BY DEF Settle

\* Thread t moves.
Moves(t) == OthersKeep(t) /\ \A u \in Threads \ {t} : call'[u] = call[u] /\ hold'[u] = hold[u]

\* A step that links nothing keeps the invariant of the other threads.
LEMMA PixelsKept ==
  ASSUME PInv, NEW t \in Threads, Moves(t),
         \A s \in Surfaces : shared'[s] \in {shared[s], None},
         \A v \in Videos : destroyed'[v] => destroyed[v] \/ shared'[v] = None,
         \A d \in Outputs : \/ img'[d] = img[d]
                            \/ \A u \in Threads \ {t} : pc[u] = "created" => out[u] # d,
         \A d \in Outputs : \/ HandleHolds(d) => HandleHolds(d)'
                            \/ \A u \in Threads \ {t} : call[u] = "draw" => out[u] # d,
         PixelTypes', PixelsOf(t)'
  PROVE  PixelInv'
<1>1. ReusableIsUnlinked'  BY DEF PInv, PixelInv, ReusableIsUnlinked, Surfaces
<1>2. ASSUME NEW u \in Threads \ {t} PROVE PixelsOf(u)'
  <2>1. PixelsOf(u)  BY DEF PInv, PixelInv
  <2>2. /\ vid'[u] = vid[u] /\ out'[u] = out[u] /\ pc'[u] = pc[u] /\ call'[u] = call[u]
        /\ hold'[u] = hold[u]
    BY DEF Moves, OthersKeep
  <2>3. /\ vid[u] \in Videos \cup {None} /\ out[u] \in Outputs \cup {None}
        /\ pc[u] \in {"composing", "drawing"} => out[u] # None
        /\ call[u] = "draw" => out[u] # None
    BY DEF PInv, IInv, TypeOK, CallInv
  <2>4. \A s \in Surfaces : shared[s] = None => shared'[s] = None  OBVIOUS
  <2> QED  BY <2>1, <2>2, <2>3, <2>4 DEF PixelsOf, Surfaces
<1> QED  BY <1>1, <1>2 DEF PixelInv

\* A step that touches no pixels, no link and no surface being painted.
Quiet(t) ==
  /\ Moves(t) /\ UNCHANGED <<pix, img, shared>>
  /\ \A l \in Links : link'[l].video = link[l].video
  /\ \A v \in Videos : destroyed'[v] => destroyed[v] \/ shared[v] = None
  /\ \A d \in Outputs : \/ HandleHolds(d) => HandleHolds(d)'
                        \/ \A u \in Threads \ {t} : call[u] = "draw" => out[u] # d
  /\ pc[t] \notin {"swapped", "writing", "composing"}
  /\ pc'[t] \notin {"swapped", "writing", "composing"}

LEMMA QuietStep ==
  ASSUME PInv, NEW t \in Threads, Quiet(t), PixelsOf(t)'
  PROVE  PixelInv' /\ \A s \in Surfaces : Alike(s)
<1>1. PixelInv'
  <2>1. PixelTypes'  BY DEF Quiet, PInv, PixelInv, PixelTypes
  <2>2. \A s \in Surfaces : shared'[s] \in {shared[s], None}  BY DEF Quiet
  <2>3. \A v \in Videos : destroyed'[v] => destroyed[v] \/ shared'[v] = None  BY DEF Quiet
  <2>4. \A d \in Outputs : img'[d] = img[d]  BY DEF Quiet
  <2> QED  BY <2>1, <2>2, <2>3, <2>4, PixelsKept DEF Quiet
<1>2. OthersKeep(t)  BY DEF Quiet, Moves
<1>3. ASSUME NEW v \in Videos PROVE FrameOf(v)' = FrameOf(v)
  <2>1. pix'[v] = pix[v] /\ (Writes(t, v)' <=> Writes(t, v))  BY DEF Quiet, Writes
  <2> QED  BY <1>2, <2>1, FrameKept
<1>4. ASSUME NEW d \in Outputs PROVE PictureOf(d)' = PictureOf(d)
  <2>1. /\ Composes(t, d)' <=> Composes(t, d)
        /\ shared'[d] = shared[d] /\ img'[d] = img[d] /\ pix' = pix
    BY DEF Quiet, Composes
  <2>2. shared[d] # None => link'[shared[d]].video = link[shared[d]].video
    BY SourceIs DEF Quiet, PInv
  <2> QED  BY <1>2, <2>1, <2>2, PictureKept
<1> QED  BY <1>1, <1>3, <1>4 DEF Alike

\* What the application does not see.
Silent == PixelInv' /\ UNCHANGED <<FramesSeen, PicturesSeen>>

LEMMA QuietIsSilent ==
  ASSUME PInv, IInv', NEW t \in Threads, Quiet(t), PixelsOf(t)',
         \A k \in Slots : table'[k] \in {table[k], None}, UNCHANGED open
  PROVE  Silent
<1>1. IInv  BY DEF PInv
<1>2. PixelInv' /\ \A s \in Surfaces : Alike(s)  BY QuietStep
<1> QED  BY <1>1, <1>2, NothingSeen DEF Silent

\* A call that returns leaves nothing to say about it.
LEMMA ReturnIs ==
  ASSUME PInv, NEW t \in Threads, Return(t)
  PROVE  Moves(t) /\ PixelsOf(t)' /\ pc'[t] = "idle" /\ vid'[t] = None /\ out'[t] = None
<1>1. /\ \A u \in Threads \ {t} : /\ vid'[u] = vid[u] /\ out'[u] = out[u] /\ pc'[u] = pc[u]
                                  /\ call'[u] = call[u] /\ hold'[u] = hold[u]
      /\ pc'[t] = "idle" /\ call'[t] = "none" /\ vid'[t] = None /\ out'[t] = None
  BY DEF PInv, IInv, TypeOK, Return
<1> QED  BY <1>1 DEF Moves, OthersKeep, PixelsOf, Unowned

-----------------------------------------------------------------------------
(* Steps that the application does not see.                                *)

LEMMA FetchTargetSilent ==
  ASSUME PInv, IInv', NEW t \in Threads, NEW c \in {"decode", "put_bits"}, FetchTarget(t, c),
         UNCHANGED <<pix, img>>
  PROVE  Silent
<1>1. /\ pc[t] = "idle" /\ pc' = [pc EXCEPT ![t] = "fetched"] /\ call' = [call EXCEPT ![t] = c]
      /\ \E h : vid' = [vid EXCEPT ![t] = h]
      /\ UNCHANGED <<table, destroyed, detached, shared, link, out, hold, open>>
  BY DEF FetchTarget, Idle, Enter
<1>2. Moves(t) /\ pc'[t] = "fetched" /\ call'[t] = c
  BY <1>1 DEF PInv, IInv, TypeOK, Moves, OthersKeep
<1>3. PixelsOf(t)'  BY <1>2 DEF PixelsOf, Unowned
<1>4. Quiet(t)  BY <1>1, <1>2 DEF Quiet, HandleHolds
<1> QED  BY <1>1, <1>3, <1>4, QuietIsSilent

LEMMA WriteRejectedSilent ==
  ASSUME PInv, IInv', NEW t \in Threads, WriteRejected(t), UNCHANGED <<pix, img>>
  PROVE  Silent
<1>1. /\ pc[t] = "fetched" /\ Return(t) /\ \E rc : Settle(rc, table, id)
      /\ UNCHANGED <<destroyed, detached, shared, link, open>>
  BY DEF WriteRejected
<1>2. Moves(t) /\ PixelsOf(t)' /\ pc'[t] = "idle"  BY <1>1, ReturnIs
<1>3. Quiet(t)  BY <1>1, <1>2 DEF Quiet, HandleHolds
<1> QED  BY <1>1, <1>2, <1>3, SettleTable, QuietIsSilent

LEMMA FetchMixSilent ==
  ASSUME PInv, IInv', NEW t \in Threads, FetchMix(t), UNCHANGED <<pix, img>>
  PROVE  Silent
<1>1. /\ pc[t] = "idle" /\ pc' = [pc EXCEPT ![t] = "mix_fetched"]
      /\ call' = [call EXCEPT ![t] = "mix"]
      /\ (\E h : vid' = [vid EXCEPT ![t] = h]) /\ \E h : out' = [out EXCEPT ![t] = h]
      /\ UNCHANGED <<table, destroyed, detached, shared, link, hold, open>>
  BY DEF FetchMix, Idle, Enter
<1>2. Moves(t) /\ pc'[t] = "mix_fetched" /\ call'[t] = "mix"
  BY <1>1 DEF PInv, IInv, TypeOK, Moves, OthersKeep
<1>3. PixelsOf(t)'  BY <1>2 DEF PixelsOf, Unowned
<1>4. Quiet(t)  BY <1>1, <1>2 DEF Quiet, HandleHolds
<1> QED  BY <1>1, <1>3, <1>4, QuietIsSilent

LEMMA FetchOutputSilent ==
  ASSUME PInv, IInv', NEW t \in Threads, NEW c \in {"draw", "display"}, FetchOutput(t, c),
         UNCHANGED <<pix, img>>
  PROVE  Silent
<1>1. PICK h \in open :
        /\ Lookup(h) \in Outputs /\ out' = [out EXCEPT ![t] = Lookup(h)]
        /\ pc[t] = "idle" /\ pc' = [pc EXCEPT ![t] = "draw_fetched"]
        /\ call' = [call EXCEPT ![t] = c]
        /\ UNCHANGED <<table, destroyed, detached, shared, link, vid, hold, open>>
  BY DEF FetchOutput, Idle, Enter
<1>2. Moves(t) /\ pc'[t] = "draw_fetched" /\ call'[t] = c /\ out'[t] = Lookup(h)
  BY <1>1 DEF PInv, IInv, TypeOK, Moves, OthersKeep
<1>3. HandleHolds(Lookup(h))
  <2>1. h \in Slots  BY <1>1, SurfacesAssumption DEF Lookup, Surfaces
  <2> QED  BY <2>1, HandleIs DEF PInv
<1>4. PixelsOf(t)'  BY <1>1, <1>2, <1>3 DEF PixelsOf, Unowned, HandleHolds
<1>5. Quiet(t)  BY <1>1, <1>2 DEF Quiet, HandleHolds
<1> QED  BY <1>1, <1>4, <1>5, QuietIsSilent

LEMMA DrawLockSilent ==
  ASSUME PInv, IInv', NEW t \in Threads, DrawLock(t), UNCHANGED <<pix, img>>
  PROVE  Silent
<1>1. /\ pc[t] = "draw_fetched" /\ pc' = [pc EXCEPT ![t] = "drawing"]
      /\ IF call[t] = "draw" /\ shared[out[t]] # None
         THEN /\ hold' = [hold EXCEPT ![t] = shared[out[t]]]
              /\ link' = [link EXCEPT ![shared[out[t]]].refcnt = @ + 1]
         ELSE UNCHANGED <<hold, link>>
      /\ UNCHANGED <<table, destroyed, detached, shared, call, vid, out, open>>
  BY DEF DrawLock, Goto
<1>2. Moves(t) /\ pc'[t] = "drawing"
  BY <1>1 DEF PInv, IInv, TypeOK, Moves, OthersKeep
<1>3. PixelsOf(t)'
  <2>1. call[t] = "draw" => HandleHolds(out[t])  BY DEF PInv, PixelInv, PixelsOf
  <2>2. call[t] = "draw" /\ shared[out[t]] # None => hold'[t] # None
    BY <1>1 DEF PInv, IInv, TypeOK
  <2> QED  BY <1>1, <1>2, <2>1, <2>2 DEF PixelsOf, Unowned, HandleHolds
<1>4. \A l \in Links : link'[l].video = link[l].video
  BY <1>1 DEF PInv, IInv, TypeOK
<1>5. Quiet(t)  BY <1>1, <1>2, <1>4 DEF Quiet, HandleHolds
<1> QED  BY <1>1, <1>3, <1>5, QuietIsSilent

LEMMA DisplayDoneSilent ==
  ASSUME PInv, IInv', NEW t \in Threads, DisplayDone(t), UNCHANGED <<pix, img>>
  PROVE  Silent
<1>1. /\ pc[t] = "drawing" /\ Return(t) /\ \E rc : Settle(rc, table, id)
      /\ UNCHANGED <<destroyed, detached, shared, link, open>>
  BY DEF DisplayDone
<1>2. Moves(t) /\ PixelsOf(t)' /\ pc'[t] = "idle"  BY <1>1, ReturnIs
<1>3. Quiet(t)  BY <1>1, <1>2 DEF Quiet, HandleHolds
<1> QED  BY <1>1, <1>2, <1>3, SettleTable, QuietIsSilent

LEMMA FinishDestroySilent ==
  ASSUME PInv, IInv', NEW t \in Threads, FinishDestroy(t), UNCHANGED <<pix, img>>
  PROVE  Silent
<1>1. /\ pc[t] = "unref" /\ Return(t) /\ \E rc : Settle(rc, table, id)
      /\ UNCHANGED <<destroyed, detached, shared, link, open>>
  BY DEF FinishDestroy
<1>2. Moves(t) /\ PixelsOf(t)' /\ pc'[t] = "idle"  BY <1>1, ReturnIs
<1>3. Quiet(t)  BY <1>1, <1>2 DEF Quiet, HandleHolds
<1> QED  BY <1>1, <1>2, <1>3, SettleTable, QuietIsSilent

LEMMA RegisterFailSilent ==
  ASSUME PInv, IInv', NEW t \in Threads, RegisterFail(t), UNCHANGED <<pix, img>>
  PROVE  Silent
<1>1. /\ pc[t] = "created" /\ pc' = [pc EXCEPT ![t] = "destroying"]
      /\ UNCHANGED <<table, destroyed, detached, shared, link, call, vid, out, hold, open>>
  BY DEF RegisterFail, Goto
<1>2. Moves(t) /\ pc'[t] = "destroying"
  BY <1>1 DEF PInv, IInv, TypeOK, Moves, OthersKeep
<1>3. PixelsOf(t)'
  BY <1>1, <1>2 DEF PInv, PixelInv, PixelsOf, Unowned, HandleHolds
<1>4. Quiet(t)  BY <1>1, <1>2 DEF Quiet, HandleHolds
<1> QED  BY <1>1, <1>3, <1>4, QuietIsSilent

LEMMA ReleaseCacheSilent ==
  ASSUME PInv, IInv', ReleaseCache, UNCHANGED <<pix, img>>
  PROVE  Silent
<1>1. /\ \E rc : Settle(rc, table, id)
      /\ UNCHANGED <<destroyed, detached, shared, link, lock, call, pc, vid, out, hold, open>>
  BY DEF ReleaseCache
<1>2. PixelInv'
  BY <1>1 DEF PInv, PixelInv, PixelTypes, ReusableIsUnlinked, PixelsOf, HandleHolds
<1>3. \A s \in Surfaces : Alike(s)
  BY <1>1 DEF Alike, FrameOf, PictureOf, BeingWritten, BeingComposed
<1> QED  BY <1>1, <1>2, <1>3, SettleTable, NothingSeen DEF Silent, PInv

\* A new object is nobody's yet, and is shown nowhere.
LEMMA CreateVideoSilent ==
  ASSUME PInv, IInv', Granted, NEW t \in Threads, PCreateVideo(t)
  PROVE  Silent
<1>1. PICK n \in Videos, dropped \in SUBSET cache :
        /\ AllocVideo(n, dropped)
        /\ destroyed' = [destroyed EXCEPT ![n] = FALSE]
        /\ vid' = [vid EXCEPT ![t] = n]
        /\ \E rc : Settle(rc, table, id)
  BY DEF PCreateVideo, CreateVideo
<1>2. /\ pc[t] = "idle" /\ pc' = [pc EXCEPT ![t] = "created"]
      /\ call' = [call EXCEPT ![t] = "create"]
      /\ UNCHANGED <<detached, shared, link, out, hold, open, img>>
      /\ pix' = [pix EXCEPT ![vid'[t]] = IF refcnt[vid'[t]] = 0 THEN Torn ELSE @]
  BY DEF PCreateVideo, CreateVideo, Idle, Enter
<1>3. Moves(t) /\ pc'[t] = "created" /\ call'[t] = "create" /\ vid'[t] = n /\ out'[t] = None
  BY <1>1, <1>2 DEF PInv, IInv, TypeOK, CallInv, Moves, OthersKeep
<1>4. destroyed[n] /\ ~HandleHolds(n) /\ shared[n] = None
  <2>1. destroyed[n] /\ ~HandleHolds(n)  BY <1>1, VideoChosen DEF PInv
  <2> QED  BY <2>1 DEF PInv, PixelInv, ReusableIsUnlinked
<1>5. pix' \in [Videos -> Contents] /\ \A v \in Videos : v # n => pix'[v] = pix[v]
  BY <1>2, <1>3 DEF PInv, PixelInv, PixelTypes, Contents
<1>6. PixelInv'
  <2>1. PixelTypes'  BY <1>2, <1>5 DEF PInv, PixelInv, PixelTypes
  <2>2. PixelsOf(t)'  BY <1>2, <1>3, <1>4 DEF PixelsOf, Unowned
  <2>3. /\ \A s \in Surfaces : shared'[s] \in {shared[s], None}
        /\ \A d \in Outputs : img'[d] = img[d]
    BY <1>2
  <2>4. \A s \in Surfaces : destroyed'[s] => destroyed[s]
    BY <1>1 DEF PInv, IInv, TypeOK
  <2>5. \A d \in Outputs : HandleHolds(d) => HandleHolds(d)'
    BY <1>2, <2>4 DEF HandleHolds, Surfaces, PInv, IInv, TypeOK
  <2> QED  BY <1>3, <2>1, <2>2, <2>3, <2>4, <2>5, PixelsKept DEF Surfaces
<1>7. ASSUME NEW s \in Surfaces, HandleHolds(s) PROVE Alike(s)
  <2>1. OthersKeep(t) /\ s # n  BY <1>3, <1>4, <1>7 DEF Moves
  <2>2. s \in Videos => FrameOf(s)' = FrameOf(s)
    <3>1. Writes(t, s)' <=> Writes(t, s)  BY <1>2, <1>3 DEF Writes
    <3> QED  BY <1>5, <2>1, <3>1, FrameKept
  <2>3. s \in Outputs => PictureOf(s)' = PictureOf(s)
    <3>1. Composes(t, s)' <=> Composes(t, s)  BY <1>2, <1>3 DEF Composes
    <3>2. ASSUME s \in Outputs, shared[s] # None
          PROVE  pix'[link[shared[s]].video] = pix[link[shared[s]].video]
      BY <1>4, <1>5, <3>2, SourceIs DEF PInv
    <3> QED  BY <1>2, <2>1, <3>1, <3>2, PictureKept
  <2> QED  BY <2>2, <2>3 DEF Alike
<1> QED  BY <1>1, <1>2, <1>6, <1>7, SettleTable, NothingSeen DEF Silent, PInv

LEMMA CreateOutputSilent ==
  ASSUME PInv, IInv', NEW t \in Threads, PCreateOutput(t)
  PROVE  Silent
<1>1. PICK n \in Outputs :
        /\ refcnt[n] = 0
        /\ destroyed' = [destroyed EXCEPT ![n] = FALSE]
        /\ out' = [out EXCEPT ![t] = n]
  BY DEF PCreateOutput, CreateOutput
<1>2. /\ pc[t] = "idle" /\ pc' = [pc EXCEPT ![t] = "created"]
      /\ call' = [call EXCEPT ![t] = "create"]
      /\ UNCHANGED <<table, detached, shared, link, vid, hold, open, pix>>
      /\ img' = [img EXCEPT ![out'[t]] = Gone]
  BY DEF PCreateOutput, CreateOutput, Idle, Enter
<1>3. Moves(t) /\ pc'[t] = "created" /\ call'[t] = "create" /\ out'[t] = n /\ vid'[t] = None
  BY <1>1, <1>2 DEF PInv, IInv, TypeOK, CallInv, Moves, OthersKeep
<1>4. ~HandleHolds(n) /\ shared[n] = None /\ \A u \in Threads : n \notin {vid[u], out[u]}
  <2>1. n \in Surfaces  BY DEF Surfaces
  <2> QED  BY <1>1, <2>1, FreeSurface DEF PInv
<1>5. /\ img' \in [Outputs -> Images \cup {Gone}] /\ img'[n] = Gone
      /\ \A d \in Outputs : d # n => img'[d] = img[d]
  BY <1>2, <1>3 DEF PInv, PixelInv, PixelTypes
<1>6. PixelInv'
  <2>1. PixelTypes'  BY <1>2, <1>5 DEF PInv, PixelInv, PixelTypes
  <2>2. PixelsOf(t)'  BY <1>2, <1>3, <1>4, <1>5 DEF PixelsOf, Unowned
  <2>3. \A d \in Outputs : img'[d] = img[d] \/ \A u \in Threads \ {t} : out[u] # d
    BY <1>4, <1>5
  <2>4. \A s \in Surfaces : destroyed'[s] => destroyed[s]
    BY <1>1 DEF PInv, IInv, TypeOK
  <2>5. \A d \in Outputs : HandleHolds(d) => HandleHolds(d)'
    BY <1>2, <2>4 DEF HandleHolds, Surfaces, PInv, IInv, TypeOK
  <2> QED  BY <1>2, <1>3, <2>1, <2>2, <2>3, <2>4, <2>5, PixelsKept DEF Surfaces
<1>7. ASSUME NEW s \in Surfaces, HandleHolds(s) PROVE Alike(s)
  <2>1. OthersKeep(t) /\ s # n  BY <1>3, <1>4, <1>7 DEF Moves
  <2>2. s \in Videos => FrameOf(s)' = FrameOf(s)
    <3>1. Writes(t, s)' <=> Writes(t, s)  BY <1>2, <1>3 DEF Writes
    <3> QED  BY <1>2, <2>1, <3>1, FrameKept
  <2>3. s \in Outputs => PictureOf(s)' = PictureOf(s)
    <3>1. Composes(t, s)' <=> Composes(t, s)  BY <1>2, <1>3 DEF Composes
    <3> QED  BY <1>2, <1>5, <2>1, <3>1, PictureKept
  <2> QED  BY <2>2, <2>3 DEF Alike
<1> QED  BY <1>2, <1>6, <1>7, NothingSeen DEF Silent, PInv

-----------------------------------------------------------------------------
(* Writing a video surface.                                                *)

\* A call that writes has its surface for itself.
LEMMA WriterIs ==
  ASSUME PInv, NEW t \in Threads, pc[t] \in Writing
  PROVE  /\ vid[t] \in Videos /\ out[t] = None /\ HandleHolds(vid[t])
         /\ id[vid[t]] \in open \cap Slots /\ table[id[vid[t]]] = vid[t]
         /\ \A u \in Threads \ {t} : ~Writes(u, vid[t])
         /\ pc[t] # "fetched" => shared[vid[t]] = None
<1>1. IInv /\ PixelsOf(t)  BY DEF PInv, PixelInv
<1>2. vid[t] \in Videos /\ out[t] = None
  BY <1>1 DEF IInv, TypeOK, CallInv, Writing
<1>3. pc[t] \in Exclusive /\ Created(t) = vid[t]
  BY <1>2, SurfacesAssumption DEF Writing, Exclusive, Created, Surfaces
<1>4. \A u \in Threads \ {t} : ~Writes(u, vid[t])
  <2> SUFFICES ASSUME NEW u \in Threads \ {t}, Writes(u, vid[t]) PROVE FALSE
    OBVIOUS
  <2>1. pc[u] = "unref" \/ call[u] = "display"
    BY <1>1, <1>3 DEF IInv, OwnerInv, Writes
  <2>2. pc[u] \in {"swapped", "writing"}  BY DEF Writes
  <2> QED  BY <1>1, <2>1, <2>2 DEF IInv, CallInv
<1>5. HandleHolds(vid[t]) /\ id[vid[t]] \in open \cap Slots /\ table[id[vid[t]]] = vid[t]
  BY <1>1, <1>3 DEF IInv, OwnerInv
<1>6. pc[t] # "fetched" => shared[vid[t]] = None
  BY <1>1, <1>2, SurfacesAssumption DEF PixelsOf, Writing, Surfaces
<1> QED  BY <1>2, <1>4, <1>5, <1>6

\* What is done to a surface that is shown nowhere is not seen on any other.
LEMMA WriteIsLocal ==
  ASSUME PInv, NEW t \in Threads, OthersKeep(t), pc[t] \in Writing, shared[vid[t]] = None,
         UNCHANGED <<shared, link, img>>, vid'[t] \in {vid[t], None}, out'[t] = None,
         \A v \in Videos : v # vid[t] => pix'[v] = pix[v]
  PROVE  \A s \in Surfaces : s # vid[t] => Alike(s)
<1> SUFFICES ASSUME NEW s \in Surfaces, s # vid[t] PROVE Alike(s)
  OBVIOUS
<1>1. vid[t] \in Videos /\ out[t] = None  BY WriterIs
<1>2. s \in Videos => FrameOf(s)' = FrameOf(s)
  <2>1. s \in Videos => ~Writes(t, s) /\ ~Writes(t, s)'
    BY SurfacesAssumption DEF Writes, Surfaces
  <2> QED  BY <2>1, FrameKept
<1>3. s \in Outputs => PictureOf(s)' = PictureOf(s)
  <2>1. s \in Outputs => ~Composes(t, s) /\ ~Composes(t, s)'
    BY <1>1, SurfacesAssumption DEF Composes, Surfaces
  <2>2. ASSUME s \in Outputs, shared[s] # None
        PROVE  pix'[link[shared[s]].video] = pix[link[shared[s]].video]
    <3>1. link[shared[s]].video \in Videos /\ link[shared[s]].video # vid[t]
      BY <2>2, SourceIs DEF PInv
    <3> QED  BY <3>1
  <2> QED  BY <2>1, <2>2, PictureKept
<1> QED  BY <1>2, <1>3 DEF Alike

\* The frame of a surface while a call writes it, and when it does not.
LEMMA FrameWhileWriting ==
  ASSUME NEW t \in Threads, NEW v
  PROVE  /\ Writes(t, v) => FrameOf(v) = Torn
         /\ (\A u \in Threads : ~Writes(u, v)) => FrameOf(v) = pix[v]
  BY DEF Writes, FrameOf, BeingWritten

LEMMA FrameIsContent ==
  ASSUME PixelTypes, NEW v \in Videos
  PROVE  FrameOf(v) \in Contents
  BY DEF FrameOf, Contents, PixelTypes

LEMMA PictureIsImage ==
  ASSUME IInv, PixelTypes, NEW d \in Outputs
  PROVE  PictureOf(d) \in Images
<1>1. shared[d] # None => link[shared[d]].video \in Videos  BY SourceIs
<1> QED  BY <1>1 DEF PictureOf, Picture, Images, PixelTypes, Contents

WhileWritingRule ==
  \A t \in Threads, v \in Videos :
    /\ Writes(t, v) => FrameOf(v) = Torn
    /\ (\A u \in Threads : ~Writes(u, v)) => FrameOf(v) = pix[v]

LEMMA WhileWritingHolds == WhileWritingRule
  BY FrameWhileWriting DEF WhileWritingRule

LEMMA WhileWritingNext == WhileWritingRule'
  BY WhileWritingHolds, PTL

LEMMA SwapUnsharedSeen ==
  ASSUME PInv, IInv', NEW t \in Threads, SwapUnshared(t), UNCHANGED <<pix, img>>
  PROVE  PixelInv' /\ \E h \in Slots : Store!BeginWrite(h)
<1>1. /\ pc[t] = "fetched" /\ pc' = [pc EXCEPT ![t] = "swapped"] /\ shared[vid[t]] = None
      /\ UNCHANGED <<table, id, destroyed, detached, shared, link, call, vid, out, hold, open>>
  BY DEF SwapUnshared, Goto
<1>2. Moves(t) /\ pc'[t] = "swapped" /\ pc[t] \in Writing
  BY <1>1 DEF PInv, IInv, TypeOK, Moves, OthersKeep, Writing
<1>3. PICK v \in Videos : v = vid[t]  BY <1>2, WriterIs
<1>4. PICK h \in Slots : h = id[v]  BY <1>2, <1>3, WriterIs
<1>5. v \in Surfaces /\ out[t] = None /\ h \in open /\ table[h] = v
  BY <1>2, <1>3, <1>4, WriterIs DEF Surfaces
<1>6. PixelInv'
  <2>1. PixelTypes'  BY DEF PInv, PixelInv, PixelTypes
  <2>2. PixelsOf(t)'
    BY <1>1, <1>2 DEF PInv, PixelInv, PixelsOf, Unowned, HandleHolds
  <2>3. \A s \in Surfaces : HandleHolds(s) => HandleHolds(s)'  BY <1>1 DEF HandleHolds
  <2> QED  BY <1>1, <1>2, <2>1, <2>2, <2>3, PixelsKept DEF Surfaces
<1>7. \A s \in Surfaces : s # v => Alike(s)
  <2>1. OthersKeep(t)  BY <1>2 DEF Moves
  <2> QED  BY <1>1, <1>2, <1>3, <1>5, <2>1, WriteIsLocal
<1>8. /\ FramesSeen[h] = FrameOf(v) /\ UNCHANGED PicturesSeen
      /\ FramesSeen' = [FramesSeen EXCEPT ![h] = FrameOf(v)']
  <2>1. \A k \in Slots : table'[k] \in {table[k], None}  BY <1>1
  <2>2. IInv /\ open' = open  BY <1>1 DEF PInv
  <2> QED  BY <1>4, <1>5, <1>7, <2>1, <2>2, OneSeen
<1>9. FrameOf(v)' = Torn
  <2>1. Writes(t, v)'  BY <1>1, <1>2, <1>3 DEF Writes
  <2> QED  BY <2>1, WhileWritingNext DEF WhileWritingRule
<1>10. FramesSeen[h] # Gone  BY <1>8, FrameIsContent, PipelineAssumption DEF Contents, PInv, PixelInv
<1> QED  BY <1>6, <1>8, <1>9, <1>10 DEF Store!BeginWrite, Store!Exists

\* tegra_decoder starts to fill a surface that already counts as half written.
LEMMA BeginWriteSilent ==
  ASSUME PInv, IInv', NEW t \in Threads, PBeginWrite(t)
  PROVE  Silent
<1>1. /\ pc[t] = "swapped" /\ pc' = [pc EXCEPT ![t] = "writing"]
      /\ UNCHANGED <<destroyed, detached, shared, link, call, vid, out, hold, open, img>>
      /\ pix' = [pix EXCEPT ![vid[t]] = Torn]
      /\ \A k \in Slots : table'[k] \in {table[k], None}
  BY SettleTable DEF PBeginWrite, BeginWrite, Goto
<1>2. Moves(t) /\ pc'[t] = "writing" /\ pc[t] \in Writing
  BY <1>1 DEF PInv, IInv, TypeOK, Moves, OthersKeep, Writing
<1>3. PICK v \in Videos : v = vid[t]  BY <1>2, WriterIs
<1>4. /\ v \in Surfaces /\ out[t] = None /\ shared[v] = None
      /\ \A u \in Threads \ {t} : ~Writes(u, v)
  BY <1>1, <1>2, <1>3, WriterIs DEF Surfaces
<1>5. pix' \in [Videos -> Contents] /\ \A x \in Videos : x # v => pix'[x] = pix[x]
  BY <1>1, <1>3 DEF PInv, PixelInv, PixelTypes, Contents
<1>6. PixelInv'
  <2>1. PixelTypes'  BY <1>1, <1>5 DEF PInv, PixelInv, PixelTypes
  <2>2. PixelsOf(t)'
    BY <1>1, <1>2 DEF PInv, PixelInv, PixelsOf, Unowned, HandleHolds
  <2>3. \A s \in Surfaces : HandleHolds(s) => HandleHolds(s)'  BY <1>1 DEF HandleHolds
  <2> QED  BY <1>1, <1>2, <2>1, <2>2, <2>3, PixelsKept DEF Surfaces
<1>7. \A s \in Surfaces : s # v => Alike(s)
  <2>1. OthersKeep(t)  BY <1>2 DEF Moves
  <2> QED  BY <1>1, <1>2, <1>3, <1>4, <1>5, <2>1, WriteIsLocal
<1>8. Alike(v)
  <2>1. Writes(t, v) /\ Writes(t, v)'  BY <1>1, <1>2, <1>3 DEF Writes
  <2>2. FrameOf(v) = Torn  BY <2>1, FrameWhileWriting
  <2>3. FrameOf(v)' = Torn  BY <2>1, WhileWritingNext DEF WhileWritingRule
  <2>4. v \notin Outputs  BY SurfacesAssumption
  <2> QED  BY <2>2, <2>3, <2>4 DEF Alike
<1>9. \A s \in Surfaces : Alike(s)  BY <1>7, <1>8
<1> QED  BY <1>1, <1>6, <1>9, NothingSeen DEF Silent, PInv

LEMMA FinishWriteSeen ==
  ASSUME PInv, IInv', NEW t \in Threads, PFinishWrite(t)
  PROVE  /\ PixelInv'
         /\ UNCHANGED <<FramesSeen, PicturesSeen>> \/ \E h \in Slots : Store!EndWrite(h)
<1>1. /\ pc[t] = "writing" /\ Return(t)
      /\ UNCHANGED <<destroyed, detached, shared, link, open, img>>
      /\ \A k \in Slots : table'[k] \in {table[k], None}
  <2>1. \E rc : Settle(rc, table, id)  BY DEF PFinishWrite, FinishDecode, FinishPutBits
  <2> QED  BY <2>1, SettleTable DEF PFinishWrite, FinishDecode, FinishPutBits
<1>2. PICK f \in Contents : pix' = [pix EXCEPT ![vid[t]] = f]
  BY DEF PFinishWrite, Contents
<1>3. Moves(t) /\ PixelsOf(t)' /\ vid'[t] = None /\ out'[t] = None /\ pc[t] \in Writing
  BY <1>1, ReturnIs DEF Writing
<1>4. PICK v \in Videos : v = vid[t]  BY <1>3, WriterIs
<1>5. PICK h \in Slots : h = id[v]  BY <1>3, <1>4, WriterIs
<1>6. /\ v \in Surfaces /\ out[t] = None /\ h \in open /\ table[h] = v /\ shared[v] = None
      /\ \A u \in Threads \ {t} : ~Writes(u, v)
  BY <1>1, <1>3, <1>4, <1>5, WriterIs DEF Surfaces
<1>7. /\ pix' \in [Videos -> Contents] /\ pix'[v] = f
      /\ \A x \in Videos : x # v => pix'[x] = pix[x]
  BY <1>2, <1>4 DEF PInv, PixelInv, PixelTypes
<1>8. PixelInv'
  <2>1. PixelTypes'  BY <1>1, <1>7 DEF PInv, PixelInv, PixelTypes
  <2>2. \A s \in Surfaces : HandleHolds(s) => HandleHolds(s)'  BY <1>1 DEF HandleHolds
  <2> QED  BY <1>1, <1>3, <2>1, <2>2, PixelsKept DEF Surfaces
<1>9. \A s \in Surfaces : s # v => Alike(s)
  <2>1. OthersKeep(t)  BY <1>3 DEF Moves
  <2> QED  BY <1>1, <1>3, <1>4, <1>6, <1>7, <2>1, WriteIsLocal
<1>10. FrameOf(v) = Torn /\ FrameOf(v)' = f
  <2>1. Writes(t, v)  BY <1>1, <1>4 DEF Writes
  <2>2. \A u \in Threads : ~Writes(u, v)'
    BY <1>3, <1>6, SurfacesAssumption DEF Writes, Moves, OthersKeep, Surfaces
  <2>3. FrameOf(v)' = pix'[v]  BY <2>2, WhileWritingNext DEF WhileWritingRule
  <2> QED  BY <1>7, <2>1, <2>3, FrameWhileWriting
<1>11. /\ FramesSeen[h] = Torn /\ UNCHANGED PicturesSeen
       /\ FramesSeen' = [FramesSeen EXCEPT ![h] = f]
  <2>1. IInv /\ open' = open  BY <1>1 DEF PInv
  <2> QED  BY <1>1, <1>5, <1>6, <1>9, <1>10, <2>1, OneSeen
<1>12. CASE f = Torn
  <2>1. FramesSeen' = FramesSeen  BY <1>11, <1>12 DEF FramesSeen
  <2> QED  BY <1>8, <1>11, <2>1
<1>13. CASE f \in Frames
  <2>1. FramesSeen[h] # Gone  BY <1>11, PipelineAssumption
  <2> QED  BY <1>8, <1>11, <1>13, <2>1 DEF Store!EndWrite, Store!Exists
<1> QED  BY <1>12, <1>13 DEF Contents

\* shared_surface_swap_video: the handle moves to a surface of its own, the one
\* that is shown keeps its pixels.
LEMMA SwapSharedSeen ==
  ASSUME PInv, IInv', Granted, NEW t \in Threads, PSwapShared(t)
  PROVE  PixelInv' /\ \E h \in Slots : Store!BeginWrite(h)
<1>1. PICK n \in Videos, dropped \in SUBSET cache :
        /\ AllocVideo(n, dropped)
        /\ \E rc, ids :
             Settle(rc, IF id[vid[t]] \in Slots THEN [table EXCEPT ![id[vid[t]]] = n] ELSE table,
                    ids)
        /\ destroyed' = [destroyed EXCEPT ![n] = FALSE]
        /\ detached' = [detached EXCEPT ![vid[t]] = TRUE]
        /\ vid' = [vid EXCEPT ![t] = n]
  BY DEF PSwapShared, SwapShared
<1>2. /\ pc[t] = "fetched" /\ pc' = [pc EXCEPT ![t] = "swapped"] /\ shared[vid[t]] # None
      /\ UNCHANGED <<shared, link, call, out, hold, open, img>>
      /\ pix' = [pix EXCEPT ![vid'[t]] = IF refcnt[vid'[t]] = 0 THEN Torn ELSE @]
  BY DEF PSwapShared, SwapShared, Goto
<1>3. Moves(t) /\ pc'[t] = "swapped" /\ vid'[t] = n /\ pc[t] \in Writing
  BY <1>1, <1>2 DEF PInv, IInv, TypeOK, Moves, OthersKeep, Writing
<1>4. PICK v \in Videos : v = vid[t]  BY <1>3, WriterIs
<1>5. PICK h \in Slots : h = id[v]  BY <1>3, <1>4, WriterIs
<1>6. v \in Surfaces /\ out[t] = None /\ h \in open /\ table[h] = v
  BY <1>3, <1>4, <1>5, WriterIs DEF Surfaces
<1>7. destroyed[n] /\ ~HandleHolds(n) /\ shared[n] = None
  <2>1. destroyed[n] /\ ~HandleHolds(n)  BY <1>1, VideoChosen DEF PInv
  <2> QED  BY <2>1 DEF PInv, PixelInv, ReusableIsUnlinked
<1>8. pix' \in [Videos -> Contents] /\ \A x \in Videos : x # n => pix'[x] = pix[x]
  BY <1>2, <1>3 DEF PInv, PixelInv, PixelTypes, Contents
<1>9. PixelInv'
  <2>1. PixelTypes'  BY <1>2, <1>8 DEF PInv, PixelInv, PixelTypes
  <2>2. PixelsOf(t)'
    <3>1. shared'[vid'[t]] = None  BY <1>2, <1>3, <1>7
    <3>2. call'[t] # "draw"  BY <1>2 DEF PInv, IInv, CallInv
    <3> QED  BY <1>3, <3>1, <3>2 DEF PixelsOf, Unowned
  <2>3. \A s \in Surfaces : destroyed'[s] => destroyed[s]
    BY <1>1 DEF PInv, IInv, TypeOK
  <2>4. \A d \in Outputs : HandleHolds(d) => HandleHolds(d)'
    <3>1. \A d \in Outputs : d # v /\ d \in Surfaces  BY SurfacesAssumption DEF Surfaces
    <3>2. \A d \in Outputs : detached'[d] = detached[d]  BY <1>1, <1>4, <3>1 DEF PInv, IInv, TypeOK
    <3> QED  BY <2>3, <3>1, <3>2 DEF HandleHolds, PInv, IInv, TypeOK
  <2> QED  BY <1>2, <1>3, <2>1, <2>2, <2>3, <2>4, PixelsKept DEF Surfaces
<1>10. ASSUME NEW s \in Surfaces, s # v, HandleHolds(s) PROVE Alike(s)
  <2>1. OthersKeep(t) /\ s # n  BY <1>3, <1>7, <1>10 DEF Moves
  <2>2. s \in Videos => FrameOf(s)' = FrameOf(s)
    <3>1. Writes(t, s)' <=> Writes(t, s)  BY <1>3, <1>4, <1>10, <2>1 DEF Writes
    <3> QED  BY <1>8, <2>1, <3>1, FrameKept
  <2>3. s \in Outputs => PictureOf(s)' = PictureOf(s)
    <3>1. Composes(t, s)' <=> Composes(t, s)  BY <1>2, <1>3 DEF Composes
    <3>2. ASSUME s \in Outputs, shared[s] # None
          PROVE  pix'[link[shared[s]].video] = pix[link[shared[s]].video]
      BY <1>7, <1>8, <3>2, SourceIs DEF PInv
    <3> QED  BY <1>2, <2>1, <3>1, <3>2, PictureKept
  <2> QED  BY <2>2, <2>3 DEF Alike
<1>11. ASSUME NEW k \in Slots, k # h PROVE SeenAlike(k)
  <2>1. table'[k] \in {table[k], None}
    BY <1>1, <1>4, <1>5, <1>11 DEF Settle, PInv, IInv, TypeOK
  <2>2. k \in open => Alike(table[k])
    <3> SUFFICES ASSUME k \in open PROVE Alike(table[k])
      OBVIOUS
    <3>1. table[k] \in Surfaces /\ id[table[k]] = k /\ HandleHolds(table[k])
      BY HandleIs DEF PInv
    <3> QED  BY <1>5, <1>10, <1>11, <3>1
  <2>3. IInv /\ open' = open  BY <1>2 DEF PInv
  <2> QED  BY <2>1, <2>2, <2>3, HandleAlike
<1>12. FramesSeen[h] = FrameOf(v) /\ PicturesSeen[h] = Gone
  <2>1. v \notin Outputs  BY SurfacesAssumption
  <2> QED  BY <1>6, <2>1, SeenIs DEF PInv
<1>13. FramesSeen'[h] = Torn /\ PicturesSeen'[h] = Gone
  <2>1. n \notin Outputs  BY SurfacesAssumption
  <2>2. table'[h] = n
    <3>1. table'[h] \in {n, None}
      BY <1>1, <1>4, <1>5 DEF Settle, PInv, IInv, TypeOK
    <3> QED  BY <1>2, <1>6, <3>1 DEF IInv, HandleInv
  <2>3. Writes(t, n)'  BY <1>3 DEF Writes
  <2>4. FrameOf(n)' = Torn  BY <2>3, WhileWritingNext DEF WhileWritingRule
  <2> QED  BY <1>2, <1>6, <2>1, <2>2, <2>4, SeenIsNext DEF SeenRule, FrameOf, BeingWritten
<1>14. FramesSeen[h] # Gone
  BY <1>12, FrameIsContent, PipelineAssumption DEF Contents, PInv, PixelInv
<1>15. FramesSeen' = [FramesSeen EXCEPT ![h] = Torn] /\ UNCHANGED PicturesSeen
  <2>1. /\ \A k \in Slots : FramesSeen'[k] = IF k = h THEN Torn ELSE FramesSeen[k]
        /\ \A k \in Slots : PicturesSeen'[k] = PicturesSeen[k]
    BY <1>11, <1>12, <1>13 DEF SeenAlike
  <2>2. FramesSeen' = [FramesSeen EXCEPT ![h] = Torn]  BY <2>1 DEF FramesSeen
  <2>3. UNCHANGED PicturesSeen  BY <2>1 DEF PicturesSeen
  <2> QED  BY <2>2, <2>3
<1> QED  BY <1>9, <1>14, <1>15 DEF Store!BeginWrite, Store!Exists

-----------------------------------------------------------------------------
(* Mixing.                                                                 *)

\* A call that mixes has both surfaces from their handles; nobody writes the
\* video, and nobody else paints on the output while it is locked.
LEMMA MixerIs ==
  ASSUME PInv, NEW t \in Threads, pc[t] \in Mixing
  PROVE  /\ vid[t] \in Videos /\ HandleHolds(vid[t])
         /\ id[vid[t]] \in open \cap Slots /\ table[id[vid[t]]] = vid[t]
         /\ out[t] \in Outputs /\ HandleHolds(out[t])
         /\ id[out[t]] \in open \cap Slots /\ table[id[out[t]]] = out[t]
         /\ \A u \in Threads : pc[u] \in Exclusive => Created(u) \notin {vid[t], out[t]}
         /\ \A u \in Threads : ~Writes(u, vid[t])
<1>1. IInv  BY DEF PInv
<1>2. /\ vid[t] \in Videos /\ out[t] \in Outputs /\ call[t] = "mix"
      /\ HandleHolds(vid[t]) /\ HandleHolds(out[t])
  BY <1>1 DEF IInv, TypeOK, CallInv, OwnerInv, Mixing
<1>3. pc[t] \notin Unowned \cup {"unref"} \cup Exclusive  BY DEF Mixing, Unowned, Exclusive
<1>4. /\ id[vid[t]] \in open \cap Slots /\ table[id[vid[t]]] = vid[t]
      /\ id[out[t]] \in open \cap Slots /\ table[id[out[t]]] = out[t]
  BY <1>1, <1>2, <1>3, HolderIs DEF Surfaces
<1>5. ASSUME NEW u \in Threads, pc[u] \in Exclusive PROVE Created(u) \notin {vid[t], out[t]}
  <2>1. u # t  BY <1>3, <1>5
  <2> QED  BY <1>1, <1>2, <1>3, <1>5, <2>1 DEF IInv, OwnerInv
<1>6. ASSUME NEW u \in Threads, Writes(u, vid[t]) PROVE FALSE
  <2>1. pc[u] \in Exclusive /\ Created(u) = vid[t]
    BY <1>2, <1>6, SurfacesAssumption DEF Writes, Exclusive, Created, Surfaces
  <2> QED  BY <1>5, <2>1
<1> QED  BY <1>2, <1>4, <1>5, <1>6

\* The one thread inside the lock of an output surface.
LEMMA PainterIs ==
  ASSUME PInv, NEW t \in Threads, pc[t] \in {"composing", "drawing"},
         NEW u \in Threads, u # t, pc[u] \in {"composing", "drawing"}
  PROVE  out[u] # out[t]
  BY DEF PInv, IInv, LockInv

\* The picture of a surface while a call composes it, and when it does not.
Standing(d) ==
  IF shared[d] # None THEN Picture(pix[link[shared[d]].video])
  ELSE IF img[d] = Gone THEN Picture(Blank) ELSE img[d]

WhileComposingRule ==
  \A t \in Threads, d \in Outputs :
    /\ Composes(t, d) => PictureOf(d) = Picture(Torn)
    /\ (\A u \in Threads : ~Composes(u, d)) => PictureOf(d) = Standing(d)

LEMMA WhileComposingHolds == WhileComposingRule
  BY DEF WhileComposingRule, Composes, PictureOf, Standing, BeingComposed

LEMMA WhileComposingNext == WhileComposingRule'
  BY WhileComposingHolds, PTL

\* Breaking the link on output surface d leaves the other pictures alone.
LEMMA BreakIs ==
  ASSUME PInv, NEW d \in Outputs, NEW l, l = None \/ (l # None /\ l = shared[d]), NEW n,
         BreakLink(l), link' = LinkAfter(l, n)
  PROVE  /\ \A s \in Surfaces : shared'[s] \in {shared[s], None}
         /\ l = shared[d] => shared'[d] = None
         /\ \A r \in Outputs : r # d =>
              /\ shared'[r] = shared[r]
              /\ shared[r] # None => link'[shared[r]] = link[shared[r]]
         /\ \A v \in Videos : Reusable(l)[v] => destroyed[v] \/ shared'[v] = None
         /\ \A r \in Outputs : /\ Reusable(l)[r] => destroyed[r]
                               /\ detached'[r] = detached[r]
<1>1. TypeOK /\ IInv  BY DEF PInv, IInv
<1>2. CASE l = None
  <2>1. UNCHANGED <<shared, detached, link>>  BY <1>2 DEF BreakLink, LinkAfter
  <2> QED  BY <1>2, <2>1 DEF Reusable, Surfaces
<1>3. CASE l # None
  <2>1. l = shared[d] /\ shared[d] # None  BY <1>3
  <2>2. PICK v \in Videos : v = link[l].video  BY <1>1, <2>1, SourceIs
  <2>3. l \in Links /\ link[l].disp = d /\ v # d /\ v \notin Outputs
    BY <1>1, <2>1, <2>2, SourceIs, SurfacesAssumption
  <2>4. /\ shared' = [shared EXCEPT ![v] = None, ![d] = None]
        /\ detached' = [detached EXCEPT ![v] = FALSE]
    BY <1>3, <2>2, <2>3 DEF BreakLink
  <2>5. \A s \in Surfaces : shared'[s] = IF s \in {v, d} THEN None ELSE shared[s]
    BY <1>1, <2>4 DEF TypeOK
  <2>6. \A k \in Links : k # l => link'[k] = link[k]
    BY <1>1, <1>3 DEF LinkAfter, TypeOK
  <2>7. \A r \in Outputs : r # d => /\ shared'[r] = shared[r]
                                    /\ shared[r] # None => link'[shared[r]] = link[shared[r]]
    <3> TAKE r \in Outputs
    <3> SUFFICES ASSUME r # d PROVE /\ shared'[r] = shared[r]
                                    /\ shared[r] # None => link'[shared[r]] = link[shared[r]]
      OBVIOUS
    <3>1. shared'[r] = shared[r]  BY <2>3, <2>5 DEF Surfaces
    <3>2. shared[r] # None => shared[r] \in Links /\ shared[r] # l
      BY <1>1, <2>3, SourceIs
    <3> QED  BY <2>6, <3>1, <3>2
  <2>8. \A s \in Surfaces : Reusable(l)[s] => destroyed[s] \/ s = v
    BY <2>2 DEF Reusable
  <2>9. \A r \in Outputs : detached'[r] = detached[r]
    BY <1>1, <2>3, <2>4 DEF TypeOK, Surfaces
  <2>10. \A r \in Outputs : Reusable(l)[r] => destroyed[r]  BY <2>3, <2>8 DEF Surfaces
  <2>11. \A x \in Videos : Reusable(l)[x] => destroyed[x] \/ shared'[x] = None
    BY <2>5, <2>8 DEF Surfaces
  <2>12. shared'[d] = None /\ \A s \in Surfaces : shared'[s] \in {shared[s], None}
    BY <2>5 DEF Surfaces
  <2> QED  BY <2>7, <2>9, <2>10, <2>11, <2>12
<1> QED  BY <1>2, <1>3

\* A step that paints on output surface d, and the link of d at most, is seen
\* on no other surface.
LEMMA PaintIsLocal ==
  ASSUME PInv, NEW t \in Threads, OthersKeep(t), NEW d \in Outputs, UNCHANGED pix,
         pc[t] \notin {"swapped", "writing"}, pc'[t] \notin {"swapped", "writing"},
         \A r \in Outputs : r # d => /\ ~Composes(t, r) /\ ~Composes(t, r)' /\ img'[r] = img[r]
                                     /\ shared'[r] = shared[r]
                                     /\ shared[r] # None => link'[shared[r]].video = link[shared[r]].video
  PROVE  \A s \in Surfaces : s # d => Alike(s)
<1> SUFFICES ASSUME NEW s \in Surfaces, s # d PROVE Alike(s)
  OBVIOUS
<1>1. s \in Videos => FrameOf(s)' = FrameOf(s)
  <2>1. ~Writes(t, s) /\ ~Writes(t, s)'  BY DEF Writes
  <2> QED  BY <2>1, FrameKept
<1>2. s \in Outputs => PictureOf(s)' = PictureOf(s)
  BY PictureKept
<1> QED  BY <1>1, <1>2 DEF Alike

LEMMA MixLockSeen ==
  ASSUME PInv, IInv', NEW t \in Threads, MixLock(t), UNCHANGED <<pix, img>>
  PROVE  PixelInv' /\ \E h \in Slots : Store!BeginCompose(h)
<1>1. /\ pc[t] = "mix_fetched" /\ pc' = [pc EXCEPT ![t] = "composing"]
      /\ destroyed' = Reusable(shared[out[t]]) /\ BreakLink(shared[out[t]])
      /\ link' = LinkAfter(shared[out[t]], 1)
      /\ UNCHANGED <<call, vid, out, hold, open>>
      /\ \A k \in Slots : table'[k] \in {table[k], None}
  BY SettleTable DEF MixLock, Goto
<1>2. Moves(t) /\ pc'[t] = "composing" /\ pc[t] \in Mixing /\ call[t] = "mix"
  BY <1>1 DEF PInv, IInv, TypeOK, CallInv, Moves, OthersKeep, Mixing
<1>3. PICK d \in Outputs : d = out[t]  BY <1>2, MixerIs
<1>4. PICK h \in Slots : h = id[d]  BY <1>2, <1>3, MixerIs
<1>5. d \in Surfaces /\ h \in open /\ table[h] = d  BY <1>2, <1>3, <1>4, MixerIs DEF Surfaces
<1>6. /\ \A s \in Surfaces : shared'[s] \in {shared[s], None}
      /\ shared'[d] = None
      /\ \A r \in Outputs : r # d => /\ shared'[r] = shared[r]
                                     /\ shared[r] # None => link'[shared[r]] = link[shared[r]]
      /\ \A v \in Videos : destroyed'[v] => destroyed[v] \/ shared'[v] = None
      /\ \A r \in Outputs : (destroyed'[r] => destroyed[r]) /\ detached'[r] = detached[r]
  BY <1>1, <1>3, BreakIs
<1>7. PixelInv'
  <2>1. PixelTypes'  BY DEF PInv, PixelInv, PixelTypes
  <2>2. PixelsOf(t)'  BY <1>1, <1>2, <1>3, <1>6 DEF PixelsOf, Unowned
  <2>3. \A r \in Outputs : HandleHolds(r) => HandleHolds(r)'
    BY <1>6 DEF HandleHolds, PInv, IInv, TypeOK, Surfaces
  <2> QED  BY <1>2, <1>6, <2>1, <2>2, <2>3, PixelsKept
<1>8. \A s \in Surfaces : s # d => Alike(s)
  <2>1. OthersKeep(t)  BY <1>2 DEF Moves
  <2>2. \A r \in Outputs : r # d => ~Composes(t, r) /\ ~Composes(t, r)'
    BY <1>1, <1>3 DEF Composes
  <2>3. pc[t] \notin {"swapped", "writing"} /\ pc'[t] \notin {"swapped", "writing"}
    BY <1>1, <1>2
  <2> QED  BY <1>6, <2>1, <2>2, <2>3, PaintIsLocal
<1>9. /\ PicturesSeen[h] = PictureOf(d) /\ UNCHANGED FramesSeen
      /\ PicturesSeen' = [PicturesSeen EXCEPT ![h] = PictureOf(d)']
  <2>1. IInv /\ open' = open  BY <1>1 DEF PInv
  <2> QED  BY <1>1, <1>4, <1>5, <1>8, <2>1, OneSeen
<1>10. PictureOf(d)' = Picture(Torn)
  <2>1. Composes(t, d)'  BY <1>1, <1>2, <1>3 DEF Composes
  <2> QED  BY <2>1, WhileComposingNext DEF WhileComposingRule, Picture
<1>11. PicturesSeen[h] # Gone
  BY <1>9, PictureIsImage, PipelineAssumption DEF Images, PInv, PixelInv
<1> QED  BY <1>7, <1>9, <1>10, <1>11 DEF Store!BeginCompose, Store!Exists, Store!Picture, Picture

\* A picture exists.
LEMMA PictureIs ==
  ASSUME NEW f \in Contents \cup {Blank}
  PROVE  Picture(f) \in Images /\ Picture(f) # Gone
<1>1. Picture(f) \in Images  BY DEF Picture, Images, Contents
<1> QED  BY <1>1, PipelineAssumption DEF Images

\* What both ways of mixing have in common: the call held the lock, and returns.
LEMMA ComposedIs ==
  ASSUME PInv, NEW t \in Threads, pc[t] = "composing", Return(t)
  PROVE  /\ PicturesSeen[id[out[t]]] = Picture(Torn) /\ PicturesSeen[id[out[t]]] # Gone
         /\ FramesSeen[id[vid[t]]] = pix[vid[t]] /\ FramesSeen[id[vid[t]]] # Gone
         /\ \A u \in Threads, d \in Outputs : d = out[t] => ~Composes(u, d)'
<1>1. pc[t] \in Mixing /\ IInv /\ PixelTypes  BY DEF Mixing, PInv, PixelInv
<1>2. PICK d \in Outputs : d = out[t]  BY <1>1, MixerIs
<1>3. PICK v \in Videos : v = vid[t]  BY <1>1, MixerIs
<1>4. PICK h \in Slots, g \in Slots : h = id[d] /\ g = id[v]  BY <1>1, <1>2, <1>3, MixerIs
<1>5. h \in open /\ table[h] = d /\ g \in open /\ table[g] = v
  BY <1>1, <1>2, <1>3, <1>4, MixerIs
<1>6. PicturesSeen[h] = Picture(Torn)
  <2>1. Composes(t, d)  BY <1>2 DEF Composes
  <2>2. PictureOf(d) = Picture(Torn)  BY <2>1, WhileComposingHolds DEF WhileComposingRule
  <2> QED  BY <1>1, <1>5, <2>2, SeenIs
<1>7. FramesSeen[g] = pix[v]
  <2>1. \A u \in Threads : ~Writes(u, v)  BY <1>1, <1>3, MixerIs
  <2>2. FrameOf(v) = pix[v]  BY <2>1, FrameWhileWriting
  <2> QED  BY <1>1, <1>5, <2>2, SeenIs
<1>8. PicturesSeen[h] # Gone /\ FramesSeen[g] # Gone
  <2>1. Picture(Torn) # Gone  BY PictureIs DEF Contents
  <2> QED  BY <1>1, <1>6, <1>7, <2>1, PipelineAssumption DEF PixelTypes, Contents
<1>9. \A u \in Threads, r \in Outputs : r = out[t] => ~Composes(u, r)'
  <2> SUFFICES ASSUME NEW u \in Threads, Composes(u, d)' PROVE FALSE
    BY <1>2
  <2>1. Moves(t) /\ pc'[t] = "idle"  BY ReturnIs
  <2>2. u # t /\ out[u] = d /\ pc[u] = "composing"
    BY <2>1 DEF Composes, Moves, OthersKeep
  <2> QED  BY <1>2, <2>2, PainterIs
<1> QED  BY <1>2, <1>3, <1>4, <1>6, <1>7, <1>8, <1>9

LEMMA MixShareSeen ==
  ASSUME PInv, IInv', NEW t \in Threads, PMixShare(t)
  PROVE  PixelInv' /\ \E h, hv \in Slots : Store!EndCompose(hv, h)
<1>1. PICK l \in Links :
        /\ link[l].refcnt = 0
        /\ link' = [link EXCEPT ![l] = [refcnt |-> 1, video |-> vid[t], disp |-> out[t]]]
        /\ shared' = [shared EXCEPT ![vid[t]] = l, ![out[t]] = l]
  BY DEF PMixShare, MixShare
<1>2. /\ pc[t] = "composing" /\ Return(t)
      /\ UNCHANGED <<destroyed, detached, open, pix>>
      /\ img' = [img EXCEPT ![out[t]] = Gone]
      /\ \A k \in Slots : table'[k] \in {table[k], None}
  BY SettleTable DEF PMixShare, MixShare, MixReturn
<1>3. Moves(t) /\ PixelsOf(t)' /\ pc'[t] = "idle" /\ pc[t] \in Mixing
  BY <1>2, ReturnIs DEF Mixing
<1>4. PICK d \in Outputs : d = out[t]  BY <1>3, MixerIs
<1>5. PICK v \in Videos : v = vid[t]  BY <1>3, MixerIs
<1>6. PICK h \in Slots, g \in Slots : h = id[d] /\ g = id[v]  BY <1>3, <1>4, <1>5, MixerIs
<1>7. /\ d \in Surfaces /\ v \in Surfaces /\ h \in open /\ table[h] = d /\ HandleHolds(v)
      /\ \A u \in Threads : pc[u] \in Exclusive => Created(u) \notin {v, d}
  BY <1>3, <1>4, <1>5, <1>6, MixerIs DEF Surfaces
<1>8. /\ \A s \in Surfaces : shared'[s] = IF s \in {v, d} THEN l ELSE shared[s]
      /\ link'[l].video = v /\ \A k \in Links : k # l => link'[k] = link[k]
      /\ img' \in [Outputs -> Images \cup {Gone}]
      /\ \A r \in Outputs : img'[r] = IF r = d THEN Gone ELSE img[r]
  BY <1>1, <1>2, <1>4, <1>5, <1>7 DEF PInv, IInv, TypeOK, PixelInv, PixelTypes
<1>9. PixelInv'
  <2>1. PixelTypes'  BY <1>2, <1>8 DEF PInv, PixelInv, PixelTypes
  <2>2. ReusableIsUnlinked'
    <3> SUFFICES ASSUME NEW x \in Videos, destroyed[x] PROVE shared'[x] = None
      BY <1>2 DEF ReusableIsUnlinked
    <3>1. x # v /\ x # d /\ x \in Surfaces
      BY <1>7, SurfacesAssumption DEF HandleHolds, Surfaces
    <3> QED  BY <1>8, <3>1 DEF PInv, PixelInv, ReusableIsUnlinked
  <2>3. ASSUME NEW u \in Threads, u # t PROVE PixelsOf(u)'
    <3>1. PixelsOf(u) /\ IInv  BY DEF PInv, PixelInv
    <3>2. /\ vid'[u] = vid[u] /\ out'[u] = out[u] /\ pc'[u] = pc[u] /\ call'[u] = call[u]
          /\ hold'[u] = hold[u]
      BY <1>3, <2>3 DEF Moves, OthersKeep
    <3>3. /\ vid[u] \in Videos \cup {None} /\ out[u] \in Outputs \cup {None}
          /\ pc[u] \in {"composing", "drawing"} => out[u] # None
      BY <3>1 DEF IInv, TypeOK, CallInv
    <3>4. pc[u] \in {"composing", "drawing"} => out[u] # d
      BY <1>2, <1>4, <2>3, PainterIs
    <3>5. /\ pc[u] \in Unowned \cup {"swapped", "writing"} /\ vid[u] # None => vid[u] # v
          /\ pc[u] = "created" /\ out[u] # None => out[u] # d
      <4>1. pc[u] \in Unowned \cup {"swapped", "writing"} => pc[u] \in Exclusive
        BY DEF Unowned, Exclusive
      <4>2. pc[u] = "created" /\ out[u] # None => Created(u) = out[u]
        BY <3>1 DEF IInv, CallInv, Created
      <4> QED  BY <1>7, <4>1, <4>2 DEF Created, Exclusive
    <3>6. \A x \in Videos : x # v => shared'[x] = shared[x]
      BY <1>8, SurfacesAssumption DEF Surfaces
    <3>7. \A x \in Outputs : x # d => shared'[x] = shared[x] /\ img'[x] = img[x]
      BY <1>8, SurfacesAssumption DEF Surfaces
    <3>8. HandleHolds(out[u])' <=> HandleHolds(out[u])  BY <1>2, <3>2 DEF HandleHolds
    <3>9. /\ pc[u] \in Unowned \cup {"swapped", "writing"} /\ vid[u] # None => shared'[vid[u]] = None
          /\ pc[u] = "created" /\ out[u] # None => img'[out[u]] = Gone /\ shared'[out[u]] = None
      BY <3>1, <3>3, <3>5, <3>6, <3>7 DEF PixelsOf
    <3>10. /\ pc[u] = "composing" => shared'[out[u]] = None
           /\ pc[u] = "drawing" /\ call[u] = "draw" /\ hold[u] = None => shared'[out[u]] = None
      BY <3>1, <3>3, <3>4, <3>7 DEF PixelsOf
    <3> QED  BY <3>1, <3>2, <3>8, <3>9, <3>10 DEF PixelsOf
  <2> QED  BY <1>3, <2>1, <2>2, <2>3 DEF PixelInv
<1>10. \A s \in Surfaces : s # d => Alike(s)
  <2>1. OthersKeep(t)  BY <1>3 DEF Moves
  <2>2. \A r \in Outputs : r # d => ~Composes(t, r) /\ ~Composes(t, r)'
    BY <1>3, <1>4 DEF Composes
  <2>3. pc[t] \notin {"swapped", "writing"} /\ pc'[t] \notin {"swapped", "writing"}
    BY <1>2, <1>3
  <2>4. ASSUME NEW r \in Outputs, r # d
        PROVE  /\ img'[r] = img[r] /\ shared'[r] = shared[r]
               /\ shared[r] # None => link'[shared[r]].video = link[shared[r]].video
    <3>1. r # v /\ r \in Surfaces  BY SurfacesAssumption DEF Surfaces
    <3>2. shared[r] # None => shared[r] \in Links /\ shared[r] # l
      BY <1>1, SourceIs DEF PInv
    <3> QED  BY <1>8, <2>4, <3>1, <3>2
  <2> QED  BY <1>2, <2>1, <2>2, <2>3, <2>4, PaintIsLocal
<1>11. UNCHANGED FramesSeen /\ PicturesSeen' = [PicturesSeen EXCEPT ![h] = PictureOf(d)']
  <2>1. IInv /\ open' = open  BY <1>2 DEF PInv
  <2> QED  BY <1>2, <1>6, <1>7, <1>10, <2>1, OneSeen
<1>12. PictureOf(d)' = Picture(pix[v])
  <2>1. \A u \in Threads : ~Composes(u, d)'  BY <1>2, <1>4, ComposedIs
  <2>2. PictureOf(d)' = Standing(d)'  BY <2>1, WhileComposingNext DEF WhileComposingRule
  <2>3. shared'[d] = l /\ l # None  BY <1>7, <1>8, SurfacesAssumption
  <2> QED  BY <1>2, <1>8, <2>2, <2>3 DEF Standing, Picture
<1>13. /\ PicturesSeen[h] = Picture(Torn) /\ PicturesSeen[h] # Gone
       /\ FramesSeen[g] = pix[v] /\ FramesSeen[g] # Gone
  BY <1>2, <1>4, <1>5, <1>6, ComposedIs
<1> QED  BY <1>9, <1>11, <1>12, <1>13 DEF Store!EndCompose, Store!Exists, Store!Picture, Picture

LEMMA MixBlitSeen ==
  ASSUME PInv, IInv', Granted, NEW t \in Threads, PMixBlit(t)
  PROVE  PixelInv' /\ \E h, hv \in Slots : Store!EndCompose(hv, h)
<1>1. /\ pc[t] = "composing" /\ Return(t)
      /\ UNCHANGED <<destroyed, detached, shared, link, open, pix>>
      /\ img' = [img EXCEPT ![out[t]] = Picture(pix[vid[t]])]
      /\ \A k \in Slots : table'[k] \in {table[k], None}
  BY SettleTable DEF PMixBlit, MixBlit, MixReturn, Granted
<1>2. Moves(t) /\ PixelsOf(t)' /\ pc'[t] = "idle" /\ pc[t] \in Mixing
  BY <1>1, ReturnIs DEF Mixing
<1>3. PICK d \in Outputs : d = out[t]  BY <1>2, MixerIs
<1>4. PICK v \in Videos : v = vid[t]  BY <1>2, MixerIs
<1>5. PICK h \in Slots, g \in Slots : h = id[d] /\ g = id[v]  BY <1>2, <1>3, <1>4, MixerIs
<1>6. /\ d \in Surfaces /\ h \in open /\ table[h] = d
      /\ \A u \in Threads : pc[u] \in Exclusive => Created(u) # d
  BY <1>2, <1>3, <1>4, <1>5, MixerIs DEF Surfaces
<1>7. Picture(pix[v]) \in Images /\ Picture(pix[v]) # Gone
  <2>1. pix[v] \in Contents  BY DEF PInv, PixelInv, PixelTypes
  <2> QED  BY <2>1, PictureIs DEF Contents
<1>8. /\ img' \in [Outputs -> Images \cup {Gone}]
      /\ \A r \in Outputs : img'[r] = IF r = d THEN Picture(pix[v]) ELSE img[r]
  BY <1>1, <1>3, <1>4, <1>7 DEF PInv, PixelInv, PixelTypes
<1>9. PixelInv'
  <2>1. PixelTypes'  BY <1>1, <1>8 DEF PInv, PixelInv, PixelTypes
  <2>2. \A s \in Surfaces : HandleHolds(s) => HandleHolds(s)'  BY <1>1 DEF HandleHolds
  <2>3. \A u \in Threads : pc[u] = "created" => out[u] # d
    <3> SUFFICES ASSUME NEW u \in Threads, pc[u] = "created", out[u] = d PROVE FALSE
      OBVIOUS
    <3>1. Created(u) = d
      BY SurfacesAssumption DEF PInv, IInv, CallInv, Created, Surfaces
    <3> QED  BY <1>6, <3>1 DEF Exclusive
  <2> QED  BY <1>1, <1>2, <1>8, <2>1, <2>2, <2>3, PixelsKept DEF Surfaces
<1>10. \A s \in Surfaces : s # d => Alike(s)
  <2>1. OthersKeep(t)  BY <1>2 DEF Moves
  <2>2. \A r \in Outputs : r # d => ~Composes(t, r) /\ ~Composes(t, r)'
    BY <1>2, <1>3 DEF Composes
  <2>3. pc[t] \notin {"swapped", "writing"} /\ pc'[t] \notin {"swapped", "writing"}
    BY <1>1, <1>2
  <2> QED  BY <1>1, <1>8, <2>1, <2>2, <2>3, PaintIsLocal
<1>11. UNCHANGED FramesSeen /\ PicturesSeen' = [PicturesSeen EXCEPT ![h] = PictureOf(d)']
  <2>1. IInv /\ open' = open  BY <1>1 DEF PInv
  <2> QED  BY <1>1, <1>5, <1>6, <1>10, <2>1, OneSeen
<1>12. PictureOf(d)' = Picture(pix[v])
  <2>1. \A u \in Threads : ~Composes(u, d)'  BY <1>1, <1>3, ComposedIs
  <2>2. PictureOf(d)' = Standing(d)'  BY <2>1, WhileComposingNext DEF WhileComposingRule
  <2>3. shared[d] = None  BY <1>1, <1>3 DEF PInv, PixelInv, PixelsOf
  <2> QED  BY <1>1, <1>7, <1>8, <2>2, <2>3 DEF Standing
<1>13. /\ PicturesSeen[h] = Picture(Torn) /\ PicturesSeen[h] # Gone
       /\ FramesSeen[g] = pix[v] /\ FramesSeen[g] # Gone
  BY <1>1, <1>3, <1>4, <1>5, ComposedIs
<1> QED  BY <1>9, <1>11, <1>12, <1>13 DEF Store!EndCompose, Store!Exists, Store!Picture, Picture

-----------------------------------------------------------------------------
(* Drawing, creating and destroying.                                       *)

LEMMA DrawDoneSeen ==
  ASSUME PInv, IInv', Granted, NEW t \in Threads, PDrawDone(t)
  PROVE  /\ PixelInv'
         /\ UNCHANGED <<FramesSeen, PicturesSeen>> \/ \E h \in Slots : Store!Draw(h)
<1>1. /\ pc[t] = "drawing" /\ call[t] = "draw" /\ Return(t)
      /\ destroyed' = Reusable(hold[t]) /\ BreakLink(hold[t]) /\ link' = LinkAfter(hold[t], 2)
      /\ UNCHANGED <<open, pix>>
      /\ \/ img' = [img EXCEPT ![out[t]] = [Resolved(t) EXCEPT !.drawn = TRUE]]
         \/ hold[t] = None /\ img[out[t]] = Gone /\ UNCHANGED img
      /\ \A k \in Slots : table'[k] \in {table[k], None}
  BY SettleTable DEF PDrawDone, DrawDone, Granted
<1>2. Moves(t) /\ PixelsOf(t)' /\ pc'[t] = "idle"  BY <1>1, ReturnIs
<1>3. IInv /\ PixelsOf(t) /\ PixelTypes  BY DEF PInv, PixelInv
<1>4. PICK d \in Outputs : d = out[t]  BY <1>1, <1>3 DEF IInv, TypeOK, CallInv
<1>5. d \in Surfaces /\ HandleHolds(d) /\ hold[t] = shared[d]
  <2>1. hold[t] = shared[d]
    BY <1>1, <1>3, <1>4 DEF PixelsOf, IInv, LockInv
  <2> QED  BY <1>1, <1>3, <1>4, <2>1 DEF PixelsOf, Surfaces
<1>6. id[d] \in open \cap Slots /\ table[id[d]] = d
  BY <1>1, <1>3, <1>4, <1>5, HolderIs DEF Unowned
<1>7. PICK h \in Slots : h = id[d]  BY <1>6
<1>8. /\ \A s \in Surfaces : shared'[s] \in {shared[s], None}
      /\ shared'[d] = None
      /\ \A r \in Outputs : r # d => /\ shared'[r] = shared[r]
                                     /\ shared[r] # None => link'[shared[r]] = link[shared[r]]
      /\ \A v \in Videos : destroyed'[v] => destroyed[v] \/ shared'[v] = None
      /\ \A r \in Outputs : (destroyed'[r] => destroyed[r]) /\ detached'[r] = detached[r]
  BY <1>1, <1>5, BreakIs
<1>9. Resolved(t) = Standing(d)
  BY <1>4, <1>5 DEF Resolved, Standing
<1>10. Standing(d) \in Images /\ PictureOf(d) = Standing(d)
  <2>1. \A u \in Threads : ~Composes(u, d)
    BY <1>1, <1>4, PainterIs DEF Composes
  <2>2. PictureOf(d) = Standing(d)  BY <2>1, WhileComposingHolds DEF WhileComposingRule
  <2> QED  BY <1>3, <2>2, PictureIsImage
<1>11. /\ [Standing(d) EXCEPT !.drawn = TRUE] \in Images
       /\ [Standing(d) EXCEPT !.drawn = TRUE] # Gone
  <2>1. [Standing(d) EXCEPT !.drawn = TRUE] \in Images  BY <1>10 DEF Images
  <2> QED  BY <2>1, PipelineAssumption DEF Images
<1>12. /\ img' \in [Outputs -> Images \cup {Gone}]
       /\ \A r \in Outputs : r # d => img'[r] = img[r]
  BY <1>1, <1>3, <1>4, <1>9, <1>11 DEF PixelTypes
<1>13. PixelInv'
  <2>1. PixelTypes'  BY <1>1, <1>3, <1>12 DEF PixelTypes
  <2>2. \A r \in Outputs : HandleHolds(r) => HandleHolds(r)'
    BY <1>3, <1>8 DEF HandleHolds, IInv, TypeOK, Surfaces
  <2>3. \A u \in Threads \ {t} : pc[u] = "created" => out[u] # d
    <3> SUFFICES ASSUME NEW u \in Threads \ {t}, pc[u] = "created", out[u] = d PROVE FALSE
      OBVIOUS
    <3>1. Created(u) = d
      BY <1>3, SurfacesAssumption DEF IInv, CallInv, Created, Surfaces
    <3> QED  BY <1>1, <1>3, <1>4, <3>1 DEF Exclusive, IInv, OwnerInv
  <2> QED  BY <1>2, <1>8, <1>12, <2>1, <2>2, <2>3, PixelsKept
<1>14. \A s \in Surfaces : s # d => Alike(s)
  <2>1. OthersKeep(t)  BY <1>2 DEF Moves
  <2>2. \A r \in Outputs : r # d => ~Composes(t, r) /\ ~Composes(t, r)'
    BY <1>1, <1>2 DEF Composes
  <2>3. pc[t] \notin {"swapped", "writing"} /\ pc'[t] \notin {"swapped", "writing"}
    BY <1>1, <1>2
  <2> QED  BY <1>1, <1>8, <1>12, <2>1, <2>2, <2>3, PaintIsLocal
<1>15. /\ PicturesSeen[h] = Standing(d) /\ UNCHANGED FramesSeen
       /\ PicturesSeen' = [PicturesSeen EXCEPT ![h] = PictureOf(d)']
  <2>1. open' = open  BY <1>1
  <2> QED  BY <1>1, <1>3, <1>5, <1>6, <1>7, <1>10, <1>14, <2>1, OneSeen
<1>16. PictureOf(d)' = IF img'[d] = Gone THEN Picture(Blank) ELSE img'[d]
  <2>1. ASSUME NEW u \in Threads, Composes(u, d)' PROVE FALSE
    <3>1. u # t /\ out[u] = d /\ pc[u] = "composing"
      BY <1>2, <2>1 DEF Composes, Moves, OthersKeep
    <3> QED  BY <1>1, <1>4, <3>1, PainterIs
  <2>2. PictureOf(d)' = Standing(d)'  BY <2>1, WhileComposingNext DEF WhileComposingRule
  <2> QED  BY <1>8, <2>2 DEF Standing, Picture
<1>17. CASE img' = [img EXCEPT ![out[t]] = [Resolved(t) EXCEPT !.drawn = TRUE]]
  <2>1. img'[d] = [Standing(d) EXCEPT !.drawn = TRUE]
    BY <1>3, <1>4, <1>9, <1>17 DEF PixelTypes
  <2>2. PictureOf(d)' = [Standing(d) EXCEPT !.drawn = TRUE]  BY <1>11, <1>16, <2>1
  <2>3. PicturesSeen' = [PicturesSeen EXCEPT ![h].drawn = TRUE]
    <3>1. PicturesSeen' = [PicturesSeen EXCEPT ![h] = [PicturesSeen[h] EXCEPT !.drawn = TRUE]]
      BY <1>15, <2>2
    <3> QED  BY <3>1
  <2>4. PicturesSeen[h] # Gone
    BY <1>10, <1>15, PipelineAssumption DEF Images
  <2> QED  BY <1>13, <1>15, <2>3, <2>4 DEF Store!Draw, Store!Exists
<1>18. CASE hold[t] = None /\ img[out[t]] = Gone /\ UNCHANGED img
  <2>1. PictureOf(d)' = Standing(d)  BY <1>4, <1>5, <1>16, <1>18 DEF Standing
  <2>2. PicturesSeen' = PicturesSeen  BY <1>15, <2>1 DEF PicturesSeen
  <2> QED  BY <1>13, <1>15, <2>2
<1> QED  BY <1>1, <1>17, <1>18

\* The surface that goes has no handle any more, and takes its picture with it.
LEMMA MarkDestroyedSilent ==
  ASSUME PInv, IInv', NEW t \in Threads, MarkDestroyed(t), UNCHANGED <<pix, img>>
  PROVE  Silent
<1>1. IInv /\ PixelsOf(t) /\ PixelTypes  BY DEF PInv, PixelInv
<1>2. PICK s \in Surfaces : s = Created(t)
  BY <1>1, CreatedType DEF IInv, MarkDestroyed
<1>3. PICK l : l = IF s \in Outputs THEN shared[s] ELSE None  OBVIOUS
<1>4. /\ pc[t] = "destroying" /\ pc' = [pc EXCEPT ![t] = "unref"]
      /\ destroyed' = [Reusable(l) EXCEPT ![s] = TRUE] /\ BreakLink(l)
      /\ link' = LinkAfter(l, 1)
      /\ UNCHANGED <<call, vid, out, hold, open>>
      /\ \A k \in Slots : table'[k] \in {table[k], None}
  <2>1. \E rc : Settle(rc, table, id)  BY DEF MarkDestroyed
  <2> QED  BY <1>2, <1>3, <2>1, SettleTable DEF MarkDestroyed, Goto
<1>5. Moves(t) /\ pc'[t] = "unref" /\ call[t] # "draw"
  BY <1>1, <1>4 DEF IInv, TypeOK, CallInv, Moves, OthersKeep
<1>6. PixelsOf(t)'  BY <1>4, <1>5 DEF PixelsOf, Unowned
<1>7. /\ HandleHolds(s) /\ \A h \in open \cap Slots : table[h] # s
      /\ \A u \in Threads \ {t} : s \in {vid[u], out[u]} => call[u] # "draw"
  BY <1>1, <1>2, <1>4 DEF IInv, OwnerInv, CallInv, Exclusive, Unowned
<1>8. \A r \in Surfaces : destroyed'[r] <=> r = s \/ Reusable(l)[r]
  BY <1>2, <1>4 DEF Reusable
<1>9. CASE s \in Outputs
  <2>1. l = shared[s] /\ s \notin Videos  BY <1>3, <1>9, SurfacesAssumption
  <2>2. /\ \A r \in Surfaces : shared'[r] \in {shared[r], None}
        /\ \A r \in Outputs : r # s => /\ shared'[r] = shared[r]
                                       /\ shared[r] # None => link'[shared[r]] = link[shared[r]]
        /\ \A v \in Videos : Reusable(l)[v] => destroyed[v] \/ shared'[v] = None
        /\ \A r \in Outputs : (Reusable(l)[r] => destroyed[r]) /\ detached'[r] = detached[r]
    BY <1>4, <1>9, <2>1, BreakIs
  <2>3. PixelInv'
    <3>1. PixelTypes'  BY <1>1 DEF PixelTypes
    <3>2. \A v \in Videos : destroyed'[v] => destroyed[v] \/ shared'[v] = None
      BY <1>8, <2>1, <2>2 DEF Surfaces
    <3>3. \A r \in Outputs : \/ HandleHolds(r) => HandleHolds(r)'
                             \/ \A u \in Threads \ {t} : call[u] = "draw" => out[u] # r
      BY <1>7, <1>8, <2>2 DEF HandleHolds, Surfaces
    <3>4. \A r \in Outputs : img'[r] = img[r]  OBVIOUS
    <3> QED  BY <1>5, <1>6, <2>2, <3>1, <3>2, <3>3, <3>4, PixelsKept
  <2>4. \A r \in Surfaces : r # s => Alike(r)
    <3>1. OthersKeep(t)  BY <1>5 DEF Moves
    <3>2. \A r \in Outputs : ~Composes(t, r) /\ ~Composes(t, r)'
      BY <1>4, <1>5 DEF Composes
    <3>3. pc[t] \notin {"swapped", "writing"} /\ pc'[t] \notin {"swapped", "writing"}
      BY <1>4, <1>5
    <3> QED  BY <1>9, <2>2, <3>1, <3>2, <3>3, PaintIsLocal
  <2>5. \A h \in open \cap Slots : Alike(table[h])  BY <1>1, <1>7, <2>4, HandleIs
  <2> QED  BY <1>1, <1>4, <2>3, <2>5, NothingShown DEF Silent
<1>10. CASE s \notin Outputs
  <2>1. s \in Videos /\ l = None  BY <1>3, <1>10 DEF Surfaces
  <2>2. UNCHANGED <<shared, detached, link>>  BY <1>4, <2>1 DEF BreakLink, LinkAfter
  <2>3. shared[s] = None
    <3>1. vid[t] = s
      BY <1>1, <1>2, <1>4, <1>10 DEF IInv, CallInv, TypeOK, Created
    <3>2. s # None  BY <2>1, SurfacesAssumption DEF Surfaces
    <3> QED  BY <1>1, <1>4, <3>1, <3>2 DEF PixelsOf, Unowned
  <2>4. \A r \in Surfaces : destroyed'[r] => destroyed[r] \/ r = s
    BY <1>8, <2>1 DEF Reusable
  <2>5. \A r \in Outputs : HandleHolds(r) => HandleHolds(r)'
    BY <1>10, <2>2, <2>4 DEF HandleHolds, Surfaces
  <2>6. \A v \in Videos : destroyed'[v] => destroyed[v] \/ shared[v] = None
    BY <2>3, <2>4 DEF Surfaces
  <2>7. Quiet(t)  BY <1>4, <1>5, <2>2, <2>5, <2>6 DEF Quiet
  <2> QED  BY <1>4, <1>6, <2>7, QuietIsSilent
<1> QED  BY <1>9, <1>10

\* create_surface publishes the new surface: it holds anything, or nothing.
LEMMA RegisterSeen ==
  ASSUME PInv, IInv', NEW t \in Threads, Register(t), UNCHANGED <<pix, img>>
  PROVE  PixelInv' /\ \E h \in Slots : Store!CreateVideo(h) \/ Store!CreateOutput(h)
<1>1. IInv /\ PixelsOf(t) /\ PixelTypes  BY DEF PInv, PixelInv
<1>2. PICK s \in Surfaces : s = Created(t)
  BY <1>1, CreatedType DEF IInv, Register
<1>3. PICK h \in Slots : /\ table[h] = None /\ table' = [table EXCEPT ![h] = s]
                         /\ open' = open \cup {h}
  BY <1>2 DEF Register
<1>4. /\ pc[t] = "created" /\ Return(t)
      /\ UNCHANGED <<destroyed, detached, shared, link>>
  BY DEF Register
<1>5. Moves(t) /\ PixelsOf(t)' /\ pc'[t] = "idle"  BY <1>4, ReturnIs
<1>6. Quiet(t)  BY <1>4, <1>5 DEF Quiet, HandleHolds
<1>7. PixelInv' /\ \A r \in Surfaces : Alike(r)  BY <1>5, <1>6, QuietStep
<1>8. table'[h] = s /\ \A k \in Slots : k # h => table'[k] = table[k]
  BY <1>1, <1>3 DEF IInv, TypeOK
<1>9. ASSUME NEW k \in Slots, k # h PROVE SeenAlike(k)
  <2>1. k \in open' <=> k \in open  BY <1>3, <1>9
  <2>2. k \in open => Alike(table[k])  BY <1>1, <1>7, HandleIs
  <2> QED  BY <1>1, <1>8, <1>9, <2>1, <2>2, HandleAlike
<1>10. FramesSeen[h] = Gone /\ PicturesSeen[h] = Gone
  <2>1. None \notin Videos /\ None \notin Outputs  BY SurfacesAssumption DEF Surfaces
  <2> QED  BY <1>1, <1>3, <2>1, SeenIs
<1>11. h \in open'  BY <1>3
<1>12. CASE s \in Videos
  <2>1. s \notin Outputs  BY <1>12, SurfacesAssumption
  <2>2. FrameOf(s)' = FrameOf(s) /\ FrameOf(s) \in Contents
    BY <1>1, <1>7, <1>12, FrameIsContent DEF Alike
  <2>3. FramesSeen'[h] = FrameOf(s) /\ PicturesSeen'[h] = Gone
    BY <1>8, <1>11, <1>12, <2>1, <2>2, SeenIsNext DEF SeenRule, FrameOf, BeingWritten
  <2>4. FramesSeen' = [FramesSeen EXCEPT ![h] = FrameOf(s)]
    <3>1. \A k \in Slots : FramesSeen'[k] = IF k = h THEN FrameOf(s) ELSE FramesSeen[k]
      BY <1>9, <2>3 DEF SeenAlike
    <3> QED  BY <3>1 DEF FramesSeen
  <2>5. UNCHANGED PicturesSeen
    <3>1. \A k \in Slots : PicturesSeen'[k] = PicturesSeen[k]
      BY <1>9, <1>10, <2>3 DEF SeenAlike
    <3> QED  BY <3>1 DEF PicturesSeen
  <2> QED  BY <1>7, <1>10, <2>2, <2>4, <2>5
           DEF Store!CreateVideo, Store!Unused, Store!Exists, Contents
<1>13. CASE s \in Outputs
  <2>1. s \notin Videos /\ s # None
    BY <1>13, SurfacesAssumption DEF Surfaces
  <2>2. out[t] = s
    BY <1>1, <1>2, <1>4, <1>13, <2>1 DEF IInv, CallInv, TypeOK, Created
  <2>3. img[s] = Gone /\ shared[s] = None
    BY <1>1, <1>4, <2>1, <2>2 DEF PixelsOf
  <2>4. PictureOf(s) = Picture(Blank)
    <3>1. ASSUME NEW u \in Threads, Composes(u, s) PROVE FALSE
      <4>1. u # t /\ call[u] = "mix" /\ pc[u] # "unref" /\ s \in {vid[u], out[u]}
        BY <1>1, <1>4, <3>1 DEF Composes, IInv, CallInv
      <4> QED  BY <1>1, <1>2, <1>4, <4>1 DEF IInv, OwnerInv, Exclusive
    <3>2. PictureOf(s) = Standing(s)
      BY <1>13, <3>1, WhileComposingHolds DEF WhileComposingRule
    <3> QED  BY <2>3, <3>2 DEF Standing
  <2>5. PictureOf(s)' = Picture(Blank)  BY <1>7, <1>13, <2>4 DEF Alike
  <2>6. PicturesSeen'[h] = Picture(Blank) /\ FramesSeen'[h] = Gone
    BY <1>8, <1>11, <1>13, <2>1, <2>5, SeenIsNext DEF SeenRule, PictureOf, BeingComposed
  <2>7. PicturesSeen' = [PicturesSeen EXCEPT ![h] = Picture(Blank)]
    <3>1. \A k \in Slots : PicturesSeen'[k] = IF k = h THEN Picture(Blank) ELSE PicturesSeen[k]
      BY <1>9, <2>6 DEF SeenAlike
    <3> QED  BY <3>1 DEF PicturesSeen
  <2>8. UNCHANGED FramesSeen
    <3>1. \A k \in Slots : FramesSeen'[k] = FramesSeen[k]
      BY <1>9, <1>10, <2>6 DEF SeenAlike
    <3> QED  BY <3>1 DEF FramesSeen
  <2> QED  BY <1>7, <1>10, <2>7, <2>8
           DEF Store!CreateOutput, Store!Unused, Store!Exists, Store!Picture, Picture
<1> QED  BY <1>12, <1>13 DEF Surfaces

LEMMA FetchDestroySeen ==
  ASSUME PInv, IInv', Granted, NEW t \in Threads, FetchDestroy(t), UNCHANGED <<pix, img>>
  PROVE  PixelInv' /\ \E h \in Slots : Store!Destroy(h)
<1>1. IInv /\ PixelTypes  BY DEF PInv, PixelInv
<1>2. PICK h \in open :
        /\ Lookup(h) # None
        /\ Lookup(h) \in Videos => shared[Lookup(h)] = None
        /\ IF Lookup(h) \in Videos
           THEN vid' = [vid EXCEPT ![t] = Lookup(h)] /\ UNCHANGED out
           ELSE out' = [out EXCEPT ![t] = Lookup(h)] /\ UNCHANGED vid
        /\ open' = open \ {h}
  BY DEF FetchDestroy, Granted
<1>3. h \in Slots  BY <1>2 DEF Lookup
<1>4. /\ pc[t] = "idle" /\ pc' = [pc EXCEPT ![t] = "destroying"]
      /\ call' = [call EXCEPT ![t] = "destroy"]
      /\ UNCHANGED <<table, destroyed, detached, shared, link, hold>>
  BY DEF FetchDestroy, Idle, Enter
<1>5. Moves(t) /\ pc'[t] = "destroying" /\ call'[t] = "destroy"
  BY <1>1, <1>2, <1>4 DEF IInv, TypeOK, Moves, OthersKeep
<1>6. PixelsOf(t)'
  <2>1. vid[t] = None  BY <1>1, <1>4 DEF IInv, CallInv
  <2>2. vid'[t] # None => shared[vid'[t]] = None
    BY <1>1, <1>2, <2>1 DEF IInv, TypeOK
  <2> QED  BY <1>4, <1>5, <2>2 DEF PixelsOf, Unowned
<1>7. Quiet(t)  BY <1>4, <1>5 DEF Quiet, HandleHolds
<1>8. PixelInv' /\ \A r \in Surfaces : Alike(r)  BY <1>6, <1>7, QuietStep
<1>9. ASSUME NEW k \in Slots, k # h PROVE SeenAlike(k)
  <2>1. k \in open' <=> k \in open  BY <1>2, <1>9
  <2>2. k \in open => Alike(table[k])  BY <1>1, <1>8, HandleIs
  <2> QED  BY <1>1, <1>4, <1>9, <2>1, <2>2, HandleAlike
<1>10. FramesSeen'[h] = Gone /\ PicturesSeen'[h] = Gone
  <2>1. h \notin open'  BY <1>2
  <2> QED  BY <1>3, <2>1, SeenIsNext DEF SeenRule
<1>11. FramesSeen' = [FramesSeen EXCEPT ![h] = Gone]
  <2>1. \A k \in Slots : FramesSeen'[k] = IF k = h THEN Gone ELSE FramesSeen[k]
    BY <1>9, <1>10 DEF SeenAlike
  <2> QED  BY <2>1 DEF FramesSeen
<1>12. PicturesSeen' = [PicturesSeen EXCEPT ![h] = Gone]
  <2>1. \A k \in Slots : PicturesSeen'[k] = IF k = h THEN Gone ELSE PicturesSeen[k]
    BY <1>9, <1>10 DEF SeenAlike
  <2> QED  BY <2>1 DEF PicturesSeen
<1> QED  BY <1>3, <1>8, <1>11, <1>12 DEF Store!Destroy

-----------------------------------------------------------------------------
(* Every step.                                                             *)

LEMMA PipelineStepIs ==
  ASSUME PipelineNext
  PROVE  Next
  BY DEF PipelineNext, PCreateVideo, PCreateOutput, PSwapShared, PBeginWrite, PFinishWrite,
     PMixShare, PMixBlit, PDrawDone, Unpainted, Next, CreateCall, WriteCall, MixCall, OutputCall

\* Without failing allocations these steps do not happen.
LEMMA NoFailure ==
  ASSUME Granted, NEW t \in Threads
  PROVE  ~CreateFail(t) /\ ~SwapFail(t) /\ ~DropCaches(t)
  BY DEF Granted, CreateFail, SwapFail, DropCaches

LEMMA StoreStep ==
  ASSUME PInv, Granted, PipelineNext
  PROVE  PInv' /\ (Store!Next \/ UNCHANGED <<FramesSeen, PicturesSeen>>)
<1>1. IInv'  BY PipelineStepIs, Induction DEF PInv
<1>2. SUFFICES PixelInv' /\ (Store!Next \/ UNCHANGED <<FramesSeen, PicturesSeen>>)
  BY <1>1 DEF PInv
<1>3. CASE ReleaseCache /\ UNCHANGED <<pix, img>>
  BY <1>1, <1>3, ReleaseCacheSilent DEF Silent
<1>4. ASSUME NEW t \in Threads, Unpainted(t) /\ UNCHANGED <<pix, img>>
      PROVE  PixelInv' /\ (Store!Next \/ UNCHANGED <<FramesSeen, PicturesSeen>>)
  <2>1. CASE Register(t)  BY <1>1, <1>4, <2>1, RegisterSeen DEF Store!Next
  <2>2. CASE RegisterFail(t)  BY <1>1, <1>4, <2>2, RegisterFailSilent DEF Silent
  <2>3. CASE \E c \in {"decode", "put_bits"} : FetchTarget(t, c)
    BY <1>1, <1>4, <2>3, FetchTargetSilent DEF Silent
  <2>4. CASE WriteRejected(t)  BY <1>1, <1>4, <2>4, WriteRejectedSilent DEF Silent
  <2>5. CASE SwapUnshared(t)  BY <1>1, <1>4, <2>5, SwapUnsharedSeen DEF Store!Next
  <2>6. CASE FetchMix(t)  BY <1>1, <1>4, <2>6, FetchMixSilent DEF Silent
  <2>7. CASE MixLock(t)  BY <1>1, <1>4, <2>7, MixLockSeen DEF Store!Next
  <2>8. CASE \E c \in {"draw", "display"} : FetchOutput(t, c)
    BY <1>1, <1>4, <2>8, FetchOutputSilent DEF Silent
  <2>9. CASE DrawLock(t)  BY <1>1, <1>4, <2>9, DrawLockSilent DEF Silent
  <2>10. CASE DisplayDone(t)  BY <1>1, <1>4, <2>10, DisplayDoneSilent DEF Silent
  <2>11. CASE FetchDestroy(t)  BY <1>1, <1>4, <2>11, FetchDestroySeen DEF Store!Next
  <2>12. CASE MarkDestroyed(t)  BY <1>1, <1>4, <2>12, MarkDestroyedSilent DEF Silent
  <2>13. CASE FinishDestroy(t)  BY <1>1, <1>4, <2>13, FinishDestroySilent DEF Silent
  <2> QED  BY <1>4, <2>1, <2>2, <2>3, <2>4, <2>5, <2>6, <2>7, <2>8, <2>9, <2>10, <2>11, <2>12,
              <2>13, NoFailure DEF Unpainted, DestroyCall
<1>5. ASSUME NEW t \in Threads,
             \/ PCreateVideo(t) \/ PCreateOutput(t) \/ PSwapShared(t) \/ PBeginWrite(t)
             \/ PFinishWrite(t) \/ PMixShare(t) \/ PMixBlit(t) \/ PDrawDone(t)
      PROVE  PixelInv' /\ (Store!Next \/ UNCHANGED <<FramesSeen, PicturesSeen>>)
  <2>1. CASE PCreateVideo(t)  BY <1>1, <2>1, CreateVideoSilent DEF Silent
  <2>2. CASE PCreateOutput(t)  BY <1>1, <2>2, CreateOutputSilent DEF Silent
  <2>3. CASE PSwapShared(t)  BY <1>1, <2>3, SwapSharedSeen DEF Store!Next
  <2>4. CASE PBeginWrite(t)  BY <1>1, <2>4, BeginWriteSilent DEF Silent
  <2>5. CASE PFinishWrite(t)  BY <1>1, <2>5, FinishWriteSeen DEF Store!Next
  <2>6. CASE PMixShare(t)  BY <1>1, <2>6, MixShareSeen DEF Store!Next
  <2>7. CASE PMixBlit(t)  BY <1>1, <2>7, MixBlitSeen DEF Store!Next
  <2>8. CASE PDrawDone(t)  BY <1>1, <2>8, DrawDoneSeen DEF Store!Next
  <2> QED  BY <1>5, <2>1, <2>2, <2>3, <2>4, <2>5, <2>6, <2>7, <2>8
<1> QED  BY <1>3, <1>4, <1>5 DEF PipelineNext

LEMMA PipelineStutter ==
  ASSUME PInv, UNCHANGED pipelineVars
  PROVE  PInv' /\ UNCHANGED <<FramesSeen, PicturesSeen>>
<1>1. UNCHANGED vars /\ UNCHANGED <<pix, img>>  BY DEF pipelineVars
<1>2. IInv'  BY <1>1, Induction DEF PInv
<1>3. PixelInv'
  BY <1>1 DEF vars, PInv, PixelInv, PixelTypes, ReusableIsUnlinked, PixelsOf, HandleHolds
<1>4. UNCHANGED <<FramesSeen, PicturesSeen>>
  BY <1>1 DEF vars, FramesSeen, PicturesSeen, Owned, Lookup, FrameOf, PictureOf, BeingWritten,
     BeingComposed
<1> QED  BY <1>2, <1>3, <1>4 DEF PInv

LEMMA PipelineBegins ==
  ASSUME PipelineInit
  PROVE  PInv /\ Store!Init
<1>1. Init /\ pix = [v \in Videos |-> Torn] /\ img = [d \in Outputs |-> Gone]
  BY DEF PipelineInit
<1>2. IInv  BY <1>1, InitialState
<1>3. PixelInv
  BY <1>1, SurfacesAssumption
  DEF Init, PixelInv, PixelTypes, ReusableIsUnlinked, PixelsOf, Contents, Unowned, Surfaces
<1>4. Store!Init
  BY <1>1 DEF Init, Store!Init, FramesSeen, PicturesSeen, Owned
<1> QED  BY <1>2, <1>3, <1>4 DEF PInv

\* The strengthened invariant of the pixels holds in every reachable state of an
\* application that keeps what is shown, as long as memory lasts.
THEOREM PipelineInvariance ==
  ASSUME Granted
  PROVE  PipelineSpec => []PInv
<1>1. PipelineInit => PInv  BY PipelineBegins
<1>2. PInv /\ [PipelineNext]_pipelineVars => PInv'  BY StoreStep, PipelineStutter
<1> QED  BY <1>1, <1>2, PTL DEF PipelineSpec

\* Sharing, swapping and recycling is invisible: each step is one of the store in
\* which every mix copies at once, or none.
THEOREM PipelineImplementsStore ==
  ASSUME Granted
  PROVE  PipelineSpec => ImplementsFrameStore
<1>1. PipelineInit => Store!Init  BY PipelineBegins
<1>2. PInv /\ [PipelineNext]_pipelineVars => [Store!Next]_(Store!vars)
  BY StoreStep, PipelineStutter DEF Store!vars
<1> QED  BY <1>1, <1>2, PipelineInvariance, PTL DEF PipelineSpec, ImplementsFrameStore, Store!Spec
=============================================================================
