-------------------------- MODULE OutputDrawingProofs --------------------------
(***************************************************************************)
(* Proofs about OutputDrawing, for any number of threads, surfaces, areas  *)
(* and rotations: every way out of the drawing calls gives back their      *)
(* locks and mappings, and what is mapped has pixels, as long as memory    *)
(* suffices where the rules "linked_memory" and "rotate_memory" say so.    *)
(***************************************************************************)
EXTENDS OutputDrawing, FiniteSetTheorems, TLAPS

\* The steps at which a call has its destination locked.
Targeting == {"paint", "map_source", "composite"}

\* A call at a step has s locked, or mapped as its destination or its source; and so
\* has thread t.
Locks(x, a, s) == (x = "probe" /\ s = a.src) \/ (x \in Targeting /\ s = a.dst)
MapsDst(x, a, s) == x \in {"map_source", "composite"} /\ a.dst = s
MapsSrc(x, a, s) == x = "composite" /\ a.src = s

Holds(t, s) == Locks(pc[t], arg[t], s)
MapsTarget(t, s) == MapsDst(pc[t], arg[t], s)
MapsSource(t, s) == MapsSrc(pc[t], arg[t], s)

HeldTypes ==
  /\ map_cnt \in [Drawables -> Nat] /\ lock \in [Drawables -> Threads \cup {None}]
  /\ pc \in [Threads -> Steps] /\ arg \in [Threads -> Draws \cup {None}]
  /\ data \in [Drawables -> BOOLEAN] /\ link \in [Outputs -> Rects \cup {None}]

\* A call has its surfaces, and two of them.
CallInv == \A t \in Threads :
  /\ pc[t] # "idle" => arg[t] \in Draws /\ arg[t].src # arg[t].dst
  /\ pc[t] \notin {"idle", "lock"} => arg[t].src \in Drawables

\* A rotation without memory returns with a lock.
LockInv == "rotate_memory" \notin Admits =>
  \A s \in Drawables, t \in Threads : lock[s] = t <=> Holds(t, s)

Targets(s) == {t \in Threads : MapsTarget(t, s)}
Sources(s) == {t \in Threads : MapsSource(t, s)}
MapInv == \A s \in Drawables : map_cnt[s] = Cardinality(Targets(s)) + Cardinality(Sources(s))

\* What is being drawn on has pixels, and so has a source that is mapped, unless the
\* pixels are let go meanwhile.
PixelInv == "opposed" \notin Admits =>
  \A t \in Threads : /\ pc[t] \in Targeting => data[arg[t].dst]
                     /\ pc[t] = "composite" => data[arg[t].src]

\* A surface can be a source: it has pixels or shows a video. From its check on a call
\* has such a source, or none, or stands for a clear: the transfer of a source that is
\* mapped or blended does not fail.
Solid(s) == data[s] \/ Shows(s)
Checked == {"probe", "lock"} \cup Targeting
SourceInv == \A t \in Threads :
  /\ pc[t] \in Checked => arg[t].src = None \/ arg[t].clear \/ Solid(arg[t].src)
  /\ pc[t] \in Targeting => ~arg[t].clear

IInv == HeldTypes /\ CallInv /\ LockInv /\ MapInv /\ PixelInv /\ SourceInv

-----------------------------------------------------------------------------
(* One thread moves.                                                       *)

Bit(b) == IF b THEN 1 ELSE 0

Goes(t, x, a) == pc' = [pc EXCEPT ![t] = x] /\ arg' = [arg EXCEPT ![t] = a]

\* A step takes no pixels from a surface, and no video without leaving it pixels.
SolidNext(s) == data'[s] \/ (s \in Outputs /\ link'[s] # None)
Keeps == /\ data' \in [Drawables -> BOOLEAN] /\ link' \in [Outputs -> Rects \cup {None}]
         /\ \A s \in Drawables : (data[s] => data'[s]) /\ (Solid(s) => SolidNext(s))

LEMMA NothingChanges == ASSUME HeldTypes, data' = data, link' = link PROVE Keeps
  BY DEF HeldTypes, Keeps, Solid, SolidNext, Shows

\* A set that changes by t at most.
LEMMA Count ==
  ASSUME NEW A, NEW B, A \subseteq Threads, B \subseteq Threads, NEW t \in Threads,
         \A u \in Threads : u # t => (u \in A <=> u \in B)
  PROVE  /\ Cardinality(A) \in Nat /\ Cardinality(B) \in Nat
         /\ Cardinality(B) = Cardinality(A) + Bit(t \in B) - Bit(t \in A)
<1>1. IsFiniteSet(A) /\ IsFiniteSet(B)  BY DrawingAssumption, FS_Subset
<1>2. Cardinality(A) \in Nat /\ Cardinality(B) \in Nat  BY <1>1, FS_CardinalityType
<1>3. CASE t \in A /\ t \notin B
  <2>1. B = A \ {t}  BY <1>3
  <2> QED  BY <1>1, <1>2, <1>3, <2>1, FS_RemoveElement DEF Bit
<1>4. CASE t \in B /\ t \notin A
  <2>1. B = A \cup {t}  BY <1>4
  <2> QED  BY <1>1, <1>2, <1>4, <2>1, FS_AddElement DEF Bit
<1>5. CASE t \in A <=> t \in B
  <2>1. A = B  BY <1>5
  <2> QED  BY <1>2, <2>1 DEF Bit
<1> QED  BY <1>2, <1>3, <1>4, <1>5

\* Another thread stays where it is.
LEMMA OthersStay ==
  ASSUME HeldTypes, NEW t \in Threads, NEW x, NEW a, Goes(t, x, a)
  PROVE  /\ pc'[t] = x /\ arg'[t] = a
         /\ \A u \in Threads \ {t} : pc'[u] = pc[u] /\ arg'[u] = arg[u]
  BY DEF Goes, HeldTypes

LEMMA LockStep ==
  ASSUME HeldTypes, LockInv, NEW t \in Threads, NEW x, NEW a, Goes(t, x, a),
         "rotate_memory" \notin Admits =>
           \A s \in Drawables :
             /\ Holds(t, s)' => lock[s] \in {None, t}
             /\ lock'[s] = IF Holds(t, s)' THEN t ELSE IF lock[s] = t THEN None ELSE lock[s]
  PROVE  LockInv'
<1> SUFFICES ASSUME "rotate_memory" \notin Admits, NEW s \in Drawables, NEW u \in Threads
             PROVE  (lock[s] = u <=> Holds(u, s))'
  BY DEF LockInv
<1>1. lock[s] = u <=> Holds(u, s)  BY DEF LockInv
<1>2. None # u /\ None # t  BY DrawingAssumption
<1>3. CASE u = t  BY <1>2, <1>3
<1>4. CASE u # t
  <2>1. Holds(u, s)' <=> Holds(u, s)  BY <1>4, OthersStay DEF Holds, Locks
  <2> QED  BY <1>1, <1>2, <1>4, <2>1
<1> QED  BY <1>3, <1>4

LEMMA MapStep ==
  ASSUME HeldTypes, MapInv, NEW t \in Threads, NEW x, NEW a, Goes(t, x, a),
         \A s \in Drawables :
           map_cnt'[s] = map_cnt[s] + Bit(MapsTarget(t, s)') - Bit(MapsTarget(t, s))
                                    + Bit(MapsSource(t, s)') - Bit(MapsSource(t, s))
  PROVE  MapInv' /\ \A s \in Drawables : map_cnt'[s] \in Nat
<1> SUFFICES ASSUME NEW s \in Drawables
             PROVE  /\ map_cnt'[s] = Cardinality(Targets(s)') + Cardinality(Sources(s)')
                    /\ map_cnt'[s] \in Nat
  BY DEF MapInv
<1>1. map_cnt[s] = Cardinality(Targets(s)) + Cardinality(Sources(s))  BY DEF MapInv
<1>2. /\ Targets(s) \subseteq Threads /\ Targets(s)' \subseteq Threads
      /\ Sources(s) \subseteq Threads /\ Sources(s)' \subseteq Threads
      /\ t \in Targets(s) <=> MapsTarget(t, s)
      /\ t \in Targets(s)' <=> MapsTarget(t, s)'
      /\ t \in Sources(s) <=> MapsSource(t, s)
      /\ t \in Sources(s)' <=> MapsSource(t, s)'
  BY DEF Targets, Sources
<1>3. \A u \in Threads : u # t => /\ u \in Targets(s) <=> u \in Targets(s)'
                                  /\ u \in Sources(s) <=> u \in Sources(s)'
  BY OthersStay DEF Targets, Sources, MapsTarget, MapsSource, MapsDst, MapsSrc
<1>4. /\ Cardinality(Targets(s)) \in Nat /\ Cardinality(Targets(s)') \in Nat
      /\ Cardinality(Targets(s)') =
           Cardinality(Targets(s)) + Bit(MapsTarget(t, s)') - Bit(MapsTarget(t, s))
  <2> DEFINE A == Targets(s)
             B == Targets(s)'
  <2>1. /\ A \subseteq Threads /\ B \subseteq Threads
        /\ \A u \in Threads : u # t => (u \in A <=> u \in B)
        /\ t \in A <=> MapsTarget(t, s)
        /\ t \in B <=> MapsTarget(t, s)'
    BY <1>2, <1>3
  <2> HIDE DEF A, B
  <2>2. /\ Cardinality(A) \in Nat /\ Cardinality(B) \in Nat
        /\ Cardinality(B) = Cardinality(A) + Bit(t \in B) - Bit(t \in A)
    BY <2>1, Count
  <2>3. Bit(t \in B) = Bit(MapsTarget(t, s)') /\ Bit(t \in A) = Bit(MapsTarget(t, s))
    BY <2>1 DEF Bit
  <2> QED  BY <2>2, <2>3 DEF A, B
<1>5. /\ Cardinality(Sources(s)) \in Nat /\ Cardinality(Sources(s)') \in Nat
      /\ Cardinality(Sources(s)') =
           Cardinality(Sources(s)) + Bit(MapsSource(t, s)') - Bit(MapsSource(t, s))
  <2> DEFINE A == Sources(s)
             B == Sources(s)'
  <2>1. /\ A \subseteq Threads /\ B \subseteq Threads
        /\ \A u \in Threads : u # t => (u \in A <=> u \in B)
        /\ t \in A <=> MapsSource(t, s)
        /\ t \in B <=> MapsSource(t, s)'
    BY <1>2, <1>3
  <2> HIDE DEF A, B
  <2>2. /\ Cardinality(A) \in Nat /\ Cardinality(B) \in Nat
        /\ Cardinality(B) = Cardinality(A) + Bit(t \in B) - Bit(t \in A)
    BY <2>1, Count
  <2>3. Bit(t \in B) = Bit(MapsSource(t, s)') /\ Bit(t \in A) = Bit(MapsSource(t, s))
    BY <2>1 DEF Bit
  <2> QED  BY <2>2, <2>3 DEF A, B
<1>6. \A b \in BOOLEAN : Bit(b) \in {0, 1}  BY DEF Bit
<1> QED
  <2> DEFINE c == Cardinality(Targets(s))
             d == Cardinality(Targets(s)')
             e == Cardinality(Sources(s))
             f == Cardinality(Sources(s)')
             i == Bit(MapsTarget(t, s)')
             j == Bit(MapsTarget(t, s))
             k == Bit(MapsSource(t, s)')
             l == Bit(MapsSource(t, s))
  <2>1. i \in {0, 1} /\ j \in {0, 1} /\ k \in {0, 1} /\ l \in {0, 1}
    BY DEF Bit
  <2>2. /\ c \in Nat /\ d \in Nat /\ e \in Nat /\ f \in Nat /\ map_cnt[s] = c + e
        /\ d = c + i - j /\ f = e + k - l /\ map_cnt'[s] = map_cnt[s] + i - j + k - l
    BY <1>1, <1>4, <1>5
  <2> HIDE DEF c, d, e, f, i, j, k, l
  <2>3. map_cnt'[s] = d + f  BY <2>1, <2>2
  <2> QED  BY <2>2, <2>3 DEF d, f

\* What a step of thread t to x with the arguments a has to do.
LEMMA StepInv ==
  ASSUME IInv, NEW t \in Threads, NEW x \in Steps, NEW a \in Draws \cup {None}, Goes(t, x, a),
         x # "idle" => a \in Draws /\ a.src # a.dst,
         x \notin {"idle", "lock"} => a.src \in Drawables,
         lock' \in [Drawables -> Threads \cup {None}],
         "rotate_memory" \notin Admits =>
           \A s \in Drawables :
             /\ Locks(x, a, s) => lock[s] \in {None, t}
             /\ lock'[s] = IF Locks(x, a, s) THEN t ELSE IF lock[s] = t THEN None ELSE lock[s],
         map_cnt' = [s \in Drawables |-> map_cnt'[s]],
         \A s \in Drawables :
           map_cnt'[s] = map_cnt[s] + Bit(MapsDst(x, a, s)) - Bit(MapsTarget(t, s))
                                    + Bit(MapsSrc(x, a, s)) - Bit(MapsSource(t, s)),
         Keeps, x \in Targeting => data'[a.dst] \/ "opposed" \in Admits,
         x = "composite" => data'[a.src],
         x \in Checked => a.src = None \/ a.clear \/ SolidNext(a.src),
         x \in Targeting => ~a.clear
  PROVE  IInv'
<1> USE DEF IInv
<1>1. /\ pc'[t] = x /\ arg'[t] = a
      /\ \A u \in Threads \ {t} : pc'[u] = pc[u] /\ arg'[u] = arg[u]
  BY OthersStay
<1>2. LockInv'
  <2>1. \A s \in Drawables : Holds(t, s)' <=> Locks(x, a, s)  BY <1>1 DEF Holds, Locks
  <2> QED  BY <2>1, LockStep
<1>3. MapInv' /\ \A s \in Drawables : map_cnt'[s] \in Nat
  <2>1. \A s \in Drawables : /\ MapsTarget(t, s)' <=> MapsDst(x, a, s)
                             /\ MapsSource(t, s)' <=> MapsSrc(x, a, s)
    BY <1>1 DEF MapsTarget, MapsSource, MapsDst, MapsSrc
  <2>2. \A s \in Drawables : /\ Bit(MapsTarget(t, s)') = Bit(MapsDst(x, a, s))
                             /\ Bit(MapsSource(t, s)') = Bit(MapsSrc(x, a, s))
    BY <2>1 DEF Bit
  <2>3. \A s \in Drawables :
          map_cnt'[s] = map_cnt[s] + Bit(MapsTarget(t, s)') - Bit(MapsTarget(t, s))
                                   + Bit(MapsSource(t, s)') - Bit(MapsSource(t, s))
    BY <2>2
  <2> QED  BY <2>3, MapStep
<1>4. HeldTypes'  BY <1>3 DEF HeldTypes, Goes, Keeps
<1>5. CallInv'  BY <1>1 DEF CallInv
<1>6. PixelInv'
  <2> SUFFICES ASSUME "opposed" \notin Admits, NEW u \in Threads
               PROVE  /\ pc'[u] \in Targeting => data'[arg'[u].dst]
                      /\ pc'[u] = "composite" => data'[arg'[u].src]
    BY DEF PixelInv
  <2>1. CASE u = t  BY <1>1, <2>1
  <2>2. CASE u # t
    <3>1. /\ pc[u] # "idle" => arg[u] \in Draws
          /\ pc[u] \notin {"idle", "lock"} => arg[u].src \in Drawables
      BY DEF CallInv
    <3>2. arg[u] \in Draws => arg[u].dst \in Drawables  BY DEF Draws, Drawables
    <3>3. pc[u] \in Targeting => arg[u].dst \in Drawables /\ arg[u].src \in Drawables
      BY <3>1, <3>2 DEF Targeting
    <3> QED  BY <1>1, <2>2, <3>3 DEF PixelInv, Targeting, Keeps
  <2> QED  BY <2>1, <2>2
<1>7. SourceInv'
  <2> SUFFICES ASSUME NEW u \in Threads
               PROVE  /\ pc'[u] \in Checked =>
                           arg'[u].src = None \/ arg'[u].clear \/ SolidNext(arg'[u].src)
                      /\ pc'[u] \in Targeting => ~arg'[u].clear
    BY DEF SourceInv, Solid, SolidNext, Shows
  <2>1. CASE u = t  BY <1>1, <2>1
  <2>2. CASE u # t
    <3>1. /\ pc[u] \in Checked => arg[u].src = None \/ arg[u].clear \/ Solid(arg[u].src)
          /\ pc[u] \in Targeting => ~arg[u].clear
      BY DEF SourceInv
    <3>2. pc[u] \in Checked => arg[u].src \in Drawables \cup {None}
      BY DEF CallInv, Checked, Targeting, Draws
    <3> QED  BY <1>1, <2>2, <3>1, <3>2 DEF Keeps
  <2> QED  BY <2>1, <2>2
<1> QED  BY <1>2, <1>3, <1>4, <1>5, <1>6, <1>7
-----------------------------------------------------------------------------
(* The calls.                                                              *)

\* What a call that is under way has.
LEMMA Underway ==
  ASSUME IInv, NEW t \in Threads, pc[t] # "idle"
  PROVE  /\ arg[t] \in Draws /\ arg[t].dst \in Drawables /\ arg[t].src # arg[t].dst
         /\ arg[t].rects \in Rects
         /\ pc[t] # "lock" => arg[t].src \in Drawables
         /\ "rotate_memory" \notin Admits =>
              \A s \in Drawables : lock[s] = t <=> Locks(pc[t], arg[t], s)
         /\ pc \in [Threads -> Steps] /\ arg \in [Threads -> Draws \cup {None}]
         /\ lock \in [Drawables -> Threads \cup {None}] /\ map_cnt \in [Drawables -> Nat]
         /\ data \in [Drawables -> BOOLEAN]
         /\ pc[t] \in Checked => arg[t].src = None \/ arg[t].clear \/ Solid(arg[t].src)
         /\ pc[t] \in Targeting => ~arg[t].clear
         /\ pc[t] \in Targeting => Solid(arg[t].src)
<1>1. None \notin Drawables  BY DrawingAssumption DEF Drawables
<1> QED  BY <1>1 DEF IInv, CallInv, LockInv, SourceInv, HeldTypes, Holds, Draws, Drawables,
            Checked, Targeting

LEMMA BeginHolds ==
  ASSUME IInv, NEW t \in Threads, BeginDraw(t)
  PROVE  IInv'
<1>1. PICK a \in Draws : /\ MayDraw(a) /\ arg' = [arg EXCEPT ![t] = a]
                         /\ Goto(t, IF a.src = None THEN "lock" ELSE "check")
  BY DEF BeginDraw
<1>2. pc[t] = "idle" /\ UNCHANGED <<data, link, map_cnt, lock>>  BY DEF BeginDraw
<1> DEFINE x == IF a.src = None THEN "lock" ELSE "check"
<1>3. x \in Steps /\ Goes(t, x, a)  BY <1>1 DEF Steps, Goes, Goto
<1>4. a.src # a.dst  BY <1>1 DEF MayDraw
<1>5. x \notin {"idle", "lock"} => a.src \in Drawables  BY DEF Draws
<1>6. x \in {"lock", "check"} /\ (x = "lock" => a.src = None)  OBVIOUS
<1> HIDE DEF x
<1>7. HeldTypes /\ LockInv  BY DEF IInv
<1>8. "rotate_memory" \notin Admits => \A s \in Drawables : lock[s] # t
  BY <1>2, <1>7 DEF LockInv, Holds, Locks, Targeting
<1>9. \A s \in Drawables :
        /\ ~Locks(x, a, s) /\ ~MapsDst(x, a, s) /\ ~MapsSrc(x, a, s)
        /\ ~MapsTarget(t, s) /\ ~MapsSource(t, s)
  BY <1>2, <1>6 DEF Locks, MapsDst, MapsSrc, MapsTarget, MapsSource, Targeting
<1>10. \A s \in Drawables :
         map_cnt'[s] = map_cnt[s] + Bit(MapsDst(x, a, s)) - Bit(MapsTarget(t, s))
                                  + Bit(MapsSrc(x, a, s)) - Bit(MapsSource(t, s))
  BY <1>2, <1>7, <1>9 DEF Bit, HeldTypes
<1>11. /\ x \notin Targeting /\ x # "composite"
       /\ x \in Checked => a.src = None
  BY <1>6 DEF Targeting, Checked
<1>12. Keeps  BY <1>2, <1>7, NothingChanges
<1> QED  BY <1>2, <1>3, <1>4, <1>5, <1>7, <1>8, <1>9, <1>10, <1>11, <1>12, StepInv DEF HeldTypes

\* A step that neither maps nor unmaps.
LEMMA PlainStep ==
  ASSUME IInv, NEW t \in Threads, pc[t] \notin {"idle", "map_source", "composite"},
         NEW x \in Steps, x \notin {"map_source", "composite"},
         NEW a \in Draws \cup {None}, Goes(t, x, a),
         x # "idle" => a \in Draws /\ a.src = arg[t].src /\ a.dst = arg[t].dst,
         x \in {"idle", "lock"} \/ pc[t] # "lock" \/ a.src \in Drawables,
         lock' \in [Drawables -> Threads \cup {None}],
         "rotate_memory" \notin Admits =>
           \A s \in Drawables :
             /\ Locks(x, a, s) => lock[s] \in {None, t}
             /\ lock'[s] = IF Locks(x, a, s) THEN t ELSE IF lock[s] = t THEN None ELSE lock[s],
         map_cnt' = map_cnt, Keeps, x \in Targeting => data'[a.dst],
         x \in Checked => a.src = None \/ a.clear \/ SolidNext(a.src),
         x \in Targeting => ~a.clear
  PROVE  IInv'
<1>1. \A s \in Drawables : /\ ~MapsDst(x, a, s) /\ ~MapsSrc(x, a, s)
                           /\ ~MapsTarget(t, s) /\ ~MapsSource(t, s)
  BY DEF MapsDst, MapsSrc, MapsTarget, MapsSource
<1>2. \A s \in Drawables :
        map_cnt'[s] = map_cnt[s] + Bit(MapsDst(x, a, s)) - Bit(MapsTarget(t, s))
                                 + Bit(MapsSrc(x, a, s)) - Bit(MapsSource(t, s))
  BY <1>1, Underway DEF Bit
<1>3. map_cnt' = [s \in Drawables |-> map_cnt'[s]]  BY Underway
<1>4. x # "idle" => a.src # a.dst  BY Underway
<1>5. x \notin {"idle", "lock"} => a.src \in Drawables  BY Underway
<1> QED  BY <1>2, <1>3, <1>4, <1>5, StepInv

LEMMA CheckHolds ==
  ASSUME IInv, NEW t \in Threads, CheckSource(t) \/ ProbeRotation(t)
  PROVE  IInv'
<1>1. CASE CheckSource(t)
  <2>1. /\ pc[t] = "check" /\ Free(arg[t].src, t)
        /\ UNCHANGED <<data, link, map_cnt>>
        /\ \/ /\ lock' = [lock EXCEPT ![arg[t].src] = t]
              /\ Goto(t, "probe") /\ UNCHANGED arg /\ Shows(arg[t].src)
           \/ /\ Goto(t, "lock") /\ UNCHANGED lock
              /\ arg' = [arg EXCEPT ![t].clear =
                           ~data[arg[t].src] /\ ~Shows(arg[t].src)]
    BY <1>1 DEF CheckSource, Probes
  <2>2. pc[t] # "idle" /\ arg[t].src \in Drawables /\ HeldTypes /\ Keeps
    BY <2>1, Underway, NothingChanges DEF IInv
  <2>3. "rotate_memory" \notin Admits => \A s \in Drawables : lock[s] # t
    BY <2>1, Underway DEF Locks, Targeting
  <2>4. "probe" \in Steps /\ "lock" \in Steps  BY DEF Steps
  <2>5. CASE /\ lock' = [lock EXCEPT ![arg[t].src] = t]
             /\ Goto(t, "probe") /\ UNCHANGED arg /\ Shows(arg[t].src)
    <3>1. Goes(t, "probe", arg[t])  BY <2>2, <2>5, Underway DEF Goes, Goto
    <3>2. \A s \in Drawables : Locks("probe", arg[t], s) <=> s = arg[t].src
      BY DEF Locks, Targeting
    <3>3. lock' \in [Drawables -> Threads \cup {None}]  BY <2>2, <2>5, Underway
    <3>4. "rotate_memory" \notin Admits =>
            \A s \in Drawables :
              /\ Locks("probe", arg[t], s) => lock[s] \in {None, t}
              /\ lock'[s] = IF Locks("probe", arg[t], s) THEN t
                            ELSE IF lock[s] = t THEN None ELSE lock[s]
      BY <2>1, <2>2, <2>3, <2>5, <3>2, Underway DEF Free
    <3>5. SolidNext(arg[t].src)  BY <2>1, <2>5 DEF SolidNext, Shows
    <3> QED  BY <2>1, <2>2, <2>4, <3>1, <3>3, <3>4, <3>5, Underway, PlainStep DEF Targeting
  <2>6. CASE /\ Goto(t, "lock") /\ UNCHANGED lock
             /\ arg' = [arg EXCEPT ![t].clear =
                          ~data[arg[t].src] /\ ~Shows(arg[t].src)]
    <3> DEFINE c == ~data[arg[t].src] /\ ~Shows(arg[t].src)
               a == [arg[t] EXCEPT !.clear = c]
    <3>1. c \in BOOLEAN  OBVIOUS
    <3>2. Goes(t, "lock", a)  BY <2>2, <2>6, Underway DEF Goes, Goto
    <3>5. c \/ SolidNext(arg[t].src)  BY <2>1 DEF SolidNext, Shows
    <3> HIDE DEF c
    <3>3. a \in Draws /\ a.src = arg[t].src /\ a.dst = arg[t].dst
          /\ (a.clear <=> c)
      BY <2>2, <3>1, Underway DEF Draws
    <3> HIDE DEF a
    <3>4. \A s \in Drawables : ~Locks("lock", a, s)  BY DEF Locks, Targeting
    <3>6. a.clear \/ SolidNext(a.src)  BY <3>3, <3>5
    <3> QED  BY <2>1, <2>2, <2>3, <2>4, <2>6, <3>2, <3>3, <3>4, <3>6, Underway, PlainStep
             DEF Targeting
  <2> QED  BY <2>1, <2>5, <2>6
<1>2. CASE ProbeRotation(t)
  <2> DEFINE c == SourceOf(arg[t].rects) = TargetOf(link[arg[t].src])
             a == [arg[t] EXCEPT !.hw_rotate = c]
  <2>1. /\ pc[t] = "probe" /\ UNCHANGED <<data, link, map_cnt>>
        /\ arg' = [arg EXCEPT ![t].hw_rotate = c]
        /\ lock' = [lock EXCEPT ![arg[t].src] = None] /\ Goto(t, "lock")
    BY <1>2 DEF ProbeRotation
  <2>2. pc[t] # "idle" /\ arg[t].src \in Drawables /\ HeldTypes /\ Keeps
    BY <2>1, Underway, NothingChanges DEF IInv
  <2>3. c \in BOOLEAN  OBVIOUS
  <2>4. Goes(t, "lock", a)  BY <2>1, <2>2, Underway DEF Goes, Goto
  <2> HIDE DEF c
  <2>5. a \in Draws /\ a.src = arg[t].src /\ a.dst = arg[t].dst /\ a.clear = arg[t].clear
    BY <2>2, <2>3, Underway DEF Draws
  <2> HIDE DEF a
  <2>6. \A s \in Drawables : ~Locks("lock", a, s)  BY DEF Locks, Targeting
  <2>7. "rotate_memory" \notin Admits => \A s \in Drawables : lock[s] = t <=> s = arg[t].src
    BY <2>1, <2>2, Underway DEF Locks, Targeting
  <2>8. lock' \in [Drawables -> Threads \cup {None}]  BY <2>1, <2>2, Underway
  <2>9. "rotate_memory" \notin Admits =>
          \A s \in Drawables : lock'[s] = IF lock[s] = t THEN None ELSE lock[s]
    BY <2>1, <2>2, <2>7, Underway
  <2>10. "lock" \in Steps  BY DEF Steps
  <2>11. a.clear \/ SolidNext(a.src)
    <3>1. arg[t].clear \/ Solid(arg[t].src)
      BY <2>1, <2>2, Underway, DrawingAssumption DEF Checked, Drawables
    <3> QED  BY <2>2, <2>5, <3>1 DEF Keeps
  <2> QED  BY <2>1, <2>2, <2>4, <2>5, <2>6, <2>8, <2>9, <2>10, <2>11, Underway, PlainStep
           DEF Targeting
<1> QED  BY <1>1, <1>2

\* While memory suffices for surfaces that show a video, a transfer that returns 0
\* leaves pixels, and so does the preparation of a destination.
LEMMA TransferGives ==
  ASSUME HeldTypes, "linked_memory" \notin Admits, NEW s \in Drawables,
         NEW x \in Transfers(s) \cup Prepared(s), Becomes(s, x)
  PROVE  x.has /\ data'[s] /\ Keeps
<1>1. \A y \in Transfers(s) : y.has = TRUE  BY DEF Transfers, NoMemoryFor
<1>2. x.has = TRUE  BY <1>1 DEF Prepared
<1>3. data' = [data EXCEPT ![s] = TRUE]  BY <1>2 DEF Becomes
<1>4. CASE Shows(s)
  <2>1. link' = [link EXCEPT ![s] = None] /\ s \in Outputs  BY <1>4 DEF Becomes, Shows
  <2> QED  BY <1>2, <1>3, <2>1 DEF HeldTypes, Keeps, Solid, SolidNext, Shows
<1>5. CASE ~Shows(s)
  <2>1. link' = link  BY <1>5 DEF Becomes
  <2> QED  BY <1>2, <1>3, <2>1 DEF HeldTypes, Keeps, Solid, SolidNext, Shows
<1> QED  BY <1>4, <1>5

\* A call returns before it has a lock.
LEMMA ReturnUnlocked ==
  ASSUME IInv, NEW t \in Threads, pc[t] = "lock", Return(t), UNCHANGED <<lock, map_cnt>>, Keeps
  PROVE  IInv'
<1>1. Goes(t, "idle", None) /\ "idle" \in Steps  BY DEF Return, Goes, Steps
<1>2. \A s \in Drawables : ~Locks("idle", None, s) /\ ~Locks("lock", arg[t], s)
  BY DEF Locks, Targeting
<1>3. "rotate_memory" \notin Admits => \A s \in Drawables : lock[s] # t  BY <1>2, Underway
<1>4. lock' \in [Drawables -> Threads \cup {None}]  BY Underway
<1>5. "idle" \notin Targeting  BY DEF Targeting
<1> QED  BY <1>1, <1>2, <1>3, <1>4, <1>5, PlainStep DEF Checked

\* A call that has its destination locked, and nothing mapped, returns.
LEMMA ReturnUnlocking ==
  ASSUME IInv, NEW t \in Threads, pc[t] = "paint", Return(t), map_cnt' = map_cnt,
         Unlocked(t) \/ ("rotate_memory" \in Admits /\ lock' = lock), Keeps
  PROVE  IInv'
<1>1. Goes(t, "idle", None) /\ "idle" \in Steps  BY DEF Return, Goes, Steps
<1>2. \A s \in Drawables : ~Locks("idle", None, s) /\ (Locks("paint", arg[t], s) <=> s = arg[t].dst)
  BY DEF Locks, Targeting
<1>3. arg[t].dst \in Drawables  BY Underway
<1>4. lock' \in [Drawables -> Threads \cup {None}]  BY <1>3, Underway DEF Unlocked
<1>5. "rotate_memory" \notin Admits =>
        \A s \in Drawables : lock'[s] = IF lock[s] = t THEN None ELSE lock[s]
  BY <1>2, <1>3, Underway DEF Unlocked
<1>6. "idle" \notin Targeting  BY DEF Targeting
<1> QED  BY <1>1, <1>2, <1>4, <1>5, <1>6, PlainStep DEF Checked

LEMMA LockHolds ==
  ASSUME IInv, "linked_memory" \notin Admits, NEW t \in Threads,
         DrawNothing(t) \/ DrawNoMemory(t) \/ Clear(t) \/ PrepareTarget(t)
  PROVE  IInv'
<1>1. pc[t] = "lock" /\ Free(arg[t].dst, t) /\ UNCHANGED map_cnt
  BY DEF DrawNothing, DrawNoMemory, Clear, PrepareTarget, Drawing
<1>2. arg[t].dst \in Drawables /\ arg[t].dst \in Outputs /\ HeldTypes
  BY <1>1, Underway DEF IInv, Draws
<1>3. CASE DrawNothing(t)
  <2>1. Return(t) /\ UNCHANGED <<lock, data, link>>  BY <1>3 DEF DrawNothing
  <2> QED  BY <1>1, <1>2, <2>1, NothingChanges, ReturnUnlocked
<1>4. CASE DrawNoMemory(t)
  <2>1. /\ Return(t) /\ UNCHANGED <<lock, data>> /\ ~Shows(arg[t].dst)
        /\ link' = [link EXCEPT ![arg[t].dst] = None]
    BY <1>4 DEF DrawNoMemory, NoMemoryFor
  <2>2. link' = link  BY <1>2, <2>1 DEF HeldTypes, Shows
  <2> QED  BY <1>1, <1>2, <2>1, <2>2, NothingChanges, ReturnUnlocked
<1>5. CASE Clear(t)
  <2>1. Return(t) /\ UNCHANGED lock  BY <1>5 DEF Clear
  <2>2. \E x \in Prepared(arg[t].dst) : Becomes(arg[t].dst, x)  BY <1>5 DEF Clear
  <2> QED  BY <1>1, <1>2, <2>1, <2>2, ReturnUnlocked, TransferGives
<1>6. CASE PrepareTarget(t)
  <2>1. /\ arg[t].src # None /\ ~arg[t].clear
        /\ \/ Return(t) /\ UNCHANGED lock
           \/ Goto(t, "paint") /\ UNCHANGED arg /\ lock' = [lock EXCEPT ![arg[t].dst] = t]
    BY <1>6 DEF PrepareTarget
  <2>2. \E x \in Prepared(arg[t].dst) : Becomes(arg[t].dst, x)  BY <1>6 DEF PrepareTarget
  <2>3. data'[arg[t].dst] /\ Keeps  BY <1>2, <2>2, TransferGives
  <2>4. CASE Return(t) /\ UNCHANGED lock  BY <1>1, <2>3, <2>4, ReturnUnlocked
  <2>5. CASE Goto(t, "paint") /\ UNCHANGED arg /\ lock' = [lock EXCEPT ![arg[t].dst] = t]
    <3>1. Goes(t, "paint", arg[t]) /\ "paint" \in Steps
      BY <1>1, <2>5, Underway DEF Goes, Goto, Steps
    <3>2. \A s \in Drawables : /\ Locks("paint", arg[t], s) <=> s = arg[t].dst
                               /\ ~Locks("lock", arg[t], s)
      BY DEF Locks, Targeting
    <3>3. lock' \in [Drawables -> Threads \cup {None}]  BY <1>1, <1>2, <2>5, Underway
    <3>4. "rotate_memory" \notin Admits =>
            \A s \in Drawables :
              /\ Locks("paint", arg[t], s) => lock[s] \in {None, t}
              /\ lock'[s] = IF Locks("paint", arg[t], s) THEN t
                            ELSE IF lock[s] = t THEN None ELSE lock[s]
      BY <1>1, <1>2, <2>5, <3>2, Underway DEF Free
    <3>5. arg[t] \in Draws /\ arg[t].src \in Drawables
      BY <1>1, <2>1, Underway DEF Draws
    <3>6. SolidNext(arg[t].src)
      <4>1. Solid(arg[t].src)  BY <1>1, <2>1, Underway DEF Checked
      <4> QED  BY <2>3, <3>5, <4>1 DEF Keeps
    <3> QED  BY <1>1, <2>1, <2>3, <3>1, <3>3, <3>4, <3>5, <3>6, PlainStep
  <2> QED  BY <2>1, <2>4, <2>5
<1> QED  BY <1>3, <1>4, <1>5, <1>6

\* The engines' ways to paint.
LEMMA PaintHolds ==
  ASSUME IInv, "linked_memory" \notin Admits, NEW t \in Threads,
         Blend(t) \/ RotateVideo(t) \/ Copy(t)
  PROVE  IInv'
<1>1. pc[t] = "paint" /\ map_cnt' = map_cnt  BY DEF Blend, RotateVideo, Copy
<1>2. arg[t].src \in Drawables /\ HeldTypes  BY <1>1, Underway DEF IInv
<1>3. CASE Blend(t)
  <2>1. CASE Unlocked(t) /\ Return(t) /\ UNCHANGED <<data, link>>
    BY <1>1, <1>2, <2>1, NothingChanges, ReturnUnlocking
  <2>2. CASE \E x \in Transfers(arg[t].src) :
               /\ Becomes(arg[t].src, x)
               /\ x.has => Unlocked(t) /\ Return(t)
    BY <1>1, <1>2, <2>2, TransferGives, ReturnUnlocking
  <2> QED  BY <1>3, <2>1, <2>2 DEF Blend, EngineDrew
<1>4. CASE RotateVideo(t) \/ Copy(t)
  <2>1. /\ Return(t) /\ UNCHANGED <<data, link>>
        /\ Unlocked(t) \/ ("rotate_memory" \in Admits /\ lock' = lock)
    BY <1>4 DEF RotateVideo, Copy, EngineDrew
  <2> QED  BY <1>1, <1>2, <2>1, NothingChanges, ReturnUnlocking
<1> QED  BY <1>3, <1>4

\* The locks of a call that has its destination's and keeps it.
LEMMA LocksKept ==
  ASSUME IInv, NEW t \in Threads, pc[t] \in Targeting, lock' = lock, NEW x \in Targeting
  PROVE  "rotate_memory" \notin Admits =>
           \A s \in Drawables :
             /\ Locks(x, arg[t], s) => lock[s] \in {None, t}
             /\ lock'[s] = IF Locks(x, arg[t], s) THEN t
                           ELSE IF lock[s] = t THEN None ELSE lock[s]
<1>1. \A s \in Drawables : /\ Locks(x, arg[t], s) <=> s = arg[t].dst
                           /\ Locks(pc[t], arg[t], s) <=> s = arg[t].dst
  BY DEF Locks, Targeting
<1>2. pc[t] # "idle"  BY DEF Targeting
<1> QED  BY <1>1, <1>2, Underway

LEMMA LocksGiven ==
  ASSUME IInv, NEW t \in Threads, pc[t] \in Targeting, Unlocked(t)
  PROVE  /\ lock' \in [Drawables -> Threads \cup {None}]
         /\ "rotate_memory" \notin Admits =>
              \A s \in Drawables :
                /\ Locks("idle", None, s) => lock[s] \in {None, t}
                /\ lock'[s] = IF Locks("idle", None, s) THEN t
                              ELSE IF lock[s] = t THEN None ELSE lock[s]
<1>1. \A s \in Drawables : /\ ~Locks("idle", None, s)
                           /\ Locks(pc[t], arg[t], s) <=> s = arg[t].dst
  BY DEF Locks, Targeting
<1>2. pc[t] # "idle"  BY DEF Targeting
<1> QED  BY <1>1, <1>2, Underway DEF Unlocked

LEMMA MapTargetHolds ==
  ASSUME IInv, NEW t \in Threads, MapTarget(t)
  PROVE  IInv'
<1>1. /\ pc[t] = "paint" /\ UNCHANGED <<data, link>>
      /\ \/ /\ map_cnt' = [map_cnt EXCEPT ![arg[t].dst] = map_cnt[arg[t].dst] + 1]
            /\ Goto(t, "map_source") /\ UNCHANGED <<arg, lock>>
         \/ Unlocked(t) /\ Return(t) /\ UNCHANGED map_cnt
  BY DEF MapTarget
<1>2. HeldTypes /\ pc[t] \in Targeting /\ Keeps
  BY <1>1, NothingChanges DEF IInv, Targeting
<1>3. CASE Unlocked(t) /\ Return(t) /\ UNCHANGED map_cnt
  BY <1>1, <1>2, <1>3, ReturnUnlocking
<1>4. CASE /\ map_cnt' = [map_cnt EXCEPT ![arg[t].dst] = map_cnt[arg[t].dst] + 1]
           /\ Goto(t, "map_source") /\ UNCHANGED <<arg, lock>>
  <2>1. /\ Goes(t, "map_source", arg[t]) /\ "map_source" \in Steps
        /\ "map_source" \in Targeting
    BY <1>1, <1>4, Underway DEF Goes, Goto, Steps, Targeting
  <2>2. \A s \in Drawables :
          /\ MapsDst("map_source", arg[t], s) <=> s = arg[t].dst
          /\ ~MapsSrc("map_source", arg[t], s) /\ ~MapsTarget(t, s) /\ ~MapsSource(t, s)
    BY <1>1 DEF MapsDst, MapsSrc, MapsTarget, MapsSource
  <2>3. /\ map_cnt' = [s \in Drawables |-> map_cnt'[s]]
        /\ \A s \in Drawables :
             map_cnt'[s] = map_cnt[s] + Bit(MapsDst("map_source", arg[t], s)) - Bit(MapsTarget(t, s))
                                      + Bit(MapsSrc("map_source", arg[t], s)) - Bit(MapsSource(t, s))
    <3>1. arg[t].dst \in Drawables /\ map_cnt \in [Drawables -> Nat]
      BY <1>1, <1>2, Underway DEF HeldTypes
    <3>2. \A s \in Drawables : map_cnt'[s] = map_cnt[s] + (IF s = arg[t].dst THEN 1 ELSE 0)
      BY <1>4, <3>1
    <3>3. map_cnt' = [s \in Drawables |-> map_cnt'[s]]  BY <1>4, <3>1
    <3>4. \A s \in Drawables : map_cnt[s] \in Nat  BY <3>1
    <3> QED  BY <2>2, <3>2, <3>3, <3>4 DEF Bit
  <2>4. "opposed" \notin Admits => data[arg[t].dst]  BY <1>2 DEF IInv, PixelInv
  <2>5. /\ arg[t] \in Draws /\ arg[t].src \in Drawables /\ arg[t].src # arg[t].dst
        /\ lock' \in [Drawables -> Threads \cup {None}]
        /\ SolidNext(arg[t].src) /\ ~arg[t].clear
    BY <1>1, <1>2, <1>4, Underway DEF HeldTypes, Keeps
  <2>6. "rotate_memory" \notin Admits =>
          \A s \in Drawables :
            /\ Locks("map_source", arg[t], s) => lock[s] \in {None, t}
            /\ lock'[s] = IF Locks("map_source", arg[t], s) THEN t
                          ELSE IF lock[s] = t THEN None ELSE lock[s]
    BY <1>2, <1>4, <2>1, LocksKept
  <2> QED  BY <1>1, <1>2, <2>1, <2>3, <2>4, <2>5, <2>6, StepInv
<1> QED  BY <1>1, <1>3, <1>4

LEMMA MapSourceHolds ==
  ASSUME IInv, "linked_memory" \notin Admits, NEW t \in Threads, MapSource(t)
  PROVE  IInv'
<1>1. pc[t] = "map_source"  BY DEF MapSource
<1>2. /\ HeldTypes /\ pc[t] \in Targeting
      /\ arg[t] \in Draws /\ arg[t].src \in Drawables /\ arg[t].src # arg[t].dst
      /\ arg[t].dst \in Drawables /\ map_cnt \in [Drawables -> Nat]
      /\ Solid(arg[t].src) /\ ~arg[t].clear
  BY <1>1, Underway DEF IInv, Targeting, HeldTypes
<1>3. PICK x \in Transfers(arg[t].src) :
        /\ Becomes(arg[t].src, x)
        /\ \/ /\ map_cnt' = [map_cnt EXCEPT ![arg[t].src] = map_cnt[arg[t].src] + 1]
              /\ IF x.has THEN Goto(t, "composite") ELSE Crash
              /\ UNCHANGED <<arg, lock>>
           \/ /\ map_cnt' = [map_cnt EXCEPT ![arg[t].dst] = map_cnt[arg[t].dst] - 1]
              /\ Unlocked(t) /\ Return(t)
  BY <1>2 DEF MapSource, Fails, Solid
<1>4. x.has /\ data'[arg[t].src] /\ Keeps  BY <1>2, <1>3, TransferGives
<1>5. \A s \in Drawables : (MapsTarget(t, s) <=> s = arg[t].dst) /\ ~MapsSource(t, s)
  BY <1>1 DEF MapsDst, MapsSrc, MapsTarget, MapsSource
<1>6. CASE /\ map_cnt' = [map_cnt EXCEPT ![arg[t].src] = map_cnt[arg[t].src] + 1]
           /\ Goto(t, "composite") /\ UNCHANGED <<arg, lock>>
  <2>1. /\ Goes(t, "composite", arg[t]) /\ "composite" \in Steps
        /\ "composite" \in Targeting
    BY <1>1, <1>6, Underway DEF Goes, Goto, Steps, Targeting
  <2>2. \A s \in Drawables : /\ MapsDst("composite", arg[t], s) <=> s = arg[t].dst
                             /\ MapsSrc("composite", arg[t], s) <=> s = arg[t].src
    BY DEF MapsDst, MapsSrc
  <2>3. /\ map_cnt' = [s \in Drawables |-> map_cnt'[s]]
        /\ \A s \in Drawables :
             map_cnt'[s] = map_cnt[s] + Bit(MapsDst("composite", arg[t], s)) - Bit(MapsTarget(t, s))
                                      + Bit(MapsSrc("composite", arg[t], s)) - Bit(MapsSource(t, s))
    <3>1. \A s \in Drawables : map_cnt'[s] = map_cnt[s] + (IF s = arg[t].src THEN 1 ELSE 0)
      BY <1>2, <1>6
    <3>2. map_cnt' = [s \in Drawables |-> map_cnt'[s]]  BY <1>2, <1>6
    <3>3. \A s \in Drawables : map_cnt[s] \in Nat  BY <1>2
    <3> QED  BY <1>5, <2>2, <3>1, <3>2, <3>3 DEF Bit
  <2>4. "opposed" \notin Admits => data'[arg[t].dst]  BY <1>2, <1>4 DEF IInv, PixelInv, Keeps
  <2>5. lock' \in [Drawables -> Threads \cup {None}] /\ SolidNext(arg[t].src)
    BY <1>2, <1>4, <1>6 DEF HeldTypes, Keeps
  <2>6. "rotate_memory" \notin Admits =>
          \A s \in Drawables :
            /\ Locks("composite", arg[t], s) => lock[s] \in {None, t}
            /\ lock'[s] = IF Locks("composite", arg[t], s) THEN t
                          ELSE IF lock[s] = t THEN None ELSE lock[s]
    BY <1>2, <1>6, <2>1, LocksKept
  <2> QED  BY <1>2, <1>4, <2>1, <2>3, <2>4, <2>5, <2>6, StepInv
<1>7. CASE /\ map_cnt' = [map_cnt EXCEPT ![arg[t].dst] = map_cnt[arg[t].dst] - 1]
           /\ Unlocked(t) /\ Return(t)
  <2>1. Goes(t, "idle", None) /\ "idle" \in Steps  BY <1>7 DEF Return, Goes, Steps
  <2>2. \A s \in Drawables : ~MapsDst("idle", None, s) /\ ~MapsSrc("idle", None, s)
    BY DEF MapsDst, MapsSrc
  <2>3. /\ map_cnt' = [s \in Drawables |-> map_cnt'[s]]
        /\ \A s \in Drawables :
             map_cnt'[s] = map_cnt[s] + Bit(MapsDst("idle", None, s)) - Bit(MapsTarget(t, s))
                                      + Bit(MapsSrc("idle", None, s)) - Bit(MapsSource(t, s))
    <3>1. \A s \in Drawables : map_cnt'[s] = map_cnt[s] - (IF s = arg[t].dst THEN 1 ELSE 0)
      BY <1>2, <1>7
    <3>2. map_cnt' = [s \in Drawables |-> map_cnt'[s]]  BY <1>2, <1>7
    <3>3. \A s \in Drawables : map_cnt[s] \in Nat  BY <1>2
    <3> QED  BY <1>5, <2>2, <3>1, <3>2, <3>3 DEF Bit
  <2>4. "idle" \notin Targeting /\ "idle" \notin Checked  BY DEF Targeting, Checked
  <2>5. /\ lock' \in [Drawables -> Threads \cup {None}]
        /\ "rotate_memory" \notin Admits =>
             \A s \in Drawables :
               /\ Locks("idle", None, s) => lock[s] \in {None, t}
               /\ lock'[s] = IF Locks("idle", None, s) THEN t
                             ELSE IF lock[s] = t THEN None ELSE lock[s]
    BY <1>2, <1>7, LocksGiven
  <2> QED  BY <1>4, <2>1, <2>3, <2>4, <2>5, StepInv
<1> QED  BY <1>4, <1>6, <1>7, <1>3

LEMMA CompositeHolds ==
  ASSUME IInv, NEW t \in Threads, Composite(t)
  PROVE  IInv'
<1>1. /\ pc[t] = "composite" /\ UNCHANGED <<data, link>> /\ Unlocked(t) /\ Return(t)
      /\ map_cnt' = [map_cnt EXCEPT ![arg[t].dst] = @ - 1, ![arg[t].src] = @ - 1]
  BY DEF Composite
<1>2. /\ HeldTypes /\ pc[t] \in Targeting
      /\ arg[t].src \in Drawables /\ arg[t].src # arg[t].dst
      /\ arg[t].dst \in Drawables /\ map_cnt \in [Drawables -> Nat]
  BY <1>1, Underway DEF IInv, Targeting, HeldTypes
<1>3. /\ Goes(t, "idle", None) /\ "idle" \in Steps
      /\ "idle" \notin Targeting /\ "idle" \notin Checked
  BY <1>1 DEF Return, Goes, Steps, Targeting, Checked
<1>4. \A s \in Drawables : /\ MapsTarget(t, s) <=> s = arg[t].dst
                           /\ MapsSource(t, s) <=> s = arg[t].src
                           /\ ~MapsDst("idle", None, s) /\ ~MapsSrc("idle", None, s)
  BY <1>1 DEF MapsDst, MapsSrc, MapsTarget, MapsSource
<1>5. /\ map_cnt' = [s \in Drawables |-> map_cnt'[s]]
      /\ \A s \in Drawables :
           map_cnt'[s] = map_cnt[s] + Bit(MapsDst("idle", None, s)) - Bit(MapsTarget(t, s))
                                    + Bit(MapsSrc("idle", None, s)) - Bit(MapsSource(t, s))
  <2>1. \A s \in Drawables :
          map_cnt'[s] = map_cnt[s] - (IF s \in {arg[t].dst, arg[t].src} THEN 1 ELSE 0)
    BY <1>1, <1>2
  <2>2. map_cnt' = [s \in Drawables |-> map_cnt'[s]]  BY <1>1, <1>2
  <2>3. \A s \in Drawables : map_cnt[s] \in Nat  BY <1>2
  <2> QED  BY <1>2, <1>4, <2>1, <2>2, <2>3 DEF Bit
<1>6. Keeps  BY <1>1, <1>2, NothingChanges
<1>7. /\ lock' \in [Drawables -> Threads \cup {None}]
      /\ "rotate_memory" \notin Admits =>
           \A s \in Drawables :
             /\ Locks("idle", None, s) => lock[s] \in {None, t}
             /\ lock'[s] = IF Locks("idle", None, s) THEN t
                           ELSE IF lock[s] = t THEN None ELSE lock[s]
  BY <1>1, <1>2, LocksGiven
<1> QED  BY <1>3, <1>5, <1>6, <1>7, StepInv

-----------------------------------------------------------------------------
(* The calls that take one lock.                                           *)

\* No call under way goes on; a surface that no call uses may lose its pixels.
LEMMA OneLockHolds ==
  ASSUME IInv, UNCHANGED <<pc, arg, lock, map_cnt>>, data' \in [Drawables -> BOOLEAN],
         link' \in [Outputs -> Rects \cup {None}],
         \A s \in Drawables : MayWrite(s) \/ (data[s] => data'[s]),
         \A s \in Drawables : Solid(s) => SolidNext(s)
  PROVE  IInv'
<1>1. \A t \in Threads, s \in Drawables :
        /\ Holds(t, s)' = Holds(t, s) /\ MapsTarget(t, s)' = MapsTarget(t, s)
        /\ MapsSource(t, s)' = MapsSource(t, s)
  BY DEF Holds, MapsTarget, MapsSource
<1>2. \A s \in Drawables : Targets(s)' = Targets(s) /\ Sources(s)' = Sources(s)
  BY <1>1 DEF Targets, Sources
<1>3. HeldTypes' /\ CallInv'  BY DEF IInv, HeldTypes, CallInv
<1>4. LockInv'  BY <1>1 DEF IInv, LockInv
<1>5. MapInv'  BY <1>2 DEF IInv, MapInv
<1>6. PixelInv'
  <2> SUFFICES ASSUME "opposed" \notin Admits, NEW t \in Threads
               PROVE  /\ pc[t] \in Targeting => data'[arg[t].dst]
                      /\ pc[t] = "composite" => data'[arg[t].src]
    BY DEF PixelInv
  <2> SUFFICES ASSUME pc[t] \in Targeting
               PROVE  data'[arg[t].dst] /\ (pc[t] = "composite" => data'[arg[t].src])
    BY DEF Targeting
  <2>1. /\ arg[t] \in Draws /\ arg[t].dst \in Drawables /\ arg[t].src \in Drawables
        /\ data[arg[t].dst] /\ (pc[t] = "composite" => data[arg[t].src])
    BY Underway DEF Targeting, IInv, PixelInv
  <2>2. arg[t] # None  BY <2>1, DrawingAssumption DEF Drawables
  <2>3. ~MayWrite(arg[t].dst) /\ ~MayWrite(arg[t].src)
    BY <2>2 DEF MayWrite, Reading, Writing
  <2> QED  BY <2>1, <2>3
<1>7. SourceInv'
  <2> SUFFICES ASSUME NEW t \in Threads
               PROVE  /\ pc[t] \in Checked =>
                           arg[t].src = None \/ arg[t].clear \/ SolidNext(arg[t].src)
                      /\ pc[t] \in Targeting => ~arg[t].clear
    BY DEF SourceInv, Solid, SolidNext, Shows
  <2>1. pc[t] \in Checked => arg[t].src \in Drawables \cup {None}
    BY DEF IInv, CallInv, Checked, Targeting, Draws
  <2> QED  BY <2>1 DEF IInv, SourceInv
<1> QED  BY <1>3, <1>4, <1>5, <1>6, <1>7 DEF IInv

LEMMA PutAndMixHold ==
  ASSUME IInv, "linked_memory" \notin Admits,
         \/ \E s \in Drawables, p \in Rects : PutBits(s, TargetOf(p))
         \/ \E d \in Outputs, p \in Rects : Mix(d, p)
  PROVE  IInv'
<1>1. HeldTypes  BY DEF IInv
<1>2. CASE \E s \in Drawables, p \in Rects : PutBits(s, TargetOf(p))
  <2>1. PICK s \in Drawables, p \in Rects : PutBits(s, TargetOf(p))  BY <1>2
  <2>2. UNCHANGED <<arg, lock, map_cnt>>  BY <2>1 DEF PutBits
  <2>3. CASE UNCHANGED <<data, link, pc>>
    BY <1>1, <2>2, <2>3, NothingChanges, OneLockHolds DEF Keeps
  <2>4. CASE \E x \in Transfers(s) : Becomes(s, x) /\ (x.has => UNCHANGED pc)
    BY <1>1, <2>2, <2>4, TransferGives, OneLockHolds DEF Keeps
  <2> QED  BY <2>1, <2>3, <2>4 DEF PutBits
<1>3. CASE \E d \in Outputs, p \in Rects : Mix(d, p)
  <2>1. PICK d \in Outputs, p \in Rects : Mix(d, p)  BY <1>3
  <2>2. /\ UNCHANGED <<pc, arg, lock, map_cnt>> /\ MayWrite(d)
        /\ \/ data' = [data EXCEPT ![d] = FALSE] /\ link' = [link EXCEPT ![d] = p]
           \/ data' = [data EXCEPT ![d] = TRUE] /\ link' = [link EXCEPT ![d] = None]
           \/ /\ data' = data /\ link' = [link EXCEPT ![d] = None]
              /\ ~data[d] /\ ~Shows(d)
    <3>1. /\ UNCHANGED <<pc, arg, lock, map_cnt>> /\ MayWrite(d)
          /\ MixShare(d, p) \/ (\E under : MixBlit(d, p, under)) \/ MixNoMemory(d, p)
      BY <2>1 DEF Mix
    <3>2. MixShare(d, p) =>
            data' = [data EXCEPT ![d] = FALSE] /\ link' = [link EXCEPT ![d] = p]
      BY DEF MixShare
    <3>3. \A under : MixBlit(d, p, under) =>
            data' = [data EXCEPT ![d] = TRUE] /\ link' = [link EXCEPT ![d] = None]
      BY DEF MixBlit
    <3>4. MixNoMemory(d, p) => /\ data' = data /\ link' = [link EXCEPT ![d] = None]
                               /\ ~data[d] /\ ~Shows(d)
      BY DEF MixNoMemory, NoMemoryFor
    <3> QED  BY <3>1, <3>2, <3>3, <3>4
  <2>3. d \in Drawables /\ p # None  BY DrawingAssumption DEF Drawables
  <2>4. /\ data' \in [Drawables -> BOOLEAN] /\ link' \in [Outputs -> Rects \cup {None}]
        /\ \A s \in Drawables : s = d \/ data'[s] = data[s]
        /\ \A s \in Outputs : s = d \/ link'[s] = link[s]
    BY <1>1, <2>2, <2>3 DEF HeldTypes
  <2>5. Solid(d) => SolidNext(d)
    BY <1>1, <2>2, <2>3 DEF HeldTypes, Solid, SolidNext, Shows
  <2>6. \A s \in Drawables : Solid(s) => SolidNext(s)
    BY <2>4, <2>5 DEF Solid, SolidNext, Shows
  <2> QED  BY <2>2, <2>4, <2>6, OneLockHolds
<1> QED  BY <1>2, <1>3

-----------------------------------------------------------------------------

LEMMA InitInv == Init => IInv
<1> SUFFICES ASSUME Init PROVE IInv  OBVIOUS
<1>1. /\ data = [s \in Drawables |-> s \in Bitmaps] /\ map_cnt = [s \in Drawables |-> 0]
      /\ lock = [s \in Drawables |-> None] /\ pc = [t \in Threads |-> "idle"]
      /\ arg = [t \in Threads |-> None]
  BY DEF Init
<1>2. HeldTypes
  <2>1. link \in [Outputs -> Rects \cup {None}]  BY DEF Init
  <2> QED  BY <1>1, <2>1 DEF HeldTypes, Steps
<1>3. CallInv  BY <1>1 DEF CallInv
<1>4. \A t \in Threads, s \in Drawables : ~Holds(t, s) /\ ~MapsTarget(t, s) /\ ~MapsSource(t, s)
  BY <1>1 DEF Holds, Locks, Targeting, MapsTarget, MapsSource, MapsDst, MapsSrc
<1>5. LockInv  BY <1>1, <1>4, DrawingAssumption DEF LockInv
<1>6. \A s \in Drawables : Targets(s) = {} /\ Sources(s) = {}  BY <1>4 DEF Targets, Sources
<1>7. MapInv  BY <1>1, <1>6, FS_EmptySet DEF MapInv
<1>8. PixelInv  BY <1>1 DEF PixelInv, Targeting
<1>9. SourceInv  BY <1>1 DEF SourceInv, Checked, Targeting
<1> QED  BY <1>2, <1>3, <1>5, <1>7, <1>8, <1>9 DEF IInv

LEMMA NextInv ==
  ASSUME "linked_memory" \notin Admits
  PROVE  IInv /\ [Next]_vars => IInv'
<1> SUFFICES ASSUME IInv, [Next]_vars PROVE IInv'  OBVIOUS
<1>1. ASSUME NEW t \in Threads, BeginDraw(t) PROVE IInv'  BY <1>1, BeginHolds
<1>2. ASSUME NEW t \in Threads, DrawStep(t) PROVE IInv'
  BY <1>2, CheckHolds, LockHolds, PaintHolds, MapTargetHolds, MapSourceHolds, CompositeHolds
  DEF DrawStep
<1>3. CASE UNCHANGED vars
  <2>1. UNCHANGED <<pc, arg, lock, map_cnt, data, link>>  BY <1>3 DEF vars
  <2> QED  BY <2>1, NothingChanges, OneLockHolds DEF IInv, Keeps
<1> QED  BY <1>1, <1>2, <1>3, PutAndMixHold DEF Next

\* For any threads, surfaces, areas and rotations, as long as memory suffices for a
\* surface that shows a video ("linked_memory"): the steps of
\* surface_render_bitmap_surface between the locks take a call from one account of
\* what it has locked and mapped, and whether its source can be fetched, to the
\* next. The locks are accounted for unless "rotate_memory" is lifted, pixels
\* unless "opposed" is, the rest whatever other rule is lifted.
THEOREM DrawingInvariance ==
  ASSUME "linked_memory" \notin Admits
  PROVE  Spec => []IInv
<1>1. Init => IInv  BY InitInv
<1>2. IInv /\ [Next]_vars => IInv'  BY NextInv
<1> QED  BY <1>1, <1>2, PTL DEF Spec

\* Unless memory runs out for a rotation or for a surface that shows a video, no
\* way out of surface_render_bitmap_surface keeps a lock (pthread_mutex_unlock of
\* surf->lock) or a mapping (unmap_surface_data), and none gives back one it does
\* not have. Without memory, two do: rotate_surface_gr2d returns with its lock, and
\* surface_output.c:753-759 with the destination mapped. That the second is not
\* taken otherwise, however the surface changes between the check of the source and
\* its transfer, is SourceInv.
THEOREM NothingStaysHeld ==
  ASSUME "rotate_memory" \notin Admits, "linked_memory" \notin Admits
  PROVE  Spec => []NothingLeftHeld
<1>1. IInv => NothingLeftHeld
  <2> SUFFICES ASSUME IInv PROVE NothingLeftHeld  OBVIOUS
  <2>1. ASSUME NEW s \in Drawables, NEW t \in Threads, lock[s] = t
        PROVE  pc[t] # "idle" /\ s \in {arg[t].dst, arg[t].src}
    BY <2>1 DEF IInv, LockInv, Holds, Locks, Targeting
  <2>2. \A s \in Drawables :
          /\ Targets(s) = {t \in Threads : pc[t] \in {"map_source", "composite"} /\ arg[t].dst = s}
          /\ Sources(s) = {t \in Threads : pc[t] = "composite" /\ arg[t].src = s}
    BY DEF Targets, Sources, MapsTarget, MapsSource, MapsDst, MapsSrc
  <2> QED  BY <2>1, <2>2 DEF NothingLeftHeld, IInv, MapInv
<1> QED  BY <1>1, DrawingInvariance, PTL

MappedHavePixels == \A s \in Drawables : ~data[s] => map_cnt[s] = 0

\* A surface that is mapped has pixels, while no surface is drawn on that
\* another call reads and memory suffices for one that shows a video (without it,
\* the transfer returns 0 and a surface without pixels is mapped):
\* vdp_video_mixer_render, which lets the pixels of its output surface go, never
\* finds it mapped.
THEOREM MappedArePainted ==
  ASSUME "opposed" \notin Admits, "linked_memory" \notin Admits
  PROVE  Spec => []MappedHavePixels
<1>1. IInv => MappedHavePixels
  <2> SUFFICES ASSUME IInv, NEW s \in Drawables, ~data[s] PROVE map_cnt[s] = 0
    BY DEF MappedHavePixels
  <2>1. \A t \in Threads : ~MapsTarget(t, s) /\ ~MapsSource(t, s)
    BY DEF IInv, PixelInv, Targeting, MapsTarget, MapsSource, MapsDst, MapsSrc
  <2>2. Targets(s) = {} /\ Sources(s) = {}  BY <2>1 DEF Targets, Sources
  <2> QED  BY <2>2, FS_EmptySet DEF IInv, MapInv
<1> QED  BY <1>1, DrawingInvariance, PTL
=============================================================================
