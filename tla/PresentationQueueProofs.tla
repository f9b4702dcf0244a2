----------------------- MODULE PresentationQueueProofs -----------------------
(***************************************************************************)
(* Proofs about PresentationQueue, for all constants that satisfy its      *)
(* assumption: types, references, the status the application is told,      *)
(* waiters, the time of a display and the picture on screen.               *)
(*                                                                         *)
(* BaseInv says what a thread's step implies: its surface, its locks, its  *)
(* references to the queue. It needs no rule of the application, and is    *)
(* proved first (Base...), with what each step does to the threads         *)
(* (Moves). SInv says who holds each surface (Surf...), PictureInv in      *)
(* which order they are shown and where their pictures are (Picture...).   *)
(***************************************************************************)
EXTENDS PresentationQueue, FiniteSetTheorems, TLAPS

\* What is in a queue.
Elems(q) == {q[i] : i \in DOMAIN q}
Distinct(q) == \A i, j \in DOMAIN q : q[i] = q[j] => i = j

\* The application follows the rule to display idle surfaces.
Follows == "redisplay" \notin admits

\* What the references to surfaces need of the application: it replaces the queue only
\* if it displays idle surfaces and while no display is under way. If it does neither
\* but keeps to one queue, they are kept until the queue's thread has gone.
Both == {"redisplay", "late_display"}
Sane(a) == "new_queue" \in a => a \cap Both = {}
Tame == Sane(admits) /\ (Both \subseteq admits => pc[Queue] # "done")

\* Where a thread is: in a call on a surface, showing one, not showing it yet; the
\* queue's thread: leaving.
InCall == DisplaySteps \cup BlockSteps
Shows == {"show", "showing", "replacing"}
Before == {"display", "lock_surf", "show", "showing"}
Gone == {"exit", "exit_idle", "done"}
\* Threads that show s, that have a reference to the queue for a call or for closing it.
Showers(s) == {t \in Threads : arg[t] = s /\ pc[t] \in Shows}
Callers == {t \in Threads : arg[t] # None}
Closers == {t \in Threads : pc[t] = "close"}
\* disp_surf has a reference to s; an application that does not follow the rule may
\* lose it when the queue's thread ends.
Kept(s) == disp = s /\ (Follows \/ pc[Queue] # "done")
Replacing(s) == \E p \in Procs : pc[p] = "replacing" /\ arg[p] = s

\* The steps at which a thread holds pq->lock and pqt->lock.
Steps == InCall \cup QueueSteps \cup {"idle", "close", "join"}
PqSteps(p) ==
  IF p = Queue THEN Shows \cup {"scan", "prepare", "preparing", "exit", "exit_idle"}
  ELSE IF p = Overlap THEN {} ELSE Shows \cup {"lock_surf"}
PqtSteps == {"showing", "replacing", "preparing", "exit_idle"}

\* Where a thread is says whether it has a surface.
Fits(p, x, a) ==
  /\ p \in Threads => /\ x \in InCall \cup {"idle", "close", "join"}
                      /\ a # None <=> x \in InCall
  /\ p = Queue => /\ x \in QueueSteps \cup Shows
                  /\ x \in Shows => a # None
                  /\ a # None => x \in Shows \cup {"scan"}
  /\ p = Overlap => /\ x \in {"idle", "showing", "replacing"}
                    /\ a = None <=> x = "idle"

StepInv ==
  /\ \A p \in Procs : Fits(p, pc[p], arg[p])
  /\ todo # <<>> => pc[Queue] \in Shows \cup {"scan"}
  /\ pc[Queue] \in {"prepare", "preparing"} => next # None
  /\ arg[Overlap] # None => arg[Overlap] = disp

\* A lock is held by the thread that is where it is needed.
LockInv ==
  /\ \A p \in Procs : pqLock = p <=> pc[p] \in PqSteps(p)
  /\ \A p \in Procs : pqtLock = p <=> pc[p] \in PqtSteps
  /\ \A s \in Surfaces :
       /\ surfLock[s] \in Threads \cup {None}
       /\ \A t \in Threads : surfLock[s] = t <=> arg[t] = s /\ pc[t] \in Shows \cup {"try"}

QueueRefsInv ==
  pqRefs = Bit(pqHandle) + Cardinality(Callers) + Cardinality(Closers)

\* A surface is in the queue once.
ListInv ==
  /\ Distinct(list) /\ Distinct(todo) /\ Elems(list) \cap Elems(todo) = {}
  /\ arg[Queue] \notin Listed

\* QUEUED is what is in the list or in the hands of the queue's thread.
StatusInv ==
  /\ \A s \in Surfaces : status[s] = "queued" <=>
       s \in Listed \/ (arg[Queue] = s /\ pc[Queue] # "replacing")
  /\ \A t \in Threads : pc[t] \in Shows => status[arg[t]] # "queued"
  /\ \A p \in Procs \ {Overlap} : pc[p] = "replacing" => status[arg[p]] = "visible"

\* One call at a time uses a surface, but for two that wait.
UsersInv ==
  \A t, u \in Threads : t # u /\ arg[t] = arg[u] /\ arg[t] # None =>
    "two_waiters" \in admits /\ pc[t] \in BlockSteps /\ pc[u] \in BlockSteps

\* VISIBLE is what is on screen or being put there.
VisibleInv == Follows =>
  /\ \A s \in Surfaces : status[s] = "visible" <=> disp = s \/ Replacing(s)
  /\ \A t \in Threads : pc[t] \in Before => status[arg[t]] = "idle"
  /\ \A p \in Procs \ {Overlap} : pc[p] = "replacing" => disp # arg[p]

\* Every reference to a surface that the model accounts for.
Count(s) ==
  Bit(handle[s]) + Bit(s \in Listed) + Bit(arg[Queue] = s) + Bit(Kept(s))
  + Cardinality(Showers(s)) + Cardinality(Using(s))

RefInv ==
  \A s \in Surfaces : refcnt[s] >= Count(s) /\ (Follows => refcnt[s] = Count(s))

\* What holds when the queue is being destroyed and when its thread leaves.
EndInv == "late_display" \notin admits => (~pqHandle => Displaying = {})

ExitInv ==
  /\ pc[Queue] \in Gone => exit
  /\ exit => ~pqHandle
  /\ \A t \in Threads : pc[t] = "close" => ~pqHandle
  /\ pc[Queue] \in {"exit_idle", "done"} /\ "late_display" \notin admits => Listed = {}
  /\ pc[Queue] = "done" /\ Follows /\ "late_display" \notin admits => disp = None

\* Who is about to wait, or waits, does so for a surface that is not idle.
WaiterInv == "two_waiters" \notin admits =>
  \A t \in Threads : pc[t] \in {"try", "blocked"} => status[arg[t]] # "idle"

\* What the queue's thread has taken off the list was due.
TimeInv ==
  /\ pc[Queue] \in Shows \cup {"scan", "timed_out"} => time <= now
  /\ \A s \in Surfaces : arg[Queue] = s /\ pc[Queue] # "replacing" => due[s] <= time

SInv == /\ ListInv /\ StatusInv /\ UsersInv /\ VisibleInv /\ RefInv
        /\ EndInv /\ ExitInv /\ WaiterInv /\ TimeInv

BaseInv == TypeOK /\ StepInv /\ LockInv /\ QueueRefsInv
IInv == BaseInv /\ (Tame => SInv)

-----------------------------------------------------------------------------
\* A set loses or gains one element at most.
LEMMA OneChanged ==
  ASSUME NEW A, NEW B, NEW t, IsFiniteSet(A), A \ {t} = B \ {t}
  PROVE  /\ Cardinality(A) \in Nat /\ Cardinality(B) \in Nat
         /\ Cardinality(B) = Cardinality(A) - Bit(t \in A) + Bit(t \in B)
<1> DEFINE R == A \ {t}
<1>1. IsFiniteSet(R) /\ Cardinality(R) \in Nat /\ Cardinality(A) \in Nat
  BY FS_Subset, FS_CardinalityType
<1>2. \A X : X \ {t} = R => Cardinality(X) = Cardinality(R) + Bit(t \in X)
  <2> SUFFICES ASSUME NEW X, X \ {t} = R
               PROVE  Cardinality(X) = Cardinality(R) + Bit(t \in X)
    OBVIOUS
  <2> HIDE DEF R
  <2>1. CASE t \in X
    <3>1. X = R \cup {t} /\ t \notin R  BY <2>1
    <3>2. Cardinality(R \cup {t}) = Cardinality(R) + 1  BY <1>1, <3>1, FS_AddElement
    <3> QED  BY <2>1, <3>1, <3>2 DEF Bit
  <2>2. CASE t \notin X
    <3>1. X = R  BY <2>2
    <3> QED  BY <1>1, <2>2, <3>1 DEF Bit
  <2> QED  BY <2>1, <2>2
<1>3. Cardinality(A) = Cardinality(R) + Bit(t \in A)  BY <1>2
<1>4. Cardinality(B) = Cardinality(R) + Bit(t \in B)  BY <1>2
<1>5. Bit(t \in A) \in 0 .. 1 /\ Bit(t \in B) \in 0 .. 1  BY DEF Bit
<1> HIDE DEF R
<1> QED  BY <1>1, <1>3, <1>4, <1>5

(***************************************************************************)
(* What a step of one thread does to the others.                           *)
(***************************************************************************)

\* Thread p goes to step x with surface a; at most a thread that waits is woken.
Moves(p, x, a) ==
  /\ pc' \in [Procs -> Steps] /\ arg' \in [Procs -> Surfaces \cup {None}]
  /\ pc'[p] = x /\ arg'[p] = a
  /\ \A q \in Procs : q # p =>
       /\ arg'[q] = arg[q]
       /\ \/ pc'[q] = pc[q]
          \/ q \in Threads /\ pc[q] = "blocked" /\ pc'[q] = "unblocked"
          \/ q = Queue /\ pc[q] = "wait" /\ pc'[q] = "woken"

OthersStay(t) ==
  \A u \in Threads : u # t =>
    /\ arg'[u] = arg[u]
    /\ \/ pc'[u] = pc[u]
       \/ pc[u] = "blocked" /\ pc'[u] = "unblocked"

LEMMA Distinctness ==
  /\ None \notin Procs /\ None \notin Surfaces
  /\ Queue \notin Threads /\ Overlap \notin Threads /\ Queue # Overlap
  /\ Threads \subseteq Procs /\ Queue \in Procs /\ Overlap \in Procs
  BY PresentationAssumption DEF Procs

LEMMA MovesStay ==
  ASSUME NEW p, NEW x, NEW a, Moves(p, x, a) PROVE OthersStay(p)
  BY Distinctness DEF Moves, OthersStay

LEMMA CallCounts ==
  ASSUME NEW t, OthersStay(t)
  PROVE  /\ Cardinality(Callers) \in Nat /\ Cardinality(Closers) \in Nat
         /\ Cardinality(Callers)' \in Nat /\ Cardinality(Closers)' \in Nat
         /\ Cardinality(Callers)' = Cardinality(Callers) - Bit(t \in Callers) + Bit(t \in Callers')
         /\ Cardinality(Closers)' = Cardinality(Closers) - Bit(t \in Closers) + Bit(t \in Closers')
<1>1. IsFiniteSet(Callers) /\ IsFiniteSet(Closers)
  BY PresentationAssumption, FS_Subset DEF Callers, Closers
<1>2. Callers \ {t} = Callers' \ {t} /\ Closers \ {t} = Closers' \ {t}
  BY DEF OthersStay, Callers, Closers
<1> QED  BY <1>1, <1>2, OneChanged

LEMMA SurfaceCounts ==
  ASSUME NEW t, OthersStay(t), NEW s
  PROVE  /\ Cardinality(Using(s)) \in Nat /\ Cardinality(Showers(s)) \in Nat
         /\ Cardinality(Using(s))' = Cardinality(Using(s)) - Bit(t \in Using(s)) + Bit(t \in Using(s)')
         /\ Cardinality(Showers(s))' = Cardinality(Showers(s)) - Bit(t \in Showers(s)) + Bit(t \in Showers(s)')
<1>1. IsFiniteSet(Using(s)) /\ IsFiniteSet(Showers(s))
  BY PresentationAssumption, FS_Subset DEF Using, Showers
<1>2. Using(s) \ {t} = Using(s)' \ {t} /\ Showers(s) \ {t} = Showers(s)' \ {t}
  BY DEF OthersStay, Using, Showers, Shows
<1> QED  BY <1>1, <1>2, OneChanged

-----------------------------------------------------------------------------
LEMMA QueueRefsKept ==
  ASSUME QueueRefsInv, pqRefs \in Nat, pqHandle \in BOOLEAN, pqHandle' \in BOOLEAN,
         NEW t, OthersStay(t),
         pqRefs' = pqRefs + Bit(pqHandle') - Bit(pqHandle)
                   + Bit(t \in Callers') - Bit(t \in Callers)
                   + Bit(t \in Closers') - Bit(t \in Closers)
  PROVE  QueueRefsInv' /\ pqRefs' \in Nat
<1>1. /\ Cardinality(Callers) \in Nat /\ Cardinality(Closers) \in Nat
      /\ Cardinality(Callers)' \in Nat /\ Cardinality(Closers)' \in Nat
      /\ Cardinality(Callers)' = Cardinality(Callers) - Bit(t \in Callers) + Bit(t \in Callers')
      /\ Cardinality(Closers)' = Cardinality(Closers) - Bit(t \in Closers) + Bit(t \in Closers')
  BY CallCounts
<1>2. \A p \in BOOLEAN : Bit(p) \in 0 .. 1  BY DEF Bit
<1>3. (t \in Callers) \in BOOLEAN /\ (t \in Callers') \in BOOLEAN
      /\ (t \in Closers) \in BOOLEAN /\ (t \in Closers') \in BOOLEAN
  OBVIOUS
<1>4. /\ Bit(t \in Callers) \in 0 .. 1 /\ Bit(t \in Callers') \in 0 .. 1
      /\ Bit(t \in Closers) \in 0 .. 1 /\ Bit(t \in Closers') \in 0 .. 1
      /\ Bit(pqHandle) \in 0 .. 1 /\ Bit(pqHandle') \in 0 .. 1
  BY <1>2, <1>3
<1>5. pqRefs' = Bit(pqHandle') + Cardinality(Callers)' + Cardinality(Closers)'
  BY <1>1, <1>4 DEF QueueRefsInv
<1> QED  BY <1>1, <1>4, <1>5 DEF QueueRefsInv

\* What each kind of invariant asks of a step of p to x with surface a.
StepFits(p, x, a) ==
  /\ Fits(p, x, a)
  /\ p # Queue => UNCHANGED <<todo, next>>
  /\ p = Queue => /\ todo' # <<>> => x \in Shows \cup {"scan"}
                  /\ x \in {"prepare", "preparing"} => next' # None
  /\ arg'[Overlap] # None => arg'[Overlap] = disp'

LockFits(p, x, a) ==
  /\ pqLock' = pqLock \/ {pqLock, pqLock'} \subseteq {p, None}
  /\ pqtLock' = pqtLock \/ {pqtLock, pqtLock'} \subseteq {p, None}
  /\ pqLock' = p <=> x \in PqSteps(p)
  /\ pqtLock' = p <=> x \in PqtSteps
  /\ \A s \in Surfaces :
       /\ surfLock'[s] # surfLock[s] => p \in Threads /\ {surfLock[s], surfLock'[s]} \subseteq {p, None}
       /\ p \in Threads => (surfLock'[s] = p <=> a = s /\ x \in Shows \cup {"try"})

\* The references a thread at step x with surface a has on the queue.
CallRefs(p, x, a) == Bit(p \in Threads /\ a # None) + Bit(p \in Threads /\ x = "close")
RefFits(p, x, a) ==
  pqRefs' = pqRefs + Bit(pqHandle') - Bit(pqHandle) + CallRefs(p, x, a) - CallRefs(p, pc[p], arg[p])

LEMMA CallRefsOf ==
  \A t \in Threads : \A x, a :
    /\ a # None /\ x # "close" => CallRefs(t, x, a) = 1
    /\ a = None /\ x # "close" => CallRefs(t, x, a) = 0
    /\ a = None /\ x = "close" => CallRefs(t, x, a) = 1
  BY DEF CallRefs, Bit

LEMMA StepMoves ==
  ASSUME StepInv, NEW p \in Procs, NEW x, NEW a, Moves(p, x, a), StepFits(p, x, a)
  PROVE  StepInv'
<1> USE Distinctness
<1>1. ASSUME NEW q \in Procs PROVE Fits(q, pc'[q], arg'[q])
  <2>1. CASE q = p  BY <2>1 DEF Moves, StepFits
  <2>2. CASE q # p
    <3>1. Fits(q, pc[q], arg[q])  BY DEF StepInv
    <3> QED  BY <2>2, <3>1 DEF Moves, Fits, InCall, BlockSteps, QueueSteps, Shows
  <2> QED  BY <2>1, <2>2
<1>2. p # Queue => \/ pc'[Queue] = pc[Queue]
                   \/ pc[Queue] = "wait" /\ pc'[Queue] = "woken"
  BY Distinctness DEF Moves
<1>3. todo' # <<>> => pc'[Queue] \in Shows \cup {"scan"}
  BY <1>2 DEF StepInv, StepFits, Moves, Shows
<1>4. pc'[Queue] \in {"prepare", "preparing"} => next' # None
  BY <1>2 DEF StepInv, StepFits, Moves
<1> QED  BY <1>1, <1>3, <1>4 DEF StepInv, StepFits

LEMMA LockMoves ==
  ASSUME LockInv, NEW p \in Procs, NEW x, NEW a, Moves(p, x, a), LockFits(p, x, a)
  PROVE  LockInv'
<1> USE Distinctness
<1>1. ASSUME NEW q \in Procs PROVE pqLock' = q <=> pc'[q] \in PqSteps(q)
  <2>1. CASE q = p  BY <2>1 DEF Moves, LockFits
  <2>2. CASE q # p
    <3>1. pqLock = q <=> pc[q] \in PqSteps(q)  BY DEF LockInv
    <3>2. pqLock' = q <=> pqLock = q  BY <2>2 DEF LockFits
    <3>3. pc'[q] \in PqSteps(q) <=> pc[q] \in PqSteps(q)
      BY <2>2 DEF Moves, PqSteps, Shows
    <3> QED  BY <3>1, <3>2, <3>3
  <2> QED  BY <2>1, <2>2
<1>2. ASSUME NEW q \in Procs PROVE pqtLock' = q <=> pc'[q] \in PqtSteps
  <2>1. CASE q = p  BY <2>1 DEF Moves, LockFits
  <2>2. CASE q # p
    <3>1. pqtLock = q <=> pc[q] \in PqtSteps  BY DEF LockInv
    <3>2. pqtLock' = q <=> pqtLock = q  BY <2>2 DEF LockFits
    <3>3. pc'[q] \in PqtSteps <=> pc[q] \in PqtSteps
      BY <2>2 DEF Moves, PqtSteps
    <3> QED  BY <3>1, <3>2, <3>3
  <2> QED  BY <2>1, <2>2
<1>3. ASSUME NEW s \in Surfaces PROVE surfLock'[s] \in Threads \cup {None}
  BY DEF LockInv, LockFits
<1>4. ASSUME NEW s \in Surfaces, NEW q \in Threads
      PROVE  surfLock'[s] = q <=> arg'[q] = s /\ pc'[q] \in Shows \cup {"try"}
  <2>1. CASE q = p  BY <2>1 DEF Moves, LockFits
  <2>2. CASE q # p
    <3>1. surfLock[s] = q <=> arg[q] = s /\ pc[q] \in Shows \cup {"try"}  BY DEF LockInv
    <3>2. surfLock'[s] = q <=> surfLock[s] = q  BY <2>2 DEF LockFits
    <3>3. arg'[q] = arg[q] /\ (pc'[q] \in Shows \cup {"try"} <=> pc[q] \in Shows \cup {"try"})
      BY <2>2 DEF Moves, Shows
    <3> QED  BY <3>1, <3>2, <3>3
  <2> QED  BY <2>1, <2>2
<1> QED  BY <1>1, <1>2, <1>3, <1>4 DEF LockInv

\* What does not change in steps and calls: the types of the rest.
RestOK ==
  /\ handle \in [Surfaces -> BOOLEAN] /\ refcnt \in [Surfaces -> Int]
  /\ status \in [Surfaces -> {"idle", "queued", "visible"}]
  /\ due \in [Surfaces -> 0 .. MaxTime]
  /\ list \in Seq(Surfaces) /\ todo \in Seq(Surfaces)
  /\ {pqLock, pqtLock} \subseteq Procs \cup {None}
  /\ pqHandle \in BOOLEAN /\ exit \in BOOLEAN
  /\ {disp, prep, back, screen, next} \subseteq Surfaces \cup {None}
  /\ overlapped \in BOOLEAN
  /\ want \in [Threads -> 0 .. MaxTime]
  /\ time \in Times /\ earliest \in Times /\ now \in 0 .. MaxTime /\ admits \in Admits
  /\ surfLock \in [Surfaces -> Procs \cup {None}]

LEMMA TypeSplit ==
  TypeOK <=> /\ RestOK /\ pqRefs \in Nat
             /\ pc \in [Procs -> Steps] /\ arg \in [Procs -> Surfaces \cup {None}]
<1>1. Steps = DisplaySteps \cup BlockSteps \cup QueueSteps \cup {"idle", "close", "join"}
  BY DEF Steps, InCall
<1> QED  BY <1>1 DEF TypeOK, RestOK

LEMMA BaseMoves ==
  ASSUME BaseInv, RestOK', NEW p \in Procs, NEW x, NEW a, Moves(p, x, a),
         StepFits(p, x, a), LockFits(p, x, a), RefFits(p, x, a)
  PROVE  BaseInv'
<1>1. StepInv'  BY StepMoves DEF BaseInv
<1>2. LockInv'  BY LockMoves DEF BaseInv
<1>3. QueueRefsInv' /\ pqRefs' \in Nat
  <2>1. OthersStay(p)  BY MovesStay
  <2>2. /\ (p \in Callers) <=> (p \in Threads /\ arg[p] # None)
        /\ (p \in Callers') <=> (p \in Threads /\ a # None)
        /\ (p \in Closers) <=> (p \in Threads /\ pc[p] = "close")
        /\ (p \in Closers') <=> (p \in Threads /\ x = "close")
    BY DEF Callers, Closers, Moves
  <2>3. \A b, c \in BOOLEAN : (b <=> c) => Bit(b) = Bit(c)  BY DEF Bit
  <2>4. /\ Bit(p \in Callers) = Bit(p \in Threads /\ arg[p] # None)
        /\ Bit(p \in Callers') = Bit(p \in Threads /\ a # None)
        /\ Bit(p \in Closers) = Bit(p \in Threads /\ pc[p] = "close")
        /\ Bit(p \in Closers') = Bit(p \in Threads /\ x = "close")
    BY <2>2, <2>3
  <2>5. /\ Bit(p \in Callers) \in 0 .. 1 /\ Bit(p \in Callers') \in 0 .. 1
        /\ Bit(p \in Closers) \in 0 .. 1 /\ Bit(p \in Closers') \in 0 .. 1
        /\ Bit(pqHandle) \in 0 .. 1 /\ Bit(pqHandle') \in 0 .. 1
    BY DEF Bit
  <2>6. pqRefs \in Nat /\ pqHandle \in BOOLEAN /\ pqHandle' \in BOOLEAN
    BY DEF BaseInv, TypeOK, RestOK
  <2>7. pqRefs' = pqRefs + Bit(pqHandle') - Bit(pqHandle)
                   + Bit(p \in Callers') - Bit(p \in Callers)
                   + Bit(p \in Closers') - Bit(p \in Closers)
    BY <2>4, <2>5, <2>6 DEF RefFits, CallRefs
  <2> QED  BY <2>1, <2>6, <2>7, QueueRefsKept DEF BaseInv
<1>4. TypeOK'
  <2>1. (RestOK /\ pqRefs \in Nat /\ pc \in [Procs -> Steps]
         /\ arg \in [Procs -> Surfaces \cup {None}] => TypeOK)'
    BY TypeSplit, PTL
  <2> QED  BY <1>3, <2>1 DEF Moves
<1> QED  BY <1>1, <1>2, <1>3, <1>4 DEF BaseInv

-----------------------------------------------------------------------------
(***************************************************************************)
(* Types, steps, locks and the references of the queue: every action.      *)
(***************************************************************************)

\* Where the caller of pqt_display_surface goes on.
After(p) == IF p \in Threads THEN Left ELSE IF p = Queue THEN "scan" ELSE "idle"

LEMMA BaseShowLock ==
  ASSUME BaseInv, NEW p \in Procs, ShowLock(p)
  PROVE  BaseInv' /\ Moves(p, "showing", arg[p])
<1> USE Distinctness DEF BaseInv, ShowLock, surfVars, pqVars, pqtVars, localVars, env
<1>1. Moves(p, "showing", arg[p])
  BY TypeSplit DEF Moves, Steps, InCall, DisplaySteps, BlockSteps, QueueSteps
<1>2. RestOK'  BY TypeSplit DEF RestOK
<1>3. StepFits(p, "showing", arg[p])
  BY DEF StepInv, StepFits, Fits, InCall, DisplaySteps, BlockSteps, QueueSteps, Shows
<1>4. LockFits(p, "showing", arg[p])
  BY DEF LockInv, LockFits, Shows, PqSteps, PqtSteps
<1>5. RefFits(p, "showing", arg[p])
  BY DEF TypeOK, StepInv, Fits, RefFits, CallRefs, Bit
<1> QED  BY <1>1, <1>2, <1>3, <1>4, <1>5, BaseMoves

LEMMA BaseShowPicture ==
  ASSUME BaseInv, NEW p \in Procs, ShowPicture(p)
  PROVE  BaseInv' /\ Moves(p, "replacing", arg[p])
<1> USE Distinctness DEF BaseInv, ShowPicture, surfVars, pqVars, pqtVars, localVars, env
<1>1. Moves(p, "replacing", arg[p])
  BY TypeSplit DEF Moves, Steps, InCall, DisplaySteps, BlockSteps, QueueSteps, UpdateDri
<1>2. RestOK'
  <2>0. RestOK /\ arg[p] \in Surfaces \cup {None}  BY TypeSplit
  <2>1. {back', prep', screen'} \subseteq Surfaces \cup {None}
    BY <2>0 DEF RestOK, UpdateDri
  <2>2. status' \in [Surfaces -> {"idle", "queued", "visible"}]
    BY <2>0 DEF RestOK
  <2> QED  BY <2>0, <2>1, <2>2 DEF RestOK
<1>3. StepFits(p, "replacing", arg[p])
  BY DEF StepInv, StepFits, Fits, InCall, DisplaySteps, BlockSteps, QueueSteps, Shows, UpdateDri
<1>4. LockFits(p, "replacing", arg[p])
  BY DEF LockInv, LockFits, Shows, PqSteps, PqtSteps, UpdateDri
<1>5. RefFits(p, "replacing", arg[p])
  BY DEF TypeOK, StepInv, Fits, RefFits, CallRefs, Bit, UpdateDri
<1> QED  BY <1>1, <1>2, <1>3, <1>4, <1>5, BaseMoves

LEMMA BaseReplace ==
  ASSUME BaseInv, NEW p \in Procs, ShowOnly(p) \/ Replace(p)
  PROVE  BaseInv' /\ Moves(p, After(p), None)
<1> USE Distinctness DEF BaseInv, surfVars, pqVars, pqtVars, localVars, env
<1>0. /\ pc[p] = "replacing" /\ arg[p] \in Surfaces
      /\ p \in Threads => p # Queue /\ p # Overlap
  BY TypeSplit DEF ShowOnly, Replace, RestOK, StepInv, Fits, InCall, DisplaySteps, Shows, Procs
<1>w. PICK old \in Surfaces \cup {None}, w \in Threads \cup {None} :
        /\ Shown(p, old, w) /\ disp' = arg[p]
        /\ status' = status \/ (old \in Surfaces /\ status' = [status EXCEPT ![old] = "idle"])
        /\ w # None => pc[w] = "blocked"
  <2>1. CASE ShowOnly(p)
    <3>1. Shown(p, None, None) /\ disp' = arg[p] /\ status' = status
      BY <2>1 DEF ShowOnly
    <3> QED  BY <3>1
  <2>2. CASE Replace(p)
    <3>1. disp \in Surfaces  BY <2>2, TypeSplit DEF Replace, RestOK
    <3>2. \A w \in Woken(disp) : w \in Threads \cup {None} /\ (w # None => pc[w] = "blocked")
      BY DEF Woken, Waiters
    <3>3. CASE status[disp] = "visible"
      <4>1. PICK w \in Woken(disp) : Shown(p, disp, w)  BY <2>2, <3>3 DEF Replace
      <4>2. disp' = arg[p] /\ status' = [status EXCEPT ![disp] = "idle"]
        BY <2>2, <3>3 DEF Replace
      <4> QED  BY <3>1, <3>2, <4>1, <4>2
    <3>4. CASE status[disp] # "visible"
      <4>1. Shown(p, disp, None) /\ disp' = arg[p] /\ status' = status
        BY <2>2, <3>4 DEF Replace
      <4> QED  BY <3>1, <4>1
    <3> QED  BY <3>3, <3>4
  <2> QED  BY <2>1, <2>2
<1>s. /\ UNCHANGED <<handle, due, list, pqHandle, exit, prep, back, screen, overlapped,
                     todo, time, earliest, next, now, admits>>
      /\ pqtLock' = None
      /\ IF p \in Threads
         THEN /\ surfLock' = [surfLock EXCEPT ![arg[p]] = None]
              /\ pqLock' = None /\ pqRefs' = pqRefs - 1
         ELSE UNCHANGED <<surfLock, pqLock, pqRefs>>
  BY <1>w DEF Shown
<1>1. Moves(p, After(p), None)
  <2>1. pc' = Moved(w, p, After(p)) /\ arg' = [arg EXCEPT ![p] = None]
    BY <1>w DEF Shown, After
  <2>2. w # p  BY <1>0, <1>w
  <2>3. After(p) \in Steps  BY DEF After, Left, Steps, QueueSteps
  <2> QED
    BY <1>w, <2>1, <2>2, <2>3, TypeSplit
    DEF Moves, Moved, Steps, InCall, BlockSteps
<1>2. RestOK'
  <2>0. RestOK  BY TypeSplit
  <2>1. refcnt' \in [Surfaces -> Int]
    <3>1. \A s \in Surfaces : Bit(s = old) \in Int /\ Bit(p \in Threads /\ s = arg[p]) \in Int
      BY DEF Bit
    <3> QED  BY <1>w, <2>0, <3>1 DEF RestOK, Shown
  <2>2. status' \in [Surfaces -> {"idle", "queued", "visible"}]
    BY <1>w, <2>0 DEF RestOK
  <2>3. surfLock' \in [Surfaces -> Procs \cup {None}]  BY <1>s, <2>0 DEF RestOK
  <2>4. want' \in [Threads -> 0 .. MaxTime]
    BY <1>w, <2>0, PresentationAssumption DEF RestOK, Shown
  <2>5. disp' \in Surfaces \cup {None}  BY <1>w, <1>0
  <2>6. {pqLock', pqtLock'} \subseteq Procs \cup {None}  BY <1>s, <2>0 DEF RestOK
  <2> QED  BY <1>s, <2>0, <2>1, <2>2, <2>3, <2>4, <2>5, <2>6 DEF RestOK
<1>3. StepFits(p, After(p), None)
  <2>1. Fits(p, After(p), None)
    BY DEF Fits, After, Left, InCall, DisplaySteps, BlockSteps, QueueSteps, Shows
  <2>2. arg'[Overlap] # None => arg'[Overlap] = disp'
    <3>1. CASE p = Overlap  BY <1>1, <3>1 DEF Moves
    <3>2. CASE p # Overlap
      <4>1. pqtLock = p  BY <1>0 DEF LockInv, PqtSteps
      <4>2. pc[Overlap] \notin PqtSteps  BY <3>2, <4>1 DEF LockInv
      <4>3. arg[Overlap] = None  BY <4>2 DEF StepInv, Fits, PqtSteps
      <4> QED  BY <1>1, <3>2, <4>3 DEF Moves
    <3> QED  BY <3>1, <3>2
  <2>3. p = Queue => After(p) = "scan"  BY DEF After
  <2> QED  BY <1>s, <2>1, <2>2, <2>3 DEF StepFits
<1>4. LockFits(p, After(p), None)
  <2>1. pqtLock = p  BY <1>0 DEF LockInv, PqtSteps
  <2>2. p \in Threads => After(p) \in {"join", "idle"}  BY DEF After, Left
  <2>3. p \notin Threads => After(p) = IF p = Queue THEN "scan" ELSE "idle"  BY DEF After
  <2>4. pqLock = p <=> pc[p] \in PqSteps(p)  BY DEF LockInv
  <2>5. pqLock' = p <=> After(p) \in PqSteps(p)
    BY <1>0, <1>s, <2>2, <2>3, <2>4 DEF PqSteps, Shows, Procs
  <2>6. pqLock' = pqLock \/ {pqLock, pqLock'} \subseteq {p, None}
    BY <1>0, <1>s, <2>4 DEF PqSteps, Shows
  <2>7. After(p) \notin PqtSteps  BY <2>2, <2>3 DEF PqtSteps
  <2>8. ASSUME NEW s \in Surfaces
        PROVE  /\ surfLock'[s] # surfLock[s] =>
                    p \in Threads /\ {surfLock[s], surfLock'[s]} \subseteq {p, None}
               /\ p \in Threads => surfLock'[s] # p
    <3>1. CASE p \in Threads
      <4>1. surfLock[s] = p <=> s = arg[p]  BY <1>0, <3>1 DEF LockInv, Shows
      <4>2. surfLock'[s] = IF s = arg[p] THEN None ELSE surfLock[s]
        BY <1>0, <1>s, <3>1, TypeSplit DEF RestOK
      <4> QED  BY <3>1, <4>1, <4>2
    <3>2. CASE p \notin Threads  BY <1>s, <3>2
    <3> QED  BY <3>1, <3>2
  <2> QED  BY <1>s, <2>1, <2>5, <2>6, <2>7, <2>8 DEF LockFits
<1>5. RefFits(p, After(p), None)
  <2>1. CASE p \in Threads
    <3>1. CallRefs(p, pc[p], arg[p]) = 1  BY <1>0, <2>1, CallRefsOf
    <3>2. CallRefs(p, After(p), None) = 0  BY <2>1, CallRefsOf DEF After, Left
    <3> QED  BY <1>s, <2>1, <3>1, <3>2 DEF TypeOK, RefFits, Bit
  <2>2. CASE p \notin Threads  BY <1>s, <2>2 DEF TypeOK, RefFits, CallRefs, Bit
  <2> QED  BY <2>1, <2>2
<1> QED  BY <1>1, <1>2, <1>3, <1>4, <1>5, BaseMoves

LEMMA BaseOverlapEvent ==
  ASSUME BaseInv, OverlapEvent
  PROVE  /\ BaseInv'
         /\ Moves(Overlap, (IF disp = None THEN "idle" ELSE "showing"), disp)
<1> DEFINE x == IF disp = None THEN "idle" ELSE "showing"
<1> USE Distinctness DEF BaseInv, surfVars, pqVars, localVars, env
<1>0. /\ pc[Overlap] = "idle" /\ arg[Overlap] = None /\ pqtLock = None
      /\ disp \in Surfaces \cup {None}
      /\ pc' = [pc EXCEPT ![Overlap] = x] /\ arg' = [arg EXCEPT ![Overlap] = disp]
      /\ pqtLock' = IF disp = None THEN None ELSE Overlap
      /\ overlapped' \in BOOLEAN
      /\ UNCHANGED <<surfVars, pqVars, disp, prep, back, screen, want, localVars, env>>
  BY TypeSplit DEF OverlapEvent, RestOK, StepInv, Fits
<1>1. Moves(Overlap, x, disp)
  BY <1>0, TypeSplit DEF Moves, Steps, InCall, DisplaySteps
<1>x. (disp = None => x = "idle") /\ (disp # None => x = "showing")  OBVIOUS
<1> HIDE DEF x
<1>2. RestOK'
  <2>1. RestOK  BY TypeSplit
  <2>2. pqtLock' \in Procs \cup {None}  BY <1>0
  <2> QED  BY <1>0, <2>1, <2>2 DEF RestOK
<1>3. StepFits(Overlap, x, disp)
  BY <1>0, <1>1, <1>x DEF StepFits, Moves, Fits
<1>4. LockFits(Overlap, x, disp)
  BY <1>0, <1>x DEF LockInv, LockFits, PqSteps, PqtSteps
<1>5. RefFits(Overlap, x, disp)
  BY <1>0 DEF TypeOK, RefFits, CallRefs, Bit
<1> QED  BY <1>1, <1>2, <1>3, <1>4, <1>5, BaseMoves DEF x

LEMMA BaseDisplay ==
  ASSUME BaseInv, NEW t \in Threads, NEW s \in Surfaces, NEW at \in 0 .. MaxTime, Display(t, s, at)
  PROVE  BaseInv' /\ Moves(t, "display", s)
<1> USE Distinctness DEF BaseInv, Display, surfVars, pqVars, pqtVars, localVars, env
<1>1. Moves(t, "display", s)
  BY TypeSplit DEF Moves, Steps, InCall, DisplaySteps, BlockSteps, QueueSteps
<1>2. RestOK'
  <2>0. RestOK  BY TypeSplit
  <2>1. refcnt' \in [Surfaces -> Int]
    BY <2>0, PresentationAssumption, SMTT(60) DEF RestOK
  <2>2. want' \in [Threads -> 0 .. MaxTime]
    BY <2>0, PresentationAssumption DEF RestOK
  <2> QED
    BY <2>0, <2>1, <2>2 DEF RestOK
<1>3. StepFits(t, "display", s)
  BY DEF StepInv, StepFits, Fits, InCall, DisplaySteps, BlockSteps, QueueSteps, Shows
<1>4. LockFits(t, "display", s)
  BY DEF LockInv, LockFits, Shows, PqSteps, PqtSteps
<1>5. RefFits(t, "display", s)
  <2>1. CallRefs(t, pc[t], arg[t]) = 0
    BY CallRefsOf DEF StepInv, Fits, InCall, DisplaySteps, BlockSteps
  <2>2. CallRefs(t, "display", s) = 1  BY CallRefsOf
  <2>3. pqRefs' = pqRefs + 1 /\ pqHandle' = pqHandle  BY DEF Display
  <2> QED  BY <2>1, <2>2, <2>3 DEF TypeOK, RefFits, Bit
<1> QED  BY <1>1, <1>2, <1>3, <1>4, <1>5, BaseMoves

LEMMA BaseDisplayLock ==
  ASSUME BaseInv, NEW t \in Threads, DisplayLock(t)
  PROVE  BaseInv' /\ Moves(t, "lock_surf", arg[t])
<1> USE Distinctness DEF BaseInv, DisplayLock, surfVars, pqVars, pqtVars, localVars, env
<1>1. Moves(t, "lock_surf", arg[t])
  BY TypeSplit DEF Moves, Steps, InCall, DisplaySteps, BlockSteps, QueueSteps
<1>2. RestOK'  BY TypeSplit DEF RestOK
<1>3. StepFits(t, "lock_surf", arg[t])
  BY DEF StepInv, StepFits, Fits, InCall, DisplaySteps, BlockSteps, QueueSteps, Shows
<1>4. LockFits(t, "lock_surf", arg[t])
  BY DEF LockInv, LockFits, Shows, PqSteps, PqtSteps
<1>5. RefFits(t, "lock_surf", arg[t])
  BY DEF TypeOK, StepInv, Fits, RefFits, CallRefs, Bit
<1> QED  BY <1>1, <1>2, <1>3, <1>4, <1>5, BaseMoves

LEMMA BaseRefuse ==
  ASSUME BaseInv, NEW t \in Threads, Refuse(t)
  PROVE  BaseInv' /\ Moves(t, Left, None)
<1> USE Distinctness DEF BaseInv, Refuse, surfVars, pqVars, pqtVars, localVars, env
<1>0. arg[t] \in Surfaces
  BY TypeSplit DEF RestOK, StepInv, Fits, InCall, DisplaySteps, BlockSteps, DisplayReturn, Left
<1>1. Moves(t, Left, None)
  BY TypeSplit DEF Moves, Steps, InCall, DisplaySteps, BlockSteps, QueueSteps, DisplayReturn, Left
<1>2. RestOK'
  <2>0. RestOK  BY TypeSplit
  <2>1. refcnt' \in [Surfaces -> Int]
    BY <2>0, <1>0, SMTT(60) DEF RestOK
  <2>2. want' \in [Threads -> 0 .. MaxTime]
    BY <2>0, <1>0, PresentationAssumption DEF RestOK, DisplayReturn, Left
  <2> QED
    BY <2>0, <2>1, <2>2 DEF RestOK, DisplayReturn, Left
<1>3. StepFits(t, Left, None)
  BY DEF StepInv, StepFits, Fits, InCall, DisplaySteps, BlockSteps, QueueSteps, Shows, DisplayReturn, Left
<1>4. LockFits(t, Left, None)
  BY DEF LockInv, LockFits, Shows, PqSteps, PqtSteps, DisplayReturn, Left
<1>5. RefFits(t, Left, None)
  <2>1. CallRefs(t, pc[t], arg[t]) = 1
    BY CallRefsOf DEF StepInv, Fits, InCall, DisplaySteps, BlockSteps, DisplayReturn, Left
  <2>2. CallRefs(t, Left, None) = 0  BY CallRefsOf DEF Left
  <2>3. pqRefs' = pqRefs - 1 /\ pqHandle' = pqHandle  BY DEF DisplayReturn, Left
  <2> QED  BY <2>1, <2>2, <2>3 DEF TypeOK, RefFits, Bit
<1> QED  BY <1>1, <1>2, <1>3, <1>4, <1>5, BaseMoves

LEMMA BaseEnqueue ==
  ASSUME BaseInv, NEW t \in Threads, Enqueue(t)
  PROVE  BaseInv' /\ Moves(t, Left, None)
<1> USE Distinctness DEF BaseInv, Enqueue, surfVars, pqVars, pqtVars, localVars, env
<1>0. arg[t] \in Surfaces
  BY TypeSplit DEF RestOK, StepInv, Fits, InCall, DisplaySteps, BlockSteps, DisplayReturn, Left, Signalled
<1>1. Moves(t, Left, None)
  BY TypeSplit DEF Moves, Steps, InCall, DisplaySteps, BlockSteps, QueueSteps, DisplayReturn, Left, Signalled
<1>2. RestOK'
  <2>0. RestOK  BY TypeSplit
  <2>1. status' \in [Surfaces -> {"idle", "queued", "visible"}]
    BY <2>0, <1>0, PresentationAssumption DEF RestOK, DisplayReturn, Left, Signalled
  <2>2. due' \in [Surfaces -> 0 .. MaxTime]
    BY <2>0, <1>0, PresentationAssumption DEF RestOK, DisplayReturn, Left, Signalled
  <2>3. list' \in Seq(Surfaces)
    BY <2>0, <1>0, PresentationAssumption DEF RestOK, DisplayReturn, Left, Signalled
  <2>4. want' \in [Threads -> 0 .. MaxTime]
    BY <2>0, <1>0, PresentationAssumption DEF RestOK, DisplayReturn, Left, Signalled
  <2> QED
    BY <2>0, <2>1, <2>2, <2>3, <2>4 DEF RestOK, DisplayReturn, Left, Signalled
<1>3. StepFits(t, Left, None)
  BY DEF StepInv, StepFits, Fits, InCall, DisplaySteps, BlockSteps, QueueSteps, Shows, DisplayReturn, Left, Signalled
<1>4. LockFits(t, Left, None)
  BY DEF LockInv, LockFits, Shows, PqSteps, PqtSteps, DisplayReturn, Left, Signalled
<1>5. RefFits(t, Left, None)
  <2>1. CallRefs(t, pc[t], arg[t]) = 1
    BY CallRefsOf DEF StepInv, Fits, InCall, DisplaySteps, BlockSteps, DisplayReturn, Left, Signalled
  <2>2. CallRefs(t, Left, None) = 0  BY CallRefsOf DEF Left
  <2>3. pqRefs' = pqRefs - 1 /\ pqHandle' = pqHandle  BY DEF DisplayReturn, Left, Signalled
  <2> QED  BY <2>1, <2>2, <2>3 DEF TypeOK, RefFits, Bit
<1> QED  BY <1>1, <1>2, <1>3, <1>4, <1>5, BaseMoves

LEMMA BaseShowNow ==
  ASSUME BaseInv, NEW t \in Threads, ShowNow(t)
  PROVE  BaseInv' /\ Moves(t, "show", arg[t])
<1> USE Distinctness DEF BaseInv, ShowNow, surfVars, pqVars, pqtVars, localVars, env
<1>0. arg[t] \in Surfaces
  BY TypeSplit DEF RestOK, StepInv, Fits, InCall, DisplaySteps, BlockSteps
<1>1. Moves(t, "show", arg[t])
  BY TypeSplit DEF Moves, Steps, InCall, DisplaySteps, BlockSteps, QueueSteps
<1>2. RestOK'
  <2>0. RestOK  BY TypeSplit
  <2>1. surfLock' \in [Surfaces -> Procs \cup {None}]
    BY <2>0, <1>0, PresentationAssumption DEF RestOK
  <2>2. refcnt' \in [Surfaces -> Int]
    BY <2>0, <1>0, PresentationAssumption DEF RestOK
  <2> QED
    BY <2>0, <2>1, <2>2 DEF RestOK
<1>3. StepFits(t, "show", arg[t])
  BY DEF StepInv, StepFits, Fits, InCall, DisplaySteps, BlockSteps, QueueSteps, Shows
<1>4. LockFits(t, "show", arg[t])
  <2>1. \A s \in Surfaces : surfLock'[s] = IF s = arg[t] THEN t ELSE surfLock[s]
    BY <1>0, TypeSplit DEF RestOK
  <2> QED  BY <2>1 DEF Free, LockInv, LockFits, Shows, PqSteps, PqtSteps
<1>5. RefFits(t, "show", arg[t])
  BY DEF TypeOK, StepInv, Fits, RefFits, CallRefs, Bit
<1> QED  BY <1>1, <1>2, <1>3, <1>4, <1>5, BaseMoves

LEMMA BaseStartWait ==
  ASSUME BaseInv, StartWait
  PROVE  BaseInv' /\ Moves(Queue, "wait", arg[Queue])
<1> USE Distinctness DEF BaseInv, StartWait, surfVars, pqVars, pqtVars, localVars, env
<1>1. Moves(Queue, "wait", arg[Queue])
  BY TypeSplit DEF Moves, Steps, InCall, DisplaySteps, BlockSteps, QueueSteps
<1>2. RestOK'  BY TypeSplit DEF RestOK
<1>3. StepFits(Queue, "wait", arg[Queue])
  BY DEF StepInv, StepFits, Fits, InCall, DisplaySteps, BlockSteps, QueueSteps, Shows
<1>4. LockFits(Queue, "wait", arg[Queue])
  BY DEF LockInv, LockFits, Shows, PqSteps, PqtSteps
<1>5. RefFits(Queue, "wait", arg[Queue])
  BY DEF TypeOK, StepInv, Fits, RefFits, CallRefs, Bit
<1> QED  BY <1>1, <1>2, <1>3, <1>4, <1>5, BaseMoves

LEMMA BaseTimeOut ==
  ASSUME BaseInv, TimeOut
  PROVE  BaseInv' /\ Moves(Queue, "timed_out", arg[Queue])
<1> USE Distinctness DEF BaseInv, TimeOut, surfVars, pqVars, pqtVars, localVars, env
<1>1. Moves(Queue, "timed_out", arg[Queue])
  BY TypeSplit DEF Moves, Steps, InCall, DisplaySteps, BlockSteps, QueueSteps
<1>2. RestOK'  BY TypeSplit DEF RestOK
<1>3. StepFits(Queue, "timed_out", arg[Queue])
  BY DEF StepInv, StepFits, Fits, InCall, DisplaySteps, BlockSteps, QueueSteps, Shows
<1>4. LockFits(Queue, "timed_out", arg[Queue])
  BY DEF LockInv, LockFits, Shows, PqSteps, PqtSteps
<1>5. RefFits(Queue, "timed_out", arg[Queue])
  BY DEF TypeOK, StepInv, Fits, RefFits, CallRefs, Bit
<1> QED  BY <1>1, <1>2, <1>3, <1>4, <1>5, BaseMoves

LEMMA BaseResume ==
  ASSUME BaseInv, Resume
  PROVE  BaseInv' /\ Moves(Queue, (IF exit THEN "exit" ELSE "scan"), arg[Queue])
<1> USE Distinctness DEF BaseInv, Resume, surfVars, pqVars, pqtVars, localVars, env
<1>1. Moves(Queue, (IF exit THEN "exit" ELSE "scan"), arg[Queue])
  BY TypeSplit DEF Moves, Steps, InCall, DisplaySteps, BlockSteps, QueueSteps
<1>2. RestOK'
  <2>0. RestOK  BY TypeSplit
  <2>1. time' \in Times
    BY <2>0, PresentationAssumption DEF RestOK, Times, Never
  <2>2. earliest' \in Times
    BY <2>0, PresentationAssumption DEF RestOK, Times, Never
  <2>3. todo' \in Seq(Surfaces)
    BY <2>0, PresentationAssumption DEF RestOK
  <2>4. list' \in Seq(Surfaces)
    <3>1. <<>> \in Seq(Surfaces)  OBVIOUS
    <3> QED  BY <2>0, <3>1 DEF RestOK
  <2> QED
    BY <2>0, <2>1, <2>2, <2>3, <2>4 DEF RestOK
<1>3. StepFits(Queue, (IF exit THEN "exit" ELSE "scan"), arg[Queue])
  BY DEF StepInv, StepFits, Fits, InCall, DisplaySteps, BlockSteps, QueueSteps, Shows
<1>4. LockFits(Queue, (IF exit THEN "exit" ELSE "scan"), arg[Queue])
  BY DEF LockInv, LockFits, Shows, PqSteps, PqtSteps
<1>5. RefFits(Queue, (IF exit THEN "exit" ELSE "scan"), arg[Queue])
  BY DEF TypeOK, StepInv, Fits, RefFits, CallRefs, Bit
<1> QED  BY <1>1, <1>2, <1>3, <1>4, <1>5, BaseMoves

LEMMA BaseScanLater ==
  ASSUME BaseInv, ScanLater
  PROVE  BaseInv' /\ Moves(Queue, "scan", arg[Queue])
<1> USE Distinctness DEF BaseInv, ScanLater, surfVars, pqVars, pqtVars, localVars, env
<1>0. Head(todo) \in Surfaces
  BY TypeSplit DEF RestOK, StepInv, Fits, InCall, DisplaySteps, BlockSteps, Scanning, callVars
<1>1. Moves(Queue, "scan", arg[Queue])
  BY TypeSplit DEF Moves, Steps, InCall, DisplaySteps, BlockSteps, QueueSteps, Scanning, callVars
<1>2. RestOK'
  <2>0. RestOK  BY TypeSplit
  <2>1. earliest' \in Times
    <3>1. due[Head(todo)] \in Times
      BY <2>0, <1>0, PresentationAssumption DEF RestOK, Times, Never
    <3> QED  BY <2>0, <3>1 DEF RestOK
  <2>2. next' \in Surfaces \cup {None}
    BY <2>0, <1>0, PresentationAssumption, SMTT(60) DEF RestOK, Scanning, callVars
  <2>3. todo' \in Seq(Surfaces)
    BY <2>0, <1>0, PresentationAssumption DEF RestOK, Scanning, callVars
  <2>4. list' \in Seq(Surfaces)
    BY <2>0, <1>0, PresentationAssumption DEF RestOK, Scanning, callVars
  <2> QED
    BY <2>0, <2>1, <2>2, <2>3, <2>4, SMTT(60) DEF RestOK, Scanning, callVars
<1>3. StepFits(Queue, "scan", arg[Queue])
  BY DEF StepInv, StepFits, Fits, InCall, DisplaySteps, BlockSteps, QueueSteps, Shows, Scanning, callVars
<1>4. LockFits(Queue, "scan", arg[Queue])
  BY DEF LockInv, LockFits, Shows, PqSteps, PqtSteps, Scanning, callVars
<1>5. RefFits(Queue, "scan", arg[Queue])
  BY DEF TypeOK, StepInv, Fits, RefFits, CallRefs, Bit, Scanning, callVars
<1> QED  BY <1>1, <1>2, <1>3, <1>4, <1>5, BaseMoves

LEMMA BaseScanDue ==
  ASSUME BaseInv, ScanDue
  PROVE  /\ BaseInv'
         /\ arg[Queue] # None => Moves(Queue, "show", arg[Queue])
         /\ arg[Queue] = None => Moves(Queue, "scan", Head(todo))
<1> USE Distinctness DEF BaseInv, surfVars, pqVars, pqtVars, env
<1>0. /\ pc[Queue] = "scan" /\ todo # <<>> /\ todo \in Seq(Surfaces)
      /\ UNCHANGED <<surfVars, pqVars, pqtVars, want, time, earliest, next, env>>
  BY TypeSplit DEF ScanDue, Scanning, RestOK
<1>h. Head(todo) \in Surfaces /\ Tail(todo) \in Seq(Surfaces)  BY <1>0
<1>1. CASE arg[Queue] # None
  <2>0. pc' = [pc EXCEPT ![Queue] = "show"] /\ UNCHANGED <<arg, todo>>
    BY <1>1 DEF ScanDue
  <2>1. Moves(Queue, "show", arg[Queue])
    BY <2>0, TypeSplit DEF Moves, Steps, InCall, DisplaySteps
  <2>2. RestOK'  BY <1>0, <2>0, TypeSplit DEF RestOK
  <2>3. StepFits(Queue, "show", arg[Queue])
    BY <1>0, <1>1, <2>0 DEF StepInv, StepFits, Fits, Shows
  <2>4. LockFits(Queue, "show", arg[Queue])
    BY <1>0, <2>0 DEF LockInv, LockFits, Shows, PqSteps, PqtSteps
  <2>5. RefFits(Queue, "show", arg[Queue])
    BY <1>0, <2>0 DEF TypeOK, RefFits, CallRefs, Bit
  <2> QED  BY <1>1, <2>1, <2>2, <2>3, <2>4, <2>5, BaseMoves
<1>2. CASE arg[Queue] = None
  <2>0. /\ arg' = [arg EXCEPT ![Queue] = Head(todo)]
        /\ todo' = Tail(todo) /\ UNCHANGED pc
    BY <1>2 DEF ScanDue
  <2>1. Moves(Queue, "scan", Head(todo))
    BY <1>0, <1>h, <2>0, TypeSplit DEF Moves
  <2>2. RestOK'  BY <1>0, <1>h, <2>0, TypeSplit DEF RestOK
  <2>3. StepFits(Queue, "scan", Head(todo))
    BY <1>0, <1>h, <2>0, TypeSplit DEF StepInv, StepFits, Fits, QueueSteps, Shows
  <2>4. LockFits(Queue, "scan", Head(todo))
    BY <1>0, <2>0 DEF LockInv, LockFits, Shows, PqSteps, PqtSteps
  <2>5. RefFits(Queue, "scan", Head(todo))
    BY <1>0, <2>0 DEF TypeOK, RefFits, CallRefs, Bit
  <2> QED  BY <1>2, <2>1, <2>2, <2>3, <2>4, <2>5, BaseMoves
<1> QED  BY <1>1, <1>2

LEMMA BaseScanEnd ==
  ASSUME BaseInv, ScanEnd
  PROVE  BaseInv' /\ Moves(Queue, (IF arg[Queue] # None THEN "show" ELSE IF next # None THEN "prepare" ELSE "wait"), arg[Queue])
<1> USE Distinctness DEF BaseInv, ScanEnd, surfVars, pqVars, pqtVars, localVars, env
<1>1. Moves(Queue, (IF arg[Queue] # None THEN "show" ELSE IF next # None THEN "prepare" ELSE "wait"), arg[Queue])
  BY TypeSplit DEF Moves, Steps, InCall, DisplaySteps, BlockSteps, QueueSteps
<1>2. RestOK'
  <2>0. RestOK  BY TypeSplit
  <2>1. time' \in Times
    BY <2>0, PresentationAssumption DEF RestOK, Times, Never
  <2>2. earliest' \in Times
    BY <2>0, PresentationAssumption DEF RestOK, Times, Never
  <2> QED
    BY <2>0, <2>1, <2>2 DEF RestOK
<1>3. StepFits(Queue, (IF arg[Queue] # None THEN "show" ELSE IF next # None THEN "prepare" ELSE "wait"), arg[Queue])
  BY DEF StepInv, StepFits, Fits, InCall, DisplaySteps, BlockSteps, QueueSteps, Shows
<1>4. LockFits(Queue, (IF arg[Queue] # None THEN "show" ELSE IF next # None THEN "prepare" ELSE "wait"), arg[Queue])
  BY DEF LockInv, LockFits, Shows, PqSteps, PqtSteps
<1>5. RefFits(Queue, (IF arg[Queue] # None THEN "show" ELSE IF next # None THEN "prepare" ELSE "wait"), arg[Queue])
  BY DEF TypeOK, StepInv, Fits, RefFits, CallRefs, Bit
<1> QED  BY <1>1, <1>2, <1>3, <1>4, <1>5, BaseMoves

LEMMA BasePrepareLock ==
  ASSUME BaseInv, PrepareLock
  PROVE  BaseInv' /\ Moves(Queue, "preparing", arg[Queue])
<1> USE Distinctness DEF BaseInv, PrepareLock, surfVars, pqVars, pqtVars, localVars, env
<1>1. Moves(Queue, "preparing", arg[Queue])
  BY TypeSplit DEF Moves, Steps, InCall, DisplaySteps, BlockSteps, QueueSteps
<1>2. RestOK'  BY TypeSplit DEF RestOK
<1>3. StepFits(Queue, "preparing", arg[Queue])
  BY DEF StepInv, StepFits, Fits, InCall, DisplaySteps, BlockSteps, QueueSteps, Shows
<1>4. LockFits(Queue, "preparing", arg[Queue])
  BY DEF LockInv, LockFits, Shows, PqSteps, PqtSteps
<1>5. RefFits(Queue, "preparing", arg[Queue])
  BY DEF TypeOK, StepInv, Fits, RefFits, CallRefs, Bit
<1> QED  BY <1>1, <1>2, <1>3, <1>4, <1>5, BaseMoves

LEMMA BasePrepare ==
  ASSUME BaseInv, Prepare
  PROVE  BaseInv' /\ Moves(Queue, "wait", arg[Queue])
<1> USE Distinctness DEF BaseInv, Prepare, surfVars, pqVars, pqtVars, localVars, env
<1>1. Moves(Queue, "wait", arg[Queue])
  BY TypeSplit DEF Moves, Steps, InCall, DisplaySteps, BlockSteps, QueueSteps, UpdateDri
<1>2. RestOK'  BY TypeSplit DEF RestOK, UpdateDri
<1>3. StepFits(Queue, "wait", arg[Queue])
  BY DEF StepInv, StepFits, Fits, InCall, DisplaySteps, BlockSteps, QueueSteps, Shows, UpdateDri
<1>4. LockFits(Queue, "wait", arg[Queue])
  BY DEF LockInv, LockFits, Shows, PqSteps, PqtSteps, UpdateDri
<1>5. RefFits(Queue, "wait", arg[Queue])
  BY DEF TypeOK, StepInv, Fits, RefFits, CallRefs, Bit, UpdateDri
<1> QED  BY <1>1, <1>2, <1>3, <1>4, <1>5, BaseMoves

LEMMA BaseExitDrop ==
  ASSUME BaseInv, ExitDrop
  PROVE  BaseInv' /\ Moves(Queue, "exit", arg[Queue])
<1> USE Distinctness DEF BaseInv, ExitDrop, surfVars, pqVars, pqtVars, localVars, env
<1>0. Head(list) \in Surfaces
  BY TypeSplit DEF RestOK, StepInv, Fits, InCall, DisplaySteps, BlockSteps, Moved, Woken, Waiters
<1>1. Moves(Queue, "exit", arg[Queue])
  BY TypeSplit DEF Moves, Steps, InCall, DisplaySteps, BlockSteps, QueueSteps, Moved, Woken, Waiters
<1>2. RestOK'
  <2>0. RestOK  BY TypeSplit
  <2>1. status' \in [Surfaces -> {"idle", "queued", "visible"}]
    BY <2>0, <1>0, PresentationAssumption DEF RestOK, Moved, Woken, Waiters
  <2>2. refcnt' \in [Surfaces -> Int]
    <3>1. refcnt' = [refcnt EXCEPT ![Head(list)] = @ - 1]  OBVIOUS
    <3> HIDE DEF ExitDrop
    <3> QED  BY <2>0, <1>0, <3>1, SMTT(60) DEF RestOK
  <2>3. list' \in Seq(Surfaces)
    BY <2>0, <1>0, PresentationAssumption DEF RestOK, Moved, Woken, Waiters
  <2> QED
    BY <2>0, <2>1, <2>2, <2>3 DEF RestOK, Moved, Woken, Waiters
<1>3. StepFits(Queue, "exit", arg[Queue])
  BY DEF StepInv, StepFits, Fits, InCall, DisplaySteps, BlockSteps, QueueSteps, Shows, Moved, Woken, Waiters
<1>4. LockFits(Queue, "exit", arg[Queue])
  BY DEF LockInv, LockFits, Shows, PqSteps, PqtSteps, Moved, Woken, Waiters
<1>5. RefFits(Queue, "exit", arg[Queue])
  BY DEF TypeOK, StepInv, Fits, RefFits, CallRefs, Bit, Moved, Woken, Waiters
<1> QED  BY <1>1, <1>2, <1>3, <1>4, <1>5, BaseMoves

LEMMA BaseExitLock ==
  ASSUME BaseInv, ExitLock
  PROVE  BaseInv' /\ Moves(Queue, "exit_idle", arg[Queue])
<1> USE Distinctness DEF BaseInv, ExitLock, surfVars, pqVars, pqtVars, localVars, env
<1>1. Moves(Queue, "exit_idle", arg[Queue])
  BY TypeSplit DEF Moves, Steps, InCall, DisplaySteps, BlockSteps, QueueSteps
<1>2. RestOK'  BY TypeSplit DEF RestOK
<1>3. StepFits(Queue, "exit_idle", arg[Queue])
  BY DEF StepInv, StepFits, Fits, InCall, DisplaySteps, BlockSteps, QueueSteps, Shows
<1>4. LockFits(Queue, "exit_idle", arg[Queue])
  BY DEF LockInv, LockFits, Shows, PqSteps, PqtSteps
<1>5. RefFits(Queue, "exit_idle", arg[Queue])
  BY DEF TypeOK, StepInv, Fits, RefFits, CallRefs, Bit
<1> QED  BY <1>1, <1>2, <1>3, <1>4, <1>5, BaseMoves

LEMMA BaseExitIdle ==
  ASSUME BaseInv, ExitIdle
  PROVE  BaseInv' /\ Moves(Queue, "done", arg[Queue])
<1> USE Distinctness DEF BaseInv, surfVars, pqVars, pqtVars, localVars, env
<1>0. /\ pc[Queue] = "exit_idle" /\ pqLock' = None /\ pqtLock' = None
      /\ UNCHANGED <<handle, due, surfLock, list, pqHandle, pqRefs, exit, prep, back,
                     screen, overlapped, arg, want, localVars, env>>
  BY DEF ExitIdle
<1>w. PICK w \in Threads \cup {None} : /\ pc' = Moved(w, Queue, "done")
                                       /\ w # None => pc[w] = "blocked"
  <2>1. \A s \in Surfaces : \A w \in Woken(s) :
           w \in Threads \cup {None} /\ (w # None => pc[w] = "blocked")
    BY DEF Woken, Waiters
  <2>2. CASE pc' = [pc EXCEPT ![Queue] = "done"]
    <3>1. pc' = Moved(None, Queue, "done")  BY <2>2, TypeSplit DEF Moved
    <3> QED  BY <3>1
  <2>3. CASE disp # None /\ \E w \in Woken(disp) : pc' = Moved(w, Queue, "done")
    <3>1. disp \in Surfaces  BY <2>3, TypeSplit DEF RestOK
    <3> QED  BY <2>1, <2>3, <3>1
  <2> QED  BY <2>2, <2>3 DEF ExitIdle
<1>1. Moves(Queue, "done", arg[Queue])
  BY <1>0, <1>w, TypeSplit DEF Moves, Moved, Steps, InCall, BlockSteps, QueueSteps
<1>2. RestOK'
  <2>0. RestOK  BY TypeSplit
  <2>1. CASE disp = None
    <3>1. UNCHANGED <<status, refcnt, disp>>  BY <2>1 DEF ExitIdle
    <3> QED  BY <1>0, <2>0, <3>1 DEF RestOK
  <2>2. CASE disp # None
    <3>1. disp \in Surfaces  BY <2>0, <2>2 DEF RestOK
    <3>2. /\ refcnt' = [refcnt EXCEPT ![disp] = @ - 1]
          /\ \/ status' = [status EXCEPT ![disp] = "idle"] /\ disp' = None
             \/ UNCHANGED <<status, disp>>
      BY <2>2 DEF ExitIdle
    <3>3. refcnt' \in [Surfaces -> Int]  BY <2>0, <3>1, <3>2 DEF RestOK
    <3>4. disp' \in Surfaces \cup {None}  BY <3>1, <3>2
    <3>5. status' \in [Surfaces -> {"idle", "queued", "visible"}]
      BY <2>0, <3>1, <3>2 DEF RestOK
    <3> QED  BY <1>0, <2>0, <3>3, <3>4, <3>5 DEF RestOK
  <2> QED  BY <2>1, <2>2
<1>l. pqLock = Queue /\ pqtLock = Queue  BY <1>0 DEF LockInv, PqSteps, PqtSteps
<1>3. StepFits(Queue, "done", arg[Queue])
  <2>1. pc[Overlap] \notin PqtSteps  BY <1>l DEF LockInv
  <2>2. arg[Overlap] = None  BY <2>1 DEF StepInv, Fits, PqtSteps
  <2> QED  BY <1>0, <2>2 DEF StepInv, StepFits, Fits, QueueSteps, Shows
<1>4. LockFits(Queue, "done", arg[Queue])
  BY <1>0, <1>l DEF LockFits, Shows, PqSteps, PqtSteps
<1>5. RefFits(Queue, "done", arg[Queue])
  BY <1>0 DEF TypeOK, RefFits, CallRefs, Bit
<1> QED  BY <1>1, <1>2, <1>3, <1>4, <1>5, BaseMoves

LEMMA BaseBlock ==
  ASSUME BaseInv, NEW t \in Threads, NEW s \in Surfaces, Block(t, s)
  PROVE  BaseInv' /\ Moves(t, "block", s)
<1> USE Distinctness DEF BaseInv, Block, surfVars, pqVars, pqtVars, localVars, env
<1>1. Moves(t, "block", s)
  BY TypeSplit DEF Moves, Steps, InCall, DisplaySteps, BlockSteps, QueueSteps
<1>2. RestOK'
  <2>0. RestOK  BY TypeSplit
  <2>1. refcnt' \in [Surfaces -> Int]
    BY <2>0, PresentationAssumption, SMTT(60) DEF RestOK
  <2> QED
    BY <2>0, <2>1 DEF RestOK
<1>3. StepFits(t, "block", s)
  BY DEF StepInv, StepFits, Fits, InCall, DisplaySteps, BlockSteps, QueueSteps, Shows
<1>4. LockFits(t, "block", s)
  BY DEF LockInv, LockFits, Shows, PqSteps, PqtSteps
<1>5. RefFits(t, "block", s)
  <2>1. CallRefs(t, pc[t], arg[t]) = 0
    BY CallRefsOf DEF StepInv, Fits, InCall, DisplaySteps, BlockSteps
  <2>2. CallRefs(t, "block", s) = 1  BY CallRefsOf
  <2>3. pqRefs' = pqRefs + 1 /\ pqHandle' = pqHandle  BY DEF Block
  <2> QED  BY <2>1, <2>2, <2>3 DEF TypeOK, RefFits, Bit
<1> QED  BY <1>1, <1>2, <1>3, <1>4, <1>5, BaseMoves

LEMMA BaseBlockLock ==
  ASSUME BaseInv, NEW t \in Threads, BlockLock(t)
  PROVE  /\ BaseInv'
         /\ status[arg[t]] = "idle" => Moves(t, Left, None)
         /\ status[arg[t]] # "idle" => Moves(t, "try", arg[t])
<1> USE Distinctness DEF BaseInv, surfVars, pqVars, pqtVars, localVars, env
<1>0. pc[t] = "block" /\ arg[t] \in Surfaces /\ surfLock[arg[t]] = None
  BY TypeSplit DEF BlockLock, RestOK, StepInv, Fits, InCall, BlockSteps
<1>1. CASE status[arg[t]] = "idle"
  <2>0. BlockReturn(t) /\ UNCHANGED surfLock  BY <1>1 DEF BlockLock
  <2>1. Moves(t, Left, None)
    BY <2>0, TypeSplit DEF BlockReturn, Moves, Left, Steps, QueueSteps
  <2>2. RestOK'
    <3>0. RestOK  BY TypeSplit
    <3>1. refcnt' \in [Surfaces -> Int]  BY <1>0, <2>0, <3>0, SMTT(60) DEF BlockReturn, RestOK
    <3> QED  BY <2>0, <3>0, <3>1 DEF BlockReturn, RestOK
  <2>3. StepFits(t, Left, None)
    BY <2>0 DEF BlockReturn, StepInv, StepFits, Fits, Left, InCall, DisplaySteps, BlockSteps
  <2>4. LockFits(t, Left, None)
    BY <1>0, <2>0 DEF BlockReturn, LockInv, LockFits, Left, Shows, PqSteps, PqtSteps
  <2>5. RefFits(t, Left, None)
    <3>1. CallRefs(t, pc[t], arg[t]) = 1  BY <1>0, CallRefsOf
    <3>2. CallRefs(t, Left, None) = 0  BY CallRefsOf DEF Left
    <3> QED  BY <2>0, <3>1, <3>2 DEF BlockReturn, TypeOK, RefFits, Bit
  <2> QED  BY <1>1, <2>1, <2>2, <2>3, <2>4, <2>5, BaseMoves
<1>2. CASE status[arg[t]] # "idle"
  <2>0. /\ surfLock' = [surfLock EXCEPT ![arg[t]] = t]
        /\ pc' = [pc EXCEPT ![t] = "try"]
        /\ UNCHANGED <<handle, refcnt, status, due, pqVars, pqtVars, arg, want,
                       localVars, env>>
    BY <1>2 DEF BlockLock
  <2>1. Moves(t, "try", arg[t])
    BY <2>0, TypeSplit DEF Moves, Steps, InCall, BlockSteps
  <2>2. RestOK'
    <3>0. RestOK  BY TypeSplit
    <3>1. surfLock' \in [Surfaces -> Procs \cup {None}]  BY <1>0, <2>0, <3>0 DEF RestOK
    <3> QED  BY <2>0, <3>0, <3>1 DEF RestOK
  <2>3. StepFits(t, "try", arg[t])
    BY <1>0, <2>0 DEF StepInv, StepFits, Fits, InCall, BlockSteps
  <2>4. LockFits(t, "try", arg[t])
    <3>1. \A s \in Surfaces : surfLock'[s] = IF s = arg[t] THEN t ELSE surfLock[s]
      BY <1>0, <2>0, TypeSplit DEF RestOK
    <3> QED  BY <1>0, <2>0, <3>1 DEF LockInv, LockFits, Shows, PqSteps, PqtSteps
  <2>5. RefFits(t, "try", arg[t])
    BY <1>0, <2>0, CallRefsOf DEF TypeOK, RefFits, CallRefs, Bit
  <2> QED  BY <1>2, <2>1, <2>2, <2>3, <2>4, <2>5, BaseMoves
<1> QED  BY <1>1, <1>2

LEMMA BaseBlockRetry ==
  ASSUME BaseInv, NEW t \in Threads, BlockRetry(t)
  PROVE  BaseInv' /\ Moves(t, "block", arg[t])
<1> USE Distinctness DEF BaseInv, BlockRetry, surfVars, pqVars, pqtVars, localVars, env
<1>0. arg[t] \in Surfaces
  BY TypeSplit DEF RestOK, StepInv, Fits, InCall, DisplaySteps, BlockSteps
<1>1. Moves(t, "block", arg[t])
  BY TypeSplit DEF Moves, Steps, InCall, DisplaySteps, BlockSteps, QueueSteps
<1>2. RestOK'
  <2>0. RestOK  BY TypeSplit
  <2>1. surfLock' \in [Surfaces -> Procs \cup {None}]
    BY <2>0, <1>0, PresentationAssumption DEF RestOK
  <2> QED
    BY <2>0, <2>1 DEF RestOK
<1>3. StepFits(t, "block", arg[t])
  BY DEF StepInv, StepFits, Fits, InCall, DisplaySteps, BlockSteps, QueueSteps, Shows
<1>4. LockFits(t, "block", arg[t])
  <2>1. \A s \in Surfaces : surfLock'[s] = IF s = arg[t] THEN None ELSE surfLock[s]
    BY <1>0, TypeSplit DEF RestOK
  <2> QED  BY <2>1 DEF LockInv, LockFits, Shows, PqSteps, PqtSteps
<1>5. RefFits(t, "block", arg[t])
  BY DEF TypeOK, StepInv, Fits, RefFits, CallRefs, Bit
<1> QED  BY <1>1, <1>2, <1>3, <1>4, <1>5, BaseMoves

LEMMA BaseBlockWait ==
  ASSUME BaseInv, NEW t \in Threads, BlockWait(t)
  PROVE  BaseInv' /\ Moves(t, "blocked", arg[t])
<1> USE Distinctness DEF BaseInv, BlockWait, surfVars, pqVars, pqtVars, localVars, env
<1>0. arg[t] \in Surfaces
  BY TypeSplit DEF RestOK, StepInv, Fits, InCall, DisplaySteps, BlockSteps
<1>1. Moves(t, "blocked", arg[t])
  BY TypeSplit DEF Moves, Steps, InCall, DisplaySteps, BlockSteps, QueueSteps
<1>2. RestOK'
  <2>0. RestOK  BY TypeSplit
  <2>1. surfLock' \in [Surfaces -> Procs \cup {None}]
    BY <2>0, <1>0, PresentationAssumption DEF RestOK
  <2> QED
    BY <2>0, <2>1 DEF RestOK
<1>3. StepFits(t, "blocked", arg[t])
  BY DEF StepInv, StepFits, Fits, InCall, DisplaySteps, BlockSteps, QueueSteps, Shows
<1>4. LockFits(t, "blocked", arg[t])
  <2>1. \A s \in Surfaces : surfLock'[s] = IF s = arg[t] THEN None ELSE surfLock[s]
    BY <1>0, TypeSplit DEF RestOK
  <2> QED  BY <2>1 DEF LockInv, LockFits, Shows, PqSteps, PqtSteps
<1>5. RefFits(t, "blocked", arg[t])
  BY DEF TypeOK, StepInv, Fits, RefFits, CallRefs, Bit
<1> QED  BY <1>1, <1>2, <1>3, <1>4, <1>5, BaseMoves

LEMMA BaseBlockRefuse ==
  ASSUME BaseInv, NEW t \in Threads, BlockRefuse(t)
  PROVE  BaseInv' /\ Moves(t, Left, None)
<1> USE Distinctness DEF BaseInv, BlockRefuse, surfVars, pqVars, pqtVars, localVars, env
<1>0. arg[t] \in Surfaces
  BY TypeSplit DEF RestOK, StepInv, Fits, InCall, DisplaySteps, BlockSteps, BlockReturn, Left
<1>1. Moves(t, Left, None)
  BY TypeSplit DEF Moves, Steps, InCall, DisplaySteps, BlockSteps, QueueSteps, BlockReturn, Left
<1>2. RestOK'
  <2>0. RestOK  BY TypeSplit
  <2>1. refcnt' \in [Surfaces -> Int]
    BY <2>0, <1>0, PresentationAssumption, SMTT(60) DEF RestOK, BlockReturn, Left
  <2>2. surfLock' \in [Surfaces -> Procs \cup {None}]
    BY <2>0, <1>0, PresentationAssumption DEF RestOK, BlockReturn, Left
  <2> QED
    BY <2>0, <2>1, <2>2 DEF RestOK, BlockReturn, Left
<1>3. StepFits(t, Left, None)
  BY DEF StepInv, StepFits, Fits, InCall, DisplaySteps, BlockSteps, QueueSteps, Shows, BlockReturn, Left
<1>4. LockFits(t, Left, None)
  <2>1. \A s \in Surfaces : surfLock'[s] = IF s = arg[t] THEN None ELSE surfLock[s]
    BY <1>0, TypeSplit DEF RestOK
  <2> QED  BY <2>1 DEF LockInv, LockFits, Shows, PqSteps, PqtSteps, BlockReturn, Left
<1>5. RefFits(t, Left, None)
  <2>1. CallRefs(t, pc[t], arg[t]) = 1
    BY CallRefsOf DEF StepInv, Fits, InCall, DisplaySteps, BlockSteps, BlockReturn, Left
  <2>2. CallRefs(t, Left, None) = 0  BY CallRefsOf DEF Left
  <2>3. pqRefs' = pqRefs - 1 /\ pqHandle' = pqHandle  BY DEF BlockReturn, Left
  <2> QED  BY <2>1, <2>2, <2>3 DEF TypeOK, RefFits, Bit
<1> QED  BY <1>1, <1>2, <1>3, <1>4, <1>5, BaseMoves

LEMMA BaseUnblock ==
  ASSUME BaseInv, NEW t \in Threads, Unblock(t)
  PROVE  BaseInv' /\ Moves(t, Left, None)
<1> USE Distinctness DEF BaseInv, Unblock, surfVars, pqVars, pqtVars, localVars, env
<1>0. arg[t] \in Surfaces
  BY TypeSplit DEF RestOK, StepInv, Fits, InCall, DisplaySteps, BlockSteps, BlockReturn, Left
<1>1. Moves(t, Left, None)
  BY TypeSplit DEF Moves, Steps, InCall, DisplaySteps, BlockSteps, QueueSteps, BlockReturn, Left
<1>2. RestOK'
  <2>0. RestOK  BY TypeSplit
  <2>1. refcnt' \in [Surfaces -> Int]
    BY <2>0, <1>0, PresentationAssumption, SMTT(60) DEF RestOK, BlockReturn, Left
  <2> QED
    BY <2>0, <2>1 DEF RestOK, BlockReturn, Left
<1>3. StepFits(t, Left, None)
  BY DEF StepInv, StepFits, Fits, InCall, DisplaySteps, BlockSteps, QueueSteps, Shows, BlockReturn, Left
<1>4. LockFits(t, Left, None)
  BY DEF LockInv, LockFits, Shows, PqSteps, PqtSteps, BlockReturn, Left
<1>5. RefFits(t, Left, None)
  <2>1. CallRefs(t, pc[t], arg[t]) = 1
    BY CallRefsOf DEF StepInv, Fits, InCall, DisplaySteps, BlockSteps, BlockReturn, Left
  <2>2. CallRefs(t, Left, None) = 0  BY CallRefsOf DEF Left
  <2>3. pqRefs' = pqRefs - 1 /\ pqHandle' = pqHandle  BY DEF BlockReturn, Left
  <2> QED  BY <2>1, <2>2, <2>3 DEF TypeOK, RefFits, Bit
<1> QED  BY <1>1, <1>2, <1>3, <1>4, <1>5, BaseMoves

LEMMA BaseCreateQueue ==
  ASSUME BaseInv, NEW t \in Threads, CreateQueue(t)
  PROVE  BaseInv' /\ Moves(Queue, (IF "late_start" \in admits THEN "start" ELSE "wait"), arg[Queue])
<1> USE Distinctness DEF BaseInv, CreateQueue, surfVars, pqVars, pqtVars, localVars, env
<1>1. Moves(Queue, (IF "late_start" \in admits THEN "start" ELSE "wait"), arg[Queue])
  BY TypeSplit DEF Moves, Steps, InCall, DisplaySteps, BlockSteps, QueueSteps
<1>2. RestOK'
  <2>0. RestOK  BY TypeSplit
  <2>1. list' \in Seq(Surfaces)
    BY <2>0, PresentationAssumption DEF RestOK
  <2>2. time' \in Times
    BY <2>0, PresentationAssumption DEF RestOK, Times, Never
  <2> QED
    BY <2>0, <2>1, <2>2 DEF RestOK
<1>3. StepFits(Queue, (IF "late_start" \in admits THEN "start" ELSE "wait"), arg[Queue])
  BY DEF StepInv, StepFits, Fits, InCall, DisplaySteps, BlockSteps, QueueSteps, Shows
<1>4. LockFits(Queue, (IF "late_start" \in admits THEN "start" ELSE "wait"), arg[Queue])
  BY DEF LockInv, LockFits, Shows, PqSteps, PqtSteps
<1>5. RefFits(Queue, (IF "late_start" \in admits THEN "start" ELSE "wait"), arg[Queue])
  BY DEF TypeOK, StepInv, Fits, RefFits, CallRefs, Bit
<1> QED  BY <1>1, <1>2, <1>3, <1>4, <1>5, BaseMoves

LEMMA BaseDestroyQueue ==
  ASSUME BaseInv, NEW t \in Threads, DestroyQueue(t)
  PROVE  BaseInv' /\ Moves(t, "close", arg[t])
<1> USE Distinctness DEF BaseInv, DestroyQueue, surfVars, pqVars, pqtVars, localVars, env
<1>1. Moves(t, "close", arg[t])
  BY TypeSplit DEF Moves, Steps, InCall, DisplaySteps, BlockSteps, QueueSteps
<1>2. RestOK'  BY TypeSplit DEF RestOK
<1>3. StepFits(t, "close", arg[t])
  BY DEF StepInv, StepFits, Fits, InCall, DisplaySteps, BlockSteps, QueueSteps, Shows
<1>4. LockFits(t, "close", arg[t])
  BY DEF LockInv, LockFits, Shows, PqSteps, PqtSteps
<1>5. RefFits(t, "close", arg[t])
  BY DEF TypeOK, StepInv, Fits, RefFits, CallRefs, Bit
<1> QED  BY <1>1, <1>2, <1>3, <1>4, <1>5, BaseMoves

LEMMA BaseClose ==
  ASSUME BaseInv, NEW t \in Threads, Close(t)
  PROVE  BaseInv' /\ Moves(t, Left, arg[t])
<1> USE Distinctness DEF BaseInv, Close, surfVars, pqVars, pqtVars, localVars, env
<1>1. Moves(t, Left, arg[t])
  BY TypeSplit DEF Moves, Steps, InCall, DisplaySteps, BlockSteps, QueueSteps, Left, Signalled
<1>2. RestOK'  BY TypeSplit DEF RestOK, Left, Signalled
<1>3. StepFits(t, Left, arg[t])
  BY DEF StepInv, StepFits, Fits, InCall, DisplaySteps, BlockSteps, QueueSteps, Shows, Left, Signalled
<1>4. LockFits(t, Left, arg[t])
  BY DEF LockInv, LockFits, Shows, PqSteps, PqtSteps, Left, Signalled
<1>5. RefFits(t, Left, arg[t])
  BY DEF TypeOK, StepInv, Fits, RefFits, CallRefs, Bit, Left, Signalled
<1> QED  BY <1>1, <1>2, <1>3, <1>4, <1>5, BaseMoves

LEMMA BaseJoin ==
  ASSUME BaseInv, NEW t \in Threads, Join(t)
  PROVE  BaseInv' /\ Moves(t, "idle", arg[t])
<1> USE Distinctness DEF BaseInv, Join, surfVars, pqVars, pqtVars, localVars, env
<1>1. Moves(t, "idle", arg[t])
  BY TypeSplit DEF Moves, Steps, InCall, DisplaySteps, BlockSteps, QueueSteps
<1>2. RestOK'  BY TypeSplit DEF RestOK
<1>3. StepFits(t, "idle", arg[t])
  BY DEF StepInv, StepFits, Fits, InCall, DisplaySteps, BlockSteps, QueueSteps, Shows
<1>4. LockFits(t, "idle", arg[t])
  BY DEF LockInv, LockFits, Shows, PqSteps, PqtSteps
<1>5. RefFits(t, "idle", arg[t])
  BY DEF TypeOK, StepInv, Fits, RefFits, CallRefs, Bit
<1> QED  BY <1>1, <1>2, <1>3, <1>4, <1>5, BaseMoves

LEMMA BaseCreateSurface ==
  ASSUME BaseInv, NEW t \in Threads, NEW s \in Surfaces, CreateSurface(t, s)
  PROVE  BaseInv' /\ Moves(t, "idle", arg[t])
<1> USE Distinctness DEF BaseInv, CreateSurface, surfVars, pqVars, pqtVars, localVars, env
<1>1. Moves(t, "idle", arg[t])
  BY TypeSplit DEF Moves, Steps, InCall, DisplaySteps, BlockSteps, QueueSteps, callVars
<1>2. RestOK'
  <2>0. RestOK  BY TypeSplit
  <2>1. handle' \in [Surfaces -> BOOLEAN]
    BY <2>0, PresentationAssumption DEF RestOK, callVars
  <2>2. refcnt' \in [Surfaces -> Int]
    BY <2>0, PresentationAssumption DEF RestOK, callVars
  <2>3. status' \in [Surfaces -> {"idle", "queued", "visible"}]
    BY <2>0, PresentationAssumption DEF RestOK, callVars
  <2>4. due' \in [Surfaces -> 0 .. MaxTime]
    BY <2>0, PresentationAssumption DEF RestOK, callVars
  <2> QED
    BY <2>0, <2>1, <2>2, <2>3, <2>4 DEF RestOK, callVars
<1>3. StepFits(t, "idle", arg[t])
  BY DEF StepInv, StepFits, Fits, InCall, DisplaySteps, BlockSteps, QueueSteps, Shows, callVars
<1>4. LockFits(t, "idle", arg[t])
  BY DEF LockInv, LockFits, Shows, PqSteps, PqtSteps, callVars
<1>5. RefFits(t, "idle", arg[t])
  BY DEF TypeOK, StepInv, Fits, RefFits, CallRefs, Bit, callVars
<1> QED  BY <1>1, <1>2, <1>3, <1>4, <1>5, BaseMoves

LEMMA BaseDestroySurface ==
  ASSUME BaseInv, NEW t \in Threads, NEW s \in Surfaces, DestroySurface(t, s)
  PROVE  BaseInv' /\ Moves(t, "idle", arg[t])
<1> USE Distinctness DEF BaseInv, DestroySurface, surfVars, pqVars, pqtVars, localVars, env
<1>1. Moves(t, "idle", arg[t])
  BY TypeSplit DEF Moves, Steps, InCall, DisplaySteps, BlockSteps, QueueSteps, callVars
<1>2. RestOK'
  <2>0. RestOK  BY TypeSplit
  <2>1. handle' \in [Surfaces -> BOOLEAN]
    BY <2>0, PresentationAssumption DEF RestOK, callVars
  <2>2. refcnt' \in [Surfaces -> Int]
    BY <2>0, PresentationAssumption, SMTT(60) DEF RestOK, callVars
  <2>3. due' \in [Surfaces -> 0 .. MaxTime]
    BY <2>0, PresentationAssumption DEF RestOK, callVars
  <2> QED
    BY <2>0, <2>1, <2>2, <2>3 DEF RestOK, callVars
<1>3. StepFits(t, "idle", arg[t])
  BY DEF StepInv, StepFits, Fits, InCall, DisplaySteps, BlockSteps, QueueSteps, Shows, callVars
<1>4. LockFits(t, "idle", arg[t])
  BY DEF LockInv, LockFits, Shows, PqSteps, PqtSteps, callVars
<1>5. RefFits(t, "idle", arg[t])
  BY DEF TypeOK, StepInv, Fits, RefFits, CallRefs, Bit, callVars
<1> QED  BY <1>1, <1>2, <1>3, <1>4, <1>5, BaseMoves

LEMMA BaseTick ==
  ASSUME BaseInv, Tick
  PROVE  BaseInv' /\ Moves(Queue, pc[Queue], arg[Queue])
<1> USE Distinctness DEF BaseInv, Tick, surfVars, pqVars, pqtVars, localVars, env
<1>1. Moves(Queue, pc[Queue], arg[Queue])
  BY TypeSplit DEF Moves, Steps, InCall, DisplaySteps, BlockSteps, QueueSteps, callVars
<1>2. RestOK'
  <2>0. RestOK  BY TypeSplit
  <2>1. now' \in 0 .. MaxTime
    BY <2>0, PresentationAssumption DEF RestOK, callVars
  <2> QED
    BY <2>0, <2>1 DEF RestOK, callVars
<1>3. StepFits(Queue, pc[Queue], arg[Queue])
  BY DEF StepInv, StepFits, Fits, InCall, DisplaySteps, BlockSteps, QueueSteps, Shows, callVars
<1>4. LockFits(Queue, pc[Queue], arg[Queue])
  BY DEF LockInv, LockFits, Shows, PqSteps, PqtSteps, callVars
<1>5. RefFits(Queue, pc[Queue], arg[Queue])
  BY DEF TypeOK, StepInv, Fits, RefFits, CallRefs, Bit, callVars
<1> QED  BY <1>1, <1>2, <1>3, <1>4, <1>5, BaseMoves

-----------------------------------------------------------------------------
(***************************************************************************)
(* What leaves each part of the invariant alone.                           *)
(***************************************************************************)

LEMMA EmptyElems == Elems(<<>>) = {} /\ Distinct(<<>>)
  BY DEF Elems, Distinct

LEMMA HeadElems ==
  ASSUME NEW q \in Seq(Surfaces), q # <<>>
  PROVE  /\ Head(q) \in Surfaces /\ Tail(q) \in Seq(Surfaces)
         /\ Elems(q) = {Head(q)} \cup Elems(Tail(q))
         /\ Distinct(q) => Distinct(Tail(q)) /\ Head(q) \notin Elems(Tail(q))
<1>1. /\ Len(q) \in Nat \ {0} /\ DOMAIN q = 1 .. Len(q)
      /\ Head(q) = q[1] /\ Head(q) \in Surfaces /\ Tail(q) \in Seq(Surfaces)
      /\ DOMAIN Tail(q) = 1 .. Len(q) - 1
      /\ \A i \in 1 .. Len(q) - 1 : Tail(q)[i] = q[i + 1]
  OBVIOUS
<1>2. \A i \in 1 .. Len(q) - 1 : i + 1 \in 1 .. Len(q)  BY <1>1
<1>3. \A i \in 1 .. Len(q) : i = 1 \/ (i - 1 \in 1 .. Len(q) - 1 /\ (i - 1) + 1 = i)  BY <1>1
<1>4. Elems(q) \subseteq {Head(q)} \cup Elems(Tail(q))
  <2>1. ASSUME NEW i \in 1 .. Len(q) PROVE q[i] \in {Head(q)} \cup Elems(Tail(q))
    <3>1. CASE i = 1  BY <1>1, <3>1
    <3>2. CASE i # 1
      <4>1. i - 1 \in 1 .. Len(q) - 1 /\ Tail(q)[i - 1] = q[i]  BY <1>1, <1>3, <3>2
      <4> QED  BY <1>1, <4>1 DEF Elems
    <3> QED  BY <3>1, <3>2
  <2> QED  BY <1>1, <2>1 DEF Elems
<1>5. Elems(Tail(q)) \subseteq Elems(q)  BY <1>1, <1>2 DEF Elems
<1>6. Head(q) \in Elems(q)
  <2>1. 1 \in DOMAIN q  BY <1>1
  <2> QED  BY <1>1, <2>1 DEF Elems
<1>7. ASSUME Distinct(q) PROVE Distinct(Tail(q)) /\ Head(q) \notin Elems(Tail(q))
  <2>1. \A i, j \in 1 .. Len(q) : q[i] = q[j] => i = j  BY <1>1, <1>7 DEF Distinct
  <2>2. \A i, j \in 1 .. Len(q) - 1 : Tail(q)[i] = Tail(q)[j] => i = j
    <3> SUFFICES ASSUME NEW i \in 1 .. Len(q) - 1, NEW j \in 1 .. Len(q) - 1,
                        Tail(q)[i] = Tail(q)[j]
                 PROVE  i = j
      OBVIOUS
    <3>1. i + 1 = j + 1  BY <1>1, <1>2, <2>1
    <3> QED  BY <3>1
  <2>3. \A i \in 1 .. Len(q) - 1 : Tail(q)[i] # q[1]
    <3> SUFFICES ASSUME NEW i \in 1 .. Len(q) - 1, Tail(q)[i] = q[1] PROVE FALSE
      OBVIOUS
    <3>1. i + 1 = 1  BY <1>1, <1>2, <2>1
    <3> QED  BY <3>1
  <2> QED  BY <1>1, <2>2, <2>3 DEF Distinct, Elems
<1> QED  BY <1>1, <1>4, <1>5, <1>6, <1>7

LEMMA AppendElems ==
  ASSUME NEW q \in Seq(Surfaces), NEW s \in Surfaces
  PROVE  /\ Append(q, s) \in Seq(Surfaces)
         /\ Elems(Append(q, s)) = Elems(q) \cup {s}
         /\ Distinct(q) /\ s \notin Elems(q) => Distinct(Append(q, s))
<1> DEFINE r == Append(q, s)
<1>1. /\ Len(q) \in Nat /\ DOMAIN q = 1 .. Len(q) /\ DOMAIN r = 1 .. Len(q) + 1
      /\ r[Len(q) + 1] = s /\ r \in Seq(Surfaces)
      /\ \A i \in 1 .. Len(q) : r[i] = q[i]
  OBVIOUS
<1>2. \A i \in 1 .. Len(q) + 1 : i \in 1 .. Len(q) \/ i = Len(q) + 1  BY <1>1
<1>3. Len(q) + 1 \in 1 .. Len(q) + 1 /\ 1 .. Len(q) \subseteq 1 .. Len(q) + 1  BY <1>1
<1> HIDE DEF r
<1>4. Elems(r) = Elems(q) \cup {s}  BY <1>1, <1>2, <1>3 DEF Elems
<1>5. ASSUME Distinct(q), s \notin Elems(q) PROVE Distinct(r)
  <2> SUFFICES ASSUME NEW i \in 1 .. Len(q) + 1, NEW j \in 1 .. Len(q) + 1, r[i] = r[j]
               PROVE  i = j
    BY <1>1 DEF Distinct
  <2>1. \A k \in 1 .. Len(q) : r[k] # s  BY <1>1, <1>5 DEF Elems
  <2> QED  BY <1>1, <1>2, <1>5, <2>1 DEF Distinct
<1> QED  BY <1>1, <1>4, <1>5 DEF r

LEMMA ListedIs ==
  /\ Listed = Elems(list) \cup Elems(todo)
  /\ Listed' = Elems(list') \cup Elems(todo')
  BY DEF Listed, Elems

LEMMA ListedType == ASSUME BaseInv PROVE Listed \subseteq Surfaces
<1>1. list \in Seq(Surfaces) /\ todo \in Seq(Surfaces)  BY DEF BaseInv, TypeOK
<1>2. \A q \in Seq(Surfaces) : \A i \in DOMAIN q : q[i] \in Surfaces  OBVIOUS
<1> QED  BY <1>1, <1>2 DEF Listed

LEMMA ListFrame ==
  ASSUME BaseInv, ListInv, UNCHANGED <<list, todo>>, arg'[Queue] \in {arg[Queue], None}
  PROVE  ListInv'
<1>1. Listed' = Listed  BY ListedIs
<1>2. None \notin Listed  BY ListedType, Distinctness
<1> QED  BY <1>1, <1>2 DEF ListInv

LEMMA StatusFrame ==
  ASSUME BaseInv, StatusInv, NEW p \in Procs, NEW x, NEW a, Moves(p, x, a),
         UNCHANGED status, Listed' = Listed,
         p \in Threads /\ x \in Shows => pc[p] \in Shows /\ a = arg[p],
         p # Overlap /\ x = "replacing" => pc[p] = "replacing" /\ a = arg[p],
         p = Queue => a = arg[Queue] /\ (x = "replacing" <=> pc[p] = "replacing")
  PROVE  StatusInv'
<1> USE Distinctness
<1>1. arg'[Queue] = arg[Queue] /\ (pc'[Queue] = "replacing" <=> pc[Queue] = "replacing")
  BY DEF Moves
<1>2. \A t \in Threads : pc'[t] \in Shows => pc[t] \in Shows /\ arg'[t] = arg[t]
  BY DEF Moves, Shows
<1>3. \A q \in Procs \ {Overlap} : pc'[q] = "replacing" => pc[q] = "replacing" /\ arg'[q] = arg[q]
  BY DEF Moves
<1> QED  BY <1>1, <1>2, <1>3 DEF StatusInv

LEMMA UsersFrame ==
  ASSUME BaseInv, UsersInv, NEW p \in Procs, NEW x, NEW a, Moves(p, x, a), UNCHANGED admits,
         p \in Threads => \/ a = None
                          \/ a = arg[p] /\ (pc[p] \in BlockSteps => x \in BlockSteps)
  PROVE  UsersInv'
<1> SUFFICES ASSUME NEW t \in Threads, NEW u \in Threads,
                    t # u, arg'[t] = arg'[u], arg'[t] # None
             PROVE  "two_waiters" \in admits /\ pc'[t] \in BlockSteps /\ pc'[u] \in BlockSteps
  BY DEF UsersInv
<1>1. \A q \in Threads : arg'[q] # None =>
         arg'[q] = arg[q] /\ (pc[q] \in BlockSteps => pc'[q] \in BlockSteps)
  BY Distinctness DEF Moves, BlockSteps
<1> QED  BY <1>1 DEF UsersInv

LEMMA VisibleFrame ==
  ASSUME BaseInv, VisibleInv, NEW p \in Procs, NEW x, NEW a, Moves(p, x, a),
         UNCHANGED <<status, disp, admits>>,
         x = "replacing" <=> pc[p] = "replacing",
         x = "replacing" => a = arg[p],
         p \in Threads /\ x \in Before => pc[p] \in Before /\ a = arg[p]
  PROVE  VisibleInv'
<1> USE Distinctness
<1>1. \A q \in Procs : /\ pc'[q] = "replacing" <=> pc[q] = "replacing"
                       /\ pc'[q] = "replacing" => arg'[q] = arg[q]
  BY DEF Moves
<1>2. \A s : Replacing(s)' <=> Replacing(s)  BY <1>1 DEF Replacing
<1>3. \A t \in Threads : pc'[t] \in Before => pc[t] \in Before /\ arg'[t] = arg[t]
  BY DEF Moves, Before
<1> QED  BY <1>1, <1>2, <1>3 DEF VisibleInv, Follows

LEMMA EndFrame ==
  ASSUME BaseInv, EndInv, NEW p \in Procs, NEW x, NEW a, Moves(p, x, a),
         UNCHANGED <<pqHandle, admits>>,
         p \in Threads /\ x \in DisplaySteps => pc[p] \in DisplaySteps
  PROVE  EndInv'
<1>1. Displaying' \subseteq Displaying
  BY Distinctness DEF Moves, Displaying, DisplaySteps
<1> QED  BY <1>1 DEF EndInv

LEMMA ExitFrame ==
  ASSUME BaseInv, ExitInv, NEW p \in Procs, NEW x, NEW a, Moves(p, x, a),
         UNCHANGED <<pqHandle, exit, disp, admits>>, Listed' = Listed,
         p = Queue => \/ x \notin Gone
                      \/ pc[Queue] \in Gone /\ (x = "exit" \/ x = pc[Queue]),
         p \in Threads => x # "close" \/ pc[p] = "close"
  PROVE  ExitInv'
<1> USE Distinctness
<1>1. \/ pc'[Queue] \notin Gone
      \/ pc[Queue] \in Gone /\ (pc'[Queue] = "exit" \/ pc'[Queue] = pc[Queue])
  BY DEF Moves, Gone
<1>2. \A t \in Threads : pc'[t] = "close" => pc[t] = "close"  BY DEF Moves
<1> QED  BY <1>1, <1>2 DEF ExitInv, Gone, Follows

LEMMA WaiterFrame ==
  ASSUME BaseInv, WaiterInv, NEW p \in Procs, NEW x, NEW a, Moves(p, x, a), UNCHANGED admits,
         \A s \in Surfaces : status'[s] = "idle" => status[s] = "idle",
         p \in Threads /\ x \in {"try", "blocked"} => pc[p] \in {"try", "blocked"} /\ a = arg[p]
  PROVE  WaiterInv'
<1>1. \A t \in Threads : pc'[t] \in {"try", "blocked"} =>
         pc[t] \in {"try", "blocked"} /\ arg'[t] = arg[t]
  BY Distinctness DEF Moves
<1>2. \A t \in Threads : pc[t] \in {"try", "blocked"} => arg[t] \in Surfaces
  BY Distinctness DEF BaseInv, TypeOK, StepInv, Fits, InCall, BlockSteps
<1> QED  BY <1>1, <1>2 DEF WaiterInv

LEMMA TimeFrame ==
  ASSUME BaseInv, TimeInv, NEW p \in Procs, NEW x, NEW a, Moves(p, x, a),
         UNCHANGED <<due, time, now>>,
         p = Queue => /\ x \in Shows \cup {"scan", "timed_out"} =>
                           pc[p] \in Shows \cup {"scan", "timed_out"}
                      /\ \/ a = None
                         \/ a = arg[p] /\ (pc[p] = "replacing" => x = "replacing")
  PROVE  TimeInv'
<1> USE Distinctness
<1>1. pc'[Queue] \in Shows \cup {"scan", "timed_out"} => pc[Queue] \in Shows \cup {"scan", "timed_out"}
  BY DEF Moves, Shows
<1>2. \/ arg'[Queue] = None
      \/ arg'[Queue] = arg[Queue] /\ (pc[Queue] = "replacing" => pc'[Queue] = "replacing")
  BY DEF Moves
<1> QED  BY <1>1, <1>2 DEF TimeInv

\* The references thread p at step x with surface a has on s.
ThreadRefs(p, x, a, s) ==
  Bit(p \in Threads /\ a = s) + Bit(p \in Threads /\ a = s /\ x \in Shows)

\* By how much the references that are accounted for grow.
Growth(p, x, a, s) ==
  Bit(handle'[s]) - Bit(handle[s]) + Bit(s \in Listed') - Bit(s \in Listed)
  + Bit(arg'[Queue] = s) - Bit(arg[Queue] = s) + Bit(Kept(s)') - Bit(Kept(s))
  + ThreadRefs(p, x, a, s) - ThreadRefs(p, pc[p], arg[p], s)

LEMMA CountGrows ==
  ASSUME BaseInv, BaseInv', NEW p \in Procs, NEW x, NEW a, Moves(p, x, a), NEW s \in Surfaces
  PROVE  /\ Count(s) \in Nat /\ Growth(p, x, a, s) \in Int
         /\ Count(s)' = Count(s) + Growth(p, x, a, s)
<1>1. OthersStay(p)  BY MovesStay
<1>2. /\ Cardinality(Using(s)) \in Nat /\ Cardinality(Showers(s)) \in Nat
      /\ Cardinality(Using(s))' = Cardinality(Using(s)) - Bit(p \in Using(s)) + Bit(p \in Using(s)')
      /\ Cardinality(Showers(s))' = Cardinality(Showers(s)) - Bit(p \in Showers(s)) + Bit(p \in Showers(s)')
  BY <1>1, SurfaceCounts
<1>3. \A b, c \in BOOLEAN : (b <=> c) => Bit(b) = Bit(c)  BY DEF Bit
<1>4. /\ (p \in Using(s)) <=> (p \in Threads /\ arg[p] = s)
      /\ (p \in Using(s)') <=> (p \in Threads /\ a = s)
      /\ (p \in Showers(s)) <=> (p \in Threads /\ arg[p] = s /\ pc[p] \in Shows)
      /\ (p \in Showers(s)') <=> (p \in Threads /\ a = s /\ x \in Shows)
  BY DEF Using, Showers, Moves
<1>5. /\ Bit(p \in Using(s)) = Bit(p \in Threads /\ arg[p] = s)
      /\ Bit(p \in Using(s)') = Bit(p \in Threads /\ a = s)
      /\ Bit(p \in Showers(s)) = Bit(p \in Threads /\ arg[p] = s /\ pc[p] \in Shows)
      /\ Bit(p \in Showers(s)') = Bit(p \in Threads /\ a = s /\ x \in Shows)
  BY <1>3, <1>4
<1>6. /\ Bit(p \in Using(s)) \in 0 .. 1 /\ Bit(p \in Using(s)') \in 0 .. 1
      /\ Bit(p \in Showers(s)) \in 0 .. 1 /\ Bit(p \in Showers(s)') \in 0 .. 1
      /\ Bit(handle[s]) \in 0 .. 1 /\ Bit(handle'[s]) \in 0 .. 1
      /\ Bit(s \in Listed) \in 0 .. 1 /\ Bit(s \in Listed') \in 0 .. 1
      /\ Bit(arg[Queue] = s) \in 0 .. 1 /\ Bit(arg'[Queue] = s) \in 0 .. 1
      /\ Bit(Kept(s)) \in 0 .. 1 /\ Bit(Kept(s)') \in 0 .. 1
  BY DEF Bit
<1>7. Growth(p, x, a, s) =
         Bit(handle'[s]) - Bit(handle[s]) + Bit(s \in Listed') - Bit(s \in Listed)
         + Bit(arg'[Queue] = s) - Bit(arg[Queue] = s) + Bit(Kept(s)') - Bit(Kept(s))
         + (Bit(p \in Using(s)') + Bit(p \in Showers(s)'))
         - (Bit(p \in Using(s)) + Bit(p \in Showers(s)))
  BY <1>5 DEF Growth, ThreadRefs
<1>8. Count(s)' = Bit(handle'[s]) + Bit(s \in Listed') + Bit(arg'[Queue] = s) + Bit(Kept(s)')
                  + Cardinality(Showers(s))' + Cardinality(Using(s))'
  BY DEF Count
<1>9. Count(s) = Bit(handle[s]) + Bit(s \in Listed) + Bit(arg[Queue] = s) + Bit(Kept(s))
                 + Cardinality(Showers(s)) + Cardinality(Using(s))
  BY DEF Count
<1>10. Growth(p, x, a, s) \in Int  BY <1>6, <1>7
<1>11. Count(s) \in Nat  BY <1>2, <1>6, <1>9
<1>12. Count(s)' = Count(s) + Growth(p, x, a, s)  BY <1>2, <1>6, <1>7, <1>8, <1>9
<1> QED  BY <1>10, <1>11, <1>12

LEMMA RefStep ==
  ASSUME BaseInv, BaseInv', RefInv, NEW p \in Procs, NEW x, NEW a, Moves(p, x, a),
         UNCHANGED admits,
         \A s \in Surfaces : /\ refcnt'[s] >= refcnt[s] + Growth(p, x, a, s)
                             /\ Follows => refcnt'[s] = refcnt[s] + Growth(p, x, a, s)
  PROVE  RefInv'
<1> SUFFICES ASSUME NEW s \in Surfaces
             PROVE  refcnt'[s] >= Count(s)' /\ (Follows => refcnt'[s] = Count(s)')
  BY DEF RefInv, Follows
<1>1. refcnt[s] \in Int /\ refcnt'[s] \in Int  BY DEF BaseInv, TypeOK
<1>2. /\ Count(s) \in Nat /\ Growth(p, x, a, s) \in Int
      /\ Count(s)' = Count(s) + Growth(p, x, a, s)
  BY CountGrows
<1>3. refcnt[s] >= Count(s) /\ (Follows => refcnt[s] = Count(s))  BY DEF RefInv
<1> HIDE DEF Growth, Count, Follows
<1> QED  BY <1>1, <1>2, <1>3

LEMMA RefFrame ==
  ASSUME BaseInv, BaseInv', RefInv, NEW p \in Procs, NEW x, NEW a, Moves(p, x, a),
         UNCHANGED <<handle, refcnt, disp, admits>>, Listed' = Listed,
         p = Queue => a = arg[p] /\ (x = "done" <=> pc[p] = "done"),
         p \in Threads => a = arg[p] /\ (x \in Shows <=> pc[p] \in Shows)
  PROVE  RefInv'
<1>1. arg'[Queue] = arg[Queue] /\ (pc'[Queue] = "done" <=> pc[Queue] = "done")
  BY Distinctness DEF Moves
<1>2. ASSUME NEW s \in Surfaces PROVE Growth(p, x, a, s) = 0
  <2>1. \A b, c \in BOOLEAN : (b <=> c) => Bit(b) = Bit(c)  BY DEF Bit
  <2>2. Bit(Kept(s)') = Bit(Kept(s))
    <3>1. Kept(s)' <=> Kept(s)  BY <1>1 DEF Kept, Follows
    <3>2. Kept(s) \in BOOLEAN /\ Kept(s)' \in BOOLEAN  BY DEF Kept
    <3> QED  BY <2>1, <3>1, <3>2
  <2>3. ThreadRefs(p, x, a, s) = ThreadRefs(p, pc[p], arg[p], s)
    BY DEF ThreadRefs, Bit
  <2>4. ThreadRefs(p, pc[p], arg[p], s) \in Int  BY DEF ThreadRefs, Bit
  <2>5. /\ Bit(handle[s]) \in 0 .. 1 /\ Bit(s \in Listed) \in 0 .. 1
        /\ Bit(arg[Queue] = s) \in 0 .. 1 /\ Bit(Kept(s)) \in 0 .. 1
    BY DEF Bit
  <2> QED  BY <1>1, <2>2, <2>3, <2>4, <2>5 DEF Growth
<1>3. \A s \in Surfaces : refcnt[s] \in Int  BY DEF BaseInv, TypeOK
<1> HIDE DEF Growth
<1> QED  BY <1>2, <1>3, RefStep

\* A step that only moves its thread, within the same stage of its call.
Quiet(p, x, a) ==
  /\ p # Overlap => a = arg[p]
  /\ x = "replacing" <=> pc[p] = "replacing"
  /\ x = "replacing" => a = arg[p]
  /\ p \in Threads => /\ x \in Shows <=> pc[p] \in Shows
                      /\ x \in Before => pc[p] \in Before
                      /\ pc[p] \in BlockSteps => x \in BlockSteps
                      /\ x \in {"try", "blocked"} => pc[p] \in {"try", "blocked"}
  /\ p = Queue => (x = "done" <=> pc[p] = "done")

LEMMA QuietInv ==
  ASSUME BaseInv, BaseInv', SInv, NEW p \in Procs, NEW x, NEW a, Moves(p, x, a), Quiet(p, x, a),
         UNCHANGED <<handle, refcnt, status, due, list, todo, disp, admits>>,
         EndInv', ExitInv', TimeInv'
  PROVE  SInv'
<1> USE Distinctness DEF SInv
<1>0. Listed' = Listed  BY ListedIs
<1>1. ListInv'
  <2>1. arg'[Queue] = arg[Queue]  BY DEF Moves, Quiet
  <2> QED  BY <2>1, ListFrame
<1>2. StatusInv'  BY <1>0, StatusFrame DEF Quiet
<1>3. UsersInv'  BY UsersFrame DEF Quiet
<1>4. VisibleInv'  BY VisibleFrame DEF Quiet
<1>5. RefInv'  BY <1>0, RefFrame DEF Quiet
<1>6. WaiterInv'  BY WaiterFrame DEF Quiet
<1> QED  BY <1>1, <1>2, <1>3, <1>4, <1>5, <1>6

\* A call on a surface returns: it drops its reference.
LEMMA ReturnInv ==
  ASSUME BaseInv, BaseInv', SInv, NEW t \in Threads, Moves(t, Left, None),
         pc[t] \in {"lock_surf", "block", "try", "unblocked"},
         arg[t] \in Surfaces, refcnt' = [refcnt EXCEPT ![arg[t]] = @ - 1],
         UNCHANGED <<handle, status, due, list, todo, time, disp, pqHandle, exit, now, admits>>
  PROVE  SInv'
<1> USE Distinctness
<1>l. Left \in {"join", "idle"}  BY DEF Left
<1> HIDE DEF Left
<1>0. Listed' = Listed  BY ListedIs
<1>1. ListInv'
  <2>1. arg'[Queue] = arg[Queue]  BY DEF Moves
  <2> QED  BY <2>1, ListFrame DEF SInv
<1>2. StatusInv'  BY <1>0, <1>l, StatusFrame DEF SInv, Shows
<1>3. UsersInv'  BY UsersFrame DEF SInv
<1>4. VisibleInv'  BY <1>l, VisibleFrame DEF SInv, Before
<1>5. RefInv'
  <2>1. arg'[Queue] = arg[Queue] /\ (pc'[Queue] = "done" <=> pc[Queue] = "done")
    BY DEF Moves
  <2>2. ASSUME NEW s \in Surfaces PROVE Growth(t, Left, None, s) = 0 - Bit(s = arg[t])
    <3>1. \A b, c \in BOOLEAN : (b <=> c) => Bit(b) = Bit(c)  BY DEF Bit
    <3>2. Bit(Kept(s)') = Bit(Kept(s))
      <4>1. Kept(s)' <=> Kept(s)  BY <2>1 DEF Kept, Follows
      <4>2. Kept(s) \in BOOLEAN /\ Kept(s)' \in BOOLEAN  BY DEF Kept
      <4> QED  BY <3>1, <4>1, <4>2
    <3>3. arg'[Queue] = arg[Queue]  BY DEF Moves
    <3>4. ThreadRefs(t, Left, None, s) = 0  BY DEF ThreadRefs, Bit
    <3>5. ThreadRefs(t, pc[t], arg[t], s) = Bit(s = arg[t])
      BY DEF ThreadRefs, Bit, Shows
    <3>6. /\ Bit(handle[s]) \in 0 .. 1 /\ Bit(s \in Listed) \in 0 .. 1
          /\ Bit(arg[Queue] = s) \in 0 .. 1 /\ Bit(Kept(s)) \in 0 .. 1
          /\ Bit(s = arg[t]) \in 0 .. 1
      BY DEF Bit
    <3> QED  BY <1>0, <3>2, <3>3, <3>4, <3>5, <3>6 DEF Growth
  <2>3. \A s \in Surfaces : /\ refcnt[s] \in Int
                            /\ refcnt'[s] = refcnt[s] - Bit(s = arg[t])
                            /\ Bit(s = arg[t]) \in 0 .. 1
    <3>1. refcnt \in [Surfaces -> Int]  BY DEF BaseInv, TypeOK
    <3>2. \A s \in Surfaces : refcnt'[s] = IF s = arg[t] THEN refcnt[s] - 1 ELSE refcnt[s]
      BY <3>1
    <3> QED  BY <3>1, <3>2 DEF Bit
  <2> HIDE DEF Growth
  <2>4. \A s \in Surfaces : refcnt'[s] = refcnt[s] + Growth(t, Left, None, s)
                            /\ refcnt'[s] \in Int
    BY <2>2, <2>3
  <2> QED  BY <2>4, RefStep DEF SInv
<1>6. EndInv'  BY <1>l, EndFrame DEF SInv, DisplaySteps
<1>7. ExitInv'  BY <1>0, <1>l, ExitFrame DEF SInv
<1>8. WaiterInv'  BY <1>l, WaiterFrame DEF SInv
<1>9. TimeInv'  BY TimeFrame DEF SInv
<1> QED  BY <1>1, <1>2, <1>3, <1>4, <1>5, <1>6, <1>7, <1>8, <1>9 DEF SInv

-----------------------------------------------------------------------------
(***************************************************************************)
(* Lists, statuses and references of surfaces: every action.               *)
(***************************************************************************)

LEMMA SurfShowLock ==
  ASSUME BaseInv, SInv, NEW p \in Procs, ShowLock(p)
  PROVE  SInv'
<1> USE DEF SInv, ShowLock, surfVars, pqVars, pqtVars, localVars, env
<1>1. BaseInv' /\ Moves(p, "showing", arg[p])  BY BaseShowLock
<1>2. Quiet(p, "showing", arg[p])
  BY Distinctness DEF Quiet, Shows, Before, DisplaySteps, BlockSteps
<1>3. TimeInv'  BY <1>1, TimeFrame, Distinctness DEF Shows
<1>4. EndInv'  BY <1>1, EndFrame, Distinctness DEF DisplaySteps
<1>5. ExitInv'
  <2>1. Listed' = Listed  BY ListedIs
  <2> QED  BY <1>1, <2>1, ExitFrame, Distinctness DEF Gone
<1> HIDE DEF SInv
<1> QED  BY <1>1, <1>2, <1>3, <1>4, <1>5, QuietInv, Distinctness

LEMMA SurfDisplayLock ==
  ASSUME BaseInv, SInv, NEW t \in Threads, DisplayLock(t)
  PROVE  SInv'
<1> USE DEF SInv, DisplayLock, surfVars, pqVars, pqtVars, localVars, env
<1>1. BaseInv' /\ Moves(t, "lock_surf", arg[t])  BY BaseDisplayLock
<1>2. Quiet(t, "lock_surf", arg[t])
  BY Distinctness DEF Quiet, Shows, Before, DisplaySteps, BlockSteps
<1>3. TimeInv'  BY <1>1, TimeFrame, Distinctness DEF Shows
<1>4. EndInv'  BY <1>1, EndFrame, Distinctness DEF DisplaySteps
<1>5. ExitInv'
  <2>1. Listed' = Listed  BY ListedIs
  <2> QED  BY <1>1, <2>1, ExitFrame, Distinctness DEF Gone
<1> HIDE DEF SInv
<1> QED  BY <1>1, <1>2, <1>3, <1>4, <1>5, QuietInv, Distinctness

LEMMA SurfStartWait ==
  ASSUME BaseInv, SInv, StartWait
  PROVE  SInv'
<1> USE DEF SInv, StartWait, surfVars, pqVars, pqtVars, localVars, env
<1>1. BaseInv' /\ Moves(Queue, "wait", arg[Queue])  BY BaseStartWait
<1>2. Quiet(Queue, "wait", arg[Queue])
  BY Distinctness DEF Quiet, Shows, Before, DisplaySteps, BlockSteps
<1>3. TimeInv'  BY <1>1, TimeFrame, Distinctness DEF Shows
<1>4. EndInv'  BY <1>1, EndFrame, Distinctness DEF DisplaySteps
<1>5. ExitInv'
  <2>1. Listed' = Listed  BY ListedIs
  <2> QED  BY <1>1, <2>1, ExitFrame, Distinctness DEF Gone
<1> HIDE DEF SInv
<1> QED  BY <1>1, <1>2, <1>3, <1>4, <1>5, QuietInv, Distinctness

LEMMA SurfTimeOut ==
  ASSUME BaseInv, SInv, TimeOut
  PROVE  SInv'
<1> USE DEF SInv, TimeOut, surfVars, pqVars, pqtVars, localVars, env
<1>1. BaseInv' /\ Moves(Queue, "timed_out", arg[Queue])  BY BaseTimeOut
<1>2. Quiet(Queue, "timed_out", arg[Queue])
  BY Distinctness DEF Quiet, Shows, Before, DisplaySteps, BlockSteps
<1>3. TimeInv'
  <2>1. arg[Queue] = None /\ None \notin Surfaces
    BY Distinctness DEF BaseInv, StepInv, Fits, Shows
  <2> QED  BY <2>1 DEF BaseInv, TypeOK, TimeInv, Times
<1>4. EndInv'  BY <1>1, EndFrame, Distinctness DEF DisplaySteps
<1>5. ExitInv'
  <2>1. Listed' = Listed  BY ListedIs
  <2> QED  BY <1>1, <2>1, ExitFrame, Distinctness DEF Gone
<1> HIDE DEF SInv
<1> QED  BY <1>1, <1>2, <1>3, <1>4, <1>5, QuietInv, Distinctness

LEMMA SurfPrepareLock ==
  ASSUME BaseInv, SInv, PrepareLock
  PROVE  SInv'
<1> USE DEF SInv, PrepareLock, surfVars, pqVars, pqtVars, localVars, env
<1>1. BaseInv' /\ Moves(Queue, "preparing", arg[Queue])  BY BasePrepareLock
<1>2. Quiet(Queue, "preparing", arg[Queue])
  BY Distinctness DEF Quiet, Shows, Before, DisplaySteps, BlockSteps
<1>3. TimeInv'  BY <1>1, TimeFrame, Distinctness DEF Shows
<1>4. EndInv'  BY <1>1, EndFrame, Distinctness DEF DisplaySteps
<1>5. ExitInv'
  <2>1. Listed' = Listed  BY ListedIs
  <2> QED  BY <1>1, <2>1, ExitFrame, Distinctness DEF Gone
<1> HIDE DEF SInv
<1> QED  BY <1>1, <1>2, <1>3, <1>4, <1>5, QuietInv, Distinctness

LEMMA SurfPrepare ==
  ASSUME BaseInv, SInv, Prepare
  PROVE  SInv'
<1> USE DEF SInv, Prepare, surfVars, pqVars, pqtVars, localVars, env
<1>1. BaseInv' /\ Moves(Queue, "wait", arg[Queue])  BY BasePrepare
<1>2. Quiet(Queue, "wait", arg[Queue])
  BY Distinctness DEF Quiet, Shows, Before, DisplaySteps, BlockSteps
<1>3. TimeInv'  BY <1>1, TimeFrame, Distinctness DEF Shows
<1>4. EndInv'  BY <1>1, EndFrame, Distinctness DEF DisplaySteps
<1>5. ExitInv'
  <2>1. Listed' = Listed  BY ListedIs
  <2> QED  BY <1>1, <2>1, ExitFrame, Distinctness DEF Gone
<1> HIDE DEF SInv
<1> QED  BY <1>1, <1>2, <1>3, <1>4, <1>5, QuietInv, Distinctness

LEMMA SurfExitLock ==
  ASSUME BaseInv, SInv, ExitLock
  PROVE  SInv'
<1> USE DEF SInv, ExitLock, surfVars, pqVars, pqtVars, localVars, env
<1>1. BaseInv' /\ Moves(Queue, "exit_idle", arg[Queue])  BY BaseExitLock
<1>2. Quiet(Queue, "exit_idle", arg[Queue])
  BY Distinctness DEF Quiet, Shows, Before, DisplaySteps, BlockSteps
<1>3. TimeInv'  BY <1>1, TimeFrame, Distinctness DEF Shows
<1>4. EndInv'  BY <1>1, EndFrame, Distinctness DEF DisplaySteps
<1>5. ExitInv'
  <2>1. todo = <<>>  BY Distinctness DEF BaseInv, StepInv, Shows
  <2>2. Listed' = {}  BY <2>1, ListedIs, EmptyElems
  <2>3. pc'[Queue] = "exit_idle" /\ \A t \in Threads : pc'[t] = "close" => pc[t] = "close"
    BY <1>1, Distinctness DEF Moves
  <2> QED  BY <2>2, <2>3 DEF ExitInv, Gone
<1> HIDE DEF SInv
<1> QED  BY <1>1, <1>2, <1>3, <1>4, <1>5, QuietInv, Distinctness

LEMMA SurfBlockRetry ==
  ASSUME BaseInv, SInv, NEW t \in Threads, BlockRetry(t)
  PROVE  SInv'
<1> USE DEF SInv, BlockRetry, surfVars, pqVars, pqtVars, localVars, env
<1>1. BaseInv' /\ Moves(t, "block", arg[t])  BY BaseBlockRetry
<1>2. Quiet(t, "block", arg[t])
  BY Distinctness DEF Quiet, Shows, Before, DisplaySteps, BlockSteps
<1>3. TimeInv'  BY <1>1, TimeFrame, Distinctness DEF Shows
<1>4. EndInv'  BY <1>1, EndFrame, Distinctness DEF DisplaySteps
<1>5. ExitInv'
  <2>1. Listed' = Listed  BY ListedIs
  <2> QED  BY <1>1, <2>1, ExitFrame, Distinctness DEF Gone
<1> HIDE DEF SInv
<1> QED  BY <1>1, <1>2, <1>3, <1>4, <1>5, QuietInv, Distinctness

LEMMA SurfBlockWait ==
  ASSUME BaseInv, SInv, NEW t \in Threads, BlockWait(t)
  PROVE  SInv'
<1> USE DEF SInv, BlockWait, surfVars, pqVars, pqtVars, localVars, env
<1>1. BaseInv' /\ Moves(t, "blocked", arg[t])  BY BaseBlockWait
<1>2. Quiet(t, "blocked", arg[t])
  BY Distinctness DEF Quiet, Shows, Before, DisplaySteps, BlockSteps
<1>3. TimeInv'  BY <1>1, TimeFrame, Distinctness DEF Shows
<1>4. EndInv'  BY <1>1, EndFrame, Distinctness DEF DisplaySteps
<1>5. ExitInv'
  <2>1. Listed' = Listed  BY ListedIs
  <2> QED  BY <1>1, <2>1, ExitFrame, Distinctness DEF Gone
<1> HIDE DEF SInv
<1> QED  BY <1>1, <1>2, <1>3, <1>4, <1>5, QuietInv, Distinctness

LEMMA SurfJoin ==
  ASSUME BaseInv, SInv, NEW t \in Threads, Join(t)
  PROVE  SInv'
<1> USE DEF SInv, Join, surfVars, pqVars, pqtVars, localVars, env
<1>1. BaseInv' /\ Moves(t, "idle", arg[t])  BY BaseJoin
<1>2. Quiet(t, "idle", arg[t])
  BY Distinctness DEF Quiet, Shows, Before, DisplaySteps, BlockSteps
<1>3. TimeInv'  BY <1>1, TimeFrame, Distinctness DEF Shows
<1>4. EndInv'  BY <1>1, EndFrame, Distinctness DEF DisplaySteps
<1>5. ExitInv'
  <2>1. Listed' = Listed  BY ListedIs
  <2> QED  BY <1>1, <2>1, ExitFrame, Distinctness DEF Gone
<1> HIDE DEF SInv
<1> QED  BY <1>1, <1>2, <1>3, <1>4, <1>5, QuietInv, Distinctness

LEMMA SurfOverlapEvent ==
  ASSUME BaseInv, SInv, OverlapEvent
  PROVE  SInv'
<1> USE DEF SInv, OverlapEvent, surfVars, pqVars, pqtVars, localVars, env
<1>1. BaseInv' /\ Moves(Overlap, (IF disp = None THEN "idle" ELSE "showing"), disp)  BY BaseOverlapEvent
<1>2. Quiet(Overlap, (IF disp = None THEN "idle" ELSE "showing"), disp)
  BY Distinctness DEF Quiet, Shows, Before, DisplaySteps, BlockSteps
<1>3. TimeInv'  BY <1>1, TimeFrame, Distinctness DEF Shows
<1>4. EndInv'  BY <1>1, EndFrame, Distinctness DEF DisplaySteps
<1>5. ExitInv'
  <2>1. Listed' = Listed  BY ListedIs
  <2> QED  BY <1>1, <2>1, ExitFrame, Distinctness DEF Gone
<1> HIDE DEF SInv
<1> QED  BY <1>1, <1>2, <1>3, <1>4, <1>5, QuietInv, Distinctness

LEMMA SurfRefuse ==
  ASSUME BaseInv, SInv, NEW t \in Threads, Refuse(t)
  PROVE  SInv'
<1>1. BaseInv' /\ Moves(t, Left, None)  BY BaseRefuse
<1>2. pc[t] = "lock_surf" /\ arg[t] \in Surfaces
  BY Distinctness DEF Refuse, BaseInv, TypeOK, StepInv, Fits, InCall, DisplaySteps
<1> QED
  BY <1>1, <1>2, ReturnInv DEF Refuse, DisplayReturn, pqtVars, localVars, env

LEMMA SurfBlockRefuse ==
  ASSUME BaseInv, SInv, NEW t \in Threads, BlockRefuse(t)
  PROVE  SInv'
<1>1. BaseInv' /\ Moves(t, Left, None)  BY BaseBlockRefuse
<1>2. pc[t] = "try" /\ arg[t] \in Surfaces
  BY Distinctness DEF BlockRefuse, BaseInv, TypeOK, StepInv, Fits, InCall, BlockSteps
<1> QED
  BY <1>1, <1>2, ReturnInv DEF BlockRefuse, BlockReturn, pqtVars, localVars, env

LEMMA SurfUnblock ==
  ASSUME BaseInv, SInv, NEW t \in Threads, Unblock(t)
  PROVE  SInv'
<1>1. BaseInv' /\ Moves(t, Left, None)  BY BaseUnblock
<1>2. pc[t] = "unblocked" /\ arg[t] \in Surfaces
  BY Distinctness DEF Unblock, BaseInv, TypeOK, StepInv, Fits, InCall, BlockSteps
<1> QED
  BY <1>1, <1>2, ReturnInv DEF Unblock, BlockReturn, pqtVars, localVars, env

LEMMA SurfBlockLock ==
  ASSUME BaseInv, SInv, NEW t \in Threads, BlockLock(t)
  PROVE  SInv'
<1>0. pc[t] = "block" /\ arg[t] \in Surfaces
  BY Distinctness DEF BlockLock, BaseInv, TypeOK, StepInv, Fits, InCall, BlockSteps
<1>1. CASE status[arg[t]] = "idle"
  <2>1. BaseInv' /\ Moves(t, Left, None)  BY <1>1, BaseBlockLock
  <2>2. BlockReturn(t)  BY <1>1 DEF BlockLock
  <2> QED  BY <1>0, <2>1, <2>2, ReturnInv DEF BlockReturn, pqtVars, localVars, env
<1>2. CASE status[arg[t]] # "idle"
  <2>1. BaseInv' /\ Moves(t, "try", arg[t])  BY <1>2, BaseBlockLock
  <2>2. UNCHANGED <<handle, refcnt, status, due, pqVars, pqtVars, arg, want, localVars, env>>
    BY <1>2 DEF BlockLock
  <2> USE Distinctness DEF pqVars, pqtVars, localVars, env
  <2>3. ListInv'  BY <2>2, ListFrame DEF SInv
  <2>4. Listed' = Listed  BY <2>2, ListedIs
  <2>5. StatusInv'  BY <2>1, <2>2, <2>4, StatusFrame DEF SInv, Shows
  <2>6. UsersInv'  BY <2>1, <2>2, UsersFrame DEF SInv, BlockSteps
  <2>7. VisibleInv'  BY <1>0, <2>1, <2>2, VisibleFrame DEF SInv, Before
  <2>8. RefInv'  BY <1>0, <2>1, <2>2, <2>4, RefFrame DEF SInv, Shows
  <2>9. EndInv'  BY <2>1, <2>2, EndFrame DEF SInv, DisplaySteps
  <2>10. ExitInv'  BY <2>1, <2>2, <2>4, ExitFrame DEF SInv
  <2>11. WaiterInv'
    <3>1. \A u \in Threads : u # t => /\ arg'[u] = arg[u]
                                      /\ pc'[u] \in {"try", "blocked"} => pc[u] = pc'[u]
      BY <2>1 DEF Moves
    <3> QED  BY <1>2, <2>2, <3>1 DEF SInv, WaiterInv
  <2>12. TimeInv'  BY <2>1, <2>2, TimeFrame DEF SInv
  <2> QED
    BY <2>3, <2>5, <2>6, <2>7, <2>8, <2>9, <2>10, <2>11, <2>12 DEF SInv
<1> QED  BY <1>1, <1>2

\* A call takes its reference.
LEMMA EnterInv ==
  ASSUME BaseInv, BaseInv', SInv, NEW t \in Threads, NEW s \in Surfaces,
         NEW x \in {"display", "block"}, Moves(t, x, s), pc[t] = "idle", pqHandle,
         refcnt' = [refcnt EXCEPT ![s] = @ + 1],
         \/ Using(s) = {}
         \/ /\ "two_waiters" \in admits /\ x = "block"
            /\ \A u \in Using(s) : pc[u] \in BlockSteps,
         Follows /\ x = "display" => status[s] = "idle",
         UNCHANGED <<handle, status, due, list, todo, time, disp, pqHandle, exit, now, admits>>
  PROVE  SInv'
<1> USE Distinctness
<1>0. Listed' = Listed  BY ListedIs
<1>a. arg[t] = None  BY DEF BaseInv, StepInv, Fits, InCall, DisplaySteps, BlockSteps
<1>1. ListInv'
  <2>1. arg'[Queue] = arg[Queue]  BY DEF Moves
  <2> QED  BY <2>1, ListFrame DEF SInv
<1>2. StatusInv'  BY <1>0, StatusFrame DEF SInv, Shows
<1>3. UsersInv'
  <2>1. \A u \in Threads : u # t =>
           /\ arg'[u] = arg[u]
           /\ pc[u] \in BlockSteps => pc'[u] \in BlockSteps
    BY DEF Moves, BlockSteps
  <2>2. arg'[t] = s /\ pc'[t] = x  BY DEF Moves
  <2>3. \A u \in Threads : u # t /\ arg[u] = s =>
           "two_waiters" \in admits /\ x = "block" /\ pc[u] \in BlockSteps
    BY DEF Using
  <2> QED  BY <2>1, <2>2, <2>3 DEF SInv, UsersInv, BlockSteps
<1>4. VisibleInv'
  <2>1. \A q \in Procs : /\ pc'[q] = "replacing" <=> pc[q] = "replacing"
                         /\ pc'[q] = "replacing" => arg'[q] = arg[q]
    BY DEF Moves
  <2>2. \A r : Replacing(r)' <=> Replacing(r)  BY <2>1 DEF Replacing
  <2>3. \A u \in Threads : u # t /\ pc'[u] \in Before => pc[u] \in Before /\ arg'[u] = arg[u]
    BY DEF Moves, Before
  <2>4. arg'[t] = s /\ pc'[t] = x  BY DEF Moves
  <2>5. \A u \in Threads : Follows /\ pc'[u] \in Before => status[arg'[u]] = "idle"
    BY <2>3, <2>4 DEF SInv, VisibleInv, Before
  <2> QED  BY <2>1, <2>2, <2>5 DEF SInv, VisibleInv, Follows
<1>5. RefInv'
  <2>1. arg'[Queue] = arg[Queue] /\ (pc'[Queue] = "done" <=> pc[Queue] = "done")
    BY DEF Moves
  <2>2. ASSUME NEW r \in Surfaces PROVE Growth(t, x, s, r) = Bit(r = s)
    <3>1. \A b, c \in BOOLEAN : (b <=> c) => Bit(b) = Bit(c)  BY DEF Bit
    <3>2. Bit(Kept(r)') = Bit(Kept(r))
      <4>1. Kept(r)' <=> Kept(r)  BY <2>1 DEF Kept, Follows
      <4>2. Kept(r) \in BOOLEAN /\ Kept(r)' \in BOOLEAN  BY DEF Kept
      <4> QED  BY <3>1, <4>1, <4>2
    <3>4. ThreadRefs(t, x, s, r) = Bit(r = s)  BY DEF ThreadRefs, Bit, Shows
    <3>5. ThreadRefs(t, pc[t], arg[t], r) = 0  BY <1>a DEF ThreadRefs, Bit
    <3>6. /\ Bit(handle[r]) \in 0 .. 1 /\ Bit(r \in Listed) \in 0 .. 1
          /\ Bit(arg[Queue] = r) \in 0 .. 1 /\ Bit(Kept(r)) \in 0 .. 1
          /\ Bit(r = s) \in 0 .. 1
      BY DEF Bit
    <3> QED  BY <1>0, <2>1, <3>2, <3>4, <3>5, <3>6 DEF Growth
  <2>3. \A r \in Surfaces : /\ refcnt[r] \in Int
                            /\ refcnt'[r] = refcnt[r] + Bit(r = s)
                            /\ Bit(r = s) \in 0 .. 1
    <3>1. refcnt \in [Surfaces -> Int]  BY DEF BaseInv, TypeOK
    <3>2. \A r \in Surfaces : refcnt'[r] = IF r = s THEN refcnt[r] + 1 ELSE refcnt[r]
      BY <3>1
    <3> QED  BY <3>1, <3>2 DEF Bit
  <2> HIDE DEF Growth
  <2>4. \A r \in Surfaces : refcnt'[r] = refcnt[r] + Growth(t, x, s, r) /\ refcnt'[r] \in Int
    BY <2>2, <2>3
  <2> QED  BY <2>4, RefStep DEF SInv
<1>6. EndInv'  BY DEF SInv, EndInv
<1>7. ExitInv'  BY <1>0, ExitFrame DEF SInv
<1>8. WaiterInv'  BY WaiterFrame DEF SInv
<1>9. TimeInv'  BY TimeFrame DEF SInv
<1> QED  BY <1>1, <1>2, <1>3, <1>4, <1>5, <1>6, <1>7, <1>8, <1>9 DEF SInv

LEMMA SurfDisplay ==
  ASSUME BaseInv, SInv, NEW t \in Threads, NEW s \in Surfaces, NEW at \in 0 .. MaxTime,
         Display(t, s, at)
  PROVE  SInv'
<1>1. BaseInv' /\ Moves(t, "display", s)  BY BaseDisplay
<1> QED
  BY <1>1, EnterInv DEF Display, MayDisplay, Follows, pqtVars, localVars, env

LEMMA SurfBlock ==
  ASSUME BaseInv, SInv, NEW t \in Threads, NEW s \in Surfaces, Block(t, s)
  PROVE  SInv'
<1>1. BaseInv' /\ Moves(t, "block", s)  BY BaseBlock
<1> QED
  BY <1>1, EnterInv DEF Block, MayBlock, Follows, pqtVars, localVars, env

-----------------------------------------------------------------------------
(* Helpers of the steps that move references and change statuses.          *)

LEMMA BitSame == \A b, c \in BOOLEAN : (b <=> c) => Bit(b) = Bit(c)
  BY DEF Bit

LEMMA KeptSame ==
  ASSUME NEW p \in Procs, NEW x, NEW a, Moves(p, x, a), UNCHANGED <<disp, admits>>,
         p = Queue => (x = "done" <=> pc[p] = "done"), NEW s
  PROVE  Bit(Kept(s)') = Bit(Kept(s))
<1>1. pc'[Queue] = "done" <=> pc[Queue] = "done"  BY Distinctness DEF Moves
<1>2. Kept(s)' <=> Kept(s)  BY <1>1 DEF Kept, Follows
<1>3. Kept(s) \in BOOLEAN /\ Kept(s)' \in BOOLEAN  BY DEF Kept
<1> QED  BY <1>2, <1>3, BitSame

LEMMA LockOwner ==
  ASSUME BaseInv, NEW p \in Procs, NEW q \in Procs, p # q
  PROVE  /\ pc[p] \in PqSteps(p) => pc[q] \notin PqSteps(q)
         /\ pc[p] \in PqtSteps => pc[q] \notin PqtSteps
  BY DEF BaseInv, LockInv

LEMMA ArgType ==
  ASSUME BaseInv
  PROVE  /\ \A t \in Threads : pc[t] \in InCall => arg[t] \in Surfaces
         /\ \A p \in Procs : arg[p] # None => arg[p] \in Surfaces
  BY Distinctness DEF BaseInv, TypeOK, StepInv, Fits

\* The queue's thread has nothing in hand unless it holds pq->lock.
LEMMA QueueIdle ==
  ASSUME BaseInv, pc[Queue] \notin Shows \cup {"scan"}
  PROVE  arg[Queue] = None /\ todo = <<>>
  BY Distinctness DEF BaseInv, StepInv, Fits

\* A thread on its way in display means that the queue still works.
LEMMA QueueLives ==
  ASSUME BaseInv, SInv, NEW t \in Threads, pc[t] \in DisplaySteps, "late_display" \notin admits
  PROVE  pc[Queue] \notin Gone
  BY DEF SInv, EndInv, ExitInv, Displaying

LEMMA SurfEnqueue ==
  ASSUME BaseInv, SInv, NEW t \in Threads, Enqueue(t)
  PROVE  SInv'
<1> USE Distinctness
<1>1. BaseInv' /\ Moves(t, Left, None)  BY BaseEnqueue
<1> DEFINE s == arg[t]
<1>2. /\ pc[t] = "lock_surf" /\ status[s] # "queued"
      /\ status' = [status EXCEPT ![s] = "queued"]
      /\ due' = [due EXCEPT ![s] = want[t]]
      /\ list' = Append(list, s)
      /\ UNCHANGED <<handle, refcnt, todo, time, disp, pqHandle, exit, now, admits>>
  BY DEF Enqueue, DisplayReturn, pqtVars, localVars, env
<1>3. s \in Surfaces  BY <1>2, ArgType DEF InCall, DisplaySteps
<1> HIDE DEF s
<1>l. Left \in {"join", "idle"}  BY DEF Left
<1> HIDE DEF Left
<1>4. \A q \in Procs : q # t => pc[q] \notin PqSteps(q)
  BY <1>2, LockOwner DEF PqSteps
<1>5. arg[Queue] = None /\ todo = <<>> /\ pc[Queue] \notin Shows
  BY <1>4, QueueIdle DEF PqSteps
<1>6. arg'[Queue] = None /\ (pc'[Queue] = pc[Queue] \/ pc'[Queue] = "woken")
  BY <1>1, <1>5 DEF Moves
<1>7. \A u \in Threads : pc[u] \notin Shows /\ pc'[u] \notin Shows
  BY <1>1, <1>2, <1>4, <1>l DEF Moves, PqSteps, Shows
<1>8. status \in [Surfaces -> {"idle", "queued", "visible"}] /\ list \in Seq(Surfaces)
  BY DEF BaseInv, TypeOK
<1>9. s \notin Listed  BY <1>2, <1>3 DEF SInv, StatusInv
<1>10. Listed' = Listed \cup {s}  BY <1>2, <1>3, <1>8, ListedIs, AppendElems
<1>11. ListInv'
  <2>1. Distinct(list') /\ Elems(list') = Elems(list) \cup {s}
    BY <1>2, <1>3, <1>8, <1>9, AppendElems, ListedIs DEF SInv, ListInv
  <2>2. Elems(todo') = {} /\ Distinct(todo')  BY <1>2, <1>5, EmptyElems
  <2>3. None \notin Listed'  BY <1>3, <1>10, ListedType
  <2> QED  BY <1>6, <2>1, <2>2, <2>3 DEF ListInv
<1>12. StatusInv'
  <2>1. \A r \in Surfaces : status'[r] = "queued" <=> r \in Listed'
    BY <1>2, <1>3, <1>5, <1>8, <1>10 DEF SInv, StatusInv
  <2>2. \A q \in Procs \ {Overlap} : pc'[q] # "replacing"
    BY <1>5, <1>6, <1>7 DEF Procs, Shows
  <2>3. \A r \in Surfaces : arg'[Queue] # r  BY <1>6
  <2> QED  BY <1>7, <2>1, <2>2, <2>3 DEF StatusInv
<1>13. UsersInv'  BY <1>1, <1>2, UsersFrame DEF SInv
<1>14. VisibleInv'
  <2> SUFFICES ASSUME Follows PROVE VisibleInv'  BY <1>2 DEF VisibleInv, Follows
  <2>1. status[s] = "idle"  BY <1>2 DEF s, SInv, VisibleInv, Before
  <2>2. \A r \in Surfaces : status'[r] = "visible" <=> status[r] = "visible"
    BY <1>2, <1>3, <1>8, <2>1
  <2>3. \A q \in Procs : /\ pc'[q] = "replacing" <=> pc[q] = "replacing"
                         /\ pc'[q] = "replacing" => arg'[q] = arg[q]
    BY <1>1, <1>2, <1>l DEF Moves
  <2>4. \A r : Replacing(r)' <=> Replacing(r)  BY <2>3 DEF Replacing
  <2>5. \A u \in Threads : pc'[u] \in Before =>
           pc[u] \in Before /\ arg'[u] = arg[u] /\ arg[u] \in Surfaces /\ arg[u] # s
    <3> SUFFICES ASSUME NEW u \in Threads, pc'[u] \in Before
                 PROVE  pc[u] \in Before /\ arg'[u] = arg[u] /\ arg[u] \in Surfaces /\ arg[u] # s
      OBVIOUS
    <3>1. u # t  BY <1>1, <1>l DEF Moves, Before
    <3>2. pc[u] = pc'[u] /\ arg'[u] = arg[u]  BY <1>1, <3>1 DEF Moves, Before
    <3>3. arg[u] \in Surfaces  BY <3>2, ArgType DEF Before, InCall, DisplaySteps
    <3>4. arg[u] # arg[t]  BY <1>2, <3>1, <3>3 DEF SInv, UsersInv, BlockSteps
    <3> QED  BY <3>2, <3>3, <3>4 DEF s
  <2>6. \A u \in Threads : pc'[u] \in Before => status'[arg'[u]] = "idle"
    BY <1>2, <1>8, <2>5 DEF SInv, VisibleInv
  <2> QED  BY <1>2, <2>2, <2>3, <2>4, <2>6 DEF SInv, VisibleInv, Follows
<1>15. RefInv'
  <2>1. ASSUME NEW r \in Surfaces PROVE Growth(t, Left, None, r) = 0
    <3>1. Bit(Kept(r)') = Bit(Kept(r))  BY <1>1, <1>2, KeptSame
    <3>2. ThreadRefs(t, Left, None, r) = 0  BY DEF ThreadRefs, Bit
    <3>3. ThreadRefs(t, pc[t], arg[t], r) = Bit(r = s)
      BY <1>2 DEF ThreadRefs, Bit, Shows, s
    <3>4. Bit(r \in Listed') - Bit(r \in Listed) = Bit(r = s)
      BY <1>9, <1>10 DEF Bit
    <3>5. /\ Bit(handle[r]) \in 0 .. 1 /\ Bit(Kept(r)) \in 0 .. 1 /\ Bit(r = s) \in 0 .. 1
          /\ Bit(r \in Listed) \in 0 .. 1 /\ Bit(r \in Listed') \in 0 .. 1
          /\ Bit(arg[Queue] = r) \in 0 .. 1
      BY DEF Bit
    <3> QED  BY <1>2, <1>5, <1>6, <3>1, <3>2, <3>3, <3>4, <3>5 DEF Growth
  <2>2. \A r \in Surfaces : refcnt[r] \in Int  BY DEF BaseInv, TypeOK
  <2> HIDE DEF Growth
  <2> QED  BY <1>1, <1>2, <2>1, <2>2, RefStep DEF SInv
<1>16. EndInv'  BY <1>1, <1>2, <1>l, EndFrame DEF SInv, DisplaySteps
<1>17. ExitInv'
  <2>1. "late_display" \notin admits => pc[Queue] \notin Gone
    BY <1>2, QueueLives DEF DisplaySteps
  <2>2. \A u \in Threads : pc'[u] = "close" => pc[u] = "close"
    BY <1>1, <1>l DEF Moves
  <2> QED  BY <1>2, <1>6, <2>1, <2>2 DEF SInv, ExitInv, Gone
<1>18. WaiterInv'
  <2>1. \A r \in Surfaces : status'[r] = "idle" => status[r] = "idle"
    BY <1>2, <1>3, <1>8
  <2> QED  BY <1>1, <1>2, <1>l, <2>1, WaiterFrame DEF SInv
<1>19. TimeInv'
  <2>1. \A r \in Surfaces : arg'[Queue] # r  BY <1>6
  <2>2. pc'[Queue] \in Shows \cup {"scan", "timed_out"} => pc[Queue] = pc'[Queue]
    BY <1>6 DEF Shows
  <2> QED  BY <1>2, <2>1, <2>2 DEF SInv, TimeInv
<1> QED
  BY <1>11, <1>12, <1>13, <1>14, <1>15, <1>16, <1>17, <1>18, <1>19 DEF SInv

LEMMA SurfShowNow ==
  ASSUME BaseInv, SInv, NEW t \in Threads, ShowNow(t)
  PROVE  SInv'
<1> USE Distinctness DEF pqVars, pqtVars, localVars, env
<1>1. BaseInv' /\ Moves(t, "show", arg[t])  BY BaseShowNow
<1>2. /\ pc[t] = "lock_surf" /\ status[arg[t]] # "queued"
      /\ refcnt' = [refcnt EXCEPT ![arg[t]] = @ + 1]
      /\ UNCHANGED <<handle, status, due, pqVars, pqtVars, arg, want, localVars, env>>
  BY DEF ShowNow
<1>3. arg[t] \in Surfaces  BY <1>2, ArgType DEF InCall, DisplaySteps
<1>4. Listed' = Listed  BY <1>2, ListedIs
<1>5. ListInv'  BY <1>2, ListFrame DEF SInv
<1>6. StatusInv'
  <2>2. \A u \in Threads : pc'[u] \in Shows => u = t \/ pc[u] = pc'[u]
    BY <1>1 DEF Moves, Shows
  <2>3. \A q \in Procs : pc'[q] = "replacing" => pc[q] = "replacing"
    BY <1>1 DEF Moves
  <2>4. pc'[Queue] = "replacing" <=> pc[Queue] = "replacing"  BY <1>1 DEF Moves
  <2> QED  BY <1>2, <1>4, <2>2, <2>3, <2>4 DEF SInv, StatusInv
<1>7. UsersInv'  BY <1>1, <1>2, UsersFrame DEF SInv, BlockSteps
<1>8. VisibleInv'  BY <1>1, <1>2, VisibleFrame DEF SInv, Before
<1>9. RefInv'
  <2>1. ASSUME NEW r \in Surfaces PROVE Growth(t, "show", arg[t], r) = Bit(r = arg[t])
    <3>1. Bit(Kept(r)') = Bit(Kept(r))  BY <1>1, <1>2, KeptSame
    <3>2. ThreadRefs(t, "show", arg[t], r) = Bit(r = arg[t]) + Bit(r = arg[t])
      BY DEF ThreadRefs, Bit, Shows
    <3>3. ThreadRefs(t, pc[t], arg[t], r) = Bit(r = arg[t])
      BY <1>2 DEF ThreadRefs, Bit, Shows
    <3>5. /\ Bit(handle[r]) \in 0 .. 1 /\ Bit(Kept(r)) \in 0 .. 1 /\ Bit(r = arg[t]) \in 0 .. 1
          /\ Bit(r \in Listed) \in 0 .. 1 /\ Bit(arg[Queue] = r) \in 0 .. 1
      BY DEF Bit
    <3> QED  BY <1>2, <1>4, <3>1, <3>2, <3>3, <3>5 DEF Growth
  <2>2. \A r \in Surfaces : /\ refcnt[r] \in Int /\ Bit(r = arg[t]) \in 0 .. 1
                            /\ refcnt'[r] = refcnt[r] + Bit(r = arg[t])
    <3>1. refcnt \in [Surfaces -> Int]  BY DEF BaseInv, TypeOK
    <3>2. \A r \in Surfaces : refcnt'[r] = IF r = arg[t] THEN refcnt[r] + 1 ELSE refcnt[r]
      BY <1>2, <3>1
    <3> QED  BY <3>1, <3>2 DEF Bit
  <2> HIDE DEF Growth
  <2>3. \A r \in Surfaces : /\ refcnt'[r] = refcnt[r] + Growth(t, "show", arg[t], r)
                            /\ refcnt'[r] \in Int
    BY <2>1, <2>2
  <2> QED  BY <1>1, <1>2, <2>3, RefStep DEF SInv
<1>10. EndInv'  BY <1>1, <1>2, EndFrame DEF SInv, DisplaySteps
<1>11. ExitInv'  BY <1>1, <1>2, <1>4, ExitFrame DEF SInv
<1>12. WaiterInv'  BY <1>1, <1>2, WaiterFrame DEF SInv
<1>13. TimeInv'  BY <1>1, <1>2, TimeFrame DEF SInv
<1> QED
  BY <1>5, <1>6, <1>7, <1>8, <1>9, <1>10, <1>11, <1>12, <1>13 DEF SInv

LEMMA SurfDestroyQueue ==
  ASSUME BaseInv, SInv, NEW t \in Threads, DestroyQueue(t)
  PROVE  SInv'
<1> USE Distinctness DEF DestroyQueue, surfVars, pqVars, pqtVars, localVars, env
<1>1. BaseInv' /\ Moves(t, "close", arg[t])  BY BaseDestroyQueue
<1>2. Quiet(t, "close", arg[t])
  BY DEF Quiet, Shows, Before, BlockSteps
<1>3. TimeInv'  BY <1>1, TimeFrame DEF SInv
<1>4. EndInv'
  <2>1. Displaying' \subseteq Displaying  BY <1>1 DEF Moves, Displaying, DisplaySteps
  <2> QED  BY <2>1 DEF SInv, EndInv
<1>5. ExitInv'
  <2>1. Listed' = Listed  BY ListedIs
  <2>2. pc'[Queue] = pc[Queue] \/ pc'[Queue] = "woken"  BY <1>1 DEF Moves
  <2> QED  BY <2>1, <2>2 DEF SInv, ExitInv, Follows, Gone
<1> QED  BY <1>1, <1>2, <1>3, <1>4, <1>5, QuietInv

LEMMA SurfClose ==
  ASSUME BaseInv, SInv, NEW t \in Threads, Close(t)
  PROVE  SInv'
<1> USE Distinctness DEF Close, surfVars, pqVars, pqtVars, localVars, env
<1>1. BaseInv' /\ Moves(t, Left, arg[t])  BY BaseClose
<1>l. Left \in {"join", "idle"}  BY DEF Left
<1> HIDE DEF Left
<1>2. Quiet(t, Left, arg[t])
  BY <1>l DEF Quiet, Shows, Before, DisplaySteps, BlockSteps
<1>3. TimeInv'  BY <1>1, TimeFrame DEF SInv
<1>4. EndInv'  BY <1>1, <1>l, EndFrame DEF SInv, DisplaySteps
<1>5. ExitInv'
  <2>1. Listed' = Listed  BY ListedIs
  <2>2. pc'[Queue] = pc[Queue] \/ pc'[Queue] = "woken"  BY <1>1 DEF Moves
  <2>3. \A u \in Threads : pc'[u] = "close" => pc[u] = "close"  BY <1>1 DEF Moves
  <2> QED  BY <2>1, <2>2, <2>3 DEF SInv, ExitInv, Follows, Gone
<1> QED  BY <1>1, <1>2, <1>3, <1>4, <1>5, QuietInv

LEMMA SurfTick ==
  ASSUME BaseInv, SInv, Tick
  PROVE  SInv'
<1> USE Distinctness DEF Tick, surfVars, pqVars, pqtVars, callVars, localVars, env
<1>1. BaseInv' /\ Moves(Queue, pc[Queue], arg[Queue])  BY BaseTick
<1>2. Quiet(Queue, pc[Queue], arg[Queue])  BY DEF Quiet
<1>3. TimeInv'
  <2>1. time \in Int /\ now \in Int  BY PresentationAssumption DEF BaseInv, TypeOK, Times, Never
  <2> QED  BY <2>1 DEF SInv, TimeInv
<1>4. EndInv'  BY <1>1, EndFrame DEF SInv
<1>5. ExitInv'
  <2>1. Listed' = Listed  BY ListedIs
  <2> QED  BY <1>1, <2>1, ExitFrame DEF SInv, Gone
<1> QED  BY <1>1, <1>2, <1>3, <1>4, <1>5, QuietInv

LEMMA SurfCreateQueue ==
  ASSUME BaseInv, SInv, Tame, NEW t \in Threads, CreateQueue(t)
  PROVE  SInv'
<1> USE Distinctness DEF surfVars, pqtVars
<1> DEFINE x == IF "late_start" \in admits THEN "start" ELSE "wait"
<1>1. BaseInv' /\ Moves(Queue, x, arg[Queue])  BY BaseCreateQueue
<1>2. /\ pc[Queue] = "done" /\ pqHandle' = TRUE /\ pqRefs = 0 /\ exit' = FALSE
      /\ list' = <<>> /\ Follows /\ "late_display" \notin admits
      /\ UNCHANGED <<surfVars, pqtVars, todo, now, admits>>
  BY DEF CreateQueue, Tame, Sane, Both, Follows, env
<1>x. x \in {"start", "wait"}  OBVIOUS
<1> HIDE DEF x
<1>3. arg[Queue] = None /\ todo = <<>>  BY <1>2, QueueIdle DEF Shows
<1>4. arg'[Queue] = None /\ pc'[Queue] = x  BY <1>1, <1>3 DEF Moves
<1>5. Listed = {}  BY <1>2 DEF SInv, ExitInv
<1>6. Listed' = {}  BY <1>2, <1>3, ListedIs, EmptyElems
<1>7. \A u \in Threads : pc[u] # "close"
  <2>1. Cardinality(Closers) = 0 /\ IsFiniteSet(Closers)
    <3>1. IsFiniteSet(Closers) /\ IsFiniteSet(Callers)
      BY PresentationAssumption, FS_Subset DEF Closers, Callers
    <3>2. Cardinality(Closers) \in Nat /\ Cardinality(Callers) \in Nat  BY <3>1, FS_CardinalityType
    <3>3. Bit(pqHandle) \in 0 .. 1  BY DEF Bit
    <3>4. 0 = Bit(pqHandle) + Cardinality(Callers) + Cardinality(Closers)
      BY <1>2 DEF BaseInv, QueueRefsInv
    <3> QED  BY <3>1, <3>2, <3>3, <3>4
  <2>2. Closers = {}  BY <2>1, FS_EmptySet
  <2> QED  BY <2>2 DEF Closers
<1>8. ListInv'  BY <1>2, <1>3, <1>4, <1>6, EmptyElems DEF ListInv
<1>9. StatusInv'  BY <1>1, <1>2, <1>3, <1>5, <1>6, <1>x, StatusFrame DEF SInv
<1>10. UsersInv'  BY <1>1, <1>2, UsersFrame DEF SInv
<1>11. VisibleInv'  BY <1>1, <1>2, <1>x, VisibleFrame DEF SInv
<1>12. RefInv'
  <2>1. ASSUME NEW r \in Surfaces PROVE Growth(Queue, x, arg[Queue], r) = 0
    <3>1. Kept(r)' <=> Kept(r)  BY <1>2 DEF Kept, Follows
    <3>2. Kept(r) \in BOOLEAN /\ Kept(r)' \in BOOLEAN  BY DEF Kept
    <3>3. Bit(Kept(r)') = Bit(Kept(r))  BY <3>1, <3>2, BitSame
    <3>4. /\ ThreadRefs(Queue, x, arg[Queue], r) = 0
          /\ ThreadRefs(Queue, pc[Queue], arg[Queue], r) = 0
      BY DEF ThreadRefs, Bit
    <3>5. /\ Bit(handle[r]) \in 0 .. 1 /\ Bit(Kept(r)) \in 0 .. 1
          /\ Bit(r \in Listed) \in 0 .. 1 /\ Bit(arg[Queue] = r) \in 0 .. 1
      BY DEF Bit
    <3> QED  BY <1>2, <1>3, <1>4, <1>5, <1>6, <3>3, <3>4, <3>5 DEF Growth
  <2>2. \A r \in Surfaces : refcnt[r] \in Int  BY DEF BaseInv, TypeOK
  <2> HIDE DEF Growth
  <2> QED  BY <1>1, <1>2, <2>1, <2>2, RefStep DEF SInv
<1>13. EndInv'  BY <1>2 DEF EndInv
<1>14. ExitInv'
  <2>1. \A u \in Threads : pc'[u] # "close"  BY <1>1, <1>7 DEF Moves
  <2> QED  BY <1>2, <1>4, <1>x, <2>1 DEF ExitInv, Gone
<1>15. WaiterInv'  BY <1>1, <1>2, WaiterFrame DEF SInv
<1>16. TimeInv'  BY <1>4, <1>x DEF TimeInv, Shows
<1> QED
  BY <1>8, <1>9, <1>10, <1>11, <1>12, <1>13, <1>14, <1>15, <1>16 DEF SInv

\* Nobody refers to a surface that has no references.
LEMMA DeadSurface ==
  ASSUME BaseInv, SInv, NEW s \in Surfaces, refcnt[s] = 0
  PROVE  /\ handle[s] = FALSE /\ s \notin Listed /\ arg[Queue] # s /\ ~Kept(s)
         /\ \A t \in Threads : arg[t] # s
<1>1. IsFiniteSet(Using(s)) /\ IsFiniteSet(Showers(s))
  BY PresentationAssumption, FS_Subset DEF Using, Showers
<1>2. Cardinality(Using(s)) \in Nat /\ Cardinality(Showers(s)) \in Nat
  BY <1>1, FS_CardinalityType
<1>3. /\ Bit(handle[s]) \in 0 .. 1 /\ Bit(s \in Listed) \in 0 .. 1
      /\ Bit(arg[Queue] = s) \in 0 .. 1 /\ Bit(Kept(s)) \in 0 .. 1
  BY DEF Bit
<1>4. 0 >= Bit(handle[s]) + Bit(s \in Listed) + Bit(arg[Queue] = s) + Bit(Kept(s))
           + Cardinality(Showers(s)) + Cardinality(Using(s))
  BY DEF SInv, RefInv, Count
<1>5. /\ Bit(handle[s]) = 0 /\ Bit(s \in Listed) = 0 /\ Bit(arg[Queue] = s) = 0
      /\ Bit(Kept(s)) = 0 /\ Cardinality(Using(s)) = 0
  BY <1>2, <1>3, <1>4
<1>6. handle[s] \in BOOLEAN  BY DEF BaseInv, TypeOK
<1>7. Using(s) = {}  BY <1>1, <1>5, FS_EmptySet
<1> QED  BY <1>5, <1>6, <1>7 DEF Bit, Using

LEMMA SurfCreateSurface ==
  ASSUME BaseInv, SInv, NEW t \in Threads, NEW s \in Surfaces, CreateSurface(t, s)
  PROVE  SInv'
<1> USE Distinctness
<1>1. BaseInv' /\ Moves(t, "idle", arg[t])  BY BaseCreateSurface
<1>2. /\ pc[t] = "idle" /\ refcnt[s] = 0
      /\ handle' = [handle EXCEPT ![s] = TRUE] /\ refcnt' = [refcnt EXCEPT ![s] = 1]
      /\ status' = [status EXCEPT ![s] = "idle"] /\ due' = [due EXCEPT ![s] = 0]
      /\ UNCHANGED <<pqVars, pqtVars, callVars, localVars, env>>
  BY DEF CreateSurface
<1> USE DEF pqVars, pqtVars, callVars, localVars, env
<1>3. /\ handle[s] = FALSE /\ s \notin Listed /\ arg[Queue] # s /\ ~Kept(s)
      /\ \A u \in Threads : arg[u] # s
  BY <1>2, DeadSurface
<1>4. /\ status \in [Surfaces -> {"idle", "queued", "visible"}]
      /\ handle \in [Surfaces -> BOOLEAN] /\ refcnt \in [Surfaces -> Int]
      /\ due \in [Surfaces -> 0 .. MaxTime]
  BY DEF BaseInv, TypeOK
<1>5. Listed' = Listed  BY <1>2, ListedIs
<1>6. \A r \in Surfaces : status'[r] = IF r = s THEN "idle" ELSE status[r]
  BY <1>2, <1>4
<1>7. \A q \in Procs : arg[q] # None => arg[q] \in Surfaces  BY ArgType
<1>8. ListInv'  BY <1>2, ListFrame DEF SInv
<1>9. StatusInv'
  <2>1. \A r \in Surfaces : status'[r] = "queued" <=> status[r] = "queued"
    BY <1>3, <1>6 DEF SInv, StatusInv
  <2>2. \A u \in Threads : pc[u] \in Shows => arg[u] \in Surfaces /\ arg[u] # s
    BY <1>3, ArgType DEF Shows, InCall, DisplaySteps
  <2>3. \A q \in Procs \ {Overlap} : pc[q] = "replacing" => arg[q] \in Surfaces /\ arg[q] # s
    <3>1. pc[Queue] = "replacing" => arg[Queue] # None
      BY DEF BaseInv, StepInv, Fits, Shows
    <3> QED  BY <1>3, <1>7, <2>2, <3>1 DEF Procs, Shows
  <2> QED  BY <1>2, <1>5, <1>6, <2>1, <2>2, <2>3 DEF SInv, StatusInv
<1>10. UsersInv'  BY <1>2 DEF SInv, UsersInv
<1>11. VisibleInv'
  <2> SUFFICES ASSUME Follows PROVE VisibleInv'  BY <1>2 DEF VisibleInv, Follows
  <2>1. disp # s  BY <1>3 DEF Kept
  <2>2. ~Replacing(s)
    <3>1. arg[Overlap] # s  BY <2>1 DEF BaseInv, StepInv
    <3> QED  BY <1>3, <3>1 DEF Replacing, Procs
  <2>3. \A r \in Surfaces : Replacing(r)' <=> Replacing(r)  BY <1>2 DEF Replacing
  <2>4. \A u \in Threads : pc[u] \in Before => status'[arg[u]] = "idle"
    <3>1. \A u \in Threads : pc[u] \in Before => arg[u] \in Surfaces
      BY ArgType DEF Before, InCall, DisplaySteps
    <3> QED  BY <1>6, <3>1 DEF SInv, VisibleInv
  <2> QED  BY <1>2, <1>6, <2>1, <2>2, <2>3, <2>4 DEF SInv, VisibleInv, Follows
<1>12. RefInv'
  <2>1. ASSUME NEW r \in Surfaces PROVE Growth(t, "idle", arg[t], r) = Bit(r = s)
    <3>1. Bit(Kept(r)') = Bit(Kept(r))  BY <1>1, <1>2, KeptSame
    <3>2. ThreadRefs(t, "idle", arg[t], r) = ThreadRefs(t, pc[t], arg[t], r)
      BY <1>2
    <3>3. Bit(handle'[r]) - Bit(handle[r]) = Bit(r = s)  BY <1>2, <1>3, <1>4 DEF Bit
    <3>4. /\ Bit(handle[r]) \in 0 .. 1 /\ Bit(handle'[r]) \in 0 .. 1
          /\ Bit(Kept(r)) \in 0 .. 1 /\ Bit(r = s) \in 0 .. 1
          /\ Bit(r \in Listed) \in 0 .. 1 /\ Bit(arg[Queue] = r) \in 0 .. 1
          /\ ThreadRefs(t, pc[t], arg[t], r) \in Int
      BY DEF Bit, ThreadRefs
    <3>5. arg'[Queue] = arg[Queue] /\ Bit(r \in Listed') = Bit(r \in Listed)
      BY <1>2, <1>5
    <3> QED  BY <3>1, <3>2, <3>3, <3>4, <3>5 DEF Growth
  <2>2. \A r \in Surfaces : /\ refcnt[r] \in Int /\ Bit(r = s) \in 0 .. 1
                            /\ refcnt'[r] = refcnt[r] + Bit(r = s)
    BY <1>2, <1>4 DEF Bit
  <2> HIDE DEF Growth
  <2>3. \A r \in Surfaces : /\ refcnt'[r] = refcnt[r] + Growth(t, "idle", arg[t], r)
                            /\ refcnt'[r] \in Int
    BY <2>1, <2>2
  <2> QED  BY <1>1, <1>2, <2>3, RefStep DEF SInv
<1>13. EndInv'  BY <1>1, <1>2, EndFrame DEF SInv, DisplaySteps
<1>14. ExitInv'  BY <1>1, <1>2, <1>5, ExitFrame DEF SInv
<1>15. WaiterInv'
  <2>1. \A u \in Threads : pc[u] \in {"try", "blocked"} => arg[u] \in Surfaces /\ arg[u] # s
    BY <1>3, ArgType DEF InCall, BlockSteps
  <2> QED  BY <1>2, <1>6, <2>1 DEF SInv, WaiterInv
<1>16. TimeInv'  BY <1>2, <1>3, <1>4 DEF SInv, TimeInv
<1> QED
  BY <1>8, <1>9, <1>10, <1>11, <1>12, <1>13, <1>14, <1>15, <1>16 DEF SInv

LEMMA SurfDestroySurface ==
  ASSUME BaseInv, SInv, NEW t \in Threads, NEW s \in Surfaces, DestroySurface(t, s)
  PROVE  SInv'
<1> USE Distinctness
<1>1. BaseInv' /\ Moves(t, "idle", arg[t])  BY BaseDestroySurface
<1>2. /\ pc[t] = "idle" /\ handle[s]
      /\ handle' = [handle EXCEPT ![s] = FALSE] /\ refcnt' = [refcnt EXCEPT ![s] = @ - 1]
      /\ due' = [due EXCEPT ![s] = 0]
      /\ UNCHANGED <<status, pqVars, pqtVars, callVars, localVars, env>>
  BY DEF DestroySurface
<1> USE DEF pqVars, pqtVars, callVars, localVars, env
<1>4. /\ handle \in [Surfaces -> BOOLEAN] /\ refcnt \in [Surfaces -> Int]
      /\ due \in [Surfaces -> 0 .. MaxTime] /\ time \in Nat
  BY PresentationAssumption, SMTT(60) DEF BaseInv, TypeOK, Times, Never
<1>5. Listed' = Listed  BY <1>2, ListedIs
<1>8. ListInv'  BY <1>2, ListFrame DEF SInv
<1>9. StatusInv'  BY <1>1, <1>2, <1>5, StatusFrame DEF SInv, Shows
<1>10. UsersInv'  BY <1>2 DEF SInv, UsersInv
<1>11. VisibleInv'  BY <1>1, <1>2, VisibleFrame DEF SInv, Before
<1>12. RefInv'
  <2>1. ASSUME NEW r \in Surfaces PROVE Growth(t, "idle", arg[t], r) = 0 - Bit(r = s)
    <3>1. Bit(Kept(r)') = Bit(Kept(r))  BY <1>1, <1>2, KeptSame
    <3>2. ThreadRefs(t, "idle", arg[t], r) = ThreadRefs(t, pc[t], arg[t], r)
      BY <1>2
    <3>3. Bit(handle'[r]) - Bit(handle[r]) = 0 - Bit(r = s)  BY <1>2, <1>4 DEF Bit
    <3>4. /\ Bit(handle[r]) \in 0 .. 1 /\ Bit(handle'[r]) \in 0 .. 1
          /\ Bit(Kept(r)) \in 0 .. 1 /\ Bit(r = s) \in 0 .. 1
          /\ Bit(r \in Listed) \in 0 .. 1 /\ Bit(arg[Queue] = r) \in 0 .. 1
          /\ ThreadRefs(t, pc[t], arg[t], r) \in Int
      BY DEF Bit, ThreadRefs
    <3>5. arg'[Queue] = arg[Queue] /\ Bit(r \in Listed') = Bit(r \in Listed)
      BY <1>2, <1>5
    <3> QED  BY <3>1, <3>2, <3>3, <3>4, <3>5 DEF Growth
  <2>2. \A r \in Surfaces : /\ refcnt[r] \in Int /\ Bit(r = s) \in 0 .. 1
                            /\ refcnt'[r] = refcnt[r] - Bit(r = s)
    BY <1>2, <1>4 DEF Bit
  <2> HIDE DEF Growth
  <2>3. \A r \in Surfaces : /\ refcnt'[r] = refcnt[r] + Growth(t, "idle", arg[t], r)
                            /\ refcnt'[r] \in Int
    BY <2>1, <2>2
  <2> QED  BY <1>1, <1>2, <2>3, RefStep DEF SInv
<1>13. EndInv'  BY <1>1, <1>2, EndFrame DEF SInv, DisplaySteps
<1>14. ExitInv'  BY <1>1, <1>2, <1>5, ExitFrame DEF SInv
<1>15. WaiterInv'  BY <1>1, <1>2, WaiterFrame DEF SInv
<1>16. TimeInv'
  <2>1. \A r \in Surfaces : due'[r] = IF r = s THEN 0 ELSE due[r]  BY <1>2, <1>4
  <2> QED  BY <1>2, <1>4, <2>1 DEF SInv, TimeInv
<1> QED
  BY <1>8, <1>9, <1>10, <1>11, <1>12, <1>13, <1>14, <1>15, <1>16 DEF SInv

LEMMA SurfResume ==
  ASSUME BaseInv, SInv, Resume
  PROVE  SInv'
<1> USE Distinctness DEF surfVars, pqtVars, localVars, env
<1> DEFINE x == IF exit THEN "exit" ELSE "scan"
<1>1. BaseInv' /\ Moves(Queue, x, arg[Queue])  BY BaseResume
<1>2. /\ pc[Queue] \in {"woken", "timed_out"}
      /\ UNCHANGED <<surfVars, pqHandle, pqRefs, exit, pqtVars, arg, want, env>>
  BY DEF Resume
<1>x. x \in {"exit", "scan"} /\ (x = "exit" <=> exit)
  BY DEF BaseInv, TypeOK
<1>3. arg[Queue] = None /\ todo = <<>>  BY <1>2, QueueIdle DEF Shows
<1>4. arg'[Queue] = None /\ pc'[Queue] = x  BY <1>1, <1>3 DEF Moves
<1>5. \/ exit /\ UNCHANGED <<list, todo, time>>
      \/ /\ ~exit /\ todo' = list /\ list' = <<>>
         /\ time' = IF pc[Queue] = "woken" THEN now ELSE time
  BY DEF Resume
<1> HIDE DEF x
<1>6. Listed' = Listed
  <2>1. CASE UNCHANGED <<list, todo>>  BY <2>1, ListedIs
  <2>2. CASE todo' = list /\ list' = <<>>  BY <1>3, <2>2, ListedIs, EmptyElems
  <2> QED  BY <1>5, <2>1, <2>2
<1>7. ListInv'
  <2>1. None \notin Listed'  BY <1>6, ListedType
  <2>2. CASE UNCHANGED <<list, todo>>  BY <1>4, <2>1, <2>2 DEF SInv, ListInv
  <2>3. CASE todo' = list /\ list' = <<>>
    BY <1>4, <2>1, <2>3, EmptyElems DEF SInv, ListInv
  <2> QED  BY <1>5, <2>2, <2>3
<1>8. StatusInv'  BY <1>1, <1>2, <1>6, <1>x, StatusFrame DEF SInv
<1>9. UsersInv'  BY <1>1, <1>2, UsersFrame DEF SInv
<1>10. VisibleInv'  BY <1>1, <1>2, <1>x, VisibleFrame DEF SInv
<1>11. RefInv'  BY <1>1, <1>2, <1>6, <1>x, RefFrame DEF SInv
<1>12. EndInv'  BY <1>1, <1>2, EndFrame DEF SInv
<1>13. ExitInv'
  <2>1. \A u \in Threads : pc'[u] = "close" => pc[u] = "close"  BY <1>1 DEF Moves
  <2> QED  BY <1>2, <1>4, <1>6, <1>x, <2>1 DEF SInv, ExitInv, Gone
<1>14. WaiterInv'  BY <1>1, <1>2, WaiterFrame DEF SInv
<1>15. TimeInv'
  <2>1. now \in Int /\ time \in Int
    BY PresentationAssumption DEF BaseInv, TypeOK, Times, Never
  <2>2. \A r \in Surfaces : arg'[Queue] # r  BY <1>4
  <2>3. x = "scan" => time' <= now
    BY <1>2, <1>5, <1>x, <2>1 DEF SInv, TimeInv
  <2> QED  BY <1>2, <1>4, <1>x, <2>2, <2>3 DEF TimeInv, Shows
<1> QED
  BY <1>7, <1>8, <1>9, <1>10, <1>11, <1>12, <1>13, <1>14, <1>15 DEF SInv

LEMMA SurfScanLater ==
  ASSUME BaseInv, SInv, ScanLater
  PROVE  SInv'
<1> USE Distinctness DEF surfVars, pqtVars, callVars, env
<1>1. BaseInv' /\ Moves(Queue, "scan", arg[Queue])  BY BaseScanLater
<1> DEFINE s == Head(todo)
<1>2. /\ pc[Queue] = "scan" /\ todo # <<>>
      /\ todo' = Tail(todo) /\ list' = Append(list, s)
      /\ UNCHANGED <<surfVars, pqLock, pqHandle, pqRefs, exit, pqtVars, callVars, time, env>>
  BY DEF ScanLater, Scanning
<1>3. list \in Seq(Surfaces) /\ todo \in Seq(Surfaces)  BY DEF BaseInv, TypeOK
<1>4. /\ s \in Surfaces /\ Elems(todo) = {s} \cup Elems(todo')
      /\ Distinct(todo') /\ s \notin Elems(todo')
  BY <1>2, <1>3, HeadElems DEF SInv, ListInv
<1> HIDE DEF s
<1>5. s \notin Elems(list)  BY <1>4 DEF SInv, ListInv
<1>6. Elems(list') = Elems(list) \cup {s} /\ Distinct(list')
  BY <1>2, <1>3, <1>4, <1>5, AppendElems DEF SInv, ListInv
<1>7. Listed' = Listed  BY <1>4, <1>6, ListedIs
<1>8. ListInv'  BY <1>2, <1>4, <1>6, <1>7 DEF SInv, ListInv
<1>9. StatusInv'  BY <1>1, <1>2, <1>7, StatusFrame DEF SInv
<1>10. UsersInv'  BY <1>1, <1>2, UsersFrame DEF SInv
<1>11. VisibleInv'  BY <1>1, <1>2, VisibleFrame DEF SInv
<1>12. RefInv'  BY <1>1, <1>2, <1>7, RefFrame DEF SInv
<1>13. EndInv'  BY <1>1, <1>2, EndFrame DEF SInv
<1>14. ExitInv'  BY <1>1, <1>2, <1>7, ExitFrame DEF SInv, Gone
<1>15. WaiterInv'  BY <1>1, <1>2, WaiterFrame DEF SInv
<1>16. TimeInv'  BY <1>1, <1>2, TimeFrame DEF SInv
<1> QED
  BY <1>8, <1>9, <1>10, <1>11, <1>12, <1>13, <1>14, <1>15, <1>16 DEF SInv

LEMMA SurfScanDue ==
  ASSUME BaseInv, SInv, ScanDue
  PROVE  SInv'
<1> USE Distinctness DEF surfVars, pqVars, pqtVars, env
<1> DEFINE s == Head(todo)
<1>0. /\ pc[Queue] = "scan" /\ todo # <<>> /\ due[s] <= time
      /\ UNCHANGED <<surfVars, pqVars, pqtVars, want, time, earliest, next, env>>
  BY DEF ScanDue, Scanning
<1>1. CASE arg[Queue] # None
  <2>1. BaseInv' /\ Moves(Queue, "show", arg[Queue])  BY <1>1, BaseScanDue
  <2>2. UNCHANGED todo  BY <1>1 DEF ScanDue
  <2>3. Quiet(Queue, "show", arg[Queue])  BY <1>0 DEF Quiet
  <2>4. TimeInv'  BY <1>0, <2>1, TimeFrame DEF SInv, Shows
  <2>5. EndInv'  BY <1>0, <2>1, EndFrame DEF SInv
  <2>6. Listed' = Listed  BY <1>0, <2>2, ListedIs
  <2>7. ExitInv'  BY <1>0, <2>1, <2>6, ExitFrame DEF SInv, Gone
  <2> QED  BY <1>0, <2>1, <2>2, <2>3, <2>4, <2>5, <2>7, QuietInv
<1>2. CASE arg[Queue] = None
  <2>1. BaseInv' /\ Moves(Queue, "scan", s)  BY <1>2, BaseScanDue
  <2>2. todo' = Tail(todo)  BY <1>2 DEF ScanDue
  <2>3. list \in Seq(Surfaces) /\ todo \in Seq(Surfaces)  BY DEF BaseInv, TypeOK
  <2>4. /\ s \in Surfaces /\ Elems(todo) = {s} \cup Elems(todo')
        /\ Distinct(todo') /\ s \notin Elems(todo')
    BY <1>0, <2>2, <2>3, HeadElems DEF SInv, ListInv
  <2> HIDE DEF s
  <2>5. arg'[Queue] = s /\ pc'[Queue] = "scan"  BY <2>1 DEF Moves
  <2>6. Listed' = Listed \ {s} /\ s \in Listed
    BY <1>0, <2>4, ListedIs DEF SInv, ListInv
  <2>7. ListInv'
    <3>1. Elems(todo') \subseteq Elems(todo)  BY <2>4
    <3> QED  BY <1>0, <2>4, <2>5, <2>6, <3>1 DEF SInv, ListInv
  <2>8. \A q \in Procs : q # Queue => arg'[q] = arg[q]  BY <2>1 DEF Moves
  <2>9. \A t \in Threads : pc'[t] \in Shows => pc[t] \in Shows
    BY <2>1 DEF Moves, Shows
  <2>10. \A q \in Procs : /\ pc'[q] = "replacing" <=> pc[q] = "replacing"
                          /\ pc'[q] = "replacing" => q # Queue
    BY <1>0, <2>1 DEF Moves
  <2>11. StatusInv'
    <3>1. \A r \in Surfaces : status'[r] = "queued" <=>
             r \in Listed' \/ (arg'[Queue] = r /\ pc'[Queue] # "replacing")
      BY <1>0, <1>2, <2>5, <2>6 DEF SInv, StatusInv
    <3> QED  BY <1>0, <2>8, <2>9, <2>10, <3>1 DEF SInv, StatusInv
  <2>12. UsersInv'  BY <1>0, <2>1, UsersFrame DEF SInv
  <2>13. VisibleInv'  BY <1>0, <2>1, VisibleFrame DEF SInv
  <2>14. RefInv'
    <3>1. ASSUME NEW r \in Surfaces PROVE Growth(Queue, "scan", s, r) = 0
      <4>1. Bit(Kept(r)') = Bit(Kept(r))  BY <1>0, <2>1, KeptSame
      <4>2. /\ ThreadRefs(Queue, "scan", s, r) = 0
            /\ ThreadRefs(Queue, pc[Queue], arg[Queue], r) = 0
        BY DEF ThreadRefs, Bit
      <4>3. /\ Bit(r \in Listed') - Bit(r \in Listed) = 0 - Bit(r = s)
            /\ Bit(arg'[Queue] = r) - Bit(arg[Queue] = r) = Bit(r = s)
        BY <1>2, <2>5, <2>6 DEF Bit
      <4>4. /\ Bit(handle[r]) \in 0 .. 1 /\ Bit(Kept(r)) \in 0 .. 1 /\ Bit(r = s) \in 0 .. 1
            /\ Bit(r \in Listed) \in 0 .. 1 /\ Bit(r \in Listed') \in 0 .. 1
            /\ Bit(arg[Queue] = r) \in 0 .. 1 /\ Bit(arg'[Queue] = r) \in 0 .. 1
        BY DEF Bit
      <4>5. handle' = handle  BY <1>0
      <4> QED  BY <4>1, <4>2, <4>3, <4>4, <4>5 DEF Growth
    <3>2. \A r \in Surfaces : refcnt[r] \in Int  BY DEF BaseInv, TypeOK
    <3> HIDE DEF Growth
    <3> QED  BY <1>0, <2>1, <2>4, <3>1, <3>2, RefStep DEF SInv
  <2>15. EndInv'  BY <1>0, <2>1, EndFrame DEF SInv
  <2>16. ExitInv'
    <3>1. \A u \in Threads : pc'[u] = "close" => pc[u] = "close"  BY <2>1 DEF Moves
    <3> QED  BY <1>0, <2>5, <3>1 DEF SInv, ExitInv, Gone
  <2>17. WaiterInv'  BY <1>0, <2>1, WaiterFrame DEF SInv
  <2>18. TimeInv'  BY <1>0, <2>5 DEF SInv, TimeInv, Shows
  <2> QED
    BY <2>7, <2>11, <2>12, <2>13, <2>14, <2>15, <2>16, <2>17, <2>18 DEF SInv
<1> QED  BY <1>1, <1>2

LEMMA SurfScanEnd ==
  ASSUME BaseInv, SInv, ScanEnd
  PROVE  SInv'
<1> USE Distinctness DEF surfVars, pqtVars, env
<1> DEFINE x == IF arg[Queue] # None THEN "show" ELSE IF next # None THEN "prepare" ELSE "wait"
<1>1. BaseInv' /\ Moves(Queue, x, arg[Queue])  BY BaseScanEnd
<1>2. /\ pc[Queue] = "scan"
      /\ arg[Queue] # None => UNCHANGED time
      /\ UNCHANGED <<surfVars, list, pqHandle, pqRefs, exit, pqtVars, arg, want, todo, next, env>>
  BY DEF ScanEnd
<1>x. x \in {"show", "prepare", "wait"} /\ (arg[Queue] = None => x # "show")  OBVIOUS
<1> HIDE DEF x
<1>3. Quiet(Queue, x, arg[Queue])  BY <1>2, <1>x DEF Quiet
<1>4. TimeInv'
  <2>1. CASE arg[Queue] # None  BY <1>1, <1>2, <2>1, TimeFrame DEF SInv
  <2>2. CASE arg[Queue] = None
    <3>1. arg'[Queue] = None /\ pc'[Queue] \in {"prepare", "wait"}
      BY <1>1, <1>x, <2>2 DEF Moves
    <3> QED  BY <3>1 DEF TimeInv, Shows
  <2> QED  BY <2>1, <2>2
<1>5. EndInv'  BY <1>1, <1>2, EndFrame DEF SInv
<1>6. Listed' = Listed  BY <1>2, ListedIs
<1>7. ExitInv'  BY <1>1, <1>2, <1>6, <1>x, ExitFrame DEF SInv, Gone
<1> QED  BY <1>1, <1>2, <1>3, <1>4, <1>5, <1>7, QuietInv

-----------------------------------------------------------------------------
(* The steps that take a surface off the list or the screen.               *)

\* Surface s becomes idle, and the thread that waits for it is woken.
LEMMA WakeWaiter ==
  ASSUME BaseInv, SInv, NEW p \in Procs, NEW x, NEW a, Moves(p, x, a), UNCHANGED admits,
         NEW s \in Surfaces, NEW w \in Woken(s), pc' = Moved(w, p, x),
         surfLock[s] \in {None, p}, p \in Threads => x \notin {"try", "blocked"},
         \A r \in Surfaces : status'[r] = "idle" => status[r] = "idle" \/ r = s
  PROVE  WaiterInv'
<1> USE Distinctness
<1> SUFFICES ASSUME "two_waiters" \notin admits, NEW t \in Threads,
                    pc'[t] \in {"try", "blocked"}
             PROVE  status'[arg'[t]] # "idle"
  BY DEF WaiterInv
<1>1. t # p  BY DEF Moves
<1>2. pc[t] = pc'[t] /\ arg'[t] = arg[t]  BY <1>1 DEF Moves
<1>3. arg[t] \in Surfaces  BY <1>2, ArgType DEF InCall, BlockSteps
<1>4. status[arg[t]] # "idle"  BY <1>2 DEF SInv, WaiterInv
<1>5. arg[t] # s
  <2> SUFFICES ASSUME arg[t] = s PROVE FALSE  OBVIOUS
  <2>1. CASE pc[t] = "try"
    <3>1. surfLock[s] = t  BY <2>1 DEF BaseInv, LockInv
    <3> QED  BY <1>1, <3>1
  <2>2. CASE pc[t] = "blocked"
    <3>1. t \in Waiters(s)  BY <2>2 DEF Waiters
    <3>2. w \in Waiters(s)  BY <3>1 DEF Woken
    <3>3. w \in Threads /\ arg[w] = s  BY <3>2 DEF Waiters
    <3>4. w = t  BY <1>3, <3>3 DEF SInv, UsersInv
    <3>5. pc'[t] = "unblocked"  BY <3>4 DEF Moved
    <3> QED  BY <3>5
  <2> QED  BY <1>2, <2>1, <2>2
<1> QED  BY <1>2, <1>3, <1>4, <1>5

LEMMA SurfExitDrop ==
  ASSUME BaseInv, SInv, ExitDrop
  PROVE  SInv'
<1> USE Distinctness DEF surfVars, pqtVars, localVars, env
<1>1. BaseInv' /\ Moves(Queue, "exit", arg[Queue])  BY BaseExitDrop
<1> DEFINE s == Head(list)
<1>2. /\ pc[Queue] = "exit" /\ list # <<>> /\ surfLock[s] = None
      /\ status' = [status EXCEPT ![s] = "idle"]
      /\ refcnt' = [refcnt EXCEPT ![s] = @ - 1]
      /\ list' = Tail(list)
      /\ UNCHANGED <<handle, due, surfLock, pqLock, pqHandle, pqRefs, exit, pqtVars,
                     arg, want, localVars, env>>
  BY DEF ExitDrop
<1>w. PICK w \in Woken(s) : pc' = Moved(w, Queue, "exit")  BY DEF ExitDrop
<1>3. /\ list \in Seq(Surfaces) /\ refcnt \in [Surfaces -> Int]
      /\ status \in [Surfaces -> {"idle", "queued", "visible"}]
  BY DEF BaseInv, TypeOK
<1>4. /\ s \in Surfaces /\ Elems(list) = {s} \cup Elems(list')
      /\ Distinct(list') /\ s \notin Elems(list')
  BY <1>2, <1>3, HeadElems DEF SInv, ListInv
<1> HIDE DEF s
<1>5. arg[Queue] = None /\ todo = <<>>  BY <1>2, QueueIdle DEF Shows
<1>6. Elems(todo) = {} /\ Elems(todo') = {} /\ Distinct(todo')
  BY <1>2, <1>5, EmptyElems
<1>7. Listed' = Listed \ {s} /\ s \in Listed  BY <1>4, <1>6, ListedIs
<1>8. status[s] = "queued"  BY <1>4, <1>7 DEF SInv, StatusInv
<1>9. \A r \in Surfaces : status'[r] = IF r = s THEN "idle" ELSE status[r]
  BY <1>2, <1>3, <1>4
<1>10. \A t \in Threads : pc[t] \notin Shows \cup {"lock_surf"}
  BY <1>2, LockOwner DEF PqSteps, Shows
<1>11. /\ pc'[Queue] = "exit" /\ arg' = arg
       /\ \A t \in Threads : pc'[t] = pc[t] \/ (pc[t] = "blocked" /\ pc'[t] = "unblocked")
       /\ pc'[Overlap] = pc[Overlap]
  BY <1>1, <1>2 DEF Moves
<1>12. \A r \in Surfaces : arg'[Queue] # r /\ arg[Queue] # r  BY <1>5, <1>11
<1>13. ListInv'
  <2>1. None \notin Listed'  BY <1>7, ListedType
  <2> QED  BY <1>4, <1>5, <1>6, <1>11, <2>1 DEF ListInv
<1>14. StatusInv'
  <2>1. \A r \in Surfaces : status'[r] = "queued" <=> r \in Listed'
    BY <1>7, <1>9, <1>12 DEF SInv, StatusInv
  <2>2. \A t \in Threads : pc'[t] \notin Shows  BY <1>10, <1>11 DEF Shows
  <2>3. \A q \in Procs \ {Overlap} : pc'[q] # "replacing"
    BY <1>11, <2>2 DEF Procs, Shows
  <2> QED  BY <1>12, <2>1, <2>2, <2>3 DEF StatusInv
<1>15. UsersInv'  BY <1>1, <1>2, UsersFrame DEF SInv
<1>16. VisibleInv'
  <2> SUFFICES ASSUME Follows PROVE VisibleInv'  BY <1>2 DEF VisibleInv, Follows
  <2>1. \A r \in Surfaces : status'[r] = "visible" <=> status[r] = "visible"
    BY <1>8, <1>9
  <2>2. \A q \in Procs : /\ pc'[q] = "replacing" <=> pc[q] = "replacing"
                         /\ arg'[q] = arg[q]
    BY <1>2, <1>11 DEF Procs
  <2>3. \A r : Replacing(r)' <=> Replacing(r)  BY <2>2 DEF Replacing
  <2>4. \A t \in Threads : pc'[t] \in Before =>
           pc[t] \in Before /\ arg'[t] = arg[t] /\ arg[t] \in Surfaces
    BY <1>11, ArgType DEF Before, InCall, DisplaySteps
  <2>5. \A t \in Threads : pc'[t] \in Before => status'[arg'[t]] = "idle"
    BY <1>9, <2>4 DEF SInv, VisibleInv
  <2> QED  BY <1>2, <2>1, <2>2, <2>3, <2>5 DEF SInv, VisibleInv, Follows
<1>17. RefInv'
  <2>1. ASSUME NEW r \in Surfaces PROVE Growth(Queue, "exit", arg[Queue], r) = 0 - Bit(r = s)
    <3>1. Bit(Kept(r)') = Bit(Kept(r))  BY <1>1, <1>2, KeptSame
    <3>2. /\ ThreadRefs(Queue, "exit", arg[Queue], r) = 0
          /\ ThreadRefs(Queue, pc[Queue], arg[Queue], r) = 0
      BY DEF ThreadRefs, Bit
    <3>3. Bit(r \in Listed') - Bit(r \in Listed) = 0 - Bit(r = s)
      BY <1>7 DEF Bit
    <3>4. /\ Bit(handle[r]) \in 0 .. 1 /\ Bit(Kept(r)) \in 0 .. 1 /\ Bit(r = s) \in 0 .. 1
          /\ Bit(r \in Listed) \in 0 .. 1 /\ Bit(r \in Listed') \in 0 .. 1
          /\ Bit(arg[Queue] = r) \in 0 .. 1
      BY DEF Bit
    <3>5. handle' = handle /\ arg' = arg  BY <1>2
    <3> QED  BY <3>1, <3>2, <3>3, <3>4, <3>5 DEF Growth
  <2>2. \A r \in Surfaces : /\ refcnt[r] \in Int /\ Bit(r = s) \in 0 .. 1
                            /\ refcnt'[r] = refcnt[r] - Bit(r = s)
    BY <1>2, <1>3 DEF Bit
  <2> HIDE DEF Growth
  <2>3. \A r \in Surfaces : /\ refcnt'[r] = refcnt[r] + Growth(Queue, "exit", arg[Queue], r)
                            /\ refcnt'[r] \in Int
    BY <2>1, <2>2
  <2> QED  BY <1>1, <1>2, <2>3, RefStep DEF SInv
<1>18. EndInv'  BY <1>1, <1>2, EndFrame DEF SInv
<1>19. ExitInv'
  <2>1. \A t \in Threads : pc'[t] = "close" => pc[t] = "close"  BY <1>11
  <2> QED  BY <1>2, <1>11, <2>1 DEF SInv, ExitInv, Gone
<1>20. WaiterInv'
  <2>1. \A r \in Surfaces : status'[r] = "idle" => status[r] = "idle" \/ r = s
    BY <1>9
  <2> QED  BY <1>1, <1>2, <1>4, <1>w, <2>1, WakeWaiter
<1>21. TimeInv'  BY <1>11, <1>12 DEF TimeInv, Shows
<1> QED
  BY <1>13, <1>14, <1>15, <1>16, <1>17, <1>18, <1>19, <1>20, <1>21 DEF SInv

LEMMA SurfExitIdle ==
  ASSUME BaseInv, SInv, ExitIdle
  PROVE  SInv'
<1> USE Distinctness DEF localVars, env
<1>1. BaseInv' /\ Moves(Queue, "done", arg[Queue])  BY BaseExitIdle
<1>2. /\ pc[Queue] = "exit_idle" /\ (disp # None => surfLock[disp] = None)
      /\ UNCHANGED <<handle, due, surfLock, list, pqHandle, pqRefs, exit, arg, want,
                     localVars, env>>
  BY DEF ExitIdle
<1>3. arg[Queue] = None /\ todo = <<>>  BY <1>2, QueueIdle DEF Shows
<1>4. Listed' = Listed  BY <1>2, ListedIs
<1>5. /\ \A t \in Threads : pc[t] \notin Shows
      /\ \A q \in Procs : pc[q] # "replacing"
  BY <1>2, LockOwner DEF PqSteps, PqtSteps, Shows
<1>6. /\ pc'[Queue] = "done" /\ arg' = arg
      /\ \A t \in Threads : pc'[t] = pc[t] \/ (pc[t] = "blocked" /\ pc'[t] = "unblocked")
      /\ pc'[Overlap] = pc[Overlap]
  BY <1>1, <1>2 DEF Moves
<1>7. /\ \A t \in Threads : pc'[t] \notin Shows
      /\ \A q \in Procs : pc'[q] # "replacing"
  BY <1>5, <1>6 DEF Procs, Shows
<1>8. \A r \in Surfaces : arg'[Queue] # r /\ arg[Queue] # r  BY <1>3, <1>6
<1>9. /\ refcnt \in [Surfaces -> Int] /\ disp \in Surfaces \cup {None}
      /\ status \in [Surfaces -> {"idle", "queued", "visible"}]
  BY DEF BaseInv, TypeOK
<1>10. Follows /\ disp # None => status[disp] = "visible"
  BY <1>9 DEF SInv, VisibleInv
<1>11. /\ \/ disp = None \/ status[disp] # "visible"
          \/ status' = [status EXCEPT ![disp] = "idle"] /\ disp' = None
       /\ disp = None \/ status[disp] # "visible" => UNCHANGED <<status, disp>>
       /\ IF disp = None THEN UNCHANGED refcnt
          ELSE refcnt' = [refcnt EXCEPT ![disp] = @ - 1]
  BY DEF ExitIdle
<1>12. Follows => disp' = None  BY <1>10, <1>11
<1>13. \A r \in Surfaces :
         status'[r] = IF disp = r /\ status[r] = "visible" THEN "idle" ELSE status[r]
  BY <1>9, <1>11
<1>14. ListInv'  BY <1>2, ListFrame DEF SInv
<1>15. StatusInv'
  <2>1. \A r \in Surfaces : status'[r] = "queued" <=> r \in Listed'
    BY <1>4, <1>8, <1>13 DEF SInv, StatusInv
  <2> QED  BY <1>7, <1>8, <2>1 DEF StatusInv
<1>16. UsersInv'  BY <1>1, <1>2, UsersFrame DEF SInv
<1>17. VisibleInv'
  <2> SUFFICES ASSUME Follows PROVE VisibleInv'  BY <1>2 DEF VisibleInv, Follows
  <2>1. \A r \in Surfaces : status[r] = "visible" <=> disp = r
    BY <1>5 DEF SInv, VisibleInv, Replacing
  <2>2. \A r \in Surfaces : status'[r] # "visible"  BY <1>13, <2>1
  <2>3. \A r \in Surfaces : disp' # r /\ ~Replacing(r)'  BY <1>7, <1>12 DEF Replacing
  <2>4. \A t \in Threads : pc'[t] \in Before =>
           pc[t] \in Before /\ arg'[t] = arg[t] /\ arg[t] \in Surfaces
    BY <1>6, ArgType DEF Before, InCall, DisplaySteps
  <2>5. \A t \in Threads : pc'[t] \in Before => status'[arg'[t]] = "idle"
    BY <1>13, <2>4 DEF SInv, VisibleInv
  <2> QED  BY <1>7, <2>2, <2>3, <2>5 DEF VisibleInv
<1>18. RefInv'
  <2>1. ASSUME NEW r \in Surfaces PROVE Growth(Queue, "done", arg[Queue], r) = 0 - Bit(r = disp)
    <3>1. Bit(Kept(r)') = 0
      <4>1. ~Kept(r)'  BY <1>2, <1>6, <1>12 DEF Kept, Follows
      <4> QED  BY <4>1 DEF Bit
    <3>2. Bit(Kept(r)) = Bit(r = disp)
      <4>1. Kept(r) <=> r = disp  BY <1>2 DEF Kept
      <4>2. Kept(r) \in BOOLEAN /\ (r = disp) \in BOOLEAN  BY DEF Kept
      <4> QED  BY <4>1, <4>2, BitSame
    <3>3. /\ ThreadRefs(Queue, "done", arg[Queue], r) = 0
          /\ ThreadRefs(Queue, pc[Queue], arg[Queue], r) = 0
      BY DEF ThreadRefs, Bit
    <3>4. /\ Bit(handle[r]) \in 0 .. 1 /\ Bit(r = disp) \in 0 .. 1
          /\ Bit(r \in Listed) \in 0 .. 1 /\ Bit(arg[Queue] = r) \in 0 .. 1
      BY DEF Bit
    <3>5. handle' = handle /\ arg' = arg  BY <1>2
    <3> QED  BY <1>4, <3>1, <3>2, <3>3, <3>4, <3>5 DEF Growth
  <2>2. \A r \in Surfaces : /\ refcnt[r] \in Int /\ Bit(r = disp) \in 0 .. 1
                            /\ refcnt'[r] = refcnt[r] - Bit(r = disp)
    <3>1. \A r \in Surfaces : refcnt'[r] = IF r = disp THEN refcnt[r] - 1 ELSE refcnt[r]
      BY <1>9, <1>11
    <3> QED  BY <1>9, <3>1 DEF Bit
  <2> HIDE DEF Growth
  <2>3. \A r \in Surfaces : /\ refcnt'[r] = refcnt[r] + Growth(Queue, "done", arg[Queue], r)
                            /\ refcnt'[r] \in Int
    BY <2>1, <2>2
  <2> QED  BY <1>1, <1>2, <2>3, RefStep DEF SInv
<1>19. EndInv'  BY <1>1, <1>2, EndFrame DEF SInv
<1>20. ExitInv'
  <2>1. \A t \in Threads : pc'[t] = "close" => pc[t] = "close"  BY <1>6
  <2>2. Follows' => disp' = None  BY <1>2, <1>12 DEF Follows
  <2> QED  BY <1>2, <1>4, <1>6, <2>1, <2>2 DEF SInv, ExitInv, Gone
<1>21. WaiterInv'
  <2>1. CASE disp # None /\ status[disp] = "visible"
    <3>1. PICK w \in Woken(disp) : pc' = Moved(w, Queue, "done")  BY <2>1 DEF ExitIdle
    <3>2. \A r \in Surfaces : status'[r] = "idle" => status[r] = "idle" \/ r = disp
      BY <1>13
    <3> QED  BY <1>1, <1>2, <1>9, <2>1, <3>1, <3>2, WakeWaiter
  <2>2. CASE ~(disp # None /\ status[disp] = "visible")
    <3>1. status' = status  BY <1>11, <2>2
    <3> QED  BY <1>1, <1>2, <3>1, WaiterFrame DEF SInv
  <2> QED  BY <2>1, <2>2
<1>22. TimeInv'  BY <1>6, <1>8 DEF TimeInv, Shows
<1> QED
  BY <1>14, <1>15, <1>16, <1>17, <1>18, <1>19, <1>20, <1>21, <1>22 DEF SInv

LEMMA SurfShowPicture ==
  ASSUME BaseInv, SInv, NEW p \in Procs, ShowPicture(p)
  PROVE  SInv'
<1> USE Distinctness DEF pqVars, localVars, env
<1>1. BaseInv' /\ Moves(p, "replacing", arg[p])  BY BaseShowPicture
<1> DEFINE s == arg[p]
<1>2. /\ pc[p] = "showing"
      /\ status' = IF p = Overlap THEN status ELSE [status EXCEPT ![s] = "visible"]
      /\ UNCHANGED <<handle, refcnt, due, surfLock, pqVars, pqtLock, disp,
                     overlapped, arg, want, localVars, env>>
  BY DEF ShowPicture
<1>3. s \in Surfaces
  <2>1. s # None
    BY <1>2 DEF BaseInv, StepInv, Fits, InCall, DisplaySteps, Shows, Procs
  <2> QED  BY <2>1, ArgType
<1>4. status \in [Surfaces -> {"idle", "queued", "visible"}]
  BY DEF BaseInv, TypeOK
<1>5. \A r \in Surfaces : status'[r] = IF r = s /\ p # Overlap THEN "visible" ELSE status[r]
  BY <1>2, <1>3, <1>4
<1>6. Listed' = Listed  BY <1>2, ListedIs
<1>7. \A q \in Procs : q # p => pc[q] \notin PqtSteps
  BY <1>2, LockOwner DEF PqtSteps
<1>8. /\ pc'[p] = "replacing"
      /\ \A q \in Procs : q # p =>
           \/ pc'[q] = pc[q]
           \/ q \in Threads /\ pc[q] = "blocked" /\ pc'[q] = "unblocked"
           \/ q = Queue /\ pc[q] = "wait" /\ pc'[q] = "woken"
  BY <1>1 DEF Moves
<1>9. \A q \in Procs : pc[q] # "replacing" /\ (pc'[q] = "replacing" <=> q = p)
  BY <1>2, <1>7, <1>8 DEF PqtSteps
<1>10. p = Queue => s \notin Listed /\ status[s] = "queued"
  BY <1>2, <1>3 DEF SInv, ListInv, StatusInv
<1>11. p \in Threads => status[s] # "queued"
  BY <1>2 DEF SInv, StatusInv, Shows
<1>12. p \notin {Overlap} => \A t \in Threads : t # p => pc[t] \notin Shows
  <2>1. p # Overlap => pc[p] \in PqSteps(p)  BY <1>2 DEF PqSteps, Shows
  <2> QED  BY <2>1, LockOwner DEF PqSteps
<1>13. p \in Threads => arg[Queue] # s
  BY <1>3, <1>9, <1>11 DEF SInv, StatusInv
<1> HIDE DEF s
<1>14. ListInv'  BY <1>2, ListFrame DEF SInv
<1>15. StatusInv'
  <2>1. CASE p = Overlap
    <3>1. status' = status  BY <1>2, <2>1
    <3> QED  BY <1>1, <1>6, <2>1, <3>1, StatusFrame DEF SInv
  <2>2. CASE p # Overlap
    <3>1. \A r \in Surfaces : status'[r] = "queued" <=>
             r \in Listed' \/ (arg'[Queue] = r /\ pc'[Queue] # "replacing")
      <4>1. CASE p = Queue
        BY <1>2, <1>5, <1>6, <1>8, <1>9, <1>10, <2>2, <4>1 DEF SInv, StatusInv, s
      <4>2. CASE p \in Threads
        <5>1. pc'[Queue] # "replacing" /\ pc[Queue] # "replacing"  BY <1>9, <4>2
        <5>2. status[s] # "queued" /\ s \notin Listed /\ arg[Queue] # s
          BY <1>3, <1>11, <1>13, <4>2 DEF SInv, StatusInv
        <5> QED  BY <1>2, <1>5, <1>6, <2>2, <5>1, <5>2 DEF SInv, StatusInv
      <4> QED  BY <2>2, <4>1, <4>2 DEF Procs
    <3>2. \A t \in Threads : pc'[t] \in Shows => t = p
      BY <1>8, <1>12, <2>2 DEF Shows
    <3>3. status'[s] = "visible"  BY <1>3, <1>5, <2>2
    <3> QED  BY <1>2, <1>9, <3>1, <3>2, <3>3 DEF StatusInv, s
  <2> QED  BY <2>1, <2>2
<1>16. UsersInv'  BY <1>1, <1>2, UsersFrame DEF SInv, BlockSteps, s
<1>17. VisibleInv'
  <2> SUFFICES ASSUME Follows PROVE VisibleInv'  BY <1>2 DEF VisibleInv, Follows
  <2>1. \A r \in Surfaces : status[r] = "visible" <=> disp = r
    BY <1>9 DEF SInv, VisibleInv, Replacing
  <2>2. p = Overlap => disp = s  BY <1>3 DEF BaseInv, StepInv, s
  <2>3. \A r \in Surfaces : Replacing(r)' <=> r = s
    BY <1>2, <1>9 DEF Replacing, s
  <2>4. \A r \in Surfaces : status'[r] = "visible" <=> disp' = r \/ Replacing(r)'
    BY <1>2, <1>5, <2>1, <2>2, <2>3
  <2>5. \A t \in Threads : pc'[t] \in Before =>
           t # p /\ pc[t] \in Before /\ arg'[t] = arg[t] /\ arg[t] \in Surfaces
    BY <1>2, <1>8, ArgType DEF Before, InCall, DisplaySteps
  <2>6. ASSUME NEW t \in Threads, pc'[t] \in Before PROVE status'[arg'[t]] = "idle"
    <3>1. status[arg[t]] = "idle"  BY <2>5, <2>6 DEF SInv, VisibleInv
    <3>2. CASE p = Overlap  BY <1>5, <2>5, <2>6, <3>1, <3>2
    <3>3. CASE p = Queue
      <4>1. arg[t] # s  BY <1>10, <3>1, <3>3
      <4> QED  BY <1>5, <2>5, <2>6, <3>1, <4>1
    <3>4. CASE p \in Threads
      <4>1. arg[t] # s
        BY <1>2, <1>3, <2>5, <2>6, <3>4 DEF SInv, UsersInv, BlockSteps, s
      <4> QED  BY <1>5, <2>5, <2>6, <3>1, <4>1
    <3> QED  BY <3>2, <3>3, <3>4 DEF Procs
  <2>7. p # Overlap => disp # s
    <3>1. p \in Threads => status[s] = "idle"
      BY <1>2 DEF SInv, VisibleInv, Before, s
    <3> QED  BY <1>3, <1>10, <2>1, <3>1 DEF Procs
  <2>8. \A q \in Procs \ {Overlap} : pc'[q] = "replacing" => disp' # arg'[q]
    BY <1>2, <1>9, <2>7 DEF s
  <2> QED  BY <2>4, <2>6, <2>8 DEF VisibleInv
<1>18. RefInv'  BY <1>1, <1>2, <1>6, RefFrame DEF SInv, Shows
<1>19. EndInv'  BY <1>1, <1>2, EndFrame DEF SInv, DisplaySteps
<1>20. ExitInv'  BY <1>1, <1>2, <1>6, ExitFrame DEF SInv, Gone
<1>21. WaiterInv'
  <2>1. \A r \in Surfaces : status'[r] = "idle" => status[r] = "idle"  BY <1>5
  <2> QED  BY <1>1, <1>2, <2>1, WaiterFrame DEF SInv
<1>22. TimeInv'  BY <1>1, <1>2, TimeFrame DEF SInv, Shows
<1> QED
  BY <1>14, <1>15, <1>16, <1>17, <1>18, <1>19, <1>20, <1>21, <1>22 DEF SInv

\* arg[p] takes the place of the surface on screen, which is put and becomes idle.
LEMMA SurfReplace ==
  ASSUME BaseInv, SInv, Tame, NEW p \in Procs, ShowOnly(p) \/ Replace(p)
  PROVE  SInv'
<1> USE Distinctness
<1> DEFINE s == arg[p]
           T == p \in Threads
           Replaces == /\ disp \notin {s, None} /\ surfLock[disp] \in {None, p}
                       /\ status[disp] = "visible"
                       /\ status' = [status EXCEPT ![disp] = "idle"]
                       /\ \E w \in Woken(disp) : pc' = Moved(w, p, After(p))
<1>1. BaseInv' /\ Moves(p, After(p), None)  BY BaseReplace
<1>2. PICK old :
        /\ pc[p] = "replacing" /\ disp' = s
        /\ UNCHANGED <<handle, due, list, pqHandle, exit, todo, time, now, admits>>
        /\ \A r \in Surfaces : refcnt'[r] = refcnt[r] - Bit(r = old) - Bit(T /\ r = s)
        /\ \/ old = None /\ disp \in {s, None}
           \/ old = disp /\ disp \notin {s, None}
        /\ \/ status' = status /\ (disp \in {s, None} \/ status[disp] # "visible")
           \/ Replaces
  <2>1. CASE ShowOnly(p)
    <3>1. Shown(p, None, None)  BY <2>1 DEF ShowOnly
    <3>2. /\ UNCHANGED <<handle, due, list, pqHandle, exit, todo, time, now, admits>>
          /\ refcnt' = [r \in Surfaces |-> refcnt[r] - Bit(r = None) - Bit(T /\ r = s)]
      BY <3>1 DEF Shown, localVars, env
    <3> QED  BY <2>1, <3>2 DEF ShowOnly
  <2>2. CASE Replace(p)
    <3>1. \A w : Shown(p, disp, w) =>
            /\ UNCHANGED <<handle, due, list, pqHandle, exit, todo, time, now, admits>>
            /\ refcnt' = [r \in Surfaces |-> refcnt[r] - Bit(r = disp) - Bit(T /\ r = s)]
            /\ pc' = Moved(w, p, After(p))
      BY DEF Shown, After, localVars, env
    <3>2. CASE status[disp] = "visible"
      <4>1. PICK w \in Woken(disp) : Shown(p, disp, w)  BY <2>2, <3>2 DEF Replace
      <4> QED  BY <2>2, <3>1, <3>2, <4>1 DEF Replace, Free
    <3>3. CASE status[disp] # "visible"
      <4>1. Shown(p, disp, None)  BY <2>2, <3>3 DEF Replace
      <4> QED  BY <2>2, <3>1, <3>3, <4>1 DEF Replace
    <3> QED  BY <3>2, <3>3
  <2> QED  BY <2>1, <2>2
<1>a. After(p) \in {"join", "idle", "scan"} /\ (p = Queue => After(p) = "scan")
      /\ (T => After(p) \in {"join", "idle"})
  BY DEF After, Left
<1> HIDE DEF After
<1>3. s \in Surfaces
  <2>1. s # None
    BY <1>2 DEF BaseInv, StepInv, Fits, InCall, DisplaySteps, Shows, Procs
  <2> QED  BY <2>1, ArgType
<1>4. /\ status \in [Surfaces -> {"idle", "queued", "visible"}]
      /\ refcnt \in [Surfaces -> Int] /\ disp \in Surfaces \cup {None}
  BY DEF BaseInv, TypeOK
<1>5. \A r \in Surfaces : \/ status'[r] = status[r]
                          \/ r = disp /\ status[r] = "visible" /\ status'[r] = "idle"
  BY <1>2, <1>4
<1>6. Listed' = Listed  BY <1>2, ListedIs
<1>7. \A q \in Procs : pc[q] = "replacing" <=> q = p
  BY <1>2, LockOwner DEF PqtSteps
<1>8. /\ pc'[p] = After(p) /\ arg'[p] = None
      /\ \A q \in Procs : q # p =>
           /\ arg'[q] = arg[q]
           /\ \/ pc'[q] = pc[q]
              \/ q \in Threads /\ pc[q] = "blocked" /\ pc'[q] = "unblocked"
              \/ q = Queue /\ pc[q] = "wait" /\ pc'[q] = "woken"
  BY <1>1 DEF Moves
<1>9. \A q \in Procs : pc'[q] # "replacing"  BY <1>7, <1>8, <1>a
<1>10. p = Overlap => disp = s  BY <1>3 DEF BaseInv, StepInv
<1>11. p # Overlap => pc[Queue] # "done" \/ Follows
  <2>1. CASE p = Queue  BY <1>2, <2>1
  <2>2. CASE T
    <3>1. "late_display" \notin admits => pc[Queue] # "done"
      BY <1>2, <2>2, QueueLives DEF DisplaySteps, Gone
    <3> QED  BY <3>1 DEF Tame, Sane, Both, Follows
  <2> QED  BY <2>1, <2>2 DEF Procs
<1>12. pc'[Queue] = "done" <=> pc[Queue] = "done"  BY <1>2, <1>8, <1>a
<1>13. Follows /\ p # Overlap => disp # s  BY <1>2 DEF SInv, VisibleInv
<1> HIDE DEF s, Replaces
<1>14. ListInv'
  <2>1. arg'[Queue] \in {arg[Queue], None}  BY <1>8
  <2> QED  BY <1>2, <2>1, ListFrame DEF SInv
<1>15. StatusInv'
  <2>1. \A r \in Surfaces : status'[r] = "queued" <=> status[r] = "queued"
    BY <1>5
  <2>2. \A r \in Surfaces : (arg'[Queue] = r /\ pc'[Queue] # "replacing")
                            <=> (arg[Queue] = r /\ pc[Queue] # "replacing")
    BY <1>7, <1>8, <1>9
  <2>3. \A t \in Threads : pc'[t] \in Shows =>
           pc[t] \in Shows /\ arg'[t] = arg[t] /\ arg[t] \in Surfaces
    BY <1>8, <1>a, ArgType DEF Shows, InCall, DisplaySteps
  <2> QED  BY <1>6, <1>9, <2>1, <2>2, <2>3 DEF SInv, StatusInv
<1>16. UsersInv'  BY <1>1, <1>2, UsersFrame DEF SInv
<1>17. VisibleInv'
  <2> SUFFICES ASSUME Follows PROVE VisibleInv'  BY <1>2 DEF VisibleInv, Follows
  <2>1. \A r \in Surfaces : Replacing(r) <=> r = s  BY <1>7 DEF Replacing, s
  <2>2. \A r \in Surfaces : ~Replacing(r)'  BY <1>9 DEF Replacing
  <2>3. \A r \in Surfaces : status[r] = "visible" <=> disp = r \/ r = s
    BY <2>1 DEF SInv, VisibleInv
  <2>4. \A r \in Surfaces : status'[r] = "visible" <=> disp' = r
    BY <1>2, <1>4, <2>3 DEF Replaces
  <2>5. \A t \in Threads : pc'[t] \in Before =>
           pc[t] \in Before /\ arg'[t] = arg[t] /\ arg[t] \in Surfaces
    BY <1>8, <1>a, ArgType DEF Before, InCall, DisplaySteps
  <2>6. \A t \in Threads : pc'[t] \in Before => status'[arg'[t]] = "idle"
    BY <1>5, <2>5 DEF SInv, VisibleInv
  <2> QED  BY <1>9, <2>2, <2>4, <2>6 DEF VisibleInv
<1>18. RefInv'
  <2>1. ASSUME NEW r \in Surfaces
        PROVE  LET g == Growth(p, After(p), None, r)
                   c == 0 - Bit(r = old) - Bit(T /\ r = s)
               IN g \in Int /\ c \in Int /\ g <= c /\ (Follows => g = c)
    <3> DEFINE qs == Bit(p = Queue /\ r = s)
               ts == Bit(T /\ r = s)
               os == Bit(p = Overlap /\ r = s)
               g == Growth(p, After(p), None, r)
    <3>1. ThreadRefs(p, After(p), None, r) = 0  BY <1>3 DEF ThreadRefs, Bit
    <3>2. ThreadRefs(p, pc[p], arg[p], r) = ts + ts
      BY <1>2 DEF ThreadRefs, Bit, Shows, s
    <3>3. Bit(arg'[Queue] = r) - Bit(arg[Queue] = r) = 0 - qs
      BY <1>8 DEF Bit, s
    <3>4. g = Bit(Kept(r)') - Bit(Kept(r)) - qs - ts - ts
      <4>1. /\ Bit(handle[r]) \in 0 .. 1 /\ Bit(r \in Listed) \in 0 .. 1
            /\ Bit(arg[Queue] = r) \in 0 .. 1 /\ Bit(arg'[Queue] = r) \in 0 .. 1
            /\ Bit(Kept(r)) \in 0 .. 1 /\ Bit(Kept(r)') \in 0 .. 1
            /\ qs \in 0 .. 1 /\ ts \in 0 .. 1
        BY DEF Bit
      <4>2. handle' = handle  BY <1>2
      <4> HIDE DEF qs, ts
      <4> QED  BY <1>6, <3>1, <3>2, <3>3, <4>1, <4>2 DEF Growth
    <3>5. qs + ts + os = Bit(r = s) /\ qs \in 0 .. 1 /\ ts \in 0 .. 1 /\ os \in 0 .. 1
      BY DEF Bit, Procs
    <3>6. CASE p = Overlap
      <4>1. Kept(r)' <=> Kept(r)  BY <1>2, <1>10, <1>12, <3>6 DEF Kept, Follows
      <4>2. Kept(r) \in BOOLEAN /\ Kept(r)' \in BOOLEAN  BY DEF Kept
      <4>3. Bit(Kept(r)') = Bit(Kept(r))  BY <4>1, <4>2, BitSame
      <4>4. qs = 0 /\ ts = 0 /\ Bit(Kept(r)) \in 0 .. 1  BY <3>6 DEF Bit
      <4>5. r # old  BY <1>2, <1>10, <3>6
      <4>6. Bit(r = old) = 0  BY <4>5 DEF Bit
      <4> HIDE DEF g, qs, ts
      <4>7. g = 0  BY <3>4, <4>3, <4>4
      <4> QED  BY <4>4, <4>6, <4>7 DEF g, ts
    <3>7. CASE p # Overlap
      <4>1. Kept(r)' <=> r = s  BY <1>2, <1>11, <1>12, <3>7 DEF Kept, Follows
      <4>2. Kept(r) <=> r = disp  BY <1>11, <3>7 DEF Kept
      <4>3. /\ Kept(r) \in BOOLEAN /\ Kept(r)' \in BOOLEAN
            /\ (r = s) \in BOOLEAN /\ (r = disp) \in BOOLEAN
        BY DEF Kept
      <4>4. Bit(Kept(r)') = Bit(r = s) /\ Bit(Kept(r)) = Bit(r = disp)
        BY <4>1, <4>2, <4>3, BitSame
      <4>5. os = 0  BY <3>7 DEF Bit
      <4>6. /\ Bit(r = disp) >= Bit(r = old)
            /\ Follows => Bit(r = disp) = Bit(r = old)
        BY <1>2, <1>13, <3>7 DEF Bit
      <4>7. Bit(r = disp) \in 0 .. 1 /\ Bit(r = old) \in 0 .. 1 /\ Bit(r = s) \in 0 .. 1
        BY DEF Bit
      <4> HIDE DEF g, qs, ts, os, Follows
      <4>8. g = 0 - Bit(r = disp) - ts  BY <3>4, <3>5, <4>4, <4>5, <4>7
      <4>9. /\ g \in Int /\ g <= 0 - Bit(r = old) - ts
            /\ Follows => g = 0 - Bit(r = old) - ts
        <5> DEFINE b == Bit(r = disp)
                   c == Bit(r = old)
        <5>1. b \in 0 .. 1 /\ c \in 0 .. 1 /\ ts \in 0 .. 1 /\ b >= c /\ g = 0 - b - ts
          BY <3>5, <4>6, <4>7, <4>8
        <5>2. Follows => b = c  BY <4>6
        <5> HIDE DEF b, c
        <5>3. g \in Int /\ g <= 0 - c - ts /\ (b = c => g = 0 - c - ts)  BY <5>1
        <5> QED  BY <5>2, <5>3 DEF c
      <4>10. 0 - Bit(r = old) - ts \in Int  BY <3>5, <4>7
      <4> QED  BY <4>9, <4>10 DEF g, ts
    <3> QED  BY <3>6, <3>7
  <2> HIDE DEF Growth
  <2>2. \A r \in Surfaces : refcnt[r] \in Int  BY <1>4
  <2>3. \A r \in Surfaces : Bit(r = old) \in 0 .. 1 /\ Bit(T /\ r = s) \in 0 .. 1
    BY DEF Bit
  <2>4. ASSUME NEW r \in Surfaces
        PROVE  /\ refcnt'[r] >= refcnt[r] + Growth(p, After(p), None, r)
               /\ Follows => refcnt'[r] = refcnt[r] + Growth(p, After(p), None, r)
    <3> DEFINE g == Growth(p, After(p), None, r)
               b == Bit(r = old)
               c == Bit(T /\ r = s)
    <3>1. /\ g \in Int /\ g <= 0 - b - c /\ (Follows => g = 0 - b - c)
          /\ b \in 0 .. 1 /\ c \in 0 .. 1 /\ refcnt[r] \in Int
      BY <2>1, <2>2, <2>3
    <3>2. refcnt'[r] = refcnt[r] - b - c  BY <1>2
    <3> HIDE DEF g, b, c, Follows
    <3>3. refcnt'[r] >= refcnt[r] + g /\ (Follows => refcnt'[r] = refcnt[r] + g)
      BY <3>1, <3>2
    <3> QED  BY <3>3 DEF g
  <2>5. UNCHANGED admits  BY <1>2
  <2> QED  BY <1>1, <2>4, <2>5, RefStep DEF SInv
<1>19. EndInv'  BY <1>1, <1>2, <1>a, EndFrame DEF SInv, DisplaySteps
<1>20. ExitInv'
  <2>1. \A t \in Threads : pc'[t] = "close" => pc[t] = "close"  BY <1>8, <1>a
  <2>2. pc'[Queue] \in Gone => pc'[Queue] = pc[Queue] /\ p # Queue
    BY <1>8, <1>a DEF Gone
  <2>3. pc[Queue] = "done" /\ Follows /\ "late_display" \notin admits => FALSE
    <3> SUFFICES ASSUME pc[Queue] = "done", Follows, "late_display" \notin admits
                 PROVE  FALSE
      OBVIOUS
    <3>1. disp = None  BY DEF SInv, ExitInv
    <3>2. p # Overlap  BY <1>3, <1>10, <3>1
    <3>3. T  BY <1>2, <3>2 DEF Procs
    <3> QED  BY <1>2, <3>3, QueueLives DEF DisplaySteps, Gone
  <2> QED  BY <1>2, <1>6, <2>1, <2>2, <2>3 DEF SInv, ExitInv, Follows, Gone
<1>21. WaiterInv'
  <2>1. CASE status' = status
    BY <1>1, <1>2, <1>a, <2>1, WaiterFrame DEF SInv
  <2>2. CASE Replaces
    <3>1. PICK w \in Woken(disp) : pc' = Moved(w, p, After(p))  BY <2>2 DEF Replaces
    <3>2. \A r \in Surfaces : status'[r] = "idle" => status[r] = "idle" \/ r = disp
      BY <1>5
    <3>3. disp \in Surfaces /\ surfLock[disp] \in {None, p}  BY <1>4, <2>2 DEF Replaces
    <3> QED  BY <1>1, <1>2, <1>a, <3>1, <3>2, <3>3, WakeWaiter
  <2> QED  BY <1>2, <2>1, <2>2
<1>22. TimeInv'  BY <1>1, <1>2, <1>a, TimeFrame DEF SInv, Shows
<1> QED
  BY <1>14, <1>15, <1>16, <1>17, <1>18, <1>19, <1>20, <1>21, <1>22 DEF SInv

-----------------------------------------------------------------------------
(* The theorems.                                                           *)

LEMMA InitInv == Init => IInv
<1> SUFFICES ASSUME Init PROVE IInv  OBVIOUS
<1> USE Distinctness DEF Init
<1>1. TypeOK
  <2>1. 0 \in 0 .. MaxTime /\ Never \in Times
    BY PresentationAssumption DEF Times, Never
  <2>2. /\ handle \in [Surfaces -> BOOLEAN] /\ refcnt \in [Surfaces -> Int]
        /\ status \in [Surfaces -> {"idle", "queued", "visible"}]
        /\ due \in [Surfaces -> 0 .. MaxTime] /\ want \in [Threads -> 0 .. MaxTime]
        /\ surfLock \in [Surfaces -> Procs \cup {None}]
    BY <2>1
  <2>3. list \in Seq(Surfaces) /\ todo \in Seq(Surfaces)  OBVIOUS
  <2>4. RestOK  BY <2>1, <2>2, <2>3 DEF RestOK
  <2>5. pc \in [Procs -> Steps] /\ pqRefs \in Nat
        /\ arg \in [Procs -> Surfaces \cup {None}]
    BY DEF Steps, QueueSteps
  <2> QED  BY <2>4, <2>5, TypeSplit
<1>2. /\ \A p \in Procs : pc[p] \in {"idle", "start", "wait"} /\ arg[p] = None
      /\ \A p \in Procs \ {Queue} : pc[p] = "idle"
      /\ pc[Queue] \in {"start", "wait"}
  OBVIOUS
<1>3. StepInv
  BY <1>2 DEF StepInv, Fits, InCall, DisplaySteps, BlockSteps, QueueSteps, Shows
<1>4. LockInv  BY <1>2 DEF LockInv, PqSteps, PqtSteps, Shows
<1>5. Callers = {} /\ Closers = {}  BY <1>2 DEF Callers, Closers
<1>6. Cardinality({}) = 0  BY FS_EmptySet
<1>7. QueueRefsInv  BY <1>5, <1>6 DEF QueueRefsInv, Bit
<1>8. Listed = {}  BY ListedIs, EmptyElems
<1>9. ListInv /\ StatusInv /\ UsersInv /\ VisibleInv /\ EndInv /\ ExitInv /\ WaiterInv
  <2>1. ListInv  BY <1>2, <1>8, EmptyElems DEF ListInv
  <2>2. StatusInv  BY <1>2, <1>8 DEF StatusInv, Shows
  <2>3. UsersInv  BY <1>2 DEF UsersInv
  <2>4. VisibleInv  BY <1>2 DEF VisibleInv, Replacing, Before
  <2>5. EndInv /\ ExitInv /\ WaiterInv  BY <1>2 DEF EndInv, ExitInv, WaiterInv, Gone
  <2> QED  BY <2>1, <2>2, <2>3, <2>4, <2>5
<1>10. RefInv
  <2> SUFFICES ASSUME NEW s \in Surfaces PROVE refcnt[s] = 1 /\ Count(s) = 1
    BY DEF RefInv
  <2>1. Showers(s) = {} /\ Using(s) = {}  BY <1>2 DEF Showers, Using
  <2>2. ~Kept(s) /\ arg[Queue] # s /\ s \notin Listed  BY <1>2, <1>8 DEF Kept
  <2> QED  BY <1>6, <2>1, <2>2 DEF Count, Bit
<1>11. TimeInv  BY <1>2 DEF TimeInv, Shows
<1> QED
  BY <1>1, <1>3, <1>4, <1>7, <1>9, <1>10, <1>11 DEF IInv, BaseInv, SInv

LEMMA NextBase == BaseInv /\ Next => BaseInv'
<1> SUFFICES ASSUME BaseInv, Next PROVE BaseInv'  OBVIOUS
<1> USE Distinctness
<1>1. ASSUME NEW p \in Procs, ShowSteps(p) PROVE BaseInv'
  BY <1>1, BaseShowLock, BaseShowPicture, BaseReplace DEF ShowSteps
<1>2. ASSUME NEW t \in Threads, Call(t) PROVE BaseInv'
  BY <1>2, BaseDisplay, BaseBlock, BaseCreateSurface, BaseDestroySurface, BaseCreateQueue,
     BaseDestroyQueue DEF Call
<1>3. ASSUME NEW t \in Threads, DisplayCall(t) PROVE BaseInv'
  BY <1>1, <1>3, BaseDisplayLock, BaseRefuse, BaseEnqueue, BaseShowNow DEF DisplayCall
<1>4. ASSUME NEW t \in Threads, BlockCall(t) PROVE BaseInv'
  BY <1>4, BaseBlockLock, BaseBlockRetry, BaseBlockWait, BaseBlockRefuse, BaseUnblock
     DEF BlockCall
<1>5. ASSUME NEW t \in Threads, CloseCall(t) PROVE BaseInv'
  BY <1>5, BaseClose, BaseJoin DEF CloseCall
<1>6. ASSUME QueueThread PROVE BaseInv'
  BY <1>1, <1>6, BaseStartWait, BaseTimeOut, BaseResume, BaseScanLater, BaseScanDue,
     BaseScanEnd, BasePrepareLock, BasePrepare, BaseExitDrop, BaseExitLock, BaseExitIdle
     DEF QueueThread
<1> QED
  BY <1>1, <1>2, <1>3, <1>4, <1>5, <1>6, BaseOverlapEvent, BaseTick DEF Next

LEMMA NextSurf == BaseInv /\ SInv /\ Tame /\ Next => SInv'
<1> SUFFICES ASSUME BaseInv, SInv, Tame, Next PROVE SInv'  OBVIOUS
<1> USE Distinctness
<1>1. ASSUME NEW p \in Procs, ShowSteps(p) PROVE SInv'
  BY <1>1, SurfShowLock, SurfShowPicture, SurfReplace DEF ShowSteps
<1>2. ASSUME NEW t \in Threads, Call(t) PROVE SInv'
  BY <1>2, SurfDisplay, SurfBlock, SurfCreateSurface, SurfDestroySurface, SurfCreateQueue,
     SurfDestroyQueue DEF Call
<1>3. ASSUME NEW t \in Threads, DisplayCall(t) PROVE SInv'
  BY <1>1, <1>3, SurfDisplayLock, SurfRefuse, SurfEnqueue, SurfShowNow DEF DisplayCall
<1>4. ASSUME NEW t \in Threads, BlockCall(t) PROVE SInv'
  BY <1>4, SurfBlockLock, SurfBlockRetry, SurfBlockWait, SurfBlockRefuse, SurfUnblock
     DEF BlockCall
<1>5. ASSUME NEW t \in Threads, CloseCall(t) PROVE SInv'
  BY <1>5, SurfClose, SurfJoin DEF CloseCall
<1>6. ASSUME QueueThread PROVE SInv'
  BY <1>1, <1>6, SurfStartWait, SurfTimeOut, SurfResume, SurfScanLater, SurfScanDue,
     SurfScanEnd, SurfPrepareLock, SurfPrepare, SurfExitDrop, SurfExitLock, SurfExitIdle
     DEF QueueThread
<1> QED
  BY <1>1, <1>2, <1>3, <1>4, <1>5, <1>6, SurfOverlapEvent, SurfTick DEF Next

LEMMA AdmitsStay == Next => UNCHANGED admits
<1> SUFFICES ASSUME Next PROVE UNCHANGED admits  OBVIOUS
<1> USE DEF env
<1>1. ASSUME NEW p, ShowSteps(p) PROVE UNCHANGED admits
  BY <1>1 DEF ShowSteps, ShowLock, ShowPicture, ShowOnly, Replace, Shown
<1>2. ASSUME NEW t, Call(t) PROVE UNCHANGED admits
  BY <1>2 DEF Call, Display, Block, CreateSurface, DestroySurface, CreateQueue, DestroyQueue
<1>3. ASSUME NEW t, DisplayCall(t) PROVE UNCHANGED admits
  BY <1>1, <1>3 DEF DisplayCall, DisplayLock, Refuse, Enqueue, ShowNow, DisplayReturn
<1>4. ASSUME NEW t, BlockCall(t) PROVE UNCHANGED admits
  BY <1>4 DEF BlockCall, BlockLock, BlockRetry, BlockWait, BlockRefuse, Unblock, BlockReturn
<1>5. ASSUME NEW t, CloseCall(t) PROVE UNCHANGED admits
  BY <1>5 DEF CloseCall, Close, Join
<1>6. ASSUME QueueThread PROVE UNCHANGED admits
  BY <1>1, <1>6 DEF QueueThread, StartWait, TimeOut, Resume, ScanLater, ScanDue, ScanEnd,
     PrepareLock, Prepare, ExitDrop, ExitLock, ExitIdle
<1>7. OverlapEvent \/ Tick => UNCHANGED admits  BY DEF OverlapEvent, Tick
<1> QED  BY <1>1, <1>2, <1>3, <1>4, <1>5, <1>6, <1>7 DEF Next

\* Without a new queue the queue's thread stays where it ended.
LEMMA TameWas == BaseInv /\ Next /\ Tame' => Tame
<1> SUFFICES ASSUME BaseInv, Next, Tame' PROVE Tame  OBVIOUS
<1> USE Distinctness
<1>1. UNCHANGED admits  BY AdmitsStay
<1> SUFFICES ASSUME "new_queue" \notin admits, pc[Queue] = "done" PROVE pc'[Queue] = "done"
  BY <1>1 DEF Tame, Sane, Both
<1>2. ASSUME NEW p \in Procs, p # Queue, NEW x, NEW a, Moves(p, x, a) PROVE pc'[Queue] = "done"
  BY <1>2 DEF Moves
<1>3. ASSUME NEW p \in Procs, ShowSteps(p) PROVE pc'[Queue] = "done"
  <2>1. p # Queue
    BY <1>3 DEF ShowSteps, ShowLock, ShowPicture, ShowOnly, Replace
  <2> QED
    BY <1>2, <1>3, <2>1, BaseShowLock, BaseShowPicture, BaseReplace DEF ShowSteps
<1>4. ASSUME NEW t \in Threads, Call(t) PROVE pc'[Queue] = "done"
  BY <1>2, <1>4, BaseDisplay, BaseBlock, BaseCreateSurface, BaseDestroySurface,
     BaseDestroyQueue DEF Call, CreateQueue
<1>5. ASSUME NEW t \in Threads, DisplayCall(t) PROVE pc'[Queue] = "done"
  BY <1>2, <1>3, <1>5, BaseDisplayLock, BaseRefuse, BaseEnqueue, BaseShowNow DEF DisplayCall
<1>6. ASSUME NEW t \in Threads, BlockCall(t) PROVE pc'[Queue] = "done"
  BY <1>2, <1>6, BaseBlockLock, BaseBlockRetry, BaseBlockWait, BaseBlockRefuse, BaseUnblock
     DEF BlockCall
<1>7. ASSUME NEW t \in Threads, CloseCall(t) PROVE pc'[Queue] = "done"
  BY <1>2, <1>7, BaseClose, BaseJoin DEF CloseCall
<1>8. ASSUME QueueThread PROVE FALSE
  BY <1>8 DEF QueueThread, StartWait, TimeOut, Resume, ScanLater, ScanDue, ScanEnd, Scanning,
     PrepareLock, Prepare, ExitDrop, ExitLock, ExitIdle, ShowSteps, ShowLock, ShowPicture,
     ShowOnly, Replace
<1>9. OverlapEvent \/ Tick => pc'[Queue] = "done"
  BY <1>2, BaseOverlapEvent DEF Tick, callVars
<1> QED  BY <1>3, <1>4, <1>5, <1>6, <1>7, <1>8, <1>9 DEF Next

LEMMA NextInv == IInv /\ [Next]_vars => IInv'
<1> SUFFICES ASSUME IInv, [Next]_vars PROVE IInv'  OBVIOUS
<1>1. CASE Next
  BY <1>1, NextBase, NextSurf, TameWas DEF IInv
<1>2. CASE UNCHANGED vars
  <2> USE <1>2 DEF vars, surfVars, pqVars, pqtVars, callVars, localVars, env
  <2>1. BaseInv'
    BY DEF IInv, BaseInv, TypeOK, StepInv, LockInv, QueueRefsInv, Callers, Closers
  <2>2. SInv => SInv'
    <3>1. UNCHANGED <<ListInv, StatusInv, UsersInv, VisibleInv>>
      BY DEF ListInv, Listed, StatusInv, UsersInv, VisibleInv, Follows, Replacing
    <3>2. UNCHANGED <<RefInv, EndInv, ExitInv, WaiterInv, TimeInv>>
      BY DEF RefInv, Count, Listed, Kept, Follows, Showers, Using, EndInv, Displaying,
             ExitInv, WaiterInv, TimeInv
    <3> QED  BY <3>1, <3>2 DEF SInv
  <2> QED  BY <2>1, <2>2 DEF IInv, Tame
<1> QED  BY <1>1, <1>2

\* IInv is an invariant: who holds which lock where, what each thread has in hand, who
\* owns each reference and what each status stands for.
THEOREM QueueInvariance == Spec => []IInv
  BY InitInv, NextInv, PTL DEF Spec

\* Every variable keeps its type, whatever the application does: in particular the
\* references of presentation_queue.c to a queue are never put twice.
THEOREM QueueTypeCorrect == Spec => []TypeOK
<1>1. IInv => TypeOK  BY DEF IInv, BaseInv
<1> QED  BY <1>1, QueueInvariance, PTL

\* A surface has the references that the list, the two threads, disp_surf, its handle
\* and the calls on it stand for, exactly while the application displays idle surfaces
\* and at least those otherwise; so has the queue. Excluded are the applications for
\* which TLC finds a reference lost: those that create a second queue for the target
\* after they displayed what was queued or visible, or while the first was destroyed.
THEOREM SurfaceReferencesAreKept ==
  ASSUME \A a \in Admits : Sane(a)
  PROVE  Spec => []ReferencesAreKept
<1>1. IInv => ReferencesAreKept
  <2> SUFFICES ASSUME IInv PROVE ReferencesAreKept  OBVIOUS
  <2>1. BaseInv /\ (Follows \/ pc[Queue] # "done" => SInv)
    <3>1. admits \in Admits  BY DEF IInv, BaseInv, TypeOK
    <3> QED  BY <3>1 DEF IInv, Tame, Both, Follows
  <2>2. ASSUME NEW s \in Surfaces, Kept(s) <=> disp = s
        PROVE  Count(s) = Bit(handle[s]) + QueueHolds(s) + Cardinality(Using(s))
    <3>1. Bit(Kept(s)) = Bit(disp = s)
      <4>1. Kept(s) \in BOOLEAN /\ (disp = s) \in BOOLEAN  BY DEF Kept
      <4> QED  BY <2>2, <4>1, BitSame
    <3>2. Cardinality(Showers(s)) \in Nat /\ Cardinality(Using(s)) \in Nat
      BY PresentationAssumption, FS_Subset, FS_CardinalityType DEF Showers, Using
    <3>3. QueueHolds(s) = Bit(s \in Listed) + Bit(arg[Queue] = s) + Bit(disp = s)
                          + Cardinality(Showers(s))
      BY DEF QueueHolds, Showers, Shows
    <3>4. /\ Bit(handle[s]) \in 0 .. 1 /\ Bit(s \in Listed) \in 0 .. 1
          /\ Bit(arg[Queue] = s) \in 0 .. 1 /\ Bit(disp = s) \in 0 .. 1
      BY DEF Bit
    <3> QED  BY <3>1, <3>2, <3>3, <3>4 DEF Count
  <2>3. RefsExact
    <3>1. ASSUME Follows, NEW s \in Surfaces
          PROVE  refcnt[s] = Bit(handle[s]) + QueueHolds(s) + Cardinality(Using(s))
      BY <2>1, <2>2, <3>1 DEF SInv, RefInv, Kept
    <3> QED  BY <2>1, <3>1 DEF RefsExact, Follows, BaseInv, QueueRefsInv, Callers, Closers
  <2>4. HeldIsAlive
    <3> SUFFICES ASSUME pc[Queue] # "done", NEW s \in Surfaces
                 PROVE  refcnt[s] >= QueueHolds(s) + Cardinality(Using(s))
      BY DEF HeldIsAlive
    <3>1. refcnt[s] >= Count(s)  BY <2>1 DEF SInv, RefInv
    <3>2. Count(s) = Bit(handle[s]) + QueueHolds(s) + Cardinality(Using(s))
      BY <2>2 DEF Kept
    <3>3. Cardinality(Showers(s)) \in Nat /\ Cardinality(Using(s)) \in Nat
      BY PresentationAssumption, FS_Subset, FS_CardinalityType DEF Showers, Using
    <3>4. QueueHolds(s) \in Int /\ Bit(handle[s]) \in 0 .. 1
      BY <3>3 DEF QueueHolds, Showers, Shows, Bit
    <3>5. refcnt[s] \in Int  BY <2>1 DEF BaseInv, TypeOK
    <3> QED  BY <3>1, <3>2, <3>3, <3>4, <3>5
  <2> QED  BY <2>3, <2>4 DEF ReferencesAreKept
<1> QED  BY <1>1, QueueInvariance, PTL

\* What surf->status says is where the surface is: on the list or in the hands of the
\* queue's thread, on screen or being put there; and nothing is left queued or visible
\* by presentation_queue_thr when it ends. No display may be under way when the queue is
\* destroyed.
THEOREM StatusIsTrue ==
  ASSUME \A a \in Admits : Sane(a) /\ "late_display" \notin a
  PROVE  Spec => []ReportsAgree
<1>1. IInv => ReportsAgree
  <2> SUFFICES ASSUME IInv PROVE ReportsAgree  OBVIOUS
  <2>1. BaseInv /\ SInv /\ "late_display" \notin admits
    <3>1. admits \in Admits  BY DEF IInv, BaseInv, TypeOK
    <3> QED  BY <3>1 DEF IInv, Tame, Both
  <2>2. StatusAgrees
    BY <2>1 DEF SInv, StatusInv, VisibleInv, StatusAgrees, Follows, Replacing
  <2>3. ASSUME pc[Queue] = "done", Follows
        PROVE  disp = None /\ Listed = {} /\ \A s \in Surfaces : status[s] = "idle"
    <3>1. disp = None /\ Listed = {}  BY <2>1, <2>3 DEF SInv, ExitInv
    <3>2. arg[Queue] = None  BY <2>1, <2>3, QueueIdle DEF Shows
    <3>3. \A p \in Procs : pc[p] # "replacing"
      <4>1. \A t \in Threads : pc[t] # "replacing"
        BY <2>1, <2>3, QueueLives DEF DisplaySteps, Gone
      <4>2. pc[Overlap] # "replacing"
        BY <2>1, <3>1, Distinctness DEF BaseInv, StepInv, Fits
      <4> QED  BY <2>3, <4>1, <4>2 DEF Procs
    <3>4. \A s \in Surfaces : status[s] # "queued" /\ status[s] # "visible"
      BY <2>1, <2>3, <3>1, <3>2, <3>3, Distinctness
      DEF SInv, StatusInv, VisibleInv, Replacing
    <3>5. status \in [Surfaces -> {"idle", "queued", "visible"}]
      BY <2>1 DEF BaseInv, TypeOK
    <3> QED  BY <3>1, <3>4, <3>5
  <2> QED  BY <2>2, <2>3 DEF ReportsAgree, NothingLeftBehind, Follows
<1> QED  BY <1>1, QueueInvariance, PTL

\* The signal of pqt_display_surface_to_idle_state or of the end of the queue's thread
\* is not missed: nobody waits on idle_cond for a surface that is idle already, unless
\* two threads wait for one surface.
THEOREM WaitersAreWoken ==
  ASSUME \A a \in Admits : Sane(a) /\ ~(Both \subseteq a) /\ "two_waiters" \notin a
  PROVE  Spec => []NoLostWaiter
<1>1. IInv => NoLostWaiter
  <2> SUFFICES ASSUME IInv PROVE NoLostWaiter  OBVIOUS
  <2>1. admits \in Admits  BY DEF IInv, BaseInv, TypeOK
  <2> QED  BY <2>1 DEF IInv, Tame, SInv, WaiterInv, NoLostWaiter
<1> QED  BY <1>1, QueueInvariance, PTL

\* A step that makes a queued surface visible is the picture of the queue's thread.
LEMMA MadeVisible ==
  ASSUME BaseInv, SInv, Next, NEW s \in Surfaces, status[s] = "queued", status'[s] = "visible"
  PROVE  ShowPicture(Queue) /\ arg[Queue] = s
<1> USE Distinctness
<1>1. status \in [Surfaces -> {"idle", "queued", "visible"}]  BY DEF BaseInv, TypeOK
<1>2. ASSUME \/ UNCHANGED status
             \/ \E r : status' = [status EXCEPT ![r] = "idle"]
             \/ \E r : status' = [status EXCEPT ![r] = "queued"]
      PROVE  FALSE
  BY <1>1, <1>2
<1>3. ASSUME NEW p \in Procs, ShowSteps(p) PROVE ShowPicture(p)
  <2>1. ShowLock(p) \/ ShowOnly(p) \/ Replace(p) => FALSE
    BY <1>2 DEF ShowLock, ShowOnly, Replace, surfVars
  <2> QED  BY <1>3, <2>1 DEF ShowSteps
<1>4. \E p \in Procs : ShowPicture(p)
  <2>1. ASSUME NEW t \in Threads, Call(t) PROVE FALSE
    BY <1>2, <2>1 DEF Call, Display, Block, CreateSurface, DestroySurface, CreateQueue,
                      DestroyQueue, surfVars
  <2>2. ASSUME NEW t \in Threads, DisplayCall(t) PROVE ShowPicture(t)
    BY <1>2, <1>3, <2>2 DEF DisplayCall, DisplayLock, Refuse, Enqueue, ShowNow, surfVars
  <2>3. ASSUME NEW t \in Threads, BlockCall(t) PROVE FALSE
    BY <1>2, <2>3 DEF BlockCall, BlockLock, BlockRetry, BlockWait, BlockRefuse, Unblock,
                      BlockReturn
  <2>4. ASSUME NEW t \in Threads, CloseCall(t) PROVE FALSE
    BY <1>2, <2>4 DEF CloseCall, Close, Join, surfVars
  <2>5. ASSUME QueueThread PROVE ShowPicture(Queue)
    BY <1>2, <1>3, <2>5 DEF QueueThread, StartWait, TimeOut, Resume, ScanLater, ScanDue,
       ScanEnd, PrepareLock, Prepare, ExitDrop, ExitLock, ExitIdle, surfVars
  <2>6. OverlapEvent \/ Tick => FALSE
    BY <1>2 DEF OverlapEvent, Tick, surfVars
  <2> QED  BY <1>3, <2>1, <2>2, <2>3, <2>4, <2>5, <2>6 DEF Next
<1>5. PICK p \in Procs : ShowPicture(p)  BY <1>4
<1>6. p # Overlap /\ arg[p] = s
  <2>1. status' = IF p = Overlap THEN status ELSE [status EXCEPT ![arg[p]] = "visible"]
    BY <1>5 DEF ShowPicture
  <2> QED  BY <1>1, <2>1
<1>7. p \notin Threads
  BY <1>5, <1>6 DEF ShowPicture, SInv, StatusInv, Shows
<1> QED  BY <1>5, <1>6, <1>7 DEF Procs

\* A surface in the queue is put on screen when its earliest_presentation_time has
\* come, however the queue's thread was woken and whatever was queued meanwhile.
THEOREM NothingIsEarly ==
  ASSUME \A a \in Admits : Sane(a) /\ ~(Both \subseteq a)
  PROVE  Spec => NeverEarly
<1>1. IInv /\ [Next]_vars =>
        [\A s \in Surfaces : status[s] = "queued" /\ status'[s] = "visible"
                             => due[s] <= now]_vars
  <2> SUFFICES ASSUME IInv, Next, NEW s \in Surfaces,
                      status[s] = "queued", status'[s] = "visible"
               PROVE  due[s] <= now
    OBVIOUS
  <2>1. BaseInv /\ SInv
    <3>1. admits \in Admits  BY DEF IInv, BaseInv, TypeOK
    <3> QED  BY <3>1 DEF IInv, Tame
  <2>2. pc[Queue] = "showing" /\ arg[Queue] = s  BY <2>1, MadeVisible DEF ShowPicture
  <2>3. due[s] <= time /\ time <= now  BY <2>1, <2>2 DEF SInv, TimeInv, Shows
  <2>4. due[s] \in Int /\ time \in Int /\ now \in Int
    BY <2>1, PresentationAssumption DEF BaseInv, TypeOK, Times, Never
  <2> QED  BY <2>3, <2>4
<1> QED  BY <1>1, QueueInvariance, PTL DEF Spec, NeverEarly

-----------------------------------------------------------------------------
(***************************************************************************)
(* What is on screen. Surfaces are shown in the order in which they were   *)
(* queued, so the picture that was prepared is that of the next one: no    *)
(* other is shown, and thus drawn over it, before.                         *)
(***************************************************************************)

\* The rules of the application, and of the window, that keep the order.
Disorder == {"redraw", "reorder", "early_destroy", "new_queue"}
Orderly == admits \cap Disorder = {}

Sorted(q) == \A i, j \in DOMAIN q : i < j => due[q[i]] <= due[q[j]]
Scans == Shows \cup {"scan"}

\* The surface the queue's thread shows next.
First == IF arg[Queue] # None /\ pc[Queue] # "replacing" THEN arg[Queue]
         ELSE IF list # <<>> THEN list[1] ELSE IF todo # <<>> THEN todo[1] ELSE None

\* The queue is in the order of its times; a scan has left what is not due yet.
OrderInv == pc[Queue] \notin Gone =>
  /\ Sorted(list) /\ Sorted(todo)
  /\ \A a \in Elems(list), b \in Elems(todo) : due[a] <= due[b]
  /\ pc[Queue] \in Scans =>
       /\ \A a \in Elems(list) : due[a] > time
       /\ list = <<>> => earliest = Never /\ next = None
       /\ list # <<>> => earliest = due[list[1]] /\ next = list[1]
  /\ pc[Queue] \in {"prepare", "preparing"} => list # <<>> /\ next = list[1]

\* A display that shows at once finds nothing queued or prepared, one that queues
\* does so behind the rest.
WantInv == \A t \in Displaying :
  /\ want[t] = 0 => prep = None
  /\ pc[t] \in Shows => want[t] = 0
  /\ pc[Queue] \notin Gone => IF want[t] = 0 THEN First = None
                              ELSE \A a \in Elems(list) \cup Elems(todo) : due[a] <= want[t]

\* What is prepared is next, and still in the DRI buffer.
PrepInv ==
  /\ prep # None => back = prep
  /\ prep # None /\ pc[Queue] \notin Gone => First = prep

ScreenInv ==
  /\ \A p \in Procs : pc[p] = "replacing" => screen = arg[p]
  /\ (\A p \in Procs : pc[p] # "replacing") /\ disp # None => screen = disp

\* Nothing is redrawn, one call displays at a time, one queue ends.
OnceInv ==
  /\ pc[Overlap] = "idle" /\ ~overlapped /\ (~ForceDri => prep = None)
  /\ \A t, u \in Displaying : t = u
  /\ pc[Queue] \in Gone => exit
  /\ exit \/ (\E t \in Threads : pc[t] = "close") => ~pqHandle

PictureInv == OrderInv /\ WantInv /\ PrepInv /\ ScreenInv /\ OnceInv

\* What the steps below start from.
Presents == /\ BaseInv /\ Orderly /\ PictureInv
            /\ pc[Queue] # "done" => SInv

-----------------------------------------------------------------------------
LEMMA FirstStays ==
  ASSUME NEW p \in Procs, NEW x, NEW a, Moves(p, x, a), UNCHANGED <<list, todo>>,
         p = Queue => a = arg[Queue] /\ (x = "replacing" <=> pc[Queue] = "replacing")
  PROVE  First' = First
<1>1. arg'[Queue] = arg[Queue] /\ (pc'[Queue] = "replacing" <=> pc[Queue] = "replacing")
  BY Distinctness DEF Moves
<1> QED  BY <1>1 DEF First

\* The queue's thread does not come back.
LEMMA GoneStays ==
  ASSUME NEW p \in Procs, NEW x, NEW a, Moves(p, x, a), p = Queue /\ pc[p] \in Gone => x \in Gone
  PROVE  pc[Queue] \in Gone => pc'[Queue] \in Gone
  BY Distinctness DEF Moves, Gone

\* A step that neither shows nor queues anything.
LEMMA CalmInv ==
  ASSUME PictureInv, list \in Seq(Surfaces), NEW p \in Procs, p # Overlap, NEW x, NEW a, Moves(p, x, a),
         pc[p] # "replacing", x # "replacing",
         UNCHANGED <<list, todo, next, earliest, time, prep, back, screen, disp, overlapped>>,
         pc[Queue] # "done" => \A s \in Elems(list) \cup Elems(todo) : due'[s] = due[s],
         exit' = exit, pqHandle' => pqHandle, x = "close" => ~pqHandle',
         \A t \in Threads : t # p => want'[t] = want[t],
         p \in Threads => /\ x \in DisplaySteps => pc[p] \in DisplaySteps /\ want'[p] = want[p]
                          /\ x \in Shows /\ pc[p] \notin Shows => want[p] = 0,
         p = Queue => /\ a = arg[Queue]
                      /\ pc[p] \in Gone => x \in Gone
                      /\ x \in Gone => exit
                      /\ x \in Scans => pc[p] \in Scans
                      /\ x \in {"prepare", "preparing"} => pc[p] \in {"prepare", "preparing"}
  PROVE  PictureInv'
<1> USE Distinctness
<1>1. First' = First  BY FirstStays
<1>2. pc[Queue] \in Gone => pc'[Queue] \in Gone  BY GoneStays
<1>3. /\ pc'[Queue] \in Scans => pc[Queue] \in Scans
      /\ pc'[Queue] \in {"prepare", "preparing"} => pc[Queue] \in {"prepare", "preparing"}
      /\ pc'[Queue] \in Gone => pc[Queue] \in Gone \/ exit
  BY DEF Moves, Scans, Shows, Gone
<1>4. pc'[Queue] \notin Gone => \A s \in Elems(list) \cup Elems(todo) : due'[s] = due[s]
  BY <1>2 DEF Gone
<1>5. OrderInv'
  <2> SUFFICES ASSUME pc'[Queue] \notin Gone PROVE OrderInv'  BY DEF OrderInv
  <2>1. \A i \in DOMAIN list : list[i] \in Elems(list)  BY DEF Elems
  <2>2. \A i \in DOMAIN todo : todo[i] \in Elems(todo)  BY DEF Elems
  <2>3. Sorted(list)' /\ Sorted(todo)'
    BY <1>2, <1>4, <2>1, <2>2 DEF PictureInv, OrderInv, Sorted
  <2>4. list # <<>> => due'[list[1]] = due[list[1]] \/ pc[Queue] \notin Scans
    <3> SUFFICES ASSUME list # <<>>, pc[Queue] \in Scans PROVE due'[list[1]] = due[list[1]]
      OBVIOUS
    <3>1. 1 \in DOMAIN list  OBVIOUS
    <3> QED  BY <1>4, <2>1, <3>1
  <2> QED
    BY <1>2, <1>3, <1>4, <2>3, <2>4 DEF PictureInv, OrderInv, Elems
<1>6. \A t \in Displaying' : /\ t \in Displaying /\ want'[t] = want[t]
                             /\ pc'[t] \in Shows => pc[t] \in Shows \/ want[t] = 0
  BY DEF Displaying, Moves, DisplaySteps
<1>7. WantInv'
  BY <1>1, <1>2, <1>4, <1>6 DEF PictureInv, WantInv, Elems
<1>8. PrepInv'  BY <1>1, <1>2 DEF PictureInv, PrepInv
<1>9. ScreenInv'
  <2>1. \A q \in Procs : (pc'[q] = "replacing" <=> pc[q] = "replacing")
                         /\ (pc'[q] = "replacing" => arg'[q] = arg[q])
    BY DEF Moves
  <2> QED  BY <2>1 DEF PictureInv, ScreenInv
<1>10. OnceInv'
  <2>1. pc'[Overlap] = "idle"  BY DEF PictureInv, OnceInv, Moves
  <2>2. \A t \in Threads : pc'[t] = "close" => pc[t] = "close" \/ ~pqHandle'  BY DEF Moves
  <2> QED  BY <1>3, <1>6, <2>1, <2>2 DEF PictureInv, OnceInv
<1> QED  BY <1>5, <1>7, <1>8, <1>9, <1>10 DEF PictureInv

-----------------------------------------------------------------------------
(* The calm steps of the calls and of the queue's thread.                  *)

LEMMA PresentsType == ASSUME Presents PROVE list \in Seq(Surfaces) /\ todo \in Seq(Surfaces)
  BY DEF Presents, BaseInv, TypeOK

\* Threads of the application are not the one that redraws.
LEMMA CallInv ==
  ASSUME Presents, NEW t \in Threads, NEW x, NEW a, Moves(t, x, a),
         x \notin DisplaySteps \cup {"close"}, pc[t] # "replacing",
         UNCHANGED <<list, pqHandle, exit, disp, prep, back, screen, overlapped, want, localVars>>,
         pc[Queue] # "done" => \A s \in Listed : due'[s] = due[s]
  PROVE  PictureInv'
<1>1. t \in Procs /\ t # Overlap /\ t # Queue  BY Distinctness
<1>2. \A s \in Elems(list) \cup Elems(todo) : s \in Listed  BY ListedIs
<1>3. x # "replacing" /\ x \notin Shows  BY DEF DisplaySteps, Shows
<1>4. PictureInv /\ list \in Seq(Surfaces)  BY PresentsType DEF Presents
<1>5. UNCHANGED <<list, todo, next, earliest, time, prep, back, screen, disp, overlapped>>
  BY DEF localVars
<1>6. /\ pc[Queue] # "done" => \A s \in Elems(list) \cup Elems(todo) : due'[s] = due[s]
      /\ exit' = exit /\ pqHandle' = pqHandle
      /\ \A u \in Threads : want'[u] = want[u]
  BY <1>2
<1> QED  BY <1>1, <1>3, <1>4, <1>5, <1>6, CalmInv

LEMMA PictureBlocks ==
  ASSUME Presents, NEW t \in Threads,
         BlockCall(t) \/ Join(t) \/ \E s \in Surfaces : Block(t, s)
  PROVE  PictureInv'
<1> USE DEF pqtVars, localVars, pqVars, surfVars, Presents
<1>l. Left \in {"join", "idle"}  BY DEF Left
<1>s. "blocked" \notin DisplaySteps \cup {"close"} /\ "block" \notin DisplaySteps \cup {"close"}
      /\ "try" \notin DisplaySteps \cup {"close"} /\ "idle" \notin DisplaySteps \cup {"close"}
      /\ Left \notin DisplaySteps \cup {"close"}
  BY <1>l DEF DisplaySteps
<1>1. CASE BlockLock(t)
  <2>1. /\ pc[t] # "replacing"
        /\ UNCHANGED <<list, pqHandle, exit, disp, prep, back, screen, overlapped, want, localVars, due>>
    BY <1>1 DEF BlockLock, BlockReturn
  <2> QED  BY <1>1, <1>s, <2>1, BaseBlockLock, CallInv
<1>2. CASE BlockRetry(t)
  <2>1. /\ pc[t] # "replacing"
        /\ UNCHANGED <<list, pqHandle, exit, disp, prep, back, screen, overlapped, want, localVars, due>>
    BY <1>2 DEF BlockRetry
  <2> QED  BY <1>2, <1>s, <2>1, BaseBlockRetry, CallInv
<1>3. CASE BlockWait(t)
  <2>1. /\ pc[t] # "replacing"
        /\ UNCHANGED <<list, pqHandle, exit, disp, prep, back, screen, overlapped, want, localVars, due>>
    BY <1>3 DEF BlockWait
  <2> QED  BY <1>3, <1>s, <2>1, BaseBlockWait, CallInv
<1>4. CASE BlockRefuse(t) \/ Unblock(t)
  <2>1. /\ pc[t] # "replacing"
        /\ UNCHANGED <<list, pqHandle, exit, disp, prep, back, screen, overlapped, want, localVars, due>>
    BY <1>4 DEF BlockRefuse, Unblock, BlockReturn
  <2> QED  BY <1>4, <1>s, <2>1, BaseBlockRefuse, BaseUnblock, CallInv
<1>5. CASE Join(t)
  <2>1. /\ pc[t] # "replacing"
        /\ UNCHANGED <<list, pqHandle, exit, disp, prep, back, screen, overlapped, want, localVars, due>>
    BY <1>5 DEF Join
  <2> QED  BY <1>5, <1>s, <2>1, BaseJoin, CallInv
<1>6. ASSUME NEW s \in Surfaces, Block(t, s) PROVE PictureInv'
  <2>1. /\ pc[t] # "replacing"
        /\ UNCHANGED <<list, pqHandle, exit, disp, prep, back, screen, overlapped, want, localVars, due>>
    BY <1>6 DEF Block
  <2> QED  BY <1>6, <1>s, <2>1, BaseBlock, CallInv
<1> QED  BY <1>1, <1>2, <1>3, <1>4, <1>5, <1>6 DEF BlockCall

\* A surface that is created is not queued, nor is one that is destroyed.
LEMMA PictureSurfaces ==
  ASSUME Presents, NEW t \in Threads, NEW s \in Surfaces,
         CreateSurface(t, s) \/ DestroySurface(t, s)
  PROVE  PictureInv'
<1> USE DEF pqtVars, localVars, pqVars, callVars, Presents
<1>1. /\ pc[t] = "idle"
      /\ UNCHANGED <<list, pqHandle, exit, disp, prep, back, screen, overlapped, want, localVars>>
      /\ due' = [due EXCEPT ![s] = 0]
  BY DEF CreateSurface, DestroySurface
<1>2. pc[Queue] # "done" => s \notin Listed
  <2>1. CASE CreateSurface(t, s)  BY <2>1, DeadSurface DEF CreateSurface
  <2>2. CASE DestroySurface(t, s)
    <3>1. status[s] # "queued"  BY <2>2 DEF DestroySurface, MayDestroy, Orderly, Disorder
    <3> QED  BY <3>1 DEF SInv, StatusInv
  <2> QED  BY <2>1, <2>2
<1>3. pc[Queue] # "done" => \A r \in Listed : due'[r] = due[r]
  BY <1>1, <1>2, ListedType DEF BaseInv, TypeOK
<1>4. "idle" \notin DisplaySteps \cup {"close"}  BY DEF DisplaySteps
<1> QED  BY <1>1, <1>3, <1>4, BaseCreateSurface, BaseDestroySurface, CallInv

LEMMA PictureCalls ==
  ASSUME Presents, NEW t \in Threads, DisplayLock(t) \/ Refuse(t) \/ ShowNow(t)
  PROVE  PictureInv'
<1> USE Distinctness DEF pqtVars, localVars, pqVars
<1>1. /\ pc[t] \in {"display", "lock_surf"} /\ t \in Procs /\ t # Overlap /\ t # Queue
      /\ UNCHANGED <<list, todo, next, earliest, time, prep, back, screen, disp, overlapped>>
      /\ due' = due /\ exit' = exit /\ pqHandle' = pqHandle
  BY DEF DisplayLock, Refuse, ShowNow, DisplayReturn, surfVars
<1>2. \A u \in Threads : u # t => want'[u] = want[u]
  <2>1. want \in [Threads -> 0 .. MaxTime]  BY DEF Presents, BaseInv, TypeOK
  <2> QED  BY <2>1 DEF DisplayLock, Refuse, ShowNow, DisplayReturn
<1>3. PictureInv /\ list \in Seq(Surfaces)  BY PresentsType DEF Presents
<1>4. \A s \in Elems(list) \cup Elems(todo) : due'[s] = due[s]  BY <1>1
<1>5. CASE DisplayLock(t)
  <2>1. Moves(t, "lock_surf", arg[t])  BY <1>5, BaseDisplayLock DEF Presents
  <2>2. want' = want /\ pc[t] \in DisplaySteps  BY <1>5 DEF DisplayLock, DisplaySteps
  <2> QED  BY <1>1, <1>2, <1>3, <1>4, <2>1, <2>2, CalmInv DEF Shows
<1>6. CASE Refuse(t)
  <2>1. Moves(t, Left, None)  BY <1>6, BaseRefuse DEF Presents
  <2>2. Left \in {"join", "idle"}  BY DEF Left
  <2> HIDE DEF Left
  <2> QED  BY <1>1, <1>2, <1>3, <1>4, <2>1, <2>2, CalmInv DEF Shows, DisplaySteps
<1>7. CASE ShowNow(t)
  <2>1. Moves(t, "show", arg[t])  BY <1>7, BaseShowNow DEF Presents
  <2>2. want' = want /\ want[t] = 0  BY <1>7 DEF ShowNow
  <2>3. pc[t] \in DisplaySteps  BY <1>1 DEF DisplaySteps
  <2> QED  BY <1>1, <1>2, <1>3, <1>4, <2>1, <2>2, <2>3, CalmInv
<1> QED  BY <1>5, <1>6, <1>7

LEMMA PictureClose ==
  ASSUME Presents, NEW t \in Threads, DestroyQueue(t) \/ Close(t)
  PROVE  PictureInv'
<1> USE Distinctness DEF pqtVars, localVars, Presents
<1>1. /\ pc[t] \in {"idle", "close"} /\ t \in Procs /\ t # Overlap /\ t # Queue
      /\ UNCHANGED <<list, todo, next, earliest, time, prep, back, screen, disp, overlapped, due>>
      /\ want' = want
  BY DEF DestroyQueue, Close, surfVars
<1>2. PictureInv /\ list \in Seq(Surfaces)  BY PresentsType
<1>3. CASE DestroyQueue(t)
  <2>1. Moves(t, "close", arg[t])  BY <1>3, BaseDestroyQueue
  <2>2. exit' = exit /\ ~pqHandle'  BY <1>3 DEF DestroyQueue
  <2> QED  BY <1>1, <1>2, <2>1, <2>2, CalmInv DEF DisplaySteps, Shows
<1>4. CASE Close(t)
  <2>1. Moves(t, Left, arg[t])  BY <1>4, BaseClose
  <2>2. Left \in {"join", "idle"}  BY DEF Left
  <2> HIDE DEF Left
  <2>3. exit' /\ pqHandle' = pqHandle /\ ~pqHandle
    BY <1>4 DEF Close, PictureInv, OnceInv
  <2>4. First' = First  BY <1>1, <2>1, FirstStays
  <2>5. pc'[Queue] \in Gone <=> pc[Queue] \in Gone  BY <1>1, <2>1 DEF Moves, Gone
  <2>6. \A u \in Threads : pc'[u] \in DisplaySteps => pc'[u] = pc[u]
    BY <2>1, <2>2 DEF Moves, DisplaySteps
  <2>7. \A q \in Procs : (pc'[q] = "replacing" <=> pc[q] = "replacing") /\ arg'[q] = arg[q]
    BY <1>1, <2>1, <2>2 DEF Moves
  <2>8. OrderInv'
    <3>1. /\ pc'[Queue] \in Scans <=> pc[Queue] \in Scans
          /\ pc'[Queue] \in {"prepare", "preparing"} <=> pc[Queue] \in {"prepare", "preparing"}
      BY <1>1, <2>1 DEF Moves, Scans, Shows
    <3> QED  BY <1>1, <1>2, <2>5, <3>1 DEF PictureInv, OrderInv, Sorted
  <2>9. WantInv' /\ PrepInv' /\ ScreenInv'
    <3>1. WantInv'
      BY <1>1, <1>2, <2>4, <2>5, <2>6 DEF PictureInv, WantInv, Displaying
    <3>2. PrepInv'  BY <1>1, <1>2, <2>4, <2>5 DEF PictureInv, PrepInv
    <3>3. ScreenInv'  BY <1>1, <1>2, <2>7 DEF PictureInv, ScreenInv
    <3> QED  BY <3>1, <3>2, <3>3
  <2>10. OnceInv'
    <3>1. pc'[Overlap] = "idle"  BY <1>1, <1>2, <2>1 DEF Moves, PictureInv, OnceInv
    <3>2. Displaying' \subseteq Displaying  BY <2>6 DEF Displaying
    <3> QED  BY <1>1, <1>2, <2>3, <3>1, <3>2 DEF PictureInv, OnceInv
  <2> QED  BY <2>8, <2>9, <2>10 DEF PictureInv
<1> QED  BY <1>3, <1>4

\* The calm steps of the queue's thread.
LEMMA PictureWaits ==
  ASSUME Presents, NEW p \in Threads \cup {Queue},
         \/ ShowLock(p)
         \/ p = Queue /\ (StartWait \/ TimeOut \/ PrepareLock \/ ExitLock)
  PROVE  PictureInv'
<1> USE Distinctness DEF pqtVars, localVars, pqVars
<1>1. /\ UNCHANGED <<list, todo, next, earliest, time, prep, back, screen, disp, overlapped, due>>
      /\ want' = want /\ exit' = exit /\ pqHandle' = pqHandle
      /\ p \in Procs /\ p # Overlap
  BY DEF ShowLock, StartWait, TimeOut, PrepareLock, ExitLock, surfVars, Procs
<1>2. PictureInv /\ list \in Seq(Surfaces)  BY PresentsType DEF Presents
<1>3. CASE ShowLock(p)
  <2>1. Moves(p, "showing", arg[p]) /\ pc[p] = "show"
    BY <1>1, <1>3, BaseShowLock DEF Presents, ShowLock
  <2> QED  BY <1>1, <1>2, <2>1, CalmInv DEF Scans, Shows, Gone, DisplaySteps
<1>4. ASSUME p = Queue, StartWait PROVE PictureInv'
  <2>1. Moves(p, "wait", arg[p]) /\ pc[p] = "start"
    BY <1>1, <1>4, BaseStartWait DEF Presents, StartWait
  <2> QED  BY <1>1, <1>2, <1>4, <2>1, CalmInv DEF Scans, Shows, Gone
<1>5. ASSUME p = Queue, TimeOut PROVE PictureInv'
  <2>1. Moves(p, "timed_out", arg[p]) /\ pc[p] = "wait"
    BY <1>1, <1>5, BaseTimeOut DEF Presents, TimeOut
  <2> QED  BY <1>1, <1>2, <1>5, <2>1, CalmInv DEF Scans, Shows, Gone
<1>6. ASSUME p = Queue, PrepareLock PROVE PictureInv'
  <2>1. Moves(p, "preparing", arg[p]) /\ pc[p] = "prepare"
    BY <1>1, <1>6, BasePrepareLock DEF Presents, PrepareLock
  <2> QED  BY <1>1, <1>2, <1>6, <2>1, CalmInv DEF Scans, Shows, Gone
<1>7. ASSUME p = Queue, ExitLock PROVE PictureInv'
  <2>1. Moves(p, "exit_idle", arg[p]) /\ pc[p] = "exit"
    BY <1>1, <1>7, BaseExitLock DEF Presents, ExitLock
  <2>2. exit  BY <1>2, <1>7, <2>1 DEF PictureInv, OnceInv, Gone
  <2> QED  BY <1>1, <1>2, <1>7, <2>1, <2>2, CalmInv DEF Scans, Shows, Gone
<1> QED  BY <1>3, <1>4, <1>5, <1>6, <1>7

-----------------------------------------------------------------------------
(* The steps that queue.                                                   *)

\* What is next is queued.
LEMMA FirstIs ==
  ASSUME BaseInv, SInv, \A s \in Surfaces : status[s] # "queued"
  PROVE  First = None /\ list = <<>> /\ todo = <<>>
<1>1. Listed = {}  BY ListedType DEF SInv, StatusInv
<1>2. list \in Seq(Surfaces) /\ todo \in Seq(Surfaces)  BY DEF BaseInv, TypeOK
<1>3. list = <<>> /\ todo = <<>>  BY <1>1, <1>2, HeadElems, ListedIs
<1>4. arg[Queue] # None => pc[Queue] = "replacing"
  BY ArgType, Distinctness DEF SInv, StatusInv
<1> QED  BY <1>3, <1>4 DEF First

LEMMA PictureDisplay ==
  ASSUME Presents, NEW t \in Threads, NEW s \in Surfaces, NEW at \in 0 .. MaxTime, Display(t, s, at)
  PROVE  PictureInv'
<1> USE Distinctness DEF pqtVars, localVars, Presents
<1>1. /\ pc[t] = "idle" /\ pqHandle /\ want' = [want EXCEPT ![t] = at]
      /\ UNCHANGED <<list, todo, next, earliest, time, prep, back, screen, disp, overlapped, due,
                     exit, pqHandle, status>>
  BY DEF Display
<1>2. Displaying = {} /\ \A x \in Surfaces : status[x] = "queued" => at > 0 /\ due[x] <= at
  BY DEF Display, MayDisplay, Orderly, Disorder
<1>3. Moves(t, "display", s) /\ t \in Procs  BY BaseDisplay
<1>4. First' = First  BY <1>1, <1>3, FirstStays
<1>5. pc[Queue] \notin Gone /\ SInv
  BY <1>1 DEF PictureInv, OnceInv, Gone
<1>6. /\ pc'[Queue] \notin Gone
      /\ pc'[Queue] \in Scans <=> pc[Queue] \in Scans
      /\ pc'[Queue] \in {"prepare", "preparing"} <=> pc[Queue] \in {"prepare", "preparing"}
  BY <1>3, <1>5 DEF Moves, Scans, Shows, Gone
<1>7. \A u \in Threads : u \in Displaying' <=> u = t
  BY <1>2, <1>3 DEF Displaying, Moves, DisplaySteps
<1>8. want'[t] = at /\ pc'[t] = "display"
  BY <1>1, <1>3 DEF BaseInv, TypeOK, Moves
<1>9. OrderInv'  BY <1>1, <1>5, <1>6 DEF PictureInv, OrderInv, Sorted
<1>10. at = 0 => First = None /\ prep = None
  <2> SUFFICES ASSUME at = 0 PROVE First = None /\ prep = None  OBVIOUS
  <2>1. First = None  BY <1>2, <1>5, FirstIs
  <2> QED  BY <1>5, <2>1 DEF PictureInv, PrepInv
<1>11. WantInv'
  <2>1. \A a \in Elems(list) \cup Elems(todo) : due[a] <= at
    BY <1>2, <1>5, ListedIs, ListedType DEF SInv, StatusInv
  <2> SUFFICES ASSUME NEW u \in Displaying'
               PROVE  /\ want'[u] = 0 => prep' = None
                      /\ pc'[u] \in Shows => want'[u] = 0
                      /\ IF want'[u] = 0 THEN First' = None
                         ELSE \A a \in Elems(list') \cup Elems(todo') : due'[a] <= want'[u]
    BY DEF WantInv
  <2>2. u = t  BY <1>7 DEF Displaying
  <2> QED  BY <1>1, <1>4, <1>8, <1>10, <2>1, <2>2 DEF Shows
<1>12. PrepInv'  BY <1>1, <1>4, <1>5 DEF PictureInv, PrepInv
<1>13. ScreenInv'
  <2>1. \A q \in Procs : (pc'[q] = "replacing" <=> pc[q] = "replacing")
                         /\ (pc'[q] = "replacing" => arg'[q] = arg[q])
    BY <1>1, <1>3 DEF Moves
  <2> QED  BY <1>1, <2>1 DEF PictureInv, ScreenInv
<1>14. OnceInv'
  <2>1. pc'[Overlap] = "idle"  BY <1>3 DEF PictureInv, OnceInv, Moves
  <2>2. \A u \in Threads : pc'[u] = "close" => pc[u] = "close"  BY <1>3 DEF Moves
  <2>3. \A u, v \in Displaying' : u = v  BY <1>7 DEF Displaying
  <2> QED  BY <1>1, <1>6, <2>1, <2>2, <2>3 DEF PictureInv, OnceInv
<1> QED  BY <1>9, <1>11, <1>12, <1>13, <1>14 DEF PictureInv

\* A queue in order stays so when a later surface is put at its end.
LEMMA AppendSorted ==
  ASSUME NEW q \in Seq(Surfaces), NEW s \in Surfaces, \A a \in Elems(q) : due'[a] = due[a],
         Sorted(q), \A a \in Elems(q) : due[a] <= due'[s],
         due' \in [Surfaces -> 0 .. MaxTime]
  PROVE  LET r == Append(q, s)
         IN  \A i, j \in DOMAIN r : i < j => due'[r[i]] <= due'[r[j]]
<1> DEFINE r == Append(q, s)
<1>1. /\ Len(q) \in Nat /\ DOMAIN q = 1 .. Len(q) /\ DOMAIN r = 1 .. Len(q) + 1
      /\ r[Len(q) + 1] = s /\ \A i \in 1 .. Len(q) : r[i] = q[i]
  OBVIOUS
<1> HIDE DEF r
<1> SUFFICES ASSUME NEW i \in 1 .. Len(q) + 1, NEW j \in 1 .. Len(q) + 1, i < j
             PROVE  due'[r[i]] <= due'[r[j]]
  BY <1>1 DEF r
<1>2. i \in 1 .. Len(q)  BY <1>1
<1>3. r[i] \in Elems(q)  BY <1>1, <1>2 DEF Elems
<1>4. CASE j = Len(q) + 1  BY <1>1, <1>3, <1>4
<1>5. CASE j # Len(q) + 1
  <2>1. j \in 1 .. Len(q)  BY <1>1, <1>5
  <2>2. r[j] \in Elems(q) /\ r[i] = q[i] /\ r[j] = q[j]  BY <1>1, <1>2, <2>1 DEF Elems
  <2>3. due[q[i]] <= due[q[j]]  BY <1>1, <1>2, <2>1 DEF Sorted
  <2> QED  BY <1>3, <2>2, <2>3
<1> QED  BY <1>4, <1>5

LEMMA AppendFirst ==
  ASSUME NEW q \in Seq(Surfaces), NEW s \in Surfaces
  PROVE  Append(q, s) # <<>> /\ Append(q, s)[1] = IF q = <<>> THEN s ELSE q[1]
<1> DEFINE r == Append(q, s)
<1>1. /\ Len(q) \in Nat /\ Len(r) = Len(q) + 1 /\ r \in Seq(Surfaces)
      /\ r[Len(q) + 1] = s /\ \A i \in 1 .. Len(q) : r[i] = q[i]
      /\ q = <<>> <=> Len(q) = 0
  OBVIOUS
<1>2. Len(<<>>) = 0  OBVIOUS
<1> HIDE DEF r
<1>3. r # <<>>  BY <1>1, <1>2
<1>4. CASE Len(q) = 0
  <2>1. r[1] = s  BY <1>1, <1>4
  <2> QED  BY <1>1, <1>3, <1>4, <2>1 DEF r
<1>5. CASE Len(q) # 0
  <2>1. 1 \in 1 .. Len(q)  BY <1>1, <1>5
  <2> QED  BY <1>1, <1>3, <1>5, <2>1 DEF r
<1> QED  BY <1>4, <1>5

LEMMA PictureEnqueue ==
  ASSUME Presents, NEW t \in Threads, Enqueue(t)
  PROVE  PictureInv'
<1> USE Distinctness DEF pqtVars, localVars, env, Presents
<1> DEFINE s == arg[t]
<1>1. /\ pc[t] = "lock_surf" /\ status[s] # "queued" /\ want[t] # 0
      /\ due' = [due EXCEPT ![s] = want[t]]
      /\ list' = Append(list, s)
      /\ UNCHANGED <<todo, next, earliest, time, prep, back, screen, disp, overlapped, pqHandle, exit>>
  BY DEF Enqueue, DisplayReturn
<1>2. Moves(t, Left, None)  BY BaseEnqueue
<1>3. s \in Surfaces  BY <1>1, ArgType DEF InCall, DisplaySteps
<1>4. Left \in {"join", "idle"}  BY DEF Left
<1> HIDE DEF Left, s
<1>5. \A u \in Displaying : u = t
  BY <1>1 DEF PictureInv, OnceInv, Displaying, DisplaySteps
<1>6. \A u \in Displaying' : FALSE
  <2> SUFFICES ASSUME NEW u \in Threads, pc'[u] \in DisplaySteps PROVE FALSE
    BY DEF Displaying
  <2>1. u # t  BY <1>2, <1>4 DEF Moves, DisplaySteps
  <2>2. pc[u] \in DisplaySteps  BY <1>2, <2>1 DEF Moves, DisplaySteps
  <2> QED  BY <1>5, <2>1, <2>2 DEF Displaying
<1>7. arg[Queue] = None /\ todo = <<>> /\ pc[Queue] \notin Scans \cup {"prepare", "preparing"}
  <2>1. pc[Queue] \notin PqSteps(Queue)  BY <1>1, LockOwner DEF PqSteps
  <2> QED  BY <2>1, QueueIdle DEF PqSteps, Scans
<1>8. /\ pc'[Queue] \in Gone <=> pc[Queue] \in Gone
      /\ pc'[Queue] \notin Scans \cup {"prepare", "preparing"} /\ arg'[Queue] = None
  BY <1>2, <1>7 DEF Moves, Gone, Scans, Shows
<1>9. list \in Seq(Surfaces) /\ due' \in [Surfaces -> 0 .. MaxTime]
  BY BaseEnqueue DEF BaseInv, TypeOK
<1>10. OrderInv'
  <2> SUFFICES ASSUME pc[Queue] \notin Gone PROVE OrderInv'  BY <1>8 DEF OrderInv
  <2>1. SInv  BY DEF Gone
  <2>2. s \notin Elems(list)  BY <1>1, <1>3, <2>1, ListedIs DEF SInv, StatusInv
  <2>3. \A a \in Elems(list) : a \in Surfaces  BY ListedType, ListedIs
  <2>4. due \in [Surfaces -> 0 .. MaxTime]  BY DEF BaseInv, TypeOK
  <2>5. due'[s] = want[t] /\ \A a \in Elems(list) : due'[a] = due[a]
    BY <1>1, <1>3, <2>2, <2>3, <2>4
  <2>6. \A a \in Elems(list) : due[a] <= want[t]
    BY <1>1 DEF PictureInv, WantInv, Displaying, DisplaySteps
  <2>7. Sorted(list)  BY DEF PictureInv, OrderInv
  <2>8. Sorted(list)'
    BY <1>1, <1>3, <1>9, <2>5, <2>6, <2>7, AppendSorted DEF Sorted
  <2>9. Elems(todo)' = {} /\ Sorted(todo)'
    BY <1>1, <1>7 DEF Elems, Sorted
  <2> QED  BY <1>8, <2>8, <2>9 DEF OrderInv
<1>11. WantInv'  BY <1>6 DEF WantInv
<1>12. PrepInv'
  <2>1. prep # None /\ pc[Queue] \notin Gone => First' = prep
    <3> SUFFICES ASSUME prep # None, pc[Queue] \notin Gone PROVE First' = prep  OBVIOUS
    <3>1. First = prep  BY DEF PictureInv, PrepInv
    <3>2. list # <<>> /\ list[1] = prep  BY <1>7, <3>1 DEF First
    <3>3. list' # <<>> /\ list'[1] = list[1]  BY <1>1, <1>3, <1>9, <3>2, AppendFirst
    <3> QED  BY <1>8, <3>2, <3>3 DEF First
  <2> QED  BY <1>1, <1>8, <2>1 DEF PictureInv, PrepInv
<1>13. ScreenInv'
  <2>1. \A q \in Procs : (pc'[q] = "replacing" <=> pc[q] = "replacing")
                         /\ (pc'[q] = "replacing" => arg'[q] = arg[q])
    BY <1>1, <1>2, <1>4 DEF Moves
  <2> QED  BY <1>1, <2>1 DEF PictureInv, ScreenInv
<1>14. OnceInv'
  <2>1. pc'[Overlap] = "idle"  BY <1>2 DEF PictureInv, OnceInv, Moves
  <2>2. \A u \in Threads : pc'[u] = "close" => pc[u] = "close"  BY <1>2, <1>4 DEF Moves
  <2> QED  BY <1>1, <1>6, <1>8, <2>1, <2>2 DEF PictureInv, OnceInv
<1> QED  BY <1>10, <1>11, <1>12, <1>13, <1>14 DEF PictureInv

-----------------------------------------------------------------------------
(* The two halves of a display.                                            *)

\* Who shows a surface shows the one that is prepared, if any is.
LEMMA PictureShown ==
  ASSUME Presents, NEW p \in Threads \cup {Queue}, ShowPicture(p)
  PROVE  prep' = None /\ screen' = arg[p] /\ (p = Queue => First # None)
<1> USE Distinctness DEF Presents
<1>1. pc[p] = "showing" /\ p \in Procs  BY DEF ShowPicture, Procs
<1>2. arg[p] \in Surfaces
  BY <1>1, ArgType DEF BaseInv, StepInv, Fits, InCall, DisplaySteps, Shows
<1>3. p = Queue => First = arg[p]  BY <1>1, <1>2 DEF First
<1>4. prep \in {None, arg[p]} /\ (prep = arg[p] => back = arg[p])
  <2>1. CASE p = Queue
    BY <1>1, <1>2, <1>3, <2>1 DEF PictureInv, PrepInv, Gone
  <2>2. CASE p \in Threads
    <3>1. p \in Displaying /\ pc[p] \in Shows  BY <1>1, <2>2 DEF Displaying, DisplaySteps, Shows
    <3>2. prep = None  BY <3>1 DEF PictureInv, WantInv
    <3> QED  BY <1>2, <3>2
  <2> QED  BY <2>1, <2>2
<1>5. UseDri <=> ForceDri  BY DEF PictureInv, OnceInv, UseDri
<1>6. CASE ForceDri
  <2>1. UpdateDri(arg[p], FALSE) /\ screen' = back'  BY <1>5, <1>6 DEF ShowPicture
  <2> QED  BY <1>2, <1>3, <1>4, <2>1 DEF UpdateDri
<1>7. CASE ~ForceDri
  <2>1. screen' = arg[p] /\ prep' = prep  BY <1>5, <1>7 DEF ShowPicture
  <2>2. prep = None  BY <1>7 DEF PictureInv, OnceInv
  <2> QED  BY <1>2, <1>3, <2>1, <2>2
<1> QED  BY <1>6, <1>7

LEMMA PictureShowPicture ==
  ASSUME Presents, NEW p \in Threads \cup {Queue}, ShowPicture(p)
  PROVE  PictureInv'
<1> USE Distinctness DEF Presents
<1>1. /\ pc[p] = "showing" /\ p \in Procs /\ p # Overlap
      /\ UNCHANGED <<due, list, todo, next, earliest, time, disp, overlapped, pqHandle, exit, want>>
  BY DEF ShowPicture, Procs, pqVars, localVars, env
<1>2. Moves(p, "replacing", arg[p])  BY <1>1, BaseShowPicture
<1>3. prep' = None /\ screen' = arg[p] /\ (p = Queue => First # None)  BY PictureShown
<1>4. /\ pc'[Queue] \in Gone <=> pc[Queue] \in Gone
      /\ pc'[Queue] \in Scans <=> pc[Queue] \in Scans
      /\ pc'[Queue] \in {"prepare", "preparing"} <=> pc[Queue] \in {"prepare", "preparing"}
  BY <1>1, <1>2 DEF Moves, Gone, Scans, Shows
<1>5. \A t \in Threads : /\ pc'[t] \in DisplaySteps <=> pc[t] \in DisplaySteps
                         /\ pc'[t] \in Shows <=> pc[t] \in Shows
                         /\ pc'[t] = "close" => pc[t] = "close"
  BY <1>1, <1>2 DEF Moves, DisplaySteps, Shows
<1>6. OrderInv'  BY <1>1, <1>4 DEF PictureInv, OrderInv, Sorted
<1>7. WantInv'
  <2> SUFFICES ASSUME NEW t \in Displaying'
               PROVE  /\ want'[t] = 0 => prep' = None
                      /\ pc'[t] \in Shows => want'[t] = 0
                      /\ pc'[Queue] \notin Gone =>
                           IF want'[t] = 0 THEN First' = None
                           ELSE \A a \in Elems(list') \cup Elems(todo') : due'[a] <= want'[t]
    BY DEF WantInv
  <2>1. t \in Displaying  BY <1>5 DEF Displaying
  <2>2. /\ pc[t] \in Shows => want[t] = 0
        /\ pc[Queue] \notin Gone =>
             IF want[t] = 0 THEN First = None
             ELSE \A a \in Elems(list) \cup Elems(todo) : due[a] <= want[t]
    BY <2>1 DEF PictureInv, WantInv
  <2>3. CASE p # Queue
    <3>1. First' = First  BY <1>1, <1>2, <2>3, FirstStays
    <3> QED  BY <1>1, <1>3, <1>4, <1>5, <2>1, <2>2, <3>1 DEF Displaying
  <2>4. CASE p = Queue
    <3>1. want[t] # 0  BY <1>1, <1>3, <2>2, <2>4 DEF Gone
    <3> QED  BY <1>1, <1>4, <1>5, <2>1, <2>2, <3>1 DEF Displaying
  <2> QED  BY <2>3, <2>4
<1>8. PrepInv'  BY <1>3 DEF PrepInv
<1>9. ScreenInv'
  <2>1. \A q \in Procs : q # p => pc[q] # "replacing"  BY <1>1, LockOwner DEF PqtSteps
  <2>2. \A q \in Procs : pc'[q] = "replacing" => q = p  BY <1>1, <1>2, <2>1 DEF Moves
  <2> QED  BY <1>1, <1>2, <1>3, <2>2 DEF ScreenInv, Moves
<1>10. OnceInv'
  <2>1. pc'[Overlap] = "idle"  BY <1>1, <1>2 DEF PictureInv, OnceInv, Moves
  <2> QED  BY <1>1, <1>3, <1>4, <1>5, <2>1 DEF PictureInv, OnceInv, Displaying
<1> QED  BY <1>6, <1>7, <1>8, <1>9, <1>10 DEF PictureInv

\* disp_surf becomes the surface whose picture is on screen.
LEMMA PictureReplace ==
  ASSUME Presents, NEW p \in Threads \cup {Queue}, ShowOnly(p) \/ Replace(p)
  PROVE  PictureInv'
<1> USE Distinctness DEF Presents
<1>1. /\ pc[p] = "replacing" /\ p \in Procs /\ p # Overlap /\ disp' = arg[p]
      /\ UNCHANGED <<due, list, todo, next, earliest, time, prep, back, screen, overlapped,
                     pqHandle, exit>>
      /\ want' = [t \in Threads |-> IF t = p THEN 0 ELSE want[t]]
  BY DEF ShowOnly, Replace, Shown, Procs, localVars
<1>2. Moves(p, After(p), None)  BY <1>1, BaseReplace
<1>3. /\ p = Queue => After(p) = "scan"
      /\ p \in Threads => After(p) \in {"join", "idle"}
  BY DEF After, Left
<1> HIDE DEF After
<1>4. First' = First
  <2>1. CASE p # Queue  BY <1>1, <1>2, <2>1, FirstStays
  <2>2. CASE p = Queue  BY <1>1, <1>2, <2>2 DEF First, Moves
  <2> QED  BY <2>1, <2>2
<1>5. /\ pc'[Queue] \in Gone <=> pc[Queue] \in Gone
      /\ pc'[Queue] \in Scans <=> pc[Queue] \in Scans
      /\ pc'[Queue] \in {"prepare", "preparing"} <=> pc[Queue] \in {"prepare", "preparing"}
  BY <1>1, <1>2, <1>3 DEF Moves, Gone, Scans, Shows
<1>6. \A t \in Threads : /\ pc'[t] \in DisplaySteps => t # p /\ pc'[t] = pc[t]
                         /\ pc'[t] = "close" => pc[t] = "close"
  BY <1>1, <1>2, <1>3 DEF Moves, DisplaySteps
<1>7. OrderInv'  BY <1>1, <1>5 DEF PictureInv, OrderInv, Sorted
<1>8. WantInv'
  <2>1. \A t \in Displaying' : t \in Displaying /\ pc'[t] = pc[t] /\ want'[t] = want[t]
    BY <1>1, <1>6 DEF Displaying
  <2> QED  BY <1>1, <1>4, <1>5, <2>1 DEF PictureInv, WantInv
<1>9. PrepInv'  BY <1>1, <1>4, <1>5 DEF PictureInv, PrepInv
<1>10. ScreenInv'
  <2>1. \A q \in Procs : q # p => pc[q] # "replacing"  BY <1>1, LockOwner DEF PqtSteps
  <2>2. \A q \in Procs : pc'[q] # "replacing"  BY <1>1, <1>2, <1>3, <2>1 DEF Moves
  <2>3. screen = arg[p]  BY <1>1 DEF PictureInv, ScreenInv
  <2> QED  BY <1>1, <2>2, <2>3 DEF ScreenInv
<1>11. OnceInv'
  <2>1. pc'[Overlap] = "idle"  BY <1>1, <1>2 DEF PictureInv, OnceInv, Moves
  <2>2. Displaying' \subseteq Displaying  BY <1>6 DEF Displaying
  <2> QED  BY <1>1, <1>5, <1>6, <2>1, <2>2 DEF PictureInv, OnceInv
<1> QED  BY <1>7, <1>8, <1>9, <1>10, <1>11 DEF PictureInv

-----------------------------------------------------------------------------
(* The steps of the queue's thread that look at the queue.                 *)

LEMMA HeadLeast ==
  ASSUME NEW q \in Seq(Surfaces), q # <<>>, Sorted(q), due \in [Surfaces -> 0 .. MaxTime]
  PROVE  /\ Head(q) = q[1] /\ Sorted(Tail(q))
         /\ \A b \in Elems(q) : due[Head(q)] <= due[b]
<1>1. /\ Len(q) \in Nat \ {0} /\ DOMAIN q = 1 .. Len(q) /\ Head(q) = q[1]
      /\ DOMAIN Tail(q) = 1 .. Len(q) - 1
      /\ \A i \in 1 .. Len(q) - 1 : Tail(q)[i] = q[i + 1]
      /\ \A i \in 1 .. Len(q) : q[i] \in Surfaces
  OBVIOUS
<1>2. Sorted(Tail(q))
  <2> SUFFICES ASSUME NEW i \in 1 .. Len(q) - 1, NEW j \in 1 .. Len(q) - 1, i < j
               PROVE  due[Tail(q)[i]] <= due[Tail(q)[j]]
    BY <1>1 DEF Sorted
  <2>1. i + 1 \in DOMAIN q /\ j + 1 \in DOMAIN q /\ i + 1 < j + 1  BY <1>1
  <2>2. due[q[i + 1]] <= due[q[j + 1]]  BY <2>1 DEF Sorted
  <2> QED  BY <1>1, <2>2
<1>3. ASSUME NEW i \in 1 .. Len(q) PROVE due[q[1]] <= due[q[i]]
  <2>1. CASE i = 1
    <3>1. due[q[1]] \in Int  BY <1>1
    <3> QED  BY <2>1, <3>1
  <2>2. CASE i # 1
    <3>1. 1 \in DOMAIN q /\ i \in DOMAIN q /\ 1 < i  BY <1>1, <2>2
    <3> QED  BY <3>1 DEF Sorted
  <2> QED  BY <2>1, <2>2
<1> QED  BY <1>1, <1>2, <1>3 DEF Elems

\* The others stay where they are, or are woken.
LEMMA QueueStep ==
  ASSUME PictureInv, NEW x, NEW a, Moves(Queue, x, a), pc[Queue] # "replacing", x # "replacing",
         UNCHANGED <<screen, overlapped, exit, pqHandle, want>>, disp' \in {disp, None},
         x \in Gone => exit, ~ForceDri => prep' = prep
  PROVE  /\ ScreenInv' /\ OnceInv'
         /\ \A t \in Displaying' : t \in Displaying /\ pc'[t] = pc[t] /\ want'[t] = want[t]
<1> USE Distinctness
<1>1. \A t \in Threads : /\ pc'[t] \in DisplaySteps => pc'[t] = pc[t]
                         /\ pc'[t] = "close" => pc[t] = "close"
  BY DEF Moves, DisplaySteps
<1>2. \A t \in Displaying' : t \in Displaying /\ pc'[t] = pc[t] /\ want'[t] = want[t]
  BY <1>1 DEF Displaying
<1>3. \A q \in Procs : (pc'[q] = "replacing" <=> pc[q] = "replacing")
                       /\ (pc'[q] = "replacing" => arg'[q] = arg[q])
  BY DEF Moves
<1>4. ScreenInv'  BY <1>3 DEF PictureInv, ScreenInv
<1>5. OnceInv'
  <2>1. pc'[Overlap] = "idle" /\ pc'[Queue] = x  BY DEF PictureInv, OnceInv, Moves
  <2> QED  BY <1>1, <1>2, <2>1 DEF PictureInv, OnceInv
<1> QED  BY <1>2, <1>4, <1>5

LEMMA PictureResume ==
  ASSUME Presents, Resume
  PROVE  PictureInv'
<1> USE Distinctness DEF Presents
<1> DEFINE x == IF exit THEN "exit" ELSE "scan"
<1>1. /\ pc[Queue] \in {"woken", "timed_out"}
      /\ UNCHANGED <<due, prep, back, screen, disp, overlapped, pqHandle, exit, want>>
  BY DEF Resume, surfVars, pqtVars
<1>2. Moves(Queue, x, arg[Queue])  BY BaseResume
<1>3. x \in {"exit", "scan"} /\ (x \in Gone <=> exit) /\ (x = "scan" <=> ~exit)  BY DEF BaseInv, TypeOK, Gone
<1>4. arg[Queue] = None /\ todo = <<>>  BY <1>1, QueueIdle DEF Shows
<1>5. arg'[Queue] = None /\ pc'[Queue] = x  BY <1>2, <1>4 DEF Moves
<1> HIDE DEF x
<1>6. /\ ScreenInv' /\ OnceInv'
      /\ \A t \in Displaying' : t \in Displaying /\ pc'[t] = pc[t] /\ want'[t] = want[t]
  BY <1>1, <1>2, <1>3, QueueStep
<1>7. CASE exit
  <2>1. pc'[Queue] \in Gone  BY <1>3, <1>5, <1>7
  <2> QED  BY <1>1, <1>6, <2>1 DEF PictureInv, OrderInv, WantInv, PrepInv
<1>8. CASE ~exit
  <2>1. todo' = list /\ list' = <<>> /\ earliest' = Never /\ next' = None
    BY <1>8 DEF Resume
  <2>2. First' = First  BY <1>1, <1>4, <1>5, <2>1 DEF First
  <2>3. Elems(todo') = Elems(list) /\ Elems(list') = {} /\ Elems(todo) = {}
    BY <1>4, <2>1, EmptyElems
  <2>4. pc[Queue] \notin Gone /\ pc'[Queue] = "scan"  BY <1>1, <1>3, <1>5, <1>8 DEF Gone
  <2>5. OrderInv'
    <3>1. Sorted(list)' /\ Sorted(todo)'
      BY <1>1, <2>1, <2>4 DEF PictureInv, OrderInv, Sorted
    <3> QED  BY <2>1, <2>3, <2>4, <3>1 DEF OrderInv
  <2>6. WantInv'
    BY <1>1, <1>6, <2>2, <2>3, <2>4 DEF PictureInv, WantInv
  <2>7. PrepInv'  BY <1>1, <2>2, <2>4 DEF PictureInv, PrepInv
  <2> QED  BY <1>6, <2>5, <2>6, <2>7 DEF PictureInv
<1> QED  BY <1>7, <1>8

\* What is not due goes to the list behind what is not due either.
LEMMA PictureScanLater ==
  ASSUME Presents, ScanLater
  PROVE  PictureInv'
<1> USE Distinctness DEF Presents
<1> DEFINE s == Head(todo)
<1>1. /\ pc[Queue] = "scan" /\ todo # <<>> /\ due[s] > time
      /\ todo' = Tail(todo) /\ list' = Append(list, s)
      /\ IF due[s] < earliest THEN earliest' = due[s] /\ next' = s
                              ELSE UNCHANGED <<earliest, next>>
      /\ UNCHANGED <<due, prep, back, screen, disp, overlapped, pqHandle, exit, want, time, pc, arg>>
  BY DEF ScanLater, Scanning, surfVars, pqtVars, callVars
<1>2. Moves(Queue, "scan", arg[Queue])  BY BaseScanLater
<1>3. /\ ScreenInv' /\ OnceInv'
      /\ \A t \in Displaying' : t \in Displaying /\ pc'[t] = pc[t] /\ want'[t] = want[t]
  BY <1>1, <1>2, QueueStep DEF Gone
<1>4. list \in Seq(Surfaces) /\ todo \in Seq(Surfaces) /\ due \in [Surfaces -> 0 .. MaxTime]
  BY DEF BaseInv, TypeOK
<1>5. /\ s \in Surfaces /\ Elems(todo) = {s} \cup Elems(todo')
  BY <1>1, <1>4, HeadElems
<1>6. pc[Queue] \notin Gone /\ pc[Queue] \in Scans  BY <1>1 DEF Gone, Scans
<1>7. /\ Sorted(list) /\ Sorted(todo)
      /\ \A a \in Elems(list), b \in Elems(todo) : due[a] <= due[b]
      /\ \A a \in Elems(list) : due[a] > time
      /\ list = <<>> => earliest = Never /\ next = None
      /\ list # <<>> => earliest = due[list[1]] /\ next = list[1]
  BY <1>6 DEF PictureInv, OrderInv
<1>8. s = todo[1] /\ Sorted(Tail(todo)) /\ \A b \in Elems(todo) : due[s] <= due[b]
  BY <1>1, <1>4, <1>7, HeadLeast
<1>9. Elems(list') = Elems(list) \cup {s}  BY <1>1, <1>4, <1>5, AppendElems
<1>10. list' # <<>> /\ list'[1] = IF list = <<>> THEN s ELSE list[1]
  BY <1>1, <1>4, <1>5, AppendFirst
<1> HIDE DEF s
<1>11. First' = First
  BY <1>1, <1>8, <1>10 DEF First
<1>12. OrderInv'
  <2>1. Sorted(list)'
    BY <1>1, <1>4, <1>5, <1>7, AppendSorted DEF Sorted
  <2>2. Sorted(todo)'  BY <1>1, <1>8 DEF Sorted
  <2>3. \A a \in Elems(list'), b \in Elems(todo') : due'[a] <= due'[b]
    BY <1>1, <1>5, <1>7, <1>8, <1>9
  <2>4. \A a \in Elems(list') : due'[a] > time'  BY <1>1, <1>7, <1>9
  <2>5. earliest' = due'[list'[1]] /\ next' = list'[1]
    <3>1. CASE list = <<>>
      <4>1. due[s] < Never  BY <1>4, <1>5, PresentationAssumption DEF Never
      <4> QED  BY <1>1, <1>7, <1>10, <3>1, <4>1
    <3>2. CASE list # <<>>
      <4>1. 1 \in DOMAIN list  BY <1>4, <3>2
      <4>2. list[1] \in Elems(list) /\ list[1] \in Surfaces  BY <1>4, <4>1 DEF Elems
      <4>3. due[list[1]] <= due[s]  BY <1>5, <1>7, <4>2
      <4>4. ~(due[s] < earliest)  BY <1>4, <1>5, <1>7, <3>2, <4>2, <4>3
      <4> QED  BY <1>1, <1>7, <1>10, <3>2, <4>4
    <3> QED  BY <3>1, <3>2
  <2> QED  BY <1>1, <1>10, <2>1, <2>2, <2>3, <2>4, <2>5 DEF OrderInv
<1>13. WantInv'
  <2>1. Elems(list') \cup Elems(todo') = Elems(list) \cup Elems(todo)  BY <1>5, <1>9
  <2> QED  BY <1>1, <1>3, <1>6, <1>11, <2>1 DEF PictureInv, WantInv
<1>14. PrepInv'  BY <1>1, <1>11 DEF PictureInv, PrepInv
<1> QED  BY <1>3, <1>12, <1>13, <1>14 DEF PictureInv

\* A surface that is found due was next: nothing that stays is due.
LEMMA PictureScanDue ==
  ASSUME Presents, ScanDue
  PROVE  PictureInv'
<1> USE Distinctness DEF Presents
<1> DEFINE s == Head(todo)
<1>1. /\ pc[Queue] = "scan" /\ todo # <<>> /\ due[s] <= time
      /\ UNCHANGED <<due, list, prep, back, screen, disp, overlapped, pqHandle, exit, want, time,
                     earliest, next>>
  BY DEF ScanDue, Scanning, surfVars, pqVars, pqtVars
<1>2. PictureInv /\ list \in Seq(Surfaces)  BY PresentsType
<1>3. CASE arg[Queue] # None
  <2>1. Moves(Queue, "show", arg[Queue]) /\ todo' = todo  BY <1>3, BaseScanDue DEF ScanDue
  <2>2. pc[Queue] \in Scans  BY <1>1 DEF Scans
  <2>3. \A r \in Elems(list) \cup Elems(todo) : due'[r] = due[r]  BY <1>1
  <2> QED  BY <1>1, <1>2, <2>1, <2>2, <2>3, CalmInv DEF Gone
<1>4. CASE arg[Queue] = None
  <2>1. Moves(Queue, "scan", s) /\ todo' = Tail(todo) /\ pc' = pc
    BY <1>4, BaseScanDue DEF ScanDue
  <2>2. /\ ScreenInv' /\ OnceInv'
        /\ \A t \in Displaying' : t \in Displaying /\ pc'[t] = pc[t] /\ want'[t] = want[t]
    BY <1>1, <2>1, QueueStep DEF Gone
  <2>3. list \in Seq(Surfaces) /\ todo \in Seq(Surfaces) /\ due \in [Surfaces -> 0 .. MaxTime]
        /\ time \in Int
    BY PresentationAssumption DEF BaseInv, TypeOK, Times, Never
  <2>4. s \in Surfaces /\ Elems(todo) = {s} \cup Elems(todo')
    BY <1>1, <2>1, <2>3, HeadElems
  <2>5. pc[Queue] \notin Gone /\ pc[Queue] \in Scans  BY <1>1 DEF Gone, Scans
  <2>6. /\ Sorted(list) /\ Sorted(todo)
        /\ \A a \in Elems(list), b \in Elems(todo) : due[a] <= due[b]
        /\ \A a \in Elems(list) : due[a] > time
    BY <2>5 DEF PictureInv, OrderInv
  <2>7. s = todo[1] /\ Sorted(Tail(todo))  BY <1>1, <2>3, <2>6, HeadLeast
  <2> HIDE DEF s
  <2>8. list = <<>>
    <3> SUFFICES ASSUME list # <<>> PROVE FALSE  OBVIOUS
    <3>1. 1 \in DOMAIN list  BY <2>3
    <3>2. list[1] \in Elems(list) /\ list[1] \in Surfaces  BY <2>3, <3>1 DEF Elems
    <3>3. due[list[1]] <= due[s] /\ due[list[1]] > time  BY <2>4, <2>6, <3>2
    <3>4. due[list[1]] \in Int /\ due[s] \in Int  BY <2>3, <2>4, <3>2
    <3> QED  BY <1>1, <2>3, <3>3, <3>4
  <2>9. First' = s /\ First = s  BY <1>1, <1>4, <2>1, <2>4, <2>7, <2>8 DEF First, Moves
  <2>10. OrderInv'
    <3>1. Sorted(list)' /\ Sorted(todo)'  BY <1>1, <2>1, <2>6, <2>7 DEF Sorted
    <3>2. Elems(list') = {}  BY <1>1, <2>8, EmptyElems
    <3> QED  BY <1>1, <2>1, <2>5, <2>8, <3>1, <3>2 DEF PictureInv, OrderInv
  <2>11. WantInv'  BY <1>1, <2>1, <2>2, <2>4, <2>5, <2>9 DEF PictureInv, WantInv
  <2>12. PrepInv'  BY <1>1, <2>1, <2>9 DEF PictureInv, PrepInv
  <2> QED  BY <2>2, <2>10, <2>11, <2>12 DEF PictureInv
<1> QED  BY <1>3, <1>4

LEMMA PictureScanEnd ==
  ASSUME Presents, ScanEnd
  PROVE  PictureInv'
<1> USE Distinctness DEF Presents
<1>1. /\ pc[Queue] = "scan" /\ todo = <<>>
      /\ UNCHANGED <<due, list, todo, prep, back, screen, disp, overlapped, pqHandle, exit, want,
                     next, arg>>
  BY DEF ScanEnd, surfVars, pqtVars
<1>2. PictureInv /\ list \in Seq(Surfaces)  BY PresentsType
<1>3. CASE arg[Queue] # None
  <2>1. Moves(Queue, "show", arg[Queue]) /\ UNCHANGED <<time, earliest>>
    BY <1>3, BaseScanEnd DEF ScanEnd
  <2>2. pc[Queue] \in Scans  BY <1>1 DEF Scans
  <2>3. \A r \in Elems(list) \cup Elems(todo) : due'[r] = due[r]  BY <1>1
  <2> QED  BY <1>1, <1>2, <2>1, <2>2, <2>3, CalmInv DEF Gone
<1>4. CASE arg[Queue] = None
  <2> DEFINE x == IF next # None THEN "prepare" ELSE "wait"
  <2>1. Moves(Queue, x, arg[Queue])  BY <1>4, BaseScanEnd
  <2>x. x \in {"prepare", "wait"} /\ (x = "prepare" <=> next # None)  OBVIOUS
  <2> HIDE DEF x
  <2>2. /\ ScreenInv' /\ OnceInv'
        /\ \A t \in Displaying' : t \in Displaying /\ pc'[t] = pc[t] /\ want'[t] = want[t]
    BY <1>1, <2>1, <2>x, QueueStep DEF Gone
  <2>3. pc'[Queue] = x /\ pc[Queue] \notin Gone /\ x \notin Gone /\ x \notin Scans
    BY <1>1, <2>1, <2>x DEF Gone, Scans, Shows, Moves
  <2>4. First' = First  BY <1>1, <2>3, <2>x DEF First
  <2>5. OrderInv'
    <3>1. pc[Queue] \in Scans  BY <1>1 DEF Scans
    <3>2. next # None => list # <<>> /\ next = list[1]
      BY <2>3, <3>1 DEF PictureInv, OrderInv
    <3>3. Sorted(list)' /\ Sorted(todo)'  BY <1>1, <2>3 DEF PictureInv, OrderInv, Sorted
    <3> QED  BY <1>1, <2>3, <2>x, <3>2, <3>3 DEF PictureInv, OrderInv
  <2>6. WantInv'  BY <1>1, <2>2, <2>3, <2>4 DEF PictureInv, WantInv
  <2>7. PrepInv'  BY <1>1, <2>3, <2>4 DEF PictureInv, PrepInv
  <2> QED  BY <2>2, <2>5, <2>6, <2>7 DEF PictureInv
<1> QED  BY <1>3, <1>4

-----------------------------------------------------------------------------
(* The steps of the queue's thread that prepare a picture, and leave.      *)

\* The surface that is shown next is drawn in the DRI buffer; no call shows another now.
LEMMA PicturePrepare ==
  ASSUME Presents, Prepare
  PROVE  PictureInv'
<1> USE Distinctness DEF Presents
<1>1. /\ pc[Queue] = "preparing"
      /\ UNCHANGED <<due, list, todo, screen, disp, overlapped, pqHandle, exit, want, arg>>
  BY DEF Prepare, surfVars
<1>2. Moves(Queue, "wait", arg[Queue])  BY BasePrepare
<1>3. arg[Queue] = None /\ todo = <<>>  BY <1>1, QueueIdle DEF Shows
<1>4. /\ list # <<>> /\ next = list[1] /\ pc[Queue] \notin Gone
  BY <1>1 DEF PictureInv, OrderInv, Gone
<1>5. next # None  BY <1>1 DEF BaseInv, StepInv
<1>6. First = next  BY <1>3, <1>4 DEF First
<1>7. pc'[Queue] = "wait"  BY <1>2 DEF Moves
<1>8. First' = next  BY <1>1, <1>3, <1>4, <1>7 DEF First
<1>9. UseDri <=> ForceDri  BY DEF PictureInv, OnceInv, UseDri
<1>10. /\ ~ForceDri => UNCHANGED <<back, prep>>
       /\ ForceDri => prep' = next /\ back' = next
  <2>1. prep = next => back = next  BY <1>5 DEF PictureInv, PrepInv
  <2> QED  BY <1>9, <2>1 DEF Prepare, UpdateDri
<1>11. /\ ScreenInv' /\ OnceInv'
       /\ \A t \in Displaying' : t \in Displaying /\ pc'[t] = pc[t] /\ want'[t] = want[t]
  BY <1>1, <1>2, <1>10, QueueStep DEF Gone
<1>12. OrderInv'
  BY <1>1, <1>4, <1>7 DEF PictureInv, OrderInv, Sorted, Scans, Shows
<1>13. WantInv'
  <2>1. \A t \in Displaying : want[t] # 0
    BY <1>4, <1>5, <1>6 DEF PictureInv, WantInv
  <2> QED  BY <1>1, <1>4, <1>11, <2>1 DEF PictureInv, WantInv
<1>14. PrepInv'
  BY <1>4, <1>5, <1>8, <1>10 DEF PictureInv, PrepInv, OnceInv
<1> QED  BY <1>11, <1>12, <1>13, <1>14 DEF PictureInv

LEMMA PictureExit ==
  ASSUME Presents, ExitDrop \/ ExitIdle
  PROVE  PictureInv'
<1> USE Distinctness DEF Presents
<1> DEFINE x == pc'[Queue]
<1>1. /\ pc[Queue] \in Gone /\ pc[Queue] # "replacing" /\ disp' \in {disp, None}
      /\ UNCHANGED <<prep, back, screen, overlapped, pqHandle, exit, want>>
  BY DEF ExitDrop, ExitIdle, Gone, pqtVars
<1>2. Moves(Queue, x, arg[Queue]) /\ x \in {"exit", "done"}
  BY BaseExitDrop, BaseExitIdle DEF Moves
<1> HIDE DEF x
<1>3. pc'[Queue] \in Gone /\ exit  BY <1>1, <1>2 DEF Gone, Moves, PictureInv, OnceInv
<1>4. /\ ScreenInv' /\ OnceInv'
      /\ \A t \in Displaying' : t \in Displaying /\ pc'[t] = pc[t] /\ want'[t] = want[t]
  BY <1>1, <1>2, <1>3, QueueStep
<1> QED  BY <1>1, <1>3, <1>4 DEF PictureInv, OrderInv, WantInv, PrepInv

LEMMA PictureStays ==
  ASSUME PictureInv,
         UNCHANGED <<pc, arg, want, list, todo, due, time, earliest, next, prep, back, screen, disp,
                     overlapped, exit, pqHandle>>
  PROVE  PictureInv'
<1>1. First' = First /\ Displaying' = Displaying  BY DEF First, Displaying
<1>2. OrderInv'  BY DEF PictureInv, OrderInv, Sorted
<1>3. WantInv' /\ PrepInv'  BY <1>1 DEF PictureInv, WantInv, PrepInv
<1>4. ScreenInv' /\ OnceInv'  BY <1>1 DEF PictureInv, ScreenInv, OnceInv
<1> QED  BY <1>2, <1>3, <1>4 DEF PictureInv

-----------------------------------------------------------------------------
LEMMA InitPicture == Init => PictureInv
<1> SUFFICES ASSUME Init PROVE PictureInv  OBVIOUS
<1> USE Distinctness DEF Init
<1>1. /\ \A p \in Procs : pc[p] \in {"idle", "start", "wait"} /\ arg[p] = None
      /\ \A p \in Procs \ {Queue} : pc[p] = "idle"
      /\ pc[Queue] \in {"start", "wait"}
  OBVIOUS
<1>2. Displaying = {}  BY <1>1 DEF Displaying, DisplaySteps
<1>3. OrderInv
  <2>1. DOMAIN list = {} /\ DOMAIN todo = {}  OBVIOUS
  <2> QED  BY <1>1, <2>1, EmptyElems DEF OrderInv, Sorted, Scans, Shows
<1>4. WantInv /\ PrepInv /\ ScreenInv  BY <1>1, <1>2 DEF WantInv, PrepInv, ScreenInv
<1>5. OnceInv
  <2>1. pc[Queue] \notin Gone  BY <1>1 DEF Gone
  <2> QED  BY <1>1, <1>2, <2>1 DEF OnceInv
<1> QED  BY <1>3, <1>4, <1>5 DEF PictureInv

LEMMA NextPicture == Presents /\ Next => PictureInv'
<1> SUFFICES ASSUME Presents, Next PROVE PictureInv'  OBVIOUS
<1> USE Distinctness
<1>1. ASSUME NEW p \in Threads \cup {Queue}, ShowSteps(p) PROVE PictureInv'
  BY <1>1, PictureWaits, PictureShowPicture, PictureReplace DEF ShowSteps
<1>2. ASSUME NEW t \in Threads, Call(t) PROVE PictureInv'
  <2>1. ~CreateQueue(t)  BY DEF CreateQueue, Presents, Orderly, Disorder
  <2>2. CASE DestroyQueue(t)  BY <2>2, PictureClose
  <2>3. ASSUME NEW s \in Surfaces, NEW at \in 0 .. MaxTime, Display(t, s, at) PROVE PictureInv'
    BY <2>3, PictureDisplay
  <2>4. ASSUME NEW s \in Surfaces, Block(t, s) PROVE PictureInv'
    BY <2>4, PictureBlocks
  <2>5. ASSUME NEW s \in Surfaces, CreateSurface(t, s) \/ DestroySurface(t, s) PROVE PictureInv'
    BY <2>5, PictureSurfaces
  <2> QED  BY <1>2, <2>1, <2>2, <2>3, <2>4, <2>5 DEF Call
<1>3. ASSUME NEW t \in Threads, DisplayCall(t) PROVE PictureInv'
  BY <1>1, <1>3, PictureCalls, PictureEnqueue DEF DisplayCall
<1>4. ASSUME NEW t \in Threads, BlockCall(t) \/ CloseCall(t) PROVE PictureInv'
  BY <1>4, PictureBlocks, PictureClose DEF CloseCall
<1>5. ASSUME QueueThread PROVE PictureInv'
  BY <1>1, <1>5, PictureWaits, PictureResume, PictureScanLater, PictureScanDue,
     PictureScanEnd, PicturePrepare, PictureExit DEF QueueThread
<1>6. ~OverlapEvent  BY DEF OverlapEvent, Presents, Orderly, Disorder
<1>7. ~ShowSteps(Overlap)
  <2>1. pc[Overlap] = "idle"  BY DEF Presents, PictureInv, OnceInv
  <2> QED  BY <2>1 DEF ShowSteps, ShowLock, ShowPicture, ShowOnly, Replace
<1>8. CASE Tick
  BY <1>8, PictureStays DEF Tick, surfVars, pqVars, pqtVars, callVars, localVars, Presents
<1> QED  BY <1>2, <1>3, <1>4, <1>5, <1>6, <1>7, <1>8 DEF Next

\* Once a display has been carried out the picture on screen is that of the surface that
\* is reported visible, also when pqt_update_dri_buffer skips the blit of the surface that
\* pqt_prepare_dri_surface has prepared (presentation_queue_target.c:494), for every number
\* of threads, surfaces and displays: the buffer is not drawn over in between, for what
\* was prepared is next. The application may display surfaces that are queued or visible,
\* wait in several threads, start late, and destroy the queue while it displays. It
\* displays in the order of the times, destroys no surface that is queued and creates no
\* second queue, and the window is not redrawn: with any of these the order is lost.
THEOREM PictureShownIsOwn ==
  ASSUME \A a \in Admits : a \cap Disorder = {}
  PROVE  Spec => []ShownPictureIsOwn
<1>1. IInv => Orderly  BY DEF IInv, BaseInv, TypeOK, Orderly
<1>2. IInv /\ PictureInv => Presents
  <2> SUFFICES ASSUME IInv, PictureInv PROVE Presents  OBVIOUS
  <2>1. "new_queue" \notin admits  BY <1>1 DEF Orderly, Disorder
  <2>2. pc[Queue] # "done" => SInv  BY <2>1 DEF IInv, Tame, Sane
  <2> QED  BY <1>1, <2>2 DEF IInv, Presents
<1>3. IInv /\ PictureInv /\ [Next]_vars => PictureInv'
  <2>1. CASE Next  BY <1>2, <2>1, NextPicture
  <2>2. CASE UNCHANGED vars
    BY <2>2, PictureStays DEF vars, surfVars, pqVars, pqtVars, callVars, localVars
  <2> QED  BY <2>1, <2>2
<1>4. IInv /\ PictureInv => ShownPictureIsOwn
  <2> SUFFICES ASSUME IInv, PictureInv, pqtLock = None, disp # None PROVE screen = disp
    BY DEF ShownPictureIsOwn
  <2>1. \A p \in Procs : pc[p] \notin PqtSteps
    BY Distinctness DEF IInv, BaseInv, LockInv
  <2> QED  BY <2>1 DEF PictureInv, ScreenInv, PqtSteps
<1> QED  BY <1>3, <1>4, InitPicture, QueueInvariance, PTL DEF Spec
=============================================================================
