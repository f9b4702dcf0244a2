------------------------- MODULE PresentationQueue -------------------------
(***************************************************************************)
(* One presentation queue and its target (presentation_queue.c,            *)
(* presentation_queue_target.c): application threads queue output surfaces *)
(* and wait for them, the queue's thread shows each when its time comes,   *)
(* the target's thread redraws when the window is moved or overlapped.     *)
(*                                                                         *)
(* A step acquires at most one lock that another thread may hold, and does *)
(* everything up to the next such lock.                                    *)
(***************************************************************************)
EXTENDS Integers, Sequences, FiniteSets

CONSTANTS
  Threads,        \* application threads
  Queue, Overlap, \* presentation_queue_thr and pqt_display_thr
  Surfaces,       \* addresses of output surfaces
  None,           \* NULL
  MaxTime,        \* bound on the clock
  MaxRefs,        \* bound on the count of a surface that is displayed; only
                  \* "redisplay" below meets it
  ForceDri,       \* tegra_vdpau_force_dri
  Admits          \* each member is what may happen beyond the ordinary in one
                  \* run of the program: see the rules of the application below;
                  \* "redraw": pqt_display_thr runs (Xv while not overlapped)

ASSUME PresentationAssumption ==
  /\ Queue # Overlap /\ Queue \notin Threads /\ Overlap \notin Threads
  /\ None \notin Surfaces \cup Threads \cup {Queue, Overlap}
  /\ IsFiniteSet(Threads)
  /\ MaxTime \in Nat /\ MaxRefs \in Nat
  /\ ForceDri \in BOOLEAN
  /\ Admits \subseteq SUBSET {"redisplay", "reorder", "two_waiters", "late_start",
                              "late_display", "early_destroy", "new_queue", "redraw"}

VARIABLES
  handle, refcnt,          \* of a surface: in tegra_surfaces[], reference count
  status,                  \* surf->status
  due,                     \* surf->earliest_presentation_time
  surfLock,                \* owner of surf->lock
  list,                    \* pq->surf_list; what a scan has left there so far
  pqLock, pqHandle, pqRefs, exit,     \* the rest of tegra_pq
  pqtLock,                 \* owner of pqt->lock
  disp,                    \* pqt->disp_surf
  prep,                    \* pqt->dri_prep_surf
  back,                    \* the surface whose picture is in pqt->dri_pixbuf
  screen,                  \* the surface whose picture was last put on screen
  overlapped,              \* pqt->overlapped_current
  pc, arg, want,           \* where each thread is, its surface and its time
  todo, time, earliest, next,  \* locals of presentation_queue_thr; arg[Queue] is
                           \* its disp_surf
  now,                     \* get_time()
  admits                   \* the member of Admits that holds

surfVars == <<handle, refcnt, status, due, surfLock>>
pqVars == <<list, pqLock, pqHandle, pqRefs, exit>>
pqtVars == <<pqtLock, disp, prep, back, screen, overlapped>>
callVars == <<pc, arg, want>>
localVars == <<todo, time, earliest, next>>
env == <<now, admits>>
vars == <<surfVars, pqVars, pqtVars, callVars, localVars, env>>

Procs == Threads \cup {Queue, Overlap}
Never == MaxTime + 1   \* UINT64_MAX
Times == 0 .. Never

DisplaySteps == {"display", "lock_surf", "show", "showing", "replacing"}
BlockSteps == {"block", "try", "blocked", "unblocked"}
QueueSteps == {"start", "wait", "woken", "timed_out", "scan", "prepare",
               "preparing", "exit", "exit_idle", "done"}

TypeOK ==
  /\ handle \in [Surfaces -> BOOLEAN] /\ refcnt \in [Surfaces -> Int]
  /\ status \in [Surfaces -> {"idle", "queued", "visible"}]
  /\ due \in [Surfaces -> 0 .. MaxTime]
  /\ surfLock \in [Surfaces -> Procs \cup {None}]
  /\ list \in Seq(Surfaces) /\ todo \in Seq(Surfaces)
  /\ {pqLock, pqtLock} \subseteq Procs \cup {None}
  /\ pqHandle \in BOOLEAN /\ pqRefs \in Nat /\ exit \in BOOLEAN
  /\ {disp, prep, back, screen, next} \subseteq Surfaces \cup {None}
  /\ overlapped \in BOOLEAN
  /\ pc \in [Procs -> DisplaySteps \cup BlockSteps \cup QueueSteps
                      \cup {"idle", "close", "join"}]
  /\ arg \in [Procs -> Surfaces \cup {None}]
  /\ want \in [Threads -> 0 .. MaxTime]
  /\ time \in Times /\ earliest \in Times /\ now \in 0 .. MaxTime /\ admits \in Admits

\* A queue that was created, its thread in its first wait, and surfaces the
\* application has.
Init ==
  /\ admits \in Admits
  /\ handle = [s \in Surfaces |-> TRUE] /\ refcnt = [s \in Surfaces |-> 1]
  /\ status = [s \in Surfaces |-> "idle"] /\ due = [s \in Surfaces |-> 0]
  /\ surfLock = [s \in Surfaces |-> None]
  /\ list = <<>> /\ todo = <<>>
  /\ pqLock = None /\ pqHandle = TRUE /\ pqRefs = 1 /\ exit = FALSE
  /\ pqtLock = None /\ disp = None /\ prep = None /\ back = None /\ screen = None
  /\ overlapped = FALSE
  /\ pc = [p \in Procs |->
             IF p # Queue THEN "idle"
             ELSE IF "late_start" \in admits THEN "start" ELSE "wait"]
  /\ arg = [p \in Procs |-> None] /\ want = [t \in Threads |-> 0]
  /\ time = Never /\ earliest = Never /\ next = None
  /\ now = 0

-----------------------------------------------------------------------------
(* Helpers.                                                                *)

Bit(p) == IF p THEN 1 ELSE 0
Listed == {list[i] : i \in DOMAIN list} \cup {todo[i] : i \in DOMAIN todo}
Free(s, p) == surfLock[s] \in {None, p}    \* the mutexes are recursive

\* Mutant of Signalled: display and destroy do not signal the queue's thread.
NotSignalled == pc[Queue]

\* pthread_cond_signal(&pq->cond)
Signalled == IF pc[Queue] = "wait" THEN "woken" ELSE pc[Queue]

\* Mutant of Woken: idle_cond is not signalled.
NotWoken(s) == {None}

\* pthread_cond_signal(&surf->idle_cond): one of the threads that wait, if any.
Waiters(s) == {t \in Threads : pc[t] = "blocked" /\ arg[t] = s}
Woken(s) == IF Waiters(s) = {} THEN {None} ELSE Waiters(s)

\* put_presentation_queue: the last reference joins the queue's thread.
Left == IF pqRefs = 1 THEN "join" ELSE "idle"

\* pc with the thread w that a signal woke and p at step.
Moved(w, p, step) ==
  [x \in Procs |-> IF x = w THEN "unblocked" ELSE IF x = p THEN step ELSE pc[x]]

\* Mutant of UpdateDri: dri_prep_surf is not cleared when it is used.
UpdateDriKept(s, prepared) ==
  /\ back' = IF prep = s THEN back ELSE s
  /\ prep' = IF prepared THEN s ELSE prep

\* pqt_update_dri_buffer: a prepared surface is not blitted again.
UseDri == ForceDri \/ overlapped
UpdateDri(s, prepared) ==
  /\ back' = IF prep = s THEN back ELSE s
  /\ prep' = IF prepared THEN s ELSE IF prep = s THEN None ELSE prep

\* The application's rules. It displays surfaces that are idle ("redisplay"
\* lifts this), one call at a time and in the order of their times ("reorder"),
\* waits for a surface in one thread ("two_waiters"), destroys the queue when it
\* is not displaying ("late_display") and no surface that is still queued
\* ("early_destroy").
Using(s) == {t \in Threads : arg[t] = s}
Displaying == {t \in Threads : pc[t] \in DisplaySteps}
MayDisplay(s, at) ==
  /\ Using(s) = {} /\ refcnt[s] < MaxRefs
  /\ "redisplay" \in admits \/ status[s] = "idle"
  /\ \/ "reorder" \in admits
     \/ /\ Displaying = {}
        /\ \A x \in Surfaces : status[x] = "queued" => at > 0 /\ due[x] <= at
MayBlock(s) == \/ Using(s) = {}
               \/ "two_waiters" \in admits /\ \A t \in Using(s) : pc[t] \in BlockSteps
MayDestroy(s) == /\ Using(s) = {}
                 /\ "early_destroy" \in admits \/ status[s] # "queued"

-----------------------------------------------------------------------------
(* pqt_display_surface, called with arg[p] by the queue's thread, by an     *)
(* application thread that shows a surface at once, or by the target's.     *)

ShowLock(p) ==
  /\ pc[p] = "show" /\ pqtLock = None
  /\ pqtLock' = p
  /\ pc' = [pc EXCEPT ![p] = "showing"]
  /\ UNCHANGED <<surfVars, pqVars, disp, prep, back, screen, overlapped, arg,
                 want, localVars, env>>

\* Put the picture on screen; pqt_display_thr does not update the status.
ShowPicture(p) ==
  LET s == arg[p] IN
  /\ pc[p] = "showing" /\ Free(s, p)
  /\ IF UseDri THEN UpdateDri(s, FALSE) /\ screen' = back'
               ELSE screen' = s /\ UNCHANGED <<back, prep>>
  /\ status' = IF p = Overlap THEN status ELSE [status EXCEPT ![s] = "visible"]
  /\ pc' = [pc EXCEPT ![p] = "replacing"]
  /\ UNCHANGED <<handle, refcnt, due, surfLock, pqVars, pqtLock, disp,
                 overlapped, arg, want, localVars, env>>

\* What follows pqt_display_surface in each caller; old has been replaced by
\* arg[p] (pqt_display_surface_to_idle_state) and waiter w was signalled.
Shown(p, old, w) ==
  /\ refcnt' = [s \in Surfaces |-> refcnt[s] - Bit(s = old)
                                   - Bit(p \in Threads /\ s = arg[p])]
  /\ pqtLock' = None
  /\ arg' = [arg EXCEPT ![p] = None]
  /\ want' = [t \in Threads |-> IF t = p THEN 0 ELSE want[t]]
  /\ IF p \in Threads
     THEN /\ surfLock' = [surfLock EXCEPT ![arg[p]] = None]
          /\ pqLock' = None
          /\ pqRefs' = pqRefs - 1
          /\ pc' = Moved(w, p, Left)
     ELSE /\ UNCHANGED <<surfLock, pqLock, pqRefs>>
          /\ pc' = Moved(w, p, IF p = Queue THEN "scan" ELSE "idle")
  /\ UNCHANGED <<handle, due, list, pqHandle, exit, prep, back, screen,
                 overlapped, localVars, env>>

\* Nothing to replace: the same surface is shown again, or it is the first.
ShowOnly(p) ==
  /\ pc[p] = "replacing" /\ disp \in {arg[p], None}
  /\ disp' = arg[p]
  /\ Shown(p, None, None)
  /\ UNCHANGED status

\* Mutants of Replace: the replaced surface keeps the reference; it stays visible.
ReplaceReferenced(p) ==
  /\ pc[p] = "replacing" /\ disp \notin {arg[p], None} /\ Free(disp, p)
  /\ disp' = arg[p]
  /\ status' = [status EXCEPT ![disp] = "idle"]
  /\ \E w \in Woken(disp) : Shown(p, None, w)

ReplaceVisible(p) ==
  /\ pc[p] = "replacing" /\ disp \notin {arg[p], None} /\ Free(disp, p)
  /\ disp' = arg[p]
  /\ UNCHANGED status /\ Shown(p, disp, None)

Replace(p) ==
  /\ pc[p] = "replacing" /\ disp \notin {arg[p], None} /\ Free(disp, p)
  /\ disp' = arg[p]
  /\ IF status[disp] = "visible"
     THEN /\ status' = [status EXCEPT ![disp] = "idle"]
          /\ \E w \in Woken(disp) : Shown(p, disp, w)
     ELSE UNCHANGED status /\ Shown(p, disp, None)

ShowSteps(p) == ShowLock(p) \/ ShowPicture(p) \/ ShowOnly(p) \/ Replace(p)

\* pqt_display_thr ("redraw"): the window was moved, or is overlapped now or no more.
OverlapEvent ==
  /\ "redraw" \in admits /\ pc[Overlap] = "idle" /\ pqtLock = None
  /\ overlapped' \in BOOLEAN
  /\ IF disp = None THEN UNCHANGED <<pqtLock, pc, arg>>
     ELSE /\ pqtLock' = Overlap
          /\ arg' = [arg EXCEPT ![Overlap] = disp]
          /\ pc' = [pc EXCEPT ![Overlap] = "showing"]
  /\ UNCHANGED <<surfVars, pqVars, disp, prep, back, screen, want, localVars, env>>

-----------------------------------------------------------------------------
(* vdp_presentation_queue_display                                          *)

Display(t, s, at) ==
  /\ pc[t] = "idle" /\ pqHandle /\ handle[s] /\ MayDisplay(s, at)
  /\ pqRefs' = pqRefs + 1
  /\ refcnt' = [refcnt EXCEPT ![s] = @ + 1]
  /\ pc' = [pc EXCEPT ![t] = "display"]
  /\ arg' = [arg EXCEPT ![t] = s]
  /\ want' = [want EXCEPT ![t] = at]
  /\ UNCHANGED <<handle, status, due, surfLock, list, pqLock, pqHandle, exit,
                 pqtVars, localVars, env>>

DisplayLock(t) ==
  /\ pc[t] = "display" /\ pqLock = None
  /\ pqLock' = t
  /\ pc' = [pc EXCEPT ![t] = "lock_surf"]
  /\ UNCHANGED <<surfVars, list, pqHandle, pqRefs, exit, pqtVars, arg, want,
                 localVars, env>>

\* Unlock and put everything.
DisplayReturn(t) ==
  /\ pqLock' = None /\ pqRefs' = pqRefs - 1
  /\ arg' = [arg EXCEPT ![t] = None] /\ want' = [want EXCEPT ![t] = 0]
  /\ UNCHANGED <<handle, surfLock, pqHandle, exit, pqtVars, localVars, env>>

Refuse(t) ==
  /\ pc[t] = "lock_surf" /\ Free(arg[t], t) /\ status[arg[t]] = "queued"
  /\ refcnt' = [refcnt EXCEPT ![arg[t]] = @ - 1]
  /\ pc' = [pc EXCEPT ![t] = Left]
  /\ DisplayReturn(t)
  /\ UNCHANGED <<status, due, list>>

\* The queue's own reference replaces the caller's.
Enqueue(t) ==
  /\ pc[t] = "lock_surf" /\ Free(arg[t], t) /\ status[arg[t]] # "queued"
  /\ want[t] # 0
  /\ status' = [status EXCEPT ![arg[t]] = "queued"]
  /\ due' = [due EXCEPT ![arg[t]] = want[t]]
  /\ list' = Append(list, arg[t])
  /\ pc' = [pc EXCEPT ![t] = Left, ![Queue] = Signalled]
  /\ DisplayReturn(t)
  /\ UNCHANGED refcnt

\* Mutant of ShowNow: the target is given no reference of its own.
ShowNowUnreferenced(t) ==
  /\ pc[t] = "lock_surf" /\ Free(arg[t], t) /\ status[arg[t]] # "queued"
  /\ want[t] = 0
  /\ surfLock' = [surfLock EXCEPT ![arg[t]] = t]
  /\ pc' = [pc EXCEPT ![t] = "show"]
  /\ UNCHANGED <<handle, refcnt, status, due, pqVars, pqtVars, arg, want, localVars, env>>

ShowNow(t) ==
  /\ pc[t] = "lock_surf" /\ Free(arg[t], t) /\ status[arg[t]] # "queued"
  /\ want[t] = 0
  /\ surfLock' = [surfLock EXCEPT ![arg[t]] = t]
  /\ refcnt' = [refcnt EXCEPT ![arg[t]] = @ + 1]
  /\ pc' = [pc EXCEPT ![t] = "show"]
  /\ UNCHANGED <<handle, status, due, pqVars, pqtVars, arg, want, localVars, env>>

-----------------------------------------------------------------------------
(* presentation_queue_thr                                                  *)

\* The first wait looks at nothing.
StartWait ==
  /\ pc[Queue] = "start" /\ pqLock = None
  /\ pc' = [pc EXCEPT ![Queue] = "wait"]
  /\ UNCHANGED <<surfVars, pqVars, pqtVars, arg, want, localVars, env>>

\* Mutant of TimeOut: the deadline is rounded down.
TimeOutEarly ==
  /\ pc[Queue] = "wait" /\ time # Never /\ now + 1 >= time
  /\ pc' = [pc EXCEPT ![Queue] = "timed_out"]
  /\ UNCHANGED <<surfVars, pqVars, pqtVars, arg, want, localVars, env>>

TimeOut ==
  /\ pc[Queue] = "wait" /\ now >= time
  /\ pc' = [pc EXCEPT ![Queue] = "timed_out"]
  /\ UNCHANGED <<surfVars, pqVars, pqtVars, arg, want, localVars, env>>

\* The wait has returned with pq->lock: leave, or look at the whole queue as of
\* now or of the deadline.
Resume ==
  /\ pc[Queue] \in {"woken", "timed_out"} /\ pqLock = None
  /\ pqLock' = Queue
  /\ IF exit
     THEN /\ pc' = [pc EXCEPT ![Queue] = "exit"]
          /\ UNCHANGED <<list, localVars>>
     ELSE /\ pc' = [pc EXCEPT ![Queue] = "scan"]
          /\ time' = IF pc[Queue] = "woken" THEN now ELSE time
          /\ earliest' = Never /\ next' = None
          /\ todo' = list /\ list' = <<>>
  /\ UNCHANGED <<surfVars, pqHandle, pqRefs, exit, pqtVars, arg, want, env>>

Scanning == pc[Queue] = "scan" /\ todo # <<>> /\ surfLock[Head(todo)] = None

ScanLater ==
  LET s == Head(todo) IN
  /\ Scanning /\ status[s] = "queued" /\ due[s] > time
  /\ IF due[s] < earliest THEN earliest' = due[s] /\ next' = s
                          ELSE UNCHANGED <<earliest, next>>
  /\ todo' = Tail(todo) /\ list' = Append(list, s)
  /\ UNCHANGED <<surfVars, pqLock, pqHandle, pqRefs, exit, pqtVars, callVars,
                 time, env>>

\* A surface that is due leaves the list; the one found before it is shown
\* first. (The code unlinks it before it shows the other, under pq->lock.)
ScanDue ==
  LET s == Head(todo) IN
  /\ Scanning /\ status[s] = "queued" /\ due[s] <= time
  /\ IF arg[Queue] # None
     THEN /\ pc' = [pc EXCEPT ![Queue] = "show"]
          /\ UNCHANGED <<arg, todo>>
     ELSE /\ arg' = [arg EXCEPT ![Queue] = s]
          /\ todo' = Tail(todo)
          /\ UNCHANGED pc
  /\ UNCHANGED <<surfVars, pqVars, pqtVars, want, time, earliest, next, env>>

\* The list is done: show the last one found, then sleep until the next is due.
\* (earliest and next are not used again; they are reset here and in Prepare.)
ScanEnd ==
  /\ pc[Queue] = "scan" /\ todo = <<>>
  /\ IF arg[Queue] # None
     THEN /\ pc' = [pc EXCEPT ![Queue] = "show"]
          /\ UNCHANGED <<pqLock, time>>
     ELSE /\ time' = earliest
          /\ IF next # None THEN pc' = [pc EXCEPT ![Queue] = "prepare"] /\ UNCHANGED pqLock
                            ELSE pc' = [pc EXCEPT ![Queue] = "wait"] /\ pqLock' = None
  /\ earliest' = IF arg[Queue] # None THEN earliest ELSE Never
  /\ UNCHANGED <<surfVars, list, pqHandle, pqRefs, exit, pqtVars, arg, want, todo,
                 next, env>>

\* pqt_prepare_dri_surface
PrepareLock ==
  /\ pc[Queue] = "prepare" /\ pqtLock = None
  /\ pqtLock' = Queue
  /\ pc' = [pc EXCEPT ![Queue] = "preparing"]
  /\ UNCHANGED <<surfVars, pqVars, disp, prep, back, screen, overlapped, arg,
                 want, localVars, env>>

Prepare ==
  /\ pc[Queue] = "preparing" /\ Free(next, Queue)
  /\ IF UseDri THEN UpdateDri(next, TRUE) ELSE UNCHANGED <<back, prep>>
  /\ pqtLock' = None /\ pqLock' = None
  /\ pc' = [pc EXCEPT ![Queue] = "wait"]
  /\ next' = None
  /\ UNCHANGED <<surfVars, list, pqHandle, pqRefs, exit, disp, screen,
                 overlapped, arg, want, todo, time, earliest, env>>

\* pq->exit: what is queued becomes idle and loses the queue's reference.
ExitDrop ==
  LET s == Head(list) IN
  /\ pc[Queue] = "exit" /\ list # <<>> /\ surfLock[s] = None
  /\ status' = [status EXCEPT ![s] = "idle"]
  /\ refcnt' = [refcnt EXCEPT ![s] = @ - 1]
  /\ list' = Tail(list)
  /\ \E w \in Woken(s) : pc' = Moved(w, Queue, "exit")
  /\ UNCHANGED <<handle, due, surfLock, pqLock, pqHandle, pqRefs, exit, pqtVars,
                 arg, want, localVars, env>>

\* Mutant of ExitLock: the visible surface is left to the target.
ExitVisible ==
  /\ pc[Queue] = "exit" /\ list = <<>>
  /\ pqLock' = None
  /\ pc' = [pc EXCEPT ![Queue] = "done"]
  /\ UNCHANGED <<surfVars, list, pqHandle, pqRefs, exit, pqtVars, arg, want,
                 localVars, env>>

ExitLock ==
  /\ pc[Queue] = "exit" /\ list = <<>> /\ pqtLock = None
  /\ pqtLock' = Queue
  /\ pc' = [pc EXCEPT ![Queue] = "exit_idle"]
  /\ UNCHANGED <<surfVars, pqVars, disp, prep, back, screen, overlapped, arg,
                 want, localVars, env>>

\* pqt_display_surface_to_idle_state; disp_surf is cleared only if it was visible.
ExitIdle ==
  /\ pc[Queue] = "exit_idle"
  /\ disp # None => surfLock[disp] = None
  /\ IF disp = None
     THEN pc' = [pc EXCEPT ![Queue] = "done"] /\ UNCHANGED <<status, refcnt, disp>>
     ELSE /\ refcnt' = [refcnt EXCEPT ![disp] = @ - 1]
          /\ IF status[disp] = "visible"
             THEN /\ status' = [status EXCEPT ![disp] = "idle"]
                  /\ disp' = None
                  /\ \E w \in Woken(disp) : pc' = Moved(w, Queue, "done")
             ELSE pc' = [pc EXCEPT ![Queue] = "done"] /\ UNCHANGED <<status, disp>>
  /\ pqtLock' = None /\ pqLock' = None
  /\ UNCHANGED <<handle, due, surfLock, list, pqHandle, pqRefs, exit, prep, back,
                 screen, overlapped, arg, want, localVars, env>>

QueueThread ==
  \/ StartWait \/ TimeOut \/ Resume \/ ScanLater \/ ScanDue \/ ScanEnd \/ PrepareLock
  \/ Prepare \/ ExitDrop \/ ExitLock \/ ExitIdle \/ ShowSteps(Queue)

-----------------------------------------------------------------------------
(* vdp_presentation_queue_block_until_surface_idle                         *)

Block(t, s) ==
  /\ pc[t] = "idle" /\ pqHandle /\ handle[s] /\ MayBlock(s)
  /\ pqRefs' = pqRefs + 1
  /\ refcnt' = [refcnt EXCEPT ![s] = @ + 1]
  /\ pc' = [pc EXCEPT ![t] = "block"]
  /\ arg' = [arg EXCEPT ![t] = s]
  /\ UNCHANGED <<handle, status, due, surfLock, list, pqLock, pqHandle, exit,
                 pqtVars, want, localVars, env>>

BlockReturn(t) ==
  /\ pqRefs' = pqRefs - 1
  /\ refcnt' = [refcnt EXCEPT ![arg[t]] = @ - 1]
  /\ arg' = [arg EXCEPT ![t] = None]
  /\ pc' = [pc EXCEPT ![t] = Left]
  /\ UNCHANGED <<handle, status, due, list, pqLock, pqHandle, exit, pqtVars, want,
                 localVars, env>>

BlockLock(t) ==
  /\ pc[t] = "block" /\ surfLock[arg[t]] = None
  /\ IF status[arg[t]] = "idle" THEN BlockReturn(t) /\ UNCHANGED surfLock
     ELSE /\ surfLock' = [surfLock EXCEPT ![arg[t]] = t]
          /\ pc' = [pc EXCEPT ![t] = "try"]
          /\ UNCHANGED <<handle, refcnt, status, due, pqVars, pqtVars, arg, want,
                         localVars, env>>

\* Mutant of BlockRetry: pthread_mutex_lock, under surf->lock.
BlockHolding(t) == FALSE

\* pthread_mutex_trylock(&pq->lock) fails: let go of surf->lock, then again.
BlockRetry(t) ==
  /\ pc[t] = "try" /\ pqLock # None
  /\ surfLock' = [surfLock EXCEPT ![arg[t]] = None]
  /\ pc' = [pc EXCEPT ![t] = "block"]
  /\ UNCHANGED <<handle, refcnt, status, due, pqVars, pqtVars, arg, want,
                 localVars, env>>

\* Only a later surface in the queue can make this one idle.
LaterQueued(s) == \E i \in DOMAIN list : due[list[i]] > due[s]

BlockWait(t) ==
  /\ pc[t] = "try" /\ pqLock = None /\ LaterQueued(arg[t])
  /\ surfLock' = [surfLock EXCEPT ![arg[t]] = None]
  /\ pc' = [pc EXCEPT ![t] = "blocked"]
  /\ UNCHANGED <<handle, refcnt, status, due, pqVars, pqtVars, arg, want,
                 localVars, env>>

BlockRefuse(t) ==
  /\ pc[t] = "try" /\ pqLock = None /\ ~LaterQueued(arg[t])
  /\ surfLock' = [surfLock EXCEPT ![arg[t]] = None]
  /\ BlockReturn(t)

Unblock(t) ==
  /\ pc[t] = "unblocked" /\ surfLock[arg[t]] = None
  /\ BlockReturn(t) /\ UNCHANGED surfLock

-----------------------------------------------------------------------------
(* vdp_presentation_queue_create and _destroy, output surfaces.            *)

\* Only after the old queue is gone: the target is the same.
CreateQueue(t) ==
  /\ "new_queue" \in admits
  /\ pc[t] = "idle" /\ ~pqHandle /\ pqRefs = 0 /\ pc[Queue] = "done"
  /\ \A u \in Threads : pc[u] # "join"
  /\ pqHandle' = TRUE /\ pqRefs' = 1 /\ exit' = FALSE
  /\ list' = <<>>
  /\ time' = Never
  /\ pc' = [pc EXCEPT ![Queue] = IF "late_start" \in admits THEN "start" ELSE "wait"]
  /\ UNCHANGED <<surfVars, pqLock, pqtVars, arg, want, todo, earliest, next, env>>

DestroyQueue(t) ==
  /\ pc[t] = "idle" /\ pqHandle
  /\ "late_display" \in admits \/ Displaying = {}
  /\ pqHandle' = FALSE
  /\ pc' = [pc EXCEPT ![t] = "close"]
  /\ UNCHANGED <<surfVars, list, pqLock, pqRefs, exit, pqtVars, arg, want,
                 localVars, env>>

\* Mutant of Close: the reference of get_presentation_queue is put twice.
CloseTwice(t) ==
  /\ pc[t] = "close" /\ pqLock = None
  /\ exit' = TRUE
  /\ pqRefs' = pqRefs - 2
  /\ pc' = [pc EXCEPT ![t] = Left, ![Queue] = Signalled]
  /\ UNCHANGED <<surfVars, list, pqLock, pqHandle, pqtVars, arg, want, localVars, env>>

Close(t) ==
  /\ pc[t] = "close" /\ pqLock = None
  /\ exit' = TRUE
  /\ pqRefs' = pqRefs - 1
  /\ pc' = [pc EXCEPT ![t] = Left, ![Queue] = Signalled]
  /\ UNCHANGED <<surfVars, list, pqLock, pqHandle, pqtVars, arg, want, localVars, env>>

\* pthread_join, then the queue is freed.
Join(t) ==
  /\ pc[t] = "join" /\ pc[Queue] = "done"
  /\ pc' = [pc EXCEPT ![t] = "idle"]
  /\ UNCHANGED <<surfVars, pqVars, pqtVars, arg, want, localVars, env>>

CreateSurface(t, s) ==
  /\ pc[t] = "idle" /\ refcnt[s] = 0
  /\ handle' = [handle EXCEPT ![s] = TRUE]
  /\ refcnt' = [refcnt EXCEPT ![s] = 1]
  /\ status' = [status EXCEPT ![s] = "idle"]
  /\ due' = [due EXCEPT ![s] = 0]
  /\ UNCHANGED <<surfLock, pqVars, pqtVars, callVars, localVars, env>>

\* destroy_surface: a surface that is still queued is due at once from now on.
DestroySurface(t, s) ==
  /\ pc[t] = "idle" /\ handle[s] /\ MayDestroy(s) /\ surfLock[s] = None
  /\ handle' = [handle EXCEPT ![s] = FALSE]
  /\ due' = [due EXCEPT ![s] = 0]
  /\ refcnt' = [refcnt EXCEPT ![s] = @ - 1]
  /\ UNCHANGED <<status, surfLock, pqVars, pqtVars, callVars, localVars, env>>

Tick ==
  /\ now < MaxTime
  /\ now' = now + 1
  /\ UNCHANGED <<surfVars, pqVars, pqtVars, callVars, localVars, admits>>

-----------------------------------------------------------------------------

Call(t) ==
  \/ \E s \in Surfaces : \/ \E at \in 0 .. MaxTime : Display(t, s, at)
                         \/ Block(t, s) \/ CreateSurface(t, s) \/ DestroySurface(t, s)
  \/ CreateQueue(t) \/ DestroyQueue(t)

DisplayCall(t) ==
  DisplayLock(t) \/ Refuse(t) \/ Enqueue(t) \/ ShowNow(t) \/ ShowSteps(t)
BlockCall(t) ==
  BlockLock(t) \/ BlockRetry(t) \/ BlockWait(t) \/ BlockRefuse(t) \/ Unblock(t)
CloseCall(t) == Close(t) \/ Join(t)

Next ==
  \/ \E t \in Threads : Call(t) \/ DisplayCall(t) \/ BlockCall(t) \/ CloseCall(t)
  \/ QueueThread \/ OverlapEvent \/ ShowSteps(Overlap) \/ Tick

Spec == Init /\ [][Next]_vars

\* The clock runs, every thread that can run does, and a lock that is released
\* again and again is not withheld from a thread for ever.
Fairness ==
  /\ WF_vars(Tick)
  /\ SF_vars(QueueThread) /\ SF_vars(ShowSteps(Overlap))
  /\ \A t \in Threads : SF_vars(DisplayCall(t) \/ BlockCall(t) \/ CloseCall(t))

FairSpec == Spec /\ Fairness

-----------------------------------------------------------------------------
(* Properties.                                                             *)

\* The queue's reference passes from the list to the thread that shows the
\* surface, to disp_surf, and is dropped once, whoever replaces the surface; an
\* application that displays a queued or visible surface again leaks references.
QueueHolds(s) ==
  Bit(s \in Listed) + Bit(arg[Queue] = s) + Bit(disp = s)
  + Cardinality({t \in Threads : arg[t] = s /\ pc[t] \in {"show", "showing", "replacing"}})

RefsExact ==
  /\ "redisplay" \notin admits => \A s \in Surfaces :
       refcnt[s] = Bit(handle[s]) + QueueHolds(s) + Cardinality(Using(s))
  /\ pqRefs = Bit(pqHandle) + Cardinality({t \in Threads : arg[t] # None})
              + Cardinality({t \in Threads : pc[t] = "close"})

\* The status the application is told, the list and disp_surf agree; only
\* between the two halves of pqt_display_surface are two surfaces visible. The
\* application displays idle surfaces.
StatusAgrees ==
  "redisplay" \notin admits => \A s \in Surfaces :
    /\ status[s] = "queued" <=>
         s \in Listed \/ (arg[Queue] = s /\ pc[Queue] # "replacing")
    /\ status[s] = "visible" <=>
         disp = s \/ \E p \in Procs : pc[p] = "replacing" /\ arg[p] = s

\* No thread sleeps in block_until_surface_idle on a surface that is idle.
NoLostWaiter ==
  \A t \in Threads : pc[t] = "blocked" => status[arg[t]] # "idle"

\* When the queue's thread has gone nothing is queued or visible, if the
\* application displays idle surfaces.
NothingLeftBehind ==
  pc[Queue] = "done" /\ "redisplay" \notin admits =>
    /\ disp = None /\ Listed = {}
    /\ \A s \in Surfaces : status[s] = "idle"

\* Even an application that displays surfaces that are queued or visible does
\* not make the queue, while its thread lives, keep a pointer without a reference.
HeldIsAlive ==
  pc[Queue] # "done" =>
    \A s \in Surfaces : refcnt[s] >= QueueHolds(s) + Cardinality(Using(s))

\* A queued surface is not shown before its time, whatever wakes the thread.
NeverEarly ==
  [][\A s \in Surfaces : status[s] = "queued" /\ status'[s] = "visible"
                         => due[s] <= now]_vars

\* What is on screen is the picture of the surface that is reported visible:
\* the picture of a "prepared surface" is still in the DRI buffer.
ShownPictureIsOwn == pqtLock = None /\ disp # None => screen = disp

\* What is queued is shown, or handed back when the queue is destroyed.
QueuedIsShown ==
  \A s \in Surfaces : status[s] = "queued" ~> status[s] # "queued"

\* Who waits for a surface is woken.
WaiterWakes == \A t \in Threads : pc[t] = "blocked" ~> pc[t] # "blocked"

\* display and destroy return: no circle of locks, no join that waits for ever.
CallsReturn ==
  \A t \in Threads :
    pc[t] \in DisplaySteps \cup {"close", "join"} ~> pc[t] = "idle"

\* References are exact for an application that follows the API, and enough for
\* one that does not.
ReferencesAreKept == RefsExact /\ HeldIsAlive

\* What the application is told of a surface is so, to the queue's end.
ReportsAgree == StatusAgrees /\ NothingLeftBehind

\* Every call that waits comes back: for a surface, a lock or the queue's thread.
EveryCallReturns == WaiterWakes /\ CallsReturn
=============================================================================
