---------------------------- MODULE QueueTarget ----------------------------
(***************************************************************************)
(* A presentation queue target (presentation_queue_target.c): the window   *)
(* that pictures are shown in through the Xv overlay or through DRI2, and  *)
(* the two threads that follow the window while both can be used. The      *)
(* thread of the queue is Queue; what it shows when, and which picture     *)
(* lies in the DRI buffer, is the subject of PresentationQueue.            *)
(*                                                                         *)
(* pqt->disp_lock is never held over another lock, so that its sections    *)
(* are single steps. pqt->lock is held over two halves of a display.       *)
(***************************************************************************)
EXTENDS DisplayDevice

CONSTANTS
  Queue, Redraw,  \* presentation_queue_thr, pqt_display_thr
  FirstKey,       \* 0x200507
  Outcomes,       \* what may come of the calls of the X server in one display
  Admits          \* what may happen in a run beyond the ordinary: see below

\* connected: DRI2Connect; buffer: the answer to pqt_update_dri_pixbuf; fits: the
\* DRI buffer has the size of the picture; colours, key: the Xv attributes.
Answers == {"ok", "none", "depth"}
Outcome == [connected : BOOLEAN, buffer : Answers, fits : BOOLEAN,
            colours : Results, key : BOOLEAN]

ASSUME TargetAssumption ==
  /\ Outcomes \subseteq Outcome
  /\ Queue # Redraw /\ None \notin {Queue, Redraw} /\ FirstKey \in Keys
  /\ Admits \subseteq SUBSET {"late_event", "slow_thread", "early_event", "recolour",
                              "second_target", "port_forgets"}

VARIABLES
  target,         \* struct tegra_pqt
  queue,          \* the queue exists (and holds a reference to the target)
  app, x11, redraw,  \* where the application, pqt_x11_event_thr, pqt_display_thr are
  held,           \* pqt_display_thr has gone with pqt->disp_lock
  locks,          \* disp_lock and disp_cond are initialised
  owner,          \* who holds pqt->lock
  shown,          \* the picture its holder displays, how, and whether the background was drawn
  seen,           \* what pqt_display_thr read from overlapped_new
  admits          \* the member of Admits that holds

targetVars == <<target, queue, held, locks, owner, shown>>
pcs == <<app, x11, redraw, seen>>
deviceVars == <<setup, flags, device, server>>
vars == <<deviceVars, targetVars, pcs, admits>>

NoTarget == [state |-> "none", handle |-> FALSE, refs |-> 0, exit |-> FALSE,
             threads |-> FALSE, cur |-> FALSE, new |-> FALSE, move |-> FALSE,
             disp |-> None, path |-> "none", drawable |-> FALSE, pixbuf |-> "none",
             key |-> FALSE, bgOld |-> None, bgNew |-> FirstKey]

TypeOK ==
  /\ DeviceTypeOK
  /\ target \in [state : {"none", "live"}, handle : BOOLEAN, refs : 0 .. 2, exit : BOOLEAN,
                 threads : BOOLEAN, cur : BOOLEAN, new : BOOLEAN, move : BOOLEAN,
                 disp : Pictures \cup {None}, path : {"none", "xv", "dri"},
                 drawable : BOOLEAN, pixbuf : {"none", "own", "stale"}, key : BOOLEAN,
                 bgOld : Keys \cup {None}, bgNew : Keys \cup {None}]
  /\ {queue, held, locks, seen} \subseteq BOOLEAN
  /\ app \in {"idle", "starting", "recolour", "join_x11", "signal", "join_redraw"}
  /\ x11 \in {"none", "top", "select", "post", "post_move", "done"}
  /\ redraw \in {"none", "top", "check", "wait", "woken", "apply", "ending", "move",
                 "moving", "done"}
  /\ owner \in {None, Queue, Redraw} /\ shown \in {None} \cup [picture : Pictures, dri : BOOLEAN, drew : BOOLEAN]
  /\ admits \in Admits

Init ==
  /\ DeviceInit
  /\ target = NoTarget /\ queue = FALSE
  /\ app = "idle" /\ x11 = "none" /\ redraw = "none"
  /\ held = FALSE /\ locks = FALSE /\ owner = None /\ shown = None /\ seen = FALSE
  /\ admits \in Admits

\* What a display reads and changes.
World == [flags |-> flags, device |-> device, server |-> server, target |-> target]
Becomes(w) ==
  flags' = w.flags /\ device' = w.device /\ server' = w.server /\ target' = w.target

-----------------------------------------------------------------------------
(* DRI2. r is what comes of asking the server for the back buffer: "ok",   *)
(* "none" (no buffer, or its memory cannot be opened), "depth" (a format   *)
(* that is not supported).                                                 *)

\* The buffer the target still holds is no longer the window's.
DestroyDrawable(w) ==
  IF w.target.drawable
  THEN [w EXCEPT !.target.drawable = FALSE, !.target.pixbuf = IF @ = "own" THEN "stale" ELSE @]
  ELSE w

\* pqt_update_dri_pixbuf
UpdatePixbuf(w, r) ==
  LET u == [w EXCEPT !.target.drawable = TRUE, !.target.pixbuf = "none"] IN
  CASE r = "ok" -> [u EXCEPT !.target.pixbuf = "own"]
    [] r = "none" -> u
    [] r = "depth" ->
         [DestroyDrawable(u) EXCEPT !.flags = IF "xv" \in @ THEN @ ELSE {"xv"}]

GiveUpDri(w) == [DestroyDrawable(w) EXCEPT !.flags = OnlyXv(@), !.device.dri2 = "failed"]

\* initialize_dri2: once for the device; connected is what DRI2Connect returns.
InitDri2(w, connected, r) ==
  IF w.device.dri2 # "no" THEN w
  ELSE IF ~connected THEN GiveUpDri(w)
  ELSE IF r = "ok" THEN [UpdatePixbuf(w, r) EXCEPT !.device.dri2 = "ready"]
  ELSE GiveUpDri(UpdatePixbuf(w, r))

\* pqt_update_dri_buffer; fits: the buffer has the size of the picture.
UpdateBuffer(w, fits, r) ==
  IF w.target.pixbuf = "none" \/ ~fits THEN UpdatePixbuf(w, r) ELSE w

Overlapped(w) == "dri" \in w.flags \/ w.target.cur
UseDri(w) == /\ "dri" \in w.flags \/ (w.target.cur /\ "xv" \notin w.flags)
             /\ w.device.dri2 = "ready"

\* pqt_display_dri: a swap shows what was drawn into the buffers of the drawable.
\* With no buffer to be had nothing was drawn ("lost"); with one of a drawable that
\* was destroyed the swap is for a drawable that does not exist ("stale").
Swap(w, p) ==
  [w EXCEPT !.server.front = CASE w.target.pixbuf = "own" -> p
                               [] w.target.pixbuf = "none" -> "lost"
                               [] w.target.pixbuf = "stale" -> "stale"]

-----------------------------------------------------------------------------
(* Xv.                                                                     *)

\* XvStopVideo; "port_forgets": the port returns to attributes of its own.
StopVideo(w) ==
  [w EXCEPT !.server.overlay = None,
            !.server.colours = IF "port_forgets" \in admits THEN None ELSE @,
            !.server.key = IF "port_forgets" \in admits THEN None ELSE @]

\* Mutant of ToDri: the colours are taken to be what they were.
ToDriKept(w, transit) ==
  IF transit \/ w.target.path # "dri"
  THEN [StopVideo(w) EXCEPT !.target.bgOld = None, !.target.path = "dri"] ELSE w

\* Mutant of ToDri: the overlay is left on.
ToDriShown(w, transit) ==
  ForgetColours([w EXCEPT !.target.bgOld = None, !.target.path = "dri"])

\* transit_display_to_dri, transit_display_to_xv
ToDri(w, transit) ==
  IF transit \/ w.target.path # "dri"
  THEN ForgetColours([StopVideo(w) EXCEPT !.target.bgOld = None, !.target.path = "dri"])
  ELSE w

ToXv(w, transit) ==
  IF transit \/ w.target.path # "xv"
  THEN [DestroyDrawable(w) EXCEPT !.target.path = "xv"] ELSE w

PutImage(w, p, r) ==
  LET u == [w EXCEPT !.server.overlay = p] IN
  IF p \in Overlays THEN ApplyColours(u, p, r) ELSE u

\* pqt_draw_background: the key of the port; refused, DRI is used from now on.
DrawBackground(w, keyOk) ==
  LET u == [w EXCEPT !.server.front = None] IN
  IF w.target.bgOld = w.target.bgNew THEN w
  ELSE IF w.target.key => keyOk THEN [u EXCEPT !.server.key = w.target.bgNew]
  ELSE [u EXCEPT !.server.key = "refused", !.flags = (@ \ {"xv"}) \cup {"dri"}]

-----------------------------------------------------------------------------
(* pqt_display_surface by who, from state w. The first half, up to drawing *)
(* the background, and the rest.                                           *)

DisplayDri(w, p, transit, o) ==
  ToDri(Swap(UpdateBuffer(w, o.fits, o.buffer), p), transit)

DisplayXv(w, p, o) == DrawBackground(PutImage(w, p, o.colours), o.key)

Shows(w, who, p, transit, o) ==
  LET u == IF Overlapped(w) THEN InitDri2(w, o.connected, o.buffer) ELSE w
  IN
  /\ app # "recolour" \/ "recolour" \in admits
  /\ owner' = who
  /\ shown' = [picture |-> p, dri |-> UseDri(u), drew |-> u.target.bgOld # u.target.bgNew]
  /\ Becomes(IF UseDri(u) THEN DisplayDri(u, p, transit, o) ELSE DisplayXv(u, p, o))

\* bg_old_state = bg_new_state, as it is by now.
EndXv(w, transit) ==
  ToXv(IF shown.drew THEN [w EXCEPT !.target.bgOld = w.target.bgNew] ELSE w, transit)

Finish(transit) ==
  LET w == [World EXCEPT !.target.disp = shown.picture] IN
  Becomes(IF shown.dri THEN w ELSE EndXv(w, transit))

\* presentation_queue_thr, or the application that shows a picture at once.
\* A picture is video only once there is a mixer, which prepares the colours.
Display(p, o) ==
  /\ queue /\ owner = None
  /\ p \in Overlays => device.inited
  /\ Shows(World, Queue, p, FALSE, o)
  /\ UNCHANGED <<setup, queue, held, locks, pcs, admits>>

EndDisplay ==
  /\ owner = Queue
  /\ Finish(FALSE)
  /\ owner' = None /\ shown' = None
  /\ UNCHANGED <<setup, queue, held, locks, pcs, admits>>

\* pqt_prepare_dri_surface
Prepare(o) ==
  LET w == InitDri2(World, o.connected, o.buffer) IN
  /\ queue /\ owner = None /\ Overlapped(World)
  /\ Becomes(IF w.device.dri2 = "ready" /\ Overlapped(w)
             THEN UpdateBuffer(w, o.fits, o.buffer) ELSE w)
  /\ UNCHANGED <<setup, queue, held, locks, owner, shown, pcs, admits>>

-----------------------------------------------------------------------------
(* pqt_x11_event_thr                                                       *)

Forced == flags \cap {"xv", "dri"} # {}

X11Loop ==
  /\ x11 = "top"
  /\ x11' = IF target.exit THEN "done" ELSE "select"
  /\ UNCHANGED <<deviceVars, targetVars, app, redraw, seen, admits>>

X11Timeout ==
  /\ x11 = "select"
  /\ x11' = "top"
  /\ UNCHANGED <<deviceVars, targetVars, app, redraw, seen, admits>>

\* select and the check of the flags; overlapped_new is read without disp_lock.
\* The window sends nothing before the target is complete, unless "early_event",
\* or while it is closed, unless "late_event".
MayEvent == /\ locks \/ "early_event" \in admits
            /\ ~target.exit \/ "late_event" \in admits

X11Visibility(covered) ==
  /\ x11 = "select" /\ MayEvent
  /\ x11' = IF Forced THEN "done" ELSE IF target.new # covered THEN "post" ELSE "top"
  /\ UNCHANGED <<deviceVars, targetVars, app, redraw, seen, admits>>

X11Move ==
  /\ x11 = "select" /\ MayEvent
  /\ x11' = IF Forced THEN "done" ELSE "post_move"
  /\ UNCHANGED <<deviceVars, targetVars, app, redraw, seen, admits>>

\* Mutant of Woken: a thread that waits is not signalled.
NotWoken == redraw

\* pthread_cond_signal(&pqt->disp_cond)
Woken == IF redraw = "wait" THEN "woken" ELSE redraw

X11Post ==
  /\ x11 \in {"post", "post_move"} /\ ~held
  /\ target' = IF x11 = "post" THEN [target EXCEPT !.new = ~@] ELSE [target EXCEPT !.move = TRUE]
  /\ redraw' = Woken
  /\ x11' = "top"
  /\ UNCHANGED <<deviceVars, queue, held, locks, owner, shown, app, seen, admits>>

-----------------------------------------------------------------------------
(* pqt_display_thr                                                         *)

RedrawLoop ==
  /\ redraw = "top"
  /\ redraw' = IF target.exit THEN "done" ELSE "check"
  /\ UNCHANGED <<deviceVars, targetVars, app, x11, seen, admits>>

\* Mutant of RedrawCheck: it waits whatever happened before.
RedrawWait ==
  /\ redraw = "check" /\ ~held
  /\ redraw' = "wait"
  /\ UNCHANGED <<deviceVars, targetVars, app, x11, seen, admits>>

RedrawCheck ==
  /\ redraw = "check" /\ ~held
  /\ IF target.cur = target.new /\ ~target.move
     THEN redraw' = "wait" /\ UNCHANGED seen
     ELSE redraw' = "apply" /\ seen' = target.new
  /\ UNCHANGED <<deviceVars, targetVars, app, x11, admits>>

\* POSIX lets the wait return at any time.
RedrawSpurious ==
  /\ redraw = "wait" /\ (~target.exit \/ "late_event" \in admits)
  /\ redraw' = "woken"
  /\ UNCHANGED <<deviceVars, targetVars, app, x11, seen, admits>>

\* The loop is left with disp_lock held.
RedrawWake ==
  /\ redraw = "woken" /\ ~held
  /\ IF target.exit THEN redraw' = "done" /\ held' = TRUE /\ UNCHANGED seen
                    ELSE redraw' = "apply" /\ seen' = target.new /\ UNCHANGED held
  /\ UNCHANGED <<deviceVars, target, queue, locks, owner, shown, app, x11, admits>>

RedrawOverlap(o) ==
  LET w == [World EXCEPT !.target.cur = seen] IN
  /\ redraw = "apply" /\ owner = None
  /\ IF target.cur # seen /\ target.disp # None
     THEN Shows(w, Redraw, target.disp, TRUE, o) /\ redraw' = "ending"
     ELSE Becomes(w) /\ owner' = Redraw /\ redraw' = "move" /\ UNCHANGED shown
  /\ seen' = FALSE
  /\ UNCHANGED <<setup, queue, held, locks, app, x11, admits>>

RedrawMove(o) ==
  LET w == [World EXCEPT !.target.move = FALSE] IN
  /\ redraw = "move"
  /\ IF target.move /\ target.disp # None
     THEN Shows(w, Redraw, target.disp, FALSE, o) /\ redraw' = "moving"
     ELSE Becomes(w) /\ owner' = None /\ redraw' = "top" /\ UNCHANGED shown
  /\ UNCHANGED <<setup, queue, held, locks, app, x11, seen, admits>>

RedrawEnd ==
  /\ redraw \in {"ending", "moving"}
  /\ Finish(redraw = "ending")
  /\ shown' = None
  /\ IF redraw = "ending" THEN redraw' = "move" /\ UNCHANGED owner
                          ELSE redraw' = "top" /\ owner' = None
  /\ UNCHANGED <<setup, queue, held, locks, app, x11, seen, admits>>

-----------------------------------------------------------------------------
(* vdp_presentation_queue_target_create_x11                                *)

\* The colour key makes the overlay usable under other windows: with it Xv is
\* forced, unless something is already.
LooksForKey == "dri" \notin flags \/ device.composited
               \/ ("auto" \notin flags /\ ~device.rotated)
KeyFound == LooksForKey /\ Has("key") /\ device.port
WithKey(f) ==
  LET g == IF device.composited THEN f \ {"dri"} ELSE f IN
  IF g \cap {"xv", "dri"} = {} THEN {"xv"} ELSE g

\* Once it has shown video, a device of a port that forgets its colours gets no
\* other target unless "second_target".
MayCreate == {"port_forgets", "second_target"} \cap admits = {"port_forgets"}
             => device.old \notin Pictures

\* Up to the start of the first thread, which comes before the locks.
CreateTarget ==
  LET f == IF KeyFound THEN WithKey(flags) ELSE flags
      follow == Has("threads") /\ f \cap {"xv", "dri"} = {}
  IN
  /\ app = "idle" /\ device.handle /\ target.state = "none" /\ MayCreate
  /\ flags' = f
  /\ device' = [device EXCEPT !.refs = @ + 1]
  /\ target' = [NoTarget EXCEPT !.state = "live", !.handle = TRUE, !.refs = 1,
                                !.key = KeyFound]
  /\ server' = [server EXCEPT !.front = None]
  /\ IF follow THEN x11' = "top" /\ app' = "starting" ELSE UNCHANGED <<x11, app>>
  /\ UNCHANGED <<setup, queue, held, locks, owner, shown, redraw, seen, admits>>

StartRedraw ==
  /\ app = "starting"
  /\ locks' = TRUE
  /\ redraw' = "top"
  /\ target' = [target EXCEPT !.threads = TRUE]
  /\ app' = "idle"
  /\ UNCHANGED <<deviceVars, queue, held, owner, shown, x11, seen, admits>>

-----------------------------------------------------------------------------
(* unref_queue_target                                                      *)

\* XvStopVideo or DRI2DestroyDrawable, then everything is freed.
TearDown(w) ==
  LET u == CASE w.target.path = "xv" -> StopVideo(w)
             [] w.target.path = "dri" -> DestroyDrawable(w)
             [] w.target.path = "none" -> w
  IN  [u EXCEPT !.device = PutDevice(@), !.target = NoTarget]

\* The last reference joins the threads, if there are any.
Unref(w) ==
  LET u == [w EXCEPT !.target.refs = @ - 1] IN
  IF u.target.refs > 0 THEN Becomes(u) /\ UNCHANGED app
  ELSE IF u.target.threads THEN Becomes(u) /\ app' = "join_x11"
  ELSE Becomes(TearDown(u)) /\ UNCHANGED app

JoinX11 ==
  /\ app = "join_x11" /\ x11 = "done"
  /\ app' = "signal"
  /\ UNCHANGED <<deviceVars, targetVars, x11, redraw, seen, admits>>

\* The other thread is signalled once. It may have looked at exit before and
\* not be waiting yet ("slow_thread"): X11Loop takes up to 300 ms to see exit.
SignalExit ==
  /\ app = "signal" /\ ~held
  /\ redraw # "check" \/ "slow_thread" \in admits
  /\ redraw' = Woken
  /\ app' = "join_redraw"
  /\ UNCHANGED <<deviceVars, targetVars, x11, seen, admits>>

JoinRedraw ==
  /\ app = "join_redraw" /\ redraw = "done"
  /\ Becomes(TearDown(World))
  /\ app' = "idle" /\ x11' = "none" /\ redraw' = "none"
  /\ held' = FALSE /\ locks' = FALSE /\ seen' = FALSE
  /\ UNCHANGED <<setup, queue, owner, shown, admits>>

\* The target may outlive its handle in a queue; its threads do not. No event
\* is being handled unless "late_event".
DestroyTarget ==
  /\ app = "idle" /\ target.handle
  /\ \/ "late_event" \in admits
     \/ x11 \notin {"post", "post_move"} /\ redraw # "woken"
  /\ Unref([World EXCEPT !.target.handle = FALSE, !.target.exit = TRUE])
  /\ UNCHANGED <<setup, queue, held, locks, owner, shown, x11, redraw, seen, admits>>

CreateQueue ==
  /\ app = "idle" /\ target.handle /\ ~queue
  /\ queue' = TRUE
  /\ target' = [target EXCEPT !.refs = @ + 1]
  /\ device' = [device EXCEPT !.refs = @ + 1]
  /\ UNCHANGED <<setup, flags, server, held, locks, owner, shown, pcs, admits>>

\* The queue's thread has gone and handed the visible picture back.
DestroyQueue ==
  /\ app = "idle" /\ queue /\ owner = None
  /\ queue' = FALSE
  /\ Unref([World EXCEPT !.target.disp = None, !.device = PutDevice(@)])
  /\ UNCHANGED <<setup, held, locks, owner, shown, x11, redraw, seen, admits>>

\* vdp_presentation_queue_set_background_color writes the key component by
\* component, without a lock: "recolour" lets a display run meanwhile.
SetBackground ==
  /\ app = "idle" /\ queue /\ setup.keys # {}
  /\ owner = None \/ "recolour" \in admits
  /\ target' = [target EXCEPT !.bgNew = None]
  /\ app' = "recolour"
  /\ UNCHANGED <<deviceVars, queue, held, locks, owner, shown, x11, redraw, seen, admits>>

EndBackground(k) ==
  /\ app = "recolour"
  /\ target' = [target EXCEPT !.bgNew = k]
  /\ app' = "idle"
  /\ UNCHANGED <<deviceVars, queue, held, locks, owner, shown, x11, redraw, seen, admits>>

DeviceCall ==
  /\ app = "idle"
  /\ CreateDevice \/ DestroyDevice \/ \E r \in Results : InitColours(r)
  /\ UNCHANGED <<targetVars, pcs, admits>>

-----------------------------------------------------------------------------

X11Thread == X11Loop \/ X11Timeout \/ X11Post
RedrawThread ==
  \/ RedrawLoop \/ RedrawCheck \/ RedrawWake \/ RedrawEnd
  \/ \E o \in Outcomes : RedrawOverlap(o) \/ RedrawMove(o)
Window == X11Move \/ \E covered \in BOOLEAN : X11Visibility(covered)
Call ==
  \/ DeviceCall \/ CreateTarget \/ DestroyTarget \/ CreateQueue \/ DestroyQueue
  \/ SetBackground
Returning == \/ StartRedraw \/ JoinX11 \/ SignalExit \/ JoinRedraw
             \/ \E k \in setup.keys : EndBackground(k)
QueueThread == EndDisplay \/ \E o \in Outcomes : Prepare(o) \/ \E p \in Pictures : Display(p, o)

Next == X11Thread \/ RedrawThread \/ RedrawSpurious \/ Window \/ Call \/ Returning \/ QueueThread

Spec == Init /\ [][Next]_vars

\* The threads run; pqt->lock is not withheld from pqt_display_thr for ever by a
\* queue that takes it again and again.
Fairness ==
  /\ WF_vars(X11Thread) /\ SF_vars(RedrawThread)
  /\ WF_vars(Returning) /\ WF_vars(EndDisplay)

FairSpec == Spec /\ Fairness

-----------------------------------------------------------------------------
(* Properties.                                                             *)

Bit(b) == IF b THEN 1 ELSE 0

\* A target outlives its threads and the queue that shows in it, and the device
\* outlives both, whatever the order in which the application destroys them.
OwnersKeepAlive ==
  /\ device.refs = Bit(device.handle) + Bit(target.state = "live") + Bit(queue)
  /\ target.refs = Bit(target.handle) + Bit(queue)
  /\ x11 \notin {"none", "done"} \/ redraw \notin {"none", "done"} \/ queue
       => target.state = "live" /\ device.state = "open"
  /\ x11 \in {"post", "post_move"} => locks

\* The picture that is reported visible is what the window shows, after every
\* change between the outputs. It is not with no DRI buffer to be had, and in a
\* window that was covered, uncovered and is covered again: the drawable was
\* destroyed in between, but the target draws into the buffer it had.
InWindow == IF server.overlay # None THEN server.overlay ELSE server.front
PictureReachesWindow ==
  owner = None /\ target.disp # None => InWindow \in {target.disp, "lost", "stale"}

\* Video on the overlay is converted with the colours it was mixed with.
ColoursAreOwn ==
  owner = None /\ server.overlay \in Overlays /\ device.csc /\ device.applied
    => server.colours = server.overlay

\* The overlay shows through the key that the background was painted with last,
\* unless the port refused it.
KeyIsDrawn ==
  owner = None /\ server.overlay # None /\ target.bgOld = target.bgNew
    => server.key \in {target.bgNew, "refused"}

PortFitsPicture == ColoursAreOwn /\ KeyIsDrawn

\* While the threads run, what the window reports is acted upon.
WindowIsFollowed ==
  /\ target.cur # target.new ~> target.cur = target.new \/ target.exit
  /\ target.move ~> ~target.move \/ target.exit

\* Destroying a target or its queue returns.
DestroyReturns == app # "idle" ~> app = "idle"
=============================================================================
