--------------------------- MODULE QueueTargetProofs ---------------------------
(***************************************************************************)
(* Proofs about QueueTarget, for all constants that satisfy the            *)
(* assumptions of the modules: the variables keep their types, and, unless *)
(* the X server sends events before a target is complete, device and       *)
(* target outlive their users. The window shows the picture that was       *)
(* displayed last, and the Xv port has its colours and its key.            *)
(***************************************************************************)
EXTENDS QueueTarget, TLAPS

\* What World has to be for the types of its variables.
Devices == [state : {"none", "open"}, handle : BOOLEAN, refs : Nat, port : BOOLEAN,
            composited : BOOLEAN, rotated : BOOLEAN, dri2 : {"no", "failed", "ready"},
            inited : BOOLEAN, csc : BOOLEAN, applied : BOOLEAN, old : Colours]
Servers == [overlay : Pictures \cup {None}, front : Pictures \cup {None, "lost", "stale"},
            colours : Colours, key : Keys \cup {None, "refused"}]
Targets == [state : {"none", "live"}, handle : BOOLEAN, refs : 0 .. 2, exit : BOOLEAN,
            threads : BOOLEAN, cur : BOOLEAN, new : BOOLEAN, move : BOOLEAN,
            disp : Pictures \cup {None}, path : {"none", "xv", "dri"},
            drawable : BOOLEAN, pixbuf : {"none", "own", "stale"}, key : BOOLEAN,
            bgOld : Keys \cup {None}, bgNew : Keys \cup {None}]
Worlds == [flags : SUBSET {"xv", "dri", "auto"}, device : Devices,
           server : Servers, target : Targets]

\* What is being displayed.
Displays == [picture : Pictures, dri : BOOLEAN, drew : BOOLEAN]

\* u differs from w in what is displayed only: references, handles and the life of
\* device and target are the same, and so is what the threads go by.
Keeps(w, u) ==
  /\ u \in Worlds
  /\ u.device.state = w.device.state /\ u.device.handle = w.device.handle
  /\ u.device.refs = w.device.refs
  /\ u.target.state = w.target.state /\ u.target.handle = w.target.handle
  /\ u.target.refs = w.target.refs /\ u.target.threads = w.target.threads

\* A call that outlives its last reference to the target, and joins its threads.
Joins == {"join_x11", "signal", "join_redraw"}

\* The device is open while it is referred to.
DeviceInv ==
  /\ device.refs = Bit(device.handle) + Bit(target.state = "live") + Bit(queue)
  /\ device.state = "none" <=> device.refs = 0

\* The target is there while it is referred to, or until its threads are joined.
TargetInv ==
  /\ target.refs = Bit(target.handle) + Bit(queue)
  /\ target.state = "none" => target.refs = 0 /\ ~target.threads /\ app \notin Joins
  /\ target.state = "live" => (target.refs = 0 <=> app \in Joins)
  /\ app \in Joins => target.threads
  /\ app = "starting" => target.state = "live" /\ target.handle /\ ~target.threads

\* The threads run between the target's creation and the joins.
Posting == {"post", "post_move"}
ThreadInv ==
  /\ x11 # "none" => target.threads \/ app = "starting"
  /\ redraw # "none" => target.threads
  /\ locks <=> target.threads
  /\ x11 \in Posting /\ "early_event" \notin admits => locks
  /\ app \in {"signal", "join_redraw"} => x11 = "done"

\* Who has pqt->lock is displaying, or about to.
DisplayInv ==
  /\ owner = Queue => shown \in Displays
  /\ redraw \in {"ending", "moving"} => shown \in Displays
  /\ redraw \in {"move", "ending", "moving"} <=> owner = Redraw

IInv == TypeOK /\ DeviceInv /\ TargetInv /\ ThreadInv /\ DisplayInv

-----------------------------------------------------------------------------
(* The operators on worlds.                                                *)

LEMMA WorldTyped == TypeOK => World \in Worlds
  BY DEF TypeOK, DeviceTypeOK, World, Worlds, Devices, Servers, Targets

LEMMA KeepsSelf == ASSUME NEW w \in Worlds PROVE Keeps(w, w)
  BY DEF Keeps

LEMMA KeepsTrans ==
  ASSUME NEW w, NEW u, NEW v, Keeps(w, u), Keeps(u, v)
  PROVE  Keeps(w, v)
  BY DEF Keeps

LEMMA DrawableKeeps ==
  ASSUME NEW w \in Worlds PROVE Keeps(w, DestroyDrawable(w))
<1> DEFINE box == IF w.target.pixbuf = "own" THEN "stale" ELSE w.target.pixbuf
<1> DEFINE u == [w EXCEPT !.target.drawable = FALSE, !.target.pixbuf = box]
<1>1. box \in {"none", "own", "stale"}  BY DEF Worlds, Targets
<1>2. DestroyDrawable(w) = IF w.target.drawable THEN u ELSE w
  BY DEF DestroyDrawable
<1> HIDE DEF box
<1>3. Keeps(w, u)  BY ZenonT(60), <1>1 DEF Keeps, Worlds, Targets
<1> QED  BY <1>2, <1>3, KeepsSelf

LEMMA OnlyXvTyped ==
  ASSUME NEW f \in SUBSET {"xv", "dri", "auto"}
  PROVE  OnlyXv(f) \in SUBSET {"xv", "dri", "auto"}
  BY DEF OnlyXv

LEMMA GiveUpKeeps ==
  ASSUME NEW w \in Worlds PROVE Keeps(w, GiveUpDri(w))
<1> DEFINE u == DestroyDrawable(w)
<1>1. Keeps(w, u)  BY DrawableKeeps
<1>2. u \in Worlds  BY <1>1 DEF Keeps
<1> HIDE DEF u
<1>3. OnlyXv(u.flags) \in SUBSET {"xv", "dri", "auto"}
  BY <1>2, OnlyXvTyped DEF Worlds
<1>4. Keeps(u, [u EXCEPT !.flags = OnlyXv(@), !.device.dri2 = "failed"])
  BY <1>2, <1>3 DEF Keeps, Worlds, Devices
<1> QED  BY <1>1, <1>4, KeepsTrans DEF GiveUpDri, u

LEMMA PixbufKeeps ==
  ASSUME NEW w \in Worlds, NEW r \in Answers
  PROVE  Keeps(w, UpdatePixbuf(w, r))
<1> DEFINE u == [w EXCEPT !.target.drawable = TRUE, !.target.pixbuf = "none"]
<1>1. Keeps(w, u)  BY DEF Keeps, Worlds, Targets
<1>2. u \in Worlds  BY <1>1 DEF Keeps
<1>3. UpdatePixbuf(w, r) =
        CASE r = "ok" -> [u EXCEPT !.target.pixbuf = "own"]
          [] r = "none" -> u
          [] r = "depth" ->
               [DestroyDrawable(u) EXCEPT !.flags = IF "xv" \in @ THEN @ ELSE {"xv"}]
  BY DEF UpdatePixbuf
<1> HIDE DEF u
<1>4. CASE r = "ok"
  <2>1. Keeps(u, [u EXCEPT !.target.pixbuf = "own"])  BY <1>2 DEF Keeps, Worlds, Targets
  <2> QED  BY <1>1, <1>3, <1>4, <2>1, KeepsTrans
<1>5. CASE r = "none"  BY <1>1, <1>3, <1>5
<1>6. CASE r = "depth"
  <2> DEFINE v == DestroyDrawable(u)
  <2>1. Keeps(u, v)  BY <1>2, DrawableKeeps
  <2>2. v \in Worlds  BY <2>1 DEF Keeps
  <2>3. UpdatePixbuf(w, r) = [v EXCEPT !.flags = IF "xv" \in @ THEN @ ELSE {"xv"}]
    BY <1>3, <1>6
  <2> HIDE DEF v
  <2>4. Keeps(v, [v EXCEPT !.flags = IF "xv" \in @ THEN @ ELSE {"xv"}])
    BY <2>2 DEF Keeps, Worlds
  <2> QED  BY <1>1, <2>1, <2>3, <2>4, KeepsTrans
<1> QED  BY <1>4, <1>5, <1>6 DEF Answers

LEMMA InitDri2Keeps ==
  ASSUME NEW w \in Worlds, NEW connected \in BOOLEAN, NEW r \in Answers
  PROVE  Keeps(w, InitDri2(w, connected, r))
<1> DEFINE u == UpdatePixbuf(w, r)
<1>1. Keeps(w, u)  BY PixbufKeeps
<1>2. u \in Worlds  BY <1>1 DEF Keeps
<1>3. InitDri2(w, connected, r) =
        IF w.device.dri2 # "no" THEN w
        ELSE IF ~connected THEN GiveUpDri(w)
        ELSE IF r = "ok" THEN [u EXCEPT !.device.dri2 = "ready"]
        ELSE GiveUpDri(u)
  BY DEF InitDri2
<1> HIDE DEF u
<1>4. Keeps(u, [u EXCEPT !.device.dri2 = "ready"])  BY <1>2 DEF Keeps, Worlds, Devices
<1>5. Keeps(u, GiveUpDri(u)) /\ Keeps(w, GiveUpDri(w))  BY <1>2, GiveUpKeeps
<1> QED  BY <1>1, <1>3, <1>4, <1>5, KeepsTrans, KeepsSelf

LEMMA BufferKeeps ==
  ASSUME NEW w \in Worlds, NEW fits \in BOOLEAN, NEW r \in Answers
  PROVE  Keeps(w, UpdateBuffer(w, fits, r))
  BY PixbufKeeps, KeepsSelf DEF UpdateBuffer

LEMMA SwapKeeps ==
  ASSUME NEW w \in Worlds, NEW p \in Pictures
  PROVE  Keeps(w, Swap(w, p))
<1> DEFINE front == CASE w.target.pixbuf = "own" -> p
                      [] w.target.pixbuf = "none" -> "lost"
                      [] w.target.pixbuf = "stale" -> "stale"
<1>1. front \in Pictures \cup {None, "lost", "stale"}  BY DEF Worlds, Targets
<1>2. Swap(w, p) = [w EXCEPT !.server.front = front]  BY DEF Swap
<1> HIDE DEF front
<1> QED  BY <1>1, <1>2 DEF Keeps, Worlds, Servers

LEMMA ServerKeeps ==
  ASSUME NEW w \in Worlds, NEW s \in Servers
  PROVE  Keeps(w, [w EXCEPT !.server = s])
  BY DEF Keeps, Worlds

LEMMA StopVideoKeeps ==
  ASSUME NEW w \in Worlds PROVE Keeps(w, StopVideo(w))
<1> DEFINE colours == IF "port_forgets" \in admits THEN None ELSE w.server.colours
           key == IF "port_forgets" \in admits THEN None ELSE w.server.key
           s == [w.server EXCEPT !.overlay = None, !.colours = colours, !.key = key]
<1>1. colours \in Colours /\ key \in Keys \cup {None, "refused"}
  BY DEF Worlds, Servers, Colours
<1>2. StopVideo(w) = [w EXCEPT !.server = s]  BY DEF StopVideo, Worlds
<1> HIDE DEF colours, key
<1>3. s \in Servers  BY <1>1 DEF Worlds, Servers
<1> HIDE DEF s
<1> QED  BY <1>2, <1>3, ServerKeeps

LEMMA ForgetColoursKeeps ==
  ASSUME NEW w \in Worlds PROVE Keeps(w, ForgetColours(w))
  BY DEF ForgetColours, Keeps, Worlds, Devices

LEMMA ToDriKeeps ==
  ASSUME NEW w \in Worlds, NEW transit \in BOOLEAN
  PROVE  Keeps(w, ToDri(w, transit))
<1> DEFINE u == StopVideo(w)
           v == [u EXCEPT !.target.bgOld = None, !.target.path = "dri"]
<1>1. Keeps(w, u)  BY StopVideoKeeps
<1>2. u \in Worlds  BY <1>1 DEF Keeps
<1>3. ToDri(w, transit) = IF transit \/ w.target.path # "dri" THEN ForgetColours(v) ELSE w
  BY DEF ToDri
<1> HIDE DEF u
<1>4. Keeps(u, v)  BY ZenonT(60), <1>2 DEF Keeps, Worlds, Targets
<1>5. v \in Worlds  BY <1>4 DEF Keeps
<1> HIDE DEF v
<1>6. Keeps(v, ForgetColours(v))  BY <1>5, ForgetColoursKeeps
<1> QED  BY <1>1, <1>3, <1>4, <1>6, KeepsTrans, KeepsSelf

LEMMA ToXvKeeps ==
  ASSUME NEW w \in Worlds, NEW transit \in BOOLEAN
  PROVE  Keeps(w, ToXv(w, transit))
<1> DEFINE u == DestroyDrawable(w)
<1>1. Keeps(w, u)  BY DrawableKeeps
<1>2. u \in Worlds  BY <1>1 DEF Keeps
<1>3. ToXv(w, transit) = IF transit \/ w.target.path # "xv"
                         THEN [u EXCEPT !.target.path = "xv"] ELSE w
  BY DEF ToXv
<1> HIDE DEF u
<1>4. Keeps(u, [u EXCEPT !.target.path = "xv"])  BY <1>2 DEF Keeps, Worlds, Targets
<1> QED  BY <1>1, <1>3, <1>4, KeepsTrans, KeepsSelf

\* The colours change the device's notes and the port, no references.
LEMMA PortKeeps ==
  ASSUME NEW w \in Worlds, NEW d \in Devices, NEW s \in Servers,
         d.state = w.device.state, d.handle = w.device.handle, d.refs = w.device.refs
  PROVE  Keeps(w, [w EXCEPT !.device = d, !.server = s])
  BY DEF Keeps, Worlds

LEMMA ColoursKeep ==
  ASSUME NEW w \in Worlds, NEW c \in Pictures, NEW r \in Results
  PROVE  Keeps(w, ApplyColours(w, c, r))
<1> DEFINE s(colours) == [w.server EXCEPT !.colours = colours]
<1>1. c \in Colours /\ None \in Colours  BY DEF Colours
<1>2. s(c) \in Servers /\ s(None) \in Servers  BY <1>1 DEF Worlds, Servers
<1>3. CASE r = "all"
  <2> DEFINE d == [w.device EXCEPT !.applied = TRUE, !.old = c]
  <2>1. /\ d \in Devices /\ d.state = w.device.state
        /\ d.handle = w.device.handle /\ d.refs = w.device.refs
    BY <1>1 DEF Worlds, Devices
  <2>2. SetColours(w, c, r) = [w EXCEPT !.device = d, !.server = s(c)]
    BY <1>3 DEF SetColours, Worlds
  <2> HIDE DEF d, s
  <2>3. Keeps(w, SetColours(w, c, r))  BY <1>2, <2>1, <2>2, PortKeeps
  <2> QED  BY <2>3, KeepsSelf DEF ApplyColours
<1>4. CASE r = "some"
  <2> DEFINE d == [w.device EXCEPT !.applied = FALSE]
  <2>1. /\ d \in Devices /\ d.state = w.device.state
        /\ d.handle = w.device.handle /\ d.refs = w.device.refs
    BY DEF Worlds, Devices
  <2>2. SetColours(w, c, r) = [w EXCEPT !.device = d, !.server = s(None)]
    BY <1>4 DEF SetColours, Worlds
  <2> HIDE DEF d, s
  <2>3. Keeps(w, SetColours(w, c, r))  BY <1>2, <2>1, <2>2, PortKeeps
  <2> QED  BY <2>3, KeepsSelf DEF ApplyColours
<1>5. CASE r = "update"
  <2> DEFINE d == [w.device EXCEPT !.applied = FALSE, !.csc = FALSE]
  <2>1. /\ d \in Devices /\ d.state = w.device.state
        /\ d.handle = w.device.handle /\ d.refs = w.device.refs
    BY DEF Worlds, Devices
  <2>2. SetColours(w, c, r) = [w EXCEPT !.device = d, !.server = s(None)]
    BY <1>5 DEF SetColours, Worlds
  <2> HIDE DEF d, s
  <2>3. Keeps(w, SetColours(w, c, r))  BY <1>2, <2>1, <2>2, PortKeeps
  <2> QED  BY <2>3, KeepsSelf DEF ApplyColours
<1> QED  BY <1>3, <1>4, <1>5 DEF Results

LEMMA PutImageKeeps ==
  ASSUME NEW w \in Worlds, NEW p \in Pictures, NEW r \in Results
  PROVE  Keeps(w, PutImage(w, p, r))
<1> DEFINE u == [w EXCEPT !.server.overlay = p]
<1>1. Keeps(w, u)  BY DEF Keeps, Worlds, Servers
<1>2. u \in Worlds  BY <1>1 DEF Keeps
<1>3. PutImage(w, p, r) = IF p \in Overlays THEN ApplyColours(u, p, r) ELSE u
  BY DEF PutImage
<1> HIDE DEF u
<1> QED  BY <1>1, <1>2, <1>3, ColoursKeep, KeepsTrans

LEMMA BackgroundKeeps ==
  ASSUME NEW w \in Worlds, NEW keyOk \in BOOLEAN
  PROVE  Keeps(w, DrawBackground(w, keyOk))
<1> DEFINE u == [w EXCEPT !.server.front = None]
<1>1. Keeps(w, u)  BY DEF Keeps, Worlds, Servers
<1>2. u \in Worlds  BY <1>1 DEF Keeps
<1>3. DrawBackground(w, keyOk) =
        IF w.target.bgOld = w.target.bgNew THEN w
        ELSE IF w.target.key => keyOk THEN [u EXCEPT !.server.key = w.target.bgNew]
        ELSE [u EXCEPT !.server.key = "refused", !.flags = (@ \ {"xv"}) \cup {"dri"}]
  BY DEF DrawBackground
<1> HIDE DEF u
<1>4. w.target.bgNew \in Keys \cup {None}  BY DEF Worlds, Targets
<1>5. Keeps(u, [u EXCEPT !.server.key = w.target.bgNew])
  BY <1>2, <1>4 DEF Keeps, Worlds, Servers
<1>6. Keeps(u, [u EXCEPT !.server.key = "refused", !.flags = (@ \ {"xv"}) \cup {"dri"}])
  BY <1>2 DEF Keeps, Worlds, Servers
<1> QED  BY <1>1, <1>3, <1>5, <1>6, KeepsTrans, KeepsSelf

-----------------------------------------------------------------------------
(* A display.                                                              *)

LEMMA OutcomeTyped ==
  ASSUME NEW o \in Outcomes
  PROVE  /\ o.connected \in BOOLEAN /\ o.buffer \in Answers /\ o.fits \in BOOLEAN
         /\ o.colours \in Results /\ o.key \in BOOLEAN
  BY TargetAssumption DEF Outcome

LEMMA DisplayKeeps ==
  ASSUME NEW w \in Worlds, NEW p \in Pictures, NEW transit \in BOOLEAN, NEW o \in Outcomes
  PROVE  Keeps(w, DisplayDri(w, p, transit, o)) /\ Keeps(w, DisplayXv(w, p, o))
<1> USE OutcomeTyped
<1>1. Keeps(w, DisplayDri(w, p, transit, o))
  <2> DEFINE u == UpdateBuffer(w, o.fits, o.buffer)
             v == Swap(u, p)
  <2>1. Keeps(w, u)  BY BufferKeeps
  <2>2. u \in Worlds  BY <2>1 DEF Keeps
  <2>3. DisplayDri(w, p, transit, o) = ToDri(v, transit)  BY DEF DisplayDri
  <2> HIDE DEF u
  <2>4. Keeps(u, v)  BY <2>2, SwapKeeps
  <2>5. v \in Worlds  BY <2>4 DEF Keeps
  <2> HIDE DEF v
  <2>6. Keeps(v, ToDri(v, transit))  BY <2>5, ToDriKeeps
  <2> QED  BY <2>1, <2>3, <2>4, <2>6, KeepsTrans
<1>2. Keeps(w, DisplayXv(w, p, o))
  <2> DEFINE u == PutImage(w, p, o.colours)
  <2>1. Keeps(w, u)  BY PutImageKeeps
  <2>2. u \in Worlds  BY <2>1 DEF Keeps
  <2>3. DisplayXv(w, p, o) = DrawBackground(u, o.key)  BY DEF DisplayXv
  <2> HIDE DEF u
  <2>4. Keeps(u, DrawBackground(u, o.key))  BY <2>2, BackgroundKeeps
  <2> QED  BY <2>1, <2>3, <2>4, KeepsTrans
<1> QED  BY <1>1, <1>2

LEMMA Became ==
  ASSUME NEW v \in Worlds, Becomes(v)
  PROVE  World' = v
  BY DEF World, Becomes, Worlds

LEMMA ShowsKeeps ==
  ASSUME NEW w \in Worlds, NEW who, NEW p \in Pictures, NEW transit \in BOOLEAN,
         NEW o \in Outcomes, Shows(w, who, p, transit, o)
  PROVE  owner' = who /\ shown' \in Displays /\ Keeps(w, World')
<1> DEFINE u == IF Overlapped(w) THEN InitDri2(w, o.connected, o.buffer) ELSE w
           v == IF UseDri(u) THEN DisplayDri(u, p, transit, o) ELSE DisplayXv(u, p, o)
<1>1. /\ owner' = who
      /\ shown' = [picture |-> p, dri |-> UseDri(u), drew |-> u.target.bgOld # u.target.bgNew]
      /\ Becomes(v)
  BY DEF Shows
<1>2. Keeps(w, u)  BY OutcomeTyped, InitDri2Keeps, KeepsSelf
<1>3. u \in Worlds  BY <1>2 DEF Keeps
<1> HIDE DEF u
<1>4. Keeps(u, v)  BY <1>3, DisplayKeeps
<1>5. v \in Worlds  BY <1>4 DEF Keeps
<1> HIDE DEF v
<1>6. UseDri(u) \in BOOLEAN  BY DEF UseDri
<1>7. shown' \in Displays  BY <1>1, <1>6 DEF Displays
<1> QED  BY <1>1, <1>2, <1>4, <1>5, <1>7, Became, KeepsTrans

LEMMA FinishKeeps ==
  ASSUME NEW transit \in BOOLEAN, World \in Worlds, shown \in Displays, Finish(transit)
  PROVE  Keeps(World, World')
<1> DEFINE w == [World EXCEPT !.target.disp = shown.picture]
           box == [w EXCEPT !.target.bgOld = w.target.bgNew]
           u == IF shown.drew THEN box ELSE w
           v == IF shown.dri THEN w ELSE ToXv(u, transit)
<1>1. Keeps(World, w)  BY DEF Keeps, Worlds, Targets, Displays
<1>2. w \in Worlds  BY <1>1 DEF Keeps
<1>3. Becomes(v)  BY DEF Finish, EndXv
<1> HIDE DEF w
<1>4. w.target.bgNew \in Keys \cup {None}  BY <1>2 DEF Worlds, Targets
<1>5. Keeps(w, box)  BY <1>2, <1>4 DEF Keeps, Worlds, Targets
<1>6. Keeps(w, u)  BY <1>2, <1>5, KeepsSelf
<1>7. u \in Worlds  BY <1>6 DEF Keeps
<1> HIDE DEF u
<1>8. Keeps(w, v)  BY <1>2, <1>6, <1>7, ToXvKeeps, KeepsTrans, KeepsSelf
<1>9. v \in Worlds  BY <1>8 DEF Keeps
<1> HIDE DEF v
<1> QED  BY <1>1, <1>3, <1>8, <1>9, Became, KeepsTrans

-----------------------------------------------------------------------------
(* The steps.                                                              *)

AppSteps == {"idle", "starting", "recolour", "join_x11", "signal", "join_redraw"}
X11Steps == {"none", "top", "select", "post", "post_move", "done"}
RedrawSteps == {"none", "top", "check", "wait", "woken", "apply", "ending", "move",
                "moving", "done"}

\* The types of what World does not hold.
RestOK ==
  /\ setup \in Setups
  /\ {queue, held, locks, seen} \subseteq BOOLEAN
  /\ app \in AppSteps /\ x11 \in X11Steps /\ redraw \in RedrawSteps
  /\ owner \in {None, Queue, Redraw} /\ shown \in {None} \cup Displays
  /\ admits \in Admits

LEMMA TypeSplit == TypeOK <=> World \in Worlds /\ RestOK
  BY DEF TypeOK, DeviceTypeOK, World, Worlds, Devices, Servers, Targets, RestOK,
         AppSteps, X11Steps, RedrawSteps, Displays

LEMMA KeptOwners ==
  ASSUME Keeps(World, World')
  PROVE  /\ World' \in Worlds
         /\ device'.state = device.state /\ device'.handle = device.handle
         /\ device'.refs = device.refs
         /\ target'.state = target.state /\ target'.handle = target.handle
         /\ target'.refs = target.refs /\ target'.threads = target.threads
  BY DEF Keeps, World

\* A step that only displays, or moves a thread.
LEMMA KeepsInv ==
  ASSUME IInv, Keeps(World, World'), RestOK', DisplayInv',
         UNCHANGED <<queue, locks, admits>>,
         app' \in Joins <=> app \in Joins,
         app' = "starting" <=> app = "starting",
         x11' # "none" <=> x11 # "none",
         redraw' # "none" <=> redraw # "none",
         x11' \in Posting => x11 \in Posting \/ locks \/ "early_event" \in admits,
         app' \in {"signal", "join_redraw"} => x11' = "done"
  PROVE  IInv'
<1>1. TypeOK'
  <2>1. (World \in Worlds /\ RestOK => TypeOK)'  BY TypeSplit, PTL
  <2> QED  BY <2>1, KeptOwners
<1>2. DeviceInv'  BY KeptOwners DEF IInv, DeviceInv
<1>3. TargetInv'  BY KeptOwners DEF IInv, TargetInv
<1>4. ThreadInv'  BY KeptOwners DEF IInv, ThreadInv
<1> QED  BY <1>1, <1>2, <1>3, <1>4 DEF IInv

LEMMA SameWorld ==
  ASSUME IInv, UNCHANGED <<flags, device, server, target>>
  PROVE  Keeps(World, World')
  BY TypeSplit, KeepsSelf DEF IInv, World

\* A step that notes something in the target.
LEMMA TargetKeeps ==
  ASSUME IInv, UNCHANGED <<flags, device, server>>, target' \in Targets,
         target'.state = target.state, target'.handle = target.handle,
         target'.refs = target.refs, target'.threads = target.threads
  PROVE  Keeps(World, World')
<1>1. World \in Worlds  BY TypeSplit DEF IInv
<1>2. World' = [flags |-> flags, device |-> device, server |-> server, target |-> target']
  BY DEF World
<1>3. World' \in Worlds  BY <1>1, <1>2 DEF World, Worlds
<1> QED  BY <1>2, <1>3 DEF Keeps, World

LEMMA QueueSteps ==
  ASSUME IInv, QueueThread
  PROVE  IInv'
<1> USE DEF RestOK
<1>0. /\ World \in Worlds /\ RestOK /\ DisplayInv
      /\ app \in {"signal", "join_redraw"} => x11 = "done"
  BY TypeSplit DEF IInv, ThreadInv
<1>1. CASE EndDisplay
  <2>1. shown \in Displays  BY <1>0, <1>1 DEF EndDisplay, DisplayInv
  <2>2. Keeps(World, World')  BY <1>0, <1>1, <2>1, FinishKeeps DEF EndDisplay
  <2>3. DisplayInv'  BY <1>0, <1>1, TargetAssumption, DisplayAssumption DEF EndDisplay, DisplayInv, pcs
  <2>4. RestOK'  BY <1>0, <1>1 DEF EndDisplay, pcs
  <2> QED  BY <1>0, <1>1, <2>2, <2>3, <2>4, KeepsInv DEF EndDisplay, pcs
<1>2. ASSUME NEW o \in Outcomes, Prepare(o) PROVE IInv'
  <2> DEFINE w == InitDri2(World, o.connected, o.buffer)
             u == IF w.device.dri2 = "ready" /\ Overlapped(w)
                  THEN UpdateBuffer(w, o.fits, o.buffer) ELSE w
  <2>1. Keeps(World, w)  BY <1>0, OutcomeTyped, InitDri2Keeps
  <2>2. Becomes(u)  BY <1>2 DEF Prepare
  <2>3. w \in Worlds  BY <2>1 DEF Keeps
  <2> HIDE DEF w
  <2>4. Keeps(w, u)  BY <2>3, OutcomeTyped, BufferKeeps, KeepsSelf
  <2>5. u \in Worlds  BY <2>4 DEF Keeps
  <2> HIDE DEF u
  <2>6. Keeps(World, World')  BY <2>1, <2>2, <2>4, <2>5, Became, KeepsTrans
  <2>7. DisplayInv' /\ RestOK'  BY <1>0, <1>2 DEF Prepare, DisplayInv, pcs
  <2> QED  BY <1>0, <1>2, <2>6, <2>7, KeepsInv DEF Prepare, pcs
<1>3. ASSUME NEW o \in Outcomes, NEW p \in Pictures, Display(p, o) PROVE IInv'
  <2>1. owner' = Queue /\ shown' \in Displays /\ Keeps(World, World')
    BY <1>0, <1>3, ShowsKeeps DEF Display
  <2>3. DisplayInv'
    BY <1>0, <1>3, <2>1, TargetAssumption DEF Display, DisplayInv, pcs
  <2>4. RestOK'  BY <1>0, <1>3, <2>1 DEF Display, pcs
  <2> QED  BY <1>0, <1>3, <2>1, <2>3, <2>4, KeepsInv DEF Display, pcs
<1> QED  BY <1>1, <1>2, <1>3 DEF QueueThread

LEMMA WindowSteps ==
  ASSUME IInv, X11Thread \/ Window
  PROVE  IInv'
<1> USE DEF RestOK, X11Steps, RedrawSteps, AppSteps, Posting
<1>0. /\ World \in Worlds /\ RestOK /\ DisplayInv
      /\ app \in {"signal", "join_redraw"} => x11 = "done"
  BY TypeSplit DEF IInv, ThreadInv
<1>1. CASE X11Loop \/ X11Timeout \/ Window
  <2>1. Keeps(World, World')
    BY <1>1, SameWorld DEF X11Loop, X11Timeout, Window, X11Move, X11Visibility, deviceVars,
                           targetVars
  <2>2. /\ UNCHANGED <<setup, queue, held, locks, owner, shown, app, redraw, seen, admits>>
        /\ x11 \in {"top", "select"} /\ x11' \in X11Steps \ {"none"}
        /\ x11' \in Posting => locks \/ "early_event" \in admits
    BY <1>1 DEF X11Loop, X11Timeout, Window, X11Move, X11Visibility, MayEvent, deviceVars,
                targetVars
  <2>3. DisplayInv' /\ RestOK'  BY <1>0, <2>2 DEF DisplayInv
  <2> QED  BY <1>0, <2>1, <2>2, <2>3, KeepsInv
<1>2. CASE X11Post
  <2>1. UNCHANGED <<setup, flags, device, server, queue, held, locks, owner, shown, app, seen,
                    admits>>
    BY <1>2 DEF X11Post, deviceVars
  <2>2. /\ x11 \in Posting /\ x11' = "top" /\ redraw' = Woken
        /\ target' = IF x11 = "post" THEN [target EXCEPT !.new = ~@]
                                     ELSE [target EXCEPT !.move = TRUE]
    BY <1>2 DEF X11Post
  <2>3. target \in Targets  BY <1>0 DEF World, Worlds
  <2>4. Keeps(World, World')
    <3>1. [target EXCEPT !.move = TRUE] \in Targets  BY <2>3 DEF Targets
    <3>2. \A b \in BOOLEAN : [target EXCEPT !.new = b] \in Targets  BY <2>3 DEF Targets
    <3>3. target' \in Targets
      <4>1. (~target.new) \in BOOLEAN  OBVIOUS
      <4>2. [target EXCEPT !.new = ~target.new] \in Targets  BY <3>2, <4>1
      <4> QED  BY <2>2, <3>1, <4>2
    <3>4. /\ target'.state = target.state /\ target'.handle = target.handle
          /\ target'.refs = target.refs /\ target'.threads = target.threads
      BY <2>2, <2>3 DEF Targets
    <3> QED  BY <2>1, <3>3, <3>4, TargetKeeps
  <2>5. /\ redraw' \in RedrawSteps /\ (redraw' # "none" <=> redraw # "none")
        /\ redraw' # redraw => redraw = "wait" /\ redraw' = "woken"
    BY <1>0, <2>2 DEF Woken
  <2>6. DisplayInv' /\ RestOK'  BY <1>0, <2>1, <2>2, <2>5 DEF DisplayInv
  <2> QED  BY <1>0, <2>1, <2>2, <2>4, <2>5, <2>6, KeepsInv
<1> QED  BY <1>1, <1>2 DEF X11Thread

LEMMA RedrawThreadSteps ==
  ASSUME IInv, RedrawThread \/ RedrawSpurious
  PROVE  IInv'
<1> USE DEF RestOK, X11Steps, RedrawSteps, AppSteps
<1>0. /\ World \in Worlds /\ RestOK /\ DisplayInv
      /\ app \in {"signal", "join_redraw"} => x11 = "done"
  BY TypeSplit DEF IInv, ThreadInv
<1>a. target \in Targets  BY <1>0 DEF World, Worlds
<1>b. Queue # Redraw /\ None \notin {Queue, Redraw}  BY TargetAssumption
<1>1. CASE RedrawLoop \/ RedrawCheck \/ RedrawWake \/ RedrawSpurious
  <2>1. Keeps(World, World')
    BY <1>1, SameWorld DEF RedrawLoop, RedrawCheck, RedrawWake, RedrawSpurious, deviceVars,
                           targetVars
  <2>2. /\ UNCHANGED <<setup, queue, locks, owner, shown, app, x11, admits>>
        /\ redraw \in {"top", "check", "woken", "wait"}
        /\ redraw' \in {"done", "check", "wait", "apply", "woken"}
        /\ {seen', held'} \subseteq BOOLEAN
    BY <1>0, <1>1, <1>a DEF RedrawLoop, RedrawCheck, RedrawWake, RedrawSpurious, deviceVars,
                            targetVars, Targets
  <2>3. DisplayInv' /\ RestOK'  BY <1>0, <2>2 DEF DisplayInv
  <2> QED  BY <1>0, <2>1, <2>2, <2>3, KeepsInv
<1>2. ASSUME NEW o \in Outcomes, RedrawOverlap(o) PROVE IInv'
  <2> DEFINE w == [World EXCEPT !.target.cur = seen]
  <2>1. /\ UNCHANGED <<setup, queue, held, locks, app, x11, admits>>
        /\ redraw = "apply" /\ seen' = FALSE
        /\ IF target.cur # seen /\ target.disp # None
           THEN Shows(w, Redraw, target.disp, TRUE, o) /\ redraw' = "ending"
           ELSE Becomes(w) /\ owner' = Redraw /\ redraw' = "move" /\ UNCHANGED shown
    BY <1>2 DEF RedrawOverlap
  <2>2. Keeps(World, w)  BY <1>0 DEF Keeps, Worlds, Targets
  <2>3. w \in Worlds  BY <2>2 DEF Keeps
  <2> HIDE DEF w
  <2>4. CASE target.cur # seen /\ target.disp # None
    <3>1. target.disp \in Pictures  BY <1>a, <2>4 DEF Targets
    <3>2. owner' = Redraw /\ shown' \in Displays /\ Keeps(w, World')
      BY <2>1, <2>3, <2>4, <3>1, ShowsKeeps
    <3>3. Keeps(World, World')  BY <2>2, <3>2, KeepsTrans
    <3>4. DisplayInv' /\ RestOK'  BY <1>0, <1>b, <2>1, <2>4, <3>2 DEF DisplayInv
    <3> QED  BY <1>0, <2>1, <2>4, <3>3, <3>4, KeepsInv
  <2>5. CASE ~(target.cur # seen /\ target.disp # None)
    <3>1. Becomes(w) /\ owner' = Redraw /\ redraw' = "move" /\ UNCHANGED shown
      BY <2>1, <2>5
    <3>2. Keeps(World, World')  BY <2>2, <2>3, <3>1, Became
    <3>3. DisplayInv' /\ RestOK'  BY <1>0, <1>b, <2>1, <3>1 DEF DisplayInv
    <3> QED  BY <1>0, <2>1, <3>1, <3>2, <3>3, KeepsInv
  <2> QED  BY <2>4, <2>5
<1>3. ASSUME NEW o \in Outcomes, RedrawMove(o) PROVE IInv'
  <2> DEFINE w == [World EXCEPT !.target.move = FALSE]
  <2>1. /\ UNCHANGED <<setup, queue, held, locks, app, x11, seen, admits>>
        /\ redraw = "move"
        /\ IF target.move /\ target.disp # None
           THEN Shows(w, Redraw, target.disp, FALSE, o) /\ redraw' = "moving"
           ELSE Becomes(w) /\ owner' = None /\ redraw' = "top" /\ UNCHANGED shown
    BY <1>3 DEF RedrawMove
  <2>2. Keeps(World, w)  BY <1>0 DEF Keeps, Worlds, Targets
  <2>3. w \in Worlds  BY <2>2 DEF Keeps
  <2> HIDE DEF w
  <2>4. CASE target.move /\ target.disp # None
    <3>1. target.disp \in Pictures  BY <1>a, <2>4 DEF Targets
    <3>2. owner' = Redraw /\ shown' \in Displays /\ Keeps(w, World')
      BY <2>1, <2>3, <2>4, <3>1, ShowsKeeps
    <3>3. Keeps(World, World')  BY <2>2, <3>2, KeepsTrans
    <3>4. DisplayInv' /\ RestOK'  BY <1>0, <1>b, <2>1, <2>4, <3>2 DEF DisplayInv
    <3> QED  BY <1>0, <2>1, <2>4, <3>3, <3>4, KeepsInv
  <2>5. CASE ~(target.move /\ target.disp # None)
    <3>1. Becomes(w) /\ owner' = None /\ redraw' = "top" /\ UNCHANGED shown
      BY <2>1, <2>5
    <3>2. Keeps(World, World')  BY <2>2, <2>3, <3>1, Became
    <3>3. DisplayInv' /\ RestOK'  BY <1>0, <1>b, <2>1, <3>1 DEF DisplayInv
    <3> QED  BY <1>0, <2>1, <3>1, <3>2, <3>3, KeepsInv
  <2> QED  BY <2>4, <2>5
<1>4. CASE RedrawEnd
  <2>1. /\ UNCHANGED <<setup, queue, held, locks, app, x11, seen, admits>>
        /\ redraw \in {"ending", "moving"} /\ shown' = None
        /\ Finish(redraw = "ending")
        /\ IF redraw = "ending" THEN redraw' = "move" /\ UNCHANGED owner
                                ELSE redraw' = "top" /\ owner' = None
    BY <1>4 DEF RedrawEnd
  <2>2. shown \in Displays /\ owner = Redraw  BY <1>0, <2>1 DEF DisplayInv
  <2>3. Keeps(World, World')  BY <1>0, <2>1, <2>2, FinishKeeps
  <2>4. DisplayInv' /\ RestOK'  BY <1>0, <1>b, <2>1, <2>2 DEF DisplayInv
  <2> QED  BY <1>0, <2>1, <2>3, <2>4, KeepsInv
<1> QED  BY <1>1, <1>2, <1>3, <1>4 DEF RedrawThread

-----------------------------------------------------------------------------
(* The calls that change who holds what.                                   *)

LEMMA NothingTyped == NoDevice \in Devices /\ NoTarget \in Targets
  BY TargetAssumption DEF NoDevice, NoTarget, Devices, Targets, Colours

LEMMA PutDeviceTyped ==
  ASSUME NEW dv \in Devices, dv.refs # 0
  PROVE  /\ PutDevice(dv) \in Devices /\ PutDevice(dv).refs = dv.refs - 1
         /\ PutDevice(dv).handle <=> dv.handle /\ dv.refs # 1
         /\ PutDevice(dv).state = IF dv.refs = 1 THEN "none" ELSE dv.state
<1>1. CASE dv.refs = 1
  <2>1. PutDevice(dv) = NoDevice  BY <1>1 DEF PutDevice
  <2>2. ~NoDevice.handle /\ NoDevice.refs = 0 /\ NoDevice.state = "none"  BY DEF NoDevice
  <2> QED  BY <1>1, <2>1, <2>2, NothingTyped
<1>2. CASE dv.refs # 1
  <2>1. dv.refs - 1 \in Nat  BY DEF Devices
  <2>2. PutDevice(dv) = [dv EXCEPT !.refs = dv.refs - 1]  BY <1>2 DEF PutDevice
  <2>3. /\ PutDevice(dv) \in Devices /\ PutDevice(dv).refs = dv.refs - 1
        /\ PutDevice(dv).handle = dv.handle /\ PutDevice(dv).state = dv.state
    BY <2>1, <2>2 DEF Devices
  <2> QED  BY <1>2, <2>3
<1> QED  BY <1>1, <1>2

\* Tearing down puts the device and leaves no target.
LEMMA TearDownDoes ==
  ASSUME NEW w \in Worlds, w.device.refs # 0
  PROVE  /\ TearDown(w) \in Worlds /\ TearDown(w).target = NoTarget
         /\ TearDown(w).device.refs = w.device.refs - 1
         /\ TearDown(w).device.handle <=> w.device.handle /\ w.device.refs # 1
         /\ TearDown(w).device.state = IF w.device.refs = 1 THEN "none" ELSE w.device.state
<1> DEFINE u == CASE w.target.path = "xv" -> StopVideo(w)
                  [] w.target.path = "dri" -> DestroyDrawable(w)
                  [] w.target.path = "none" -> w
           d == PutDevice(u.device)
<1>1. w.target.path \in {"xv", "dri", "none"}  BY DEF Worlds, Targets
<1>2. Keeps(w, u)  BY <1>1, StopVideoKeeps, DrawableKeeps, KeepsSelf
<1>3. TearDown(w) = [u EXCEPT !.device = d, !.target = NoTarget]  BY DEF TearDown
<1> HIDE DEF u
<1>4. u \in Worlds /\ u.device \in Devices /\ u.device.refs # 0  BY <1>2 DEF Keeps, Worlds
<1>5. /\ d \in Devices /\ d.refs = u.device.refs - 1
      /\ d.handle <=> u.device.handle /\ u.device.refs # 1
      /\ d.state = IF u.device.refs = 1 THEN "none" ELSE u.device.state
  BY <1>4, PutDeviceTyped
<1> HIDE DEF d
<1>6. TearDown(w) \in Worlds /\ TearDown(w).device = d /\ TearDown(w).target = NoTarget
  BY <1>3, <1>4, <1>5, NothingTyped DEF Worlds
<1> QED  BY <1>2, <1>5, <1>6 DEF Keeps

\* A reference less, the end of the threads, or the end of the target.
LEMMA UnrefDoes ==
  ASSUME NEW w \in Worlds, w.target.refs # 0, w.device.refs # 0, Unref(w)
  PROVE  /\ World' \in Worlds
         /\ \/ /\ w.target.refs = 1 /\ ~w.target.threads
               /\ target' = NoTarget /\ UNCHANGED app
               /\ device'.refs = w.device.refs - 1
               /\ device'.handle <=> w.device.handle /\ w.device.refs # 1
               /\ device'.state = IF w.device.refs = 1 THEN "none" ELSE w.device.state
            \/ /\ target'.refs = w.target.refs - 1
               /\ target'.state = w.target.state /\ target'.handle = w.target.handle
               /\ target'.threads = w.target.threads
               /\ device' = w.device
               /\ \/ w.target.refs # 1 /\ UNCHANGED app
                  \/ w.target.refs = 1 /\ w.target.threads /\ app' = "join_x11"
<1> DEFINE u == [w EXCEPT !.target.refs = @ - 1]
<1>1. /\ u \in Worlds /\ u.device = w.device /\ u.target.refs = w.target.refs - 1
      /\ u.target.state = w.target.state /\ u.target.handle = w.target.handle
      /\ u.target.threads = w.target.threads
  <2>1. w.target.refs - 1 \in 0 .. 2  BY DEF Worlds, Targets
  <2> QED  BY <2>1 DEF Worlds, Targets
<1>2. IF u.target.refs > 0 THEN Becomes(u) /\ UNCHANGED app
      ELSE IF u.target.threads THEN Becomes(u) /\ app' = "join_x11"
      ELSE Becomes(TearDown(u)) /\ UNCHANGED app
  BY DEF Unref
<1> HIDE DEF u
<1>3. w.target.refs \in 1 .. 2 /\ w.device.refs \in Nat  BY DEF Worlds, Targets, Devices
<1>4. CASE u.target.refs > 0 \/ u.target.threads
  <2>1. World' = u  BY <1>1, <1>2, <1>4, Became
  <2>2. target' = u.target /\ device' = u.device  BY <2>1 DEF World
  <2> QED  BY <1>1, <1>2, <1>3, <1>4, <2>1, <2>2
<1>5. CASE ~(u.target.refs > 0 \/ u.target.threads)
  <2>1. /\ TearDown(u) \in Worlds /\ TearDown(u).target = NoTarget
        /\ TearDown(u).device.refs = w.device.refs - 1
        /\ TearDown(u).device.handle <=> w.device.handle /\ w.device.refs # 1
        /\ TearDown(u).device.state = IF w.device.refs = 1 THEN "none" ELSE w.device.state
    BY <1>1, TearDownDoes
  <2>2. World' = TearDown(u) /\ UNCHANGED app  BY <1>2, <1>5, <2>1, Became
  <2>3. target' = TearDown(u).target /\ device' = TearDown(u).device  BY <2>2 DEF World
  <2> QED  BY <1>1, <1>3, <1>5, <2>1, <2>2, <2>3
<1> QED  BY <1>4, <1>5

\* What holds of target and device in every call.
LEMMA Holders ==
  ASSUME IInv
  PROVE  /\ World \in Worlds /\ RestOK /\ DisplayInv /\ ThreadInv
         /\ target \in Targets /\ device \in Devices
         /\ target.state \in {"none", "live"} /\ target.refs \in 0 .. 2
         /\ target.refs = Bit(target.handle) + Bit(queue)
         /\ device.refs = Bit(device.handle) + Bit(target.state = "live") + Bit(queue)
<1>1. World \in Worlds /\ RestOK  BY TypeSplit DEF IInv
<1>2. target \in Targets /\ device \in Devices  BY <1>1 DEF World, Worlds
<1> QED  BY <1>1, <1>2 DEF IInv, Targets, DeviceInv, TargetInv

\* The invariant of the next state from its parts.
LEMMA Closes ==
  ASSUME World' \in Worlds, RestOK', DeviceInv', TargetInv', ThreadInv', DisplayInv'
  PROVE  IInv'
<1>1. (World \in Worlds /\ RestOK => TypeOK)'  BY TypeSplit, PTL
<1> QED  BY <1>1 DEF IInv

LEMMA DeviceSteps ==
  ASSUME IInv, DeviceCall
  PROVE  IInv'
<1> USE DEF RestOK
<1>0. /\ UNCHANGED <<target, queue, held, locks, owner, shown, app, x11, redraw, seen, admits>>
      /\ app = "idle"
  BY DEF DeviceCall, targetVars, pcs
<1>1. DisplayInv'  BY <1>0, Holders DEF DisplayInv
<1>2. CASE CreateDevice
  <2>1. /\ device.state = "none" /\ UNCHANGED <<setup, server>>
        /\ flags' \in {Wished, Authenticated, Autoswitch}
        /\ device' = device \/ device' = NewDevice
    BY <1>2 DEF CreateDevice
  <2>2. flags \subseteq {"xv", "dri", "auto"}  BY Holders DEF World, Worlds
  <2>3. Wished \subseteq {"xv", "dri", "auto"}  BY <2>2 DEF Wished
  <2>4. Authenticated \subseteq {"xv", "dri", "auto"}  BY <2>3 DEF Authenticated, OnlyXv
  <2>5. Autoswitch \subseteq {"xv", "dri", "auto"}  BY <2>4 DEF Autoswitch, Grabbed
  <2>6. /\ NewDevice \in Devices /\ NewDevice.handle /\ NewDevice.refs = 1
        /\ NewDevice.state = "open"
    <3>1. Has("port") \in BOOLEAN  BY DEF Has
    <3> QED  BY <3>1, NothingTyped DEF NewDevice, NoDevice, Devices
  <2>7. World' \in Worlds  BY <2>1, <2>2, <2>3, <2>4, <2>5, <2>6, <1>0, Holders DEF World, Worlds
  <2>8. RestOK'  BY <1>0, <2>1, Holders
  <2>9. device.refs = 0 /\ target.state = "none" /\ ~queue /\ ~device.handle
    BY <2>1, Holders DEF IInv, DeviceInv, Bit
  <2>10. DeviceInv' /\ TargetInv' /\ ThreadInv'
    BY <1>0, <2>1, <2>6, <2>9, Holders DEF IInv, DeviceInv, TargetInv, ThreadInv, Bit
  <2> QED  BY <1>1, <2>7, <2>8, <2>10, Closes
<1>3. CASE DestroyDevice
  <2> DEFINE dv == [device EXCEPT !.handle = FALSE]
  <2>1. device.handle /\ device' = PutDevice(dv) /\ UNCHANGED <<setup, flags, server>>
    BY <1>3 DEF DestroyDevice
  <2>2. /\ dv \in Devices /\ dv.refs = device.refs /\ ~dv.handle
        /\ dv.state = device.state
    BY Holders DEF Devices
  <2> HIDE DEF dv
  <2>a. device.refs # 0  BY <2>1, Holders DEF Bit
  <2>3. /\ device' \in Devices /\ device'.refs = device.refs - 1 /\ ~device'.handle
        /\ device'.state = IF device.refs = 1 THEN "none" ELSE device.state
    BY <2>1, <2>2, <2>a, PutDeviceTyped
  <2>4. World' \in Worlds  BY <1>0, <2>1, <2>3, Holders DEF World, Worlds
  <2>5. RestOK'  BY <1>0, <2>1, Holders
  <2>6. DeviceInv' /\ TargetInv' /\ ThreadInv'
    BY <1>0, <2>1, <2>3, Holders DEF IInv, DeviceInv, TargetInv, ThreadInv, Bit, Devices
  <2> QED  BY <1>1, <2>4, <2>5, <2>6, Closes
<1>4. ASSUME NEW r \in Results, InitColours(r) PROVE IInv'
  <2> DEFINE w == [device |-> device, server |-> server]
             u == SetColours(w, Default, r)
  <2>1. /\ UNCHANGED <<setup, flags>>
        /\ IF Has("csc")
           THEN /\ device' = [u.device EXCEPT !.inited = TRUE, !.csc = (r = "all")]
                /\ server' = u.server
           ELSE device' = [device EXCEPT !.inited = TRUE] /\ UNCHANGED server
    BY <1>4 DEF InitColours
  <2>2. server \in Servers /\ device \in Devices  BY Holders DEF World, Worlds
  <2>3. /\ u.device \in Devices /\ u.server \in Servers
        /\ u.device.state = device.state /\ u.device.handle = device.handle
        /\ u.device.refs = device.refs
    BY ZenonT(60), <2>2 DEF SetColours, Results, Devices, Servers, Colours
  <2> HIDE DEF u
  <2>4. /\ device' \in Devices /\ server' \in Servers
        /\ device'.state = device.state /\ device'.handle = device.handle
        /\ device'.refs = device.refs
    <3>1. (r = "all") \in BOOLEAN  OBVIOUS
    <3>2. \A b \in BOOLEAN, d \in Devices : [d EXCEPT !.inited = TRUE, !.csc = b] \in Devices
      BY DEF Devices
    <3>3. \A d \in Devices : [d EXCEPT !.inited = TRUE] \in Devices  BY DEF Devices
    <3>4. device' \in Devices /\ server' \in Servers  BY <2>1, <2>2, <2>3, <3>1, <3>2, <3>3
    <3> QED  BY ZenonT(60), <2>1, <2>2, <2>3, <3>4 DEF Devices
  <2>5. World' \in Worlds  BY <1>0, <2>1, <2>4, Holders DEF World, Worlds
  <2>6. RestOK'  BY <1>0, <2>1, Holders
  <2>7. DeviceInv' /\ TargetInv' /\ ThreadInv'
    BY <1>0, <2>1, <2>4, Holders DEF IInv, DeviceInv, TargetInv, ThreadInv
  <2> QED  BY <1>1, <2>5, <2>6, <2>7, Closes
<1> QED  BY <1>2, <1>3, <1>4 DEF DeviceCall

LEMMA TargetSteps ==
  ASSUME IInv, CreateTarget \/ StartRedraw \/ JoinX11 \/ SignalExit \/ JoinRedraw
  PROVE  IInv'
<1> USE DEF RestOK
<1>1. CASE CreateTarget
  <2> DEFINE f == IF KeyFound THEN WithKey(flags) ELSE flags
             t == [NoTarget EXCEPT !.state = "live", !.handle = TRUE, !.refs = 1,
                                   !.key = KeyFound]
  <2>1. /\ app = "idle" /\ device.handle /\ target.state = "none"
        /\ flags' = f /\ target' = t
        /\ device' = [device EXCEPT !.refs = @ + 1] /\ server' = [server EXCEPT !.front = None]
        /\ (x11' = "top" /\ app' = "starting") \/ UNCHANGED <<x11, app>>
        /\ UNCHANGED <<setup, queue, held, locks, owner, shown, redraw, seen, admits>>
    BY <1>1 DEF CreateTarget
  <2>2. f \subseteq {"xv", "dri", "auto"}
    <3>1. flags \subseteq {"xv", "dri", "auto"}  BY Holders DEF World, Worlds
    <3> QED  BY <3>1 DEF WithKey
  <2>3. /\ t \in Targets /\ t.state = "live" /\ t.handle /\ t.refs = 1 /\ ~t.threads
    <3>1. KeyFound \in BOOLEAN  BY DEF KeyFound
    <3> DEFINE n1 == [NoTarget EXCEPT !.state = "live"]
               n2 == [n1 EXCEPT !.handle = TRUE]
               n3 == [n2 EXCEPT !.refs = 1]
    <3>2. NoTarget \in Targets /\ ~NoTarget.threads  BY NothingTyped DEF NoTarget
    <3> HIDE DEF NoTarget
    <3>3. t = [n3 EXCEPT !.key = KeyFound]  OBVIOUS
    <3>4. n1 \in Targets /\ n1.state = "live" /\ ~n1.threads  BY <3>2 DEF Targets
    <3> HIDE DEF n1, t
    <3>5. n2 \in Targets /\ n2.state = "live" /\ n2.handle /\ ~n2.threads  BY <3>4 DEF Targets
    <3> HIDE DEF n2
    <3>6. /\ n3 \in Targets /\ n3.state = "live" /\ n3.handle /\ n3.refs = 1
          /\ ~n3.threads
      BY <3>5 DEF Targets
    <3> HIDE DEF n3
    <3>7. \A b \in BOOLEAN : [n3 EXCEPT !.key = b] \in Targets  BY <3>6 DEF Targets
    <3> QED  BY <3>1, <3>3, <3>6, <3>7 DEF Targets
  <2> HIDE DEF f, t
  <2>4. server' \in Servers
    <3>1. server \in Servers  BY Holders DEF World, Worlds
    <3> QED  BY <2>1, <3>1 DEF Servers
  <2>5. /\ device' \in Devices /\ device'.refs = device.refs + 1
        /\ device'.handle = device.handle /\ device'.state = device.state
    <3>1. device.refs + 1 \in Nat  BY Holders DEF Devices
    <3> QED  BY <2>1, <3>1, Holders DEF Devices
  <2>6. World' \in Worlds  BY <2>1, <2>2, <2>3, <2>4, <2>5 DEF World, Worlds
  <2>7. RestOK' /\ DisplayInv'
    BY <2>1, Holders DEF AppSteps, X11Steps, DisplayInv
  <2>8. target.refs = 0 /\ ~target.threads /\ ~queue /\ ~locks
    BY <2>1, Holders DEF IInv, TargetInv, ThreadInv, Bit
  <2>9. device.state # "none" /\ device.refs \in Nat
    BY <2>1, Holders DEF IInv, DeviceInv, Bit, Devices
  <2>10. x11 = "none" /\ redraw = "none"
    BY <2>1, <2>8, Holders DEF ThreadInv
  <2>11. DeviceInv'  BY <2>1, <2>3, <2>5, <2>8, <2>9, Holders DEF DeviceInv, Bit
  <2>12. TargetInv'  BY <2>1, <2>3, <2>8 DEF TargetInv, Bit, Joins
  <2>13. ThreadInv'  BY <2>1, <2>3, <2>8, <2>10 DEF ThreadInv, Posting
  <2> QED  BY <2>6, <2>7, <2>11, <2>12, <2>13, Closes
<1>2. CASE StartRedraw
  <2>1. /\ app = "starting" /\ locks' = TRUE /\ redraw' = "top" /\ app' = "idle"
        /\ target' = [target EXCEPT !.threads = TRUE]
        /\ UNCHANGED <<setup, flags, device, server, queue, held, owner, shown, x11, seen, admits>>
    BY <1>2 DEF StartRedraw, deviceVars
  <2>2. /\ target' \in Targets /\ target'.threads /\ target'.state = target.state
        /\ target'.handle = target.handle /\ target'.refs = target.refs
    BY <2>1, Holders DEF Targets
  <2>3. World' \in Worlds  BY <2>1, <2>2, Holders DEF World, Worlds
  <2>4. redraw = "none" /\ target.state = "live" /\ target.refs # 0
    BY <2>1, Holders DEF IInv, TargetInv, ThreadInv, Joins
  <2>5. RestOK' /\ DisplayInv'
    BY <2>1, <2>4, Holders DEF AppSteps, RedrawSteps, DisplayInv
  <2>6. DeviceInv' /\ TargetInv' /\ ThreadInv'
    BY <2>1, <2>2, <2>4, Holders DEF IInv, DeviceInv, TargetInv, ThreadInv, Bit, Joins, Posting
  <2> QED  BY <2>3, <2>5, <2>6, Closes
<1>3. CASE JoinX11 \/ SignalExit
  <2>1. /\ UNCHANGED <<setup, flags, device, server, target, queue, held, locks, owner, shown,
                       x11, seen, admits>>
        /\ \/ app = "join_x11" /\ x11 = "done" /\ app' = "signal" /\ UNCHANGED redraw
           \/ app = "signal" /\ app' = "join_redraw" /\ redraw' = Woken
    BY <1>3 DEF JoinX11, SignalExit, deviceVars, targetVars
  <2>2. x11 = "done"  BY <2>1, Holders DEF ThreadInv
  <2>3. /\ redraw' \in RedrawSteps
        /\ redraw' # redraw => redraw = "wait" /\ redraw' = "woken"
    BY <2>1, Holders DEF Woken, RedrawSteps
  <2>4. RestOK' /\ DisplayInv'  BY <2>1, <2>3, Holders DEF AppSteps, DisplayInv
  <2>5. Keeps(World, World')  BY <2>1, SameWorld
  <2> QED  BY <2>1, <2>2, <2>3, <2>4, <2>5, KeepsInv DEF Joins, Posting
<1>4. CASE JoinRedraw
  <2>1. /\ app = "join_redraw" /\ redraw = "done" /\ Becomes(TearDown(World))
        /\ app' = "idle" /\ x11' = "none" /\ redraw' = "none"
        /\ held' = FALSE /\ locks' = FALSE /\ seen' = FALSE
        /\ UNCHANGED <<setup, queue, owner, shown, admits>>
    BY <1>4 DEF JoinRedraw
  <2>2. target.threads /\ target.state = "live" /\ target.refs = 0
    BY <2>1, Holders DEF IInv, TargetInv, Joins
  <2>3. device.refs # 0 /\ ~queue /\ ~target.handle  BY <2>2, Holders DEF Bit
  <2>4. World.device = device  BY DEF World
  <2>5. /\ TearDown(World) \in Worlds /\ TearDown(World).target = NoTarget
        /\ TearDown(World).device.refs = device.refs - 1
        /\ TearDown(World).device.handle <=> device.handle /\ device.refs # 1
        /\ TearDown(World).device.state = IF device.refs = 1 THEN "none" ELSE device.state
    BY <2>3, <2>4, Holders, TearDownDoes
  <2>6. World' = TearDown(World)  BY <2>1, <2>5, Became
  <2>7. /\ target' = NoTarget /\ device'.refs = device.refs - 1
        /\ device'.handle <=> device.handle /\ device.refs # 1
        /\ device'.state = IF device.refs = 1 THEN "none" ELSE device.state
    BY <2>5, <2>6 DEF World
  <2>8. RestOK' /\ DisplayInv'
    BY <2>1, Holders DEF AppSteps, X11Steps, RedrawSteps, DisplayInv
  <2>9. /\ target'.state = "none" /\ ~target'.handle /\ target'.refs = 0 /\ ~target'.threads
    BY <2>7 DEF NoTarget
  <2>10. device.state # "none" /\ device.refs = Bit(device.handle) + 1
    BY <2>2, <2>3, Holders DEF IInv, DeviceInv, Bit
  <2>11. DeviceInv'  BY <2>1, <2>3, <2>7, <2>9, <2>10 DEF DeviceInv, Bit
  <2>12. TargetInv' /\ ThreadInv'
    BY <2>1, <2>3, <2>9 DEF TargetInv, ThreadInv, Bit, Joins, Posting
  <2> QED  BY <2>5, <2>6, <2>8, <2>11, <2>12, Closes
<1> QED  BY <1>1, <1>2, <1>3, <1>4

\* What a call does that gives back a reference to the target, from a state w whose
\* references are one too many, or two to the target's device.
LEMMA UnrefSteps ==
  ASSUME IInv, app = "idle", NEW w \in Worlds, Unref(w),
         target.refs # 0, w.target.refs = target.refs, w.target.state = target.state,
         w.target.threads = target.threads,
         RestOK', DisplayInv', UNCHANGED <<locks, x11, redraw, admits>>,
         target.refs = 1 + Bit(w.target.handle) + Bit(queue'),
         w.device.refs = Bit(w.device.handle) + 1 + Bit(queue'),
         w.device.state # "none"
  PROVE  IInv'
<1>1. target.state = "live" /\ app \notin Joins /\ target.refs \in Nat
  BY Holders DEF IInv, TargetInv, Joins
<1>2. w.device.refs # 0 /\ w.device.refs \in Nat /\ w.target.refs # 0
  BY DEF Bit, Worlds, Devices
<1>3. World' \in Worlds  BY <1>2, UnrefDoes
<1>4. CASE /\ w.target.refs = 1 /\ ~w.target.threads
           /\ target' = NoTarget /\ UNCHANGED app
           /\ device'.refs = w.device.refs - 1
           /\ device'.handle <=> w.device.handle /\ w.device.refs # 1
           /\ device'.state = IF w.device.refs = 1 THEN "none" ELSE w.device.state
  <2>1. /\ target'.state = "none" /\ ~target'.handle /\ target'.refs = 0 /\ ~target'.threads
    BY <1>4 DEF NoTarget
  <2>2. ~w.target.handle /\ ~queue'  BY <1>4 DEF Bit
  <2>3. DeviceInv'  BY <1>2, <1>4, <2>1, <2>2 DEF DeviceInv, Bit
  <2>4. TargetInv'  BY <1>4, <2>1, <2>2 DEF TargetInv, Bit, Joins
  <2>5. x11 = "none" /\ redraw = "none" /\ ~locks  BY <1>4, Holders DEF ThreadInv
  <2>6. ThreadInv'  BY <1>4, <2>1, <2>5 DEF ThreadInv, Posting
  <2> QED  BY <1>3, <2>3, <2>4, <2>6, Closes
<1>5. CASE /\ target'.refs = w.target.refs - 1
           /\ target'.state = w.target.state /\ target'.handle = w.target.handle
           /\ target'.threads = w.target.threads
           /\ device' = w.device
           /\ \/ w.target.refs # 1 /\ UNCHANGED app
              \/ w.target.refs = 1 /\ w.target.threads /\ app' = "join_x11"
  <2>1. DeviceInv'  BY <1>1, <1>2, <1>5 DEF DeviceInv, Bit
  <2>2. target'.refs = Bit(w.target.handle) + Bit(queue')  BY <1>1, <1>5 DEF Bit
  <2>3. TargetInv'  BY <1>1, <1>5, <2>2 DEF TargetInv, Joins
  <2>4. ThreadInv'  BY <1>1, <1>5, Holders DEF ThreadInv, Posting
  <2> QED  BY <1>3, <2>1, <2>3, <2>4, Closes
<1> QED  BY <1>2, <1>4, <1>5, UnrefDoes

LEMMA OwnerSteps ==
  ASSUME IInv,
         \/ DestroyTarget \/ CreateQueue \/ DestroyQueue \/ SetBackground
         \/ \E k \in setup.keys : EndBackground(k)
  PROVE  IInv'
<1> USE DEF RestOK
<1>1. CASE DestroyTarget
  <2> DEFINE w == [World EXCEPT !.target.handle = FALSE, !.target.exit = TRUE]
  <2>1. /\ app = "idle" /\ target.handle /\ Unref(w)
        /\ UNCHANGED <<setup, queue, held, locks, owner, shown, x11, redraw, seen, admits>>
    BY <1>1 DEF DestroyTarget
  <2>2. /\ w \in Worlds /\ w.target.refs = target.refs /\ w.target.state = target.state
        /\ w.target.threads = target.threads /\ ~w.target.handle /\ w.device = device
    BY ZenonT(60), Holders DEF World, Worlds, Targets
  <2> HIDE DEF w
  <2>3. target.refs = 1 + Bit(queue) /\ target.refs # 0  BY <2>1, Holders DEF Bit
  <2>4. target.state = "live"  BY <2>3, Holders DEF IInv, TargetInv
  <2>5. device.refs = Bit(device.handle) + 1 + Bit(queue) /\ device.state # "none"
    BY <2>4, Holders DEF Bit, IInv, DeviceInv
  <2>6. app' \in {app, "join_x11"}
    BY <2>1, <2>2, <2>3, <2>5, UnrefDoes DEF Bit
  <2>7. RestOK' /\ DisplayInv'  BY <2>1, <2>6, Holders DEF AppSteps, DisplayInv
  <2>8. /\ target.refs = 1 + Bit(w.target.handle) + Bit(queue')
        /\ w.device.refs = Bit(w.device.handle) + 1 + Bit(queue') /\ w.device.state # "none"
    BY <2>1, <2>2, <2>3, <2>5 DEF Bit
  <2> QED  BY <2>1, <2>2, <2>3, <2>7, <2>8, UnrefSteps
<1>2. CASE DestroyQueue
  <2> DEFINE d == PutDevice(device)
             w == [World EXCEPT !.target.disp = None, !.device = d]
  <2>1. /\ app = "idle" /\ queue /\ owner = None /\ queue' = FALSE /\ Unref(w)
        /\ UNCHANGED <<setup, held, locks, owner, shown, x11, redraw, seen, admits>>
    BY <1>2 DEF DestroyQueue, World
  <2>2. target.refs = 1 + Bit(target.handle) /\ target.refs # 0  BY <2>1, Holders DEF Bit
  <2>3. target.state = "live"  BY <2>2, Holders DEF IInv, TargetInv
  <2>4. device.refs = Bit(device.handle) + 2 /\ device.state # "none"
    BY <2>1, <2>3, Holders DEF Bit, IInv, DeviceInv
  <2>5. device.refs # 0 /\ device.refs # 1  BY <2>4 DEF Bit
  <2>6. /\ d \in Devices /\ d.refs = device.refs - 1
        /\ (d.handle <=> device.handle) /\ d.state = device.state
    BY <2>5, Holders, PutDeviceTyped
  <2> HIDE DEF d
  <2>7. /\ w \in Worlds /\ w.target.refs = target.refs /\ w.target.state = target.state
        /\ w.target.threads = target.threads /\ w.target.handle = target.handle
        /\ w.device = d
    BY <2>6, Holders DEF World, Worlds, Targets
  <2> HIDE DEF w
  <2>8. /\ target.refs = 1 + Bit(w.target.handle) + Bit(queue')
        /\ w.device.refs = Bit(w.device.handle) + 1 + Bit(queue') /\ w.device.state # "none"
    <3>1. Bit(d.handle) = Bit(device.handle) /\ Bit(device.handle) \in 0 .. 1
      BY <2>6 DEF Bit
    <3>2. Bit(queue') = 0 /\ Bit(target.handle) \in 0 .. 1  BY <2>1 DEF Bit
    <3> QED  BY <2>2, <2>4, <2>6, <2>7, <3>1, <3>2
  <2>9. app' \in {app, "join_x11"}
    <3>1. w.target.refs # 0 /\ w.device.refs # 0  BY <2>2, <2>7, <2>8 DEF Bit
    <3> QED  BY <2>1, <2>7, <3>1, UnrefDoes
  <2>10. RestOK' /\ DisplayInv'  BY <2>1, <2>9, Holders DEF AppSteps, DisplayInv
  <2> QED  BY <2>1, <2>2, <2>7, <2>8, <2>10, UnrefSteps
<1>3. CASE CreateQueue
  <2>1. /\ app = "idle" /\ target.handle /\ ~queue /\ queue' = TRUE
        /\ target' = [target EXCEPT !.refs = @ + 1] /\ device' = [device EXCEPT !.refs = @ + 1]
        /\ UNCHANGED <<setup, flags, server, held, locks, owner, shown, app, x11, redraw, seen,
                       admits>>
    BY <1>3 DEF CreateQueue, pcs
  <2>2. target.refs = 1  BY <2>1, Holders DEF Bit
  <2>3. target.state = "live"  BY <2>2, Holders DEF IInv, TargetInv
  <2>4. /\ target' \in Targets /\ target'.refs = 2 /\ target'.state = target.state
        /\ target'.handle = target.handle /\ target'.threads = target.threads
    <3>1. target' = [target EXCEPT !.refs = 2]  BY <2>1, <2>2
    <3> QED  BY <3>1, Holders DEF Targets
  <2>5. device.refs \in Nat /\ device.refs + 1 \in Nat  BY Holders DEF Devices
  <2>6. /\ device' \in Devices /\ device'.refs = device.refs + 1
        /\ device'.state = device.state /\ device'.handle = device.handle
    BY <2>1, <2>5, Holders DEF Devices
  <2>7. World' \in Worlds  BY <2>1, <2>4, <2>6, Holders DEF World, Worlds
  <2>8. RestOK' /\ DisplayInv'  BY <2>1, Holders DEF DisplayInv
  <2>9. DeviceInv'
    BY <2>1, <2>3, <2>4, <2>5, <2>6, Holders DEF IInv, DeviceInv, Bit
  <2>10. TargetInv'  BY <2>1, <2>3, <2>4 DEF TargetInv, Bit, Joins
  <2>11. ThreadInv'  BY <2>1, <2>4, Holders DEF ThreadInv
  <2> QED  BY <2>7, <2>8, <2>9, <2>10, <2>11, Closes
<1>4. CASE SetBackground \/ \E k \in setup.keys : EndBackground(k)
  <2>1. /\ UNCHANGED <<setup, flags, device, server, queue, held, locks, owner, shown, x11,
                       redraw, seen, admits>>
        /\ \/ app = "idle" /\ app' = "recolour"
           \/ app = "recolour" /\ app' = "idle"
    <3>1. CASE SetBackground  BY <3>1 DEF SetBackground, deviceVars
    <3>2. CASE \E k \in setup.keys : EndBackground(k)  BY <3>2 DEF EndBackground, deviceVars
    <3> QED  BY <1>4, <3>1, <3>2
  <2>a. PICK k \in setup.keys \cup {None} : target' = [target EXCEPT !.bgNew = k]
    <3>1. ASSUME SetBackground
          PROVE  \E k \in setup.keys \cup {None} : target' = [target EXCEPT !.bgNew = k]
      BY <3>1 DEF SetBackground
    <3>2. ASSUME NEW k \in setup.keys, EndBackground(k)
          PROVE  target' = [target EXCEPT !.bgNew = k]
      BY <3>2 DEF EndBackground
    <3> QED  BY <1>4, <3>1, <3>2
  <2>2. setup.keys \subseteq Keys  BY Holders, DisplayAssumption DEF Setup
  <2>3. /\ target' \in Targets /\ target'.refs = target.refs /\ target'.state = target.state
        /\ target'.handle = target.handle /\ target'.threads = target.threads
    <3>1. k \in Keys \cup {None}  BY <2>2
    <3> QED  BY <2>a, <3>1, Holders DEF Targets
  <2>4. Keeps(World, World')  BY <2>1, <2>3, TargetKeeps
  <2>5. RestOK' /\ DisplayInv'  BY <2>1, Holders DEF AppSteps, DisplayInv
  <2> QED  BY <2>1, <2>4, <2>5, Holders, KeepsInv DEF Joins, Posting, ThreadInv
<1> QED  BY <1>1, <1>2, <1>3, <1>4

-----------------------------------------------------------------------------
(* The theorems.                                                           *)

LEMMA InitInv == Init => IInv
<1> SUFFICES ASSUME Init PROVE IInv  OBVIOUS
<1> USE DEF Init, DeviceInit
<1>1. World \in Worlds
  <2>1. server \in Servers  BY DEF Servers, Colours
  <2> QED  BY <2>1, NothingTyped DEF World, Worlds
<1>2. RestOK  BY DEF RestOK, AppSteps, X11Steps, RedrawSteps
<1>3. TypeOK  BY <1>1, <1>2, TypeSplit
<1>4. DeviceInv /\ TargetInv /\ ThreadInv /\ DisplayInv
  BY TargetAssumption DEF NoDevice, NoTarget, DeviceInv, TargetInv, ThreadInv, DisplayInv, Bit,
                          Joins, Posting
<1> QED  BY <1>3, <1>4 DEF IInv

LEMMA NextInv == IInv /\ [Next]_vars => IInv'
<1> SUFFICES ASSUME IInv, [Next]_vars PROVE IInv'  OBVIOUS
<1>1. CASE Next
  BY <1>1, WindowSteps, RedrawThreadSteps, DeviceSteps, TargetSteps, OwnerSteps, QueueSteps
     DEF Next, Call, Returning
<1>2. CASE UNCHANGED vars
  BY <1>2 DEF vars, deviceVars, targetVars, pcs, IInv, TypeOK, DeviceTypeOK, DeviceInv,
              TargetInv, ThreadInv, DisplayInv
<1> QED  BY <1>1, <1>2

\* IInv is an invariant: the counts of device and target, which thread runs when, and
\* who has pqt->lock, over every interleaving of the calls, the queue's thread and the
\* threads of pqt_x11_event_thr and pqt_display_thr.
THEOREM TargetInvariance == Spec => []IInv
  BY InitInv, NextInv, PTL DEF Spec

\* Every variable keeps its type: in particular unref_queue_target and unref_device
\* never count below zero.
THEOREM TargetTypeCorrect == Spec => []TypeOK
<1>1. IInv => TypeOK  BY DEF IInv
<1> QED  BY <1>1, TargetInvariance, PTL

\* The target outlives its threads and its queue and the device outlives all of them,
\* in whatever order the application destroys them; the locks of the target exist
\* when pqt_x11_event_thr takes them. The last needs the X server to send no event
\* before vdp_presentation_queue_target_create_x11 has returned.
THEOREM OwnersOutliveUsers ==
  ASSUME \A a \in Admits : "early_event" \notin a
  PROVE  Spec => []OwnersKeepAlive
<1>1. IInv => OwnersKeepAlive
  <2> SUFFICES ASSUME IInv PROVE OwnersKeepAlive  OBVIOUS
  <2>1. "early_event" \notin admits  BY Holders DEF RestOK
  <2>2. target.state = "none" => ~queue /\ ~target.threads /\ app # "starting"
    BY Holders DEF IInv, TargetInv, Bit
  <2>3. device.state = "open" \/ device.refs = 0
    BY Holders DEF IInv, DeviceInv, Devices
  <2>4. target.state = "live" => device.refs # 0  BY Holders DEF Bit
  <2> QED  BY <2>1, <2>2, <2>3, <2>4, Holders DEF OwnersKeepAlive, ThreadInv, Posting
<1> QED  BY <1>1, TargetInvariance, PTL

-----------------------------------------------------------------------------
(* The picture on its way to the window, the colours of the Xv port and    *)
(* its key.                                                                *)

\* pqt->lock is held for a display that is half done.
Busy == owner = Queue \/ redraw \in {"ending", "moving"}

\* No rule is lifted that lets the port and what is known of it differ.
Proper == "recolour" \notin admits /\ ~({"port_forgets", "second_target"} \subseteq admits)

\* Between displays: the window shows the picture, the overlay is only on when it is used.
Whole(w) ==
  /\ w.target.disp # None =>
       (IF w.server.overlay # None THEN w.server.overlay ELSE w.server.front)
         \in {w.target.disp, "lost", "stale"}
  /\ w.target.path # "xv" => w.server.overlay = None

\* Half way through the display of d: its picture is out.
Half(w, d) ==
  IF d.dri THEN w.server.overlay = None /\ w.server.front \in {d.picture, "lost", "stale"}
           ELSE w.server.overlay = d.picture

\* Video is only shown by a device whose port was prepared; the port has the colours
\* that the device applied last, unless it forgot them together with the target.
Coloured(w) ==
  /\ w.server.overlay \in Overlays \/ w.target.disp \in Overlays => w.device.inited
  /\ w.server.overlay \in Overlays /\ w.device.csc /\ w.device.applied
       => w.device.old = w.server.overlay
  /\ w.device.applied /\ w.device.old \in Pictures
       => \/ w.server.colours = w.device.old
          \/ "port_forgets" \in admits /\ w.target.state = "none"

\* The background that was drawn is the port's key.
Keyed(w) == w.target.bgOld # None => w.server.key \in {w.target.bgOld, "refused"}
KeyHalf(w, d) ==
  IF d.dri THEN Keyed(w)
  ELSE IF d.drew THEN w.server.key \in {w.target.bgNew, "refused"}
  ELSE Keyed(w) /\ w.target.bgOld # None

HoldInv ==
  /\ owner = Queue => queue
  /\ target.state = "none" => target.path = "none" /\ target.disp = None
  /\ target.bgNew = None <=> app = "recolour"
  /\ Proper /\ Busy => app # "recolour"

WindowInv == IF Busy THEN Half(World, shown) ELSE Whole(World)

PortInv == Proper =>
  /\ Coloured(World)
  /\ IF Busy THEN /\ KeyHalf(World, shown)
                  /\ shown.picture \in Overlays => device.inited
             ELSE Keyed(World) /\ (server.overlay # None => target.bgOld # None)

ImageInv == HoldInv /\ WindowInv /\ PortInv

-----------------------------------------------------------------------------
(* The operators on worlds again: what is shown, and how.                  *)

\* u shows what w shows, with the same notes on the port.
Alike(w, u) ==
  /\ u.server = w.server
  /\ u.target.path = w.target.path /\ u.target.disp = w.target.disp
  /\ u.target.bgOld = w.target.bgOld /\ u.target.bgNew = w.target.bgNew
  /\ u.target.state = w.target.state
  /\ u.device.inited = w.device.inited /\ u.device.csc = w.device.csc
  /\ u.device.applied = w.device.applied /\ u.device.old = w.device.old

LEMMA AlikeTrans ==
  ASSUME NEW w, NEW u, NEW v, Alike(w, u), Alike(u, v) PROVE Alike(w, v)
  BY DEF Alike

LEMMA AlikeSelf == ASSUME NEW w PROVE Alike(w, w)
  BY DEF Alike

LEMMA AlikeFits ==
  ASSUME NEW w, NEW u, Alike(w, u), NEW d
  PROVE  /\ Whole(u) <=> Whole(w)
         /\ Half(u, d) <=> Half(w, d)
         /\ Coloured(u) <=> Coloured(w)
         /\ Keyed(u) <=> Keyed(w)
         /\ KeyHalf(u, d) <=> KeyHalf(w, d)
<1>1. Whole(u) <=> Whole(w)  BY DEF Alike, Whole
<1>2. Half(u, d) <=> Half(w, d)  BY DEF Alike, Half
<1>3. Coloured(u) <=> Coloured(w)  BY DEF Alike, Coloured
<1>4. (Keyed(u) <=> Keyed(w)) /\ (KeyHalf(u, d) <=> KeyHalf(w, d))  BY DEF Alike, Keyed, KeyHalf
<1> QED  BY <1>1, <1>2, <1>3, <1>4

LEMMA DrawableAlike ==
  ASSUME NEW w \in Worlds PROVE Alike(w, DestroyDrawable(w))
<1> DEFINE box == IF w.target.pixbuf = "own" THEN "stale" ELSE w.target.pixbuf
<1> DEFINE u == [w EXCEPT !.target.drawable = FALSE, !.target.pixbuf = box]
<1>1. DestroyDrawable(w) = IF w.target.drawable THEN u ELSE w
  BY DEF DestroyDrawable
<1> HIDE DEF box
<1>2. Alike(w, u)  BY DEF Alike, Worlds, Targets
<1> QED  BY <1>1, <1>2, AlikeSelf

LEMMA GiveUpAlike ==
  ASSUME NEW w \in Worlds PROVE Alike(w, GiveUpDri(w))
<1> DEFINE u == DestroyDrawable(w)
<1>1. Alike(w, u) /\ u \in Worlds  BY DrawableAlike, DrawableKeeps DEF Keeps
<1> HIDE DEF u
<1>2. Alike(u, [u EXCEPT !.flags = OnlyXv(@), !.device.dri2 = "failed"])
  BY <1>1 DEF Alike, Worlds, Devices
<1> QED  BY <1>1, <1>2, AlikeTrans DEF GiveUpDri, u

LEMMA PixbufAlike ==
  ASSUME NEW w \in Worlds, NEW r \in Answers
  PROVE  Alike(w, UpdatePixbuf(w, r))
<1> DEFINE u == [w EXCEPT !.target.drawable = TRUE, !.target.pixbuf = "none"]
<1>1. Alike(w, u)  BY DEF Alike, Worlds, Targets
<1>2. u \in Worlds  BY DEF Worlds, Targets
<1>3. UpdatePixbuf(w, r) =
        CASE r = "ok" -> [u EXCEPT !.target.pixbuf = "own"]
          [] r = "none" -> u
          [] r = "depth" ->
               [DestroyDrawable(u) EXCEPT !.flags = IF "xv" \in @ THEN @ ELSE {"xv"}]
  BY DEF UpdatePixbuf
<1> HIDE DEF u
<1>4. CASE r = "ok"
  <2>1. Alike(u, [u EXCEPT !.target.pixbuf = "own"])  BY <1>2 DEF Alike, Worlds, Targets
  <2> QED  BY <1>1, <1>3, <1>4, <2>1, AlikeTrans
<1>5. CASE r = "none"  BY <1>1, <1>3, <1>5
<1>6. CASE r = "depth"
  <2> DEFINE v == DestroyDrawable(u)
  <2>1. Alike(u, v) /\ v \in Worlds  BY <1>2, DrawableAlike, DrawableKeeps DEF Keeps
  <2>2. UpdatePixbuf(w, r) = [v EXCEPT !.flags = IF "xv" \in @ THEN @ ELSE {"xv"}]
    BY <1>3, <1>6
  <2> HIDE DEF v
  <2>3. Alike(v, [v EXCEPT !.flags = IF "xv" \in @ THEN @ ELSE {"xv"}])
    BY <2>1 DEF Alike, Worlds
  <2> QED  BY <1>1, <2>1, <2>2, <2>3, AlikeTrans
<1> QED  BY <1>4, <1>5, <1>6 DEF Answers

LEMMA InitDri2Alike ==
  ASSUME NEW w \in Worlds, NEW connected \in BOOLEAN, NEW r \in Answers
  PROVE  Alike(w, InitDri2(w, connected, r))
<1> DEFINE u == UpdatePixbuf(w, r)
<1>1. Alike(w, u) /\ u \in Worlds  BY PixbufAlike, PixbufKeeps DEF Keeps
<1>2. InitDri2(w, connected, r) =
        IF w.device.dri2 # "no" THEN w
        ELSE IF ~connected THEN GiveUpDri(w)
        ELSE IF r = "ok" THEN [u EXCEPT !.device.dri2 = "ready"]
        ELSE GiveUpDri(u)
  BY DEF InitDri2
<1> HIDE DEF u
<1>3. Alike(u, [u EXCEPT !.device.dri2 = "ready"])  BY <1>1 DEF Alike, Worlds, Devices
<1>4. Alike(u, GiveUpDri(u)) /\ Alike(w, GiveUpDri(w))  BY <1>1, GiveUpAlike
<1> QED  BY <1>1, <1>2, <1>3, <1>4, AlikeTrans, AlikeSelf

LEMMA BufferAlike ==
  ASSUME NEW w \in Worlds, NEW fits \in BOOLEAN, NEW r \in Answers
  PROVE  Alike(w, UpdateBuffer(w, fits, r))
  BY PixbufAlike, AlikeSelf DEF UpdateBuffer

\* None is no picture, so that what is shown on the overlay is one.
LEMMA NoPicture == None \notin Pictures /\ None \notin Keys /\ Default \notin Pictures /\ Overlays \subseteq Pictures
  BY DisplayAssumption

\* With DRI the overlay is off and the picture in the window, if there is a buffer.
LEMMA DriShows ==
  ASSUME NEW w \in Worlds, NEW p \in Pictures, NEW transit \in BOOLEAN, NEW o \in Outcomes,
         NEW d, d.dri, d.picture = p, Whole(w)
  PROVE  LET v == DisplayDri(w, p, transit, o)
         IN  /\ Half(v, d)
             /\ Coloured(w) => Coloured(v)
             /\ Keyed(w) => KeyHalf(v, d)
             /\ v.target.bgNew = w.target.bgNew /\ v.target.state = w.target.state
             /\ v.device.inited = w.device.inited /\ v.target.disp = w.target.disp
<1> DEFINE u == UpdateBuffer(w, o.fits, o.buffer)
           front == CASE u.target.pixbuf = "own" -> p
                      [] u.target.pixbuf = "none" -> "lost"
                      [] u.target.pixbuf = "stale" -> "stale"
           x == [u EXCEPT !.server.front = front]
           s == [x.server EXCEPT !.overlay = None,
                   !.colours = IF "port_forgets" \in admits THEN None ELSE @,
                   !.key = IF "port_forgets" \in admits THEN None ELSE @]
           y == [x EXCEPT !.server = s]
           z == [y EXCEPT !.target.bgOld = None, !.target.path = "dri"]
           v == [z EXCEPT !.device.applied = FALSE]
<1>1. Alike(w, u) /\ u \in Worlds  BY OutcomeTyped, BufferAlike, BufferKeeps DEF Keeps
<1>2. Whole(u) /\ (Coloured(w) => Coloured(u)) /\ (Keyed(w) => Keyed(u))
  BY <1>1, AlikeFits
<1>3. DisplayDri(w, p, transit, o) = ToDri(Swap(u, p), transit)  BY DEF DisplayDri
<1> HIDE DEF u
<1>4. Swap(u, p) = x /\ front \in {p, "lost", "stale"}  BY <1>1 DEF Swap, Worlds, Targets
<1> HIDE DEF front
<1>5. /\ x \in Worlds /\ x.device = u.device /\ x.target = u.target /\ x.server.front = front
      /\ x.server.overlay = u.server.overlay /\ x.server.colours = u.server.colours
      /\ x.server.key = u.server.key
  BY <1>1, <1>4 DEF Worlds, Servers
<1>6. ToDri(x, transit) = IF transit \/ x.target.path # "dri"
                          THEN ForgetColours([StopVideo(x) EXCEPT !.target.bgOld = None,
                                                                 !.target.path = "dri"])
                          ELSE x
  BY DEF ToDri
<1> HIDE DEF x
<1>7. StopVideo(x) = y  BY <1>5 DEF StopVideo, Worlds
<1>8. s.overlay = None /\ s.front = x.server.front  BY <1>5 DEF Worlds, Servers
<1>9. y \in Worlds /\ y.server = s /\ y.target = x.target /\ y.device = x.device
  <2>1. Keeps(x, y)  BY <1>5, <1>7, StopVideoKeeps
  <2>2. y.server = s /\ y.target = x.target /\ y.device = x.device  BY <1>5 DEF Worlds
  <2> QED  BY <2>1, <2>2 DEF Keeps
<1> HIDE DEF s, y
<1>10. /\ z \in Worlds /\ z.server = y.server /\ z.device = y.device
       /\ z.target.bgOld = None /\ z.target.path = "dri" /\ z.target.bgNew = y.target.bgNew
       /\ z.target.disp = y.target.disp /\ z.target.state = y.target.state
  BY ZenonT(60), <1>9 DEF Worlds, Targets
<1> HIDE DEF z
<1>11. /\ ForgetColours(z) = v /\ v.server = z.server /\ v.target = z.target
       /\ v.device.applied = FALSE /\ v.device.inited = z.device.inited
  BY <1>10 DEF ForgetColours, Worlds, Devices
<1> HIDE DEF v
<1>12. CASE transit \/ x.target.path # "dri"
  <2>1. DisplayDri(w, p, transit, o) = v  BY <1>3, <1>4, <1>6, <1>7, <1>11, <1>12 DEF z
  <2>2. v.server.overlay = None /\ v.server.front = front /\ v.target.bgOld = None
    BY <1>5, <1>8, <1>9, <1>10, <1>11
  <2>3. /\ v.target.bgNew = w.target.bgNew /\ v.target.state = w.target.state
        /\ v.target.disp = u.target.disp /\ v.device.inited = u.device.inited
        /\ v.target.disp = w.target.disp /\ v.device.inited = w.device.inited
    BY <1>1, <1>5, <1>9, <1>10, <1>11 DEF Alike
  <2>4. Half(v, d)  BY <1>4, <2>2 DEF Half
  <2>5. Coloured(w) => Coloured(v)  BY <1>2, <1>11, <2>2, <2>3, NoPicture DEF Coloured
  <2>6. KeyHalf(v, d)  BY <2>2 DEF KeyHalf, Keyed
  <2> QED  BY <2>1, <2>3, <2>4, <2>5, <2>6
<1>13. CASE ~(transit \/ x.target.path # "dri")
  <2>1. DisplayDri(w, p, transit, o) = x  BY <1>3, <1>4, <1>6, <1>13
  <2>2. u.server.overlay = None  BY <1>2, <1>5, <1>13 DEF Whole
  <2>3. Half(x, d)  BY <1>4, <1>5, <2>2 DEF Half
  <2>4. Coloured(w) => Coloured(x)  BY <1>2, <1>5 DEF Coloured
  <2>5. Keyed(w) => KeyHalf(x, d)  BY <1>2, <1>5 DEF KeyHalf, Keyed
  <2> QED  BY <1>1, <1>5, <2>1, <2>3, <2>4, <2>5 DEF Alike
<1> QED  BY <1>12, <1>13

\* With Xv the overlay is on. It has the colours of the picture, if the port took them.
LEMMA ColoursShow ==
  ASSUME NEW w \in Worlds, NEW p \in Overlays, NEW r \in Results,
         w.server.overlay = p
  PROVE  LET v == ApplyColours(w, p, r)
         IN  /\ w.device.inited /\ (w.device.applied /\ w.device.old \in Pictures
                                        => \/ w.server.colours = w.device.old
                                           \/ "port_forgets" \in admits /\ w.target.state = "none")
                  => Coloured(v)
             /\ v.target = w.target /\ v.device.inited = w.device.inited
             /\ v.server.overlay = p /\ v.server.front = w.server.front
             /\ v.server.key = w.server.key
<1> DEFINE x == SetColours(w, p, r)
           v == ApplyColours(w, p, r)
<1>1. v = IF ~w.device.csc \/ (w.device.applied /\ w.device.old = p) THEN w ELSE x
  BY DEF ApplyColours
<1>2. p \in Pictures  BY NoPicture
<1>3. /\ x.target = w.target /\ x.device.inited = w.device.inited
      /\ x.server.overlay = p /\ x.server.front = w.server.front
      /\ x.server.key = w.server.key
      /\ \/ x.device.applied = FALSE
         \/ x.device.applied = TRUE /\ x.device.old = p /\ x.server.colours = p
  <2>1. CASE r = "all"
    <3> DEFINE y == [w EXCEPT !.device.applied = TRUE, !.device.old = p, !.server.colours = p]
    <3>1. x = y  BY <2>1 DEF SetColours
    <3>2. /\ y.device.applied = TRUE /\ y.device.old = p /\ y.device.inited = w.device.inited
          /\ y.target = w.target
      BY DEF Worlds, Devices
    <3>3. /\ y.server.colours = p /\ y.server.overlay = p /\ y.server.key = w.server.key
          /\ y.server.front = w.server.front
      BY DEF Worlds, Servers
    <3> QED  BY <3>1, <3>2, <3>3
  <2>2. CASE r = "some"
    <3> DEFINE y == [w EXCEPT !.device.applied = FALSE, !.server.colours = None]
    <3>1. x = y  BY <2>2 DEF SetColours
    <3>2. /\ y.device.applied = FALSE /\ y.device.inited = w.device.inited
          /\ y.target = w.target
      BY DEF Worlds, Devices
    <3>3. /\ y.server.overlay = p /\ y.server.key = w.server.key
          /\ y.server.front = w.server.front
      BY DEF Worlds, Servers
    <3> QED  BY <3>1, <3>2, <3>3
  <2>3. CASE r = "update"
    <3> DEFINE y == [w EXCEPT !.device.applied = FALSE, !.device.csc = FALSE,
                              !.server.colours = None]
    <3>1. x = y  BY <2>3 DEF SetColours
    <3>2. /\ y.device.applied = FALSE /\ y.device.inited = w.device.inited
          /\ y.target = w.target
      BY DEF Worlds, Devices
    <3>3. /\ y.server.overlay = p /\ y.server.key = w.server.key
          /\ y.server.front = w.server.front
      BY DEF Worlds, Servers
    <3> QED  BY <3>1, <3>2, <3>3
  <2> QED  BY <2>1, <2>2, <2>3 DEF Results
<1> HIDE DEF x
<1>4. CASE ~w.device.csc \/ (w.device.applied /\ w.device.old = p)
  <2>1. v = w  BY <1>1, <1>4
  <2> QED  BY <1>4, <2>1 DEF Coloured
<1>5. CASE ~(~w.device.csc \/ (w.device.applied /\ w.device.old = p))
  <2>1. v = x  BY <1>1, <1>5
  <2> QED  BY <1>3, <2>1 DEF Coloured
<1> QED  BY <1>4, <1>5

LEMMA ImageShows ==
  ASSUME NEW w \in Worlds, NEW p \in Pictures, NEW r \in Results
  PROVE  LET v == PutImage(w, p, r)
         IN  /\ v \in Worlds /\ v.target = w.target /\ v.server.overlay = p
             /\ v.server.key = w.server.key /\ v.device.inited = w.device.inited
             /\ Coloured(w) /\ (p \in Overlays => w.device.inited) => Coloured(v)
<1> DEFINE u == [w EXCEPT !.server.overlay = p]
           v == PutImage(w, p, r)
<1>1. /\ u \in Worlds /\ u.target = w.target /\ u.device = w.device
      /\ u.server.overlay = p /\ u.server.key = w.server.key
      /\ u.server.colours = w.server.colours
  BY DEF Worlds, Servers
<1>2. v = IF p \in Overlays THEN ApplyColours(u, p, r) ELSE u  BY DEF PutImage
<1>3. v \in Worlds  BY PutImageKeeps DEF Keeps
<1> HIDE DEF u, v
<1>4. CASE p \in Overlays
  <2>1. v = ApplyColours(u, p, r)  BY <1>2, <1>4
  <2> HIDE DEF v
  <2>2. /\ u.device.inited /\ (u.device.applied /\ u.device.old \in Pictures
              => \/ u.server.colours = u.device.old
                 \/ "port_forgets" \in admits /\ u.target.state = "none") => Coloured(v)
        /\ v.target = u.target /\ v.device.inited = u.device.inited
        /\ v.server.overlay = p /\ v.server.key = u.server.key
    BY <1>1, <1>4, <2>1, ColoursShow
  <2>3. Coloured(w) /\ w.device.inited => Coloured(v)  BY <1>1, <2>2 DEF Coloured
  <2> QED  BY <1>1, <1>3, <1>4, <2>2, <2>3 DEF v
<1>5. CASE p \notin Overlays
  <2>1. v = u  BY <1>2, <1>5
  <2>2. Coloured(w) => Coloured(u)  BY <1>1, <1>5 DEF Coloured
  <2> QED  BY <1>1, <1>3, <2>1, <2>2 DEF v
<1> QED  BY <1>4, <1>5

LEMMA XvShows ==
  ASSUME NEW w \in Worlds, NEW p \in Pictures, NEW o \in Outcomes, NEW d, ~d.dri,
         d.picture = p, d.drew = (w.target.bgOld # w.target.bgNew)
  PROVE  LET v == DisplayXv(w, p, o)
         IN  /\ Half(v, d)
             /\ Coloured(w) /\ (p \in Overlays => w.device.inited) => Coloured(v)
             /\ Keyed(w) /\ w.target.bgNew # None => KeyHalf(v, d)
             /\ v.target.bgNew = w.target.bgNew /\ v.target.state = w.target.state
             /\ v.device.inited = w.device.inited /\ v.target.disp = w.target.disp
<1> DEFINE u == PutImage(w, p, o.colours)
           x == [u EXCEPT !.server.front = None]
           y == [x EXCEPT !.server.key = x.target.bgNew]
           z == [x EXCEPT !.server.key = "refused", !.flags = (@ \ {"xv"}) \cup {"dri"}]
           v == DisplayXv(w, p, o)
<1>1. /\ u \in Worlds /\ u.target = w.target /\ u.server.overlay = p
      /\ u.server.key = w.server.key /\ u.device.inited = w.device.inited
      /\ Coloured(w) /\ (p \in Overlays => w.device.inited) => Coloured(u)
  BY OutcomeTyped, ImageShows
<1>2. v = IF u.target.bgOld = u.target.bgNew THEN u
          ELSE IF u.target.key => o.key THEN [x EXCEPT !.server.key = u.target.bgNew] ELSE z
  BY DEF DisplayXv, DrawBackground
<1> HIDE DEF u, v
<1>3. /\ x \in Worlds /\ x.target = u.target /\ x.device = u.device
      /\ x.server.overlay = p /\ x.server.colours = u.server.colours
  BY <1>1 DEF Worlds, Servers
<1>4. v = IF u.target.bgOld = u.target.bgNew THEN u ELSE IF u.target.key => o.key THEN y ELSE z
  BY <1>2, <1>3
<1> HIDE DEF x
<1>5. /\ y.target = u.target /\ y.device = u.device /\ y.server.overlay = p
      /\ y.server.colours = u.server.colours /\ y.server.key = w.target.bgNew
  BY <1>1, <1>3 DEF Worlds, Servers
<1>6. /\ z.target = u.target /\ z.device = u.device /\ z.server.overlay = p
      /\ z.server.colours = u.server.colours /\ z.server.key = "refused"
  BY <1>1, <1>3 DEF Worlds, Servers
<1> HIDE DEF y, z
<1>7. /\ v.target = w.target /\ v.device = u.device /\ v.server.overlay = p
      /\ v.server.colours = u.server.colours
      /\ IF d.drew THEN v.server.key \in {w.target.bgNew, "refused"}
                   ELSE v.server.key = w.server.key
  BY <1>1, <1>4, <1>5, <1>6
<1>8. Half(v, d)  BY <1>7 DEF Half
<1>9. Coloured(w) /\ (p \in Overlays => w.device.inited) => Coloured(v)  BY <1>1, <1>7 DEF Coloured
<1>10. Keyed(w) /\ w.target.bgNew # None => KeyHalf(v, d)  BY <1>7 DEF KeyHalf, Keyed
<1> QED  BY <1>1, <1>7, <1>8, <1>9, <1>10 DEF v

-----------------------------------------------------------------------------
(* The two halves of a display.                                            *)

\* What Proper asks of the state between displays, and when p is shown.
Ready(w, p) ==
  /\ Coloured(w) /\ Keyed(w)
  /\ p \in Overlays => w.device.inited
  /\ w.target.bgNew # None

\* What it asks when d is half displayed.
Coming(w, d) ==
  /\ Coloured(w) /\ KeyHalf(w, d)
  /\ d.picture \in Overlays => w.device.inited
  /\ w.target.bgNew # None

LEMMA ShowsHalf ==
  ASSUME NEW w \in Worlds, NEW who, NEW p \in Pictures, NEW transit \in BOOLEAN,
         NEW o \in Outcomes, Whole(w), Shows(w, who, p, transit, o)
  PROVE  /\ Half(World', shown')
         /\ Ready(w, p) => Coming(World', shown')
         /\ target'.bgNew = w.target.bgNew /\ target'.state = w.target.state
         /\ target'.disp = w.target.disp /\ (target'.state = "none" => w.target.state = "none")
<1> DEFINE u == IF Overlapped(w) THEN InitDri2(w, o.connected, o.buffer) ELSE w
           v == IF UseDri(u) THEN DisplayDri(u, p, transit, o) ELSE DisplayXv(u, p, o)
<1>1. /\ app # "recolour" \/ "recolour" \in admits
      /\ shown' = [picture |-> p, dri |-> UseDri(u), drew |-> u.target.bgOld # u.target.bgNew]
      /\ Becomes(v)
  BY DEF Shows
<1>2. u \in Worlds /\ Alike(w, u)
  BY OutcomeTyped, InitDri2Keeps, InitDri2Alike, AlikeSelf DEF Keeps
<1>3. Whole(u) /\ (Coloured(w) => Coloured(u)) /\ (Keyed(w) => Keyed(u))
  BY <1>2, AlikeFits
<1>4. v \in Worlds
  <2>1. Keeps(u, DisplayDri(u, p, transit, o)) /\ Keeps(u, DisplayXv(u, p, o))
    BY <1>2, DisplayKeeps
  <2> QED  BY <2>1 DEF Keeps
<1> HIDE DEF u
<1>5. /\ shown'.picture = p /\ shown'.dri = UseDri(u)
      /\ shown'.drew = (u.target.bgOld # u.target.bgNew)
  BY <1>1
<1>6. /\ Half(v, shown')
      /\ Coloured(u) /\ (p \in Overlays => u.device.inited) => Coloured(v)
      /\ Keyed(u) /\ u.target.bgNew # None => KeyHalf(v, shown')
      /\ v.target.bgNew = u.target.bgNew /\ v.target.state = u.target.state
      /\ v.device.inited = u.device.inited /\ v.target.disp = u.target.disp
  <2>1. CASE UseDri(u)
    <3>1. v = DisplayDri(u, p, transit, o)  BY <2>1
    <3> HIDE DEF v
    <3>2. shown'.dri /\ shown'.picture = p  BY <1>5, <2>1
    <3> DEFINE d == shown'
    <3> HIDE DEF d
    <3>3. /\ Half(v, d)
          /\ Coloured(u) => Coloured(v)
          /\ Keyed(u) => KeyHalf(v, d)
          /\ v.target.bgNew = u.target.bgNew /\ v.target.state = u.target.state
          /\ v.device.inited = u.device.inited /\ v.target.disp = u.target.disp
      <4>1. d.dri /\ d.picture = p  BY <3>2 DEF d
      <4> QED  BY <1>2, <1>3, <3>1, <4>1, DriShows
    <3> QED  BY <3>3 DEF d
  <2>2. CASE ~UseDri(u)
    <3>1. v = DisplayXv(u, p, o)  BY <2>2
    <3> HIDE DEF v
    <3> QED  BY <1>2, <1>5, <2>2, <3>1, XvShows
  <2> QED  BY <2>1, <2>2
<1> HIDE DEF v
<1>7. World' = v  BY <1>1, <1>4, Became
<1>8. target' = v.target  BY <1>7 DEF World
<1>9. Ready(w, p) => Coming(v, shown')
  BY <1>2, <1>3, <1>5, <1>6 DEF Ready, Coming, Alike
<1>10. Half(World', shown') /\ (Ready(w, p) => Coming(World', shown'))
  BY <1>6, <1>7, <1>9
<1>11. /\ target'.bgNew = w.target.bgNew /\ target'.state = w.target.state
       /\ target'.disp = w.target.disp
  BY <1>2, <1>6, <1>8 DEF Alike
<1> QED  BY <1>10, <1>11

LEMMA FinishWhole ==
  ASSUME NEW transit \in BOOLEAN, World \in Worlds, shown \in Displays, Finish(transit),
         Half(World, shown)
  PROVE  /\ Whole(World')
         /\ Coming(World, shown) =>
              /\ Coloured(World') /\ Keyed(World')
              /\ server'.overlay # None => target'.bgOld # None
         /\ target'.bgNew = target.bgNew /\ target'.state = target.state
<1> DEFINE w == [World EXCEPT !.target.disp = shown.picture]
           box == [w EXCEPT !.target.bgOld = w.target.bgNew]
           u == IF shown.drew THEN box ELSE w
           x == DestroyDrawable(u)
           y == [x EXCEPT !.target.path = "xv"]
           z == IF transit \/ u.target.path # "xv" THEN y ELSE u
           v == IF shown.dri THEN w ELSE z
<1>1. /\ w \in Worlds /\ w.server = server /\ w.device = device
      /\ w.target.disp = shown.picture /\ w.target.bgOld = target.bgOld
      /\ w.target.bgNew = target.bgNew /\ w.target.state = target.state
      /\ w.target.path = target.path
  BY DEF World, Worlds, Targets, Displays
<1>2. Becomes(v)  BY DEF Finish, EndXv, ToXv
<1> HIDE DEF w
<1>3. w.target.bgNew \in Keys \cup {None}  BY <1>1 DEF Worlds, Targets
<1>4. /\ box \in Worlds /\ box.server = server /\ box.device = device
      /\ box.target.disp = shown.picture /\ box.target.bgOld = target.bgNew
      /\ box.target.bgNew = target.bgNew /\ box.target.state = target.state
      /\ box.target.path = target.path
  BY <1>1, <1>3 DEF Worlds, Targets
<1> HIDE DEF box
<1>5. /\ u \in Worlds /\ u.server = server /\ u.device = device
      /\ u.target.disp = shown.picture
      /\ u.target.bgOld = IF shown.drew THEN target.bgNew ELSE target.bgOld
      /\ u.target.bgNew = target.bgNew /\ u.target.state = target.state
  BY <1>1, <1>4
<1> HIDE DEF u
<1>6. x \in Worlds /\ Alike(u, x)  BY <1>5, DrawableKeeps, DrawableAlike DEF Keeps
<1> HIDE DEF x
<1>7. /\ y \in Worlds /\ y.server = x.server /\ y.device = x.device
      /\ y.target.path = "xv" /\ y.target.disp = x.target.disp
      /\ y.target.bgOld = x.target.bgOld /\ y.target.bgNew = x.target.bgNew
      /\ y.target.state = x.target.state
  BY <1>6 DEF Worlds, Targets
<1> HIDE DEF y
<1>8. /\ z \in Worlds /\ z.server = server /\ z.target.path = "xv"
      /\ z.device.inited = device.inited /\ z.device.csc = device.csc
      /\ z.device.applied = device.applied /\ z.device.old = device.old
      /\ z.target.disp = shown.picture /\ z.target.bgOld = u.target.bgOld
      /\ z.target.bgNew = target.bgNew /\ z.target.state = target.state
  BY <1>5, <1>6, <1>7 DEF Alike
<1> HIDE DEF z
<1>9. World' = v /\ server' = v.server /\ target' = v.target
  <2>1. v \in Worlds  BY <1>1, <1>8
  <2>2. World' = v  BY <1>2, <2>1, Became
  <2> QED  BY <2>2 DEF World
<1>10. CASE shown.dri
  <2>1. v = w  BY <1>10
  <2> HIDE DEF v
  <2>2. server.overlay = None /\ server.front \in {shown.picture, "lost", "stale"}
    BY <1>10 DEF Half, World
  <2>3. Whole(w)  BY <1>1, <2>2 DEF Whole
  <2>4. Coming(World, shown) => Coloured(w) /\ Keyed(w)
    BY <1>1, <1>10, <2>2, NoPicture DEF Coming, Coloured, KeyHalf, Keyed, World
  <2> QED  BY <1>1, <1>9, <2>1, <2>2, <2>3, <2>4
<1>11. CASE ~shown.dri
  <2>1. v = z  BY <1>11
  <2> HIDE DEF v
  <2>2. server.overlay = shown.picture  BY <1>11 DEF Half, World
  <2>3. shown.picture # None  BY NoPicture DEF Displays
  <2>4. Whole(z)  BY <1>8, <2>2, <2>3 DEF Whole
  <2>5. Coming(World, shown) => Coloured(z)
    BY <1>8, <2>2 DEF Coming, Coloured, World
  <2>6. Coming(World, shown) => Keyed(z) /\ z.target.bgOld # None
    BY <1>5, <1>8, <1>11 DEF Coming, KeyHalf, Keyed, World
  <2> QED  BY <1>8, <1>9, <2>1, <2>4, <2>5, <2>6
<1> QED  BY <1>10, <1>11

-----------------------------------------------------------------------------
(* The steps.                                                              *)

LEMMA NextWorld ==
  ASSUME admits' = admits
  PROVE  /\ Whole(World)' <=> Whole(World')
         /\ Half(World, shown)' <=> Half(World', shown')
         /\ Coloured(World)' <=> Coloured(World')
         /\ Keyed(World)' <=> Keyed(World')
         /\ KeyHalf(World, shown)' <=> KeyHalf(World', shown')
         /\ Proper' <=> Proper
<1>1. (Whole(World)' <=> Whole(World')) /\ (Half(World, shown)' <=> Half(World', shown'))
  BY DEF Whole, Half
<1>2. Coloured(World)' <=> Coloured(World')  BY DEF Coloured
<1>3. /\ Keyed(World)' <=> Keyed(World')
      /\ KeyHalf(World, shown)' <=> KeyHalf(World', shown')
  BY DEF Keyed, KeyHalf
<1> QED  BY <1>1, <1>2, <1>3 DEF Proper

\* The invariant of the next state, while something is displayed and otherwise.
LEMMA StaysBusy ==
  ASSUME HoldInv', Busy', admits' = admits, Half(World', shown'),
         Proper => Coming(World', shown')
  PROVE  ImageInv'
<1>1. WindowInv'  BY NextWorld DEF WindowInv
<1>2. PortInv'  BY NextWorld DEF PortInv, Coming, World
<1> QED  BY <1>1, <1>2 DEF ImageInv

LEMMA ComesToRest ==
  ASSUME HoldInv', ~Busy', admits' = admits, Whole(World'),
         Proper => /\ Coloured(World') /\ Keyed(World')
                   /\ server'.overlay # None => target'.bgOld # None
  PROVE  ImageInv'
<1>1. WindowInv'  BY NextWorld DEF WindowInv
<1>2. PortInv'  BY NextWorld DEF PortInv
<1> QED  BY <1>1, <1>2 DEF ImageInv

\* What is known of a state in which something is displayed, and of one at rest.
LEMMA IsBusy ==
  ASSUME ImageInv, Busy
  PROVE  Half(World, shown) /\ (Proper => Coming(World, shown))
<1>1. Half(World, shown)  BY DEF ImageInv, WindowInv
<1>2. Proper => target.bgNew # None  BY DEF ImageInv, HoldInv
<1> QED  BY <1>1, <1>2 DEF ImageInv, PortInv, Coming, World

LEMMA IsAtRest ==
  ASSUME ImageInv, ~Busy
  PROVE  /\ Whole(World)
         /\ Proper => /\ Coloured(World) /\ Keyed(World)
                      /\ server.overlay # None => target.bgOld # None
  BY DEF ImageInv, WindowInv, PortInv

\* A step that displays nothing and leaves the port alone.
LEMMA AlikeStep ==
  ASSUME ImageInv, Alike(World, World'), Busy' <=> Busy, Busy => shown' = shown,
         admits' = admits, app' = "recolour" <=> app = "recolour",
         owner' = Queue => queue'
  PROVE  ImageInv'
<1>1. /\ server' = server /\ target'.path = target.path /\ target'.disp = target.disp
      /\ target'.bgOld = target.bgOld /\ target'.bgNew = target.bgNew
      /\ target'.state = target.state /\ device'.inited = device.inited
  BY DEF Alike, World
<1>2. HoldInv'  BY <1>1, NextWorld DEF ImageInv, HoldInv
<1>3. CASE Busy
  <2>1. Half(World', shown') /\ (Proper => Coming(World', shown'))
    BY <1>1, <1>3, IsBusy, AlikeFits DEF Coming, World
  <2> QED  BY <1>2, <1>3, <2>1, StaysBusy
<1>4. CASE ~Busy
  <2>1. /\ Whole(World')
        /\ Proper => /\ Coloured(World') /\ Keyed(World')
                     /\ server'.overlay # None => target'.bgOld # None
    BY <1>1, <1>4, IsAtRest, AlikeFits
  <2> QED  BY <1>2, <1>4, <2>1, ComesToRest
<1> QED  BY <1>3, <1>4

LEMMA SameAlike ==
  ASSUME UNCHANGED <<device, server>>, target'.path = target.path,
         target'.disp = target.disp, target'.bgOld = target.bgOld,
         target'.bgNew = target.bgNew, target'.state = target.state
  PROVE  Alike(World, World')
  BY DEF Alike, World

\* The threads of the target between two displays.
LEMMA ThreadImages ==
  ASSUME IInv, ImageInv,
         \/ X11Thread \/ Window \/ RedrawLoop \/ RedrawCheck \/ RedrawWake \/ RedrawSpurious
         \/ StartRedraw \/ JoinX11 \/ SignalExit
  PROVE  ImageInv'
<1>1. owner = Queue => queue  BY DEF ImageInv, HoldInv
<1>2. target \in Targets  BY Holders
<1>3. CASE \/ X11Loop \/ X11Timeout \/ Window
           \/ RedrawLoop \/ RedrawCheck \/ RedrawWake \/ RedrawSpurious \/ JoinX11
  <2>1. /\ UNCHANGED <<device, server, target, queue, owner, shown, admits>>
        /\ app' = "recolour" <=> app = "recolour"
        /\ redraw' \in {"ending", "moving"} <=> redraw \in {"ending", "moving"}
    BY <1>3 DEF X11Loop, X11Timeout, Window, X11Move, X11Visibility, RedrawLoop, RedrawCheck,
                RedrawWake, RedrawSpurious, JoinX11, deviceVars, targetVars
  <2>2. Alike(World, World')  BY <2>1, SameAlike
  <2> QED  BY <1>1, <2>1, <2>2, AlikeStep DEF Busy
<1>4. CASE SignalExit
  <2>1. /\ UNCHANGED <<device, server, target, queue, owner, shown, admits>>
        /\ app = "signal" /\ app' = "join_redraw" /\ redraw' = Woken
    BY <1>4 DEF SignalExit, deviceVars, targetVars
  <2>2. Alike(World, World')  BY <2>1, SameAlike
  <2> QED  BY <1>1, <2>1, <2>2, AlikeStep DEF Busy, Woken
<1>5. CASE X11Post
  <2>1. /\ UNCHANGED <<device, server, queue, owner, shown, app, admits>> /\ redraw' = Woken
        /\ target' = IF x11 = "post" THEN [target EXCEPT !.new = ~@]
                                     ELSE [target EXCEPT !.move = TRUE]
    BY <1>5 DEF X11Post, deviceVars
  <2>2. /\ target'.path = target.path /\ target'.disp = target.disp
        /\ target'.bgOld = target.bgOld /\ target'.bgNew = target.bgNew
        /\ target'.state = target.state
    BY <1>2, <2>1 DEF Targets
  <2>3. Alike(World, World')  BY <2>1, <2>2, SameAlike
  <2> QED  BY <1>1, <2>1, <2>3, AlikeStep DEF Busy, Woken
<1>6. CASE StartRedraw
  <2>1. /\ UNCHANGED <<device, server, queue, owner, shown, admits>> /\ redraw' = "top"
        /\ app = "starting" /\ app' = "idle" /\ target' = [target EXCEPT !.threads = TRUE]
    BY <1>6 DEF StartRedraw, deviceVars
  <2>2. /\ target'.path = target.path /\ target'.disp = target.disp
        /\ target'.bgOld = target.bgOld /\ target'.bgNew = target.bgNew
        /\ target'.state = target.state
    BY <1>2, <2>1 DEF Targets
  <2>3. Alike(World, World')  BY <2>1, <2>2, SameAlike
  <2>4. redraw = "none"  BY <2>1, Holders DEF IInv, TargetInv, ThreadInv
  <2> QED  BY <1>1, <2>1, <2>3, <2>4, AlikeStep DEF Busy
<1> QED  BY <1>3, <1>4, <1>5, <1>6 DEF X11Thread

LEMMA LiveTarget ==
  ASSUME IInv, queue \/ redraw # "none"
  PROVE  target.state = "live"
<1>1. queue => target.refs # 0  BY Holders DEF Bit
<1>2. redraw # "none" => target.threads  BY Holders DEF ThreadInv
<1> QED  BY <1>1, <1>2, Holders DEF IInv, TargetInv

\* A display by who begins, from the state itself or from one like it.
LEMMA ShowImages ==
  ASSUME IInv, ImageInv, ~Busy, Busy', NEW w \in Worlds, Alike(World, w), NEW who,
         NEW p \in Pictures, NEW transit \in BOOLEAN, NEW o \in Outcomes,
         Shows(w, who, p, transit, o),
         p = target.disp \/ (p \in Overlays => device.inited),
         target.state = "live", who = Queue => queue,
         UNCHANGED <<queue, app, admits>>
  PROVE  ImageInv'
<1>1. /\ Whole(World)
      /\ Proper => Coloured(World) /\ Keyed(World)
  BY IsAtRest
<1>2. Whole(w) /\ (Proper => Coloured(w) /\ Keyed(w))  BY <1>1, AlikeFits
<1>3. /\ w.target.disp = target.disp /\ w.target.bgNew = target.bgNew
      /\ w.target.state = target.state /\ w.device.inited = device.inited
  BY DEF Alike, World
<1>4. Proper => app # "recolour"  BY DEF Shows, Proper
<1>5. HoldInv  BY DEF ImageInv
<1>6. Proper => target.bgNew # None  BY <1>4, <1>5 DEF HoldInv
<1>7. Proper => Ready(w, p)
  BY <1>2, <1>3, <1>6 DEF Ready, Coloured
<1>8. /\ Half(World', shown')
      /\ Ready(w, p) => Coming(World', shown')
      /\ target'.bgNew = w.target.bgNew /\ target'.state = w.target.state
  BY <1>2, ShowsHalf
<1>9. owner' = who  BY DEF Shows
<1>10. HoldInv'
  BY <1>3, <1>4, <1>5, <1>8, <1>9, NextWorld DEF HoldInv
<1> QED  BY <1>7, <1>8, <1>10, StaysBusy

\* A display ends.
LEMMA EndImages ==
  ASSUME IInv, ImageInv, Busy, ~Busy', owner' # Queue, NEW transit \in BOOLEAN,
         Finish(transit), target.state = "live", UNCHANGED <<app, admits>>
  PROVE  ImageInv'
<1>1. Half(World, shown) /\ (Proper => Coming(World, shown))  BY IsBusy
<1>2. World \in Worlds /\ shown \in Displays  BY Holders DEF DisplayInv, Busy
<1>3. /\ Whole(World')
      /\ Coming(World, shown) =>
           /\ Coloured(World') /\ Keyed(World')
           /\ server'.overlay # None => target'.bgOld # None
      /\ target'.bgNew = target.bgNew /\ target'.state = target.state
  BY <1>1, <1>2, FinishWhole
<1>4. HoldInv'  BY <1>3 DEF ImageInv, HoldInv
<1> QED  BY <1>1, <1>3, <1>4, ComesToRest

LEMMA DisplayImages ==
  ASSUME IInv, ImageInv,
         QueueThread \/ RedrawEnd \/ \E o \in Outcomes : RedrawOverlap(o) \/ RedrawMove(o)
  PROVE  ImageInv'
<1>1. /\ World \in Worlds /\ target \in Targets /\ World.target = target
      /\ seen \in BOOLEAN
  BY Holders DEF RestOK, World
<1>2. /\ Queue # Redraw /\ None \notin {Queue, Redraw}
      /\ redraw \in {"move", "ending", "moving"} <=> owner = Redraw
  BY Holders, TargetAssumption DEF DisplayInv
<1>3. CASE EndDisplay
  <2>1. owner = Queue /\ Finish(FALSE) /\ owner' = None /\ UNCHANGED <<queue, app, redraw, admits>>
    BY <1>3 DEF EndDisplay, pcs
  <2>2. Busy /\ ~Busy'  BY <1>2, <2>1 DEF Busy
  <2>3. queue  BY <2>1 DEF ImageInv, HoldInv
  <2>4. target.state = "live"  BY <2>3, LiveTarget
  <2> QED  BY <1>2, <2>1, <2>2, <2>4, EndImages
<1>4. ASSUME NEW o \in Outcomes, Prepare(o) PROVE ImageInv'
  <2> DEFINE w == InitDri2(World, o.connected, o.buffer)
             u == IF w.device.dri2 = "ready" /\ Overlapped(w)
                  THEN UpdateBuffer(w, o.fits, o.buffer) ELSE w
  <2>1. w \in Worlds /\ Alike(World, w)
    BY <1>1, OutcomeTyped, InitDri2Keeps, InitDri2Alike DEF Keeps
  <2>2. /\ Becomes(u) /\ owner = None
        /\ UNCHANGED <<setup, queue, held, locks, owner, shown, pcs, admits>>
    BY <1>4 DEF Prepare
  <2> HIDE DEF w
  <2>3. u \in Worlds /\ Alike(w, u)
    BY <2>1, OutcomeTyped, BufferKeeps, BufferAlike, AlikeSelf DEF Keeps
  <2> HIDE DEF u
  <2>4. World' = u  BY <2>2, <2>3, Became
  <2>5. Alike(World, World')  BY <2>1, <2>3, <2>4, AlikeTrans
  <2> QED  BY <1>2, <2>2, <2>5, AlikeStep DEF Busy, pcs
<1>5. ASSUME NEW o \in Outcomes, NEW p \in Pictures, Display(p, o) PROVE ImageInv'
  <2>1. /\ queue /\ owner = None /\ (p \in Overlays => device.inited)
        /\ Shows(World, Queue, p, FALSE, o) /\ UNCHANGED <<queue, app, redraw, admits>>
    BY <1>5 DEF Display, pcs
  <2>2. owner' = Queue  BY <2>1 DEF Shows
  <2>3. ~Busy /\ Busy'  BY <1>2, <2>1, <2>2 DEF Busy
  <2>4. target.state = "live"  BY <2>1, LiveTarget
  <2> QED  BY <1>1, <2>1, <2>3, <2>4, AlikeSelf, ShowImages
<1>6. ASSUME NEW o \in Outcomes, RedrawOverlap(o) PROVE ImageInv'
  <2> DEFINE w == [World EXCEPT !.target.cur = seen]
  <2>1. /\ UNCHANGED <<queue, app, admits>> /\ redraw = "apply" /\ owner = None
        /\ IF target.cur # seen /\ target.disp # None
           THEN Shows(w, Redraw, target.disp, TRUE, o) /\ redraw' = "ending"
           ELSE Becomes(w) /\ owner' = Redraw /\ redraw' = "move" /\ UNCHANGED shown
    BY <1>6 DEF RedrawOverlap
  <2>2. w \in Worlds /\ Alike(World, w)
    <3>1. w \in Worlds  BY <1>1 DEF Worlds, Targets
    <3>2. Alike(World, w)  BY <1>1 DEF Alike, Worlds, Targets
    <3> QED  BY <3>1, <3>2
  <2> HIDE DEF w
  <2>3. ~Busy /\ target.state = "live"  BY <1>2, <2>1, LiveTarget DEF Busy
  <2>4. CASE target.cur # seen /\ target.disp # None
    <3>1. target.disp \in Pictures  BY <1>1, <2>4 DEF Targets
    <3>2. Busy'  BY <2>1, <2>4 DEF Busy
    <3> QED  BY <1>2, <2>1, <2>2, <2>3, <2>4, <3>1, <3>2, ShowImages
  <2>5. CASE ~(target.cur # seen /\ target.disp # None)
    <3>1. World' = w  BY <2>1, <2>2, <2>5, Became
    <3>2. ~Busy'  BY <1>2, <2>1, <2>5 DEF Busy
    <3> QED  BY <1>2, <2>1, <2>2, <2>3, <2>5, <3>1, <3>2, AlikeStep
  <2> QED  BY <2>4, <2>5
<1>7. ASSUME NEW o \in Outcomes, RedrawMove(o) PROVE ImageInv'
  <2> DEFINE w == [World EXCEPT !.target.move = FALSE]
  <2>1. /\ UNCHANGED <<queue, app, admits>> /\ redraw = "move"
        /\ IF target.move /\ target.disp # None
           THEN Shows(w, Redraw, target.disp, FALSE, o) /\ redraw' = "moving"
           ELSE Becomes(w) /\ owner' = None /\ redraw' = "top" /\ UNCHANGED shown
    BY <1>7 DEF RedrawMove
  <2>2. w \in Worlds /\ Alike(World, w)
    <3>1. w \in Worlds  BY <1>1 DEF Worlds, Targets
    <3>2. Alike(World, w)  BY <1>1 DEF Alike, Worlds, Targets
    <3> QED  BY <3>1, <3>2
  <2> HIDE DEF w
  <2>3. ~Busy /\ target.state = "live"  BY <1>2, <2>1, LiveTarget DEF Busy
  <2>4. CASE target.move /\ target.disp # None
    <3>1. target.disp \in Pictures  BY <1>1, <2>4 DEF Targets
    <3>2. Busy'  BY <2>1, <2>4 DEF Busy
    <3> QED  BY <1>2, <2>1, <2>2, <2>3, <2>4, <3>1, <3>2, ShowImages
  <2>5. CASE ~(target.move /\ target.disp # None)
    <3>1. World' = w  BY <2>1, <2>2, <2>5, Became
    <3>2. ~Busy'  BY <1>2, <2>1, <2>5 DEF Busy
    <3> QED  BY <1>2, <2>1, <2>2, <2>3, <2>5, <3>1, <3>2, AlikeStep
  <2> QED  BY <2>4, <2>5
<1>8. CASE RedrawEnd
  <2>1. /\ UNCHANGED <<queue, app, admits>> /\ redraw \in {"ending", "moving"}
        /\ Finish(redraw = "ending") /\ (redraw = "ending") \in BOOLEAN
        /\ IF redraw = "ending" THEN redraw' = "move" /\ UNCHANGED owner
                                ELSE redraw' = "top" /\ owner' = None
    BY <1>8 DEF RedrawEnd
  <2>2. Busy /\ ~Busy' /\ owner' # Queue  BY <1>2, <2>1 DEF Busy
  <2>3. target.state = "live"  BY <2>1, LiveTarget
  <2> QED  BY <2>1, <2>2, <2>3, EndImages
<1> QED  BY <1>3, <1>4, <1>5, <1>6, <1>7, <1>8 DEF QueueThread

\* Without a target nothing is shown, and nothing is being displayed.
LEMMA NothingShown ==
  ASSUME IInv, ImageInv, target.state = "none"
  PROVE  /\ ~Busy /\ ~queue /\ owner # Queue /\ redraw = "none"
         /\ target.path = "none" /\ target.disp = None /\ server.overlay = None
<1>1. ~queue /\ ~target.threads  BY Holders DEF IInv, TargetInv, Bit
<1>2. owner # Queue /\ redraw = "none"  BY <1>1, Holders DEF ImageInv, HoldInv, ThreadInv
<1>3. ~Busy  BY <1>2 DEF Busy
<1>4. target.path = "none" /\ target.disp = None  BY DEF ImageInv, HoldInv
<1>5. server.overlay = None  BY <1>3, <1>4, IsAtRest DEF Whole, World
<1> QED  BY <1>1, <1>2, <1>3, <1>4, <1>5

\* The device is opened or closed.
LEMMA FreshDevice ==
  ASSUME IInv, ImageInv, target.state = "none", ~device'.applied,
         UNCHANGED <<server, target, app, owner, redraw, admits>>
  PROVE  ImageInv'
<1>1. ~Busy'  BY NothingShown DEF Busy
<1>2. World'.server = server /\ World'.target = target /\ World'.device = device'
  BY DEF World
<1>3. Whole(World') /\ (Proper => Keyed(World'))
  BY <1>2, NothingShown, IsAtRest DEF Whole, Keyed, World
<1>4. Coloured(World')  BY <1>2, NothingShown, NoPicture DEF Coloured
<1>5. HoldInv'  BY <1>1, NothingShown DEF ImageInv, HoldInv
<1> QED  BY <1>1, <1>3, <1>4, <1>5, NothingShown, ComesToRest

LEMMA PutFits ==
  ASSUME NEW dv \in Devices
  PROVE  LET d == PutDevice(dv)
         IN  \/ ~d.applied
             \/ /\ d.inited = dv.inited /\ d.csc = dv.csc
                /\ d.applied = dv.applied /\ d.old = dv.old
<1>1. CASE dv.refs = 1  BY <1>1 DEF PutDevice, NoDevice
<1>2. CASE dv.refs # 1  BY <1>2 DEF PutDevice, Devices
<1> QED  BY <1>1, <1>2

LEMMA PortPrepared ==
  ASSUME NEW r \in Results,
         LET w == [device |-> device, server |-> server]
             u == SetColours(w, Default, r)
         IN  IF Has("csc")
             THEN /\ device' = [u.device EXCEPT !.inited = TRUE, !.csc = (r = "all")]
                  /\ server' = u.server
             ELSE device' = [device EXCEPT !.inited = TRUE] /\ UNCHANGED server,
         device \in Devices, server \in Servers
  PROVE  /\ device'.inited
         /\ server'.overlay = server.overlay /\ server'.front = server.front
         /\ server'.key = server.key
         /\ \/ ~device'.applied
            \/ device'.old = Default
            \/ /\ device'.applied = device.applied /\ device'.old = device.old
               /\ server'.colours = server.colours
<1> DEFINE w == [device |-> device, server |-> server]
           u == SetColours(w, Default, r)
<1>1. CASE ~Has("csc")
  BY <1>1 DEF Devices
<1>2. CASE Has("csc")
  <2>1. device' = [u.device EXCEPT !.inited = TRUE, !.csc = (r = "all")] /\ server' = u.server
    BY <1>2
  <2>2. /\ u.device \in Devices
        /\ u.server.overlay = server.overlay /\ u.server.front = server.front
        /\ u.server.key = server.key
        /\ ~u.device.applied \/ u.device.old = Default
    <3>1. CASE r = "all"
      <4> DEFINE x == [w EXCEPT !.device.applied = TRUE, !.device.old = Default,
                                !.server.colours = Default]
      <4>1. u = x  BY <3>1 DEF SetColours
      <4>2. x.device \in Devices /\ x.device.old = Default  BY DEF Devices, Colours
      <4>3. /\ x.server.overlay = server.overlay /\ x.server.front = server.front
            /\ x.server.key = server.key
        BY DEF Servers
      <4> QED  BY <4>1, <4>2, <4>3
    <3>2. CASE r = "some"
      <4> DEFINE x == [w EXCEPT !.device.applied = FALSE, !.server.colours = None]
      <4>1. u = x  BY <3>2 DEF SetColours
      <4>2. x.device \in Devices /\ ~x.device.applied  BY DEF Devices
      <4>3. /\ x.server.overlay = server.overlay /\ x.server.front = server.front
            /\ x.server.key = server.key
        BY DEF Servers
      <4> QED  BY <4>1, <4>2, <4>3
    <3>3. CASE r = "update"
      <4> DEFINE x == [w EXCEPT !.device.applied = FALSE, !.device.csc = FALSE,
                                !.server.colours = None]
      <4>1. u = x  BY <3>3 DEF SetColours
      <4>2. x.device \in Devices /\ ~x.device.applied  BY DEF Devices
      <4>3. /\ x.server.overlay = server.overlay /\ x.server.front = server.front
            /\ x.server.key = server.key
        BY DEF Servers
      <4> QED  BY <4>1, <4>2, <4>3
    <3> QED  BY <3>1, <3>2, <3>3 DEF Results
  <2> HIDE DEF u
  <2>3. device'.inited /\ device'.applied = u.device.applied /\ device'.old = u.device.old
    BY <2>1, <2>2 DEF Devices
  <2> QED  BY <2>1, <2>2, <2>3
<1> QED  BY <1>1, <1>2

LEMMA DeviceImages ==
  ASSUME IInv, ImageInv, DeviceCall
  PROVE  ImageInv'
<1>0. /\ UNCHANGED <<target, queue, held, locks, owner, shown, app, x11, redraw, seen, admits>>
      /\ app = "idle" /\ (owner = Queue => queue)
  BY DEF DeviceCall, targetVars, pcs, ImageInv, HoldInv
<1>1. device \in Devices /\ World \in Worlds  BY Holders
<1>2. CASE CreateDevice
  <2>1. device.state = "none" /\ UNCHANGED server /\ (device' = device \/ device' = NewDevice)
    BY <1>2 DEF CreateDevice
  <2>2. device.refs = 0 /\ target.state = "none"
    BY <2>1, Holders DEF IInv, DeviceInv, Bit
  <2>3. CASE device' = device
    <3>1. Alike(World, World')  BY <1>0, <2>1, <2>3, SameAlike
    <3> QED  BY <1>0, <3>1, AlikeStep DEF Busy
  <2>4. CASE device' = NewDevice
    <3>1. ~device'.applied  BY <2>4 DEF NewDevice, NoDevice
    <3> QED  BY <1>0, <2>1, <2>2, <3>1, FreshDevice
  <2> QED  BY <2>1, <2>3, <2>4
<1>3. CASE DestroyDevice
  <2> DEFINE dv == [device EXCEPT !.handle = FALSE]
  <2>1. device.handle /\ device' = PutDevice(dv) /\ UNCHANGED server
    BY <1>3 DEF DestroyDevice
  <2>2. /\ dv \in Devices /\ dv.refs = device.refs /\ dv.inited = device.inited
        /\ dv.csc = device.csc /\ dv.applied = device.applied /\ dv.old = device.old
    BY <1>1 DEF Devices
  <2> HIDE DEF dv
  <2>3. CASE dv.refs = 1
    <3>1. device' = NoDevice  BY <2>1, <2>3 DEF PutDevice
    <3>2. ~device'.applied  BY <3>1 DEF NoDevice
    <3>3. target.state = "none"  BY <2>1, <2>2, <2>3, Holders DEF Bit
    <3> QED  BY <1>0, <2>1, <3>2, <3>3, FreshDevice
  <2>4. CASE dv.refs # 1
    <3>1. device' = [dv EXCEPT !.refs = @ - 1]  BY <2>1, <2>4 DEF PutDevice
    <3>2. /\ device'.inited = dv.inited /\ device'.csc = dv.csc
          /\ device'.applied = dv.applied /\ device'.old = dv.old
      BY <2>2, <3>1 DEF Devices
    <3>3. Alike(World, World')  BY <1>0, <2>1, <2>2, <3>2 DEF Alike, World
    <3> QED  BY <1>0, <3>3, AlikeStep DEF Busy
  <2> QED  BY <2>3, <2>4
<1>4. ASSUME NEW r \in Results, InitColours(r) PROVE ImageInv'
  <2>1. ~device.inited  BY <1>4 DEF InitColours
  <2>2. /\ device'.inited
        /\ server'.overlay = server.overlay /\ server'.front = server.front
        /\ server'.key = server.key
        /\ \/ ~device'.applied
           \/ device'.old = Default
           \/ /\ device'.applied = device.applied /\ device'.old = device.old
              /\ server'.colours = server.colours
    <3>1. server \in Servers  BY <1>1 DEF World, Worlds
    <3> QED  BY <1>1, <1>4, <3>1, PortPrepared DEF InitColours
  <2>3. /\ World'.target = target /\ World'.server = server' /\ World'.device = device'
        /\ World.target = target /\ World.server = server /\ World.device = device
    BY <1>0 DEF World
  <2>4. Coloured(World) => Coloured(World')
    BY <2>1, <2>2, <2>3, NoPicture DEF Coloured
  <2>5. HoldInv'  BY <1>0 DEF ImageInv, HoldInv, Busy, Proper
  <2>6. CASE Busy
    <3>1. Half(World', shown')  BY <1>0, <2>2, <2>3, <2>6, IsBusy DEF Half
    <3>2. Proper => Coming(World', shown')
      BY <1>0, <2>2, <2>3, <2>4, <2>6, IsBusy DEF Coming, KeyHalf, Keyed
    <3> QED  BY <1>0, <2>5, <2>6, <3>1, <3>2, StaysBusy DEF Busy
  <2>7. CASE ~Busy
    <3>1. Whole(World')  BY <2>2, <2>3, <2>7, IsAtRest DEF Whole
    <3>2. Proper => /\ Coloured(World') /\ Keyed(World')
                    /\ server'.overlay # None => target'.bgOld # None
      BY <1>0, <2>2, <2>3, <2>4, <2>7, IsAtRest DEF Keyed
    <3> QED  BY <1>0, <2>5, <2>7, <3>1, <3>2, ComesToRest DEF Busy
  <2> QED  BY <2>6, <2>7
<1> QED  BY <1>2, <1>3, <1>4 DEF DeviceCall

\* A new target shows nothing, and no device that forgot the colours of its port.
LEMMA CreateImages ==
  ASSUME IInv, ImageInv, CreateTarget
  PROVE  ImageInv'
<1> DEFINE t == [NoTarget EXCEPT !.state = "live", !.handle = TRUE, !.refs = 1,
                                 !.key = KeyFound]
<1>1. /\ app = "idle" /\ target.state = "none" /\ MayCreate
      /\ target' = t
      /\ device' = [device EXCEPT !.refs = @ + 1] /\ server' = [server EXCEPT !.front = None]
      /\ (x11' = "top" /\ app' = "starting") \/ UNCHANGED <<x11, app>>
      /\ UNCHANGED <<setup, queue, held, locks, owner, shown, redraw, seen, admits>>
  BY DEF CreateTarget
<1>2. /\ t.path = "none" /\ t.disp = None /\ t.bgOld = None /\ t.bgNew = FirstKey
      /\ t.state = "live"
  BY ZenonT(60) DEF NoTarget
<1> HIDE DEF t
<1>3. /\ device'.inited = device.inited /\ device'.csc = device.csc
      /\ device'.applied = device.applied /\ device'.old = device.old
  BY <1>1, Holders DEF Devices
<1>4. server \in Servers  BY Holders DEF World, Worlds
<1>5. /\ server'.overlay = server.overlay /\ server'.colours = server.colours
  BY <1>1, <1>4 DEF Servers
<1>6. /\ ~Busy /\ owner # Queue /\ redraw = "none" /\ server.overlay = None
  BY <1>1, NothingShown
<1>7. ~Busy'  BY <1>1, <1>6 DEF Busy
<1>8. FirstKey # None  BY TargetAssumption, DisplayAssumption
<1>9. HoldInv'  BY <1>1, <1>2, <1>6, <1>7, <1>8 DEF HoldInv
<1>10. World'.target = t /\ World'.server = server' /\ World'.device = device'
  BY <1>1 DEF World
<1>11. Whole(World') /\ Keyed(World')  BY <1>2, <1>5, <1>6, <1>10 DEF Whole, Keyed
<1>12. Proper => Coloured(World')
  <2> SUFFICES ASSUME Proper PROVE Coloured(World')  OBVIOUS
  <2>1. Coloured(World)  BY <1>6, IsAtRest
  <2>2. "port_forgets" \in admits => device.old \notin Pictures
    BY <1>1 DEF MayCreate, Proper
  <2>3. device.applied /\ device.old \in Pictures => server.colours = device.old
    BY <2>1, <2>2 DEF Coloured, World
  <2> QED  BY <1>2, <1>3, <1>5, <1>6, <1>10, <2>3, NoPicture DEF Coloured
<1> QED  BY <1>1, <1>2, <1>5, <1>6, <1>7, <1>9, <1>11, <1>12, ComesToRest

\* A target that goes takes its picture along.
LEMMA TearDownEmpties ==
  ASSUME NEW w \in Worlds, w.device.refs # 0, Whole(w)
  PROVE  LET v == TearDown(w)
         IN  /\ v.target = NoTarget /\ v.server.overlay = None
             /\ Coloured(w) => Coloured(v)
<1> DEFINE s == [w.server EXCEPT !.overlay = None,
                   !.colours = IF "port_forgets" \in admits THEN None ELSE @,
                   !.key = IF "port_forgets" \in admits THEN None ELSE @]
           stopped == [w EXCEPT !.server = s]
           u == CASE w.target.path = "xv" -> StopVideo(w)
                  [] w.target.path = "dri" -> DestroyDrawable(w)
                  [] w.target.path = "none" -> w
           d == PutDevice(u.device)
           v == [u EXCEPT !.device = d, !.target = NoTarget]
<1>1. w.target.path \in {"xv", "dri", "none"}  BY DEF Worlds, Targets
<1>2. /\ StopVideo(w) = stopped /\ stopped.device = w.device /\ stopped.server = s
  BY DEF StopVideo, Worlds
<1>3. s.overlay = None /\ ("port_forgets" \in admits \/ s.colours = w.server.colours)
  BY DEF Worlds, Servers
<1> HIDE DEF s
<1>4. DestroyDrawable(w).server = w.server /\ Alike(w, DestroyDrawable(w))
  BY DrawableAlike DEF Alike
<1>5. /\ u \in Worlds
      /\ u.server.overlay = None
      /\ "port_forgets" \in admits \/ u.server.colours = w.server.colours
      /\ u.device.inited = w.device.inited /\ u.device.csc = w.device.csc
      /\ u.device.applied = w.device.applied /\ u.device.old = w.device.old
  <2>1. Keeps(w, u)  BY <1>1, StopVideoKeeps, DrawableKeeps, KeepsSelf
  <2>2. CASE w.target.path = "xv"
    <3>1. u = stopped  BY <1>2, <2>2
    <3> QED  BY <1>2, <1>3, <2>1, <3>1 DEF Keeps
  <2>3. CASE w.target.path = "dri"
    <3>1. u = DestroyDrawable(w) /\ w.server.overlay = None  BY <2>3 DEF Whole
    <3> QED  BY <1>4, <2>1, <3>1 DEF Keeps, Alike
  <2>4. CASE w.target.path = "none"
    <3>1. u = w /\ w.server.overlay = None  BY <2>4 DEF Whole
    <3> QED  BY <2>1, <3>1 DEF Keeps
  <2> QED  BY <1>1, <2>2, <2>3, <2>4
<1>6. TearDown(w) = v  BY DEF TearDown
<1> HIDE DEF u
<1>7. \/ ~d.applied
      \/ /\ d.inited = w.device.inited /\ d.csc = w.device.csc
         /\ d.applied = w.device.applied /\ d.old = w.device.old
  <2>1. u.device \in Devices  BY <1>5 DEF Worlds
  <2> QED  BY <1>5, <2>1, PutFits
<1> HIDE DEF d
<1>8. v.device = d /\ v.target = NoTarget /\ v.server = u.server
  BY <1>5 DEF Worlds
<1> HIDE DEF v
<1>9. NoTarget.state = "none" /\ NoTarget.disp = None  BY DEF NoTarget
<1>10. Coloured(w) => Coloured(v)
  BY <1>5, <1>7, <1>8, <1>9, NoPicture DEF Coloured
<1> QED  BY <1>5, <1>6, <1>8, <1>10

\* The target has gone.
LEMMA GoneImages ==
  ASSUME NEW w \in Worlds, w.device.refs # 0, Whole(w), Proper => Coloured(w),
         World' = TearDown(w), owner' # Queue, redraw' \notin {"ending", "moving"},
         app' # "recolour", admits' = admits
  PROVE  ImageInv'
<1> DEFINE v == TearDown(w)
<1>1. v.target = NoTarget /\ v.server.overlay = None /\ (Coloured(w) => Coloured(v))
  BY TearDownEmpties
<1>2. World' = v  OBVIOUS
<1> HIDE DEF v
<1>3. target' = NoTarget /\ server' = v.server  BY <1>1, <1>2 DEF World
<1>4. /\ NoTarget.state = "none" /\ NoTarget.disp = None /\ NoTarget.path = "none"
      /\ NoTarget.bgOld = None /\ NoTarget.bgNew = FirstKey /\ FirstKey # None
  BY TargetAssumption, DisplayAssumption DEF NoTarget
<1>5. ~Busy'  BY DEF Busy
<1>6. HoldInv'  BY <1>3, <1>4, <1>5 DEF HoldInv
<1>7. Whole(World') /\ Keyed(World')  BY <1>1, <1>2, <1>4 DEF Whole, Keyed
<1> QED  BY <1>1, <1>2, <1>3, <1>5, <1>6, <1>7, ComesToRest

LEMMA UnrefSplit ==
  ASSUME NEW w \in Worlds, w.target.refs # 0, w.device.refs # 0, Unref(w)
  PROVE  \/ Alike(w, World') /\ app' \in {app, "join_x11"}
         \/ /\ w.target.refs = 1 /\ ~w.target.threads /\ UNCHANGED app
            /\ \E u \in Worlds : /\ Alike(w, u) /\ u.device = w.device
                                 /\ World' = TearDown(u)
<1> DEFINE u == [w EXCEPT !.target.refs = @ - 1]
<1>1. /\ u \in Worlds /\ u.device = w.device /\ u.target.refs = w.target.refs - 1
      /\ u.target.threads = w.target.threads /\ Alike(w, u)
  <2>1. w.target.refs - 1 \in 0 .. 2  BY DEF Worlds, Targets
  <2> QED  BY <2>1 DEF Worlds, Targets, Alike
<1>2. IF u.target.refs > 0 THEN Becomes(u) /\ UNCHANGED app
      ELSE IF u.target.threads THEN Becomes(u) /\ app' = "join_x11"
      ELSE Becomes(TearDown(u)) /\ UNCHANGED app
  BY DEF Unref
<1> HIDE DEF u
<1>3. CASE u.target.refs > 0 \/ u.target.threads
  <2>1. World' = u  BY <1>1, <1>2, <1>3, Became
  <2> QED  BY <1>1, <1>2, <1>3, <2>1
<1>4. CASE ~(u.target.refs > 0 \/ u.target.threads)
  <2>1. World' = TearDown(u) /\ UNCHANGED app
    BY <1>1, <1>2, <1>4, TearDownDoes, Became
  <2>2. w.target.refs = 1  BY <1>1, <1>4 DEF Worlds, Targets
  <2> QED  BY <1>1, <1>4, <2>1, <2>2
<1> QED  BY <1>3, <1>4

LEMMA JoinImages ==
  ASSUME IInv, ImageInv, JoinRedraw
  PROVE  ImageInv'
<1>1. /\ app = "join_redraw" /\ redraw = "done" /\ Becomes(TearDown(World))
      /\ app' = "idle" /\ redraw' = "none" /\ UNCHANGED <<owner, admits>>
  BY DEF JoinRedraw
<1>2. target.refs = 0 /\ target.state = "live"
  BY <1>1, Holders DEF IInv, TargetInv, Joins
<1>3. ~queue /\ device.refs # 0 /\ World.device = device
  BY <1>2, Holders DEF Bit, World
<1>4. owner # Queue  BY <1>3 DEF ImageInv, HoldInv
<1>5. ~Busy  BY <1>1, <1>4 DEF Busy
<1>6. World' = TearDown(World)  BY <1>1, <1>3, Holders, TearDownDoes, Became
<1> QED  BY <1>1, <1>3, <1>4, <1>5, <1>6, IsAtRest, Holders, GoneImages

LEMMA HolderImages ==
  ASSUME IInv, ImageInv, DestroyTarget \/ DestroyQueue \/ CreateQueue
  PROVE  ImageInv'
<1>1. World \in Worlds /\ target \in Targets /\ device \in Devices  BY Holders
<1>2. owner = Queue => queue  BY DEF ImageInv, HoldInv
<1>3. CASE DestroyTarget
  <2> DEFINE w == [World EXCEPT !.target.handle = FALSE, !.target.exit = TRUE]
  <2>1. /\ app = "idle" /\ target.handle /\ Unref(w)
        /\ UNCHANGED <<queue, owner, shown, redraw, admits>>
    BY <1>3 DEF DestroyTarget
  <2>2. /\ w \in Worlds /\ w.target.refs = target.refs /\ w.target.threads = target.threads
        /\ w.device = device
    BY ZenonT(60), <1>1 DEF World, Worlds, Targets
  <2>3. Alike(World, w)  BY ZenonT(60), <1>1 DEF World, Worlds, Targets, Alike
  <2> HIDE DEF w
  <2>4. target.refs # 0 /\ target.state = "live" /\ device.refs # 0
    BY <2>1, Holders DEF Bit, IInv, TargetInv
  <2>5. CASE Alike(w, World') /\ app' \in {app, "join_x11"}
    <3>1. Alike(World, World')  BY <2>3, <2>5, AlikeTrans
    <3> QED  BY <1>2, <2>1, <2>5, <3>1, AlikeStep DEF Busy
  <2>6. ASSUME w.target.refs = 1, ~w.target.threads, UNCHANGED app,
               NEW u \in Worlds, Alike(w, u), u.device = w.device, World' = TearDown(u)
        PROVE  ImageInv'
    <3>1. ~queue /\ redraw = "none"
      BY <2>1, <2>2, <2>6, Holders DEF Bit, ThreadInv
    <3>2. owner # Queue /\ ~Busy  BY <1>2, <3>1 DEF Busy
    <3>3. Whole(u) /\ (Proper => Coloured(u))
      BY <2>3, <2>6, <3>2, IsAtRest, AlikeTrans, AlikeFits
    <3> QED  BY <2>1, <2>2, <2>4, <2>6, <3>1, <3>2, <3>3, GoneImages
  <2> QED  BY <2>1, <2>2, <2>4, <2>5, <2>6, UnrefSplit
<1>4. CASE DestroyQueue
  <2> DEFINE d == PutDevice(device)
             w == [World EXCEPT !.target.disp = None, !.device = d]
  <2>1. /\ app = "idle" /\ queue /\ owner = None /\ queue' = FALSE /\ Unref(w)
        /\ UNCHANGED <<shown, redraw, admits, owner>>
    BY <1>4 DEF DestroyQueue, World
  <2>2. target.refs # 0 /\ target.state = "live"
    BY <2>1, Holders DEF Bit, IInv, TargetInv
  <2>3. device.refs # 0 /\ device.refs # 1 /\ device.refs \in Nat
    BY <2>1, <2>2, Holders DEF Bit
  <2>4. d = [device EXCEPT !.refs = device.refs - 1]  BY <2>3 DEF PutDevice
  <2>5. /\ d \in Devices /\ d.refs # 0 /\ d.inited = device.inited /\ d.csc = device.csc
        /\ d.applied = device.applied /\ d.old = device.old
    BY <1>1, <2>3, <2>4 DEF Devices
  <2> HIDE DEF d
  <2>6. /\ w \in Worlds /\ w.device = d /\ w.server = server /\ w.target.disp = None
        /\ w.target.refs = target.refs /\ w.target.threads = target.threads
        /\ w.target.path = target.path /\ w.target.bgOld = target.bgOld
        /\ w.target.bgNew = target.bgNew /\ w.target.state = target.state
    BY <1>1, <2>5 DEF World, Worlds, Targets
  <2> HIDE DEF w
  <2>7. ~Busy /\ owner # Queue
    BY <2>1, Holders, TargetAssumption DEF Busy, DisplayInv
  <2>8. ~Busy' /\ owner' # Queue  BY <2>1, <2>7 DEF Busy
  <2>9. Whole(w)  BY <2>6, <2>7, IsAtRest DEF Whole, World
  <2>10. Proper => /\ Coloured(w) /\ Keyed(w)
                   /\ w.server.overlay # None => w.target.bgOld # None
    BY <2>5, <2>6, <2>7, IsAtRest, NoPicture DEF Coloured, Keyed, World
  <2>11. CASE Alike(w, World') /\ app' \in {app, "join_x11"}
    <3>1. /\ Whole(World')
          /\ Proper => /\ Coloured(World') /\ Keyed(World')
                       /\ server'.overlay # None => target'.bgOld # None
      BY <2>9, <2>10, <2>11, AlikeFits DEF Alike, World
    <3>2. /\ target'.path = target.path /\ target'.disp = None
          /\ target'.bgNew = target.bgNew /\ target'.state = target.state
      BY <2>6, <2>11 DEF Alike, World
    <3>3. HoldInv'  BY <2>1, <2>2, <2>8, <2>11, <3>2 DEF ImageInv, HoldInv
    <3> QED  BY <2>1, <2>8, <3>1, <3>3, ComesToRest
  <2>12. ASSUME w.target.refs = 1, ~w.target.threads, UNCHANGED app,
                NEW u \in Worlds, Alike(w, u), u.device = w.device, World' = TearDown(u)
         PROVE  ImageInv'
    <3>1. Whole(u) /\ (Proper => Coloured(u))  BY <2>9, <2>10, <2>12, AlikeFits
    <3>2. redraw' \notin {"ending", "moving"}  BY <2>8 DEF Busy
    <3> QED  BY <2>1, <2>5, <2>6, <2>8, <2>12, <3>1, <3>2, GoneImages
  <2> QED  BY <2>1, <2>2, <2>5, <2>6, <2>11, <2>12, UnrefSplit
<1>5. CASE CreateQueue
  <2>1. /\ ~queue /\ queue' = TRUE
        /\ target' = [target EXCEPT !.refs = @ + 1] /\ device' = [device EXCEPT !.refs = @ + 1]
        /\ UNCHANGED <<server, owner, shown, app, redraw, admits>>
    BY <1>5 DEF CreateQueue, pcs
  <2>2. Alike(World, World')
    BY <1>1, <2>1 DEF Alike, World, Devices, Targets
  <2> QED  BY <2>1, <2>2, AlikeStep DEF Busy
<1> QED  BY <1>3, <1>4, <1>5

\* The background changes at rest, or where it is allowed to.
LEMMA BackgroundImages ==
  ASSUME IInv, ImageInv, SetBackground \/ \E k \in setup.keys : EndBackground(k)
  PROVE  ImageInv'
<1>1. /\ UNCHANGED <<device, server, queue, owner, shown, redraw, admits>>
      /\ \/ app' = "recolour" /\ (owner = None \/ "recolour" \in admits)
         \/ app = "recolour" /\ app' = "idle"
  <2>1. CASE SetBackground  BY <2>1 DEF SetBackground, deviceVars
  <2>2. CASE \E k \in setup.keys : EndBackground(k)  BY <2>2 DEF EndBackground, deviceVars
  <2> QED  BY <2>1, <2>2
<1>2. PICK k \in Keys \cup {None} : target' = [target EXCEPT !.bgNew = k]
                                    /\ (k = None <=> app' = "recolour")
  <2>1. setup.keys \subseteq Keys  BY Holders, DisplayAssumption DEF RestOK, Setup
  <2>2. CASE SetBackground  BY <2>2 DEF SetBackground
  <2>3. ASSUME NEW k \in setup.keys, EndBackground(k)
        PROVE  target' = [target EXCEPT !.bgNew = k] /\ k \in Keys /\ k # None /\ app' = "idle"
    BY <2>1, <2>3, DisplayAssumption DEF EndBackground
  <2> QED  BY <2>2, <2>3
<1>3. /\ target'.path = target.path /\ target'.disp = target.disp
      /\ target'.bgOld = target.bgOld /\ target'.bgNew = k /\ target'.state = target.state
  BY <1>2, Holders DEF Targets
<1>4. owner = None => ~Busy
  BY Holders, TargetAssumption DEF Busy, DisplayInv
<1>5. Proper => ~Busy  BY <1>1, <1>4 DEF ImageInv, HoldInv, Proper
<1>6. Busy' <=> Busy  BY <1>1 DEF Busy
<1>7. HoldInv'  BY <1>1, <1>2, <1>3, <1>5, <1>6, NextWorld DEF ImageInv, HoldInv
<1>8. CASE Busy
  <2>1. Half(World', shown')  BY <1>1, <1>8, IsBusy DEF Half, World
  <2> QED  BY <1>1, <1>5, <1>6, <1>7, <1>8, <2>1, StaysBusy
<1>9. CASE ~Busy
  <2>1. Whole(World')  BY <1>1, <1>3, <1>9, IsAtRest DEF Whole, World
  <2>2. Proper => /\ Coloured(World') /\ Keyed(World')
                  /\ server'.overlay # None => target'.bgOld # None
    BY <1>1, <1>3, <1>9, IsAtRest DEF Coloured, Keyed, World
  <2> QED  BY <1>1, <1>6, <1>7, <1>9, <2>1, <2>2, ComesToRest
<1> QED  BY <1>8, <1>9

-----------------------------------------------------------------------------
(* What is shown: the theorems.                                            *)

LEMMA InitImage == Init => ImageInv
<1> SUFFICES ASSUME Init PROVE ImageInv  OBVIOUS
<1> USE DEF Init, DeviceInit
<1>1. /\ NoTarget.state = "none" /\ NoTarget.disp = None /\ NoTarget.path = "none"
      /\ NoTarget.bgOld = None /\ NoTarget.bgNew = FirstKey /\ FirstKey # None
      /\ ~NoDevice.applied
  BY TargetAssumption, DisplayAssumption DEF NoTarget, NoDevice
<1>2. ~Busy  BY TargetAssumption DEF Busy
<1>3. HoldInv  BY <1>1, <1>2, TargetAssumption DEF HoldInv
<1>4. WindowInv  BY <1>1, <1>2 DEF WindowInv, Whole, World
<1>5. PortInv
  BY <1>1, <1>2, NoPicture DEF PortInv, Coloured, Keyed, World
<1> QED  BY <1>3, <1>4, <1>5 DEF ImageInv

LEMMA NextImage == IInv /\ ImageInv /\ [Next]_vars => ImageInv'
<1> SUFFICES ASSUME IInv, ImageInv, [Next]_vars PROVE ImageInv'  OBVIOUS
<1>1. CASE Next
  BY <1>1, ThreadImages, DisplayImages, DeviceImages, CreateImages, JoinImages, HolderImages,
     BackgroundImages
     DEF Next, X11Thread, RedrawThread, Call, Returning
<1>2. CASE UNCHANGED vars
  <2>1. UNCHANGED <<flags, device, server, target, queue, owner, shown, app, redraw, admits>>
    BY <1>2 DEF vars, deviceVars, targetVars, pcs
  <2>2. Alike(World, World')  BY <2>1, SameAlike
  <2>3. owner = Queue => queue  BY DEF ImageInv, HoldInv
  <2> QED  BY <2>1, <2>2, <2>3, AlikeStep DEF Busy
<1> QED  BY <1>1, <1>2

\* ImageInv is an invariant: what the window and the port show between the halves of
\* pqt_display_surface and between two of them, under whatever rule is lifted.
THEOREM ImageInvariance == Spec => []ImageInv
  BY InitImage, NextImage, TargetInvariance, PTL DEF Spec

\* After pqt_display_surface the window shows the picture that is reported visible,
\* whether the queue's thread or pqt_display_thr called it and however often the
\* output changed between the Xv overlay and DRI2 meanwhile; if it does not, there was
\* no DRI buffer to be had, or the buffer was one of a drawable that was destroyed.
THEOREM ShownIsInWindow == Spec => []PictureReachesWindow
<1>1. IInv /\ ImageInv => PictureReachesWindow
  <2> SUFFICES ASSUME IInv, ImageInv, owner = None PROVE PictureReachesWindow
    BY DEF PictureReachesWindow
  <2>1. ~Busy  BY Holders, TargetAssumption DEF Busy, DisplayInv
  <2> QED  BY <2>1, IsAtRest DEF Whole, World, PictureReachesWindow, InWindow
<1> QED  BY <1>1, TargetInvariance, ImageInvariance, PTL

\* The Xv port has the colours of the video on the overlay, when tegra_xv_apply_csc
\* got them applied, and the key of the background that pqt_draw_background painted,
\* unless it was refused. The application may not set the background during a
\* display, and a port that forgets its attributes when the video stops is not given
\* to a second target.
THEOREM PortIsFit ==
  ASSUME \A a \in Admits :
           "recolour" \notin a /\ ~({"port_forgets", "second_target"} \subseteq a)
  PROVE  Spec => []PortFitsPicture
<1>1. IInv /\ ImageInv => PortFitsPicture
  <2> SUFFICES ASSUME IInv, ImageInv, owner = None PROVE PortFitsPicture
    BY DEF PortFitsPicture, ColoursAreOwn, KeyIsDrawn
  <2>1. Proper  BY Holders DEF RestOK, Proper
  <2>2. ~Busy  BY Holders, TargetAssumption DEF Busy, DisplayInv
  <2>3. /\ Whole(World) /\ Coloured(World) /\ Keyed(World)
        /\ server.overlay # None => target.bgOld # None
    BY <2>1, <2>2, IsAtRest
  <2>4. ColoursAreOwn
    <3> SUFFICES ASSUME server.overlay \in Overlays, device.csc, device.applied
                 PROVE  server.colours = server.overlay
      BY DEF ColoursAreOwn
    <3>1. device.old = server.overlay /\ device.old \in Pictures /\ server.overlay # None
      BY <2>3, NoPicture DEF Coloured, World
    <3>2. target.path = "xv"  BY <2>3, <3>1 DEF Whole, World
    <3>3. target.state # "none"  BY <3>2 DEF ImageInv, HoldInv
    <3> QED  BY <2>3, <3>1, <3>3 DEF Coloured, World
  <2>5. KeyIsDrawn
    BY <2>3 DEF Keyed, World, KeyIsDrawn
  <2> QED  BY <2>4, <2>5 DEF PortFitsPicture
<1> QED  BY <1>1, TargetInvariance, ImageInvariance, PTL
=============================================================================
