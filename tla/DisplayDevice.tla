--------------------------- MODULE DisplayDevice ---------------------------
(***************************************************************************)
(* The device (vdpau_tegra.c): the choice between the Xv overlay and DRI   *)
(* output made from the environment and the X server, the references that  *)
(* keep the device open, and the colours of the Xv port. Flags are global, *)
(* the rest belongs to one device at a time.                               *)
(***************************************************************************)
EXTENDS Integers, FiniteSets

CONSTANTS
  Pictures,      \* output surfaces that are shown; each mixed with its own colours
  Overlays,      \* those shown as video: surf->shared->xv_img
  Keys,          \* colour keys
  Default,       \* the colours of tegra_xv_initialize_csc
  None,
  Setups         \* what the environment and the X server may be

\* wish: the environment variables that are set; the rest is what the X server
\* and the kernel have: magic (DRI2Authenticate), drm and its channels, port (the Xv
\* port can be grabbed), csc and key (its attributes), threads (XInitThreads was called).
\* keys: the colour keys the application sets.
Setup == [wish : SUBSET {"xv", "dri", "auto"},
          has : SUBSET {"magic", "drm", "channels", "port", "csc", "key", "threads",
                        "composited", "rotated", "rotation"},
          keys : SUBSET Keys]

ASSUME DisplayAssumption ==
  /\ Overlays \subseteq Pictures /\ Setups \subseteq Setup
  /\ {None, Default} \cap (Pictures \cup Keys) = {} /\ None # Default

VARIABLES
  setup,         \* the member of Setups that holds
  flags,         \* tegra_vdpau_force_xv, _force_dri and _dri_xv_autoswitch that are set
  device,        \* struct tegra_device
  server         \* what the X server shows, the Xv port's colours and key

Colours == Pictures \cup {Default, None}   \* None: a part of them was set

NoDevice == [state |-> "none", handle |-> FALSE, refs |-> 0, port |-> FALSE,
             composited |-> FALSE, rotated |-> FALSE, dri2 |-> "no",
             inited |-> FALSE, csc |-> FALSE, applied |-> FALSE, old |-> None]

DeviceTypeOK ==
  /\ setup \in Setups /\ flags \subseteq {"xv", "dri", "auto"}
  /\ device \in [state : {"none", "open"}, handle : BOOLEAN, refs : Nat, port : BOOLEAN,
                 composited : BOOLEAN, rotated : BOOLEAN, dri2 : {"no", "failed", "ready"},
                 inited : BOOLEAN, csc : BOOLEAN, applied : BOOLEAN, old : Colours]
  /\ server \in [overlay : Pictures \cup {None}, front : Pictures \cup {None, "lost", "stale"},
                 colours : Colours, key : Keys \cup {None, "refused"}]

DeviceInit ==
  /\ setup \in Setups
  /\ flags = {}
  /\ device = NoDevice
  /\ server = [overlay |-> None, front |-> None, colours |-> None, key |-> None]

-----------------------------------------------------------------------------
(* vdp_imp_device_create_x11. Each step takes the flags the last one left; *)
(* they stay when the device cannot be created.                            *)

Has(what) == what \in setup.has
OnlyXv(f) == (f \ {"dri"}) \cup {"xv"}

Wished == flags \cup (setup.wish \cap {"xv", "dri"})
Authenticated == IF Has("magic") THEN Wished ELSE OnlyXv(Wished)
Grabbed == Authenticated \cup (IF Has("port") THEN {} ELSE {"dri"})

\* tegra_vdpau_dri_xv_autoswitch
Autoswitch ==
  IF \/ "auto" \in setup.wish
     \/ /\ Grabbed \cap {"xv", "dri"} = {}
        /\ ~Has("composited") /\ (Has("rotated") => Has("port") /\ Has("rotation"))
  THEN Grabbed \cup {"auto"} ELSE Grabbed

\* The compositor and the rotation are stored before they are looked for.
NewDevice == [NoDevice EXCEPT !.state = "open", !.handle = TRUE, !.refs = 1,
                              !.port = Has("port")]

CreateDevice ==
  /\ device.state = "none"
  /\ CASE ~Has("drm") -> flags' = Wished /\ UNCHANGED device
       [] Has("drm") /\ (~Has("channels") \/ ~(Has("port") \/ Has("magic"))) ->
            flags' = Authenticated /\ UNCHANGED device
       [] OTHER -> flags' = Autoswitch /\ device' = NewDevice
  /\ UNCHANGED <<setup, server>>

\* Mutants of PutDevice: a reference is put twice; the device is closed with its handle.
PutTwice(dv) == [dv EXCEPT !.refs = @ - 2]
PutAndClose(dv) == IF dv.handle THEN [dv EXCEPT !.refs = @ - 1] ELSE NoDevice

\* unref_device: the last reference lets go of the port and closes everything.
PutDevice(dv) == IF dv.refs = 1 THEN NoDevice ELSE [dv EXCEPT !.refs = @ - 1]

DestroyDevice ==
  /\ device.handle
  /\ device' = PutDevice([device EXCEPT !.handle = FALSE])
  /\ UNCHANGED <<setup, flags, server>>

-----------------------------------------------------------------------------
(* Colour space conversion of the Xv port, under xv_lock. The attributes   *)
(* are set one by one: r is "some" if one of them was refused, "update" if *)
(* the last, which makes them take effect, was, and "all" otherwise.       *)

Results == {"all", "some", "update"}

\* Mutant of SetColours: colours that were set in part are taken as set.
SetColoursInPart(w, c, r) ==
  IF r = "all" THEN [w EXCEPT !.device.applied = TRUE, !.device.old = c, !.server.colours = c]
  ELSE [w EXCEPT !.device.old = c, !.server.colours = None]

SetColours(w, c, r) ==
  CASE r = "all" -> [w EXCEPT !.device.applied = TRUE, !.device.old = c,
                              !.server.colours = c]
    [] r = "some" -> [w EXCEPT !.device.applied = FALSE, !.server.colours = None]
    [] r = "update" -> [w EXCEPT !.device.applied = FALSE, !.device.csc = FALSE,
                                 !.server.colours = None]

\* tegra_xv_apply_csc: nothing to do for the colours that were applied last.
ApplyColours(w, c, r) ==
  IF ~w.device.csc \/ (w.device.applied /\ w.device.old = c) THEN w
  ELSE SetColours(w, c, r)

\* tegra_xv_reset_csc
ForgetColours(w) == [w EXCEPT !.device.applied = FALSE]

\* tegra_xv_initialize_csc, called when a mixer is created: ready is what the
\* first conversion returns.
InitColours(r) ==
  LET w == [device |-> device, server |-> server]
      u == SetColours(w, Default, r)
  IN
  /\ device.handle /\ ~device.inited /\ device.port
  /\ IF Has("csc")
     THEN /\ device' = [u.device EXCEPT !.inited = TRUE, !.csc = (r = "all")]
          /\ server' = u.server
     ELSE device' = [device EXCEPT !.inited = TRUE] /\ UNCHANGED server
  /\ UNCHANGED <<setup, flags>>
=============================================================================
