--------------------------- MODULE MCQueueTarget ---------------------------
(* Small instances of QueueTarget: what the environment variables and the X *)
(* server make of the choice of the output.                                 *)
EXTENDS QueueTarget

Every == {"magic", "drm", "channels", "port", "csc", "key", "threads"}
NoKey == Every \ {"key"}

\* A choice that leaves the window to be followed, and choices made for good.
MCSetups == {
  [wish |-> {}, has |-> NoKey \ {"csc"}, keys |-> {}],
  [wish |-> {}, has |-> Every, keys |-> Keys],
  [wish |-> {"dri", "auto"}, has |-> Every \ {"threads"}, keys |-> {}],
  [wish |-> {}, has |-> Every \ {"port"}, keys |-> {}],
  [wish |-> {"xv"}, has |-> {"drm", "channels"}, keys |-> {}],
  [wish |-> {"xv"}, has |-> {"drm"}, keys |-> {}],
  [wish |-> {}, has |-> {}, keys |-> {}]}

\* Every call succeeds, or one of them does not.
Well == [connected |-> TRUE, buffer |-> "ok", fits |-> TRUE, colours |-> "all", key |-> TRUE]
MCOutcomes == {
  Well,
  [Well EXCEPT !.connected = FALSE],
  [Well EXCEPT !.fits = FALSE],
  [Well EXCEPT !.fits = FALSE, !.buffer = "none"],
  [Well EXCEPT !.fits = FALSE, !.buffer = "depth"],
  [Well EXCEPT !.colours = "some"],
  [Well EXCEPT !.colours = "update"],
  [Well EXCEPT !.key = FALSE]}
=============================================================================
