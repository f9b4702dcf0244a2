SPECIFICATION FairSpec
CONSTANTS
  Pictures = {video, rgb}
  Overlays = {video}
  Keys = {k0, k1}
  FirstKey = k0
  Default = Default
  None = None
  Queue = Queue
  Redraw = Redraw
  Outcomes <- MCOutcomes
  Setups <- MCSetups
  Admits = {{"port_forgets"}}
INVARIANTS
  TypeOK
  OwnersKeepAlive
  PictureReachesWindow
  PortFitsPicture
PROPERTIES
  WindowIsFollowed
  DestroyReturns
