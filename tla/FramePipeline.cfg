CONSTANTS
  Threads = {t1, t2}
  Videos = {v1, v2}
  Outputs = {o1, o2}
  Links = {l1, l2}
  Slots = {h1, h2, h3}
  NoSlot = NoSlot
  StatusResources = StatusResources
  None = None
  AllocMayFail = FALSE
  KeepsLinkedVideo = TRUE
  Frames = {f1}
  Torn = Torn
  Blank = Blank
  Gone = Gone
SPECIFICATION PipelineSpec
SYMMETRY Symmetry
PROPERTY ImplementsFrameStore
CONSTRAINT Meeting
