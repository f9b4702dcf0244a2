CONSTANTS
  Threads = {t1, t2}
  Videos = {v1, v2}
  Outputs = {o1}
  Links = {l1}
  Slots = {h1, h2, h3}
  NoSlot = NoSlot
  StatusResources = StatusResources
  None = None
  AllocMayFail = TRUE
  KeepsLinkedVideo = TRUE
SPECIFICATION Spec
SYMMETRY Symmetry
INVARIANT CreatedHandleIsOwn
