\* Two threads, one output surface, and enough video surfaces for one shown,
\* one detached and one recycled.
CONSTANTS
  Threads = {t1, t2}
  Videos = {v1, v2, v3}
  Outputs = {o1}
  Links = {l1, l2}
  Slots = {h1, h2, h3}
  NoSlot = NoSlot
  StatusResources = StatusResources
  None = None
  AllocMayFail = TRUE
  KeepsLinkedVideo = FALSE
SPECIFICATION Spec
SYMMETRY Symmetry
INVARIANTS
  TypeOK
  CountsExact
  LinksAgree
  ReachableIsAlive
  NoLeak
