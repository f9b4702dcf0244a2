CONSTANTS
  Threads = {t1, t2}
  Queue = Queue
  Overlap = Overlap
  Surfaces = {s1, s2}
  None = None
  MaxTime = 2
  MaxRefs = 5
  ForceDri = TRUE
  Admits = {{}}
SPECIFICATION FairSpec
INVARIANT ShownPictureIsOwn
PROPERTIES
  QueuedIsShown
  EveryCallReturns
