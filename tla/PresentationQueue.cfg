CONSTANTS
  Threads = {t1, t2}
  Queue = Queue
  Overlap = Overlap
  Surfaces = {s1, s2}
  None = None
  MaxTime = 2
  MaxRefs = 5
  ForceDri = FALSE
  Admits = {{"redraw", "reorder", "new_queue", "late_start", "early_destroy"}, {"redisplay", "early_destroy"}}
SPECIFICATION Spec
SYMMETRY Symmetry
INVARIANTS
  TypeOK
  ReferencesAreKept
  ReportsAgree
  NoLostWaiter
PROPERTY NeverEarly
CHECK_DEADLOCK FALSE
