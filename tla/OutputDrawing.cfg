\* Drawing between two output surfaces and a bitmap, by two threads.
CONSTANTS
  Threads = {t1, t2}
  Outputs = {a, b}
  Bitmaps = {m}
  None = None
  Unpainted = "unpainted"
  Align = 2
  Width = 2
  Height = 2
  Rects <- MCRects
  Rotations = {0, 1}
  MaxCalls = 2
  Admits = {}
SPECIFICATION FairSpec
CHECK_DEADLOCK FALSE
INVARIANTS
  TypeOK
  DrawnAsAsked
  NothingLeftHeld
PROPERTY
  CallsReturn
