SPECIFICATION Spec
CONSTANTS
  Targets = {a, b}
  Classes = {gr2d}
  Fences = {f1, f2}
  None = None
  Page = 3
  FirstWords = 3
  MinGrow = 2
  RelocGrow = 1
  FirstSlots = 1
  SlotGrow = 1
  RefLimit = 10
  MaxWords = 4
  MaxHeld = 1
  MaxBufs = 2
  Admits = {}
INVARIANTS
  TypeOK
  NoOverrun
  SparedWordsAreKnown
  NothingIsLost
PROPERTY DeliversWhatWasBuilt
CHECK_DEADLOCK FALSE
