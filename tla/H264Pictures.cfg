CONSTANTS
  Surfaces = {s1, s2, s3, s4}
  None = None
  MaxFrameNum = 4
  MaxReferences = 3
  MaxPoc = 4
  SliceData <- SmallSliceData
  Rest <- Ones
  Admits = {}
SPECIFICATION Spec
SYMMETRY Symmetry
INVARIANTS TypeOK SliceTypeIsRead ReferenceListIsRight
CHECK_DEADLOCK FALSE
