CONSTANTS
  Surfaces = {s1, s2, s3}
  None = None
  MaxFrameNum = 3
  MaxReferences = 2
  MaxPoc = 3
  SliceData <- SmallSliceData
  Rest <- Ones
  Admits = {}
SPECIFICATION Spec
SYMMETRY Symmetry
INVARIANT PicNumsMatch
CHECK_DEADLOCK FALSE
