CONSTANTS
  Handles = {h1, h2}
  Surfaces = {s1, s2, s3}
  None = None
  NumBuffers = 2
  Granted = 2
  MaxReferences = 1
  MaxTime = 5
  AllocMayFail = FALSE
  KernelFails = {"control", "output", "capture", "decode"}
  Admits = {}
SPECIFICATION Spec
SYMMETRY Symmetry
INVARIANTS TypeOK ReferencesReach NeverRefused SurfacesReturn
CHECK_DEADLOCK FALSE
