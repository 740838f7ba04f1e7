CONSTANTS
  i1 = i1  i2 = i2  c1 = c1  c2 = c2  c3 = c3  o1 = o1  o2 = o2  o3 = o3
  None = None
  Concurrency = 2
  Id <- TwoIds
  Call <- ThreeCalls
  Object <- ThreeObjects
  Admits <- NoOverlap
SPECIFICATION Spec
SYMMETRY Symmetry
INVARIANTS NoStraySession DestroyedIsDown RegisteredIsStored
PROPERTIES LoadIsComplete
CHECK_DEADLOCK FALSE
