CONSTANTS
  c1 = c1  c2 = c2  c3 = c3  k1 = k1  k2 = k2  k3 = k3
  Backend <- AllBackends
  Lane <- TwoLanes
  Signal <- ThreeKeys
  Name <- ThreeNames
  Session <- ShortId
  Neighbour <- LongerId
  LockPrefix <- OwnPrefix
  MaxName = 6
  Char <- Characters
  Chunk = 1
  Overlapping = FALSE
  MaxVersion = 3
SYMMETRY Interchangeable
SPECIFICATION Spec
INVARIANTS AckedCredsSurvive SomeKeySurvives DiscoveredHaveData
PROPERTIES ChangesAreAsked PurgeIsComplete
