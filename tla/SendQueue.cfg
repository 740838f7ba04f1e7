CONSTANTS
  j1 = j1  j2 = j2  j3 = j3  d1 = d1
  Job <- ThreeJobs
  Drainer <- OneDrainer
  Concurrency = 2
  MaxQueue = 1
  MinDelay = 2
  HasDeadline = TRUE
  MaxLate = 1
  MaxNow = 1
  MaxEpoch = 2
SPECIFICATION FairSpec
INVARIANTS SlotsAreUsed StoppedIsQuiet
PROPERTIES SendsInOrder GapBetweenSends EveryoneIsAnswered
CHECK_DEADLOCK FALSE
