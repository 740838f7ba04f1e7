CONSTANTS
  b1 = b1  b2 = b2  b3 = b3  w1 = w1  w2 = w2
  Batch <- ThreeBatches
  Waiter <- TwoWaiters
  MaxQueue = 2
  MaxAttempts = 2
  Grace = 1
  MaxNow = 2
SPECIFICATION FairSpec
INVARIANTS ClosedIsFinal
PROPERTIES ReceivedInOrder OutboxContract WorkSettles
CHECK_DEADLOCK FALSE
