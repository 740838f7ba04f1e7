CONSTANTS
  c1 = c1  c2 = c2
  t1 = t1  t2 = t2  t3 = t3 
  Client <- MCClient
  Token <- MCToken
  NoEntry = NoEntry
  TTL = 2
  MaxNow = 6
SPECIFICATION MemorySpec
INVARIANTS AtMostOneBeliever
PROPERTIES LiveEntrySurvives LeaseContract
