CONSTANTS
  c1 = c1  c2 = c2  t1 = t1  t2 = t2  t3 = t3  l1 = l1  l2 = l2
  Backend <- AllBackends
  Client <- MCClient
  Lane <- MCLane
  Token <- MCToken
  NoRow = NoRow
  TTL = 1
  MaxSkew = 1
  MaxNow = 3
SYMMETRY Interchangeable
SPECIFICATION Spec
INVARIANTS AtMostOneHolder
PROPERTIES LiveRowSurvives
CHECK_DEADLOCK FALSE
