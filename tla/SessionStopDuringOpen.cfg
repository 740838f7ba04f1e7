CONSTANTS
  a1 = a1  a2 = a2  e1 = e1  e2 = e2  h1 = h1  r1 = r1  s1 = s1  s2 = s2  t1 = t1  k1 = k1  k2 = k2
  Nobody = Nobody
  ApiLane <- TwoApi
  TimerLane <- OneFire
  BeatLane <- NoBeat
  EventLane <- OneEvent
  Socket <- TwoSockets
  Timer <- OneTimer
  Token <- TwoTokens
  Cause <- CauseOfEachKind
  QrMax = 1
  QrBound = 3
  ReconnectEnabled = TRUE
  MaxAttempts = 1
  Admits <- CallDuringOpen
SPECIFICATION Spec
SYMMETRY Symmetry
INVARIANTS SocketUnderLease
CHECK_DEADLOCK FALSE
