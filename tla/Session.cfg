CONSTANTS
  a1 = a1  a2 = a2  e1 = e1  e2 = e2  h1 = h1  r1 = r1  s1 = s1  s2 = s2  t1 = t1  k1 = k1  k2 = k2
  Nobody = Nobody
  ApiLane <- OneApi
  TimerLane <- OneFire
  BeatLane <- OneBeat
  EventLane <- OneEvent
  Socket <- TwoSockets
  Timer <- OneTimer
  Token <- TwoTokens
  Cause <- CauseOfEachKind
  QrMax = 1
  QrBound = 2
  ReconnectEnabled = TRUE
  MaxAttempts = 1
  Admits <- PhoneRefuses
SPECIFICATION FairSpec
INVARIANTS TypeOK NoOrphanSocket SocketUnderLease ReleasedAfterSocket HeldIsGuarded
           DownMeansDown NotStranded PurgeIsFinal
CHECK_DEADLOCK FALSE
PROPERTIES NothingHangs
