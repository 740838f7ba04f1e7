CONSTANTS
  p1 = p1  hook = hook  l1 = l1  s1 = s1
  None = None
  Plugin <- TwoPlugins
  Webhook = hook
  Listener <- OneListener
  MaxHandlers = 2
  Overlaps <- Plainly
  Stream <- OneStream
  StreamBuffer = 2
  MaxBatch = 2
  MaxDriverBatch = 3
  MaxEvents = 4
SPECIFICATION FairSpec
INVARIANTS NothingLost PluginsAreDisposed SubscribedAsAsked StreamsAreFaithful
PROPERTIES NothingIsStuck
CHECK_DEADLOCK FALSE
