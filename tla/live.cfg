CONSTANTS
  a = a
  b = b
  publisher = publisher
  c1 = c1
  c2 = c2
  Jobs = {a, b}
  Routes <- Visited
  Actors = {publisher}
  Conns = {c1, c2}
  MaxVersion = 1
  None = None
  MaxDrops = 1
  MaxFailures = 1
SPECIFICATION FairSpec
CHECK_DEADLOCK FALSE
INVARIANTS
  SocketIffListening
  WantedIsAsked
  ViewIsOwn
  LoadingIsUnderWay
PROPERTIES
  ListenersGetConnected
  OverviewLoads
