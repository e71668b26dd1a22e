SPECIFICATION FairSpec
CONSTANTS
  Channels = {c1, c2}
  Ports = {p1, p2, p3}
  Strangers = {s1}
  MaxFds = 2
  AnyPort = AnyPort
  None = None
  QueueSize = 1
  MaxOps <- OneRestart
INVARIANTS
  TypeOK
  SocketsAreOwned
PROPERTY PairRepairs
CHECK_DEADLOCK FALSE
