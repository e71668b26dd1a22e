SPECIFICATION Spec
CONSTANTS
  Channels = {c1}
  Ports = {p1, p2}
  Strangers = {s1}
  MaxFds = 2
  AnyPort = AnyPort
  None = None
  QueueSize = 1
  MaxOps <- OneRestart
PROPERTY PeerIsKept
CHECK_DEADLOCK FALSE
