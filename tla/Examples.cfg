SPECIFICATION ExSpec
CONSTANTS
  host = host
  board = board
  spare = spare
  port = port
  other = other
  robot = robot
  noise = noise
  Channels = {host, board, spare}
  Ports = {port, other}
  Strangers = {robot, noise}
  Peer <- MCPeer
  ListensOn <- MCListensOn
  StrangerSends <- MCStrangers
  MaxFds = 3
  AnyPort = AnyPort
  None = None
  QueueSize = 1
  MaxOps <- FourRuns
INVARIANT OneReceiverPerPort
CHECK_DEADLOCK FALSE
