CONSTANTS
  TcpMsmts = {}
  TlsMsmts = {}
  UdpMsmts = {u1, u2}
  QuicMsmts = {}
  NumStreams = 1
  MsmtTotalBytes = 1
  Faulty = {}
  Misaddressed = {}
  MaxInfo = 1
  None = None
SPECIFICATION Spec
INVARIANTS
  FinishedMeansReceived
CHECK_DEADLOCK FALSE
