CONSTANTS
  TcpMsmts = {}
  TlsMsmts = {}
  UdpMsmts = {u1, u2}
  QuicMsmts = {q1}
  NumStreams = 1
  MsmtTotalBytes = 1
  Faulty = {}
  Misaddressed = {u1}
  MaxInfo = 0
  None = None
SPECIFICATION FairSpec
INVARIANTS
  ServerSurvives
PROPERTIES
  WorkersEnd
CHECK_DEADLOCK FALSE
