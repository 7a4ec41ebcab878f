CONSTANTS
  TcpMsmts = {}
  TlsMsmts = {}
  UdpMsmts = {u1}
  QuicMsmts = {q1}
  NumStreams = 1
  MsmtTotalBytes = 1
  Faulty = {q1}
  Misaddressed = {}
  MaxInfo = 1
  None = None
SPECIFICATION Spec
INVARIANTS
  OwnBytes
  ServerSurvives
PROPERTIES
  ServiceSpec
CHECK_DEADLOCK FALSE
