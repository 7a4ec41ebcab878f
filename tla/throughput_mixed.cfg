CONSTANTS
  TcpMsmts = {t1}
  TlsMsmts = {s1}
  UdpMsmts = {}
  QuicMsmts = {}
  NumStreams = 1
  MsmtTotalBytes = 1
  Faulty = {s1}
  Misaddressed = {}
  MaxInfo = 0
  None = None
SPECIFICATION FairSpec
INVARIANTS
  PortsAreOwn
  PortsSuffice
  OwnBytes
  NothingLeftOpen
  ServerSurvives
PROPERTIES
  StartAnswered
  WorkersEnd
  MeasurementEnds
CHECK_DEADLOCK FALSE
