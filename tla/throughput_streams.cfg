CONSTANTS
  TcpMsmts = {t1}
  TlsMsmts = {}
  UdpMsmts = {}
  QuicMsmts = {}
  NumStreams = 2
  MsmtTotalBytes = 3
  Faulty = {t1}
  Misaddressed = {}
  MaxInfo = 2
  None = None
SPECIFICATION Spec
INVARIANTS
  TypeOK
  PortsAreOwn
  OwnBytes
  FinishedMeansReceived
  NothingLeftOpen
PROPERTIES
  ResultsGrow
  ServiceSpec
CHECK_DEADLOCK FALSE
