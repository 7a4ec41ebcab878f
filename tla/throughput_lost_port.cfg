CONSTANTS
  TcpMsmts = {t1}
  TlsMsmts = {}
  UdpMsmts = {}
  QuicMsmts = {}
  NumStreams = 2
  MsmtTotalBytes = 2
  Faulty = {}
  Misaddressed = {}
  MaxInfo = 0
  None = None
SPECIFICATION Spec
INVARIANTS
  EveryStreamHasPort
CHECK_DEADLOCK FALSE
