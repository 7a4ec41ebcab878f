CONSTANTS
  TcpClients = {c1, c2}
  UdpClients = {}
  McClients = {}
  Goroutines = {g1, g2, g3, g4}
  MsmtIds = {m1, m2}
  None = None
  MaxInfo = 1
  KillPoints = {"dial", "write", "listen", "read", "unread", "manage"}
SPECIFICATION Spec
INVARIANTS
  TypeOK
  SingleFlight
  AcceptorKept
  OwnReplies
  Ownership
  Reachable
  RecvChIndexedByMsmtId
  ServerSurvives
  OneMeasurementPerClient
PROPERTY ServiceSpec
CHECK_DEADLOCK FALSE
SYMMETRY Symmetry
