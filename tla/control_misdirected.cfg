CONSTANTS
  TcpClients = {}
  UdpClients = {u1, u2}
  McClients = {}
  Goroutines = {g1, g2, g3, g4}
  MsmtIds = {m1, m2}
  None = None
  MaxInfo = 0
  KillPoints = {}
SPECIFICATION Spec
INVARIANTS
  DiscoveryAnswered
CHECK_DEADLOCK FALSE
SYMMETRY Symmetry
