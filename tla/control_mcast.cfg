CONSTANTS
  TcpClients = {c1}
  UdpClients = {}
  McClients = {d1}
  Goroutines = {g1, g2, g3, g4}
  MsmtIds = {m1, m2}
  None = None
  MaxInfo = 0
  KillPoints = {}
SPECIFICATION Spec
INVARIANTS
  Reachable
CHECK_DEADLOCK FALSE
SYMMETRY Symmetry
