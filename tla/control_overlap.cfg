CONSTANTS
  TcpClients = {c1}
  UdpClients = {u1}
  McClients = {}
  Goroutines = {g1, g2, g3, g4}
  MsmtIds = {m1, m2}
  None = None
  MaxInfo = 0
  KillPoints = {}
SPECIFICATION Spec
INVARIANTS
  StoppedByHolder
CHECK_DEADLOCK FALSE
SYMMETRY Symmetry
