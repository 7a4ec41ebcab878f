CONSTANTS
  TcpClients = {c1, c2}
  UdpClients = {}
  McClients = {}
  Goroutines = {g1, g2, g3}
  MsmtIds = {m1, m2}
  None = None
  MaxInfo = 0
  KillPoints = {"read"}
SPECIFICATION FairSpec
PROPERTIES
  AllComplete
CHECK_DEADLOCK FALSE
