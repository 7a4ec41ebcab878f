--------------------------- MODULE MCControlPlane ---------------------------
EXTENDS ControlPlane, TLC

Symmetry == Permutations(Goroutines) \cup Permutations(TcpClients)
              \cup Permutations(UdpClients) \cup Permutations(MsmtIds)
=============================================================================
