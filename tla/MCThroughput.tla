---------------------------- MODULE MCThroughput ----------------------------
EXTENDS Throughput, TLC

Symmetry ==
  Permutations(TcpMsmts) \cup Permutations(TlsMsmts) \cup Permutations(UdpMsmts)
=============================================================================
