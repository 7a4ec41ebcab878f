--------------------------- MODULE ThroughputNet ---------------------------
(***************************************************************************)
(* The network between the throughput workers of client and server: the    *)
(* listening sockets, the connections not yet accepted, what has been      *)
(* written and not yet read, and what the client has been told over the    *)
(* control channel.  The kernel is modelled from the way measurement-plane *)
(* uses it; the control channel, which ControlPlane models, is reduced to  *)
(* its order: a client asks one thing at a time and waits for the answer.  *)
(*                                                                         *)
(* Stream <<m, i>> is worker i of measurement m, on either side.           *)
(***************************************************************************)
EXTENDS Integers, Sequences

CONSTANTS
  TcpMsmts,        \* measurements with -module tcp-throughput
  TlsMsmts,        \* measurements with -module tcp-tls-throughput
  UdpMsmts,        \* measurements with -module udp-throughput
  QuicMsmts,       \* measurements with -module quic-throughput
  NumStreams,      \* -streams
  MsmtTotalBytes,  \* -bytes, in units of the least a Read returns (a bound)
  Faulty,          \* measurements whose client may be killed or lose the network
  Misaddressed,    \* measurements whose -addr is no address of the server
  None

Msmts == TcpMsmts \cup TlsMsmts \cup UdpMsmts \cup QuicMsmts
Stream == Msmts \X (1..NumStreams)

ASSUME ThroughputAssumption ==
  /\ TcpMsmts \cap TlsMsmts = {}
  /\ TcpMsmts \cap UdpMsmts = {}
  /\ TlsMsmts \cap UdpMsmts = {}
  /\ QuicMsmts \cap (TcpMsmts \cup TlsMsmts \cup UdpMsmts) = {}
  /\ NumStreams \in Nat \ {0}
  /\ MsmtTotalBytes \in Nat
  /\ Faulty \subseteq Msmts /\ Misaddressed \subseteq Msmts
  /\ None \notin Nat \cup Stream

\* What each client worker sends: its share of the total, rounded up.
StreamBytes == (MsmtTotalBytes + NumStreams - 1) \div NumStreams

\* The port every worker tries first.
FirstPort == 7000

Streams(m) == {m} \X (1..NumStreams)

\* TCP and TLS workers compete for the same ports, UDP and QUIC workers for
\* others.
DatagramMsmts == UdpMsmts \cup QuicMsmts
SameNetwork(m, n) == m \in DatagramMsmts <=> n \in DatagramMsmts

VARIABLES
  up,         \* the server process has not left through os.Exit or a panic
  listening,  \* the port a server worker's socket is bound to
  backlog,    \* the client workers connected to it and not yet accepted
  csock,      \* what has become of a client worker and its socket
  flight,     \* written by a client worker and not yet read by anybody
  lost,       \* and never to be read
  told,       \* the ports of the start reply, <<>> before it
  result      \* the bytes per stream of the last information or stop reply

netVars == <<up, listening, backlog, csock, flight, lost, told, result>>

NetTypeOK ==
  /\ up \in BOOLEAN
  /\ listening \in [Stream -> Nat \cup {None}]
  /\ backlog \in [Stream -> Seq(Stream)]
  /\ csock \in [Stream -> {"none", "dial", "handshake", "open", "closed",
                           "left", "killed"}]
  /\ flight \in [Stream -> 0..StreamBytes]
  /\ lost \in [Stream -> 0..StreamBytes]
  /\ told \in [Msmts -> Seq(Nat)]
  /\ result \in [Msmts -> Seq(Nat)]

NetInit ==
  /\ up = TRUE
  /\ listening = [s \in Stream |-> None]
  /\ backlog = [s \in Stream |-> <<>>]
  /\ csock = [s \in Stream |-> "none"]
  /\ flight = [s \in Stream |-> 0]
  /\ lost = [s \in Stream |-> 0]
  /\ told = [m \in Msmts |-> <<>>]
  /\ result = [m \in Msmts |-> [i \in 1..NumStreams |-> 0]]

\* The address client worker c dials or sends to.
Target(c) == told[c[1]][c[2]]

\* A datagram may be lost at any time, also with the buffer of a socket that
\* is closed.  QUIC sends again what is lost.
Lose(c) ==
  /\ c[1] \in UdpMsmts /\ flight[c] > 0
  /\ flight' = [flight EXCEPT ![c] = @ - 1]
  /\ lost' = [lost EXCEPT ![c] = @ + 1]
  /\ UNCHANGED <<up, listening, backlog, csock, told, result>>
=============================================================================
