----------------------------- MODULE ControlNet -----------------------------
(***************************************************************************)
(* The control channel between mapago clients and the server: the kernel's *)
(* accept queue, the TCP connections, the two datagram sockets of the      *)
(* server, and the sockets of the clients.  The kernel is not part of the  *)
(* repository, it is modelled from the way control-plane/ctrl uses it.     *)
(*                                                                         *)
(* A TCP connection is named by the server goroutine that accepted it:     *)
(* HandleTcpConn accepts exactly once, so the name is unique as long as    *)
(* somebody holds the connection.                                          *)
(***************************************************************************)
EXTENDS Naturals, Sequences

CONSTANTS
  TcpClients,   \* clients started with -control-protocol tcp
  UdpClients,   \* clients started with -control-protocol udp
  McClients,    \* clients started with -control-protocol udp_mcast
  Goroutines,   \* names for the goroutines of the server (a bound)
  MsmtIds,      \* measurement ids constructMsmtId can draw (a bound)
  None          \* nil, and the empty string of an omitted JSON field

Clients == TcpClients \cup UdpClients \cup McClients

ASSUME ControlAssumption ==
  /\ TcpClients \cap UdpClients = {}
  /\ TcpClients \cap McClients = {}
  /\ UdpClients \cap McClients = {}
  /\ None \notin Clients \cup Goroutines \cup MsmtIds
  /\ {"udp", "mc"} \cap Goroutines = {}
  /\ None \notin {"udp", "mc"}

\* The datagram sockets of the server: unicast and multicast.
Dgram == {"udp", "mc"}

\* The message types of ctrl-msg.go that are exchanged; "zero" is the type
\* field after ConvDataStructToJson has cleared it.
Kinds == {"INFO", "START", "STOP", "MSMT_INFO"}

Request == [kind : Kinds, from : Clients, mid : MsmtIds \cup {None}]
Message == [type : Kinds \cup {"zero"}, seq : Clients, mid : MsmtIds \cup {None}]

\* Seq is drawn at random per client and grows by one per request, so in the
\* only place that reads it, validateDiscovery, it stands for the client.
InfoRequest(c) == [kind |-> "INFO", from |-> c, mid |-> None]

VARIABLES
  up,        \* the server process has not left through os.Exit or a panic
  backlog,   \* clients whose handshake is complete and not yet accepted
  sock,      \* the socket each client has open: "none", "tcp", "udp", "mc"
  link,      \* the accepted connection of a client's TCP socket
  out,       \* the request a client has written and the server not yet read
  inbox,     \* the answers delivered to a client's socket
  conn,      \* the server's end of each accepted connection
  dgrams     \* the datagrams in the receive buffers of the server

netVars == <<backlog, sock, link, out, inbox, conn, dgrams>>

NetTypeOK ==
  /\ up \in BOOLEAN
  /\ backlog \in Seq(Clients)
  /\ sock \in [Clients -> {"none", "tcp", "udp", "mc"}]
  /\ link \in [Clients -> Goroutines \cup {None}]
  /\ out \in [Clients -> Request \cup {None}]
  /\ inbox \in [Clients -> Seq(Message)]
  /\ conn \in [Goroutines -> {"none", "open", "closed"}]
  /\ dgrams \in [Dgram -> SUBSET Clients]

NetInit ==
  /\ up = TRUE
  /\ backlog = <<>>
  /\ sock = [c \in Clients |-> "none"]
  /\ link = [c \in Clients |-> None]
  /\ out = [c \in Clients |-> None]
  /\ inbox = [c \in Clients |-> <<>>]
  /\ conn = [g \in Goroutines |-> "none"]
  /\ dgrams = [u \in Dgram |-> {}]
=============================================================================
