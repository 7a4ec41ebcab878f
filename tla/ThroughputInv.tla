---------------------------- MODULE ThroughputInv ----------------------------
(***************************************************************************)
(* The inductive invariants behind the theorems about the measurement      *)
(* plane: what holds between any two steps.  Inv, for Throughput_proof,    *)
(* has parts that concern the types, the ports, the sessions of clients,   *)
(* the connections and the counters.  EndInv and Balance, which            *)
(* ThroughputBytes_proof shows on top of it, are about how a client ends   *)
(* and about where its bytes go.                                           *)
(***************************************************************************)
EXTENDS Throughput

\* With the types: an accepted connection has a client worker at its other
\* end, and nothing is under way or lost that was not sent.
TypeInv ==
  /\ TypeOK
  /\ \A s \in Stream : wpc[s] = "keep" \/ acceptSock[s] => sock[s] # "none"
  /\ \A s \in Stream : sock[s] # "none" => peer[s] \in Stream
  /\ \A c \in Stream : flight[c] + lost[c] <= sent[c]

-----------------------------------------------------------------------------
(* Ports *)

Searching == {"none", "listen", "load", "store"}

\* CloseConn has not been called yet.
Open(m) == opc[m] \in {"make", "wait", "running", "info"}

\* A port has one owner at a time.
Exclusive ==
  \A s, t \in Stream :
    SameNetwork(s[1], t[1]) /\ s # t /\ listening[s] # None =>
      listening[s] # listening[t]

\* A listening socket is bound to the port its worker has found, and stays so
\* until CloseConn.
Bound ==
  \A s \in Stream :
    /\ listening[s] # None => listening[s] = port[s] /\ wpc[s] \notin {"none", "listen"}
    /\ wpc[s] \notin {"none", "listen"} /\ Open(s[1]) => listening[s] # None

\* The constructor does not return before the search is over, and there is no
\* worker before it is called.
Early ==
  \A s \in Stream :
    /\ wpc[s] # "none" => opc[s[1]] # "none"
    /\ wpc[s] \in Beginning => opc[s[1]] \in {"none", "make", "wait"}

\* A list of ports of a measurement: each is the port of a worker that has
\* stored it, none comes twice.
PortList(m, list) ==
  /\ \A i \in DOMAIN list :
       \E s \in Stream : s[1] = m /\ wpc[s] \notin Searching /\ port[s] = list[i]
  /\ \A i, j \in DOMAIN list : list[i] = list[j] => i = j

Lists ==
  /\ \A m \in Msmts : PortList(m, usedPorts[m]) /\ PortList(m, told[m])
  /\ \A s \in Stream : PortList(s[1], slice[s])

\* Every port a worker has tried in vain belongs or belonged to another one,
\* which looks no further.
Tried ==
  \A s \in Stream : port[s] >= FirstPort /\ \A p \in FirstPort..(port[s] - 1) :
    \E t \in Stream : /\ SameNetwork(s[1], t[1]) /\ t # s
                      /\ wpc[t] \notin {"none", "listen"} /\ port[t] = p

PortInv == Exclusive /\ Bound /\ Early /\ Lists /\ Tried

-----------------------------------------------------------------------------
(* Sessions and connections *)

\* Where the object of a measurement can be, by what its client does.
Expected(state) ==
  CASE state = "start" -> {"none", "make", "wait", "running"}
    [] state \in {"run", "closing"} -> {"running", "info"}
    [] state = "stop" -> {"closing", "report", "closed"}
    [] state = "over" -> {"closed"}
    [] state = "dead" -> ObjectPc

InStep == \A m \in Msmts : opc[m] \in Expected(mgr[m])

\* No reply has come before the constructor is through.
NotTold ==
  \A m \in Msmts : opc[m] \in {"none", "make", "wait"} => told[m] = <<>>

\* A client worker that has still to close belongs to a client that has not
\* asked for the stop, except for QUIC.
Senders ==
  \A c \in Stream : csock[c] \in {"dial", "handshake", "open", "left"} =>
    \/ mgr[c[1]] \in {"run", "closing"}
    \/ c[1] \in QuicMsmts /\ mgr[c[1]] = "stop"

\* It dials a port it was told.
Dialled ==
  \A c \in Stream : csock[c] = "dial" => c[2] \in DOMAIN told[c[1]]

\* When a client but a QUIC one has asked for the stop, its ends are closed.
Quiet ==
  \A c \in Stream :
    mgr[c[1]] \in {"stop", "over"} /\ c[1] \notin QuicMsmts =>
      csock[c] \in {"closed", "killed"}

SessionInv == InStep /\ NotTold /\ Senders /\ Dialled /\ Quiet

\* Only an open listening socket has connections waiting.
Waiting ==
  \A s \in Stream : backlog[s] # <<>> =>
    listening[s] # None /\ s[1] \notin UdpMsmts

\* A TCP or TLS worker is only ever connected to a client worker of its own
\* measurement.
OwnPeers ==
  \A s \in Stream : s[1] \notin DatagramMsmts =>
    /\ \A i \in DOMAIN backlog[s] : backlog[s][i][1] = s[1]
    /\ sock[s] # "none" => peer[s][1] = s[1]

\* A datagram worker has no connection without its listening socket.
Sockets ==
  \A s \in Stream :
    /\ s[1] \in UdpMsmts => sock[s] = "none"
    /\ s[1] \in QuicMsmts /\ sock[s] = "open" => listening[s] # None

\* After its loop CloseConn has closed all listening sockets.
ClosedAll ==
  \A s \in Stream : opc[s[1]] \in {"report", "closed"} => listening[s] = None

ConnInv == Waiting /\ OwnPeers /\ Sockets /\ ClosedAll

-----------------------------------------------------------------------------
(* Counters *)

\* What is reported, what is gathered for the next report and what is counted
\* are in this order for each stream.
CountInv ==
  \A m \in Msmts :
    /\ result[m] \in [1..NumStreams -> Nat]
    /\ Len(data[m]) <= NumStreams
    /\ \A i \in 1..NumStreams : result[m][i] <= bytes[<<m, i>>]
    /\ \A i \in DOMAIN data[m] :
         result[m][i] <= data[m][i] /\ data[m][i] <= bytes[<<m, i>>]

Inv == TypeInv /\ PortInv /\ SessionInv /\ ConnInv /\ CountInv

-----------------------------------------------------------------------------
(* How a client ends, and with it perhaps the server *)

\* A QUIC client that has asked for the stop at its deadline, its workers not
\* told to close.
Abrupt == {m \in QuicMsmts \ finished : mgr[m] \in {"stop", "over"}}

\* With the clients that were killed: those that do not close their ends.
CutOff == Abrupt \cup {m \in Msmts : mgr[m] = "dead"}

\* A measurement is finished when its manager has left the loop, and the loop
\* of a QUIC manager is only left for closing when it is finished.
Finished ==
  /\ \A m \in finished : mgr[m] \notin {"start", "run"}
  /\ \A m \in QuicMsmts : mgr[m] = "closing" => m \in finished

\* Before a stop request that is not abrupt all workers of the client close.
Orderly ==
  \A m \in Msmts : mgr[m] \in {"stop", "over"} /\ m \notin Abrupt =>
    \A c \in Streams(m) : csock[c] = "closed"

\* How an end of the client has come to be closed.
Ends ==
  \A c \in Stream :
    /\ csock[c] = "killed" => c[1] \in CutOff
    /\ csock[c] = "closed" /\ c[1] \in QuicMsmts => c[1] \in finished

\* The client worker c may be at the other end of worker s: it has dialled, and
\* one of another measurement belongs to a QUIC client that is cut off.
Linked(s, c) == csock[c] # "none" /\ c[1] \in {s[1]} \cup (QuicMsmts \cap CutOff)

Strangers ==
  \A s \in Stream :
    /\ \A i \in DOMAIN backlog[s] : Linked(s, backlog[s][i])
    /\ sock[s] # "none" => Linked(s, peer[s])

\* Nothing is counted before the first Read.
Before == Beginning \cup {"accept", "keep", "stream"}
Unread == \A s \in Stream : wpc[s] \in Before => bytes[s] = 0

\* A session is stored before its stream is accepted.
Stored == \A s \in Stream : wpc[s] = "stream" => acceptSock[s]

\* A connection is closed by CloseConn only, or by the client.
ClosedByServer ==
  \A s \in Stream : sock[s] = "closed" => opc[s[1]] \in {"closing", "report", "closed"}

\* A finished measurement has been told of enough.
ToldEnough == \A m \in finished : msmtFinished(m)

EndInv ==
  /\ Finished /\ Orderly /\ Ends
  /\ Strangers /\ Unread /\ Stored /\ ClosedByServer
  /\ ToldEnough /\ ServerSurvives

-----------------------------------------------------------------------------
(* Bytes *)

\* What the workers of m have taken from the network, counted or not.
TakenBy(m) == SumFunction([i \in 1..NumStreams |-> bytes[<<m, i>>] + got[<<m, i>>]])

\* No more is taken than has arrived of the own client.
Balance == \A m \in Msmts : Undisturbed(m) => TakenBy(m) <= Received(m)
=============================================================================
