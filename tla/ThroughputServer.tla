-------------------------- MODULE ThroughputServer --------------------------
(***************************************************************************)
(* The server side of the throughput modules for TCP, TLS over TCP, UDP    *)
(* and QUIC (measurement-plane/*/server.go).  A measurement is an object   *)
(* with one worker goroutine per stream.  The constructor starts the       *)
(* workers, waits for a heartbeat of each and replies with the ports they  *)
(* have found; GetMsmtInfo and CloseConn run in a handler of the control   *)
(* plane, beside the workers.  Nothing the two sides share has a lock: the *)
(* slice usedPorts that all workers append to, the pointer AcceptSock, and *)
(* the counters, each written by one worker.                               *)
(***************************************************************************)
EXTENDS ThroughputNet

VARIABLES
  opc,         \* where the object of a measurement is
  wpc,         \* where a worker is
  port,        \* the port a worker tries or has
  slice,       \* the usedPorts a worker has read in order to append
  usedPorts,
  peer,        \* the client worker at the other end of an accepted connection
  sock,        \* the server's end of that connection
  acceptSock,  \* connPtr.AcceptSock is set
  got,         \* what the last Read returned
  bytes,       \* msmtInfoPtr.Bytes
  data         \* the counters gathered so far for a reply

ports == <<port, slice, usedPorts>>
conns == <<peer, sock, acceptSock>>
counters == <<got, bytes>>
serverVars == <<opc, wpc, ports, conns, counters, data>>

ObjectPc == {"none", "make", "wait", "running", "info", "closing", "report",
             "closed"}
WorkerPc == {"none", "listen", "load", "store", "beat", "accept", "keep",
             "stream", "read", "count", "spin", "done"}

ServerTypeOK ==
  /\ opc \in [Msmts -> ObjectPc]
  /\ wpc \in [Stream -> WorkerPc]
  /\ port \in [Stream -> Nat]
  /\ slice \in [Stream -> Seq(Nat)]
  /\ usedPorts \in [Msmts -> Seq(Nat)]
  /\ peer \in [Stream -> Stream \cup {None}]
  /\ sock \in [Stream -> {"none", "open", "closed"}]
  /\ acceptSock \in [Stream -> BOOLEAN]
  /\ got \in [Stream -> 0..StreamBytes]
  /\ bytes \in [Stream -> Nat]
  /\ data \in [Msmts -> Seq(Nat)]

ServerInit ==
  /\ opc = [m \in Msmts |-> "none"]
  /\ wpc = [s \in Stream |-> "none"]
  /\ port = [s \in Stream |-> FirstPort]
  /\ slice = [s \in Stream |-> <<>>]
  /\ usedPorts = [m \in Msmts |-> <<>>]
  /\ peer = [s \in Stream |-> None]
  /\ sock = [s \in Stream |-> "none"]
  /\ acceptSock = [s \in Stream |-> FALSE]
  /\ got = [s \in Stream |-> 0]
  /\ bytes = [s \in Stream |-> 0]
  /\ data = [m \in Msmts |-> <<>>]

Goto(s, label) == wpc' = [wpc EXCEPT ![s] = label]
Become(m, label) == opc' = [opc EXCEPT ![m] = label]

\* os.Exit(1), a panic or a runtime fault.
Exit ==
  /\ up' = FALSE
  /\ UNCHANGED <<serverVars, listening, backlog, csock, flight, lost, told, result>>

-----------------------------------------------------------------------------
(* The constructor *)

\* A handler of the control plane calls it for a start request.
New(m) ==
  /\ opc[m] = "none"
  /\ Become(m, "make")
  /\ UNCHANGED <<wpc, ports, conns, counters, data, netVars>>

\* One turn of the loop that starts the workers, in the order of the streams.
StartWorker(m) ==
  \E i \in 1..NumStreams :
    /\ opc[m] = "make" /\ wpc[<<m, i>>] = "none"
    /\ \A j \in 1..(i - 1) : wpc[<<m, j>>] # "none"
    /\ Goto(<<m, i>>, "listen")
    /\ Become(m, IF i = NumStreams THEN "wait" ELSE "make")
    /\ UNCHANGED <<ports, conns, counters, data, netVars>>

Beginning == {"none", "listen", "load", "store", "beat"}

\* The heartbeat channel is unbuffered: the worker goes on when the
\* constructor receives.
Heartbeat(s) ==
  /\ opc[s[1]] = "wait" /\ wpc[s] = "beat"
  /\ Goto(s, IF s[1] \in UdpMsmts THEN "read" ELSE "accept")
  /\ UNCHANGED <<opc, ports, conns, counters, data, netVars>>

\* All heartbeats are in: the ports go to the client.
ReplyPorts(m) ==
  /\ opc[m] = "wait" /\ \A s \in Streams(m) : wpc[s] \notin Beginning
  /\ told' = [told EXCEPT ![m] = usedPorts[m]]
  /\ Become(m, "running")
  /\ UNCHANGED <<wpc, ports, conns, counters, data, up, listening, backlog,
                 csock, flight, lost, result>>

-----------------------------------------------------------------------------
(* The search for a port, the same in all modules *)

Taken(s) ==
  \E t \in Stream : listening[t] = port[s] /\ SameNetwork(s[1], t[1])

\* Mutant: the port is counted up before it is tried.
Listen_CountsFirst(s) ==
  /\ wpc[s] = "listen" /\ s[1] \notin Misaddressed
  /\ port' = [port EXCEPT ![s] = @ + 1]
  /\ IF \E t \in Stream : listening[t] = port'[s] /\ SameNetwork(s[1], t[1])
     THEN UNCHANGED <<wpc, listening>>
     ELSE listening' = [listening EXCEPT ![s] = port'[s]] /\ Goto(s, "load")
  /\ UNCHANGED <<opc, slice, usedPorts, conns, counters, data, up, backlog,
                 csock, flight, lost, told, result>>

\* Mutant: a worker whose first port is taken gives up.
Listen_GivesUp(s) ==
  /\ wpc[s] = "listen" /\ s[1] \notin Misaddressed
  /\ IF Taken(s)
     THEN Goto(s, "done") /\ UNCHANGED listening
     ELSE listening' = [listening EXCEPT ![s] = port[s]] /\ Goto(s, "load")
  /\ UNCHANGED <<opc, ports, conns, counters, data, up, backlog, csock, flight,
                 lost, told, result>>

\* One turn of the loop that looks for a free port.
Listen(s) ==
  /\ wpc[s] = "listen" /\ s[1] \notin Misaddressed
  /\ \/ /\ ~Taken(s)
        /\ listening' = [listening EXCEPT ![s] = port[s]]
        /\ Goto(s, "load")
        /\ UNCHANGED port
     \/ /\ Taken(s)
        /\ port' = [port EXCEPT ![s] = @ + 1]
        /\ UNCHANGED <<listening, wpc>>
  /\ UNCHANGED <<opc, slice, usedPorts, conns, counters, data, up, backlog,
                 csock, flight, lost, told, result>>

\* No port of a foreign address can be bound.  A TCP or UDP worker ends the
\* server when it has counted up to a port there is not; a TLS or QUIC worker
\* counts on for good.  The count itself is left out.
ListenFails(s) ==
  /\ wpc[s] = "listen" /\ s[1] \in Misaddressed
  /\ s[1] \in TcpMsmts \cup UdpMsmts
  /\ Exit

\* usedPorts = append(usedPorts, port): the slice is read ...
LoadPorts(s) ==
  /\ wpc[s] = "load"
  /\ slice' = [slice EXCEPT ![s] = usedPorts[s[1]]]
  /\ Goto(s, "store")
  /\ UNCHANGED <<opc, port, usedPorts, conns, counters, data, netVars>>

\* Mutant: the port the search began with is appended.
StorePorts_FirstPort(s) ==
  /\ wpc[s] = "store"
  /\ usedPorts' = [usedPorts EXCEPT ![s[1]] = Append(slice[s], FirstPort)]
  /\ slice' = [slice EXCEPT ![s] = <<>>]
  /\ Goto(s, "beat")
  /\ UNCHANGED <<opc, port, conns, counters, data, netVars>>

\* ... and written back, with SrvSock set for CloseConn.
StorePorts(s) ==
  /\ wpc[s] = "store"
  /\ usedPorts' = [usedPorts EXCEPT ![s[1]] = Append(slice[s], port[s])]
  /\ slice' = [slice EXCEPT ![s] = <<>>]
  /\ Goto(s, "beat")
  /\ UNCHANGED <<opc, port, conns, counters, data, netVars>>

\* A slice is three words: one read while another worker writes it may have
\* the new length and the old pointer, and the append faults.
TornAppend(s) ==
  /\ wpc[s] = "load"
  /\ \E t \in Streams(s[1]) : wpc[t] = "store"
  /\ Exit

FindPort(s) ==
  Listen(s) \/ ListenFails(s) \/ LoadPorts(s) \/ StorePorts(s) \/ TornAppend(s)

-----------------------------------------------------------------------------
(* The workers *)

\* The first and only accept on the worker's listening socket.
Accept(s) ==
  /\ wpc[s] = "accept" /\ backlog[s] # <<>>
  /\ peer' = [peer EXCEPT ![s] = Head(backlog[s])]
  /\ sock' = [sock EXCEPT ![s] = "open"]
  /\ backlog' = [backlog EXCEPT ![s] = Tail(@)]
  /\ Goto(s, "keep")
  /\ UNCHANGED <<opc, ports, acceptSock, counters, data, up, listening, csock,
                 flight, lost, told, result>>

\* CloseConn has closed the listening socket.
AcceptClosed(s) ==
  /\ wpc[s] = "accept" /\ listening[s] = None
  /\ Goto(s, "done")
  /\ UNCHANGED <<opc, ports, conns, counters, data, netVars>>

\* connPtr.AcceptSock = conn: from now on CloseConn can close the connection.
StoreSock(s) ==
  /\ wpc[s] = "keep"
  /\ acceptSock' = [acceptSock EXCEPT ![s] = TRUE]
  /\ Goto(s, IF s[1] \in QuicMsmts THEN "stream" ELSE "read")
  /\ UNCHANGED <<opc, ports, peer, sock, counters, data, netVars>>

\* A Read returns what is there, or a part of it.
Read(s) ==
  /\ wpc[s] = "read" /\ sock[s] = "open"
  /\ \E n \in 1..flight[peer[s]] :
       /\ flight' = [flight EXCEPT ![peer[s]] = @ - n]
       /\ got' = [got EXCEPT ![s] = n]
  /\ Goto(s, "count")
  /\ UNCHANGED <<opc, ports, conns, bytes, data, up, listening, backlog,
                 csock, lost, told, result>>

\* A datagram is read by the worker whose port it was sent to, whoever that
\* is by now and whichever module has sent it.
ReadFromUDP(s) ==
  /\ wpc[s] = "read"
  /\ \E c \in Stream :
       /\ c[1] \in DatagramMsmts /\ flight[c] > 0
       /\ Target(c) = listening[s]
       /\ flight' = [flight EXCEPT ![c] = @ - 1]
  /\ got' = [got EXCEPT ![s] = 1]
  /\ Goto(s, "count")
  /\ UNCHANGED <<opc, ports, conns, bytes, data, up, listening, backlog,
                 csock, lost, told, result>>

\* Mutant: the size of the buffer is added, which no Read here fills.
Count_Buffer(s) ==
  /\ wpc[s] = "count"
  /\ bytes' = [bytes EXCEPT ![s] = @ + StreamBytes + 1]
  /\ got' = [got EXCEPT ![s] = 0]
  /\ Goto(s, "read")
  /\ UNCHANGED <<opc, ports, conns, data, netVars>>

\* Bytes += n, after the Read and with no lock.
Count(s) ==
  /\ wpc[s] = "count"
  /\ bytes' = [bytes EXCEPT ![s] = @ + got[s]]
  /\ got' = [got EXCEPT ![s] = 0]
  /\ Goto(s, "read")
  /\ UNCHANGED <<opc, ports, conns, data, netVars>>

Gone(c) == csock[c] \in {"closed", "killed"}

\* Mutant: the end of the connection is an error to go on after, as the QUIC
\* worker does with "NO_ERROR".
ReadEOF_Continues(s) ==
  /\ wpc[s] = "read" /\ sock[s] = "open"
  /\ Gone(peer[s]) /\ flight[peer[s]] = 0
  /\ UNCHANGED <<serverVars, netVars>>

\* Mutant: the end of the connection is something serious.
ReadEOF_Exits(s) ==
  /\ wpc[s] = "read" /\ sock[s] = "open"
  /\ Gone(peer[s]) /\ flight[peer[s]] = 0
  /\ Exit

\* All that was sent is read, and the client has closed.
ReadEOF(s) ==
  /\ wpc[s] = "read" /\ sock[s] = "open"
  /\ Gone(peer[s]) /\ flight[peer[s]] = 0
  /\ Goto(s, "done")
  /\ UNCHANGED <<opc, ports, conns, counters, data, netVars>>

\* CloseConn has closed the connection under the worker.
ReadClosed(s) ==
  /\ wpc[s] = "read" /\ sock[s] = "closed"
  /\ Goto(s, "done")
  /\ UNCHANGED <<opc, ports, conns, counters, data, netVars>>

\* A TLS client that dies within a record leaves an error that is neither EOF
\* nor a *net.OpError: the type assertion panics.
ReadTruncated(s) ==
  /\ wpc[s] = "read" /\ sock[s] = "open"
  /\ csock[peer[s]] = "killed" /\ flight[peer[s]] = 0
  /\ Exit

\* A reset, or a time-out when the client has lost the network.
ReadFails(s) ==
  /\ wpc[s] = "read" /\ sock[s] = "open" /\ peer[s][1] \in Faulty
  /\ Exit

\* Mutant: the error is ignored and the loop goes on.
ReadClosedUDP_Ignored(s) ==
  /\ wpc[s] = "read" /\ listening[s] = None
  /\ UNCHANGED <<serverVars, netVars>>

\* Mutant: the error is taken for a serious one.
ReadClosedUDP_Exits(s) ==
  /\ wpc[s] = "read" /\ listening[s] = None
  /\ Exit

\* CloseConn has closed the datagram socket.
ReadClosedUDP(s) ==
  /\ wpc[s] = "read" /\ listening[s] = None
  /\ Goto(s, "done")
  /\ UNCHANGED <<opc, ports, conns, counters, data, netVars>>

\* The client has opened its stream, which it does with its first bytes.
AcceptStream(s) ==
  /\ wpc[s] = "stream" /\ sock[s] = "open" /\ flight[peer[s]] > 0
  /\ Goto(s, "read")
  /\ UNCHANGED <<opc, ports, conns, counters, data, netVars>>

\* "Handshake did not complete in time".  A client that is killed or loses the
\* network may have got that far or not.
AcceptStreamTimeout(s) ==
  /\ wpc[s] = "stream" /\ flight[peer[s]] = 0
  /\ csock[peer[s]] = "killed" \/ peer[s][1] \in Faulty
  /\ Goto(s, "done")
  /\ UNCHANGED <<opc, ports, conns, counters, data, netVars>>

\* A session that ends otherwise before its stream is accepted, closed by one of
\* the two or timed out, ends the server.
AcceptStreamFails(s) ==
  /\ wpc[s] = "stream"
  /\ sock[s] = "closed" \/ Gone(peer[s]) \/ peer[s][1] \in Faulty
  /\ Exit

\* Mutant: "NO_ERROR" is an unknown read error.
ReadNoError_Exits(s) ==
  /\ wpc[s] = "read" /\ (sock[s] = "closed" \/ csock[peer[s]] = "closed")
  /\ Exit

\* On a session that one side has closed Read returns "NO_ERROR".  The worker
\* goes on, and as the session stays closed, it reads on for good.
ReadNoError(s) ==
  /\ wpc[s] = "read" /\ (sock[s] = "closed" \/ csock[peer[s]] = "closed")
  /\ Goto(s, "spin")
  /\ UNCHANGED <<opc, ports, conns, counters, data, netVars>>

\* "No recent network activity": the client is dead or has nothing to send, or
\* the network is down for longer than quic-go waits.
ReadIdle(s) ==
  /\ wpc[s] = "read" /\ sock[s] = "open"
  /\ csock[peer[s]] = "killed" \/ flight[peer[s]] = 0 \/ peer[s][1] \in Faulty
  /\ Goto(s, "done")
  /\ UNCHANGED <<opc, ports, conns, counters, data, netVars>>

tcpServerWorker(s) ==
  /\ s[1] \in TcpMsmts
  /\ FindPort(s) \/ Accept(s) \/ AcceptClosed(s) \/ StoreSock(s)
     \/ Read(s) \/ Count(s) \/ ReadEOF(s) \/ ReadClosed(s) \/ ReadFails(s)

tcpTlsServerWorker(s) ==
  /\ s[1] \in TlsMsmts
  /\ FindPort(s) \/ Accept(s) \/ AcceptClosed(s) \/ StoreSock(s)
     \/ Read(s) \/ Count(s) \/ ReadEOF(s) \/ ReadClosed(s) \/ ReadFails(s)
     \/ ReadTruncated(s)

udpServerWorker(s) ==
  /\ s[1] \in UdpMsmts
  /\ FindPort(s) \/ ReadFromUDP(s) \/ Count(s) \/ ReadClosedUDP(s)

quicServerWorker(s) ==
  /\ s[1] \in QuicMsmts
  /\ FindPort(s) \/ Accept(s) \/ AcceptClosed(s) \/ StoreSock(s)
     \/ AcceptStream(s) \/ AcceptStreamTimeout(s) \/ AcceptStreamFails(s)
     \/ Read(s) \/ Count(s) \/ ReadEOF(s) \/ ReadNoError(s) \/ ReadIdle(s)

Worker(s) ==
  /\ up
  /\ tcpServerWorker(s) \/ tcpTlsServerWorker(s) \/ udpServerWorker(s)
     \/ quicServerWorker(s)

-----------------------------------------------------------------------------
(* CloseConn and GetMsmtInfo, in a handler of the control plane *)

\* A connection accepted but not yet stored in AcceptSock stays open.
CloseStreamTCP(s) ==
  /\ opc[s[1]] = "closing" /\ s[1] \notin DatagramMsmts /\ listening[s] # None
  /\ listening' = [listening EXCEPT ![s] = None]
  /\ backlog' = [backlog EXCEPT ![s] = <<>>]
  /\ sock' = [sock EXCEPT ![s] = IF acceptSock[s] THEN "closed" ELSE @]
  /\ UNCHANGED <<opc, wpc, ports, peer, acceptSock, counters, data, up, csock,
                 flight, lost, told, result>>

CloseStreamUDP(s) ==
  /\ opc[s[1]] = "closing" /\ s[1] \in UdpMsmts /\ listening[s] # None
  /\ listening' = [listening EXCEPT ![s] = None]
  /\ UNCHANGED <<opc, wpc, ports, conns, counters, data, up, backlog, csock,
                 flight, lost, told, result>>

\* The listener holds the datagram socket that its session uses too.
CloseStreamQuic(s) ==
  /\ opc[s[1]] = "closing" /\ s[1] \in QuicMsmts /\ listening[s] # None
  /\ listening' = [listening EXCEPT ![s] = None]
  /\ backlog' = [backlog EXCEPT ![s] = <<>>]
  /\ sock' = [sock EXCEPT ![s] = IF @ = "open" THEN "closed" ELSE @]
  /\ UNCHANGED <<opc, wpc, ports, peer, acceptSock, counters, data, up, csock,
                 flight, lost, told, result>>

AllClosed(m) == \A s \in Streams(m) : listening[s] = None

\* CloseConn's loop has come to its end, whatever the workers do.
Closed(m) ==
  /\ opc[m] = "closing" /\ AllClosed(m)
  /\ Become(m, "report")
  /\ UNCHANGED <<wpc, ports, conns, counters, data, netVars>>

\* Mutant: a counter starts again when it has been read.
ReadCounter_Resets(m) ==
  LET s == <<m, Len(data[m]) + 1>> IN
  /\ opc[m] \in {"info", "report"} /\ Len(data[m]) < NumStreams
  /\ data' = [data EXCEPT ![m] = Append(@, bytes[s])]
  /\ bytes' = [bytes EXCEPT ![s] = 0]
  /\ UNCHANGED <<opc, wpc, ports, conns, got, netVars>>

\* The counters are read one stream after the other, while they grow.
ReadCounter(m) ==
  /\ opc[m] \in {"info", "report"} /\ Len(data[m]) < NumStreams
  /\ data' = [data EXCEPT ![m] = Append(@, bytes[<<m, Len(@) + 1>>])]
  /\ UNCHANGED <<opc, wpc, ports, conns, counters, netVars>>

ReplyWith(m) ==
  /\ Len(data[m]) = NumStreams
  /\ result' = [result EXCEPT ![m] = data[m]]
  /\ data' = [data EXCEPT ![m] = <<>>]
  /\ UNCHANGED <<wpc, ports, conns, counters, up, listening, backlog, csock,
                 flight, lost, told>>

GetMsmtInfo(m) == opc[m] = "info" /\ ReplyWith(m) /\ Become(m, "running")

CloseConn(m) == opc[m] = "report" /\ ReplyWith(m) /\ Become(m, "closed")

Object(m) ==
  /\ up
  /\ \/ StartWorker(m) \/ ReplyPorts(m) \/ Closed(m)
     \/ ReadCounter(m) \/ GetMsmtInfo(m) \/ CloseConn(m)
     \/ \E s \in Streams(m) :
          \/ Heartbeat(s) \/ CloseStreamTCP(s) \/ CloseStreamUDP(s)
          \/ CloseStreamQuic(s)

ServerNext ==
  \/ \E m \in Msmts : (up /\ New(m)) \/ Object(m)
  \/ \E s \in Stream : Worker(s)
=============================================================================
