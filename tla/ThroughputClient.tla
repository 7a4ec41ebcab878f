-------------------------- MODULE ThroughputClient --------------------------
(***************************************************************************)
(* The client side of a measurement (measurement-plane/*/client.go and the *)
(* manage...Msmt functions of mapago-client.go): a worker per port of the  *)
(* start reply, and the manager that asks for the counters and, when all   *)
(* has been received or the deadline has passed, has the workers close and *)
(* then asks for the stop.  One process per measurement.                   *)
(***************************************************************************)
EXTENDS ThroughputServer, Functions

CONSTANTS
  MaxInfo  \* how often a manager asks for the counters (a bound)

ASSUME ClientAssumption == MaxInfo \in Nat

VARIABLES
  mgr,      \* where the manager of a measurement is
  infos,    \* how often it has asked for the counters
  finished, \* it has left its loop because msmtFinished was true
  sent      \* what a client worker has written in all

clientVars == <<mgr, infos, finished, sent>>

ClientTypeOK ==
  /\ mgr \in [Msmts -> {"start", "run", "closing", "stop", "over", "dead"}]
  /\ infos \in [Msmts -> 0..MaxInfo]
  /\ finished \in SUBSET Msmts
  /\ sent \in [Stream -> 0..StreamBytes]

ClientInit ==
  /\ mgr = [m \in Msmts |-> "start"]
  /\ infos = [m \in Msmts |-> 0]
  /\ finished = {}
  /\ sent = [c \in Stream |-> 0]

Manage(m, label) == mgr' = [mgr EXCEPT ![m] = label]
SockTo(c, state) == csock' = [csock EXCEPT ![c] = state]

-----------------------------------------------------------------------------
(* Workers *)

\* The start reply has come: a worker per port in it, however many.
NewMsmtClient(m) ==
  /\ mgr[m] = "start" /\ told[m] # <<>>
  /\ csock' = [c \in Stream |-> IF c[1] = m /\ c[2] \in DOMAIN told[m]
                                THEN "dial" ELSE csock[c]]
  /\ Manage(m, "run")
  /\ UNCHANGED <<infos, finished, sent, up, listening, backlog, flight, lost, told,
                 result, serverVars>>

\* The process ends, and the kernel closes its sockets.
EndClient(m, label) ==
  /\ csock' = [c \in Stream |->
                 IF c[1] = m /\ csock[c] \notin {"none", "closed"}
                 THEN "killed" ELSE csock[c]]
  /\ Manage(m, label)
  /\ UNCHANGED <<infos, finished, sent, up, listening, backlog, flight, lost, told,
                 result, serverVars>>

Listener(c) ==
  {s \in Stream : up /\ listening[s] = Target(c) /\ SameNetwork(s[1], c[1])}

\* A TLS or QUIC worker has yet to shake hands.
Dial(c) ==
  /\ csock[c] = "dial" /\ c[1] \notin UdpMsmts
  /\ \E s \in Listener(c) :
       /\ s[1] \notin UdpMsmts
       /\ backlog' = [backlog EXCEPT ![s] = Append(@, c)]
  /\ SockTo(c, IF c[1] \in TcpMsmts THEN "open" ELSE "handshake")
  /\ UNCHANGED <<up, listening, flight, lost, told, result, clientVars, serverVars>>

\* For TLS it takes a reader at the other end.
Handshake(c) ==
  /\ csock[c] = "handshake" /\ up /\ c[1] \in TlsMsmts
  /\ \E s \in Stream : peer[s] = c /\ wpc[s] = "read"
  /\ SockTo(c, "open")
  /\ UNCHANGED <<up, listening, backlog, flight, lost, told, result, clientVars,
                 serverVars>>

\* quic-go does it beside the worker, which may not have accepted yet.
HandshakeQuic(c) ==
  /\ csock[c] = "handshake" /\ up /\ c[1] \in QuicMsmts
  /\ \E s \in Stream :
       \/ \E i \in DOMAIN backlog[s] : backlog[s][i] = c
       \/ peer[s] = c /\ sock[s] = "open"
  /\ SockTo(c, "open")
  /\ UNCHANGED <<up, listening, backlog, flight, lost, told, result, clientVars,
                 serverVars>>

\* Connecting a datagram socket asks nobody.
DialUDP(c) ==
  /\ csock[c] = "dial" /\ c[1] \in UdpMsmts
  /\ SockTo(c, "open")
  /\ UNCHANGED <<up, listening, backlog, flight, lost, told, result, clientVars,
                 serverVars>>

\* Mutant: a worker sends over its threshold.
Write_More(c) ==
  \E n \in 1..StreamBytes :
    /\ csock[c] = "open" /\ up /\ flight[c] + n <= StreamBytes
    /\ flight' = [flight EXCEPT ![c] = @ + n]
    /\ sent' = [sent EXCEPT ![c] = @ + n]
    /\ UNCHANGED <<mgr, infos, finished, up, listening, backlog, csock, lost, told,
                   result, serverVars>>

\* A worker sends until its share is sent.
Write(c) ==
  /\ csock[c] = "open" /\ up /\ sent[c] < StreamBytes
  /\ flight' = [flight EXCEPT ![c] = @ + 1]
  /\ sent' = [sent EXCEPT ![c] = @ + 1]
  /\ UNCHANGED <<mgr, infos, finished, up, listening, backlog, csock, lost, told,
                 result, serverVars>>

\* "no route to host", after which a TCP worker returns without wg.Done.
DialFails(c) ==
  /\ csock[c] = "dial" /\ c[1] \in Faulty \cap TcpMsmts
  /\ SockTo(c, "left")
  /\ UNCHANGED <<up, listening, backlog, flight, lost, told, result, clientVars,
                 serverVars>>

\* The server process or the network is gone.  A TLS or QUIC worker that cannot
\* connect and any that cannot write return, ...
Leave(c) ==
  /\ ~up \/ c[1] \in Faulty
  /\ \/ c[1] \in TlsMsmts \cup QuicMsmts /\ csock[c] \in {"dial", "handshake"}
     \/ c[1] \notin UdpMsmts /\ csock[c] = "open" /\ sent[c] < StreamBytes
  /\ SockTo(c, "left")
  /\ UNCHANGED <<up, listening, backlog, flight, lost, told, result, clientVars,
                 serverVars>>

\* The server keeps up the session a worker has accepted.
Served(s) == sock[s] = "open" /\ wpc[s] # "done"

\* The session of a QUIC worker has timed out; it returns with wg.Done, but
\* nobody is left to take its close order.
LeaveIdle(c) ==
  /\ up /\ c[1] \in QuicMsmts /\ csock[c] = "open" /\ sent[c] < StreamBytes
  /\ \E s \in Stream : peer[s] = c /\ ~Served(s)
  /\ SockTo(c, "left")
  /\ UNCHANGED <<up, listening, backlog, flight, lost, told, result, clientVars,
                 serverVars>>

\* ... but a TCP worker that cannot connect and a UDP worker end the client.
ExitClient(m) ==
  /\ ~up
  /\ \E c \in Streams(m) :
       \/ m \in TcpMsmts /\ csock[c] = "dial"
       \/ m \in UdpMsmts /\ csock[c] = "open" /\ sent[c] < StreamBytes
  /\ EndClient(m, "dead")

\* A worker takes one of the manager's orders.
Close(c) ==
  /\ mgr[c[1]] = "closing" /\ csock[c] = "open"
  /\ SockTo(c, "closed")
  /\ UNCHANGED <<up, listening, backlog, flight, lost, told, result, clientVars,
                 serverVars>>

ClientWorker(c) ==
  \/ Dial(c) \/ Handshake(c) \/ HandshakeQuic(c) \/ DialUDP(c) \/ DialFails(c)
  \/ Write(c) \/ Leave(c) \/ LeaveIdle(c) \/ Close(c)

-----------------------------------------------------------------------------
(* The manager *)

\* The update timer fires; the manager waits for the answer.
AskInfo(m) ==
  /\ mgr[m] = "run" /\ opc[m] = "running" /\ infos[m] < MaxInfo
  /\ infos' = [infos EXCEPT ![m] = @ + 1]
  /\ Become(m, "info")
  /\ UNCHANGED <<mgr, finished, sent, wpc, ports, conns, counters, data, netVars>>

countCurrSrvBytes(m) == SumFunction(result[m])

\* Mutant: less than everything is enough.
msmtFinished_Any(m) == countCurrSrvBytes(m) > 0

\* The counters of the last answer add up to the total.
msmtFinished(m) == countCurrSrvBytes(m) >= MsmtTotalBytes

\* The manager leaves its loop for one of two reasons.
Finish(m) ==
  /\ mgr[m] = "run" /\ opc[m] = "running" /\ msmtFinished(m)
  /\ finished' = finished \cup {m}
  /\ Manage(m, "closing")
  /\ UNCHANGED <<infos, sent, netVars, serverVars>>

Deadline(m) ==
  /\ mgr[m] = "run" /\ opc[m] = "running"
  /\ Manage(m, "closing")
  /\ UNCHANGED <<infos, finished, sent, netVars, serverVars>>

\* Mutant: the stop request does not wait for the workers.
WorkersDone_Not(m) == TRUE

\* Mutant: the loop sends one order more than there are streams.
WorkersDone_OneMore(m) ==
  \A i \in 0..NumStreams : i > 0 /\ csock[<<m, i>>] = "closed"

\* One order per configured stream is taken and the WaitGroup is down to zero.
WorkersDone(m) == \A c \in Streams(m) : csock[c] = "closed"

AskStop(m) ==
  /\ mgr[m] = "closing" /\ opc[m] = "running" /\ WorkersDone(m)
  /\ Manage(m, "stop")
  /\ Become(m, "closing")
  /\ UNCHANGED <<infos, finished, sent, wpc, ports, conns, counters, data,
                 netVars>>

\* The QUIC manager asks for the stop at its deadline without a word to the
\* workers.
DeadlineQuic(m) ==
  /\ mgr[m] = "run" /\ opc[m] = "running"
  /\ Manage(m, "stop")
  /\ Become(m, "closing")
  /\ UNCHANGED <<infos, finished, sent, wpc, ports, conns, counters, data,
                 netVars>>

\* The stop reply is there: the manager returns, and main with it.
Return(m) == mgr[m] = "stop" /\ opc[m] = "closed" /\ EndClient(m, "over")

manageTcpMsmt(m) ==
  /\ m \in TcpMsmts
  /\ AskInfo(m) \/ Finish(m) \/ Deadline(m) \/ AskStop(m) \/ Return(m)

manageTcpTlsMsmt(m) ==
  /\ m \in TlsMsmts
  /\ AskInfo(m) \/ Finish(m) \/ Deadline(m) \/ AskStop(m) \/ Return(m)

manageUdpMsmt(m) ==
  /\ m \in UdpMsmts
  /\ AskInfo(m) \/ Finish(m) \/ Deadline(m) \/ AskStop(m) \/ Return(m)

manageQuicMsmt(m) ==
  /\ m \in QuicMsmts
  /\ AskInfo(m) \/ Finish(m) \/ DeadlineQuic(m) \/ AskStop(m) \/ Return(m)

Manager(m) ==
  \/ NewMsmtClient(m) \/ ExitClient(m)
  \/ manageTcpMsmt(m) \/ manageTcpTlsMsmt(m) \/ manageUdpMsmt(m)
  \/ manageQuicMsmt(m)

\* Somebody kills the client, or it exits on an error it has with the network.
Kill(m) ==
  /\ m \in Faulty /\ mgr[m] \in {"start", "run", "closing", "stop"}
  /\ EndClient(m, "dead")

ClientNext ==
  \/ \E m \in Msmts : Manager(m) \/ Kill(m)
  \/ \E c \in Stream : ClientWorker(c)
=============================================================================
