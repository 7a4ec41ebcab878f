----------------------------- MODULE Throughput -----------------------------
(***************************************************************************)
(* Throughput measurements: the modules of one server and their clients.   *)
(***************************************************************************)
EXTENDS ThroughputClient, FiniteSets

\* Clients start finitely many measurements.
ASSUME FiniteAssumption == IsFiniteSet(Msmts)

vars == <<netVars, serverVars, clientVars>>

Init == NetInit /\ ServerInit /\ ClientInit

Next ==
  \/ ServerNext /\ UNCHANGED clientVars
  \/ ClientNext
  \/ \E c \in Stream : Lose(c) /\ UNCHANGED <<serverVars, clientVars>>

Spec == Init /\ [][Next]_vars

(***************************************************************************)
(* Fairness: the Go scheduler runs every goroutine of both programs that   *)
(* can run, and the manager's deadline timer fires.  Nobody has to start a *)
(* measurement, and nothing dies or faults because it must.                *)
(***************************************************************************)
Fairness ==
  /\ \A s \in Stream : WF_vars(Worker(s) /\ UNCHANGED clientVars)
  /\ \A m \in Msmts : WF_vars(Object(m) /\ UNCHANGED clientVars)
  /\ \A m \in Msmts : WF_vars(Manager(m))
  /\ \A c \in Stream : WF_vars(ClientWorker(c))

FairSpec == Spec /\ Fairness

-----------------------------------------------------------------------------
(* Safety *)

\* The types of all variables of the measurement plane.
TypeOK == NetTypeOK /\ ServerTypeOK /\ ClientTypeOK

\* Each port a client was told is one of its own measurement's listening
\* sockets, and none is told twice, although the workers of all measurements
\* search at the same time and append to the list without a lock.
PortsAreOwn ==
  \A m \in Msmts : opc[m] \in {"running", "info"} =>
    \A i \in DOMAIN told[m] :
      /\ \E s \in Streams(m) : listening[s] = told[m][i]
      /\ \A j \in DOMAIN told[m] : told[m][i] = told[m][j] => i = j

\* A worker fails on a port only because another one has it: no search goes
\* further than one port per worker on the same network.
PortsSuffice ==
  \A s \in Stream :
    port[s] < FirstPort + Cardinality({t \in Stream : SameNetwork(s[1], t[1])})

\* Every stream that was configured has a port in the start reply.
EveryStreamHasPort ==
  \A m \in Msmts : told[m] # <<>> => Len(told[m]) = NumStreams

\* What has left the workers of a client, is no longer under way and not lost.
Received(m) ==
  SumFunction([i \in 1..NumStreams |->
                 sent[<<m, i>>] - (flight[<<m, i>>] + lost[<<m, i>>])])

\* Nobody else's bytes can come to the workers of m.  A UDP worker counts every
\* datagram that comes to its port, and a QUIC client that has asked for its
\* stop may still connect to a port that is another measurement's by now.
Undisturbed(m) ==
  /\ m \in UdpMsmts => DatagramMsmts = {m}
  /\ m \in QuicMsmts => QuicMsmts = {m}

\* The counters a client is told of never exceed what has left its own
\* workers and arrived: no measurement counts another one's bytes, none twice.
OwnBytes ==
  \A m \in Msmts : Undisturbed(m) => countCurrSrvBytes(m) <= Received(m)

\* A manager that stops because the measurement is finished does so when the
\* server has received as much of its own client as was to be sent.
FinishedMeansReceived == \A m \in finished : Received(m) >= MsmtTotalBytes

\* Counters are absolute: no answer about a stream is below an earlier one,
\* the last one from CloseConn included.
ResultsGrow ==
  [][\A m \in Msmts : \A i \in 1..NumStreams : result'[m][i] >= result[m][i]]_vars

\* CloseConn may miss a connection that is accepted and not yet stored in
\* AcceptSock.  When the client is told that all is closed, the client's end
\* of such a connection is closed too, so its worker will not read for long.
NothingLeftOpen ==
  \A m \in Msmts : opc[m] = "closed" =>
    \A s \in Streams(m) : sock[s] = "open" => peer[s] # None /\ Gone(peer[s])

\* Where a worker that works without fault ends the server: in the search for a
\* port of a foreign address, and on the connection of a client that has lost
\* the network - a QUIC worker only as long as it waits for the stream.
Exposed(s) ==
  \/ wpc[s] = "listen" /\ s[1] \in Misaddressed \cap (TcpMsmts \cup UdpMsmts)
  \/ /\ sock[s] = "open" /\ peer[s][1] \in Faulty
     /\ wpc[s] = IF s[1] \in QuicMsmts THEN "stream" ELSE "read"

\* Besides, a client takes the server with it only when it is killed, or when it
\* asks for the stop of a QUIC measurement at its deadline: then a session may
\* end with no stream accepted.  A client that asks because its measurement is
\* finished never does.  (Two streams of one measurement may, see TornAppend,
\* and so may a measurement of no bytes at all.)
ServerSurvives ==
  ~up /\ NumStreams = 1 /\ MsmtTotalBytes > 0 =>
    \/ \E m \in Msmts :
         mgr[m] = "dead" \/ (m \in QuicMsmts \ finished /\ mgr[m] \in {"stop", "over"})
    \/ \E s \in Stream : Exposed(s)

-----------------------------------------------------------------------------
(* The service this implements *)

PhaseOf(state) ==
  CASE state = "none" -> "idle"
    [] state \in {"make", "wait"} -> "starting"
    [] state = "running" -> "running"
    [] state = "info" -> "asked"
    [] state \in {"closing", "report"} -> "stopping"
    [] state = "closed" -> "stopped"

ClientOf(state) ==
  CASE state = "start" -> "waiting"
    [] state = "run" -> "measuring"
    [] state = "stop" -> "stopping"
    [] OTHER -> state

Sending(m) ==
  {i \in 1..NumStreams : csock[<<m, i>>] \in {"dial", "handshake", "open"}}

servicePhase == [m \in Msmts |-> PhaseOf(opc[m])]
serviceClient == [m \in Msmts |-> ClientOf(mgr[m])]
serviceConns == [m \in Msmts |-> Sending(m)]
serviceReceived == [m \in Msmts |-> [i \in 1..NumStreams |-> bytes[<<m, i>>]]]

Service == INSTANCE MeasurementService WITH
  Abrupt <- QuicMsmts, phase <- servicePhase, client <- serviceClient,
  conns <- serviceConns, received <- serviceReceived, reported <- result

\* Whatever the workers race for, each measurement is one of the service:
\* answers in turn, each stream's report between the last one and what is
\* counted, and no connection of a client left when it asks for the stop.
ServiceSpec == Service!Spec

-----------------------------------------------------------------------------
(* Liveness *)

\* A start request for an address of the server is answered, whatever the other
\* measurements do: every worker finds a port and gets rid of its heartbeat.
StartAnswered ==
  \A m \in Msmts \ Misaddressed : (opc[m] = "make") ~> (told[m] # <<>> \/ ~up)

\* After a stop request all workers of the measurement end, but for a QUIC
\* worker that goes on reading a closed session.
WorkersEnd ==
  \A m \in Msmts :
    (opc[m] = "closing") ~>
      (~up \/ \A s \in Streams(m) : wpc[s] = "done" \/ (m \in QuicMsmts /\ wpc[s] = "spin"))

\* A configured stream has no worker on the client's side: its port is not in
\* the start reply, or it could not connect or write and has left.
WorkerMissing(m) ==
  told[m] # <<>> /\ \E i \in 1..NumStreams :
    i \notin DOMAIN told[m] \/ csock[<<m, i>>] = "left"

\* A measurement that is started is stopped in the end, unless its client is
\* killed or the server ends.  The only thing that can block the manager is a
\* missing worker, for which it has a close order that nobody takes.
MeasurementEnds ==
  \A m \in Msmts \ Misaddressed :
    (opc[m] = "make") ~>
      (opc[m] = "closed" \/ mgr[m] = "dead" \/ ~up \/ WorkerMissing(m))
=============================================================================
