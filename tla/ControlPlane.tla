---------------------------- MODULE ControlPlane ----------------------------
(***************************************************************************)
(* The control plane of mapago: one server (ControlServer) and its clients *)
(* (ControlClient) over the control channel (ControlNet).                  *)
(***************************************************************************)
EXTENDS ControlServer, ControlClient

vars == <<up, netVars, serverVars, clientVars>>

Init == NetInit /\ ServerInit /\ ClientInit

Next ==
  \/ ServerNext /\ UNCHANGED clientVars
  \/ ClientNext /\ UNCHANGED serverVars

Spec == Init /\ [][Next]_vars

(***************************************************************************)
(* Fairness: the Go scheduler runs every goroutine that can run, and the   *)
(* operating system every client.  Nothing makes an acceptor prefer one of *)
(* several clients, a client die, or two map accesses collide.             *)
(***************************************************************************)
Fairness ==
  /\ \A g \in Goroutines : WF_vars((Reader(g) \/ Handler(g)) /\ UNCHANGED clientVars)
  /\ \A u \in Dgram : WF_vars(DgramReader(u) /\ UNCHANGED clientVars)
  /\ WF_vars(Dispatch /\ UNCHANGED clientVars)
  /\ \A c \in Clients : WF_vars(ClientStep(c) /\ UNCHANGED serverVars)

FairSpec == Spec /\ Fairness

-----------------------------------------------------------------------------
(* State predicates *)

\* The state is a state: the types of all variables of the control plane.
TypeOK == NetTypeOK /\ ServerTypeOK /\ ClientTypeOK

\* The goroutines that accept, read the first request of a connection, offer
\* a request, or answer one.
Active == {g \in Goroutines : pc[g] \in {"accept", "read", "send"} \cup HandlerPc}

\* With TCP clients only, the hand-over from acceptor to reader to dispatch
\* loop to handler to acceptor admits one request at a time: the handlers'
\* shared variable and maps, which have no lock, are never used by two.
SingleFlight ==
  /\ \A g, h \in Active : g = h
  /\ disp # None => Active = {}

\* And it is never lost, unless with a client that dies: an acceptor whose
\* client ends without a request returns, and nobody accepts in its place.
AcceptorKept ==
  up /\ Active = {} /\ disp = None => \E c \in Clients : cpc[c] = "killed"

\* An answer that reaches a client is one it is waiting for: its own request's
\* and of that request's type.
OwnReplies ==
  \A c \in Clients :
    \A i \in DOMAIN inbox[c] : inbox[c][i].seq = c /\ inbox[c][i].type = phase[c]

\* The measurement a client is told to use is the one its request started.
Ownership == \A c \in Clients : mid[c] # None => owner[mid[c]] = c

\* The stored channel of a measurement is the channel of that measurement, and
\* nothing is stored for the empty id.
RecvChIndexedByMsmtId ==
  \A m \in MsmtIds \cup {None} : recvChStorage[m] \in {None, m}

\* Every measurement a client holds an id of can be asked about and stopped:
\* both lookups the handlers exit on will succeed.
Reachable ==
  \A c \in Clients :
    mid[c] # None => recvChStorage[mid[c]] # None /\ mid[c] \in msmtStorage

\* A client that measures once starts one measurement: no request is handled
\* twice, so no module is left running that nobody will stop.
OneMeasurementPerClient ==
  \A m, n \in MsmtIds : owner[m] # None /\ owner[m] = owner[n] => m = n

\* A measurement is only stopped for a client that was told its id.
StoppedByHolder ==
  \A m \in closed : \E c \in Clients : mid[c] = m /\ phase[c] = "STOP"

\* A discovery is answered with the answer to that client's own request.
DiscoveryAnswered ==
  \A c \in Clients : phase[c] = "INFO" =>
    \A i \in DOMAIN inbox[c] : inbox[c][i].type = "INFO" => inbox[c][i].seq = c

Aborted == {c \in Clients : cpc[c] = "killed" /\ inbox[c] # <<>>}

\* The server process lives through everything its clients do, short of dying
\* with an answer unread.
ServerSurvives == up \/ Aborted # {}

-----------------------------------------------------------------------------
(* The control plane as a service to TCP clients *)

serviceClient ==
  [c \in Clients |-> IF cpc[c] \in {"dial", "write", "listen", "read"} THEN "waits"
                     ELSE IF cpc[c] = "manage" THEN "free" ELSE cpc[c]]

Service == INSTANCE ControlService WITH
  client <- serviceClient, asks <- phase, held <- mid, stopped <- closed

\* However requests overlap in the server, each takes effect once, between the
\* moment its client asks and the moment it is answered, for this client and for
\* nobody else; and as long as the server runs no client fails.
ServiceSpec == Service!Spec

-----------------------------------------------------------------------------
(* Liveness *)

\* A client that is not killed gets through its measurement.
AllComplete == \A c \in Clients : <>(cpc[c] \in {"done", "killed"})
=============================================================================
