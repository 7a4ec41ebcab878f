--------------------------- MODULE ControlPlaneInv ---------------------------
(***************************************************************************)
(* The inductive invariants behind the theorems about ControlPlane:        *)
(* TypeInv and HolderInv for every set of clients; TcpInv, KeptInv,        *)
(* MsmtInv and AnswerInv when all of them use TCP.                         *)
(***************************************************************************)
EXTENDS ControlPlane

\* What TypeOK needs: a variable is set where the code reads it.
Initialised ==
  /\ \A g \in Goroutines :
       /\ pc[g] \in {"read", "send", "reread"} => peer[g] \in Clients
       /\ pc[g] = "send" \/ disp = g => buf[g] \in Request
       /\ pc[g] \in HandlerPc => req[g] \in Request
       /\ pc[g] \in {"insert", "mgmt", "recv"} => ch[g] \in MsmtIds
       /\ pc[g] \in {"store", "conv"} => repDataObj # None
       /\ pc[g] = "marshal" => ptr[g] # None
       /\ ptr[g] # None => obj[ptr[g]] \in Message
       /\ pc[g] \in {"marshal", "write"} => json[g] \in Message
  /\ repDataObj # None => obj[repDataObj] \in Message
  /\ \A u \in Dgram : rpc[u] # "read" \/ disp = u => rbuf[u] \in Clients

TypeInv == TypeOK /\ Initialised

-----------------------------------------------------------------------------
InBacklog(c) == \E i \in DOMAIN backlog : backlog[i] = c

Awaiting(c) == cpc[c] \in {"read", "killed"} /\ inbox[c] = <<>>

\* Nothing arrives by datagram.
NoDatagrams ==
  /\ disp \notin Dgram
  /\ \A u \in Dgram : dgrams[u] = {} /\ rpc[u] = "read"
  /\ \A h \in Goroutines : via[h] \notin Dgram
  /\ \A c \in Clients : Proto(c) = "tcp" /\ sock[c] \in {"none", "tcp"}
                       /\ cpc[c] # "listen"

\* A client has a socket while it exchanges, and nothing of an exchange is
\* left when it has none.
Exchange ==
  \A c \in Clients :
    /\ cpc[c] \in {"write", "read"} => sock[c] = "tcp"
    /\ cpc[c] \notin {"write", "read", "killed"} =>
         link[c] = None /\ out[c] = None /\ inbox[c] = <<>> /\ sock[c] = "none"
    /\ cpc[c] = "write" => out[c] = None /\ inbox[c] = <<>>
    /\ cpc[c] = "killed" => sock[c] = "none"
    /\ out[c] # None => /\ out[c].from = c /\ out[c].kind = phase[c]
                         /\ Awaiting(c)

\* A connection has one client, whose request is read once.
Connections ==
  /\ \A c, d \in Clients : link[c] # None /\ link[c] = link[d] => c = d
  /\ \A i, j \in DOMAIN backlog : backlog[i] = backlog[j] => i = j
  /\ \A c \in Clients : InBacklog(c) =>
       /\ link[c] = None /\ inbox[c] = <<>>
       /\ cpc[c] \in {"write", "read", "killed"}
  /\ \A c \in Clients : link[c] # None =>
       \/ pc[link[c]] \in {"read", "send", "reread"} /\ peer[link[c]] = c
       \/ pc[link[c]] = "idle" /\ conn[link[c]] = "closed"
  /\ \A c \in Clients : link[c] # None /\ (cpc[c] = "write" \/ out[c] # None) =>
       pc[link[c]] = "read"
  /\ \A g \in Goroutines : pc[g] \in {"read", "send"} => conn[g] = "open"

\* A request on its way through the server is the one its client waits on.
Requests ==
  /\ \A g \in Goroutines, c \in Clients :
       (pc[g] = "send" \/ disp = g) /\ link[c] = g =>
         buf[g].from = c /\ buf[g].kind = phase[c] /\ Awaiting(c)
  /\ \A h \in Goroutines, c \in Clients :
       pc[h] \in HandlerPc /\ link[c] = via[h] =>
         /\ req[h].from = c /\ req[h].kind = phase[c]
         /\ pc[h] # "close" => Awaiting(c)

\* The answer a handler builds in the shared variable is its own.
Answers ==
  \A h \in Goroutines :
    /\ pc[h] \in HandlerPc => via[h] \in Goroutines
    /\ pc[h] \in {"store", "conv"} =>
         /\ repDataObj = h
         /\ obj[h].type = req[h].kind /\ obj[h].seq = req[h].from
    /\ pc[h] \in {"marshal", "write"} =>
         json[h].type = req[h].kind /\ json[h].seq = req[h].from

TcpInv ==
  /\ SingleFlight /\ OwnReplies
  /\ NoDatagrams /\ Exchange
  /\ up => Connections /\ Requests /\ Answers

\* A goroutine that waits for the first request of a connection has it still.
FirstReads ==
  \A g \in Goroutines :
    pc[g] = "read" => link[peer[g]] = g /\ inbox[peer[g]] = <<>>

KeptInv == AcceptorKept /\ (up => FirstReads)
-----------------------------------------------------------------------------
(* Measurements, whatever protocol the clients use *)

\* A handler is in the branch of its request's type.
Routed ==
  \A h \in Goroutines :
    /\ pc[h] = "info" => req[h].kind = "INFO"
    /\ pc[h] \in {"check", "make", "run", "insert", "store"} => req[h].kind = "START"
    /\ pc[h] \in {"lookup", "mgmt"} => req[h].kind \in {"STOP", "MSMT_INFO"}

\* A stop request, wherever it is or was, is that of a client that has come to
\* the end of its measurement and names it.
StopsOwn(r) == r.kind = "STOP" => phase[r.from] = "STOP" /\ mid[r.from] = r.mid

HolderInv ==
  /\ \A c \in Clients : out[c] # None => StopsOwn(out[c])
  /\ \A g \in Goroutines : pc[g] = "send" \/ disp = g => StopsOwn(buf[g])
  /\ \A h \in Goroutines : pc[h] \in HandlerPc => StopsOwn(req[h])
  /\ \A c \in Clients : cpc[c] = "manage" => phase[c] # "STOP"
  /\ StoppedByHolder

-----------------------------------------------------------------------------
(* Measurements, when every client uses TCP *)

\* Both lookups the handlers exit on succeed for the measurement m of client c.
Known(c, m) ==
  /\ m \in MsmtIds /\ owner[m] = c
  /\ recvChStorage[m] = m /\ m \in msmtStorage

\* What a client has been told is known to the server.
Told ==
  /\ \A c \in Clients : mid[c] # None => Known(c, mid[c])
  /\ \A c \in Clients : \A i \in DOMAIN inbox[c] :
       inbox[c][i].type = "START" => Known(c, inbox[c][i].mid)
  /\ RecvChIndexedByMsmtId
  /\ msmtStorage # {} => mapInited

\* The client has sent its only start request, its only stop request.
PastStart(c) ==
  /\ phase[c] # "INFO"
  /\ phase[c] = "START" => out[c] = None /\ cpc[c] \notin {"dial", "write"}
PastStop(c) == phase[c] = "STOP" /\ out[c] = None /\ cpc[c] \notin {"dial", "write"}

\* A request about a measurement names the one its client was told.
Holds(r) ==
  r.kind \in {"STOP", "MSMT_INFO"} => mid[r.from] # None /\ r.mid = mid[r.from]

\* A client has an id from the answer to its start request on.
Managed ==
  \A c \in Clients :
    /\ phase[c] = "INFO" => mid[c] = None
    /\ phase[c] = "START" /\ cpc[c] \in {"dial", "write", "read"} => mid[c] = None
    /\ phase[c] \in {"STOP", "MSMT_INFO"} \/ cpc[c] = "manage" => mid[c] # None
    /\ cpc[c] = "manage" => phase[c] # "STOP"
    /\ out[c] # None => Holds(out[c])

\* What the server has done once for a client, the client has asked for once.
Served ==
  /\ \A m \in MsmtIds : owner[m] # None =>
       PastStart(owner[m]) /\ (m \in closed => PastStop(owner[m]))
  /\ \A m \in closed : owner[m] # None

\* A request the server has read will not be sent again, ...
Asked(r) ==
  /\ r.kind = "START" => PastStart(r.from)
  /\ r.kind = "STOP" => PastStop(r.from)

\* ... and one it has not served was not served before.
Pending(r) ==
  /\ r.kind = "START" => \A m \in MsmtIds : owner[m] # r.from
  /\ r.kind = "STOP" => \A m \in closed : owner[m] # r.from

\* A request on its way to a handler, or with one.
Arrived ==
  /\ \A g \in Goroutines : pc[g] = "send" \/ disp = g =>
       Holds(buf[g]) /\ Asked(buf[g]) /\ Pending(buf[g]) /\ conn[g] = "open"
  /\ \A h \in Goroutines : pc[h] \in HandlerPc =>
       Holds(req[h]) /\ Asked(req[h]) /\ conn[via[h]] = "open"
  /\ \A h \in Goroutines :
       pc[h] \in {"check", "make", "run", "lookup", "mgmt"} => Pending(req[h])

\* What a handler holds of the measurement it serves.
ServingAt(h) ==
  /\ pc[h] = "make" => ~mapInited
  /\ pc[h] \in {"run", "insert"} => mapInited
  /\ pc[h] \in {"insert", "recv"} => recvCh[ch[h]] = <<req[h].kind>>
  /\ pc[h] = "insert" => owner[ch[h]] = req[h].from
  /\ pc[h] = "recv" /\ req[h].kind = "START" =>
       owner[ch[h]] = req[h].from /\ ch[h] \in msmtStorage
  /\ pc[h] \in {"mgmt", "recv"} /\ req[h].kind # "START" => ch[h] = req[h].mid
  /\ pc[h] = "store" =>
       owner[ch[h]] = req[h].from /\ ch[h] \in msmtStorage /\ obj[h].mid = ch[h]
  /\ pc[h] = "conv" /\ req[h].kind = "START" => Known(req[h].from, obj[h].mid)
  /\ pc[h] \in {"marshal", "write"} /\ req[h].kind = "START" =>
       Known(req[h].from, json[h].mid)

\* A reply waits in a channel only while a handler is there to receive it.
RepliesAwaited ==
  \A m \in MsmtIds : recvCh[m] # <<>> =>
    \E h \in Goroutines : pc[h] \in {"insert", "recv"} /\ ch[h] = m

Serving == RepliesAwaited /\ \A h \in Goroutines : ServingAt(h)

MsmtInv ==
  /\ Routed /\ Told /\ Managed /\ Served /\ Arrived /\ Serving
  /\ OneMeasurementPerClient /\ ServerSurvives

-----------------------------------------------------------------------------
(* Answers, when every client uses TCP *)

\* When the server answers a stop request, it has stopped the measurement.
StoppedFirst ==
  /\ \A h \in Goroutines :
       pc[h] \in {"recv", "conv", "marshal", "write"} /\ req[h].kind = "STOP" =>
         req[h].mid \in closed
  /\ \A c \in Clients : \A i \in DOMAIN inbox[c] :
       inbox[c][i].type = "STOP" => mid[c] \in closed
  /\ \A c \in Clients : cpc[c] = "done" => phase[c] = "STOP" /\ mid[c] \in closed

\* A connection is closed only after its client has been answered.
AnsweredFirst ==
  \A c \in Clients : link[c] # None /\ cpc[c] = "read" /\ inbox[c] = <<>> =>
    /\ conn[link[c]] = "open"
    /\ \A h \in Goroutines : pc[h] = "close" => via[h] # link[c]

AnswerInv ==
  /\ StoppedFirst
  /\ up => AnsweredFirst
  /\ \A c \in Clients : cpc[c] = "failed" => ~up
=============================================================================
