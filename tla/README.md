# mapago in TLA+

mapago measures network throughput. A server offers a control channel on one
port; clients discover it, ask it to start a measurement, query the
measurement while it runs and stop it. This directory holds TLA+ models of the
program, the TLC configurations that check them and the proofs, checked by
TLAPS, of the theorems that hold for any number of clients and measurements.

## The system

| component | source | state | operations |
|---|---|---|---|
| server, dispatch loop | `control-plane/control-plane.go` | `repDataObj`, `recvChStorage`, shared by all handlers without a lock | `INFO`, `START`, `STOP`, `MSMT_INFO` handlers, a goroutine each |
| server protocols | `control-plane/ctrl/server-protocols` | listener, accepted connections, one `UdpConnObj`, one `UdpMcConnObj`, the readers' buffers | `HandleTcpConn`, `handleUdpConn`, `WriteAnswer`, `CloseConn` |
| client protocols | `control-plane/ctrl/client-protocols` | a socket per request | `StartDiscovery`, `StartMeasurement`, `GetMeasurementInfo`, `StopMeasurement`, `Start` |
| messages | `control-plane/ctrl/shared` | none | `ConvDataStructToJson` (clears the type of its argument), `ConvJsonToDataStruct` |
| management plane | `management-plane` | `msmtStorage`, `mapInited`, no lock | `HandleMsmtStartReq`, `HandleMsmtStopReq`, `HandleMsmtInfoReq` |
| throughput modules (TCP, TLS, UDP, QUIC), server | `measurement-plane/*/server.go` | sockets, byte counters and ports per worker, no lock | `New...`, workers, `CloseConn`, `GetMsmtInfo` |
| throughput modules, client | `measurement-plane/*/client.go` | a socket per worker | workers that send until they are told to close |
| client main program | `mapago-client.go` | sequence number, measurement id, timers, `WaitGroup` | `run...CtrlClient`, `send...Request`, `manage...Msmt` |
| UDP ping, output, scripts | `measurement-plane/udp-ping`, `prepareOutput`, `scripts` | none that anything else reads | — |

How they interact. A reader goroutine hands a request to the dispatch loop
through an unbuffered channel. The loop starts one handler goroutine per
request. A handler calls the management plane, which calls a throughput module,
whose reply comes back from a goroutine of its own over a channel made per
measurement (`recvCh`); the handler then builds its answer *in the shared
variable `repDataObj`*, encodes it, writes it, closes the connection and calls
`HandleTcpConn` itself: **it becomes the next acceptor**. This is what makes
the control plane interesting. With TCP clients only, the right to accept is a
baton: acceptor → reader → dispatch loop → handler → acceptor, and the lack of
locks does no harm. A datagram is not accepted by anybody, so the handler that
answers it adds an acceptor, and from then on handlers overlap.

What is hard: the interleavings of handlers on unlocked state; clients that
die between two steps; the one address of the UDP connection object; the
buffer that is parsed while the reader may already fill it again; the
lifetime of the baton. `PROJECT.json` lists each hazard at its line.

What makes each component correct:

* server: an answer reaches the client whose request it answers; a measurement
  that a client was told about can be queried and stopped; none is stopped for a
  client that was not told its id; no client can end the server; the baton
  survives.
* client: it gets through its measurement, starts one and stops it.
* management plane: measurement ids are not shared, entries are not lost.
* throughput modules: as many streams as configured, each on a port of its own;
  the counters add up; closing ends all workers on both sides; no client can
  end the server.
* managers in the client: they end, and only after all workers have.
* both sides together: a request takes effect once, between its being sent and
  its being answered (`ControlService`); a measurement is a measurement, whatever
  the module and whatever races in it (`MeasurementService`).

## Plan

Done:

1. `ControlNet`, `ControlServer`, `ControlClient`, `ControlPlane`: the control
   plane, all protocols.
2. `ControlPlaneInv`, `ControlPlane_proof`: types for any mix of clients, and
   the baton, that it is kept, and the answers for TCP clients.
3. `ThroughputNet`, `ThroughputServer`, `ThroughputClient`, `Throughput`: the
   measurement plane for TCP, TLS, UDP and QUIC, several measurements at once,
   with the four managers.
4. `MeasurementService`: what a measurement is to its user; `Throughput` is
   shown to implement it, by TLC and by proof.
5. `ThroughputInv`, `Throughput_proof`, `MeasurementService_proof`: types,
   ports, connections, counters and the refinement.
6. `ControlPlaneMsmt_proof`: the other properties of the control plane, from an
   invariant that follows a measurement id from `CheckInited` to the client.
7. `SumTheorems`, `ThroughputBytes_proof`: the byte counts of the measurement
   plane and what ends its server.
8. `ControlService`, `ControlService_proof`, `ControlPlaneService_proof`: what
   the control plane is to TCP clients, and that it implements it.

Next: a safety theorem about UDP discoveries beyond `HolderStops`, that is, how
much of `TcpInv` is left when handlers overlap; liveness stays with TLC.

## The modules

`ControlNet` is the network between clients and server. It is not part of the
repository and is modelled from the way the code uses it: the accept queue
(`backlog`), a client's socket, its connection once accepted (`link`), the
request in flight (`out`), the answers delivered (`inbox`), the server's end
(`conn`), and the receive buffers of the two datagram sockets (`dgrams`). A TCP
connection neither loses nor reorders; a datagram may be lost, and the two
sockets read their datagrams in any order. A request is shorter than a segment
and arrives in one `Read`.

`ControlServer` has one action per step that another goroutine can see.

| action | code |
|---|---|
| `AcceptTCP`, `ReadTCP`, `ReadEOF`, `ReadReset`, `SendTCP` | `HandleTcpConn` |
| `ReadFromUDP`, `SetCltAddr`, `SendDgram` | `handleUdpConn`, unicast (`"udp"`) and multicast (`"mc"`): the buffer is filled, the address stored, the request offered |
| `Dispatch`, `ParseTorn` | the loop of `RunServer` with `ConvJsonToDataStruct` |
| `ConstructInfoReply` | the INFO handler's assignment |
| `CheckInited`, `MakeStorage`, `StartModule`, `InsertEntry` | `HandleMsmtStartReq` |
| `LookupChannel` | the look-up of `recvChStorage`, with its `os.Exit` |
| `HandleMsmtStopReq`, `HandleMsmtInfoReq` | the functions of that name |
| `ReceiveReply`, `StoreChannel` | `<-recvCh`, the assignment of `repDataObj`; the use of its id as a key |
| `EncodeType`, `ClearType` | `ConvDataStructToJson`: the type is read, then cleared |
| `WriteAnswer...`, `CloseConn...` | the methods of the three connection objects; closing ends with the call of `HandleTcpConn` |
| `ConcurrentMapAccess` | the Go runtime's check for concurrent map accesses |

A pointer to a `DataObj` is the name of the goroutine that made it, so
`repDataObj` is a goroutine's name and `obj[g]` the object. `disp` is the
request the dispatch loop has received and not yet parsed; what it parses is
what the reader's buffer holds *then*. `os.Exit`, a failed type assertion and a
runtime fault all set `up` to `FALSE`, after which the server does nothing.
Goroutine names are used again once nothing refers to them (`Unreferenced`).
`Dispatch` has the four requests that clients of this repository send; the
branches for the types they do not (`control-plane.go:61-63`, `157-166`) are left
out. `StartModule` picks an id that no measurement has had (`owner[m] = None`),
which the code does not check: it draws 31 random bits (`management-plane.go:96`).

`ControlClient` is one client process. It passes one address, `-control-addr`, to
all its requests (`ControlAddr`): for a client that discovers by multicast this
has to be a group (`udp-mcast.go:52`), and nothing accepts a TCP connection to a
group (`Accepts`). Its managers are reduced to the requests
they may send: in `"manage"` it may ask for information (at most `MaxInfo`
times) or stop. `Kill` ends the process from outside: what it has written
stays in the network.

`ControlPlane` composes them, states the fairness and the properties.
`MCControlPlane` adds the symmetry for TLC.

`ControlService` is the abstract specification of the control plane for clients
that use TCP. A client waits for an answer, is free, done, failed or killed; its
request is taken up in one step (`Start`, `Stop`) and answered in another
(`Discovered`, `Started`, `Informed`, `Stopped`), and it fails only when the
server is down, which only happens when a client was killed. It has no
connections, goroutines, maps or channels. `ControlPlane` maps to it by

| service | control plane |
|---|---|
| `up`, `owner` | the same |
| `client` | `serviceClient`, from `cpc`: dialling, writing and reading are one waiting |
| `asks` | `phase`, the kind of the client's current request |
| `held` | `mid`, the id it was told |
| `stopped` | `closed`, the measurements whose `CloseConn` has run |

The moment a start request takes effect is `StartModule`, that of a stop request
`HandleMsmtStopReq`; all the other steps of the server are invisible.

`ThroughputNet` is the network between the workers of client and server: the
ports bound, the accept queues, the client workers' sockets, what is written
and not yet read (`flight`) or never will be (`lost`), and what the client has
been told. Stream `<<m, i>>` is worker
`i` of measurement `m` on either side; which client worker has reached which
server worker is in `peer`. The control channel is reduced to its order: a
client asks one thing at a time, which is how its manager works. Starts and
stops of different measurements overlap freely. TCP and TLS workers compete for
the same ports, and UDP and QUIC workers for others (`SameNetwork`). Two
constants say whose surroundings are bad: a client in `Faulty` may be killed or
lose the network, and one in `Misaddressed` has been given, with `-addr`, an
address that the server has not. The start request carries it to the server,
which listens on it.

`ThroughputServer` is `measurement-plane/*/server.go`. A definition that is the
same in several modules stands once; `tcpServerWorker`, `tcpTlsServerWorker`,
`udpServerWorker` and `quicServerWorker` say which steps each worker has.

| action | code |
|---|---|
| `New`, `StartWorker`, `Heartbeat`, `ReplyPorts` | the constructor: the loop that starts workers, the one that receives heartbeats, the reply |
| `Listen`, `ListenFails` | the loop over ports from 7000 up; for a foreign address it ends where the ports do |
| `LoadPorts`, `StorePorts`, `TornAppend` | `usedPorts = append(usedPorts, port)`, which reads and then writes a shared slice |
| `Accept`, `AcceptClosed`, `StoreSock` | `Accept...()`, `AcceptSock = conn` |
| `Read`, `ReadFromUDP`, `Count` | a read, and adding to `Bytes` after it |
| `ReadEOF`, `ReadClosed`, `ReadClosedUDP`, `ReadTruncated`, `ReadFails` | the ways out of the read loop; the last two end the server |
| `AcceptStream`, `AcceptStreamTimeout`, `AcceptStreamFails` | QUIC: the accept of a stream and its two errors, of which one ends the server |
| `ReadNoError`, `ReadIdle` | QUIC: the read errors told apart by their text, of which the first is not a way out |
| `CloseStreamTCP`, `CloseStreamUDP`, `CloseStreamQuic`, `Closed` | the loop of `CloseConn`, a stream at a time |
| `ReadCounter`, `GetMsmtInfo`, `CloseConn` | the counters, read one by one, and the reply with them |

`ThroughputClient` has the client workers (`Dial`, `Handshake`,
`HandshakeQuic`, `DialUDP`, `DialFails`, `Write`, `Close`; `Leave` and
`ExitClient` for what they do when the server or the network is gone, `LeaveIdle` for a QUIC
worker whose session has timed out) and the managers: `manageTcpMsmt`,
`manageTcpTlsMsmt`, `manageUdpMsmt` and `manageQuicMsmt` say which of `AskInfo`,
`Finish`, `Deadline`, `DeadlineQuic`, `AskStop` and `Return` each has.
`Close` is the hand-over of one close order and `wg.Done`; `WorkersDone` says
that an order was taken for each configured stream and that the WaitGroup is
down to zero. It stays false when a port was lost or a worker has left, as the
code blocks then. `DeadlineQuic` is the abrupt stop: `manageQuicMsmt` asks for it
without a word to its workers, which go on until the process ends.

`Throughput` composes them and states fairness and properties.

`MeasurementService` is the abstract specification: one measurement is idle,
starting, running, asked, stopping, stopped; its client waits, measures, closes
its streams, stops and is over, or dies. Every answer reports for each stream
something between the last report and what has been received, and a client that
asks for the stop has closed its streams, unless its module is `Abrupt`. It has
no workers, sockets, ports or slices. `Throughput` maps to it by

| service | measurement plane |
|---|---|
| `phase` | `servicePhase`, from `opc`: the object's steps between two answers are one phase |
| `client` | `serviceClient`, from `mgr` |
| `conns` | `serviceConns`: the client workers that connect or send |
| `received` | `serviceReceived`: the workers' counters |
| `reported` | `result`, the last answer |
| `Abrupt` | `QuicMsmts` |

so that, for one, a report gathered counter by counter while the counters grow
(`ReadCounter`) is one that could have been taken at once, in the sense of
`Report`.

`ThroughputInv` and `ControlPlaneInv` hold the inductive invariants.
`ControlPlane_proof` and `ControlPlaneMsmt_proof` hold the theorems about the
control plane and `ControlPlaneService_proof` that it implements its service,
`Throughput_proof` and `ThroughputBytes_proof` those about the measurement plane,
`ControlService_proof` and `MeasurementService_proof` those about the services,
and `SumTheorems` what sums over streams need.

## The runs

| run | clients or measurements | shows |
|---|---|---|
| `control_tcp` | 2 TCP, killed anywhere | all safety properties of a server with TCP clients; it implements `ControlService` |
| `control_tcp_live` | 2 TCP, killed while waiting | every other client completes |
| `control_overlap` | 1 TCP, 1 that discovers by UDP | requests overlap, ids get mixed up, and still a measurement is only stopped for a client that was told its id |
| `control_mcast` | 1 TCP, 1 multicast | handlers overlap, and still an id that a client is told is in both maps |
| `throughput_streams` | 1 TCP measurement of 2 streams, `Faulty` | races inside one measurement; it implements the service |
| `throughput_udp` | 1 UDP, 1 QUIC (`Faulty`) | two kinds of datagram sockets side by side, loss, sessions that end early, the abrupt stop; both implement the service |
| `throughput_mixed` | 1 TCP, 1 TLS (`Faulty`) | two modules on the same ports keep apart; starts are answered, measurements and workers end |
| `throughput_address` | 1 UDP, 1 QUIC, 1 UDP in `Misaddressed` | what a foreign address does to the server, and that beside it all workers end |
| `throughput_lost_port` | 1 TCP of 2 streams | **violation**: a configured stream gets no port |
| `throughput_late` | 2 UDP | **violation**: a measurement is finished by another one's datagram |
| `control_channel_map` | 1 TCP, 1 UDP | **violation**: a channel is stored under the empty id |
| `control_misdirected` | 2 UDP | **violation**: a client is sent another one's answer |

The four violations are disagreements between the code and what it says of
itself; `PROJECT.json` quotes both sides under `findings`. Two more need one
client and no interleaving, so they are in the model and have no run:

* a client that discovers by multicast, which the flag at `mapago-client.go:38`
  offers beside `tcp` and `udp`, never measures: after the discovery (line 881) it
  dials, by TCP, the same address, which has to be a multicast group. A property
  that says so would repeat the guard of `DialTCP`;
* answering a multicast discovery closes the socket multicast requests are read
  from (`udp-mcast.go:79`), although the comment at `control-plane.go:52-53` says
  that it stays untouched (`CloseConnMc`). No later one is answered.

The properties, and what each would catch:

* `SingleFlight` — the baton: one goroutine accepts, reads a first request or
  handles one; while the loop holds a request, none does. Everything else about
  TCP clients rests on it.
* `AcceptorKept` — the baton is lost only with a client that dies: otherwise
  somebody accepts, reads a first request, handles one, or the loop has one.
* `OwnReplies` — every answer in a client's socket is of the type and for the
  request it waits on (the shared variable, the cleared type).
* `RecvChIndexedByMsmtId` — a channel is found under the id of its own
  measurement, and none under the empty id, which is the key an INFO handler
  leaves in the shared variable.
* `Reachable` — both look-ups a stop request needs succeed for every client
  that was told an id, so no `os.Exit` waits there. With one TCP client it even
  holds beside a multicast discovery (`control_mcast`): the assignment that
  loses a channel replaces the answer with the id too.
* `Ownership` — the id a client was told is of the measurement its request
  started.
* `OneMeasurementPerClient` — no request is handled twice.
* `ServerSurvives` of `ControlPlane` — the process only ends if a client died
  with an answer unread, which resets the connection (`tcp.go:118`).
* `ServerSurvives` of `Throughput` — it only ends after a client was killed,
  after a QUIC client has stopped at its deadline, so that a session may end with
  no stream accepted (`quic-throughput/server.go:153`), or while it is `Exposed`.
  That names the places where the server ends though no client did anything
  wrong: the search of a TCP or UDP worker for a port of a foreign address
  (`tcp-throughput/server.go:116`), a TCP or TLS worker's read from a client that
  has lost the network (`tcp-throughput/server.go:165`), and a QUIC worker's wait
  for the stream of such a client (`quic-throughput/server.go:161`); once it reads
  the stream, the same outage is a time-out it lives through. A client that
  finishes in order never ends the server. Claimed for one stream, since two may
  fault on the shared slice (`TornAppend`), and for measurements of at least one
  byte: a QUIC client with nothing to send is finished before its streams are
  opened.
* `ServiceSpec` — the refinements described above. Of the control plane it says
  that overlapping requests are served as if one at a time: a start answered with
  an id that is not running, a measurement stopped in passing or twice, a stop
  answered before it is done, or a client left without an answer while the
  server lives would each be a step that `ControlService` does not have.
* `PortsAreOwn` — every port a client is told is a socket of its measurement,
  and none is told twice, although lists are appended to without a lock and
  ports change hands between measurements.
* `PortsSuffice` — a worker only fails on a port another one has, so no search
  leaves the first `n` ports, `n` the number of workers on that network.
* `OwnBytes`, `ResultsGrow` — the counters of a reply are at most what arrived
  from the client's own workers, and never below those of an earlier reply
  (`scripts/evaluation.py` relies on them being absolute). `OwnBytes` is claimed
  where `Undisturbed` says so. It is not for a UDP measurement beside another
  that sends datagrams, UDP or QUIC: a UDP worker counts what arrives at its
  port, see `throughput_late`. Nor is it for two QUIC measurements: a worker of
  a client that has stopped at its deadline may still dial, and reach the port
  another measurement has by then.
  What arrived is what was sent and is neither under way nor lost (`Received`).
* `FinishedMeansReceived` — a manager that stops because it is finished, and
  not at its deadline, is right about what the server has received.
* `NothingLeftOpen` — a connection that `CloseConn` missed, between accept and
  `AcceptSock = conn`, is one whose client has closed already.
* `StartAnswered` — every worker whose address is the server's finds a port and
  gets rid of its heartbeat.
* `WorkersEnd` — after a stop request all workers end, but for a QUIC worker
  that reads a closed session for good (`quic-throughput/server.go:176`).
* `MeasurementEnds` — a started measurement is stopped in the end, unless its
  client is killed, the server ends, or a stream has no worker
  (`WorkerMissing`): its port was lost, or it has left after an error without
  `wg.Done` or without taking its close order. The run shows that nothing else
  blocks a manager.
* `StoppedByHolder` — a stop request reaches the measurement it names and no
  other, and it names one its client was told. It does not say that the client
  was told the right one: with datagrams it may be told another client's id and
  then stop that measurement, which `Ownership` excludes for TCP clients.
* `AllComplete` — see the table.

**Bounds.** `Goroutines` bounds how many goroutines can be alive; when all
names are taken, `Dispatch` waits, which a running system may also do, so the
bound removes no behaviour but overlaps of more handlers than there are names.
With TCP clients four suffice: a goroutine that rereads a connection per client,
one with the baton, and one that is free. Each datagram that is answered adds a
baton, and a request that overlaps with another takes two names, one for the
goroutine that rereads its connection and one for its handler. In
`control_overlap` and `control_channel_map` there is one datagram, hence two
batons and at most two requests in the server at a time, for which four names
are enough: two STOP handlers, and a START handler beside an INFO one, do meet.
The same holds of `control_mcast`, where the TCP client has one request at a
time. A fifth name would be taken by a request that its client sends again while
the first is still being served, having been sent an answer of another type, or
when a reader has yet to see that its connection is closed; `Dispatch` waits then
until a name is free. There are always two `MsmtIds`: one per client
that measures, or two for one client; a start that is served twice takes a second
id, which it finds when the other client has not started. `MaxInfo` is 1 in
`control_tcp` and 0 elsewhere: a second information request meets the same
state as the first. Two clients are enough for every property, each of which
relates at most two.

In the runs of the measurement plane `NumStreams` is two where workers of one
measurement race with each other, and one where measurements do: each property
relates two workers or two measurements. `MsmtTotalBytes` counts units, the
least a `Read` returns; two or three units over one or two streams give partial
reads, readings in between and, with three over two, a share that is rounded up.
`MaxInfo` is at most two readings, and the stop brings a last one. The runs of
two measurements have one unit each: what they ask is whose unit it is, not how
many there are. `Faulty` names the client that may be killed, from the moment it
waits for the start reply until that of the stop reply, and may lose the network
at any time. A server that has died of `TornAppend` is reached in
`throughput_streams`, one that has died of a truncated TLS record in
`throughput_mixed`, one that has died of a QUIC session in `throughput_udp`, one
that has run out of ports in `throughput_address`. There the count up to port
65535 is one step (`ListenFails`), taken at any time, and the endless search of a
TLS worker is no step at all.
`MaxInfo` is 0 in the two runs with liveness, `throughput_mixed` and
`throughput_address`, where no measurement is finished therefore: one more reading
makes them too large. What `ServerSurvives` and `OwnBytes` say of finished
measurements is in `throughput_streams` and `throughput_udp` and in the
theorems.

**Symmetry** over goroutines, clients of one protocol and ids is used for the
safety runs of the control plane.

**Deadlock** is not checked: when its clients are done the server waits in
accept for good, and a client may wait for good for a lost datagram.

**Fairness.** `FairSpec` assumes weak fairness of each goroutine and each
client process, which is what the Go scheduler and the operating system give.
It assumes nothing of the order in which clients are accepted, of kills, of
`ParseTorn` or of `ConcurrentMapAccess`. `AskInfo` and `AskStop` are two ways
of leaving the same place; since `MaxInfo` bounds the first, a fair client
stops in the end. In the code it is the deadline or the byte count that sees
to it (`mapago-client.go:496`, `518`).

In `Throughput` the same holds for workers, objects, client workers and
managers. `Deadline` and `AskInfo` are again two ways of leaving one place, and
the deadline timer does fire if nothing else happens. Nobody has to start a
measurement, to kill one, or to fault. A worker that spins (`"spin"`) runs, but
changes nothing any more.

**quic-go** is not in the repository. The model takes from it only the errors
the code names and when they come: `NO_ERROR` on a session that either side has
closed (after which every read returns it), the idle time-out on one where
nothing arrives, the handshake time-out for a client that was killed or lost the
network before its stream, and any other error of the stream's accept on a session
that has ended, the idle time-out of a client that is alive and has lost the
network among them. Whether such a client had got through its handshake is left
open. A stream is opened by its
first bytes, as the client's `OpenStreamSync` sends none.

`AllComplete` is checked with `KillPoints = {"read"}`. It does not hold with
two other points, and the model shows why: a client that dies after connecting
and before writing makes the acceptor return (`tcp.go:107-110`) and no client
is accepted any more; one that dies with its answer unread ends the server.
The safety run has both.

Every property of a passing run has a mutant: a definition of the form
`X_Something` beside `X` that makes the mistake its comment names.

## The proofs

### Control plane

`ControlPlane_proof` proves, from the assumptions named in `ControlNet` and
`ControlClient` (the constants are disjoint, `None` is none of them,
`MaxInfo` is a number):

* `TypeCorrect`: `Spec => []TypeOK`, whatever the clients. `TypeOK` is not
  inductive, because several steps read a variable that is only sometimes set:
  `Initialised` in `ControlPlaneInv` says when each is.
* `OneAtATime`: `TcpOnly /\ Spec => []SingleFlight`,
* `OwnAnswers`: `TcpOnly /\ Spec => []OwnReplies` and
* `AcceptorStays`: `TcpOnly /\ Spec => []AcceptorKept`, when every client uses
  TCP, for any number of clients, killed at any time.

The first two of these share the inductive invariant `TcpInv`. `SingleFlight`
needs to know that a reader on a connection that was read once never gets a
second request (`Connections`: a client with a request in flight or about to
write one is linked to a goroutine that reads for the first time). That holds
because a client only writes again on an answer of the wrong type, which
`OwnReplies` excludes. `OwnReplies` needs the answer under construction to be the
handler's own (`Answers`), which `SingleFlight` gives, and the handler's
request to be the one its connection's client waits on (`Requests`). When the
server process has ended, only what the clients can see still matters, hence
`up =>` in front of the last three. Each conjunct is named; the lemmas
`...Tcp` show that each action keeps them, `Alone` and `Calm` being the two
ways in which the baton is used.

`AcceptorKept` adds `KeptInv`: the acceptor is given up where a read finds the
end of a connection, so that the client's end must be known. `FirstReads` says
that a goroutine that waits for the first request of a connection is linked to
its client, which has had no answer; a client that has neither written nor been
answered closes only by dying.

`ControlPlaneMsmt_proof` is about the measurements. One theorem holds for any mix
of TCP, UDP and multicast clients:

* `HolderStops`: `Spec => []StoppedByHolder`. `HolderInv` follows a stop request
  from its client through the reader's buffer and the dispatch loop to a handler:
  it is copied, never changed (`RequestsCopied`), and its client does nothing
  meanwhile that would change its phase or its id (`StopKept`).

The others need all clients to use TCP (with a UDP client beside them
`RecvChIndexedByMsmtId`, for one, is violated, see `control_channel_map`); each is `TcpOnly /\ Spec => []P`:

* `OwnedByHolder` (`Ownership`), `AlwaysReachable` (`Reachable`),
  `ChannelsIndexed` (`RecvChIndexedByMsmtId`), `StartedOnce`
  (`OneMeasurementPerClient`) and `LivesThroughAll` (`ServerSurvives`).

They are conjuncts or consequences of one invariant, `MsmtInv`, on top of
`TcpInv`. It follows an id from `CheckInited` to the client: what a handler has
of the measurement at each of its steps (`Serving`: the storage is made once,
the reply in the channel is the one it waits for, the map entries are there when
the answer is built), what the client is then told (`Told`), when it has an id
(`Managed`), and that a request that has been read is not sent again and has not
been served before (`Arrived`, `Served`), which is what a second stop would need
to end the server. `ServerSurvives` is itself a part: `NoExit` goes through
every way the process can end and leaves `ReadReset`, whose client was killed
with an answer unread.

`ControlPlaneService_proof` proves `ImplementsService`:
`TcpOnly /\ Spec => ServiceSpec`. The steps of the server that start or stop
something are the service's because of `Arrived`; the answers because of `Told`,
`Served` and, for stops, `StoppedFirst` in `AnswerInv`: an answer to a stop is
only built when the measurement is closed. That a client fails only after the
server needs `AnsweredFirst`: a connection is not closed before its client has
the answer in its socket. `ControlService_proof` then proves of the service,
with `None` no client, `RunsWhileManaged` (from being told of it to asking for
its stop, a client's measurement runs), `NoneLeft` (a client that is done has
none running) and `FailureHasCause` (none fails unless one was killed).

### Measurement plane

`Throughput_proof` proves, from `ThroughputAssumption` (the modules'
measurements are disjoint, there is at least one stream, `None` is no port),
`ClientAssumption` and, for `FewPorts` only, `FiniteAssumption` (finitely many
measurements), for any number of measurements of any module:

* `TypeCorrect`: `Spec => []TypeOK`,
* `OwnPorts`: `Spec => []PortsAreOwn`,
* `FewPorts`: `Spec => []PortsSuffice`,
* `CountersGrow`: `Spec => ResultsGrow`, an action property,
* `Implements`: `Spec => ServiceSpec`.

All rest on `Invariance`, `Spec => []Inv`. None of the properties is inductive;
`Inv` in `ThroughputInv` has five parts, each shown kept by a lemma `...Step`
with a step per action:

* `TypeInv` adds to the types that an accepted connection has a client worker at
  its other end, which every read needs, and that nothing is under way or lost
  that was not sent.
* `PortInv`. The client holds a list of ports (`told`) that was copied from one
  (`usedPorts`) that was appended to from others (`slice`): `Lists` says the same
  of all three, each port that of a worker which has stored it, and none twice.
  That no port comes twice although two workers may append to the same old slice
  needs that two workers have different ports (`Exclusive`), that a worker's
  port is bound until `CloseConn` (`Bound`), and that workers only search before
  that (`Early`). `Tried` gives `FewPorts` by counting: a worker at port
  `7000 + n` has met `n` others, none of which looks further.
* `SessionInv` ties what the manager waits for to where the object is
  (`InStep`), and the client workers to the manager.
* `ConnInv`: connections lead to workers of the same measurement (`OwnPeers`),
  and after the loop of `CloseConn` no listening socket is left.
* `CountInv`: last report, gathered, counted, in this order for each stream.

`Implements` shows that `Init` maps to the service's and every step to a step of
it or a stutter: a worker's steps to `Receive` or nothing, the object's to
`Started`, `Answer`, `Stopped`, a client worker's to `Drop` or nothing, the
manager's to `Begin`, `Ask`, `Finish`, `AskStop`, `Return`, and each fault to
`Fail` or `Die`. `Quiet` and `Senders` are what makes `AskStop` the service's,
`CountInv` what makes the answers reports.

`MeasurementService_proof` proves of the service, and so of what implements it,
`NoneInvented` (nothing is reported that has not been received) and
`NobodySends` (from the stop request on no client worker connects or sends,
unless the module is abrupt).

`ThroughputBytes_proof` adds two invariants to `Inv`.

* `ServerOutlivesClients`: `Spec => []ServerSurvives`, from `EndInv`. The server
  ends on a truncated record, on a session without a stream, or where it is
  `Exposed`, so the proof has to know of the first two how each client's end came
  to be closed: killed workers are those of a dead or an abrupt client, or of one
  that is over (`Ends`, `CutOff`), a client that stops otherwise has closed all
  its workers (`Orderly`), and a QUIC client only closes when it is finished
  (`Finished`), that is, told of at least one byte (`ToldEnough`), which its one
  worker can only have counted after its stream was accepted (`Unread`). A worker
  of somebody else is only ever connected if it is a cut-off client's
  (`Strangers`, `Linked`), and what `CloseConn` closes is stored by then
  (`Stored`, `ClosedByServer`).
* `NothingLeft`: `Spec => []NothingLeftOpen`, from `EndInv` as well: a server's end
  that is open after a stop has a client's worker at the other end, its own, which
  `Quiet` knows to be closed, or a cut-off client's.
* `NoForeignBytes`: `Spec => []OwnBytes`, from `Balance`: what all workers of an
  undisturbed measurement have taken from the network, counted or not, is at most
  what has arrived from its own client. Each step moves one unit from one stream
  to another, so the proof is about sums. `SumTheorems` has what
  `SumFunction` does under a pointwise order or the change of one summand; where
  that takes an induction over a finite set, it takes a minimal counterexample
  instead, which is a first-order argument.
* `FinishedIsReceived`:
  `(\A m \in Msmts : Undisturbed(m)) /\ Spec => []FinishedMeansReceived`. The
  hypothesis is a condition on the constants: at most one measurement sends
  datagrams when it is a UDP one, and at most one is QUIC. Without it the property
  is false, see `throughput_late`.

TLC checked `TypeInv`, `HolderInv`, `TcpInv`, `KeptInv`,
`MsmtInv`, `AnswerInv`, `Inv`, `EndInv` and `Balance` as invariants before they
were proved.

Only model-checked: liveness (`AllComplete`, `StartAnswered`, `WorkersEnd`,
`MeasurementEnds`), since fairness and `ENABLED` are beyond the prover. Every
safety property, action property and refinement of a passing run is a theorem.

## Not modelled

* In the measurement plane: timestamps; the length of the managers' timers (a
  deadline may pass at any time, so it does not matter what resets a timer);
  certificates that do not load. A dial fails only for clients in `Faulty` while the
  server lives; other errors of an accept than a closed socket
  (`tcp-throughput/server.go:143`) do not occur: a process does not run out of
  file descriptors. No other program uses ports from 7000 up. Of a torn slice only the fault is
  modelled, no list with a wrong element.
* The inside of quic-go: see above.
* A TCP request split over two segments, see the hazard at `tcp.go:104`.
* A worker that has accepted leaves the listening socket open, as the code does;
  a second connection to it is never accepted. No client makes one.
* A datagram parsed while the reader overwrites it: the outcomes modelled are a
  parse of the old or of the new request, or a parse error (`ParseTorn`). A mix
  of two datagrams that is valid JSON by chance is left out.
* Sequence numbers and measurement ids are random. Two that collide are left
  out, for ids by the guard `owner[m] = None` of `StartModule`, which is an
  assumption and not in the code; the mutant `StartModule_Collides` shows that `Ownership` depends on it.
* UDP ping (no caller and no server), output and scripts, flag parsing.
