--------------------------- MODULE Throughput_proof ---------------------------
(***************************************************************************)
(* Proofs about the measurement plane, for any number of measurements of   *)
(* each module, of streams and of bytes.                                   *)
(***************************************************************************)
EXTENDS ThroughputInv, FiniteSetTheorems, TLAPS

-----------------------------------------------------------------------------
(* Data *)

LEMMA StreamType ==
  /\ \A s \in Stream : s[1] \in Msmts /\ s[2] \in 1..NumStreams /\ s = <<s[1], s[2]>>
  /\ \A m \in Msmts, i \in 1..NumStreams :
       <<m, i>> \in Stream /\ <<m, i>>[1] = m /\ <<m, i>>[2] = i
  /\ \A m \in Msmts : Streams(m) \subseteq Stream
  /\ \A m \in Msmts : \A s \in Streams(m) : s[1] = m
  /\ \A s \in Stream : s \in Streams(s[1])
BY DEF Stream, Streams

LEMMA NoneType == None \notin Nat /\ None \notin Stream
BY ThroughputAssumption

LEMMA ConstantType == NumStreams \in Nat /\ NumStreams >= 1 /\ StreamBytes \in Nat
BY ThroughputAssumption DEF StreamBytes

LEMMA ModuleType ==
  ASSUME NEW m \in Msmts
  PROVE  /\ m \in TcpMsmts => m \notin TlsMsmts /\ m \notin DatagramMsmts
         /\ m \in TlsMsmts => m \notin TcpMsmts /\ m \notin DatagramMsmts
         /\ m \in UdpMsmts => m \notin QuicMsmts /\ m \in DatagramMsmts
         /\ m \in QuicMsmts => m \notin UdpMsmts /\ m \in DatagramMsmts
BY ThroughputAssumption DEF Msmts, DatagramMsmts

-----------------------------------------------------------------------------
(* Types *)

\* Taking from what is under way keeps it below what was sent.
LEMMA LessInFlight ==
  ASSUME NEW F \in [Stream -> 0..StreamBytes], NEW S \in [Stream -> 0..StreamBytes],
         NEW L \in [Stream -> 0..StreamBytes], \A c \in Stream : F[c] + L[c] <= S[c],
         NEW c \in Stream, NEW n \in 1..F[c]
  PROVE  /\ [F EXCEPT ![c] = @ - n] \in [Stream -> 0..StreamBytes]
         /\ \A d \in Stream : [F EXCEPT ![c] = @ - n][d] + L[d] <= S[d]
<1>1. F[c] \in 0..StreamBytes /\ F[c] - n \in 0..StreamBytes /\ F[c] - n <= F[c]
  BY ConstantType
<1>2. S[c] \in 0..StreamBytes /\ L[c] \in 0..StreamBytes /\ F[c] + L[c] <= S[c]
  OBVIOUS
<1>3. F[c] - n + L[c] <= S[c]
  BY ONLY <1>1, <1>2, ConstantType
<1> QED BY <1>1, <1>3

LEMMA ExitType ==
  ASSUME TypeInv, Exit, UNCHANGED clientVars
  PROVE  TypeInv'
BY DEF TypeInv, TypeOK, NetTypeOK, ServerTypeOK, ClientTypeOK, Exit, serverVars,
       ports, conns, counters, clientVars

LEMMA FindPortType ==
  ASSUME TypeInv, NEW s \in Stream, FindPort(s), UNCHANGED clientVars
  PROVE  TypeInv'
<1> USE DEF TypeInv, TypeOK, NetTypeOK, ServerTypeOK, ClientTypeOK, Goto,
            ports, conns, counters, netVars, clientVars, WorkerPc
<1>1. s[1] \in Msmts
  BY StreamType
<1>2. CASE Listen(s)
  <2>1. port[s] \in Nat \cup {None} /\ port[s] + 1 \in Nat
    OBVIOUS
  <2>2. listening' \in [Stream -> Nat \cup {None}] /\ port' \in [Stream -> Nat]
    BY <1>2, <2>1 DEF Listen
  <2>3. wpc' = wpc \/ wpc' = [wpc EXCEPT ![s] = "load"]
    BY <1>2 DEF Listen
  <2>4. wpc' \in [Stream -> WorkerPc]
    BY <2>3
  <2> QED BY <1>2, <2>2, <2>4 DEF Listen
<1>3. CASE LoadPorts(s)
  BY <1>1, <1>3 DEF LoadPorts
<1>4. CASE StorePorts(s)
  <2>1. Append(slice[s], port[s]) \in Seq(Nat)
    OBVIOUS
  <2>2. usedPorts' \in [Msmts -> Seq(Nat)] /\ slice' \in [Stream -> Seq(Nat)]
    BY <1>1, <1>4, <2>1 DEF StorePorts
  <2>3. wpc' \in [Stream -> WorkerPc]
    BY <1>4 DEF StorePorts
  <2> QED BY <1>4, <2>2, <2>3 DEF StorePorts
<1>5. CASE TornAppend(s)
  BY <1>5, ExitType DEF TornAppend
<1>6. CASE ListenFails(s)
  BY <1>6, ExitType DEF ListenFails
<1> QED BY <1>2, <1>3, <1>4, <1>5, <1>6 DEF FindPort

LEMMA WorkerType ==
  ASSUME TypeInv, NEW s \in Stream, Worker(s), UNCHANGED clientVars
  PROVE  TypeInv'
<1> USE DEF TypeInv, TypeOK, NetTypeOK, ServerTypeOK, ClientTypeOK, Goto,
            ports, conns, counters, netVars, clientVars, WorkerPc
<1>0. /\ flight \in [Stream -> 0..StreamBytes] /\ sent \in [Stream -> 0..StreamBytes]
      /\ lost \in [Stream -> 0..StreamBytes]
      /\ \A c \in Stream : flight[c] + lost[c] <= sent[c]
  OBVIOUS
<1>1. CASE FindPort(s)
  BY <1>1, FindPortType
<1>2. CASE Accept(s)
  <2>1. Head(backlog[s]) \in Stream /\ Tail(backlog[s]) \in Seq(Stream)
    BY <1>2 DEF Accept
  <2> QED BY <1>2, <2>1, NoneType DEF Accept
<1>3. CASE AcceptClosed(s)
  BY <1>3 DEF AcceptClosed
<1>4. CASE StoreSock(s)
  BY <1>4 DEF StoreSock
<1>5. CASE Read(s)
  <2>1. PICK n \in 1..flight[peer[s]] :
          /\ flight' = [flight EXCEPT ![peer[s]] = @ - n]
          /\ got' = [got EXCEPT ![s] = n]
    BY <1>5 DEF Read
  <2>2. peer[s] \in Stream /\ flight[peer[s]] \in 0..StreamBytes
    BY <1>5 DEF Read
  <2>3. n \in 0..StreamBytes
    BY <2>2, ConstantType
  <2>4. /\ flight' \in [Stream -> 0..StreamBytes]
        /\ \A c \in Stream : flight'[c] + lost[c] <= sent[c]
    <3> DEFINE c == peer[s]
    <3>1. c \in Stream /\ n \in 1..flight[c] /\ flight' = [flight EXCEPT ![c] = @ - n]
      BY ONLY <2>1, <2>2
    <3> HIDE DEF c
    <3>2. /\ [flight EXCEPT ![c] = @ - n] \in [Stream -> 0..StreamBytes]
          /\ \A d \in Stream : [flight EXCEPT ![c] = @ - n][d] + lost[d] <= sent[d]
      BY ONLY <3>1, <1>0, LessInFlight
    <3> QED BY ONLY <3>1, <3>2
  <2>5. got' \in [Stream -> 0..StreamBytes]
    BY <2>1, <2>3
  <2>6. wpc' \in [Stream -> WorkerPc]
    BY <1>5 DEF Read
  <2> QED BY <1>5, <2>4, <2>5, <2>6 DEF Read
<1>6. CASE ReadFromUDP(s)
  <2>1. PICK c \in Stream :
          flight[c] > 0 /\ flight' = [flight EXCEPT ![c] = @ - 1]
    BY <1>6 DEF ReadFromUDP
  <2>2. 1 \in 1..flight[c] /\ 1 \in 0..StreamBytes
    BY SMTT(30), <2>1, ConstantType
  <2>3. /\ flight' \in [Stream -> 0..StreamBytes]
        /\ \A d \in Stream : flight'[d] + lost[d] <= sent[d]
    BY ONLY <2>1, <2>2, <1>0, LessInFlight
  <2>4. got' \in [Stream -> 0..StreamBytes]
    BY <1>6, <2>2 DEF ReadFromUDP
  <2>5. wpc' \in [Stream -> WorkerPc]
    BY <1>6 DEF ReadFromUDP
  <2> QED BY ZenonT(60), <1>6, <2>3, <2>4, <2>5 DEF ReadFromUDP
<1>7. CASE Count(s)
  <2>1. bytes[s] + got[s] \in Nat /\ 0 \in 0..StreamBytes
    BY ConstantType
  <2>2. bytes' \in [Stream -> Nat] /\ got' \in [Stream -> 0..StreamBytes]
    BY <1>7, <2>1 DEF Count
  <2>3. wpc' \in [Stream -> WorkerPc]
    BY <1>7 DEF Count
  <2> QED BY <1>7, <2>2, <2>3 DEF Count
<1>8. CASE ReadEOF(s) \/ ReadClosed(s) \/ ReadClosedUDP(s) \/ ReadIdle(s)
  BY ZenonT(60), <1>8 DEF ReadEOF, ReadClosed, ReadClosedUDP, ReadIdle
<1>9. CASE AcceptStream(s)
  BY <1>9 DEF AcceptStream
<1>10. CASE AcceptStreamTimeout(s)
  BY <1>10 DEF AcceptStreamTimeout
<1>11. CASE ReadNoError(s)
  BY <1>11 DEF ReadNoError
<1>12. CASE ReadTruncated(s) \/ ReadFails(s) \/ AcceptStreamFails(s)
  BY <1>12, ExitType DEF ReadTruncated, ReadFails, AcceptStreamFails
<1> QED BY <1>1, <1>2, <1>3, <1>4, <1>5, <1>6, <1>7, <1>8, <1>9, <1>10, <1>11, <1>12
        DEF Worker, tcpServerWorker, tcpTlsServerWorker, udpServerWorker,
            quicServerWorker

LEMMA CloseStreamType ==
  ASSUME TypeInv, NEW s \in Stream, UNCHANGED clientVars,
         CloseStreamTCP(s) \/ CloseStreamUDP(s) \/ CloseStreamQuic(s)
  PROVE  TypeInv'
<1> USE DEF TypeInv, TypeOK, NetTypeOK, ServerTypeOK, ClientTypeOK,
            ports, conns, counters, clientVars
<1>1. CASE CloseStreamTCP(s)
  <2>1. sock' = [sock EXCEPT ![s] = IF acceptSock[s] THEN "closed" ELSE @]
    BY <1>1 DEF CloseStreamTCP
  <2>2. /\ sock' \in [Stream -> {"none", "open", "closed"}]
        /\ \A t \in Stream : sock'[t] # "none" <=> sock[t] # "none"
    BY <2>1
  <2>3. /\ listening' = [listening EXCEPT ![s] = None]
        /\ backlog' = [backlog EXCEPT ![s] = <<>>]
    BY <1>1 DEF CloseStreamTCP
  <2>4. UNCHANGED <<opc, wpc, ports, peer, acceptSock, counters, data, up, csock,
                    flight, lost, told, result>>
    BY <1>1 DEF CloseStreamTCP
  <2>5. NetTypeOK'
    BY <2>3, <2>4
  <2>6. ServerTypeOK'
    BY <2>2, <2>4
  <2> QED BY <2>2, <2>4, <2>5, <2>6
<1>2. CASE CloseStreamUDP(s)
  BY <1>2 DEF CloseStreamUDP
<1>3. CASE CloseStreamQuic(s)
  <2>1. sock' = [sock EXCEPT ![s] = IF @ = "open" THEN "closed" ELSE @]
    BY <1>3 DEF CloseStreamQuic
  <2>2. /\ sock' \in [Stream -> {"none", "open", "closed"}]
        /\ \A t \in Stream : sock'[t] # "none" <=> sock[t] # "none"
    BY <2>1
  <2>3. /\ listening' = [listening EXCEPT ![s] = None]
        /\ backlog' = [backlog EXCEPT ![s] = <<>>]
    BY <1>3 DEF CloseStreamQuic
  <2>4. UNCHANGED <<opc, wpc, ports, peer, acceptSock, counters, data, up, csock,
                    flight, lost, told, result>>
    BY <1>3 DEF CloseStreamQuic
  <2>5. NetTypeOK'
    BY <2>3, <2>4
  <2>6. ServerTypeOK'
    BY <2>2, <2>4
  <2> QED BY <2>2, <2>4, <2>5, <2>6
<1> QED BY <1>1, <1>2, <1>3

LEMMA ObjectType ==
  ASSUME TypeInv, NEW m \in Msmts, New(m) \/ Object(m), UNCHANGED clientVars
  PROVE  TypeInv'
<1> USE DEF TypeInv, TypeOK, NetTypeOK, ServerTypeOK, ClientTypeOK, Goto, Become,
            ports, conns, counters, netVars, clientVars, WorkerPc, ObjectPc
<1>1. CASE New(m)
  BY <1>1 DEF New
<1>2. CASE StartWorker(m)
  <2>1. PICK i \in 1..NumStreams :
          /\ wpc' = [wpc EXCEPT ![<<m, i>>] = "listen"]
          /\ opc' = [opc EXCEPT ![m] = IF i = NumStreams THEN "wait" ELSE "make"]
          /\ UNCHANGED <<ports, conns, counters, data, netVars>>
    BY <1>2 DEF StartWorker
  <2> QED BY <2>1
<1>3. CASE ReplyPorts(m)
  BY <1>3 DEF ReplyPorts
<1>4. CASE Closed(m)
  BY <1>4 DEF Closed
<1>5. CASE ReadCounter(m)
  <2>1. Len(data[m]) + 1 \in 1..NumStreams
    BY <1>5, ConstantType DEF ReadCounter
  <2>2. bytes[<<m, Len(data[m]) + 1>>] \in Nat
    BY <2>1, StreamType
  <2>3. Append(data[m], bytes[<<m, Len(data[m]) + 1>>]) \in Seq(Nat)
    BY <2>2
  <2> QED BY <1>5, <2>3 DEF ReadCounter
<1>6. CASE GetMsmtInfo(m) \/ CloseConn(m)
  <2>1. result' = [result EXCEPT ![m] = data[m]] /\ data' = [data EXCEPT ![m] = <<>>]
    BY <1>6 DEF GetMsmtInfo, CloseConn, ReplyWith
  <2>2. result' \in [Msmts -> Seq(Nat)] /\ data' \in [Msmts -> Seq(Nat)]
    BY <2>1
  <2>3. opc' \in [Msmts -> ObjectPc]
    BY <1>6 DEF GetMsmtInfo, CloseConn
  <2>4. UNCHANGED <<wpc, ports, conns, counters, up, listening, backlog, csock, flight,
                    lost, told>>
    BY <1>6 DEF GetMsmtInfo, CloseConn, ReplyWith
  <2> QED BY <2>2, <2>3, <2>4
<1>7. ASSUME NEW s \in Stream, Heartbeat(s) PROVE TypeInv'
  <2>1. \/ wpc' = [wpc EXCEPT ![s] = "read"]
        \/ wpc' = [wpc EXCEPT ![s] = "accept"]
    BY <1>7 DEF Heartbeat
  <2> QED BY <1>7, <2>1 DEF Heartbeat
<1>8. Streams(m) \subseteq Stream
  BY StreamType
<1> QED BY <1>1, <1>2, <1>3, <1>4, <1>5, <1>6, <1>7, <1>8, CloseStreamType DEF Object

LEMMA ClientWorkerType ==
  ASSUME TypeInv, NEW c \in Stream, ClientWorker(c)
  PROVE  TypeInv'
<1> USE DEF TypeInv, TypeOK, NetTypeOK, ServerTypeOK, ClientTypeOK, SockTo,
            clientVars, serverVars, ports, conns, counters
<1>1. CASE Dial(c)
  <2>1. PICK s \in Stream : backlog' = [backlog EXCEPT ![s] = Append(@, c)]
    BY <1>1 DEF Dial, Listener
  <2>2. Append(backlog[s], c) \in Seq(Stream)
    OBVIOUS
  <2>3. backlog' \in [Stream -> Seq(Stream)]
    BY <2>1, <2>2
  <2>4. csock' = [csock EXCEPT ![c] = "open"] \/ csock' = [csock EXCEPT ![c] = "handshake"]
    BY <1>1 DEF Dial
  <2> QED BY <1>1, <2>3, <2>4 DEF Dial
<1>2. CASE Write(c)
  <2>1. flight[c] + 1 \in 0..StreamBytes /\ sent[c] + 1 \in 0..StreamBytes
    BY <1>2, ConstantType DEF Write
  <2>2. flight[c] + 1 + lost[c] <= sent[c] + 1
    BY ConstantType
  <2> QED BY <1>2, <2>1, <2>2 DEF Write
<1>3. CASE Handshake(c)
  BY <1>3 DEF Handshake
<1>4. CASE HandshakeQuic(c)
  BY <1>4 DEF HandshakeQuic
<1>5. CASE DialUDP(c)
  BY <1>5 DEF DialUDP
<1>6. CASE DialFails(c)
  BY <1>6 DEF DialFails
<1>7. CASE Leave(c)
  BY <1>7 DEF Leave
<1>8. CASE LeaveIdle(c)
  BY <1>8 DEF LeaveIdle
<1>9. CASE Close(c)
  BY <1>9 DEF Close
<1> QED BY <1>1, <1>2, <1>3, <1>4, <1>5, <1>6, <1>7, <1>8, <1>9 DEF ClientWorker

LEMMA EndClientType ==
  ASSUME TypeInv, NEW m \in Msmts, NEW label \in {"over", "dead"}, EndClient(m, label)
  PROVE  TypeInv'
<1>1. csock' \in [Stream -> {"none", "dial", "handshake", "open", "closed",
                             "left", "killed"}]
  BY DEF TypeInv, TypeOK, NetTypeOK, EndClient
<1> QED BY <1>1 DEF TypeInv, TypeOK, NetTypeOK, ServerTypeOK, ClientTypeOK, Manage,
                EndClient, serverVars, ports, conns, counters

LEMMA ManagerType ==
  ASSUME TypeInv, NEW m \in Msmts, Manager(m) \/ Kill(m)
  PROVE  TypeInv'
<1> USE DEF TypeInv, TypeOK, NetTypeOK, ServerTypeOK, ClientTypeOK, Manage, Become,
            serverVars, netVars, ports, conns, counters, ObjectPc
<1>1. CASE NewMsmtClient(m)
  <2>1. csock' \in [Stream -> {"none", "dial", "handshake", "open", "closed",
                               "left", "killed"}]
    BY <1>1 DEF NewMsmtClient
  <2> QED BY <1>1, <2>1 DEF NewMsmtClient
<1>2. CASE ExitClient(m) \/ Return(m) \/ Kill(m)
  BY <1>2, EndClientType DEF ExitClient, Return, Kill
<1>3. CASE AskInfo(m)
  <2>1. infos[m] + 1 \in 0..MaxInfo
    BY <1>3, ClientAssumption DEF AskInfo
  <2> QED BY <1>3, <2>1 DEF AskInfo
<1>4. CASE Finish(m)
  BY <1>4 DEF Finish
<1>5. CASE Deadline(m)
  BY <1>5 DEF Deadline
<1>6. CASE AskStop(m)
  BY <1>6 DEF AskStop
<1>7. CASE DeadlineQuic(m)
  BY <1>7 DEF DeadlineQuic
<1> QED BY <1>1, <1>2, <1>3, <1>4, <1>5, <1>6, <1>7
        DEF Manager, manageTcpMsmt, manageTcpTlsMsmt, manageUdpMsmt, manageQuicMsmt

LEMMA TypeStep ==
  ASSUME TypeInv, [Next]_vars
  PROVE  TypeInv'
<1>1. CASE UNCHANGED vars
  BY <1>1 DEF vars, TypeInv, TypeOK, NetTypeOK, ServerTypeOK, ClientTypeOK, netVars,
              serverVars, clientVars, ports, conns, counters
<1>2. ASSUME NEW c \in Stream, Lose(c), UNCHANGED <<serverVars, clientVars>>
      PROVE  TypeInv'
  <2>1. /\ flight[c] > 0 /\ flight' = [flight EXCEPT ![c] = @ - 1]
        /\ lost' = [lost EXCEPT ![c] = @ + 1] /\ UNCHANGED sent
    BY <1>2 DEF Lose, clientVars
  <2>2. /\ flight \in [Stream -> 0..StreamBytes] /\ sent \in [Stream -> 0..StreamBytes]
        /\ lost \in [Stream -> 0..StreamBytes]
        /\ \A d \in Stream : flight[d] + lost[d] <= sent[d]
    BY DEF TypeInv, TypeOK, NetTypeOK, ClientTypeOK
  <2>3. /\ flight[c] - 1 \in 0..StreamBytes /\ lost[c] + 1 \in 0..StreamBytes
        /\ flight[c] - 1 + (lost[c] + 1) <= sent[c]
    BY <2>1, <2>2, ConstantType
  <2>4. /\ flight' \in [Stream -> 0..StreamBytes] /\ lost' \in [Stream -> 0..StreamBytes]
        /\ \A d \in Stream : flight'[d] + lost'[d] <= sent'[d]
    BY <2>1, <2>2, <2>3
  <2> QED BY <1>2, <2>4 DEF Lose, TypeInv, TypeOK, NetTypeOK, ServerTypeOK,
             ClientTypeOK, serverVars, clientVars, ports, conns, counters
<1> QED BY <1>1, <1>2, ObjectType, WorkerType, ClientWorkerType, ManagerType
        DEF Next, ServerNext, ClientNext, Object

-----------------------------------------------------------------------------
(* Ports *)

\* What concerns ports: Next but for five kinds of steps is one of these.
portVars == <<opc, wpc, ports, listening, told>>

WorkerMoves(s) ==
  /\ wpc[s] \notin Beginning
  /\ \E l \in WorkerPc \ Beginning : wpc' = [wpc EXCEPT ![s] = l]
  /\ UNCHANGED <<opc, ports, listening, told>>

SocketCloses(s) ==
  /\ opc[s[1]] = "closing" /\ listening' = [listening EXCEPT ![s] = None]
  /\ UNCHANGED <<opc, wpc, ports, told>>

ObjectMoves(m) ==
  /\ opc[m] \notin {"none", "make", "wait"}
  /\ \E l \in ObjectPc \ {"none", "make", "wait"} :
       /\ l \in {"running", "info"} => opc[m] \in {"running", "info"}
       /\ opc' = [opc EXCEPT ![m] = l]
  /\ UNCHANGED <<wpc, ports, listening, told>>

LEMMA PortSteps ==
  ASSUME TypeInv, [Next]_vars
  PROVE  \/ UNCHANGED portVars
         \/ \E m \in Msmts :
              New(m) \/ StartWorker(m) \/ ReplyPorts(m) \/ ObjectMoves(m)
         \/ \E s \in Stream :
              \/ Heartbeat(s) \/ Listen(s) \/ LoadPorts(s) \/ StorePorts(s)
              \/ WorkerMoves(s) \/ SocketCloses(s)
<1> USE DEF portVars, netVars, serverVars, ports, conns, counters, Exit
<1>1. CASE UNCHANGED vars
  BY <1>1 DEF vars
<1>2. ASSUME NEW c \in Stream, Lose(c), UNCHANGED <<serverVars, clientVars>>
      PROVE  UNCHANGED portVars
  BY <1>2 DEF Lose
<1>3. ASSUME NEW m \in Msmts, Object(m)
      PROVE  \/ UNCHANGED portVars
             \/ StartWorker(m) \/ ReplyPorts(m) \/ ObjectMoves(m)
             \/ \E s \in Stream : Heartbeat(s) \/ SocketCloses(s)
  <2>1. CASE Closed(m) \/ GetMsmtInfo(m) \/ CloseConn(m)
    BY <2>1 DEF Closed, GetMsmtInfo, CloseConn, ReplyWith, Become, ObjectMoves, ObjectPc
  <2>2. CASE ReadCounter(m)
    BY <2>2 DEF ReadCounter
  <2>3. ASSUME NEW s \in Stream,
               CloseStreamTCP(s) \/ CloseStreamUDP(s) \/ CloseStreamQuic(s)
        PROVE  SocketCloses(s)
    BY <2>3 DEF CloseStreamTCP, CloseStreamUDP, CloseStreamQuic, SocketCloses
  <2>4. Streams(m) \subseteq Stream
    BY StreamType
  <2> QED BY <1>3, <2>1, <2>2, <2>3, <2>4 DEF Object
<1>4. ASSUME NEW s \in Stream, Worker(s)
      PROVE  \/ UNCHANGED portVars
             \/ Listen(s) \/ LoadPorts(s) \/ StorePorts(s) \/ WorkerMoves(s)
  <2> USE DEF WorkerMoves, Beginning, WorkerPc, Goto
  <2>1. CASE FindPort(s)
    BY <2>1 DEF FindPort, ListenFails, TornAppend
  <2>2. CASE Accept(s)
    BY <2>2 DEF Accept
  <2>3. CASE AcceptClosed(s) \/ StoreSock(s)
    BY <2>3 DEF AcceptClosed, StoreSock
  <2>4. CASE Read(s) \/ ReadFromUDP(s)
    BY <2>4 DEF Read, ReadFromUDP
  <2>5. CASE Count(s)
    BY <2>5 DEF Count
  <2>6. CASE ReadEOF(s) \/ ReadClosed(s) \/ ReadClosedUDP(s) \/ ReadIdle(s)
    BY <2>6 DEF ReadEOF, ReadClosed, ReadClosedUDP, ReadIdle
  <2>7. CASE AcceptStream(s) \/ AcceptStreamTimeout(s) \/ ReadNoError(s)
    BY <2>7 DEF AcceptStream, AcceptStreamTimeout, ReadNoError
  <2>8. CASE ReadTruncated(s) \/ ReadFails(s) \/ AcceptStreamFails(s)
    BY <2>8 DEF ReadTruncated, ReadFails, AcceptStreamFails
  <2> QED BY <1>4, <2>1, <2>2, <2>3, <2>4, <2>5, <2>6, <2>7, <2>8
          DEF Worker, tcpServerWorker, tcpTlsServerWorker, udpServerWorker,
              quicServerWorker
<1>5. ASSUME NEW c \in Stream, ClientWorker(c)
      PROVE  UNCHANGED portVars
  BY <1>5 DEF ClientWorker, Dial, Handshake, HandshakeQuic, DialUDP, DialFails, Write,
              Leave, LeaveIdle, Close
<1>6. ASSUME NEW m \in Msmts, Manager(m) \/ Kill(m)
      PROVE  UNCHANGED portVars \/ ObjectMoves(m)
  <2>1. CASE AskInfo(m) \/ AskStop(m) \/ DeadlineQuic(m)
    BY <2>1 DEF AskInfo, AskStop, DeadlineQuic, Become, ObjectMoves, ObjectPc
  <2>2. CASE NewMsmtClient(m) \/ Finish(m) \/ Deadline(m)
    BY <2>2 DEF NewMsmtClient, Finish, Deadline
  <2>3. CASE ExitClient(m) \/ Return(m) \/ Kill(m)
    BY <2>3 DEF ExitClient, Return, Kill, EndClient
  <2> QED BY <1>6, <2>1, <2>2, <2>3
          DEF Manager, manageTcpMsmt, manageTcpTlsMsmt, manageUdpMsmt, manageQuicMsmt
<1> QED BY <1>1, <1>2, <1>3, <1>4, <1>5, <1>6 DEF Next, ServerNext, ClientNext

LEMMA PortTypes ==
  ASSUME TypeInv
  PROVE  /\ opc \in [Msmts -> ObjectPc] /\ wpc \in [Stream -> WorkerPc]
         /\ port \in [Stream -> Nat] /\ slice \in [Stream -> Seq(Nat)]
         /\ usedPorts \in [Msmts -> Seq(Nat)] /\ told \in [Msmts -> Seq(Nat)]
         /\ listening \in [Stream -> Nat \cup {None}]
BY DEF TypeInv, TypeOK, NetTypeOK, ServerTypeOK

\* A worker that has found its port does not search again.
LEMMA KeepsPort ==
  ASSUME TypeInv, [Next]_vars
  PROVE  \A s \in Stream :
           /\ wpc[s] \notin {"none", "listen"} =>
                port'[s] = port[s] /\ wpc'[s] \notin {"none", "listen"}
           /\ wpc[s] \notin Searching => wpc'[s] \notin Searching
<1> USE PortTypes
<1>1. CASE UNCHANGED portVars
  BY <1>1 DEF portVars, ports
<1>2. ASSUME NEW m \in Msmts,
             New(m) \/ ReplyPorts(m) \/ ObjectMoves(m)
      PROVE  UNCHANGED <<port, wpc>>
  BY <1>2 DEF New, ReplyPorts, ObjectMoves, ports
<1>3. ASSUME NEW m \in Msmts, StartWorker(m)
      PROVE  /\ UNCHANGED port
             /\ \E s \in Stream : wpc[s] = "none" /\ wpc' = [wpc EXCEPT ![s] = "listen"]
  BY <1>3, StreamType DEF StartWorker, Goto, ports
<1>4. ASSUME NEW s \in Stream, Listen(s)
      PROVE  /\ \A t \in Stream \ {s} : port'[t] = port[t]
             /\ wpc[s] = "listen" /\ (wpc' = wpc \/ wpc' = [wpc EXCEPT ![s] = "load"])
  BY <1>4 DEF Listen, Goto
<1>5. ASSUME NEW s \in Stream,
             Heartbeat(s) \/ LoadPorts(s) \/ StorePorts(s)
      PROVE  /\ UNCHANGED port
             /\ \E l \in {"store", "beat", "read", "accept"} :
                  wpc' = [wpc EXCEPT ![s] = l] /\ (wpc[s] = "load" \/ l # "store")
  BY <1>5 DEF Heartbeat, LoadPorts, StorePorts, Goto, ports
<1>6. ASSUME NEW s \in Stream, WorkerMoves(s) \/ SocketCloses(s)
      PROVE  /\ UNCHANGED port
             /\ wpc' = wpc \/ \E l \in WorkerPc \ Beginning : wpc' = [wpc EXCEPT ![s] = l]
  BY <1>6 DEF WorkerMoves, SocketCloses, ports
<1> QED BY PortSteps, <1>1, <1>2, <1>3, <1>4, <1>5, <1>6 DEF Searching, Beginning

LEMMA ExclusiveStep ==
  ASSUME TypeInv, Exclusive, [Next]_vars
  PROVE  Exclusive'
<1> USE PortTypes DEF Exclusive
<1>1. ASSUME NEW s \in Stream, Listen(s), listening' # listening
      PROVE  Exclusive'
  <2>1. /\ listening' = [listening EXCEPT ![s] = port[s]]
        /\ \A t \in Stream : SameNetwork(s[1], t[1]) => listening[t] # port[s]
    BY <1>1 DEF Listen, Taken
  <2> QED BY <2>1 DEF SameNetwork
<1>2. ASSUME NEW s \in Stream, SocketCloses(s)
      PROVE  Exclusive'
  BY <1>2 DEF SocketCloses
<1>3. UNCHANGED listening => Exclusive'
  OBVIOUS
<1>4. ASSUME NEW m \in Msmts,
             New(m) \/ StartWorker(m) \/ ReplyPorts(m) \/ ObjectMoves(m)
      PROVE  UNCHANGED listening
  BY <1>4 DEF New, StartWorker, ReplyPorts, ObjectMoves, netVars
<1>5. ASSUME NEW s \in Stream,
             Heartbeat(s) \/ LoadPorts(s) \/ StorePorts(s) \/ WorkerMoves(s)
      PROVE  UNCHANGED listening
  BY <1>5 DEF Heartbeat, LoadPorts, StorePorts, WorkerMoves, netVars
<1> QED BY PortSteps, <1>1, <1>2, <1>3, <1>4, <1>5 DEF portVars

LEMMA EarlyStep ==
  ASSUME TypeInv, Early, [Next]_vars
  PROVE  Early'
<1> USE PortTypes DEF Early, Beginning
<1>1. CASE UNCHANGED portVars
  BY <1>1 DEF portVars, ports
<1>2. ASSUME NEW m \in Msmts, New(m) \/ ReplyPorts(m) PROVE Early'
  <2>1. CASE New(m)
    BY <2>1 DEF New, Become
  <2>2. CASE ReplyPorts(m)
    BY <2>2, StreamType DEF ReplyPorts, Become
  <2> QED BY <1>2, <2>1, <2>2
<1>3. ASSUME NEW m \in Msmts, StartWorker(m) PROVE Early'
  <2>1. PICK i \in 1..NumStreams :
          /\ opc[m] = "make" /\ wpc' = [wpc EXCEPT ![<<m, i>>] = "listen"]
          /\ opc' = [opc EXCEPT ![m] = IF i = NumStreams THEN "wait" ELSE "make"]
    BY <1>3 DEF StartWorker, Goto, Become
  <2> QED BY <2>1, StreamType
<1>4. ASSUME NEW m \in Msmts, ObjectMoves(m) PROVE Early'
  BY <1>4 DEF ObjectMoves
<1>5. ASSUME NEW s \in Stream, Listen(s) \/ LoadPorts(s) \/ StorePorts(s)
      PROVE  Early'
  BY <1>5 DEF Listen, LoadPorts, StorePorts, Goto
<1>6. ASSUME NEW s \in Stream, Heartbeat(s) PROVE Early'
  BY <1>6 DEF Heartbeat, Goto
<1>7. ASSUME NEW s \in Stream, WorkerMoves(s) \/ SocketCloses(s) PROVE Early'
  <2>1. CASE WorkerMoves(s)
    <3>1. wpc[s] # "none" /\ UNCHANGED opc
      BY <2>1 DEF WorkerMoves
    <3>2. PICK l \in WorkerPc \ Beginning : wpc' = [wpc EXCEPT ![s] = l]
      BY <2>1 DEF WorkerMoves
    <3> QED BY <3>1, <3>2
  <2>2. CASE SocketCloses(s)
    BY <2>2 DEF SocketCloses
  <2> QED BY <1>7, <2>1, <2>2
<1> QED BY PortSteps, <1>1, <1>2, <1>3, <1>4, <1>5, <1>6, <1>7

LEMMA BoundStep ==
  ASSUME TypeInv, Early, Bound, [Next]_vars
  PROVE  Bound'
<1> USE PortTypes, NoneType DEF Bound, Open
<1>1. CASE UNCHANGED portVars
  BY <1>1 DEF portVars, ports
<1>2. ASSUME NEW m \in Msmts, New(m) \/ ReplyPorts(m) PROVE Bound'
  <2>1. CASE New(m)
    BY <2>1 DEF New, Become, Early, ports, netVars
  <2>2. CASE ReplyPorts(m)
    BY <2>2 DEF ReplyPorts, Become, ports
  <2> QED BY <1>2, <2>1, <2>2
<1>3. ASSUME NEW m \in Msmts, StartWorker(m) PROVE Bound'
  <2>1. PICK i \in 1..NumStreams :
          /\ opc[m] = "make" /\ wpc[<<m, i>>] = "none"
          /\ wpc' = [wpc EXCEPT ![<<m, i>>] = "listen"]
          /\ opc' = [opc EXCEPT ![m] = IF i = NumStreams THEN "wait" ELSE "make"]
          /\ UNCHANGED <<port, listening>>
    BY <1>3 DEF StartWorker, Goto, Become, ports, netVars
  <2>2. \A s \in Stream : wpc'[s] \notin {"none", "listen"} => wpc[s] = wpc'[s]
    BY <2>1
  <2>3. \A s \in Stream : wpc[s] \notin {"none", "listen"} => wpc[s] = wpc'[s]
    BY <2>1
  <2>4. \A s \in Stream : opc'[s[1]] = opc[s[1]] \/ opc[s[1]] = "make"
    BY <2>1
  <2> QED BY <2>1, <2>2, <2>3, <2>4
<1>4. ASSUME NEW m \in Msmts, ObjectMoves(m) PROVE Bound'
  BY <1>4 DEF ObjectMoves, ports
<1>5. ASSUME NEW s \in Stream, Listen(s) PROVE Bound'
  <2>1. UNCHANGED opc
    BY <1>5 DEF Listen
  <2>2. CASE /\ listening' = [listening EXCEPT ![s] = port[s]] /\ UNCHANGED port
             /\ wpc' = [wpc EXCEPT ![s] = "load"]
    BY <2>1, <2>2
  <2>3. CASE /\ port' = [port EXCEPT ![s] = @ + 1] /\ UNCHANGED <<listening, wpc>>
             /\ wpc[s] = "listen"
    BY <2>1, <2>3
  <2> QED BY <1>5, <2>2, <2>3 DEF Listen, Goto
<1>6. ASSUME NEW s \in Stream, LoadPorts(s) \/ StorePorts(s) \/ Heartbeat(s)
      PROVE  Bound'
  <2>1. /\ UNCHANGED <<opc, port, listening>> /\ wpc[s] \notin {"none", "listen"}
        /\ \E l \in WorkerPc \ {"none", "listen"} : wpc' = [wpc EXCEPT ![s] = l]
    BY <1>6 DEF LoadPorts, StorePorts, Heartbeat, Goto, ports, netVars, WorkerPc
  <2> QED BY <2>1
<1>7. ASSUME NEW s \in Stream, WorkerMoves(s) PROVE Bound'
  <2>1. /\ UNCHANGED <<opc, port, listening>> /\ wpc[s] \notin {"none", "listen"}
        /\ \E l \in WorkerPc \ {"none", "listen"} : wpc' = [wpc EXCEPT ![s] = l]
    BY <1>7 DEF WorkerMoves, Beginning, ports
  <2> QED BY <2>1
<1>8. ASSUME NEW s \in Stream, SocketCloses(s) PROVE Bound'
  BY <1>8, StreamType DEF SocketCloses, ports
<1> QED BY PortSteps, <1>1, <1>2, <1>3, <1>4, <1>5, <1>6, <1>7, <1>8

\* A list of ports stays one.
LEMMA ListKept ==
  ASSUME TypeInv, [Next]_vars, NEW m \in Msmts, NEW list \in Seq(Nat), PortList(m, list)
  PROVE  PortList(m, list)'
BY KeepsPort DEF PortList, Searching

LEMMA ListsStep ==
  ASSUME TypeInv, PortInv, [Next]_vars
  PROVE  Lists'
<1> USE PortTypes
<1> DEFINE Kept(m, list) == \/ list = usedPorts[m] \/ list = told[m] \/ list = <<>>
                            \/ \E s \in Stream : s[1] = m /\ list = slice[s]
<1>1. \A m \in Msmts : \A list \in Seq(Nat) : Kept(m, list) => PortList(m, list)'
  <2>1. SUFFICES ASSUME NEW m \in Msmts, NEW list \in Seq(Nat), Kept(m, list)
                 PROVE  PortList(m, list)
    BY ListKept
  <2>2. PortList(m, <<>>)
    BY DEF PortList
  <2> QED BY <2>1, <2>2 DEF PortInv, Lists
<1>2. ASSUME UNCHANGED <<slice, usedPorts, told>> PROVE Lists'
  BY <1>1, <1>2, StreamType DEF Lists
<1>3. ASSUME NEW m \in Msmts, ReplyPorts(m) PROVE Lists'
  BY <1>1, <1>3, StreamType DEF ReplyPorts, Lists, ports
<1>4. ASSUME NEW s \in Stream, LoadPorts(s) PROVE Lists'
  <2>1. /\ slice' = [slice EXCEPT ![s] = usedPorts[s[1]]]
        /\ UNCHANGED <<usedPorts, told>>
    BY <1>4 DEF LoadPorts, netVars
  <2>2. \A t \in Stream : Kept(t[1], slice'[t]) /\ slice'[t] \in Seq(Nat)
    BY <2>1, StreamType
  <2> QED BY <1>1, <2>1, <2>2, StreamType DEF Lists
<1>5. ASSUME NEW s \in Stream, StorePorts(s) PROVE Lists'
  <2> DEFINE m == s[1]
  <2>1. PICK old \in Seq(Nat), new \in Seq(Nat) :
          old = slice[s] /\ new = Append(old, port[s])
    <3>1. slice[s] \in Seq(Nat) /\ Append(slice[s], port[s]) \in Seq(Nat)
      OBVIOUS
    <3> QED BY <3>1
  <2>2. /\ usedPorts' = [usedPorts EXCEPT ![m] = new]
        /\ slice' = [slice EXCEPT ![s] = <<>>]
        /\ wpc[s] = "store" /\ wpc' = [wpc EXCEPT ![s] = "beat"]
        /\ UNCHANGED <<opc, port, told>>
    BY <1>5, <2>1 DEF StorePorts, Goto, netVars
  <2>8. /\ \A i \in DOMAIN old :
             \E t \in Stream : t[1] = m /\ wpc[t] \notin Searching /\ port[t] = old[i]
        /\ \A i, j \in DOMAIN old : old[i] = old[j] => i = j
    BY <2>1 DEF PortInv, Lists, PortList
  <2>9. m \in Msmts
    BY StreamType
  <2>3. \A t \in Stream : t[1] = m /\ wpc[t] \notin Searching => port[t] # port[s]
    <3>1. SUFFICES ASSUME NEW t \in Stream, t[1] = m, wpc[t] \notin Searching
                   PROVE  port[t] # port[s]
      OBVIOUS
    <3>2. Open(m) /\ t # s /\ wpc[t] \notin {"none", "listen"}
      BY <2>2, <3>1 DEF PortInv, Early, Open, Searching, Beginning
    <3>3. /\ listening[t] # None /\ listening[t] = port[t]
          /\ listening[s] # None /\ listening[s] = port[s]
      BY <2>2, <3>1, <3>2 DEF PortInv, Bound
    <3>4. SameNetwork(t[1], s[1])
      BY <3>1 DEF SameNetwork
    <3> QED BY <3>2, <3>3, <3>4 DEF PortInv, Exclusive
  <2>4. PortList(m, new)'
    <3>1. /\ DOMAIN old = 1..Len(old) /\ Len(old) \in Nat
          /\ DOMAIN new = 1..(Len(old) + 1) /\ new[Len(old) + 1] = port[s]
          /\ \A i \in 1..Len(old) : new[i] = old[i]
      BY <2>1
    <3>3. \A i \in DOMAIN old : old[i] # port[s]
      <4>1. SUFFICES ASSUME NEW i \in DOMAIN old PROVE old[i] # port[s]
        OBVIOUS
      <4>2. PICK t \in Stream : t[1] = m /\ wpc[t] \notin Searching /\ port[t] = old[i]
        BY <2>8
      <4> QED BY <2>3, <4>2
    <3>4. s[1] = m /\ wpc'[s] \notin Searching /\ port'[s] = port[s]
      BY <2>2 DEF Searching
    <3>5. ASSUME NEW i \in DOMAIN new
          PROVE  \E t \in Stream : t[1] = m /\ wpc'[t] \notin Searching /\ port'[t] = new[i]
      <4>1. i = Len(old) + 1 => new[i] = port[s]
        BY <3>1
      <4>2. i # Len(old) + 1 => i \in DOMAIN old /\ new[i] = old[i]
        BY <3>1
      <4>3. CASE i = Len(old) + 1
        BY <3>4, <4>1, <4>3
      <4>4. CASE i # Len(old) + 1
        <5>1. PICK t \in Stream : t[1] = m /\ wpc[t] \notin Searching /\ port[t] = old[i]
          BY <2>8, <4>2, <4>4
        <5>2. wpc'[t] \notin Searching /\ port'[t] = port[t]
          BY <2>2, <5>1 DEF Searching
        <5> QED BY <4>2, <4>4, <5>1, <5>2
      <4> QED BY <4>3, <4>4
    <3>6. ASSUME NEW i \in DOMAIN new, NEW j \in DOMAIN new, new[i] = new[j]
          PROVE  i = j
      <4>1. \A k \in DOMAIN new : k \in 1..Len(old) \/ k = Len(old) + 1
        BY <3>1
      <4>2. \A k, l \in 1..Len(old) : old[k] = old[l] => k = l
        BY <2>8, <3>1
      <4> QED BY <3>1, <3>3, <3>6, <4>1, <4>2
    <3> QED BY <3>5, <3>6 DEF PortList
  <2>5. \A t \in Stream : PortList(t[1], slice[t])'
    <3>1. SUFFICES ASSUME NEW t \in Stream PROVE PortList(t[1], slice[t])'
      OBVIOUS
    <3>2. slice'[t] = IF t = s THEN <<>> ELSE slice[t]
      BY <2>2
    <3>3. t[1] \in Msmts /\ Kept(t[1], slice'[t]) /\ slice'[t] \in Seq(Nat)
      BY <3>2, StreamType
    <3> QED BY ZenonT(60), <1>1, <3>3 DEF PortList
  <2>6. \A n \in Msmts : PortList(n, usedPorts[n])'
    <3>1. \A n \in Msmts : usedPorts'[n] = IF n = m THEN new ELSE usedPorts[n]
      BY <2>2
    <3>2. ASSUME NEW n \in Msmts, n # m PROVE PortList(n, usedPorts[n])'
      <4>1. Kept(n, usedPorts'[n]) /\ usedPorts'[n] \in Seq(Nat)
        BY <3>1, <3>2
      <4> QED BY <1>1, <4>1 DEF PortList
    <3>3. PortList(m, usedPorts[m])'
      BY ZenonT(60), <2>4, <2>9, <3>1 DEF PortList
    <3> QED BY <3>2, <3>3
  <2>7. \A n \in Msmts : PortList(n, told[n])'
    <3>1. \A n \in Msmts : Kept(n, told'[n]) /\ told'[n] \in Seq(Nat)
      BY <2>2
    <3> QED BY <1>1, <3>1 DEF PortList
  <2> QED BY <2>5, <2>6, <2>7 DEF Lists
<1>6. ASSUME NEW m \in Msmts, New(m) \/ StartWorker(m) \/ ObjectMoves(m)
      PROVE  Lists'
  BY <1>2, <1>6 DEF New, StartWorker, ObjectMoves, ports, netVars
<1>7. ASSUME NEW s \in Stream,
             Heartbeat(s) \/ Listen(s) \/ WorkerMoves(s) \/ SocketCloses(s)
      PROVE  Lists'
  BY <1>2, <1>7 DEF Heartbeat, Listen, WorkerMoves, SocketCloses, ports, netVars
<1> QED BY PortSteps, <1>2, <1>3, <1>4, <1>5, <1>6, <1>7 DEF portVars, ports

LEMMA TriedStep ==
  ASSUME TypeInv, Bound, Tried, [Next]_vars
  PROVE  Tried'
<1> USE PortTypes
<1> DEFINE Took(s, t, p) == /\ SameNetwork(s[1], t[1]) /\ t # s
                            /\ wpc[t] \notin {"none", "listen"} /\ port[t] = p
<1>1. \A s, t \in Stream : \A p \in Nat : Took(s, t, p) => Took(s, t, p)'
  BY KeepsPort
<1>2. ASSUME UNCHANGED port PROVE Tried'
  BY <1>1, <1>2 DEF Tried, FirstPort
<1>3. ASSUME NEW s \in Stream, Listen(s), port' # port PROVE Tried'
  <2>1. wpc[s] = "listen" /\ Taken(s) /\ port' = [port EXCEPT ![s] = @ + 1]
    BY <1>3 DEF Listen
  <2>2. PICK t \in Stream : listening[t] = port[s] /\ SameNetwork(s[1], t[1])
    BY <2>1 DEF Taken
  <2>3. Took(s, t, port[s])
    BY <2>1, <2>2, NoneType DEF Bound
  <2>4. \A p \in FirstPort..(port'[s] - 1) : p \in Nat /\ (p = port[s] \/ p \in FirstPort..(port[s] - 1))
    BY <2>1 DEF FirstPort
  <2>5. \A u \in Stream : \A p \in FirstPort..(port'[u] - 1) :
          \E v \in Stream : Took(u, v, p)'
    BY <1>1, <2>1, <2>3, <2>4 DEF Tried, FirstPort
  <2>6. \A u \in Stream : port'[u] >= FirstPort
    BY <2>1 DEF Tried, FirstPort
  <2> QED BY <2>5, <2>6 DEF Tried
<1>4. ASSUME NEW m \in Msmts,
             New(m) \/ StartWorker(m) \/ ReplyPorts(m) \/ ObjectMoves(m)
      PROVE  UNCHANGED port
  BY <1>4 DEF New, StartWorker, ReplyPorts, ObjectMoves, ports
<1>5. ASSUME NEW s \in Stream,
             Heartbeat(s) \/ LoadPorts(s) \/ StorePorts(s) \/ WorkerMoves(s)
             \/ SocketCloses(s)
      PROVE  UNCHANGED port
  BY <1>5 DEF Heartbeat, LoadPorts, StorePorts, WorkerMoves, SocketCloses, ports
<1> QED BY PortSteps, <1>2, <1>3, <1>4, <1>5 DEF portVars, ports

LEMMA PortStep ==
  ASSUME TypeInv, PortInv, [Next]_vars
  PROVE  PortInv'
BY ExclusiveStep, BoundStep, EarlyStep, ListsStep, TriedStep DEF PortInv

-----------------------------------------------------------------------------
(* Sessions *)

LEMMA SessionTypes ==
  ASSUME TypeInv
  PROVE  /\ opc \in [Msmts -> ObjectPc]
         /\ mgr \in [Msmts -> {"start", "run", "closing", "stop", "over", "dead"}]
         /\ told \in [Msmts -> Seq(Nat)]
         /\ csock \in [Stream -> {"none", "dial", "handshake", "open", "closed",
                                  "left", "killed"}]
BY DEF TypeInv, TypeOK, NetTypeOK, ServerTypeOK, ClientTypeOK

LEMMA SessionUnchanged ==
  ASSUME SessionInv, UNCHANGED <<opc, mgr, told, csock>>
  PROVE  SessionInv'
BY DEF SessionInv, InStep, NotTold, Senders, Dialled, Quiet

LEMMA WorkerSession ==
  ASSUME NEW s \in Stream, Worker(s), UNCHANGED clientVars
  PROVE  UNCHANGED <<opc, mgr, told, csock>>
<1> USE DEF Exit, Goto, serverVars, netVars, clientVars
<1>1. CASE FindPort(s)
  BY <1>1 DEF FindPort, Listen, ListenFails, LoadPorts, StorePorts, TornAppend
<1>2. CASE Accept(s) \/ AcceptClosed(s) \/ StoreSock(s)
  BY <1>2 DEF Accept, AcceptClosed, StoreSock
<1>3. CASE Read(s) \/ ReadFromUDP(s) \/ Count(s)
  BY <1>3 DEF Read, ReadFromUDP, Count
<1>4. CASE ReadEOF(s) \/ ReadClosed(s) \/ ReadClosedUDP(s) \/ ReadIdle(s)
  BY <1>4 DEF ReadEOF, ReadClosed, ReadClosedUDP, ReadIdle
<1>5. CASE AcceptStream(s) \/ AcceptStreamTimeout(s) \/ ReadNoError(s)
  BY <1>5 DEF AcceptStream, AcceptStreamTimeout, ReadNoError
<1>6. CASE ReadTruncated(s) \/ ReadFails(s) \/ AcceptStreamFails(s)
  BY <1>6 DEF ReadTruncated, ReadFails, AcceptStreamFails
<1> QED BY <1>1, <1>2, <1>3, <1>4, <1>5, <1>6
        DEF Worker, tcpServerWorker, tcpTlsServerWorker, udpServerWorker,
            quicServerWorker

LEMMA ObjectSession ==
  ASSUME TypeInv, SessionInv, NEW m \in Msmts, New(m) \/ Object(m), UNCHANGED clientVars
  PROVE  SessionInv'
<1> USE SessionTypes
<1>1. ASSUME NEW from \in ObjectPc, NEW to \in ObjectPc,
             opc[m] = from, opc' = [opc EXCEPT ![m] = to],
             \/ from \in {"none", "make"} /\ to \in {"make", "wait"}
             \/ from = "info" /\ to = "running"
             \/ from \in {"closing", "report"} /\ to \in {"report", "closed"},
             UNCHANGED <<mgr, told, csock>>
      PROVE  SessionInv'
  <2>1. InStep'
    BY <1>1 DEF SessionInv, InStep, Expected
  <2>2. NotTold'
    BY <1>1 DEF SessionInv, NotTold
  <2> QED BY <1>1, <2>1, <2>2 DEF SessionInv, Senders, Dialled, Quiet
<1>2. CASE ReplyPorts(m)
  <2>1. /\ opc[m] = "wait" /\ opc' = [opc EXCEPT ![m] = "running"]
        /\ told' = [told EXCEPT ![m] = usedPorts[m]]
        /\ UNCHANGED <<mgr, csock>>
    BY <1>2 DEF ReplyPorts, Become, clientVars
  <2>2. mgr[m] \in {"start", "dead"}
    BY <2>1, SessionTypes DEF SessionInv, InStep, Expected
  <2>3. \A c \in Stream : c[1] = m => csock[c] # "dial"
    BY <2>2 DEF SessionInv, Senders
  <2>4. InStep' /\ NotTold'
    BY <2>1, <2>2, SessionTypes DEF SessionInv, InStep, NotTold, Expected, ObjectPc
  <2>5. Dialled'
    BY <2>1, <2>3, StreamType DEF SessionInv, Dialled
  <2> QED BY <2>1, <2>4, <2>5 DEF SessionInv, Senders, Quiet
<1>3. CASE New(m) \/ StartWorker(m)
  BY <1>1, <1>3 DEF New, StartWorker, Become, ObjectPc, netVars, clientVars
<1>4. CASE Closed(m) \/ GetMsmtInfo(m) \/ CloseConn(m)
  BY <1>1, <1>4 DEF Closed, GetMsmtInfo, CloseConn, ReplyWith, Become, ObjectPc,
                    netVars, clientVars
<1>5. CASE ReadCounter(m)
  BY <1>5, SessionUnchanged DEF ReadCounter, netVars, clientVars
<1>6. ASSUME NEW s \in Stream,
             \/ Heartbeat(s)
             \/ CloseStreamTCP(s) \/ CloseStreamUDP(s) \/ CloseStreamQuic(s)
      PROVE  SessionInv'
  BY <1>6, SessionUnchanged
     DEF Heartbeat, CloseStreamTCP, CloseStreamUDP, CloseStreamQuic, netVars, clientVars
<1>7. Streams(m) \subseteq Stream
  BY StreamType
<1> QED BY <1>2, <1>3, <1>4, <1>5, <1>6, <1>7 DEF Object

LEMMA ClientWorkerSession ==
  ASSUME TypeInv, SessionInv, NEW c \in Stream, ClientWorker(c)
  PROVE  SessionInv'
<1> USE SessionTypes
<1>1. CASE Write(c)
  BY <1>1, SessionUnchanged DEF Write, serverVars
<1>2. ASSUME ~Write(c)
      PROVE  /\ csock[c] \in {"dial", "handshake", "open"}
             /\ \E l \in {"handshake", "open", "closed", "left"} :
                  csock' = [csock EXCEPT ![c] = l]
             /\ UNCHANGED <<opc, mgr, told>>
  BY <1>2 DEF ClientWorker, Dial, Handshake, HandshakeQuic, DialUDP, DialFails, Leave,
              LeaveIdle, Close, SockTo, serverVars, clientVars
<1>3. CASE ~Write(c)
  <2>1. Senders' /\ Dialled' /\ Quiet'
    BY <1>2, <1>3 DEF SessionInv, Senders, Dialled, Quiet
  <2> QED BY <1>2, <1>3, <2>1 DEF SessionInv, InStep, NotTold
<1> QED BY <1>1, <1>3

LEMMA ManagerSession ==
  ASSUME TypeInv, SessionInv, NEW m \in Msmts, Manager(m) \/ Kill(m)
  PROVE  SessionInv'
<1> USE SessionTypes
<1>1. CASE NewMsmtClient(m)
  <2>1. /\ mgr[m] = "start" /\ told[m] # <<>> /\ mgr' = [mgr EXCEPT ![m] = "run"]
        /\ csock' = [c \in Stream |-> IF c[1] = m /\ c[2] \in DOMAIN told[m]
                                      THEN "dial" ELSE csock[c]]
        /\ UNCHANGED <<opc, told>>
    BY <1>1 DEF NewMsmtClient, Manage, serverVars
  <2>2. opc[m] = "running"
    BY <2>1 DEF SessionInv, InStep, NotTold, Expected
  <2>3. InStep' /\ NotTold'
    BY <2>1, <2>2 DEF SessionInv, InStep, NotTold, Expected
  <2>4. Senders' /\ Dialled' /\ Quiet'
    BY <2>1, StreamType DEF SessionInv, Senders, Dialled, Quiet
  <2> QED BY <2>3, <2>4 DEF SessionInv
<1>2. ASSUME NEW label \in {"over", "dead"}, EndClient(m, label),
             \/ label = "dead" /\ mgr[m] \in {"start", "run", "closing", "stop"}
             \/ label = "over" /\ mgr[m] = "stop" /\ opc[m] = "closed"
      PROVE  SessionInv'
  <2>1. /\ mgr' = [mgr EXCEPT ![m] = label]
        /\ csock' = [c \in Stream |->
                       IF c[1] = m /\ csock[c] \notin {"none", "closed"}
                       THEN "killed" ELSE csock[c]]
        /\ UNCHANGED <<opc, told>>
    BY <1>2 DEF EndClient, Manage, serverVars
  <2>2. InStep' /\ NotTold'
    BY <1>2, <2>1 DEF SessionInv, InStep, NotTold, Expected
  <2>3. Senders' /\ Dialled'
    BY <2>1 DEF SessionInv, Senders, Dialled
  <2>4. Quiet'
    BY <1>2, <2>1 DEF SessionInv, Quiet
  <2> QED BY <2>2, <2>3, <2>4 DEF SessionInv
<1>3. CASE Return(m)
  BY <1>2, <1>3 DEF Return
<1>4. CASE ExitClient(m) \/ Kill(m)
  <2>1. CASE Kill(m)
    BY <1>2, <2>1 DEF Kill
  <2>2. CASE ExitClient(m)
    <3>1. PICK c \in Stream : /\ c[1] = m /\ m \notin QuicMsmts
                              /\ csock[c] \in {"dial", "open"}
      BY <2>2, StreamType, ModuleType DEF ExitClient, DatagramMsmts
    <3>2. mgr[m] \in {"run", "closing"}
      BY <3>1 DEF SessionInv, Senders
    <3> QED BY <1>2, <2>2, <3>2 DEF ExitClient
  <2> QED BY <1>4, <2>1, <2>2
<1>5. CASE AskInfo(m)
  <2>1. /\ mgr[m] = "run" /\ opc[m] = "running" /\ opc' = [opc EXCEPT ![m] = "info"]
        /\ UNCHANGED <<mgr, told, csock>>
    BY <1>5 DEF AskInfo, Become, netVars
  <2> QED BY <2>1 DEF SessionInv, InStep, NotTold, Senders, Dialled, Quiet, Expected
<1>6. CASE Finish(m) \/ Deadline(m)
  <2>1. /\ mgr[m] = "run" /\ mgr' = [mgr EXCEPT ![m] = "closing"]
        /\ UNCHANGED <<opc, told, csock>>
    BY <1>6 DEF Finish, Deadline, Manage, netVars, serverVars
  <2> QED BY <2>1 DEF SessionInv, InStep, NotTold, Senders, Dialled, Quiet, Expected
<1>7. CASE AskStop(m) \/ (DeadlineQuic(m) /\ m \in QuicMsmts)
  <2>1. /\ mgr[m] \in {"run", "closing"} /\ opc[m] = "running"
        /\ mgr' = [mgr EXCEPT ![m] = "stop"] /\ opc' = [opc EXCEPT ![m] = "closing"]
        /\ UNCHANGED <<told, csock>>
        /\ m \in QuicMsmts \/ WorkersDone(m)
    BY <1>7 DEF AskStop, DeadlineQuic, Manage, Become, netVars
  <2>2. InStep' /\ NotTold'
    BY <2>1 DEF SessionInv, InStep, NotTold, Expected
  <2>3. Senders' /\ Dialled' /\ Quiet'
    BY <2>1, StreamType DEF SessionInv, Senders, Dialled, Quiet, WorkersDone
  <2> QED BY <2>2, <2>3 DEF SessionInv
<1> QED BY <1>1, <1>3, <1>4, <1>5, <1>6, <1>7
        DEF Manager, manageTcpMsmt, manageTcpTlsMsmt, manageUdpMsmt, manageQuicMsmt

LEMMA SessionStep ==
  ASSUME TypeInv, SessionInv, [Next]_vars
  PROVE  SessionInv'
<1>1. CASE UNCHANGED vars
  BY <1>1, SessionUnchanged DEF vars, netVars, serverVars, clientVars
<1>2. ASSUME NEW c \in Stream, Lose(c), UNCHANGED <<serverVars, clientVars>>
      PROVE  SessionInv'
  BY <1>2, SessionUnchanged DEF Lose, serverVars, clientVars
<1>3. ASSUME NEW s \in Stream, Worker(s), UNCHANGED clientVars PROVE SessionInv'
  BY <1>3, WorkerSession, SessionUnchanged
<1> QED BY <1>1, <1>2, <1>3, ObjectSession, ClientWorkerSession, ManagerSession
        DEF Next, ServerNext, ClientNext

-----------------------------------------------------------------------------
(* Connections *)

connVars == <<opc, listening, backlog, peer, sock>>

LEMMA ConnTypes ==
  ASSUME TypeInv
  PROVE  /\ opc \in [Msmts -> ObjectPc]
         /\ listening \in [Stream -> Nat \cup {None}]
         /\ backlog \in [Stream -> Seq(Stream)]
         /\ peer \in [Stream -> Stream \cup {None}]
         /\ sock \in [Stream -> {"none", "open", "closed"}]
         /\ port \in [Stream -> Nat] /\ told \in [Msmts -> Seq(Nat)]
         /\ \A s \in Stream : acceptSock[s] => sock[s] # "none"
BY DEF TypeInv, TypeOK, NetTypeOK, ServerTypeOK

LEMMA ConnUnchanged ==
  ASSUME ConnInv, UNCHANGED connVars
  PROVE  ConnInv'
BY DEF ConnInv, Waiting, OwnPeers, Sockets, ClosedAll, connVars

\* Where the object of a measurement is matters here only at CloseConn.
LEMMA ConnObject ==
  ASSUME TypeInv, ConnInv, NEW m \in Msmts, NEW l \in ObjectPc,
         opc' = [opc EXCEPT ![m] = l], UNCHANGED <<listening, backlog, peer, sock>>,
         l \in {"report", "closed"} => opc[m] = "report" \/ AllClosed(m)
  PROVE  ConnInv'
<1>1. ClosedAll'
  BY ConnTypes, StreamType DEF ConnInv, ClosedAll, AllClosed
<1> QED BY <1>1 DEF ConnInv, Waiting, OwnPeers, Sockets

LEMMA WorkerConn ==
  ASSUME TypeInv, Early, ConnInv, NEW s \in Stream, Worker(s)
  PROVE  ConnInv'
<1> USE DEF connVars, Exit, Goto, serverVars, netVars, ports, conns
<1>1. CASE Listen(s)
  <2>1. /\ UNCHANGED <<opc, backlog, peer, sock>>
        /\ wpc[s] = "listen"
        /\ \/ UNCHANGED listening
           \/ listening' = [listening EXCEPT ![s] = port[s]]
    BY <1>1 DEF Listen
  <2>2. opc[s[1]] \notin {"report", "closed"}
    BY <2>1 DEF Early, Beginning
  <2>3. port[s] # None
    BY ConnTypes, NoneType
  <2>4. /\ \A t \in Stream \ {s} : listening'[t] = listening[t]
        /\ listening[s] # None => listening'[s] # None
    BY <2>1, <2>3, ConnTypes
  <2> QED BY <2>1, <2>2, <2>4 DEF ConnInv, Waiting, OwnPeers, Sockets, ClosedAll
<1>2. CASE ListenFails(s) \/ LoadPorts(s) \/ StorePorts(s) \/ TornAppend(s)
  BY <1>2, ConnUnchanged DEF ListenFails, LoadPorts, StorePorts, TornAppend
<1>3. CASE Accept(s)
  <2>1. /\ backlog[s] # <<>> /\ peer' = [peer EXCEPT ![s] = Head(backlog[s])]
        /\ sock' = [sock EXCEPT ![s] = "open"]
        /\ backlog' = [backlog EXCEPT ![s] = Tail(backlog[s])]
        /\ UNCHANGED <<opc, listening>>
    BY <1>3 DEF Accept
  <2>2. /\ 1 \in DOMAIN backlog[s] /\ Head(backlog[s]) = backlog[s][1]
        /\ \A i \in DOMAIN Tail(backlog[s]) :
             i + 1 \in DOMAIN backlog[s] /\ Tail(backlog[s])[i] = backlog[s][i + 1]
    BY <2>1, ConnTypes
  <2>3. listening[s] # None /\ s[1] \notin UdpMsmts
    BY <2>1 DEF ConnInv, Waiting
  <2>4. Waiting' /\ Sockets' /\ ClosedAll'
    BY <2>1, <2>3, ConnTypes DEF ConnInv, Waiting, Sockets, ClosedAll
  <2>5. OwnPeers'
    BY <2>1, <2>2, ConnTypes DEF ConnInv, OwnPeers
  <2> QED BY <2>4, <2>5 DEF ConnInv
<1>4. CASE AcceptClosed(s) \/ StoreSock(s)
  BY <1>4, ConnUnchanged DEF AcceptClosed, StoreSock
<1>5. CASE Read(s) \/ ReadFromUDP(s) \/ Count(s)
  BY <1>5, ConnUnchanged DEF Read, ReadFromUDP, Count
<1>6. CASE ReadEOF(s) \/ ReadClosed(s) \/ ReadClosedUDP(s) \/ ReadIdle(s)
  BY <1>6, ConnUnchanged DEF ReadEOF, ReadClosed, ReadClosedUDP, ReadIdle
<1>7. CASE AcceptStream(s) \/ AcceptStreamTimeout(s) \/ ReadNoError(s)
  BY <1>7, ConnUnchanged DEF AcceptStream, AcceptStreamTimeout, ReadNoError
<1>8. CASE ReadTruncated(s) \/ ReadFails(s) \/ AcceptStreamFails(s)
  BY <1>8, ConnUnchanged DEF ReadTruncated, ReadFails, AcceptStreamFails
<1> QED BY <1>1, <1>2, <1>3, <1>4, <1>5, <1>6, <1>7, <1>8
        DEF Worker, tcpServerWorker, tcpTlsServerWorker, udpServerWorker,
            quicServerWorker, FindPort

LEMMA ObjectConn ==
  ASSUME TypeInv, ConnInv, NEW m \in Msmts, New(m) \/ Object(m)
  PROVE  ConnInv'
<1> USE DEF connVars, netVars, ports, conns, ObjectPc, Become
<1>1. CASE New(m) \/ StartWorker(m) \/ ReplyPorts(m)
  BY <1>1, ConnObject DEF New, StartWorker, ReplyPorts
<1>2. CASE Closed(m) \/ GetMsmtInfo(m) \/ CloseConn(m)
  BY <1>2, ConnObject DEF Closed, GetMsmtInfo, CloseConn, ReplyWith
<1>3. CASE ReadCounter(m)
  BY <1>3, ConnUnchanged DEF ReadCounter
<1>4. ASSUME NEW s \in Stream, Heartbeat(s) PROVE ConnInv'
  BY <1>4, ConnUnchanged DEF Heartbeat
<1>5. ASSUME NEW s \in Stream,
             CloseStreamTCP(s) \/ CloseStreamUDP(s) \/ CloseStreamQuic(s)
      PROVE  ConnInv'
  <2>1. /\ listening' = [listening EXCEPT ![s] = None]
        /\ UNCHANGED <<opc, peer>>
        /\ backlog' = [backlog EXCEPT ![s] = <<>>] \/ (backlog' = backlog /\ s[1] \in UdpMsmts)
    BY <1>5 DEF CloseStreamTCP, CloseStreamUDP, CloseStreamQuic
  <2>2. /\ \A t \in Stream \ {s} : sock'[t] = sock[t]
        /\ sock'[s] # "none" <=> sock[s] # "none"
        /\ s[1] \in QuicMsmts => sock'[s] # "open"
    <3>1. CASE CloseStreamTCP(s)
      BY <3>1, ConnTypes DEF CloseStreamTCP, DatagramMsmts
    <3>2. CASE CloseStreamUDP(s)
      BY <3>2, StreamType, ModuleType DEF CloseStreamUDP
    <3>3. CASE CloseStreamQuic(s)
      BY <3>3, ConnTypes DEF CloseStreamQuic
    <3> QED BY <1>5, <3>1, <3>2, <3>3
  <2>3. Waiting' /\ ClosedAll'
    BY <2>1, ConnTypes DEF ConnInv, Waiting, ClosedAll
  <2>4. OwnPeers'
    BY <2>1, <2>2, ConnTypes DEF ConnInv, OwnPeers
  <2>5. Sockets'
    <3>1. s[1] \in UdpMsmts => sock'[s] = "none"
      BY <2>2, ConnTypes, <1>5 DEF ConnInv, Sockets, CloseStreamTCP, CloseStreamUDP,
                                   CloseStreamQuic
    <3> QED BY <2>1, <2>2, <3>1 DEF ConnInv, Sockets
  <2> QED BY <2>3, <2>4, <2>5 DEF ConnInv
<1>6. Streams(m) \subseteq Stream
  BY StreamType
<1> QED BY <1>1, <1>2, <1>3, <1>4, <1>5, <1>6 DEF Object

LEMMA DialConn ==
  ASSUME TypeInv, PortInv, SessionInv, ConnInv, NEW c \in Stream, Dial(c)
  PROVE  ConnInv'
<1>1. PICK s \in Stream :
        /\ listening[s] = Target(c) /\ SameNetwork(s[1], c[1]) /\ s[1] \notin UdpMsmts
        /\ backlog' = [backlog EXCEPT ![s] = Append(@, c)]
  BY DEF Dial, Listener
<1>2. /\ csock[c] = "dial" /\ c[1] \in Msmts
      /\ UNCHANGED <<opc, listening, peer, sock>>
  BY StreamType DEF Dial, serverVars, conns
<1>3. c[2] \in DOMAIN told[c[1]]
  BY <1>2 DEF SessionInv, Dialled
<1>4. PICK t \in Stream :
        t[1] = c[1] /\ wpc[t] \notin Searching /\ port[t] = told[c[1]][c[2]]
  BY <1>2, <1>3 DEF PortInv, Lists, PortList
<1>5. listening[s] # None
  BY SMTT(30), <1>1, <1>4, ConnTypes, NoneType DEF Target
<1>6. ASSUME s[1] \notin DatagramMsmts PROVE c[1] = s[1]
  <2>1. c[1] \notin QuicMsmts
    BY <1>1, <1>6 DEF SameNetwork, DatagramMsmts
  <2>2. Open(c[1])
    BY <1>2, <2>1 DEF SessionInv, Senders, InStep, Expected, Open
  <2>3. listening[t] = listening[s]
    BY <1>1, <1>4, <2>2 DEF Target, PortInv, Bound, Searching
  <2>4. SameNetwork(s[1], t[1])
    BY <1>1, <1>4
  <2> QED BY <1>4, <1>5, <2>3, <2>4 DEF PortInv, Exclusive
<1>7. /\ DOMAIN Append(backlog[s], c) = DOMAIN backlog[s] \cup {Len(backlog[s]) + 1}
      /\ \A i \in DOMAIN Append(backlog[s], c) :
           \/ i \in DOMAIN backlog[s] /\ Append(backlog[s], c)[i] = backlog[s][i]
           \/ Append(backlog[s], c)[i] = c
  BY SMTT(30), ConnTypes
<1>8. Waiting' /\ Sockets' /\ ClosedAll'
  BY <1>1, <1>2, <1>5, ConnTypes DEF ConnInv, Waiting, Sockets, ClosedAll
<1>9. OwnPeers'
  BY SMTT(30), <1>1, <1>2, <1>6, <1>7, ConnTypes DEF ConnInv, OwnPeers
<1> QED BY <1>8, <1>9 DEF ConnInv

LEMMA ConnStep ==
  ASSUME TypeInv, PortInv, SessionInv, ConnInv, [Next]_vars
  PROVE  ConnInv'
<1> USE DEF connVars, serverVars, netVars, conns
<1>1. CASE UNCHANGED vars
  BY <1>1, ConnUnchanged DEF vars
<1>2. ASSUME NEW c \in Stream, Lose(c), UNCHANGED <<serverVars, clientVars>>
      PROVE  ConnInv'
  BY <1>2, ConnUnchanged DEF Lose
<1>3. ASSUME NEW c \in Stream, ClientWorker(c) PROVE ConnInv'
  <2>1. ASSUME ~Dial(c) PROVE UNCHANGED connVars
    BY <1>3, <2>1 DEF ClientWorker, Handshake, HandshakeQuic, DialUDP, DialFails, Write,
                      Leave, LeaveIdle, Close
  <2> QED BY <2>1, DialConn, ConnUnchanged
<1>4. ASSUME NEW m \in Msmts, Manager(m) \/ Kill(m) PROVE ConnInv'
  <2>1. CASE AskInfo(m) \/ AskStop(m) \/ DeadlineQuic(m)
    BY <2>1, ConnObject DEF AskInfo, AskStop, DeadlineQuic, Become, ObjectPc
  <2>2. CASE NewMsmtClient(m) \/ Finish(m) \/ Deadline(m)
    BY <2>2, ConnUnchanged DEF NewMsmtClient, Finish, Deadline
  <2>3. CASE ExitClient(m) \/ Return(m) \/ Kill(m)
    BY <2>3, ConnUnchanged DEF ExitClient, Return, Kill, EndClient
  <2> QED BY <1>4, <2>1, <2>2, <2>3
          DEF Manager, manageTcpMsmt, manageTcpTlsMsmt, manageUdpMsmt, manageQuicMsmt
<1> QED BY <1>1, <1>2, <1>3, <1>4, WorkerConn, ObjectConn
        DEF Next, ServerNext, ClientNext, PortInv

-----------------------------------------------------------------------------
(* Counters *)

countVars == <<bytes, data, result>>

LEMMA CountTypes ==
  ASSUME TypeInv
  PROVE  /\ bytes \in [Stream -> Nat] /\ got \in [Stream -> 0..StreamBytes]
         /\ data \in [Msmts -> Seq(Nat)] /\ result \in [Msmts -> Seq(Nat)]
BY DEF TypeInv, TypeOK, NetTypeOK, ServerTypeOK

\* Counters, replies and what is gathered for them change in three ways.
LEMMA CountSteps ==
  ASSUME TypeInv, [Next]_vars
  PROVE  \/ UNCHANGED countVars
         \/ \E s \in Stream : Worker(s) /\ Count(s)
         \/ \E m \in Msmts : Object(m) /\ (ReadCounter(m) \/ ReplyWith(m))
<1> USE DEF countVars, serverVars, netVars, conns, counters, Exit
<1>1. CASE UNCHANGED vars
  BY <1>1 DEF vars
<1>2. ASSUME NEW c \in Stream, Lose(c), UNCHANGED <<serverVars, clientVars>>
      PROVE  UNCHANGED countVars
  BY <1>2 DEF Lose
<1>3. ASSUME NEW m \in Msmts, New(m) PROVE UNCHANGED countVars
  BY <1>3 DEF New
<1>4. ASSUME NEW m \in Msmts, Object(m), ~ReadCounter(m), ~ReplyWith(m)
      PROVE  UNCHANGED countVars
  BY <1>4 DEF Object, StartWorker, ReplyPorts, Closed, GetMsmtInfo, CloseConn, Heartbeat,
              CloseStreamTCP, CloseStreamUDP, CloseStreamQuic
<1>5. ASSUME NEW s \in Stream, Worker(s), ~Count(s)
      PROVE  UNCHANGED countVars
  <2>1. CASE FindPort(s)
    BY <2>1 DEF FindPort, Listen, ListenFails, LoadPorts, StorePorts, TornAppend
  <2>2. CASE Accept(s) \/ AcceptClosed(s) \/ StoreSock(s)
    BY <2>2 DEF Accept, AcceptClosed, StoreSock
  <2>3. CASE Read(s) \/ ReadFromUDP(s)
    BY <2>3 DEF Read, ReadFromUDP
  <2>4. CASE ReadEOF(s) \/ ReadClosed(s) \/ ReadClosedUDP(s) \/ ReadIdle(s)
    BY <2>4 DEF ReadEOF, ReadClosed, ReadClosedUDP, ReadIdle
  <2>5. CASE AcceptStream(s) \/ AcceptStreamTimeout(s) \/ ReadNoError(s)
    BY <2>5 DEF AcceptStream, AcceptStreamTimeout, ReadNoError
  <2>6. CASE ReadTruncated(s) \/ ReadFails(s) \/ AcceptStreamFails(s)
    BY <2>6 DEF ReadTruncated, ReadFails, AcceptStreamFails
  <2> QED BY <1>5, <2>1, <2>2, <2>3, <2>4, <2>5, <2>6
          DEF Worker, tcpServerWorker, tcpTlsServerWorker, udpServerWorker,
              quicServerWorker
<1>6. ASSUME NEW c \in Stream, ClientWorker(c)
      PROVE  UNCHANGED countVars
  BY <1>6 DEF ClientWorker, Dial, Handshake, HandshakeQuic, DialUDP, DialFails, Write,
              Leave, LeaveIdle, Close
<1>7. ASSUME NEW m \in Msmts, Manager(m) \/ Kill(m)
      PROVE  UNCHANGED countVars
  BY <1>7 DEF Manager, manageTcpMsmt, manageTcpTlsMsmt, manageUdpMsmt, manageQuicMsmt,
              AskInfo, AskStop, DeadlineQuic, NewMsmtClient, Finish, Deadline,
              ExitClient, Return, Kill, EndClient
<1> QED BY <1>1, <1>2, <1>3, <1>4, <1>5, <1>6, <1>7 DEF Next, ServerNext, ClientNext

LEMMA CountStep ==
  ASSUME TypeInv, CountInv, [Next]_vars
  PROVE  CountInv' /\ \A m \in Msmts : \A i \in 1..NumStreams : result'[m][i] >= result[m][i]
<1> DEFINE Grow == \A m \in Msmts : \A i \in 1..NumStreams : result'[m][i] >= result[m][i]
<1>0. ASSUME NEW m \in Msmts, NEW i \in 1..NumStreams
      PROVE  /\ bytes[<<m, i>>] \in Nat /\ result[m][i] \in Nat
             /\ result[m][i] <= bytes[<<m, i>>]
  <2>1. <<m, i>> \in Stream
    BY StreamType
  <2>2. bytes[<<m, i>>] \in Nat
    BY <2>1, CountTypes
  <2>3. result[m] \in [1..NumStreams -> Nat] /\ result[m][i] <= bytes[<<m, i>>]
    BY DEF CountInv
  <2> QED BY <2>2, <2>3
<1>self. ASSUME NEW m \in Msmts, NEW i \in 1..NumStreams PROVE result[m][i] >= result[m][i]
  <2>1. result[m][i] \in Nat
    BY <1>0
  <2> QED BY <2>1
<1>1. CASE UNCHANGED countVars
  <2>1. Grow
    BY <1>self, <1>1 DEF countVars
  <2> QED BY <1>1, <2>1 DEF countVars, CountInv
<1>2. ASSUME NEW s \in Stream, Count(s) PROVE CountInv' /\ Grow
  <2>1. /\ bytes' = [bytes EXCEPT ![s] = @ + got[s]]
        /\ UNCHANGED <<result, data>>
    BY <1>2 DEF Count, netVars
  <2>2. got[s] \in Nat
    BY CountTypes, ConstantType
  <2>3. \A t \in Stream : bytes[t] \in Nat /\ bytes'[t] \in Nat /\ bytes'[t] >= bytes[t]
    BY <2>1, <2>2, CountTypes
  <2>4. Grow
    BY <1>self, <2>1
  <2>5. \A m \in Msmts : \A i \in 1..NumStreams : result[m][i] <= bytes'[<<m, i>>]
    <3>1. SUFFICES ASSUME NEW m \in Msmts, NEW i \in 1..NumStreams
                   PROVE  result[m][i] <= bytes'[<<m, i>>]
      OBVIOUS
    <3>2. result[m][i] \in Nat /\ result[m][i] <= bytes[<<m, i>>]
      BY <1>0
    <3>3. <<m, i>> \in Stream
      BY StreamType
    <3> QED BY <2>3, <3>2, <3>3
  <2>6. \A m \in Msmts : \A i \in DOMAIN data[m] :
          result[m][i] <= data[m][i] /\ data[m][i] <= bytes'[<<m, i>>]
    <3>1. SUFFICES ASSUME NEW m \in Msmts, NEW i \in DOMAIN data[m]
                   PROVE  data[m][i] <= bytes'[<<m, i>>]
      BY DEF CountInv
    <3>2. i \in 1..NumStreams /\ data[m][i] \in Nat
      BY CountTypes, ConstantType DEF CountInv
    <3>3. data[m][i] <= bytes[<<m, i>>]
      BY DEF CountInv
    <3> QED BY <2>3, <3>2, <3>3, StreamType
  <2> QED BY <2>1, <2>4, <2>5, <2>6 DEF CountInv
<1>3. ASSUME NEW m \in Msmts, ReadCounter(m) PROVE CountInv' /\ Grow
  <2> DEFINE k == Len(data[m]) + 1
  <2>1. /\ data' = [data EXCEPT ![m] = Append(@, bytes[<<m, k>>])]
        /\ Len(data[m]) < NumStreams
        /\ UNCHANGED <<result, bytes>>
    BY <1>3 DEF ReadCounter, counters, netVars
  <2>2. k \in 1..NumStreams /\ bytes[<<m, k>>] \in Nat
    BY <1>0, <2>1, CountTypes, ConstantType
  <2>3. /\ Len(data'[m]) <= NumStreams
        /\ \A i \in DOMAIN data'[m] :
             \/ i \in DOMAIN data[m] /\ data'[m][i] = data[m][i]
             \/ i = k /\ data'[m][i] = bytes[<<m, k>>]
    <3>1. data[m] \in Seq(Nat) /\ data'[m] = Append(data[m], bytes[<<m, k>>])
      BY <2>1, CountTypes
    <3> QED BY <2>1, <2>2, <3>1, ConstantType
  <2>4. ASSUME NEW i \in DOMAIN data'[m]
        PROVE  result[m][i] <= data'[m][i] /\ data'[m][i] <= bytes[<<m, i>>]
    <3>1. CASE i \in DOMAIN data[m] /\ data'[m][i] = data[m][i]
      BY <3>1 DEF CountInv
    <3>2. CASE i = k /\ data'[m][i] = bytes[<<m, k>>]
      <4>1. /\ result[m][k] <= bytes[<<m, k>>] /\ bytes[<<m, k>>] <= bytes[<<m, k>>]
        BY <1>0, <2>2
      <4> QED BY <3>2, <4>1
    <3> QED BY <2>3, <3>1, <3>2
  <2>5. Grow
    BY <1>self, <2>1
  <2>6. \A n \in Msmts \ {m} : data'[n] = data[n]
    BY <2>1, CountTypes
  <2> QED BY <2>1, <2>3, <2>4, <2>5, <2>6 DEF CountInv
<1>4. ASSUME NEW m \in Msmts, ReplyWith(m) PROVE CountInv' /\ Grow
  <2>1. /\ Len(data[m]) = NumStreams
        /\ result' = [result EXCEPT ![m] = data[m]] /\ data' = [data EXCEPT ![m] = <<>>]
        /\ UNCHANGED bytes
    BY <1>4 DEF ReplyWith, counters
  <2>2. data[m] \in [1..NumStreams -> Nat] /\ DOMAIN data[m] = 1..NumStreams
    BY <2>1, CountTypes
  <2>3. \A i \in 1..NumStreams :
          result[m][i] <= data[m][i] /\ data[m][i] <= bytes[<<m, i>>]
    BY <2>2 DEF CountInv
  <2>4. result'[m] = data[m] /\ \A n \in Msmts \ {m} : result'[n] = result[n]
    BY <2>1, CountTypes
  <2>5. Grow
    <3>1. SUFFICES ASSUME NEW n \in Msmts, NEW i \in 1..NumStreams
                   PROVE  result'[n][i] >= result[n][i]
      OBVIOUS
    <3>2. CASE n # m
      BY <1>self, <2>4, <3>2
    <3>3. CASE n = m
      <4>1. result[m][i] \in Nat /\ data[m][i] \in Nat /\ result[m][i] <= data[m][i]
        BY <1>0, <2>2, <2>3
      <4> QED BY <2>4, <3>3, <4>1
    <3> QED BY <3>2, <3>3
  <2>6. data'[m] = <<>> /\ \A n \in Msmts \ {m} : data'[n] = data[n]
    BY <2>1, CountTypes
  <2>7. \A n \in Msmts : Len(data'[n]) <= NumStreams
    BY <2>6, ConstantType DEF CountInv
  <2>8. \A n \in Msmts : \A i \in DOMAIN data'[n] :
          result'[n][i] <= data'[n][i] /\ data'[n][i] <= bytes[<<n, i>>]
    <3>1. DOMAIN data'[m] = {}
      BY <2>6
    <3> QED BY <2>4, <2>6, <3>1 DEF CountInv
  <2>9. \A n \in Msmts : result'[n] \in [1..NumStreams -> Nat]
    BY <2>2, <2>4 DEF CountInv
  <2>10. \A n \in Msmts : \A i \in 1..NumStreams : result'[n][i] <= bytes[<<n, i>>]
    BY <2>3, <2>4 DEF CountInv
  <2> QED BY <2>1, <2>5, <2>7, <2>8, <2>9, <2>10 DEF CountInv
<1> QED BY CountSteps, <1>1, <1>2, <1>3, <1>4

-----------------------------------------------------------------------------
(* The invariant *)

LEMMA InitInv == Init => Inv
<1> SUFFICES ASSUME Init PROVE Inv
  OBVIOUS
<1> USE DEF Init, NetInit, ServerInit, ClientInit
<1>1. TypeInv
  <2>1. NetTypeOK
    <3>1. \A m \in Msmts : [i \in 1..NumStreams |-> 0] \in Seq(Nat)
      BY ConstantType
    <3> QED BY <3>1, ConstantType DEF NetTypeOK
  <2>2. ServerTypeOK
    BY ConstantType DEF ServerTypeOK, ObjectPc, WorkerPc, FirstPort
  <2>3. ClientTypeOK
    BY ConstantType, ClientAssumption DEF ClientTypeOK
  <2> QED BY <2>1, <2>2, <2>3 DEF TypeInv, TypeOK
<1>2. PortInv
  <2>1. Exclusive /\ Bound /\ Early
    BY StreamType DEF Exclusive, Bound, Early
  <2>2. Lists
    BY StreamType DEF Lists, PortList
  <2>3. Tried
    BY DEF Tried, FirstPort
  <2> QED BY <2>1, <2>2, <2>3 DEF PortInv
<1>3. SessionInv
  BY StreamType DEF SessionInv, InStep, Expected, NotTold, Senders, Dialled, Quiet
<1>4. ConnInv
  BY StreamType DEF ConnInv, Waiting, OwnPeers, Sockets, ClosedAll
<1>5. CountInv
  BY StreamType, ConstantType DEF CountInv
<1> QED BY <1>1, <1>2, <1>3, <1>4, <1>5 DEF Inv

LEMMA NextInv == Inv /\ [Next]_vars => Inv'
BY TypeStep, PortStep, SessionStep, ConnStep, CountStep DEF Inv

THEOREM Invariance == Spec => []Inv
BY InitInv, NextInv, PTL DEF Spec

\* Every variable keeps its type, for any number of measurements, streams and
\* bytes: nothing is received that was not sent, and no counter of a reply is
\* read from where there is none.
THEOREM TypeCorrect == Spec => []TypeOK
<1>1. Inv => TypeOK
  BY DEF Inv, TypeInv
<1> QED BY <1>1, Invariance, PTL

\* The ports a client is told are its own measurement's listening sockets and
\* none is told twice, however many workers of however many measurements
\* search and append at the same time.
THEOREM OwnPorts == Spec => []PortsAreOwn
<1>1. Inv => PortsAreOwn
  <2> SUFFICES ASSUME Inv, NEW m \in Msmts, opc[m] \in {"running", "info"},
                      NEW i \in DOMAIN told[m]
               PROVE  /\ \E s \in Streams(m) : listening[s] = told[m][i]
                      /\ \A j \in DOMAIN told[m] : told[m][i] = told[m][j] => i = j
    BY DEF PortsAreOwn
  <2>1. PortList(m, told[m])
    BY DEF Inv, PortInv, Lists
  <2>2. PICK s \in Stream : s[1] = m /\ wpc[s] \notin Searching /\ port[s] = told[m][i]
    BY <2>1 DEF PortList
  <2>3. listening[s] = told[m][i]
    BY <2>2 DEF Inv, PortInv, Bound, Open, Searching
  <2> QED BY <2>1, <2>2, <2>3, StreamType DEF PortList
<1> QED BY <1>1, Invariance, PTL

\* No answer about a stream is below an earlier one, although the counters are
\* read without a lock and once more when the measurement is closed.
THEOREM CountersGrow == Spec => ResultsGrow
<1>1. Inv /\ [Next]_vars =>
        [\A m \in Msmts : \A i \in 1..NumStreams : result'[m][i] >= result[m][i]]_vars
  BY CountStep DEF Inv
<1> QED BY <1>1, Invariance, PTL DEF Spec, ResultsGrow

\* No worker searches further than one port per worker on the same network:
\* those it finds taken have as many owners, which search no more.
THEOREM FewPorts == Spec => []PortsSuffice
<1>1. Inv => PortsSuffice
  <2> SUFFICES ASSUME Inv, NEW s \in Stream
               PROVE  port[s] < FirstPort
                                + Cardinality({t \in Stream : SameNetwork(s[1], t[1])})
    BY DEF PortsSuffice
  <2> DEFINE T == {t \in Stream : SameNetwork(s[1], t[1])}
             P == FirstPort..(port[s] - 1)
             Owner(p) == CHOOSE t \in T \ {s} : port[t] = p
             f == [p \in P |-> Owner(p)]
  <2>1. port[s] \in Nat /\ FirstPort \in Nat /\ port[s] >= FirstPort
    BY PortTypes DEF Inv, PortInv, Tried, FirstPort
  <2>2. IsFiniteSet(Stream)
    <3>1. IsFiniteSet(1..NumStreams)
      BY FS_Interval, ConstantType
    <3> QED BY <3>1, FS_Product, FiniteAssumption DEF Stream
  <2>3. IsFiniteSet(T) /\ Cardinality(T) \in Nat
    BY <2>2, FS_Subset, FS_CardinalityType
  <2>4. IsFiniteSet(T \ {s}) /\ Cardinality(T \ {s}) = Cardinality(T) - 1
    <3>1. s \in T
      BY DEF SameNetwork
    <3> QED BY <2>3, <3>1, FS_RemoveElement
  <2>5. \A p \in P : Owner(p) \in T \ {s} /\ port[Owner(p)] = p
    BY DEF Inv, PortInv, Tried
  <2>6. f \in Injection(P, T \ {s})
    BY <2>5 DEF Injection, IsInjective
  <2>7. Cardinality(P) <= Cardinality(T \ {s})
    BY <2>4, <2>6, FS_Injection
  <2>8. Cardinality(P) = port[s] - FirstPort
    BY SMTT(30), <2>1, FS_Interval
  <2> HIDE DEF T, P
  <2>9. port[s] < FirstPort + Cardinality(T)
    BY <2>1, <2>3, <2>4, <2>7, <2>8
  <2> QED BY <2>9 DEF T
<1> QED BY <1>1, Invariance, PTL

-----------------------------------------------------------------------------
(* Every measurement is one of MeasurementService *)

serviceVars == <<up, servicePhase, serviceClient, serviceConns, serviceReceived, result>>

LEMMA MapObject ==
  ASSUME opc \in [Msmts -> ObjectPc], NEW m \in Msmts, NEW l \in ObjectPc,
         opc' = [opc EXCEPT ![m] = l]
  PROVE  /\ servicePhase[m] = PhaseOf(opc[m])
         /\ servicePhase' = [servicePhase EXCEPT ![m] = PhaseOf(l)]
BY DEF servicePhase

LEMMA MapManager ==
  ASSUME mgr \in [Msmts -> {"start", "run", "closing", "stop", "over", "dead"}],
         NEW m \in Msmts, NEW l, mgr' = [mgr EXCEPT ![m] = l]
  PROVE  /\ serviceClient[m] = ClientOf(mgr[m])
         /\ serviceClient' = [serviceClient EXCEPT ![m] = ClientOf(l)]
BY DEF serviceClient

LEMMA MapWorkers ==
  ASSUME NEW m \in Msmts, \A c \in Stream : c[1] # m => csock'[c] = csock[c]
  PROVE  /\ serviceConns[m] = Sending(m)
         /\ serviceConns' = [serviceConns EXCEPT ![m] = Sending(m)']
<1>1. \A n \in Msmts \ {m} : Sending(n)' = Sending(n)
  BY StreamType DEF Sending
<1> QED BY <1>1 DEF serviceConns

LEMMA MapUnchanged ==
  /\ UNCHANGED opc => UNCHANGED servicePhase
  /\ UNCHANGED mgr => UNCHANGED serviceClient
  /\ UNCHANGED csock => UNCHANGED serviceConns
  /\ UNCHANGED bytes => UNCHANGED serviceReceived
BY DEF servicePhase, serviceClient, serviceConns, serviceReceived, Sending

LEMMA ServiceInit == Init => Service!Init
<1> SUFFICES ASSUME Init PROVE Service!Init
  OBVIOUS
<1> USE DEF Init, NetInit, ServerInit, ClientInit
<1>1. servicePhase = [m \in Msmts |-> "idle"]
  BY DEF servicePhase, PhaseOf
<1>2. serviceClient = [m \in Msmts |-> "waiting"]
  BY DEF serviceClient, ClientOf
<1>3. serviceConns = [m \in Msmts |-> {}]
  BY StreamType DEF serviceConns, Sending
<1>4. serviceReceived = [m \in Msmts |-> [i \in 1..NumStreams |-> 0]]
  BY StreamType DEF serviceReceived
<1> QED BY <1>1, <1>2, <1>3, <1>4 DEF Service!Init, Service!Indices

\* Two tables of the counters that differ at one entry only.
Index == 1..NumStreams
Table == [Msmts -> [Index -> Nat]]

LEMMA OneEntry ==
  ASSUME NEW r \in Table, NEW q \in Table, NEW m \in Msmts, NEW i \in Index,
         \A n \in Msmts, j \in Index : n # m \/ j # i => q[n][j] = r[n][j]
  PROVE  q = [r EXCEPT ![m][i] = q[m][i]]
<1> DEFINE e == [r EXCEPT ![m][i] = q[m][i]]
<1> USE DEF Table
<1>1. ASSUME NEW n \in Msmts PROVE q[n] = e[n]
  <2>1. CASE n # m
    BY <2>1
  <2>2. CASE n = m
    BY <2>2
  <2> QED BY <2>1, <2>2
<1>2. e \in Table
  OBVIOUS
<1> HIDE DEF e
<1>3. q = e
  BY <1>1, <1>2
<1> QED BY <1>3 DEF e

\* A step of a server's worker counts bytes, ends the server or does not show.
LEMMA WorkerService ==
  ASSUME Inv, NEW s \in Stream, Worker(s), UNCHANGED clientVars
  PROVE  Service!Next \/ UNCHANGED serviceVars
<1> USE DEF Goto, serverVars, netVars, ports, conns, counters, clientVars
<1>1. CASE Count(s)
  <2> DEFINE m == s[1]  i == s[2]
  <2>1. m \in Msmts /\ i \in 1..NumStreams /\ s = <<m, i>>
    BY StreamType
  <2>2. /\ bytes' = [bytes EXCEPT ![s] = @ + got[s]]
        /\ bytes[s] \in Nat /\ bytes'[s] \in Nat /\ bytes[s] <= bytes'[s]
    BY <1>1, CountTypes, ConstantType DEF Count, Inv
  <2>3. serviceReceived[m][i] = bytes[s] /\ serviceReceived'[m][i] = bytes'[s]
    BY <2>1 DEF serviceReceived
  <2>4. serviceReceived' = [serviceReceived EXCEPT ![m][i] = serviceReceived'[m][i]]
    <3>1. \A n \in Msmts, j \in 1..NumStreams : <<n, j>> \in Stream
      BY StreamType
    <3>2. ASSUME NEW n \in Msmts, NEW j \in 1..NumStreams, n # m \/ j # i
          PROVE  bytes'[<<n, j>>] = bytes[<<n, j>>]
      BY <2>1, <2>2, <3>1, <3>2, CountTypes DEF Inv
    <3>3. serviceReceived \in Table /\ serviceReceived' \in Table
      BY <2>2, <3>1, CountTypes, ConstantType DEF Index, Table, serviceReceived, Inv, Count
    <3>4. \A n \in Msmts, j \in Index :
             /\ serviceReceived[n][j] = bytes[<<n, j>>]
             /\ serviceReceived'[n][j] = bytes'[<<n, j>>]
      BY DEF serviceReceived, Index
    <3>5. \A n \in Msmts, j \in Index :
             n # m \/ j # i => serviceReceived'[n][j] = serviceReceived[n][j]
      BY <3>2, <3>4 DEF Index
    <3>6. m \in Msmts /\ i \in Index
      BY <2>1 DEF Index
    <3> HIDE DEF m, i
    <3>7. PICK r \in Table : r = serviceReceived
      BY <3>3
    <3>8. PICK q \in Table : q = serviceReceived'
      BY <3>3
    <3>9. q = [r EXCEPT ![m][i] = q[m][i]]
      <4>1. \A n \in Msmts, j \in Index : n # m \/ j # i => q[n][j] = r[n][j]
        BY <3>5, <3>7, <3>8
      <4>2. PICK k \in Msmts, o \in Index : k = m /\ o = i
        BY <3>6
      <4>3. \A n \in Msmts, j \in Index : n # k \/ j # o => q[n][j] = r[n][j]
        BY <4>1, <4>2
      <4>4. q = [r EXCEPT ![k][o] = q[k][o]]
        BY <4>3, OneEntry
      <4> QED BY <4>2, <4>4
    <3> QED BY <3>7, <3>8, <3>9
  <2>5. servicePhase[m] # "idle"
    <3>1. opc[m] \in ObjectPc /\ opc[m] # "none"
      BY <1>1, <2>1, PortTypes DEF Count, Inv, PortInv, Early
    <3> QED BY <2>1, <3>1 DEF servicePhase, PhaseOf, ObjectPc
  <2>6. up /\ UNCHANGED <<up, servicePhase, serviceClient, serviceConns, result>>
    BY <1>1, MapUnchanged DEF Worker, Count
  <2>7. Service!Receive(m, i)
    BY <2>2, <2>3, <2>4, <2>5, <2>6 DEF Service!Receive
  <2> QED BY <2>1, <2>7 DEF Service!Next, Service!Indices
<1>2. CASE Exit
  <2>1. up' = FALSE /\ UNCHANGED <<opc, mgr, csock, bytes, result>>
    BY <1>2 DEF Exit
  <2> QED BY <2>1, MapUnchanged DEF Service!Next, Service!Fail
<1>3. CASE ~Count(s) /\ ~Exit
  <2>1. UNCHANGED <<opc, mgr, csock>>
    BY WorkerSession
  <2>2. UNCHANGED <<bytes, result>>
    <3>1. CASE FindPort(s)
      BY <1>3, <3>1 DEF FindPort, Listen, ListenFails, LoadPorts, StorePorts, TornAppend
    <3>2. CASE Accept(s) \/ AcceptClosed(s) \/ StoreSock(s)
      BY <3>2 DEF Accept, AcceptClosed, StoreSock
    <3>3. CASE Read(s) \/ ReadFromUDP(s)
      BY <3>3 DEF Read, ReadFromUDP
    <3>4. CASE ReadEOF(s) \/ ReadClosed(s) \/ ReadClosedUDP(s) \/ ReadIdle(s)
      BY <3>4 DEF ReadEOF, ReadClosed, ReadClosedUDP, ReadIdle
    <3>5. CASE AcceptStream(s) \/ AcceptStreamTimeout(s) \/ ReadNoError(s)
      BY <3>5 DEF AcceptStream, AcceptStreamTimeout, ReadNoError
    <3> QED BY <1>3, <3>1, <3>2, <3>3, <3>4, <3>5
            DEF Worker, tcpServerWorker, tcpTlsServerWorker, udpServerWorker,
                quicServerWorker, ReadTruncated, ReadFails, AcceptStreamFails
  <2>3. UNCHANGED up
    BY <1>3
       DEF Worker, tcpServerWorker, tcpTlsServerWorker, udpServerWorker,
           quicServerWorker, FindPort, Listen, ListenFails, LoadPorts, StorePorts, TornAppend,
           Accept, AcceptClosed, StoreSock, Read, ReadFromUDP, ReadEOF, ReadClosed,
           ReadClosedUDP, ReadIdle, AcceptStream, AcceptStreamTimeout, ReadNoError,
           ReadTruncated, ReadFails, AcceptStreamFails
  <2> QED BY <2>1, <2>2, <2>3, MapUnchanged DEF serviceVars
<1> QED BY <1>1, <1>2, <1>3

\* The handlers start a measurement, answer for it and stop it.
LEMMA ObjectService ==
  ASSUME Inv, NEW m \in Msmts, up, New(m) \/ Object(m), UNCHANGED clientVars
  PROVE  Service!Next \/ UNCHANGED serviceVars
<1> USE DEF Goto, Become, serverVars, netVars, ports, conns, counters, clientVars
<1>0. opc \in [Msmts -> ObjectPc]
  BY PortTypes DEF Inv
<1>1. ASSUME NEW l \in ObjectPc, opc' = [opc EXCEPT ![m] = l],
             UNCHANGED <<up, mgr, csock, bytes>>
      PROVE  /\ servicePhase[m] = PhaseOf(opc[m])
             /\ servicePhase' = [servicePhase EXCEPT ![m] = PhaseOf(l)]
             /\ UNCHANGED <<up, serviceClient, serviceConns, serviceReceived>>
  BY <1>0, <1>1, MapObject, MapUnchanged
<1>2. CASE New(m)
  <2>1. /\ opc[m] = "none" /\ opc' = [opc EXCEPT ![m] = "make"] /\ "make" \in ObjectPc
        /\ UNCHANGED <<up, mgr, csock, bytes, result>>
    BY <1>2 DEF New, ObjectPc
  <2>2. Service!Start(m)
    BY <1>1, <2>1 DEF Service!Start, Service!Phase, PhaseOf
  <2> QED BY <2>2 DEF Service!Next
<1>3. CASE ReplyPorts(m)
  <2>1. /\ opc[m] = "wait" /\ opc' = [opc EXCEPT ![m] = "running"] /\ "running" \in ObjectPc
        /\ UNCHANGED <<up, mgr, csock, bytes, result>>
    BY <1>3 DEF ReplyPorts, ObjectPc
  <2>2. Service!Started(m)
    BY <1>1, <2>1 DEF Service!Started, Service!Phase, PhaseOf
  <2> QED BY <2>2 DEF Service!Next
<1>4. CASE GetMsmtInfo(m) \/ CloseConn(m)
  <2>1. /\ Len(data[m]) = NumStreams
        /\ result' = [result EXCEPT ![m] = data[m]]
        /\ UNCHANGED <<up, mgr, csock, bytes>>
    BY <1>4 DEF GetMsmtInfo, CloseConn, ReplyWith
  <2>2. Service!Report(m)
    <3>1. data[m] \in [1..NumStreams -> Nat] /\ DOMAIN data[m] = 1..NumStreams
      BY <2>1, CountTypes DEF Inv
    <3>2. result'[m] = data[m] /\ result' = [result EXCEPT ![m] = result'[m]]
      BY <2>1, CountTypes DEF Inv
    <3>3. \A i \in 1..NumStreams : serviceReceived[m][i] = bytes[<<m, i>>]
      BY DEF serviceReceived
    <3> QED BY <3>1, <3>2, <3>3 DEF Service!Report, Service!Indices, Inv, CountInv
  <2>3. CASE GetMsmtInfo(m)
    <3>1. opc[m] = "info" /\ opc' = [opc EXCEPT ![m] = "running"] /\ "running" \in ObjectPc
      BY <2>3 DEF GetMsmtInfo, ObjectPc
    <3>2. Service!Answer(m)
      BY <1>1, <2>1, <2>2, <3>1 DEF Service!Answer, Service!Phase, PhaseOf
    <3> QED BY <3>2 DEF Service!Next
  <2>4. CASE CloseConn(m)
    <3>1. opc[m] = "report" /\ opc' = [opc EXCEPT ![m] = "closed"] /\ "closed" \in ObjectPc
      BY <2>4 DEF CloseConn, ObjectPc
    <3>2. Service!Stopped(m)
      BY <1>1, <2>1, <2>2, <3>1 DEF Service!Stopped, Service!Phase, PhaseOf
    <3> QED BY <3>2 DEF Service!Next
  <2> QED BY <1>4, <2>3, <2>4
<1>5. CASE StartWorker(m) \/ Closed(m)
  <2>1. PICK l \in ObjectPc :
          /\ opc' = [opc EXCEPT ![m] = l]
          /\ \/ opc[m] = "make" /\ l \in {"make", "wait"}
             \/ opc[m] = "closing" /\ l = "report"
    BY <1>5 DEF StartWorker, Closed, ObjectPc
  <2>2. UNCHANGED <<up, mgr, csock, bytes, result>>
    BY <1>5 DEF StartWorker, Closed
  <2>3. UNCHANGED servicePhase
    <3>1. PhaseOf(l) = PhaseOf(opc[m])
      BY <2>1 DEF PhaseOf
    <3>2. \A n \in Msmts : PhaseOf(opc'[n]) = PhaseOf(opc[n])
      BY <2>1, <3>1, PortTypes DEF Inv
    <3> QED BY <3>2 DEF servicePhase
  <2> QED BY <2>2, <2>3, MapUnchanged DEF serviceVars
<1>6. CASE ReadCounter(m)
  BY <1>6, MapUnchanged DEF ReadCounter, serviceVars
<1>7. ASSUME NEW s \in Stream,
             \/ Heartbeat(s)
             \/ CloseStreamTCP(s) \/ CloseStreamUDP(s) \/ CloseStreamQuic(s)
      PROVE  UNCHANGED serviceVars
  BY <1>7, MapUnchanged
     DEF Heartbeat, CloseStreamTCP, CloseStreamUDP, CloseStreamQuic, serviceVars
<1>8. Streams(m) \subseteq Stream
  BY StreamType
<1> QED BY <1>2, <1>3, <1>4, <1>5, <1>6, <1>7, <1>8 DEF Object

\* A client worker that leaves or closes is one sender less.
LEMMA ClientWorkerService ==
  ASSUME Inv, NEW c \in Stream, ClientWorker(c)
  PROVE  Service!Next \/ UNCHANGED serviceVars
<1> USE DEF serverVars, netVars, conns, counters, clientVars
<1>1. UNCHANGED <<up, opc, mgr, bytes, result>>
  BY DEF ClientWorker, Dial, Handshake, HandshakeQuic, DialUDP, DialFails, Write,
         Leave, LeaveIdle, Close
<1>2. CASE Write(c)
  BY <1>1, <1>2, MapUnchanged DEF Write, serviceVars
<1>3. CASE ~Write(c)
  <2>1. PICK l : /\ csock' = [csock EXCEPT ![c] = l]
                 /\ csock[c] \in {"dial", "handshake", "open"}
    BY <1>3 DEF ClientWorker, Dial, Handshake, HandshakeQuic, DialUDP, DialFails, Leave,
                LeaveIdle, Close, SockTo
  <2> DEFINE m == c[1]
  <2>2. m \in Msmts /\ \A d \in Stream : d[1] # m => csock'[d] = csock[d]
    BY <2>1, StreamType, SessionTypes DEF Inv
  <2>3. Sending(m)' \subseteq Sending(m)
    BY <2>1, StreamType, SessionTypes DEF Inv, Sending
  <2>4. Service!Drop(m)
    <3>1. /\ serviceConns[m] = Sending(m)
          /\ serviceConns' = [serviceConns EXCEPT ![m] = Sending(m)']
      BY <2>2, MapWorkers
    <3>2. UNCHANGED <<up, servicePhase, serviceClient, serviceReceived, result>>
      BY <1>1, MapUnchanged
    <3> QED BY <2>3, <3>1, <3>2 DEF Service!Drop
  <2> QED BY <2>2, <2>4 DEF Service!Next
<1> QED BY <1>2, <1>3

LEMMA ManagerService ==
  ASSUME Inv, NEW m \in Msmts, Manager(m) \/ Kill(m)
  PROVE  Service!Next \/ UNCHANGED serviceVars
<1> USE DEF Manage, Become, serverVars, netVars, conns, counters
<1>0. /\ opc \in [Msmts -> ObjectPc]
      /\ mgr \in [Msmts -> {"start", "run", "closing", "stop", "over", "dead"}]
  BY SessionTypes DEF Inv
<1>1. /\ servicePhase[m] = PhaseOf(opc[m]) /\ serviceClient[m] = ClientOf(mgr[m])
      /\ serviceConns[m] = Sending(m)
  BY DEF servicePhase, serviceClient, serviceConns
<1>2. CASE NewMsmtClient(m)
  <2>1. /\ mgr[m] = "start" /\ told[m] # <<>> /\ mgr' = [mgr EXCEPT ![m] = "run"]
        /\ \A c \in Stream : c[1] # m => csock'[c] = csock[c]
        /\ UNCHANGED <<up, opc, bytes, result>>
    BY <1>2 DEF NewMsmtClient
  <2>2. opc[m] = "running"
    BY <2>1 DEF Inv, SessionInv, InStep, NotTold, Expected
  <2>3. /\ serviceClient' = [serviceClient EXCEPT ![m] = "measuring"]
        /\ serviceConns' = [serviceConns EXCEPT ![m] = Sending(m)']
        /\ UNCHANGED <<up, servicePhase, serviceReceived, result>>
    BY <1>0, <2>1, MapManager, MapWorkers, MapUnchanged DEF ClientOf
  <2>4. Sending(m)' \in SUBSET Service!Indices
    BY DEF Sending, Service!Indices
  <2>5. Service!Begin(m)
    BY <1>1, <2>1, <2>2, <2>3, <2>4 DEF Service!Begin, Service!Client, PhaseOf, ClientOf
  <2> QED BY <2>5 DEF Service!Next
<1>3. ASSUME NEW label \in {"over", "dead"}, EndClient(m, label)
      PROVE  /\ serviceClient' = [serviceClient EXCEPT ![m] = label]
             /\ serviceConns' = [serviceConns EXCEPT ![m] = {}]
             /\ UNCHANGED <<up, servicePhase, serviceReceived, result>>
  <2>1. /\ mgr' = [mgr EXCEPT ![m] = label]
        /\ csock' = [c \in Stream |-> IF c[1] = m /\ csock[c] \notin {"none", "closed"}
                                      THEN "killed" ELSE csock[c]]
        /\ UNCHANGED <<up, opc, bytes, result>>
    BY <1>3 DEF EndClient
  <2>2. Sending(m)' = {}
    BY <2>1, StreamType DEF Sending
  <2>3. \A c \in Stream : c[1] # m => csock'[c] = csock[c]
    BY <2>1
  <2>4. serviceConns' = [serviceConns EXCEPT ![m] = {}]
    BY <2>2, <2>3, MapWorkers
  <2> QED BY <1>0, <2>1, <2>4, MapManager, MapUnchanged DEF ClientOf
<1>4. CASE Return(m)
  <2>1. mgr[m] = "stop" /\ opc[m] = "closed" /\ EndClient(m, "over")
    BY <1>4 DEF Return
  <2>2. Service!Return(m)
    BY <1>1, <1>3, <2>1 DEF Service!Return, Service!Client, PhaseOf, ClientOf
  <2> QED BY <2>2 DEF Service!Next
<1>5. CASE ExitClient(m) \/ Kill(m)
  <2>1. EndClient(m, "dead")
    BY <1>5 DEF ExitClient, Kill
  <2>2. mgr[m] \in {"start", "run", "closing", "stop"}
    <3>1. CASE ExitClient(m)
      <4>1. PICK c \in Stream : /\ c[1] = m /\ m \notin QuicMsmts
                                /\ csock[c] \in {"dial", "open"}
        BY <3>1, StreamType, ModuleType DEF ExitClient, DatagramMsmts
      <4> QED BY <4>1 DEF Inv, SessionInv, Senders
    <3> QED BY <1>5, <3>1 DEF Kill
  <2>3. Service!Die(m)
    BY <1>1, <1>3, <2>1, <2>2 DEF Service!Die, Service!Client, ClientOf
  <2> QED BY <2>3 DEF Service!Next
<1>6. CASE AskInfo(m)
  <2>1. /\ mgr[m] = "run" /\ opc[m] = "running" /\ opc' = [opc EXCEPT ![m] = "info"]
        /\ UNCHANGED <<up, mgr, csock, bytes, result>>
    BY <1>6 DEF AskInfo
  <2>2. /\ servicePhase' = [servicePhase EXCEPT ![m] = "asked"]
        /\ UNCHANGED <<serviceClient, serviceConns, serviceReceived>>
    BY <1>0, <2>1, MapObject, MapUnchanged DEF PhaseOf, ObjectPc
  <2>3. Service!Ask(m)
    BY <1>1, <2>1, <2>2 DEF Service!Ask, Service!Phase, PhaseOf, ClientOf
  <2> QED BY <2>3 DEF Service!Next
<1>7. CASE Finish(m) \/ Deadline(m)
  <2>1. /\ mgr[m] = "run" /\ opc[m] = "running" /\ mgr' = [mgr EXCEPT ![m] = "closing"]
        /\ UNCHANGED <<up, opc, csock, bytes, result>>
    BY <1>7 DEF Finish, Deadline
  <2>2. /\ serviceClient' = [serviceClient EXCEPT ![m] = "closing"]
        /\ UNCHANGED <<servicePhase, serviceConns, serviceReceived>>
    BY <1>0, <2>1, MapManager, MapUnchanged DEF ClientOf
  <2>3. Service!Finish(m)
    BY <1>1, <2>1, <2>2 DEF Service!Finish, Service!Client, PhaseOf, ClientOf
  <2> QED BY <2>3 DEF Service!Next
<1>8. CASE AskStop(m) \/ (DeadlineQuic(m) /\ m \in QuicMsmts)
  <2>1. /\ mgr[m] \in {"run", "closing"} /\ opc[m] = "running"
        /\ mgr' = [mgr EXCEPT ![m] = "stop"] /\ opc' = [opc EXCEPT ![m] = "closing"]
        /\ UNCHANGED <<up, csock, bytes, result>>
        /\ m \in QuicMsmts \/ (mgr[m] = "closing" /\ WorkersDone(m))
    BY <1>8 DEF AskStop, DeadlineQuic
  <2>2. /\ servicePhase' = [servicePhase EXCEPT ![m] = "stopping"]
        /\ serviceClient' = [serviceClient EXCEPT ![m] = "stopping"]
        /\ UNCHANGED <<serviceConns, serviceReceived>>
    BY <1>0, <2>1, MapObject, MapManager, MapUnchanged DEF PhaseOf, ClientOf, ObjectPc
  <2>3. WorkersDone(m) => Sending(m) = {}
    BY StreamType DEF WorkersDone, Sending, Streams
  <2>4. Service!AskStop(m)
    BY <1>1, <2>1, <2>2, <2>3 DEF Service!AskStop, Service!Phase, Service!Client,
                                  PhaseOf, ClientOf
  <2> QED BY <2>4 DEF Service!Next
<1> QED BY <1>2, <1>4, <1>5, <1>6, <1>7, <1>8
        DEF Manager, manageTcpMsmt, manageTcpTlsMsmt, manageUdpMsmt, manageQuicMsmt

\* The measurement plane implements the service: its initial states are the
\* service's, and each of its steps is a step of the service or does not show.
THEOREM Implements == Spec => ServiceSpec
<1>1. Inv /\ [Next]_vars => [Service!Next]_(Service!vars)
  <2> SUFFICES ASSUME Inv, [Next]_vars
               PROVE  Service!Next \/ UNCHANGED serviceVars
    BY DEF Service!vars, serviceVars
  <2>1. CASE UNCHANGED vars
    BY <2>1, MapUnchanged DEF vars, netVars, serverVars, clientVars, counters, serviceVars
  <2>2. ASSUME NEW c \in Stream, Lose(c), UNCHANGED <<serverVars, clientVars>>
        PROVE  UNCHANGED serviceVars
    BY <2>2, MapUnchanged DEF Lose, serverVars, clientVars, counters, serviceVars
  <2> QED BY <2>1, <2>2, ObjectService, WorkerService, ClientWorkerService,
             ManagerService DEF Next, ServerNext, ClientNext, Object
<1> QED BY <1>1, ServiceInit, Invariance, PTL DEF Spec, ServiceSpec, Service!Spec
=============================================================================
