----------------------- MODULE ThroughputBytes_proof -----------------------
(***************************************************************************)
(* Proofs about how the clients of the measurement plane end and what they *)
(* are told of their bytes: which deaths take the server along, and that   *)
(* no measurement that is undisturbed counts more than its own client has  *)
(* sent.                                                                   *)
(***************************************************************************)
EXTENDS Throughput_proof, SumTheorems

endVars == <<mgr, finished, csock>>

\* The server and the network leave the clients alone.
LEMMA ClientsKept ==
  ASSUME \/ \E m \in Msmts : New(m) \/ Object(m)
         \/ \E s \in Stream : Worker(s)
         \/ \E c \in Stream : Lose(c),
         UNCHANGED clientVars
  PROVE  UNCHANGED endVars
<1> USE DEF endVars, clientVars, netVars
<1>1. ASSUME NEW m \in Msmts, New(m) \/ Object(m) PROVE UNCHANGED endVars
  BY <1>1 DEF New, Object, StartWorker, ReplyPorts, Closed, ReadCounter, GetMsmtInfo,
              CloseConn, ReplyWith, Heartbeat, CloseStreamTCP, CloseStreamUDP,
              CloseStreamQuic
<1>2. ASSUME NEW s \in Stream, Worker(s) PROVE UNCHANGED endVars
  BY <1>2, WorkerSession
<1>3. ASSUME NEW c \in Stream, Lose(c) PROVE UNCHANGED endVars
  BY <1>3 DEF Lose
<1> QED BY <1>1, <1>2, <1>3

\* What a manager and a killer do.
LEMMA ManagerMoves ==
  ASSUME TypeInv, SessionInv, NEW m \in Msmts, Manager(m) \/ Kill(m)
  PROVE  \/ UNCHANGED endVars
         \/ mgr[m] = "start" /\ NewMsmtClient(m)
         \/ mgr[m] \in {"start", "run", "closing", "stop"} /\ EndClient(m, "dead")
         \/ mgr[m] = "stop" /\ EndClient(m, "over")
         \/ Finish(m)
         \/ Deadline(m) /\ m \notin QuicMsmts
         \/ AskStop(m)
         \/ DeadlineQuic(m) /\ m \in QuicMsmts
<1>1. CASE NewMsmtClient(m)
  BY <1>1 DEF NewMsmtClient
<1>2. CASE ExitClient(m)
  <2>1. PICK c \in Stream : /\ c[1] = m /\ m \notin QuicMsmts
                            /\ csock[c] \in {"dial", "open"}
    BY <1>2, StreamType, ModuleType DEF ExitClient, DatagramMsmts
  <2>2. mgr[m] \in {"run", "closing"}
    BY <2>1 DEF SessionInv, Senders
  <2> QED BY <1>2, <2>2 DEF ExitClient
<1>3. CASE Kill(m)
  BY <1>3 DEF Kill
<1>4. CASE Return(m)
  BY <1>4 DEF Return
<1>5. CASE AskInfo(m)
  BY <1>5 DEF AskInfo, endVars, netVars
<1>6. CASE Deadline(m) /\ m \in TcpMsmts \cup TlsMsmts \cup UdpMsmts
  BY <1>6, ModuleType DEF DatagramMsmts
<1> QED BY <1>1, <1>2, <1>3, <1>4, <1>5, <1>6
        DEF Manager, manageTcpMsmt, manageTcpTlsMsmt, manageUdpMsmt, manageQuicMsmt

\* A client's worker moves on, and is closed by its manager only.
LEMMA SocketMoves ==
  ASSUME NEW c \in Stream, ClientWorker(c)
  PROVE  \/ UNCHANGED endVars
         \/ /\ csock[c] \in {"dial", "handshake", "open"}
            /\ \E l \in {"handshake", "open", "closed", "left"} :
                 /\ csock' = [csock EXCEPT ![c] = l]
                 /\ l = "closed" => mgr[c[1]] = "closing"
            /\ UNCHANGED <<mgr, finished>>
BY DEF ClientWorker, Dial, Handshake, HandshakeQuic, DialUDP, Write, DialFails, Leave,
       LeaveIdle, Close, SockTo, endVars, clientVars

\* What is known of a manager's move, for the invariants of its client's end.
LEMMA MoveEffect ==
  ASSUME TypeInv, SessionInv, NEW m \in Msmts, Manager(m) \/ Kill(m)
  PROVE  \/ UNCHANGED endVars
         \/ /\ mgr[m] = "start" /\ mgr' = [mgr EXCEPT ![m] = "run"]
            /\ csock' = [c \in Stream |-> IF c[1] = m /\ c[2] \in DOMAIN told[m]
                                          THEN "dial" ELSE csock[c]]
            /\ UNCHANGED finished
         \/ /\ \E l \in {"dead", "over"} :
                 /\ mgr' = [mgr EXCEPT ![m] = l]
                 /\ \/ l = "dead" /\ mgr[m] \in {"start", "run", "closing", "stop"}
                    \/ l = "over" /\ mgr[m] = "stop"
            /\ csock' = [c \in Stream |-> IF c[1] = m /\ csock[c] \notin {"none", "closed"}
                                          THEN "killed" ELSE csock[c]]
            /\ UNCHANGED finished
         \/ /\ mgr[m] = "run" /\ mgr' = [mgr EXCEPT ![m] = "closing"]
            /\ \/ finished' = finished \cup {m} /\ msmtFinished(m)
               \/ UNCHANGED finished /\ m \notin QuicMsmts
            /\ UNCHANGED csock
         \/ /\ mgr' = [mgr EXCEPT ![m] = "stop"]
            /\ \/ mgr[m] = "closing" /\ WorkersDone(m)
               \/ mgr[m] = "run" /\ m \in QuicMsmts
            /\ UNCHANGED <<csock, finished>>
<1> USE DEF Manage, netVars
<1>1. CASE mgr[m] = "start" /\ NewMsmtClient(m)
  BY <1>1 DEF NewMsmtClient
<1>2. CASE mgr[m] \in {"start", "run", "closing", "stop"} /\ EndClient(m, "dead")
  BY <1>2 DEF EndClient
<1>3. CASE mgr[m] = "stop" /\ EndClient(m, "over")
  BY <1>3 DEF EndClient
<1>4. CASE Finish(m) \/ (Deadline(m) /\ m \notin QuicMsmts)
  BY <1>4 DEF Finish, Deadline
<1>5. CASE AskStop(m) \/ (DeadlineQuic(m) /\ m \in QuicMsmts)
  BY <1>5 DEF AskStop, DeadlineQuic
<1> QED BY <1>1, <1>2, <1>3, <1>4, <1>5, ManagerMoves

-----------------------------------------------------------------------------
(* Clients that are cut off *)

LEMMA EndTypes ==
  ASSUME TypeInv
  PROVE  /\ mgr \in [Msmts -> {"start", "run", "closing", "stop", "over", "dead"}]
         /\ csock \in [Stream -> {"none", "dial", "handshake", "open", "closed",
                                  "left", "killed"}]
         /\ finished \in SUBSET Msmts
BY DEF TypeInv, TypeOK, NetTypeOK, ClientTypeOK

\* Who is cut off stays so: an abrupt client is only ever killed.
LEMMA CutOffStays ==
  ASSUME TypeInv, SessionInv, [Next]_vars
  PROVE  \A n \in Msmts : n \in CutOff => n \in CutOff'
<1> DEFINE Stays == \A n \in Msmts : n \in CutOff => n \in CutOff'
<1> USE DEF CutOff
<1>1. CASE UNCHANGED endVars
  BY <1>1 DEF endVars, Abrupt
<1>2. ASSUME NEW c \in Stream, ClientWorker(c) PROVE Stays
  BY <1>2, SocketMoves, <1>1 DEF Abrupt
<1>3. ASSUME NEW m \in Msmts, Manager(m) \/ Kill(m) PROVE Stays
  <2>1. CASE mgr[m] = "start" /\ mgr' = [mgr EXCEPT ![m] = "run"] /\ UNCHANGED finished
    BY <2>1, EndTypes DEF Abrupt
  <2>2. ASSUME NEW l \in {"dead", "over"}, mgr' = [mgr EXCEPT ![m] = l],
               UNCHANGED finished,
               \/ l = "dead" /\ mgr[m] \in {"start", "run", "closing", "stop"}
               \/ l = "over" /\ mgr[m] = "stop"
        PROVE  Stays
    BY <2>2, EndTypes DEF Abrupt
  <2>3. CASE /\ mgr[m] = "run" /\ mgr' = [mgr EXCEPT ![m] = "closing"]
             /\ finished' = finished \cup {m} \/ UNCHANGED finished
    BY <2>3, EndTypes DEF Abrupt
  <2>4. CASE /\ mgr[m] \in {"closing", "run"} /\ mgr' = [mgr EXCEPT ![m] = "stop"]
             /\ UNCHANGED finished
    BY <2>4, EndTypes DEF Abrupt
  <2> QED BY <1>1, <1>3, <2>1, <2>2, <2>3, <2>4, MoveEffect
<1>4. CASE UNCHANGED vars
  BY <1>1, <1>4 DEF vars, endVars, clientVars, netVars
<1> QED BY <1>1, <1>2, <1>3, <1>4, ClientsKept DEF Next, ServerNext, ClientNext

LEMMA OrderStep ==
  ASSUME TypeInv, SessionInv, Finished, Orderly, Ends, [Next]_vars
  PROVE  Finished' /\ Orderly' /\ Ends'
<1> DEFINE Goal == Finished' /\ Orderly' /\ Ends'
<1> USE EndTypes, StreamType DEF CutOff
<1>1. CASE UNCHANGED endVars
  BY <1>1 DEF endVars, Finished, Orderly, Ends, Abrupt
<1>2. ASSUME NEW c \in Stream, ClientWorker(c) PROVE Goal
  <2>1. CASE UNCHANGED endVars
    BY <1>1, <2>1
  <2>2. ASSUME NEW l \in {"handshake", "open", "closed", "left"},
               csock[c] \in {"dial", "handshake", "open"},
               csock' = [csock EXCEPT ![c] = l], l = "closed" => mgr[c[1]] = "closing",
               UNCHANGED <<mgr, finished>>
        PROVE  Goal
    <3>1. Finished'
      BY <2>2 DEF Finished
    <3>2. Orderly'
      BY <2>2 DEF Orderly, Abrupt
    <3>3. Ends'
      BY <2>2 DEF Ends, Abrupt, Finished
    <3> QED BY <3>1, <3>2, <3>3
  <2> QED BY <1>2, <2>1, <2>2, SocketMoves
<1>3. ASSUME NEW m \in Msmts, Manager(m) \/ Kill(m) PROVE Goal
  <2>1. CASE /\ mgr[m] = "start" /\ mgr' = [mgr EXCEPT ![m] = "run"]
             /\ csock' = [c \in Stream |-> IF c[1] = m /\ c[2] \in DOMAIN told[m]
                                           THEN "dial" ELSE csock[c]]
             /\ UNCHANGED finished
    BY <2>1 DEF Finished, Orderly, Ends, Abrupt
  <2>2. ASSUME NEW l \in {"dead", "over"}, mgr' = [mgr EXCEPT ![m] = l],
               \/ l = "dead" /\ mgr[m] \in {"start", "run", "closing", "stop"}
               \/ l = "over" /\ mgr[m] = "stop",
               csock' = [c \in Stream |-> IF c[1] = m /\ csock[c] \notin {"none", "closed"}
                                          THEN "killed" ELSE csock[c]],
               UNCHANGED finished
        PROVE  Goal
    <3>1. Finished'
      BY <2>2 DEF Finished
    <3>2. Orderly'
      BY <2>2 DEF Orderly, Abrupt
    <3>3. Ends'
      BY <2>2 DEF Orderly, Ends, Abrupt
    <3> QED BY <3>1, <3>2, <3>3
  <2>3. CASE /\ mgr[m] = "run" /\ mgr' = [mgr EXCEPT ![m] = "closing"]
             /\ \/ finished' = finished \cup {m}
                \/ UNCHANGED finished /\ m \notin QuicMsmts
             /\ UNCHANGED csock
    BY <2>3 DEF Finished, Orderly, Ends, Abrupt
  <2>4. CASE /\ mgr' = [mgr EXCEPT ![m] = "stop"]
             /\ \/ mgr[m] = "closing" /\ WorkersDone(m)
                \/ mgr[m] = "run" /\ m \in QuicMsmts
             /\ UNCHANGED <<csock, finished>>
    <3>1. Finished' /\ Ends'
      BY <2>4 DEF Finished, Ends, Abrupt
    <3>2. Orderly'
      BY <2>4 DEF Orderly, Abrupt, WorkersDone, Finished
    <3> QED BY <3>1, <3>2
  <2> QED BY <1>1, <1>3, <2>1, <2>2, <2>3, <2>4, MoveEffect
<1>4. CASE UNCHANGED vars
  BY <1>1, <1>4 DEF vars, endVars, clientVars, netVars
<1> QED BY <1>1, <1>2, <1>3, <1>4, ClientsKept DEF Next, ServerNext, ClientNext

-----------------------------------------------------------------------------
(* Who is connected to whom *)

\* Who dials has its own server worker's socket at the other end, unless its
\* client is an abrupt one.
LEMMA DialsOwn ==
  ASSUME Inv, Orderly, NEW c \in Stream, NEW s \in Stream, csock[c] = "dial",
         listening[s] = Target(c), SameNetwork(s[1], c[1])
  PROVE  c[1] \in {s[1]} \cup Abrupt
<1> USE DEF Inv
<1>1. c[1] \in Msmts /\ c[2] \in DOMAIN told[c[1]]
  BY StreamType DEF SessionInv, Dialled
<1>2. CASE mgr[c[1]] \in {"run", "closing"}
  <2>1. PICK t \in Stream :
          t[1] = c[1] /\ wpc[t] \notin Searching /\ port[t] = told[c[1]][c[2]]
    BY <1>1 DEF PortInv, Lists, PortList
  <2>2. Open(c[1])
    BY <1>1, <1>2 DEF SessionInv, InStep, Expected, Open
  <2>3. listening[t] # None /\ listening[t] = listening[s]
    BY <2>1, <2>2 DEF Target, PortInv, Bound, Searching
  <2>4. SameNetwork(s[1], t[1])
    BY <2>1
  <2> QED BY <2>1, <2>3, <2>4 DEF PortInv, Exclusive
<1>3. CASE mgr[c[1]] = "stop"
  <2>1. c \in Streams(c[1])
    BY StreamType
  <2> QED BY <1>1, <1>3, <2>1 DEF Orderly
<1> QED BY <1>2, <1>3 DEF SessionInv, Senders

linkVars == <<backlog, peer, sock>>

\* Connections are made by Dial, accepted, and closed with a listening socket.
LEMMA LinkSteps ==
  ASSUME TypeInv, [Next]_vars
  PROVE  \/ UNCHANGED linkVars
         \/ \E c \in Stream : Dial(c)
         \/ \E s \in Stream :
              /\ backlog[s] # <<>> /\ peer' = [peer EXCEPT ![s] = Head(backlog[s])]
              /\ sock' = [sock EXCEPT ![s] = "open"]
              /\ backlog' = [backlog EXCEPT ![s] = Tail(backlog[s])]
              /\ UNCHANGED opc
         \/ \E s \in Stream, l \in {"none", "open", "closed"} :
              /\ backlog' = [backlog EXCEPT ![s] = <<>>]
              /\ sock' = [sock EXCEPT ![s] = l]
              /\ sock[s] = "none" => l = "none"
              /\ opc[s[1]] = "closing" /\ UNCHANGED <<peer, opc>>
<1> USE DEF linkVars, serverVars, netVars, conns, Exit
<1>1. CASE UNCHANGED vars
  BY <1>1 DEF vars
<1>2. ASSUME NEW c \in Stream, Lose(c), UNCHANGED <<serverVars, clientVars>>
      PROVE  UNCHANGED linkVars
  BY <1>2 DEF Lose
<1>3. ASSUME NEW m \in Msmts, New(m) PROVE UNCHANGED linkVars
  BY <1>3 DEF New
<1>4. ASSUME NEW s \in Stream, Worker(s), ~Accept(s)
      PROVE  UNCHANGED linkVars
  <2>1. CASE FindPort(s)
    BY <2>1 DEF FindPort, Listen, ListenFails, LoadPorts, StorePorts, TornAppend
  <2>2. CASE AcceptClosed(s) \/ StoreSock(s) \/ Read(s) \/ ReadFromUDP(s) \/ Count(s)
    BY <2>2 DEF AcceptClosed, StoreSock, Read, ReadFromUDP, Count
  <2>3. CASE ReadEOF(s) \/ ReadClosed(s) \/ ReadClosedUDP(s) \/ ReadIdle(s)
    BY <2>3 DEF ReadEOF, ReadClosed, ReadClosedUDP, ReadIdle
  <2>4. CASE AcceptStream(s) \/ AcceptStreamTimeout(s) \/ ReadNoError(s)
             \/ ReadTruncated(s) \/ ReadFails(s) \/ AcceptStreamFails(s)
    BY <2>4 DEF AcceptStream, AcceptStreamTimeout, ReadNoError, ReadTruncated,
                ReadFails, AcceptStreamFails
  <2> QED BY <1>4, <2>1, <2>2, <2>3, <2>4
          DEF Worker, tcpServerWorker, tcpTlsServerWorker, udpServerWorker,
              quicServerWorker
<1>5. ASSUME NEW s \in Stream, Accept(s)
      PROVE  /\ backlog[s] # <<>> /\ peer' = [peer EXCEPT ![s] = Head(backlog[s])]
             /\ sock' = [sock EXCEPT ![s] = "open"]
             /\ backlog' = [backlog EXCEPT ![s] = Tail(backlog[s])]
             /\ UNCHANGED opc
  BY <1>5 DEF Accept
<1> DEFINE Closes(s) == CloseStreamTCP(s) \/ CloseStreamQuic(s)
<1>6. ASSUME NEW m \in Msmts, Object(m), ~ \E s \in Streams(m) : Closes(s)
      PROVE  UNCHANGED linkVars
  BY <1>6 DEF Object, StartWorker, ReplyPorts, Closed, ReadCounter, GetMsmtInfo,
              CloseConn, ReplyWith, Heartbeat, CloseStreamUDP
<1>7. ASSUME NEW s \in Stream, Closes(s)
      PROVE  \E l \in {"none", "open", "closed"} :
               /\ backlog' = [backlog EXCEPT ![s] = <<>>]
               /\ sock' = [sock EXCEPT ![s] = l]
               /\ sock[s] = "none" => l = "none"
               /\ opc[s[1]] = "closing" /\ UNCHANGED <<peer, opc>>
  <2>1. acceptSock[s] => sock[s] # "none"
    BY ConnTypes
  <2>2. sock[s] \in {"none", "open", "closed"}
    BY ConnTypes
  <2>3. CASE CloseStreamTCP(s)
    BY <2>1, <2>2, <2>3 DEF CloseStreamTCP
  <2>4. CASE CloseStreamQuic(s)
    BY <2>2, <2>4 DEF CloseStreamQuic
  <2> QED BY <1>7, <2>3, <2>4
<1>8. ASSUME NEW c \in Stream, ClientWorker(c), ~Dial(c) PROVE UNCHANGED linkVars
  BY <1>8 DEF ClientWorker, Handshake, HandshakeQuic, DialUDP, DialFails, Write, Leave,
              LeaveIdle, Close
<1>9. ASSUME NEW m \in Msmts, Manager(m) \/ Kill(m) PROVE UNCHANGED linkVars
  BY <1>9 DEF Manager, manageTcpMsmt, manageTcpTlsMsmt, manageUdpMsmt, manageQuicMsmt,
              AskInfo, AskStop, DeadlineQuic, NewMsmtClient, Finish, Deadline,
              ExitClient, Return, Kill, EndClient
<1>10. \A m \in Msmts : Streams(m) \subseteq Stream
  BY StreamType
<1> HIDE DEF Closes
<1>11. CASE \E s \in Stream : Closes(s)
  BY <1>7, <1>11
<1>12. CASE ~ \E s \in Stream : Closes(s)
  BY <1>1, <1>2, <1>3, <1>4, <1>5, <1>6, <1>8, <1>9, <1>10, <1>12
     DEF Next, ServerNext, ClientNext
<1> QED BY <1>11, <1>12

\* A client worker that has dialled is known to have for good.
LEMMA DialledStays ==
  ASSUME TypeInv, SessionInv, [Next]_vars
  PROVE  \A c \in Stream : csock[c] # "none" => csock'[c] # "none"
<1> DEFINE Stays == \A c \in Stream : csock[c] # "none" => csock'[c] # "none"
<1>1. CASE UNCHANGED endVars
  BY <1>1 DEF endVars
<1>2. ASSUME NEW c \in Stream, ClientWorker(c) PROVE Stays
  BY <1>1, <1>2, EndTypes, SocketMoves
<1>3. ASSUME NEW m \in Msmts, Manager(m) \/ Kill(m) PROVE Stays
  BY <1>1, <1>3, EndTypes, MoveEffect
<1>4. CASE UNCHANGED vars
  BY <1>1, <1>4 DEF vars, endVars, clientVars, netVars
<1> QED BY <1>1, <1>2, <1>3, <1>4, ClientsKept DEF Next, ServerNext, ClientNext

LEMMA StrangersStep ==
  ASSUME Inv, Orderly, Strangers, [Next]_vars
  PROVE  Strangers'
<1> USE DEF Inv
<1> DEFINE StillLinked(s, c) == csock'[c] # "none" /\ c[1] \in {s[1]} \cup (QuicMsmts \cap CutOff')
<1>1. ASSUME NEW s \in Stream, NEW c \in Stream, Linked(s, c) PROVE StillLinked(s, c)
  <2>1. c[1] \in CutOff => c[1] \in CutOff'
    BY CutOffStays, StreamType
  <2> QED BY <1>1, <2>1, DialledStays DEF Linked
<1>2. ASSUME NEW s \in Stream
      PROVE  /\ \A i \in DOMAIN backlog[s] : StillLinked(s, backlog[s][i])
             /\ sock[s] # "none" => peer[s] \in Stream
             /\ sock[s] # "none" => StillLinked(s, peer[s])
  <2>1. \A i \in DOMAIN backlog[s] : backlog[s][i] \in Stream
    BY ConnTypes
  <2>2. sock[s] # "none" => peer[s] \in Stream
    BY DEF TypeInv
  <2> HIDE DEF StillLinked
  <2> QED BY <1>1, <2>1, <2>2 DEF Strangers
<1>3. SUFFICES ASSUME NEW t \in Stream
               PROVE  /\ \A i \in DOMAIN backlog'[t] : StillLinked(t, backlog'[t][i])
                      /\ sock'[t] # "none" => StillLinked(t, peer'[t])
  BY DEF Strangers, Linked
<1> DEFINE Goal == /\ \A i \in DOMAIN backlog'[t] : StillLinked(t, backlog'[t][i])
                   /\ sock'[t] # "none" => StillLinked(t, peer'[t])
<1>4. CASE UNCHANGED linkVars
  <2> HIDE DEF StillLinked
  <2> QED BY <1>2, <1>4 DEF linkVars
<1>5. ASSUME NEW c \in Stream, Dial(c) PROVE Goal
  <2>1. PICK s \in Stream :
          /\ listening[s] = Target(c) /\ SameNetwork(s[1], c[1])
          /\ backlog' = [backlog EXCEPT ![s] = Append(backlog[s], c)]
    BY <1>5 DEF Dial, Listener
  <2>2. csock[c] = "dial" /\ UNCHANGED <<peer, sock>>
    BY <1>5 DEF Dial, serverVars, conns
  <2>3. Linked(s, c)
    BY <2>1, <2>2, DialsOwn DEF Linked, CutOff, Abrupt
  <2>4. StillLinked(s, c)
    BY <1>1, <2>3
  <2>5. \A i \in DOMAIN Append(backlog[s], c) :
          \/ i \in DOMAIN backlog[s] /\ Append(backlog[s], c)[i] = backlog[s][i]
          \/ Append(backlog[s], c)[i] = c
    BY SMTT(30), ConnTypes
  <2> HIDE DEF StillLinked
  <2>6. CASE t = s
    BY <1>2, <2>1, <2>2, <2>4, <2>5, <2>6, ConnTypes
  <2>7. CASE t # s
    BY <1>2, <2>1, <2>2, <2>7, ConnTypes
  <2> QED BY <2>6, <2>7
<1>6. ASSUME NEW s \in Stream, backlog[s] # <<>>,
             peer' = [peer EXCEPT ![s] = Head(backlog[s])],
             sock' = [sock EXCEPT ![s] = "open"],
             backlog' = [backlog EXCEPT ![s] = Tail(backlog[s])]
      PROVE  Goal
  <2>1. /\ 1 \in DOMAIN backlog[s] /\ Head(backlog[s]) = backlog[s][1]
        /\ \A i \in DOMAIN Tail(backlog[s]) :
             i + 1 \in DOMAIN backlog[s] /\ Tail(backlog[s])[i] = backlog[s][i + 1]
    BY <1>6, ConnTypes
  <2> HIDE DEF StillLinked
  <2>2. CASE t = s
    BY <1>2, <1>6, <2>1, <2>2, ConnTypes
  <2>3. CASE t # s
    BY <1>2, <1>6, <2>3, ConnTypes
  <2> QED BY <2>2, <2>3
<1>7. ASSUME NEW s \in Stream, NEW l \in {"none", "open", "closed"},
             backlog' = [backlog EXCEPT ![s] = <<>>], sock' = [sock EXCEPT ![s] = l],
             sock[s] = "none" => l = "none", UNCHANGED peer
      PROVE  Goal
  <2> HIDE DEF StillLinked
  <2>1. CASE t = s
    BY <1>2, <1>7, <2>1, ConnTypes
  <2>2. CASE t # s
    BY <1>2, <1>7, <2>2, ConnTypes
  <2> QED BY <2>1, <2>2
<1> QED BY <1>4, <1>5, <1>6, <1>7, LinkSteps

-----------------------------------------------------------------------------
(* What a worker has done so far *)

\* A worker counts when it is past its first Read, and does not come back.
LEMMA UnreadStep ==
  ASSUME TypeInv, Unread, [Next]_vars
  PROVE  Unread'
<1> USE DEF serverVars, netVars, counters, Exit, Goto, Beginning
<1>1. CASE UNCHANGED <<wpc, bytes>>
  BY <1>1 DEF Unread
<1>2. ASSUME NEW s \in Stream, NEW l \in WorkerPc, wpc' = [wpc EXCEPT ![s] = l],
             UNCHANGED bytes, wpc[s] \in Before \/ l \notin Before
      PROVE  Unread'
  BY <1>2 DEF Unread, Before, TypeInv, TypeOK, ServerTypeOK
<1>3. ASSUME NEW m \in Msmts, New(m) \/ Object(m) PROVE Unread'
  <2>1. CASE StartWorker(m)
    <3>1. PICK i \in 1..NumStreams : /\ wpc[<<m, i>>] = "none" /\ UNCHANGED bytes
                                     /\ wpc' = [wpc EXCEPT ![<<m, i>>] = "listen"]
      BY <2>1 DEF StartWorker
    <3>2. <<m, i>> \in Stream
      BY StreamType
    <3> QED BY <1>2, <3>1, <3>2 DEF Before, WorkerPc
  <2>2. ASSUME NEW s \in Streams(m), Heartbeat(s) PROVE Unread'
    <3>1. s \in Stream
      BY StreamType
    <3>2. wpc[s] = "beat" /\ UNCHANGED bytes
          /\ \E l \in {"read", "accept"} : wpc' = [wpc EXCEPT ![s] = l]
      BY <2>2 DEF Heartbeat
    <3> QED BY <1>2, <3>1, <3>2 DEF Before, WorkerPc
  <2>3. ASSUME NEW s \in Streams(m),
               CloseStreamTCP(s) \/ CloseStreamUDP(s) \/ CloseStreamQuic(s)
        PROVE  UNCHANGED <<wpc, bytes>>
    BY <2>3 DEF CloseStreamTCP, CloseStreamUDP, CloseStreamQuic
  <2>4. CASE New(m) \/ ReplyPorts(m) \/ Closed(m) \/ ReadCounter(m) \/ GetMsmtInfo(m)
             \/ CloseConn(m)
    BY <1>1, <2>4 DEF New, ReplyPorts, Closed, ReadCounter, GetMsmtInfo, CloseConn,
                      ReplyWith
  <2> QED BY <1>1, <1>3, <2>1, <2>2, <2>3, <2>4 DEF Object
<1>4. ASSUME NEW s \in Stream, Worker(s) PROVE Unread'
  <2>1. CASE Listen(s)
    BY <1>1, <1>2, <2>1 DEF Listen, Before, WorkerPc
  <2>2. CASE LoadPorts(s) \/ StorePorts(s)
    BY <1>2, <2>2 DEF LoadPorts, StorePorts, Before, WorkerPc
  <2>3. CASE \/ ListenFails(s) \/ TornAppend(s)
             \/ ReadTruncated(s) \/ ReadFails(s) \/ AcceptStreamFails(s)
    BY <1>1, <2>3 DEF ListenFails, TornAppend, ReadTruncated, ReadFails, AcceptStreamFails
  <2>4. CASE Accept(s) \/ StoreSock(s)
    BY <1>2, <2>4 DEF Accept, StoreSock, Before, WorkerPc
  <2>5. CASE Read(s) \/ ReadFromUDP(s) \/ AcceptStream(s)
    BY <1>2, <2>5 DEF Read, ReadFromUDP, AcceptStream, Before, WorkerPc
  <2>6. CASE AcceptClosed(s) \/ ReadEOF(s) \/ ReadClosed(s) \/ ReadClosedUDP(s)
    BY <1>2, <2>6 DEF AcceptClosed, ReadEOF, ReadClosed, ReadClosedUDP, Before, WorkerPc
  <2>7. CASE ReadIdle(s) \/ AcceptStreamTimeout(s) \/ ReadNoError(s)
    BY <1>2, <2>7 DEF ReadIdle, AcceptStreamTimeout, ReadNoError, Before, WorkerPc
  <2>8. CASE Count(s)
    <3>1. /\ wpc' = [wpc EXCEPT ![s] = "read"]
          /\ bytes' = [bytes EXCEPT ![s] = @ + got[s]]
      BY <2>8 DEF Count
    <3> QED BY <3>1 DEF Unread, Before, TypeInv, TypeOK, ServerTypeOK
  <2> QED BY <1>4, <2>1, <2>2, <2>3, <2>4, <2>5, <2>6, <2>7, <2>8
          DEF Worker, tcpServerWorker, tcpTlsServerWorker, udpServerWorker,
              quicServerWorker, FindPort
<1>5. ASSUME NEW c \in Stream, ClientWorker(c) PROVE UNCHANGED <<wpc, bytes>>
  BY <1>5 DEF ClientWorker, Dial, Handshake, HandshakeQuic, DialUDP, DialFails, Write,
              Leave, LeaveIdle, Close
<1>6. ASSUME NEW m \in Msmts, Manager(m) \/ Kill(m) PROVE UNCHANGED <<wpc, bytes>>
  BY <1>6 DEF Manager, manageTcpMsmt, manageTcpTlsMsmt, manageUdpMsmt, manageQuicMsmt,
              AskInfo, AskStop, DeadlineQuic, NewMsmtClient, Finish, Deadline,
              ExitClient, Return, Kill, EndClient
<1>7. CASE UNCHANGED vars
  BY <1>1, <1>7 DEF vars
<1> QED BY <1>1, <1>3, <1>4, <1>5, <1>6, <1>7 DEF Next, ServerNext, ClientNext

-----------------------------------------------------------------------------
(* How the server ends *)

Closing == {"closing", "report", "closed"}

\* CloseConn is never taken back.
LEMMA ClosingStays ==
  ASSUME TypeInv, [Next]_vars
  PROVE  \A m \in Msmts : opc[m] \in Closing => opc'[m] \in Closing
<1> DEFINE Goal == \A m \in Msmts : opc[m] \in Closing => opc'[m] \in Closing
<1> USE ConnTypes DEF Closing, Become, serverVars, netVars, Exit
<1>1. CASE UNCHANGED opc
  BY <1>1
<1>2. ASSUME NEW m \in Msmts, New(m) \/ Object(m) PROVE Goal
  <2>1. CASE New(m) \/ StartWorker(m) \/ ReplyPorts(m)
    BY <2>1 DEF New, StartWorker, ReplyPorts
  <2>2. CASE Closed(m) \/ ReadCounter(m) \/ GetMsmtInfo(m) \/ CloseConn(m)
    BY <2>2 DEF Closed, ReadCounter, GetMsmtInfo, CloseConn
  <2>3. ASSUME NEW s \in Streams(m),
               \/ Heartbeat(s) \/ CloseStreamTCP(s) \/ CloseStreamUDP(s)
               \/ CloseStreamQuic(s)
        PROVE  UNCHANGED opc
    BY <2>3 DEF Heartbeat, CloseStreamTCP, CloseStreamUDP, CloseStreamQuic
  <2> QED BY <1>1, <1>2, <2>1, <2>2, <2>3 DEF Object
<1>3. ASSUME NEW s \in Stream, Worker(s), UNCHANGED clientVars PROVE UNCHANGED opc
  BY <1>3, WorkerSession
<1>4. ASSUME NEW c \in Stream, ClientWorker(c) PROVE UNCHANGED opc
  BY <1>4 DEF ClientWorker, Dial, Handshake, HandshakeQuic, DialUDP, DialFails, Write,
              Leave, LeaveIdle, Close
<1>5. ASSUME NEW m \in Msmts, Manager(m) \/ Kill(m) PROVE Goal
  <2>1. CASE AskInfo(m) \/ AskStop(m) \/ DeadlineQuic(m)
    BY <2>1 DEF AskInfo, AskStop, DeadlineQuic
  <2>2. CASE \/ NewMsmtClient(m) \/ Finish(m) \/ Deadline(m) \/ ExitClient(m)
             \/ Return(m) \/ Kill(m)
    BY <1>1, <2>2 DEF NewMsmtClient, Finish, Deadline, ExitClient, Return, Kill, EndClient
  <2> QED BY <1>5, <2>1, <2>2
          DEF Manager, manageTcpMsmt, manageTcpTlsMsmt, manageUdpMsmt, manageQuicMsmt
<1>6. CASE UNCHANGED vars
  BY <1>1, <1>6 DEF vars
<1>7. ASSUME NEW c \in Stream, Lose(c), UNCHANGED <<serverVars, clientVars>>
      PROVE  UNCHANGED opc
  BY <1>7
<1> QED BY <1>1, <1>2, <1>3, <1>4, <1>5, <1>6, <1>7 DEF Next, ServerNext, ClientNext

LEMMA ClosedByServerStep ==
  ASSUME TypeInv, ClosedByServer, [Next]_vars
  PROVE  ClosedByServer'
<1> USE ConnTypes, StreamType
<1>1. \A s \in Stream : opc[s[1]] \in Closing => opc'[s[1]] \in Closing
  BY ClosingStays
<1>2. CASE \A s \in Stream : sock'[s] = "closed" => sock[s] = "closed"
  BY <1>1, <1>2 DEF ClosedByServer, Closing
<1>3. CASE UNCHANGED linkVars \/ \E c \in Stream : Dial(c)
  <2>1. UNCHANGED sock
    BY <1>3 DEF linkVars, Dial, serverVars, conns
  <2> QED BY <1>2, <2>1
<1>4. ASSUME NEW s \in Stream, sock' = [sock EXCEPT ![s] = "open"] PROVE ClosedByServer'
  BY <1>2, <1>4
<1>5. ASSUME NEW s \in Stream, NEW l \in {"none", "open", "closed"},
             sock' = [sock EXCEPT ![s] = l], opc[s[1]] = "closing", UNCHANGED opc
      PROVE  ClosedByServer'
  BY <1>5 DEF ClosedByServer
<1> QED BY <1>3, <1>4, <1>5, LinkSteps

\* The server process ends in five places and does not come back.
LEMMA ServerEnds ==
  ASSUME TypeInv, [Next]_vars
  PROVE  \/ up' = up
         \/ up /\ \E s \in Stream : /\ Worker(s) /\ UNCHANGED clientVars
                                    /\ \/ TornAppend(s) \/ ListenFails(s)
                                       \/ s[1] \in TcpMsmts \cup TlsMsmts /\ ReadFails(s)
                                       \/ s[1] \in TlsMsmts /\ ReadTruncated(s)
                                       \/ s[1] \in QuicMsmts /\ AcceptStreamFails(s)
<1> USE DEF netVars, serverVars
<1>1. CASE UNCHANGED vars
  BY <1>1 DEF vars
<1>2. ASSUME NEW c \in Stream, Lose(c) PROVE UNCHANGED up
  BY <1>2 DEF Lose
<1>3. ASSUME NEW m \in Msmts, New(m) \/ Object(m) PROVE UNCHANGED up
  BY <1>3 DEF New, Object, StartWorker, ReplyPorts, Closed, ReadCounter, GetMsmtInfo,
              CloseConn, ReplyWith, Heartbeat, CloseStreamTCP, CloseStreamUDP,
              CloseStreamQuic
<1>4. ASSUME NEW s \in Stream, Worker(s)
      PROVE  \/ UNCHANGED up
             \/ /\ up
                /\ \/ TornAppend(s) \/ ListenFails(s)
                   \/ s[1] \in TcpMsmts \cup TlsMsmts /\ ReadFails(s)
                   \/ s[1] \in TlsMsmts /\ ReadTruncated(s)
                   \/ s[1] \in QuicMsmts /\ AcceptStreamFails(s)
  <2>1. CASE Listen(s) \/ LoadPorts(s) \/ StorePorts(s)
    BY <2>1 DEF Listen, LoadPorts, StorePorts
  <2>2. CASE Accept(s) \/ AcceptClosed(s) \/ StoreSock(s) \/ Read(s) \/ ReadFromUDP(s)
    BY <2>2 DEF Accept, AcceptClosed, StoreSock, Read, ReadFromUDP
  <2>3. CASE Count(s) \/ ReadEOF(s) \/ ReadClosed(s) \/ ReadClosedUDP(s) \/ ReadIdle(s)
    BY <2>3 DEF Count, ReadEOF, ReadClosed, ReadClosedUDP, ReadIdle
  <2>4. CASE AcceptStream(s) \/ AcceptStreamTimeout(s) \/ ReadNoError(s)
    BY <2>4 DEF AcceptStream, AcceptStreamTimeout, ReadNoError
  <2> QED BY <1>4, <2>1, <2>2, <2>3, <2>4
          DEF Worker, tcpServerWorker, tcpTlsServerWorker, udpServerWorker,
              quicServerWorker, FindPort
<1>5. ASSUME NEW c \in Stream, ClientWorker(c) PROVE UNCHANGED up
  BY <1>5 DEF ClientWorker, Dial, Handshake, HandshakeQuic, DialUDP, DialFails, Write,
              Leave, LeaveIdle, Close
<1>6. ASSUME NEW m \in Msmts, Manager(m) \/ Kill(m) PROVE UNCHANGED up
  BY <1>6 DEF Manager, manageTcpMsmt, manageTcpTlsMsmt, manageUdpMsmt, manageQuicMsmt,
              AskInfo, AskStop, DeadlineQuic, NewMsmtClient, Finish, Deadline,
              ExitClient, Return, Kill, EndClient
<1> QED BY <1>1, <1>2, <1>3, <1>4, <1>5, <1>6 DEF Next, ServerNext, ClientNext

\* AcceptSock is set for good, and only StoreSock has a worker accept a stream.
LEMMA StoredStep ==
  ASSUME TypeInv, Stored, [Next]_vars
  PROVE  Stored'
<1> USE DEF serverVars, netVars, conns, Exit, Goto
<1>0. wpc \in [Stream -> WorkerPc] /\ acceptSock \in [Stream -> BOOLEAN]
  BY DEF TypeInv, TypeOK, ServerTypeOK
<1>1. CASE UNCHANGED <<wpc, acceptSock>>
  BY <1>1 DEF Stored
<1>2. ASSUME NEW s \in Stream, NEW l \in WorkerPc \ {"stream"}, wpc' = [wpc EXCEPT ![s] = l],
             UNCHANGED acceptSock
      PROVE  Stored'
  BY <1>0, <1>2 DEF Stored
<1>3. ASSUME NEW m \in Msmts, New(m) \/ Object(m) PROVE Stored'
  <2>1. CASE StartWorker(m)
    <3>1. PICK i \in 1..NumStreams : /\ wpc' = [wpc EXCEPT ![<<m, i>>] = "listen"]
                                     /\ UNCHANGED acceptSock
      BY <2>1 DEF StartWorker
    <3>2. <<m, i>> \in Stream
      BY StreamType
    <3> QED BY <1>2, <3>1, <3>2 DEF WorkerPc
  <2>2. ASSUME NEW s \in Streams(m), Heartbeat(s) PROVE Stored'
    <3>1. s \in Stream
      BY StreamType
    <3>2. /\ \E l \in {"read", "accept"} : wpc' = [wpc EXCEPT ![s] = l]
          /\ UNCHANGED acceptSock
      BY <2>2 DEF Heartbeat
    <3> QED BY <1>2, <3>1, <3>2 DEF WorkerPc
  <2>3. ASSUME NEW s \in Streams(m),
               CloseStreamTCP(s) \/ CloseStreamUDP(s) \/ CloseStreamQuic(s)
        PROVE  UNCHANGED <<wpc, acceptSock>>
    BY <2>3 DEF CloseStreamTCP, CloseStreamUDP, CloseStreamQuic
  <2>4. CASE New(m) \/ ReplyPorts(m) \/ Closed(m) \/ ReadCounter(m) \/ GetMsmtInfo(m)
             \/ CloseConn(m)
    BY <1>1, <2>4 DEF New, ReplyPorts, Closed, ReadCounter, GetMsmtInfo, CloseConn,
                      ReplyWith
  <2> QED BY <1>1, <1>3, <2>1, <2>2, <2>3, <2>4 DEF Object
<1>4. ASSUME NEW s \in Stream, Worker(s) PROVE Stored'
  <2> USE DEF WorkerPc
  <2>1. CASE Listen(s)
    BY <1>1, <1>2, <2>1 DEF Listen
  <2>2. CASE LoadPorts(s) \/ StorePorts(s)
    BY <1>2, <2>2 DEF LoadPorts, StorePorts
  <2>3. CASE \/ ListenFails(s) \/ TornAppend(s)
             \/ ReadTruncated(s) \/ ReadFails(s) \/ AcceptStreamFails(s)
    BY <1>1, <2>3 DEF ListenFails, TornAppend, ReadTruncated, ReadFails, AcceptStreamFails
  <2>4. CASE Accept(s) \/ Read(s) \/ ReadFromUDP(s) \/ AcceptStream(s)
    BY <1>2, <2>4 DEF Accept, Read, ReadFromUDP, AcceptStream
  <2>5. CASE AcceptClosed(s) \/ ReadEOF(s) \/ ReadClosed(s) \/ ReadClosedUDP(s)
    BY <1>2, <2>5 DEF AcceptClosed, ReadEOF, ReadClosed, ReadClosedUDP
  <2>6. CASE ReadIdle(s) \/ AcceptStreamTimeout(s) \/ ReadNoError(s) \/ Count(s)
    BY <1>2, <2>6 DEF ReadIdle, AcceptStreamTimeout, ReadNoError, Count
  <2>7. CASE StoreSock(s)
    <3>1. /\ acceptSock' = [acceptSock EXCEPT ![s] = TRUE]
          /\ \E l \in {"stream", "read"} : wpc' = [wpc EXCEPT ![s] = l]
      BY <2>7 DEF StoreSock
    <3> QED BY <1>0, <3>1 DEF Stored
  <2> QED BY <1>4, <2>1, <2>2, <2>3, <2>4, <2>5, <2>6, <2>7
          DEF Worker, tcpServerWorker, tcpTlsServerWorker, udpServerWorker,
              quicServerWorker, FindPort
<1>5. ASSUME NEW c \in Stream, ClientWorker(c) PROVE UNCHANGED <<wpc, acceptSock>>
  BY <1>5 DEF ClientWorker, Dial, Handshake, HandshakeQuic, DialUDP, DialFails, Write,
              Leave, LeaveIdle, Close
<1>6. ASSUME NEW m \in Msmts, Manager(m) \/ Kill(m) PROVE UNCHANGED <<wpc, acceptSock>>
  BY <1>6 DEF Manager, manageTcpMsmt, manageTcpTlsMsmt, manageUdpMsmt, manageQuicMsmt,
              AskInfo, AskStop, DeadlineQuic, NewMsmtClient, Finish, Deadline,
              ExitClient, Return, Kill, EndClient
<1>7. CASE UNCHANGED vars
  BY <1>1, <1>7 DEF vars
<1> QED BY <1>1, <1>3, <1>4, <1>5, <1>6, <1>7 DEF Next, ServerNext, ClientNext

\* The counters that finished a measurement only grow.
LEMMA ToldEnoughStep ==
  ASSUME Inv, Inv', ToldEnough, [Next]_vars
  PROVE  ToldEnough'
<1>1. ASSUME NEW m \in Msmts, msmtFinished(m) PROVE msmtFinished(m)'
  <2>1. \A i \in 1..NumStreams : result'[m][i] >= result[m][i]
    BY CountStep DEF Inv
  <2>2. result[m] \in [1..NumStreams -> Nat] /\ result'[m] \in [1..NumStreams -> Nat]
    BY DEF Inv, CountInv
  <2>3. /\ result[m] \in [1..NumStreams -> Int] /\ result'[m] \in [1..NumStreams -> Int]
        /\ \A i \in 1..NumStreams : result[m][i] <= result'[m][i]
    <3>1. \A i \in 1..NumStreams : result[m][i] \in Nat /\ result'[m][i] \in Nat
      BY <2>2
    <3> QED BY <2>1, <2>2, <3>1
  <2>4. /\ SumFunction(result[m]) <= SumFunction(result'[m])
        /\ SumFunction(result[m]) \in Int /\ SumFunction(result'[m]) \in Int
    BY <2>3, TotalMono, TotalType, ConstantType
  <2>5. SumFunction(result[m]) >= MsmtTotalBytes
    BY <1>1 DEF msmtFinished, countCurrSrvBytes
  <2>6. SumFunction(result'[m]) >= MsmtTotalBytes
    BY <2>4, <2>5, ThroughputAssumption
  <2> QED BY <2>6 DEF msmtFinished, countCurrSrvBytes
<1>2. \A m \in finished' : m \in Msmts /\ (m \in finished \/ msmtFinished(m))
  <2>1. CASE UNCHANGED finished
    BY <2>1, EndTypes DEF Inv
  <2>2. ASSUME NEW m \in Msmts, Manager(m) \/ Kill(m) 
        PROVE  UNCHANGED finished \/ (finished' = finished \cup {m} /\ msmtFinished(m))
    BY <2>2, MoveEffect DEF Inv, endVars
  <2>3. ASSUME NEW c \in Stream, ClientWorker(c) PROVE UNCHANGED finished
    BY <2>3, SocketMoves DEF endVars
  <2>4. CASE UNCHANGED vars
    BY <2>1, <2>4 DEF vars, clientVars
  <2> QED BY <2>1, <2>2, <2>3, <2>4, ClientsKept, EndTypes
          DEF Next, ServerNext, ClientNext, endVars, Inv
<1> QED BY <1>1, <1>2 DEF ToldEnough

\* A server that has ended does nothing more.
LEMMA ServerFrozen ==
  ASSUME TypeInv, [Next]_vars, ~up
  PROVE  UNCHANGED <<wpc, sock, peer>>
<1> USE DEF serverVars, conns
<1>1. CASE UNCHANGED vars
  BY <1>1 DEF vars
<1>2. CASE ServerNext
  BY <1>2 DEF ServerNext, Object, Worker
<1>3. CASE \E c \in Stream : Lose(c) /\ UNCHANGED <<serverVars, clientVars>>
  BY <1>3
<1>4. CASE ClientNext
  BY <1>4 DEF ClientNext, ClientWorker, Dial, Handshake, HandshakeQuic, DialUDP,
              DialFails, Write, Leave, LeaveIdle, Close, Manager, manageTcpMsmt,
              manageTcpTlsMsmt, manageUdpMsmt, manageQuicMsmt, AskInfo, AskStop,
              DeadlineQuic, NewMsmtClient, Finish, Deadline, ExitClient, Return, Kill,
              EndClient
<1> QED BY <1>1, <1>2, <1>3, <1>4 DEF Next

\* What takes the server along, stream by stream.
LEMMA SurvivesStep ==
  ASSUME Inv, EndInv, [Next]_vars
  PROVE  ServerSurvives'
<1> USE DEF Inv
<1>1. SUFFICES ASSUME ~up', NumStreams = 1, MsmtTotalBytes > 0
               PROVE  CutOff' # {} \/ \E s \in Stream : Exposed(s)'
  <2>1. CutOff' # {} => \E m \in Msmts :
          mgr'[m] = "dead" \/ (m \in QuicMsmts \ finished' /\ mgr'[m] \in {"stop", "over"})
    BY DEF CutOff, Abrupt, Msmts
  <2> QED BY <2>1 DEF ServerSurvives
<1>2. CASE ~up
  <2>1. CutOff # {} \/ \E s \in Stream : Exposed(s)
    BY <1>1, <1>2 DEF EndInv, ServerSurvives, CutOff, Abrupt
  <2>2. UNCHANGED <<wpc, sock, peer>>
    BY <1>2, ServerFrozen
  <2>3. CutOff \subseteq CutOff'
    BY CutOffStays DEF CutOff, Abrupt, Msmts
  <2> QED BY <2>1, <2>2, <2>3 DEF Exposed
\* A measurement with a stream that is not accepted is not finished.
<1>4. ASSUME NEW s \in Stream, wpc[s] = "stream" PROVE s[1] \notin finished
  <2> DEFINE m == s[1]
  <2>1. m \in Msmts /\ s = <<m, 1>>
    BY <1>1, StreamType
  <2>2. bytes[<<m, 1>>] = 0
    BY <1>4, <2>1 DEF EndInv, Unread, Before
  <2>3. result[m] \in [1..1 -> Nat] /\ result[m][1] <= bytes[<<m, 1>>]
    BY <1>1, <2>1 DEF CountInv
  <2>4. result[m] \in [1..1 -> Int] /\ result[m][1] = 0
    BY <2>2, <2>3
  <2>5. SumFunction(result[m]) = 0
    BY <2>4, TotalOne
  <2>6. ~ msmtFinished(m)
    BY <1>1, <2>5, ThroughputAssumption DEF msmtFinished, countCurrSrvBytes
  <2> QED BY <2>6 DEF EndInv, ToldEnough
<1>5. ASSUME NEW s \in Stream, TornAppend(s) PROVE FALSE
  BY <1>1, <1>5, StreamType DEF TornAppend, Streams
<1>6. ASSUME NEW s \in Stream, s[1] \in TlsMsmts, ReadTruncated(s)
      PROVE  s[1] \in CutOff
  <2>1. s[1] \notin DatagramMsmts /\ s[1] \notin QuicMsmts /\ s[1] \in Msmts
    BY <1>6, StreamType, ModuleType DEF DatagramMsmts
  <2>2. sock[s] # "none" /\ csock[peer[s]] = "killed"
    BY <1>6 DEF ReadTruncated
  <2>3. peer[s] \in Stream /\ peer[s][1] = s[1]
    BY <2>1, <2>2 DEF TypeInv, ConnInv, OwnPeers
  <2> QED BY <2>1, <2>2, <2>3 DEF EndInv, Ends, CutOff, Abrupt
<1>7. ASSUME NEW s \in Stream, s[1] \in QuicMsmts, AcceptStreamFails(s)
      PROVE  CutOff # {} \/ Exposed(s)
  <2>1. wpc[s] = "stream" /\ s[1] \in Msmts /\ s[1] \notin finished
    BY <1>4, <1>7, StreamType DEF AcceptStreamFails
  <2>2. /\ sock[s] # "none" /\ peer[s] \in Stream
        /\ peer[s][1] = s[1] \/ peer[s][1] \in CutOff
    BY <2>1 DEF EndInv, Stored, Strangers, Linked, TypeInv
  <2>3. CASE sock[s] = "closed"
    <3>1. opc[s[1]] \in {"closing", "report", "closed"}
      BY <2>3 DEF EndInv, ClosedByServer
    <3>2. mgr[s[1]] \in {"stop", "over", "dead"}
      BY <2>1, <3>1, SessionTypes DEF SessionInv, InStep, Expected
    <3> QED BY <1>7, <2>1, <3>2 DEF CutOff, Abrupt
  <2>4. CASE Gone(peer[s]) /\ peer[s][1] = s[1]
    <3>1. csock[peer[s]] # "closed"
      BY <1>7, <2>1, <2>2, <2>4 DEF EndInv, Ends
    <3>2. csock[peer[s]] = "killed"
      BY <2>4, <3>1 DEF Gone
    <3> QED BY <2>1, <2>2, <2>4, <3>2 DEF EndInv, Ends
  <2>5. CASE peer[s][1] \in Faulty /\ sock[s] = "open"
    BY <1>7, <2>1, <2>5 DEF Exposed
  <2> QED BY <1>7, <2>2, <2>3, <2>4, <2>5, ConnTypes DEF AcceptStreamFails
\* A worker that faults is exposed.
<1>8. ASSUME NEW s \in Stream,
             ListenFails(s) \/ (s[1] \in TcpMsmts \cup TlsMsmts /\ ReadFails(s))
      PROVE  Exposed(s)
  <2>1. s[1] \in TcpMsmts \cup TlsMsmts => s[1] \notin QuicMsmts
    BY StreamType, ModuleType DEF DatagramMsmts
  <2> QED BY <1>8, <2>1 DEF ListenFails, ReadFails, Exposed
<1>9. CASE up
  <2>1. PICK s \in Stream : \/ TornAppend(s) \/ ListenFails(s)
                            \/ s[1] \in TcpMsmts \cup TlsMsmts /\ ReadFails(s)
                            \/ s[1] \in TlsMsmts /\ ReadTruncated(s)
                            \/ s[1] \in QuicMsmts /\ AcceptStreamFails(s)
    BY <1>1, <1>9, ServerEnds
  <2>2. CutOff # {} \/ Exposed(s)
    BY <1>5, <1>6, <1>7, <1>8, <2>1
  <2>3. UNCHANGED <<wpc, sock, peer>>
    BY <1>5, <2>1 DEF ListenFails, ReadFails, ReadTruncated, AcceptStreamFails, Exit,
                      serverVars, conns
  <2>4. CutOff \subseteq CutOff'
    BY CutOffStays DEF CutOff, Abrupt, Msmts
  <2> QED BY <2>2, <2>3, <2>4 DEF Exposed
<1> QED BY <1>2, <1>9

LEMMA EndInit == Init => EndInv
<1> SUFFICES ASSUME Init PROVE EndInv
  OBVIOUS
<1> USE StreamType DEF Init, NetInit, ServerInit, ClientInit
<1>0. \A m \in QuicMsmts : m \in Msmts
  BY DEF Msmts
<1>1. Finished /\ Orderly /\ Ends
  <2>1. Finished
    BY <1>0 DEF Finished
  <2>2. Orderly
    BY DEF Orderly
  <2>3. Ends
    BY DEF Ends
  <2> QED BY <2>1, <2>2, <2>3
<1>2. Strangers /\ Unread /\ Stored /\ ClosedByServer
  BY DEF Strangers, Unread, Stored, ClosedByServer
<1>3. ToldEnough /\ ServerSurvives
  BY DEF ToldEnough, ServerSurvives
<1> QED BY <1>1, <1>2, <1>3 DEF EndInv

LEMMA EndNext == Inv /\ Inv' /\ EndInv /\ [Next]_vars => EndInv'
<1> SUFFICES ASSUME Inv, Inv', EndInv, [Next]_vars PROVE EndInv'
  OBVIOUS
<1>1. TypeInv /\ SessionInv
  BY DEF Inv
<1>2. /\ Finished /\ Orderly /\ Ends
      /\ Strangers /\ Unread /\ Stored /\ ClosedByServer /\ ToldEnough
  BY DEF EndInv
<1> QED BY <1>1, <1>2, OrderStep, StrangersStep, UnreadStep, StoredStep,
           ClosedByServerStep, ToldEnoughStep, SurvivesStep DEF EndInv

LEMMA EndInvariant == Spec => [](Inv /\ EndInv)
<1>1. Init => Inv /\ EndInv
  BY InitInv, EndInit
<1>2. Inv /\ EndInv /\ [Next]_vars => (Inv /\ EndInv)'
  BY NextInv, EndNext
<1> QED BY <1>1, <1>2, PTL DEF Spec

\* For every number of measurements and bytes, with one stream each: the server
\* process only ends after a client was killed, after a QUIC client asked for
\* the stop at its deadline, in a search for a port of a foreign address, or in
\* a TCP or TLS read or a wait for a QUIC stream whose client may have lost the
\* network.  No such client ends it anywhere else.
THEOREM ServerOutlivesClients == Spec => []ServerSurvives
<1>1. Inv /\ EndInv => ServerSurvives
  BY DEF EndInv
<1> QED BY <1>1, EndInvariant, PTL

\* A connection that CloseConn has missed has a client worker at its other end
\* that has closed or is dead: it is one of the same measurement, for a port
\* belongs to one measurement at a time.
THEOREM NothingLeft == Spec => []NothingLeftOpen
<1>1. Inv /\ EndInv => NothingLeftOpen
  <2> SUFFICES ASSUME Inv, EndInv, NEW m \in Msmts, opc[m] = "closed", NEW s \in Streams(m),
                      sock[s] = "open"
               PROVE  peer[s] # None /\ Gone(peer[s])
    BY DEF NothingLeftOpen
  <2>1. s \in Stream /\ s[1] = m
    BY StreamType
  <2>2. peer[s] \in Stream
    BY <2>1 DEF Inv, TypeInv
  <2>3. m \notin DatagramMsmts
    BY <2>1 DEF Inv, ConnInv, Sockets, ClosedAll, DatagramMsmts
  <2>4. peer[s][1] = m
    BY <2>1, <2>3 DEF Inv, ConnInv, OwnPeers
  <2>5. mgr[m] \in {"stop", "over", "dead"}
    BY SessionTypes DEF Inv, SessionInv, InStep, Expected
  <2>6. csock[peer[s]] # "none"
    BY <2>1 DEF EndInv, Strangers, Linked
  <2>7. csock[peer[s]] \notin {"dial", "handshake", "open", "left"}
    BY <2>2, <2>3, <2>4, <2>5 DEF Inv, SessionInv, Senders, DatagramMsmts
  <2> QED BY <2>2, <2>6, <2>7, NoneType, EndTypes DEF Inv, Gone
<1> QED BY <1>1, EndInvariant, PTL

-----------------------------------------------------------------------------
(* Bytes *)

byteVars == <<bytes, got, sent, flight, lost>>

LEMMA ByteTypes ==
  ASSUME TypeInv
  PROVE  /\ bytes \in [Stream -> Nat] /\ got \in [Stream -> Nat]
         /\ sent \in [Stream -> Nat] /\ flight \in [Stream -> Nat]
         /\ lost \in [Stream -> Nat]
<1>1. 0..StreamBytes \subseteq Nat
  BY ConstantType
<1> QED BY <1>1 DEF TypeInv, TypeOK, NetTypeOK, ServerTypeOK, ClientTypeOK

\* Where bytes go: from a client's worker into the network, from there to a
\* server's worker or nowhere, and from the worker's hands to its counter.
LEMMA ByteSteps ==
  ASSUME TypeInv, [Next]_vars
  PROVE  \/ UNCHANGED byteVars
         \/ \E s \in Stream : /\ bytes' = [bytes EXCEPT ![s] = @ + got[s]]
                              /\ got' = [got EXCEPT ![s] = 0]
                              /\ UNCHANGED <<sent, flight, lost>>
         \/ \E s \in Stream, c \in Stream, n \in Nat :
              /\ n <= flight[c] /\ flight' = [flight EXCEPT ![c] = @ - n]
              /\ got' = [got EXCEPT ![s] = n] /\ UNCHANGED <<bytes, sent, lost>>
              /\ \/ s[1] \notin UdpMsmts /\ sock[s] = "open" /\ c = peer[s]
                 \/ s[1] \in UdpMsmts /\ c[1] \in DatagramMsmts
         \/ \E c \in Stream : /\ flight' = [flight EXCEPT ![c] = @ + 1]
                              /\ sent' = [sent EXCEPT ![c] = @ + 1]
                              /\ UNCHANGED <<bytes, got, lost>>
         \/ \E c \in Stream : /\ flight[c] > 0 /\ flight' = [flight EXCEPT ![c] = @ - 1]
                              /\ lost' = [lost EXCEPT ![c] = @ + 1]
                              /\ UNCHANGED <<bytes, got, sent>>
<1> USE DEF byteVars, serverVars, netVars, clientVars, counters, Exit
<1>1. CASE UNCHANGED vars
  BY <1>1 DEF vars
<1>2. ASSUME NEW c \in Stream, Lose(c), UNCHANGED <<serverVars, clientVars>>
      PROVE  /\ flight[c] > 0 /\ flight' = [flight EXCEPT ![c] = @ - 1]
             /\ lost' = [lost EXCEPT ![c] = @ + 1] /\ UNCHANGED <<bytes, got, sent>>
  BY <1>2 DEF Lose
<1>3. ASSUME NEW m \in Msmts, New(m) \/ Object(m), UNCHANGED clientVars
      PROVE  UNCHANGED byteVars
  BY <1>3 DEF New, Object, StartWorker, ReplyPorts, Closed, ReadCounter, GetMsmtInfo,
              CloseConn, ReplyWith, Heartbeat, CloseStreamTCP, CloseStreamUDP,
              CloseStreamQuic
<1>4. ASSUME NEW s \in Stream, Worker(s), UNCHANGED clientVars,
             ~Count(s), ~ (s[1] \notin UdpMsmts /\ Read(s)),
             ~ (s[1] \in UdpMsmts /\ ReadFromUDP(s))
      PROVE  UNCHANGED byteVars
  <2>1. CASE FindPort(s)
    BY <1>4, <2>1 DEF FindPort, Listen, ListenFails, LoadPorts, StorePorts, TornAppend
  <2>2. CASE Accept(s) \/ AcceptClosed(s) \/ StoreSock(s)
    BY <1>4, <2>2 DEF Accept, AcceptClosed, StoreSock
  <2>3. CASE ReadEOF(s) \/ ReadClosed(s) \/ ReadClosedUDP(s) \/ ReadIdle(s)
    BY <1>4, <2>3 DEF ReadEOF, ReadClosed, ReadClosedUDP, ReadIdle
  <2>4. CASE AcceptStream(s) \/ AcceptStreamTimeout(s) \/ ReadNoError(s)
             \/ ReadTruncated(s) \/ ReadFails(s) \/ AcceptStreamFails(s)
    BY <1>4, <2>4 DEF AcceptStream, AcceptStreamTimeout, ReadNoError, ReadTruncated,
                      ReadFails, AcceptStreamFails
  <2>5. s[1] \in TcpMsmts \cup TlsMsmts \cup QuicMsmts => s[1] \notin UdpMsmts
    BY StreamType, ModuleType DEF DatagramMsmts
  <2> QED BY <1>4, <2>1, <2>2, <2>3, <2>4, <2>5
          DEF Worker, tcpServerWorker, tcpTlsServerWorker, udpServerWorker,
              quicServerWorker
<1>5. ASSUME NEW s \in Stream, Count(s), UNCHANGED clientVars
      PROVE  /\ bytes' = [bytes EXCEPT ![s] = @ + got[s]]
             /\ got' = [got EXCEPT ![s] = 0]
             /\ UNCHANGED <<sent, flight, lost>>
  BY <1>5 DEF Count
<1> DEFINE Takes(s, c, n) ==
             /\ n <= flight[c] /\ flight' = [flight EXCEPT ![c] = @ - n]
             /\ got' = [got EXCEPT ![s] = n] /\ UNCHANGED <<bytes, sent, lost>>
             /\ \/ s[1] \notin UdpMsmts /\ sock[s] = "open" /\ c = peer[s]
                \/ s[1] \in UdpMsmts /\ c[1] \in DatagramMsmts
<1>6. ASSUME NEW s \in Stream, s[1] \notin UdpMsmts, Read(s), UNCHANGED clientVars
      PROVE  \E c \in Stream, n \in Nat : Takes(s, c, n)
  <2>1. PICK n \in 1..flight[peer[s]] : /\ flight' = [flight EXCEPT ![peer[s]] = @ - n]
                                        /\ got' = [got EXCEPT ![s] = n]
    BY <1>6 DEF Read
  <2>2. sock[s] = "open" /\ UNCHANGED <<bytes, sent, lost>>
    BY <1>6 DEF Read
  <2>3. peer[s] \in Stream
    BY <2>2 DEF TypeInv
  <2>4. flight[peer[s]] \in Nat
    BY <2>3, ByteTypes
  <2>5. n \in Nat /\ n <= flight[peer[s]]
    BY <2>4
  <2> QED BY <1>6, <2>1, <2>2, <2>3, <2>5
<1>7. ASSUME NEW s \in Stream, s[1] \in UdpMsmts, ReadFromUDP(s), UNCHANGED clientVars
      PROVE  \E c \in Stream, n \in Nat : Takes(s, c, n)
  <2>1. PICK c \in Stream : /\ c[1] \in DatagramMsmts /\ flight[c] > 0
                            /\ flight' = [flight EXCEPT ![c] = @ - 1]
    BY <1>7 DEF ReadFromUDP
  <2>2. got' = [got EXCEPT ![s] = 1] /\ UNCHANGED <<bytes, sent, lost>>
    BY <1>7 DEF ReadFromUDP
  <2>3. 1 \in Nat /\ 1 <= flight[c]
    BY <2>1, ByteTypes
  <2> QED BY <1>7, <2>1, <2>2, <2>3
<1>8. ASSUME NEW c \in Stream, ClientWorker(c)
      PROVE  \/ UNCHANGED byteVars
             \/ /\ flight' = [flight EXCEPT ![c] = @ + 1]
                /\ sent' = [sent EXCEPT ![c] = @ + 1]
                /\ UNCHANGED <<bytes, got, lost>>
  BY <1>8 DEF ClientWorker, Dial, Handshake, HandshakeQuic, DialUDP, DialFails, Write,
              Leave, LeaveIdle, Close
<1>9. ASSUME NEW m \in Msmts, Manager(m) \/ Kill(m) PROVE UNCHANGED byteVars
  BY <1>9 DEF Manager, manageTcpMsmt, manageTcpTlsMsmt, manageUdpMsmt, manageQuicMsmt,
              AskInfo, AskStop, DeadlineQuic, NewMsmtClient, Finish, Deadline,
              ExitClient, Return, Kill, EndClient
<1>10. CASE ServerNext /\ UNCHANGED clientVars
  <2>1. CASE \E m \in Msmts : New(m) \/ Object(m)
    BY <1>3, <1>10, <2>1
  <2>2. ASSUME NEW s \in Stream, Worker(s)
        PROVE  \/ UNCHANGED byteVars
               \/ /\ bytes' = [bytes EXCEPT ![s] = @ + got[s]]
                  /\ got' = [got EXCEPT ![s] = 0]
                  /\ UNCHANGED <<sent, flight, lost>>
               \/ \E c \in Stream, n \in Nat : Takes(s, c, n)
    <3> HIDE DEF Takes
    <3> QED BY <1>4, <1>5, <1>6, <1>7, <1>10, <2>2
  <2> QED BY <1>10, <2>1, <2>2 DEF ServerNext
<1>11. CASE ClientNext
  BY <1>8, <1>9, <1>11 DEF ClientNext
<1> QED BY <1>1, <1>2, <1>10, <1>11 DEF Next

\* What the network has delivered of stream c, and what worker s has taken.
delivered == [c \in Stream |-> sent[c] - (flight[c] + lost[c])]
taken == [s \in Stream |-> bytes[s] + got[s]]

\* What f comes to over the streams of a measurement.
TotalAt(m, f) == SumFunction([i \in 1..NumStreams |-> f[<<m, i>>]])

\* The total of a measurement changes by what one of its streams changes by.
LEMMA TotalMoves ==
  ASSUME NEW m \in Msmts, NEW f \in [Stream -> Int], NEW g \in [Stream -> Int],
         NEW c \in Stream, \A t \in Stream \ {c} : g[t] = f[t]
  PROVE  TotalAt(m, g) = TotalAt(m, f) + (IF c[1] = m THEN g[c] - f[c] ELSE 0)
<1> USE DEF TotalAt
<1> DEFINE F == [i \in 1..NumStreams |-> f[<<m, i>>]]
           G == [i \in 1..NumStreams |-> g[<<m, i>>]]
<1>1. F \in [1..NumStreams -> Int] /\ G \in [1..NumStreams -> Int]
  BY StreamType
<1>2. CASE c[1] = m
  <2>1. c[2] \in 1..NumStreams /\ c = <<m, c[2]>>
    BY <1>2, StreamType
  <2>2. \A i \in 1..NumStreams : i # c[2] => F[i] = G[i]
    BY <2>1, StreamType
  <2>3. G[c[2]] = g[c] /\ F[c[2]] = f[c]
    BY <2>1
  <2> HIDE DEF F, G
  <2>4. SumFunction(G) = SumFunction(F) + (G[c[2]] - F[c[2]])
    BY <1>1, <2>1, <2>2, TotalUpdate, ConstantType
  <2> QED BY <1>2, <2>3, <2>4 DEF F, G
<1>3. CASE c[1] # m
  <2>1. \A i \in 1..NumStreams : g[<<m, i>>] = f[<<m, i>>]
    BY <1>3, StreamType
  <2>2. F = G
    BY <2>1
  <2>3. SumFunction(F) \in Int
    <3> HIDE DEF F
    <3> QED BY <1>1, TotalType, ConstantType
  <2>4. SumFunction(G) = SumFunction(F) + 0
    <3> HIDE DEF F, G
    <3> QED BY <2>2, <2>3
  <2> QED BY <1>3, <2>4
<1> QED BY <1>2, <1>3

\* The two totals of a measurement are sums over delivered and taken.
AsTotals(m) ==
  /\ delivered \in [Stream -> Int] /\ taken \in [Stream -> Int]
  /\ Received(m) = TotalAt(m, delivered) /\ TakenBy(m) = TotalAt(m, taken)
  /\ Received(m) \in Int /\ TakenBy(m) \in Int

LEMMA Totals == TypeInv => \A m \in Msmts : AsTotals(m)
<1> SUFFICES ASSUME TypeInv, NEW m \in Msmts PROVE AsTotals(m)
  OBVIOUS
<1>1. delivered \in [Stream -> Int] /\ taken \in [Stream -> Int]
  BY ByteTypes DEF delivered, taken
<1>2. /\ [i \in 1..NumStreams |-> delivered[<<m, i>>]] \in [1..NumStreams -> Int]
      /\ [i \in 1..NumStreams |-> taken[<<m, i>>]] \in [1..NumStreams -> Int]
  BY <1>1, StreamType
<1>3. \A i \in 1..NumStreams :
        /\ delivered[<<m, i>>] = sent[<<m, i>>] - (flight[<<m, i>>] + lost[<<m, i>>])
        /\ taken[<<m, i>>] = bytes[<<m, i>>] + got[<<m, i>>]
  BY StreamType DEF delivered, taken
<1>4. /\ [i \in 1..NumStreams |-> sent[<<m, i>>] - (flight[<<m, i>>] + lost[<<m, i>>])] =
           [i \in 1..NumStreams |-> delivered[<<m, i>>]]
      /\ [i \in 1..NumStreams |-> bytes[<<m, i>>] + got[<<m, i>>]] =
           [i \in 1..NumStreams |-> taken[<<m, i>>]]
  BY <1>3
<1>5. /\ Received(m) = SumFunction([i \in 1..NumStreams |-> delivered[<<m, i>>]])
      /\ TakenBy(m) = SumFunction([i \in 1..NumStreams |-> taken[<<m, i>>]])
  BY <1>4 DEF Received, TakenBy
<1> QED BY <1>1, <1>2, <1>5, TotalType, ConstantType DEF AsTotals, TotalAt

LEMMA TotalsNext == TypeInv' => (\A m \in Msmts : AsTotals(m))'
BY Totals, PTL

\* Whose bytes a worker of an undisturbed measurement can read.
LEMMA ReadsOwn ==
  ASSUME Inv, Strangers, NEW s \in Stream, NEW c \in Stream, Undisturbed(s[1]),
         \/ s[1] \notin UdpMsmts /\ sock[s] = "open" /\ c = peer[s]
         \/ s[1] \in UdpMsmts /\ c[1] \in DatagramMsmts
  PROVE  c[1] = s[1]
<1>1. CASE s[1] \in UdpMsmts
  BY <1>1 DEF Undisturbed
<1>2. CASE s[1] \in QuicMsmts
  <2>1. s[1] \notin UdpMsmts
    BY <1>2, StreamType, ModuleType
  <2>2. c[1] \in {s[1]} \cup QuicMsmts
    BY <2>1 DEF Strangers, Linked
  <2> QED BY <1>2, <2>2 DEF Undisturbed
<1>3. CASE s[1] \notin DatagramMsmts
  BY <1>3 DEF Inv, ConnInv, OwnPeers, DatagramMsmts
<1> QED BY <1>1, <1>2, <1>3 DEF DatagramMsmts

LEMMA BalanceStep ==
  ASSUME Inv, Inv', Strangers, Balance, [Next]_vars
  PROVE  Balance'
<1> USE DEF Inv
<1>1. SUFFICES ASSUME NEW m \in Msmts, Undisturbed(m), TakenBy(m) <= Received(m)
               PROVE  TakenBy(m)' <= Received(m)'
  BY DEF Balance, Undisturbed
<1> DEFINE T0 == TotalAt(m, taken)
           T1 == TotalAt(m, taken')
           R0 == TotalAt(m, delivered)
           R1 == TotalAt(m, delivered')
<1>2. /\ delivered \in [Stream -> Int] /\ taken \in [Stream -> Int]
      /\ Received(m) = R0 /\ TakenBy(m) = T0 /\ R0 \in Int /\ T0 \in Int
  BY Totals DEF AsTotals
<1>3. /\ delivered' \in [Stream -> Int] /\ taken' \in [Stream -> Int]
      /\ Received(m)' = R1 /\ TakenBy(m)' = T1
  BY TotalsNext DEF AsTotals, TotalAt
<1>4. SUFFICES T1 <= R1
  BY <1>3
<1>5. T0 <= R0
  BY <1>1, <1>2
<1>6. \A c \in Stream : /\ delivered[c] = sent[c] - (flight[c] + lost[c])
                        /\ delivered'[c] = sent'[c] - (flight'[c] + lost'[c])
                        /\ taken[c] = bytes[c] + got[c] /\ taken'[c] = bytes'[c] + got'[c]
  BY DEF delivered, taken
\* One worker and one stream change; the others stay.
<1>7. ASSUME NEW s \in Stream, NEW c \in Stream,
             \A t \in Stream \ {s} : taken'[t] = taken[t],
             \A t \in Stream \ {c} : delivered'[t] = delivered[t],
             IF s[1] = m THEN c[1] = m /\ taken'[s] - taken[s] <= delivered'[c] - delivered[c]
                         ELSE delivered'[c] >= delivered[c]
      PROVE  T1 <= R1
  <2>1. T1 = T0 + (IF s[1] = m THEN taken'[s] - taken[s] ELSE 0)
    BY <1>2, <1>3, <1>7, TotalMoves
  <2>2. R1 = R0 + (IF c[1] = m THEN delivered'[c] - delivered[c] ELSE 0)
    BY <1>2, <1>3, <1>7, TotalMoves
  <2>3. /\ taken'[s] \in Int /\ taken[s] \in Int
        /\ delivered'[c] \in Int /\ delivered[c] \in Int
    BY <1>2, <1>3
  <2> HIDE DEF T0, T1, R0, R1
  <2> QED BY <1>2, <1>5, <1>7, <2>1, <2>2, <2>3
<1>8. CASE UNCHANGED byteVars
  <2>1. taken' = taken /\ delivered' = delivered
    BY <1>8 DEF byteVars, taken, delivered
  <2> QED BY <1>5, <2>1
\* The counter takes what the worker has in hand.
<1>9. ASSUME NEW s \in Stream, bytes' = [bytes EXCEPT ![s] = @ + got[s]],
             got' = [got EXCEPT ![s] = 0], UNCHANGED <<sent, flight, lost>>
      PROVE  T1 <= R1
  <2>1. \A t \in Stream : taken'[t] = taken[t]
    BY <1>6, <1>9, ByteTypes
  <2>2. taken' = taken /\ delivered' = delivered
    BY <1>9, <2>1 DEF taken, delivered
  <2> QED BY <1>5, <2>2
\* A worker takes what has been under way.
<1>10. ASSUME NEW s \in Stream, NEW c \in Stream, NEW n \in Nat,
              n <= flight[c], flight' = [flight EXCEPT ![c] = @ - n],
              got' = [got EXCEPT ![s] = n], UNCHANGED <<bytes, sent, lost>>,
              \/ s[1] \notin UdpMsmts /\ sock[s] = "open" /\ c = peer[s]
              \/ s[1] \in UdpMsmts /\ c[1] \in DatagramMsmts
       PROVE  T1 <= R1
  <2>1. \A t \in Stream \ {s} : taken'[t] = taken[t]
    BY <1>6, <1>10, ByteTypes
  <2>2. \A t \in Stream \ {c} : delivered'[t] = delivered[t]
    BY <1>6, <1>10, ByteTypes
  <2>3. taken'[s] - taken[s] <= n
    <3>1. bytes[s] \in Nat /\ got[s] \in Nat
      BY ByteTypes
    <3>2. taken[s] = bytes[s] + got[s] /\ taken'[s] = bytes[s] + n
      BY <1>6, <1>10, ByteTypes
    <3> QED BY <3>1, <3>2
  <2>4. delivered'[c] = delivered[c] + n
    <3>1. sent[c] \in Nat /\ flight[c] \in Nat /\ lost[c] \in Nat
      BY ByteTypes
    <3>2. /\ delivered[c] = sent[c] - (flight[c] + lost[c])
          /\ delivered'[c] = sent[c] - (flight[c] - n + lost[c])
      BY <1>6, <1>10, ByteTypes
    <3> QED BY <3>1, <3>2
  <2>5. s[1] = m => c[1] = m
    BY <1>1, <1>10, ReadsOwn
  <2>6. delivered[c] \in Int /\ taken[s] \in Int /\ taken'[s] \in Int
    BY <1>2, <1>3
  <2>7. IF s[1] = m THEN c[1] = m /\ taken'[s] - taken[s] <= delivered'[c] - delivered[c]
                    ELSE delivered'[c] >= delivered[c]
    BY <2>3, <2>4, <2>5, <2>6
  <2> QED BY <1>7, <2>1, <2>2, <2>7
\* What is written is under way.
<1>11. ASSUME NEW c \in Stream, flight' = [flight EXCEPT ![c] = @ + 1],
              sent' = [sent EXCEPT ![c] = @ + 1], UNCHANGED <<bytes, got, lost>>
       PROVE  T1 <= R1
  <2>1. \A t \in Stream : delivered'[t] = delivered[t]
    BY <1>6, <1>11, ByteTypes
  <2>2. taken' = taken /\ delivered' = delivered
    BY <1>11, <2>1 DEF taken, delivered
  <2> QED BY <1>5, <2>2
\* What is lost is taken by nobody.
<1>12. ASSUME NEW c \in Stream, flight[c] > 0, flight' = [flight EXCEPT ![c] = @ - 1],
              lost' = [lost EXCEPT ![c] = @ + 1], UNCHANGED <<bytes, got, sent>>
       PROVE  T1 <= R1
  <2>1. \A t \in Stream : delivered'[t] = delivered[t]
    BY <1>6, <1>12, ByteTypes
  <2>2. taken' = taken /\ delivered' = delivered
    BY <1>12, <2>1 DEF taken, delivered
  <2> QED BY <1>5, <2>2
<1> HIDE DEF T1, R1
<1> QED BY <1>8, <1>9, <1>10, <1>11, <1>12, ByteSteps

LEMMA BalanceInit == Init => Balance
<1> SUFFICES ASSUME Init, NEW m \in Msmts PROVE TakenBy(m) <= Received(m)
  BY DEF Balance
<1> DEFINE F == [i \in 1..NumStreams |-> bytes[<<m, i>>] + got[<<m, i>>]]
           G == [i \in 1..NumStreams |-> sent[<<m, i>>] - (flight[<<m, i>>] + lost[<<m, i>>])]
<1>1. \A i \in 1..NumStreams : F[i] = 0 /\ G[i] = 0
  BY StreamType DEF Init, NetInit, ServerInit, ClientInit
<1>2. F \in [1..NumStreams -> Int] /\ G \in [1..NumStreams -> Int]
  <2>1. \A i \in 1..NumStreams : bytes[<<m, i>>] + got[<<m, i>>] \in Int
    BY <1>1
  <2>2. \A i \in 1..NumStreams : sent[<<m, i>>] - (flight[<<m, i>>] + lost[<<m, i>>]) \in Int
    BY <1>1
  <2> QED BY <2>1, <2>2
<1>3. \A i \in 1..NumStreams : F[i] <= G[i]
  BY <1>1
<1>4. SumFunction(F) <= SumFunction(G)
  <2> HIDE DEF F, G
  <2> QED BY <1>2, <1>3, TotalMono, ConstantType
<1> QED BY <1>4 DEF TakenBy, Received

LEMMA ByteInvariant == Spec => [](Inv /\ EndInv /\ Balance)
<1>1. Init => Inv /\ EndInv /\ Balance
  BY InitInv, EndInit, BalanceInit
<1>2. Inv /\ EndInv /\ Balance /\ [Next]_vars => (Inv /\ EndInv /\ Balance)'
  <2> SUFFICES ASSUME Inv, EndInv, Balance, [Next]_vars
               PROVE  (Inv /\ EndInv /\ Balance)'
    OBVIOUS
  <2>1. Inv' /\ EndInv'
    BY NextInv, EndNext
  <2>2. Strangers
    BY DEF EndInv
  <2> QED BY <2>1, <2>2, BalanceStep
<1> QED BY <1>1, <1>2, PTL DEF Spec

\* What a client is told is no more than what its server workers have taken.
LEMMA ToldIsTaken ==
  ASSUME Inv, NEW m \in Msmts
  PROVE  countCurrSrvBytes(m) <= TakenBy(m) /\ countCurrSrvBytes(m) \in Int
<1> DEFINE F == [i \in 1..NumStreams |-> bytes[<<m, i>>] + got[<<m, i>>]]
<1>1. result[m] \in [1..NumStreams -> Nat]
      /\ \A i \in 1..NumStreams : result[m][i] <= bytes[<<m, i>>]
  BY DEF Inv, CountInv
<1>2. \A i \in 1..NumStreams : bytes[<<m, i>>] \in Nat /\ got[<<m, i>>] \in Nat
  BY ByteTypes, StreamType DEF Inv
<1>3. /\ F \in [1..NumStreams -> Int] /\ result[m] \in [1..NumStreams -> Int]
      /\ \A i \in 1..NumStreams : result[m][i] <= F[i]
  <2>1. \A i \in 1..NumStreams : F[i] = bytes[<<m, i>>] + got[<<m, i>>] /\ F[i] \in Int
    BY <1>2
  <2>2. ASSUME NEW i \in 1..NumStreams PROVE result[m][i] <= F[i]
    <3>1. result[m][i] \in Nat /\ result[m][i] <= bytes[<<m, i>>]
      BY <1>1
    <3> QED BY <1>2, <2>1, <3>1
  <2> QED BY <1>1, <2>1, <2>2
<1>4. SumFunction(result[m]) <= SumFunction(F) /\ SumFunction(result[m]) \in Int
  <2> HIDE DEF F
  <2> QED BY <1>3, TotalMono, TotalType, ConstantType
<1> QED BY <1>4 DEF TakenBy, countCurrSrvBytes

\* Once for every number of measurements, streams and bytes: a measurement
\* that nobody disturbs is never told of more bytes than have left its own
\* client and arrived, whatever is lost and whatever the other clients do.
THEOREM NoForeignBytes == Spec => []OwnBytes
<1>1. Inv /\ EndInv /\ Balance => OwnBytes
  <2> SUFFICES ASSUME Inv, Balance, NEW m \in Msmts, Undisturbed(m)
               PROVE  countCurrSrvBytes(m) <= Received(m)
    BY DEF OwnBytes
  <2>1. countCurrSrvBytes(m) <= TakenBy(m) /\ countCurrSrvBytes(m) \in Int
    BY ToldIsTaken
  <2>2. TakenBy(m) <= Received(m)
    BY DEF Balance
  <2>3. Received(m) \in Int /\ TakenBy(m) \in Int
    BY Totals DEF AsTotals, Inv
  <2> QED BY <2>1, <2>2, <2>3
<1> QED BY <1>1, ByteInvariant, PTL

\* When no measurement can be disturbed, one that its manager takes for
\* finished is: the server has received what was to be sent, from its client.
THEOREM FinishedIsReceived ==
  (\A m \in Msmts : Undisturbed(m)) /\ Spec => []FinishedMeansReceived
<1> DEFINE Quietly == \A m \in Msmts : Undisturbed(m)
<1>1. Quietly /\ Inv /\ EndInv /\ OwnBytes => FinishedMeansReceived
  <2> SUFFICES ASSUME Quietly, Inv, EndInv, OwnBytes, NEW m \in finished
               PROVE  Received(m) >= MsmtTotalBytes
    BY DEF FinishedMeansReceived
  <2>1. m \in Msmts
    BY EndTypes DEF Inv
  <2>2. countCurrSrvBytes(m) <= Received(m)
    BY <2>1 DEF OwnBytes
  <2>3. countCurrSrvBytes(m) >= MsmtTotalBytes
    BY DEF EndInv, ToldEnough, msmtFinished
  <2>4. Received(m) \in Int /\ countCurrSrvBytes(m) \in Int
    BY <2>1, ToldIsTaken, Totals DEF AsTotals, Inv
  <2> QED BY <2>2, <2>3, <2>4, ThroughputAssumption
<1>2. CASE Quietly
  <2>1. Inv /\ EndInv /\ OwnBytes => FinishedMeansReceived
    BY <1>1, <1>2
  <2> QED BY <2>1, ByteInvariant, NoForeignBytes, PTL
<1>3. CASE ~Quietly
  BY <1>3
<1> QED BY <1>2, <1>3
=============================================================================
