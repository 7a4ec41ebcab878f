-------------------------- MODULE ControlPlane_proof --------------------------
(***************************************************************************)
(* Proofs about the control plane, for any number of clients, goroutines   *)
(* and measurements.                                                       *)
(***************************************************************************)
EXTENDS ControlPlaneInv, TLAPS

\* The end of the server process changes nothing but up.
LEMMA ExitType ==
  ASSUME TypeInv, Exit, UNCHANGED clientVars
  PROVE TypeInv'
BY DEF TypeInv, TypeOK, NetTypeOK, ServerTypeOK, ClientTypeOK, Initialised, Exit,
       netVars, readerVars, handlerVars, shared, msmt, clientVars

LEMMA ReaderType ==
  ASSUME TypeInv, NEW g \in Goroutines, Reader(g), UNCHANGED clientVars
  PROVE TypeInv'
<1> USE ControlAssumption
<1> USE DEF TypeInv, TypeOK, NetTypeOK, ServerTypeOK, ClientTypeOK, Initialised,
            Goto, clientVars, handlerVars, readerVars, shared, msmt, netVars,
            ReaderPc, HandlerPc, Dgram
<1>1. CASE AcceptTCP(g)
  <2>1. Head(backlog) \in Clients /\ Tail(backlog) \in Seq(Clients)
    BY <1>1 DEF AcceptTCP
  <2> QED BY ZenonT(60), <1>1, <2>1 DEF AcceptTCP
<1>2. CASE ReadTCP(g)
  BY <1>2 DEF ReadTCP
<1>3. CASE ReadEOF(g)
  BY <1>3 DEF ReadEOF, Unlink
<1>4. CASE ReadReset(g)
  BY <1>4, ExitType DEF ReadReset
<1>5. CASE SendTCP(g)
  BY <1>5 DEF SendTCP
<1> QED BY <1>1, <1>2, <1>3, <1>4, <1>5 DEF Reader

LEMMA DgramType ==
  ASSUME TypeInv, NEW u \in Dgram, DgramReader(u),
         UNCHANGED clientVars
  PROVE TypeInv'
<1> USE ControlAssumption
<1> USE DEF TypeInv, TypeOK, NetTypeOK, ServerTypeOK, ClientTypeOK, Initialised,
            clientVars, handlerVars, shared, msmt, netVars, Dgram
<1>1. CASE ReadFromUDP(u)
  BY SMTT(30), <1>1 DEF ReadFromUDP
<1>2. CASE SetCltAddr(u)
  BY SMTT(30), <1>2 DEF SetCltAddr
<1>3. CASE SendDgram(u)
  BY <1>3 DEF SendDgram
<1> QED BY <1>1, <1>2, <1>3 DEF DgramReader

LEMMA DispatchType ==
  ASSUME TypeInv, Dispatch, UNCHANGED clientVars
  PROVE TypeInv'
<1> USE ControlAssumption
<1>1. Parsed \in Request
  BY DEF TypeInv, TypeOK, ServerTypeOK, Initialised, Dispatch, Parsed, InfoRequest,
         Request, Kinds
<1>2. FirstStep(Parsed.kind) \in {"info", "check", "lookup"}
  BY DEF FirstStep
<1> DEFINE p == Parsed  f == FirstStep(Parsed.kind)
<1> HIDE DEF p, f
<1>3. PICK h \in Goroutines :
        /\ Unreferenced(h)
        /\ req' = [req EXCEPT ![h] = p]
        /\ via' = [via EXCEPT ![h] = disp]
        /\ conn' = [g \in Goroutines |-> IF Unreferenced(g) THEN "none" ELSE conn[g]]
        /\ pc' = [pc EXCEPT ![h] = f]
  BY DEF Dispatch, Goto, p, f
<1>4. p \in Request /\ f \in {"info", "check", "lookup"}
  BY <1>1, <1>2 DEF p, f
<1> USE DEF TypeInv, TypeOK
<1>5. NetTypeOK' /\ ClientTypeOK'
  BY <1>3 DEF NetTypeOK, ClientTypeOK, Dispatch, clientVars
<1>6. ServerTypeOK'
  BY <1>3, <1>4 DEF ServerTypeOK, Dispatch, shared, msmt, HandlerPc
<1>7. Initialised'
  <2>1. disp' = None /\ \A g \in Goroutines : pc[g] = "send" => buf'[g] = buf[g]
    BY DEF Dispatch
  <2>2. \A u \in Dgram : rpc'[u] # "read" => rbuf'[u] \in Clients
    BY DEF Dispatch, Initialised
  <2>3. None \notin Goroutines /\ None \notin Dgram
    BY ControlAssumption DEF Dgram
  <2>4. UNCHANGED <<peer, ch, obj, ptr, json, repDataObj>>
    BY DEF Dispatch, shared
  <2>5. \A g \in Goroutines : pc'[g] = "send" => buf'[g] \in Request
    <3>1. SUFFICES ASSUME NEW g \in Goroutines, pc'[g] = "send" PROVE buf'[g] \in Request
      OBVIOUS
    <3>2. pc[g] = "send"
      BY <1>3, <1>4, <3>1 DEF ServerTypeOK
    <3> QED BY <2>1, <3>2 DEF Initialised
  <2>6. \A g \in Goroutines : pc'[g] \in HandlerPc => req'[g] \in Request
    BY <1>3, <1>4 DEF ServerTypeOK, Initialised
  <2>7. \A g \in Goroutines : g # h => pc'[g] = pc[g]
    BY <1>3 DEF ServerTypeOK
  <2>8. pc'[h] = f
    BY <1>3 DEF ServerTypeOK
  <2> QED BY <1>4, <2>1, <2>2, <2>3, <2>4, <2>5, <2>6, <2>7, <2>8 DEF Initialised
<1> QED BY <1>5, <1>6, <1>7

LEMMA HandlerType ==
  ASSUME TypeInv, NEW h \in Goroutines, Handler(h), UNCHANGED clientVars
  PROVE TypeInv'
<1> USE ControlAssumption
<1> USE DEF TypeInv, TypeOK, NetTypeOK, ServerTypeOK, Initialised,
            Goto, handlerVars, readerVars, shared, msmt, netVars,
            ReaderPc, HandlerPc, Dgram
<1>0. ClientTypeOK'
  BY DEF ClientTypeOK, clientVars
<1>1. CASE ConstructInfoReply(h)
  <2>1. Reply(h, None) \in Message
    BY <1>1 DEF ConstructInfoReply, Reply, Message, Request, Kinds
  <2> QED BY <1>0, <1>1, <2>1 DEF ConstructInfoReply, Assign
<1>2. CASE CheckInited(h)
  BY <1>0, <1>2 DEF CheckInited
<1>3. CASE MakeStorage(h)
  BY <1>0, <1>3 DEF MakeStorage
<1>4. CASE StartModule(h)
  <2>1. PICK m \in MsmtIds :
          /\ owner' = [owner EXCEPT ![m] = req[h].from]
          /\ recvCh' = [recvCh EXCEPT ![m] = Append(@, "START")]
          /\ ch' = [ch EXCEPT ![h] = m]
    BY <1>4 DEF StartModule
  <2>2. Append(recvCh[m], "START") \in Seq(Kinds)
    BY DEF Kinds
  <2>3. req[h].from \in Clients
    BY <1>4 DEF StartModule, Request
  <2> QED BY <1>0, <1>4, <2>1, <2>2, <2>3 DEF StartModule
<1>5. CASE InsertEntry(h)
  BY <1>0, <1>5 DEF InsertEntry
<1>6. CASE LookupChannel(h)
  <2>1. CASE Exit
    BY <2>1, ExitType
  <2>2. recvChStorage[req[h].mid] \in MsmtIds \cup {None}
    BY <1>6 DEF LookupChannel, Request
  <2>3. CASE ~Exit
    <3>1. ch' = [ch EXCEPT ![h] = recvChStorage[req[h].mid]]
          /\ recvChStorage[req[h].mid] # None
      BY <1>6, <2>3 DEF LookupChannel
    <3>2. pc' = [pc EXCEPT ![h] = "mgmt"] /\ req[h] \in Request
      BY <1>6, <2>3 DEF LookupChannel
    <3> QED BY ZenonT(60), <1>0, <1>6, <2>2, <2>3, <3>1, <3>2 DEF LookupChannel
  <2> QED BY <2>1, <2>3
<1>7. CASE ModuleReplies(h) /\ pc[h] = "mgmt" /\ up' = up
           /\ closed' \subseteq closed \cup msmtStorage
  <2>1. req[h].kind \in Kinds /\ req[h] \in Request
    BY <1>7 DEF Request
  <2>2. \A m \in MsmtIds : Append(recvCh[m], req[h].kind) \in Seq(Kinds)
    BY <2>1
  <2>3. recvCh' \in [MsmtIds -> Seq(Kinds)]
    BY <1>7, <2>2 DEF ModuleReplies
  <2> QED BY <1>0, <1>7, <2>1, <2>3 DEF ModuleReplies
<1>8. CASE ReceiveReply(h)
  <2> DEFINE m == IF req[h].kind = "MSMT_INFO" THEN req[h].mid ELSE ch[h]
  <2>1. Reply(h, m) \in Message
    BY <1>8 DEF ReceiveReply, Reply, Message, Request, Kinds
  <2>2. CASE Exit
    BY <2>2, ExitType
  <2>3. CASE ~Exit
    <3>1. Tail(recvCh[ch[h]]) \in Seq(Kinds)
      BY <1>8, <2>3 DEF ReceiveReply
    <3> DEFINE r == Reply(h, m)
    <3> HIDE DEF r
    <3>2. /\ obj' = [g \in Goroutines |-> IF g = h THEN r
                       ELSE IF \E i \in Goroutines : ptr[i] = g THEN obj[g] ELSE None]
          /\ repDataObj' = h
          /\ recvCh' = [recvCh EXCEPT ![ch[h]] = Tail(recvCh[ch[h]])]
          /\ \/ pc' = [pc EXCEPT ![h] = "store"]
             \/ pc' = [pc EXCEPT ![h] = "conv"]
          /\ pc[h] = "recv"
      BY <1>8, <2>3 DEF ReceiveReply, Assign, r
    <3>3. r \in Message
      BY <2>1 DEF r
    <3>4. UNCHANGED <<up, readerVars, req, via, ch, ptr, json, recvChStorage,
                      mapInited, msmtStorage, owner, closed, netVars>>
      BY <1>8, <2>3 DEF ReceiveReply
    <3>5. ServerTypeOK'
      BY <3>1, <3>2, <3>3, <3>4
    <3>6. Initialised'
      BY <3>2, <3>3, <3>4
    <3> QED BY <1>0, <3>4, <3>5, <3>6
  <2> QED BY <2>2, <2>3
<1>9. CASE StoreChannel(h)
  BY ZenonT(60), <1>0, <1>9 DEF StoreChannel
<1>10. CASE EncodeType(h)
  BY <1>0, <1>10 DEF EncodeType
<1>11. CASE ClearType(h)
  <2>1. ptr[h] \in Goroutines /\ obj[ptr[h]] \in Message
    BY <1>11 DEF ClearType
  <2>2. \A x \in Message : [x EXCEPT !.type = "zero"] \in Message
    BY DEF Message
  <2>3. PICK o \in Message : obj' = [obj EXCEPT ![ptr[h]] = o]
    BY <1>11, <2>1, <2>2 DEF ClearType
  <2>4. /\ pc[h] = "marshal" /\ pc' = [pc EXCEPT ![h] = "write"]
        /\ ptr' = [ptr EXCEPT ![h] = None]
        /\ UNCHANGED <<up, readerVars, req, via, ch, json, shared, msmt, netVars>>
    BY <1>11 DEF ClearType
  <2> QED BY <1>0, <2>1, <2>3, <2>4
<1>12. CASE \E R : Deliver(h, R) /\ pc[h] = "write" /\ up' = up
  <2>1. PICK R : Deliver(h, R)
    BY <1>12
  <2>2. inbox' \in [Clients -> Seq(Message)]
    BY <1>12, <2>1 DEF Deliver
  <2> QED BY <1>0, <1>12, <2>1, <2>2 DEF Deliver
<1>13. CASE BecomeAcceptor(h) /\ conn' \in [Goroutines -> {"none", "open", "closed"}]
            /\ mcOpen' \in BOOLEAN /\ (UNCHANGED link \/ Unlink(via[h]))
  BY <1>0, <1>13 DEF BecomeAcceptor, Unlink
<1>14. CASE HandleMsmtStopReq(h) \/ HandleMsmtInfoReq(h)
  <2>1. CASE Exit
    BY <2>1, ExitType
  <2>2. CASE ~Exit
    <3>1. ModuleReplies(h) /\ pc[h] = "mgmt"
      BY <1>14, <2>2 DEF HandleMsmtStopReq, HandleMsmtInfoReq
    <3>2. closed' \subseteq closed \cup msmtStorage
      BY <1>14, <2>2 DEF HandleMsmtStopReq, HandleMsmtInfoReq
    <3>3. up' = up
      BY <3>1 DEF ModuleReplies
    <3> QED BY <1>7, <3>1, <3>2, <3>3
  <2> QED BY <2>1, <2>2
<1>15. CASE WriteAnswerTCP(h) \/ WriteAnswerUDP(h) \/ WriteAnswerMc(h)
  <2>1. pc[h] = "write"
    BY <1>15 DEF WriteAnswerTCP, WriteAnswerUDP, WriteAnswerMc
  <2>2. CASE Exit
    BY <2>2, ExitType
  <2>3. CASE ~Exit
    <3>1. PICK R : Deliver(h, R)
      BY <1>15, <2>3 DEF WriteAnswerTCP, WriteAnswerUDP, WriteAnswerMc
    <3>2. up' = up
      BY <3>1 DEF Deliver
    <3> QED BY <1>12, <2>1, <3>1, <3>2
  <2> QED BY <2>2, <2>3
<1>16. CASE CloseConnTCP(h) \/ CloseConnUDP(h) \/ CloseConnMc(h)
  BY <1>13, <1>16, ExitType DEF CloseConnTCP, CloseConnUDP, CloseConnMc
<1> QED
  BY <1>1, <1>2, <1>3, <1>4, <1>5, <1>6, <1>8, <1>9, <1>10, <1>11, <1>14, <1>15, <1>16
     DEF Handler

LEMMA ClientType ==
  ASSUME TypeInv, NEW c \in Clients, ClientStep(c) \/ Kill(c), UNCHANGED serverVars
  PROVE TypeInv'
<1> USE ControlAssumption, ClientAssumption
<1>0. ServerTypeOK' /\ Initialised'
  BY DEF TypeInv, TypeOK, ServerTypeOK, Initialised, serverVars, handlerVars,
         readerVars, shared, msmt
<1> USE DEF TypeInv, TypeOK, NetTypeOK, ClientTypeOK, At, netVars, Running
<1>1. CASE DialTCP(c)
  <2>1. backlog \in Seq(Clients)
    OBVIOUS
  <2>2. Append(backlog, c) \in Seq(Clients)
    BY ONLY <2>1, c \in Clients
  <2>3. backlog' \in Seq(Clients)
    BY <1>1, <2>2 DEF DialTCP
  <2>4. sock' \in [Clients -> {"none", "tcp", "udp", "mc"}]
    <3>1. sock' = sock \/ sock' = [sock EXCEPT ![c] = "tcp"]
      BY ONLY <1>1 DEF DialTCP
    <3> QED BY <3>1
  <2>5. ClientTypeOK'
    <3>1. At(c, "write") \/ At(c, "failed")
      BY ONLY <1>1 DEF DialTCP
    <3>2. UNCHANGED <<phase, mid, infos>>
      BY ONLY <1>1 DEF DialTCP
    <3>3. cpc \in [Clients -> Running \cup {"done", "failed", "killed"}]
      OBVIOUS
    <3>4. cpc' \in [Clients -> Running \cup {"done", "failed", "killed"}]
      BY ONLY <3>1, <3>3 DEF At, Running
    <3> QED BY <3>2, <3>4
  <2>6. UNCHANGED <<up, link, out, inbox, conn, dgrams>>
    BY <1>1 DEF DialTCP
  <2> QED BY <1>0, <2>3, <2>4, <2>5, <2>6
<1>2. CASE DialUDP(c)
  BY <1>0, <1>2 DEF DialUDP
<1>3. CASE WriteTCP(c)
  <2>1. CurrentRequest(c) \in Request
    BY DEF CurrentRequest, Request
  <2> QED BY <1>0, <1>3, <2>1 DEF WriteTCP
<1>4. CASE WriteDgram(c)
  BY <1>0, <1>4 DEF WriteDgram, Proto, Dgram
<1>5. CASE Listen(c)
  BY <1>0, <1>5 DEF Listen
<1>6. CASE ReadOther(c)
  BY <1>0, <1>6 DEF ReadOther
<1>7. CASE ReadReply(c)
  <2>0. Head(inbox[c]) \in Message
    <3>1. inbox[c] \in Seq(Message) /\ inbox[c] # <<>>
      BY <1>7 DEF ReadReply
    <3> HIDE DEF TypeInv, TypeOK, NetTypeOK, ClientTypeOK
    <3> QED BY <3>1
  <2>1. Head(inbox[c]).mid \in MsmtIds \cup {None}
    BY <2>0 DEF Message
  <2>2. NetTypeOK'
    BY <1>7 DEF ReadReply, Close
  <2>3. mid' \in [Clients -> MsmtIds \cup {None}]
    BY <1>7, <2>1 DEF ReadReply
  <2>4. cpc' \in [Clients -> Running \cup {"done", "failed", "killed"}]
    BY <1>7 DEF ReadReply
  <2>5. phase' \in [Clients -> Kinds] /\ infos' = infos
    BY <1>7 DEF ReadReply, Kinds
  <2> QED BY <1>0, <2>2, <2>3, <2>4, <2>5
<1>8. CASE ReadError(c)
  BY <1>0, <1>8 DEF ReadError, Close
<1>9. CASE AskInfo(c)
  BY <1>0, <1>9 DEF AskInfo, Kinds
<1>10. CASE AskStop(c)
  BY <1>0, <1>10 DEF AskStop, Kinds
<1>11. CASE Kill(c)
  BY <1>0, <1>11 DEF Kill
<1> QED
  BY <1>1, <1>2, <1>3, <1>4, <1>5, <1>6, <1>7, <1>8, <1>9, <1>10, <1>11 DEF ClientStep

LEMMA TypeInit == Init => TypeInv
<1> SUFFICES ASSUME Init PROVE TypeInv
  OBVIOUS
<1> USE ControlAssumption, ClientAssumption
<1>1. NetTypeOK
  BY DEF Init, NetInit, NetTypeOK
<1>2. ServerTypeOK
  <2>1. pc \in [Goroutines -> {"idle", "accept"}]
    BY DEF Init, ServerInit, AcceptorsInit
  <2>2. recvCh \in [MsmtIds -> Seq(Kinds)]
    BY DEF Init, ServerInit
  <2> QED BY <2>1, <2>2 DEF Init, ServerInit, ServerTypeOK, ReaderPc
<1>3. ClientTypeOK
  BY DEF Init, ClientInit, ClientTypeOK, Running, Kinds
<1>4. Initialised
  BY DEF Init, ServerInit, AcceptorsInit, Initialised, HandlerPc, Dgram
<1> QED BY <1>1, <1>2, <1>3, <1>4 DEF TypeInv, TypeOK

LEMMA TypeStep == TypeInv /\ [Next]_vars => TypeInv'
<1> SUFFICES ASSUME TypeInv, [Next]_vars PROVE TypeInv'
  OBVIOUS
<1>1. CASE ServerNext /\ UNCHANGED clientVars
  BY <1>1, ReaderType, HandlerType, DgramType, DispatchType, ExitType
     DEF ServerNext, ParseTorn, ConcurrentMapAccess
<1>2. CASE ClientNext /\ UNCHANGED serverVars
  BY <1>2, ClientType DEF ClientNext
<1>3. CASE UNCHANGED vars
  BY <1>3 DEF vars, netVars, serverVars, clientVars, readerVars, handlerVars, shared,
     msmt, TypeInv, TypeOK, NetTypeOK, ServerTypeOK, ClientTypeOK, Initialised
<1> QED BY <1>1, <1>2, <1>3 DEF Next

\* Every variable of the control plane keeps its type, whatever mix of TCP, UDP
\* and multicast clients the server has.
THEOREM TypeCorrect == Spec => []TypeOK
<1>1. Spec => []TypeInv
  BY TypeInit, TypeStep, PTL DEF Spec
<1>2. TypeInv => TypeOK
  BY DEF TypeInv
<1> QED BY <1>1, <1>2, PTL

-----------------------------------------------------------------------------
(* One request at a time, when every client uses TCP *)

TcpOnly == UdpClients = {} /\ McClients = {}

\* A goroutine that accepts, reads, sends or handles is alone in doing so.
LEMMA Alone ==
  ASSUME TypeInv, SingleFlight, NEW g \in Goroutines,
         pc[g] \in {"accept", "read", "send"} \cup HandlerPc
  PROVE disp = None /\ \A x \in Goroutines : x # g => pc[x] \in {"idle", "reread"}
<1>1. g \in Active
  BY DEF Active
<1>2. disp = None
  BY <1>1 DEF SingleFlight
<1>3. ASSUME NEW x \in Goroutines, x # g PROVE pc[x] \in {"idle", "reread"}
  <2>1. x \notin Active
    BY <1>1, <1>3 DEF SingleFlight
  <2>2. pc[x] \in {"idle"} \cup ReaderPc \cup HandlerPc
    BY DEF TypeInv, TypeOK, ServerTypeOK
  <2> QED BY ONLY <2>1, <2>2, x \in Goroutines DEF Active, ReaderPc
<1> QED BY <1>2, <1>3

\* While the dispatch loop holds a request nobody else is active.
LEMMA Calm ==
  ASSUME TypeInv, SingleFlight, disp # None
  PROVE \A x \in Goroutines : pc[x] \in {"idle", "reread"}
<1> SUFFICES ASSUME NEW x \in Goroutines PROVE pc[x] \in {"idle", "reread"}
  OBVIOUS
<1>1. x \notin Active
  BY DEF SingleFlight
<1>2. pc[x] \in {"idle"} \cup ReaderPc \cup HandlerPc
  BY DEF TypeInv, TypeOK, ServerTypeOK
<1> QED BY ONLY <1>1, <1>2, x \in Goroutines DEF Active, ReaderPc

\* What the baton rule looks like after a step in which g took it or kept it.
LEMMA Baton ==
  ASSUME NEW g \in Goroutines, disp' = None,
         \A x \in Goroutines : x # g => pc'[x] \in {"idle", "reread"}
  PROVE SingleFlight'
BY DEF SingleFlight, Active, HandlerPc

LEMMA ExitTcp ==
  ASSUME TcpInv, Exit, UNCHANGED clientVars
  PROVE TcpInv'
<1>1. UNCHANGED <<pc, disp, inbox, phase, dgrams, rpc, via, sock, cpc, link, out>>
  BY DEF Exit, clientVars, readerVars, handlerVars, netVars
<1>2. up' = FALSE
  BY DEF Exit
<1>3. SingleFlight'
  BY <1>1 DEF TcpInv, SingleFlight, Active
<1>4. OwnReplies'
  BY <1>1 DEF TcpInv, OwnReplies
<1>5. NoDatagrams'
  BY <1>1 DEF TcpInv, NoDatagrams, Proto
<1>6. Exchange'
  BY <1>1 DEF TcpInv, Exchange, Awaiting
<1> QED BY <1>2, <1>3, <1>4, <1>5, <1>6 DEF TcpInv

\* A step of a handler from one label to another that touches neither a
\* connection nor a client: no other goroutine writes the shared variable, so
\* the answer the handler prepares is its own.
LEMMA QuietTcp ==
  ASSUME TypeInv, TcpInv, up, NEW h \in Goroutines, NEW l \in HandlerPc \ {"close"},
         pc[h] \in HandlerPc \ {"close"}, pc' = [pc EXCEPT ![h] = l],
         UNCHANGED <<up, readerVars, req, via, netVars, clientVars>>,
         l \in {"store", "conv"} =>
           /\ repDataObj' = h
           /\ obj'[h].type = req[h].kind /\ obj'[h].seq = req[h].from,
         l \in {"marshal", "write"} =>
           json'[h].type = req[h].kind /\ json'[h].seq = req[h].from
  PROVE TcpInv'
<1>1. UNCHANGED <<disp, peer, buf, rpc, req, via, backlog, sock, link, out, inbox, conn,
                  dgrams, cpc, phase>>
  BY DEF readerVars, netVars, clientVars
<1>2. pc \in [Goroutines -> {"idle"} \cup ReaderPc \cup HandlerPc]
  BY DEF TypeInv, TypeOK, ServerTypeOK
<1>3. disp = None /\ \A x \in Goroutines : x # h => pc[x] \in {"idle", "reread"}
  BY Alone DEF TcpInv
<1>4. pc'[h] = l /\ \A x \in Goroutines : x # h => pc'[x] = pc[x]
  BY <1>2
<1>5. SingleFlight'
  BY <1>1, <1>3, <1>4, Baton
<1>6. OwnReplies'
  BY <1>1 DEF TcpInv, OwnReplies
<1>7. NoDatagrams'
  BY <1>1 DEF TcpInv, NoDatagrams, Proto
<1>8. Exchange'
  BY <1>1 DEF TcpInv, Exchange, Awaiting
<1>9. Connections'
  BY <1>1, <1>4 DEF TcpInv, Connections, InBacklog, HandlerPc
<1>10. Requests'
  BY <1>1, <1>3, <1>4 DEF TcpInv, Requests, Awaiting, HandlerPc
<1>11. Answers'
  <2>1. via[h] \in Goroutines
    BY DEF TcpInv, Answers
  <2> QED BY <1>1, <1>3, <1>4, <2>1 DEF Answers, HandlerPc
<1> QED BY <1>5, <1>6, <1>7, <1>8, <1>9, <1>10, <1>11 DEF TcpInv

LEMMA QuietSteps ==
  ASSUME TypeInv, TcpInv, NEW h \in Goroutines, UNCHANGED clientVars, ~Exit,
         \/ ConstructInfoReply(h) \/ CheckInited(h) \/ MakeStorage(h)
         \/ StartModule(h) \/ InsertEntry(h) \/ LookupChannel(h)
         \/ HandleMsmtStopReq(h) \/ HandleMsmtInfoReq(h) \/ ReceiveReply(h)
         \/ StoreChannel(h) \/ EncodeType(h) \/ ClearType(h)
  PROVE TcpInv'
<1>t. /\ obj \in [Goroutines -> Message \cup {None}]
      /\ json \in [Goroutines -> Message \cup {None}]
      /\ ptr \in [Goroutines -> Goroutines \cup {None}]
  BY DEF TypeInv, TypeOK, ServerTypeOK
<1>r. up => /\ pc[h] \in {"store", "conv"} =>
                 /\ repDataObj = h
                 /\ obj[h].type = req[h].kind /\ obj[h].seq = req[h].from
            /\ pc[h] \in {"marshal", "write"} =>
                 json[h].type = req[h].kind /\ json[h].seq = req[h].from
  BY DEF TcpInv, Answers
<1>l. {"make", "run", "insert", "mgmt", "recv", "store", "conv", "marshal", "write"}
        \subseteq HandlerPc \ {"close"}
  BY DEF HandlerPc
<1>1. CASE ConstructInfoReply(h)
  <2>1. obj'[h].type = req[h].kind /\ obj'[h].seq = req[h].from /\ repDataObj' = h
    BY <1>1 DEF ConstructInfoReply, Assign, Reply
  <2> QED BY <1>1, <2>1, <1>l, QuietTcp DEF ConstructInfoReply, Goto, HandlerPc
<1>2. CASE CheckInited(h)
  BY <1>2, <1>l, QuietTcp DEF CheckInited, Goto, HandlerPc, handlerVars
<1>3. CASE MakeStorage(h)
  BY <1>3, <1>l, QuietTcp DEF MakeStorage, Goto, HandlerPc, handlerVars
<1>4. CASE StartModule(h)
  BY <1>4, <1>l, QuietTcp DEF StartModule, Goto, HandlerPc
<1>5. CASE InsertEntry(h)
  BY <1>5, <1>l, QuietTcp DEF InsertEntry, Goto, HandlerPc, handlerVars
<1>6. CASE LookupChannel(h)
  BY <1>6, <1>l, QuietTcp DEF LookupChannel, Goto, HandlerPc
<1>7. CASE HandleMsmtStopReq(h) \/ HandleMsmtInfoReq(h)
  <2>1. ModuleReplies(h) /\ up /\ pc[h] = "mgmt"
    BY <1>7 DEF HandleMsmtStopReq, HandleMsmtInfoReq
  <2> QED BY <2>1, <1>l, QuietTcp DEF ModuleReplies, Goto, HandlerPc, handlerVars
<1>8. CASE ReceiveReply(h)
  <2>1. obj'[h].type = req[h].kind /\ obj'[h].seq = req[h].from /\ repDataObj' = h
    <3>1. PICK m : obj'[h] = Reply(h, m) /\ repDataObj' = h
      BY <1>8 DEF ReceiveReply, Assign
    <3> QED BY <3>1 DEF Reply
  <2>2. /\ up /\ pc[h] = "recv"
        /\ pc' = [pc EXCEPT ![h] = "store"] \/ pc' = [pc EXCEPT ![h] = "conv"]
        /\ UNCHANGED <<up, readerVars, req, via, netVars>>
    BY <1>8 DEF ReceiveReply, Goto
  <2> QED BY <2>1, <2>2, <1>l, QuietTcp DEF HandlerPc
<1>9. CASE StoreChannel(h)
  BY <1>9, <1>r, <1>l, QuietTcp DEF StoreChannel, Goto, HandlerPc, handlerVars
<1>10. CASE EncodeType(h)
  BY <1>10, <1>t, <1>r, <1>l, QuietTcp DEF EncodeType, Goto, HandlerPc
<1>11. CASE ClearType(h)
  BY <1>11, <1>r, <1>l, QuietTcp DEF ClearType, Goto, HandlerPc
<1> QED
  BY <1>1, <1>2, <1>3, <1>4, <1>5, <1>6, <1>7, <1>8, <1>9, <1>10, <1>11

\* The answer goes to the client whose request it answers, which waits for it
\* and for nothing else.
LEMMA WriteTcp ==
  ASSUME TypeInv, TcpInv, NEW h \in Goroutines, WriteAnswerTCP(h), ~Exit,
         UNCHANGED clientVars
  PROVE TcpInv'
<1> DEFINE Receivers == {c \in Clients : link[c] = via[h] /\ sock[c] = "tcp"}
<1>1. /\ up /\ pc[h] = "write" /\ via[h] \in Goroutines
      /\ Deliver(h, Receivers)
  BY DEF WriteAnswerTCP
<1>2. /\ inbox' = [c \in Clients |-> IF c \in Receivers THEN Append(inbox[c], json[h])
                                     ELSE inbox[c]]
      /\ pc' = [pc EXCEPT ![h] = "close"]
      /\ UNCHANGED <<up, disp, peer, buf, rpc, req, via, json, repDataObj, obj, backlog,
                     sock, link, out, conn, dgrams, cpc, phase>>
  BY <1>1 DEF Deliver, Goto, readerVars, handlerVars, shared, clientVars
<1>3. pc \in [Goroutines -> {"idle"} \cup ReaderPc \cup HandlerPc]
  BY DEF TypeInv, TypeOK, ServerTypeOK
<1>4. disp = None /\ \A x \in Goroutines : x # h => pc[x] \in {"idle", "reread"}
  BY <1>1, Alone DEF TcpInv, HandlerPc
<1>5. pc'[h] = "close" /\ \A x \in Goroutines : x # h => pc'[x] = pc[x]
  BY <1>2, <1>3
<1>6. \A c \in Receivers : /\ cpc[c] = "read" /\ inbox[c] = <<>> /\ out[c] = None
                           /\ json[h].type = phase[c] /\ json[h].seq = c
  <2>1. SUFFICES ASSUME NEW c \in Clients, link[c] = via[h], sock[c] = "tcp"
                 PROVE /\ cpc[c] = "read" /\ inbox[c] = <<>> /\ out[c] = None
                       /\ json[h].type = phase[c] /\ json[h].seq = c
    OBVIOUS
  <2>2. req[h].from = c /\ req[h].kind = phase[c] /\ Awaiting(c)
    BY <1>1, <2>1 DEF TcpInv, Requests, HandlerPc
  <2>3. cpc[c] = "read" /\ inbox[c] = <<>>
    BY <2>1, <2>2 DEF TcpInv, Exchange, Awaiting
  <2>4. out[c] = None
    <3>1. link[c] # None
      BY <1>1, <2>1, ControlAssumption
    <3>2. pc[link[c]] # "read"
      BY <1>1, <1>4, <2>1
    <3> QED BY <1>1, <3>1, <3>2 DEF TcpInv, Connections
  <2>5. json[h].type = req[h].kind /\ json[h].seq = req[h].from
    BY <1>1 DEF TcpInv, Answers
  <2> QED BY <2>2, <2>3, <2>4, <2>5
<1>7. SingleFlight'
  BY <1>2, <1>4, <1>5, Baton
<1>8. OwnReplies'
  <2>1. SUFFICES ASSUME NEW c \in Clients, NEW i \in DOMAIN inbox'[c]
                 PROVE inbox'[c][i].seq = c /\ inbox'[c][i].type = phase[c]
    BY <1>2 DEF OwnReplies
  <2>2. CASE c \in Receivers
    <3>1. inbox'[c] = Append(<<>>, json[h])
      BY <1>2, <1>6, <2>2
    <3>2. i = 1 /\ inbox'[c][i] = json[h]
      BY <3>1
    <3> QED BY <1>6, <2>2, <3>2
  <2>3. CASE c \notin Receivers
    <3>1. inbox'[c] = inbox[c]
      BY <1>2, <2>3
    <3> QED BY <3>1 DEF TcpInv, OwnReplies
  <2> QED BY <2>2, <2>3
<1>9. NoDatagrams'
  BY <1>2 DEF TcpInv, NoDatagrams, Proto
<1>10. Exchange'
  BY <1>2, <1>6 DEF TcpInv, Exchange, Awaiting
<1>11. Connections'
  <2>1. \A c \in Clients : InBacklog(c) => c \notin Receivers
    BY <1>1, ControlAssumption DEF TcpInv, Connections
  <2>2. \A c \in Clients : c \notin Receivers => inbox'[c] = inbox[c]
    BY <1>2
  <2> QED BY <1>1, <1>2, <1>5, <2>1, <2>2 DEF TcpInv, Connections, InBacklog
<1>12. Requests'
  BY <1>1, <1>2, <1>4, <1>5, ControlAssumption DEF TcpInv, Requests, HandlerPc
<1>13. Answers'
  BY <1>1, <1>2, <1>4, <1>5 DEF Answers, HandlerPc
<1> QED BY <1>7, <1>8, <1>9, <1>10, <1>11, <1>12, <1>13 DEF TcpInv

\* Closing the connection and accepting again hands the baton on.
LEMMA CloseTcp ==
  ASSUME TypeInv, TcpInv, NEW h \in Goroutines, CloseConnTCP(h), ~Exit,
         UNCHANGED clientVars
  PROVE TcpInv'
<1> DEFINE g == via[h]
<1>1. /\ up /\ pc[h] = "close" /\ g \in Goroutines
      /\ conn' = [conn EXCEPT ![g] = "closed"]
      /\ Unlink(g) /\ BecomeAcceptor(h)
  BY DEF CloseConnTCP
<1>2. /\ pc' = [pc EXCEPT ![h] = "accept"]
      /\ via' = [via EXCEPT ![h] = None]
      /\ UNCHANGED <<up, disp, peer, buf, rpc, backlog, sock, out, inbox, dgrams, cpc,
                     phase>>
  BY <1>1 DEF BecomeAcceptor, Goto, clientVars
<1>3. /\ pc \in [Goroutines -> {"idle"} \cup ReaderPc \cup HandlerPc]
      /\ via \in [Goroutines -> Goroutines \cup Dgram \cup {None}]
      /\ conn \in [Goroutines -> {"none", "open", "closed"}]
      /\ link \in [Clients -> Goroutines \cup {None}]
  BY DEF TypeInv, TypeOK, ServerTypeOK, NetTypeOK
<1>4. disp = None /\ \A x \in Goroutines : x # h => pc[x] \in {"idle", "reread"}
  BY <1>1, Alone DEF TcpInv, HandlerPc
<1>5. pc'[h] = "accept" /\ \A x \in Goroutines : x # h => pc'[x] = pc[x]
  BY <1>2, <1>3
<1>6. \A c \in Clients : link'[c] = link[c] \/ link'[c] = None
  BY <1>1 DEF Unlink
<1>7. \A x \in Goroutines : conn'[x] = conn[x] \/ conn'[x] = "closed"
  BY <1>1, <1>3
<1>8. SingleFlight'
  BY <1>2, <1>4, <1>5, Baton
<1>9. OwnReplies'
  BY <1>2 DEF TcpInv, OwnReplies
<1>10. NoDatagrams'
  BY <1>2, <1>3, ControlAssumption DEF TcpInv, NoDatagrams, Proto, Dgram
<1>11. Exchange'
  BY <1>2, <1>6 DEF TcpInv, Exchange, Awaiting
<1>12. Connections'
  <2>1. Connections /\ up
    BY <1>1 DEF TcpInv
  <2>2. \A c \in Clients : link'[c] # None => link'[c] = link[c] /\ link[c] # h
    BY <1>1, <1>6, <2>1
       DEF Connections, HandlerPc
  <2>3. \A x \in Goroutines : pc'[x] \in {"read", "send"} => conn'[x] = "open"
    BY <1>4, <1>5
  <2>4. \A c \in Clients : link'[c] # None =>
          \/ pc'[link[c]] \in {"read", "send", "reread"} /\ peer'[link[c]] = c
          \/ pc'[link[c]] = "idle" /\ conn'[link[c]] = "closed"
    BY <1>2, <1>3, <1>5, <1>7, <2>1, <2>2 DEF Connections
  <2>5. \A c \in Clients : link'[c] # None /\ (cpc[c] = "write" \/ out[c] # None) =>
          pc'[link[c]] = "read"
    BY <1>3, <1>5, <2>1, <2>2 DEF Connections
  <2>6. \A c \in Clients : InBacklog(c) => link'[c] = None
    BY <1>6, <2>1 DEF Connections
  <2> QED BY <1>2, <2>1, <2>2, <2>3, <2>4, <2>5, <2>6 DEF Connections, InBacklog
<1>13. Requests'
  BY <1>2, <1>4, <1>5, ControlAssumption DEF Requests, HandlerPc
<1>14. Answers'
  BY <1>4, <1>5 DEF Answers, HandlerPc
<1> QED BY <1>8, <1>9, <1>10, <1>11, <1>12, <1>13, <1>14 DEF TcpInv

LEMMA HandlerTcp ==
  ASSUME TypeInv, TcpInv, NEW h \in Goroutines, Handler(h), UNCHANGED clientVars
  PROVE TcpInv'
<1>1. CASE Exit
  BY <1>1, ExitTcp
<1>2. CASE ~Exit
  <2>1. via[h] \notin Dgram
    BY DEF TcpInv, NoDatagrams
  <2>2. ~ (WriteAnswerUDP(h) \/ WriteAnswerMc(h) \/ CloseConnUDP(h) \/ CloseConnMc(h))
    BY <2>1 DEF WriteAnswerUDP, WriteAnswerMc, CloseConnUDP, CloseConnMc, Dgram
  <2> QED BY <1>2, <2>2, QuietSteps, WriteTcp, CloseTcp DEF Handler
<1> QED BY <1>1, <1>2

\* The acceptor takes the oldest connection of the queue and nobody else's.
LEMMA AcceptTcp ==
  ASSUME TypeInv, TcpInv, NEW g \in Goroutines, AcceptTCP(g), UNCHANGED clientVars
  PROVE TcpInv'
<1> DEFINE a == Head(backlog)
<1>1. /\ up /\ pc[g] = "accept" /\ backlog # <<>>
      /\ peer' = [peer EXCEPT ![g] = a]
      /\ link' = [link EXCEPT ![a] = g]
      /\ conn' = [conn EXCEPT ![g] = "open"]
      /\ backlog' = Tail(backlog)
      /\ pc' = [pc EXCEPT ![g] = "read"]
      /\ UNCHANGED <<up, disp, buf, rpc, req, via, json, repDataObj, obj, sock, out, inbox,
                     dgrams, cpc, phase>>
  BY DEF AcceptTCP, Goto, handlerVars, shared, clientVars
<1>2. /\ pc \in [Goroutines -> {"idle"} \cup ReaderPc \cup HandlerPc]
      /\ conn \in [Goroutines -> {"none", "open", "closed"}]
      /\ peer \in [Goroutines -> Clients \cup {None}]
      /\ link \in [Clients -> Goroutines \cup {None}]
      /\ backlog \in Seq(Clients)
  BY DEF TypeInv, TypeOK, ServerTypeOK, NetTypeOK
<1>3. a \in Clients /\ a = backlog[1] /\ 1 \in DOMAIN backlog
  BY <1>1, <1>2
<1>4. /\ DOMAIN backlog' = 1 .. (Len(backlog) - 1)
      /\ \A i \in DOMAIN backlog' : backlog'[i] = backlog[i + 1] /\ i + 1 \in DOMAIN backlog
  BY ONLY <1>1, <1>2
<1>5. disp = None /\ \A x \in Goroutines : x # g => pc[x] \in {"idle", "reread"}
  BY <1>1, Alone DEF TcpInv
<1>6. pc'[g] = "read" /\ \A x \in Goroutines : x # g => pc'[x] = pc[x]
  BY <1>1, <1>2
<1>7. Connections /\ Requests /\ Answers
  BY <1>1 DEF TcpInv
<1>8. \A c \in Clients : link[c] # g
  BY <1>1, <1>7, ControlAssumption DEF Connections
<1>9. InBacklog(a)
  BY <1>3 DEF InBacklog
<1>10. \A c \in Clients : InBacklog(c)' => InBacklog(c) /\ c # a
  BY <1>3, <1>4, <1>7 DEF InBacklog, Connections
<1>11. link'[a] = g /\ \A c \in Clients : c # a => link'[c] = link[c]
  BY <1>1, <1>2, <1>3
<1>12. link[a] = None /\ inbox[a] = <<>> /\ cpc[a] \in {"write", "read", "killed"}
  BY <1>3, <1>7, <1>9 DEF Connections
<1>13. SingleFlight'
  BY <1>1, <1>5, <1>6, Baton
<1>14. OwnReplies'
  BY <1>1 DEF TcpInv, OwnReplies
<1>15. NoDatagrams'
  BY <1>1 DEF TcpInv, NoDatagrams, Proto
<1>16. Exchange'
  <2>1. Exchange
    BY DEF TcpInv
  <2> QED BY <1>1, <1>11, <1>12, <2>1 DEF Exchange, Awaiting
<1>17. Connections'
  <2>1. \A c, d \in Clients : link'[c] # None /\ link'[c] = link'[d] => c = d
    BY <1>7, <1>8, <1>11 DEF Connections
  <2>2. \A i, j \in DOMAIN backlog' : backlog'[i] = backlog'[j] => i = j
    <3>1. SUFFICES ASSUME NEW i \in DOMAIN backlog', NEW j \in DOMAIN backlog',
                          backlog'[i] = backlog'[j]
                   PROVE i = j
      OBVIOUS
    <3>2. i + 1 = j + 1
      BY <1>4, <1>7, <3>1 DEF Connections
    <3> QED BY <1>2, <1>4, <3>1, <3>2
  <2>3. \A c \in Clients : InBacklog(c)' =>
          /\ link'[c] = None /\ inbox'[c] = <<>>
          /\ cpc'[c] \in {"write", "read", "killed"}
    BY <1>1, <1>7, <1>10, <1>11 DEF Connections
  <2>4. \A c \in Clients : link'[c] # None =>
          \/ pc'[link'[c]] \in {"read", "send", "reread"} /\ peer'[link'[c]] = c
          \/ pc'[link'[c]] = "idle" /\ conn'[link'[c]] = "closed"
    BY <1>1, <1>2, <1>6, <1>7, <1>8, <1>11 DEF Connections
  <2>5. \A c \in Clients : link'[c] # None /\ (cpc'[c] = "write" \/ out'[c] # None) =>
          pc'[link'[c]] = "read"
    BY <1>1, <1>2, <1>6, <1>7, <1>8, <1>11 DEF Connections
  <2>6. \A x \in Goroutines : pc'[x] \in {"read", "send"} => conn'[x] = "open"
    BY <1>1, <1>2, <1>5, <1>6
  <2> QED BY <2>1, <2>2, <2>3, <2>4, <2>5, <2>6 DEF Connections
<1>18. Requests'
  BY <1>1, <1>5, <1>6, ControlAssumption DEF Requests, HandlerPc
<1>19. Answers'
  BY <1>5, <1>6 DEF Answers, HandlerPc
<1> QED BY <1>13, <1>14, <1>15, <1>16, <1>17, <1>18, <1>19 DEF TcpInv

\* Reading a request moves it from the connection to the reader's buffer.
LEMMA ReadTcp ==
  ASSUME TypeInv, TcpInv, NEW g \in Goroutines, ReadTCP(g), UNCHANGED clientVars
  PROVE TcpInv'
<1> DEFINE a == peer[g]
<1>1. /\ up /\ pc[g] \in {"read", "reread"} /\ conn[g] = "open"
      /\ link[a] = g /\ out[a] # None
      /\ buf' = [buf EXCEPT ![g] = out[a]]
      /\ out' = [out EXCEPT ![a] = None]
      /\ pc' = [pc EXCEPT ![g] = "send"]
      /\ UNCHANGED <<up, disp, peer, rpc, req, via, json, repDataObj, obj, backlog, link,
                     conn, sock, inbox, dgrams, cpc, phase>>
  BY DEF ReadTCP, Goto, handlerVars, shared, clientVars
<1>2. /\ pc \in [Goroutines -> {"idle"} \cup ReaderPc \cup HandlerPc]
      /\ buf \in [Goroutines -> Request \cup {None}]
      /\ out \in [Clients -> Request \cup {None}]
  BY DEF TypeInv, TypeOK, ServerTypeOK, NetTypeOK
<1>3. a \in Clients
  BY <1>1 DEF TypeInv, Initialised
<1>4. Connections /\ Requests /\ Answers /\ Exchange
  BY <1>1 DEF TcpInv
<1>5. pc[g] = "read"
  <2>1. link[a] # None
    BY <1>1, ControlAssumption
  <2> QED BY <1>1, <1>3, <1>4, <2>1 DEF Connections
<1>6. disp = None /\ \A x \in Goroutines : x # g => pc[x] \in {"idle", "reread"}
  BY <1>5, Alone DEF TcpInv
<1>7. pc'[g] = "send" /\ \A x \in Goroutines : x # g => pc'[x] = pc[x]
  BY <1>1, <1>2
<1>8. buf'[g] = out[a] /\ out'[a] = None /\ \A c \in Clients : c # a => out'[c] = out[c]
  BY <1>1, <1>2, <1>3
<1>9. \A c \in Clients : link[c] = g => c = a
  BY <1>1, <1>3, <1>4, ControlAssumption DEF Connections
<1>10. out[a].from = a /\ out[a].kind = phase[a] /\ Awaiting(a)
  BY <1>1, <1>3, <1>4 DEF Exchange
<1>11. SingleFlight'
  BY <1>1, <1>6, <1>7, Baton
<1>12. OwnReplies'
  BY <1>1 DEF TcpInv, OwnReplies
<1>13. NoDatagrams'
  BY <1>1 DEF TcpInv, NoDatagrams, Proto
<1>14. Exchange'
  BY <1>1, <1>4, <1>8 DEF Exchange, Awaiting
<1>15. Connections'
  <2>1. \A c \in Clients : link[c] # None /\ (cpc[c] = "write" \/ out'[c] # None) =>
          pc'[link[c]] = "read"
    <3>1. SUFFICES ASSUME NEW c \in Clients, link[c] # None,
                          cpc[c] = "write" \/ out'[c] # None
                   PROVE pc'[link[c]] = "read"
      OBVIOUS
    <3>2. c # a
      BY <1>8, <1>10, <3>1 DEF Awaiting
    <3>3. pc[link[c]] = "read" /\ link[c] # g
      BY <1>4, <1>8, <1>9, <3>1, <3>2 DEF Connections
    <3>4. link[c] \in Goroutines
      BY <3>1 DEF TypeInv, TypeOK, NetTypeOK
    <3> QED BY <1>7, <3>3, <3>4
  <2>2. \A c \in Clients : link[c] # None =>
          \/ pc'[link[c]] \in {"read", "send", "reread"} /\ peer[link[c]] = c
          \/ pc'[link[c]] = "idle" /\ conn[link[c]] = "closed"
    <3>1. \A c \in Clients : link[c] # None => link[c] \in Goroutines
      BY DEF TypeInv, TypeOK, NetTypeOK
    <3> QED BY <1>4, <1>5, <1>7, <3>1 DEF Connections
  <2>3. \A x \in Goroutines : pc'[x] \in {"read", "send"} => conn[x] = "open"
    BY <1>1, <1>6, <1>7
  <2>4. \A c \in Clients : InBacklog(c)' <=> InBacklog(c)
    BY <1>1 DEF InBacklog
  <2> QED BY <1>1, <1>4, <2>1, <2>2, <2>3, <2>4 DEF Connections
<1>16. Requests'
  <2>1. \A x \in Goroutines : pc'[x] \notin HandlerPc
    BY <1>6, <1>7 DEF HandlerPc
  <2>2. \A x \in Goroutines, c \in Clients :
          (pc'[x] = "send" \/ disp = x) /\ link[c] = x => x = g /\ c = a
    BY <1>6, <1>7, <1>9, ControlAssumption
  <2> QED BY <1>1, <1>8, <1>10, <2>1, <2>2 DEF Requests, Awaiting
<1>17. Answers'
  BY <1>6, <1>7 DEF Answers, HandlerPc
<1> QED BY <1>11, <1>12, <1>13, <1>14, <1>15, <1>16, <1>17 DEF TcpInv

\* A reader returns when the connection is closed at one of its ends.
LEMMA EofTcp ==
  ASSUME TypeInv, TcpInv, NEW g \in Goroutines, ReadEOF(g), UNCHANGED clientVars
  PROVE TcpInv'
<1> DEFINE a == peer[g]
<1>1. /\ up /\ pc[g] \in {"read", "reread"}
      /\ \/ conn[g] = "closed"
         \/ link[a] # g
         \/ sock[a] # "tcp"
      /\ Unlink(g)
      /\ peer' = [peer EXCEPT ![g] = None]
      /\ pc' = [pc EXCEPT ![g] = "idle"]
      /\ UNCHANGED <<up, disp, buf, out, rpc, req, via, json, repDataObj, obj, backlog,
                     conn, sock, inbox, dgrams, cpc, phase>>
  BY DEF ReadEOF, Goto, handlerVars, shared, clientVars
<1>2. /\ pc \in [Goroutines -> {"idle"} \cup ReaderPc \cup HandlerPc]
      /\ peer \in [Goroutines -> Clients \cup {None}]
      /\ link \in [Clients -> Goroutines \cup {None}]
  BY DEF TypeInv, TypeOK, ServerTypeOK, NetTypeOK
<1>3. Connections /\ Requests /\ Answers /\ Exchange
  BY <1>1 DEF TcpInv
<1>4. pc'[g] = "idle" /\ \A x \in Goroutines : x # g => pc'[x] = pc[x]
  BY <1>1, <1>2
<1>5. \A c \in Clients : link'[c] = link[c] \/ link'[c] = None
  BY <1>1 DEF Unlink
<1>6. \A c \in Clients : link'[c] = g => conn[g] = "closed" /\ pc[g] = "reread"
  <2>1. SUFFICES ASSUME NEW c \in Clients, link'[c] = g
                 PROVE conn[g] = "closed" /\ pc[g] = "reread"
    OBVIOUS
  <2>2. link[c] = g /\ sock[c] = "tcp"
    BY <1>1, <2>1, ControlAssumption DEF Unlink
  <2>3. c = a
    BY <1>1, <1>3, <2>2, ControlAssumption DEF Connections
  <2>4. conn[g] = "closed"
    BY <1>1, <2>2, <2>3
  <2> QED BY <1>1, <1>3, <2>4 DEF Connections
<1>7. SingleFlight'
  <2>1. \A x \in Goroutines : x \in Active' => x \in Active
    BY <1>4 DEF Active, HandlerPc
  <2>2. SingleFlight /\ disp' = disp
    BY <1>1 DEF TcpInv
  <2>3. Active' \subseteq Active
    BY <2>1 DEF Active
  <2> QED BY <2>2, <2>3 DEF SingleFlight
<1>8. OwnReplies'
  BY <1>1 DEF TcpInv, OwnReplies
<1>9. NoDatagrams'
  BY <1>1 DEF TcpInv, NoDatagrams, Proto
<1>10. Exchange'
  BY <1>1, <1>3, <1>5 DEF Exchange, Awaiting
<1>11. Connections'
  <2>1. \A c \in Clients : InBacklog(c)' <=> InBacklog(c)
    BY <1>1 DEF InBacklog
  <2>2. \A c, d \in Clients : link'[c] # None /\ link'[c] = link'[d] => c = d
    BY <1>3, <1>5 DEF Connections
  <2>3. \A c \in Clients : link'[c] # None =>
          \/ pc'[link'[c]] \in {"read", "send", "reread"} /\ peer'[link'[c]] = c
          \/ pc'[link'[c]] = "idle" /\ conn'[link'[c]] = "closed"
    <3>1. SUFFICES ASSUME NEW c \in Clients, link'[c] # None
                   PROVE \/ pc'[link'[c]] \in {"read", "send", "reread"} /\ peer'[link'[c]] = c
                         \/ pc'[link'[c]] = "idle" /\ conn'[link'[c]] = "closed"
      OBVIOUS
    <3>2. link'[c] = link[c] /\ link[c] \in Goroutines
      BY <1>2, <1>5, <3>1
    <3>3. CASE link[c] = g
      BY <1>1, <1>4, <1>6, <3>2, <3>3
    <3>4. CASE link[c] # g
      BY <1>1, <1>2, <1>3, <1>4, <3>1, <3>2, <3>4 DEF Connections
    <3> QED BY <3>3, <3>4
  <2>4. \A c \in Clients : link'[c] # None /\ (cpc[c] = "write" \/ out[c] # None) =>
          pc'[link'[c]] = "read"
    <3>1. SUFFICES ASSUME NEW c \in Clients, link'[c] # None,
                          cpc[c] = "write" \/ out[c] # None
                   PROVE pc'[link'[c]] = "read"
      OBVIOUS
    <3>2. link'[c] = link[c] /\ link[c] \in Goroutines /\ pc[link[c]] = "read"
      BY <1>2, <1>3, <1>5, <3>1 DEF Connections
    <3>3. link[c] # g
      BY <1>6, <3>2
    <3> QED BY <1>4, <3>2, <3>3
  <2>5. \A c \in Clients : InBacklog(c) => link'[c] = None
    BY <1>3, <1>5 DEF Connections
  <2>6. \A x \in Goroutines : pc'[x] \in {"read", "send"} => conn[x] = "open"
    BY <1>3, <1>4 DEF Connections
  <2> QED BY <1>1, <1>3, <2>1, <2>2, <2>3, <2>4, <2>5, <2>6 DEF Connections
<1>12. Requests'
  <2>1. \A x \in Goroutines : pc'[x] # "idle" => pc'[x] = pc[x]
    BY <1>4
  <2>2. disp' # None /\ disp' \in Goroutines \cup Dgram \cup {None} => disp' = disp
    BY <1>1
  <2>3. \A x \in Goroutines, c \in Clients :
          (pc'[x] = "send" \/ disp' = x) /\ link'[c] = x =>
            (pc[x] = "send" \/ disp = x) /\ link[c] = x
    BY <1>1, <1>5, <2>1, ControlAssumption
  <2>4. \A x \in Goroutines, c \in Clients :
          pc'[x] \in HandlerPc /\ link'[c] = via[x] =>
            pc'[x] = pc[x] /\ (link[c] = via[x] \/ via[x] = None)
    BY <1>5, <2>1 DEF HandlerPc
  <2>5. \A x \in Goroutines : pc[x] \in HandlerPc => via[x] # None
    BY <1>3, ControlAssumption DEF Answers
  <2> QED BY <1>1, <1>3, <2>3, <2>4, <2>5 DEF Requests, Awaiting
<1>13. Answers'
  BY <1>1, <1>3, <1>4 DEF Answers, HandlerPc
<1> QED BY <1>7, <1>8, <1>9, <1>10, <1>11, <1>12, <1>13 DEF TcpInv

\* The reader offers the request it has read: the baton goes to the dispatch
\* loop, and nobody is active until it has started a handler.
LEMMA SendTcp ==
  ASSUME TypeInv, TcpInv, NEW g \in Goroutines, SendTCP(g), UNCHANGED clientVars
  PROVE TcpInv'
<1>1. /\ up /\ pc[g] = "send" /\ disp = None
      /\ disp' = g
      /\ pc' = [pc EXCEPT ![g] = "reread"]
      /\ UNCHANGED <<up, peer, buf, rpc, req, via, backlog, link, conn, sock, out, inbox,
                     dgrams, cpc, phase>>
  BY DEF SendTCP, Goto, handlerVars, netVars, clientVars
<1>2. pc \in [Goroutines -> {"idle"} \cup ReaderPc \cup HandlerPc]
  BY DEF TypeInv, TypeOK, ServerTypeOK
<1>3. Connections /\ Requests
  BY <1>1 DEF TcpInv
<1>4. \A x \in Goroutines : x # g => pc[x] \in {"idle", "reread"}
  BY <1>1, Alone DEF TcpInv
<1>5. pc'[g] = "reread" /\ \A x \in Goroutines : x # g => pc'[x] = pc[x]
  BY <1>1, <1>2
<1>6. SingleFlight'
  BY <1>4, <1>5 DEF SingleFlight, Active, HandlerPc
<1>7. OwnReplies'
  BY <1>1 DEF TcpInv, OwnReplies
<1>8. NoDatagrams'
  BY <1>1, ControlAssumption DEF TcpInv, NoDatagrams, Proto, Dgram
<1>9. Exchange'
  BY <1>1 DEF TcpInv, Exchange, Awaiting
<1>10. Connections'
  <2>1. \A c \in Clients : link[c] # None => link[c] \in Goroutines
    BY DEF TypeInv, TypeOK, NetTypeOK
  <2>2. \A c \in Clients : InBacklog(c)' <=> InBacklog(c)
    BY <1>1 DEF InBacklog
  <2> QED BY <1>1, <1>3, <1>4, <1>5, <2>1, <2>2 DEF Connections
<1>11. Requests'
  <2>1. \A x \in Goroutines : pc'[x] \notin HandlerPc /\ pc'[x] # "send"
    BY <1>4, <1>5 DEF HandlerPc
  <2> QED BY <1>1, <1>3, <2>1 DEF Requests, Awaiting
<1>12. Answers'
  BY <1>4, <1>5 DEF Answers, HandlerPc
<1> QED BY <1>6, <1>7, <1>8, <1>9, <1>10, <1>11, <1>12 DEF TcpInv

LEMMA ReaderTcp ==
  ASSUME TypeInv, TcpInv, NEW g \in Goroutines, Reader(g), UNCHANGED clientVars
  PROVE TcpInv'
BY AcceptTcp, ReadTcp, EofTcp, SendTcp, ExitTcp DEF Reader, ReadReset

\* The dispatch loop hands the baton to a new handler, with the request that its
\* client still waits on.
LEMMA DispatchTcp ==
  ASSUME TypeInv, TcpInv, Dispatch, UNCHANGED clientVars
  PROVE TcpInv'
<1>1. up /\ disp \in Goroutines
  BY DEF Dispatch, TcpInv, NoDatagrams, TypeInv, TypeOK, ServerTypeOK
<1>2. Parsed = buf[disp]
  BY <1>1 DEF Parsed, TcpInv, NoDatagrams
<1> DEFINE f == FirstStep(Parsed.kind)
<1>3. f \in {"info", "check", "lookup"}
  BY DEF FirstStep
<1> HIDE DEF f
<1>4. PICK h \in Goroutines :
        /\ Unreferenced(h)
        /\ req' = [req EXCEPT ![h] = buf[disp]]
        /\ via' = [via EXCEPT ![h] = disp]
        /\ conn' = [g \in Goroutines |-> IF Unreferenced(g) THEN "none" ELSE conn[g]]
        /\ pc' = [pc EXCEPT ![h] = f]
  BY <1>2 DEF Dispatch, Goto, f
<1>5. /\ disp' = None
      /\ UNCHANGED <<up, peer, rpc, backlog, link, sock, out, inbox, dgrams, cpc, phase>>
  BY DEF Dispatch, clientVars
<1>6. /\ pc \in [Goroutines -> {"idle"} \cup ReaderPc \cup HandlerPc]
      /\ via \in [Goroutines -> Goroutines \cup Dgram \cup {None}]
      /\ req \in [Goroutines -> Request \cup {None}]
      /\ \A c \in Clients : link[c] # None => link[c] \in Goroutines
  BY DEF TypeInv, TypeOK, ServerTypeOK, NetTypeOK
<1>7. Connections /\ Requests
  BY <1>1 DEF TcpInv
<1>8. \A x \in Goroutines : pc[x] \in {"idle", "reread"}
  BY <1>1, Calm, ControlAssumption DEF TcpInv
<1>9. pc'[h] = f /\ \A x \in Goroutines : x # h => pc'[x] = pc[x]
  BY <1>4, <1>6
<1>10. via'[h] = disp /\ req'[h] = buf[disp]
  BY <1>4, <1>6
<1>11. \A c \in Clients : link[c] # None => link[c] # h /\ conn'[link[c]] = conn[link[c]]
  BY <1>4, <1>6 DEF Unreferenced
<1>12. SingleFlight'
  BY <1>5, <1>8, <1>9, Baton
<1>13. OwnReplies'
  BY <1>5 DEF TcpInv, OwnReplies
<1>14. NoDatagrams'
  <2>1. \A x \in Goroutines : via'[x] \notin Dgram
    BY <1>1, <1>4, <1>6 DEF TcpInv, NoDatagrams
  <2> QED BY <1>5, <2>1, ControlAssumption DEF TcpInv, NoDatagrams, Proto, Dgram
<1>15. Exchange'
  BY <1>5 DEF TcpInv, Exchange, Awaiting
<1>16. Connections'
  <2>1. \A c \in Clients : InBacklog(c)' <=> InBacklog(c)
    BY <1>5 DEF InBacklog
  <2>2. \A x \in Goroutines : pc'[x] \notin {"read", "send"}
    BY <1>3, <1>8, <1>9
  <2>3. \A c \in Clients : link[c] # None => pc'[link[c]] = pc[link[c]]
    BY <1>6, <1>9, <1>11
  <2> QED BY <1>5, <1>7, <1>11, <2>1, <2>2, <2>3 DEF Connections
<1>17. Requests'
  <2>1. \A x \in Goroutines : pc'[x] # "send" /\ disp' # x
    BY <1>3, <1>5, <1>8, <1>9, ControlAssumption
  <2>2. \A x \in Goroutines : pc'[x] \in HandlerPc => x = h
    BY <1>8, <1>9 DEF HandlerPc
  <2>3. \A c \in Clients : link[c] = disp =>
          buf[disp].from = c /\ buf[disp].kind = phase[c] /\ Awaiting(c)
    BY <1>1, <1>7 DEF Requests
  <2> QED BY <1>5, <1>10, <2>1, <2>2, <2>3 DEF Requests, Awaiting
<1>18. Answers'
  BY <1>1, <1>3, <1>8, <1>9, <1>10 DEF Answers, HandlerPc
<1> QED BY <1>12, <1>13, <1>14, <1>15, <1>16, <1>17, <1>18 DEF TcpInv

LEMMA ServerTcp ==
  ASSUME TypeInv, TcpInv, ServerNext, UNCHANGED clientVars
  PROVE TcpInv'
<1>1. disp \notin Dgram /\ \A u \in Dgram : dgrams[u] = {} /\ rpc[u] = "read"
  BY DEF TcpInv, NoDatagrams
<1>2. \A u \in Dgram : ~ DgramReader(u)
  BY <1>1 DEF DgramReader, ReadFromUDP, SetCltAddr, SendDgram
<1> QED BY <1>1, <1>2, ReaderTcp, HandlerTcp, DispatchTcp, ExitTcp
           DEF ServerNext, ParseTorn, ConcurrentMapAccess

-----------------------------------------------------------------------------
(* The steps of the clients *)

LEMMA AllTcp == TcpOnly => \A c \in Clients : Proto(c) = "tcp" /\ Proto(c)' = "tcp"
BY DEF TcpOnly, Clients, Proto

\* What a step of one client has to show: the others, and the server, are where
\* they were.
LEMMA FrameTcp ==
  ASSUME TcpOnly, TypeInv, TcpInv, NEW c \in Clients,
         UNCHANGED <<up, conn, dgrams, serverVars>>,
         \A d \in Clients : d # c =>
           /\ cpc'[d] = cpc[d] /\ phase'[d] = phase[d] /\ sock'[d] = sock[d]
           /\ link'[d] = link[d] /\ out'[d] = out[d] /\ inbox'[d] = inbox[d],
         sock'[c] \in {"none", "tcp"}, cpc'[c] # "listen"
  PROVE /\ SingleFlight' /\ NoDatagrams'
        /\ Answers => Answers'
        /\ up' => up /\ Connections /\ Requests /\ Answers
        /\ UNCHANGED <<pc, disp, buf, peer, req, via, conn>>
<1>1. UNCHANGED <<pc, disp, buf, peer, rpc, req, via, repDataObj, obj, json>>
  BY DEF serverVars, readerVars, handlerVars, shared
<1>2. SingleFlight'
  BY <1>1 DEF TcpInv, SingleFlight, Active
<1>3. NoDatagrams'
  BY <1>1, AllTcp DEF TcpInv, NoDatagrams
<1>4. Answers => Answers'
  BY <1>1 DEF Answers
<1> QED BY <1>1, <1>2, <1>3, <1>4 DEF TcpInv

\* A client that is left without a socket and was not waiting to be accepted.
LEMMA LeaveTcp ==
  ASSUME TcpOnly, TypeInv, TcpInv, NEW c \in Clients,
         UNCHANGED <<up, conn, dgrams, backlog, serverVars>>,
         \A d \in Clients : d # c =>
           /\ cpc'[d] = cpc[d] /\ phase'[d] = phase[d] /\ sock'[d] = sock[d]
           /\ link'[d] = link[d] /\ out'[d] = out[d] /\ inbox'[d] = inbox[d],
         cpc'[c] \notin {"write", "read", "listen"}, sock'[c] = "none",
         link'[c] = None, out'[c] = None, inbox'[c] = <<>>,
         up => ~InBacklog(c)
  PROVE TcpInv'
<1>1. /\ SingleFlight' /\ NoDatagrams'
      /\ Answers => Answers'
      /\ up' => up /\ Connections /\ Requests /\ Answers
      /\ UNCHANGED <<pc, disp, buf, peer, req, via, conn>>
  BY FrameTcp
<1>2. OwnReplies'
  BY DEF TcpInv, OwnReplies
<1>3. Exchange'
  BY DEF TcpInv, Exchange, Awaiting
<1>4. up' => Connections'
  <2>1. \A d \in Clients : InBacklog(d)' <=> InBacklog(d)
    BY DEF InBacklog
  <2> QED BY <1>1, <2>1 DEF Connections
<1>5. up' => Requests'
  BY <1>1, ControlAssumption DEF Requests, Answers, Awaiting
<1> QED BY <1>1, <1>2, <1>3, <1>4, <1>5 DEF TcpInv

LEMMA DialTcp ==
  ASSUME TcpOnly, TypeInv, TcpInv, NEW c \in Clients, DialTCP(c), UNCHANGED serverVars
  PROVE TcpInv'
<1>1. /\ cpc[c] = "dial"
      /\ UNCHANGED <<up, phase, mid, infos, link, out, inbox, conn, dgrams>>
  BY DEF DialTCP
<1>2. /\ cpc \in [Clients -> Running \cup {"done", "failed", "killed"}]
      /\ sock \in [Clients -> {"none", "tcp", "udp", "mc"}]
      /\ backlog \in Seq(Clients)
  BY DEF TypeInv, TypeOK, NetTypeOK, ClientTypeOK
<1>3. link[c] = None /\ out[c] = None /\ inbox[c] = <<>> /\ sock[c] = "none"
  BY <1>1 DEF TcpInv, Exchange
<1>4. CASE ~up
  <2>1. cpc' = [cpc EXCEPT ![c] = "failed"] /\ backlog' = backlog /\ sock' = sock
    BY <1>4 DEF DialTCP, Accepts, At
  <2> QED BY <1>1, <1>2, <1>3, <1>4, <2>1, LeaveTcp
<1>5. CASE up
  <2>1. /\ backlog' = Append(backlog, c)
        /\ sock' = [sock EXCEPT ![c] = "tcp"]
        /\ cpc' = [cpc EXCEPT ![c] = "write"]
    BY <1>5 DEF DialTCP, Accepts, ControlAddr, At, TcpOnly
  <2>2. /\ sock'[c] = "tcp" /\ cpc'[c] = "write"
        /\ \A d \in Clients : d # c => sock'[d] = sock[d] /\ cpc'[d] = cpc[d]
    BY <1>2, <2>1
  <2>3. /\ SingleFlight' /\ NoDatagrams'
        /\ Answers => Answers'
        /\ up' => up /\ Connections /\ Requests /\ Answers
        /\ UNCHANGED <<pc, disp, buf, peer, req, via, conn>>
    BY <1>1, <2>2, FrameTcp
  <2>4. OwnReplies'
    BY <1>1 DEF TcpInv, OwnReplies
  <2>5. Exchange'
    BY <1>1, <1>3, <2>2 DEF TcpInv, Exchange, Awaiting
  <2>6. Connections'
    <3>1. Connections
      BY <1>5 DEF TcpInv
    <3>2. /\ DOMAIN backlog' = DOMAIN backlog \cup {Len(backlog) + 1}
          /\ backlog'[Len(backlog) + 1] = c
          /\ \A i \in DOMAIN backlog : backlog'[i] = backlog[i]
      BY ONLY <1>2, <2>1
    <3>3. ~InBacklog(c)
      BY <1>1, <3>1 DEF Connections
    <3>4. \A d \in Clients : InBacklog(d)' => InBacklog(d) \/ d = c
      BY <3>2 DEF InBacklog
    <3>5. \A i, j \in DOMAIN backlog' : backlog'[i] = backlog'[j] => i = j
      BY <3>1, <3>2, <3>3 DEF Connections, InBacklog
    <3> QED BY <1>1, <1>3, <2>2, <2>3, <3>1, <3>4, <3>5 DEF Connections
  <2>7. Requests'
    BY <1>1, <1>3, <1>5, <2>2, <2>3, ControlAssumption DEF Requests, Answers, Awaiting
  <2> QED BY <1>5, <2>3, <2>4, <2>5, <2>6, <2>7 DEF TcpInv
<1> QED BY <1>4, <1>5

\* The first request of a connection finds the server's goroutine reading.
LEMMA RequestTcp ==
  ASSUME TcpOnly, TypeInv, TcpInv, NEW c \in Clients, WriteTCP(c), UNCHANGED serverVars
  PROVE TcpInv'
<1>1. /\ cpc[c] = "write"
      /\ out' = [out EXCEPT ![c] = CurrentRequest(c)]
      /\ cpc' = [cpc EXCEPT ![c] = "read"]
      /\ UNCHANGED <<up, phase, backlog, sock, link, inbox, conn, dgrams>>
  BY DEF WriteTCP, At
<1>2. /\ cpc \in [Clients -> Running \cup {"done", "failed", "killed"}]
      /\ out \in [Clients -> Request \cup {None}]
  BY DEF TypeInv, TypeOK, NetTypeOK, ClientTypeOK
<1>3. /\ cpc'[c] = "read" /\ out'[c] = CurrentRequest(c)
      /\ \A d \in Clients : d # c => out'[d] = out[d] /\ cpc'[d] = cpc[d]
  BY <1>1, <1>2
<1>4. sock[c] = "tcp" /\ inbox[c] = <<>>
  BY <1>1 DEF TcpInv, Exchange
<1>5. /\ SingleFlight' /\ NoDatagrams'
      /\ Answers => Answers'
      /\ up' => up /\ Connections /\ Requests /\ Answers
      /\ UNCHANGED <<pc, disp, buf, peer, req, via, conn>>
  BY <1>1, <1>3, <1>4, FrameTcp
<1>6. OwnReplies'
  BY <1>1 DEF TcpInv, OwnReplies
<1>7. Exchange'
  <2>1. out'[c].from = c /\ out'[c].kind = phase[c]
    BY <1>3 DEF CurrentRequest
  <2> QED BY <1>1, <1>3, <1>4, <2>1 DEF TcpInv, Exchange, Awaiting
<1>8. up' => Connections'
  <2>1. \A d \in Clients : InBacklog(d)' <=> InBacklog(d)
    BY <1>1 DEF InBacklog
  <2> QED BY <1>1, <1>3, <1>5, <2>1 DEF Connections
<1>9. ASSUME up' PROVE Requests'
  <2>1. link[c] # None => link[c] \in Goroutines /\ pc[link[c]] = "read"
    BY <1>1, <1>5, <1>9 DEF Connections, TypeInv, TypeOK, NetTypeOK
  <2>2. link[c] # None =>
          disp = None /\ \A x \in Goroutines : pc[x] \in {"idle", "read", "reread"}
    BY <2>1, Alone DEF TcpInv
  <2>3. \A x \in Goroutines : link[c] = x => pc[x] # "send" /\ disp # x
    BY <2>2, ControlAssumption
  <2>4. \A x \in Goroutines : pc[x] \in HandlerPc => link[c] # via[x]
    BY <1>5, <1>9, <2>2, ControlAssumption DEF Answers, HandlerPc
  <2> QED BY <1>1, <1>3, <1>5, <1>9, <2>3, <2>4 DEF Requests, Awaiting
<1> QED BY <1>5, <1>6, <1>7, <1>8, <1>9 DEF TcpInv

\* A client that is killed leaves what it has sent in the network.
LEMMA KillTcp ==
  ASSUME TcpOnly, TypeInv, TcpInv, NEW c \in Clients, Kill(c), UNCHANGED serverVars
  PROVE TcpInv'
<1>1. /\ cpc' = [cpc EXCEPT ![c] = "killed"]
      /\ sock' = [sock EXCEPT ![c] = "none"]
      /\ UNCHANGED <<up, phase, backlog, link, out, inbox, conn, dgrams>>
  BY DEF Kill, At
<1>2. /\ cpc \in [Clients -> Running \cup {"done", "failed", "killed"}]
      /\ sock \in [Clients -> {"none", "tcp", "udp", "mc"}]
  BY DEF TypeInv, TypeOK, NetTypeOK, ClientTypeOK
<1>3. /\ cpc'[c] = "killed" /\ sock'[c] = "none"
      /\ \A d \in Clients : d # c => sock'[d] = sock[d] /\ cpc'[d] = cpc[d]
  BY <1>1, <1>2
<1>4. /\ SingleFlight' /\ NoDatagrams'
      /\ Answers => Answers'
      /\ up' => up /\ Connections /\ Requests /\ Answers
      /\ UNCHANGED <<pc, disp, buf, peer, req, via, conn>>
  BY <1>1, <1>3, FrameTcp
<1>5. OwnReplies'
  BY <1>1 DEF TcpInv, OwnReplies
<1>6. \A d \in Clients : Awaiting(d) => Awaiting(d)'
  BY <1>1, <1>3 DEF Awaiting
<1>7. Exchange'
  BY <1>1, <1>3, <1>6 DEF TcpInv, Exchange
<1>8. up' => Connections'
  <2>1. \A d \in Clients : InBacklog(d)' <=> InBacklog(d)
    BY <1>1 DEF InBacklog
  <2> QED BY <1>1, <1>3, <1>4, <2>1 DEF Connections
<1>9. up' => Requests'
  BY <1>1, <1>4, <1>6 DEF Requests
<1> QED BY <1>4, <1>5, <1>7, <1>8, <1>9 DEF TcpInv

LEMMA ClientTcp ==
  ASSUME TcpOnly, TypeInv, TcpInv, NEW c \in Clients, ClientStep(c) \/ Kill(c),
         UNCHANGED serverVars
  PROVE TcpInv'
<1>t. /\ cpc \in [Clients -> Running \cup {"done", "failed", "killed"}]
      /\ phase \in [Clients -> Kinds]
      /\ sock \in [Clients -> {"none", "tcp", "udp", "mc"}]
      /\ link \in [Clients -> Goroutines \cup {None}]
      /\ out \in [Clients -> Request \cup {None}]
      /\ inbox \in [Clients -> Seq(Message)]
  BY DEF TypeInv, TypeOK, NetTypeOK, ClientTypeOK
<1>1. ~ DialUDP(c) /\ ~ WriteDgram(c) /\ ~ Listen(c)
  BY AllTcp DEF DialUDP, WriteDgram, Listen, TcpInv, NoDatagrams
<1>2. ~ ReadOther(c)
  <2>1. SUFFICES ASSUME inbox[c] # <<>> PROVE Head(inbox[c]).type = phase[c]
    BY DEF ReadOther
  <2>2. 1 \in DOMAIN inbox[c] /\ Head(inbox[c]) = inbox[c][1]
    BY <1>t, <2>1
  <2> QED BY <2>2 DEF TcpInv, OwnReplies
<1>3. CASE ReadReply(c)
  <2>1. /\ inbox[c] # <<>> /\ Close(c)
        /\ UNCHANGED <<up, backlog, conn, dgrams>>
    BY <1>3 DEF ReadReply
  <2>2. \E l \in {"dial", "failed", "manage", "done"} : cpc' = [cpc EXCEPT ![c] = l]
    BY <1>3 DEF ReadReply, At
  <2>3. phase' = phase \/ phase' = [phase EXCEPT ![c] = "START"]
    BY <1>3 DEF ReadReply
  <2>4. up => ~InBacklog(c)
    BY <2>1 DEF TcpInv, Connections
  <2> QED BY <1>t, <2>1, <2>2, <2>3, <2>4, LeaveTcp DEF Close
<1>4. CASE ReadError(c)
  <2>1. /\ Close(c) /\ cpc' = [cpc EXCEPT ![c] = "failed"]
        /\ UNCHANGED <<up, phase, backlog, conn, dgrams>>
        /\ ~up \/ link[c] # None
    BY <1>4 DEF ReadError, At
  <2>2. up => ~InBacklog(c)
    BY <2>1 DEF TcpInv, Connections
  <2> QED BY <1>t, <2>1, <2>2, LeaveTcp DEF Close
<1>5. CASE AskInfo(c) \/ AskStop(c)
  <2>1. /\ cpc[c] = "manage" /\ cpc' = [cpc EXCEPT ![c] = "dial"]
        /\ \E k \in Kinds : phase' = [phase EXCEPT ![c] = k]
        /\ UNCHANGED <<up, netVars>>
    BY <1>5 DEF AskInfo, AskStop, At, Kinds
  <2>2. up => ~InBacklog(c)
    BY <2>1 DEF TcpInv, Connections
  <2>3. link[c] = None /\ out[c] = None /\ inbox[c] = <<>> /\ sock[c] = "none"
    BY <2>1 DEF TcpInv, Exchange
  <2> QED BY <1>t, <2>1, <2>2, <2>3, LeaveTcp DEF netVars
<1> QED BY <1>1, <1>2, <1>3, <1>4, <1>5, DialTcp, RequestTcp, KillTcp DEF ClientStep

LEMMA TcpInit == TcpOnly /\ Init => TcpInv
<1> SUFFICES ASSUME TcpOnly, Init PROVE TcpInv
  OBVIOUS
<1> USE ControlAssumption
<1>1. PICK g \in Goroutines : pc = [h \in Goroutines |-> IF h = g THEN "accept" ELSE "idle"]
  BY DEF Init, ServerInit, AcceptorsInit
<1>2. SingleFlight
  BY <1>1 DEF Init, ServerInit, SingleFlight, Active, HandlerPc
<1>3. OwnReplies
  BY DEF Init, NetInit, OwnReplies
<1>4. NoDatagrams
  BY AllTcp DEF Init, NetInit, ServerInit, ClientInit, NoDatagrams, Dgram
<1>5. Exchange
  BY DEF Init, NetInit, ClientInit, Exchange
<1>6. Connections
  BY <1>1 DEF Init, NetInit, Connections, InBacklog
<1>7. Requests
  BY <1>1 DEF Init, NetInit, ServerInit, Requests, HandlerPc
<1>8. Answers
  BY <1>1 DEF Answers, HandlerPc
<1> QED BY <1>2, <1>3, <1>4, <1>5, <1>6, <1>7, <1>8 DEF TcpInv

LEMMA TcpStep == TcpOnly /\ TypeInv /\ TcpInv /\ [Next]_vars => TcpInv'
<1> SUFFICES ASSUME TcpOnly, TypeInv, TcpInv, [Next]_vars PROVE TcpInv'
  OBVIOUS
<1>1. CASE ServerNext /\ UNCHANGED clientVars
  BY <1>1, ServerTcp
<1>2. CASE ClientNext /\ UNCHANGED serverVars
  BY <1>2, ClientTcp DEF ClientNext
<1>3. CASE UNCHANGED vars
  BY <1>3 DEF vars, netVars, serverVars, clientVars, readerVars, handlerVars, shared,
     msmt, TcpInv, SingleFlight, Active, OwnReplies, NoDatagrams, Proto, Exchange,
     Connections, InBacklog, Requests, Answers, Awaiting
<1> QED BY <1>1, <1>2, <1>3 DEF Next

LEMMA TcpInvariant == TcpOnly /\ Spec => [](TypeInv /\ TcpInv)
<1>1. TcpOnly /\ Init => TypeInv /\ TcpInv
  BY TypeInit, TcpInit
<1>2. TcpOnly /\ TypeInv /\ TcpInv /\ [Next]_vars => (TypeInv /\ TcpInv)'
  BY TypeStep, TcpStep
<1>3. CASE TcpOnly
  <2>1. TypeInv /\ TcpInv /\ [Next]_vars => (TypeInv /\ TcpInv)'
    BY <1>2, <1>3
  <2>2. Init => TypeInv /\ TcpInv
    BY <1>1, <1>3
  <2> QED BY <2>1, <2>2, PTL DEF Spec
<1>4. CASE ~TcpOnly
  BY <1>4
<1> QED BY <1>3, <1>4

\* When every client uses TCP, one goroutine at a time accepts, reads a first
\* request, or handles one: the variable and the maps the handlers share
\* without a lock are never used by two at once.
THEOREM OneAtATime == TcpOnly /\ Spec => []SingleFlight
<1>1. TypeInv /\ TcpInv => SingleFlight
  BY DEF TcpInv
<1> QED BY <1>1, TcpInvariant, PTL

\* When every client uses TCP, what arrives at a client is the answer to the
\* request it is waiting on, whoever else is served and whoever is killed.
THEOREM OwnAnswers == TcpOnly /\ Spec => []OwnReplies
<1>1. TypeInv /\ TcpInv => OwnReplies
  BY DEF TcpInv
<1> QED BY <1>1, TcpInvariant, PTL

-----------------------------------------------------------------------------
(* The right to accept is kept *)

\* Whoever has the right to accept keeps it or hands it on: at the end of a
\* step that leaves it active, or a request with the dispatch loop, nothing is
\* lost.
LEMMA Kept ==
  ASSUME NEW g \in Goroutines, pc'[g] \in {"accept", "read", "send"} \cup HandlerPc
  PROVE  AcceptorKept'
<1>1. g \in Active'
  BY DEF Active
<1> QED BY <1>1 DEF AcceptorKept

LEMMA HandlerKept ==
  ASSUME TypeInv, TcpInv, KeptInv, NEW h \in Goroutines, Handler(h), up'
  PROVE  KeptInv'
<1>1. pc \in [Goroutines -> {"idle"} \cup ReaderPc \cup HandlerPc]
  BY DEF TypeInv, TypeOK, ServerTypeOK
<1>2. up /\ pc[h] \in HandlerPc
  BY DEF Handler, ConstructInfoReply, CheckInited, MakeStorage, StartModule, InsertEntry,
         LookupChannel, HandleMsmtStopReq, HandleMsmtInfoReq, ReceiveReply, StoreChannel,
         EncodeType, ClearType, WriteAnswerTCP, WriteAnswerUDP, WriteAnswerMc,
         CloseConnTCP, CloseConnUDP, CloseConnMc, HandlerPc
<1>3. \E l \in {"accept"} \cup HandlerPc : pc' = [pc EXCEPT ![h] = l]
  BY DEF Handler, ConstructInfoReply, CheckInited, MakeStorage, StartModule, InsertEntry,
         LookupChannel, HandleMsmtStopReq, HandleMsmtInfoReq, ReceiveReply, StoreChannel,
         EncodeType, ClearType, WriteAnswerTCP, WriteAnswerUDP, WriteAnswerMc,
         CloseConnTCP, CloseConnUDP, CloseConnMc, HandlerPc, Goto, Exit, ModuleReplies,
         Deliver, BecomeAcceptor
<1>4. AcceptorKept'
  BY <1>1, <1>3, Kept
<1>5. \A x \in Goroutines : x # h => pc[x] # "read"
  BY <1>2, Alone DEF TcpInv
<1>6. FirstReads'
  BY <1>1, <1>3, <1>5 DEF FirstReads, HandlerPc
<1> QED BY <1>4, <1>6 DEF KeptInv

\* A reader gives the right up only when its client is gone.
LEMMA EofKept ==
  ASSUME TypeInv, TcpInv, KeptInv, NEW g \in Goroutines, ReadEOF(g), UNCHANGED clientVars
  PROVE  KeptInv'
<1> DEFINE c == peer[g]
<1>1. /\ up /\ pc[g] \in {"read", "reread"}
      /\ pc' = [pc EXCEPT ![g] = "idle"]
      /\ peer' = [peer EXCEPT ![g] = None]
      /\ link' = [d \in Clients |->
                    IF link[d] = g /\ sock[d] # "tcp" THEN None ELSE link[d]]
      /\ UNCHANGED <<up, disp, inbox, cpc>>
  BY DEF ReadEOF, Goto, Unlink, clientVars
<1>2. /\ pc \in [Goroutines -> {"idle"} \cup ReaderPc \cup HandlerPc]
      /\ peer \in [Goroutines -> Clients \cup {None}]
      /\ c \in Clients
  BY <1>1 DEF TypeInv, TypeOK, ServerTypeOK, Initialised
<1>3. AcceptorKept'
  <2>1. CASE pc[g] = "reread"
    <3>1. Active' = Active
      BY <1>1, <1>2, <2>1 DEF Active, HandlerPc
    <3> QED BY <1>1, <3>1 DEF KeptInv, AcceptorKept
  <2>2. CASE pc[g] = "read"
    <3>1. link[c] = g /\ conn[g] = "open"
      BY <1>1, <2>2 DEF KeptInv, FirstReads, TcpInv, Connections
    <3>2. sock[c] # "tcp"
      BY <3>1 DEF ReadEOF
    <3>3. cpc[c] = "killed"
      BY <1>2, <3>1, <3>2, ControlAssumption DEF TcpInv, Exchange
    <3> QED BY <1>1, <1>2, <3>3 DEF AcceptorKept
  <2> QED BY <1>1, <2>1, <2>2
<1>4. FirstReads'
  <2> SUFFICES ASSUME NEW x \in Goroutines, pc'[x] = "read"
               PROVE  link'[peer'[x]] = x /\ inbox'[peer'[x]] = <<>>
    BY DEF FirstReads
  <2>1. x # g /\ pc[x] = "read" /\ peer'[x] = peer[x]
    BY <1>1, <1>2
  <2>2. link[peer[x]] = x /\ inbox[peer[x]] = <<>> /\ peer[x] \in Clients
    BY <1>1, <2>1 DEF KeptInv, FirstReads, TypeInv, Initialised
  <2> QED BY <1>1, <2>1, <2>2
<1> QED BY <1>3, <1>4 DEF KeptInv

LEMMA ReaderKept ==
  ASSUME TypeInv, TcpInv, KeptInv, NEW g \in Goroutines, Reader(g), UNCHANGED clientVars
  PROVE  KeptInv'
<1>1. /\ pc \in [Goroutines -> {"idle"} \cup ReaderPc \cup HandlerPc]
      /\ peer \in [Goroutines -> Clients \cup {None}]
      /\ link \in [Clients -> Goroutines \cup {None}]
      /\ backlog \in Seq(Clients)
  BY DEF TypeInv, TypeOK, ServerTypeOK, NetTypeOK
<1>2. CASE AcceptTCP(g)
  <2> DEFINE a == Head(backlog)
  <2>1. /\ up /\ pc[g] = "accept" /\ backlog # <<>> /\ a \in Clients
        /\ peer' = [peer EXCEPT ![g] = a]
        /\ link' = [link EXCEPT ![a] = g]
        /\ pc' = [pc EXCEPT ![g] = "read"]
        /\ inbox' = inbox
    BY <1>1, <1>2 DEF AcceptTCP, Goto
  <2>2. AcceptorKept'
    BY <1>1, <2>1, Kept
  <2>3. inbox[a] = <<>>
    <3>1. InBacklog(a)
      <4>1. 1 \in DOMAIN backlog /\ backlog[1] = a
        BY <1>1, <2>1
      <4> QED BY <4>1 DEF InBacklog
    <3> QED BY <2>1, <3>1 DEF TcpInv, Connections
  <2>4. \A x \in Goroutines : x # g => pc[x] # "read"
    BY <2>1, Alone DEF TcpInv
  <2>5. FirstReads'
    BY <1>1, <2>1, <2>3, <2>4 DEF FirstReads
  <2> QED BY <2>2, <2>5 DEF KeptInv
<1>3. CASE ReadTCP(g)
  <2>1. up /\ pc[g] = "read" /\ pc' = [pc EXCEPT ![g] = "send"]
    <3>1. /\ up /\ pc[g] \in {"read", "reread"} /\ pc' = [pc EXCEPT ![g] = "send"]
          /\ link[peer[g]] = g /\ out[peer[g]] # None
      BY <1>3 DEF ReadTCP, Goto
    <3>2. peer[g] \in Clients
      BY <3>1 DEF TypeInv, Initialised
    <3> QED BY <3>1, <3>2, ControlAssumption DEF TcpInv, Connections
  <2>2. AcceptorKept'
    BY <1>1, <2>1, Kept
  <2>3. \A x \in Goroutines : x # g => pc[x] # "read"
    BY <2>1, Alone DEF TcpInv
  <2>4. FirstReads'
    BY <1>1, <2>1, <2>3 DEF FirstReads
  <2> QED BY <2>2, <2>4 DEF KeptInv
<1>4. CASE ReadEOF(g)
  BY <1>4, EofKept
<1>5. CASE ReadReset(g)
  BY <1>5 DEF ReadReset, Exit, KeptInv, AcceptorKept
<1>6. CASE SendTCP(g)
  <2>1. up /\ pc[g] = "send" /\ pc' = [pc EXCEPT ![g] = "reread"] /\ disp' = g
    BY <1>6 DEF SendTCP, Goto
  <2>2. AcceptorKept'
    BY <2>1, ControlAssumption DEF AcceptorKept
  <2>3. \A x \in Goroutines : x # g => pc[x] # "read"
    BY <2>1, Alone DEF TcpInv
  <2>4. FirstReads'
    BY <1>1, <2>1, <2>3 DEF FirstReads
  <2> QED BY <2>2, <2>4 DEF KeptInv
<1> QED BY <1>2, <1>3, <1>4, <1>5, <1>6 DEF Reader

LEMMA ServerKept ==
  ASSUME TypeInv, TcpInv, KeptInv, ServerNext, UNCHANGED clientVars
  PROVE  KeptInv'
<1>1. CASE ~up'
  BY <1>1 DEF KeptInv, AcceptorKept
<1>2. ASSUME NEW g \in Goroutines, Reader(g) \/ Handler(g), up' PROVE KeptInv'
  BY <1>2, ReaderKept, HandlerKept
<1>3. CASE \E u \in Dgram : DgramReader(u)
  BY <1>3 DEF TcpInv, NoDatagrams, DgramReader, ReadFromUDP, SetCltAddr, SendDgram
<1>4. CASE Dispatch
  <2>1. PICK h \in Goroutines :
          disp # None /\ up /\ pc' = [pc EXCEPT ![h] = FirstStep(Parsed.kind)]
    BY <1>4 DEF Dispatch, Goto
  <2>2. /\ pc \in [Goroutines -> {"idle"} \cup ReaderPc \cup HandlerPc]
        /\ FirstStep(Parsed.kind) \in HandlerPc
    BY DEF TypeInv, TypeOK, ServerTypeOK, FirstStep, HandlerPc
  <2>3. AcceptorKept'
    BY <2>1, <2>2, Kept
  <2>4. \A x \in Goroutines : pc[x] # "read"
    BY <2>1, Calm DEF TcpInv
  <2>5. FirstReads'
    BY <2>1, <2>2, <2>4 DEF FirstReads, HandlerPc
  <2> QED BY <2>3, <2>5 DEF KeptInv
<1>5. CASE ParseTorn \/ ConcurrentMapAccess
  BY <1>1, <1>5 DEF ParseTorn, ConcurrentMapAccess, Exit
<1> QED BY <1>1, <1>2, <1>3, <1>4, <1>5 DEF ServerNext

\* No client ends an exchange before its request has been read.
LEMMA ClientKept ==
  ASSUME TypeInv, TcpInv, KeptInv, NEW c \in Clients, ClientStep(c) \/ Kill(c),
         UNCHANGED serverVars
  PROVE  KeptInv'
<1>1. UNCHANGED <<up, pc, peer, disp>>
  BY DEF ClientStep, DialTCP, DialUDP, WriteTCP, WriteDgram, Listen, ReadOther, ReadReply,
         ReadError, AskInfo, AskStop, Kill, serverVars, readerVars
<1>2. cpc \in [Clients -> Running \cup {"done", "failed", "killed"}]
  BY DEF TypeInv, TypeOK, ClientTypeOK
<1>3. \A d \in Clients : cpc[d] = "killed" => cpc'[d] = "killed"
  <2>1. CASE Kill(c)
    BY <1>2, <2>1 DEF Kill, At
  <2>2. CASE ClientStep(c)
    <3>1. cpc[c] # "killed"
      BY <2>2 DEF ClientStep, DialTCP, DialUDP, WriteTCP, WriteDgram, Listen, ReadOther,
                  ReadReply, ReadError, AskInfo, AskStop
    <3>2. \E l : cpc' = [cpc EXCEPT ![c] = l]
      BY <2>2 DEF ClientStep, DialTCP, DialUDP, WriteTCP, WriteDgram, Listen, ReadOther,
                  ReadReply, ReadError, AskInfo, AskStop, At
    <3> QED BY <1>2, <3>1, <3>2
  <2> QED BY <2>1, <2>2
<1>4. AcceptorKept'
  BY <1>1, <1>3 DEF KeptInv, AcceptorKept, Active
<1>5. ASSUME up, NEW g \in Goroutines, pc[g] = "read"
      PROVE  link'[peer[g]] = g /\ inbox'[peer[g]] = <<>>
  <2>1. /\ link[peer[g]] = g /\ inbox[peer[g]] = <<>> /\ conn[g] = "open"
        /\ peer[g] \in Clients
    BY <1>5 DEF KeptInv, FirstReads, TcpInv, Connections, TypeInv, Initialised
  <2>2. CASE ReadReply(c) \/ ReadError(c) \/ ReadOther(c)
    <3>1. peer[g] # c
      BY <1>5, <2>1, <2>2 DEF ReadReply, ReadError, ReadOther
    <3>2. /\ link \in [Clients -> Goroutines \cup {None}]
          /\ inbox \in [Clients -> Seq(Message)]
      BY DEF TypeInv, TypeOK, NetTypeOK
    <3>3. link' = [link EXCEPT ![c] = None] \/ link' = link
      BY <2>2 DEF ReadReply, ReadError, ReadOther, Close
    <3>4. \E q : inbox' = [inbox EXCEPT ![c] = q]
      BY <2>2 DEF ReadReply, ReadError, ReadOther, Close
    <3> QED BY <2>1, <3>1, <3>2, <3>3, <3>4
  <2>3. CASE ~ (ReadReply(c) \/ ReadError(c) \/ ReadOther(c))
    <3>1. UNCHANGED <<link, inbox>>
      BY <2>3 DEF ClientStep, DialTCP, DialUDP, WriteTCP, WriteDgram, Listen, AskInfo,
                  AskStop, Kill, netVars
    <3> QED BY <2>1, <3>1
  <2> QED BY <2>2, <2>3
<1>6. up' => FirstReads'
  BY <1>1, <1>5 DEF FirstReads
<1> QED BY <1>4, <1>6 DEF KeptInv

LEMMA KeptStep ==
  ASSUME TypeInv, TcpInv, KeptInv, [Next]_vars
  PROVE  KeptInv'
<1>1. CASE ServerNext /\ UNCHANGED clientVars
  BY <1>1, ServerKept
<1>2. CASE ClientNext /\ UNCHANGED serverVars
  BY <1>2, ClientKept DEF ClientNext
<1>3. CASE UNCHANGED vars
  BY <1>3 DEF vars, netVars, serverVars, clientVars, readerVars, KeptInv, AcceptorKept,
              Active, FirstReads
<1> QED BY <1>1, <1>2, <1>3 DEF Next

\* When every client uses TCP, the right to accept gets lost with a client that
\* dies and in no other way: every handler, whatever it answers, hands it on.
THEOREM AcceptorStays == TcpOnly /\ Spec => []AcceptorKept
<1>1. Init => KeptInv
  <2> SUFFICES ASSUME Init PROVE KeptInv
    OBVIOUS
  <2>1. PICK g \in Goroutines :
          pc = [h \in Goroutines |-> IF h = g THEN "accept" ELSE "idle"]
    BY DEF Init, ServerInit, AcceptorsInit
  <2>2. g \in Active
    BY <2>1 DEF Active
  <2> QED BY <2>1, <2>2 DEF KeptInv, AcceptorKept, FirstReads
<1>2. TypeInv /\ TcpInv /\ KeptInv /\ [Next]_vars => KeptInv'
  BY KeptStep
<1>3. KeptInv => AcceptorKept
  BY DEF KeptInv
<1> QED BY <1>1, <1>2, <1>3, TcpInvariant, PTL DEF Spec
=============================================================================
