---------------------------- MODULE ControlServer ----------------------------
(***************************************************************************)
(* The control plane of the server (control-plane/control-plane.go, the    *)
(* readers of control-plane/ctrl/server-protocols and the handlers of      *)
(* management-plane/management-plane.go).                                   *)
(*                                                                         *)
(* The program is a set of goroutines: the TCP acceptor/reader, one reader *)
(* per datagram socket, the dispatch loop of RunServer, and one handler    *)
(* per request.  A handler ends by calling HandleTcpConn itself, so it     *)
(* becomes the next acceptor.  The handlers share, with no lock, the       *)
(* variable repDataObj, the map recvChStorage, the map msmtStorage and the *)
(* flag mapInited; every access to one of them is a step of its own.       *)
(***************************************************************************)
EXTENDS ControlNet

VARIABLES
  pc,            \* where each goroutine is
  peer,          \* the client at the other end of an accepted connection
  buf,           \* the request in the buffer of a TCP reader
  disp,          \* the connection whose request the dispatch loop holds
  req,           \* the request a handler works on
  via,           \* request.ConnObj of a handler
  ch,            \* recvCh of a handler, named by the measurement it serves
  obj,           \* the last DataObj a handler has constructed
  ptr,           \* the DataObj a handler is encoding, named by its maker
  json,          \* the encoded answer of a handler
  rpc,           \* where the reader of each datagram socket is
  rbuf,          \* the request in the buffer of a datagram reader
  cltAddr,       \* connCltAddr of the one UdpConnObj
  mcOpen,        \* the multicast receive socket is open
  repDataObj,    \* the shared variable of RunServer, a pointer
  recvChStorage, \* measurement id -> channel
  mapInited,
  msmtStorage,   \* the measurement ids the management plane knows
  owner,         \* the client whose start request made a measurement
  closed,        \* the measurements whose CloseConn has run
  recvCh         \* the replies whose sender is blocked on a channel

shared == <<repDataObj, recvChStorage, mapInited, msmtStorage>>
msmt == <<owner, closed, recvCh>>
readerVars == <<peer, buf, disp, rpc, rbuf, cltAddr, mcOpen>>
handlerVars == <<req, via, ch, obj, ptr, json>>
serverVars == <<pc, readerVars, handlerVars, shared, msmt>>

ReaderPc == {"accept", "read", "send", "reread"}
HandlerPc == {"info", "check", "make", "run", "insert", "lookup", "mgmt",
              "recv", "store", "conv", "marshal", "write", "close"}

ServerTypeOK ==
  /\ pc \in [Goroutines -> {"idle"} \cup ReaderPc \cup HandlerPc]
  /\ peer \in [Goroutines -> Clients \cup {None}]
  /\ buf \in [Goroutines -> Request \cup {None}]
  /\ disp \in Goroutines \cup Dgram \cup {None}
  /\ req \in [Goroutines -> Request \cup {None}]
  /\ via \in [Goroutines -> Goroutines \cup Dgram \cup {None}]
  /\ ch \in [Goroutines -> MsmtIds \cup {None}]
  /\ obj \in [Goroutines -> Message \cup {None}]
  /\ ptr \in [Goroutines -> Goroutines \cup {None}]
  /\ json \in [Goroutines -> Message \cup {None}]
  /\ rpc \in [Dgram -> {"read", "addr", "send"}]
  /\ rbuf \in [Dgram -> Clients \cup {None}]
  /\ cltAddr \in Clients \cup {None}
  /\ mcOpen \in BOOLEAN
  /\ repDataObj \in Goroutines \cup {None}
  /\ recvChStorage \in [MsmtIds \cup {None} -> MsmtIds \cup {None}]
  /\ mapInited \in BOOLEAN
  /\ msmtStorage \in SUBSET MsmtIds
  /\ owner \in [MsmtIds -> Clients \cup {None}]
  /\ closed \in SUBSET MsmtIds
  /\ recvCh \in [MsmtIds -> Seq(Kinds)]

\* Mutant: two goroutines accept.
AcceptorsInit_Two ==
  \E g, i \in Goroutines :
    g # i /\ pc = [h \in Goroutines |-> IF h \in {g, i} THEN "accept" ELSE "idle"]

\* TcpObj.Start starts one acceptor.
AcceptorsInit ==
  \E g \in Goroutines : pc = [h \in Goroutines |-> IF h = g THEN "accept" ELSE "idle"]

\* RunServer up to its loop: the three listeners are started.
ServerInit ==
  /\ AcceptorsInit
  /\ peer = [g \in Goroutines |-> None]
  /\ buf = [g \in Goroutines |-> None]
  /\ disp = None
  /\ req = [g \in Goroutines |-> None]
  /\ via = [g \in Goroutines |-> None]
  /\ ch = [g \in Goroutines |-> None]
  /\ obj = [g \in Goroutines |-> None]
  /\ ptr = [g \in Goroutines |-> None]
  /\ json = [g \in Goroutines |-> None]
  /\ rpc = [u \in Dgram |-> "read"]
  /\ rbuf = [u \in Dgram |-> None]
  /\ cltAddr = None
  /\ mcOpen = TRUE
  /\ repDataObj = None
  /\ recvChStorage = [m \in MsmtIds \cup {None} |-> None]
  /\ mapInited = FALSE
  /\ msmtStorage = {}
  /\ owner = [m \in MsmtIds |-> None]
  /\ closed = {}
  /\ recvCh = [m \in MsmtIds |-> <<>>]

Goto(g, label) == pc' = [pc EXCEPT ![g] = label]

\* os.Exit(1), a failed type assertion or a runtime fault: the process ends.
Exit ==
  /\ up' = FALSE
  /\ UNCHANGED <<pc, readerVars, handlerVars, shared, msmt, netVars>>

-----------------------------------------------------------------------------
(* HandleTcpConn *)

AcceptTCP(g) ==
  /\ up /\ pc[g] = "accept" /\ backlog # <<>>
  /\ peer' = [peer EXCEPT ![g] = Head(backlog)]
  /\ link' = [link EXCEPT ![Head(backlog)] = g]
  /\ conn' = [conn EXCEPT ![g] = "open"]
  /\ backlog' = Tail(backlog)
  /\ Goto(g, "read")
  /\ UNCHANGED <<up, buf, disp, rpc, rbuf, cltAddr, mcOpen, handlerVars,
                 shared, msmt, sock, out, inbox, dgrams>>

\* The first read of a connection ("read") and a later one ("reread").
ReadTCP(g) ==
  LET c == peer[g] IN
  /\ up /\ pc[g] \in {"read", "reread"} /\ conn[g] = "open"
  /\ link[c] = g /\ out[c] # None
  /\ buf' = [buf EXCEPT ![g] = out[c]]
  /\ out' = [out EXCEPT ![c] = None]
  /\ Goto(g, "send")
  /\ UNCHANGED <<up, peer, disp, rpc, rbuf, cltAddr, mcOpen, handlerVars,
                 shared, msmt, backlog, sock, link, inbox, conn, dgrams>>

\* A client that is gone lets go of its connection.
Unlink(g) ==
  link' = [c \in Clients |->
             IF link[c] = g /\ sock[c] # "tcp" THEN None ELSE link[c]]

\* Mutant: the reader accepts again instead of returning.
ReadEOF_Accepts(g) ==
  LET c == peer[g] IN
  /\ up /\ pc[g] \in {"read", "reread"}
  /\ conn[g] = "closed" \/ link[c] # g \/ (sock[c] # "tcp" /\ out[c] = None)
  /\ Goto(g, "accept")
  /\ Unlink(g)
  /\ UNCHANGED <<up, readerVars, handlerVars, shared, msmt, backlog, sock, out,
                 inbox, conn, dgrams>>

\* EOF, or the handler has closed the connection: the goroutine returns.  It
\* leaves a connection open that a handler has not closed.
ReadEOF(g) ==
  LET c == peer[g] IN
  /\ up /\ pc[g] \in {"read", "reread"}
  /\ \/ conn[g] = "closed"
     \/ link[c] # g
     \/ sock[c] # "tcp" /\ out[c] = None /\ inbox[c] = <<>>
  /\ Goto(g, "idle")
  /\ Unlink(g)
  /\ peer' = [peer EXCEPT ![g] = None]
  /\ UNCHANGED <<up, buf, disp, rpc, rbuf, cltAddr, mcOpen, handlerVars, shared,
                 msmt, backlog, sock, out, inbox, conn, dgrams>>

\* The client's process has ended with an answer unread, so its kernel resets
\* the connection.
Reset(g) == \E c \in Clients : link[c] = g /\ sock[c] # "tcp" /\ inbox[c] # <<>>

\* "connection reset by peer" is neither EOF nor a closed connection.
ReadReset(g) ==
  /\ up /\ pc[g] \in {"read", "reread"} /\ conn[g] = "open"
  /\ Reset(g)
  /\ Exit

\* ch <- *chRequest, which meets request := <-ch of the dispatch loop.
SendTCP(g) ==
  /\ up /\ pc[g] = "send" /\ disp = None
  /\ disp' = g
  /\ Goto(g, "reread")
  /\ UNCHANGED <<up, peer, buf, rpc, rbuf, cltAddr, mcOpen, handlerVars,
                 shared, msmt, netVars>>

-----------------------------------------------------------------------------
(* handleUdpConn, unicast and multicast *)

ReadFromUDP(u) ==
  /\ up /\ rpc[u] = "read" /\ (u = "mc" => mcOpen)
  /\ \E c \in dgrams[u] :
       /\ rbuf' = [rbuf EXCEPT ![u] = c]
       /\ dgrams' = [dgrams EXCEPT ![u] = @ \ {c}]
  /\ rpc' = [rpc EXCEPT ![u] = "addr"]
  /\ UNCHANGED <<up, pc, peer, buf, disp, cltAddr, mcOpen, handlerVars, shared,
                 msmt, backlog, sock, link, out, inbox, conn>>

\* udpConn.connCltAddr = cltAddr.  The address a multicast came from is not
\* used any more.
SetCltAddr(u) ==
  /\ up /\ rpc[u] = "addr"
  /\ cltAddr' = IF u = "udp" THEN rbuf[u] ELSE cltAddr
  /\ rpc' = [rpc EXCEPT ![u] = "send"]
  /\ UNCHANGED <<up, pc, peer, buf, disp, rbuf, mcOpen, handlerVars, shared,
                 msmt, netVars>>

SendDgram(u) ==
  /\ up /\ rpc[u] = "send" /\ disp = None
  /\ disp' = u
  /\ rpc' = [rpc EXCEPT ![u] = "read"]
  /\ UNCHANGED <<up, pc, peer, buf, rbuf, cltAddr, mcOpen, handlerVars,
                 shared, msmt, netVars>>

-----------------------------------------------------------------------------
(* The dispatch loop of RunServer *)

\* A goroutine nobody refers to any more: its name can be used again.
Unreferenced(g) ==
  /\ pc[g] = "idle" /\ disp # g /\ repDataObj # g
  /\ \A h \in Goroutines : ptr[h] # g /\ via[h] # g
  /\ \A c \in Clients : link[c] # g

FirstStep(kind) ==
  CASE kind = "INFO" -> "info"
    [] kind = "START" -> "check"
    [] OTHER -> "lookup"

\* request.Json is a slice of the reader's buffer, so what is parsed is what
\* the buffer holds now, not what it held when the request was sent.
Parsed == IF disp \in Dgram THEN InfoRequest(rbuf[disp]) ELSE buf[disp]

Dispatch ==
  /\ up /\ disp # None
  /\ \E h \in Goroutines :
       /\ Unreferenced(h)
       /\ req' = [req EXCEPT ![h] = Parsed]
       /\ via' = [via EXCEPT ![h] = disp]
       /\ conn' = [g \in Goroutines |-> IF Unreferenced(g) THEN "none" ELSE conn[g]]
       /\ Goto(h, FirstStep(Parsed.kind))
  /\ buf' = [g \in Goroutines |-> IF g = disp /\ pc[g] # "send" THEN None ELSE buf[g]]
  /\ disp' = None
  /\ UNCHANGED <<up, peer, rpc, rbuf, cltAddr, mcOpen, ch, obj, ptr, json, shared,
                 msmt, backlog, sock, link, out, inbox, dgrams>>

\* The next datagram arrives in the buffer while it is being parsed.
ParseTorn ==
  /\ up /\ disp \in Dgram
  /\ rpc[disp] = "read" /\ dgrams[disp] # {} /\ (disp = "mc" => mcOpen)
  /\ Exit

-----------------------------------------------------------------------------
(* The handlers *)

\* Mutant: Seq_rp is forgotten.
Reply_NoSeq(h, mid) == [type |-> req[h].kind, seq |-> None, mid |-> mid]

\* Mutant: a start reply is given the type of a stop reply.
Reply_WrongType(h, mid) ==
  [type |-> IF req[h].kind = "START" THEN "STOP" ELSE req[h].kind,
   seq |-> req[h].from, mid |-> mid]

Reply(h, mid) == [type |-> req[h].kind, seq |-> req[h].from, mid |-> mid]

\* repDataObj = construct...(...).  An object nothing points to is garbage.
Assign(h, mid) ==
  /\ obj' = [g \in Goroutines |->
               IF g = h THEN Reply(h, mid)
               ELSE IF \E i \in Goroutines : ptr[i] = g THEN obj[g] ELSE None]
  /\ repDataObj' = h

ConstructInfoReply(h) ==
  /\ up /\ pc[h] = "info"
  /\ Assign(h, None)
  /\ Goto(h, "conv")
  /\ UNCHANGED <<up, readerVars, req, via, ch, ptr, json, recvChStorage,
                 mapInited, msmtStorage, msmt, netVars>>

\* Mutant: the storage is made for every start request.
CheckInited_Always(h) ==
  /\ up /\ pc[h] = "check"
  /\ Goto(h, "make")
  /\ UNCHANGED <<up, readerVars, handlerVars, shared, msmt, netVars>>

CheckInited(h) ==
  /\ up /\ pc[h] = "check"
  /\ Goto(h, IF mapInited THEN "run" ELSE "make")
  /\ UNCHANGED <<up, readerVars, handlerVars, shared, msmt, netVars>>

MakeStorage(h) ==
  /\ up /\ pc[h] = "make"
  /\ msmtStorage' = {}
  /\ mapInited' = TRUE
  /\ Goto(h, "run")
  /\ UNCHANGED <<up, readerVars, handlerVars, repDataObj, recvChStorage, msmt,
                 netVars>>

\* Mutant: constructMsmtId draws an id that is in use.
StartModule_Collides(h) ==
  /\ up /\ pc[h] = "run"
  /\ \E m \in MsmtIds :
       /\ owner' = [owner EXCEPT ![m] = req[h].from]
       /\ recvCh' = [recvCh EXCEPT ![m] = Append(@, "START")]
       /\ ch' = [ch EXCEPT ![h] = m]
  /\ Goto(h, "insert")
  /\ UNCHANGED <<up, readerVars, req, via, obj, ptr, json, shared, closed, netVars>>

\* New...Msmt returns once all its workers listen; its reply is sent by a
\* goroutine of its own.  The random ids are taken to be distinct.
StartModule(h) ==
  /\ up /\ pc[h] = "run"
  /\ \E m \in MsmtIds :
       /\ owner[m] = None
       /\ owner' = [owner EXCEPT ![m] = req[h].from]
       /\ recvCh' = [recvCh EXCEPT ![m] = Append(@, "START")]
       /\ ch' = [ch EXCEPT ![h] = m]
  /\ Goto(h, "insert")
  /\ UNCHANGED <<up, readerVars, req, via, obj, ptr, json, shared, closed, netVars>>

InsertEntry(h) ==
  /\ up /\ pc[h] = "insert"
  /\ msmtStorage' = msmtStorage \cup {ch[h]}
  /\ Goto(h, "recv")
  /\ UNCHANGED <<up, readerVars, handlerVars, repDataObj, recvChStorage,
                 mapInited, msmt, netVars>>

\* Mutant: the entry is removed whatever the request is.
LookupChannel_Removes(h) ==
  LET m == recvChStorage[req[h].mid] IN
  /\ up /\ pc[h] = "lookup"
  /\ \/ m = None /\ Exit
     \/ /\ m # None
        /\ ch' = [ch EXCEPT ![h] = m]
        /\ recvChStorage' = [recvChStorage EXCEPT ![req[h].mid] = None]
        /\ Goto(h, "mgmt")
        /\ UNCHANGED <<up, readerVars, req, via, obj, ptr, json, repDataObj,
                       mapInited, msmtStorage, msmt, netVars>>

\* recvCh, exists := recvChStorage[reqDataObj.Measurement_id]
LookupChannel(h) ==
  LET m == recvChStorage[req[h].mid] IN
  /\ up /\ pc[h] = "lookup"
  /\ \/ m = None /\ Exit
     \/ /\ m # None
        /\ ch' = [ch EXCEPT ![h] = m]
        /\ Goto(h, "mgmt")
        /\ UNCHANGED <<up, readerVars, req, via, obj, ptr, json, shared, msmt,
                       netVars>>

\* The module's reply: go func() { msmt2CtrlCh <- *msmtReply }()
ModuleReplies(h) ==
  /\ recvCh' = [recvCh EXCEPT ![req[h].mid] = Append(@, req[h].kind)]
  /\ Goto(h, "recv")
  /\ UNCHANGED <<up, readerVars, handlerVars, shared, owner, netVars>>

\* Mutant: every measurement in the storage is closed.
HandleMsmtStopReq_All(h) ==
  /\ up /\ pc[h] = "mgmt" /\ req[h].kind = "STOP"
  /\ req[h].mid \in msmtStorage
  /\ closed' = closed \cup msmtStorage
  /\ ModuleReplies(h)

\* CloseConn closes the accepted sockets, which fails the second time if
\* there was one.
HandleMsmtStopReq(h) ==
  /\ up /\ pc[h] = "mgmt" /\ req[h].kind = "STOP"
  /\ \/ req[h].mid \notin msmtStorage \ closed /\ Exit
     \/ /\ req[h].mid \in msmtStorage
        /\ closed' = closed \cup {req[h].mid}
        /\ ModuleReplies(h)

HandleMsmtInfoReq(h) ==
  /\ up /\ pc[h] = "mgmt" /\ req[h].kind = "MSMT_INFO"
  /\ \/ req[h].mid \notin msmtStorage /\ Exit
     \/ /\ req[h].mid \in msmtStorage
        /\ ModuleReplies(h)
        /\ UNCHANGED closed

\* msmtReply := <-recvCh, then construct...Reply, whose type assertion fails
\* on a reply of another kind.
ReceiveReply(h) ==
  /\ up /\ pc[h] = "recv" /\ recvCh[ch[h]] # <<>>
  /\ \/ Head(recvCh[ch[h]]) # req[h].kind /\ Exit
     \/ /\ Head(recvCh[ch[h]]) = req[h].kind
        /\ recvCh' = [recvCh EXCEPT ![ch[h]] = Tail(@)]
        /\ Assign(h, IF req[h].kind = "MSMT_INFO" THEN req[h].mid ELSE ch[h])
        /\ Goto(h, IF req[h].kind = "START" THEN "store" ELSE "conv")
        /\ UNCHANGED <<up, readerVars, req, via, ch, ptr, json, recvChStorage,
                       mapInited, msmtStorage, owner, closed, netVars>>

\* recvChStorage[repDataObj.Measurement_id] = recvCh
StoreChannel(h) ==
  /\ up /\ pc[h] = "store"
  /\ recvChStorage' = [recvChStorage EXCEPT ![obj[repDataObj].mid] = ch[h]]
  /\ Goto(h, "conv")
  /\ UNCHANGED <<up, readerVars, handlerVars, repDataObj, mapInited,
                 msmtStorage, msmt, netVars>>

\* Mutant: the answer has a variable of its own, the key of StoreChannel not.
EncodeType_Own(h) ==
  /\ up /\ pc[h] = "conv"
  /\ ptr' = [ptr EXCEPT ![h] = repDataObj]
  /\ json' = [json EXCEPT ![h] = Reply(h, ch[h])]
  /\ Goto(h, "marshal")
  /\ UNCHANGED <<up, readerVars, req, via, ch, obj, shared, msmt, netVars>>

\* ConvDataStructToJson(repDataObj), first part: the pointer is loaded and
\* the type field read.  All other fields never change again.
EncodeType(h) ==
  /\ up /\ pc[h] = "conv"
  /\ ptr' = [ptr EXCEPT ![h] = repDataObj]
  /\ json' = [json EXCEPT ![h] = obj[repDataObj]]
  /\ Goto(h, "marshal")
  /\ UNCHANGED <<up, readerVars, req, via, ch, obj, shared, msmt, netVars>>

\* Second part: data.Type = 0 is written to the shared object.
ClearType(h) ==
  /\ up /\ pc[h] = "marshal"
  /\ obj' = [obj EXCEPT ![ptr[h]].type = "zero"]
  /\ ptr' = [ptr EXCEPT ![h] = None]
  /\ Goto(h, "write")
  /\ UNCHANGED <<up, readerVars, req, via, ch, json, shared, msmt, netVars>>

Deliver(h, receivers) ==
  /\ inbox' = [c \in Clients |->
                 IF c \in receivers THEN Append(inbox[c], json[h]) ELSE inbox[c]]
  /\ Goto(h, "close")
  /\ UNCHANGED <<up, readerVars, handlerVars, shared, msmt, backlog, sock, link,
                 out, conn, dgrams>>

WriteAnswerTCP(h) ==
  /\ up /\ pc[h] = "write" /\ via[h] \in Goroutines
  /\ \/ (conn[via[h]] # "open" \/ Reset(via[h])) /\ Exit
     \/ /\ conn[via[h]] = "open"
        /\ Deliver(h, {c \in Clients : link[c] = via[h] /\ sock[c] = "tcp"})

\* One UdpConnObj serves all requests: the answer goes to the address of the
\* last datagram read.  A datagram may be lost.
WriteAnswerUDP(h) ==
  /\ up /\ pc[h] = "write" /\ via[h] = "udp"
  /\ \E R \in SUBSET {c \in Clients : c = cltAddr /\ sock[c] = "udp"} : Deliver(h, R)

\* The answer is multicast to whoever listens at that moment.
WriteAnswerMc(h) ==
  /\ up /\ pc[h] = "write" /\ via[h] = "mc"
  /\ \E R \in SUBSET {c \in Clients : sock[c] = "mc"} : Deliver(h, R)

\* Mutant: the handler returns after CloseConn.
BecomeAcceptor_Returns(h) ==
  /\ Goto(h, "idle")
  /\ req' = [req EXCEPT ![h] = None]
  /\ via' = [via EXCEPT ![h] = None]
  /\ ch' = [ch EXCEPT ![h] = None]
  /\ json' = [json EXCEPT ![h] = None]
  /\ UNCHANGED <<up, obj, ptr, peer, buf, disp, rpc, rbuf, cltAddr, shared, msmt,
                 backlog, sock, out, inbox, dgrams>>

\* CloseConn and then HandleTcpConn: the handler becomes an acceptor.
BecomeAcceptor(h) ==
  /\ Goto(h, "accept")
  /\ req' = [req EXCEPT ![h] = None]
  /\ via' = [via EXCEPT ![h] = None]
  /\ ch' = [ch EXCEPT ![h] = None]
  /\ json' = [json EXCEPT ![h] = None]
  /\ UNCHANGED <<up, obj, ptr, peer, buf, disp, rpc, rbuf, cltAddr, shared, msmt,
                 backlog, sock, out, inbox, dgrams>>

CloseConnTCP(h) ==
  LET g == via[h] IN
  /\ up /\ pc[h] = "close" /\ g \in Goroutines
  /\ \/ conn[g] # "open" /\ Exit
     \/ /\ conn[g] = "open"
        /\ conn' = [conn EXCEPT ![g] = "closed"]
        /\ Unlink(g)
        /\ BecomeAcceptor(h)
        /\ UNCHANGED mcOpen

CloseConnUDP(h) ==
  /\ up /\ pc[h] = "close" /\ via[h] = "udp"
  /\ BecomeAcceptor(h)
  /\ UNCHANGED <<mcOpen, conn, link>>

CloseConnMc(h) ==
  /\ up /\ pc[h] = "close" /\ via[h] = "mc"
  /\ \/ ~mcOpen /\ Exit
     \/ /\ mcOpen
        /\ mcOpen' = FALSE
        /\ BecomeAcceptor(h)
        /\ UNCHANGED <<conn, link>>

-----------------------------------------------------------------------------
(* The maps have no lock: two accesses at the same time, one of them a     *)
(* write, end the process (fatal error: concurrent map writes).            *)

StorageAccess(h) == pc[h] \in {"insert", "mgmt"}
ChannelAccess(h) == pc[h] \in {"store", "lookup"}

ConcurrentMapAccess ==
  /\ up
  /\ \E h, i \in Goroutines :
       /\ h # i
       /\ \/ pc[h] = "insert" /\ StorageAccess(i)
          \/ pc[h] = "store" /\ ChannelAccess(i)
  /\ Exit

-----------------------------------------------------------------------------
Reader(g) == AcceptTCP(g) \/ ReadTCP(g) \/ ReadEOF(g) \/ ReadReset(g) \/ SendTCP(g)

DgramReader(u) == ReadFromUDP(u) \/ SetCltAddr(u) \/ SendDgram(u)

Handler(h) ==
  \/ ConstructInfoReply(h)
  \/ CheckInited(h) \/ MakeStorage(h) \/ StartModule(h) \/ InsertEntry(h)
  \/ LookupChannel(h) \/ HandleMsmtStopReq(h) \/ HandleMsmtInfoReq(h)
  \/ ReceiveReply(h) \/ StoreChannel(h)
  \/ EncodeType(h) \/ ClearType(h)
  \/ WriteAnswerTCP(h) \/ WriteAnswerUDP(h) \/ WriteAnswerMc(h)
  \/ CloseConnTCP(h) \/ CloseConnUDP(h) \/ CloseConnMc(h)

ServerNext ==
  \/ \E g \in Goroutines : Reader(g) \/ Handler(g)
  \/ \E u \in Dgram : DgramReader(u)
  \/ Dispatch
  \/ ParseTorn
  \/ ConcurrentMapAccess
=============================================================================
