---------------------- MODULE ControlPlaneService_proof ----------------------
(***************************************************************************)
(* The control plane implements ControlService, for any number of clients  *)
(* that use TCP: AnswerInv says that an answer comes after what it answers *)
(* and before the end of its connection.                                   *)
(***************************************************************************)
EXTENDS ControlPlaneMsmt_proof

\* No answer sends a client back to its request.
LEMMA FirstAnswer ==
  ASSUME TypeInv, TcpInv, NEW c \in Clients, inbox[c] # <<>>
  PROVE  /\ Head(inbox[c]) = inbox[c][1] /\ 1 \in DOMAIN inbox[c]
         /\ Head(inbox[c]).type = phase[c] /\ Head(inbox[c]).seq = c
<1>1. inbox[c] \in Seq(Message)
  BY DEF TypeInv, TypeOK, NetTypeOK
<1>2. Head(inbox[c]) = inbox[c][1] /\ 1 \in DOMAIN inbox[c]
  BY <1>1
<1> QED BY <1>2 DEF TcpInv, OwnReplies

\* The steps a client has when it uses TCP and gets no answers but its own.
LEMMA TcpSteps ==
  ASSUME TcpOnly, TypeInv, TcpInv, NEW c \in Clients, ClientStep(c) \/ Kill(c)
  PROVE  \/ DialTCP(c) \/ WriteTCP(c) \/ ReadReply(c) \/ ReadError(c)
         \/ AskInfo(c) \/ AskStop(c) \/ Kill(c)
BY FirstAnswer, AllTcp DEF ClientStep, DialUDP, WriteDgram, Listen, TcpInv, NoDatagrams, ReadOther

\* What the server's steps leave alone, and which of them are the service's.
LEMMA ServerEffect ==
  ASSUME TcpOnly, TypeInv, TcpInv, MsmtInv, ServerNext, up'
  PROVE  \/ UNCHANGED <<owner, closed>>
         \/ \E h \in Goroutines : StartModule(h) \/ HandleMsmtStopReq(h)
<1>x. ~Exit
  BY DEF Exit
<1>1. ASSUME NEW g \in Goroutines, Reader(g) PROVE UNCHANGED <<owner, closed>>
  BY <1>x, <1>1 DEF Reader, AcceptTCP, ReadTCP, ReadEOF, ReadReset, SendTCP, msmt
<1>2. ASSUME NEW h \in Goroutines, Handler(h), ~StartModule(h), ~HandleMsmtStopReq(h)
      PROVE  UNCHANGED <<owner, closed>>
  <2>1. CASE ConstructInfoReply(h) \/ CheckInited(h) \/ MakeStorage(h) \/ InsertEntry(h)
    BY <2>1 DEF ConstructInfoReply, CheckInited, MakeStorage, InsertEntry, msmt
  <2>2. CASE LookupChannel(h) \/ HandleMsmtInfoReq(h) \/ ReceiveReply(h) \/ StoreChannel(h)
    BY <1>x, <2>2 DEF LookupChannel, HandleMsmtInfoReq, ModuleReplies, ReceiveReply,
                      StoreChannel, msmt
  <2>3. CASE EncodeType(h) \/ ClearType(h) \/ WriteAnswerTCP(h) \/ WriteAnswerUDP(h)
             \/ WriteAnswerMc(h)
    BY <1>x, <2>3 DEF EncodeType, ClearType, WriteAnswerTCP, WriteAnswerUDP, WriteAnswerMc,
                      Deliver, msmt
  <2>4. CASE CloseConnTCP(h) \/ CloseConnUDP(h) \/ CloseConnMc(h)
    BY <1>x, <2>4 DEF CloseConnTCP, CloseConnUDP, CloseConnMc, BecomeAcceptor, msmt
  <2> QED BY <1>2, <2>1, <2>2, <2>3, <2>4 DEF Handler
<1>3. ASSUME NEW u \in Dgram, DgramReader(u) PROVE UNCHANGED <<owner, closed>>
  BY <1>3 DEF DgramReader, ReadFromUDP, SetCltAddr, SendDgram, msmt
<1>4. CASE Dispatch \/ ParseTorn \/ ConcurrentMapAccess
  BY <1>x, <1>4 DEF Dispatch, ParseTorn, ConcurrentMapAccess, msmt
<1> QED BY <1>1, <1>2, <1>3, <1>4 DEF ServerNext

-----------------------------------------------------------------------------
(* An answer comes after what it answers *)

AfterModule == {"recv", "conv", "marshal", "write"}

\* How a handler comes to where the module has replied.
LEMMA StopPlaces ==
  ASSUME TypeInv, ServerNext, up', NEW x \in Goroutines, pc'[x] \in AfterModule
  PROVE  /\ req'[x] = req[x]
         /\ \/ pc[x] \in AfterModule \cup {"info", "insert", "store"}
            \/ HandleMsmtStopReq(x) \/ HandleMsmtInfoReq(x)
<1>t. /\ pc \in [Goroutines -> {"idle"} \cup ReaderPc \cup HandlerPc]
      /\ req \in [Goroutines -> Request \cup {None}]
  BY DEF TypeInv, TypeOK, ServerTypeOK
<1>x. ~Exit
  BY DEF Exit
<1>1. ASSUME NEW g \in Goroutines, Reader(g) PROVE pc'[x] = pc[x] /\ req' = req
  <2>1. \E l \in {"read", "send", "idle", "reread"} : pc' = [pc EXCEPT ![g] = l] /\ req' = req
    BY <1>x, <1>1 DEF Reader, AcceptTCP, ReadTCP, ReadEOF, ReadReset, SendTCP, Goto, handlerVars
  <2> QED BY <1>t, <2>1 DEF AfterModule
<1>2. ASSUME NEW h \in Goroutines, Handler(h), h # x PROVE pc'[x] = pc[x] /\ req'[x] = req[x]
  <2>1. \E l : pc' = [pc EXCEPT ![h] = l]
    BY <1>x, <1>2 DEF Handler, ConstructInfoReply, CheckInited, MakeStorage, StartModule,
       InsertEntry, LookupChannel, HandleMsmtStopReq, HandleMsmtInfoReq, ReceiveReply,
       StoreChannel, EncodeType, ClearType, WriteAnswerTCP, WriteAnswerUDP, WriteAnswerMc,
       CloseConnTCP, CloseConnUDP, CloseConnMc, Goto, ModuleReplies, Deliver, BecomeAcceptor
  <2>2. pc'[x] = pc[x]
    BY <1>t, <1>2, <2>1
  <2> QED BY <1>2, <1>x, <2>2, HandlerFrame DEF AfterModule, HandlerPc
<1>3. ASSUME Handler(x)
      PROVE  /\ req'[x] = req[x]
             /\ \/ pc[x] \in AfterModule \cup {"info", "insert", "store"}
                \/ HandleMsmtStopReq(x) \/ HandleMsmtInfoReq(x)
  <2>1. req'[x] = req[x]
    BY <1>3, <1>x, HandlerFrame DEF AfterModule, HandlerPc
  <2>2. ASSUME \E l \in {"make", "run", "mgmt", "insert", "accept"} : pc' = [pc EXCEPT ![x] = l]
        PROVE  FALSE
    BY <1>t, <2>2 DEF AfterModule
  <2>3. CASE CheckInited(x) \/ MakeStorage(x) \/ StartModule(x) \/ LookupChannel(x)
    BY <1>x, <2>2, <2>3 DEF CheckInited, MakeStorage, StartModule, LookupChannel, Goto
  <2>4. CASE CloseConnTCP(x) \/ CloseConnUDP(x) \/ CloseConnMc(x)
    BY <1>x, <2>2, <2>4 DEF CloseConnTCP, CloseConnUDP, CloseConnMc, BecomeAcceptor, Goto
  <2>5. CASE \/ ConstructInfoReply(x) \/ InsertEntry(x) \/ ReceiveReply(x) \/ StoreChannel(x)
             \/ EncodeType(x) \/ ClearType(x)
             \/ WriteAnswerTCP(x) \/ WriteAnswerUDP(x) \/ WriteAnswerMc(x)
    BY <2>1, <2>5 DEF AfterModule, ConstructInfoReply, InsertEntry, ReceiveReply, StoreChannel,
       EncodeType, ClearType, WriteAnswerTCP, WriteAnswerUDP, WriteAnswerMc
  <2> QED BY <1>3, <2>1, <2>3, <2>4, <2>5 DEF Handler
<1>4. ASSUME NEW u \in Dgram, DgramReader(u) PROVE pc'[x] = pc[x] /\ req' = req
  BY <1>4 DEF DgramReader, ReadFromUDP, SetCltAddr, SendDgram, handlerVars
<1>5. CASE Dispatch
  <2>1. PICK h \in Goroutines : /\ pc' = [pc EXCEPT ![h] = FirstStep(Parsed.kind)]
                                /\ req' = [req EXCEPT ![h] = Parsed]
    BY <1>5 DEF Dispatch, Goto
  <2>2. FirstStep(Parsed.kind) \notin AfterModule
    BY DEF FirstStep, AfterModule
  <2> QED BY <1>t, <2>1, <2>2
<1>6. ~ ParseTorn /\ ~ ConcurrentMapAccess
  BY <1>x DEF ParseTorn, ConcurrentMapAccess
<1> QED BY <1>1, <1>2, <1>3, <1>4, <1>5, <1>6 DEF ServerNext

\* Nothing that was stopped runs again.
LEMMA ClosedGrows ==
  ASSUME TcpOnly, TypeInv, TcpInv, MsmtInv, ServerNext, up'
  PROVE  closed \subseteq closed'
<1>1. ASSUME NEW h \in Goroutines, StartModule(h) \/ HandleMsmtStopReq(h)
      PROVE  closed \subseteq closed'
  BY <1>1 DEF StartModule, HandleMsmtStopReq, Exit
<1> QED BY <1>1, ServerEffect

\* Only one step of the server delivers anything to a client.
LEMMA Delivered ==
  ASSUME TypeInv, TcpInv, ServerNext, up'
  PROVE  inbox' = inbox \/ \E h \in Goroutines : WriteAnswerTCP(h)
<1>x. ~Exit
  BY DEF Exit
<1>1. ASSUME NEW g \in Goroutines, Reader(g) PROVE inbox' = inbox
  BY <1>x, <1>1 DEF Reader, AcceptTCP, ReadTCP, ReadEOF, ReadReset, SendTCP, netVars
<1>2. ASSUME NEW h \in Goroutines, Handler(h), ~WriteAnswerTCP(h) PROVE inbox' = inbox
  <2>1. CASE ConstructInfoReply(h) \/ CheckInited(h) \/ MakeStorage(h) \/ InsertEntry(h)
             \/ StartModule(h)
    BY <2>1 DEF ConstructInfoReply, CheckInited, MakeStorage, InsertEntry, StartModule, netVars
  <2>2. CASE LookupChannel(h) \/ HandleMsmtStopReq(h) \/ HandleMsmtInfoReq(h) \/ ReceiveReply(h)
    BY <1>x, <2>2 DEF LookupChannel, HandleMsmtStopReq, HandleMsmtInfoReq, ModuleReplies,
                      ReceiveReply, netVars
  <2>3. CASE StoreChannel(h) \/ EncodeType(h) \/ ClearType(h)
    BY <2>3 DEF EncodeType, ClearType, StoreChannel, netVars
  <2>4. CASE CloseConnTCP(h)
    BY <1>x, <2>4 DEF CloseConnTCP, BecomeAcceptor
  <2>5. ~ (WriteAnswerUDP(h) \/ WriteAnswerMc(h) \/ CloseConnUDP(h) \/ CloseConnMc(h))
    BY DEF TcpInv, NoDatagrams, WriteAnswerUDP, WriteAnswerMc, CloseConnUDP, CloseConnMc, Dgram
  <2> QED BY <1>2, <2>1, <2>2, <2>3, <2>4, <2>5 DEF Handler
<1>3. ASSUME NEW u \in Dgram, DgramReader(u) PROVE inbox' = inbox
  BY <1>3 DEF DgramReader, ReadFromUDP, SetCltAddr, SendDgram, netVars
<1>4. CASE Dispatch \/ ParseTorn \/ ConcurrentMapAccess
  BY <1>x, <1>4 DEF Dispatch, ParseTorn, ConcurrentMapAccess
<1> QED BY <1>1, <1>2, <1>3, <1>4 DEF ServerNext

LEMMA StoppedServer ==
  ASSUME TcpOnly, TypeInv, TcpInv, MsmtInv, StoppedFirst, ServerNext, up, up',
         UNCHANGED clientVars
  PROVE  StoppedFirst'
<1>1. ASSUME NEW h \in Goroutines, pc'[h] \in AfterModule, req'[h].kind = "STOP"
      PROVE  req'[h].mid \in closed'
  <2>1. req'[h] = req[h]
    BY <1>1, StopPlaces
  <2>2. CASE pc[h] \in AfterModule
    BY <1>1, <2>1, <2>2, ClosedGrows DEF StoppedFirst, AfterModule
  <2>3. pc[h] \notin {"info", "insert", "store"}
    BY <1>1, <2>1 DEF MsmtInv, Routed
  <2>4. ~ HandleMsmtInfoReq(h)
    BY <1>1, <2>1 DEF HandleMsmtInfoReq
  <2>5. CASE HandleMsmtStopReq(h)
    BY <2>1, <2>5 DEF HandleMsmtStopReq, Exit
  <2> QED BY <1>1, <2>2, <2>3, <2>4, <2>5, StopPlaces
<1>2. ASSUME NEW c \in Clients, NEW i \in DOMAIN inbox'[c], inbox'[c][i].type = "STOP"
      PROVE  mid[c] \in closed
  <2>1. CASE i \in DOMAIN inbox[c] /\ inbox'[c][i] = inbox[c][i]
    BY <1>2, <2>1 DEF StoppedFirst
  <2>2. ASSUME NEW h \in Goroutines, WriteAnswerTCP(h), inbox'[c] # inbox[c]
        PROVE  \/ i \in DOMAIN inbox[c] /\ inbox'[c][i] = inbox[c][i]
               \/ mid[c] \in closed
    <3>1. /\ pc[h] = "write" /\ link[c] = via[h]
          /\ inbox'[c] = Append(inbox[c], json[h])
      BY <2>2 DEF WriteAnswerTCP, Exit, Deliver
    <3>2. inbox[c] \in Seq(Message)
      BY DEF TypeInv, TypeOK, NetTypeOK
    <3>3. \/ i \in DOMAIN inbox[c] /\ inbox'[c][i] = inbox[c][i]
          \/ inbox'[c][i] = json[h]
      BY ONLY <3>1, <3>2, i \in DOMAIN inbox'[c]
    <3>4. pc[h] \in HandlerPc
      BY <3>1 DEF HandlerPc
    <3>5. req[h].from = c /\ json[h].type = req[h].kind /\ Holds(req[h])
      BY <3>1, <3>4, Handling DEF TcpInv, Requests, Answers
    <3>6. inbox'[c][i] = json[h] => req[h].kind = "STOP" /\ req[h].mid \in closed
      BY <1>2, <3>1, <3>5 DEF StoppedFirst
    <3> QED BY <3>3, <3>5, <3>6 DEF Holds
  <2>3. inbox'[c] = inbox[c] => i \in DOMAIN inbox[c] /\ inbox'[c][i] = inbox[c][i]
    OBVIOUS
  <2> QED BY <2>1, <2>2, <2>3, Delivered
<1>3. UNCHANGED <<cpc, phase, mid>>
  BY DEF clientVars
<1> QED BY <1>1, <1>2, <1>3, ClosedGrows DEF StoppedFirst, AfterModule

\* What a client's step does to it, and that it does nothing to others.
LEMMA ClientEffect ==
  ASSUME TcpOnly, TypeInv, TcpInv, NEW c \in Clients, ClientStep(c) \/ Kill(c),
         UNCHANGED serverVars
  PROVE  /\ UNCHANGED <<up, conn, pc, via, req, owner, closed>>
         /\ \A d \in Clients : d # c =>
              /\ cpc'[d] = cpc[d] /\ phase'[d] = phase[d] /\ mid'[d] = mid[d]
              /\ link'[d] = link[d] /\ inbox'[d] = inbox[d]
         /\ link'[c] = link[c] \/ link'[c] = None
         /\ inbox'[c] = inbox[c] \/ inbox'[c] = <<>>
<1>t. /\ cpc \in [Clients -> Running \cup {"done", "failed", "killed"}]
      /\ phase \in [Clients -> Kinds]
      /\ mid \in [Clients -> MsmtIds \cup {None}]
      /\ link \in [Clients -> Goroutines \cup {None}]
      /\ inbox \in [Clients -> Seq(Message)]
  BY DEF TypeInv, TypeOK, NetTypeOK, ClientTypeOK
<1>1. UNCHANGED <<pc, via, req, owner, closed>>
  BY DEF serverVars, handlerVars, msmt
<1>2. UNCHANGED <<up, conn>>
  BY TcpSteps DEF DialTCP, WriteTCP, ReadReply, ReadError, AskInfo, AskStop, Kill, netVars
<1>3. CASE DialTCP(c) \/ WriteTCP(c) \/ Kill(c) \/ AskInfo(c) \/ AskStop(c)
  <2>1. UNCHANGED <<link, inbox, mid>>
    BY <1>3 DEF DialTCP, WriteTCP, Kill, AskInfo, AskStop, netVars
  <2>2. \E l : cpc' = [cpc EXCEPT ![c] = l]
    BY <1>3 DEF DialTCP, WriteTCP, Kill, AskInfo, AskStop, At
  <2>3. phase' = phase \/ \E k : phase' = [phase EXCEPT ![c] = k]
    BY <1>3 DEF DialTCP, WriteTCP, Kill, AskInfo, AskStop
  <2> QED BY <1>t, <1>1, <1>2, <2>1, <2>2, <2>3
<1>4. CASE ReadReply(c) \/ ReadError(c)
  <2>1. link' = [link EXCEPT ![c] = None] /\ inbox' = [inbox EXCEPT ![c] = <<>>]
    BY <1>4 DEF ReadReply, ReadError, Close
  <2>2. \E l : cpc' = [cpc EXCEPT ![c] = l]
    BY <1>4 DEF ReadReply, ReadError, At
  <2>3. phase' = phase \/ \E k : phase' = [phase EXCEPT ![c] = k]
    BY <1>4 DEF ReadReply, ReadError
  <2>4. mid' = mid \/ \E m : mid' = [mid EXCEPT ![c] = m]
    BY <1>4 DEF ReadReply, ReadError
  <2> QED BY <1>t, <1>1, <1>2, <2>1, <2>2, <2>3, <2>4
<1> QED BY <1>3, <1>4, TcpSteps

LEMMA StoppedClient ==
  ASSUME TcpOnly, TypeInv, TcpInv, MsmtInv, StoppedFirst,
         NEW c \in Clients, ClientStep(c) \/ Kill(c), UNCHANGED serverVars
  PROVE  StoppedFirst'
<1>t. /\ cpc \in [Clients -> Running \cup {"done", "failed", "killed"}]
      /\ phase \in [Clients -> Kinds] /\ mid \in [Clients -> MsmtIds \cup {None}]
  BY DEF TypeInv, TypeOK, ClientTypeOK
<1>1. inbox'[c] # <<>> => inbox'[c] = inbox[c] /\ mid'[c] = mid[c]
  BY ClientEffect, TcpSteps, <1>t, FirstAnswer DEF DialTCP, WriteTCP, ReadReply, ReadError, AskInfo,
     AskStop, Kill, Close, TypeInv, TypeOK, NetTypeOK
<1>2. ASSUME cpc'[c] = "done" PROVE phase'[c] = "STOP" /\ mid'[c] \in closed
  <2>1. CASE ReadReply(c)
    <3>1. phase[c] = "STOP" /\ UNCHANGED <<phase, mid>> /\ inbox[c] # <<>>
      BY <1>t, <1>2, <2>1 DEF ReadReply, At
    <3> QED BY <3>1, FirstAnswer DEF StoppedFirst
  <2>2. CASE ~ReadReply(c)
    BY <1>t, <1>2, <2>2, TcpSteps DEF DialTCP, WriteTCP, ReadError, AskInfo, AskStop, Kill, At
  <2> QED BY <2>1, <2>2
<1>3. \A d \in Clients : d # c =>
        /\ cpc'[d] = cpc[d] /\ phase'[d] = phase[d] /\ mid'[d] = mid[d] /\ inbox'[d] = inbox[d]
  BY ClientEffect
<1>4. UNCHANGED <<pc, req, closed>>
  BY ClientEffect
<1>5. ASSUME NEW d \in Clients, NEW i \in DOMAIN inbox'[d], inbox'[d][i].type = "STOP"
      PROVE  mid'[d] \in closed
  <2>1. inbox'[d] = inbox[d] /\ mid'[d] = mid[d]
    BY <1>1, <1>3
  <2> QED BY <1>5, <2>1 DEF StoppedFirst
<1>6. ASSUME NEW d \in Clients, cpc'[d] = "done" PROVE phase'[d] = "STOP" /\ mid'[d] \in closed
  BY <1>2, <1>3, <1>6 DEF StoppedFirst
<1> QED BY <1>4, <1>5, <1>6 DEF StoppedFirst

-----------------------------------------------------------------------------
(* A connection ends after the answer *)

LEMMA AnsweredServer ==
  ASSUME TcpOnly, TypeInv, TcpInv, MsmtInv, AnsweredFirst, ServerNext, up, up',
         UNCHANGED clientVars
  PROVE  AnsweredFirst'
<1> SUFFICES ASSUME NEW c \in Clients, link'[c] # None, cpc'[c] = "read", inbox'[c] = <<>>
             PROVE  /\ conn'[link'[c]] = "open"
                    /\ \A h \in Goroutines : pc'[h] = "close" => via'[h] # link'[c]
  BY DEF AnsweredFirst
<1>t. /\ pc \in [Goroutines -> {"idle"} \cup ReaderPc \cup HandlerPc]
      /\ via \in [Goroutines -> Goroutines \cup Dgram \cup {None}]
      /\ conn \in [Goroutines -> {"none", "open", "closed"}]
      /\ link \in [Clients -> Goroutines \cup {None}]
      /\ backlog \in Seq(Clients)
  BY DEF TypeInv, TypeOK, NetTypeOK, ServerTypeOK
<1>x. ~Exit
  BY DEF Exit
<1>c. cpc[c] = "read" /\ sock[c] = "tcp"
  BY DEF clientVars, TcpInv, Exchange
<1>1. ASSUME UNCHANGED <<link, conn, inbox>>,
             \A h \in Goroutines : pc'[h] = "close" => pc[h] = "close" /\ via'[h] = via[h]
      PROVE  /\ conn'[link'[c]] = "open"
             /\ \A h \in Goroutines : pc'[h] = "close" => via'[h] # link'[c]
  BY <1>c, <1>1 DEF AnsweredFirst
<1>2. ASSUME NEW g \in Goroutines, AcceptTCP(g)
      PROVE  /\ conn'[link'[c]] = "open"
             /\ \A h \in Goroutines : pc'[h] = "close" => via'[h] # link'[c]
  <2>1. /\ pc[g] = "accept" /\ backlog # <<>>
        /\ link' = [link EXCEPT ![Head(backlog)] = g]
        /\ conn' = [conn EXCEPT ![g] = "open"]
        /\ pc' = [pc EXCEPT ![g] = "read"] /\ UNCHANGED inbox
    BY <1>2 DEF AcceptTCP, Goto
  <2>2. \A x \in Goroutines : x # g => pc[x] \in {"idle", "reread"}
    BY <2>1, Alone DEF TcpInv
  <2>3. \A x \in Goroutines : pc'[x] # "close"
    BY <1>t, <2>1, <2>2
  <2>4. link'[c] \in Goroutines /\ (link'[c] = g \/ link'[c] = link[c])
    BY <1>t, <2>1
  <2>5. conn'[link'[c]] = "open"
    BY <1>t, <1>c, <2>1, <2>4 DEF AnsweredFirst
  <2> QED BY <2>3, <2>5
<1>3. ASSUME NEW g \in Goroutines, Reader(g), ~AcceptTCP(g)
      PROVE  /\ conn'[link'[c]] = "open"
             /\ \A h \in Goroutines : pc'[h] = "close" => via'[h] # link'[c]
  <2>1. /\ UNCHANGED <<conn, inbox, via>> /\ link'[c] \in {link[c], None}
        /\ \E l \in {"idle", "send", "reread"} : pc' = [pc EXCEPT ![g] = l]
    BY <1>x, <1>t, <1>3 DEF Reader, ReadTCP, ReadEOF, ReadReset, SendTCP, Goto, Unlink, handlerVars,
       netVars
  <2>2. \A h \in Goroutines : pc'[h] = "close" => pc[h] = "close" /\ via'[h] = via[h]
    BY <1>t, <2>1
  <2>3. link'[c] = link[c]
    BY <2>1
  <2> QED BY <1>c, <2>1, <2>2, <2>3 DEF AnsweredFirst
<1>4. ASSUME NEW h \in Goroutines, WriteAnswerTCP(h)
      PROVE  /\ conn'[link'[c]] = "open"
             /\ \A x \in Goroutines : pc'[x] = "close" => via'[x] # link'[c]
  <2>1. /\ pc' = [pc EXCEPT ![h] = "close"] /\ UNCHANGED <<conn, link, via>>
        /\ inbox'[c] = IF link[c] = via[h] /\ sock[c] = "tcp" THEN Append(inbox[c], json[h])
                       ELSE inbox[c]
    BY <1>x, <1>4 DEF WriteAnswerTCP, Deliver, Goto, handlerVars
  <2>2. inbox[c] \in Seq(Message)
    BY DEF TypeInv, TypeOK, NetTypeOK
  <2>3. Append(inbox[c], json[h]) # <<>>
    BY <2>2
  <2>4. link[c] # via[h] /\ inbox[c] = <<>>
    BY <1>c, <2>1, <2>3
  <2>5. \A x \in Goroutines : pc'[x] = "close" => x = h \/ pc[x] = "close"
    BY <1>t, <2>1
  <2> QED BY <1>c, <2>1, <2>4, <2>5 DEF AnsweredFirst
<1>5. ASSUME NEW h \in Goroutines, CloseConnTCP(h)
      PROVE  /\ conn'[link'[c]] = "open"
             /\ \A x \in Goroutines : pc'[x] = "close" => via'[x] # link'[c]
  <2>1. /\ pc[h] = "close" /\ pc' = [pc EXCEPT ![h] = "accept"] /\ UNCHANGED inbox
        /\ conn' = [conn EXCEPT ![via[h]] = "closed"] /\ link'[c] \in {link[c], None}
        /\ via' = [via EXCEPT ![h] = None]
    BY <1>x, <1>5 DEF CloseConnTCP, BecomeAcceptor, Goto, Unlink
  <2>2. link'[c] = link[c] /\ link[c] \in Goroutines
    BY <1>t, <2>1
  <2>3. conn[link[c]] = "open" /\ \A x \in Goroutines : pc[x] = "close" => via[x] # link[c]
    BY <1>c, <2>1, <2>2 DEF AnsweredFirst
  <2>4. conn'[link[c]] = "open"
    BY <1>t, <2>1, <2>2, <2>3
  <2>5. \A x \in Goroutines : pc'[x] = "close" => pc[x] = "close" /\ via'[x] = via[x]
    BY <1>t, <2>1
  <2> QED BY <2>2, <2>3, <2>4, <2>5
<1>6. ASSUME NEW h \in Goroutines, Handler(h), ~WriteAnswerTCP(h), ~CloseConnTCP(h)
      PROVE  /\ UNCHANGED <<link, conn, inbox>>
             /\ \A x \in Goroutines : pc'[x] = "close" => pc[x] = "close" /\ via'[x] = via[x]
  <2>0. ~ (WriteAnswerUDP(h) \/ WriteAnswerMc(h) \/ CloseConnUDP(h) \/ CloseConnMc(h))
    BY DEF TcpInv, NoDatagrams, WriteAnswerUDP, WriteAnswerMc, CloseConnUDP, CloseConnMc, Dgram
  <2>1. CASE ConstructInfoReply(h) \/ CheckInited(h) \/ MakeStorage(h) \/ InsertEntry(h)
             \/ StartModule(h)
    <3>1. /\ UNCHANGED <<link, conn, inbox, via>>
          /\ \E l \in {"conv", "make", "run", "recv", "insert"} : pc' = [pc EXCEPT ![h] = l]
      BY <2>1 DEF ConstructInfoReply, CheckInited, MakeStorage, InsertEntry, StartModule, Goto,
         handlerVars, netVars
    <3> QED BY <1>t, <3>1
  <2>2. CASE LookupChannel(h) \/ HandleMsmtStopReq(h) \/ HandleMsmtInfoReq(h) \/ ReceiveReply(h)
    <3>1. /\ UNCHANGED <<link, conn, inbox, via>>
          /\ \E l \in {"mgmt", "recv", "store", "conv"} : pc' = [pc EXCEPT ![h] = l]
      BY <1>x, <2>2 DEF LookupChannel, HandleMsmtStopReq, HandleMsmtInfoReq, ModuleReplies,
         ReceiveReply, Goto, handlerVars, netVars
    <3> QED BY <1>t, <3>1
  <2>3. CASE StoreChannel(h) \/ EncodeType(h) \/ ClearType(h)
    <3>1. /\ UNCHANGED <<link, conn, inbox, via>>
          /\ \E l \in {"conv", "marshal", "write"} : pc' = [pc EXCEPT ![h] = l]
      BY <2>3 DEF StoreChannel, EncodeType, ClearType, Goto, handlerVars, netVars
    <3> QED BY <1>t, <3>1
  <2> QED BY <1>6, <2>0, <2>1, <2>2, <2>3 DEF Handler
<1>7. CASE Dispatch
  <2>1. PICK h \in Goroutines :
          /\ conn' = [g \in Goroutines |-> IF Unreferenced(g) THEN "none" ELSE conn[g]]
          /\ pc' = [pc EXCEPT ![h] = FirstStep(Parsed.kind)]
          /\ via' = [via EXCEPT ![h] = disp]
          /\ UNCHANGED <<link, inbox>>
    BY <1>7 DEF Dispatch, Goto
  <2>2. FirstStep(Parsed.kind) # "close"
    BY DEF FirstStep
  <2>3. \A x \in Goroutines : pc'[x] = "close" => pc[x] = "close" /\ via'[x] = via[x]
    BY <1>t, <2>1, <2>2
  <2>4. conn[link[c]] = "open" /\ \A x \in Goroutines : pc[x] = "close" => via[x] # link[c]
    BY <1>c, <2>1 DEF AnsweredFirst
  <2>5. conn'[link[c]] = "open"
    BY <1>t, <2>1, <2>4 DEF Unreferenced
  <2> QED BY <2>1, <2>3, <2>4, <2>5
<1>8. /\ \A u \in Dgram : ~ DgramReader(u)
      /\ ~ ParseTorn /\ ~ ConcurrentMapAccess
  BY <1>x DEF TcpInv, NoDatagrams, DgramReader, ReadFromUDP, SetCltAddr, SendDgram, ParseTorn, ConcurrentMapAccess
<1>9. ASSUME NEW h \in Goroutines, Handler(h), ~WriteAnswerTCP(h), ~CloseConnTCP(h)
      PROVE  /\ conn'[link'[c]] = "open"
             /\ \A x \in Goroutines : pc'[x] = "close" => via'[x] # link'[c]
  BY <1>1, <1>6, <1>9
<1> QED BY <1>2, <1>3, <1>4, <1>5, <1>7, <1>8, <1>9 DEF ServerNext

LEMMA AnsweredClient ==
  ASSUME TcpOnly, TypeInv, TcpInv, MsmtInv, AnsweredFirst, up,
         NEW c \in Clients, ClientStep(c) \/ Kill(c), UNCHANGED serverVars
  PROVE  AnsweredFirst'
<1>t. /\ cpc \in [Clients -> Running \cup {"done", "failed", "killed"}]
      /\ link \in [Clients -> Goroutines \cup {None}]
      /\ inbox \in [Clients -> Seq(Message)]
  BY DEF TypeInv, TypeOK, NetTypeOK, ClientTypeOK
<1>1. UNCHANGED <<conn, pc, via>>
  BY ClientEffect
<1>2. ASSUME link'[c] # None, cpc'[c] = "read", inbox'[c] = <<>>
      PROVE  /\ conn[link[c]] = "open" /\ link'[c] = link[c]
             /\ \A h \in Goroutines : pc[h] = "close" => via[h] # link[c]
  <2>1. WriteTCP(c)
    BY <1>t, <1>2, TcpSteps DEF DialTCP, ReadReply, ReadError, AskInfo, AskStop, Kill, At
  <2>2. cpc[c] = "write" /\ link' = link
    BY <2>1 DEF WriteTCP
  <2>3. pc[link[c]] = "read" /\ link[c] \in Goroutines
    BY <1>t, <1>2, <2>2 DEF TcpInv, Connections
  <2>4. conn[link[c]] = "open"
    BY <2>3 DEF TcpInv, Connections
  <2>5. \A h \in Goroutines : pc[h] # "close"
    BY <2>3, Alone DEF TcpInv
  <2> QED BY <2>2, <2>4, <2>5
<1>3. \A d \in Clients : d # c =>
        cpc'[d] = cpc[d] /\ link'[d] = link[d] /\ inbox'[d] = inbox[d]
  BY ClientEffect
<1> QED BY <1>1, <1>2, <1>3 DEF AnsweredFirst

\* As long as the server runs, no client fails.
LEMMA FailedStep ==
  ASSUME TcpOnly, TypeInv, TcpInv, AnswerInv, NEW c \in Clients, ClientStep(c) \/ Kill(c),
         cpc'[c] = "failed"
  PROVE  ~up
<1>t. cpc \in [Clients -> Running \cup {"done", "failed", "killed"}]
  BY DEF TypeInv, TypeOK, ClientTypeOK
<1>1. CASE DialTCP(c)
  BY <1>t, <1>1 DEF DialTCP, Accepts, ControlAddr, At, TcpOnly
<1>2. CASE ReadReply(c)
  BY <1>t, <1>2, FirstAnswer DEF ReadReply, At
<1>3. CASE ReadError(c)
  BY <1>3 DEF ReadError, AnswerInv, AnsweredFirst
<1>4. CASE WriteTCP(c) \/ AskInfo(c) \/ AskStop(c) \/ Kill(c)
  BY <1>t, <1>4 DEF WriteTCP, AskInfo, AskStop, Kill, At
<1> QED BY <1>1, <1>2, <1>3, <1>4, TcpSteps

LEMMA AnswerInit == Init => AnswerInv
<1> SUFFICES ASSUME Init PROVE AnswerInv
  OBVIOUS
<1>1. \A g \in Goroutines : pc[g] \in {"idle", "accept"}
  BY DEF Init, ServerInit, AcceptorsInit
<1> QED BY <1>1 DEF Init, NetInit, ServerInit, ClientInit, AnswerInv, StoppedFirst, AnsweredFirst

LEMMA AnswerStep ==
  TcpOnly /\ TypeInv /\ TcpInv /\ MsmtInv /\ AnswerInv /\ [Next]_vars => AnswerInv'
<1> SUFFICES ASSUME TcpOnly, TypeInv, TcpInv, MsmtInv, AnswerInv, [Next]_vars PROVE AnswerInv'
  OBVIOUS
<1>1. CASE ServerNext /\ UNCHANGED clientVars
  <2>1. up /\ (\A c \in Clients : cpc'[c] = cpc[c])
    BY <1>1, ServerRuns DEF clientVars
  <2>2. CASE up'
    BY <1>1, <2>1, <2>2, StoppedServer, AnsweredServer DEF AnswerInv
  <2>3. CASE ~up'
    <3>1. Exit
      BY <1>1, <2>1, <2>3, NoExit
    <3>2. UNCHANGED <<pc, req, closed, inbox, cpc, phase, mid>>
      BY <1>1, <3>1 DEF Exit, handlerVars, msmt, netVars, clientVars
    <3> QED BY <2>1, <2>3, <3>2 DEF AnswerInv, StoppedFirst
  <2> QED BY <2>2, <2>3
<1>2. ASSUME NEW c \in Clients, ClientStep(c) \/ Kill(c), UNCHANGED serverVars
      PROVE  AnswerInv'
  <2>1. /\ up' = up
        /\ \A d \in Clients : d # c => cpc'[d] = cpc[d]
    BY <1>2, ClientEffect
  <2>2. StoppedFirst'
    BY <1>2, StoppedClient DEF AnswerInv
  <2>3. up' => AnsweredFirst'
    BY <1>2, <2>1, AnsweredClient DEF AnswerInv
  <2>4. \A d \in Clients : cpc'[d] = "failed" => ~up'
    BY <1>2, <2>1, FailedStep DEF AnswerInv
  <2> QED BY <2>2, <2>3, <2>4 DEF AnswerInv
<1>3. CASE UNCHANGED vars
  BY <1>3 DEF vars, netVars, serverVars, clientVars, handlerVars, msmt, AnswerInv, StoppedFirst,
              AnsweredFirst
<1> QED BY <1>1, <1>2, <1>3 DEF Next, ClientNext

LEMMA AnswerInvariant == TcpOnly /\ Spec => [](TypeInv /\ TcpInv /\ MsmtInv /\ AnswerInv)
<1>1. CASE TcpOnly
  <2>1. TypeInv /\ TcpInv /\ MsmtInv /\ AnswerInv /\ [Next]_vars => AnswerInv'
    BY <1>1, AnswerStep
  <2>2. Spec => [](TypeInv /\ TcpInv)
    BY <1>1, TcpInvariant
  <2>3. Spec => []MsmtInv
    BY <1>1, MsmtInvariant
  <2> QED BY <2>1, <2>2, <2>3, AnswerInit, PTL DEF Spec
<1>2. CASE ~TcpOnly
  BY <1>2
<1> QED BY <1>1, <1>2

-----------------------------------------------------------------------------
(* The refinement *)

serviceVars == <<up, serviceClient, phase, mid, owner, closed>>

\* Where the service sees a client that is at a label of the program.
Seen(l) ==
  IF l \in {"dial", "write", "listen", "read"} THEN "waits"
  ELSE IF l = "manage" THEN "free" ELSE l

LEMMA SeenAt ==
  ASSUME TypeInv, NEW c \in Clients
  PROVE  /\ serviceClient \in [Clients -> {"waits", "free", "done", "failed", "killed"}]
         /\ serviceClient[c] = Seen(cpc[c])
         /\ \A l : At(c, l) => serviceClient' = [serviceClient EXCEPT ![c] = Seen(l)]
         /\ cpc' = cpc => serviceClient' = serviceClient
<1>1. cpc \in [Clients -> Running \cup {"done", "failed", "killed"}]
  BY DEF TypeInv, TypeOK, ClientTypeOK
<1>2. serviceClient = [d \in Clients |-> Seen(cpc[d])]
  BY DEF serviceClient, Seen
<1>3. serviceClient' = [d \in Clients |-> Seen(cpc'[d])]
  BY DEF serviceClient, Seen
<1>4. serviceClient \in [Clients -> {"waits", "free", "done", "failed", "killed"}]
  BY <1>1 DEF serviceClient, Running
<1>5. ASSUME NEW l, At(c, l) PROVE serviceClient' = [serviceClient EXCEPT ![c] = Seen(l)]
  <2>1. cpc'[c] = l /\ \A d \in Clients : d # c => cpc'[d] = cpc[d]
    BY <1>1, <1>5 DEF At
  <2> QED BY <1>2, <1>3, <2>1
<1> QED BY <1>2, <1>3, <1>4, <1>5

LEMMA ServiceInit == Init => Service!Init
BY DEF Init, NetInit, ServerInit, ClientInit, Service!Init, serviceClient

\* A client whose stop request waits to be served, or whose start request does,
\* is still at it.
LEMMA StillWaits ==
  ASSUME TypeInv, MsmtInv, AnswerInv, up, NEW h \in Goroutines,
         pc[h] = "run" \/ (pc[h] = "mgmt" /\ req[h].kind = "STOP")
  PROVE  /\ req[h].from \in Clients /\ req[h].kind \in {"START", "STOP"}
         /\ phase[req[h].from] = req[h].kind
         /\ serviceClient[req[h].from] \in {"waits", "killed"}
<1> DEFINE c == req[h].from
<1>1. /\ req[h] \in Request /\ c \in Clients
      /\ pc[h] = "run" => req[h].kind = "START"
      /\ Holds(req[h]) /\ Asked(req[h]) /\ Pending(req[h])
  BY DEF MsmtInv, Routed, Arrived, TypeInv, Initialised, HandlerPc, Request
<1>2. ASSUME phase[c] \in {"STOP", "MSMT_INFO"} \/ cpc[c] = "manage"
      PROVE  mid[c] \in MsmtIds /\ owner[mid[c]] = c
  BY <1>1, <1>2 DEF MsmtInv, Managed, Told, Known
<1>3. phase[c] = req[h].kind
  <2>1. CASE req[h].kind = "STOP"
    BY <1>1, <2>1 DEF Asked, PastStop
  <2>2. CASE req[h].kind = "START"
    <3>1. phase[c] \in Kinds /\ phase[c] # "INFO"
      BY <1>1, <2>2 DEF Asked, PastStart, TypeInv, TypeOK, ClientTypeOK
    <3> QED BY <1>1, <1>2, <2>2, <3>1 DEF Pending, Kinds
  <2> QED BY <1>1, <2>1, <2>2
<1>4. cpc[c] # "manage"
  <2>1. CASE req[h].kind = "STOP"
    BY <1>1, <1>3, <2>1 DEF MsmtInv, Managed
  <2>2. CASE req[h].kind = "START"
    BY <1>1, <1>2, <2>2 DEF Pending
  <2> QED BY <1>1, <2>1, <2>2
<1>5. cpc[c] # "done"
  BY <1>1, <1>2, <1>3 DEF AnswerInv, StoppedFirst, Pending
<1>6. cpc[c] # "failed"
  BY <1>1 DEF AnswerInv
<1>7. cpc[c] \in Running \cup {"done", "failed", "killed"} /\ serviceClient[c] = Seen(cpc[c])
  BY <1>1, SeenAt DEF TypeInv, TypeOK, ClientTypeOK
<1> QED BY <1>1, <1>3, <1>4, <1>5, <1>6, <1>7 DEF Seen, Running

LEMMA StartService ==
  ASSUME TypeInv, MsmtInv, AnswerInv, NEW h \in Goroutines, StartModule(h),
         UNCHANGED clientVars
  PROVE  Service!Start(req[h].from)
<1>1. up /\ pc[h] = "run" /\ UNCHANGED <<up, phase, mid, cpc, closed>>
  BY DEF StartModule, clientVars, netVars
<1>2. req[h].kind = "START"
  BY <1>1 DEF MsmtInv, Routed
<1>3. \A m \in MsmtIds : owner[m] # req[h].from
  BY <1>1, <1>2 DEF MsmtInv, Arrived, Pending
<1>4. serviceClient' = serviceClient
  BY <1>1 DEF serviceClient
<1>5. \E m \in MsmtIds : owner[m] = None /\ owner' = [owner EXCEPT ![m] = req[h].from]
  BY DEF StartModule
<1> QED BY <1>1, <1>2, <1>3, <1>4, <1>5, StillWaits DEF Service!Start

LEMMA StopService ==
  ASSUME TypeInv, MsmtInv, AnswerInv, NEW h \in Goroutines, HandleMsmtStopReq(h), up',
         UNCHANGED clientVars
  PROVE  Service!Stop(req[h].from)
<1> DEFINE c == req[h].from
<1>1. /\ up /\ pc[h] = "mgmt" /\ req[h].kind = "STOP"
      /\ UNCHANGED <<up, phase, mid, cpc, owner>>
      /\ closed' = closed \cup {req[h].mid}
  BY DEF HandleMsmtStopReq, ModuleReplies, clientVars, netVars, Exit
<1>2. req[h] \in Request /\ c \in Clients
  BY <1>1 DEF TypeInv, Initialised, HandlerPc, Request
<1>3. Holds(req[h]) /\ Pending(req[h])
  BY <1>1 DEF MsmtInv, Arrived, HandlerPc
<1>4. req[h].mid = mid[c] /\ Known(c, req[h].mid)
  BY <1>1, <1>2, <1>3, HeldKnown DEF Holds
<1>5. Service!Running(c, mid[c])
  BY <1>1, <1>3, <1>4 DEF Service!Running, Known, Pending
<1>6. serviceClient' = serviceClient
  BY <1>1 DEF serviceClient
<1> QED BY <1>1, <1>4, <1>5, <1>6, StillWaits DEF Service!Stop

LEMMA ServerService ==
  ASSUME TcpOnly, TypeInv, TcpInv, MsmtInv, AnswerInv, ServerNext, UNCHANGED clientVars
  PROVE  Service!Next \/ UNCHANGED serviceVars
<1>1. up /\ UNCHANGED <<cpc, phase, mid>>
  BY ServerRuns DEF clientVars
<1>2. serviceClient' = serviceClient
  BY <1>1 DEF serviceClient
<1>3. CASE ~up'
  <2>1. PICK c \in Clients : cpc[c] = "killed"
    BY <1>1, <1>3, NoExit DEF Aborted
  <2>2. serviceClient[c] = "killed"
    BY <2>1, SeenAt DEF Seen
  <2>3. up' = FALSE /\ UNCHANGED <<owner, closed>>
    BY <1>1, <1>3, NoExit DEF Exit, msmt
  <2> QED BY <1>1, <1>2, <2>2, <2>3 DEF Service!Next, Service!Down
<1>4. CASE up'
  <2>1. CASE UNCHANGED <<owner, closed>>
    <3>1. up' = up
      BY <1>1, <1>4 DEF TypeInv, TypeOK, NetTypeOK
    <3> QED BY <1>1, <1>2, <2>1, <3>1 DEF serviceVars
  <2>2. ASSUME NEW h \in Goroutines, StartModule(h) PROVE Service!Next
    <3>1. req[h].from \in Clients
      BY <1>1, <2>2, StillWaits DEF StartModule
    <3> QED BY <2>2, <3>1, StartService DEF Service!Next
  <2>3. ASSUME NEW h \in Goroutines, HandleMsmtStopReq(h) PROVE Service!Next
    <3>1. req[h].from \in Clients
      BY <1>1, <2>3, StillWaits DEF HandleMsmtStopReq
    <3> QED BY <1>4, <2>3, <3>1, StopService DEF Service!Next
  <2> QED BY <1>4, <2>1, <2>2, <2>3, ServerEffect
<1> QED BY <1>3, <1>4

-----------------------------------------------------------------------------
(* Every answer a client reads is one the service gives *)

LEMMA ReplyService ==
  ASSUME TypeInv, TcpInv, MsmtInv, AnswerInv, NEW c \in Clients, ReadReply(c),
         UNCHANGED serverVars
  PROVE  Service!Discovered(c) \/ Service!Started(c) \/ Service!Informed(c) \/ Service!Stopped(c)
<1>1. /\ cpc[c] = "read" /\ inbox[c] # <<>> /\ UNCHANGED <<up, owner, closed>>
      /\ Head(inbox[c]) = inbox[c][1] /\ 1 \in DOMAIN inbox[c]
      /\ Head(inbox[c]).type = phase[c] /\ Head(inbox[c]).seq = c
  BY FirstAnswer DEF ReadReply, serverVars, msmt
<1>2. /\ serviceClient[c] = "waits"
      /\ \A l : At(c, l) => serviceClient' = [serviceClient EXCEPT ![c] = Seen(l)]
  BY <1>1, SeenAt DEF Seen
<1>3. ASSUME NEW m, Known(c, m), phase[c] # "STOP" PROVE Service!Running(c, m)
  BY <1>3 DEF Service!Running, Known, MsmtInv, Served, PastStop
<1>4. CASE phase[c] = "INFO"
  <2>1. At(c, "dial") /\ phase' = [phase EXCEPT ![c] = "START"] /\ mid' = mid
    BY <1>1, <1>4 DEF ReadReply
  <2>2. serviceClient' = serviceClient
    BY <1>1, <1>2, <2>1, SeenAt DEF Seen
  <2> QED BY <1>1, <1>2, <1>4, <2>1, <2>2 DEF Service!Discovered
<1>5. CASE phase[c] = "START"
  <2>1. At(c, "manage") /\ mid' = [mid EXCEPT ![c] = Head(inbox[c]).mid] /\ phase' = phase
    BY <1>1, <1>5 DEF ReadReply
  <2>2. Known(c, Head(inbox[c]).mid)
    BY <1>1, <1>5 DEF MsmtInv, Told
  <2>3. Service!Running(c, Head(inbox[c]).mid) /\ Head(inbox[c]).mid \in MsmtIds
    BY <1>3, <1>5, <2>2 DEF Known
  <2>4. serviceClient' = [serviceClient EXCEPT ![c] = "free"]
    BY <1>2, <2>1 DEF Seen
  <2> QED BY <1>1, <1>2, <1>5, <2>1, <2>3, <2>4 DEF Service!Started, Service!Client
<1>6. CASE phase[c] = "MSMT_INFO"
  <2>1. At(c, "manage") /\ UNCHANGED <<phase, mid>>
    BY <1>1, <1>6 DEF ReadReply
  <2>2. Known(c, mid[c])
    BY <1>6 DEF MsmtInv, Managed, Told
  <2>3. Service!Running(c, mid[c])
    BY <1>3, <1>6, <2>2
  <2>4. serviceClient' = [serviceClient EXCEPT ![c] = "free"]
    BY <1>2, <2>1 DEF Seen
  <2> QED BY <1>1, <1>2, <1>6, <2>1, <2>3, <2>4 DEF Service!Informed, Service!Client
<1>7. CASE phase[c] = "STOP"
  <2>1. At(c, "done") /\ UNCHANGED <<phase, mid>>
    BY <1>1, <1>7 DEF ReadReply
  <2>2. mid[c] \in closed
    BY <1>1, <1>7 DEF AnswerInv, StoppedFirst
  <2>3. serviceClient' = [serviceClient EXCEPT ![c] = "done"]
    BY <1>2, <2>1 DEF Seen
  <2> QED BY <1>1, <1>2, <1>7, <2>1, <2>2, <2>3 DEF Service!Stopped, Service!Client
<1> QED BY <1>4, <1>5, <1>6, <1>7 DEF TypeInv, TypeOK, ClientTypeOK, Kinds

LEMMA ClientService ==
  ASSUME TcpOnly, TypeInv, TcpInv, MsmtInv, AnswerInv,
         NEW c \in Clients, ClientStep(c) \/ Kill(c), UNCHANGED serverVars
  PROVE  Service!Next \/ UNCHANGED serviceVars
<1>1. UNCHANGED <<up, owner, closed>>
  BY ClientEffect
<1>2. /\ serviceClient[c] = Seen(cpc[c])
      /\ \A l : At(c, l) => serviceClient' = [serviceClient EXCEPT ![c] = Seen(l)]
      /\ serviceClient \in [Clients -> {"waits", "free", "done", "failed", "killed"}]
  BY SeenAt
<1>3. ASSUME At(c, "failed"), UNCHANGED <<phase, mid>>, cpc[c] \in {"dial", "read"}
      PROVE  Service!Next
  <2>1. cpc'[c] = "failed"
    BY <1>3 DEF At, TypeInv, TypeOK, ClientTypeOK
  <2>2. ~up
    BY <2>1, FailedStep
  <2>3. Service!Fail(c)
    BY <1>1, <1>2, <1>3, <2>2 DEF Service!Fail, Service!Client, Seen
  <2> QED BY <2>3 DEF Service!Next
<1>4. CASE DialTCP(c) \/ WriteTCP(c)
  <2>1. UNCHANGED <<phase, mid>> /\ cpc[c] \in {"dial", "write"}
    BY <1>4 DEF DialTCP, WriteTCP
  <2>2. CASE At(c, "failed") /\ cpc[c] = "dial"
    BY <1>3, <2>1, <2>2
  <2>3. CASE At(c, "write") \/ At(c, "read")
    <3>1. serviceClient' = serviceClient
      BY <1>2, <2>1, <2>3 DEF Seen
    <3> QED BY <1>1, <2>1, <3>1 DEF serviceVars
  <2> QED BY <1>4, <2>2, <2>3 DEF DialTCP, WriteTCP
<1>5. CASE ReadReply(c)
  BY <1>5, ReplyService DEF Service!Next
<1>6. CASE ReadError(c)
  BY <1>3, <1>6 DEF ReadError
<1>7. CASE AskInfo(c) \/ AskStop(c)
  <2>1. cpc[c] = "manage" /\ At(c, "dial") /\ mid' = mid
    BY <1>7 DEF AskInfo, AskStop
  <2>2. \E k \in {"MSMT_INFO", "STOP"} : phase' = [phase EXCEPT ![c] = k]
    BY <1>7 DEF AskInfo, AskStop
  <2>3. serviceClient[c] = "free" /\ serviceClient' = [serviceClient EXCEPT ![c] = "waits"]
    BY <1>2, <2>1 DEF Seen
  <2>4. Service!Ask(c)
    BY <1>1, <2>1, <2>2, <2>3 DEF Service!Ask, Service!Client
  <2> QED BY <2>4 DEF Service!Next
<1>8. CASE Kill(c)
  <2>1. At(c, "killed") /\ UNCHANGED <<phase, mid>>
    BY <1>8 DEF Kill
  <2>2. cpc[c] \in {"dial", "write", "listen", "read", "manage"}
    <3>1. Whereabouts(c) \in {"dial", "write", "listen", "read", "unread", "manage"}
      BY <1>8, ClientAssumption DEF Kill
    <3> QED BY <3>1 DEF Whereabouts, TypeInv, TypeOK, ClientTypeOK, Running
  <2>3. /\ serviceClient[c] \in {"waits", "free"}
        /\ serviceClient' = [serviceClient EXCEPT ![c] = "killed"]
    BY <1>2, <2>1, <2>2 DEF Seen
  <2>4. Service!Die(c)
    BY <1>1, <2>1, <2>3 DEF Service!Die, Service!Client
  <2> QED BY <2>4 DEF Service!Next
<1> QED BY <1>4, <1>5, <1>6, <1>7, <1>8, TcpSteps

\* With any number of TCP clients, whatever they ask for at the same time and
\* wherever they die, the handlers, the acceptor's hand-over and the unlocked
\* maps serve every request once, between its being sent and its being answered.
THEOREM ImplementsService == TcpOnly /\ Spec => ServiceSpec
<1>1. CASE TcpOnly
  <2>1. TypeInv /\ TcpInv /\ MsmtInv /\ AnswerInv /\ [Next]_vars
          => [Service!Next]_(Service!vars)
    <3> SUFFICES ASSUME TypeInv, TcpInv, MsmtInv, AnswerInv, [Next]_vars
                 PROVE  Service!Next \/ UNCHANGED serviceVars
      BY DEF Service!vars, serviceVars
    <3>1. CASE UNCHANGED vars
      BY <3>1 DEF vars, netVars, serverVars, clientVars, msmt, serviceVars, serviceClient
    <3> QED BY <1>1, <3>1, ServerService, ClientService DEF Next, ClientNext
  <2>2. Spec => [](TypeInv /\ TcpInv /\ MsmtInv /\ AnswerInv)
    BY <1>1, AnswerInvariant
  <2> QED BY <2>1, <2>2, ServiceInit, PTL DEF Spec, ServiceSpec, Service!Spec
<1>2. CASE ~TcpOnly
  BY <1>2
<1> QED BY <1>1, <1>2
=============================================================================
