------------------------ MODULE ControlPlaneMsmt_proof ------------------------
(***************************************************************************)
(* Proofs about the measurements a control-plane server keeps: whom they   *)
(* belong to, who may stop them, and that asking for them never ends the   *)
(* server.                                                                 *)
(***************************************************************************)
EXTENDS ControlPlane_proof

-----------------------------------------------------------------------------
(* A measurement is stopped by its holder, whatever protocol clients use *)

\* A stop request stays its client's own: the client does nothing more that
\* would change its phase or its id.
LEMMA StopKept ==
  ASSUME TypeInv, HolderInv, [Next]_vars,
         NEW c \in Clients, phase[c] = "STOP"
  PROVE  phase'[c] = "STOP" /\ mid'[c] = mid[c]
<1>1. CASE UNCHANGED clientVars
  BY <1>1 DEF clientVars
<1>2. CASE ClientNext
  <2>1. PICK d \in Clients : ClientStep(d) \/ Kill(d)
    BY <1>2 DEF ClientNext
  <2>2. /\ phase \in [Clients -> Kinds]
        /\ mid \in [Clients -> MsmtIds \cup {None}]
    BY DEF TypeInv, TypeOK, ClientTypeOK
  <2>3. CASE ReadReply(d)
    <3>1. \/ UNCHANGED <<phase, mid>>
          \/ phase[d] = "INFO" /\ phase' = [phase EXCEPT ![d] = "START"] /\ mid' = mid
          \/ /\ phase[d] = "START" /\ phase' = phase
             /\ mid' = [mid EXCEPT ![d] = Head(inbox[d]).mid]
      BY <2>3 DEF ReadReply
    <3> QED BY <2>2, <3>1
  <2>4. CASE AskInfo(d) \/ AskStop(d)
    <3>1. cpc[d] = "manage" /\ mid' = mid
          /\ \E k \in Kinds : phase' = [phase EXCEPT ![d] = k]
      BY <2>4 DEF AskInfo, AskStop, Kinds
    <3>2. d # c
      BY <3>1 DEF HolderInv
    <3> QED BY <2>2, <3>1, <3>2
  <2>5. CASE ~ (ReadReply(d) \/ AskInfo(d) \/ AskStop(d))
    BY <2>1, <2>5 DEF ClientStep, DialTCP, DialUDP, WriteTCP, WriteDgram, Listen, ReadOther,
                      ReadError, Kill
  <2> QED BY <2>3, <2>4, <2>5
<1> QED BY <1>1, <1>2 DEF Next, vars

LEMMA HolderInit == Init => HolderInv
<1> SUFFICES ASSUME Init PROVE HolderInv
  OBVIOUS
<1>1. \A g \in Goroutines : pc[g] \in {"idle", "accept"} /\ disp # g
  BY ControlAssumption DEF Init, ServerInit, AcceptorsInit
<1> QED BY <1>1 DEF Init, NetInit, ServerInit, ClientInit, HolderInv, StoppedByHolder,
                    HandlerPc

\* A handler leaves the readers and the requests on their way alone.
LEMMA HandlerFrame ==
  ASSUME TypeInv, NEW h \in Goroutines, Handler(h), ~Exit
  PROVE  /\ up /\ UNCHANGED <<up, buf, disp, out>> /\ pc[h] \in HandlerPc
         /\ \A g \in Goroutines : pc'[g] = "send" => pc[g] = "send"
         /\ \A g \in Goroutines : pc'[g] \in HandlerPc =>
              pc[g] \in HandlerPc /\ req'[g] = req[g]
<1>1. pc \in [Goroutines -> {"idle"} \cup ReaderPc \cup HandlerPc]
  BY DEF TypeInv, TypeOK, ServerTypeOK
<1>2. CASE \E l \in HandlerPc : /\ up /\ UNCHANGED <<up, req, buf, disp, out>>
                                /\ pc' = [pc EXCEPT ![h] = l] /\ pc[h] \in HandlerPc
  BY <1>1, <1>2 DEF HandlerPc
<1>3. CASE BecomeAcceptor(h) /\ up /\ pc[h] \in HandlerPc
  <2>1. /\ pc' = [pc EXCEPT ![h] = "accept"] /\ req' = [req EXCEPT ![h] = None]
        /\ UNCHANGED <<up, buf, disp, out>>
    BY <1>3 DEF BecomeAcceptor, Goto
  <2> QED BY <1>1, <1>3, <2>1 DEF HandlerPc, TypeInv, TypeOK, ServerTypeOK
<1>4. \/ BecomeAcceptor(h) /\ up /\ pc[h] \in HandlerPc
      \/ \E l \in HandlerPc : /\ up /\ UNCHANGED <<up, req, buf, disp, out>>
                              /\ pc' = [pc EXCEPT ![h] = l] /\ pc[h] \in HandlerPc
  BY DEF Handler, ConstructInfoReply, CheckInited, MakeStorage, StartModule, InsertEntry,
         LookupChannel, HandleMsmtStopReq, HandleMsmtInfoReq, ReceiveReply, StoreChannel,
         EncodeType, ClearType, WriteAnswerTCP, WriteAnswerUDP, WriteAnswerMc,
         CloseConnTCP, CloseConnUDP, CloseConnMc, HandlerPc, Goto, ModuleReplies,
         Deliver, readerVars, handlerVars, netVars
<1> QED BY <1>2, <1>3, <1>4

\* Requests are copied, never changed, on their way to a handler.
LEMMA RequestsCopied ==
  ASSUME TypeInv, ServerNext
  PROVE  /\ \A c \in Clients : out'[c] # None => out'[c] = out[c]
         /\ \A g \in Goroutines : pc'[g] = "send" \/ disp' = g =>
              \/ buf'[g] = buf[g] /\ (pc[g] = "send" \/ disp = g)
              \/ \E c \in Clients : out[c] # None /\ buf'[g] = out[c]
         /\ \A h \in Goroutines : pc'[h] \in HandlerPc =>
              \/ req'[h] = req[h] /\ pc[h] \in HandlerPc
              \/ disp \in Goroutines /\ req'[h] = buf[disp]
              \/ disp \in Dgram /\ req'[h] = InfoRequest(rbuf[disp])
<1>t. /\ req \in [Goroutines -> Request \cup {None}]
      /\ buf \in [Goroutines -> Request \cup {None}]
      /\ out \in [Clients -> Request \cup {None}]
      /\ pc \in [Goroutines -> {"idle"} \cup ReaderPc \cup HandlerPc]
      /\ disp \in Goroutines \cup Dgram \cup {None}
      /\ \A g \in Goroutines : pc[g] \in {"read", "reread"} /\ link[peer[g]] = g =>
           peer[g] \in Clients \/ peer[g] = None
  BY DEF TypeInv, TypeOK, ServerTypeOK, NetTypeOK
<1>1. CASE UNCHANGED <<out, buf, req, pc, disp>>
  BY <1>1
<1>2. ASSUME NEW g \in Goroutines, Reader(g), ~ Exit
      PROVE  ReadTCP(g) \/ SendTCP(g)
               \/ /\ UNCHANGED <<out, buf, req, disp>>
                  /\ \E l \in {"read", "idle"} : pc' = [pc EXCEPT ![g] = l]
  BY <1>2 DEF Reader, AcceptTCP, ReadEOF, ReadReset, Goto, handlerVars
<1>3. ASSUME NEW g \in Goroutines, UNCHANGED <<out, buf, req, disp>>,
             \E l \in {"read", "idle"} : pc' = [pc EXCEPT ![g] = l]
      PROVE  /\ \A x \in Goroutines : pc'[x] = "send" => pc[x] = "send"
             /\ \A x \in Goroutines : pc'[x] \in HandlerPc => pc[x] \in HandlerPc
  BY <1>t, <1>3 DEF HandlerPc
<1>4. ASSUME NEW g \in Goroutines, ReadTCP(g)
      PROVE  /\ \A c \in Clients : out'[c] # None => out'[c] = out[c]
             /\ UNCHANGED <<req, disp>>
             /\ \A x \in Goroutines : x # g => pc'[x] = pc[x] /\ buf'[x] = buf[x]
             /\ pc'[g] = "send" /\ buf'[g] = out[peer[g]] /\ out[peer[g]] # None
             /\ peer[g] \in Clients
  <2>1. peer[g] \in Clients /\ out' = [out EXCEPT ![peer[g]] = None]
    BY <1>4 DEF ReadTCP, TypeInv, TypeOK, ServerTypeOK, Initialised
  <2> QED BY <1>t, <1>4, <2>1 DEF ReadTCP, Goto, handlerVars
<1>5. ASSUME NEW g \in Goroutines, SendTCP(g)
      PROVE  /\ UNCHANGED <<out, buf, req>> /\ disp' = g /\ pc[g] = "send"
             /\ \A x \in Goroutines : pc'[x] = "send" => pc[x] = "send"
             /\ \A x \in Goroutines : pc'[x] \in HandlerPc => pc[x] \in HandlerPc
  BY <1>t, <1>5 DEF SendTCP, Goto, handlerVars, netVars, HandlerPc
<1>6. CASE Dispatch
  <2>1. PICK h \in Goroutines :
          /\ disp # None /\ disp' = None /\ out' = out
          /\ req' = [req EXCEPT ![h] = Parsed]
          /\ pc' = [pc EXCEPT ![h] = FirstStep(Parsed.kind)]
    BY <1>6 DEF Dispatch, Goto
  <2>2. FirstStep(Parsed.kind) \in HandlerPc
    BY DEF FirstStep, HandlerPc
  <2>3. \A g \in Goroutines : pc'[g] = "send" => pc[g] = "send"
    BY <1>t, <2>1, <2>2 DEF HandlerPc
  <2>4. \A g \in Goroutines : pc[g] = "send" => buf'[g] = buf[g]
    BY <1>6 DEF Dispatch
  <2>5. \A g \in Goroutines : pc'[g] \in HandlerPc =>
          (pc[g] \in HandlerPc /\ req'[g] = req[g]) \/ req'[g] = Parsed
    BY <1>t, <2>1
  <2>6. \A g \in Goroutines : disp' # g
    BY <2>1, ControlAssumption
  <2>7. \/ disp \in Goroutines /\ Parsed = buf[disp]
        \/ disp \in Dgram /\ Parsed = InfoRequest(rbuf[disp])
    BY <1>t, <2>1, ControlAssumption DEF Parsed, Dgram
  <2> QED BY <2>1, <2>3, <2>4, <2>5, <2>6, <2>7
<1>7. CASE \E u \in Dgram : DgramReader(u)
  <2>1. /\ UNCHANGED <<out, buf, req, pc>>
        /\ disp' = disp \/ disp' \in Dgram
    BY <1>7 DEF DgramReader, ReadFromUDP, SetCltAddr, SendDgram, handlerVars, netVars
  <2>2. \A g \in Goroutines : g \notin Dgram
    BY ControlAssumption DEF Dgram
  <2> QED BY <2>1, <2>2
<1>8. CASE Exit
  BY <1>1, <1>8 DEF Exit, netVars, readerVars, handlerVars
<1>9. ASSUME NEW h \in Goroutines, Handler(h), ~Exit
      PROVE  /\ UNCHANGED <<buf, disp, out>>
             /\ \A g \in Goroutines : pc'[g] = "send" => pc[g] = "send"
             /\ \A g \in Goroutines : pc'[g] \in HandlerPc =>
                  pc[g] \in HandlerPc /\ req'[g] = req[g]
  BY <1>9, HandlerFrame
<1>10. \/ \E g \in Goroutines : Reader(g) /\ ~Exit
       \/ \E h \in Goroutines : Handler(h) /\ ~Exit
       \/ \E u \in Dgram : DgramReader(u)
       \/ Dispatch
       \/ Exit
  BY DEF ServerNext, ParseTorn, ConcurrentMapAccess
<1>11. CASE \E g \in Goroutines : Reader(g) /\ ~Exit
  <2>1. PICK g \in Goroutines : Reader(g) /\ ~Exit
    BY <1>11
  <2>2. CASE ReadTCP(g)
    BY <1>4, <2>2 DEF HandlerPc
  <2>3. CASE SendTCP(g)
    BY <1>5, <2>3
  <2>4. CASE UNCHANGED <<out, buf, req, disp>>
               /\ \E l \in {"read", "idle"} : pc' = [pc EXCEPT ![g] = l]
    BY <1>3, <2>4
  <2> QED BY <1>2, <2>1, <2>2, <2>3, <2>4
<1>12. CASE \E h \in Goroutines : Handler(h) /\ ~Exit
  BY <1>9, <1>12
<1> QED BY <1>6, <1>7, <1>8, <1>10, <1>11, <1>12

LEMMA HolderStep == TypeInv /\ HolderInv /\ [Next]_vars => HolderInv'
<1> SUFFICES ASSUME TypeInv, HolderInv, [Next]_vars PROVE HolderInv'
  OBVIOUS
<1> DEFINE Own(r) == r.kind = "STOP" => phase'[r.from] = "STOP" /\ mid'[r.from] = r.mid
<1>t. /\ cpc \in [Clients -> Running \cup {"done", "failed", "killed"}]
      /\ phase \in [Clients -> Kinds]
      /\ mid \in [Clients -> MsmtIds \cup {None}]
      /\ out \in [Clients -> Request \cup {None}]
      /\ \A g \in Goroutines : pc[g] = "send" \/ disp = g => buf[g] \in Request
      /\ \A h \in Goroutines : pc[h] \in HandlerPc => req[h] \in Request
  BY DEF TypeInv, TypeOK, NetTypeOK, ClientTypeOK, Initialised
<1>k. ASSUME NEW r, r.kind = "STOP" => r.from \in Clients, StopsOwn(r)
      PROVE  Own(r)
  BY <1>k, StopKept DEF StopsOwn
<1>s. StoppedByHolder /\ closed' = closed => StoppedByHolder'
  BY StopKept DEF StoppedByHolder
<1>1. CASE ServerNext /\ UNCHANGED clientVars
  <2>1. \A c \in Clients : out'[c] # None => Own(out'[c])
    BY <1>1, RequestsCopied DEF HolderInv, StopsOwn, clientVars
  <2>2. \A g \in Goroutines : pc'[g] = "send" \/ disp' = g => Own(buf'[g])
    BY <1>1, RequestsCopied DEF HolderInv, StopsOwn, clientVars
  <2>3. \A h \in Goroutines : pc'[h] \in HandlerPc => Own(req'[h])
    <3>1. SUFFICES ASSUME NEW h \in Goroutines, pc'[h] \in HandlerPc
                   PROVE  Own(req'[h])
      OBVIOUS
    <3>2. CASE req'[h] = req[h] /\ pc[h] \in HandlerPc
      BY <1>1, <3>2 DEF HolderInv, StopsOwn, clientVars
    <3>3. CASE disp \in Goroutines /\ req'[h] = buf[disp]
      BY <1>1, <3>3 DEF HolderInv, StopsOwn, clientVars
    <3>4. CASE req'[h] = InfoRequest(rbuf[disp])
      BY <3>4 DEF InfoRequest
    <3> QED BY <1>1, <3>1, <3>2, <3>3, <3>4, RequestsCopied
  <2>4. StoppedByHolder'
    <3>1. CASE closed' = closed
      BY <1>s, <3>1 DEF HolderInv
    <3>2. CASE \E h \in Goroutines : HandleMsmtStopReq(h) /\ ~Exit
      <4>1. PICK h \in Goroutines : HandleMsmtStopReq(h) /\ ~Exit
        BY <3>2
      <4>2. /\ closed' = closed \cup {req[h].mid} /\ req[h].kind = "STOP"
            /\ pc[h] = "mgmt"
        BY <4>1 DEF HandleMsmtStopReq
      <4>3. StopsOwn(req[h]) /\ req[h].from \in Clients
        BY <1>t, <4>2 DEF HolderInv, HandlerPc, Request
      <4>4. mid[req[h].from] = req[h].mid /\ phase[req[h].from] = "STOP"
        BY <4>2, <4>3 DEF StopsOwn
      <4> QED BY <1>1, <4>2, <4>3, <4>4 DEF HolderInv, StoppedByHolder, clientVars
    <3>3. closed' = closed \/ \E h \in Goroutines : HandleMsmtStopReq(h) /\ ~Exit
      <4>1. Exit => closed' = closed
        BY DEF Exit, msmt
      <4>2. ASSUME NEW h \in Goroutines, Handler(h), ~Exit, ~HandleMsmtStopReq(h)
            PROVE  closed' = closed
        BY <4>2 DEF Handler, ConstructInfoReply, CheckInited, MakeStorage, StartModule,
             InsertEntry, LookupChannel, HandleMsmtInfoReq, ReceiveReply, StoreChannel,
             EncodeType, ClearType, WriteAnswerTCP, WriteAnswerUDP, WriteAnswerMc,
             CloseConnTCP, CloseConnUDP, CloseConnMc, Deliver, BecomeAcceptor, msmt
      <4>3. ASSUME NEW g \in Goroutines, Reader(g) PROVE closed' = closed
        BY <4>1, <4>3 DEF Reader, AcceptTCP, ReadTCP, ReadEOF, ReadReset, SendTCP, msmt
      <4>4. ASSUME Dispatch \/ \E u \in Dgram : DgramReader(u)
            PROVE  closed' = closed
        BY <4>4 DEF Dispatch, DgramReader, ReadFromUDP, SetCltAddr, SendDgram, msmt
      <4> QED BY <1>1, <4>1, <4>2, <4>3, <4>4 DEF ServerNext, ParseTorn, ConcurrentMapAccess
    <3> QED BY <3>1, <3>2, <3>3
  <2> QED BY <1>1, <2>1, <2>2, <2>3, <2>4 DEF HolderInv, StopsOwn, clientVars
<1>2. CASE ClientNext /\ UNCHANGED serverVars
  <2>1. PICK c \in Clients : ClientStep(c) \/ Kill(c)
    BY <1>2 DEF ClientNext
  <2>2. UNCHANGED <<pc, disp, buf, req, closed>>
    BY <1>2 DEF serverVars, readerVars, handlerVars, msmt
  <2>3. \A d \in Clients : out'[d] # None =>
          \/ out'[d] = out[d]
          \/ d = c /\ out'[d] = CurrentRequest(c) /\ UNCHANGED <<phase, mid>>
    BY <1>t, <2>1 DEF ClientStep, DialTCP, DialUDP, WriteTCP, WriteDgram, Listen, ReadOther,
                      ReadReply, ReadError, AskInfo, AskStop, Kill, Close, netVars
  <2>4. \A d \in Clients : out'[d] # None => Own(out'[d])
    <3>1. SUFFICES ASSUME NEW d \in Clients, out'[d] # None PROVE Own(out'[d])
      OBVIOUS
    <3>2. CASE out'[d] = out[d]
      <4>1. StopsOwn(out[d]) /\ out[d].from \in Clients
        BY <1>t, <3>1, <3>2 DEF HolderInv, Request
      <4> QED BY <1>k, <3>2, <4>1 DEF StopsOwn
    <3>3. CASE out'[d] = CurrentRequest(c) /\ UNCHANGED <<phase, mid>>
      BY <3>3 DEF CurrentRequest
    <3> QED BY <2>3, <3>1, <3>2, <3>3
  <2>5. \A g \in Goroutines : pc'[g] = "send" \/ disp' = g => Own(buf'[g])
    BY <1>t, <1>k, <2>2 DEF HolderInv, StopsOwn, Request
  <2>6. \A h \in Goroutines : pc'[h] \in HandlerPc => Own(req'[h])
    BY <1>t, <1>k, <2>2 DEF HolderInv, StopsOwn, Request
  <2>7. \A d \in Clients : cpc'[d] = "manage" => phase'[d] # "STOP"
    <3>1. CASE ReadReply(c)
      <4>1. /\ \/ phase' = [phase EXCEPT ![c] = "START"]
               \/ phase' = phase
            /\ \/ cpc' = [cpc EXCEPT ![c] = "manage"] /\ phase[c] # "STOP" /\ phase' = phase
               \/ \E l \in {"dial", "failed", "done"} : cpc' = [cpc EXCEPT ![c] = l]
        BY <3>1 DEF ReadReply, At
      <4> QED BY <1>t, <4>1 DEF HolderInv
    <3>2. CASE ~ReadReply(c)
      <4>1. /\ \E l \in {"dial", "write", "listen", "read", "failed", "killed"} :
                 cpc' = [cpc EXCEPT ![c] = l]
            /\ phase' = phase \/ \E k \in Kinds : phase' = [phase EXCEPT ![c] = k]
        BY <2>1, <3>2 DEF ClientStep, DialTCP, DialUDP, WriteTCP, WriteDgram, Listen,
                          ReadOther, ReadError, AskInfo, AskStop, Kill, At, Kinds
      <4> QED BY <1>t, <4>1 DEF HolderInv
    <3> QED BY <3>1, <3>2
  <2>8. StoppedByHolder'
    BY <1>s, <2>2 DEF HolderInv
  <2> QED BY <2>4, <2>5, <2>6, <2>7, <2>8 DEF HolderInv, StopsOwn
<1>3. CASE UNCHANGED vars
  BY <1>3 DEF vars, netVars, serverVars, clientVars, readerVars, handlerVars, shared,
     msmt, HolderInv, StopsOwn, StoppedByHolder
<1> QED BY <1>1, <1>2, <1>3 DEF Next

\* Whatever mix of clients there is, and however answers to discoveries get mixed
\* up, a measurement is stopped for its holder only: a client that was told its
\* id and has asked for its stop.
THEOREM HolderStops == Spec => []StoppedByHolder
<1>1. Spec => []TypeInv
  BY TypeInit, TypeStep, PTL DEF Spec
<1>2. HolderInv => StoppedByHolder
  BY DEF HolderInv
<1> QED BY <1>1, <1>2, HolderInit, HolderStep, PTL DEF Spec

-----------------------------------------------------------------------------
(* The branches of the handlers *)

\* A handler stays in the branch that the dispatch loop has put it in.
LEMMA RoutedStep ==
  ASSUME TypeInv, Routed, ServerNext
  PROVE  Routed'
<1>t. /\ pc \in [Goroutines -> {"idle"} \cup ReaderPc \cup HandlerPc]
      /\ req \in [Goroutines -> Request \cup {None}]
  BY DEF TypeInv, TypeOK, ServerTypeOK
<1> DEFINE Start == {"check", "make", "run", "insert", "store"}
           Manage == {"lookup", "mgmt"}
<1>1. ASSUME NEW h \in Goroutines, Handler(h), ~Exit
      PROVE  Routed'
  <2>1. \E l \in HandlerPc \cup {"accept"} :
          /\ pc' = [pc EXCEPT ![h] = l]
          /\ l \in Start => req[h].kind = "START" \/ pc[h] \in Start
          /\ l \in Manage => pc[h] \in Manage
          /\ l # "info"
    BY <1>1 DEF Handler, ConstructInfoReply, CheckInited, MakeStorage, StartModule,
         InsertEntry, LookupChannel, HandleMsmtStopReq, HandleMsmtInfoReq, ReceiveReply,
         StoreChannel, EncodeType, ClearType, WriteAnswerTCP, WriteAnswerUDP,
         WriteAnswerMc, CloseConnTCP, CloseConnUDP, CloseConnMc, HandlerPc, Goto,
         ModuleReplies, Deliver, BecomeAcceptor
  <2>2. \A g \in Goroutines : pc'[g] \in HandlerPc => req'[g] = req[g]
    BY <1>1, HandlerFrame
  <2>3. Start \subseteq HandlerPc /\ Manage \subseteq HandlerPc /\ "info" \in HandlerPc
    BY DEF HandlerPc
  <2> QED BY <1>t, <2>1, <2>2, <2>3 DEF Routed
<1>2. CASE Dispatch
  <2>1. PICK h \in Goroutines :
          /\ req' = [req EXCEPT ![h] = Parsed]
          /\ pc' = [pc EXCEPT ![h] = FirstStep(Parsed.kind)]
    BY <1>2 DEF Dispatch, Goto
  <2>2. Parsed \in Request
    <3>1. disp \in Dgram \/ disp \in Goroutines
      BY <1>2 DEF Dispatch, TypeInv, TypeOK, ServerTypeOK
    <3>2. CASE disp \in Dgram
      BY <3>2 DEF Parsed, InfoRequest, Request, Kinds, TypeInv, Initialised
    <3>3. CASE disp \notin Dgram
      BY <3>1, <3>3 DEF Parsed, TypeInv, Initialised
    <3> QED BY <3>2, <3>3
  <2>3. /\ FirstStep(Parsed.kind) \in Start => Parsed.kind = "START"
        /\ FirstStep(Parsed.kind) \in Manage => Parsed.kind \in {"STOP", "MSMT_INFO"}
        /\ FirstStep(Parsed.kind) = "info" => Parsed.kind = "INFO"
    BY <2>2 DEF FirstStep, Request, Kinds
  <2> DEFINE p == Parsed  f == FirstStep(Parsed.kind)
  <2> HIDE DEF p, f
  <2>4. /\ req' = [req EXCEPT ![h] = p] /\ pc' = [pc EXCEPT ![h] = f]
        /\ f \in Start => p.kind = "START"
        /\ f \in Manage => p.kind \in {"STOP", "MSMT_INFO"}
        /\ f = "info" => p.kind = "INFO"
    BY <2>1, <2>3 DEF p, f
  <2> QED BY <1>t, <2>4 DEF Routed
<1>3. ASSUME NEW g \in Goroutines, Reader(g), ~Exit PROVE Routed'
  <2>1. /\ req' = req
        /\ \E l \in {"read", "send", "reread", "idle"} : pc' = [pc EXCEPT ![g] = l]
    BY <1>3 DEF Reader, AcceptTCP, ReadTCP, ReadEOF, ReadReset, SendTCP, Goto, handlerVars
  <2> QED BY <1>t, <2>1 DEF Routed
<1>4. CASE UNCHANGED <<pc, req>>
  BY <1>4 DEF Routed
<1>5. Exit \/ (\E u \in Dgram : DgramReader(u)) => UNCHANGED <<pc, req>>
  BY DEF Exit, DgramReader, ReadFromUDP, SetCltAddr, SendDgram, handlerVars
<1> QED BY <1>1, <1>2, <1>3, <1>4, <1>5 DEF ServerNext, ParseTorn, ConcurrentMapAccess

-----------------------------------------------------------------------------
(* Measurements, when every client uses TCP *)

LEMMA MsmtInit == Init => MsmtInv
<1> SUFFICES ASSUME Init PROVE MsmtInv
  OBVIOUS
<1> USE ControlAssumption DEF Init, NetInit, ServerInit, ClientInit
<1>1. \A g \in Goroutines : pc[g] \in {"idle", "accept"} /\ disp # g
  BY DEF AcceptorsInit
<1>2. Routed /\ Arrived
  BY <1>1 DEF Routed, Arrived, HandlerPc
<1>3. Told
  BY DEF Told, RecvChIndexedByMsmtId
<1>4. Managed /\ Served /\ OneMeasurementPerClient /\ ServerSurvives
  BY DEF Managed, Served, OneMeasurementPerClient, ServerSurvives
<1>5. Serving
  BY <1>1 DEF Serving, ServingAt, RepliesAwaited
<1> QED BY <1>2, <1>3, <1>4, <1>5 DEF MsmtInv

\* What a handler finds when it serves: it is alone, and its request is that of
\* a client.
LEMMA Handling ==
  ASSUME TypeInv, TcpInv, MsmtInv, NEW h \in Goroutines, pc[h] \in HandlerPc
  PROVE  /\ disp = None /\ \A x \in Goroutines : x # h => pc[x] \in {"idle", "reread"}
         /\ req[h] \in Request /\ req[h].from \in Clients /\ req[h].kind \in Kinds
         /\ Holds(req[h]) /\ Asked(req[h]) /\ conn[via[h]] = "open"
         /\ pc[h] \in {"check", "make", "run", "lookup", "mgmt"} => Pending(req[h])
         /\ ServingAt(h)
<1>1. disp = None /\ \A x \in Goroutines : x # h => pc[x] \in {"idle", "reread"}
  BY Alone DEF TcpInv
<1>2. req[h] \in Request
  BY DEF TypeInv, Initialised
<1> QED BY <1>1, <1>2 DEF MsmtInv, Arrived, Serving, Request

\* A request about a measurement names one the server knows.
LEMMA HeldKnown ==
  ASSUME TypeInv, MsmtInv, NEW r \in Request, Holds(r), r.kind \in {"STOP", "MSMT_INFO"}
  PROVE  Known(r.from, r.mid)
BY DEF Holds, MsmtInv, Told, Request

\* The server ends with an answer unread, or not at all: no lookup fails, no
\* reply is of another kind, no connection is closed before it is written to,
\* and no two handlers meet in a map.
LEMMA NoExit ==
  ASSUME TcpOnly, TypeInv, TcpInv, MsmtInv, up, ServerNext, ~up'
  PROVE  Aborted # {} /\ Exit
<1>c. Connections /\ Requests /\ Answers /\ Exchange /\ NoDatagrams /\ SingleFlight
  BY DEF TcpInv
<1>1. ASSUME NEW g \in Goroutines, Reader(g) PROVE Aborted # {} /\ Exit
  <2>1. ReadReset(g)
    BY <1>1 DEF Reader, AcceptTCP, ReadTCP, ReadEOF, SendTCP
  <2>2. PICK c \in Clients : link[c] = g /\ sock[c] # "tcp" /\ inbox[c] # <<>>
    BY <2>1 DEF ReadReset, Reset
  <2>3. cpc[c] = "killed"
    BY <1>c, <2>2 DEF Exchange
  <2> QED BY <2>1, <2>2, <2>3 DEF Aborted, ReadReset
<1>2. ASSUME NEW h \in Goroutines, Handler(h) PROVE FALSE
  <2>0. ~ (WriteAnswerUDP(h) \/ WriteAnswerMc(h) \/ CloseConnUDP(h) \/ CloseConnMc(h))
    BY <1>c DEF NoDatagrams, WriteAnswerUDP, WriteAnswerMc, CloseConnUDP, CloseConnMc, Dgram
  <2>1. \/ LookupChannel(h) \/ HandleMsmtStopReq(h) \/ HandleMsmtInfoReq(h)
        \/ ReceiveReply(h) \/ WriteAnswerTCP(h) \/ CloseConnTCP(h)
    BY <1>2, <2>0 DEF Handler, ConstructInfoReply, CheckInited, MakeStorage, StartModule,
                      InsertEntry, StoreChannel, EncodeType, ClearType
  <2>2. pc[h] \in HandlerPc
    BY <2>1 DEF LookupChannel, HandleMsmtStopReq, HandleMsmtInfoReq, ReceiveReply,
                WriteAnswerTCP, CloseConnTCP, HandlerPc
  <2>3. /\ req[h] \in Request /\ Holds(req[h]) /\ conn[via[h]] = "open"
        /\ req[h].from \in Clients /\ ServingAt(h)
        /\ pc[h] \in {"lookup", "mgmt"} => Pending(req[h])
    BY <2>2, Handling
  <2>4. pc[h] \in {"lookup", "mgmt"} => Known(req[h].from, req[h].mid)
    BY <2>3, HeldKnown DEF MsmtInv, Routed
  <2>5. CASE LookupChannel(h)
    BY <2>3, <2>4, <2>5, ControlAssumption DEF LookupChannel, Known
  <2>6. CASE HandleMsmtStopReq(h)
    BY <2>3, <2>4, <2>6 DEF HandleMsmtStopReq, ModuleReplies, Known, Pending
  <2>7. CASE HandleMsmtInfoReq(h)
    BY <2>3, <2>4, <2>7 DEF HandleMsmtInfoReq, ModuleReplies, Known
  <2>8. CASE ReceiveReply(h)
    <3>1. recvCh[ch[h]] = <<req[h].kind>>
      BY <2>3, <2>8 DEF ReceiveReply, ServingAt
    <3>2. Head(recvCh[ch[h]]) = req[h].kind
      BY <3>1
    <3> QED BY <2>8, <3>2 DEF ReceiveReply
  <2>9. CASE WriteAnswerTCP(h)
    <3>1. pc[h] = "write" /\ Reset(via[h])
      BY <2>3, <2>9 DEF WriteAnswerTCP, Deliver
    <3> QED BY <1>c, <2>2, <3>1 DEF Reset, Requests, Awaiting
  <2>10. CASE CloseConnTCP(h)
    BY <2>3, <2>10 DEF CloseConnTCP, BecomeAcceptor
  <2> QED BY <2>1, <2>5, <2>6, <2>7, <2>8, <2>9, <2>10
<1>3. ~ Dispatch /\ \A u \in Dgram : ~ DgramReader(u)
  BY DEF Dispatch, DgramReader, ReadFromUDP, SetCltAddr, SendDgram
<1>4. ~ ParseTorn
  BY <1>c DEF ParseTorn, NoDatagrams
<1>5. ~ ConcurrentMapAccess
  <2> SUFFICES ASSUME NEW h \in Goroutines, NEW i \in Goroutines, h # i,
                      pc[h] \in {"insert", "store"},
                      pc[i] \in {"insert", "mgmt", "store", "lookup"}
               PROVE  FALSE
    BY DEF ConcurrentMapAccess, StorageAccess, ChannelAccess
  <2>1. pc[h] \in HandlerPc
    BY DEF HandlerPc
  <2> QED BY <2>1, Handling
<1> QED BY <1>1, <1>2, <1>3, <1>4, <1>5 DEF ServerNext

\* The end of the server changes nothing else.
LEMMA ExitMsmt ==
  ASSUME MsmtInv, Exit, UNCHANGED clientVars, Aborted # {}
  PROVE  MsmtInv'
<1>1. UNCHANGED <<pc, readerVars, handlerVars, shared, msmt, netVars, clientVars>>
  BY DEF Exit
<1>2. /\ UNCHANGED <<pc, buf, disp, req, via, ch, obj, json, recvChStorage, mapInited>>
      /\ UNCHANGED <<msmtStorage, owner, closed, recvCh, inbox, out, conn>>
      /\ UNCHANGED <<cpc, phase, mid>>
  BY <1>1 DEF readerVars, handlerVars, shared, msmt, netVars, clientVars
<1>3. Routed' /\ Told' /\ Managed' /\ Served' /\ OneMeasurementPerClient'
  BY <1>2 DEF MsmtInv, Routed, Told, RecvChIndexedByMsmtId, Known, Managed, Holds, Served,
              PastStart, PastStop, OneMeasurementPerClient
<1>4. Arrived'
  BY <1>2 DEF MsmtInv, Arrived, Holds, Asked, Pending, PastStart, PastStop
<1>5. Serving'
  BY <1>2 DEF MsmtInv, Serving, ServingAt, Known, RepliesAwaited
<1>6. ServerSurvives'
  BY <1>2 DEF ServerSurvives, Aborted
<1> QED BY <1>3, <1>4, <1>5, <1>6 DEF MsmtInv

\* What is known of a measurement stays known, when the maps only grow.
LEMMA KnownKept ==
  ASSUME TypeInv, NEW c \in Clients, NEW m, Known(c, m),
         \A n \in MsmtIds : owner[n] # None => owner'[n] = owner[n],
         \A n \in MsmtIds : recvChStorage[n] = n => recvChStorage'[n] = n,
         msmtStorage \subseteq msmtStorage'
  PROVE  Known(c, m)'
BY ControlAssumption DEF Known

\* A step of a handler that leaves the clients alone, has not removed anything
\* from the maps and goes on with its request.
LEMMA HandlerMsmt ==
  ASSUME TypeInv, TcpInv, MsmtInv, ServerNext, up', UNCHANGED clientVars,
         NEW h \in Goroutines, pc[h] \in HandlerPc,
         NEW l \in HandlerPc, pc' = [pc EXCEPT ![h] = l],
         UNCHANGED <<out, conn, disp, buf, req, via>>,
         \A n \in MsmtIds : owner[n] # None => owner'[n] = owner[n],
         \A n \in MsmtIds : recvChStorage[n] = n => recvChStorage'[n] = n,
         msmtStorage \subseteq msmtStorage',
         \A c \in Clients : \A i \in DOMAIN inbox'[c] :
           \/ i \in DOMAIN inbox[c] /\ inbox'[c][i] = inbox[c][i]
           \/ inbox'[c][i].type = "START" => Known(c, inbox[c][i].mid)',
         RecvChIndexedByMsmtId', msmtStorage' # {} => mapInited',
         Served', OneMeasurementPerClient',
         l \in {"check", "make", "run", "lookup", "mgmt"} => Pending(req[h])',
         ServingAt(h)', RepliesAwaited'
  PROVE  MsmtInv'
<1>1. /\ disp = None /\ \A x \in Goroutines : x # h => pc[x] \in {"idle", "reread"}
      /\ Holds(req[h]) /\ Asked(req[h]) /\ conn[via[h]] = "open"
  BY Handling
<1>2. /\ pc'[h] = l
      /\ \A x \in Goroutines : x # h => pc'[x] \in {"idle", "reread"}
  BY <1>1 DEF TypeInv, TypeOK, ServerTypeOK
<1>3. UNCHANGED <<cpc, phase, mid, infos>>
  BY DEF clientVars
<1>4. Routed'
  BY RoutedStep DEF MsmtInv
<1>5. Told'
  <2>1. \A c \in Clients : \A m : Known(c, m) => Known(c, m)'
    BY KnownKept
  <2>2. \A c \in Clients : mid'[c] # None => Known(c, mid[c])'
    BY <1>3, <2>1 DEF MsmtInv, Told, Known
  <2>3. \A c \in Clients : \A i \in DOMAIN inbox'[c] :
          inbox'[c][i].type = "START" => Known(c, inbox[c][i].mid)'
    <3>1. SUFFICES ASSUME NEW c \in Clients, NEW i \in DOMAIN inbox'[c],
                          inbox'[c][i].type = "START",
                          i \in DOMAIN inbox[c], inbox'[c][i] = inbox[c][i]
                   PROVE  Known(c, inbox[c][i].mid)'
      OBVIOUS
    <3>2. Known(c, inbox[c][i].mid)
      BY <3>1 DEF MsmtInv, Told
    <3> QED BY <2>1, <3>1, <3>2 DEF Known
  <2> QED BY <2>2, <2>3 DEF Told
<1>6. Managed'
  BY <1>3 DEF MsmtInv, Managed, Holds
<1>7. Arrived'
  <2>1. \A g \in Goroutines : pc'[g] # "send" /\ disp' # g
    BY <1>1, <1>2, ControlAssumption DEF HandlerPc
  <2>2. Holds(req[h])' /\ Asked(req[h])'
    BY <1>1, <1>3 DEF Holds, Asked, PastStart, PastStop
  <2>3. \A x \in Goroutines : pc'[x] \in HandlerPc => x = h
    BY <1>2 DEF HandlerPc
  <2>4. \A x \in Goroutines : pc'[x] \in {"check", "make", "run", "lookup", "mgmt"} => x = h
    BY <1>2
  <2> QED BY <1>1, <1>2, <2>1, <2>2, <2>3, <2>4 DEF Arrived, Holds, Asked, Pending, PastStart, PastStop
<1>8. Serving'
  <2>1. \A x \in Goroutines : x # h => ServingAt(x)'
    BY <1>2 DEF ServingAt
  <2> QED BY <2>1 DEF Serving
<1>9. ServerSurvives'
  BY DEF ServerSurvives
<1> QED BY <1>4, <1>5, <1>6, <1>7, <1>8, <1>9 DEF MsmtInv

\* No channel holds a reply while a handler is on its way to a module.
LEMMA ChannelsEmpty ==
  ASSUME TypeInv, TcpInv, MsmtInv, NEW h \in Goroutines,
         pc[h] \in HandlerPc \ {"insert", "recv"}
  PROVE  \A m \in MsmtIds : recvCh[m] = <<>>
<1>1. \A x \in Goroutines : pc[x] \notin {"insert", "recv"}
  BY Handling
<1> QED BY <1>1 DEF MsmtInv, Serving, RepliesAwaited

\* Steps before the module is called.
LEMMA LeadMsmt ==
  ASSUME TypeInv, TcpInv, MsmtInv, ServerNext, up', UNCHANGED clientVars,
         NEW h \in Goroutines,
         ConstructInfoReply(h) \/ CheckInited(h) \/ MakeStorage(h) \/ LookupChannel(h)
  PROVE  MsmtInv'
<1>1. ~Exit
  BY DEF Exit
<1>2. /\ UNCHANGED <<inbox, out, conn, disp, buf, req, via, owner, closed, recvCh>>
      /\ UNCHANGED <<recvChStorage, cpc, phase>>
  BY <1>1 DEF ConstructInfoReply, CheckInited, MakeStorage, LookupChannel, msmt, shared,
              readerVars, handlerVars, netVars, clientVars
<1>3. pc[h] \in {"info", "check", "make", "lookup"}
  BY DEF ConstructInfoReply, CheckInited, MakeStorage, LookupChannel
<1>4. pc[h] \in HandlerPc \ {"insert", "recv"}
  BY <1>3 DEF HandlerPc
<1>5. /\ req[h] \in Request /\ Holds(req[h]) /\ ServingAt(h)
      /\ pc[h] \in {"check", "make", "run", "lookup", "mgmt"} => Pending(req[h])
  BY <1>4, Handling
<1>6. pc \in [Goroutines -> {"idle"} \cup ReaderPc \cup HandlerPc]
      /\ ch \in [Goroutines -> MsmtIds \cup {None}]
  BY DEF TypeInv, TypeOK, ServerTypeOK
<1>7. Served' /\ OneMeasurementPerClient' /\ RecvChIndexedByMsmtId'
  BY <1>2 DEF MsmtInv, Told, Served, PastStart, PastStop, OneMeasurementPerClient,
              RecvChIndexedByMsmtId
<1>8. RepliesAwaited'
  BY <1>2, <1>4, ChannelsEmpty DEF RepliesAwaited
<1>9. Pending(req[h]) => Pending(req[h])'
  BY <1>2 DEF Pending
<1>10. PICK l \in {"conv", "make", "run", "mgmt"} :
         /\ pc' = [pc EXCEPT ![h] = l]
         /\ l = "conv" => pc[h] = "info"
         /\ l = "make" => pc[h] = "check" /\ ~mapInited /\ mapInited' = mapInited
         /\ l = "run" => pc[h] \in {"check", "make"} /\ mapInited'
         /\ l = "mgmt" => pc[h] = "lookup" /\ ch' = [ch EXCEPT ![h] = recvChStorage[req[h].mid]]
                          /\ recvChStorage[req[h].mid] # None
  <2>1. ConstructInfoReply(h) => pc' = [pc EXCEPT ![h] = "conv"] /\ pc[h] = "info"
    BY DEF ConstructInfoReply, Goto
  <2>2. CheckInited(h) => /\ pc' = [pc EXCEPT ![h] = IF mapInited THEN "run" ELSE "make"]
                          /\ pc[h] = "check" /\ mapInited' = mapInited
    BY DEF CheckInited, Goto, shared
  <2>3. MakeStorage(h) => pc' = [pc EXCEPT ![h] = "run"] /\ pc[h] = "make" /\ mapInited'
    BY DEF MakeStorage, Goto
  <2>4. LookupChannel(h) => /\ pc' = [pc EXCEPT ![h] = "mgmt"] /\ pc[h] = "lookup"
                            /\ ch' = [ch EXCEPT ![h] = recvChStorage[req[h].mid]]
                            /\ recvChStorage[req[h].mid] # None
    BY <1>1 DEF LookupChannel, Goto
  <2>5. CASE CheckInited(h) /\ mapInited
    BY <2>2, <2>5
  <2>6. CASE CheckInited(h) /\ ~mapInited
    BY <2>2, <2>6
  <2> QED BY <2>1, <2>3, <2>4, <2>5, <2>6
<1>11. msmtStorage' = msmtStorage /\ (msmtStorage' # {} => mapInited')
  <2>1. CASE MakeStorage(h)
    BY <1>5, <2>1 DEF MakeStorage, MsmtInv, Told, ServingAt
  <2>2. CASE ~MakeStorage(h)
    BY <1>1, <2>2 DEF ConstructInfoReply, CheckInited, LookupChannel, shared, MsmtInv, Told
  <2> QED BY <2>1, <2>2
<1>12. ServingAt(h)'
  <2>1. pc'[h] = l /\ req'[h] = req[h]
    BY <1>2, <1>6, <1>10
  <2>2. CASE l = "conv"
    BY <1>10, <2>1, <2>2 DEF ServingAt, MsmtInv, Routed
  <2>3. CASE l \in {"make", "run"}
    BY <1>10, <2>1, <2>3 DEF ServingAt
  <2>4. CASE l = "mgmt"
    <3>1. req[h].kind \in {"STOP", "MSMT_INFO"}
      BY <1>10, <2>4 DEF MsmtInv, Routed
    <3>2. Known(req[h].from, req[h].mid)
      BY <1>5, <3>1, HeldKnown
    <3>3. ch'[h] = req[h].mid
      BY <1>6, <1>10, <2>4, <3>2 DEF Known
    <3> QED BY <2>1, <2>4, <3>3 DEF ServingAt
  <2> QED BY <2>2, <2>3, <2>4
<1>13. l \in HandlerPc /\ (l \in {"make", "run", "mgmt"} => pc[h] \in {"check", "make", "lookup"})
  BY <1>10 DEF HandlerPc
<1>14. \A c \in Clients : \A i \in DOMAIN inbox'[c] :
         i \in DOMAIN inbox[c] /\ inbox'[c][i] = inbox[c][i]
  BY <1>2
<1>15. l \in {"check", "make", "run", "lookup", "mgmt"} => Pending(req[h])'
  BY <1>5, <1>9, <1>10, <1>13
<1> HIDE DEF Pending
<1> QED BY <1>2, <1>4, <1>7, <1>8, <1>10, <1>11, <1>12, <1>13, <1>14, <1>15, HandlerMsmt

\* A new measurement belongs to a client that had none.
LEMMA StartMsmt ==
  ASSUME TypeInv, TcpInv, MsmtInv, ServerNext, up', UNCHANGED clientVars,
         NEW h \in Goroutines, StartModule(h)
  PROVE  MsmtInv'
<1>1. PICK m \in MsmtIds :
        /\ pc[h] = "run" /\ pc' = [pc EXCEPT ![h] = "insert"]
        /\ owner[m] = None
        /\ owner' = [owner EXCEPT ![m] = req[h].from]
        /\ recvCh' = [recvCh EXCEPT ![m] = Append(@, "START")]
        /\ ch' = [ch EXCEPT ![h] = m]
  BY DEF StartModule, Goto
<1>2. /\ UNCHANGED <<inbox, out, conn, disp, buf, req, via, closed>>
      /\ UNCHANGED <<recvChStorage, msmtStorage, mapInited, cpc, phase>>
  BY DEF StartModule, readerVars, shared, netVars, clientVars
<1>3. pc[h] \in HandlerPc \ {"insert", "recv"} /\ "insert" \in HandlerPc
  BY <1>1 DEF HandlerPc
<1>4. /\ req[h].from \in Clients /\ req[h].kind = "START"
      /\ PastStart(req[h].from) /\ mapInited
      /\ \A n \in MsmtIds : owner[n] # req[h].from
  BY <1>1, <1>3, Handling DEF MsmtInv, Routed, Asked, Pending, ServingAt
<1>5. /\ owner \in [MsmtIds -> Clients \cup {None}]
      /\ recvCh \in [MsmtIds -> Seq(Kinds)]
      /\ ch \in [Goroutines -> MsmtIds \cup {None}]
      /\ pc \in [Goroutines -> {"idle"} \cup ReaderPc \cup HandlerPc]
      /\ closed \subseteq MsmtIds
  BY DEF TypeInv, TypeOK, ServerTypeOK
<1>6. owner'[m] = req[h].from /\ \A n \in MsmtIds : n # m => owner'[n] = owner[n]
  BY <1>1, <1>5
<1>7. /\ recvCh'[m] = <<"START">>
      /\ \A n \in MsmtIds : n # m => recvCh'[n] = <<>>
  <2>1. \A n \in MsmtIds : recvCh[n] = <<>>
    BY <1>3, ChannelsEmpty
  <2>2. Append(<<>>, "START") = <<"START">>
    OBVIOUS
  <2> QED BY <1>1, <1>5, <2>1, <2>2
<1>8. pc'[h] = "insert" /\ ch'[h] = m /\ req'[h] = req[h]
  BY <1>1, <1>2, <1>5
<1>9. Served'
  <2>1. m \notin closed
    BY <1>1 DEF MsmtInv, Served
  <2>2. \A c : PastStart(c)' = PastStart(c) /\ PastStop(c)' = PastStop(c)
    BY <1>2 DEF PastStart, PastStop
  <2>3. ASSUME NEW n \in MsmtIds, owner'[n] # None
        PROVE  PastStart(owner[n])' /\ (n \in closed' => PastStop(owner[n])')
    <3>1. CASE n = m
      BY <1>2, <1>4, <1>6, <2>1, <2>2, <3>1 DEF PastStart, PastStop
    <3>2. CASE n # m
      <4>1. owner'[n] = owner[n] /\ PastStart(owner[n]) /\ (n \in closed => PastStop(owner[n]))
        BY <1>6, <2>3, <3>2 DEF MsmtInv, Served
      <4> QED BY <1>2, <4>1 DEF PastStart, PastStop
    <3> QED BY <3>1, <3>2
  <2>4. \A n \in closed' : owner'[n] # None
    BY <1>2, <1>5, <1>6, <2>1 DEF MsmtInv, Served
  <2> QED BY <2>3, <2>4 DEF Served
<1>10. OneMeasurementPerClient'
  BY <1>4, <1>6, ControlAssumption DEF MsmtInv, OneMeasurementPerClient
<1>11. ServingAt(h)' /\ RepliesAwaited'
  BY <1>2, <1>4, <1>6, <1>7, <1>8 DEF ServingAt, RepliesAwaited
<1>12. RecvChIndexedByMsmtId' /\ (msmtStorage' # {} => mapInited')
  BY <1>2 DEF MsmtInv, Told, RecvChIndexedByMsmtId
<1>13. \A c \in Clients : \A i \in DOMAIN inbox'[c] :
         i \in DOMAIN inbox[c] /\ inbox'[c][i] = inbox[c][i]
  BY <1>2
<1>14. \A n \in MsmtIds : owner[n] # None => owner'[n] = owner[n]
  BY <1>1, <1>6
<1> QED BY <1>1, <1>2, <1>3, <1>9, <1>10, <1>11, <1>12, <1>13, <1>14, HandlerMsmt

\* Its entry is made before its answer is built.
LEMMA InsertMsmt ==
  ASSUME TypeInv, TcpInv, MsmtInv, ServerNext, up', UNCHANGED clientVars,
         NEW h \in Goroutines, InsertEntry(h)
  PROVE  MsmtInv'
<1>1. /\ pc[h] = "insert" /\ pc' = [pc EXCEPT ![h] = "recv"]
      /\ msmtStorage' = msmtStorage \cup {ch[h]}
      /\ UNCHANGED <<inbox, out, conn, disp, buf, req, via, closed, owner, recvCh, ch>>
      /\ UNCHANGED <<recvChStorage, mapInited, cpc, phase>>
  BY DEF InsertEntry, Goto, readerVars, handlerVars, msmt, netVars, clientVars
<1>2. pc[h] \in HandlerPc /\ "recv" \in HandlerPc
  BY <1>1 DEF HandlerPc
<1>3. ServingAt(h) /\ req[h].kind = "START"
  BY <1>1, <1>2, Handling DEF MsmtInv, Routed
<1>4. pc'[h] = "recv" /\ \A x \in Goroutines : x # h => pc'[x] = pc[x]
  BY <1>1 DEF TypeInv, TypeOK, ServerTypeOK
<1>5. ServingAt(h)'
  BY <1>1, <1>3, <1>4 DEF ServingAt
<1>6. RepliesAwaited'
  <2>1. SUFFICES ASSUME NEW m \in MsmtIds, recvCh[m] # <<>>
                 PROVE  \E x \in Goroutines : pc'[x] \in {"insert", "recv"} /\ ch'[x] = m
    BY <1>1 DEF RepliesAwaited
  <2>2. PICK x \in Goroutines : pc[x] \in {"insert", "recv"} /\ ch[x] = m
    BY <2>1 DEF MsmtInv, Serving, RepliesAwaited
  <2>3. pc'[x] \in {"insert", "recv"}
    BY <1>4, <2>2
  <2> QED BY <1>1, <2>2, <2>3
<1>7. Served' /\ OneMeasurementPerClient' /\ RecvChIndexedByMsmtId' /\ mapInited'
  BY <1>1, <1>3 DEF MsmtInv, Told, Served, PastStart, PastStop, OneMeasurementPerClient,
              RecvChIndexedByMsmtId, ServingAt
<1>8. \A c \in Clients : \A i \in DOMAIN inbox'[c] :
        i \in DOMAIN inbox[c] /\ inbox'[c][i] = inbox[c][i]
  BY <1>1
<1> QED BY <1>1, <1>2, <1>5, <1>6, <1>7, <1>8, HandlerMsmt

\* A stop closes the measurement of the client that asks for it.
LEMMA ManageMsmt ==
  ASSUME TypeInv, TcpInv, MsmtInv, ServerNext, up', UNCHANGED clientVars,
         NEW h \in Goroutines, HandleMsmtStopReq(h) \/ HandleMsmtInfoReq(h)
  PROVE  MsmtInv'
<1> DEFINE m == req[h].mid
<1>1. /\ pc[h] = "mgmt" /\ pc' = [pc EXCEPT ![h] = "recv"]
      /\ recvCh' = [recvCh EXCEPT ![m] = Append(@, req[h].kind)]
      /\ UNCHANGED <<inbox, out, conn, disp, buf, req, via, owner, ch>>
      /\ UNCHANGED <<recvChStorage, mapInited, msmtStorage, cpc, phase>>
      /\ \/ closed' = closed
         \/ req[h].kind = "STOP" /\ closed' = closed \cup {m}
  BY DEF HandleMsmtStopReq, HandleMsmtInfoReq, ModuleReplies, Exit, Goto, readerVars,
         handlerVars, shared, netVars, clientVars
<1>2. pc[h] \in HandlerPc \ {"insert", "recv"} /\ "recv" \in HandlerPc
  BY <1>1 DEF HandlerPc
<1>3. /\ req[h] \in Request /\ Holds(req[h]) /\ Asked(req[h]) /\ ServingAt(h)
      /\ req[h].from \in Clients
  BY <1>1, <1>2, Handling
<1>4. req[h].kind \in {"STOP", "MSMT_INFO"}
  BY <1>1 DEF MsmtInv, Routed
<1>5. Known(req[h].from, m)
  BY <1>3, <1>4, HeldKnown
<1>6. /\ recvCh'[m] = <<req[h].kind>>
      /\ \A n \in MsmtIds : n # m => recvCh'[n] = <<>>
  <2>1. \A n \in MsmtIds : recvCh[n] = <<>>
    BY <1>2, ChannelsEmpty
  <2>2. Append(<<>>, req[h].kind) = <<req[h].kind>>
    OBVIOUS
  <2>3. m \in MsmtIds /\ recvCh \in [MsmtIds -> Seq(Kinds)]
    BY <1>5 DEF Known, TypeInv, TypeOK, ServerTypeOK
  <2> QED BY <1>1, <2>1, <2>2, <2>3
<1>7. pc'[h] = "recv"
  BY <1>1 DEF TypeInv, TypeOK, ServerTypeOK
<1>8. ch[h] = m
  BY <1>1, <1>3, <1>4 DEF ServingAt
<1>9. ServingAt(h)'
  BY <1>1, <1>4, <1>6, <1>7, <1>8 DEF ServingAt
<1>10. RepliesAwaited'
  BY <1>1, <1>6, <1>7, <1>8 DEF RepliesAwaited
<1>11. Served'
  <2>1. req[h].kind = "STOP" => PastStop(owner[m]) /\ owner[m] # None
    BY <1>3, <1>5, ControlAssumption DEF Asked, Known
  <2>2. \A n \in closed' : n \in closed \/ (n = m /\ req[h].kind = "STOP")
    BY <1>1
  <2> QED BY <1>1, <2>1, <2>2 DEF MsmtInv, Served, PastStart, PastStop
<1>12. OneMeasurementPerClient' /\ RecvChIndexedByMsmtId' /\ (msmtStorage' # {} => mapInited')
  BY <1>1 DEF MsmtInv, Told, OneMeasurementPerClient, RecvChIndexedByMsmtId
<1>13. \A c \in Clients : \A i \in DOMAIN inbox'[c] :
         i \in DOMAIN inbox[c] /\ inbox'[c][i] = inbox[c][i]
  BY <1>1
<1> QED BY <1>1, <1>2, <1>9, <1>10, <1>11, <1>12, <1>13, HandlerMsmt

\* The answer names the measurement of the handler's channel.
LEMMA ReceiveMsmt ==
  ASSUME TypeInv, TcpInv, MsmtInv, ServerNext, up', UNCHANGED clientVars,
         NEW h \in Goroutines, ReceiveReply(h)
  PROVE  MsmtInv'
<1> DEFINE l == IF req[h].kind = "START" THEN "store" ELSE "conv"
<1>1. /\ pc[h] = "recv" /\ pc' = [pc EXCEPT ![h] = l]
      /\ recvCh' = [recvCh EXCEPT ![ch[h]] = Tail(@)]
      /\ obj'[h] = Reply(h, IF req[h].kind = "MSMT_INFO" THEN req[h].mid ELSE ch[h])
      /\ UNCHANGED <<inbox, out, conn, disp, buf, req, via, owner, closed, ch>>
      /\ UNCHANGED <<recvChStorage, mapInited, msmtStorage, cpc, phase>>
  BY DEF ReceiveReply, Exit, Assign, Goto, readerVars, netVars, clientVars
<1>2. pc[h] \in HandlerPc /\ l \in HandlerPc
  BY <1>1 DEF HandlerPc
<1>3. ServingAt(h) /\ \A x \in Goroutines : x # h => pc[x] \in {"idle", "reread"}
  BY <1>2, Handling
<1>4. ch[h] \in MsmtIds /\ recvCh \in [MsmtIds -> Seq(Kinds)]
  BY <1>1 DEF TypeInv, TypeOK, ServerTypeOK, Initialised
<1>5. pc'[h] = l
  BY <1>1 DEF TypeInv, TypeOK, ServerTypeOK
<1>6. \A m \in MsmtIds : recvCh'[m] = <<>>
  <2>1. recvCh[ch[h]] = <<req[h].kind>>
    BY <1>1, <1>3 DEF ServingAt
  <2>2. Tail(<<req[h].kind>>) = <<>>
    OBVIOUS
  <2>3. \A m \in MsmtIds : m # ch[h] => recvCh[m] = <<>>
    BY <1>3 DEF MsmtInv, Serving, RepliesAwaited
  <2> QED BY <1>1, <1>4, <2>1, <2>2, <2>3
<1>7. ServingAt(h)'
  <2>1. req[h].kind = "START" => obj'[h].mid = ch[h]
    BY <1>1 DEF Reply
  <2> QED BY <1>1, <1>3, <1>5, <2>1 DEF ServingAt
<1>8. RepliesAwaited'
  BY <1>6 DEF RepliesAwaited
<1>9. /\ Served' /\ OneMeasurementPerClient' /\ RecvChIndexedByMsmtId'
      /\ msmtStorage' # {} => mapInited'
  BY <1>1 DEF MsmtInv, Told, Served, PastStart, PastStop, OneMeasurementPerClient,
              RecvChIndexedByMsmtId
<1>10. \A c \in Clients : \A i \in DOMAIN inbox'[c] :
         i \in DOMAIN inbox[c] /\ inbox'[c][i] = inbox[c][i]
  BY <1>1
<1>11. l \notin {"check", "make", "run", "lookup", "mgmt"}
  OBVIOUS
<1> HIDE DEF l
<1> QED BY <1>1, <1>2, <1>7, <1>8, <1>9, <1>10, <1>11, HandlerMsmt

\* The channel is stored under the id that the client is about to be told.
LEMMA StoreMsmt ==
  ASSUME TypeInv, TcpInv, MsmtInv, ServerNext, up', UNCHANGED clientVars,
         NEW h \in Goroutines, StoreChannel(h)
  PROVE  MsmtInv'
<1>1. /\ up /\ pc[h] = "store" /\ pc' = [pc EXCEPT ![h] = "conv"]
      /\ recvChStorage' = [recvChStorage EXCEPT ![obj[repDataObj].mid] = ch[h]]
      /\ UNCHANGED <<inbox, out, conn, disp, buf, req, via, owner, closed, recvCh, ch, obj>>
      /\ UNCHANGED <<mapInited, msmtStorage, cpc, phase>>
  BY DEF StoreChannel, Goto, readerVars, handlerVars, msmt, netVars, clientVars
<1>2. pc[h] \in HandlerPc \ {"insert", "recv"} /\ "conv" \in HandlerPc
  BY <1>1 DEF HandlerPc
<1>3. repDataObj = h
  BY <1>1 DEF TcpInv, Answers
<1>4. owner[ch[h]] = req[h].from /\ ch[h] \in msmtStorage /\ obj[h].mid = ch[h]
  BY <1>1, <1>2, Handling DEF ServingAt
<1>5. /\ msmtStorage \subseteq MsmtIds
      /\ recvChStorage \in [MsmtIds \cup {None} -> MsmtIds \cup {None}]
  BY DEF TypeInv, TypeOK, ServerTypeOK
<1>6. /\ recvChStorage'[ch[h]] = ch[h]
      /\ \A n \in MsmtIds \cup {None} : n # ch[h] => recvChStorage'[n] = recvChStorage[n]
  BY <1>1, <1>3, <1>4, <1>5
<1>7. pc'[h] = "conv"
  BY <1>1 DEF TypeInv, TypeOK, ServerTypeOK
<1>8. ServingAt(h)'
  BY <1>1, <1>4, <1>5, <1>6, <1>7 DEF ServingAt, Known
<1>9. RepliesAwaited'
  BY <1>1, <1>2, ChannelsEmpty DEF RepliesAwaited
<1>10. /\ Served' /\ OneMeasurementPerClient' /\ RecvChIndexedByMsmtId'
       /\ msmtStorage' # {} => mapInited'
  BY <1>1, <1>6 DEF MsmtInv, Told, Served, PastStart, PastStop, OneMeasurementPerClient,
                    RecvChIndexedByMsmtId
<1>11. \A c \in Clients : \A i \in DOMAIN inbox'[c] :
         i \in DOMAIN inbox[c] /\ inbox'[c][i] = inbox[c][i]
  BY <1>1
<1>12. \A n \in MsmtIds : recvChStorage[n] = n => recvChStorage'[n] = n
  BY <1>6
<1> QED BY <1>1, <1>2, <1>8, <1>9, <1>10, <1>11, <1>12, HandlerMsmt

\* Encoding copies the answer.
LEMMA EncodeMsmt ==
  ASSUME TypeInv, TcpInv, MsmtInv, ServerNext, up', UNCHANGED clientVars,
         NEW h \in Goroutines, EncodeType(h) \/ ClearType(h)
  PROVE  MsmtInv'
<1>1. /\ UNCHANGED <<inbox, out, conn, disp, buf, req, via, owner, closed, recvCh, ch>>
      /\ UNCHANGED <<recvChStorage, mapInited, msmtStorage, cpc, phase>>
  BY DEF EncodeType, ClearType, readerVars, shared, msmt, netVars, clientVars
<1>2. up /\ pc[h] \in {"conv", "marshal"}
  BY DEF EncodeType, ClearType
<1>3. pc[h] \in HandlerPc \ {"insert", "recv"} /\ {"marshal", "write"} \subseteq HandlerPc
  BY <1>2 DEF HandlerPc
<1>4. ServingAt(h)
  BY <1>3, Handling
<1>5. PICK l \in {"marshal", "write"} :
        /\ pc' = [pc EXCEPT ![h] = l]
        /\ req[h].kind = "START" => Known(req[h].from, json'[h].mid)
  <2>1. CASE EncodeType(h)
    <3>1. /\ pc[h] = "conv" /\ pc' = [pc EXCEPT ![h] = "marshal"]
          /\ json' = [json EXCEPT ![h] = obj[repDataObj]]
      BY <2>1 DEF EncodeType, Goto
    <3>2. json'[h] = obj[h]
      BY <1>2, <3>1 DEF TcpInv, Answers, TypeInv, TypeOK, ServerTypeOK
    <3> QED BY <1>4, <3>1, <3>2 DEF ServingAt
  <2>2. CASE ClearType(h)
    BY <1>4, <2>2 DEF ClearType, Goto, ServingAt
  <2> QED BY <2>1, <2>2
<1>6. pc'[h] = l
  BY <1>5 DEF TypeInv, TypeOK, ServerTypeOK
<1>7. ServingAt(h)'
  BY <1>1, <1>5, <1>6 DEF ServingAt, Known
<1>8. RepliesAwaited'
  BY <1>1, <1>3, ChannelsEmpty DEF RepliesAwaited
<1>9. /\ Served' /\ OneMeasurementPerClient' /\ RecvChIndexedByMsmtId'
      /\ msmtStorage' # {} => mapInited'
  BY <1>1 DEF MsmtInv, Told, Served, PastStart, PastStop, OneMeasurementPerClient,
              RecvChIndexedByMsmtId
<1>10. \A c \in Clients : \A i \in DOMAIN inbox'[c] :
         i \in DOMAIN inbox[c] /\ inbox'[c][i] = inbox[c][i]
  BY <1>1
<1>11. l \in HandlerPc /\ l \notin {"check", "make", "run", "lookup", "mgmt"}
  BY <1>3
<1> QED BY <1>1, <1>3, <1>5, <1>7, <1>8, <1>9, <1>10, <1>11, HandlerMsmt

\* The answer reaches the client that asked, and names what the server knows.
LEMMA WriteMsmt ==
  ASSUME TypeInv, TcpInv, MsmtInv, ServerNext, up', UNCHANGED clientVars,
         NEW h \in Goroutines, WriteAnswerTCP(h)
  PROVE  MsmtInv'
<1> DEFINE Receivers == {c \in Clients : link[c] = via[h] /\ sock[c] = "tcp"}
<1>1. /\ up /\ pc[h] = "write" /\ Deliver(h, Receivers)
  BY DEF WriteAnswerTCP, Exit
<1>2. /\ inbox' = [c \in Clients |-> IF c \in Receivers THEN Append(inbox[c], json[h])
                                     ELSE inbox[c]]
      /\ pc' = [pc EXCEPT ![h] = "close"]
      /\ UNCHANGED <<out, conn, disp, buf, req, via, owner, closed, recvCh, ch>>
      /\ UNCHANGED <<recvChStorage, mapInited, msmtStorage, cpc, phase>>
  BY <1>1 DEF Deliver, Goto, readerVars, handlerVars, shared, msmt, clientVars
<1>3. pc[h] \in HandlerPc \ {"insert", "recv"} /\ "close" \in HandlerPc
  BY <1>1 DEF HandlerPc
<1>4. ServingAt(h)
  BY <1>3, Handling
<1>5. ASSUME NEW c \in Receivers, json[h].type = "START"
      PROVE  Known(c, json[h].mid)
  <2>1. req[h].from = c
    BY <1>1, <1>3 DEF TcpInv, Requests
  <2>2. json[h].type = req[h].kind
    BY <1>1 DEF TcpInv, Answers
  <2> QED BY <1>1, <1>4, <1>5, <2>1, <2>2 DEF ServingAt
<1>6. \A c \in Clients : \A i \in DOMAIN inbox'[c] :
        \/ i \in DOMAIN inbox[c] /\ inbox'[c][i] = inbox[c][i]
        \/ inbox'[c][i].type = "START" => Known(c, inbox[c][i].mid)'
  <2>1. SUFFICES ASSUME NEW c \in Clients, NEW i \in DOMAIN inbox'[c]
                 PROVE  \/ i \in DOMAIN inbox[c] /\ inbox'[c][i] = inbox[c][i]
                        \/ inbox'[c][i].type = "START" => Known(c, inbox[c][i].mid)'
    OBVIOUS
  <2>2. CASE c \notin Receivers
    BY <1>2, <2>2
  <2>3. CASE c \in Receivers
    <3>1. inbox'[c] = Append(inbox[c], json[h]) /\ inbox[c] \in Seq(Message)
      BY <1>2, <2>3 DEF TypeInv, TypeOK, NetTypeOK
    <3>2. \/ i \in DOMAIN inbox[c] /\ inbox'[c][i] = inbox[c][i]
          \/ inbox'[c][i] = json[h]
      BY ONLY <3>1, i \in DOMAIN inbox'[c]
    <3> QED BY <1>2, <1>5, <2>3, <3>2 DEF Known
  <2> QED BY <2>2, <2>3
<1>7. ServingAt(h)'
  BY <1>2 DEF ServingAt, TypeInv, TypeOK, ServerTypeOK
<1>8. RepliesAwaited'
  BY <1>2, <1>3, ChannelsEmpty DEF RepliesAwaited
<1>9. /\ Served' /\ OneMeasurementPerClient' /\ RecvChIndexedByMsmtId'
      /\ msmtStorage' # {} => mapInited'
  BY <1>2 DEF MsmtInv, Told, Served, PastStart, PastStop, OneMeasurementPerClient,
              RecvChIndexedByMsmtId
<1> QED BY <1>2, <1>3, <1>6, <1>7, <1>8, <1>9, HandlerMsmt

\* A handler that has become an acceptor, and every other step in which no
\* request gets anywhere.
LEMMA IdleMsmt ==
  ASSUME TypeInv, MsmtInv, ServerNext, up', UNCHANGED clientVars,
         UNCHANGED <<inbox, out, disp, buf, owner, closed, recvCh, ch, recvChStorage>>,
         UNCHANGED <<mapInited, msmtStorage, obj, json>>,
         \A g \in Goroutines : pc[g] = "send" \/ disp = g => conn'[g] = conn[g],
         \A g \in Goroutines : pc'[g] \in {"send"} \cup HandlerPc =>
           /\ pc'[g] = pc[g] /\ req'[g] = req[g] /\ via'[g] = via[g]
           /\ conn'[via[g]] = conn[via[g]],
         RepliesAwaited'
  PROVE  MsmtInv'
<1>1. UNCHANGED <<cpc, phase, mid>>
  BY DEF clientVars
<1>2. Routed'
  BY RoutedStep DEF MsmtInv
<1>3. Told' /\ Managed' /\ Served' /\ OneMeasurementPerClient'
  BY <1>1 DEF MsmtInv, Told, RecvChIndexedByMsmtId, Known, Managed, Holds, Served,
              PastStart, PastStop, OneMeasurementPerClient
<1>4. Arrived'
  <2>1. \A g \in Goroutines : pc'[g] = "send" \/ disp' = g =>
          /\ pc[g] = "send" \/ disp = g
          /\ conn'[g] = conn[g]
    OBVIOUS
  <2>2. \A g \in Goroutines : pc'[g] \in HandlerPc =>
          pc[g] \in HandlerPc /\ req'[g] = req[g] /\ conn'[via'[g]] = conn[via[g]]
    OBVIOUS
  <2>3. \A g \in Goroutines : pc'[g] \in {"check", "make", "run", "lookup", "mgmt"} =>
          pc'[g] = pc[g] /\ req'[g] = req[g]
    BY DEF HandlerPc
  <2> QED BY <1>1, <2>1, <2>2, <2>3 DEF MsmtInv, Arrived, Holds, Asked, Pending, PastStart, PastStop
<1>5. ASSUME NEW x \in Goroutines PROVE ServingAt(x)'
  <2>1. ServingAt(x)
    BY DEF MsmtInv, Serving
  <2>2. CASE pc'[x] \in HandlerPc
    BY <2>1, <2>2 DEF ServingAt, Known
  <2>3. CASE pc'[x] \notin HandlerPc
    BY <2>3 DEF ServingAt, HandlerPc
  <2> QED BY <2>2, <2>3
<1>6. ServerSurvives'
  BY DEF ServerSurvives
<1> QED BY <1>2, <1>3, <1>4, <1>5, <1>6 DEF MsmtInv, Serving

LEMMA AwaitedKept ==
  ASSUME MsmtInv, UNCHANGED <<recvCh, ch>>,
         \A h \in Goroutines : pc[h] \in {"insert", "recv"} => pc'[h] = pc[h]
  PROVE  RepliesAwaited'
BY DEF MsmtInv, Serving, RepliesAwaited

LEMMA CloseMsmt ==
  ASSUME TypeInv, TcpInv, MsmtInv, ServerNext, up', UNCHANGED clientVars,
         NEW h \in Goroutines, CloseConnTCP(h)
  PROVE  MsmtInv'
<1>1. /\ pc[h] = "close" /\ pc' = [pc EXCEPT ![h] = "accept"]
      /\ ch' = [ch EXCEPT ![h] = None]
      /\ UNCHANGED <<inbox, out, disp, buf, owner, closed, recvCh, obj>>
      /\ UNCHANGED <<recvChStorage, mapInited, msmtStorage>>
  BY DEF CloseConnTCP, BecomeAcceptor, Exit, Goto, shared, msmt
<1>2. pc[h] \in HandlerPc \ {"insert", "recv"}
  BY <1>1 DEF HandlerPc
<1>3. disp = None /\ \A x \in Goroutines : x # h => pc[x] \in {"idle", "reread"}
  BY <1>2, Handling
<1>4. pc'[h] = "accept" /\ \A x \in Goroutines : x # h => pc'[x] = pc[x]
  BY <1>1 DEF TypeInv, TypeOK, ServerTypeOK
<1>5. \A x \in Goroutines : pc'[x] \notin {"send"} \cup HandlerPc /\ pc[x] # "send" /\ disp # x
  BY <1>1, <1>3, <1>4, ControlAssumption DEF HandlerPc
<1>6. UNCHANGED <<cpc, phase, mid>>
  BY DEF clientVars
<1>7. Routed'
  BY RoutedStep DEF MsmtInv
<1>8. Told' /\ Managed' /\ Served' /\ OneMeasurementPerClient'
  BY <1>1, <1>6 DEF MsmtInv, Told, RecvChIndexedByMsmtId, Known, Managed, Holds, Served,
                    PastStart, PastStop, OneMeasurementPerClient
<1>9. Arrived'
  BY <1>1, <1>3, <1>5, ControlAssumption DEF Arrived, HandlerPc
<1>10. Serving'
  <2>1. RepliesAwaited'
    BY <1>1, <1>2, ChannelsEmpty DEF RepliesAwaited
  <2>2. \A x \in Goroutines : ServingAt(x)'
    BY <1>5 DEF ServingAt, HandlerPc
  <2> QED BY <2>1, <2>2 DEF Serving
<1>11. ServerSurvives'
  BY DEF ServerSurvives
<1> QED BY <1>7, <1>8, <1>9, <1>10, <1>11 DEF MsmtInv

\* A client whose request waits to be read has not sent it before, and will not
\* send it again once it is read.
LEMMA ReadMsmt ==
  ASSUME TypeInv, TcpInv, MsmtInv, ServerNext, up', UNCHANGED clientVars,
         NEW g \in Goroutines, ReadTCP(g)
  PROVE  MsmtInv'
<1> DEFINE a == peer[g]
<1>1. /\ up /\ pc[g] \in {"read", "reread"} /\ conn[g] = "open"
      /\ link[a] = g /\ out[a] # None
      /\ buf' = [buf EXCEPT ![g] = out[a]]
      /\ out' = [out EXCEPT ![a] = None]
      /\ pc' = [pc EXCEPT ![g] = "send"]
      /\ UNCHANGED <<inbox, conn, disp, req, via, owner, closed, recvCh, ch, obj, json>>
      /\ UNCHANGED <<recvChStorage, mapInited, msmtStorage, cpc, phase, mid>>
  BY DEF ReadTCP, Goto, handlerVars, shared, msmt, clientVars
<1>2. /\ pc \in [Goroutines -> {"idle"} \cup ReaderPc \cup HandlerPc]
      /\ buf \in [Goroutines -> Request \cup {None}]
      /\ out \in [Clients -> Request \cup {None}]
      /\ a \in Clients
  BY <1>1 DEF TypeInv, TypeOK, ServerTypeOK, NetTypeOK, Initialised
<1>3. pc[g] = "read"
  BY <1>1, <1>2, ControlAssumption DEF TcpInv, Connections
<1>4. disp = None /\ \A x \in Goroutines : x # g => pc[x] \in {"idle", "reread"}
  BY <1>3, Alone DEF TcpInv
<1>5. /\ pc'[g] = "send" /\ buf'[g] = out[a]
      /\ \A x \in Goroutines : x # g => pc'[x] \in {"idle", "reread"}
  BY <1>1, <1>2, <1>4
<1>6. out'[a] = None /\ \A c \in Clients : c # a => out'[c] = out[c]
  BY <1>1, <1>2
<1>7. out[a].from = a /\ out[a].kind = phase[a] /\ cpc[a] \in {"read", "killed"}
  BY <1>1, <1>2 DEF TcpInv, Exchange, Awaiting
<1>8. \A c \in Clients : /\ PastStart(c) => PastStart(c)'
                         /\ PastStop(c) => PastStop(c)'
  BY <1>1, <1>6 DEF PastStart, PastStop
<1>9. Holds(buf[g])' /\ Asked(buf[g])' /\ Pending(buf[g])'
  <2>1. Holds(out[a])
    BY <1>1, <1>2 DEF MsmtInv, Managed
  <2>2. phase[a] = "START" => ~PastStart(a)
    BY <1>1 DEF PastStart
  <2>3. ~PastStop(a)
    BY <1>1 DEF PastStop
  <2>4. phase[a] = "START" => \A m \in MsmtIds : owner[m] # a
    BY <1>2, <2>2, ControlAssumption DEF MsmtInv, Served
  <2>5. \A m \in closed : owner[m] # a
    BY <1>2, <2>3, ControlAssumption DEF MsmtInv, Served, TypeInv, TypeOK, ServerTypeOK
  <2>6. Asked(buf[g])'
    BY <1>1, <1>5, <1>6, <1>7 DEF Asked, PastStart, PastStop
  <2>7. Holds(buf[g])'
    BY <1>1, <1>5, <2>1 DEF Holds
  <2>8. Pending(buf[g])'
    BY <1>1, <1>5, <1>7, <2>4, <2>5 DEF Pending
  <2> QED BY <2>6, <2>7, <2>8
<1>10. Arrived'
  <2>1. \A x \in Goroutines : pc'[x] = "send" \/ disp' = x => x = g
    BY <1>1, <1>4, <1>5, ControlAssumption
  <2>2. \A x \in Goroutines : pc'[x] \notin HandlerPc
    BY <1>5 DEF HandlerPc
  <2>3. conn'[g] = "open"
    BY <1>1
  <2>4. \A x \in Goroutines : pc'[x] \notin {"check", "make", "run", "lookup", "mgmt"}
    BY <2>2 DEF HandlerPc
  <2> QED BY <1>9, <2>1, <2>2, <2>3, <2>4 DEF Arrived
<1>11. Routed'
  BY RoutedStep DEF MsmtInv
<1>12. Told' /\ OneMeasurementPerClient'
  BY <1>1 DEF MsmtInv, Told, RecvChIndexedByMsmtId, Known, OneMeasurementPerClient
<1>13. Managed'
  BY <1>1, <1>6 DEF MsmtInv, Managed, Holds
<1>14. Served'
  <2>1. \A m \in MsmtIds : owner[m] # None => owner[m] \in Clients
    BY DEF TypeInv, TypeOK, ServerTypeOK
  <2>2. ASSUME NEW m \in MsmtIds, owner'[m] # None
        PROVE  PastStart(owner[m])' /\ (m \in closed' => PastStop(owner[m])')
    <3>1. owner[m] \in Clients /\ PastStart(owner[m]) /\ (m \in closed => PastStop(owner[m]))
      BY <1>1, <2>1, <2>2 DEF MsmtInv, Served
    <3> QED BY <1>1, <1>6, <3>1 DEF PastStart, PastStop
  <2> QED BY <1>1, <2>2 DEF MsmtInv, Served
<1>15. Serving'
  <2>1. RepliesAwaited'
    <3>1. \A x \in Goroutines : pc[x] \notin {"insert", "recv"}
      BY <1>3, <1>4
    <3> QED BY <1>1, <3>1, AwaitedKept
  <2>2. \A x \in Goroutines : ServingAt(x)'
    BY <1>5 DEF ServingAt
  <2> QED BY <2>1, <2>2 DEF Serving
<1>16. ServerSurvives'
  BY DEF ServerSurvives
<1> QED BY <1>10, <1>11, <1>12, <1>13, <1>14, <1>15, <1>16 DEF MsmtInv

LEMMA ReaderMsmt ==
  ASSUME TypeInv, TcpInv, MsmtInv, ServerNext, up', UNCHANGED clientVars,
         NEW g \in Goroutines, Reader(g)
  PROVE  MsmtInv'
<1>t. pc \in [Goroutines -> {"idle"} \cup ReaderPc \cup HandlerPc]
  BY DEF TypeInv, TypeOK, ServerTypeOK
<1>1. CASE AcceptTCP(g) \/ ReadEOF(g)
  <2>1. /\ pc[g] \in {"accept", "read", "reread"}
        /\ \E l \in {"read", "idle"} : pc' = [pc EXCEPT ![g] = l]
        /\ conn' = conn \/ (pc[g] = "accept" /\ conn' = [conn EXCEPT ![g] = "open"])
        /\ UNCHANGED <<inbox, out, disp, buf, req, via, owner, closed, recvCh, ch, obj>>
        /\ UNCHANGED <<recvChStorage, mapInited, msmtStorage, json>>
    BY <1>1 DEF AcceptTCP, ReadEOF, Goto, handlerVars, shared, msmt
  <2>2. \A x \in Goroutines : pc'[x] \in {"send"} \cup HandlerPc => pc'[x] = pc[x] /\ x # g
    BY <1>t, <2>1 DEF HandlerPc
  <2>3. \A x \in Goroutines : pc[x] \in {"insert", "recv"} => pc'[x] = pc[x]
    BY <1>t, <2>1
  <2>4. RepliesAwaited'
    BY <2>1, <2>3, AwaitedKept
  <2>5. CASE conn' = conn
    BY <2>1, <2>2, <2>4, <2>5, IdleMsmt
  <2>6. CASE pc[g] = "accept"
    <3>1. disp = None /\ \A x \in Goroutines : x # g => pc[x] \in {"idle", "reread"}
      BY <2>6, Alone DEF TcpInv
    <3>2. \A x \in Goroutines : pc[x] # "send" /\ disp # x
      BY <2>6, <3>1, ControlAssumption
    <3>3. \A x \in Goroutines : pc'[x] \notin {"send"} \cup HandlerPc
      BY <2>2, <2>6, <3>1 DEF HandlerPc
    <3> QED BY <2>1, <2>4, <3>2, <3>3, IdleMsmt
  <2> QED BY <2>1, <2>5, <2>6
<1>2. CASE ReadTCP(g)
  BY <1>2, ReadMsmt
<1>3. CASE SendTCP(g)
  <2>1. /\ pc[g] = "send" /\ pc' = [pc EXCEPT ![g] = "reread"]
        /\ disp = None /\ disp' = g
        /\ UNCHANGED <<inbox, conn, out, buf, req, via, owner, closed, recvCh, ch, obj>>
        /\ UNCHANGED <<recvChStorage, mapInited, msmtStorage, json, cpc, phase, mid>>
    BY <1>3 DEF SendTCP, Goto, handlerVars, shared, msmt, netVars, clientVars
  <2>2. \A x \in Goroutines : x # g => pc[x] \in {"idle", "reread"}
    BY <2>1, Alone DEF TcpInv
  <2>3. \A x \in Goroutines : pc'[x] \in {"idle", "reread"}
    BY <1>t, <2>1, <2>2
  <2>4. Routed'
    BY RoutedStep DEF MsmtInv
  <2>5. Told' /\ Managed' /\ Served' /\ OneMeasurementPerClient'
    BY <2>1 DEF MsmtInv, Told, RecvChIndexedByMsmtId, Known, Managed, Holds, Served,
                PastStart, PastStop, OneMeasurementPerClient
  <2>6. Arrived'
    <3>1. Holds(buf[g]) /\ Asked(buf[g]) /\ Pending(buf[g]) /\ conn[g] = "open"
      BY <2>1 DEF MsmtInv, Arrived
    <3>2. Holds(buf[g])' /\ Asked(buf[g])' /\ Pending(buf[g])' /\ conn'[g] = "open"
      BY <2>1, <3>1 DEF Holds, Asked, Pending, PastStart, PastStop
    <3>3. \A x \in Goroutines : pc'[x] \notin HandlerPc /\ pc'[x] # "send"
      BY <2>3 DEF HandlerPc
    <3>4. \A x \in Goroutines : pc'[x] \notin {"check", "make", "run", "lookup", "mgmt"}
      BY <2>3
    <3> QED BY <2>1, <3>2, <3>3, <3>4 DEF Arrived
  <2>7. Serving'
    <3>1. RepliesAwaited'
      BY <2>1, <2>2, AwaitedKept
    <3>2. \A x \in Goroutines : ServingAt(x)'
      BY <2>3 DEF ServingAt
    <3> QED BY <3>1, <3>2 DEF Serving
  <2>8. ServerSurvives'
    BY DEF ServerSurvives
  <2> QED BY <2>4, <2>5, <2>6, <2>7, <2>8 DEF MsmtInv
<1>4. ~ReadReset(g)
  BY DEF ReadReset, Exit
<1> QED BY <1>1, <1>2, <1>3, <1>4 DEF Reader

LEMMA DispatchMsmt ==
  ASSUME TypeInv, TcpInv, MsmtInv, ServerNext, up', UNCHANGED clientVars, Dispatch
  PROVE  MsmtInv'
<1>1. up /\ disp \in Goroutines /\ Parsed = buf[disp] /\ disp # None
  BY DEF Dispatch, Parsed, TcpInv, NoDatagrams, TypeInv, TypeOK, ServerTypeOK
<1> DEFINE f == FirstStep(Parsed.kind)
<1>2. f \in {"info", "check", "lookup"}
  BY DEF FirstStep
<1> HIDE DEF f
<1>3. PICK h \in Goroutines :
        /\ req' = [req EXCEPT ![h] = buf[disp]]
        /\ via' = [via EXCEPT ![h] = disp]
        /\ conn' = [g \in Goroutines |-> IF Unreferenced(g) THEN "none" ELSE conn[g]]
        /\ pc' = [pc EXCEPT ![h] = f]
  BY <1>1 DEF Dispatch, Goto, f
<1>4. /\ disp' = None
      /\ UNCHANGED <<inbox, out, owner, closed, recvCh, ch, obj, json, recvChStorage>>
      /\ UNCHANGED <<mapInited, msmtStorage, cpc, phase, mid>>
  BY DEF Dispatch, shared, msmt, clientVars
<1>5. \A x \in Goroutines : pc[x] \in {"idle", "reread"}
  BY <1>1, Calm DEF TcpInv
<1>6. pc'[h] = f /\ \A x \in Goroutines : x # h => pc'[x] \in {"idle", "reread"}
  BY <1>3, <1>5 DEF TypeInv, TypeOK, ServerTypeOK
<1>7. req'[h] = buf[disp] /\ via'[h] = disp
  BY <1>3 DEF TypeInv, TypeOK, ServerTypeOK
<1>8. conn'[disp] = conn[disp]
  BY <1>1, <1>3 DEF Unreferenced
<1>9. Routed'
  BY RoutedStep DEF MsmtInv
<1>10. Told' /\ Managed' /\ Served' /\ OneMeasurementPerClient'
  BY <1>4 DEF MsmtInv, Told, RecvChIndexedByMsmtId, Known, Managed, Holds, Served,
              PastStart, PastStop, OneMeasurementPerClient
<1>11. Arrived'
  <2>1. /\ Holds(buf[disp]) /\ Asked(buf[disp]) /\ Pending(buf[disp])
        /\ conn[disp] = "open"
    BY <1>1 DEF MsmtInv, Arrived
  <2>2. Holds(req[h])' /\ Asked(req[h])' /\ Pending(req[h])' /\ conn'[via'[h]] = "open"
    BY <1>4, <1>7, <1>8, <2>1 DEF Holds, Asked, Pending, PastStart, PastStop
  <2>3. \A x \in Goroutines : pc'[x] # "send" /\ disp' # x
    BY <1>2, <1>4, <1>6, ControlAssumption
  <2>4. \A x \in Goroutines : pc'[x] \in HandlerPc => x = h
    BY <1>6 DEF HandlerPc
  <2>5. \A x \in Goroutines : pc'[x] \in {"check", "make", "run", "lookup", "mgmt"} => x = h
    BY <1>6
  <2> QED BY <2>2, <2>3, <2>4, <2>5 DEF Arrived
<1>12. Serving'
  <2>1. RepliesAwaited'
    BY <1>4, <1>5, AwaitedKept
  <2>2. \A x \in Goroutines : ServingAt(x)'
    BY <1>2, <1>6 DEF ServingAt
  <2> QED BY <2>1, <2>2 DEF Serving
<1>13. ServerSurvives'
  BY DEF ServerSurvives
<1> QED BY <1>9, <1>10, <1>11, <1>12, <1>13 DEF MsmtInv

\* A server that has ended does nothing.
LEMMA ServerRuns == ServerNext => up
<1> SUFFICES ASSUME ServerNext PROVE up
  OBVIOUS
<1>1. ASSUME NEW g \in Goroutines, Reader(g) PROVE up
  BY <1>1 DEF Reader, AcceptTCP, ReadTCP, ReadEOF, ReadReset, SendTCP
<1>2. ASSUME NEW h \in Goroutines, Handler(h) PROVE up
  <2>1. CASE ConstructInfoReply(h) \/ CheckInited(h) \/ MakeStorage(h) \/ StartModule(h)
             \/ InsertEntry(h) \/ LookupChannel(h) \/ HandleMsmtStopReq(h)
             \/ HandleMsmtInfoReq(h) \/ ReceiveReply(h)
    BY <2>1 DEF ConstructInfoReply, CheckInited, MakeStorage, StartModule, InsertEntry,
       LookupChannel, HandleMsmtStopReq, HandleMsmtInfoReq, ReceiveReply
  <2>2. CASE StoreChannel(h) \/ EncodeType(h) \/ ClearType(h) \/ WriteAnswerTCP(h)
             \/ WriteAnswerUDP(h) \/ WriteAnswerMc(h) \/ CloseConnTCP(h)
             \/ CloseConnUDP(h) \/ CloseConnMc(h)
    BY <2>2 DEF StoreChannel, EncodeType, ClearType, WriteAnswerTCP, WriteAnswerUDP,
       WriteAnswerMc, CloseConnTCP, CloseConnUDP, CloseConnMc
  <2> QED BY <1>2, <2>1, <2>2 DEF Handler
<1>3. ASSUME NEW u \in Dgram, DgramReader(u) PROVE up
  BY <1>3 DEF DgramReader, ReadFromUDP, SetCltAddr, SendDgram
<1>4. CASE Dispatch \/ ParseTorn \/ ConcurrentMapAccess
  BY <1>4 DEF Dispatch, ParseTorn, ConcurrentMapAccess
<1> QED BY <1>1, <1>2, <1>3, <1>4 DEF ServerNext

LEMMA ServerMsmt ==
  ASSUME TcpOnly, TypeInv, TcpInv, MsmtInv, ServerNext, UNCHANGED clientVars
  PROVE  MsmtInv'
<1>0. up
  BY ServerRuns
<1>1. CASE ~up'
  BY <1>0, <1>1, NoExit, ExitMsmt
<1>2. CASE up'
  <2>1. /\ \A u \in Dgram : ~ DgramReader(u)
        /\ \A h \in Goroutines : ~ WriteAnswerUDP(h) /\ ~ WriteAnswerMc(h)
                                   /\ ~ CloseConnUDP(h) /\ ~ CloseConnMc(h)
    BY DEF TcpInv, NoDatagrams, DgramReader, ReadFromUDP, SetCltAddr, SendDgram, WriteAnswerUDP, WriteAnswerMc,
           CloseConnUDP, CloseConnMc, Dgram
  <2>2. ~ ParseTorn /\ ~ ConcurrentMapAccess
    BY <1>2 DEF ParseTorn, ConcurrentMapAccess, Exit
  <2>3. ASSUME NEW h \in Goroutines, Handler(h) PROVE MsmtInv'
    BY <1>2, <2>1, <2>3, LeadMsmt, StartMsmt, InsertMsmt, ManageMsmt, ReceiveMsmt, StoreMsmt,
       EncodeMsmt, WriteMsmt, CloseMsmt DEF Handler
  <2> QED BY <1>2, <2>1, <2>2, <2>3, ReaderMsmt, DispatchMsmt DEF ServerNext
<1> QED BY <1>1, <1>2

\* No client sends its start or its stop request twice, forgets an id, or comes
\* back to life.
LEMMA ClientOnce ==
  ASSUME TcpOnly, TypeInv, TcpInv, MsmtInv, NEW c \in Clients, ClientStep(c) \/ Kill(c),
         UNCHANGED serverVars, NEW d \in Clients
  PROVE  /\ PastStart(d) => PastStart(d)'
         /\ PastStop(d) => PastStop(d)'
         /\ mid[d] # None => mid'[d] = mid[d]
         /\ d \in Aborted => d \in Aborted'
<1>t. /\ cpc \in [Clients -> Running \cup {"done", "failed", "killed"}]
      /\ phase \in [Clients -> Kinds]
      /\ mid \in [Clients -> MsmtIds \cup {None}]
      /\ out \in [Clients -> Request \cup {None}]
      /\ inbox \in [Clients -> Seq(Message)]
  BY DEF TypeInv, TypeOK, NetTypeOK, ClientTypeOK
<1>o. ~ DialUDP(c) /\ ~ WriteDgram(c) /\ ~ Listen(c) /\ ~ ReadOther(c)
  <2>1. inbox[c] # <<>> => Head(inbox[c]).type = phase[c]
    <3>1. inbox[c] # <<>> => 1 \in DOMAIN inbox[c] /\ Head(inbox[c]) = inbox[c][1]
      BY <1>t
    <3> QED BY <3>1 DEF TcpInv, OwnReplies
  <2> QED BY <2>1, AllTcp DEF DialUDP, WriteDgram, Listen, TcpInv, NoDatagrams, ReadOther
<1>1. CASE d # c
  <2>1. /\ cpc'[d] = cpc[d] /\ phase'[d] = phase[d] /\ mid'[d] = mid[d]
        /\ out'[d] = out[d] /\ inbox'[d] = inbox[d]
    BY <1>t, <1>1, <1>o DEF ClientStep, DialTCP, WriteTCP, ReadReply, ReadError, AskInfo, AskStop, Kill,
                      Close, At, netVars
  <2> QED BY <2>1 DEF PastStart, PastStop, Aborted
<1>2. CASE d = c /\ (DialTCP(c) \/ WriteTCP(c))
  <2>1. /\ cpc[c] \in {"dial", "write"} /\ UNCHANGED <<phase, mid>>
        /\ \E l \in {"write", "read", "failed"} : cpc' = [cpc EXCEPT ![c] = l]
        /\ cpc[c] = "write" => cpc' = [cpc EXCEPT ![c] = "read"]
    BY <1>2 DEF DialTCP, WriteTCP, At
  <2>2. phase[c] # "START" => PastStart(c)' = PastStart(c)
    BY <2>1 DEF PastStart
  <2> QED BY <1>2, <2>1, <2>2 DEF PastStart, PastStop, Aborted
<1>3. CASE d = c /\ ReadReply(c)
  <2>1. /\ cpc[c] = "read" /\ out'[c] = None
        /\ \/ phase[c] = "INFO" /\ mid'[c] = mid[c]
           \/ phase[c] = "START" /\ phase'[c] = "START" /\ cpc'[c] = "manage"
           \/ /\ phase[c] \in {"MSMT_INFO", "STOP"} /\ phase'[c] = phase[c] /\ mid'[c] = mid[c]
              /\ cpc'[c] \in {"done", "manage"}
    BY <1>t, <1>3 DEF ReadReply, Close, At
  <2>2. phase[c] = "START" => mid[c] = None
    BY <2>1 DEF MsmtInv, Managed
  <2> QED BY <1>3, <2>1, <2>2 DEF PastStart, PastStop, Aborted
<1>4. CASE d = c /\ ReadError(c)
  <2>1. /\ cpc[c] = "read" /\ out'[c] = None /\ cpc'[c] = "failed"
        /\ UNCHANGED <<phase, mid>>
    BY <1>t, <1>4 DEF ReadError, Close, At
  <2> QED BY <1>4, <2>1 DEF PastStart, PastStop, Aborted
<1>5. CASE d = c /\ (AskInfo(c) \/ AskStop(c))
  <2>1. /\ cpc[c] = "manage" /\ mid' = mid /\ phase'[c] \in {"MSMT_INFO", "STOP"}
    BY <1>t, <1>5 DEF AskInfo, AskStop
  <2>2. phase[c] # "STOP"
    BY <2>1 DEF MsmtInv, Managed
  <2> QED BY <1>5, <2>1, <2>2 DEF PastStart, PastStop, Aborted
<1>6. CASE d = c /\ Kill(c)
  <2>1. /\ cpc'[c] = "killed" /\ UNCHANGED <<phase, mid, out, inbox>>
    BY <1>t, <1>6 DEF Kill, At
  <2> QED BY <1>6, <2>1 DEF PastStart, PastStop, Aborted
<1> QED BY <1>1, <1>2, <1>3, <1>4, <1>5, <1>6, <1>o DEF ClientStep

LEMMA ClientManaged ==
  ASSUME TcpOnly, TypeInv, TcpInv, MsmtInv, NEW c \in Clients, ClientStep(c) \/ Kill(c),
         UNCHANGED serverVars
  PROVE  Managed' /\ Told'
<1>t. /\ cpc \in [Clients -> Running \cup {"done", "failed", "killed"}]
      /\ phase \in [Clients -> Kinds]
      /\ mid \in [Clients -> MsmtIds \cup {None}]
      /\ out \in [Clients -> Request \cup {None}]
      /\ inbox \in [Clients -> Seq(Message)]
  BY DEF TypeInv, TypeOK, NetTypeOK, ClientTypeOK
<1>o. /\ ~ DialUDP(c) /\ ~ WriteDgram(c) /\ ~ Listen(c) /\ ~ ReadOther(c)
      /\ inbox[c] # <<>> => 1 \in DOMAIN inbox[c] /\ Head(inbox[c]) = inbox[c][1]
  <2>1. inbox[c] # <<>> => 1 \in DOMAIN inbox[c] /\ Head(inbox[c]) = inbox[c][1]
    BY <1>t
  <2>2. inbox[c] # <<>> => Head(inbox[c]).type = phase[c]
    BY <2>1 DEF TcpInv, OwnReplies
  <2> QED BY <2>1, <2>2, AllTcp DEF DialUDP, WriteDgram, Listen, TcpInv, NoDatagrams, ReadOther
<1>s. UNCHANGED <<owner, recvChStorage, msmtStorage, mapInited>>
  BY DEF serverVars, shared, msmt
<1>1. \A d \in Clients : d # c =>
        /\ cpc'[d] = cpc[d] /\ phase'[d] = phase[d] /\ mid'[d] = mid[d]
        /\ out'[d] = out[d] /\ inbox'[d] = inbox[d]
  BY <1>t, <1>o DEF ClientStep, DialTCP, WriteTCP, ReadReply, ReadError, AskInfo, AskStop,
                    Kill, Close, At, netVars
<1>2. inbox'[c] = inbox[c] \/ inbox'[c] = <<>>
  BY <1>t, <1>o DEF ClientStep, DialTCP, WriteTCP, ReadReply, ReadError, AskInfo, AskStop,
                    Kill, Close, netVars
<1>3. mid'[c] # None => mid'[c] = mid[c] \/ Known(c, mid'[c])
  <2>1. CASE ReadReply(c) /\ phase[c] = "START"
    <3>1. /\ inbox[c] # <<>> /\ Head(inbox[c]).type = "START"
          /\ mid'[c] = Head(inbox[c]).mid
      BY <1>t, <2>1 DEF ReadReply
    <3> QED BY <1>o, <3>1 DEF MsmtInv, Told
  <2>2. CASE ~ (ReadReply(c) /\ phase[c] = "START")
    BY <1>o, <2>2 DEF ClientStep, DialTCP, WriteTCP, ReadReply, ReadError, AskInfo, AskStop,
                      Kill
  <2> QED BY <2>1, <2>2
<1>4. Told'
  <2>1. ASSUME NEW d \in Clients, mid'[d] # None PROVE Known(d, mid[d])'
    <3>1. Known(d, mid'[d])
      BY <1>1, <1>3, <2>1 DEF MsmtInv, Told
    <3> QED BY <1>s, <3>1 DEF Known
  <2>2. ASSUME NEW d \in Clients, NEW i \in DOMAIN inbox'[d], inbox'[d][i].type = "START"
        PROVE  Known(d, inbox[d][i].mid)'
    <3>1. i \in DOMAIN inbox[d] /\ inbox'[d][i] = inbox[d][i]
      BY <1>1, <1>2, <2>2
    <3>2. Known(d, inbox[d][i].mid)
      BY <2>2, <3>1 DEF MsmtInv, Told
    <3> QED BY <1>s, <3>1, <3>2 DEF Known
  <2>3. RecvChIndexedByMsmtId' /\ (msmtStorage' # {} => mapInited')
    BY <1>s DEF MsmtInv, Told, RecvChIndexedByMsmtId
  <2> QED BY <2>1, <2>2, <2>3 DEF Told
<1>5. /\ phase'[c] = "INFO" => mid'[c] = None
      /\ phase'[c] = "START" /\ cpc'[c] \in {"dial", "write", "read"} => mid'[c] = None
      /\ phase'[c] \in {"STOP", "MSMT_INFO"} \/ cpc'[c] = "manage" => mid'[c] # None
      /\ cpc'[c] = "manage" => phase'[c] # "STOP"
      /\ out'[c] # None => Holds(out[c])'
  <2>m. /\ phase[c] = "INFO" => mid[c] = None
        /\ phase[c] = "START" /\ cpc[c] \in {"dial", "write", "read"} => mid[c] = None
        /\ phase[c] \in {"STOP", "MSMT_INFO"} \/ cpc[c] = "manage" => mid[c] # None
        /\ cpc[c] = "manage" => phase[c] # "STOP"
        /\ out[c] # None => Holds(out[c])
    BY DEF MsmtInv, Managed
  <2>f. out[c] # None => out[c].from = c
    BY DEF TcpInv, Exchange
  <2>1. CASE DialTCP(c) \/ Kill(c)
    <3>1. /\ UNCHANGED <<phase, mid, out>>
          /\ \/ cpc[c] = "dial" /\ cpc'[c] \in {"write", "failed"}
             \/ cpc'[c] = "killed"
      BY <1>t, <2>1 DEF DialTCP, Kill, At
    <3> QED BY <2>m, <3>1 DEF Holds
  <2>2. CASE WriteTCP(c)
    <3>1. /\ UNCHANGED <<phase, mid>> /\ cpc[c] = "write" /\ cpc'[c] = "read"
          /\ out'[c] = CurrentRequest(c)
      BY <1>t, <2>2 DEF WriteTCP, At
    <3> QED BY <2>m, <3>1 DEF Holds, CurrentRequest
  <2>3. CASE ReadReply(c)
    <3>1. /\ cpc[c] = "read" /\ out'[c] = None
          /\ \/ phase[c] = "INFO" /\ mid'[c] = mid[c] /\ phase'[c] \in {"INFO", "START"}
                /\ cpc'[c] # "manage"
             \/ /\ phase[c] = "START" /\ phase'[c] = "START" /\ cpc'[c] = "manage"
                /\ inbox[c] # <<>> /\ Head(inbox[c]).type = "START"
                /\ mid'[c] = Head(inbox[c]).mid
             \/ /\ phase[c] \in {"MSMT_INFO", "STOP"} /\ phase'[c] = phase[c]
                /\ mid'[c] = mid[c]
                /\ cpc'[c] = IF phase[c] = "STOP" THEN "done" ELSE "manage"
      BY <1>t, <2>3 DEF ReadReply, Close, At
    <3>2. cpc'[c] = "manage" /\ phase[c] = "START" => mid'[c] # None
      <4>1. inbox[c] # <<>> /\ Head(inbox[c]).type = "START" => Known(c, Head(inbox[c]).mid)
        BY <1>o DEF MsmtInv, Told
      <4> QED BY <3>1, <4>1, ControlAssumption DEF Known
    <3> QED BY <2>m, <3>1, <3>2
  <2>4. CASE ReadError(c)
    <3>1. /\ cpc'[c] = "failed" /\ out'[c] = None /\ UNCHANGED <<phase, mid>>
      BY <1>t, <2>4 DEF ReadError, Close, At
    <3> QED BY <2>m, <3>1
  <2>5. CASE AskInfo(c) \/ AskStop(c)
    <3>1. /\ cpc[c] = "manage" /\ cpc'[c] = "dial" /\ UNCHANGED <<mid, out>>
          /\ phase'[c] \in {"MSMT_INFO", "STOP"}
      BY <1>t, <2>5 DEF AskInfo, AskStop, At, netVars
    <3> QED BY <2>m, <3>1 DEF Holds
  <2> QED BY <1>o, <2>1, <2>2, <2>3, <2>4, <2>5 DEF ClientStep
<1>6. ASSUME NEW d \in Clients, d # c, out'[d] # None PROVE Holds(out[d])'
  <2>1. out[d].from = d /\ Holds(out[d])
    BY <1>1, <1>6 DEF MsmtInv, Managed, TcpInv, Exchange
  <2> QED BY <1>1, <1>6, <2>1 DEF Holds
<1>7. Managed'
  BY <1>1, <1>5, <1>6 DEF MsmtInv, Managed
<1> QED BY <1>4, <1>7

LEMMA ClientMsmt ==
  ASSUME TcpOnly, TypeInv, TcpInv, MsmtInv, NEW c \in Clients, ClientStep(c) \/ Kill(c),
         UNCHANGED serverVars
  PROVE  MsmtInv'
<1>1. /\ UNCHANGED <<pc, disp, buf, req, via, ch, obj, json, recvCh, owner, closed>>
      /\ UNCHANGED <<recvChStorage, msmtStorage, mapInited>>
      /\ UNCHANGED <<up, conn>>
  BY DEF serverVars, readerVars, handlerVars, shared, msmt, netVars, ClientStep, DialTCP,
         DialUDP, WriteTCP, WriteDgram, Listen, ReadOther, ReadReply, ReadError, AskInfo,
         AskStop, Kill
<1>2. /\ \A g \in Goroutines : pc[g] = "send" \/ disp = g => buf[g] \in Request
      /\ \A h \in Goroutines : pc[h] \in HandlerPc => req[h] \in Request
      /\ \A m \in MsmtIds : owner[m] # None => owner[m] \in Clients
      /\ closed \subseteq MsmtIds
  BY DEF TypeInv, TypeOK, ServerTypeOK, Initialised
<1>3. \A d \in Clients : /\ PastStart(d) => PastStart(d)'
                         /\ PastStop(d) => PastStop(d)'
                         /\ mid[d] # None => mid'[d] = mid[d]
                         /\ d \in Aborted => d \in Aborted'
  BY ClientOnce
<1>4. ASSUME NEW r \in Request, Holds(r), Asked(r)
      PROVE  /\ r.kind \in {"STOP", "MSMT_INFO"} => mid'[r.from] # None /\ r.mid = mid'[r.from]
             /\ r.kind = "START" => PastStart(r.from)'
             /\ r.kind = "STOP" => PastStop(r.from)'
  <2>1. r.from \in Clients
    BY DEF Request
  <2>2. r.kind \in {"STOP", "MSMT_INFO"} => mid'[r.from] # None /\ r.mid = mid'[r.from]
    BY <1>3, <1>4, <2>1 DEF Holds
  <2>3. r.kind = "START" => PastStart(r.from)'
    BY <1>3, <1>4, <2>1 DEF Asked, PastStart
  <2>4. r.kind = "STOP" => PastStop(r.from)'
    BY <1>3, <1>4, <2>1 DEF Asked, PastStop
  <2> QED BY <2>2, <2>3, <2>4
<1>5. Arrived'
  <2>1. ASSUME NEW g \in Goroutines, pc'[g] = "send" \/ disp' = g
        PROVE  Holds(buf[g])' /\ Asked(buf[g])' /\ Pending(buf[g])' /\ conn'[g] = "open"
    <3>1. /\ buf[g] \in Request /\ Holds(buf[g]) /\ Asked(buf[g]) /\ Pending(buf[g])
          /\ conn[g] = "open"
      BY <1>1, <1>2, <2>1 DEF MsmtInv, Arrived
    <3> QED BY <1>1, <1>4, <3>1 DEF Holds, Asked, Pending, PastStart, PastStop
  <2>2. ASSUME NEW h \in Goroutines, pc'[h] \in HandlerPc
        PROVE  Holds(req[h])' /\ Asked(req[h])' /\ conn'[via'[h]] = "open"
    <3>1. req[h] \in Request /\ Holds(req[h]) /\ Asked(req[h]) /\ conn[via[h]] = "open"
      BY <1>1, <1>2, <2>2 DEF MsmtInv, Arrived
    <3> QED BY <1>1, <1>4, <3>1 DEF Holds, Asked, PastStart, PastStop
  <2>3. \A h \in Goroutines :
          pc'[h] \in {"check", "make", "run", "lookup", "mgmt"} => Pending(req[h])'
    BY <1>1 DEF MsmtInv, Arrived, Pending
  <2> QED BY <2>1, <2>2, <2>3 DEF Arrived
<1>6. Served'
  <2>1. ASSUME NEW m \in MsmtIds, owner'[m] # None
        PROVE  PastStart(owner[m])' /\ (m \in closed' => PastStop(owner[m])')
    <3>1. owner[m] \in Clients /\ PastStart(owner[m]) /\ (m \in closed => PastStop(owner[m]))
      BY <1>1, <1>2, <2>1 DEF MsmtInv, Served
    <3> QED BY <1>1, <1>3, <3>1 DEF PastStart, PastStop
  <2> QED BY <1>1, <2>1 DEF MsmtInv, Served
<1>7. Serving' /\ Routed' /\ OneMeasurementPerClient'
  BY <1>1 DEF MsmtInv, Serving, ServingAt, RepliesAwaited, Known, Routed,
              OneMeasurementPerClient
<1>8. ServerSurvives'
  <2>1. Aborted \subseteq Clients
    BY DEF Aborted
  <2> QED BY <1>1, <1>3, <2>1 DEF MsmtInv, ServerSurvives
<1> QED BY <1>5, <1>6, <1>7, <1>8, ClientManaged DEF MsmtInv

LEMMA MsmtStep == TcpOnly /\ TypeInv /\ TcpInv /\ MsmtInv /\ [Next]_vars => MsmtInv'
<1> SUFFICES ASSUME TcpOnly, TypeInv, TcpInv, MsmtInv, [Next]_vars PROVE MsmtInv'
  OBVIOUS
<1>1. CASE ServerNext /\ UNCHANGED clientVars
  BY <1>1, ServerMsmt
<1>2. CASE ClientNext /\ UNCHANGED serverVars
  BY <1>2, ClientMsmt DEF ClientNext
<1>3. CASE UNCHANGED vars
  <2> USE <1>3 DEF vars, netVars, serverVars, clientVars, readerVars, handlerVars, shared,
                   msmt
  <2>1. Routed' /\ Told' /\ Managed' /\ Served' /\ OneMeasurementPerClient'
    BY DEF MsmtInv, Routed, Told, RecvChIndexedByMsmtId, Known, Managed, Holds, Served,
           PastStart, PastStop, OneMeasurementPerClient
  <2>2. Arrived'
    BY DEF MsmtInv, Arrived, Holds, Asked, Pending, PastStart, PastStop
  <2>3. Serving' /\ ServerSurvives'
    BY DEF MsmtInv, Serving, ServingAt, Known, RepliesAwaited, ServerSurvives, Aborted
  <2> QED BY <2>1, <2>2, <2>3 DEF MsmtInv
<1> QED BY <1>1, <1>2, <1>3 DEF Next

LEMMA MsmtInvariant == TcpOnly /\ Spec => []MsmtInv
<1>1. CASE TcpOnly
  <2>1. TypeInv /\ TcpInv /\ MsmtInv /\ [Next]_vars => MsmtInv'
    BY <1>1, MsmtStep
  <2>2. Spec => [](TypeInv /\ TcpInv)
    BY <1>1, TcpInvariant
  <2> QED BY <2>1, <2>2, MsmtInit, PTL DEF Spec
<1>2. CASE ~TcpOnly
  BY <1>2
<1> QED BY <1>1, <1>2

\* When every client uses TCP, the measurement a client has been told to use is
\* the one that its own request has started.
THEOREM OwnedByHolder == TcpOnly /\ Spec => []Ownership
<1>1. MsmtInv => Ownership
  BY DEF MsmtInv, Told, Known, Ownership
<1> QED BY <1>1, MsmtInvariant, PTL

\* When every client uses TCP, both lookups that the handlers exit on succeed for
\* every id a client holds, from the moment it holds it.
THEOREM AlwaysReachable == TcpOnly /\ Spec => []Reachable
<1>1. MsmtInv => Reachable
  BY ControlAssumption DEF MsmtInv, Told, Known, Reachable
<1> QED BY <1>1, MsmtInvariant, PTL

\* When every client uses TCP, the channel stored for a measurement is its own:
\* no other handler's answer gets between the shared variable and the map.
THEOREM ChannelsIndexed == TcpOnly /\ Spec => []RecvChIndexedByMsmtId
<1>1. MsmtInv => RecvChIndexedByMsmtId
  BY DEF MsmtInv, Told
<1> QED BY <1>1, MsmtInvariant, PTL

\* When every client uses TCP, no start request is served twice.
THEOREM StartedOnce == TcpOnly /\ Spec => []OneMeasurementPerClient
<1>1. MsmtInv => OneMeasurementPerClient
  BY DEF MsmtInv
<1> QED BY <1>1, MsmtInvariant, PTL

\* When every client uses TCP, none of the places where the server gives up is
\* reached, whatever the clients ask and wherever they are killed, but one: the
\* read on a connection that a client's death with an answer unread has reset.
THEOREM LivesThroughAll == TcpOnly /\ Spec => []ServerSurvives
<1>1. MsmtInv => ServerSurvives
  BY DEF MsmtInv
<1> QED BY <1>1, MsmtInvariant, PTL
=============================================================================
