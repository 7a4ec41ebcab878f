----------------------- MODULE MeasurementService_proof -----------------------
(***************************************************************************)
(* What follows from the service for every module that implements it; the  *)
(* refinement is proved in Throughput_proof.                               *)
(***************************************************************************)
EXTENDS MeasurementService, TLAPS

\* A step that receives changes one entry of the table, upwards.
LEMMA ReceiveOne ==
  ASSUME TypeOK, NEW m \in Msmts, NEW i \in Indices, Receive(m, i)
  PROVE  /\ received' \in [Msmts -> [Indices -> Nat]]
         /\ \A n \in Msmts, j \in Indices : received[n][j] <= received'[n][j]
<1>1. PICK total \in Nat :
        received[m][i] <= total /\ received' = [received EXCEPT ![m][i] = total]
  BY DEF Receive
<1>2. received \in [Msmts -> [Indices -> Nat]]
  BY DEF TypeOK
<1>3. ASSUME NEW n \in Msmts, NEW j \in Indices
      PROVE  received'[n][j] = IF n = m /\ j = i THEN total ELSE received[n][j]
  BY <1>1, <1>2
<1>4. received' \in [Msmts -> [Indices -> Nat]]
  BY <1>1, <1>2
<1> QED BY <1>1, <1>2, <1>3, <1>4

\* The types are kept by every step of the service.
THEOREM TypeCorrect == Spec => []TypeOK
<1>1. Init => TypeOK
  BY DEF Init, TypeOK, Indices
<1>2. TypeOK /\ [Next]_vars => TypeOK'
  <2> SUFFICES ASSUME TypeOK, [Next]_vars PROVE TypeOK'
    OBVIOUS
  <2> USE DEF TypeOK
  <2>1. CASE UNCHANGED vars
    BY <2>1 DEF vars
  <2>2. CASE Fail
    BY <2>2 DEF Fail
  <2>3. ASSUME NEW m \in Msmts, Start(m) \/ Started(m)
        PROVE  TypeOK'
    BY <2>3 DEF Start, Started, Phase
  <2>4. ASSUME NEW m \in Msmts, NEW i \in Indices, Receive(m, i)
        PROVE  TypeOK'
    BY <2>4, ReceiveOne DEF Receive
  <2>5. ASSUME NEW m \in Msmts, Answer(m) \/ Stopped(m)
        PROVE  TypeOK'
    BY <2>5 DEF Answer, Stopped, Phase, Report
  <2>6. ASSUME NEW m \in Msmts, Begin(m) \/ Drop(m) \/ Return(m) \/ Die(m)
        PROVE  TypeOK'
    <3>1. conns' \in [Msmts -> SUBSET Indices]
      BY <2>6 DEF Begin, Drop, Return, Die
    <3>2. client' \in [Msmts -> {"waiting", "measuring", "closing", "stopping", "over",
                                 "dead"}]
      BY <2>6 DEF Begin, Drop, Return, Die, Client
    <3> QED BY <2>6, <3>1, <3>2 DEF Begin, Drop, Return, Die
  <2>7. ASSUME NEW m \in Msmts, Ask(m) \/ Finish(m) \/ AskStop(m)
        PROVE  TypeOK'
    BY <2>7 DEF Ask, Finish, AskStop, Phase, Client
  <2> QED BY <2>1, <2>2, <2>3, <2>4, <2>5, <2>6, <2>7 DEF Next
<1> QED BY <1>1, <1>2, PTL DEF Spec

\* No answer of a module, at any time, reports more of a stream than the
\* server has received on it.
THEOREM NoneInvented == Spec => []ReportedReceived
<1>1. Init => ReportedReceived
  BY DEF Init, ReportedReceived
<1>2. TypeOK /\ ReportedReceived /\ [Next]_vars => ReportedReceived'
  <2> SUFFICES ASSUME TypeOK, ReportedReceived, [Next]_vars
               PROVE  ReportedReceived'
    OBVIOUS
  <2> USE DEF TypeOK, ReportedReceived
  <2>1. CASE UNCHANGED <<received, reported>>
    BY <2>1
  <2>2. ASSUME NEW m \in Msmts, NEW i \in Indices, Receive(m, i)
        PROVE  ReportedReceived'
    <3>1. UNCHANGED reported
      BY <2>2 DEF Receive
    <3>2. \A n \in Msmts, j \in Indices :
             received'[n][j] \in Nat /\ received[n][j] <= received'[n][j]
      BY <2>2, ReceiveOne
    <3> QED BY <3>1, <3>2
  <2>3. ASSUME NEW m \in Msmts, Report(m), UNCHANGED received
        PROVE  ReportedReceived'
    BY <2>3 DEF Report
  <2> QED BY <2>1, <2>2, <2>3
          DEF Next, vars, Start, Started, Answer, Stopped, Begin, Drop, Ask, Finish,
              AskStop, Return, Die, Fail
<1> QED BY <1>1, <1>2, TypeCorrect, PTL DEF Spec

\* When a module is asked for the stop, its client's connections are closed,
\* and none is made again; what is still to be received was sent before.
THEOREM NobodySends == Spec => []StopIsQuiet
<1>1. Init => StopIsQuiet
  BY DEF Init, StopIsQuiet
<1>2. TypeOK /\ StopIsQuiet /\ [Next]_vars => StopIsQuiet'
  <2> SUFFICES ASSUME TypeOK, StopIsQuiet, [Next]_vars PROVE StopIsQuiet'
    OBVIOUS
  <2> USE DEF TypeOK, StopIsQuiet
  <2>1. CASE UNCHANGED <<phase, conns>>
    BY <2>1
  <2>2. ASSUME NEW m \in Msmts, Start(m) \/ Started(m) \/ Answer(m) \/ Ask(m)
        PROVE  StopIsQuiet'
    BY <2>2 DEF Start, Started, Answer, Ask, Phase
  <2>3. ASSUME NEW m \in Msmts, Stopped(m) \/ AskStop(m)
        PROVE  StopIsQuiet'
    BY <2>3 DEF Stopped, AskStop, Phase, Client
  <2>4. ASSUME NEW m \in Msmts, Begin(m)
        PROVE  StopIsQuiet'
    BY <2>4 DEF Begin
  <2>5. ASSUME NEW m \in Msmts, Drop(m) \/ Return(m) \/ Die(m)
        PROVE  StopIsQuiet'
    BY SMTT(30), <2>5 DEF Drop, Return, Die
  <2> QED BY <2>1, <2>2, <2>3, <2>4, <2>5 DEF Next, vars, Receive, Finish, Fail
<1> QED BY <1>1, <1>2, TypeCorrect, PTL DEF Spec
=============================================================================
