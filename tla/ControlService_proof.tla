------------------------- MODULE ControlService_proof -------------------------
(***************************************************************************)
(* What follows from the service of the control plane, and so holds of     *)
(* what implements it; the refinement is in ControlPlaneService_proof.     *)
(***************************************************************************)
EXTENDS ControlService, TLAPS

TypeOK ==
  /\ client \in [Clients -> {"waits", "free", "done", "failed", "killed"}]
  /\ asks \in [Clients -> {"INFO", "START", "STOP", "MSMT_INFO"}]
  /\ held \in [Clients -> MsmtIds \cup {None}]
  /\ owner \in [MsmtIds -> Clients \cup {None}]
  /\ stopped \subseteq MsmtIds

\* A client has one measurement, which it holds from the answer to its start
\* request on, and which only its own stop request ends.
OwnMsmt ==
  /\ \A m, n \in MsmtIds : owner[m] # None /\ owner[m] = owner[n] => m = n
  /\ \A c \in Clients :
       /\ client[c] = "free" \/ (client[c] = "waits" /\ asks[c] = "MSMT_INFO") =>
            Running(c, held[c])
       /\ client[c] = "done" \/ (client[c] = "waits" /\ asks[c] = "STOP") =>
            held[c] \in MsmtIds /\ owner[held[c]] = c
       /\ client[c] = "done" => held[c] \in stopped

\* The server ends with a client, and only then do others fail.
EndsWithKilled ==
  /\ ~up => \E c \in Clients : client[c] = "killed"
  /\ \A c \in Clients : client[c] = "failed" => ~up

IInv == TypeOK /\ OwnMsmt /\ EndsWithKilled

LEMMA IInit == None \notin Clients /\ Init => IInv
BY DEF Init, IInv, TypeOK, OwnMsmt, EndsWithKilled, Running

\* A client that was killed stays killed.
LEMMA KilledStays ==
  ASSUME TypeOK, [Next]_vars, NEW c \in Clients, client[c] = "killed"
  PROVE  client'[c] = "killed"
BY DEF Next, vars, TypeOK, Start, Stop, Discovered, Started, Informed, Stopped, Ask, Die, Fail,
       Down, Client

LEMMA TypeStep == TypeOK /\ [Next]_vars => TypeOK'
<1> SUFFICES ASSUME TypeOK, [Next]_vars PROVE TypeOK'
  OBVIOUS
<1> USE DEF TypeOK
<1>1. ASSUME NEW c \in Clients, Start(c) \/ Stop(c) PROVE TypeOK'
  BY <1>1 DEF Start, Stop, Running
<1>2. ASSUME NEW c \in Clients, Discovered(c) \/ Started(c) \/ Ask(c) PROVE TypeOK'
  BY <1>2 DEF Discovered, Started, Ask, Client
<1>3. ASSUME NEW c \in Clients, Informed(c) \/ Stopped(c) \/ Die(c) \/ Fail(c) PROVE TypeOK'
  BY <1>3 DEF Informed, Stopped, Die, Fail, Client
<1>4. CASE Down \/ UNCHANGED vars
  BY <1>4 DEF Down, vars
<1> QED BY <1>1, <1>2, <1>3, <1>4 DEF Next

LEMMA OwnStep == None \notin Clients /\ TypeOK /\ OwnMsmt /\ [Next]_vars => OwnMsmt'
<1> SUFFICES ASSUME None \notin Clients, TypeOK, OwnMsmt, [Next]_vars PROVE OwnMsmt'
  OBVIOUS
<1> USE DEF TypeOK
<1>1. ASSUME NEW c \in Clients, Start(c) PROVE OwnMsmt'
  <2>1. PICK m \in MsmtIds : owner[m] = None /\ owner' = [owner EXCEPT ![m] = c]
    BY <1>1 DEF Start
  <2>2. /\ \A n \in MsmtIds : owner[n] # c
        /\ UNCHANGED <<client, asks, held, stopped>>
    BY <1>1 DEF Start
  <2>3. \A n \in MsmtIds : owner[n] # None => n # m /\ owner'[n] = owner[n]
    BY <2>1
  <2> QED BY <2>1, <2>2, <2>3 DEF OwnMsmt, Running
<1>2. ASSUME NEW c \in Clients, Stop(c) PROVE OwnMsmt'
  <2>1. /\ client[c] \in {"waits", "killed"} /\ asks[c] = "STOP" /\ owner[held[c]] = c
        /\ stopped' = stopped \cup {held[c]}
        /\ UNCHANGED <<client, asks, held, owner>>
    BY <1>2 DEF Stop, Running
  <2>2. ASSUME NEW d \in Clients, d # c, Running(d, held[d]) PROVE Running(d, held[d])'
    BY <2>1, <2>2 DEF Running
  <2> QED BY <2>1, <2>2 DEF OwnMsmt
<1>3. ASSUME NEW c \in Clients, Discovered(c) PROVE OwnMsmt'
  BY <1>3 DEF Discovered, OwnMsmt, Running
<1>4. ASSUME NEW c \in Clients, Started(c) PROVE OwnMsmt'
  BY <1>4 DEF Started, Client, OwnMsmt, Running
<1>5. ASSUME NEW c \in Clients, Informed(c) \/ Stopped(c) \/ Die(c) \/ Fail(c) PROVE OwnMsmt'
  BY <1>5 DEF Informed, Stopped, Die, Fail, Client, OwnMsmt, Running
<1>6. ASSUME NEW c \in Clients, Ask(c) PROVE OwnMsmt'
  BY <1>6 DEF Ask, Client, OwnMsmt, Running
<1>7. CASE Down \/ UNCHANGED vars
  BY <1>7 DEF Down, vars, OwnMsmt, Running
<1> QED BY <1>1, <1>2, <1>3, <1>4, <1>5, <1>6, <1>7 DEF Next

LEMMA EndStep == TypeOK /\ EndsWithKilled /\ [Next]_vars => EndsWithKilled'
<1> SUFFICES ASSUME TypeOK, EndsWithKilled, [Next]_vars PROVE EndsWithKilled'
  OBVIOUS
<1>1. ~up => ~up'
  BY DEF Next, vars, Start, Stop, Discovered, Started, Informed, Stopped, Ask, Die, Fail, Down
<1>2. ~up' => \E c \in Clients : client[c] = "killed"
  BY DEF EndsWithKilled, Next, vars, Start, Stop, Discovered, Started, Informed, Stopped, Ask,
         Die, Fail, Down
<1>3. \A c \in Clients : client'[c] = "failed" => client[c] = "failed" \/ ~up
  BY DEF TypeOK, Next, vars, Start, Stop, Discovered, Started, Informed, Stopped, Ask, Die, Fail,
         Down, Client
<1> QED BY <1>1, <1>2, <1>3, KilledStays DEF EndsWithKilled

LEMMA Invariant == None \notin Clients /\ Spec => []IInv
<1>1. CASE None \notin Clients
  <2>1. Init => IInv
    BY <1>1, IInit
  <2>2. IInv /\ [Next]_vars => IInv'
    BY <1>1, TypeStep, OwnStep, EndStep DEF IInv
  <2> QED BY <2>1, <2>2, PTL DEF Spec
<1>2. CASE None \in Clients
  BY <1>2
<1> QED BY <1>1, <1>2

\* While a client works with its measurement nobody stops it, whoever else
\* starts, stops or dies.
THEOREM RunsWhileManaged == None \notin Clients /\ Spec => []ManagedRuns
<1>1. IInv => ManagedRuns
  BY DEF IInv, OwnMsmt, ManagedRuns
<1> QED BY <1>1, Invariant, PTL

\* A client that got through leaves nothing running in the server.
THEOREM NoneLeft == None \notin Clients /\ Spec => []DoneLeavesNone
<1>1. None \notin Clients /\ IInv => DoneLeavesNone
  BY DEF IInv, TypeOK, OwnMsmt, DoneLeavesNone, Running
<1>2. CASE None \notin Clients
  BY <1>1, <1>2, Invariant, PTL
<1>3. CASE None \in Clients
  BY <1>3
<1> QED BY <1>2, <1>3

\* As long as no client is killed, none fails.
THEOREM FailureHasCause == None \notin Clients /\ Spec => []FailsOnlyWithKilled
<1>1. IInv => FailsOnlyWithKilled
  BY DEF IInv, EndsWithKilled, FailsOnlyWithKilled
<1> QED BY <1>1, Invariant, PTL
=============================================================================
