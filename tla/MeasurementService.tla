------------------------- MODULE MeasurementService -------------------------
(***************************************************************************)
(* What the measurement plane promises to those who use it, whatever the   *)
(* module: a measurement is started, queried and stopped, one request at a *)
(* time, and every answer reports for each stream what has been received   *)
(* so far and never less than the answer before.  A client has closed its  *)
(* connections when it asks for the stop, unless its module lets it ask    *)
(* for that in the midst of sending.                                       *)
(*                                                                         *)
(* Throughput, which has the workers, sockets and races, implements it.    *)
(***************************************************************************)
EXTENDS Integers

CONSTANTS
  Msmts,       \* the measurements
  NumStreams,  \* streams of each
  Abrupt       \* those whose client may ask for the stop while it sends

VARIABLES
  up,        \* the server process runs
  phase,     \* how far the server is with a measurement
  client,    \* and how far its client
  conns,     \* the streams whose client worker is about to send or sends
  received,  \* bytes counted per stream
  reported   \* bytes per stream in the last answer

vars == <<up, phase, client, conns, received, reported>>

Indices == 1..NumStreams

TypeOK ==
  /\ up \in BOOLEAN
  /\ phase \in [Msmts -> {"idle", "starting", "running", "asked", "stopping",
                          "stopped"}]
  /\ client \in [Msmts -> {"waiting", "measuring", "closing", "stopping", "over",
                           "dead"}]
  /\ conns \in [Msmts -> SUBSET Indices]
  /\ received \in [Msmts -> [Indices -> Nat]]
  /\ reported \in [Msmts -> [Indices -> Nat]]

Init ==
  /\ up = TRUE
  /\ phase = [m \in Msmts |-> "idle"]
  /\ client = [m \in Msmts |-> "waiting"]
  /\ conns = [m \in Msmts |-> {}]
  /\ received = [m \in Msmts |-> [i \in Indices |-> 0]]
  /\ reported = [m \in Msmts |-> [i \in Indices |-> 0]]

Phase(m, from, to) == phase[m] = from /\ phase' = [phase EXCEPT ![m] = to]
Client(m, from, to) == client[m] \in from /\ client' = [client EXCEPT ![m] = to]

-----------------------------------------------------------------------------
(* The server *)

Start(m) ==
  /\ up /\ Phase(m, "idle", "starting")
  /\ UNCHANGED <<up, client, conns, received, reported>>

Started(m) ==
  /\ up /\ Phase(m, "starting", "running")
  /\ UNCHANGED <<up, client, conns, received, reported>>

Receive(m, i) ==
  /\ up /\ phase[m] # "idle"
  /\ received'[m][i] \in Nat /\ received[m][i] <= received'[m][i]
  /\ received' = [received EXCEPT ![m][i] = received'[m][i]]
  /\ UNCHANGED <<up, phase, client, conns, reported>>

\* A report lies between the last one and what has been received.
Report(m) ==
  /\ reported'[m] \in [Indices -> Nat]
  /\ \A i \in Indices :
       reported[m][i] <= reported'[m][i] /\ reported'[m][i] <= received[m][i]
  /\ reported' = [reported EXCEPT ![m] = reported'[m]]

Answer(m) ==
  /\ up /\ Phase(m, "asked", "running") /\ Report(m)
  /\ UNCHANGED <<up, client, conns, received>>

Stopped(m) ==
  /\ up /\ Phase(m, "stopping", "stopped") /\ Report(m)
  /\ UNCHANGED <<up, client, conns, received>>

Fail ==
  /\ up' = FALSE
  /\ UNCHANGED <<phase, client, conns, received, reported>>

-----------------------------------------------------------------------------
(* The client *)

Begin(m) ==
  /\ phase[m] = "running" /\ Client(m, {"waiting"}, "measuring")
  /\ \E C \in SUBSET Indices : conns' = [conns EXCEPT ![m] = C]
  /\ UNCHANGED <<up, phase, received, reported>>

Drop(m) ==
  /\ \E C \in SUBSET conns[m] : conns' = [conns EXCEPT ![m] = C]
  /\ UNCHANGED <<up, phase, client, received, reported>>

Ask(m) ==
  /\ client[m] = "measuring" /\ Phase(m, "running", "asked")
  /\ UNCHANGED <<up, client, conns, received, reported>>

Finish(m) ==
  /\ phase[m] = "running" /\ Client(m, {"measuring"}, "closing")
  /\ UNCHANGED <<up, phase, conns, received, reported>>

AskStop(m) ==
  /\ m \in Abrupt \/ (client[m] = "closing" /\ conns[m] = {})
  /\ Client(m, {"measuring", "closing"}, "stopping")
  /\ Phase(m, "running", "stopping")
  /\ UNCHANGED <<up, conns, received, reported>>

Return(m) ==
  /\ phase[m] = "stopped" /\ Client(m, {"stopping"}, "over")
  /\ conns' = [conns EXCEPT ![m] = {}]
  /\ UNCHANGED <<up, phase, received, reported>>

Die(m) ==
  /\ Client(m, {"waiting", "measuring", "closing", "stopping"}, "dead")
  /\ conns' = [conns EXCEPT ![m] = {}]
  /\ UNCHANGED <<up, phase, received, reported>>

Next ==
  \/ \E m \in Msmts :
       \/ Start(m) \/ Started(m) \/ Answer(m) \/ Stopped(m)
       \/ \E i \in Indices : Receive(m, i)
       \/ Begin(m) \/ Drop(m) \/ Ask(m) \/ Finish(m) \/ AskStop(m)
       \/ Return(m) \/ Die(m)
  \/ Fail

Spec == Init /\ [][Next]_vars

-----------------------------------------------------------------------------
(* What follows for every implementation *)

\* Nothing is reported that has not been received.
ReportedReceived ==
  \A m \in Msmts : \A i \in Indices : reported[m][i] <= received[m][i]

\* From the stop request on nobody sends, unless the module is abrupt.
StopIsQuiet ==
  \A m \in Msmts \ Abrupt :
    phase[m] \in {"stopping", "stopped"} => conns[m] = {}
=============================================================================
