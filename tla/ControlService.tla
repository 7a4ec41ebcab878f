--------------------------- MODULE ControlService ---------------------------
(***************************************************************************)
(* What the control plane promises to clients that use TCP: each of them   *)
(* discovers the server, starts a measurement, asks about it and stops it, *)
(* and every request takes effect once, at one moment between the request  *)
(* and its answer, however the requests of different clients overlap.  A   *)
(* client is left without an answer only when the server has ended, and    *)
(* that only happens to one whose clients die.                             *)
(*                                                                         *)
(* ControlPlane, which has the connections, the goroutines and the shared  *)
(* state without locks, implements it.                                     *)
(***************************************************************************)
CONSTANTS Clients, MsmtIds, None

VARIABLES
  up,      \* the server process runs
  client,  \* where each client is
  asks,    \* its current request
  held,    \* the measurement it was told of
  owner,   \* the client a measurement was started for
  stopped  \* the measurements that have been stopped

vars == <<up, client, asks, held, owner, stopped>>

Init ==
  /\ up = TRUE
  /\ client = [c \in Clients |-> "waits"]
  /\ asks = [c \in Clients |-> "INFO"]
  /\ held = [c \in Clients |-> None]
  /\ owner = [m \in MsmtIds |-> None]
  /\ stopped = {}

Client(c, from, to) == client[c] \in from /\ client' = [client EXCEPT ![c] = to]

\* The measurement m of client c has been started and not stopped.
Running(c, m) == m \in MsmtIds /\ owner[m] = c /\ m \notin stopped

-----------------------------------------------------------------------------
(* The server takes up a request, perhaps of a client that has died since *)

Start(c) ==
  /\ up /\ client[c] \in {"waits", "killed"} /\ asks[c] = "START"
  /\ \A m \in MsmtIds : owner[m] # c
  /\ \E m \in MsmtIds : owner[m] = None /\ owner' = [owner EXCEPT ![m] = c]
  /\ UNCHANGED <<up, client, asks, held, stopped>>

Stop(c) ==
  /\ up /\ client[c] \in {"waits", "killed"} /\ asks[c] = "STOP"
  /\ Running(c, held[c])
  /\ stopped' = stopped \cup {held[c]}
  /\ UNCHANGED <<up, client, asks, held, owner>>

-----------------------------------------------------------------------------
(* The client gets its answer *)

Discovered(c) ==
  /\ client[c] = "waits" /\ asks[c] = "INFO"
  /\ asks' = [asks EXCEPT ![c] = "START"]
  /\ UNCHANGED <<up, client, held, owner, stopped>>

Started(c) ==
  /\ Client(c, {"waits"}, "free") /\ asks[c] = "START"
  /\ \E m \in MsmtIds : Running(c, m) /\ held' = [held EXCEPT ![c] = m]
  /\ UNCHANGED <<up, asks, owner, stopped>>

Informed(c) ==
  /\ Client(c, {"waits"}, "free") /\ asks[c] = "MSMT_INFO"
  /\ Running(c, held[c])
  /\ UNCHANGED <<up, asks, held, owner, stopped>>

Stopped(c) ==
  /\ Client(c, {"waits"}, "done") /\ asks[c] = "STOP"
  /\ held[c] \in stopped
  /\ UNCHANGED <<up, asks, held, owner, stopped>>

-----------------------------------------------------------------------------
(* The client goes on, or does not *)

Ask(c) ==
  /\ Client(c, {"free"}, "waits")
  /\ \E kind \in {"MSMT_INFO", "STOP"} : asks' = [asks EXCEPT ![c] = kind]
  /\ UNCHANGED <<up, held, owner, stopped>>

Die(c) ==
  /\ Client(c, {"waits", "free"}, "killed")
  /\ UNCHANGED <<up, asks, held, owner, stopped>>

Fail(c) ==
  /\ ~up /\ Client(c, {"waits"}, "failed")
  /\ UNCHANGED <<up, asks, held, owner, stopped>>

Down ==
  /\ \E c \in Clients : client[c] = "killed"
  /\ up' = FALSE
  /\ UNCHANGED <<client, asks, held, owner, stopped>>

Next ==
  \/ \E c \in Clients :
       \/ Start(c) \/ Stop(c)
       \/ Discovered(c) \/ Started(c) \/ Informed(c) \/ Stopped(c)
       \/ Ask(c) \/ Die(c) \/ Fail(c)
  \/ Down

Spec == Init /\ [][Next]_vars

-----------------------------------------------------------------------------
(* What follows for every implementation *)

\* A measurement runs as long as its client works with it: from the moment it
\* is told of it to its stop request nobody stops it.
ManagedRuns == \A c \in Clients : client[c] = "free" => Running(c, held[c])

\* A client that is done leaves no measurement of its own running.
DoneLeavesNone ==
  \A c \in Clients : client[c] = "done" => \A m \in MsmtIds : ~ Running(c, m)

\* No client fails unless another one was killed.
FailsOnlyWithKilled ==
  \A c \in Clients : client[c] = "failed" => \E d \in Clients : client[d] = "killed"
=============================================================================
