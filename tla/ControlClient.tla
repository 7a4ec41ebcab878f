---------------------------- MODULE ControlClient ----------------------------
(***************************************************************************)
(* A mapago client as the control plane sees it: run...CtrlClient,         *)
(* send...Request and manage...Msmt of mapago-client.go, over the request/ *)
(* reply loops of control-plane/ctrl/client-protocols.  A client is one    *)
(* process with one goroutine on the control plane: it discovers the       *)
(* server, starts a measurement, asks for information about it and stops   *)
(* it, each over a connection of its own.                                  *)
(***************************************************************************)
EXTENDS ControlNet

CONSTANTS
  MaxInfo,    \* information requests per client (a bound)
  KillPoints  \* where the process of a client may end from outside

ASSUME ClientAssumption ==
  /\ MaxInfo \in Nat
  /\ KillPoints \subseteq {"dial", "write", "listen", "read", "unread", "manage"}

VARIABLES
  cpc,    \* where each client is
  phase,  \* the kind of its current request
  mid,    \* msmtIdStorage: the measurement id it was told
  infos   \* the information requests it has sent

clientVars == <<cpc, phase, mid, infos>>

Running == {"dial", "write", "listen", "read", "manage"}

ClientTypeOK ==
  /\ cpc \in [Clients -> Running \cup {"done", "failed", "killed"}]
  /\ phase \in [Clients -> Kinds]
  /\ mid \in [Clients -> MsmtIds \cup {None}]
  /\ infos \in [Clients -> 0 .. MaxInfo]

ClientInit ==
  /\ cpc = [c \in Clients |-> "dial"]
  /\ phase = [c \in Clients |-> "INFO"]
  /\ mid = [c \in Clients |-> None]
  /\ infos = [c \in Clients |-> 0]

At(c, label) == cpc' = [cpc EXCEPT ![c] = label]

\* Only the discovery may use a datagram protocol.
Proto(c) ==
  IF phase[c] # "INFO" \/ c \in TcpClients THEN "tcp"
  ELSE IF c \in UdpClients THEN "udp" ELSE "mc"

CurrentRequest(c) ==
  [kind |-> phase[c], from |-> c,
   mid |-> IF phase[c] \in {"STOP", "MSMT_INFO"} THEN mid[c] ELSE None]

\* -control-addr, the one address a client passes to all its requests.  To
\* discover by multicast it must be that of a group.
ControlAddr(c) == IF c \in McClients THEN "group" ELSE "server"

Accepts(addr) == up /\ addr = "server"

\* net.DialTCP, which completes in the server's kernel; nobody accepts a TCP
\* connection to a group.
DialTCP(c) ==
  /\ cpc[c] = "dial" /\ Proto(c) = "tcp"
  /\ \/ /\ Accepts(ControlAddr(c))
        /\ backlog' = Append(backlog, c)
        /\ sock' = [sock EXCEPT ![c] = "tcp"]
        /\ At(c, "write")
     \/ /\ ~Accepts(ControlAddr(c))
        /\ At(c, "failed")
        /\ UNCHANGED <<backlog, sock>>
  /\ UNCHANGED <<up, phase, mid, infos, link, out, inbox, conn, dgrams>>

\* net.DialUDP only makes a socket.  The one the multicast client dials is
\* never read.
DialUDP(c) ==
  /\ cpc[c] = "dial" /\ Proto(c) # "tcp"
  /\ sock' = [sock EXCEPT ![c] = IF Proto(c) = "udp" THEN "udp" ELSE "none"]
  /\ At(c, "write")
  /\ UNCHANGED <<up, phase, mid, infos, backlog, link, out, inbox, conn, dgrams>>

\* The bytes wait in the server's kernel, before and after the accept.
WriteTCP(c) ==
  /\ cpc[c] = "write" /\ Proto(c) = "tcp"
  /\ out' = [out EXCEPT ![c] = CurrentRequest(c)]
  /\ At(c, "read")
  /\ UNCHANGED <<up, phase, mid, infos, backlog, sock, link, inbox, conn, dgrams>>

\* A datagram may be lost.
WriteDgram(c) ==
  /\ cpc[c] = "write" /\ Proto(c) # "tcp"
  /\ \/ UNCHANGED dgrams
     \/ dgrams' = [dgrams EXCEPT ![Proto(c)] = @ \cup {c}]
  /\ At(c, IF Proto(c) = "udp" THEN "read" ELSE "listen")
  /\ UNCHANGED <<up, phase, mid, infos, backlog, sock, link, out, inbox, conn>>

\* net.ListenMulticastUDP, after the request has been sent.
Listen(c) ==
  /\ cpc[c] = "listen"
  /\ sock' = [sock EXCEPT ![c] = "mc"]
  /\ At(c, "read")
  /\ UNCHANGED <<up, phase, mid, infos, backlog, link, out, inbox, conn, dgrams>>

\* defer connSock.Close() with nothing left to read.
Close(c) ==
  /\ sock' = [sock EXCEPT ![c] = "none"]
  /\ link' = [link EXCEPT ![c] = None]
  /\ out' = [out EXCEPT ![c] = None]
  /\ inbox' = [inbox EXCEPT ![c] = <<>>]

\* An answer of another type than the one awaited sends the request again.
ReadOther(c) ==
  /\ cpc[c] = "read" /\ inbox[c] # <<>> /\ Head(inbox[c]).type # phase[c]
  /\ inbox' = [inbox EXCEPT ![c] = Tail(@)]
  /\ At(c, "write")
  /\ UNCHANGED <<up, phase, mid, infos, backlog, sock, link, out, conn, dgrams>>

\* validateDiscovery compares the sequence number; send...StartRequest stores
\* the measurement id without looking at it.
ReadReply(c) ==
  LET rep == Head(inbox[c]) IN
  /\ cpc[c] = "read" /\ inbox[c] # <<>> /\ rep.type = phase[c]
  /\ \/ /\ phase[c] = "INFO" /\ rep.seq = c
        /\ phase' = [phase EXCEPT ![c] = "START"]
        /\ At(c, "dial")
        /\ UNCHANGED mid
     \/ /\ phase[c] = "INFO" /\ rep.seq # c
        /\ At(c, "failed")
        /\ UNCHANGED <<phase, mid>>
     \/ /\ phase[c] = "START"
        /\ mid' = [mid EXCEPT ![c] = rep.mid]
        /\ At(c, "manage")
        /\ UNCHANGED phase
     \/ /\ phase[c] \in {"MSMT_INFO", "STOP"}
        /\ At(c, IF phase[c] = "STOP" THEN "done" ELSE "manage")
        /\ UNCHANGED <<phase, mid>>
  /\ Close(c)
  /\ UNCHANGED <<up, infos, backlog, conn, dgrams>>

\* The connection has ended without an answer.
ReadError(c) ==
  /\ cpc[c] = "read" /\ inbox[c] = <<>>
  /\ \/ ~up /\ sock[c] # "mc"
     \/ link[c] # None /\ conn[link[c]] = "closed"
  /\ At(c, "failed")
  /\ Close(c)
  /\ UNCHANGED <<up, phase, mid, infos, backlog, conn, dgrams>>

\* The loop of manage...Msmt: the update timer has fired, or the measurement
\* is finished or past its deadline.
AskInfo(c) ==
  /\ cpc[c] = "manage" /\ infos[c] < MaxInfo
  /\ infos' = [infos EXCEPT ![c] = @ + 1]
  /\ phase' = [phase EXCEPT ![c] = "MSMT_INFO"]
  /\ At(c, "dial")
  /\ UNCHANGED <<mid, up, netVars>>

AskStop(c) ==
  /\ cpc[c] = "manage"
  /\ phase' = [phase EXCEPT ![c] = "STOP"]
  /\ At(c, "dial")
  /\ UNCHANGED <<mid, infos, up, netVars>>

Whereabouts(c) ==
  IF cpc[c] = "read" /\ inbox[c] # <<>> THEN "unread" ELSE cpc[c]

\* The process ends from outside: what it has sent stays in the network, what
\* it has not read stays unread.
Kill(c) ==
  /\ Whereabouts(c) \in KillPoints
  /\ At(c, "killed")
  /\ sock' = [sock EXCEPT ![c] = "none"]
  /\ UNCHANGED <<up, phase, mid, infos, backlog, link, out, inbox, conn, dgrams>>

ClientStep(c) ==
  \/ DialTCP(c) \/ DialUDP(c) \/ WriteTCP(c) \/ WriteDgram(c) \/ Listen(c)
  \/ ReadOther(c) \/ ReadReply(c) \/ ReadError(c)
  \/ AskInfo(c) \/ AskStop(c)

ClientNext == \E c \in Clients : ClientStep(c) \/ Kill(c)
=============================================================================
