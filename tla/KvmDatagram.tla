---------------------------- MODULE KvmDatagram ----------------------------
(***************************************************************************)
(* The server of KvmServer over UDP: processUDPRequest of kvmnetwork.c in  *)
(* place of processTCPRequest, with clients that are udpcli.c.  The select *)
(* loop of udpser.c calls only the TCP function; a server built on the UDP *)
(* socket would call this one in the same place.                           *)
(*                                                                         *)
(* UDP is external: a datagram arrives whole, in any order with those of   *)
(* other clients, or not at all.                                           *)
(***************************************************************************)
EXTENDS KvmServer

CONSTANTS
  Transports,        \* of "tcp", "udp" and "lossy", which is UDP that loses datagrams
  DatagramClients    \* the clients that use UDP (a bound)

ASSUME DatagramAssumption ==
  Transports \subseteq {"tcp", "udp", "lossy"} /\ DatagramClients \subseteq Clients

VARIABLE transport

\* openUDPConnectSocket or openTCPConnectSocket; either one may have been opened.
KvmInit == Init /\ transport \in Transports

-----------------------------------------------------------------------------
(* udpcli.c                                                                *)

\* One datagram; no connection is made before it.
SendDatagram(c) ==
  /\ c \in DatagramClients
  /\ cpc[c] \in {"new", "connected"} /\ made[c] < PerClient
  /\ cpc' = [cpc EXCEPT ![c] = "waiting"]
  /\ made' = [made EXCEPT ![c] = @ + 1]
  /\ \E r \in Requests : toServer' = [toServer EXCEPT ![c] = r]
  /\ UNCHANGED <<uartVars, server, backlog, toClient, link, number>>

\* With an empty argument the datagram has no byte.
SendEmptyDatagram(c) ==
  /\ c \in DatagramClients /\ "empty" \in Kinds
  /\ cpc[c] \in {"new", "connected"} /\ made[c] < PerClient
  /\ cpc' = [cpc EXCEPT ![c] = "mute"]
  /\ made' = [made EXCEPT ![c] = @ + 1]
  /\ toServer' = [toServer EXCEPT ![c] = Empty]
  /\ UNCHANGED <<uartVars, server, backlog, toClient, link, number>>

\* Receive and Close of KvmServer, and a client that is killed: nothing tells
\* the server.
DieSilently(c) ==
  /\ MayDie /\ cpc[c] \in {"connected", "waiting", "mute"}
  /\ cpc' = [cpc EXCEPT ![c] = "gone"]
  /\ toClient' = [toClient EXCEPT ![c] = None]
  /\ UNCHANGED <<uartVars, server, made, backlog, toServer, link, number>>

\* A request is lost on its way, or a reply is.
Lose(c) ==
  /\ transport = "lossy"
  /\ \/ conn # c /\ toServer[c] # None
        /\ toServer' = [toServer EXCEPT ![c] = None] /\ UNCHANGED toClient
     \/ toClient[c] # None
        /\ toClient' = [toClient EXCEPT ![c] = None] /\ UNCHANGED toServer
  /\ UNCHANGED <<uartVars, server, client, backlog, link, number>>

DatagramClient(c) ==
  \/ SendDatagram(c) \/ SendEmptyDatagram(c)
  \/ Receive(c) \/ Close(c) \/ DieSilently(c) \/ Lose(c)

-----------------------------------------------------------------------------
(* processUDPRequest.                                                      *)

\* recvfrom and strtok, on locals that are fresh: strArgv never holds more than
\* one request.  Without a token strArgv[0] is unset.
RecvDatagram ==
  /\ spc = "select"
  /\ \E c \in Clients :
       LET r == toServer[c] IN
       /\ r \notin {None, Empty}
       /\ conn' = c /\ first' = r /\ ret' = "unset"
       /\ \/ /\ Tokens(r) > 0 /\ Tokens(r) + 1 <= 5
             /\ argc' = Tokens(r) + 1 /\ spc' = r.kind /\ UNCHANGED fault
          \/ /\ Tokens(r) + 1 > 5
             /\ argc' = 0 /\ spc' = "recv" /\ fault' = "overflow"
          \/ /\ Tokens(r) = 0
             /\ argc' = 0 /\ spc' = "recv" /\ fault' = "unset argument"
  /\ UNCHANGED <<uartVars, leaked, client, tcp, number>>

\* A datagram without a byte: the function returns, and nobody is answered.
RecvEmptyDatagram ==
  /\ spc = "select"
  /\ \E c \in Clients :
       toServer[c] = Empty /\ toServer' = [toServer EXCEPT ![c] = None]
  /\ UNCHANGED <<uartVars, server, client, backlog, toClient, link, number>>

\* Mutated form of ReplyDatagram: what the port answered is not sent when it
\* is empty, as on a TCP connection.
ReplyDatagramUnlessEmpty ==
  /\ spc = "reply"
  /\ \/ ret # "owned" /\ Fail("dangling")
     \/ /\ \E text \in ReplyText :
             toClient' = [toClient EXCEPT ![conn] =
                            IF cpc[conn] = "gone" \/ text = Silence THEN @ ELSE text]
        /\ toServer' = [toServer EXCEPT ![conn] = None]
        /\ conn' = None /\ spc' = "select"
        /\ UNCHANGED <<uartVars, fault, argc, first, ret, leaked, client, backlog, link, number>>

\* The reply goes to the sender of the request, an empty one as a datagram
\* without a byte; then the function returns to select.
ReplyDatagram ==
  /\ spc = "reply"
  /\ \/ ret # "owned" /\ Fail("dangling")
     \/ /\ \E text \in ReplyText :
             toClient' = [toClient EXCEPT ![conn] = IF cpc[conn] = "gone" THEN @ ELSE text]
        /\ toServer' = [toServer EXCEPT ![conn] = None]
        /\ conn' = None /\ spc' = "select"
        /\ UNCHANGED <<uartVars, fault, argc, first, ret, leaked, client, backlog, link, number>>

ServeDatagrams ==
  RecvDatagram \/ RecvEmptyDatagram \/ KvmAsk \/ Port \/ KvmAnswer \/ NotKvm \/ ReplyDatagram

DatagramNext ==
  /\ fault = "none"
  /\ ServeDatagrams \/ Device \/ \E c \in Clients : DatagramClient(c)

-----------------------------------------------------------------------------
KvmNext ==
  /\ \/ transport = "tcp" /\ Next
     \/ transport # "tcp" /\ DatagramNext
  /\ UNCHANGED transport

kvmVars == <<vars, transport>>
KvmSpec == KvmInit /\ [][KvmNext]_kvmVars

\* As in KvmServer, for either transport.
KvmFairness ==
  /\ WF_kvmVars(fault = "none" /\ transport = "tcp" /\ Serve /\ UNCHANGED transport)
  /\ WF_kvmVars(fault = "none" /\ transport # "tcp" /\ ServeDatagrams /\ UNCHANGED transport)
  /\ WF_kvmVars(fault = "none" /\ Device /\ UNCHANGED transport)
  /\ \A c \in Clients :
       /\ WF_kvmVars(/\ fault = "none" /\ transport = "tcp" /\ UNCHANGED transport
                     /\ Connect(c) \/ Send(c) \/ SendNothing(c) \/ Receive(c) \/ Close(c))
       /\ WF_kvmVars(/\ fault = "none" /\ transport # "tcp" /\ UNCHANGED transport
                     /\ \/ SendDatagram(c) \/ SendEmptyDatagram(c)
                        \/ Receive(c) \/ Close(c))

FairKvmSpec == KvmSpec /\ KvmFairness

-----------------------------------------------------------------------------
\* Over UDP every request the server took and whose client and reply were not
\* lost has been replied to when the server is back in select, a silent port's
\* included: no client is left waiting there, as MutualWaitOnlyOnSilence shows
\* that one over TCP may be, but one that sent a datagram without a byte.
WaitsOnlyForLosses ==
  transport = "udp" /\ spc = "select" =>
    \A c \in Clients : cpc[c] = "waiting" => toServer[c] # None \/ toClient[c] # None

\* Who waits for ever has a reason: over TCP an empty answer, over UDP a loss,
\* over either a request without a byte.
WaitsHaveTheirCause == MutualWaitOnlyOnSilence /\ WaitsOnlyForLosses
=============================================================================
