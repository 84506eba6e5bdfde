------------------------------ MODULE KvmServer ------------------------------
(***************************************************************************)
(* The network server of network-module: the select loop of udpser.c and   *)
(* processTCPRequest of kvmnetwork.c, on top of the serial port functions  *)
(* of Uart.  One thread accepts a connection, serves requests on it until  *)
(* it ends, and only then accepts the next.                                *)
(*                                                                         *)
(* A client is tcp/tcpcli.c, which connects, sends its argument, receives  *)
(* once and closes; PerClient > 1 lets it go on with further requests, and *)
(* it may be killed.  TCP is external: in order, without loss, a killed    *)
(* client ends its connection with a FIN or with a RST.  A request is one  *)
(* send on an idle connection and arrives in one recv; one that is cut in  *)
(* two is two requests to the server.                                      *)
(***************************************************************************)
EXTENDS Uart

CONSTANTS
  Clients,
  None,           \* no client, no request, no reply
  Kinds,          \* first tokens a client sends: of "KVM", "PoChannel", "other",
                  \* or "blank" for a request of delimiters only, or "empty"
                  \* for an argument without a byte
  Arguments,      \* second tokens it sends: of Commands and NoArg
  NoArg,          \* there is none
  Extras,         \* how many tokens follow the second
  Junk,           \* the command left in buf where the second token should be
  PerClient,      \* requests of one client
  MayDie,         \* are clients killed?
  MaxFds          \* connections the process has descriptors for

ASSUME KvmAssumption ==
  /\ None \notin Clients /\ IsFiniteSet(Clients)
  /\ Kinds \subseteq {"KVM", "PoChannel", "other", "blank", "empty"}
  /\ Extras \subseteq Nat
  /\ Arguments \subseteq Commands \cup {NoArg}
  /\ NoArg \notin Commands /\ Junk \in Commands
  /\ PerClient \in Nat \ {0} /\ MaxFds \in Nat \ {0}
  /\ MayDie \in BOOLEAN

VARIABLES
  spc,            \* where the server thread is
  fault,          \* how the process ended
  conn,           \* the client of connectSocket
  argc,           \* strArgc
  first,          \* the request that set strArgv[0] and strArgv[1]
  ret,            \* retString: "unset", "owned" or "freed"
  leaked,         \* connectSockets of returns that did not close them
  backlog,        \* connections not accepted yet
  cpc,            \* where each client is
  made,           \* requests each client has made
  toServer,       \* the request each connection carries
  toClient,       \* the reply it carries
  link,           \* "none", "up", "fin" or "rst"
  number          \* history: the last UART command run for each client

server == <<spc, fault, conn, argc, first, ret, leaked>>
client == <<cpc, made>>
tcp == <<backlog, toServer, toClient, link>>
vars == <<uartVars, server, client, tcp, number>>

\* Requests of at least a byte, and the datagram without one.
Requests ==
  [kind : Kinds \ {"blank", "empty"}, arg : Arguments \ {NoArg}, more : Extras]
    \cup [kind : Kinds \ {"blank", "empty"}, arg : Arguments \cap {NoArg}, more : {0}]
    \cup [kind : Kinds \cap {"blank"}, arg : {NoArg}, more : {0}]
Empty == [kind |-> "empty", arg |-> NoArg, more |-> 0]

\* No request is not a request, and no reply is not a reply, the empty one included.
ASSUME NoneAssumption == None \notin Requests \cup {Empty} \cup Seq(Nat \X Nat)

Tokens(r) ==
  IF r.kind = "blank" THEN 0 ELSE IF r.arg = NoArg THEN 1 ELSE 2 + r.more

\* What strArgv[1] points to: the place of the second token of the first
\* request of the connection, read in the text of this one.
Argument(r) ==
  IF first.arg = NoArg THEN NoArg
  ELSE IF r.kind = first.kind /\ r.arg # NoArg THEN r.arg
  ELSE Junk

Silence == <<>>            \* an empty string
Garbage == <<<<0, 1>>>>    \* printed from a pointer that was never set

Init ==
  /\ UartInit
  /\ spc = "select" /\ fault = "none"
  /\ conn = None /\ argc = 0 /\ first = None /\ ret = "unset"
  /\ leaked = 0
  /\ backlog = <<>>
  /\ cpc = [c \in Clients |-> "new"]
  /\ made = [c \in Clients |-> 0]
  /\ toServer = [c \in Clients |-> None]
  /\ toClient = [c \in Clients |-> None]
  /\ link = [c \in Clients |-> "none"]
  /\ number = [c \in Clients |-> 0]

-----------------------------------------------------------------------------
(* tcpcli.c.                                                               *)

Connect(c) ==
  /\ cpc[c] = "new"
  /\ cpc' = [cpc EXCEPT ![c] = "connected"]
  /\ link' = [link EXCEPT ![c] = "up"]
  /\ backlog' = Append(backlog, c)
  /\ UNCHANGED <<uartVars, server, made, toServer, toClient, number>>

Send(c) ==
  /\ cpc[c] = "connected" /\ link[c] = "up" /\ made[c] < PerClient
  /\ cpc' = [cpc EXCEPT ![c] = "waiting"]
  /\ made' = [made EXCEPT ![c] = @ + 1]
  /\ \E r \in Requests : toServer' = [toServer EXCEPT ![c] = r]
  /\ UNCHANGED <<uartVars, server, backlog, toClient, link, number>>

\* With an empty argument, send puts nothing on the connection, and the client
\* waits for an answer all the same.
SendNothing(c) ==
  /\ "empty" \in Kinds
  /\ cpc[c] = "connected" /\ link[c] = "up" /\ made[c] < PerClient
  /\ cpc' = [cpc EXCEPT ![c] = "mute"]
  /\ made' = [made EXCEPT ![c] = @ + 1]
  /\ UNCHANGED <<uartVars, server, tcp, number>>

Receive(c) ==
  /\ cpc[c] = "waiting" /\ toClient[c] # None
  /\ cpc' = [cpc EXCEPT ![c] = "connected"]
  /\ toClient' = [toClient EXCEPT ![c] = None]
  /\ UNCHANGED <<uartVars, server, made, backlog, toServer, link, number>>

Close(c) ==
  /\ cpc[c] = "connected" /\ made[c] > 0
  /\ cpc' = [cpc EXCEPT ![c] = "gone"]
  /\ link' = [link EXCEPT ![c] = IF @ = "up" THEN "fin" ELSE @]
  /\ UNCHANGED <<uartVars, server, made, backlog, toServer, toClient, number>>

Die(c) ==
  /\ MayDie /\ cpc[c] \in {"connected", "waiting", "mute"}
  /\ cpc' = [cpc EXCEPT ![c] = "gone"]
  /\ \E how \in {"fin", "rst"} :
       link' = [link EXCEPT ![c] = IF @ = "up" THEN how ELSE @]
  /\ toClient' = [toClient EXCEPT ![c] = None]
  /\ UNCHANGED <<uartVars, server, made, backlog, toServer, number>>

Client(c) == Connect(c) \/ Send(c) \/ SendNothing(c) \/ Receive(c) \/ Close(c) \/ Die(c)

-----------------------------------------------------------------------------
(* processTCPRequest.                                                      *)

\* The process ends: undefined behaviour, or a signal.
Fail(how) ==
  /\ fault' = how
  /\ UNCHANGED <<uartVars, spc, conn, argc, first, ret, leaked, client, tcp, number>>

\* Mutated form of Accept: strArgc is not a local of the call.
AcceptKeepingArgc ==
  /\ spc = "select" /\ backlog # <<>>
  /\ leaked < MaxFds
  /\ conn' = Head(backlog)
  /\ backlog' = Tail(backlog)
  /\ spc' = "recv"
  /\ first' = None /\ ret' = "unset"
  /\ UNCHANGED <<uartVars, fault, argc, leaked, client, toServer, toClient, link, number>>

\* select, then accept, which fails and is tried again for ever when there is
\* no descriptor left.  The locals of the call are fresh.
Accept ==
  /\ spc = "select" /\ backlog # <<>>
  /\ leaked < MaxFds
  /\ conn' = Head(backlog)
  /\ backlog' = Tail(backlog)
  /\ spc' = "recv"
  /\ argc' = 0 /\ first' = None /\ ret' = "unset"
  /\ UNCHANGED <<uartVars, fault, leaked, client, toServer, toClient, link, number>>

\* strtok: every token and the NULL after the last goes into strArgv[5], behind
\* those of earlier requests.  strArgv[0] and [1] are set by the first only.
RecvRequest ==
  LET r == toServer[conn]
  IN /\ spc = "recv" /\ r # None
     /\ \/ /\ Tokens(r) > 0 /\ argc + Tokens(r) + 1 > 5
           /\ Fail("overflow")
        \/ /\ Tokens(r) = 0 /\ argc = 0
           /\ Fail("unset argument")
        \/ /\ IF Tokens(r) > 0 THEN argc + Tokens(r) + 1 <= 5 ELSE argc > 0
           /\ argc' = IF Tokens(r) > 0 THEN argc + Tokens(r) + 1 ELSE argc
           /\ first' = IF first = None THEN r ELSE first
           /\ spc' = r.kind
           /\ UNCHANGED <<uartVars, fault, conn, ret, leaked, client, tcp, number>>

\* Mutated form of RecvEnd: the socket is not closed.
RecvEndOpen ==
  /\ spc = "recv" /\ toServer[conn] = None /\ link[conn] = "fin"
  /\ leaked' = leaked + 1
  /\ conn' = None /\ spc' = "select"
  /\ UNCHANGED <<uartVars, fault, argc, first, ret, client, tcp, number>>

\* recv returns 0: close and return to select.
RecvEnd ==
  /\ spc = "recv" /\ toServer[conn] = None /\ link[conn] = "fin"
  /\ conn' = None /\ spc' = "select"
  /\ UNCHANGED <<uartVars, fault, argc, first, ret, leaked, client, tcp, number>>

\* recv returns -1: return without closing.
RecvError ==
  /\ spc = "recv" /\ link[conn] = "rst"
  /\ leaked' = leaked + 1
  /\ conn' = None /\ spc' = "select"
  /\ UNCHANGED <<uartVars, fault, argc, first, ret, client, tcp, number>>

\* "KVM": the serial port is asked for strArgv[1], which may be NULL.
KvmAsk ==
  LET arg == Argument(toServer[conn])
  IN /\ spc = "KVM"
     /\ \/ arg = NoArg /\ Fail("null")
        \/ /\ arg # NoArg
           /\ Ask(arg)
           /\ number' = [number EXCEPT ![conn] = asks']
           /\ spc' = "uart"
           /\ UNCHANGED <<fault, conn, argc, first, ret, leaked, client, tcp>>

KvmAnswer ==
  /\ spc = "uart"
  /\ \/ upc = "done" /\ buffer = NoString /\ Fail("null")
     \/ /\ buffer # NoString
        /\ Collect
        /\ ret' = "owned"
        /\ spc' = "reply"
        /\ UNCHANGED <<fault, conn, argc, first, leaked, client, tcp, number>>

\* "PoChannel" runs a command, anything else does nothing: retString is not
\* touched.  A blank request leaves strArgv[0] on text that is no keyword.
NotKvm ==
  /\ spc \in {"PoChannel", "other", "blank"}
  /\ spc' = "reply"
  /\ UNCHANGED <<uartVars, fault, conn, argc, first, ret, leaked, client, tcp, number>>

\* Mutated form of ReplyText: buf is cleared after it is filled.
ReplyTextCleared == {Silence}

\* snprintf from retString and free it.  A pointer never set may print
\* anything; one freed already is freed twice.
ReplyText ==
  IF ret = "owned" THEN {buffer} ELSE {Garbage}

Reply ==
  /\ spc = "reply"
  /\ \/ ret # "owned" /\ Fail("dangling")
     \/ /\ link[conn] # "rst"
        /\ \E text \in ReplyText :
             toClient' = [toClient EXCEPT ![conn] =
                            IF text = Silence \/ link[conn] = "fin" THEN @ ELSE text]
        /\ toServer' = [toServer EXCEPT ![conn] = None]
        /\ ret' = IF ret = "unset" THEN "unset" ELSE "freed"
        /\ spc' = "recv"
        /\ UNCHANGED <<uartVars, fault, conn, argc, first, leaked, client, backlog, link, number>>

\* send returns -1 and the socket is not closed, or SIGPIPE ends the process.
ReplyError ==
  /\ spc = "reply" /\ link[conn] = "rst"
  /\ \/ Fail("sigpipe")
     \/ /\ leaked' = leaked + 1
        /\ conn' = None /\ spc' = "select"
        /\ UNCHANGED <<uartVars, fault, argc, first, ret, client, tcp, number>>

Port == Call /\ spc = "uart" /\ UNCHANGED <<server, client, tcp, number>>
Device == DeviceLine /\ UNCHANGED <<server, client, tcp, number>>

Serve ==
  \/ Accept \/ RecvRequest \/ RecvEnd \/ RecvError
  \/ KvmAsk \/ Port \/ KvmAnswer \/ NotKvm
  \/ Reply \/ ReplyError

Next ==
  /\ fault = "none"
  /\ Serve \/ Device \/ \E c \in Clients : Client(c)

Spec == Init /\ [][Next]_vars

\* The server thread is not stopped, the device sends what it has to, and
\* tcpcli.c goes on to its next call.
Fairness ==
  /\ WF_vars(fault = "none" /\ Serve)
  /\ WF_vars(fault = "none" /\ Device)
  /\ \A c \in Clients :
       WF_vars(/\ fault = "none"
               /\ Connect(c) \/ Send(c) \/ SendNothing(c) \/ Receive(c) \/ Close(c))

FairSpec == Spec /\ Fairness

-----------------------------------------------------------------------------
(* Properties.                                                             *)

\* This is a further request of its connection; a datagram never is.
Further == made[conn] >= 2 /\ link[conn] # "none"

\* The process ends only so: strArgv overflows with five tokens, or with those
\* of several requests of one connection; an argument is missing now or was in
\* the first request; uartCommand ran out of memory; a request that asks the
\* port nothing is replied to; the client reset the connection.
FaultsHaveTheirCause ==
  fault # "none" =>
    LET r == toServer[conn] IN
    \/ fault = "overflow" /\ (Tokens(r) >= 5 \/ (Further /\ Tokens(r) >= 1))
    \/ fault = "unset argument" /\ r.kind = "blank"
    \/ fault = "null" /\ (r.arg = NoArg \/ first.arg = NoArg \/ buffer = NoString)
    \/ fault = "dangling" /\ r.kind # "KVM"
    \/ fault = "sigpipe" /\ link[conn] = "rst"

\* The port is asked what the client asked, or, as strArgv[1] is that of the
\* first request (kvmnetwork.c:195), what lies at its place in a further one of
\* another first token or with no second.
AsksWhatIsRequested ==
  spc = "uart" =>
    LET r == toServer[conn] IN
    cmd = r.arg \/ (Further /\ (r.kind # first.kind \/ r.arg = NoArg))

\* On a healthy port, what a client receives is the port's answer to its
\* own request, though the port and its buffer are shared by all clients; and
\* the port is asked for that request, stale arguments apart.
AnswersItsRequest ==
  /\ healthy => \A c \in Clients : toClient[c] \notin {None, Garbage} =>
                  Owners(toClient[c]) = {number[c]}
  /\ AsksWhatIsRequested

\* Server and client wait for each other in recv, for ever if the client is
\* not killed, only when the port answered with nothing or the client was
\* given nothing to send (tcpcli.c:57).
MutualWaitOnlyOnSilence ==
  spc = "recv" /\ fault = "none" /\ cpc[conn] \in {"waiting", "mute"}
    /\ toServer[conn] = None /\ toClient[conn] = None
  => cpc[conn] = "mute" \/ (buffer = Silence /\ number[conn] = asks)

\* A descriptor is lost only with a connection the client reset.
LeakOnlyByReset == leaked <= Cardinality({c \in Clients : link[c] = "rst"})

\* The server is in recv on a connection whose client sent nothing and waits.
HeldUp == spc = "recv" /\ conn \in Clients /\ cpc[conn] = "mute"

\* On a healthy port, with clients that are tcpcli.c, whoever sends a request
\* gets a reply and the server comes back to accept the next, until it serves
\* a client that was given nothing to send: that one keeps all others out.
EveryClientIsAnswered ==
  \A c \in Clients : (healthy /\ cpc[c] = "waiting") ~> (toClient[c] # None \/ HeldUp)
=============================================================================
