------------------------------ MODULE TcpEcho -------------------------------
(***************************************************************************)
(* tcp/tcpser.c, which accepts one connection, receives once, sends back   *)
(* what it received and exits, and runs of tcp/tcpcli.c, which connect,    *)
(* send their argument, receive once and exit.                             *)
(*                                                                         *)
(* TCP is external.  A message is the number of its bytes; it reaches the  *)
(* server in segments of any size.  Closing a socket with bytes unread, or *)
(* a listening socket with connections not accepted, resets them, and a    *)
(* reset may overtake bytes on their way to the client.                    *)
(***************************************************************************)
EXTENDS Naturals, Sequences, FiniteSetsExt

CONSTANTS
  Clients,
  NoClient,      \* rqst is -1
  BUFSIZE,       \* of either program (1024)
  Arguments,     \* lengths of argv[1] of a client
  TcpFaults      \* calls of the server that may fail: "bind", "select", "accept", "recv"

\* sprintf stores the argument and its terminator in BUFSIZE bytes.
ASSUME TcpAssumption ==
  /\ NoClient \notin Clients
  /\ BUFSIZE \in Nat \ {0}
  /\ Arguments \subseteq 0 .. BUFSIZE - 1
  /\ TcpFaults \subseteq {"bind", "select", "accept", "recv"}

VARIABLES
  srv,           \* "listen", "select", "accept", "recv", "echo", "close" or "ended"
  rqst,
  recvlen,
  queue,         \* connections the server has not accepted
  cli,           \* each client: "new", "connected", "receiving" or "ended"
  argument,      \* the length of its argv[1]
  flying,        \* bytes of each connection on their way to the server
  arrived,       \* bytes the server has not read
  reply,         \* bytes sent back that the client has not received
  socket,        \* the server's end: "none", "up", "closed" or "reset"
  answer         \* what each client's recv returned

conns == <<flying, arrived, reply, socket>>
tcpVars == <<srv, rqst, recvlen, queue, cli, argument, conns, answer>>

TcpInit ==
  /\ srv = "listen" /\ rqst = NoClient /\ recvlen = 0 /\ queue = <<>>
  /\ cli = [c \in Clients |-> "new"]
  /\ argument \in [Clients -> Arguments]
  /\ flying = [c \in Clients |-> 0] /\ arrived = [c \in Clients |-> 0]
  /\ reply = [c \in Clients |-> 0]
  /\ socket = [c \in Clients |-> "none"]
  /\ answer = [c \in Clients |-> 0]

-----------------------------------------------------------------------------
(* tcpcli.c                                                                *)

\* Before the server listens and after it has ended, connect is refused and
\* the client exits.
Connect(c) ==
  /\ cli[c] = "new"
  /\ \/ /\ srv \in {"listen", "ended"}
        /\ cli' = [cli EXCEPT ![c] = "ended"]
        /\ UNCHANGED <<queue, socket>>
     \/ /\ srv \notin {"listen", "ended"}
        /\ cli' = [cli EXCEPT ![c] = "connected"]
        /\ queue' = Append(queue, c)
        /\ socket' = [socket EXCEPT ![c] = "up"]
  /\ UNCHANGED <<srv, rqst, recvlen, argument, flying, arrived, reply, answer>>

\* An empty argument sends nothing.
Send(c) ==
  /\ cli[c] = "connected"
  /\ cli' = [cli EXCEPT ![c] = "receiving"]
  /\ flying' = [flying EXCEPT ![c] = IF socket[c] = "up" THEN argument[c] ELSE 0]
  /\ UNCHANGED <<srv, rqst, recvlen, queue, argument, arrived, reply, socket, answer>>

\* send fails on a connection that was reset, and the client exits.
SendFails(c) ==
  /\ cli[c] = "connected" /\ socket[c] = "reset"
  /\ cli' = [cli EXCEPT ![c] = "ended"]
  /\ UNCHANGED <<srv, rqst, recvlen, queue, argument, conns, answer>>

\* recv returns bytes, or 0 or -1 for an ended connection; then close and exit.
Receive(c) ==
  /\ cli[c] = "receiving"
  /\ \/ \E n \in 1 .. Min({reply[c], BUFSIZE}) : answer' = [answer EXCEPT ![c] = n]
     \/ reply[c] = 0 /\ socket[c] \in {"closed", "reset"} /\ UNCHANGED answer
  /\ cli' = [cli EXCEPT ![c] = "ended"]
  /\ UNCHANGED <<srv, rqst, recvlen, queue, argument, conns>>

\* The user kills the client; its connection ends with a FIN.
Die(c) ==
  /\ cli[c] \in {"connected", "receiving"}
  /\ cli' = [cli EXCEPT ![c] = "ended"]
  /\ UNCHANGED <<srv, rqst, recvlen, queue, argument, conns, answer>>

-----------------------------------------------------------------------------
(* The network.                                                            *)

\* A segment reaches the server.
Segment(c) ==
  /\ socket[c] = "up"
  /\ \E n \in 1 .. flying[c] :
       /\ flying' = [flying EXCEPT ![c] = @ - n]
       /\ arrived' = [arrived EXCEPT ![c] = @ + n]
  /\ UNCHANGED <<srv, rqst, recvlen, queue, cli, argument, reply, socket, answer>>

\* A reset overtakes the reply.
Overtake(c) ==
  /\ socket[c] = "reset" /\ reply[c] > 0 /\ cli[c] # "ended"
  /\ reply' = [reply EXCEPT ![c] = 0]
  /\ UNCHANGED <<srv, rqst, recvlen, queue, cli, argument, flying, arrived, socket, answer>>

-----------------------------------------------------------------------------
(* tcpser.c                                                                *)

MayFail(call) == call \in TcpFaults

Server(from, to) == srv = from /\ srv' \in to /\ UNCHANGED <<cli, argument, answer>>

\* socket, bind and listen; a failure ends the program.
Listen ==
  /\ Server("listen", {"select"} \cup (IF MayFail("bind") THEN {"ended"} ELSE {}))
  /\ UNCHANGED <<rqst, recvlen, queue, conns>>

Select ==
  /\ queue # <<>> \/ MayFail("select")
  /\ Server("select", (IF queue # <<>> THEN {"accept"} ELSE {})
                        \cup (IF MayFail("select") THEN {"close"} ELSE {}))
  /\ UNCHANGED <<rqst, recvlen, queue, conns>>

\* A failure is printed, and recv is called with -1.
Accept ==
  /\ Server("accept", {"recv"})
  /\ \/ rqst' = Head(queue) /\ queue' = Tail(queue)
     \/ MayFail("accept") /\ UNCHANGED <<rqst, queue>>
  /\ UNCHANGED <<recvlen, conns>>

\* Some of what has arrived, at most a buffer of it.
RecvBytes ==
  /\ rqst # NoClient /\ Server("recv", {"echo"})
  /\ arrived[rqst] > 0
  /\ recvlen' = Min({arrived[rqst], BUFSIZE})
  /\ arrived' = [arrived EXCEPT ![rqst] = @ - recvlen']
  /\ UNCHANGED <<rqst, queue, flying, reply, socket>>

\* recv returns 0, the client having ended: the connection is closed.
RecvEnd ==
  /\ rqst # NoClient /\ Server("recv", {"close"})
  /\ cli[rqst] = "ended" /\ arrived[rqst] = 0 /\ flying[rqst] = 0
  /\ recvlen' = 0
  /\ socket' = [socket EXCEPT ![rqst] = "closed"]
  /\ UNCHANGED <<rqst, queue, flying, arrived, reply>>

\* recv returns -1: the connection is left to exit.
RecvFails ==
  /\ Server("recv", {"close"})
  /\ rqst = NoClient \/ MayFail("recv")
  /\ UNCHANGED <<rqst, recvlen, queue, conns>>

Ending(c) == IF arrived[c] + flying[c] > 0 THEN "reset" ELSE "closed"

\* Mutated form of Echo: the whole buffer is sent.
EchoBuffer ==
  /\ Server("echo", {"close"})
  /\ reply' = [reply EXCEPT ![rqst] = IF cli[rqst] = "ended" THEN 0 ELSE BUFSIZE]
  /\ socket' = [socket EXCEPT ![rqst] = Ending(rqst)]
  /\ UNCHANGED <<rqst, recvlen, queue, flying, arrived>>

\* send back and close.
Echo ==
  /\ Server("echo", {"close"})
  /\ reply' = [reply EXCEPT ![rqst] = IF cli[rqst] = "ended" THEN 0 ELSE recvlen]
  /\ socket' = [socket EXCEPT ![rqst] = Ending(rqst)]
  /\ UNCHANGED <<rqst, recvlen, queue, flying, arrived>>

\* Mutated form of Close: the program waits for the next connection instead.
CloseNot ==
  /\ Server("close", {"select"})
  /\ UNCHANGED <<rqst, recvlen, queue, conns>>

\* close of the listening socket and exit: what is still open is ended.
Close ==
  /\ Server("close", {"ended"})
  /\ socket' = [c \in Clients |->
       IF socket[c] # "up" THEN socket[c] ELSE IF c = rqst THEN Ending(c) ELSE "reset"]
  /\ UNCHANGED <<rqst, recvlen, queue, flying, arrived, reply>>

Serve ==
  \/ Listen \/ Select \/ Accept \/ RecvBytes \/ RecvEnd \/ RecvFails \/ Echo \/ Close

Client(c) == Connect(c) \/ Send(c) \/ SendFails(c) \/ Receive(c)

TcpNext ==
  \/ Serve
  \/ \E c \in Clients : Client(c) \/ Die(c) \/ Segment(c) \/ Overtake(c)

\* The programs run, and TCP delivers what was sent.
TcpFairness ==
  /\ WF_tcpVars(Serve)
  /\ \A c \in Clients : WF_tcpVars(Client(c)) /\ WF_tcpVars(Segment(c))

TcpSpec == TcpInit /\ [][TcpNext]_tcpVars /\ TcpFairness

-----------------------------------------------------------------------------
(* Properties.                                                             *)

\* One client at most gets an answer, a beginning of what it sent, however it
\* was cut into segments; and the terminators written behind what recv
\* returned (tcpser.c:79, tcpcli.c:68) stay inside the buffers.
EchoIsABeginning ==
  /\ recvlen < BUFSIZE
  /\ \A c \in Clients : answer[c] > 0 =>
       c = rqst /\ answer[c] <= argument[c] /\ answer[c] < BUFSIZE

\* The server waits in recv for a client that sends nothing, its argument
\* being empty, and waits for the server itself.
Stuck ==
  srv = "recv" /\ rqst # NoClient /\ cli[rqst] = "receiving" /\ argument[rqst] = 0

\* Every client ends, those the server never accepts too, unless the one it
\* accepted has an empty argument.
EveryClientEnds ==
  \A c \in Clients : cli[c] = "receiving" ~> cli[c] = "ended" \/ Stuck
=============================================================================
