------------------------------ MODULE UdpEcho -------------------------------
(***************************************************************************)
(* udp/udpser.c, a server that acknowledges every datagram with a running  *)
(* number, and runs of udp/udpcli.c, which send MSGS datagrams and wait    *)
(* after each for one datagram back, without a timeout and without looking *)
(* at it.                                                                  *)
(*                                                                         *)
(* The network is external: it loses, delays, reorders and duplicates.     *)
(* No two datagrams of one direction are alike, so each direction is a     *)
(* set; duplicating is delivering without removing.                        *)
(***************************************************************************)
EXTENDS Naturals, FiniteSets

CONSTANTS
  Clients,
  Nobody,      \* remaddr of the server before the first datagram
  MSGS,        \* datagrams each client sends (5)
  MaxFaults    \* bound on the failed calls and the duplicated datagrams

ASSUME UdpAssumption ==
  /\ Nobody \notin Clients
  /\ MSGS \in Nat /\ MaxFaults \in Nat

VARIABLES
  up,          \* the server runs
  msgcnt,
  remaddr,     \* of the last datagram the server received
  i,           \* loop counter of each client
  waiting,     \* the client is in recvfrom
  packets,     \* <<client, number>> on the way to the server
  acks,        \* <<client, number>> on the way to a client
  received,    \* history: datagrams the server received from each client
  seen,        \* history: numbers of the acknowledgements each client received
  faults,      \* failed calls and duplicated datagrams so far
  lost         \* history: a datagram or the server was lost

server == <<up, msgcnt, remaddr, received>>
clients == <<i, waiting, seen>>
vars == <<server, clients, packets, acks, faults, lost>>

Init ==
  /\ up = TRUE /\ msgcnt = 0 /\ remaddr = Nobody
  /\ i = [c \in Clients |-> 0]
  /\ waiting = [c \in Clients |-> FALSE]
  /\ packets = {} /\ acks = {}
  /\ received = [c \in Clients |-> 0]
  /\ seen = [c \in Clients |-> {}]
  /\ faults = 0 /\ lost = FALSE

Fault == faults < MaxFaults /\ faults' = faults + 1

\* A message leaves a direction of the network, or a duplicate of it stays.
Deliver(m, direction) ==
  \/ direction' = direction \ {m} /\ UNCHANGED faults
  \/ direction' = direction /\ Fault

-----------------------------------------------------------------------------
(* udpcli.c *)

\* Mutated form of Send: the client does not wait for the answer.
SendOnly(c) ==
  /\ i[c] < MSGS /\ ~waiting[c]
  /\ packets' = packets \cup {<<c, i[c]>>}
  /\ i' = [i EXCEPT ![c] = @ + 1]
  /\ UNCHANGED <<server, waiting, seen, acks, faults, lost>>

Send(c) ==
  /\ i[c] < MSGS /\ ~waiting[c]
  /\ waiting' = [waiting EXCEPT ![c] = TRUE]
  /\ packets' = packets \cup {<<c, i[c]>>}
  /\ UNCHANGED <<server, i, seen, acks, faults, lost>>

\* sendto fails and the client exits.
SendFails(c) ==
  /\ i[c] < MSGS /\ ~waiting[c]
  /\ Fault
  /\ i' = [i EXCEPT ![c] = MSGS]
  /\ UNCHANGED <<server, waiting, seen, packets, acks, lost>>

Receive(c) ==
  /\ waiting[c]
  /\ \E m \in acks :
       /\ m[1] = c
       /\ Deliver(m, acks)
       /\ seen' = [seen EXCEPT ![c] = @ \cup {m[2]}]
  /\ waiting' = [waiting EXCEPT ![c] = FALSE]
  /\ i' = [i EXCEPT ![c] = @ + 1]
  /\ UNCHANGED <<server, packets, lost>>

\* A failing recvfrom is not looked at: the client goes on.
ReceiveFails(c) ==
  /\ waiting[c]
  /\ Fault
  /\ waiting' = [waiting EXCEPT ![c] = FALSE]
  /\ i' = [i EXCEPT ![c] = @ + 1]
  /\ UNCHANGED <<server, seen, packets, acks, lost>>

-----------------------------------------------------------------------------
(* udpser.c *)

\* Mutated form of Serve: the number is not advanced.
ServeSameNumber(m) ==
  /\ up /\ m \in packets
  /\ Deliver(m, packets)
  /\ received' = [received EXCEPT ![m[1]] = @ + 1]
  /\ remaddr' = m[1]
  /\ acks' = acks \cup {<<m[1], msgcnt>>}
  /\ UNCHANGED <<up, msgcnt, clients, lost>>

\* Mutated form of Serve: nothing is sent back.
ServeSilently(m) ==
  /\ up /\ m \in packets
  /\ Deliver(m, packets)
  /\ received' = [received EXCEPT ![m[1]] = @ + 1]
  /\ remaddr' = m[1]
  /\ msgcnt' = msgcnt + 1
  /\ UNCHANGED <<up, acks, clients, lost>>

\* One round of the loop for a datagram that is not empty.
Serve(m) ==
  /\ up /\ m \in packets
  /\ Deliver(m, packets)
  /\ received' = [received EXCEPT ![m[1]] = @ + 1]
  /\ remaddr' = m[1]
  /\ acks' = acks \cup {<<m[1], msgcnt>>}
  /\ msgcnt' = msgcnt + 1
  /\ UNCHANGED <<up, clients, lost>>

\* One round for a failing recvfrom: the answer goes to whoever was last,
\* and to no client while remaddr is still unset.
ServeError ==
  /\ up
  /\ Fault
  /\ acks' = IF remaddr = Nobody THEN acks ELSE acks \cup {<<remaddr, msgcnt>>}
  /\ msgcnt' = msgcnt + 1
  /\ UNCHANGED <<up, remaddr, received, clients, packets, lost>>

\* An empty datagram, which no udpcli sends, ends the server.
Close ==
  /\ up
  /\ up' = FALSE /\ lost' = TRUE
  /\ UNCHANGED <<msgcnt, remaddr, received, clients, packets, acks, faults>>

\* The network drops a datagram, or a sendto of the server failed.
Lose ==
  /\ \/ \E m \in packets : packets' = packets \ {m} /\ UNCHANGED acks
     \/ \E m \in acks : acks' = acks \ {m} /\ UNCHANGED packets
  /\ lost' = TRUE
  /\ UNCHANGED <<server, clients, faults>>

Client(c) == Send(c) \/ SendFails(c) \/ Receive(c) \/ ReceiveFails(c)
Server == ServeError \/ Close \/ \E m \in packets : Serve(m)
Next == Server \/ Lose \/ \E c \in Clients : Client(c)

Spec == Init /\ [][Next]_vars

\* The server serves whatever has arrived, a client does not stop by itself,
\* and what arrived is received.
Fairness ==
  /\ \A c \in Clients : WF_vars(Send(c)) /\ WF_vars(Receive(c))
  /\ \A c \in Clients : WF_vars(\E m \in packets : m[1] = c /\ Serve(m))

FairSpec == Spec /\ Fairness

-----------------------------------------------------------------------------
\* Numbers and addresses of the two programs.
TypeOK ==
  /\ up \in BOOLEAN /\ lost \in BOOLEAN
  /\ msgcnt \in Nat /\ faults \in 0 .. MaxFaults
  /\ remaddr \in Clients \cup {Nobody}
  /\ i \in [Clients -> 0 .. MSGS]
  /\ waiting \in [Clients -> BOOLEAN]
  /\ packets \subseteq Clients \X (0 .. MSGS - 1)
  /\ acks \subseteq Clients \X Nat
  /\ received \in [Clients -> Nat]
  /\ seen \in [Clients -> SUBSET Nat]

\* Whatever is duplicated, delayed or answered by mistake, no two clients are
\* given the same number (udpser.c:57), so a number names one round of the
\* server's loop.
NoNumberIsShared ==
  \A c, d \in Clients : c # d => seen[c] \cap seen[d] = {}

\* A client is ahead of the server by no more datagrams than there were
\* failures and duplicates: only those make it take an answer for another.
ClientsKeepStep ==
  \A c \in Clients : i[c] < MSGS => i[c] <= received[c] + faults

\* A client waits in vain (udpcli.c:59, no timeout) only when a datagram or
\* the server was lost, or a failure or a duplicate crossed the answers: as
\* long as there was none, every client goes on and is answered MSGS times.
EveryClientFinishes == <>((\A c \in Clients : i[c] = MSGS) \/ lost \/ faults > 0)
=============================================================================
