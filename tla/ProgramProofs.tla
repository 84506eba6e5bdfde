--------------------------- MODULE ProgramProofs ---------------------------
(***************************************************************************)
(* Proofs about the programs that run by themselves.                       *)
(*                                                                         *)
(* What the program of Lollipop prints, for every circle and every window. *)
(*                                                                         *)
(* That a client of TcpEcho gets a beginning of what it sent, and that     *)
(* only the accepted one does, for any number of clients, any buffer and   *)
(* any cut of the bytes into segments.                                     *)
(*                                                                         *)
(* What the splitter of TokenSplitter stores, for every string and word,   *)
(* and what main of DiskIdentity prints, for every drive.                  *)
(*                                                                         *)
(* What the image of an FTDI EEPROM holds and what is decoded of it, for   *)
(* every struct a builder takes; and what the tool of EepromTool shows,    *)
(* verifies and misses, after any sequence of its commands.                *)
(***************************************************************************)
EXTENDS Lollipop, TcpEcho, SmallPrograms, EepromBuild, EepromTool,
        FiniteSetTheorems, SequenceTheorems, TLAPS

-----------------------------------------------------------------------------
(* The lollipop sequence numbers.                                          *)


\* A difference of two numbers of the circle is reduced by at most one turn.
LEMMA OneTurn ==
  ASSUME NEW x \in Numbers, NEW y \in Numbers
  PROVE  Ahead(x, y) = IF x >= y THEN x - y ELSE x - y + (Region + 1)
<1> DEFINE N == Region + 1
<1>1. N \in Nat \ {0} /\ x \in 0 .. N - 1 /\ y \in 0 .. N - 1
  BY LollipopAssumption DEF Numbers
<1>2. \A d \in 0 .. N - 1 : d % N = d
  BY <1>1
<1>3. CASE x >= y
  BY <1>1, <1>2, <1>3 DEF Ahead
<1>4. CASE x < y
  <2> DEFINE d == x - y
             q == d \div N
             r == d % N
  <2>1. d \in Int /\ d < 0 /\ d > -N
    BY <1>1, <1>4
  <2>2. q \in Int /\ r \in 0 .. N - 1 /\ d = N * q + r
    BY <1>1, <2>1
  <2> HIDE DEF d, q, r, N
  <2>3. q = -1
    <3>1. CASE q >= 0
      <4>1. N * q >= 0
        BY <1>1, <2>2, <3>1
      <4> QED
        BY <1>1, <2>1, <2>2, <4>1
    <3>2. CASE q <= -2
      <4>1. N * q <= N * (-2)
        BY <1>1, <2>2, <3>2
      <4> QED
        BY <1>1, <2>1, <2>2, <4>1
    <3> QED
      BY <2>2, <3>1, <3>2
  <2>4. r = d + N
    BY <1>1, <2>1, <2>2, <2>3
  <2> QED
    BY <1>1, <1>4, <2>4 DEF Ahead, d, r, N
<1> QED
  BY <1>1, <1>3, <1>4

\* For every Region and Window the macro holds exactly of the numbers one to
\* Window steps ahead on the circle.
LEMMA MacroIsAhead ==
  ASSUME NEW x \in Numbers, NEW y \in Numbers
  PROVE  lollipop_greater_than(x, y) <=> Ahead(x, y) \in 1 .. Window
BY OneTurn, LollipopAssumption DEF lollipop_greater_than, Numbers

\* Both operands stay on the circle, whatever atoi returned.
THEOREM TypeCorrect == Spec => []TypeOK
<1>1. Init => TypeOK
  <2>1. \A d \in Int : d % (Region + 1) \in Numbers
    BY LollipopAssumption DEF Numbers
  <2> QED
    BY <2>1, LollipopAssumption DEF Init, TypeOK
<1>2. TypeOK /\ [Next]_vars => TypeOK'
  BY DEF TypeOK, Next, Compare, vars, lollipop_greater_than
<1> QED
  BY <1>1, <1>2, PTL DEF Spec

\* What the program prints, the zeros included, is the order on the circle.
THEOREM CircularOrder == Spec => []ComparesOnTheCircle
<1>1. TypeOK /\ ComparesOnTheCircle /\ [Next]_vars => ComparesOnTheCircle'
  <2> SUFFICES ASSUME TypeOK, ComparesOnTheCircle, [Next]_vars
               PROVE  ComparesOnTheCircle'
    OBVIOUS
  <2>1. CASE Compare
    <3>1. a \in Numbers /\ b \in Numbers
      BY DEF TypeOK
    <3>2. result' <=> Ahead(a, b) \in 1 .. Window
      BY <2>1, <3>1, MacroIsAhead DEF Compare
    <3>3. result2' <=> Ahead(b, a) \in 1 .. Window
      BY <2>1, <3>1, MacroIsAhead DEF Compare
    <3> QED
      BY <2>1, <3>2, <3>3 DEF Compare, ComparesOnTheCircle, Ahead
  <2>2. CASE UNCHANGED vars
    BY <2>2 DEF vars, ComparesOnTheCircle, Ahead
  <2> QED
    BY <2>1, <2>2 DEF Next
<1>2. Init => ComparesOnTheCircle
  BY DEF Init, ComparesOnTheCircle
<1> QED
  BY <1>1, <1>2, TypeCorrect, PTL DEF Spec

\* The order is antisymmetric, because the window is less than half the circle.
THEOREM Antisymmetry == Spec => []NeverBothNewer
<1>1. TypeOK /\ NeverBothNewer /\ [Next]_vars => NeverBothNewer'
  <2>1. ASSUME NEW x \in Numbers, NEW y \in Numbers
        PROVE  ~(lollipop_greater_than(x, y) /\ lollipop_greater_than(y, x))
    BY LollipopAssumption DEF lollipop_greater_than, Numbers
  <2> QED
    BY <2>1 DEF TypeOK, Next, Compare, vars, NeverBothNewer
<1>2. Init => NeverBothNewer
  BY DEF Init, NeverBothNewer
<1> QED
  BY <1>1, <1>2, TypeCorrect, PTL DEF Spec

-----------------------------------------------------------------------------
(* The one-shot TCP server and its clients.                                *)


TcpTypeOK ==
  /\ srv \in {"listen", "select", "accept", "recv", "echo", "close", "ended"}
  /\ rqst \in Clients \cup {NoClient}
  /\ recvlen \in Nat
  /\ queue \in Seq(Clients)
  /\ cli \in [Clients -> {"new", "connected", "receiving", "ended"}]
  /\ argument \in [Clients -> Arguments]
  /\ flying \in [Clients -> Nat] /\ arrived \in [Clients -> Nat] /\ reply \in [Clients -> Nat]
  /\ socket \in [Clients -> {"none", "up", "closed", "reset"}]
  /\ answer \in [Clients -> Nat]

\* The bytes of a connection are at most those of the argument, and there are
\* none before they are sent.
BytesAt ==
  \A c \in Clients :
    /\ flying[c] + arrived[c] <= argument[c]
    /\ cli[c] \in {"new", "connected"} => flying[c] = 0 /\ arrived[c] = 0

\* Before the program has received, nobody is answered; it accepts once.
RoundAt ==
  /\ recvlen < BUFSIZE
  /\ srv = "accept" => queue # <<>>
  /\ srv \in {"listen", "select", "accept", "recv"} =>
       \A c \in Clients : reply[c] = 0 /\ answer[c] = 0
  /\ srv \in {"listen", "select", "accept"} => rqst = NoClient
  /\ srv = "echo" => rqst # NoClient /\ recvlen <= argument[rqst]

\* What is on the way back is the accepted client's, and not more than it sent.
RepliesAt ==
  \A c \in Clients :
    /\ reply[c] > 0 => c = rqst /\ reply[c] <= argument[c]
    /\ answer[c] > 0 => c = rqst /\ answer[c] <= argument[c]

TcpInv == TcpTypeOK /\ BytesAt /\ RoundAt /\ RepliesAt

-----------------------------------------------------------------------------
LEMMA SmallerOfTwo ==
  ASSUME NEW m \in Nat, NEW n \in Nat
  PROVE  Min({m, n}) \in Nat /\ Min({m, n}) <= m /\ Min({m, n}) <= n
<1>1. \E x \in {m, n} : \A y \in {m, n} : x =< y
  <2>1. CASE m =< n
    BY <2>1
  <2>2. CASE n =< m
    BY <2>2
  <2> QED
    BY <2>1, <2>2
<1>2. Min({m, n}) \in {m, n} /\ \A y \in {m, n} : Min({m, n}) =< y
  BY <1>1 DEF Min
<1> QED
  BY <1>2

LEMMA ArgumentsFit ==
  ASSUME TcpTypeOK, NEW c \in Clients
  PROVE  argument[c] \in Nat /\ argument[c] < BUFSIZE
<1>1. argument[c] \in 0 .. BUFSIZE - 1 /\ BUFSIZE \in Nat
  BY TcpAssumption DEF TcpTypeOK
<1> QED
  BY <1>1

LEMMA Start == TcpInit => TcpInv
<1> SUFFICES ASSUME TcpInit PROVE TcpInv
  OBVIOUS
<1>1. TcpTypeOK
  BY DEF TcpInit, TcpTypeOK
<1>2. \A c \in Clients : argument[c] >= 0
  BY <1>1, ArgumentsFit
<1>3. BytesAt
  BY <1>2 DEF TcpInit, BytesAt
<1>4. RoundAt
  BY TcpAssumption DEF TcpInit, RoundAt
<1>5. RepliesAt
  BY DEF TcpInit, RepliesAt
<1> QED
  BY <1>1, <1>3, <1>4, <1>5 DEF TcpInv

-----------------------------------------------------------------------------
(* The clients and the network.                                            *)

LEMMA KeptByConnect ==
  ASSUME TcpInv, NEW c \in Clients, Connect(c)
  PROVE  TcpInv'
<1> USE DEF TcpInv
<1>5. Append(queue, c) \in Seq(Clients) /\ Append(queue, c) # <<>>
  <2>1. queue \in Seq(Clients)
    BY DEF TcpTypeOK
  <2>2. Len(Append(queue, c)) = Len(queue) + 1 /\ Len(queue) \in Nat
    BY <2>1
  <2>3. Append(queue, c) \in Seq(Clients)
    BY <2>1
  <2>4. Len(<<>>) = 0
    OBVIOUS
  <2> QED
    BY <2>2, <2>3, <2>4
<1>1. TcpTypeOK'
  BY <1>5 DEF TcpTypeOK, Connect
<1>2. BytesAt'
  BY DEF TcpTypeOK, BytesAt, Connect
<1>3. RoundAt'
  BY <1>5 DEF RoundAt, Connect
<1>4. RepliesAt'
  BY DEF RepliesAt, Connect
<1> QED
  BY <1>1, <1>2, <1>3, <1>4

LEMMA KeptBySend ==
  ASSUME TcpInv, NEW c \in Clients, Send(c)
  PROVE  TcpInv'
<1> USE DEF TcpInv
<1>1. argument[c] \in Nat
  BY ArgumentsFit
<1>2. TcpTypeOK'
  BY <1>1 DEF TcpTypeOK, Send
<1>3. BytesAt'
  <2> SUFFICES ASSUME NEW d \in Clients
      PROVE  /\ flying'[d] + arrived'[d] <= argument'[d]
             /\ cli'[d] \in {"new", "connected"} => flying'[d] = 0 /\ arrived'[d] = 0
    BY DEF BytesAt
  <2>1. CASE d = c
    <3>1. arrived'[c] = 0 /\ flying'[c] \in {0, argument[c]} /\ cli'[c] = "receiving"
          /\ argument' = argument
      BY DEF TcpTypeOK, BytesAt, Send
    <3> QED
      BY <1>1, <2>1, <3>1
  <2>2. CASE d # c
    BY <2>2 DEF TcpTypeOK, BytesAt, Send
  <2> QED
    BY <2>1, <2>2
<1>4. RoundAt'
  BY DEF RoundAt, Send
<1>5. RepliesAt'
  BY DEF RepliesAt, Send
<1> QED
  BY <1>2, <1>3, <1>4, <1>5

LEMMA KeptByClientEnd ==
  ASSUME TcpInv, NEW c \in Clients, SendFails(c) \/ Die(c)
  PROVE  TcpInv'
<1> USE DEF TcpInv
<1>1. cli' = [cli EXCEPT ![c] = "ended"]
      /\ UNCHANGED <<srv, rqst, recvlen, queue, argument, flying, arrived, reply, socket, answer>>
  BY DEF SendFails, Die, conns
<1>2. TcpTypeOK'
  BY <1>1 DEF TcpTypeOK
<1>3. BytesAt'
  BY <1>1 DEF TcpTypeOK, BytesAt
<1>4. RoundAt'
  BY <1>1 DEF RoundAt
<1>5. RepliesAt'
  BY <1>1 DEF RepliesAt
<1> QED
  BY <1>2, <1>3, <1>4, <1>5

LEMMA KeptByReceive ==
  ASSUME TcpInv, NEW c \in Clients, Receive(c)
  PROVE  TcpInv'
<1> USE DEF TcpInv
<1>1. /\ cli' = [cli EXCEPT ![c] = "ended"]
      /\ UNCHANGED <<srv, rqst, recvlen, queue, argument, flying, arrived, reply, socket>>
  BY DEF Receive, conns
<1>2. \/ \E n \in 1 .. reply[c] : answer' = [answer EXCEPT ![c] = n]
      \/ UNCHANGED answer
  <2>1. CASE \E n \in 1 .. Min({reply[c], BUFSIZE}) : answer' = [answer EXCEPT ![c] = n]
    <3>1. reply[c] \in Nat /\ BUFSIZE \in Nat
      BY TcpAssumption DEF TcpTypeOK
    <3>2. \A n \in 1 .. Min({reply[c], BUFSIZE}) : n \in 1 .. reply[c]
      BY <3>1, SmallerOfTwo
    <3> QED
      BY <2>1, <3>2
  <2> QED
    BY <2>1 DEF Receive
<1>3. TcpTypeOK'
  <2>1. \A n \in 1 .. reply[c] : n \in Nat
    OBVIOUS
  <2> QED
    BY <1>1, <1>2, <2>1 DEF TcpTypeOK
<1>4. BytesAt'
  BY <1>1 DEF TcpTypeOK, BytesAt
<1>5. reply[c] = 0 => UNCHANGED answer
  BY <1>2
<1>6. RoundAt'
  BY <1>1, <1>5 DEF RoundAt
<1>7. RepliesAt'
  <2> SUFFICES ASSUME NEW d \in Clients, answer'[d] > 0
      PROVE  d = rqst /\ answer'[d] <= argument[d]
    BY <1>1 DEF RepliesAt
  <2>1. CASE answer'[d] = answer[d]
    BY <2>1 DEF RepliesAt
  <2>2. CASE answer'[d] # answer[d]
    <3>1. d = c /\ answer'[c] \in 1 .. reply[c] /\ reply[c] \in Nat /\ argument[c] \in Nat
      BY <1>2, <2>2, ArgumentsFit DEF TcpTypeOK
    <3>2. reply[c] > 0
      BY <3>1
    <3>3. c = rqst /\ reply[c] <= argument[c]
      BY <3>2 DEF RepliesAt
    <3> QED
      BY <3>1, <3>3
  <2> QED
    BY <2>1, <2>2
<1> QED
  BY <1>3, <1>4, <1>6, <1>7

\* A segment is some of the bytes under way.
LEMMA SegmentIsPart ==
  ASSUME NEW f \in Nat, NEW m \in Nat, NEW n \in 1 .. f
  PROVE  f - n \in Nat /\ m + n \in Nat /\ f # 0
OBVIOUS

LEMMA KeptBySegment ==
  ASSUME TcpInv, NEW c \in Clients, Segment(c)
  PROVE  TcpInv'
<1> USE DEF TcpInv
<1>1. PICK n \in 1 .. flying[c] : /\ flying' = [flying EXCEPT ![c] = @ - n]
                                  /\ arrived' = [arrived EXCEPT ![c] = @ + n]
  BY DEF Segment
<1>2. UNCHANGED <<srv, rqst, recvlen, queue, cli, argument, reply, socket, answer>>
  BY DEF Segment
<1>a. flying[c] \in Nat /\ arrived[c] \in Nat
  BY DEF TcpTypeOK
<1>b. argument[c] \in Nat
  BY ArgumentsFit
<1>c. flying[c] - n \in Nat /\ arrived[c] + n \in Nat /\ flying[c] # 0
  BY <1>a, SegmentIsPart
<1>3. flying[c] \in Nat /\ arrived[c] \in Nat /\ flying[c] - n \in Nat /\ arrived[c] + n \in Nat
      /\ flying[c] # 0 /\ argument[c] \in Nat
  BY <1>a, <1>b, <1>c
<1>4. TcpTypeOK'
  BY <1>1, <1>2, <1>3 DEF TcpTypeOK
<1>5. BytesAt'
  <2> SUFFICES ASSUME NEW d \in Clients
      PROVE  /\ flying'[d] + arrived'[d] <= argument[d]
             /\ cli[d] \in {"new", "connected"} => flying'[d] = 0 /\ arrived'[d] = 0
    BY <1>2 DEF BytesAt
  <2>1. CASE d = c
    <3>1. flying'[c] = flying[c] - n /\ arrived'[c] = arrived[c] + n
      BY <1>1 DEF TcpTypeOK
    <3>2. flying'[c] + arrived'[c] = flying[c] + arrived[c]
      BY <1>3, <3>1
    <3>3. cli[c] \notin {"new", "connected"} /\ flying[c] + arrived[c] <= argument[c]
      BY <1>3 DEF BytesAt
    <3> QED
      BY <2>1, <3>2, <3>3
  <2>2. CASE d # c
    BY <1>1, <2>2 DEF TcpTypeOK, BytesAt
  <2> QED
    BY <2>1, <2>2
<1>6. RoundAt' /\ RepliesAt'
  BY <1>2 DEF RoundAt, RepliesAt
<1> QED
  BY <1>4, <1>5, <1>6

LEMMA KeptByOvertake ==
  ASSUME TcpInv, NEW c \in Clients, Overtake(c)
  PROVE  TcpInv'
<1> USE DEF TcpInv
<1>1. TcpTypeOK'
  BY DEF TcpTypeOK, Overtake
<1>2. BytesAt'
  BY DEF BytesAt, Overtake
<1>3. \A d \in Clients : reply'[d] = reply[d] \/ reply'[d] = 0
  BY DEF TcpTypeOK, Overtake
<1>4. RoundAt'
  BY <1>3 DEF RoundAt, Overtake
<1>5. RepliesAt'
  BY <1>3 DEF RepliesAt, Overtake
<1> QED
  BY <1>1, <1>2, <1>4, <1>5

-----------------------------------------------------------------------------
(* The server.                                                             *)

\* Steps that concern the connections' server ends only.
LEMMA KeptBySocket ==
  ASSUME TcpInv, srv' \in {"select", "close", "ended"}, srv' = "select" => srv = "listen",
         UNCHANGED <<rqst, queue, cli, argument, flying, arrived, reply, answer>>,
         recvlen' \in {recvlen, 0},
         socket' \in [Clients -> {"none", "up", "closed", "reset"}]
  PROVE  TcpInv'
<1> USE DEF TcpInv
<1>1. TcpTypeOK'
  BY DEF TcpTypeOK
<1>2. BytesAt' /\ RepliesAt'
  BY DEF BytesAt, RepliesAt
<1>3. recvlen' < BUFSIZE
  BY TcpAssumption DEF RoundAt
<1>4. RoundAt'
  BY <1>3 DEF RoundAt
<1> QED
  BY <1>1, <1>2, <1>4

LEMMA KeptByFirstSteps ==
  ASSUME TcpInv, Listen \/ Select \/ Accept
  PROVE  TcpInv'
<1> USE DEF TcpInv
<1>1. CASE Listen
  BY <1>1, KeptBySocket DEF Listen, Server, conns, TcpTypeOK
<1>2. CASE Select
  <2>1. /\ srv = "select" /\ srv' \in {"accept", "close"}
        /\ srv' = "accept" => queue # <<>>
        /\ UNCHANGED <<rqst, recvlen, queue, cli, argument, flying, arrived, reply, socket, answer>>
    BY <1>2 DEF Select, Server, conns
  <2>2. TcpTypeOK' /\ BytesAt' /\ RepliesAt'
    BY <2>1 DEF TcpTypeOK, BytesAt, RepliesAt
  <2>3. RoundAt'
    BY <2>1 DEF RoundAt
  <2> QED
    BY <2>2, <2>3
<1>3. CASE Accept
  <2>1. /\ srv = "accept" /\ srv' = "recv"
        /\ UNCHANGED <<recvlen, cli, argument, flying, arrived, reply, socket, answer>>
    BY <1>3 DEF Accept, Server, conns
  <2>2. rqst' \in Clients \cup {NoClient} /\ queue' \in Seq(Clients)
    <3>1. queue \in Seq(Clients) /\ queue # <<>> /\ rqst \in Clients \cup {NoClient}
      BY <2>1 DEF TcpTypeOK, RoundAt
    <3>2. Head(queue) \in Clients /\ Tail(queue) \in Seq(Clients)
      BY <3>1
    <3> QED
      BY <1>3, <3>1, <3>2 DEF Accept
  <2>3. TcpTypeOK'
    BY <2>1, <2>2 DEF TcpTypeOK
  <2>4. BytesAt'
    BY <2>1 DEF BytesAt
  <2>5. RoundAt'
    BY <2>1 DEF RoundAt
  <2>6. \A c \in Clients : reply[c] = 0 /\ answer[c] = 0
    BY <2>1 DEF RoundAt
  <2>7. RepliesAt'
    BY <2>1, <2>6 DEF RepliesAt
  <2> QED
    BY <2>3, <2>4, <2>5, <2>7
<1> QED
  BY <1>1, <1>2, <1>3

LEMMA KeptByRecvBytes == TcpInv /\ RecvBytes => TcpInv'
<1> SUFFICES ASSUME TcpInv, RecvBytes PROVE TcpInv'
  OBVIOUS
<1> USE DEF TcpInv
<1>1. /\ srv = "recv" /\ srv' = "echo" /\ rqst # NoClient
      /\ recvlen' = Min({arrived[rqst], BUFSIZE})
      /\ arrived' = [arrived EXCEPT ![rqst] = @ - recvlen']
      /\ UNCHANGED <<rqst, queue, cli, argument, flying, reply, socket, answer>>
  BY DEF RecvBytes, Server
<1>2. rqst \in Clients
  BY <1>1 DEF TcpTypeOK
<1>3. /\ arrived[rqst] \in Nat /\ flying[rqst] \in Nat /\ BUFSIZE \in Nat
      /\ argument[rqst] \in Nat /\ argument[rqst] < BUFSIZE
      /\ flying[rqst] + arrived[rqst] <= argument[rqst]
  BY <1>2, TcpAssumption, ArgumentsFit DEF TcpTypeOK, BytesAt
<1>4. recvlen' \in Nat /\ recvlen' <= arrived[rqst]
  BY <1>1, <1>3, SmallerOfTwo
<1>5. /\ recvlen' < BUFSIZE /\ recvlen' <= argument[rqst]
      /\ arrived[rqst] - recvlen' \in Nat
      /\ flying[rqst] + (arrived[rqst] - recvlen') <= argument[rqst]
      /\ arrived[rqst] = 0 => arrived[rqst] - recvlen' = 0
  BY <1>3, <1>4
<1>6. arrived' = [arrived EXCEPT ![rqst] = arrived[rqst] - recvlen']
  BY <1>1 DEF TcpTypeOK
<1>7. TcpTypeOK'
  BY <1>1, <1>2, <1>4, <1>5, <1>6 DEF TcpTypeOK
<1>8. BytesAt'
  <2> SUFFICES ASSUME NEW d \in Clients
      PROVE  /\ flying[d] + arrived'[d] <= argument[d]
             /\ cli[d] \in {"new", "connected"} => flying[d] = 0 /\ arrived'[d] = 0
    BY <1>1 DEF BytesAt
  <2>1. CASE d = rqst
    <3>1. arrived'[rqst] = arrived[rqst] - recvlen'
      BY <1>2, <1>6 DEF TcpTypeOK
    <3> QED
      BY <1>2, <1>5, <2>1, <3>1 DEF BytesAt
  <2>2. CASE d # rqst
    BY <1>6, <2>2 DEF TcpTypeOK, BytesAt
  <2> QED
    BY <2>1, <2>2
<1>9. RoundAt' /\ RepliesAt'
  BY <1>1, <1>5 DEF RoundAt, RepliesAt
<1> QED
  BY <1>7, <1>8, <1>9

LEMMA KeptByLastSteps ==
  ASSUME TcpInv, RecvEnd \/ RecvFails \/ Close
  PROVE  TcpInv'
<1> USE DEF TcpInv
<1>1. CASE RecvEnd
  BY <1>1, KeptBySocket DEF RecvEnd, Server, TcpTypeOK
<1>2. CASE RecvFails
  BY <1>2, KeptBySocket DEF RecvFails, Server, conns, TcpTypeOK
<1>3. CASE Close
  <2>1. socket' \in [Clients -> {"none", "up", "closed", "reset"}]
    BY <1>3 DEF Close, Ending, TcpTypeOK
  <2> QED
    BY <1>3, <2>1, KeptBySocket DEF Close, Server
<1> QED
  BY <1>1, <1>2, <1>3

LEMMA KeptByEcho == TcpInv /\ Echo => TcpInv'
<1> SUFFICES ASSUME TcpInv, Echo PROVE TcpInv'
  OBVIOUS
<1> USE DEF TcpInv
<1>1. /\ srv = "echo" /\ srv' = "close"
      /\ reply' = [reply EXCEPT ![rqst] = IF cli[rqst] = "ended" THEN 0 ELSE recvlen]
      /\ socket' = [socket EXCEPT ![rqst] = Ending(rqst)]
      /\ UNCHANGED <<rqst, recvlen, queue, cli, argument, flying, arrived, answer>>
  BY DEF Echo, Server
<1>2. rqst \in Clients /\ recvlen <= argument[rqst] /\ recvlen \in Nat
  BY <1>1 DEF TcpTypeOK, RoundAt
<1>3. Ending(rqst) \in {"closed", "reset"}
  BY DEF Ending
<1>4. TcpTypeOK'
  BY <1>1, <1>2, <1>3 DEF TcpTypeOK
<1>5. BytesAt' /\ RoundAt'
  BY <1>1 DEF BytesAt, RoundAt
<1>6. RepliesAt'
  <2>1. \A d \in Clients : reply'[d] = IF d # rqst THEN reply[d]
                                       ELSE IF cli[rqst] = "ended" THEN 0 ELSE recvlen
    BY <1>1 DEF TcpTypeOK
  <2> QED
    BY <1>1, <1>2, <2>1 DEF RepliesAt
<1> QED
  BY <1>4, <1>5, <1>6

-----------------------------------------------------------------------------
LEMMA KeptByTcpNext == TcpInv /\ [TcpNext]_tcpVars => TcpInv'
<1> SUFFICES ASSUME TcpInv, [TcpNext]_tcpVars PROVE TcpInv'
  OBVIOUS
<1>1. CASE Serve
  BY <1>1, KeptByFirstSteps, KeptByRecvBytes, KeptByLastSteps, KeptByEcho DEF Serve
<1>2. ASSUME NEW c \in Clients, Client(c) \/ Die(c) \/ Segment(c) \/ Overtake(c)
      PROVE  TcpInv'
  BY <1>2, KeptByConnect, KeptBySend, KeptByClientEnd, KeptByReceive, KeptBySegment,
     KeptByOvertake DEF Client
<1>3. CASE UNCHANGED tcpVars
  BY <1>3 DEF tcpVars, conns, TcpInv, TcpTypeOK, BytesAt, RoundAt, RepliesAt
<1> QED
  BY <1>1, <1>2, <1>3 DEF TcpNext

\* Only the accepted client is answered, with a beginning of what it sent, and
\* the terminators behind what recv returned stay inside the buffers
\* (tcpser.c:79, tcpcli.c:68).
THEOREM EchoesBegin == TcpSpec => []EchoIsABeginning
<1>1. TcpInv => EchoIsABeginning
  <2> SUFFICES ASSUME TcpInv, NEW c \in Clients, answer[c] > 0
      PROVE  c = rqst /\ answer[c] <= argument[c] /\ answer[c] < BUFSIZE
    BY DEF EchoIsABeginning, TcpInv, RoundAt
  <2>1. argument[c] \in Nat /\ argument[c] < BUFSIZE /\ answer[c] \in Nat /\ BUFSIZE \in Nat
    BY ArgumentsFit, TcpAssumption DEF TcpInv, TcpTypeOK
  <2>2. c = rqst /\ answer[c] <= argument[c]
    BY DEF TcpInv, RepliesAt
  <2> QED
    BY <2>1, <2>2
<1> QED
  BY <1>1, Start, KeptByTcpNext, PTL DEF TcpSpec

-----------------------------------------------------------------------------
(* Least and greatest numbers, finite sequences.                           *)

LEMMA LeastOf ==
  ASSUME NEW S, S \subseteq Nat, S # {}
  PROVE  Min(S) \in S /\ \A y \in S : Min(S) =< y
<1> DEFINE T == {0 .. n : n \in S}
<1>1. T \subseteq FiniteSubsetsOf(Nat)
  <2> SUFFICES ASSUME NEW n \in S PROVE 0 .. n \subseteq Nat /\ IsFiniteSet(0 .. n)
    BY DEF FiniteSubsetsOf
  <2> QED
    BY FS_Interval
<1>2. T # {}
  OBVIOUS
<1>3. PICK t \in T : \A u \in T : ~(<<u, t>> \in StrictSubsetOrdering(Nat))
  <2> HIDE DEF T
  <2>1. IsWellFoundedOn(StrictSubsetOrdering(Nat), FiniteSubsetsOf(Nat))
    BY FS_StrictSubsetOrderingWellFounded
  <2> QED
    BY <1>1, <1>2, <2>1, WFMin
<1>4. PICK x \in S : t = 0 .. x
  OBVIOUS
<1>5. ASSUME NEW y \in S PROVE x =< y
  <2> SUFFICES ASSUME y < x PROVE FALSE
    OBVIOUS
  <2>1. 0 .. y \in SUBSET Nat /\ 0 .. x \in SUBSET Nat
    OBVIOUS
  <2>2. 0 .. y \subseteq 0 .. x /\ 0 .. y # 0 .. x
    <3>1. x \in 0 .. x /\ x \notin 0 .. y
      OBVIOUS
    <3> QED
      BY <3>1
  <2>3. <<0 .. y, 0 .. x>> \in StrictSubsetOrdering(Nat)
    BY <2>1, <2>2 DEF StrictSubsetOrdering
  <2> QED
    BY <1>3, <1>4, <2>3
<1>6. \E z \in S : \A y \in S : z =< y
  BY <1>5
<1> QED
  BY <1>6 DEF Min

LEMMA GreatestOf ==
  ASSUME NEW n \in Nat, NEW S, S \subseteq 0 .. n, S # {}
  PROVE  Max(S) \in S /\ \A y \in S : Max(S) >= y
<1> DEFINE T == {n - x : x \in S}
<1>1. T \subseteq Nat /\ T # {}
  <2>1. \A x \in S : n - x \in Nat
    <3> SUFFICES ASSUME NEW x \in S PROVE n - x \in Nat
      OBVIOUS
    <3>1. x \in 0 .. n
      OBVIOUS
    <3> QED
      BY <3>1
  <2>2. T \subseteq Nat
    BY <2>1
  <2> QED
    BY <2>2
<1>2. PICK t \in T : \A u \in T : t =< u
  BY <1>1, LeastOf
<1>3. PICK x \in S : t = n - x
  OBVIOUS
<1>4. ASSUME NEW y \in S PROVE x >= y
  <2>1. n - x =< n - y
    BY <1>2, <1>3
  <2>2. x \in 0 .. n /\ y \in 0 .. n
    OBVIOUS
  <2> QED
    BY <2>1, <2>2
<1>5. \E z \in S : \A y \in S : z >= y
  BY <1>4
<1> QED
  BY <1>5 DEF Max

LEMMA SeqOfLen ==
  ASSUME NEW S, NEW n \in Nat, NEW f \in [1 .. n -> S]
  PROVE  f \in Seq(S) /\ Len(f) = n
<1>1. f \in Seq(S)
  BY SeqDef
<1>2. Len(f) \in Nat /\ DOMAIN f = 1 .. Len(f) /\ DOMAIN f = 1 .. n
  BY <1>1, LenProperties
<1> QED
  BY <1>1, <1>2

-----------------------------------------------------------------------------
(* The token splitter.                                                     *)

\* Where a field begins and ends.
LEMMA FieldFound ==
  ASSUME NEW string, NEW word, Len(string) \in Nat, NEW i \in 1 .. Len(string) + 1,
         From(string, i, Others(string, word)) # {},
         NEW start, start = StartOf(string, word, i), NEW end, end = EndOf(string, word, i)
  PROVE  /\ start \in i .. Len(string) /\ end \in start + 1 .. Len(string) + 1
         /\ end <= Len(string) => string[end] \in Delims(word)
         /\ \A k \in i .. start - 1 : string[k] \in Delims(word)
         /\ \A k \in start .. end - 1 : string[k] \notin Delims(word)
<1> DEFINE L == Len(string)
           D == Delims(word)
           S == From(string, i, Others(string, word))
           E == From(string, start, D) \cup {L + 1}
<1>1. S = {k \in i .. L : string[k] \notin D}
  BY DEF From, Others
<1>2. S \subseteq Nat /\ S # {}
  BY <1>1
<1>3. start \in S /\ \A y \in S : start =< y
  <2>1. start = Min(S)
    BY DEF StartOf
  <2> HIDE DEF S
  <2> QED
    BY <1>2, <2>1, LeastOf
<1>4. start \in i .. L /\ string[start] \notin D
  BY <1>1, <1>3
<1>5. \A k \in i .. start - 1 : string[k] \in D
  <2> SUFFICES ASSUME NEW k \in i .. start - 1, string[k] \notin D PROVE FALSE
    OBVIOUS
  <2>1. k \in i .. L /\ ~(start =< k)
    BY <1>4
  <2> HIDE DEF S
  <2> QED
    BY <1>1, <1>3, <2>1
<1>6. E \subseteq Nat /\ L + 1 \in E /\ \A y \in E : y = L + 1 \/ (y \in start .. L /\ string[y] \in D)
  BY <1>4 DEF From
<1>7. end \in E /\ \A y \in E : end =< y
  <2>1. end = Min(E)
    BY DEF EndOf, StartOf
  <2>2. E \subseteq Nat /\ E # {}
    BY <1>6
  <2> HIDE DEF E
  <2> QED
    BY <2>1, <2>2, LeastOf
<1>8. end = L + 1 \/ (end \in start .. L /\ string[end] \in D)
  BY <1>6, <1>7
<1>9. end \in start + 1 .. L + 1 /\ (end <= L => string[end] \in D)
  <2> HIDE DEF E, S, D
  <2>1. end # start
    <3>1. start # L + 1
      BY <1>4
    <3> QED
      BY <1>4, <1>8, <3>1
  <2> QED
    BY <1>4, <1>8, <2>1
<1>10. \A k \in start .. end - 1 : string[k] \notin D
  <2> SUFFICES ASSUME NEW k \in start .. end - 1, string[k] \in D PROVE FALSE
    OBVIOUS
  <2>1. k \in start .. L /\ ~(end =< k)
    BY <1>4, <1>9
  <2>2. k \in E
    BY <2>1 DEF From
  <2> HIDE DEF E
  <2> QED
    BY <1>7, <2>1, <2>2
<1> QED
  BY <1>4, <1>5, <1>9, <1>10

\* One call of strtok and those behind it.
Split(string, word, f, i) ==
  IF From(string, i, Others(string, word)) = {} THEN <<>>
  ELSE <<SubSeq(string, StartOf(string, word, i), EndOf(string, word, i) - 1)>>
         \o (IF EndOf(string, word, i) > Len(string) THEN <<>> ELSE f[EndOf(string, word, i) + 1])

\* The recursive function of Tokens exists.
LEMMA TokensAre ==
  ASSUME NEW string, NEW word, Len(string) \in Nat, NEW i \in 1 .. Len(string) + 1
  PROVE  Tokens(string, word)[i] = Split(string, word, Tokens(string, word), i)
<1> DEFINE L == Len(string)
           Is(f, m) == f = [n \in m .. L + 1 |-> Split(string, word, f, n)]
           Missing == {m \in 1 .. L + 1 : ~ \E f : Is(f, m)}
<1>1. Missing = {}
  <2> SUFFICES ASSUME Missing # {} PROVE FALSE
    OBVIOUS
  <2>1. PICK m \in Missing : \A k \in Missing : m >= k
    <3>1. Missing \subseteq 0 .. L + 1 /\ L + 1 \in Nat
      OBVIOUS
    <3> HIDE DEF Missing
    <3> QED
      BY <3>1, GreatestOf
  <2>2. m \in 1 .. L + 1 /\ ~ \E f : Is(f, m)
    BY <2>1
  <2>3. CASE m = L + 1
    <3> DEFINE g == [n \in m .. L + 1 |-> <<>>]
    <3>1. \A n \in m .. L + 1 : Split(string, word, g, n) = <<>>
      <4> SUFFICES ASSUME NEW n \in m .. L + 1 PROVE From(string, n, Others(string, word)) = {}
        BY DEF Split
      <4>1. n .. L = {}
        BY <2>3
      <4> QED
        BY <4>1 DEF From
    <3>2. Is(g, m)
      BY <3>1
    <3> QED
      BY <2>2, <3>2
  <2>4. CASE m # L + 1
    <3>1. m + 1 \in 1 .. L + 1 /\ m + 1 \notin Missing
      <4>1. m + 1 \in 1 .. L + 1 /\ ~(m >= m + 1)
        BY <2>2, <2>4
      <4> HIDE DEF Missing
      <4> QED
        BY <2>1, <4>1
    <3>2. PICK f : Is(f, m + 1)
      BY <3>1
    <3> DEFINE g == [n \in m .. L + 1 |-> IF n = m THEN Split(string, word, f, m) ELSE f[n]]
    <3>3. \A n \in m + 1 .. L + 1 : n \in m .. L + 1 /\ n # m /\ g[n] = f[n]
      BY <2>2
    <3> HIDE DEF g
    <3>4. \A n \in m .. L + 1 : Split(string, word, g, n) = Split(string, word, f, n)
      <4> SUFFICES ASSUME NEW n \in m .. L + 1
                   PROVE  Split(string, word, g, n) = Split(string, word, f, n)
        OBVIOUS
      <4>1. CASE From(string, n, Others(string, word)) = {}
        BY <4>1 DEF Split
      <4>2. CASE From(string, n, Others(string, word)) # {} /\ EndOf(string, word, n) > L
        BY <4>2 DEF Split
      <4>3. CASE From(string, n, Others(string, word)) # {} /\ ~(EndOf(string, word, n) > L)
        <5>1. n \in 1 .. L + 1
          BY <2>2
        <5>2. PICK start, end : start = StartOf(string, word, n) /\ end = EndOf(string, word, n)
          OBVIOUS
        <5>3. start \in n .. L /\ end \in start + 1 .. L + 1
          BY <4>3, <5>1, <5>2, FieldFound
        <5>4. end + 1 \in m + 1 .. L + 1
          BY <2>2, <4>3, <5>2, <5>3
        <5>5. g[end + 1] = f[end + 1]
          BY <3>3, <5>4
        <5> QED
          BY <5>2, <5>5 DEF Split
      <4> QED
        BY <4>1, <4>2, <4>3
    <3>5. \A n \in m .. L + 1 : g[n] = Split(string, word, g, n)
      <4> SUFFICES ASSUME NEW n \in m .. L + 1 PROVE g[n] = Split(string, word, f, n)
        BY <3>4
      <4>1. CASE n = m
        BY <4>1 DEF g
      <4>2. CASE n # m
        <5>1. n \in m + 1 .. L + 1
          BY <2>2, <4>2
        <5> QED
          BY <3>2, <3>3, <5>1
      <4> QED
        BY <4>1, <4>2
    <3>6. g = [n \in m .. L + 1 |-> g[n]]
      BY DEF g
    <3>7. Is(g, m)
      BY <3>5, <3>6
    <3> QED
      BY <2>2, <3>7
  <2> QED
    BY <2>3, <2>4
<1>2. \E f : Is(f, 1)
  <2>1. 1 \in 1 .. L + 1
    OBVIOUS
  <2> QED
    BY <1>1, <2>1
<1>3. Tokens(string, word) = CHOOSE f : Is(f, 1)
  BY DEF Tokens, Split
<1>4. Is(Tokens(string, word), 1)
  BY <1>2, <1>3
<1> QED
  BY <1>4

-----------------------------------------------------------------------------
\* The fields that begin at position i or behind it, and, of some fields,
\* those up to one of them.
FieldsFrom(string, word, i) == {f \in Fields(string, word) : f[1] >= i}
UpToField(F, f) == {g \in F : g[1] <= f[1]}

\* A place where a field may begin.
IsCut(string, word, i) == i > 1 => string[i - 1] \in Delims(word)

Pieces(string) == {SubSeq(string, f[1], f[2]) : f \in Nat \X Nat}

\* What is stored from position i on is the fields from there on, in order.
SplitsFrom(string, word, array, i) ==
  /\ array \in Seq(Pieces(string))
  /\ Len(array) = Cardinality(FieldsFrom(string, word, i))
  /\ \A f \in FieldsFrom(string, word, i) :
       array[Cardinality(UpToField(FieldsFrom(string, word, i), f))] = SubSeq(string, f[1], f[2])

LEMMA FieldsFinite ==
  ASSUME NEW string, NEW word, Len(string) \in Nat, NEW i
  PROVE  IsFiniteSet(FieldsFrom(string, word, i))
<1>1. IsFiniteSet(1 .. Len(string))
  BY FS_Interval
<1>2. IsFiniteSet((1 .. Len(string)) \X (1 .. Len(string)))
  BY <1>1, FS_Product
<1>3. FieldsFrom(string, word, i) \in SUBSET ((1 .. Len(string)) \X (1 .. Len(string)))
  BY DEF FieldsFrom, Fields
<1> QED
  BY <1>2, <1>3, FS_Subset

\* Where strtok finds nothing there is no field.
LEMMA NoFieldLeft ==
  ASSUME NEW string, NEW word, Len(string) \in Nat, NEW i \in Nat,
         From(string, i, Others(string, word)) = {}
  PROVE  FieldsFrom(string, word, i) = {}
<1> SUFFICES ASSUME NEW f \in FieldsFrom(string, word, i) PROVE FALSE
  OBVIOUS
<1>1. f[1] \in 1 .. Len(string) /\ f[2] \in 1 .. Len(string) /\ f[1] <= f[2] /\ f[1] >= i
  BY DEF FieldsFrom, Fields
<1>2. string[f[1]] \notin Delims(word)
  BY <1>1 DEF FieldsFrom, Fields
<1>3. f[1] \in i .. Len(string)
  BY <1>1
<1>4. string[f[1]] \in Others(string, word)
  BY <1>1, <1>2 DEF Others
<1> QED
  BY <1>3, <1>4 DEF From

\* What strtok finds is the first field from a place where one may begin, and
\* the next one begins behind the delimiter that follows.
LEMMA FieldIsFirst ==
  ASSUME NEW string, NEW word, Len(string) \in Nat, NEW i \in 1 .. Len(string) + 1,
         IsCut(string, word, i), From(string, i, Others(string, word)) # {},
         NEW start, start = StartOf(string, word, i), NEW end, end = EndOf(string, word, i)
  PROVE  FieldsFrom(string, word, i) = {<<start, end - 1>>} \cup FieldsFrom(string, word, end + 1)
<1> DEFINE L == Len(string)
           D == Delims(word)
<1>1. /\ start \in i .. L /\ end \in start + 1 .. L + 1
      /\ end <= L => string[end] \in D
      /\ \A k \in i .. start - 1 : string[k] \in D
      /\ \A k \in start .. end - 1 : string[k] \notin D
  BY FieldFound
<1> HIDE DEF D
<1>2. <<start, end - 1>> \in FieldsFrom(string, word, i)
  <2> DEFINE f == <<start, end - 1>>
  <2>1. f \in (1 .. L) \X (1 .. L) /\ f[1] = start /\ f[2] = end - 1 /\ f[1] <= f[2] /\ f[1] >= i
    BY <1>1
  <2>2. start > 1 => string[start - 1] \in D
    <3>1. CASE start = i
      BY <3>1 DEF IsCut, D
    <3>2. CASE start # i
      <4>1. start - 1 \in i .. start - 1
        BY <1>1, <3>2
      <4> QED
        BY <1>1, <4>1
    <3> QED
      BY <3>1, <3>2
  <2>3. end - 1 < L => string[end] \in D
    BY <1>1
  <2>4. end - 1 + 1 = end
    BY <1>1
  <2> HIDE DEF f
  <2> QED
    BY <1>1, <2>1, <2>2, <2>3, <2>4 DEF FieldsFrom, Fields, D
<1>3. ASSUME NEW g \in FieldsFrom(string, word, i)
      PROVE  g = <<start, end - 1>> \/ g[1] >= end + 1
  <2>1. /\ g \in (1 .. L) \X (1 .. L) /\ g[1] <= g[2] /\ g[1] >= i
        /\ \A k \in g[1] .. g[2] : string[k] \notin D
        /\ g[1] > 1 => string[g[1] - 1] \in D
        /\ g[2] < L => string[g[2] + 1] \in D
    BY DEF FieldsFrom, Fields, D
  <2>2. PICK x \in 1 .. L, y \in 1 .. L : g = <<x, y>>
    BY <2>1
  <2>3. /\ x <= y /\ x >= i /\ \A k \in x .. y : string[k] \notin D
        /\ x > 1 => string[x - 1] \in D
        /\ y < L => string[y + 1] \in D
    BY <2>1, <2>2
  <2>4. string[x] \notin D
    BY <2>3
  <2>5. x >= start
    <3> SUFFICES ASSUME x < start PROVE FALSE
      BY <1>1
    <3>1. x \in i .. start - 1
      BY <1>1, <2>3
    <3> QED
      BY <1>1, <2>4, <3>1
  <2>6. CASE x = start
    <3>1. ~(y < end - 1)
      <4> SUFFICES ASSUME y < end - 1 PROVE FALSE
        OBVIOUS
      <4>1. y < L /\ y + 1 \in start .. end - 1
        BY <1>1, <2>3, <2>6
      <4> QED
        BY <1>1, <2>3, <4>1
    <3>2. ~(y > end - 1)
      <4> SUFFICES ASSUME y > end - 1 PROVE FALSE
        OBVIOUS
      <4>1. end <= L /\ end \in x .. y
        BY <1>1, <2>6
      <4> QED
        BY <1>1, <2>3, <4>1
    <3>3. y = end - 1
      BY <1>1, <3>1, <3>2
    <3> QED
      BY <2>2, <2>6, <3>3
  <2>7. CASE x # start
    <3>1. ~(x <= end - 1)
      <4> SUFFICES ASSUME x <= end - 1 PROVE FALSE
        OBVIOUS
      <4>1. x > 1 /\ x - 1 \in start .. end - 1
        BY <1>1, <2>5, <2>7
      <4> QED
        BY <1>1, <2>3, <4>1
    <3>2. x # end
      BY <1>1, <2>4
    <3> QED
      BY <1>1, <2>2, <3>1, <3>2
  <2> QED
    BY <2>6, <2>7
<1>4. end + 1 > i /\ i \in Nat /\ end + 1 \in Nat
  BY <1>1
<1>5. FieldsFrom(string, word, end + 1) \subseteq FieldsFrom(string, word, i)
  <2> SUFFICES ASSUME NEW g \in FieldsFrom(string, word, end + 1) PROVE g[1] >= i
    BY DEF FieldsFrom
  <2>1. g[1] \in 1 .. L /\ g[1] >= end + 1
    BY DEF FieldsFrom, Fields
  <2> QED
    BY <1>4, <2>1
<1>6. \A g \in FieldsFrom(string, word, i) : g[1] >= end + 1 => g \in FieldsFrom(string, word, end + 1)
  BY DEF FieldsFrom
<1> QED
  BY <1>2, <1>3, <1>5, <1>6

\* A field in front of others.
Onto(x, s) == <<x>> \o s

LEMMA OntoIs ==
  ASSUME NEW S, NEW x \in S, NEW s \in Seq(S)
  PROVE  /\ Onto(x, s) \in Seq(S) /\ Len(Onto(x, s)) = Len(s) + 1 /\ Onto(x, s)[1] = x
         /\ \A c \in 1 .. Len(s) : Onto(x, s)[c + 1] = s[c]
BY DEF Onto

\* The array is that of the fields behind the first, and the first in front.
LEMMA FirstAndRest ==
  ASSUME NEW string, NEW word, Len(string) \in Nat, NEW i \in Nat, NEW f0, NEW j \in Nat, NEW rest,
         f0[1] \in Nat, i <= f0[1], f0[1] < j, f0[2] \in Nat,
         FieldsFrom(string, word, i) = {f0} \cup FieldsFrom(string, word, j),
         SplitsFrom(string, word, rest, j)
  PROVE  SplitsFrom(string, word, Onto(SubSeq(string, f0[1], f0[2]), rest), i)
<1> DEFINE F == FieldsFrom(string, word, j)
           G == FieldsFrom(string, word, i)
           S == Pieces(string)
           sub == SubSeq(string, f0[1], f0[2])
           array == Onto(sub, rest)
<1>1. IsFiniteSet(F) /\ G = {f0} \cup F
  BY FieldsFinite
<1>2. \A g \in F : g[1] \in Nat /\ g[1] >= j /\ f0[1] <= g[1] /\ ~(g[1] <= f0[1])
  BY DEF FieldsFrom, Fields
<1>3. f0 \notin F
  BY <1>2
<1>4. Cardinality(G) = Cardinality(F) + 1 /\ Cardinality(F) \in Nat
  <2> HIDE DEF F, G
  <2>1. G = F \cup {f0}
    BY <1>1
  <2> QED
    BY <1>1, <1>3, <2>1, FS_AddElement, FS_CardinalityType
<1>5. sub \in S /\ rest \in Seq(S) /\ Len(rest) = Cardinality(F)
  <2>1. sub \in S
    <3>1. PICK f \in Nat \X Nat : f[1] = f0[1] /\ f[2] = f0[2]
      <4>1. <<f0[1], f0[2]>> \in Nat \X Nat
        OBVIOUS
      <4> QED
        BY <4>1
    <3>2. sub = SubSeq(string, f[1], f[2])
      BY <3>1
    <3> HIDE DEF sub
    <3> QED
      BY <3>2, Zenon DEF Pieces
  <2>2. rest \in Seq(S) /\ Len(rest) = Cardinality(F)
    BY DEF SplitsFrom
  <2> QED
    BY <2>1, <2>2
<1>6. /\ array \in Seq(S) /\ Len(array) = Len(rest) + 1 /\ array[1] = sub
      /\ \A c \in 1 .. Len(rest) : array[c + 1] = rest[c]
  <2>1. PICK x, T : x = sub /\ T = S
    OBVIOUS
  <2>2. x \in T /\ rest \in Seq(T) /\ array = Onto(x, rest)
    BY <1>5, <2>1
  <2>3. /\ Onto(x, rest) \in Seq(T) /\ Len(Onto(x, rest)) = Len(rest) + 1 /\ Onto(x, rest)[1] = x
        /\ \A c \in 1 .. Len(rest) : Onto(x, rest)[c + 1] = rest[c]
    BY <2>2, OntoIs
  <2> HIDE DEF array, sub, S
  <2> QED
    BY <2>1, <2>2, <2>3
<1>7. ASSUME NEW f \in G
      PROVE  array[Cardinality(UpToField(G, f))] = SubSeq(string, f[1], f[2])
  <2>1. CASE f = f0
    <3>1. UpToField(G, f) = {f0}
      <4> HIDE DEF F, G
      <4> QED
        BY <1>1, <1>2, <2>1 DEF UpToField
    <3>2. Cardinality(UpToField(G, f)) = 1
      BY <3>1, FS_Singleton
    <3> QED
      BY <1>6, <2>1, <3>2
  <2>2. CASE f \in F
    <3>1. UpToField(G, f) = UpToField(F, f) \cup {f0}
      <4> HIDE DEF F, G
      <4> QED
        BY <1>1, <1>2, <2>2 DEF UpToField
    <3>2. f \in UpToField(F, f) /\ UpToField(F, f) \in SUBSET F
      <4> HIDE DEF F
      <4> QED
        BY <1>2, <2>2 DEF UpToField
    <3>3. IsFiniteSet(UpToField(F, f)) /\ Cardinality(UpToField(F, f)) <= Cardinality(F)
      <4> HIDE DEF F
      <4> QED
        BY <1>1, <3>2, FS_Subset
    <3>4. PICK c : c = Cardinality(UpToField(F, f))
      OBVIOUS
    <3>5. c \in Nat /\ c # 0
      BY <3>2, <3>3, <3>4, FS_CardinalityType, FS_EmptySet
    <3>6. c \in 1 .. Len(rest)
      <4>1. c <= Len(rest)
        BY <1>5, <3>3, <3>4
      <4> QED
        BY <1>4, <1>5, <3>5, <4>1
    <3>7. Cardinality(UpToField(G, f)) = c + 1
      <4>1. f0 \notin UpToField(F, f)
        BY <1>3, <3>2
      <4> HIDE DEF F, G
      <4> QED
        BY <3>1, <3>3, <3>4, <4>1, FS_AddElement
    <3>8. rest[c] = SubSeq(string, f[1], f[2])
      BY <2>2, <3>4 DEF SplitsFrom
    <3> HIDE DEF F, G, array, S
    <3> QED
      BY <1>6, <3>6, <3>7, <3>8
  <2> QED
    BY <1>1, <2>1, <2>2
<1> HIDE DEF array, sub
<1>8. Len(array) = Cardinality(G)
  BY <1>4, <1>5, <1>6
<1> QED
  BY <1>6, <1>7, <1>8 DEF SplitsFrom, array, sub

\* From every place where a field may begin, strtok returns the fields from there on.
LEMMA TokensAreTheFields ==
  ASSUME NEW string, NEW word, Len(string) \in Nat, NEW i \in 1 .. Len(string) + 1,
         IsCut(string, word, i)
  PROVE  SplitsFrom(string, word, Tokens(string, word)[i], i)
<1> DEFINE L == Len(string)
           tokens == Tokens(string, word)
           Wrong == {m \in 1 .. L + 1 : IsCut(string, word, m) /\ ~SplitsFrom(string, word, tokens[m], m)}
<1> SUFFICES ASSUME Wrong # {} PROVE FALSE
  OBVIOUS
<1>1. PICK m \in Wrong : \A k \in Wrong : m >= k
  <2>1. Wrong \subseteq 0 .. L + 1 /\ L + 1 \in Nat
    OBVIOUS
  <2> HIDE DEF Wrong
  <2> QED
    BY <2>1, GreatestOf
<1>2. m \in 1 .. L + 1 /\ IsCut(string, word, m) /\ ~SplitsFrom(string, word, tokens[m], m)
  BY <1>1
<1>3. tokens[m] = Split(string, word, tokens, m)
  BY <1>2, TokensAre
<1>4. SplitsFrom(string, word, <<>>, L + 2) /\ FieldsFrom(string, word, L + 2) = {}
  <2>1. FieldsFrom(string, word, L + 2) = {}
    <3> SUFFICES ASSUME NEW f \in FieldsFrom(string, word, L + 2) PROVE FALSE
      OBVIOUS
    <3>1. f[1] \in 1 .. L /\ f[1] >= L + 2
      BY DEF FieldsFrom, Fields
    <3> QED
      BY <3>1
  <2>2. Len(<<>>) = 0 /\ <<>> \in Seq(Pieces(string))
    OBVIOUS
  <2> QED
    BY <2>1, <2>2, FS_EmptySet DEF SplitsFrom
<1>5. CASE From(string, m, Others(string, word)) = {}
  <2>1. tokens[m] = <<>>
    BY <1>3, <1>5 DEF Split
  <2>2. FieldsFrom(string, word, m) = {}
    BY <1>2, <1>5, NoFieldLeft
  <2>3. SplitsFrom(string, word, <<>>, m)
    BY <1>4, <2>2 DEF SplitsFrom
  <2> QED
    BY <1>2, <2>1, <2>3
<1>6. CASE From(string, m, Others(string, word)) # {}
  <2>1. PICK start, end : start = StartOf(string, word, m) /\ end = EndOf(string, word, m)
    OBVIOUS
  <2>2. /\ start \in m .. L /\ end \in start + 1 .. L + 1
        /\ end <= L => string[end] \in Delims(word)
    BY <1>2, <1>6, <2>1, FieldFound
  <2>3. FieldsFrom(string, word, m) = {<<start, end - 1>>} \cup FieldsFrom(string, word, end + 1)
    BY <1>2, <1>6, <2>1, FieldIsFirst
  <2>4. PICK rest : rest = IF end > L THEN <<>> ELSE tokens[end + 1]
    OBVIOUS
  <2>5. tokens[m] = Onto(SubSeq(string, start, end - 1), rest)
    BY <1>3, <1>6, <2>1, <2>4 DEF Split, Onto
  <2>6. SplitsFrom(string, word, rest, end + 1)
    <3>1. CASE end > L
      <4>1. end + 1 = L + 2
        BY <2>2, <3>1
      <4> QED
        BY <1>4, <2>4, <3>1, <4>1
    <3>2. CASE ~(end > L)
      <4>1. end + 1 \in 1 .. L + 1 /\ ~(m >= end + 1) /\ end + 1 - 1 = end
        BY <1>2, <2>2, <3>2
      <4>2. IsCut(string, word, end + 1)
        BY <2>2, <3>2, <4>1 DEF IsCut
      <4>3. end + 1 \notin Wrong
        <5> HIDE DEF Wrong
        <5> QED
          BY <1>1, <4>1
      <4>4. SplitsFrom(string, word, tokens[end + 1], end + 1)
        BY <4>1, <4>2, <4>3
      <4> QED
        BY <2>4, <3>2, <4>4
    <3> QED
      BY <3>1, <3>2
  <2>7. SplitsFrom(string, word, Onto(SubSeq(string, start, end - 1), rest), m)
    <3>1. PICK f0 : f0 = <<start, end - 1>>
      OBVIOUS
    <3>2. f0[1] = start /\ f0[2] = end - 1
      BY <3>1
    <3>3. /\ f0[1] \in Nat /\ m <= f0[1] /\ f0[1] < end + 1 /\ f0[2] \in Nat
          /\ m \in Nat /\ end + 1 \in Nat
      BY <1>2, <2>2, <3>2
    <3>4. SplitsFrom(string, word, Onto(SubSeq(string, f0[1], f0[2]), rest), m)
      BY <2>3, <2>6, <3>1, <3>3, FirstAndRest
    <3> QED
      BY <3>2, <3>4
  <2> QED
    BY <1>2, <2>5, <2>7
<1> QED
  BY <1>5, <1>6

\* What enStrTok stores is the fields of the string, in order.
LEMMA StoresTheFields ==
  ASSUME NEW string, NEW word, Len(string) \in Nat
  PROVE  IsSplit(string, word, enStrTok(string, word).array)
<1>1. 1 \in 1 .. Len(string) + 1 /\ IsCut(string, word, 1)
  BY DEF IsCut
<1>2. SplitsFrom(string, word, Tokens(string, word)[1], 1)
  BY <1>1, TokensAreTheFields
<1>3. FieldsFrom(string, word, 1) = Fields(string, word)
  BY DEF FieldsFrom, Fields
<1>4. enStrTok(string, word).array = Tokens(string, word)[1]
  BY DEF enStrTok
<1> QED
  BY <1>2, <1>3, <1>4 DEF SplitsFrom, UpToField, IsSplit

\* Every field but one at the beginning of the string has a delimiter of its
\* own in front, so the pointers are enough where all of those are counted.
LEMMA FieldsAreCounted ==
  ASSUME NEW string, NEW word, Len(string) \in Nat, ~Uncounted(string, word)
  PROVE  Cardinality(Fields(string, word)) <= Allocated(string, word)
<1> DEFINE L == Len(string)
           D == Delims(word)
           F == Fields(string, word)
           K == {k \in 1 .. L : string[k] \in D}
           before == [f \in F |-> f[1] - 1]
<1>1. /\ F \subseteq (1 .. L) \X (1 .. L)
      /\ \A f \in F : /\ \A k \in f[1] .. f[2] : string[k] \notin D
                      /\ f[1] > 1 => string[f[1] - 1] \in D
                      /\ f[2] < L => string[f[2] + 1] \in D
  BY DEF Fields
<1>2. IsFiniteSet(K) /\ 0 \notin K
  <2>1. IsFiniteSet(1 .. L) /\ K \in SUBSET (1 .. L) /\ 0 \notin K
    BY FS_Interval
  <2> HIDE DEF K
  <2> QED
    BY <2>1, FS_Subset
<1>3. ASSUME NEW f \in F, NEW g \in F, f[1] = g[1], f[2] < g[2]
      PROVE  FALSE
  <2>1. f[2] \in 1 .. L /\ g[2] \in 1 .. L /\ f[1] \in 1 .. L /\ f[1] <= f[2]
    BY DEF Fields
  <2>2. f[2] < L /\ f[2] + 1 \in g[1] .. g[2]
    BY <1>3, <2>1
  <2> HIDE DEF F, D
  <2> QED
    BY <1>1, <2>2
<1>4. \A f \in F : before[f] \in K \cup {0}
  <2> SUFFICES ASSUME NEW f \in F PROVE f[1] - 1 \in K \cup {0}
    OBVIOUS
  <2>1. f[1] \in 1 .. L
    BY <1>1
  <2>2. CASE f[1] = 1
    BY <2>2
  <2>3. CASE f[1] # 1
    <3>1. f[1] > 1 /\ f[1] - 1 \in 1 .. L
      BY <2>1, <2>3
    <3> HIDE DEF F, D
    <3> QED
      BY <1>1, <3>1
  <2> QED
    BY <2>2, <2>3
<1>5. \A f, g \in F : before[f] = before[g] => f = g
  <2> SUFFICES ASSUME NEW f \in F, NEW g \in F, f[1] - 1 = g[1] - 1 PROVE f = g
    OBVIOUS
  <2>1. PICK x1 \in 1 .. L, x2 \in 1 .. L, y1 \in 1 .. L, y2 \in 1 .. L : f = <<x1, x2>> /\ g = <<y1, y2>>
    BY <1>1
  <2>2. f[1] = g[1]
    BY <2>1
  <2>3. ~(f[2] < g[2]) /\ ~(g[2] < f[2])
    BY <1>3, <2>2
  <2> QED
    BY <2>1, <2>2, <2>3
<1>6. before \in Injection(F, K \cup {0})
  <2> HIDE DEF F, K
  <2>1. before \in [F -> K \cup {0}]
    BY <1>4
  <2> QED
    BY <1>5, <2>1 DEF Injection, IsInjective
<1>7. Cardinality(F) <= Cardinality(K) + 1
  <2>1. IsFiniteSet(K \cup {0}) /\ Cardinality(K \cup {0}) = Cardinality(K) + 1
    BY <1>2, FS_AddElement
  <2> HIDE DEF F, K, before
  <2> QED
    BY <1>6, <2>1, FS_Injection
<1>8. Cardinality(K) <= Counted(string, word)
  <2>1. CASE word = <<>>
    <3>1. K = {}
      BY <2>1 DEF Delims
    <3> HIDE DEF K
    <3> QED
      BY <2>1, <3>1, FS_EmptySet DEF Counted
  <2>2. CASE word # <<>>
    <3> DEFINE C == {count \in 1 .. L : string[count] = word[1]}
    <3>1. K \in SUBSET C
      BY DEF Uncounted
    <3>2. IsFiniteSet(C)
      <4>1. IsFiniteSet(1 .. L) /\ C \in SUBSET (1 .. L)
        BY FS_Interval
      <4> HIDE DEF C
      <4> QED
        BY <4>1, FS_Subset
    <3>3. Counted(string, word) = Cardinality(C)
      BY <2>2 DEF Counted
    <3> HIDE DEF C, K
    <3> QED
      BY <3>1, <3>2, <3>3, FS_Subset
  <2> QED
    BY <2>1, <2>2
<1>9. Cardinality(F) \in Nat /\ Cardinality(K) \in Nat /\ Counted(string, word) \in Nat
  <2>1. IsFiniteSet(F)
    <3> HIDE DEF F, K, before
    <3>1. IsFiniteSet(K \cup {0})
      BY <1>2, FS_AddElement
    <3> QED
      BY <1>6, <3>1, FS_Injection
  <2>2. IsFiniteSet({count \in 1 .. L : string[count] = word[1]})
    <3> DEFINE C == {count \in 1 .. L : string[count] = word[1]}
    <3>1. IsFiniteSet(1 .. L) /\ C \in SUBSET (1 .. L)
      BY FS_Interval
    <3> HIDE DEF C
    <3>2. IsFiniteSet(C)
      BY <3>1, FS_Subset
    <3> QED
      BY <3>2 DEF C
  <2>3. Counted(string, word) \in Nat
    BY <2>2, FS_CardinalityType DEF Counted
  <2> HIDE DEF F, K
  <2> QED
    BY <1>2, <2>1, <2>3, FS_CardinalityType
<1> HIDE DEF F, K
<1> QED
  BY <1>7, <1>8, <1>9 DEF Allocated, F

-----------------------------------------------------------------------------
(* The names of a drive.                                                   *)

\* strlen finds the first terminator.
LEMMA StrLenIs ==
  ASSUME NEW M \in Nat, NEW buf \in [1 .. M -> Nat], NEW n \in Nat, n < M,
         buf[n + 1] = Nul, \A k \in 1 .. n : buf[k] # Nul
  PROVE  StrLen(buf) = n
<1> DEFINE Z == {k \in DOMAIN buf : buf[k] = Nul}
<1>1. Z \subseteq Nat /\ n + 1 \in Z /\ \A k \in Z : k >= n + 1
  OBVIOUS
<1>2. StrLen(buf) = Min(Z) - 1
  BY DEF StrLen
<1> HIDE DEF Z
<1>3. Min(Z) \in Z /\ Min(Z) <= n + 1
  BY <1>1, LeastOf
<1>4. Min(Z) = n + 1
  <2>1. PICK x \in Nat : x = Min(Z)
    BY <1>1, <1>3
  <2> QED
    BY <1>1, <1>3, <2>1
<1> QED
  BY <1>2, <1>4

\* The spaces in front of a text.
LEMMA FrontIs ==
  ASSUME NEW M \in Nat, NEW buf \in [1 .. M -> Nat], NEW n \in Nat, n < M, StrLen(buf) = n,
         NEW front \in Nat, front <= n, \A k \in 1 .. front : buf[k] = Blank,
         front = n \/ buf[front + 1] # Blank
  PROVE  FrontSpaces(buf) = front
<1> DEFINE S == {k \in 1 .. n : buf[k] # Blank} \cup {n + 1}
<1>1. S \subseteq Nat /\ front + 1 \in S /\ \A k \in S : k >= front + 1
  OBVIOUS
<1>2. FrontSpaces(buf) = Min(S) - 1
  BY DEF FrontSpaces
<1> HIDE DEF S
<1>3. Min(S) \in S /\ Min(S) <= front + 1
  BY <1>1, LeastOf
<1>4. Min(S) = front + 1
  <2>1. PICK x \in Nat : x = Min(S)
    BY <1>1, <1>3
  <2> QED
    BY <1>1, <1>3, <2>1
<1> QED
  BY <1>2, <1>4

\* The last character of a text that is not blank.
LEMMA LastIs ==
  ASSUME NEW n \in Nat, NEW chars, NEW hi \in 1 .. n, chars[hi] # Blank,
         \A k \in hi + 1 .. n : chars[k] = Blank
  PROVE  Max({k \in 1 .. n : chars[k] # Blank}) = hi
<1> DEFINE S == {k \in 1 .. n : chars[k] # Blank}
<1>1. S \subseteq 0 .. n /\ hi \in S /\ S \subseteq Nat
  OBVIOUS
<1>2. \A k \in S : k <= hi
  <2> SUFFICES ASSUME NEW k \in 1 .. n, chars[k] # Blank, k > hi PROVE FALSE
    OBVIOUS
  <2>1. k \in hi + 1 .. n
    OBVIOUS
  <2> QED
    BY <2>1
<1> HIDE DEF S
<1>3. Max(S) \in S /\ Max(S) >= hi
  BY <1>1, GreatestOf
<1>4. Max(S) = hi
  <2>1. PICK x \in Nat : x = Max(S)
    BY <1>1, <1>3
  <2> QED
    BY <1>1, <1>2, <1>3, <2>1
<1> QED
  BY <1>4 DEF S

LEMMA FirstIs ==
  ASSUME NEW n \in Nat, NEW chars, NEW lo \in 1 .. n, chars[lo] # Blank,
         \A k \in 1 .. lo - 1 : chars[k] = Blank
  PROVE  Min({k \in 1 .. n : chars[k] # Blank}) = lo
<1> DEFINE S == {k \in 1 .. n : chars[k] # Blank}
<1>1. lo \in S /\ S \subseteq Nat
  OBVIOUS
<1>2. \A k \in S : k >= lo
  <2> SUFFICES ASSUME NEW k \in 1 .. n, chars[k] # Blank, k < lo PROVE FALSE
    OBVIOUS
  <2>1. k \in 1 .. lo - 1
    OBVIOUS
  <2> QED
    BY <2>1
<1> HIDE DEF S
<1>3. Min(S) \in S /\ Min(S) <= lo
  BY <1>1, LeastOf
<1>4. Min(S) = lo
  <2>1. PICK x \in Nat : x = Min(S)
    BY <1>1, <1>3
  <2> QED
    BY <1>1, <1>2, <1>3, <2>1
<1> QED
  BY <1>4 DEF S

\* stringTrimSpace empties a text of spaces.
LEMMA BlankIsTrimmed ==
  ASSUME NEW M \in Nat, NEW buf \in [1 .. M -> Nat], NEW n \in Nat, n < M,
         buf[n + 1] = Nul, \A k \in 1 .. n : buf[k] = Blank
  PROVE  CString(stringTrimSpace(buf)) = <<>>
<1>1. StrLen(buf) = n
  BY StrLenIs DEF Nul, Blank
<1>2. FrontSpaces(buf) = n
  BY <1>1, FrontIs
<1>3. RearSpaces(buf) = 0
  BY <1>1, <1>2 DEF RearSpaces
<1>4. PICK r : r = stringTrimSpace(buf)
  OBVIOUS
<1>5. r \in [1 .. M -> Nat] /\ r[1] = Nul
  <2>1. CASE n = 0
    <3>1. r = buf
      BY <1>2, <1>3, <1>4, <2>1 DEF stringTrimSpace
    <3> QED
      BY <2>1, <3>1
  <2>2. CASE n # 0
    <3>1. r = [k \in 1 .. M |-> IF k <= n - n THEN buf[k + n] ELSE IF k = n - n + 1 THEN Nul ELSE buf[k]]
      BY <1>1, <1>2, <1>3, <1>4, <2>2 DEF stringTrimSpace
    <3>2. n - n = 0 /\ \A k \in 1 .. M : ~(k <= 0)
      OBVIOUS
    <3>3. r = [k \in 1 .. M |-> IF k = 1 THEN Nul ELSE buf[k]]
      BY <3>1, <3>2
    <3> QED
      BY <3>3 DEF Nul
  <2> QED
    BY <2>1, <2>2
<1>6. StrLen(r) = 0
  BY <1>5, StrLenIs
<1> QED
  BY <1>4, <1>6, SubSeqEmpty DEF CString

\* It leaves any other text from its first to its last character that is not a space.
LEMMA TextIsTrimmed ==
  ASSUME NEW M \in Nat, NEW buf \in [1 .. M -> Nat], NEW n \in Nat, n < M,
         buf[n + 1] = Nul, \A k \in 1 .. n : buf[k] # Nul,
         NEW lo \in 1 .. n, NEW hi \in lo .. n, buf[lo] # Blank, buf[hi] # Blank,
         \A k \in 1 .. lo - 1 : buf[k] = Blank, \A k \in hi + 1 .. n : buf[k] = Blank
  PROVE  CString(stringTrimSpace(buf)) = SubSeq(buf, lo, hi)
<1>1. StrLen(buf) = n
  BY StrLenIs
<1>2. FrontSpaces(buf) = lo - 1
  <2>1. lo - 1 \in Nat /\ lo - 1 <= n /\ lo - 1 + 1 = lo
    OBVIOUS
  <2> QED
    BY <1>1, <2>1, FrontIs
<1>3. RearSpaces(buf) = n - hi
  <2>1. Max({k \in 1 .. n : buf[k] # Blank}) = hi
    <3>1. hi \in 1 .. n
      OBVIOUS
    <3> QED
      BY <3>1, LastIs
  <2>2. lo - 1 # n
    OBVIOUS
  <2> QED
    BY <1>1, <1>2, <2>1, <2>2 DEF RearSpaces
<1>4. PICK cut : cut = IF n - hi = 0 THEN buf ELSE [buf EXCEPT ![n - (n - hi) + 1] = Nul]
  OBVIOUS
<1>5. /\ cut \in [1 .. M -> Nat] /\ cut[hi + 1] = Nul
      /\ \A k \in 1 .. hi : cut[k] = buf[k] /\ cut[k] # Nul
  <2>1. n - (n - hi) + 1 = hi + 1 /\ hi + 1 \in 1 .. M
    OBVIOUS
  <2>2. cut = IF hi = n THEN buf ELSE [buf EXCEPT ![hi + 1] = Nul]
    BY <1>4, <2>1
  <2>3. CASE hi = n
    BY <2>2, <2>3
  <2>4. CASE hi # n
    <3>1. cut = [buf EXCEPT ![hi + 1] = Nul]
      BY <2>2, <2>4
    <3> QED
      BY <2>1, <3>1 DEF Nul
  <2> QED
    BY <2>3, <2>4
<1>6. PICK r : r = stringTrimSpace(buf)
  OBVIOUS
<1>7. r = IF lo - 1 = 0 THEN cut
          ELSE [k \in 1 .. M |-> IF k <= n - (lo - 1) THEN cut[k + (lo - 1)]
                                 ELSE IF k = n - (lo - 1) + 1 THEN Nul ELSE cut[k]]
  BY <1>1, <1>2, <1>3, <1>4, <1>6 DEF stringTrimSpace
<1> DEFINE len == hi - (lo - 1)
<1>8. len \in Nat /\ len < M /\ len # 0
  OBVIOUS
<1>9. r \in [1 .. M -> Nat] /\ r[len + 1] = Nul /\ \A k \in 1 .. len : r[k] = buf[k + (lo - 1)] /\ r[k] # Nul
  <2>1. CASE lo - 1 = 0
    <3>1. r = cut /\ len = hi
      BY <1>7, <2>1
    <3>2. \A k \in 1 .. hi : k + (lo - 1) = k
      BY <2>1
    <3> QED
      BY <1>5, <3>1, <3>2
  <2>2. CASE lo - 1 # 0
    <3>1. r = [k \in 1 .. M |-> IF k <= n - (lo - 1) THEN cut[k + (lo - 1)]
                                ELSE IF k = n - (lo - 1) + 1 THEN Nul ELSE cut[k]]
      BY <1>7, <2>2
    <3>2. \A k \in 1 .. M : k <= n - (lo - 1) => k + (lo - 1) \in 1 .. M
      OBVIOUS
    <3>3. r \in [1 .. M -> Nat]
      BY <1>5, <3>1, <3>2 DEF Nul
    <3>4. ASSUME NEW k \in 1 .. len
          PROVE  r[k] = buf[k + (lo - 1)] /\ r[k] # Nul
      <4>1. k \in 1 .. M /\ k <= n - (lo - 1) /\ k + (lo - 1) \in 1 .. hi
        OBVIOUS
      <4>2. r[k] = cut[k + (lo - 1)]
        BY <3>1, <4>1
      <4> HIDE DEF len
      <4> QED
        BY <1>5, <4>1, <4>2
    <3>5. r[len + 1] = Nul
      <4>1. len + 1 \in 1 .. M
        BY <1>8
      <4>2. CASE hi = n
        <5>1. ~(len + 1 <= n - (lo - 1)) /\ len + 1 = n - (lo - 1) + 1
          BY <4>2
        <5> QED
          BY <3>1, <4>1, <5>1
      <4>3. CASE hi # n
        <5>1. len + 1 <= n - (lo - 1) /\ len + 1 + (lo - 1) = hi + 1
          BY <4>3
        <5> HIDE DEF len
        <5> QED
          BY <1>5, <3>1, <4>1, <5>1
      <4> QED
        BY <4>2, <4>3
    <3> QED
      BY <3>3, <3>4, <3>5
  <2> QED
    BY <2>1, <2>2
<1>10. StrLen(r) = len
  <2> HIDE DEF len
  <2> QED
    BY <1>8, <1>9, StrLenIs
<1>11. CString(r) = SubSeq(r, 1, len)
  BY <1>10 DEF CString
<1>12. /\ SubSeq(r, 1, len) \in Seq(Nat) /\ Len(SubSeq(r, 1, len)) = len
       /\ \A k \in 1 .. len : SubSeq(r, 1, len)[k] = r[k]
  <2>1. \A k \in 1 .. len : r[k] \in Nat
    BY <1>8, <1>9
  <2> HIDE DEF len
  <2>2. /\ SubSeq(r, 1, len) \in Seq(Nat) /\ Len(SubSeq(r, 1, len)) = len - 1 + 1
        /\ \A k \in 1 .. len - 1 + 1 : SubSeq(r, 1, len)[k] = r[1 + k - 1]
    BY <1>8, <2>1, SubSeqProperties
  <2>3. len - 1 + 1 = len /\ \A k \in 1 .. len : 1 + k - 1 = k
    BY <1>8
  <2> QED
    BY <2>2, <2>3
<1>13. /\ SubSeq(buf, lo, hi) \in Seq(Nat) /\ Len(SubSeq(buf, lo, hi)) = len
       /\ \A k \in 1 .. len : SubSeq(buf, lo, hi)[k] = buf[k + (lo - 1)]
  <2>1. \A k \in lo .. hi : buf[k] \in Nat
    OBVIOUS
  <2>2. /\ SubSeq(buf, lo, hi) \in Seq(Nat) /\ Len(SubSeq(buf, lo, hi)) = hi - lo + 1
        /\ \A k \in 1 .. hi - lo + 1 : SubSeq(buf, lo, hi)[k] = buf[lo + k - 1]
    BY <2>1, SubSeqProperties
  <2>3. hi - lo + 1 = len /\ \A k \in 1 .. len : lo + k - 1 = k + (lo - 1)
    OBVIOUS
  <2> QED
    BY <2>2, <2>3
<1> HIDE DEF len
<1>14. SubSeq(r, 1, len) = SubSeq(buf, lo, hi)
  <2>1. PICK x \in Seq(Nat), y \in Seq(Nat) : x = SubSeq(r, 1, len) /\ y = SubSeq(buf, lo, hi)
    BY <1>12, <1>13
  <2>2. Len(x) = Len(y) /\ Len(x) = len /\ \A k \in 1 .. len : x[k] = y[k]
    BY <1>9, <1>12, <1>13, <2>1
  <2>3. x = y
    BY <1>8, <2>2, SeqEqual
  <2> QED
    BY <2>1, <2>3
<1> QED
  BY <1>6, <1>11, <1>14

\* The characters of a name in their order.
Swapped(source) == [k \in 1 .. Len(source) |-> source[IF k % 2 = 1 THEN k + 1 ELSE k - 1]]

\* The copy of a name holds its characters and a terminator.
LEMMA CopyIs ==
  ASSUME NEW source \in Seq(Nat), Len(source) % 2 = 0, NEW N, N = Len(source),
         NEW buf, buf = copyWordEndianString(source, Len(source) \div 2)
  PROVE  /\ Swapped(source) \in [1 .. N -> Nat]
         /\ buf \in [1 .. N + 1 -> Nat] /\ buf[N + 1] = Nul
         /\ \A k \in 1 .. N : buf[k] = Swapped(source)[k]
<1>1. N \in Nat /\ N % 2 = 0 /\ 2 * (N \div 2) = N
  BY Z3
<1>2. \A k \in 1 .. N : (IF k % 2 = 1 THEN k + 1 ELSE k - 1) \in 1 .. N
  <2> SUFFICES ASSUME NEW k \in 1 .. N PROVE (IF k % 2 = 1 THEN k + 1 ELSE k - 1) \in 1 .. N
    OBVIOUS
  <2>1. CASE k % 2 = 1
    <3>1. k # N
      BY <1>1, <2>1
    <3> QED
      BY <1>1, <2>1, <3>1
  <2>2. CASE k % 2 # 1
    <3>1. k # 1
      BY <2>2
    <3> QED
      BY <1>1, <2>2, <3>1
  <2> QED
    BY <2>1, <2>2
<1>3. \A k \in 1 .. N : source[k] \in Nat
  OBVIOUS
<1>4. Swapped(source) \in [1 .. N -> Nat]
  BY <1>2, <1>3 DEF Swapped
<1>5. buf = [k \in 1 .. N + 1 |-> IF k > N THEN Nul ELSE IF k % 2 = 1 THEN source[k + 1] ELSE source[k - 1]]
  BY <1>1 DEF copyWordEndianString
<1>6. \A k \in 1 .. N : buf[k] = Swapped(source)[k]
  <2> SUFFICES ASSUME NEW k \in 1 .. N PROVE buf[k] = Swapped(source)[k]
    OBVIOUS
  <2>1. k \in 1 .. N + 1 /\ ~(k > N)
    BY <1>1
  <2>2. buf[k] = IF k % 2 = 1 THEN source[k + 1] ELSE source[k - 1]
    BY <1>5, <2>1
  <2>3. Swapped(source)[k] = source[IF k % 2 = 1 THEN k + 1 ELSE k - 1]
    BY DEF Swapped
  <2> QED
    BY <2>2, <2>3
<1>7. buf[N + 1] = Nul
  BY <1>1, <1>5
<1>8. buf \in [1 .. N + 1 -> Nat]
  <2>1. \A k \in 1 .. N + 1 : buf[k] \in Nat
    <3> SUFFICES ASSUME NEW k \in 1 .. N + 1 PROVE buf[k] \in Nat
      OBVIOUS
    <3>1. CASE k = N + 1
      BY <1>7, <3>1 DEF Nul
    <3>2. CASE k # N + 1
      <4>1. k \in 1 .. N
        BY <1>1, <3>2
      <4> QED
        BY <1>4, <1>6, <4>1
    <3> QED
      BY <3>1, <3>2
  <2> QED
    BY <1>5, <2>1
<1> QED
  BY <1>4, <1>6, <1>7, <1>8

\* What is printed of a name is the name.
LEMMA NameIsTrimmed ==
  ASSUME NEW source \in Seq(Nat), Len(source) % 2 = 0
  PROVE  TrimmedName(source) = NameOf(source)
<1> DEFINE N == Len(source)
           chars == Swapped(source)
           ends == {k \in 1 .. N : chars[k] = Nul} \cup {N + 1}
           n == Min(ends) - 1
           solid == {k \in 1 .. n : chars[k] # Blank}
<1>1. PICK buf : buf = copyWordEndianString(source, N \div 2)
  OBVIOUS
<1>2. TrimmedName(source) = CString(stringTrimSpace(buf))
  BY <1>1 DEF TrimmedName
<1>3. NameOf(source) = IF solid = {} THEN <<>> ELSE SubSeq(chars, Min(solid), Max(solid))
  BY DEF NameOf, Swapped
<1>4. /\ N \in Nat /\ chars \in [1 .. N -> Nat]
      /\ buf \in [1 .. N + 1 -> Nat] /\ buf[N + 1] = Nul
      /\ \A k \in 1 .. N : buf[k] = chars[k]
  <2>1. PICK m : m = Len(source)
    OBVIOUS
  <2>2. m \in Nat /\ buf = copyWordEndianString(source, Len(source) \div 2)
    BY <1>1, <2>1
  <2>3. /\ Swapped(source) \in [1 .. m -> Nat]
        /\ buf \in [1 .. m + 1 -> Nat] /\ buf[m + 1] = Nul
        /\ \A k \in 1 .. m : buf[k] = Swapped(source)[k]
    BY <2>1, <2>2, CopyIs
  <2> QED
    BY <2>1, <2>2, <2>3
<1> HIDE DEF chars
<1>5. ends \subseteq Nat /\ ends # {} /\ \A k \in ends : k \in 1 .. N + 1 /\ buf[k] = Nul
  <2>1. ASSUME NEW k \in ends PROVE k \in 1 .. N + 1 /\ buf[k] = Nul
    <3>1. CASE k = N + 1
      BY <1>4, <3>1
    <3>2. CASE k \in 1 .. N /\ chars[k] = Nul
      BY <1>4, <3>2
    <3> QED
      BY <3>1, <3>2
  <2>2. N + 1 \in ends
    OBVIOUS
  <2>3. 1 .. N + 1 \subseteq Nat
    BY <1>4
  <2> HIDE DEF ends
  <2> QED
    BY <2>1, <2>2, <2>3
<1>6. \A k \in 1 .. N : buf[k] = Nul => k \in ends
  BY <1>4
<1>7. n \in Nat /\ n < N + 1 /\ buf[n + 1] = Nul /\ \A k \in 1 .. n : k \in 1 .. N /\ buf[k] # Nul
  <2> HIDE DEF ends
  <2>1. PICK e : e = Min(ends)
    OBVIOUS
  <2>2. e \in ends /\ \A k \in ends : e <= k
    BY <1>5, <2>1, LeastOf
  <2>3. e \in 1 .. N + 1 /\ buf[e] = Nul
    BY <1>5, <2>2
  <2>4. n = e - 1 /\ n + 1 = e
    BY <2>1, <2>3
  <2>5. \A k \in 1 .. e - 1 : k \in 1 .. N /\ buf[k] # Nul
    <3> SUFFICES ASSUME NEW k \in 1 .. e - 1 PROVE k \in 1 .. N /\ buf[k] # Nul
      OBVIOUS
    <3>1. k \in 1 .. N /\ ~(e <= k)
      <4>1. PICK m \in Nat : m = N
        BY <1>4
      <4>2. e \in 1 .. m + 1
        BY <2>3, <4>1
      <4>3. k \in 1 .. m /\ ~(e <= k)
        BY <4>2
      <4> QED
        BY <4>1, <4>3
    <3> QED
      BY <1>6, <2>2, <3>1
  <2> HIDE DEF n
  <2> QED
    BY <1>4, <2>3, <2>4, <2>5
<1> HIDE DEF n, ends
<1>8. N + 1 \in Nat
  BY <1>4
<1>9. CASE solid = {}
  <2>1. \A k \in 1 .. n : buf[k] = Blank
    BY <1>4, <1>7, <1>9
  <2>2. CString(stringTrimSpace(buf)) = <<>>
    BY <1>4, <1>7, <1>8, <2>1, BlankIsTrimmed
  <2> QED
    BY <1>2, <1>3, <1>9, <2>2
<1>10. CASE solid # {}
  <2>1. solid \subseteq Nat /\ solid \subseteq 0 .. n
    BY <1>7
  <2>2. PICK lo, hi : lo = Min(solid) /\ hi = Max(solid)
    OBVIOUS
  <2>3. lo \in solid /\ hi \in solid /\ \A k \in solid : lo <= k /\ k <= hi
    <3> HIDE DEF solid
    <3>1. lo \in solid /\ \A k \in solid : lo <= k
      BY <1>10, <2>1, <2>2, LeastOf
    <3>2. hi \in solid /\ \A k \in solid : hi >= k
      BY <1>7, <1>10, <2>1, <2>2, GreatestOf
    <3>3. hi \in Nat /\ \A k \in solid : k \in Nat
      BY <2>1, <3>2
    <3> QED
      BY <3>1, <3>2, <3>3
  <2>4. lo \in 1 .. n /\ hi \in 1 .. n /\ hi \in lo .. n /\ buf[lo] # Blank /\ buf[hi] # Blank
    <3>1. lo \in 1 .. n /\ hi \in 1 .. n /\ chars[lo] # Blank /\ chars[hi] # Blank
      BY <2>3
    <3>2. lo <= hi
      BY <2>3
    <3> QED
      BY <1>4, <1>7, <3>1, <3>2
  <2>5. \A k \in 1 .. lo - 1 : buf[k] = Blank
    <3> SUFFICES ASSUME NEW k \in 1 .. lo - 1, buf[k] # Blank PROVE FALSE
      OBVIOUS
    <3>1. k \in 1 .. n /\ ~(lo <= k)
      BY <1>7, <2>4
    <3>2. k \in solid
      BY <1>4, <1>7, <3>1
    <3> HIDE DEF solid
    <3> QED
      BY <2>3, <3>1, <3>2
  <2>6. \A k \in hi + 1 .. n : buf[k] = Blank
    <3> SUFFICES ASSUME NEW k \in hi + 1 .. n, buf[k] # Blank PROVE FALSE
      OBVIOUS
    <3>1. k \in 1 .. n /\ ~(k <= hi)
      BY <1>7, <2>4
    <3>2. k \in solid
      BY <1>4, <1>7, <3>1
    <3> HIDE DEF solid
    <3> QED
      BY <2>3, <3>1, <3>2
  <2>7. CString(stringTrimSpace(buf)) = SubSeq(buf, lo, hi)
    <3>1. PICK M \in Nat : M = N + 1
      BY <1>8
    <3>2. buf \in [1 .. M -> Nat] /\ n \in Nat /\ n < M /\ buf[n + 1] = Nul /\ \A k \in 1 .. n : buf[k] # Nul
      BY <1>4, <1>7, <3>1
    <3> QED
      BY <2>4, <2>5, <2>6, <3>2, TextIsTrimmed
  <2>8. SubSeq(buf, lo, hi) = SubSeq(chars, lo, hi)
    <3>1. lo \in Int /\ hi \in Int /\ \A k \in lo .. hi : buf[k] \in Nat /\ chars[k] = buf[k]
      <4>1. lo \in Int /\ hi \in Int /\ \A k \in lo .. hi : k \in 1 .. n
        BY <1>7, <2>4
      <4>2. \A k \in 1 .. N : buf[k] \in Nat /\ chars[k] = buf[k]
        BY <1>4
      <4> QED
        BY <1>7, <4>1, <4>2
    <3>2. PICK x, y : x = SubSeq(buf, lo, hi) /\ y = SubSeq(chars, lo, hi)
      OBVIOUS
    <3>3. /\ x \in Seq(Nat) /\ y \in Seq(Nat) /\ Len(x) = hi - lo + 1 /\ Len(y) = hi - lo + 1
          /\ \A k \in 1 .. hi - lo + 1 : x[k] = buf[lo + k - 1] /\ y[k] = chars[lo + k - 1]
      <4>1. lo <= hi /\ \A k \in lo .. hi : buf[k] \in Nat /\ chars[k] \in Nat
        BY <2>4, <3>1
      <4>2. /\ x \in Seq(Nat) /\ Len(x) = hi - lo + 1
            /\ \A k \in 1 .. hi - lo + 1 : x[k] = buf[lo + k - 1]
        BY <3>1, <3>2, <4>1, SubSeqProperties
      <4>3. /\ y \in Seq(Nat) /\ Len(y) = hi - lo + 1
            /\ \A k \in 1 .. hi - lo + 1 : y[k] = chars[lo + k - 1]
        BY <3>1, <3>2, <4>1, SubSeqProperties
      <4> QED
        BY <4>2, <4>3
    <3>4. \A k \in 1 .. Len(x) : x[k] = y[k]
      <4> SUFFICES ASSUME NEW k \in 1 .. hi - lo + 1 PROVE x[k] = y[k]
        BY <3>3
      <4>1. lo + k - 1 \in lo .. hi
        BY <3>1
      <4> QED
        BY <3>1, <3>3, <4>1
    <3>5. x = y
      BY <3>3, <3>4, SeqEqual
    <3> QED
      BY <3>2, <3>5
  <2> QED
    BY <1>2, <1>3, <1>10, <2>2, <2>7, <2>8
<1> QED
  BY <1>9, <1>10

-----------------------------------------------------------------------------
(* The digits of a capacity.                                               *)

\* A function defined by recursion on 0 .. N exists.
LEMMA RecursionExists ==
  ASSUME NEW N \in Nat, NEW base \in Nat, NEW step \in [(1 .. N) \X Nat -> Nat]
  PROVE  \E f \in [0 .. N -> Nat] : f[0] = base /\ \A n \in 1 .. N : f[n] = step[<<n, f[n - 1]>>]
<1> DEFINE Is(f, m) == /\ f \in [0 .. m -> Nat]
                       /\ f[0] = base /\ \A n \in 1 .. m : f[n] = step[<<n, f[n - 1]>>]
           Missing == {m \in 0 .. N : ~ \E f : Is(f, m)}
<1>1. Missing = {}
  <2> SUFFICES ASSUME Missing # {} PROVE FALSE
    OBVIOUS
  <2>1. PICK m \in Missing : \A k \in Missing : m =< k
    <3>1. Missing \subseteq Nat
      OBVIOUS
    <3> HIDE DEF Missing
    <3> QED
      BY <3>1, LeastOf
  <2>2. m \in 0 .. N /\ ~ \E f : Is(f, m)
    BY <2>1
  <2>3. CASE m = 0
    <3> DEFINE f == [n \in 0 .. m |-> base]
    <3>1. Is(f, m)
      BY <2>3
    <3> QED
      BY <2>2, <3>1
  <2>4. CASE m # 0
    <3>1. m - 1 \in 0 .. N /\ ~(m =< m - 1)
      BY <2>2, <2>4
    <3>2. PICK f : Is(f, m - 1)
      <4>1. m - 1 \notin Missing
        <5> HIDE DEF Missing
        <5> QED
          BY <2>1, <3>1
      <4> QED
        BY <3>1, <4>1
    <3>3. PICK last \in Nat : last = step[<<m, f[m - 1]>>]
      <4>1. f[m - 1] \in Nat
        BY <2>2, <2>4, <3>2
      <4>2. <<m, f[m - 1]>> \in (1 .. N) \X Nat
        BY <2>2, <2>4, <4>1
      <4> QED
        BY <4>2
    <3> DEFINE g == [n \in 0 .. m |-> IF n = m THEN last ELSE f[n]]
    <3>4. \A n \in 0 .. m - 1 : n \in 0 .. m /\ n # m /\ g[n] = f[n] /\ f[n] \in Nat
      BY <2>2, <3>2
    <3>5. g[m] = last /\ m \in 0 .. m
      BY <2>2
    <3>6. g \in [0 .. m -> Nat]
      <4>1. \A n \in 0 .. m : n = m \/ n \in 0 .. m - 1
        BY <2>2
      <4> QED
        BY <3>4, <4>1
    <3> HIDE DEF g
    <3>7. g[0] = base
      <4>1. 0 \in 0 .. m - 1
        BY <2>2, <2>4
      <4> QED
        BY <3>2, <3>4, <4>1
    <3>8. ASSUME NEW n \in 1 .. m
          PROVE  g[n] = step[<<n, g[n - 1]>>]
      <4>1. n - 1 \in 0 .. m - 1 /\ g[n - 1] = f[n - 1]
        BY <2>2, <3>4
      <4>2. CASE n = m
        BY <3>3, <3>5, <4>1, <4>2
      <4>3. CASE n # m
        <5>1. n \in 1 .. m - 1 /\ n \in 0 .. m - 1
          BY <2>2, <4>3
        <5> QED
          BY <3>2, <3>4, <4>1, <5>1
      <4> QED
        BY <4>2, <4>3
    <3>9. Is(g, m)
      BY <3>6, <3>7, <3>8
    <3> QED
      BY <2>2, <3>9
  <2> QED
    BY <2>3, <2>4
<1> QED
  <2>1. N \in 0 .. N
    OBVIOUS
  <2> QED
    BY <1>1, <2>1

\* A property of 0 that each number hands to the next holds of all.
LEMMA Upwards ==
  ASSUME NEW N \in Nat, NEW Good, 0 \in Good, \A n \in 1 .. N : n - 1 \in Good => n \in Good
  PROVE  \A n \in 0 .. N : n \in Good
<1> DEFINE Bad == {n \in 0 .. N : n \notin Good}
<1> SUFFICES ASSUME Bad # {} PROVE FALSE
  OBVIOUS
<1>1. PICK m \in Bad : \A k \in Bad : m =< k
  <2>1. Bad \subseteq Nat
    OBVIOUS
  <2> HIDE DEF Bad
  <2> QED
    BY <2>1, LeastOf
<1>2. m \in 0 .. N /\ m \notin Good /\ m # 0
  BY <1>1
<1>3. m \in 1 .. N /\ m - 1 \in 0 .. N /\ ~(m =< m - 1)
  BY <1>2
<1>4. m - 1 \notin Bad
  <2> HIDE DEF Bad
  <2> QED
    BY <1>1, <1>3
<1> QED
  BY <1>2, <1>3, <1>4

LEMMA DivMod ==
  ASSUME NEW x \in Nat, NEW d \in Nat \ {0}
  PROVE  x \div d \in Nat /\ x % d \in 0 .. d - 1 /\ x = d * (x \div d) + (x % d)
<1> DEFINE q == x \div d
           r == x % d
<1>1. q \in Int /\ r \in 0 .. d - 1 /\ x = d * q + r
  OBVIOUS
<1> HIDE DEF q, r
<1>2. q >= 0
  <2> SUFFICES ASSUME q <= -1 PROVE FALSE
    BY <1>1
  <2>1. d * q <= d * (-1)
    BY <1>1
  <2> QED
    BY <1>1, <2>1
<1> QED
  BY <1>1, <1>2 DEF q, r

LEMMA PowersAre ==
  /\ ThousandTo[0] = 1
  /\ \A n \in 0 .. Groups : ThousandTo[n] \in Nat \ {0}
  /\ \A n \in 1 .. Groups : ThousandTo[n] = ThousandTo[n - 1] * Thousand
<1>1. Groups \in Nat /\ Thousand \in Nat \ {0}
  BY DiskAssumption
<1> DEFINE step == [p \in (1 .. Groups) \X Nat |-> p[2] * Thousand]
           Is(f) == f = [n \in 0 .. Groups |-> IF n = 0 THEN 1 ELSE f[n - 1] * Thousand]
<1>2. step \in [(1 .. Groups) \X Nat -> Nat]
  <2>1. \A p \in (1 .. Groups) \X Nat : p[2] * Thousand \in Nat
    BY <1>1
  <2> QED
    BY <2>1
<1>3. \A n \in 1 .. Groups, y \in Nat : step[<<n, y>>] = y * Thousand
  OBVIOUS
<1> HIDE DEF step
<1>4. PICK f \in [0 .. Groups -> Nat] : f[0] = 1 /\ \A n \in 1 .. Groups : f[n] = step[<<n, f[n - 1]>>]
  <2>1. PICK N \in Nat, y \in Nat : N = Groups /\ y = 1
    BY <1>1
  <2>2. step \in [(1 .. N) \X Nat -> Nat]
    BY <1>2, <2>1
  <2>3. \E f \in [0 .. N -> Nat] : f[0] = y /\ \A n \in 1 .. N : f[n] = step[<<n, f[n - 1]>>]
    BY <2>2, RecursionExists
  <2> QED
    BY <2>1, <2>3
<1>5. \A n \in 1 .. Groups : f[n] = f[n - 1] * Thousand
  <2> SUFFICES ASSUME NEW n \in 1 .. Groups PROVE f[n] = f[n - 1] * Thousand
    OBVIOUS
  <2>1. n - 1 \in 0 .. Groups
    BY <1>1
  <2>2. f[n - 1] \in Nat
    BY <2>1
  <2> QED
    BY <1>3, <1>4, <2>2
<1>6. Is(f)
  <2>1. \A n \in 0 .. Groups : f[n] = IF n = 0 THEN 1 ELSE f[n - 1] * Thousand
    <3> SUFFICES ASSUME NEW n \in 0 .. Groups, n # 0 PROVE f[n] = f[n - 1] * Thousand
      BY <1>4
    <3>1. n \in 1 .. Groups
      BY <1>1
    <3> QED
      BY <1>5, <3>1
  <2> QED
    BY <2>1
<1>7. ThousandTo = CHOOSE g : Is(g)
  BY DEF ThousandTo
<1>8. Is(ThousandTo)
  <2>1. \E g : Is(g)
    BY <1>6
  <2> HIDE DEF Is
  <2> QED
    BY <1>7, <2>1
<1>9. PICK t : t = ThousandTo /\ Is(t)
  BY <1>8
<1>10. t[0] = 1 /\ \A n \in 1 .. Groups : t[n] = t[n - 1] * Thousand
  <2>1. 0 \in 0 .. Groups /\ \A n \in 1 .. Groups : n \in 0 .. Groups /\ n # 0
    BY <1>1
  <2> QED
    BY <1>9, <2>1
<1> HIDE DEF Is
<1>11. \A n \in 0 .. Groups : t[n] \in Nat \ {0}
  <2> DEFINE Good == {n \in 0 .. Groups : t[n] \in Nat \ {0}}
  <2>1. 0 \in Good
    BY <1>1, <1>10
  <2>2. \A n \in 1 .. Groups : n - 1 \in Good => n \in Good
    <3> SUFFICES ASSUME NEW n \in 1 .. Groups, n - 1 \in Good PROVE n \in 0 .. Groups /\ t[n] \in Nat \ {0}
      OBVIOUS
    <3>1. PICK y \in Nat \ {0} : y = t[n - 1]
      OBVIOUS
    <3>2. y * Thousand \in Nat \ {0}
      BY <1>1
    <3> QED
      BY <1>1, <1>10, <3>1, <3>2
  <2> HIDE DEF Good
  <2>3. \A n \in 0 .. Groups : n \in Good
    BY <1>1, <2>1, <2>2, Upwards
  <2> QED
    BY <2>3 DEF Good
<1> QED
  BY <1>9, <1>10, <1>11

\* What is left in front of each group.
LEMMA LeftIs ==
  ASSUME NEW capacity \in Nat
  PROVE  /\ Left(capacity)[0] = capacity
         /\ \A k \in 0 .. Groups : Left(capacity)[k] \in Nat
         /\ \A k \in 1 .. Groups : Left(capacity)[k] = Left(capacity)[k - 1] % ThousandTo[Groups - k]
<1>1. Groups \in Nat /\ \A k \in 1 .. Groups : Groups - k \in 0 .. Groups
  BY DiskAssumption
<1> DEFINE step == [p \in (1 .. Groups) \X Nat |-> p[2] % ThousandTo[Groups - p[1]]]
           Is(f) == f = [k \in 0 .. Groups |-> IF k = 0 THEN capacity ELSE f[k - 1] % ThousandTo[Groups - k]]
<1>2. \A k \in 1 .. Groups, y \in Nat : y % ThousandTo[Groups - k] \in Nat
  BY <1>1, PowersAre, DivMod
<1>3. step \in [(1 .. Groups) \X Nat -> Nat]
  <2>1. \A p \in (1 .. Groups) \X Nat : p[2] % ThousandTo[Groups - p[1]] \in Nat
    BY <1>2
  <2> QED
    BY <2>1
<1>4. \A k \in 1 .. Groups, y \in Nat : step[<<k, y>>] = y % ThousandTo[Groups - k]
  OBVIOUS
<1> HIDE DEF step
<1>5. PICK f \in [0 .. Groups -> Nat] : f[0] = capacity /\ \A k \in 1 .. Groups : f[k] = step[<<k, f[k - 1]>>]
  <2>1. PICK N \in Nat : N = Groups
    BY <1>1
  <2>2. step \in [(1 .. N) \X Nat -> Nat]
    BY <1>3, <2>1
  <2>3. \E f \in [0 .. N -> Nat] : f[0] = capacity /\ \A k \in 1 .. N : f[k] = step[<<k, f[k - 1]>>]
    BY <2>2, RecursionExists
  <2> QED
    BY <2>1, <2>3
<1>6. \A k \in 1 .. Groups : f[k] = f[k - 1] % ThousandTo[Groups - k]
  <2> SUFFICES ASSUME NEW k \in 1 .. Groups PROVE f[k] = f[k - 1] % ThousandTo[Groups - k]
    OBVIOUS
  <2>1. k - 1 \in 0 .. Groups
    BY <1>1
  <2>2. f[k - 1] \in Nat
    BY <2>1
  <2> QED
    BY <1>4, <1>5, <2>2
<1>7. Is(f)
  <2>1. \A k \in 0 .. Groups : f[k] = IF k = 0 THEN capacity ELSE f[k - 1] % ThousandTo[Groups - k]
    <3> SUFFICES ASSUME NEW k \in 0 .. Groups, k # 0 PROVE f[k] = f[k - 1] % ThousandTo[Groups - k]
      BY <1>5
    <3>1. k \in 1 .. Groups
      BY <1>1
    <3> QED
      BY <1>6, <3>1
  <2> QED
    BY <2>1
<1>8. Left(capacity) = CHOOSE g : Is(g)
  BY DEF Left
<1>9. PICK left : left = Left(capacity) /\ Is(left)
  <2>1. \E g : Is(g)
    BY <1>7
  <2> HIDE DEF Is
  <2> QED
    BY <1>8, <2>1
<1>10. left[0] = capacity /\ \A k \in 1 .. Groups : left[k] = left[k - 1] % ThousandTo[Groups - k]
  <2>1. 0 \in 0 .. Groups /\ \A k \in 1 .. Groups : k \in 0 .. Groups /\ k # 0
    BY <1>1
  <2> QED
    BY <1>9, <2>1
<1> HIDE DEF Is
<1>11. \A k \in 0 .. Groups : left[k] \in Nat
  <2> DEFINE Good == {k \in 0 .. Groups : left[k] \in Nat}
  <2>1. 0 \in Good
    BY <1>1, <1>10
  <2>2. \A k \in 1 .. Groups : k - 1 \in Good => k \in Good
    <3> SUFFICES ASSUME NEW k \in 1 .. Groups, k - 1 \in Good PROVE k \in 0 .. Groups /\ left[k] \in Nat
      OBVIOUS
    <3>1. PICK y \in Nat : y = left[k - 1]
      OBVIOUS
    <3>2. y % ThousandTo[Groups - k] \in Nat
      BY <1>2
    <3>3. left[k] = y % ThousandTo[Groups - k]
      BY <1>10, <3>1
    <3>4. k \in 0 .. Groups
      BY <1>1
    <3> QED
      BY <3>2, <3>3, <3>4
  <2> HIDE DEF Good
  <2>3. \A k \in 0 .. Groups : k \in Good
    BY <1>1, <2>1, <2>2, Upwards
  <2> QED
    BY <2>3 DEF Good
<1> QED
  BY <1>9, <1>10, <1>11

\* The value of groups of digits, group by group.
LEMMA ValueIs ==
  ASSUME NEW groups, NEW N \in Nat, N = Len(groups), \A n \in 1 .. N : groups[n] \in Nat
  PROVE  \E value : /\ Value(groups) = value[N]
                    /\ value[0] = 0 /\ \A n \in 0 .. N : value[n] \in Nat
                    /\ \A n \in 1 .. N : value[n] = value[n - 1] * Thousand + groups[n]
<1>1. Thousand \in Nat
  BY DiskAssumption
<1> DEFINE step == [p \in (1 .. N) \X Nat |-> p[2] * Thousand + groups[p[1]]]
           Is(f) == f = [n \in 0 .. N |-> IF n = 0 THEN 0 ELSE f[n - 1] * Thousand + groups[n]]
<1>2. \A n \in 1 .. N, y \in Nat : y * Thousand + groups[n] \in Nat
  <2> SUFFICES ASSUME NEW n \in 1 .. N, NEW y \in Nat PROVE y * Thousand + groups[n] \in Nat
    OBVIOUS
  <2>1. y * Thousand \in Nat
    BY <1>1
  <2> QED
    BY <2>1
<1>3. step \in [(1 .. N) \X Nat -> Nat]
  <2>1. \A p \in (1 .. N) \X Nat : p[2] * Thousand + groups[p[1]] \in Nat
    BY <1>2
  <2> QED
    BY <2>1
<1>4. \A n \in 1 .. N, y \in Nat : step[<<n, y>>] = y * Thousand + groups[n]
  OBVIOUS
<1> HIDE DEF step
<1>5. PICK f \in [0 .. N -> Nat] : f[0] = 0 /\ \A n \in 1 .. N : f[n] = step[<<n, f[n - 1]>>]
  <2>1. PICK zero \in Nat : zero = 0
    OBVIOUS
  <2>2. \E f \in [0 .. N -> Nat] : f[0] = zero /\ \A n \in 1 .. N : f[n] = step[<<n, f[n - 1]>>]
    BY <1>3, RecursionExists
  <2> QED
    BY <2>1, <2>2
<1>6. \A n \in 1 .. N : f[n] = f[n - 1] * Thousand + groups[n]
  <2> SUFFICES ASSUME NEW n \in 1 .. N PROVE f[n] = f[n - 1] * Thousand + groups[n]
    OBVIOUS
  <2>1. n - 1 \in 0 .. N
    OBVIOUS
  <2>2. f[n - 1] \in Nat
    BY <2>1
  <2> QED
    BY <1>4, <1>5, <2>2
<1>7. Is(f)
  <2>1. \A n \in 0 .. N : f[n] = IF n = 0 THEN 0 ELSE f[n - 1] * Thousand + groups[n]
    <3> SUFFICES ASSUME NEW n \in 0 .. N, n # 0 PROVE f[n] = f[n - 1] * Thousand + groups[n]
      BY <1>5
    <3>1. n \in 1 .. N
      OBVIOUS
    <3> QED
      BY <1>6, <3>1
  <2> QED
    BY <2>1
<1>8. PICK value : value = (CHOOSE g : Is(g)) /\ Is(value)
  <2>1. \E g : Is(g)
    BY <1>7
  <2> HIDE DEF Is
  <2>2. Is(CHOOSE g : Is(g))
    BY <2>1
  <2> QED
    BY <2>2
<1>9. Value(groups) = value[N]
  BY <1>8 DEF Value
<1>10. value[0] = 0 /\ \A n \in 1 .. N : value[n] = value[n - 1] * Thousand + groups[n]
  <2>1. 0 \in 0 .. N /\ \A n \in 1 .. N : n \in 0 .. N /\ n # 0
    OBVIOUS
  <2> QED
    BY <1>8, <2>1
<1> HIDE DEF Is
<1>11. \A n \in 0 .. N : value[n] \in Nat
  <2> DEFINE Good == {n \in 0 .. N : value[n] \in Nat}
  <2>1. 0 \in Good
    BY <1>10
  <2>2. \A n \in 1 .. N : n - 1 \in Good => n \in Good
    <3> SUFFICES ASSUME NEW n \in 1 .. N, n - 1 \in Good PROVE n \in 0 .. N /\ value[n] \in Nat
      OBVIOUS
    <3>1. PICK y \in Nat : y = value[n - 1]
      OBVIOUS
    <3>2. y * Thousand + groups[n] \in Nat
      BY <1>2
    <3>3. value[n] = y * Thousand + groups[n]
      BY <1>10, <3>1
    <3>4. n \in 0 .. N
      OBVIOUS
    <3> QED
      BY <3>2, <3>3, <3>4
  <2> HIDE DEF Good
  <2>3. \A n \in 0 .. N : n \in Good
    BY <2>1, <2>2, Upwards
  <2> QED
    BY <2>3 DEF Good
<1> QED
  BY <1>9, <1>10, <1>11

\* What groups of value v, and what is left behind them, make together; and
\* what they make with one more group taken out of what is left.
Before(v, d, t, x) == v * (d * t) + x
Behind(v, d, t, x) == (v * t + (x \div d)) * d + (x % d)

\* One more group adds its digits behind those of the others.
LEMMA OneMoreGroup ==
  ASSUME NEW v \in Nat, NEW t \in Nat \ {0}, NEW d \in Nat \ {0}, NEW x \in Nat
  PROVE  Behind(v, d, t, x) = Before(v, d, t, x)
<1> DEFINE q == x \div d
           r == x % d
<1>1. q \in Nat /\ r \in Nat /\ x = d * q + r
  BY DivMod
<1> HIDE DEF q, r
<1>2. (v * t + q) * d = v * (d * t) + d * q
  BY <1>1
<1>3. v * (d * t) \in Nat /\ d * q \in Nat
  BY <1>1
<1>4. PICK m \in Nat, n \in Nat : m = v * (d * t) /\ n = d * q
  BY <1>3
<1>5. (v * t + q) * d = m + n /\ x = n + r
  BY <1>1, <1>2, <1>4
<1>6. (v * t + q) * d + r = m + x
  BY <1>1, <1>4, <1>5
<1> QED
  BY <1>4, <1>6 DEF q, r, Before, Behind

\* The groups that are printed have the value of the capacity, and none of
\* zeros is in front of another.
LEMMA DigitsAreTheCapacity ==
  ASSUME NEW capacity \in Nat
  PROVE  /\ Value(Digits(capacity)) = capacity
         /\ Digits(capacity)[1] = 0 => Len(Digits(capacity)) = 1
<1>1. PICK G \in Nat \ {0}, T \in Nat : G = Groups /\ T = Thousand
  BY DiskAssumption
<1>2. PICK tt, left : tt = ThousandTo /\ left = Left(capacity)
  OBVIOUS
<1>3. /\ tt[0] = 1 /\ \A n \in 0 .. G : tt[n] \in Nat \ {0}
      /\ \A n \in 1 .. G : tt[n] = tt[n - 1] * T
  BY <1>1, <1>2, PowersAre
<1>4. /\ left[0] = capacity /\ \A k \in 0 .. G : left[k] \in Nat
      /\ \A k \in 1 .. G : left[k] = left[k - 1] % tt[G - k]
  BY <1>1, <1>2, LeftIs
<1> DEFINE group(k) == Group(capacity, k)
           S == {k \in 0 .. G - 1 : group(k) > 0} \cup {G - 1}
<1>5. \A k \in 0 .. G - 1 : group(k) = left[k] \div tt[G - 1 - k] /\ group(k) \in Nat
  <2> SUFFICES ASSUME NEW k \in 0 .. G - 1
               PROVE  group(k) = left[k] \div tt[G - 1 - k] /\ group(k) \in Nat
    OBVIOUS
  <2>1. group(k) = left[k] \div tt[G - 1 - k]
    BY <1>1, <1>2 DEF Group
  <2>2. k \in 0 .. G /\ G - 1 - k \in 0 .. G
    OBVIOUS
  <2>3. left[k] \in Nat /\ tt[G - 1 - k] \in Nat \ {0}
    BY <1>3, <1>4, <2>2
  <2> HIDE DEF group
  <2> QED
    BY <2>1, <2>3, DivMod
<1>6. PICK started : started = Min(S)
  OBVIOUS
<1>7. Digits(capacity) = [n \in 1 .. G - started |-> group(started + n - 1)]
  BY <1>1, <1>6 DEF Digits
<1> HIDE DEF group
<1>8. /\ started \in 0 .. G - 1
      /\ \A k \in 0 .. started - 1 : group(k) = 0
      /\ started # G - 1 => group(started) # 0
  <2>1. S \subseteq Nat /\ S # {} /\ \A k \in S : k \in 0 .. G - 1 /\ (k # G - 1 => group(k) > 0)
    OBVIOUS
  <2>2. \A k \in 0 .. G - 1 : group(k) > 0 => k \in S
    OBVIOUS
  <2> HIDE DEF S
  <2>3. started \in S /\ \A k \in S : started =< k
    BY <1>6, <2>1, LeastOf
  <2>4. started \in 0 .. G - 1
    BY <2>1, <2>3
  <2>5. ASSUME NEW k \in 0 .. started - 1
        PROVE  group(k) = 0
    <3>1. k \in 0 .. G - 1 /\ ~(started =< k)
      BY <2>4
    <3>2. ~(group(k) > 0)
      BY <2>2, <2>3, <3>1
    <3> QED
      BY <1>5, <3>1, <3>2
  <2>6. started # G - 1 => group(started) # 0
    BY <1>5, <2>1, <2>3, <2>4
  <2> QED
    BY <2>4, <2>5, <2>6
<1> HIDE DEF S
<1>9. PICK N \in Nat \ {0} : N = G - started
  BY <1>8
<1>10. PICK digits : digits = Digits(capacity)
  OBVIOUS
<1>11. \A n \in 1 .. N : started + n - 1 \in 0 .. G - 1
  BY <1>8, <1>9
<1>12. digits \in [1 .. N -> Nat] /\ \A n \in 1 .. N : digits[n] = group(started + n - 1)
  <2>1. digits = [n \in 1 .. N |-> group(started + n - 1)]
    BY <1>7, <1>9, <1>10
  <2> QED
    BY <1>5, <1>11, <2>1
<1>13. Len(digits) = N
  BY <1>12, SeqOfLen
<1>14. digits[1] = 0 => N = 1
  <2>1. 1 \in 1 .. N /\ started + 1 - 1 = started
    BY <1>8
  <2>2. digits[1] = group(started)
    BY <1>12, <2>1
  <2>3. N # 1 => started # G - 1
    BY <1>8, <1>9
  <2> QED
    BY <1>8, <2>2, <2>3
<1>15. PICK value : /\ Value(digits) = value[N]
                    /\ value[0] = 0 /\ \A n \in 0 .. N : value[n] \in Nat
                    /\ \A n \in 1 .. N : value[n] = value[n - 1] * T + digits[n]
  <2>1. \A n \in 1 .. N : digits[n] \in Nat
    BY <1>12
  <2> QED
    <3>1. N \in Nat /\ N = Len(digits)
      BY <1>13
    <3>2. \E value : /\ Value(digits) = value[N]
                     /\ value[0] = 0 /\ \A n \in 0 .. N : value[n] \in Nat
                     /\ \A n \in 1 .. N : value[n] = value[n - 1] * Thousand + digits[n]
      BY <2>1, <3>1, ValueIs, Zenon
    <3> QED
      BY <1>1, <3>2
<1>16. left[started] = capacity
  <2> DEFINE Good == {k \in 0 .. started : left[k] = capacity}
  <2>1. 0 \in Good
    BY <1>4, <1>8
  <2>2. \A k \in 1 .. started : k - 1 \in Good => k \in Good
    <3> SUFFICES ASSUME NEW k \in 1 .. started, left[k - 1] = capacity PROVE k \in 0 .. started /\ left[k] = capacity
      OBVIOUS
    <3>1. /\ k \in 1 .. G /\ k - 1 \in 0 .. started - 1 /\ k - 1 \in 0 .. G - 1 /\ k \in 0 .. started
          /\ G - 1 - (k - 1) = G - k /\ G - k \in 0 .. G
      BY <1>8
    <3>2. capacity \div tt[G - k] = 0
      BY <1>5, <1>8, <3>1
    <3>3. left[k] = capacity % tt[G - k]
      BY <1>4, <3>1
    <3>4. PICK d \in Nat \ {0} : d = tt[G - k]
      BY <1>3, <3>1
    <3>5. capacity = d * (capacity \div d) + (capacity % d) /\ capacity % d \in Nat
      BY DivMod
    <3>6. capacity = d * 0 + (capacity % d)
      BY <3>2, <3>4, <3>5
    <3>7. d * 0 = 0
      BY <3>4
    <3> QED
      BY <3>1, <3>3, <3>4, <3>5, <3>6, <3>7
  <2> HIDE DEF Good
  <2>3. PICK m \in Nat : m = started
    BY <1>8
  <2>4. \A k \in 0 .. m : k \in Good
    BY <2>1, <2>2, <2>3, Upwards
  <2>5. started \in 0 .. m
    BY <2>3
  <2> QED
    BY <2>4, <2>5 DEF Good
<1>17. \A n \in 0 .. N : value[n] * tt[N - n] + left[started + n] = capacity
  <2> DEFINE Good == {n \in 0 .. N : value[n] * tt[N - n] + left[started + n] = capacity}
  <2>1. 0 \in Good
    <3>1. N - 0 = N /\ N \in 0 .. G /\ started + 0 = started
      BY <1>8, <1>9
    <3>2. tt[N] \in Nat
      BY <1>3, <3>1
    <3>3. 0 * tt[N] = 0
      BY <3>2
    <3> QED
      BY <1>15, <1>16, <3>1, <3>3
  <2>2. \A n \in 1 .. N : n - 1 \in Good => n \in Good
    <3> SUFFICES ASSUME NEW n \in 1 .. N,
                        value[n - 1] * tt[N - (n - 1)] + left[started + (n - 1)] = capacity
                 PROVE  n \in 0 .. N /\ value[n] * tt[N - n] + left[started + n] = capacity
      OBVIOUS
    <3>1. PICK k \in 0 .. G - 1 : k = started + n - 1
      BY <1>11
    <3>2. /\ started + (n - 1) = k /\ started + n = k + 1 /\ k + 1 \in 1 .. G /\ k + 1 - 1 = k
          /\ N - (n - 1) = N - n + 1 /\ N - n + 1 \in 1 .. G /\ N - n + 1 - 1 = N - n
          /\ G - (k + 1) = N - n /\ G - 1 - k = N - n /\ N - n \in 0 .. G /\ k \in 0 .. G
          /\ n \in 0 .. N /\ n - 1 \in 0 .. N
      BY <1>8, <1>9, <3>1
    <3>3. PICK v \in Nat, d \in Nat \ {0}, x \in Nat : v = value[n - 1] /\ d = tt[N - n] /\ x = left[k]
      BY <1>3, <1>4, <1>15, <3>2
    <3>4. tt[N - n + 1] = d * T
      BY <1>3, <3>2, <3>3
    <3>5. v * (d * T) + x = capacity
      BY <3>2, <3>3, <3>4
    <3>6. T \in Nat \ {0}
      BY <1>1, DiskAssumption
    <3>7. (v * T + (x \div d)) * d + (x % d) = capacity
      <4>1. Behind(v, d, T, x) = Before(v, d, T, x)
        BY <3>6, OneMoreGroup
      <4> QED
        BY <3>5, <4>1 DEF Before, Behind
    <3>8. digits[n] = x \div d
      BY <1>5, <1>12, <3>1, <3>2, <3>3
    <3>9. value[n] = v * T + (x \div d)
      BY <1>15, <3>3, <3>8
    <3>10. left[started + n] = x % d
      BY <1>4, <3>2, <3>3
    <3> QED
      BY <3>2, <3>3, <3>7, <3>9, <3>10
  <2> HIDE DEF Good
  <2>3. \A n \in 0 .. N : n \in Good
    BY <2>1, <2>2, Upwards
  <2> QED
    BY <2>3 DEF Good
<1>18. value[N] = capacity
  <2>1. N \in 0 .. N /\ N - N = 0 /\ started + N = G /\ G \in 1 .. G /\ G - G = 0 /\ G - 1 \in 0 .. G
    BY <1>8, <1>9
  <2>2. value[N] * 1 + left[G] = capacity
    BY <1>3, <1>17, <2>1
  <2>3. PICK x \in Nat : x = left[G - 1]
    BY <1>4, <2>1
  <2>4. left[G] = x % 1
    BY <1>3, <1>4, <2>1, <2>3
  <2>5. x % 1 = 0
    BY <2>3
  <2>6. value[N] \in Nat
    BY <1>15, <2>1
  <2> QED
    BY <2>2, <2>4, <2>5, <2>6
<1> QED
  BY <1>10, <1>13, <1>14, <1>15, <1>18

-----------------------------------------------------------------------------
(* What the programs end with.                                             *)

LEMMA Positive ==
  ASSUME NEW x \in Nat \ {0}, NEW y \in Nat \ {0}
  PROVE  x * y \in Nat \ {0}
OBVIOUS

LEMMA SmallMod ==
  ASSUME NEW d \in Nat \ {0}, NEW x \in Nat, x < d
  PROVE  x % d = x
OBVIOUS

LEMMA Word64Positive == Word64 \in Nat \ {0}
<1>1. PICK w \in Nat \ {0} : w = Word16
  BY DiskAssumption
<1>2. PICK y \in Nat \ {0} : y = w * w
  BY Positive
<1>3. PICK z \in Nat \ {0} : z = y * w
  BY Positive
<1>4. z * w \in Nat \ {0}
  BY Positive
<1> QED
  BY <1>1, <1>2, <1>3, <1>4 DEF Word64

\* The count of sectors is a number.
LEMMA SectorsAreANumber ==
  ASSUME NEW drive,
         {drive.w60, drive.w61, drive.w100, drive.w101, drive.w102, drive.w103} \subseteq 0 .. Word16 - 1
  PROVE  get_num_sectors(drive) \in Nat
<1>1. PICK w \in Nat \ {0} : w = Word16
  BY DiskAssumption
<1>2. /\ drive.w60 \in Nat /\ drive.w61 \in Nat /\ drive.w100 \in Nat
      /\ drive.w101 \in Nat /\ drive.w102 \in Nat /\ drive.w103 \in Nat
  BY <1>1
<1>3. \A x \in Nat, y \in Nat : x * w + y \in Nat
  <2> SUFFICES ASSUME NEW x \in Nat, NEW y \in Nat PROVE x * w + y \in Nat
    OBVIOUS
  <2>1. x * w \in Nat
    OBVIOUS
  <2> QED
    BY <2>1
<1>4. PICK lba32 \in Nat : lba32 = drive.w61 * w + drive.w60
  BY <1>2, <1>3
<1>5. PICK lba64 \in Nat :
        lba64 = IF drive.valid = 1 /\ drive.wide
                THEN ((drive.w103 * w + drive.w102) * w + drive.w101) * w + drive.w100 ELSE 0
  <2>1. PICK x \in Nat : x = drive.w103 * w + drive.w102
    BY <1>2, <1>3
  <2>2. PICK y \in Nat : y = x * w + drive.w101
    BY <1>2, <1>3
  <2>3. y * w + drive.w100 \in Nat
    BY <1>2, <1>3
  <2> QED
    BY <2>1, <2>2, <2>3
<1>6. get_num_sectors(drive) = IF ~drive.lba THEN 0 ELSE Max({lba32, lba64})
  BY <1>1, <1>4, <1>5 DEF get_num_sectors
<1>7. Max({lba32, lba64}) \in {lba32, lba64}
  <2>1. lba32 + lba64 \in Nat /\ {lba32, lba64} \subseteq 0 .. lba32 + lba64
    OBVIOUS
  <2> QED
    BY <2>1, GreatestOf
<1> QED
  BY <1>6, <1>7

\* What main prints is the drive it read.
LEMMA PrintsWhatItRead ==
  ASSUME NEW disk \in DiskInputs, NEW report,
         report = PrintDisk(disk.opens, disk.identifies, disk.names, disk.drive)
  PROVE  /\ report.ret = 0 <=> disk.opens /\ disk.identifies # "fail"
         /\ report.ret = 0 =>
              LET bytes == get_num_sectors(disk.drive) * SectorSize IN
              /\ report.names = [n \in DOMAIN disk.names |-> NameOf(disk.names[n])]
              /\ bytes < Word64 => Value(report.digits) = bytes /\ report.size = bytes \div Giga
              /\ report.digits[1] = 0 => Len(report.digits) = 1
<1> DEFINE bytes == get_num_sectors(disk.drive) * SectorSize
           capacity == Capacity(disk.drive)
<1>1. readMBR(disk.opens, disk.identifies) = 0 <=> disk.opens /\ disk.identifies # "fail"
  <2>1. PICK opens \in BOOLEAN, identifies \in {"identify", "pidentify", "fail"} :
          opens = disk.opens /\ identifies = disk.identifies
    BY DriveAssumption
  <2>2. readMBR(opens, identifies) = 0 <=> opens /\ identifies # "fail"
    BY DEF readMBR, Errno
  <2> QED
    BY <2>1, <2>2
<1>2. report.ret = readMBR(disk.opens, disk.identifies)
  BY DEF PrintDisk
<1>3. report.ret = 0 => /\ report.names = [n \in DOMAIN disk.names |-> TrimmedName(disk.names[n])]
                         /\ report.digits = Digits(capacity)
                         /\ report.size = capacity \div Giga
  BY <1>2 DEF PrintDisk
<1>4. [n \in DOMAIN disk.names |-> TrimmedName(disk.names[n])] = [n \in DOMAIN disk.names |-> NameOf(disk.names[n])]
  <2>1. ASSUME NEW n \in DOMAIN disk.names
        PROVE  TrimmedName(disk.names[n]) = NameOf(disk.names[n])
    <3>1. PICK source : source = disk.names[n]
      OBVIOUS
    <3>2. source \in Seq(Nat) /\ Len(source) % 2 = 0
      BY <3>1, DriveAssumption
    <3>3. TrimmedName(source) = NameOf(source)
      BY <3>2, NameIsTrimmed
    <3> QED
      BY <3>1, <3>3
  <2> QED
    BY <2>1
<1>5. bytes \in Nat
  <2>1. get_num_sectors(disk.drive) \in Nat
    BY DriveAssumption, SectorsAreANumber
  <2> QED
    BY <2>1, DiskAssumption
<1>6. capacity = bytes % Word64
  BY DEF Capacity
<1> HIDE DEF bytes, capacity
<1>7. capacity \in Nat
  BY <1>5, <1>6, Word64Positive, DivMod
<1>8. bytes < Word64 => capacity = bytes
  BY <1>5, <1>6, Word64Positive, SmallMod
<1>9. /\ Value(Digits(capacity)) = capacity
      /\ Digits(capacity)[1] = 0 => Len(Digits(capacity)) = 1
  BY <1>7, DigitsAreTheCapacity
<1>10. report.ret = 0 =>
         /\ report.names = [n \in DOMAIN disk.names |-> NameOf(disk.names[n])]
         /\ bytes < Word64 => Value(report.digits) = bytes /\ report.size = bytes \div Giga
         /\ report.digits[1] = 0 => Len(report.digits) = 1
  BY <1>3, <1>4, <1>8, <1>9
<1> QED
  BY <1>1, <1>2, <1>10 DEF bytes

\* What each program ends with is what it computes from its input.
SmallInv ==
  /\ program = "token" =>
       /\ input \in TokenInputs
       /\ outcome # NoOutcome => outcome = enStrTok(input.string, input.word)
  /\ program = "disk" =>
       /\ input \in DiskInputs
       /\ outcome # NoOutcome =>
            outcome = PrintDisk(input.opens, input.identifies, input.names, input.drive)

LEMMA SmallInvariant == SmallSpec => []SmallInv
<1>1. SmallInit => SmallInv
  BY DEF SmallInit, SmallInv
<1>2. SmallInv /\ [SmallNext]_smallVars => SmallInv'
  <2> SUFFICES ASSUME SmallInv, [SmallNext]_smallVars PROVE SmallInv'
    OBVIOUS
  <2>1. CASE SplitToken
    BY <2>1 DEF SplitToken, Runs, SmallInv
  <2>2. CASE ReadDisk
    BY <2>2 DEF ReadDisk, Runs, SmallInv
  <2>3. CASE UNCHANGED smallVars
    BY <2>3 DEF smallVars, SmallInv
  <2> QED
    BY <2>1, <2>2, <2>3 DEF SmallNext
<1> QED
  BY <1>1, <1>2, PTL DEF SmallSpec

\* FieldsFitTheArray for every set of strings and words: enStrTok stores the fields
\* in their order, and what it allocates is enough for them.
THEOREM TokensFit == SmallSpec => []FieldsFitTheArray
<1>1. SmallInv => FieldsFitTheArray
  <2> SUFFICES ASSUME SmallInv, program = "token", outcome # NoOutcome
               PROVE  /\ IsSplit(input.string, input.word, outcome.array)
                      /\ ~Uncounted(input.string, input.word) => Len(outcome.array) <= outcome.argc
    BY DEF FieldsFitTheArray, Ran
  <2>1. PICK string, word : string = input.string /\ word = input.word
    OBVIOUS
  <2>2. Len(string) \in Nat /\ outcome = enStrTok(string, word)
    BY <2>1, TokenAssumption DEF SmallInv
  <2>3. IsSplit(string, word, outcome.array)
    BY <2>2, StoresTheFields
  <2>4. Len(outcome.array) = Cardinality(Fields(string, word)) /\ outcome.argc = Allocated(string, word)
    BY <2>2, <2>3 DEF IsSplit, enStrTok
  <2>5. ~Uncounted(string, word) => Cardinality(Fields(string, word)) <= Allocated(string, word)
    BY <2>2, FieldsAreCounted
  <2> QED
    BY <2>1, <2>3, <2>4, <2>5
<1> QED
  BY <1>1, SmallInvariant, PTL

\* PrintsTheDrive for every drive, and for words, sectors and groups of any size:
\* names, gigabytes and the digits main keeps in a string are those of the drive.
THEOREM DriveIsPrinted == SmallSpec => []PrintsTheDrive
<1>1. SmallInv => PrintsTheDrive
  <2> SUFFICES ASSUME SmallInv, program = "disk", outcome # NoOutcome PROVE PrintsTheDrive
    BY DEF PrintsTheDrive, Ran
  <2>1. PICK disk, report : disk = input /\ report = outcome
    OBVIOUS
  <2>2. /\ disk \in DiskInputs
        /\ report = PrintDisk(disk.opens, disk.identifies, disk.names, disk.drive)
    BY <2>1 DEF SmallInv
  <2>3. /\ report.ret = 0 <=> disk.opens /\ disk.identifies # "fail"
        /\ report.ret = 0 =>
             LET bytes == get_num_sectors(disk.drive) * SectorSize IN
             /\ report.names = [n \in DOMAIN disk.names |-> NameOf(disk.names[n])]
             /\ bytes < Word64 => Value(report.digits) = bytes /\ report.size = bytes \div Giga
             /\ report.digits[1] = 0 => Len(report.digits) = 1
    BY <2>2, PrintsWhatItRead
  <2> QED
    BY <2>1, <2>3 DEF PrintsTheDrive
<1> QED
  BY <1>1, SmallInvariant, PTL

-----------------------------------------------------------------------------
(* The bits of an unsigned short.                                          *)

LEMMA QuotientIs ==
  ASSUME NEW x \in Nat, NEW d \in Nat \ {0}, NEW h \in Nat, NEW r \in 0 .. d - 1, x = d * h + r
  PROVE  x \div d = h
<1> DEFINE q == x \div d
           m == x % d
<1>1. q \in Nat /\ m \in 0 .. d - 1 /\ x = d * q + m
  BY DivMod
<1> HIDE DEF q, m
<1>2. ~(q < h)
  <2> SUFFICES ASSUME q + 1 <= h PROVE FALSE
    BY <1>1
  <2>1. d * (q + 1) <= d * h
    BY <1>1
  <2>2. d * (q + 1) = d * q + d
    BY <1>1
  <2> QED
    BY <1>1, <2>1, <2>2
<1>3. ~(h < q)
  <2> SUFFICES ASSUME h + 1 <= q PROVE FALSE
    BY <1>1
  <2>1. d * (h + 1) <= d * q
    BY <1>1
  <2>2. d * (h + 1) = d * h + d
    BY <1>1
  <2> QED
    BY <1>1, <2>1, <2>2
<1> QED
  BY <1>1, <1>2, <1>3 DEF q

LEMMA RemainderIs ==
  ASSUME NEW x \in Nat, NEW d \in Nat \ {0}, NEW h \in Nat, NEW r \in 0 .. d - 1, x = d * h + r
  PROVE  x % d = r
<1>1. x \div d = h
  BY QuotientIs
<1>2. x = d * (x \div d) + (x % d) /\ x % d \in 0 .. d - 1
  BY DivMod
<1>3. PICK y \in Nat, m \in Nat : y = d * h /\ m = x % d
  BY <1>2
<1>4. x = y + m /\ x = y + r
  BY <1>1, <1>2, <1>3
<1> QED
  BY <1>3, <1>4

LEMMA HalvedIs ==
  ASSUME NEW x \in Nat, NEW d \in Nat \ {0}
  PROVE  x \div d = 2 * (x \div (2 * d)) + ((x \div d) % 2)
<1>1. PICK q, r : q = x \div d /\ r = x % d
  OBVIOUS
<1>2. q \in Nat /\ r \in 0 .. d - 1 /\ x = d * q + r
  BY <1>1, DivMod
<1>3. PICK h, c : h = q \div 2 /\ c = q % 2
  OBVIOUS
<1>4. h \in Nat /\ c \in 0 .. 1 /\ q = 2 * h + c
  BY <1>2, <1>3
<1>5. PICK e \in Nat \ {0} : e = 2 * d
  OBVIOUS
<1>6. PICK s : s = d * c + r
  OBVIOUS
<1>7. s \in 0 .. e - 1
  <2>1. CASE c = 0
    BY <1>2, <1>5, <1>6, <2>1
  <2>2. CASE c = 1
    BY <1>2, <1>5, <1>6, <2>2
  <2> QED
    BY <1>4, <2>1, <2>2
<1>8. x = e * h + s
  <2>1. d * (2 * h + c) = (2 * d) * h + d * c
    BY <1>4
  <2> QED
    BY <1>2, <1>4, <1>5, <1>6, <2>1
<1>9. x \div e = h
  BY <1>4, <1>7, <1>8, QuotientIs
<1> QED
  BY <1>1, <1>3, <1>4, <1>5, <1>9

LEMMA OctetsAre ==
  /\ \A x : x \in Octets <=> x \in Nat /\ x <= 255
  /\ 0 \in Octets
<1>1. \A x : x \in Octets <=> x \in Nat /\ x <= 255
  BY SMT DEF Octets
<1>2. 0 \in Octets
  BY SMT DEF Octets
<1> QED
  BY <1>1, <1>2

LEMMA ShortsAre ==
  /\ USHRT_MAX \in Nat
  /\ \A x : x \in Shorts <=> x \in Nat /\ x <= USHRT_MAX
<1>1. USHRT_MAX \in Nat
  BY SMT DEF USHRT_MAX
<1> QED
  BY <1>1 DEF Shorts

LEMMA TwoToIs ==
  /\ TwoTo[1] = 1
  /\ \A k \in 1 .. 16 : TwoTo[k] \in Nat \ {0}
  /\ \A k \in 1 .. 15 : TwoTo[k + 1] = 2 * TwoTo[k]
  /\ \A x \in Shorts : x \in Nat /\ x \div TwoTo[16] \in {0, 1}
<1>1. TwoTo[1] = 1 /\ TwoTo[16] = 32768
  BY SMT DEF TwoTo
<1>2. \A k \in 1 .. 16 : TwoTo[k] \in Nat \ {0}
  BY SMT DEF TwoTo
<1>3. \A k \in 1 .. 15 : TwoTo[k + 1] = 2 * TwoTo[k]
  BY SMT DEF TwoTo
<1>4. \A x \in Shorts : x \in Nat /\ x \div TwoTo[16] \in {0, 1}
  <2>1. PICK d \in Nat \ {0} : d = TwoTo[16]
    BY <1>2
  <2>2. \A x \in Shorts : x \in Nat /\ x < 2 * d
    <3>1. USHRT_MAX < 2 * d
      BY <1>1, <2>1, SMT DEF USHRT_MAX
    <3> QED
      BY <2>1, <3>1, ShortsAre
  <2>3. ASSUME NEW x \in Nat, x < 2 * d PROVE x \div d \in {0, 1}
    <3>1. CASE x < d
      <4>1. x \in 0 .. d - 1 /\ x = d * 0 + x
        BY <3>1
      <4> QED
        BY <4>1, QuotientIs
    <3>2. CASE ~(x < d)
      <4>1. x - d \in 0 .. d - 1 /\ x = d * 1 + (x - d)
        BY <2>3, <3>2
      <4> QED
        BY <4>1, QuotientIs
    <3> QED
      BY <3>1, <3>2
  <2> QED
    BY <2>1, <2>2, <2>3
<1> QED
  BY <1>1, <1>2, <1>3, <1>4, SMT

\* A number of 16 bits is given by its bits.
LEMMA BitsAreTheNumber ==
  ASSUME NEW x \in Shorts, NEW y \in Shorts, Bits(x) = Bits(y)
  PROVE  x = y
<1> DEFINE Same == {n \in 0 .. 15 : x \div TwoTo[16 - n] = y \div TwoTo[16 - n]}
<1>a. x \in Nat /\ y \in Nat
  BY TwoToIs
<1>1. \A k \in 0 .. 15 : (x \div TwoTo[k + 1]) % 2 = (y \div TwoTo[k + 1]) % 2
  <2> SUFFICES ASSUME NEW k \in 0 .. 15
               PROVE  (x \div TwoTo[k + 1]) % 2 = (y \div TwoTo[k + 1]) % 2
    OBVIOUS
  <2>1. PICK d \in Nat \ {0} : d = TwoTo[k + 1]
    <3>1. k + 1 \in 1 .. 16
      OBVIOUS
    <3> QED
      BY <3>1, TwoToIs
  <2>2. x \div d \in Nat /\ y \div d \in Nat
    BY <1>a, <2>1, DivMod
  <2>3. (x \div d) % 2 \in {0, 1} /\ (y \div d) % 2 \in {0, 1}
    BY <2>2
  <2>4. (x \div d) % 2 = 1 <=> (y \div d) % 2 = 1
    BY <2>1 DEF Bits
  <2> QED
    BY <2>1, <2>3, <2>4
<1>2. 0 \in Same
  <2>1. x \div TwoTo[16] \in {0, 1} /\ y \div TwoTo[16] \in {0, 1}
    BY TwoToIs
  <2>2. (x \div TwoTo[16]) % 2 = (y \div TwoTo[16]) % 2
    BY <1>1
  <2>3. x \div TwoTo[16] = y \div TwoTo[16]
    BY <2>1, <2>2
  <2> QED
    BY <2>3
<1>3. ASSUME NEW n \in 1 .. 15, n - 1 \in Same PROVE n \in Same
  <2>1. 16 - n \in 1 .. 15 /\ 16 - (n - 1) = (16 - n) + 1 /\ (16 - n) - 1 \in 0 .. 15
        /\ ((16 - n) - 1) + 1 = 16 - n
    OBVIOUS
  <2>2. PICK k \in 1 .. 15 : k = 16 - n
    BY <2>1
  <2>3. PICK d \in Nat \ {0} : d = TwoTo[k]
    BY TwoToIs
  <2>4. TwoTo[k + 1] = 2 * d
    BY <2>3, TwoToIs
  <2>5. x \div (2 * d) = y \div (2 * d)
    BY <1>3, <2>1, <2>2, <2>4
  <2>6. (x \div d) % 2 = (y \div d) % 2
    BY <1>1, <2>1, <2>2, <2>3
  <2>7. x \div d = 2 * (x \div (2 * d)) + ((x \div d) % 2)
    BY <1>a, <2>3, HalvedIs
  <2>8. y \div d = 2 * (y \div (2 * d)) + ((y \div d) % 2)
    BY <1>a, <2>3, HalvedIs
  <2>9. x \div d = y \div d
    BY <2>5, <2>6, <2>7, <2>8
  <2> QED
    BY <2>1, <2>2, <2>3, <2>9
<1>4. \A n \in 0 .. 15 : n \in Same
  <2> HIDE DEF Same
  <2>1. \A n \in 1 .. 15 : n - 1 \in Same => n \in Same
    BY <1>3
  <2> QED
    BY <1>2, <2>1, Upwards
<1>5. x \div TwoTo[1] = y \div TwoTo[1]
  BY <1>4
<1> QED
  BY <1>5, TwoToIs

\* What Short reads: the number with the bits from 16 - n on.
LEMMA ReadsTheBits ==
  ASSUME NEW bits
  PROVE  \E read \in [0 .. 16 -> Nat] :
           /\ Short(bits) = read[16] /\ read[0] = 0
           /\ \A n \in 1 .. 16 : read[n] = 2 * read[n - 1] + (IF 16 - n \in bits THEN 1 ELSE 0)
<1> DEFINE One(n) == IF 16 - n \in bits THEN 1 ELSE 0
           step == [p \in (1 .. 16) \X Nat |-> 2 * p[2] + One(p[1])]
           Is(f) == f = [n \in 0 .. 16 |-> IF n = 0 THEN 0 ELSE 2 * f[n - 1] + One(n)]
<1>1. step \in [(1 .. 16) \X Nat -> Nat]
  <2>1. \A p \in (1 .. 16) \X Nat : 2 * p[2] + One(p[1]) \in Nat
    OBVIOUS
  <2> QED
    BY <2>1
<1>2. PICK f \in [0 .. 16 -> Nat] : f[0] = 0 /\ \A n \in 1 .. 16 : f[n] = step[<<n, f[n - 1]>>]
  <2> HIDE DEF step
  <2>1. 16 \in Nat /\ 0 \in Nat
    OBVIOUS
  <2> QED
    BY <1>1, <2>1, RecursionExists
<1>3. \A n \in 1 .. 16 : f[n] = 2 * f[n - 1] + One(n)
  <2> SUFFICES ASSUME NEW n \in 1 .. 16 PROVE f[n] = 2 * f[n - 1] + One(n)
    OBVIOUS
  <2>1. f[n - 1] \in Nat
    OBVIOUS
  <2>2. <<n, f[n - 1]>> \in (1 .. 16) \X Nat
    BY <2>1
  <2> QED
    BY <1>2, <2>2
<1>4. Is(f)
  <2> HIDE DEF One
  <2>1. \A n \in 0 .. 16 : f[n] = IF n = 0 THEN 0 ELSE 2 * f[n - 1] + One(n)
    BY <1>2, <1>3
  <2> QED
    BY <2>1
<1>5. PICK read : read = CHOOSE g : Is(g)
  OBVIOUS
<1>6. Is(read)
  <2> HIDE DEF Is
  <2> QED
    BY <1>4, <1>5
<1>7. Short(bits) = read[16]
  BY <1>5 DEF Short
<1>8. \A n \in 0 .. 16 : read[n] = IF n = 0 THEN 0 ELSE 2 * read[n - 1] + One(n)
  <2> HIDE DEF One
  <2> QED
    BY <1>6
<1>9. read[0] = 0 /\ \A n \in 1 .. 16 : read[n] = 2 * read[n - 1] + One(n)
  <2> HIDE DEF One, Is
  <2>1. \A n \in 1 .. 16 : n \in 0 .. 16 /\ n # 0
    OBVIOUS
  <2> QED
    BY <1>8, <2>1
<1>10. read \in [0 .. 16 -> Nat]
  <2> DEFINE Good == {n \in 0 .. 16 : read[n] \in Nat}
  <2>1. 0 \in Good
    BY <1>9
  <2>2. ASSUME NEW n \in 1 .. 16, n - 1 \in Good PROVE n \in Good
    <3>1. read[n - 1] \in Nat /\ One(n) \in Nat
      BY <2>2
    <3>2. read[n] = 2 * read[n - 1] + One(n)
      BY <1>9
    <3> HIDE DEF One, Is
    <3>3. read[n] \in Nat
      BY <3>1, <3>2
    <3> QED
      BY <3>3
  <2>3. \A n \in 0 .. 16 : n \in Good
    <3> HIDE DEF Good, Is, One
    <3>1. \A n \in 1 .. 16 : n - 1 \in Good => n \in Good
      BY <2>2
    <3> QED
      BY <2>1, <3>1, Upwards
  <2>4. DOMAIN read = 0 .. 16 /\ read = [n \in 0 .. 16 |-> read[n]]
    <3> HIDE DEF One
    <3> QED
      BY <1>6
  <2> HIDE DEF Is
  <2> QED
    BY <2>3, <2>4
<1> HIDE DEF Is
<1> QED
  BY <1>7, <1>9, <1>10

\* Short and Bits are inverse to each other on the sets of bits.
LEMMA ShortIs ==
  ASSUME NEW bits, bits \subseteq 0 .. 15
  PROVE  Short(bits) \in Shorts /\ Bits(Short(bits)) = bits
<1> DEFINE One(n) == IF 16 - n \in bits THEN 1 ELSE 0
<1>1. PICK read \in [0 .. 16 -> Nat] :
        /\ Short(bits) = read[16] /\ read[0] = 0
        /\ \A n \in 1 .. 16 : read[n] = 2 * read[n - 1] + One(n)
  BY ReadsTheBits, ZenonT(60)
<1>2. \A n \in 1 .. 16 : One(n) \in {0, 1}
  OBVIOUS
<1>3. \A n \in 0 .. 15 : read[n] < TwoTo[n + 1]
  <2> DEFINE Good == {n \in 0 .. 15 : read[n] < TwoTo[n + 1]}
  <2>1. 0 \in Good
    BY <1>1, TwoToIs
  <2>2. ASSUME NEW n \in 1 .. 15, n - 1 \in Good PROVE n \in Good
    <3>1. read[n] = 2 * read[n - 1] + One(n) /\ One(n) \in {0, 1}
      BY <1>1, <1>2
    <3>2. PICK d \in Nat \ {0} : d = TwoTo[n]
      BY TwoToIs
    <3>3. read[n - 1] \in Nat /\ read[n - 1] < d /\ TwoTo[n + 1] = 2 * d
      BY <2>2, <3>2, TwoToIs
    <3> HIDE DEF One
    <3>4. read[n] < TwoTo[n + 1]
      BY <3>1, <3>3
    <3> QED
      BY <3>4
  <2>3. \A n \in 0 .. 15 : n \in Good
    <3> HIDE DEF Good, One
    <3>1. \A n \in 1 .. 15 : n - 1 \in Good => n \in Good
      BY <2>2
    <3> QED
      BY <2>1, <3>1, Upwards
  <2> QED
    BY <2>3
<1>4. Short(bits) \in Shorts
  <2>1. read[16] = 2 * read[15] + One(16) /\ One(16) \in {0, 1} /\ read[15] \in Nat
    BY <1>1, <1>2
  <2>2. read[15] < TwoTo[16]
    BY <1>3
  <2>3. TwoTo[16] = 32768
    BY SMT DEF TwoTo
  <2>4. PICK c \in {0, 1}, h \in Nat : read[16] = 2 * h + c /\ h < TwoTo[16]
    BY <2>1, <2>2
  <2>5. h < 32768
    BY <2>3, <2>4, SMT
  <2>6. 2 * h + c \in Shorts
    <3>1. c \in Nat /\ c <= 1
      OBVIOUS
    <3>2. 2 * h + c \in Nat /\ 2 * h + c <= USHRT_MAX
      BY <2>5, <3>1, SMT DEF USHRT_MAX
    <3> QED
      BY <3>2, ShortsAre
  <2>7. Short(bits) = 2 * h + c
    BY <1>1, <2>4, Zenon
  <2> QED
    BY <2>6, <2>7, Zenon
<1>5. \A k \in 0 .. 15 : read[16] \div TwoTo[k + 1] = read[16 - k]
  <2> DEFINE Good == {k \in 0 .. 15 : read[16] \div TwoTo[k + 1] = read[16 - k]}
  <2>1. 0 \in Good
    <3>1. PICK x \in Nat : x = read[16]
      BY <1>1
    <3>2. x \div 1 = x
      BY <3>1
    <3> QED
      BY <3>1, <3>2, TwoToIs
  <2>2. ASSUME NEW k \in 1 .. 15, k - 1 \in Good PROVE k \in Good
    <3>1. PICK d \in Nat \ {0} : d = TwoTo[k]
      BY TwoToIs
    <3>2. PICK x \in Nat : x = read[16]
      BY <1>1
    <3>3. PICK n \in 1 .. 15 : n = 16 - k
      OBVIOUS
    <3>4. TwoTo[k + 1] = 2 * d /\ x \div d = read[n + 1]
      <4>1. (k - 1) + 1 = k /\ 16 - (k - 1) = n + 1
        BY <3>3
      <4> QED
        BY <2>2, <3>1, <3>2, <4>1, TwoToIs
    <3>5. read[n + 1] = 2 * read[n] + One(n + 1) /\ One(n + 1) \in {0, 1}
      <4>1. n + 1 \in 1 .. 16 /\ (n + 1) - 1 = n
        OBVIOUS
      <4> QED
        BY <1>1, <1>2, <4>1
    <3>6. PICK h \in Nat : h = read[n]
      BY <1>1
    <3>7. PICK c \in {0, 1} : c = One(n + 1)
      BY <3>5
    <3>8. PICK y, z : y = x \div (2 * d) /\ z = x \div d
      OBVIOUS
    <3>9. y \in Nat /\ z \in Nat
      <4>1. 2 * d \in Nat \ {0}
        OBVIOUS
      <4> QED
        BY <3>8, <4>1, DivMod
    <3>10. z = 2 * y + (z % 2)
      BY <3>8, HalvedIs
    <3>11. z = 2 * h + c
      BY <3>4, <3>5, <3>6, <3>7, <3>8
    <3> HIDE DEF One
    <3>12. y = h
      BY <3>9, <3>10, <3>11
    <3> QED
      BY <3>2, <3>3, <3>4, <3>6, <3>8, <3>12
  <2>3. \A k \in 0 .. 15 : k \in Good
    <3> HIDE DEF Good, One
    <3>1. \A k \in 1 .. 15 : k - 1 \in Good => k \in Good
      BY <2>2
    <3> QED
      BY <2>1, <3>1, Upwards
  <2> QED
    BY <2>3
<1>6. ASSUME NEW k \in 0 .. 15
      PROVE  k \in Bits(Short(bits)) <=> k \in bits
  <2>1. PICK n \in 1 .. 16 : n = 16 - k
    OBVIOUS
  <2>2. 16 - n = k /\ n - 1 \in 0 .. 16
    BY <2>1
  <2>3. PICK h \in Nat : h = read[n - 1]
    BY <1>1, <2>2
  <2>4. read[n] = 2 * h + (IF k \in bits THEN 1 ELSE 0)
    BY <1>1, <2>2, <2>3
  <2>5. read[n] % 2 = 1 <=> k \in bits
    BY <2>4
  <2>6. Short(bits) \div TwoTo[k + 1] = read[n]
    BY <1>1, <1>5, <2>1
  <2> QED
    BY <2>5, <2>6 DEF Bits
<1>7. Bits(Short(bits)) \subseteq 0 .. 15
  BY DEF Bits
<1> QED
  BY <1>4, <1>6, <1>7

-----------------------------------------------------------------------------
(* Words and their bytes.                                                  *)

\* A number is split into its two low bytes, and what is above them.
LEMMA BytesOf ==
  ASSUME NEW x \in Nat
  PROVE  /\ Low(x) \in Octets /\ High(x) \in Octets
         /\ Word(Low(x), High(x)) = x % 65536
<1>1. PICK d \in Nat \ {0}, e \in Nat \ {0} : d = 256 /\ e = 65536
  BY SMT
<1>2. e = d * d
  BY <1>1, SMT
<1>3. PICK q, r : q = x \div d /\ r = x % d
  OBVIOUS
<1>4. q \in Nat /\ r \in 0 .. d - 1 /\ x = d * q + r
  BY <1>3, DivMod
<1>5. PICK p, s : p = q \div d /\ s = q % d
  OBVIOUS
<1>6. p \in Nat /\ s \in 0 .. d - 1 /\ q = d * p + s
  BY <1>4, <1>5, DivMod
<1>7. Low(x) = r /\ High(x) = s
  BY <1>1, <1>3, <1>5 DEF Low, High
<1>8. PICK w : w = r + d * s
  OBVIOUS
<1>9. Word(Low(x), High(x)) = w
  BY <1>1, <1>7, <1>8 DEF Word
<1>10. w \in 0 .. e - 1
  <2>1. s \in Nat /\ s <= 255 /\ r \in Nat /\ r <= 255
    BY <1>1, <1>4, <1>6, SMT
  <2>2. w = r + 256 * s
    BY <1>1, <1>8
  <2>3. w \in Nat /\ w <= 65535
    BY <2>1, <2>2, SMT
  <2>4. w <= e - 1
    BY <1>1, <2>3, SMT
  <2> QED
    BY <2>3, <2>4
<1>11. x = e * p + w
  <2>1. d * (d * p + s) = (d * d) * p + d * s
    BY <1>6
  <2> QED
    BY <1>2, <1>4, <1>6, <1>8, <2>1
<1>12. x % e = w
  BY <1>6, <1>10, <1>11, RemainderIs
<1>13. r \in Octets /\ s \in Octets
  BY <1>1, <1>4, <1>6, SMT DEF Octets
<1> QED
  BY <1>1, <1>7, <1>9, <1>12, <1>13

\* A word is its two bytes.
LEMMA BytesOfWord ==
  ASSUME NEW x \in Shorts
  PROVE  /\ Low(x) \in Octets /\ High(x) \in Octets
         /\ Word(Low(x), High(x)) = x
<1>1. x \in Nat /\ x <= USHRT_MAX
  BY ShortsAre
<1>2. PICK e \in Nat \ {0} : e = 65536
  BY SMT
<1>3. x < e
  BY <1>1, <1>2, SMT DEF USHRT_MAX
<1>4. x % e = x
  BY <1>1, <1>3, SmallMod
<1> QED
  BY <1>1, <1>2, <1>4, BytesOf

LEMMA WordOfBytes ==
  ASSUME NEW low \in Octets, NEW high \in Octets
  PROVE  /\ Word(low, high) \in Shorts
         /\ Low(Word(low, high)) = low /\ High(Word(low, high)) = high
<1>1. PICK d \in Nat \ {0} : d = 256
  BY SMT
<1>2. low \in 0 .. d - 1 /\ high \in 0 .. d - 1 /\ low \in Nat /\ high \in Nat
  BY <1>1, SMT DEF Octets
<1>3. PICK w : w = d * high + low
  OBVIOUS
<1>4. w = Word(low, high)
  BY <1>1, <1>2, <1>3, SMT DEF Word
<1>5. w \in Nat
  BY <1>2, <1>3
<1>6. w \in Shorts
  <2>1. low <= 255 /\ high <= 255 /\ w = 256 * high + low
    BY <1>1, <1>2, <1>3, SMT
  <2>2. w <= USHRT_MAX
    BY <1>2, <2>1, SMT DEF USHRT_MAX
  <2> QED
    BY <1>5, <2>2, ShortsAre
<1>7. w % d = low /\ w \div d = high
  BY <1>2, <1>3, <1>5, QuotientIs, RemainderIs
<1>8. high % d = high
  <2>1. high < d
    BY <1>2
  <2> QED
    BY <1>2, <2>1, SmallMod
<1> QED
  BY <1>1, <1>4, <1>6, <1>7, <1>8 DEF Low, High

-----------------------------------------------------------------------------
(* The checksum.                                                           *)

LEMMA RotatedIs ==
  ASSUME NEW bits, bits \subseteq 0 .. 15, NEW times \in Nat
  PROVE  /\ Rotated(bits, times) \subseteq 0 .. 15
         /\ \A k \in 0 .. 15 : (k + times) % 16 \in Rotated(bits, times) <=> k \in bits
<1>1. \A k \in 0 .. 15 : (k + times) % 16 \in 0 .. 15
  OBVIOUS
<1>2. ASSUME NEW k \in 0 .. 15, NEW m \in 0 .. 15, (k + times) % 16 = (m + times) % 16
      PROVE  k = m
  <2>1. PICK x \in Nat, y \in Nat, d \in Nat \ {0} : x = k + times /\ y = m + times /\ d = 16
    OBVIOUS
  <2>2. x = d * (x \div d) + (x % d) /\ y = d * (y \div d) + (y % d)
        /\ x \div d \in Nat /\ y \div d \in Nat
    BY <2>1, DivMod
  <2>3. PICK p \in Nat, q \in Nat : p = x \div d /\ q = y \div d
    BY <2>2
  <2>4. x - y = 16 * p - 16 * q
    <3>1. x % d = y % d
      BY <1>2, <2>1
    <3>2. PICK r \in 0 .. 15 : r = x % d
      BY <2>1
    <3>3. x = 16 * p + r /\ y = 16 * q + r
      BY <2>1, <2>2, <2>3, <3>1, <3>2
    <3> QED
      BY <3>3
  <2> QED
    BY <2>1, <2>4
<1> QED
  BY <1>1, <1>2, SMTT(30) DEF Rotated

\* Two buffers of which one item more has a one in the same place.
LEMMA OneMore ==
  ASSUME NEW f, NEW g, NEW n \in Nat, NEW j \in 0 .. n, NEW c \in 0 .. 15,
         \A i \in 0 .. n : Turned(f, n, i) \subseteq 0 .. 15 /\ Turned(g, n, i) \subseteq 0 .. 15,
         \A i \in (0 .. n) \ {j} : Turned(f, n, i) = Turned(g, n, i),
         c \in Turned(f, n, j), c \notin Turned(g, n, j)
  PROVE  Sum(f, n) # Sum(g, n)
<1> DEFINE F == {one \in Ones(f, n) : one[2] = c}
           G == {one \in Ones(g, n) : one[2] = c}
<1>1. \A p : p \in F <=> \E i \in 0 .. n : p = <<i, c>> /\ c \in Turned(f, n, i)
  BY DEF Ones
<1>2. \A p : p \in G <=> \E i \in 0 .. n : p = <<i, c>> /\ c \in Turned(g, n, i)
  BY DEF Ones
<1>3. IsFiniteSet(G)
  <2>1. G \subseteq (0 .. n) \X (0 .. 15)
    BY <1>2
  <2>2. IsFiniteSet(0 .. n) /\ IsFiniteSet(0 .. 15)
    <3>1. 0 \in Int /\ n \in Int /\ 15 \in Int
      OBVIOUS
    <3> QED
      BY <3>1, FS_Interval
  <2>3. IsFiniteSet((0 .. n) \X (0 .. 15))
    BY <2>2, FS_Product
  <2> HIDE DEF G
  <2> QED
    BY <2>1, <2>3, FS_Subset
<1> HIDE DEF F, G
<1>4. <<j, c>> \notin G
  BY <1>2
<1>5. F = G \cup {<<j, c>>}
  <2>1. ASSUME NEW p \in F PROVE p \in G \cup {<<j, c>>}
    <3>1. PICK i \in 0 .. n : p = <<i, c>> /\ c \in Turned(f, n, i)
      BY <1>1
    <3> QED
      BY <1>2, <3>1
  <2>2. ASSUME NEW p \in G PROVE p \in F
    <3>1. PICK i \in 0 .. n : p = <<i, c>> /\ c \in Turned(g, n, i)
      BY <1>2
    <3>2. i # j
      BY <3>1
    <3> QED
      BY <1>1, <3>1, <3>2
  <2>3. <<j, c>> \in F
    BY <1>1
  <2> QED
    BY <2>1, <2>2, <2>3
<1>6. Cardinality(F) = Cardinality(G) + 1 /\ Cardinality(G) \in Nat
  BY <1>3, <1>4, <1>5, FS_AddElement, FS_CardinalityType
<1>7. Cardinality(F) % 2 = 1 <=> ~(Cardinality(G) % 2 = 1)
  BY <1>6
<1>8. /\ c \in Sum(f, n) <=> Cardinality(F) % 2 = 1
      /\ c \in Sum(g, n) <=> Cardinality(G) % 2 = 1
  BY DEF Sum, F, G
<1> QED
  BY <1>7, <1>8

\* The words of a buffer.
WordsOf(buf, i) == Word(buf[2 * i], buf[2 * i + 1])

\* The bits of a word stay 16 bits, however often it is rotated.
LEMMA TurnedIs ==
  ASSUME NEW buf, NEW n \in Nat, NEW i \in 0 .. n
  PROVE  Turned(buf, n, i) \subseteq 0 .. 15
<1>1. Bits(43690) \subseteq 0 .. 15 /\ Bits(Word(buf[2 * i], buf[2 * i + 1])) \subseteq 0 .. 15
  BY SMT DEF Bits
<1>2. n - i \in Nat
  OBVIOUS
<1>3. Rotated(Bits(43690), n) \subseteq 0 .. 15
  BY <1>1, RotatedIs, SMT
<1>4. Rotated(Bits(Word(buf[2 * i], buf[2 * i + 1])), n - i) \subseteq 0 .. 15
  BY <1>1, <1>2, RotatedIs, SMT
<1> QED
  BY <1>3, <1>4, SMT DEF Turned

\* The sum depends on nothing but the words.
LEMMA SameSum ==
  ASSUME NEW f, NEW g, NEW n \in Nat,
         \A i \in 0 .. n - 1 : WordsOf(f, i) = WordsOf(g, i)
  PROVE  Sum(f, n) = Sum(g, n)
<1>1. \A i \in 0 .. n : Turned(f, n, i) = Turned(g, n, i)
  <2> SUFFICES ASSUME NEW i \in 0 .. n, i # n PROVE Turned(f, n, i) = Turned(g, n, i)
    BY SMT DEF Turned
  <2>1. i \in 0 .. n - 1
    OBVIOUS
  <2> QED
    BY <2>1, SMT DEF Turned, WordsOf
<1>2. Ones(f, n) = Ones(g, n)
  BY <1>1 DEF Ones
<1> QED
  BY <1>2 DEF Sum

\* A single word that differs makes a different sum.
LEMMA OtherSum ==
  ASSUME NEW f, NEW g, NEW n \in Nat, NEW j \in 0 .. n - 1,
         \A i \in (0 .. n - 1) \ {j} : WordsOf(f, i) = WordsOf(g, i),
         WordsOf(f, j) \in Shorts, WordsOf(g, j) \in Shorts, WordsOf(f, j) # WordsOf(g, j)
  PROVE  Sum(f, n) # Sum(g, n)
<1> DEFINE F == Bits(WordsOf(f, j))
           G == Bits(WordsOf(g, j))
<1>1. F # G
  BY BitsAreTheNumber
<1>2. F \subseteq 0 .. 15 /\ G \subseteq 0 .. 15
  BY DEF Bits
<1>3. PICK t \in Nat : t = n - j
  OBVIOUS
<1>4. Turned(f, n, j) = Rotated(F, t) /\ Turned(g, n, j) = Rotated(G, t)
  BY <1>3, SMT DEF Turned, WordsOf
<1>5. \A i \in 0 .. n : Turned(f, n, i) \subseteq 0 .. 15 /\ Turned(g, n, i) \subseteq 0 .. 15
  BY TurnedIs
<1>6. \A i \in (0 .. n) \ {j} : Turned(f, n, i) = Turned(g, n, i)
  <2> SUFFICES ASSUME NEW i \in (0 .. n) \ {j}, i # n PROVE Turned(f, n, i) = Turned(g, n, i)
    BY SMT DEF Turned
  <2>1. i \in (0 .. n - 1) \ {j}
    OBVIOUS
  <2> QED
    BY <2>1, SMT DEF Turned, WordsOf
<1>7. PICK k \in 0 .. 15 : (k \in F) # (k \in G)
  <2> HIDE DEF F, G
  <2> QED
    BY <1>1, <1>2
<1> HIDE DEF F, G
<1>8. PICK c \in 0 .. 15 : c = (k + t) % 16
  OBVIOUS
<1>9. (c \in Turned(f, n, j) <=> k \in F) /\ (c \in Turned(g, n, j) <=> k \in G)
  <2>1. (k + t) % 16 \in Rotated(F, t) <=> k \in F
    BY <1>2, RotatedIs
  <2>2. (k + t) % 16 \in Rotated(G, t) <=> k \in G
    BY <1>2, RotatedIs
  <2> QED
    BY <1>4, <1>8, <2>1, <2>2
<1>10. j \in 0 .. n
  OBVIOUS
<1>11. CASE k \in F /\ k \notin G
  BY <1>5, <1>6, <1>9, <1>10, <1>11, OneMore
<1>12. CASE k \notin F /\ k \in G
  <2>1. Sum(g, n) # Sum(f, n)
    BY <1>5, <1>6, <1>9, <1>10, <1>12, OneMore
  <2> QED
    BY <2>1
<1> QED
  BY <1>7, <1>11, <1>12

-----------------------------------------------------------------------------
(* Writes to different bytes.                                              *)

ByteWrites == Seq(Nat \X Octets)

\* The writes w are to bytes of S, and no two of them to the same.
Laid(w, S) ==
  /\ w \in ByteWrites
  /\ \A k \in DOMAIN w : w[k][1] \in S
  /\ \A k, m \in DOMAIN w : w[k][1] = w[m][1] => k = m

LEMMA LaidAfter ==
  ASSUME NEW w, NEW x, NEW S, NEW R, Laid(w, S), Laid(x, R), S \cap R = {}
  PROVE  /\ Laid(w \o x, S \cup R)
         /\ Range(w \o x) = Range(w) \cup Range(x)
<1>1. w \in ByteWrites /\ x \in ByteWrites
  BY DEF Laid
<1>2. PICK m \in Nat, n \in Nat : m = Len(w) /\ n = Len(x)
  BY <1>1 DEF ByteWrites
<1>3. w \o x \in ByteWrites /\ Len(w \o x) = m + n
      /\ \A i \in 1 .. m + n : (w \o x)[i] = IF i <= m THEN w[i] ELSE x[i - m]
  BY <1>1, <1>2, ConcatProperties DEF ByteWrites
<1>4. DOMAIN w = 1 .. m /\ DOMAIN x = 1 .. n /\ DOMAIN (w \o x) = 1 .. m + n
  BY <1>1, <1>2, <1>3, LenProperties DEF ByteWrites
<1>5. PICK y : y = w \o x
  OBVIOUS
<1>6. \A i \in 1 .. m : i \in 1 .. m + n /\ y[i] = w[i]
  BY <1>3, <1>5
<1>7. ASSUME NEW i \in 1 .. m + n, i \notin 1 .. m PROVE i - m \in 1 .. n /\ y[i] = x[i - m]
  BY <1>3, <1>5, <1>7
<1>8. ASSUME NEW i \in 1 .. n PROVE i + m \in 1 .. m + n /\ y[i + m] = x[i]
  <2>1. i + m \in 1 .. m + n /\ i + m \notin 1 .. m /\ (i + m) - m = i
    OBVIOUS
  <2> QED
    BY <1>7, <2>1
<1>9. ASSUME NEW i \in 1 .. m + n PROVE y[i][1] \in S \cup R
  BY <1>4, <1>6, <1>7 DEF Laid
<1>10. ASSUME NEW i \in 1 .. m + n, NEW j \in 1 .. m + n, y[i][1] = y[j][1] PROVE i = j
  <2>1. CASE i \in 1 .. m /\ j \in 1 .. m
    BY <1>4, <1>6, <1>10, <2>1 DEF Laid
  <2>2. CASE i \in 1 .. m /\ j \notin 1 .. m
    <3>1. y[i][1] \in S /\ y[j][1] \in R
      BY <1>4, <1>6, <1>7, <2>2, SMTT(30) DEF Laid
    <3> QED
      BY <1>10, <3>1
  <2>3. CASE i \notin 1 .. m /\ j \in 1 .. m
    <3>1. y[i][1] \in R /\ y[j][1] \in S
      BY <1>4, <1>6, <1>7, <2>3 DEF Laid
    <3> QED
      BY <1>10, <3>1
  <2>4. CASE i \notin 1 .. m /\ j \notin 1 .. m
    <3>1. i - m \in 1 .. n /\ j - m \in 1 .. n /\ x[i - m][1] = x[j - m][1]
      BY <1>7, <1>10, <2>4
    <3>2. PICK s, t : s = i - m /\ t = j - m
      OBVIOUS
    <3>3. s = t
      BY <1>4, <3>1, <3>2 DEF Laid
    <3> QED
      BY <3>2, <3>3
  <2> QED
    BY <2>1, <2>2, <2>3, <2>4
<1>11. Laid(y, S \cup R)
  <2>1. DOMAIN y = 1 .. m + n /\ y \in ByteWrites
    BY <1>3, <1>4, <1>5
  <2> QED
    BY <1>9, <1>10, <2>1 DEF Laid
<1>12. ASSUME NEW p PROVE p \in Range(y) <=> p \in Range(w) \/ p \in Range(x)
  <2>1. ASSUME NEW i \in 1 .. m + n PROVE y[i] \in Range(w) \/ y[i] \in Range(x)
    BY <1>4, <1>6, <1>7 DEF Range
  <2>2. ASSUME NEW i \in 1 .. m PROVE w[i] \in Range(y)
    BY <1>4, <1>5, <1>6 DEF Range
  <2>3. ASSUME NEW i \in 1 .. n PROVE x[i] \in Range(y)
    BY <1>4, <1>5, <1>8 DEF Range
  <2>4. DOMAIN y = 1 .. m + n
    BY <1>4, <1>5
  <2>5. Range(y) = {y[i] : i \in 1 .. m + n} /\ Range(w) = {w[i] : i \in 1 .. m}
        /\ Range(x) = {x[i] : i \in 1 .. n}
    BY <1>4, <2>4 DEF Range
  <2> QED
    BY <2>1, <2>2, <2>3, <2>5
<1> QED
  BY <1>5, <1>11, <1>12

\* The writes y to the bytes of T are those of w to S and then those of x to
\* others, R.
Follows(y, T, w, S, x, R) == y = w \o x /\ T = S \cup R /\ S \cap R = {}

LEMMA LaidNext ==
  ASSUME NEW y, NEW T, NEW w, NEW S, NEW x, NEW R,
         Laid(w, S), Laid(x, R), Follows(y, T, w, S, x, R)
  PROVE  Laid(y, T) /\ Range(y) = Range(w) \cup Range(x)
<1>1. S \cap R = {} /\ y = w \o x /\ T = S \cup R
  BY DEF Follows
<1>2. Laid(w \o x, S \cup R) /\ Range(w \o x) = Range(w) \cup Range(x)
  BY <1>1, LaidAfter
<1> QED
  BY <1>1, <1>2

\* A byte written once holds what was written, the others hold zero.
LEMMA AppliedIs ==
  ASSUME NEW w, NEW S, Laid(w, S), NEW size \in Nat
  PROVE  /\ \A p \in Range(w) : Apply(w, size)[p[1]] = p[2]
         /\ \A i \in 0 .. size - 1 : i \in DOMAIN Apply(w, size) /\ Apply(w, size)[i] \in Octets
         /\ S \subseteq 0 .. size - 1 => DOMAIN Apply(w, size) = 0 .. size - 1
<1>1. ASSUME NEW k \in DOMAIN w PROVE Apply(w, size)[w[k][1]] = w[k][2]
  <2>1. WritesTo(w, w[k][1]) = {k}
    BY DEF Laid, WritesTo
  <2>2. Max({k}) = k
    <3>1. Len(w) \in Nat /\ DOMAIN w = 1 .. Len(w)
      BY LenProperties DEF Laid, ByteWrites
    <3>2. k >= k
      BY <3>1
    <3>3. \A x \in {k} : x = k
      OBVIOUS
    <3> QED
      BY <3>2, <3>3 DEF Max
  <2> QED
    BY <2>1, <2>2 DEF Apply
<1>2. \A p \in Range(w) : Apply(w, size)[p[1]] = p[2]
  BY <1>1 DEF Range
<1>3. ASSUME NEW i \in 0 .. size - 1
      PROVE  i \in DOMAIN Apply(w, size) /\ Apply(w, size)[i] \in Octets
  <2>1. i \in DOMAIN Apply(w, size)
    BY DEF Apply
  <2>2. CASE WritesTo(w, i) = {}
    <3>1. Apply(w, size)[i] = 0
      BY <2>2 DEF Apply
    <3> QED
      BY <2>1, <3>1, OctetsAre
  <2>3. CASE WritesTo(w, i) # {}
    <3>1. PICK k \in DOMAIN w : w[k][1] = i
      BY <2>3 DEF WritesTo
    <3>2. w[k] \in Nat \X Octets
      <4>1. w \in Seq(Nat \X Octets)
        BY DEF Laid, ByteWrites
      <4> QED
        BY <4>1, ElementOfSeq, LenProperties
    <3>3. w[k][2] \in Octets
      BY <3>2
    <3> QED
      BY <1>1, <2>1, <3>1, <3>3
  <2> QED
    BY <2>1, <2>2, <2>3
<1>4. ASSUME S \subseteq 0 .. size - 1 PROVE DOMAIN Apply(w, size) = 0 .. size - 1
  <2>1. {w[k][1] : k \in DOMAIN w} \subseteq 0 .. size - 1
    BY <1>4 DEF Laid
  <2> QED
    BY <2>1 DEF Apply
<1> QED
  BY <1>2, <1>3, <1>4

-----------------------------------------------------------------------------
(* The parts of an image.                                                  *)

FixedAt == {2, 3, 4, 5, 6, 7, 8, 9, 10, 11, 15, 17, 19, 20, 21, 22}

Place(k) == IF k <= 10 THEN k + 1 ELSE IF k <= 13 THEN 2 * k - 7 ELSE k + 6

LEMMA SizeIs ==
  ASSUME NEW s \in Seq(Character)
  PROVE  Size(s) \in 0 .. 255 /\ Size(s) <= Len(s) /\ Len(s) \in Nat
<1>1. PICK n \in Nat, d \in Nat \ {0} : n = Len(s) /\ d = 256
  BY LenProperties
<1>2. n % d \in 0 .. d - 1 /\ n = d * (n \div d) + (n % d) /\ n \div d \in Nat
  BY DivMod
<1>3. PICK q \in Nat, r \in Nat : q = n \div d /\ r = n % d
  BY <1>2
<1>4. r <= n
  BY <1>1, <1>2, <1>3, SMT
<1>5. r <= 255
  BY <1>1, <1>2, <1>3, SMT
<1>6. Size(s) = r
  BY <1>1, <1>3 DEF Size
<1>7. r \in 0 .. 255
  BY <1>5
<1> QED
  BY <1>1, <1>4, <1>6, <1>7

LEMMA FieldsAre ==
  ASSUME NEW e \in ftdi_eeprom
  PROVE  /\ e.vendor_id \in Nat /\ e.product_id \in Nat /\ e.max_power \in Nat
         /\ e.invert \in Nat /\ e.type \in Nat /\ e.usb_version \in Nat
         /\ e.flags \subseteq AllFlags /\ e.size \in {128, 256} /\ e.cbus \in [1 .. 5 -> Nat]
         /\ e.manufacturer \in Seq(Character) /\ e.product \in Seq(Character)
         /\ e.serial \in Seq(Character)
BY DEF ftdi_eeprom

LEMMA BitsOfBytes ==
  ASSUME NEW flags
  PROVE  ConfigByte(flags) \in Octets /\ ChipByte(flags) \in Octets
<1>1. ConfigByte(flags) \in 128 .. 224
  BY DEF ConfigByte, Bit, ConfigBits
<1>2. ChipByte(flags) \in 0 .. 31
  BY DEF ChipByte, Bit, ChipBits
<1> QED
  BY <1>1, <1>2, OctetsAre

LEMMA ReleaseIs ==
  ASSUME NEW type \in Nat
  PROVE  Release(type) \in Octets
<1>1. Release(type) \in {0, 2, 4, 5, 6, 7, 8, 9}
  <2>1. \A k \in 1 .. 7 : <<2, 4, 5, 6, 7, 8, 9>>[k] \in {2, 4, 5, 6, 7, 8, 9}
    OBVIOUS
  <2>2. type \in 0 .. 6 => type + 1 \in 1 .. 7
    OBVIOUS
  <2> QED
    BY <2>1, <2>2 DEF Release, TYPE_AM, TYPE_232H
<1> QED
  BY <1>1, OctetsAre

\* The sizes and the fields of a struct that a builder takes.
LEMMA TakenIs ==
  ASSUME NEW v, NEW e \in ftdi_eeprom, Ret(v, e) >= 0, Space(v, e) \in Nat
  PROVE  /\ \A k \in 1 .. 5 : e.cbus[k] \in 0 .. 13 /\ (e.cbus[k] # 0 => e.type = TYPE_R)
         /\ e.cbus[5] \in 0 .. 9
         /\ e.invert # 0 => e.type = TYPE_R
         /\ 2 * Chars(e) <= Space(v, e)
<1>1. \A k \in 1 .. 5 : e.cbus[k] \in Nat
  BY DEF ftdi_eeprom
<1>2. \A k \in 1 .. 5 : CbusMax[k] \in {9, 13}
  BY DEF CbusMax
<1>3. \A k \in 1 .. 5 : ~(e.cbus[k] > CbusMax[k]) /\ (e.cbus[k] # 0 => e.type = TYPE_R)
  <2> SUFFICES ASSUME \E c \in 1 .. 5 : e.cbus[c] > CbusMax[c] \/ (e.cbus[c] # 0 /\ e.type # TYPE_R)
               PROVE  FALSE
    OBVIOUS
  <2>1. Ret(v, e) = -3
    BY DEF Ret
  <2> QED
    BY <2>1
<1>4. ~(e.type # TYPE_R /\ e.invert # 0) /\ ~(e.type # TYPE_R /\ e.high_current # 0)
  <2>1. e.type # TYPE_R /\ e.invert # 0 => Ret(v, e) = -4
    BY <1>3 DEF Ret
  <2>2. e.type # TYPE_R /\ e.high_current # 0 => Ret(v, e) \in {-4, -5}
    BY <1>3 DEF Ret
  <2> QED
    BY <2>1, <2>2
<1>5. Ret(v, e) = Max({-1, Space(v, e) - 2 * Chars(e)})
  BY <1>3, <1>4 DEF Ret
<1>6. Size(e.manufacturer) \in Nat /\ Size(e.product) \in Nat /\ Size(e.serial) \in Nat
  <2>1. e.manufacturer \in Seq(Character) /\ e.product \in Seq(Character) /\ e.serial \in Seq(Character)
    BY FieldsAre
  <2>2. /\ Size(e.manufacturer) \in 0 .. 255 /\ Size(e.product) \in 0 .. 255
        /\ Size(e.serial) \in 0 .. 255
    BY <2>1, SizeIs
  <2> QED
    BY <2>2
<1>7. PICK c \in Nat, s \in Nat : c = Chars(e) /\ s = Space(v, e)
  BY <1>6 DEF Chars
<1>8. s - 2 * c >= 0
  <2>1. PICK d \in Int : d = s - 2 * c
    OBVIOUS
  <2>2. \E x \in {-1, d} : \A y \in {-1, d} : x >= y
    <3>1. CASE d >= -1
      BY <3>1
    <3>2. CASE ~(d >= -1)
      BY <3>2
    <3> QED
      BY <3>1, <3>2
  <2>3. Max({-1, d}) \in {-1, d}
    BY <2>2 DEF Max
  <2>4. Max({-1, d}) >= 0
    BY <1>5, <1>7, <2>1
  <2> QED
    BY <2>1, <2>3, <2>4
<1>9. e.cbus[5] <= 9
  <2>1. CbusMax[5] = 9
    BY DEF CbusMax
  <2> QED
    BY <1>1, <1>3, <2>1
<1>10. \A k \in 1 .. 5 : e.cbus[k] \in 0 .. 13
  BY <1>1, <1>2, <1>3
<1> QED
  BY <1>1, <1>3, <1>4, <1>7, <1>8, <1>9, <1>10

LEMMA FixedIs ==
  ASSUME NEW e \in ftdi_eeprom, \A k \in 1 .. 5 : e.cbus[k] \in 0 .. 13
  PROVE  Laid(Fixed(e), FixedAt)
<1>1. /\ e.vendor_id \in Nat /\ e.product_id \in Nat /\ e.max_power \in Nat /\ e.invert \in Nat
      /\ e.type \in Nat
  BY FieldsAre
<1>2. /\ 2 * Size(e.manufacturer) + 2 \in Nat /\ 2 * Size(e.product) + 2 \in Nat
      /\ 2 * Size(e.serial) + 2 \in Nat
  <2>1. e.manufacturer \in Seq(Character) /\ e.product \in Seq(Character) /\ e.serial \in Seq(Character)
    BY FieldsAre
  <2>2. Size(e.manufacturer) \in 0 .. 255 /\ Size(e.product) \in 0 .. 255 /\ Size(e.serial) \in 0 .. 255
    BY <2>1, SizeIs
  <2> QED
    BY <2>2
<1>3. /\ e.cbus[1] + 16 * e.cbus[2] \in Octets /\ e.cbus[3] + 16 * e.cbus[4] \in Octets
      /\ e.cbus[5] \in Octets
  <2>1. ASSUME NEW c \in 0 .. 13, NEW d \in 0 .. 13 PROVE c + 16 * d \in Octets
    <3>1. c + 16 * d \in Nat /\ c + 16 * d <= 255
      OBVIOUS
    <3> QED
      BY <3>1, OctetsAre
  <2>2. ASSUME NEW c \in 0 .. 13 PROVE c \in Octets
    <3>1. c \in Nat /\ c <= 255
      OBVIOUS
    <3> QED
      BY <3>1, OctetsAre
  <2> QED
    BY <2>1, <2>2
<1>4. PICK w : w = Fixed(e)
  OBVIOUS
<1>5. Len(w) = 16 /\ DOMAIN w = 1 .. 16 /\ \A k \in 1 .. 16 : w[k] = <<w[k][1], w[k][2]>>
  BY <1>4 DEF Fixed
<1>6. \A k \in 1 .. 16 : w[k][1] = Place(k)
  BY <1>4 DEF Fixed, Place
<1>7. \A k \in 1 .. 16 : w[k][2] \in Octets
  <2>1. /\ Low(e.vendor_id) \in Octets /\ High(e.vendor_id) \in Octets
        /\ Low(e.product_id) \in Octets /\ High(e.product_id) \in Octets
        /\ Low(e.max_power) \in Octets /\ Low(e.invert) \in Octets
    BY <1>1, BytesOf
  <2>2. /\ Low(2 * Size(e.manufacturer) + 2) \in Octets /\ Low(2 * Size(e.product) + 2) \in Octets
        /\ Low(2 * Size(e.serial) + 2) \in Octets
    BY <1>2, BytesOf
  <2>3. /\ Release(e.type) \in Octets /\ ConfigByte(e.flags) \in Octets
        /\ ChipByte(e.flags) \in Octets /\ 0 \in Octets
    BY <1>1, ReleaseIs, BitsOfBytes, OctetsAre
  <2> QED
    BY <1>3, <1>4, <2>1, <2>2, <2>3 DEF Fixed
<1>8. \A k \in 1 .. 16 : Place(k) \in FixedAt /\ Place(k) \in Nat
  BY DEF Place, FixedAt
<1>9. \A k, m \in 1 .. 16 : Place(k) = Place(m) => k = m
  BY DEF Place
<1>10. w \in ByteWrites
  <2>1. \A k \in 1 .. 16 : w[k] \in Nat \X Octets
    BY <1>5, <1>6, <1>7, <1>8, SMTT(30)
  <2>2. w = [k \in 1 .. 16 |-> w[k]]
    BY <1>4 DEF Fixed
  <2> QED
    BY <2>1, <2>2, SeqOfLen DEF ByteWrites
<1> QED
  BY <1>4, <1>5, <1>6, <1>8, <1>9, <1>10, SMTT(30) DEF Laid

\* The bytes of a string.
LEMMA TextIs ==
  ASSUME NEW s \in Seq(Character), NEW n \in Nat, n = Size(s)
  PROVE  /\ Text(s) \in Seq(Octets) /\ Len(Text(s)) = 2 * n + 2
         /\ \A j \in 1 .. n : Text(s)[2 * j + 1] = s[j]
<1> DEFINE head == <<Low(2 * Size(s) + 2), 3>>
           tail == [k \in 1 .. 2 * Size(s) |-> IF k % 2 = 1 THEN s[(k + 1) \div 2] ELSE 0]
<1>1. n \in 0 .. 255 /\ n <= Len(s) /\ Len(s) \in Nat
  BY SizeIs
<1>2. head \in Seq(Octets) /\ Len(head) = 2
  <2>1. 2 * n + 2 \in Nat
    OBVIOUS
  <2>2. Low(2 * n + 2) \in Octets
    BY <2>1, BytesOf
  <2>3. 3 \in Octets
    BY OctetsAre
  <2> QED
    BY <2>2, <2>3
<1>3. tail \in [1 .. 2 * n -> Octets]
  <2> SUFFICES ASSUME NEW k \in 1 .. 2 * n
               PROVE  (IF k % 2 = 1 THEN s[(k + 1) \div 2] ELSE 0) \in Octets
    OBVIOUS
  <2>1. CASE k % 2 = 1
    <3>1. PICK i : i = (k + 1) \div 2
      OBVIOUS
    <3>2. i \in 1 .. n
      BY <3>1
    <3>3. i \in 1 .. Len(s)
      BY <1>1, <3>2
    <3>4. s[i] \in Octets
      BY <3>3, ElementOfSeq DEF Character
    <3> QED
      BY <2>1, <3>1, <3>4
  <2>2. CASE ~(k % 2 = 1)
    BY <2>2, OctetsAre
  <2> QED
    BY <2>1, <2>2
<1>4. tail \in Seq(Octets) /\ Len(tail) = 2 * n
  <2> HIDE DEF tail
  <2>1. PICK m \in Nat : m = 2 * n
    OBVIOUS
  <2> QED
    BY <1>3, <2>1, SeqOfLen
<1>5. Text(s) = head \o tail
  BY DEF Text
<1>6. \A j \in 1 .. n : tail[2 * j - 1] = s[j]
  <2> SUFFICES ASSUME NEW j \in 1 .. n PROVE tail[2 * j - 1] = s[j]
    OBVIOUS
  <2>1. 2 * j - 1 \in 1 .. 2 * n /\ (2 * j - 1) % 2 = 1 /\ ((2 * j - 1) + 1) \div 2 = j
    OBVIOUS
  <2> QED
    BY <2>1
<1> HIDE DEF head, tail
<1>7. head \o tail \in Seq(Octets) /\ Len(head \o tail) = 2 * n + 2
  <2>1. head \o tail \in Seq(Octets) /\ Len(head \o tail) = Len(head) + Len(tail)
    BY <1>2, <1>4, ConcatProperties
  <2> QED
    BY <1>2, <1>4, <2>1
<1>8. \A j \in 1 .. n : (head \o tail)[2 * j + 1] = tail[2 * j - 1]
  <2> SUFFICES ASSUME NEW j \in 1 .. n PROVE (head \o tail)[2 * j + 1] = tail[2 * j - 1]
    OBVIOUS
  <2>1. PICK k : k = 2 * j + 1
    OBVIOUS
  <2>2. k \in 1 .. Len(head) + Len(tail) /\ ~(k <= Len(head)) /\ k - Len(head) = 2 * j - 1
    BY <1>2, <1>4, <2>1
  <2>3. (head \o tail)[k] = tail[k - Len(head)]
    BY <1>2, <1>4, <2>2, ConcatProperties
  <2> QED
    BY <2>1, <2>2, <2>3
<1> QED
  BY <1>5, <1>6, <1>7, <1>8

\* The bytes of a string of n characters at j, whether one written from i on
\* ends before the end of the image, and where in an EEPROM of that size.
Span(j, n) == j .. j + 2 * n + 1
UpperHalf == 128 .. 255
EndsInside(i, n) == i + 2 * n + 2 <= 256
Placed(i, size) == IF size = 256 THEN i ELSE i - 128

\* A string that ends before the end of the image is written to the bytes from
\* there on where it begins, or 128 bytes before in the smaller EEPROM.
LEMMA StringIs ==
  ASSUME NEW s \in Seq(Character), NEW n \in Nat, n = Size(s), NEW size \in {128, 256},
         NEW i \in UpperHalf, EndsInside(i, n), NEW j \in Nat, j = Placed(i, size)
  PROVE  /\ Laid(At(i, Text(s), size), Span(j, n))
         /\ \A k \in 1 .. n : <<j + 2 * k, s[k]>> \in Range(At(i, Text(s), size))
<1>0. PICK t : t = Text(s)
  OBVIOUS
<1>1. PICK m \in Nat : t = Text(s) /\ m = 2 * n + 2
  BY <1>0
<1>2. t \in Seq(Octets) /\ Len(t) = m /\ \A k \in 1 .. n : t[2 * k + 1] = s[k]
  <2>1. /\ Text(s) \in Seq(Octets) /\ Len(Text(s)) = 2 * n + 2
        /\ \A k \in 1 .. n : Text(s)[2 * k + 1] = s[k]
    BY TextIs
  <2> QED
    BY <1>1, <2>1
<1>3. PICK w : w = At(i, t, size)
  OBVIOUS
<1>4. w = [k \in 1 .. m |-> <<((i + k - 1) % 256) % size, t[k]>>]
  BY <1>2, <1>3 DEF At
<1>5. ASSUME NEW k \in 1 .. m
      PROVE  ((i + k - 1) % 256) % size = j + k - 1
  <2>1. PICK x \in Nat : x = i + k - 1
    BY DEF UpperHalf
  <2>2. x < 256 /\ x >= 128
    BY <1>1, <2>1, SMTT(30) DEF EndsInside, UpperHalf
  <2>3. x % 256 = x
    BY <2>2
  <2>4. CASE size = 256
    BY <2>1, <2>3, <2>4 DEF Placed
  <2>5. CASE size = 128
    <3>1. x % 128 = x - 128
      BY <2>2
    <3> QED
      BY <2>1, <2>3, <2>5, <3>1 DEF Placed
  <2> QED
    BY <2>4, <2>5
<1>6. \A k \in 1 .. m : w[k] = <<j + k - 1, t[k]>>
  BY <1>4, <1>5
<1>7. \A k \in 1 .. m : t[k] \in Octets /\ j + k - 1 \in Nat
  BY <1>2, ElementOfSeq
<1>8. DOMAIN w = 1 .. m /\ w = [k \in 1 .. m |-> w[k]]
  BY <1>4
<1>9. w \in ByteWrites
  <2>1. \A k \in 1 .. m : w[k] \in Nat \X Octets
    <3> SUFFICES ASSUME NEW k \in 1 .. m PROVE w[k] \in Nat \X Octets
      OBVIOUS
    <3>1. PICK x \in Nat, y \in Octets : x = j + k - 1 /\ y = t[k]
      BY <1>7
    <3>2. w[k] = <<x, y>>
      BY <1>6, <3>1
    <3> QED
      BY <3>2
  <2> QED
    BY <1>8, <2>1, SeqOfLen DEF ByteWrites
<1>10. \A k \in 1 .. m : w[k][1] = j + k - 1
  BY <1>6
<1>11. \A k \in 1 .. m : j + k - 1 \in Span(j, n)
  BY <1>1, SMTT(30) DEF Span
<1>12. Laid(w, Span(j, n))
  <2>1. \A k, l \in 1 .. m : j + k - 1 = j + l - 1 => k = l
    OBVIOUS
  <2> QED
    BY <1>8, <1>9, <1>10, <1>11, <2>1 DEF Laid
<1>13. \A k \in 1 .. n : <<j + 2 * k, s[k]>> \in Range(w)
  <2> SUFFICES ASSUME NEW k \in 1 .. n PROVE <<j + 2 * k, s[k]>> \in Range(w)
    OBVIOUS
  <2>1. PICK l \in 1 .. m : l = 2 * k + 1
    BY <1>1
  <2>2. w[l] = <<j + 2 * k, s[k]>>
    <3>1. j + l - 1 = j + 2 * k /\ t[l] = s[k]
      BY <1>2, <2>1
    <3>2. w[l] = <<j + l - 1, t[l]>>
      BY <1>6
    <3> QED
      BY <3>1, <3>2
  <2> QED
    BY <1>8, <2>1, <2>2 DEF Range
<1> QED
  BY <1>1, <1>3, <1>12, <1>13

LEMMA OneWrite ==
  ASSUME NEW i \in Nat, NEW c \in Octets
  PROVE  Laid(<<<<i, c>>>>, {i}) /\ Range(<<<<i, c>>>>) = {<<i, c>>}
<1>1. PICK w : w = <<<<i, c>>>>
  OBVIOUS
<1>2. w \in Seq(Nat \X Octets) /\ DOMAIN w = {1} /\ w[1] = <<i, c>>
  BY <1>1
<1> QED
  BY <1>1, <1>2 DEF Laid, ByteWrites, Range

OwnAt(v) == IF v = "232h" THEN {0, 1, 30, 138} ELSE {0, 1, 24}

LEMMA OwnIs ==
  ASSUME NEW v \in {"232h", "2232h"}
  PROVE  Laid(Own(v), OwnAt(v))
<1>1. \A i \in {0, 1, 8, 16, 70, 72, 102} : i \in Octets
  BY OctetsAre
<1>2. CASE v = "232h"
  <2>1. PICK w : w = <<<<0, 16>>, <<1, 0>>, <<30, 102>>, <<138, 72>>>>
    OBVIOUS
  <2>2. w \in Seq(Nat \X Octets)
    BY <1>1, <2>1
  <2>3. DOMAIN w = 1 .. 4 /\ w[1][1] = 0 /\ w[2][1] = 1 /\ w[3][1] = 30 /\ w[4][1] = 138
    BY <2>1
  <2>4. \A k \in 1 .. 4 : k = 1 \/ k = 2 \/ k = 3 \/ k = 4
    OBVIOUS
  <2>5. Laid(w, {0, 1, 30, 138})
    BY <2>2, <2>3, <2>4 DEF Laid, ByteWrites
  <2> QED
    BY <1>2, <2>1, <2>5 DEF Own, OwnAt
<1>3. CASE v = "2232h"
  <2>1. PICK w : w = <<<<0, 8>>, <<1, 8>>, <<24, 70>>>>
    OBVIOUS
  <2>2. w \in Seq(Nat \X Octets)
    BY <1>1, <2>1
  <2>3. DOMAIN w = 1 .. 3 /\ w[1][1] = 0 /\ w[2][1] = 1 /\ w[3][1] = 24
    BY <2>1
  <2>4. \A k \in 1 .. 3 : k = 1 \/ k = 2 \/ k = 3
    OBVIOUS
  <2>5. Laid(w, {0, 1, 24})
    BY <2>2, <2>3, <2>4 DEF Laid, ByteWrites
  <2>6. v # "232h"
    BY <1>3
  <2> QED
    BY <1>3, <2>1, <2>5, <2>6 DEF Own, OwnAt
<1> QED
  BY <1>2, <1>3

LEMMA VersionIs ==
  ASSUME NEW e, e.usb_version \in Nat
  PROVE  Laid(Version(e), {12, 13})
<1>1. Low(e.usb_version) \in Octets /\ High(e.usb_version) \in Octets
  BY BytesOf
<1>2. PICK c \in Octets, d \in Octets : c = Low(e.usb_version) /\ d = High(e.usb_version)
  BY <1>1
<1>3. PICK w : w = <<<<12, c>>, <<13, d>>>>
  OBVIOUS
<1>4. w \in Seq(Nat \X Octets) /\ DOMAIN w = {1, 2} /\ w[1][1] = 12 /\ w[2][1] = 13
  BY <1>3
<1>5. Laid(w, {12, 13})
  BY <1>4 DEF Laid, ByteWrites
<1>6. Laid(<<>>, {12, 13})
  <2>1. <<>> \in Seq(Nat \X Octets) /\ DOMAIN <<>> = {}
    OBVIOUS
  <2> QED
    BY <2>1 DEF Laid, ByteWrites
<1> QED
  BY <1>2, <1>3, <1>5, <1>6 DEF Version

\* The structs and the builders whose images hold together: all that
\* ftdi_232h_eeprom_build takes, and of those ftdi_2232h_eeprom_build takes for
\* 256 bytes the ones with at most 47 characters.
Fits(v, e) ==
  /\ v \in {"232h", "2232h"} /\ e \in ftdi_eeprom /\ Ret(v, e) >= 0
  /\ v = "2232h" => e.size = 256 /\ Chars(e) <= 47

\* Where the strings are, and that they end before the checksum.
LEMMA PlacesAre ==
  ASSUME NEW v, NEW e, Fits(v, e),
         NEW m, m = Size(e.manufacturer), NEW p, p = Size(e.product), NEW s, s = Size(e.serial)
  PROVE  /\ m \in Nat /\ p \in Nat /\ s \in Nat
         /\ Manufacturer(v) \in 154 .. 160
         /\ Product(v, e) = Manufacturer(v) + 2 * m + 2
         /\ Serial(v, e) = Product(v, e) + 2 * p + 2
         /\ Serial(v, e) + 2 * s + 2 <= 254
         /\ v = "232h" => Manufacturer(v) = 160 /\ Serial(v, e) + 2 * s + 2 <= 246
         /\ \A k \in 1 .. 5 : e.cbus[k] \in 0 .. 13 /\ (e.cbus[k] # 0 => e.type = TYPE_R)
         /\ e.cbus[5] \in 0 .. 9
         /\ e.invert # 0 => e.type = TYPE_R
<1>1. e.manufacturer \in Seq(Character) /\ e.product \in Seq(Character)
      /\ e.serial \in Seq(Character)
  BY FieldsAre DEF Fits
<1>2. m \in Nat /\ p \in Nat /\ s \in Nat
  <2>1. m \in 0 .. 255 /\ p \in 0 .. 255 /\ s \in 0 .. 255
    BY <1>1, SizeIs
  <2> QED
    BY <2>1
<1>3. Chars(e) = m + p + s
  BY DEF Chars
<1>4. Space(v, e) \in Nat /\ (v = "232h" => Space(v, e) = 80)
  <2>1. CASE v = "232h"
    BY <2>1 DEF Space
  <2>2. CASE v = "2232h"
    BY <2>2 DEF Space, Fits
  <2> QED
    BY <2>1, <2>2 DEF Fits
<1>5. /\ \A k \in 1 .. 5 : e.cbus[k] \in 0 .. 13 /\ (e.cbus[k] # 0 => e.type = TYPE_R)
      /\ e.cbus[5] \in 0 .. 9
      /\ e.invert # 0 => e.type = TYPE_R
      /\ 2 * Chars(e) <= Space(v, e)
  BY <1>4, TakenIs DEF Fits
<1>6. /\ v = "232h" => Manufacturer(v) = 160 /\ m + p + s <= 40
      /\ v = "2232h" => Manufacturer(v) = 154 /\ m + p + s <= 47
  <2>1. CASE v = "232h"
    BY <1>2, <1>3, <1>4, <1>5, <2>1 DEF Manufacturer
  <2>2. CASE v = "2232h"
    BY <1>3, <2>2 DEF Manufacturer, Fits
  <2> QED
    BY <2>1, <2>2 DEF Fits
<1>7. v = "232h" \/ v = "2232h"
  BY DEF Fits
<1>8. Product(v, e) = Manufacturer(v) + 2 * m + 2
  BY DEF Product
<1>9. Serial(v, e) = Product(v, e) + 2 * p + 2
  BY DEF Serial
<1>10. PICK i \in 154 .. 160 : i = Manufacturer(v)
  BY <1>6, <1>7
<1>11. Serial(v, e) + 2 * s + 2 = i + 2 * (m + p + s) + 6
  BY <1>2, <1>8, <1>9, <1>10
<1> QED
  BY <1>2, <1>5, <1>6, <1>7, <1>8, <1>9, <1>10, <1>11

\* The bytes before the checksum, and the one ftdi_232h_eeprom_build writes
\* at 138 whatever the size.
Room(size) == 0 .. size - 3 \cup {138}

\* The writes of a build are to different bytes, and not to those of the
\* checksum; among them are the fields, the offsets and the characters.
LEMMA WritesAre ==
  ASSUME NEW v, NEW e, Fits(v, e)
  PROVE  /\ Laid(Writes(v, e), Room(e.size))
         /\ Range(Fixed(e)) \subseteq Range(Writes(v, e))
         /\ Range(Version(e)) \subseteq Range(Writes(v, e))
         /\ {<<14, Manufacturer(v)>>, <<16, Product(v, e)>>, <<18, Serial(v, e)>>}
              \subseteq Range(Writes(v, e))
         /\ \A k \in 1 .. Size(e.manufacturer) :
              <<Placed(Manufacturer(v), e.size) + 2 * k, e.manufacturer[k]>> \in Range(Writes(v, e))
         /\ \A k \in 1 .. Size(e.product) :
              <<Placed(Product(v, e), e.size) + 2 * k, e.product[k]>> \in Range(Writes(v, e))
         /\ \A k \in 1 .. Size(e.serial) :
              <<Placed(Serial(v, e), e.size) + 2 * k, e.serial[k]>> \in Range(Writes(v, e))
<1>1. PICK m \in Nat, p \in Nat, s \in Nat :
        m = Size(e.manufacturer) /\ p = Size(e.product) /\ s = Size(e.serial)
  BY PlacesAre
<1>2. PICK M \in 154 .. 160, P \in Nat, S \in Nat :
        M = Manufacturer(v) /\ P = Product(v, e) /\ S = Serial(v, e)
  <2>1. Manufacturer(v) \in 154 .. 160 /\ Product(v, e) = Manufacturer(v) + 2 * m + 2
        /\ Serial(v, e) = Product(v, e) + 2 * p + 2
    BY <1>1, PlacesAre
  <2> QED
    BY <2>1
<1>3. /\ P = M + 2 * m + 2 /\ S = P + 2 * p + 2 /\ S + 2 * s + 2 <= 254
      /\ v = "232h" => M = 160 /\ S + 2 * s + 2 <= 246
  BY <1>1, <1>2, PlacesAre
<1>4. /\ e.manufacturer \in Seq(Character) /\ e.product \in Seq(Character)
      /\ e.serial \in Seq(Character) /\ e.usb_version \in Nat /\ e \in ftdi_eeprom
  BY FieldsAre DEF Fits
<1>5. PICK size \in {128, 256} : size = e.size
  BY FieldsAre DEF Fits
<1>6. P \in UpperHalf /\ S \in UpperHalf /\ M \in UpperHalf
  BY <1>3 DEF UpperHalf
<1>7. PICK i \in Nat, j \in Nat, k \in Nat :
        /\ i = Placed(M, size) /\ j = Placed(P, size) /\ k = Placed(S, size)
        /\ j = i + 2 * m + 2 /\ k = j + 2 * p + 2
  BY <1>3, <1>6 DEF Placed, UpperHalf
<1>8. Or128(P) = P /\ Or128(S) = S
  <2>1. \A x \in UpperHalf : 128 + (x % 128) = x
    BY DEF UpperHalf
  <2> QED
    BY <1>6, <2>1 DEF Or128
<1>9. /\ Laid(At(M, Text(e.manufacturer), size), Span(i, m))
      /\ \A l \in 1 .. m : <<i + 2 * l, e.manufacturer[l]>> \in Range(At(M, Text(e.manufacturer), size))
  <2>1. EndsInside(M, m)
    BY <1>3, <1>6 DEF EndsInside, UpperHalf
  <2>2. i = Placed(M, size)
    BY <1>7
  <2>3. PICK x \in Seq(Character) : x = e.manufacturer /\ m = Size(x)
    BY <1>1, <1>4
  <2>4. Laid(At(M, Text(x), size), Span(i, m))
    BY <1>6, <2>1, <2>2, <2>3, StringIs
  <2>5. \A l \in 1 .. m : <<i + 2 * l, x[l]>> \in Range(At(M, Text(x), size))
    BY <1>6, <2>1, <2>2, <2>3, StringIs
  <2> QED
    BY <2>3, <2>4, <2>5
<1>10. /\ Laid(At(P, Text(e.product), size), Span(j, p))
       /\ \A l \in 1 .. p : <<j + 2 * l, e.product[l]>> \in Range(At(P, Text(e.product), size))
  <2>1. EndsInside(P, p)
    BY <1>3, <1>6 DEF EndsInside, UpperHalf
  <2>2. j = Placed(P, size)
    BY <1>7
  <2>3. PICK x \in Seq(Character) : x = e.product /\ p = Size(x)
    BY <1>1, <1>4
  <2>4. Laid(At(P, Text(x), size), Span(j, p))
    BY <1>6, <2>1, <2>2, <2>3, StringIs
  <2>5. \A l \in 1 .. p : <<j + 2 * l, x[l]>> \in Range(At(P, Text(x), size))
    BY <1>6, <2>1, <2>2, <2>3, StringIs, SMTT(30)
  <2> QED
    BY <2>3, <2>4, <2>5
<1>11. /\ Laid(At(S, Text(e.serial), size), Span(k, s))
       /\ \A l \in 1 .. s : <<k + 2 * l, e.serial[l]>> \in Range(At(S, Text(e.serial), size))
  <2>1. EndsInside(S, s)
    BY <1>3, <1>6 DEF EndsInside, UpperHalf
  <2>2. k = Placed(S, size)
    BY <1>7
  <2>3. PICK x \in Seq(Character) : x = e.serial /\ s = Size(x)
    BY <1>1, <1>4
  <2>4. Laid(At(S, Text(x), size), Span(k, s))
    BY <1>6, <2>1, <2>2, <2>3, StringIs
  <2>5. \A l \in 1 .. s : <<k + 2 * l, x[l]>> \in Range(At(S, Text(x), size))
    BY <1>6, <2>1, <2>2, <2>3, StringIs
  <2> QED
    BY <2>3, <2>4, <2>5
<1>12. PICK mw, pw, sw :
         /\ mw = At(M, Text(e.manufacturer), size) /\ pw = At(P, Text(e.product), size)
         /\ sw = At(S, Text(e.serial), size)
  OBVIOUS
<1>13. PICK own, fix, ver : own = Own(v) /\ fix = Fixed(e) /\ ver = Version(e)
  OBVIOUS
<1>14. Writes(v, e) = own \o fix \o ver \o <<<<14, M>>>> \o mw \o <<<<16, P>>>> \o pw
                        \o <<<<18, S>>>> \o sw
  BY <1>2, <1>5, <1>8, <1>12, <1>13 DEF Writes
<1>15. PICK SM, SP, SS : /\ SM = Span(i, m) /\ SP = Span(j, p)
                         /\ SS = Span(k, s)
  OBVIOUS
<1>16. /\ 32 <= i /\ i < j /\ j < k /\ k + 2 * s + 1 <= size - 3
       /\ i > 138 \/ k + 2 * s + 1 < 138
  <2>1. CASE size = 256
    BY <1>3, <1>6, <1>7, <2>1 DEF Placed, UpperHalf
  <2>2. CASE size = 128
    <3>1. v = "232h"
      BY <1>5, <2>2 DEF Fits
    <3> QED
      BY <1>3, <1>6, <1>7, <2>2, <3>1 DEF Placed, UpperHalf
  <2> QED
    BY <2>1, <2>2
<1>17. /\ \A x \in SM : x \in Nat /\ x >= 32 /\ x # 138 /\ x < j /\ x <= size - 3
       /\ \A x \in SP : x \in Nat /\ x >= 32 /\ x # 138 /\ j <= x /\ x < k /\ x <= size - 3
       /\ \A x \in SS : x \in Nat /\ x >= 32 /\ x # 138 /\ k <= x /\ x <= size - 3
  <2>1. PICK z \in Int : z = size - 3
    OBVIOUS
  <2>2. \A x \in i .. i + 2 * m + 1 : x \in Nat /\ x >= 32 /\ x # 138 /\ x < j /\ x <= z
    BY <1>7, <1>16, <2>1
  <2>3. \A x \in j .. j + 2 * p + 1 : x \in Nat /\ x >= 32 /\ x # 138 /\ j <= x /\ x < k /\ x <= z
    BY <1>7, <1>16, <2>1
  <2>4. \A x \in k .. k + 2 * s + 1 : x \in Nat /\ x >= 32 /\ x # 138 /\ k <= x /\ x <= z
    BY <1>7, <1>16, <2>1
  <2> QED
    BY <1>15, <2>1, <2>2, <2>3, <2>4 DEF Span
<1>18. PICK A1, A2, A3, A4 :
         A1 = OwnAt(v) /\ A2 = A1 \cup FixedAt /\ A3 = A2 \cup {12, 13} /\ A4 = A3 \cup {14}
  OBVIOUS
<1>19. /\ A1 \cap FixedAt = {} /\ A2 \cap {12, 13} = {} /\ A3 \cap {14} = {}
       /\ 16 \notin A4 /\ 18 \notin A4
       /\ \A x \in A4 : x \in Nat /\ (x < 32 \/ x = 138)
  BY <1>18 DEF OwnAt, FixedAt
<1>20. PICK A5, A6, A7, A8 :
         A5 = A4 \cup SM /\ A6 = A5 \cup {16} /\ A7 = A6 \cup SP /\ A8 = A7 \cup {18}
  OBVIOUS
<1>21. A4 \cap SM = {} /\ A5 \cap {16} = {} /\ A6 \cap SP = {} /\ A7 \cap {18} = {} /\ A8 \cap SS = {}
  <2>1. A4 \cap SM = {}
    BY <1>17, <1>19
  <2>2. A5 \cap {16} = {}
    BY <1>17, <1>19, <1>20
  <2>3. A6 \cap SP = {}
    BY <1>17, <1>19, <1>20
  <2>4. A7 \cap {18} = {}
    BY <1>17, <1>19, <1>20
  <2>5. A8 \cap SS = {}
    BY <1>16, <1>17, <1>19, <1>20
  <2> QED
    BY <2>1, <2>2, <2>3, <2>4, <2>5
<1>22. PICK w2, w3, w4 : w2 = own \o fix /\ w3 = w2 \o ver /\ w4 = w3 \o <<<<14, M>>>>
  OBVIOUS
<1>23. PICK w5, w6, w7, w8, w9 :
         /\ w5 = w4 \o mw /\ w6 = w5 \o <<<<16, P>>>> /\ w7 = w6 \o pw
         /\ w8 = w7 \o <<<<18, S>>>> /\ w9 = w8 \o sw
  OBVIOUS
<1>24. PICK o4, o6, o8, at4, at6, at8, at12 :
         /\ o4 = <<<<14, M>>>> /\ o6 = <<<<16, P>>>> /\ o8 = <<<<18, S>>>>
         /\ at4 = {14} /\ at6 = {16} /\ at8 = {18} /\ at12 = {12, 13}
  OBVIOUS
<1>25. /\ Laid(o4, at4) /\ Range(o4) = {<<14, M>>}
       /\ Laid(o6, at6) /\ Range(o6) = {<<16, P>>}
       /\ Laid(o8, at8) /\ Range(o8) = {<<18, S>>}
  <2>1. \A x \in UpperHalf : x \in Octets
    BY OctetsAre DEF UpperHalf
  <2>2. M \in Octets /\ P \in Octets /\ S \in Octets
    BY <1>6, <2>1
  <2>3. 14 \in Nat /\ 16 \in Nat /\ 18 \in Nat
    OBVIOUS
  <2>4. /\ Laid(<<<<14, M>>>>, {14}) /\ Range(<<<<14, M>>>>) = {<<14, M>>}
        /\ Laid(<<<<16, P>>>>, {16}) /\ Range(<<<<16, P>>>>) = {<<16, P>>}
        /\ Laid(<<<<18, S>>>>, {18}) /\ Range(<<<<18, S>>>>) = {<<18, S>>}
    BY <2>2, <2>3, OneWrite
  <2> QED
    BY <1>24, <2>4
<1>26. PICK fixAt : fixAt = FixedAt
  OBVIOUS
<1>27. Laid(own, A1) /\ Laid(fix, fixAt) /\ Laid(ver, at12)
  <2>1. \A l \in 1 .. 5 : e.cbus[l] \in 0 .. 13
    BY <1>1, PlacesAre
  <2>2. Laid(Own(v), OwnAt(v)) /\ Laid(Fixed(e), FixedAt) /\ Laid(Version(e), {12, 13})
    BY <1>4, <2>1, OwnIs, FixedIs, VersionIs DEF Fits
  <2> QED
    BY <1>13, <1>18, <1>24, <1>26, <2>2
<1>28. /\ Follows(w2, A2, own, A1, fix, fixAt) /\ Follows(w3, A3, w2, A2, ver, at12)
       /\ Follows(w4, A4, w3, A3, o4, at4)
  BY <1>18, <1>19, <1>22, <1>24, <1>26 DEF Follows
<1>29. /\ Follows(w5, A5, w4, A4, mw, SM) /\ Follows(w6, A6, w5, A5, o6, at6)
       /\ Follows(w7, A7, w6, A6, pw, SP) /\ Follows(w8, A8, w7, A7, o8, at8)
       /\ Follows(w9, A8 \cup SS, w8, A8, sw, SS)
  BY <1>20, <1>21, <1>23, <1>24 DEF Follows
<1>30. /\ Laid(mw, SM) /\ Laid(pw, SP) /\ Laid(sw, SS)
  BY <1>9, <1>10, <1>11, <1>12, <1>15
<1>31. /\ Laid(w2, A2) /\ Range(w2) = Range(own) \cup Range(fix)
       /\ Laid(w3, A3) /\ Range(w3) = Range(w2) \cup Range(ver)
       /\ Laid(w4, A4) /\ Range(w4) = Range(w3) \cup {<<14, M>>}
  <2>1. Laid(w2, A2) /\ Range(w2) = Range(own) \cup Range(fix)
    BY <1>27, <1>28, LaidNext
  <2>2. Laid(w3, A3) /\ Range(w3) = Range(w2) \cup Range(ver)
    BY <1>27, <1>28, <2>1, LaidNext
  <2>3. Laid(w4, A4) /\ Range(w4) = Range(w3) \cup Range(o4)
    BY <1>25, <1>28, <2>2, LaidNext
  <2> QED
    BY <1>25, <2>1, <2>2, <2>3
<1>32. /\ Laid(w5, A5) /\ Range(w5) = Range(w4) \cup Range(mw)
       /\ Laid(w6, A6) /\ Range(w6) = Range(w5) \cup {<<16, P>>}
  <2>1. Laid(w5, A5) /\ Range(w5) = Range(w4) \cup Range(mw)
    BY <1>29, <1>30, <1>31, LaidNext
  <2>2. Laid(w6, A6) /\ Range(w6) = Range(w5) \cup Range(o6)
    BY <1>25, <1>29, <2>1, LaidNext
  <2> QED
    BY <1>25, <2>1, <2>2
<1>33. /\ Laid(w7, A7) /\ Range(w7) = Range(w6) \cup Range(pw)
       /\ Laid(w8, A8) /\ Range(w8) = Range(w7) \cup {<<18, S>>}
       /\ Laid(w9, A8 \cup SS) /\ Range(w9) = Range(w8) \cup Range(sw)
  <2>1. Laid(w7, A7) /\ Range(w7) = Range(w6) \cup Range(pw)
    BY <1>29, <1>30, <1>32, LaidNext
  <2>2. Laid(w8, A8) /\ Range(w8) = Range(w7) \cup Range(o8)
    BY <1>25, <1>29, <2>1, LaidNext
  <2>3. Laid(w9, A8 \cup SS) /\ Range(w9) = Range(w8) \cup Range(sw)
    BY <1>29, <1>30, <2>2, LaidNext
  <2> QED
    BY <1>25, <2>1, <2>2, <2>3
<1>34. Writes(v, e) = w9
  BY <1>14, <1>22, <1>23
<1>35. A8 \cup SS \subseteq 0 .. size - 3 \cup {138}
  <2>1. \A x \in A8 \cup SS : x \in Nat /\ (x <= size - 3 \/ x = 138)
    BY <1>16, <1>17, <1>19, <1>20
  <2> QED
    BY <2>1
<1>36. Laid(Writes(v, e), Room(e.size))
  BY <1>5, <1>33, <1>34, <1>35 DEF Laid, Room
<1>37. /\ Range(fix) \subseteq Range(w9) /\ Range(ver) \subseteq Range(w9)
       /\ {<<14, M>>, <<16, P>>, <<18, S>>} \subseteq Range(w9)
       /\ Range(mw) \subseteq Range(w9) /\ Range(pw) \subseteq Range(w9)
       /\ Range(sw) \subseteq Range(w9)
  BY <1>31, <1>32, <1>33
<1>38. /\ \A l \in 1 .. m : <<i + 2 * l, e.manufacturer[l]>> \in Range(w9)
       /\ \A l \in 1 .. p : <<j + 2 * l, e.product[l]>> \in Range(w9)
       /\ \A l \in 1 .. s : <<k + 2 * l, e.serial[l]>> \in Range(w9)
  BY <1>9, <1>10, <1>11, <1>12, <1>37
<1> QED
  BY <1>1, <1>2, <1>5, <1>7, <1>13, <1>34, <1>36, <1>37, <1>38

LEMMA WritesFit ==
  ASSUME NEW v, NEW e, Fits(v, e)
  PROVE  Laid(Writes(v, e), Room(e.size))
BY WritesAre

LEMMA StringsAreWritten ==
  ASSUME NEW v, NEW e, Fits(v, e)
  PROVE  /\ \A k \in 1 .. Size(e.manufacturer) :
              <<Placed(Manufacturer(v), e.size) + 2 * k, e.manufacturer[k]>> \in Range(Writes(v, e))
         /\ \A k \in 1 .. Size(e.product) :
              <<Placed(Product(v, e), e.size) + 2 * k, e.product[k]>> \in Range(Writes(v, e))
         /\ \A k \in 1 .. Size(e.serial) :
              <<Placed(Serial(v, e), e.size) + 2 * k, e.serial[k]>> \in Range(Writes(v, e))
BY WritesAre

-----------------------------------------------------------------------------
(* What a build leaves, and what decode makes of it.                       *)

InImage == 0 .. 255

\* An image of 256 bytes holds what was written, and its checksum is right.
LEMMA BuildHolds ==
  ASSUME NEW v, NEW e, Fits(v, e), e.size = 256, NEW out, out = Build(v, e)
  PROVE  /\ DOMAIN out = InImage /\ \A i \in InImage : out[i] \in Octets
         /\ \A q \in Range(Writes(v, e)) : out[q[1]] = q[2]
         /\ Verifies(out)
<1> DEFINE buf == Apply(Writes(v, e), 256)
           sum == Checksum(buf, 256)
<1>1. PICK w : w = Writes(v, e)
  OBVIOUS
<1>2. PICK S : S = 0 .. 256 - 3 \cup {138}
  OBVIOUS
<1>3. Laid(w, S)
  <2>1. Laid(Writes(v, e), Room(e.size))
    BY WritesFit
  <2> QED
    BY <1>1, <1>2, <2>1 DEF Room
<1>4. \A i \in S : i \in InImage /\ i # 254 /\ i # 255 /\ i \in 0 .. 256 - 1
  BY <1>2 DEF InImage
<1>5. InImage = 0 .. 256 - 1
  BY DEF InImage
<1>6. /\ \A q \in Range(w) : buf[q[1]] = q[2]
      /\ \A i \in InImage : i \in DOMAIN buf /\ buf[i] \in Octets
      /\ DOMAIN buf = InImage
  <2>1. PICK n \in Nat : n = 256
    OBVIOUS
  <2>2. S \subseteq 0 .. n - 1 /\ InImage = 0 .. n - 1
    BY <1>4, <1>5, <2>1
  <2>3. \A q \in Range(w) : Apply(w, n)[q[1]] = q[2]
    BY <1>3, AppliedIs
  <2>4. \A i \in 0 .. n - 1 : i \in DOMAIN Apply(w, n) /\ Apply(w, n)[i] \in Octets
    BY <1>3, AppliedIs
  <2>5. DOMAIN Apply(w, n) = 0 .. n - 1
    BY <1>3, <2>2, AppliedIs
  <2> QED
    BY <1>1, <2>1, <2>2, <2>3, <2>4, <2>5
<1>7. out = [buf EXCEPT ![254] = Low(sum), ![255] = High(sum)]
  <2>1. e.size - 2 = 254 /\ e.size - 1 = 255
    OBVIOUS
  <2> QED
    BY <2>1 DEF Build
<1>8. sum = Short(Sum(buf, 127))
  BY DEF Checksum
<1>9. PICK f, c : f = buf /\ c = sum
  OBVIOUS
<1>10. c \in Shorts
  <2>1. Sum(f, 127) \subseteq 0 .. 15
    BY SMT DEF Sum
  <2> QED
    BY <1>8, <1>9, <2>1, ShortIs
<1> HIDE DEF buf, sum
<1>11. Low(c) \in Octets /\ High(c) \in Octets /\ Word(Low(c), High(c)) = c
  BY <1>10, BytesOfWord
<1>12. 254 \in InImage /\ 255 \in InImage
  BY DEF InImage
<1>13. out = [f EXCEPT ![254] = Low(c), ![255] = High(c)]
  BY <1>7, <1>9
<1>14. /\ DOMAIN out = InImage /\ out[254] = Low(c) /\ out[255] = High(c)
       /\ \A i \in InImage : i # 254 /\ i # 255 => out[i] = f[i]
  BY <1>6, <1>9, <1>12, <1>13
<1>15. \A i \in InImage : out[i] \in Octets
  BY <1>6, <1>9, <1>11, <1>14
<1>16. ASSUME NEW q \in Range(w) PROVE out[q[1]] = q[2]
  <2>1. PICK k \in DOMAIN w : q = w[k]
    BY DEF Range
  <2>2. q[1] \in S
    BY <1>3, <2>1 DEF Laid
  <2> QED
    BY <1>4, <1>6, <1>9, <1>14, <2>2
<1>17. Sum(out, 127) = Sum(f, 127)
  <2>1. ASSUME NEW i \in 0 .. 127 - 1 PROVE WordsOf(out, i) = WordsOf(f, i)
    <3>1. /\ 2 * i \in InImage /\ 2 * i # 254 /\ 2 * i # 255
          /\ 2 * i + 1 \in InImage /\ 2 * i + 1 # 254 /\ 2 * i + 1 # 255
      BY DEF InImage
    <3>2. out[2 * i] = f[2 * i] /\ out[2 * i + 1] = f[2 * i + 1]
      BY <1>14, <3>1
    <3> QED
      BY <3>2 DEF WordsOf
  <2>2. PICK n \in Nat : n = 127
    OBVIOUS
  <2>3. \A i \in 0 .. n - 1 : WordsOf(out, i) = WordsOf(f, i)
    BY <2>1, <2>2
  <2>4. Sum(out, n) = Sum(f, n)
    BY <2>3, SameSum
  <2> QED
    BY <2>2, <2>4
<1>18. Verifies(out)
  <2>1. Checksum(out, 256) = Short(Sum(out, 127))
    BY DEF Checksum
  <2>2. Checksum(out, 256) = c
    BY <1>8, <1>9, <1>17, <2>1
  <2> QED
    BY <1>11, <1>14, <2>2 DEF Verifies
<1> QED
  BY <1>1, <1>14, <1>15, <1>16, <1>18

\* The flags are read back from their bytes.
LEMMA FlagsAre ==
  ASSUME NEW flags \in SUBSET AllFlags
  PROVE  Flags(ConfigBits, ConfigByte(flags)) \cup Flags(ChipBits, ChipByte(flags)) = flags
<1>1. PICK c \in Nat, d \in Nat : c = ConfigByte(flags) /\ d = ChipByte(flags)
  BY DEF ConfigByte, ChipByte, Bit, ConfigBits, ChipBits
<1>2. /\ (c \div 64) % 2 = 1 <=> "self_powered" \in flags
      /\ (c \div 32) % 2 = 1 <=> "remote_wakeup" \in flags
  <2>1. PICK x \in {0, 64}, y \in {0, 32} :
          /\ x = Bit(ConfigBits, "self_powered", flags) /\ y = Bit(ConfigBits, "remote_wakeup", flags)
          /\ x = 64 <=> "self_powered" \in flags
          /\ y = 32 <=> "remote_wakeup" \in flags
    BY DEF Bit, ConfigBits
  <2>2. c = 128 + x + y
    BY <1>1, <2>1 DEF ConfigByte
  <2>3. /\ (c \div 64) % 2 = 1 <=> x = 64
        /\ (c \div 32) % 2 = 1 <=> y = 32
    BY <2>1, <2>2
  <2> QED
    BY <2>1, <2>3
<1>3. /\ (d \div 1) % 2 = 1 <=> "in_is_isochronous" \in flags
      /\ (d \div 2) % 2 = 1 <=> "out_is_isochronous" \in flags
      /\ (d \div 4) % 2 = 1 <=> "suspend_pull_downs" \in flags
      /\ (d \div 8) % 2 = 1 <=> "use_serial" \in flags
      /\ (d \div 16) % 2 = 1 <=> "change_usb_version" \in flags
  <2>1. PICK x \in 0 .. 1, y \in 0 .. 1, z \in 0 .. 1 :
          /\ x = Bit(ChipBits, "in_is_isochronous", flags)
          /\ 2 * y = Bit(ChipBits, "out_is_isochronous", flags)
          /\ 4 * z = Bit(ChipBits, "suspend_pull_downs", flags)
          /\ x = 1 <=> "in_is_isochronous" \in flags
          /\ y = 1 <=> "out_is_isochronous" \in flags
          /\ z = 1 <=> "suspend_pull_downs" \in flags
    BY DEF Bit, ChipBits
  <2>2. PICK u \in 0 .. 1, w \in 0 .. 1 :
          /\ 8 * u = Bit(ChipBits, "use_serial", flags)
          /\ 16 * w = Bit(ChipBits, "change_usb_version", flags)
          /\ u = 1 <=> "use_serial" \in flags
          /\ w = 1 <=> "change_usb_version" \in flags
    BY DEF Bit, ChipBits
  <2>3. d = x + 2 * y + 4 * z + 8 * u + 16 * w
    BY <1>1, <2>1, <2>2 DEF ChipByte
  <2>4. d \div 1 = x + 2 * (y + 2 * z + 4 * u + 8 * w)
    BY <2>1, <2>2, <2>3
  <2>5. d \div 2 = y + 2 * (z + 2 * u + 4 * w)
    BY <2>1, <2>2, <2>3
  <2>6. d \div 4 = z + 2 * (u + 2 * w)
    <3>1. PICK k \in Nat \ {0}, h \in Nat, r \in Nat : k = 4 /\ h = z + 2 * (u + 2 * w) /\ r = x + 2 * y
      BY <2>1, <2>2
    <3>2. r \in 0 .. k - 1 /\ d = k * h + r
      BY <2>1, <2>2, <2>3, <3>1
    <3>3. d \div k = h
      BY <3>2, QuotientIs
    <3> QED
      BY <3>1, <3>3
  <2>7. d \div 8 = u + 2 * w
    <3>1. PICK k \in Nat \ {0}, h \in Nat, r \in Nat : k = 8 /\ h = u + 2 * w /\ r = x + 2 * y + 4 * z
      BY <2>1, <2>2
    <3>2. r \in 0 .. k - 1 /\ d = k * h + r
      BY <2>1, <2>2, <2>3, <3>1
    <3>3. d \div k = h
      BY <3>2, QuotientIs
    <3> QED
      BY <3>1, <3>3
  <2>8. d \div 16 = w
    <3>1. PICK k \in Nat \ {0}, h \in Nat, r \in Nat : k = 16 /\ h = w /\ r = x + 2 * y + 4 * z + 8 * u
      BY <2>1, <2>2
    <3>2. r \in 0 .. k - 1 /\ d = k * h + r
      BY <2>1, <2>2, <2>3, <3>1
    <3>3. d \div k = h
      BY <3>2, QuotientIs
    <3> QED
      BY <3>1, <3>3
  <2>9. \A k \in 0 .. 1, h \in Nat : (k + 2 * h) % 2 = 1 <=> k = 1
    OBVIOUS
  <2>10. /\ (d \div 1) % 2 = 1 <=> x = 1
         /\ (d \div 2) % 2 = 1 <=> y = 1
         /\ (d \div 4) % 2 = 1 <=> z = 1
         /\ (d \div 8) % 2 = 1 <=> u = 1
         /\ (d \div 16) % 2 = 1 <=> w = 1
    BY <2>4, <2>5, <2>6, <2>7, <2>8, <2>9
  <2> QED
    BY <2>1, <2>2, <2>10
<1>4. Flags(ConfigBits, c) = flags \cap DOMAIN ConfigBits
  BY <1>2 DEF Flags, ConfigBits
<1>5. Flags(ChipBits, d) = flags \cap DOMAIN ChipBits
  BY <1>3 DEF Flags, ChipBits
<1> QED
  BY <1>1, <1>4, <1>5 DEF AllFlags

\* The type is read back, when it is one decode knows.
TypesOf(low, high) == {t \in Decoded : low = 0 /\ Release(t) = high}

LEMMA TypesAre ==
  ASSUME NEW type \in Nat
  PROVE  TypesOf(0, Release(type)) = IF type \in Decoded THEN {type} ELSE {}
<1>1. /\ Release(0) = 2 /\ Release(1) = 4 /\ Release(2) = 5 /\ Release(3) = 6
      /\ Release(4) = 7 /\ Release(5) = 8 /\ Release(6) = 9
  BY DEF Release, TYPE_AM, TYPE_232H
<1>2. Decoded = {0, 1, 3, 4, 5, 6}
  BY DEF Decoded, TYPE_AM, TYPE_BM, TYPE_R, TYPE_2232H, TYPE_4232H, TYPE_232H
<1>3. type \notin 0 .. 6 => Release(type) = 0
  BY DEF Release, TYPE_AM, TYPE_232H
<1>4. type \in 0 .. 6 =>
        type = 0 \/ type = 1 \/ type = 2 \/ type = 3 \/ type = 4 \/ type = 5 \/ type = 6
  OBVIOUS
<1>5. \A t \in Decoded : Release(t) = Release(type) <=> t = type
  BY <1>1, <1>2, <1>3, <1>4
<1>6. TypesOf(0, Release(type)) = {t \in Decoded : t = type}
  BY <1>5 DEF TypesOf
<1> QED
  BY <1>6

\* An image holds the string s of n characters at o, as its bytes x and x + 1 say.
HasString(buf, x, s, n, o) ==
  /\ s \in Seq(Character) /\ n = Size(s) /\ n <= 47 /\ o \in Nat /\ o + 2 * n <= 255
  /\ buf[x] = o /\ buf[x + 1] = Low(2 * n + 2)
  /\ \A j \in 1 .. n : buf[o + 2 * j] = s[j]

\* What decode shows of the string whose offset is at x.
TextOf(buf, x) == Shown([j \in DOMAIN TextAt(buf, x) |-> buf[TextAt(buf, x)[j]]])

LEMMA StringIsShown ==
  ASSUME NEW buf, NEW x, NEW s, NEW n, NEW o, HasString(buf, x, s, n, o)
  PROVE  /\ TextOf(buf, x) = SubSeq(s, 1, n) /\ Length(buf, x) # 0
         /\ \A j \in DOMAIN TextAt(buf, x) : ~(TextAt(buf, x)[j] > 255)
<1>1. /\ s \in Seq(Character) /\ n = Size(s) /\ n <= 47 /\ o \in Nat /\ o + 2 * n <= 255
      /\ buf[x] = o /\ buf[x + 1] = Low(2 * n + 2)
      /\ \A j \in 1 .. n : buf[o + 2 * j] = s[j]
  BY DEF HasString
<1>2. n \in Nat /\ Len(s) \in Nat /\ n <= Len(s)
  <2>1. n \in 0 .. 255 /\ Len(s) \in Nat /\ n <= Len(s)
    BY <1>1, SizeIs
  <2> QED
    BY <2>1
<1>3. Length(buf, x) = n + 1
  <2>1. PICK m \in Nat : m = 2 * n + 2
    BY <1>2
  <2>2. m % 256 = m /\ m \div 2 = n + 1
    BY <1>1, <1>2, <2>1, SMTT(30)
  <2> QED
    BY <1>1, <2>1, <2>2 DEF Length, Low
<1>4. TextAt(buf, x) = [j \in 1 .. n |-> 2 * j + o]
  <2>1. Length(buf, x) - 1 = n
    BY <1>2, <1>3
  <2> QED
    BY <1>1, <2>1 DEF TextAt
<1>5. \A j \in 1 .. n : 2 * j + o \in Nat /\ ~(2 * j + o > 255)
  BY <1>1, <1>2
<1>6. \A j \in DOMAIN TextAt(buf, x) : ~(TextAt(buf, x)[j] > 255)
  BY <1>4, <1>5
<1>7. PICK t : t = [j \in 1 .. n |-> s[j]]
  OBVIOUS
<1>8. TextOf(buf, x) = Shown(t)
  <2>1. \A j \in 1 .. n : buf[2 * j + o] = s[j]
    <3>1. \A j \in 1 .. n : 2 * j + o = o + 2 * j
      BY <1>1, <1>2
    <3> QED
      BY <1>1, <3>1
  <2>2. [j \in DOMAIN TextAt(buf, x) |-> buf[TextAt(buf, x)[j]]] = [j \in 1 .. n |-> s[j]]
    BY <1>4, <2>1
  <2> QED
    BY <1>7, <2>2 DEF TextOf
<1>9. \A j \in 1 .. n : s[j] \in Character
  <2>1. \A j \in 1 .. n : j \in 1 .. Len(s)
    BY <1>2
  <2> QED
    BY <1>1, <2>1, ElementOfSeq
<1>10. t \in Seq(Character) /\ Len(t) = n /\ DOMAIN t = 1 .. n
  <2>1. t \in [1 .. n -> Character]
    BY <1>7, <1>9
  <2> QED
    BY <1>2, <2>1, SeqOfLen
<1>11. SubSeq(s, 1, n) = t
  <2>1. n \in 0 .. Len(s)
    BY <1>2
  <2>2. SubSeq(s, 1, n) = Restrict(s, 1 .. n)
    BY <1>1, <2>1, SubSeqRestrict
  <2> QED
    BY <1>7, <2>2 DEF Restrict
<1>12. Shown(t) = t
  <2>1. \A j \in 1 .. Len(t) : t[j] # 0
    BY <1>7, <1>9, <1>10 DEF Character
  <2>2. {k - 1 : k \in {j \in 1 .. Len(t) : t[j] = 0}} = {}
    BY <2>1
  <2>3. Min({Len(t)} \cup {}) = Len(t)
    <3>1. \A y \in {n} : n <= y
      BY <1>2
    <3>2. {Len(t)} \cup {} = {n}
      BY <1>10
    <3>3. \A y \in {n} : y = n
      OBVIOUS
    <3> QED
      BY <1>10, <3>1, <3>2, <3>3 DEF Min
  <2>4. Shown(t) = SubSeq(t, 1, Len(t))
    BY <2>2, <2>3 DEF Shown
  <2> QED
    BY <1>10, <2>4, SubSeqFull
<1> QED
  BY <1>3, <1>2, <1>6, <1>8, <1>11, <1>12

\* The writes of a build as functions of their bytes.
LEMMA HeldIs ==
  ASSUME NEW v, NEW e, Fits(v, e), e.size = 256, NEW out, out = Build(v, e)
  PROVE  /\ out[2] = Low(e.vendor_id) /\ out[3] = High(e.vendor_id)
         /\ out[4] = Low(e.product_id) /\ out[5] = High(e.product_id)
         /\ out[6] = 0 /\ out[7] = Release(e.type)
         /\ out[8] = ConfigByte(e.flags) /\ out[9] = Low(e.max_power)
         /\ out[10] = ChipByte(e.flags) /\ out[11] = Low(e.invert)
         /\ out[20] = e.cbus[1] + 16 * e.cbus[2] /\ out[21] = e.cbus[3] + 16 * e.cbus[4]
         /\ out[22] = e.cbus[5]
         /\ "change_usb_version" \in e.flags =>
              out[12] = Low(e.usb_version) /\ out[13] = High(e.usb_version)
         /\ HasString(out, 14, e.manufacturer, Size(e.manufacturer), Manufacturer(v))
         /\ HasString(out, 16, e.product, Size(e.product), Product(v, e))
         /\ HasString(out, 18, e.serial, Size(e.serial), Serial(v, e))
<1>1. PICK W : W = Range(Writes(v, e))
  OBVIOUS
<1>2. \A q \in W : out[q[1]] = q[2]
  BY <1>1, BuildHolds
<1>3. PICK w : w = Fixed(e)
  OBVIOUS
<1>4. ASSUME NEW k \in 1 .. 16 PROVE out[w[k][1]] = w[k][2]
  <2>1. Range(w) \subseteq W
    BY <1>1, <1>3, WritesAre
  <2>2. w[k] \in Range(w)
    <3>1. DOMAIN w = 1 .. 16
      BY <1>3 DEF Fixed
    <3> QED
      BY <3>1 DEF Range
  <2> QED
    BY <1>2, <2>1, <2>2
<1>5. \A k \in 1 .. 16 : w[k][1] = Place(k)
  BY <1>3 DEF Fixed, Place
<1>6. /\ out[2] = w[1][2] /\ out[3] = w[2][2] /\ out[4] = w[3][2] /\ out[5] = w[4][2]
      /\ out[6] = w[5][2] /\ out[7] = w[6][2] /\ out[8] = w[7][2] /\ out[9] = w[8][2]
      /\ out[10] = w[9][2] /\ out[11] = w[10][2] /\ out[15] = w[11][2] /\ out[17] = w[12][2]
      /\ out[19] = w[13][2] /\ out[20] = w[14][2] /\ out[21] = w[15][2] /\ out[22] = w[16][2]
  <2>1. /\ w[1][1] = 2 /\ w[2][1] = 3 /\ w[3][1] = 4 /\ w[4][1] = 5 /\ w[5][1] = 6 /\ w[6][1] = 7
        /\ w[7][1] = 8 /\ w[8][1] = 9 /\ w[9][1] = 10 /\ w[10][1] = 11 /\ w[11][1] = 15
        /\ w[12][1] = 17 /\ w[13][1] = 19 /\ w[14][1] = 20 /\ w[15][1] = 21 /\ w[16][1] = 22
    BY <1>3 DEF Fixed
  <2> QED
    BY <1>4, <2>1
<1>7. /\ w[1][2] = Low(e.vendor_id) /\ w[2][2] = High(e.vendor_id)
      /\ w[3][2] = Low(e.product_id) /\ w[4][2] = High(e.product_id)
      /\ w[5][2] = 0 /\ w[6][2] = Release(e.type)
      /\ w[7][2] = ConfigByte(e.flags) /\ w[8][2] = Low(e.max_power)
      /\ w[9][2] = ChipByte(e.flags) /\ w[10][2] = Low(e.invert)
      /\ w[11][2] = Low(2 * Size(e.manufacturer) + 2) /\ w[12][2] = Low(2 * Size(e.product) + 2)
      /\ w[13][2] = Low(2 * Size(e.serial) + 2)
      /\ w[14][2] = e.cbus[1] + 16 * e.cbus[2] /\ w[15][2] = e.cbus[3] + 16 * e.cbus[4]
      /\ w[16][2] = e.cbus[5]
  BY <1>3 DEF Fixed
<1>8. "change_usb_version" \in e.flags =>
        out[12] = Low(e.usb_version) /\ out[13] = High(e.usb_version)
  <2> SUFFICES ASSUME "change_usb_version" \in e.flags
               PROVE  out[12] = Low(e.usb_version) /\ out[13] = High(e.usb_version)
    OBVIOUS
  <2>1. PICK c, d, u : c = Low(e.usb_version) /\ d = High(e.usb_version) /\ u = <<<<12, c>>, <<13, d>>>>
    OBVIOUS
  <2>2. u = Version(e)
    BY <2>1 DEF Version
  <2>3. u[1] \in Range(u) /\ u[2] \in Range(u) /\ u[1] = <<12, c>> /\ u[2] = <<13, d>>
    BY <2>1 DEF Range
  <2>4. Range(u) \subseteq W
    BY <1>1, <2>2, WritesAre
  <2>5. out[u[1][1]] = u[1][2] /\ out[u[2][1]] = u[2][2]
    BY <1>2, <2>3, <2>4
  <2> QED
    BY <2>1, <2>3, <2>5
<1>9. PICK m, p, s, M, P, S :
        /\ m = Size(e.manufacturer) /\ p = Size(e.product) /\ s = Size(e.serial)
        /\ M = Manufacturer(v) /\ P = Product(v, e) /\ S = Serial(v, e)
  OBVIOUS
<1>10. /\ m \in Nat /\ p \in Nat /\ s \in Nat /\ M \in 154 .. 160 /\ P = M + 2 * m + 2
       /\ S = P + 2 * p + 2 /\ S + 2 * s + 2 <= 254
  BY <1>9, PlacesAre
<1>11. /\ m <= 47 /\ p <= 47 /\ s <= 47 /\ P \in Nat /\ S \in Nat /\ M \in Nat
       /\ M + 2 * m <= 255 /\ P + 2 * p <= 255 /\ S + 2 * s <= 255
  BY <1>10
<1>12. e.manufacturer \in Seq(Character) /\ e.product \in Seq(Character)
       /\ e.serial \in Seq(Character)
  BY FieldsAre DEF Fits
<1>13. out[14] = M /\ out[16] = P /\ out[18] = S
  <2>1. {<<14, M>>, <<16, P>>, <<18, S>>} \subseteq W
    BY <1>1, <1>9, WritesAre
  <2>2. PICK f, g, h : f = <<14, M>> /\ g = <<16, P>> /\ h = <<18, S>>
    OBVIOUS
  <2>3. out[f[1]] = f[2] /\ out[g[1]] = g[2] /\ out[h[1]] = h[2]
    BY <1>2, <2>1, <2>2
  <2> QED
    BY <2>2, <2>3
<1>14. /\ \A k \in 1 .. m : out[M + 2 * k] = e.manufacturer[k]
       /\ \A k \in 1 .. p : out[P + 2 * k] = e.product[k]
       /\ \A k \in 1 .. s : out[S + 2 * k] = e.serial[k]
  <2>1. Placed(M, e.size) = M /\ Placed(P, e.size) = P /\ Placed(S, e.size) = S
    BY DEF Placed
  <2>2. /\ \A k \in 1 .. m : <<M + 2 * k, e.manufacturer[k]>> \in W
        /\ \A k \in 1 .. p : <<P + 2 * k, e.product[k]>> \in W
        /\ \A k \in 1 .. s : <<S + 2 * k, e.serial[k]>> \in W
    BY <1>1, <1>9, <2>1, StringsAreWritten
  <2>3. \A x, c : <<x, c>> \in W => out[x] = c
    <3> SUFFICES ASSUME NEW x, NEW c, <<x, c>> \in W PROVE out[x] = c
      OBVIOUS
    <3>1. PICK q : q = <<x, c>>
      OBVIOUS
    <3>2. q[1] = x /\ q[2] = c /\ q \in W
      BY <3>1
    <3> QED
      BY <1>2, <3>2
  <2>4. ASSUME NEW k \in 1 .. m PROVE out[M + 2 * k] = e.manufacturer[k]
    <3>1. PICK x, c : x = M + 2 * k /\ c = e.manufacturer[k]
      OBVIOUS
    <3>2. <<x, c>> \in W
      BY <2>2, <3>1
    <3> QED
      BY <2>3, <3>1, <3>2
  <2>5. ASSUME NEW k \in 1 .. p PROVE out[P + 2 * k] = e.product[k]
    <3>1. PICK x, c : x = P + 2 * k /\ c = e.product[k]
      OBVIOUS
    <3>2. <<x, c>> \in W
      BY <2>2, <3>1
    <3> QED
      BY <2>3, <3>1, <3>2
  <2>6. ASSUME NEW k \in 1 .. s PROVE out[S + 2 * k] = e.serial[k]
    <3>1. PICK x, c : x = S + 2 * k /\ c = e.serial[k]
      OBVIOUS
    <3>2. <<x, c>> \in W
      BY <2>2, <3>1
    <3> QED
      BY <2>3, <3>1, <3>2
  <2> QED
    BY <2>4, <2>5, <2>6
<1>15. /\ out[14 + 1] = Low(2 * m + 2) /\ out[16 + 1] = Low(2 * p + 2) /\ out[18 + 1] = Low(2 * s + 2)
  BY <1>6, <1>7, <1>9
<1>16. /\ HasString(out, 14, e.manufacturer, m, M) /\ HasString(out, 16, e.product, p, P)
       /\ HasString(out, 18, e.serial, s, S)
  BY <1>9, <1>11, <1>12, <1>13, <1>14, <1>15 DEF HasString
<1> QED
  BY <1>6, <1>7, <1>8, <1>9, <1>16

\* A struct as it is read back, Kept with decoded.high_current as a parameter.
ReadBack(e, high) == [e EXCEPT
  !.size = 0, !.high_current = high, !.type = IF @ \in Decoded THEN @ ELSE TYPE_AM,
  !.vendor_id = @ % 65536, !.product_id = @ % 65536, !.max_power = Low(@), !.invert = Low(@),
  !.usb_version = IF "change_usb_version" \in e.flags THEN @ % 65536 ELSE 0,
  !.manufacturer = SubSeq(@, 1, Size(@)), !.product = SubSeq(@, 1, Size(@)),
  !.serial = SubSeq(@, 1, Size(@))]

\* A whole image is decoded to the struct it was built from.
LEMMA DecodedIs ==
  ASSUME NEW v, NEW e, Fits(v, e), e.size = 256, NEW out, out = Build(v, e)
  PROVE  /\ ~NullText(out) /\ ~PastEnd(out)
         /\ Decode(out) = ReadBack(e, Decode(out).high_current)
<1>1. PICK c : c = e.cbus
  OBVIOUS
<1>2. /\ c \in [1 .. 5 -> Nat] /\ \A k \in 1 .. 5 : c[k] \in 0 .. 13 /\ (c[k] # 0 => e.type = TYPE_R)
      /\ c[5] \in 0 .. 9
  BY <1>1, FieldsAre, PlacesAre DEF Fits
<1>3. /\ TextOf(out, 14) = SubSeq(e.manufacturer, 1, Size(e.manufacturer))
      /\ TextOf(out, 16) = SubSeq(e.product, 1, Size(e.product))
      /\ TextOf(out, 18) = SubSeq(e.serial, 1, Size(e.serial))
  BY HeldIs, StringIsShown, SMTT(30)
<1>4. ~NullText(out)
  <2>1. Length(out, 14) # 0 /\ Length(out, 16) # 0 /\ Length(out, 18) # 0
    BY HeldIs, StringIsShown
  <2> QED
    BY <2>1 DEF NullText, Strings
<1>5. ~PastEnd(out)
  <2>1. /\ \A j \in DOMAIN TextAt(out, 14) : ~(TextAt(out, 14)[j] > 255)
        /\ \A j \in DOMAIN TextAt(out, 16) : ~(TextAt(out, 16)[j] > 255)
        /\ \A j \in DOMAIN TextAt(out, 18) : ~(TextAt(out, 18)[j] > 255)
    BY HeldIs, StringIsShown
  <2> QED
    BY <2>1 DEF PastEnd, Strings
<1>6. PICK types, type, flags, nibbles :
        /\ types = TypesOf(out[6], out[7])
        /\ type = IF types = {} THEN TYPE_AM ELSE CHOOSE t \in types : TRUE
        /\ flags = Flags(ConfigBits, out[8]) \cup Flags(ChipBits, out[10])
        /\ nibbles = <<out[20] % 16, out[20] \div 16, out[21] % 16, out[21] \div 16, out[22] % 16>>
  OBVIOUS
<1>7. Decode(out) =
        [type |-> type, flags |-> flags, size |-> 0,
         high_current |-> 16 * ((out[2] \div 16) % 2),
         vendor_id |-> Word(out[2], out[3]), product_id |-> Word(out[4], out[5]),
         max_power |-> out[9], invert |-> out[11],
         usb_version |-> IF "change_usb_version" \in flags THEN Word(out[12], out[13]) ELSE 0,
         cbus |-> IF type = TYPE_R THEN nibbles ELSE <<0, 0, 0, 0, 0>>,
         manufacturer |-> TextOf(out, 14), product |-> TextOf(out, 16),
         serial |-> TextOf(out, 18)]
  BY <1>6 DEF Decode, TypesOf, TextOf
<1>8. flags = e.flags
  <2>1. e.flags \in SUBSET AllFlags
    BY FieldsAre DEF Fits
  <2>2. out[8] = ConfigByte(e.flags) /\ out[10] = ChipByte(e.flags)
    BY HeldIs
  <2> QED
    BY <1>6, <2>1, <2>2, FlagsAre
<1>9. type = IF e.type \in Decoded THEN e.type ELSE TYPE_AM
  <2>1. e.type \in Nat
    BY FieldsAre DEF Fits
  <2>2. types = IF e.type \in Decoded THEN {e.type} ELSE {}
    <3>1. out[6] = 0 /\ out[7] = Release(e.type)
      BY HeldIs
    <3>2. types = TypesOf(0, Release(e.type))
      BY <1>6, <3>1
    <3>3. PICK t \in Nat : t = e.type
      BY <2>1
    <3>4. TypesOf(0, Release(t)) = IF t \in Decoded THEN {t} ELSE {}
      BY TypesAre
    <3> QED
      BY <3>2, <3>3, <3>4
  <2> QED
    BY <1>6, <2>2
<1>10. /\ Word(out[2], out[3]) = e.vendor_id % 65536
       /\ Word(out[4], out[5]) = e.product_id % 65536
  <2>1. e.vendor_id \in Nat /\ e.product_id \in Nat
    BY FieldsAre DEF Fits
  <2>2. /\ Word(Low(e.vendor_id), High(e.vendor_id)) = e.vendor_id % 65536
        /\ Word(Low(e.product_id), High(e.product_id)) = e.product_id % 65536
    BY <2>1, BytesOf
  <2>3. /\ out[2] = Low(e.vendor_id) /\ out[3] = High(e.vendor_id)
        /\ out[4] = Low(e.product_id) /\ out[5] = High(e.product_id)
    BY HeldIs
  <2> QED
    BY <2>2, <2>3
<1>11. out[9] = Low(e.max_power) /\ out[11] = Low(e.invert)
  BY HeldIs
<1>12. "change_usb_version" \in e.flags => Word(out[12], out[13]) = e.usb_version % 65536
  <2>1. e.usb_version \in Nat
    BY FieldsAre DEF Fits
  <2>2. Word(Low(e.usb_version), High(e.usb_version)) = e.usb_version % 65536
    BY <2>1, BytesOf
  <2>3. "change_usb_version" \in e.flags =>
          out[12] = Low(e.usb_version) /\ out[13] = High(e.usb_version)
    BY HeldIs
  <2> QED
    BY <2>2, <2>3
<1>13. (IF type = TYPE_R THEN nibbles ELSE <<0, 0, 0, 0, 0>>) = c
  <2>1. \A x \in 0 .. 13, y \in 0 .. 13 : (x + 16 * y) % 16 = x /\ (x + 16 * y) \div 16 = y
    OBVIOUS
  <2>2. c = <<c[1], c[2], c[3], c[4], c[5]>>
    BY <1>2
  <2>3. nibbles = <<c[1], c[2], c[3], c[4], c[5]>>
    <3>1. out[20] = c[1] + 16 * c[2] /\ out[21] = c[3] + 16 * c[4] /\ out[22] = c[5]
      BY <1>1, HeldIs
    <3>2. out[22] % 16 = c[5]
      BY <1>2, <3>1
    <3>3. /\ out[20] % 16 = c[1] /\ out[20] \div 16 = c[2]
          /\ out[21] % 16 = c[3] /\ out[21] \div 16 = c[4]
      <4>1. PICK c1, c2, c3, c4 : c1 = c[1] /\ c2 = c[2] /\ c3 = c[3] /\ c4 = c[4]
        OBVIOUS
      <4>2. c1 \in 0 .. 13 /\ c2 \in 0 .. 13 /\ c3 \in 0 .. 13 /\ c4 \in 0 .. 13
        BY <1>2, <4>1
      <4>3. out[20] = c1 + 16 * c2 /\ out[21] = c3 + 16 * c4
        BY <3>1, <4>1
      <4>4. /\ (c1 + 16 * c2) % 16 = c1 /\ (c1 + 16 * c2) \div 16 = c2
            /\ (c3 + 16 * c4) % 16 = c3 /\ (c3 + 16 * c4) \div 16 = c4
        BY <2>1, <4>2
      <4> QED
        BY <4>1, <4>3, <4>4
    <3> QED
      BY <1>6, <3>2, <3>3
  <2>4. CASE e.type = TYPE_R
    <3>1. type = TYPE_R
      BY <1>9, <2>4 DEF Decoded
    <3> QED
      BY <2>2, <2>3, <3>1
  <2>5. CASE e.type # TYPE_R
    <3>1. type # TYPE_R
      BY <1>9, <2>5 DEF TYPE_AM, TYPE_R
    <3>2. c[1] = 0 /\ c[2] = 0 /\ c[3] = 0 /\ c[4] = 0 /\ c[5] = 0
      BY <1>2, <2>5
    <3> QED
      BY <2>2, <3>1, <3>2
  <2> QED
    BY <2>4, <2>5
<1>14. PICK high, vendor, prod, version, power, inv :
         /\ high = 16 * ((out[2] \div 16) % 2)
         /\ vendor = e.vendor_id % 65536 /\ prod = e.product_id % 65536
         /\ version = IF "change_usb_version" \in e.flags THEN e.usb_version % 65536 ELSE 0
         /\ power = Low(e.max_power) /\ inv = Low(e.invert)
  OBVIOUS
<1>15. PICK ms, ps, ss : /\ ms = SubSeq(e.manufacturer, 1, Size(e.manufacturer))
                         /\ ps = SubSeq(e.product, 1, Size(e.product))
                         /\ ss = SubSeq(e.serial, 1, Size(e.serial))
  OBVIOUS
<1>16. PICK old, dec : old = e /\ dec = Decode(out)
  OBVIOUS
<1>17. dec =
        [type |-> type, flags |-> flags, size |-> 0, high_current |-> high,
         vendor_id |-> vendor, product_id |-> prod, max_power |-> power, invert |-> inv,
         usb_version |-> version, cbus |-> c, manufacturer |-> ms, product |-> ps, serial |-> ss]
  <2>1. (IF "change_usb_version" \in flags THEN Word(out[12], out[13]) ELSE 0) = version
    BY <1>8, <1>12, <1>14
  <2>2. /\ Word(out[2], out[3]) = vendor /\ Word(out[4], out[5]) = prod
        /\ out[9] = power /\ out[11] = inv
    BY <1>10, <1>11, <1>14
  <2>3. TextOf(out, 14) = ms /\ TextOf(out, 16) = ps /\ TextOf(out, 18) = ss
    BY <1>3, <1>15
  <2> QED
    BY <1>7, <1>13, <1>14, <1>16, <2>1, <2>2, <2>3
<1>18. old \in ftdi_eeprom /\ old.flags = flags /\ old.cbus = c
  BY <1>1, <1>8, <1>16 DEF Fits
<1>19. dec =
        [old EXCEPT !.size = 0, !.high_current = high, !.type = type,
                    !.vendor_id = vendor, !.product_id = prod,
                    !.max_power = power, !.invert = inv, !.usb_version = version,
                    !.manufacturer = ms, !.product = ps, !.serial = ss]
  <2>1. PICK names : names = {"vendor_id", "product_id", "type", "flags", "usb_version", "max_power",
                              "high_current", "invert", "size", "cbus", "manufacturer", "product",
                              "serial"}
    OBVIOUS
  <2>2. DOMAIN old = names /\ old = [x \in names |-> old[x]]
    BY <1>18, <2>1 DEF ftdi_eeprom
  <2>3. DOMAIN dec = names /\ dec = [x \in names |-> dec[x]]
    BY <1>17, <2>1
  <2>4. PICK f :
         f = [old EXCEPT !.size = 0, !.high_current = high, !.type = type,
                    !.vendor_id = vendor, !.product_id = prod,
                    !.max_power = power, !.invert = inv, !.usb_version = version,
                    !.manufacturer = ms, !.product = ps, !.serial = ss]
    OBVIOUS
  <2>5. DOMAIN f = names /\ f = [x \in names |-> f[x]]
    BY <2>2, <2>4
  <2>6. /\ f.size = 0 /\ f.high_current = high /\ f.type = type /\ f.vendor_id = vendor
        /\ f.product_id = prod /\ f.max_power = power /\ f.invert = inv
        /\ f.usb_version = version /\ f.manufacturer = ms /\ f.product = ps /\ f.serial = ss
        /\ f.flags = flags /\ f.cbus = c
    BY <1>18, <2>1, <2>2, <2>4
  <2>7. /\ dec.size = 0 /\ dec.high_current = high /\ dec.type = type /\ dec.vendor_id = vendor
        /\ dec.product_id = prod /\ dec.max_power = power /\ dec.invert = inv
        /\ dec.usb_version = version /\ dec.manufacturer = ms /\ dec.product = ps
        /\ dec.serial = ss /\ dec.flags = flags /\ dec.cbus = c
    BY <1>17
  <2>8. \A x \in names : f[x] = dec[x]
    BY <2>1, <2>6, <2>7
  <2>9. f = dec
    BY <2>3, <2>5, <2>8
  <2> QED
    BY <2>4, <2>9
<1>20. Decode(out).high_current = high
  BY <1>16, <1>17
<1>21. Decode(out) =
         [e EXCEPT !.size = 0, !.high_current = high, !.type = type,
                   !.vendor_id = vendor, !.product_id = prod,
                   !.max_power = power, !.invert = inv, !.usb_version = version,
                   !.manufacturer = ms, !.product = ps, !.serial = ss]
  BY <1>16, <1>19
<1> QED
  BY <1>4, <1>5, <1>9, <1>14, <1>15, <1>20, <1>21 DEF ReadBack

\* No byte is written twice, those of the checksum included.
LEMMA AddressesDiffer ==
  ASSUME NEW v, NEW e, Fits(v, e), NEW w, w = Writes(v, e)
  PROVE  IsInjective([k \in 1 .. Len(w) |-> w[k][1]] \o <<e.size - 2, e.size - 1>>)
<1>1. PICK size \in {128, 256} : size = e.size
  BY FieldsAre DEF Fits
<1>2. PICK R : R = Room(size)
  OBVIOUS
<1>3. Laid(w, R)
  BY <1>1, <1>2, WritesFit
<1>4. \A i \in R : i \in Nat /\ i # size - 2 /\ i # size - 1
  BY <1>1, <1>2 DEF Room
<1>5. PICK n \in Nat : n = Len(w)
  BY <1>3, LenProperties DEF Laid, ByteWrites
<1>6. DOMAIN w = 1 .. n
  BY <1>3, <1>5, LenProperties DEF Laid, ByteWrites
<1>7. PICK g, h : g = [k \in 1 .. n |-> w[k][1]] /\ h = <<size - 2, size - 1>>
  OBVIOUS
<1>8. \A k \in 1 .. n : g[k] = w[k][1] /\ g[k] \in R
  BY <1>3, <1>6, <1>7 DEF Laid
<1>9. g \in Seq(Nat) /\ Len(g) = n
  <2>1. g \in [1 .. n -> Nat]
    BY <1>4, <1>7, <1>8
  <2> QED
    BY <2>1, SeqOfLen
<1>10. h \in Seq(Nat) /\ Len(h) = 2 /\ h[1] = size - 2 /\ h[2] = size - 1
  <2>1. size - 2 \in Nat /\ size - 1 \in Nat
    OBVIOUS
  <2> QED
    BY <1>7, <2>1
<1>11. PICK f : f = g \o h
  OBVIOUS
<1>12. /\ f \in Seq(Nat) /\ Len(f) = n + 2
       /\ \A k \in 1 .. n + 2 : f[k] = IF k <= n THEN g[k] ELSE h[k - n]
  <2>1. /\ f \in Seq(Nat) /\ Len(f) = Len(g) + Len(h)
        /\ \A k \in 1 .. Len(g) + Len(h) : f[k] = IF k <= Len(g) THEN g[k] ELSE h[k - Len(g)]
    <3>1. g \in Seq(Nat) /\ h \in Seq(Nat)
      BY <1>9, <1>10
    <3>2. /\ g \o h \in Seq(Nat) /\ Len(g \o h) = Len(g) + Len(h)
          /\ \A k \in 1 .. Len(g) + Len(h) :
               (g \o h)[k] = IF k <= Len(g) THEN g[k] ELSE h[k - Len(g)]
      BY <3>1, ConcatProperties
    <3> QED
      BY <1>11, <3>2
  <2>2. Len(g) = n /\ Len(g) + Len(h) = n + 2
    BY <1>9, <1>10
  <2> QED
    BY <2>1, <2>2
<1>13. DOMAIN f = 1 .. n + 2
  BY <1>12, LenProperties
<1>14. /\ \A k \in 1 .. n : f[k] = w[k][1] /\ f[k] \in R
       /\ f[n + 1] = size - 2 /\ f[n + 2] = size - 1
  <2>1. \A k \in 1 .. n : k \in 1 .. n + 2 /\ k <= n
    OBVIOUS
  <2>2. /\ n + 1 \in 1 .. n + 2 /\ ~(n + 1 <= n) /\ (n + 1) - n = 1
        /\ n + 2 \in 1 .. n + 2 /\ ~(n + 2 <= n) /\ (n + 2) - n = 2
    OBVIOUS
  <2>3. f[n + 1] = h[1] /\ f[n + 2] = h[2]
    BY <1>12, <2>2
  <2>4. \A k \in 1 .. n : f[k] = g[k]
    BY <1>12, <2>1
  <2> QED
    BY <1>8, <1>10, <2>3, <2>4
<1>15. \A k \in 1 .. n + 2 : k \in 1 .. n \/ k = n + 1 \/ k = n + 2
  OBVIOUS
<1>16. ASSUME NEW k \in 1 .. n + 2, NEW l \in 1 .. n + 2, f[k] = f[l] PROVE k = l
  <2>1. size - 2 # size - 1
    OBVIOUS
  <2>2. CASE k \in 1 .. n /\ l \in 1 .. n
    BY <1>3, <1>6, <1>14, <1>16, <2>2 DEF Laid
  <2>3. CASE k \in 1 .. n /\ (l = n + 1 \/ l = n + 2)
    BY <1>4, <1>14, <1>16, <2>3
  <2>4. CASE (k = n + 1 \/ k = n + 2) /\ l \in 1 .. n
    BY <1>4, <1>14, <1>16, <2>4
  <2>5. CASE (k = n + 1 \/ k = n + 2) /\ (l = n + 1 \/ l = n + 2)
    BY <1>14, <1>16, <2>1, <2>5
  <2> QED
    BY <1>15, <2>2, <2>3, <2>4, <2>5
<1>17. IsInjective(f)
  BY <1>13, <1>16 DEF IsInjective
<1> QED
  BY <1>1, <1>5, <1>7, <1>11, <1>17

-----------------------------------------------------------------------------
(* The builders and decode.                                                *)

\* What is built was accepted, and is what the builder makes of the struct;
\* what is decoded is what decode makes of that.
BuildInv ==
  /\ builder \in {"232h", "2232h"} /\ eeprom \in ftdi_eeprom
  /\ pc = "build" => decoded = None
  /\ output # None => Ret(builder, eeprom) >= 0 /\ output = Build(builder, eeprom)
  /\ decoded # None => output # None /\ decoded = Decode(output)

LEMMA BuildInvHolds == BuildSpec => []BuildInv
<1>1. BuildInit => BuildInv
  <2> SUFFICES ASSUME BuildInit PROVE BuildInv
    OBVIOUS
  <2>1. PICK i \in Inputs : builder = i[1] /\ eeprom = i[2]
    BY DEF BuildInit
  <2>2. i \in {"232h", "2232h"} \X ftdi_eeprom
    BY InputsAssumption
  <2>3. builder \in {"232h", "2232h"} /\ eeprom \in ftdi_eeprom
    BY <2>1, <2>2
  <2> QED
    BY <2>3 DEF BuildInit, BuildInv
<1>2. BuildInv /\ [BuildNext]_buildVars => BuildInv'
  <2> SUFFICES ASSUME BuildInv, [BuildNext]_buildVars PROVE BuildInv'
    OBVIOUS
  <2>1. CASE ftdi_eeprom_build
    BY <2>1 DEF ftdi_eeprom_build, BuildInv
  <2>2. CASE ftdi_66eeprom_decode
    BY <2>2 DEF ftdi_66eeprom_decode, BuildInv
  <2>3. CASE UNCHANGED buildVars
    BY <2>3 DEF buildVars, BuildInv
  <2> QED
    BY <2>1, <2>2, <2>3 DEF BuildNext
<1> QED
  BY <1>1, <1>2, PTL DEF BuildSpec

\* What ftdi_232h_eeprom_build accepts is laid out without a byte written
\* twice; decode makes of a whole image the struct it was built from and finds
\* its checksum right, whatever the struct, when it is that builder's or has at
\* most 47 characters.
THEOREM BuiltIsDecodedHolds == BuildSpec => []BuiltIsDecoded
<1>1. BuildInv => BuiltIsDecoded
  <2> SUFFICES ASSUME BuildInv, output # None
               PROVE  /\ builder = "232h" => IsInjective(Addresses)
                      /\ eeprom.size = 256 /\ (builder = "232h" \/ Chars(eeprom) <= 47) =>
                           /\ ~NullText(output) /\ ~PastEnd(output)
                           /\ decoded # None => decoded = Kept(eeprom) /\ Verifies(output)
    BY DEF BuiltIsDecoded
  <2>1. ASSUME builder = "232h" PROVE IsInjective(Addresses)
    <3>1. Fits(builder, eeprom)
      BY <2>1 DEF BuildInv, Fits
    <3>2. PICK w : w = Writes(builder, eeprom)
      OBVIOUS
    <3>3. IsInjective([k \in 1 .. Len(w) |-> w[k][1]] \o <<eeprom.size - 2, eeprom.size - 1>>)
      BY <3>1, <3>2, AddressesDiffer
    <3> QED
      BY <3>2, <3>3 DEF Addresses
  <2>2. ASSUME eeprom.size = 256, builder = "232h" \/ Chars(eeprom) <= 47
        PROVE  /\ ~NullText(output) /\ ~PastEnd(output)
               /\ decoded # None => decoded = Kept(eeprom) /\ Verifies(output)
    <3>1. Fits(builder, eeprom)
      BY <2>2 DEF BuildInv, Fits
    <3>2. output = Build(builder, eeprom)
      BY DEF BuildInv
    <3>3. Verifies(output)
      BY <2>2, <3>1, <3>2, BuildHolds
    <3>4. ~NullText(output) /\ ~PastEnd(output)
      BY <2>2, <3>1, <3>2, DecodedIs
    <3>5. decoded # None => decoded = Kept(eeprom)
      <4> SUFFICES ASSUME decoded # None PROVE decoded = Kept(eeprom)
        OBVIOUS
      <4>1. decoded = Decode(output)
        BY DEF BuildInv
      <4>2. decoded = ReadBack(eeprom, decoded.high_current)
        BY <2>2, <3>1, <3>2, <4>1, DecodedIs
      <4> QED
        BY <4>2 DEF Kept, ReadBack
    <3> QED
      BY <3>3, <3>4, <3>5
  <2> QED
    BY <2>1, <2>2
<1> QED
  BY <1>1, BuildInvHolds, PTL

-----------------------------------------------------------------------------
(* The tool.                                                               *)

\* The image the tool builds for a serial number it takes.
ImageFor(n) == Build("232h", Struct(n))

\* The serial number it takes is twelve characters, and fits.
LEMMA StructIs ==
  ASSUME NEW n \in Seq(Character), Accepted(n)
  PROVE  /\ Fits("232h", Struct(n)) /\ Struct(n).size = 256
         /\ Struct(n).serial = SubSeq(n, 1, 12) /\ Size(Struct(n).serial) = 12
<1>1. PICK e : e = Struct(n)
  OBVIOUS
<1>2. PICK s : s = SubSeq(n, 1, 12)
  OBVIOUS
<1>3. s \in Seq(Character) /\ Len(s) = 12
  <2>1. Len(n) \in Nat /\ Len(n) % 256 = 12
    BY LenProperties DEF Accepted
  <2>2. \A i \in 1 .. 12 : i \in 1 .. Len(n)
    BY <2>1
  <2>3. \A i \in 1 .. 12 : n[i] \in Character
    BY <2>2, ElementOfSeq
  <2>4. 1 \in Int /\ 12 \in Int
    OBVIOUS
  <2>5. /\ SubSeq(n, 1, 12) \in Seq(Character)
        /\ Len(SubSeq(n, 1, 12)) = IF 1 <= 12 THEN 12 - 1 + 1 ELSE 0
    BY <2>3, <2>4, SubSeqProperties
  <2> QED
    BY <1>2, <2>5
<1>4. PICK f, g :
        /\ f = <<70, 84, 68, 73>>
        /\ g = <<85, 83, 66, 32, 60, 45, 62, 32, 83, 101, 114, 105, 97, 108, 32,
                 67, 111, 110, 118, 101, 114, 116, 101, 114>>
  OBVIOUS
<1>5. f \in Seq(Character) /\ Len(f) = 4
  <2>1. \A x \in {70, 84, 68, 73} : x \in Character
    BY OctetsAre DEF Character
  <2> QED
    BY <1>4, <2>1
<1>6. g \in Seq(Character) /\ Len(g) = 24
  <2>1. \A x \in {85, 83, 66, 32, 60, 45, 62, 101, 114, 105, 97, 108, 67, 111, 110, 118, 116} :
          x \in Character
    BY OctetsAre DEF Character
  <2>2. g \in Seq(Character)
    BY <1>4, <2>1
  <2>3. Len(g) = 24
    BY <1>4
  <2> QED
    BY <2>2, <2>3
<1>7. PICK zeros, two : zeros = <<0, 0, 0, 0, 0>> /\ two = {"use_serial"}
  OBVIOUS
<1>8. e = [vendor_id |-> 1027, product_id |-> 24596, type |-> 6, flags |-> two,
           usb_version |-> 0, max_power |-> 50, high_current |-> 0, invert |-> 0, size |-> 256,
           cbus |-> zeros, manufacturer |-> f, product |-> g, serial |-> s]
  <2>1. PICK d, none : d = default232H_EEPROM /\ none = <<>>
    OBVIOUS
  <2>2. d = [vendor_id |-> 1027, product_id |-> 24596, type |-> 6, flags |-> two,
             usb_version |-> 0, max_power |-> 50, high_current |-> 0, invert |-> 0, size |-> 256,
             cbus |-> zeros, manufacturer |-> f, product |-> g, serial |-> none]
    BY <1>4, <1>7, <2>1, SMT DEF default232H_EEPROM, TYPE_232H
  <2>3. e = [d EXCEPT !.serial = s]
    BY <1>1, <1>2, <2>1, SMT DEF Struct
  <2> QED
    BY <2>2, <2>3, SMT
<1>9. zeros \in [1 .. 5 -> Nat] /\ \A k \in 1 .. 5 : zeros[k] = 0
  BY <1>7
<1>10. two \in SUBSET AllFlags
  BY <1>7 DEF AllFlags, ChipBits
<1>11. e \in ftdi_eeprom
  BY <1>3, <1>5, <1>6, <1>8, <1>9, <1>10, SMT DEF ftdi_eeprom
<1>12. /\ e.type = 6 /\ e.invert = 0 /\ e.high_current = 0 /\ e.cbus = zeros /\ e.size = 256
       /\ e.manufacturer = f /\ e.product = g /\ e.serial = s
  BY <1>8, SMT
<1>13. Size(f) = 4 /\ Size(g) = 24 /\ Size(s) = 12
  BY <1>3, <1>5, <1>6, SMT DEF Size
<1>14. Ret("232h", e) = Max({-1, 0})
  <2>1. Space("232h", e) - 2 * Chars(e) = 0
    BY <1>12, <1>13, SMT DEF Space, Chars
  <2>2. e.type # TYPE_R
    BY <1>12, SMT DEF TYPE_R
  <2>3. \A c \in 1 .. 5 : ~(e.cbus[c] > CbusMax[c]) /\ e.cbus[c] = 0
    <3>1. \A c \in 1 .. 5 : CbusMax[c] \in {9, 13}
      BY DEF CbusMax
    <3> QED
      BY <1>9, <1>12, <3>1
  <2> QED
    BY <1>12, <2>1, <2>2, <2>3 DEF Ret
<1>15. Max({-1, 0}) = 0
  <2>1. \A y \in {-1, 0} : 0 >= y
    OBVIOUS
  <2>2. \A x \in {-1, 0} : (\A y \in {-1, 0} : x >= y) => x = 0
    OBVIOUS
  <2> QED
    BY <2>1, <2>2 DEF Max
<1>16. Fits("232h", e)
  BY <1>11, <1>14, <1>15 DEF Fits
<1> QED
  BY <1>1, <1>2, <1>12, <1>13, <1>16

\* An image is its words: what is read of them is the image again.
LEMMA WordsAreBytes ==
  ASSUME NEW out, DOMAIN out = InImage, \A i \in InImage : out[i] \in Octets
  PROVE  /\ ToWords(out) \in [Words -> Shorts]
         /\ Bytes(ToWords(out)) = [i \in InImage |-> out[i]]
         /\ \A w \in Words : High(ToWords(out)[w]) = out[2 * w + 1]
<1>1. \A w \in Words : 2 * w \in InImage /\ 2 * w + 1 \in InImage
  BY DEF Words, InImage
<1>2. ASSUME NEW w \in Words
      PROVE  /\ ToWords(out)[w] \in Shorts
             /\ Low(ToWords(out)[w]) = out[2 * w] /\ High(ToWords(out)[w]) = out[2 * w + 1]
  <2>1. PICK x \in Octets, y \in Octets : x = out[2 * w] /\ y = out[2 * w + 1]
    BY <1>1
  <2>2. ToWords(out)[w] = Word(x, y)
    BY <2>1 DEF ToWords
  <2>3. Word(x, y) \in Shorts /\ Low(Word(x, y)) = x /\ High(Word(x, y)) = y
    BY WordOfBytes
  <2> QED
    BY <2>1, <2>2, <2>3
<1>3. ToWords(out) \in [Words -> Shorts]
  <2>1. ToWords(out) = [w \in Words |-> ToWords(out)[w]]
    BY DEF ToWords
  <2> QED
    BY <1>2, <2>1
<1>4. ASSUME NEW i \in InImage
      PROVE  out[i] = IF i % 2 = 0 THEN Low(ToWords(out)[i \div 2]) ELSE High(ToWords(out)[i \div 2])
  <2>1. PICK w \in Words : w = i \div 2
    <3>1. i \div 2 \in Words
      BY DEF Words, InImage
    <3> QED
      BY <3>1
  <2>2. i \in Nat /\ (i % 2 = 0 \/ i % 2 = 1)
    BY DEF InImage
  <2>3. i = 2 * w + (i % 2)
    BY <2>1, <2>2
  <2>4. CASE i % 2 = 0
    <3>1. i = 2 * w
      BY <2>1, <2>3, <2>4 DEF Words
    <3> QED
      BY <1>2, <2>1, <2>4, <3>1
  <2>5. CASE i % 2 = 1
    <3>1. i = 2 * w + 1
      BY <2>1, <2>3, <2>5 DEF Words
    <3>2. ~(i % 2 = 0)
      BY <2>5
    <3> QED
      BY <1>2, <2>1, <3>1, <3>2
  <2> QED
    BY <2>2, <2>4, <2>5
<1>5. Bytes(ToWords(out)) = [i \in InImage |-> out[i]]
  BY <1>4 DEF Bytes, InImage
<1> QED
  BY <1>2, <1>3, <1>5

\* The words of what is read are those of the EEPROM.
LEMMA BytesAreWords ==
  ASSUME NEW m \in [Words -> Shorts]
  PROVE  /\ \A w \in Words : /\ Bytes(m)[2 * w] = Low(m[w]) /\ Bytes(m)[2 * w + 1] = High(m[w])
                             /\ WordsOf(Bytes(m), w) = m[w]
<1>1. ASSUME NEW w \in Words
      PROVE  Bytes(m)[2 * w] = Low(m[w]) /\ Bytes(m)[2 * w + 1] = High(m[w])
  <2>1. /\ 2 * w \in 0 .. 255 /\ 2 * w + 1 \in 0 .. 255
        /\ (2 * w) % 2 = 0 /\ (2 * w + 1) % 2 = 1 /\ (2 * w) \div 2 = w /\ (2 * w + 1) \div 2 = w
    BY DEF Words
  <2> QED
    BY <2>1 DEF Bytes
<1>2. \A w \in Words : Word(Low(m[w]), High(m[w])) = m[w]
  BY BytesOfWord
<1> QED
  BY <1>1, <1>2 DEF WordsOf

LEMMA LengthIs ==
  ASSUME NEW buf, NEW x, NEW s, NEW n, NEW o, HasString(buf, x, s, n, o)
  PROVE  buf[x + 1] >= 2
<1>1. n \in 0 .. 255 /\ n <= 47
  BY SizeIs DEF HasString
<1>2. PICK m \in Nat : m = 2 * n + 2
  BY <1>1
<1>3. m % 256 = m /\ m >= 2
  BY <1>1, <1>2
<1>4. buf[x + 1] = Low(m)
  BY <1>2 DEF HasString
<1> QED
  BY <1>3, <1>4 DEF Low

\* What is built for a serial number.
LEMMA ImageIs ==
  ASSUME NEW n \in Seq(Character), Accepted(n), NEW out, out = ImageFor(n)
  PROVE  /\ ToWords(out) \in [Words -> Shorts] /\ Bytes(ToWords(out)) = out /\ Verifies(out)
         /\ ~NullText(out) /\ ~PastEnd(out) /\ Decode(out).serial = SubSeq(n, 1, 12)
         /\ \A w \in {7, 8, 9} : High(ToWords(out)[w]) >= 2
<1>1. PICK v, e : v = "232h" /\ e = Struct(n)
  OBVIOUS
<1>2. /\ Fits(v, e) /\ e.size = 256 /\ out = Build(v, e)
      /\ e.serial = SubSeq(n, 1, 12) /\ Size(e.serial) = 12
  BY <1>1, StructIs DEF ImageFor
<1>3. DOMAIN out = InImage /\ (\A i \in InImage : out[i] \in Octets) /\ Verifies(out)
  BY <1>2, BuildHolds
<1>4. out = [i \in InImage |-> out[i]]
  <2>1. out = [Apply(Writes(v, e), e.size) EXCEPT
                 ![e.size - 2] = Low(Checksum(Apply(Writes(v, e), e.size), e.size)),
                 ![e.size - 1] = High(Checksum(Apply(Writes(v, e), e.size), e.size))]
    BY <1>2 DEF Build
  <2>2. PICK f, x, y, c, d : /\ f = Apply(Writes(v, e), e.size) /\ x = e.size - 2 /\ y = e.size - 1
                             /\ c = Low(Checksum(Apply(Writes(v, e), e.size), e.size))
                             /\ d = High(Checksum(Apply(Writes(v, e), e.size), e.size))
    OBVIOUS
  <2>3. out = [f EXCEPT ![x] = c, ![y] = d]
    BY <2>1, <2>2
  <2>4. out = [i \in DOMAIN out |-> out[i]]
    BY <2>3
  <2> QED
    BY <1>3, <2>4
<1>5. /\ ToWords(out) \in [Words -> Shorts] /\ Bytes(ToWords(out)) = out
      /\ \A w \in Words : High(ToWords(out)[w]) = out[2 * w + 1]
  <2>1. /\ ToWords(out) \in [Words -> Shorts] /\ Bytes(ToWords(out)) = [i \in InImage |-> out[i]]
        /\ \A w \in Words : High(ToWords(out)[w]) = out[2 * w + 1]
    BY <1>3, WordsAreBytes
  <2> QED
    BY <1>4, <2>1
<1>6. ~NullText(out) /\ ~PastEnd(out)
  BY <1>2, DecodedIs
<1>7. \A w \in {7, 8, 9} : High(ToWords(out)[w]) >= 2
  <2>1. out[14 + 1] >= 2 /\ out[16 + 1] >= 2 /\ out[18 + 1] >= 2
    BY <1>2, HeldIs, LengthIs, SMTT(30)
  <2>2. 7 \in Words /\ 8 \in Words /\ 9 \in Words
    BY DEF Words
  <2>3. /\ High(ToWords(out)[7]) = out[2 * 7 + 1] /\ High(ToWords(out)[8]) = out[2 * 8 + 1]
        /\ High(ToWords(out)[9]) = out[2 * 9 + 1]
    BY <1>5, <2>2
  <2>4. 2 * 7 + 1 = 14 + 1 /\ 2 * 8 + 1 = 16 + 1 /\ 2 * 9 + 1 = 18 + 1
    OBVIOUS
  <2> QED
    BY <2>1, <2>3, <2>4
<1>8. Decode(out).serial = SubSeq(n, 1, 12)
  <2>1. Decode(out).serial = TextOf(out, 18)
    BY DEF Decode, TextOf
  <2>2. TextOf(out, 18) = SubSeq(e.serial, 1, Size(e.serial))
    <3>1. Fits(v, e) /\ e.size = 256 /\ out = Build(v, e)
      BY <1>2
    <3> QED
      BY <3>1, HeldIs, StringIsShown
  <2>3. e.serial \in Seq(Character) /\ Len(e.serial) = 12
    <3>1. e.serial \in Seq(Character)
      BY <1>2, FieldsAre DEF Fits
    <3>2. Len(n) \in Nat /\ Len(n) % 256 = 12
      BY LenProperties DEF Accepted
    <3>3. 1 \in Int /\ 12 \in Int /\ \A i \in 1 .. 12 : i \in 1 .. Len(n)
      BY <3>2
    <3>4. \A i \in 1 .. 12 : n[i] \in Character
      BY <3>3, ElementOfSeq
    <3>5. Len(SubSeq(n, 1, 12)) = IF 1 <= 12 THEN 12 - 1 + 1 ELSE 0
      BY <3>3, <3>4, SubSeqProperties
    <3> QED
      BY <1>2, <3>1, <3>5
  <2>4. SubSeq(e.serial, 1, Len(e.serial)) = e.serial
    BY <2>3, SubSeqFull
  <2>5. PICK t : t = e.serial
    OBVIOUS
  <2>6. Decode(out).serial = SubSeq(t, 1, 12) /\ SubSeq(t, 1, 12) = t
    BY <1>2, <2>1, <2>2, <2>3, <2>4, <2>5
  <2> QED
    BY <1>2, <2>5, <2>6
<1> QED
  BY <1>3, <1>5, <1>6, <1>7, <1>8

\* What a transfer of n words brings, and what readall meets in it.
Cut(m, n) == [w \in Words |-> IF w < n THEN m[w] ELSE 0]
FaultIn(buf) == IF NullText(buf) THEN "null" ELSE IF PastEnd(buf) THEN "past end" ELSE "no"

LEMMA CutIs ==
  ASSUME NEW m \in [Words -> Shorts], NEW n \in 0 .. 128
  PROVE  Cut(m, n) \in [Words -> Shorts] /\ Cut(m, 128) = m
<1>1. 0 \in Shorts
  BY ShortsAre
<1>2. Cut(m, n) \in [Words -> Shorts]
  BY <1>1 DEF Cut
<1>3. \A w \in Words : w < 128
  BY DEF Words
<1> QED
  BY <1>2, <1>3 DEF Cut

-----------------------------------------------------------------------------
(* The tool's invariant.                                                   *)

\* The EEPROM holds words; the history names an image that was written; what
\* readall told is about what the transfer brought; and the words of the
\* strings' lengths have a high byte of at least two, unless one was written
\* singly or is still as it was found.
Told ==
  /\ told.words \in 0 .. 128
  /\ told.fault = FaultIn(Bytes(Cut(memory, told.words)))
  /\ told.verified <=> told.fault = "no" /\ Verifies(Bytes(Cut(memory, told.words)))
  /\ told.fault = "no" => told.shown = Decode(Bytes(Cut(memory, told.words)))

ToolInv ==
  /\ memory \in [Words -> Shorts]
  /\ image # None => Accepted(serial) /\ serial \in Serials /\ image = ToWords(ImageFor(serial))
  /\ told.command = "readall" => Told
  /\ \A w \in {7, 8, 9} :
       w \notin singles => High(memory[w]) >= 2 \/ memory[w] = found[w]

LEMMA ErasedIs ==
  /\ Erased \in [Words -> Shorts]
  /\ \A w \in Words : High(Erased[w]) >= 2
<1>1. PICK x : x = 65535
  OBVIOUS
<1>2. x \in Shorts
  BY <1>1, SMT DEF Shorts, USHRT_MAX
<1>3. High(x) = 255
  BY <1>1, SMT DEF High
<1>4. Erased = [w \in Words |-> x]
  BY <1>1, SMT DEF Erased
<1> QED
  BY <1>2, <1>3, <1>4

LEMMA ReadAllKeeps ==
  ASSUME ToolInv, NEW n \in 0 .. 128, ReadAll(n)
  PROVE  ToolInv'
<1>1. PICK buf : buf = Bytes(Cut(memory, n))
  OBVIOUS
<1>2. told' = [command |-> "readall", words |-> n, fault |-> FaultIn(buf),
               verified |-> FaultIn(buf) = "no" /\ Verifies(buf),
               shown |-> IF FaultIn(buf) = "no" THEN Decode(buf) ELSE None]
  BY <1>1 DEF ReadAll, Cut, FaultIn
<1>3. /\ told'.words = n /\ told'.fault = FaultIn(buf)
      /\ told'.verified <=> FaultIn(buf) = "no" /\ Verifies(buf)
      /\ told'.shown = IF FaultIn(buf) = "no" THEN Decode(buf) ELSE None
  BY <1>2
<1>4. UNCHANGED <<memory, found, image, serial, singles>>
  BY DEF ReadAll
<1>5. Told'
  <2>1. buf = Bytes(Cut(memory', told'.words))
    BY <1>1, <1>3, <1>4
  <2>2. (Bytes(Cut(memory, told.words)))' = Bytes(Cut(memory', told'.words))
    BY DEF Bytes, Cut
  <2> QED
    BY <1>3, <2>1, <2>2 DEF Told
<1> QED
  BY <1>4, <1>5 DEF ToolInv

\* A step that tells of no readall keeps the invariant when it leaves words in
\* the EEPROM, and lengths where the history says so.
LEMMA OtherKeeps ==
  ASSUME told'.command # "readall", memory' \in [Words -> Shorts],
         \A w \in {7, 8, 9} :
           w \notin singles' => High(memory'[w]) >= 2 \/ memory'[w] = found'[w],
         image' # None =>
           Accepted(serial') /\ serial' \in Serials /\ image' = ToWords(ImageFor(serial'))
  PROVE  ToolInv'
BY DEF ToolInv

LEMMA EraseKeeps ==
  ASSUME ToolInv, Erase
  PROVE  ToolInv'
<1>1. told'.command # "readall" /\ UNCHANGED <<found, image, serial>>
  BY DEF Erase
<1>2. memory' \in [Words -> Shorts]
  BY ErasedIs DEF Erase, ToolInv
<1>3. ASSUME NEW w \in {7, 8, 9}, w \notin singles'
      PROVE  High(memory'[w]) >= 2 \/ memory'[w] = found'[w]
  <2>1. CASE memory' = Erased
    <3>1. w \in Words
      BY DEF Words
    <3> QED
      BY <2>1, <3>1, ErasedIs
  <2>2. CASE UNCHANGED <<memory, singles>>
    BY <1>1, <1>3, <2>2 DEF ToolInv
  <2> QED
    BY <2>1, <2>2 DEF Erase
<1> QED
  BY <1>1, <1>2, <1>3, OtherKeeps DEF ToolInv

LEMMA RemainderOfInt ==
  ASSUME NEW x \in Int, NEW d \in Nat \ {0}
  PROVE  x % d \in 0 .. d - 1
OBVIOUS

LEMMA WriteKeeps ==
  ASSUME ToolInv, NEW w \in Places, NEW v \in Values, Write(w, v)
  PROVE  ToolInv'
<1>1. told'.command # "readall" /\ UNCHANGED <<found, image, serial>>
  BY DEF Write
<1>2. CASE UNCHANGED <<memory, singles>>
  BY <1>1, <1>2, OtherKeeps DEF ToolInv
<1>3. CASE memory' = [memory EXCEPT ![w] = v % 65536] /\ singles' = singles \cup {w}
  <2>1. PICK x : x = v % 65536
    OBVIOUS
  <2>2. x \in Shorts
    <3>1. v \in Int
      BY ToolAssumption
    <3>2. PICK d \in Nat \ {0} : d = 65536
      BY SMT
    <3>3. x = v % d
      BY <2>1, <3>2
    <3>4. x \in 0 .. d - 1
      BY <3>1, <3>3, RemainderOfInt
    <3>5. d - 1 = USHRT_MAX
      BY <3>2, SMT DEF USHRT_MAX
    <3> QED
      BY <3>4, <3>5 DEF Shorts
  <2>3. memory' = [memory EXCEPT ![w] = x]
    BY <1>3, <2>1
  <2>4. memory' \in [Words -> Shorts]
    BY <2>2, <2>3 DEF ToolInv
  <2>5. ASSUME NEW u \in {7, 8, 9}, u \notin singles'
        PROVE  High(memory'[u]) >= 2 \/ memory'[u] = found'[u]
    <3>1. u # w /\ u \notin singles
      BY <1>3, <2>5
    <3>2. u \in Words
      BY DEF Words
    <3>3. memory'[u] = memory[u]
      BY <2>3, <3>1, <3>2 DEF ToolInv
    <3> QED
      BY <1>1, <3>1, <3>3 DEF ToolInv
  <2> QED
    BY <1>1, <2>4, <2>5, OtherKeeps DEF ToolInv
<1> QED
  BY <1>2, <1>3 DEF Write

LEMMA WriteSerialKeeps ==
  ASSUME ToolInv, NEW new \in Images, NEW n \in 0 .. 128, WriteSerial(new, n)
  PROVE  ToolInv'
<1>1. PICK s \in Serials : Accepted(s) /\ new = [number |-> s, words |-> ToWords(ImageFor(s))]
  BY DEF Images, ImageFor
<1>2. PICK m : m = ToWords(ImageFor(s))
  OBVIOUS
<1>3. s \in Seq(Character)
  BY ToolAssumption
<1>4. m \in [Words -> Shorts] /\ \A w \in {7, 8, 9} : High(m[w]) >= 2
  BY <1>1, <1>2, <1>3, ImageIs
<1>5. new.words = m /\ new.number = s
  BY <1>1, <1>2
<1>6. /\ memory' = [w \in Words |-> IF w < n THEN m[w] ELSE memory[w]]
      /\ told'.command # "readall" /\ UNCHANGED found
  BY <1>5 DEF WriteSerial
<1>7. memory' \in [Words -> Shorts]
  BY <1>4, <1>6 DEF ToolInv
<1>8. \A w \in {7, 8, 9} : w \in Words
  BY DEF Words
<1>9. CASE n = 128
  <2>1. image' = m /\ serial' = s /\ singles' = {}
    BY <1>5, <1>9 DEF WriteSerial
  <2>2. ASSUME NEW w \in {7, 8, 9} PROVE High(memory'[w]) >= 2
    <3>1. w < 128 /\ w \in Words
      BY <1>8
    <3>2. memory'[w] = m[w]
      BY <1>6, <1>9, <3>1
    <3> QED
      BY <1>4, <3>2
  <2> QED
    BY <1>1, <1>2, <1>6, <1>7, <2>1, <2>2, OtherKeeps
<1>10. CASE n # 128
  <2>1. UNCHANGED <<image, serial, singles>>
    BY <1>10 DEF WriteSerial
  <2>2. ASSUME NEW w \in {7, 8, 9}, w \notin singles'
        PROVE  High(memory'[w]) >= 2 \/ memory'[w] = found'[w]
    <3>1. memory'[w] = m[w] \/ memory'[w] = memory[w]
      BY <1>6, <1>8
    <3> QED
      BY <1>4, <1>6, <2>1, <2>2, <3>1 DEF ToolInv
  <2> QED
    BY <1>6, <1>7, <2>1, <2>2, OtherKeeps DEF ToolInv
<1> QED
  BY <1>9, <1>10

LEMMA ToolInvHolds == ToolSpec => []ToolInv
<1>1. ToolInit => ToolInv
  <2> SUFFICES ASSUME ToolInit PROVE ToolInv
    OBVIOUS
  <2>1. /\ memory = found /\ memory \in [Words -> Shorts]
        /\ image = None /\ told.command # "readall"
    BY ToolAssumption DEF ToolInit
  <2> QED
    BY <2>1 DEF ToolInv
<1>2. ToolInv /\ [ToolNext]_toolVars => ToolInv'
  <2> SUFFICES ASSUME ToolInv, [ToolNext]_toolVars PROVE ToolInv'
    OBVIOUS
  <2>1. CASE Help
    <3>1. told'.command # "readall" /\ UNCHANGED <<memory, found, image, serial, singles>>
      BY <2>1 DEF Help
    <3> QED
      BY <3>1 DEF ToolInv
  <2>2. CASE Erase
    BY <2>2, EraseKeeps
  <2>3. ASSUME NEW w \in Places, Read(w) PROVE ToolInv'
    <3>1. told'.command # "readall" /\ UNCHANGED <<memory, found, image, serial, singles>>
      BY <2>3 DEF Read
    <3> QED
      BY <3>1 DEF ToolInv
  <2>4. ASSUME NEW w \in Places, NEW v \in Values, Write(w, v) PROVE ToolInv'
    BY <2>4, WriteKeeps
  <2>5. \A n \in Cuts \cup {128} : n \in 0 .. 128
    BY ToolAssumption DEF Words
  <2>6. ASSUME NEW n \in Cuts \cup {128}, ReadAll(n) PROVE ToolInv'
    BY <2>5, <2>6, ReadAllKeeps
  <2>7. ASSUME NEW n \in Cuts \cup {128}, NEW new \in Images, WriteSerial(new, n) PROVE ToolInv'
    BY <2>5, <2>7, WriteSerialKeeps
  <2>8. ASSUME NEW number \in Serials, WriteSerialRejected(number) PROVE ToolInv'
    <3>1. told'.command # "readall" /\ UNCHANGED <<memory, found, image, serial, singles>>
      BY <2>8 DEF WriteSerialRejected
    <3> QED
      BY <3>1 DEF ToolInv
  <2>9. CASE UNCHANGED toolVars
    <3>1. UNCHANGED <<memory, told, found, image, serial, singles>>
      BY <2>9 DEF toolVars
    <3>2. (Bytes(Cut(memory, told.words)))' = Bytes(Cut(memory, told.words))
      BY <3>1 DEF Bytes, Cut
    <3>3. Told => Told'
      BY <3>1, <3>2 DEF Told
    <3> QED
      BY <3>1, <3>3 DEF ToolInv
  <2> QED
    BY <2>1, <2>2, <2>3, <2>4, <2>6, <2>7, <2>8, <2>9 DEF ToolNext
<1> QED
  BY <1>1, <1>2, PTL DEF ToolSpec

-----------------------------------------------------------------------------
(* What readall tells.                                                     *)

\* readall of an EEPROM whose last whole image stands untouched finds the
\* checksum right and shows the serial number that was written.
THEOREM WrittenIsShownHolds == ToolSpec => []WrittenIsShown
<1>1. ToolInv => WrittenIsShown
  <2> SUFFICES ASSUME ToolInv, Complete, image # None, memory = image
               PROVE  told.verified /\ told.shown.serial = SubSeq(serial, 1, 12)
    BY DEF WrittenIsShown
  <2>1. Told /\ told.words = 128
    BY DEF ToolInv, Complete
  <2>2. PICK out : out = ImageFor(serial)
    OBVIOUS
  <2>3. serial \in Seq(Character) /\ Accepted(serial) /\ image = ToWords(out)
    BY <2>2, ToolAssumption DEF ToolInv
  <2>4. /\ Bytes(image) = out /\ Verifies(out) /\ ~NullText(out) /\ ~PastEnd(out)
        /\ Decode(out).serial = SubSeq(serial, 1, 12)
    BY <2>2, <2>3, ImageIs
  <2>5. Bytes(Cut(memory, told.words)) = out
    <3>1. 128 \in 0 .. 128 /\ memory \in [Words -> Shorts]
      BY DEF ToolInv
    <3>2. Cut(memory, 128) = memory
      BY <3>1, CutIs
    <3> QED
      BY <2>1, <2>4, <3>2
  <2>6. FaultIn(out) = "no"
    BY <2>4 DEF FaultIn
  <2>7. told.fault = "no" /\ told.verified /\ told.shown = Decode(out)
    BY <2>1, <2>4, <2>5, <2>6 DEF Told
  <2> QED
    BY <2>4, <2>7
<1> QED
  BY <1>1, ToolInvHolds, PTL

\* Words of which a single one differs from those of an image that verifies
\* do not verify.
LEMMA DamageShows ==
  ASSUME NEW m \in [Words -> Shorts], NEW n \in [Words -> Shorts], NEW d \in Words,
         m[d] # n[d], \A w \in Words \ {d} : m[w] = n[w], Verifies(Bytes(n))
  PROVE  ~Verifies(Bytes(m))
<1>1. PICK f, g : f = Bytes(m) /\ g = Bytes(n)
  OBVIOUS
<1>2. \A w \in Words : WordsOf(f, w) = m[w] /\ WordsOf(g, w) = n[w]
  BY <1>1, BytesAreWords
<1>3. PICK k \in Nat : k = 127
  OBVIOUS
<1>4. Words = 0 .. k /\ k \in Words
  BY <1>3 DEF Words
<1>5. ASSUME NEW x PROVE Verifies(x) <=> WordsOf(x, k) = Short(Sum(x, k))
  <2>1. WordsOf(x, k) = Word(x[254], x[255])
    <3>1. 2 * k = 254 /\ 2 * k + 1 = 255
      BY <1>3
    <3> QED
      BY <3>1 DEF WordsOf
  <2>2. Checksum(x, 256) = Short(Sum(x, k))
    <3>1. 256 \div 2 - 1 = k
      BY <1>3
    <3> QED
      BY <3>1 DEF Checksum
  <2> QED
    BY <2>1, <2>2 DEF Verifies
<1>6. n[k] = Short(Sum(g, k))
  BY <1>1, <1>2, <1>4, <1>5
<1>7. SUFFICES m[k] # Short(Sum(f, k))
  BY <1>1, <1>2, <1>4, <1>5
<1>8. CASE d = k
  <2>1. \A i \in 0 .. k - 1 : i \in Words /\ i # d
    BY <1>4, <1>8
  <2>2. \A i \in 0 .. k - 1 : WordsOf(f, i) = WordsOf(g, i)
    BY <1>2, <2>1
  <2>3. Sum(f, k) = Sum(g, k)
    BY <2>2, SameSum
  <2> QED
    BY <1>6, <1>8, <2>3
<1>9. CASE d # k
  <2>1. d \in 0 .. k - 1 /\ \A i \in (0 .. k - 1) \ {d} : i \in Words /\ i # d
    BY <1>4, <1>9
  <2>2. \A i \in (0 .. k - 1) \ {d} : WordsOf(f, i) = WordsOf(g, i)
    BY <1>2, <2>1
  <2>3. WordsOf(f, d) \in Shorts /\ WordsOf(g, d) \in Shorts /\ WordsOf(f, d) # WordsOf(g, d)
    BY <1>2
  <2>4. Sum(f, k) # Sum(g, k)
    BY <2>1, <2>2, <2>3, OtherSum
  <2>5. Sum(f, k) \subseteq 0 .. 15 /\ Sum(g, k) \subseteq 0 .. 15
    BY SMT DEF Sum
  <2>6. Bits(Short(Sum(f, k))) = Sum(f, k) /\ Bits(Short(Sum(g, k))) = Sum(g, k)
    BY <2>5, ShortIs
  <2>7. Short(Sum(f, k)) # Short(Sum(g, k))
    BY <2>4, <2>6
  <2>8. m[k] = n[k]
    BY <1>4, <1>9
  <2> QED
    BY <1>6, <2>7, <2>8
<1> QED
  BY <1>8, <1>9

\* readall does not verify an EEPROM of which a single word has changed since
\* the last whole image was written.
THEOREM DamageIsNoticedHolds == ToolSpec => []DamageIsNoticed
<1>1. ToolInv => DamageIsNoticed
  <2> SUFFICES ASSUME ToolInv, Complete, image # None,
                      Cardinality({w \in Words : memory[w] # image[w]}) = 1
               PROVE  ~told.verified
    BY DEF DamageIsNoticed
  <2>1. Told /\ told.words = 128
    BY DEF ToolInv, Complete
  <2>2. PICK out : out = ImageFor(serial)
    OBVIOUS
  <2>3. serial \in Seq(Character) /\ Accepted(serial) /\ image = ToWords(out)
    BY <2>2, ToolAssumption DEF ToolInv
  <2>4. image \in [Words -> Shorts] /\ Verifies(Bytes(image))
    BY <2>2, <2>3, ImageIs
  <2>5. PICK D : D = {w \in Words : memory[w] # image[w]}
    OBVIOUS
  <2>6. PICK d : D = {d}
    <3>1. IsFiniteSet(D)
      <4>1. 0 \in Int /\ 127 \in Int
        OBVIOUS
      <4>2. IsFiniteSet(0 .. 127)
        BY <4>1, FS_Interval
      <4>3. D \subseteq 0 .. 127
        BY <2>5 DEF Words
      <4> QED
        BY <4>2, <4>3, FS_Subset
    <3> QED
      BY <2>5, <3>1, FS_Singleton
  <2>7. d \in Words /\ memory[d] # image[d] /\ \A w \in Words \ {d} : memory[w] = image[w]
    BY <2>5, <2>6
  <2>8. memory \in [Words -> Shorts]
    BY DEF ToolInv
  <2>9. ~Verifies(Bytes(memory))
    BY <2>4, <2>7, <2>8, DamageShows
  <2>10. Cut(memory, told.words) = memory
    <3>1. 128 \in 0 .. 128
      OBVIOUS
    <3> QED
      BY <2>1, <2>8, <3>1, CutIs
  <2> QED
    BY <2>1, <2>9, <2>10 DEF Told
<1> QED
  BY <1>1, ToolInvHolds, PTL

\* The bytes of the strings' offsets and lengths.
LEMMA TextBytes ==
  ASSUME NEW m \in [Words -> Shorts], NEW x \in Strings
  PROVE  \E w \in {7, 8, 9} : /\ x = 2 * w
                              /\ Bytes(m)[x] = Low(m[w]) /\ Bytes(m)[x + 1] = High(m[w])
<1>1. PICK w \in {7, 8, 9} : x = 2 * w
  BY DEF Strings
<1>2. w \in Words
  BY DEF Words
<1>3. PICK y, z : y = 2 * w /\ z = 2 * w + 1
  OBVIOUS
<1>4. x = y /\ x + 1 = z
  BY <1>1, <1>3
<1>5. Bytes(m)[y] = Low(m[w]) /\ Bytes(m)[z] = High(m[w])
  BY <1>2, <1>3, BytesAreWords
<1> QED
  BY <1>1, <1>4, <1>5

\* Whatever the device held when it was found: readall meets a string without
\* length only after a short transfer, or at a length that was written singly
\* or that is still the one found; and one that ends behind its buffer only
\* when the EEPROM does not hold the last whole image, however short the
\* transfer.
THEOREM FaultsNeedDamageHolds == ToolSpec => []FaultsNeedDamage
<1>1. ToolInv => FaultsNeedDamage
  <2> SUFFICES ASSUME ToolInv, told.command = "readall"
               PROVE  /\ told.fault = "null" =>
                           ~Complete \/ \E w \in {7, 8, 9} :
                              w \in singles \/ (memory[w] = found[w] /\ High(found[w]) < 2)
                      /\ told.fault = "past end" => memory # image
    BY DEF FaultsNeedDamage
  <2>1. PICK n \in 0 .. 128 : n = told.words
    BY DEF ToolInv, Told
  <2>2. PICK m : m = Cut(memory, n)
    OBVIOUS
  <2>3. memory \in [Words -> Shorts] /\ m \in [Words -> Shorts]
    BY <2>2, CutIs DEF ToolInv
  <2>4. PICK buf : buf = Bytes(m)
    OBVIOUS
  <2>5. told.fault = FaultIn(buf)
    BY <2>1, <2>2, <2>4 DEF ToolInv, Told
  <2>6. \A w \in {7, 8, 9} : w \in Words /\ m[w] = IF w < n THEN memory[w] ELSE 0
    BY <2>2 DEF Words, Cut
  <2>7. ASSUME NullText(buf), Complete,
               \A w \in {7, 8, 9} :
                 w \notin singles /\ ~(memory[w] = found[w] /\ High(found[w]) < 2)
        PROVE  FALSE
    <3>1. PICK x \in Strings : Length(buf, x) = 0
      BY <2>7 DEF NullText
    <3>2. PICK w \in {7, 8, 9} : buf[x + 1] = High(m[w])
      BY <2>3, <2>4, TextBytes
    <3>3. n = 128
      BY <2>1, <2>7 DEF Complete
    <3>4. m[w] = memory[w] /\ w \notin singles
      BY <2>6, <2>7, <3>3
    <3>5. High(m[w]) >= 2 /\ High(m[w]) \in Octets
      <4>1. m[w] \in Shorts
        BY <2>3, <2>6
      <4>2. High(m[w]) \in Octets
        BY <4>1, BytesOfWord
      <4>3. PICK y \in Nat : y = High(m[w])
        BY <4>2, OctetsAre
      <4>4. y >= 2 \/ memory[w] = found[w]
        BY <3>4, <4>3 DEF ToolInv
      <4>5. ~(memory[w] = found[w] /\ y < 2)
        BY <2>7, <3>4, <4>3
      <4>6. y >= 2
        BY <4>4, <4>5
      <4> QED
        BY <4>2, <4>3, <4>6
    <3>6. PICK y \in Nat : y = High(m[w]) /\ y >= 2
      BY <3>5, OctetsAre
    <3>7. y \div 2 # 0
      BY <3>6
    <3> QED
      BY <3>1, <3>2, <3>6, <3>7 DEF Length
  <2>8. ASSUME ~NullText(buf), PastEnd(buf), memory = image PROVE FALSE
    <3>1. PICK out : out = ImageFor(serial)
      OBVIOUS
    <3>2. image # None
      <4>1. DOMAIN memory = Words /\ 7 \in Words
        BY <2>3, <2>6
      <4>2. DOMAIN None = {}
        BY DEF None
      <4> QED
        BY <2>8, <4>1, <4>2
    <3>3. serial \in Seq(Character) /\ Accepted(serial) /\ image = ToWords(out)
      BY <3>1, <3>2, ToolAssumption DEF ToolInv
    <3>4. Bytes(memory) = out /\ ~PastEnd(out)
      BY <2>8, <3>1, <3>3, ImageIs
    <3>5. n > 9
      <4> SUFFICES ASSUME ~(n > 9) PROVE FALSE
        OBVIOUS
      <4>1. m[9] = 0
        BY <2>6
      <4>2. PICK w \in {7, 8, 9} : 18 = 2 * w /\ buf[18 + 1] = High(m[w])
        <5>1. 18 \in Strings
          BY DEF Strings
        <5> QED
          BY <2>3, <2>4, <5>1, TextBytes
      <4>3. w = 9
        BY <4>2
      <4>4. Length(buf, 18) = 0
        BY <4>1, <4>2, <4>3 DEF Length, High
      <4> QED
        BY <2>8, <4>4 DEF NullText, Strings
    <3>6. \A w \in {7, 8, 9} : m[w] = memory[w]
      BY <2>6, <3>5
    <3>7. ASSUME NEW x \in Strings PROVE buf[x] = out[x] /\ buf[x + 1] = out[x + 1]
      <4>1. PICK w \in {7, 8, 9} : /\ x = 2 * w
                                   /\ buf[x] = Low(m[w]) /\ buf[x + 1] = High(m[w])
        BY <2>3, <2>4, TextBytes
      <4>2. PICK u \in {7, 8, 9} : /\ x = 2 * u
                                   /\ out[x] = Low(memory[u]) /\ out[x + 1] = High(memory[u])
        BY <2>3, <3>4, TextBytes
      <4>3. w = u
        BY <4>1, <4>2
      <4> QED
        BY <3>6, <4>1, <4>2, <4>3
    <3>8. \A x \in Strings : TextAt(buf, x) = TextAt(out, x)
      BY <3>7 DEF TextAt, Length
    <3>9. PastEnd(out)
      BY <2>8, <3>8 DEF PastEnd
    <3> QED
      BY <3>4, <3>9
  <2>9. told.fault = "null" => NullText(buf)
    BY <2>5 DEF FaultIn
  <2>10. told.fault = "past end" => ~NullText(buf) /\ PastEnd(buf)
    BY <2>5 DEF FaultIn
  <2> QED
    BY <2>7, <2>8, <2>9, <2>10
<1> QED
  BY <1>1, ToolInvHolds, PTL
=============================================================================
