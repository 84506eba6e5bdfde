---------------------------- MODULE UdpEchoProofs ----------------------------
(***************************************************************************)
(* Proofs of the safety properties of UdpEcho, for any number of clients,  *)
(* datagrams and faults.                                                   *)
(*                                                                         *)
(* The inductive invariant adds to the types that a client waits only for  *)
(* a datagram it still counts, that the numbers on the way and those       *)
(* received were given out once (NumbersAt), and that the answers a client *)
(* has and may still get are covered by what the server received from it   *)
(* and by the faults (AnswersAt).                                          *)
(***************************************************************************)
EXTENDS UdpEcho, FiniteSetTheorems, TLAPS

AcksOf(c) == {m \in acks : m[1] = c}

WaitsAt == \A c \in Clients : waiting[c] => i[c] < MSGS

NumbersAt ==
  /\ \A m \in acks : m[2] < msgcnt
  /\ \A c \in Clients : \A n \in seen[c] : n < msgcnt
  /\ \A m, l \in acks : m[2] = l[2] => m[1] = l[1]
  /\ \A m \in acks : \A c \in Clients : m[2] \in seen[c] => m[1] = c
  /\ NoNumberIsShared

AnswersAt ==
  /\ IsFiniteSet(acks)
  /\ \A c \in Clients : i[c] < MSGS => i[c] + Cardinality(AcksOf(c)) <= received[c] + faults

TypeInv == TypeOK /\ WaitsAt
IInv == TypeInv /\ NumbersAt /\ AnswersAt

-----------------------------------------------------------------------------
(* Types.                                                                  *)

LEMMA TypesStart == Init => TypeInv
<1> SUFFICES ASSUME Init PROVE TypeInv
  OBVIOUS
<1>1. 0 \in 0 .. MSGS /\ 0 \in 0 .. MaxFaults
  BY UdpAssumption
<1> QED
  BY <1>1 DEF Init, TypeInv, TypeOK, WaitsAt

\* A fault stays within the bound.
LEMMA FaultCounts ==
  ASSUME TypeOK, UNCHANGED faults \/ Fault
  PROVE  faults' \in 0 .. MaxFaults /\ faults' \in Nat /\ faults' >= faults
BY UdpAssumption DEF TypeOK, Fault

LEMMA TypesKept == TypeInv /\ [Next]_vars => TypeInv'
<1> SUFFICES ASSUME TypeInv, [Next]_vars PROVE TypeInv'
  OBVIOUS
<1> USE UdpAssumption DEF TypeInv
<1>1. ASSUME NEW c \in Clients, Send(c) PROVE TypeInv'
  <2>1. i[c] \in 0 .. MSGS - 1
    BY <1>1 DEF Send, TypeOK
  <2> QED
    BY <1>1, <2>1 DEF Send, TypeOK, WaitsAt, server
<1>2. ASSUME NEW c \in Clients, SendFails(c) PROVE TypeInv'
  <2>1. faults' \in 0 .. MaxFaults
    BY <1>2, FaultCounts DEF SendFails
  <2> QED
    BY <1>2, <2>1 DEF SendFails, TypeOK, WaitsAt, server
<1>3. ASSUME NEW c \in Clients, Receive(c) PROVE TypeInv'
  <2>1. PICK m \in acks : /\ m[1] = c /\ Deliver(m, acks)
                          /\ seen' = [seen EXCEPT ![c] = @ \cup {m[2]}]
    BY <1>3 DEF Receive
  <2>2. acks' \subseteq acks /\ faults' \in 0 .. MaxFaults
    BY <2>1, FaultCounts DEF Deliver
  <2>3. m[2] \in Nat
    BY DEF TypeOK
  <2>4. i[c] + 1 \in 0 .. MSGS
    BY <1>3 DEF Receive, TypeOK, WaitsAt
  <2>5. seen' \in [Clients -> SUBSET Nat]
    BY <2>1, <2>3 DEF TypeOK
  <2> QED
    BY <1>3, <2>2, <2>4, <2>5 DEF Receive, TypeOK, WaitsAt, server
<1>4. ASSUME NEW c \in Clients, ReceiveFails(c) PROVE TypeInv'
  <2>1. faults' \in 0 .. MaxFaults
    BY <1>4, FaultCounts DEF ReceiveFails
  <2>2. i[c] + 1 \in 0 .. MSGS
    BY <1>4 DEF ReceiveFails, TypeOK, WaitsAt
  <2> QED
    BY <1>4, <2>1, <2>2 DEF ReceiveFails, TypeOK, WaitsAt, server
<1>5. ASSUME NEW m \in packets, Serve(m) PROVE TypeInv'
  <2>1. m[1] \in Clients
    BY DEF TypeOK
  <2>2. packets' \subseteq packets /\ faults' \in 0 .. MaxFaults
    BY <1>5, FaultCounts DEF Serve, Deliver
  <2>3. <<m[1], msgcnt>> \in Clients \X Nat
    BY <2>1 DEF TypeOK
  <2> QED
    BY <1>5, <2>1, <2>2, <2>3 DEF Serve, TypeOK, WaitsAt, clients
<1>6. CASE ServeError
  <2>1. faults' \in 0 .. MaxFaults
    BY <1>6, FaultCounts DEF ServeError
  <2>2. remaddr # Nobody => <<remaddr, msgcnt>> \in Clients \X Nat
    BY DEF TypeOK
  <2> QED
    BY <1>6, <2>1, <2>2 DEF ServeError, TypeOK, WaitsAt, clients
<1>7. CASE Close
  BY <1>7 DEF Close, TypeOK, WaitsAt, clients
<1>8. CASE Lose
  BY <1>8 DEF Lose, TypeOK, WaitsAt, clients, server
<1>9. CASE UNCHANGED vars
  BY <1>9 DEF vars, TypeOK, WaitsAt, clients, server
<1> QED
  BY <1>1, <1>2, <1>3, <1>4, <1>5, <1>6, <1>7, <1>8, <1>9 DEF Next, Server, Client

\* Counters, addresses and messages keep their types, and a client never
\* counts past MSGS (udpcli.c, the loop over i).
THEOREM Types == Spec => []TypeOK
<1>1. TypeInv => TypeOK
  BY DEF TypeInv
<1> QED
  BY <1>1, TypesStart, TypesKept, PTL DEF Spec

-----------------------------------------------------------------------------
(* Numbers.                                                                *)

\* A number that is given out is new.
LEMMA NewNumber ==
  ASSUME TypeOK, NumbersAt, NEW c, acks' = acks \cup {<<c, msgcnt>>}, msgcnt' = msgcnt + 1,
         seen' = seen
  PROVE  NumbersAt'
<1>1. msgcnt \in Nat /\ (\A m \in acks : m[2] \in Nat) /\ (\A d \in Clients : seen[d] \subseteq Nat)
  BY DEF TypeOK
<1>2. /\ \A m \in acks : m[2] < msgcnt' /\ m[2] # msgcnt
      /\ \A d \in Clients : \A n \in seen[d] : n < msgcnt' /\ n # msgcnt
      /\ msgcnt < msgcnt'
  BY <1>1 DEF NumbersAt
<1>3. \A m \in acks' : m \in acks \/ m = <<c, msgcnt>>
  OBVIOUS
<1>4. <<c, msgcnt>>[1] = c /\ <<c, msgcnt>>[2] = msgcnt
  OBVIOUS
<1>5. NoNumberIsShared'
  BY DEF NumbersAt, NoNumberIsShared
<1>6. \A m \in acks' : m[2] < msgcnt'
  BY <1>2, <1>3, <1>4
<1>7. \A d \in Clients : \A n \in seen'[d] : n < msgcnt'
  BY <1>2
<1>8. \A m, l \in acks' : m[2] = l[2] => m[1] = l[1]
  BY <1>2, <1>3, <1>4 DEF NumbersAt
<1>9. \A m \in acks' : \A d \in Clients : m[2] \in seen'[d] => m[1] = d
  BY <1>2, <1>3, <1>4 DEF NumbersAt
<1> QED
  BY <1>5, <1>6, <1>7, <1>8, <1>9 DEF NumbersAt

LEMMA FewerAcks ==
  ASSUME NumbersAt, acks' \subseteq acks, UNCHANGED <<msgcnt, seen>>
  PROVE  NumbersAt'
BY DEF NumbersAt, NoNumberIsShared

LEMMA NumbersKept == TypeOK /\ NumbersAt /\ [Next]_vars => NumbersAt'
<1> SUFFICES ASSUME TypeOK, NumbersAt, [Next]_vars PROVE NumbersAt'
  OBVIOUS
<1>1. ASSUME NEW c \in Clients, Send(c) \/ SendFails(c) \/ ReceiveFails(c) PROVE NumbersAt'
  BY <1>1, FewerAcks DEF Send, SendFails, ReceiveFails, server
<1>2. ASSUME NEW c \in Clients, Receive(c) PROVE NumbersAt'
  <2>1. PICK m \in acks : /\ m[1] = c /\ Deliver(m, acks)
                          /\ seen' = [seen EXCEPT ![c] = @ \cup {m[2]}]
    BY <1>2 DEF Receive
  <2>2. acks' \subseteq acks /\ msgcnt' = msgcnt
    BY <1>2, <2>1 DEF Receive, Deliver, server
  <2>3. \A d \in Clients : seen'[d] = IF d = c THEN seen[c] \cup {m[2]} ELSE seen[d]
    BY <2>1 DEF TypeOK
  <2>4. NoNumberIsShared'
    BY <2>1, <2>3 DEF NumbersAt, NoNumberIsShared
  <2> QED
    BY <2>1, <2>2, <2>3, <2>4 DEF NumbersAt
<1>3. ASSUME NEW m \in packets, Serve(m) PROVE NumbersAt'
  BY <1>3, NewNumber DEF Serve, clients
<1>4. CASE ServeError
  <2>1. CASE remaddr = Nobody
    <3>1. acks' = acks /\ msgcnt' = msgcnt + 1 /\ seen' = seen
      BY <1>4, <2>1 DEF ServeError, clients
    <3>2. \A n \in Nat : n < msgcnt => n < msgcnt'
      BY <3>1 DEF TypeOK
    <3>3. (\A m \in acks : m[2] \in Nat) /\ (\A d \in Clients : seen[d] \subseteq Nat)
      BY DEF TypeOK
    <3> QED
      BY <3>1, <3>2, <3>3 DEF NumbersAt, NoNumberIsShared
  <2>2. CASE remaddr # Nobody
    BY <1>4, <2>2, NewNumber DEF ServeError, clients
  <2> QED
    BY <2>1, <2>2
<1>5. CASE Close
  BY <1>5, FewerAcks DEF Close, clients
<1>6. CASE Lose
  BY <1>6, FewerAcks DEF Lose, clients, server
<1>7. CASE UNCHANGED vars
  BY <1>7, FewerAcks DEF vars, clients, server
<1> QED
  BY <1>1, <1>2, <1>3, <1>4, <1>5, <1>6, <1>7 DEF Next, Server, Client

LEMMA NumbersStart == Init => NumbersAt
BY DEF Init, NumbersAt, NoNumberIsShared

\* Every number names one round of the server's loop (udpser.c:57): however
\* datagrams are lost, repeated and delayed, no two clients share one.
THEOREM NumbersAreTheirs == Spec => []NoNumberIsShared
<1>1. Init => TypeOK /\ NumbersAt
  BY TypesStart, NumbersStart DEF TypeInv
<1>2. NumbersAt => NoNumberIsShared
  BY DEF NumbersAt
<1> QED
  BY <1>1, <1>2, Types, NumbersKept, PTL DEF Spec

-----------------------------------------------------------------------------
(* Answers.                                                                *)

\* One more answer for one client.
LEMMA OneMoreAck ==
  ASSUME TypeOK, NumbersAt, AnswersAt, NEW c \in Clients, acks' = acks \cup {<<c, msgcnt>>}
  PROVE  /\ IsFiniteSet(acks')
         /\ Cardinality(AcksOf(c)') = Cardinality(AcksOf(c)) + 1
         /\ \A d \in Clients \ {c} : AcksOf(d)' = AcksOf(d)
<1>1. IsFiniteSet(acks) /\ IsFiniteSet(acks')
  BY FS_AddElement DEF AnswersAt
<1>2. IsFiniteSet(AcksOf(c))
  BY <1>1, FS_Subset DEF AcksOf
<1>3. <<c, msgcnt>> \notin acks
  <2>1. <<c, msgcnt>>[2] = msgcnt /\ msgcnt \in Nat
    BY DEF TypeOK
  <2> QED
    BY <2>1 DEF NumbersAt
<1>4. AcksOf(c)' = AcksOf(c) \cup {<<c, msgcnt>>} /\ <<c, msgcnt>> \notin AcksOf(c)
  BY <1>3 DEF AcksOf
<1>5. \A d \in Clients \ {c} : AcksOf(d)' = AcksOf(d)
  BY DEF AcksOf
<1> QED
  BY <1>1, <1>2, <1>4, <1>5, FS_AddElement

LEMMA AcksAreFinite ==
  ASSUME AnswersAt, NEW c
  PROVE  IsFiniteSet(AcksOf(c)) /\ Cardinality(AcksOf(c)) \in Nat
BY FS_Subset, FS_CardinalityType DEF AnswersAt, AcksOf

\* Answers that leave only lower the count.
LEMMA NoMoreAcks ==
  ASSUME AnswersAt, acks' \subseteq acks
  PROVE  /\ IsFiniteSet(acks')
         /\ \A d \in Clients : /\ Cardinality(AcksOf(d)') <= Cardinality(AcksOf(d))
                               /\ Cardinality(AcksOf(d)') \in Nat
<1>1. IsFiniteSet(acks')
  BY FS_Subset DEF AnswersAt
<1>2. ASSUME NEW d \in Clients
      PROVE  /\ Cardinality(AcksOf(d)') <= Cardinality(AcksOf(d))
             /\ Cardinality(AcksOf(d)') \in Nat
  <2>1. AcksOf(d)' \subseteq AcksOf(d) /\ IsFiniteSet(AcksOf(d))
    BY AcksAreFinite DEF AcksOf
  <2> QED
    BY <2>1, FS_Subset, FS_CardinalityType
<1> QED
  BY <1>1, <1>2

\* Without a new answer, a step that counts no datagram keeps the balance.
LEMMA BalanceKept ==
  ASSUME TypeOK, AnswersAt, acks' \subseteq acks,
         i' \in [Clients -> 0 .. MSGS], received' \in [Clients -> Nat], faults' \in Nat,
         faults' >= faults,
         \A c \in Clients : i'[c] < MSGS => i'[c] = i[c] /\ received'[c] >= received[c]
  PROVE  AnswersAt'
<1>1. IsFiniteSet(acks')
  BY NoMoreAcks
<1>2. ASSUME NEW c \in Clients, i'[c] < MSGS
      PROVE  i'[c] + Cardinality(AcksOf(c)') <= received'[c] + faults'
  <2>1. i[c] + Cardinality(AcksOf(c)) <= received[c] + faults /\ i'[c] = i[c]
    BY <1>2 DEF AnswersAt
  <2>2. /\ Cardinality(AcksOf(c)') <= Cardinality(AcksOf(c))
        /\ Cardinality(AcksOf(c)') \in Nat /\ Cardinality(AcksOf(c)) \in Nat
    BY NoMoreAcks, AcksAreFinite
  <2>3. i[c] \in Nat /\ received[c] \in Nat /\ faults \in Nat /\ received'[c] \in Nat
    BY UdpAssumption DEF TypeOK
  <2>4. received'[c] >= received[c]
    BY <1>2
  <2> QED
    BY <2>1, <2>2, <2>3, <2>4
<1> QED
  BY <1>1, <1>2 DEF AnswersAt

LEMMA AnswersKept == TypeInv /\ NumbersAt /\ AnswersAt /\ [Next]_vars => AnswersAt'
<1> SUFFICES ASSUME TypeInv, NumbersAt, AnswersAt, [Next]_vars PROVE AnswersAt'
  OBVIOUS
<1> USE DEF TypeInv
<1>a. TypeInv'
  BY TypesKept
<1>b. /\ i' \in [Clients -> 0 .. MSGS] /\ received' \in [Clients -> Nat] /\ faults' \in Nat
      /\ i \in [Clients -> 0 .. MSGS] /\ received \in [Clients -> Nat] /\ faults \in Nat
      /\ MSGS \in Nat
  BY <1>a, UdpAssumption DEF TypeOK
<1>1. ASSUME NEW c \in Clients, Send(c) PROVE AnswersAt'
  BY <1>1, <1>b, BalanceKept DEF Send, server
<1>2. ASSUME NEW c \in Clients, SendFails(c) PROVE AnswersAt'
  <2>1. faults' >= faults
    BY <1>2, FaultCounts DEF SendFails
  <2>2. \A d \in Clients : i'[d] < MSGS => i'[d] = i[d]
    BY <1>2, <1>b DEF SendFails
  <2> QED
    BY <1>2, <1>b, <2>1, <2>2, BalanceKept DEF SendFails, server
<1>3. ASSUME NEW c \in Clients, Receive(c) PROVE AnswersAt'
  <2>1. PICK m \in acks : m[1] = c /\ Deliver(m, acks)
    BY <1>3 DEF Receive
  <2>2. acks' \subseteq acks /\ i' = [i EXCEPT ![c] = @ + 1] /\ received' = received
    BY <1>3, <2>1 DEF Receive, Deliver, server
  <2>3. ASSUME NEW d \in Clients, i'[d] < MSGS
        PROVE  i'[d] + Cardinality(AcksOf(d)') <= received'[d] + faults'
    <3>1. /\ Cardinality(AcksOf(d)') <= Cardinality(AcksOf(d))
          /\ Cardinality(AcksOf(d)') \in Nat /\ Cardinality(AcksOf(d)) \in Nat
      BY <2>2, NoMoreAcks, AcksAreFinite
    <3>2. i[d] \in Nat /\ i'[d] = IF d = c THEN i[c] + 1 ELSE i[d]
      BY <1>b, <2>2
    <3>3. i[d] + Cardinality(AcksOf(d)) <= received[d] + faults
      BY <1>b, <2>3, <3>2 DEF AnswersAt
    <3>4. faults' >= faults
      BY <2>1, FaultCounts DEF Deliver
    <3>5. CASE d # c
      BY <1>b, <2>2, <3>1, <3>2, <3>3, <3>4, <3>5
    <3>6. CASE d = c
      <4>1. CASE acks' = acks \ {m} /\ UNCHANGED faults
        <5>1. AcksOf(c)' = AcksOf(c) \ {m} /\ m \in AcksOf(c)
          BY <2>1, <4>1 DEF AcksOf
        <5>2. Cardinality(AcksOf(c)') = Cardinality(AcksOf(c)) - 1
          BY <5>1, AcksAreFinite, FS_RemoveElement
        <5> QED
          BY <1>b, <2>2, <3>1, <3>2, <3>3, <3>6, <4>1, <5>2
      <4>2. CASE Fault
        BY <1>b, <2>2, <3>1, <3>2, <3>3, <3>6, <4>2 DEF Fault
      <4> QED
        BY <2>1, <4>1, <4>2 DEF Deliver
    <3> QED
      BY <3>5, <3>6
  <2>4. IsFiniteSet(acks')
    BY <2>2, NoMoreAcks
  <2> QED
    BY <2>3, <2>4 DEF AnswersAt
<1>4. ASSUME NEW c \in Clients, ReceiveFails(c) PROVE AnswersAt'
  <2>1. /\ acks' = acks /\ i' = [i EXCEPT ![c] = @ + 1] /\ received' = received
        /\ faults' = faults + 1
    BY <1>4 DEF ReceiveFails, Fault, server
  <2>2. ASSUME NEW d \in Clients, i'[d] < MSGS
        PROVE  i'[d] + Cardinality(AcksOf(d)') <= received'[d] + faults'
    <3>1. AcksOf(d)' = AcksOf(d) /\ Cardinality(AcksOf(d)) \in Nat
      BY <2>1, AcksAreFinite DEF AcksOf
    <3>2. i[d] \in Nat /\ i'[d] = IF d = c THEN i[c] + 1 ELSE i[d]
      BY <1>b, <2>1
    <3>3. i[d] + Cardinality(AcksOf(d)) <= received[d] + faults
      BY <1>b, <2>2, <3>2 DEF AnswersAt
    <3> QED
      BY <1>b, <2>1, <3>1, <3>2, <3>3
  <2> QED
    BY <2>1, <2>2 DEF AnswersAt
<1>5. ASSUME NEW m \in packets, Serve(m) PROVE AnswersAt'
  <2>1. m[1] \in Clients
    BY DEF TypeOK
  <2>2. /\ acks' = acks \cup {<<m[1], msgcnt>>} /\ i' = i
        /\ received' = [received EXCEPT ![m[1]] = @ + 1]
    BY <1>5 DEF Serve, clients
  <2>3. faults' >= faults
    BY <1>5, FaultCounts DEF Serve, Deliver
  <2>4. ASSUME NEW d \in Clients, i'[d] < MSGS
        PROVE  i'[d] + Cardinality(AcksOf(d)') <= received'[d] + faults'
    <3>1. i[d] + Cardinality(AcksOf(d)) <= received[d] + faults
      BY <2>2, <2>4 DEF AnswersAt
    <3>2. Cardinality(AcksOf(d)) \in Nat /\ i[d] \in Nat /\ received[d] \in Nat
      BY <1>b, AcksAreFinite
    <3>3. CASE d = m[1]
      <4>1. received'[d] = received[d] + 1
        BY <1>b, <2>2, <3>3
      <4>2. Cardinality(AcksOf(d)') = Cardinality(AcksOf(d)) + 1
        BY <2>1, <2>2, <3>3, OneMoreAck
      <4> QED
        BY <1>b, <2>2, <2>3, <3>1, <3>2, <4>1, <4>2
    <3>4. CASE d # m[1]
      <4>1. received'[d] = received[d]
        BY <1>b, <2>2, <3>4
      <4>2. AcksOf(d)' = AcksOf(d)
        BY <2>1, <2>2, <3>4, OneMoreAck
      <4> QED
        BY <1>b, <2>2, <2>3, <3>1, <3>2, <4>1, <4>2
    <3> QED
      BY <3>3, <3>4
  <2>5. IsFiniteSet(acks')
    BY <2>1, <2>2, OneMoreAck
  <2> QED
    BY <2>4, <2>5 DEF AnswersAt
<1>6. CASE ServeError
  <2>1. i' = i /\ received' = received /\ faults' = faults + 1
    BY <1>6 DEF ServeError, Fault, clients
  <2>2. CASE remaddr = Nobody
    <3>1. acks' = acks
      BY <1>6, <2>2 DEF ServeError
    <3>2. faults' >= faults
      BY <1>b, <2>1
    <3>3. \A d \in Clients : received[d] >= received[d]
      BY <1>b
    <3> QED
      BY <1>b, <2>1, <3>1, <3>2, <3>3, BalanceKept
  <2>3. CASE remaddr # Nobody
    <3>1. remaddr \in Clients /\ acks' = acks \cup {<<remaddr, msgcnt>>}
      BY <1>6, <2>3 DEF ServeError, TypeOK
    <3>2. ASSUME NEW d \in Clients, i'[d] < MSGS
          PROVE  i'[d] + Cardinality(AcksOf(d)') <= received'[d] + faults'
      <4>1. i[d] + Cardinality(AcksOf(d)) <= received[d] + faults
        BY <2>1, <3>2 DEF AnswersAt
      <4>2. Cardinality(AcksOf(d)) \in Nat /\ i[d] \in Nat /\ received[d] \in Nat
        BY <1>b, AcksAreFinite
      <4>3. \/ Cardinality(AcksOf(d)') = Cardinality(AcksOf(d)) + 1
            \/ Cardinality(AcksOf(d)') = Cardinality(AcksOf(d))
        <5>1. CASE d = remaddr
          BY <3>1, <5>1, OneMoreAck
        <5>2. CASE d # remaddr
          BY <3>1, <5>2, OneMoreAck
        <5> QED
          BY <5>1, <5>2
      <4> QED
        BY <1>b, <2>1, <4>1, <4>2, <4>3
    <3>3. IsFiniteSet(acks')
      BY <3>1, OneMoreAck
    <3> QED
      BY <3>2, <3>3 DEF AnswersAt
  <2> QED
    BY <2>2, <2>3
<1>7. CASE Close
  BY <1>7 DEF Close, clients, AnswersAt, AcksOf
<1>8. CASE Lose
  <2>1. acks' \subseteq acks /\ i' = i /\ received' = received /\ faults' = faults
    BY <1>8 DEF Lose, clients, server
  <2>2. faults' >= faults /\ \A d \in Clients : received[d] >= received[d]
    BY <1>b, <2>1
  <2> QED
    BY <1>b, <2>1, <2>2, BalanceKept
<1>9. CASE UNCHANGED vars
  BY <1>9 DEF vars, clients, server, AnswersAt, AcksOf
<1> QED
  BY <1>1, <1>2, <1>3, <1>4, <1>5, <1>6, <1>7, <1>8, <1>9 DEF Next, Server, Client

LEMMA AnswersStart == Init => AnswersAt
<1> SUFFICES ASSUME Init PROVE AnswersAt
  OBVIOUS
<1>1. acks = {} /\ \A c \in Clients : AcksOf(c) = {}
  BY DEF Init, AcksOf
<1> QED
  BY <1>1, FS_EmptySet DEF Init, AnswersAt

\* A client is ahead of the server only by faults (udpcli.c:59 takes the next
\* datagram for the answer), for any number of clients and datagrams.
THEOREM OnlyFaultsPutAhead == Spec => []ClientsKeepStep
<1>1. Init => IInv
  BY TypesStart, NumbersStart, AnswersStart DEF IInv
<1>2. IInv /\ [Next]_vars => IInv'
  BY TypesKept, NumbersKept, AnswersKept DEF IInv, TypeInv
<1>3. IInv => ClientsKeepStep
  <2> SUFFICES ASSUME IInv, NEW c \in Clients, i[c] < MSGS PROVE i[c] <= received[c] + faults
    BY DEF ClientsKeepStep
  <2>1. i[c] + Cardinality(AcksOf(c)) <= received[c] + faults
    BY DEF IInv, AnswersAt
  <2>2. Cardinality(AcksOf(c)) \in Nat
    BY AcksAreFinite DEF IInv
  <2>3. i[c] \in Nat /\ received[c] \in Nat /\ faults \in Nat
    BY UdpAssumption DEF IInv, TypeInv, TypeOK
  <2> QED
    BY <2>1, <2>2, <2>3
<1> QED
  BY <1>1, <1>2, <1>3, PTL DEF Spec
=============================================================================
