-------------------------- MODULE KvmServerProofs --------------------------
(***************************************************************************)
(* Proofs about the serial port functions and the server that uses them:   *)
(* whoever calls the functions in the server's order gets its own answers  *)
(* (UartSpec), the server of KvmDatagram is such a caller over TCP and     *)
(* over UDP (ServerIsACaller), and what KvmServer and KvmDatagram promise  *)
(* of faults, descriptors, waits and answers holds for any number of       *)
(* clients, commands, lines and requests.                                  *)
(***************************************************************************)
EXTENDS KvmDatagram, FiniteSetTheorems, SequenceTheorems, TLAPS

(***************************************************************************)
(* The serial port.                                                        *)
(***************************************************************************)

\* What the server does with the port, and the device.
UartNext == (\E c \in Commands : Ask(c)) \/ Call \/ Collect \/ DeviceLine
UartSpec == UartInit /\ [][UartNext]_uartVars

Line == Nat \X Nat
UpToNow == {l \in Line : l[1] <= asks}
Before == {l \in Line : l[1] < asks}
Present == {l \in Line : l[1] = asks}
Owed == {l \in Line : l[1] \in overdue}
Recent == {l \in Line : l[1] = asks \/ l[1] \in overdue}

UartTypes ==
  /\ upc \in {"idle", "connect", "baud", "write", "sleep", "read", "close", "done"}
  /\ open \in BOOLEAN /\ healthy \in BOOLEAN
  /\ cmd \in Commands /\ done \subseteq Commands
  /\ asks \in Nat /\ overdue \subseteq Nat
  /\ buffer \in Seq(Line) /\ tty \in Seq(Line) /\ wire \in Seq(Line)

\* A closed port has an empty queue; no line is of a command still to come; and
\* the lines of the present one come after its write, on an open port.
QueuesAt ==
  /\ ~open => tty = <<>>
  /\ upc \in {"idle", "connect", "done"} => ~open
  /\ upc # "idle" => asks > 0
  /\ tty \in Seq(UpToNow) /\ wire \in Seq(UpToNow)
  /\ upc \in {"connect", "baud", "write"} =>
       tty \in Seq(Before) /\ wire \in Seq(Before)
  /\ upc \in {"connect", "baud", "write", "sleep"} => buffer = <<>>
  /\ ~open /\ upc \in {"sleep", "read"} => buffer = <<>> /\ wire \in Seq(Before)

-----------------------------------------------------------------------------
(* Sequences.                                                              *)

LEMMA SeqInto ==
  ASSUME NEW S, NEW T, NEW s \in Seq(S), \A p \in 1 .. Len(s) : s[p] \in T
  PROVE  s \in Seq(T)
<1>1. Len(s) \in Nat /\ s \in [1 .. Len(s) -> S]
  BY LenProperties
<1>2. s \in [1 .. Len(s) -> T]
  BY <1>1
<1> QED
  BY <1>1, <1>2, SeqDef

LEMMA Wider ==
  ASSUME NEW S, NEW T, S \subseteq T, NEW s \in Seq(S)
  PROVE  s \in Seq(T)
BY SeqMonotonic

LEMMA SameInterval ==
  ASSUME NEW m \in Nat, NEW n \in Nat, 1 .. m = 1 .. n
  PROVE  m = n
<1>1. m > 0 => m \in 1 .. n
  OBVIOUS
<1>2. n > 0 => n \in 1 .. m
  OBVIOUS
<1> QED
  BY <1>1, <1>2

\* The lines of an answer.
LEMMA AnswerIsASeq ==
  ASSUME NEW k \in Nat, NEW n \in Nat, NEW S, \A i \in 1 .. n : <<k, i>> \in S
  PROVE  LET a == [i \in 1 .. n |-> <<k, i>>] IN
         /\ a \in Seq(S) /\ Len(a) = n
         /\ \A i \in 1 .. n : a[i] = <<k, i>>
<1> DEFINE a == [i \in 1 .. n |-> <<k, i>>]
<1>1. a \in [1 .. n -> S]
  OBVIOUS
<1>2. a \in Seq(S)
  BY <1>1, SeqDef
<1>3. Len(a) \in Nat /\ DOMAIN a = 1 .. Len(a)
  BY <1>2, LenProperties
<1>4. DOMAIN a = 1 .. n
  OBVIOUS
<1>5. Len(a) = n
  <2> HIDE DEF a
  <2>1. 1 .. Len(a) = 1 .. n
    BY <1>3, <1>4
  <2> QED
    BY <2>1, <1>3, SameInterval
<1> QED
  BY <1>2, <1>5

\* The head of a queue goes to the end of the one before it.
LEMMA HeadMoves ==
  ASSUME NEW S, NEW s \in Seq(S), NEW t \in Seq(S), t # <<>>
  PROVE  /\ Append(s, Head(t)) \in Seq(S) /\ Tail(t) \in Seq(S)
         /\ Append(s, Head(t)) \o Tail(t) = s \o t
<1>1. Head(t) \in S /\ Tail(t) \in Seq(S) /\ Len(Tail(t)) = Len(t) - 1
      /\ \A i \in 1 .. Len(Tail(t)) : Tail(t)[i] = t[i + 1]
  BY HeadTailProperties
<1>2. Append(s, Head(t)) \in Seq(S) /\ Len(Append(s, Head(t))) = Len(s) + 1
      /\ (\A i \in 1 .. Len(s) : Append(s, Head(t))[i] = s[i])
      /\ Append(s, Head(t))[Len(s) + 1] = Head(t)
  BY <1>1, AppendProperties
<1>3. Len(t) \in Nat /\ Len(s) \in Nat /\ Head(t) = t[1] /\ Len(t) > 0
  <2>1. Len(t) \in Nat \ {0} /\ Len(s) \in Nat
    BY EmptySeq, LenProperties
  <2>2. Head(t) = t[1]
    OBVIOUS
  <2> QED
    BY <2>1, <2>2
<1>4. Append(s, Head(t)) = s \o <<Head(t)>>
  BY <1>1, AppendIsConcat
<1>5. <<Head(t)>> \in Seq(S)
  BY <1>1
<1>6. (s \o <<Head(t)>>) \o Tail(t) = s \o (<<Head(t)>> \o Tail(t))
  BY <1>1, <1>5, ConcatAssociative
<1>7. <<Head(t)>> \o Tail(t) = t
  <2> DEFINE h == <<Head(t)>> \o Tail(t)
  <2>1. h \in Seq(S) /\ Len(h) = Len(<<Head(t)>>) + Len(Tail(t))
        /\ \A i \in 1 .. Len(<<Head(t)>>) + Len(Tail(t)) :
             h[i] = IF i <= Len(<<Head(t)>>) THEN <<Head(t)>>[i]
                    ELSE Tail(t)[i - Len(<<Head(t)>>)]
    BY <1>1, <1>5, ConcatProperties
  <2>2. Len(<<Head(t)>>) = 1 /\ <<Head(t)>>[1] = Head(t)
    OBVIOUS
  <2> HIDE DEF h
  <2>3. Len(h) = Len(t)
    BY <2>1, <2>2, <1>1, <1>3
  <2>4. ASSUME NEW i \in 1 .. Len(h) PROVE h[i] = t[i]
    <3>1. CASE i = 1
      BY <3>1, <2>1, <2>2, <1>1, <1>3
    <3>2. CASE i # 1
      <4>1. i - 1 \in 1 .. Len(Tail(t)) /\ i \in 1 .. Len(<<Head(t)>>) + Len(Tail(t))
            /\ ~(i <= Len(<<Head(t)>>))
        BY <3>2, <2>2, <2>3, <1>1, <1>3
      <4>2. h[i] = Tail(t)[i - 1]
        BY <4>1, <2>1, <2>2
      <4>3. Tail(t)[i - 1] = t[(i - 1) + 1]
        BY <4>1, <1>1
      <4>4. (i - 1) + 1 = i
        OBVIOUS
      <4> QED
        BY <4>2, <4>3, <4>4
    <3> QED
      BY <3>1, <3>2
  <2> QED
    BY <2>1, <2>3, <2>4, SeqEqual DEF h
<1> QED
  BY <1>1, <1>2, <1>4, <1>6, <1>7

-----------------------------------------------------------------------------
(* A sequence of lines in which those of command k come last, and are its  *)
(* first lines in order.                                                   *)

RunsFrom(s, k, j) ==
  \A p \in 1 .. Len(s) : IF p <= j THEN s[p][1] # k ELSE s[p] = <<k, p - j>>
Runs(s, k) == \E j \in Nat : RunsFrom(s, k, j)

LEMMA Regroup ==
  \A s, t, u \in Seq(Line) : (s \o t) \o u = s \o (t \o u)
BY ConcatAssociative

LEMMA RunsPrefix ==
  ASSUME NEW S, NEW s \in Seq(S), NEW t \in Seq(S), NEW k, Runs(s \o t, k)
  PROVE  Runs(s, k)
<1>1. PICK j \in Nat : RunsFrom(s \o t, k, j)
  BY DEF Runs
<1>2. Len(s) \in Nat /\ Len(t) \in Nat
  BY LenProperties
<1>3. ASSUME NEW p \in 1 .. Len(s)
      PROVE  IF p <= j THEN s[p][1] # k ELSE s[p] = <<k, p - j>>
  <2>1. Len(s \o t) = Len(s) + Len(t)
        /\ \A i \in 1 .. Len(s) + Len(t) :
             (s \o t)[i] = IF i <= Len(s) THEN s[i] ELSE t[i - Len(s)]
    BY ConcatProperties
  <2>2. p \in 1 .. Len(s) + Len(t) /\ p <= Len(s)
    BY <1>2
  <2>3. (s \o t)[p] = s[p] /\ p \in 1 .. Len(s \o t)
    BY <2>1, <2>2
  <2> QED
    BY <1>1, <2>3 DEF RunsFrom
<1> QED
  BY <1>3 DEF Runs, RunsFrom

LEMMA RunsOfOthers ==
  ASSUME NEW S, NEW s \in Seq(S), NEW k, \A l \in S : l[1] # k
  PROVE  Runs(s, k)
<1>1. Len(s) \in Nat
  BY LenProperties
<1>2. ASSUME NEW p \in 1 .. Len(s) PROVE p <= Len(s) /\ s[p][1] # k
  <2>1. s[p] \in S
    BY ElementOfSeq
  <2> QED
    BY <1>1, <2>1
<1>3. RunsFrom(s, k, Len(s))
  BY <1>2 DEF RunsFrom
<1> QED
  BY <1>1, <1>3 DEF Runs

LEMMA RunsOfAnswer ==
  ASSUME NEW k \in Nat, NEW s \in Seq({l \in Line : l[1] < k}), NEW n \in Nat
  PROVE  Runs(s \o [i \in 1 .. n |-> <<k, i>>], k)
<1> DEFINE a == [i \in 1 .. n |-> <<k, i>>]
<1>1. a \in Seq(Line) /\ Len(a) = n /\ \A i \in 1 .. n : a[i] = <<k, i>>
  BY AnswerIsASeq DEF Line
<1>2. s \in Seq(Line) /\ Len(s) \in Nat
  BY SeqMonotonic, LenProperties
<1> HIDE DEF a
<1>3. Len(s \o a) = Len(s) + n
      /\ \A i \in 1 .. Len(s) + n :
           (s \o a)[i] = IF i <= Len(s) THEN s[i] ELSE a[i - Len(s)]
  BY <1>1, <1>2, ConcatProperties
<1>4. ASSUME NEW p \in 1 .. Len(s \o a)
      PROVE  IF p <= Len(s) THEN (s \o a)[p][1] # k ELSE (s \o a)[p] = <<k, p - Len(s)>>
  <2>1. p \in 1 .. Len(s) + n
    BY <1>3
  <2>2. CASE p <= Len(s)
    <3>1. p \in 1 .. Len(s)
      BY <1>2, <2>1, <2>2
    <3>2. s[p] \in {l \in Line : l[1] < k}
      BY <3>1, ElementOfSeq
    <3>3. s[p][1] < k /\ s[p][1] \in Nat
      BY <3>2 DEF Line
    <3>4. (s \o a)[p] = s[p]
      BY <1>3, <2>1, <2>2
    <3> QED
      BY <2>2, <3>3, <3>4
  <2>3. CASE ~(p <= Len(s))
    <3>1. p - Len(s) \in 1 .. n
      BY <1>2, <2>1, <2>3
    <3> QED
      BY <1>1, <1>3, <2>1, <2>3, <3>1
  <2> QED
    BY <2>2, <2>3
<1>5. RunsFrom(s \o a, k, Len(s))
  BY <1>4 DEF RunsFrom
<1> QED
  BY <1>2, <1>5 DEF Runs, a

\* In such a sequence the i-th line of k is line i.
LEMMA RunsCount ==
  ASSUME NEW s \in Seq(Line), NEW k, Runs(s, k), NEW p \in 1 .. Len(s), s[p][1] = k
  PROVE  s[p][2] = Cardinality({q \in 1 .. p : s[q][1] = k})
<1>1. PICK j \in Nat : RunsFrom(s, k, j)
  BY DEF Runs
<1>2. Len(s) \in Nat
  BY LenProperties
<1>3. p > j /\ s[p] = <<k, p - j>>
  BY <1>1 DEF RunsFrom
<1>4. ASSUME NEW q \in 1 .. p PROVE s[q][1] = k <=> q \in j + 1 .. p
  <2>1. q \in 1 .. Len(s)
    BY <1>2
  <2>2. CASE q <= j
    BY <1>1, <2>1, <2>2 DEF RunsFrom
  <2>3. CASE ~(q <= j)
    BY <1>1, <2>1, <2>3 DEF RunsFrom
  <2> QED
    BY <2>2, <2>3
<1>5. {q \in 1 .. p : s[q][1] = k} = j + 1 .. p
  <2>1. j + 1 .. p \subseteq 1 .. p
    OBVIOUS
  <2> QED
    BY <1>4, <2>1
<1>6. Cardinality(j + 1 .. p) = p - (j + 1) + 1
  BY <1>3, FS_Interval
<1>7. p - (j + 1) + 1 = p - j
  OBVIOUS
<1>8. s[p][2] = p - j
  BY <1>3
<1> QED
  BY <1>5, <1>6, <1>7, <1>8

-----------------------------------------------------------------------------
(* What each step does to the queues.                                      *)

\* The device answers nothing, or a first part of an answer at the end of what
\* it has still to send; nothing is sent on a closed port.
LEMMA WriteAnswers ==
  ASSUME UartTypes, uartWrite
  PROVE  \/ wire' = wire /\ (open => ~healthy)
         \/ /\ open
            /\ \E n \in Nat : /\ healthy => n > 0
                              /\ wire' = wire \o [i \in 1 .. n |-> <<asks, i>>]
<1>1. MaxLines \in Nat
  BY UartAssumption
<1>2. ASSUME NEW n \in (IF healthy THEN 1 ELSE 0) .. MaxLines
      PROVE  n \in Nat /\ (healthy => n > 0)
  BY <1>1
<1>3. CASE open /\ \E n \in (IF healthy THEN 1 ELSE 0) .. MaxLines :
                      wire' = wire \o [i \in 1 .. n |-> <<asks, i>>]
  BY <1>2, <1>3
<1>4. CASE (~open \/ MayFail("write")) /\ wire' = wire
  BY <1>4 DEF MayFail
<1> QED
  BY <1>3, <1>4 DEF uartWrite

LEMMA LinesGo ==
  ASSUME UartTypes, DeviceLine,
         NEW S, tty \in Seq(S), wire \in Seq(S)
  PROVE  tty' \in Seq(S) /\ wire' \in Seq(S)
<1>1. wire # <<>> /\ wire' = Tail(wire)
      /\ tty' = IF open THEN Append(tty, Head(wire)) ELSE tty
  BY DEF DeviceLine
<1> QED
  BY <1>1, HeadMoves

LEMMA LinesAreRead ==
  ASSUME UartTypes, ReadLine,
         NEW S, buffer \in Seq(S), tty \in Seq(S)
  PROVE  tty' \in Seq(S) /\ buffer' \in Seq(S)
<1>1. tty # <<>> /\ tty' = Tail(tty) /\ buffer' = Append(buffer, Head(tty))
  BY DEF ReadLine
<1> QED
  BY <1>1, HeadMoves

LEMMA TailOfQueue ==
  ASSUME NEW S, NEW s \in Seq(S), s # <<>>
  PROVE  Tail(s) \in Seq(S)
BY HeadTailProperties

LEMMA NoStringIsLine == NoString \in Seq(Line) /\ <<>> \in Seq(Line)
<1>1. <<0, 0>> \in Line
  BY DEF Line
<1>2. <<<<0, 0>>>> \in Seq(Line)
  BY <1>1
<1> QED
  BY <1>2 DEF NoString

LEMMA GarbageIsLine == Garbage \in Seq(Line) /\ Garbage # Silence
<1>1. <<0, 1>> \in Line
  BY DEF Line
<1>2. <<<<0, 1>>>> \in Seq(Line)
  BY <1>1
<1>3. Len(<<<<0, 1>>>>) = 1 /\ Len(<<>>) = 0
  OBVIOUS
<1> QED
  BY <1>2, <1>3 DEF Garbage, Silence

LEMMA UartTypesInit == UartInit => UartTypes
<1> SUFFICES ASSUME UartInit PROVE UartTypes
  OBVIOUS
<1>1. open \in BOOLEAN /\ healthy \in BOOLEAN
  BY DEF UartInit
<1>2. cmd \in Commands /\ done \subseteq Commands /\ overdue \subseteq Nat
  BY DEF UartInit
<1>3. asks \in Nat /\ upc = "idle"
  BY DEF UartInit
<1>4. buffer \in Seq(Line) /\ tty \in Seq(Line) /\ wire \in Seq(Line)
  BY NoStringIsLine DEF UartInit
<1> QED
  BY <1>1, <1>2, <1>3, <1>4 DEF UartTypes

LEMMA UartTypesStep ==
  ASSUME UartTypes, [UartNext]_uartVars
  PROVE  UartTypes'
<1> USE DEF UartTypes
<1>0. <<>> \in Seq(Line) /\ NoString \in Seq(Line)
  BY NoStringIsLine
<1>1. ASSUME NEW c \in Commands, Ask(c) PROVE UartTypes'
  BY <1>0, <1>1 DEF Ask
<1>2. CASE uartConnect
  BY <1>2 DEF uartConnect
<1>3. CASE uartBaudrate
  <2>1. Owners(wire) \subseteq Nat
    <3>1. \A p \in 1 .. Len(wire) : wire[p] \in Line
      BY ElementOfSeq
    <3>2. DOMAIN wire = 1 .. Len(wire)
      BY LenProperties
    <3> QED
      BY <3>1, <3>2 DEF Owners, Range, Line
  <2> QED
    BY <1>0, <1>3, <2>1 DEF uartBaudrate
<1>4. CASE uartWrite
  <2>1. wire' \in Seq(Line)
    <3>1. CASE wire' = wire
      BY <3>1
    <3>2. ASSUME NEW n \in Nat, wire' = wire \o [i \in 1 .. n |-> <<asks, i>>]
          PROVE  wire' \in Seq(Line)
      <4>1. [i \in 1 .. n |-> <<asks, i>>] \in Seq(Line)
        BY AnswerIsASeq DEF Line
      <4> QED
        BY <3>2, <4>1, ConcatProperties
    <3> QED
      BY <1>4, <3>1, <3>2, WriteAnswers
  <2>2. /\ upc' = "sleep" /\ done' = done \cup {cmd}
        /\ UNCHANGED <<open, cmd, buffer, tty, asks, healthy, overdue>>
    BY <1>4 DEF uartWrite
  <2> QED
    BY <2>1, <2>2
<1>5. CASE uartSleep
  BY <1>5 DEF uartSleep
<1>6. CASE ReadLine
  BY <1>6, LinesAreRead DEF ReadLine
<1>7. CASE ReadNothing \/ ReadEnd
  BY <1>7 DEF ReadNothing, ReadEnd, Leave
<1>8. CASE ReadNoMemory
  <2>1. tty' \in Seq(Line)
    BY <1>8, TailOfQueue DEF ReadNoMemory
  <2> QED
    BY <1>0, <1>8, <2>1 DEF ReadNoMemory, Leave
<1>9. CASE uartDisconnect
  BY <1>0, <1>9 DEF uartDisconnect
<1>10. CASE Collect
  BY <1>10 DEF Collect
<1>11. CASE DeviceLine
  BY <1>11, LinesGo DEF DeviceLine
<1>12. CASE UNCHANGED uartVars
  BY <1>12 DEF uartVars
<1> QED
  BY <1>1, <1>2, <1>3, <1>4, <1>5, <1>6, <1>7, <1>8, <1>9, <1>10, <1>11, <1>12
     DEF UartNext, Call

-----------------------------------------------------------------------------
(* QueuesAt.                                                               *)

LEMMA QueuesInit == UartInit => QueuesAt
<1>1. UartInit => tty = <<>> /\ wire = <<>> /\ open = FALSE /\ upc = "idle"
  BY DEF UartInit
<1>2. <<>> \in Seq(UpToNow)
  BY EmptySeq
<1> QED
  BY <1>1, <1>2 DEF QueuesAt

\* A step that leaves the number of the command alone leaves the sets of lines
\* alone.
LEMMA SameSets ==
  ASSUME asks' = asks
  PROVE  UpToNow' = UpToNow /\ Before' = Before /\ Present' = Present
BY DEF UpToNow, Before, Present

LEMMA SetsOfLines ==
  ASSUME UartTypes
  PROVE  /\ Before \subseteq UpToNow /\ Present \subseteq UpToNow
         /\ UpToNow \subseteq Line
         /\ \A i \in Nat : <<asks, i>> \in Present
<1>1. asks \in Nat
  BY DEF UartTypes
<1>2. ASSUME NEW l \in Before PROVE l \in UpToNow
  <2>1. l \in Line /\ l[1] \in Nat /\ l[1] < asks
    BY DEF Before, Line
  <2>2. l[1] <= asks
    BY <1>1, <2>1
  <2> QED
    BY <2>1, <2>2 DEF UpToNow
<1>3. ASSUME NEW l \in Present PROVE l \in UpToNow
  <2>1. l \in Line /\ l[1] = asks
    BY DEF Present
  <2>2. l[1] <= asks
    BY <1>1, <2>1
  <2> QED
    BY <2>1, <2>2 DEF UpToNow
<1> QED
  BY <1>1, <1>2, <1>3 DEF UpToNow, Present, Line

LEMMA QueuesStep ==
  ASSUME UartTypes, QueuesAt, [UartNext]_uartVars
  PROVE  QueuesAt'
<1> USE DEF QueuesAt
<1>0. UartTypes'
  BY UartTypesStep
<1>t. asks \in Nat /\ asks' \in Nat
  BY <1>0 DEF UartTypes
<1>e. \A S : <<>> \in Seq(S)
  BY EmptySeq
<1>s. Before \subseteq UpToNow
  BY SetsOfLines
<1>1. ASSUME NEW c \in Commands, Ask(c) PROVE QueuesAt'
  <2>1. /\ upc = "idle" /\ upc' = "connect" /\ asks' = asks + 1 /\ buffer' = <<>>
        /\ UNCHANGED <<open, tty, wire>>
    BY <1>1 DEF Ask
  <2>2. UpToNow \subseteq Before'
    <3> SUFFICES ASSUME NEW l \in UpToNow PROVE l \in Before'
      OBVIOUS
    <3>1. l \in Line /\ l[1] \in Nat /\ l[1] <= asks
      BY DEF UpToNow, Line
    <3>2. l[1] < asks'
      BY <1>t, <2>1, <3>1
    <3> QED
      BY <3>1, <3>2 DEF Before
  <2>3. tty' \in Seq(Before') /\ wire' \in Seq(Before')
    BY <2>1, <2>2, SeqMonotonic
  <2>4. UpToNow \subseteq UpToNow'
    <3> SUFFICES ASSUME NEW l \in UpToNow PROVE l \in UpToNow'
      OBVIOUS
    <3>1. l \in Line /\ l[1] \in Nat /\ l[1] <= asks
      BY DEF UpToNow, Line
    <3>2. l[1] <= asks'
      BY <1>t, <2>1, <3>1
    <3> QED
      BY <3>1, <3>2 DEF UpToNow
  <2>5. tty' \in Seq(UpToNow') /\ wire' \in Seq(UpToNow')
    BY <2>1, <2>4, SeqMonotonic
  <2>6. asks' > 0
    BY <1>t, <2>1
  <2> QED
    BY <2>1, <2>3, <2>5, <2>6
<1>2. CASE uartConnect
  BY <1>2, SameSets DEF uartConnect
<1>3. CASE uartBaudrate
  <2>1. asks' = asks /\ upc = "baud" /\ upc' = "write" /\ UNCHANGED <<open, buffer, wire>>
        /\ tty' = IF open THEN <<>> ELSE tty
    BY <1>3 DEF uartBaudrate
  <2> QED
    BY <1>e, <2>1, SameSets
<1>4. CASE uartWrite
  <2>1. /\ asks' = asks /\ upc = "write" /\ upc' = "sleep"
        /\ UNCHANGED <<open, buffer, tty>>
    BY <1>4 DEF uartWrite
  <2>2. wire' \in Seq(UpToNow) /\ (~open => wire' = wire)
    <3>1. CASE wire' = wire
      BY <3>1
    <3>2. ASSUME NEW n \in Nat, wire' = wire \o [i \in 1 .. n |-> <<asks, i>>]
          PROVE  wire' \in Seq(UpToNow)
      <4>1. [i \in 1 .. n |-> <<asks, i>>] \in Seq(UpToNow)
        BY <1>t, AnswerIsASeq, SetsOfLines
      <4> QED
        BY <3>2, <4>1, ConcatProperties
    <3> QED
      BY <1>4, <3>1, <3>2, WriteAnswers
  <2> QED
    BY <2>1, <2>2, SameSets
<1>5. CASE uartSleep
  BY <1>5, SameSets DEF uartSleep
<1>6. CASE ReadLine
  <2>1. asks' = asks /\ upc = "read" /\ upc' = "read" /\ open /\ UNCHANGED <<open, wire>>
        /\ tty # <<>> /\ tty' = Tail(tty)
    BY <1>6 DEF ReadLine
  <2>2. tty' \in Seq(UpToNow)
    BY <2>1, TailOfQueue
  <2> QED
    BY <2>1, <2>2, SameSets
<1>7. CASE ReadNothing \/ ReadEnd
  BY <1>7, SameSets DEF ReadNothing, ReadEnd, Leave
<1>8. CASE ReadNoMemory
  <2>1. asks' = asks /\ upc' = "close" /\ upc = "read" /\ open /\ UNCHANGED <<open, wire>>
        /\ tty # <<>> /\ tty' = Tail(tty)
    BY <1>8 DEF ReadNoMemory, Leave
  <2>2. tty' \in Seq(UpToNow)
    BY <2>1, TailOfQueue
  <2> QED
    BY <2>1, <2>2, SameSets
<1>9. CASE uartDisconnect
  BY <1>e, <1>9, SameSets DEF uartDisconnect
<1>10. CASE Collect
  BY <1>10, SameSets DEF Collect
<1>11. CASE DeviceLine
  <2>1. /\ wire # <<>> /\ tty' = IF open THEN Append(tty, Head(wire)) ELSE tty
        /\ UNCHANGED <<upc, open, buffer, asks>>
    BY <1>11 DEF DeviceLine
  <2>2. tty' \in Seq(UpToNow) /\ wire' \in Seq(UpToNow)
    BY <1>11, LinesGo
  <2>3. upc \in {"connect", "baud", "write"} => tty' \in Seq(Before) /\ wire' \in Seq(Before)
    BY <1>11, LinesGo
  <2>4. wire \in Seq(Before) => wire' \in Seq(Before)
    BY <1>11, <2>1, TailOfQueue DEF DeviceLine
  <2> QED
    BY <2>1, <2>2, <2>3, <2>4, SameSets
<1>12. CASE UNCHANGED uartVars
  BY <1>12, SameSets DEF uartVars
<1> QED
  BY <1>1, <1>2, <1>3, <1>4, <1>5, <1>6, <1>7, <1>8, <1>9, <1>10, <1>11, <1>12
     DEF UartNext, Call

-----------------------------------------------------------------------------
(* FlushAt.                                                                *)

\* Between the flush and the return every line is of the present command, or of
\* one the device owed an answer for.
FlushAt ==
  /\ upc = "write" => tty \in Seq(Owed) /\ wire \in Seq(Owed)
  /\ upc \in {"sleep", "read"} =>
       buffer \in Seq(Recent) /\ tty \in Seq(Recent) /\ wire \in Seq(Recent)
  /\ upc \in {"close", "done", "idle"} => buffer = NoString \/ buffer \in Seq(Recent)

LEMMA FlushInit == UartInit => FlushAt
<1>1. UartInit => upc = "idle" /\ buffer = <<>>
  BY DEF UartInit
<1>2. <<>> \in Seq(Recent)
  BY EmptySeq
<1> QED
  BY <1>1, <1>2 DEF FlushAt

LEMMA SameDebts ==
  ASSUME asks' = asks, overdue' = overdue
  PROVE  Owed' = Owed /\ Recent' = Recent
BY DEF Owed, Recent

LEMMA FlushStep ==
  ASSUME UartTypes, QueuesAt, FlushAt, [UartNext]_uartVars
  PROVE  FlushAt'
<1> USE DEF FlushAt
<1>t. asks \in Nat /\ buffer \in Seq(Line) /\ tty \in Seq(Line) /\ wire \in Seq(Line)
  BY DEF UartTypes
<1>e. \A S : <<>> \in Seq(S)
  BY EmptySeq
<1>s. Owed \subseteq Recent
  BY DEF Owed, Recent
<1>1. ASSUME NEW c \in Commands, Ask(c) PROVE FlushAt'
  BY <1>1 DEF Ask
<1>2. CASE uartConnect
  BY <1>2 DEF uartConnect
<1>3. CASE uartBaudrate
  <2>1. /\ upc = "baud" /\ upc' = "write" /\ UNCHANGED <<open, wire>>
        /\ tty' = (IF open THEN <<>> ELSE tty) /\ overdue' = Owners(wire)
    BY <1>3 DEF uartBaudrate
  <2>2. tty' = <<>>
    BY <2>1 DEF QueuesAt
  <2>3. ASSUME NEW p \in 1 .. Len(wire) PROVE wire[p] \in Owed'
    <3>1. wire[p] \in Line
      BY <1>t, ElementOfSeq
    <3>2. DOMAIN wire = 1 .. Len(wire)
      BY <1>t, LenProperties
    <3>3. wire[p][1] \in Owners(wire)
      BY <3>2 DEF Owners, Range
    <3> QED
      BY <2>1, <3>1, <3>3 DEF Owed
  <2>4. wire' \in Seq(Owed')
    BY <1>t, <2>1, <2>3, SeqInto
  <2> QED
    BY <1>e, <2>1, <2>2, <2>4
<1>4. CASE uartWrite
  <2>1. /\ upc = "write" /\ upc' = "sleep"
        /\ UNCHANGED <<buffer, tty, asks, overdue>>
    BY <1>4 DEF uartWrite
  <2>2. buffer' \in Seq(Recent) /\ tty' \in Seq(Recent) /\ wire \in Seq(Recent)
    BY <1>e, <1>s, <2>1, SeqMonotonic DEF QueuesAt
  <2>3. wire' \in Seq(Recent)
    <3>1. CASE wire' = wire
      BY <2>2, <3>1
    <3>2. ASSUME NEW n \in Nat, wire' = wire \o [i \in 1 .. n |-> <<asks, i>>]
          PROVE  wire' \in Seq(Recent)
      <4>1. \A i \in 1 .. n : <<asks, i>> \in Recent
        BY <1>t DEF Recent, Line
      <4>2. [i \in 1 .. n |-> <<asks, i>>] \in Seq(Recent)
        BY <1>t, <4>1, AnswerIsASeq
      <4> QED
        BY <2>2, <3>2, <4>2, ConcatProperties
    <3> QED
      BY <1>4, <3>1, <3>2, WriteAnswers
  <2> QED
    BY <2>1, <2>2, <2>3, SameDebts
<1>5. CASE uartSleep
  BY <1>5, SameDebts DEF uartSleep
<1>6. CASE ReadLine
  <2>1. upc = "read" /\ UNCHANGED <<upc, wire, asks, overdue>>
    BY <1>6 DEF ReadLine
  <2>2. tty' \in Seq(Recent) /\ buffer' \in Seq(Recent)
    BY <1>6, <2>1, LinesAreRead
  <2> QED
    BY <2>1, <2>2, SameDebts
<1>7. CASE ReadNothing \/ ReadEnd
  BY <1>7, SameDebts DEF ReadNothing, ReadEnd, Leave
<1>8. CASE ReadNoMemory
  BY <1>8 DEF ReadNoMemory, Leave
<1>9. CASE uartDisconnect
  BY <1>9, SameDebts DEF uartDisconnect
<1>10. CASE Collect
  BY <1>10, SameDebts DEF Collect
<1>11. CASE DeviceLine
  <2>1. UNCHANGED <<upc, buffer, asks, overdue>>
    BY <1>11 DEF DeviceLine
  <2>2. \A S : tty \in Seq(S) /\ wire \in Seq(S) => tty' \in Seq(S) /\ wire' \in Seq(S)
    BY <1>11, LinesGo
  <2> QED
    BY <2>1, <2>2, SameDebts
<1>12. CASE UNCHANGED uartVars
  BY <1>12, SameDebts DEF uartVars
<1> QED
  BY <1>1, <1>2, <1>3, <1>4, <1>5, <1>6, <1>7, <1>8, <1>9, <1>10, <1>11, <1>12
     DEF UartNext, Call

-----------------------------------------------------------------------------
(* StreamAt.                                                               *)

\* What has been read, received and is still to come of the present answer is
\* its first lines in order, after all others.
StreamAt ==
  /\ upc \in {"sleep", "read"} => Runs(buffer \o (tty \o wire), asks)
  /\ upc \in {"close", "done", "idle"} => Runs(buffer, asks)

LEMMA StreamInit == UartInit => StreamAt
<1>1. UartInit => upc = "idle" /\ buffer = <<>>
  BY DEF UartInit
<1>2. Len(<<>>) = 0
  OBVIOUS
<1>3. RunsFrom(<<>>, asks, 0)
  BY <1>2 DEF RunsFrom
<1>4. Runs(<<>>, asks)
  BY <1>3 DEF Runs
<1> QED
  BY <1>1, <1>4 DEF StreamAt

LEMMA StreamStep ==
  ASSUME UartTypes, QueuesAt, StreamAt, [UartNext]_uartVars
  PROVE  StreamAt'
<1> USE DEF StreamAt
<1>t. asks \in Nat /\ buffer \in Seq(Line) /\ tty \in Seq(Line) /\ wire \in Seq(Line)
  BY DEF UartTypes
<1>c. tty \o wire \in Seq(Line)
  BY <1>t, ConcatProperties
<1>o. \A l \in Before : l[1] # asks
  BY <1>t DEF Before, Line
<1>1. ASSUME NEW c \in Commands, Ask(c) PROVE StreamAt'
  BY <1>1 DEF Ask
<1>2. CASE uartConnect
  BY <1>2 DEF uartConnect
<1>3. CASE uartBaudrate
  BY <1>3 DEF uartBaudrate
<1>4. CASE uartWrite
  <2>1. /\ upc = "write" /\ upc' = "sleep"
        /\ UNCHANGED <<buffer, tty, asks>>
    BY <1>4 DEF uartWrite
  <2>2. buffer = <<>> /\ tty \in Seq(Before) /\ wire \in Seq(Before)
    BY <2>1 DEF QueuesAt
  <2>3. tty \o wire \in Seq(Before)
    BY <2>2, ConcatProperties
  <2>4. Runs(tty \o wire', asks) /\ tty \o wire' \in Seq(Line)
    <3>1. CASE wire' = wire
      BY <1>c, <1>o, <2>3, <3>1, RunsOfOthers
    <3>2. ASSUME NEW n \in Nat, wire' = wire \o [i \in 1 .. n |-> <<asks, i>>]
          PROVE  Runs(tty \o wire', asks) /\ tty \o wire' \in Seq(Line)
      <4> DEFINE a == [i \in 1 .. n |-> <<asks, i>>]
      <4>1. a \in Seq(Line)
        BY <1>t, AnswerIsASeq DEF Line
      <4>2. Runs((tty \o wire) \o a, asks)
        BY <1>t, <2>3, RunsOfAnswer DEF Before
      <4>3. wire' = wire \o a
        BY <3>2
      <4> HIDE DEF a
      <4>4. tty \o (wire \o a) = (tty \o wire) \o a
        BY <1>t, <4>1, Regroup
      <4>5. (tty \o wire) \o a \in Seq(Line)
        BY <1>c, <4>1, ConcatProperties
      <4> QED
        BY <4>2, <4>3, <4>4, <4>5
    <3> QED
      BY <1>4, <3>1, <3>2, WriteAnswers
  <2>5. <<>> \o (tty \o wire') = tty \o wire'
    BY <2>4, ConcatEmptySeq
  <2> QED
    BY <2>1, <2>2, <2>4, <2>5
<1>5. CASE uartSleep
  BY <1>5 DEF uartSleep
<1>6. CASE ReadLine
  <2>1. /\ upc = "read" /\ UNCHANGED <<upc, wire, asks>>
        /\ tty # <<>> /\ tty' = Tail(tty) /\ buffer' = Append(buffer, Head(tty))
    BY <1>6 DEF ReadLine
  <2> DEFINE b == Append(buffer, Head(tty))
             t == Tail(tty)
  <2>2. b \in Seq(Line) /\ t \in Seq(Line) /\ b \o t = buffer \o tty
    BY <1>t, <2>1, HeadMoves
  <2>3. b \o (t \o wire) = (b \o t) \o wire
    <3> HIDE DEF b, t
    <3> QED
      BY <1>t, <2>2, Regroup
  <2>4. buffer \o (tty \o wire) = (buffer \o tty) \o wire
    BY <1>t, Regroup
  <2> QED
    BY <2>1, <2>2, <2>3, <2>4
<1>7. CASE ReadNothing \/ ReadEnd
  <2>1. upc = "read" /\ upc' = "close" /\ UNCHANGED <<buffer, asks>>
    BY <1>7 DEF ReadNothing, ReadEnd, Leave
  <2>2. Runs(buffer, asks)
    BY <1>t, <1>c, <2>1, RunsPrefix
  <2> QED
    BY <2>1, <2>2
<1>8. CASE ReadNoMemory
  <2>1. upc = "read" /\ upc' = "close" /\ buffer' = NoString /\ UNCHANGED asks
    BY <1>8 DEF ReadNoMemory, Leave
  <2>2. asks # 0
    BY <2>1 DEF QueuesAt
  <2>3. NoString \in Seq({<<0, 0>>})
    BY DEF NoString
  <2>4. Runs(NoString, asks)
    BY <2>2, <2>3, RunsOfOthers
  <2> QED
    BY <2>1, <2>4
<1>9. CASE uartDisconnect
  BY <1>9 DEF uartDisconnect
<1>10. CASE Collect
  BY <1>10 DEF Collect
<1>11. CASE DeviceLine
  <2>1. /\ UNCHANGED <<upc, open, buffer, asks>> /\ wire # <<>> /\ wire' = Tail(wire)
        /\ tty' = IF open THEN Append(tty, Head(wire)) ELSE tty
    BY <1>11 DEF DeviceLine
  <2>2. CASE open
    <3>1. tty' \o wire' = tty \o wire
      BY <1>t, <2>1, <2>2, HeadMoves
    <3> QED
      BY <2>1, <3>1
  <2>3. CASE ~open /\ upc \in {"sleep", "read"}
    <3>1. tty' = <<>> /\ buffer' = <<>> /\ wire \in Seq(Before)
      BY <2>1, <2>3 DEF QueuesAt
    <3>2. wire' \in Seq(Before)
      BY <2>1, <3>1, TailOfQueue
    <3>3. tty' \o wire' = wire' /\ buffer' \o (tty' \o wire') = wire'
      BY <3>1, <3>2, ConcatEmptySeq
    <3>4. Runs(wire', asks)
      BY <1>o, <3>2, RunsOfOthers
    <3> QED
      BY <2>1, <2>3, <3>3, <3>4
  <2>4. CASE upc \notin {"sleep", "read"}
    BY <2>1, <2>4
  <2> QED
    BY <2>2, <2>3, <2>4
<1>12. CASE UNCHANGED uartVars
  BY <1>12 DEF uartVars
<1> QED
  BY <1>1, <1>2, <1>3, <1>4, <1>5, <1>6, <1>7, <1>8, <1>9, <1>10, <1>11, <1>12
     DEF UartNext, Call

-----------------------------------------------------------------------------
(* HealthyAt.                                                              *)

\* When nothing fails and the device is prompt: the line is quiet but between
\* write and read; there is an answer, all of it to the present command.
HealthyAt ==
  healthy =>
    /\ upc \in {"idle", "connect", "baud", "write", "read", "close", "done"} => wire = <<>>
    /\ upc \in {"baud", "write", "sleep", "read", "close"} => open
    /\ upc = "write" => tty = <<>>
    /\ upc \in {"sleep", "read"} =>
         /\ buffer # <<>> \/ tty # <<>> \/ wire # <<>>
         /\ buffer \in Seq(Present) /\ tty \in Seq(Present) /\ wire \in Seq(Present)
    /\ upc \in {"close", "done", "idle"} /\ asks > 0 =>
         buffer # <<>> /\ buffer \in Seq(Present)

LEMMA HealthyInit == UartInit => HealthyAt
<1> SUFFICES ASSUME UartInit PROVE HealthyAt
  OBVIOUS
<1>1. upc = "idle" /\ wire = <<>> /\ asks = 0
  BY DEF UartInit
<1>2. ~(asks > 0)
  BY <1>1
<1> QED
  BY <1>1, <1>2 DEF HealthyAt

LEMMA HealthyStep ==
  ASSUME UartTypes, QueuesAt, HealthyAt, [UartNext]_uartVars
  PROVE  HealthyAt'
<1> SUFFICES ASSUME healthy' PROVE HealthyAt'
  BY DEF HealthyAt
<1>h. healthy
  <2>1. healthy' = healthy
    BY DEF UartNext, Call, Ask, uartConnect, uartBaudrate, uartWrite, uartSleep, ReadLine,
           ReadNothing, ReadEnd, ReadNoMemory, Leave, uartDisconnect, Collect, DeviceLine,
           uartVars
  <2> QED
    BY <2>1
<1>f. \A call : ~MayFail(call)
  BY <1>h DEF MayFail
<1> USE <1>h DEF HealthyAt
<1>t. asks \in Nat /\ buffer \in Seq(Line) /\ tty \in Seq(Line) /\ wire \in Seq(Line)
  BY DEF UartTypes
<1>e. \A S : <<>> \in Seq(S)
  BY EmptySeq
<1>1. ASSUME NEW c \in Commands, Ask(c) PROVE HealthyAt'
  BY <1>1 DEF Ask
<1>2. CASE uartConnect
  BY <1>2, <1>f DEF uartConnect
<1>3. CASE uartBaudrate
  BY <1>3 DEF uartBaudrate
<1>4. CASE uartWrite
  <2>1. /\ upc = "write" /\ upc' = "sleep" /\ open' = open
        /\ UNCHANGED <<buffer, tty, asks>>
    BY <1>4 DEF uartWrite
  <2>2. open /\ wire = <<>> /\ tty = <<>> /\ buffer = <<>>
    BY <2>1 DEF QueuesAt
  <2>3. PICK n \in Nat : n > 0 /\ wire' = wire \o [i \in 1 .. n |-> <<asks, i>>]
    BY <1>4, <2>2, WriteAnswers
  <2> DEFINE a == [i \in 1 .. n |-> <<asks, i>>]
  <2>4. \A i \in 1 .. n : <<asks, i>> \in Present
    BY <1>t DEF Present, Line
  <2>5. a \in Seq(Present) /\ Len(a) = n
    BY <1>t, <2>4, AnswerIsASeq
  <2> HIDE DEF a
  <2>6. <<>> \o a = a
    BY <2>5, ConcatEmptySeq
  <2>7. wire' = a
    BY <2>2, <2>3, <2>6 DEF a
  <2>8. Len(<<>>) = 0
    OBVIOUS
  <2>9. a # <<>>
    BY <2>3, <2>5, <2>8
  <2> QED
    BY <1>e, <2>1, <2>2, <2>5, <2>7, <2>9, SameSets
<1>5. CASE uartSleep
  BY <1>5, SameSets DEF uartSleep
<1>6. CASE ReadLine
  <2>1. /\ upc = "read" /\ UNCHANGED <<upc, open, wire, asks>> /\ tty # <<>>
        /\ buffer' = Append(buffer, Head(tty))
    BY <1>6 DEF ReadLine
  <2>2. tty' \in Seq(Present) /\ buffer' \in Seq(Present)
    BY <1>6, <2>1, LinesAreRead
  <2>3. buffer' # <<>>
    <3>1. Head(tty) \in Line
      BY <1>t, <2>1, HeadTailProperties
    <3> QED
      BY <1>t, <2>1, <3>1, AppendProperties
  <2> QED
    BY <2>1, <2>2, <2>3, SameSets
<1>7. CASE ReadNothing
  <2>1. /\ upc = "read" /\ upc' = "close" /\ UNCHANGED <<open, buffer, wire, asks>>
        /\ tty = <<>> \/ ~open
    BY <1>7 DEF ReadNothing, Leave
  <2> QED
    BY <2>1, SameSets
<1>8. ~ReadEnd /\ ~ReadNoMemory
  BY <1>f DEF ReadEnd, ReadNoMemory
<1>9. CASE uartDisconnect
  BY <1>9, SameSets DEF uartDisconnect
<1>10. CASE Collect
  BY <1>10, SameSets DEF Collect
<1>11. CASE DeviceLine
  <2>1. /\ UNCHANGED <<upc, open, buffer, asks>> /\ wire # <<>>
        /\ tty' = IF open THEN Append(tty, Head(wire)) ELSE tty
    BY <1>11 DEF DeviceLine
  <2>2. upc = "sleep" /\ open
    BY <2>1 DEF UartTypes
  <2>3. tty' \in Seq(Present) /\ wire' \in Seq(Present)
    BY <1>11, <2>2, LinesGo
  <2>4. tty' # <<>>
    <3>1. Head(wire) \in Line
      BY <1>t, <2>1, HeadTailProperties
    <3> QED
      BY <1>t, <2>1, <2>2, <3>1, AppendProperties
  <2> QED
    BY <2>1, <2>2, <2>3, <2>4, SameSets
<1>12. CASE UNCHANGED uartVars
  BY <1>12, SameSets DEF uartVars
<1> QED
  BY <1>1, <1>2, <1>3, <1>4, <1>5, <1>6, <1>7, <1>8, <1>9, <1>10, <1>11, <1>12
     DEF UartNext, Call

-----------------------------------------------------------------------------
(* The static buffer, and what is written of it.                           *)

LEMMA LeastOf ==
  ASSUME NEW S, S \subseteq Nat, S # {}
  PROVE  Min(S) \in S /\ \A y \in S : Min(S) =< y
<1> DEFINE T == {0 .. n : n \in S}
<1>1. T \subseteq FiniteSubsetsOf(Nat)
  <2> SUFFICES ASSUME NEW n \in S PROVE 0 .. n \subseteq Nat /\ IsFiniteSet(0 .. n)
    BY DEF FiniteSubsetsOf
  <2> QED
    BY FS_Interval
<1>2. T # {}
  OBVIOUS
<1>3. PICK t \in T : \A u \in T : ~(<<u, t>> \in StrictSubsetOrdering(Nat))
  <2> HIDE DEF T
  <2>1. IsWellFoundedOn(StrictSubsetOrdering(Nat), FiniteSubsetsOf(Nat))
    BY FS_StrictSubsetOrderingWellFounded
  <2> QED
    BY <1>1, <1>2, <2>1, WFMin
<1>4. PICK x \in S : t = 0 .. x
  OBVIOUS
<1>5. ASSUME NEW y \in S PROVE x =< y
  <2> SUFFICES ASSUME y < x PROVE FALSE
    OBVIOUS
  <2>1. 0 .. y \in SUBSET Nat /\ 0 .. x \in SUBSET Nat
    OBVIOUS
  <2>2. 0 .. y \subseteq 0 .. x /\ 0 .. y # 0 .. x
    <3>1. x \in 0 .. x /\ x \notin 0 .. y
      OBVIOUS
    <3> QED
      BY <3>1
  <2>3. <<0 .. y, 0 .. x>> \in StrictSubsetOrdering(Nat)
    BY <2>1, <2>2 DEF StrictSubsetOrdering
  <2> QED
    BY <1>3, <1>4, <2>3
<1>6. \E z \in S : \A y \in S : z =< y
  BY <1>5
<1> QED
  BY <1>6 DEF Min

\* No command has reached past the cells its line feed and carriage return are in.
CellsAt ==
  \A i \in 1 .. BufSize : (\A c \in done : i > Length[c] + 2) => s1[i] = NUL

LEMMA CellsInit == UartInit => CellsAt
BY DEF UartInit, CellsAt

\* The cells after a command, its line feed and its carriage return.
LEMMA CellsOf ==
  ASSUME NEW c \in Commands
  PROVE  /\ Length[c] \in Nat /\ BufSize \in Nat /\ Length[c] + 3 <= BufSize
         /\ \A i \in 1 .. Length[c] : Filled(c)[i] = <<c, i>> /\ Filled(c)[i] # NUL
         /\ Filled(c)[Length[c] + 1] = LF /\ LF # NUL
         /\ Filled(c)[Length[c] + 2] = CR /\ CR # NUL
         /\ \A i \in Length[c] + 3 .. BufSize : Filled(c)[i] = s1[i]
<1>1. Length[c] \in Nat /\ BufSize \in Nat /\ Length[c] + 3 <= BufSize
  BY UartAssumption
<1> DEFINE n == Length[c]
<1>2. ASSUME NEW i \in 1 .. n PROVE Filled(c)[i] = <<c, i>> /\ Filled(c)[i] # NUL
  <2>1. i \in 1 .. BufSize /\ i <= n /\ i # 0
    BY <1>1
  <2>2. Filled(c)[i] = Text(c)[i] /\ Text(c)[i] = <<c, i>>
    BY <2>1 DEF Filled, Text
  <2> QED
    BY <2>1, <2>2 DEF NUL
<1>3. n + 1 \in 1 .. BufSize /\ n + 2 \in 1 .. BufSize
      /\ ~(n + 1 <= n) /\ ~(n + 2 <= n) /\ n + 2 # n + 1
  BY <1>1
<1>4. Filled(c)[n + 1] = LF
  BY <1>3 DEF Filled
<1>5. Filled(c)[n + 2] = CR
  BY <1>3 DEF Filled
<1>6. ASSUME NEW i \in n + 3 .. BufSize PROVE Filled(c)[i] = s1[i]
  <2>1. i \in 1 .. BufSize /\ ~(i <= n) /\ i # n + 1 /\ i # n + 2
    BY <1>1
  <2> QED
    BY <2>1 DEF Filled
<1>7. LF # NUL /\ CR # NUL
  BY DEF LF, CR, NUL
<1> QED
  BY <1>1, <1>2, <1>4, <1>5, <1>6, <1>7

\* The first zero byte is after the carriage return, and right after it when no
\* longer command came before.
LEMMA EndOfText ==
  ASSUME UartTypes, CellsAt
  PROVE  LET n == Length[cmd]
             end == Min({i \in 1 .. BufSize : Filled(cmd)[i] = NUL})
         IN /\ end \in n + 3 .. BufSize
            /\ (\A c \in done : Length[c] <= n) => end = n + 3
<1> DEFINE n == Length[cmd]
           Zeros == {i \in 1 .. BufSize : Filled(cmd)[i] = NUL}
           end == Min(Zeros)
<1>c. cmd \in Commands /\ done \subseteq Commands
  BY DEF UartTypes
<1>n. n \in Nat /\ BufSize \in Nat /\ n + 3 <= BufSize
  BY <1>c, CellsOf
<1>1. ASSUME NEW i \in Zeros PROVE i \in n + 3 .. BufSize
  <2>1. i \in 1 .. BufSize /\ Filled(cmd)[i] = NUL
    OBVIOUS
  <2>2. i \notin 1 .. n /\ i # n + 1 /\ i # n + 2
    BY <1>c, <2>1, CellsOf
  <2> QED
    BY <1>n, <2>1, <2>2
<1>2. ASSUME NEW i \in n + 3 .. BufSize, \A c \in done : i > Length[c] + 2
      PROVE  i \in Zeros
  <2>1. i \in 1 .. BufSize
    BY <1>n
  <2>2. s1[i] = NUL
    BY <1>2, <2>1 DEF CellsAt
  <2> QED
    BY <1>c, <2>1, <2>2, CellsOf
<1>3. BufSize \in Zeros
  <2>1. ASSUME NEW c \in done PROVE BufSize > Length[c] + 2
    <3>1. Length[c] \in Nat /\ Length[c] + 3 <= BufSize
      BY <1>c, CellsOf
    <3> QED
      BY <1>n, <3>1
  <2>2. BufSize \in n + 3 .. BufSize
    BY <1>n
  <2> QED
    BY <1>2, <2>1, <2>2
<1>4. end \in Zeros /\ \A y \in Zeros : end =< y
  <2>1. Zeros \subseteq Nat
    OBVIOUS
  <2> HIDE DEF Zeros
  <2> QED
    BY <1>3, <2>1, LeastOf
<1>5. ASSUME \A c \in done : Length[c] <= n PROVE end = n + 3
  <2>1. ASSUME NEW c \in done PROVE n + 3 > Length[c] + 2
    <3>1. Length[c] \in Nat /\ Length[c] <= n
      BY <1>c, <1>5, CellsOf
    <3> QED
      BY <1>n, <3>1
  <2>2. n + 3 \in n + 3 .. BufSize
    BY <1>n
  <2>3. n + 3 \in Zeros
    BY <1>2, <2>1, <2>2
  <2>4. end =< n + 3 /\ end \in n + 3 .. BufSize
    BY <1>1, <1>4, <2>3
  <2> HIDE DEF end
  <2> QED
    BY <1>n, <2>4
<1> QED
  BY <1>1, <1>4, <1>5

LEMMA CellsStep ==
  ASSUME UartTypes, CellsAt, [UartNext]_uartVars
  PROVE  CellsAt'
<1>1. CASE uartWrite
  <2>1. s1' = Filled(cmd) /\ done' = done \cup {cmd}
    BY <1>1 DEF uartWrite
  <2>2. cmd \in Commands
    BY DEF UartTypes
  <2>3. ASSUME NEW i \in 1 .. BufSize, \A c \in done' : i > Length[c] + 2
        PROVE  s1'[i] = NUL
    <3>1. i > Length[cmd] + 2 /\ \A c \in done : i > Length[c] + 2
      BY <2>1, <2>3
    <3>2. i \in Length[cmd] + 3 .. BufSize
      <4>1. Length[cmd] \in Nat /\ BufSize \in Nat
        BY <2>2, CellsOf
      <4> QED
        BY <3>1, <4>1
    <3>3. Filled(cmd)[i] = s1[i]
      BY <2>2, <3>2, CellsOf
    <3> QED
      BY <2>1, <3>1, <3>3 DEF CellsAt
  <2> QED
    BY <2>3 DEF CellsAt
<1>2. CASE UNCHANGED <<s1, done>>
  BY <1>2 DEF CellsAt
<1>3. UNCHANGED <<s1, done>> \/ uartWrite
  BY DEF UartNext, Call, Ask, uartConnect, uartBaudrate, uartSleep, ReadLine,
         ReadNothing, ReadEnd, ReadNoMemory, Leave, uartDisconnect, Collect, DeviceLine,
         uartVars
<1> QED
  BY <1>1, <1>2, <1>3

LEMMA SentInit == UartInit => CommandIsSentWhole
BY DEF UartInit, CommandIsSentWhole

LEMMA SentStep ==
  ASSUME UartTypes, CellsAt, CommandIsSentWhole, [UartNext]_uartVars
  PROVE  CommandIsSentWhole'
<1>1. CASE uartWrite
  <2> DEFINE n == Length[cmd]
             s == Filled(cmd)
             end == Min({i \in 1 .. BufSize : s[i] = NUL})
             Cells == {s[i] : i \in 1 .. BufSize}
             said == Text(cmd) \o <<LF, CR>>
  <2>0. cmd \in Commands /\ cmd' = cmd /\ done' = done \cup {cmd}
    BY <1>1 DEF uartWrite, UartTypes
  <2>n. n \in Nat /\ BufSize \in Nat /\ n + 3 <= BufSize
    BY <2>0, CellsOf
  <2>1. sent' = <<>> \/ sent' = SubSeq(s, 1, end - 1)
    BY <1>1 DEF uartWrite
  <2>2. end \in n + 3 .. BufSize /\ ((\A c \in done : Length[c] <= n) => end = n + 3)
    BY EndOfText
  <2> HIDE DEF end
  <2>3. CASE sent' = SubSeq(s, 1, end - 1)
    <3>1. \A i \in 1 .. end - 1 : s[i] \in Cells
      BY <2>n, <2>2
    <3>2. /\ sent' \in Seq(Cells) /\ Len(sent') = end - 1
          /\ \A i \in 1 .. end - 1 : sent'[i] = s[i]
      <4> HIDE DEF Cells, s
      <4>1. 1 \in Int /\ end - 1 \in Int /\ 1 <= end - 1
            /\ (end - 1) - 1 + 1 = end - 1
            /\ \A i \in 1 .. end - 1 : 1 + i - 1 = i
        BY <2>n, <2>2
      <4>2. /\ sent' \in Seq(Cells) /\ Len(sent') = (end - 1) - 1 + 1
            /\ \A i \in 1 .. (end - 1) - 1 + 1 : sent'[i] = s[1 + i - 1]
        BY <2>3, <3>1, <4>1, SubSeqProperties
      <4> QED
        BY <4>1, <4>2
    <3>3. Len(sent') >= n + 2 /\ n + 2 <= end - 1
      BY <2>n, <2>2, <3>2
    <3>4. SubSeq(sent', 1, n + 2) = said
      <4>1. /\ SubSeq(sent', 1, n + 2) \in Seq(Cells)
            /\ Len(SubSeq(sent', 1, n + 2)) = n + 2
            /\ \A i \in 1 .. n + 2 : SubSeq(sent', 1, n + 2)[i] = s[i]
        <5> HIDE DEF Cells, s
        <5>1. 1 \in Int /\ n + 2 \in Int /\ 1 <= n + 2
              /\ (n + 2) - 1 + 1 = n + 2
              /\ \A i \in 1 .. n + 2 : 1 + i - 1 = i /\ i \in 1 .. end - 1
          BY <2>n, <2>2
        <5>2. \A i \in 1 .. n + 2 : sent'[i] \in Cells
          BY <3>1, <3>2, <5>1
        <5> HIDE DEF n
        <5>3. /\ SubSeq(sent', 1, n + 2) \in Seq(Cells)
              /\ Len(SubSeq(sent', 1, n + 2)) = (n + 2) - 1 + 1
              /\ \A i \in 1 .. (n + 2) - 1 + 1 : SubSeq(sent', 1, n + 2)[i] = sent'[1 + i - 1]
          BY <5>1, <5>2, SubSeqProperties
        <5> QED
          BY <3>2, <5>1, <5>3
      <4>2. /\ said \in Seq(Cells) /\ Len(said) = n + 2
            /\ \A i \in 1 .. n + 2 : said[i] = s[i]
        <5>1. /\ (\A i \in 1 .. n : s[i] = <<cmd, i>>) /\ s[n + 1] = LF /\ s[n + 2] = CR
          BY <2>0, CellsOf
        <5>2. LF \in Cells /\ CR \in Cells /\ \A i \in 1 .. n : <<cmd, i>> \in Cells
          <6>1. n + 1 \in 1 .. BufSize /\ n + 2 \in 1 .. BufSize /\ 1 .. n \subseteq 1 .. BufSize
            BY <2>n
          <6> QED
            BY <5>1, <6>1
        <5> HIDE DEF Cells, s
        <5>3. Text(cmd) \in Seq(Cells) /\ Len(Text(cmd)) = n
              /\ \A i \in 1 .. n : Text(cmd)[i] = <<cmd, i>>
          <6>1. Text(cmd) \in [1 .. n -> Cells]
            BY <5>2 DEF Text
          <6>2. Text(cmd) \in Seq(Cells)
            BY <2>n, <6>1, SeqDef
          <6>3. Len(Text(cmd)) \in Nat /\ 1 .. Len(Text(cmd)) = 1 .. n
            BY <6>1, <6>2, LenProperties
          <6>4. Len(Text(cmd)) = n
            BY <2>n, <6>3, SameInterval
          <6> QED
            BY <6>2, <6>4 DEF Text
        <5>4. <<LF, CR>> \in Seq(Cells) /\ Len(<<LF, CR>>) = 2
              /\ <<LF, CR>>[1] = LF /\ <<LF, CR>>[2] = CR
          BY <5>2
        <5>5. said \in Seq(Cells) /\ Len(said) = n + 2
              /\ \A i \in 1 .. n + 2 :
                   said[i] = IF i <= n THEN Text(cmd)[i] ELSE <<LF, CR>>[i - n]
          BY <5>3, <5>4, ConcatProperties
        <5>6. ASSUME NEW i \in 1 .. n + 2 PROVE said[i] = s[i]
          <6>1. i \in 1 .. n \/ i = n + 1 \/ i = n + 2
            BY <2>n
          <6>2. (n + 1) - n = 1 /\ (n + 2) - n = 2 /\ ~(n + 1 <= n) /\ ~(n + 2 <= n)
            BY <2>n
          <6>3. CASE i \in 1 .. n
            <7>1. i <= n
              BY <2>n, <6>3
            <7> QED
              BY <5>1, <5>3, <5>5, <6>3, <7>1
          <6>4. CASE i = n + 1
            BY <5>1, <5>4, <5>5, <6>2, <6>4
          <6>5. CASE i = n + 2
            BY <5>1, <5>4, <5>5, <6>2, <6>5
          <6> QED
            BY <6>1, <6>3, <6>4, <6>5
        <5> QED
          BY <5>5, <5>6
      <4> HIDE DEF said, s, Cells, n
      <4> QED
        BY <4>1, <4>2, SeqEqual
    <3>5. (\A c \in done' : Length[c] <= n) => Len(sent') = n + 2
      BY <2>0, <2>n, <2>2, <3>2
    <3> QED
      BY <2>0, <3>3, <3>4, <3>5 DEF CommandIsSentWhole
  <2>4. CASE sent' = <<>>
    BY <2>4 DEF CommandIsSentWhole
  <2> QED
    BY <2>1, <2>3, <2>4
<1>2. CASE UNCHANGED <<sent, cmd, done>>
           /\ (upc' \in {"sleep", "read", "close", "done"} =>
                 upc \in {"sleep", "read", "close", "done"})
  BY <1>2 DEF CommandIsSentWhole
<1>3. CASE upc' = "connect"
  BY <1>3 DEF CommandIsSentWhole
<1>4. \/ uartWrite \/ upc' = "connect"
      \/ /\ UNCHANGED <<sent, cmd, done>>
         /\ upc' \in {"sleep", "read", "close", "done"} =>
              upc \in {"sleep", "read", "close", "done"}
  BY DEF UartNext, Call, Ask, uartConnect, uartBaudrate, uartSleep, ReadLine,
         ReadNothing, ReadEnd, ReadNoMemory, Leave, uartDisconnect, Collect, DeviceLine,
         uartVars
<1> QED
  BY <1>1, <1>2, <1>3, <1>4

-----------------------------------------------------------------------------
(* The port keeps its promises to whoever uses it so.                      *)

UartInv ==
  /\ UartTypes /\ QueuesAt /\ FlushAt /\ StreamAt /\ HealthyAt
  /\ CellsAt /\ CommandIsSentWhole

LEMMA UartInvInit == UartInit => UartInv
BY UartTypesInit, QueuesInit, FlushInit, StreamInit, HealthyInit, CellsInit, SentInit
   DEF UartInv

LEMMA UartInvStep == UartInv /\ [UartNext]_uartVars => UartInv'
BY UartTypesStep, QueuesStep, FlushStep, StreamStep, HealthyStep, CellsStep, SentStep
   DEF UartInv

LEMMA OwnersAre ==
  ASSUME NEW S, NEW K, \A l \in S : l[1] \in K, NEW s \in Seq(S)
  PROVE  Owners(s) \subseteq K
<1>1. DOMAIN s = 1 .. Len(s) /\ \A p \in 1 .. Len(s) : s[p] \in S
  BY LenProperties, ElementOfSeq
<1> QED
  BY <1>1 DEF Owners, Range

LEMMA UartInvGives ==
  ASSUME UartInv
  PROVE  AnswerIsItsOwn /\ CommandIsSentWhole
<1> USE DEF UartInv
<1>t. /\ asks \in Nat /\ buffer \in Seq(Line)
      /\ upc \in {"idle", "connect", "baud", "write", "sleep", "read", "close", "done"}
  BY DEF UartTypes
<1>1. NoStaleAnswer
  <2> SUFFICES ASSUME buffer # NoString
      PROVE  Owners(buffer) \subseteq {asks} \cup overdue
    BY DEF NoStaleAnswer
  <2>1. buffer \in Seq(Recent)
    <3>1. <<>> \in Seq(Recent)
      BY EmptySeq
    <3> QED
      BY <1>t, <3>1 DEF FlushAt, QueuesAt
  <2>2. \A l \in Recent : l[1] \in {asks} \cup overdue
    BY DEF Recent
  <2> QED
    BY <2>1, <2>2, OwnersAre
<1>2. AnswerIsAPrefix
  <2>1. Runs(buffer, asks)
    <3>1. CASE upc \in {"sleep", "read"}
      BY <1>t, <3>1, ConcatProperties, RunsPrefix DEF StreamAt, UartTypes
    <3>2. CASE upc \in {"close", "done", "idle"}
      BY <3>2 DEF StreamAt
    <3>3. CASE upc \in {"connect", "baud", "write"}
      <4>1. buffer = <<>> /\ Len(<<>>) = 0
        BY <3>3 DEF QueuesAt
      <4>2. RunsFrom(buffer, asks, 0)
        BY <4>1 DEF RunsFrom
      <4> QED
        BY <4>2 DEF Runs
    <3> QED
      BY <1>t, <3>1, <3>2, <3>3
  <2> QED
    BY <1>t, <2>1, RunsCount DEF AnswerIsAPrefix
<1> QED
  BY <1>1, <1>2 DEF AnswerIsItsOwn

\* On a healthy port the answer the caller took is the one to its command.
LEMMA HealthyAnswer ==
  ASSUME UartInv, healthy, upc = "idle", asks > 0
  PROVE  buffer # NoString /\ Owners(buffer) = {asks}
<1>1. asks \in Nat /\ buffer # <<>> /\ buffer \in Seq(Present)
  BY DEF UartInv, UartTypes, HealthyAt
<1>2. \A l \in Present : l[1] \in {asks}
  BY DEF Present
<1>3. Owners(buffer) \subseteq {asks}
  BY <1>1, <1>2, OwnersAre
<1>4. 1 \in DOMAIN buffer /\ buffer[1] \in Present
  <2>1. Len(buffer) \in Nat \ {0} /\ DOMAIN buffer = 1 .. Len(buffer)
    BY <1>1, EmptySeq, LenProperties
  <2>2. 1 \in 1 .. Len(buffer)
    BY <2>1
  <2> QED
    BY <1>1, <2>1, <2>2, ElementOfSeq
<1>5. asks \in Owners(buffer)
  BY <1>2, <1>4 DEF Owners, Range
<1>6. buffer # NoString
  <2>1. buffer[1][1] = asks
    BY <1>2, <1>4
  <2>2. NoString[1][1] = 0
    BY DEF NoString
  <2> QED
    BY <1>1, <2>1, <2>2
<1> QED
  BY <1>3, <1>5, <1>6

(***************************************************************************)
(* The server.                                                             *)
(***************************************************************************)

ServerTypes ==
  /\ spc \in {"select", "recv", "KVM", "PoChannel", "other", "blank", "uart", "reply"}
  /\ fault \in {"none", "overflow", "unset argument", "null", "dangling", "sigpipe"}
  /\ conn \in Clients \cup {None}
  /\ argc \in Nat /\ leaked \in Nat
  /\ first \in Requests \cup {None}
  /\ ret \in {"unset", "owned", "freed"}
  /\ backlog \in Seq(Clients)
  /\ cpc \in [Clients -> {"new", "connected", "waiting", "mute", "gone"}]
  /\ made \in [Clients -> Nat]
  /\ toServer \in [Clients -> Requests \cup {None, Empty}]
  /\ toClient \in [Clients -> Seq(Line) \cup {None}]
  /\ link \in [Clients -> {"none", "up", "fin", "rst"}]
  /\ number \in [Clients -> Nat]
  /\ transport \in {"tcp", "udp", "lossy"}

Handled == spc \in {"KVM", "PoChannel", "other", "blank", "uart", "reply"}

\* What the server does is for the request on conn, which stays there until it
\* is replied to; the port is in use at "uart" only; retString is owned when the
\* answer of the port is to be sent, and the answer is the last one.
RequestAt ==
  /\ (spc = "select") <=> (conn = None)
  /\ (spc # "uart") <=> (upc = "idle")
  /\ Handled => toServer[conn] \notin {None, Empty} /\ first # None
  /\ spc \in {"KVM", "PoChannel", "other", "blank"} => toServer[conn].kind = spc
  /\ spc = "uart" => toServer[conn].kind = "KVM"
  /\ spc \notin {"select", "reply"} => ret # "owned"
  /\ spc = "reply" => ((ret = "owned") <=> (toServer[conn].kind = "KVM"))
  /\ spc = "uart" => number[conn] = asks /\ asks > 0
  /\ spc = "reply" /\ ret = "owned" => number[conn] = asks /\ asks > 0
  /\ transport # "tcp" /\ spc = "recv" => fault # "none"

\* A request is on its way until its reply is; a client that is not in recv has
\* neither.  Over TCP no request is without a byte.
ClientAt ==
  \A c \in Clients :
    /\ toServer[c] # None =>
         made[c] > 0 /\ cpc[c] \in {"waiting", "mute", "gone"} /\ toClient[c] = None
    /\ toServer[c] = Empty => transport # "tcp" /\ cpc[c] # "waiting"
    /\ cpc[c] \in {"new", "connected"} => toServer[c] = None /\ toClient[c] = None

\* strArgc above zero and strArgv[0] that is set mean an earlier request: with
\* the next one on the connection there are two.
FaultAt ==
  /\ argc > 0 => first # None
  /\ conn # None /\ first # None => made[conn] >= 1
  /\ spc = "recv" /\ first # None /\ toServer[conn] # None /\ transport = "tcp" =>
       made[conn] >= 2
  /\ Handled => first = toServer[conn] \/ Further
  /\ FaultsHaveTheirCause

Distinct(s) == \A i, j \in 1 .. Len(s) : s[i] = s[j] => i = j

\* A connection is accepted or in the backlog once, and only one that was made;
\* over UDP there is none.
LinkAt ==
  /\ transport # "tcp" => leaked = 0 /\ backlog = <<>>
  /\ \A c \in Clients :
       /\ transport = "tcp" /\ cpc[c] = "new" =>
            c # conn /\ c \notin Range(backlog) /\ link[c] = "none"
       /\ transport = "tcp" /\ cpc[c] # "new" => link[c] # "none"
       /\ transport = "tcp" /\ cpc[c] = "waiting" => link[c] = "up"
  /\ conn \notin Range(backlog)
  /\ Distinct(backlog)

\* Clients that reset a connection which is neither accepted nor in the backlog.
Away == {c \in Clients : link[c] = "rst" /\ c # conn /\ c \notin Range(backlog)}
LeakAt == leaked <= Cardinality(Away)

\* Whoever waits in the backlog has its request on the connection; over UDP,
\* without losses, whoever waits has its request or its reply on the way.
WaitAt ==
  /\ transport = "tcp" =>
       \A c \in Range(backlog) : cpc[c] = "waiting" => toServer[c] # None
  /\ MutualWaitOnlyOnSilence
  /\ transport = "udp" =>
       \A c \in Clients : cpc[c] = "waiting" => toServer[c] # None \/ toClient[c] # None

KvmInv ==
  /\ ServerTypes /\ RequestAt /\ ClientAt /\ FaultAt /\ LinkAt /\ LeakAt /\ WaitAt
  /\ AnswersItsRequest

-----------------------------------------------------------------------------
(* Requests, the backlog, and the connections that were reset.             *)

LEMMA RequestsAre ==
  ASSUME NEW r \in Requests
  PROVE  /\ r.kind \in {"KVM", "PoChannel", "other", "blank"}
         /\ r.arg \in Commands \cup {NoArg}
         /\ Tokens(r) \in Nat
         /\ Tokens(r) = 0 <=> r.kind = "blank"
<1>1. /\ r.kind \in {"KVM", "PoChannel", "other", "blank"}
      /\ r.arg \in Commands \cup {NoArg} /\ r.more \in Nat
  <2>1. ASSUME r \in [kind : Kinds \ {"blank", "empty"}, arg : Arguments \ {NoArg}, more : Extras]
        PROVE  r.kind \in Kinds \ {"empty"} /\ r.arg \in Arguments /\ r.more \in Nat
    BY <2>1, KvmAssumption
  <2>2. ASSUME r \in [kind : Kinds \ {"blank", "empty"}, arg : Arguments \cap {NoArg}, more : {0}]
        PROVE  r.kind \in Kinds \ {"empty"} /\ r.arg \in Arguments /\ r.more \in Nat
    BY <2>2
  <2>3. ASSUME r \in [kind : Kinds \cap {"blank"}, arg : {NoArg}, more : {0}]
        PROVE  r.kind \in Kinds \ {"empty"} /\ r.arg = NoArg /\ r.more \in Nat
    BY <2>3
  <2> QED
    BY <2>1, <2>2, <2>3, KvmAssumption DEF Requests
<1>2. 2 + r.more \in Nat /\ 2 + r.more # 0
  BY <1>1
<1> QED
  BY <1>1, <1>2 DEF Tokens

LEMMA NoneIsNothing ==
  /\ None \notin Clients /\ None \notin Requests /\ None # Empty /\ None \notin Seq(Line)
  /\ Empty \notin Requests
<1>1. Empty \notin Requests
  BY RequestsAre DEF Empty
<1> QED
  BY <1>1, KvmAssumption, NoneAssumption DEF Line

LEMMA Taken ==
  ASSUME KvmInv
  PROVE  /\ spc # "select" => conn \in Clients
         /\ Handled => conn \in Clients /\ toServer[conn] \in Requests /\ first \in Requests
         /\ \A c \in Clients : toServer[c] \in Requests \cup {None, Empty}
BY DEF KvmInv, ServerTypes, RequestAt, Handled

LEMMA HeadOfBacklog ==
  ASSUME NEW s \in Seq(Clients), s # <<>>, Distinct(s)
  PROVE  /\ Head(s) \in Clients /\ Head(s) \in Range(s)
         /\ Tail(s) \in Seq(Clients) /\ Distinct(Tail(s))
         /\ Range(Tail(s)) = Range(s) \ {Head(s)}
<1>1. /\ Head(s) \in Clients /\ Tail(s) \in Seq(Clients) /\ Len(Tail(s)) = Len(s) - 1
      /\ \A i \in 1 .. Len(Tail(s)) : Tail(s)[i] = s[i + 1]
  BY HeadTailProperties
<1>2. Len(s) \in Nat /\ Len(s) >= 1 /\ Head(s) = s[1]
  <2>1. Len(s) \in Nat \ {0}
    BY EmptySeq
  <2> QED
    BY <2>1
<1>3. DOMAIN s = 1 .. Len(s) /\ DOMAIN Tail(s) = 1 .. Len(Tail(s))
  BY <1>1, LenProperties
<1>4. \A i \in 1 .. Len(Tail(s)) : i + 1 \in 1 .. Len(s) /\ i + 1 # 1
  BY <1>1, <1>2
<1>5. \A i \in 1 .. Len(s) : i # 1 => i - 1 \in 1 .. Len(Tail(s)) /\ (i - 1) + 1 = i
  BY <1>1, <1>2
<1>6. 1 \in 1 .. Len(s)
  BY <1>2
<1>7. Head(s) \in Range(s)
  BY <1>2, <1>3, <1>6 DEF Range
<1>8. Distinct(Tail(s))
  <2> SUFFICES ASSUME NEW i \in 1 .. Len(Tail(s)), NEW j \in 1 .. Len(Tail(s)),
                      Tail(s)[i] = Tail(s)[j]
      PROVE  i = j
    BY DEF Distinct
  <2>1. s[i + 1] = s[j + 1]
    BY <1>1
  <2>2. i + 1 = j + 1
    BY <1>4, <2>1 DEF Distinct
  <2> QED
    BY <2>2
<1>9. ASSUME NEW x \in Range(Tail(s)) PROVE x \in Range(s) /\ x # Head(s)
  <2>1. PICK i \in 1 .. Len(Tail(s)) : x = Tail(s)[i]
    BY <1>3 DEF Range
  <2>2. x = s[i + 1]
    BY <1>1, <2>1
  <2> QED
    BY <1>2, <1>3, <1>4, <1>6, <2>2 DEF Distinct, Range
<1>10. ASSUME NEW x \in Range(s), x # Head(s) PROVE x \in Range(Tail(s))
  <2>1. PICK i \in 1 .. Len(s) : x = s[i]
    BY <1>3 DEF Range
  <2>2. i # 1
    BY <1>2, <1>10, <2>1
  <2>3. x = Tail(s)[i - 1] /\ i - 1 \in 1 .. Len(Tail(s))
    BY <1>1, <1>5, <2>1, <2>2
  <2> QED
    BY <1>3, <2>3 DEF Range
<1> QED
  BY <1>1, <1>7, <1>8, <1>9, <1>10

LEMMA LongerBacklog ==
  ASSUME NEW s \in Seq(Clients), NEW c \in Clients, c \notin Range(s), Distinct(s)
  PROVE  /\ Append(s, c) \in Seq(Clients) /\ Distinct(Append(s, c))
         /\ Range(Append(s, c)) = Range(s) \cup {c}
<1> DEFINE t == Append(s, c)
<1>1. /\ t \in Seq(Clients) /\ Len(t) = Len(s) + 1
      /\ \A i \in 1 .. Len(s) : t[i] = s[i]
      /\ t[Len(s) + 1] = c
  BY AppendProperties
<1>2. Len(s) \in Nat /\ DOMAIN s = 1 .. Len(s) /\ DOMAIN t = 1 .. Len(t)
  BY <1>1, LenProperties
<1> HIDE DEF t
<1>3. \A i \in 1 .. Len(t) : i \in 1 .. Len(s) \/ i = Len(s) + 1
  BY <1>1, <1>2
<1>4. Len(s) + 1 \in 1 .. Len(t) /\ 1 .. Len(s) \subseteq 1 .. Len(t)
  BY <1>1, <1>2
<1>5. \A i \in 1 .. Len(s) : s[i] # c
  BY <1>2 DEF Range
<1>6. Distinct(t)
  BY <1>1, <1>3, <1>5 DEF Distinct
<1>7. Range(t) = Range(s) \cup {c}
  BY <1>1, <1>2, <1>3, <1>4 DEF Range
<1> QED
  BY <1>1, <1>6, <1>7 DEF t

LEMMA EmptyBacklog == Range(<<>>) = {}
BY DEF Range

LEMMA AwayIsFinite == IsFiniteSet(Away) /\ Cardinality(Away) \in Nat
<1>1. Away \in SUBSET Clients
  BY DEF Away
<1>2. IsFiniteSet(Away)
  BY <1>1, KvmAssumption, FS_Subset
<1> QED
  BY <1>2, FS_CardinalityType

LEMMA NothingLost == leaked' = 0 => LeakAt'
<1>1. Away' \in SUBSET Clients
  BY DEF Away
<1>2. IsFiniteSet(Away')
  BY <1>1, KvmAssumption, FS_Subset
<1>3. Cardinality(Away') \in Nat
  BY <1>2, FS_CardinalityType
<1>4. 0 <= Cardinality(Away')
  BY <1>3
<1> QED
  BY <1>4 DEF LeakAt

\* No descriptor is lost and nobody that reset a connection is forgotten; or one
\* is, with one more reset connection.
LEMMA LeakKept ==
  ASSUME ServerTypes, LeakAt,
         \/ leaked' = leaked /\ Away \subseteq Away'
         \/ /\ leaked' = leaked + 1
            /\ \E c \in Clients : c \notin Away /\ c \in Away' /\ Away \subseteq Away'
  PROVE  LeakAt'
<1>1. leaked \in Nat /\ leaked <= Cardinality(Away)
  BY DEF ServerTypes, LeakAt
<1>2. IsFiniteSet(Away) /\ Cardinality(Away) \in Nat
  BY AwayIsFinite
<1>3. IsFiniteSet(Away') /\ Cardinality(Away') \in Nat
  <2>1. Away' \in SUBSET Clients
    BY DEF Away
  <2>2. IsFiniteSet(Away')
    BY <2>1, KvmAssumption, FS_Subset
  <2> QED
    BY <2>2, FS_CardinalityType
<1>4. CASE leaked' = leaked /\ Away \subseteq Away'
  <2>1. Cardinality(Away) <= Cardinality(Away')
    BY <1>3, <1>4, FS_Subset
  <2> QED
    BY <1>1, <1>2, <1>3, <1>4, <2>1 DEF LeakAt
<1>5. ASSUME NEW c \in Clients, leaked' = leaked + 1,
             c \notin Away, c \in Away', Away \subseteq Away'
      PROVE  LeakAt'
  <2>1. Away \cup {c} \in SUBSET Away'
    BY <1>5
  <2>2. Cardinality(Away \cup {c}) <= Cardinality(Away')
    BY <1>3, <2>1, FS_Subset
  <2>3. Cardinality(Away \cup {c}) = Cardinality(Away) + 1
    BY <1>2, <1>5, FS_AddElement
  <2> QED
    BY <1>1, <1>2, <1>3, <1>5, <2>2, <2>3 DEF LeakAt
<1> QED
  BY <1>4, <1>5

\* The process ends, for a reason.
LEMMA KeptByFail ==
  ASSUME KvmInv, transport' = transport, NEW how, Fail(how), how # "none",
         FaultsHaveTheirCause',
         how \in {"overflow", "unset argument", "null", "dangling", "sigpipe"}
  PROVE  KvmInv'
<1> USE DEF KvmInv
<1>0. /\ fault' = how
      /\ UNCHANGED <<upc, cmd, asks, buffer, healthy, spc, conn, argc, first, ret, leaked,
                     cpc, made, backlog, toServer, toClient, link, number, transport>>
  BY DEF Fail, client, tcp, uartVars
<1>1. ServerTypes'
  BY <1>0 DEF ServerTypes
<1>2. RequestAt' /\ ClientAt'
  BY <1>0 DEF RequestAt, Handled, ClientAt
<1>3. FaultAt'
  BY <1>0 DEF FaultAt, Handled, Further
<1>4. LinkAt' /\ LeakAt'
  BY <1>0 DEF LinkAt, Distinct, LeakAt, Away
<1>5. WaitAt'
  BY <1>0 DEF WaitAt, MutualWaitOnlyOnSilence
<1>6. AnswersItsRequest'
  BY <1>0 DEF AnswersItsRequest, AsksWhatIsRequested, Further
<1> QED
  BY <1>1, <1>2, <1>3, <1>4, <1>5, <1>6

-----------------------------------------------------------------------------
(* The clients.                                                            *)

LEMMA KeptByConnect ==
  ASSUME KvmInv, fault = "none", transport = "tcp", transport' = transport,
         NEW c \in Clients, Connect(c)
  PROVE  KvmInv'
<1> USE DEF KvmInv
<1>0. /\ cpc[c] = "new" /\ cpc' = [cpc EXCEPT ![c] = "connected"]
      /\ link' = [link EXCEPT ![c] = "up"] /\ backlog' = Append(backlog, c)
      /\ UNCHANGED <<upc, cmd, asks, buffer, healthy, spc, fault, conn, argc, first, ret, leaked,
                     made, toServer, toClient, number, transport>>
  BY DEF Connect, server, uartVars
<1>b. /\ c \notin Range(backlog) /\ c # conn /\ link[c] = "none"
      /\ backlog' \in Seq(Clients) /\ Distinct(backlog')
      /\ Range(backlog') = Range(backlog) \cup {c}
  BY <1>0, LongerBacklog DEF LinkAt, ServerTypes
<1>1. ServerTypes'
  BY <1>0, <1>b DEF ServerTypes
<1>2. RequestAt'
  BY <1>0 DEF RequestAt, Handled
<1>3. ClientAt'
  BY <1>0 DEF ServerTypes, ClientAt
<1>4. FaultAt'
  BY <1>0 DEF FaultAt, FaultsHaveTheirCause, Further, Handled
<1>5. LinkAt'
  BY <1>0, <1>b DEF ServerTypes, LinkAt
<1>6. LeakAt'
  <2>1. Away \subseteq Away'
    BY <1>0, <1>b DEF ServerTypes, Away
  <2> QED
    BY <1>0, <2>1, LeakKept
<1>7. WaitAt'
  <2>1. cpc'[c] = "connected" /\ \A d \in Clients : d # c => cpc'[d] = cpc[d]
    BY <1>0 DEF ServerTypes
  <2>2. Range(backlog) \subseteq Clients
    BY RangeOfSeq DEF ServerTypes
  <2>3. spc = "recv" => conn \in Clients
    BY Taken
  <2> QED
    BY <1>0, <1>b, <2>1, <2>2, <2>3 DEF WaitAt, MutualWaitOnlyOnSilence
<1>8. AnswersItsRequest'
  BY <1>0 DEF AnswersItsRequest, AsksWhatIsRequested, Further
<1> QED
  BY <1>1, <1>2, <1>3, <1>4, <1>5, <1>6, <1>7, <1>8

\* Over a connection or in a datagram, with something to send or without.
LEMMA KeptBySend ==
  ASSUME KvmInv, fault = "none", transport' = transport, NEW c \in Clients,
         \/ transport = "tcp" /\ (Send(c) \/ SendNothing(c))
         \/ transport # "tcp" /\ (SendDatagram(c) \/ SendEmptyDatagram(c))
  PROVE  KvmInv'
<1> USE DEF KvmInv
<1>0. /\ cpc[c] \in {"new", "connected"}
      /\ made' = [made EXCEPT ![c] = @ + 1]
      /\ transport = "tcp" => link[c] = "up"
      /\ UNCHANGED <<upc, cmd, asks, buffer, healthy, spc, fault, conn, argc, first, ret, leaked,
                     backlog, toClient, link, number, transport>>
  BY DEF Send, SendNothing, SendDatagram, SendEmptyDatagram, server, tcp, uartVars
<1>w. \/ /\ cpc' = [cpc EXCEPT ![c] = "waiting"]
         /\ \E r \in Requests : toServer' = [toServer EXCEPT ![c] = r]
      \/ cpc' = [cpc EXCEPT ![c] = "mute"] /\ toServer' = toServer
      \/ /\ transport # "tcp" /\ cpc' = [cpc EXCEPT ![c] = "mute"]
         /\ toServer' = [toServer EXCEPT ![c] = Empty]
  BY DEF Send, SendNothing, SendDatagram, SendEmptyDatagram, tcp
<1>r. toServer[c] = None /\ toClient[c] = None /\ (Handled => conn # c)
  BY <1>0 DEF ClientAt, RequestAt
<1>s. /\ toServer'[c] \in Requests \cup {None, Empty}
      /\ toServer'[c] \in Requests => cpc'[c] = "waiting"
      /\ toServer'[c] \notin Requests => cpc'[c] = "mute"
      /\ toServer'[c] = Empty => transport # "tcp"
      /\ cpc' \in [Clients -> {"new", "connected", "waiting", "mute", "gone"}]
      /\ toServer' \in [Clients -> Requests \cup {None, Empty}]
      /\ \A d \in Clients : d # c => toServer'[d] = toServer[d] /\ cpc'[d] = cpc[d]
  <2>t. /\ toServer \in [Clients -> Requests \cup {None, Empty}]
        /\ cpc \in [Clients -> {"new", "connected", "waiting", "mute", "gone"}]
    BY DEF ServerTypes
  <2>1. ASSUME NEW r \in Requests, cpc' = [cpc EXCEPT ![c] = "waiting"],
               toServer' = [toServer EXCEPT ![c] = r]
        PROVE  /\ toServer'[c] \in Requests \cup {None, Empty}
               /\ toServer'[c] \in Requests => cpc'[c] = "waiting"
               /\ toServer'[c] \notin Requests => cpc'[c] = "mute"
               /\ toServer'[c] = Empty => transport # "tcp"
               /\ cpc' \in [Clients -> {"new", "connected", "waiting", "mute", "gone"}]
               /\ toServer' \in [Clients -> Requests \cup {None, Empty}]
               /\ \A d \in Clients : d # c => toServer'[d] = toServer[d] /\ cpc'[d] = cpc[d]
    <3>1. r # Empty /\ toServer'[c] = r /\ cpc'[c] = "waiting"
      BY <2>t, <2>1, NoneIsNothing
    <3> QED
      BY <2>t, <2>1, <3>1
  <2>2. CASE cpc' = [cpc EXCEPT ![c] = "mute"] /\ toServer' = toServer
    BY <2>t, <2>2, <1>r, NoneIsNothing
  <2>3. CASE /\ transport # "tcp" /\ cpc' = [cpc EXCEPT ![c] = "mute"]
             /\ toServer' = [toServer EXCEPT ![c] = Empty]
    BY <2>t, <2>3, NoneIsNothing
  <2> QED
    BY <1>w, <2>1, <2>2, <2>3
<1>m. /\ made' \in [Clients -> Nat]
      /\ made[c] \in Nat /\ made'[c] = made[c] + 1 /\ \A d \in Clients : d # c => made'[d] = made[d]
  BY <1>0 DEF ServerTypes
<1>n. made'[c] > 0
  BY <1>m
<1>1. ServerTypes'
  BY <1>0, <1>s, <1>m DEF ServerTypes
<1>2. RequestAt'
  BY <1>0, <1>r, <1>s, Taken DEF RequestAt, Handled
<1>3. ClientAt'
  BY <1>0, <1>r, <1>s, <1>n, NoneIsNothing DEF ClientAt
<1>4. FaultAt'
  <2>2. conn # None => conn \in Clients
    BY DEF ServerTypes
  <2>3. ASSUME conn \in Clients, made[conn] >= 1
        PROVE  made'[conn] >= 1 /\ (conn = c => made'[conn] >= 2)
    <3>1. CASE conn = c
      BY <1>m, <2>3, <3>1
    <3>2. CASE conn # c
      BY <1>m, <2>3, <3>2
    <3> QED
      BY <3>1, <3>2
  <2>4. ASSUME conn # c, conn \in Clients
        PROVE  toServer'[conn] = toServer[conn] /\ made'[conn] = made[conn]
    BY <1>m, <1>s, <2>4
  <2>5. conn # None /\ first # None => made[conn] >= 1
    BY DEF FaultAt
  <2>6. conn' # None /\ first' # None => made'[conn'] >= 1
    BY <1>0, <2>2, <2>3, <2>5
  <2>7. ASSUME spc' = "recv", first' # None, toServer'[conn'] # None, transport = "tcp"
        PROVE  made'[conn'] >= 2
    <3>1. conn \in Clients /\ conn # None /\ spc = "recv" /\ first # None
      BY <1>0, <2>7, Taken, NoneIsNothing
    <3>2. CASE conn = c
      BY <1>0, <2>3, <2>5, <3>1, <3>2
    <3>3. CASE conn # c
      <4>1. made[conn] >= 2
        BY <1>0, <2>4, <2>7, <3>1, <3>3 DEF FaultAt
      <4> QED
        BY <1>0, <2>4, <3>1, <3>3, <4>1
    <3> QED
      BY <3>2, <3>3
  <2>8. Handled' => (first = toServer[conn] \/ Further)'
    BY <1>0, <1>r, <2>4, Taken DEF FaultAt, Handled, Further
  <2>9. FaultsHaveTheirCause'
    BY <1>0 DEF FaultsHaveTheirCause
  <2> QED
    BY <1>0, <2>6, <2>7, <2>8, <2>9 DEF FaultAt
<1>5. LinkAt'
  BY <1>0, <1>s DEF LinkAt
<1>6. LeakAt'
  BY <1>0 DEF LeakAt, Away
<1>7. WaitAt'
  <2>1. Range(backlog) \subseteq Clients
    BY RangeOfSeq DEF ServerTypes
  <2>2. spc = "recv" => conn \in Clients
    BY Taken
  <2>3. cpc'[c] = "mute" \/ (cpc'[c] = "waiting" /\ toServer'[c] # None)
    BY <1>s, NoneIsNothing
  <2>4. MutualWaitOnlyOnSilence'
    BY <1>0, <1>s, <2>2, <2>3 DEF WaitAt, MutualWaitOnlyOnSilence
  <2> QED
    BY <1>0, <1>s, <2>1, <2>3, <2>4 DEF WaitAt
<1>8. AnswersItsRequest'
  BY <1>0, <1>r, <1>s, <1>m, Taken
     DEF Handled, AnswersItsRequest, AsksWhatIsRequested, Further
<1> QED
  BY <1>1, <1>2, <1>3, <1>4, <1>5, <1>6, <1>7, <1>8

LEMMA KeptByReceive ==
  ASSUME KvmInv, fault = "none", transport' = transport, NEW c \in Clients, Receive(c)
  PROVE  KvmInv'
<1> USE DEF KvmInv
<1>0. /\ cpc[c] = "waiting" /\ toClient[c] # None
      /\ cpc' = [cpc EXCEPT ![c] = "connected"] /\ toClient' = [toClient EXCEPT ![c] = None]
      /\ UNCHANGED <<upc, cmd, asks, buffer, healthy, spc, fault, conn, argc, first, ret, leaked,
                     backlog, made, toServer, link, number, transport>>
  BY DEF Receive, server, uartVars
<1>1. ServerTypes'
  BY <1>0 DEF ServerTypes
<1>2. RequestAt'
  BY <1>0 DEF RequestAt, Handled
<1>3. ClientAt'
  BY <1>0 DEF ServerTypes, ClientAt
<1>4. FaultAt'
  BY <1>0 DEF FaultAt, FaultsHaveTheirCause, Further, Handled
<1>5. LinkAt'
  BY <1>0 DEF ServerTypes, LinkAt
<1>6. LeakAt'
  BY <1>0 DEF LeakAt, Away
<1>7. WaitAt'
  BY <1>0 DEF ServerTypes, WaitAt, MutualWaitOnlyOnSilence
<1>8. AnswersItsRequest'
  BY <1>0 DEF ServerTypes, AnswersItsRequest, AsksWhatIsRequested, Further
<1> QED
  BY <1>1, <1>2, <1>3, <1>4, <1>5, <1>6, <1>7, <1>8

\* A client closes its connection, is killed with one, or is killed without.
LEMMA KeptByGoing ==
  ASSUME KvmInv, fault = "none", transport' = transport, NEW c \in Clients,
         Close(c) \/ (transport = "tcp" /\ Die(c)) \/ DieSilently(c)
  PROVE  KvmInv'
<1> USE DEF KvmInv
<1>0. /\ cpc[c] \in {"connected", "waiting", "mute"} /\ cpc' = [cpc EXCEPT ![c] = "gone"]
      /\ toClient' \in {toClient, [toClient EXCEPT ![c] = None]}
      /\ \E how \in {"fin", "rst"} :
           link' \in {link, [link EXCEPT ![c] = IF @ = "up" THEN how ELSE @]}
      /\ UNCHANGED <<upc, cmd, asks, buffer, healthy, spc, fault, conn, argc, first, ret, leaked,
                     backlog, made, toServer, number, transport>>
  BY DEF Close, Die, DieSilently, server, uartVars
<1>l. /\ link' \in [Clients -> {"none", "up", "fin", "rst"}]
      /\ \A d \in Clients : d # c => link'[d] = link[d]
      /\ link[c] = "rst" => link'[c] = "rst"
      /\ link[c] # "up" => link'[c] = link[c]
      /\ \A d \in Clients : link[d] # "none" => link'[d] # "none"
  BY <1>0 DEF ServerTypes
<1>1. ServerTypes'
  BY <1>0, <1>l DEF ServerTypes
<1>2. RequestAt'
  BY <1>0 DEF RequestAt, Handled
<1>3. ClientAt'
  BY <1>0 DEF ServerTypes, ClientAt
<1>4. FaultAt'
  <2>1. Handled => conn \in Clients /\ (Further => Further')
    BY <1>0, <1>l, Taken DEF Further
  <2> QED
    BY <1>0, <2>1 DEF FaultAt, FaultsHaveTheirCause, Handled
<1>5. LinkAt'
  BY <1>0, <1>l DEF ServerTypes, LinkAt
<1>6. LeakAt'
  <2>1. Away \subseteq Away'
    BY <1>0, <1>l DEF Away
  <2> QED
    BY <1>0, <2>1, LeakKept
<1>7. WaitAt'
  <2>1. /\ cpc'[c] = "gone"
        /\ \A d \in Clients : d # c => cpc'[d] = cpc[d] /\ toClient'[d] = toClient[d]
    BY <1>0 DEF ServerTypes
  <2>2. Range(backlog) \subseteq Clients
    BY RangeOfSeq DEF ServerTypes
  <2>3. spc = "recv" => conn \in Clients
    BY Taken
  <2> QED
    BY <1>0, <2>1, <2>2, <2>3 DEF WaitAt, MutualWaitOnlyOnSilence
<1>8. AnswersItsRequest'
  <2>1. \A d \in Clients : toClient'[d] \notin {None, Garbage} => toClient'[d] = toClient[d]
    BY <1>0 DEF ServerTypes
  <2>2. spc = "uart" /\ Further => Further'
    BY <1>0, <1>l, Taken DEF Further
  <2> QED
    BY <1>0, <2>1, <2>2 DEF AnswersItsRequest, AsksWhatIsRequested
<1> QED
  BY <1>1, <1>2, <1>3, <1>4, <1>5, <1>6, <1>7, <1>8

\* The network loses a datagram.
LEMMA KeptByLose ==
  ASSUME KvmInv, fault = "none", transport' = transport, NEW c \in Clients, Lose(c)
  PROVE  KvmInv'
<1> USE DEF KvmInv
<1>0. /\ transport = "lossy"
      /\ \/ conn # c /\ toServer' = [toServer EXCEPT ![c] = None] /\ toClient' = toClient
         \/ toClient' = [toClient EXCEPT ![c] = None] /\ toServer' = toServer
      /\ UNCHANGED <<upc, cmd, asks, buffer, healthy, spc, fault, conn, argc, first, ret, leaked,
                     cpc, made, backlog, link, number, transport>>
  BY DEF Lose, client, server, uartVars
<1>t. /\ \A d \in Clients : toServer'[d] = toServer[d] \/ toServer'[d] = None
      /\ \A d \in Clients : toClient'[d] = toClient[d] \/ toClient'[d] = None
      /\ conn \in Clients => toServer'[conn] = toServer[conn]
  BY <1>0 DEF ServerTypes
<1>1. ServerTypes'
  BY <1>0 DEF ServerTypes
<1>2. RequestAt'
  BY <1>0, <1>t, Taken DEF RequestAt, Handled
<1>3. ClientAt'
  BY <1>0, <1>t, NoneIsNothing DEF ClientAt
<1>4. FaultAt'
  <2>1. Handled => conn \in Clients
    BY Taken
  <2> QED
    BY <1>0, <1>t, <2>1 DEF FaultAt, FaultsHaveTheirCause, Handled, Further
<1>5. LinkAt'
  BY <1>0 DEF LinkAt
<1>6. LeakAt'
  BY <1>0 DEF LeakAt, Away
<1>7. WaitAt'
  <2>1. spc = "recv" => fault # "none"
    BY <1>0 DEF RequestAt
  <2> QED
    BY <1>0, <2>1 DEF WaitAt, MutualWaitOnlyOnSilence
<1>8. AnswersItsRequest'
  <2>1. spc = "uart" => conn \in Clients
    BY Taken
  <2> QED
    BY <1>0, <1>t, <2>1 DEF AnswersItsRequest, AsksWhatIsRequested, Further
<1> QED
  BY <1>1, <1>2, <1>3, <1>4, <1>5, <1>6, <1>7, <1>8

-----------------------------------------------------------------------------
(* The server, over TCP.                                                   *)

LEMMA KeptByAccept ==
  ASSUME KvmInv, fault = "none", transport = "tcp", transport' = transport, Accept
  PROVE  KvmInv'
<1> USE DEF KvmInv
<1>0. /\ spc = "select" /\ conn = None /\ backlog # <<>>
      /\ conn' = Head(backlog) /\ backlog' = Tail(backlog) /\ spc' = "recv"
      /\ argc' = 0 /\ first' = None /\ ret' = "unset"
      /\ UNCHANGED <<upc, cmd, asks, buffer, healthy, fault, leaked,
                     cpc, made, toServer, toClient, link, number, transport>>
  BY DEF Accept, client, uartVars, RequestAt
<1>b. /\ conn' \in Clients /\ conn' # None /\ conn' \in Range(backlog)
      /\ backlog' \in Seq(Clients) /\ Distinct(backlog')
      /\ Range(backlog') = Range(backlog) \ {conn'}
  BY <1>0, HeadOfBacklog, NoneIsNothing DEF LinkAt, ServerTypes
<1>1. ServerTypes'
  BY <1>0, <1>b DEF ServerTypes
<1>2. RequestAt'
  BY <1>0, <1>b DEF RequestAt, Handled
<1>3. ClientAt'
  BY <1>0 DEF ClientAt
<1>4. FaultAt'
  BY <1>0 DEF FaultAt, FaultsHaveTheirCause, Further, Handled
<1>5. LinkAt'
  BY <1>0, <1>b DEF LinkAt
<1>6. LeakAt'
  <2>1. Away \subseteq Away'
    BY <1>0, <1>b, NoneIsNothing DEF Away
  <2> QED
    BY <1>0, <2>1, LeakKept
<1>7. WaitAt'
  BY <1>0, <1>b DEF WaitAt, MutualWaitOnlyOnSilence
<1>8. AnswersItsRequest'
  BY <1>0 DEF AnswersItsRequest, AsksWhatIsRequested, Further
<1> QED
  BY <1>1, <1>2, <1>3, <1>4, <1>5, <1>6, <1>7, <1>8

\* The connection ends and is closed, or it is lost with its descriptor: in recv
\* or in send, after a reset.
LEMMA KeptByEnd ==
  ASSUME KvmInv, fault = "none", fault' = "none", transport = "tcp", transport' = transport,
         RecvEnd \/ RecvError \/ ReplyError
  PROVE  KvmInv'
<1> USE DEF KvmInv
<1>0. /\ spc \in {"recv", "reply"} /\ spc' = "select" /\ conn' = None
      /\ \/ link[conn] = "fin" /\ leaked' = leaked
         \/ link[conn] = "rst" /\ leaked' = leaked + 1
      /\ UNCHANGED <<upc, cmd, asks, buffer, healthy, argc, first, ret,
                     cpc, made, backlog, toServer, toClient, link, number, transport>>
  BY DEF RecvEnd, RecvError, ReplyError, Fail, client, tcp, uartVars
<1>c. conn \in Clients /\ conn # None
  BY <1>0, Taken, NoneIsNothing
<1>1. ServerTypes'
  BY <1>0 DEF ServerTypes
<1>2. RequestAt'
  BY <1>0 DEF RequestAt, Handled
<1>3. ClientAt'
  BY <1>0 DEF ClientAt
<1>4. FaultAt'
  BY <1>0 DEF FaultAt, FaultsHaveTheirCause, Further, Handled
<1>5. LinkAt'
  <2>1. None \notin Range(backlog)
    BY RangeOfSeq, NoneIsNothing DEF ServerTypes
  <2> QED
    BY <1>0, <2>1, NoneIsNothing DEF LinkAt
<1>6. LeakAt'
  <2>1. Away \subseteq Away' /\ conn \notin Away
    BY <1>0, NoneIsNothing DEF Away
  <2>2. link[conn] = "rst" => conn \in Away'
    BY <1>0, <1>c DEF Away, LinkAt
  <2>3. \/ leaked' = leaked
        \/ leaked' = leaked + 1 /\ conn \in Away'
    BY <1>0, <2>2
  <2> QED
    BY <1>c, <2>1, <2>3, LeakKept
<1>7. WaitAt'
  BY <1>0 DEF WaitAt, MutualWaitOnlyOnSilence
<1>8. AnswersItsRequest'
  BY <1>0 DEF AnswersItsRequest, AsksWhatIsRequested, Further
<1> QED
  BY <1>1, <1>2, <1>3, <1>4, <1>5, <1>6, <1>7, <1>8

LEMMA KeptByRecvRequest ==
  ASSUME KvmInv, fault = "none", transport = "tcp", transport' = transport, RecvRequest
  PROVE  KvmInv'
<1> USE DEF KvmInv
<1> DEFINE r == toServer[conn]
<1>0. spc = "recv" /\ r # None /\ conn \in Clients /\ conn # None /\ r \in Requests
  BY Taken, NoneIsNothing DEF RecvRequest, ClientAt
<1>r. /\ r.kind \in {"KVM", "PoChannel", "other", "blank"} /\ Tokens(r) \in Nat
      /\ Tokens(r) = 0 <=> r.kind = "blank"
      /\ argc \in Nat
  BY <1>0, RequestsAre DEF ServerTypes
<1>l. first # None => Further
  <2>1. link[conn] # "none"
    BY <1>0 DEF LinkAt, ClientAt
  <2> QED
    BY <1>0, <2>1 DEF FaultAt, Further
<1>f1. CASE Tokens(r) > 0 /\ argc + Tokens(r) + 1 > 5 /\ Fail("overflow")
  <2>1. Tokens(r) >= 5 \/ (argc > 0 /\ Tokens(r) >= 1)
    BY <1>r, <1>f1
  <2>2. Tokens(r) >= 5 \/ (Further /\ Tokens(r) >= 1)
    BY <1>l, <2>1 DEF FaultAt
  <2>3. FaultsHaveTheirCause'
    BY <1>f1, <2>2 DEF Fail, client, tcp, FaultsHaveTheirCause, Tokens, Further
  <2> QED
    BY <1>f1, <2>3, KeptByFail
<1>f2. CASE Tokens(r) = 0 /\ argc = 0 /\ Fail("unset argument")
  <2>1. r.kind = "blank"
    BY <1>r, <1>f2
  <2>2. FaultsHaveTheirCause'
    BY <1>f2, <2>1 DEF Fail, tcp, FaultsHaveTheirCause
  <2> QED
    BY <1>f2, <2>2, KeptByFail
<1>n. CASE /\ argc' = IF Tokens(r) > 0 THEN argc + Tokens(r) + 1 ELSE argc
           /\ first' = IF first = None THEN r ELSE first
           /\ spc' = r.kind
           /\ UNCHANGED <<uartVars, fault, conn, ret, leaked, client, tcp, number>>
  <2>0. UNCHANGED <<upc, cmd, asks, buffer, healthy, fault, conn, ret, leaked,
                    cpc, made, backlog, toServer, toClient, link, number, transport>>
    BY <1>n DEF client, tcp, uartVars
  <2>a. argc' \in Nat
    BY <1>n, <1>r
  <2>f. first' \in Requests /\ first' # None
    BY <1>0, <1>n, NoneIsNothing DEF ServerTypes
  <2>1. ServerTypes'
    BY <1>n, <1>r, <2>0, <2>a, <2>f DEF ServerTypes
  <2>2. RequestAt'
    BY <1>0, <1>n, <1>r, <2>0, <2>f, NoneIsNothing DEF RequestAt, Handled
  <2>3. ClientAt'
    BY <2>0 DEF ClientAt
  <2>4. FaultAt'
    <3>1. made[conn] \in Nat /\ made[conn] > 0
      BY <1>0 DEF ServerTypes, ClientAt
    <3>2. made[conn] >= 1
      BY <3>1
    <3>3. spc' # "recv"
      BY <1>n, <1>r
    <3>4. (first = toServer[conn] \/ Further)'
      BY <1>l, <1>n, <2>0 DEF Further
    <3> QED
      BY <2>0, <2>f, <3>2, <3>3, <3>4 DEF FaultAt, FaultsHaveTheirCause
  <2>5. LinkAt' /\ LeakAt'
    BY <2>0 DEF LinkAt, Distinct, LeakAt, Away
  <2>6. WaitAt'
    BY <1>n, <1>r, <2>0 DEF WaitAt, MutualWaitOnlyOnSilence
  <2>7. AnswersItsRequest'
    BY <1>n, <1>r, <2>0 DEF AnswersItsRequest, AsksWhatIsRequested
  <2> QED
    BY <2>1, <2>2, <2>3, <2>4, <2>5, <2>6, <2>7
<1> QED
  BY <1>f1, <1>f2, <1>n DEF RecvRequest

LEMMA KeptByReply ==
  ASSUME UartInv, KvmInv, fault = "none", transport = "tcp", transport' = transport, Reply
  PROVE  KvmInv'
<1> USE DEF KvmInv
<1>0. spc = "reply" /\ conn \in Clients /\ conn # None /\ toServer[conn] \in Requests
      /\ toServer[conn] # None
  BY Taken, NoneIsNothing DEF Reply, Handled
<1>f. CASE ret # "owned" /\ Fail("dangling")
  <2>1. toServer[conn].kind # "KVM"
    BY <1>0, <1>f DEF RequestAt
  <2>2. FaultsHaveTheirCause'
    BY <1>f, <2>1 DEF Fail, tcp, FaultsHaveTheirCause
  <2> QED
    BY <1>f, <2>2, KeptByFail
<1>n. CASE /\ link[conn] # "rst"
           /\ \E text \in ReplyText :
                toClient' = [toClient EXCEPT ![conn] =
                               IF text = Silence \/ link[conn] = "fin" THEN @ ELSE text]
           /\ toServer' = [toServer EXCEPT ![conn] = None]
           /\ ret' = (IF ret = "unset" THEN "unset" ELSE "freed")
           /\ spc' = "recv"
           /\ UNCHANGED <<uartVars, fault, conn, argc, first, leaked, client, backlog, link,
                          number>>
  <2>0. UNCHANGED <<upc, cmd, asks, buffer, healthy, fault, conn, argc, first, leaked,
                    cpc, made, backlog, link, number, transport>>
    BY <1>n DEF client, uartVars
  <2>t. PICK text \in ReplyText :
          toClient' = [toClient EXCEPT ![conn] =
                         IF text = Silence \/ link[conn] = "fin" THEN @ ELSE text]
    BY <1>n
  <2>o. (ret = "owned" /\ text = buffer) \/ text = Garbage
    BY <2>t DEF ReplyText
  <2>s. /\ toServer'[conn] = None
        /\ \A c \in Clients : c # conn => toServer'[c] = toServer[c] /\ toClient'[c] = toClient[c]
        /\ toClient'[conn] = IF text = Silence \/ link[conn] = "fin"
                             THEN toClient[conn] ELSE text
    BY <1>0, <1>n, <2>t DEF ServerTypes
  <2>b. text \in Seq(Line) /\ text # None
    <3>1. Garbage \in Seq(Line) /\ buffer \in Seq(Line)
      BY GarbageIsLine DEF UartInv, UartTypes
    <3> QED
      BY <2>o, <3>1, NoneIsNothing
  <2>1. ServerTypes'
    BY <1>n, <2>0, <2>t, <2>b DEF ServerTypes
  <2>2. RequestAt'
    BY <1>0, <1>n, <2>0 DEF RequestAt, Handled
  <2>3. ClientAt'
    BY <1>0, <2>0, <2>s, NoneIsNothing DEF ClientAt
  <2>4. FaultAt'
    BY <1>n, <2>0, <2>s DEF FaultAt, FaultsHaveTheirCause, Further, Handled
  <2>5. LinkAt' /\ LeakAt'
    BY <2>0 DEF LinkAt, Distinct, LeakAt, Away
  <2>6. WaitAt'
    <3>1. \A c \in Range(backlog) : c # conn /\ c \in Clients
      BY RangeOfSeq DEF ServerTypes, LinkAt
    <3>2. cpc[conn] = "waiting" => link[conn] # "fin"
      BY <1>0 DEF LinkAt
    <3>3. text = Silence => buffer = Silence /\ number[conn] = asks
      BY <1>0, <2>o, GarbageIsLine DEF RequestAt
    <3>4. MutualWaitOnlyOnSilence'
      BY <2>0, <2>s, <2>b, <3>2, <3>3 DEF MutualWaitOnlyOnSilence
    <3> QED
      BY <2>0, <2>s, <3>1, <3>4 DEF WaitAt
  <2>7. AnswersItsRequest'
    <3> SUFFICES ASSUME healthy, NEW c \in Clients, toClient'[c] \notin {None, Garbage}
        PROVE  Owners(toClient'[c]) = {number[c]}
      BY <1>n, <2>0 DEF AnswersItsRequest, AsksWhatIsRequested
    <3>1. CASE c # conn \/ toClient'[conn] = toClient[conn]
      BY <2>s, <3>1 DEF AnswersItsRequest
    <3>2. CASE c = conn /\ toClient'[conn] = text
      <4>0. ret = "owned" /\ text = buffer
        BY <2>o, <3>2
      <4>1. upc = "idle" /\ asks > 0 /\ number[conn] = asks
        BY <1>0, <4>0 DEF RequestAt
      <4> QED
        BY <3>2, <4>0, <4>1, HealthyAnswer
    <3> QED
      BY <2>s, <3>1, <3>2
  <2> QED
    BY <2>1, <2>2, <2>3, <2>4, <2>5, <2>6, <2>7
<1> QED
  BY <1>f, <1>n DEF Reply

\* SIGPIPE.
LEMMA KeptBySigpipe ==
  ASSUME KvmInv, fault = "none", transport' = transport, ReplyError, fault' # "none"
  PROVE  KvmInv'
<1>1. CASE link[conn] = "rst" /\ Fail("sigpipe")
  <2>1. FaultsHaveTheirCause'
    BY <1>1 DEF Fail, tcp, FaultsHaveTheirCause
  <2> QED
    BY <1>1, <2>1, KeptByFail
<1> QED
  BY <1>1 DEF ReplyError

-----------------------------------------------------------------------------
(* The server, over either.                                                *)

LEMMA AskedFor ==
  ASSUME KvmInv, spc = "KVM"
  PROVE  /\ conn \in Clients /\ toServer[conn] \in Requests /\ toServer[conn].kind = "KVM"
         /\ Argument(toServer[conn]) \in Commands \cup {NoArg}
         /\ Argument(toServer[conn]) = NoArg =>
              toServer[conn].arg = NoArg \/ first.arg = NoArg
         /\ Argument(toServer[conn]) # NoArg =>
              \/ Argument(toServer[conn]) = toServer[conn].arg
              \/ /\ Further
                 /\ toServer[conn].kind # first.kind \/ toServer[conn].arg = NoArg
<1>1. conn \in Clients /\ toServer[conn] \in Requests /\ first \in Requests
  BY Taken DEF Handled
<1>2. toServer[conn].arg \in Commands \cup {NoArg} /\ Junk \in Commands /\ Junk # NoArg
  BY <1>1, RequestsAre, KvmAssumption
<1>3. toServer[conn].kind = "KVM"
  BY DEF KvmInv, RequestAt
<1>4. first = toServer[conn] \/ Further
  BY DEF KvmInv, FaultAt, Handled
<1> QED
  BY <1>1, <1>2, <1>3, <1>4 DEF Argument

LEMMA KeptByKvmAsk ==
  ASSUME UartInv, KvmInv, fault = "none", transport' = transport, KvmAsk
  PROVE  KvmInv'
<1> USE DEF KvmInv
<1> DEFINE arg == Argument(toServer[conn])
<1>0. spc = "KVM" /\ conn \in Clients /\ conn # None /\ toServer[conn].kind = "KVM"
      /\ toServer[conn] # None /\ first # None
  BY AskedFor, NoneIsNothing DEF KvmAsk, RequestAt, Handled
<1>f. CASE arg = NoArg /\ Fail("null")
  <2>1. toServer[conn].arg = NoArg \/ first.arg = NoArg
    BY <1>0, <1>f, AskedFor
  <2>2. FaultsHaveTheirCause'
    BY <1>f, <2>1 DEF Fail, tcp, FaultsHaveTheirCause
  <2> QED
    BY <1>f, <2>2, KeptByFail
<1>n. CASE /\ arg # NoArg
           /\ Ask(arg)
           /\ number' = [number EXCEPT ![conn] = asks']
           /\ spc' = "uart"
           /\ UNCHANGED <<fault, conn, argc, first, ret, leaked, client, tcp>>
  <2>a. asks \in Nat
    BY DEF UartInv, UartTypes
  <2>0. /\ upc' = "connect" /\ asks' = asks + 1 /\ cmd' = arg
        /\ UNCHANGED <<healthy, fault, conn, argc, first, ret, leaked,
                       cpc, made, backlog, toServer, toClient, link, transport>>
    BY <1>n DEF Ask, client, tcp
  <2>b. asks' \in Nat /\ asks' > 0
    BY <2>a, <2>0
  <2>c. number' \in [Clients -> Nat] /\ number'[conn] = asks'
        /\ \A c \in Clients : c # conn => number'[c] = number[c]
    BY <1>0, <1>n, <2>b DEF ServerTypes
  <2>1. ServerTypes'
    BY <1>n, <2>0, <2>c DEF ServerTypes
  <2>2. RequestAt'
    BY <1>0, <1>n, <2>0, <2>b, <2>c DEF RequestAt, Handled
  <2>3. ClientAt'
    BY <2>0 DEF ClientAt
  <2>4. FaultAt'
    BY <1>0, <1>n, <2>0 DEF FaultAt, FaultsHaveTheirCause, Further, Handled
  <2>5. LinkAt' /\ LeakAt'
    BY <2>0 DEF LinkAt, Distinct, LeakAt, Away
  <2>6. WaitAt'
    BY <1>n, <2>0 DEF WaitAt, MutualWaitOnlyOnSilence
  <2>w. AsksWhatIsRequested'
    <3>1. \/ arg = toServer[conn].arg
          \/ Further /\ (toServer[conn].kind # first.kind \/ toServer[conn].arg = NoArg)
      BY <1>0, <1>n, AskedFor
    <3> QED
      BY <2>0, <3>1 DEF AsksWhatIsRequested, Further
  <2>7. AnswersItsRequest'
    <3> SUFFICES ASSUME healthy, NEW c \in Clients, toClient[c] \notin {None, Garbage}
        PROVE  Owners(toClient[c]) = {number'[c]}
      BY <2>0, <2>w DEF AnswersItsRequest
    <3>1. toClient[conn] = None
      BY <1>0 DEF ClientAt
    <3>2. number'[c] = number[c]
      BY <2>c, <3>1
    <3> QED
      BY <3>2 DEF AnswersItsRequest
  <2> QED
    BY <2>1, <2>2, <2>3, <2>4, <2>5, <2>6, <2>7
<1> QED
  BY <1>f, <1>n DEF KvmAsk

\* A step of the port's thread, or a line of the device.
LEMMA KeptByPort ==
  ASSUME UartInv, KvmInv, fault = "none", transport' = transport, Port \/ Device
  PROVE  KvmInv'
<1> USE DEF KvmInv
<1>0. UNCHANGED <<cmd, asks, healthy, spc, fault, conn, argc, first, ret, leaked,
                  cpc, made, backlog, toServer, toClient, link, number, transport>>
  BY DEF Port, Device, Call, uartConnect, uartBaudrate, uartWrite, uartSleep, ReadLine,
         ReadNothing, ReadEnd, ReadNoMemory, Leave, uartDisconnect, DeviceLine,
         server, client, tcp
<1>u. (upc' = "idle" <=> upc = "idle") /\ (spc # "uart" => buffer' = buffer)
  BY DEF Port, Device, Call, uartConnect, uartBaudrate, uartWrite, uartSleep, ReadLine,
         ReadNothing, ReadEnd, ReadNoMemory, Leave, uartDisconnect, DeviceLine
<1>1. ServerTypes'
  BY <1>0 DEF ServerTypes
<1>2. RequestAt'
  BY <1>0, <1>u DEF RequestAt, Handled
<1>3. ClientAt'
  BY <1>0 DEF ClientAt
<1>4. FaultAt'
  BY <1>0 DEF FaultAt, FaultsHaveTheirCause, Further, Handled
<1>5. LinkAt' /\ LeakAt'
  BY <1>0 DEF LinkAt, Distinct, LeakAt, Away
<1>6. WaitAt'
  <2>1. spc = "recv" => buffer' = buffer
    BY <1>u
  <2> QED
    BY <1>0, <2>1 DEF WaitAt, MutualWaitOnlyOnSilence
<1>7. AnswersItsRequest'
  BY <1>0 DEF AnswersItsRequest, AsksWhatIsRequested, Further
<1> QED
  BY <1>1, <1>2, <1>3, <1>4, <1>5, <1>6, <1>7

\* What brings the server to the reply.
LEMMA KeptByAnswer ==
  ASSUME KvmInv, fault = "none", transport' = transport, KvmAnswer \/ NotKvm
  PROVE  KvmInv'
<1> USE DEF KvmInv
<1>f. CASE buffer = NoString /\ Fail("null")
  <2>1. FaultsHaveTheirCause'
    BY <1>f DEF Fail, uartVars, FaultsHaveTheirCause
  <2> QED
    BY <1>f, <2>1, KeptByFail
<1>n. CASE /\ \/ spc = "uart" /\ Collect /\ ret' = "owned"
              \/ /\ spc \in {"PoChannel", "other", "blank"}
                 /\ UNCHANGED <<uartVars, ret>>
           /\ spc' = "reply"
           /\ UNCHANGED <<fault, conn, argc, first, leaked, client, tcp, number>>
  <2>0. /\ upc' = "idle" /\ (spc = "uart" => ret' = "owned") /\ (spc # "uart" => ret' = ret)
        /\ spc \in {"uart", "PoChannel", "other", "blank"}
        /\ UNCHANGED <<cmd, asks, buffer, healthy, fault, conn, argc, first, leaked,
                       cpc, made, backlog, toServer, toClient, link, number, transport>>
    BY <1>n DEF Collect, client, tcp, uartVars, RequestAt
  <2>1. ServerTypes'
    BY <1>n, <2>0 DEF ServerTypes
  <2>2. RequestAt'
    BY <1>n, <2>0 DEF RequestAt, Handled
  <2>3. ClientAt'
    BY <2>0 DEF ClientAt
  <2>4. FaultAt'
    BY <1>n, <2>0 DEF FaultAt, FaultsHaveTheirCause, Further, Handled
  <2>5. LinkAt' /\ LeakAt'
    BY <2>0 DEF LinkAt, Distinct, LeakAt, Away
  <2>6. WaitAt'
    BY <1>n, <2>0 DEF WaitAt, MutualWaitOnlyOnSilence
  <2>7. AnswersItsRequest'
    BY <1>n, <2>0 DEF AnswersItsRequest, AsksWhatIsRequested
  <2> QED
    BY <2>1, <2>2, <2>3, <2>4, <2>5, <2>6, <2>7
<1> QED
  BY <1>f, <1>n DEF KvmAnswer, NotKvm

-----------------------------------------------------------------------------
(* The server, over UDP.                                                   *)

LEMMA KeptByRecvDatagram ==
  ASSUME KvmInv, fault = "none", transport # "tcp", transport' = transport, RecvDatagram
  PROVE  KvmInv'
<1> USE DEF KvmInv
<1>0. PICK c \in Clients :
        /\ toServer[c] \notin {None, Empty}
        /\ conn' = c /\ first' = toServer[c] /\ ret' = "unset"
        /\ \/ /\ Tokens(toServer[c]) > 0 /\ Tokens(toServer[c]) + 1 <= 5
              /\ argc' = Tokens(toServer[c]) + 1 /\ spc' = toServer[c].kind /\ fault' = fault
           \/ /\ Tokens(toServer[c]) + 1 > 5
              /\ argc' = 0 /\ spc' = "recv" /\ fault' = "overflow"
           \/ /\ Tokens(toServer[c]) = 0
              /\ argc' = 0 /\ spc' = "recv" /\ fault' = "unset argument"
  BY DEF RecvDatagram
<1>u. /\ spc = "select" /\ upc = "idle"
      /\ UNCHANGED <<upc, cmd, asks, buffer, healthy, leaked,
                     cpc, made, backlog, toServer, toClient, link, number, transport>>
  BY DEF RecvDatagram, client, tcp, uartVars, RequestAt
<1> DEFINE r == toServer[c]
<1>r. /\ c # None /\ r \in Requests
      /\ r.kind \in {"KVM", "PoChannel", "other", "blank"} /\ Tokens(r) \in Nat
      /\ Tokens(r) = 0 <=> r.kind = "blank"
  BY <1>0, Taken, RequestsAre, NoneIsNothing
<1>a. argc' \in Nat
  <2>1. Tokens(r) + 1 \in Nat /\ 0 \in Nat
    BY <1>r
  <2> HIDE DEF r
  <2> QED
    BY <1>0, <2>1 DEF r
<1>s. \/ spc' = r.kind /\ r.kind # "blank" /\ fault' = "none"
      \/ spc' = "recv" /\ fault' = "overflow" /\ Tokens(r) >= 5
      \/ spc' = "recv" /\ fault' = "unset argument" /\ r.kind = "blank"
  <2>1. Tokens(r) > 0 => Tokens(r) # 0
    BY <1>r
  <2>2. Tokens(r) + 1 > 5 => Tokens(r) >= 5
    BY <1>r
  <2> QED
    BY <1>0, <1>r, <2>1, <2>2
<1>1. ServerTypes'
  BY <1>0, <1>u, <1>r, <1>a, <1>s DEF ServerTypes
<1>2. RequestAt'
  BY <1>0, <1>u, <1>r, <1>s DEF RequestAt, Handled
<1>3. ClientAt'
  BY <1>u DEF ClientAt
<1>4. FaultAt'
  <2>1. made[c] \in Nat /\ made[c] > 0
    BY <1>0 DEF ServerTypes, ClientAt
  <2>2. made[c] >= 1
    BY <2>1
  <2>3. FaultsHaveTheirCause'
    BY <1>0, <1>u, <1>s DEF FaultsHaveTheirCause, Tokens
  <2> QED
    BY <1>0, <1>u, <2>2, <2>3 DEF FaultAt
<1>5. LinkAt'
  <2>1. backlog = <<>> /\ Range(backlog) = {}
    BY EmptyBacklog DEF LinkAt
  <2> QED
    BY <1>0, <1>u, <2>1 DEF LinkAt
<1>6. LeakAt'
  BY <1>u, NothingLost DEF LinkAt
<1>7. WaitAt'
  BY <1>r, <1>s, <1>u DEF WaitAt, MutualWaitOnlyOnSilence
<1>8. AnswersItsRequest'
  BY <1>r, <1>s, <1>u DEF AnswersItsRequest, AsksWhatIsRequested
<1> QED
  BY <1>1, <1>2, <1>3, <1>4, <1>5, <1>6, <1>7, <1>8

\* The datagram without a byte is dropped.
LEMMA KeptByRecvEmptyDatagram ==
  ASSUME KvmInv, fault = "none", transport # "tcp", transport' = transport, RecvEmptyDatagram
  PROVE  KvmInv'
<1> USE DEF KvmInv
<1>0. /\ spc = "select" /\ conn = None
      /\ UNCHANGED <<upc, cmd, asks, buffer, healthy, spc, fault, conn, argc, first, ret, leaked,
                     cpc, made, backlog, toClient, link, number, transport>>
  BY DEF RecvEmptyDatagram, RequestAt, server, client, uartVars
<1>c. PICK c \in Clients : toServer[c] = Empty /\ toServer' = [toServer EXCEPT ![c] = None]
  BY DEF RecvEmptyDatagram
<1>t. /\ toServer' \in [Clients -> Requests \cup {None, Empty}]
      /\ toServer'[c] = None
      /\ \A d \in Clients : d # c => toServer'[d] = toServer[d]
  BY <1>c DEF ServerTypes
<1>1. ServerTypes'
  BY <1>0, <1>t DEF ServerTypes
<1>2. RequestAt'
  BY <1>0 DEF RequestAt, Handled
<1>3. ClientAt'
  BY <1>0, <1>t, NoneIsNothing DEF ClientAt
<1>4. FaultAt'
  BY <1>0 DEF FaultAt, FaultsHaveTheirCause, Handled
<1>5. LinkAt' /\ LeakAt'
  BY <1>0 DEF LinkAt, Distinct, LeakAt, Away
<1>6. WaitAt'
  <2>1. cpc[c] # "waiting"
    BY <1>c DEF ClientAt
  <2> QED
    BY <1>0, <1>t, <2>1 DEF WaitAt, MutualWaitOnlyOnSilence
<1>7. AnswersItsRequest'
  BY <1>0 DEF AnswersItsRequest, AsksWhatIsRequested
<1> QED
  BY <1>1, <1>2, <1>3, <1>4, <1>5, <1>6, <1>7

LEMMA KeptByReplyDatagram ==
  ASSUME UartInv, KvmInv, fault = "none", transport # "tcp", transport' = transport,
         ReplyDatagram
  PROVE  KvmInv'
<1> USE DEF KvmInv
<1>0. spc = "reply" /\ conn \in Clients /\ toServer[conn] \in Requests
      /\ toServer[conn] # None /\ upc = "idle"
  BY Taken, NoneIsNothing DEF ReplyDatagram, Handled, RequestAt
<1>f. CASE ret # "owned" /\ Fail("dangling")
  <2>1. toServer[conn].kind # "KVM"
    BY <1>0, <1>f DEF RequestAt
  <2>2. FaultsHaveTheirCause'
    BY <1>f, <2>1 DEF Fail, tcp, FaultsHaveTheirCause
  <2> QED
    BY <1>f, <2>2, KeptByFail
<1>n. CASE /\ \E text \in ReplyText :
                toClient' = [toClient EXCEPT ![conn] = IF cpc[conn] = "gone" THEN @ ELSE text]
           /\ toServer' = [toServer EXCEPT ![conn] = None]
           /\ conn' = None /\ spc' = "select"
           /\ UNCHANGED <<uartVars, fault, argc, first, ret, leaked, client, backlog, link, number>>
  <2>0. UNCHANGED <<upc, cmd, asks, buffer, healthy, fault, argc, first, ret, leaked,
                    cpc, made, backlog, link, number, transport>>
    BY <1>n DEF client, uartVars
  <2>t. PICK text \in ReplyText :
          toClient' = [toClient EXCEPT ![conn] = IF cpc[conn] = "gone" THEN @ ELSE text]
    BY <1>n
  <2>o. (ret = "owned" /\ text = buffer) \/ text = Garbage
    BY <2>t DEF ReplyText
  <2>b. text \in Seq(Line) /\ text # None
    <3>1. Garbage \in Seq(Line) /\ buffer \in Seq(Line)
      BY GarbageIsLine DEF UartInv, UartTypes
    <3> QED
      BY <2>o, <3>1, NoneIsNothing
  <2>s. /\ toServer'[conn] = None
        /\ \A c \in Clients : c # conn => toServer'[c] = toServer[c] /\ toClient'[c] = toClient[c]
        /\ toClient'[conn] = IF cpc[conn] = "gone" THEN toClient[conn] ELSE text
    BY <1>0, <1>n, <2>t DEF ServerTypes
  <2>1. ServerTypes'
    BY <1>n, <2>0, <2>t, <2>b DEF ServerTypes
  <2>2. RequestAt'
    BY <1>0, <1>n, <2>0 DEF RequestAt, Handled
  <2>3. ClientAt'
    BY <1>0, <2>0, <2>s, NoneIsNothing DEF ClientAt
  <2>4. FaultAt'
    BY <1>n, <2>0 DEF FaultAt, FaultsHaveTheirCause, Further, Handled
  <2>5. LinkAt'
    <3>1. backlog = <<>> /\ Range(backlog) = {}
      BY EmptyBacklog DEF LinkAt
    <3> QED
      BY <1>n, <2>0, <3>1, NoneIsNothing DEF LinkAt
  <2>6. LeakAt'
    BY <2>0, NothingLost DEF LinkAt
  <2>7. WaitAt'
    BY <1>n, <2>0, <2>s, <2>b DEF WaitAt, MutualWaitOnlyOnSilence
  <2>8. AnswersItsRequest'
    <3> SUFFICES ASSUME healthy, NEW c \in Clients, toClient'[c] \notin {None, Garbage}
        PROVE  Owners(toClient'[c]) = {number[c]}
      BY <1>n, <2>0 DEF AnswersItsRequest, AsksWhatIsRequested
    <3>1. CASE c # conn \/ toClient'[conn] = toClient[conn]
      BY <2>s, <3>1 DEF AnswersItsRequest
    <3>2. CASE c = conn /\ toClient'[conn] = text
      <4>1. ret = "owned" /\ text = buffer
        BY <2>o, <3>2
      <4>2. asks > 0 /\ number[conn] = asks
        BY <1>0, <4>1 DEF RequestAt
      <4> QED
        BY <1>0, <3>2, <4>1, <4>2, HealthyAnswer
    <3> QED
      BY <2>s, <3>1, <3>2
  <2> QED
    BY <2>1, <2>2, <2>3, <2>4, <2>5, <2>6, <2>7, <2>8
<1> QED
  BY <1>f, <1>n DEF ReplyDatagram

-----------------------------------------------------------------------------
(* The server keeps to the port's order of calls.                          *)

LEMMA KvmUsesThePort ==
  ASSUME KvmInv, [KvmNext]_kvmVars
  PROVE  [UartNext]_uartVars
<1>1. ASSUME NEW c \in Clients, Client(c) \/ DatagramClient(c) PROVE UNCHANGED uartVars
  BY <1>1 DEF Client, Connect, Send, SendNothing, Receive, Close, Die,
              DatagramClient, SendDatagram, SendEmptyDatagram, DieSilently, Lose
<1>2. CASE Accept \/ RecvRequest \/ RecvEnd \/ RecvError \/ NotKvm \/ Reply \/ ReplyError
  BY <1>2 DEF Accept, RecvRequest, RecvEnd, RecvError, NotKvm, Reply, ReplyError, Fail
<1>3. CASE RecvDatagram \/ RecvEmptyDatagram \/ ReplyDatagram
  BY <1>3 DEF RecvDatagram, RecvEmptyDatagram, ReplyDatagram, Fail
<1>4. CASE KvmAsk
  <2>1. CASE Argument(toServer[conn]) = NoArg /\ Fail("null")
    BY <2>1 DEF Fail
  <2>2. CASE Argument(toServer[conn]) # NoArg /\ Ask(Argument(toServer[conn]))
    <3>1. Argument(toServer[conn]) \in Commands
      BY <1>4, <2>2, AskedFor DEF KvmAsk
    <3> QED
      BY <2>2, <3>1 DEF UartNext
  <2> QED
    BY <1>4, <2>1, <2>2 DEF KvmAsk
<1>5. CASE Port \/ Device
  BY <1>5 DEF Port, Device, UartNext
<1>6. CASE KvmAnswer
  BY <1>6 DEF KvmAnswer, UartNext, Fail
<1>7. CASE UNCHANGED kvmVars
  BY <1>7 DEF kvmVars, vars
<1> QED
  BY <1>1, <1>2, <1>3, <1>4, <1>5, <1>6, <1>7
     DEF KvmNext, Next, Serve, DatagramNext, ServeDatagrams

LEMMA KvmInvInit == KvmInit => KvmInv
<1> SUFFICES ASSUME KvmInit PROVE KvmInv
  OBVIOUS
<1>0. /\ upc = "idle" /\ spc = "select" /\ fault = "none" /\ conn = None /\ argc = 0
      /\ first = None /\ ret = "unset" /\ leaked = 0 /\ backlog = <<>>
      /\ cpc = [c \in Clients |-> "new"] /\ made = [c \in Clients |-> 0]
      /\ toServer = [c \in Clients |-> None] /\ toClient = [c \in Clients |-> None]
      /\ link = [c \in Clients |-> "none"] /\ number = [c \in Clients |-> 0]
      /\ transport \in Transports
  BY DEF KvmInit, Init, UartInit
<1>b. backlog \in Seq(Clients) /\ Range(backlog) = {} /\ Distinct(backlog)
  <2>1. Len(<<>>) = 0 /\ <<>> \in Seq(Clients)
    BY EmptySeq
  <2> QED
    BY <1>0, <2>1, EmptyBacklog DEF Distinct
<1>1. ServerTypes
  BY <1>0, <1>b, DatagramAssumption DEF ServerTypes
<1>2. RequestAt /\ ClientAt
  BY <1>0, NoneIsNothing DEF RequestAt, Handled, ClientAt
<1>3. FaultAt
  BY <1>0 DEF FaultAt, FaultsHaveTheirCause, Further, Handled
<1>4. LinkAt
  BY <1>0, <1>b, NoneIsNothing DEF LinkAt
<1>5. LeakAt
  <2>1. Cardinality(Away) \in Nat
    BY AwayIsFinite
  <2>2. 0 <= Cardinality(Away)
    BY <2>1
  <2> QED
    BY <1>0, <2>2 DEF LeakAt
<1>6. WaitAt
  BY <1>0, <1>b DEF WaitAt, MutualWaitOnlyOnSilence
<1>7. AnswersItsRequest
  BY <1>0 DEF AnswersItsRequest, AsksWhatIsRequested, Further
<1> QED
  BY <1>1, <1>2, <1>3, <1>4, <1>5, <1>6, <1>7 DEF KvmInv

LEMMA KvmInvStep ==
  ASSUME UartInv, KvmInv, [KvmNext]_kvmVars
  PROVE  KvmInv'
<1>1. CASE UNCHANGED kvmVars
  <2>0. UNCHANGED <<upc, cmd, asks, buffer, healthy, spc, fault, conn, argc, first, ret, leaked,
                    cpc, made, backlog, toServer, toClient, link, number, transport>>
    BY <1>1 DEF kvmVars, vars, uartVars, server, client, tcp
  <2>1. ServerTypes' /\ RequestAt' /\ ClientAt'
    BY <2>0 DEF KvmInv, ServerTypes, RequestAt, Handled, ClientAt
  <2>2. FaultAt'
    BY <2>0 DEF KvmInv, FaultAt, FaultsHaveTheirCause, Handled, Further
  <2>3. LinkAt' /\ LeakAt'
    BY <2>0 DEF KvmInv, LinkAt, Distinct, LeakAt, Away
  <2>4. WaitAt' /\ AnswersItsRequest'
    BY <2>0 DEF KvmInv, WaitAt, MutualWaitOnlyOnSilence, AnswersItsRequest,
                AsksWhatIsRequested, Further
  <2> QED
    BY <2>1, <2>2, <2>3, <2>4 DEF KvmInv
<1>2. ASSUME transport = "tcp", fault = "none", transport' = transport,
             NEW c \in Clients, Client(c)
      PROVE  KvmInv'
  BY <1>2, KeptByConnect, KeptBySend, KeptByReceive, KeptByGoing DEF Client
<1>3. ASSUME transport # "tcp", fault = "none", transport' = transport,
             NEW c \in Clients, DatagramClient(c)
      PROVE  KvmInv'
  BY <1>3, KeptBySend, KeptByReceive, KeptByGoing, KeptByLose DEF DatagramClient
<1>4. ASSUME fault = "none", transport' = transport,
             KvmAsk \/ Port \/ Device \/ KvmAnswer \/ NotKvm
      PROVE  KvmInv'
  BY <1>4, KeptByKvmAsk, KeptByPort, KeptByAnswer
<1>5. ASSUME transport = "tcp", fault = "none", transport' = transport,
             Accept \/ RecvRequest \/ RecvEnd \/ RecvError \/ Reply \/ ReplyError
      PROVE  KvmInv'
  <2>1. RecvEnd \/ RecvError => fault' = "none"
    BY <1>5 DEF RecvEnd, RecvError
  <2> QED
    BY <1>5, <2>1, KeptByAccept, KeptByRecvRequest, KeptByEnd, KeptByReply, KeptBySigpipe
<1>6. ASSUME transport # "tcp", fault = "none", transport' = transport,
             RecvDatagram \/ RecvEmptyDatagram \/ ReplyDatagram
      PROVE  KvmInv'
  BY <1>6, KeptByRecvDatagram, KeptByRecvEmptyDatagram, KeptByReplyDatagram
<1>7. CASE transport = "tcp" /\ Next /\ UNCHANGED transport
  BY <1>2, <1>4, <1>5, <1>7 DEF Next, Serve
<1>8. CASE transport # "tcp" /\ DatagramNext /\ UNCHANGED transport
  BY <1>3, <1>4, <1>6, <1>8 DEF DatagramNext, ServeDatagrams
<1> QED
  BY <1>1, <1>7, <1>8 DEF KvmNext

LEMMA KvmInvGives ==
  ASSUME UartInv, KvmInv
  PROVE  /\ FaultsHaveTheirCause /\ LeakOnlyByReset /\ WaitsHaveTheirCause
         /\ AnswersItsRequest
<1>1. LeakOnlyByReset
  <2> DEFINE Reset == {c \in Clients : link[c] = "rst"}
  <2>1. Reset \in SUBSET Clients /\ Away \in SUBSET Reset
    BY DEF Away
  <2>2. IsFiniteSet(Reset) /\ Cardinality(Reset) \in Nat
    BY <2>1, KvmAssumption, FS_Subset, FS_CardinalityType
  <2>3. Cardinality(Away) <= Cardinality(Reset) /\ Cardinality(Away) \in Nat
    BY <2>1, <2>2, FS_Subset, AwayIsFinite
  <2>4. leaked \in Nat /\ leaked <= Cardinality(Away)
    BY DEF KvmInv, ServerTypes, LeakAt
  <2> HIDE DEF Reset
  <2>5. leaked <= Cardinality(Reset)
    BY <2>2, <2>3, <2>4
  <2> QED
    BY <2>5 DEF LeakOnlyByReset, Reset
<1> QED
  BY <1>1 DEF KvmInv, FaultAt, WaitAt, WaitsHaveTheirCause, WaitsOnlyForLosses

-----------------------------------------------------------------------------
(* The results.                                                            *)

\* A caller that makes the calls of uart.c in this order, whatever it asks, gets
\* only lines of its own answer and of those the device owed when the input was
\* flushed, and puts the whole command on the line.
THEOREM PortKeepsAnswersApart == UartSpec => [](AnswerIsItsOwn /\ CommandIsSentWhole)
<1>1. UartSpec => []UartInv
  BY UartInvInit, UartInvStep, PTL DEF UartSpec
<1>2. UartInv => AnswerIsItsOwn /\ CommandIsSentWhole
  BY UartInvGives
<1> QED
  BY <1>1, <1>2, PTL

LEMMA Invariance == KvmSpec => [](UartInv /\ KvmInv)
<1>1. KvmInit => UartInv /\ KvmInv
  BY UartInvInit, KvmInvInit DEF KvmInit, Init
<1>2. UartInv /\ KvmInv /\ [KvmNext]_kvmVars => UartInv' /\ KvmInv'
  BY KvmUsesThePort, UartInvStep, KvmInvStep
<1> QED
  BY <1>1, <1>2, PTL DEF KvmSpec

\* Whatever its clients send, and over either transport, the server is such a
\* caller.
THEOREM ServerIsACaller == KvmSpec => UartSpec
<1>1. KvmInit => UartInit
  BY DEF KvmInit, Init
<1>2. KvmInv /\ [KvmNext]_kvmVars => [UartNext]_uartVars
  BY KvmUsesThePort
<1> QED
  BY <1>1, <1>2, Invariance, PTL DEF KvmSpec, UartSpec

\* Every variable of the port and of the server keeps its type.
THEOREM Types == KvmSpec => [](UartTypes /\ ServerTypes)
<1>1. UartInv /\ KvmInv => UartTypes /\ ServerTypes
  BY DEF UartInv, KvmInv
<1> QED
  BY <1>1, Invariance, PTL

\* The string uartCommand returns to processTCPRequest and processUDPRequest is
\* a beginning of the port's answer, after lines the device was late with.
THEOREM AnswersAreTheirOwn == KvmSpec => []AnswerIsItsOwn
BY ServerIsACaller, PortKeepsAnswersApart, PTL

\* What uartCommand writes for the server is the whole command.
THEOREM CommandsAreWhole == KvmSpec => []CommandIsSentWhole
BY ServerIsACaller, PortKeepsAnswersApart, PTL

\* The process ends only for one of the five reasons of FaultsHaveTheirCause,
\* however many tokens a request has and requests a connection carries.
THEOREM FaultsAreCaused == KvmSpec => []FaultsHaveTheirCause
<1>1. UartInv /\ KvmInv => FaultsHaveTheirCause
  BY KvmInvGives
<1> QED
  BY <1>1, Invariance, PTL

\* The server loses at most one descriptor for each client that resets.
THEOREM LeaksAreResets == KvmSpec => []LeakOnlyByReset
<1>1. UartInv /\ KvmInv => LeakOnlyByReset
  BY KvmInvGives
<1> QED
  BY <1>1, Invariance, PTL

\* Server and client wait for each other only when the port was silent or the
\* client had nothing to send; over UDP nobody whose request had a byte waits
\* but for a datagram that was lost.
THEOREM WaitsAreCaused == KvmSpec => []WaitsHaveTheirCause
<1>1. UartInv /\ KvmInv => WaitsHaveTheirCause
  BY KvmInvGives
<1> QED
  BY <1>1, Invariance, PTL

\* On a healthy port a client is told the answer to its own request, and the
\* port is asked for that request unless it is a further one of its connection.
THEOREM AnswersMatchRequests == KvmSpec => []AnswersItsRequest
<1>1. UartInv /\ KvmInv => AnswersItsRequest
  BY KvmInvGives
<1> QED
  BY <1>1, Invariance, PTL
=============================================================================
