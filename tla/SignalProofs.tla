---------------------------- MODULE SignalProofs ----------------------------
(***************************************************************************)
(* Proofs about the two programs of signalalarm/: the alarm loop, for      *)
(* every period and every delay, and the signal waiting loop, for any      *)
(* number of signals.                                                      *)
(***************************************************************************)
EXTENDS AlarmLoop, SignalLoop, TLAPS

-----------------------------------------------------------------------------
(* The alarm loop.                                                         *)

\* Between arming the alarm and clearing the flag the alarm has run for no
\* longer than the process has been waiting, so unless the process was
\* starved it has not gone off.
ArmedIsYoung ==
  pc = "clear" => starved \/ (~pending /\ timer + age >= Period)

AgeIsCounted == age >= Period => starved

IInv == TypeOK /\ AgeIsCounted /\ ArmedIsYoung /\ HeartbeatIsNeverLost

\* The Boolean part of TypeOK, which the provers take apart from the rest.
Flags == /\ timeup \in BOOLEAN /\ pending \in BOOLEAN /\ alive \in BOOLEAN
         /\ reloads \in BOOLEAN /\ starved \in BOOLEAN

LEMMA FlagsInit == Init => Flags
BY Zenon DEF Init, Flags

LEMMA FlagsStep == IInv /\ [Next]_vars => Flags'
<1> SUFFICES ASSUME IInv, [Next]_vars PROVE Flags'
  OBVIOUS
<1> USE DEF IInv, TypeOK, Flags
<1>1. CASE Tick
  <2>1. starved' \in BOOLEAN /\ pending' \in BOOLEAN
    BY <1>1, Zenon DEF Tick
  <2> QED BY <1>1, <2>1, Zenon DEF Tick
<1>2. CASE SignalHandler
  BY <1>2, Zenon DEF SignalHandler
<1>3. CASE Interrupt
  BY <1>3, Zenon DEF Interrupt
<1>4. CASE Poll \/ Arm \/ Clear
  BY <1>4, Zenon DEF Poll, Arm, Clear, Main
<1>5. CASE UNCHANGED vars
  BY <1>5, Zenon DEF vars
<1> QED
  BY <1>1, <1>2, <1>3, <1>4, <1>5 DEF Next

LEMMA Initially == Init => IInv
BY AlarmAssumption, FlagsInit DEF Init, IInv, TypeOK, AgeIsCounted, ArmedIsYoung,
              HeartbeatIsNeverLost, Coming, Flags

LEMMA Inductive == IInv /\ [Next]_vars => IInv'
<1> SUFFICES ASSUME IInv, [Next]_vars PROVE IInv'
  OBVIOUS
<1>f. Flags'
  BY FlagsStep
<1> USE AlarmAssumption
<1>1. CASE Tick
  <2>1. starved' <=> (starved \/ age + 1 >= Period)
    BY <1>1, Zenon DEF Tick
  <2>2. pending' <=> (pending \/ timer = 1)
    BY <1>1, Zenon DEF Tick
  <2>3. timer' = IF timer > 0 THEN timer - 1 ELSE 0
    BY <1>1, Zenon DEF Tick
  <2>4. age < MaxDelay /\ age' = age + 1 /\ UNCHANGED <<pc, timeup>>
    BY <1>1, Zenon DEF Tick
  <2>5. TypeOK' /\ AgeIsCounted'
    BY <1>f, <2>1, <2>3, <2>4 DEF IInv, TypeOK, Flags, AgeIsCounted
  <2>6. ArmedIsYoung'
    BY <2>1, <2>2, <2>3, <2>4 DEF IInv, TypeOK, AgeIsCounted, ArmedIsYoung
  <2>7. HeartbeatIsNeverLost'
    BY <2>1, <2>2, <2>3, <2>4 DEF IInv, TypeOK, HeartbeatIsNeverLost, Coming
  <2> QED
    BY <2>5, <2>6, <2>7 DEF IInv
<1>2. CASE SignalHandler
  BY <1>f, <1>2 DEF IInv, TypeOK, Flags, AgeIsCounted, ArmedIsYoung,
              HeartbeatIsNeverLost, Coming, SignalHandler
<1>3. CASE Interrupt
  BY <1>f, <1>3 DEF IInv, TypeOK, Flags, AgeIsCounted, ArmedIsYoung,
              HeartbeatIsNeverLost, Coming, Interrupt
<1>4. CASE Poll
  BY <1>f, <1>4 DEF IInv, TypeOK, Flags, AgeIsCounted, ArmedIsYoung,
              HeartbeatIsNeverLost, Coming, Poll, Main
<1>5. CASE Arm
  BY <1>f, <1>5 DEF IInv, TypeOK, Flags, AgeIsCounted, ArmedIsYoung,
              HeartbeatIsNeverLost, Coming, Arm, Main
<1>6. CASE Clear
  BY <1>f, <1>6 DEF IInv, TypeOK, Flags, AgeIsCounted, ArmedIsYoung,
              HeartbeatIsNeverLost, Coming, Clear, Main
<1>7. CASE UNCHANGED vars
  BY <1>f, <1>7 DEF IInv, TypeOK, Flags, AgeIsCounted, ArmedIsYoung,
              HeartbeatIsNeverLost, Coming, vars
<1> QED
  BY <1>1, <1>2, <1>3, <1>4, <1>5, <1>6, <1>7 DEF Next

LEMMA Invariance == Spec => []IInv
BY Initially, Inductive, PTL DEF Spec

\* The state of the loop stays in its ranges, for every period and delay.
THEOREM TypeCorrect == Spec => []TypeOK
BY Invariance, PTL DEF IInv

\* No heartbeat is lost unless the process is kept from running for a whole
\* period, whatever the period is.
THEOREM HeartbeatKept == Spec => []HeartbeatIsNeverLost
BY Invariance, PTL DEF IInv

-----------------------------------------------------------------------------
(* The signal waiting loop.                                                *)

\* Once the mask is set only the handler ends the process, and it handles an
\* interrupt only if one was sent.
EndsAt ==
  /\ raised \subseteq Signals
  /\ at \notin {"register", "ended"} => blocked = Signals
  /\ SIGINT \in raised \/ (at = "handle" /\ retSig = SIGINT) => "interrupt" \in causes
  /\ OnlyAnInterruptEndsIt

\* sigwait returns a pending signal.
LEMMA MinIsRaised ==
  ASSUME raised \subseteq Signals, raised # {}
  PROVE  Min(raised) \in raised
<1>1. \A s \in raised : s \in {2, 10, 14, 15}
  BY DEF Signals, SIGINT, SIGUSR1, SIGALRM, SIGTERM
<1>2. \E s \in raised : \A t \in raised : s <= t
  <2>1. CASE 2 \in raised
    BY <1>1, <2>1
  <2>2. CASE 2 \notin raised /\ 10 \in raised
    BY <1>1, <2>2
  <2>3. CASE 2 \notin raised /\ 10 \notin raised /\ 14 \in raised
    BY <1>1, <2>3
  <2>4. CASE 2 \notin raised /\ 10 \notin raised /\ 14 \notin raised
    BY <1>1, <2>4
  <2> QED
    BY <2>1, <2>2, <2>3, <2>4
<1> QED
  BY <1>2 DEF Min

LEMMA EndsStart == SigInit => EndsAt
BY DEF SigInit, EndsAt, OnlyAnInterruptEndsIt

LEMMA EndsKept == EndsAt /\ [SigNext]_sigVars => EndsAt'
<1> SUFFICES ASSUME EndsAt, [SigNext]_sigVars PROVE EndsAt'
  OBVIOUS
<1> USE DEF EndsAt, OnlyAnInterruptEndsIt
<1>1. CASE registerSignal
  BY <1>1 DEF registerSignal
<1>2. CASE signalTimerStart
  BY <1>2 DEF signalTimerStart
<1>3. CASE waitSignal
  BY <1>3, MinIsRaised DEF waitSignal
<1>4. CASE signalHandle
  BY <1>4 DEF signalHandle
<1>5. CASE Expire
  <2>1. SIGALRM \in Signals /\ SIGINT # SIGALRM
    BY DEF Signals, SIGINT, SIGALRM
  <2> QED
    BY <1>5, <2>1 DEF Expire
<1>6. ASSUME NEW sig \in Signals, Kill(sig) PROVE EndsAt'
  BY <1>6 DEF Kill
<1>7. CASE UNCHANGED sigVars
  BY <1>7 DEF sigVars
<1> QED
  BY <1>1, <1>2, <1>3, <1>4, <1>5, <1>6, <1>7 DEF SigNext, Loop

\* A tick, SIGUSR1 and SIGTERM never end the process, whatever is sent and
\* whenever (signal.c, signalHandle).
THEOREM Ends == SigSpec => []OnlyAnInterruptEndsIt
<1>1. EndsAt => OnlyAnInterruptEndsIt
  BY DEF EndsAt
<1> QED
  BY <1>1, EndsStart, EndsKept, PTL DEF SigSpec
=============================================================================
