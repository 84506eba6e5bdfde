----------------------------- MODULE AlarmLoop -----------------------------
(***************************************************************************)
(* signalalarm/alarmmain.c: a main loop that polls the flag timeup and     *)
(* re-arms an alarm, and the SIGALRM handler that sets the flag.  The loop *)
(* arms the alarm first and clears the flag after, so an alarm that goes   *)
(* off in between is lost, and with it every later one.                    *)
(*                                                                         *)
(* The flag is a plain int that main only reads until it is set: a build   *)
(* that optimises may read it once and spin (reloads = FALSE).             *)
(*                                                                         *)
(* The kernel is external: time passes in ticks, the process may be kept   *)
(* from running for up to MaxDelay of them between two of its steps, and   *)
(* a pending signal is delivered before main runs again.                   *)
(***************************************************************************)
EXTENDS Naturals

CONSTANTS
  Period,      \* argument of alarm, in ticks
  MaxDelay     \* ticks that may pass between two steps of the process

ASSUME AlarmAssumption == Period \in Nat \ {0} /\ MaxDelay \in Nat

VARIABLES
  pc,          \* "poll", "arm" (timeup was 1), "clear" (the alarm is armed), "spin"
  timeup,
  timer,       \* ticks until the alarm goes off, 0 when it is not armed
  pending,     \* SIGALRM is pending
  age,         \* ticks since the process last ran
  alive,       \* the process has not exited
  reloads,     \* the build reads timeup again in every round
  starved      \* history: the process was once kept from running for a whole period

vars == <<pc, timeup, timer, pending, age, alive, reloads, starved>>

Init ==
  /\ pc = "poll" /\ timeup = FALSE
  /\ timer = Period
  /\ pending = FALSE
  /\ age = 0
  /\ alive = TRUE
  /\ reloads \in BOOLEAN
  /\ starved = FALSE

\* The kernel counts down and raises the signal.
Tick ==
  /\ alive
  /\ age < MaxDelay
  /\ age' = age + 1
  /\ starved' = (starved \/ age + 1 >= Period)
  /\ timer' = IF timer > 0 THEN timer - 1 ELSE 0
  /\ pending' = (pending \/ timer = 1)
  /\ UNCHANGED <<pc, timeup, alive, reloads>>

\* Mutated form of SignalHandler: the flag is not set.
SignalHandlerNoFlag ==
  /\ alive /\ pending
  /\ pending' = FALSE
  /\ timer' = 0
  /\ age' = 0
  /\ UNCHANGED <<pc, timeup, alive, reloads, starved>>

\* SIGALRM: alarm(0), then the flag.
SignalHandler ==
  /\ alive /\ pending
  /\ pending' = FALSE
  /\ timer' = 0
  /\ timeup' = TRUE
  /\ age' = 0
  /\ UNCHANGED <<pc, alive, reloads, starved>>

\* SIGINT: exit.
Interrupt ==
  /\ alive
  /\ alive' = FALSE
  /\ UNCHANGED <<pc, timeup, timer, pending, age, reloads, starved>>

Main(from, to) ==
  /\ alive /\ ~pending
  /\ pc = from /\ pc' = to
  /\ age' = 0
  /\ UNCHANGED <<alive, reloads, starved>>

Poll ==
  /\ Main("poll", IF timeup THEN "arm" ELSE IF reloads THEN "poll" ELSE "spin")
  /\ UNCHANGED <<timeup, timer, pending>>

\* Mutated form of Arm: the alarm is armed once only, before the loop.
ArmNot ==
  /\ Main("arm", "clear")
  /\ UNCHANGED <<timeup, timer, pending>>

Arm ==
  /\ Main("arm", "clear")
  /\ timer' = Period
  /\ UNCHANGED <<timeup, pending>>

Clear ==
  /\ Main("clear", "poll")
  /\ timeup' = FALSE
  /\ UNCHANGED <<timer, pending>>

Next == Tick \/ SignalHandler \/ Interrupt \/ Poll \/ Arm \/ Clear

Spec == Init /\ [][Next]_vars

\* Time passes, and the kernel neither withholds a signal nor the processor
\* for ever.
Fairness ==
  /\ WF_vars(Tick)
  /\ WF_vars(SignalHandler)
  /\ WF_vars(Poll \/ Arm \/ Clear)

FairSpec == Spec /\ Fairness

-----------------------------------------------------------------------------
\* The ranges of the loop's state: the alarm is never more than a period away.
TypeOK ==
  /\ pc \in {"poll", "arm", "clear", "spin"}
  /\ timeup \in BOOLEAN /\ pending \in BOOLEAN /\ alive \in BOOLEAN
  /\ reloads \in BOOLEAN /\ starved \in BOOLEAN
  /\ timer \in 0 .. Period
  /\ age \in 0 .. MaxDelay

\* Another heartbeat is on its way.
Coming == pending \/ timer > 0 \/ (timeup /\ pc # "clear")

\* Arming before clearing (alarmmain.c:119-120) loses a heartbeat only when
\* the process is kept from running for a whole period: until then one is
\* always on its way.
HeartbeatIsNeverLost == Coming \/ starved

\* In a build that reads the flag in every round, the loop beats for ever,
\* unless it is interrupted or was starved.
BeatsForever == []<>(pc = "arm" \/ ~alive \/ starved \/ ~reloads)
=============================================================================
