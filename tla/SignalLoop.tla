----------------------------- MODULE SignalLoop -----------------------------
(***************************************************************************)
(* signalalarm/signal.c: block four signals, start an interval timer, and  *)
(* take the signals one after the other with sigwait.                      *)
(*                                                                         *)
(* The kernel and the senders are external.  A pending signal is a bit, so *)
(* one raised again before it is taken is merged with itself; sigwait      *)
(* takes the lowest number first; a signal that is not blocked ends the    *)
(* process, the default action of all four.                                *)
(***************************************************************************)
EXTENDS Naturals, FiniteSetsExt

SIGINT == 2
SIGUSR1 == 10
SIGALRM == 14
SIGTERM == 15
Signals == {SIGINT, SIGUSR1, SIGALRM, SIGTERM}

VARIABLES
  at,          \* "register", "start", "wait", "handle" or "ended"
  blocked,     \* the signal mask
  raised,      \* pending signals
  retSig,      \* what sigwait returned
  ticking,     \* the interval timer runs
  prompt,      \* the process is back in sigwait well within the interval
  causes       \* history: "interrupt" and "early", what may end the process

sigVars == <<at, blocked, raised, retSig, ticking, prompt, causes>>

SigInit ==
  /\ at = "register"
  /\ blocked = {} /\ raised = {}
  /\ retSig = 0
  /\ ticking = FALSE
  /\ prompt \in BOOLEAN
  /\ causes = {}

-----------------------------------------------------------------------------
(* The kernel.                                                             *)

\* Another process or the terminal sends a signal.
Kill(sig) ==
  /\ at # "ended"
  /\ IF sig \in blocked THEN raised' = raised \cup {sig} /\ UNCHANGED at
                        ELSE at' = "ended" /\ UNCHANGED raised
  /\ causes' = causes \cup (IF sig = SIGINT THEN {"interrupt"} ELSE {})
                      \cup (IF sig \notin blocked THEN {"early"} ELSE {})
  /\ UNCHANGED <<blocked, retSig, ticking, prompt>>

\* The interval is over, and the next begins.
Expire ==
  /\ ticking /\ at # "ended"
  /\ prompt => at = "wait" /\ raised = {}
  /\ raised' = raised \cup {SIGALRM}
  /\ UNCHANGED <<at, blocked, retSig, ticking, prompt, causes>>

-----------------------------------------------------------------------------
(* The program.                                                            *)

registerSignal ==
  /\ at = "register" /\ at' = "start"
  /\ blocked' = Signals
  /\ UNCHANGED <<raised, retSig, ticking, prompt, causes>>

signalTimerStart ==
  /\ at = "start" /\ at' = "wait"
  /\ ticking' = TRUE
  /\ UNCHANGED <<blocked, raised, retSig, prompt, causes>>

\* Mutated form of waitSignal: SIGUSR1 is blocked but not waited for.
waitSignalButUsr1 ==
  /\ at = "wait" /\ at' = "handle"
  /\ raised \ {SIGUSR1} # {}
  /\ retSig' = Min(raised \ {SIGUSR1})
  /\ raised' = raised \ {retSig'}
  /\ UNCHANGED <<blocked, ticking, prompt, causes>>

waitSignal ==
  /\ at = "wait" /\ at' = "handle"
  /\ raised # {}
  /\ retSig' = Min(raised)
  /\ raised' = raised \ {retSig'}
  /\ UNCHANGED <<blocked, ticking, prompt, causes>>

\* Mutated form of signalHandle: without a break, SIGALRM falls through.
signalHandleFallingThrough ==
  /\ at = "handle"
  /\ at' = IF retSig \in {SIGINT, SIGALRM} THEN "ended" ELSE "wait"
  /\ UNCHANGED <<blocked, raised, retSig, ticking, prompt, causes>>

\* SIGINT exits; SIGTERM, like the others, is only reported.
signalHandle ==
  /\ at = "handle"
  /\ at' = IF retSig = SIGINT THEN "ended" ELSE "wait"
  /\ UNCHANGED <<blocked, raised, retSig, ticking, prompt, causes>>

Loop == registerSignal \/ signalTimerStart \/ waitSignal \/ signalHandle

SigNext == Loop \/ Expire \/ \E sig \in Signals : Kill(sig)

\* The process runs, and time passes.
SigFairness == WF_sigVars(Loop) /\ WF_sigVars(Expire)

SigSpec == SigInit /\ [][SigNext]_sigVars /\ SigFairness

-----------------------------------------------------------------------------
\* The process ends only by an interrupt, or by a signal that came before the
\* mask was set; a tick, SIGUSR1 and SIGTERM never end it.
OnlyAnInterruptEndsIt == at = "ended" => causes # {}

\* No pending signal waits for ever, except behind lower ones that never stop:
\* others send them without end, or the process needs more than an interval
\* for a round, so that there is always a tick to be taken before a SIGTERM.
EverySignalIsTaken ==
  \A sig \in Signals :
    \/ []<>(sig \notin raised \/ at = "ended")
    \/ []<><<\E low \in {s \in Signals : s < sig} :
               Kill(low) \/ (~prompt /\ low = SIGALRM /\ Expire)>>_sigVars
=============================================================================
