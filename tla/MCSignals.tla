----------------------------- MODULE MCSignals ------------------------------
(* The two programs of signalalarm/ side by side, for model checking.  The *)
(* alarm is one of five ticks; alarmmain may be delayed for six.           *)
EXTENDS AlarmLoop, SignalLoop

BothInit == Init /\ SigInit
BothNext ==
  \/ Next /\ UNCHANGED sigVars
  \/ SigNext /\ UNCHANGED vars
BothSpec == BothInit /\ [][BothNext]_<<vars, sigVars>> /\ Fairness /\ SigFairness
=============================================================================
