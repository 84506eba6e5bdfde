CONSTANTS
  t1 = t1
  t2 = t2
  a = a
  NoTask = NoTask
  Zero = zero
  Fault = fault
  Tasks <- TwoTasks
  Bytes <- BytesA
  BufLen = 2
  Cmds <- LegalCmds
  Faults <- AllFaults
  EarlyOpen = FALSE
SPECIFICATION FairSpec
CHECK_DEADLOCK FALSE
INVARIANTS
  UnloadedHoldsNothing
  QuietLoadIsSafe
PROPERTIES
  ImplementsStore
  EveryCallReturns
