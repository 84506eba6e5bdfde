CONSTANTS
  t1 = t1
  t2 = t2
  a = a
  NoTask = NoTask
  Zero = zero
  Fault = fault
  Tasks <- TwoTasks
  Bytes <- BytesA
  BufLen = 1
  Cmds <- WrongCmds
  Faults <- AllFaults
  EarlyOpen = TRUE
SPECIFICATION Spec
SYMMETRY TaskSymmetry
CHECK_DEADLOCK FALSE
INVARIANTS
  MutualExclusion
  OnlyARejectedCallKeepsTheLock
PROPERTIES
  ALeakLastsUntilUnload
  OnlyAFailedLoadStrandsFiles
