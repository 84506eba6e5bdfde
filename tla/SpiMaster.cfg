CONSTANTS
  Width = 3
  MaxFds = 2
  Bytes <- SomeBytes
  Failures <- SomeFailures
SPECIFICATION Spec
CHECK_DEADLOCK FALSE
INVARIANTS
  DataErrorsStayInTheirBit
  StepIsLostForGood
  OpenedIsReady
PROPERTY ImplementsExchange
