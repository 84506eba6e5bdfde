CONSTANTS
  c1 = c1
  c2 = c2
  c3 = c3
  None = None
  NoArg = NoArg
  Junk = "v"
  Commands <- TwoCommands
  Length <- Lengths
  BufSize = 20
  MaxLines = 1
  MaxAsks = 3
  UartFaults <- OpenOrMemory
  Clients <- TwoClients
  Kinds <- AllKinds
  Arguments <- AllArguments
  Extras = {0, 3}
  PerClient = 3
  MayDie = TRUE
  MaxFds = 2
  Transports = {"tcp", "udp", "lossy"}
  DatagramClients <- TwoClients
SPECIFICATION KvmSpec
SYMMETRY Symmetry
CHECK_DEADLOCK FALSE
INVARIANTS
  FaultsHaveTheirCause
  AnswersItsRequest
  LeakOnlyByReset
  WaitsHaveTheirCause
