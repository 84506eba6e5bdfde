CONSTANTS
  c1 = c1
  c2 = c2
  c3 = c3
  None = None
  NoArg = NoArg
  Junk = "v"
  Commands <- TwoCommands
  Length <- Lengths
  BufSize = 20
  MaxLines = 2
  MaxAsks = 3
  UartFaults <- AllUartFaults
  Clients <- ThreeClients
  Kinds <- KvmOrEmpty
  Arguments <- GoodArguments
  Extras = {0}
  PerClient = 1
  MayDie = FALSE
  MaxFds = 2
  Transports = {"tcp", "udp"}
  DatagramClients <- TwoClients
SPECIFICATION FairKvmSpec
CHECK_DEADLOCK FALSE
INVARIANTS
  AnswerIsItsOwn
  CommandIsSentWhole
PROPERTY EveryClientIsAnswered
