CONSTANTS
  Region = 15
  Window = 5
  Args <- SomeArgs
  Inputs <- SomeInputs
  TokenInputs <- Splits
  DiskInputs <- Disks
  Word16 = 4
  SectorSize = 2
  Thousand = 3
  Groups = 6
  Giga = 10
  c1 = c1
  c2 = c2
  NoClient = NoClient
  Clients <- TwoClients
  BUFSIZE = 3
  Arguments = {0, 1, 2}
  TcpFaults <- AnyFault
SPECIFICATION ProgramsSpec
CHECK_DEADLOCK FALSE
INVARIANTS
  ComparesOnTheCircle
  BuiltIsDecoded
  FieldsFitTheArray
  PrintsTheDrive
  EchoIsABeginning
PROPERTIES
  EveryClientEnds
