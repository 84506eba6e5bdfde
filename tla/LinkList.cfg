CONSTANTS
  n1 = n1
  n2 = n2
  n3 = n3
  i1 = i1
  i2 = i2
  NULL = NULL
  Addrs <- ThreeNodes
  Indexes <- TwoIndexes
  Habits <- AnyOrOneEnd
SPECIFICATION Spec
SYMMETRY Symmetry
CHECK_DEADLOCK FALSE
PROPERTIES
  SoundListsAreSpoiltByFew
  ImplementsStacks
