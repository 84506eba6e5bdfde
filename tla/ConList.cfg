CONSTANTS
  n1 = n1
  n2 = n2
  n3 = n3
  n4 = n4
  NULL = NULL
  Addrs <- FourNodes
  CIDs <- FourIDs
SPECIFICATION Spec
SYMMETRY Symmetry
CHECK_DEADLOCK FALSE
INVARIANTS
  SearchIsComplete
PROPERTIES
  OnlyAHeadTakenFromTheRightBreaksTheList
  ImplementsSequence
