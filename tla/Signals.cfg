CONSTANTS
  Period = 5
  MaxDelay = 6
SPECIFICATION BothSpec
CHECK_DEADLOCK FALSE
INVARIANTS
  HeartbeatIsNeverLost
  OnlyAnInterruptEndsIt
PROPERTIES
  BeatsForever
  EverySignalIsTaken
