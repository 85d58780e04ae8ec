SPECIFICATION FairSpec
CONSTANTS
  MaxSignals = 3
PROPERTIES
  InterruptEnds
CHECK_DEADLOCK FALSE
