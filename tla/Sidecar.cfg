SPECIFICATION FairSpec
CONSTANTS
  MaxSignals = 3
INVARIANTS
  TypeOK
  ServesWithRefresher
PROPERTIES
  StartSettles
  InterruptStopsRefresher
CHECK_DEADLOCK FALSE
