SPECIFICATION FairSpec
CONSTANTS
  Second = 1
  AuthLife = 3
  RefreshLife = 4
  Grace = 1
  Skews <- LateClock
  Sizes = {2}
  MaxTime = 12
  FaultBudget <- NetFaults
PROPERTIES
  RefreshedOrExits
  SavedInTheEnd
  CancelStopsRefresher
CHECK_DEADLOCK FALSE
