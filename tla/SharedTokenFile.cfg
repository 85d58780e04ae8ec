SPECIFICATION SharedSpec
CONSTANTS
  Second = 1
  AuthLife = 5
  RefreshLife = 6
  Grace = 1
  Skews <- SmallSkews
  Sizes = {2, 3}
  MaxTime = 8
  FaultBudget <- NoFaults
INVARIANTS
  FileAlwaysLoads
PROPERTIES
  RotatedWhenDue
CHECK_DEADLOCK FALSE
