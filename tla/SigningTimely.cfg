SPECIFICATION SigningSpec
CONSTANTS
  Second = 3
  AuthLife = 7
  RefreshLife = 7
  Grace = 3
  Skews <- SmallSkews
  Sizes = {2, 3}
  MaxTime = 17
  MaxRtt = 1
  MaxDelay = 1
  FaultBudget <- DiskFaults
INVARIANTS
  FreshToken
  NeverRefused
CHECK_DEADLOCK FALSE
