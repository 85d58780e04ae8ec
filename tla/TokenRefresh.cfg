SPECIFICATION Spec
CONSTANTS
  Second = 1
  AuthLife = 2
  RefreshLife = 3
  Grace = 1
  Skews <- NoSkew
  Sizes = {2, 3}
  MaxTime = 5
  FaultBudget <- AnyFault
INVARIANTS
  TypeOK
  DiskMirrorsMemory
  EpochOrder
  SessionCurrent
PROPERTIES
  MemoryOnlyAdvances
  KeepsSession
CHECK_DEADLOCK FALSE
