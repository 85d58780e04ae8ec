SPECIFICATION Spec
CONSTANTS
  Unset = Unset
  Empty = Empty
  Bad = Bad
  Readable = "config.json"
  Inputs <- SmallInputs
INVARIANTS
  TypeOK
  FollowsPrecedence
CHECK_DEADLOCK FALSE
PROPERTIES
  StartsAsSidecar
