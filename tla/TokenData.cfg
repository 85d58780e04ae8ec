SPECIFICATION Spec
CONSTANTS
  Null = Null
  Empty = Empty
  Odd = Odd
  Values = {Null, Empty, Odd, "A"}
  Damaged = Damaged
  MandatoryKeys = {"token"}
  ForeignKeys = {"env"}
INVARIANTS
  TypeOK
  ReloadsMemory
PROPERTIES
  NoDataLost
CHECK_DEADLOCK FALSE
