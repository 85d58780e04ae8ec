SPECIFICATION FairSpec
CONSTANTS
  Refs = {"schema1", "schema2", "response", "undefined", "security", "parameter"}
  KindOf <- SmallKinds
  Operations = {"getKey", "updateKey"}
  Relevant = {"getKey"}
  Documents <- SmallDocuments
INVARIANTS
  TypeOK
  OutputIsClosed
  OutputIsMinimal
PROPERTIES
  FilterEnds
CHECK_DEADLOCK FALSE
