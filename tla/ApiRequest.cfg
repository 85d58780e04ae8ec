SPECIFICATION Spec
CONSTANTS
  Endpoints <- SmallEndpoints
  OrgIds = {"org", "Org#1"}
  KeyIds = {"key", "Key#1"}
  Special = {"Org#1", "Key#1"}
  Editors = {"auth", "other"}
  MaxEditors = 2
INVARIANTS
  TypeOK
  ReachesOperation
  EditedInOrder
CHECK_DEADLOCK FALSE
