SPECIFICATION ConditionsSpec
CONSTANTS
  UserType = {"file-error", "io-error"}
  ParentType = {"error", "io-error"}
  ClauseType = {"io-error"}
  MaxDefs = 2
INVARIANT ConditionLeavesFile
CHECK_DEADLOCK FALSE
