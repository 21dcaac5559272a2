\* Paging through GetCoordinatorsAPI while coordinators update their data.
CONSTANTS
  Endpoints = {"GetCoordinatorsAPI"}
  MaxItemID = 3
  InitRows = 2
  Tags = {"a"}
  Keys = {"x", "y"}
  Limits = {1, 2}
  UintWidth = 16
  Writes = TRUE
  SQLErrors = {"timeout"}
  MaxSQLErrors = 0
SPECIFICATION Spec
INVARIANT PaginationComplete
CHECK_DEADLOCK FALSE
