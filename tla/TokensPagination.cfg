\* Paging through GetTokensAPI (pendingItems = len - total) on a static table.
CONSTANTS
  Endpoints = {"GetTokensAPI"}
  MaxItemID = 3
  InitRows = 3
  Tags = {"a"}
  Keys = {"x"}
  Limits = {1, 2}
  UintWidth = 16
  Writes = FALSE
  SQLErrors = {"timeout"}
  MaxSQLErrors = 0
SPECIFICATION Spec
INVARIANT PendingItemsExact
CHECK_DEADLOCK FALSE
