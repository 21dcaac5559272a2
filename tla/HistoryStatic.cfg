\* Paging through every list query except GetTokensAPI on a table nobody
\* writes to; the client's session ends when it is done.
CONSTANTS
  Endpoints = {"GetBatchesAPI", "GetBidsAPI", "GetTxsAPI", "GetExitsAPI",
               "GetCoordinatorsAPI", "GetAccountsAPI"}
  MaxItemID = 3
  InitRows = 3
  Tags = {"a", "b"}
  Keys = {"x", "y"}
  Limits = {1, 2}
  UintWidth = 16
  Writes = FALSE
  SQLErrors = {"timeout", "other"}
  MaxSQLErrors = 1
SPECIFICATION Spec
INVARIANT TypeOK
INVARIANT PendingItemsExact
CHECK_DEADLOCK FALSE
