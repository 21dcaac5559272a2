\* Paging through GetTxsAPI and GetBatchesAPI while the synchronizer inserts
\* rows, forges L1 txs and reorgs; the session ends when the client is done.
CONSTANTS
  Endpoints = {"GetTxsAPI", "GetBatchesAPI"}
  MaxItemID = 4
  InitRows = 2
  Tags = {"a", "b"}
  Keys = {"x"}
  Limits = {1, 2}
  UintWidth = 16
  Writes = TRUE
  SQLErrors = {"timeout"}
  MaxSQLErrors = 1
SPECIFICATION Spec
INVARIANT PaginationComplete
CHECK_DEADLOCK FALSE
