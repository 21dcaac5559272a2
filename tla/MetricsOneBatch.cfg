\* GetMetricsInternalAPI while batches and accounts are added and time passes.
CONSTANTS
  MaxBatches = 3
  MaxTime = 3
  Day = 1
  Txs = {0, 1}
  Fees = {0, 1}
  BJJs = {k1, k2}
  MaxAccounts = 2
SPECIFICATION Spec
PROPERTY TxsPerBatchOneBatch
