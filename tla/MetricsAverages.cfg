\* GetMetricsInternalAPI while batches and accounts are added and time passes.
CONSTANTS
  MaxBatches = 3
  MaxTime = 2
  Day = 1
  Txs = {0, 1}
  Fees = {0, 1}
  BJJs = {k1}
  MaxAccounts = 1
SPECIFICATION Spec
PROPERTY MetricsAveragesExact
