\* The chain may reorg between any two RPCs of a Sync.
CONSTANTS
  BlocksToSync = 2
  InitHeight = 2
  MaxHeight = 5
  MaxReorgs = 1
  MinReorgHeight = 1
  ReorgWhileSyncing = TRUE
  MaxFailures = 0
SPECIFICATION Spec
INVARIANT ReorgDetectable
