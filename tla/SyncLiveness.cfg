\* Reorgs of any depth while the synchronizer is idle; liveness is asked of
\* the behaviours that never reorg below ReorgSafeHeight (= 5).
CONSTANTS
  BlocksToSync = 3
  InitHeight = 3
  MaxHeight = 6
  MaxReorgs = 2
  MinReorgHeight = 1
  ReorgWhileSyncing = FALSE
  MaxFailures = 1
SPECIFICATION Spec
INVARIANT ReorgDetectable
PROPERTY EventuallySynced HistoryRefinement
