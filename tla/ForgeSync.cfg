\* One forgeBatch from the coordinator's pool to the synchronizer's TxIDs,
\* through a forge block that a reorg may replace while its logs are read.
CONSTANTS
  ChainVerifiers <- MCChainVerifiers
  TokenSymbols <- MCTokenSymbols
  EthAddrBytes = {171}
  VerifierIdxs = {0, 1}
  MaxFeeIdxCoordinator = 2
  MaxL1CoordTxs = 0
  MaxL2Txs = 2
  Idxs = {256, 65535}
  ToIdxs = {1, 257}
  Amounts = {1025}
  Fees = {255}
  WordBytes = {1, 9}
  Vs = {27}
  TokenIDs = {0, 1}
  Nonces = {0}
  MaxLogs = 2
  MaxVersions = 2
  LoadAmounts = {2049}
  TokenAddrs = {7}
  FeeAddTokens = {10}
  MaxWithdrawCalls = 2
SPECIFICATION WithdrawSpec
CHECK_DEADLOCK FALSE
INVARIANT ForgeArgsRoundTrip EventsOfOneBlock UserCallsDecoded HistoryViewsReadBack WithdrawalsRecorded
