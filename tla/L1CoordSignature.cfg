\* One forgeBatch with one L1 coordinator tx, mined in a block that is not
\* replaced: the synchronizer decodes the tx's signature.
CONSTANTS
  ChainVerifiers <- MCChainVerifiers
  TokenSymbols <- MCTokenSymbols
  EthAddrBytes = {171}
  VerifierIdxs = {0}
  MaxFeeIdxCoordinator = 2
  MaxL1CoordTxs = 1
  MaxL2Txs = 1
  Idxs = {256, 65535}
  ToIdxs = {1, 257}
  Amounts = {0, 1025}
  Fees = {0, 255}
  WordBytes = {1, 2}
  Vs = {27}
  TokenIDs = {0, 1}
  Nonces = {0}
  MaxLogs = 1
  MaxVersions = 1
  LoadAmounts = {2049}
  TokenAddrs = {7}
  FeeAddTokens = {10}
  MaxWithdrawCalls = 0
SPECIFICATION WithdrawSpec
CHECK_DEADLOCK FALSE
INVARIANT L1CoordinatorRoundTrip
