# TLA+ models of hermez-node

This directory holds TLA+ models of the hermez-node coordinator node in `src/`,
along with the TLC configurations that check them. Each module is translated from
the Go source. `PROJECT.json` maps every definition to the lines it models.
It also lists the runs, the mutants that show each checked property can fail,
the findings, and the hazards of the code.

## The system and its parts

| Part | Source | Role | Model |
|---|---|---|---|
| Synchronizer | `src/unnamed/part_001` (`Sync`, `reorg`, `Status`) | Follows the Ethereum chain block by block into the History DB, and detects and undoes reorgs | `Synchronizer.tla`, refining `HistoryStore.tla` |
| History DB API reads and their HTTP handlers | `src/unnamed/part_000` (`Get*API`), `src/api/coordinator.go`, `src/common/accountcreationauths.go` (`getHistoryTxs`), `src/unnamed/part_005..7` (`retSQLErr`, `getExits`, `getBids`) | Paginated list queries the REST API serves, running while the synchronizer writes | `HistoryAPI.tla` |
| L2Tx | `src/common/l2tx.go` | Data-availability bytes, type and TxID of an L2 tx | `L2Tx.tla` |
| Rollup client: forgeBatch and events | `src/eth/rollup.go` (`RollupConstants`, `RollupForgeBatch`, `RollupEventsByBlock`, `RollupForgeBatchArgs`) | The coordinator encodes a batch into `forgeBatch` calldata; the synchronizer reads the block's events and decodes the batch back | `RollupCodec.tla` (with `MCRollupCodec.tla`) |
| Rollup client: user calls | `src/eth/rollup.go` (`RollupL1UserTxERC20ETH`, `RollupL1UserTxERC777`, `RollupAddToken`) | A user's L1 tx and token registration, sent directly or as ERC777 data | `RollupUserTx.tla` |
| Rollup client: withdrawals | `src/eth/rollup.go` (`RollupWithdrawMerkleProof`, the WithdrawEvent case of `RollupEventsByBlock`) | A user withdraws an exit; the synchronizer records it on the exit row | `RollupWithdraw.tla` |
| Next forgers | `src/unnamed/part_000` (`GetNextForgersInternalAPI`, `getBestBidsAPI`, `getCoordinatorAPI`) | Who forges each slot up to the last closed one | `NextForgers.tla` |
| Metrics | `src/unnamed/part_000` (`GetMetricsInternalAPI`) | Rates over the last 24 hours | `Metrics.tla` |
| ProversPool | `src/unnamed/part_005` | Buffered channel of idle provers shared by the pipeline workers | `ProversPool.tla` |
| BatchBuilder | `src/unnamed/part_001` | Wrapper over the local state DB (not in this repository) | not modelled |
| Legacy API conversions | `src/api/dbtoapistructs.go` (`historyTxsToAPI`, `historyExitsToAPI`, `bjjToString`, `idxToHez`, `ethAddrToHez`, `GetPagination`) | Format History DB rows as the REST API's JSON items and their pagination | `APIConversions.tla`, composed with ForgeSync |
| Parsers, single-item handlers | `src/api/parsers` | Request parsing | not modelled |

The parts interact as follows:
- The synchronizer writes blocks, and their rows, into the History DB.
- API clients page through those rows, through the HTTP handlers, while the writes go on.
- The coordinator encodes a batch into `forgeBatch` calldata with the NLevels of
  the verifier it names; the synchronizer reads the block's events, decodes the
  calldata with the same verifier's NLevels, and rebuilds the L2 txs and their TxIDs.
- Pipeline workers take a prover from the ProversPool, have it prove, and give it back.

## Modules

### Synchronizer.tla

**Environment.** The chain is a sequence of block hashes. A hash is abstracted to
the "version" of the fork that produced the block.
- `Mine` grows the chain.
- `ChainReorg(k)` replaces every block from height `k` up.

**History DB.** `history` is the block table, a sequence of `[num, hash]` records.

**Actions.** `Sync` holds `s.mux`, so one Sync runs at a time. It is split at every
chain RPC, because the chain may change between two calls:

| Action | Code |
|---|---|
| `SyncBegin` | Lines 79-127: firstSavedBlock, last stored block, tip check |
| `ReorgStep` | One iteration of `reorg`'s walk, lines 182-200. On a match it also covers `historyDB.Reorg` (lines 202-220) |
| `ReorgGiveUp` | `ErrNotAbleToSync` |
| `FetchHead` | `EthCurrentBlock` |
| `SyncBlock` | One iteration of the loop, lines 139-167 |
| `SyncDone` | Lines 168-171 |
| `SyncFail` | Any of Sync's error returns |
| `Status` | `Status`, lines 227-259, under the same mutex |

`rollupSync` and `auctionSync` are stubs in this version, so the state-DB reset is
unreachable.

`Status` declares `var status *Status` and writes through it without allocating
it. Once a block is stored, every call panics (line 239), and the rest of the
function never runs. The model records the outcome ("error" with an empty DB,
"panic" otherwise). No run checks it: any call of Status shows it, so a unit test
catches it easily.

**Fairness.** Weak fairness holds on each Sync action and on nothing else. The node
calls Sync in a loop, and a running Sync makes progress unless a call fails. The
chain and the failures are never forced.

### HistoryStore.tla

The abstract History DB: the block table only grows by the chain's block at the
height after its last block (or by any block, when empty), and only shrinks by
`Reorg(n)` to a height whose stored block the chain still has. `Synchronizer`
instantiates it with the identity mapping on `chain` and `history`;
`HistoryRefinement` (`AbsHistory!Spec`) is checked as a property of SyncLiveness.

### HistoryAPI.tla

**Table.** One table of rows indexed by `item_id`. Each row has:
- a filter tag;
- a key (the bidder, for coordinators);
- `forged` (a tx with a batch);
- `live` (not removed by a reorg).

**Queries.** Each list query is its WHERE clause (`TxsWhere`, `CoordinatorsWhere`, …)
plus the shared parts:
- `FromItemClause` is the inclusive cursor;
- `Page` is `ORDER BY item_id` with `LIMIT`;
- `TotalItems` is `COUNT( * ) OVER ()`;
- `PendingItems` / `TokensPendingItems` compute pendingItems as `uint64`, width
  `UintWidth`.

**Handlers.** The client reaches a query through its HTTP handler
(`getCoordinators`, `getHistoryTxs`, `getExits`, `getBids`, `getTokens`, all the
shape `ListHandler`): a query error goes through `RetSQLErr` (503 for the
connection-pool timeout, 409, 404, 500) and returns; otherwise 200 with the
items and pendingItems. A query may fail with one of `SQLErrors`, at most
`MaxSQLErrors` times per session. The parsers are not modelled: the client
sends valid parameters.

**Client.** The client calls `FirstPage`, then `NextPage` with the cursor just past
the last item while `pendingItems # 0`, then `LastPage`. A non-200 answer leaves
the cursor where it was and the call is made again (the design's retry of a
transient error).

**Writes.** With `Writes`, the synchronizer runs concurrently:
- `InsertRow` adds a row;
- `ForgeTx` sets a tx's batch;
- `ReorgRows` removes the newest rows.

`stable` is the set of entities the query selected at every step since the first
call. Those are the entities a correct pagination must deliver.

### L2Tx.tla

Pure operators of `common/l2tx.go`. Bytes are integers 0..255 and byte strings
are sequences, with Go slice semantics.
- `BytesDataAvailability(tx, nLevels)` / `L2TxFromBytesDataAvailability`: from and
  to idxs truncated to `nLevels/8` bytes, the Float16 amount, the fee.
- `SetType`, `CalculateTxID` (prefix 0x02 and the hash of from, token, amount,
  nonce, fee; ToIdx is not hashed), `SetID`, `NewL2Tx`.
- `Tx`: the `common.Tx` of a forged L2 tx. `BatchNum`, `Fee` and `Nonce` are
  pointers to copies, modelled as one-element sets. APIConversions builds the
  History DB row of each synced L2 tx from it.

SHA-256 is the record that keeps its preimage (collision-free). `Idx.Bytes`
fails above 48 bits and `Nonce.Bytes` above 40; TLC's integers stop at 2^31, so
neither bound is reachable and both failure paths are left out.

### RollupCodec.tla

One forgeBatch from the coordinator's pool to the synchronizer's TxIDs. Variables:
the account `state`, the coordinator's `args`, the mined `calldata`, the
versions `blocks` of the forge block, the `fetched` events, the `decoded` args,
the `txIDs`, and `phase`.

**Actions.**
- `RollupForgeBatch`: `RollupConstants` reads the first `LenVerifiers` (= 1)
  verifiers; `VerifierNLevels` indexes them with the args' `VerifierIdx`, and an
  index past them panics (phase "panic"). Then too many fee idxs fail; otherwise
  it encodes the L1 coordinator txs, the L2 data availability and the padded fee
  idxs, and the transaction is mined in version 1 of the forge block.
- `Reorg`: the forge block is replaced by another version (bound `MaxVersions`).
- `SyncEvents`: `RollupEventsByBlock` on a FilterLogs answer that is an error, the
  current version, or (while the block is replaced) a mix of two versions; the
  hash of the first log is checked against every log. The synchronizer keeps
  events whose hash is the block's.
- `SyncForgeBatch`: for the ForgeBatch event, `RollupForgeBatchArgs` decodes the
  calldata with the NLevels of its verifier, and `NewL2Tx` rebuilds the L2 txs
  with TokenID and Nonce from the account state (the processor's fill, modelled
  from the design, since rollupSync is a stub).

A failed `RollupConstants` call returns an error and changes nothing (a
stuttering step). **Layouts taken from the spec**: `L1Tx.BytesCoordinatorTx`
(v r s bjj token), `Idx.Bytes` (6-byte big-endian), and `L2Tx.Bytes`, the
data-availability layout.

`MCRollupCodec.tla` gives the contract's verifiers (`ChainVerifiers`, a
sequence) and the tokens' symbols for TLC, and composes `RollupUserTx`,
`RollupWithdraw` and `APIConversions` (each extends the one before).

### RollupUserTx.tla

The user-side calls: `RollupL1UserTxERC20ETH` (a direct `AddL1Transaction`, with
the load amount as the call's ETH value for token 0), `RollupL1UserTxERC777` (an
ERC777 send of the load amount in HEZ whose data is the method id and six
left-padded words, laid out by hand) and `RollupAddToken` (an ERC777 send of the
fee with the method id and the padded token address). The contract's side,
outside this repository, is `Received`: a direct call as it is, or the send's
data dispatched on its method id and ABI-decoded, each `uintN` from the word's
low bytes. `UserCallsDecoded` is a state predicate over the L1 user txs of the
accounts of RollupCodec's state, checked in ForgeSync.

### RollupWithdraw.tla

Withdrawals of the exits of the synced batch. `WithdrawMerkleProof` is a user's
call of `RollupWithdrawMerkleProof` for an exit row, instant or delayed, mined in
a block of its own. `SyncWithdrawBlock` is the synchronizer reading that block
with `RollupEventsByBlock` and recording each `WithdrawEvent` on its exit row.
The contract and the History DB are outside this repository and are modelled
from the spec:
- `WithdrawReceived` checks the exit leaf against batch `numExitRoot` and the
  nullifier, and emits `WithdrawEvent(idx, numExitRoot, instant)` or reverts;
- `ApplyWithdrawEvents` sets `instant_withdrawn` or `delayed_withdraw_request`
  to the block number.

The exit rows (`ExitRows`) carry those two columns, so `HistoryViewsReadBack`
also checks them through the API. RollupCodec keeps the L2 txs the synchronizer
builds (`l2Txs`), and the rows are read from it. `WithdrawalsRecorded` says each
exit row records exactly the first withdrawal its owner sent, once its block is
processed. A retry changes nothing, and no other row is touched.

### APIConversions.tla

The legacy conversions of `api/dbtoapistructs.go`, applied to the rows the
synchronizer stores for the batch ForgeSync forges. The encoders are translated
from the code, and each does what the code does to the bytes:
- `bjjToString` appends a one-byte checksum (the byte sum, mod 256) to the
  compressed key and encodes it as raw URL base64 behind `hez:`;
- `ethAddrToHez` writes `0x` and lowercase hex;
- `idxToHez` writes `hez:`, the token symbol, `:` and the decimal idx;
- `historyTxsToAPI` and `historyExitsToAPI` build the items, with `L1Info`
  and `L2Info` present or absent by the row's kind;
- `GetPagination` takes the first and last item IDs, swapped when the page is
  DESC.

`L2Row` is the row of `Tx(ForgedL2Tx(tx, i))`. `ForgedL2Tx` is the L2 tx as
the synchronizer stores it: in the synced batch, at position `i - 1`, in the
forge block. The History DB rows (`SyncedL2Txs`, `L2Row`, `L1Row`, `ExitRows`) and a
client's readers of the strings (`ReadHezIdx`, `ReadHezBJJ`, `ReadHezEthAddr`,
`ReadTx`, `ReadExit`) are modelled from the spec. Their code is not in this
repository. `HistoryViewsReadBack` says every field a client reads back from
a page, in either order, is the row's, and the pagination bounds are the
page's lowest and highest item ID. It also says every L1 user tx of the
accounts reads back. The L1 part is a constant-level set (`L1RowsMisread`),
evaluated once.
### NextForgers.tla

**Tables.** Bids, coordinators and `auction_vars` are sequences in insertion order,
so an index is an `item_id`.

**Environment.** The auction contract drives the model, with these rules:
- a bid on an open slot must reach the slot's min bid and outbid its best bid;
- a `SetDefaultSlotSetBid` applies from the first open slot;
- slots advance.

**Snapshot.** The API call uses the snapshot (auction variables, current slot) that
the synchronizer publishes after a block, as the design's atomic snapshot swap
requires. The DB may be newer than the snapshot.

**Queries.** `getBestBidsAPI` takes the `MAX(item_id)` bid of each slot, joined with
the bidder's latest coordinator row. `MinBidInfo` is the shortcut of lines
1005-1011 or `getMinBidInfo`.
- `getMinBidInfo` is not in `src/`. It is modelled as the latest update per
  `slotNum` up to the last closed slot, most recent first.
- `MostRecentUpdate` is the loop of line 1043.
- `BeatsMinBid` is `Cmp(...) == 1`.

**Reference.** `NextForgersCorrect` compares every answer with the auction's rule:
- the highest bid wins if it reaches the min bid in force for the slot;
- the min bid in force comes from the last update applying from that slot or
  before;
- otherwise the boot coordinator forges.

### Metrics.tla

**Tables.** Batches carry a block time, a fee, L1-user and L2 tx counts, and the
time their L1 txs were added. Accounts carry a BJJ key. `now` is the database
clock.

**Queries.** `GetMetricsInternalAPI` follows the function query by query:
- `Period` is the `COALESCE(MIN…)` window query;
- `Between` is `batch_num between`;
- `Seconds` and `NBatches` include their division-by-zero guards.

The float results are exact fractions. `MetricsAveragesExact` compares them with
averages over the batches of the last 24 hours.

### ProversPool.tla

`coordinator.ProversPool`: a buffered channel of `MaxServerProofs` provers.
`Add` is the select between the send and `ctx.Done()`; `Get` is the select
between `ctx.Done()` (ErrDone) and a receive, either case when both are ready.
The callers are not in this repository and follow the design: the coordinator
adds its provers (`Setup`), and each worker loops `WorkerGet`, `Prove`,
`WorkerAdd`. `Cancel` closes the context at any time.

**Fairness.** Weak fairness on `Setup`, `Prove` and `WorkerAdd`: the goroutines
keep running. Strong fairness on `WorkerGet`: Go hands a sent value to the
receivers blocked on a channel in the order they blocked, so a receive enabled
again and again is eventually taken. `Cancel` is not forced. No symmetry is
used, since `GetReturns` is a liveness property.

## Runs

| Run | Module | Result | What it shows |
|---|---|---|---|
| SyncLiveness | Synchronizer | pass (83,574 states) | `ReorgDetectable`, `EventuallySynced` and `HistoryRefinement`: with reorgs of any depth between Syncs (down to height 1, below firstSavedBlock) and one failing call, no stale block stays under a canonical tip, the table refines `HistoryStore`, and Sync eventually mirrors the chain unless a reorg goes below what the walk can reach. Chain of height 3 to 6, 2 reorgs, blocksToSync 3 |
| SyncConcurrentReorg | Synchronizer | violation | A reorg during the sync loop leaves a stale block under a canonical tip. It is never detected (finding) |
| HistoryStatic | HistoryAPI | pass (13,984 states) | `PendingItemsExact`: on an unchanging table, every 200 page of the six non-token endpoints reports the matching rows not yet returned, both orders, limits 1 and 2, filters, with one query failing (503 or 500) and retried |
| HistoryConcurrent | HistoryAPI | pass (764,322 states) | `PaginationComplete`: paging txs or batches while rows are inserted, forged and reorged, and one query times out, returns every stably-selected row exactly once. Up to 4 rows, 2 of them written during paging |
| CoordinatorsConcurrent | HistoryAPI | violation | A coordinator update moves it behind a DESC cursor, and the client never sees it (finding) |
| TokensPagination | HistoryAPI | violation | GetTokensAPI's pendingItems underflows (finding) |
| ForgeSync | MCRollupCodec | pass (703,388 states, about 75 s) | `ForgeArgsRoundTrip`, `EventsOfOneBlock`, `UserCallsDecoded`, `HistoryViewsReadBack`, `WithdrawalsRecorded`: the L2 txs and fee idxs decode to what was encoded; whatever mix of two block versions the node returns, the events kept come from one version; the user calls reach the contract with the same fields by both entry points; and the API items of the synced txs and exits read back to their rows, with the right page bounds in both orders; and up to 2 withdrawals of the exits (instant or delayed, the second possibly for an exit already withdrawn) are each recorded on their exit row at their block once synced. Key words of byte 1 and 9 (so the bjj checksum wraps past 255), token symbols ETH and HEZ. Idxs 256 and 65535 (both truncated bytes), up to 2 L2 txs from the same or different senders, 0 to 3 fee idxs against a maximum of 2, VerifierIdx 0 and 1 against one verifier, 2 logs per block, 2 block versions |
| L1CoordSignature | MCRollupCodec | violation | The decoder reads v s r where the spec writes v r s (finding) |
| NextForgers | NextForgers | pass (105,953 states) | `NextForgersCorrect`: every answer names the forger the auction gives each slot. 2 bidders, 2 slot sets, min bids and bids in {1,2}, slots 0-3 with 1 closed slot, min-bid updates in and past the window |
| MetricsAverages | Metrics | pass (794,507 states) | `MetricsAveragesExact`: with ≥ 2 batches in the last day, the batch-number range is exactly those batches and the rates are their averages. 3 batches over times 0-2 with a 1-unit day |
| MetricsOneBatch | Metrics | violation | With one batch in the window, txs per batch is 0 (finding) |
| ProversPool | ProversPool | pass (1,748 states) | `ProversAccounted` and `GetReturns`: 3 provers, a channel of 2 (so an `Add` blocks), 3 workers, cancellation at any time: until the node stops no prover is lost or duplicated, and every `Get` returns |

The bounds are small, and each is chosen so that its case actually happens:
- a reorg strictly inside the stored range, a walk that must give up, a failure
  in the middle of the loop;
- a page boundary falling on an inserted, forged or removed row, a DESC cursor
  reaching 0, a query failing on the first and on a later page;
- an idx needing both truncated bytes, a fee list longer than allowed, two L2 txs
  of one sender (nonces from the state), a VerifierIdx out of range, a FilterLogs
  answer mixing two versions in either order;
- more provers than the channel holds, and as many workers as provers;
- a key whose byte sum passes 255, and pages of one and two rows in both orders;
- two withdrawal calls, so that one exit is withdrawn twice (the second call reverts on the nullifier)
  or two exits once each, of either kind, with the synchronizer behind or caught up.

Every property of a passing run has a mutant in `PROJECT.json`. Each mutant is a
plausible bug in the mapped code, and TLC finds it.

## Findings

Each finding is recorded in `PROJECT.json` with its trace-producing run:
- **SyncConcurrentReorg.** Reorg detection compares only the tip (part_001:114).
- **TokensPagination.** `GetTokensAPI` computes pendingItems as
  `len - total` (part_000:423).
- **CoordinatorsConcurrent.** Coordinators are paginated over a per-bidder
  `MAX(item_id)` (part_000:741).
- **L1CoordSignature.** r and s are swapped in `RollupForgeBatchArgs`
  (rollup.go:756).
- **MetricsOneBatch.** Txs per batch is reported as 0 for a single batch
  (part_000:1131).

Observations not given a run (the project keeps at most one run per question,
and these are shown by a single call or need a run of their own):
- the nil `*Status` in `Status` (part_001:239);
- in `GetMetricsInternalAPI`, the swapped `total_bjj` / `total_idx` aliases
  (part_000:1170) and the whole-history count when the last 24 hours hold no
  batch (part_000:1103);
- `RollupUpdateForgeL1L2BatchTimeout` sends `uint8(newForgeL1L2BatchTimeout)`
  (rollup.go:546): a timeout of 256 or more wraps silently;
- `Verifiers[VerifierIdx]` (rollup.go:327 and 772) panics for a VerifierIdx past
  the `LenVerifiers` = 1 verifiers read; ForgeSync reaches the panic, but only a
  contract with two verifiers would make it a disagreement;
- `idxToHez` (dbtoapistructs.go:35) does not escape `:`, so a token symbol
  containing `:` gives a string that splits into the wrong fields;
- `GetPagination` (dbtoapistructs.go:46) indexes the first item, and panics on
  an empty page. `HistoryViewsReadBack` only asks it of non-empty pages,
  because the callers are not in this repository.

## Not modelled

- **The state DB, the L2 tx pool, txselector and the contracts.** Their code is not
  in this repository; the contract's side of the calls is modelled from the spec
  only where a client call needs a receiver.
- **The txselector test code appended to `eth/rollup.go` (lines 802-1285).** It
  is test code.
- **Parsers and the single-item handlers (`getHistoryTx`, `getExit`, ...).**
  Parsing of query strings has no state and nothing that interleaves. The
  single-item getters read one row by id with no cursor; a property about them
  would restate the query's WHERE clause and `retSQLErr`'s 404 branch. `ParseSlotsFilters` (`api/parsers/slots.go`) uses filter types that are
  not in this repository.
- **`L2Tx.PoolL2Tx` and `L2TxsToPoolL2Txs`.** They are field copies with no
  caller in this repository.
- **BatchBuilder.** `NewBatchBuilder`, `Reset` and `BuildBatch` only delegate to
  the local state DB, and its code is not in this repository.
- **The L1UserTx, UpdateForgeL1L2BatchTimeout and UpdateFeeAddToken logs, and the
  setters.** The L1UserTx log's decoder (`L1UserTxFromBytes`) is not in this
  repository. Nothing in it reads the rollup variables either: `rollupSync` is
  a stub. `RollupWithdrawCircuit` only returns `errTODO`, and
  `RollupRegisterTokensCount` is a read.
- **The auction client and the `apiConnCon` connection limit.** RPC wrappers, and a
  semaphore outside this repository; its timeout is one of the query errors.
