------------------------------ MODULE Metrics ------------------------------
(***************************************************************************)
(* HistoryDB.GetMetricsInternalAPI: the network metrics of the last 24     *)
(* hours, computed from the batch, tx and account tables while the         *)
(* synchronizer keeps adding batches and accounts.                         *)
(*                                                                         *)
(* A batch is [time, fee, l1, l2, added]: the timestamp of its block, its  *)
(* total_fees_usd, its L1 user txs (all added to the chain at time         *)
(* "added") and its L2 txs; batch_num is its index.  Float results are     *)
(* kept exact as fractions [num, den].  "now" is NOW() of the database.   *)
(***************************************************************************)
EXTENDS Integers, Sequences, SequencesExt, FiniteSets

CONSTANTS
  MaxBatches,   \* batches the model forges (bound)
  MaxTime,      \* last value of now (bound)
  Day,          \* INTERVAL '24 HOURS'
  Txs,          \* numbers of L1 user or L2 txs in a batch
  Fees,         \* total_fees_usd of a batch
  BJJs,         \* BabyJubJub keys of accounts
  MaxAccounts   \* accounts the model creates (bound)

VARIABLES
  now,       \* the database's clock
  batches,   \* batch table joined with the block of each batch
  accounts,  \* account table: the bjj of each idx
  metrics    \* result of the last call, [] before the first

vars == <<now, batches, accounts, metrics>>

Frac(n, d) == [num |-> n, den |-> d]
Zero == Frac(0, 1)

\* batch.batch_num between from and to
Between(from, to) == {b \in DOMAIN batches : from <= b /\ b <= to}

(***************************************************************************)
(* The queries of GetMetricsInternalAPI.                                   *)
(***************************************************************************)
\* batches whose block is at most 24h old
InLastDay == {b \in DOMAIN batches : batches[b].time >= now - Day}

\* COALESCE (MIN(batch_num), 0), COALESCE (MIN/MAX(timestamp), NOW())
Period(lastBatchNum) ==
  LET W == InLastDay
      T == {batches[b].time : b \in W}
  IN [from |-> IF W = {} THEN 0 ELSE Min(W),
      to |-> lastBatchNum,
      fromTime |-> IF W = {} THEN now ELSE Min(T),
      toTime |-> IF W = {} THEN now ELSE Max(T)]

\* Mutant: the number of batches without the +1
NBatchesOff(p) == IF p.to - p.from = 0 THEN 1 ELSE p.to - p.from

\* nBatches := To - From + 1, and 1 if that is 0
NBatches(p) == IF p.to - p.from + 1 = 0 THEN 1 ELSE p.to - p.from + 1

\* seconds := ToTimestamp - FromTimestamp, and 1 if that is 0
Seconds(p) == IF p.toTime - p.fromTime = 0 THEN 1 ELSE p.toTime - p.fromTime

\* COUNT(*) AS total_bjj, COUNT(DISTINCT(bjj)) AS total_idx: the aliases
\* are assigned to TotalBJJs and TotalAccounts respectively
AccountCounts ==
  [totalAccounts |-> Cardinality({accounts[i] : i \in DOMAIN accounts}),
   totalBJJs |-> Len(accounts)]

GetMetricsInternalAPI(lastBatchNum) ==
  LET p == Period(lastBatchNum)
      R == Between(p.from, p.to)
      nTxs == MapThenSumSet(LAMBDA b : batches[b].l1 + batches[b].l2, R)
      nL2Txs == MapThenSumSet(LAMBDA b : batches[b].l2, R)
      totalFee == MapThenSumSet(LAMBDA b : batches[b].fee, R)
      L1 == {b \in R : batches[b].l1 > 0}
      delay == MapThenSumSet(LAMBDA b : batches[b].l1 * (batches[b].time - batches[b].added), L1)
      nL1 == MapThenSumSet(LAMBDA b : batches[b].l1, L1)
  IN [transactionsPerSecond |-> Frac(nTxs, Seconds(p)),
      transactionsPerBatch |->
        IF p.to - p.from > 0 THEN Frac(nTxs, NBatches(p)) ELSE Zero,
      batchFrequency |-> Frac(Seconds(p), NBatches(p)),
      avgTransactionFee |-> IF nL2Txs > 0 THEN Frac(totalFee, nL2Txs) ELSE Zero,
      estimatedTimeToForgeL1 |-> IF nL1 > 0 THEN Frac(delay, nL1) ELSE Zero]
    @@ AccountCounts

-----------------------------------------------------------------------------
(***************************************************************************)
(* The synchronizer stores forged batches and new accounts; time passes.   *)
(***************************************************************************)
LastTime == IF batches = <<>> THEN 0 ELSE Last(batches).time

Tick ==
  /\ now < MaxTime
  /\ now' = now + 1
  /\ UNCHANGED <<batches, accounts, metrics>>

AddBatch ==
  /\ Len(batches) < MaxBatches
  /\ \E t \in LastTime..now, a \in 0..now, l1 \in Txs, l2 \in Txs, fee \in Fees :
       /\ a <= t
       /\ batches' = Append(batches, [time |-> t, fee |-> fee, l1 |-> l1, l2 |-> l2,
                                      added |-> a])
  /\ UNCHANGED <<now, accounts, metrics>>

AddAccount ==
  /\ Len(accounts) < MaxAccounts
  /\ \E k \in BJJs : accounts' = Append(accounts, k)
  /\ UNCHANGED <<now, batches, metrics>>

\* the API asks for the metrics with the last batch the node knows
GetMetrics ==
  /\ metrics' = GetMetricsInternalAPI(Len(batches))
  /\ UNCHANGED <<now, batches, accounts>>

Init ==
  /\ now = 0
  /\ batches = <<>>
  /\ accounts = <<>>
  /\ metrics = [x \in {} |-> 0]

Next == Tick \/ AddBatch \/ AddAccount \/ GetMetrics

Spec == Init /\ [][Next]_vars

-----------------------------------------------------------------------------
(***************************************************************************)
(* What the metrics stand for, over the batches of the last 24 hours.      *)
(***************************************************************************)
SameFrac(x, y) == x.num * y.den = y.num * x.den

Window == InLastDay
WindowTxs == MapThenSumSet(LAMBDA b : batches[b].l1 + batches[b].l2, Window)
WindowL2Txs == MapThenSumSet(LAMBDA b : batches[b].l2, Window)
WindowFees == MapThenSumSet(LAMBDA b : batches[b].fee, Window)
WindowSpan ==
  LET T == {batches[b].time : b \in Window} IN
  IF Max(T) = Min(T) THEN 1 ELSE Max(T) - Min(T)

(***************************************************************************)
(* When at least two batches were forged in the last 24 hours, the batch   *)
(* number range from the first of them to the last batch is exactly those  *)
(* batches, and txs per second, txs per batch, batch frequency and the     *)
(* average L2 fee are the averages over them.                              *)
(***************************************************************************)
MetricsAveragesExact ==
  [][GetMetrics /\ Cardinality(Window) >= 2 =>
       /\ SameFrac(metrics'.transactionsPerSecond, Frac(WindowTxs, WindowSpan))
       /\ SameFrac(metrics'.transactionsPerBatch, Frac(WindowTxs, Cardinality(Window)))
       /\ SameFrac(metrics'.batchFrequency, Frac(WindowSpan, Cardinality(Window)))
       /\ WindowL2Txs > 0 =>
            SameFrac(metrics'.avgTransactionFee, Frac(WindowFees, WindowL2Txs))]_vars

(***************************************************************************)
(* When a single batch was forged in the last 24 hours, txs per batch is   *)
(* the number of txs of that batch.                                        *)
(***************************************************************************)
TxsPerBatchOneBatch ==
  [][GetMetrics /\ Cardinality(Window) = 1 =>
       SameFrac(metrics'.transactionsPerBatch, Frac(WindowTxs, 1))]_vars

====
