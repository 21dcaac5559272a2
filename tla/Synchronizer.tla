---------------------------- MODULE Synchronizer ----------------------------
(***************************************************************************)
(* The synchronizer of the coordinator node (synchronizer.Sync and         *)
(* synchronizer.reorg) against an Ethereum chain that grows and reorgs.    *)
(*                                                                         *)
(* The chain is the environment: a sequence of block hashes indexed by     *)
(* height.  A hash is abstracted to the "version" of the chain the block   *)
(* was produced in; every reorg starts a new version, so two blocks at the *)
(* same height are equal iff their hashes are.  Hashes are only ever       *)
(* compared at equal heights, by the code as by this model.                *)
(*                                                                         *)
(* History DB: the table of blocks, a sequence of [num, hash] records in   *)
(* insertion order.  rollupSync and auctionSync are stubs in this version  *)
(* of the code (they return nil), so a synced block carries no batches,    *)
(* and the state DB reset branch of reorg is unreachable.                  *)
(*                                                                         *)
(* Sync runs under s.mux, so one Sync at a time; it is split into one      *)
(* action per chain RPC, because the chain may change between RPCs.       *)
(* Every RPC or DB call can fail; Sync then returns its error and the      *)
(* caller calls Sync again.                                                *)
(***************************************************************************)
EXTENDS Integers, Sequences, SequencesExt

CONSTANTS
  BlocksToSync,       \* blocksToSync: how far below the head firstSavedBlock is
  InitHeight,         \* height of the chain when the node starts
  MaxHeight,          \* the chain never grows past this height (bound)
  MaxReorgs,          \* number of reorgs the chain may perform (bound)
  MinReorgHeight,     \* lowest height a reorg may replace
  ReorgWhileSyncing,  \* may the chain reorg while a Sync is in progress?
  MaxFailures         \* number of failed RPC / DB calls (bound)

ASSUME BlocksToSync \in Nat \ {0}
ASSUME InitHeight \in Nat /\ InitHeight >= BlocksToSync
ASSUME MaxHeight \in Nat /\ MaxHeight >= InitHeight
ASSUME MaxReorgs \in Nat /\ MaxFailures \in Nat
ASSUME MinReorgHeight \in Nat \ {0}
ASSUME ReorgWhileSyncing \in BOOLEAN

VARIABLES
  chain,      \* chain[h]: hash of the canonical block at height h
  version,    \* hash given to blocks produced from now on
  reorgs,     \* number of reorgs so far
  history,    \* History DB block table: Seq([num, hash])
  pc,         \* where Sync is: "idle" | "reorg" | "head" | "loop"
  first,      \* s.firstSavedBlock.EthBlockNum
  lastSaved,  \* lastSavedBlock.EthBlockNum inside Sync
  walkNum,    \* blockNum, the height the reorg walk compares next
  latest,     \* latestBlockNum read by EthCurrentBlock
  failures,   \* number of calls that failed so far
  answer      \* last answer of Status: "none" | "error" | "panic"

chainVars == <<chain, version, reorgs>>
syncVars == <<pc, first, lastSaved, walkNum, latest>>
vars == <<chainVars, history, syncVars, failures, answer>>

Heights == 1..MaxHeight
Hashes == 0..MaxReorgs
Block == [num : Heights, hash : Hashes]

(***************************************************************************)
(* Helpers over the History DB.                                            *)
(***************************************************************************)
\* historyDB.GetBlock(n): the stored block with number n, if any
HasBlock(n) == \E i \in 1..Len(history) : history[i].num = n
GetBlock(n) == history[CHOOSE i \in 1..Len(history) : history[i].num = n]

\* Mutant: keeps the first discarded block (Reorg(n + 1))
ReorgKeepOne(n) == SelectSeq(history, LAMBDA b : b.num <= n + 1)

\* historyDB.Reorg(n): delete every block with eth_block_num > n
HistoryReorg(n) == SelectSeq(history, LAMBDA b : b.num <= n)

\* EthBlockByNumber(n) as a block record
EthBlock(n) == [num |-> n, hash |-> chain[n]]

\* Mutant: asks for the last saved block again instead of the next one
NextNumSame(n) == n

\* the number of the block the sync loop asks the chain for next
NextNum(n) == n + 1

\* s.firstSavedBlock = EthBlockByNumber(latest - blocksToSync); the call
\* with number 0 returns the latest block (as used on line 88)
FirstSavedNum(head) ==
  IF head - BlocksToSync = 0 THEN head ELSE head - BlocksToSync

-----------------------------------------------------------------------------
(***************************************************************************)
(* Environment: the chain grows and reorganises.                           *)
(***************************************************************************)
Mine ==
  /\ Len(chain) < MaxHeight
  /\ chain' = Append(chain, version)
  /\ UNCHANGED <<version, reorgs, history, syncVars, failures, answer>>

\* the blocks at heights k.. are replaced by blocks of a new fork
ChainReorg(k) ==
  /\ reorgs < MaxReorgs
  /\ ReorgWhileSyncing \/ pc = "idle"
  /\ version' = version + 1
  /\ reorgs' = reorgs + 1
  /\ chain' = [h \in 1..Len(chain) |-> IF h >= k THEN version + 1 ELSE chain[h]]
  /\ UNCHANGED <<history, syncVars, failures, answer>>

-----------------------------------------------------------------------------
(***************************************************************************)
(* Sync, lines 79-127: firstSavedBlock, last saved block, reorg check.     *)
(* The chain reads of lines 88, 92 and 109 are taken as one step: none of  *)
(* them is used again after the check but firstSavedBlock's number.        *)
(***************************************************************************)
SyncBegin ==
  /\ pc = "idle"
  /\ LET head == Len(chain)
         fsb  == FirstSavedNum(head)
     IN /\ first' = fsb
        /\ IF history = <<>>
             THEN /\ lastSaved' = fsb            \* cold start from firstSavedBlock
                  /\ pc' = "head"
                  /\ UNCHANGED walkNum
             ELSE LET tip == Last(history) IN
                  IF EthBlock(tip.num).hash = tip.hash
                    THEN /\ lastSaved' = tip.num
                         /\ pc' = "head"
                         /\ UNCHANGED walkNum
                    ELSE /\ walkNum' = tip.num   \* reorg(lastSavedBlock)
                         /\ pc' = "reorg"
                         /\ UNCHANGED lastSaved
  /\ UNCHANGED <<chainVars, history, latest, failures, answer>>

(***************************************************************************)
(* reorg, lines 182-200: one iteration of the backwards walk.  On a match  *)
(* the loop ends and lines 202-220 (historyDB.Reorg, GetLastBatchNum,      *)
(* stateDB reset, which has no batch to reset to) and line 122 follow,     *)
(* all local DB calls.  GetBlock of a number not stored fails.             *)
(***************************************************************************)
ReorgStep ==
  /\ pc = "reorg"
  /\ walkNum > first
  /\ IF ~HasBlock(walkNum)
       THEN /\ pc' = "idle"                      \* sql.ErrNoRows returned
            /\ UNCHANGED <<history, lastSaved, walkNum>>
       ELSE IF GetBlock(walkNum).hash = EthBlock(walkNum).hash
         THEN /\ history' = HistoryReorg(walkNum)
              /\ lastSaved' = Last(history').num
              /\ pc' = "head"
              /\ UNCHANGED walkNum
         ELSE /\ walkNum' = walkNum - 1          \* discard this block
              /\ UNCHANGED <<history, lastSaved, pc>>
  /\ UNCHANGED <<chainVars, first, latest, failures, answer>>

\* reorg, line 223: no common ancestor above firstSavedBlock
ReorgGiveUp ==
  /\ pc = "reorg"
  /\ walkNum <= first
  /\ pc' = "idle"                                \* ErrNotAbleToSync
  /\ UNCHANGED <<chainVars, history, first, lastSaved, walkNum, latest, failures, answer>>

\* Sync, line 132: latestBlockNum from EthCurrentBlock
FetchHead ==
  /\ pc = "head"
  /\ latest' = Len(chain)
  /\ pc' = "loop"
  /\ UNCHANGED <<chainVars, history, first, lastSaved, walkNum, failures, answer>>

(***************************************************************************)
(* Sync, lines 139-168: one iteration of the sync loop: fetch the next     *)
(* block, rollupSync and auctionSync (stubs), AddBlock, GetLastBlock.      *)
(* AddBlock of a number already stored violates the table's key and fails. *)
(***************************************************************************)
SyncBlock ==
  /\ pc = "loop"
  /\ lastSaved < latest
  /\ LET b == EthBlock(NextNum(lastSaved)) IN
       IF HasBlock(b.num)
         THEN /\ pc' = "idle"
              /\ UNCHANGED <<history, lastSaved>>
         ELSE /\ history' = Append(history, b)
              /\ lastSaved' = b.num
              /\ UNCHANGED pc
  /\ UNCHANGED <<chainVars, first, walkNum, latest, failures, answer>>

\* Sync, line 170: the loop is done
SyncDone ==
  /\ pc = "loop"
  /\ lastSaved >= latest
  /\ pc' = "idle"
  /\ UNCHANGED <<chainVars, history, first, lastSaved, walkNum, latest, failures, answer>>

\* any RPC or DB call of Sync fails: Sync returns the error
SyncFail ==
  /\ pc # "idle"
  /\ failures < MaxFailures
  /\ failures' = failures + 1
  /\ pc' = "idle"
  /\ UNCHANGED <<chainVars, history, first, lastSaved, walkNum, latest, answer>>

(***************************************************************************)
(* Status, lines 227-259, under s.mux.  status is a nil *Status, so the    *)
(* first assignment through it (line 239) is a nil pointer dereference     *)
(* once GetLastBlock has found a block; with no block stored GetLastBlock  *)
(* returns sql.ErrNoRows first.  The rest of the function is never run.    *)
(***************************************************************************)
Status ==
  /\ pc = "idle"
  /\ answer' = IF history = <<>> THEN "error" ELSE "panic"
  /\ UNCHANGED <<chainVars, history, syncVars, failures>>

-----------------------------------------------------------------------------
Init ==
  /\ chain = [h \in 1..InitHeight |-> 0]
  /\ version = 0
  /\ reorgs = 0
  /\ history = <<>>
  /\ pc = "idle"
  /\ first = 0
  /\ lastSaved = 0
  /\ walkNum = 0
  /\ latest = 0
  /\ failures = 0
  /\ answer = "none"

Environment ==
  \/ Mine
  \/ \E k \in MinReorgHeight..Len(chain) : ChainReorg(k)

SyncStep ==
  \/ SyncBegin \/ ReorgStep \/ ReorgGiveUp \/ FetchHead \/ SyncBlock \/ SyncDone

Next ==
  \/ Environment \/ SyncStep \/ SyncFail \/ Status

\* The node calls Sync again and again, and a Sync in progress runs on
\* unless a call fails; the chain and the failures are not forced.
Fairness ==
  /\ WF_vars(SyncBegin) /\ WF_vars(ReorgStep) /\ WF_vars(ReorgGiveUp)
  /\ WF_vars(FetchHead) /\ WF_vars(SyncBlock) /\ WF_vars(SyncDone)

Spec == Init /\ [][Next]_vars /\ Fairness

-----------------------------------------------------------------------------
TypeOK ==
  /\ chain \in Seq(Hashes) /\ Len(chain) \in InitHeight..MaxHeight
  /\ version \in Hashes /\ reorgs \in 0..MaxReorgs
  /\ history \in Seq(Block)
  /\ pc \in {"idle", "reorg", "head", "loop"}
  /\ {first, lastSaved, walkNum, latest} \subseteq 0..MaxHeight
  /\ failures \in 0..MaxFailures
  /\ answer \in {"none", "error", "panic"}

Canonical(b) == b.num <= Len(chain) /\ chain[b.num] = b.hash

\* every stored block is a block of the current chain
HistoryCanonical == \A i \in 1..Len(history) : Canonical(history[i])

\* the stored blocks are consecutive heights
HistoryContiguous ==
  \A i \in 1..Len(history) - 1 : history[i + 1].num = history[i].num + 1

(***************************************************************************)
(* Reorg detection only looks at the last stored block (line 114).  So     *)
(* between two Syncs, whenever the last stored block is still canonical,   *)
(* every stored block must be: a stale block under a canonical tip is      *)
(* never detected nor removed.                                             *)
(***************************************************************************)
ReorgDetectable ==
  pc = "idle" /\ history # <<>> /\ Canonical(Last(history)) => HistoryCanonical

(***************************************************************************)
(* Once the chain stops changing, Sync eventually leaves the History DB    *)
(* holding, for good, consecutive blocks of the chain up to its head (or   *)
(* nothing, while the head is not above blocksToSync).                     *)
(***************************************************************************)
Synced ==
  /\ HistoryCanonical
  /\ HistoryContiguous
  /\ IF history = <<>> THEN Len(chain) <= BlocksToSync
                       ELSE Last(history).num = Len(chain)

(***************************************************************************)
(* A reorg is deep when it replaces a block at or below the highest        *)
(* firstSavedBlock a Sync can compute plus one: the walk of reorg, which   *)
(* stops at firstSavedBlock, may then find no common ancestor (line 223).  *)
(* Blocks below ReorgSafeHeight keep the initial hash 0 until then.        *)
(***************************************************************************)
ReorgSafeHeight == MaxHeight - BlocksToSync + 2

DeepReorged == \E h \in DOMAIN chain : h < ReorgSafeHeight /\ chain[h] # 0

(***************************************************************************)
(* Unless the chain reorgs below what the walk of reorg can reach, once    *)
(* the chain stops changing Sync eventually leaves the History DB holding, *)
(* for good, consecutive blocks of the chain up to its head (or nothing,   *)
(* while the head is not above blocksToSync): a failed call, a reorg or a  *)
(* partially run sync loop is always repaired by a later Sync.            *)
(***************************************************************************)
EventuallySynced == <>[](Synced \/ DeepReorged)

(***************************************************************************)
(* Refinement: the block table that Sync and reorg maintain (AddBlock in   *)
(* the sync loop, historyDB.Reorg at the end of the walk) behaves as the   *)
(* abstract History DB of HistoryStore: it only ever grows by the chain's *)
(* next block and only shrinks to a block the chain still has.             *)
(***************************************************************************)
AbsHistory == INSTANCE HistoryStore WITH chain <- chain, history <- history

HistoryRefinement == AbsHistory!Spec
=============================================================================
