--------------------------- MODULE RollupWithdraw ---------------------------
(***************************************************************************)
(* Withdrawing an exit of the synced batch.  A user calls                  *)
(* RollupWithdrawMerkleProof (src/eth/rollup.go) for an exit row, asking  *)
(* for an instant or a delayed withdrawal; the transaction is mined in a   *)
(* block of its own after the forge block.  The synchronizer reads each    *)
(* such block with RollupEventsByBlock and records every WithdrawEvent on  *)
(* the exit row it names.                                                  *)
(*                                                                         *)
(* The contract and the History DB are not in this repository.  From the   *)
(* specification (design 4.C, 4.G, scenario 6): the contract verifies the  *)
(* exit leaf (account idx, token, amount) against the exit root of batch   *)
(* numExitRoot, refuses an exit already withdrawn (its nullifier), and     *)
(* emits WithdrawEvent(idx, numExitRoot, instant) as indexed topics; the   *)
(* History DB sets instant_withdrawn, or delayed_withdraw_request for a    *)
(* delayed withdrawal, to the event's block number on the exit row of     *)
(* (numExitRoot, idx).  The key and the Merkle siblings are left out: the  *)
(* user passes its own.                                                    *)
(***************************************************************************)
EXTENDS RollupUserTx

CONSTANTS MaxWithdrawCalls   \* withdrawal transactions the users send

VARIABLES
  requests,      \* requests[b]: the withdrawal mined in withdrawal block b
  wblocks,       \* wblocks[b]: the rollup logs of withdrawal block b
  nullifier,     \* the contract's withdrawn exits, <<numExitRoot, idx>>
  syncedBlocks,  \* the withdrawal blocks the synchronizer has processed
  withdrawals    \* idx -> [instant, delayed]: the History DB's block numbers

wvars == <<requests, wblocks, nullifier, syncedBlocks, withdrawals>>

\* a NULL block number column
NoBlock == {}
WithdrawMerkleProofSignature == "withdrawMerkleProof"
SyncedBatchNum == ForgeLog.args[1]
\* the forge block is block 1; withdrawal block b is block b + 1
BlockNum(b) == b + 1

(***************************************************************************)
(* The rows the synchronizer stores for the synced batch (design 4.G): its *)
(* L2 txs, and one exit row per account that exits, with what it exits and *)
(* the withdrawals recorded on it.                                         *)
(***************************************************************************)
SyncedL2Txs == l2Txs

ExitIdxs ==
  LET txs == SyncedL2Txs
  IN  SetToSortSeq({txs[i].from : i \in {j \in DOMAIN txs : txs[j].type = TxTypeExit}}, <)

ExitRows ==
  LET txs == SyncedL2Txs
      idxs == ExitIdxs
      exited(idx) == {i \in DOMAIN txs : txs[i].type = TxTypeExit /\ txs[i].from = idx}
  IN  [k \in DOMAIN idxs |->
         [itemID |-> k, batchNum |-> SyncedBatchNum, accountIdx |-> idxs[k],
          balance |-> SumFunctionOnSet([i \in exited(idxs[k]) |-> txs[i].amount], exited(idxs[k])),
          token |-> state[idxs[k]].token,
          instantWithdrawn |-> withdrawals[idxs[k]].instant,
          delayedWithdrawRequest |-> withdrawals[idxs[k]].delayed,
          delayedWithdrawn |-> NoBlock]]

(***************************************************************************)
(* RollupWithdrawMerkleProof: the call hermez.WithdrawMerkleProof(tokenID, *)
(* amount, babyPubKey, numExitRoot, siblings, idx, instantWithdraw) with   *)
(* numExitRoot and idx as big ints.                                        *)
(***************************************************************************)
\* Mutant: idx is passed where numExitRoot goes, and numExitRoot where idx goes
RollupWithdrawMerkleProofSwapped(tokenID, numExitRoot, idx, amount, instantWithdraw) ==
  [method |-> WithdrawMerkleProofSignature,
   args |-> <<tokenID, amount, idx, numExitRoot, instantWithdraw>>]

RollupWithdrawMerkleProof(tokenID, numExitRoot, idx, amount, instantWithdraw) ==
  [method |-> WithdrawMerkleProofSignature,
   args |-> <<tokenID, amount, numExitRoot, idx, instantWithdraw>>]

\* the contract's log of a withdrawal: topics idx, numExitRoot, instant (a bool word)
WithdrawEventLog(idx, numExitRoot, instant) ==
  [topic |-> "WithdrawEvent", args |-> <<idx, numExitRoot, IF instant THEN 1 ELSE 0>>]

\* the contract's withdrawMerkleProof: the exit leaf must be in the exit
\* tree of batch numExitRoot (the exits are its rows) and not withdrawn yet,
\* or the call reverts
WithdrawReceived(call, exits) ==
  LET a == call.args
      tokenID == a[1]  amount == a[2]  numExitRoot == a[3]  idx == a[4]
      leaf == \E k \in DOMAIN exits :
                /\ numExitRoot = exits[k].batchNum /\ idx = exits[k].accountIdx
                /\ tokenID = exits[k].token /\ amount = exits[k].balance
  IN  IF leaf /\ <<numExitRoot, idx>> \notin nullifier
        THEN [logs |-> <<WithdrawEventLog(idx, numExitRoot, a[5])>>,
              nullifier |-> nullifier \cup {<<numExitRoot, idx>>}]
        ELSE [logs |-> <<>>, nullifier |-> nullifier]

(***************************************************************************)
(* The History DB's update for the withdrawals of a block: the exit row of *)
(* (numExitRoot, idx), if there is one, gets the block number.             *)
(***************************************************************************)
ApplyWithdrawEvents(ws, events, blockNum) ==
  [idx \in DOMAIN ws |->
     LET mine == {i \in DOMAIN events :
                    events[i].idx = idx /\ events[i].numExitRoot = SyncedBatchNum}
         instant == {i \in mine : events[i].instantWithdraw}
     IN  [instant |-> IF instant # {} THEN {blockNum} ELSE ws[idx].instant,
          delayed |-> IF mine \ instant # {} THEN {blockNum} ELSE ws[idx].delayed]]

-----------------------------------------------------------------------------
\* a user withdraws exit row k of the synced batch (exits), instantly or not
WithdrawMerkleProof(exits, k, instant) ==
  /\ phase = "synced"
  /\ Len(requests) < MaxWithdrawCalls
  /\ LET row == exits[k]
         r == WithdrawReceived(RollupWithdrawMerkleProof(row.token, SyncedBatchNum,
                                                         row.accountIdx, row.balance, instant),
                               exits)
     IN  /\ requests' = Append(requests, [idx |-> row.accountIdx, instant |-> instant])
         /\ wblocks' = Append(wblocks, r.logs)
         /\ nullifier' = r.nullifier
  /\ UNCHANGED <<syncedBlocks, withdrawals>>

\* the synchronizer processes the next withdrawal block
SyncWithdrawBlock ==
  /\ syncedBlocks < Len(wblocks)
  /\ LET b == syncedBlocks + 1
         r == RollupEventsByBlock(Answer([i \in DOMAIN wblocks[b] |->
                                            [blockHash |-> BlockNum(b), log |-> wblocks[b][i]]]))
     IN  /\ withdrawals' = ApplyWithdrawEvents(withdrawals, r.events.withdrawEvent, BlockNum(b))
         /\ syncedBlocks' = b
  /\ UNCHANGED <<requests, wblocks, nullifier>>

WithdrawInit ==
  /\ Init
  /\ requests = <<>> /\ wblocks = <<>> /\ nullifier = {} /\ syncedBlocks = 0
  /\ withdrawals = [idx \in Idxs |-> [instant |-> NoBlock, delayed |-> NoBlock]]

WithdrawNext ==
  \/ Next /\ UNCHANGED wvars
  \/ /\ phase = "synced" /\ Len(requests) < MaxWithdrawCalls
     /\ LET exits == ExitRows
        IN  \E k \in DOMAIN exits, instant \in BOOLEAN : WithdrawMerkleProof(exits, k, instant)
     /\ UNCHANGED vars
  \/ SyncWithdrawBlock /\ UNCHANGED vars

WithdrawSpec == WithdrawInit /\ [][WithdrawNext]_<<vars, wvars>>

-----------------------------------------------------------------------------
\* the first withdrawal block holding a request for idx, among blocks 1..n
FirstRequest(idx, n) ==
  {b \in 1..n : requests[b].idx = idx /\ \A c \in 1..(b - 1) : requests[c].idx # idx}

(***************************************************************************)
(* Every exit row records exactly the first withdrawal its owner sent, once *)
(* the synchronizer has processed that block: at its block number, as      *)
(* instant or as a delayed request by what was asked; a second withdrawal  *)
(* of the same exit changes nothing, and no other row is touched.  The     *)
(* arguments go through the client's call, the contract's exit check and   *)
(* nullifier, the event's topics and RollupEventsByBlock's decoding.       *)
(***************************************************************************)
WithdrawalsRecorded ==
  phase = "synced" =>
  \A k \in DOMAIN ExitRows :
    LET row == ExitRows[k]
        first == FirstRequest(row.accountIdx, syncedBlocks)
        asked(instant) == {BlockNum(b) : b \in {c \in first : requests[c].instant = instant}}
    IN  /\ row.instantWithdrawn = asked(TRUE)
        /\ row.delayedWithdrawRequest = asked(FALSE)
====
