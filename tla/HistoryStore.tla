---------------------------- MODULE HistoryStore ----------------------------
(***************************************************************************)
(* What the History DB's block table promises its readers (design 4.D and *)
(* 4.E), abstractly: the table only grows by the chain's block at the     *)
(* height after its last block (or, when empty, by any block of the       *)
(* chain: the cold start), and only shrinks by Reorg(n), which keeps the  *)
(* blocks up to a height n whose stored block the chain still has.        *)
(* The chain itself changes freely; blocks already stored may go stale.   *)
(***************************************************************************)
EXTENDS Integers, Sequences, SequencesExt

VARIABLES
  chain,    \* chain[h]: hash of the canonical block at height h
  history   \* the block table: Seq([num, hash]) in insertion order

\* the chain's block at height n, as a table row
ChainBlock(n) == [num |-> n, hash |-> chain[n]]

\* AddBlock of the next block of the chain
AddNext ==
  /\ \/ /\ history = <<>>
        /\ \E n \in DOMAIN chain : history' = <<ChainBlock(n)>>
     \/ /\ history # <<>>
        /\ Last(history).num + 1 \in DOMAIN chain
        /\ history' = Append(history, ChainBlock(Last(history).num + 1))
  /\ UNCHANGED chain

\* Reorg(n): n is a stored height whose block the chain still has
Truncate ==
  /\ \E i \in DOMAIN history :
       /\ history[i].num \in DOMAIN chain
       /\ chain[history[i].num] = history[i].hash
       /\ history' = SubSeq(history, 1, i)
  /\ UNCHANGED chain

\* the environment: blocks are mined and replaced
ChainMoves ==
  /\ chain' # chain
  /\ UNCHANGED history

Init == history = <<>>

Next == AddNext \/ Truncate \/ ChainMoves

Spec == Init /\ [][Next]_<<chain, history>>
====
