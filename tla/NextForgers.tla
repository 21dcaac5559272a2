---------------------------- MODULE NextForgers ----------------------------
(***************************************************************************)
(* HistoryDB.GetNextForgersInternalAPI: for every slot from the current    *)
(* one to the last closed one, the coordinator that will forge it, from    *)
(* the History DB tables the synchronizer fills from auction events.       *)
(*                                                                         *)
(* Tables are sequences in insertion order (item_id is the index):         *)
(* bids [slot, bidder, value], coordinators [bidder, url], and auction     *)
(* variables [bid, slotNum]: the DefaultSlotSetBid array (one min bid per  *)
(* slot set) and the slot it applies from.  The auction contract is the    *)
(* environment: a bid on an open slot must reach that slot's min bid and   *)
(* outbid the slot's best bid, and a new min bid applies from the first    *)
(* open slot.  The API gets the auction variables and the current slot     *)
(* from the snapshot the synchronizer publishes after each block.          *)
(***************************************************************************)
EXTENDS Integers, Sequences, SequencesExt, FiniteSets

CONSTANTS
  Bidders,             \* bidder addresses
  URLs,                \* coordinator URLs
  BidValues,           \* bid amounts
  MinBidValues,        \* DefaultSlotSetBid values
  NSets,               \* len(DefaultSlotSetBid): number of slot sets
  ClosedAuctionSlots,  \* slots after the current one that take no more bids
  MaxSlot,             \* last slot of the model (bound)
  BlocksPerSlot, GenesisBlockNum,
  MaxBids, MaxCoordinators, MaxVarUpdates,  \* table sizes (bounds)
  BootCoordinator, BootCoordinatorURL

ASSUME NSets \in Nat \ {0} /\ ClosedAuctionSlots \in Nat
ASSUME MaxSlot > ClosedAuctionSlots /\ BlocksPerSlot \in Nat \ {0}

VARIABLES
  currentSlot,   \* the chain's current slot
  bids,          \* bid table
  coordinators,  \* coordinator table
  auctionVars,   \* auction_vars table, one row per update
  snapshot,      \* [vars, slot] published to the API
  nextForgers    \* result of the last GetNextForgersInternalAPI call

vars == <<currentSlot, bids, coordinators, auctionVars, snapshot, nextForgers>>

Boot == [forger |-> BootCoordinator, url |-> BootCoordinatorURL]

(***************************************************************************)
(* The queries.                                                            *)
(***************************************************************************)
\* the latest row of a bidder in the coordinator table, 0 if none
LatestCoordinator(b) == SelectLastInSeq(coordinators, LAMBDA c : c.bidder = b)

\* getCoordinatorAPI: ORDER BY item_id DESC LIMIT 1
getCoordinatorAPI(b) == coordinators[LatestCoordinator(b)]

\* MAX(item_id) of the bids of slot s, 0 if none
BestBid(s) == SelectLastInSeq(bids, LAMBDA x : x.slot = s)

\* getBestBidsAPI(min, max, nil, limit, "ASC"): the best bid of each slot in
\* min..max, inner-joined with its bidder's latest coordinator, by slot
\* ascending, at most limit of them
getBestBidsAPI(min, max, limit) ==
  LET S == {s \in min..max : BestBid(s) # 0 /\ LatestCoordinator(bids[BestBid(s)].bidder) # 0}
  IN {bids[BestBid(s)] : s \in {s \in S : Cardinality({t \in S : t < s}) < limit}}

\* getMinBidInfo: the updates that apply up to lastClosedSlot, the latest
\* for each slotNum, most recent slotNum first
getMinBidInfo(current, lastClosed) ==
  LET latest == {i \in DOMAIN auctionVars :
                   /\ auctionVars[i].slotNum <= lastClosed
                   /\ \A j \in DOMAIN auctionVars :
                        j > i => auctionVars[j].slotNum # auctionVars[i].slotNum}
  IN SetToSortSeq({auctionVars[i] : i \in latest}, LAMBDA u, w : u.slotNum > w.slotNum)

\* the current variables alone when their slotNum is not in the future
MinBidInfo(av, current, lastClosed) ==
  IF current >= av.slotNum THEN <<av>> ELSE getMinBidInfo(current, lastClosed)

\* Mutant: the loop stops at the oldest applicable update
OldestUpdate(info, s) == SelectLastInSeq(info, LAMBDA u : s >= u.slotNum)

\* "Find the most recent update": the first with slotNum >= its slotNum
MostRecentUpdate(info, s) == SelectInSeq(info, LAMBDA u : s >= u.slotNum)

\* minBid.Cmp(bid) == 1 sends the slot to the boot coordinator
BeatsMinBid(minBid, bid) == ~(minBid > bid)

\* the forger of slot i from the best bids and the min bid updates
Forger(best, info, i) ==
  LET B == {x \in best : x.slot = i}
      x == CHOOSE x \in B : TRUE
      k == MostRecentUpdate(info, i)
  IN IF B # {} /\ k # 0 /\ BeatsMinBid(info[k].bid[i % NSets], x.value)
       THEN [forger |-> x.bidder, url |-> getCoordinatorAPI(x.bidder).url]
       ELSE Boot

FromBlock(i) == i * BlocksPerSlot + GenesisBlockNum
ToBlock(i) == (i + 1) * BlocksPerSlot + GenesisBlockNum - 1

GetNextForgersInternalAPI(av, current, lastClosed) ==
  LET limit == lastClosed - current + 1
      best == getBestBidsAPI(current, lastClosed, limit)
      info == MinBidInfo(av, current, lastClosed)
  IN [k \in 1..limit |->
        LET i == current + k - 1 IN
        [slot |-> i, fromBlock |-> FromBlock(i), toBlock |-> ToBlock(i),
         coordinator |-> Forger(best, info, i)]]

-----------------------------------------------------------------------------
(***************************************************************************)
(* Auction events, each stored by the synchronizer with its block.         *)
(***************************************************************************)
FirstOpenSlot == currentSlot + ClosedAuctionSlots + 1

SetCoordinator(b, u) ==
  /\ Len(coordinators) < MaxCoordinators
  /\ coordinators' = Append(coordinators, [bidder |-> b, url |-> u])
  /\ UNCHANGED <<currentSlot, bids, auctionVars, snapshot, nextForgers>>

ProcessBid(s, b, v) ==
  /\ Len(bids) < MaxBids
  /\ s \in FirstOpenSlot..MaxSlot
  /\ LatestCoordinator(b) # 0
  /\ v >= Last(auctionVars).bid[s % NSets]
  /\ IF BestBid(s) = 0 THEN TRUE ELSE v > bids[BestBid(s)].value
  /\ bids' = Append(bids, [slot |-> s, bidder |-> b, value |-> v])
  /\ UNCHANGED <<currentSlot, coordinators, auctionVars, snapshot, nextForgers>>

SetDefaultSlotSetBid(set, v) ==
  /\ Len(auctionVars) < MaxVarUpdates
  /\ auctionVars' = Append(auctionVars,
                           [bid |-> [Last(auctionVars).bid EXCEPT ![set] = v],
                            slotNum |-> FirstOpenSlot])
  /\ UNCHANGED <<currentSlot, bids, coordinators, snapshot, nextForgers>>

NewSlot ==
  /\ currentSlot + ClosedAuctionSlots < MaxSlot
  /\ currentSlot' = currentSlot + 1
  /\ UNCHANGED <<bids, coordinators, auctionVars, snapshot, nextForgers>>

\* the synchronizer swaps in the new state after storing a block
Publish ==
  /\ snapshot # [vars |-> Last(auctionVars), slot |-> currentSlot]
  /\ snapshot' = [vars |-> Last(auctionVars), slot |-> currentSlot]
  /\ UNCHANGED <<currentSlot, bids, coordinators, auctionVars, nextForgers>>

\* the API asks for the next forgers with the published snapshot
GetNextForgers ==
  /\ nextForgers' = GetNextForgersInternalAPI(snapshot.vars, snapshot.slot,
                                              snapshot.slot + ClosedAuctionSlots)
  /\ UNCHANGED <<currentSlot, bids, coordinators, auctionVars, snapshot>>

InitVars == [bid |-> [i \in 0..(NSets - 1) |-> CHOOSE v \in MinBidValues : TRUE],
             slotNum |-> 0]

Init ==
  /\ currentSlot = 0
  /\ bids = <<>> /\ coordinators = <<>>
  /\ auctionVars = <<InitVars>>
  /\ snapshot = [vars |-> InitVars, slot |-> 0]
  /\ nextForgers = <<>>

Next ==
  \/ \E b \in Bidders, u \in URLs : SetCoordinator(b, u)
  \/ \E s \in 0..MaxSlot, b \in Bidders, v \in BidValues : ProcessBid(s, b, v)
  \/ \E set \in 0..(NSets - 1), v \in MinBidValues : SetDefaultSlotSetBid(set, v)
  \/ NewSlot \/ Publish \/ GetNextForgers

Spec == Init /\ [][Next]_vars

-----------------------------------------------------------------------------
(***************************************************************************)
(* Reference: who forges slot s according to the auction.  The winning bid *)
(* is the highest bid on the slot; it wins if it reaches the min bid in    *)
(* force for the slot, set by the last update that applies from s or       *)
(* before; the winner forges with the URL of its last coordinator update.  *)
(***************************************************************************)
HighestBid(s) ==
  LET B == {i \in DOMAIN bids : bids[i].slot = s}
  IN CHOOSE i \in B : \A j \in B : bids[j].value <= bids[i].value

MinBidInForce(s) ==
  LET U == {i \in DOMAIN auctionVars : auctionVars[i].slotNum <= s}
      u == CHOOSE i \in U : \A j \in U : j <= i
  IN auctionVars[u].bid[s % NSets]

Winner(s) ==
  IF \E i \in DOMAIN bids : bids[i].slot = s /\ bids[i].value >= MinBidInForce(s)
                                             /\ i = HighestBid(s)
    THEN LET b == bids[HighestBid(s)].bidder
             c == CHOOSE i \in DOMAIN coordinators :
                    /\ coordinators[i].bidder = b
                    /\ \A j \in DOMAIN coordinators : coordinators[j].bidder = b => j <= i
         IN [forger |-> b, url |-> coordinators[c].url]
    ELSE Boot

\* the blocks of slot s, from the slot of a block
SlotOfBlock(n) == (n - GenesisBlockNum) \div BlocksPerSlot
BlocksOf(s) == {n \in GenesisBlockNum..(GenesisBlockNum + (MaxSlot + 1) * BlocksPerSlot) :
                  SlotOfBlock(n) = s}

(***************************************************************************)
(* Every call of GetNextForgersInternalAPI, made with the snapshot the     *)
(* synchronizer published, lists the current slot to the last closed one, *)
(* each with its first and last block, and names as its coordinator the    *)
(* one the auction makes forge it, although the bids, coordinators and min *)
(* bid updates the DB holds may be newer than the snapshot.                *)
(***************************************************************************)
NextForgersCorrect ==
  [][GetNextForgers =>
       /\ Len(nextForgers') = ClosedAuctionSlots + 1
       /\ \A k \in 1..Len(nextForgers') :
            LET f == nextForgers'[k] IN
            /\ f.slot = snapshot.slot + k - 1
            /\ {f.fromBlock, f.toBlock} \subseteq BlocksOf(f.slot)
            /\ f.toBlock - f.fromBlock + 1 = Cardinality(BlocksOf(f.slot))
            /\ f.coordinator = Winner(f.slot)]_vars
====
