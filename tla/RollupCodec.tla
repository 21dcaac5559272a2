---------------------------- MODULE RollupCodec ----------------------------
(***************************************************************************)
(* One forgeBatch from the coordinator to the synchronizer.  The           *)
(* coordinator encodes its RollupForgeBatchArgs (RollupClient.             *)
(* RollupForgeBatch): the L1 coordinator txs with their signatures, the L2 *)
(* txs' data availability and the coordinator's fee idxs.  The transaction *)
(* is mined in a block that may be replaced by a reorg.  The synchronizer  *)
(* reads the block's rollup events (RollupEventsByBlock) from a node that  *)
(* may answer from two versions of the block at once, decodes the          *)
(* arguments of the forgeBatch transaction the ForgeBatch event names      *)
(* (RollupForgeBatchArgs), and rebuilds the L2 txs with their TxIDs        *)
(* (NewL2Tx) from the account state, as the processor does (design 4.E,    *)
(* 4.F).  A 32-byte word (signature r and s, compressed BabyJubJub key) is *)
(* the word with every byte equal to one value.                            *)
(***************************************************************************)
EXTENDS L2Tx

CONSTANTS
  MaxFeeIdxCoordinator,  \* RollupConstMaxFeeIdxCoordinator (64 in the code)
  MaxL1CoordTxs,         \* L1 coordinator txs in one batch (bound)
  MaxL2Txs,              \* L2 txs in one batch (bound)
  Idxs,                  \* account idxs the coordinator may use
  ToIdxs,                \* receivers of L2 txs: 1 (exit) or an account idx
  Amounts,               \* Float16 codes of L2 amounts
  Fees,                  \* fee selectors
  WordBytes,             \* byte values of 32-byte words
  Vs,                    \* signature recovery ids
  TokenIDs,
  Nonces,                \* account nonces before the batch
  MaxLogs,               \* rollup logs in one block (bound)
  MaxVersions,           \* versions of the forge block: 1 + reorgs (bound)
  ChainVerifiers,        \* NLevels of each verifier of the deployed contract
  VerifierIdxs           \* the VerifierIdx values a coordinator may forge with

ASSUME /\ ChainVerifiers \in Seq({16, 24, 32, 40}) /\ Len(ChainVerifiers) >= 1
       /\ MaxFeeIdxCoordinator \in Nat \ {0}

WordLen == 32

Word(w) == [i \in 1..WordLen |-> w]

\* Go's b[lo:hi]: Chunks(b, n) cuts b into Len(b) \div n chunks of n bytes;
\* a trailing partial chunk is dropped
Chunks(b, n) == [i \in 1..(Len(b) \div n) |-> Slice(b, (i - 1) * n, i * n)]

(***************************************************************************)
(* RollupConstants reads the first LenVerifiers verifiers of the contract; *)
(* the other constants it reads are not used here.  When one of its calls  *)
(* fails it returns the error and nothing changes: the coordinator and the *)
(* synchronizer retry, a stuttering step.                                  *)
(***************************************************************************)
LenVerifiers == 1   \* eth.LenVerifiers

RollupConstants ==
  [verifiers |-> [i \in 1..LenVerifiers |-> [nLevels |-> ChainVerifiers[i]]]]

\* rollupConst.Verifiers[verifierIdx].NLevels; Panic: the index is out of
\* the slice's range and the goroutine panics
Panic == -1
VerifierNLevels(verifierIdx) ==
  IF verifierIdx < Len(RollupConstants.verifiers)
    THEN RollupConstants.verifiers[verifierIdx + 1].nLevels
    ELSE Panic

\* lenL2TxsBytes: the length of one L2 tx's data availability
L2TxBytesLen(nLevels) == IdxLen(nLevels) * 2 + 2 + 1

(***************************************************************************)
(* L1 coordinator txs.  An auth is the 65-byte signature r(32) s(32) v(1). *)
(* L1Tx.BytesCoordinatorTx and L1CoordinatorTxFromBytes are outside this   *)
(* repository: their layout is the one of the specification,               *)
(* v(1) r(32) s(32) FromBJJ(32) TokenID(4).                                *)
(***************************************************************************)
Auth(r, s, v) == Word(r) \o Word(s) \o <<v>>

BytesCoordinatorTx(tx) ==
  <<tx.auth[65]>> \o Slice(tx.auth, 0, 32) \o Slice(tx.auth, 32, 64)
    \o tx.bjj \o BigEndian(tx.token, 4)

L1CoordinatorTxBytesLen == 1 + 3 * WordLen + 4

\* RollupForgeBatchArgs: v = b[0], s = b[1:33], r = b[33:65], auth = r s v
DecodeAuth(b) ==
  LET v == b[1]
      s == Slice(b, 1, 33)
      r == Slice(b, 33, 65)
  IN r \o s \o <<v>>

DecodeL1CoordinatorTx(b) ==
  [bjj |-> Slice(b, 65, 97), token |-> FromBigEndian(Slice(b, 97, 101)),
   auth |-> DecodeAuth(b)]

(***************************************************************************)
(* Fee idxs: padded with Idx 0 up to MaxFeeIdxCoordinator slots of idxLen  *)
(* bytes; the decoder drops the Idx 0 slots.                               *)
(***************************************************************************)
FeeIdxBytes(fees, nLevels) ==
  FlattenSeq([i \in 1..MaxFeeIdxCoordinator |->
                TruncIdx(IF i <= Len(fees) THEN fees[i] ELSE 0, nLevels)])

\* Mutant: the padding slots are kept
DecodeFeeIdxsKeepZeros(b, nLevels) ==
  LET c == Chunks(b, IdxLen(nLevels))
  IN  [i \in DOMAIN c |-> IdxFromBytes(PadIdx(c[i]))]

DecodeFeeIdxs(b, nLevels) ==
  LET c == Chunks(b, IdxLen(nLevels))
  IN  SelectSeq([i \in DOMAIN c |-> IdxFromBytes(PadIdx(c[i]))], LAMBDA idx : idx # 0)


(***************************************************************************)
(* Rollup logs.  A log is its first topic and the topics or data after it; *)
(* the node tags each with the hash of the block version it comes from.    *)
(* Version v of the forge block has hash v; ZeroHash is the zero hash.     *)
(* L1UserTxEvent, UpdateForgeL1L2BatchTimeout and UpdateFeeAddToken are    *)
(* decoded the same way as AddToken and are left out.                      *)
(***************************************************************************)
ZeroHash == 0
ForgeTxHash == 1000   \* the hash of the forgeBatch transaction

ForgeLog == [topic |-> "ForgeBatch", args |-> <<1, ForgeTxHash>>]
WithdrawLog(instant) == [topic |-> "WithdrawEvent", args |-> <<256, 1, instant>>]
AddTokenLog == [topic |-> "AddToken", args |-> <<7, 1>>]
UnknownLog == [topic |-> "Unknown", args |-> <<>>]
LogKinds == {ForgeLog, WithdrawLog(1), AddTokenLog, UnknownLog}

\* the logs a block can hold: one transaction emits one ForgeBatch
BlockLogs == {l \in BoundedSeq(LogKinds, MaxLogs) : IsInjective(l)}

\* NewRollupEvents: every list empty
NewRollupEvents == [forgeBatch |-> <<>>, addToken |-> <<>>, withdrawEvent |-> <<>>]

\* the switch on vLog.Topics[0]: one event of the log's kind, appended in log order
DecodeLog(l) ==
  CASE l.topic = "ForgeBatch" -> [batchNum |-> l.args[1], ethTxHash |-> l.args[2]]
    [] l.topic = "AddToken" -> [tokenAddress |-> l.args[1], tokenID |-> l.args[2]]
    [] l.topic = "WithdrawEvent" ->
         [idx |-> l.args[1], numExitRoot |-> l.args[2], instantWithdraw |-> l.args[3] = 1]

EventsOfKind(logs, topic) ==
  LET s == SelectSeq(logs, LAMBDA l : l.topic = topic)
  IN  [i \in DOMAIN s |-> DecodeLog(s[i])]

EventsOf(logs) ==
  [forgeBatch |-> EventsOfKind(logs, "ForgeBatch"),
   addToken |-> EventsOfKind(logs, "AddToken"),
   withdrawEvent |-> EventsOfKind(logs, "WithdrawEvent")]

\* FilterLogs' answer: an error, or the logs
FilterLogsError == [err |-> TRUE, logs |-> <<>>]
Answer(logs) == [err |-> FALSE, logs |-> logs]

\* Mutant: the ErrBlockHashMismatchEvent check is dropped
RollupEventsByBlockNoHashCheck(answer) ==
  IF answer.err THEN [ok |-> FALSE, hash |-> ZeroHash, events |-> NewRollupEvents]
  ELSE
    LET tagged == answer.logs
        blockHash == IF tagged # <<>> THEN tagged[1].blockHash ELSE ZeroHash
        logs == [i \in DOMAIN tagged |-> tagged[i].log]
    IN  [ok |-> TRUE, hash |-> blockHash, events |-> EventsOf(logs)]

\* RollupEventsByBlock on FilterLogs' answer: the hash of the first log,
\* every log checked against it, the events decoded
RollupEventsByBlock(answer) ==
  IF answer.err THEN [ok |-> FALSE, hash |-> ZeroHash, events |-> NewRollupEvents]
  ELSE
    LET tagged == answer.logs
        blockHash == IF tagged # <<>> THEN tagged[1].blockHash ELSE ZeroHash
        logs == [i \in DOMAIN tagged |-> tagged[i].log]
    IN  IF \E i \in DOMAIN tagged : tagged[i].blockHash # blockHash
          THEN [ok |-> FALSE, hash |-> ZeroHash, events |-> NewRollupEvents]
          ELSE [ok |-> TRUE, hash |-> blockHash, events |-> EventsOf(logs)]

-----------------------------------------------------------------------------
VARIABLES
  state,     \* account idx -> [token, nonce] before the batch
  args,      \* the coordinator's RollupForgeBatchArgs
  calldata,  \* the encoded arguments of the mined forgeBatch transaction
  blocks,    \* blocks[v]: the rollup logs of version v of the forge block
  fetched,   \* the last answer of RollupEventsByBlock
  decoded,   \* the RollupForgeBatchArgs the synchronizer decodes
  l2Txs,     \* the L2 txs the synchronizer builds for the batch
  txIDs,     \* the TxIDs the synchronizer gives the batch's L2 txs
  phase      \* "built" | "failed" | "panic" | "mined" | "events" | "dropped" | "synced"

vars == <<state, args, calldata, blocks, fetched, decoded, l2Txs, txIDs, phase>>

L1Txs == [bjj : {Word(w) : w \in WordBytes}, token : TokenIDs,
          auth : {Auth(r, s, v) : r \in WordBytes, s \in WordBytes, v \in Vs}]
\* an L2 tx's data-availability fields
L2Txs == [from : Idxs, to : ToIdxs, amount : Amounts, fee : Fees]
DA(tx) == [from |-> tx.from, to |-> tx.to, amount |-> tx.amount, fee |-> tx.fee]

\* the processor's TokenID and Nonce of the i-th L2 tx: the sender's token,
\* and its nonce plus the earlier txs of the batch from the same sender
FillFromState(txs, i) ==
  DA(txs[i]) @@
    [token |-> state[txs[i].from].token,
     nonce |-> state[txs[i].from].nonce
                 + Cardinality({j \in 1..(i - 1) : txs[j].from = txs[i].from}),
     type |-> NoType, txID |-> NoTxID]

\* the batch's L2 txs as NewL2Tx builds them from their data-availability fields
BuildL2Txs(txs) == [i \in DOMAIN txs |-> NewL2Tx(FillFromState(txs, i))]

NoArgs == [l1 |-> <<>>, l2 |-> <<>>, fee |-> <<>>, verifierIdx |-> 0]
NoCalldata == NoArgs
NoFetch == [ok |-> FALSE, hash |-> ZeroHash, events |-> NewRollupEvents]

\* the logs of version v as the node returns them
Tagged(v) == [i \in DOMAIN blocks[v] |-> [blockHash |-> v, log |-> blocks[v][i]]]

\* FilterLogs: an error, the current version, or, while the block is being
\* replaced, the first i logs of one version followed by the logs of the
\* other from position i + 1 on
FilterLogsAnswers ==
  LET cur == Len(blocks)
      vs == {cur - 1, cur} \ {0}
  IN  {FilterLogsError, Answer(Tagged(cur))}
        \cup UNION {{Answer(SubSeq(Tagged(u), 1, i) \o SubSeq(Tagged(w), i + 1, Len(blocks[w]))) :
                      i \in 1..Min({Len(blocks[u]), Len(blocks[w]) - 1})} :
                    <<u, w>> \in (vs \X vs) \ {<<v, v>> : v \in vs}}

(***************************************************************************)
(* RollupForgeBatch: panic on a VerifierIdx out of the verifiers read,     *)
(* fail on too many fee idxs, or encode.  L2Tx.Bytes is                   *)
(* not in this repository: its layout is the data-availability one, and    *)
(* the decoder's chunk length (idxLen * 2 + 2 + 1) is its length.  The    *)
(* transaction is mined in version 1 of the forge block.                  *)
(***************************************************************************)
RollupForgeBatch ==
  /\ phase = "built"
  /\ LET nLevels == VerifierNLevels(args.verifierIdx) IN
     CASE nLevels = Panic ->
            /\ phase' = "panic"
            /\ UNCHANGED <<calldata, blocks>>
       [] Len(args.fee) > MaxFeeIdxCoordinator ->
            /\ phase' = "failed"
            /\ UNCHANGED <<calldata, blocks>>
       [] OTHER ->
            /\ calldata' =
                 [l1 |-> FlattenSeq([i \in DOMAIN args.l1 |-> BytesCoordinatorTx(args.l1[i])]),
                  l2 |-> FlattenSeq([i \in DOMAIN args.l2 |-> BytesDataAvailability(args.l2[i], nLevels)]),
                  fee |-> FeeIdxBytes(args.fee, nLevels),
                  verifierIdx |-> args.verifierIdx]
            /\ \E l \in BlockLogs : ForgeLog \in Range(l) /\ blocks' = <<l>>
            /\ phase' = "mined"
  /\ UNCHANGED <<state, args, fetched, decoded, l2Txs, txIDs>>

\* the environment: the forge block is replaced by another version
Reorg ==
  /\ phase = "mined"
  /\ Len(blocks) < MaxVersions
  /\ \E l \in BlockLogs : blocks' = Append(blocks, l)
  /\ UNCHANGED <<state, args, calldata, fetched, decoded, l2Txs, txIDs, phase>>

\* The synchronizer reads the block's events and keeps them when the hash
\* they come with is the block's (or there are none); otherwise it retries.
SyncEvents ==
  /\ phase = "mined"
  /\ \E answer \in FilterLogsAnswers :
       LET r == RollupEventsByBlock(answer)
       IN  /\ fetched' = r
           /\ phase' = IF r.ok /\ (r.hash = Len(blocks) \/ r.events = NewRollupEvents)
                         THEN "events" ELSE "mined"
  /\ UNCHANGED <<state, args, calldata, blocks, decoded, l2Txs, txIDs>>

\* RollupForgeBatchArgs: decode the three byte strings of the calldata, the
\* L2 txs and fee idxs with the NLevels of the calldata's verifier
DecodeForgeBatchArgs(cd) ==
  LET nLevels == VerifierNLevels(cd.verifierIdx)
      l1 == Chunks(cd.l1, L1CoordinatorTxBytesLen)
      l2 == Chunks(cd.l2, L2TxBytesLen(nLevels))
  IN  [l1 |-> [i \in DOMAIN l1 |-> DecodeL1CoordinatorTx(l1[i])],
       l2 |-> [i \in DOMAIN l2 |-> L2TxFromBytesDataAvailability(l2[i], nLevels)],
       fee |-> DecodeFeeIdxs(cd.fee, nLevels),
       verifierIdx |-> cd.verifierIdx]

\* For the ForgeBatch event of the block, the synchronizer decodes the
\* transaction's arguments and rebuilds its L2 txs with NewL2Tx.
SyncForgeBatch ==
  /\ phase = "events"
  /\ IF \E i \in DOMAIN fetched.events.forgeBatch :
          fetched.events.forgeBatch[i].ethTxHash = ForgeTxHash
       THEN LET d == DecodeForgeBatchArgs(calldata)
                l2 == BuildL2Txs(d.l2)
            IN  /\ decoded' = d
                /\ IF \A i \in DOMAIN l2 : l2[i].ok
                     THEN /\ l2Txs' = [i \in DOMAIN l2 |-> l2[i].tx]
                          /\ txIDs' = TxIDsFromL2Txs(l2Txs')
                          /\ phase' = "synced"
                     ELSE /\ phase' = "failed"
                          /\ UNCHANGED <<l2Txs, txIDs>>
       ELSE /\ phase' = "dropped"
            /\ UNCHANGED <<decoded, l2Txs, txIDs>>
  /\ UNCHANGED <<state, args, calldata, blocks, fetched>>

\* the coordinator's batch: L2 txs from its pool, with the TxIDs the pool gave them
Init ==
  /\ state \in [Idxs -> [token : TokenIDs, nonce : Nonces]]
  /\ \E l1 \in BoundedSeq(L1Txs, MaxL1CoordTxs), l2 \in BoundedSeq(L2Txs, MaxL2Txs),
        fee \in BoundedSeq(Idxs, MaxFeeIdxCoordinator + 1), vIdx \in VerifierIdxs :
       LET pool == BuildL2Txs(l2)
       IN  /\ \A i \in DOMAIN pool : pool[i].ok
           /\ args = [l1 |-> l1, l2 |-> [i \in DOMAIN pool |-> pool[i].tx], fee |-> fee,
                      verifierIdx |-> vIdx]
  /\ calldata = NoCalldata
  /\ blocks = <<>>
  /\ fetched = NoFetch
  /\ decoded = NoArgs
  /\ l2Txs = <<>>
  /\ txIDs = <<>>
  /\ phase = "built"

Next == RollupForgeBatch \/ Reorg \/ SyncEvents \/ SyncForgeBatch

Spec == Init /\ [][Next]_vars

-----------------------------------------------------------------------------
TypeOK ==
  /\ phase \in {"built", "failed", "panic", "mined", "events", "dropped", "synced"}
  /\ \A part \in {"l1", "l2", "fee"} : calldata[part] \in Seq(0..255)
  /\ blocks \in Seq(BlockLogs) /\ Len(blocks) <= MaxVersions
  /\ fetched.hash \in 0..MaxVersions

(***************************************************************************)
(* The synchronizer reads back the L2 txs' data and the fee idxs the       *)
(* coordinator forged, in their order, with nothing added or lost: the idx *)
(* truncation to nLevels/8 bytes and the Idx 0 padding of the fee slots    *)
(* cancel out.                                                             *)
(***************************************************************************)
ForgeArgsRoundTrip ==
  phase = "synced" =>
    /\ decoded.l2 = [i \in DOMAIN args.l2 |-> DA(args.l2[i])]
    /\ decoded.fee = args.fee

(***************************************************************************)
(* The synchronizer reads back the L1 coordinator txs the coordinator      *)
(* forged, with the signatures it signed them with.                        *)
(***************************************************************************)
L1CoordinatorRoundTrip ==
  phase = "synced" => decoded.l1 = args.l1

(***************************************************************************)
(* Whatever mix of two block versions the node returns while the block is *)
(* replaced, RollupEventsByBlock either fails or returns exactly the       *)
(* events of one version with that version's hash (the zero hash only for  *)
(* a version with no rollup logs): the logs[0] hash and the per-log check. *)
(***************************************************************************)
EventsOfOneBlock ==
  fetched.ok =>
    \E v \in DOMAIN blocks :
      /\ fetched.events = EventsOf(blocks[v])
      /\ \/ fetched.hash = v
         \/ fetched.hash = ZeroHash /\ blocks[v] = <<>>
====
