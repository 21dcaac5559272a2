--------------------------- MODULE APIConversions ---------------------------
(***************************************************************************)
(* The API's views of History DB rows (src/api/dbtoapistructs.go): a      *)
(* history tx or an exit becomes the JSON item a client reads, its account *)
(* idxs as "hez:<symbol>:<idx>", its sender's BabyJubJub key as            *)
(* "hez:<base64url(key ++ checksum)>", its Ethereum address as            *)
(* "hez:0x<hex>", its amounts as decimal strings, and a page gets its      *)
(* first and last item_id (GetPagination).                                 *)
(*                                                                         *)
(* A string is a sequence of one-character strings.  Composed with the     *)
(* forge pipeline of RollupCodec: the rows are those the synchronizer      *)
(* stores for the batch it decoded (L2 txs and the exits among them) and   *)
(* for the L1 user txs of RollupUserTx.  The History DB writes and the     *)
(* clients' parsers are outside this repository: the rows are modelled    *)
(* from the specification (design 4.G, mempool JSON ingress), and so is    *)
(* the reading of each string, which is the reference the conversions are *)
(* checked against.  USD prices, timestamps and Merkle proofs are copied   *)
(* through unchanged and are left out.                                     *)
(***************************************************************************)
EXTENDS RollupWithdraw

CONSTANTS
  TokenSymbols,  \* tokenID -> symbol of the token, a string
  EthAddrBytes   \* byte values of the senders' Ethereum addresses

Hez == <<"h", "e", "z", ":">>
Colon == ":"
DecDigits == <<"0", "1", "2", "3", "4", "5", "6", "7", "8", "9">>
HexDigits == DecDigits \o <<"a", "b", "c", "d", "e", "f">>
\* base64.URLEncoding's alphabet
Base64URL ==
  <<"A", "B", "C", "D", "E", "F", "G", "H", "I", "J", "K", "L", "M", "N", "O", "P",
    "Q", "R", "S", "T", "U", "V", "W", "X", "Y", "Z", "a", "b", "c", "d", "e", "f",
    "g", "h", "i", "j", "k", "l", "m", "n", "o", "p", "q", "r", "s", "t", "u", "v",
    "w", "x", "y", "z", "0", "1", "2", "3", "4", "5", "6", "7", "8", "9", "-", "_">>

Nil == {}          \* a nil pointer; a set pointer {x} points to x
NoFromIdx == 0     \* a row whose FromIdx is NULL

(***************************************************************************)
(* Conversions.                                                            *)
(***************************************************************************)
RECURSIVE Itoa(_)
\* strconv.Itoa and big.Int.String: decimal digits, most significant first
Itoa(n) == IF n < 10 THEN <<DecDigits[n + 1]>>
                     ELSE Itoa(n \div 10) \o <<DecDigits[(n % 10) + 1]>>

\* base64.RawURLEncoding: each 3 bytes give 4 characters of 6 bits, a last
\* group of 1 or 2 bytes gives 2 or 3, with no padding
Base64Group(b, g) ==
  LET n == Min({3, Len(b) - 3 * g})
      byte(k) == IF k <= n THEN b[3 * g + k] ELSE 0
      v == byte(1) * 65536 + byte(2) * 256 + byte(3)
  IN  [k \in 1..(n + 1) |-> Base64URL[((v \div 64 ^ (4 - k)) % 64) + 1]]
RawURLEncodeToString(b) == FlattenSeq([g \in 1..((Len(b) + 2) \div 3) |-> Base64Group(b, g - 1)])

\* bjjToString: the compressed key, then the uint8 (wrapping) sum of its bytes
bjjToString(pkComp) ==
  LET sum == FoldLeft(+, 0, pkComp) % 256
  IN  Hez \o RawURLEncodeToString(Append(pkComp, sum))

\* ethAddrToHez: Address.String() is "0x" and 40 hex digits (EIP-55 mixed
\* case, a function of the address, is left out)
ethAddrToHez(addr) ==
  Hez \o <<"0", "x">> \o FlattenSeq([i \in DOMAIN addr |->
                           <<HexDigits[addr[i] \div 16 + 1], HexDigits[(addr[i] % 16) + 1]>>])

idxToHez(idx, tokenSymbol) == Hez \o tokenSymbol \o <<Colon>> \o Itoa(idx)

\* Mutant: the first item of the page is taken as its first item_id
GetPaginationNoOrder(items) ==
  [firstReturnedItem |-> items[1].itemID, lastReturnedItem |-> items[Len(items)].itemID]

\* historyTxsAPI.GetPagination: first and last returned item_id from the
\* first and last items, whatever the page's order (the page is not empty)
GetPagination(items) ==
  IF items[1].itemID < items[Len(items)].itemID
    THEN [firstReturnedItem |-> items[1].itemID, lastReturnedItem |-> items[Len(items)].itemID]
    ELSE [lastReturnedItem |-> items[1].itemID, firstReturnedItem |-> items[Len(items)].itemID]

\* exitsAPI.GetPagination: the same on a page of exits
ExitsGetPagination(items) == GetPagination(items)

TokenRead(r) == [tokenID |-> r.token, symbol |-> TokenSymbols[r.token]]

\* historyTxsToAPI: the common fields, FromIdx when set, then L1Info or L2Info
historyTxsToAPI(dbTxs) ==
  [i \in DOMAIN dbTxs |->
     LET r == dbTxs[i] IN
     [txID |-> r.txID, itemID |-> r.itemID, type |-> r.type, position |-> r.position,
      toIdx |-> idxToHez(r.to, TokenSymbols[r.token]), amount |-> Itoa(r.amount),
      batchNum |-> r.batchNum, token |-> TokenRead(r),
      fromIdx |-> IF r.from = NoFromIdx THEN Nil ELSE {idxToHez(r.from, TokenSymbols[r.token])},
      isL1 |-> IF r.isL1 THEN "L1" ELSE "L2",
      l1Info |-> IF r.isL1
                   THEN {[userOrigin |-> r.userOrigin, fromEthAddr |-> ethAddrToHez(r.ethAddr),
                          fromBJJ |-> bjjToString(r.bjj), loadAmount |-> Itoa(r.loadAmount)]}
                   ELSE Nil,
      l2Info |-> IF r.isL1 THEN Nil ELSE {[fee |-> r.fee, nonce |-> r.nonce]}]]

\* historyExitsToAPI: AccountIdx as a hez idx, Balance as a decimal string
historyExitsToAPI(dbExits) ==
  [i \in DOMAIN dbExits |->
     LET r == dbExits[i] IN
     [itemID |-> r.itemID, batchNum |-> r.batchNum,
      accountIdx |-> idxToHez(r.accountIdx, TokenSymbols[r.token]),
      balance |-> Itoa(r.balance), token |-> TokenRead(r),
      instantWithdrawn |-> r.instantWithdrawn,
      delayedWithdrawRequest |-> r.delayedWithdrawRequest,
      delayedWithdrawn |-> r.delayedWithdrawn]]

(***************************************************************************)
(* The rows the synchronizer stores for the synced batch (design 4.G): its *)
(* L2 txs, with item_ids in batch order, and one exit row per account that *)
(* exits, with what it exits; and the row of an L1 user tx.  Every row has *)
(* every column, the ones its kind leaves NULL at a default.               *)
(***************************************************************************)
ItemOrders == {"ASC", "DESC"}
\* the L2Tx as the synchronizer stores it: in the synced batch, at its
\* position in the batch, forged in the forge block
ForgedL2Tx(tx, i) == tx @@ [batchNum |-> SyncedBatchNum, position |-> i - 1, ethBlockNum |-> BlockNum(0)]
\* the value a pointer the conversion always sets points to
Deref(p) == CHOOSE v \in p : TRUE
L2Row(tx, i) ==
  LET t == Tx(ForgedL2Tx(tx, i)) IN
  [itemID |-> i, txID |-> t.txID, type |-> t.type, position |-> t.position,
   batchNum |-> Deref(t.batchNum), from |-> t.from, to |-> t.to, amount |-> t.amount,
   token |-> t.token, isL1 |-> t.isL1, fee |-> Deref(t.fee), nonce |-> Deref(t.nonce),
   userOrigin |-> FALSE, ethAddr |-> <<>>, bjj |-> <<>>, loadAmount |-> 0]

\* an L1 user tx sent from the address ethAddr; a deposit creating an
\* account (FromIdx 0) has no FromIdx; its type and TxID are not modelled
L1Row(tx, ethAddr) ==
  [itemID |-> 1, txID |-> NoTxID, type |-> NoType, position |-> 0,
   batchNum |-> SyncedBatchNum, from |-> tx.from, to |-> tx.to, amount |-> tx.amount,
   token |-> tx.token, isL1 |-> TRUE, fee |-> 0, nonce |-> 0,
   userOrigin |-> TRUE, ethAddr |-> ethAddr, bjj |-> tx.bjj, loadAmount |-> tx.loadAmount]

\* a page of rows as the query returns them in order o
InOrder(rows, o) == IF o = "ASC" THEN rows ELSE Reverse(rows)

(***************************************************************************)
(* A client's reading of the strings (the formats of the specification).   *)
(* A string that is not of its format reads as Bad.                        *)
(***************************************************************************)
Bad == -1
\* the value of each character of an alphabet
Values(alphabet) == [c \in Range(alphabet) |-> CHOOSE k \in 0..(Len(alphabet) - 1) : alphabet[k + 1] = c]
DecValue == Values(DecDigits)
HexValue == Values(HexDigits)
Base64Value == Values(Base64URL)

IsDecimal(d) == d # <<>> /\ \A i \in DOMAIN d : d[i] \in DOMAIN DecValue
Atoi(d) == FoldLeft(LAMBDA acc, c : acc * 10 + DecValue[c], 0, d)
ReadDecimal(d) == IF IsDecimal(d) THEN Atoi(d) ELSE Bad

\* the fields of s between its colons
Fields(s) ==
  LET cs == <<0>> \o SetToSortSeq({k \in DOMAIN s : s[k] = Colon}, <) \o <<Len(s) + 1>>
  IN  [j \in 1..(Len(cs) - 1) |-> SubSeq(s, cs[j] + 1, cs[j + 1] - 1)]

\* "hez:<tokenSymbol>:<idx>"
ReadHezIdx(s) ==
  LET f == Fields(s) IN
  IF Len(f) = 3 /\ f[1] = SubSeq(Hez, 1, 3) /\ IsDecimal(f[3])
    THEN [symbol |-> f[2], idx |-> Atoi(f[3])] ELSE [symbol |-> <<>>, idx |-> Bad]

\* base64url without padding: 4 characters give 3 bytes, 2 or 3 give 1 or 2
DecodeGroup(c) ==
  LET v == FoldLeft(LAMBDA acc, x : acc * 64 + Base64Value[x], 0, c) * 64 ^ (4 - Len(c))
  IN  [k \in 1..(Len(c) - 1) |-> (v \div 256 ^ (3 - k)) % 256]
RawURLDecode(s) ==
  FlattenSeq([g \in 1..((Len(s) + 3) \div 4) |-> DecodeGroup(SubSeq(s, 4 * g - 3, Min({4 * g, Len(s)})))])

\* "hez:<base64url(key ++ checksum)>": the key when the checksum byte is the
\* 8-bit sum of its 32 bytes
ReadHezBJJ(s) ==
  LET body == SubSeq(s, Len(Hez) + 1, Len(s))
      b == RawURLDecode(body)
      key == SubSeq(b, 1, 32)
  IN  IF /\ SubSeq(s, 1, Len(Hez)) = Hez /\ Len(body) % 4 # 1
         /\ \A i \in DOMAIN body : body[i] \in DOMAIN Base64Value
         /\ Len(b) = 33 /\ b[33] = FoldLeft(+, 0, key) % 256
        THEN key ELSE <<>>

\* "hez:0x<40 hex digits>"
ReadHezEthAddr(s) ==
  LET hex == SubSeq(s, Len(Hez) + 3, Len(s))
  IN  IF /\ SubSeq(s, 1, Len(Hez) + 2) = Hez \o <<"0", "x">> /\ Len(hex) = 40
         /\ \A i \in DOMAIN hex : hex[i] \in DOMAIN HexValue
        THEN [i \in 1..20 |-> HexValue[hex[2 * i - 1]] * 16 + HexValue[hex[2 * i]]] ELSE <<>>

The(p) == CHOOSE x \in p : TRUE

\* a history tx item read back into the row it shows, its idxs' symbol
\* checked against its token
ReadTx(a) ==
  LET to == ReadHezIdx(a.toIdx)
      from == IF a.fromIdx = Nil THEN NoFromIdx
              ELSE LET f == ReadHezIdx(The(a.fromIdx))
                   IN  IF f.symbol = to.symbol THEN f.idx ELSE Bad
      l1 == IF a.l1Info = Nil THEN [userOrigin |-> FALSE, ethAddr |-> <<>>, bjj |-> <<>>, loadAmount |-> 0]
            ELSE LET i == The(a.l1Info)
                 IN  [userOrigin |-> i.userOrigin, ethAddr |-> ReadHezEthAddr(i.fromEthAddr),
                      bjj |-> ReadHezBJJ(i.fromBJJ), loadAmount |-> ReadDecimal(i.loadAmount)]
      l2 == IF a.l2Info = Nil THEN [fee |-> 0, nonce |-> 0] ELSE The(a.l2Info)
  IN  [itemID |-> a.itemID, txID |-> a.txID, type |-> a.type, position |-> a.position,
       batchNum |-> a.batchNum, from |-> from, to |-> to.idx, amount |-> ReadDecimal(a.amount),
       token |-> IF to.symbol = a.token.symbol THEN a.token.tokenID ELSE Bad,
       isL1 |-> a.isL1 = "L1", fee |-> l2.fee, nonce |-> l2.nonce] @@ l1

ReadExit(a) ==
  LET acc == ReadHezIdx(a.accountIdx) IN
  [itemID |-> a.itemID, batchNum |-> a.batchNum, accountIdx |-> acc.idx,
   balance |-> ReadDecimal(a.balance),
   token |-> IF acc.symbol = a.token.symbol THEN a.token.tokenID ELSE Bad,
   instantWithdrawn |-> a.instantWithdrawn,
   delayedWithdrawRequest |-> a.delayedWithdrawRequest,
   delayedWithdrawn |-> a.delayedWithdrawn]

\* the L1 user txs any sender may make: any key, deposit or account, token
\* and receiver, from any address
L1Rows ==
  {L1Row(tx, Address(a)) :
     tx \in [bjj : {Word(w) : w \in WordBytes}, from : Idxs \cup {0}, loadAmount : LoadAmounts,
            amount : Amounts, token : TokenIDs, to : ToIdxs \cup {0}],
     a \in EthAddrBytes}

\* the L1 user tx rows that do not read back
L1RowsMisread == {r \in L1Rows : ReadTx(historyTxsToAPI(<<r>>)[1]) # r}

\* the first and last item_id a page holds
PageBounds(rows) ==
  [firstReturnedItem |-> Min({rows[i].itemID : i \in DOMAIN rows}),
   lastReturnedItem |-> Max({rows[i].itemID : i \in DOMAIN rows})]

(***************************************************************************)
(* Every item the API builds from the rows of the synced batch, in either  *)
(* order, and from the row of any L1 user tx, reads back into its row:     *)
(* idxs with the token's symbol, amounts, L1 or L2 info, and the sender's  *)
(* key through its base64 string and wrapping 8-bit checksum; and a page's *)
(* pagination names its lowest and highest item_id even when the page is   *)
(* in descending order.  The rows of L1 user txs do not depend on the     *)
(* batch and are checked once, before it is forged; the tx rows do not     *)
(* change after the batch is synced and are checked before a withdrawal.   *)
(***************************************************************************)
HistoryViewsReadBack ==
  /\ phase = "synced" /\ requests = <<>> =>
       \A o \in ItemOrders :
         LET txs == InOrder([i \in DOMAIN SyncedL2Txs |-> L2Row(SyncedL2Txs[i], i)], o)
             apiTxs == historyTxsToAPI(txs)
         IN  /\ [i \in DOMAIN apiTxs |-> ReadTx(apiTxs[i])] = txs
             /\ txs # <<>> => GetPagination(apiTxs) = PageBounds(txs)
  /\ phase = "synced" =>
       \A o \in ItemOrders :
         LET exits == InOrder(ExitRows, o)
             apiExits == historyExitsToAPI(exits)
         IN  /\ [i \in DOMAIN apiExits |-> ReadExit(apiExits[i])] = exits
             /\ exits # <<>> => ExitsGetPagination(apiExits) = PageBounds(exits)
  /\ phase = "built" => L1RowsMisread = {}
====
