---------------------------- MODULE RollupUserTx ----------------------------
(***************************************************************************)
(* The user-side calls of RollupClient: an L1 user tx sent straight to the *)
(* rollup contract (RollupL1UserTxERC20ETH: AddL1Transaction, with the     *)
(* load amount as the call's value for ETH, token 0) or as the data of an  *)
(* ERC777 send of HEZ to it (RollupL1UserTxERC777), and the registration   *)
(* of a token, paid in HEZ (RollupAddToken).                               *)
(*                                                                         *)
(* The contract is not in this repository: it is modelled from the         *)
(* specification as the receiver of the call, which for an ERC777 send     *)
(* dispatches on the data's 4-byte method id and ABI-decodes the 32-byte   *)
(* words after it, each uintN from the word's N/8 low bytes.  A method id *)
(* byte is a pair <<signature, position>> (the first 4 bytes of its        *)
(* keccak); an address is 20 bytes equal to one value.                     *)
(***************************************************************************)
EXTENDS RollupCodec

CONSTANTS
  LoadAmounts,   \* Float16 codes of load amounts (NewFloat16 is exact on them)
  TokenAddrs,    \* byte values of token addresses
  FeeAddTokens   \* HEZ fees paid for addToken

AddL1TxSignature == "addL1Transaction(uint256,uint48,uint16,uint16,uint32,uint48)"
AddTokenSignature == "addToken(address)"
SendMethod == "send"
ETH == "ETH"
HEZ == "HEZ"

\* hash.Sum(nil)[:4]: the first 4 bytes of the signature's keccak
MethodID(sig) == [i \in 1..4 |-> <<sig, i>>]

\* ethCommon.LeftPadBytes: zeros before b up to n bytes, b when it is longer
LeftPadBytes(b, n) ==
  IF Len(b) >= n THEN b ELSE [i \in 1..(n - Len(b)) |-> 0] \o b

\* common.SwapEndianness (outside this repository): the bytes reversed
SwapEndianness(b) == Reverse(b)

Address(a) == [i \in 1..20 |-> a]

\* the L1 user txs of the accounts of the state: from an account, in its
\* token, or a create-account deposit (FromIdx 0) of any token; ToIdx 0 is none
UserTxs ==
  LET txs(froms, tokens) ==
        [bjj : {Word(w) : w \in WordBytes}, from : froms, loadAmount : LoadAmounts,
         amount : Amounts, token : tokens, to : ToIdxs \cup {0}]
  IN  txs({0}, TokenIDs) \cup UNION {txs({i}, {state[i].token}) : i \in DOMAIN state}

(***************************************************************************)
(* The calls RollupClient makes: the contract called, the value it sends   *)
(* (ETH, or HEZ sent by the ERC777 send), the method and its arguments.    *)
(***************************************************************************)
\* babyPubKey: the compressed key with its endianness swapped, as a uint256
BabyPubKey(tx) == SwapEndianness(tx.bjj)

RollupL1UserTxERC20ETH(tx) ==
  [paid |-> IF tx.token = 0 THEN [token |-> ETH, amount |-> tx.loadAmount]
                            ELSE [token |-> ETH, amount |-> 0],
   method |-> AddL1TxSignature,
   args |-> <<BabyPubKey(tx), tx.from, tx.loadAmount, tx.amount, tx.token, tx.to>>]

\* Mutant: the amount word is written before the load amount word
L1UserTxDataSwapped(tx) ==
  MethodID(AddL1TxSignature) \o LeftPadBytes(BabyPubKey(tx), 32)
    \o LeftPadBytes(IdxBytes(tx.from), 32) \o LeftPadBytes(BigEndian(tx.amount, 2), 32)
    \o LeftPadBytes(BigEndian(tx.loadAmount, 2), 32) \o LeftPadBytes(BigEndian(tx.token, 4), 32)
    \o LeftPadBytes(IdxBytes(tx.to), 32)

\* the data of the ERC777 send: method id, then six left-padded words
L1UserTxData(tx) ==
  MethodID(AddL1TxSignature) \o LeftPadBytes(BabyPubKey(tx), 32)
    \o LeftPadBytes(IdxBytes(tx.from), 32) \o LeftPadBytes(BigEndian(tx.loadAmount, 2), 32)
    \o LeftPadBytes(BigEndian(tx.amount, 2), 32) \o LeftPadBytes(BigEndian(tx.token, 4), 32)
    \o LeftPadBytes(IdxBytes(tx.to), 32)

RollupL1UserTxERC777(tx) ==
  [paid |-> [token |-> HEZ, amount |-> tx.loadAmount],
   method |-> SendMethod, args |-> <<tx.loadAmount, L1UserTxData(tx)>>]

RollupAddToken(addr, feeAddToken) ==
  [paid |-> [token |-> HEZ, amount |-> feeAddToken],
   method |-> SendMethod,
   args |-> <<feeAddToken, MethodID(AddTokenSignature) \o LeftPadBytes(Address(addr), 32)>>]

(***************************************************************************)
(* The contract's reading of a call: a direct call as it is; the data of   *)
(* an ERC777 send dispatched on its method id and ABI-decoded.             *)
(***************************************************************************)
DataWord(data, k) == Slice(data, 4 + 32 * (k - 1), 4 + 32 * k)
AbiUint(w, n) == FromBigEndian(Slice(w, 32 - n, 32))

TokensReceived(data) ==
  CASE Slice(data, 0, 4) = MethodID(AddL1TxSignature) ->
         [method |-> AddL1TxSignature,
          args |-> <<DataWord(data, 1), AbiUint(DataWord(data, 2), 6),
                     AbiUint(DataWord(data, 3), 2), AbiUint(DataWord(data, 4), 2),
                     AbiUint(DataWord(data, 5), 4), AbiUint(DataWord(data, 6), 6)>>]
    [] Slice(data, 0, 4) = MethodID(AddTokenSignature) ->
         [method |-> AddTokenSignature, args |-> <<Slice(DataWord(data, 1), 12, 32)>>]

Received(call) ==
  IF call.method = SendMethod
    THEN [paid |-> call.paid] @@ TokensReceived(call.args[2])
    ELSE call

(***************************************************************************)
(* Whichever entry point a user takes, the contract reads the same L1 user *)
(* tx (key, idxs, Float16 codes of both amounts, token), with the load     *)
(* amount paid in ETH for token 0 or in HEZ through ERC777; and addToken   *)
(* reads the token address it was sent, paid with the fee.  The ERC777     *)
(* data is laid out by hand in RollupL1UserTxERC777, word by word.  The    *)
(* users are those of the accounts before the batch is forged.             *)
(***************************************************************************)
UserCallsDecoded ==
  phase = "built" =>
  /\ \A tx \in UserTxs :
       LET direct == Received(RollupL1UserTxERC20ETH(tx))
           viaHEZ == Received(RollupL1UserTxERC777(tx))
       IN  /\ viaHEZ.method = direct.method
           /\ viaHEZ.args = direct.args
           /\ viaHEZ.paid = [token |-> HEZ, amount |-> tx.loadAmount]
           /\ tx.token = 0 => direct.paid = [token |-> ETH, amount |-> tx.loadAmount]
  /\ \A a \in TokenAddrs, fee \in FeeAddTokens :
       Received(RollupAddToken(a, fee))
         = [paid |-> [token |-> HEZ, amount |-> fee], method |-> AddTokenSignature,
            args |-> <<Address(a)>>]
====
