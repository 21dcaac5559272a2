-------------------------------- MODULE L2Tx --------------------------------
(***************************************************************************)
(* common.L2Tx (src/common/l2tx.go): its data-availability encoding, its   *)
(* type and its TxID.  Pure operators; RollupCodec uses them on both sides *)
(* of a forgeBatch.                                                        *)
(*                                                                         *)
(* Bytes are integers 0..255 and byte strings sequences of them; slices    *)
(* follow Go's b[lo:hi].  An amount is its Float16 code (Float16 is        *)
(* outside this repository and NewFloat16 rejects amounts it cannot encode *)
(* exactly).  SHA-256 is a collision-free image of its input: the record   *)
(* that keeps the preimage.                                                *)
(***************************************************************************)
EXTENDS Integers, Sequences, SequencesExt

IdxBytesLen == 6           \* common.IdxBytesLen
NonceBytesLen == 5         \* Nonce.Bytes: 40 bits
IdxUserThreshold == 256    \* common.IdxUserThreshold
TxIDPrefixL2Tx == 2        \* common.TxIDPrefixL2Tx
\* idxLen: the bytes of an idx in a tree of depth nLevels
IdxLen(nLevels) == nLevels \div 8

NoType == ""               \* a tx whose Type is not set
NoTxID == <<>>             \* TxID{}: the zero TxID
TxTypeExit == "Exit"
TxTypeTransfer == "Transfer"
TypeError == "error"

(***************************************************************************)
(* Byte helpers.                                                           *)
(***************************************************************************)
RECURSIVE BigEndian(_, _)
\* the n low bytes of x, most significant first
BigEndian(x, n) == IF n = 0 THEN <<>> ELSE BigEndian(x \div 256, n - 1) \o <<x % 256>>

\* the number a big-endian byte string stands for
FromBigEndian(b) == FoldLeft(LAMBDA acc, byte : acc * 256 + byte, 0, b)

\* Go's b[lo:hi]
Slice(b, lo, hi) == SubSeq(b, lo + 1, hi)

\* Idx.Bytes and IdxFromBytes: 6 bytes, big-endian.  Idx.Bytes fails above
\* 48 bits and Nonce.Bytes above 40; TLC's integers stop at 2^31, so no idx
\* or nonce of a model reaches either bound and neither fails here.
IdxBytes(idx) == BigEndian(idx, IdxBytesLen)
IdxFromBytes(b) == FromBigEndian(b)

Sha256(b) == [preimage |-> b]

(***************************************************************************)
(* BytesDataAvailability: [ fromIdx | toIdx | amountFloat16 | Fee ].       *)
(***************************************************************************)
\* fromIdxBytes[6-idxLen:]: the idxLen low bytes of the idx
TruncIdx(idx, nLevels) == Slice(IdxBytes(idx), IdxBytesLen - IdxLen(nLevels), IdxBytesLen)

BytesDataAvailability(tx, nLevels) ==
  TruncIdx(tx.from, nLevels) \o TruncIdx(tx.to, nLevels) \o BigEndian(tx.amount, 2) \o <<tx.fee>>

\* the idxLen bytes copied into the end of a zeroed [6]byte
PadIdx(b) ==
  IF Len(b) < IdxBytesLen THEN [i \in 1..(IdxBytesLen - Len(b)) |-> 0] \o b
                          ELSE SubSeq(b, 1, IdxBytesLen)

\* the decoded tx has no TokenID, Nonce, Type nor TxID
L2TxFromBytesDataAvailability(b, nLevels) ==
  LET n == IdxLen(nLevels) IN
  [from |-> IdxFromBytes(PadIdx(Slice(b, 0, n))),
   to |-> IdxFromBytes(PadIdx(Slice(b, n, 2 * n))),
   amount |-> FromBigEndian(Slice(b, 2 * n, 2 * n + 2)),
   fee |-> b[2 * n + 3]]

(***************************************************************************)
(* Type and TxID.                                                          *)
(***************************************************************************)
\* SetType: the type ToIdx determines, or TypeError
SetType(tx) ==
  CASE tx.to = 1                  -> TxTypeExit
    [] tx.to >= IdxUserThreshold  -> TxTypeTransfer
    [] OTHER                      -> TypeError

\* CalculateTxID: 0x02 and the hash of FromIdx TokenID Amount Nonce Fee;
\* ToIdx is not hashed
CalculateTxID(tx) ==
  <<TxIDPrefixL2Tx, Sha256(IdxBytes(tx.from) \o BigEndian(tx.token, 4)
                           \o BigEndian(tx.amount, 2)
                           \o BigEndian(tx.nonce, NonceBytesLen) \o <<tx.fee>>)>>

\* SetID: the TxID CalculateTxID gives
SetID(tx) == [tx EXCEPT !.txID = CalculateTxID(tx)]

\* NewL2Tx: set Type and TxID, rejecting a tx whose Type or TxID was set to
\* something else; [ok, tx] with the tx as mutated in place
NewL2Tx(tx) ==
  LET type == SetType(tx)
      withID == SetID([tx EXCEPT !.type = type])
  IN  IF type = TypeError \/ (tx.type # NoType /\ tx.type # type)
        THEN [ok |-> FALSE, tx |-> tx]
        ELSE [ok |-> tx.txID = NoTxID \/ tx.txID = withID.txID, tx |-> withID]

\* Tx: the common.Tx of a forged L2 tx; BatchNum, Fee and Nonce are
\* pointers to copies, a one-element set here
Tx(tx) ==
  [isL1 |-> FALSE, txID |-> tx.txID, type |-> tx.type, position |-> tx.position,
   from |-> tx.from, to |-> tx.to, token |-> tx.token, amount |-> tx.amount,
   batchNum |-> {tx.batchNum}, ethBlockNum |-> tx.ethBlockNum,
   fee |-> {tx.fee}, nonce |-> {tx.nonce}]

TxIDsFromL2Txs(txs) == [i \in DOMAIN txs |-> txs[i].txID]
====
