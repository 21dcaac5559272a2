--------------------------- MODULE MCRollupCodec ---------------------------
(***************************************************************************)
(* RollupCodec, RollupUserTx and APIConversions for TLC: the contract's    *)
(* verifiers as a sequence and the symbols of the tokens as strings.       *)
(***************************************************************************)
EXTENDS APIConversions

\* one verifier, of depth 16 (LenVerifiers is 1)
MCChainVerifiers == <<16>>

\* token 0 is ether; token 1 is HEZ
MCTokenSymbols == [t \in {0, 1} |-> IF t = 0 THEN <<"E", "T", "H">> ELSE <<"H", "E", "Z">>]
====
