-------------------------- MODULE MCTxSettlement ---------------------------
(* Small instances of TxSettlement for TLC. *)
EXTENDS TxSettlement, TLC

CONSTANTS p, q, t1, t2, t3, c1, c2

MCPeers == {p, q}
OnePeer == {p}
MCTxs == {t1, t2}
ThreeTxs == {t1, t2, t3}
TwoCalls == {c1, c2}

\* Calls differ in nothing.
CallSymmetry == Permutations(TwoCalls)

TxEntries == [type : {"tx"}, key : Txs, msbsl : Lengths, matches : {TRUE}]

\* The admin disables transactions.
OffOnly == [type : {"txenOff"}, key : {t1}, msbsl : {0}, matches : {TRUE}]
NoSwitches == {}
MCEntries == TxEntries \cup OffOnly
=============================================================================
