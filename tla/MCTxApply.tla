----------------------------- MODULE MCTxApply ------------------------------
(* Small instances of TxApply for TLC. *)
EXTENDS TxApply, TLC

CONSTANTS p, q, t1, t2, t3

MCPeers == {p, q}
MCTxs == {t1, t2}

\* The function of the third one throws.
WithThrowing == {t1, t2, t3}

TxEntries == [type : {"tx"}, key : MCTxs, msbsl : 1 .. MaxSigned, matches : {TRUE}]
Foreign == [type : {"tx"}, key : MCTxs, msbsl : {1}, matches : {FALSE}]

\* Entries of two transactions at every length, or for another content.
MCEntries == TxEntries \cup Foreign

\* The third one's, and one beyond the signed-length limit.
Throws3 == [type : {"tx"}, key : {t3}, msbsl : {2}, matches : {TRUE}]
Beyond == [type : {"tx"}, key : {t3}, msbsl : {MaxMsb}, matches : {TRUE}]

\* The admin switches transactions on and off as well.
Switches == [type : {"txenOn", "txenOff"}, key : {t3}, msbsl : {0}, matches : {TRUE}]
AllEntries == MCEntries \cup Throws3 \cup Beyond \cup Switches

\* Peers differ in nothing, and neither do the two transactions.
Symmetry == Permutations(MCPeers) \cup Permutations(MCTxs)
=============================================================================
