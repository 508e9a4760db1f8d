SPECIFICATION ApplySpec
CONSTANTS
  p = p
  q = q
  t1 = t1
  t2 = t2
  t3 = t3
  Peers <- MCPeers
  Txs <- MCTxs
  Known = {t1, t2}
  Throwing = {}
  Entries <- MCEntries
  Delta = 1
  MaxSigned = 3
  MaxMsb = 3
  MaxLog = 3
SYMMETRY Symmetry
INVARIANT Agreement
CHECK_DEADLOCK FALSE
