SPECIFICATION Spec
CONSTANTS
  p = p
  q = q
  t1 = t1
  t2 = t2
  t3 = t3
  c1 = c1
  c2 = c2
  None = None
  Home = p
  Peers <- MCPeers
  Txs <- MCTxs
  Known = {t1, t2}
  Throwing = {t2}
  Entries <- MCEntries
  Switches <- OffOnly
  Delta = 9
  MaxSigned = 9
  MaxMsb = 2
  MaxLog = 2
  Calls <- TwoCalls
  PoolMax = 0
  MaxDelay = 0
  MaxTime = 1
  Faults = {"restart", "revoke"}
SYMMETRY CallSymmetry
INVARIANT TypeOK
INVARIANT PoolBound
INVARIANT AppendedIsConfirmed
INVARIANT AppendedIsExecuted
PROPERTIES TransactionsAreKept ImplementsApply
CHECK_DEADLOCK FALSE
