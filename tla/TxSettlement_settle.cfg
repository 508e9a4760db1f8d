SPECIFICATION FairSpec
CONSTANTS
  p = p
  q = q
  t1 = t1
  t2 = t2
  t3 = t3
  c1 = c1
  c2 = c2
  None = None
  Home = p
  Peers <- MCPeers
  Txs <- ThreeTxs
  Known = {t1, t2, t3}
  Throwing = {t3}
  Entries <- MCEntries
  Switches <- NoSwitches
  Delta = 9
  MaxSigned = 9
  MaxMsb = 2
  MaxLog = 3
  Calls <- TwoCalls
  PoolMax = 1
  MaxDelay = 1
  MaxTime = 0
  Faults = {}
PROPERTIES ConfirmedIsExecuted KeepsUp
CHECK_DEADLOCK FALSE
