SPECIFICATION ApplySpec
CONSTANTS
  p = p
  q = q
  t1 = t1
  t2 = t2
  t3 = t3
  Peers <- MCPeers
  Txs <- WithThrowing
  Known = {t1, t2, t3}
  Throwing = {t3}
  Entries <- AllEntries
  Delta = 3
  MaxSigned = 2
  MaxMsb = 3
  MaxLog = 3
SYMMETRY Symmetry
INVARIANT ApplyTypeOK
INVARIANT Agreement
INVARIANT OnlySettledOnce
INVARIANT LedgerIsWhatIsDue
PROPERTY ImplementsSettlement
CHECK_DEADLOCK FALSE
