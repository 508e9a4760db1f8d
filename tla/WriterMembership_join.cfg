SPECIFICATION FairSpec
CONSTANTS
  h = h
  r = r
  s = s
  c1 = c1
  Peers <- MCPeers
  Home = h
  Conns <- MCConns
  Asker <- MCAsker
  Host <- MCHost
  Signed <- MCSigned
  MaxLog = 4
  Deadlines = TRUE
INVARIANTS TypeOK OnlyAskersAreProposed WritersAreJustified
PROPERTIES JoinsAreGranted ConnectingPeersJoin
CHECK_DEADLOCK FALSE
