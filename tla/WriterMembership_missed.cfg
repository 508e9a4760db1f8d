SPECIFICATION FairSpec
CONSTANTS
  h = h
  r = r
  s = s
  c1 = c1
  Peers <- OnePair
  Home = h
  Conns <- MCConns
  Asker <- OneAsker
  Host <- OneHost
  Signed <- OnlyOn
  MaxLog = 3
  Deadlines = FALSE
PROPERTY ConnectedPeersJoin
CHECK_DEADLOCK FALSE
