SPECIFICATION Spec
CONSTANTS
  a = a
  b = b
  s1 = s1
  s2 = s2
  None = None
  Users <- MCUsers
  Sims <- MCSims
  MaxLog = 2
  Overlap = FALSE
SYMMETRY Symmetry
INVARIANT TypeOK
INVARIANT StateIsReplay
PROPERTY IsolatedBetweenEntries
PROPERTY ImplementsReplay
CHECK_DEADLOCK FALSE
