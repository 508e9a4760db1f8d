SPECIFICATION FairSpec
CONSTANTS
  c1 = c1
  c2 = c2
  c3 = c3
  None = None
  Chains <- MCChains
INVARIANTS TypeOK OneRunAtATime StoppedIsQuiet
PROPERTIES RunsAgain StopWindsDown
CHECK_DEADLOCK FALSE
