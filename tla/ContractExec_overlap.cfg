SPECIFICATION Spec
CONSTANTS
  a = a
  b = b
  s1 = s1
  s2 = s2
  None = None
  Users <- MCUsers
  Sims <- MCSims
  MaxLog = 2
  Overlap = TRUE
SYMMETRY Symmetry
PROPERTY SimulationLeavesNoTrace
CHECK_DEADLOCK FALSE
