SPECIFICATION Spec
CONSTANTS
  a = a
  b = b
  c = c
  n1 = n1
  n2 = n2
  None = None
  Waived = Waived
  Users <- MCUsers
  Nicks <- MCNicks
  OpTypes <- PostOps
  MaxMsgs = 1
  MaxPins = 1
  MaxOps = 3
SYMMETRY UserSymmetry
CHECK_DEADLOCK FALSE
INVARIANT UserMessagesAreRead
