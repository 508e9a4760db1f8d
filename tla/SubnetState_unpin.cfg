SPECIFICATION Spec
CONSTANTS
  a = a
  b = b
  c = c
  n1 = n1
  n2 = n2
  None = None
  Waived = Waived
  Users <- MCUsers
  Nicks <- MCNicks
  OpTypes <- PinOps
  MaxMsgs = 2
  MaxPins = 3
  MaxOps = 9
SYMMETRY UserSymmetry
CHECK_DEADLOCK FALSE
INVARIANT UnpinClearsPinState
