SPECIFICATION Spec
CONSTANTS
  a = a
  b = b
  c = c
  n1 = n1
  n2 = n2
  None = None
  Waived = Waived
  Users <- MCUsers
  Nicks <- MCNicks
  OpTypes <- AllOps
  MaxMsgs = 2
  MaxPins = 2
  MaxOps = 7
SYMMETRY NameSymmetry
CHECK_DEADLOCK FALSE
INVARIANTS TypeOK DeletionIndexExact PinIdLeadsBack NoOperationCountsTwice UserIndexExact
INVARIANTS AdminWhereRead NickBijection ListedMessagesAreRead
PROPERTIES DeletionIsFinal AdminMessagesAreSafe NameIsNeverTaken StaffMutedByAdminOnly WaivedIsFinal
