SPECIFICATION Spec
CONSTANTS
  n1 = n1
  u1 = u1
  None = None
  Names <- OneName
  Numbers <- OneNumber
  MaxRequests = 2
INVARIANTS
  EveryChangeRecorded
CHECK_DEADLOCK FALSE
