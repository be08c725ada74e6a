SPECIFICATION Spec
CONSTANTS
  n1 = n1
  u1 = u1
  None = None
  Names <- OneName
  Numbers <- OneNumber
  MaxRequests = 3
INVARIANTS
  RowsConsistent
  LogTruthful
  LogKeepsUp
  
CHECK_DEADLOCK FALSE
