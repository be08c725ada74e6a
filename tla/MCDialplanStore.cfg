SPECIFICATION StoreSpec
CONSTANTS
  e1 = e1
  e2 = e2
  e3 = e3
  w1 = w1
  w2 = w2
  r1 = r1
  u1 = u1
  u2 = u2
  p1 = p1
  p2 = p2
  None = None
  Ids <- ThreeIds
  Initial <- OneId
  Writers <- TwoWriters
  Readers <- OneReader
  Users <- TwoUsers
  Passwords <- TwoPasswords
  Conditions = 2
  PoolSize = 2
  MaxWrites = 3
INVARIANTS
  CommittedWhole
  NoOrphans
  QuietReadWhole
  ReadsOneVersion
  PhoneServed
PROPERTIES
  AllAnswered
CHECK_DEADLOCK FALSE
