SPECIFICATION CatalogSpec
SYMMETRY Renamings
CONSTANTS
  q1 = q1
  q2 = q2
  a1 = a1
  f1 = f1
  f2 = f2
  r1 = r1
  r2 = r2
  x1 = x1
  x2 = x2
  AnyQueue = AnyQueue
  QueueNames <- TwoQueues
  AgentNames <- OneAgent
  ProfileNames <- TwoProfiles
  RoomNames <- TwoRooms
  Places <- TwoPlaces
  MaxWrites = 3
INVARIANTS
  TiersResolve
  StableRowsServed
  CallFindsProfile
PROPERTIES
  DanglingIsNewborn
CHECK_DEADLOCK FALSE
