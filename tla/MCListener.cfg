SPECIFICATION EslSpec
CONSTANTS
  Requests <- TwoRequests
  MaxEvents = 3
  MaxFaults = 6
  r1 = r1
  r2 = r2
  MaxChanges = 1
INVARIANTS
  PublishedInOrder
  NoGapInSession
  ReloadFresh
  SupervisionLogged
PROPERTIES
  Reconnects
  Stops
  CommandsReturn
CHECK_DEADLOCK FALSE
