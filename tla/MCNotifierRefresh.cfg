SPECIFICATION AlertSpec
CONSTANTS
  a1 = a1
  b1 = b1
  b2 = b2
  b3 = b3
  x1 = x1
  x2 = x2
  Nowhere = Nowhere
  MaxChanges = 4
  Accounts <- OneAccount
  Sinks <- OneSink
  Browsers <- ThreeBrowsers
  Extensions <- TwoExtensions
  Capacity = 2
  MaxNew = 2
  MaxArrivals = 2
  MaxWire = 1
  MaxStarts = 2
INVARIANTS
  RefreshNeverAlerts
CHECK_DEADLOCK FALSE
