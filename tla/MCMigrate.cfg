SPECIFICATION Spec
CONSTANTS
  i1 = i1
  i2 = i2
  i3 = i3
  None = None
  Instances <- ThreeInstances
  N = 3
  Idempotent <- AllButLast
  MaxCrashes = 2
INVARIANTS
  CommittedOnce
  LedgerTrue
  ServesMigrated
PROPERTIES
  EverybodyServes
CHECK_DEADLOCK FALSE
