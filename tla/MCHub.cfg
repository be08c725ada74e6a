SPECIFICATION ServerSpec
CONSTANTS
  p1 = p1
  s1 = s1
  s2 = s2
  h1 = h1
  h2 = h2
  h3 = h3
  Publishers <- OnePublisher
  Subscribers <- TwoSubscribers
  Handlers <- ThreeHandlers
  Capacity = 2
  MaxEvents = 3
  Nobody = Nobody
INVARIANTS
  NoPanic
  InOrder
  CutOnlyByTimeout
PROPERTIES
  PublishFinishes
  CallsReturn
  Implements
  Exits
CHECK_DEADLOCK FALSE
