SPECIFICATION HistorySpec
CONSTANTS
  Calls <- FourCalls
  NoUuid = "none"
  Uuid <- UuidOf
  Start <- StartOf
  Answered <- AnsweredOnes
  MaxLimit = 1
  Limits <- AskedLimits
  Slots <- TwoSlots
  MaxFaults = 1
  Days <- FourDays
  MaxChanges = 2
INVARIANTS
  WalkComplete
  PageReachesTotal
  WalkShowsStable
PROPERTIES
  Recorded
CHECK_DEADLOCK FALSE
