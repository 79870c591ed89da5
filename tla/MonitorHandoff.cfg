SPECIFICATION ViewsOfSpec
CONSTANTS
  MaxViewRequests = 1
  MaxViewTurns = 1
  MaxLostAnswers = 0
  ShortlistLimit = 1
  DetailLimit = 2
INVARIANTS
  MonitorHandsOff
CHECK_DEADLOCK FALSE
