SPECIFICATION RunsSpec
CONSTANTS
  Runners = {"review"}
PROPERTIES
  TimedOutReviewEnds
CHECK_DEADLOCK FALSE
