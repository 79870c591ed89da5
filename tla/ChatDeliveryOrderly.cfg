SPECIFICATION FairSpec
CONSTANTS
  MaxMessages = 3
  MaxCancels = 1
  MaxApprovals = 1
  MaxGiveUps = 1
  MaxFaults = 0
  Modes <- MCOrderly
INVARIANTS
  OneTurnPerMessage
  TurnsDoNotOverlap
PROPERTIES
  UncertainHoldsQueue
  DeliversLikeAnOutbox
  ChainsGetThrough
CHECK_DEADLOCK FALSE
