SPECIFICATION Spec
CONSTANTS
  MaxMessages = 1
  MaxCancels = 0
  MaxApprovals = 0
  MaxGiveUps = 0
  MaxFaults = 0
  Modes <- MCOrderly
INVARIANTS
  NoStrandedMessage
CHECK_DEADLOCK FALSE
