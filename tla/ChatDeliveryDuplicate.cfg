SPECIFICATION Spec
CONSTANTS
  MaxMessages = 2
  MaxCancels = 1
  MaxApprovals = 0
  MaxGiveUps = 1
  MaxFaults = 0
  Modes <- MCRacing
INVARIANTS
  OneTurnPerMessage
CHECK_DEADLOCK FALSE
