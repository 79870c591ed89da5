SPECIFICATION Spec
CONSTANTS
  MaxMessages = 2
  MaxCancels = 1
  MaxApprovals = 0
  MaxGiveUps = 1
  MaxFaults = 1
  Modes <- MCAllModes
INVARIANTS
  TypeOK
  QueuedNotLost
  ReceiptsTruthful
  ClosedIsQuiet
PROPERTIES
  HandedInOrder
CHECK_DEADLOCK FALSE
