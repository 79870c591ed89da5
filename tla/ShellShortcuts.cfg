SPECIFICATION ViewsSpec
CONSTANTS
  MaxAwaited = 1
INVARIANTS
  ComposerKeepsItsKeys
CHECK_DEADLOCK FALSE
