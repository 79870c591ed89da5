SPECIFICATION LeaseSpec
CONSTANTS
  Processes = {1, 2, 3}
  MaxAcquisitions = 3
  MaxCrashes = 1
INVARIANTS
  ReclaimsOnlyTheDead
CHECK_DEADLOCK FALSE
