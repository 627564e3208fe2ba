SPECIFICATION Spec
CONSTANTS
  None = None
  Backend = "overlay"
  MaxRuns = 3
  MaxCrashes = 0
  MaxFaults = 0
INVARIANTS ReleasedOnce
CHECK_DEADLOCK FALSE
