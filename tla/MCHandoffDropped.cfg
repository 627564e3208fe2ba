SPECIFICATION Spec
CONSTANTS
  None = None
  Backend = "overlay"
  MaxRuns = 3
  MaxCrashes = 1
  MaxFaults = 0
INVARIANTS NoMemberDropped
CHECK_DEADLOCK FALSE
