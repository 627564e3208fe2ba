SPECIFICATION Spec
CONSTANTS
  None = None
  Other = Other
  MaxSessions = 3
  MaxEdits = 2
  MaxFaults = 1
INVARIANT SyncedOnBranch
CHECK_DEADLOCK FALSE
