SPECIFICATION Spec
CONSTANTS
  None = None
  t1 = t1
  t2 = t2
  Threads = {t1, t2}
  MaxOwned = 2
  MaxAccepted = 1
  MaxActs = 2
  MaxChildren = 2
  MaxCrashes = 0
  MaxFaults = 0
  IdleExpiry = FALSE
  Backlog <- First
INVARIANTS OneResponse
CHECK_DEADLOCK FALSE
