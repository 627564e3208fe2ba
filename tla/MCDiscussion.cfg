SPECIFICATION Spec
CONSTANTS
  None = None
  t1 = t1
  t2 = t2
  Threads = {t1, t2}
  MaxOwned = 2
  MaxAccepted = 1
  MaxActs = 2
  MaxChildren = 2
  MaxCrashes = 1
  MaxFaults = 1
  IdleExpiry = TRUE
  Backlog <- First
INVARIANTS TypeOK OneUnlessOvertaken OneOwner
PROPERTIES NeverTwice
CHECK_DEADLOCK FALSE
