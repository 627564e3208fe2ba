SPECIFICATION FairSpec
CONSTANTS
  None = None
  t1 = t1
  t2 = t2
  Threads = {t1, t2}
  MaxOwned = 1
  MaxAccepted = 1
  MaxActs = 3
  MaxChildren = 2
  MaxCrashes = 0
  MaxFaults = 0
  IdleExpiry = TRUE
  Backlog <- Nothing
INVARIANTS WithinLimit
PROPERTIES SlotComesBack QueueMoves
CHECK_DEADLOCK FALSE
