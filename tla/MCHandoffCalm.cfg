SPECIFICATION FairSpec
CONSTANTS
  None = None
  Backend = "overlay"
  MaxRuns = 4
  MaxCrashes = 0
  MaxFaults = 1
INVARIANTS NoMemberDropped
PROPERTIES MemberSettles
CHECK_DEADLOCK FALSE
