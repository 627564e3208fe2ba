SPECIFICATION FairSpec
CONSTANTS
  None = None
  Other = Other
  MaxSessions = 3
  MaxEdits = 2
  MaxFaults = 1
INVARIANTS TypeOK MovedUnderClaim IntegratedSettled
PROPERTIES NoForeignLoss IgnoredOnlyRaced SyncedStays PromotionEnds CrashesAreSurvived
CHECK_DEADLOCK FALSE
