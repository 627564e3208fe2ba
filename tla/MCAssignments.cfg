SPECIFICATION FairSpec
CONSTANTS
  None = None
  a1 = a1
  a2 = a2
  a3 = a3
  h1 = h1
  h2 = h2
  Ids = {a1, a2, a3}
  Hosts = {h1, h2}
  MaxCrashes <- OneRestart
  Clash <- AllClash
  Supersedes <- OneRetry
INVARIANTS TypeOK Covered OneAgent
PROPERTIES GivenBack
CHECK_DEADLOCK FALSE
