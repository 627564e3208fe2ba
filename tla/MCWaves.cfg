SPECIFICATION FairSpec
CONSTANTS
  None = None
  c1 = c1
  c2 = c2
  c3 = c3
  s1 = s1
  s2 = s2
  Coords = {c1, c2, c3}
  Session <- TwoSessions
  N = 2
  MaxPauses = 1
INVARIANTS TypeOK InOrder ClaimKept
PROPERTIES NotStolen 
CHECK_DEADLOCK FALSE
