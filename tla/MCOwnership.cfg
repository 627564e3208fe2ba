SPECIFICATION FairSpec
CONSTANTS
  k1 = k1
  k2 = k2
  o1 = o1
  o2 = o2
  Callers = {k1, k2}
  Coordinators = {o1, o2}
  Owner <- MCOwner
  Epoch <- MCEpoch
  Packages = {p}
  Attempts = {a1, a2}
  Checkouts = {w}
  Units = {"tasks"}
  Reservations <- MCReservations
  Budget <- MCBudget
  Ceiling = 1
  MaxTokens = 2
  None = None
INVARIANTS TypeOK Exclusive AckedDurable WithinCeiling
PROPERTIES OnlyDrainedRelease LockComesBack ImplementsTable WithinBudget
