SPECIFICATION Spec
CONSTANTS
  None = None
  Backend = "overlay"
  MaxRuns = 3
  MaxCrashes = 1
  MaxFaults = 1
INVARIANTS TypeOK WriterIsBound RunningKeepsSlot ReceiptTruthful SealedQuiet
PROPERTIES ImplementsLease
CHECK_DEADLOCK FALSE
