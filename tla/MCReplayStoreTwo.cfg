CONSTANTS
  Paths = {p1, p2}
  Checksums = {c1}
  MAX_FAST_STORAGE_RETRIES = 1
  LongStopRounds = 1
  MaxWrites = 1
  MaxFaults = 1
  Faults = {"lock", "misread", "begin"}
  None = None
SPECIFICATION Spec
PROPERTY EveryReplayIsIngested
PROPERTY RetryListIsUsedProperly
CHECK_DEADLOCK FALSE
