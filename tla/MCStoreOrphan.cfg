CONSTANTS
  Paths = {p1}
  Checksums = {c1}
  MAX_FAST_STORAGE_RETRIES = 1
  LongStopRounds = 1
  MaxWrites = 1
  MaxFaults = 1
  Faults = {"crash"}
  None = None
SPECIFICATION Spec
PROPERTY EveryReplayIsIngested
CHECK_DEADLOCK FALSE
