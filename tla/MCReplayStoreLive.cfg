CONSTANTS
  Paths = {p1}
  Checksums = {c1, c2}
  MAX_FAST_STORAGE_RETRIES = 1
  LongStopRounds = 2
  MaxWrites = 2
  MaxFaults = 2
  Faults = {"lock", "misread", "begin"}
  None = None
SPECIFICATION Spec
PROPERTY EveryReplayIsIngested
CHECK_DEADLOCK FALSE
