CONSTANTS
  Paths = {p1}
  Checksums = {c1, c2}
  MAX_FAST_STORAGE_RETRIES = 1
  LongStopRounds = 1
  MaxWrites = 2
  MaxFaults = 0
  Faults = {}
  None = None
SPECIFICATION Safety
PROPERTY HidingLosesNoReplay
CHECK_DEADLOCK FALSE
