CONSTANTS
  Paths = {p1}
  Checksums = {c1, c2}
  MAX_FAST_STORAGE_RETRIES = 1
  LongStopRounds = 2
  MaxWrites = 3
  MaxFaults = 2
  Faults = {"lock", "misread", "begin", "commit", "forward", "unlink", "sweep", "crash"}
  None = None
SPECIFICATION Safety
INVARIANT CatalogueIsBacked
INVARIANT FastPathIsSound
INVARIANT NoReplayIsStranded
INVARIANT PromisesAreKept
CHECK_DEADLOCK FALSE
