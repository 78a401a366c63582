CONSTANTS
  Paths = {p1, p2}
  Checksums = {c1, c2}
  MAX_FAST_STORAGE_RETRIES = 1
  LongStopRounds = 1
  MaxWrites = 2
  MaxFaults = 1
  Faults = {"lock", "misread", "begin", "commit", "crash"}
  None = None
SPECIFICATION Safety
SYMMETRY Symmetric
INVARIANT NoGhostRemains
INVARIANT PublishedIsCurrent
INVARIANT PollRunsWhenNeeded
CHECK_DEADLOCK FALSE
