CONSTANTS
  Paths = {p1, p2}
  Marks = {w0, w1}
  LongStopRounds = 2
  None = None
SPECIFICATION Spec
INVARIANT PollsExactlyWhilePending
PROPERTY EveryWaitIsAnswered
CHECK_DEADLOCK FALSE
