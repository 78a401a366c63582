CONSTANTS
  f1 = f1
  f2 = f2
  root = root
  sub = sub
  Files = {f1}
  Root = root
  Subs = {}
  Home <- OneInRoot
  Hasty = {"return"}
  MaxWrites = 3
  MaxMoves = 0
  None = None
SPECIFICATION Safety
INVARIANT RecreatedFilesAreWatched
CHECK_DEADLOCK FALSE
