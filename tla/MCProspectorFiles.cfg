CONSTANTS
  f1 = f1
  f2 = f2
  root = root
  sub = sub
  Files = {f1, f2}
  Root = root
  Subs = {}
  Home <- BothInRoot
  Hasty = {}
  MaxWrites = 2
  MaxMoves = 0
  None = None
SPECIFICATION Safety
INVARIANT FolderIsFollowed
INVARIANT KnownIsAnnounced
CHECK_DEADLOCK FALSE
