CONSTANTS
  f1 = f1
  f2 = f2
  root = root
  sub = sub
  Files = {f1}
  Root = root
  Subs = {sub}
  Home <- OneInSub
  Hasty = {}
  MaxWrites = 3
  MaxMoves = 3
  None = None
SPECIFICATION Spec
INVARIANT FolderIsFollowed
INVARIANT NothingGoesUnwatched
INVARIANT KnownIsAnnounced
PROPERTY FolderIsCaughtUp
CHECK_DEADLOCK FALSE
