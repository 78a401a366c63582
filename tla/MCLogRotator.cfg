CONSTANTS
  Main = main
  Io = io
  Threads = {main, io, other}
  BufferSize = 3
  m_maxRotations = 1
  LOG_FILE_POLL_INTERVAL = 2
  MAX_LOG_FILE_SIZE = 1
  MaxMessages = 2
  MaxLate = 1
  Sentinel = Sentinel
  None = None
SPECIFICATION Spec
INVARIANT NobodyIsForgotten
INVARIANT StoppingLosesNothing
INVARIANT DiskIsBounded
INVARIANT FilesHoldTheNewest
PROPERTY DrainsLikeAQueue
PROPERTY QuittingEnds
CHECK_DEADLOCK FALSE
