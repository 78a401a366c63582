SPECIFICATION Spec
CONSTANTS
  a = a
  b = b
  None = None
  Checksums <- MCChecksums
  MaxQueue = 2
  MaxEvents = 2
INVARIANT TypeOK
INVARIANT ViewIsCurrent
INVARIANT CountIsCurrent
INVARIANT TitlesAsAsked
PROPERTY PendingIsAnswered
