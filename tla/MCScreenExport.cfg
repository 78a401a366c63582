SPECIFICATION Spec
CONSTANTS
  a = a
  b = b
  None = None
  Checksums <- MCChecksums
  MaxQueue = 2
  MaxEvents = 3
PROPERTY ExportsAreVisible
