SPECIFICATION AppSpec
CONSTANTS
  p1 = p1
  p2 = p2
  None = None
  Processes <- MCProcesses
  Overlap = FALSE
  Timely = TRUE
  Fast = 1
  Slow = 2
  snapshot = snapshot
  release = release
  nightly = nightly
  Tags <- MCTags
  Number <- MCNumber
  Stable <- MCStable
  DebugBuild = FALSE
INVARIANT OnePrimary
INVARIANT OfferIsWelcome
PROPERTY RequestsAreAllowed
PROPERTY ChecksGoOn
