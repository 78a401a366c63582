SPECIFICATION Spec
CONSTANTS
  old1 = old1
  old2 = old2
  new1 = new1
  path1 = path1
  title1 = title1
  None = None
  Corrupt = Corrupt
  Names <- MCNames
  Contents <- MCContents
  Paths <- MCPaths
  Titles <- MCTitles
  MaxFaults = 2
INVARIANT NoMigrationIsSkipped
INVARIANT UncheckedRowsStayFlagged
INVARIANT LinksHaveRows
INVARIANT QuietStartHealsAll
PROPERTY HealingLosesNoReplay
PROPERTY TitlesFollowTheirReplay
