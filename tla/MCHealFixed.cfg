SPECIFICATION Spec
CONSTANTS
  old1 = old1
  old2 = old2
  new1 = new1
  path1 = path1
  title1 = title1
  None = None
  Corrupt = Corrupt
  Names <- MCTwoNames
  Contents <- MCContents
  Paths <- MCPaths
  Titles <- MCTitles
  MaxFaults = 1
PROPERTY WrongChecksumsAreFixed
