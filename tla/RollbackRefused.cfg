SPECIFICATION Spec
CONSTANTS
  Releases <- MCReleases
  Starts <- MCStarts
  Golden <- MCGolden
  Lts <- MCLts
  LastMajor <- MCLastMajor
  PageSize = 6
  MaxOptions = 3
  None = None
  MaxChanges = 1
INVARIANTS ChoiceCanRun
CHECK_DEADLOCK FALSE
