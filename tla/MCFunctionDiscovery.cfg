CONSTANTS
  Calls = {1, 2, 4, 7}
  Sections <- MCSections
  Images <- MCImages
SPECIFICATION FairSpec
INVARIANTS
  CodeIsCovered
  LocalCallsResolve
  UniqueFunctions
  GivenBoundariesWin
PROPERTIES
  Termination
