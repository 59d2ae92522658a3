SPECIFICATION Spec
CONSTANTS
  NumLabs = 2
  NumNodes = 2
  MaxPolls = 2
  Options <- MCOptions
INVARIANTS
  PassIsCurrent
  DestroyedUnlessWanted
  OkMeansAllPassed
PROPERTIES
  CheckReturns
