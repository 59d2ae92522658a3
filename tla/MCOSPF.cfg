SPECIFICATION Spec
CONSTANTS
  Node <- MCNode
  Worlds <- MCWorlds
  MaxPathsPerDestination = 8
  Nets <- MCNets
INVARIANTS
  NodeFailuresCovered
  InterAreaShortest
  AreaTypesRespected
