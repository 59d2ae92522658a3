SPECIFICATION Spec
CONSTANTS
  Node <- MCNode
  Worlds <- MCWorlds
  MaxPathsPerDestination = 8
  Nets <- PruningNets
INVARIANTS
  LinkFailuresCovered
