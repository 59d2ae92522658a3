SPECIFICATION FairSpec
CONSTANTS
  Node <- MCNode
  Worlds <- MCWorlds
  Prefix <- MCPrefix
  Within <- MCWithin
  Nets <- MCNets
INVARIANTS
  StableInEveryWorld
  NeverGivesUp
  AggregateExclusive
PROPERTIES
  ImplementsConditionedPaths
  SimulateReturns
