SPECIFICATION Spec
CONSTANTS
  Node <- MCNode
  Worlds <- MCWorlds
  Links <- MCLinks
  Operands <- MCOperands
  MaxSteps = 5
  Width = 3
  RouteSets <- MCRouteSets
  FIBPrefixes <- MCFIBPrefixes
  Rules <- MCRules
  MaxPredicates = 3
INVARIANTS
  NormalFormSound
  SimplifySound
  ExpansionAgrees
  PruneSound
  OverlapMeansCommon
  ClassesPartition
  ClassesUniform
  FiltersUniform
