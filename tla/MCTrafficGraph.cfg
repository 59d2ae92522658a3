SPECIFICATION Spec
CONSTANTS
  Node <- MCNode
  Nets <- MCNets
INVARIANTS
  CachePristine
  FindsMinimum
  TrafficConserved
