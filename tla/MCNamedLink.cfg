SPECIFICATION Spec
CONSTANTS
  Node <- MCNode
  Nets <- NamedLinkNets
INVARIANT
  FailedLinksCarryNothing
