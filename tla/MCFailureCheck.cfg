SPECIFICATION Spec
CONSTANTS
  Node <- MCNode
  DeviceKind <- MCDeviceKind
  PrefixOrder <- MCPrefixOrder
  FailedNodes <- MCFailedNodes
  PeerAddress <- MCPeerAddress
  Scenarios <- MCScenarios
  Tables <- MCTables
  Options <- MCOptions
  Terminals <- MCTerminals
  MaxPolls = 2
INVARIANTS
  ConvergedPasses
  MatchMeansAgreement
  LossRemoved
  ReasonIsCurrent
