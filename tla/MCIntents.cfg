SPECIFICATION Spec
CONSTANTS
  VarNames <- MCVarNames
  Snapshots <- MCSnapshots
  Devices <- MCDevices
  PrefixOf <- MCPrefixOf
  Width = 3
  PartOf <- MCPartOf
  Ends <- MCEnds
  Graphs <- MCGraphs
  Sources <- MCSources
  LaterSources <- MCLaterSources
  LetDecls <- MCLetDecls
  ScenarioDecls <- MCScenarioDecls
  MaxDecls = 3
INVARIANTS
  VerdictsAgree
  VerdictsRepeat
PROPERTIES
  AcceptedIsReported
