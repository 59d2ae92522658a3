SPECIFICATION Spec
CONSTANTS
  Node <- MCNode
  Worlds <- MCWorlds
  Prefix <- MCPrefix
  Within <- MCWithin
  Nets <- BackupNets
INVARIANT AggregateExistsWithContributors
