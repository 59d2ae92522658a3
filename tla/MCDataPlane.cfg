SPECIFICATION DPSpec
CONSTANTS
  Node <- MCNode
  Worlds <- MCWorlds
  Prefix <- MCPrefix
  Within <- MCWithin
  Nets <- MCNets
  Addr <- MCAddr
  Protocol <- MCProtocol
INVARIANTS
  LongestPrefixMatch
  SymbolicMatchesConcrete
  ReasonsExplain
  FIBFollowsRIB
  RoutesCarryPackets
