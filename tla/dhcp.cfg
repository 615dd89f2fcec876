CONSTANTS
  p1 = p1
  p2 = p2
  g1 = g1
  g2 = g2
  Pools <- MCPools
  Segments <- MCSegments
  Offers <- MCOffers
  NoPool = NoPool
  Hosts = {1, 2}
  Networks <- OverlappingNetworks
  Gateway <- OverlappingGateway
  StaticChoices = {2}
  ExcludeChoices <- OverlappingExclude
  MaxTime = 1
SPECIFICATION Spec
INVARIANTS
  NoDuplicateAddress
  BindingsBacked
PROPERTIES
  LeasesSticky
  NoHostStarves
