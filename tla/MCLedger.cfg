SPECIFICATION CarefulSpec
CONSTANTS
  a = a
  b = b
  n1 = n1
  b1 = b1
  p1 = p1
  t1 = t1
  arch = arch
  rack = rack
  ResourceId = {a, b}
  NodeId = {n1}
  WorkerBootId = {b1}
  Architecture = {arch}
  DomainName = {rack}
  PolicyId = {p1}
  PublishedNodes <- MCNodesStable
  PublishedResources <- MCResourcesRepaired
  PublishedPaths <- EmptyMap
  Reports <- MCOwnedDiscovery
  Requests <- MCAccelerators
  PolicyGenerations = {}
  Unstable = {a}
  Epochs = {}
  Callers = {t1}
  MaxCompositions = 2
  MaxReservations = 3
INVARIANTS ExclusiveHolds BackedByHolds
PROPERTIES OwnershipRefined
CHECK_DEADLOCK FALSE
