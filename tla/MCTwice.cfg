SPECIFICATION Spec
CONSTANTS
  a = a
  b = b
  n1 = n1
  b1 = b1
  p1 = p1
  t1 = t1
  arch = arch
  rack = rack
  ResourceId = {a, b}
  NodeId = {n1}
  WorkerBootId = {}
  Architecture = {arch}
  DomainName = {rack}
  PolicyId = {p1}
  PublishedNodes <- MCNodesStable
  PublishedResources <- MCResourcesStable
  PublishedPaths <- EmptyMap
  Reports <- MCLocalDiscovery
  Requests <- MCOneAccelerator
  PolicyGenerations = {}
  Unstable = {}
  Epochs = {}
  Callers = {t1}
  MaxCompositions = 3
  MaxReservations = 3
INVARIANTS NoDuplicateAuthority
CHECK_DEADLOCK FALSE
