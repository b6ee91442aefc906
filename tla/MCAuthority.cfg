SPECIFICATION Spec
CONSTANTS
  a = a
  b = b
  n1 = n1
  b1 = b1
  p1 = p1
  t1 = t1
  arch = arch
  rack = rack
  ResourceId = {a, b}
  NodeId = {n1}
  WorkerBootId = {b1}
  Architecture = {arch}
  DomainName = {rack}
  PolicyId = {p1}
  PublishedNodes <- MCNodesRenewed
  PublishedResources <- MCResourcesRenewed
  PublishedPaths <- EmptyMap
  Reports <- MCOwnedDiscovery
  Requests <- MCAccelerators
  PolicyGenerations = {}
  Unstable = {}
  Epochs = {2}
  Callers = {t1}
  MaxCompositions = 2
  MaxReservations = 2
INVARIANTS TypeOK AuthorityCurrent FencedNeverActive NoLeakedHold
CHECK_DEADLOCK FALSE
