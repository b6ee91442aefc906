SPECIFICATION RecoverySpec
CONSTANTS
  a = a
  b = b
  n1 = n1
  b1 = b1
  p1 = p1
  t1 = t1
  s1 = s1
  arch = arch
  rack = rack
  ResourceId = {a}
  NodeId = {n1}
  WorkerBootId = {b1}
  Architecture = {arch}
  DomainName = {rack}
  PolicyId = {p1}
  PublishedNodes <- MCNodesStable
  PublishedResources <- MCOneStable
  PublishedPaths <- EmptyMap
  SeededPaths <- EmptyMap
  Reports <- MCOneReport
  Requests <- MCOneAccelerator
  PolicyGenerations = {}
  Unstable = {}
  Epochs = {}
  StartEpochs = {1}
  Callers = {}
  Savers = {s1}
  DiskMayFail = FALSE
  MaxCompositions = 1
  MaxReservations = 1
  MaxSaves = 1
  MaxRestarts = 1
INVARIANTS SavedIsLoadable
CHECK_DEADLOCK FALSE
