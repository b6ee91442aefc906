SPECIFICATION Spec
CONSTANTS
  m = m
  k = k
  g = g
  n1 = n1
  n2 = n2
  p1 = p1
  gpu = gpu
  rack = rack
  ResourceId = {m, k, g}
  NodeId = {n1, n2}
  WorkerBootId = {}
  Architecture = {gpu}
  DomainName = {rack}
  PolicyId = {p1}
  PublishedNodes <- MCMovingNodes
  PublishedResources <- MCResources
  PublishedPaths <- MCPaths
  Reports <- MCDiscovery
  Requests <- MCSpread
  PolicyGenerations = {}
  Unstable = {}
  Epochs = {}
  Callers = {}
  MaxCompositions = 2
  MaxReservations = 2
INVARIANTS BindingCurrent
CHECK_DEADLOCK FALSE
