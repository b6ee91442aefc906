SPECIFICATION DeploymentSpec
CONSTANTS
  n1 = n1  a = a  w1 = w1  w2 = w2  c1 = c1  b1 = b1  b2 = b2
  dom = dom  arch = arch  pol = pol
  ResourceId = {a}
  NodeId = {n1}
  WorkerBootId = {b1, b2}
  Architecture = {arch}
  DomainName = {dom}
  PolicyId = {pol}
  PublishedNodes <- MCPublishedNodes
  PublishedResources <- MCPublishedResources
  PublishedPaths <- MCNoPaths
  Reports <- MCReports
  Requests <- MCRequests
  PolicyGenerations = {}
  Unstable = {}
  Epochs = {}
  Callers = {}
  MaxCompositions = 1
  MaxReservations = 1
  Savers = {c1}
  SeededPaths <- MCNoPaths
  StartEpochs = {1}
  DiskMayFail = FALSE
  MaxSaves = 2
  MaxRestarts = 0
  Workers = {w1, w2}
  Clients = {c1}
  Boot <- MCDistinctBoots
  Serves <- MCServesTwo
  SynNodes <- MCSynNodes
  SynResources <- MCSynResources
  Talk = {"COMPOSE_REQ", "RESERVE_REQ", "COMMIT_REQ", "ACTIVATE_REQ"}
  ClientRequests <- MCClientRequests
  CoordinatorBuffer = 1
  PeerBuffer = 2
  MaxStateRecords = 2
INVARIANTS EvidenceBacked
PROPERTIES LossNoticed Republished
CHECK_DEADLOCK FALSE
