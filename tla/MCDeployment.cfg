SPECIFICATION DeploymentSpec
CONSTANTS
  n1 = n1  a = a  w1 = w1  w2 = w2  c1 = c1  b1 = b1  b2 = b2
  dom = dom  arch = arch  pol = pol
  ResourceId = {a}
  NodeId = {n1}
  WorkerBootId = {b1, b2}
  Architecture = {arch}
  DomainName = {dom}
  PolicyId = {pol}
  PublishedNodes <- MCPublishedNodes
  PublishedResources <- MCPublishedResources
  PublishedPaths <- MCNoPaths
  Reports <- MCReports
  Requests <- MCRequests
  PolicyGenerations = {}
  Unstable = {}
  Epochs = {}
  Callers = {}
  MaxCompositions = 1
  MaxReservations = 1
  Savers = {c1}
  SeededPaths <- MCNoPaths
  StartEpochs = {1}
  DiskMayFail = FALSE
  MaxSaves = 5
  MaxRestarts = 1
  Workers = {w1}
  Clients = {c1}
  Boot <- MCOneWorker
  Serves <- MCServesOne
  SynNodes <- MCSynNodes
  SynResources <- MCSynResources
  Talk = {"COMPOSE_REQ", "RESERVE_REQ", "COMMIT_REQ", "ACTIVATE_REQ", "RELEASE_REQ",
          "QUERY_STATE", "SAVE_REQ", "HEARTBEAT", "BYE"}
  ClientRequests <- MCClientRequests
  CoordinatorBuffer = 1
  PeerBuffer = 2
  MaxStateRecords = 2
INVARIANTS DeploymentTypeOK EvidenceBacked CommittedIsDurable
PROPERTIES RecoveryImplemented Answered
CHECK_DEADLOCK FALSE
