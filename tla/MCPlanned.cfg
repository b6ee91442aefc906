SPECIFICATION PlannedSpec
CONSTANTS
  cpu = cpu
  gpu = gpu
  hm = hm
  mem = mem
  gpu2 = gpu2
  k = k
  n1 = n1
  n2 = n2
  n4 = n4
  p1 = p1
  boot = boot
  cuda = cuda
  h1 = h1
  h2 = h2
  h4 = h4
  ResourceId = {cpu, gpu, hm, mem, gpu2, k}
  NodeId = {n1, n2, n4}
  WorkerBootId = {boot}
  Architecture = {cuda}
  DomainName = {h1, h2, h4}
  PolicyId = {p1}
  PublishedNodes <- MCPublishedNodes
  PublishedResources <- MCPublished
  PublishedPaths <- MCPublishedPaths
  Reports = {}
  Requests <- MCRequests
  PolicyGenerations = {2}
  Unstable = {}
  Epochs = {}
  Callers = {}
  MaxCompositions = 1
  MaxReservations = 1
  IdValue <- MCIds
  TopCandidates = 8
  PickCap = 24
  ComboCap = 5
  BuiltNodes = {n1, n2, n4}
  BuiltResources <- MCBuilt
  BuiltPaths <- MCBuiltPaths
  HostName <- MCHosts
  Fickle = {gpu}
  FickleLinks <- MCLinks
  MovedNodes = {n4}
  Bandwidths = {1}
  Latencies = {5}
  Generations = {2}
  MaxChanges = 2
INVARIANTS PlannerExact CheckedRequirements
PROPERTIES PlansAllowed
CHECK_DEADLOCK FALSE
