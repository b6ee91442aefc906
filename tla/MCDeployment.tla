---------------------------- MODULE MCDeployment ----------------------------
(* One node with one accelerator, served by two worker processes in turn or  *)
(* at once, and one control client.                                          *)
EXTENDS Deployment

CONSTANTS n1, a, w1, w2, c1, b1, b2, dom, arch, pol

MCDistinctBoots == [w \in {w1, w2} |-> IF w = w1 THEN b1 ELSE b2]
MCOneWorker == [w \in {w1} |-> b1]
MCServesAll(ws) == [w \in ws |-> <<n1>>]
MCServesOne == MCServesAll({w1})
MCServesTwo == MCServesAll({w1, w2})

MCNode == [generation |-> 1, worker_boot |-> NoBoot]
MCSynNodes == [n \in {n1} |-> MCNode]

MCEvidence(boot) ==
  [state |-> "FRESH", accepted |-> TRUE, owner |-> boot, durable |-> FALSE]

MCResource ==
  [generation |-> 1, class |-> "ACCELERATOR", node |-> n1, capacity |-> 1,
   accelerator_memory |-> 0,
   health |-> "HEALTHY", readiness |-> "READY", reachability |-> "REACHABLE",
   claims |-> {}, coherent |-> FALSE, architecture |-> arch, domain |-> dom,
   evidence |-> [MCEvidence(NoBoot) EXCEPT !.durable = TRUE]]
MCSynResources == [r \in {a} |-> MCResource]

\* What the coordinator registers of them.
MCPublishedNodes ==
  [n \in NodeId |-> {[MCNode EXCEPT !.worker_boot = boot] : boot \in WorkerBootId}]
MCPublishedResources ==
  [r \in ResourceId |-> {[MCResource EXCEPT !.evidence = MCEvidence(boot)] :
                           boot \in WorkerBootId}]

MCRequest ==
  [demand |-> [k \in DemandClasses |-> IF k = "ACCELERATOR" THEN 1 ELSE 0],
   mandatory |-> {}, architectures |-> {}, accelerator_memory |-> 0,
   min_bandwidth |-> 0, max_latency |-> 0, ignore_reachability |-> FALSE,
   coherence |-> FALSE, topology |-> "SPREAD", max_shared_risk |-> 0, policy |-> pol, policy_generation |-> 1]

MCClientRequests == {MCRequest}
MCRequests == {WireRequest(MCRequest)}
MCReports == {}
MCNoPaths == EmptyMap
=============================================================================
