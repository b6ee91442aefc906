----------------------------- MODULE MCTopology -----------------------------
(***************************************************************************)
(* FabricEngine on two nodes: host memory m on n1, host memory k and an    *)
(* accelerator g on n2, and the path from n2 to n1. A new generation of m  *)
(* has half the capacity. The request spreads two units of memory and an   *)
(* accelerator over both nodes and bounds the path.                        *)
(***************************************************************************)
EXTENDS FabricEngine

CONSTANTS m, k, g, n1, n2, p1, gpu, rack

MCRecord(gen, class, node, capacity) ==
  [generation |-> gen, class |-> class, node |-> node, capacity |-> capacity,
   accelerator_memory |-> 0,
   health |-> "HEALTHY", readiness |-> "READY", reachability |-> "REACHABLE",
   claims |-> {"SUPPORTED"}, coherent |-> FALSE,
   architecture |-> IF class = "ACCELERATOR" THEN gpu ELSE "none", domain |-> rack,
   evidence |-> [state |-> "FRESH", accepted |-> TRUE, owner |-> NoBoot, durable |-> TRUE]]

MCLink == <<n2, n1>>
MCPath(gen, latency) ==
  [generation |-> gen, usable |-> TRUE, bandwidth |-> 2, latency |-> latency]

MCRequest(memory, topology) ==
  [demand |-> [c \in DemandClasses |-> IF c = "HOST_MEMORY" THEN memory
                                       ELSE IF c = "ACCELERATOR" THEN 1 ELSE 0],
   mandatory |-> {}, architectures |-> {gpu}, accelerator_memory |-> 0,
   min_bandwidth |-> 2, max_latency |-> 1, ignore_reachability |-> FALSE,
   coherence |-> FALSE, topology |-> topology, max_shared_risk |-> 0, policy |-> p1, policy_generation |-> 1]

MCSpread == {MCRequest(2, "SPREAD")}

MCMovingNodes == [n \in {n1, n2} |-> {[generation |-> 2, worker_boot |-> NoBoot]}]
MCResources == [r \in {m, k, g} |->
                  IF r = m THEN {MCRecord(2, "HOST_MEMORY", n1, 1)} ELSE {}]
MCPaths == [l \in {MCLink} |-> {MCPath(2, 1), MCPath(3, 5)}]
MCDiscovery ==
  {[nodes |-> [n \in {n1, n2} |-> [generation |-> 1, worker_boot |-> NoBoot]],
    resources |-> [r \in {m, k, g} |->
                     IF r = m THEN MCRecord(1, "HOST_MEMORY", n1, 2)
                     ELSE IF r = k THEN MCRecord(1, "HOST_MEMORY", n2, 1)
                     ELSE MCRecord(1, "ACCELERATOR", n2, 1)],
    paths |-> [l \in {MCLink} |-> MCPath(1, 1)]]}
=============================================================================
