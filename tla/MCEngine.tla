------------------------------ MODULE MCEngine ------------------------------
(***************************************************************************)
(* FabricEngine on one node with two accelerators: the first may come back *)
(* repaired or with a new generation, the node with a new generation.      *)
(* Requests ask for one accelerator or for both.                           *)
(***************************************************************************)
EXTENDS FabricEngine

CONSTANTS a, b, n1, b1, p1, t1, arch, rack

MCAccelerator(gen, owner) ==
  [generation |-> gen, class |-> "ACCELERATOR", node |-> n1, capacity |-> 1,
   accelerator_memory |-> 0,
   health |-> "HEALTHY", readiness |-> "READY", reachability |-> "REACHABLE",
   claims |-> {"SUPPORTED"}, coherent |-> FALSE, architecture |-> "none",
   domain |-> rack,
   evidence |-> [state |-> "FRESH", accepted |-> TRUE, owner |-> owner, durable |-> FALSE]]

MCNode(gen, owner) == [generation |-> gen, worker_boot |-> owner]

MCRequest(demanded, amount) ==
  [demand |-> [k \in DemandClasses |-> IF k = demanded THEN amount ELSE 0],
   mandatory |-> {demanded}, architectures |-> {}, accelerator_memory |-> 0, min_bandwidth |-> 0,
   max_latency |-> 0, ignore_reachability |-> FALSE, coherence |-> FALSE,
   topology |-> "NONE", max_shared_risk |-> 0, policy |-> p1, policy_generation |-> 1]

MCOneAccelerator == {MCRequest("ACCELERATOR", 1)}
MCAccelerators == {MCRequest("ACCELERATOR", n) : n \in {1, 2}}

MCDiscovery(owner) ==
  {[nodes |-> [n \in {n1} |-> MCNode(1, owner)], paths |-> EmptyMap,
    resources |-> [r \in {a, b} |-> MCAccelerator(1, owner)]]}
MCOwnedDiscovery == MCDiscovery(b1)
MCLocalDiscovery == MCDiscovery(NoBoot)

MCNodesStable == [n \in {n1} |-> {}]
MCNodesRenewed == [n \in {n1} |-> {MCNode(2, b1)}]

MCFirst(records) == [r \in {a, b} |-> IF r = a THEN records ELSE {}]
MCResourcesStable == MCFirst({})
MCResourcesRepaired == MCFirst({MCAccelerator(1, b1)})
MCResourcesRenewed == MCFirst({MCAccelerator(2, b1)})

ASSUME MCOffers == OffersFollowGenerations
=============================================================================
