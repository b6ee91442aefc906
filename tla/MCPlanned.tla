----------------------------- MODULE MCPlanned -----------------------------
(***************************************************************************)
(* PlannedFabric on the nodes, resources and paths the synthetic backend's *)
(* constructor makes, less the storage and the network endpoint of its     *)
(* third node: an accelerator on n1 and its replacement on n4, host memory *)
(* on n1, expanded memory on n2. A second host memory k is published on    *)
(* n2, twice, the second time with a new generation and half the capacity. *)
(* Bandwidth is in units of 50000 Mb/s, accelerator memory in GiB.         *)
(***************************************************************************)
EXTENDS PlannedFabric

CONSTANTS cpu, gpu, hm, mem, gpu2, k, n1, n2, n4, p1, boot, cuda, h1, h2, h4

Built(class, node, capacity) ==
  [class |-> class, node |-> node, capacity |-> capacity, coherent |-> class = "COMPUTE",
   accelerator_memory |-> IF class = "ACCELERATOR" THEN 24 ELSE 0,
   architecture |-> IF class = "ACCELERATOR" THEN cuda ELSE "none"]

MCHosts == [n \in NodeId |-> IF n = n1 THEN h1 ELSE IF n = n2 THEN h2 ELSE h4]
MCBuilt == [r \in {cpu, gpu, hm, mem, gpu2} |->
              CASE r = cpu  -> Built("COMPUTE", n1, 32)
                [] r = gpu  -> Built("ACCELERATOR", n1, 40)
                [] r = hm   -> Built("HOST_MEMORY", n1, 2)
                [] r = mem  -> Built("EXPANDED_MEMORY", n2, 4)
                [] r = gpu2 -> Built("ACCELERATOR", n4, 40)]
MCBuiltPaths == [l \in {<<n1, n2>>, <<n1, n4>>, <<n4, n2>>} |->
                   [bandwidth |-> 2,
                    latency |-> IF l = <<n1, n2>> THEN 3 ELSE IF l = <<n1, n4>> THEN 2 ELSE 4]]
MCIds == [r \in ResourceId |-> CASE r = cpu -> 101 [] r = gpu -> 102 [] r = mem -> 103
                                 [] r = gpu2 -> 106 [] r = hm -> 107 [] r = k -> 108]

MCWant(demand, memory, latency, topology) ==
  [demand |-> [c \in DemandClasses |-> IF c \in DOMAIN demand THEN demand[c] ELSE 0],
   mandatory |-> {}, architectures |-> {cuda}, accelerator_memory |-> memory,
   min_bandwidth |-> 2, max_latency |-> latency, ignore_reachability |-> FALSE,
   coherence |-> FALSE, topology |-> topology, max_shared_risk |-> 0, policy |-> p1, policy_generation |-> 1]

\* More host memory than one resource has, with an accelerator near it; host
\* memory and an accelerator on one node; expanded memory with compute and an
\* accelerator anywhere.
MCRequests ==
  {MCWant([HOST_MEMORY |-> 3, ACCELERATOR |-> 1], 0, 3, "SPREAD"),
   MCWant([HOST_MEMORY |-> 2, ACCELERATOR |-> 1], 24, 0, "COLOCATE"),
   MCWant([COMPUTE |-> 8, ACCELERATOR |-> 1, EXPANDED_MEMORY |-> 4], 0, 4, "NONE")}

\* An accelerator with more memory than any has, and host memory.
MCMuchMemory == {MCWant([HOST_MEMORY |-> 2, ACCELERATOR |-> 1], 48, 3, "NONE")}

MCPublishedNodes == [n \in NodeId |-> {}]
MCPublished ==
  [r \in ResourceId |->
     IF r = k THEN {[MakeBase(Built("HOST_MEMORY", n2, c)) EXCEPT !.generation = 3 - c] : c \in {1, 2}}
     ELSE {}]
MCLink == <<n1, n2>>
MCLinks == {MCLink}
MCPublishedPaths ==
  [l \in {MCLink} |-> {[generation |-> 9, usable |-> FALSE, bandwidth |-> 2, latency |-> 3]}]

\* The replacement of k has a generation of its own, and the built resources are
\* published by the backend alone.
ASSUME MCOffers == OffersAgree(BuiltOffers)
=============================================================================
