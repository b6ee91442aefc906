-------------------------- MODULE SyntheticBackend --------------------------
(***************************************************************************)
(* The synthetic multi-node backend                                        *)
(* (backends/synthetic/synthetic_backend.cpp): a world of nodes, resources *)
(* and paths that its setters change behind the engine's back, and that    *)
(* the engine sees only when it discovers or asks for a path. Every method *)
(* holds the backend's mutex, so each is one step.                         *)
(***************************************************************************)
EXTENDS FabricModel

CONSTANTS
  BuiltNodes,       \* the nodes the constructor makes
  BuiltResources,   \* resource |-> [class, node, capacity,
                    \* accelerator_memory, coherent, architecture]
  BuiltPaths,       \* the pair of nodes of a path |-> [bandwidth, latency]
  HostName,         \* node |-> the failure domain its resources are put in
  Fickle,           \* resources whose state the setters change
  FickleLinks,      \* links whose state the setters change
  MovedNodes,       \* nodes that are removed or reincarnated
  Bandwidths, Latencies, Generations,   \* the values the setters are given
  MaxChanges        \* bound on the changes

ASSUME BackendAssumption ==
  /\ BuiltNodes \subseteq NodeId
  /\ IsMap(BuiltResources, ResourceId,
           [class : ResourceClass, node : NodeId, capacity : Nat,
            accelerator_memory : Nat, coherent : BOOLEAN,
            architecture : Architecture \cup {"none"}])
  /\ IsMap(BuiltPaths, Link, [bandwidth : Nat, latency : Nat])
  /\ HostName \in [NodeId -> DomainName]
  /\ Bandwidths \subseteq Nat /\ Latencies \subseteq Nat /\ Generations \subseteq Nat

VARIABLES
  syn_nodes,        \* nodes_
  syn_resources,    \* resources_
  syn_paths,        \* paths_
  changes           \* the number of changes made

syn == <<syn_nodes, syn_resources, syn_paths, changes>>

MakeBase(d) ==
  [generation |-> 1, class |-> d.class, node |-> d.node, capacity |-> d.capacity,
   accelerator_memory |-> d.accelerator_memory,
   health |-> "HEALTHY", readiness |-> "READY", reachability |-> "REACHABLE",
   claims |-> {"SUPPORTED"}, coherent |-> d.coherent,
   architecture |-> d.architecture, domain |-> HostName[d.node],
   evidence |-> [state |-> "FRESH", accepted |-> TRUE, owner |-> NoBoot, durable |-> TRUE]]

\* A path is entered in both directions.
BackendInit ==
  /\ syn_nodes = [n \in BuiltNodes |-> [generation |-> 1, worker_boot |-> NoBoot]]
  /\ syn_resources = [r \in DOMAIN BuiltResources |-> MakeBase(BuiltResources[r])]
  /\ syn_paths = [l \in DOMAIN BuiltPaths \cup {<<p[2], p[1]>> : p \in DOMAIN BuiltPaths} |->
                    LET p == BuiltPaths[IF l \in DOMAIN BuiltPaths THEN l ELSE <<l[2], l[1]>>]
                    IN [available |-> TRUE, bandwidth |-> p.bandwidth,
                        latency |-> p.latency, generation |-> 1]]
  /\ changes = 0

Resolved(path) == [generation |-> path.generation, usable |-> TRUE,
                   bandwidth |-> path.bandwidth, latency |-> path.latency]

\* ResolvePath, for every link: there is no answer for one that is not available.
ResolvePath == [l \in {x \in DOMAIN syn_paths : syn_paths[x].available} |->
                  Resolved(syn_paths[l])]

\* DiscoverNodes and DiscoverResources, with the answers to the engine's questions.
Reported == [nodes |-> syn_nodes, resources |-> syn_resources, paths |-> ResolvePath]

-----------------------------------------------------------------------------
(* The setters.                                                            *)

Changed == changes < MaxChanges /\ changes' = changes + 1

SetResource(r, res) ==
  /\ Changed
  /\ r \in DOMAIN syn_resources
  /\ syn_resources' = [syn_resources EXCEPT ![r] = res]
  /\ UNCHANGED <<syn_nodes, syn_paths>>

FreshIf(good) == IF good THEN "FRESH" ELSE "REVALIDATION_REQUIRED"

SetResourceHealth(r, h) ==
  SetResource(r, [syn_resources[r] EXCEPT !.health = h,
                                          !.evidence.state = FreshIf(h = "HEALTHY")])

SetResourceReachability(r, rc) ==
  SetResource(r, [syn_resources[r] EXCEPT !.reachability = rc,
                                          !.evidence.state = FreshIf(rc = "REACHABLE")])

SetResourceGeneration(r, g) ==
  SetResource(r, [syn_resources[r] EXCEPT !.generation = g, !.evidence.state = "FRESH"])

SetResourceUnavailable(r) ==
  SetResource(r, [syn_resources[r] EXCEPT !.health = "OFFLINE",
                    !.reachability = "UNREACHABLE", !.readiness = "NOT_READY",
                    !.evidence.state = "REVALIDATION_REQUIRED", !.evidence.durable = FALSE])

SetResourceBack(r) ==
  SetResource(r, [syn_resources[r] EXCEPT !.health = "HEALTHY",
                    !.reachability = "REACHABLE", !.readiness = "READY",
                    !.evidence = [@ EXCEPT !.state = "FRESH", !.accepted = TRUE,
                                           !.durable = TRUE]])

\* A setter of a path moves its generation on; one of an unknown path does nothing.
SetPath(l, path) ==
  /\ Changed
  /\ l \in DOMAIN syn_paths
  /\ syn_paths' = [syn_paths EXCEPT ![l] = [path EXCEPT !.generation = @ + 1]]
  /\ UNCHANGED <<syn_nodes, syn_resources>>

SetPathAvailable(l, available) == SetPath(l, [syn_paths[l] EXCEPT !.available = available])
SetPathBandwidth(l, mbps)      == SetPath(l, [syn_paths[l] EXCEPT !.bandwidth = mbps])
SetPathLatency(l, us)          == SetPath(l, [syn_paths[l] EXCEPT !.latency = us])

\* The node's resources stay, out of reach.
RemoveNode(n) ==
  /\ Changed
  /\ syn_nodes' = [x \in DOMAIN syn_nodes \ {n} |-> syn_nodes[x]]
  /\ syn_resources' =
       [r \in DOMAIN syn_resources |->
          IF syn_resources[r].node # n THEN syn_resources[r]
          ELSE [syn_resources[r] EXCEPT !.health = "OFFLINE", !.reachability = "UNREACHABLE",
                                        !.evidence.state = "REVALIDATION_REQUIRED"]]
  /\ UNCHANGED syn_paths

\* The node, if it is there, and its resources, in any case, get the generation
\* and the boot.
ReincarnateNode(n, gen, boot) ==
  /\ Changed
  /\ syn_nodes' =
       [x \in DOMAIN syn_nodes |->
          IF x = n THEN [generation |-> gen, worker_boot |-> boot] ELSE syn_nodes[x]]
  /\ syn_resources' =
       [r \in DOMAIN syn_resources |->
          IF syn_resources[r].node # n THEN syn_resources[r]
          ELSE [syn_resources[r] EXCEPT !.generation = gen, !.health = "HEALTHY",
                  !.reachability = "REACHABLE", !.readiness = "READY",
                  !.evidence = [state |-> "FRESH", accepted |-> TRUE, owner |-> boot,
                                durable |-> FALSE]]]
  /\ UNCHANGED syn_paths

BackendNext ==
  \/ \E r \in Fickle :
       \/ \E h \in ResourceHealth : SetResourceHealth(r, h)
       \/ \E rc \in Reachability : SetResourceReachability(r, rc)
       \/ \E g \in Generations : SetResourceGeneration(r, g)
       \/ SetResourceUnavailable(r)
       \/ SetResourceBack(r)
  \/ \E l \in FickleLinks :
       \/ \E available \in BOOLEAN : SetPathAvailable(l, available)
       \/ \E mbps \in Bandwidths : SetPathBandwidth(l, mbps)
       \/ \E us \in Latencies : SetPathLatency(l, us)
  \/ \E n \in MovedNodes :
       \/ RemoveNode(n)
       \/ \E g \in Generations, boot \in WorkerBootId : ReincarnateNode(n, g, boot)
=============================================================================
