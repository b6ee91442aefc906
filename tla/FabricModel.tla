---------------------------- MODULE FabricModel ----------------------------
(***************************************************************************)
(* The data the engine reasons about (include/dfabric/model.hpp,           *)
(* requirement.hpp, composition.hpp, authority.hpp) and the pure functions *)
(* that decide hard feasibility (the anonymous namespaces of               *)
(* src/dfabric/engine.cpp).                                                *)
(*                                                                         *)
(* Data is kept to what the engine's decisions depend on:                  *)
(*   - "capacity" is the resource's capacity in the one dimension its      *)
(*     class is measured in, a natural number;                             *)
(*   - "claims" is the set of states of the capabilities of the kinds that *)
(*     matter for the class (ClassCapabilityKinds), {} when none is        *)
(*     claimed; "coherent" is the COHERENT_MEMORY_ACCESS claim;            *)
(*   - a path's "usable" is verified /\ available /\ current evidence;     *)
(*   - evidence keeps its freshness state, whether its accepted age is     *)
(*     nonzero, its owner and its durability;                              *)
(*   - a request has the fields the engine decides by, and the accelerator *)
(*     memory it wants, which the engine compares with nothing. Left out   *)
(*     are the other fields that none of its decisions depends on:         *)
(*     require_direct_path (copied into the path requirement, which a      *)
(*     backend hands back), require_persistence, require_isolation,        *)
(*     compatibility, the allowed failure-domain types, optional classes,  *)
(*     staging, extra constraints and the consumer;                        *)
(*   - names, labels, explanations and outcomes are left out.              *)
(***************************************************************************)
EXTENDS Naturals, FiniteSets, FiniteSetsExt

CONSTANTS
  ResourceId,     \* identities of resources
  NodeId,         \* identities of nodes
  WorkerBootId,   \* incarnations of worker processes
  Architecture,   \* accelerator architectures
  DomainName,     \* names of failure domains
  PolicyId        \* identities of policies

\* The owner of evidence or of a node that no worker published.
NoBoot == "none"

AmountClasses == {"COMPUTE", "HOST_MEMORY", "EXPANDED_MEMORY", "STORAGE"}
CountClasses  == {"ACCELERATOR", "NETWORK_ENDPOINT"}
DemandClasses == AmountClasses \cup CountClasses

\* "OTHER" stands for the classes no request can demand and no edge mentions.
ResourceClass   == DemandClasses \cup {"NIC", "OTHER"}
CapabilityState == {"SUPPORTED", "UNSUPPORTED", "UNKNOWN", "REVALIDATION_REQUIRED"}
ResourceHealth  == {"HEALTHY", "DEGRADED", "OFFLINE", "UNKNOWN"}
Readiness       == {"READY", "NOT_READY", "UNKNOWN"}
Reachability    == {"REACHABLE", "UNREACHABLE", "UNKNOWN"}
EvidenceState   == {"FRESH", "STALE", "REVALIDATION_REQUIRED", "PROVENANCE_UNKNOWN"}
Topology        == {"NONE", "COLOCATE", "SPREAD", "DISTINCT_FAILURE_DOMAINS",
                    "MAX_SHARED_RISK"}

Evidence == [state    : EvidenceState,
             accepted : BOOLEAN,                       \* max_age_ms # 0
             owner    : WorkerBootId \cup {NoBoot},
             durable  : BOOLEAN]

Resource == [generation   : Nat,
             class        : ResourceClass,
             node         : NodeId,
             capacity     : Nat,
             accelerator_memory : Nat,
             health       : ResourceHealth,
             readiness    : Readiness,
             reachability : Reachability,
             claims       : SUBSET CapabilityState,
             coherent     : BOOLEAN,
             architecture : Architecture \cup {"none"},
             domain       : DomainName,
             evidence     : Evidence]

Node == [generation : Nat, worker_boot : WorkerBootId \cup {NoBoot}]

Link == NodeId \X NodeId

PathEvidence == [generation : Nat, usable : BOOLEAN, bandwidth : Nat, latency : Nat]

CompositionRequest ==
  [demand              : [DemandClasses -> Nat],  \* amounts, and counts of devices
   mandatory           : SUBSET DemandClasses,
   architectures       : SUBSET Architecture,
   accelerator_memory  : Nat,
   min_bandwidth       : Nat,
   max_latency         : Nat,
   ignore_reachability : BOOLEAN,
   coherence           : BOOLEAN,
   topology            : Topology,
   max_shared_risk     : Nat,
   policy              : PolicyId,
   policy_generation   : Nat]

\* Finite maps, as std::map and std::unordered_map are used by the engine.
IsMap(f, K, V) == DOMAIN f \subseteq K /\ f \in [DOMAIN f -> V]
EmptyMap == [x \in {} |-> x]
Put(f, k, v) == [x \in DOMAIN f \cup {k} |-> IF x = k THEN v ELSE f[x]]
Override(f, g) ==
  [x \in DOMAIN f \cup DOMAIN g |-> IF x \in DOMAIN g THEN g[x] ELSE f[x]]

\* The generations a composition of the members S on the nodes N is bound to.
AuthorityTuple(S, N) ==
  [epoch                : Nat,
   policy_generation    : Nat,
   resource_generations : [S -> Nat],
   node_generations     : [N -> Nat],
   worker_boots         : SUBSET WorkerBootId]

-----------------------------------------------------------------------------
(* Eligibility of one resource.                                            *)

IsCurrent(evidence) ==
  /\ evidence.state \notin {"STALE", "REVALIDATION_REQUIRED"}
  /\ evidence.accepted

\* A claimed capability fails closed only when a claim is UNKNOWN and none of
\* the class's claims is SUPPORTED.
CapabilityKnown(res) == "UNKNOWN" \in res.claims => "SUPPORTED" \in res.claims

ArchitectureMatches(res, req) ==
  res.class = "ACCELERATOR" /\ req.architectures # {}
    => res.architecture \in req.architectures

ResourceEligible(res, req) ==
  /\ res.health = "HEALTHY"
  /\ req.ignore_reachability \/ res.reachability = "REACHABLE"
  /\ res.readiness = "READY"
  /\ IsCurrent(res.evidence)
  /\ CapabilityKnown(res)
  /\ ArchitectureMatches(res, req)

-----------------------------------------------------------------------------
(* Demands of a request and the selections that can meet one of them.      *)

MandatoryClasses(req) ==
  {k \in DemandClasses : req.demand[k] > 0 \/ k \in req.mandatory}

\* The amount a reservation holds of a member: its whole capacity for a class
\* measured by amount, one device otherwise.
HoldAmountForResource(res) ==
  IF res.class \in AmountClasses THEN res.capacity ELSE 1

\* The devices a count demand selects; a mandatory class with no count gets one.
Wanted(req, k) == IF req.demand[k] = 0 THEN 1 ELSE req.demand[k]

\* The sum of the amounts of a map.
SumOf(amounts) == FoldFunction(+, 0, amounts)

\* Mutant: an amount demand is taken for a count of resources.
MeetsDemandByCount(req, k, S, res) == Cardinality(S) >= 1

MeetsDemand(req, k, S, res) ==
  IF k \in AmountClasses
  THEN SumOf([r \in S |-> res[r].capacity]) >= req.demand[k]
  ELSE Cardinality(S) >= req.demand[k]

\* EnumerateSelections picks single resources, and pairs when an amount is
\* demanded; for a counted class it picks exactly the wanted number. An amount that
\* only three resources or more would meet has no selection. Its caps (the top 8
\* candidates, 24 picks, 400 combinations) only drop sets (Planner).
Selections(req, k, items, res) ==
  {S \in SUBSET items :
     /\ IF k \in CountClasses
        THEN Cardinality(S) = Wanted(req, k)
        ELSE \/ Cardinality(S) = 1
             \/ Cardinality(S) = 2 /\ req.demand[k] > 0
     /\ MeetsDemand(req, k, S, res)}

-----------------------------------------------------------------------------
(* The graph of a resource set.                                            *)

MemoryClasses  == {"HOST_MEMORY", "EXPANDED_MEMORY"}
NetworkClasses == {"NIC", "NETWORK_ENDPOINT"}

LatencyBound(a, b)   == a.class = "ACCELERATOR" /\ b.class \in MemoryClasses
BandwidthBound(a, b) ==
  \/ a.class = "ACCELERATOR" /\ b.class \in MemoryClasses \cup NetworkClasses
  \/ a.class = "COMPUTE" /\ b.class = "STORAGE"
Edge(a, b) ==
  \/ BandwidthBound(a, b)
  \/ a.class = "COMPUTE" /\ b.class = "ACCELERATOR"

\* BuildGraph: the directed edges between members of the set.
Edges(S, res) == {e \in S \X S : e[1] # e[2] /\ Edge(res[e[1]], res[e[2]])}

\* The node-to-node links the edges of a set need.
LinksOf(S, res) ==
  {<<res[e[1]].node, res[e[2]].node>> :
     e \in {x \in Edges(S, res) : res[x[1]].node # res[x[2]].node}}

\* Two members of one node need no path; others need a usable one, within the
\* request's bounds for the kinds of the edge (0 is no bound).
ValidateEdge(req, a, b, paths) ==
  a.node # b.node =>
    LET link == <<a.node, b.node>>
    IN /\ link \in DOMAIN paths
       /\ paths[link].usable
       /\ BandwidthBound(a, b) => paths[link].bandwidth >= req.min_bandwidth
       /\ LatencyBound(a, b) /\ req.max_latency > 0
            => paths[link].latency <= req.max_latency

ValidateGraph(req, S, res, paths) ==
  \A e \in Edges(S, res) : ValidateEdge(req, res[e[1]], res[e[2]], paths)

ValidateFailureDomains(req, S, res) ==
  LET nodes == {res[r].node : r \in S}
      sharing(d) == {r \in S : res[r].domain = d}
  IN CASE req.topology = "NONE" -> TRUE
       [] req.topology = "DISTINCT_FAILURE_DOMAINS" ->
            Cardinality({<<res[r].node, res[r].domain>> : r \in S}) >= 2
       [] req.topology = "MAX_SHARED_RISK" ->
            req.max_shared_risk > 0 =>
              \A d \in DomainName : Cardinality(sharing(d)) <= req.max_shared_risk
       [] req.topology = "COLOCATE" -> Cardinality(nodes) <= 1
       [] req.topology = "SPREAD" -> Cardinality(nodes) >= 2

-----------------------------------------------------------------------------
(* The sets ComposeDeterministic ranks: one selection for every demanded   *)
(* class, feasible together. It returns one of the highest rank (Planner); *)
(* the engine module allows any of them.                                   *)

Candidates(req, res, paths) ==
  LET eligible(k) ==
        {r \in DOMAIN res : res[r].class = k /\ ResourceEligible(res[r], req)}
      demanded == MandatoryClasses(req)
      members  == {r \in DOMAIN res : res[r].class \in demanded}
  IN {S \in SUBSET members :
        /\ demanded # {}
        /\ \A k \in demanded :
             {r \in S : res[r].class = k} \in Selections(req, k, eligible(k), res)
        /\ ValidateGraph(req, S, res, paths)
        /\ ValidateFailureDomains(req, S, res)
        /\ req.coherence => \A r \in S : res[r].coherent}
=============================================================================
