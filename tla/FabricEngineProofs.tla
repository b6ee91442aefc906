------------------------- MODULE FabricEngineProofs -------------------------
(***************************************************************************)
(* Proofs about FabricEngine for every registry, request, bound and number *)
(* of callers: type correctness and the safety invariants of the authority *)
(* binding, the fence and the ledger.                                      *)
(***************************************************************************)
EXTENDS FabricEngine, TLAPS

\* A Recompute call in progress knows the composition it replaces and its plan.
CallsKnown ==
  \A t \in Callers :
    calls[t].step # "idle" =>
      calls[t].old \in DOMAIN compositions /\ calls[t].plan \in DOMAIN plans

TypeInv == TypeOK /\ CallsKnown

-----------------------------------------------------------------------------
\* Changing the lifecycle of a composition changes nothing else of it.
LEMMA LifecycleUpdate ==
  ASSUME NEW comp, Composition(comp), NEW l \in Lifecycle
  PROVE  LET new == [comp EXCEPT !.lifecycle = l]
         IN /\ Composition(new)
            /\ new.lifecycle = l
            /\ new.members = comp.members
            /\ new.request = comp.request
            /\ new.authority = comp.authority
            /\ new.paths = comp.paths
            /\ new.reservation = comp.reservation
BY DEF Composition

\* Lapsing gives a lifecycle, and never ACTIVE.
LEMMA LapseType ==
  ASSUME NEW l \in Lifecycle, NEW early
  PROVE  Lapse(l, early) \in Lifecycle /\ Lapse(l, early) # "ACTIVE"
BY DEF Lapse, Lifecycle

\* Putting an entry into a map, and overriding one map with another.
LEMMA PutMap ==
  ASSUME NEW f, NEW k, NEW v
  PROVE  /\ DOMAIN Put(f, k, v) = DOMAIN f \cup {k}
         /\ Put(f, k, v)[k] = v
         /\ \A x \in DOMAIN f : x # k => Put(f, k, v)[x] = f[x]
BY DEF Put

\* Overriding one map by another of the same type gives a map of that type.
LEMMA OverrideMap ==
  ASSUME NEW K, NEW V, NEW f, NEW h, IsMap(f, K, V), IsMap(h, K, V)
  PROVE  /\ IsMap(Override(f, h), K, V)
         /\ DOMAIN Override(f, h) = DOMAIN f \cup DOMAIN h
BY DEF IsMap, Override

\* Storing a value of the right type keeps a map's type.
LEMMA PutIsMap ==
  ASSUME NEW K, NEW V, NEW f, NEW k \in K, NEW v \in V, IsMap(f, K, V)
  PROVE  IsMap(Put(f, k, v), K, V)
BY DEF IsMap, Put

-----------------------------------------------------------------------------
\* C differs from the compositions only in lifecycles.
Relabels(C) ==
  /\ DOMAIN C = DOMAIN compositions
  /\ \A c \in DOMAIN compositions :
       /\ Composition(C[c])
       /\ C[c].members = compositions[c].members
       /\ C[c].request = compositions[c].request
       /\ C[c].authority = compositions[c].authority
       /\ C[c].paths = compositions[c].paths
       /\ C[c].reservation = compositions[c].reservation

\* Lapsing is a relabelling that makes nothing ACTIVE and leaves nothing that is
\* hit ACTIVE.
LEMMA LapsedRelabels ==
  ASSUME TypeOK, NEW hit, NEW early
  PROVE  /\ Relabels(Lapsed(hit, early))
         /\ \A c \in DOMAIN compositions :
              Lapsed(hit, early)[c].lifecycle = "ACTIVE" =>
                c \notin hit /\ compositions[c].lifecycle = "ACTIVE"
<1> DEFINE L == Lapsed(hit, early)
<1>1. DOMAIN L = DOMAIN compositions
  BY DEF Lapsed
<1>2. ASSUME NEW c \in DOMAIN compositions
      PROVE  /\ Composition(L[c])
             /\ L[c].members = compositions[c].members
             /\ L[c].request = compositions[c].request
             /\ L[c].authority = compositions[c].authority
             /\ L[c].paths = compositions[c].paths
             /\ L[c].reservation = compositions[c].reservation
             /\ L[c].lifecycle = "ACTIVE" => c \notin hit /\ compositions[c].lifecycle = "ACTIVE"
  <2>1. Composition(compositions[c])
    BY DEF TypeOK
  <2>2. CASE c \notin hit
    <3>1. L[c] = compositions[c]
      BY <2>2 DEF Lapsed
    <3>. QED BY <2>1, <2>2, <3>1
  <2>3. CASE c \in hit
    <3> DEFINE l == Lapse(compositions[c].lifecycle, early)
    <3>1. L[c] = [compositions[c] EXCEPT !.lifecycle = l]
      BY <2>3 DEF Lapsed
    <3>2. compositions[c].lifecycle \in Lifecycle
      BY <2>1 DEF Composition
    <3>3. l \in Lifecycle /\ l # "ACTIVE"
      BY <3>2, LapseType
    <3> HIDE DEF l, L
    <3>. QED BY <2>1, <3>1, <3>3, LifecycleUpdate
  <2>. QED BY <2>2, <2>3
<1>. QED BY <1>1, <1>2 DEF Relabels

\* Setting one composition's lifecycle relabels it and touches no other.
LEMMA WithLifecycleRelabels ==
  ASSUME TypeOK, NEW c, NEW l \in Lifecycle
  PROVE  /\ Relabels(WithLifecycle(c, l))
         /\ c \in DOMAIN compositions => WithLifecycle(c, l)[c].lifecycle = l
         /\ \A d \in DOMAIN compositions : d # c => WithLifecycle(c, l)[d] = compositions[d]
<1> DEFINE W == WithLifecycle(c, l)
<1>1. /\ DOMAIN W = DOMAIN compositions
      /\ \A d \in DOMAIN compositions : d # c => W[d] = compositions[d]
      /\ c \in DOMAIN compositions => W[c] = [compositions[c] EXCEPT !.lifecycle = l]
  BY DEF WithLifecycle
<1>2. \A d \in DOMAIN compositions : Composition(compositions[d])
  BY DEF TypeOK
<1> HIDE DEF W
<1>3. ASSUME c \in DOMAIN compositions
      PROVE  /\ Composition(W[c])
             /\ W[c].lifecycle = l
             /\ W[c].members = compositions[c].members
             /\ W[c].request = compositions[c].request
             /\ W[c].authority = compositions[c].authority
             /\ W[c].paths = compositions[c].paths
             /\ W[c].reservation = compositions[c].reservation
  <2>1. Composition(compositions[c])
    BY <1>2, <1>3
  <2>2. W[c] = [compositions[c] EXCEPT !.lifecycle = l]
    BY <1>1, <1>3
  <2>. QED BY <2>1, <2>2, LifecycleUpdate
<1>4. Relabels(W)
  BY <1>1, <1>2, <1>3 DEF Relabels
<1>. QED BY <1>1, <1>3, <1>4 DEF W

\* A relabelling keeps the conjuncts of the type invariant about compositions.
LEMMA RelabelsType ==
  ASSUME TypeInv, Relabels(compositions')
  PROVE  /\ DOMAIN compositions' \subseteq CompositionId
         /\ \A c \in DOMAIN compositions' : Composition(compositions'[c])
         /\ DOMAIN compositions' = DOMAIN compositions
BY DEF TypeInv, TypeOK, Relabels

-----------------------------------------------------------------------------
(* Registry actions preserve the type invariant.                           *)

RegistryTyped ==
  /\ epoch \in Nat \ {0}
  /\ IsMap(nodes, NodeId, Node)
  /\ IsMap(resources, ResourceId, Resource)
  /\ IsMap(paths, Link, PathEvidence)
  /\ IsMap(policies, PolicyId, Nat)

\* A step of the registry that relabels compositions and leaves the rest alone.
LEMMA RegistryFrame ==
  ASSUME TypeInv, RegistryTyped', Relabels(compositions'),
         UNCHANGED <<ledger, draining, fenced, planning, calls>>
  PROVE  TypeInv'
<1>1. /\ DOMAIN compositions' \subseteq CompositionId
      /\ \A c \in DOMAIN compositions' : Composition(compositions'[c])
      /\ DOMAIN compositions' = DOMAIN compositions
  BY RelabelsType
<1>2. /\ reservations' = reservations /\ reserved_amount' = reserved_amount
      /\ next_resv' = next_resv /\ draining' = draining /\ fenced' = fenced
      /\ plans' = plans /\ next_comp' = next_comp /\ calls' = calls
  BY DEF ledger, planning
<1>3. TypeOK'
  BY <1>1, <1>2 DEF TypeInv, TypeOK, RegistryTyped, Reservation, CompositionPlan
<1>4. CallsKnown'
  BY <1>1, <1>2 DEF TypeInv, CallsKnown
<1>. QED BY <1>3, <1>4 DEF TypeInv

\* Leaving the compositions alone is a relabelling.
LEMMA SameRelabels ==
  ASSUME TypeOK, compositions' = compositions
  PROVE  Relabels(compositions')
BY DEF TypeOK, Relabels

\* Ingesting well-typed records keeps the registry typed and only relabels.
LEMMA IngestType ==
  ASSUME TypeOK, NEW N, NEW R, IsMap(N, NodeId, Node), IsMap(R, ResourceId, Resource),
         Ingest(N, R)
  PROVE  /\ Relabels(compositions')
         /\ IsMap(nodes', NodeId, Node)
         /\ IsMap(resources', ResourceId, Resource)
<1>1. PICK hit : compositions' = Lapsed(hit, {"COMMITTED", "RESERVED"})
  BY DEF Ingest
<1>2. Relabels(compositions')
  BY <1>1, LapsedRelabels
<1>3. IsMap(nodes', NodeId, Node)
  BY OverrideMap DEF Ingest, TypeOK
<1>4. IsMap(resources', ResourceId, Resource)
  BY OverrideMap DEF Ingest, TypeOK
<1>. QED BY <1>2, <1>3, <1>4

\* The type invariant covers the registry.
LEMMA RegistryTypedNow ==
  ASSUME TypeOK PROVE RegistryTyped
BY DEF TypeOK, RegistryTyped

\* The empty map has every map type.
LEMMA EmptyIsMap ==
  ASSUME NEW K, NEW V PROVE IsMap(EmptyMap, K, V)
BY DEF IsMap, EmptyMap

\* Losing evidence, failing and being withdrawn keep the type and generation.
LEMMA ResourceUpdate ==
  ASSUME NEW res \in Resource
  PROVE  /\ Expired(res) \in Resource
         /\ Expired(res).generation = res.generation
         /\ [Expired(res) EXCEPT !.health = "UNKNOWN"] \in Resource
         /\ [Expired(res) EXCEPT !.health = "UNKNOWN"].generation = res.generation
         /\ Failed(res) \in Resource
         /\ Failed(res).generation = res.generation
         /\ Withdrawn(res) \in Resource
         /\ Withdrawn(res).generation = res.generation
<1>1. Expired(res) \in Resource /\ Expired(res).generation = res.generation
  <2>1. [res.evidence EXCEPT !.state = "REVALIDATION_REQUIRED", !.accepted = FALSE]
          \in Evidence
    BY DEF Resource, Evidence, EvidenceState
  <2>. QED BY <2>1 DEF Resource, Evidence, EvidenceState, Expired
<1>2. "UNKNOWN" \in ResourceHealth /\ "UNREACHABLE" \in Reachability
  BY DEF ResourceHealth, Reachability
<1>3. Failed(res) \in Resource /\ Failed(res).generation = res.generation
  <2>1. [res.evidence EXCEPT !.state = "REVALIDATION_REQUIRED"] \in Evidence
    BY DEF Resource, Evidence, EvidenceState
  <2>2. "OFFLINE" \in ResourceHealth /\ "NOT_READY" \in Readiness
    BY DEF ResourceHealth, Readiness
  <2>. QED BY <2>1, <2>2 DEF Resource, Failed
<1>4. Withdrawn(res) \in Resource /\ Withdrawn(res).generation = res.generation
  BY <1>2, <1>3 DEF Resource, Withdrawn
<1>. QED BY <1>1, <1>2, <1>3, <1>4 DEF Resource

\* The resources stay the same but for what a loss may change in a record.
SameGenerations ==
  /\ DOMAIN resources' = DOMAIN resources
  /\ \A r \in DOMAIN resources : resources'[r].generation = resources[r].generation

\* The actions that record a loss: they only touch records and lifecycles.
LossNext ==
  \/ \E r \in Unstable : InvalidateNode(r) \/ WithdrawResource(r) \/ OnResourceFailure(r)
  \/ \E boot \in WorkerBootId : MarkEvidenceRevalidationRequired(boot)
  \/ \E e \in Epochs : AdvanceEpoch(e)

\* The actions that lose evidence keep resources typed and generations as they are.
LEMMA LossType ==
  ASSUME TypeOK, LossNext
  PROVE  IsMap(resources', ResourceId, Resource) /\ SameGenerations
<1>0. DOMAIN resources \subseteq ResourceId /\ \A r \in DOMAIN resources : resources[r] \in Resource
  BY DEF TypeOK, IsMap
<1>2. ASSUME NEW r \in Unstable, InvalidateNode(r)
      PROVE  IsMap(resources', ResourceId, Resource) /\ SameGenerations
  BY <1>0, <1>2, ResourceUpdate DEF InvalidateNode, IsMap, SameGenerations
<1>3. ASSUME NEW r \in Unstable, WithdrawResource(r)
      PROVE  IsMap(resources', ResourceId, Resource) /\ SameGenerations
  BY <1>0, <1>3, ResourceUpdate DEF WithdrawResource, IsMap, SameGenerations
<1>4. ASSUME NEW r \in Unstable, OnResourceFailure(r)
      PROVE  IsMap(resources', ResourceId, Resource) /\ SameGenerations
  BY <1>0, <1>4, ResourceUpdate DEF OnResourceFailure, IsMap, SameGenerations
<1>5. ASSUME NEW boot \in WorkerBootId, MarkEvidenceRevalidationRequired(boot)
      PROVE  IsMap(resources', ResourceId, Resource) /\ SameGenerations
  BY <1>0, <1>5, ResourceUpdate DEF MarkEvidenceRevalidationRequired, IsMap, SameGenerations
<1>6. ASSUME NEW e \in Epochs, AdvanceEpoch(e)
      PROVE  IsMap(resources', ResourceId, Resource) /\ SameGenerations
  BY <1>0, <1>6, ResourceUpdate DEF AdvanceEpoch, IsMap, SameGenerations
<1>. QED BY <1>2, <1>3, <1>4, <1>5, <1>6 DEF LossNext

\* Every registry action relabels compositions and makes none of them ACTIVE.
Demotes ==
  \A c \in DOMAIN compositions :
    compositions'[c].lifecycle = "ACTIVE" => compositions[c].lifecycle = "ACTIVE"

\* Moving the epoch leaves nothing ACTIVE and makes nothing COMMITTED.
LEMMA EpochRelabels ==
  ASSUME TypeOK, NEW e, AdvanceEpoch(e)
  PROVE  /\ Relabels(compositions')
         /\ \A c \in DOMAIN compositions :
              /\ compositions'[c].lifecycle # "ACTIVE"
              /\ compositions'[c].lifecycle = "COMMITTED" =>
                   compositions[c].lifecycle = "COMMITTED"
<1>1. DOMAIN compositions' = DOMAIN compositions
  BY DEF AdvanceEpoch
<1>2. ASSUME NEW c \in DOMAIN compositions
      PROVE  /\ Composition(compositions'[c])
             /\ compositions'[c].members = compositions[c].members
             /\ compositions'[c].request = compositions[c].request
             /\ compositions'[c].authority = compositions[c].authority
             /\ compositions'[c].paths = compositions[c].paths
             /\ compositions'[c].reservation = compositions[c].reservation
             /\ compositions'[c].lifecycle # "ACTIVE"
             /\ compositions'[c].lifecycle = "COMMITTED" =>
                  compositions[c].lifecycle = "COMMITTED"
  <2>1. Composition(compositions[c])
    BY DEF TypeOK
  <2>2. CASE compositions[c].lifecycle = "ACTIVE"
    <3>1. compositions'[c] = [compositions[c] EXCEPT !.lifecycle = "REVALIDATION_REQUIRED"]
      BY <2>2 DEF AdvanceEpoch
    <3>2. "REVALIDATION_REQUIRED" \in Lifecycle
      BY DEF Lifecycle
    <3>. QED BY <2>1, <3>1, <3>2, LifecycleUpdate
  <2>3. CASE compositions[c].lifecycle # "ACTIVE"
    <3>1. compositions'[c] = compositions[c]
      BY <2>3 DEF AdvanceEpoch
    <3>. QED BY <2>1, <2>3, <3>1
  <2>. QED BY <2>2, <2>3
<1>. QED BY <1>1, <1>2 DEF Relabels

\* No registry action makes a composition ACTIVE or changes what it is bound to.
LEMMA RegistryRelabels ==
  ASSUME TypeOK, RegistryNext
  PROVE  Relabels(compositions') /\ Demotes
<1>1. ASSUME NEW hit, NEW early, compositions' = Lapsed(hit, early)
      PROVE  Relabels(compositions') /\ Demotes
  BY <1>1, LapsedRelabels DEF Demotes
<1>2. ASSUME compositions' = compositions
      PROVE  Relabels(compositions') /\ Demotes
  BY <1>2, SameRelabels DEF Demotes
<1>3. ASSUME NEW N, NEW R, Ingest(N, R)
      PROVE  Relabels(compositions') /\ Demotes
  BY <1>1, <1>3 DEF Ingest
<1>4. ASSUME NEW e \in Epochs, AdvanceEpoch(e)
      PROVE  Relabels(compositions') /\ Demotes
  BY <1>4, EpochRelabels DEF Demotes
<1>5. ASSUME NEW n \in NodeId, NEW node \in PublishedNodes[n], RegisterNode(n, node)
      PROVE  Relabels(compositions') /\ Demotes
  BY <1>3, <1>5 DEF RegisterNode
<1>6. ASSUME NEW r \in ResourceId, NEW res \in PublishedResources[r], RegisterResource(r, res)
      PROVE  Relabels(compositions') /\ Demotes
  BY <1>3, <1>6 DEF RegisterResource
<1>7. ASSUME NEW rep \in Reports, Discover(rep)
      PROVE  Relabels(compositions') /\ Demotes
  BY <1>3, <1>7 DEF Discover
<1>8. ASSUME NEW r \in Unstable, InvalidateNode(r)
      PROVE  Relabels(compositions') /\ Demotes
  BY <1>2, <1>8 DEF InvalidateNode
<1>9. ASSUME NEW r \in Unstable, WithdrawResource(r) \/ OnResourceFailure(r)
      PROVE  Relabels(compositions') /\ Demotes
  BY <1>1, <1>9 DEF WithdrawResource, OnResourceFailure
<1>10. ASSUME NEW boot \in WorkerBootId, MarkEvidenceRevalidationRequired(boot)
       PROVE  Relabels(compositions') /\ Demotes
  BY <1>1, <1>10 DEF MarkEvidenceRevalidationRequired
<1>11. ASSUME NEW p \in PolicyId, NEW g \in PolicyGenerations, OnPolicyUpdate(p, g)
       PROVE  Relabels(compositions') /\ Demotes
  BY <1>1, <1>11 DEF OnPolicyUpdate
<1>12. ASSUME NEW l \in DOMAIN PublishedPaths, NEW pe \in PublishedPaths[l], OnPathUpdate(l, pe)
       PROVE  Relabels(compositions') /\ Demotes
  BY <1>1, <1>12 DEF OnPathUpdate
<1>. QED BY <1>4, <1>5, <1>6, <1>7, <1>8, <1>9, <1>10, <1>11, <1>12 DEF RegistryNext

\* Moving the epoch to any valid one preserves the type invariant.
LEMMA EpochType ==
  ASSUME TypeInv, NEW e \in Nat \ {0}, AdvanceEpoch(e)
  PROVE  TypeInv'
<1>1. \A r \in DOMAIN resources : r \in ResourceId /\ resources[r] \in Resource
  BY DEF TypeInv, TypeOK, IsMap
<1>2. IsMap(resources', ResourceId, Resource)
  BY <1>1, ResourceUpdate DEF AdvanceEpoch, IsMap
<1>3. /\ epoch' = e
      /\ UNCHANGED <<nodes, paths, policies, ledger, draining, fenced, planning, calls>>
  BY DEF AdvanceEpoch
<1>4. RegistryTyped'
  BY <1>2, <1>3, RegistryTypedNow DEF TypeInv, RegistryTyped
<1>. QED BY <1>3, <1>4, EpochRelabels, RegistryFrame DEF TypeInv

\* Discovery of well-typed records preserves the type invariant.
LEMMA DiscoverType ==
  ASSUME TypeInv, NEW rep, Discover(rep), IsMap(rep.nodes, NodeId, Node),
         IsMap(rep.resources, ResourceId, Resource), IsMap(rep.paths, Link, PathEvidence)
  PROVE  TypeInv'
<1>1. RegistryTyped /\ TypeOK
  BY RegistryTypedNow DEF TypeInv
<1>2. PICK L \in SUBSET DOMAIN rep.paths :
        paths' = Override(paths, [l \in L |-> rep.paths[l]])
  BY DEF Discover
<1>3. IsMap([l \in L |-> rep.paths[l]], Link, PathEvidence)
  BY DEF IsMap
<1>4. IsMap(paths', Link, PathEvidence)
  BY <1>1, <1>2, <1>3, OverrideMap DEF RegistryTyped
<1>5. RegistryTyped' /\ Relabels(compositions')
  BY <1>1, <1>4, IngestType DEF Discover, RegistryTyped
<1>. QED BY <1>5, RegistryFrame DEF Discover

\* Every registry action (Discover to OnPathUpdate) preserves the type invariant.
LEMMA RegistryType ==
  ASSUME TypeInv, RegistryNext
  PROVE  TypeInv'
<1> USE DEF TypeInv
<1>1. Relabels(compositions')
  BY RegistryRelabels
<1>2. RegistryTyped
  BY RegistryTypedNow
<1>3. ASSUME NEW n \in NodeId, NEW node \in PublishedNodes[n], RegisterNode(n, node)
      PROVE  TypeInv'
  <2> DEFINE N == [x \in {n} |-> node]
  <2>0. node \in Node
    BY InputsAssumption
  <2>1. IsMap(N, NodeId, Node) /\ IsMap(EmptyMap, ResourceId, Resource)
    BY <2>0, EmptyIsMap DEF IsMap
  <2>2. Ingest(N, EmptyMap) /\ UNCHANGED <<epoch, paths, policies>>
    BY <1>3 DEF RegisterNode
  <2> HIDE DEF N
  <2>3. IsMap(nodes', NodeId, Node) /\ IsMap(resources', ResourceId, Resource)
    BY <2>1, <2>2, IngestType
  <2>4. RegistryTyped'
    BY <1>2, <2>2, <2>3 DEF RegistryTyped
  <2>. QED BY <1>1, <1>3, <2>4, RegistryFrame DEF RegisterNode
<1>4. ASSUME NEW r \in ResourceId, NEW res \in PublishedResources[r], RegisterResource(r, res)
      PROVE  TypeInv'
  <2> DEFINE R == [x \in {r} |-> res]
  <2>0. res \in Resource
    BY InputsAssumption
  <2>1. IsMap(EmptyMap, NodeId, Node) /\ IsMap(R, ResourceId, Resource)
    BY <2>0, EmptyIsMap DEF IsMap
  <2>2. Ingest(EmptyMap, R) /\ UNCHANGED <<epoch, paths, policies>>
    BY <1>4 DEF RegisterResource
  <2> HIDE DEF R
  <2>3. IsMap(nodes', NodeId, Node) /\ IsMap(resources', ResourceId, Resource)
    BY <2>1, <2>2, IngestType
  <2>4. RegistryTyped'
    BY <1>2, <2>2, <2>3 DEF RegistryTyped
  <2>. QED BY <1>1, <1>4, <2>4, RegistryFrame DEF RegisterResource
<1>5. ASSUME NEW rep \in Reports, Discover(rep)
      PROVE  TypeInv'
  <2>1. /\ IsMap(rep.nodes, NodeId, Node)
        /\ IsMap(rep.resources, ResourceId, Resource)
        /\ IsMap(rep.paths, Link, PathEvidence)
    BY InputsAssumption
  <2>. QED BY <1>5, <2>1, DiscoverType
<1>6. ASSUME LossNext
      PROVE  TypeInv'
  <2>1. IsMap(resources', ResourceId, Resource)
    BY <1>6, LossType
  <2>2. /\ epoch' \in Nat \ {0}
        /\ UNCHANGED <<nodes, paths, policies, ledger, draining, fenced, planning, calls>>
    BY <1>2, <1>6, InputsAssumption
       DEF LossNext, InvalidateNode, WithdrawResource, OnResourceFailure,
           MarkEvidenceRevalidationRequired, AdvanceEpoch, RegistryTyped
  <2>3. RegistryTyped'
    BY <1>2, <2>1, <2>2 DEF RegistryTyped
  <2>. QED BY <1>1, <2>2, <2>3, RegistryFrame
<1>7. ASSUME NEW p \in PolicyId, NEW g \in PolicyGenerations, OnPolicyUpdate(p, g)
      PROVE  TypeInv'
  <2>1. IsMap(policies', PolicyId, Nat)
    BY <1>2, <1>7, InputsAssumption, PutIsMap DEF OnPolicyUpdate, RegistryTyped
  <2>2. RegistryTyped'
    BY <1>2, <1>7, <2>1 DEF OnPolicyUpdate, RegistryTyped
  <2>. QED BY <1>1, <1>7, <2>2, RegistryFrame DEF OnPolicyUpdate
<1>8. ASSUME NEW l \in DOMAIN PublishedPaths, NEW pe \in PublishedPaths[l], OnPathUpdate(l, pe)
      PROVE  TypeInv'
  <2>1. l \in Link /\ pe \in PathEvidence
    BY InputsAssumption DEF IsMap
  <2>2. IsMap(paths', Link, PathEvidence)
    BY <1>2, <1>8, <2>1, PutIsMap DEF OnPathUpdate, RegistryTyped
  <2>3. RegistryTyped'
    BY <1>2, <1>8, <2>2 DEF OnPathUpdate, RegistryTyped
  <2>. QED BY <1>1, <1>8, <2>3, RegistryFrame DEF OnPathUpdate
<1>. QED BY <1>3, <1>4, <1>5, <1>6, <1>7, <1>8 DEF RegistryNext, LossNext

-----------------------------------------------------------------------------
(* Planning preserves the type invariant.                                  *)

\* A restriction of a map has the map's type.
LEMMA RestrictIsMap ==
  ASSUME NEW K, NEW V, NEW f, IsMap(f, K, V), NEW S \in SUBSET DOMAIN f
  PROVE  IsMap(Restrict(f, S), K, V)
BY DEF IsMap, Restrict

\* A candidate is made of registered resources and its links have evidence.
LEMMA CandidateLinks ==
  ASSUME IsMap(resources, ResourceId, Resource), NEW req, NEW seen,
         NEW S \in Candidates(req, resources, seen)
  PROVE  /\ S \subseteq DOMAIN resources
         /\ LinksOf(S, resources) \subseteq Link
         /\ LinksOf(S, resources) \subseteq DOMAIN seen
<1>1. S \subseteq DOMAIN resources /\ ValidateGraph(req, S, resources, seen)
  BY DEF Candidates
<1>2. ASSUME NEW l \in LinksOf(S, resources)
      PROVE  l \in Link /\ l \in DOMAIN seen
  <2>1. PICK e \in Edges(S, resources) :
          /\ resources[e[1]].node # resources[e[2]].node
          /\ l = <<resources[e[1]].node, resources[e[2]].node>>
    BY <1>2 DEF LinksOf
  <2>2. e[1] \in S /\ e[2] \in S
    BY DEF Edges
  <2>3. resources[e[1]] \in Resource /\ resources[e[2]] \in Resource
    BY <1>1, <2>2 DEF IsMap
  <2>4. resources[e[1]].node \in NodeId /\ resources[e[2]].node \in NodeId
    BY <2>3 DEF Resource
  <2>5. ValidateEdge(req, resources[e[1]], resources[e[2]], seen)
    BY <1>1, <2>1 DEF ValidateGraph
  <2>. QED BY <2>1, <2>4, <2>5 DEF ValidateEdge, Link
<1>. QED BY <1>1, <1>2

\* MakeAuthority binds the current epoch and the members' current generations.
LEMMA AuthorityType ==
  ASSUME TypeOK, NEW req \in CompositionRequest, NEW S \in SUBSET DOMAIN resources
  PROVE  LET auth == MakeAuthority(req, S)
         IN /\ auth \in AuthorityTuple(S, DOMAIN auth.node_generations)
            /\ DOMAIN auth.node_generations \subseteq NodeId
            /\ auth.epoch = epoch
            /\ auth.resource_generations = [r \in S |-> resources[r].generation]
<1> DEFINE hosts == {resources[r].node : r \in S} \cap DOMAIN nodes
           auth == MakeAuthority(req, S)
<1>1. /\ \A r \in S : resources[r].generation \in Nat
      /\ hosts \subseteq NodeId
      /\ \A n \in hosts : nodes[n] \in Node
      /\ epoch \in Nat
      /\ req.policy_generation \in Nat
  BY DEF TypeOK, IsMap, Resource, CompositionRequest
<1>2. /\ [r \in S |-> resources[r].generation] \in [S -> Nat]
      /\ [n \in hosts |-> nodes[n].generation] \in [hosts -> Nat]
      /\ {nodes[n].worker_boot : n \in hosts} \ {NoBoot} \subseteq WorkerBootId
  BY <1>1 DEF Node
<1>3. auth = [epoch                |-> epoch,
              policy_generation    |-> req.policy_generation,
              resource_generations |-> [r \in S |-> resources[r].generation],
              node_generations     |-> [n \in hosts |-> nodes[n].generation],
              worker_boots         |-> {nodes[n].worker_boot : n \in hosts} \ {NoBoot}]
  BY DEF MakeAuthority
<1> HIDE DEF hosts, auth
<1>4. DOMAIN auth.node_generations = hosts
  BY <1>2, <1>3
<1>5. auth \in AuthorityTuple(S, hosts)
  BY <1>1, <1>2, <1>3 DEF AuthorityTuple
<1>. QED BY <1>1, <1>3, <1>4, <1>5 DEF auth

\* A plan for registered resources over known links is well typed.
LEMMA PlanType ==
  ASSUME TypeOK, NEW req \in CompositionRequest, NEW S \in SUBSET DOMAIN resources,
         NEW resolved, IsMap(resolved, Link, PathEvidence), NEW offered \in BOOLEAN,
         LinksOf(S, resources) \subseteq Link,
         LinksOf(S, resources) \subseteq DOMAIN resolved
  PROVE  CompositionPlan(PlanFor(req, S, resolved, offered))
<1> DEFINE links == LinksOf(S, resources)
           auth == MakeAuthority(req, S)
           used == [l \in links |-> resolved[l].generation]
           plan == PlanFor(req, S, resolved, offered)
<1>1. /\ auth \in AuthorityTuple(S, DOMAIN auth.node_generations)
      /\ DOMAIN auth.node_generations \subseteq NodeId
  BY AuthorityType
<1>2. used \in [links -> Nat] /\ DOMAIN used = links /\ links \subseteq Link
  BY DEF IsMap, PathEvidence
<1>3. S \subseteq ResourceId
  BY DEF TypeOK, IsMap
<1>4. plan = [members |-> S, request |-> req, authority |-> auth, paths |-> used,
              offered |-> offered]
  BY DEF PlanFor
<1> HIDE DEF links, auth, used, plan
<1>5. /\ plan.members = S /\ plan.authority = auth /\ plan.paths = used
  BY <1>4
<1>6. plan \in [members   : SUBSET ResourceId,
                request   : CompositionRequest,
                authority : AuthorityTuple(S, DOMAIN auth.node_generations),
                paths     : [links -> Nat],
                offered   : BOOLEAN]
  BY <1>1, <1>2, <1>3, <1>4
<1>7. CompositionPlan(plan)
  BY <1>1, <1>2, <1>5, <1>6 DEF CompositionPlan
<1>. QED BY <1>7 DEF plan

\* What a successful Compose leaves: typed paths, and one more plan under the next
\* id, made of registered resources.
LEMMA ComposeType ==
  ASSUME TypeOK, NEW req \in CompositionRequest, NEW answers,
         IsMap(answers, Link, PathEvidence), NEW offered \in BOOLEAN,
         ComposeBody(req, answers, offered)
  PROVE  /\ IsMap(paths', Link, PathEvidence)
         /\ next_comp \in CompositionId
         /\ next_comp' = next_comp + 1
         /\ DOMAIN plans' = DOMAIN plans \cup {next_comp}
         /\ \A id \in DOMAIN plans : id # next_comp => plans'[id] = plans[id]
         /\ CompositionPlan(plans'[next_comp])
<1>1. PICK early \in SUBSET (DOMAIN answers \cap LinksOf(DOMAIN resources, resources)) :
        LET seen == Override(paths, Restrict(answers, early))
        IN \E S \in Candidates(req, resources, seen) :
             LET asked == DOMAIN answers \cap LinksOf(S, resources)
                 resolved == Override(seen, Restrict(answers, asked))
             IN /\ paths' = resolved
                /\ plans' = Put(plans, next_comp, PlanFor(req, S, resolved, offered))
  BY DEF ComposeBody
<1> DEFINE seen == Override(paths, Restrict(answers, early))
<1>2. PICK S \in Candidates(req, resources, seen) :
        LET asked == DOMAIN answers \cap LinksOf(S, resources)
            resolved == Override(seen, Restrict(answers, asked))
        IN /\ paths' = resolved
           /\ plans' = Put(plans, next_comp, PlanFor(req, S, resolved, offered))
  BY <1>1
<1> DEFINE asked == DOMAIN answers \cap LinksOf(S, resources)
           resolved == Override(seen, Restrict(answers, asked))
           plan == PlanFor(req, S, resolved, offered)
<1>3. IsMap(resources, ResourceId, Resource) /\ IsMap(paths, Link, PathEvidence)
  BY DEF TypeOK
<1>4. IsMap(Restrict(answers, early), Link, PathEvidence)
  BY <1>1, RestrictIsMap
<1>5. IsMap(seen, Link, PathEvidence)
  BY <1>3, <1>4, OverrideMap
<1>6. /\ S \subseteq DOMAIN resources
      /\ LinksOf(S, resources) \subseteq Link
      /\ LinksOf(S, resources) \subseteq DOMAIN seen
  BY <1>3, CandidateLinks
<1>7. IsMap(Restrict(answers, asked), Link, PathEvidence)
  BY RestrictIsMap
<1>8. IsMap(resolved, Link, PathEvidence) /\ DOMAIN seen \subseteq DOMAIN resolved
  <2> HIDE DEF seen, asked
  <2> DEFINE fresh == Restrict(answers, asked)
  <2>1. IsMap(fresh, Link, PathEvidence)
    BY <1>7
  <2>2. resolved = Override(seen, fresh)
    OBVIOUS
  <2> HIDE DEF fresh, resolved
  <2>3. IsMap(Override(seen, fresh), Link, PathEvidence)
    BY <1>5, <2>1, OverrideMap
  <2>4. DOMAIN Override(seen, fresh) = DOMAIN seen \cup DOMAIN fresh
    BY DEF Override
  <2>. QED BY <2>2, <2>3, <2>4
<1>9. CompositionPlan(plan)
  BY <1>6, <1>8, PlanType
<1>10. paths' = resolved /\ plans' = Put(plans, next_comp, plan)
  BY <1>2
<1> HIDE DEF seen, asked, resolved, plan
<1>11. next_comp \in CompositionId /\ next_comp' = next_comp + 1
  BY BoundsAssumption DEF ComposeBody, TypeOK, CompositionId
<1>12. /\ DOMAIN plans' = DOMAIN plans \cup {next_comp}
       /\ plans'[next_comp] = plan
       /\ \A id \in DOMAIN plans : id # next_comp => plans'[id] = plans[id]
  BY <1>10 DEF Put
<1>. QED BY <1>8, <1>9, <1>10, <1>11, <1>12

\* Compose stores one well-typed plan under a new id and keeps the paths typed.
LEMMA PlanningType ==
  ASSUME TypeOK, NEW req \in CompositionRequest, NEW answers,
         IsMap(answers, Link, PathEvidence), NEW offered \in BOOLEAN,
         ComposeBody(req, answers, offered)
  PROVE  /\ IsMap(paths', Link, PathEvidence)
         /\ DOMAIN plans' = DOMAIN plans \cup {next_comp}
         /\ DOMAIN plans' \subseteq CompositionId
         /\ \A id \in DOMAIN plans' : CompositionPlan(plans'[id])
         /\ next_comp \in CompositionId
         /\ next_comp' \in 1..(MaxCompositions + 1)
<1>1. /\ IsMap(paths', Link, PathEvidence)
      /\ next_comp \in CompositionId
      /\ next_comp' = next_comp + 1
      /\ DOMAIN plans' = DOMAIN plans \cup {next_comp}
      /\ \A id \in DOMAIN plans : id # next_comp => plans'[id] = plans[id]
      /\ CompositionPlan(plans'[next_comp])
  BY ComposeType
<1>2. DOMAIN plans \subseteq CompositionId /\ \A id \in DOMAIN plans : CompositionPlan(plans[id])
  BY DEF TypeOK
<1>3. next_comp' \in 1..(MaxCompositions + 1)
  BY <1>1, BoundsAssumption DEF CompositionId
<1>4. \A id \in DOMAIN plans' : CompositionPlan(plans'[id])
  <2>. SUFFICES ASSUME NEW id \in DOMAIN plans' PROVE CompositionPlan(plans'[id])
    OBVIOUS
  <2>1. CASE id = next_comp
    BY <1>1, <2>1
  <2>2. CASE id # next_comp
    <3>1. id \in DOMAIN plans /\ plans'[id] = plans[id]
      BY <1>1, <2>2
    <3>. QED BY <1>2, <3>1
  <2>. QED BY <2>1, <2>2
<1>. QED BY <1>1, <1>2, <1>3, <1>4

\* What the backends of a report answer is well-typed evidence.
LEMMA AnswersTyped ==
  ASSUME NEW answers \in PathAnswers
  PROVE  IsMap(answers, Link, PathEvidence)
<1>1. CASE answers = EmptyMap
  BY <1>1, EmptyIsMap
<1>2. CASE answers # EmptyMap
  <2>1. PICK rep \in Reports : answers = rep.paths
    BY <1>2 DEF PathAnswers
  <2>. QED BY <2>1, InputsAssumption
<1>. QED BY <1>1, <1>2

\* Compose, whatever the backends answer, preserves the type invariant.
LEMMA PlannedType ==
  ASSUME TypeInv, NEW req \in Requests, NEW answers, IsMap(answers, Link, PathEvidence),
         Compose(req, answers)
  PROVE  TypeInv'
<1>0. TypeOK /\ CallsKnown
  BY DEF TypeInv
<1>1. req \in CompositionRequest /\ ComposeBody(req, answers, TRUE)
  BY InputsAssumption DEF Compose
<1>2. /\ IsMap(paths', Link, PathEvidence)
      /\ DOMAIN plans' = DOMAIN plans \cup {next_comp}
      /\ DOMAIN plans' \subseteq CompositionId
      /\ \A id \in DOMAIN plans' : CompositionPlan(plans'[id])
      /\ next_comp' \in 1..(MaxCompositions + 1)
  BY <1>0, <1>1, PlanningType
<1>3. UNCHANGED <<epoch, nodes, resources, policies, compositions, reservations,
                  reserved_amount, next_resv, draining, fenced, calls>>
  BY DEF Compose, ledger
<1>4. TypeOK'
  BY <1>0, <1>2, <1>3 DEF TypeOK
<1>5. CallsKnown'
  BY <1>0, <1>2, <1>3 DEF CallsKnown
<1>. QED BY <1>4, <1>5 DEF TypeInv

-----------------------------------------------------------------------------
(* The ledger and the lifecycle preserve the type invariant.               *)

CompositionsTyped ==
  /\ DOMAIN compositions \subseteq CompositionId
  /\ \A c \in DOMAIN compositions : Composition(compositions[c])

LedgerTyped ==
  /\ DOMAIN reservations \subseteq ReservationId
  /\ \A v \in DOMAIN reservations : Reservation(reservations[v])
  /\ reserved_amount \in [ResourceId -> Nat]
  /\ next_resv \in 1..(MaxReservations + 1)

\* A step of the ledger and the compositions that leaves registry and plans alone.
LEMMA LedgerFrame ==
  ASSUME TypeInv, CompositionsTyped', LedgerTyped',
         DOMAIN compositions \subseteq DOMAIN compositions',
         draining' \subseteq CompositionId, fenced' \subseteq CompositionId,
         calls' \in [Callers -> Call],
         \A t \in Callers : calls'[t].step # "idle" =>
           calls'[t].old \in DOMAIN compositions' /\ calls'[t].plan \in DOMAIN plans,
         UNCHANGED <<registry, planning>>
  PROVE  TypeInv'
<1>1. /\ epoch' = epoch /\ nodes' = nodes /\ resources' = resources /\ paths' = paths
      /\ policies' = policies /\ plans' = plans /\ next_comp' = next_comp
  BY DEF registry, planning
<1>2. TypeOK'
  BY <1>1 DEF TypeInv, TypeOK, CompositionsTyped, LedgerTyped
<1>3. CallsKnown'
  BY <1>1 DEF CallsKnown
<1>. QED BY <1>2, <1>3 DEF TypeInv

\* A relabelling keeps the compositions typed.
LEMMA RelabelsTyped ==
  ASSUME TypeInv, Relabels(compositions')
  PROVE  CompositionsTyped' /\ DOMAIN compositions' = DOMAIN compositions
BY RelabelsType DEF CompositionsTyped

\* The type invariant covers the ledger.
LEMMA LedgerTypedNow ==
  ASSUME TypeOK PROVE LedgerTyped
BY DEF TypeOK, LedgerTyped

\* Giving items back never raises an amount, never goes below zero, and empties
\* what the items cover.
LEMMA FreedType ==
  ASSUME TypeOK, NEW items, items \in [DOMAIN items -> Nat]
  PROVE  /\ Freed(items) \in [ResourceId -> Nat]
         /\ \A r \in ResourceId : Freed(items)[r] <= reserved_amount[r]
         /\ \A r \in ResourceId : r \notin DOMAIN items => Freed(items)[r] = reserved_amount[r]
         /\ \A r \in ResourceId :
              r \in DOMAIN items /\ reserved_amount[r] <= items[r] => Freed(items)[r] = 0
<1>1. \A r \in ResourceId : reserved_amount[r] \in Nat
  BY DEF TypeOK
<1>2. ASSUME NEW r \in ResourceId
      PROVE  /\ Freed(items)[r] \in Nat
             /\ Freed(items)[r] <= reserved_amount[r]
             /\ r \notin DOMAIN items => Freed(items)[r] = reserved_amount[r]
             /\ r \in DOMAIN items /\ reserved_amount[r] <= items[r] => Freed(items)[r] = 0
  <2>1. CASE r \notin DOMAIN items
    BY <1>1, <2>1 DEF Freed
  <2>2. CASE r \in DOMAIN items
    <3>1. items[r] \in Nat
      BY <2>2
    <3>. QED BY <1>1, <2>2, <3>1 DEF Freed
  <2>. QED BY <2>1, <2>2
<1>3. Freed(items) = [r \in ResourceId |-> Freed(items)[r]]
  BY DEF Freed
<1>. QED BY <1>2, <1>3

\* Changing a reservation's state changes nothing else of the reservations.
LEMMA StateUpdate ==
  ASSUME TypeOK, NEW v \in DOMAIN reservations, NEW s \in ReservationState
  PROVE  LET new == [reservations EXCEPT ![v].state = s]
         IN /\ DOMAIN new = DOMAIN reservations
            /\ \A w \in DOMAIN reservations :
                 /\ Reservation(new[w])
                 /\ new[w].items = reservations[w].items
                 /\ new[w].composition = reservations[w].composition
                 /\ w # v => new[w] = reservations[w]
            /\ new[v].state = s
<1> DEFINE new == [reservations EXCEPT ![v].state = s]
<1>1. \A w \in DOMAIN reservations : Reservation(reservations[w])
  BY DEF TypeOK
<1>2. /\ DOMAIN new = DOMAIN reservations
      /\ \A w \in DOMAIN reservations : w # v => new[w] = reservations[w]
      /\ new[v] = [reservations[v] EXCEPT !.state = s]
  OBVIOUS
<1> HIDE DEF new
<1>3. /\ Reservation(new[v]) /\ new[v].state = s
      /\ new[v].items = reservations[v].items
      /\ new[v].composition = reservations[v].composition
  <2>1. Reservation(reservations[v])
    BY <1>1
  <2>. QED BY <1>2, <2>1 DEF Reservation
<1>4. ASSUME NEW w \in DOMAIN reservations
      PROVE  /\ Reservation(new[w])
             /\ new[w].items = reservations[w].items
             /\ new[w].composition = reservations[w].composition
  BY <1>1, <1>2, <1>3
<1>. QED BY <1>2, <1>3, <1>4 DEF new

\* The composition and the reservation that a granted Reserve stores.
LEMMA ReserveGrantedType ==
  ASSUME TypeInv, NEW id \in DOMAIN plans, ReserveGranted(id)
  PROVE  /\ CompositionsTyped' /\ LedgerTyped'
         /\ DOMAIN compositions' = DOMAIN compositions \cup {id}
         /\ \A c \in DOMAIN compositions : c # id => compositions'[c] = compositions[c]
         /\ compositions'[id].lifecycle = "RESERVED"
         /\ compositions'[id].members = plans[id].members
         /\ compositions'[id].reservation = next_resv
         /\ DOMAIN reservations' = DOMAIN reservations \cup {next_resv}
         /\ \A v \in DOMAIN reservations : v # next_resv => reservations'[v] = reservations[v]
         /\ reservations'[next_resv].state = "PROVISIONAL"
         /\ reservations'[next_resv].composition = id
         /\ reservations'[next_resv].items = HoldsFor(plans[id])
         /\ next_resv \in ReservationId /\ next_resv' = next_resv + 1
         /\ HoldsFor(plans[id]) \in [plans[id].members -> Nat]
         /\ \A r \in ResourceId :
              /\ r \in plans[id].members =>
                   reserved_amount[r] = 0 /\ reserved_amount'[r] = HoldsFor(plans[id])[r]
              /\ r \notin plans[id].members => reserved_amount'[r] = reserved_amount[r]
<1> DEFINE plan == plans[id]
           comp == [members     |-> plan.members,
                    request     |-> plan.request,
                    authority   |-> plan.authority,
                    paths       |-> plan.paths,
                    lifecycle   |-> "RESERVED",
                    reservation |-> next_resv]
           resv == [composition |-> id,
                    items       |-> HoldsFor(plan),
                    state       |-> "PROVISIONAL"]
<1>1. CompositionPlan(plan) /\ id \in CompositionId
  BY DEF TypeInv, TypeOK
<1>2. next_resv \in ReservationId /\ next_resv' = next_resv + 1
      /\ next_resv' \in 1..(MaxReservations + 1)
  BY BoundsAssumption DEF ReserveGranted, TypeInv, TypeOK, ReservationId
<1>3. CanReserve(plan) /\ plan.members \subseteq ResourceId
  BY <1>1 DEF ReserveGranted, CompositionPlan
<1>4. \A r \in plan.members : resources[r] \in Resource /\ reserved_amount[r] = 0
  BY <1>3 DEF CanReserve, Registered, TypeInv, TypeOK, IsMap
<1>5. HoldsFor(plan) \in [plan.members -> Nat]
  BY <1>4 DEF HoldsFor, HoldAmountForResource, Resource
<1>6. compositions' = Put(compositions, id, comp) /\ reservations' = Put(reservations, next_resv, resv)
  BY DEF ReserveGranted
<1>7. /\ comp.lifecycle = "RESERVED" /\ comp.members = plan.members
      /\ comp.reservation = next_resv /\ comp.authority = plan.authority
      /\ comp.paths = plan.paths
  OBVIOUS
<1>8. Composition(comp)
  <2>1. "RESERVED" \in Lifecycle
    BY DEF Lifecycle
  <2>. QED BY <1>1, <1>2, <2>1 DEF CompositionPlan, Composition
<1>9. /\ Reservation(resv) /\ resv.state = "PROVISIONAL" /\ resv.composition = id
      /\ resv.items = HoldsFor(plan)
  <2>1. "PROVISIONAL" \in ReservationState
    BY DEF ReservationState
  <2>2. DOMAIN HoldsFor(plan) = plan.members
    BY <1>5
  <2>. QED BY <1>1, <1>3, <1>5, <2>1, <2>2 DEF Reservation
<1>10. ASSUME NEW r \in ResourceId
       PROVE  /\ reserved_amount'[r] \in Nat
              /\ r \in plan.members => reserved_amount'[r] = HoldsFor(plan)[r]
              /\ r \notin plan.members => reserved_amount'[r] = reserved_amount[r]
  <2>1. reserved_amount[r] \in Nat
    BY DEF TypeInv, TypeOK
  <2>2. reserved_amount'[r] = IF r \in plan.members
                              THEN reserved_amount[r] + HoldsFor(plan)[r]
                              ELSE reserved_amount[r]
    BY DEF ReserveGranted
  <2> HIDE DEF plan
  <2>3. CASE r \in plan.members
    <3>1. reserved_amount[r] = 0 /\ HoldsFor(plan)[r] \in Nat
      BY <1>4, <1>5, <2>3
    <3>. QED BY <2>2, <2>3, <3>1
  <2>4. CASE r \notin plan.members
    BY <2>1, <2>2, <2>4
  <2>. QED BY <2>3, <2>4
<1>11. reserved_amount' \in [ResourceId -> Nat]
  <2>1. reserved_amount' = [r \in ResourceId |-> reserved_amount'[r]]
    BY DEF ReserveGranted
  <2>. QED BY <1>10, <2>1
<1> HIDE DEF comp, resv
<1>12. /\ DOMAIN compositions' = DOMAIN compositions \cup {id}
       /\ compositions'[id] = comp
       /\ \A c \in DOMAIN compositions : c # id => compositions'[c] = compositions[c]
  BY <1>6 DEF Put
<1>13. /\ DOMAIN reservations' = DOMAIN reservations \cup {next_resv}
       /\ reservations'[next_resv] = resv
       /\ \A v \in DOMAIN reservations : v # next_resv => reservations'[v] = reservations[v]
  BY <1>6 DEF Put
<1>14. CompositionsTyped'
  BY <1>1, <1>8, <1>12 DEF CompositionsTyped, TypeInv, TypeOK
<1>15. LedgerTyped'
  BY <1>2, <1>9, <1>11, <1>13 DEF LedgerTyped, TypeInv, TypeOK
<1>. QED BY <1>2, <1>4, <1>5, <1>7, <1>9, <1>10, <1>12, <1>13, <1>14, <1>15

\* A refused Reserve uses up an id and changes nothing else.
LEMMA ReserveRefusedType ==
  ASSUME TypeInv, NEW id, ReserveRefused(id)
  PROVE  CompositionsTyped' /\ LedgerTyped' /\ UNCHANGED compositions
BY BoundsAssumption DEF ReserveRefused, TypeInv, TypeOK, CompositionsTyped, LedgerTyped

\* Commit, granted or rolled back, keeps the ledger typed and makes nothing ACTIVE.
LEMMA CommitType ==
  ASSUME TypeInv, NEW v, CommitGranted(v) \/ CommitRolledBack(v), UNCHANGED next_resv
  PROVE  Relabels(compositions') /\ LedgerTyped' /\ Demotes
<1> DEFINE c == reservations[v].composition
<1>1. v \in DOMAIN reservations /\ c \in DOMAIN compositions
      /\ compositions[c].lifecycle = "RESERVED"
  BY DEF CommitGranted, CommitRolledBack, CommitAllowed
<1>2. TypeOK /\ LedgerTyped
  BY LedgerTypedNow DEF TypeInv
<1>3. "COMMITTED" \in Lifecycle /\ "REVALIDATION_REQUIRED" \in Lifecycle
      /\ "COMMITTED" \in ReservationState /\ "ROLLED_BACK" \in ReservationState
  BY DEF Lifecycle, ReservationState
<1>4. CASE CommitGranted(v)
  <2>1. compositions' = WithLifecycle(c, "COMMITTED")
    BY <1>4 DEF CommitGranted, WithLifecycle
  <2>2. Relabels(compositions') /\ Demotes
    BY <1>1, <1>2, <1>3, <2>1, WithLifecycleRelabels DEF Demotes
  <2>3. reservations' = [reservations EXCEPT ![v].state = "COMMITTED"]
        /\ reserved_amount' = reserved_amount
    BY <1>4 DEF CommitGranted
  <2>4. LedgerTyped'
    BY <1>1, <1>2, <1>3, <2>3, StateUpdate DEF LedgerTyped
  <2>. QED BY <2>2, <2>4
<1>5. CASE CommitRolledBack(v)
  <2>1. compositions' = WithLifecycle(c, "REVALIDATION_REQUIRED")
    BY <1>5 DEF CommitRolledBack, WithLifecycle
  <2>2. Relabels(compositions') /\ Demotes
    BY <1>1, <1>2, <1>3, <2>1, WithLifecycleRelabels DEF Demotes
  <2>3. /\ reservations' = [reservations EXCEPT ![v].state = "ROLLED_BACK"]
        /\ reserved_amount' = Freed(reservations[v].items)
    BY <1>5 DEF CommitRolledBack
  <2>4. reserved_amount' \in [ResourceId -> Nat]
    BY <1>1, <1>2, <2>3, FreedType DEF LedgerTyped, Reservation
  <2>5. LedgerTyped'
    BY <1>1, <1>2, <1>3, <2>3, <2>4, StateUpdate DEF LedgerTyped
  <2>. QED BY <2>2, <2>5
<1>. QED BY <1>4, <1>5

\* Giving a composition's holds back keeps the ledger typed.
LEMMA FreeHoldsType ==
  ASSUME TypeInv, NEW c, FreeHolds(c), UNCHANGED next_resv
  PROVE  LedgerTyped'
<1> DEFINE v == compositions[c].reservation
<1>1. TypeOK /\ LedgerTyped
  BY LedgerTypedNow DEF TypeInv
<1>2. CASE v \in DOMAIN reservations
  <2>1. /\ reservations' = [reservations EXCEPT ![v].state = "RELEASED"]
        /\ reserved_amount' = Freed(reservations[v].items)
    BY <1>2 DEF FreeHolds
  <2>2. "RELEASED" \in ReservationState
    BY DEF ReservationState
  <2> HIDE DEF v
  <2>3. reserved_amount' \in [ResourceId -> Nat]
    BY <1>1, <1>2, <2>1, FreedType DEF LedgerTyped, Reservation
  <2>. QED BY <1>1, <1>2, <2>1, <2>2, <2>3, StateUpdate DEF LedgerTyped
<1>3. CASE v \notin DOMAIN reservations
  BY <1>1, <1>3 DEF FreeHolds, LedgerTyped
<1>. QED BY <1>2, <1>3

\* Activate only relabels.
LEMMA ActivateType ==
  ASSUME TypeInv, NEW c, ActivateBody(c)
  PROVE  Relabels(compositions')
<1>1. PICK l \in Lifecycle : compositions' = WithLifecycle(c, l)
  BY DEF ActivateBody, WithLifecycle, Lifecycle
<1>. QED BY <1>1, WithLifecycleRelabels DEF TypeInv

-----------------------------------------------------------------------------
(* Every step preserves the type invariant.                                *)

\* The calls of the engine that are not registry updates, by any caller.
EngineCall ==
  \/ \E req \in Requests, answers \in PathAnswers : Compose(req, answers)
  \/ \E id \in CompositionId : Reserve(id)
  \/ \E v \in ReservationId : Commit(v)
  \/ \E c \in CompositionId : Activate(c) \/ BeginDrain(c) \/ EndDrain(c) \/ Release(c)

\* Every public call from Compose to Release preserves the type invariant.
LEMMA EngineCallType ==
  ASSUME TypeInv, EngineCall
  PROVE  TypeInv'
<1>0. /\ TypeOK /\ CallsKnown /\ LedgerTyped /\ CompositionsTyped
      /\ draining \subseteq CompositionId /\ fenced \subseteq CompositionId
      /\ calls \in [Callers -> Call]
      /\ \A t \in Callers : calls[t].step # "idle" =>
           calls[t].old \in DOMAIN compositions /\ calls[t].plan \in DOMAIN plans
  BY LedgerTypedNow DEF TypeInv, TypeOK, CallsKnown, CompositionsTyped
<1>1. ASSUME NEW req \in Requests, NEW answers \in PathAnswers, Compose(req, answers)
      PROVE  TypeInv'
  BY <1>1, AnswersTyped, PlannedType
<1>2. ASSUME NEW id \in CompositionId, Reserve(id)
      PROVE  TypeInv'
  <2>1. /\ id \in DOMAIN plans /\ (ReserveGranted(id) \/ ReserveRefused(id))
        /\ UNCHANGED <<registry, draining, fenced, planning, calls>>
    BY <1>2 DEF Reserve
  <2>2. CompositionsTyped' /\ LedgerTyped' /\ DOMAIN compositions \subseteq DOMAIN compositions'
    BY <2>1, ReserveGrantedType, ReserveRefusedType
  <2>. QED BY <1>0, <2>1, <2>2, LedgerFrame
<1>3. ASSUME NEW v \in ReservationId, Commit(v)
      PROVE  TypeInv'
  <2>1. /\ CommitGranted(v) \/ CommitRolledBack(v)
        /\ UNCHANGED <<registry, next_resv, draining, fenced, planning, calls>>
    BY <1>3 DEF Commit
  <2>2. CompositionsTyped' /\ DOMAIN compositions' = DOMAIN compositions /\ LedgerTyped'
    BY <2>1, CommitType, RelabelsTyped
  <2>. QED BY <1>0, <2>1, <2>2, LedgerFrame
<1>4. ASSUME NEW c \in CompositionId, Activate(c)
      PROVE  TypeInv'
  <2>1. ActivateBody(c) /\ UNCHANGED <<registry, ledger, draining, fenced, planning, calls>>
    BY <1>4 DEF Activate
  <2>2. CompositionsTyped' /\ DOMAIN compositions' = DOMAIN compositions
    BY <2>1, ActivateType, RelabelsTyped
  <2>3. LedgerTyped'
    BY <1>0, <2>1 DEF LedgerTyped, ledger
  <2>. QED BY <1>0, <2>1, <2>2, <2>3, LedgerFrame
<1>5. ASSUME NEW c \in CompositionId, BeginDrain(c)
      PROVE  TypeInv'
  <2>1. /\ compositions' = WithLifecycle(c, "DRAINING") /\ draining' = draining \cup {c}
        /\ UNCHANGED <<registry, ledger, fenced, planning, calls>>
    BY <1>5 DEF BeginDrain
  <2>2. "DRAINING" \in Lifecycle
    BY DEF Lifecycle
  <2>3. CompositionsTyped' /\ DOMAIN compositions' = DOMAIN compositions
    BY <1>0, <2>1, <2>2, WithLifecycleRelabels, RelabelsTyped
  <2>4. LedgerTyped'
    BY <1>0, <2>1 DEF LedgerTyped, ledger
  <2>. QED BY <1>0, <2>1, <2>3, <2>4, LedgerFrame
<1>6. ASSUME NEW c \in CompositionId, EndDrain(c) \/ Release(c)
      PROVE  TypeInv'
  <2>1. /\ FreeHolds(c) /\ compositions' = WithLifecycle(c, "RELEASED")
        /\ draining' = draining \ {c} /\ fenced' \subseteq fenced \cup {c}
        /\ UNCHANGED <<registry, next_resv, planning, calls>>
    BY <1>6 DEF EndDrain, Release
  <2>2. "RELEASED" \in Lifecycle
    BY DEF Lifecycle
  <2>3. CompositionsTyped' /\ DOMAIN compositions' = DOMAIN compositions
    BY <1>0, <2>1, <2>2, WithLifecycleRelabels, RelabelsTyped
  <2>4. LedgerTyped'
    BY <2>1, FreeHoldsType
  <2>. QED BY <1>0, <2>1, <2>3, <2>4, LedgerFrame
<1>. QED BY <1>1, <1>2, <1>3, <1>4, <1>5, <1>6 DEF EngineCall

RecomputeStep ==
  \E t \in Callers : \/ RecomputeNext(t)
                     \/ \E c \in CompositionId, answers \in PathAnswers :
                          RecomputeCompose(t, c, answers)

\* A call that moves on keeps what it replaces and its plan.
CallsMove ==
  /\ calls' \in [Callers -> Call]
  /\ \A u \in Callers :
       calls'[u].step # "idle" => /\ calls[u].step # "idle"
                                  /\ calls'[u].old = calls[u].old
                                  /\ calls'[u].plan = calls[u].plan

\* A Recompute call may return.
LEMMA ReturnType ==
  ASSUME TypeInv, NEW t \in Callers, Return(t)
  PROVE  CallsMove
BY BoundsAssumption DEF TypeInv, TypeOK, Return, IdleCall, Call, CallsMove

\* A Recompute call may move to its next sub-call.
LEMMA CallStepType ==
  ASSUME TypeInv, NEW t \in Callers, calls[t].step # "idle",
         NEW s \in {"reserve", "commit", "activate"},
         calls' = [calls EXCEPT ![t].step = s]
  PROVE  CallsMove
<1>1. calls \in [Callers -> Call]
  BY DEF TypeInv, TypeOK
<1>2. calls[t] \in Call
  BY <1>1
<1>. QED BY <1>1, <1>2 DEF Call, CallsMove

\* A Recompute call may record its reservation.
LEMMA CallReservedType ==
  ASSUME TypeInv, NEW t \in Callers, calls[t].step # "idle", NEW v \in 0..MaxReservations,
         calls' = [calls EXCEPT ![t].step = "commit", ![t].reservation = v]
  PROVE  CallsMove
<1>1. calls \in [Callers -> Call]
  BY DEF TypeInv, TypeOK
<1>2. calls[t] \in Call
  BY <1>1
<1>3. /\ calls'[t] = [calls[t] EXCEPT !.step = "commit", !.reservation = v]
      /\ calls' \in [Callers -> Call]
      /\ \A u \in Callers : u # t => calls'[u] = calls[u]
  BY <1>1, <1>2 DEF Call
<1>. QED BY <1>2, <1>3 DEF Call, CallsMove

\* Every critical section of Recompute preserves the type invariant.
LEMMA RecomputeType ==
  ASSUME TypeInv, RecomputeStep
  PROVE  TypeInv'
<1>0. /\ TypeOK /\ CallsKnown /\ LedgerTyped /\ CompositionsTyped
      /\ draining \subseteq CompositionId /\ fenced \subseteq CompositionId
      /\ calls \in [Callers -> Call]
      /\ \A t \in Callers : calls[t].step # "idle" =>
           calls[t].old \in DOMAIN compositions /\ calls[t].plan \in DOMAIN plans
  BY LedgerTypedNow DEF TypeInv, TypeOK, CallsKnown, CompositionsTyped
<1>1. ASSUME NEW t \in Callers, NEW c \in CompositionId, NEW answers \in PathAnswers,
             RecomputeCompose(t, c, answers)
      PROVE  TypeInv'
  <2>1. c \in DOMAIN compositions /\ ComposeBody(compositions[c].request, answers, FALSE)
    BY <1>1 DEF RecomputeCompose
  <2>2. compositions[c].request \in CompositionRequest
    BY <1>0, <2>1 DEF CompositionsTyped, Composition
  <2>3. /\ IsMap(paths', Link, PathEvidence)
        /\ DOMAIN plans' = DOMAIN plans \cup {next_comp}
        /\ DOMAIN plans' \subseteq CompositionId
        /\ \A id \in DOMAIN plans' : CompositionPlan(plans'[id])
        /\ next_comp \in CompositionId
        /\ next_comp' \in 1..(MaxCompositions + 1)
    BY <1>0, <1>1, <2>1, <2>2, AnswersTyped, PlanningType
  <2>4. UNCHANGED <<epoch, nodes, resources, policies, compositions, reservations,
                    reserved_amount, next_resv, draining, fenced>>
    BY <1>1 DEF RecomputeCompose, ledger
  <2>5. calls' = [calls EXCEPT ![t] = [step |-> "release", old |-> c,
                                       plan |-> next_comp, reservation |-> 0]]
    BY <1>1 DEF RecomputeCompose
  <2>6. calls' \in [Callers -> Call]
    BY <1>0, <2>3, <2>5, BoundsAssumption DEF Call, CompositionId
  <2>7. TypeOK'
    BY <1>0, <2>3, <2>4, <2>6 DEF TypeOK
  <2>8. CallsKnown'
    BY <1>0, <2>1, <2>3, <2>4, <2>5 DEF CallsKnown
  <2>. QED BY <2>7, <2>8 DEF TypeInv
<1>2. ASSUME NEW t \in Callers, RecomputeRelease(t)
      PROVE  TypeInv'
  <2> DEFINE old == calls[t].old
  <2>1. /\ FreeHolds(old) /\ compositions' = WithLifecycle(old, "RELEASED")
        /\ fenced' = fenced \cup {old} /\ calls' = [calls EXCEPT ![t].step = "reserve"]
        /\ calls[t].step # "idle" /\ UNCHANGED <<registry, next_resv, draining, planning>>
    BY <1>2 DEF RecomputeRelease
  <2>2. old \in CompositionId
    BY <1>0, <2>1 DEF CompositionsTyped
  <2>3. "RELEASED" \in Lifecycle
    BY DEF Lifecycle
  <2>4. CompositionsTyped' /\ DOMAIN compositions' = DOMAIN compositions
    BY <1>0, <2>1, <2>3, WithLifecycleRelabels, RelabelsTyped
  <2>5. LedgerTyped'
    BY <2>1, FreeHoldsType
  <2>6. CallsMove
    BY <2>1, CallStepType
  <2>. QED BY <1>0, <2>1, <2>2, <2>4, <2>5, <2>6, LedgerFrame DEF CallsMove
<1>3. ASSUME NEW t \in Callers, RecomputeReserve(t)
      PROVE  TypeInv'
  <2> DEFINE id == calls[t].plan
  <2>1. calls[t].step # "idle" /\ id \in DOMAIN plans
        /\ UNCHANGED <<registry, draining, fenced, planning>>
    BY <1>0, <1>3 DEF RecomputeReserve
  <2>2. CASE /\ ReserveGranted(id)
             /\ calls' = [calls EXCEPT ![t].step = "commit", ![t].reservation = next_resv]
    <3>1. /\ CompositionsTyped' /\ LedgerTyped' /\ next_resv \in ReservationId
          /\ DOMAIN compositions \subseteq DOMAIN compositions'
      BY <2>1, <2>2, ReserveGrantedType
    <3>2. next_resv \in 0..MaxReservations
      BY <3>1, BoundsAssumption DEF ReservationId
    <3>3. CallsMove
      BY <2>1, <2>2, <3>2, CallReservedType
    <3>. QED BY <1>0, <2>1, <3>1, <3>3, LedgerFrame DEF CallsMove
  <2>3. CASE ReserveRefused(id) /\ Return(t)
    <3>1. CompositionsTyped' /\ LedgerTyped' /\ compositions' = compositions
      BY <2>3, ReserveRefusedType
    <3>. QED BY <1>0, <2>1, <2>3, <3>1, ReturnType, LedgerFrame DEF CallsMove
  <2>. QED BY <1>3, <2>2, <2>3 DEF RecomputeReserve
<1>4. ASSUME NEW t \in Callers, RecomputeCommit(t)
      PROVE  TypeInv'
  <2> DEFINE v == calls[t].reservation
  <2>1. calls[t].step # "idle" /\ UNCHANGED <<registry, next_resv, draining, fenced, planning>>
    BY <1>4 DEF RecomputeCommit
  <2>2. CASE CommitGranted(v) \/ CommitRolledBack(v)
    <3>1. CompositionsTyped' /\ DOMAIN compositions' = DOMAIN compositions /\ LedgerTyped'
      BY <2>1, <2>2, CommitType, RelabelsTyped
    <3>2. calls' = [calls EXCEPT ![t].step = "activate"] \/ Return(t)
      BY <1>4, <2>2 DEF RecomputeCommit
    <3>3. CallsMove
      BY <2>1, <3>2, CallStepType, ReturnType
    <3>. QED BY <1>0, <2>1, <3>1, <3>3, LedgerFrame DEF CallsMove
  <2>3. CASE ~ CommitAllowed(v)
    <3>1. Return(t) /\ UNCHANGED <<compositions, reservations, reserved_amount>>
      BY <1>4, <2>3 DEF RecomputeCommit, CommitGranted, CommitRolledBack
    <3>2. CompositionsTyped' /\ LedgerTyped'
      BY <1>0, <2>1, <3>1 DEF CompositionsTyped, LedgerTyped
    <3>. QED BY <1>0, <2>1, <3>1, <3>2, ReturnType, LedgerFrame DEF CallsMove
  <2>. QED BY <1>4, <2>2, <2>3 DEF RecomputeCommit
<1>5. ASSUME NEW t \in Callers, RecomputeActivate(t)
      PROVE  TypeInv'
  <2>1. Return(t) /\ UNCHANGED <<registry, ledger, draining, fenced, planning>>
    BY <1>5 DEF RecomputeActivate
  <2>2. CompositionsTyped' /\ DOMAIN compositions' = DOMAIN compositions
    <3>1. CASE ActivateBody(calls[t].plan)
      BY <3>1, ActivateType, RelabelsTyped
    <3>2. CASE compositions' = compositions
      BY <1>0, <3>2 DEF CompositionsTyped
    <3>. QED BY <1>5, <3>1, <3>2 DEF RecomputeActivate
  <2>3. LedgerTyped'
    BY <1>0, <2>1 DEF LedgerTyped, ledger
  <2>. QED BY <1>0, <2>1, <2>2, <2>3, ReturnType, LedgerFrame DEF CallsMove
<1>. QED BY <1>1, <1>2, <1>3, <1>4, <1>5 DEF RecomputeStep, RecomputeNext

\* The next-state relation is the registry's, the public calls and Recompute.
LEMMA NextSplit ==
  Next <=> RegistryNext \/ EngineCall \/ RecomputeStep
BY DEF Next, EngineCall, RecomputeStep

\* The engine starts well typed.
LEMMA TypeInit == Init => TypeInv
<1>. SUFFICES ASSUME Init PROVE TypeInv
  OBVIOUS
<1>1. /\ IsMap(nodes, NodeId, Node) /\ IsMap(resources, ResourceId, Resource)
      /\ IsMap(paths, Link, PathEvidence) /\ IsMap(policies, PolicyId, Nat)
  BY EmptyIsMap DEF Init
<1>2. DOMAIN EmptyMap = {}
  BY DEF EmptyMap
<1>3. IdleCall \in Call
  BY BoundsAssumption DEF IdleCall, Call
<1>4. TypeOK
  BY <1>1, <1>2, <1>3, BoundsAssumption DEF Init, TypeOK
<1>5. CallsKnown
  BY DEF Init, CallsKnown, IdleCall
<1>. QED BY <1>4, <1>5 DEF TypeInv

\* Every step preserves the type invariant.
LEMMA TypeStep == TypeInv /\ [Next]_vars => TypeInv'
<1>. SUFFICES ASSUME TypeInv, [Next]_vars PROVE TypeInv'
  OBVIOUS
<1>1. CASE RegistryNext
  BY <1>1, RegistryType
<1>2. CASE EngineCall
  BY <1>2, EngineCallType
<1>3. CASE RecomputeStep
  BY <1>3, RecomputeType
<1>4. CASE UNCHANGED vars
  <2>1. /\ UNCHANGED <<epoch, nodes, resources, paths, policies, compositions, reservations>>
        /\ UNCHANGED <<reserved_amount, next_resv, draining, fenced, plans, next_comp, calls>>
    BY <1>4 DEF vars, registry, ledger, planning
  <2>2. TypeOK'
    BY <2>1 DEF TypeInv, TypeOK
  <2>3. CallsKnown'
    BY <2>1 DEF TypeInv, CallsKnown
  <2>. QED BY <2>2, <2>3 DEF TypeInv
<1>. QED BY <1>1, <1>2, <1>3, <1>4, NextSplit

\* Every reachable state of the engine is well typed, and a Recompute call in
\* progress always finds the composition it replaces.
THEOREM TypeCorrect == Spec => [](TypeOK /\ CallsKnown)
<1>1. TypeInv => TypeOK /\ CallsKnown
  BY DEF TypeInv
<1>. QED BY <1>1, TypeInit, TypeStep, PTL DEF Spec

-----------------------------------------------------------------------------
(* What a step may do to an ACTIVE or a fenced composition.                *)

\* A composition that is ACTIVE after the step was ACTIVE with the same binding
\* before it, or has just been revalidated and is not fenced; a fence is never
\* lifted, and what is newly fenced is not ACTIVE.
SoundActivation ==
  /\ \A c \in DOMAIN compositions' :
       compositions'[c].lifecycle = "ACTIVE" =>
         /\ c \in DOMAIN compositions
         /\ compositions'[c].members = compositions[c].members
         /\ compositions'[c].authority = compositions[c].authority
         /\ \/ compositions[c].lifecycle = "ACTIVE"
            \/ RevalidationHolds(compositions[c]) /\ c \notin fenced
  /\ DOMAIN compositions \subseteq DOMAIN compositions'
  /\ \A c \in fenced' : c \in fenced \/ /\ c \in DOMAIN compositions'
                                        /\ compositions'[c].lifecycle # "ACTIVE"

\* Relabelling without making anything ACTIVE is sound.
LEMMA RelabelSound ==
  ASSUME TypeInv, Relabels(compositions'), Demotes, fenced' = fenced
  PROVE  SoundActivation
BY DEF Relabels, Demotes, SoundActivation

\* Leaving compositions and the fence alone is sound.
LEMMA SameSound ==
  ASSUME compositions' = compositions, fenced' = fenced
  PROVE  SoundActivation
BY DEF SoundActivation

\* Reserve is sound although it overwrites a composition: the new one is RESERVED.
LEMMA ReserveSound ==
  ASSUME TypeInv, NEW id \in DOMAIN plans, ReserveGranted(id) \/ ReserveRefused(id),
         fenced' = fenced
  PROVE  SoundActivation
<1>1. CASE ReserveGranted(id)
  <2>1. /\ DOMAIN compositions' = DOMAIN compositions \cup {id}
        /\ \A c \in DOMAIN compositions : c # id => compositions'[c] = compositions[c]
        /\ compositions'[id].lifecycle = "RESERVED"
    BY <1>1, ReserveGrantedType
  <2>. QED BY <2>1 DEF SoundActivation
<1>2. CASE ReserveRefused(id)
  BY <1>2, SameSound DEF ReserveRefused
<1>. QED BY <1>1, <1>2

\* Activate is sound: it consults the fence and revalidates.
LEMMA ActivateSound ==
  ASSUME TypeInv, NEW c, ActivateBody(c), fenced' = fenced
  PROVE  SoundActivation
<1> DEFINE l == IF RevalidationHolds(compositions[c]) THEN "ACTIVE" ELSE "REVALIDATION_REQUIRED"
<1>1. compositions' = WithLifecycle(c, l) /\ c \in DOMAIN compositions /\ c \notin fenced
  BY DEF ActivateBody, ActivateAllowed, WithLifecycle
<1>2. l \in Lifecycle /\ (l = "ACTIVE" => RevalidationHolds(compositions[c]))
  BY DEF Lifecycle
<1> HIDE DEF l
<1>3. /\ Relabels(compositions') /\ compositions'[c].lifecycle = l
      /\ \A d \in DOMAIN compositions : d # c => compositions'[d] = compositions[d]
  BY <1>1, <1>2, WithLifecycleRelabels DEF TypeInv
<1>. QED BY <1>1, <1>2, <1>3 DEF Relabels, SoundActivation

\* Ending a composition: EndDrain, Release and the release step of Recompute.
LEMMA RetireSound ==
  ASSUME TypeInv, NEW c, c \in DOMAIN compositions, NEW l \in Lifecycle, l # "ACTIVE",
         compositions' = WithLifecycle(c, l), fenced' \subseteq fenced \cup {c}
  PROVE  SoundActivation
<1>1. /\ Relabels(compositions') /\ compositions'[c].lifecycle = l
      /\ \A d \in DOMAIN compositions : d # c => compositions'[d] = compositions[d]
  BY WithLifecycleRelabels DEF TypeInv
<1>. QED BY <1>1 DEF Relabels, SoundActivation

\* Every call is sound and leaves the epoch and the resources alone.
LEMMA CallsSound ==
  ASSUME TypeInv, EngineCall \/ RecomputeStep
  PROVE  SoundActivation /\ UNCHANGED <<epoch, resources>>
<1>1. ASSUME NEW req, NEW answers, Compose(req, answers)
      PROVE  SoundActivation /\ UNCHANGED <<epoch, resources>>
  BY <1>1, SameSound DEF Compose
<1>2. ASSUME NEW id, Reserve(id)
      PROVE  SoundActivation /\ UNCHANGED <<epoch, resources>>
  BY <1>2, ReserveSound DEF Reserve, registry
<1>3. ASSUME NEW v, Commit(v)
      PROVE  SoundActivation /\ UNCHANGED <<epoch, resources>>
  BY <1>3, CommitType, RelabelSound DEF Commit, registry
<1>4. ASSUME NEW c, Activate(c)
      PROVE  SoundActivation /\ UNCHANGED <<epoch, resources>>
  BY <1>4, ActivateSound DEF Activate, registry
<1>5. "DRAINING" \in Lifecycle /\ "RELEASED" \in Lifecycle
  BY DEF Lifecycle
<1>6. ASSUME NEW c, BeginDrain(c)
      PROVE  SoundActivation /\ UNCHANGED <<epoch, resources>>
  BY <1>5, <1>6, RetireSound DEF BeginDrain, registry
<1>7. ASSUME NEW c, EndDrain(c) \/ Release(c)
      PROVE  SoundActivation /\ UNCHANGED <<epoch, resources>>
  BY <1>5, <1>7, RetireSound DEF EndDrain, Release, registry
<1>8. ASSUME NEW t \in Callers, NEW c, NEW answers, RecomputeCompose(t, c, answers)
      PROVE  SoundActivation /\ UNCHANGED <<epoch, resources>>
  BY <1>8, SameSound DEF RecomputeCompose
<1>9. ASSUME NEW t \in Callers, calls[t].step # "idle"
      PROVE  calls[t].old \in DOMAIN compositions /\ calls[t].plan \in DOMAIN plans
  BY <1>9 DEF TypeInv, CallsKnown
<1>10. ASSUME NEW t \in Callers, RecomputeRelease(t)
       PROVE  SoundActivation /\ UNCHANGED <<epoch, resources>>
  BY <1>5, <1>9, <1>10, RetireSound DEF RecomputeRelease, registry
<1>11. ASSUME NEW t \in Callers, RecomputeReserve(t)
       PROVE  SoundActivation /\ UNCHANGED <<epoch, resources>>
  BY <1>9, <1>11, ReserveSound DEF RecomputeReserve, registry
<1>12. ASSUME NEW t \in Callers, RecomputeCommit(t)
       PROVE  SoundActivation /\ UNCHANGED <<epoch, resources>>
  BY <1>12, CommitType, RelabelSound, SameSound DEF RecomputeCommit, registry
<1>13. ASSUME NEW t \in Callers, RecomputeActivate(t)
       PROVE  SoundActivation /\ UNCHANGED <<epoch, resources>>
  BY <1>13, ActivateSound, SameSound DEF RecomputeActivate, registry
<1>14. CASE EngineCall
  BY <1>1, <1>2, <1>3, <1>4, <1>6, <1>7, <1>14 DEF EngineCall
<1>15. CASE RecomputeStep
  BY <1>8, <1>10, <1>11, <1>12, <1>13, <1>15 DEF RecomputeStep, RecomputeNext
<1>. QED BY <1>14, <1>15

\* Every registry action is sound.
LEMMA RegistrySound ==
  ASSUME TypeInv, RegistryNext
  PROVE  SoundActivation
<1>1. fenced' = fenced
  BY DEF RegistryNext, RegisterNode, RegisterResource, Discover, InvalidateNode,
         WithdrawResource, OnResourceFailure, MarkEvidenceRevalidationRequired,
         AdvanceEpoch, OnPolicyUpdate, OnPathUpdate
<1>. QED BY <1>1, RegistryRelabels, RelabelSound DEF TypeInv

-----------------------------------------------------------------------------
(* The fence.                                                              *)

\* No step makes a fenced composition ACTIVE.
LEMMA FenceStep == TypeInv /\ FencedNeverActive /\ [Next]_vars => FencedNeverActive'
<1>. SUFFICES ASSUME TypeInv, FencedNeverActive, [Next]_vars PROVE FencedNeverActive'
  OBVIOUS
<1>1. CASE UNCHANGED vars
  BY <1>1 DEF vars, FencedNeverActive
<1>2. CASE Next
  <2>1. SoundActivation
    BY <1>2, NextSplit, CallsSound, RegistrySound
  <2>. QED BY <2>1 DEF SoundActivation, FencedNeverActive
<1>. QED BY <1>1, <1>2

\* A composition that Release or Recompute has fenced is never ACTIVE again,
\* however its plan is replayed.
THEOREM Fencing == Spec => []FencedNeverActive
<1>1. Init => FencedNeverActive
  BY DEF Init, FencedNeverActive
<1>. QED BY <1>1, TypeInit, TypeStep, FenceStep, PTL DEF Spec

-----------------------------------------------------------------------------
(* The authority binding.                                                  *)

\* A composition that is still ACTIVE after an ingestion has no member of a new
\* generation.
LEMMA IngestCurrent ==
  ASSUME TypeInv, AuthorityCurrent, NEW N, NEW R, Ingest(N, R), epoch' = epoch
  PROVE  AuthorityCurrent'
<1> DEFINE hit == IF Regenerated(nodes, N) # {} THEN DOMAIN compositions
                  ELSE Using(Regenerated(resources, R))
<1>1. compositions' = Lapsed(hit, {"COMMITTED", "RESERVED"})
  BY DEF Ingest
<1>2. Using(Regenerated(resources, R)) \subseteq hit
  BY DEF Using
<1> HIDE DEF hit
<1>3. /\ Relabels(compositions')
      /\ \A c \in DOMAIN compositions :
           compositions'[c].lifecycle = "ACTIVE" =>
             c \notin hit /\ compositions[c].lifecycle = "ACTIVE"
  BY <1>1, LapsedRelabels DEF TypeInv
<1>. SUFFICES ASSUME NEW c \in DOMAIN compositions', compositions'[c].lifecycle = "ACTIVE"
              PROVE  /\ compositions'[c].authority.epoch = epoch'
                     /\ \A r \in compositions'[c].members :
                          /\ r \in DOMAIN resources'
                          /\ compositions'[c].authority.resource_generations[r]
                               = resources'[r].generation
  BY DEF AuthorityCurrent
<1>4. /\ c \in DOMAIN compositions /\ compositions[c].lifecycle = "ACTIVE" /\ c \notin hit
      /\ compositions'[c].members = compositions[c].members
      /\ compositions'[c].authority = compositions[c].authority
  BY <1>3 DEF Relabels
<1>5. c \notin Using(Regenerated(resources, R))
  BY <1>2, <1>4
<1>6. ASSUME NEW r \in compositions[c].members
      PROVE  r \in DOMAIN resources' /\ resources'[r].generation = resources[r].generation
  <2>1. r \in DOMAIN resources /\ r \notin Regenerated(resources, R)
    BY <1>4, <1>5, <1>6 DEF Using, AuthorityCurrent
  <2>2. resources' = Override(resources, R)
    BY DEF Ingest
  <2>. QED BY <2>1, <2>2 DEF Override, Regenerated
<1>. QED BY <1>4, <1>6 DEF AuthorityCurrent

\* A registry action that moves an epoch or a generation demotes what it outdates.
LEMMA RegistryCurrent ==
  ASSUME TypeInv, AuthorityCurrent, RegistryNext
  PROVE  AuthorityCurrent'
<1>1. Relabels(compositions') /\ Demotes
  BY RegistryRelabels DEF TypeInv
<1>2. ASSUME NEW N, NEW R, Ingest(N, R), epoch' = epoch
      PROVE  AuthorityCurrent'
  BY <1>2, IngestCurrent
<1>3. ASSUME SameGenerations, epoch' = epoch
      PROVE  AuthorityCurrent'
  BY <1>1, <1>3 DEF SameGenerations, Relabels, Demotes, AuthorityCurrent
<1>4. ASSUME NEW e \in Epochs, AdvanceEpoch(e)
      PROVE  AuthorityCurrent'
  BY <1>4, EpochRelabels DEF TypeInv, Relabels, AuthorityCurrent
<1>5. CASE \/ \E n \in NodeId : \E node \in PublishedNodes[n] : RegisterNode(n, node)
           \/ \E r \in ResourceId : \E res \in PublishedResources[r] : RegisterResource(r, res)
           \/ \E rep \in Reports : Discover(rep)
  BY <1>2, <1>5 DEF RegisterNode, RegisterResource, Discover
<1>6. CASE \/ \E r \in Unstable :
                InvalidateNode(r) \/ WithdrawResource(r) \/ OnResourceFailure(r)
           \/ \E boot \in WorkerBootId : MarkEvidenceRevalidationRequired(boot)
  <2>1. LossNext
    BY <1>6 DEF LossNext
  <2>2. SameGenerations
    BY <2>1, LossType DEF TypeInv
  <2>3. epoch' = epoch
    BY <1>6 DEF InvalidateNode, WithdrawResource, OnResourceFailure,
                MarkEvidenceRevalidationRequired
  <2>. QED BY <1>3, <2>2, <2>3
<1>7. CASE \/ \E p \in PolicyId, g \in PolicyGenerations : OnPolicyUpdate(p, g)
           \/ \E l \in DOMAIN PublishedPaths :
                \E pe \in PublishedPaths[l] : OnPathUpdate(l, pe)
  <2>1. UNCHANGED <<epoch, resources>>
    BY <1>7 DEF OnPolicyUpdate, OnPathUpdate
  <2>. QED BY <1>3, <2>1 DEF SameGenerations
<1>. QED BY <1>4, <1>5, <1>6, <1>7 DEF RegistryNext

\* No step leaves an ACTIVE composition with an outdated binding.
LEMMA AuthorityStep == TypeInv /\ AuthorityCurrent /\ [Next]_vars => AuthorityCurrent'
<1>. SUFFICES ASSUME TypeInv, AuthorityCurrent, [Next]_vars PROVE AuthorityCurrent'
  OBVIOUS
<1>1. CASE UNCHANGED vars
  BY <1>1 DEF vars, registry, AuthorityCurrent
<1>2. CASE RegistryNext
  BY <1>2, RegistryCurrent
<1>3. CASE EngineCall \/ RecomputeStep
  <2>1. SoundActivation /\ UNCHANGED <<epoch, resources>>
    BY <1>3, CallsSound
  <2>. QED BY <2>1 DEF SoundActivation, RevalidationHolds, AuthorityCurrent
<1>. QED BY <1>1, <1>2, <1>3, NextSplit

\* An ACTIVE composition is bound to the current epoch and to the current
\* generation of each of its members.
THEOREM AuthorityBinding == Spec => []AuthorityCurrent
<1>1. Init => AuthorityCurrent
  BY DEF Init, AuthorityCurrent, EmptyMap
<1>. QED BY <1>1, TypeInit, TypeStep, AuthorityStep, PTL DEF Spec

-----------------------------------------------------------------------------
(* The ledger.                                                             *)

\* Reservation ids are handed out in order, so a new one is never in use.
IdsInOrder == \A v \in DOMAIN reservations : v < next_resv

LedgerInv == IdsInOrder /\ NoLeakedHold

\* Ending reservation v and giving its items back leaks nothing.
LEMMA EndReservation ==
  ASSUME TypeInv, LedgerInv, NEW v \in DOMAIN reservations,
         NEW s \in {"RELEASED", "ROLLED_BACK"},
         reservations' = [reservations EXCEPT ![v].state = s],
         reserved_amount' = Freed(reservations[v].items), next_resv' = next_resv
  PROVE  LedgerInv'
<1> DEFINE items == reservations[v].items
<1>1. TypeOK /\ s \in ReservationState
  BY DEF TypeInv, ReservationState
<1>2. /\ DOMAIN reservations' = DOMAIN reservations
      /\ \A w \in DOMAIN reservations :
           /\ reservations'[w].items = reservations[w].items
           /\ w # v => reservations'[w] = reservations[w]
  BY <1>1, StateUpdate
<1>3. items \in [DOMAIN items -> Nat]
  BY DEF TypeInv, TypeOK, Reservation
<1>4. \A r \in ResourceId :
        /\ reserved_amount'[r] <= reserved_amount[r]
        /\ r \in DOMAIN items /\ reserved_amount[r] <= items[r] => reserved_amount'[r] = 0
  BY <1>1, <1>3, FreedType
<1>5. IdsInOrder'
  BY <1>2 DEF LedgerInv, IdsInOrder
<1>6. ASSUME NEW r \in ResourceId, reserved_amount'[r] > 0
      PROVE  \E w \in LiveReservations' :
               r \in DOMAIN reservations'[w].items
                 /\ reserved_amount'[r] <= reservations'[w].items[r]
  <2>1. reserved_amount[r] \in Nat /\ reserved_amount'[r] \in Nat
    BY <1>1, <1>3, FreedType DEF TypeOK
  <2>2. reserved_amount[r] > 0
    BY <1>4, <1>6, <2>1
  <2>3. PICK w \in LiveReservations : r \in DOMAIN reservations[w].items
                                      /\ reserved_amount[r] <= reservations[w].items[r]
    BY <2>2 DEF LedgerInv, NoLeakedHold
  <2>4. w # v
    BY <1>4, <1>6, <2>1, <2>3
  <2>5. w \in LiveReservations' /\ reservations'[w] = reservations[w]
    BY <1>2, <2>3, <2>4 DEF LiveReservations, Live
  <2>6. reservations[w].items[r] \in Nat
    BY <2>3 DEF LiveReservations, TypeInv, TypeOK, Reservation
  <2>7. reserved_amount'[r] <= reservations[w].items[r]
    BY <1>4, <2>1, <2>3, <2>6
  <2>. QED BY <2>3, <2>5, <2>7
<1>. QED BY <1>5, <1>6 DEF LedgerInv, NoLeakedHold

\* A step that leaves the ledger alone leaks nothing.
LEMMA SameLedger ==
  ASSUME LedgerInv, UNCHANGED ledger
  PROVE  LedgerInv'
BY DEF ledger, LedgerInv, IdsInOrder, NoLeakedHold, LiveReservations, Live

\* Reserve leaks nothing: what it holds belongs to the reservation it creates.
LEMMA ReserveLedger ==
  ASSUME TypeInv, LedgerInv, NEW id \in DOMAIN plans, ReserveGranted(id) \/ ReserveRefused(id)
  PROVE  LedgerInv'
<1>0. next_resv \in Nat /\ \A v \in DOMAIN reservations : v \in Nat
  BY DEF TypeInv, TypeOK, ReservationId
<1>1. CASE ReserveRefused(id)
  <2>1. UNCHANGED <<reservations, reserved_amount>> /\ next_resv' = next_resv + 1
    BY <1>1 DEF ReserveRefused
  <2>. QED BY <1>0, <2>1
           DEF LedgerInv, IdsInOrder, NoLeakedHold, LiveReservations, Live
<1>2. CASE ReserveGranted(id)
  <2> DEFINE holds == HoldsFor(plans[id])
  <2>1. /\ DOMAIN reservations' = DOMAIN reservations \cup {next_resv}
        /\ \A v \in DOMAIN reservations : v # next_resv => reservations'[v] = reservations[v]
        /\ reservations'[next_resv].state = "PROVISIONAL"
        /\ reservations'[next_resv].items = holds
        /\ next_resv' = next_resv + 1
        /\ holds \in [plans[id].members -> Nat]
        /\ \A r \in ResourceId :
             /\ r \in plans[id].members => reserved_amount'[r] = holds[r]
             /\ r \notin plans[id].members => reserved_amount'[r] = reserved_amount[r]
    BY <1>2, ReserveGrantedType
  <2> HIDE DEF holds
  <2>2. IdsInOrder'
    BY <1>0, <2>1 DEF LedgerInv, IdsInOrder
  <2>3. ASSUME NEW r \in ResourceId, reserved_amount'[r] > 0
        PROVE  \E w \in LiveReservations' :
                 r \in DOMAIN reservations'[w].items
                   /\ reserved_amount'[r] <= reservations'[w].items[r]
    <3>1. CASE r \in plans[id].members
      <4>1. next_resv \in LiveReservations'
        BY <2>1 DEF LiveReservations, Live
      <4>2. r \in DOMAIN holds /\ reserved_amount'[r] <= holds[r]
        BY <2>1, <3>1
      <4>. QED BY <2>1, <4>1, <4>2
    <3>2. CASE r \notin plans[id].members
      <4>1. PICK w \in LiveReservations : r \in DOMAIN reservations[w].items
                                          /\ reserved_amount[r] <= reservations[w].items[r]
        BY <2>1, <2>3, <3>2 DEF LedgerInv, NoLeakedHold
      <4>2. w \in DOMAIN reservations /\ w # next_resv
        BY <1>0, <4>1 DEF LiveReservations, LedgerInv, IdsInOrder
      <4>3. w \in LiveReservations' /\ reservations'[w] = reservations[w]
        BY <2>1, <4>1, <4>2 DEF LiveReservations, Live
      <4>. QED BY <2>1, <3>2, <4>1, <4>3
    <3>. QED BY <3>1, <3>2
  <2>. QED BY <2>2, <2>3 DEF LedgerInv, NoLeakedHold
<1>. QED BY <1>1, <1>2

\* Commit leaks nothing: it keeps the reservation live or gives its items back.
LEMMA CommitLedger ==
  ASSUME TypeInv, LedgerInv, NEW v, CommitGranted(v) \/ CommitRolledBack(v),
         next_resv' = next_resv
  PROVE  LedgerInv'
<1>1. v \in DOMAIN reservations
  BY DEF CommitGranted, CommitRolledBack, CommitAllowed
<1>2. CASE CommitRolledBack(v)
  BY <1>1, <1>2, EndReservation DEF CommitRolledBack
<1>3. CASE CommitGranted(v)
  <2>1. /\ reservations' = [reservations EXCEPT ![v].state = "COMMITTED"]
        /\ reserved_amount' = reserved_amount
    BY <1>3 DEF CommitGranted
  <2>2. "COMMITTED" \in ReservationState
    BY DEF ReservationState
  <2>3. /\ DOMAIN reservations' = DOMAIN reservations
        /\ \A w \in DOMAIN reservations :
             /\ reservations'[w].items = reservations[w].items
             /\ w # v => reservations'[w] = reservations[w]
        /\ reservations'[v].state = "COMMITTED"
    BY <1>1, <2>1, <2>2, StateUpdate DEF TypeInv
  <2>4. LiveReservations \subseteq LiveReservations'
    BY <2>3 DEF LiveReservations, Live
  <2>5. \A w \in LiveReservations : reservations'[w].items = reservations[w].items
    BY <2>3 DEF LiveReservations
  <2>6. NoLeakedHold'
    BY <2>1, <2>4, <2>5 DEF LedgerInv, NoLeakedHold
  <2>. QED BY <2>3, <2>6 DEF LedgerInv, IdsInOrder
<1>. QED BY <1>2, <1>3

\* Giving a composition's holds back leaks nothing, also the second time.
LEMMA FreeLedger ==
  ASSUME TypeInv, LedgerInv, NEW c, FreeHolds(c), next_resv' = next_resv
  PROVE  LedgerInv'
<1> DEFINE v == compositions[c].reservation
<1>1. CASE v \in DOMAIN reservations
  BY <1>1, EndReservation DEF FreeHolds
<1>2. CASE v \notin DOMAIN reservations
  BY <1>2, SameLedger DEF FreeHolds, ledger
<1>. QED BY <1>1, <1>2

\* No step leaves an amount without a live reservation.
LEMMA LedgerStep == TypeInv /\ LedgerInv /\ [Next]_vars => LedgerInv'
<1>. SUFFICES ASSUME TypeInv, LedgerInv, [Next]_vars PROVE LedgerInv'
  OBVIOUS
<1>1. CASE UNCHANGED ledger
  BY <1>1, SameLedger
<1>2. CASE UNCHANGED vars
  BY <1>1, <1>2 DEF vars
<1>3. CASE RegistryNext
  BY <1>1, <1>3 DEF RegistryNext, RegisterNode, RegisterResource, Discover, InvalidateNode,
         WithdrawResource, OnResourceFailure, MarkEvidenceRevalidationRequired,
         AdvanceEpoch, OnPolicyUpdate, OnPathUpdate
<1>4. ASSUME NEW id, Reserve(id)
      PROVE  LedgerInv'
  BY <1>4, ReserveLedger DEF Reserve
<1>5. ASSUME NEW v, Commit(v)
      PROVE  LedgerInv'
  BY <1>5, CommitLedger DEF Commit
<1>6. ASSUME NEW c, EndDrain(c) \/ Release(c)
      PROVE  LedgerInv'
  BY <1>6, FreeLedger DEF EndDrain, Release
<1>7. CASE EngineCall
  BY <1>1, <1>4, <1>5, <1>6, <1>7 DEF EngineCall, Compose, Activate, BeginDrain
<1>8. ASSUME NEW t \in Callers, RecomputeReserve(t)
      PROVE  LedgerInv'
  <2>1. calls[t].plan \in DOMAIN plans
    BY <1>8 DEF RecomputeReserve, TypeInv, CallsKnown
  <2>. QED BY <1>8, <2>1, ReserveLedger DEF RecomputeReserve
<1>9. ASSUME NEW t \in Callers, RecomputeCommit(t)
      PROVE  LedgerInv'
  <2>1. CASE UNCHANGED <<reservations, reserved_amount>>
    BY <1>1, <1>9, <2>1 DEF RecomputeCommit, ledger
  <2>. QED BY <1>9, <2>1, CommitLedger DEF RecomputeCommit
<1>10. ASSUME NEW t \in Callers, RecomputeRelease(t)
       PROVE  LedgerInv'
  BY <1>10, FreeLedger DEF RecomputeRelease
<1>11. CASE RecomputeStep
  BY <1>1, <1>8, <1>9, <1>10, <1>11
     DEF RecomputeStep, RecomputeNext, RecomputeCompose, RecomputeActivate
<1>. QED BY <1>2, <1>3, <1>7, <1>11, NextSplit

\* Whatever callers do, and in whatever order, every amount in the ledger belongs
\* to a live reservation: no hold outlives its reservation.
THEOREM NoLeak == Spec => []NoLeakedHold
<1>1. Init => LedgerInv
  BY DEF Init, LedgerInv, IdsInOrder, NoLeakedHold, EmptyMap
<1>2. LedgerInv => NoLeakedHold
  BY DEF LedgerInv
<1>. QED BY <1>1, <1>2, TypeInit, TypeStep, LedgerStep, PTL DEF Spec
=============================================================================
