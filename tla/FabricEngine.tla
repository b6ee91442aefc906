--------------------------- MODULE FabricEngine ---------------------------
(***************************************************************************)
(* FabricEngine (src/dfabric/engine.cpp): the registry of nodes, resources *)
(* and paths, the composition lifecycle, the reservation ledger and the    *)
(* authority binding.                                                      *)
(*                                                                         *)
(* Every public method holds Impl::mu from entry to return, so each is one *)
(* atomic action here. Recompute is the exception: it takes and drops the  *)
(* lock once per sub-call and is a process of several steps.  A call that  *)
(* is refused without changing state is a stuttering step and has no       *)
(* action.                                                                 *)
(*                                                                         *)
(* The variable plans is not engine state: it records the plans Compose    *)
(* has returned. A caller keeps its plans and may reserve one at any time, *)
(* and more than once.                                                     *)
(***************************************************************************)
EXTENDS FabricModel

CONSTANTS
  PublishedNodes,      \* node |-> the node records a backend or worker may publish
  PublishedResources,  \* resource |-> the records that may be published for it
  PublishedPaths,      \* link |-> the path evidence that may be published for it
  Reports,             \* what one round of discovery may return
  Requests,            \* the requests consumers make
  PolicyGenerations,   \* the generations a policy may be moved to
  Unstable,            \* resources that are withdrawn, fail or are invalidated
  Epochs,              \* the epochs the coordinator may be moved to
  Callers,             \* threads that call Recompute
  MaxCompositions,     \* bound on the composition ids handed out
  MaxReservations      \* bound on the reservation ids handed out

CompositionId == 1..MaxCompositions
ReservationId == 1..MaxReservations

ASSUME BoundsAssumption ==
  MaxCompositions \in Nat /\ MaxReservations \in Nat

ASSUME InputsAssumption ==
  /\ PublishedNodes \in [NodeId -> SUBSET Node]
  /\ PublishedResources \in [ResourceId -> SUBSET Resource]
  /\ IsMap(PublishedPaths, Link, SUBSET PathEvidence)
  /\ \A rep \in Reports :
       /\ IsMap(rep.nodes, NodeId, Node)
       /\ IsMap(rep.resources, ResourceId, Resource)
       /\ IsMap(rep.paths, Link, PathEvidence)
  /\ Requests \subseteq CompositionRequest
  /\ PolicyGenerations \subseteq Nat
  /\ Unstable \subseteq ResourceId
  /\ Epochs \subseteq Nat \ {0}

VARIABLES
  epoch,            \* config.epoch
  nodes,            \* registered nodes
  resources,        \* registered resources
  paths,            \* path evidence per link
  policies,         \* generation of each policy that was updated
  compositions,     \* composition id |-> Composition
  reservations,     \* reservation id |-> Reservation
  reserved_amount,  \* amount held of each resource, 0 when it has no entry
  draining,         \* compositions being drained
  fenced,           \* compositions that may never be activated again
  next_comp,        \* next composition id
  next_resv,        \* next reservation id
  plans,            \* plan id |-> the plan Compose returned under it
  calls             \* Recompute calls in progress

registry == <<epoch, nodes, resources, paths, policies>>
ledger   == <<reservations, reserved_amount, next_resv>>
planning == <<plans, next_comp>>
vars     == <<registry, compositions, ledger, draining, fenced, planning, calls>>

\* REQUESTED, DISCOVERING, EVALUATED, RESERVING, REVALIDATING, DEGRADED, FENCED,
\* FAILED and RETIRED are never assigned to a composition by the engine.
Lifecycle == {"RESERVED", "COMMITTED", "ACTIVE", "DRAINING", "RELEASED",
              "RECOMPOSITION_REQUIRED", "REVALIDATION_REQUIRED"}

ReservationState == {"PROVISIONAL", "COMMITTED", "RELEASED", "ROLLED_BACK"}

\* A plan as Compose returned it: the set it chose, the request, the authority
\* it is bound to and the generation of the path evidence on each link it uses.
CompositionPlan(p) ==
  /\ p \in [members   : SUBSET ResourceId,
            request   : CompositionRequest,
            authority : AuthorityTuple(p.members, DOMAIN p.authority.node_generations),
            paths     : [DOMAIN p.paths -> Nat],
            offered   : BOOLEAN]     \* returned to a caller, not kept inside Recompute
  /\ DOMAIN p.authority.node_generations \subseteq NodeId
  /\ DOMAIN p.paths \subseteq Link

Composition(c) ==
  /\ c \in [members     : SUBSET ResourceId,
            request     : CompositionRequest,
            authority   : AuthorityTuple(c.members, DOMAIN c.authority.node_generations),
            paths       : [DOMAIN c.paths -> Nat],
            lifecycle   : Lifecycle,
            reservation : ReservationId]
  /\ DOMAIN c.authority.node_generations \subseteq NodeId
  /\ DOMAIN c.paths \subseteq Link

\* The items are the amount held of each reserved resource.
Reservation(v) ==
  /\ v \in [composition : CompositionId,
            items       : [DOMAIN v.items -> Nat],
            state       : ReservationState]
  /\ DOMAIN v.items \subseteq ResourceId

\* A Recompute call: the sub-call it makes next, the composition it replaces,
\* the plan and the reservation of the replacement (0 when there is none yet).
Call == [step        : {"idle", "release", "reserve", "commit", "activate"},
         old         : 0..MaxCompositions,
         plan        : 0..MaxCompositions,
         reservation : 0..MaxReservations]

IdleCall == [step |-> "idle", old |-> 0, plan |-> 0, reservation |-> 0]

TypeOK ==
  /\ epoch \in Nat \ {0}
  /\ IsMap(nodes, NodeId, Node)
  /\ IsMap(resources, ResourceId, Resource)
  /\ IsMap(paths, Link, PathEvidence)
  /\ IsMap(policies, PolicyId, Nat)
  /\ DOMAIN compositions \subseteq CompositionId
  /\ \A c \in DOMAIN compositions : Composition(compositions[c])
  /\ DOMAIN reservations \subseteq ReservationId
  /\ \A v \in DOMAIN reservations : Reservation(reservations[v])
  /\ reserved_amount \in [ResourceId -> Nat]
  /\ draining \subseteq CompositionId
  /\ fenced \subseteq CompositionId
  /\ next_comp \in 1..(MaxCompositions + 1)
  /\ next_resv \in 1..(MaxReservations + 1)
  /\ DOMAIN plans \subseteq CompositionId
  /\ \A id \in DOMAIN plans : CompositionPlan(plans[id])
  /\ calls \in [Callers -> Call]

Init ==
  /\ epoch = 1
  /\ nodes = EmptyMap
  /\ resources = EmptyMap
  /\ paths = EmptyMap
  /\ policies = EmptyMap
  /\ compositions = EmptyMap
  /\ reservations = EmptyMap
  /\ reserved_amount = [r \in ResourceId |-> 0]
  /\ draining = {}
  /\ fenced = {}
  /\ next_comp = 1
  /\ next_resv = 1
  /\ plans = EmptyMap
  /\ calls = [t \in Callers |-> IdleCall]

-----------------------------------------------------------------------------
(* Invalidation of compositions.                                           *)

\* ACTIVE lapses to RECOMPOSITION_REQUIRED; the lifecycles in "early" lapse to
\* REVALIDATION_REQUIRED; the others stay.
Lapse(lifecycle, early) ==
  IF lifecycle = "ACTIVE" THEN "RECOMPOSITION_REQUIRED"
  ELSE IF lifecycle \in early THEN "REVALIDATION_REQUIRED"
  ELSE lifecycle

Lapsed(hit, early) ==
  [c \in DOMAIN compositions |->
     IF c \in hit
     THEN [compositions[c] EXCEPT !.lifecycle = Lapse(@, early)]
     ELSE compositions[c]]

\* The compositions with a member among the given resources.
Using(R) == {c \in DOMAIN compositions : compositions[c].members \cap R # {}}

-----------------------------------------------------------------------------
(* Registry: discovery, registration, loss of evidence.                    *)

\* The known entries of a map that a new map publishes with another generation.
Regenerated(old, new) ==
  {x \in DOMAIN old \cap DOMAIN new : old[x].generation # new[x].generation}

\* IngestNodeLocked and IngestResourceLocked for every entry of the two maps.
\* A node of a new generation lapses every composition, a resource those using
\* it; applying the rule once per entry gives the same lifecycles.
Ingest(newNodes, newResources) ==
  LET hit == IF Regenerated(nodes, newNodes) # {}
             THEN DOMAIN compositions
             ELSE Using(Regenerated(resources, newResources))
  IN /\ compositions' = Lapsed(hit, {"COMMITTED", "RESERVED"})
     /\ nodes' = Override(nodes, newNodes)
     /\ resources' = Override(resources, newResources)

\* RegisterNode and OnNodeUpdate.
RegisterNode(n, node) ==
  /\ Ingest([x \in {n} |-> node], EmptyMap)
  /\ UNCHANGED <<epoch, paths, policies, ledger, draining, fenced, planning, calls>>

\* RegisterResource and OnResourceUpdate.
RegisterResource(r, res) ==
  /\ Ingest(EmptyMap, [x \in {r} |-> res])
  /\ UNCHANGED <<epoch, paths, policies, ledger, draining, fenced, planning, calls>>

\* Discover ingests what the backends report, then stores the paths they
\* resolve between known nodes; a link they do not resolve keeps its entry.
Discover(report) ==
  LET known == DOMAIN nodes \cup DOMAIN report.nodes
      resolved == {l \in DOMAIN report.paths : l[1] \in known /\ l[2] \in known}
  IN /\ Ingest(report.nodes, report.resources)
     /\ paths' = Override(paths, [l \in resolved |-> report.paths[l]])
     /\ UNCHANGED <<epoch, policies, ledger, draining, fenced, planning, calls>>

\* What the engine does to evidence it can no longer rely on, and to a resource
\* that failed or was withdrawn. The generation stays.
Expired(res) == [res EXCEPT !.evidence.state = "REVALIDATION_REQUIRED",
                            !.evidence.accepted = FALSE]
Failed(res) == [res EXCEPT !.health = "OFFLINE", !.readiness = "NOT_READY",
                           !.evidence.state = "REVALIDATION_REQUIRED"]
Withdrawn(res) == [Failed(res) EXCEPT !.reachability = "UNREACHABLE"]

\* InvalidateNode takes a resource id, in spite of its name.
InvalidateNode(r) ==
  /\ r \in DOMAIN resources
  /\ resources' = [resources EXCEPT ![r] = Expired(@)]
  /\ UNCHANGED <<epoch, nodes, paths, policies, compositions, ledger, draining,
                 fenced, planning, calls>>

WithdrawResource(r) ==
  /\ r \in DOMAIN resources
  /\ resources' = [resources EXCEPT ![r] = Withdrawn(@)]
  /\ compositions' = Lapsed(Using({r}), {})
  /\ UNCHANGED <<epoch, nodes, paths, policies, ledger, draining, fenced, planning,
                 calls>>

\* Compositions are told of the failure also when the resource is unknown.
OnResourceFailure(r) ==
  /\ resources' = [x \in DOMAIN resources |->
                     IF x = r THEN Failed(resources[x]) ELSE resources[x]]
  /\ compositions' = Lapsed(Using({r}), {"COMMITTED"})
  /\ UNCHANGED <<epoch, nodes, paths, policies, ledger, draining, fenced, planning,
                 calls>>

OwnedBy(boot) == {r \in DOMAIN resources : resources[r].evidence.owner = boot}

MarkEvidenceRevalidationRequired(boot) ==
  /\ resources' = [r \in DOMAIN resources |->
                     IF r \in OwnedBy(boot)
                     THEN [Expired(resources[r]) EXCEPT !.health = "UNKNOWN"]
                     ELSE resources[r]]
  /\ compositions' = Lapsed(Using(OwnedBy(boot)), {})
  /\ UNCHANGED <<epoch, nodes, paths, policies, ledger, draining, fenced, planning,
                 calls>>

\* Any valid epoch is accepted, also one that is not larger.
AdvanceEpoch(next) ==
  /\ epoch' = next
  /\ resources' = [r \in DOMAIN resources |->
                     IF resources[r].evidence.durable
                     THEN resources[r]
                     ELSE Expired(resources[r])]
  /\ compositions' = [c \in DOMAIN compositions |->
                        IF compositions[c].lifecycle = "ACTIVE"
                        THEN [compositions[c] EXCEPT
                                !.lifecycle = "REVALIDATION_REQUIRED"]
                        ELSE compositions[c]]
  /\ UNCHANGED <<nodes, paths, policies, ledger, draining, fenced, planning, calls>>

\* The generation is compared with every composition's, whatever its policy.
OnPolicyUpdate(policy, gen) ==
  /\ policies' = Put(policies, policy, gen)
  /\ compositions' =
       Lapsed({c \in DOMAIN compositions :
                 compositions[c].authority.policy_generation # gen}, {"COMMITTED"})
  /\ UNCHANGED <<epoch, nodes, resources, paths, ledger, draining, fenced, planning,
                 calls>>

OnPathUpdate(link, evidence) ==
  /\ paths' = Put(paths, link, evidence)
  /\ compositions' =
       Lapsed({c \in DOMAIN compositions :
                 /\ link \in DOMAIN compositions[c].paths
                 /\ compositions[c].paths[link] # evidence.generation}, {})
  /\ UNCHANGED <<epoch, nodes, resources, policies, ledger, draining, fenced,
                 planning, calls>>

-----------------------------------------------------------------------------
(* Planning. Compose changes no composition: it hands out the next id and  *)
(* refreshes the paths it asks its backends about.                         *)

MakeAuthority(req, S) ==
  LET hosts == {resources[r].node : r \in S} \cap DOMAIN nodes
  IN [epoch                |-> epoch,
      policy_generation    |-> req.policy_generation,
      resource_generations |-> [r \in S |-> resources[r].generation],
      node_generations     |-> [n \in hosts |-> nodes[n].generation],
      worker_boots         |-> {nodes[n].worker_boot : n \in hosts} \ {NoBoot}]

\* The plan for the chosen set; "resolved" is the path evidence at that moment.
PlanFor(req, S, resolved, offered) ==
  [members   |-> S,
   request   |-> req,
   authority |-> MakeAuthority(req, S),
   paths     |-> [l \in LinksOf(S, resources) |-> resolved[l].generation],
   offered   |-> offered]

\* ComposeDeterministic. While it ranks, every set that beats the best one so
\* far has its links resolved by the backends ("answers"), so a later set is
\* validated against the paths with the "early" links already refreshed.
ComposeBody(req, answers, offered) ==
  /\ next_comp <= MaxCompositions
  /\ \E early \in SUBSET (DOMAIN answers \cap LinksOf(DOMAIN resources, resources)) :
       LET seen == Override(paths, Restrict(answers, early))
       IN \E S \in Candidates(req, resources, seen) :
            LET asked == DOMAIN answers \cap LinksOf(S, resources)
                resolved == Override(seen, Restrict(answers, asked))
            IN /\ paths' = resolved
               /\ plans' = Put(plans, next_comp, PlanFor(req, S, resolved, offered))
  /\ next_comp' = next_comp + 1

Compose(req, answers) ==
  /\ ComposeBody(req, answers, TRUE)
  /\ UNCHANGED <<epoch, nodes, resources, policies, compositions, ledger, draining,
                 fenced, calls>>

-----------------------------------------------------------------------------
(* Reservation, commit, activation.                                        *)

Registered(r, req) == r \in DOMAIN resources /\ ResourceEligible(resources[r], req)

\* Mutant: a member that is already held is no conflict.
CanReserveIgnoringHolds(plan) ==
  \A r \in plan.members : Registered(r, plan.request)

CanReserve(plan) ==
  \A r \in plan.members : Registered(r, plan.request) /\ reserved_amount[r] = 0

HoldsFor(plan) == [r \in plan.members |-> HoldAmountForResource(resources[r])]

\* A refused Reserve undoes its holds; only the reservation id is used up.
ReserveRefused(id) ==
  /\ next_resv <= MaxReservations
  /\ ~ CanReserve(plans[id])
  /\ next_resv' = next_resv + 1
  /\ UNCHANGED <<compositions, reservations, reserved_amount>>

\* The composition is stored under the plan's id, over an earlier one.
ReserveGranted(id) ==
  LET plan == plans[id]
  IN /\ next_resv <= MaxReservations
     /\ CanReserve(plan)
     /\ compositions' =
          Put(compositions, id,
              [members     |-> plan.members,
               request     |-> plan.request,
               authority   |-> plan.authority,
               paths       |-> plan.paths,
               lifecycle   |-> "RESERVED",
               reservation |-> next_resv])
     /\ reservations' =
          Put(reservations, next_resv,
              [composition |-> id,
               items       |-> HoldsFor(plan),
               state       |-> "PROVISIONAL"])
     /\ reserved_amount' =
          [r \in ResourceId |-> IF r \in plan.members
                                THEN reserved_amount[r] + HoldsFor(plan)[r]
                                ELSE reserved_amount[r]]
     /\ next_resv' = next_resv + 1

Reserve(id) ==
  /\ id \in DOMAIN plans /\ plans[id].offered
  /\ ReserveRefused(id) \/ ReserveGranted(id)
  /\ UNCHANGED <<registry, draining, fenced, planning, calls>>

\* Mutant: the amount is subtracted without the clamp at zero.
FreedUnclamped(items) ==
  [r \in ResourceId |->
     IF r \in DOMAIN items THEN reserved_amount[r] - items[r] ELSE reserved_amount[r]]

\* The ledger after giving back a reservation's items, never below zero.
Freed(items) ==
  [r \in ResourceId |->
     IF r \notin DOMAIN items THEN reserved_amount[r]
     ELSE IF reserved_amount[r] <= items[r] THEN 0
     ELSE reserved_amount[r] - items[r]]

CommitAllowed(v) ==
  /\ v \in DOMAIN reservations
  /\ reservations[v].state = "PROVISIONAL"
  /\ reservations[v].composition \in DOMAIN compositions
  /\ compositions[reservations[v].composition].lifecycle = "RESERVED"

CommitVerified(v) ==
  LET req == compositions[reservations[v].composition].request
  IN \A r \in DOMAIN reservations[v].items :
       /\ Registered(r, req)
       /\ reserved_amount[r] >= reservations[v].items[r]

\* Mutant: the reservation stays PROVISIONAL.
CommitForgetsReservation(v) ==
  /\ CommitAllowed(v) /\ CommitVerified(v)
  /\ compositions' =
       [compositions EXCEPT ![reservations[v].composition].lifecycle = "COMMITTED"]
  /\ UNCHANGED <<reservations, reserved_amount>>

CommitGranted(v) ==
  /\ CommitAllowed(v) /\ CommitVerified(v)
  /\ reservations' = [reservations EXCEPT ![v].state = "COMMITTED"]
  /\ compositions' =
       [compositions EXCEPT ![reservations[v].composition].lifecycle = "COMMITTED"]
  /\ UNCHANGED reserved_amount

\* Mutant: the rollback does not give the holds back.
RollbackKeepsHolds(v) ==
  /\ CommitAllowed(v) /\ ~ CommitVerified(v)
  /\ reservations' = [reservations EXCEPT ![v].state = "ROLLED_BACK"]
  /\ compositions' =
       [compositions EXCEPT
          ![reservations[v].composition].lifecycle = "REVALIDATION_REQUIRED"]
  /\ UNCHANGED reserved_amount

\* Mutant: the rollback does not end the reservation.
RollbackKeepsReservation(v) ==
  /\ CommitAllowed(v) /\ ~ CommitVerified(v)
  /\ reserved_amount' = Freed(reservations[v].items)
  /\ compositions' =
       [compositions EXCEPT
          ![reservations[v].composition].lifecycle = "REVALIDATION_REQUIRED"]
  /\ UNCHANGED reservations

CommitRolledBack(v) ==
  /\ CommitAllowed(v) /\ ~ CommitVerified(v)
  /\ reserved_amount' = Freed(reservations[v].items)
  /\ reservations' = [reservations EXCEPT ![v].state = "ROLLED_BACK"]
  /\ compositions' =
       [compositions EXCEPT
          ![reservations[v].composition].lifecycle = "REVALIDATION_REQUIRED"]

Commit(v) ==
  /\ CommitGranted(v) \/ CommitRolledBack(v)
  /\ UNCHANGED <<registry, next_resv, draining, fenced, planning, calls>>

\* Mutant: the resource generations are not compared.
RevalidationSkipsGeneration(comp) ==
  /\ comp.authority.epoch = epoch
  /\ \A r \in comp.members : r \in DOMAIN resources /\ IsCurrent(resources[r].evidence)

\* Mutant: the epoch is not compared.
RevalidationSkipsEpoch(comp) ==
  \A r \in comp.members :
    /\ r \in DOMAIN resources
    /\ comp.authority.resource_generations[r] = resources[r].generation
    /\ IsCurrent(resources[r].evidence)

\* Epoch, presence, resource generation and evidence; nothing else is compared.
RevalidationHolds(comp) ==
  /\ comp.authority.epoch = epoch
  /\ \A r \in comp.members :
       /\ r \in DOMAIN resources
       /\ comp.authority.resource_generations[r] = resources[r].generation
       /\ IsCurrent(resources[r].evidence)

\* Mutant: the fence is not consulted.
ActivateIgnoresFence(c) ==
  c \in DOMAIN compositions /\ compositions[c].lifecycle = "COMMITTED"

ActivateAllowed(c) ==
  /\ c \in DOMAIN compositions
  /\ compositions[c].lifecycle = "COMMITTED"
  /\ c \notin fenced

ActivateBody(c) ==
  /\ ActivateAllowed(c)
  /\ compositions' =
       [compositions EXCEPT
          ![c].lifecycle = IF RevalidationHolds(compositions[c])
                           THEN "ACTIVE" ELSE "REVALIDATION_REQUIRED"]

Activate(c) ==
  /\ ActivateBody(c)
  /\ UNCHANGED <<registry, ledger, draining, fenced, planning, calls>>

-----------------------------------------------------------------------------
(* Drain and release. Both give back the items of the composition's        *)
(* reservation whatever state that reservation is in.                      *)

WithLifecycle(c, lifecycle) == [compositions EXCEPT ![c].lifecycle = lifecycle]

FreeHolds(c) ==
  LET v == compositions[c].reservation
  IN IF v \in DOMAIN reservations
     THEN /\ reserved_amount' = Freed(reservations[v].items)
          /\ reservations' = [reservations EXCEPT ![v].state = "RELEASED"]
     ELSE UNCHANGED <<reserved_amount, reservations>>

BeginDrain(c) ==
  /\ c \in DOMAIN compositions
  /\ compositions[c].lifecycle \in {"ACTIVE", "COMMITTED"}
  /\ compositions' = WithLifecycle(c, "DRAINING")
  /\ draining' = draining \cup {c}
  /\ UNCHANGED <<registry, ledger, fenced, planning, calls>>

\* A drained composition is not fenced.
EndDrain(c) ==
  /\ c \in DOMAIN compositions
  /\ compositions[c].lifecycle = "DRAINING"
  /\ FreeHolds(c)
  /\ compositions' = WithLifecycle(c, "RELEASED")
  /\ draining' = draining \ {c}
  /\ UNCHANGED <<registry, next_resv, fenced, planning, calls>>

Release(c) ==
  /\ c \in DOMAIN compositions
  /\ compositions[c].lifecycle # "RELEASED"
  /\ FreeHolds(c)
  /\ compositions' = WithLifecycle(c, "RELEASED")
  /\ draining' = draining \ {c}
  /\ fenced' = fenced \cup {c}
  /\ UNCHANGED <<registry, next_resv, planning, calls>>

-----------------------------------------------------------------------------
(* Recompute, one action per critical section. The request is read in a    *)
(* critical section of its own before Compose; a composition is never      *)
(* removed and its request never changes, so the two are one step.         *)

Return(t) == calls' = [calls EXCEPT ![t] = IdleCall]

RecomputeCompose(t, c, answers) ==
  /\ calls[t].step = "idle"
  /\ c \in DOMAIN compositions
  /\ ComposeBody(compositions[c].request, answers, FALSE)
  /\ calls' = [calls EXCEPT ![t] = [step |-> "release", old |-> c,
                                    plan |-> next_comp, reservation |-> 0]]
  /\ UNCHANGED <<epoch, nodes, resources, policies, compositions, ledger, draining,
                 fenced>>

\* The old composition is released and fenced, whatever became of it meanwhile;
\* it stays in draining if it was there.
RecomputeRelease(t) ==
  LET old == calls[t].old
  IN /\ calls[t].step = "release"
     /\ FreeHolds(old)
     /\ compositions' = WithLifecycle(old, "RELEASED")
     /\ fenced' = fenced \cup {old}
     /\ calls' = [calls EXCEPT ![t].step = "reserve"]
     /\ UNCHANGED <<registry, next_resv, draining, planning>>

RecomputeReserve(t) ==
  /\ calls[t].step = "reserve"
  /\ \/ /\ ReserveGranted(calls[t].plan)
        /\ calls' = [calls EXCEPT ![t].step = "commit", ![t].reservation = next_resv]
     \/ ReserveRefused(calls[t].plan) /\ Return(t)
  /\ UNCHANGED <<registry, draining, fenced, planning>>

RecomputeCommit(t) ==
  LET v == calls[t].reservation
  IN /\ calls[t].step = "commit"
     /\ \/ CommitGranted(v) /\ calls' = [calls EXCEPT ![t].step = "activate"]
        \/ CommitRolledBack(v) /\ Return(t)
        \/ /\ ~ CommitAllowed(v) /\ Return(t)
           /\ UNCHANGED <<compositions, reservations, reserved_amount>>
     /\ UNCHANGED <<registry, next_resv, draining, fenced, planning>>

RecomputeActivate(t) ==
  LET c == calls[t].plan
  IN /\ calls[t].step = "activate"
     /\ ActivateBody(c) \/ (~ ActivateAllowed(c) /\ UNCHANGED compositions)
     /\ Return(t)
     /\ UNCHANGED <<registry, ledger, draining, fenced, planning>>

-----------------------------------------------------------------------------
\* What the backends may answer to ResolvePath.
PathAnswers == {EmptyMap} \cup {rep.paths : rep \in Reports}

RegistryNext ==
  \/ \E n \in NodeId : \E node \in PublishedNodes[n] : RegisterNode(n, node)
  \/ \E r \in ResourceId : \E res \in PublishedResources[r] : RegisterResource(r, res)
  \/ \E rep \in Reports : Discover(rep)
  \/ \E r \in Unstable :
       InvalidateNode(r) \/ WithdrawResource(r) \/ OnResourceFailure(r)
  \/ \E boot \in WorkerBootId : MarkEvidenceRevalidationRequired(boot)
  \/ \E e \in Epochs : AdvanceEpoch(e)
  \/ \E p \in PolicyId, g \in PolicyGenerations : OnPolicyUpdate(p, g)
  \/ \E l \in DOMAIN PublishedPaths : \E pe \in PublishedPaths[l] : OnPathUpdate(l, pe)

\* The remaining steps of a Recompute call in progress.
RecomputeNext(t) ==
  RecomputeRelease(t) \/ RecomputeReserve(t) \/ RecomputeCommit(t) \/ RecomputeActivate(t)

Next ==
  \/ RegistryNext
  \/ \E req \in Requests, answers \in PathAnswers : Compose(req, answers)
  \/ \E id \in CompositionId : Reserve(id)
  \/ \E v \in ReservationId : Commit(v)
  \/ \E c \in CompositionId : Activate(c) \/ BeginDrain(c) \/ EndDrain(c) \/ Release(c)
  \/ \E t \in Callers : \/ RecomputeNext(t)
                        \/ \E c \in CompositionId, answers \in PathAnswers :
                             RecomputeCompose(t, c, answers)

Spec == Init /\ [][Next]_vars

-----------------------------------------------------------------------------
(* Properties.                                                             *)

\* An ACTIVE composition is bound to the current epoch and to the current
\* generation of every one of its members, although the generations it was
\* planned with may be many calls old by the time it is activated
\* (RevalidationHolds, IngestResourceLocked, AdvanceEpoch).
AuthorityCurrent ==
  \A c \in DOMAIN compositions :
    compositions[c].lifecycle = "ACTIVE" =>
      /\ compositions[c].authority.epoch = epoch
      /\ \A r \in compositions[c].members :
           /\ r \in DOMAIN resources
           /\ compositions[c].authority.resource_generations[r] = resources[r].generation

\* Once Release or Recompute has fenced a composition it is never ACTIVE again,
\* not even when its plan is reserved and committed a second time.
FencedNeverActive ==
  \A c \in fenced : c \in DOMAIN compositions /\ compositions[c].lifecycle # "ACTIVE"

Live(v) == reservations[v].state \in {"PROVISIONAL", "COMMITTED"}
LiveReservations == {v \in DOMAIN reservations : Live(v)}

\* Every amount held in the ledger belongs to a reservation that is still live
\* and holds at least that much, so when the last reservation has ended the
\* accounting is back at its baseline (Reserve's undo, Commit's rollback,
\* Release, EndDrain and Recompute, in any order and repeated).
NoLeakedHold ==
  \A r \in ResourceId :
    reserved_amount[r] > 0 =>
      \E v \in LiveReservations :
        r \in DOMAIN reservations[v].items
          /\ reserved_amount[r] <= reservations[v].items[r]

\* No two live reservations hold the same resource (Reserve's conflict check).
ExclusiveHolds ==
  \A v, w \in LiveReservations :
    v # w => DOMAIN reservations[v].items \cap DOMAIN reservations[w].items = {}

\* No two ACTIVE compositions share a member (Recompute releases the old
\* composition's holds before it reserves the replacement).
NoDuplicateAuthority ==
  \A c, d \in DOMAIN compositions :
    c # d /\ compositions[c].lifecycle = "ACTIVE" /\ compositions[d].lifecycle = "ACTIVE"
      => compositions[c].members \cap compositions[d].members = {}

\* What ComposeDeterministic checks of the members themselves, in the records res:
\* the demanded amount or count of every class, the architecture, coherence and
\* placement. Accelerator memory and the paths between members are not among it.
Supplies(req, S, res) ==
  LET ofClass(k) == {r \in S : res[r].class = k}
      hosts == {res[r].node : r \in S}
      sharing(d) == {r \in S : res[r].domain = d}
  IN /\ \A k \in MandatoryClasses(req) :
          /\ ofClass(k) # {}
          /\ k \in CountClasses => Cardinality(ofClass(k)) >= req.demand[k]
          /\ k \in AmountClasses =>
               SumOf([r \in ofClass(k) |-> res[r].capacity]) >= req.demand[k]
     /\ req.architectures # {} =>
          \A r \in ofClass("ACCELERATOR") : res[r].architecture \in req.architectures
     /\ req.coherence => \A r \in S : res[r].coherent
     /\ req.topology = "COLOCATE" => Cardinality(hosts) <= 1
     /\ req.topology = "SPREAD" => Cardinality(hosts) >= 2
     /\ req.topology = "DISTINCT_FAILURE_DOMAINS" =>
          Cardinality({<<res[r].node, res[r].domain>> : r \in S}) >= 2
     /\ req.topology = "MAX_SHARED_RISK" /\ req.max_shared_risk > 0 =>
          \A d \in DomainName : Cardinality(sharing(d)) <= req.max_shared_risk

\* What the planner checked of the members when it planned still holds, with the
\* registry as it is now, of every ACTIVE composition, however the registry moved
\* between planning and activation: amounts, counts, architecture, coherence and
\* placement (RevalidationHolds compares nothing but generations). It presumes
\* OffersFollowGenerations.
CheckedRequirements ==
  \A c \in DOMAIN compositions :
    compositions[c].lifecycle = "ACTIVE" =>
      Supplies(compositions[c].request, compositions[c].members, resources)

\* "Hard requirements must remain hard -- the engine never silently weakens them"
\* (CompositionRequest): an ACTIVE composition has all that its request asks for and
\* the records can answer, the accelerator memory it states and paths within its
\* bounds included.
HardRequirements ==
  \A c \in DOMAIN compositions :
    LET req == compositions[c].request
        S == compositions[c].members
        devices == {r \in S : resources[r].class = "ACCELERATOR"}
    IN compositions[c].lifecycle = "ACTIVE" =>
         /\ Supplies(req, S, resources)
         /\ SumOf([r \in devices |-> resources[r].accelerator_memory])
              >= req.accelerator_memory
         /\ ValidateGraph(req, S, resources, paths)

\* The records that may be registered for a resource.
Publishable(r) ==
  PublishedResources[r] \cup {rep.resources[r] : rep \in {q \in Reports : r \in DOMAIN q.resources}}

SameOffer(x, y) ==
  /\ x.class = y.class /\ x.node = y.node /\ x.capacity = y.capacity
  /\ x.coherent = y.coherent /\ x.architecture = y.architecture /\ x.domain = y.domain

\* What the publishers owe the engine: a resource gets a new generation whenever
\* what it offers changes. The engine compares nothing but generations.
OffersFollowGenerations ==
  \A r \in ResourceId : \A x, y \in Publishable(r) :
    x.generation = y.generation => SameOffer(x, y)

\* "If any of these change, the composition must become REVALIDATION_REQUIRED
\* [...]" (AuthorityTuple): no ACTIVE composition is bound to the generation of a
\* policy, a node or a path that has moved on.
BindingCurrent ==
  \A c \in DOMAIN compositions :
    LET comp == compositions[c]
        hosts == comp.authority.node_generations
    IN comp.lifecycle = "ACTIVE" =>
         /\ comp.request.policy \in DOMAIN policies
              => comp.authority.policy_generation = policies[comp.request.policy]
         /\ \A n \in DOMAIN hosts : hosts[n] = nodes[n].generation
         /\ \A l \in DOMAIN comp.paths : comp.paths[l] = paths[l].generation
=============================================================================
