--------------------------- MODULE PlannedProofs ---------------------------
(***************************************************************************)
(* Proofs about PlannedFabric, the engine with its planner and a synthetic *)
(* backend: the planner is exact over one selection per demanded class, it *)
(* plans what FabricEngine's Compose allows, and what is proved of         *)
(* FabricEngine holds of it. What was checked of the members of an ACTIVE  *)
(* composition still holds of them, here and in FabricEngine: what a plan  *)
(* is bound to is supplied by any records of the generations it names, and *)
(* those generations are current while it is ACTIVE.                       *)
(***************************************************************************)
EXTENDS PlannedFabric, FabricEngineProofs, PlannerProofs

\* The record offers what was published for the resource under the generation, or
\* what the resource offers under every generation: "fixed" has a record of each
\* resource of which a backend changes no more than state and generation.
OfferOf(fixed, r, generation, res) ==
  \/ \E x \in Publishable(r) : x.generation = generation /\ SameOffer(x, res)
  \/ r \in DOMAIN fixed /\ SameOffer(fixed[r], res)

RegistryOffers(fixed) ==
  \A r \in DOMAIN resources : OfferOf(fixed, r, resources[r].generation, resources[r])

\* x is a plan or a composition.
BoundSupplies(fixed, x) ==
  \A res :
    (\A r \in x.members : OfferOf(fixed, r, x.authority.resource_generations[r], res[r]))
      => Supplies(x.request, x.members, res)

PlansSupply(fixed) == \A id \in DOMAIN plans : BoundSupplies(fixed, plans[id])
CompositionsSupply(fixed) == \A c \in DOMAIN compositions : BoundSupplies(fixed, compositions[c])

RequirementInv(fixed) == RegistryOffers(fixed) /\ PlansSupply(fixed) /\ CompositionsSupply(fixed)

-----------------------------------------------------------------------------
(* What is supplied depends on nothing but the offers.                     *)

\* Two records of one generation offer the same.
LEMMA OneOffer ==
  ASSUME NEW fixed, OffersAgree(fixed), NEW r \in ResourceId, NEW generation, NEW x, NEW y,
         OfferOf(fixed, r, generation, x), OfferOf(fixed, r, generation, y)
  PROVE  SameOffer(x, y)
<1> DEFINE Published(z) == \E p \in Publishable(r) : p.generation = generation /\ SameOffer(p, z)
           Fixed(z) == r \in DOMAIN fixed /\ SameOffer(fixed[r], z)
<1>1. (Published(x) \/ Fixed(x)) /\ (Published(y) \/ Fixed(y))
  BY DEF OfferOf
<1>2. CASE Published(x) /\ Published(y)
  BY <1>2 DEF OffersAgree, OffersFollowGenerations, SameOffer
<1>3. CASE Fixed(x) /\ Fixed(y)
  BY <1>3 DEF SameOffer
<1>4. CASE (Published(x) /\ Fixed(y)) \/ (Fixed(x) /\ Published(y))
  BY <1>4 DEF OffersAgree, SameOffer
<1>. HIDE DEF Published, Fixed
<1>. QED BY <1>1, <1>2, <1>3, <1>4

\* A record that offers the same keeps to the same offer.
LEMMA SameOfferOf ==
  ASSUME NEW fixed, NEW r, NEW generation, NEW x, NEW y,
         OfferOf(fixed, r, generation, x), SameOffer(x, y)
  PROVE  OfferOf(fixed, r, generation, y)
BY DEF OfferOf, SameOffer

\* Records that offer the same supply the same.
LEMMA SameSupplies ==
  ASSUME NEW req, NEW S, NEW x, NEW y, \A r \in S : SameOffer(x[r], y[r]),
         Supplies(req, S, x)
  PROVE  Supplies(req, S, y)
<1>1. \A k : {r \in S : x[r].class = k} = {r \in S : y[r].class = k}
  BY DEF SameOffer
<1>2. {x[r].node : r \in S} = {y[r].node : r \in S}
  BY DEF SameOffer
<1>3. {<<x[r].node, x[r].domain>> : r \in S} = {<<y[r].node, y[r].domain>> : r \in S}
  BY DEF SameOffer
<1>4. \A d : {r \in S : x[r].domain = d} = {r \in S : y[r].domain = d}
  BY DEF SameOffer
<1>5. \A k : [r \in {q \in S : x[q].class = k} |-> x[r].capacity]
               = [r \in {q \in S : y[q].class = k} |-> y[r].capacity]
  <2>. TAKE k
  <2>1. PICK T : T = {q \in S : x[q].class = k} /\ T = {q \in S : y[q].class = k}
    BY <1>1
  <2>2. [r \in T |-> x[r].capacity] = [r \in T |-> y[r].capacity]
    BY <2>1 DEF SameOffer
  <2>. QED BY <2>1, <2>2
<1>6. ASSUME NEW k \in MandatoryClasses(req)
      PROVE  /\ {r \in S : y[r].class = k} # {}
             /\ k \in CountClasses =>
                  Cardinality({r \in S : y[r].class = k}) >= req.demand[k]
             /\ k \in AmountClasses =>
                  SumOf([r \in {q \in S : y[q].class = k} |-> y[r].capacity]) >= req.demand[k]
  <2>1. /\ {r \in S : x[r].class = k} # {}
        /\ k \in CountClasses =>
             Cardinality({r \in S : x[r].class = k}) >= req.demand[k]
        /\ k \in AmountClasses =>
             SumOf([r \in {q \in S : x[q].class = k} |-> x[r].capacity]) >= req.demand[k]
    BY DEF Supplies
  <2>. QED BY <1>1, <1>5, <2>1, Zenon
<1>7. /\ req.architectures # {} =>
           \A r \in {q \in S : y[q].class = "ACCELERATOR"} :
             y[r].architecture \in req.architectures
      /\ req.coherence => \A r \in S : y[r].coherent
  BY DEF Supplies, SameOffer
<1>8. /\ req.topology = "COLOCATE" => Cardinality({y[r].node : r \in S}) <= 1
      /\ req.topology = "SPREAD" => Cardinality({y[r].node : r \in S}) >= 2
  BY <1>2 DEF Supplies
<1>9. req.topology = "DISTINCT_FAILURE_DOMAINS" =>
        Cardinality({<<y[r].node, y[r].domain>> : r \in S}) >= 2
  BY <1>3 DEF Supplies
<1>10. req.topology = "MAX_SHARED_RISK" /\ req.max_shared_risk > 0 =>
         \A d \in DomainName : Cardinality({r \in S : y[r].domain = d}) <= req.max_shared_risk
  <2>1. req.topology = "MAX_SHARED_RISK" /\ req.max_shared_risk > 0 =>
          \A d \in DomainName : Cardinality({r \in S : x[r].domain = d}) <= req.max_shared_risk
    BY DEF Supplies
  <2>. QED BY <1>4, <2>1, Zenon
<1>. QED BY <1>6, <1>7, <1>8, <1>9, <1>10, Zenon DEF Supplies

-----------------------------------------------------------------------------
(* Planning.                                                               *)

\* A set with a number of elements that is not zero is not empty.
LEMMA NotEmpty ==
  ASSUME NEW S, Cardinality(S) # 0
  PROVE  S # {}
BY FS_EmptySet

\* What can be selected for a class is there, and meets the demand.
LEMMA SelectionMeets ==
  ASSUME NEW req \in CompositionRequest, NEW k \in DemandClasses, NEW items, NEW res,
         NEW S \in Selections(req, k, items, res)
  PROVE  /\ S # {} /\ S \subseteq items
         /\ k \in CountClasses => Cardinality(S) >= req.demand[k]
         /\ k \in AmountClasses => SumOf([r \in S |-> res[r].capacity]) >= req.demand[k]
<1>1. req.demand[k] \in Nat
  BY DEF CompositionRequest
<1>2. Cardinality(S) # 0
  BY <1>1 DEF Selections, Wanted
<1>3. MeetsDemand(req, k, S, res) /\ S \subseteq items
  BY DEF Selections
<1>4. k \in CountClasses => ~ (k \in AmountClasses)
  BY DEF CountClasses, AmountClasses
<1>. QED BY <1>2, <1>3, <1>4, NotEmpty DEF MeetsDemand

\* Every set ComposeDeterministic may choose supplies its request.
LEMMA CandidateSupplies ==
  ASSUME NEW req \in CompositionRequest, NEW res, NEW seen,
         NEW S \in Candidates(req, res, seen)
  PROVE  S \subseteq DOMAIN res /\ Supplies(req, S, res)
<1> DEFINE eligible(k) == {r \in DOMAIN res : res[r].class = k /\ ResourceEligible(res[r], req)}
           ofClass(k) == {r \in S : res[r].class = k}
<1>1. /\ S \subseteq {r \in DOMAIN res : res[r].class \in MandatoryClasses(req)}
      /\ \A k \in MandatoryClasses(req) : ofClass(k) \in Selections(req, k, eligible(k), res)
      /\ ValidateFailureDomains(req, S, res)
      /\ req.coherence => \A r \in S : res[r].coherent
  BY DEF Candidates
<1>2. MandatoryClasses(req) \subseteq DemandClasses
  BY DEF MandatoryClasses
<1>3. ASSUME NEW k \in MandatoryClasses(req)
      PROVE  /\ ofClass(k) # {} /\ ofClass(k) \subseteq eligible(k)
             /\ k \in CountClasses => Cardinality(ofClass(k)) >= req.demand[k]
             /\ k \in AmountClasses =>
                  SumOf([r \in ofClass(k) |-> res[r].capacity]) >= req.demand[k]
  <2>1. ofClass(k) \in Selections(req, k, eligible(k), res) /\ k \in DemandClasses
    BY <1>1, <1>2
  <2>. HIDE DEF ofClass, eligible
  <2>. QED BY <2>1, SelectionMeets
<1>4. req.architectures # {} =>
        \A r \in ofClass("ACCELERATOR") : res[r].architecture \in req.architectures
  <2>. SUFFICES ASSUME req.architectures # {}, NEW r \in S, res[r].class = "ACCELERATOR"
                PROVE  res[r].architecture \in req.architectures
    OBVIOUS
  <2>1. "ACCELERATOR" \in MandatoryClasses(req)
    BY <1>1
  <2>2. r \in eligible("ACCELERATOR")
    BY <1>3, <2>1
  <2>. QED BY <2>2 DEF ResourceEligible, ArchitectureMatches
<1>5. /\ req.topology = "COLOCATE" => Cardinality({res[r].node : r \in S}) <= 1
      /\ req.topology = "SPREAD" => Cardinality({res[r].node : r \in S}) >= 2
      /\ req.topology = "DISTINCT_FAILURE_DOMAINS" =>
           Cardinality({<<res[r].node, res[r].domain>> : r \in S}) >= 2
      /\ req.topology = "MAX_SHARED_RISK" /\ req.max_shared_risk > 0 =>
           \A d \in DomainName : Cardinality({r \in S : res[r].domain = d}) <= req.max_shared_risk
  BY <1>1 DEF ValidateFailureDomains
<1>. QED BY <1>1, <1>3, <1>4, <1>5, Zenon DEF Supplies

\* The plan for a set that supplies the request now would be supplied by any
\* records of the generations it is bound to.
LEMMA PlanSupplies ==
  ASSUME NEW fixed, OffersAgree(fixed), TypeOK, RegistryOffers(fixed),
         NEW req \in CompositionRequest, NEW S \in SUBSET DOMAIN resources,
         Supplies(req, S, resources), NEW resolved, NEW offered
  PROVE  BoundSupplies(fixed, PlanFor(req, S, resolved, offered))
<1> DEFINE plan == PlanFor(req, S, resolved, offered)
<1>1. /\ plan.members = S /\ plan.request = req
      /\ plan.authority.resource_generations = [r \in S |-> resources[r].generation]
  BY DEF PlanFor, MakeAuthority
<1>. HIDE DEF plan
<1>2. ASSUME NEW res,
             \A r \in S : OfferOf(fixed, r, plan.authority.resource_generations[r], res[r])
      PROVE  Supplies(req, S, res)
  <2>1. ASSUME NEW r \in S PROVE SameOffer(resources[r], res[r])
    <3>1. r \in ResourceId /\ r \in DOMAIN resources
      BY DEF TypeOK, IsMap
    <3>2. OfferOf(fixed, r, resources[r].generation, resources[r])
      BY <3>1 DEF RegistryOffers
    <3>3. OfferOf(fixed, r, resources[r].generation, res[r])
      BY <1>1, <1>2
    <3>. QED BY <3>1, <3>2, <3>3, OneOffer
  <2>. QED BY <2>1, SameSupplies
<1>3. BoundSupplies(fixed, plan)
  BY <1>1, <1>2 DEF BoundSupplies
<1>. QED BY <1>3 DEF plan

\* What a successful Compose stores is supplied.
LEMMA ComposeSupplies ==
  ASSUME NEW fixed, OffersAgree(fixed), TypeOK, RegistryOffers(fixed), PlansSupply(fixed),
         NEW req \in CompositionRequest, NEW answers, NEW offered,
         ComposeBody(req, answers, offered)
  PROVE  PlansSupply(fixed)'
<1>1. PICK seen, S, resolved :
        /\ S \in Candidates(req, resources, seen)
        /\ plans' = Put(plans, next_comp, PlanFor(req, S, resolved, offered))
  BY DEF ComposeBody
<1> DEFINE plan == PlanFor(req, S, resolved, offered)
<1>2. BoundSupplies(fixed, plan)
  <2>1. S \in SUBSET DOMAIN resources /\ Supplies(req, S, resources)
    BY <1>1, CandidateSupplies
  <2>. QED BY <2>1, PlanSupplies
<1>3. plans' = Put(plans, next_comp, plan)
  BY <1>1
<1>. HIDE DEF plan
<1>4. ASSUME NEW id \in DOMAIN plans' PROVE BoundSupplies(fixed, plans'[id])
  <2>1. CASE id = next_comp
    <3>1. plans'[id] = plan
      BY <1>3, <2>1 DEF Put
    <3>. QED BY <1>2, <3>1
  <2>2. CASE id # next_comp
    <3>1. id \in DOMAIN plans /\ plans'[id] = plans[id]
      BY <1>3, <2>2 DEF Put
    <3>. QED BY <3>1 DEF PlansSupply
  <2>. QED BY <2>1, <2>2
<1>. QED BY <1>4 DEF PlansSupply

-----------------------------------------------------------------------------
(* Registration.                                                           *)

\* What is lost of a resource is never what it offers.
LEMMA LossKeepsOffer ==
  ASSUME NEW res \in Resource
  PROVE  /\ SameOffer(res, Expired(res))
         /\ SameOffer(res, [Expired(res) EXCEPT !.health = "UNKNOWN"])
         /\ SameOffer(res, Failed(res))
         /\ SameOffer(res, Withdrawn(res))
BY DEF Resource, SameOffer, Expired, Failed, Withdrawn

\* The actions that lose evidence keep every generation and its offer.
LEMMA LossOffers ==
  ASSUME NEW fixed, TypeOK, RegistryOffers(fixed), LossNext
  PROVE  RegistryOffers(fixed)'
<1>0. DOMAIN resources \subseteq ResourceId /\ \A r \in DOMAIN resources : resources[r] \in Resource
  BY DEF TypeOK, IsMap
<1>1. SameGenerations
  BY LossType
<1>2. ASSUME NEW r \in DOMAIN resources PROVE SameOffer(resources[r], resources'[r])
  <2>0. SameOffer(resources[r], resources[r]) /\ resources[r] \in Resource
    BY <1>0 DEF SameOffer
  <2>1. ASSUME NEW q \in Unstable, InvalidateNode(q)
        PROVE  SameOffer(resources[r], resources'[r])
    BY <2>0, <2>1, LossKeepsOffer DEF InvalidateNode
  <2>2. ASSUME NEW q \in Unstable, WithdrawResource(q)
        PROVE  SameOffer(resources[r], resources'[r])
    BY <2>0, <2>2, LossKeepsOffer DEF WithdrawResource
  <2>3. ASSUME NEW q \in Unstable, OnResourceFailure(q)
        PROVE  SameOffer(resources[r], resources'[r])
    BY <2>0, <2>3, LossKeepsOffer DEF OnResourceFailure
  <2>4. ASSUME NEW boot \in WorkerBootId, MarkEvidenceRevalidationRequired(boot)
        PROVE  SameOffer(resources[r], resources'[r])
    BY <2>0, <2>4, LossKeepsOffer DEF MarkEvidenceRevalidationRequired
  <2>5. ASSUME NEW e \in Epochs, AdvanceEpoch(e)
        PROVE  SameOffer(resources[r], resources'[r])
    BY <2>0, <2>5, LossKeepsOffer DEF AdvanceEpoch
  <2>. QED BY <2>1, <2>2, <2>3, <2>4, <2>5 DEF LossNext
<1>3. ASSUME NEW r \in DOMAIN resources'
      PROVE  OfferOf(fixed, r, resources'[r].generation, resources'[r])
  <2>1. r \in DOMAIN resources /\ resources'[r].generation = resources[r].generation
    BY <1>1 DEF SameGenerations
  <2>2. OfferOf(fixed, r, resources[r].generation, resources[r])
    BY <2>1 DEF RegistryOffers
  <2>. QED BY <1>2, <2>1, <2>2, SameOfferOf
<1>. QED BY <1>3 DEF RegistryOffers

\* Ingested records keep to an offer.
LEMMA IngestOffers ==
  ASSUME NEW fixed, RegistryOffers(fixed), NEW N, NEW R, Ingest(N, R),
         \A r \in DOMAIN R : OfferOf(fixed, r, R[r].generation, R[r])
  PROVE  RegistryOffers(fixed)'
<1>1. resources' = Override(resources, R)
  BY DEF Ingest
<1>2. ASSUME NEW r \in DOMAIN resources'
      PROVE  OfferOf(fixed, r, resources'[r].generation, resources'[r])
  <2>1. CASE r \in DOMAIN R
    <3>1. resources'[r] = R[r]
      BY <1>1, <2>1 DEF Override
    <3>. QED BY <2>1, <3>1
  <2>2. CASE r \notin DOMAIN R
    <3>1. r \in DOMAIN resources /\ resources'[r] = resources[r]
      BY <1>1, <2>2 DEF Override
    <3>. QED BY <3>1 DEF RegistryOffers
  <2>. QED BY <2>1, <2>2
<1>. QED BY <1>2 DEF RegistryOffers

\* Every registered record keeps to an offer that was published for it.
LEMMA RegistryOffersStep ==
  ASSUME NEW fixed, TypeOK, RegistryOffers(fixed), RegistryNext
  PROVE  RegistryOffers(fixed)'
<1>0. ASSUME NEW r, NEW x \in Publishable(r) PROVE OfferOf(fixed, r, x.generation, x)
  BY DEF OfferOf, SameOffer
<1>1. ASSUME NEW n \in NodeId, NEW node \in PublishedNodes[n], RegisterNode(n, node)
      PROVE  RegistryOffers(fixed)'
  BY <1>1, IngestOffers DEF RegisterNode, EmptyMap
<1>2. ASSUME NEW r \in ResourceId, NEW res \in PublishedResources[r], RegisterResource(r, res)
      PROVE  RegistryOffers(fixed)'
  <2> DEFINE R == [x \in {r} |-> res]
  <2>1. \A x \in DOMAIN R : OfferOf(fixed, x, R[x].generation, R[x])
    BY <1>0 DEF Publishable
  <2>2. Ingest(EmptyMap, R)
    BY <1>2 DEF RegisterResource
  <2>. HIDE DEF R
  <2>. QED BY <2>1, <2>2, IngestOffers
<1>3. ASSUME NEW rep \in Reports, Discover(rep)
      PROVE  RegistryOffers(fixed)'
  <2>1. \A x \in DOMAIN rep.resources :
          OfferOf(fixed, x, rep.resources[x].generation, rep.resources[x])
    BY <1>0 DEF Publishable
  <2>. QED BY <1>3, <2>1, IngestOffers DEF Discover
<1>4. CASE LossNext
  BY <1>4, LossOffers
<1>5. CASE \/ \E p \in PolicyId, g \in PolicyGenerations : OnPolicyUpdate(p, g)
           \/ \E l \in DOMAIN PublishedPaths :
                \E pe \in PublishedPaths[l] : OnPathUpdate(l, pe)
  <2>1. resources' = resources
    BY <1>5 DEF OnPolicyUpdate, OnPathUpdate
  <2>. QED BY <2>1 DEF RegistryOffers
<1>. QED BY <1>1, <1>2, <1>3, <1>4, <1>5 DEF RegistryNext, LossNext

-----------------------------------------------------------------------------
(* Calls.                                                                  *)

\* Relabelling compositions changes nothing of what they are bound to.
LEMMA RelabelsSupply ==
  ASSUME NEW fixed, CompositionsSupply(fixed), Relabels(compositions')
  PROVE  CompositionsSupply(fixed)'
<1>1. ASSUME NEW c \in DOMAIN compositions' PROVE BoundSupplies(fixed, compositions'[c])
  <2>1. /\ c \in DOMAIN compositions
        /\ compositions'[c].members = compositions[c].members
        /\ compositions'[c].request = compositions[c].request
        /\ compositions'[c].authority = compositions[c].authority
    BY DEF Relabels
  <2>2. BoundSupplies(fixed, compositions[c])
    BY <2>1 DEF CompositionsSupply
  <2>. QED BY <2>1, <2>2 DEF BoundSupplies
<1>. QED BY <1>1 DEF CompositionsSupply

\* A granted Reserve stores what its plan is bound to.
LEMMA ReserveSupplies ==
  ASSUME NEW fixed, CompositionsSupply(fixed), PlansSupply(fixed),
         NEW id \in DOMAIN plans, ReserveGranted(id)
  PROVE  CompositionsSupply(fixed)'
<1> DEFINE comp == [members     |-> plans[id].members,
                    request     |-> plans[id].request,
                    authority   |-> plans[id].authority,
                    paths       |-> plans[id].paths,
                    lifecycle   |-> "RESERVED",
                    reservation |-> next_resv]
<1>1. compositions' = Put(compositions, id, comp)
  BY DEF ReserveGranted
<1>2. /\ comp.members = plans[id].members /\ comp.request = plans[id].request
      /\ comp.authority = plans[id].authority
  OBVIOUS
<1>. HIDE DEF comp
<1>3. BoundSupplies(fixed, comp)
  BY <1>2 DEF PlansSupply, BoundSupplies
<1>4. ASSUME NEW c \in DOMAIN compositions' PROVE BoundSupplies(fixed, compositions'[c])
  <2>1. CASE c = id
    <3>1. compositions'[c] = comp
      BY <1>1, <2>1 DEF Put
    <3>. QED BY <1>3, <3>1
  <2>2. CASE c # id
    <3>1. c \in DOMAIN compositions /\ compositions'[c] = compositions[c]
      BY <1>1, <2>2 DEF Put
    <3>. QED BY <3>1 DEF CompositionsSupply
  <2>. QED BY <2>1, <2>2
<1>. QED BY <1>4 DEF CompositionsSupply

\* What every call but Compose does: compositions are relabelled, or one is
\* stored for a known plan, and the plans stay.
LEMMA CallsRelabel ==
  ASSUME TypeInv, EngineCall \/ RecomputeStep
  PROVE  \/ Relabels(compositions') /\ plans' = plans
         \/ (\E id \in DOMAIN plans : ReserveGranted(id)) /\ plans' = plans
         \/ /\ compositions' = compositions
            /\ \E req \in CompositionRequest : \E answers, offered :
                 ComposeBody(req, answers, offered)
<1> DEFINE Kept == \/ Relabels(compositions') /\ plans' = plans
                   \/ (\E id \in DOMAIN plans : ReserveGranted(id)) /\ plans' = plans
           Planned == /\ compositions' = compositions
                      /\ \E req \in CompositionRequest : \E answers, offered :
                           ComposeBody(req, answers, offered)
<1>0. ASSUME compositions' = compositions PROVE Relabels(compositions')
  BY <1>0, SameRelabels DEF TypeInv
<1>1. ASSUME NEW req \in Requests, NEW answers, Compose(req, answers)
      PROVE  Planned
  BY <1>1, InputsAssumption DEF Compose
<1>2. ASSUME NEW id, Reserve(id)
      PROVE  Kept
  BY <1>0, <1>2 DEF Reserve, ReserveRefused, planning
<1>3. ASSUME NEW v, Commit(v)
      PROVE  Kept
  BY <1>3, CommitType DEF Commit, planning
<1>4. ASSUME NEW c, Activate(c)
      PROVE  Kept
  BY <1>4, ActivateType DEF Activate, planning
<1>5. "DRAINING" \in Lifecycle /\ "RELEASED" \in Lifecycle
  BY DEF Lifecycle
<1>6. ASSUME NEW c, BeginDrain(c) \/ EndDrain(c) \/ Release(c)
      PROVE  Kept
  BY <1>5, <1>6, WithLifecycleRelabels DEF TypeInv, BeginDrain, EndDrain, Release, planning
<1>7. ASSUME NEW t \in Callers, NEW c, NEW answers, RecomputeCompose(t, c, answers)
      PROVE  Planned
  <2>1. compositions[c].request \in CompositionRequest
    BY <1>7 DEF RecomputeCompose, TypeInv, TypeOK, Composition
  <2>. QED BY <1>7, <2>1 DEF RecomputeCompose
<1>8. ASSUME NEW t \in Callers, RecomputeRelease(t)
      PROVE  Kept
  BY <1>5, <1>8, WithLifecycleRelabels DEF TypeInv, RecomputeRelease, planning
<1>9. ASSUME NEW t \in Callers, RecomputeReserve(t)
      PROVE  Kept
  <2>1. calls[t].plan \in DOMAIN plans
    BY <1>9 DEF TypeInv, CallsKnown, RecomputeReserve
  <2>. QED BY <1>0, <1>9, <2>1 DEF RecomputeReserve, ReserveRefused, planning
<1>10. ASSUME NEW t \in Callers, RecomputeCommit(t)
       PROVE  Kept
  BY <1>0, <1>10, CommitType DEF RecomputeCommit, planning
<1>11. ASSUME NEW t \in Callers, RecomputeActivate(t)
       PROVE  Kept
  BY <1>0, <1>11, ActivateType DEF RecomputeActivate, planning
<1>. HIDE DEF Kept, Planned
<1>12. CASE EngineCall
  BY <1>1, <1>2, <1>3, <1>4, <1>6, <1>12 DEF EngineCall, Kept, Planned
<1>13. CASE RecomputeStep
  BY <1>7, <1>8, <1>9, <1>10, <1>11, <1>13 DEF RecomputeStep, RecomputeNext, Kept, Planned
<1>. QED BY <1>12, <1>13

\* Compose, whatever the backends answer, preserves the invariant.
LEMMA ComposeRequirement ==
  ASSUME NEW fixed, OffersAgree(fixed), TypeOK, RequirementInv(fixed),
         NEW req \in CompositionRequest, NEW answers, NEW offered,
         ComposeBody(req, answers, offered), UNCHANGED <<resources, compositions>>
  PROVE  RequirementInv(fixed)'
<1>1. PlansSupply(fixed)'
  BY ComposeSupplies DEF RequirementInv
<1>2. RegistryOffers(fixed)' /\ CompositionsSupply(fixed)'
  BY DEF RequirementInv, RegistryOffers, CompositionsSupply
<1>. QED BY <1>1, <1>2 DEF RequirementInv

\* So does a step that changes no resource, and relabels compositions or stores
\* one for a known plan.
LEMMA KeptRequirement ==
  ASSUME NEW fixed, RequirementInv(fixed), UNCHANGED <<resources, plans>>,
         Relabels(compositions') \/ \E id \in DOMAIN plans : ReserveGranted(id)
  PROVE  RequirementInv(fixed)'
<1>1. RegistryOffers(fixed)' /\ PlansSupply(fixed)'
  BY DEF RequirementInv, RegistryOffers, PlansSupply
<1>2. CompositionsSupply(fixed)'
  BY RelabelsSupply, ReserveSupplies DEF RequirementInv
<1>. QED BY <1>1, <1>2 DEF RequirementInv

\* So does an ingestion of records that keep to an offer.
LEMMA IngestRequirement ==
  ASSUME NEW fixed, TypeOK, RequirementInv(fixed), NEW N, NEW R, Ingest(N, R), plans' = plans,
         \A r \in DOMAIN R : OfferOf(fixed, r, R[r].generation, R[r])
  PROVE  RequirementInv(fixed)'
<1>1. RegistryOffers(fixed)'
  BY IngestOffers DEF RequirementInv
<1>2. CompositionsSupply(fixed)'
  BY LapsedRelabels, RelabelsSupply DEF RequirementInv, Ingest
<1>3. PlansSupply(fixed)'
  BY DEF RequirementInv, PlansSupply
<1>. QED BY <1>1, <1>2, <1>3 DEF RequirementInv

\* The registry's actions preserve the invariant.
LEMMA RegistryRequirement ==
  ASSUME NEW fixed, TypeInv, RequirementInv(fixed), RegistryNext
  PROVE  RequirementInv(fixed)'
<1>1. RegistryOffers(fixed)'
  BY RegistryOffersStep DEF TypeInv, RequirementInv
<1>2. CompositionsSupply(fixed)'
  BY RegistryRelabels, RelabelsSupply DEF TypeInv, RequirementInv
<1>3. plans' = plans
  BY DEF RegistryNext, RegisterNode, RegisterResource, Discover, InvalidateNode,
         WithdrawResource, OnResourceFailure, MarkEvidenceRevalidationRequired,
         AdvanceEpoch, OnPolicyUpdate, OnPathUpdate, planning
<1>4. PlansSupply(fixed)'
  BY <1>3 DEF RequirementInv, PlansSupply
<1>. QED BY <1>1, <1>2, <1>4 DEF RequirementInv

\* So do the calls of a client.
LEMMA CallRequirement ==
  ASSUME NEW fixed, OffersAgree(fixed), TypeInv, RequirementInv(fixed),
         EngineCall \/ RecomputeStep
  PROVE  RequirementInv(fixed)'
<1>1. resources' = resources /\ TypeOK
  BY CallsSound DEF TypeInv
<1>2. CASE /\ plans' = plans
           /\ Relabels(compositions') \/ \E id \in DOMAIN plans : ReserveGranted(id)
  BY <1>1, <1>2, KeptRequirement
<1>3. ASSUME compositions' = compositions, NEW req \in CompositionRequest, NEW answers,
             NEW offered, ComposeBody(req, answers, offered)
      PROVE  RequirementInv(fixed)'
  BY <1>1, <1>3, ComposeRequirement
<1>. QED BY <1>2, <1>3, CallsRelabel

\* A composition that is bound to the current generations of its members is
\* supplied by the records of those generations.
LEMMA BoundRequirement ==
  ASSUME NEW fixed, RequirementInv(fixed), AuthorityCurrent
  PROVE  CheckedRequirements
<1>1. ASSUME NEW c \in DOMAIN compositions, compositions[c].lifecycle = "ACTIVE"
      PROVE  Supplies(compositions[c].request, compositions[c].members, resources)
  <2>1. \A r \in compositions[c].members :
          OfferOf(fixed, r, compositions[c].authority.resource_generations[r], resources[r])
    BY <1>1 DEF AuthorityCurrent, RequirementInv, RegistryOffers
  <2>. QED BY <1>1, <2>1 DEF RequirementInv, CompositionsSupply, BoundSupplies
<1>. QED BY <1>1 DEF CheckedRequirements

\* No plan and no composition is there at the start.
LEMMA RequirementStart == ASSUME NEW fixed, Init PROVE RequirementInv(fixed)
BY DEF Init, RequirementInv, RegistryOffers, PlansSupply, CompositionsSupply, EmptyMap

\* What ComposeDeterministic checked of the members of an ACTIVE composition
\* (amounts, counts, architecture, coherence and placement; not accelerator memory,
\* and not the paths) holds in the registry as it is now, provided publishers give a
\* resource a new generation when its offer changes: RevalidationHolds and
\* IngestResourceLocked keep it by comparing generations.
THEOREM RequirementsHold == OffersFollowGenerations => (Spec => []CheckedRequirements)
<1>. SUFFICES ASSUME OffersFollowGenerations PROVE Spec => []CheckedRequirements
  OBVIOUS
<1>0. OffersAgree(EmptyMap)
  BY DEF OffersAgree, EmptyMap
<1>1. Init => RequirementInv(EmptyMap)
  BY RequirementStart
<1>2. TypeInv /\ RequirementInv(EmptyMap) /\ [Next]_vars => RequirementInv(EmptyMap)'
  <2>1. CASE UNCHANGED vars
    BY <2>1 DEF vars, registry, planning, RequirementInv, RegistryOffers, PlansSupply,
                CompositionsSupply
  <2>. QED BY <1>0, <2>1, NextSplit, RegistryRequirement, CallRequirement
<1>3. RequirementInv(EmptyMap) /\ AuthorityCurrent => CheckedRequirements
  BY BoundRequirement
<1>. QED BY <1>1, <1>2, <1>3, TypeInit, TypeStep, AuthorityBinding, PTL DEF Spec

-----------------------------------------------------------------------------
(* The synthetic backend.                                                  *)

SynPath == [available : BOOLEAN, bandwidth : Nat, latency : Nat, generation : Nat]

BackendTyped ==
  /\ IsMap(syn_nodes, NodeId, Node)
  /\ IsMap(syn_resources, ResourceId, Resource)
  /\ IsMap(syn_paths, Link, SynPath)

\* The setters change the state and the generation of a resource, never its offer.
BackendOffers ==
  \A r \in DOMAIN syn_resources :
    r \in DOMAIN BuiltOffers /\ SameOffer(BuiltOffers[r], syn_resources[r])

\* MakeBase makes a record of a resource.
LEMMA MakeBaseType ==
  ASSUME NEW r \in DOMAIN BuiltResources
  PROVE  r \in ResourceId /\ MakeBase(BuiltResources[r]) \in Resource
<1> DEFINE d == BuiltResources[r]
<1>1. /\ r \in ResourceId
      /\ d \in [class : ResourceClass, node : NodeId, capacity : Nat,
                accelerator_memory : Nat, coherent : BOOLEAN,
                architecture : Architecture \cup {"none"}]
  BY BackendAssumption DEF IsMap
<1>. HIDE DEF d
<1>2. HostName[d.node] \in DomainName
  BY <1>1, BackendAssumption
<1>3. MakeBase(d) \in Resource
  BY <1>1, <1>2 DEF MakeBase, Resource, Evidence, EvidenceState, ResourceHealth, Readiness,
                    Reachability, CapabilityState
<1>. QED BY <1>1, <1>3 DEF d

\* What the constructor makes is well typed.
LEMMA BackendStart ==
  ASSUME BackendInit
  PROVE  BackendTyped /\ BackendOffers
<1>1. IsMap(syn_nodes, NodeId, Node)
  BY BackendAssumption DEF BackendInit, IsMap, Node
<1>2. IsMap(syn_resources, ResourceId, Resource) /\ BackendOffers
  <2>1. syn_resources = [r \in DOMAIN BuiltResources |-> MakeBase(BuiltResources[r])]
    BY DEF BackendInit
  <2>. QED BY <2>1, MakeBaseType DEF IsMap, BackendOffers, BuiltOffers, SameOffer
<1>3. IsMap(syn_paths, Link, SynPath)
  <2> DEFINE back == {<<p[2], p[1]>> : p \in DOMAIN BuiltPaths}
             source(l) == IF l \in DOMAIN BuiltPaths THEN l ELSE <<l[2], l[1]>>
             made(l) == [available |-> TRUE, bandwidth |-> BuiltPaths[source(l)].bandwidth,
                         latency |-> BuiltPaths[source(l)].latency, generation |-> 1]
  <2>1. syn_paths = [l \in DOMAIN BuiltPaths \cup back |-> made(l)]
    BY DEF BackendInit
  <2>2. /\ DOMAIN BuiltPaths \subseteq NodeId \X NodeId
        /\ \A p \in DOMAIN BuiltPaths : BuiltPaths[p] \in [bandwidth : Nat, latency : Nat]
    BY BackendAssumption DEF IsMap, Link
  <2>3. ASSUME NEW l \in DOMAIN BuiltPaths \cup back
        PROVE  l \in Link /\ source(l) \in DOMAIN BuiltPaths
    <3>1. CASE l \in DOMAIN BuiltPaths
      BY <2>2, <3>1 DEF Link
    <3>2. CASE l \notin DOMAIN BuiltPaths
      <4>1. PICK p \in DOMAIN BuiltPaths : l = <<p[2], p[1]>>
        BY <3>2
      <4>2. p \in NodeId \X NodeId
        BY <2>2
      <4>3. p = <<p[1], p[2]>> /\ p[1] \in NodeId /\ p[2] \in NodeId
        BY <4>2
      <4>4. <<l[2], l[1]>> = p /\ l \in NodeId \X NodeId
        BY <4>1, <4>3
      <4>. QED BY <3>2, <4>4 DEF Link
    <3>. QED BY <3>1, <3>2
  <2>. HIDE DEF source, back
  <2>4. ASSUME NEW l \in DOMAIN BuiltPaths \cup back PROVE made(l) \in SynPath
    BY <2>2, <2>3 DEF SynPath
  <2>. HIDE DEF made
  <2>. QED BY <2>1, <2>3, <2>4 DEF IsMap
<1>. QED BY <1>1, <1>2, <1>3 DEF BackendTyped

\* The records the setters leave of a resource.
WithHealth(res, h) ==
  [res EXCEPT !.health = h, !.evidence.state = FreshIf(h = "HEALTHY")]
WithReachability(res, rc) ==
  [res EXCEPT !.reachability = rc, !.evidence.state = FreshIf(rc = "REACHABLE")]
WithGeneration(res, g) == [res EXCEPT !.generation = g, !.evidence.state = "FRESH"]
MadeUnavailable(res) ==
  [res EXCEPT !.health = "OFFLINE", !.reachability = "UNREACHABLE", !.readiness = "NOT_READY",
              !.evidence.state = "REVALIDATION_REQUIRED", !.evidence.durable = FALSE]
BroughtBack(res) ==
  [res EXCEPT !.health = "HEALTHY", !.reachability = "REACHABLE", !.readiness = "READY",
              !.evidence = [@ EXCEPT !.state = "FRESH", !.accepted = TRUE, !.durable = TRUE]]
Unreached(res) ==
  [res EXCEPT !.health = "OFFLINE", !.reachability = "UNREACHABLE",
              !.evidence.state = "REVALIDATION_REQUIRED"]
Reincarnated(res, g, boot) ==
  [res EXCEPT !.generation = g, !.health = "HEALTHY", !.reachability = "REACHABLE",
              !.readiness = "READY",
              !.evidence = [state |-> "FRESH", accepted |-> TRUE, owner |-> boot,
                            durable |-> FALSE]]

SetTo(old, new) == new \in Resource /\ SameOffer(old, new)

\* Every setter leaves a record of the resource, with the offer it had.
LEMMA SetterType ==
  ASSUME NEW res \in Resource
  PROVE  /\ \A h \in ResourceHealth : SetTo(res, WithHealth(res, h))
         /\ \A rc \in Reachability : SetTo(res, WithReachability(res, rc))
         /\ \A g \in Nat : SetTo(res, WithGeneration(res, g))
         /\ SetTo(res, MadeUnavailable(res)) /\ SetTo(res, BroughtBack(res))
         /\ SetTo(res, Unreached(res))
         /\ \A g \in Nat, boot \in WorkerBootId : SetTo(res, Reincarnated(res, g, boot))
<1>1. res.evidence \in Evidence
  BY DEF Resource
<1>2. /\ \A good \in BOOLEAN : FreshIf(good) \in EvidenceState
      /\ "FRESH" \in EvidenceState /\ "REVALIDATION_REQUIRED" \in EvidenceState
      /\ "OFFLINE" \in ResourceHealth /\ "HEALTHY" \in ResourceHealth
      /\ "UNREACHABLE" \in Reachability /\ "REACHABLE" \in Reachability
      /\ "READY" \in Readiness /\ "NOT_READY" \in Readiness
  BY DEF FreshIf, EvidenceState, ResourceHealth, Reachability, Readiness
<1>3. ASSUME NEW h \in ResourceHealth PROVE SetTo(res, WithHealth(res, h))
  <2>1. FreshIf(h = "HEALTHY") \in EvidenceState
    BY <1>2
  <2>. QED BY <1>1, <2>1 DEF Resource, Evidence, SetTo, SameOffer, WithHealth
<1>4. ASSUME NEW rc \in Reachability PROVE SetTo(res, WithReachability(res, rc))
  <2>1. FreshIf(rc = "REACHABLE") \in EvidenceState
    BY <1>2
  <2>. QED BY <1>1, <2>1 DEF Resource, Evidence, SetTo, SameOffer, WithReachability
<1>5. ASSUME NEW g \in Nat PROVE SetTo(res, WithGeneration(res, g))
  BY <1>1, <1>2 DEF Resource, Evidence, SetTo, SameOffer, WithGeneration
<1>6. SetTo(res, MadeUnavailable(res))
  BY <1>1, <1>2 DEF Resource, Evidence, SetTo, SameOffer, MadeUnavailable
<1>7. SetTo(res, BroughtBack(res)) /\ SetTo(res, Unreached(res))
  BY <1>1, <1>2 DEF Resource, Evidence, SetTo, SameOffer, BroughtBack, Unreached
<1>8. ASSUME NEW g \in Nat, NEW boot \in WorkerBootId PROVE SetTo(res, Reincarnated(res, g, boot))
  BY <1>1, <1>2 DEF Resource, Evidence, SetTo, SameOffer, Reincarnated
<1>. QED BY <1>3, <1>4, <1>5, <1>6, <1>7, <1>8

\* A setter of one resource keeps the backend's records in order.
LEMMA SetResourceStep ==
  ASSUME BackendTyped, BackendOffers, NEW r, NEW new,
         r \in DOMAIN syn_resources => SetTo(syn_resources[r], new), SetResource(r, new)
  PROVE  BackendTyped' /\ BackendOffers'
<1>1. /\ r \in DOMAIN syn_resources /\ syn_resources' = [syn_resources EXCEPT ![r] = new]
      /\ UNCHANGED <<syn_nodes, syn_paths>>
  BY DEF SetResource
<1>2. IsMap(syn_resources', ResourceId, Resource)
  BY <1>1 DEF BackendTyped, IsMap, SetTo
<1>3. BackendOffers'
  BY <1>1 DEF BackendOffers, SetTo, SameOffer
<1>. QED BY <1>1, <1>2, <1>3 DEF BackendTyped

\* So does a step that sets the resources of a node.
LEMMA SetNodeStep ==
  ASSUME BackendTyped, BackendOffers, DOMAIN syn_resources' = DOMAIN syn_resources,
         syn_resources' = [r \in DOMAIN syn_resources |-> syn_resources'[r]],
         \A r \in DOMAIN syn_resources :
           syn_resources'[r] = syn_resources[r] \/ SetTo(syn_resources[r], syn_resources'[r]),
         IsMap(syn_nodes', NodeId, Node), UNCHANGED syn_paths
  PROVE  BackendTyped' /\ BackendOffers'
<1>1. \A r \in DOMAIN syn_resources : syn_resources'[r] \in Resource
  BY DEF BackendTyped, IsMap, SetTo
<1>2. IsMap(syn_resources', ResourceId, Resource)
  BY <1>1 DEF BackendTyped, IsMap
<1>3. BackendOffers'
  BY DEF BackendOffers, SetTo, SameOffer
<1>. QED BY <1>2, <1>3 DEF BackendTyped

\* A setter of a path keeps it a path.
LEMMA SetPathStep ==
  ASSUME BackendTyped, BackendOffers, NEW l, NEW path,
         l \in DOMAIN syn_paths => path \in SynPath, SetPath(l, path)
  PROVE  BackendTyped' /\ BackendOffers'
<1>1. /\ l \in DOMAIN syn_paths /\ UNCHANGED <<syn_nodes, syn_resources>>
      /\ syn_paths' = [syn_paths EXCEPT ![l] = [path EXCEPT !.generation = path.generation + 1]]
  BY DEF SetPath
<1>2. [path EXCEPT !.generation = path.generation + 1] \in SynPath
  BY <1>1 DEF SynPath
<1>3. IsMap(syn_paths', Link, SynPath)
  BY <1>1, <1>2 DEF BackendTyped, IsMap
<1>. QED BY <1>1, <1>3 DEF BackendTyped, BackendOffers

\* Every change of the backend keeps its records in order.
LEMMA BackendStep ==
  ASSUME BackendTyped, BackendOffers, BackendNext
  PROVE  BackendTyped' /\ BackendOffers'
<1>0. /\ \A r \in DOMAIN syn_resources : syn_resources[r] \in Resource
      /\ \A l \in DOMAIN syn_paths : syn_paths[l] \in SynPath
      /\ Generations \subseteq Nat /\ Bandwidths \subseteq Nat /\ Latencies \subseteq Nat
  BY BackendAssumption DEF BackendTyped, IsMap
<1>1. ASSUME NEW r \in Fickle, NEW h \in ResourceHealth, SetResourceHealth(r, h)
      PROVE  BackendTyped' /\ BackendOffers'
  <2>1. SetResource(r, WithHealth(syn_resources[r], h))
    BY <1>1 DEF SetResourceHealth, WithHealth
  <2>. QED BY <1>0, <2>1, SetterType, SetResourceStep
<1>2. ASSUME NEW r \in Fickle, NEW rc \in Reachability, SetResourceReachability(r, rc)
      PROVE  BackendTyped' /\ BackendOffers'
  <2>1. SetResource(r, WithReachability(syn_resources[r], rc))
    BY <1>2 DEF SetResourceReachability, WithReachability
  <2>. QED BY <1>0, <2>1, SetterType, SetResourceStep
<1>3. ASSUME NEW r \in Fickle, NEW g \in Generations, SetResourceGeneration(r, g)
      PROVE  BackendTyped' /\ BackendOffers'
  <2>1. SetResource(r, WithGeneration(syn_resources[r], g)) /\ g \in Nat
    BY <1>0, <1>3 DEF SetResourceGeneration, WithGeneration
  <2>. QED BY <1>0, <2>1, SetterType, SetResourceStep
<1>4. ASSUME NEW r \in Fickle, SetResourceUnavailable(r) \/ SetResourceBack(r)
      PROVE  BackendTyped' /\ BackendOffers'
  <2>1. \/ SetResource(r, MadeUnavailable(syn_resources[r]))
        \/ SetResource(r, BroughtBack(syn_resources[r]))
    BY <1>4 DEF SetResourceUnavailable, MadeUnavailable, SetResourceBack, BroughtBack
  <2>. QED BY <1>0, <2>1, SetterType, SetResourceStep
<1>5. ASSUME NEW l \in FickleLinks, NEW path, SetPath(l, path),
             \/ \E available \in BOOLEAN : path = [syn_paths[l] EXCEPT !.available = available]
             \/ \E mbps \in Bandwidths : path = [syn_paths[l] EXCEPT !.bandwidth = mbps]
             \/ \E us \in Latencies : path = [syn_paths[l] EXCEPT !.latency = us]
      PROVE  BackendTyped' /\ BackendOffers'
  <2>1. l \in DOMAIN syn_paths => path \in SynPath
    BY <1>0, <1>5 DEF SynPath
  <2>. QED BY <1>5, <2>1, SetPathStep
<1>6. ASSUME NEW n \in MovedNodes, RemoveNode(n)
      PROVE  BackendTyped' /\ BackendOffers'
  <2>1. syn_resources' = [r \in DOMAIN syn_resources |->
                            IF syn_resources[r].node # n THEN syn_resources[r]
                            ELSE Unreached(syn_resources[r])]
    BY <1>6 DEF RemoveNode, Unreached
  <2>2. IsMap(syn_nodes', NodeId, Node) /\ UNCHANGED syn_paths
    BY <1>6 DEF RemoveNode, BackendTyped, IsMap
  <2>. QED BY <1>0, <2>1, <2>2, SetterType, SetNodeStep
<1>7. ASSUME NEW n \in MovedNodes, NEW g \in Generations, NEW boot \in WorkerBootId,
             ReincarnateNode(n, g, boot)
      PROVE  BackendTyped' /\ BackendOffers'
  <2>1. syn_resources' = [r \in DOMAIN syn_resources |->
                            IF syn_resources[r].node # n THEN syn_resources[r]
                            ELSE Reincarnated(syn_resources[r], g, boot)]
    BY <1>7 DEF ReincarnateNode, Reincarnated
  <2>2. IsMap(syn_nodes', NodeId, Node) /\ UNCHANGED syn_paths /\ g \in Nat
    BY <1>0, <1>7 DEF ReincarnateNode, BackendTyped, IsMap, Node
  <2>. QED BY <1>0, <2>1, <2>2, SetterType, SetNodeStep
<1>. QED
  BY <1>1, <1>2, <1>3, <1>4, <1>5, <1>6, <1>7
     DEF BackendNext, SetPathAvailable, SetPathBandwidth, SetPathLatency

\* What the backend reports is well typed, and keeps to what it was built with.
LEMMA ReportedType ==
  ASSUME BackendTyped
  PROVE  /\ IsMap(ResolvePath, Link, PathEvidence)
         /\ Reported.nodes = syn_nodes /\ Reported.resources = syn_resources
         /\ Reported.paths = ResolvePath
<1>1. ASSUME NEW l \in DOMAIN syn_paths PROVE l \in Link /\ Resolved(syn_paths[l]) \in PathEvidence
  BY DEF BackendTyped, IsMap, SynPath, Resolved, PathEvidence
<1>2. IsMap(ResolvePath, Link, PathEvidence)
  BY <1>1 DEF ResolvePath, IsMap
<1>. QED BY <1>2 DEF Reported

-----------------------------------------------------------------------------
(* The engine on its planner and its backend.                              *)

\* ComposeDeterministic plans what Compose allows.
LEMMA RankedAllowed ==
  ASSUME TypeOK, NEW req \in Requests, RankedCompose(req)
  PROVE  Compose(req, ResolvePath)
<1> DEFINE answers == ResolvePath
           best == Best(req, resources, paths, answers)
<1>1. /\ req \in CompositionRequest /\ IsMap(resources, ResourceId, Resource)
      /\ IsRecordMap(paths)
  BY InputsAssumption DEF TypeOK, IsMap, IsRecordMap
<1>2. /\ next_comp <= MaxCompositions /\ best.found /\ paths' = best.paths
      /\ plans' = Put(plans, next_comp, PlanFor(req, best.members, best.paths, TRUE))
      /\ next_comp' = next_comp + 1
      /\ UNCHANGED <<epoch, nodes, resources, policies, compositions, ledger, draining,
                     fenced, calls>>
  BY DEF RankedCompose
<1>. HIDE DEF answers
<1>3. PICK E \in SUBSET Answered(resources, answers) :
        /\ best.members \in Candidates(req, resources, Seen(paths, answers, E))
        /\ best.paths = Override(Seen(paths, answers, E),
                          Restrict(answers, DOMAIN answers \cap LinksOf(best.members, resources)))
  BY <1>1, <1>2, BestSound
<1>. HIDE DEF best
<1>4. ComposeBody(req, answers, TRUE)
  BY <1>2, <1>3 DEF ComposeBody, Answered, Seen
<1>. QED BY <1>2, <1>4 DEF Compose, answers

\* A step of the engine is one of FabricEngine's, a discovery of the backend, or a
\* Compose that it answers.
LEMMA EngineSteps ==
  ASSUME TypeOK, EngineNext
  PROVE  \/ RegistryNext \/ EngineCall \/ Discover(Reported)
         \/ \E req \in Requests : Compose(req, ResolvePath)
BY RankedAllowed DEF EngineNext, EngineCall

PlannedInv ==
  /\ TypeInv /\ LedgerInv /\ FencedNeverActive /\ AuthorityCurrent
  /\ BackendTyped /\ BackendOffers

\* The engine and the backend start in order.
LEMMA PlannedStart == PlannedInit => PlannedInv
<1>. SUFFICES ASSUME PlannedInit PROVE PlannedInv
  OBVIOUS
<1>1. Init /\ BackendInit
  BY DEF PlannedInit
<1>2. LedgerInv /\ FencedNeverActive /\ AuthorityCurrent
  BY <1>1 DEF Init, LedgerInv, IdsInOrder, NoLeakedHold, EmptyMap, FencedNeverActive,
              AuthorityCurrent
<1>. QED BY <1>1, <1>2, TypeInit, BackendStart DEF PlannedInv

\* A discovery of the backend keeps the engine in order.
LEMMA DiscoverStep ==
  ASSUME PlannedInv, Discover(Reported)
  PROVE  TypeInv' /\ LedgerInv' /\ FencedNeverActive' /\ AuthorityCurrent'
<1>1. TypeInv'
  BY ReportedType, DiscoverType DEF PlannedInv, BackendTyped
<1>2. LedgerInv'
  BY SameLedger DEF PlannedInv, Discover
<1>3. AuthorityCurrent'
  BY IngestCurrent DEF PlannedInv, Discover
<1>4. SoundActivation
  <2>1. PICK hit : compositions' = Lapsed(hit, {"COMMITTED", "RESERVED"})
    BY DEF Discover, Ingest
  <2>2. Relabels(compositions') /\ Demotes
    BY <2>1, LapsedRelabels DEF PlannedInv, TypeInv, Demotes
  <2>. QED BY <2>2, RelabelSound DEF PlannedInv, Discover
<1>5. FencedNeverActive'
  BY <1>4 DEF PlannedInv, SoundActivation, FencedNeverActive
<1>. QED BY <1>1, <1>2, <1>3, <1>5

\* Every step keeps the engine and the backend in order.
LEMMA PlannedStep == PlannedInv /\ [PlannedNext]_pvars => PlannedInv'
<1>. SUFFICES ASSUME PlannedInv, [PlannedNext]_pvars PROVE PlannedInv'
  OBVIOUS
<1> DEFINE Engine == TypeInv /\ LedgerInv /\ FencedNeverActive /\ AuthorityCurrent
<1>0. Engine /\ TypeOK /\ BackendTyped /\ BackendOffers
  BY DEF PlannedInv, TypeInv
<1>1. ASSUME [Next]_vars PROVE Engine'
  BY <1>0, <1>1, TypeStep, LedgerStep, FenceStep, AuthorityStep
<1>2. ASSUME NEW req \in Requests, Compose(req, ResolvePath) PROVE Engine'
  <2>1. TypeInv'
    BY <1>0, <1>2, ReportedType, PlannedType
  <2>2. LedgerInv'
    BY <1>0, <1>2, SameLedger DEF Compose
  <2>3. FencedNeverActive' /\ AuthorityCurrent'
    BY <1>0, <1>2 DEF Compose, FencedNeverActive, AuthorityCurrent
  <2>. QED BY <2>1, <2>2, <2>3
<1>3. CASE EngineNext /\ UNCHANGED syn
  <2>1. RegistryNext \/ EngineCall => Engine'
    BY <1>1, NextSplit
  <2>2. Engine'
    BY <1>0, <1>2, <1>3, <2>1, EngineSteps, DiscoverStep
  <2>3. BackendTyped' /\ BackendOffers'
    BY <1>0, <1>3 DEF syn, BackendTyped, BackendOffers
  <2>. QED BY <2>2, <2>3 DEF PlannedInv
<1>4. CASE BackendNext /\ UNCHANGED vars
  BY <1>0, <1>1, <1>4, BackendStep DEF PlannedInv
<1>5. CASE UNCHANGED pvars
  <2>1. Engine'
    BY <1>1, <1>5 DEF pvars
  <2>2. BackendTyped' /\ BackendOffers'
    BY <1>0, <1>5 DEF pvars, syn, BackendTyped, BackendOffers
  <2>. QED BY <2>1, <2>2 DEF PlannedInv
<1>. QED BY <1>3, <1>4, <1>5 DEF PlannedNext

-----------------------------------------------------------------------------
(* Theorems.                                                               *)

\* The engine's state stays well typed, and so do the backend's records.
THEOREM PlannedTypes == PlannedSpec => [](TypeOK /\ BackendTyped)
<1>1. PlannedInv => TypeOK /\ BackendTyped
  BY DEF PlannedInv, TypeInv
<1>. QED BY <1>1, PlannedStart, PlannedStep, PTL DEF PlannedSpec

\* What is proved of FabricEngine about single states holds with the planner and
\* the backend in the place of its choices: an ACTIVE composition is bound to the
\* current epoch and generations, a fenced one is never ACTIVE, and every amount in
\* the ledger belongs to a live reservation.
THEOREM PlannedSafety ==
  PlannedSpec => [](AuthorityCurrent /\ FencedNeverActive /\ NoLeakedHold)
<1>1. PlannedInv => AuthorityCurrent /\ FencedNeverActive /\ NoLeakedHold
  BY DEF PlannedInv, LedgerInv
<1>. QED BY <1>1, PlannedStart, PlannedStep, PTL DEF PlannedSpec

\* ComposeDeterministic, in every state of the registry: the ordered enumeration of
\* selections, their product class by class, the running best and the refreshed
\* paths lose none of the sets made of one selection per demanded class (a single
\* resource or a pair for an amount, the exact number for a count), unless a cap
\* was reached. Of larger sets for an amount it says nothing: none is tried.
THEOREM ExactPlanner == PlannedSpec => []PlannerExact
<1>1. ASSUME PlannedInv PROVE PlannerExact
  <2>1. /\ Requests \subseteq CompositionRequest /\ IsMap(resources, ResourceId, Resource)
        /\ IsRecordMap(paths)
    BY <1>1, InputsAssumption DEF PlannedInv, TypeInv, TypeOK, IsMap, IsRecordMap
  <2>. QED BY <2>1, PlannerFindsTheBest DEF PlannerExact
<1>. QED BY <1>1, PlannedStart, PlannedStep, PTL DEF PlannedSpec

\* Whatever ComposeDeterministic returns is a plan that Compose allows.
THEOREM AllowedPlans == PlannedSpec => PlansAllowed
<1>1. ASSUME PlannedInv, [PlannedNext]_pvars
      PROVE  [next_comp' # next_comp => \E req \in Requests : Compose(req, ResolvePath)]_pvars
  <2>. SUFFICES ASSUME PlannedNext, next_comp' # next_comp
                PROVE  \E req \in Requests : Compose(req, ResolvePath)
    BY <1>1
  <2>1. EngineNext
    BY DEF PlannedNext, vars, planning
  <2>2. ~ RegistryNext
    BY DEF RegistryNext, RegisterNode, RegisterResource, Discover, InvalidateNode,
           WithdrawResource, OnResourceFailure, MarkEvidenceRevalidationRequired,
           AdvanceEpoch, OnPolicyUpdate, OnPathUpdate, planning
  <2>3. \E req \in Requests : RankedCompose(req)
    BY <2>1, <2>2 DEF EngineNext, Discover, Reserve, Commit, Activate, Release, planning
  <2>. QED BY <1>1, <2>3, RankedAllowed DEF PlannedInv, TypeInv
<1>. QED BY <1>1, PlannedStart, PlannedStep, PTL DEF PlannedSpec, PlansAllowed

\* What the planner checked of the members of an ACTIVE composition (amounts,
\* counts, architecture, coherence and placement) holds in the registry as it is
\* now, whatever the backend changes and whenever the engine hears of it, provided
\* the other publishers keep to the offers of the built resources and follow
\* generations themselves.
THEOREM PlannedRequirements == OffersAgree(BuiltOffers) => (PlannedSpec => []CheckedRequirements)
<1>. SUFFICES ASSUME OffersAgree(BuiltOffers) PROVE PlannedSpec => []CheckedRequirements
  OBVIOUS
<1> DEFINE Req == RequirementInv(BuiltOffers)
<1>1. PlannedInit => Req
  BY RequirementStart DEF PlannedInit
<1>2. ASSUME PlannedInv, Req, [PlannedNext]_pvars PROVE Req'
  <2>0. TypeInv /\ TypeOK /\ BackendTyped /\ BackendOffers
    BY <1>2 DEF PlannedInv, TypeInv
  <2>1. CASE UNCHANGED vars
    BY <1>2, <2>1 DEF vars, registry, planning, RequirementInv, RegistryOffers, PlansSupply,
                      CompositionsSupply
  <2>2. CASE Discover(Reported)
    <3>1. \A r \in DOMAIN syn_resources :
            OfferOf(BuiltOffers, r, syn_resources[r].generation, syn_resources[r])
      BY <2>0 DEF BackendOffers, OfferOf
    <3>2. Ingest(syn_nodes, syn_resources) /\ plans' = plans
      BY <2>0, <2>2, ReportedType DEF Discover, planning
    <3>. QED BY <1>2, <2>0, <3>1, <3>2, IngestRequirement
  <2>3. ASSUME NEW req \in Requests, Compose(req, ResolvePath) PROVE Req'
    <3>1. /\ req \in CompositionRequest /\ ComposeBody(req, ResolvePath, TRUE)
          /\ UNCHANGED <<resources, compositions>>
      BY <2>3, InputsAssumption DEF Compose
    <3>. QED BY <1>2, <2>0, <3>1, ComposeRequirement
  <2>4. CASE EngineNext
    BY <1>2, <2>0, <2>2, <2>3, <2>4, EngineSteps, RegistryRequirement, CallRequirement
  <2>. QED BY <1>2, <2>1, <2>4 DEF PlannedNext, pvars
<1>3. PlannedInv /\ Req => CheckedRequirements
  BY BoundRequirement DEF PlannedInv
<1>. QED BY <1>1, <1>2, <1>3, PlannedStart, PlannedStep, PTL DEF PlannedSpec
============================================================================
