--------------------------- MODULE PlannedFabric ---------------------------
(***************************************************************************)
(* The engine with its own planner and a synthetic backend: the world      *)
(* changes, the engine hears of it when it discovers, and what it composes *)
(* in between rests on what it last heard.                                 *)
(***************************************************************************)
EXTENDS FabricEngine, Planner, SyntheticBackend

pvars == <<vars, syn>>

PlannedInit == Init /\ BackendInit

\* Mutant: the plan is bound to the paths as they were before the search.
RankedComposeUnrefreshed(req) ==
  LET best == Best(req, resources, paths, ResolvePath)
  IN /\ next_comp <= MaxCompositions
     /\ best.found
     /\ paths' = best.paths
     /\ plans' = Put(plans, next_comp, PlanFor(req, best.members, paths, TRUE))
     /\ next_comp' = next_comp + 1
     /\ UNCHANGED <<epoch, nodes, resources, policies, compositions, ledger, draining,
                    fenced, calls>>

\* ComposeDeterministic; a rejected request changes nothing.
RankedCompose(req) ==
  LET best == Best(req, resources, paths, ResolvePath)
  IN /\ next_comp <= MaxCompositions
     /\ best.found
     /\ paths' = best.paths
     /\ plans' = Put(plans, next_comp, PlanFor(req, best.members, best.paths, TRUE))
     /\ next_comp' = next_comp + 1
     /\ UNCHANGED <<epoch, nodes, resources, policies, compositions, ledger, draining,
                    fenced, calls>>

\* The engine's operations, with the planner for Compose. BeginDrain, EndDrain and
\* Recompute, whose own Compose is the same function, are left to FabricEngine.
EngineNext ==
  \/ RegistryNext
  \/ Discover(Reported)
  \/ \E req \in Requests : RankedCompose(req)
  \/ \E id \in CompositionId : Reserve(id)
  \/ \E v \in ReservationId : Commit(v)
  \/ \E c \in CompositionId : Activate(c) \/ Release(c)

PlannedNext ==
  \/ EngineNext /\ UNCHANGED syn
  \/ BackendNext /\ UNCHANGED vars

PlannedSpec == PlannedInit /\ [][PlannedNext]_pvars

-----------------------------------------------------------------------------
(* Properties.                                                             *)

\* Whatever the planner returns is one of the sets the engine's specification
\* allows: feasible for the request under the paths known before the search or
\* refreshed during it, with its links resolved. So all that is checked and
\* proved of FabricEngine, where Compose may pick any of them, holds for the code.
PlansAllowed ==
  [][next_comp' # next_comp => \E req \in Requests : Compose(req, ResolvePath)]_pvars

\* In every state the registry can get into, ComposeDeterministic rejects a
\* request only if no set of one selection per demanded class (a single resource
\* or a pair for an amount, the exact number for a count) is feasible, and returns
\* one of the highest rank among them if the paths the engine knows are the
\* backend's, unless one of the caps of the search was reached.
PlannerExact == \A req \in Requests : FindsTheBest(req, resources, paths, ResolvePath)

\* What publishers owe the engine when some resources offer what "fixed" has under
\* every generation: they keep to that, and else follow generations.
OffersAgree(fixed) ==
  /\ OffersFollowGenerations
  /\ \A r \in DOMAIN fixed : \A x \in Publishable(r) : SameOffer(x, fixed[r])

\* What the backend was built with: its setters change state and generations alone.
BuiltOffers == [r \in DOMAIN BuiltResources |-> MakeBase(BuiltResources[r])]
=============================================================================
