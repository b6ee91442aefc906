--------------------------- MODULE CarefulProofs ---------------------------
(***************************************************************************)
(* Proofs about CarefulCallers, for every registry of resources that have  *)
(* something to hold, every number of Recompute callers and every bound:   *)
(* holds are exclusive, what is committed is backed by its holds, and the  *)
(* ledger implements ExclusiveOwnership.                                   *)
(***************************************************************************)
EXTENDS CarefulCallers, FabricEngineProofs, FiniteSetTheorems

\* The lifecycles that rest on a committed reservation.
Settled == {"COMMITTED", "ACTIVE", "DRAINING"}

\* Everything registered has something to hold.
RegisteredPositive ==
  \A r \in DOMAIN resources : HoldAmountForResource(resources[r]) > 0

\* Plans have ids below the next one and members, and a composition has the
\* members of the plan it is stored under.
PlansKnown ==
  /\ \A id \in DOMAIN plans : id < next_comp /\ plans[id].members # {}
  /\ \A c \in DOMAIN compositions :
       c \in DOMAIN plans /\ compositions[c].members = plans[c].members

\* The ledger has, of every resource that a live reservation names, just what
\* that reservation holds, and that is something.
HoldsExact ==
  \A v \in LiveReservations : \A r \in DOMAIN reservations[v].items :
    reserved_amount[r] = reservations[v].items[r] /\ reserved_amount[r] > 0

\* A composition's reservation was made for it and for its members, and is
\* committed if the composition is settled.
OwnReservation(c) ==
  LET v == compositions[c].reservation
  IN /\ v \in DOMAIN reservations
     /\ reservations[v].composition = c
     /\ DOMAIN reservations[v].items = compositions[c].members
     /\ compositions[c].lifecycle \in Settled => reservations[v].state = "COMMITTED"

\* Every composition has its own reservation, a live reservation is its
\* composition's, and reservation ids are below the next one.
Paired ==
  /\ \A c \in DOMAIN compositions : OwnReservation(c)
  /\ \A v \in LiveReservations :
       /\ reservations[v].composition \in DOMAIN compositions
       /\ compositions[reservations[v].composition].reservation = v
  /\ IdsInOrder

\* A composition that a Recompute call is about to release is backed, is not the
\* one another call releases, and is not the plan of any call; the reservation
\* that a call is about to commit was made for the call's plan.
CallsCareful ==
  \A t \in Callers :
    /\ calls[t].step = "release" =>
         /\ Backed(calls[t].old)
         /\ \A u \in Callers :
              /\ calls[u].step # "idle" => calls[u].plan # calls[t].old
              /\ u # t /\ calls[u].step = "release" => calls[u].old # calls[t].old
    /\ calls[t].step = "commit" =>
         /\ calls[t].reservation \in DOMAIN reservations
         /\ reservations[calls[t].reservation].composition = calls[t].plan

HoldsInv == HoldsExact /\ ExclusiveHolds /\ Paired

CarefulInv == TypeInv /\ RegisteredPositive /\ PlansKnown /\ HoldsInv /\ CallsCareful

-----------------------------------------------------------------------------
(* The four kinds of step, as far as holds are concerned.                  *)

\* Compositions are relabelled, none becomes settled, and no hold changes.
Keeps ==
  /\ Relabels(compositions')
  /\ \A c \in DOMAIN compositions :
       compositions'[c].lifecycle \in Settled => compositions[c].lifecycle \in Settled
  /\ UNCHANGED <<reservations, reserved_amount>>
  /\ next_resv' \in {next_resv, next_resv + 1}

Commits(v) == CommitGranted(v) /\ UNCHANGED next_resv

\* The reservation of a backed composition ends and its items are given back.
Ends(c, l, s) ==
  /\ Backed(c)
  /\ compositions' = WithLifecycle(c, l)
  /\ reservations' = [reservations EXCEPT ![compositions[c].reservation].state = s]
  /\ reserved_amount' = Freed(reservations[compositions[c].reservation].items)
  /\ UNCHANGED next_resv

\* A step that changes no hold keeps every hold exact, exclusive and paired.
LEMMA KeepsHolds ==
  ASSUME TypeInv, HoldsInv, Keeps
  PROVE  HoldsInv' /\ \A c : Backed(c) => Backed(c)'
<1>1. /\ DOMAIN compositions' = DOMAIN compositions
      /\ \A c \in DOMAIN compositions :
           /\ compositions'[c].members = compositions[c].members
           /\ compositions'[c].reservation = compositions[c].reservation
  BY DEF Keeps, Relabels
<1>2. /\ reservations' = reservations /\ reserved_amount' = reserved_amount
      /\ LiveReservations' = LiveReservations
  BY DEF Keeps, LiveReservations, Live
<1>3. IdsInOrder'
  <2>1. next_resv \in Nat /\ \A v \in DOMAIN reservations : v \in Nat
    BY DEF TypeInv, TypeOK, ReservationId
  <2>. QED BY <1>2, <2>1 DEF Keeps, HoldsInv, Paired, IdsInOrder
<1>4. HoldsExact' /\ ExclusiveHolds'
  BY <1>2 DEF HoldsInv, HoldsExact, ExclusiveHolds
<1>5. \A c \in DOMAIN compositions : OwnReservation(c)'
  BY <1>1, <1>2 DEF Keeps, HoldsInv, Paired, OwnReservation
<1>6. Paired'
  BY <1>1, <1>2, <1>3, <1>5 DEF HoldsInv, Paired
<1>7. \A c : Backed(c) => Backed(c)'
  BY <1>1, <1>2 DEF Backed, Live
<1>. QED BY <1>4, <1>6, <1>7 DEF HoldsInv

\* A granted commit keeps every hold, and settles a composition whose reservation
\* it commits.
LEMMA CommitsHolds ==
  ASSUME TypeInv, HoldsInv, NEW v, Commits(v)
  PROVE  HoldsInv' /\ \A c : Backed(c) => Backed(c)'
<1> DEFINE d == reservations[v].composition
<1>1. /\ v \in DOMAIN reservations /\ reservations[v].state = "PROVISIONAL"
      /\ d \in DOMAIN compositions
      /\ reservations' = [reservations EXCEPT ![v].state = "COMMITTED"]
      /\ compositions' = WithLifecycle(d, "COMMITTED")
      /\ reserved_amount' = reserved_amount /\ next_resv' = next_resv
  BY DEF Commits, CommitGranted, CommitAllowed, WithLifecycle
<1>2. TypeOK /\ "COMMITTED" \in ReservationState /\ "COMMITTED" \in Lifecycle
  BY DEF TypeInv, ReservationState, Lifecycle
<1>3. /\ DOMAIN reservations' = DOMAIN reservations
      /\ \A w \in DOMAIN reservations :
           /\ reservations'[w].items = reservations[w].items
           /\ reservations'[w].composition = reservations[w].composition
           /\ w # v => reservations'[w] = reservations[w]
      /\ reservations'[v].state = "COMMITTED"
  BY <1>1, <1>2, StateUpdate
<1>4. v \in LiveReservations /\ LiveReservations' = LiveReservations
  BY <1>1, <1>3 DEF LiveReservations, Live
<1>5. compositions[d].reservation = v
  BY <1>4 DEF HoldsInv, Paired
<1> HIDE DEF d
<1>6. /\ DOMAIN compositions' = DOMAIN compositions
      /\ \A c \in DOMAIN compositions :
           /\ compositions'[c].members = compositions[c].members
           /\ compositions'[c].reservation = compositions[c].reservation
           /\ c # d => compositions'[c] = compositions[c]
  BY <1>1, <1>2, WithLifecycleRelabels DEF Relabels
<1>7. HoldsExact' /\ ExclusiveHolds'
  BY <1>1, <1>3, <1>4 DEF HoldsInv, HoldsExact, ExclusiveHolds, LiveReservations
<1>8. ASSUME NEW c \in DOMAIN compositions PROVE OwnReservation(c)'
  <2>1. OwnReservation(c)
    BY DEF HoldsInv, Paired
  <2>2. CASE c = d
    BY <1>3, <1>5, <1>6, <2>1, <2>2 DEF OwnReservation
  <2>3. CASE c # d
    <3>1. compositions[c].reservation # v
      BY <2>1, <2>3 DEF OwnReservation, d
    <3>. QED BY <1>3, <1>6, <2>1, <2>3, <3>1 DEF OwnReservation
  <2>. QED BY <2>2, <2>3
<1>9. Paired'
  BY <1>1, <1>3, <1>4, <1>6, <1>8 DEF HoldsInv, Paired, IdsInOrder, LiveReservations
<1>10. \A c : Backed(c) => Backed(c)'
  BY <1>3, <1>4, <1>6 DEF Backed, LiveReservations
<1>. QED BY <1>7, <1>9, <1>10 DEF HoldsInv

\* Ending the reservation of a backed composition takes away no other one's hold.
LEMMA EndsHolds ==
  ASSUME TypeInv, HoldsInv, NEW c, NEW l \in Lifecycle \ Settled,
         NEW s \in {"RELEASED", "ROLLED_BACK"}, Ends(c, l, s)
  PROVE  HoldsInv' /\ \A d : d # c /\ Backed(d) => Backed(d)'
<1> DEFINE v == compositions[c].reservation
           items == reservations[v].items
<1>1. /\ c \in DOMAIN compositions /\ v \in LiveReservations
      /\ compositions' = WithLifecycle(c, l)
      /\ reservations' = [reservations EXCEPT ![v].state = s]
      /\ reserved_amount' = Freed(items)
      /\ next_resv' = next_resv
  BY DEF Ends, Backed, LiveReservations
<1>2. TypeOK /\ s \in ReservationState /\ v \in DOMAIN reservations
  BY <1>1 DEF TypeInv, ReservationState, LiveReservations
<1>3. /\ DOMAIN reservations' = DOMAIN reservations
      /\ \A w \in DOMAIN reservations :
           /\ reservations'[w].items = reservations[w].items
           /\ reservations'[w].composition = reservations[w].composition
           /\ w # v => reservations'[w] = reservations[w]
      /\ reservations'[v].state = s
  BY <1>1, <1>2, StateUpdate
<1>4. /\ LiveReservations' = LiveReservations \ {v}
      /\ \A w \in LiveReservations' : w \in DOMAIN reservations /\ w # v
  BY <1>1, <1>3 DEF LiveReservations, Live
<1>5. items \in [DOMAIN items -> Nat] /\ DOMAIN items \subseteq ResourceId
  BY <1>2 DEF TypeOK, Reservation
<1>6. \A r \in ResourceId : r \notin DOMAIN items => reserved_amount'[r] = reserved_amount[r]
  BY <1>1, <1>2, <1>5, FreedType
<1>7. /\ DOMAIN compositions' = DOMAIN compositions
      /\ \A d \in DOMAIN compositions :
           /\ compositions'[d].members = compositions[d].members
           /\ compositions'[d].reservation = compositions[d].reservation
           /\ d # c => compositions'[d] = compositions[d]
      /\ compositions'[c].lifecycle = l
  BY <1>1, <1>2, WithLifecycleRelabels DEF Relabels
<1>8. ASSUME NEW w \in LiveReservations', NEW r \in DOMAIN reservations'[w].items
      PROVE  reserved_amount'[r] = reservations'[w].items[r] /\ reserved_amount'[r] > 0
  <2>1. w \in LiveReservations /\ w # v /\ reservations'[w] = reservations[w]
    BY <1>3, <1>4
  <2>2. r \notin DOMAIN items
    BY <1>1, <1>8, <2>1 DEF HoldsInv, ExclusiveHolds
  <2>3. r \in ResourceId
    BY <1>2, <1>8, <2>1 DEF LiveReservations, TypeOK, Reservation
  <2>4. reserved_amount'[r] = reserved_amount[r]
    BY <1>6, <2>2, <2>3
  <2>. QED BY <1>8, <2>1, <2>4 DEF HoldsInv, HoldsExact
<1>9. ExclusiveHolds'
  BY <1>3, <1>4 DEF HoldsInv, ExclusiveHolds
<1>10. ASSUME NEW d \in DOMAIN compositions PROVE OwnReservation(d)'
  <2>1. OwnReservation(d)
    BY DEF HoldsInv, Paired
  <2>2. CASE d = c
    BY <1>3, <1>7, <2>1, <2>2 DEF OwnReservation
  <2>3. CASE d # c
    <3>1. compositions[d].reservation # v
      <4>1. OwnReservation(c)
        BY <1>1 DEF HoldsInv, Paired
      <4>. QED BY <2>1, <2>3, <4>1 DEF OwnReservation
    <3>. QED BY <1>3, <1>7, <2>1, <2>3, <3>1 DEF OwnReservation
  <2>. QED BY <2>2, <2>3
<1>11. Paired'
  BY <1>1, <1>3, <1>4, <1>7, <1>10 DEF HoldsInv, Paired, IdsInOrder
<1>12. ASSUME NEW d, d # c, Backed(d) PROVE Backed(d)'
  <2>1. d \in DOMAIN compositions /\ compositions[d].reservation \in LiveReservations
    BY <1>12 DEF Backed, LiveReservations
  <2>2. OwnReservation(d) /\ OwnReservation(c)
    BY <1>1, <2>1 DEF HoldsInv, Paired
  <2>3. compositions[d].reservation # v
    BY <1>12, <2>2 DEF OwnReservation
  <2>. QED BY <1>4, <1>7, <2>1, <2>3 DEF Backed, LiveReservations
<1>. QED BY <1>8, <1>9, <1>11, <1>12 DEF HoldsInv, HoldsExact

\* A plan whose composition is backed cannot be reserved again: its members are
\* held.
LEMMA BackedIsHeld ==
  ASSUME TypeInv, PlansKnown, HoldsInv, NEW id, id \in DOMAIN plans, Backed(id)
  PROVE  ~ CanReserve(plans[id])
<1> DEFINE v == compositions[id].reservation
<1>1. id \in DOMAIN compositions /\ v \in LiveReservations
  BY DEF Backed, LiveReservations
<1>2. PICK r : r \in plans[id].members
  BY DEF PlansKnown
<1>3. r \in DOMAIN reservations[v].items
  BY <1>1, <1>2 DEF PlansKnown, HoldsInv, Paired, OwnReservation
<1>4. reserved_amount[r] > 0
  BY <1>1, <1>3 DEF HoldsInv, HoldsExact
<1>. QED BY <1>2, <1>4 DEF CanReserve

\* A granted reservation takes only what nobody holds, for a composition that has
\* no other live reservation.
LEMMA GrantsHolds ==
  ASSUME TypeInv, RegisteredPositive, PlansKnown, HoldsInv,
         NEW id \in DOMAIN plans, ReserveGranted(id)
  PROVE  /\ HoldsInv'
         /\ ~ Backed(id)
         /\ \A d : Backed(d) => Backed(d)'
<1> DEFINE members == plans[id].members
           holds == HoldsFor(plans[id])
           n == next_resv
<1>1. ~ Backed(id)
  BY BackedIsHeld DEF ReserveGranted
<1>2. /\ DOMAIN compositions' = DOMAIN compositions \cup {id}
      /\ \A c \in DOMAIN compositions : c # id => compositions'[c] = compositions[c]
      /\ compositions'[id].lifecycle = "RESERVED"
      /\ compositions'[id].members = members
      /\ compositions'[id].reservation = n
      /\ DOMAIN reservations' = DOMAIN reservations \cup {n}
      /\ \A v \in DOMAIN reservations : v # n => reservations'[v] = reservations[v]
      /\ reservations'[n].state = "PROVISIONAL"
      /\ reservations'[n].composition = id
      /\ reservations'[n].items = holds
      /\ next_resv' = n + 1
      /\ holds \in [members -> Nat]
      /\ \A r \in ResourceId :
           /\ r \in members => reserved_amount[r] = 0 /\ reserved_amount'[r] = holds[r]
           /\ r \notin members => reserved_amount'[r] = reserved_amount[r]
  BY ReserveGrantedType
<1>3. \A r \in members : holds[r] > 0
  BY DEF ReserveGranted, CanReserve, Registered, HoldsFor, RegisteredPositive
<1>4. members \subseteq ResourceId
  BY DEF TypeInv, TypeOK, CompositionPlan
<1>5. n \in Nat /\ n \notin DOMAIN reservations /\ \A v \in DOMAIN reservations : v \in Nat
  BY DEF TypeInv, TypeOK, ReservationId, HoldsInv, Paired, IdsInOrder
<1> HIDE DEF members, holds, n
<1>6. /\ LiveReservations' = LiveReservations \cup {n}
      /\ \A w \in LiveReservations : w \in DOMAIN reservations /\ reservations'[w] = reservations[w]
  BY <1>2, <1>5 DEF LiveReservations, Live
<1>7. ASSUME NEW w \in LiveReservations, NEW r \in DOMAIN reservations[w].items
      PROVE  /\ r \in ResourceId /\ r \notin members
             /\ reserved_amount[r] = reservations[w].items[r] /\ reserved_amount[r] > 0
  <2>1. r \in ResourceId
    BY <1>7 DEF LiveReservations, TypeInv, TypeOK, Reservation
  <2>2. reserved_amount[r] = reservations[w].items[r] /\ reserved_amount[r] > 0
    BY <1>7 DEF HoldsInv, HoldsExact
  <2>. QED BY <1>2, <2>1, <2>2
<1>8. DOMAIN holds = members
  BY <1>2
<1>9. HoldsExact'
  <2>. SUFFICES ASSUME NEW w \in LiveReservations', NEW r \in DOMAIN reservations'[w].items
                PROVE  reserved_amount'[r] = reservations'[w].items[r] /\ reserved_amount'[r] > 0
    BY DEF HoldsExact
  <2>1. CASE w = n
    BY <1>2, <1>3, <1>4, <1>8, <2>1
  <2>2. CASE w # n
    <3>1. w \in LiveReservations /\ reservations'[w] = reservations[w]
      BY <1>6, <2>2
    <3>. QED BY <1>2, <1>7, <3>1
  <2>. QED BY <2>1, <2>2
<1>10. ExclusiveHolds'
  <2>. SUFFICES ASSUME NEW v \in LiveReservations', NEW w \in LiveReservations', v # w,
                       NEW r \in DOMAIN reservations'[v].items,
                       r \in DOMAIN reservations'[w].items
                PROVE  FALSE
    BY DEF ExclusiveHolds
  <2>1. CASE v = n
    <3>1. w \in LiveReservations /\ reservations'[w] = reservations[w]
      BY <1>6, <2>1
    <3>. QED BY <1>2, <1>7, <1>8, <2>1, <3>1
  <2>2. CASE w = n
    <3>1. v \in LiveReservations /\ reservations'[v] = reservations[v]
      BY <1>6, <2>2
    <3>. QED BY <1>2, <1>7, <1>8, <2>2, <3>1
  <2>3. CASE v # n /\ w # n
    <3>1. v \in LiveReservations /\ w \in LiveReservations
          /\ reservations'[v] = reservations[v] /\ reservations'[w] = reservations[w]
      BY <1>6, <2>3
    <3>. QED BY <3>1 DEF HoldsInv, ExclusiveHolds
  <2>. QED BY <2>1, <2>2, <2>3
<1>11. ASSUME NEW c \in DOMAIN compositions' PROVE OwnReservation(c)'
  <2>1. CASE c = id
    BY <1>2, <1>8, <2>1 DEF OwnReservation, Settled
  <2>2. CASE c # id
    <3>1. OwnReservation(c) /\ compositions'[c] = compositions[c]
      BY <1>2, <2>2 DEF HoldsInv, Paired
    <3>2. reservations'[compositions[c].reservation] = reservations[compositions[c].reservation]
      BY <1>2, <1>5, <3>1 DEF OwnReservation
    <3>. QED BY <1>2, <3>1, <3>2 DEF OwnReservation
  <2>. QED BY <2>1, <2>2
<1>12. ASSUME NEW w \in LiveReservations'
       PROVE  /\ reservations'[w].composition \in DOMAIN compositions'
              /\ compositions'[reservations'[w].composition].reservation = w
  <2>1. CASE w = n
    BY <1>2, <2>1
  <2>2. CASE w # n
    <3> DEFINE d == reservations[w].composition
    <3>1. w \in LiveReservations /\ reservations'[w] = reservations[w]
      BY <1>6, <2>2
    <3>2. d \in DOMAIN compositions /\ compositions[d].reservation = w
      BY <3>1 DEF HoldsInv, Paired
    <3>3. Backed(d)
      BY <3>1, <3>2 DEF Backed, LiveReservations
    <3>4. d # id
      BY <1>1, <3>3
    <3>. QED BY <1>2, <3>1, <3>2, <3>4
  <2>. QED BY <2>1, <2>2
<1>13. IdsInOrder'
  BY <1>2, <1>5 DEF HoldsInv, Paired, IdsInOrder, n
<1>14. Paired'
  BY <1>11, <1>12, <1>13 DEF Paired
<1>15. ASSUME NEW d, Backed(d) PROVE Backed(d)'
  <2>1. d # id
    BY <1>1, <1>15
  <2>2. d \in DOMAIN compositions /\ compositions[d].reservation \in LiveReservations
    BY <1>15 DEF Backed, LiveReservations
  <2>3. compositions'[d] = compositions[d] /\ d \in DOMAIN compositions'
    BY <1>2, <2>1, <2>2
  <2>. QED BY <1>6, <2>2, <2>3 DEF Backed, LiveReservations
<1>. QED BY <1>1, <1>9, <1>10, <1>14, <1>15 DEF HoldsInv

-----------------------------------------------------------------------------
(* Registry and plans.                                                     *)

\* The careful callers take only steps of the engine.
LEMMA CarefulIsNext == CarefulNext => Next
BY DEF CarefulNext, Next

\* Losing evidence, failing and being withdrawn change nothing that is held.
LEMMA LossKeepsAmount ==
  ASSUME NEW res \in Resource
  PROVE  /\ HoldAmountForResource(Expired(res)) = HoldAmountForResource(res)
         /\ HoldAmountForResource([Expired(res) EXCEPT !.health = "UNKNOWN"])
              = HoldAmountForResource(res)
         /\ HoldAmountForResource(Failed(res)) = HoldAmountForResource(res)
         /\ HoldAmountForResource(Withdrawn(res)) = HoldAmountForResource(res)
BY DEF Resource, HoldAmountForResource, Expired, Failed, Withdrawn

\* If only resources with something to hold are published, only such are
\* registered (IngestResourceLocked).
LEMMA PositiveStep ==
  ASSUME PositiveCapacity, TypeInv, RegisteredPositive, RegistryNext
  PROVE  RegisteredPositive'
<1>0. \A r \in DOMAIN resources : resources[r] \in Resource
  BY DEF TypeInv, TypeOK, IsMap
<1>1. ASSUME NEW N, NEW R, Ingest(N, R),
             \A r \in DOMAIN R : HoldAmountForResource(R[r]) > 0
      PROVE  RegisteredPositive'
  BY <1>1 DEF Ingest, Override, RegisteredPositive
<1>2. ASSUME resources' = resources PROVE RegisteredPositive'
  BY <1>2 DEF RegisteredPositive
<1>3. ASSUME NEW n \in NodeId, NEW node \in PublishedNodes[n], RegisterNode(n, node)
      PROVE  RegisteredPositive'
  <2>1. DOMAIN EmptyMap = {}
    BY DEF EmptyMap
  <2>. QED BY <1>1, <1>3, <2>1 DEF RegisterNode
<1>4. ASSUME NEW r \in ResourceId, NEW res \in PublishedResources[r], RegisterResource(r, res)
      PROVE  RegisteredPositive'
  <2> DEFINE R == [x \in {r} |-> res]
  <2>1. Ingest(EmptyMap, R)
    BY <1>4 DEF RegisterResource
  <2>2. \A x \in DOMAIN R : HoldAmountForResource(R[x]) > 0
    BY <1>4 DEF PositiveCapacity
  <2> HIDE DEF R
  <2>. QED BY <1>1, <2>1, <2>2
<1>5. ASSUME NEW rep \in Reports, Discover(rep)
      PROVE  RegisteredPositive'
  BY <1>1, <1>5 DEF Discover, PositiveCapacity
<1>6. ASSUME NEW r \in Unstable, InvalidateNode(r)
      PROVE  RegisteredPositive'
  BY <1>0, <1>6, LossKeepsAmount DEF InvalidateNode, RegisteredPositive
<1>7. ASSUME NEW r \in Unstable, WithdrawResource(r)
      PROVE  RegisteredPositive'
  BY <1>0, <1>7, LossKeepsAmount DEF WithdrawResource, RegisteredPositive
<1>8. ASSUME NEW r \in Unstable, OnResourceFailure(r)
      PROVE  RegisteredPositive'
  BY <1>0, <1>8, LossKeepsAmount DEF OnResourceFailure, RegisteredPositive
<1>9. ASSUME NEW boot \in WorkerBootId, MarkEvidenceRevalidationRequired(boot)
      PROVE  RegisteredPositive'
  BY <1>0, <1>9, LossKeepsAmount DEF MarkEvidenceRevalidationRequired, RegisteredPositive
<1>10. ASSUME NEW e \in Epochs, AdvanceEpoch(e)
       PROVE  RegisteredPositive'
  BY <1>0, <1>10, LossKeepsAmount DEF AdvanceEpoch, RegisteredPositive
<1>. QED BY <1>2, <1>3, <1>4, <1>5, <1>6, <1>7, <1>8, <1>9, <1>10
         DEF RegistryNext, OnPolicyUpdate, OnPathUpdate

\* What ComposeDeterministic may return has a member: a mandatory class is there,
\* and no selection for a class is empty.
LEMMA CandidateMembers ==
  ASSUME NEW req \in CompositionRequest, NEW seen,
         NEW S \in Candidates(req, resources, seen)
  PROVE  S # {}
<1>1. PICK k \in MandatoryClasses(req) : TRUE
  BY DEF Candidates
<1> DEFINE chosen == {r \in S : resources[r].class = k}
<1>2. PICK items : chosen \in Selections(req, k, items, resources)
  BY <1>1 DEF Candidates
<1>3. req.demand[k] \in Nat
  BY <1>1 DEF CompositionRequest, MandatoryClasses
<1>4. Cardinality(chosen) # 0
  BY <1>2, <1>3 DEF Selections, Wanted
<1>5. chosen # {}
  BY <1>4, FS_EmptySet
<1>. QED BY <1>5

\* Compose stores a plan with members under a new id.
LEMMA ComposePlans ==
  ASSUME TypeInv, PlansKnown, NEW req \in CompositionRequest, NEW answers \in PathAnswers,
         NEW offered \in BOOLEAN, ComposeBody(req, answers, offered), UNCHANGED compositions
  PROVE  PlansKnown' /\ next_comp \notin DOMAIN plans
<1>0. TypeOK /\ next_comp \in Nat /\ \A id \in DOMAIN plans : id \in Nat
  BY DEF TypeInv, TypeOK, CompositionId
<1>1. PICK early : \E S \in Candidates(req, resources, Override(paths, Restrict(answers, early))) :
        \E resolved : plans' = Put(plans, next_comp, PlanFor(req, S, resolved, offered))
  BY DEF ComposeBody
<1>2. PICK S \in Candidates(req, resources, Override(paths, Restrict(answers, early))) :
        \E resolved : plans' = Put(plans, next_comp, PlanFor(req, S, resolved, offered))
  BY <1>1
<1>3. PICK resolved : plans' = Put(plans, next_comp, PlanFor(req, S, resolved, offered))
  BY <1>2
<1> DEFINE plan == PlanFor(req, S, resolved, offered)
<1>4. S # {}
  BY CandidateMembers
<1>5. plan.members # {} /\ plans' = Put(plans, next_comp, plan)
  BY <1>3, <1>4 DEF PlanFor
<1> HIDE DEF plan
<1>6. /\ DOMAIN plans' = DOMAIN plans \cup {next_comp}
      /\ plans'[next_comp].members # {}
      /\ \A id \in DOMAIN plans : id # next_comp => plans'[id] = plans[id]
  BY <1>5 DEF Put
<1>7. next_comp' = next_comp + 1
  BY DEF ComposeBody
<1>8. next_comp \notin DOMAIN plans
  BY <1>0 DEF PlansKnown
<1>. QED BY <1>0, <1>6, <1>7, <1>8 DEF PlansKnown

\* A step that relabels the compositions and plans nothing keeps plans known.
LEMMA RelabelPlans ==
  ASSUME PlansKnown, Relabels(compositions'), UNCHANGED planning
  PROVE  PlansKnown'
BY DEF PlansKnown, Relabels, planning

\* A granted reservation stores the members of its plan.
LEMMA GrantPlans ==
  ASSUME TypeInv, PlansKnown, NEW id \in DOMAIN plans, ReserveGranted(id), UNCHANGED planning
  PROVE  PlansKnown'
<1>1. /\ DOMAIN compositions' = DOMAIN compositions \cup {id}
      /\ \A c \in DOMAIN compositions : c # id => compositions'[c] = compositions[c]
      /\ compositions'[id].members = plans[id].members
  BY ReserveGrantedType
<1>. QED BY <1>1 DEF PlansKnown, planning

-----------------------------------------------------------------------------
(* Recompute calls.                                                        *)

\* Reservations stay, with the compositions they were made for.
SameMakers ==
  \A v \in DOMAIN reservations :
    v \in DOMAIN reservations' /\ reservations'[v].composition = reservations[v].composition

\* Calls stay where they are, or go on behind the release with the same plan.
CallsGoOn ==
  \A t \in Callers :
    \/ calls'[t] = calls[t]
    \/ /\ calls'[t].step # "release"
       /\ calls'[t].step # "idle" =>
            calls[t].step # "idle" /\ calls'[t].plan = calls[t].plan
       /\ calls'[t].step = "commit" =>
            /\ calls'[t].reservation \in DOMAIN reservations'
            /\ reservations'[calls'[t].reservation].composition = calls'[t].plan

\* If what is about to be released stays backed, the calls stay careful.
LEMMA CallsKept ==
  ASSUME CallsCareful, SameMakers, CallsGoOn,
         \A t \in Callers : calls[t].step = "release" /\ calls'[t] = calls[t] =>
                              Backed(calls[t].old)'
  PROVE  CallsCareful'
<1>1. ASSUME NEW t \in Callers, calls'[t].step = "release"
      PROVE  /\ Backed(calls[t].old)'
             /\ \A u \in Callers :
                  /\ calls'[u].step # "idle" => calls'[u].plan # calls'[t].old
                  /\ u # t /\ calls'[u].step = "release" => calls'[u].old # calls'[t].old
  <2>1. calls'[t] = calls[t] /\ calls[t].step = "release"
    BY <1>1 DEF CallsGoOn
  <2>2. Backed(calls[t].old)'
    BY <2>1
  <2>3. ASSUME NEW u \in Callers
        PROVE  /\ calls'[u].step # "idle" => calls'[u].plan # calls[t].old
               /\ u # t /\ calls'[u].step = "release" => calls'[u].old # calls[t].old
    BY <2>1 DEF CallsGoOn, CallsCareful
  <2>. QED BY <2>1, <2>2, <2>3
<1>2. ASSUME NEW t \in Callers, calls'[t].step = "commit"
      PROVE  /\ calls'[t].reservation \in DOMAIN reservations'
             /\ reservations'[calls'[t].reservation].composition = calls'[t].plan
  BY <1>2 DEF CallsGoOn, CallsCareful, SameMakers
<1>. QED BY <1>1, <1>2 DEF CallsCareful

\* A new call plans to replace a backed composition that no other call replaces or
\* builds, under an id nothing has.
LEMMA CallStarts ==
  ASSUME TypeInv, PlansKnown, CallsCareful, NEW t \in Callers, NEW c,
         Backed(c), ~ BeingReplaced(c), ~ BeingBuilt(c), next_comp \notin DOMAIN plans,
         calls' = [calls EXCEPT ![t] = [step |-> "release", old |-> c,
                                        plan |-> next_comp, reservation |-> 0]],
         UNCHANGED <<compositions, reservations>>
  PROVE  CallsCareful'
<1>0. calls \in [Callers -> Call]
  BY DEF TypeInv, TypeOK
<1>1. /\ calls'[t].step = "release" /\ calls'[t].old = c /\ calls'[t].plan = next_comp
      /\ \A u \in Callers : u # t => calls'[u] = calls[u]
  BY <1>0
<1>2. \A d : Backed(d) => Backed(d)'
  BY DEF Backed, Live
<1>3. c \in DOMAIN plans /\ \A u \in Callers : calls[u].step # "idle" => calls[u].old \in DOMAIN plans
  BY DEF Backed, PlansKnown, TypeInv, CallsKnown
<1>4. ASSUME NEW u \in Callers, calls'[u].step = "release"
      PROVE  /\ Backed(calls[u].old)'
             /\ \A w \in Callers :
                  /\ calls'[w].step # "idle" => calls'[w].plan # calls'[u].old
                  /\ w # u /\ calls'[w].step = "release" => calls'[w].old # calls'[u].old
  <2>1. CASE u = t
    <3>1. Backed(c)'
      BY <1>2
    <3>2. Backed(calls[t].old)'
      BY <1>1, <3>1 DEF Backed
    <3>3. ASSUME NEW w \in Callers
          PROVE  /\ calls'[w].step # "idle" => calls'[w].plan # c
                 /\ w # t /\ calls'[w].step = "release" => calls'[w].old # c
      BY <1>1, <1>3 DEF BeingReplaced, BeingBuilt
    <3>. QED BY <1>1, <2>1, <3>2, <3>3
  <2>2. CASE u # t
    <3>1. calls'[u] = calls[u] /\ calls[u].step = "release"
      BY <1>1, <1>4, <2>2
    <3>2. Backed(calls[u].old)
      BY <3>1 DEF CallsCareful
    <3>3. Backed(calls[u].old)'
      BY <3>1, <3>2 DEF Backed, Live
    <3>4. ASSUME NEW w \in Callers
          PROVE  /\ calls'[w].step # "idle" => calls'[w].plan # calls[u].old
                 /\ w # u /\ calls'[w].step = "release" => calls'[w].old # calls[u].old
      <4>1. CASE w = t
        BY <1>1, <1>3, <3>1, <4>1 DEF BeingReplaced
      <4>2. CASE w # t
        BY <1>1, <3>1, <4>2 DEF CallsCareful
      <4>. QED BY <4>1, <4>2
    <3>. QED BY <3>1, <3>3, <3>4
  <2>. QED BY <2>1, <2>2
<1>5. ASSUME NEW u \in Callers, calls'[u].step = "commit"
      PROVE  /\ calls'[u].reservation \in DOMAIN reservations'
             /\ reservations'[calls'[u].reservation].composition = calls'[u].plan
  BY <1>1, <1>5 DEF CallsCareful
<1>. QED BY <1>4, <1>5 DEF CallsCareful

-----------------------------------------------------------------------------
(* Every step is of one of the four kinds.                                 *)

HoldStep ==
  \/ Keeps
  \/ \E v : Commits(v)
  \/ \E l \in Lifecycle \ Settled, s \in {"RELEASED", "ROLLED_BACK"} : \E c : Ends(c, l, s)
  \/ \E id \in DOMAIN plans : ReserveGranted(id)

\* Lapsing settles nothing.
LEMMA LapsedUnsettles ==
  ASSUME TypeOK, NEW hit, NEW early, NEW c \in DOMAIN compositions,
         Lapsed(hit, early)[c].lifecycle \in Settled
  PROVE  compositions[c].lifecycle \in Settled
<1>1. Composition(compositions[c])
  BY DEF TypeOK
<1>2. CASE c \in hit
  <2> DEFINE l == Lapse(compositions[c].lifecycle, early)
  <2>1. Lapsed(hit, early)[c] = [compositions[c] EXCEPT !.lifecycle = l]
    BY <1>2 DEF Lapsed
  <2>2. compositions[c].lifecycle \in Lifecycle /\ l \in Lifecycle
    BY <1>1, LapseType DEF Composition
  <2> HIDE DEF l
  <2>3. l \in Settled
    BY <1>1, <2>1, <2>2, LifecycleUpdate
  <2>. QED BY <2>2, <2>3 DEF l, Lapse, Settled
<1>3. CASE c \notin hit
  BY <1>3 DEF Lapsed
<1>. QED BY <1>2, <1>3

\* A registry update relabels compositions, settles none and changes no hold.
LEMMA RegistryKeeps ==
  ASSUME TypeInv, RegistryNext
  PROVE  Keeps /\ UNCHANGED <<planning, calls>>
<1>0. TypeOK
  BY DEF TypeInv
<1> DEFINE Unsettles == \A c \in DOMAIN compositions :
             compositions'[c].lifecycle \in Settled => compositions[c].lifecycle \in Settled
           Frame == UNCHANGED <<ledger, planning, calls>>
<1>1. ASSUME NEW hit, NEW early, compositions' = Lapsed(hit, early)
      PROVE  Unsettles
  BY <1>0, <1>1, LapsedUnsettles
<1>2. ASSUME NEW N, NEW R, Ingest(N, R)
      PROVE  Unsettles
  BY <1>1, <1>2 DEF Ingest
<1>3. ASSUME NEW e \in Epochs, AdvanceEpoch(e)
      PROVE  Unsettles
  <2> SUFFICES ASSUME NEW c \in DOMAIN compositions, compositions'[c].lifecycle \in Settled
               PROVE  compositions[c].lifecycle \in Settled
    OBVIOUS
  <2>1. CASE compositions[c].lifecycle = "ACTIVE"
    BY <2>1 DEF Settled
  <2>2. CASE compositions[c].lifecycle # "ACTIVE"
    BY <1>3, <2>2 DEF AdvanceEpoch
  <2>. QED BY <2>1, <2>2
<1>4. Unsettles /\ Frame
  <2>1. ASSUME NEW n \in NodeId, NEW node \in PublishedNodes[n], RegisterNode(n, node)
        PROVE  Unsettles /\ Frame
    BY <1>2, <2>1 DEF RegisterNode
  <2>2. ASSUME NEW r \in ResourceId, NEW res \in PublishedResources[r], RegisterResource(r, res)
        PROVE  Unsettles /\ Frame
    BY <1>2, <2>2 DEF RegisterResource
  <2>3. ASSUME NEW rep \in Reports, Discover(rep)
        PROVE  Unsettles /\ Frame
    BY <1>2, <2>3 DEF Discover
  <2>4. ASSUME NEW r \in Unstable, InvalidateNode(r)
        PROVE  Unsettles /\ Frame
    BY <2>4 DEF InvalidateNode
  <2>5. ASSUME NEW r \in Unstable, WithdrawResource(r) \/ OnResourceFailure(r)
        PROVE  Unsettles /\ Frame
    BY <1>1, <2>5 DEF WithdrawResource, OnResourceFailure
  <2>6. ASSUME NEW boot \in WorkerBootId, MarkEvidenceRevalidationRequired(boot)
        PROVE  Unsettles /\ Frame
    BY <1>1, <2>6 DEF MarkEvidenceRevalidationRequired
  <2>7. ASSUME NEW e \in Epochs, AdvanceEpoch(e)
        PROVE  Unsettles /\ Frame
    BY <1>3, <2>7 DEF AdvanceEpoch
  <2>8. ASSUME NEW p \in PolicyId, NEW g \in PolicyGenerations, OnPolicyUpdate(p, g)
        PROVE  Unsettles /\ Frame
    BY <1>1, <2>8 DEF OnPolicyUpdate
  <2>9. ASSUME NEW l \in DOMAIN PublishedPaths, NEW pe \in PublishedPaths[l],
               OnPathUpdate(l, pe)
        PROVE  Unsettles /\ Frame
    BY <1>1, <2>9 DEF OnPathUpdate
  <2> HIDE DEF Unsettles, Frame
  <2>. QED BY <2>1, <2>2, <2>3, <2>4, <2>5, <2>6, <2>7, <2>8, <2>9 DEF RegistryNext
<1>5. Relabels(compositions')
  BY <1>0, RegistryRelabels
<1>. QED BY <1>4, <1>5 DEF Keeps, ledger

\* What Activate does is of the first kind.
LEMMA ActivateKeeps ==
  ASSUME TypeInv, NEW c, ActivateBody(c), UNCHANGED ledger
  PROVE  Keeps
<1>1. compositions[c].lifecycle \in Settled /\ c \in DOMAIN compositions
  BY DEF ActivateBody, ActivateAllowed, Settled
<1>2. PICK l \in Lifecycle : compositions' = WithLifecycle(c, l)
  BY DEF ActivateBody, WithLifecycle, Lifecycle
<1>3. /\ Relabels(compositions')
      /\ \A d \in DOMAIN compositions : d # c => compositions'[d] = compositions[d]
  BY <1>2, WithLifecycleRelabels DEF TypeInv
<1>. QED BY <1>1, <1>3 DEF Keeps, ledger

\* Draining a settled composition is of the first kind.
LEMMA DrainKeeps ==
  ASSUME TypeInv, NEW c, BeginDrain(c)
  PROVE  Keeps
<1>1. compositions[c].lifecycle \in Settled /\ c \in DOMAIN compositions
  BY DEF BeginDrain, Settled
<1>2. "DRAINING" \in Lifecycle /\ compositions' = WithLifecycle(c, "DRAINING") /\ UNCHANGED ledger
  BY DEF BeginDrain, Lifecycle
<1>3. /\ Relabels(compositions')
      /\ \A d \in DOMAIN compositions : d # c => compositions'[d] = compositions[d]
  BY <1>2, WithLifecycleRelabels DEF TypeInv
<1>. QED BY <1>1, <1>2, <1>3 DEF Keeps, ledger

\* A step that leaves compositions and holds alone is of the first kind.
LEMMA StutterKeeps ==
  ASSUME TypeInv, UNCHANGED <<compositions, reservations, reserved_amount>>,
         next_resv' \in {next_resv, next_resv + 1}
  PROVE  Keeps
BY SameRelabels DEF TypeInv, Keeps

\* Giving the holds of a backed composition back ends its reservation.
LEMMA FreeEnds ==
  ASSUME NEW c, Backed(c), FreeHolds(c), compositions' = WithLifecycle(c, "RELEASED"),
         UNCHANGED next_resv
  PROVE  Ends(c, "RELEASED", "RELEASED")
BY DEF Ends, FreeHolds, Backed

\* A commit that is rolled back ends the reservation of a backed composition.
LEMMA RollbackEnds ==
  ASSUME HoldsInv, NEW v, CommitRolledBack(v), UNCHANGED next_resv
  PROVE  Ends(reservations[v].composition, "REVALIDATION_REQUIRED", "ROLLED_BACK")
<1> DEFINE c == reservations[v].composition
<1>1. /\ v \in LiveReservations /\ c \in DOMAIN compositions
      /\ compositions' = WithLifecycle(c, "REVALIDATION_REQUIRED")
  BY DEF CommitRolledBack, CommitAllowed, LiveReservations, Live, WithLifecycle
<1>2. compositions[c].reservation = v
  BY <1>1 DEF HoldsInv, Paired
<1>. QED BY <1>1, <1>2 DEF Ends, CommitRolledBack, Backed, LiveReservations

\* A settled composition is backed.
LEMMA SettledBacked ==
  ASSUME HoldsInv, NEW c \in DOMAIN compositions, compositions[c].lifecycle \in Settled
  PROVE  Backed(c)
BY DEF HoldsInv, Paired, OwnReservation, Backed, Live

\* A step of the four kinds keeps reservations and their compositions.
LEMMA StepMakers ==
  ASSUME TypeInv, HoldsInv, HoldStep
  PROVE  SameMakers
<1>0. TypeOK
  BY DEF TypeInv
<1>1. ASSUME NEW v \in DOMAIN reservations, NEW s \in ReservationState,
             reservations' = [reservations EXCEPT ![v].state = s]
      PROVE  SameMakers
  BY <1>0, <1>1, StateUpdate DEF SameMakers
<1>2. CASE Keeps
  BY <1>2 DEF Keeps, SameMakers
<1>3. ASSUME NEW v, Commits(v)
      PROVE  SameMakers
  BY <1>1, <1>3 DEF Commits, CommitGranted, CommitAllowed, ReservationState
<1>4. ASSUME NEW c, NEW l, NEW s \in {"RELEASED", "ROLLED_BACK"}, Ends(c, l, s)
      PROVE  SameMakers
  BY <1>1, <1>4 DEF Ends, Backed, ReservationState
<1>5. ASSUME NEW id \in DOMAIN plans, ReserveGranted(id)
      PROVE  SameMakers
  <2> DEFINE new == [composition |-> id, items |-> HoldsFor(plans[id]), state |-> "PROVISIONAL"]
  <2>1. reservations' = Put(reservations, next_resv, new)
    BY <1>5 DEF ReserveGranted
  <2>2. \A v \in DOMAIN reservations : v \in Nat /\ v < next_resv
    BY <1>0 DEF TypeOK, ReservationId, HoldsInv, Paired, IdsInOrder
  <2>3. next_resv \in Nat
    BY <1>0 DEF TypeOK
  <2> HIDE DEF new
  <2>. QED BY <2>1, <2>2, <2>3 DEF Put, SameMakers
<1>. QED BY <1>2, <1>3, <1>4, <1>5 DEF HoldStep

\* A call is about to release d before and after the step.
StillReplaced(d) ==
  \E t \in Callers : calls[t].step = "release" /\ calls[t].old = d /\ calls'[t] = calls[t]

\* If compositions that stay about to be released stay backed, the calls stay careful.
LEMMA CallsSpared ==
  ASSUME TypeInv, HoldsInv, CallsCareful, HoldStep, CallsGoOn,
         \A d : Backed(d) /\ StillReplaced(d) => Backed(d)'
  PROVE  CallsCareful'
<1>1. SameMakers
  BY StepMakers
<1>2. ASSUME NEW t \in Callers, calls[t].step = "release", calls'[t] = calls[t]
      PROVE  Backed(calls[t].old)'
  <2> DEFINE old == calls[t].old
  <2>1. Backed(old) /\ StillReplaced(old)
    BY <1>2 DEF CallsCareful, StillReplaced
  <2> HIDE DEF old
  <2>2. /\ old \in DOMAIN compositions'
        /\ compositions'[old].reservation \in DOMAIN reservations'
        /\ reservations'[compositions'[old].reservation].state \in {"PROVISIONAL", "COMMITTED"}
    BY <2>1 DEF Backed, Live
  <2>. QED BY <1>2, <2>2 DEF Backed, Live, old
<1>. QED BY <1>1, <1>2, CallsKept

\* A step of the four kinds keeps holds exact, exclusive and paired.
LEMMA HoldStepHolds ==
  ASSUME TypeInv, RegisteredPositive, PlansKnown, HoldsInv, HoldStep
  PROVE  HoldsInv'
BY KeepsHolds, CommitsHolds, EndsHolds, GrantsHolds DEF HoldStep

\* The public calls of a careful caller, registry updates apart.
CarefulCall ==
  \/ \E req \in Requests, answers \in PathAnswers : Compose(req, answers)
  \/ \E id \in CompositionId : Reserve(id)
  \/ \E v \in ReservationId :
       /\ v \in DOMAIN reservations /\ ~ BeingReplaced(reservations[v].composition)
       /\ Commit(v)
  \/ \E c \in CompositionId :
       \/ Activate(c)
       \/ BeginDrain(c)
       \/ ~ BeingReplaced(c) /\ EndDrain(c)
       \/ Backed(c) /\ ~ BeingReplaced(c) /\ Release(c)

\* Every public call of a careful caller is of one of the four kinds, and keeps
\* plans known and Recompute calls careful.
LEMMA CarefulCallStep ==
  ASSUME CarefulInv, CarefulCall
  PROVE  HoldStep /\ PlansKnown' /\ CallsCareful'
<1>0. /\ TypeInv /\ TypeOK /\ RegisteredPositive /\ PlansKnown /\ HoldsInv /\ CallsCareful
      /\ \A c \in DOMAIN compositions : compositions[c].request \in CompositionRequest
  BY DEF CarefulInv, TypeInv, TypeOK, Composition
<1>1. ASSUME calls' = calls PROVE CallsGoOn
  BY <1>1 DEF CallsGoOn
<1>2. ASSUME Keeps, calls' = calls
      PROVE  HoldStep /\ CallsCareful'
  <2>1. HoldStep /\ CallsGoOn
    BY <1>1, <1>2 DEF HoldStep
  <2>2. \A d : Backed(d) => Backed(d)'
    BY <1>0, <1>2, KeepsHolds
  <2>. QED BY <1>0, <2>1, <2>2, CallsSpared
<1>3. ASSUME NEW c, NEW l \in Lifecycle \ Settled, NEW s \in {"RELEASED", "ROLLED_BACK"},
             Ends(c, l, s), ~ BeingReplaced(c), UNCHANGED <<planning, calls>>
      PROVE  HoldStep /\ PlansKnown' /\ CallsCareful'
  <2>1. HoldStep /\ CallsGoOn
    BY <1>1, <1>3 DEF HoldStep
  <2>2. \A d : d # c /\ Backed(d) => Backed(d)'
    BY <1>0, <1>3, EndsHolds
  <2>3. CallsCareful'
    BY <1>0, <1>3, <2>1, <2>2, CallsSpared DEF BeingReplaced, StillReplaced
  <2>4. Relabels(compositions')
    BY <1>0, <1>3, WithLifecycleRelabels DEF Ends
  <2>. QED BY <1>0, <1>3, <2>1, <2>3, <2>4, RelabelPlans
<1>4. ASSUME NEW req \in Requests, NEW answers \in PathAnswers, Compose(req, answers)
      PROVE  HoldStep /\ PlansKnown' /\ CallsCareful'
  <2>1. /\ ComposeBody(req, answers, TRUE) /\ req \in CompositionRequest
        /\ UNCHANGED <<compositions, reservations, reserved_amount, next_resv, calls>>
    BY <1>4, InputsAssumption DEF Compose, ledger
  <2>2. PlansKnown'
    BY <1>0, <2>1, ComposePlans
  <2>. QED BY <1>0, <1>2, <2>1, <2>2, StutterKeeps
<1>5. ASSUME NEW id \in CompositionId, Reserve(id)
      PROVE  HoldStep /\ PlansKnown' /\ CallsCareful'
  <2>1. CASE ReserveRefused(id)
    <3>1. Keeps
      BY <1>0, <2>1, StutterKeeps DEF ReserveRefused
    <3>. QED BY <1>0, <1>2, <1>5, <3>1, RelabelPlans DEF Reserve, Keeps
  <2>2. CASE ReserveGranted(id)
    <3>1. id \in DOMAIN plans /\ UNCHANGED <<planning, calls>>
      BY <1>5 DEF Reserve
    <3>2. HoldStep /\ CallsGoOn
      BY <1>1, <2>2, <3>1 DEF HoldStep
    <3>3. \A d : Backed(d) => Backed(d)'
      BY <1>0, <2>2, <3>1, GrantsHolds
    <3>4. CallsCareful'
      BY <1>0, <3>2, <3>3, CallsSpared
    <3>. QED BY <1>0, <2>2, <3>1, <3>2, <3>4, GrantPlans
  <2>. QED BY <1>5, <2>1, <2>2 DEF Reserve
<1>6. ASSUME NEW v \in DOMAIN reservations, ~ BeingReplaced(reservations[v].composition),
             Commit(v)
      PROVE  HoldStep /\ PlansKnown' /\ CallsCareful'
  <2>0. UNCHANGED <<next_resv, planning, calls>>
    BY <1>6 DEF Commit
  <2>1. CASE CommitGranted(v)
    <3>1. Commits(v)
      BY <2>0, <2>1 DEF Commits
    <3>2. HoldStep /\ CallsGoOn
      BY <1>1, <2>0, <3>1 DEF HoldStep
    <3>3. \A d : Backed(d) => Backed(d)'
      BY <1>0, <3>1, CommitsHolds
    <3>4. CallsCareful'
      BY <1>0, <3>2, <3>3, CallsSpared
    <3>5. Relabels(compositions')
      BY <1>0, <2>0, <2>1, CommitType
    <3>. QED BY <1>0, <2>0, <3>2, <3>4, <3>5, RelabelPlans
  <2>2. CASE CommitRolledBack(v)
    <3>1. "REVALIDATION_REQUIRED" \in Lifecycle \ Settled
      BY DEF Lifecycle, Settled
    <3>2. Ends(reservations[v].composition, "REVALIDATION_REQUIRED", "ROLLED_BACK")
      BY <1>0, <2>0, <2>2, RollbackEnds
    <3>. QED BY <1>3, <1>6, <2>0, <3>1, <3>2
  <2>. QED BY <1>6, <2>1, <2>2 DEF Commit
<1>7. ASSUME NEW c, Activate(c)
      PROVE  HoldStep /\ PlansKnown' /\ CallsCareful'
  <2>1. Keeps /\ UNCHANGED <<planning, calls>>
    BY <1>0, <1>7, ActivateKeeps DEF Activate
  <2>. QED BY <1>0, <1>2, <2>1, RelabelPlans DEF Keeps
<1>8. ASSUME NEW c, BeginDrain(c)
      PROVE  HoldStep /\ PlansKnown' /\ CallsCareful'
  <2>1. Keeps /\ UNCHANGED <<planning, calls>>
    BY <1>0, <1>8, DrainKeeps DEF BeginDrain
  <2>. QED BY <1>0, <1>2, <2>1, RelabelPlans DEF Keeps
<1>9. "RELEASED" \in Lifecycle \ Settled
  BY DEF Lifecycle, Settled
<1>10. ASSUME NEW c, ~ BeingReplaced(c), EndDrain(c)
       PROVE  HoldStep /\ PlansKnown' /\ CallsCareful'
  <2>1. Backed(c)
    BY <1>0, <1>10, SettledBacked DEF EndDrain, Settled
  <2>2. Ends(c, "RELEASED", "RELEASED") /\ UNCHANGED <<planning, calls>>
    BY <1>10, <2>1, FreeEnds DEF EndDrain
  <2>. QED BY <1>3, <1>9, <1>10, <2>2
<1>11. ASSUME NEW c, Backed(c), ~ BeingReplaced(c), Release(c)
       PROVE  HoldStep /\ PlansKnown' /\ CallsCareful'
  <2>1. Ends(c, "RELEASED", "RELEASED") /\ UNCHANGED <<planning, calls>>
    BY <1>11, FreeEnds DEF Release
  <2>. QED BY <1>3, <1>9, <1>11, <2>1
<1>. QED BY <1>4, <1>5, <1>6, <1>7, <1>8, <1>10, <1>11 DEF CarefulCall

\* A call that returns goes on.
LEMMA ReturnGoesOn ==
  ASSUME TypeInv, NEW t \in Callers, Return(t)
  PROVE  CallsGoOn
BY DEF TypeInv, TypeOK, Return, IdleCall, CallsGoOn

\* So does one that moves to its reservation or its activation.
LEMMA MoveGoesOn ==
  ASSUME TypeInv, NEW t \in Callers, calls[t].step # "idle", NEW s \in {"reserve", "activate"},
         calls' = [calls EXCEPT ![t].step = s]
  PROVE  CallsGoOn /\ calls'[t].step = s
<1>1. calls \in [Callers -> Call]
  BY DEF TypeInv, TypeOK
<1>2. calls[t] \in Call
  BY <1>1
<1>3. /\ \A u \in Callers : u # t => calls'[u] = calls[u]
      /\ calls'[t] = [calls[t] EXCEPT !.step = s]
  BY <1>1
<1>4. calls'[t].step = s /\ calls'[t].plan = calls[t].plan
  BY <1>2, <1>3 DEF Call
<1>. QED BY <1>3, <1>4 DEF CallsGoOn

\* So does one that moves to its commit with the reservation made for its plan.
LEMMA ReservedGoesOn ==
  ASSUME TypeInv, NEW t \in Callers, calls[t].step # "idle", ReserveGranted(calls[t].plan),
         calls' = [calls EXCEPT ![t].step = "commit", ![t].reservation = next_resv]
  PROVE  CallsGoOn
<1>1. calls \in [Callers -> Call]
  BY DEF TypeInv, TypeOK
<1>2. calls[t] \in Call
  BY <1>1
<1>3. /\ \A u \in Callers : u # t => calls'[u] = calls[u]
      /\ calls'[t].step = "commit"
      /\ calls'[t].plan = calls[t].plan
      /\ calls'[t].reservation = next_resv
  BY <1>1, <1>2 DEF Call
<1> DEFINE new == [composition |-> calls[t].plan, items |-> HoldsFor(plans[calls[t].plan]),
                   state |-> "PROVISIONAL"]
<1>4. reservations' = Put(reservations, next_resv, new) /\ new.composition = calls[t].plan
  BY DEF ReserveGranted
<1> HIDE DEF new
<1>5. next_resv \in DOMAIN reservations' /\ reservations'[next_resv] = new
  BY <1>4 DEF Put
<1>. QED BY <1>3, <1>4, <1>5 DEF CallsGoOn

\* Every step of a careful caller's Recompute is of one of the four kinds, and
\* keeps plans known and Recompute calls careful.
LEMMA CarefulRecompute ==
  ASSUME CarefulInv, NEW t \in Callers,
         \/ RecomputeNext(t)
         \/ \E c \in CompositionId, answers \in PathAnswers :
              /\ Backed(c) /\ ~ BeingReplaced(c) /\ ~ BeingBuilt(c)
              /\ RecomputeCompose(t, c, answers)
  PROVE  HoldStep /\ PlansKnown' /\ CallsCareful'
<1>0. /\ TypeInv /\ TypeOK /\ CallsKnown /\ RegisteredPositive /\ PlansKnown /\ HoldsInv
      /\ CallsCareful
      /\ \A c \in DOMAIN compositions : compositions[c].request \in CompositionRequest
  BY DEF CarefulInv, TypeInv, TypeOK, Composition
<1>1. ASSUME Keeps, CallsGoOn, UNCHANGED planning
      PROVE  HoldStep /\ PlansKnown' /\ CallsCareful'
  <2>1. HoldStep
    BY <1>1 DEF HoldStep
  <2>2. \A d : Backed(d) => Backed(d)'
    BY <1>0, <1>1, KeepsHolds
  <2>3. CallsCareful'
    BY <1>0, <1>1, <2>1, <2>2, CallsSpared
  <2>. QED BY <1>0, <1>1, <2>1, <2>3, RelabelPlans DEF Keeps
<1>2. ASSUME NEW c, NEW l \in Lifecycle \ Settled, NEW s \in {"RELEASED", "ROLLED_BACK"},
             Ends(c, l, s), ~ StillReplaced(c), CallsGoOn, UNCHANGED planning
      PROVE  HoldStep /\ PlansKnown' /\ CallsCareful'
  <2>1. HoldStep
    BY <1>2 DEF HoldStep
  <2>2. \A d : d # c /\ Backed(d) => Backed(d)'
    BY <1>0, <1>2, EndsHolds
  <2>3. CallsCareful'
    BY <1>0, <1>2, <2>1, <2>2, CallsSpared
  <2>4. Relabels(compositions')
    BY <1>0, <1>2, WithLifecycleRelabels DEF Ends
  <2>. QED BY <1>0, <1>2, <2>1, <2>3, <2>4, RelabelPlans
<1>3. ASSUME NEW c \in CompositionId, NEW answers \in PathAnswers,
             Backed(c), ~ BeingReplaced(c), ~ BeingBuilt(c), RecomputeCompose(t, c, answers)
      PROVE  HoldStep /\ PlansKnown' /\ CallsCareful'
  <2>1. /\ c \in DOMAIN compositions
        /\ ComposeBody(compositions[c].request, answers, FALSE)
        /\ UNCHANGED <<compositions, reservations, reserved_amount, next_resv>>
        /\ calls' = [calls EXCEPT ![t] = [step |-> "release", old |-> c,
                                          plan |-> next_comp, reservation |-> 0]]
    BY <1>3 DEF RecomputeCompose, ledger
  <2>2. PlansKnown' /\ next_comp \notin DOMAIN plans
    BY <1>0, <2>1, ComposePlans
  <2>3. Keeps
    BY <1>0, <2>1, StutterKeeps
  <2>4. CallsCareful'
    BY <1>0, <1>3, <2>1, <2>2, CallStarts
  <2>. QED BY <2>2, <2>3, <2>4 DEF HoldStep
<1>4. CASE RecomputeRelease(t)
  <2> DEFINE old == calls[t].old
  <2>1. /\ calls[t].step = "release" /\ FreeHolds(old)
        /\ compositions' = WithLifecycle(old, "RELEASED")
        /\ calls' = [calls EXCEPT ![t].step = "reserve"]
        /\ UNCHANGED <<next_resv, planning>>
    BY <1>4 DEF RecomputeRelease
  <2>2. Backed(old) /\ \A u \in Callers : u # t /\ calls[u].step = "release" => calls[u].old # old
    BY <1>0, <2>1 DEF CallsCareful
  <2> HIDE DEF old
  <2>3. Ends(old, "RELEASED", "RELEASED")
    BY <2>1, <2>2, FreeEnds
  <2>4. CallsGoOn /\ calls'[t].step = "reserve"
    BY <1>0, <2>1, MoveGoesOn
  <2>5. ~ StillReplaced(old)
    BY <2>1, <2>2, <2>4 DEF StillReplaced
  <2>6. "RELEASED" \in Lifecycle \ Settled
    BY DEF Lifecycle, Settled
  <2>. QED BY <1>2, <2>1, <2>3, <2>4, <2>5, <2>6
<1>5. CASE RecomputeReserve(t)
  <2> DEFINE id == calls[t].plan
  <2>1. id \in DOMAIN plans /\ calls[t].step # "idle" /\ UNCHANGED planning
    BY <1>0, <1>5 DEF RecomputeReserve, CallsKnown
  <2>2. CASE ReserveRefused(id) /\ Return(t)
    <3>1. Keeps
      BY <1>0, <2>2, StutterKeeps DEF ReserveRefused
    <3>. QED BY <1>0, <1>1, <2>1, <2>2, <3>1, ReturnGoesOn
  <2>3. CASE /\ ReserveGranted(id)
             /\ calls' = [calls EXCEPT ![t].step = "commit", ![t].reservation = next_resv]
    <3>1. HoldStep /\ CallsGoOn
      BY <1>0, <2>1, <2>3, ReservedGoesOn DEF HoldStep
    <3>2. \A d : Backed(d) => Backed(d)'
      BY <1>0, <2>1, <2>3, GrantsHolds
    <3>3. CallsCareful'
      BY <1>0, <3>1, <3>2, CallsSpared
    <3>4. PlansKnown'
      BY <1>0, <2>1, <2>3, GrantPlans
    <3>. QED BY <3>1, <3>3, <3>4
  <2>. QED BY <1>5, <2>2, <2>3 DEF RecomputeReserve
<1>6. CASE RecomputeCommit(t)
  <2> DEFINE v == calls[t].reservation
  <2>1. /\ calls[t].step = "commit" /\ calls[t].step # "idle"
        /\ UNCHANGED <<next_resv, planning>>
        /\ reservations[v].composition = calls[t].plan
    BY <1>0, <1>6 DEF RecomputeCommit, CallsCareful
  <2>2. CASE CommitGranted(v) /\ calls' = [calls EXCEPT ![t].step = "activate"]
    <3>1. Commits(v)
      BY <2>1, <2>2 DEF Commits
    <3>2. HoldStep /\ CallsGoOn
      BY <1>0, <2>1, <2>2, <3>1, MoveGoesOn DEF HoldStep
    <3>3. \A d : Backed(d) => Backed(d)'
      BY <1>0, <3>1, CommitsHolds
    <3>4. CallsCareful'
      BY <1>0, <3>2, <3>3, CallsSpared
    <3>5. Relabels(compositions')
      BY <1>0, <2>1, <2>2, CommitType
    <3>. QED BY <1>0, <2>1, <3>2, <3>4, <3>5, RelabelPlans
  <2>3. CASE CommitRolledBack(v) /\ Return(t)
    <3>1. "REVALIDATION_REQUIRED" \in Lifecycle \ Settled
      BY DEF Lifecycle, Settled
    <3>2. Ends(reservations[v].composition, "REVALIDATION_REQUIRED", "ROLLED_BACK")
      BY <1>0, <2>1, <2>3, RollbackEnds
    <3>3. ~ StillReplaced(reservations[v].composition)
      BY <1>0, <2>1 DEF StillReplaced, CallsCareful
    <3>4. CallsGoOn
      BY <1>0, <2>3, ReturnGoesOn
    <3>. QED BY <1>2, <2>1, <3>1, <3>2, <3>3, <3>4
  <2>4. CASE Return(t) /\ UNCHANGED <<compositions, reservations, reserved_amount>>
    <3>1. Keeps
      BY <1>0, <2>1, <2>4, StutterKeeps
    <3>. QED BY <1>0, <1>1, <2>1, <2>4, <3>1, ReturnGoesOn
  <2>. QED BY <1>6, <2>2, <2>3, <2>4 DEF RecomputeCommit
<1>7. CASE RecomputeActivate(t)
  <2>1. Return(t) /\ UNCHANGED <<ledger, planning>>
    BY <1>7 DEF RecomputeActivate
  <2>2. Keeps
    <3>1. CASE ActivateBody(calls[t].plan)
      BY <1>0, <2>1, <3>1, ActivateKeeps
    <3>2. CASE UNCHANGED compositions
      BY <1>0, <2>1, <3>2, StutterKeeps DEF ledger
    <3>. QED BY <1>7, <3>1, <3>2 DEF RecomputeActivate
  <2>. QED BY <1>0, <1>1, <2>1, <2>2, ReturnGoesOn
<1>. QED BY <1>3, <1>4, <1>5, <1>6, <1>7 DEF RecomputeNext

-----------------------------------------------------------------------------
(* The theorems.                                                           *)

\* Every step of careful callers preserves the invariant and is, as far as holds
\* are concerned, of one of the four kinds.
LEMMA CarefulStep ==
  ASSUME PositiveCapacity, CarefulInv, [CarefulNext]_vars
  PROVE  CarefulInv' /\ HoldStep
<1>0. /\ TypeInv /\ RegisteredPositive /\ PlansKnown /\ HoldsInv /\ CallsCareful
  BY DEF CarefulInv
<1>1. TypeInv'
  BY <1>0, CarefulIsNext, TypeStep
<1>2. ASSUME HoldStep, PlansKnown', CallsCareful', UNCHANGED resources
      PROVE  CarefulInv' /\ HoldStep
  <2>1. HoldsInv'
    BY <1>0, <1>2, HoldStepHolds
  <2>2. RegisteredPositive'
    BY <1>0, <1>2 DEF RegisteredPositive
  <2>. QED BY <1>1, <1>2, <2>1, <2>2 DEF CarefulInv
<1>3. CASE RegistryNext
  <2>1. Keeps /\ UNCHANGED <<planning, calls>>
    BY <1>0, <1>3, RegistryKeeps
  <2>2. HoldStep /\ CallsGoOn
    BY <2>1 DEF HoldStep, CallsGoOn
  <2>3. HoldsInv' /\ \A d : Backed(d) => Backed(d)'
    BY <1>0, <2>1, KeepsHolds
  <2>4. CallsCareful'
    BY <1>0, <2>2, <2>3, CallsSpared
  <2>5. PlansKnown'
    BY <1>0, <2>1, RelabelPlans DEF Keeps
  <2>6. RegisteredPositive'
    BY <1>0, <1>3, PositiveStep
  <2>. QED BY <1>1, <2>2, <2>3, <2>4, <2>5, <2>6 DEF CarefulInv
<1>4. CASE CarefulCall
  <2>1. UNCHANGED resources
    BY <1>4 DEF CarefulCall, Compose, Reserve, Commit, Activate, BeginDrain, EndDrain,
                Release, registry
  <2>. QED BY <1>2, <1>4, <2>1, CarefulCallStep
<1>5. ASSUME NEW t \in Callers,
             \/ RecomputeNext(t)
             \/ \E c \in CompositionId, answers \in PathAnswers :
                  /\ Backed(c) /\ ~ BeingReplaced(c) /\ ~ BeingBuilt(c)
                  /\ RecomputeCompose(t, c, answers)
      PROVE  CarefulInv' /\ HoldStep
  <2>1. UNCHANGED resources
    BY <1>5 DEF RecomputeNext, RecomputeCompose, RecomputeRelease, RecomputeReserve,
                RecomputeCommit, RecomputeActivate, registry
  <2>. QED BY <1>2, <1>5, <2>1, CarefulRecompute
<1>6. CASE UNCHANGED vars
  <2>1. UNCHANGED <<compositions, reservations, reserved_amount, next_resv, planning, calls,
                    resources>>
    BY <1>6 DEF vars, ledger, registry
  <2>2. Keeps
    BY <1>0, <2>1, StutterKeeps
  <2>3. PlansKnown' /\ CallsCareful'
    BY <1>0, <2>1 DEF PlansKnown, CallsCareful, planning, Backed, Live
  <2>. QED BY <1>2, <2>1, <2>2, <2>3 DEF HoldStep
<1>. QED BY <1>3, <1>4, <1>5, <1>6 DEF CarefulNext, CarefulCall

\* Nothing is registered, planned, held or called at the start.
LEMMA CarefulInit == Init => CarefulInv
<1> SUFFICES ASSUME Init PROVE CarefulInv
  OBVIOUS
<1>1. TypeInv
  BY TypeInit
<1>2. LiveReservations = {}
  BY DEF Init, EmptyMap, LiveReservations
<1>3. HoldsInv
  BY <1>2 DEF Init, EmptyMap, HoldsInv, HoldsExact, ExclusiveHolds, Paired, IdsInOrder
<1>4. CallsCareful
  BY DEF Init, IdleCall, CallsCareful
<1>. QED BY <1>1, <1>3, <1>4 DEF Init, EmptyMap, CarefulInv, RegisteredPositive, PlansKnown

\* The careful callers' invariant gives what the runs check.
LEMMA CarefulGives == CarefulInv => ExclusiveHolds /\ BackedByHolds
<1> SUFFICES ASSUME CarefulInv PROVE ExclusiveHolds /\ BackedByHolds
  OBVIOUS
<1>1. HoldsInv
  BY DEF CarefulInv
<1>2. ASSUME NEW c \in DOMAIN compositions, compositions[c].lifecycle \in Settled
      PROVE  LET v == compositions[c].reservation
             IN /\ v \in DOMAIN reservations
                /\ reservations[v].state = "COMMITTED"
                /\ reservations[v].composition = c
                /\ DOMAIN reservations[v].items = compositions[c].members
                /\ \A r \in compositions[c].members :
                     reserved_amount[r] = reservations[v].items[r] /\ reserved_amount[r] > 0
  BY <1>1, <1>2 DEF HoldsInv, Paired, OwnReservation, HoldsExact, LiveReservations, Live
<1>. QED BY <1>1, <1>2 DEF HoldsInv, BackedByHolds, Settled

\* With careful callers and resources that have something to hold, no resource is
\* ever held by two live reservations, whatever fails, lapses or is recomputed
\* around them (Reserve, Commit, Release, EndDrain, Recompute).
THEOREM Exclusivity ==
  ASSUME PositiveCapacity
  PROVE  CarefulSpec => []ExclusiveHolds
<1>1. CarefulInv /\ [CarefulNext]_vars => CarefulInv'
  BY CarefulStep
<1>2. CarefulInv => ExclusiveHolds
  BY CarefulGives
<1>. QED BY <1>1, <1>2, CarefulInit, PTL DEF CarefulSpec

\* Under the same conditions a COMMITTED, ACTIVE or DRAINING composition always
\* holds every one of its members through its own committed reservation.
THEOREM Backing ==
  ASSUME PositiveCapacity
  PROVE  CarefulSpec => []BackedByHolds
<1>1. CarefulInv /\ [CarefulNext]_vars => CarefulInv'
  BY CarefulStep
<1>2. CarefulInv => BackedByHolds
  BY CarefulGives
<1>. QED BY <1>1, <1>2, CarefulInit, PTL DEF CarefulSpec

\* Under the same conditions no two ACTIVE compositions ever share a member, also
\* while Recompute calls replace them.
THEOREM NoDuplicates ==
  ASSUME PositiveCapacity
  PROVE  CarefulSpec => []NoDuplicateAuthority
<1>1. CarefulInv /\ [CarefulNext]_vars => CarefulInv'
  BY CarefulStep
<1>2. ExclusiveHolds /\ BackedByHolds => NoDuplicateAuthority
  BY DEF ExclusiveHolds, BackedByHolds, NoDuplicateAuthority, LiveReservations, Live
<1>3. CarefulInv => NoDuplicateAuthority
  BY <1>2, CarefulGives
<1>. QED BY <1>1, <1>3, CarefulInit, PTL DEF CarefulSpec

-----------------------------------------------------------------------------
(* The ledger implements ExclusiveOwnership.                               *)

\* The owner of a resource is the composition of the one live reservation that
\* names it.
LEMMA OwnerIs ==
  ASSUME ExclusiveHolds, NEW r
  PROVE  /\ \A v \in LiveReservations :
              r \in DOMAIN reservations[v].items => OwnerOf(r) = reservations[v].composition
         /\ (\A v \in LiveReservations : r \notin DOMAIN reservations[v].items) => OwnerOf(r) = 0
<1>1. ASSUME NEW v \in LiveReservations, r \in DOMAIN reservations[v].items
      PROVE  OwnerOf(r) = reservations[v].composition
  <2> DEFINE w == CHOOSE w \in LiveReservations : r \in DOMAIN reservations[w].items
  <2>1. w \in LiveReservations /\ r \in DOMAIN reservations[w].items
    BY <1>1
  <2>2. w = v
    BY <1>1, <2>1 DEF ExclusiveHolds
  <2>. QED BY <1>1, <2>2 DEF OwnerOf
<1>. QED BY <1>1 DEF OwnerOf

\* The same, after a step.
LEMMA OwnerIsNext ==
  ASSUME ExclusiveHolds', NEW r
  PROVE  /\ \A v \in LiveReservations' :
              r \in DOMAIN reservations'[v].items => OwnerOf(r)' = reservations'[v].composition
         /\ (\A v \in LiveReservations' : r \notin DOMAIN reservations'[v].items)
              => OwnerOf(r)' = 0
<1>1. ASSUME NEW v \in LiveReservations', r \in DOMAIN reservations'[v].items
      PROVE  OwnerOf(r)' = reservations'[v].composition
  <2> DEFINE w == CHOOSE w \in LiveReservations' : r \in DOMAIN reservations'[w].items
  <2>1. w \in LiveReservations' /\ r \in DOMAIN reservations'[w].items
    BY <1>1
  <2>2. w = v
    BY <1>1, <2>1 DEF ExclusiveHolds
  <2>. QED BY <1>1, <2>2 DEF OwnerOf
<1>. QED BY <1>1 DEF OwnerOf

\* A step that keeps the live reservations, what they name and whose they are
\* changes no owner.
LEMMA SameOwners ==
  ASSUME ExclusiveHolds, ExclusiveHolds', NEW r, LiveReservations' = LiveReservations,
         \A v \in LiveReservations : /\ reservations'[v].items = reservations[v].items
                                     /\ reservations'[v].composition = reservations[v].composition
  PROVE  OwnerOf(r)' = OwnerOf(r)
<1>1. CASE \E v \in LiveReservations : r \in DOMAIN reservations[v].items
  <2>1. PICK v \in LiveReservations : r \in DOMAIN reservations[v].items
    BY <1>1
  <2>2. OwnerOf(r) = reservations[v].composition
    BY <2>1, OwnerIs
  <2>3. OwnerOf(r)' = reservations'[v].composition
    BY <2>1, OwnerIsNext
  <2>. QED BY <2>2, <2>3
<1>2. CASE \A v \in LiveReservations : r \notin DOMAIN reservations[v].items
  <2>1. OwnerOf(r) = 0
    BY <1>2, OwnerIs
  <2>2. OwnerOf(r)' = 0
    BY <1>2, OwnerIsNext
  <2>. QED BY <2>1, <2>2
<1>. QED BY <1>1, <1>2

\* Ending the reservation of c frees what c owned, and c owned something.
LEMMA EndsRelinquishes ==
  ASSUME CarefulInv, ExclusiveHolds', NEW c, NEW l \in Lifecycle \ Settled,
         NEW s \in {"RELEASED", "ROLLED_BACK"}, Ends(c, l, s)
  PROVE  /\ c \in CompositionId
         /\ \E r \in ResourceId : OwnerOf(r) = c
         /\ \A r \in ResourceId : OwnerOf(r)' = IF OwnerOf(r) = c THEN 0 ELSE OwnerOf(r)
<1> DEFINE v == compositions[c].reservation
<1>0. /\ TypeInv /\ TypeOK /\ PlansKnown /\ HoldsInv /\ Paired /\ ExclusiveHolds
  BY DEF CarefulInv, TypeInv, HoldsInv
<1>1. /\ c \in DOMAIN compositions /\ v \in LiveReservations /\ v \in DOMAIN reservations
      /\ reservations' = [reservations EXCEPT ![v].state = s]
  BY DEF Ends, Backed, LiveReservations
<1>2. /\ reservations[v].composition = c
      /\ DOMAIN reservations[v].items = compositions[c].members
      /\ \A w \in LiveReservations : reservations[w].composition = c => w = v
  BY <1>0, <1>1 DEF Paired, OwnReservation
<1>3. c \in CompositionId /\ 0 # c
  BY <1>0, <1>1 DEF TypeOK, CompositionId
<1>4. PICK m \in ResourceId : m \in DOMAIN reservations[v].items
  <2>1. compositions[c].members # {} /\ compositions[c].members \subseteq ResourceId
    BY <1>0, <1>1 DEF PlansKnown, TypeOK, Composition
  <2>. QED BY <1>2, <2>1
<1>5. OwnerOf(m) = c
  BY <1>0, <1>1, <1>2, <1>4, OwnerIs
<1>6. s \in ReservationState
  BY DEF ReservationState
<1> HIDE DEF v
<1>7. /\ DOMAIN reservations' = DOMAIN reservations
      /\ \A w \in DOMAIN reservations :
           /\ reservations'[w].items = reservations[w].items
           /\ reservations'[w].composition = reservations[w].composition
           /\ w # v => reservations'[w] = reservations[w]
      /\ reservations'[v].state = s
  BY <1>0, <1>1, <1>6, StateUpdate
<1>8. LiveReservations' = LiveReservations \ {v}
  BY <1>7 DEF LiveReservations, Live
<1>9. ASSUME NEW r \in ResourceId
      PROVE  OwnerOf(r)' = IF OwnerOf(r) = c THEN 0 ELSE OwnerOf(r)
  <2>1. CASE r \in DOMAIN reservations[v].items
    <3>1. OwnerOf(r) = c
      BY <1>0, <1>1, <1>2, <2>1, OwnerIs
    <3>2. \A w \in LiveReservations' : r \notin DOMAIN reservations'[w].items
      BY <1>0, <1>1, <1>7, <1>8, <2>1 DEF ExclusiveHolds, LiveReservations
    <3>3. OwnerOf(r)' = 0
      BY <3>2, OwnerIsNext
    <3>. QED BY <3>1, <3>3
  <2>2. CASE r \notin DOMAIN reservations[v].items
    <3>1. CASE \E w \in LiveReservations : r \in DOMAIN reservations[w].items
      <4>1. PICK w \in LiveReservations : r \in DOMAIN reservations[w].items
        BY <3>1
      <4>2. w # v /\ w \in DOMAIN reservations /\ w \in LiveReservations'
        BY <1>8, <2>2, <4>1 DEF LiveReservations
      <4>3. OwnerOf(r) = reservations[w].composition /\ reservations[w].composition # c
        BY <1>0, <1>2, <4>1, <4>2, OwnerIs
      <4>4. OwnerOf(r)' = reservations'[w].composition
        BY <1>7, <4>1, <4>2, OwnerIsNext
      <4>. QED BY <1>7, <4>2, <4>3, <4>4
    <3>2. CASE \A w \in LiveReservations : r \notin DOMAIN reservations[w].items
      <4>1. OwnerOf(r) = 0
        BY <1>0, <3>2, OwnerIs
      <4>2. \A w \in LiveReservations' : r \notin DOMAIN reservations'[w].items
        BY <1>7, <1>8, <3>2 DEF LiveReservations
      <4>3. OwnerOf(r)' = 0
        BY <4>2, OwnerIsNext
      <4>. QED BY <4>1, <4>3
    <3>. QED BY <3>1, <3>2
  <2>. QED BY <2>1, <2>2
<1>. QED BY <1>3, <1>4, <1>5, <1>9

\* A granted reservation gives its composition, which owned nothing, all members of
\* the plan, which nobody owned.
LEMMA GrantAcquires ==
  ASSUME CarefulInv, ExclusiveHolds', NEW id \in DOMAIN plans, ReserveGranted(id)
  PROVE  LET S == plans[id].members
         IN /\ id \in CompositionId /\ S # {} /\ S \subseteq ResourceId
            /\ \A r \in S : OwnerOf(r) = 0
            /\ \A r \in ResourceId : OwnerOf(r) # id
            /\ \A r \in ResourceId : OwnerOf(r)' = IF r \in S THEN id ELSE OwnerOf(r)
<1> DEFINE S == plans[id].members
           n == next_resv
<1>0. /\ TypeInv /\ TypeOK /\ PlansKnown /\ HoldsInv /\ Paired /\ ExclusiveHolds /\ HoldsExact
      /\ RegisteredPositive
  BY DEF CarefulInv, TypeInv, HoldsInv
<1>1. id \in CompositionId /\ id # 0 /\ S # {} /\ S \subseteq ResourceId
  <2>1. id \in CompositionId /\ CompositionPlan(plans[id])
    BY <1>0 DEF TypeOK
  <2>2. S # {}
    BY <1>0 DEF PlansKnown
  <2>3. S \subseteq ResourceId
    BY <2>1 DEF CompositionPlan
  <2>. QED BY <2>1, <2>2, <2>3 DEF CompositionId
<1>2. /\ DOMAIN reservations' = DOMAIN reservations \cup {n}
      /\ \A v \in DOMAIN reservations : v # n => reservations'[v] = reservations[v]
      /\ reservations'[n].state = "PROVISIONAL"
      /\ reservations'[n].composition = id
      /\ DOMAIN reservations'[n].items = S
      /\ \A r \in S : reserved_amount[r] = 0
  <2>1. /\ reservations'[n].items = HoldsFor(plans[id])
        /\ HoldsFor(plans[id]) \in [S -> Nat]
    BY <1>0, ReserveGrantedType
  <2>2. DOMAIN reservations'[n].items = S
    <3> HIDE DEF S, n
    <3>. QED BY <2>1
  <2>3. /\ DOMAIN reservations' = DOMAIN reservations \cup {n}
        /\ \A v \in DOMAIN reservations : v # n => reservations'[v] = reservations[v]
        /\ reservations'[n].state = "PROVISIONAL"
        /\ reservations'[n].composition = id
    BY <1>0, ReserveGrantedType
  <2>4. \A r \in S : reserved_amount[r] = 0
    <3>1. \A r \in ResourceId : r \in S => reserved_amount[r] = 0
      BY <1>0, ReserveGrantedType
    <3> HIDE DEF S, n
    <3>. QED BY <1>1, <3>1
  <2> HIDE DEF S, n
  <2>. QED BY <2>2, <2>3, <2>4
<1>3. n \in Nat /\ n \notin DOMAIN reservations
  <2>1. n \in Nat
    <3>1. n \in 1..(MaxReservations + 1)
      BY <1>0 DEF TypeOK
    <3> HIDE DEF n
    <3>. QED BY <3>1, BoundsAssumption
  <2>2. \A v \in DOMAIN reservations : v < n
    BY <1>0 DEF Paired, IdsInOrder
  <2> HIDE DEF n
  <2>. QED BY <2>1, <2>2
<1> HIDE DEF S, n
<1>4. /\ LiveReservations' = LiveReservations \cup {n}
      /\ \A v \in LiveReservations : v # n /\ reservations'[v] = reservations[v]
  BY <1>2, <1>3 DEF LiveReservations, Live
<1>5. \A v \in LiveReservations : S \cap DOMAIN reservations[v].items = {}
  BY <1>0, <1>2 DEF HoldsExact
<1>6. ASSUME NEW r \in S
      PROVE  OwnerOf(r) = 0 /\ OwnerOf(r)' = id
  <2>1. OwnerOf(r) = 0
    BY <1>0, <1>5, OwnerIs
  <2>2. OwnerOf(r)' = id
    BY <1>2, <1>4, OwnerIsNext
  <2>. QED BY <2>1, <2>2
<1>7. \A v \in LiveReservations : reservations[v].composition # id
  <2>1. ~ Backed(id)
    BY <1>0, GrantsHolds
  <2>. QED BY <1>0, <2>1 DEF Paired, Backed, LiveReservations
<1>8. ASSUME NEW r \in ResourceId
      PROVE  OwnerOf(r) # id
  BY <1>0, <1>1, <1>7, OwnerIs
<1>9. ASSUME NEW r \in ResourceId, r \notin S
      PROVE  OwnerOf(r)' = OwnerOf(r)
  <2>1. CASE \E w \in LiveReservations : r \in DOMAIN reservations[w].items
    <3>1. PICK w \in LiveReservations : r \in DOMAIN reservations[w].items
      BY <2>1
    <3>2. OwnerOf(r) = reservations[w].composition
      BY <1>0, <3>1, OwnerIs
    <3>3. OwnerOf(r)' = reservations'[w].composition
      BY <1>4, <3>1, OwnerIsNext
    <3>. QED BY <1>4, <3>2, <3>3
  <2>2. CASE \A w \in LiveReservations : r \notin DOMAIN reservations[w].items
    <3>1. OwnerOf(r) = 0
      BY <1>0, <2>2, OwnerIs
    <3>2. \A w \in LiveReservations' : r \notin DOMAIN reservations'[w].items
      BY <1>2, <1>4, <1>9, <2>2
    <3>3. OwnerOf(r)' = 0
      BY <3>2, OwnerIsNext
    <3>. QED BY <3>1, <3>3
  <2>. QED BY <2>1, <2>2
<1>10. \A r \in ResourceId : OwnerOf(r)' = IF r \in S THEN id ELSE OwnerOf(r)
  BY <1>6, <1>9
<1>. QED BY <1>1, <1>6, <1>8, <1>10 DEF S

\* A step of the four kinds is a step of ExclusiveOwnership or changes no owner.
LEMMA OwnershipStep ==
  ASSUME CarefulInv, CarefulInv', HoldStep
  PROVE  [Ownership!Next]_([r \in ResourceId |-> OwnerOf(r)])
<1> DEFINE owner == [r \in ResourceId |-> OwnerOf(r)]
<1>0. TypeInv /\ TypeOK /\ ExclusiveHolds /\ ExclusiveHolds' /\ Paired
  BY DEF CarefulInv, HoldsInv, TypeInv
<1>1. ASSUME \A r \in ResourceId : OwnerOf(r)' = OwnerOf(r)
      PROVE  owner' = owner
  BY <1>1
<1>2. CASE Keeps
  <2>1. reservations' = reservations /\ LiveReservations' = LiveReservations
    BY <1>2 DEF Keeps, LiveReservations, Live
  <2>2. \A r \in ResourceId : OwnerOf(r)' = OwnerOf(r)
    BY <1>0, <2>1, SameOwners
  <2>. QED BY <1>1, <2>2
<1>3. ASSUME NEW v, Commits(v)
      PROVE  owner' = owner
  <2>1. /\ v \in DOMAIN reservations /\ reservations[v].state = "PROVISIONAL"
        /\ reservations' = [reservations EXCEPT ![v].state = "COMMITTED"]
    BY <1>3 DEF Commits, CommitGranted, CommitAllowed
  <2>2. "COMMITTED" \in ReservationState
    BY DEF ReservationState
  <2>3. /\ DOMAIN reservations' = DOMAIN reservations
        /\ \A w \in DOMAIN reservations :
             /\ reservations'[w].items = reservations[w].items
             /\ reservations'[w].composition = reservations[w].composition
             /\ w # v => reservations'[w] = reservations[w]
        /\ reservations'[v].state = "COMMITTED"
    BY <1>0, <2>1, <2>2, StateUpdate
  <2>4. /\ LiveReservations' = LiveReservations
        /\ \A w \in LiveReservations :
             /\ reservations'[w].items = reservations[w].items
             /\ reservations'[w].composition = reservations[w].composition
    BY <2>1, <2>3 DEF LiveReservations, Live
  <2>5. \A r \in ResourceId : OwnerOf(r)' = OwnerOf(r)
    BY <1>0, <2>4, SameOwners
  <2>. QED BY <1>1, <2>5
<1>4. ASSUME NEW l \in Lifecycle \ Settled, NEW s \in {"RELEASED", "ROLLED_BACK"}, NEW c,
             Ends(c, l, s)
      PROVE  Ownership!Next
  <2>1. /\ c \in CompositionId
        /\ \E r \in ResourceId : OwnerOf(r) = c
        /\ \A r \in ResourceId : OwnerOf(r)' = IF OwnerOf(r) = c THEN 0 ELSE OwnerOf(r)
    BY <1>0, <1>4, EndsRelinquishes
  <2>2. \A r \in ResourceId : owner[r] = OwnerOf(r)
    OBVIOUS
  <2>3. owner' = [r \in ResourceId |-> IF owner[r] = c THEN 0 ELSE owner[r]]
    BY <2>1, <2>2
  <2>4. Ownership!Relinquish(c)
    BY <2>1, <2>3 DEF Ownership!Relinquish, Ownership!Owned
  <2>. QED BY <2>1, <2>4 DEF Ownership!Next
<1>5. ASSUME NEW id \in DOMAIN plans, ReserveGranted(id)
      PROVE  Ownership!Next
  <2> DEFINE S == plans[id].members
  <2>1. /\ id \in CompositionId /\ S # {} /\ S \subseteq ResourceId
        /\ \A r \in S : OwnerOf(r) = 0
        /\ \A r \in ResourceId : OwnerOf(r) # id
        /\ \A r \in ResourceId : OwnerOf(r)' = IF r \in S THEN id ELSE OwnerOf(r)
    BY <1>0, <1>5, GrantAcquires
  <2> HIDE DEF S
  <2>2. \A r \in ResourceId : owner[r] = OwnerOf(r)
    OBVIOUS
  <2>3. owner' = [r \in ResourceId |-> IF r \in S THEN id ELSE owner[r]]
    BY <2>1, <2>2
  <2>4. Ownership!Acquire(id, S)
    BY <2>1, <2>3 DEF Ownership!Acquire, Ownership!Owned
  <2>. QED BY <2>1, <2>4 DEF Ownership!Next
<1>. QED BY <1>2, <1>3, <1>4, <1>5 DEF HoldStep

\* The ledger implements exclusive, all-or-nothing ownership for careful callers
\* and resources that have something to hold.
THEOREM OwnershipImplemented ==
  ASSUME PositiveCapacity
  PROVE  CarefulSpec => OwnershipRefined
<1>1. CarefulInv /\ [CarefulNext]_vars => CarefulInv'
  BY CarefulStep
<1>2. Init => Ownership!Init
  <2>1. Init => LiveReservations = {}
    BY DEF Init, EmptyMap, LiveReservations
  <2>. QED BY <2>1 DEF Ownership!Init, OwnerOf
<1>3. CarefulInv /\ CarefulInv' /\ [CarefulNext]_vars
        => [Ownership!Next]_([r \in ResourceId |-> OwnerOf(r)])
  BY CarefulStep, OwnershipStep
<1>. QED BY <1>1, <1>2, <1>3, CarefulInit, PTL DEF CarefulSpec, OwnershipRefined, Ownership!Spec
=============================================================================
