--------------------------- MODULE CarefulCallers ---------------------------
(***************************************************************************)
(* FabricEngine with callers that keep the rules the engine itself does    *)
(* not enforce. Release, EndDrain and Recompute give back the items of a   *)
(* composition's reservation without looking at the reservation's state,   *)
(* so the ledger is exact only as long as                                  *)
(*   - Release and Recompute are called for a composition only while its   *)
(*     reservation is live (not after Commit rolled it back);              *)
(*   - nothing else ends that reservation while a Recompute call is        *)
(*     between planning the replacement and releasing the old composition. *)
(* Registry updates, failures, planning and replayed Reserve calls stay    *)
(* unrestricted.                                                           *)
(***************************************************************************)
EXTENDS FabricEngine

\* The composition's reservation has not ended.
Backed(c) ==
  /\ c \in DOMAIN compositions
  /\ compositions[c].reservation \in DOMAIN reservations
  /\ Live(compositions[c].reservation)

\* A Recompute call has planned the replacement of c and not yet released c.
BeingReplaced(c) == \E t \in Callers : calls[t].step = "release" /\ calls[t].old = c

\* A Recompute call is building c.
BeingBuilt(c) == \E t \in Callers : calls[t].step # "idle" /\ calls[t].plan = c

CarefulNext ==
  \/ RegistryNext
  \/ \E req \in Requests, answers \in PathAnswers : Compose(req, answers)
  \/ \E id \in CompositionId : Reserve(id)
  \/ \E v \in ReservationId :
       /\ v \in DOMAIN reservations /\ ~ BeingReplaced(reservations[v].composition)
       /\ Commit(v)
  \/ \E c \in CompositionId :
       \/ Activate(c)
       \/ BeginDrain(c)
       \/ ~ BeingReplaced(c) /\ EndDrain(c)
       \/ Backed(c) /\ ~ BeingReplaced(c) /\ Release(c)
  \/ \E t \in Callers :
       \/ RecomputeNext(t)
       \/ \E c \in CompositionId, answers \in PathAnswers :
            /\ Backed(c) /\ ~ BeingReplaced(c) /\ ~ BeingBuilt(c)
            /\ RecomputeCompose(t, c, answers)

CarefulSpec == Init /\ [][CarefulNext]_vars

\* Everything published has something to hold.
PositiveCapacity ==
  /\ \A r \in ResourceId : \A res \in PublishedResources[r] : HoldAmountForResource(res) > 0
  /\ \A rep \in Reports : \A r \in DOMAIN rep.resources :
       HoldAmountForResource(rep.resources[r]) > 0

-----------------------------------------------------------------------------
\* A composition that is COMMITTED, ACTIVE or DRAINING is backed by its own
\* committed reservation, and the ledger holds exactly the reserved amount of
\* every one of its members, whatever failed, lapsed or was recomputed around it
\* (Reserve, Commit, Release, EndDrain, Recompute).
BackedByHolds ==
  \A c \in DOMAIN compositions :
    compositions[c].lifecycle \in {"COMMITTED", "ACTIVE", "DRAINING"} =>
      LET v == compositions[c].reservation
      IN /\ v \in DOMAIN reservations
         /\ reservations[v].state = "COMMITTED"
         /\ reservations[v].composition = c
         /\ DOMAIN reservations[v].items = compositions[c].members
         /\ \A r \in compositions[c].members :
              reserved_amount[r] = reservations[v].items[r] /\ reserved_amount[r] > 0

\* The composition whose live reservation holds a resource, 0 when there is none.
OwnerOf(r) ==
  IF \E v \in LiveReservations : r \in DOMAIN reservations[v].items
  THEN reservations[CHOOSE v \in LiveReservations :
                      r \in DOMAIN reservations[v].items].composition
  ELSE 0

Ownership ==
  INSTANCE ExclusiveOwnership
    WITH Resources <- ResourceId, Owners <- CompositionId, Nobody <- 0,
         owner <- [r \in ResourceId |-> OwnerOf(r)]

\* The ledger implements exclusive all-or-nothing ownership: every step of the
\* engine acquires all members for one composition, relinquishes all resources
\* of one composition, or changes no ownership.
OwnershipRefined == Ownership!Spec
=============================================================================
