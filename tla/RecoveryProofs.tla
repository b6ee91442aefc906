--------------------------- MODULE RecoveryProofs ---------------------------
(***************************************************************************)
(* Proofs about Recovery: whatever is saved, whichever step a crash comes  *)
(* after and whatever file is left, a restarted engine is well typed and   *)
(* no composition has authority that was not earned in this process.       *)
(***************************************************************************)
EXTENDS Recovery, FabricEngineProofs, WellFoundedInduction, NaturalsInduction

Authorized == {"COMMITTED", "ACTIVE"}

\* Composition c's reservation is in the table and was made for c.
Owns(c) ==
  /\ compositions[c].reservation \in DOMAIN reservations
  /\ reservations[compositions[c].reservation].composition = c

\* Every reservation was made for a composition that has a reservation of its own,
\* this one or a later one; and AuthorityEarned.
Earned ==
  /\ \A v \in DOMAIN reservations :
       reservations[v].composition \in DOMAIN compositions /\ Owns(reservations[v].composition)
  /\ \A c \in DOMAIN compositions : compositions[c].lifecycle \in Authorized => Owns(c)

\* The invariants of the engine itself.
EngineInv == TypeInv /\ LedgerInv /\ AuthorityCurrent /\ Earned

\* Until it serves, a process has no reservation, no hold and no call.
Fresh ==
  phase # "serving" =>
    /\ reservations = EmptyMap
    /\ reserved_amount = [r \in ResourceId |-> 0]
    /\ calls = [t \in Callers |-> IdleCall]

RecoveryInv == EngineInv /\ RecoveryTypeOK /\ Fresh

-----------------------------------------------------------------------------
(* Authority is earned, in one process.                                    *)

\* The reservations stay and stay with their compositions.
SameOwners ==
  /\ DOMAIN reservations' = DOMAIN reservations
  /\ \A v \in DOMAIN reservations : reservations'[v].composition = reservations[v].composition

\* Only compositions that have authority, or own a reservation, have it afterwards.
GrantsToOwners ==
  \A c \in DOMAIN compositions :
    compositions'[c].lifecycle \in Authorized =>
      compositions[c].lifecycle \in Authorized \/ Owns(c)

\* A relabelling that grants authority to owners only keeps authority earned.
LEMMA RelabelEarned ==
  ASSUME Earned, Relabels(compositions'), GrantsToOwners, SameOwners
  PROVE  Earned'
<1>1. /\ DOMAIN compositions' = DOMAIN compositions
      /\ \A c \in DOMAIN compositions :
           compositions'[c].reservation = compositions[c].reservation
  BY DEF Relabels
<1>2. \A c \in DOMAIN compositions : Owns(c) => Owns(c)'
  BY <1>1 DEF Owns, SameOwners
<1>. QED BY <1>1, <1>2 DEF Earned, GrantsToOwners, SameOwners

\* Lapsing grants nothing.
LEMMA LapsedGrants ==
  ASSUME TypeOK, NEW hit, NEW early, compositions' = Lapsed(hit, early)
  PROVE  GrantsToOwners
<1>. SUFFICES ASSUME NEW c \in DOMAIN compositions, compositions'[c].lifecycle \in Authorized
              PROVE  compositions[c].lifecycle \in Authorized
  BY DEF GrantsToOwners
<1>1. CASE c \notin hit
  BY <1>1 DEF Lapsed
<1>2. CASE c \in hit
  <2> DEFINE l == Lapse(compositions[c].lifecycle, early)
  <2>1. Composition(compositions[c]) /\ compositions[c].lifecycle \in Lifecycle
    BY DEF TypeOK, Composition
  <2>2. compositions'[c] = [compositions[c] EXCEPT !.lifecycle = l]
    BY <1>2 DEF Lapsed
  <2>3. l \in Lifecycle /\ (l \in Authorized => compositions[c].lifecycle \in Authorized)
    BY <2>1 DEF Lapse, Lifecycle, Authorized
  <2> HIDE DEF l
  <2>. QED BY <2>1, <2>2, <2>3, LifecycleUpdate
<1>. QED BY <1>1, <1>2

\* Registry actions keep authority earned.
LEMMA RegistryEarned ==
  ASSUME TypeInv, Earned, RegistryNext
  PROVE  Earned'
<1>1. Relabels(compositions') /\ TypeOK
  BY RegistryRelabels DEF TypeInv
<1>2. SameOwners
  BY DEF RegistryNext, RegisterNode, RegisterResource, Discover, InvalidateNode,
         WithdrawResource, OnResourceFailure, MarkEvidenceRevalidationRequired,
         AdvanceEpoch, OnPolicyUpdate, OnPathUpdate, ledger, SameOwners
<1>3. ASSUME NEW e, AdvanceEpoch(e)
      PROVE  GrantsToOwners
  BY <1>1, <1>3, EpochRelabels DEF GrantsToOwners, Authorized
<1>4. ASSUME NEW N, NEW R, Ingest(N, R)
      PROVE  GrantsToOwners
  BY <1>1, <1>4, LapsedGrants DEF Ingest
<1>5. ASSUME NEW r, InvalidateNode(r)
      PROVE  GrantsToOwners
  BY <1>5 DEF InvalidateNode, GrantsToOwners
<1>6. ASSUME NEW r, WithdrawResource(r) \/ OnResourceFailure(r)
      PROVE  GrantsToOwners
  BY <1>1, <1>6, LapsedGrants DEF WithdrawResource, OnResourceFailure
<1>7. ASSUME NEW boot, MarkEvidenceRevalidationRequired(boot)
      PROVE  GrantsToOwners
  BY <1>1, <1>7, LapsedGrants DEF MarkEvidenceRevalidationRequired
<1>8. ASSUME NEW p, NEW g, OnPolicyUpdate(p, g) \/ OnPathUpdate(p, g)
      PROVE  GrantsToOwners
  BY <1>1, <1>8, LapsedGrants DEF OnPolicyUpdate, OnPathUpdate
<1>9. GrantsToOwners
  BY <1>3, <1>4, <1>5, <1>6, <1>7, <1>8
     DEF RegistryNext, RegisterNode, RegisterResource, Discover
<1>. QED BY <1>1, <1>2, <1>9, RelabelEarned

\* A granted Reserve makes the composition the owner of the new reservation. The
\* id is new, so no other composition loses its own.
LEMMA ReserveEarned ==
  ASSUME TypeInv, LedgerInv, Earned, NEW id \in DOMAIN plans,
         ReserveGranted(id) \/ ReserveRefused(id)
  PROVE  Earned'
<1>1. CASE ReserveRefused(id)
  BY <1>1 DEF ReserveRefused, Earned, Owns
<1>2. CASE ReserveGranted(id)
  <2>1. /\ DOMAIN compositions' = DOMAIN compositions \cup {id}
        /\ \A c \in DOMAIN compositions : c # id => compositions'[c] = compositions[c]
        /\ compositions'[id].lifecycle = "RESERVED"
        /\ compositions'[id].reservation = next_resv
        /\ DOMAIN reservations' = DOMAIN reservations \cup {next_resv}
        /\ \A v \in DOMAIN reservations : v # next_resv => reservations'[v] = reservations[v]
        /\ reservations'[next_resv].composition = id
    BY <1>2, ReserveGrantedType
  <2>2. next_resv \notin DOMAIN reservations
    BY DEF LedgerInv, IdsInOrder, TypeInv, TypeOK
  <2>3. Owns(id)'
    BY <2>1 DEF Owns
  <2>4. \A c \in DOMAIN compositions : c # id /\ Owns(c) => Owns(c)'
    BY <2>1, <2>2 DEF Owns
  <2>5. ASSUME NEW v \in DOMAIN reservations'
        PROVE  /\ reservations'[v].composition \in DOMAIN compositions'
               /\ Owns(reservations[v].composition)'
    <3>1. CASE v = next_resv
      BY <2>1, <2>3, <3>1
    <3>2. CASE v # next_resv
      BY <2>1, <2>3, <2>4, <3>2 DEF Earned
    <3>. QED BY <3>1, <3>2
  <2>6. ASSUME NEW c \in DOMAIN compositions', compositions'[c].lifecycle \in Authorized
        PROVE  Owns(c)'
    BY <2>1, <2>4, <2>6 DEF Earned, Authorized
  <2>. QED BY <2>5, <2>6 DEF Earned
<1>. QED BY <1>1, <1>2

\* Commit grants authority to the composition of a reservation, which is an owner.
LEMMA CommitEarned ==
  ASSUME TypeInv, Earned, NEW v, CommitGranted(v) \/ CommitRolledBack(v), UNCHANGED next_resv
  PROVE  Earned'
<1> DEFINE c == reservations[v].composition
<1>1. v \in DOMAIN reservations /\ c \in DOMAIN compositions /\ Owns(c) /\ TypeOK
  BY DEF CommitGranted, CommitRolledBack, CommitAllowed, Earned, TypeInv
<1>2. PICK l \in Lifecycle : compositions' = WithLifecycle(c, l)
  BY DEF CommitGranted, CommitRolledBack, WithLifecycle, Lifecycle
<1>3. PICK s \in ReservationState : reservations' = [reservations EXCEPT ![v].state = s]
  BY DEF CommitGranted, CommitRolledBack, ReservationState
<1> HIDE DEF c
<1>4. SameOwners
  BY <1>1, <1>3, StateUpdate DEF SameOwners
<1>5. Relabels(compositions') /\ GrantsToOwners
  BY <1>1, <1>2, WithLifecycleRelabels DEF GrantsToOwners
<1>. QED BY <1>4, <1>5, RelabelEarned

\* Activate is granted to a COMMITTED composition.
LEMMA ActivateEarned ==
  ASSUME TypeInv, Earned, NEW c, ActivateBody(c), UNCHANGED reservations
  PROVE  Earned'
<1>1. c \in DOMAIN compositions /\ compositions[c].lifecycle \in Authorized /\ TypeOK
  BY DEF ActivateBody, ActivateAllowed, Authorized, TypeInv
<1>2. PICK l \in Lifecycle : compositions' = WithLifecycle(c, l)
  BY DEF ActivateBody, WithLifecycle, Lifecycle
<1>3. Relabels(compositions') /\ GrantsToOwners
  BY <1>1, <1>2, WithLifecycleRelabels DEF GrantsToOwners
<1>4. SameOwners
  BY DEF SameOwners
<1>. QED BY <1>3, <1>4, RelabelEarned

\* Ending a composition takes authority away.
LEMMA RetireEarned ==
  ASSUME TypeInv, Earned, NEW c, FreeHolds(c) \/ UNCHANGED reservations,
         NEW l \in Lifecycle \ Authorized, compositions' = WithLifecycle(c, l)
  PROVE  Earned'
<1>1. Relabels(compositions') /\ GrantsToOwners
  BY WithLifecycleRelabels DEF TypeInv, GrantsToOwners
<1>2. SameOwners
  <2>1. CASE UNCHANGED reservations
    BY <2>1 DEF SameOwners
  <2>2. CASE /\ compositions[c].reservation \in DOMAIN reservations
             /\ reservations' = [reservations EXCEPT ![compositions[c].reservation].state
                                   = "RELEASED"]
    BY <2>2, StateUpdate DEF TypeInv, ReservationState, SameOwners
  <2>. QED BY <2>1, <2>2 DEF FreeHolds
<1>. QED BY <1>1, <1>2, RelabelEarned

\* Every step of the engine keeps authority earned.
LEMMA EarnedStep == TypeInv /\ LedgerInv /\ Earned /\ [Next]_vars => Earned'
<1>. SUFFICES ASSUME TypeInv, LedgerInv, Earned, [Next]_vars PROVE Earned'
  OBVIOUS
<1>1. CASE UNCHANGED <<compositions, reservations>>
  BY <1>1 DEF Earned, Owns
<1>2. CASE UNCHANGED vars
  BY <1>1, <1>2 DEF vars, ledger
<1>3. CASE RegistryNext
  BY <1>3, RegistryEarned
<1>4. ASSUME NEW id, Reserve(id) PROVE Earned'
  BY <1>4, ReserveEarned DEF Reserve
<1>5. ASSUME NEW v, Commit(v) PROVE Earned'
  BY <1>5, CommitEarned DEF Commit
<1>6. ASSUME NEW c, Activate(c) PROVE Earned'
  BY <1>6, ActivateEarned DEF Activate, ledger
<1>7. "DRAINING" \in Lifecycle \ Authorized /\ "RELEASED" \in Lifecycle \ Authorized
  BY DEF Lifecycle, Authorized
<1>8. ASSUME NEW c, BeginDrain(c) \/ EndDrain(c) \/ Release(c) PROVE Earned'
  BY <1>7, <1>8, RetireEarned DEF BeginDrain, EndDrain, Release, ledger
<1>9. CASE EngineCall
  BY <1>1, <1>4, <1>5, <1>6, <1>8, <1>9 DEF EngineCall, Compose, ledger
<1>10. ASSUME NEW t \in Callers, RecomputeRelease(t) PROVE Earned'
  BY <1>7, <1>10, RetireEarned DEF RecomputeRelease
<1>11. ASSUME NEW t \in Callers, RecomputeReserve(t) PROVE Earned'
  <2>1. calls[t].plan \in DOMAIN plans
    BY <1>11 DEF RecomputeReserve, TypeInv, CallsKnown
  <2>. QED BY <1>11, <2>1, ReserveEarned DEF RecomputeReserve
<1>12. ASSUME NEW t \in Callers, RecomputeCommit(t) PROVE Earned'
  BY <1>1, <1>12, CommitEarned DEF RecomputeCommit
<1>13. ASSUME NEW t \in Callers, RecomputeActivate(t) PROVE Earned'
  BY <1>1, <1>13, ActivateEarned DEF RecomputeActivate, ledger
<1>14. CASE RecomputeStep
  BY <1>1, <1>10, <1>11, <1>12, <1>13, <1>14
     DEF RecomputeStep, RecomputeNext, RecomputeCompose, ledger
<1>. QED BY <1>2, <1>3, <1>9, <1>14, NextSplit

\* Every step of the engine preserves its invariants.
LEMMA EngineStep == EngineInv /\ [Next]_vars => EngineInv'
BY TypeStep, LedgerStep, AuthorityStep, EarnedStep DEF EngineInv

-----------------------------------------------------------------------------
(* Load.                                                                   *)

\* A bounded nonempty set of naturals has a maximum.
LEMMA MaxInSet ==
  ASSUME NEW n \in Nat, NEW S, S \subseteq 0..n, S # {}
  PROVE  Max(S) \in S /\ \A y \in S : y <= Max(S)
<1> DEFINE T == {n - x : x \in S}
<1>1. T \subseteq Nat /\ T # {}
  <2>1. \A x \in S : n - x \in Nat
    OBVIOUS
  <2>2. PICK x \in S : TRUE
    OBVIOUS
  <2>. QED BY <2>1, <2>2, n - x \in T
<1>2. PICK t \in T : \A y \in T : t <= y
  <2>. HIDE DEF T
  <2>1. PICK t \in T : \A y \in T : ~ (<<y, t>> \in OpToRel(<, Nat))
    BY <1>1, NatLessThanWellFounded, WFMin
  <2>2. \A y \in T : ~ (y < t) /\ y \in Nat
    BY <1>1, <2>1, Zenon DEF OpToRel
  <2>. QED BY <2>2
<1>3. t \in Nat /\ \A y \in T : y \in Nat
  BY <1>1
<1>4. PICK m \in S : t = n - m
  BY <1>2
<1>5. \A y \in S : m >= y
  BY <1>2, <1>3, <1>4
<1>6. Max(S) \in S /\ \A y \in S : Max(S) >= y
  BY <1>5 DEF Max
<1>. QED BY <1>6

\* The next composition id after Load is one the bounds allow.
LEMMA NextAfterType ==
  ASSUME TypeOK, NEW ids, ids \subseteq CompositionId
  PROVE  NextAfter(ids) \in 1..(MaxCompositions + 1)
<1> DEFINE S == {next_comp} \cup {c + 1 : c \in ids}
<1>1. S \subseteq 1..(MaxCompositions + 1) /\ S # {}
  BY BoundsAssumption DEF TypeOK, CompositionId
<1>2. S \subseteq 0..(MaxCompositions + 1) /\ MaxCompositions + 1 \in Nat
  BY <1>1, BoundsAssumption
<1> HIDE DEF S
<1>3. Max(S) \in S
  BY <1>1, <1>2, MaxInSet
<1>. QED BY <1>1, <1>3 DEF NextAfter, S

\* A restored composition is one, without authority.
LEMMA RestoredType ==
  ASSUME NEW comp, Composition(comp)
  PROVE  Composition(Restored(comp)) /\ Restored(comp).lifecycle \notin Authorized
<1> DEFINE req == StoredRequest(comp.request)
           l == IF comp.lifecycle \in {"ACTIVE", "COMMITTED"}
                THEN "RECOMPOSITION_REQUIRED" ELSE comp.lifecycle
<1>1. Restored(comp) = [comp EXCEPT !.request = req, !.lifecycle = l]
  BY DEF Restored
<1>2. req \in CompositionRequest
  BY DEF Composition, CompositionRequest, StoredRequest, Topology
<1>3. l \in Lifecycle /\ l \notin Authorized
  BY DEF Composition, Lifecycle, Authorized
<1> HIDE DEF req, l
<1>. QED BY <1>1, <1>2, <1>3 DEF Composition

\* Loading a saved state into an engine that holds nothing and serves nobody.
LEMMA LoadType ==
  ASSUME EngineInv, NEW d, DurableState(d), LoadState(d),
         IsMap(paths', Link, PathEvidence),
         reserved_amount = [r \in ResourceId |-> 0],
         calls = [t \in Callers |-> IdleCall]
  PROVE  EngineInv'
<1>1. /\ epoch' = d.epoch /\ nodes' = d.nodes /\ policies' = d.policies
      /\ reservations' = EmptyMap
      /\ UNCHANGED <<reserved_amount, next_resv, draining, fenced, plans, calls>>
  BY DEF LoadState
<1>2. IsMap(resources', ResourceId, Resource)
  <2>1. \A r \in DOMAIN d.resources : r \in ResourceId /\ d.resources[r] \in Resource
    BY DEF DurableState, IsMap
  <2>. QED BY <2>1, ResourceUpdate DEF LoadState, IsMap
<1>3. /\ DOMAIN compositions' \subseteq CompositionId
      /\ \A c \in DOMAIN compositions' :
           Composition(compositions'[c]) /\ compositions'[c].lifecycle \notin Authorized
  <2>1. compositions' = [c \in DOMAIN d.compositions |-> Restored(d.compositions[c])]
    BY DEF LoadState
  <2>2. /\ DOMAIN d.compositions \subseteq CompositionId
        /\ \A c \in DOMAIN d.compositions : Composition(d.compositions[c])
    BY DEF DurableState
  <2>. QED BY <2>1, <2>2, RestoredType
<1>4. next_comp' \in 1..(MaxCompositions + 1)
  BY NextAfterType DEF LoadState, DurableState, EngineInv, TypeInv
<1>5. DOMAIN reservations' = {}
  BY <1>1 DEF EmptyMap
<1>6. TypeOK'
  BY <1>1, <1>2, <1>3, <1>4, <1>5 DEF EngineInv, TypeInv, TypeOK, DurableState
<1>7. CallsKnown'
  BY <1>1 DEF CallsKnown, IdleCall
<1>8. LedgerInv'
  BY <1>1, <1>5 DEF LedgerInv, IdsInOrder, NoLeakedHold
<1>9. AuthorityCurrent' /\ Earned'
  BY <1>3, <1>5 DEF AuthorityCurrent, Earned, Authorized
<1>. QED BY <1>6, <1>7, <1>8, <1>9 DEF EngineInv, TypeInv

-----------------------------------------------------------------------------
(* Files and Save calls.                                                   *)

\* A typed engine has a typed snapshot.
LEMMA SnapshotType ==
  ASSUME TypeOK PROVE DurableState(Snapshot)
BY DEF TypeOK, Snapshot, DurableState

\* The empty state, and what a file or a call holds at first.
LEMMA BlankType ==
  /\ DurableState(Blank)
  /\ Contents(Absent) /\ Contents(Empty) /\ Contents(Damaged)
  /\ SaveCall(NoSave)
<1>1. DurableState(Blank)
  BY EmptyIsMap DEF DurableState, Blank, EmptyMap
<1>. QED BY <1>1 DEF Contents, Absent, Empty, Damaged, SaveCall, NoSave

\* Every step of a Save keeps the files and the calls typed.
LEMMA SaveType ==
  ASSUME TypeOK, RecoveryTypeOK, NEW s \in Savers, Save(s)
  PROVE  RecoveryTypeOK'
<1>0. /\ Contents(file) /\ Contents(tmp) /\ DOMAIN saves = Savers
      /\ \A u \in Savers : SaveCall(saves[u])
      /\ begun \in 0..MaxSaves /\ UNCHANGED <<phase, restarts>>
  BY DEF RecoveryTypeOK, Save
<1>1. ASSUME NEW new, SaveCall(new), saves' = [saves EXCEPT ![s] = new]
      PROVE  DOMAIN saves' = Savers /\ \A u \in Savers : SaveCall(saves'[u])
  BY <1>0, <1>1
<1>2. ASSUME SaveReturns(s)
      PROVE  DOMAIN saves' = Savers /\ \A u \in Savers : SaveCall(saves'[u])
  BY <1>1, <1>2, BlankType DEF SaveReturns
<1>3. ASSUME NEW step \in {"write", "remove", "reopen", "copy"}, SaveGoes(s, step)
      PROVE  DOMAIN saves' = Savers /\ \A u \in Savers : SaveCall(saves'[u])
  <2> DEFINE new == [saves[s] EXCEPT !.step = step]
  <2>1. SaveCall(new)
    BY <1>0 DEF SaveCall
  <2>2. saves' = [saves EXCEPT ![s] = new]
    BY <1>3 DEF SaveGoes
  <2> HIDE DEF new
  <2>. QED BY <1>1, <2>1, <2>2
<1>4. ASSUME NEW f, NEW content, Contents(f), Contents(content), NEW g \in Written(f, content)
      PROVE  Contents(g)
  BY <1>4, BlankType DEF Written
<1>5. CASE SaveSnapshot(s)
  <2> DEFINE new == [step |-> "create", state |-> Snapshot]
  <2>1. SaveCall(new)
    BY SnapshotType DEF SaveCall
  <2>2. saves' = [saves EXCEPT ![s] = new] /\ begun' = begun + 1 /\ begun < MaxSaves
        /\ UNCHANGED <<file, tmp>>
    BY <1>5 DEF SaveSnapshot, disk
  <2> HIDE DEF new
  <2>3. begun' \in 0..MaxSaves
    BY <1>0, <2>2, RecoveryAssumption
  <2>. QED BY <1>0, <1>1, <2>1, <2>2, <2>3 DEF RecoveryTypeOK
<1>6. CASE SaveCreate(s)
  BY <1>0, <1>3, <1>6, BlankType DEF SaveCreate, RecoveryTypeOK
<1>7. CASE SaveWrite(s)
  <2>1. Contents(Whole(saves[s].state))
    BY <1>0 DEF SaveCall, Contents, Whole
  <2>2. Contents(tmp')
    BY <1>0, <1>4, <1>7, <2>1, BlankType DEF SaveWrite
  <2>. QED BY <1>0, <1>2, <1>3, <1>7, <2>2 DEF SaveWrite, RecoveryTypeOK
<1>8. CASE SaveReopen(s)
  BY <1>0, <1>2, <1>3, <1>8, BlankType DEF SaveReopen, RecoveryTypeOK
<1>9. CASE SaveCopy(s)
  <2>1. Contents(file') /\ Contents(tmp')
    BY <1>0, <1>4, <1>9, BlankType DEF SaveCopy, Removed
  <2>. QED BY <1>0, <1>2, <1>9, <2>1 DEF SaveCopy, RecoveryTypeOK
<1>10. CASE SaveCannotOpen(s)
  BY <1>0, <1>2, <1>10 DEF SaveCannotOpen, disk, RecoveryTypeOK
<1>11. CASE SaveRemove(s)
  <2>1. Contents(file')
    BY <1>0, <1>11, BlankType DEF SaveRemove, Removed
  <2>. QED BY <1>0, <1>3, <1>11, <2>1 DEF SaveRemove, RecoveryTypeOK
<1>. QED BY <1>5, <1>6, <1>7, <1>8, <1>9, <1>10, <1>11 DEF Save

-----------------------------------------------------------------------------
(* The life of the process.                                                *)

\* An engine with nothing in it satisfies the invariants.
LEMMA EmptyEngine ==
  ASSUME TypeOK,
         epoch' = 1,
         nodes' = EmptyMap, resources' = EmptyMap, paths' = EmptyMap,
         policies' = EmptyMap, compositions' = EmptyMap, reservations' = EmptyMap,
         reserved_amount' = [r \in ResourceId |-> 0],
         draining' = {}, fenced' = {}, next_comp' = 1, next_resv' = 1,
         calls' = [t \in Callers |-> IdleCall], plans' = plans
  PROVE  EngineInv'
<1>1. /\ IsMap(nodes', NodeId, Node) /\ IsMap(resources', ResourceId, Resource)
      /\ IsMap(paths', Link, PathEvidence) /\ IsMap(policies', PolicyId, Nat)
  BY EmptyIsMap
<1>2. DOMAIN compositions' = {} /\ DOMAIN reservations' = {}
  BY DEF EmptyMap
<1>3. IdleCall \in Call
  BY BoundsAssumption DEF IdleCall, Call
<1>4. TypeOK'
  BY <1>1, <1>2, <1>3, BoundsAssumption DEF TypeOK
<1>5. CallsKnown'
  BY DEF CallsKnown, IdleCall
<1>6. LedgerInv'
  BY <1>2 DEF LedgerInv, IdsInOrder, NoLeakedHold
<1>7. AuthorityCurrent' /\ Earned'
  BY <1>2 DEF AuthorityCurrent, Earned
<1>. QED BY <1>4, <1>5, <1>6, <1>7 DEF EngineInv, TypeInv

\* Init has the invariants.
LEMMA RecoveryStart == RecoveryInit => RecoveryInv
<1>. SUFFICES ASSUME RecoveryInit PROVE RecoveryInv
  OBVIOUS
<1>1. TypeInv
  BY TypeInit DEF RecoveryInit
<1>2. DOMAIN compositions = {} /\ DOMAIN reservations = {}
  BY DEF RecoveryInit, Init, EmptyMap
<1>3. LedgerInv
  BY <1>2 DEF RecoveryInit, Init, LedgerInv, IdsInOrder, NoLeakedHold
<1>4. AuthorityCurrent /\ Earned
  BY <1>2 DEF AuthorityCurrent, Earned
<1>5. RecoveryTypeOK
  BY BlankType, RecoveryAssumption DEF RecoveryInit, RecoveryTypeOK
<1>6. Fresh
  BY DEF RecoveryInit, Init, Fresh
<1>. QED BY <1>1, <1>3, <1>4, <1>5, <1>6 DEF RecoveryInv, EngineInv

\* Loading, from a file or from nothing, gives nobody authority.
LEMMA LoadStep ==
  ASSUME RecoveryInv, StartLoad
  PROVE  RecoveryInv'
<1>1. /\ phase = "starting" /\ phase' = "loaded"
      /\ UNCHANGED <<file, tmp, saves, begun, restarts>>
  BY DEF StartLoad, disk, saving
<1>2. /\ reservations = EmptyMap
      /\ reserved_amount = [r \in ResourceId |-> 0]
      /\ calls = [t \in Callers |-> IdleCall]
  BY <1>1 DEF RecoveryInv, Fresh
<1>3. IsMap(paths', Link, PathEvidence)
  BY OverrideMap, RecoveryAssumption DEF StartLoad, RecoveryInv, EngineInv, TypeInv, TypeOK
<1>4. RecoveryTypeOK'
  BY <1>1 DEF RecoveryInv, RecoveryTypeOK
<1>5. CASE Readable(file)
  <2>1. DurableState(file.state) /\ LoadState(file.state)
    BY <1>5 DEF StartLoad, RecoveryInv, RecoveryTypeOK, Contents
  <2>2. EngineInv'
    BY <1>2, <1>3, <2>1, LoadType DEF RecoveryInv
  <2>3. Fresh'
    BY <1>2, <2>1 DEF LoadState, Fresh
  <2>. QED BY <1>4, <2>2, <2>3 DEF RecoveryInv
<1>6. CASE ~ Readable(file)
  <2>1. UNCHANGED <<epoch, nodes, resources, policies, compositions, ledger,
                    draining, fenced, planning, calls>>
    BY <1>6 DEF StartLoad
  <2>2. UNCHANGED <<reservations, reserved_amount, next_resv, plans, next_comp>>
    BY <2>1 DEF ledger, planning
  <2>3. TypeInv'
    <3>1. TypeOK'
      BY <1>3, <2>1, <2>2 DEF RecoveryInv, EngineInv, TypeInv, TypeOK
    <3>2. CallsKnown'
      BY <2>1, <2>2 DEF RecoveryInv, EngineInv, TypeInv, CallsKnown
    <3>. QED BY <3>1, <3>2 DEF TypeInv
  <2>4. LedgerInv'
    BY <2>1, SameLedger DEF RecoveryInv, EngineInv
  <2>5. AuthorityCurrent'
    BY <2>1 DEF RecoveryInv, EngineInv, AuthorityCurrent
  <2>6. Earned'
    BY <2>1, <2>2 DEF RecoveryInv, EngineInv, Earned, Owns
  <2>7. Fresh'
    BY <1>2, <2>1, <2>2 DEF Fresh
  <2>. QED BY <1>4, <2>3, <2>4, <2>5, <2>6, <2>7 DEF RecoveryInv, EngineInv
<1>. QED BY <1>5, <1>6

\* Setting the epoch before serving only takes authority away.
LEMMA ServingStep ==
  ASSUME RecoveryInv, NEW e \in StartEpochs, StartServing(e)
  PROVE  RecoveryInv'
<1>1. /\ AdvanceEpoch(e) /\ phase' = "serving"
      /\ UNCHANGED <<file, tmp, saves, begun, restarts>>
  BY DEF StartServing, disk, saving
<1>2. TypeInv /\ TypeOK /\ e \in Nat \ {0}
  BY RecoveryAssumption DEF RecoveryInv, EngineInv, TypeInv
<1>3. /\ Relabels(compositions')
      /\ \A c \in DOMAIN compositions :
           /\ compositions'[c].lifecycle # "ACTIVE"
           /\ compositions'[c].lifecycle = "COMMITTED" =>
                compositions[c].lifecycle = "COMMITTED"
  BY <1>1, <1>2, EpochRelabels
<1>4. TypeInv'
  BY <1>1, <1>2, EpochType
<1>5. UNCHANGED ledger /\ UNCHANGED reservations
  BY <1>1 DEF AdvanceEpoch, ledger
<1>6. LedgerInv'
  BY <1>5, SameLedger DEF RecoveryInv, EngineInv
<1>7. DOMAIN compositions' = DOMAIN compositions
  BY <1>3 DEF Relabels
<1>8. AuthorityCurrent'
  BY <1>3, <1>7 DEF AuthorityCurrent
<1>9. Earned'
  <2>1. GrantsToOwners
    BY <1>3 DEF GrantsToOwners, Authorized
  <2>2. SameOwners
    BY <1>5 DEF SameOwners
  <2>. QED BY <1>3, <2>1, <2>2, RelabelEarned DEF RecoveryInv, EngineInv
<1>10. RecoveryTypeOK' /\ Fresh'
  BY <1>1 DEF RecoveryInv, RecoveryTypeOK, Fresh
<1>. QED BY <1>4, <1>6, <1>8, <1>9, <1>10 DEF RecoveryInv, EngineInv

\* A crash leaves an empty engine and the files as they are.
LEMMA CrashStep ==
  ASSUME RecoveryInv, Crash
  PROVE  RecoveryInv'
<1>1. EngineInv'
  BY EmptyEngine DEF Crash, RecoveryInv, EngineInv, TypeInv
<1>2. /\ UNCHANGED <<file, tmp, begun>> /\ saves' = [s \in Savers |-> NoSave]
      /\ restarts < MaxRestarts /\ restarts' = restarts + 1 /\ phase' = "starting"
  BY DEF Crash, disk
<1>3. RecoveryTypeOK'
  BY <1>2, BlankType, RecoveryAssumption DEF RecoveryInv, RecoveryTypeOK
<1>4. Fresh'
  BY DEF Crash, Fresh
<1>. QED BY <1>1, <1>3, <1>4 DEF RecoveryInv

\* Every step preserves the invariant.
LEMMA RecoveryStep == RecoveryInv /\ [RecoveryNext]_rvars => RecoveryInv'
<1>. SUFFICES ASSUME RecoveryInv, [RecoveryNext]_rvars PROVE RecoveryInv'
  OBVIOUS
<1>1. CASE Serve
  <2>1. /\ Next /\ phase = "serving"
        /\ UNCHANGED <<file, tmp, saves, begun, phase, restarts>>
    BY <1>1 DEF Serve, disk, saving
  <2>2. EngineInv'
    BY <2>1, EngineStep DEF RecoveryInv
  <2>3. RecoveryTypeOK' /\ Fresh'
    BY <2>1 DEF RecoveryInv, RecoveryTypeOK, Fresh
  <2>. QED BY <2>2, <2>3 DEF RecoveryInv
<1>2. ASSUME NEW s \in Savers, Save(s) PROVE RecoveryInv'
  <2>1. UNCHANGED vars /\ phase = "serving" /\ phase' = phase
    BY <1>2 DEF Save
  <2>2. EngineInv'
    BY <2>1, EngineStep DEF RecoveryInv
  <2>3. RecoveryTypeOK'
    BY <1>2, SaveType DEF RecoveryInv, EngineInv, TypeInv
  <2>4. Fresh'
    BY <2>1 DEF Fresh
  <2>. QED BY <2>2, <2>3, <2>4 DEF RecoveryInv
<1>3. CASE Crash
  BY <1>3, CrashStep
<1>4. CASE StartLoad
  BY <1>4, LoadStep
<1>5. ASSUME NEW e \in StartEpochs, StartServing(e) PROVE RecoveryInv'
  BY <1>5, ServingStep
<1>6. CASE UNCHANGED rvars
  <2>1. UNCHANGED vars /\ UNCHANGED <<file, tmp, saves, begun, phase, restarts>>
    BY <1>6 DEF rvars, disk, saving
  <2>2. EngineInv'
    BY <2>1, EngineStep DEF RecoveryInv
  <2>3. UNCHANGED <<reservations, reserved_amount, calls>>
    BY <2>1 DEF vars, ledger
  <2>4. RecoveryTypeOK' /\ Fresh'
    BY <2>1, <2>3 DEF RecoveryInv, RecoveryTypeOK, Fresh
  <2>. QED BY <2>2, <2>4 DEF RecoveryInv
<1>. QED BY <1>1, <1>2, <1>3, <1>4, <1>5, <1>6 DEF RecoveryNext

-----------------------------------------------------------------------------
(* Theorems.                                                               *)

\* Whatever was saved, and wherever a Save was cut off, the engine, the files and
\* the Save calls in progress are well typed: Load takes over nothing that the
\* engine's methods do not expect.
THEOREM RecoveryTypeCorrect == RecoverySpec => [](TypeOK /\ RecoveryTypeOK)
<1>1. RecoveryInv => TypeOK /\ RecoveryTypeOK
  BY DEF RecoveryInv, EngineInv, TypeInv
<1>. QED BY <1>1, RecoveryStart, RecoveryStep, PTL DEF RecoverySpec

\* No composition is COMMITTED or ACTIVE on the strength of what an earlier process
\* did: it has a reservation that this process made for it, although Load takes over
\* compositions in every lifecycle and their old reservation ids are handed out again.
THEOREM EarnedAuthority == RecoverySpec => []AuthorityEarned
<1>1. RecoveryInv => AuthorityEarned
  BY DEF RecoveryInv, EngineInv, Earned, Owns, Authorized, AuthorityEarned
<1>. QED BY <1>1, RecoveryStart, RecoveryStep, PTL DEF RecoverySpec

\* Through crashes and restarts, an ACTIVE composition is bound to the current epoch
\* and the current generation of its members, also when the coordinator is started
\* with an epoch that the loaded compositions had before (Load, AdvanceEpoch,
\* RevalidationHolds).
THEOREM RecoveredBinding == RecoverySpec => []AuthorityCurrent
<1>1. RecoveryInv => AuthorityCurrent
  BY DEF RecoveryInv, EngineInv
<1>. QED BY <1>1, RecoveryStart, RecoveryStep, PTL DEF RecoverySpec
=============================================================================
