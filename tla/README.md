# A verification of the Disaggregation Fabric

The Disaggregation Fabric composes resources of several machines (processors,
accelerators, memory, storage, network endpoints) into *compositions* that hold
their members exclusively and are bound to the generations of everything they
were planned from. This directory holds TLA+ modules of its engine, its planner, its
persistence, its framed protocol and its reference deployment, the TLC configurations
that check them on small instances, and TLAPS proofs for every instance.
`PROJECT.json` lists the components, runs, mutants, findings, hazards and theorems,
and maps every definition to the source lines it models.

## The system and its parts

| part | source | state of this project |
|---|---|---|
| data model, identities | `include/dfabric/{model,requirement,composition,authority,graph,enums,ids}.hpp` | `FabricModel` |
| engine: registry, invalidation | `src/dfabric/engine.cpp` 422-554, 917-967 | `FabricEngine` |
| engine: planner | `engine.cpp` 22-333, 355-411, 624-772 | `FabricModel`, `Planner`, `PlannedFabric` |
| engine: reservation ledger, lifecycle | `engine.cpp` 775-1038, 1091-1108 | `FabricEngine`, `CarefulCallers`, `ExclusiveOwnership` |
| engine: Save and Load; persistence format | `engine.cpp` 1042-1088, `persistence.cpp` | `Recovery` |
| frame protocol | `protocol.cpp`, `protocol.hpp` | `FrameProtocol`, `MessageChannel` |
| wire codec | `codec.hpp` | `WireCodec` (what does not come back as it was sent) |
| coordinator, worker | `deploy/` | `Deployment` |
| synthetic backend | `backends/synthetic/` | `SyntheticBackend` |
| system backend, sockets, command line tool, benchmark, examples, consumer | `backends/system/`, `socket.hpp`, `tools/`, `bench/`, `examples/`, `consumer/` | not modelled |

Backends and workers publish nodes, resources and paths to the engine. A consumer
asks it to *Compose* a plan, then calls *Reserve*, *Commit* and *Activate*, and
later *BeginDrain*/*EndDrain*, *Release* or *Recompute*. Updates of the registry
demote the compositions they concern. In a deployment one coordinator process
owns the engine and serves every connection in a thread of its own, so all of
these calls interleave. The engine has one mutex, `Impl::mu`; every public method
holds it from entry to return, with two exceptions: `Recompute` makes five calls
without holding it across them, and `Save` writes its file after dropping it.

## Modules

**FabricModel** has the data and the pure functions of the planner. A record keeps
the fields that decisions depend on; the header comment says what each abstracts.
Capacities are natural numbers in the one dimension the class is measured in. A
capability is the set of claimed states for the class's kinds (`claims`), which is
all `ResourceEligible` asks of it. A request keeps the fields the engine reads:
demands, bounds on bandwidth and latency, architecture, coherence, topology and
failure-domain constraint, mandatory classes, policy. Of those no decision depends on
(`accelerator_memory_bytes`, `require_direct_path`, `require_persistence`,
`require_isolation`, `compatibility`, the allowed types of failure domains, optional
classes, staging, extra constraints, the consumer) the first is kept, because a finding
is about it. `Candidates` is the set of resource sets that
`ComposeDeterministic` would accept: one selection per demanded class (a single
resource or a pair for an amount, the exact number for a count), a valid
graph, the topology constraint and coherence. An amount that only three or more
resources would meet has no selection, as in the code. The code returns the one of highest
rank; the engine module may return any, so what it shows holds for every ranking.
The caps of the enumeration only remove sets (`Planner`).

**FabricEngine** has the state of `FabricEngine::Impl` under its own names, one
action per public method that changes state, and the properties.

| variable | code |
|---|---|
| `epoch`, `nodes`, `resources`, `paths`, `policies` | `config.epoch` and the maps of the same names |
| `compositions`, `reservations`, `reserved_amount` | the same; an absent entry of `reserved_amount` is 0 |
| `draining`, `fenced`, `next_comp`, `next_resv` | the same |
| `plans` | not engine state: the plans Compose has returned, which callers keep and may reserve at any time and repeatedly |
| `calls` | the local variables and program counter of `Recompute`, one per calling thread |

| action | code |
|---|---|
| `RegisterNode`, `RegisterResource`, `Discover` | `RegisterNode`/`OnNodeUpdate`, `RegisterResource`/`OnResourceUpdate`, `Discover`, through the two `Ingest*Locked` |
| `InvalidateNode`, `WithdrawResource`, `OnResourceFailure`, `MarkEvidenceRevalidationRequired`, `AdvanceEpoch`, `OnPolicyUpdate`, `OnPathUpdate` | the methods of the same names |
| `Compose` | `ComposeDeterministic`, with the refresh of `paths` it does while ranking |
| `Reserve` | granted or refused; a refusal uses up a reservation id |
| `Commit` | granted or rolled back |
| `Activate`, `BeginDrain`, `EndDrain`, `Release` | the methods of the same names |
| `RecomputeCompose`, `RecomputeRelease`, `RecomputeReserve`, `RecomputeCommit`, `RecomputeActivate` | the critical sections of `Recompute` |

A call the engine refuses without changing state is a stuttering step. Left out
because no decision depends on them: outcomes, explanations, resource-set ids, the per-item reservation state, and the evidence, capability and compatibility
generations, which are recorded and never compared. Capacities are not negative
(the code rejects two of the negative ones in Reserve), an identity occurs once in
a discovery report, and plans that reach Reserve come from Compose.

**ExclusiveOwnership** is what the ledger promises: a resource has at most one
owner, and an owner acquires all it asks for or nothing and gives it back at once.

**CarefulCallers** is FabricEngine with callers that keep two rules the engine does
not enforce: release or recompute a composition only while its reservation is live,
and do not end a reservation that a Recompute call is about to end. Registry
updates, failures, planning, and replayed Reserve calls stay unrestricted. It
states the ledger's exactness and its refinement of ExclusiveOwnership (the owner
of a resource is the composition whose live reservation holds it).

**Recovery** is FabricEngine in a coordinator process that saves its state to a file,
crashes and is started again.

| variable | code |
|---|---|
| `file`, `tmp` | the state file and `path + ".tmp"`: absent, empty, damaged, or a whole saved state |
| `saves`, `begun` | the `Save` calls in progress, each with its snapshot and next step; how many have begun |
| `phase` | `starting`, `loaded`, `serving`: how far `main` of the coordinator has come |
| `restarts` | crashes so far |

| action | code |
|---|---|
| `SaveSnapshot` | `FabricEngine::Save` up to the unlock |
| `SaveCreate`, `SaveWrite`, `SaveRemove`, `SaveReopen`, `SaveCopy`, `SaveCannotOpen` | `SaveImpl`: open and cut the temporary file, write it, remove the state file, open and cut it, copy and remove the temporary file, and the failures of each |
| `StartLoad` | seeding of the paths, then `Load` of whatever the file holds |
| `StartServing` | `AdvanceEpoch` with the epoch of the command line |
| `Crash` | the process dies: its memory is lost, the files and the clients' plans stay |
| `Serve` | any step of FabricEngine |

A file is what the reader can tell apart: the checksum rejects a text that is cut off
or mixed from two writers, so both are `damaged`. A text with all the records of
another one is taken to be no shorter. The two removals are in the Windows build only
and their result is ignored: `Removed` lets a file stay or go, which covers both builds,
and keeps one that another call has open, as Windows does. A call that finds the
temporary file gone fails after it has cut the state file. `Readable` keeps the rejection of enumeration
values below 1; fields that are not modelled are taken to have known values. `Load` is
called on a fresh engine only, as the coordinator does. When a composition id is handed
out again after a crash, `plans` keeps the newer of its two plans.

**Planner** is the search of `ComposeDeterministic` itself: scored candidates, capped
selections per class, the capped product of the classes, and the loop over the
combinations that keeps the best feasible one and resolves its links on the way (so a
later combination is validated against paths an earlier one refreshed). What a sort or
a nested loop visits is a set put in order (`Ordered`), a loop that carries a value is a
recursive function of the number of passes (`Combined`, `Search`). Its reference is
`FindsTheBest`, stated with `Candidates`. **SyntheticBackend** has the tables of the
synthetic backend and one action per setter. **PlannedFabric** composes the two with
the engine: the backend changes, the engine hears of it in `Discover` or while it
ranks. Drains and Recompute are left out there (`EngineNext`): they change neither the
registry nor the backend, and the planner reads nothing else. Recompute's own planning
is a Compose like any other. A setter does not run in the middle of a `Discover` or `Compose` call, which
take the backend's lock once per query; in this repository setters are called by
the thread that also calls the engine.

**FrameProtocol** is one direction of a connection. The state is what the peer has
sent, the frames that this arrives as, how many bytes are unread and buffered, the
frames decoded by the Feed call in progress and those handled. `Send` adds a message
that `Encode` accepts, at any time; the first frame to be damaged is damaged there.
`Receive` is a read of any
number of bytes up to the chunk; `DecodeFrame`, `NeedMore` and `Reject` are the
outcomes of one turn of the loop in `Feed` and what the reader does when it returns.
A checksum over bytes that are not those of one frame is taken not to match.
**MessageChannel** is what the reader may rely on: the sent messages, in order, each
once and unchanged, until the connection goes down.

**WireCodec** has the two ways in which a decoded value differs from what was encoded:
a request loses its failure-domain constraint, and a resource with an UNKNOWN health,
readiness or reachability is refused.

**Deployment** composes Recovery with worker processes, control clients and their
connections, each of which is a MessageChannel in either direction.

| variable | code |
|---|---|
| `proc` | whether a worker or client process has started, runs, or is gone |
| `toCoord`, `toPeer` | frames in the socket buffers, at most `CoordinatorBuffer` towards the coordinator and `PeerBuffer` towards a peer |
| `conn` | a connection thread of the coordinator: `boot`, `done`, and what is left to send and to save for the frame it handles |
| `waiting` | clients in the middle of a round trip |

| action | code |
|---|---|
| `WorkerConnects`, `WorkerRegisters`, `WorkerHandles` | `worker.cpp`: HELLO; then REGISTER as soon as there is room; a descriptor is stamped with the boot and sent back as soon as there is room |
| `ThreadHandles` | the body of the frame loop in `coordinator.cpp`, one operator `Handle...` per frame type, with the engine call it makes |
| `ThreadSends`, `ThreadSaves` | the send loops and `engine.Save`, in the order the handler has them: RESERVE and COMMIT answer before they save |
| `ThreadCloses` | the end of the thread: `MarkEvidenceRevalidationRequired` for a worker |
| `CoordinatorStarts`, `CoordinatorDies` | start with Load and epoch; the process is killed and its peers exit |
| `ClientConnects`, `ClientAsks`, `ClientGets` | a control client as the tests write them (`RoundTrip`): one request at a time, any request |
| `Dies`, `LosesCoordinator` | a process is killed; a process finds its connection closed |

What a dead process had sent may be handled or lost: a thread closes with or without
the unread frames. A plan and a reservation travel by their id, which the engine's
tables resolve; a client that would alter a plan is not modelled.

**FabricEngineProofs**, **CarefulProofs**, **RecoveryProofs**, **PlannerProofs**,
**PlannedProofs**, **FrameProofs**, **PeerProofs** and **DeploymentProofs** have the
theorems and their lemmas. A few facts about naturals and sequences are proved in more
than one of them: the provers are given everything a module extends, and are quick
only when that is little.
The **MC** modules give the constants their values.

## Runs that pass

| run | instance | shows |
|---|---|---|
| `authority` (MCAuthority.cfg) | one node, two accelerators, one worker that may die, one accelerator and the node may come back with a new generation, epoch 1 or 2, one Recompute thread, 2 plans, 2 reservations, unrestricted callers | `TypeOK`; `AuthorityCurrent`: an ACTIVE composition is bound to the current epoch and the current generation of every member; `FencedNeverActive`; `NoLeakedHold`: every held amount belongs to a live reservation |
| `ledger` (MCLedger.cfg) | the same registry, one accelerator is withdrawn, fails, is invalidated and is repaired at any time, 2 plans, 3 reservations, careful callers | `ExclusiveHolds`: no resource is in two live reservations; `BackedByHolds`: a COMMITTED, ACTIVE or DRAINING composition has a committed reservation and the ledger has exactly its amounts; `OwnershipRefined`: the ledger implements ExclusiveOwnership |
| `planned` (MCPlanned.cfg) | the synthetic backend's compute, accelerators and memories on three nodes, a second host memory that comes back with half the capacity; an accelerator, a path and a node that change twice; a policy update; three requests; the cap on combinations is low enough to be reached | `PlannerExact`: short of its caps the planner rejects a request only if no set of one selection per demanded class is feasible, and its choice has the highest rank among these if its paths are up to date; `PlansAllowed`: its choice is one of `Compose` in FabricEngine; `CheckedRequirements`: what the planner checked of the members (amounts, counts, architecture, coherence, placement) holds of an ACTIVE composition in the present registry |
| `recovery` (MCRecovery.cfg) | one accelerator, one worker, a coordinator started with epoch 1 or 2, a disk that may fail, one Save, one crash, 2 plans, 2 reservations | `RecoveryTypeOK`; `AuthorityEarned`: a COMMITTED or ACTIVE composition has a reservation that this process made for it; `AuthorityCurrent` across the restart |
| `frames` (MCFrames.cfg) | up to three messages of two types with empty, full and oversized payloads and an unknown type, one frame damaged in any header field or in its bytes, reads of 1 to 9 bytes, a peer that hangs up at any time | `FrameTypeOK`; `BufferBounded`; `NothingWithheld`; `ChannelRefined`: FrameProtocol implements MessageChannel; `Conveyed` and `DamageNoticed` (liveness) |
| `deployment` (MCDeployment.cfg) | one accelerator, one worker, one client that makes every kind of request, one frame towards the coordinator and two towards a peer, one crash of the coordinator | `DeploymentTypeOK`: also, only frames the coordinator handles travel towards it and only its answers travel back; `EvidenceBacked`: what is current was published by a worker still connected, and ACTIVE compositions rest on it alone; `CommittedIsDurable`: once nobody has a Save to make, every composition is in a complete state file with its reservation, and past RESERVED if that is committed; `RecoveryImplemented`: Deployment implements Recovery; `Answered` (liveness) |
| `takeover` (MCTakeover.cfg) | two incarnations of a worker for the same node, one client that composes, reserves, commits and activates | `EvidenceBacked`; `LossNoticed` and `Republished` (liveness) |

**Bounds.** Two plans for two resources suffice for any conflict between two
holders; the third reservation of `ledger` lets a plan be reserved again after its
reservation ended, which is what a stale release needs in order to hit somebody
else. Two overlapping Recompute calls would need four plans and are left to the
proofs. One new generation tells "current" from "outdated". One Save, cut off or
complete, and one crash give every kind of file a restart can find; with two
reservation ids, the id stored in a loaded composition is handed out again. Three
frames give one before and one after a damaged one, and a chunk holds two of them.
One frame towards the coordinator and two towards a peer are fewer than what either
side has to send at once, so both ends do block on a full channel. With a `PeerBuffer`
of one, coordinator and worker wait for each other for ever and `Republished` fails:
neither reads while it sends, so the property presumes that the descriptors sent for one
REGISTER fit into the two buffers together. Deadlock is not an error: with all ids
used up, with every composition released, or with every process gone, there is nothing
left to do.

**Fairness.** The engine makes no progress by itself, and its modules have none.
`FrameSpec` assumes weak fairness of the reading loop: TCP delivers what was sent and
the reading thread is scheduled. `DeploymentSpec` assumes weak fairness of every
connection thread, of a worker's loop and of a client's read, each a loop in a process
of its own that only waits for bytes, for room in a socket buffer or for the engine's
mutex, which every method releases. A Save that a thread has begun is part of its loop.
Nobody has to start a process, kill one, hang up, or ask for anything. `LossNoticed` is
therefore about the coordinator noticing, `Answered` about the answer and not about the
request, `Republished` about two ends that stop reading while they send.

Each property has a mutant, a defined variant of one definition (comment "Mutant:")
that a plausible slip in the code would produce and that TLC refutes.

## Runs that find a violation

Each checks one sentence of the repository against what the code does;
`PROJECT.json` quotes it.

| run | trace found |
|---|---|
| `recompute_after_release` | Recompute of a composition that is already RELEASED frees its items again, then reserves and activates on a resource on which another composition is ACTIVE. |
| `outdated_binding` | A node comes back with a new generation after a composition was planned on it. The plan is reserved, committed and activated: `RevalidationHolds` skips the node generations. Policy and path generations are not compared either. |
| `torn_replacement` | A second Save cuts the complete state file to nothing before it copies the new state in. |
| `malformed_save` | A worker dies, its resource becomes UNKNOWN, the state is saved. The reader takes 1 as the least value of every enumeration and UNKNOWN is 0. |
| `hard_requirements` | A request for one accelerator and 48 GiB of accelerator memory is composed on a device of 24 GiB, reserved, committed and activated: the class is counted, and the memory asked for is compared with nothing. |

`HardRequirements` asks of an ACTIVE composition all that its request states and the
modelled records can answer: what `CheckedRequirements` says, accelerator memory, and
paths that are usable and within the request's bounds now. The run shows the accelerator
memory. Without it the property still fails: on the instance of `planned` a path becomes
unusable after a plan was made over it, and the plan is reserved, committed and activated
all the same, because revalidation does not look at paths.

The first is why CarefulCallers exists: its two rules are what a caller must respect
for the ledger to be exact. A release after a rolled-back commit hits somebody else's
hold in the same way. A third condition is that capacities are positive
(`PositiveCapacity`): an amount of 0 is recorded and the test `reserved_amount > 0`
does not see it.

## What is proved

The theorems are about safety, none uses a fairness condition, and they hold for every
value of the constants that meets the named assumptions.

`FabricEngineProofs` proves, for every set of resources, nodes, workers, requests,
reports and callers, and every bound (assumptions `BoundsAssumption`,
`InputsAssumption`: published inputs are well typed):

- `TypeCorrect`: Spec => [](TypeOK /\ CallsKnown). TypeOK alone is not inductive:
  Recompute looks up its old composition and its plan steps after it read them, so
  the invariant adds that a call in progress finds both (`CallsKnown`).
- `Fencing`: Spec => []FencedNeverActive, and `AuthorityBinding`:
  Spec => []AuthorityCurrent. Both rest on one step lemma, `SoundActivation`: a
  composition that is ACTIVE after a step was ACTIVE before with the same binding,
  or has just been revalidated and is not fenced. It is shown once for each action;
  what remains is that a registry action that moves an epoch or a generation
  demotes the compositions it outdates (`RegistryCurrent`).
- `NoLeak`: Spec => []NoLeakedHold. The inductive invariant adds `IdsInOrder`
  (reservation ids in use are smaller than the next one): without it a new
  reservation could overwrite a live one and orphan its holds. The bound "at most
  the reservation's amount" inside NoLeakedHold is what makes a release, also a
  repeated one, leave nothing behind (`EndReservation`).

The arguments hold for unrestricted callers; none uses CarefulCallers.

`RecoveryProofs` proves, for any number of saving threads, saves, crashes, seeded paths
and start epochs (adding `RecoveryAssumption`):

- `RecoveryTypeCorrect`: RecoverySpec => [](TypeOK /\ RecoveryTypeOK). Whatever file is
  left, Load takes over nothing the engine's methods do not expect.
- `EarnedAuthority`: RecoverySpec => []AuthorityEarned. The property is not inductive:
  Commit takes a reservation and makes *its* composition COMMITTED, which stores a
  reservation id of its own. The invariant `Earned` adds that every reservation in the
  table belongs to a composition whose stored id is in the table and made for it. It
  holds after a restart because Load drops all reservations and demotes COMMITTED and
  ACTIVE, and Reserve stores the new id in the composition it writes, so that a loaded
  composition whose old id is handed out again never counts as an owner.
- `RecoveredBinding`: RecoverySpec => []AuthorityCurrent. Load leaves nothing ACTIVE and
  AdvanceEpoch demotes what is, also when the epoch is one used before.

The invariant `RecoveryInv` combines these with the invariants of the engine and with
`Fresh` (until it serves, a process has no reservation, hold or call), which Load relies
on since it resets the reservations and not the amounts they hold.

`CarefulProofs` proves, for careful callers and positive capacities
(`PositiveCapacity`), any number of Recompute threads and every bound:

- `Exclusivity`: CarefulSpec => []ExclusiveHolds; `Backing`: CarefulSpec =>
  []BackedByHolds; `NoDuplicates`: CarefulSpec => []NoDuplicateAuthority, the sentence
  that `recompute_after_release` refutes for unrestricted callers.
- `OwnershipImplemented`: CarefulSpec => OwnershipRefined, the refinement of
  ExclusiveOwnership.

The inductive invariant `CarefulInv` says that the ledger holds just what a live
reservation names (`HoldsExact`), that live reservations are disjoint, that a composition
and its reservation name each other (`Paired`), and that what a Recompute call is about
to release is still backed and is released by that call alone (`CallsCareful`). The
last is needed because Recompute reads its composition one critical section before
it releases it. The proof sorts every action into one of four kinds: it leaves
reservations alone, commits one, ends one, or grants one (`Keeps`, `Commits`, `Ends`,
`ReserveGranted`). What each kind does to the invariant and to the owners is shown once.

`PlannerProofs` is about `Planner` alone (`PlannerAssumption`: identities are finitely
many and compared by distinct numbers, caps are positive). Its result,
`PlannerFindsTheBest`, is that FindsTheBest holds for every request, every typed
registry, and any paths and answers of the backends. It follows the code:

- a strict total order puts the elements of a finite set in one list, each once
  (`OrderedLists`); the sort by score and identity, the nested loops over indices and
  the pairs of the product are such orders;
- `EnumerateSelections` lists selections of the right size and only those
  (`SelectionShape`), and all of them when no cap of the class is reached
  (`PicksComplete`);
- after i classes, a combination is made of one pick for each class served
  (`CombinedSound`), and every such set is there when no product was cut
  (`CombinedComplete`);
- after i combinations the best record is a combination that was feasible with the paths
  as they were then, nothing is found only if none of the i is feasible, and if the paths
  are up to date none of the i has a higher rank (`SearchedTo`, kept by `SearchStep`).

The provers cannot use the library's induction theorems, which take a predicate as a
parameter. The loops are reasoned about with two lemmas that need none: `Counting` (a set
of naturals with 0 and with the successor of each of its members below n has all of 0..n,
by the smallest natural it lacks) and `Recursion` (a loop given as a function from pass and
value to value has a value after every pass). `SumType`, that a sum over a finite set is a
number, is shown in the same way.

`PlannedProofs` proves of the engine with this planner and a synthetic backend, for every
set of built nodes, resources and paths and every change of them (`BackendAssumption`:
what the backend is built with is well typed):

- `ExactPlanner`: PlannedSpec => []PlannerExact, exactness among the sets of one
  selection per demanded class, not among all sets that would meet the amounts; and `AllowedPlans`: PlannedSpec =>
  PlansAllowed: what the search returns is a candidate for the paths it had
  resolved until it took the set, which is what `Compose` of FabricEngine asks for;
- `PlannedTypes`: PlannedSpec => [](TypeOK /\ BackendTyped); and `PlannedSafety`:
  PlannedSpec => [](AuthorityCurrent /\ FencedNeverActive /\ NoLeakedHold). By
  `AllowedPlans` a step of the engine is one of FabricEngine, a discovery of what the
  backend reports, or a Compose that it answers; the lemmas of FabricEngineProofs cover
  these for any typed report and any typed answers. The invariant `PlannedInv` adds
  that the backend's tables are well typed and keep what they were built with;
- `RequirementsHold`: OffersFollowGenerations => (Spec => []CheckedRequirements), and
  `PlannedRequirements`: OffersAgree(BuiltOffers) => (PlannedSpec => []CheckedRequirements).
  They are about what the planner checks of the members, not about accelerator memory or
  the paths between them.

The engine checks a request's requirements only when it plans; afterwards it compares
generations. The hypotheses of the last two say what this relies on: two records that
may be published for a resource under one generation offer the same class, capacity,
architecture, coherence and place. The setters of the synthetic backend give a resource
generations that others may have published, so `OffersAgree` asks in addition that
whoever publishes a built resource keeps to what it was built with. `MCEngine` and
`MCPlanned` have the hypotheses evaluated on their instances. The inductive invariant
`RequirementInv` quantifies over records that are not in the registry: whatever records
have the generations a plan or a composition is bound to, they supply its request
(`BoundSupplies`). Activation and the demotion of what a new generation outdates
(`AuthorityBinding`) make the present records such records. The sums of capacities are
only compared with one another, so no induction over them is needed.

`FrameProofs` proves, for every table of limits, header and checksum length, chunk size
and sequence of messages (`FrameAssumption`, `MessageAssumption`):

- `FrameTypes`: FrameSpec => []FrameTypeOK; `BufferIsBounded`: FrameSpec =>
  []BufferBounded; `NothingIsWithheld`: FrameSpec => []NothingWithheld;
- `ChannelImplemented`: FrameSpec => ChannelRefined, the refinement of MessageChannel.

The invariant `FrameInv` accounts for every byte: the frames are what was sent or are
damaged (`StreamInv`), decoded, buffered and unread bytes add up to the bytes of the
stream and the buffer starts at a frame boundary (`PositionInv`), handled messages and
the batch are those of the frames before it (`HandledInv`), and between two reads a header
in the buffer was accepted and its frame is incomplete (`WaitingInv`). The last needs the
decoder's order of checks, and the bound on the buffer follows from it.

`PeerProofs` and `DeploymentProofs` prove, for any number of workers and clients, any
boots, descriptors, requests and buffer sizes (`DeploymentAssumption`, and
`InputsOfDeployment`: what workers and clients can send is among the inputs of the
engine model):

- `RecoveryRefined`: DeploymentSpec => RecoveryImplemented. Every handler is a step of
  the engine, of a Save, or leaves both alone (`RecoverySteps`). It needs an invariant of
  the connections, `PeersInv`: what a worker may have sent (descriptors of the backend
  with some worker's stamp, so that stamping them again gives a record the engine model
  knows), what a client may have sent, and that a client has at most one frame on its way,
  so that its thread has at most one Save to make and one answer to send.
- `DeploymentTypes`: DeploymentSpec => []DeploymentTypeOK, from the same invariant.
- `DeployedAuthority`: DeploymentSpec => [](AuthorityEarned /\ AuthorityCurrent), the
  theorems of RecoveryProofs carried over by the refinement.
- `EvidenceIsBacked`: DeploymentSpec => []EvidenceBacked. The invariant `EvidenceInv` adds
  that no evidence is durable, in the registry, in a snapshot or in either file: a
  restarted coordinator would otherwise load current evidence of a worker that is
  not connected. A worker's connection closes in the step that invalidates its evidence,
  and ACTIVE compositions on it are demoted in that step.
- `CommitsAreDurable`: Undisturbed /\ DeploymentSpec => []CommittedIsDurable, where
  `Undisturbed` says that there is one control client and that the disk does not fail.
  Both are needed: two clients' Saves run at once and tear the file or overwrite the newer
  state with the older one, and `SaveImpl` reports a failure that no handler looks at.
  The invariant `DurableInv` follows the state on its way: due, in the
  snapshot, in the temporary file, in the state file (`SaveProgress`). It holds
  because a step outside RESERVE and COMMIT leaves nothing new to save (`Quiet`).

An earlier form of `CommittedIsDurable` asked of every composition whose stored
reservation id is committed that it is saved as committed. TLC refutes it after a restart
with two compositions: reservation ids are handed out again, and the id stored in a loaded
composition can be that of another one's reservation. The property now asks this of the
composition the reservation was made for.

Only model-checked are the liveness properties (`Conveyed`, `DamageNoticed`, `Answered`,
`LossNoticed`, `Republished`): the provers handle neither fairness nor ENABLED.

## Not modelled

- *System backend*: reads the operating system and returns; its answers are inputs of
  the engine model (`Reports`, `PublishedResources`). Its allocation, file and loopback
  checks are straight-line I/O.
- *Sockets*: wrappers of system calls. Their only effect on the protocol, that a
  send takes part of what it is given or nothing, is `Room`; partial reads are `Receive`.
- *Wire codec and persistence at the level of bytes*: which records and fields come
  back is modelled, how they are laid out is not.
- *Command line tool, benchmark, examples, consumer*: straight-line clients of the engine.
- `SetNodeHealth`, `Describe`, `Dump` and the formatting of explanations: no decision
  of the engine reads what they change or print.
- Time: evidence is accepted or not (`accepted`), as the age limit is compared with
  nothing that moves. Heartbeats are answered and never expected, so a worker that hangs
  with an open connection stays current; no property says otherwise.
- Boots are not remembered: a worker started with the boot of one that died publishes
  evidence that counts again, although a comment in `tests/t_workerdeath.cpp` speaks of
  rejecting it. `Deployment` allows shared boots and `EvidenceIsBacked` is proved for
  them; no run has two workers with one boot.
