----------------------------- MODULE Deployment -----------------------------
(***************************************************************************)
(* The reference deployment: the coordinator process (coordinator.cpp),    *)
(* worker processes that publish evidence to it (worker.cpp) and control   *)
(* clients, connected by framed TCP.                                       *)
(*                                                                         *)
(* A process connects once to a coordinator. A connection is two sequences *)
(* of frames, what MessageChannel promises of it, and is served by a       *)
(* thread of the coordinator that handles frames one by one and sends the  *)
(* answers to one before it handles the next. Both ends read several       *)
(* frames at a time; how many is not a state of the model, where a frame   *)
(* stays in its channel until it is handled. Threads share the engine,     *)
(* whose methods are atomic, and the state file, which they save to        *)
(* outside the engine's lock (Recovery). Any process may be killed at any  *)
(* moment; what it had sent and was not read may or may not arrive.        *)
(*                                                                         *)
(* A control client waits for the answer to a request before it makes the  *)
(* next one (the round trips of the tests); what it asks for is its choice.*)
(***************************************************************************)
EXTENDS Recovery, WireCodec, Sequences

CONSTANTS
  Workers,           \* worker processes
  Clients,           \* control clients
  Boot,              \* worker |-> the incarnation it was started with (--boot)
  Serves,            \* worker |-> the sequence of nodes it asks for (--nodes)
  SynNodes,          \* node |-> the descriptor the coordinator's backend has of it
  SynResources,      \* resource |-> its descriptor
  ClientRequests,    \* the requests clients compose
  Talk,              \* the types of the frames clients send
  CoordinatorBuffer, \* frames that fit into the socket buffers to the coordinator
  PeerBuffer,        \* frames that fit into those to a worker or client
  MaxStateRecords    \* records that fit into a STATE_RESP

Peers == Workers \cup Clients

ASSUME DeploymentAssumption ==
  /\ Workers \cap Clients = {}
  /\ Savers = Clients
  /\ Boot \in [Workers -> WorkerBootId]
  /\ Serves \in [Workers -> Seq(NodeId)]
  /\ IsMap(SynNodes, NodeId, Node)
  /\ IsMap(SynResources, ResourceId, Resource)
  /\ ClientRequests \subseteq CompositionRequest
  /\ Talk \subseteq {"COMPOSE_REQ", "RESERVE_REQ", "COMMIT_REQ", "ACTIVATE_REQ",
                     "RELEASE_REQ", "QUERY_STATE", "SAVE_REQ", "HEARTBEAT", "BYE"}
  /\ CoordinatorBuffer \in Nat \ {0} /\ PeerBuffer \in Nat \ {0}
  /\ MaxStateRecords \in Nat

\* What a worker's descriptors become in its name.
OwnedNode(node, boot) == [node EXCEPT !.worker_boot = boot]
OwnedResource(res, boot) ==
  [res EXCEPT !.health = "HEALTHY", !.readiness = "READY", !.reachability = "REACHABLE",
              !.evidence = [state |-> "FRESH", accepted |-> TRUE,
                            owner |-> boot, durable |-> FALSE]]

\* The engine's callers are the threads of this deployment: it is offered what the
\* workers publish, asked for what the clients request, and its backend answers
\* ResolvePath the way it did when the coordinator started.
ASSUME InputsOfDeployment ==
  /\ IsFiniteSet(DOMAIN SynResources)
  /\ \A boot \in WorkerBootId :
       /\ \A n \in DOMAIN SynNodes : OwnedNode(SynNodes[n], boot) \in PublishedNodes[n]
       /\ \A r \in DOMAIN SynResources :
            OwnedResource(SynResources[r], boot) \in PublishedResources[r]
  /\ \A req \in ClientRequests : WireRequest(req) \in Requests
  /\ SeededPaths \in PathAnswers

VARIABLES
  proc,      \* process |-> "new", "greeting" (HELLO sent), "up" or "gone"
  toCoord,   \* process |-> frames on their way to the coordinator
  toPeer,    \* process |-> frames on their way from the coordinator
  waiting,   \* clients that wait for an answer
  conn       \* process |-> the coordinator's thread for its connection

network == <<toCoord, toPeer>>
dvars   == <<rvars, proc, network, waiting, conn>>

Frame(type, body) == [type |-> type, body |-> body]
Bare(type) == Frame(type, 0)

\* A connection thread: the boot of the last HELLO, whether it is to end, and
\* what is left to do for the frame it handles: frames to send, and Save.
NoThread == [open |-> FALSE, boot |-> NoBoot, done |-> FALSE, todo |-> <<>>]

DeploymentInit ==
  /\ RecoveryInit
  /\ proc = [p \in Peers |-> "new"]
  /\ toCoord = [p \in Peers |-> <<>>]
  /\ toPeer = [p \in Peers |-> <<>>]
  /\ waiting = {}
  /\ conn = [p \in Peers |-> NoThread]

Room(channel, buffer) == Len(channel) < buffer

Running(p) == proc[p] \in {"greeting", "up"}

-----------------------------------------------------------------------------
(* Workers.                                                                *)

WorkerConnects(w) ==
  /\ proc[w] = "new" /\ phase = "serving"
  /\ proc' = [proc EXCEPT ![w] = "greeting"]
  /\ conn' = [conn EXCEPT ![w].open = TRUE]
  /\ toCoord' = [toCoord EXCEPT ![w] = <<Frame("HELLO", Boot[w])>>]
  /\ UNCHANGED <<rvars, toPeer, waiting>>

\* REGISTER is sent before anything is read.
WorkerRegisters(w) ==
  /\ proc[w] = "greeting" /\ Room(toCoord[w], CoordinatorBuffer)
  /\ proc' = [proc EXCEPT ![w] = "up"]
  /\ toCoord' = [toCoord EXCEPT ![w] = Append(@, Frame("REGISTER", Serves[w]))]
  /\ UNCHANGED <<rvars, toPeer, waiting, conn>>

\* What a worker makes of a descriptor before it publishes it.
Stamped(w, frame) ==
  CASE frame.type = "PUBLISH_NODE" ->
         Frame("PUBLISH_NODE", [frame.body EXCEPT !.record = OwnedNode(@, Boot[w])])
    [] frame.type = "PUBLISH_RESOURCE" ->
         Frame("PUBLISH_RESOURCE", [frame.body EXCEPT !.record = OwnedResource(@, Boot[w])])
    [] OTHER -> frame

\* Mutant: what is not a descriptor is sent back like a heartbeat.
AnswersAnything(frame) ==
  frame.type = "PUBLISH_RESOURCE" => WireAccepts(frame.body.record)

\* The frames a worker answers: the descriptors it can decode, and a heartbeat.
Answers(frame) ==
  \/ frame.type \in {"PUBLISH_NODE", "HEARTBEAT"}
  \/ frame.type = "PUBLISH_RESOURCE" /\ WireAccepts(frame.body.record)

\* A descriptor is stamped and sent back, as soon as there is room; other frames
\* are dropped.
WorkerHandles(w) ==
  /\ proc[w] = "up" /\ toPeer[w] # <<>>
  /\ LET frame == Head(toPeer[w])
     IN IF Answers(frame)
        THEN /\ Room(toCoord[w], CoordinatorBuffer)
             /\ toCoord' = [toCoord EXCEPT ![w] = Append(@, Stamped(w, frame))]
        ELSE UNCHANGED toCoord
  /\ toPeer' = [toPeer EXCEPT ![w] = Tail(@)]
  /\ UNCHANGED <<rvars, proc, waiting, conn>>

-----------------------------------------------------------------------------
(* Control clients, and the end of a process.                              *)

ClientConnects(c) ==
  /\ proc[c] = "new" /\ phase = "serving"
  /\ proc' = [proc EXCEPT ![c] = "up"]
  /\ conn' = [conn EXCEPT ![c].open = TRUE]
  /\ UNCHANGED <<rvars, network, waiting>>

\* The Save calls that granted reservations and commits may still need.
SavesOwed == 2 * MaxReservations * (MaxRestarts + 1)

\* The requests a client may make, within the bounds of the instance.
Asks ==
  {Frame("COMPOSE_REQ", req) :
     req \in {q \in ClientRequests : next_comp + Cardinality(waiting) <= MaxCompositions}}
    \cup {Frame("RESERVE_REQ", id) :
            id \in {i \in DOMAIN plans : next_resv + Cardinality(waiting) <= MaxReservations}}
    \cup {Frame("COMMIT_REQ", v) : v \in DOMAIN reservations}
    \cup {Frame(type, c) : type \in {"ACTIVATE_REQ", "RELEASE_REQ"}, c \in DOMAIN compositions}
    \cup {Bare(type) : type \in {"QUERY_STATE", "HEARTBEAT", "BYE"}}
    \cup {Bare(type) :
            type \in {t \in {"SAVE_REQ"} : begun + SavesOwed + Cardinality(waiting) < MaxSaves}}

ClientAsks(c) ==
  /\ proc[c] = "up" /\ conn[c].open /\ c \notin waiting
  /\ \E frame \in Asks :
       frame.type \in Talk /\ toCoord' = [toCoord EXCEPT ![c] = Append(@, frame)]
  /\ waiting' = waiting \cup {c}
  /\ UNCHANGED <<rvars, proc, toPeer, conn>>

ClientGets(c) ==
  /\ proc[c] = "up" /\ toPeer[c] # <<>>
  /\ toPeer' = [toPeer EXCEPT ![c] = Tail(@)]
  /\ waiting' = waiting \ {c}
  /\ UNCHANGED <<rvars, proc, toCoord, conn>>

\* A process exits or is killed; what it had not read is lost.
Ends(p) ==
  /\ proc' = [proc EXCEPT ![p] = "gone"]
  /\ toPeer' = [toPeer EXCEPT ![p] = <<>>]
  /\ waiting' = waiting \ {p}
  /\ UNCHANGED <<rvars, toCoord, conn>>

Dies(p) == Running(p) /\ Ends(p)

\* The read or the send of a process fails after the coordinator's end was closed.
LosesCoordinator(p) == Running(p) /\ ~ conn[p].open /\ Ends(p)

-----------------------------------------------------------------------------
(* The coordinator's thread for one connection.                            *)

Saving(p) == p \in Savers /\ saves[p].step # "idle"

\* Between two frames.
Ready(p) == conn[p].open /\ conn[p].todo = <<>> /\ ~ Saving(p)

\* What the thread goes on with after a frame.
Handled(p, todo) == [conn[p] EXCEPT !.todo = todo]

Goes(p, thread) == conn' = [conn EXCEPT ![p] = thread]

NodeDescriptor(n) ==
  IF n \in DOMAIN SynNodes
  THEN <<Frame("PUBLISH_NODE", [id |-> n, record |-> SynNodes[n]])>> ELSE <<>>

\* In the order in which the backend lists them.
ResourceDescriptors(n) ==
  LET hosted == {r \in DOMAIN SynResources : SynResources[r].node = n}
      listed == CHOOSE f \in Bijection(1..Cardinality(hosted), hosted) : TRUE
  IN [i \in 1..Cardinality(hosted) |->
        Frame("PUBLISH_RESOURCE", [id |-> listed[i], record |-> SynResources[listed[i]]])]

\* One after the other.
Concatenated(seqs) ==
  LET upTo[i \in 0..Len(seqs)] == IF i = 0 THEN <<>> ELSE upTo[i-1] \o seqs[i]
  IN upTo[Len(seqs)]

\* The descriptors the backend has of the nodes a worker asks for.
Descriptors(ids) ==
  Concatenated([i \in DOMAIN ids |-> NodeDescriptor(ids[i]) \o ResourceDescriptors(ids[i])])

\* Mutant: the boot is acknowledged and not kept.
HandleHelloForgets(p, boot) ==
  /\ Goes(p, Handled(p, <<Bare("ACK")>>))
  /\ UNCHANGED vars

HandleHello(p, boot) ==
  /\ Goes(p, [Handled(p, <<Bare("ACK")>>) EXCEPT !.boot = boot])
  /\ UNCHANGED vars

HandleRegister(p, ids) ==
  /\ Goes(p, Handled(p, Append(Descriptors(ids), Bare("ACK"))))
  /\ UNCHANGED vars

IsWorker(p) == conn[p].boot # NoBoot

HandlePublishNode(p, n, record) ==
  /\ IF IsWorker(p)
     THEN RegisterNode(n, OwnedNode(record, conn[p].boot))
     ELSE UNCHANGED vars
  /\ Goes(p, Handled(p, <<>>))

\* The boot of the connection owns the evidence, whatever the record says.
InNameOf(boot, record) ==
  [record EXCEPT !.evidence.owner = boot, !.evidence.durable = FALSE]

HandlePublishResource(p, r, record) ==
  /\ IF IsWorker(p) /\ WireAccepts(record)
     THEN RegisterResource(r, InNameOf(conn[p].boot, record))
     ELSE UNCHANGED vars
  /\ Goes(p, Handled(p, <<>>))

\* The answer says whether a plan was found; refused or not, it is sent.
HandleCompose(p, req) ==
  LET asked == WireRequest(req)
  IN /\ \/ Compose(asked, SeededPaths)
        \/ Candidates(asked, resources, paths) = {} /\ UNCHANGED vars
     /\ Goes(p, Handled(p, <<Bare("COMPOSE_RESP")>>))

\* Mutant: the state is not saved after a reservation.
HandleReserveUnsaved(p, id) ==
  /\ Reserve(id)
  /\ Goes(p, Handled(p, <<Bare("RESERVE_RESP")>>))

SAVE == Bare("SAVE")

\* The answer is sent before the state is saved.
HandleReserve(p, id) ==
  /\ Reserve(id)
  /\ Goes(p, Handled(p, IF CanReserve(plans[id])
                        THEN <<Bare("RESERVE_RESP"), SAVE>>
                        ELSE <<Bare("RESERVE_RESP")>>))

HandleCommit(p, v) ==
  /\ Commit(v) \/ (~ CommitAllowed(v) /\ UNCHANGED vars)
  /\ Goes(p, Handled(p, IF CommitAllowed(v) /\ CommitVerified(v)
                        THEN <<Bare("COMMIT_RESP"), SAVE>>
                        ELSE <<Bare("COMMIT_RESP")>>))

\* Mutant: a composition that cannot be activated gets no answer.
HandleActivateSilent(p, c) ==
  /\ Activate(c) \/ (~ ActivateAllowed(c) /\ UNCHANGED vars)
  /\ Goes(p, Handled(p, IF ActivateAllowed(c) THEN <<Bare("ACTIVATE_RESP")>> ELSE <<>>))

HandleActivate(p, c) ==
  /\ Activate(c) \/ (~ ActivateAllowed(c) /\ UNCHANGED vars)
  /\ Goes(p, Handled(p, <<Bare("ACTIVATE_RESP")>>))

Releasable(c) == c \in DOMAIN compositions /\ compositions[c].lifecycle # "RELEASED"

\* Mutant: the released composition is not fenced.
HandleReleaseUnfenced(p, c) ==
  /\ \/ /\ Releasable(c) /\ FreeHolds(c)
        /\ compositions' = WithLifecycle(c, "RELEASED")
        /\ UNCHANGED <<registry, next_resv, draining, fenced, planning, calls>>
     \/ ~ Releasable(c) /\ UNCHANGED vars
  /\ Goes(p, Handled(p, <<Bare("RELEASE_RESP")>>))

HandleRelease(p, c) ==
  /\ Release(c) \/ (~ Releasable(c) /\ UNCHANGED vars)
  /\ Goes(p, Handled(p, <<Bare("RELEASE_RESP")>>))

\* Nothing is sent when the state is too large for a frame.
StateFits ==
  Cardinality(DOMAIN compositions) + Cardinality(DOMAIN reservations)
    + Cardinality(DOMAIN resources) <= MaxStateRecords

HandleQueryState(p) ==
  /\ Goes(p, Handled(p, IF StateFits THEN <<Bare("STATE_RESP")>> ELSE <<>>))
  /\ UNCHANGED vars

HandleSave(p) ==
  /\ Goes(p, Handled(p, <<SAVE, Bare("SAVE_RESP")>>))
  /\ UNCHANGED vars

HandleHeartbeat(p) ==
  /\ Goes(p, Handled(p, <<Bare("HEARTBEAT")>>))
  /\ UNCHANGED vars

HandleBye(p) ==
  /\ Goes(p, [Handled(p, <<>>) EXCEPT !.done = TRUE])
  /\ UNCHANGED vars

\* RecvSome, Feed and the handling of a frame; no frame is damaged on a TCP
\* connection (FrameProtocol). What was read together with a BYE, or before a
\* send failed, is still handled.
ThreadHandles(p) ==
  /\ Ready(p) /\ toCoord[p] # <<>>
  /\ LET frame == Head(toCoord[p])
         body == frame.body
     IN \/ frame.type = "HELLO" /\ HandleHello(p, body)
        \/ frame.type = "REGISTER" /\ HandleRegister(p, body)
        \/ frame.type = "PUBLISH_NODE" /\ HandlePublishNode(p, body.id, body.record)
        \/ frame.type = "PUBLISH_RESOURCE" /\ HandlePublishResource(p, body.id, body.record)
        \/ frame.type = "COMPOSE_REQ" /\ HandleCompose(p, body)
        \/ frame.type = "RESERVE_REQ" /\ HandleReserve(p, body)
        \/ frame.type = "COMMIT_REQ" /\ HandleCommit(p, body)
        \/ frame.type = "ACTIVATE_REQ" /\ HandleActivate(p, body)
        \/ frame.type = "RELEASE_REQ" /\ HandleRelease(p, body)
        \/ frame.type = "QUERY_STATE" /\ HandleQueryState(p)
        \/ frame.type = "SAVE_REQ" /\ HandleSave(p)
        \/ frame.type = "HEARTBEAT" /\ HandleHeartbeat(p)
        \/ frame.type = "BYE" /\ HandleBye(p)
  /\ toCoord' = [toCoord EXCEPT ![p] = Tail(@)]
  /\ UNCHANGED <<disk, saving, phase, restarts, proc, toPeer, waiting>>

\* One frame is sent, as soon as there is room. To a process that is gone the
\* send fails, which ends the thread after the frames it has read, or the frame
\* is lost before the failure shows.
ThreadSends(p) ==
  /\ conn[p].open /\ ~ Saving(p)
  /\ conn[p].todo # <<>> /\ Head(conn[p].todo) # SAVE
  /\ \/ /\ Running(p) /\ Room(toPeer[p], PeerBuffer)
        /\ toPeer' = [toPeer EXCEPT ![p] = Append(@, Head(conn[p].todo))]
        /\ Goes(p, [conn[p] EXCEPT !.todo = Tail(@)])
     \/ /\ proc[p] = "gone"
        /\ \E failed \in BOOLEAN :
             Goes(p, [conn[p] EXCEPT !.todo = Tail(@), !.done = @ \/ failed])
        /\ UNCHANGED toPeer
  /\ UNCHANGED <<rvars, proc, toCoord, waiting>>

\* Save is called, takes its snapshot, and goes through its steps.
ThreadSaves(p) ==
  /\ p \in Savers /\ conn[p].open
  /\ \/ /\ ~ Saving(p)
        /\ conn[p].todo # <<>> /\ Head(conn[p].todo) = SAVE
        /\ SaveSnapshot(p)
        /\ Goes(p, [conn[p] EXCEPT !.todo = Tail(@)])
     \/ /\ \/ SaveCreate(p) \/ SaveWrite(p) \/ SaveRemove(p) \/ SaveReopen(p)
           \/ SaveCopy(p) \/ SaveCannotOpen(p)
        /\ UNCHANGED conn
  /\ UNCHANGED <<vars, phase, restarts, proc, network, waiting>>

\* Mutant: a worker that goes away without BYE leaves its evidence current.
ThreadClosesOnlyMarksOnBye(p) ==
  /\ Ready(p) /\ (conn[p].done \/ proc[p] = "gone")
  /\ IF conn[p].done /\ IsWorker(p)
     THEN MarkEvidenceRevalidationRequired(conn[p].boot) ELSE UNCHANGED vars
  /\ conn' = [conn EXCEPT ![p] = NoThread]
  /\ toCoord' = [toCoord EXCEPT ![p] = <<>>]
  /\ UNCHANGED <<disk, saving, phase, restarts, proc, toPeer, waiting>>

\* Mutant: only BYE ends the loop; a failed read is tried again.
ThreadClosesOnByeOnly(p) ==
  /\ Ready(p) /\ conn[p].done
  /\ IF IsWorker(p)
     THEN MarkEvidenceRevalidationRequired(conn[p].boot) ELSE UNCHANGED vars
  /\ conn' = [conn EXCEPT ![p] = NoThread]
  /\ toCoord' = [toCoord EXCEPT ![p] = <<>>]
  /\ UNCHANGED <<disk, saving, phase, restarts, proc, toPeer, waiting>>

\* The loop has ended, or the read finds that the peer is gone, with or without
\* the frames that are still unread. A worker's evidence is marked.
ThreadCloses(p) ==
  /\ Ready(p) /\ (conn[p].done \/ proc[p] = "gone")
  /\ IF IsWorker(p)
     THEN MarkEvidenceRevalidationRequired(conn[p].boot) ELSE UNCHANGED vars
  /\ conn' = [conn EXCEPT ![p] = NoThread]
  /\ toCoord' = [toCoord EXCEPT ![p] = <<>>]
  /\ UNCHANGED <<disk, saving, phase, restarts, proc, toPeer, waiting>>

-----------------------------------------------------------------------------
(* The coordinator process, and the whole.                                 *)

CoordinatorStarts ==
  /\ StartLoad \/ \E e \in StartEpochs : StartServing(e)
  /\ UNCHANGED <<proc, network, waiting, conn>>

\* All connections go down with the coordinator. The processes at their other ends
\* exit, and are started again for the next coordinator or not.
CoordinatorDies ==
  /\ Crash
  /\ conn' = [p \in Peers |-> NoThread]
  /\ proc' = [p \in Peers |-> "new"]
  /\ toCoord' = [p \in Peers |-> <<>>]
  /\ toPeer' = [p \in Peers |-> <<>>]
  /\ waiting' = {}

Thread(p) ==
  ThreadHandles(p) \/ ThreadSends(p) \/ ThreadSaves(p) \/ ThreadCloses(p)

Worker(w) == WorkerRegisters(w) \/ WorkerHandles(w) \/ LosesCoordinator(w)

Client(c) == ClientGets(c) \/ LosesCoordinator(c)

DeploymentNext ==
  \/ CoordinatorStarts \/ CoordinatorDies
  \/ \E p \in Peers : Thread(p) \/ Dies(p)
  \/ \E w \in Workers : Worker(w) \/ WorkerConnects(w)
  \/ \E c \in Clients : Client(c) \/ ClientConnects(c) \/ ClientAsks(c)

\* The coordinator's threads and the other processes are scheduled while they
\* run; nobody has to start a process, to end one, or to ask for anything.
DeploymentSpec ==
  /\ DeploymentInit
  /\ [][DeploymentNext]_dvars
  /\ \A p \in Peers : WF_dvars(Thread(p))
  /\ \A w \in Workers : WF_dvars(Worker(w))
  /\ \A c \in Clients : WF_dvars(Client(c))

-----------------------------------------------------------------------------
(* Properties.                                                             *)

\* The types of the frames the coordinator has a handler for, and of those it sends.
HandledTypes == {"HELLO", "REGISTER", "PUBLISH_NODE", "PUBLISH_RESOURCE", "COMPOSE_REQ",
                 "RESERVE_REQ", "COMMIT_REQ", "ACTIVATE_REQ", "RELEASE_REQ",
                 "QUERY_STATE", "SAVE_REQ", "HEARTBEAT", "BYE"}
SentTypes == {"ACK", "PUBLISH_NODE", "PUBLISH_RESOURCE", "COMPOSE_RESP", "RESERVE_RESP",
              "COMMIT_RESP", "ACTIVATE_RESP", "RELEASE_RESP", "STATE_RESP", "SAVE_RESP",
              "HEARTBEAT"}

FramesOK(frames, types) ==
  \A i \in DOMAIN frames : DOMAIN frames[i] = {"type", "body"} /\ frames[i].type \in types

ThreadOK(thread) ==
  /\ DOMAIN thread = DOMAIN NoThread
  /\ thread.open \in BOOLEAN /\ thread.done \in BOOLEAN
  /\ thread.boot \in WorkerBootId \cup {NoBoot}
  /\ \A i \in DOMAIN thread.todo : thread.todo[i] = SAVE \/ thread.todo[i].type \in SentTypes
  /\ ~ thread.open => thread = NoThread

\* Nothing reaches the coordinator that it has no handler for, and no process but
\* what the coordinator sends; a connection that is closed leaves no thread state.
DeploymentTypeOK ==
  /\ RecoveryTypeOK
  /\ proc \in [Peers -> {"new", "greeting", "up", "gone"}]
  /\ DOMAIN toCoord = Peers /\ DOMAIN toPeer = Peers
  /\ \A p \in Peers :
       /\ FramesOK(toCoord[p], HandledTypes) /\ Len(toCoord[p]) <= CoordinatorBuffer
       /\ FramesOK(toPeer[p], SentTypes) /\ Len(toPeer[p]) <= PeerBuffer
       /\ ThreadOK(conn[p])
  /\ waiting \subseteq Clients
  /\ DOMAIN conn = Peers

Connected(boot) == \E p \in Peers : conn[p].open /\ conn[p].boot = boot

\* "Live worker authority is never persisted as current" and a disconnect
\* "invalidates that worker's dynamic evidence": whatever is current in the
\* registry was published by a worker that the coordinator is still connected to,
\* and every ACTIVE composition rests on such evidence alone, also when a worker
\* dies with frames unread, another takes over its node before the thread of the
\* first has closed, or the coordinator itself is killed and started again.
EvidenceBacked ==
  /\ \A r \in DOMAIN resources :
       IsCurrent(resources[r].evidence) => Connected(resources[r].evidence.owner)
  /\ \A c \in DOMAIN compositions :
       compositions[c].lifecycle = "ACTIVE" =>
         \A r \in compositions[c].members :
           r \in DOMAIN resources /\ IsCurrent(resources[r].evidence)

\* No thread is in Save or has a Save to make.
SavesDone ==
  \A c \in Clients : ~ Saving(c) /\ \A i \in DOMAIN conn[c].todo : conn[c].todo[i] # SAVE

\* RESERVE_REQ and COMMIT_REQ are answered before their result is saved. Once the
\* threads have no Save left to make, every composition is in a complete state
\* file with the reservation it has now, and as more than RESERVED when its
\* reservation is committed: also when the client was gone before it could read
\* the answer, when the registry moved between the commit and the snapshot, and
\* after a crash that left no file. It holds for one client on a disk that works.
CommittedIsDurable ==
  phase = "serving" /\ SavesDone =>
    \A c \in DOMAIN compositions :
      LET v == compositions[c].reservation
      IN /\ file.form = "whole"
         /\ c \in DOMAIN file.state.compositions
         /\ file.state.compositions[c].reservation = v
         /\ /\ v \in DOMAIN reservations
            /\ reservations[v].composition = c /\ reservations[v].state = "COMMITTED"
            => file.state.compositions[c].lifecycle # "RESERVED"

\* The coordinator does to its engine and to its files only what Recovery allows,
\* so that what is shown of Recovery holds of the deployment.
RecoveryImplemented == RecoverySpec

\* "worker/coordinator death is proven with a real OS kill": from some time after
\* a worker is gone, none of its evidence is current again, whatever it had sent
\* before. It presumes that no other worker was started with the same boot.
LossNoticed ==
  \A w \in Workers :
    proc[w] = "gone" ~>
      [](\A r \in OwnedBy(Boot[w]) : ~ IsCurrent(resources[r].evidence))

\* A worker that connects gets its resources registered in its name unless it goes
\* away (it "receives its node/resource descriptors from the coordinator topology,
\* re-publishes them"), although both ends stop reading while they send. It
\* presumes that what the coordinator sends for one REGISTER fits into the buffers
\* of the two directions together; beyond that each end waits for the other.
Republished ==
  \A w \in Workers :
    proc[w] = "greeting" ~>
      \/ ~ Running(w)
      \/ \A r \in DOMAIN SynResources :
           SynResources[r].node \in Range(Serves[w]) => r \in OwnedBy(Boot[w])

\* A client that waits is answered or loses its connection (RoundTrip of the
\* tests), unless the state has outgrown the frame that QUERY_STATE is answered
\* with: compositions and reservations are never removed.
Answered ==
  \A c \in Clients : c \in waiting ~> (c \notin waiting \/ ~ StateFits)
=============================================================================
