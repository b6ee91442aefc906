-------------------------- MODULE DeploymentProofs --------------------------
(***************************************************************************)
(* The theorems about Deployment: it implements Recovery, current evidence *)
(* is backed by a connection, and what was reserved and committed reaches  *)
(* the state file.                                                         *)
(***************************************************************************)
EXTENDS PeerProofs, RecoveryProofs

\* The state of the engine and the files, and that of the connections.
DeploymentInv == RecoveryInv /\ PeersInv

\* The engine, the files and the connections are in order at the start.
LEMMA DeploymentStart == DeploymentInit => DeploymentInv
<1>. SUFFICES ASSUME DeploymentInit PROVE DeploymentInv
  OBVIOUS
<1>1. RecoveryInv
  BY RecoveryStart DEF DeploymentInit
<1>2. PeersInv
  BY NobodyConnected DEF DeploymentInit, RecoveryInit, Disconnected
<1>. QED BY <1>1, <1>2 DEF DeploymentInv

\* Every step of the deployment keeps them in order.
LEMMA DeploymentStep == DeploymentInv /\ [DeploymentNext]_dvars => DeploymentInv'
<1>. SUFFICES ASSUME DeploymentInv, [DeploymentNext]_dvars PROVE DeploymentInv'
  OBVIOUS
<1>1. RecoveryInv'
  BY RecoverySteps, RecoveryStep DEF DeploymentInv
<1>2. PeersInv'
  BY PeersStep DEF DeploymentInv, RecoveryInv, EngineInv, TypeInv
<1>. QED BY <1>1, <1>2 DEF DeploymentInv

\* The coordinator's threads do to the engine and to the files only what Recovery
\* allows: frames are answered in order, a Save is made by one thread at a time
\* per connection, and nothing is served before the state is loaded.
THEOREM RecoveryRefined == DeploymentSpec => RecoveryImplemented
<1>1. DeploymentInit => RecoveryInit
  BY DEF DeploymentInit
<1>2. DeploymentInv /\ [DeploymentNext]_dvars => [RecoveryNext]_rvars
  BY RecoverySteps DEF DeploymentInv
<1>. QED BY <1>1, <1>2, DeploymentStart, DeploymentStep, PTL
     DEF DeploymentSpec, RecoveryImplemented, RecoverySpec

\* Nothing reaches the coordinator that it has no handler for, nothing reaches a
\* process but what the coordinator sends, a closed connection leaves no thread
\* state, and no channel ever holds more frames than its buffers.
THEOREM DeploymentTypes == DeploymentSpec => []DeploymentTypeOK
<1>1. DeploymentInv => DeploymentTypeOK
  <2>. SUFFICES ASSUME DeploymentInv PROVE DeploymentTypeOK
    OBVIOUS
  <2>1. ASSUME NEW S, NEW s \in Seq(S), NEW types,
               \/ (S \subseteq WorkerFrames \/ S \subseteq ClientFrames) /\ types = HandledTypes
               \/ S \subseteq Outgoing /\ types = SentTypes
        PROVE  FramesOK(s, types)
    <3>1. ASSUME NEW i \in DOMAIN s
          PROVE  DOMAIN s[i] = {"type", "body"} /\ s[i].type \in types
      <4>1. s[i] \in S
        BY <3>1
      <4>. QED BY <2>1, <4>1, WorkerFrame, ClientFrame, OutgoingFrame DEF HandledTypes
    <3>. QED BY <3>1 DEF FramesOK
  <2>2. ASSUME NEW todo, todo \in Seq(Outgoing \cup {SAVE}), NEW i \in DOMAIN todo
        PROVE  todo[i] = SAVE \/ todo[i].type \in SentTypes
    <3>1. todo[i] \in Outgoing \cup {SAVE}
      BY <2>2
    <3>. QED BY <3>1, OutgoingFrame
  <2>3. ASSUME NEW p \in Peers
        PROVE  /\ FramesOK(toCoord[p], HandledTypes) /\ FramesOK(toPeer[p], SentTypes)
               /\ ThreadOK(conn[p])
               /\ Len(toCoord[p]) <= CoordinatorBuffer /\ Len(toPeer[p]) <= PeerBuffer
    <3>1. ConnectionInv(p) /\ (p \in Workers => WorkerInv(p)) /\ (p \in Clients => ClientInv(p))
      BY DEF DeploymentInv, PeersInv
    <3>2. p \in Workers \/ p \in Clients
      BY DEF Peers
    <3>3. FramesOK(toCoord[p], HandledTypes) /\ FramesOK(toPeer[p], SentTypes)
      BY <2>1, <3>1, <3>2 DEF ConnectionInv, WorkerInv, ClientInv
    <3>4. conn[p].todo \in Seq(Outgoing \cup {SAVE})
      <4>1. ASSUME NEW s \in Seq(Outgoing) PROVE s \in Seq(Outgoing \cup {SAVE})
        OBVIOUS
      <4>. QED BY <3>1, <3>2, <4>1, TodoType DEF WorkerInv, ClientInv
    <3>5. DOMAIN NoThread = {"open", "boot", "done", "todo"}
      BY DEF NoThread
    <3>6. ThreadOK(conn[p])
      BY <2>2, <3>1, <3>4, <3>5 DEF ThreadOK, ConnectionInv
    <3>. QED BY <3>1, <3>3, <3>6 DEF ConnectionInv
  <2>. QED BY <2>3 DEF DeploymentTypeOK, DeploymentInv, PeersInv, RecoveryInv
<1>. QED BY <1>1, DeploymentStart, DeploymentStep, PTL DEF DeploymentSpec

-----------------------------------------------------------------------------
(* Evidence.                                                               *)

\* Evidence of r does not outlive the process, and is current only while the worker
\* that owns it is connected.
Backed(r) ==
  LET evidence == resources[r].evidence
  IN /\ ~ evidence.durable
     /\ IsCurrent(evidence) => evidence.owner # NoBoot /\ Connected(evidence.owner)

ActiveOnCurrent ==
  \A c \in DOMAIN compositions :
    compositions[c].lifecycle = "ACTIVE" =>
      \A r \in compositions[c].members :
        r \in DOMAIN resources /\ IsCurrent(resources[r].evidence)

\* Nor does any evidence that was saved, so nothing that is loaded is current.
Volatile(d) == \A r \in DOMAIN d.resources : ~ d.resources[r].evidence.durable

SavedVolatile ==
  /\ Volatile(file.state) /\ Volatile(tmp.state)
  /\ \A s \in Savers : Volatile(saves[s].state)

EvidenceInv ==
  /\ \A r \in DOMAIN resources : Backed(r)
  /\ ActiveOnCurrent
  /\ SavedVolatile

\* No worker's connection ends.
ConnectionsStay ==
  \A p \in Peers : conn[p].open /\ conn[p].boot # NoBoot =>
                     conn'[p].open /\ conn'[p].boot = conn[p].boot

\* A boot stays connected where no connection is closed.
LEMMA StaysConnected ==
  ASSUME ConnectionsStay, NEW boot, boot # NoBoot, Connected(boot)
  PROVE  Connected(boot)'
BY DEF ConnectionsStay, Connected

\* What expired is not current, and as volatile as it was.
LEMMA ExpiredEvidence ==
  ASSUME NEW res \in Resource
  PROVE  /\ ~ IsCurrent(Expired(res).evidence)
         /\ Expired(res).evidence.durable = res.evidence.durable
         /\ ~ IsCurrent([Expired(res) EXCEPT !.health = "UNKNOWN"].evidence)
         /\ [Expired(res) EXCEPT !.health = "UNKNOWN"].evidence.durable = res.evidence.durable
<1>1. /\ "evidence" \in DOMAIN res
      /\ DOMAIN res.evidence = {"state", "accepted", "owner", "durable"}
  BY DEF Resource, Evidence
<1>2. /\ Expired(res).evidence.state = "REVALIDATION_REQUIRED"
      /\ Expired(res).evidence.durable = res.evidence.durable
  BY <1>1, Zenon DEF Expired
<1>3. [Expired(res) EXCEPT !.health = "UNKNOWN"].evidence = Expired(res).evidence
  BY <1>1 DEF Expired
<1>. QED BY <1>2, <1>3 DEF IsCurrent

\* The registry, the compositions and the connections stay.
LEMMA SameEvidence ==
  ASSUME EvidenceInv, ConnectionsStay, UNCHANGED <<resources, compositions>>
  PROVE  (\A r \in DOMAIN resources' : Backed(r)') /\ ActiveOnCurrent'
<1>1. ASSUME NEW r \in DOMAIN resources' PROVE Backed(r)'
  <2>1. r \in DOMAIN resources /\ Backed(r) /\ resources'[r] = resources[r]
    BY DEF EvidenceInv
  <2>. QED BY <2>1, StaysConnected DEF Backed
<1>2. ActiveOnCurrent'
  BY DEF EvidenceInv, ActiveOnCurrent
<1>. QED BY <1>1, <1>2

\* An engine call moves no evidence, and activates nothing without it.
LEMMA CallEvidence ==
  ASSUME TypeInv, EvidenceInv, ConnectionsStay, ClientCall
  PROVE  (\A r \in DOMAIN resources' : Backed(r)') /\ ActiveOnCurrent'
<1>1. EngineCall
  BY InputsOfDeployment DEF ClientCall, EngineCall
<1>2. SoundActivation /\ resources' = resources
  BY <1>1, CallsSound
<1>3. ASSUME NEW r \in DOMAIN resources' PROVE Backed(r)'
  <2>1. r \in DOMAIN resources /\ Backed(r) /\ resources'[r] = resources[r]
    BY <1>2, <1>3 DEF EvidenceInv
  <2>. QED BY <2>1, StaysConnected DEF Backed
<1>4. ActiveOnCurrent'
  BY <1>2 DEF EvidenceInv, ActiveOnCurrent, SoundActivation, RevalidationHolds
<1>. QED BY <1>3, <1>4

\* A worker's records are registered in the name of its connection.
LEMMA WorkerCallEvidence ==
  ASSUME TypeInv, EvidenceInv, ConnectionsStay,
         NEW boot, boot # NoBoot, Connected(boot), WorkerCall(boot)
  PROVE  (\A r \in DOMAIN resources' : Backed(r)') /\ ActiveOnCurrent'
<1>0. Connected(boot)'
  BY StaysConnected
<1>1. PICK R : /\ \E N : Ingest(N, R)
               /\ \A r \in DOMAIN R : R[r].evidence = FreshEvidence(boot)
  <2>1. CASE \E n \in DOMAIN SynNodes : RegisterNode(n, OwnedNode(SynNodes[n], boot))
    <3>1. \A r \in DOMAIN EmptyMap : EmptyMap[r].evidence = FreshEvidence(boot)
      BY DEF EmptyMap
    <3>. QED BY <2>1, <3>1 DEF RegisterNode
  <2>2. CASE \E r \in DOMAIN SynResources :
               RegisterResource(r, OwnedResource(SynResources[r], boot))
    <3>1. PICK r \in DOMAIN SynResources :
            RegisterResource(r, OwnedResource(SynResources[r], boot))
      BY <2>2
    <3> DEFINE R == [x \in {r} |-> OwnedResource(SynResources[r], boot)]
    <3>2. \A x \in DOMAIN R : R[x].evidence = FreshEvidence(boot)
      BY ResourceOwnedAgain
    <3>3. Ingest(EmptyMap, R)
      BY <3>1 DEF RegisterResource
    <3>. HIDE DEF R
    <3>. QED BY <3>2, <3>3
  <2>. QED BY <2>1, <2>2 DEF WorkerCall
<1>2. /\ DOMAIN resources' = DOMAIN resources \cup DOMAIN R
      /\ \A r \in DOMAIN R : resources'[r].evidence = FreshEvidence(boot)
      /\ \A r \in DOMAIN resources : r \notin DOMAIN R => resources'[r] = resources[r]
  BY <1>1 DEF Ingest, Override
<1>3. IsCurrent(FreshEvidence(boot)) /\ ~ FreshEvidence(boot).durable
      /\ FreshEvidence(boot).owner = boot
  BY DEF IsCurrent, FreshEvidence
<1>4. ASSUME NEW r \in DOMAIN resources' PROVE Backed(r)'
  <2>1. CASE r \in DOMAIN R
    BY <1>0, <1>2, <1>3, <2>1 DEF Backed
  <2>2. CASE r \notin DOMAIN R
    <3>1. r \in DOMAIN resources /\ Backed(r) /\ resources'[r] = resources[r]
      BY <1>2, <2>2 DEF EvidenceInv
    <3>. QED BY <3>1, StaysConnected DEF Backed
  <2>. QED BY <2>1, <2>2
<1>5. ActiveOnCurrent'
  <2>1. PICK hit : compositions' = Lapsed(hit, {"COMMITTED", "RESERVED"})
    BY <1>1 DEF Ingest
  <2>2. /\ Relabels(compositions')
        /\ \A c \in DOMAIN compositions :
             compositions'[c].lifecycle = "ACTIVE" => compositions[c].lifecycle = "ACTIVE"
    BY <2>1, LapsedRelabels DEF TypeInv
  <2>. QED BY <1>2, <1>3, <2>2 DEF EvidenceInv, ActiveOnCurrent, Relabels
<1>. QED BY <1>4, <1>5

\* The thread of a worker that went away takes its evidence with it. Evidence of
\* another worker rests on another connection.
LEMMA ClosesEvidence ==
  ASSUME TypeInv, PeersInv, EvidenceInv, NEW p \in Peers, ThreadCloses(p)
  PROVE  (\A r \in DOMAIN resources' : Backed(r)') /\ ActiveOnCurrent'
<1> DEFINE boot == conn[p].boot
<1>1. conn' = [conn EXCEPT ![p] = NoThread] /\ DOMAIN conn = Peers
  BY DEF ThreadCloses, PeersInv
<1>2. CASE ~ IsWorker(p)
  <2>1. ConnectionsStay
    BY <1>1, <1>2 DEF ConnectionsStay, IsWorker
  <2>2. UNCHANGED <<resources, compositions>>
    BY <1>2 DEF ThreadCloses, vars, registry
  <2>. QED BY <2>1, <2>2, SameEvidence
<1>3. CASE IsWorker(p)
  <2>1. MarkEvidenceRevalidationRequired(boot)
    BY <1>3 DEF ThreadCloses
  <2>2. ASSUME NEW b, b # boot, Connected(b) PROVE Connected(b)'
    <3>1. PICK q \in Peers : conn[q].open /\ conn[q].boot = b
      BY <2>2 DEF Connected
    <3>2. q # p /\ conn'[q] = conn[q]
      BY <1>1, <2>2, <3>1
    <3>. QED BY <3>1, <3>2 DEF Connected
  <2>3. /\ DOMAIN resources' = DOMAIN resources
        /\ \A r \in DOMAIN resources :
             resources'[r] = IF r \in OwnedBy(boot)
                             THEN [Expired(resources[r]) EXCEPT !.health = "UNKNOWN"]
                             ELSE resources[r]
    BY <2>1 DEF MarkEvidenceRevalidationRequired
  <2>4. ASSUME NEW r \in DOMAIN resources PROVE resources[r] \in Resource
    BY DEF TypeInv, TypeOK, IsMap
  <2>5. ASSUME NEW r \in DOMAIN resources' PROVE Backed(r)'
    <3>1. r \in DOMAIN resources /\ Backed(r)
      BY <2>3, <2>5 DEF EvidenceInv
    <3>2. CASE r \in OwnedBy(boot)
      <4> DEFINE new == [Expired(resources[r]) EXCEPT !.health = "UNKNOWN"]
      <4>1. ~ IsCurrent(new.evidence) /\ new.evidence.durable = resources[r].evidence.durable
        BY <2>4, <3>1, ExpiredEvidence
      <4>2. resources'[r] = new
        BY <2>3, <3>1, <3>2
      <4>. HIDE DEF new
      <4>. QED BY <3>1, <4>1, <4>2 DEF Backed
    <3>3. CASE r \notin OwnedBy(boot)
      <4>1. resources'[r] = resources[r] /\ resources[r].evidence.owner # boot
        BY <2>3, <3>1, <3>3 DEF OwnedBy
      <4>. QED BY <2>2, <3>1, <4>1 DEF Backed
    <3>. QED BY <3>2, <3>3
  <2>6. ActiveOnCurrent'
    <3> DEFINE hit == Using(OwnedBy(boot))
    <3>1. compositions' = Lapsed(hit, {})
      BY <2>1 DEF MarkEvidenceRevalidationRequired
    <3>2. \A c \in DOMAIN compositions :
            c \notin hit => compositions[c].members \cap OwnedBy(boot) = {}
      BY DEF Using
    <3>. HIDE DEF hit
    <3>3. /\ Relabels(compositions')
          /\ \A c \in DOMAIN compositions :
               compositions'[c].lifecycle = "ACTIVE" =>
                 c \notin hit /\ compositions[c].lifecycle = "ACTIVE"
      BY <3>1, LapsedRelabels DEF TypeInv
    <3>. QED BY <2>3, <3>2, <3>3 DEF EvidenceInv, ActiveOnCurrent, Relabels
  <2>. QED BY <2>5, <2>6
<1>. QED BY <1>2, <1>3

\* A coordinator that starts takes over no current evidence, and nothing ACTIVE.
LEMMA StartsEvidence ==
  ASSUME RecoveryInv, EvidenceInv, CoordinatorStarts
  PROVE  (\A r \in DOMAIN resources' : Backed(r)') /\ ActiveOnCurrent'
<1>0. TypeInv /\ TypeOK /\ RecoveryTypeOK
  BY DEF RecoveryInv, EngineInv, TypeInv
<1>1. ASSUME \A r \in DOMAIN resources' :
               ~ IsCurrent(resources'[r].evidence) /\ ~ resources'[r].evidence.durable,
             \A c \in DOMAIN compositions' : compositions'[c].lifecycle # "ACTIVE"
      PROVE  (\A r \in DOMAIN resources' : Backed(r)') /\ ActiveOnCurrent'
  BY <1>1 DEF Backed, ActiveOnCurrent
<1>2. CASE StartLoad /\ Readable(file)
  <2> DEFINE d == file.state
  <2>1. LoadState(d) /\ DurableState(d) /\ Volatile(d)
    BY <1>0, <1>2 DEF StartLoad, RecoveryTypeOK, Contents, EvidenceInv, SavedVolatile
  <2>. HIDE DEF d
  <2>2. \A r \in DOMAIN d.resources : d.resources[r] \in Resource
    BY <2>1 DEF DurableState, IsMap
  <2>3. /\ DOMAIN resources' = DOMAIN d.resources
        /\ \A r \in DOMAIN d.resources : resources'[r] = Expired(d.resources[r])
    BY <2>1 DEF LoadState, Volatile
  <2>4. \A r \in DOMAIN resources' :
          ~ IsCurrent(resources'[r].evidence) /\ ~ resources'[r].evidence.durable
    BY <2>1, <2>2, <2>3, ExpiredEvidence DEF Volatile
  <2>5. \A c \in DOMAIN compositions' : compositions'[c].lifecycle # "ACTIVE"
    <3>1. /\ DOMAIN compositions' = DOMAIN d.compositions
          /\ \A c \in DOMAIN d.compositions : compositions'[c] = Restored(d.compositions[c])
      BY <2>1 DEF LoadState
    <3>. QED BY <2>1, <3>1, RestoredType DEF DurableState, Authorized
  <2>. QED BY <1>1, <2>4, <2>5
<1>3. CASE StartLoad /\ ~ Readable(file)
  <2>1. UNCHANGED <<resources, compositions>> /\ conn' = conn
    BY <1>3 DEF StartLoad, CoordinatorStarts
  <2>2. ConnectionsStay
    BY <2>1 DEF ConnectionsStay
  <2>. QED BY <2>1, <2>2, SameEvidence
<1>4. ASSUME NEW e \in StartEpochs, StartServing(e)
      PROVE  (\A r \in DOMAIN resources' : Backed(r)') /\ ActiveOnCurrent'
  <2>1. AdvanceEpoch(e)
    BY <1>4 DEF StartServing
  <2>2. \A r \in DOMAIN resources :
          resources[r] \in Resource /\ ~ resources[r].evidence.durable
    BY <1>0 DEF TypeOK, IsMap, EvidenceInv, Backed
  <2>3. /\ DOMAIN resources' = DOMAIN resources
        /\ \A r \in DOMAIN resources : resources'[r] = Expired(resources[r])
    BY <2>1, <2>2 DEF AdvanceEpoch
  <2>4. \A r \in DOMAIN resources' :
          ~ IsCurrent(resources'[r].evidence) /\ ~ resources'[r].evidence.durable
    BY <2>2, <2>3, ExpiredEvidence
  <2>5. \A c \in DOMAIN compositions' : compositions'[c].lifecycle # "ACTIVE"
    BY <1>0, <2>1, EpochRelabels DEF Relabels
  <2>. QED BY <1>1, <2>4, <2>5
<1>. QED BY <1>2, <1>3, <1>4 DEF CoordinatorStarts

\* What a Save writes was the registry's.
LEMMA SaveVolatile ==
  ASSUME EvidenceInv, RecoveryTypeOK, NEW s \in Savers, Save(s)
  PROVE  SavedVolatile'
<1>1. /\ Volatile(file.state) /\ Volatile(tmp.state) /\ DOMAIN saves = Savers
      /\ \A u \in Savers : Volatile(saves[u].state) /\ SaveCall(saves[u])
  BY DEF EvidenceInv, SavedVolatile, RecoveryTypeOK
<1>2. Volatile(Blank) /\ Volatile(Snapshot)
  BY DEF Volatile, Blank, EmptyMap, Snapshot, EvidenceInv, Backed
<1>3. /\ Empty.state = Blank /\ Damaged.state = Blank /\ NoSave.state = Blank
      /\ Absent.state = Blank /\ \A d : Whole(d).state = d
  BY DEF Empty, Damaged, Absent, NoSave, Whole
<1>4. ASSUME NEW new, Volatile(new.state), saves' = [saves EXCEPT ![s] = new]
      PROVE  \A u \in Savers : Volatile(saves'[u].state)
  BY <1>1, <1>4
<1>5. ASSUME SaveReturns(s) PROVE \A u \in Savers : Volatile(saves'[u].state)
  BY <1>2, <1>3, <1>4, <1>5, Zenon DEF SaveReturns
<1>6. ASSUME NEW step, SaveGoes(s, step) PROVE \A u \in Savers : Volatile(saves'[u].state)
  <2> DEFINE new == [saves[s] EXCEPT !.step = step]
  <2>1. new.state = saves[s].state
    BY <1>1 DEF SaveCall
  <2>2. saves' = [saves EXCEPT ![s] = new]
    BY <1>6 DEF SaveGoes
  <2>. HIDE DEF new
  <2>. QED BY <1>1, <1>4, <2>1, <2>2
<1>7. ASSUME NEW f, NEW content, Volatile(f.state), Volatile(content.state),
             NEW g \in Written(f, content)
      PROVE  Volatile(g.state)
  BY <1>2, <1>3, <1>7 DEF Written
<1>8. CASE SaveSnapshot(s)
  <2> DEFINE new == [step |-> "create", state |-> Snapshot]
  <2>1. new.state = Snapshot /\ saves' = [saves EXCEPT ![s] = new]
    BY <1>8 DEF SaveSnapshot
  <2>. HIDE DEF new
  <2>. QED BY <1>1, <1>2, <1>4, <1>8, <2>1 DEF SaveSnapshot, disk, SavedVolatile
<1>9. CASE SaveCreate(s)
  BY <1>1, <1>2, <1>3, <1>6, <1>9 DEF SaveCreate, SavedVolatile
<1>10. CASE SaveWrite(s)
  <2>1. Volatile(tmp'.state)
    BY <1>1, <1>2, <1>3, <1>7, <1>10 DEF SaveWrite
  <2>. QED BY <1>1, <1>5, <1>6, <1>10, <2>1 DEF SaveWrite, SavedVolatile
<1>11. CASE SaveReopen(s)
  BY <1>1, <1>2, <1>3, <1>5, <1>6, <1>11 DEF SaveReopen, SavedVolatile
<1>12. CASE SaveCopy(s)
  <2>1. Volatile(file'.state) /\ Volatile(tmp'.state)
    BY <1>1, <1>2, <1>3, <1>7, <1>12 DEF SaveCopy, Removed
  <2>. QED BY <1>1, <1>5, <1>12, <2>1 DEF SaveCopy, SavedVolatile
<1>13. CASE SaveCannotOpen(s)
  BY <1>1, <1>5, <1>13 DEF SaveCannotOpen, disk, SavedVolatile
<1>14. CASE SaveRemove(s)
  BY <1>1, <1>2, <1>3, <1>6, <1>14 DEF SaveRemove, Removed, SavedVolatile
<1>. QED BY <1>8, <1>9, <1>10, <1>11, <1>12, <1>13, <1>14 DEF Save

\* Only a thread that ends, or the coordinator's death, ends a worker's connection.
LEMMA ElsewhereConnections ==
  ASSUME PeersInv, Elsewhere
  PROVE  ConnectionsStay
<1>0. DOMAIN conn = Peers /\ \A p \in Peers : ConnectionInv(p)
  BY DEF PeersInv
<1>1. CASE conn' = conn
  BY <1>1 DEF ConnectionsStay
<1>2. ASSUME NEW p \in Peers, ThreadSends(p) PROVE ConnectionsStay
  <2>1. PICK t : Continues(p, t) /\ t.boot = conn[p].boot
    BY <1>2, ThreadContinues
  <2>. QED BY <1>0, <2>1 DEF ConnectionsStay, Continues
<1>3. ASSUME NEW p \in Peers, proc[p] = "new", conn' = [conn EXCEPT ![p].open = TRUE]
      PROVE  ConnectionsStay
  <2>1. conn[p] = NoThread /\ ~ conn[p].open
    BY <1>0, <1>3 DEF ConnectionInv, NoThread
  <2>. QED BY <1>0, <1>3, <2>1 DEF ConnectionsStay
<1>. QED BY <1>1, <1>2, <1>3
     DEF Elsewhere, Dies, Ends, Worker, WorkerRegisters, WorkerHandles, LosesCoordinator,
         WorkerConnects, Client, ClientGets, ClientConnects, ClientAsks, Peers

\* A thread that handles a frame registers in the name it has, or gets its name.
LEMMA HandlesEvidence ==
  ASSUME TypeInv, PeersInv, EvidenceInv, NEW p \in Peers, ThreadHandles(p)
  PROVE  (\A r \in DOMAIN resources' : Backed(r)') /\ ActiveOnCurrent'
<1>1. DOMAIN conn = Peers /\ conn[p].open /\ toCoord[p] # <<>>
  BY Zenon DEF PeersInv, ThreadHandles, Ready
<1>2. ASSUME UNCHANGED vars, ConnectionsStay
      PROVE  (\A r \in DOMAIN resources' : Backed(r)') /\ ActiveOnCurrent'
  BY <1>2, SameEvidence DEF vars, registry
<1>3. ASSUME NEW t, Continues(p, t), t.boot = conn[p].boot \/ conn[p].boot = NoBoot
      PROVE  ConnectionsStay
  BY <1>1, <1>3 DEF Continues, ConnectionsStay
<1>4. CASE p \in Workers
  <2>1. PICK t : /\ Continues(p, t)
                 /\ \/ /\ Head(toCoord[p]).type = "HELLO" /\ UNCHANGED vars
                    \/ /\ t.boot = conn[p].boot
                       /\ UNCHANGED vars \/ (IsWorker(p) /\ WorkerCall(conn[p].boot))
    BY <1>4, WorkerHandled
  <2>2. CASE Head(toCoord[p]).type = "HELLO" /\ UNCHANGED vars
    <3>1. WorkerInv(p) /\ toCoord[p] \in Seq(WorkerFrames)
      BY <1>4 DEF PeersInv, WorkerInv
    <3>2. 1 \in DOMAIN toCoord[p] /\ toCoord[p][1] = Head(toCoord[p])
      BY <1>1, <3>1
    <3>3. conn[p].boot = NoBoot
      BY <2>2, <3>1, <3>2 DEF WorkerInv
    <3>. QED BY <1>2, <1>3, <2>1, <2>2, <3>3
  <2>3. CASE t.boot = conn[p].boot /\ UNCHANGED vars
    BY <1>2, <1>3, <2>1, <2>3
  <2>4. CASE t.boot = conn[p].boot /\ IsWorker(p) /\ WorkerCall(conn[p].boot)
    <3>1. ConnectionsStay
      BY <1>3, <2>1, <2>4
    <3>2. conn[p].boot # NoBoot /\ Connected(conn[p].boot)
      BY <1>1, <2>4 DEF IsWorker, Connected
    <3>. QED BY <2>4, <3>1, <3>2, WorkerCallEvidence
  <2>. QED BY <2>1, <2>2, <2>3, <2>4
<1>5. CASE p \in Clients
  <2>1. PICK t : /\ Continues(p, t) /\ t.boot = conn[p].boot
                 /\ UNCHANGED vars \/ ClientCall
    BY <1>5, ClientHandled
  <2>. QED BY <1>2, <1>3, <2>1, CallEvidence
<1>. QED BY <1>4, <1>5 DEF Peers

\* Every step keeps evidence backed.
LEMMA EvidenceStep ==
  DeploymentInv /\ EvidenceInv /\ [DeploymentNext]_dvars => EvidenceInv'
<1>. SUFFICES ASSUME RecoveryInv, PeersInv, EvidenceInv, [DeploymentNext]_dvars
              PROVE  EvidenceInv'
  BY DEF DeploymentInv
<1>0. TypeInv /\ TypeOK /\ RecoveryTypeOK
  BY DEF RecoveryInv, EngineInv, TypeInv
<1>1. ASSUME UNCHANGED <<file, tmp, saves>> PROVE SavedVolatile'
  BY <1>1 DEF EvidenceInv, SavedVolatile
<1>2. ASSUME UNCHANGED rvars, ConnectionsStay PROVE EvidenceInv'
  <2>1. UNCHANGED <<resources, compositions>> /\ UNCHANGED <<file, tmp, saves>>
    BY <1>2 DEF rvars, vars, registry, disk, saving
  <2>. QED BY <1>1, <1>2, <2>1, SameEvidence DEF EvidenceInv
<1>3. CASE CoordinatorStarts
  <2>1. UNCHANGED <<file, tmp, saves>>
    BY <1>3 DEF CoordinatorStarts, StartLoad, StartServing, disk, saving
  <2>. QED BY <1>1, <1>3, <2>1, StartsEvidence DEF EvidenceInv
<1>4. CASE CoordinatorDies
  <2>1. /\ resources' = EmptyMap /\ compositions' = EmptyMap
        /\ UNCHANGED <<file, tmp>> /\ saves' = [s \in Savers |-> NoSave]
    BY <1>4 DEF CoordinatorDies, Crash, disk
  <2>2. Volatile(NoSave.state)
    BY DEF Volatile, NoSave, Blank, EmptyMap
  <2>3. DOMAIN resources' = {} /\ DOMAIN compositions' = {}
    BY <2>1 DEF EmptyMap
  <2>4. SavedVolatile'
    BY <2>1, <2>2 DEF EvidenceInv, SavedVolatile
  <2>. QED BY <2>3, <2>4 DEF EvidenceInv, ActiveOnCurrent
<1>5. CASE Elsewhere
  BY <1>2, <1>5, ElsewhereStutters, ElsewhereConnections
<1>6. ASSUME NEW p \in Peers, ThreadHandles(p) PROVE EvidenceInv'
  <2>1. UNCHANGED <<file, tmp, saves>>
    BY <1>6 DEF ThreadHandles, disk, saving
  <2>. QED BY <1>0, <1>1, <1>6, <2>1, HandlesEvidence DEF EvidenceInv
<1>7. ASSUME NEW p \in Peers, ThreadSaves(p) PROVE EvidenceInv'
  <2>1. p \in Savers /\ conn[p].open /\ UNCHANGED <<vars, phase, restarts>>
    BY <1>7 DEF ThreadSaves
  <2>2. /\ phase = "serving" /\ DOMAIN conn = Peers
        /\ DOMAIN conn[p] = {"open", "boot", "done", "todo"}
    BY <2>1 DEF PeersInv, ConnectionInv
  <2>3. Save(p)
    BY <1>7, <2>1, <2>2 DEF ThreadSaves, Save
  <2>4. ConnectionsStay
    BY <1>7, <2>2 DEF ThreadSaves, Goes, ConnectionsStay
  <2>5. UNCHANGED <<resources, compositions>>
    BY <2>1 DEF vars, registry
  <2>. QED BY <1>0, <2>1, <2>3, <2>4, <2>5, SaveVolatile, SameEvidence DEF EvidenceInv
<1>8. ASSUME NEW p \in Peers, ThreadCloses(p) PROVE EvidenceInv'
  <2>1. UNCHANGED <<file, tmp, saves>>
    BY <1>8 DEF ThreadCloses, disk, saving
  <2>. QED BY <1>0, <1>1, <1>8, <2>1, ClosesEvidence DEF EvidenceInv
<1>9. CASE UNCHANGED dvars
  <2>1. UNCHANGED rvars /\ conn' = conn
    BY <1>9 DEF dvars
  <2>. QED BY <1>2, <2>1 DEF ConnectionsStay
<1>. QED BY <1>3, <1>4, <1>5, <1>6, <1>7, <1>8, <1>9, DeploymentSplit

\* Nothing is published at the start, and the files hold no state.
LEMMA EvidenceStart == DeploymentInit => EvidenceInv
<1>. SUFFICES ASSUME DeploymentInit PROVE EvidenceInv
  OBVIOUS
<1>1. DOMAIN resources = {} /\ DOMAIN compositions = {}
  BY DEF DeploymentInit, RecoveryInit, Init, EmptyMap
<1>2. Volatile(Blank)
  BY DEF Volatile, Blank, EmptyMap
<1>3. SavedVolatile
  BY <1>2 DEF DeploymentInit, RecoveryInit, SavedVolatile, Absent, NoSave
<1>. QED BY <1>1, <1>3 DEF EvidenceInv, ActiveOnCurrent

\* Whatever is current in the registry was published by a worker that the coordinator
\* is still connected to, and every ACTIVE composition rests on such evidence alone:
\* through a worker's death, the takeover of its node, and restarts from the file.
THEOREM EvidenceIsBacked == DeploymentSpec => []EvidenceBacked
<1>1. EvidenceInv => EvidenceBacked
  BY DEF EvidenceInv, Backed, ActiveOnCurrent, EvidenceBacked
<1>. QED BY <1>1, DeploymentStart, DeploymentStep, EvidenceStart, EvidenceStep, PTL
     DEF DeploymentSpec

-----------------------------------------------------------------------------
(* What is reserved and committed reaches the file.                        *)

\* A saved state d has all that the compositions C, with reservations R, must not
\* lose.
Keeps(C, R, d) ==
  \A c \in DOMAIN C :
    LET v == C[c].reservation
    IN /\ c \in DOMAIN d.compositions
       /\ d.compositions[c].reservation = v
       /\ v \in DOMAIN R /\ R[v].composition = c /\ R[v].state = "COMMITTED" =>
            d.compositions[c].lifecycle # "RESERVED"

\* A composition with a committed reservation of its own is past RESERVED.
CommitsNoted ==
  \A c \in DOMAIN compositions :
    LET v == compositions[c].reservation
    IN /\ v \in DOMAIN reservations
       /\ reservations[v].composition = c /\ reservations[v].state = "COMMITTED"
       => compositions[c].lifecycle # "RESERVED"

\* How far the state of now is on its way to the file, when no Save is due.
SaveProgress(c) ==
  LET call == saves[c]
  IN /\ call.step = "idle" /\ DOMAIN compositions # {} =>
          file.form = "whole" /\ Keeps(compositions, reservations, file.state)
     /\ call.step # "idle" => Keeps(compositions, reservations, call.state)
     /\ call.step = "write" => tmp = Empty
     /\ call.step \in {"remove", "reopen"} => tmp = Whole(call.state)
     /\ call.step = "copy" => tmp = Whole(call.state) /\ file = Empty

DurableInv ==
  /\ CommitsNoted
  /\ \A c \in Clients : conn[c].todo \notin SaveDue => SaveProgress(c)

\* A step that leaves nothing to save: no composition is new, has another
\* reservation or is RESERVED again, and nothing is committed.
Quiet ==
  /\ DOMAIN compositions' = DOMAIN compositions
  /\ \A c \in DOMAIN compositions :
       /\ compositions'[c].reservation = compositions[c].reservation
       /\ compositions'[c].lifecycle = "RESERVED" => compositions[c].lifecycle = "RESERVED"
  /\ \A v \in DOMAIN reservations' :
       /\ v \in DOMAIN reservations
       /\ reservations'[v].composition = reservations[v].composition
       /\ reservations'[v].state = "COMMITTED" => reservations[v].state = "COMMITTED"

\* A saved state that has all that was reserved and committed still has it.
LEMMA QuietKeeps ==
  ASSUME Quiet, NEW d, Keeps(compositions, reservations, d)
  PROVE  Keeps(compositions', reservations', d)
BY DEF Quiet, Keeps

\* What was committed is still noted in its composition.
LEMMA QuietNoted ==
  ASSUME Quiet, CommitsNoted
  PROVE  CommitsNoted'
BY DEF Quiet, CommitsNoted

\* A step that leaves the ledgers alone leaves nothing to save.
LEMMA UnchangedQuiet ==
  ASSUME UNCHANGED <<compositions, reservations>>
  PROVE  Quiet
BY DEF Quiet

\* Lapsing makes nothing RESERVED.
LEMMA LapsedQuiet ==
  ASSUME TypeOK, NEW hit, NEW early, compositions' = Lapsed(hit, early), UNCHANGED reservations
  PROVE  Quiet
<1>1. Relabels(compositions')
  BY LapsedRelabels
<1>2. ASSUME NEW c \in DOMAIN compositions, compositions'[c].lifecycle = "RESERVED"
      PROVE  compositions[c].lifecycle = "RESERVED"
  <2>1. CASE c \notin hit
    BY <1>2, <2>1 DEF Lapsed
  <2>2. CASE c \in hit
    <3> DEFINE l == Lapse(compositions[c].lifecycle, early)
    <3>1. Composition(compositions[c]) /\ compositions[c].lifecycle \in Lifecycle
      BY DEF TypeOK, Composition
    <3>2. compositions'[c] = [compositions[c] EXCEPT !.lifecycle = l]
      BY <2>2 DEF Lapsed
    <3>3. l \in Lifecycle /\ (l = "RESERVED" => compositions[c].lifecycle = "RESERVED")
      BY <3>1 DEF Lapse, Lifecycle
    <3>. HIDE DEF l
    <3>. QED BY <1>2, <3>1, <3>2, <3>3, LifecycleUpdate
  <2>. QED BY <2>1, <2>2
<1>. QED BY <1>1, <1>2 DEF Quiet, Relabels

\* Nor does moving the epoch.
LEMMA EpochQuiet ==
  ASSUME TypeOK, NEW e, AdvanceEpoch(e)
  PROVE  Quiet
<1>1. Relabels(compositions') /\ UNCHANGED reservations
  BY EpochRelabels DEF AdvanceEpoch, ledger
<1>2. ASSUME NEW c \in DOMAIN compositions, compositions'[c].lifecycle = "RESERVED"
      PROVE  compositions[c].lifecycle = "RESERVED"
  <2>1. CASE compositions[c].lifecycle = "ACTIVE"
    <3>1. compositions'[c] = [compositions[c] EXCEPT !.lifecycle = "REVALIDATION_REQUIRED"]
      BY <2>1 DEF AdvanceEpoch
    <3>2. Composition(compositions[c]) /\ "REVALIDATION_REQUIRED" \in Lifecycle
      BY DEF TypeOK, Lifecycle
    <3>. QED BY <1>2, <3>1, <3>2, LifecycleUpdate
  <2>2. CASE compositions[c].lifecycle # "ACTIVE"
    BY <1>2, <2>2 DEF AdvanceEpoch
  <2>. QED BY <2>1, <2>2
<1>. QED BY <1>1, <1>2 DEF Quiet, Relabels

\* A new lifecycle that is not RESERVED, with a reservation that is not committed.
LEMMA LabelQuiet ==
  ASSUME TypeOK, NEW c, NEW l \in Lifecycle, l # "RESERVED", compositions' = WithLifecycle(c, l),
         \/ UNCHANGED reservations
         \/ \E v \in DOMAIN reservations, s \in ReservationState \ {"COMMITTED"} :
              reservations' = [reservations EXCEPT ![v].state = s]
  PROVE  Quiet
<1>1. /\ Relabels(compositions')
      /\ \A d \in DOMAIN compositions :
           compositions'[d].lifecycle = "RESERVED" => compositions[d].lifecycle = "RESERVED"
  BY WithLifecycleRelabels
<1>2. ASSUME NEW v \in DOMAIN reservations, NEW s \in ReservationState \ {"COMMITTED"},
             reservations' = [reservations EXCEPT ![v].state = s]
      PROVE  \A w \in DOMAIN reservations' :
               /\ w \in DOMAIN reservations
               /\ reservations'[w].composition = reservations[w].composition
               /\ reservations'[w].state = "COMMITTED" => reservations[w].state = "COMMITTED"
  BY <1>2, StateUpdate
<1>. QED BY <1>1, <1>2 DEF Quiet, Relabels

\* What a worker sends, and its loss, leave nothing to save.
LEMMA WorkerCallQuiet ==
  ASSUME TypeOK, NEW boot, WorkerCall(boot) \/ MarkEvidenceRevalidationRequired(boot)
  PROVE  Quiet
<1>1. ASSUME NEW N, NEW R, Ingest(N, R), UNCHANGED ledger PROVE Quiet
  BY <1>1, LapsedQuiet DEF Ingest, ledger
<1>2. CASE MarkEvidenceRevalidationRequired(boot)
  BY <1>2, LapsedQuiet DEF MarkEvidenceRevalidationRequired, ledger
<1>. QED BY <1>1, <1>2, Zenon DEF WorkerCall, RegisterNode, RegisterResource

\* The client's calls for which no Save follows.
LEMMA QuietCallQuiet ==
  ASSUME TypeInv, QuietCall
  PROVE  Quiet
<1>0. TypeOK
  BY DEF TypeInv
<1>1. ASSUME NEW req, Compose(req, SeededPaths) PROVE Quiet
  BY <1>1, UnchangedQuiet DEF Compose, ledger
<1>2. ASSUME NEW id, Reserve(id), ~ CanReserve(plans[id]) PROVE Quiet
  BY <1>2, UnchangedQuiet DEF Reserve, ReserveGranted, ReserveRefused
<1>3. ASSUME NEW v, Commit(v), ~ CommitVerified(v) PROVE Quiet
  <2>1. CommitRolledBack(v)
    BY <1>3 DEF Commit, CommitGranted
  <2>2. /\ compositions' = WithLifecycle(reservations[v].composition, "REVALIDATION_REQUIRED")
        /\ reservations' = [reservations EXCEPT ![v].state = "ROLLED_BACK"]
        /\ v \in DOMAIN reservations
    BY <2>1 DEF CommitRolledBack, CommitAllowed, WithLifecycle
  <2>3. /\ "REVALIDATION_REQUIRED" \in Lifecycle
        /\ "ROLLED_BACK" \in ReservationState \ {"COMMITTED"}
    BY DEF Lifecycle, ReservationState
  <2>. QED BY <1>0, <2>2, <2>3, LabelQuiet, Zenon
<1>4. ASSUME NEW c, Activate(c) PROVE Quiet
  <2>1. PICK l \in Lifecycle : l # "RESERVED" /\ compositions' = WithLifecycle(c, l)
    BY <1>4, Zenon DEF Activate, ActivateBody, WithLifecycle, Lifecycle
  <2>2. UNCHANGED reservations
    BY <1>4 DEF Activate, ledger
  <2>. QED BY <1>0, <2>1, <2>2, LabelQuiet
<1>5. ASSUME NEW c, Release(c) PROVE Quiet
  <2>1. compositions' = WithLifecycle(c, "RELEASED") /\ FreeHolds(c)
    BY <1>5 DEF Release
  <2>2. /\ "RELEASED" \in Lifecycle
        /\ "RELEASED" \in ReservationState \ {"COMMITTED"}
    BY DEF Lifecycle, ReservationState
  <2>3. \/ UNCHANGED reservations
        \/ \E v \in DOMAIN reservations, s \in ReservationState \ {"COMMITTED"} :
             reservations' = [reservations EXCEPT ![v].state = s]
    BY <2>1, <2>2 DEF FreeHolds
  <2>. QED BY <1>0, <2>1, <2>2, <2>3, LabelQuiet
<1>. QED BY <1>1, <1>2, <1>3, <1>4, <1>5 DEF QuietCall

\* Those for which one follows: what is committed is noted at once.
LEMMA CallNoted ==
  ASSUME TypeInv, CommitsNoted, ClientCall
  PROVE  CommitsNoted'
<1>0. TypeOK
  BY DEF TypeInv
<1>1. CASE QuietCall
  BY <1>1, QuietCallQuiet, QuietNoted
<1>2. ASSUME NEW id \in CompositionId, Reserve(id), CanReserve(plans[id]) PROVE CommitsNoted'
  <2>1. id \in DOMAIN plans /\ ReserveGranted(id)
    BY <1>2 DEF Reserve, ReserveRefused
  <2>2. /\ DOMAIN compositions' = DOMAIN compositions \cup {id}
        /\ \A c \in DOMAIN compositions : c # id => compositions'[c] = compositions[c]
        /\ compositions'[id].reservation = next_resv
        /\ DOMAIN reservations' = DOMAIN reservations \cup {next_resv}
        /\ \A v \in DOMAIN reservations : v # next_resv => reservations'[v] = reservations[v]
        /\ reservations'[next_resv].state = "PROVISIONAL"
    BY <2>1, ReserveGrantedType, Zenon
  <2>. QED BY <2>2 DEF CommitsNoted
<1>3. ASSUME NEW v \in ReservationId, Commit(v), CommitVerified(v) PROVE CommitsNoted'
  <2> DEFINE own == reservations[v].composition
  <2>1. CommitGranted(v)
    BY <1>3 DEF Commit, CommitRolledBack
  <2>2. /\ compositions' = WithLifecycle(own, "COMMITTED")
        /\ reservations' = [reservations EXCEPT ![v].state = "COMMITTED"]
        /\ v \in DOMAIN reservations /\ own \in DOMAIN compositions
    BY <2>1 DEF CommitGranted, CommitAllowed, WithLifecycle
  <2>3. "COMMITTED" \in Lifecycle /\ "COMMITTED" \in ReservationState
    BY DEF Lifecycle, ReservationState
  <2>4. /\ Relabels(compositions') /\ compositions'[own].lifecycle = "COMMITTED"
        /\ \A c \in DOMAIN compositions : c # own => compositions'[c] = compositions[c]
    BY <1>0, <2>2, <2>3, WithLifecycleRelabels
  <2>5. /\ DOMAIN reservations' = DOMAIN reservations
        /\ reservations'[v].composition = own
        /\ \A w \in DOMAIN reservations : w # v => reservations'[w] = reservations[w]
    <3>1. Reservation(reservations[v])
      BY <1>0, <2>2 DEF TypeOK
    <3>2. /\ DOMAIN reservations' = DOMAIN reservations
          /\ reservations'[v] = [reservations[v] EXCEPT !.state = "COMMITTED"]
          /\ \A w \in DOMAIN reservations : w # v => reservations'[w] = reservations[w]
      BY <2>2
    <3>3. [reservations[v] EXCEPT !.state = "COMMITTED"].composition = own
      BY <3>1 DEF Reservation
    <3>. QED BY <3>2, <3>3
  <2>6. DOMAIN compositions' = DOMAIN compositions
    BY <2>4 DEF Relabels
  <2>. HIDE DEF own
  <2>. QED BY <2>4, <2>5, <2>6 DEF CommitsNoted
<1>. QED BY <1>1, <1>2, <1>3 DEF ClientCall, QuietCall

\* The clients for which a Save was due still have it due.
SavesStayDue ==
  \A c \in Clients : conn'[c].todo \notin SaveDue => conn[c].todo \notin SaveDue

\* A step that leaves nothing to save, and forgets no Save that is due.
LEMMA QuietDurable ==
  ASSUME DurableInv, Quiet, UNCHANGED <<file, tmp, saves>>, SavesStayDue
  PROVE  DurableInv'
<1>1. CommitsNoted'
  BY QuietNoted DEF DurableInv
<1>2. ASSUME NEW c \in Clients, conn'[c].todo \notin SaveDue PROVE SaveProgress(c)'
  <2>1. SaveProgress(c) /\ DOMAIN compositions' = DOMAIN compositions
    BY <1>2 DEF DurableInv, SavesStayDue, Quiet
  <2>. QED BY <2>1, QuietKeeps DEF SaveProgress
<1>. QED BY <1>1, <1>2 DEF DurableInv

\* A step elsewhere makes no Save undone.
LEMMA ElsewhereSaves ==
  ASSUME PeersInv, Elsewhere
  PROVE  SavesStayDue
<1>0. DOMAIN conn = Peers /\ \A p \in Peers : ConnectionInv(p)
  BY DEF PeersInv
<1>1. CASE conn' = conn
  BY <1>1 DEF SavesStayDue
<1>2. ASSUME NEW p \in Peers, ThreadSends(p) PROVE SavesStayDue
  <2>. SUFFICES ASSUME NEW c \in Clients, conn'[c].todo \notin SaveDue
                PROVE  conn[c].todo \notin SaveDue
    BY DEF SavesStayDue
  <2>0. PICK t : Continues(p, t) /\ t.todo = Tail(conn[p].todo)
    BY <1>2, ThreadContinues
  <2>1. CASE c # p
    BY <1>0, <2>0, <2>1 DEF Continues, Peers
  <2>2. CASE c = p
    <3>1. conn[p].todo \in {<<>>} \cup AnswerDue \cup SaveDue
      BY <2>2 DEF PeersInv, ClientInv
    <3>2. conn[p].todo # <<>> /\ Head(conn[p].todo) # SAVE
      BY <1>2, Zenon DEF ThreadSends
    <3>. QED BY <1>0, <2>0, <2>2, <3>1, <3>2, TodoFacts, Zenon DEF Continues
  <2>. QED BY <2>1, <2>2
<1>3. ASSUME NEW p \in Peers, conn' = [conn EXCEPT ![p].open = TRUE] PROVE SavesStayDue
  <2>1. DOMAIN conn[p] = {"open", "boot", "done", "todo"}
    BY <1>0 DEF ConnectionInv
  <2>2. \A c \in Clients : c \in Peers
    BY DEF Peers
  <2>3. \A c \in Peers : conn'[c].todo = conn[c].todo
    BY <1>0, <1>3, <2>1
  <2>. QED BY <2>2, <2>3 DEF SavesStayDue
<1>. QED BY <1>1, <1>2, <1>3
     DEF Elsewhere, Dies, Ends, Worker, WorkerRegisters, WorkerHandles, LosesCoordinator,
         WorkerConnects, Client, ClientGets, ClientConnects, ClientAsks, Peers

\* A coordinator that starts has what the file keeps.
LEMMA StartsDurable ==
  ASSUME RecoveryInv, PeersInv, DurableInv, CoordinatorStarts
  PROVE  DurableInv'
<1>0. TypeOK /\ RecoveryTypeOK /\ phase # "serving"
  BY DEF RecoveryInv, EngineInv, TypeInv, CoordinatorStarts, StartLoad, StartServing
<1>1. UNCHANGED <<file, tmp, saves>> /\ conn' = conn /\ SavesStayDue
  BY DEF CoordinatorStarts, StartLoad, StartServing, disk, saving, SavesStayDue
<1>2. ASSUME NEW e, StartServing(e) PROVE DurableInv'
  BY <1>0, <1>1, <1>2, EpochQuiet, QuietDurable DEF StartServing
<1>3. CASE StartLoad /\ ~ Readable(file)
  BY <1>1, <1>3, UnchangedQuiet, QuietDurable DEF StartLoad, ledger
<1>4. CASE StartLoad /\ Readable(file)
  <2> DEFINE d == file.state
  <2>1. LoadState(d) /\ DurableState(d) /\ file.form = "whole"
    BY <1>0, <1>4 DEF StartLoad, RecoveryTypeOK, Contents, Readable
  <2>. HIDE DEF d
  <2>2. /\ DOMAIN compositions' = DOMAIN d.compositions
        /\ \A c \in DOMAIN d.compositions : compositions'[c] = Restored(d.compositions[c])
        /\ DOMAIN reservations' = {}
    BY <2>1 DEF LoadState, EmptyMap
  <2>3. ASSUME NEW c \in DOMAIN d.compositions
        PROVE  compositions'[c].reservation = d.compositions[c].reservation
    <3>1. "reservation" \in DOMAIN d.compositions[c]
      BY <2>1 DEF DurableState, Composition
    <3>. QED BY <2>2, <3>1, Zenon DEF Restored
  <2>4. Keeps(compositions', reservations', d)
    BY <2>2, <2>3 DEF Keeps
  <2>5. CommitsNoted'
    BY <2>2 DEF CommitsNoted
  <2>6. ASSUME NEW c \in Clients PROVE SaveProgress(c)'
    <3>1. c \in Savers /\ c \in Peers /\ ~ Saving(c)
      BY <1>0, DeploymentAssumption, Zenon DEF PeersInv, ClientInv, ConnectionInv, Peers
    <3>2. saves'[c].step = "idle" /\ file'.form = "whole" /\ file'.state = d
      BY <1>1, <2>1, <3>1 DEF Saving, d
    <3>. QED BY <2>4, <3>2 DEF SaveProgress
  <2>. QED BY <2>5, <2>6 DEF DurableInv
<1>. QED BY <1>2, <1>3, <1>4 DEF CoordinatorStarts

\* One that dies has nothing left that the file could lack.
LEMMA DiesDurable ==
  ASSUME CoordinatorDies
  PROVE  DurableInv'
<1>1. DOMAIN compositions' = {} /\ saves' = [s \in Savers |-> NoSave]
  BY DEF CoordinatorDies, Crash, EmptyMap
<1>2. CommitsNoted'
  BY <1>1 DEF CommitsNoted
<1>3. ASSUME NEW c \in Clients PROVE SaveProgress(c)'
  <2>1. saves'[c].step = "idle"
    BY <1>1, DeploymentAssumption DEF NoSave
  <2>. QED BY <1>1, <2>1 DEF SaveProgress
<1>. QED BY <1>2, <1>3 DEF DurableInv

\* There is one client, and the disk works.
SoleClient == \E c : Clients = {c}
Undisturbed == SoleClient /\ ~ DiskMayFail

\* A Save takes the state of now to the file, unless another one interferes or the
\* disk fails.
LEMMA SavesDurable ==
  ASSUME Undisturbed, RecoveryInv, PeersInv, DurableInv, NEW c \in Peers, ThreadSaves(c)
  PROVE  DurableInv'
<1>0. RecoveryTypeOK /\ DOMAIN saves = Savers /\ DOMAIN conn = Peers
  BY DEF RecoveryInv, RecoveryTypeOK, PeersInv
<1>1. c \in Savers /\ Clients = {c} /\ DOMAIN saves[c] = {"step", "state"}
  BY <1>0, DeploymentAssumption
     DEF Undisturbed, SoleClient, ThreadSaves, RecoveryTypeOK, SaveCall
<1>2. UNCHANGED <<compositions, reservations>>
  BY DEF ThreadSaves, vars, ledger
<1>3. CommitsNoted'
  BY <1>2, UnchangedQuiet, QuietNoted DEF DurableInv
<1>. SUFFICES ASSUME conn'[c].todo \notin SaveDue PROVE SaveProgress(c)'
  BY <1>1, <1>3 DEF DurableInv
<1>4. ASSUME NEW step, SaveGoes(c, step)
      PROVE  saves'[c].step = step /\ saves'[c].state = saves[c].state
  BY <1>0, <1>1, <1>4 DEF SaveGoes
<1>5. ASSUME SaveReturns(c) PROVE saves'[c].step = "idle"
  BY <1>0, <1>1, <1>5 DEF SaveReturns, NoSave
<1>6. ASSUME NEW d PROVE Whole(d).form = "whole" /\ Whole(d).state = d
  BY DEF Whole
<1>7. CASE SaveSnapshot(c)
  <2>1. saves'[c].step = "create" /\ saves'[c].state = Snapshot
    BY <1>0, <1>1, <1>7 DEF SaveSnapshot
  <2>2. Snapshot.compositions = compositions
    BY DEF Snapshot
  <2>3. Keeps(compositions', reservations', Snapshot)
    BY <1>2, <2>2 DEF Keeps, DurableInv, CommitsNoted
  <2>. QED BY <2>1, <2>3 DEF SaveProgress
<1>8. ASSUME saves[c].step # "idle"
      PROVE  SaveProgress(c) /\ Keeps(compositions', reservations', saves[c].state)
  <2>1. ClientInv(c) /\ Saving(c)
    BY <1>1, <1>8 DEF PeersInv, Saving
  <2>2. SaveProgress(c)
    BY <1>1, <2>1 DEF ClientInv, DurableInv
  <2>. QED BY <1>2, <1>8, <2>2 DEF SaveProgress
<1>9. CASE SaveCreate(c)
  <2>1. saves[c].step # "idle" /\ tmp' = Empty /\ SaveGoes(c, "write")
    BY <1>9 DEF SaveCreate
  <2>2. saves'[c].step = "write" /\ saves'[c].state = saves[c].state
    BY <1>4, <2>1
  <2>3. Keeps(compositions', reservations', saves'[c].state)
    BY <1>8, <2>1, <2>2
  <2>. QED BY <2>1, <2>2, <2>3 DEF SaveProgress
<1>10. CASE SaveWrite(c)
  <2>1. /\ saves[c].step = "write" /\ SaveGoes(c, "remove")
        /\ tmp' \in Written(tmp, Whole(saves[c].state))
    BY <1>10 DEF SaveWrite, Undisturbed
  <2>2. tmp = Empty /\ Empty.form = "empty"
    BY <1>8, <2>1 DEF SaveProgress, Empty
  <2>3. tmp' = Whole(saves[c].state)
    BY <1>6, <2>1, <2>2 DEF Written
  <2>4. saves'[c].step = "remove" /\ saves'[c].state = saves[c].state
    BY <1>4, <2>1
  <2>5. Keeps(compositions', reservations', saves'[c].state)
    BY <1>8, <2>1, <2>4
  <2>6. tmp' = Whole(saves'[c].state)
    BY <2>3, <2>4
  <2>. QED BY <2>4, <2>5, <2>6 DEF SaveProgress
<1>11. CASE SaveReopen(c)
  <2>1. saves[c].step = "reopen" /\ file' = Empty /\ tmp' = tmp
    BY <1>11 DEF SaveReopen
  <2>2. tmp = Whole(saves[c].state)
    BY <1>8, <2>1 DEF SaveProgress
  <2>3. tmp # Absent
    BY <1>6, <2>2 DEF Absent
  <2>4. SaveGoes(c, "copy")
    BY <1>11, <2>3 DEF SaveReopen
  <2>5. saves'[c].step = "copy" /\ saves'[c].state = saves[c].state
    BY <1>4, <2>4
  <2>6. Keeps(compositions', reservations', saves'[c].state)
    BY <1>8, <2>1, <2>5
  <2>7. tmp' = Whole(saves'[c].state)
    BY <2>1, <2>2, <2>5
  <2>. QED BY <2>1, <2>5, <2>6, <2>7 DEF SaveProgress
<1>12. CASE SaveCopy(c)
  <2>1. saves[c].step = "copy" /\ file' \in Written(file, tmp) /\ SaveReturns(c)
    BY <1>12 DEF SaveCopy, Undisturbed
  <2>2. file = Empty /\ Empty.form = "empty" /\ tmp = Whole(saves[c].state)
    BY <1>8, <2>1, Zenon DEF SaveProgress, Empty
  <2>3. file' = Whole(saves[c].state)
    BY <1>6, <2>1, <2>2 DEF Written
  <2>4. file'.form = "whole" /\ file'.state = saves[c].state
    BY <1>6, <2>3
  <2>. QED BY <1>5, <1>8, <2>1, <2>4 DEF SaveProgress
<1>13. CASE SaveRemove(c)
  <2>1. saves[c].step = "remove" /\ tmp' = tmp /\ SaveGoes(c, "reopen")
    BY <1>13 DEF SaveRemove
  <2>2. saves'[c].step = "reopen" /\ saves'[c].state = saves[c].state
    BY <1>4, <2>1
  <2>3. Keeps(compositions', reservations', saves'[c].state)
    BY <1>8, <2>1, <2>2
  <2>4. tmp' = Whole(saves'[c].state)
    BY <1>8, <2>1, <2>2 DEF SaveProgress
  <2>. QED BY <2>2, <2>3, <2>4 DEF SaveProgress
<1>. QED BY <1>7, <1>9, <1>10, <1>11, <1>12, <1>13
     DEF ThreadSaves, SaveCannotOpen, Undisturbed

\* A client's frame is followed by a Save when the engine has granted something.
LEMMA HandlesDurable ==
  ASSUME Undisturbed, RecoveryInv, PeersInv, DurableInv, NEW p \in Peers, ThreadHandles(p)
  PROVE  DurableInv'
<1>0. TypeInv /\ TypeOK /\ DOMAIN conn = Peers /\ UNCHANGED <<file, tmp, saves>>
  BY Zenon DEF RecoveryInv, EngineInv, TypeInv, PeersInv, ThreadHandles, disk, saving
<1>1. UNCHANGED vars => Quiet
  BY UnchangedQuiet DEF vars, ledger
<1>2. CASE p \in Workers
  <2>1. PICK t : Continues(p, t) /\ (UNCHANGED vars \/ WorkerCall(conn[p].boot))
    BY <1>2, WorkerHandled
  <2>2. p \notin Clients /\ Clients \subseteq Peers
    BY <1>2, DeploymentAssumption DEF Peers
  <2>3. SavesStayDue
    BY <1>0, <2>1, <2>2 DEF Continues, SavesStayDue
  <2>. QED BY <1>0, <1>1, <2>1, <2>3, WorkerCallQuiet, QuietDurable
<1>3. CASE p \in Clients
  <2>1. PICK t : /\ Continues(p, t)
                 /\ UNCHANGED vars \/ ClientCall
                 /\ t.todo \notin SaveDue => UNCHANGED vars \/ QuietCall
    BY <1>3, ClientHandled
  <2>2. Clients = {p} /\ conn'[p].todo = t.todo
    BY <1>0, <1>3, <2>1 DEF Undisturbed, SoleClient, Continues
  <2>3. CASE t.todo \in SaveDue
    <3>1. CommitsNoted'
      BY <1>0, <1>1, <2>1, CallNoted, QuietNoted DEF DurableInv
    <3>. QED BY <2>2, <2>3, <3>1 DEF DurableInv
  <2>4. CASE t.todo \notin SaveDue
    <3>1. conn[p].todo = <<>>
      BY Zenon DEF ThreadHandles, Ready
    <3>2. SavesStayDue
      BY <2>2, <3>1, ShapeFacts DEF SavesStayDue
    <3>. QED BY <1>0, <1>1, <2>1, <2>4, <3>2, QuietCallQuiet, QuietDurable
  <2>. QED BY <2>3, <2>4
<1>. QED BY <1>2, <1>3 DEF Peers

\* Every step keeps what is reserved and committed on its way to the file.
LEMMA DurableStep ==
  Undisturbed /\ DeploymentInv /\ DurableInv /\ [DeploymentNext]_dvars => DurableInv'
<1>. SUFFICES ASSUME Undisturbed, RecoveryInv, PeersInv, DurableInv, [DeploymentNext]_dvars
              PROVE  DurableInv'
  BY DEF DeploymentInv
<1>1. ASSUME UNCHANGED rvars, SavesStayDue PROVE DurableInv'
  <2>1. UNCHANGED <<compositions, reservations>> /\ UNCHANGED <<file, tmp, saves>>
    BY <1>1 DEF rvars, vars, ledger, disk, saving
  <2>. QED BY <1>1, <2>1, UnchangedQuiet, QuietDurable
<1>2. CASE Elsewhere
  BY <1>1, <1>2, ElsewhereStutters, ElsewhereSaves
<1>3. ASSUME NEW p \in Peers, ThreadCloses(p) PROVE DurableInv'
  <2>1. UNCHANGED <<file, tmp, saves>> /\ DOMAIN conn = Peers /\ TypeOK
    BY <1>3 DEF ThreadCloses, disk, saving, PeersInv, RecoveryInv, EngineInv, TypeInv
  <2>2. Quiet
    BY <1>3, <2>1, WorkerCallQuiet, UnchangedQuiet DEF ThreadCloses, vars, ledger
  <2>3. SavesStayDue
    BY <1>3, <2>1, ShapeFacts DEF ThreadCloses, Ready, SavesStayDue, Peers
  <2>. QED BY <2>1, <2>2, <2>3, QuietDurable
<1>4. CASE UNCHANGED dvars
  <2>1. UNCHANGED rvars /\ conn' = conn
    BY <1>4 DEF dvars
  <2>. QED BY <1>1, <2>1 DEF SavesStayDue
<1>. QED BY <1>2, <1>3, <1>4, DeploymentSplit, StartsDurable, DiesDurable, HandlesDurable,
            SavesDurable

\* Nothing is composed at the start, and nothing is being saved.
LEMMA DurableStart == DeploymentInit => DurableInv
<1>. SUFFICES ASSUME DeploymentInit PROVE DurableInv
  OBVIOUS
<1>1. DOMAIN compositions = {} /\ saves = [s \in Savers |-> NoSave]
  BY DEF DeploymentInit, RecoveryInit, Init, EmptyMap
<1>2. ASSUME NEW c \in Clients PROVE SaveProgress(c)
  <2>1. saves[c].step = "idle"
    BY <1>1, DeploymentAssumption DEF NoSave
  <2>. QED BY <1>1, <2>1 DEF SaveProgress
<1>. QED BY <1>1, <1>2 DEF DurableInv, CommitsNoted

\* With one client and a disk that works, what RESERVE_REQ and COMMIT_REQ were
\* granted is in a complete state file once the coordinator's threads have no Save
\* left to make (the two handlers of coordinator.cpp answer first and then save).
THEOREM CommitsAreDurable == Undisturbed /\ DeploymentSpec => []CommittedIsDurable
<1>. SUFFICES ASSUME Undisturbed PROVE DeploymentSpec => []CommittedIsDurable
  OBVIOUS
<1>0. DeploymentInv /\ DurableInv /\ [DeploymentNext]_dvars => DurableInv'
  BY DurableStep
<1>1. DeploymentInv /\ DurableInv => CommittedIsDurable
  <2>. SUFFICES ASSUME PeersInv, DurableInv, SavesDone,
                       NEW c \in DOMAIN compositions
                PROVE  file.form = "whole" /\ Keeps(compositions, reservations, file.state)
    BY DEF DeploymentInv, CommittedIsDurable, Keeps
  <2>1. PICK s : s \in Clients
    BY DEF Undisturbed, SoleClient
  <2>2. conn[s].todo \in {<<>>} \cup AnswerDue \cup SaveDue
    BY <2>1 DEF PeersInv, ClientInv
  <2>3. ~ Saving(s) /\ \A i \in DOMAIN conn[s].todo : conn[s].todo[i] # SAVE
    BY <2>1 DEF SavesDone
  <2>4. conn[s].todo \notin SaveDue
    BY <2>2, <2>3, SaveDueFacts
  <2>5. saves[s].step = "idle"
    BY <2>1, <2>3, DeploymentAssumption DEF Saving
  <2>. QED BY <2>1, <2>4, <2>5 DEF DurableInv, SaveProgress
<1>. QED BY <1>0, <1>1, DeploymentStart, DeploymentStep, DurableStart, PTL
     DEF DeploymentSpec

\* So what is proved of one engine that is saved, killed and started again holds of
\* the deployment: authority is earned in this process and bound to current epochs
\* and generations, whatever workers and clients send (Commit, Activate, Load).
THEOREM DeployedAuthority == DeploymentSpec => [](AuthorityEarned /\ AuthorityCurrent)
BY RecoveryRefined, EarnedAuthority, RecoveredBinding, PTL DEF RecoveryImplemented
=============================================================================
