----------------------------- MODULE PeerProofs -----------------------------
(***************************************************************************)
(* Proofs about Deployment, for any number of workers and clients, any     *)
(* boots, descriptors and buffer sizes: what is on the connections, what   *)
(* the coordinator's threads have left to do, and that they use the engine *)
(* and the files only as Recovery allows.                                  *)
(***************************************************************************)
EXTENDS Deployment, FiniteSetTheorems, WellFoundedInduction, NaturalsInduction, TLAPS

-----------------------------------------------------------------------------
(* Numbers, lists and sequences.                                           *)

\* A nonempty set of naturals has a smallest element.
LEMMA LeastNatural ==
  ASSUME NEW T, T \subseteq Nat, T # {}
  PROVE  \E t \in T : \A y \in T : t <= y
<1>1. PICK t \in T : \A y \in T : ~ (<<y, t>> \in OpToRel(<, Nat))
  BY NatLessThanWellFounded, WFMin
<1>2. ASSUME NEW y \in T PROVE ~ (y < t)
  <2>1. y < t => <<y, t>> \in OpToRel(<, Nat)
    BY Zenon DEF OpToRel
  <2>. QED BY <1>1, <2>1
<1>3. \A y \in T : y \in Nat
  OBVIOUS
<1>. QED BY <1>2, <1>3

\* A finite set can be listed, and the list has only its elements.
LEMMA ListedType ==
  ASSUME NEW S, IsFiniteSet(S)
  PROVE  /\ Cardinality(S) \in Nat
         /\ (CHOOSE f \in Bijection(1..Cardinality(S), S) : TRUE) \in [1..Cardinality(S) -> S]
<1>1. PICK n \in Nat : ExistsBijection(1..n, S)
  BY FS_NatBijection
<1>2. Cardinality(S) = n
  BY <1>1, FS_CountingElements
<1>3. Bijection(1..n, S) # {}
  BY <1>1 DEF ExistsBijection
<1>4. Bijection(1..n, S) \subseteq [1..n -> S]
  BY Zenon DEF Bijection, Injection
<1>. QED BY <1>2, <1>3, <1>4

\* What a sequence is.
LEMMA SeqFunctions == \A S : Seq(S) = UNION {[1..n -> S] : n \in Nat}
OBVIOUS

\* The empty sequence is the one of length zero.
LEMMA EmptySequence ==
  ASSUME NEW S, NEW s \in Seq(S)
  PROVE  s = <<>> <=> Len(s) = 0
OBVIOUS

\* What workers send, what clients send, and what the coordinator sends back.
WorkerFrames ==
  {Frame("HELLO", boot) : boot \in WorkerBootId}
    \cup {Frame("REGISTER", Serves[w]) : w \in Workers}
    \cup {Frame("PUBLISH_NODE", [id |-> n, record |-> OwnedNode(SynNodes[n], boot)]) :
            n \in DOMAIN SynNodes, boot \in WorkerBootId}
    \cup {Frame("PUBLISH_RESOURCE",
                [id |-> r, record |-> OwnedResource(SynResources[r], boot)]) :
            r \in DOMAIN SynResources, boot \in WorkerBootId}
    \cup {Bare("HEARTBEAT")}

ClientFrames ==
  {Frame("COMPOSE_REQ", req) : req \in ClientRequests}
    \cup {Frame("RESERVE_REQ", id) : id \in CompositionId}
    \cup {Frame("COMMIT_REQ", v) : v \in ReservationId}
    \cup {Frame(type, c) : type \in {"ACTIVATE_REQ", "RELEASE_REQ"}, c \in CompositionId}
    \cup {Bare(type) : type \in {"QUERY_STATE", "SAVE_REQ", "HEARTBEAT", "BYE"}}

AnswerFrames ==
  {Bare(type) : type \in {"ACK", "COMPOSE_RESP", "RESERVE_RESP", "COMMIT_RESP",
                          "ACTIVATE_RESP", "RELEASE_RESP", "STATE_RESP", "SAVE_RESP",
                          "HEARTBEAT"}}

DescriptorFrames ==
  {Frame("PUBLISH_NODE", [id |-> n, record |-> SynNodes[n]]) : n \in DOMAIN SynNodes}
    \cup {Frame("PUBLISH_RESOURCE", [id |-> r, record |-> SynResources[r]]) :
            r \in DOMAIN SynResources}

Outgoing == AnswerFrames \cup DescriptorFrames

\* A connection: its frames, its thread, and that it exists only while the
\* coordinator serves and after its process has started.
ConnectionInv(p) ==
  /\ toPeer[p] \in Seq(Outgoing) /\ Len(toPeer[p]) <= PeerBuffer
  /\ Len(toCoord[p]) <= CoordinatorBuffer
  /\ DOMAIN conn[p] = {"open", "boot", "done", "todo"}
  /\ conn[p].open \in BOOLEAN /\ conn[p].done \in BOOLEAN
  /\ conn[p].boot \in WorkerBootId \cup {NoBoot}
  /\ ~ conn[p].open => conn[p] = NoThread
  /\ conn[p].open => phase = "serving"
  /\ proc[p] = "new" => conn[p] = NoThread /\ toCoord[p] = <<>> /\ toPeer[p] = <<>>

\* A worker says HELLO before anything else, and its thread has nothing to save.
WorkerInv(w) ==
  /\ toCoord[w] \in Seq(WorkerFrames)
  /\ conn[w].todo \in Seq(Outgoing)
  /\ \A i \in DOMAIN toCoord[w] :
       toCoord[w][i].type = "HELLO" => i = 1 /\ conn[w].boot = NoBoot

\* What is left to do for a client's frame: an answer before or after a Save.
NoAnswerDue == {<<>>, <<SAVE>>}
AnswerDue   == {<<a>> : a \in AnswerFrames}
SaveDue     == {<<SAVE>>} \cup {<<a, SAVE>> : a \in AnswerFrames}
                 \cup {<<SAVE, a>> : a \in AnswerFrames}

\* Between a client's request and its answer there is one frame: the request, the
\* answer that is due, or the answer on its way. Otherwise there is none.
InFlight(c) ==
  \/ Len(toCoord[c]) = 1 /\ toPeer[c] = <<>> /\ conn[c].todo \in NoAnswerDue
  \/ toCoord[c] = <<>> /\ toPeer[c] = <<>>
  \/ toCoord[c] = <<>> /\ Len(toPeer[c]) = 1 /\ conn[c].todo \in NoAnswerDue

Settled(c) == toCoord[c] = <<>> /\ toPeer[c] = <<>> /\ conn[c].todo \in NoAnswerDue

ClientInv(c) ==
  /\ toCoord[c] \in Seq(ClientFrames) /\ Len(toCoord[c]) <= 1
  /\ conn[c].boot = NoBoot
  /\ conn[c].todo \in {<<>>} \cup AnswerDue \cup SaveDue
  /\ Saving(c) => conn[c].open /\ conn[c].todo \notin SaveDue
  /\ Running(c) => InFlight(c) /\ (c \notin waiting => Settled(c))

PeersInv ==
  /\ proc \in [Peers -> {"new", "greeting", "up", "gone"}]
  /\ DOMAIN toCoord = Peers /\ DOMAIN toPeer = Peers /\ DOMAIN conn = Peers
  /\ waiting \subseteq Clients
  /\ \A p \in Peers : ConnectionInv(p)
  /\ \A w \in Workers : WorkerInv(w)
  /\ \A c \in Clients : ClientInv(c)

-----------------------------------------------------------------------------
(* The descriptors that answer a REGISTER.                                 *)

\* Concatenating sequences over a set gives a sequence over it: the recursive
\* function exists on every prefix, and stays in the set.
LEMMA ConcatenatedType ==
  ASSUME NEW S, NEW seqs \in Seq(Seq(S))
  PROVE  Concatenated(seqs) \in Seq(S)
<1> DEFINE n == Len(seqs)
           Steps(g, k) == [i \in 0..k |-> IF i = 0 THEN <<>> ELSE g[i-1] \o seqs[i]]
           Built(k) == \E g : g = Steps(g, k)
<1>0. n \in Nat /\ \A i \in 1..n : seqs[i] \in Seq(S)
  OBVIOUS
<1>1. \A k \in 0..n : Built(k)
  <2> DEFINE Bad == {k \in 0..n : ~ Built(k)}
  <2>1. SUFFICES ASSUME Bad # {} PROVE FALSE
    BY Zenon
  <2>2. Bad \subseteq Nat
    <3> HIDE DEF Built
    <3>. QED BY <1>0
  <2>3. PICK k \in Bad : \A y \in Bad : k <= y
    <3> HIDE DEF Bad
    <3>. QED BY <2>1, <2>2, LeastNatural, Zenon
  <2>4. k # 0
    <3> DEFINE g0 == [i \in 0..0 |-> <<>>]
    <3>1. g0 = Steps(g0, 0)
      OBVIOUS
    <3>. QED BY <2>3, <3>1, Zenon
  <2>5. k-1 \in 0..n /\ k \in 0..n
    BY <1>0, <2>3, <2>4
  <2>6. k - 1 \notin Bad
    <3> HIDE DEF Built
    <3>1. ASSUME k - 1 \in Bad PROVE FALSE
      <4>1. k <= k - 1
        BY <2>3, <3>1
      <4>. QED BY <2>5, <4>1
    <3>. QED BY <3>1
  <2>7. PICK g : g = Steps(g, k-1)
    BY <2>5, <2>6, Zenon
  <2> DEFINE h == [i \in 0..k |-> IF i = k THEN g[k-1] \o seqs[k] ELSE g[i]]
  <2>8. h = Steps(h, k)
    <3>1. ASSUME NEW i \in 0..k PROVE h[i] = Steps(h, k)[i]
      <4>1. CASE i = k
        <5>1. h[k-1] = g[k-1]
          BY <2>4, <2>5
        <5>. QED BY <2>4, <4>1, <5>1, Zenon
      <4>2. CASE i # k
        <5>1. i \in 0..(k-1) /\ h[i] = g[i]
          BY <2>5, <4>2
        <5>2. g[i] = IF i = 0 THEN <<>> ELSE g[i-1] \o seqs[i]
          BY <2>7, <5>1, Zenon
        <5>3. i # 0 => h[i-1] = g[i-1]
          BY <2>5, <5>1
        <5>. QED BY <5>1, <5>2, <5>3
      <4>. QED BY <4>1, <4>2
    <3> HIDE DEF h
    <3>. QED BY <3>1, Zenon DEF h
  <2>. QED BY <2>3, <2>8, Zenon
<1>2. PICK f : Concatenated(seqs) = f[n] /\ f = Steps(f, n)
  <2>1. Built(n)
    <3> HIDE DEF Built
    <3>. QED BY <1>0, <1>1
  <2>. QED BY <2>1, Zenon DEF Concatenated
<1>3. \A i \in 0..n : f[i] \in Seq(S)
  <2> DEFINE Bad == {k \in 0..n : f[k] \notin Seq(S)}
  <2>1. SUFFICES ASSUME Bad # {} PROVE FALSE
    OBVIOUS
  <2>2. Bad \subseteq Nat
    OBVIOUS
  <2>3. PICK k \in Bad : \A y \in Bad : k <= y
    <3> HIDE DEF Bad
    <3>. QED BY <2>1, <2>2, LeastNatural, Zenon
  <2>4. f[k] = IF k = 0 THEN <<>> ELSE f[k-1] \o seqs[k]
    BY <1>2, <2>3, Zenon
  <2>5. k # 0 => f[k-1] \in Seq(S) /\ k \in 1..n
    BY <1>0, <2>3
  <2>6. f[k] \notin Seq(S) /\ (k # 0 => seqs[k] \in Seq(S))
    BY <1>0, <2>3, <2>5
  <2>7. <<>> \in Seq(S) /\ \A x, y \in Seq(S) : x \o y \in Seq(S)
    OBVIOUS
  <2> HIDE DEF Steps
  <2>. QED BY <2>4, <2>5, <2>6, <2>7
<1>4. n \in 0..n
  BY <1>0
<1>. HIDE DEF Steps
<1>. QED BY <1>2, <1>3, <1>4

\* The coordinator serves descriptors its backend has, and nothing else.
LEMMA DescriptorsType ==
  ASSUME NEW ids, NEW T, ids \in Seq(T)
  PROVE  Descriptors(ids) \in Seq(DescriptorFrames)
<1>1. ASSUME NEW n PROVE NodeDescriptor(n) \in Seq(DescriptorFrames)
  <2> DEFINE f == Frame("PUBLISH_NODE", [id |-> n, record |-> SynNodes[n]])
  <2>1. n \in DOMAIN SynNodes => f \in DescriptorFrames
    BY DEF DescriptorFrames
  <2>2. NodeDescriptor(n) = IF n \in DOMAIN SynNodes THEN <<f>> ELSE <<>>
    BY DEF NodeDescriptor
  <2>. HIDE DEF f
  <2>. QED BY <2>1, <2>2
<1>2. ASSUME NEW n PROVE ResourceDescriptors(n) \in Seq(DescriptorFrames)
  <2> DEFINE S == {r \in DOMAIN SynResources : SynResources[r].node = n}
             list == CHOOSE f \in Bijection(1..Cardinality(S), S) : TRUE
             frame(r) == Frame("PUBLISH_RESOURCE", [id |-> r, record |-> SynResources[r]])
  <2>1. IsFiniteSet(S)
    BY FS_Subset, InputsOfDeployment
  <2>2. list \in [1..Cardinality(S) -> S] /\ Cardinality(S) \in Nat
    <3>. HIDE DEF S
    <3>. QED BY <2>1, ListedType, Zenon
  <2>3. \A r \in S : frame(r) \in DescriptorFrames
    BY DEF DescriptorFrames
  <2>4. ResourceDescriptors(n) = [i \in 1..Cardinality(S) |-> frame(list[i])]
    BY DEF ResourceDescriptors
  <2>. HIDE DEF S, list, frame
  <2>5. \A i \in 1..Cardinality(S) : frame(list[i]) \in DescriptorFrames
    BY <2>2, <2>3
  <2>6. ResourceDescriptors(n) \in [1..Cardinality(S) -> DescriptorFrames]
    BY <2>4, <2>5
  <2>. QED BY <2>2, <2>6, SeqFunctions
<1> DEFINE parts == [i \in DOMAIN ids |-> NodeDescriptor(ids[i]) \o ResourceDescriptors(ids[i])]
<1>3. \A n : NodeDescriptor(n) \o ResourceDescriptors(n) \in Seq(DescriptorFrames)
  BY <1>1, <1>2
<1>4. DOMAIN ids = 1..Len(ids) /\ Len(ids) \in Nat
  OBVIOUS
<1>5. parts \in [1..Len(ids) -> Seq(DescriptorFrames)]
  BY <1>3, <1>4
<1>6. parts \in Seq(Seq(DescriptorFrames))
  BY <1>4, <1>5, SeqFunctions
<1>7. Descriptors(ids) = Concatenated(parts)
  BY DEF Descriptors
<1>. HIDE DEF parts
<1>. QED BY <1>6, <1>7, ConcatenatedType
-----------------------------------------------------------------------------
(* Frames.                                                                 *)

\* The frames a worker sends, by their type.
LEMMA WorkerFrame ==
  ASSUME NEW f \in WorkerFrames
  PROVE  /\ DOMAIN f = {"type", "body"}
         /\ f.type \in {"HELLO", "REGISTER", "PUBLISH_NODE", "PUBLISH_RESOURCE", "HEARTBEAT"}
         /\ f.type = "HELLO" => f.body \in WorkerBootId
         /\ f.type = "REGISTER" => \E w \in Workers : f.body = Serves[w]
         /\ f.type = "PUBLISH_NODE" =>
              \E n \in DOMAIN SynNodes, boot \in WorkerBootId :
                f.body = [id |-> n, record |-> OwnedNode(SynNodes[n], boot)]
         /\ f.type = "PUBLISH_RESOURCE" =>
              \E r \in DOMAIN SynResources, boot \in WorkerBootId :
                f.body = [id |-> r, record |-> OwnedResource(SynResources[r], boot)]
BY DEF WorkerFrames, Frame, Bare

\* The frames a client sends, by their type.
LEMMA ClientFrame ==
  ASSUME NEW f \in ClientFrames
  PROVE  /\ DOMAIN f = {"type", "body"}
         /\ f.type \in {"COMPOSE_REQ", "RESERVE_REQ", "COMMIT_REQ", "ACTIVATE_REQ",
                        "RELEASE_REQ", "QUERY_STATE", "SAVE_REQ", "HEARTBEAT", "BYE"}
         /\ f.type = "COMPOSE_REQ" => f.body \in ClientRequests
         /\ f.type = "RESERVE_REQ" => f.body \in CompositionId
         /\ f.type = "COMMIT_REQ" => f.body \in ReservationId
         /\ f.type \in {"ACTIVATE_REQ", "RELEASE_REQ"} => f.body \in CompositionId
BY DEF ClientFrames, Frame, Bare

\* The frames the coordinator sends, by their type. None is taken for a Save.
LEMMA OutgoingFrame ==
  ASSUME NEW f \in Outgoing
  PROVE  /\ DOMAIN f = {"type", "body"}
         /\ f.type \in SentTypes \ {"HELLO", "SAVE"}
         /\ f # SAVE
         /\ f.type = "PUBLISH_NODE" =>
              \E n \in DOMAIN SynNodes : f.body = [id |-> n, record |-> SynNodes[n]]
         /\ f.type = "PUBLISH_RESOURCE" =>
              \E r \in DOMAIN SynResources : f.body = [id |-> r, record |-> SynResources[r]]
<1>1. CASE f \in AnswerFrames
  BY <1>1 DEF AnswerFrames, Frame, Bare, SAVE, SentTypes
<1>2. CASE f \in DescriptorFrames
  BY <1>2 DEF DescriptorFrames, Frame, Bare, SAVE, SentTypes
<1>. QED BY <1>1, <1>2 DEF Outgoing

\* What a worker sends back is a frame of its own, and no HELLO.
LEMMA StampedFrame ==
  ASSUME NEW w \in Workers, NEW f \in Outgoing, Answers(f)
  PROVE  Stamped(w, f) \in WorkerFrames /\ Stamped(w, f).type # "HELLO"
<1>0. Boot[w] \in WorkerBootId
  BY DeploymentAssumption
<1>1. CASE f.type = "PUBLISH_NODE"
  <2>1. PICK n \in DOMAIN SynNodes : f.body = [id |-> n, record |-> SynNodes[n]]
    BY <1>1, OutgoingFrame
  <2>2. Stamped(w, f) = Frame("PUBLISH_NODE", [f.body EXCEPT !.record = OwnedNode(@, Boot[w])])
    BY <1>1 DEF Stamped
  <2>3. Stamped(w, f) =
          Frame("PUBLISH_NODE", [id |-> n, record |-> OwnedNode(SynNodes[n], Boot[w])])
    BY <2>1, <2>2
  <2>. QED BY <1>0, <2>3 DEF WorkerFrames, Frame
<1>2. CASE f.type = "PUBLISH_RESOURCE"
  <2>1. PICK r \in DOMAIN SynResources : f.body = [id |-> r, record |-> SynResources[r]]
    BY <1>2, OutgoingFrame
  <2>2. Stamped(w, f) =
          Frame("PUBLISH_RESOURCE", [f.body EXCEPT !.record = OwnedResource(@, Boot[w])])
    BY <1>2 DEF Stamped
  <2>3. Stamped(w, f) =
          Frame("PUBLISH_RESOURCE",
                [id |-> r, record |-> OwnedResource(SynResources[r], Boot[w])])
    BY <2>1, <2>2
  <2>. QED BY <1>0, <2>3 DEF WorkerFrames, Frame
<1>3. CASE f.type = "HEARTBEAT"
  <2>1. Stamped(w, f) = f
    BY <1>3 DEF Stamped
  <2>2. f = Bare("HEARTBEAT")
    <3>1. f \notin DescriptorFrames
      BY <1>3 DEF DescriptorFrames, Frame
    <3>2. f \in AnswerFrames
      BY <3>1 DEF Outgoing
    <3>. QED BY <1>3, <3>2 DEF AnswerFrames, Bare, Frame
  <2>. QED BY <1>3, <2>1, <2>2 DEF WorkerFrames
<1>. QED BY <1>1, <1>2, <1>3 DEF Answers

\* A worker's descriptor, registered in the name of the connection it came over.
LEMMA NodeOwnedAgain ==
  ASSUME NEW n \in DOMAIN SynNodes, NEW sent, NEW boot
  PROVE  OwnedNode(OwnedNode(SynNodes[n], sent), boot) = OwnedNode(SynNodes[n], boot)
<1>1. SynNodes[n] \in Node
  BY DeploymentAssumption DEF IsMap
<1>. QED BY <1>1, Zenon DEF OwnedNode, Node

FreshEvidence(boot) == [state |-> "FRESH", accepted |-> TRUE, owner |-> boot, durable |-> FALSE]

\* Only the owner of fresh evidence changes with the connection.
LEMMA EvidenceOwnedAgain ==
  ASSUME NEW sent, NEW boot
  PROVE  [FreshEvidence(sent) EXCEPT !.owner = boot, !.durable = FALSE] = FreshEvidence(boot)
<1> DEFINE x == [FreshEvidence(sent) EXCEPT !.owner = boot, !.durable = FALSE]
           y == FreshEvidence(boot)
           fields == {"state", "accepted", "owner", "durable"}
<1>1. DOMAIN x = fields /\ DOMAIN y = fields
  BY DEF FreshEvidence
<1>2. x.state = y.state /\ x.owner = y.owner
  BY DEF FreshEvidence
<1>3. x.accepted = y.accepted
  BY DEF FreshEvidence
<1>4. x.durable = y.durable
  BY DEF FreshEvidence
<1>5. x = [k \in DOMAIN x |-> x[k]] /\ y = [k \in DOMAIN y |-> y[k]]
  BY Zenon DEF FreshEvidence
<1>. HIDE DEF x, y
<1>6. \A k \in fields : x[k] = y[k]
  BY <1>2, <1>3, <1>4
<1>7. x = y
  BY <1>1, <1>5, <1>6, Zenon
<1>. QED BY <1>7 DEF x, y

\* A resource a worker published has that worker's fresh evidence, and the coordinator
\* may stamp it again without losing anything (PUBLISH_RESOURCE, coordinator.cpp).
LEMMA ResourceOwnedAgain ==
  ASSUME NEW r \in DOMAIN SynResources, NEW sent, NEW boot
  PROVE  /\ OwnedResource(SynResources[r], sent).evidence = FreshEvidence(sent)
         /\ InNameOf(boot, OwnedResource(SynResources[r], sent))
              = OwnedResource(SynResources[r], boot)
<1> DEFINE res == SynResources[r]
           x == OwnedResource(res, sent)
           y == OwnedResource(res, boot)
           z == [x EXCEPT !.evidence.owner = boot, !.evidence.durable = FALSE]
<1>1. res \in Resource
  BY DeploymentAssumption DEF IsMap
<1>2. "evidence" \in DOMAIN res
  BY <1>1 DEF Resource
<1>. HIDE DEF res
<1>3. /\ x.evidence = FreshEvidence(sent) /\ y.evidence = FreshEvidence(boot)
      /\ DOMAIN x = DOMAIN res /\ DOMAIN y = DOMAIN res
  BY <1>2 DEF OwnedResource, FreshEvidence
<1>4. \A k \in DOMAIN res : k # "evidence" => x[k] = y[k]
  BY Zenon DEF OwnedResource
<1>5. z = [x EXCEPT !.evidence = [FreshEvidence(sent) EXCEPT !.owner = boot, !.durable = FALSE]]
  BY <1>3, Zenon
<1>6. [FreshEvidence(sent) EXCEPT !.owner = boot, !.durable = FALSE] = FreshEvidence(boot)
  BY EvidenceOwnedAgain, Zenon
<1>7. z = [x EXCEPT !.evidence = FreshEvidence(boot)]
  BY <1>5, <1>6
<1>8. x = [k \in DOMAIN res |-> x[k]] /\ y = [k \in DOMAIN res |-> y[k]]
  BY Zenon DEF OwnedResource
<1>. HIDE DEF x, y, z
<1>9. z = y
  BY <1>2, <1>3, <1>4, <1>7, <1>8
<1>. QED BY <1>3, <1>9 DEF x, y, z, res, InNameOf

-----------------------------------------------------------------------------
(* The handling of a frame, by who sent it.                                *)

\* What a worker's thread asks of the engine: to register what the worker owns.
WorkerCall(boot) ==
  \/ \E n \in DOMAIN SynNodes : RegisterNode(n, OwnedNode(SynNodes[n], boot))
  \/ \E r \in DOMAIN SynResources : RegisterResource(r, OwnedResource(SynResources[r], boot))

\* What a client's thread asks of it.
ClientCall ==
  \/ \E req \in Requests : Compose(req, SeededPaths)
  \/ \E id \in CompositionId : Reserve(id)
  \/ \E v \in ReservationId : Commit(v)
  \/ \E c \in CompositionId : Activate(c) \/ Release(c)

\* The thread of p goes on with t.
Continues(p, t) ==
  /\ conn' = [conn EXCEPT ![p] = t]
  /\ DOMAIN t = {"open", "boot", "done", "todo"}
  /\ t.open /\ t.done \in BOOLEAN

\* Any number of frames may follow a worker's frame; its boot changes with HELLO.
LEMMA WorkerHandled ==
  ASSUME PeersInv, NEW w \in Workers, ThreadHandles(w)
  PROVE  \E t :
           /\ Continues(w, t)
           /\ t.todo \in Seq(Outgoing)
           /\ \/ /\ Head(toCoord[w]).type = "HELLO" /\ t.boot \in WorkerBootId
                 /\ UNCHANGED vars
              \/ /\ t.boot = conn[w].boot
                 /\ UNCHANGED vars \/ (IsWorker(w) /\ WorkerCall(conn[w].boot))
<1> DEFINE frame == Head(toCoord[w])
           Goal(t) == /\ Continues(w, t)
                      /\ t.todo \in Seq(Outgoing)
                      /\ \/ /\ frame.type = "HELLO" /\ t.boot \in WorkerBootId
                            /\ UNCHANGED vars
                         \/ /\ t.boot = conn[w].boot
                            /\ UNCHANGED vars \/ (IsWorker(w) /\ WorkerCall(conn[w].boot))
<1>. SUFFICES \E t : Goal(t)
  OBVIOUS
<1>1. /\ w \in Peers /\ conn[w].open /\ toCoord[w] \in Seq(WorkerFrames) /\ toCoord[w] # <<>>
      /\ DOMAIN conn[w] = {"open", "boot", "done", "todo"} /\ conn[w].done \in BOOLEAN
      /\ DOMAIN conn = Peers
      /\ conn[w].boot \in WorkerBootId \cup {NoBoot}
  BY Zenon DEF PeersInv, ConnectionInv, WorkerInv, ThreadHandles, Ready, Peers
<1>2. frame \in WorkerFrames
  BY <1>1
<1>3. ASSUME NEW todo \in Seq(Outgoing), Goes(w, Handled(w, todo)),
             UNCHANGED vars \/ (IsWorker(w) /\ WorkerCall(conn[w].boot))
      PROVE  \E t : Goal(t)
  <2> DEFINE t == Handled(w, todo)
  <2>1. Continues(w, t) /\ t.todo = todo /\ t.boot = conn[w].boot
    BY <1>1, <1>3 DEF Continues, Goes, Handled
  <2>. HIDE DEF t
  <2>. QED BY <1>3, <2>1
<1>4. Bare("ACK") \in Outgoing /\ Bare("HEARTBEAT") \in Outgoing
  BY DEF Outgoing, AnswerFrames
<1>5. /\ <<>> \in Seq(Outgoing)
      /\ <<Bare("ACK")>> \in Seq(Outgoing) /\ <<Bare("HEARTBEAT")>> \in Seq(Outgoing)
  BY <1>4
<1>6. CASE frame.type = "HELLO"
  <2>1. HandleHello(w, frame.body) /\ frame.body \in WorkerBootId
    BY <1>2, <1>6, WorkerFrame DEF ThreadHandles
  <2> DEFINE t == [Handled(w, <<Bare("ACK")>>) EXCEPT !.boot = frame.body]
  <2>2. Continues(w, t) /\ t.todo = <<Bare("ACK")>> /\ t.boot = frame.body
    BY <1>1, <2>1 DEF Continues, HandleHello, Goes, Handled
  <2>3. UNCHANGED vars
    BY <2>1 DEF HandleHello
  <2>. HIDE DEF t
  <2>. QED BY <1>5, <1>6, <2>1, <2>2, <2>3, Zenon
<1>7. CASE frame.type = "REGISTER"
  <2>1. HandleRegister(w, frame.body) /\ \E u \in Workers : frame.body = Serves[u]
    BY <1>2, <1>7, WorkerFrame DEF ThreadHandles
  <2>2. frame.body \in Seq(NodeId)
    BY <2>1, DeploymentAssumption
  <2>3. Descriptors(frame.body) \in Seq(DescriptorFrames)
    BY <2>2, DescriptorsType
  <2>4. Append(Descriptors(frame.body), Bare("ACK")) \in Seq(Outgoing)
    <3>1. Descriptors(frame.body) \in Seq(Outgoing)
      <4>1. DescriptorFrames \subseteq Outgoing
        BY DEF Outgoing
      <4>. QED BY <2>3, <4>1
    <3>. QED BY <1>4, <3>1
  <2>. QED BY <1>3, <2>1, <2>4, Zenon DEF HandleRegister
<1>8. CASE frame.type = "PUBLISH_NODE"
  <2>1. HandlePublishNode(w, frame.body.id, frame.body.record)
    BY <1>2, <1>8, WorkerFrame DEF ThreadHandles
  <2>2. PICK n \in DOMAIN SynNodes, boot \in WorkerBootId :
          frame.body = [id |-> n, record |-> OwnedNode(SynNodes[n], boot)]
    BY <1>2, <1>8, WorkerFrame
  <2>3. frame.body.id = n /\ frame.body.record = OwnedNode(SynNodes[n], boot)
    BY <2>2
  <2>4. OwnedNode(frame.body.record, conn[w].boot) = OwnedNode(SynNodes[n], conn[w].boot)
    BY <2>3, NodeOwnedAgain
  <2>5. UNCHANGED vars \/ (IsWorker(w) /\ WorkerCall(conn[w].boot))
    BY <2>1, <2>3, <2>4 DEF HandlePublishNode, WorkerCall
  <2>. QED BY <1>3, <1>5, <2>1, <2>5, Zenon DEF HandlePublishNode
<1>9. CASE frame.type = "PUBLISH_RESOURCE"
  <2>1. HandlePublishResource(w, frame.body.id, frame.body.record)
    BY <1>2, <1>9, WorkerFrame DEF ThreadHandles
  <2>2. PICK r \in DOMAIN SynResources, boot \in WorkerBootId :
          frame.body = [id |-> r, record |-> OwnedResource(SynResources[r], boot)]
    BY <1>2, <1>9, WorkerFrame
  <2>3. frame.body.id = r /\ frame.body.record = OwnedResource(SynResources[r], boot)
    BY <2>2
  <2>4. InNameOf(conn[w].boot, frame.body.record) =
          OwnedResource(SynResources[r], conn[w].boot)
    BY <2>3, ResourceOwnedAgain
  <2>5. UNCHANGED vars \/ (IsWorker(w) /\ WorkerCall(conn[w].boot))
    BY <2>1, <2>3, <2>4 DEF HandlePublishResource, WorkerCall
  <2>. QED BY <1>3, <1>5, <2>1, <2>5, Zenon DEF HandlePublishResource
<1>10. CASE frame.type = "HEARTBEAT"
  <2>1. HandleHeartbeat(w)
    BY <1>10 DEF ThreadHandles
  <2>. QED BY <1>3, <1>5, <2>1, Zenon DEF HandleHeartbeat
<1>. QED BY <1>2, <1>6, <1>7, <1>8, <1>9, <1>10, WorkerFrame

\* The calls that leave nothing to save.
QuietCall ==
  \/ \E req \in Requests : Compose(req, SeededPaths)
  \/ \E id \in CompositionId : Reserve(id) /\ ~ CanReserve(plans[id])
  \/ \E v \in ReservationId : Commit(v) /\ ~ CommitVerified(v)
  \/ \E c \in CompositionId : Activate(c) \/ Release(c)

\* A client's frame gets one answer at most. What the engine granted is saved.
LEMMA ClientHandled ==
  ASSUME PeersInv, NEW c \in Clients, ThreadHandles(c)
  PROVE  \E t :
           /\ Continues(c, t) /\ t.boot = conn[c].boot
           /\ t.todo \in {<<>>} \cup AnswerDue \cup SaveDue
           /\ UNCHANGED vars \/ ClientCall
           /\ t.todo \notin SaveDue => UNCHANGED vars \/ QuietCall
<1> DEFINE frame == Head(toCoord[c])
           body == frame.body
           Goal(t) == /\ Continues(c, t) /\ t.boot = conn[c].boot
                      /\ t.todo \in {<<>>} \cup AnswerDue \cup SaveDue
                      /\ UNCHANGED vars \/ ClientCall
                      /\ t.todo \notin SaveDue => UNCHANGED vars \/ QuietCall
<1>. SUFFICES \E t : Goal(t)
  OBVIOUS
<1>1. /\ c \in Peers /\ conn[c].open /\ toCoord[c] \in Seq(ClientFrames) /\ toCoord[c] # <<>>
      /\ DOMAIN conn[c] = {"open", "boot", "done", "todo"} /\ conn[c].done \in BOOLEAN
      /\ DOMAIN conn = Peers
  BY Zenon DEF PeersInv, ConnectionInv, ClientInv, ThreadHandles, Ready, Peers
<1>2. frame \in ClientFrames
  BY <1>1
<1>3. ASSUME NEW todo \in {<<>>} \cup AnswerDue \cup SaveDue, Goes(c, Handled(c, todo)),
             UNCHANGED vars \/ ClientCall,
             todo \notin SaveDue => UNCHANGED vars \/ QuietCall
      PROVE  \E t : Goal(t)
  <2> DEFINE t == Handled(c, todo)
  <2>1. Continues(c, t) /\ t.todo = todo /\ t.boot = conn[c].boot
    BY <1>1, <1>3 DEF Continues, Goes, Handled
  <2>. HIDE DEF t
  <2>. QED BY <1>3, <2>1
<1>4. \A type \in {"COMPOSE_RESP", "RESERVE_RESP", "COMMIT_RESP", "ACTIVATE_RESP",
                   "RELEASE_RESP", "STATE_RESP", "SAVE_RESP", "HEARTBEAT"} :
        /\ <<Bare(type)>> \in AnswerDue
        /\ <<Bare(type), SAVE>> \in SaveDue
        /\ <<SAVE, Bare(type)>> \in SaveDue
  BY DEF AnswerDue, SaveDue, AnswerFrames
<1>5. CASE frame.type = "COMPOSE_REQ"
  <2>1. HandleCompose(c, body) /\ body \in ClientRequests
    BY <1>2, <1>5, ClientFrame DEF ThreadHandles
  <2>2. WireRequest(body) \in Requests
    BY <2>1, InputsOfDeployment
  <2>3. /\ Compose(WireRequest(body), SeededPaths) \/ UNCHANGED vars
        /\ Goes(c, Handled(c, <<Bare("COMPOSE_RESP")>>))
    BY <2>1 DEF HandleCompose
  <2>. QED BY <1>3, <1>4, <2>2, <2>3 DEF ClientCall, QuietCall
<1>6. CASE frame.type = "RESERVE_REQ"
  <2>1. HandleReserve(c, body) /\ body \in CompositionId
    BY <1>2, <1>6, ClientFrame DEF ThreadHandles
  <2>2. CASE CanReserve(plans[body])
    <3>1. Reserve(body) /\ Goes(c, Handled(c, <<Bare("RESERVE_RESP"), SAVE>>))
      BY <2>1, <2>2 DEF HandleReserve
    <3>. QED BY <1>3, <1>4, <2>1, <3>1 DEF ClientCall
  <2>3. CASE ~ CanReserve(plans[body])
    <3>1. Reserve(body) /\ Goes(c, Handled(c, <<Bare("RESERVE_RESP")>>))
      BY <2>1, <2>3 DEF HandleReserve
    <3>. QED BY <1>3, <1>4, <2>1, <2>3, <3>1 DEF ClientCall, QuietCall
  <2>. QED BY <2>2, <2>3
<1>7. CASE frame.type = "COMMIT_REQ"
  <2>1. HandleCommit(c, body) /\ body \in ReservationId
    BY <1>2, <1>7, ClientFrame, Zenon DEF ThreadHandles
  <2>2. CASE CommitAllowed(body) /\ CommitVerified(body)
    <3>1. /\ Commit(body) \/ UNCHANGED vars
          /\ Goes(c, Handled(c, <<Bare("COMMIT_RESP"), SAVE>>))
      BY <2>1, <2>2 DEF HandleCommit
    <3>. QED BY <1>3, <1>4, <2>1, <3>1 DEF ClientCall
  <2>3. CASE ~ (CommitAllowed(body) /\ CommitVerified(body))
    <3>1. /\ Commit(body) \/ UNCHANGED vars
          /\ Goes(c, Handled(c, <<Bare("COMMIT_RESP")>>))
      BY <2>1, <2>3 DEF HandleCommit
    <3>2. Commit(body) => ~ CommitVerified(body)
      BY <2>3, Zenon DEF Commit, CommitGranted, CommitRolledBack
    <3>. QED BY <1>3, <1>4, <2>1, <3>1, <3>2 DEF ClientCall, QuietCall
  <2>. QED BY <2>2, <2>3
<1>8. CASE frame.type = "ACTIVATE_REQ"
  <2>1. HandleActivate(c, body) /\ body \in CompositionId
    BY <1>2, <1>8, ClientFrame DEF ThreadHandles
  <2>. QED BY <1>3, <1>4, <2>1, Zenon DEF HandleActivate, ClientCall, QuietCall
<1>9. CASE frame.type = "RELEASE_REQ"
  <2>1. HandleRelease(c, body) /\ body \in CompositionId
    BY <1>2, <1>9, ClientFrame DEF ThreadHandles
  <2>. QED BY <1>3, <1>4, <2>1, Zenon DEF HandleRelease, ClientCall, QuietCall
<1>10. CASE frame.type = "QUERY_STATE"
  <2>1. HandleQueryState(c)
    BY <1>10 DEF ThreadHandles
  <2>2. CASE StateFits
    BY <1>3, <1>4, <2>1, <2>2 DEF HandleQueryState
  <2>3. CASE ~ StateFits
    BY <1>3, <2>1, <2>3 DEF HandleQueryState
  <2>. QED BY <2>2, <2>3
<1>11. CASE frame.type = "SAVE_REQ"
  <2>1. HandleSave(c)
    BY <1>11 DEF ThreadHandles
  <2>. QED BY <1>3, <1>4, <2>1 DEF HandleSave
<1>12. CASE frame.type = "HEARTBEAT"
  <2>1. HandleHeartbeat(c)
    BY <1>12 DEF ThreadHandles
  <2>. QED BY <1>3, <1>4, <2>1 DEF HandleHeartbeat
<1>13. CASE frame.type = "BYE"
  <2>1. HandleBye(c)
    BY <1>13 DEF ThreadHandles
  <2> DEFINE t == [Handled(c, <<>>) EXCEPT !.done = TRUE]
  <2>2. Continues(c, t) /\ t.todo = <<>> /\ t.boot = conn[c].boot /\ UNCHANGED vars
    BY <1>1, <2>1 DEF HandleBye, Continues, Goes, Handled
  <2>. HIDE DEF t
  <2>. QED BY <2>2
<1>. QED BY <1>2, <1>5, <1>6, <1>7, <1>8, <1>9, <1>10, <1>11, <1>12, <1>13, ClientFrame

-----------------------------------------------------------------------------
(* Deployment implements Recovery.                                         *)

\* What a thread asks of the engine is a step of the engine.
LEMMA WorkerCallIsNext ==
  ASSUME NEW boot \in WorkerBootId, WorkerCall(boot)
  PROVE  Next
<1>1. CASE \E n \in DOMAIN SynNodes : RegisterNode(n, OwnedNode(SynNodes[n], boot))
  <2>1. PICK n \in DOMAIN SynNodes : RegisterNode(n, OwnedNode(SynNodes[n], boot))
    BY <1>1
  <2>2. n \in NodeId /\ OwnedNode(SynNodes[n], boot) \in PublishedNodes[n]
    BY DeploymentAssumption, InputsOfDeployment DEF IsMap
  <2>. QED BY <2>1, <2>2 DEF Next, RegistryNext
<1>2. CASE \E r \in DOMAIN SynResources :
             RegisterResource(r, OwnedResource(SynResources[r], boot))
  <2>1. PICK r \in DOMAIN SynResources :
          RegisterResource(r, OwnedResource(SynResources[r], boot))
    BY <1>2
  <2>2. r \in ResourceId /\ OwnedResource(SynResources[r], boot) \in PublishedResources[r]
    BY DeploymentAssumption, InputsOfDeployment DEF IsMap
  <2>. QED BY <2>1, <2>2 DEF Next, RegistryNext
<1>. QED BY <1>1, <1>2 DEF WorkerCall

\* What a client's frame makes the engine do is a step of the engine.
LEMMA ClientCallIsNext ==
  ASSUME ClientCall
  PROVE  Next
<1>1. SeededPaths \in PathAnswers
  BY InputsOfDeployment
<1>. QED BY <1>1 DEF ClientCall, Next

\* The steps of the processes, and the sends of the coordinator, leave the engine
\* and the files alone.
Elsewhere ==
  \/ \E p \in Peers : ThreadSends(p) \/ Dies(p)
  \/ \E w \in Workers : Worker(w) \/ WorkerConnects(w)
  \/ \E c \in Clients : Client(c) \/ ClientConnects(c) \/ ClientAsks(c)

\* Steps of the peers and answers to them touch neither the engine nor the files.
LEMMA ElsewhereStutters ==
  ASSUME Elsewhere PROVE UNCHANGED rvars
BY Zenon DEF Elsewhere, ThreadSends, Dies, Ends, Worker, WorkerRegisters, WorkerHandles,
       LosesCoordinator, WorkerConnects, Client, ClientGets, ClientConnects, ClientAsks

\* The disjuncts of DeploymentNext.
LEMMA DeploymentSplit ==
  ASSUME DeploymentNext
  PROVE  \/ CoordinatorStarts \/ CoordinatorDies \/ Elsewhere
         \/ \E p \in Peers : ThreadHandles(p) \/ ThreadSaves(p) \/ ThreadCloses(p)
BY DEF DeploymentNext, Thread, Elsewhere

\* Every step of the deployment is a step of Recovery or leaves its state alone.
LEMMA RecoverySteps ==
  ASSUME PeersInv, [DeploymentNext]_dvars
  PROVE  [RecoveryNext]_rvars
<1>1. ASSUME NEW p \in Peers, conn[p].open PROVE phase = "serving"
  BY <1>1 DEF PeersInv, ConnectionInv
<1>2. ASSUME NEW p \in Peers, IsWorker(p) PROVE conn[p].boot \in WorkerBootId
  BY <1>2 DEF PeersInv, ConnectionInv, IsWorker
<1>3. ASSUME NEW p \in Peers, conn[p].open, UNCHANGED vars \/ Next,
             UNCHANGED <<disk, saving, phase, restarts>>
      PROVE  [RecoveryNext]_rvars
  BY <1>1, <1>3 DEF RecoveryNext, Serve, rvars
<1>4. CASE CoordinatorStarts
  BY <1>4 DEF CoordinatorStarts, RecoveryNext
<1>5. CASE CoordinatorDies
  BY <1>5 DEF CoordinatorDies, RecoveryNext
<1>6. CASE Elsewhere
  BY <1>6, ElsewhereStutters
<1>7. ASSUME NEW p \in Peers, ThreadHandles(p) PROVE [RecoveryNext]_rvars
  <2>1. conn[p].open /\ UNCHANGED <<disk, saving, phase, restarts>>
    BY <1>7, Zenon DEF ThreadHandles, Ready
  <2>2. CASE p \in Workers
    BY <1>2, <1>3, <1>7, <2>1, <2>2, WorkerHandled, WorkerCallIsNext
  <2>3. CASE p \in Clients
    BY <1>3, <1>7, <2>1, <2>3, ClientHandled, ClientCallIsNext
  <2>. QED BY <2>2, <2>3 DEF Peers
<1>8. ASSUME NEW p \in Peers, ThreadSaves(p) PROVE [RecoveryNext]_rvars
  <2>1. p \in Savers /\ phase = "serving" /\ UNCHANGED <<vars, phase, restarts>>
    BY <1>1, <1>8 DEF ThreadSaves
  <2>2. Save(p)
    BY <1>8, <2>1 DEF ThreadSaves, Save
  <2>. QED BY <2>1, <2>2 DEF RecoveryNext
<1>9. ASSUME NEW p \in Peers, ThreadCloses(p) PROVE [RecoveryNext]_rvars
  <2>1. conn[p].open /\ UNCHANGED <<disk, saving, phase, restarts>>
    BY <1>9 DEF ThreadCloses, Ready
  <2>2. CASE IsWorker(p)
    <3>1. MarkEvidenceRevalidationRequired(conn[p].boot)
      BY <1>9, <2>2 DEF ThreadCloses
    <3>2. Next
      BY <1>2, <2>2, <3>1 DEF Next, RegistryNext
    <3>. QED BY <1>3, <2>1, <3>2
  <2>3. CASE ~ IsWorker(p)
    BY <1>3, <1>9, <2>1, <2>3 DEF ThreadCloses
  <2>. QED BY <2>2, <2>3
<1>10. CASE UNCHANGED dvars
  BY <1>10 DEF dvars
<1>. QED BY <1>4, <1>5, <1>6, <1>7, <1>8, <1>9, <1>10, DeploymentSplit

-----------------------------------------------------------------------------
(* Connections and threads.                                                *)

\* What a step does to one connection.
OthersSame(p) ==
  /\ phase' = phase
  /\ DOMAIN proc' = Peers /\ DOMAIN toCoord' = Peers /\ DOMAIN toPeer' = Peers
  /\ DOMAIN conn' = Peers
  /\ \A q \in Peers \ {p} :
       /\ proc'[q] = proc[q] /\ toCoord'[q] = toCoord[q] /\ toPeer'[q] = toPeer[q]
       /\ conn'[q] = conn[q]
       /\ q \in waiting' <=> q \in waiting
       /\ Saving(q)' = Saving(q)

\* Both buffers of a connection have room for a frame.
LEMMA BufferSizes == CoordinatorBuffer \in Nat \ {0} /\ PeerBuffer \in Nat \ {0}
BY DeploymentAssumption

\* A frame more where there was room, or a frame less, and a buffer is in its bounds.
LEMMA BufferRoom ==
  ASSUME NEW b \in {CoordinatorBuffer, PeerBuffer}
  PROVE  /\ 0 <= b /\ 1 <= b
         /\ \A m \in Nat : (m < b => m + 1 <= b) /\ (m <= b => m - 1 <= b)
BY BufferSizes

\* An accepted connection is that of a peer that has started, to a running coordinator.
LEMMA OpenConnection ==
  ASSUME NEW p, ConnectionInv(p), conn[p].open
  PROVE  proc[p] # "new" /\ phase = "serving"
BY DEF ConnectionInv, NoThread

\* A step that concerns one process need only be looked at there.
LEMMA OnePeer ==
  ASSUME PeersInv, NEW p \in Peers, OthersSame(p),
         proc' \in [Peers -> {"new", "greeting", "up", "gone"}],
         waiting' \subseteq Clients,
         ConnectionInv(p)',
         p \in Workers => WorkerInv(p)',
         p \in Clients => ClientInv(p)'
  PROVE  PeersInv'
<1>1. ASSUME NEW q \in Peers PROVE ConnectionInv(q)'
  <2>1. CASE q # p
    <3>1. ConnectionInv(q)
      BY Zenon DEF PeersInv
    <3>. QED BY <2>1, <3>1, Zenon DEF ConnectionInv, OthersSame
  <2>. QED BY <2>1
<1>2. ASSUME NEW w \in Workers PROVE WorkerInv(w)'
  <2>1. CASE w # p
    <3>1. WorkerInv(w) /\ w \in Peers
      BY DEF PeersInv, Peers
    <3>. QED BY <2>1, <3>1 DEF WorkerInv, OthersSame
  <2>. QED BY <2>1
<1>3. ASSUME NEW c \in Clients PROVE ClientInv(c)'
  <2>1. CASE c # p
    <3>1. ClientInv(c) /\ c \in Peers
      BY DEF PeersInv, Peers
    <3>2. /\ toCoord'[c] = toCoord[c] /\ toPeer'[c] = toPeer[c] /\ conn'[c] = conn[c]
          /\ c \in waiting' <=> c \in waiting
          /\ Saving(c)' = Saving(c)
          /\ Running(c)' = Running(c)
          /\ InFlight(c)' = InFlight(c) /\ Settled(c)' = Settled(c)
      BY <2>1, <3>1, Zenon DEF OthersSame, Running, InFlight, Settled
    <3>. QED BY <3>1, <3>2 DEF ClientInv
  <2>. QED BY <2>1
<1>. QED BY <1>1, <1>2, <1>3 DEF PeersInv, OthersSame

\* Sequences that lose their head, or gain a last element.
LEMMA TailFacts ==
  ASSUME NEW S, NEW s \in Seq(S), s # <<>>
  PROVE  /\ Head(s) \in S /\ Tail(s) \in Seq(S) /\ Len(Tail(s)) = Len(s) - 1
         /\ Len(s) \in Nat \ {0} /\ DOMAIN s = 1..Len(s)
         /\ DOMAIN Tail(s) = 1..(Len(s) - 1)
         /\ \A i \in 1..(Len(s) - 1) : Tail(s)[i] = s[i + 1]
  OBVIOUS

\* What Append does to a sequence over a set.
LEMMA AppendFacts ==
  ASSUME NEW S, NEW s \in Seq(S), NEW x \in S
  PROVE  /\ Append(s, x) \in Seq(S) /\ Len(Append(s, x)) = Len(s) + 1 /\ Len(s) \in Nat
         /\ DOMAIN Append(s, x) = 1..(Len(s) + 1) /\ DOMAIN s = 1..Len(s)
         /\ \A i \in 1..Len(s) : Append(s, x)[i] = s[i]
         /\ Append(s, x)[Len(s) + 1] = x
  OBVIOUS

\* A worker starts with HELLO.
LEMMA WorkerConnectsInv ==
  ASSUME PeersInv, NEW w \in Workers, WorkerConnects(w)
  PROVE  PeersInv'
<1> DEFINE hello == Frame("HELLO", Boot[w])
<1>1. /\ w \in Peers /\ w \notin Clients
      /\ ConnectionInv(w) /\ WorkerInv(w) /\ conn[w] = NoThread /\ phase = "serving"
      /\ toPeer[w] \in Seq(Outgoing) /\ Len(toPeer[w]) <= PeerBuffer
  BY DeploymentAssumption DEF PeersInv, Peers, WorkerConnects, ConnectionInv
<1>2. /\ proc' = [proc EXCEPT ![w] = "greeting"]
      /\ conn' = [conn EXCEPT ![w] = [NoThread EXCEPT !.open = TRUE]]
      /\ toCoord' = [toCoord EXCEPT ![w] = <<hello>>]
      /\ toPeer' = toPeer /\ waiting' = waiting /\ phase' = phase /\ saves' = saves
  BY <1>1 DEF WorkerConnects, rvars, saving
<1>3. hello \in WorkerFrames
  BY DeploymentAssumption DEF WorkerFrames
<1>4. OthersSame(w) /\ proc' \in [Peers -> {"new", "greeting", "up", "gone"}]
  BY <1>1, <1>2 DEF OthersSame, PeersInv, Saving
<1>5. /\ proc'[w] = "greeting" /\ conn'[w] = [NoThread EXCEPT !.open = TRUE]
      /\ toCoord'[w] = <<hello>> /\ toPeer'[w] = toPeer[w]
  BY <1>1, <1>2 DEF PeersInv
<1>6. /\ <<hello>> \in Seq(WorkerFrames) /\ Len(<<hello>>) = 1 /\ DOMAIN <<hello>> = {1}
      /\ 1 <= CoordinatorBuffer /\ <<>> \in Seq(Outgoing)
  <2>. HIDE DEF hello
  <2>. QED BY <1>3, BufferSizes
<1>7. ConnectionInv(w)'
  BY <1>1, <1>2, <1>5, <1>6, Zenon DEF ConnectionInv, NoThread
<1>8. WorkerInv(w)'
  BY <1>1, <1>2, <1>5, <1>6 DEF WorkerInv, NoThread
<1>. QED BY <1>1, <1>2, <1>4, <1>7, <1>8, OnePeer DEF PeersInv

\* Adding a frame that is no HELLO to what a worker has sent.
LEMMA WorkerSends ==
  ASSUME NEW w \in Workers, WorkerInv(w), NEW f \in WorkerFrames, f.type # "HELLO",
         toCoord'[w] = Append(toCoord[w], f), conn'[w] = conn[w]
  PROVE  WorkerInv(w)' /\ Len(toCoord'[w]) = Len(toCoord[w]) + 1 /\ Len(toCoord[w]) \in Nat
<1>1. toCoord[w] \in Seq(WorkerFrames)
  BY DEF WorkerInv
<1>2. /\ toCoord'[w] \in Seq(WorkerFrames) /\ Len(toCoord'[w]) = Len(toCoord[w]) + 1
      /\ Len(toCoord[w]) \in Nat
      /\ DOMAIN toCoord'[w] = 1..(Len(toCoord[w]) + 1) /\ DOMAIN toCoord[w] = 1..Len(toCoord[w])
      /\ \A i \in 1..Len(toCoord[w]) : toCoord'[w][i] = toCoord[w][i]
      /\ toCoord'[w][Len(toCoord[w]) + 1] = f
  BY <1>1, AppendFacts
<1>3. ASSUME NEW i \in DOMAIN toCoord'[w], toCoord'[w][i].type = "HELLO"
      PROVE  i = 1 /\ conn'[w].boot = NoBoot
  <2>1. i # Len(toCoord[w]) + 1
    BY <1>2, <1>3
  <2>2. i \in DOMAIN toCoord[w] /\ toCoord[w][i].type = "HELLO"
    BY <1>2, <1>3, <2>1
  <2>. QED BY <2>2 DEF WorkerInv
<1>. QED BY <1>2, <1>3 DEF WorkerInv

\* A worker registers what it serves after its HELLO, and has room to.
LEMMA WorkerRegistersInv ==
  ASSUME PeersInv, NEW w \in Workers, WorkerRegisters(w)
  PROVE  PeersInv'
<1> DEFINE f == Frame("REGISTER", Serves[w])
<1>1. w \in Peers /\ w \notin Clients /\ ConnectionInv(w) /\ WorkerInv(w)
  BY DeploymentAssumption, Zenon DEF PeersInv, Peers
<1>2. /\ proc' = [proc EXCEPT ![w] = "up"] /\ proc[w] = "greeting"
      /\ toCoord' = [toCoord EXCEPT ![w] = Append(toCoord[w], f)]
      /\ toPeer' = toPeer /\ waiting' = waiting /\ phase' = phase /\ saves' = saves /\ conn' = conn
      /\ Len(toCoord[w]) < CoordinatorBuffer
  BY DEF WorkerRegisters, rvars, saving, Room
<1>3. f \in WorkerFrames /\ f.type # "HELLO"
  BY DEF WorkerFrames, Frame
<1>4. OthersSame(w) /\ proc' \in [Peers -> {"new", "greeting", "up", "gone"}]
  BY <1>1, <1>2 DEF OthersSame, PeersInv, Saving
<1>5. proc'[w] = "up" /\ toCoord'[w] = Append(toCoord[w], f)
  BY <1>1, <1>2 DEF PeersInv
<1>. HIDE DEF f
<1>6. WorkerInv(w)' /\ Len(toCoord'[w]) = Len(toCoord[w]) + 1 /\ Len(toCoord[w]) \in Nat
  BY <1>1, <1>2, <1>3, <1>5, WorkerSends
<1>7. ConnectionInv(w)'
  BY <1>1, <1>2, <1>5, <1>6, BufferSizes DEF ConnectionInv
<1>. QED BY <1>1, <1>2, <1>4, <1>6, <1>7, OnePeer, Zenon DEF PeersInv

\* A worker takes a descriptor, and sends it back in its own name or drops it.
LEMMA WorkerHandlesInv ==
  ASSUME PeersInv, NEW w \in Workers, WorkerHandles(w)
  PROVE  PeersInv'
<1> DEFINE f == Head(toPeer[w])
<1>1. w \in Peers /\ w \notin Clients /\ ConnectionInv(w) /\ WorkerInv(w)
  BY DeploymentAssumption, Zenon DEF PeersInv, Peers
<1>2. /\ toPeer' = [toPeer EXCEPT ![w] = Tail(toPeer[w])] /\ toPeer[w] # <<>>
      /\ proc' = proc /\ waiting' = waiting /\ phase' = phase /\ saves' = saves /\ conn' = conn
      /\ proc[w] = "up"
  BY DEF WorkerHandles, rvars, saving
<1>3. toPeer[w] \in Seq(Outgoing) /\ Len(toPeer[w]) <= PeerBuffer
  BY <1>1 DEF ConnectionInv
<1>4. /\ f \in Outgoing /\ Tail(toPeer[w]) \in Seq(Outgoing) /\ Len(Tail(toPeer[w])) <= PeerBuffer
  BY <1>2, <1>3, TailFacts, BufferSizes
<1>5. toPeer'[w] = Tail(toPeer[w])
  BY <1>1, <1>2 DEF PeersInv
<1>6. CASE Answers(f)
  <2>1. /\ Len(toCoord[w]) < CoordinatorBuffer
        /\ toCoord' = [toCoord EXCEPT ![w] = Append(toCoord[w], Stamped(w, f))]
    BY <1>6 DEF WorkerHandles, Room
  <2>2. Stamped(w, f) \in WorkerFrames /\ Stamped(w, f).type # "HELLO"
    BY <1>4, <1>6, StampedFrame
  <2>3. toCoord'[w] = Append(toCoord[w], Stamped(w, f))
    BY <1>1, <2>1 DEF PeersInv
  <2>4. WorkerInv(w)' /\ Len(toCoord'[w]) = Len(toCoord[w]) + 1 /\ Len(toCoord[w]) \in Nat
    BY <1>1, <1>2, <2>2, <2>3, WorkerSends
  <2>5. OthersSame(w)
    BY <1>1, <1>2, <2>1 DEF OthersSame, PeersInv, Saving
  <2>6. ConnectionInv(w)'
    <3>1. Len(toCoord'[w]) <= CoordinatorBuffer
      BY <2>1, <2>4, BufferRoom, Zenon
    <3>. QED BY <1>1, <1>2, <1>4, <1>5, <3>1, Zenon DEF ConnectionInv
  <2>. QED BY <1>1, <1>2, <2>4, <2>5, <2>6, OnePeer DEF PeersInv
<1>7. CASE ~ Answers(f)
  <2>1. toCoord' = toCoord
    BY <1>7 DEF WorkerHandles
  <2>2. OthersSame(w)
    BY <1>1, <1>2, <2>1, Zenon DEF OthersSame, PeersInv, Saving
  <2>3. ConnectionInv(w)' /\ WorkerInv(w)'
    BY <1>1, <1>2, <1>4, <1>5, <2>1, Zenon DEF ConnectionInv, WorkerInv
  <2>. QED BY <1>1, <1>2, <2>2, <2>3, OnePeer DEF PeersInv
<1>. QED BY <1>6, <1>7

\* No answer is taken for a Save.
LEMMA AnswerIsNoSave ==
  ASSUME NEW a \in AnswerFrames
  PROVE  a # SAVE /\ a \in Outgoing
BY OutgoingFrame DEF Outgoing

\* The shapes of what is left to do for a client, taken apart.
LEMMA TodoShapes ==
  ASSUME NEW todo \in {<<>>} \cup AnswerDue \cup SaveDue
  PROVE  \/ todo = <<>> \/ todo = <<SAVE>>
         \/ \E a \in AnswerFrames : todo = <<a>> \/ todo = <<a, SAVE>> \/ todo = <<SAVE, a>>
BY DEF AnswerDue, SaveDue

\* Which of the shapes have a Save in them, and which an answer.
LEMMA ShapeFacts ==
  /\ <<>> \notin SaveDue /\ <<SAVE>> \in SaveDue
  /\ <<>> \in NoAnswerDue /\ <<SAVE>> \in NoAnswerDue
  /\ \A a \in AnswerFrames :
       /\ <<a>> \in AnswerDue /\ <<a>> \notin SaveDue /\ <<a>> \notin NoAnswerDue
       /\ <<a, SAVE>> \in SaveDue /\ <<a, SAVE>> \notin NoAnswerDue
       /\ <<SAVE, a>> \in SaveDue /\ <<SAVE, a>> \notin NoAnswerDue
<1>1. <<>> \notin SaveDue /\ <<SAVE>> \in SaveDue
  BY DEF SaveDue
<1>2. <<>> \in NoAnswerDue /\ <<SAVE>> \in NoAnswerDue
  BY DEF NoAnswerDue
<1>3. ASSUME NEW a \in AnswerFrames
      PROVE  /\ <<a>> \in AnswerDue /\ <<a>> \notin SaveDue /\ <<a>> \notin NoAnswerDue
             /\ <<a, SAVE>> \in SaveDue /\ <<a, SAVE>> \notin NoAnswerDue
             /\ <<SAVE, a>> \in SaveDue /\ <<SAVE, a>> \notin NoAnswerDue
  <2>1. a # SAVE
    BY AnswerIsNoSave
  <2>2. <<a>> \in AnswerDue /\ <<a, SAVE>> \in SaveDue /\ <<SAVE, a>> \in SaveDue
    BY DEF AnswerDue, SaveDue
  <2>3. <<a>> \notin NoAnswerDue /\ <<a, SAVE>> \notin NoAnswerDue /\ <<SAVE, a>> \notin NoAnswerDue
    BY <2>1 DEF NoAnswerDue
  <2>4. <<a>> \notin SaveDue
    BY <2>1 DEF SaveDue
  <2>. QED BY <2>2, <2>3, <2>4
<1>. QED BY <1>1, <1>2, <1>3

\* The next thing to do is an answer, or a Save.
LEMMA TodoFacts ==
  ASSUME NEW todo \in {<<>>} \cup AnswerDue \cup SaveDue, todo # <<>>
  PROVE  /\ Head(todo) # SAVE =>
              /\ Head(todo) \in Outgoing /\ todo \notin NoAnswerDue
              /\ Tail(todo) \in NoAnswerDue
              /\ Tail(todo) \in SaveDue <=> todo \in SaveDue
         /\ Head(todo) = SAVE =>
              /\ todo \in SaveDue
              /\ Tail(todo) \in {<<>>} \cup AnswerDue /\ Tail(todo) \notin SaveDue
              /\ Tail(todo) \in NoAnswerDue <=> todo \in NoAnswerDue
<1>1. CASE todo = <<SAVE>>
  <2>1. Head(todo) = SAVE /\ Tail(todo) = <<>>
    BY <1>1
  <2>. QED BY <1>1, <2>1, ShapeFacts
<1>2. ASSUME NEW a \in AnswerFrames, todo = <<a>>
      PROVE  Head(todo) = a /\ Tail(todo) = <<>>
  BY <1>2
<1>3. ASSUME NEW a \in AnswerFrames, todo = <<a, SAVE>>
      PROVE  Head(todo) = a /\ Tail(todo) = <<SAVE>>
  BY <1>3
<1>4. ASSUME NEW a \in AnswerFrames, todo = <<SAVE, a>>
      PROVE  Head(todo) = SAVE /\ Tail(todo) = <<a>>
  BY <1>4
<1>. QED BY <1>1, <1>2, <1>3, <1>4, TodoShapes, ShapeFacts, AnswerIsNoSave, Zenon

\* A Save is due exactly when there is one in the sequence.
LEMMA SaveDueFacts ==
  ASSUME NEW todo \in {<<>>} \cup AnswerDue \cup SaveDue,
         \A i \in DOMAIN todo : todo[i] # SAVE
  PROVE  todo \notin SaveDue
<1>1. ASSUME todo = <<SAVE>> PROVE FALSE
  <2>1. 1 \in DOMAIN todo /\ todo[1] = SAVE
    BY <1>1
  <2>. QED BY <2>1
<1>2. ASSUME NEW a \in AnswerFrames, todo = <<a, SAVE>> PROVE FALSE
  <2>1. 2 \in DOMAIN todo /\ todo[2] = SAVE
    BY <1>2
  <2>. QED BY <2>1
<1>3. ASSUME NEW a \in AnswerFrames, todo = <<SAVE, a>> PROVE FALSE
  <2>1. 1 \in DOMAIN todo /\ todo[1] = SAVE
    BY <1>3
  <2>. QED BY <2>1
<1>. QED BY <1>1, <1>2, <1>3 DEF SaveDue

\* What is left to do for a client is sent or saved.
LEMMA TodoType ==
  ASSUME NEW todo \in {<<>>} \cup AnswerDue \cup SaveDue
  PROVE  todo \in Seq(Outgoing \cup {SAVE})
<1> DEFINE T == Outgoing \cup {SAVE}
<1>1. SAVE \in T /\ \A a \in AnswerFrames : a \in T
  BY DEF Outgoing
<1>. HIDE DEF T
<1>2. <<>> \in Seq(T) /\ \A x \in T : <<x>> \in Seq(T)
  OBVIOUS
<1>3. \A x, y \in T : <<x, y>> \in Seq(T)
  OBVIOUS
<1>4. todo \in Seq(T)
  BY <1>1, <1>2, <1>3, TodoShapes, Zenon
<1>. QED BY <1>4 DEF T

\* A process that ends, for whatever reason, leaves what it has sent.
LEMMA EndsInv ==
  ASSUME PeersInv, NEW p \in Peers, Ends(p)
  PROVE  PeersInv'
<1>1. /\ proc' = [proc EXCEPT ![p] = "gone"] /\ toPeer' = [toPeer EXCEPT ![p] = <<>>]
      /\ waiting' = waiting \ {p} /\ toCoord' = toCoord /\ conn' = conn
      /\ phase' = phase /\ saves' = saves
  BY DEF Ends, rvars, saving
<1>2. proc'[p] = "gone" /\ toPeer'[p] = <<>>
  BY <1>1 DEF PeersInv
<1>3. OthersSame(p) /\ proc' \in [Peers -> {"new", "greeting", "up", "gone"}]
  BY <1>1 DEF OthersSame, PeersInv, Saving
<1>4. <<>> \in Seq(Outgoing) /\ Len(<<>>) <= PeerBuffer
  BY BufferSizes
<1>5. ConnectionInv(p)'
  BY <1>1, <1>2, <1>4, Zenon DEF PeersInv, ConnectionInv
<1>6. p \in Workers => WorkerInv(p)'
  BY <1>1, Zenon DEF PeersInv, WorkerInv
<1>7. p \in Clients => ClientInv(p)'
  BY <1>1, <1>2 DEF PeersInv, ClientInv, Saving, Running
<1>8. waiting' \subseteq Clients
  BY <1>1 DEF PeersInv
<1>. QED BY <1>3, <1>5, <1>6, <1>7, <1>8, OnePeer

\* A client connects: nothing is on its way, and its thread has nothing to do.
LEMMA ClientConnectsInv ==
  ASSUME PeersInv, NEW c \in Clients, ClientConnects(c)
  PROVE  PeersInv'
<1>1. /\ c \in Peers /\ c \notin Workers
      /\ ConnectionInv(c) /\ ClientInv(c) /\ conn[c] = NoThread /\ phase = "serving"
      /\ toCoord[c] = <<>> /\ toPeer[c] = <<>>
  BY DeploymentAssumption DEF PeersInv, Peers, ClientConnects, ConnectionInv
<1>2. /\ proc' = [proc EXCEPT ![c] = "up"]
      /\ conn' = [conn EXCEPT ![c] = [NoThread EXCEPT !.open = TRUE]]
      /\ toCoord' = toCoord /\ toPeer' = toPeer
      /\ waiting' = waiting /\ phase' = phase /\ saves' = saves
  BY <1>1 DEF ClientConnects, rvars, saving, network
<1>3. OthersSame(c) /\ proc' \in [Peers -> {"new", "greeting", "up", "gone"}]
  BY <1>1, <1>2 DEF OthersSame, PeersInv, Saving
<1>4. proc'[c] = "up" /\ conn'[c] = [NoThread EXCEPT !.open = TRUE]
  BY <1>1, <1>2 DEF PeersInv
<1>5. ConnectionInv(c)'
  BY <1>1, <1>2, <1>4, Zenon DEF ConnectionInv, NoThread
<1>6. conn'[c].todo = <<>> /\ conn'[c].open /\ conn'[c].boot = NoBoot
  BY <1>4 DEF NoThread
<1>7. InFlight(c)' /\ Settled(c)'
  BY <1>1, <1>2, <1>6, ShapeFacts DEF InFlight, Settled
<1>8. Saving(c)' = Saving(c) /\ toCoord'[c] \in Seq(ClientFrames) /\ Len(toCoord'[c]) <= 1
  BY <1>1, <1>2, Zenon DEF Saving, ClientInv
<1>9. ClientInv(c)'
  BY <1>6, <1>7, <1>8, ShapeFacts DEF ClientInv
<1>. QED BY <1>1, <1>2, <1>3, <1>5, <1>9, OnePeer DEF PeersInv

\* What a client may ask is a frame of a client.
LEMMA AsksType ==
  ASSUME TypeOK PROVE Asks \subseteq ClientFrames
<1>1. /\ DOMAIN plans \subseteq CompositionId /\ DOMAIN reservations \subseteq ReservationId
      /\ DOMAIN compositions \subseteq CompositionId
  BY DEF TypeOK
<1>. QED BY <1>1 DEF Asks, ClientFrames

\* A client asks only when nothing is on its way, so its frame finds room.
LEMMA ClientAsksInv ==
  ASSUME TypeOK, PeersInv, NEW c \in Clients, ClientAsks(c)
  PROVE  PeersInv'
<1>1. /\ c \in Peers /\ c \notin Workers /\ ConnectionInv(c) /\ ClientInv(c)
      /\ proc[c] = "up" /\ c \notin waiting /\ Running(c)
  BY DeploymentAssumption DEF PeersInv, Peers, ClientAsks, Running
<1>2. PICK f \in Asks : toCoord' = [toCoord EXCEPT ![c] = Append(toCoord[c], f)]
  BY Zenon DEF ClientAsks
<1>3. f \in ClientFrames
  BY AsksType
<1>4. /\ waiting' = waiting \cup {c} /\ proc' = proc /\ toPeer' = toPeer /\ conn' = conn
      /\ phase' = phase /\ saves' = saves
  BY Zenon DEF ClientAsks, rvars, saving
<1>5. toCoord[c] \in Seq(ClientFrames)
  BY <1>1 DEF ClientInv
<1>6. toCoord[c] = <<>> /\ toPeer[c] = <<>> /\ conn[c].todo \in NoAnswerDue
  BY <1>1 DEF ClientInv, Settled
<1>7. toCoord'[c] = Append(toCoord[c], f)
  BY <1>1, <1>2 DEF PeersInv
<1>8. toCoord'[c] \in Seq(ClientFrames) /\ Len(toCoord'[c]) = 1
  BY <1>3, <1>5, <1>6, <1>7, AppendFacts
<1>9. OthersSame(c)
  BY <1>1, <1>2, <1>4 DEF OthersSame, PeersInv, Saving
<1>10. ConnectionInv(c)'
  <2>1. Len(toCoord'[c]) <= CoordinatorBuffer
    BY <1>8, BufferRoom, Zenon
  <2>. QED BY <1>1, <1>4, <2>1, Zenon DEF ConnectionInv
<1>11. InFlight(c)' /\ c \in waiting'
  BY <1>4, <1>6, <1>8, Zenon DEF InFlight
<1>12. ClientInv(c)'
  <2>1. Len(toCoord'[c]) <= 1
    BY <1>8
  <2>. QED BY <1>1, <1>4, <1>8, <1>11, <2>1, Zenon DEF ClientInv, Saving
<1>13. waiting' \subseteq Clients
  BY <1>4 DEF PeersInv
<1>. QED BY <1>1, <1>4, <1>9, <1>10, <1>12, <1>13, OnePeer, Zenon DEF PeersInv

\* A client takes its answer: nothing is on its way any more.
LEMMA ClientGetsInv ==
  ASSUME PeersInv, NEW c \in Clients, ClientGets(c)
  PROVE  PeersInv'
<1>1. /\ c \in Peers /\ c \notin Workers /\ ConnectionInv(c) /\ ClientInv(c)
      /\ proc[c] = "up" /\ Running(c) /\ toPeer[c] # <<>>
  BY DeploymentAssumption, Zenon DEF PeersInv, Peers, ClientGets, Running
<1>2. /\ toPeer' = [toPeer EXCEPT ![c] = Tail(toPeer[c])]
      /\ waiting' = waiting \ {c} /\ proc' = proc /\ toCoord' = toCoord /\ conn' = conn
      /\ phase' = phase /\ saves' = saves
  BY DEF ClientGets, rvars, saving
<1>3. toPeer[c] \in Seq(Outgoing) /\ InFlight(c)
  BY <1>1 DEF ClientInv, ConnectionInv
<1>4. /\ Tail(toPeer[c]) \in Seq(Outgoing) /\ Len(Tail(toPeer[c])) = Len(toPeer[c]) - 1
      /\ Len(toPeer[c]) \in Nat \ {0}
  BY <1>1, <1>3, TailFacts, Zenon
<1>5. toPeer'[c] = Tail(toPeer[c])
  BY <1>1, <1>2 DEF PeersInv
<1>6. OthersSame(c)
  BY <1>1, <1>2 DEF OthersSame, PeersInv, Saving
<1>7. ConnectionInv(c)'
  <2>1. Len(toPeer'[c]) <= PeerBuffer
    BY <1>1, <1>4, <1>5, BufferRoom, Zenon DEF ConnectionInv
  <2>. QED BY <1>1, <1>2, <1>4, <1>5, <2>1, Zenon DEF ConnectionInv
<1>8. Settled(c)' /\ InFlight(c)'
  <2>1. Len(toPeer[c]) = 1 /\ toCoord[c] = <<>> /\ conn[c].todo \in NoAnswerDue
    BY <1>1, <1>3, <1>4 DEF InFlight
  <2>2. Tail(toPeer[c]) = <<>>
    <3>1. ASSUME NEW s \in Seq(Outgoing), Len(s) = 0 PROVE s = <<>>
      BY <3>1, EmptySequence
    <3>2. Len(Tail(toPeer[c])) = 0
      BY <1>4, <2>1
    <3>. QED BY <1>4, <3>1, <3>2, Zenon
  <2>. QED BY <1>2, <1>5, <2>1, <2>2, Zenon DEF Settled, InFlight
<1>9. ClientInv(c)'
  BY <1>1, <1>2, <1>8 DEF ClientInv, Saving
<1>10. waiting' \subseteq Clients
  BY <1>2 DEF PeersInv
<1>. QED BY <1>1, <1>2, <1>6, <1>7, <1>9, <1>10, OnePeer, Zenon DEF PeersInv

\* Nothing follows the only frame of a channel.
LEMMA OnlyFrame ==
  ASSUME NEW S, NEW s \in Seq(S), s # <<>>, Len(s) <= 1
  PROVE  Tail(s) = <<>> /\ Len(s) = 1
<1>1. Len(s) \in Nat \ {0}
  BY EmptySequence
<1>2. Len(s) = 1
  BY <1>1
<1>3. Tail(s) \in Seq(S) /\ Len(Tail(s)) = Len(s) - 1
  OBVIOUS
<1>4. \A m, n : n = 1 /\ m = n - 1 => m = 0
  OBVIOUS
<1>5. Len(Tail(s)) = 0
  BY <1>2, <1>3, <1>4
<1>6. ASSUME NEW u \in Seq(S), Len(u) = 0 PROVE u = <<>>
  BY <1>6, EmptySequence
<1>. QED BY <1>2, <1>3, <1>5, <1>6, Zenon

\* A worker's thread is through with a frame, and has answers to send.
LEMMA WorkerThreadInv ==
  ASSUME PeersInv, NEW w \in Workers, ThreadHandles(w)
  PROVE  PeersInv'
<1>1. /\ w \in Peers /\ w \notin Clients /\ ConnectionInv(w) /\ WorkerInv(w)
      /\ conn[w].open /\ toCoord[w] # <<>>
  BY DeploymentAssumption, Zenon DEF PeersInv, Peers, ThreadHandles, Ready
<1>2. PICK t : /\ Continues(w, t) /\ t.todo \in Seq(Outgoing)
               /\ \/ Head(toCoord[w]).type = "HELLO" /\ t.boot \in WorkerBootId
                  \/ t.boot = conn[w].boot
  BY WorkerHandled, Zenon
<1>3. /\ toCoord' = [toCoord EXCEPT ![w] = Tail(toCoord[w])]
      /\ proc' = proc /\ toPeer' = toPeer /\ waiting' = waiting
      /\ phase' = phase /\ saves' = saves
  BY DEF ThreadHandles, saving
<1>4. conn'[w] = t /\ toCoord'[w] = Tail(toCoord[w])
  BY <1>1, <1>2, <1>3 DEF PeersInv, Continues
<1>5. OthersSame(w)
  BY <1>1, <1>2, <1>3, Zenon DEF OthersSame, PeersInv, Saving, Continues
<1>6. toCoord[w] \in Seq(WorkerFrames)
  BY <1>1 DEF WorkerInv
<1>7. /\ Head(toCoord[w]) \in WorkerFrames /\ Tail(toCoord[w]) \in Seq(WorkerFrames)
      /\ Len(Tail(toCoord[w])) = Len(toCoord[w]) - 1
      /\ Len(toCoord[w]) \in Nat \ {0} /\ DOMAIN toCoord[w] = 1..Len(toCoord[w])
      /\ DOMAIN Tail(toCoord[w]) = 1..(Len(toCoord[w]) - 1)
      /\ \A i \in 1..(Len(toCoord[w]) - 1) : Tail(toCoord[w])[i] = toCoord[w][i + 1]
  BY <1>1, <1>6, TailFacts
<1>8. ConnectionInv(w)'
  <2>1. Len(toCoord'[w]) <= CoordinatorBuffer
    BY <1>1, <1>4, <1>7, BufferRoom, Zenon DEF ConnectionInv
  <2>2. proc[w] # "new" /\ phase = "serving"
    BY <1>1, OpenConnection
  <2>3. t.boot \in WorkerBootId \cup {NoBoot}
    BY <1>1, <1>2 DEF ConnectionInv
  <2>. QED BY <1>1, <1>2, <1>3, <1>4, <2>1, <2>2, <2>3, Zenon DEF ConnectionInv, Continues
<1>9. WorkerInv(w)'
  <2>1. ASSUME NEW i \in DOMAIN Tail(toCoord[w]), Tail(toCoord[w])[i].type = "HELLO"
        PROVE  FALSE
    <3>1. i + 1 \in DOMAIN toCoord[w] /\ toCoord[w][i + 1].type = "HELLO" /\ i + 1 # 1
      BY <1>7, <2>1
    <3>. QED BY <1>1, <3>1 DEF WorkerInv
  <2>. QED BY <1>2, <1>4, <1>7, <2>1, Zenon DEF WorkerInv
<1>. QED BY <1>1, <1>3, <1>5, <1>8, <1>9, OnePeer, Zenon DEF PeersInv

\* A client's thread takes the only frame, and has at most one answer to send.
LEMMA ClientThreadInv ==
  ASSUME PeersInv, NEW c \in Clients, ThreadHandles(c)
  PROVE  PeersInv'
<1>1. /\ c \in Peers /\ c \notin Workers /\ ConnectionInv(c) /\ ClientInv(c)
      /\ conn[c].open /\ toCoord[c] # <<>> /\ ~ Saving(c)
  BY DeploymentAssumption, Zenon DEF PeersInv, Peers, ThreadHandles, Ready
<1>2. PICK t : /\ Continues(c, t) /\ t.todo \in {<<>>} \cup AnswerDue \cup SaveDue
               /\ t.boot = conn[c].boot
  BY ClientHandled, Zenon
<1>3. /\ toCoord' = [toCoord EXCEPT ![c] = Tail(toCoord[c])]
      /\ proc' = proc /\ toPeer' = toPeer /\ waiting' = waiting
      /\ phase' = phase /\ saves' = saves
  BY DEF ThreadHandles, saving
<1>4. conn'[c] = t /\ toCoord'[c] = Tail(toCoord[c])
  BY <1>1, <1>2, <1>3 DEF PeersInv, Continues
<1>5. OthersSame(c)
  BY <1>1, <1>2, <1>3, Zenon DEF OthersSame, PeersInv, Saving, Continues
<1>6. toCoord[c] \in Seq(ClientFrames) /\ Len(toCoord[c]) <= 1
  BY <1>1 DEF ClientInv
<1>7. Tail(toCoord[c]) = <<>>
  BY <1>1, <1>6, OnlyFrame
<1>8. toCoord'[c] = <<>> /\ <<>> \in Seq(ClientFrames) /\ Len(<<>>) = 0
  BY <1>4, <1>7
<1>9. ConnectionInv(c)'
  <2>1. Len(toCoord'[c]) <= CoordinatorBuffer
    BY <1>8, BufferSizes
  <2>2. proc[c] # "new" /\ phase = "serving"
    BY <1>1, OpenConnection
  <2>. QED BY <1>1, <1>2, <1>3, <1>4, <2>1, <2>2, Zenon DEF ConnectionInv, Continues
<1>10. ClientInv(c)'
  <2>1. Running(c) => toPeer[c] = <<>> /\ c \in waiting
    BY <1>1, Zenon DEF ClientInv, InFlight, Settled
  <2>2. Running(c)' = Running(c) /\ Saving(c)' = Saving(c)
    BY <1>3 DEF Running, Saving
  <2>3. Running(c) => InFlight(c)' /\ c \in waiting'
    BY <1>3, <1>8, <2>1 DEF InFlight
  <2>4. toCoord'[c] \in Seq(ClientFrames) /\ Len(toCoord'[c]) <= 1
    BY <1>8
  <2>. QED BY <1>1, <1>2, <1>4, <2>2, <2>3, <2>4, Zenon DEF ClientInv
<1>. QED BY <1>1, <1>3, <1>5, <1>9, <1>10, OnePeer, Zenon DEF PeersInv

\* A thread that sends goes on with the rest.
LEMMA ThreadContinues ==
  ASSUME PeersInv, NEW p \in Peers, ThreadSends(p)
  PROVE  \E t : Continues(p, t) /\ t.boot = conn[p].boot /\ t.todo = Tail(conn[p].todo)
<1> DEFINE todo == conn[p].todo
<1>1. ConnectionInv(p) /\ conn[p].open
  BY Zenon DEF PeersInv, ThreadSends
<1>2. CASE Goes(p, [conn[p] EXCEPT !.todo = Tail(todo)])
  <2> DEFINE t == [conn[p] EXCEPT !.todo = Tail(todo)]
  <2>1. Continues(p, t) /\ t.boot = conn[p].boot /\ t.todo = Tail(todo)
    BY <1>1, <1>2 DEF ConnectionInv, Continues, Goes
  <2>. HIDE DEF t
  <2>. QED BY <2>1
<1>3. ASSUME NEW failed \in BOOLEAN,
             Goes(p, [conn[p] EXCEPT !.todo = Tail(todo), !.done = conn[p].done \/ failed])
      PROVE  \E t : Continues(p, t) /\ t.boot = conn[p].boot /\ t.todo = Tail(todo)
  <2> DEFINE t == [conn[p] EXCEPT !.todo = Tail(todo), !.done = conn[p].done \/ failed]
  <2>1. Continues(p, t) /\ t.boot = conn[p].boot /\ t.todo = Tail(todo)
    BY <1>1, <1>3 DEF ConnectionInv, Continues, Goes
  <2>. HIDE DEF t
  <2>. QED BY <2>1
<1>. QED BY <1>2, <1>3, Zenon DEF ThreadSends

\* A thread sends what it has for a worker, or for a client its only answer.
LEMMA ThreadSendsInv ==
  ASSUME PeersInv, NEW p \in Peers, ThreadSends(p)
  PROVE  PeersInv'
<1> DEFINE todo == conn[p].todo
<1>1. /\ ConnectionInv(p) /\ conn[p].open /\ ~ Saving(p) /\ todo # <<>> /\ Head(todo) # SAVE
      /\ p \in Workers => WorkerInv(p)
      /\ p \in Clients => ClientInv(p)
  BY Zenon DEF PeersInv, ThreadSends
<1>2. /\ proc' = proc /\ toCoord' = toCoord /\ waiting' = waiting
      /\ phase' = phase /\ saves' = saves
  BY Zenon DEF ThreadSends, rvars, saving
<1>3. PICK t : Continues(p, t) /\ t.boot = conn[p].boot /\ t.todo = Tail(todo)
  BY ThreadContinues
<1>4. conn'[p] = t
  BY <1>3 DEF PeersInv, Continues
<1>5. /\ p \in Workers => Head(todo) \in Outgoing /\ Tail(todo) \in Seq(Outgoing)
      /\ p \in Clients => /\ Head(todo) \in Outgoing /\ todo \notin NoAnswerDue
                          /\ Tail(todo) \in NoAnswerDue
  BY <1>1, TailFacts, TodoFacts, Zenon DEF WorkerInv, ClientInv
<1>6. \/ /\ Running(p) /\ toPeer' = [toPeer EXCEPT ![p] = Append(toPeer[p], Head(todo))]
         /\ Len(toPeer[p]) < PeerBuffer
      \/ proc[p] = "gone" /\ toPeer' = toPeer
  BY Zenon DEF ThreadSends, Room
<1>7. OthersSame(p)
  BY <1>2, <1>3, <1>6, Zenon DEF OthersSame, PeersInv, Saving, Continues
<1>8. p \in Workers \/ p \in Clients
  BY DEF Peers
<1>9. toPeer'[p] \in Seq(Outgoing) /\ Len(toPeer'[p]) <= PeerBuffer
  <2>1. toPeer[p] \in Seq(Outgoing) /\ Len(toPeer[p]) <= PeerBuffer /\ Head(todo) \in Outgoing
    BY <1>1, <1>5, <1>8 DEF ConnectionInv
  <2>2. CASE Running(p) /\ Len(toPeer[p]) < PeerBuffer
             /\ toPeer' = [toPeer EXCEPT ![p] = Append(toPeer[p], Head(todo))]
    <3>1. toPeer'[p] = Append(toPeer[p], Head(todo))
      BY <2>2, Zenon DEF PeersInv
    <3>2. /\ Append(toPeer[p], Head(todo)) \in Seq(Outgoing)
          /\ Len(Append(toPeer[p], Head(todo))) = Len(toPeer[p]) + 1
          /\ Len(toPeer[p]) \in Nat
      BY <2>1, AppendFacts
    <3>3. \A m, n \in Int : m < n => m + 1 <= n
      OBVIOUS
    <3>4. Len(toPeer[p]) + 1 <= PeerBuffer
      BY <2>2, <3>2, <3>3, BufferSizes
    <3>. QED BY <3>1, <3>2, <3>4
  <2>3. CASE toPeer' = toPeer
    BY <2>1, <2>3
  <2>. QED BY <1>6, <2>2, <2>3
<1>10. ConnectionInv(p)'
  <2>1. proc[p] # "new" /\ phase = "serving"
    BY <1>1, OpenConnection
  <2>. QED BY <1>1, <1>2, <1>3, <1>4, <1>9, <2>1, Zenon DEF ConnectionInv, Continues
<1>11. p \in Workers => WorkerInv(p)'
  BY <1>1, <1>2, <1>3, <1>4, <1>5, Zenon DEF WorkerInv
<1>12. p \in Clients => ClientInv(p)'
  <2>. SUFFICES ASSUME p \in Clients PROVE ClientInv(p)'
    OBVIOUS
  <2>1. Running(p)' = Running(p) /\ Saving(p)' = Saving(p)
    BY <1>2 DEF Running, Saving
  <2>2. Running(p) => toCoord[p] = <<>> /\ toPeer[p] = <<>> /\ p \in waiting
    BY <1>1, <1>5 DEF ClientInv, InFlight, Settled
  <2>3. Running(p) => InFlight(p)'
    <3>. SUFFICES ASSUME Running(p) PROVE InFlight(p)'
      OBVIOUS
    <3>1. toPeer'[p] = Append(<<>>, Head(todo))
      BY <1>6, <2>2 DEF Running, PeersInv
    <3>2. Len(toPeer'[p]) = 1
      BY <3>1
    <3>. QED BY <1>2, <1>3, <1>4, <1>5, <2>2, <3>2, Zenon DEF InFlight
  <2>4. t.todo \in {<<>>} \cup AnswerDue \cup SaveDue
    BY <1>3, <1>5, ShapeFacts, Zenon DEF NoAnswerDue
  <2>. QED BY <1>1, <1>2, <1>3, <1>4, <2>1, <2>2, <2>3, <2>4, Zenon DEF ClientInv
<1>. QED BY <1>2, <1>7, <1>10, <1>11, <1>12, OnePeer, Zenon DEF PeersInv

\* A Save is made by the thread of a client, which does nothing else meanwhile.
LEMMA ThreadSavesInv ==
  ASSUME RecoveryTypeOK, PeersInv, NEW p \in Peers, ThreadSaves(p)
  PROVE  PeersInv'
<1> DEFINE todo == conn[p].todo
<1>1. /\ p \in Clients /\ p \notin Workers /\ p \in Savers /\ conn[p].open
      /\ ConnectionInv(p) /\ ClientInv(p) /\ DOMAIN saves = Savers
  BY DeploymentAssumption DEF PeersInv, ThreadSaves, RecoveryTypeOK
<1>2. /\ proc' = proc /\ toCoord' = toCoord /\ toPeer' = toPeer /\ waiting' = waiting
      /\ phase' = phase
  BY DEF ThreadSaves, network
<1>3. PICK new : saves' = [saves EXCEPT ![p] = new]
  <2>1. ASSUME NEW step, SaveGoes(p, step) PROVE \E new : saves' = [saves EXCEPT ![p] = new]
    <3>1. saves' = [saves EXCEPT ![p] = [saves[p] EXCEPT !.step = step]]
      BY <2>1 DEF SaveGoes
    <3>. QED BY <3>1, Zenon
  <2>. QED BY <2>1 DEF ThreadSaves, SaveSnapshot, SaveCreate, SaveWrite, SaveRemove, SaveReopen,
                       SaveCopy, SaveCannotOpen, SaveReturns
<1>4. \A q \in Peers \ {p} : Saving(q)' = Saving(q)
  BY <1>1, <1>3 DEF Saving
<1>5. proc[p] # "new" /\ phase = "serving"
  BY <1>1, OpenConnection
<1>6. CASE /\ ~ Saving(p) /\ todo # <<>> /\ Head(todo) = SAVE
           /\ Goes(p, [conn[p] EXCEPT !.todo = Tail(todo)])
  <2> DEFINE t == [conn[p] EXCEPT !.todo = Tail(todo)]
  <2>1. Continues(p, t) /\ t.boot = conn[p].boot /\ t.todo = Tail(todo)
    BY <1>1, <1>6 DEF ConnectionInv, Continues, Goes
  <2>. HIDE DEF t
  <2>2. conn'[p] = t
    BY <2>1 DEF PeersInv, Continues
  <2>3. /\ Tail(todo) \in {<<>>} \cup AnswerDue /\ Tail(todo) \notin SaveDue
        /\ Tail(todo) \in NoAnswerDue <=> todo \in NoAnswerDue
    BY <1>1, <1>6, TodoFacts DEF ClientInv
  <2>4. OthersSame(p)
    BY <1>2, <1>4, <2>1, Zenon DEF OthersSame, PeersInv, Continues
  <2>5. ConnectionInv(p)'
    BY <1>1, <1>2, <1>5, <2>1, <2>2, Zenon DEF ConnectionInv, Continues
  <2>6. ClientInv(p)'
    <3>1. Running(p)' = Running(p)
      BY <1>2 DEF Running
    <3>2. (InFlight(p) => InFlight(p)') /\ (Settled(p) => Settled(p)')
      BY <1>2, <2>1, <2>2, <2>3 DEF InFlight, Settled
    <3>. QED BY <1>1, <1>2, <2>1, <2>2, <2>3, <3>1, <3>2, Zenon DEF ClientInv, Continues
  <2>. QED BY <1>1, <1>2, <2>4, <2>5, <2>6, OnePeer, Zenon DEF PeersInv
<1>7. CASE /\ conn' = conn
           /\ \/ SaveCreate(p) \/ SaveWrite(p) \/ SaveRemove(p) \/ SaveReopen(p)
              \/ SaveCopy(p) \/ SaveCannotOpen(p)
  <2>1. Saving(p)
    BY <1>1, <1>7, Zenon DEF Saving, SaveCreate, SaveWrite, SaveRemove, SaveReopen, SaveCopy,
                              SaveCannotOpen
  <2>2. OthersSame(p)
    BY <1>2, <1>4, <1>7, Zenon DEF OthersSame, PeersInv
  <2>3. ConnectionInv(p)'
    BY <1>1, <1>2, <1>7, Zenon DEF ConnectionInv
  <2>4. ClientInv(p)'
    <3>1. Running(p)' = Running(p) /\ InFlight(p)' = InFlight(p) /\ Settled(p)' = Settled(p)
      BY <1>2, <1>7, Zenon DEF Running, InFlight, Settled
    <3>. QED BY <1>1, <1>2, <1>7, <2>1, <3>1, Zenon DEF ClientInv
  <2>. QED BY <1>1, <1>2, <2>2, <2>3, <2>4, OnePeer, Zenon DEF PeersInv
<1>. QED BY <1>6, <1>7 DEF ThreadSaves

\* A thread that ends forgets its connection.
LEMMA ThreadClosesInv ==
  ASSUME PeersInv, NEW p \in Peers, ThreadCloses(p)
  PROVE  PeersInv'
<1>1. /\ ConnectionInv(p) /\ conn[p].open /\ ~ Saving(p) /\ conn[p].todo = <<>>
      /\ p \in Workers => WorkerInv(p)
      /\ p \in Clients => ClientInv(p)
  BY Zenon DEF PeersInv, ThreadCloses, Ready
<1>2. /\ proc' = proc /\ toPeer' = toPeer /\ waiting' = waiting
      /\ phase' = phase /\ saves' = saves
      /\ conn' = [conn EXCEPT ![p] = NoThread] /\ toCoord' = [toCoord EXCEPT ![p] = <<>>]
  BY DEF ThreadCloses, saving
<1>3. conn'[p] = NoThread /\ toCoord'[p] = <<>>
  BY <1>2 DEF PeersInv
<1>4. OthersSame(p)
  BY <1>2 DEF OthersSame, PeersInv, Saving
<1>5. proc[p] # "new"
  BY <1>1, OpenConnection
<1>6. Len(<<>>) = 0 /\ \A S : <<>> \in Seq(S)
  OBVIOUS
<1>7. /\ DOMAIN NoThread = {"open", "boot", "done", "todo"} /\ ~ NoThread.open
      /\ NoThread.open \in BOOLEAN /\ NoThread.done \in BOOLEAN
      /\ NoThread.boot = NoBoot /\ NoThread.todo = <<>>
  BY DEF NoThread
<1>8. ConnectionInv(p)'
  BY <1>1, <1>2, <1>3, <1>5, <1>6, <1>7, BufferRoom, Zenon DEF ConnectionInv
<1>9. p \in Workers => WorkerInv(p)'
  BY <1>3, <1>6, <1>7 DEF WorkerInv
<1>10. p \in Clients => ClientInv(p)'
  <2>. SUFFICES ASSUME p \in Clients PROVE ClientInv(p)'
    OBVIOUS
  <2>1. Running(p)' = Running(p) /\ Saving(p)' = Saving(p)
    BY <1>2 DEF Running, Saving
  <2>2. (InFlight(p) => InFlight(p)') /\ (Settled(p) => Settled(p)')
    BY <1>1, <1>2, <1>3, <1>7 DEF InFlight, Settled
  <2>3. Len(<<>>) <= 1
    OBVIOUS
  <2>. QED BY <1>1, <1>2, <1>3, <1>6, <1>7, <2>1, <2>2, <2>3, Zenon DEF ClientInv
<1>. QED BY <1>2, <1>4, <1>8, <1>9, <1>10, OnePeer DEF PeersInv

\* Nobody is connected to a coordinator that starts.
LEMMA CoordinatorStartsInv ==
  ASSUME PeersInv, CoordinatorStarts
  PROVE  PeersInv'
<1>1. /\ proc' = proc /\ toCoord' = toCoord /\ toPeer' = toPeer /\ waiting' = waiting
      /\ conn' = conn
  BY DEF CoordinatorStarts, network
<1>2. phase # "serving" /\ saves' = saves
  BY DEF CoordinatorStarts, StartLoad, StartServing, saving
<1>3. ASSUME NEW p \in Peers PROVE ConnectionInv(p)'
  BY <1>1, <1>2 DEF PeersInv, ConnectionInv
<1>4. ASSUME NEW w \in Workers PROVE WorkerInv(w)'
  BY <1>1 DEF PeersInv, WorkerInv
<1>5. ASSUME NEW c \in Clients PROVE ClientInv(c)'
  <2>1. /\ Running(c)' = Running(c) /\ InFlight(c)' = InFlight(c) /\ Settled(c)' = Settled(c)
        /\ Saving(c)' = Saving(c)
    BY <1>1, <1>2 DEF Running, InFlight, Settled, Saving
  <2>. QED BY <1>1, <2>1 DEF PeersInv, ClientInv
<1>. QED BY <1>1, <1>3, <1>4, <1>5 DEF PeersInv

\* A state in which no process has connected.
Disconnected ==
  /\ conn = [p \in Peers |-> NoThread] /\ proc = [p \in Peers |-> "new"]
  /\ toCoord = [p \in Peers |-> <<>>] /\ toPeer = [p \in Peers |-> <<>>] /\ waiting = {}
  /\ saves = [s \in Savers |-> NoSave]

\* While no peer has connected, the connections are in order.
LEMMA NobodyConnected == Disconnected => PeersInv
<1>. SUFFICES ASSUME Disconnected PROVE PeersInv
  OBVIOUS
<1>0. /\ conn = [p \in Peers |-> NoThread] /\ proc = [p \in Peers |-> "new"]
      /\ toCoord = [p \in Peers |-> <<>>] /\ toPeer = [p \in Peers |-> <<>>] /\ waiting = {}
      /\ saves = [s \in Savers |-> NoSave]
  BY DEF Disconnected
<1>1. Len(<<>>) = 0 /\ \A S : <<>> \in Seq(S)
  OBVIOUS
<1>2. /\ DOMAIN NoThread = {"open", "boot", "done", "todo"} /\ ~ NoThread.open
      /\ NoThread.open \in BOOLEAN /\ NoThread.done \in BOOLEAN
      /\ NoThread.boot = NoBoot /\ NoThread.todo = <<>>
  BY DEF NoThread
<1>3. ASSUME NEW p \in Peers PROVE ConnectionInv(p)
  <2>1. /\ conn[p] = NoThread /\ toCoord[p] = <<>> /\ toPeer[p] = <<>>
    BY <1>0
  <2>2. 0 <= PeerBuffer /\ 0 <= CoordinatorBuffer
    BY DeploymentAssumption
  <2>. QED BY <1>1, <1>2, <2>1, <2>2 DEF ConnectionInv
<1>4. ASSUME NEW w \in Workers PROVE WorkerInv(w)
  <2>1. conn[w] = NoThread /\ toCoord[w] = <<>> /\ DOMAIN toCoord[w] = {}
    BY <1>0 DEF Peers
  <2>. QED BY <1>1, <1>2, <2>1, Zenon DEF WorkerInv
<1>5. ASSUME NEW c \in Clients PROVE ClientInv(c)
  <2>1. ~ Running(c) /\ ~ Saving(c) /\ c \in Peers
    BY <1>0 DEF Running, Saving, NoSave, Peers
  <2>. QED BY <1>0, <1>1, <1>2, <2>1 DEF ClientInv
<1>. QED BY <1>0, <1>3, <1>4, <1>5 DEF PeersInv

\* The coordinator's process dies, and every connection with it.
LEMMA CoordinatorDiesInv ==
  ASSUME CoordinatorDies PROVE PeersInv'
<1>1. Disconnected'
  BY DEF CoordinatorDies, Crash, Disconnected
<1>. QED BY <1>1, NobodyConnected, PTL

\* Every step keeps the connections in order.
LEMMA PeersStep ==
  ASSUME TypeOK, RecoveryTypeOK, PeersInv, [DeploymentNext]_dvars
  PROVE  PeersInv'
<1>1. CASE CoordinatorStarts
  BY <1>1, CoordinatorStartsInv
<1>2. CASE CoordinatorDies
  BY <1>2, CoordinatorDiesInv
<1>3. ASSUME NEW p \in Peers, ThreadHandles(p) PROVE PeersInv'
  BY <1>3, WorkerThreadInv, ClientThreadInv DEF Peers
<1>4. ASSUME NEW p \in Peers, ThreadSends(p) \/ ThreadSaves(p) \/ ThreadCloses(p)
      PROVE  PeersInv'
  BY <1>4, ThreadSendsInv, ThreadSavesInv, ThreadClosesInv
<1>5. ASSUME NEW p \in Peers, Dies(p) \/ LosesCoordinator(p) PROVE PeersInv'
  BY <1>5, EndsInv DEF Dies, LosesCoordinator
<1>6. ASSUME NEW w \in Workers, Worker(w) \/ WorkerConnects(w) PROVE PeersInv'
  BY <1>5, <1>6, WorkerConnectsInv, WorkerRegistersInv, WorkerHandlesInv DEF Worker, Peers
<1>7. ASSUME NEW c \in Clients, Client(c) \/ ClientConnects(c) \/ ClientAsks(c) PROVE PeersInv'
  BY <1>5, <1>7, ClientConnectsInv, ClientAsksInv, ClientGetsInv DEF Client, Peers
<1>8. CASE UNCHANGED dvars
  <2>1. /\ proc' = proc /\ toCoord' = toCoord /\ toPeer' = toPeer /\ waiting' = waiting
        /\ conn' = conn /\ phase' = phase /\ saves' = saves
    BY <1>8 DEF dvars, rvars, network, saving
  <2>2. ASSUME NEW p \in Peers PROVE ConnectionInv(p)'
    BY <2>1 DEF PeersInv, ConnectionInv
  <2>3. ASSUME NEW w \in Workers PROVE WorkerInv(w)'
    BY <2>1, Zenon DEF PeersInv, WorkerInv
  <2>4. ASSUME NEW c \in Clients PROVE ClientInv(c)'
    BY <2>1, Zenon DEF PeersInv, ClientInv, Running, InFlight, Settled, Saving
  <2>. QED BY <2>1, <2>2, <2>3, <2>4 DEF PeersInv
<1>. QED BY <1>1, <1>2, <1>3, <1>4, <1>5, <1>6, <1>7, <1>8 DEF DeploymentNext, Thread
=============================================================================
