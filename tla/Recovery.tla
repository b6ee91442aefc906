------------------------------ MODULE Recovery ------------------------------
(***************************************************************************)
(* FabricEngine in a process that saves its state to a file, crashes, and  *)
(* is started again from the file: Save and Load (src/dfabric/engine.cpp), *)
(* the file format (src/dfabric/persistence.cpp) and the start of the      *)
(* coordinator (deploy/coordinator.cpp).                                   *)
(*                                                                         *)
(* Save takes its snapshot under the engine's lock and writes outside it,  *)
(* so it is a process of several steps; any number of connection threads   *)
(* may be in it at once, all of them writing the same two files. A crash   *)
(* may come between any two steps. It loses the memory of the process; the *)
(* files and the plans that callers hold survive.                          *)
(*                                                                         *)
(* Load is called once, on the fresh engine of a starting coordinator.     *)
(***************************************************************************)
EXTENDS FabricEngine

CONSTANTS
  Savers,         \* threads that call Save
  SeededPaths,    \* the paths the coordinator resolves when it starts
  StartEpochs,    \* the epochs a coordinator may be started with
  DiskMayFail,    \* whether opening or writing a file may fail
  MaxSaves,       \* bound on the Save calls
  MaxRestarts     \* bound on the crashes

ASSUME RecoveryAssumption ==
  /\ IsMap(SeededPaths, Link, PathEvidence)
  /\ StartEpochs \subseteq Nat \ {0}
  /\ DiskMayFail \in BOOLEAN
  /\ MaxSaves \in Nat /\ MaxRestarts \in Nat

VARIABLES
  file,      \* the state file
  tmp,       \* the temporary file beside it
  saves,     \* Save calls in progress
  begun,     \* Save calls so far
  phase,     \* how far the process has started
  restarts   \* crashes so far

disk   == <<file, tmp>>
saving == <<saves, begun>>
rvars  == <<vars, disk, saving, phase, restarts>>

\* Mutant: the policies are not saved.
SnapshotForgetsPolicies == [epoch        |-> epoch,
                            nodes        |-> nodes,
                            resources    |-> resources,
                            compositions |-> compositions]

\* What Save keeps of the engine: no reservations, holds, paths, fences or
\* counters.
Snapshot == [epoch        |-> epoch,
             nodes        |-> nodes,
             resources    |-> resources,
             policies     |-> policies,
             compositions |-> compositions]

DurableState(d) ==
  /\ DOMAIN d = {"epoch", "nodes", "resources", "policies", "compositions"}
  /\ d.epoch \in Nat \ {0}
  /\ IsMap(d.nodes, NodeId, Node)
  /\ IsMap(d.resources, ResourceId, Resource)
  /\ IsMap(d.policies, PolicyId, Nat)
  /\ DOMAIN d.compositions \subseteq CompositionId
  /\ \A c \in DOMAIN d.compositions : Composition(d.compositions[c])

\* The state of an engine that knows nothing, where there is no state to record.
Blank == [epoch |-> 1, nodes |-> EmptyMap, resources |-> EmptyMap,
          policies |-> EmptyMap, compositions |-> EmptyMap]

\* A file is absent, empty, damaged (cut off or a mixture of two writers' bytes,
\* which the checksum rejects), or a whole saved state.
Absent   == [form |-> "absent", state |-> Blank]
Empty    == [form |-> "empty", state |-> Blank]
Damaged  == [form |-> "damaged", state |-> Blank]
Whole(d) == [form |-> "whole", state |-> d]

Contents(f) ==
  /\ DOMAIN f = {"form", "state"}
  /\ f.form \in {"absent", "empty", "damaged", "whole"}
  /\ DurableState(f.state)

\* A Save call: the step it takes next and its snapshot.
NoSave == [step |-> "idle", state |-> Blank]

SaveCall(s) ==
  /\ DOMAIN s = {"step", "state"}
  /\ s.step \in {"idle", "create", "write", "remove", "reopen", "copy"}
  /\ DurableState(s.state)

RecoveryTypeOK ==
  /\ Contents(file)
  /\ Contents(tmp)
  /\ DOMAIN saves = Savers
  /\ \A s \in Savers : SaveCall(saves[s])
  /\ begun \in 0..MaxSaves
  /\ phase \in {"starting", "loaded", "serving"}
  /\ restarts \in 0..MaxRestarts

RecoveryInit ==
  /\ Init
  /\ file = Absent
  /\ tmp = Absent
  /\ saves = [s \in Savers |-> NoSave]
  /\ begun = 0
  /\ phase = "starting"
  /\ restarts = 0

-----------------------------------------------------------------------------
(* Save.                                                                   *)

\* A saved state with all the records of another one is no shorter.
Covers(g, f) ==
  /\ f.form = "whole" /\ g.form = "whole"
  /\ DOMAIN f.state.nodes \subseteq DOMAIN g.state.nodes
  /\ DOMAIN f.state.resources \subseteq DOMAIN g.state.resources
  /\ DOMAIN f.state.policies \subseteq DOMAIN g.state.policies
  /\ DOMAIN f.state.compositions \subseteq DOMAIN g.state.compositions

\* What a file becomes when bytes are written over it from its start, after the
\* call that writes has cut it and another one may have written it since: a
\* shorter text leaves the end of a longer one.
Written(f, content) ==
  IF content.form = "empty" THEN {f}
  ELSE IF f.form = "empty" \/ Covers(content, f) THEN {content}
  ELSE {content, Damaged}

SaveGoes(s, step) == saves' = [saves EXCEPT ![s].step = step]
SaveReturns(s) == saves' = [saves EXCEPT ![s] = NoSave]

SaveSnapshot(s) ==
  /\ saves[s].step = "idle"
  /\ begun < MaxSaves
  /\ saves' = [saves EXCEPT ![s] = [step |-> "create", state |-> Snapshot]]
  /\ begun' = begun + 1
  /\ UNCHANGED disk

\* The temporary file is opened and cut to nothing.
SaveCreate(s) ==
  /\ saves[s].step = "create"
  /\ tmp' = Empty
  /\ SaveGoes(s, "write")
  /\ UNCHANGED <<file, begun>>

\* The snapshot is written to the temporary file; a failure is noticed.
SaveWrite(s) ==
  /\ saves[s].step = "write"
  /\ \/ /\ tmp' \in Written(tmp, Whole(saves[s].state))
        /\ SaveGoes(s, "remove")
     \/ DiskMayFail /\ tmp' = Damaged /\ SaveReturns(s)
  /\ UNCHANGED <<file, begun>>

\* What std::remove may leave of a file; its result is ignored. It is called on
\* Windows alone, where a file that another call has open stays.
Removed(f, open) == IF open THEN {f} ELSE {f, Absent}

\* The calls that have the state file open, and those that have the temporary one.
HaveFile == {s \in Savers : saves[s].step = "copy"}
HaveTmp  == {s \in Savers : saves[s].step \in {"write", "copy"}}

\* The state file is removed.
SaveRemove(s) ==
  /\ saves[s].step = "remove"
  /\ file' \in Removed(file, HaveFile # {})
  /\ SaveGoes(s, "reopen")
  /\ UNCHANGED <<tmp, begun>>

\* The temporary file is opened for reading, and the state file is opened and cut
\* to nothing. When another call has removed the temporary file Save fails here.
SaveReopen(s) ==
  /\ saves[s].step = "reopen"
  /\ file' = Empty
  /\ IF tmp = Absent THEN SaveReturns(s) ELSE SaveGoes(s, "copy")
  /\ UNCHANGED <<tmp, begun>>

\* What the temporary file holds by now is copied into the state file, and it is
\* removed, which may fail because this call still reads it; no failure is noticed.
SaveCopy(s) ==
  /\ saves[s].step = "copy"
  /\ \/ file' \in Written(file, tmp)
     \/ DiskMayFail /\ file' = Damaged
  /\ tmp' \in Removed(tmp, HaveTmp # {s})
  /\ SaveReturns(s)
  /\ UNCHANGED begun

\* One of the two files cannot be opened.
SaveCannotOpen(s) ==
  /\ DiskMayFail
  /\ saves[s].step \in {"create", "reopen"}
  /\ SaveReturns(s)
  /\ UNCHANGED <<disk, begun>>

Save(s) ==
  /\ phase = "serving"
  /\ \/ SaveSnapshot(s) \/ SaveCreate(s) \/ SaveWrite(s) \/ SaveRemove(s)
     \/ SaveReopen(s) \/ SaveCopy(s) \/ SaveCannotOpen(s)
  /\ UNCHANGED <<vars, phase, restarts>>

-----------------------------------------------------------------------------
(* What LoadImpl makes of a file.                                          *)

\* The enumerations are read with 1 as their least value, and UNKNOWN is 0. What is
\* published is taken to have the fields that are not modelled set to known values.
ReadableResource(res) ==
  /\ res.health # "UNKNOWN"
  /\ res.readiness # "UNKNOWN"
  /\ res.reachability # "UNKNOWN"

Readable(f) ==
  /\ f.form = "whole"
  /\ \A r \in DOMAIN f.state.resources : ReadableResource(f.state.resources[r])

\* The file has no field for ignore_reachability and the failure-domain
\* constraint; they come back with their defaults.
StoredRequest(req) ==
  [req EXCEPT !.ignore_reachability = FALSE, !.topology = "NONE", !.max_shared_risk = 0]

\* Mutant: only ACTIVE compositions lose their authority.
RestoredKeepsCommitted(comp) ==
  [comp EXCEPT !.request = StoredRequest(@),
               !.lifecycle = IF @ = "ACTIVE" THEN "RECOMPOSITION_REQUIRED" ELSE @]

\* A composition read back and taken over by Load.
Restored(comp) ==
  [comp EXCEPT !.request = StoredRequest(@),
               !.lifecycle = IF @ \in {"ACTIVE", "COMMITTED"}
                             THEN "RECOMPOSITION_REQUIRED" ELSE @]

\* The least id that is no smaller than the counter and above every loaded one.
NextAfter(ids) == Max({next_comp} \cup {c + 1 : c \in ids})

\* Load over the engine: the ledger's amounts, the fences, the drains and the
\* reservation counter are not touched.
LoadState(d) ==
  /\ epoch' = d.epoch
  /\ nodes' = d.nodes
  /\ resources' = [r \in DOMAIN d.resources |->
                     IF d.resources[r].evidence.durable
                     THEN d.resources[r] ELSE Expired(d.resources[r])]
  /\ policies' = d.policies
  /\ compositions' = [c \in DOMAIN d.compositions |-> Restored(d.compositions[c])]
  /\ reservations' = EmptyMap
  /\ next_comp' = NextAfter(DOMAIN d.compositions)
  /\ UNCHANGED <<reserved_amount, next_resv, draining, fenced, plans, calls>>

-----------------------------------------------------------------------------
(* The life of a coordinator process.                                      *)

\* The paths are seeded and the state file is loaded; the coordinator goes on
\* with an empty engine when there is no file or it is rejected.
StartLoad ==
  /\ phase = "starting"
  /\ paths' = Override(paths, SeededPaths)
  /\ IF Readable(file)
     THEN LoadState(file.state)
     ELSE UNCHANGED <<epoch, nodes, resources, policies, compositions, ledger,
                      draining, fenced, planning, calls>>
  /\ phase' = "loaded"
  /\ UNCHANGED <<disk, saving, restarts>>

\* The epoch of the command line is set, and connections are accepted.
StartServing(e) ==
  /\ phase = "loaded"
  /\ AdvanceEpoch(e)
  /\ phase' = "serving"
  /\ UNCHANGED <<disk, saving, restarts>>

\* The process dies and another one is started. Callers keep their plans; an id
\* that is handed out again stands for the newer of its two plans.
Crash ==
  /\ phase = "serving"
  /\ restarts < MaxRestarts
  /\ epoch' = 1
  /\ nodes' = EmptyMap /\ resources' = EmptyMap /\ paths' = EmptyMap
  /\ policies' = EmptyMap /\ compositions' = EmptyMap /\ reservations' = EmptyMap
  /\ reserved_amount' = [r \in ResourceId |-> 0]
  /\ draining' = {} /\ fenced' = {}
  /\ next_comp' = 1 /\ next_resv' = 1
  /\ calls' = [t \in Callers |-> IdleCall]
  /\ saves' = [s \in Savers |-> NoSave]
  /\ phase' = "starting"
  /\ restarts' = restarts + 1
  /\ UNCHANGED <<plans, disk, begun>>

Serve ==
  /\ phase = "serving"
  /\ Next
  /\ UNCHANGED <<disk, saving, phase, restarts>>

RecoveryNext ==
  \/ Serve
  \/ \E s \in Savers : Save(s)
  \/ Crash
  \/ StartLoad
  \/ \E e \in StartEpochs : StartServing(e)

RecoverySpec == RecoveryInit /\ [][RecoveryNext]_rvars

-----------------------------------------------------------------------------
(* Properties.                                                             *)

\* No composition is COMMITTED or ACTIVE on the strength of what an earlier
\* process did: it has a reservation in the table of this process, made for it,
\* although Load takes over compositions in every lifecycle and hands out the
\* reservation ids of the earlier process again (Load, Commit, Activate).
AuthorityEarned ==
  \A c \in DOMAIN compositions :
    compositions[c].lifecycle \in {"COMMITTED", "ACTIVE"} =>
      /\ compositions[c].reservation \in DOMAIN reservations
      /\ reservations[compositions[c].reservation].composition = c

\* "Atomic replacement: write to a temp file, then move" (SaveImpl): once there is
\* a complete state file, no step of a Save leaves the disk without one, so that a
\* crash finds the state before or the state after.
ReplacementAtomic == [][file.form = "whole" => file'.form = "whole"]_rvars

\* A state that Save has written completely is one that Load accepts (the
\* round trip of tests/t_persistence.cpp).
SavedIsLoadable == file.form = "whole" => Readable(file)
=============================================================================
