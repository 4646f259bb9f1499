------------------------------ MODULE Pipeline ------------------------------
(***************************************************************************)
(* The write path of one sink: internal/pipeline/process.go on top of the  *)
(* hashCache, between the watch cache it reads and the sink it writes.     *)
(*                                                                         *)
(* The actors that interleave are                                          *)
(*   - the cluster and the informer, which change objects and enqueue keys *)
(*     (outside the package: how the pipeline sees them);                  *)
(*   - the workqueue workers, one Process call per key at a time, each     *)
(*     step of which is an action (a step ends where the code releases a   *)
(*     lock or blocks);                                                    *)
(*   - the sink's writer goroutines, which settle accepted jobs in any     *)
(*     order and run their Commit callbacks;                               *)
(*   - the watch manager, which stops, evicts and restarts the scope.      *)
(*                                                                         *)
(* All keys belong to one watch scope of one sink.  Objects are reduced to *)
(* a UID and the hash of their normalized state.                           *)
(***************************************************************************)
EXTENDS HashCache, FiniteSets

CONSTANTS
    Keys,             \* object identities (group, kind, namespace, name)
    EphemeralKeys,    \* those of kind Event, which expire instead of being deleted
    MaxHash,          \* object states are 1 .. MaxHash
    CheckpointEvery,  \* spec.writer.checkpointEvery, 0 disables checkpoints
    InFlight,         \* jobs the sink can hold at once, each on a worker of its own
    MaxChanges,       \* bound: object creations, updates and removals
    MaxFaults,        \* bound: failed writes, enqueue timeouts, missing writers
    MaxPasses,        \* bound: pool passes that stop or restart the scope
    LostAcks          \* whether a write reported as failed may be durable

ASSUME ConstantsAssumption ==
    /\ EphemeralKeys \subseteq Keys
    /\ MaxHash \in Nat \ {0}
    /\ CheckpointEvery \in Nat
    /\ InFlight \in Nat \ {0}
    /\ MaxChanges \in Nat
    /\ MaxFaults \in Nat
    /\ MaxPasses \in Nat
    /\ LostAcks \in BOOLEAN

VARIABLES
    live,       \* the cluster: the object that exists under each key
    listed,     \* keys whose object the informer's indexer has caught up with
    scope,      \* "active", "stopping" (deregistered, not yet evicted), "stopped"
    warm,       \* the scope's flag in sinkState.warm
    dirty,      \* keys waiting in the workqueue, or to be re-added by it
    work,       \* the Process call running for each key: its position and locals
    cache,      \* sinkState.cache
    closeOuts,  \* sinkState.closeOuts
    jobs,       \* jobs accepted by the sink and not settled yet
    rows,       \* resource_states: the rows that are durable
    clock,      \* time.Now(): the timestamp of the last record built
    changes,    \* object changes so far; also the source of fresh UIDs
    faults,     \* faults so far
    passes,     \* pool passes that stopped or restarted the scope so far
    reissued    \* history variable: a slot was emptied under a write in flight,
                \* whose version is given again

vars == <<live, listed, scope, warm, dirty, work, cache, closeOuts, jobs, rows,
          clock, changes, faults, passes, reissued>>

clusterVars == <<live, listed, changes>>
scopeVars   == <<scope, warm, passes>>
sinkVars    == <<jobs, rows, reissued>>

Hash   == 1 .. MaxHash
Object == [uid: Nat, hash: Nat]

NoObject == [uid |-> 0, hash |-> 0]

EventTypes == {"Added", "Snapshot", "Modified", "Checkpoint", "Deleted"}

\* A durable row.  base is the state its diff patches (0: no diff); full says
\* whether its data column holds the whole state.
Row == [key: Keys, type: EventTypes, ts: Nat, uid: Nat, hash: Nat, base: Nat,
        full: BOOLEAN]

(***************************************************************************)
(* A sink.Job: its record, and what its Commit closure captured.  kind     *)
(* says which of the three closures it is.                                 *)
(***************************************************************************)
Job == [kind: {"upsert", "delete", "closeOut"}, key: Keys, type: EventTypes,
        ts: Nat, uid: Nat, hash: Nat, base: Nat, full: BOOLEAN,
        version: Nat, entry: CacheEntry, revert: CacheEntry]

RowOf(j) == [key |-> j.key, type |-> j.type, ts |-> j.ts, uid |-> j.uid,
             hash |-> j.hash, base |-> j.base, full |-> j.full]

\* The Deleted record of emitDelete and of a reincarnation close-out.
DeletedJob(kind, k, uid, version) ==
    [kind |-> kind, key |-> k, type |-> "Deleted", ts |-> clock + 1, uid |-> uid,
     hash |-> 0, base |-> 0, full |-> FALSE, version |-> version,
     entry |-> Absent, revert |-> Absent]

(***************************************************************************)
(* What processUpsert has decided to write before it calls Reserve, which  *)
(* gives the job its version and timestamp.  A row that re-baselines the   *)
(* replay window leaves run = 0 behind.                                    *)
(***************************************************************************)
UpsertJob(k, type, obj, base, full, run, revert) ==
    [kind |-> "upsert", key |-> k, type |-> type, ts |-> 0, uid |-> obj.uid,
     hash |-> obj.hash, base |-> base, full |-> full, version |-> 0,
     entry |-> [uid |-> obj.uid, hash |-> obj.hash, json |-> k \notin EphemeralKeys,
                run |-> run, version |-> 0, pending |-> FALSE, stamp |-> 0],
     revert |-> revert]

AddedJob(k, obj) == UpsertJob(k, "Added", obj, 0, TRUE, 0, Absent)

NoJob(k) == UpsertJob(k, "Added", NoObject, 0, TRUE, 0, Absent)

Positions == {"idle", "begin", "act", "claimOld", "closeOut", "reserve", "enqueue"}

Idle(k) == [pc |-> "idle", obj |-> NoObject, job |-> NoJob(k)]

At(k, pc, obj, job) == work' = [work EXCEPT ![k] = [pc |-> pc, obj |-> obj, job |-> job]]

\* Process returned nil.
Finish(k) == work' = [work EXCEPT ![k] = Idle(k)]

\* Process returned an error: processNext re-adds the key.
FinishAndRetry(k) == Finish(k) /\ dirty' = dirty \cup {k}

CountFault == faults < MaxFaults /\ faults' = faults + 1

TypeOK ==
    /\ live \in [Keys -> Object]
    /\ listed \subseteq Keys
    /\ scope \in {"active", "stopping", "stopped"}
    /\ warm \in BOOLEAN
    /\ dirty \subseteq Keys
    /\ work \in [Keys -> [pc: Positions, obj: Object, job: Job]]
    /\ cache \in [Keys -> CacheEntry]
    /\ closeOuts \in [Keys -> SUBSET Job]
    /\ jobs \subseteq Job
    /\ rows \subseteq Row
    /\ clock \in Nat
    /\ changes \in Nat
    /\ faults \in Nat
    /\ passes \in Nat
    /\ reissued \in BOOLEAN

Init ==
    /\ live = [k \in Keys |-> NoObject]
    /\ listed = {}
    /\ scope = "active"
    /\ warm = FALSE
    /\ dirty = {}
    /\ work = [k \in Keys |-> Idle(k)]
    /\ cache = [k \in Keys |-> Absent]
    /\ closeOuts = [k \in Keys |-> {}]
    /\ jobs = {}
    /\ rows = {}
    /\ clock = 0
    /\ changes = 0
    /\ faults = 0
    /\ passes = 0
    /\ reissued = FALSE

-----------------------------------------------------------------------------
(***************************************************************************)
(* The cluster and the informer.  client-go updates the indexer before it  *)
(* calls the handler, whose fanOut adds the key; a key the initial list    *)
(* has not delivered yet is missing from the indexer and enqueues nothing. *)
(***************************************************************************)
Observed(k) == k \in listed /\ scope = "active"

Notify(k) == dirty' = IF Observed(k) THEN dirty \cup {k} ELSE dirty

ChangeObject(k, obj) ==
    /\ changes < MaxChanges
    /\ changes' = changes + 1
    /\ live' = [live EXCEPT ![k] = obj]
    /\ Notify(k)
    /\ UNCHANGED <<listed, scopeVars, work, cache, closeOuts, sinkVars, clock, faults>>

\* A creation gives the object a UID no object had before.
CreateObject(k) ==
    \E h \in Hash :
        /\ live[k].uid = 0
        /\ ChangeObject(k, [uid |-> changes + 1, hash |-> h])

UpdateObject(k) ==
    \E h \in Hash :
        /\ live[k].uid # 0
        /\ live[k].hash # h
        /\ ChangeObject(k, [live[k] EXCEPT !.hash = h])

RemoveObject(k) ==
    /\ live[k].uid # 0
    /\ ChangeObject(k, NoObject)

ListObject(k) ==
    /\ scope = "active"
    /\ k \notin listed
    /\ listed' = listed \cup {k}
    /\ dirty' = IF live[k].uid # 0 THEN dirty \cup {k} ELSE dirty
    /\ UNCHANGED <<live, changes, scopeVars, work, cache, closeOuts, sinkVars, clock, faults>>

\* The indexer's answer for a key.
Indexed(k) == IF k \in listed THEN live[k] ELSE NoObject

-----------------------------------------------------------------------------
(***************************************************************************)
(* The watch manager: a pool pass deregisters the scope, then evicts it,   *)
(* then stops its informer; a later pass may watch it again with a fresh   *)
(* informer.  MarkScopeWarm is called by the warm coordinator.             *)
(***************************************************************************)
DeregisterScope ==
    /\ scope = "active"
    /\ passes < MaxPasses
    /\ passes' = passes + 1
    /\ scope' = "stopping"
    /\ UNCHANGED <<clusterVars, warm, dirty, work, cache, closeOuts, sinkVars,
                   clock, faults>>

EvictScope ==
    /\ scope = "stopping"
    /\ scope' = "stopped"
    /\ warm' = FALSE
    /\ cache' = [k \in Keys |-> Absent]
    /\ listed' = {}
    /\ UNCHANGED <<live, changes, passes, dirty, work, closeOuts, sinkVars, clock, faults>>

RestartScope ==
    /\ scope = "stopped"
    /\ passes < MaxPasses
    /\ passes' = passes + 1
    /\ scope' = "active"
    /\ UNCHANGED <<clusterVars, warm, dirty, work, cache, closeOuts, sinkVars, clock, faults>>

MarkScopeWarm ==
    /\ ~warm
    /\ warm' = TRUE
    /\ UNCHANGED <<clusterVars, scope, passes, dirty, work, cache, closeOuts, sinkVars,
                   clock, faults>>

-----------------------------------------------------------------------------
(***************************************************************************)
(* Process: from the workqueue to the first decision.                      *)
(***************************************************************************)

\* The scope stopped while the item was queued: dropped, never a deletion.
DropStopped(k) ==
    /\ k \in dirty
    /\ work[k].pc = "idle"
    /\ scope # "active"
    /\ dirty' = dirty \ {k}
    /\ UNCHANGED <<clusterVars, scopeVars, work, cache, closeOuts, sinkVars, clock, faults>>

\* An Event that left the watch cache expired: forgetEphemeral claims its entry
\* and settles the claim at once, writing nothing.
ForgetEphemeral(k) ==
    /\ k \in dirty \cap EphemeralKeys
    /\ work[k].pc = "idle"
    /\ scope = "active"
    /\ Indexed(k).uid = 0
    /\ dirty' = dirty \ {k}
    /\ cache' = [cache EXCEPT ![k] =
          IF DeleteClaimOutcome(@, 0) = "claimed"
          THEN DeleteIfCurrent(ReserveDelete(@), ReserveDelete(@).version)
          ELSE @]
    /\ UNCHANGED <<clusterVars, scopeVars, work, closeOuts, sinkVars, clock, faults>>

BeginProcess(k) ==
    /\ k \in dirty
    /\ work[k].pc = "idle"
    /\ scope = "active"
    /\ Indexed(k).uid = 0 => k \notin EphemeralKeys
    /\ dirty' = dirty \ {k}
    /\ At(k, "begin", Indexed(k), NoJob(k))
    /\ UNCHANGED <<clusterVars, scopeVars, cache, closeOuts, sinkVars, clock, faults>>

\* The router has no live writer for the sink: the item is retried.
SinkUnavailable(k) ==
    /\ work[k].pc = "begin"
    /\ CountFault
    /\ FinishAndRetry(k)
    /\ UNCHANGED <<clusterVars, scopeVars, cache, closeOuts, sinkVars, clock>>

\* retryPendingCloseOuts: every record taken is enqueued again, or put back and
\* the key re-added when the sink did not accept it.
RetryPendingCloseOuts(k) ==
    /\ work[k].pc = "begin"
    /\ \E accepted \in SUBSET closeOuts[k] :
          /\ Cardinality(jobs \cup accepted) <= InFlight
          /\ jobs' = jobs \cup accepted
          /\ closeOuts' = [closeOuts EXCEPT ![k] = @ \ accepted]
          /\ IF accepted = closeOuts[k]
             THEN UNCHANGED <<dirty, faults>>
             ELSE CountFault /\ dirty' = dirty \cup {k}
    /\ At(k, "act", work[k].obj, work[k].job)
    /\ UNCHANGED <<clusterVars, scopeVars, cache, rows, reissued, clock>>

-----------------------------------------------------------------------------
(***************************************************************************)
(* emitDelete: the object is absent from the watch cache.                  *)
(***************************************************************************)
DeleteRefused(k) ==
    /\ work[k].pc = "act"
    /\ work[k].obj.uid = 0
    /\ DeleteClaimOutcome(cache[k], 0) # "claimed"
    /\ Finish(k)
    /\ UNCHANGED <<clusterVars, scopeVars, dirty, cache, closeOuts, sinkVars, clock, faults>>

ClaimDelete(k) ==
    /\ work[k].pc = "act"
    /\ work[k].obj.uid = 0
    /\ DeleteClaimOutcome(cache[k], 0) = "claimed"
    /\ cache' = [cache EXCEPT ![k] = ReserveDelete(@)]
    /\ clock' = clock + 1
    /\ At(k, "enqueue", work[k].obj,
          DeletedJob("delete", k, cache[k].uid, ReserveDelete(cache[k]).version))
    /\ UNCHANGED <<clusterVars, scopeVars, dirty, closeOuts, sinkVars, faults>>

-----------------------------------------------------------------------------
(***************************************************************************)
(* processUpsert: the object exists.                                       *)
(***************************************************************************)

\* No redaction policy covers the key any more, or the object cannot be
\* serialized: retried, never written.
UpsertPostponed(k) ==
    /\ work[k].pc = "act"
    /\ work[k].obj.uid # 0
    /\ \/ scope # "active" /\ UNCHANGED faults
       \/ CountFault
    /\ FinishAndRetry(k)
    /\ UNCHANGED <<clusterVars, scopeVars, cache, closeOuts, sinkVars, clock>>

Loading(k) == work[k].pc = "act" /\ work[k].obj.uid # 0 /\ scope = "active"

LoadMiss(k) ==
    LET obj  == work[k].obj
        type == IF k \notin EphemeralKeys /\ ~warm THEN "Snapshot" ELSE "Added"
    IN  /\ Loading(k)
        /\ ~Present(cache[k])
        /\ At(k, "reserve", obj, UpsertJob(k, type, obj, 0, TRUE, 0, Absent))
        /\ UNCHANGED <<clusterVars, scopeVars, dirty, cache, closeOuts, sinkVars, clock, faults>>

\* Mutant: compares hashes only.
LoadDuplicateHash(k) ==
    /\ Loading(k)
    /\ Present(cache[k])
    /\ cache[k].hash = work[k].obj.hash
    /\ Finish(k)
    /\ UNCHANGED <<clusterVars, scopeVars, dirty, cache, closeOuts, sinkVars, clock, faults>>

LoadDuplicate(k) ==
    /\ Loading(k)
    /\ Present(cache[k])
    /\ cache[k].uid = work[k].obj.uid
    /\ cache[k].hash = work[k].obj.hash
    /\ Finish(k)
    /\ UNCHANGED <<clusterVars, scopeVars, dirty, cache, closeOuts, sinkVars, clock, faults>>

\* Mutant: one diff-only row too many.
CheckpointLate(run, oversized) ==
    CheckpointEvery > 0 /\ (run > CheckpointEvery \/ oversized)

\* checkpointDue; oversized is whether the diff is larger than the object.
CheckpointDue(run, oversized) ==
    CheckpointEvery > 0 /\ (run >= CheckpointEvery \/ oversized)

\* What comes of comparing the baseline with the new state: no usable diff (the
\* baseline does not decode, or the comparison fails), or one of either size.
Diffs == {"none", "small", "oversized"}

\* Same object, new state: full state when there is nothing to diff against or
\* no diff, a Checkpoint when one is due, a diff otherwise.
ChangedJob(k, entry, obj, diff) ==
    CASE ~entry.json \/ diff = "none"
            -> UpsertJob(k, "Modified", obj, 0, TRUE, 0, entry)
      [] entry.json /\ diff # "none" /\ CheckpointDue(entry.run + 1, diff = "oversized")
            -> UpsertJob(k, "Checkpoint", obj, entry.hash, TRUE, 0, entry)
      [] OTHER
            -> UpsertJob(k, "Modified", obj, entry.hash, FALSE, entry.run + 1, entry)

LoadChanged(k) ==
    /\ Loading(k)
    /\ Present(cache[k])
    /\ cache[k].uid = work[k].obj.uid
    /\ cache[k].hash # work[k].obj.hash
    /\ \E diff \in Diffs :
          At(k, "reserve", work[k].obj, ChangedJob(k, cache[k], work[k].obj, diff))
    /\ UNCHANGED <<clusterVars, scopeVars, dirty, cache, closeOuts, sinkVars, clock, faults>>

\* Mutant: an Event's old incarnation is closed out like any other.
LoadReincarnatedAnyKind(k) ==
    /\ Loading(k)
    /\ Present(cache[k])
    /\ cache[k].uid # work[k].obj.uid
    /\ At(k, "claimOld", work[k].obj, [NoJob(k) EXCEPT !.uid = cache[k].uid])
    /\ UNCHANGED <<clusterVars, scopeVars, dirty, cache, closeOuts, sinkVars, clock, faults>>

\* A different object answers to this name: an Event simply takes it over, any
\* other kind goes on to close out the UID it found cached.
LoadReincarnated(k) ==
    /\ Loading(k)
    /\ Present(cache[k])
    /\ cache[k].uid # work[k].obj.uid
    /\ IF k \in EphemeralKeys
       THEN At(k, "reserve", work[k].obj, AddedJob(k, work[k].obj))
       ELSE At(k, "claimOld", work[k].obj, [NoJob(k) EXCEPT !.uid = cache[k].uid])
    /\ UNCHANGED <<clusterVars, scopeVars, dirty, cache, closeOuts, sinkVars, clock, faults>>

\* Mutant: the close-out names the new incarnation.
ClaimNewIncarnation(k) ==
    /\ work[k].pc = "claimOld"
    /\ DeleteClaimOutcome(cache[k], work[k].job.uid) = "claimed"
    /\ cache' = [cache EXCEPT ![k] = ReserveDelete(@)]
    /\ clock' = clock + 1
    /\ At(k, "closeOut", work[k].obj, DeletedJob("closeOut", k, work[k].obj.uid, 0))
    /\ UNCHANGED <<clusterVars, scopeVars, dirty, closeOuts, sinkVars, faults>>

\* The old incarnation's deletion is claimed, or somebody else already owns it.
ClaimOldIncarnation(k) ==
    LET oldUID == work[k].job.uid
    IN  /\ work[k].pc = "claimOld"
        /\ DeleteClaimOutcome(cache[k], oldUID) = "claimed"
        /\ cache' = [cache EXCEPT ![k] = ReserveDelete(@)]
        /\ clock' = clock + 1
        /\ At(k, "closeOut", work[k].obj, DeletedJob("closeOut", k, oldUID, 0))
        /\ UNCHANGED <<clusterVars, scopeVars, dirty, closeOuts, sinkVars, faults>>

OldIncarnationRefused(k) ==
    /\ work[k].pc = "claimOld"
    /\ DeleteClaimOutcome(cache[k], work[k].job.uid) # "claimed"
    /\ At(k, "reserve", work[k].obj, AddedJob(k, work[k].obj))
    /\ UNCHANGED <<clusterVars, scopeVars, dirty, cache, closeOuts, sinkVars, clock, faults>>

\* Mutant: a rejected close-out is remembered, its key is not queued.
EnqueueCloseOutNoRequeue(k) ==
    /\ work[k].pc = "closeOut"
    /\ \/ /\ Cardinality(jobs) < InFlight
          /\ jobs' = jobs \cup {work[k].job}
          /\ UNCHANGED <<closeOuts, faults>>
       \/ /\ CountFault
          /\ closeOuts' = [closeOuts EXCEPT ![k] = @ \cup {work[k].job}]
          /\ UNCHANGED jobs
    /\ At(k, "reserve", work[k].obj, AddedJob(k, work[k].obj))
    /\ UNCHANGED <<clusterVars, scopeVars, dirty, cache, rows, reissued, clock>>

EnqueueCloseOut(k) ==
    /\ work[k].pc = "closeOut"
    /\ \/ /\ Cardinality(jobs) < InFlight
          /\ jobs' = jobs \cup {work[k].job}
          /\ UNCHANGED <<closeOuts, dirty, faults>>
       \/ /\ CountFault
          /\ closeOuts' = [closeOuts EXCEPT ![k] = @ \cup {work[k].job}]
          /\ dirty' = dirty \cup {k}
          /\ UNCHANGED jobs
    /\ At(k, "reserve", work[k].obj, AddedJob(k, work[k].obj))
    /\ UNCHANGED <<clusterVars, scopeVars, cache, rows, reissued, clock>>

\* The pending entry replaces whatever the slot holds, claims included.
ReserveVersion(k) ==
    LET entry   == [work[k].job.entry EXCEPT !.stamp = clock + 1]
        version == ReservedVersion(cache[k])
    IN  /\ work[k].pc = "reserve"
        /\ cache' = [cache EXCEPT ![k] = Reserve(@, entry)]
        /\ clock' = clock + 1
        /\ At(k, "enqueue", work[k].obj,
              [work[k].job EXCEPT !.ts = clock + 1, !.version = version, !.entry = entry])
        /\ UNCHANGED <<clusterVars, scopeVars, dirty, closeOuts, sinkVars, faults>>

-----------------------------------------------------------------------------
(***************************************************************************)
(* Handing the job to the sink, and settling it.                           *)
(***************************************************************************)

\* What a Commit closure does to the slot of its key.
Confirmed(cur, j) ==
    CASE j.kind = "upsert" -> CommitIfCurrent(cur, j.version, j.entry)
      [] j.kind = "delete" -> DeleteIfCurrent(cur, j.version)
      [] OTHER -> cur

\* revertVersion, or the release of a delete claim.
Reverted(cur, j) ==
    CASE j.kind = "upsert" /\ Present(j.revert) -> CommitIfCurrent(cur, j.version, j.revert)
      [] j.kind = "upsert" /\ ~Present(j.revert) -> DeleteIfCurrent(cur, j.version)
      [] j.kind = "delete" -> UnclaimDelete(cur, j.version)
      [] OTHER -> cur

EnqueueAccepted(k) ==
    /\ work[k].pc = "enqueue"
    /\ Cardinality(jobs) < InFlight
    /\ jobs' = jobs \cup {work[k].job}
    /\ Finish(k)
    /\ UNCHANGED <<clusterVars, scopeVars, dirty, cache, closeOuts, rows, reissued, clock, faults>>

EnqueueRejected(k) ==
    /\ work[k].pc = "enqueue"
    /\ CountFault
    /\ cache' = [cache EXCEPT ![k] = Reverted(@, work[k].job)]
    /\ FinishAndRetry(k)
    /\ UNCHANGED <<clusterVars, scopeVars, closeOuts, sinkVars, clock>>

\* The records built for k that are not settled: accepted by the sink, or in the
\* hands of k's Process call.
Unsettled(k) ==
    {j \in jobs : j.key = k}
        \cup (IF work[k].pc \in {"closeOut", "enqueue"} THEN {work[k].job} ELSE {})

\* The step empties k's slot and leaves a write behind that reserved it before.
EmptiedUnderWrite(k) ==
    /\ Present(cache[k])
    /\ ~Present(cache'[k])
    /\ \E j \in Unsettled(k)' : j.kind # "closeOut"

WriteSucceeds(j) ==
    /\ rows' = rows \cup {RowOf(j)}
    /\ jobs' = jobs \ {j}
    /\ cache' = [cache EXCEPT ![j.key] = Confirmed(@, j)]
    /\ UNCHANGED <<clusterVars, scopeVars, dirty, work, closeOuts, clock, faults>>
    /\ reissued' = (reissued \/ EmptiedUnderWrite(j.key))

\* Mutants: the failed write's key is not queued; its close-out is not kept.
WriteFailsNoRequeue(j) ==
    /\ CountFault
    /\ jobs' = jobs \ {j}
    /\ cache' = [cache EXCEPT ![j.key] = Reverted(@, j)]
    /\ closeOuts' = IF j.kind = "closeOut"
                    THEN [closeOuts EXCEPT ![j.key] = @ \cup {j}]
                    ELSE closeOuts
    /\ UNCHANGED <<clusterVars, scopeVars, dirty, work, rows, reissued, clock>>

WriteFailsForgets(j) ==
    /\ CountFault
    /\ jobs' = jobs \ {j}
    /\ cache' = [cache EXCEPT ![j.key] = Reverted(@, j)]
    /\ dirty' = dirty \cup {j.key}
    /\ UNCHANGED <<clusterVars, scopeVars, work, closeOuts, rows, reissued, clock>>

\* Commit(false).  The row may be durable all the same: its acknowledgement was
\* lost.
WriteFails(j) ==
    /\ CountFault
    /\ rows' \in {rows} \cup (IF LostAcks THEN {rows \cup {RowOf(j)}} ELSE {})
    /\ jobs' = jobs \ {j}
    /\ cache' = [cache EXCEPT ![j.key] = Reverted(@, j)]
    /\ closeOuts' = IF j.kind = "closeOut"
                    THEN [closeOuts EXCEPT ![j.key] = @ \cup {j}]
                    ELSE closeOuts
    /\ dirty' = dirty \cup {j.key}
    /\ UNCHANGED <<clusterVars, scopeVars, work, clock, reissued>>

-----------------------------------------------------------------------------
Cluster(k) == CreateObject(k) \/ UpdateObject(k) \/ RemoveObject(k)

\* One step of the Process call for k.
Process(k) ==
    \/ DropStopped(k) \/ ForgetEphemeral(k) \/ BeginProcess(k)
    \/ SinkUnavailable(k) \/ RetryPendingCloseOuts(k)
    \/ DeleteRefused(k) \/ ClaimDelete(k)
    \/ UpsertPostponed(k) \/ LoadMiss(k) \/ LoadDuplicate(k) \/ LoadChanged(k)
    \/ LoadReincarnated(k) \/ ClaimOldIncarnation(k) \/ OldIncarnationRefused(k)
    \/ EnqueueCloseOut(k) \/ ReserveVersion(k)
    \/ EnqueueAccepted(k) \/ EnqueueRejected(k)

Settle(j) == WriteSucceeds(j) \/ WriteFails(j)

Next ==
    \/ \E k \in Keys : Cluster(k) \/ ListObject(k) \/ Process(k)
    \/ \E j \in jobs : Settle(j)
    \/ DeregisterScope \/ EvictScope \/ RestartScope \/ MarkScopeWarm

Spec == Init /\ [][Next]_vars

(***************************************************************************)
(* The informer lists, the workqueue hands out its keys and the sink       *)
(* settles every job (a writer goroutine gives up after its retries); a    *)
(* pool pass that deregistered a scope goes on to evict it.  Nothing       *)
(* obliges the cluster to change or a rule to stop a scope.                *)
(***************************************************************************)
Fairness ==
    /\ \A k \in Keys : WF_vars(ListObject(k)) /\ WF_vars(Process(k))
    /\ WF_vars(\E j \in jobs : Settle(j))
    /\ WF_vars(EvictScope)

FairSpec == Spec /\ Fairness

-----------------------------------------------------------------------------
(***************************************************************************)
(* Properties.                                                             *)
(***************************************************************************)

\* The Deleted records on their way to the sink.
HeldByWorkers == {work[k].job : k \in {x \in Keys : work[x].job.type = "Deleted"}}

DeletedInHand == HeldByWorkers \cup (UNION {closeOuts[k] : k \in Keys})
                    \cup {j \in jobs : j.type = "Deleted"}

\* A Deleted record, claimed, in flight or durable, never names the object that
\* exists now: "we stopped watching", a late acknowledgement or a recreation
\* under the same name never turn a living object into a deleted one
\* (emitDelete and the UID-gated claims of processUpsert).
NoFalseDelete ==
    /\ \A d \in DeletedInHand : d.uid # live[d.key].uid
    /\ \A r \in rows : r.type = "Deleted" => r.uid # live[r.key].uid

\* The job whose settlement will release k's delete claim.
DeleteJobCurrent(k, j) ==
    j.kind = "delete" /\ j.key = k /\ j.version = cache[k].version

ClaimOwned(k) ==
    cache[k].pending =>
        \/ \E j \in jobs : DeleteJobCurrent(k, j)
        \/ work[k].pc = "enqueue" /\ DeleteJobCurrent(k, work[k].job)
        \/ work[k].pc \in {"closeOut", "reserve"}

\* A claimed entry always has a claimant that will settle it: a Deleted job in
\* flight or about to be enqueued under the claim's version, or a worker about
\* to reserve over it.  An ownerless claim would refuse every later ReserveDelete
\* and the object's deletion could never be recorded.
ClaimHasOwner == \A k \in Keys : ClaimOwned(k)

DeathPursued(k) ==
    \/ k \in dirty
    \/ work[k].pc # "idle"
    \/ \E j \in jobs : DeleteJobCurrent(k, j)

\* While the cache still holds an object that is gone, something is left that
\* will act on it: the key is queued or being processed, or its Deleted row is in
\* flight.  Process returns as soon as a write is enqueued, so nothing else
\* brings the key back.
DeletionOwed ==
    \A k \in Keys : Observed(k) /\ live[k].uid = 0 /\ Present(cache[k]) => DeathPursued(k)

\* A remembered close-out always has a work item coming that will retry it
\* (enqueueCloseOut re-adds the key, retryPendingCloseOuts runs first).
CloseOutRetryOwed ==
    \A k \in Keys :
        scope = "active" /\ closeOuts[k] # {} => k \in dirty \/ work[k].pc = "begin"

CloseOutsInHand == {d \in DeletedInHand : d.kind = "closeOut"}

\* A close-out record that has been claimed is held by its worker, by the sink
\* or by the retry queue until it is durable, whatever fails on the way.
CloseOutKept ==
    [][\A d \in CloseOutsInHand : d \in CloseOutsInHand' \/ RowOf(d) \in rows']_vars

\* No work item, Process call or job is left for k.
Quiet(k) ==
    /\ k \notin dirty
    /\ work[k].pc = "idle"
    /\ \A j \in jobs : j.key # k

RowsOf(k) == {r \in rows : r.key = k}

LatestRow(k, r) == r \in RowsOf(k) /\ \A x \in RowsOf(k) : x.ts <= r.ts

\* Once a key is quiet the sink's latest row for it is the state the object has
\* now: nothing unwritten was taken for written and skipped as a duplicate
\* (processUpsert: "so a lost write can never be mistaken for a confirmed one").
RecordedWhenQuiet ==
    \A k \in Keys \ EphemeralKeys : Observed(k) /\ Quiet(k) =>
        IF live[k].uid = 0
        THEN \A r \in rows : LatestRow(k, r) => r.type = "Deleted"
        ELSE \E r \in rows : LatestRow(k, r) /\ r.uid = live[k].uid /\ r.hash = live[k].hash

\* The Commit of a write leaves the slot alone once a newer write has reserved it
\* (hashcache.go: "an out-of-order (but stale) commit can never clobber a newer
\* entry").  TLC refutes this with two writes and a removal; no run checks it.
LateAckNeverClobbers ==
    [][\A j \in jobs \ jobs' :
          cache[j.key].stamp > j.ts => cache'[j.key] = cache[j.key]]_vars

\* A recorded object that is gone is recorded as deleted, or the pipeline still
\* holds what it needs to do so (emitDelete: "so a crash or write failure can't
\* silently drop this object from history").  TLC refutes this with one failed
\* write; no run checks it.
DeathNotForgotten ==
    \A r \in rows : r.type # "Deleted" /\ r.key \notin EphemeralKeys /\ Observed(r.key) =>
        \/ r.uid = live[r.key].uid
        \/ r.uid = cache[r.key].uid
        \/ \E d \in DeletedInHand : d.uid = r.uid
        \/ \E d \in rows : d.type = "Deleted" /\ d.uid = r.uid

\* An Event never gets a Deleted row (ephemeralKind): its absence is TTL expiry.
EventsNeverDeleted == \A d \in DeletedInHand \cup rows :
                          d.key \in EphemeralKeys => d.type # "Deleted"

\* Retries end: every work item settles once the cluster and the sink calm down.
Drains == <>[](\A k \in Keys : Quiet(k))

\* While the scope is watched, an object that stays gone leaves the cache, which
\* only a durable Deleted row (or a write that never landed) achieves.
GoneIsSettled ==
    [](scope = "active") => \A k \in Keys : <>[](live[k].uid = 0 => ~Present(cache[k]))

\* While the scope is watched, every close-out reaches the sink.
CloseOutsReachSink == [](scope = "active") => <>[](CloseOutsInHand = {})

-----------------------------------------------------------------------------
(***************************************************************************)
(* The inductive invariant behind NoFalseDelete, ClaimHasOwner and         *)
(* DeletionOwed.  It holds as long as a stopped scope is not watched again *)
(* (MaxPasses <= 1).                                                       *)
(***************************************************************************)

\* What a job may contain, whoever holds it.
JobSound(j) ==
    IF j.kind = "upsert"
    THEN /\ j.type # "Deleted"
         /\ j.entry.uid > 0 /\ ~j.entry.pending
         /\ ~j.revert.pending /\ (Present(j.revert) => j.revert.uid > 0)
    ELSE j.type = "Deleted" /\ j.uid > 0

JobsSound ==
    /\ \A j \in jobs : JobSound(j) /\ (j.kind # "closeOut" => j.version > 0)
    /\ \A k \in Keys : \A j \in closeOuts[k] :
          j.key = k /\ j.kind = "closeOut" /\ JobSound(j)

\* What a Process call has in hand at each of its positions.
WorkSound(k) ==
    LET w == work[k] IN
    /\ w.job.key = k
    /\ w.pc = "idle" => w.obj.uid = 0
    /\ w.pc \in {"idle", "begin", "act", "claimOld"} => w.job.type # "Deleted"
    /\ w.pc = "claimOld" => 0 < w.job.uid /\ w.job.uid < w.obj.uid
    /\ w.pc = "closeOut" => w.job.kind = "closeOut" /\ w.obj.uid > 0
    /\ w.pc = "reserve" => w.job.kind = "upsert" /\ w.obj.uid > 0
    /\ w.pc \in {"closeOut", "reserve", "enqueue"} => JobSound(w.job)
    /\ w.pc = "enqueue" =>
          /\ w.job.version > 0
          /\ w.job.kind # "closeOut"
          /\ w.job.kind = "upsert" => w.obj.uid > 0
          /\ w.job.kind = "delete" /\ Present(cache[k]) => cache[k].version = w.job.version

\* No UID the pipeline could put into k's cache slot exceeds b: the one there,
\* the one just read, and those the pending Commit closures hold.
SlotsBelow(k, b) ==
    /\ cache[k].uid <= b
    /\ work[k].obj.uid <= b
    /\ work[k].job.entry.uid <= b /\ work[k].job.revert.uid <= b
    /\ \A j \in jobs : j.key = k => j.entry.uid <= b /\ j.revert.uid <= b
    /\ \A j \in closeOuts[k] : j.entry.uid <= b /\ j.revert.uid <= b

\* UIDs are issued in order and Process runs one call per key, so whatever the
\* pipeline remembers of a key is no newer than what it last read.
ReadInOrder ==
    \A k \in Keys :
        /\ live[k].uid <= changes
        /\ SlotsBelow(k, changes)
        /\ live[k].uid > 0 => SlotsBelow(k, live[k].uid)
        /\ work[k].obj.uid > 0 => SlotsBelow(k, work[k].obj.uid)
        /\ work[k].pc # "idle" /\ work[k].obj.uid = 0 /\ live[k].uid > 0
              => SlotsBelow(k, live[k].uid - 1)
        /\ scope = "active" /\ k \notin listed => SlotsBelow(k, 0)

\* The object with this UID existed under k and no longer does.
Buried(k, uid) == 0 < uid /\ uid <= changes /\ (live[k].uid > 0 => uid < live[k].uid)

\* What k's cache slot and Process call say of a deletion.
SlotSound(k) ==
    /\ work[k].job.type = "Deleted" => Buried(k, work[k].job.uid)
    /\ Present(cache[k]) => cache[k].uid > 0
    /\ cache[k].pending => Buried(k, cache[k].uid)
    /\ cache[k].pending /\ work[k].obj.uid > 0 => cache[k].uid < work[k].obj.uid

OnlyDeadBuried ==
    /\ \A j \in jobs : j.type = "Deleted" => Buried(j.key, j.uid)
    /\ \A r \in rows : r.type = "Deleted" => Buried(r.key, r.uid)
    /\ \A k \in Keys : \A j \in closeOuts[k] : Buried(k, j.uid)

\* A Process call that works on an incarnation which is no longer the current
\* one has its key queued again.
StaleIsDirty ==
    \A k \in Keys :
        work[k].pc # "idle" /\ Observed(k) /\ work[k].obj.uid # live[k].uid => k \in dirty

StoppedForGood == scope # "active" => passes > 0

IndInv ==
    /\ TypeOK /\ JobsSound /\ ReadInOrder /\ OnlyDeadBuried /\ StaleIsDirty
    /\ \A k \in Keys : WorkSound(k) /\ SlotSound(k)
    /\ StoppedForGood /\ ClaimHasOwner /\ DeletionOwed
=============================================================================
