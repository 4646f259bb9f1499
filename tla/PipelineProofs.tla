--------------------------- MODULE PipelineProofs ---------------------------
(***************************************************************************)
(* Type correctness of the pipeline, for every value of its constants;     *)
(* what its operations do to the fields the safety proofs speak about; and *)
(* the way of the records of deletions (RecordsSound), from which follow   *)
(* that Events get none, that no claimed close-out is dropped and that a   *)
(* remembered one is retried.  The last part is what every step of a       *)
(* Process call has in common (ProcessEffects).                            *)
(***************************************************************************)
EXTENDS Pipeline, TLAPS

\* The prover of a leaf that names none; SMT is named where arithmetic is needed.
USE ZenonT(60)

-----------------------------------------------------------------------------
\* What the operations on one cache slot return.
LEMMA AbsentType == Absent \in CacheEntry /\ ~Present(Absent) /\ ~Absent.pending
  BY SMTT(60) DEF Absent, CacheEntry, Present

\* Every cache operation returns an entry.
LEMMA SlotOperationTypes ==
    ASSUME NEW cur \in CacheEntry, NEW e \in CacheEntry, NEW v \in Nat
    PROVE  /\ Reserve(cur, e) \in CacheEntry
           /\ ReservedVersion(cur) \in Nat
           /\ CommitIfCurrent(cur, v, e) \in CacheEntry
           /\ DeleteIfCurrent(cur, v) \in CacheEntry
           /\ ReserveDelete(cur) \in CacheEntry
           /\ UnclaimDelete(cur, v) \in CacheEntry
  <1>1. Reserve(cur, e) \in CacheEntry /\ ReservedVersion(cur) \in Nat
    BY SMTT(60) DEF CacheEntry, Reserve, ReservedVersion
  <1>2. CommitIfCurrent(cur, v, e) \in CacheEntry
    BY DEF CacheEntry, CommitIfCurrent
  <1>3. DeleteIfCurrent(cur, v) \in CacheEntry
    BY AbsentType DEF DeleteIfCurrent
  <1>4. ReserveDelete(cur) \in CacheEntry
    <2> DEFINE raised == [cur EXCEPT !.version = cur.version + 1]
    <2>1. raised \in CacheEntry
      BY SMTT(60) DEF CacheEntry
    <2>2. [raised EXCEPT !.pending = TRUE] \in CacheEntry
      BY <2>1 DEF CacheEntry
    <2>3. ReserveDelete(cur) = [raised EXCEPT !.pending = TRUE]
      BY DEF ReserveDelete
    <2>4. QED
      BY <2>2, <2>3
  <1>5. UnclaimDelete(cur, v) \in CacheEntry
    BY DEF CacheEntry, UnclaimDelete
  <1>6. QED
    BY <1>1, <1>2, <1>3, <1>4, <1>5

\* Jobs are well typed however they are built.
LEMMA UpsertJobType ==
    ASSUME NEW k \in Keys, NEW type \in EventTypes, NEW obj \in Object, NEW base \in Nat,
           NEW full \in BOOLEAN, NEW run \in Nat, NEW revert \in CacheEntry
    PROVE  UpsertJob(k, type, obj, base, full, run, revert) \in Job
  BY DEF UpsertJob, Job, Object, CacheEntry

\* An indexer miss is an object without a UID.
LEMMA NoObjectType == NoObject \in Object
  BY DEF NoObject, Object

\* The jobs built without a cached entry are well typed.
LEMMA SimpleJobTypes ==
    ASSUME NEW k \in Keys, NEW obj \in Object
    PROVE  NoJob(k) \in Job /\ AddedJob(k, obj) \in Job
  BY UpsertJobType, NoObjectType, AbsentType DEF NoJob, AddedJob, EventTypes

\* So is the job for a changed object.
LEMMA ChangedJobType ==
    ASSUME NEW k \in Keys, NEW entry \in CacheEntry, NEW obj \in Object, NEW diff \in Diffs
    PROVE  ChangedJob(k, entry, obj, diff) \in Job
  <1>1. entry.hash \in Nat /\ entry.run + 1 \in Nat /\ entry.json \in BOOLEAN
    BY SMTT(60) DEF CacheEntry
  <1>2. UpsertJob(k, "Modified", obj, 0, TRUE, 0, entry) \in Job
    BY UpsertJobType DEF EventTypes
  <1>3. UpsertJob(k, "Checkpoint", obj, entry.hash, TRUE, 0, entry) \in Job
    BY <1>1, UpsertJobType DEF EventTypes
  <1>4. UpsertJob(k, "Modified", obj, entry.hash, FALSE, entry.run + 1, entry) \in Job
    BY <1>1, UpsertJobType DEF EventTypes
  <1>5. QED
    BY <1>2, <1>3, <1>4 DEF ChangedJob

\* So is the job that records a death.
LEMMA DeletedJobType ==
    ASSUME NEW k \in Keys, NEW kind \in {"delete", "closeOut"}, NEW uid \in Nat,
           NEW version \in Nat, clock \in Nat
    PROVE  DeletedJob(kind, k, uid, version) \in Job
  BY AbsentType, SMTT(60) DEF DeletedJob, Job, EventTypes

\* A job's record is a row of the sink.
LEMMA RowOfType == ASSUME NEW j \in Job PROVE RowOf(j) \in Row
  BY DEF RowOf, Job, Row

\* Settling a job leaves an entry in the slot.
LEMMA SettledSlotTypes ==
    ASSUME NEW cur \in CacheEntry, NEW j \in Job
    PROVE  Confirmed(cur, j) \in CacheEntry /\ Reverted(cur, j) \in CacheEntry
  <1>1. j.version \in Nat /\ j.entry \in CacheEntry /\ j.revert \in CacheEntry
    BY DEF Job
  <1>2. /\ CommitIfCurrent(cur, j.version, j.entry) \in CacheEntry
        /\ CommitIfCurrent(cur, j.version, j.revert) \in CacheEntry
        /\ DeleteIfCurrent(cur, j.version) \in CacheEntry
        /\ UnclaimDelete(cur, j.version) \in CacheEntry
    BY <1>1, SlotOperationTypes
  <1>3. QED
    BY <1>2 DEF Confirmed, Reverted

\* An idle call is well typed.
LEMMA IdleType == ASSUME NEW k \in Keys PROVE Idle(k) \in [pc: Positions, obj: Object, job: Job]
  BY NoObjectType, SimpleJobTypes DEF Idle, Positions

-----------------------------------------------------------------------------
\* Type correctness.
LEMMA IndexedType == ASSUME TypeOK, NEW k \in Keys PROVE Indexed(k) \in Object
  BY NoObjectType DEF TypeOK, Indexed

\* The empty pipeline is well typed.
LEMMA InitType == Init => TypeOK
  <1> SUFFICES ASSUME Init PROVE TypeOK
    OBVIOUS
  <1>1. work \in [Keys -> [pc: Positions, obj: Object, job: Job]]
    BY IdleType DEF Init
  <1>2. live \in [Keys -> Object] /\ cache \in [Keys -> CacheEntry]
    BY AbsentType, NoObjectType DEF Init
  <1>3. QED
    BY <1>1, <1>2 DEF Init, TypeOK

\* A step that only moves k's Process call is well typed when the new position is.
LEMMA AtType ==
    ASSUME TypeOK, NEW k \in Keys, NEW pc \in Positions, NEW obj \in Object, NEW job \in Job,
           At(k, pc, obj, job)
    PROVE  work' \in [Keys -> [pc: Positions, obj: Object, job: Job]]
  BY DEF At, TypeOK

\* Finishing a call keeps the calls well typed.
LEMMA FinishType ==
    ASSUME TypeOK, NEW k \in Keys, Finish(k)
    PROVE  work' \in [Keys -> [pc: Positions, obj: Object, job: Job]]
  BY IdleType DEF Finish, TypeOK

\* What TypeOK says of one key's slot and call.
LEMMA LocalsType ==
    ASSUME TypeOK, NEW k \in Keys
    PROVE  /\ work[k].obj \in Object
           /\ work[k].job \in Job
           /\ work[k].job.uid \in Nat
           /\ cache[k] \in CacheEntry
           /\ cache[k].uid \in Nat
           /\ cache[k].version \in Nat
           /\ live[k] \in Object
  <1>1. work[k].obj \in Object /\ work[k].job \in Job /\ cache[k] \in CacheEntry /\ live[k] \in Object
    BY DEF TypeOK
  <1>2. QED
    BY <1>1 DEF Job, CacheEntry

\* A change in the cluster preserves the types.
LEMMA ClusterType == ASSUME TypeOK, NEW k \in Keys, Cluster(k) PROVE TypeOK'
  <1> DEFINE hashes == \A h \in Hash : h \in Nat
  <1>h. hashes
    BY ConstantsAssumption, SMTT(60) DEF Hash
  <1>0. ASSUME NEW obj \in Object, ChangeObject(k, obj) PROVE TypeOK'
    BY <1>0, SMTT(60) DEF TypeOK, ChangeObject, Notify, scopeVars, sinkVars
  <1>1. CASE CreateObject(k)
    <2>1. PICK h \in Hash : ChangeObject(k, [uid |-> changes + 1, hash |-> h])
      BY <1>1 DEF CreateObject
    <2>2. [uid |-> changes + 1, hash |-> h] \in Object
      BY <1>h, SMTT(60) DEF TypeOK, Object
    <2>3. QED
      BY <1>0, <2>1, <2>2
  <1>2. CASE UpdateObject(k)
    <2>1. PICK h \in Hash : ChangeObject(k, [live[k] EXCEPT !.hash = h])
      BY <1>2 DEF UpdateObject
    <2>2. [live[k] EXCEPT !.hash = h] \in Object
      BY <1>h, SMTT(60) DEF TypeOK, Object
    <2>3. QED
      BY <1>0, <2>1, <2>2
  <1>3. CASE RemoveObject(k)
    BY <1>0, <1>3, NoObjectType DEF RemoveObject
  <1>4. QED
    BY <1>1, <1>2, <1>3 DEF Cluster

\* The watch manager's passes preserve the types.
LEMMA ScopeType ==
    ASSUME TypeOK, DeregisterScope \/ EvictScope \/ RestartScope \/ MarkScopeWarm PROVE TypeOK'
  <1>1. CASE DeregisterScope
    BY <1>1, SMTT(60) DEF TypeOK, DeregisterScope, clusterVars, sinkVars
  <1>2. CASE EvictScope
    BY <1>2, AbsentType DEF TypeOK, EvictScope, sinkVars
  <1>3. CASE RestartScope
    BY <1>3, SMTT(60) DEF TypeOK, RestartScope, clusterVars, sinkVars
  <1>4. CASE MarkScopeWarm
    BY <1>4 DEF TypeOK, MarkScopeWarm, clusterVars, sinkVars
  <1>5. QED
    BY <1>1, <1>2, <1>3, <1>4

\* Every step of Process preserves the types.
LEMMA ProcessType == ASSUME TypeOK, NEW k \in Keys, Process(k) PROVE TypeOK'
  <1>1. CASE DropStopped(k)
    BY <1>1 DEF TypeOK, DropStopped, clusterVars, scopeVars, sinkVars
  <1>2. CASE ForgetEphemeral(k)
    <2>1. /\ ReserveDelete(cache[k]) \in CacheEntry
          /\ ReserveDelete(cache[k]).version \in Nat
      BY LocalsType, SlotOperationTypes DEF CacheEntry
    <2>2. DeleteIfCurrent(ReserveDelete(cache[k]), ReserveDelete(cache[k]).version) \in CacheEntry
      BY <2>1, SlotOperationTypes
    <2>3. cache' \in [Keys -> CacheEntry]
      BY <1>2, <2>2 DEF TypeOK, ForgetEphemeral
    <2>4. QED
      BY <1>2, <2>3 DEF TypeOK, ForgetEphemeral, clusterVars, scopeVars, sinkVars
  <1>3. CASE BeginProcess(k)
    <2>1. work' \in [Keys -> [pc: Positions, obj: Object, job: Job]]
      BY <1>3, IndexedType, SimpleJobTypes, NoObjectType, AtType DEF BeginProcess, Positions
    <2>2. QED
      BY <1>3, <2>1 DEF TypeOK, BeginProcess, clusterVars, scopeVars, sinkVars
  <1>4. CASE SinkUnavailable(k)
    BY <1>4, FinishType, SMTT(60) DEF TypeOK, SinkUnavailable, FinishAndRetry, CountFault, clusterVars,
       scopeVars, sinkVars
  <1>5. CASE RetryPendingCloseOuts(k)
    <2>1. work' \in [Keys -> [pc: Positions, obj: Object, job: Job]]
      BY <1>5, LocalsType, AtType DEF RetryPendingCloseOuts, Positions
    <2>2. PICK accepted \in SUBSET closeOuts[k] :
            /\ jobs' = jobs \cup accepted
            /\ closeOuts' = [closeOuts EXCEPT ![k] = @ \ accepted]
            /\ \/ UNCHANGED <<dirty, faults>>
               \/ CountFault /\ dirty' = dirty \cup {k}
      BY <1>5 DEF RetryPendingCloseOuts
    <2>3. jobs' \subseteq Job /\ closeOuts' \in [Keys -> SUBSET Job]
      BY <2>2 DEF TypeOK
    <2>4. dirty' \subseteq Keys /\ faults' \in Nat
      BY <2>2, SMTT(60) DEF TypeOK, CountFault
    <2>5. QED
      BY <1>5, <2>1, <2>3, <2>4 DEF TypeOK, RetryPendingCloseOuts, clusterVars, scopeVars
  <1>6. CASE DeleteRefused(k)
    BY <1>6, FinishType DEF TypeOK, DeleteRefused, clusterVars, scopeVars, sinkVars
  <1>7. CASE ClaimDelete(k)
    <2>1. ReserveDelete(cache[k]) \in CacheEntry /\ ReserveDelete(cache[k]).version \in Nat
      BY LocalsType, SlotOperationTypes DEF CacheEntry
    <2>2. DeletedJob("delete", k, cache[k].uid, ReserveDelete(cache[k]).version) \in Job
      BY <2>1, LocalsType, DeletedJobType DEF TypeOK
    <2>3. work' \in [Keys -> [pc: Positions, obj: Object, job: Job]]
      BY <1>7, <2>2, LocalsType, AtType DEF ClaimDelete, Positions
    <2>4. cache' \in [Keys -> CacheEntry] /\ clock' \in Nat
      BY <1>7, <2>1, SMTT(60) DEF TypeOK, ClaimDelete
    <2>5. QED
      BY <1>7, <2>3, <2>4 DEF TypeOK, ClaimDelete, clusterVars, scopeVars, sinkVars
  <1>8. CASE UpsertPostponed(k)
    BY <1>8, FinishType, SMTT(60) DEF TypeOK, UpsertPostponed, FinishAndRetry, CountFault, clusterVars,
       scopeVars, sinkVars
  <1>9. CASE LoadMiss(k)
    <2> DEFINE type == IF k \notin EphemeralKeys /\ ~warm THEN "Snapshot" ELSE "Added"
    <2>1. type \in EventTypes
      BY DEF EventTypes
    <2>2. UpsertJob(k, type, work[k].obj, 0, TRUE, 0, Absent) \in Job
      BY <2>1, LocalsType, AbsentType, UpsertJobType
    <2>3. work' \in [Keys -> [pc: Positions, obj: Object, job: Job]]
      BY <1>9, <2>2, LocalsType, AtType DEF LoadMiss, Positions
    <2>4. QED
      BY <1>9, <2>3 DEF TypeOK, LoadMiss, clusterVars, scopeVars, sinkVars
  <1>10. CASE LoadDuplicate(k)
    BY <1>10, FinishType DEF TypeOK, LoadDuplicate, clusterVars, scopeVars, sinkVars
  <1>11. CASE LoadChanged(k)
    <2>1. PICK diff \in Diffs :
            At(k, "reserve", work[k].obj, ChangedJob(k, cache[k], work[k].obj, diff))
      BY <1>11 DEF LoadChanged
    <2>2. work' \in [Keys -> [pc: Positions, obj: Object, job: Job]]
      BY <2>1, LocalsType, ChangedJobType, AtType DEF Positions
    <2>3. QED
      BY <1>11, <2>2 DEF TypeOK, LoadChanged, clusterVars, scopeVars, sinkVars
  <1>12. CASE LoadReincarnated(k)
    <2>1. [NoJob(k) EXCEPT !.uid = cache[k].uid] \in Job
      BY LocalsType, SimpleJobTypes, NoObjectType, SMTT(60) DEF Job
    <2>2. work' \in [Keys -> [pc: Positions, obj: Object, job: Job]]
      BY <1>12, <2>1, LocalsType, SimpleJobTypes, AtType DEF LoadReincarnated, Positions
    <2>3. QED
      BY <1>12, <2>2 DEF TypeOK, LoadReincarnated, clusterVars, scopeVars, sinkVars
  <1>13. CASE ClaimOldIncarnation(k)
    <2>1. ReserveDelete(cache[k]) \in CacheEntry
      BY LocalsType, SlotOperationTypes
    <2>2. DeletedJob("closeOut", k, work[k].job.uid, 0) \in Job
      BY LocalsType, DeletedJobType DEF TypeOK
    <2>3. work' \in [Keys -> [pc: Positions, obj: Object, job: Job]]
      BY <1>13, <2>2, LocalsType, AtType DEF ClaimOldIncarnation, Positions
    <2>4. cache' \in [Keys -> CacheEntry] /\ clock' \in Nat
      BY <1>13, <2>1, SMTT(60) DEF TypeOK, ClaimOldIncarnation
    <2>5. QED
      BY <1>13, <2>3, <2>4 DEF TypeOK, ClaimOldIncarnation, clusterVars, scopeVars, sinkVars
  <1>14. CASE OldIncarnationRefused(k)
    <2>1. work' \in [Keys -> [pc: Positions, obj: Object, job: Job]]
      BY <1>14, LocalsType, SimpleJobTypes, AtType DEF OldIncarnationRefused, Positions
    <2>2. QED
      BY <1>14, <2>1 DEF TypeOK, OldIncarnationRefused, clusterVars, scopeVars, sinkVars
  <1>15. CASE EnqueueCloseOut(k)
    <2>1. work' \in [Keys -> [pc: Positions, obj: Object, job: Job]]
      BY <1>15, LocalsType, SimpleJobTypes, AtType DEF EnqueueCloseOut, Positions
    <2>2. jobs' \subseteq Job /\ closeOuts' \in [Keys -> SUBSET Job]
      BY <1>15, LocalsType, SMTT(60) DEF TypeOK, EnqueueCloseOut
    <2>3. dirty' \subseteq Keys /\ faults' \in Nat
      BY <1>15, SMTT(60) DEF TypeOK, EnqueueCloseOut, CountFault
    <2>4. QED
      BY <1>15, <2>1, <2>2, <2>3 DEF TypeOK, EnqueueCloseOut, clusterVars, scopeVars
  <1>16. CASE ReserveVersion(k)
    <2> DEFINE entry == [work[k].job.entry EXCEPT !.stamp = clock + 1]
    <2> DEFINE version == ReservedVersion(cache[k])
    <2> DEFINE stamped == [work[k].job EXCEPT !.ts = clock + 1]
    <2> DEFINE versioned == [stamped EXCEPT !.version = version]
    <2> DEFINE job == [work[k].job EXCEPT !.ts = clock + 1, !.version = version, !.entry = entry]
    <2>1. entry \in CacheEntry
      <3>1. work[k].job.entry \in CacheEntry
        BY LocalsType DEF Job
      <3>2. QED
        BY <3>1, SMTT(60) DEF TypeOK, CacheEntry
    <2>2. Reserve(cache[k], entry) \in CacheEntry /\ version \in Nat
      BY <2>1, LocalsType, SlotOperationTypes
    <2>3. job \in Job
      <3> HIDE DEF entry, version
      <3>0. work[k].job \in Job /\ clock + 1 \in Nat
        BY LocalsType, SMTT(60) DEF TypeOK
      <3>1. stamped \in Job
        BY <3>0 DEF Job
      <3>2. versioned \in Job
        BY <2>2, <3>1 DEF Job
      <3>3. [versioned EXCEPT !.entry = entry] \in Job
        BY <2>1, <3>2 DEF Job
      <3>4. job = [versioned EXCEPT !.entry = entry]
        OBVIOUS
      <3>5. QED
        BY <3>3, <3>4
    <2>4. work' \in [Keys -> [pc: Positions, obj: Object, job: Job]]
      <3> HIDE DEF job
      <3>1. At(k, "enqueue", work[k].obj, job)
        BY <1>16 DEF ReserveVersion, job
      <3>2. QED
        BY <2>3, <3>1, LocalsType, AtType DEF Positions
    <2>5. cache' \in [Keys -> CacheEntry] /\ clock' \in Nat
      BY <1>16, <2>2, SMTT(60) DEF TypeOK, ReserveVersion
    <2>6. QED
      BY <1>16, <2>4, <2>5 DEF TypeOK, ReserveVersion, clusterVars, scopeVars, sinkVars
  <1>17. CASE EnqueueAccepted(k)
    <2>1. work' \in [Keys -> [pc: Positions, obj: Object, job: Job]]
      BY <1>17, FinishType DEF EnqueueAccepted
    <2>2. jobs' \subseteq Job
      BY <1>17, LocalsType DEF TypeOK, EnqueueAccepted
    <2>3. QED
      BY <1>17, <2>1, <2>2 DEF TypeOK, EnqueueAccepted, clusterVars, scopeVars
  <1>18. CASE EnqueueRejected(k)
    <2>1. work' \in [Keys -> [pc: Positions, obj: Object, job: Job]]
      BY <1>18, FinishType DEF EnqueueRejected, FinishAndRetry
    <2>2. cache' \in [Keys -> CacheEntry]
      BY <1>18, LocalsType, SettledSlotTypes DEF TypeOK, EnqueueRejected
    <2>3. QED
      BY <1>18, <2>1, <2>2, SMTT(60) DEF TypeOK, EnqueueRejected, FinishAndRetry, CountFault, clusterVars,
         scopeVars, sinkVars
  <1>19. QED
    BY <1>1, <1>2, <1>3, <1>4, <1>5, <1>6, <1>7, <1>8, <1>9, <1>10, <1>11, <1>12, <1>13, <1>14, <1>15,
       <1>16, <1>17, <1>18 DEF Process

\* Settling a job preserves the types.
LEMMA SettleType == ASSUME TypeOK, NEW j \in jobs, Settle(j) PROVE TypeOK'
  <1>0. j \in Job /\ j.key \in Keys
    BY DEF TypeOK, Job
  <1>1. cache[j.key] \in CacheEntry /\ RowOf(j) \in Row
    BY <1>0, RowOfType DEF TypeOK
  <1>2. CASE WriteSucceeds(j)
    <2>1. cache' \in [Keys -> CacheEntry]
      BY <1>0, <1>1, <1>2, SettledSlotTypes DEF TypeOK, WriteSucceeds
    <2>2. QED
      BY <1>1, <1>2, <2>1 DEF TypeOK, WriteSucceeds, clusterVars, scopeVars
  <1>3. CASE WriteFails(j)
    <2>1. cache' \in [Keys -> CacheEntry]
      BY <1>0, <1>1, <1>3, SettledSlotTypes DEF TypeOK, WriteFails
    <2>2. rows' \subseteq Row
      BY <1>1, <1>3 DEF TypeOK, WriteFails
    <2>3. closeOuts' \in [Keys -> SUBSET Job]
      BY <1>0, <1>3 DEF TypeOK, WriteFails
    <2>4. QED
      BY <1>0, <1>3, <2>1, <2>2, <2>3, SMTT(60) DEF TypeOK, WriteFails, CountFault, clusterVars, scopeVars
  <1>4. QED
    BY <1>2, <1>3 DEF Settle

\* Every step preserves the types.
LEMMA TypeStep == TypeOK /\ [Next]_vars => TypeOK'
  <1> SUFFICES ASSUME TypeOK, [Next]_vars PROVE TypeOK'
    OBVIOUS
  <1>1. ASSUME NEW k \in Keys, Cluster(k) PROVE TypeOK'
    BY <1>1, ClusterType
  <1>2. ASSUME NEW k \in Keys, ListObject(k) PROVE TypeOK'
    BY <1>2 DEF TypeOK, ListObject, scopeVars, sinkVars
  <1>3. ASSUME NEW k \in Keys, Process(k) PROVE TypeOK'
    BY <1>3, ProcessType
  <1>4. ASSUME NEW j \in jobs, Settle(j) PROVE TypeOK'
    BY <1>4, SettleType
  <1>5. CASE UNCHANGED vars
    BY <1>5 DEF TypeOK, vars
  <1>6. QED
    BY <1>1, <1>2, <1>3, <1>4, <1>5, ScopeType DEF Next

\* Every variable keeps its type in every reachable state, for any keys, bounds
\* and fault pattern.
THEOREM TypeCorrect == Spec => []TypeOK
  <1>1. QED
    BY InitType, TypeStep, PTL DEF Spec

-----------------------------------------------------------------------------
\* What the slot operations do to the fields the invariant speaks about.
LEMMA ReserveFields ==
    ASSUME NEW cur \in CacheEntry, NEW e \in CacheEntry
    PROVE  /\ Reserve(cur, e).uid = e.uid
           /\ Reserve(cur, e).pending = e.pending
           /\ Reserve(cur, e).version = ReservedVersion(cur)
           /\ ReservedVersion(cur) > 0
  BY SMTT(60) DEF Reserve, ReservedVersion, CacheEntry

\* A commit that is refused changes nothing; one that applies keeps its version.
LEMMA CommitFields ==
    ASSUME NEW cur \in CacheEntry, NEW e \in CacheEntry, NEW v \in Nat
    PROVE  \/ cur.version # v /\ CommitIfCurrent(cur, v, e) = cur
           \/ /\ cur.version = v
              /\ CommitIfCurrent(cur, v, e).uid = e.uid
              /\ CommitIfCurrent(cur, v, e).pending = e.pending
              /\ CommitIfCurrent(cur, v, e).version = v
  BY DEF CommitIfCurrent, CacheEntry

\* A claim raises the version and sets the pending mark, nothing else.
LEMMA DeleteClaimFields ==
    ASSUME NEW cur \in CacheEntry
    PROVE  /\ ReserveDelete(cur).uid = cur.uid
           /\ ReserveDelete(cur).version = cur.version + 1
           /\ ReserveDelete(cur).pending
  <1> DEFINE raised == [cur EXCEPT !.version = cur.version + 1]
  <1>1. raised \in CacheEntry /\ raised.uid = cur.uid /\ raised.version = cur.version + 1
    BY SMTT(60) DEF CacheEntry
  <1>2. ReserveDelete(cur) = [raised EXCEPT !.pending = TRUE]
    BY DEF ReserveDelete
  <1> HIDE DEF raised
  <1>3. /\ [raised EXCEPT !.pending = TRUE].uid = raised.uid
        /\ [raised EXCEPT !.pending = TRUE].version = raised.version
        /\ [raised EXCEPT !.pending = TRUE].pending
    BY <1>1 DEF CacheEntry
  <1>4. QED
    BY <1>1, <1>2, <1>3

\* Releasing a claim only clears the pending mark, and only at its own version.
LEMMA UnclaimFields ==
    ASSUME NEW cur \in CacheEntry, NEW v \in Nat
    PROVE  /\ UnclaimDelete(cur, v).uid = cur.uid
           /\ UnclaimDelete(cur, v).version = cur.version
           /\ Present(cur) /\ cur.version = v => ~UnclaimDelete(cur, v).pending
           /\ ~(Present(cur) /\ cur.version = v) => UnclaimDelete(cur, v) = cur
  BY DEF UnclaimDelete, CacheEntry

\* Settling or reverting a job only ever removes its key's slot, clears its
\* claim, or replaces what the slot says by what the closure captured.
LEMMA SettledSlotFields ==
    ASSUME NEW cur \in CacheEntry, NEW j \in Job, JobSound(j),
           j.kind # "closeOut" => j.version > 0,
           Present(cur) => cur.uid > 0,
           NEW X \in {Confirmed(cur, j), Reverted(cur, j)}
    PROVE  /\ X \in CacheEntry
           /\ X.uid \in {0, cur.uid, j.entry.uid, j.revert.uid}
           /\ Present(X) => Present(cur) /\ X.uid > 0 /\ X.version = cur.version
           /\ X.pending => cur.pending /\ X = cur
           /\ X.pending /\ j.kind = "delete" => j.version # cur.version
  <1>0. /\ j.version \in Nat /\ j.entry \in CacheEntry /\ j.revert \in CacheEntry
        /\ j.kind \in {"upsert", "delete", "closeOut"}
        /\ cur.version \in Nat
    BY DEF Job, CacheEntry
  <1>1. X \in CacheEntry
    BY SettledSlotTypes
  <1>2. CASE j.kind = "upsert"
    <2>1. /\ j.version > 0 /\ j.entry.uid > 0 /\ ~j.entry.pending
          /\ ~j.revert.pending /\ (Present(j.revert) => j.revert.uid > 0)
      BY <1>2 DEF JobSound
    <2>2. \/ X = CommitIfCurrent(cur, j.version, j.revert) /\ Present(j.revert)
          \/ X = CommitIfCurrent(cur, j.version, j.entry)
          \/ X = DeleteIfCurrent(cur, j.version)
      BY <1>2 DEF Confirmed, Reverted
    <2>3. CASE X = CommitIfCurrent(cur, j.version, j.entry)
      BY <1>0, <1>1, <1>2, <2>1, <2>3, CommitFields, SMTT(60) DEF Present
    <2>4. CASE X = CommitIfCurrent(cur, j.version, j.revert) /\ Present(j.revert)
      BY <1>0, <1>1, <1>2, <2>1, <2>4, CommitFields, SMTT(60) DEF Present
    <2>5. CASE X = DeleteIfCurrent(cur, j.version)
      BY <1>0, <1>1, <1>2, <2>1, <2>5, AbsentType DEF DeleteIfCurrent, Absent, Present
    <2>6. QED
      BY <2>2, <2>3, <2>4, <2>5
  <1>3. CASE j.kind = "delete"
    <2>1. X = DeleteIfCurrent(cur, j.version) \/ X = UnclaimDelete(cur, j.version)
      BY <1>3 DEF Confirmed, Reverted
    <2>2. CASE X = DeleteIfCurrent(cur, j.version)
      BY <1>0, <1>1, <1>3, <2>2, AbsentType DEF DeleteIfCurrent, Absent, Present
    <2>3. CASE X = UnclaimDelete(cur, j.version)
      BY <1>0, <1>1, <1>3, <2>3, UnclaimFields DEF Present
    <2>4. QED
      BY <2>1, <2>2, <2>3
  <1>4. CASE j.kind = "closeOut"
    BY <1>1, <1>4 DEF Confirmed, Reverted
  <1>5. QED
    BY <1>0, <1>2, <1>3, <1>4

\* What the jobs are built from.
LEMMA AddedJobFields ==
    ASSUME NEW k \in Keys, NEW obj
    PROVE  /\ AddedJob(k, obj).kind = "upsert" /\ AddedJob(k, obj).key = k
           /\ AddedJob(k, obj).type = "Added" /\ AddedJob(k, obj).revert = Absent
           /\ AddedJob(k, obj).entry.uid = obj.uid /\ ~AddedJob(k, obj).entry.pending
  BY DEF AddedJob, UpsertJob

\* An idle call holds no Deleted record.
LEMMA NoJobFields ==
    ASSUME NEW k \in Keys
    PROVE  /\ NoJob(k).kind = "upsert" /\ NoJob(k).key = k
           /\ NoJob(k).type = "Added" /\ NoJob(k).revert.uid = 0
           /\ NoJob(k).entry.uid = 0
  BY DEF NoJob, UpsertJob, NoObject, Absent

\* A changed object's job falls back to the entry it was compared with.
LEMMA ChangedJobFields ==
    ASSUME NEW k \in Keys, NEW entry \in CacheEntry, NEW obj \in Object, NEW diff \in Diffs,
           NEW j, j = ChangedJob(k, entry, obj, diff)
    PROVE  /\ j.kind = "upsert" /\ j.key = k /\ j.type # "Deleted" /\ j.revert = entry
           /\ j.entry.uid = obj.uid /\ ~j.entry.pending
  BY DEF ChangedJob, UpsertJob

\* A Deleted job carries the UID it was claimed for.
LEMMA DeletedJobFields ==
    ASSUME NEW kind, NEW k, NEW uid, NEW version, NEW j, j = DeletedJob(kind, k, uid, version)
    PROVE  /\ j.kind = kind /\ j.key = k /\ j.type = "Deleted" /\ j.uid = uid
           /\ j.version = version /\ j.entry.uid = 0 /\ j.revert.uid = 0
  BY DEF DeletedJob, Absent

\* A finished call has read no object.
LEMMA IdleFields ==
    ASSUME NEW k \in Keys
    PROVE  /\ Idle(k).pc = "idle" /\ Idle(k).obj = NoObject /\ Idle(k).obj.uid = 0
           /\ Idle(k).job = NoJob(k)
  BY DEF Idle, NoObject

\* Where a Process call moves to, in the two ways it moves.
LEMMA AtFields ==
    ASSUME TypeOK, NEW k \in Keys, NEW pc, NEW obj, NEW job, At(k, pc, obj, job)
    PROVE  /\ work'[k].pc = pc /\ work'[k].obj = obj /\ work'[k].job = job
           /\ \A q \in Keys \ {k} : work'[q] = work[q]
  BY DEF At, TypeOK

\* Finishing a call touches no other key's call.
LEMMA FinishFields ==
    ASSUME TypeOK, NEW k \in Keys, Finish(k)
    PROVE  /\ work'[k].pc = "idle" /\ work'[k].obj.uid = 0 /\ work'[k].job = NoJob(k)
           /\ \A q \in Keys \ {k} : work'[q] = work[q]
  BY IdleFields DEF Finish, TypeOK

-----------------------------------------------------------------------------
\* What a Process call may hold.
CallSound(k) ==
    LET w == work[k] IN
    /\ w.job.key = k
    /\ w.job.kind = "closeOut" <=> w.pc = "closeOut"
    /\ w.job.kind = "closeOut" => w.job.type = "Deleted"
    /\ k \in EphemeralKeys => /\ w.job.type # "Deleted" /\ w.pc # "claimOld"
                              /\ w.pc # "idle" => w.obj.uid # 0

\* What the retry queue may hold.
KeptSound(k) ==
    \A j \in closeOuts[k] :
        j.key = k /\ j.kind = "closeOut" /\ j.type = "Deleted" /\ k \notin EphemeralKeys

RecordsSound ==
    /\ \A k \in Keys : CallSound(k) /\ KeptSound(k)
    /\ \A j \in jobs : /\ j.kind = "closeOut" => j.type = "Deleted"
                       /\ j.key \in EphemeralKeys => j.type # "Deleted"
    /\ \A r \in rows : r.key \in EphemeralKeys => r.type # "Deleted"

RetryOwed(k) == scope = "active" /\ closeOuts[k] # {} => k \in dirty \/ work[k].pc = "begin"

\* What a step of Process does with the records of deletions.
FrameKept(k) ==
    /\ UNCHANGED <<scope, passes, rows>>
    /\ \A q \in Keys \ {k} : work'[q] = work[q] /\ closeOuts'[q] = closeOuts[q]
    /\ \A q \in Keys \ {k} : q \in dirty => q \in dirty'

RecordsKept(k) ==
    /\ jobs \subseteq jobs'
    /\ \A j \in jobs' : j \in jobs \cup closeOuts[k] \/ j = work[k].job
    /\ \A j \in closeOuts'[k] : j \in closeOuts[k] \/ (j = work[k].job /\ work[k].pc = "closeOut")
    /\ \A j \in closeOuts[k] : j \in closeOuts'[k] \/ j \in jobs'
    /\ work[k].pc = "closeOut" => work[k].job \in jobs' \/ work[k].job \in closeOuts'[k]

RecordsEffect(k) ==
    FrameKept(k) /\ RecordsKept(k) /\ CallSound(k)' /\ (RetryOwed(k) => RetryOwed(k)')

\* A step that hands nothing over.
LEMMA NothingHandedOver ==
    ASSUME TypeOK, NEW k \in Keys, work[k].pc # "closeOut",
           UNCHANGED <<scope, passes, jobs, rows, closeOuts>>,
           \A q \in Keys \ {k} : work'[q] = work[q],
           \A q \in Keys \ {k} : q \in dirty => q \in dirty',
           \/ k \in dirty' \/ work'[k].pc = "begin" \/ scope # "active" \/ closeOuts[k] = {}
           \/ work[k].pc # "begin" /\ (k \in dirty => k \in dirty'),
           CallSound(k)'
    PROVE  RecordsEffect(k)
  BY DEF RecordsEffect, FrameKept, RecordsKept, RetryOwed

\* A call that returns holds nothing.
LEMMA IdleSound ==
    ASSUME TypeOK, NEW k \in Keys, Finish(k)
    PROVE  CallSound(k)' /\ \A q \in Keys \ {k} : work'[q] = work[q]
  BY FinishFields, NoJobFields DEF CallSound

\* A call that goes on.
LEMMA MovedSound ==
    ASSUME TypeOK, NEW k \in Keys, NEW pc, NEW obj, NEW job, At(k, pc, obj, job),
           job.key = k, job.kind = "closeOut" <=> pc = "closeOut",
           job.kind = "closeOut" => job.type = "Deleted",
           k \in EphemeralKeys => job.type # "Deleted" /\ pc # "claimOld" /\ obj.uid # 0
    PROVE  CallSound(k)' /\ \A q \in Keys \ {k} : work'[q] = work[q]
  BY AtFields, SMTT(60) DEF CallSound

\* Every step of Process keeps the records it finds.
LEMMA ProcessKeepsRecords ==
    ASSUME TypeOK, NEW k \in Keys, CallSound(k), KeptSound(k), Process(k)
    PROVE  RecordsEffect(k)
  <1> USE DEF clusterVars, scopeVars, sinkVars
  <1>0. /\ cache[k] \in CacheEntry /\ work[k].job \in Job /\ work[k].job.key = k
        /\ work[k].obj \in Object
    BY LocalsType DEF CallSound
  <1>1. CASE DropStopped(k)
    BY <1>1, NothingHandedOver DEF DropStopped, CallSound
  <1>2. CASE ForgetEphemeral(k)
    <2>1. closeOuts[k] = {}
      BY <1>2 DEF ForgetEphemeral, KeptSound
    <2>2. QED
      BY <1>2, <2>1, NothingHandedOver DEF ForgetEphemeral, CallSound
  <1>3. CASE BeginProcess(k)
    <2>1. CallSound(k)' /\ work'[k].pc = "begin" /\ \A q \in Keys \ {k} : work'[q] = work[q]
      BY <1>3, MovedSound, AtFields, NoJobFields, SMTT(60) DEF BeginProcess
    <2>2. QED
      BY <1>3, <2>1, NothingHandedOver DEF BeginProcess
  <1>4. CASE SinkUnavailable(k)
    BY <1>4, IdleSound, NothingHandedOver DEF SinkUnavailable, FinishAndRetry
  <1>5. CASE RetryPendingCloseOuts(k)
    <2>1. PICK accepted \in SUBSET closeOuts[k] :
            /\ jobs' = jobs \cup accepted
            /\ closeOuts' = [closeOuts EXCEPT ![k] = @ \ accepted]
            /\ IF accepted = closeOuts[k]
               THEN UNCHANGED <<dirty, faults>>
               ELSE CountFault /\ dirty' = dirty \cup {k}
      BY <1>5 DEF RetryPendingCloseOuts
    <2>2. closeOuts'[k] = closeOuts[k] \ accepted /\ \A q \in Keys \ {k} : closeOuts'[q] = closeOuts[q]
      BY <2>1 DEF TypeOK
    <2>3. CallSound(k)' /\ \A q \in Keys \ {k} : work'[q] = work[q]
      BY <1>0, <1>5, MovedSound, SMTT(60) DEF RetryPendingCloseOuts, CallSound
    <2>4. RetryOwed(k)'
      BY <2>1, <2>2 DEF RetryOwed
    <2>5. FrameKept(k)
      BY <1>5, <2>1, <2>2, <2>3 DEF FrameKept, RetryPendingCloseOuts
    <2>6. RecordsKept(k)
      BY <1>5, <2>1, <2>2 DEF RecordsKept, RetryPendingCloseOuts
    <2>7. QED
      BY <2>3, <2>4, <2>5, <2>6 DEF RecordsEffect
  <1>6. CASE DeleteRefused(k)
    BY <1>6, IdleSound, NothingHandedOver DEF DeleteRefused
  <1>7. CASE ClaimDelete(k)
    <2>1. k \notin EphemeralKeys
      BY <1>7 DEF ClaimDelete, CallSound
    <2> DEFINE job == DeletedJob("delete", k, cache[k].uid, ReserveDelete(cache[k]).version)
    <2>2. job.key = k /\ job.kind = "delete"
      BY DeletedJobFields, SMTT(60)
    <2>3. At(k, "enqueue", work[k].obj, job)
      BY <1>7 DEF ClaimDelete
    <2> HIDE DEF job
    <2>4. CallSound(k)' /\ \A q \in Keys \ {k} : work'[q] = work[q]
      BY <2>1, <2>2, <2>3, MovedSound
    <2>5. QED
      BY <1>7, <2>4, NothingHandedOver DEF ClaimDelete
  <1>8. CASE UpsertPostponed(k)
    BY <1>8, IdleSound, NothingHandedOver DEF UpsertPostponed, FinishAndRetry
  <1>9. CASE LoadMiss(k)
    <2> DEFINE type == IF k \notin EphemeralKeys /\ ~warm THEN "Snapshot" ELSE "Added"
    <2> DEFINE job == UpsertJob(k, type, work[k].obj, 0, TRUE, 0, Absent)
    <2>1. job.key = k /\ job.kind = "upsert" /\ job.type # "Deleted"
      BY <1>0 DEF UpsertJob
    <2>2. At(k, "reserve", work[k].obj, job) /\ work[k].obj.uid # 0
      BY <1>9 DEF LoadMiss, Loading
    <2> HIDE DEF job, type
    <2>3. CallSound(k)' /\ \A q \in Keys \ {k} : work'[q] = work[q]
      BY <2>1, <2>2, MovedSound
    <2>4. QED
      BY <1>9, <2>3, NothingHandedOver DEF LoadMiss, Loading
  <1>10. CASE LoadDuplicate(k)
    BY <1>10, IdleSound, NothingHandedOver DEF LoadDuplicate, Loading
  <1>11. CASE LoadChanged(k)
    <2>1. PICK diff \in Diffs :
            At(k, "reserve", work[k].obj, ChangedJob(k, cache[k], work[k].obj, diff))
      BY <1>11 DEF LoadChanged
    <2> DEFINE job == ChangedJob(k, cache[k], work[k].obj, diff)
    <2>2. job.key = k /\ job.kind = "upsert" /\ job.type # "Deleted"
      BY <1>0, ChangedJobFields, SMTT(60)
    <2> HIDE DEF job
    <2>3. CallSound(k)' /\ \A q \in Keys \ {k} : work'[q] = work[q]
      BY <1>11, <2>1, <2>2, MovedSound DEF LoadChanged, Loading, job
    <2>4. QED
      BY <1>11, <2>3, NothingHandedOver DEF LoadChanged, Loading
  <1>12. CASE LoadReincarnated(k)
    <2> DEFINE old == [NoJob(k) EXCEPT !.uid = cache[k].uid]
    <2>1. old.key = k /\ old.kind = "upsert" /\ old.type = "Added"
      <3>1. NoJob(k) \in Job
        BY SimpleJobTypes, NoObjectType
      <3>2. old.key = NoJob(k).key /\ old.kind = NoJob(k).kind /\ old.type = NoJob(k).type
        BY <3>1 DEF Job
      <3>3. QED
        BY <3>2, NoJobFields
    <2>2. \/ At(k, "claimOld", work[k].obj, old) /\ k \notin EphemeralKeys
          \/ At(k, "reserve", work[k].obj, AddedJob(k, work[k].obj))
      BY <1>12 DEF LoadReincarnated
    <2>3. work[k].obj.uid # 0
      BY <1>12 DEF LoadReincarnated, Loading
    <2> HIDE DEF old
    <2>4. CallSound(k)' /\ \A q \in Keys \ {k} : work'[q] = work[q]
      BY <2>1, <2>2, <2>3, MovedSound, AddedJobFields, SMTT(60)
    <2>5. QED
      BY <1>12, <2>4, NothingHandedOver DEF LoadReincarnated, Loading
  <1>13. CASE ClaimOldIncarnation(k)
    <2> DEFINE job == DeletedJob("closeOut", k, work[k].job.uid, 0)
    <2>1. job.key = k /\ job.kind = "closeOut" /\ job.type = "Deleted" /\ k \notin EphemeralKeys
      BY <1>13, DeletedJobFields, SMTT(60) DEF ClaimOldIncarnation, CallSound
    <2>2. At(k, "closeOut", work[k].obj, job)
      BY <1>13 DEF ClaimOldIncarnation
    <2> HIDE DEF job
    <2>3. CallSound(k)' /\ \A q \in Keys \ {k} : work'[q] = work[q]
      BY <2>1, <2>2, MovedSound
    <2>4. QED
      BY <1>13, <2>3, NothingHandedOver DEF ClaimOldIncarnation
  <1>14. CASE OldIncarnationRefused(k)
    <2>1. CallSound(k)' /\ \A q \in Keys \ {k} : work'[q] = work[q]
      BY <1>14, MovedSound, AddedJobFields, SMTT(60) DEF OldIncarnationRefused, CallSound
    <2>2. QED
      BY <1>14, <2>1, NothingHandedOver DEF OldIncarnationRefused
  <1>15. CASE EnqueueCloseOut(k)
    <2>1. CallSound(k)' /\ \A q \in Keys \ {k} : work'[q] = work[q]
      BY <1>15, MovedSound, AddedJobFields, SMTT(60) DEF EnqueueCloseOut, CallSound
    <2>2. /\ work[k].pc = "closeOut" /\ UNCHANGED <<scope, passes, rows>>
          /\ \/ jobs' = jobs \cup {work[k].job} /\ closeOuts' = closeOuts /\ dirty' = dirty
             \/ jobs' = jobs /\ closeOuts' = [closeOuts EXCEPT ![k] = @ \cup {work[k].job}]
                /\ dirty' = dirty \cup {k}
      BY <1>15 DEF EnqueueCloseOut
    <2>3. /\ closeOuts'[k] \in {closeOuts[k], closeOuts[k] \cup {work[k].job}}
          /\ work[k].job \in jobs' \/ work[k].job \in closeOuts'[k]
          /\ closeOuts'[k] = closeOuts[k] \/ k \in dirty'
          /\ \A q \in Keys \ {k} : closeOuts'[q] = closeOuts[q]
      BY <2>2 DEF TypeOK
    <2>4. FrameKept(k)
      BY <2>1, <2>2, <2>3 DEF FrameKept
    <2>5. RecordsKept(k)
      BY <2>2, <2>3 DEF RecordsKept
    <2>6. RetryOwed(k) => RetryOwed(k)'
      BY <2>2, <2>3 DEF RetryOwed
    <2>7. QED
      BY <2>1, <2>4, <2>5, <2>6 DEF RecordsEffect
  <1>16. CASE ReserveVersion(k)
    <2> DEFINE entry == [work[k].job.entry EXCEPT !.stamp = clock + 1]
    <2> DEFINE version == ReservedVersion(cache[k])
    <2> DEFINE job == [work[k].job EXCEPT !.ts = clock + 1, !.version = version, !.entry = entry]
    <2>1. job.key = k /\ job.kind = work[k].job.kind /\ job.type = work[k].job.type
      <3> HIDE DEF entry, version
      <3>1. QED
        BY <1>0 DEF Job
    <2>2. At(k, "enqueue", work[k].obj, job)
      BY <1>16 DEF ReserveVersion
    <2> HIDE DEF job, entry, version
    <2>3. CallSound(k)' /\ \A q \in Keys \ {k} : work'[q] = work[q]
      BY <1>16, <2>1, <2>2, MovedSound DEF CallSound, ReserveVersion
    <2>4. QED
      BY <1>16, <2>3, NothingHandedOver DEF ReserveVersion
  <1>17. CASE EnqueueAccepted(k)
    <2>1. CallSound(k)' /\ \A q \in Keys \ {k} : work'[q] = work[q]
      BY <1>17, IdleSound DEF EnqueueAccepted
    <2>2. QED
      BY <1>17, <2>1 DEF EnqueueAccepted, RecordsEffect, FrameKept, RecordsKept, RetryOwed
  <1>18. CASE EnqueueRejected(k)
    BY <1>18, IdleSound, NothingHandedOver DEF EnqueueRejected, FinishAndRetry
  <1>19. QED
    BY <1>1, <1>2, <1>3, <1>4, <1>5, <1>6, <1>7, <1>8, <1>9, <1>10, <1>11, <1>12, <1>13, <1>14,
       <1>15, <1>16, <1>17, <1>18 DEF Process

-----------------------------------------------------------------------------
\* What a step does to the records of deletions, whoever takes it.
StepKeeps ==
    /\ RecordsSound'
    /\ \A d \in CloseOutsInHand : d \in CloseOutsInHand' \/ RowOf(d) \in rows'
    /\ StoppedForGood /\ CloseOutRetryOwed /\ MaxPasses <= 1 => StoppedForGood' /\ CloseOutRetryOwed'

\* The three places a close-out can be in.
LEMMA InHand ==
    ASSUME RecordsSound, NEW d
    PROVE  d \in CloseOutsInHand <=>
              \/ \E k \in Keys : work[k].pc = "closeOut" /\ d = work[k].job
              \/ \E k \in Keys : d \in closeOuts[k]
              \/ d \in jobs /\ d.kind = "closeOut"
  BY SMTT(60) DEF CloseOutsInHand, DeletedInHand, HeldByWorkers, RecordsSound, CallSound, KeptSound

\* A step of Process.
LEMMA ProcessKeeps ==
    ASSUME TypeOK, RecordsSound, NEW k \in Keys, Process(k)
    PROVE  StepKeeps
  <1>1. RecordsEffect(k)
    BY ProcessKeepsRecords DEF RecordsSound
  <1>2. ASSUME NEW q \in Keys PROVE CallSound(q)' /\ KeptSound(q)'
    <2>1. CASE q = k
      <3>1. CallSound(q)'
        BY <1>1, <2>1 DEF RecordsEffect
      <3>2. KeptSound(q)'
        BY <1>1, <2>1, SMTT(60) DEF RecordsEffect, RecordsKept, RecordsSound, CallSound, KeptSound
      <3>3. QED
        BY <3>1, <3>2
    <2>2. CASE q # k
      BY <1>1, <2>2, SMTT(60) DEF RecordsEffect, FrameKept, RecordsSound, CallSound, KeptSound
    <2>3. QED
      BY <2>1, <2>2
  <1>3. \A j \in jobs' : /\ j.kind = "closeOut" => j.type = "Deleted"
                         /\ j.key \in EphemeralKeys => j.type # "Deleted"
    BY <1>1, SMTT(60) DEF RecordsEffect, RecordsKept, RecordsSound, CallSound, KeptSound
  <1>4. RecordsSound'
    BY <1>1, <1>2, <1>3 DEF RecordsSound, RecordsEffect, FrameKept
  <1>5. ASSUME NEW d \in CloseOutsInHand PROVE d \in CloseOutsInHand'
    <2>1. \/ \E q \in Keys : work'[q].pc = "closeOut" /\ d = work'[q].job
          \/ \E q \in Keys : d \in closeOuts'[q]
          \/ d \in jobs' /\ d.kind = "closeOut"
      <3>1. CASE \E q \in Keys : work[q].pc = "closeOut" /\ d = work[q].job
        <4>1. PICK q \in Keys : work[q].pc = "closeOut" /\ d = work[q].job
          BY <3>1
        <4>2. CASE q = k
          <5>1. d \in jobs' \/ d \in closeOuts'[k]
            BY <1>1, <4>1, <4>2 DEF RecordsEffect, RecordsKept
          <5>2. d.kind = "closeOut"
            BY <4>1 DEF RecordsSound, CallSound
          <5>3. QED
            BY <5>1, <5>2
        <4>3. CASE q # k
          <5>1. work'[q] = work[q]
            BY <1>1, <4>3 DEF RecordsEffect, FrameKept
          <5>2. QED
            BY <4>1, <5>1
        <4>4. QED
          BY <4>2, <4>3
      <3>2. CASE \E q \in Keys : d \in closeOuts[q]
        BY <1>1, <3>2, SMTT(60) DEF RecordsEffect, FrameKept, RecordsKept, RecordsSound, KeptSound
      <3>3. CASE d \in jobs /\ d.kind = "closeOut"
        BY <1>1, <3>3 DEF RecordsEffect, RecordsKept
      <3>4. QED
        BY <1>5, <3>1, <3>2, <3>3, InHand
    <2>2. QED
      BY <1>4, <2>1, SMTT(60) DEF CloseOutsInHand, DeletedInHand, HeldByWorkers, RecordsSound, CallSound, KeptSound
  <1>6. StoppedForGood /\ CloseOutRetryOwed => StoppedForGood' /\ CloseOutRetryOwed'
    <2> SUFFICES ASSUME StoppedForGood, CloseOutRetryOwed PROVE StoppedForGood' /\ CloseOutRetryOwed'
      OBVIOUS
    <2>1. StoppedForGood'
      BY <1>1 DEF StoppedForGood, RecordsEffect, FrameKept
    <2>2. ASSUME NEW q \in Keys PROVE RetryOwed(q)'
      <3>1. RetryOwed(q)
        BY DEF CloseOutRetryOwed, RetryOwed
      <3>2. QED
        BY <1>1, <3>1 DEF RetryOwed, RecordsEffect, FrameKept
    <2>3. QED
      BY <2>1, <2>2 DEF CloseOutRetryOwed, RetryOwed
  <1>7. QED
    BY <1>4, <1>5, <1>6 DEF StepKeeps

\* The sink settles a job.
LEMMA SettleKeeps ==
    ASSUME TypeOK, RecordsSound, NEW j \in jobs, Settle(j)
    PROVE  StepKeeps
  <1> DEFINE q == j.key
  <1>0. j \in Job /\ q \in Keys /\ RowOf(j).key = q /\ RowOf(j).type = j.type
    BY DEF TypeOK, Job, RowOf
  <1>1. /\ work' = work /\ scope' = scope /\ passes' = passes /\ jobs' = jobs \ {j}
        /\ rows' \in {rows, rows \cup {RowOf(j)}} /\ dirty \subseteq dirty'
    BY DEF Settle, WriteSucceeds, WriteFails, clusterVars, scopeVars
  <1>2. /\ \A x \in Keys \ {q} : closeOuts'[x] = closeOuts[x]
        /\ \/ closeOuts'[q] = closeOuts[q] /\ (j.kind = "closeOut" => RowOf(j) \in rows')
           \/ closeOuts'[q] = closeOuts[q] \cup {j} /\ j.kind = "closeOut" /\ q \in dirty'
    BY <1>0, SMTT(60) DEF Settle, WriteSucceeds, WriteFails, TypeOK
  <1> HIDE DEF q
  <1>j. /\ j.kind = "closeOut" => j.type = "Deleted"
        /\ q \in EphemeralKeys => j.type # "Deleted"
    BY DEF RecordsSound, q
  <1>3. RecordsSound'
    <2>1. ASSUME NEW k \in Keys PROVE CallSound(k)' /\ KeptSound(k)'
      BY <1>0, <1>1, <1>2, <1>j, SMTT(60) DEF RecordsSound, CallSound, KeptSound, q
    <2>2. QED
      BY <1>0, <1>1, <1>j, <2>1 DEF RecordsSound
  <1>4. ASSUME NEW d \in CloseOutsInHand PROVE d \in CloseOutsInHand' \/ RowOf(d) \in rows'
    <2>1. \/ RowOf(d) \in rows'
          \/ \E k \in Keys : work'[k].pc = "closeOut" /\ d = work'[k].job
          \/ \E k \in Keys : d \in closeOuts'[k]
          \/ d \in jobs' /\ d.kind = "closeOut"
      BY <1>0, <1>1, <1>2, <1>4, InHand
    <2>2. QED
      BY <1>3, <2>1, SMTT(60) DEF CloseOutsInHand, DeletedInHand, HeldByWorkers, RecordsSound, CallSound, KeptSound
  <1>5. StoppedForGood /\ CloseOutRetryOwed => StoppedForGood' /\ CloseOutRetryOwed'
    BY <1>0, <1>1, <1>2 DEF StoppedForGood, CloseOutRetryOwed
  <1>6. QED
    BY <1>3, <1>4, <1>5 DEF StepKeeps

\* The cluster, the informer and the watch manager leave the records alone.
LEMMA OthersKeep ==
    ASSUME TypeOK, RecordsSound,
           \/ \E k \in Keys : Cluster(k) \/ ListObject(k)
           \/ DeregisterScope \/ EvictScope \/ RestartScope \/ MarkScopeWarm
           \/ UNCHANGED vars
    PROVE  StepKeeps
  <1>1. UNCHANGED <<work, closeOuts, jobs, rows>> /\ dirty \subseteq dirty'
    BY DEF Cluster, CreateObject, UpdateObject, RemoveObject, ChangeObject, Notify, ListObject,
           DeregisterScope, EvictScope, RestartScope, MarkScopeWarm, vars, clusterVars, scopeVars, sinkVars
  <1>2. RecordsSound'
    BY <1>1 DEF RecordsSound, CallSound, KeptSound
  <1>3. CloseOutsInHand' = CloseOutsInHand
    BY <1>1, SMTT(60) DEF CloseOutsInHand, DeletedInHand, HeldByWorkers
  <1>4. StoppedForGood /\ MaxPasses <= 1 => StoppedForGood' /\ (scope' = "active" => scope = "active")
    <2>1. passes \in Nat
      BY DEF TypeOK
    <2>2. CASE DeregisterScope
      BY <2>1, <2>2, SMTT(60) DEF DeregisterScope, StoppedForGood
    <2>3. CASE RestartScope
      BY <2>1, <2>3, ConstantsAssumption, SMTT(60) DEF RestartScope, StoppedForGood
    <2>4. CASE EvictScope
      BY <2>4 DEF EvictScope, StoppedForGood
    <2>5. CASE scope' = scope /\ passes' = passes
      BY <2>5 DEF StoppedForGood
    <2>6. QED
      BY <2>2, <2>3, <2>4, <2>5 DEF Cluster, CreateObject, UpdateObject, RemoveObject,
         ChangeObject,
         ListObject, MarkScopeWarm, vars, scopeVars
  <1>5. StoppedForGood /\ CloseOutRetryOwed /\ MaxPasses <= 1 => CloseOutRetryOwed'
    BY <1>1, <1>4 DEF CloseOutRetryOwed
  <1>6. QED
    BY <1>2, <1>3, <1>4, <1>5 DEF StepKeeps

LEMMA NextKeeps == TypeOK /\ RecordsSound /\ [Next]_vars => StepKeeps
  <1> SUFFICES ASSUME TypeOK, RecordsSound, [Next]_vars PROVE StepKeeps
    OBVIOUS
  <1>1. ASSUME NEW k \in Keys, Process(k) PROVE StepKeeps
    BY <1>1, ProcessKeeps
  <1>2. ASSUME NEW j \in jobs, Settle(j) PROVE StepKeeps
    BY <1>2, SettleKeeps
  <1>3. QED
    BY <1>1, <1>2, OthersKeep DEF Next

LEMMA RecordsInit == Init => RecordsSound /\ StoppedForGood /\ CloseOutRetryOwed
  <1> SUFFICES ASSUME Init PROVE RecordsSound /\ StoppedForGood /\ CloseOutRetryOwed
    OBVIOUS
  <1>1. ASSUME NEW k \in Keys
        PROVE  /\ work[k].pc = "idle" /\ work[k].job.key = k /\ work[k].job.kind # "closeOut"
               /\ work[k].job.type # "Deleted" /\ closeOuts[k] = {}
    BY IdleFields, NoJobFields DEF Init
  <1>2. QED
    BY <1>1 DEF Init, RecordsSound, CallSound, KeptSound, StoppedForGood, CloseOutRetryOwed

LEMMA RecordsAlways == Spec => [](TypeOK /\ RecordsSound)
  <1>1. TypeOK /\ RecordsSound /\ [Next]_vars => RecordsSound'
    BY NextKeeps DEF StepKeeps
  <1>2. QED
    BY <1>1, RecordsInit, TypeCorrect, PTL DEF Spec

\* An Event is never recorded as deleted, however often its scope is stopped,
\* evicted and watched again (ephemeralKind, emitDelete, processUpsert).
THEOREM EventsOutliveTheirTTL == Spec => []EventsNeverDeleted
  <1>1. RecordsSound => EventsNeverDeleted
    BY SMTT(60) DEF RecordsSound, CallSound, KeptSound, EventsNeverDeleted, DeletedInHand, HeldByWorkers
  <1>2. QED
    BY <1>1, RecordsAlways, PTL

\* A claimed close-out stays with its worker, the sink or the retry queue until
\* it is durable, whatever fails and however often its scope is stopped, evicted
\* and watched again (enqueueCloseOut, retryPendingCloseOuts, the Revert closure).
THEOREM CloseOutsAreKept == Spec => CloseOutKept
  <1>1. TypeOK /\ RecordsSound /\ [Next]_vars
            => [\A d \in CloseOutsInHand : d \in CloseOutsInHand' \/ RowOf(d) \in rows']_vars
    BY NextKeeps DEF StepKeeps
  <1>2. QED
    BY <1>1, RecordsAlways, PTL DEF Spec, CloseOutKept

\* As long as a stopped scope is not watched again, a remembered close-out has a
\* work item coming that retries it (enqueueCloseOut and the Revert closure
\* re-add the key, retryPendingCloseOuts runs first).
THEOREM CloseOutsAreRetried ==
    ASSUME MaxPasses <= 1
    PROVE  Spec => []CloseOutRetryOwed
  <1>1. /\ TypeOK /\ RecordsSound /\ StoppedForGood /\ CloseOutRetryOwed /\ [Next]_vars
        => StoppedForGood' /\ CloseOutRetryOwed'
    BY NextKeeps DEF StepKeeps
  <1>2. QED
    BY <1>1, RecordsInit, RecordsAlways, PTL DEF Spec

-----------------------------------------------------------------------------
(***************************************************************************)
(* What one step of the Process call for k can do, whichever step it is:   *)
(* other keys keep their slots, k's slots only take values from k's own    *)
(* slots, and only BeginProcess reads the watch cache.                     *)
(***************************************************************************)
FrameEffect(k) ==
    /\ UNCHANGED <<live, listed, changes, scope, warm, passes, rows>>
    /\ \A q \in Keys \ {k} :
          cache'[q] = cache[q] /\ work'[q] = work[q] /\ closeOuts'[q] = closeOuts[q]
    /\ \A q \in Keys \ {k} : q \in dirty' <=> q \in dirty

JobsEffect(k) ==
    /\ jobs \subseteq jobs'
    /\ \A j \in jobs' :
          \/ j \in jobs \cup closeOuts[k]
          \/ j = work[k].job /\ work[k].pc \in {"closeOut", "enqueue"}
    /\ \A j \in closeOuts'[k] :
          \/ j \in closeOuts[k]
          \/ j = work[k].job /\ work[k].pc = "closeOut"

SlotEffect(k) ==
    /\ cache'[k].uid \in {0, cache[k].uid, work[k].job.entry.uid, work[k].job.revert.uid}
    /\ work'[k].job.key = k
    /\ work'[k].job.entry.uid \in {0, work[k].job.entry.uid, work[k].obj.uid}
    /\ work'[k].job.revert.uid \in {0, work[k].job.revert.uid, cache[k].uid}

CallEffect(k) ==
    \/ BeginProcess(k) /\ work'[k].obj = Indexed(k) /\ work[k].pc = "idle"
    \/ work'[k].pc = "idle" /\ work'[k].obj.uid = 0 /\ (k \in dirty /\ work[k].pc # "idle" => k \in dirty')
    \/ work[k].pc # "idle" /\ work'[k].obj = work[k].obj /\ (k \in dirty => k \in dirty')

ProcessEffect(k) == FrameEffect(k) /\ JobsEffect(k) /\ SlotEffect(k) /\ CallEffect(k)

\* Every step of Process has the effect the next lemmas rely on.
LEMMA ProcessEffects ==
    ASSUME TypeOK, NEW k \in Keys, WorkSound(k), SlotSound(k), Process(k)
    PROVE  ProcessEffect(k)
  <1> USE DEF clusterVars, scopeVars, sinkVars
  <1>0. /\ cache[k] \in CacheEntry /\ work[k].job \in Job /\ work[k].job.key = k
        /\ work[k].obj \in Object /\ Absent.uid = 0
        /\ work[k].pc = "idle" => work[k].obj.uid = 0
    BY LocalsType DEF WorkSound, Absent
  <1>f. ASSUME Finish(k),
               UNCHANGED <<live, listed, changes, scope, warm, passes, rows>>,
               \A q \in Keys \ {k} : cache'[q] = cache[q] /\ closeOuts'[q] = closeOuts[q],
               \A q \in Keys \ {k} : q \in dirty' <=> q \in dirty,
               k \in dirty => k \in dirty',
               jobs \subseteq jobs',
               \A j \in jobs' : j \in jobs \/ (j = work[k].job /\ work[k].pc = "enqueue"),
               closeOuts' = closeOuts,
               cache'[k].uid \in {0, cache[k].uid, work[k].job.entry.uid, work[k].job.revert.uid}
        PROVE  ProcessEffect(k)
    <2>1. FrameEffect(k)
      BY <1>f, FinishFields DEF FrameEffect
    <2>2. JobsEffect(k)
      BY <1>f DEF JobsEffect
    <2>3. SlotEffect(k)
      <3>1. work'[k].job = NoJob(k)
        BY <1>f, FinishFields
      <3>2. NoJob(k).key = k /\ NoJob(k).entry.uid = 0 /\ NoJob(k).revert.uid = 0
        BY NoJobFields
      <3>3. QED
        BY <1>f, <3>1, <3>2 DEF SlotEffect
    <2>4. CallEffect(k)
      BY <1>f, FinishFields DEF CallEffect
    <2>5. QED
      BY <2>1, <2>2, <2>3, <2>4 DEF ProcessEffect
  <1>a. ASSUME NEW pc, NEW job, At(k, pc, work[k].obj, job), work[k].pc # "idle",
               UNCHANGED <<live, listed, changes, scope, warm, passes, rows>>,
               \A q \in Keys \ {k} : cache'[q] = cache[q] /\ closeOuts'[q] = closeOuts[q],
               \A q \in Keys \ {k} : q \in dirty' <=> q \in dirty,
               k \in dirty => k \in dirty',
               jobs \subseteq jobs',
               \A j \in jobs' : j \in jobs \cup closeOuts[k]
                                 \/ (j = work[k].job /\ work[k].pc = "closeOut"),
               \A j \in closeOuts'[k] : j \in closeOuts[k]
                                 \/ (j = work[k].job /\ work[k].pc = "closeOut"),
               cache'[k].uid \in {0, cache[k].uid, work[k].job.entry.uid, work[k].job.revert.uid},
               job.key = k,
               job.entry.uid \in {0, work[k].job.entry.uid, work[k].obj.uid},
               job.revert.uid \in {0, work[k].job.revert.uid, cache[k].uid}
        PROVE  ProcessEffect(k)
    <2>0. /\ work'[k].obj = work[k].obj /\ work'[k].job = job
          /\ \A q \in Keys \ {k} : work'[q] = work[q]
      <3>1. At(k, pc, work[k].obj, job)
        BY <1>a
      <3>2. QED
        BY <3>1, AtFields
    <2>1. FrameEffect(k)
      BY <1>a, <2>0 DEF FrameEffect
    <2>2. JobsEffect(k)
      BY <1>a DEF JobsEffect
    <2>3. SlotEffect(k)
      BY <1>a, <2>0 DEF SlotEffect
    <2>4. CallEffect(k)
      BY <1>a, <2>0 DEF CallEffect
    <2>5. QED
      BY <2>1, <2>2, <2>3, <2>4 DEF ProcessEffect
  <1>1. CASE DropStopped(k)
    BY <1>0, <1>1 DEF ProcessEffect, FrameEffect, JobsEffect, SlotEffect, CallEffect, DropStopped
  <1>2. CASE ForgetEphemeral(k)
    <2>1. cache'[k].uid \in {0, cache[k].uid} /\ \A q \in Keys \ {k} : cache'[q] = cache[q]
      BY <1>0, <1>2, DeleteClaimFields DEF ForgetEphemeral, TypeOK, DeleteIfCurrent
    <2>2. QED
      BY <1>0, <1>2, <2>1 DEF ProcessEffect, FrameEffect, JobsEffect, SlotEffect, CallEffect,
         ForgetEphemeral
  <1>3. CASE BeginProcess(k)
    <2>1. At(k, "begin", Indexed(k), NoJob(k)) /\ work[k].pc = "idle"
      BY <1>3 DEF BeginProcess
    <2>2. /\ work'[k].obj = Indexed(k) /\ work'[k].job = NoJob(k)
          /\ \A q \in Keys \ {k} : work'[q] = work[q]
      BY <2>1, AtFields
    <2>3. NoJob(k).key = k /\ NoJob(k).entry.uid = 0 /\ NoJob(k).revert.uid = 0
      BY NoJobFields
    <2>4. FrameEffect(k) /\ JobsEffect(k)
      BY <1>3, <2>2 DEF FrameEffect, JobsEffect, BeginProcess
    <2>5. SlotEffect(k) /\ CallEffect(k)
      BY <1>3, <2>1, <2>2, <2>3 DEF SlotEffect, CallEffect, BeginProcess
    <2>6. QED
      BY <2>4, <2>5 DEF ProcessEffect
  <1>4. CASE SinkUnavailable(k)
    BY <1>4, <1>f DEF SinkUnavailable, FinishAndRetry
  <1>5. CASE RetryPendingCloseOuts(k)
    <2>1. PICK accepted \in SUBSET closeOuts[k] :
            /\ jobs' = jobs \cup accepted
            /\ closeOuts' = [closeOuts EXCEPT ![k] = @ \ accepted]
            /\ \/ UNCHANGED <<dirty, faults>>
               \/ CountFault /\ dirty' = dirty \cup {k}
      BY <1>5 DEF RetryPendingCloseOuts
    <2>2. /\ closeOuts'[k] \subseteq closeOuts[k]
          /\ \A q \in Keys \ {k} : closeOuts'[q] = closeOuts[q]
      BY <2>1 DEF TypeOK
    <2>3. /\ At(k, "act", work[k].obj, work[k].job) /\ work[k].pc # "idle"
          /\ UNCHANGED <<live, listed, changes, scope, warm, passes, rows, cache>>
      BY <1>5 DEF RetryPendingCloseOuts
    <2>4. QED
      BY <1>0, <1>a, <2>1, <2>2, <2>3
  <1>6. CASE DeleteRefused(k)
    BY <1>6, <1>f DEF DeleteRefused
  <1>7. CASE ClaimDelete(k)
    <2> DEFINE job == DeletedJob("delete", k, cache[k].uid, ReserveDelete(cache[k]).version)
    <2>1. job.key = k /\ job.entry.uid = 0 /\ job.revert.uid = 0
      BY DeletedJobFields, SMTT(60)
    <2>2. cache'[k].uid = cache[k].uid /\ \A q \in Keys \ {k} : cache'[q] = cache[q]
      BY <1>0, <1>7, DeleteClaimFields DEF ClaimDelete, TypeOK
    <2>3. At(k, "enqueue", work[k].obj, job)
      BY <1>7 DEF ClaimDelete
    <2> HIDE DEF job
    <2>4. QED
      BY <1>7, <1>a, <2>1, <2>2, <2>3 DEF ClaimDelete
  <1>8. CASE UpsertPostponed(k)
    BY <1>8, <1>f DEF UpsertPostponed, FinishAndRetry
  <1>9. CASE LoadMiss(k)
    <2> DEFINE type == IF k \notin EphemeralKeys /\ ~warm THEN "Snapshot" ELSE "Added"
    <2> DEFINE job == UpsertJob(k, type, work[k].obj, 0, TRUE, 0, Absent)
    <2>1. job.key = k /\ job.entry.uid = work[k].obj.uid /\ job.revert.uid = 0
      BY <1>0 DEF UpsertJob
    <2>2. At(k, "reserve", work[k].obj, job)
      BY <1>9 DEF LoadMiss
    <2> HIDE DEF job, type
    <2>3. QED
      BY <1>9, <1>a, <2>1, <2>2 DEF LoadMiss, Loading
  <1>10. CASE LoadDuplicate(k)
    BY <1>10, <1>f DEF LoadDuplicate
  <1>11. CASE LoadChanged(k)
    <2>1. PICK diff \in Diffs :
            At(k, "reserve", work[k].obj, ChangedJob(k, cache[k], work[k].obj, diff))
      BY <1>11 DEF LoadChanged
    <2> DEFINE job == ChangedJob(k, cache[k], work[k].obj, diff)
    <2>2. job.key = k /\ job.entry.uid = work[k].obj.uid /\ job.revert = cache[k]
      BY <1>0, ChangedJobFields, SMTT(60)
    <2> HIDE DEF job
    <2>3. QED
      BY <1>11, <1>a, <2>1, <2>2 DEF LoadChanged, Loading, job
  <1>12. CASE LoadReincarnated(k)
    <2> DEFINE old == [NoJob(k) EXCEPT !.uid = cache[k].uid]
    <2>1. old.key = k /\ old.entry.uid = 0 /\ old.revert.uid = 0
      <3>1. NoJob(k) \in Job
        BY SimpleJobTypes, NoObjectType
      <3>2. old.key = NoJob(k).key /\ old.entry = NoJob(k).entry /\ old.revert = NoJob(k).revert
        BY <3>1 DEF Job
      <3>3. QED
        BY <3>2, NoJobFields, SMTT(60)
    <2>2. \/ At(k, "claimOld", work[k].obj, old)
          \/ At(k, "reserve", work[k].obj, AddedJob(k, work[k].obj))
      BY <1>12 DEF LoadReincarnated
    <2> HIDE DEF old
    <2>3. CASE At(k, "claimOld", work[k].obj, old)
      BY <1>12, <1>a, <2>1, <2>3 DEF LoadReincarnated, Loading
    <2>4. CASE At(k, "reserve", work[k].obj, AddedJob(k, work[k].obj))
      <3> DEFINE new == AddedJob(k, work[k].obj)
      <3>1. new.key = k /\ new.entry.uid = work[k].obj.uid /\ new.revert.uid = 0
        BY <1>0, AddedJobFields, SMTT(60)
      <3> HIDE DEF new
      <3>2. At(k, "reserve", work[k].obj, new)
        BY <2>4 DEF new
      <3>3. QED
        BY <1>12, <1>a, <3>1, <3>2 DEF LoadReincarnated, Loading
    <2>5. QED
      BY <2>2, <2>3, <2>4
  <1>13. CASE ClaimOldIncarnation(k)
    <2> DEFINE job == DeletedJob("closeOut", k, work[k].job.uid, 0)
    <2>1. job.key = k /\ job.entry.uid = 0 /\ job.revert.uid = 0
      BY DeletedJobFields, SMTT(60)
    <2>2. cache'[k].uid = cache[k].uid /\ \A q \in Keys \ {k} : cache'[q] = cache[q]
      BY <1>0, <1>13, DeleteClaimFields DEF ClaimOldIncarnation, TypeOK
    <2>3. At(k, "closeOut", work[k].obj, job)
      BY <1>13 DEF ClaimOldIncarnation
    <2> HIDE DEF job
    <2>4. QED
      BY <1>13, <1>a, <2>1, <2>2, <2>3 DEF ClaimOldIncarnation
  <1>14. CASE OldIncarnationRefused(k)
    <2>1. /\ AddedJob(k, work[k].obj).key = k /\ AddedJob(k, work[k].obj).entry.uid = work[k].obj.uid
          /\ AddedJob(k, work[k].obj).revert.uid = 0
      BY <1>0, AddedJobFields
    <2>2. QED
      BY <1>14, <1>a, <2>1 DEF OldIncarnationRefused
  <1>15. CASE EnqueueCloseOut(k)
    <2>1. /\ At(k, "reserve", work[k].obj, AddedJob(k, work[k].obj)) /\ work[k].pc # "idle"
          /\ UNCHANGED <<live, listed, changes, scope, warm, passes, rows, cache>>
      BY <1>15 DEF EnqueueCloseOut
    <2>2. /\ jobs \subseteq jobs' /\ jobs' \subseteq jobs \cup {work[k].job}
          /\ closeOuts'[k] \subseteq closeOuts[k] \cup {work[k].job}
          /\ work[k].pc = "closeOut"
          /\ \A q \in Keys \ {k} : closeOuts'[q] = closeOuts[q]
          /\ \A q \in Keys \ {k} : q \in dirty' <=> q \in dirty
          /\ k \in dirty => k \in dirty'
      BY <1>15 DEF EnqueueCloseOut, TypeOK
    <2>3. QED
      <3>1. /\ AddedJob(k, work[k].obj).key = k /\ AddedJob(k, work[k].obj).entry.uid = work[k].obj.uid
            /\ AddedJob(k, work[k].obj).revert.uid = 0
        BY <1>0, AddedJobFields
      <3>2. QED
        BY <1>a, <2>1, <2>2, <3>1
  <1>16. CASE ReserveVersion(k)
    <2> DEFINE entry == [work[k].job.entry EXCEPT !.stamp = clock + 1]
    <2> DEFINE version == ReservedVersion(cache[k])
    <2> DEFINE job == [work[k].job EXCEPT !.ts = clock + 1, !.version = version, !.entry = entry]
    <2>1. entry \in CacheEntry /\ entry.uid = work[k].job.entry.uid
      <3>1. work[k].job.entry \in CacheEntry
        BY <1>0 DEF Job
      <3>2. QED
        BY <3>1, SMTT(60) DEF TypeOK, CacheEntry
    <2>2. job.key = k /\ job.entry = entry /\ job.revert = work[k].job.revert
      <3> HIDE DEF entry, version
      <3>1. QED
        BY <1>0 DEF Job
    <2>3. At(k, "enqueue", work[k].obj, job) /\ cache' = [cache EXCEPT ![k] = Reserve(@, entry)]
      BY <1>16 DEF ReserveVersion
    <2> HIDE DEF job, entry, version
    <2>4. cache'[k].uid = work[k].job.entry.uid /\ \A q \in Keys \ {k} : cache'[q] = cache[q]
      BY <1>0, <2>1, <2>3, ReserveFields DEF TypeOK
    <2>5. QED
      BY <1>16, <1>a, <2>1, <2>2, <2>3, <2>4 DEF ReserveVersion
  <1>17. CASE EnqueueAccepted(k)
    BY <1>17, <1>f DEF EnqueueAccepted
  <1>18. CASE EnqueueRejected(k)
    <2>1. cache'[k].uid \in {0, cache[k].uid, work[k].job.entry.uid, work[k].job.revert.uid}
      <3>1. cache'[k] = Reverted(cache[k], work[k].job)
        BY <1>18 DEF EnqueueRejected, TypeOK
      <3>2. JobSound(work[k].job) /\ work[k].job.version > 0 /\ (Present(cache[k]) => cache[k].uid > 0)
        BY <1>18 DEF EnqueueRejected, WorkSound, SlotSound
      <3>3. QED
        BY <1>0, <3>1, <3>2, SettledSlotFields
    <2>2. \A q \in Keys \ {k} : cache'[q] = cache[q]
      BY <1>18 DEF EnqueueRejected, TypeOK
    <2>3. QED
      BY <1>18, <1>f, <2>1, <2>2 DEF EnqueueRejected, FinishAndRetry
  <1>19. QED
    BY <1>1, <1>2, <1>3, <1>4, <1>5, <1>6, <1>7, <1>8, <1>9, <1>10, <1>11, <1>12, <1>13, <1>14, <1>15,
       <1>16, <1>17, <1>18 DEF Process
=============================================================================
