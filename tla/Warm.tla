-------------------------------- MODULE Warm --------------------------------
(***************************************************************************)
(* Warm-up and zombie collection of a scope, internal/pipeline/warm.go,    *)
(* with the history it reads (clickhouse/statereader.go) and the work      *)
(* items it races with (process.go), for one identity (a namespace and     *)
(* name) whose incarnations are told apart by their UID.                   *)
(*                                                                         *)
(* The process may crash at any step; objects come and go meanwhile.  The  *)
(* history is the table resource_states: a ReplacingMergeTree, which some  *)
(* time after the insertion merges rows of equal sort key into the last    *)
(* one inserted.  For one identity the sort key is the timestamp.  Write   *)
(* failures, the entry's contents and Events scopes, whose run ends where  *)
(* the scope is marked, are the matter of module Pipeline.                 *)
(***************************************************************************)
EXTENDS Naturals, FiniteSets

CONSTANTS
    MaxUID,       \* bound: incarnations of the object
    MaxCrashes,   \* bound: crashes of the process
    MaxTimeouts   \* bound: expiries of closeOutEvidenceTimeout

ASSUME WarmAssumption == MaxUID \in Nat /\ MaxCrashes \in Nat /\ MaxTimeouts \in Nat

VARIABLES
    obj,       \* the UID of the object in the API server, 0 when it is absent
    uids,      \* incarnations so far
    rows,      \* the history in the sink
    inserted,  \* insertions so far
    clock,     \* the last timestamp given
    up,        \* the process runs
    store,     \* the object in the informer's store
    synced,    \* the informer has listed
    queued,    \* the key is in the work queue
    proc,      \* the running Process call
    cache,     \* the hashCache entry: NoEntry or [uid, ver, deleting]
    ver,       \* the last version given
    jobs,      \* rows accepted by the writer and not yet inserted
    warm,      \* the scope is marked warm
    run,       \* the warm run
    started,   \* the Started row of this process's epoch is in the scope log
    wasOpen,   \* the previous epoch was left open
    crashes, timeouts,
    seen,      \* history variable: the informer of this process held an object
    churned    \* history variable: an object was deleted while a warm run was under way

apiVars == <<obj, uids>>
ghosts == <<seen, churned>>
sinkVars == <<rows, inserted>>
scopeVars == <<started, wasOpen>>
watchVars == <<store, synced>>
cacheVars == <<cache, ver>>
vars == <<apiVars, sinkVars, clock, up, watchVars, queued, proc, cacheVars, jobs,
          warm, run, scopeVars, crashes, timeouts, ghosts>>

NoEntry == [uid |-> 0, ver |-> 0, deleting |-> FALSE]
NoProc == [at |-> "idle"]
NoRun == [at |-> "none"]

TypeOK ==
    /\ obj \in 0 .. MaxUID /\ store \in 0 .. MaxUID
    /\ \A r \in rows : r.uid \in 1 .. MaxUID /\ r.type \in {"Added", "Snapshot", "Deleted"}
    /\ \A r \in rows : r.ts <= clock
    /\ proc.at \in {"idle", "absent", "found", "missed", "reborn", "stamp"}
    /\ run.at \in {"none", "seed", "read", "mark", "sync", "gate", "close", "gc", "got",
                   "stamp", "recover", "done"}
    /\ ~up => cache = NoEntry /\ jobs = {} /\ run = NoRun /\ proc = NoProc

Init ==
    /\ obj = 0 /\ uids = 0
    /\ rows = {} /\ inserted = 0 /\ clock = 0
    /\ up = TRUE
    /\ store = 0 /\ synced = FALSE /\ queued = FALSE
    /\ proc = NoProc /\ cache = NoEntry /\ ver = 0 /\ jobs = {}
    /\ warm = FALSE /\ run = [at |-> "seed"]
    /\ started = FALSE /\ wasOpen = FALSE
    /\ crashes = 0 /\ timeouts = 0 /\ seen = FALSE /\ churned = FALSE

-----------------------------------------------------------------------------
\* The object is created or deleted, whether or not the process runs.
CreateOrDelete ==
    /\ IF obj = 0
       THEN uids < MaxUID /\ uids' = uids + 1 /\ obj' = uids + 1
       ELSE obj' = 0 /\ UNCHANGED uids
    /\ churned' = (churned \/ (obj # 0 /\ run.at \notin {"none", "done"}))
    /\ UNCHANGED <<sinkVars, clock, up, watchVars, queued, proc, cacheVars, jobs,
                   warm, run, scopeVars, crashes, timeouts, seen>>

\* The informer lists or catches up.
InformerSees ==
    /\ up /\ (store # obj \/ ~synced)
    /\ store' = obj /\ synced' = TRUE
    /\ queued' = (queued \/ store # obj)
    /\ seen' = (seen \/ obj # 0)
    /\ UNCHANGED <<apiVars, sinkVars, clock, up, proc, cacheVars, jobs,
                   warm, run, scopeVars, crashes, timeouts, churned>>

Crash ==
    /\ up /\ crashes < MaxCrashes
    /\ crashes' = crashes + 1
    /\ up' = FALSE
    /\ store' = 0 /\ synced' = FALSE /\ queued' = FALSE
    /\ proc' = NoProc /\ cache' = NoEntry /\ jobs' = {} /\ warm' = FALSE /\ run' = NoRun
    /\ wasOpen' = (wasOpen \/ started) /\ started' = FALSE
    /\ UNCHANGED <<apiVars, sinkVars, clock, ver, timeouts, ghosts>>

\* The scope is watched again: WarmScope starts a run.
Restart ==
    /\ ~up
    /\ up' = TRUE
    /\ run' = [at |-> "seed"]
    /\ churned' = FALSE /\ seen' = FALSE
    /\ UNCHANGED <<apiVars, sinkVars, clock, watchVars, queued, proc, cacheVars, jobs,
                   warm, scopeVars, crashes, timeouts>>

\* The recorder's Started row of this epoch is written (ScopeRecorder, ScopeWriter).
LogStarted ==
    /\ up /\ ~started
    /\ started' = TRUE
    /\ UNCHANGED <<apiVars, sinkVars, clock, up, watchVars, queued, proc, cacheVars, jobs,
                   warm, run, wasOpen, crashes, timeouts, ghosts>>

-----------------------------------------------------------------------------
\* The writer.
Job(type, uid, ts, v) == [type |-> type, uid |-> uid, ts |-> ts, ver |-> v]

\* A row is inserted and its job committed: a deletion removes the entry it
\* claimed unless another write superseded the claim.
Land(j) ==
    /\ rows' = rows \cup {[type |-> j.type, uid |-> j.uid, ts |-> j.ts, at |-> inserted + 1]}
    /\ inserted' = inserted + 1
    /\ jobs' = jobs \ {j}
    /\ cache' = IF j.type = "Deleted" /\ j.ver = cache.ver THEN NoEntry ELSE cache
    /\ UNCHANGED <<apiVars, clock, up, watchVars, queued, proc, ver,
                   warm, run, scopeVars, crashes, timeouts, ghosts>>

\* ReplacingMergeTree: of rows with one sort key the last inserted stays.
Merge ==
    /\ \E r, s \in rows : r.ts = s.ts /\ r.at < s.at /\ rows' = rows \ {r}
    /\ UNCHANGED <<apiVars, inserted, clock, up, watchVars, queued, proc, cacheVars, jobs,
                   warm, run, scopeVars, crashes, timeouts, ghosts>>

LastTS(uid) == LET stamps == {r.ts : r \in {q \in rows : q.uid = uid}}
               IN  CHOOSE t \in stamps : \A u \in stamps : u <= t

LastTypes(uid) == {r.type : r \in {q \in rows : q.uid = uid /\ q.ts = LastTS(uid)}}

Recorded == {r.uid : r \in rows}

\* What lastKnownStatesQuery may return: argMax takes any of the rows that share
\* the greatest timestamp.
LastKnownStates ==
    {open \in SUBSET Recorded :
        \A uid \in Recorded :
            IF uid \in open THEN LastTypes(uid) # {"Deleted"} ELSE "Deleted" \in LastTypes(uid)}

\* The last action in the scope log before this epoch is Started; the epoch's own
\* Started row is not earlier than its beginning.
PreviousEpochOpen == wasOpen

\* splitIncarnations: the one with the greatest timestamp, then the greatest UID.
Current(open) ==
    CHOOSE uid \in open :
        \A other \in open : \/ LastTS(other) < LastTS(uid)
                            \/ (LastTS(other) = LastTS(uid) /\ other <= uid)

-----------------------------------------------------------------------------
\* Process, one call at a time for a key: the lister is asked.
ProcessGet ==
    /\ up /\ queued /\ proc = NoProc
    /\ queued' = FALSE
    /\ proc' = [at |-> IF store = 0 THEN "absent" ELSE "found", uid |-> store]
    /\ UNCHANGED <<apiVars, sinkVars, clock, up, watchVars, cacheVars, jobs,
                   warm, run, scopeVars, crashes, timeouts, ghosts>>

\* ReserveDelete: uid 0 claims whatever the entry holds.
MayClaim(uid) == cache # NoEntry /\ ~cache.deleting /\ uid \in {0, cache.uid}

ReserveDelete ==
    /\ ver' = ver + 1
    /\ cache' = [cache EXCEPT !.deleting = TRUE, !.ver = ver + 1]

\* The object is gone from the watch: emitDelete claims with no expectation.
ProcessAbsent ==
    /\ proc.at = "absent"
    /\ IF MayClaim(0)
       THEN /\ ReserveDelete
            /\ proc' = [at |-> "stamp", type |-> "Deleted", uid |-> cache.uid, ver |-> ver + 1]
       ELSE proc' = NoProc /\ UNCHANGED cacheVars
    /\ UNCHANGED <<apiVars, sinkVars, clock, up, watchVars, queued, jobs, warm, run, scopeVars,
                   crashes, timeouts, ghosts>>

\* processUpsert: the cache is loaded.
ProcessLoad ==
    /\ proc.at = "found"
    /\ proc' = IF cache = NoEntry THEN [at |-> "missed", uid |-> proc.uid]
               ELSE IF cache.uid = proc.uid THEN NoProc
               ELSE [at |-> "reborn", uid |-> proc.uid, old |-> cache.uid]
    /\ UNCHANGED <<apiVars, sinkVars, clock, up, watchVars, queued, cacheVars, jobs,
                   warm, run, scopeVars, crashes, timeouts, ghosts>>

Reserve(uid, v) == cache' = [uid |-> uid, ver |-> v, deleting |-> FALSE]

\* processUpsert after a cache miss: the scope's warm flag decides the tag.
ProcessMissed ==
    /\ proc.at = "missed"
    /\ proc' = [at |-> "stamp", type |-> IF warm THEN "Added" ELSE "Snapshot",
                uid |-> proc.uid, ver |-> ver + 1]
    /\ ver' = ver + 1
    /\ Reserve(proc.uid, ver + 1)
    /\ UNCHANGED <<apiVars, sinkVars, clock, up, watchVars, queued, jobs, warm, run, scopeVars,
                   crashes, timeouts, ghosts>>

\* Mutant: the predecessor's history is left to the warm run.
ProcessRebornSilent ==
    /\ proc.at = "reborn"
    /\ proc' = [at |-> "stamp", type |-> "Added", uid |-> proc.uid, ver |-> ver + 1]
    /\ ver' = ver + 1
    /\ Reserve(proc.uid, ver + 1)
    /\ UNCHANGED <<apiVars, sinkVars, clock, up, watchVars, queued, jobs, warm, run, scopeVars,
                   crashes, timeouts, ghosts>>

\* processUpsert over the entry of another UID: its history is closed, unless its
\* deletion is claimed already, and the object is added.
ProcessReborn ==
    /\ proc.at = "reborn"
    /\ proc' = [at |-> "stamp", type |-> "Added", uid |-> proc.uid, ver |-> ver + 1]
    /\ ver' = ver + 1
    /\ Reserve(proc.uid, ver + 1)
    /\ IF MayClaim(proc.old)
       THEN clock' = clock + 1 /\ jobs' = jobs \cup {Job("Deleted", proc.old, clock + 1, 0)}
       ELSE UNCHANGED <<clock, jobs>>
    /\ UNCHANGED <<apiVars, sinkVars, up, watchVars, queued, warm, run, scopeVars,
                   crashes, timeouts, ghosts>>

\* The record is stamped, after its version was reserved, and enqueued.
ProcessEnqueue ==
    /\ proc.at = "stamp"
    /\ clock' = clock + 1
    /\ jobs' = jobs \cup {Job(proc.type, proc.uid, clock + 1, proc.ver)}
    /\ proc' = NoProc
    /\ UNCHANGED <<apiVars, sinkVars, up, watchVars, queued, cacheVars, warm, run, scopeVars,
                   crashes, timeouts, ghosts>>

Process == \/ ProcessGet \/ ProcessAbsent \/ ProcessLoad \/ ProcessMissed \/ ProcessReborn
           \/ ProcessEnqueue

-----------------------------------------------------------------------------
\* The warm run.
RunOnly == UNCHANGED <<apiVars, sinkVars, clock, up, watchVars, queued, proc, cacheVars, jobs,
                       warm, scopeVars, crashes, timeouts, ghosts>>

\* seedScope: the history is read.
ReadHistory ==
    /\ run.at = "seed"
    /\ \E open \in LastKnownStates :
          LET current == IF open = {} THEN 0 ELSE Current(open)
          IN  run' = [at |-> "read", current |-> current,
                      priors |-> {[uid |-> u, ts |-> LastTS(u)] : u \in open \ {current}}]
    /\ RunOnly

\* seedScope: StoreIfAbsent.
StoreBaseline ==
    /\ run.at = "read"
    /\ run' = [run EXCEPT !.at = "mark"]
    /\ IF run.current # 0 /\ cache = NoEntry
       THEN /\ ver' = ver + 1
            /\ cache' = [uid |-> run.current, ver |-> ver + 1, deleting |-> FALSE]
       ELSE UNCHANGED cacheVars
    /\ UNCHANGED <<apiVars, sinkVars, clock, up, watchVars, queued, proc, jobs,
                   warm, scopeVars, crashes, timeouts, ghosts>>

MarkWarm ==
    /\ run.at = "mark"
    /\ warm' = TRUE
    /\ run' = IF run.current = 0 THEN [at |-> "done"] ELSE [run EXCEPT !.at = "sync"]
    /\ UNCHANGED <<apiVars, sinkVars, clock, up, watchVars, queued, proc, cacheVars, jobs,
                   scopeVars, crashes, timeouts, ghosts>>

AwaitScopeSync ==
    /\ run.at = "sync" /\ synced
    /\ run' = [run EXCEPT !.at = "gate"]
    /\ RunOnly

ScopeWasActive ==
    /\ run.at = "gate"
    /\ run' = IF PreviousEpochOpen THEN [run EXCEPT !.at = "close"] ELSE [at |-> "done"]
    /\ RunOnly

\* A close-out is dated by the incarnation's own last row.
CloseOut(p) == Job("Deleted", p.uid, p.ts, 0)

EmitCloseOuts ==
    /\ run.at = "close"
    /\ jobs' = jobs \cup {CloseOut(p) : p \in run.priors}
    /\ run' = [run EXCEPT !.at = "gc"]
    /\ UNCHANGED <<apiVars, sinkVars, clock, up, watchVars, queued, proc, cacheVars,
                   warm, scopeVars, crashes, timeouts, ghosts>>

\* gcPass: the lister is asked.
LookUp ==
    /\ run.at = "gc"
    /\ run' = IF store = run.current THEN [at |-> "done"]
              ELSE [at |-> "got", current |-> run.current, found |-> store]
    /\ RunOnly

\* Mutant: the claim names no UID.
ClaimZombieByName ==
    /\ run.at = "got"
    /\ IF MayClaim(0)
       THEN /\ ReserveDelete
            /\ run' = [at |-> "stamp", uid |-> cache.uid, ver |-> ver + 1]
       ELSE run' = [at |-> "done"] /\ UNCHANGED cacheVars
    /\ UNCHANGED <<apiVars, sinkVars, clock, up, watchVars, queued, proc, jobs,
                   warm, scopeVars, crashes, timeouts, ghosts>>

\* gcPass: emitDelete claims the entry if it still holds the UID of history; a
\* refusal by a live successor is remembered.
ClaimZombie ==
    /\ run.at = "got"
    /\ IF MayClaim(run.current)
       THEN /\ ReserveDelete
            /\ run' = [at |-> "stamp", uid |-> run.current, ver |-> ver + 1]
       ELSE /\ run' = IF cache # NoEntry /\ cache.uid # run.current /\ run.found # 0
                      THEN [at |-> "recover", target |-> run.current]
                      ELSE [at |-> "done"]
            /\ UNCHANGED cacheVars
    /\ UNCHANGED <<apiVars, sinkVars, clock, up, watchVars, queued, proc, jobs,
                   warm, scopeVars, crashes, timeouts, ghosts>>

\* emitDelete: the row is stamped and handed to the writer.
EmitZombie ==
    /\ run.at = "stamp"
    /\ clock' = clock + 1
    /\ jobs' = jobs \cup {Job("Deleted", run.uid, clock + 1, run.ver)}
    /\ run' = [at |-> "done"]
    /\ UNCHANGED <<apiVars, sinkVars, up, watchVars, queued, proc, cacheVars,
                   warm, scopeVars, crashes, timeouts, ghosts>>

\* recoverRefusedReincarnations: history is read again until it holds the
\* successor, or no longer holds the target open.
RecoverRefused ==
    /\ run.at = "recover"
    /\ \E open \in LastKnownStates :
          /\ run.target \in open => Current(open) # run.target
          /\ jobs' = IF run.target \in open
                     THEN jobs \cup {CloseOut([uid |-> run.target, ts |-> LastTS(run.target)])}
                     ELSE jobs
          /\ run' = [at |-> "done"]
    /\ UNCHANGED <<apiVars, sinkVars, clock, up, watchVars, queued, proc, cacheVars,
                   warm, scopeVars, crashes, timeouts, ghosts>>

RecoverTimesOut ==
    /\ run.at = "recover" /\ timeouts < MaxTimeouts
    /\ timeouts' = timeouts + 1
    /\ run' = [at |-> "done"]
    /\ UNCHANGED <<apiVars, sinkVars, clock, up, watchVars, queued, proc, cacheVars, jobs,
                   warm, scopeVars, crashes, ghosts>>

WarmRun ==
    \/ ReadHistory \/ StoreBaseline \/ MarkWarm \/ AwaitScopeSync \/ ScopeWasActive
    \/ EmitCloseOuts \/ LookUp \/ ClaimZombie \/ EmitZombie \/ RecoverRefused

Next ==
    \/ CreateOrDelete \/ InformerSees \/ Crash \/ Restart \/ LogStarted
    \/ \E j \in jobs : Land(j)
    \/ Merge
    \/ Process
    \/ WarmRun \/ RecoverTimesOut

Spec == Init /\ [][Next]_vars

\* The process is restarted, the informer catches up, the queue is worked off, the
\* writer inserts what it accepted (WriteContract), and the run's retries go on, the
\* recovery's until closeOutEvidenceTimeout.
Fairness ==
    /\ WF_vars(Restart) /\ WF_vars(InformerSees) /\ WF_vars(LogStarted)
    /\ WF_vars(Process) /\ WF_vars(WarmRun \/ RecoverTimesOut) /\ WF_vars(\E j \in jobs : Land(j))

FairSpec == Spec /\ Fairness

-----------------------------------------------------------------------------
\* Whatever is closed is dead: no Deleted row, inserted or on its way, names the
\* object that exists (the UID-gated claim, the wait for the informer, the
\* evidence a close-out waits for).
ClosedIsDead == \A r \in rows \cup jobs : r.type = "Deleted" => r.uid # obj

\* A close-out made from history is dated before everything a later incarnation
\* recorded (closeOutRecord: "in the order the events actually happened").
CloseOutsInOrder ==
    \A j \in jobs : j.type = "Deleted" /\ j.ver = 0 =>
        \A r \in rows : r.uid > j.uid => j.ts < r.ts

\* In an epoch with no open predecessor a deletion is recorded only for a name
\* the informer held an object under: what history held before is pre-history, and
\* closing it "would be a fabrication" (warm, scopeWasActive).
NoFabrication ==
    [][~wasOpen /\ ~seen => \A j \in jobs' \ jobs : j.type # "Deleted"]_vars

Settled == up /\ jobs = {} /\ ~queued /\ proc = NoProc /\ run.at = "done" /\ synced /\ store = obj

Unclosed == {uid \in Recorded : uid # obj /\ "Deleted" \notin LastTypes(uid)}

\* When everything has settled in a scope whose previous epoch was left open, every
\* incarnation history knows and the cluster does not have is closed, if no object
\* was deleted while the run was under way.
DeathsRecorded == Settled /\ wasOpen /\ timeouts = 0 /\ ~churned => Unclosed = {}

\* The run ends, whatever the order in which history, informer and queue move.
RunEnds == <>[](run.at = "done")

-----------------------------------------------------------------------------
\* What the comments of the code and of the schema say and TLC refutes with two
\* incarnations and one crash; no run checks these.

\* DeathsRecorded, whatever happens meanwhile (gcPass: "Only a UID mismatch leaves
\* something unrecorded").
DeathsAlwaysRecorded ==
    Settled /\ wasOpen /\ timeouts = 0 =>
        \A uid \in Recorded : uid # obj => \E r \in rows : r.type = "Deleted" /\ r.uid = uid

\* The death of an incarnation is recorded at one instant: two Deleted rows for it
\* would be two events (recoverRefusedReincarnations: "Duplicate safety rests on
\* two complementary guards").
OneDeletion ==
    \A r, s \in rows \cup jobs : r.type = "Deleted" /\ s.type = "Deleted" /\ r.uid = s.uid => r.ts = s.ts

\* A row once inserted stays: no distinct event takes its place
\* (deploy/clickhouse/schema/001_resource_states.sql: "A genuinely-distinct event
\* never collides").
HistoryKept ==
    [][\A r \in rows : r \in rows' \/ \E s \in rows' : <<s.type, s.uid, s.ts>> = <<r.type, r.uid, r.ts>>]_vars

\* An object history knows is not tagged Added again (processUpsert: "Tag it
\* Snapshot so a slow or unavailable sink at startup ... never masquerades as").
AddedIsNew ==
    [][\A j \in jobs' \ jobs : j.type = "Added" => j.uid \notin Recorded]_vars
=============================================================================
