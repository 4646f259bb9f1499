------------------------------ MODULE SinkHealth ------------------------------
(***************************************************************************)
(* How a sink's health reaches its CR: the probe loops of                  *)
(* internal/sink/manager.go, the ProbeWatcher, the probeStore and the      *)
(* SinkReconciler of internal/controller/sink_controller.go, with the      *)
(* status writer of conditions.go, for one sink name.                      *)
(*                                                                         *)
(* The reconciler reads the CR from the manager's cache, which lags behind *)
(* the API server; a status update made from a stale copy conflicts and is *)
(* retried.  controller-runtime never runs two passes for one name at      *)
(* once, and runs another when the name was queued during a pass.          *)
(***************************************************************************)
EXTENDS Naturals, Sequences, FiniteSets

CONSTANTS
    Nothing,
    Backends,       \* conditions the backend may be in or be brought into
    Secrets,        \* what resolveCredential may find, "resolved" among it
    ResultBuffer,   \* capacity of the probe-result channel
    MaxResourceEdits,       \* bound: creations, edits and deletions of the CR
    MaxOutages,     \* bound: outages and recoveries of the backend
    MaxFaults       \* bound: changes of its schema and of the Secret, configurations the
                    \* runtime refuses

\* The operator's tables, in the order of the DDL files.
Tables == <<"resource_states", "watch_scopes">>

Backend == [up : BOOLEAN, table : [{1, 2} -> {"missing", "drifted", "matches"}]]

ASSUME SinkHealthAssumption ==
    /\ Backends \subseteq Backend
    /\ "resolved" \in Secrets /\ Secrets \subseteq {"resolved", "SecretNotFound", "SecretKeyMissing"}
    /\ ResultBuffer \in Nat \ {0}
    /\ MaxResourceEdits \in Nat /\ MaxOutages \in Nat /\ MaxFaults \in Nat

VARIABLES
    backend,     \* whether ClickHouse answers, and its schema
    secret,      \* what resolveCredential finds
    autoCreate,  \* the sink is configured to create its schema
    cr,          \* the CR in the API server
    cache,       \* the CR as the manager's cache has it
    created, \* CRs of this name created so far
    queued,      \* the name is in the reconciler's queue
    pass,        \* the running Reconcile
    probers,        \* the instances, by number, each with its probe loop
    liveProbe,        \* the one the runtime keeps, 0 for none
    results,     \* the probe-result channel
    watcher,     \* the ProbeWatcher: None, or it has a wake-up to send
    store,       \* the probeStore's entry: a verdict or None
    proved,      \* some probe has succeeded (history)
    resourceEdits, outages, faults

resourceVars == <<cr, created, resourceEdits>>
worldVars == <<backend, secret, autoCreate, outages, faults>>
runtimeVars == <<probers, liveProbe, results, proved>>
watcherVars == <<watcher, store>>
healthVars == <<resourceVars, cache, queued, pass, worldVars, runtimeVars, watcherVars>>

Cond(status, reason) == [status |-> status, reason |-> reason]
Unset == Cond("Absent", "")

NoCR == [exists |-> FALSE, gen |-> 0, incarnation |-> 0,
         ready |-> Unset, observed |-> 0]
Idle == [at |-> "idle"]

Probers == DOMAIN probers

HealthTypeOK ==
    /\ backend \in Backend /\ secret \in Secrets
    /\ pass.at \in {"idle", "got", "gone", "declared", "decided"}
    /\ Len(results) <= ResultBuffer
    /\ \A i \in Probers : probers[i].loop \in {"probing", "posting", "waiting", "ended"}
    /\ liveProbe \in {0} \cup Probers
    /\ cr.ready.status \in {"Absent", "True", "False", "Unknown"}

HealthInit ==
    /\ backend \in Backends
    /\ secret = "resolved" /\ autoCreate \in BOOLEAN
    /\ cr = NoCR /\ cache = NoCR /\ created = 0
    /\ queued = FALSE /\ pass = Idle
    /\ probers = <<>> /\ liveProbe = 0
    /\ results = <<>>
    /\ watcher = Nothing /\ store = Nothing
    /\ proved = FALSE
    /\ resourceEdits = 0 /\ outages = 0 /\ faults = 0

-----------------------------------------------------------------------------
\* The world: users edit the CR, the backend and the Secret change.
CreateCR ==
    /\ ~cr.exists
    /\ created' = created + 1
    /\ cr' = [NoCR EXCEPT !.exists = TRUE, !.gen = 1, !.incarnation = created']

EditSpec ==
    /\ cr.exists
    /\ cr' = [cr EXCEPT !.gen = @ + 1]
    /\ UNCHANGED created

DeleteCR ==
    /\ cr.exists
    /\ cr' = NoCR
    /\ UNCHANGED created

EditResource ==
    /\ resourceEdits < MaxResourceEdits
    /\ resourceEdits' = resourceEdits + 1
    /\ CreateCR \/ EditSpec \/ DeleteCR
    /\ UNCHANGED <<cache, queued, pass, worldVars, runtimeVars, watcherVars>>

ChangeReach ==
    /\ outages < MaxOutages
    /\ outages' = outages + 1
    /\ backend' = [backend EXCEPT !.up = ~@]
    /\ UNCHANGED <<resourceVars, cache, queued, secret, autoCreate, faults, pass, runtimeVars, watcherVars>>

\* A Secret's change wakes the sinks that read it (sinksForSecret).
ChangeSecret ==
    /\ faults < MaxFaults
    /\ faults' = faults + 1
    /\ secret' \in Secrets \ {secret}
    /\ queued' = (queued \/ cache.exists)
    /\ UNCHANGED <<resourceVars, cache, backend, autoCreate, outages, pass, runtimeVars, watcherVars>>

ChangeSchema ==
    /\ faults < MaxFaults
    /\ faults' = faults + 1
    /\ backend' \in Backends \ {backend}
    /\ UNCHANGED <<resourceVars, cache, queued, secret, autoCreate, outages, pass, runtimeVars, watcherVars>>

\* The watch catches up; every change of the CR queues its name.
CacheSync ==
    /\ cache # cr
    /\ cache' = cr
    /\ queued' = TRUE
    /\ UNCHANGED <<resourceVars, pass, worldVars, runtimeVars, watcherVars>>

-----------------------------------------------------------------------------
Cancelled(i) == probers[i].cancelled

\* drain, in a goroutine of its own: the context of a replaced or withdrawn instance
\* is cancelled some time after the swap.
Drain(i) ==
    /\ i # liveProbe /\ ~Cancelled(i)
    /\ probers' = [probers EXCEPT ![i].cancelled = TRUE]
    /\ UNCHANGED <<resourceVars, cache, queued, pass, worldVars, liveProbe, results, proved, watcherVars>>

\* Probe: a ping, then every required column of every table (validateSchema).
ValidateSchema == \A t \in DOMAIN Tables : backend.table[t] = "matches"

Verdict ==
    CASE ~backend.up -> "Unreachable"
      [] backend.up /\ ValidateSchema -> "ok"
      [] backend.up /\ ~ValidateSchema -> "SchemaInvalid"

\* autoCreateSchemaWithRetry, one statement at a time: CREATE TABLE IF NOT EXISTS
\* leaves a table alone that exists, in whatever shape.
AutoCreateSchema(i) ==
    /\ probers[i].ddl = "pending" /\ ~Cancelled(i) /\ backend.up
    /\ LET missing == {t \in DOMAIN Tables : backend.table[t] = "missing"}
           first == CHOOSE t \in missing : \A u \in missing : t <= u
       IN  IF missing = {}
           THEN probers' = [probers EXCEPT ![i].ddl = "done"] /\ UNCHANGED backend
           ELSE backend' = [backend EXCEPT !.table[first] = "matches"] /\ UNCHANGED probers
    /\ UNCHANGED <<resourceVars, cache, queued, pass, secret, autoCreate, outages, faults, liveProbe, results, proved, watcherVars>>

\* The probe loops.
Loop(i, to, result) == [probers EXCEPT ![i].loop = to, ![i].result = result]

\* probe, and probeLoop's look at its context: an attempt that the cancellation
\* may have cut short is not reported.
Probe(i) ==
    /\ probers[i].loop = "probing"
    /\ probers' = IF Cancelled(i) THEN Loop(i, "ended", Nothing) ELSE Loop(i, "posting", Verdict)
    /\ proved' = (proved \/ (~Cancelled(i) /\ Verdict = "ok"))
    /\ UNCHANGED <<resourceVars, cache, queued, pass, worldVars, liveProbe, results, watcherVars>>

\* postResult: the send, which select may choose also when the context is done.
PostResult(i) ==
    /\ probers[i].loop = "posting"
    /\ Len(results) < ResultBuffer
    /\ results' = Append(results, [result |-> probers[i].result, by |-> i])
    /\ probers' = Loop(i, "waiting", Nothing)
    /\ UNCHANGED <<resourceVars, cache, queued, pass, worldVars, liveProbe, proved, watcherVars>>

\* The probe timer fires.
ProbeAgain(i) ==
    /\ probers[i].loop = "waiting"
    /\ probers' = Loop(i, "probing", Nothing)
    /\ UNCHANGED <<resourceVars, cache, queued, pass, worldVars, liveProbe, results, proved, watcherVars>>

\* The context is done while the loop sends or waits.
LoopEnds(i) ==
    /\ probers[i].loop \in {"posting", "waiting"} /\ Cancelled(i)
    /\ probers' = Loop(i, "ended", Nothing)
    /\ UNCHANGED <<resourceVars, cache, queued, pass, worldVars, liveProbe, results, proved, watcherVars>>

\* Mutant: a verdict is recorded only when there is none.
RecordOnce ==
    /\ results # <<>> /\ watcher = Nothing
    /\ store' = IF store = Nothing THEN Head(results) ELSE store
    /\ watcher' = "waking"
    /\ results' = Tail(results)
    /\ UNCHANGED <<resourceVars, cache, queued, pass, worldVars, probers, liveProbe, proved>>

\* ProbeWatcher.Start: record, then a wake-up whose send blocks.
Record ==
    /\ results # <<>> /\ watcher = Nothing
    /\ store' = Head(results)
    /\ watcher' = "waking"
    /\ results' = Tail(results)
    /\ UNCHANGED <<resourceVars, cache, queued, pass, worldVars, probers, liveProbe, proved>>

Wake ==
    /\ watcher # Nothing
    /\ watcher' = Nothing
    /\ queued' = TRUE
    /\ UNCHANGED <<resourceVars, cache, pass, worldVars, runtimeVars, store>>

-----------------------------------------------------------------------------
\* Reconcile.
BeginPass ==
    /\ queued /\ pass = Idle
    /\ queued' = FALSE
    /\ pass' = IF cache.exists
               THEN [at |-> "got", gen |-> cache.gen, incarnation |-> cache.incarnation,
                     previous |-> cache.ready]
               ELSE [at |-> "gone"]
    /\ store' = IF cache.exists THEN store ELSE Nothing
    /\ UNCHANGED <<resourceVars, cache, worldVars, runtimeVars, watcher>>

\* The CR is gone: the verdict was forgotten, the runtime withdraws the sink.
WithdrawSink ==
    /\ pass.at = "gone"
    /\ liveProbe' = 0
    /\ pass' = Idle
    /\ UNCHANGED <<resourceVars, cache, queued, worldVars, probers, results, proved, watcherVars>>

\* resolveCredential, then declare: a changed configuration recycles the instance.
Declare ==
    /\ pass.at = "got"
    /\ pass' = [at |-> "declared", gen |-> pass.gen, incarnation |-> pass.incarnation,
                previous |-> pass.previous, cred |-> secret]
    /\ IF \/ secret # "resolved"
          \/ (liveProbe # 0 /\ probers[liveProbe].gen = pass.gen /\ probers[liveProbe].incarnation = pass.incarnation)
       THEN UNCHANGED <<probers, liveProbe>>
       ELSE /\ probers' = Append(probers, [gen |-> pass.gen, incarnation |-> pass.incarnation,
                                     loop |-> "probing", result |-> Nothing, cancelled |-> FALSE,
                                     ddl |-> IF autoCreate THEN "pending" ELSE "done"])
            /\ liveProbe' = Len(probers) + 1
    /\ UNCHANGED <<resourceVars, cache, queued, worldVars, results, proved, watcherVars>>

\* The runtime refuses the configuration: Reconcile returns the error.
DeclareRefused ==
    /\ pass.at = "got" /\ secret = "resolved"
    /\ faults < MaxFaults
    /\ faults' = faults + 1
    /\ pass' = Idle
    /\ queued' = TRUE
    /\ UNCHANGED <<resourceVars, cache, backend, secret, autoCreate, outages, runtimeVars, watcherVars>>

CredentialsResolved(cred) ==
    IF cred = "resolved" THEN Cond("True", "SecretResolved") ELSE Cond("False", cred)

\* setHealthConditions.
SchemaValid(cred) ==
    CASE cred # "resolved" -> Cond("Unknown", "CredentialsUnavailable")
      [] cred = "resolved" /\ store = Nothing -> Cond("Unknown", "ProbePending")
      [] cred = "resolved" /\ store # Nothing ->
            CASE store.result = "ok" -> Cond("True", "SchemaMatches")
              [] store.result = "SchemaInvalid" -> Cond("False", "SchemaInvalid")
              [] store.result = "Unreachable" -> Cond("Unknown", "Unreachable")

\* Mutant: what is not known to be wrong counts as ready.
ReadyForOptimistic(conds) ==
    LET bad == {i \in DOMAIN conds : conds[i].status = "False" \/ conds[i].reason = "Unreachable"}
    IN  IF bad = {} THEN Cond("True", "Connected")
        ELSE LET first == CHOOSE i \in bad : \A k \in bad : i <= k
             IN  Cond("False", conds[first].reason)

\* readyFor: the first condition of the order that is not True decides.
ReadyFor(conds) ==
    LET bad == {i \in DOMAIN conds : conds[i].status # "True"}
    IN  IF bad = {} THEN Cond("True", "Connected")
        ELSE LET first == CHOOSE i \in bad : \A k \in bad : i <= k
             IN  Cond(IF conds[first].reason = "Unreachable" THEN "False" ELSE conds[first].status,
                      conds[first].reason)

Decide ==
    /\ pass.at = "declared"
    /\ pass' = [at |-> "decided", gen |-> pass.gen, incarnation |-> pass.incarnation,
                previous |-> pass.previous,
                ready |-> ReadyFor(<<CredentialsResolved(pass.cred), SchemaValid(pass.cred)>>),
                verdict |-> IF pass.cred = "resolved" THEN store ELSE Nothing]
    /\ UNCHANGED <<resourceVars, cache, queued, worldVars, runtimeVars, watcherVars>>

\* emitReadyEvent compares with the copy of the pass's beginning.
EmitsReadyEvent == pass.ready # pass.previous /\ pass.ready.status # "Unknown"

\* updateStatus with a fresh copy, then emitReadyEvent.
WriteStatus ==
    /\ pass.at = "decided"
    /\ cache = cr /\ cr.exists
    /\ cr' = [cr EXCEPT !.ready = pass.ready, !.observed = pass.gen]
    /\ pass' = Idle
    /\ UNCHANGED <<created, resourceEdits, cache, queued, worldVars, runtimeVars, watcherVars>>

\* The retries of updateStatus are spent, or the CR is gone: Reconcile fails.
WriteConflicts ==
    /\ pass.at = "decided"
    /\ cache # cr \/ ~cr.exists
    /\ pass' = Idle
    /\ queued' = TRUE
    /\ UNCHANGED <<resourceVars, cache, worldVars, runtimeVars, watcherVars>>

\* RequeueAfter.
ResyncHealth ==
    /\ cache.exists /\ ~queued /\ pass = Idle
    /\ queued' = TRUE
    /\ UNCHANGED <<resourceVars, cache, pass, worldVars, runtimeVars, watcherVars>>

ReconcileSteps ==
    \/ BeginPass \/ WithdrawSink \/ Declare \/ DeclareRefused
    \/ Decide \/ WriteStatus \/ WriteConflicts

ProbeLoop(i) == AutoCreateSchema(i) \/ Probe(i) \/ PostResult(i) \/ ProbeAgain(i) \/ LoopEnds(i)

ProbeWatcher == Record \/ Wake

HealthNext ==
    \/ EditResource \/ ChangeReach \/ ChangeSecret \/ ChangeSchema \/ CacheSync
    \/ \E i \in Probers : ProbeLoop(i) \/ Drain(i)
    \/ ProbeWatcher
    \/ ResyncHealth
    \/ ReconcileSteps

HealthSpec == HealthInit /\ [][HealthNext]_healthVars

(***************************************************************************)
(* The watch delivers, the queue is worked off, timers fire and goroutines *)
(* that can move do.  A loop's send is strongly fair: Go hands a free slot *)
(* of a channel to its waiting senders in turn.                            *)
(***************************************************************************)
HealthFairness ==
    /\ WF_healthVars(CacheSync) /\ WF_healthVars(ReconcileSteps) /\ WF_healthVars(ProbeWatcher) /\ WF_healthVars(ResyncHealth)
    /\ \A i \in 1 .. MaxResourceEdits :
        /\ WF_healthVars(i \in Probers /\ (Probe(i) \/ ProbeAgain(i)))
        /\ WF_healthVars(i \in Probers /\ LoopEnds(i)) /\ WF_healthVars(i \in Probers /\ Drain(i))
        /\ WF_healthVars(i \in Probers /\ AutoCreateSchema(i))
        /\ SF_healthVars(i \in Probers /\ PostResult(i))

FairHealth == HealthSpec /\ HealthFairness

-----------------------------------------------------------------------------
\* A sink is reported ready only after a probe of it has succeeded: neither the
\* wait for the first probe nor an unreadable Secret passes for health.
ReadyEarned == cr.ready.status = "True" => proved

\* While the backend and the Secret are in order, a CR is never degraded: an
\* attempt that a recycle or a deletion cut short is not the backend's failure
\* (probeLoop: "Reporting it would flip a healthy sink's condition to Degraded").
HealthyNeverDegraded ==
    outages = 0 /\ faults = 0 /\ Verdict = "ok" /\ ~autoCreate => cr.ready.status # "False"

Truth ==
    CASE secret # "resolved" -> Cond("False", secret)
      [] secret = "resolved" /\ Verdict = "ok" -> Cond("True", "Connected")
      [] secret = "resolved" /\ Verdict # "ok" -> Cond("False", Verdict)

\* Once the world settles, the CR says how things are and of which generation:
\* no verdict is lost between the probe and the status.
Truthful == <>[](~cr.exists \/ (cr.ready = Truth /\ cr.observed = cr.gen))

\* A sink that creates its schema finds its tables in the end, whenever ClickHouse
\* comes up and whichever statement it went away at (autoCreateSchemaWithRetry).
SchemaCreated ==
    <>[](autoCreate /\ liveProbe # 0 /\ backend.up => \A t \in DOMAIN Tables : backend.table[t] # "missing")

\* A cancelled probe loop ends, also when nobody has room for its verdict.
LoopsEnd ==
    \A i \in 1 .. MaxResourceEdits :
        (i \in Probers /\ i # liveProbe) ~> (i \in Probers /\ probers[i].loop = "ended")

-----------------------------------------------------------------------------
\* What the comments of the code say and TLC refutes on the instance of MCSinkHealth;
\* no run checks these.

\* A sink recreated under the name starts from ProbePending (forget: "rather than
\* inheriting its predecessor's health").
OwnHealth ==
    [][Decide /\ pass'.verdict # Nothing
        => probers[pass'.verdict.by].incarnation = pass.incarnation]_healthVars

\* A verdict that predates the last edit does not carry its generation (condition:
\* lets a client distinguish "Ready, and up to date" from "Ready, but that verdict
\* predates your last edit").
VerdictOfItsGeneration ==
    [][WriteStatus /\ pass.verdict # Nothing
        => LET prober == probers[pass.verdict.by]
           IN  prober.incarnation = pass.incarnation => cr'.observed <= prober.gen]_healthVars

\* The store keeps the newest verdict: one of a replaced instance does not
\* overwrite its successor's (probeStore: "Keeping only the latest verdict per
\* sink is deliberate").
NewestVerdictKept ==
    [][store # Nothing /\ store' # Nothing => store'.by >= store.by]_healthVars

\* A configuration the runtime refuses degrades the CR (Reconcile: "this degrades
\* the CR and retries").
RefusalDegrades == [][DeclareRefused => cr'.ready.status = "False"]_healthVars

\* One event per transition of Ready to a verdict (ProbeWatcher: "emits one event
\* per transition").
EventPerTransition ==
    [][WriteStatus =>
         (EmitsReadyEvent <=> (cr'.ready # cr.ready /\ cr'.ready.status # "Unknown"))]_healthVars
=============================================================================
