# Verification of kuberecord

kuberecord watches Kubernetes objects and streams their state changes to a sink
(ClickHouse). This directory holds TLA+ models of it, the TLC configurations that
check them on small instances, and TLAPS proofs for every instance.

## The system's parts

| Part | Source | Role | Module |
| --- | --- | --- | --- |
| hashCache | `internal/pipeline/hashcache.go` | versioned dedup slot per object | `HashCache` |
| Pipeline | `internal/pipeline/process.go`, `pipeline.go` | work item to row | `Pipeline` |
| Normalization, redaction, actors | `internal/pipeline/redact.go`, `actors.go`, `process.go` | what of an object is stored | `Normalization` |
| Warm-up of one scope | `internal/pipeline/warm.go` | seeds caches from history, records deaths nobody saw | `Warm` |
| Warm coordinator | `internal/pipeline/warm.go` | lifecycle of the runs, boot reconciliation of epochs | `WarmCoordinator` |
| Watch manager, pool, interests | `internal/watch/manager.go`, `pool.go`, `interest.go` | informers and fan-out | `WatchManager` |
| Resolver | `internal/watch/resolver.go` | discovery of a kind, backoff gate | `Resolver` |
| Plan registry | `internal/plan/registry.go` | desired watch targets, wake-up | `Registry` |
| Rule controller | `internal/controller/streamrule_controller.go` | rule to targets, status | `RuleReconciler` |
| Sink controller, probes, schema | `internal/controller/sink_controller.go`, `conditions.go`, `internal/sink/clickhouse/schema.go` | health of a sink | `SinkHealth` |
| Sink manager | `internal/sink/manager.go` | instances, routing, drain | `SinkManager` |
| ClickHouse writer | `internal/sink/clickhouse/writer.go` | batched writes | `CHWriter`, contract in `WriteContract` |
| Scope recorder | `internal/watch/scope_recorder.go` | queue of scope epochs | `ScopeRecorder` |
| Scope event writer | `internal/sink/clickhouse/scopewriter.go` | the scope log | `ScopeWriter`, both composed in `ScopePath` |

Rules are reconciled into the registry, whose wake-up sends the watch manager on a
pass that turns targets into informers and interests. Informer events enqueue keys; a
worker reads the current object, normalizes it, compares it with the hashCache and
hands a row to the sink's writer, whose Commit callback later settles the cache. Beside
this path the warm coordinator seeds the cache of each new scope from the table, the
scope recorder writes down which scopes were watched when, and the sink manager
replaces the instances behind it all as the sink's custom resource changes.

## Modules

A step ends where the code releases a lock, blocks, or calls out; what the code does
under one lock is one action. Objects, rows and messages are reduced to what the
properties tell apart. Operators marked "Mutant" are faulty variants of the definition
that follows them; a property is trusted only if some variant breaks it.

**`HashCache`** gives the cache operations as functions of one slot. `Absent` is a
missing entry (version 0). `stamp` is a ghost field: the time of the reservation.

**`Pipeline`** is the write path of one sink and one scope. A Process call (`work[k]`)
advances through

| position | code | actions |
| --- | --- | --- |
| idle | `Process` up to the writer lookup | `DropStopped`, `ForgetEphemeral`, `BeginProcess` |
| begin | `WriterFor`, `retryPendingCloseOuts` | `SinkUnavailable`, `RetryPendingCloseOuts` |
| act | `emitDelete`, or `processUpsert` to its decision | `DeleteRefused`, `ClaimDelete`, `UpsertPostponed`, `Load...` |
| claimOld, closeOut | reincarnation | `ClaimOldIncarnation`, `OldIncarnationRefused`, `EnqueueCloseOut` |
| reserve, enqueue | `Reserve`, `Enqueue` | `ReserveVersion`, `EnqueueAccepted`, `EnqueueRejected` |

`WriteSucceeds` and `WriteFails` are the Commit callbacks. Jobs settle in any order,
because the writer runs several workers. `DeregisterScope`, `EvictScope` and
`RestartScope` are the watch manager's passes. Cluster and informer are external.

**`PipelineHistory`** states what the rows of an object add up to while nothing fails,
and the invariant behind it. Once a Deleted acknowledgement has emptied a slot, `Reserve`
starts again at version 1, so the late Commit of an older write can meet a newer entry
with its own version (`LateAckNeverClobbers` below). The history variable `reissued` is
set by the step that makes this possible: `WriteSucceeds` empties a slot while a write
that reserved it is in flight. A history is `Undisturbed` as long as no write failed, the
scope was watched without a break and this did not happen. Without the third condition
`RecordedUndisturbed` fails on histories of seven changes.

**`CHWriter`** is one ClickHouse instance: `Enqueue`'s select between the queue and the
caller's context, the workers with their batches, bounded retries, the isolation of
rows after a rejected batch, the callbacks, and `Start`'s order of closing the job
channel, joining workers and users and closing the connection. **`WriteContract`** is
what `Pipeline` relies on: each accepted job is settled at most once, and truthfully.
`CHWriter!Contract` is the refinement mapping.

**`ScopeRecorder`** counts the targets that hold a scope, queues an epoch edge on the
first and the last, drops the oldest edge of a full queue and counts the loss;
**`ScopeWriter`** batches edges, keeps refused ones in a bounded retry queue and drains
both on shutdown. **`ScopePath`** is the two together: the recorder's flush calls the
writer's `EnqueueScopeEvent`, an instance is routed and unrouted around it. The
composed instance lives once, and recorder overflow, refusals and failed flushes share
one budget (`MaxMishaps`).

**`Registry`** has the registry's calls, each atomic under its lock, with the two maps
`rules` and `targets`; `notified` is the one-place channel. The watch manager's loop
waits, debounces and runs a pass in two steps, between which the registry may change.

**`RuleReconciler`** is a pass of either rule controller read by read (sink, kinds,
namespaces, access reviews), so that the world may change between two reads; then the
gates, the registry's contribution and the status write with its conflicts. One rule
and one sink; the access reviews of a pass are one read. The REST mapper keeps its
answers (`mapped`): discovery is asked only for a kind it does not know, a failure parks
the kind behind a gate (`shut`), and a kind that is removed from the cluster goes on
resolving until another miss in its group makes the mapper reload it. Other callers use
the same mapper and may fill it, or park a kind, at any time. `RegistryFollowsRule` and
`StatusTruthful` are about the kinds that are served or that the mapper still knows
(`Known`).

**`Resolver`** is the gate of one kind under overlapping calls: discovery runs without
the lock and its result is installed over whatever happened meanwhile.

**`SinkHealth`** joins the sink controller's passes (over a lagging cache), the probe
loops of old and new instances, the bounded result channel, the watcher's store, the
automatic creation of tables and the backend. A replaced instance goes on probing until
its drain, some time after its successor took over, cancels it (`Drain`). **`SinkManager`** has Ensure, Delete with
its drain and tail, instance goroutines, routing with in-flight counts and shutdown.

**`Warm`** is the run of one scope for one object identity: read history, split it into
incarnations, seed, wait for the informer, emit close-outs, sweep zombies; with the
work items it races with, crashes, and the table's merges. **`WarmCoordinator`** has the
runs of several scopes, their cancellation, the boot pass over the scope log, forgetting
a sink, and shutdown. A pass of the watch manager is stamped, replaces the interest
table, tells the coordinator and evicts in steps of its own; between the second and the
third a run goes on for a scope the table no longer has.

**`WatchManager`** is the pass over two sinks' targets (informer starts that fail,
interest table, deregistration and eviction), the handlers' fan-out and the work items. A
worker looks up the interests, reads the indexers, resolves the policy and records in
four steps (`LookUp`, `Get`, `ResolvePolicy`, `Reserve`), and a pass may come between any
two of them. The scopes of a sink may overlap: the object's own namespace and all
namespaces. An informer that outlives its stop timeout is not modelled.

**`Normalization`** computes what is stored: parse and compile paths, merge policies,
copy, strip, redact, run a transform, harvest actors. Objects are trees on a heap, so
that sharing with the informer's cache is visible. Paths are sequences of words.

`MC...` modules give the constants their values. Where one of them holds several
components (`MCControlPlane`, `MCWarm`), those share no variable: a behaviour picks one
of them (`part`) and the others are at rest, in a state in which they have nothing to
do, so that one run asks the questions of each.

## Runs

| Config | Question | Result |
| --- | --- | --- |
| `Pipeline` | safety and progress under failed writes, lost acknowledgements, rejected enqueues and a stopping scope | holds |
| `PipelineHistory` | complete, replayable history with bounded diff runs while nothing fails and no slot is emptied under a write; no Deleted rows for Events | holds |
| `CHWriter` | the contract, connection closed last, only guilty rows fail, accepted jobs settle | holds |
| `ScopePath` | epochs alternate, no edge lost silently, order of landing, everything lands | holds |
| `ControlPlane` | registry counts and wake-ups; rules: only admitted, redacted targets, steady under failed reads, registry and status follow the rule in the end; resolver: the gate opens in time | holds |
| `SinkManager` | routing, order of eviction and drain, the CR's last word | holds |
| `SinkHealth` | Ready is earned, the CR tells the truth in the end | holds |
| `Warm` | nothing alive is closed, deaths are recorded; one live run per scope and epoch, orphans closed | holds |
| `WatchManager` | no made-up deletion by an item no pass overtook, selected objects recorded | holds |
| `Normalization` | stored exactly as the rules ask, nothing shared is written, every text parses as the grammar says | holds |
| `PipelineLostWrite` | "a lost write can never be mistaken for a confirmed one" | violated |
| `PipelineFalseDelete` | a living object is never recorded as deleted, across a restart of the scope | violated |

The two violated ones are disagreements between a comment and the code:

- **Lost write.** State B is reserved over A's unconfirmed entry. B is rejected and
  reverts to A. A then fails too, but its revert is stale. The retry takes A for a
  duplicate, and no row holds it.
- **False deletion.** A worker reserves after eviction. The scope is watched again, the
  informer has not listed, and the living object looks gone.

### Other statements the code does not keep

These were refuted by TLC while the modules were written. Each is still defined, at
the end of its module (in `Pipeline` beside its neighbours), so that it can be tried
again with a cfg of its own; no run checks them, and the properties the runs do check
are stated so that they hold beside them.

- `Pipeline!LateAckNeverClobbers`: Reserve restarts at version 1 after the entry is removed, so an old job's version can equal a newer entry's. internal/pipeline/hashcache.go:407-411 says "an out-of-order (but stale) commit can never clobber a newer entry".
- `Pipeline!DeathNotForgotten`: While the Deleted write of an object is in flight, its successor under the same name is refused the claim (deleteClaimInFlight), skips the close-out (process.go:539-542) and reserves the slot. When that write then fails, UnclaimDelete (process.go:848) finds a newer version and does nothing; the requeued key finds the successor, so no Deleted row is ever written. internal/pipeline/process.go:832-834 says the entry is only removed once the deletion is durable "so a crash or write failure can't silently drop this object from history".
- `SinkManager!EvictsOnlyTheGone`: finishDelete looks for a recreated sink under the lock, releases it, and then calls RemoveSink and ForgetSink: a sink ensured in between loses the state it has just filled. internal/sink/manager.go:657 says "Evicting now would drop *its* state, and parking its rules would degrade rules that are working — so the tail stands down instead".
- `SinkManager!FreshCache`: A sink recreated while its predecessor drains finds the predecessor's sinkState in the registry, which no step of Delete or Ensure removes before the tail stands down; a recreated sink, even one of another configuration, keeps the old dedup baselines. internal/sink/manager.go:656 says it "already has a live instance and a fresh hashCache under this name", internal/pipeline/pipeline.go:414 "Recreating the sink later starts from an empty cache".
- `SinkManager!BootMarkIsOwn`: When the tail stands down ForgetSink is not called either, so the recreated sink is taken for boot-reconciled. internal/sink/manager.go:222 says a sink deleted and re-created under the same name is "boot-reconciled again instead of inheriting a stale "already done" mark".
- `SinkManager!NotRoutedWhenClosing`: Every instance's context is a child of the one whose cancellation starts the shutdown, so writers begin to close before Start has emptied the routing table. internal/sink/manager.go:508 says the instances are taken out first, so a work item is told "no live writer" "rather than handed a writer that is closing its connection".
- `SinkHealth!OwnHealth`: A verdict is dropped only by a pass that finds the CR gone: a CR deleted and recreated before that pass, or a result still on its way to the store when it runs, gives the new sink the verdict of the old one. internal/controller/sink_controller.go:142 says a sink recreated under the same name "starts from ProbePending rather than inheriting its predecessor's health".
- `SinkHealth!VerdictOfItsGeneration`: After an edit of the spec the store still holds the verdict of the previous instance, and the pass writes it with the new generation. internal/controller/conditions.go:240 says observedGeneration lets a client distinguish "Ready, and up to date" from "Ready, but that verdict predates your last edit".
- `SinkHealth!NewestVerdictKept`: record does not compare the times of the verdicts: one that a replaced instance's probe loop posts after its cancellation overwrites its successor's. internal/controller/sink_controller.go:127 says it stores a verdict "overwriting any older one", internal/controller/sink_controller.go:115 "an older result is not merely redundant but wrong to write".
- `SinkHealth!RefusalDegrades`: When the runtime refuses a configuration Reconcile returns before any condition is written, so the CR keeps whatever it said. internal/controller/sink_controller.go:245 says "so this degrades the CR and retries rather than tearing a working sink down".
- `SinkHealth!EventPerTransition`: The previous condition is taken from the cached copy at the beginning of the pass, while updateStatus retries against fresh ones: a pass that begins before the cache has seen the last status repeats its event. internal/controller/sink_controller.go:434 says a reconcile "emits one event per transition".
- `Warm!HistoryKept`: A close-out carries the timestamp of the last row of the incarnation it closes, so the two have one sort key and the merge keeps only the close-out: the last recorded state of the dead incarnation disappears from the table. deploy/clickhouse/schema/001_resource_states.sql:25 says "A genuinely-distinct event never collides: ts is DateTime64(9) (nanosecond) and frozen per event, so the ORDER BY tuple alone distinguishes real re-inserts from real events."
- `Warm!AddedIsNew`: The cache is loaded and the warm flag read at two moments, with the seed and MarkScopeWarm able to run between them: an object history knows is recorded as Added again. internal/pipeline/process.go:630 says "Tag it Snapshot so a slow or unavailable sink at startup (or when a brand-new rule appears) never masquerades as a mass "Added" duplicate-write storm".
- `Warm!DeathsAlwaysRecorded`: When a successor was observed, deleted and its Deleted row written between the seed's read and the sweep, the key has no entry left: the claim is refused as absent and the death of the incarnation before it is recorded by nobody in this process. internal/pipeline/warm.go:1227 says "Only a UID mismatch leaves something unrecorded".
- `Warm!OneDeletion`: StoreIfAbsent re-seeds a UID whose Deleted row landed between the read of history and the store; the object recreated under that name then closes the UID a second time, at another timestamp. internal/pipeline/process.go:774 says of the claim that the callers "can never both emit a duplicate "Deleted" row for the same disappearance".
- `WarmCoordinator!ServedReadsOpen`: reconcilePool stamps a pass before it installs the interests ScopeDesired is answered from: a boot pass that asks in between stamps its Stopped row later than the Started row of the scope that is just coming up, and the log shows a served scope as closed. internal/pipeline/warm.go:1316 says a Stopped row is written for a scope "that nothing in this process wants any more".
- `WarmCoordinator!WarmIsSeeded`: MarkScopeWarm is called without a look at the context: a run cancelled after its seed marks the scope warm although the scope was stopped, evicted and started again meanwhile. internal/pipeline/warm.go:508 says "Until the seed lands the scope is *not* marked warm, so cache misses are tagged Snapshot rather than Added".
- `WarmCoordinator!ForgottenIsUnmarked`: A boot pass under way when the sink is forgotten sets the mark when it ends, for the sink that is gone. internal/pipeline/warm.go:461 says "Clearing the boot mark is the point. Without it a sink deleted and re-created under the same name would keep its "already boot-reconciled" flag forever".
- `WatchManager!DeathRecorded`: The deletion of an object whose last labels no selector matches is not enqueued, although the change that took it out of the selector was recorded: the sink holds it as living for good. internal/watch/pool.go:454 argues that "skipping the event could strand a recorded object as permanently live in the sink".
- `WatchManager!EvictsTheVanished`: EvictScope drops every entry under the scope's group, kind and namespace, also when another version or the cluster-wide scope still answers for the same objects: their next event is recorded as a new object's. internal/watch/manager.go:591 says "Scopes that vanished are deregistered by that same installation and only *then* evicted".
- `WatchManager!NamedIsDesired`: A target whose kind does not resolve is left out of the interest table, so its scope is not desired. internal/watch/manager.go:550 says "answering "no" for a scope whose informer is merely slow (or whose kind is not installed yet) would close an epoch the very next pass reopens."
- `Resolver!OneGate`: The rule reconcilers and the watch manager are given a Resolver each, so a kind parked by one is asked for again by the other and backs off twice. cmd/main.go:465 says "The resolver is shared with the rule reconcilers so a kind that is not installed yet is retried on one backoff gate rather than two."
- `RuleReconciler!ReadyMeansAll`: When the sink cannot be read, plan returns before any condition is decided; readyFor passes over conditions that are absent and rolls up to Ready=True/Streaming, which is written, while the rule may be refused or have nothing installed. internal/controller/sink_controller.go:395 says "no code path can set Ready=True while something it does not know about is False."
- `RuleReconciler!NotEvaluatedIsUnknown`: A namespace selector that cannot be used ends the plan before the access review, and RBACGranted is left as an earlier pass wrote it, True or False. internal/controller/conditions.go:167 says of NotEvaluated "marks a condition whose gate never ran because an earlier gate already refused the rule. It is Unknown, never False".
- `RuleReconciler!RemovedIsWithdrawn`: A kind that is removed after it resolved stays in the registry, and the rule stays Ready, for as long as the mapper answers for it. internal/watch/resolver.go:237 says of the mapper that it "exposes no Reset()/Invalidate() at all"; what happens to a kind that goes is nowhere said.
- `Normalization!NeverStored`: The labels of a row are taken from the object before redaction, so a path that names a label is scrubbed in data but not in the labels column. api/v1alpha1/shared_types.go:319 says of the paths "a redacted value never reaches ClickHouse".

Five more show up as the conditions of checked properties:

- `ReplayChain` and `PatchRunBounded` speak of undisturbed histories: the diff A to B is
  written although the row for A failed (`process.go:553`), so `docs/SCHEMA.md:772`
  ("the two must match") fails after a failed write.
- `LandsInOrder` ends with the first failed flush: a full or timed-out batch overtakes
  older events that wait in `scopeRetries` (`scopewriter.go:168`; `scopewriter.go:119`
  says events of one scope "must land in the order they happened").
- `EdgesLand` asks for every sink to be routed: `flush` stops at the first event whose
  sink has no writer (`scope_recorder.go:413`), so one sink that stays away holds back
  the others (`sink/scope.go:103`: "for that sink alone").
- `SelectedIsRecorded` leaves out a sink that joined a running informer, or lost one of
  two overlapping scopes and with it the state it was told of: the handler was
  registered once, and an object that never changes again is not recorded there
  (`pool.go:190`).
- `NoPhantomDeath` is not claimed of two items a pass overtook. One was in hand while its
  scope was evicted and records afterwards (`stray`), which the run
  `PipelineFalseDelete` shows in full. The other looked its interests up between the
  deregistration of one of two overlapping scopes and its eviction (`late`): it finds
  only the other scope, whose informer runs but may not have listed
  (`manager.go:486`), while the state of the first is still there.

The instance of `WatchManager` has selectors that name a label. With a negated selector
`LeaverFollowed` fails: a nil label map stands for "no previous object"
(`interest.go:295`).

A sink deleted and created again while its rules stay installed is not warmed again by
the coordinator alone; `WarmedInTheEnd` and `OrphansClosed` leave such a sink out.

### Further properties

The modules define more than the configurations check, each tried with TLC on the
instance of its run: the type invariants; `Pipeline!IndInv` and `Drains`;
`Registry!Converges`; `Resolver!VerdictIsRecent` and `SelfHeals`; `CHWriter!HeldOnce`
and `Stops`; `LossReported`, `HandedInOrder`, `HeldOnce` and `NoneStranded` on the scope
path; `SinkManager!RetiredStops` and `ShutdownEnds`; `SinkHealth!HealthyNeverDegraded`,
`LoopsEnd` and `SchemaCreated`; `Warm!CloseOutsInOrder`, `NoFabrication` and `RunEnds`;
`WarmCoordinator!WarmedInTheEnd` and `StopEnds`; `WatchManager!StartedIsServed`,
`LeaverFollowed` and `WatchConverges`. Adding one to a cfg checks it again.

### Bounds

`Pipeline`: one key, since keys meet only through the sink's capacity and the fault
budget and the proofs cover every set of keys; three changes allow create, remove,
recreate; two hashes allow a return to an earlier state; two faults allow a failure and
the failure of its retry; one pass stops the scope. `PipelineHistory` has five changes,
so that updates come between a create, a remove and a recreate and a run of diffs reaches
the checkpoint (`CheckpointEvery` is 3), a second pass for the restart, four jobs in
flight so that settling order is free, and an Event beside the object (`OneKeyUsed`: a
behaviour uses one of the two). A disturbed history, of which only `EventsNeverDeleted`
says anything there, ends after two changes. The inductive invariant `HistoryInv` was
checked on this instance with four changes, and with seven on one key and two jobs in
flight.

`CHWriter`: two jobs, one of them poisonous, two workers, a queue of one and a batch of
two, so that batches mix guilt and innocence; three attempts and two faults reach the
isolation both ways. `ScopePath`: two sinks and two targets share a scope; a queue of
two overflows on the third transition; one mishap.

`ControlPlane`: two rules, one target key and two selectors, so that one rule holds a
key twice and two rules share it; three edits allow an add, an overlapping add and a
drop. The reconciler has two edits of the world and one fault and starts with a mapper
that knows every kind but one, which it has yet to ask for; the resolver two callers
and three appearances or disappearances of the kind with delays 1, 2, 3.

`SinkManager`: two configurations, three edits (create, recycle, delete or recreate), a
failing factory and a drain timeout. `SinkHealth`: two edits, an outage, a conflict, a
result buffer of one. `Warm`: two incarnations, a crash and a timeout; one scope, two
epochs, a forgotten sink and a failed read for the coordinator; two timeouts and three
epochs were also run, without a difference. `WatchManager`: two sinks that share an
informer, one of them with an overlapping second scope; three edits (two scopes added,
one removed, or one removed and added again), two object changes, a failed start.
`Normalization`: objects, policies and path texts
of up to six words that reach every branch of parser and matcher.

Deadlock is not checked: edits, changes and faults are bounded and the processes may be
stopped, so every model rightly comes to rest; the liveness properties say in what state.

### Fairness

Weak fairness of what a goroutine does by itself: workers take queued keys, writers
settle jobs (bounded retries), the informer lists, a pass that began goes on, the loop
takes a wake-up and its debounce window ends (fixed, not sliding), tickers fire. Nothing
is assumed of users, of the cluster, of the backend or of cancellation. Strong fairness
is used twice: `SinkHealth!PostResult`, because Go hands a freed channel slot to waiting
senders in turn, and `Resolver!Ask`, because a parked rule is requeued at every delay
and the gate is open again and again.

## Proofs

TLC answers for the instances above; the theorems hold for every value of the constants
that satisfies the named assumptions. All are safety: an invariant, an action property,
or a refinement.

| Module | Theorem | States | Inductive invariant |
| --- | --- | --- | --- |
| `PipelineProofs` | `TypeCorrect` | every state is well typed | `TypeOK` |
| | `EventsOutliveTheirTTL` | `EventsNeverDeleted` | `RecordsSound` |
| | `CloseOutsAreKept` | `CloseOutKept` (action) | `RecordsSound` |
| | `CloseOutsAreRetried` | `CloseOutRetryOwed`, if `MaxPasses <= 1` | `RecordsSound`, `StoppedForGood` |
| `PipelineSafetyProofs` | `DeletesAreTrue` | `NoFalseDelete`, if `MaxPasses <= 1` | `IndInv` |
| | `ClaimsAreOwned` | `ClaimHasOwner`, if `MaxPasses <= 1` | `IndInv` |
| | `DeathsArePursued` | `DeletionOwed`, if `MaxPasses <= 1` | `IndInv` |
| `PipelineHistoryProofs` | `HistoryIsRecorded` | `RecordedUndisturbed` | `HistoryInv` |
| | `HistoryReplays` | `ReplayChain` | `HistoryInv` |
| | `PatchRunsAreBounded` | `PatchRunBounded` | `HistoryInv` |
| `ScopeProofs` | `EpochsDoAlternate` | `EpochsAlternate` | `LogInv` |
| | `EpochsAreNotForgotten` | `NoEpochForgotten` | `RecorderInv`, `WriterInv` |
| | `EdgesLandInOrder` | `LandsInOrder` | `RecorderInv`, `WriterInv`, `OrderInv` |
| `WarmProofs` | `WhatIsClosedIsDead` | `ClosedIsDead` | `WarmInv` |
| | `DeathsAreRecorded` | `DeathsRecorded` | `DeathInv` |
| | `OnlyTheCurrentRunWrites` | `LiveRunIsCurrent` | `LifeInv` |
| `CHWriterProofs` | `WriterIsSound`, `JobsAreHeldOnce` | `WriterInv`, `HeldOnce` | `WriterInv` |
| | `OthersDoNotFail` | `OnlyTheGuiltyFail` | `WriterInv` |
| | `ConnectionClosedLast` | `ClosedLast` | `WriterInv` |
| | `WriterKeepsContract` | `KeepsContract` (refinement of `WriteContract`) | `WriterInv` |
| `ControlPlaneProofs` | `MergeIsExact` | `MergedExactly` | `RegistryInv` |
| | `WakeUpsAreNotLost` | `NoLostWakeUp` | itself |
| | `GatesOpenInTime` | `OpensInTime` | `GateInv` |
| | `OnlyTheAdmittedIsInstalled` | `InstalledIsAdmitted` (action) | `RuleInv` |
| | `SteadyTargetsStay` | `KeepsSteady` (action) | `RuleInv` |
| `RuntimeProofs` | `RoutedToARunningSink` | `RoutedRuns` | `RuntimeInv` |
| | `EvictionFollowsDrain` | `EvictsAfterOwnDrain` (action) | `RuntimeInv` |
| | `DeathsAreReal` | `NoPhantomDeath` (action) | `WatchInv` |
| | `ReadinessIsEarned` | `ReadyEarned` | `HealthInv` |

In each proof module `USE ZenonT(60)` makes Zenon, with a limit of 60 seconds, the prover
of every leaf that names none; a leaf with arithmetic cites `SMTT(60)`, a temporal one `PTL`.

The three pipeline modules build on each other: `PipelineProofs` has the types, the
effects of the cache operations and of a step of `Process`, `PipelineSafetyProofs` the
invariant of the deletions, `PipelineHistoryProofs` that of the history. Components
proved in one module share no variable, and their theorems are independent.

**The pipeline.** `NoFalseDelete` alone is not inductive: that a Deleted record names a
dead object follows from what the worker knew when it claimed the entry. `IndInv` says
what each position of a call knows (`WorkSound`), what each cache entry and each job in
flight stand for (`SlotSound`, `JobsSound`), that reads and the informer never run ahead
of the cluster (`ReadInOrder`), and that a key whose entry is out of date has a work
item coming (`StaleIsDirty`). `MaxPasses <= 1` says that the scope is not watched again
after it stopped; the run of `PipelineFalseDelete` shows that the statement fails
without it. The records of deletions need less, and hold through any number of restarts.

**The history.** The three statements are about durable rows, which arrive in any order,
so none of them is inductive. `HistoryInv` speaks of the records issued for a key
instead: its rows, the jobs in flight and the record in the hands of its Process call
(`Issued`). Three steps issue a record, each with a timestamp of its own: `ClaimDelete`,
`ClaimOldIncarnation` and `ReserveVersion`. Enqueueing and settling leave the set as it
is. The slot describes the record issued last and counts the diffs since the last full
one (`SlotTrue`); a write in flight carries a version that is not above the slot's, and
an equal one only if the slot is its own (`VersionsHeld`), so that a Commit changes
nothing; what a call holds is the object it read (`CallTrue`), and what is not queued has
been read and issued (`SeenTrue`). A diff therefore patches the record issued before it,
and a full one is fewer than `CheckpointEvery` records back (`DiffsTrue`). For a quiet
key the issued records are the rows. "Fewer than" is stated by numbering
(`Numbered`: an injection into `1 .. n`), which needs no theory of cardinality. The
theorems have no assumption on the number of passes or faults: they are hypotheses of
the statements, through `Undisturbed`.

**Warm-up.** A close-out is made from what a read of the table said some time ago.
`WarmInv` keeps what was true then and stays true: UIDs only grow, whatever the store,
the run and the running call mention is at most the newest one (`Views`), the rows of a
later incarnation are dated later (`RecordsSound`), so an incarnation that is not the
last of the history is dead, and the last one is closed only on the word of an informer
that has listed (`RunSound`, `ProcSound`). The numbers of incarnations, crashes and
expiries are free.

That the dead are closed at rest (`DeathsRecorded`) is a statement about the end of work
that many hands share, and `DeathInv` names the hands. Every recorded incarnation is
closed, or is held: by the cache entry that stands for it, by a claim about to be
stamped, or by the run that read it (`Tracked`, `Held`). An entry that does not stand for
what the informer holds has a work item or the run coming for it (`EntryAnswered`), and a
running call has read what the informer holds or its key is queued again (`CallFresh`,
`CallHolds`). While the run is under way and nothing is deleted, only the object that
exists is upserted, and the run's prior incarnations get no later record (`Calm`,
`RunCalm`). Closed means that a Deleted record is not older than any other of the
incarnation, on its way or inserted, and that survives the merge of rows because records
of one instant are of one incarnation and the later ones of them are ends
(`SameInstant`). This part is only claimed while the property's own hypotheses hold
(`Served`: the scope was left open, no recovery gave up, nothing was deleted meanwhile);
`Ledger`, which dates records and numbers claims, always holds. At rest nobody holds
anything but the entry of the object that exists.

Of the coordinator's runs (`LifeInv`): a request that waits for Start is the only one of
its scope and of the epoch that is served, or its scope is being stopped; a scope that is
about to be started has no request and no run that was not cancelled (`Unclaimed`).

**The writer.** A job is in one place until its callback fires, so a callback is its
first (`HeldOnce`, `SettledOnce`); a worker that reports a batch without isolation holds
rows that have landed (`Positions`); nothing is sent after the channel is closed
(`Shutdown`). `Fate` maps a job's state to the contract's, and every step is a step of
`WriteContract` or leaves it unchanged. `Workers` must not be empty.

**The scope log.** The log of what happened alternates because a scope's set of targets
is empty exactly before its first Started and after a Stopped (`LogInv`). An edge is queued,
was lost to a counted overflow, or was handed to its sink, in ascending order
(`RecorderInv`); what the writer accepted is in its channel, batch, flight or retry queue,
inserted, or counted as overflowed (`WriterInv`). As long as no flush failed and the
writer is not cancelled there are no retries, and inserts, flight, batch and channel are
one ascending sequence (`OrderInv`). All limits and numbers of sinks, scopes and targets
are free.

**The registry.** The counts of an entry equal the number of claims with its key,
selector and redaction (`RegistryInv`): an Upsert drops the rule's old claims and adds
the new ones, so an entry is removed exactly with the last claim on its key. The sets of
rules and targets are finite.

**Resolver and rule reconciler.** What is left of a gate's delay and the calm since the
last failure add up to at most `MaxDelay` (`GateInv`); `ResolverAssumption` says that the
first delay is not above the cap, as the code's constants are. `RuleInv` relates each
stage of a pass to what it has read (`PassSound`) and to the history variable `steady`
(`SteadySound`): what was wanted throughout is in every intermediate plan. A resolution
adds to what the mapper answers and takes nothing away, and more kinds only add to what
is wanted (`WantedGrows`).

**Runtime.** Instances, tails and states are numbered and never renumbered; a tail past
its drain has seen its instance done unless a drain timed out, and a job is accepted only
by an instance that is not done (`DrainSound`).

A sink that was told of the object that lives has an interest whose informer saw it, or a
pass under way that will evict it (`Told`). The same is known of the interests an item
holds, which are installed or about to be settled unless an eviction has cut the item
off (`LookupSound`), and of what it found (`AnswerSound`); an item that was cut off finds
the sink's state evicted (`CutIsEvicted`). So an item that takes the object for deleted
has asked the informer that saw it. There is no assumption on sinks, versions,
namespaces, selectors or the numbers of edits.

Good news about a sink, wherever it
is between the probe and the CR (a loop's hands, the channel, the store, a pass that has
decided), follows a probe that succeeded (`HealthInv`).

**Only model-checked.** Liveness under fairness (`GoneIsSettled`, `CloseOutsReachSink`,
`SettlesAccepted`, `EdgesLand`, `Converges`, `Truthful`, `RegistryFollowsRule`,
`StatusTruthful`, `OrphansClosed`, `SelectedIsRecorded`) is beyond the prover. The
results of `Normalization` (`StoredAsAsked`, `ParsesExactly`, `SharedUntouched`) are about
recursive operators, whose meaning for every input needs induction over data.

## Not modelled

API types and generated code; SQL text and row decoding; flag parsing, construction
order and gauges other than the rule gauge; messages and logging; the compression of
cached JSON. Cancellation of an informer that does not stop in time.
