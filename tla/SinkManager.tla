----------------------------- MODULE SinkManager -----------------------------
(***************************************************************************)
(* The sink runtime, internal/sink/manager.go, for one sink name: an       *)
(* instance is built, routed to, replaced, withdrawn and drained while the *)
(* pipeline hands it jobs, and a deletion's background tail evicts what    *)
(* the pipeline and the warm coordinator remember of the name.  Names are  *)
(* independent of each other but for the shutdown, which takes all.        *)
(*                                                                         *)
(* The SinkReconciler is level triggered: it declares the sink whenever    *)
(* the CR changes, and again after an error.  An instance is what          *)
(* WriteContract says of a writer: it settles what it accepted.            *)
(***************************************************************************)
EXTENDS Naturals, Sequences, FiniteSets

CONSTANTS
    Configs,           \* fingerprints a CR of this name may resolve to
    None,              \* no CR, no configuration
    Jobs,              \* work items of the pipeline, one Process call each
    MaxEdits,          \* bound: changes of the CR; also bounds deletion tails
    MaxBuildFailures,  \* bound: calls of the factory that fail
    MaxTimeouts        \* bound: drains that exceed the drain timeout

ASSUME SinkManagerAssumption ==
    /\ None \notin Configs
    /\ MaxEdits \in Nat /\ MaxBuildFailures \in Nat /\ MaxTimeouts \in Nat

VARIABLES
    phase,      \* "new" until Start, "running", "stopping", "stopped"
    ctxDone,    \* the manager's context is cancelled
    pending,    \* the configuration an Ensure left before Start, or None
    inst,       \* the instances built so far, by number
    live,       \* the routed instance, 0 for none
    tails,      \* the background tails of Delete, by number
    state,      \* the pipeline's sinkState of the name: its number, 0 for none
    states,     \* the incarnations for which the sinkStates so far were created
    boot,       \* the incarnation the coordinator's boot mark was made for, 0 for none
    job,        \* the Process calls
    desired,    \* the CR: a configuration, or None
    dirty,      \* the reconciler has the name in its queue
    incarnation,\* one more than the deletions the reconciler passed on
    edits, buildFailures, timeouts   \* counted against their bounds

managerVars == <<phase, ctxDone, pending, inst, live, tails>>
pipelineVars == <<state, states, boot, job>>
crVars == <<desired, dirty, incarnation, edits>>
vars == <<managerVars, pipelineVars, crVars, buildFailures, timeouts>>

Instances == DOMAIN inst

Stages == {"running", "retired", "cancelled", "done"}

NoJob == [at |-> "idle", inst |-> 0, state |-> 0]

TypeOK ==
    /\ phase \in {"new", "running", "stopping", "stopped"}
    /\ pending \in Configs \cup {None}
    /\ \A i \in Instances : inst[i].config \in Configs /\ inst[i].stage \in Stages
    /\ live \in {0} \cup Instances
    /\ \A t \in DOMAIN tails : tails[t].at \in {"draining", "checking", "evicting", "forgetting", "done"}
    /\ \A j \in Jobs : job[j].at \in {"idle", "routed", "holding", "accepted", "settled", "refused"}

Init ==
    /\ phase = "new"
    /\ ctxDone = FALSE
    /\ pending = None
    /\ inst = <<>>
    /\ live = 0
    /\ tails = <<>>
    /\ state = 0
    /\ states = <<>>
    /\ boot = 0
    /\ job = [j \in Jobs |-> NoJob]
    /\ desired = None
    /\ dirty = FALSE
    /\ incarnation = 1
    /\ edits = 0 /\ buildFailures = 0 /\ timeouts = 0

-----------------------------------------------------------------------------
\* The CR is created, edited or deleted; the reconciler is told.
EditCR(config) ==
    /\ edits < MaxEdits
    /\ config # desired
    /\ desired' = config
    /\ dirty' = TRUE
    /\ edits' = edits + 1
    /\ UNCHANGED <<managerVars, pipelineVars, incarnation, buildFailures, timeouts>>

\* RequeueAfter, and the retry of a Reconcile that failed.
Resync ==
    /\ desired # None /\ ~dirty
    /\ dirty' = TRUE
    /\ UNCHANGED <<managerVars, pipelineVars, desired, incarnation, edits, buildFailures, timeouts>>

NewInstance(config) == [config |-> config, incarnation |-> incarnation, stage |-> "running"]

\* What is stopped already stays so.
Retire(i) == [inst EXCEPT ![i].stage = IF @ = "done" THEN "done" ELSE "retired"]

\* Mutant: the old instance is stopped before the new one is routed to.
EnsureLockedDrainsFirst(config) ==
    IF live # 0 /\ inst[live].config = config
    THEN UNCHANGED <<inst, live>>
    ELSE IF live # 0 /\ inst[live].stage = "running"
         THEN inst' = Retire(live) /\ UNCHANGED live
         ELSE /\ inst' = Append(inst, NewInstance(config))
              /\ live' = Len(inst) + 1

\* ensureLocked with a factory that succeeds: start the new instance, swap, and
\* leave the old one to a background drain.
EnsureLocked(config) ==
    IF live # 0 /\ inst[live].config = config
    THEN UNCHANGED <<inst, live>>
    ELSE LET kept == IF live = 0 THEN inst ELSE Retire(live)
         IN  /\ inst' = Append(kept, NewInstance(config))
             /\ live' = Len(inst) + 1

\* Start: what was declared before is brought up.
StartManager ==
    /\ phase = "new"
    /\ phase' = "running"
    /\ pending' = None
    /\ IF pending = None THEN UNCHANGED <<inst, live>> ELSE EnsureLocked(pending)
    /\ UNCHANGED <<ctxDone, tails, pipelineVars, crVars, buildFailures, timeouts>>

\* Start, when the factory fails: only the log says so.
StartManagerFails ==
    /\ phase = "new" /\ pending # None
    /\ buildFailures < MaxBuildFailures
    /\ buildFailures' = buildFailures + 1
    /\ phase' = "running"
    /\ pending' = None
    /\ UNCHANGED <<ctxDone, inst, live, tails, pipelineVars, crVars, timeouts>>

\* Reconcile of a CR that exists; a manager that is shutting down refuses.
Ensure ==
    /\ dirty /\ desired # None /\ phase \in {"new", "running"}
    /\ dirty' = FALSE
    /\ IF phase = "new"
       THEN pending' = desired /\ UNCHANGED <<inst, live>>
       ELSE EnsureLocked(desired) /\ UNCHANGED pending
    /\ UNCHANGED <<phase, ctxDone, tails, pipelineVars, desired, incarnation, edits, buildFailures, timeouts>>

\* The factory fails: the previous instance stays, and the reconciler retries.
EnsureFails ==
    /\ dirty /\ desired # None /\ phase = "running"
    /\ ~(live # 0 /\ inst[live].config = desired)
    /\ buildFailures < MaxBuildFailures
    /\ buildFailures' = buildFailures + 1
    /\ UNCHANGED <<managerVars, pipelineVars, crVars, timeouts>>

\* Mutant: what waits for Start outlives the deletion.
DeleteKeepsPending ==
    /\ dirty /\ desired = None /\ phase \in {"new", "running"}
    /\ dirty' = FALSE
    /\ incarnation' = incarnation + 1
    /\ live' = 0
    /\ inst' = IF live = 0 THEN inst ELSE Retire(live)
    /\ tails' = Append(tails, [inst |-> live, at |-> "draining"])
    /\ UNCHANGED <<phase, ctxDone, pending, pipelineVars, desired, edits, buildFailures, timeouts>>

\* Reconcile of a CR that is gone: routing is withdrawn at once, the rest is left
\* to a tail, also for a name that was never live.
Delete ==
    /\ dirty /\ desired = None /\ phase \in {"new", "running"}
    /\ dirty' = FALSE
    /\ pending' = None
    /\ incarnation' = incarnation + 1
    /\ live' = 0
    /\ inst' = IF live = 0 THEN inst ELSE Retire(live)
    /\ tails' = Append(tails, [inst |-> live, at |-> "draining"])
    /\ UNCHANGED <<phase, ctxDone, pipelineVars, desired, edits, buildFailures, timeouts>>

-----------------------------------------------------------------------------
\* drain: the instance is cancelled.
CancelInstance(i) ==
    /\ inst[i].stage = "retired"
    /\ inst' = [inst EXCEPT ![i].stage = "cancelled"]
    /\ UNCHANGED <<phase, ctxDone, pending, live, tails, pipelineVars, crVars, buildFailures, timeouts>>

\* The instance's own Start returns, once it has settled what it accepted; its
\* context is a child of the manager's.
InstanceDone(i) ==
    /\ inst[i].stage = "cancelled" \/ (ctxDone /\ inst[i].stage # "done")
    /\ \A j \in Jobs : ~(job[j].at = "accepted" /\ job[j].inst = i)
    /\ inst' = [inst EXCEPT ![i].stage = "done"]
    /\ UNCHANGED <<phase, ctxDone, pending, live, tails, pipelineVars, crVars, buildFailures, timeouts>>

TailMoves(t, from, to) ==
    /\ tails[t].at = from
    /\ tails' = [tails EXCEPT ![t].at = to]
    /\ UNCHANGED <<phase, ctxDone, pending, inst, live, crVars, buildFailures>>

\* Mutant: the tail does not wait for the instance.
DrainedAtOnce(t) ==
    /\ TailMoves(t, "draining", "checking")
    /\ UNCHANGED <<pipelineVars, timeouts>>

\* finishDelete: the drain ends.
Drained(t) ==
    /\ tails[t].inst # 0 => inst[tails[t].inst].stage = "done"
    /\ TailMoves(t, "draining", "checking")
    /\ UNCHANGED <<pipelineVars, timeouts>>

DrainTimesOut(t) ==
    /\ tails[t].inst # 0 /\ inst[tails[t].inst].stage = "cancelled"
    /\ timeouts < MaxTimeouts
    /\ timeouts' = timeouts + 1
    /\ TailMoves(t, "draining", "checking")
    /\ UNCHANGED pipelineVars

\* Under the lock: a sink that was created again keeps its state.
CheckRecreated(t) ==
    /\ TailMoves(t, "checking", IF live # 0 THEN "done" ELSE "evicting")
    /\ UNCHANGED <<pipelineVars, timeouts>>

\* The lock is free again when RemoveSink runs.
RemoveSink(t) ==
    /\ TailMoves(t, "evicting", "forgetting")
    /\ state' = 0
    /\ UNCHANGED <<states, boot, job, timeouts>>

\* ForgetSink, then the rules that named the sink are reconciled again.
ForgetSink(t) ==
    /\ TailMoves(t, "forgetting", "done")
    /\ boot' = 0
    /\ UNCHANGED <<state, states, job, timeouts>>

FinishDelete(t) == Drained(t) \/ CheckRecreated(t) \/ RemoveSink(t) \/ ForgetSink(t)

-----------------------------------------------------------------------------
\* Process: WriterFor, then the sinkState, created on first use.
WriterFor(j) ==
    /\ job[j].at = "idle" /\ live # 0
    /\ job' = [job EXCEPT ![j] = [@ EXCEPT !.at = "routed", !.inst = live]]
    /\ UNCHANGED <<managerVars, state, states, boot, crVars, buildFailures, timeouts>>

GetState(j) ==
    /\ job[j].at = "routed"
    /\ states' = IF state = 0 THEN Append(states, inst[job[j].inst].incarnation) ELSE states
    /\ state' = IF state = 0 THEN Len(states) + 1 ELSE state
    /\ job' = [job EXCEPT ![j] = [@ EXCEPT !.at = "holding", !.state = state']]
    /\ UNCHANGED <<managerVars, boot, crVars, buildFailures, timeouts>>

\* The instance accepts until it starts closing, which it does some time after it
\* was cancelled.
Enqueue(j) ==
    /\ job[j].at = "holding"
    /\ job' = [job EXCEPT ![j].at =
                IF inst[job[j].inst].stage = "done" THEN "refused" ELSE "accepted"]
    /\ UNCHANGED <<managerVars, state, states, boot, crVars, buildFailures, timeouts>>

EnqueueRefused(j) ==
    /\ job[j].at = "holding"
    /\ inst[job[j].inst].stage = "cancelled" \/ ctxDone
    /\ job' = [job EXCEPT ![j].at = "refused"]
    /\ UNCHANGED <<managerVars, state, states, boot, crVars, buildFailures, timeouts>>

\* The commit callback, on the sinkState the job reserved its version in.
Settle(j) ==
    /\ job[j].at = "accepted"
    /\ job' = [job EXCEPT ![j].at = "settled"]
    /\ UNCHANGED <<managerVars, state, states, boot, crVars, buildFailures, timeouts>>

\* The coordinator reconciles the epochs of a live sink once (warm.go).
MarkBootReconciled ==
    /\ live # 0 /\ boot = 0
    /\ boot' = inst[live].incarnation
    /\ UNCHANGED <<managerVars, state, states, job, crVars, buildFailures, timeouts>>

-----------------------------------------------------------------------------
Cancel ==
    /\ phase = "running" /\ ~ctxDone
    /\ ctxDone' = TRUE
    /\ UNCHANGED <<phase, pending, inst, live, tails, pipelineVars, crVars, buildFailures, timeouts>>

\* Start: no Ensure and no Delete from here on; routing is emptied.
StopRouting ==
    /\ phase = "running" /\ ctxDone
    /\ phase' = "stopping"
    /\ live' = 0
    /\ UNCHANGED <<ctxDone, pending, inst, tails, pipelineVars, crVars, buildFailures, timeouts>>

\* Start: wg.Wait returns.
ManagerStopped ==
    /\ phase = "stopping"
    /\ \A i \in Instances : inst[i].stage = "done"
    /\ \A t \in DOMAIN tails : tails[t].at = "done"
    /\ phase' = "stopped"
    /\ UNCHANGED <<ctxDone, pending, inst, live, tails, pipelineVars, crVars, buildFailures, timeouts>>

Reconcile == Ensure \/ EnsureFails \/ Delete

Process(j) == WriterFor(j) \/ GetState(j) \/ Enqueue(j) \/ EnqueueRefused(j) \/ Settle(j)

Next ==
    \/ \E config \in Configs \cup {None} : EditCR(config)
    \/ Resync
    \/ StartManager \/ StartManagerFails
    \/ Reconcile
    \/ \E i \in Instances : CancelInstance(i) \/ InstanceDone(i)
    \/ \E t \in DOMAIN tails : FinishDelete(t) \/ DrainTimesOut(t)
    \/ \E j \in Jobs : Process(j)
    \/ MarkBootReconciled
    \/ Cancel \/ StopRouting \/ ManagerStopped

Spec == Init /\ [][Next]_vars

(***************************************************************************)
(* The manager is started, the reconciler works off its queue, instances   *)
(* settle what they accepted (WriteContract) and stop, background tails    *)
(* keep running.  A failing factory is retried, so it may not fail for     *)
(* ever: MaxBuildFailures.                                                 *)
(***************************************************************************)
Fairness ==
    /\ WF_vars(StartManager \/ StartManagerFails)
    /\ WF_vars(Resync) /\ WF_vars(Ensure) /\ WF_vars(Delete)
    /\ \A i \in 1 .. MaxEdits : WF_vars(i \in Instances /\ (CancelInstance(i) \/ InstanceDone(i)))
    /\ \A t \in 1 .. MaxEdits : WF_vars(t \in DOMAIN tails /\ FinishDelete(t))
    /\ \A j \in Jobs : WF_vars(Enqueue(j)) /\ WF_vars(Settle(j))
    /\ WF_vars(StopRouting) /\ WF_vars(ManagerStopped)

FairSpec == Spec /\ Fairness

-----------------------------------------------------------------------------
\* A work item is never routed to an instance that was told to stop, before the
\* shutdown begins (ensureLocked: the swap comes before the drain; Delete).
RoutedRuns == live # 0 /\ ~ctxDone => inst[live].stage = "running"

\* The last word of the CR is what runs, whatever came before it: a declaration
\* before Start, a failing factory, a deletion and a recreation that overlap.
Converges ==
    <>[](\/ ctxDone
         \/ (desired = None /\ live = 0)
         \/ (live # 0 /\ inst[live].config = desired))

\* An instance that is no longer routed to stops: its connection is closed.
RetiredStops ==
    \A i \in 1 .. MaxEdits :
        (i \in Instances /\ i # live) ~> (i \in Instances /\ inst[i].stage = "done")

\* Start returns after a cancellation, with every instance and every tail done.
ShutdownEnds == ctxDone ~> phase = "stopped"

\* A deletion's tail evicts the name only after every job its own instance
\* accepted is settled, unless the drain timed out (Delete: RemoveSink comes
\* strictly after the drain).
EvictsAfterOwnDrain ==
    [][\A t \in DOMAIN tails : timeouts = 0 /\ RemoveSink(t) =>
          \A j \in Jobs : ~(job[j].at = "accepted" /\ job[j].inst = tails[t].inst)]_vars

-----------------------------------------------------------------------------
\* What the comments of the code say and TLC refutes on the instance of MCSinkManager;
\* no run checks these.

\* RemoveSink never drops the state of a sink that is live again (finishDelete:
\* "Evicting now would drop *its* state").
EvictsOnlyTheGone == [][\A t \in DOMAIN tails : RemoveSink(t) => live = 0]_vars

\* A sink created again has a sinkState of its own (finishDelete: "already has a
\* live instance and a fresh hashCache under this name").
FreshCache ==
    \A j \in Jobs : job[j].at \in {"holding", "accepted"} /\ job[j].inst = live =>
        states[job[j].state] = inst[live].incarnation

\* A sink created again is boot-reconciled again: a live sink's boot mark is of
\* its own incarnation (WarmHooks: "boot-reconciled again instead of inheriting a
\* stale "already done" mark").
BootMarkIsOwn == live # 0 /\ boot # 0 => boot = inst[live].incarnation

\* A work item that arrives during shutdown is told there is no writer (Start:
\* "rather than handed a writer that is closing its connection").
NotRoutedWhenClosing == live # 0 => inst[live].stage \notin {"cancelled", "done"}
=============================================================================
